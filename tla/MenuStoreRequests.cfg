CONSTANTS
  Requests = {r1, r2, r3}
  NoRequest = NoRequest
  Calls <- MenuCalls
  InitialMenus <- SeedMenus
  FirstMenuID = 5
SPECIFICATION FairSpec
INVARIANTS TypeOK
PROPERTIES ImplementsForest RequestsAnswered
