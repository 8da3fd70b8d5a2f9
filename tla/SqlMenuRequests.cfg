CONSTANTS
  Requests = {r1, r2}
  StoreFaults = TRUE
  Calls <- MenuCalls
  InitialMenus <- SeedMenus
  FirstMenuID = 5
  StoredPermissions <- SeedPermissions
  SeedRows <- SystemSeed
  MaxSeedRuns = 2
SPECIFICATION FairSpec
INVARIANTS TypeOK AnswersFitEffects
PROPERTIES ImplementsForest RowsStayDistinct SeedIdempotent RequestsAnswered
