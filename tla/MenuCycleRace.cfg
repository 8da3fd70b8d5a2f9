CONSTANTS
  Requests = {r1, r2}
  StoreFaults = FALSE
  Calls <- MutualMoves
  InitialMenus <- SeedMenus
  FirstMenuID = 5
  StoredPermissions <- SeedPermissions
  SeedRows <- SystemSeed
  MaxSeedRuns = 0
SPECIFICATION Spec
INVARIANTS NoCycles
