CONSTANTS
  Requests = {r1, r2}
  StoreFaults = TRUE
  Calls <- AllCalls
  InitialAccounts <- SeedAccounts
  InitialUserRoles <- SeedUserRoles
  InitialRoles <- SeedRoles
  FirstUserID = 4
  FirstRoleID = 3
  NoUser = NoUser
  StoredPermissions <- SeedPermissions
  PageSize = 2
  Catalog <- SystemCatalog
  AcceptablePasswords <- GoodPasswords
SPECIFICATION FairSpec
INVARIANTS TypeOK AnswersFitEffects
PROPERTIES ImplementsDirectory RefusalJustified KeepsRolesKnown RequestsAnswered
