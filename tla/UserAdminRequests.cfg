CONSTANTS
  Requests = {r1, r2}
  StoreFaults = TRUE
  Calls <- AllCalls
  InitialUsers <- UsersWithSecond
  InitialRoles <- SeedRoles
  FirstUserID = 4
  FirstRoleID = 3
  NoUser = NoUser
  PageSize = 1
  Catalog <- SystemCatalog
  AcceptablePasswords <- GoodPasswords
SPECIFICATION Spec
INVARIANTS TypeOK AuditTrail
PROPERTIES ImplementsDirectory SelfServiceWritesOwnFields WritesAreAuthorized KeepsAdministrator KeepsRolesKnown
