CONSTANTS
  Requests = {r1, r2}
  StoreFaults = FALSE
  Calls <- MutualRemovals
  InitialUsers <- TwoAdministrators
  InitialRoles <- SeedRoles
  FirstUserID = 3
  FirstRoleID = 3
  NoUser = NoUser
  PageSize = 100
  Catalog <- SystemCatalog
  AcceptablePasswords <- GoodPasswords
SYMMETRY Symmetry
SPECIFICATION Spec
PROPERTIES AdministratorAlwaysKept
