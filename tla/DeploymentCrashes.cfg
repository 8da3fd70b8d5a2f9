CONSTANTS
  Processes = {p1, p2, p3}
  Kinds = {"development", "plain", "production", "migrate", "seed", "admin"}
  Files = 2
  AdminNames <- Usernames
  InitialDatabases <- Databases
SYMMETRY Symmetry
SPECIFICATION Spec
INVARIANTS TypeOK MigrationsOnceInOrder ServingHasAdministrator StartAloneSucceeds
PROPERTIES AdminCreationRefused
CHECK_DEADLOCK FALSE
