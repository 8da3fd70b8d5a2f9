CONSTANTS
  Users = {ann}
  Tabs = {t1}
  Calls = {c1, c2}
  TTL = 1
  MaxTime = 1
  StoreFaults = FALSE
  None = None
SYMMETRY Symmetry
SPECIFICATION Spec
PROPERTIES UnauthorizedMeansBadToken
