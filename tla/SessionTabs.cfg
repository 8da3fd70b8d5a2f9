CONSTANTS
  Users = {ann}
  Tabs = {t1, t2}
  Calls = {c1, c2}
  TTL = 1
  MaxTime = 1
  StoreFaults = TRUE
  None = None
SYMMETRY Symmetry
SPECIFICATION Spec
INVARIANTS TypeOK StaleTokensRefused LastWriterInSync
PROPERTIES ShellNeedsProfile
