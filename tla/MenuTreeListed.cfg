CONSTANTS
  Inputs <- AllMenus
  Grants <- ProfileGrants
SPECIFICATION TreeSpec
INVARIANTS TreeMatchesRows TreeCheckSound ProfileShowsAllowed
