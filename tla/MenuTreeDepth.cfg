CONSTANTS
  Inputs <- ThreeLevels
  Grants <- ProfileGrants
SPECIFICATION TreeSpec
INVARIANTS AllowedMenusShown
