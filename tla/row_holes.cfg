\* One row with three items for the list and three for the map.
SPECIFICATION SpecRecord
CONSTANTS
  Empty = Empty
  None = None
  Inputs <- MCInputs
  MapInputs <- MCMapInputs
CHECK_DEADLOCK FALSE
INVARIANT HolesRefused
