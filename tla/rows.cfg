\* Every layout of a field, with one row of three items or two rows of two; and
\* sheets of three rows, for every layout and option.
SPECIFICATION SpecRows
CONSTANTS
  Empty = Empty
  None = None
  Inputs <- MCInputs
  MaxRows = 3
  Options <- MCOptions
  RowsOf <- MCRowsOf
CHECK_DEADLOCK FALSE
INVARIANTS
  RowIsReference
  ValuesUnique
  KeysDistinct
  KeysInSequence
  TagsChecked
  RowsKept
  RepeatedKeyFails
PROPERTY RowTouchesOneRecord
