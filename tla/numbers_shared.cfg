CONSTANTS
  f1 = f1
  f2 = f2
  f3 = f3
  ItemType = ItemType
  HeroType = HeroType
  Sheet = Sheet
  Scalar = Scalar
  None = None
  AllSheets = FALSE
  FieldNames <- MCFieldNames
  Nested <- MCNested
  Schemas <- MCSchemas
  MaxGenerations = 3
  MaxNumber = 9
SPECIFICATION SpecNumbers
CHECK_DEADLOCK FALSE
PROPERTIES
  NestedFieldsKeepNumbers
