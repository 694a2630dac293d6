SPECIFICATION SpecHeaderOptions
CONSTANTS
  Rows = {"namerow"}
  Lines = {"nameline"}
  Settings = {2, 3}
  DefaultRow = 1
INVARIANT HeadersAgreeAlways
