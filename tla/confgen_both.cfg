SPECIFICATION Spec
CONSTANTS
  b1 = b1
  b2 = b2
  s1 = s1
  s2 = s2
  s3 = s3
  s4 = s4
  i1 = i1
  i2 = i2
  i3 = i3
  i4 = i4
  x2 = x2
  Root = root
  Books = {b1, b2}
  Sheets = {s1, s2, s3, s4}
  Importers = {i1, i2, i3, i4, x2}
  SheetsOf <- TwoBooks
  Main <- MainOf
  Extra <- ExtraOfS2
  Documents = {i3}
  MaxErrors = 2
  MaxErrorsPerBook = 2
  MaxErrorsPerSheet = 2
  MaxErrorsPerMessage = 1
  Inputs <- BothInputs
INVARIANTS
  SuccessMeansComplete
  TaintedOnlyWhenFull
  MissingIsReported
  CleanSheetsExported
PROPERTY Terminates
