SPECIFICATION Spec
CONSTANTS
  t1 = t1
  t2 = t2
  x = x
  Books <- MCBooks
  Documents <- MCDocuments
  SheetsOf <- MCSheetsOf
  Kind <- MCKind
  Declares <- MCDeclares
  Fields <- MCFields
  Types <- MCTypes
  Scalar = "scalar"
  ProtoPath <- SamePath
  Entries <- MCEntries
  TopDirs <- MCTopDirs
  MaxErrors = 2
  MaxErrorsPerBook = 2
  MaxErrorsPerSheet = 2
  Root = gen
  Inputs <- SoundInputs
PROPERTY NoOverwrite
