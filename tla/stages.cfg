SPECIFICATION SpecStages
CONSTANTS
  StageNames = {"index", "errors", "books", "options", "headers", "rows", "types", "documents", "numbers", "values", "inner", "merging", "storing", "loading"}
  \* WorkbookIndex
  ProtoNames = {1, 2}
  BookDirs <- MCBookDirs
  BookFiles <- MCBookFiles
  PrimaryNames = {"x"}
  Patterns = {{"y"}, {"x", "y"}}
  MaxFacts = 3
  MaxAsked = 2
  \* ErrorValues
  SheetValues = {"A", "B"}
  MaxErrorOps = 5
  \* Books
  SheetNames = {"A", "B"}
  MaxBookRows = 3
  DefaultTopN = 2
  MaxSheets = 4
  \* HeaderOptions
  Rows = {"namerow"}
  Lines = {"nameline"}
  Settings = {2, 3}
  DefaultRow = 1
  \* the types of cells
  ScalarTypes = {"int32", "string", "uint32"}
  WellKnownTypes = {"datetime"}
  PredefinedTypes = {".Color", ".Item"}
  EnumTypes <- MCEnumTypes
  TypeInfos <- MCTypeInfos
  \* SheetHeaders
  Shapes <- Fewer
  Words <- MCWords
  MaxFields = 3
  MaxBlanks = 1
  Elements = 2
  \* DataRows
  TableColumns <- MCTableColumns
  Data = {"a", "b"}
  MaxDataRows = 3
  MaxCells = 7
  \* TypeSheets
  TypeKinds = {"enum", "struct", "union"}
  TypeNames = {"T", "U"}
  ValueNames = {"x", "y"}
  NumberCells = {"", "0", "1", "z"}
  NumberOf <- MCNumberOf
  MaxBlocks = 2
  MaxValues = 2
  \* DocumentSheets
  Items <- MCItems
  ItemNames <- MCItemNames
  Texts = {"", "1"}
  \* FieldNumbers
  f1 = f1
  f2 = f2
  f3 = f3
  ItemType = ItemType
  HeroType = HeroType
  Sheet = Sheet
  Scalar = Scalar
  None = None
  AllSheets = TRUE
  FieldNames <- MCFieldNames
  Nested <- MCNested
  Schemas <- MCSchemas
  MaxGenerations = 3
  MaxNumber = 9
  \* Values
  Half32 = 2
  Half64 = 8
  MaxHalves = 18
  Limits <- MCLimits
  MaxFraction = 300
  MaxPart = 2
  MaxParts = 3
  \* InnerMessages
  CaseNames <- MCCaseNames
  CaseAliases = {"x", "z"}
  Holdings <- MCHoldings
  InnerColumns <- MCInnerColumns
  InnerCells <- MCInnerCells
  MaxInnerFacts = 4
  \* MergeReduce
  impA = impA
  impB = impB
  impC = impC
  Importers = {impA, impB, impC}
  Maps = {"m1", "m2"}
  Lists = {"l1", "l2"}
  Singles = {"s"}
  Keys = {1, 2, 3}
  Contents <- MCContents
  \* Storing
  OutBooks <- MCOutBooks
  MainBook <- MCMainBook
  ConfSamples <- MCConfSamples
  RefusedOne = 2
  Zones <- MCZones
  LowestTime <- MCLowestTime
  HighestTime = 8
  MaxOutFacts = 4
  \* Loading
  MapKeys = {"a", "b"}
  Patches = 2
  MaxLeaves = 3
  MaxSetters = 2
INVARIANTS
  BookHoldsWhatIsNamed
  HeadersAgree
  HeaderIsUnderstood
  RowsAsMeant
  TypesExported
  TransposeIsInvisible
  DocumentReadAsWritten
  ValuesKeepMeaning
  LoadedAsPatched
  IndexIsExact
  ErrorsDescribed
  InnerAsWritten
  ExportsAreLoadable
PROPERTIES
  NestedFieldsKeepNumbers
  ImplementsLedger
  MergeIsKeyedUnion
