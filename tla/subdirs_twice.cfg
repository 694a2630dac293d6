SPECIFICATION SpecIndex
CONSTANTS
  ProtoNames = {1}
  BookDirs <- MCBookDirs
  BookFiles <- MCBookFiles
  PrimaryNames = {"x"}
  Patterns = {{"y"}, {"x", "y"}}
  MaxFacts = 2
  MaxAsked = 1
CHECK_DEADLOCK FALSE
INVARIANT FoundWhereIndexed
