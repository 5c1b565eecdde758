CONSTANTS
  Absent = Absent
  NilEntry = NilEntry
  Mistyped = Mistyped
  NoRequest = NoRequest
  NoClient = NoClient
  Lowest <- LeastInt
  Highest = 9
  Limit = 10
  Fields <- ItemFields
  Values <- ItemValues
  Inputs <- FewItemInputs
  Pk = 1
  Uks = {}
  GenIds = {}
  Clients = {c1, c2}
  Tables = {"options"}
  Names = {"options"}
  Unreachable = {}
  Ops = {"insert", "igsert", "upsert", "delete", "query", "setup"}
  FileBacked = TRUE
  Faults = {"open", "write", "crash"}
  MaxRows = 3
  RowsOf <- ItemRowsOf
  NoRow = NoRow
SPECIFICATION FairSpec
INVARIANT PrimaryKeyUnique
PROPERTIES AckedWriteSaved AckedDeleteRemoves ImplementsMap EveryCallReturns
