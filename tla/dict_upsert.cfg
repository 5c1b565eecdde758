CONSTANTS
  Absent = Absent
  NilEntry = NilEntry
  Mistyped = Mistyped
  NoRequest = NoRequest
  NoClient = NoClient
  Lowest <- LeastInt
  Highest = 9
  Limit = 10
  Fields <- DictFields
  Values <- DictValues
  Inputs <- KeyedDictInputs
  Pk = 1
  Uks = {2}
  GenIds = {"i1", "i2"}
  Clients = {c1}
  Tables = {"table"}
  Names = {"table"}
  Unreachable = {}
  Ops = {"insert", "igsert", "upsert", "delete", "setup"}
  FileBacked = FALSE
  Faults = {}
  MaxRows = 4
SPECIFICATION Spec
INVARIANT KeysUnique
