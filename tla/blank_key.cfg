CONSTANTS
  Absent = Absent
  NilEntry = NilEntry
  Mistyped = Mistyped
  NoRequest = NoRequest
  NoClient = NoClient
  Lowest <- LeastInt
  Highest = 9
  Limit = 10
  Fields <- ItemFields
  Values <- ItemValues
  Inputs <- ItemInputs
  Pk = 1
  Uks = {}
  GenIds = {}
  Clients = {c1}
  Tables = {"options"}
  Names = {"options"}
  Unreachable = {}
  Ops = {"insert", "setup"}
  FileBacked = FALSE
  Faults = {}
  MaxRows = 3
SPECIFICATION Spec
INVARIANT NoBlankKey
