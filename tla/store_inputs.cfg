CONSTANTS
  Absent = Absent
  NilEntry = NilEntry
  Mistyped = Mistyped
  NoRequest = NoRequest
  NoClient = NoClient
  Lowest <- LeastInt
  Highest = 9
  Limit = 10
  Fields <- HostFields
  Values <- HostValues
  Inputs <- HostInputs
  Pk = 1
  Uks = {2}
  GenIds = {"h1", "h2"}
  Clients = {c1, c2}
  Tables = {"hosts", "nested"}
  Names = {"hosts", "nested", "none"}
  Unreachable = {"nested"}
  Ops = {"insert", "upsert", "delete", "setup"}
  FileBacked = TRUE
  Faults = {"crash"}
  MaxRows = 2
SYMMETRY Symmetry
SPECIFICATION Spec
PROPERTIES AckedWriteVisible FileTracksMemory KeysStayUnique
VIEW Unanswered
