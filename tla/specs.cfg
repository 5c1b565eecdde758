CONSTANTS
  NoType = NoType
  NoArg = NoArg
  GoTypes <- MCGoTypes
  Roots = {"Host", "Host2", "Port"}
  KindOf <- MCKindOf
  Programs <- MCPrograms
  AnyKind = "any"
  Namespaces = {"ns"}
  MaxDepth = 4
  AsFloat <- MCAsFloat
  Procs = {p1, p2}
SPECIFICATION Spec
SYMMETRY Symmetry
INVARIANTS NoKindTwice NothingLost UniqueAsDeclared ObjectsOfAKind
CHECK_DEADLOCK FALSE
