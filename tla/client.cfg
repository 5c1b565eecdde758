CONSTANTS
  NoClient = NoClient
  NoJob = NoJob
  Nobody = Nobody
  Callers = {p1, p2}
  Configs = {"right", "wrong", "other"}
  Rightful = {"right"}
  KeyOf <- MCKeyOf
  Numbers = {1}
  MaxToken = 3
SYMMETRY Symmetry
SPECIFICATION Spec
INVARIANT OneConnector
PROPERTY ImplementsRemoteCall
