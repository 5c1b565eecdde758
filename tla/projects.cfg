CONSTANTS
  NoService = NoService
  NoJob = NoJob
  NoName = NoName
  Nobody = Nobody
  Procs = {p1, p2}
  Services = {"old", "new", "side", "odd"}
  NameOf <- MCNameOf
  ValidNames = {"main", "side"}
  Tables = {t1}
SYMMETRY Symmetry
SPECIFICATION Spec
INVARIANTS ListedIsServed RegisteredIsListed
PROPERTY SeenIsFound
