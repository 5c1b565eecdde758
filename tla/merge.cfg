CONSTANTS
  Absent = Absent
  NilEntry = NilEntry
  Lowest <- LeastInt
  Highest = 9
  Fields <- MCFields
  Values <- MCValues
  Sources <- MCSources
SPECIFICATION Spec
INVARIANTS LimitsHold ReplayChangesNothing
PROPERTIES NeverCleared RequiredFilled ChangeReported
VIEW Object
