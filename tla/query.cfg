CONSTANTS
  BaseFields <- MCBaseFields
  Identifiers = {"name", "value", "count", "ext", "Ext"}
  ToLower <- MCToLower
  LowerName <- MCLowerName
  FieldTypes = {"string", "int"}
  IndexTypes = {"fts"}
  NoField = NoField
  Tables <- MCTables
  Number = Number
  Null = Null
  Unfit = Unfit
  Values = {"a", Number, Unfit}
  MaxChanges = 3
  NoFilter = NoFilter
SPECIFICATION QuerySpec
INVARIANT ConditionsHold
PROPERTIES ConditionNarrows DeleteNeedsKey
