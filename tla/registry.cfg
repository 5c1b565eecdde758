CONSTANTS
  NoName = NoName
  NoType = NoType
  NoService = NoService
  NoBinding = NoBinding
  NoJob = NoJob
  Nobody = Nobody
  Objects = {"foo1", "foo2", "foo"}
  NameOf <- MCNameOf
  TypeOf <- MCTypeOf
  Methods <- MCMethods
  Guarded = {"a.FooService"}
  Forwarding <- MCForwarding
  Names <- MCNames
  MethodNames = {"Exec", "Get"}
  AliasOf <- MCAliasOf
  Procs = {p1, p2}
  Listers = {p1}
  MaxDepth = 2
SPECIFICATION FairSpec
INVARIANTS TypeOK NameBeatsAlias GuardNotSkipped
PROPERTIES BindingStable ListedIsCallable EveryCallReturns
