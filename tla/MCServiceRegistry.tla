-------------------------- MODULE MCServiceRegistry --------------------------
(***************************************************************************)
(* Three objects: two types of different packages are both called          *)
(* FooService, a third is called Foo, which is the alias of the first two. *)
(* A method of the third calls the registry again, as the one of           *)
(* LynkService does, which the registry is itself registered under.        *)
(***************************************************************************)
EXTENDS ServiceRegistry, TLC

MCNameOf ==
  [o \in Objects |-> CASE o \in {"foo1", "foo2"} -> "FooService"
                      [] o = "foo"  -> "Foo"]
MCTypeOf ==
  [o \in Objects |-> CASE o = "foo1" -> "a.FooService"
                      [] o = "foo2" -> "b.FooService"
                      [] o = "foo"  -> "a.Foo"]

A(name, sig) == [name |-> name, sig |-> sig]

MCMethods ==
  ("a.FooService" :> <<A("Exec", "grpc"), A("Get", "other")>>) @@
  ("b.FooService" :> <<A("Exec", "std"), A("Get", "std")>>) @@
  ("a.Foo"        :> <<A("Exec", "grpc")>>)

MCNames == {"FooService", "Foo"}

MCAliasOf ==
  [n \in MCNames |-> CASE n = "FooService"  -> "Foo"
                        [] OTHER             -> NoName]

MCForwarding == {<<"a.Foo", "Exec">>}

=============================================================================
