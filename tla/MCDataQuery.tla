---------------------------- MODULE MCDataQuery ----------------------------
(***************************************************************************)
(* A table with a key, a text and a number; rows with a blank key, with    *)
(* equal texts and with equal order.  "Ext" is looked up as it is and is   *)
(* stored as "ext".                                                        *)
(***************************************************************************)
EXTENDS DataQuery, TLC

Base(name, tag, type, pk) == [name |-> name, tag |-> tag, type |-> type, pk |-> pk]
MCBaseFields ==
  <<Base("Name", "name", "string", TRUE), Base("Value", "value", "string", FALSE),
    Base("Count", "count", "int", FALSE)>>

MCToLower   == ("a b" :> "a b") @@ [name |-> "name", count |-> "count",
                                  ext |-> "ext", Ext |-> "ext"]
MCLowerName == ("" :> "") @@ [name |-> "name", Value |-> "value", count |-> "count"]

MCTables == {<<<<"", "a", 1>>, <<"a", "w", -1>>, <<"b", "a", 0>>>>}
=============================================================================
