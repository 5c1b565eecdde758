--------------------------- MODULE MCOneObjectMap ---------------------------
(* The store of items checked against the map it implements. *)
EXTENDS MCOneObject, OneObjectMap

ItemRowsOf == [k \in ItemValues[1] |-> {<<k, n>> : n \in ItemValues[2]}]
=============================================================================
