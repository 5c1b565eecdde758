----------------------------- MODULE MCLynkClient -----------------------------
(***************************************************************************)
(* Two configurations of one address and access key, one with a wrong      *)
(* secret: whoever comes first makes the client that both get; and one of  *)
(* another key.                                                            *)
(***************************************************************************)
EXTENDS LynkClient, TLC

MCKeyOf == [f \in Configs |-> IF f = "other" THEN "addr.key2" ELSE "addr.key"]

Symmetry == Permutations(Callers)
=============================================================================
