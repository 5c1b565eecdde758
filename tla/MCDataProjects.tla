--------------------------- MODULE MCDataProjects ---------------------------
(***************************************************************************)
(* Two services of the same name, and one whose name is no identifier.     *)
(***************************************************************************)
EXTENDS DataProjects, TLC

MCNameOf == [s \in Services |-> CASE s \in {"old", "new"} -> "main"
                                  [] s = "side"  -> "side"
                                  [] OTHER       -> "not a name"]

Symmetry == Permutations(Procs) \cup Permutations(Tables)
=============================================================================
