----------------------------- MODULE RemoteCall -----------------------------
(***************************************************************************)
(* What a caller of Client (go/lynkapi/client.go) may rely on.  The method *)
(* of a call runs at most once, and a second time only if it answered      *)
(* "expired" itself; an answer other than "unknown" is what the last run   *)
(* said, or the refusal of a server that did not run the method, and after *)
(* it the method does not run.  After "unknown" it may.                    *)
(***************************************************************************)
EXTENDS Naturals

CONSTANTS Calls, Codes

VARIABLES
  result,  \* result[c]: the answer to c, "none" before it, "new" before c
  runs,    \* runs[c]: how often the method of c ran
  said     \* said[c]: what its last run answered, "none" before

vars == <<result, runs, said>>

Init ==
  /\ result = [c \in Calls |-> "new"]
  /\ runs = [c \in Calls |-> 0]
  /\ said = [c \in Calls |-> "none"]

Ask(c) ==
  /\ result[c] = "new"
  /\ result' = [result EXCEPT ![c] = "none"]
  /\ UNCHANGED <<runs, said>>

MayRun(c) == runs[c] = 0 \/ (runs[c] = 1 /\ said[c] = "expired")

Run(c, code) ==
  /\ result[c] \in {"none", "unknown"} /\ MayRun(c)
  /\ runs' = [runs EXCEPT ![c] = @ + 1]
  /\ said' = [said EXCEPT ![c] = code]
  /\ UNCHANGED result

\* A method that answered "expired" is asked for again and may be refused then.
Answer(c, r) ==
  /\ result[c] = "none"
  /\ \/ r = "unknown"
     \/ r = said[c]
     \/ r # "ok" /\ said[c] \in {"none", "expired"}
  /\ result' = [result EXCEPT ![c] = r]
  /\ UNCHANGED <<runs, said>>

Next ==
  \E c \in Calls, code \in Codes : Ask(c) \/ Run(c, code) \/ Answer(c, code)

Spec == Init /\ [][Next]_vars
=============================================================================
