------------------------------- MODULE WriteOnce ------------------------------
(***************************************************************************)
(* What a REST write promises its caller: the server applies it at most    *)
(* once, success means it was applied, and a plain error means it was not  *)
(* applied and never will be.  Only an error that says the outcome is      *)
(* unknown leaves both open, even after it is returned.                    *)
(***************************************************************************)
EXTENDS Naturals

CONSTANT Writers

VARIABLES applied,   \* [Writers -> how often the server has applied the write]
          verdict    \* [Writers -> what the caller was told]

vars == <<applied, verdict>>

Init == applied = [w \in Writers |-> 0] /\ verdict = [w \in Writers |-> "none"]

Apply(w) ==
  /\ applied[w] = 0 /\ verdict[w] \in {"none", "unknown"}
  /\ applied' = [applied EXCEPT ![w] = 1]
  /\ UNCHANGED verdict

Tell(w, v) ==
  /\ verdict[w] = "none"
  /\ v = "ok" => applied[w] = 1
  /\ v = "failed" => applied[w] = 0
  /\ verdict' = [verdict EXCEPT ![w] = v]
  /\ UNCHANGED applied

Next == \E w \in Writers : Apply(w) \/ \E v \in {"ok", "failed", "unknown"} : Tell(w, v)
Spec == Init /\ [][Next]_vars
=============================================================================
