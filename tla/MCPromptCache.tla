---------------------------- MODULE MCPromptCache -----------------------------
(***************************************************************************)
(* TLC instances of PromptCache.                                           *)
(***************************************************************************)
EXTENDS PromptCache, TLC

Symmetry == Permutations(Callers) \cup Permutations(Keys)

(* A call that returned leaves nothing behind that a later step reads:     *)
(* Begin overwrites its key and context.  Two states that differ only in   *)
(* such remains are one, unless the remains violate CancelWins or          *)
(* NoForeignCancel.                                                        *)
Remains(c) ==
  IF /\ pc[c] \in Returned
     /\ pc[c] \in {"server", "failed", "foreignCancel"} => ~gone[c]
     /\ pc[c] = "foreignCancel" => canceled
  THEN <<calls[c]>>
  ELSE <<calls[c], pc[c], key[c], gone[c], mine[c], got[c]>>

(* No step but their own reads what the diagnostic handlers do: states     *)
(* that differ in that alone are one.                                      *)
View == <<server, cacheVars, flightVars, refreshes, refreshing, stopVars,
          [c \in Callers |-> Remains(c)]>>

(* Bound: the client is shut down while every caller is in its first call. *)
StopEarly == closing => \A c \in Callers : calls[c] <= 1
=============================================================================
