---------------------------- MODULE ScoreDelivery ----------------------------
(***************************************************************************)
(* What the score pipeline promises its callers, with the queue, its       *)
(* signals, the HTTP attempts and the flush waiters left out.              *)
(*                                                                         *)
(* A score is accepted or refused when it is recorded.  Accepted scores    *)
(* are settled -- sent or dropped -- one at a time in acceptance order.    *)
(* A flush returns nil only after everything accepted before it began has  *)
(* settled.  Once closing, nothing is accepted; the pipeline is closed     *)
(* when a drain has been reported complete.                                *)
(***************************************************************************)
EXTENDS Naturals, Sequences

CONSTANTS Scores, Flushers

VARIABLES
  pending,   \* accepted scores that have not settled, oldest first
  fate,      \* [Scores -> "none", "pending", "sent", "dropped", "refused"]
  flush,     \* [Flushers -> "idle", "waiting", "ok", "gaveUp"]
  barrier,   \* [Flushers -> SUBSET Scores], accepted before the flush began
  phase      \* "open", "closing" or "closed"

vars == <<pending, fate, flush, barrier, phase>>

Accepted == {s \in Scores : fate[s] \in {"pending", "sent", "dropped"}}
Settled  == {s \in Scores : fate[s] \in {"sent", "dropped"}}

Init ==
  /\ pending = <<>>
  /\ fate = [s \in Scores |-> "none"]
  /\ flush = [f \in Flushers |-> "idle"]
  /\ barrier = [f \in Flushers |-> {}]
  /\ phase = "open"

Accept(s) ==
  /\ phase = "open"
  /\ fate[s] = "none"
  /\ fate' = [fate EXCEPT ![s] = "pending"]
  /\ pending' = Append(pending, s)
  /\ UNCHANGED <<flush, barrier, phase>>

Refuse(s) ==
  /\ fate[s] = "none"
  /\ fate' = [fate EXCEPT ![s] = "refused"]
  /\ UNCHANGED <<pending, flush, barrier, phase>>

Settle(end) ==
  /\ pending # <<>>
  /\ fate' = [fate EXCEPT ![Head(pending)] = end]
  /\ pending' = Tail(pending)
  /\ UNCHANGED <<flush, barrier, phase>>

FlushBegin(f) ==
  /\ flush[f] = "idle"
  /\ barrier' = [barrier EXCEPT ![f] = Accepted]
  /\ flush' = [flush EXCEPT ![f] = IF pending = <<>> THEN "ok" ELSE "waiting"]
  /\ UNCHANGED <<pending, fate, phase>>

FlushReturn(f) ==
  /\ flush[f] = "waiting"
  /\ barrier[f] \subseteq Settled
  /\ flush' = [flush EXCEPT ![f] = "ok"]
  /\ UNCHANGED <<pending, fate, barrier, phase>>

FlushGiveUp(f) ==
  /\ flush[f] = "waiting"
  /\ flush' = [flush EXCEPT ![f] = "gaveUp"]
  /\ UNCHANGED <<pending, fate, barrier, phase>>

BeginClose ==
  /\ phase = "open"
  /\ phase' = "closing"
  /\ UNCHANGED <<pending, fate, flush, barrier>>

Close ==
  /\ phase = "closing"
  /\ pending = <<>>
  /\ phase' = "closed"
  /\ UNCHANGED <<pending, fate, flush, barrier>>

Next ==
  \/ \E s \in Scores : Accept(s) \/ Refuse(s)
  \/ \E end \in {"sent", "dropped"} : Settle(end)
  \/ \E f \in Flushers : FlushBegin(f) \/ FlushReturn(f) \/ FlushGiveUp(f)
  \/ BeginClose
  \/ Close

Spec == Init /\ [][Next]_vars
=============================================================================
