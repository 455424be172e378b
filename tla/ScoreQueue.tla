------------------------------ MODULE ScoreQueue ------------------------------
(***************************************************************************)
(* transport.ScoresClient: the bounded score queue, its one background     *)
(* dispatcher, the two 1-buffered edge signals, Flush waiters, Shutdown,   *)
(* delivery attempts with retries, and the bounded asynchronous            *)
(* diagnostics.                                                            *)
(*                                                                         *)
(* Every region under ScoresClient.mu, every select statement and every    *)
(* signal() is one step; what the code does after unlocking is a later     *)
(* step.  One member of Scores stands for one Enqueue call (its payload    *)
(* and the goroutine making the call), one member of Flushers for one      *)
(* Flush call, one member of Stoppers for one Shutdown call.  A caller's   *)
(* context may end at any moment and need never end.  A diagnostic handler *)
(* is application code: it may never return, and one that re-enters the    *)
(* client is just another Flush, Shutdown or Enqueue call.                 *)
(***************************************************************************)
EXTENDS Naturals, Sequences, FiniteSets

CONSTANTS
  Scores, Flushers, Stoppers,
  Capacity,       \* bound on the queue, defaultScoreQueueSize in the code
  BlockOnFull,    \* Config.BlockOnQueueFull
  RetryEnabled,   \* RetryConfig.Enabled
  MaxTries,       \* attempts that fit in RetryConfig.MaxElapsedTime
  DiagSlots,      \* maxConcurrentScoreDiagnostics
  NoScore         \* the dispatcher holds no event

ASSUME CapacityAssumption == Capacity \in Nat \ {0}
ASSUME ModeAssumption == BlockOnFull \in BOOLEAN /\ RetryEnabled \in BOOLEAN
ASSUME BoundsAssumption == MaxTries \in Nat \ {0} /\ DiagSlots \in Nat
ASSUME NoScoreAssumption == NoScore \notin Scores

VARIABLES
  call,       \* [Scores -> CallStates]: where each Enqueue call is
  buf,        \* queued events, oldest first
  log,        \* every accepted event in acceptance order; Len(log) is accepted
  completed,  \* events delivered or dropped
  wake, space,        \* whether the 1-buffered signal channels hold a token
  started, stopped,
  canceled,   \* the lifecycle context has been canceled
  disp,       \* the dispatcher's program counter
  inflight,   \* the event it popped, or NoScore
  tries,      \* attempts made for it
  outcome,    \* [Scores -> Outcomes], how deliver ended
  stored,     \* scores the ingestion endpoint has stored
  diags,      \* diagnostic handlers running
  flush,      \* [Flushers -> FlushStates]
  target,     \* [Flushers -> Nat], the accepted count the call observed
  waiters,    \* flush calls registered with the client
  released,   \* flush calls whose done channel is closed
  stop        \* [Stoppers -> StopStates]

queueVars  == <<buf, log, completed>>
signalVars == <<wake, space>>
lifeVars   == <<started, stopped, canceled>>
dispVars   == <<disp, inflight, tries, outcome>>
flushVars  == <<flush, target, waiters, released>>
vars == <<call, queueVars, signalVars, lifeVars, dispVars, stored, diags,
          flushVars, stop>>

CallStates == {"idle", "try", "signal", "wait",
               "accepted", "full", "canceled", "rejected"}
DispStates == {"absent", "top", "sleep", "signalSpace", "check", "post",
               "retryWait", "finish", "exited"}
Outcomes   == {"none", "sent", "failed", "aborted"}
FlushStates == {"idle", "wait", "abandon", "ok", "canceled"}
StopStates == {"idle", "signalOther", "signalDrained", "signalDrain",
               "drainedWait", "drainWait", "doneWait", "other", "ok", "expired"}

accepted == Len(log)

Init ==
  /\ call = [s \in Scores |-> "idle"]
  /\ buf = <<>> /\ log = <<>> /\ completed = 0
  /\ wake = FALSE /\ space = FALSE
  /\ started = FALSE /\ stopped = FALSE /\ canceled = FALSE
  /\ disp = "absent" /\ inflight = NoScore /\ tries = 0
  /\ outcome = [s \in Scores |-> "none"]
  /\ stored = {} /\ diags = 0
  /\ flush = [f \in Flushers |-> "idle"]
  /\ target = [f \in Flushers |-> 0]
  /\ waiters = {} /\ released = {}
  /\ stop = [p \in Stoppers |-> "idle"]

-----------------------------------------------------------------------------
(* Enqueue. "idle" is a call not yet made, "try" a call about to re-take   *)
(* the lock after a space signal.                                          *)

Locks(s) == call[s] \in {"idle", "try"}

EnqueueReject(s) ==
  /\ Locks(s) /\ stopped
  /\ call' = [call EXCEPT ![s] = "rejected"]
  /\ UNCHANGED <<queueVars, signalVars, lifeVars, dispVars, stored, diags, flushVars, stop>>

EnqueueAccept(s) ==
  /\ Locks(s) /\ ~stopped /\ Len(buf) < Capacity
  /\ started' = TRUE
  /\ disp' = IF started THEN disp ELSE "top"
  /\ buf' = Append(buf, s)
  /\ log' = Append(log, s)
  /\ call' = [call EXCEPT ![s] = "signal"]
  /\ UNCHANGED <<completed, signalVars, stopped, canceled, inflight, tries, outcome,
                 stored, diags, flushVars, stop>>

(* Mutant: signal only when the queue was empty before the append.         *)
MutEnqueueSignal(s) ==
  /\ call[s] = "signal"
  /\ wake' = (wake \/ Len(buf) = 1)
  /\ call' = [call EXCEPT ![s] = "accepted"]
  /\ UNCHANGED <<queueVars, space, lifeVars, dispVars, stored, diags, flushVars, stop>>

EnqueueSignal(s) ==
  /\ call[s] = "signal"
  /\ wake' = TRUE
  /\ call' = [call EXCEPT ![s] = "accepted"]
  /\ UNCHANGED <<queueVars, space, lifeVars, dispVars, stored, diags, flushVars, stop>>

EnqueueFull(s) ==
  /\ Locks(s) /\ ~stopped /\ Len(buf) >= Capacity
  /\ call' = [call EXCEPT ![s] = IF BlockOnFull THEN "wait" ELSE "full"]
  /\ UNCHANGED <<queueVars, signalVars, lifeVars, dispVars, stored, diags, flushVars, stop>>

EnqueueTakeSpace(s) ==
  /\ call[s] = "wait" /\ space
  /\ space' = FALSE
  /\ call' = [call EXCEPT ![s] = "try"]
  /\ UNCHANGED <<queueVars, wake, lifeVars, dispVars, stored, diags, flushVars, stop>>

EnqueueLeave(s) ==   \* the caller's context, or the lifecycle, ended
  /\ call[s] = "wait"
  /\ \/ call' = [call EXCEPT ![s] = "canceled"]
     \/ canceled /\ call' = [call EXCEPT ![s] = "rejected"]
  /\ UNCHANGED <<queueVars, signalVars, lifeVars, dispVars, stored, diags, flushVars, stop>>

-----------------------------------------------------------------------------
(* Flush                                                                   *)

(* Mutant: an empty queue, not an even count, means nothing is pending.    *)
MutFlushEnter(f) ==
  /\ flush[f] = "idle"
  /\ target' = [target EXCEPT ![f] = accepted]
  /\ IF buf = <<>>
       THEN flush' = [flush EXCEPT ![f] = "ok"] /\ UNCHANGED waiters
       ELSE flush' = [flush EXCEPT ![f] = "wait"] /\ waiters' = waiters \cup {f}
  /\ UNCHANGED <<call, queueVars, signalVars, lifeVars, dispVars, stored, diags, released, stop>>

FlushEnter(f) ==
  /\ flush[f] = "idle"
  /\ target' = [target EXCEPT ![f] = accepted]
  /\ IF completed >= accepted
       THEN flush' = [flush EXCEPT ![f] = "ok"] /\ UNCHANGED waiters
       ELSE flush' = [flush EXCEPT ![f] = "wait"] /\ waiters' = waiters \cup {f}
  /\ UNCHANGED <<call, queueVars, signalVars, lifeVars, dispVars, stored, diags, released, stop>>

FlushReleased(f) ==
  /\ flush[f] = "wait" /\ f \in released
  /\ flush' = [flush EXCEPT ![f] = "ok"]
  /\ UNCHANGED <<call, queueVars, signalVars, lifeVars, dispVars, stored, diags,
                 target, waiters, released, stop>>

FlushExpire(f) ==
  /\ flush[f] = "wait"
  /\ flush' = [flush EXCEPT ![f] = "abandon"]
  /\ UNCHANGED <<call, queueVars, signalVars, lifeVars, dispVars, stored, diags,
                 target, waiters, released, stop>>

abandonWaiter(f) ==
  /\ flush[f] = "abandon"
  /\ waiters' = waiters \ {f}
  /\ flush' = [flush EXCEPT ![f] = "canceled"]
  /\ UNCHANGED <<call, queueVars, signalVars, lifeVars, dispVars, stored, diags,
                 target, released, stop>>

-----------------------------------------------------------------------------
(* Shutdown. The first caller owns the drain; a later one only signals.    *)

ShutdownEnter(p) ==
  /\ stop[p] = "idle"
  /\ stopped' = TRUE
  /\ stop' = [stop EXCEPT ![p] =
       IF ~started THEN "other"
       ELSE IF stopped THEN "signalOther"
       ELSE IF completed >= accepted THEN "signalDrained" ELSE "signalDrain"]
  /\ UNCHANGED <<call, queueVars, signalVars, started, canceled, dispVars, stored,
                 diags, flushVars>>

Signaling == {"signalOther", "signalDrained", "signalDrain"}

AfterSignal(at) == IF at = "signalOther" THEN "other"
                   ELSE IF at = "signalDrained" THEN "drainedWait" ELSE "drainWait"

(* Mutant: a second Shutdown cancels the delivery the first one drains.    *)
MutShutdownSignal(p) ==
  /\ stop[p] \in Signaling
  /\ wake' = TRUE
  /\ canceled' = (canceled \/ stop[p] = "signalOther")
  /\ stop' = [stop EXCEPT ![p] = AfterSignal(stop[p])]
  /\ UNCHANGED <<call, queueVars, space, started, stopped, dispVars, stored, diags, flushVars>>

ShutdownSignal(p) ==
  /\ stop[p] \in Signaling
  /\ wake' = TRUE
  /\ stop' = [stop EXCEPT ![p] = AfterSignal(stop[p])]
  /\ UNCHANGED <<call, queueVars, space, lifeVars, dispVars, stored, diags, flushVars>>

ShutdownDone(p) ==
  /\ stop[p] \in {"drainedWait", "drainWait"}
  /\ disp = "exited"
  /\ canceled' = TRUE
  /\ stop' = [stop EXCEPT ![p] = "ok"]
  /\ UNCHANGED <<call, queueVars, signalVars, started, stopped, dispVars, stored, diags, flushVars>>

(* Mutant: the expired Shutdown returns without awaiting the dispatcher.   *)
MutShutdownExpire(p) ==
  /\ stop[p] = "drainWait"
  /\ canceled' = TRUE
  /\ stop' = [stop EXCEPT ![p] = "expired"]
  /\ UNCHANGED <<call, queueVars, signalVars, started, stopped, dispVars, stored, diags, flushVars>>

ShutdownExpire(p) ==
  /\ stop[p] = "drainWait"
  /\ canceled' = TRUE
  /\ stop' = [stop EXCEPT ![p] = "doneWait"]
  /\ UNCHANGED <<call, queueVars, signalVars, started, stopped, dispVars, stored, diags, flushVars>>

ShutdownAborted(p) ==
  /\ stop[p] = "doneWait" /\ disp = "exited"
  /\ stop' = [stop EXCEPT ![p] = "expired"]
  /\ UNCHANGED <<call, queueVars, signalVars, lifeVars, dispVars, stored, diags, flushVars>>

-----------------------------------------------------------------------------
(* The dispatcher goroutine                                                *)

(* Mutant: the newest event is delivered first.                            *)
MutDispatchPop ==
  /\ disp = "top" /\ buf # <<>>
  /\ inflight' = buf[Len(buf)]
  /\ buf' = SubSeq(buf, 1, Len(buf) - 1)
  /\ tries' = 0
  /\ disp' = "signalSpace"
  /\ UNCHANGED <<call, log, completed, signalVars, lifeVars, outcome, stored, diags, flushVars, stop>>

DispatchPop ==
  /\ disp = "top" /\ buf # <<>>
  /\ inflight' = Head(buf)
  /\ buf' = Tail(buf)
  /\ tries' = 0
  /\ disp' = "signalSpace"
  /\ UNCHANGED <<call, log, completed, signalVars, lifeVars, outcome, stored, diags, flushVars, stop>>

DispatchIdle ==
  /\ disp = "top" /\ buf = <<>>
  /\ disp' = IF stopped THEN "exited" ELSE "sleep"
  /\ UNCHANGED <<call, queueVars, signalVars, lifeVars, inflight, tries, outcome,
                 stored, diags, flushVars, stop>>

DispatchWake ==
  /\ disp = "sleep" /\ wake
  /\ wake' = FALSE
  /\ disp' = "top"
  /\ UNCHANGED <<call, queueVars, space, lifeVars, inflight, tries, outcome,
                 stored, diags, flushVars, stop>>

(* Mutant: the space signal is forgotten.                                  *)
MutDispatchSignal ==
  /\ disp = "signalSpace"
  /\ disp' = "check"
  /\ UNCHANGED <<call, queueVars, signalVars, lifeVars, inflight, tries, outcome,
                 stored, diags, flushVars, stop>>

DispatchSignal ==
  /\ disp = "signalSpace"
  /\ space' = TRUE
  /\ disp' = "check"
  /\ UNCHANGED <<call, queueVars, wake, lifeVars, inflight, tries, outcome,
                 stored, diags, flushVars, stop>>

\* With every slot taken the diagnostic is dropped.
reportAsync == diags' = IF diags < DiagSlots THEN diags + 1 ELSE diags

(* Mutant: the dispatcher loops without counting a dropped event.          *)
MutDropAs(end) ==
  /\ outcome' = [outcome EXCEPT ![inflight] = end]
  /\ disp' = "top"
  /\ reportAsync

DropAs(end) ==
  /\ outcome' = [outcome EXCEPT ![inflight] = end]
  /\ disp' = "finish"
  /\ reportAsync

(* A reply to one attempt, reduced to what post reads of it: the status    *)
(* class and, for a readable 207, whether the body lists this event among  *)
(* its errors (with a retryable or zero status, or another one) and among  *)
(* its successes.  Entries for other event IDs are skipped by post, so a   *)
(* reply holding only those accounts for nothing.  "lost" is any client.Do *)
(* error, "garbled" a 207 whose body cannot be read or parsed.             *)
Replies ==
  [status : {"lost", "garbled", "2xx", "transient", "permanent"},
   error : {"absent"}, success : {FALSE}]
  \cup [status : {"207"}, error : {"absent", "transient", "permanent"}, success : BOOLEAN]

(* Mutant: a readable 207 without an error for the event is success.       *)
MutDelivered(r) == r.status = "2xx" \/ (r.status = "207" /\ r.error = "absent")

Delivered(r) ==
  \/ r.status = "2xx"
  \/ r.status = "207" /\ r.error = "absent" /\ r.success

Retryable(r) ==
  \/ r.status \in {"lost", "garbled", "transient"}
  \/ r.status = "207" /\ (r.error = "transient" \/ (r.error = "absent" /\ ~r.success))

(* The endpoint may have stored the score whatever became of the reply; it *)
(* has when it says so.                                                    *)
Confirms(r) == r.status = "2xx" \/ r.success

post(r, applied) ==
  /\ Confirms(r) => applied
  /\ stored' = IF applied THEN stored \cup {inflight} ELSE stored

(* One pass of the deliver loop: the context check before the attempt...   *)
DeliverCheck ==
  /\ disp = "check"
  /\ IF canceled
       THEN DropAs("aborted")
       ELSE disp' = "post" /\ UNCHANGED <<outcome, diags>>
  /\ UNCHANGED <<call, queueVars, signalVars, lifeVars, inflight, tries, stored, flushVars, stop>>

(* ...the attempt and the decision on its reply...                         *)
DeliverAttempt(r, applied) ==
  /\ disp = "post"
  /\ post(r, applied)
  /\ tries' = tries + 1
  /\ \/ /\ Delivered(r)
        /\ outcome' = [outcome EXCEPT ![inflight] = "sent"]
        /\ disp' = "finish"
        /\ UNCHANGED diags
     \/ /\ ~Delivered(r) /\ canceled
        /\ DropAs("aborted")
     \/ \* permanent, retries off, or the next delay passes the deadline
        /\ ~Delivered(r) /\ ~canceled
        /\ DropAs("failed")
     \/ /\ ~Delivered(r) /\ ~canceled
        /\ RetryEnabled /\ Retryable(r) /\ tries + 1 < MaxTries
        /\ disp' = "retryWait"
        /\ UNCHANGED <<outcome, diags>>
  /\ UNCHANGED <<call, queueVars, signalVars, lifeVars, inflight, flushVars, stop>>

(* ...and the wait for the retry timer or the end of the lifecycle.        *)
DeliverRetry ==
  /\ disp = "retryWait"
  /\ \/ disp' = "check" /\ UNCHANGED <<outcome, diags>>
     \/ canceled /\ DropAs("aborted")
  /\ UNCHANGED <<call, queueVars, signalVars, lifeVars, inflight, tries, stored, flushVars, stop>>

finishOne ==
  /\ disp = "finish"
  /\ completed' = completed + 1
  /\ LET satisfied == {f \in waiters : target[f] <= completed + 1}
     IN waiters' = waiters \ satisfied /\ released' = released \cup satisfied
  /\ inflight' = NoScore
  /\ disp' = "top"
  /\ UNCHANGED <<call, buf, log, signalVars, lifeVars, tries, outcome, stored, diags,
                 flush, target, stop>>

DiagDone ==   \* an error handler returns and frees its slot
  /\ diags > 0
  /\ diags' = diags - 1
  /\ UNCHANGED <<call, queueVars, signalVars, lifeVars, dispVars, stored, flushVars, stop>>

-----------------------------------------------------------------------------
Enqueue(s) == \/ EnqueueReject(s) \/ EnqueueAccept(s) \/ EnqueueSignal(s)
              \/ EnqueueFull(s) \/ EnqueueTakeSpace(s) \/ EnqueueLeave(s)

Flush(f) == FlushEnter(f) \/ FlushReleased(f) \/ FlushExpire(f) \/ abandonWaiter(f)

Shutdown(p) == \/ ShutdownEnter(p) \/ ShutdownSignal(p) \/ ShutdownDone(p)
               \/ ShutdownExpire(p) \/ ShutdownAborted(p)

deliver == \/ DeliverCheck \/ DeliverRetry
           \/ \E r \in Replies, applied \in BOOLEAN : DeliverAttempt(r, applied)

dispatch == \/ DispatchPop \/ DispatchIdle \/ DispatchWake \/ DispatchSignal
            \/ deliver \/ finishOne

Next == \/ \E s \in Scores : Enqueue(s)
        \/ \E f \in Flushers : Flush(f)
        \/ \E p \in Stoppers : Shutdown(p)
        \/ dispatch
        \/ DiagDone

Spec == Init /\ [][Next]_vars

(* What Go's scheduler and the HTTP client's timeout guarantee: a runnable *)
(* goroutine runs, and an attempt ends.  Calls being finite, it is enough  *)
(* that one that can take a step does.  A caller need not call, a context  *)
(* need not end, and a diagnostic handler need not return.                 *)
Running ==
  \/ dispatch
  \/ \E s \in Scores :
       /\ call[s] # "idle"
       /\ \/ EnqueueReject(s) \/ EnqueueAccept(s) \/ EnqueueSignal(s)
          \/ EnqueueFull(s) \/ EnqueueTakeSpace(s)
          \/ canceled /\ EnqueueLeave(s)
  \/ \E f \in Flushers : FlushReleased(f) \/ abandonWaiter(f)
  \/ \E p \in Stoppers : ShutdownSignal(p) \/ ShutdownDone(p) \/ ShutdownAborted(p)
Fairness == WF_vars(Running)

FairSpec == Spec /\ Fairness

-----------------------------------------------------------------------------
(* Properties                                                              *)

(* Every variable of the pipeline keeps its type.                          *)
TypeOK ==
  /\ call \in [Scores -> CallStates]
  /\ buf \in Seq(Scores) /\ log \in Seq(Scores) /\ completed \in Nat
  /\ wake \in BOOLEAN /\ space \in BOOLEAN
  /\ started \in BOOLEAN /\ stopped \in BOOLEAN /\ canceled \in BOOLEAN
  /\ disp \in DispStates /\ inflight \in Scores \cup {NoScore} /\ tries \in Nat
  /\ outcome \in [Scores -> Outcomes]
  /\ stored \subseteq Scores /\ diags \in 0..DiagSlots
  /\ flush \in [Flushers -> FlushStates] /\ target \in [Flushers -> Nat]
  /\ waiters \subseteq Flushers /\ released \subseteq Flushers
  /\ stop \in [Stoppers -> StopStates]

Delivering == disp \in {"signalSpace", "check", "post", "retryWait", "finish"}
popped == IF Delivering THEN completed + 1 ELSE completed

(* The counters Flush and Shutdown read agree with the queue: what was     *)
(* accepted is exactly what completed, what is in flight and what is       *)
(* queued, in acceptance order, and only completed events (and the one     *)
(* about to be counted) have an outcome.  finishOne runs outside the       *)
(* region that popped the event, so nothing in the code states this.       *)
QueueAccounting ==
  /\ popped + Len(buf) = accepted
  /\ \A i \in 1..Len(buf) : buf[i] = log[popped + i]
  /\ Delivering => inflight = log[popped]
  /\ \A i \in 1..accepted :
       outcome[log[i]] # "none" <=> i <= completed \/ (i = popped /\ disp = "finish")

(* A dispatcher asleep without a token, while the queue holds events or    *)
(* the client is stopped, is about to be signaled: the signal is sent      *)
(* after the unlock and into a 1-slot channel, and must not be lost.       *)
NoLostWakeup ==
  (disp = "sleep" /\ ~wake /\ (buf # <<>> \/ stopped)) =>
     \/ \E s \in Scores : call[s] = "signal"
     \/ \E p \in Stoppers : stop[p] \in Signaling

(* A producer blocked on a full queue is never stranded although one space *)
(* token may stand for several freed slots: there is a token, an event     *)
(* still to be popped, a token about to be sent, another producer that took *)
(* the token and will enqueue; or the lifecycle has been or will be        *)
(* canceled by the Shutdown that owns the drain.                           *)
OwnsDrain(p) == stop[p] \in {"signalDrained", "signalDrain", "drainedWait", "drainWait"}

NoStrandedProducer ==
  (\E s \in Scores : call[s] = "wait") =>
     \/ space \/ buf # <<>> \/ disp = "signalSpace"
     \/ ~stopped /\ \E s \in Scores : call[s] = "try"
     \/ canceled \/ \E p \in Stoppers : OwnsDrain(p)

(* A Flush that returned nil had every score accepted before it delivered  *)
(* or dropped -- Flush's documented barrier.  Scores accepted after it     *)
(* began do not extend its wait: a waiter still registered always has one  *)
(* of its own scores outstanding, and a waiting call is registered or      *)
(* released.                                                               *)
FlushBarrier ==
  \A f \in Flushers :
    /\ flush[f] = "ok" => \A i \in 1..target[f] : outcome[log[i]] # "none"
    /\ f \in waiters => target[f] > completed
    /\ flush[f] = "wait" => f \in waiters \cup released

(* The Shutdown that owns the drain returns only once the dispatcher is    *)
(* gone and every accepted score is accounted for, whether or not its      *)
(* context ended first.                                                    *)
ShutdownDrains ==
  \A p \in Stoppers : stop[p] \in {"ok", "expired"} =>
     disp = "exited" /\ buf = <<>> /\ completed = accepted

(* Accepted scores are abandoned undelivered only when the context of the  *)
(* Shutdown that owns the drain ended: a concurrent Shutdown, or a         *)
(* producer's own canceled context, never loses an accepted score.         *)
AbortOnlyOnExpiry ==
  (\E s \in Scores : outcome[s] = "aborted") =>
     \E p \in Stoppers : stop[p] \in {"doneWait", "expired"}

(* A score counted as delivered is stored by the endpoint: a 207 that does *)
(* not account for it, or accounts for it as an error, is not success.     *)
SentMeansStored == \A s \in Scores : outcome[s] = "sent" => s \in stored

NoCallRuns ==
  /\ \A s \in Scores : call[s] \in {"idle", "accepted", "full", "canceled", "rejected"}
  /\ \A f \in Flushers : flush[f] \in {"idle", "ok", "canceled"}
  /\ \A p \in Stoppers : stop[p] \in {"idle", "other", "ok", "expired"}

(* Every Flush, every blocked or signaling Enqueue and every Shutdown      *)
(* returns although its context may never end and diagnostic handlers may  *)
(* hang: calls being finite, from some instant on none runs.               *)
CallsReturn == <>[]NoCallRuns

(* The pipeline implements its abstract specification, under this mapping. *)
dPending == (IF Delivering THEN <<inflight>> ELSE <<>>) \o buf

dFate == [s \in Scores |->
  IF \E i \in 1..completed : log[i] = s
    THEN IF outcome[s] = "sent" THEN "sent" ELSE "dropped"
  ELSE IF \E i \in 1..accepted : log[i] = s THEN "pending"
  ELSE IF call[s] \in {"full", "canceled", "rejected"} THEN "refused" ELSE "none"]

dFlush == [f \in Flushers |->
  IF flush[f] \in {"wait", "abandon"} THEN "waiting"
  ELSE IF flush[f] = "canceled" THEN "gaveUp" ELSE flush[f]]

dBarrier == [f \in Flushers |-> {log[i] : i \in 1..target[f]}]

dPhase == IF disp = "exited" THEN "closed" ELSE IF stopped THEN "closing" ELSE "open"

Delivery == INSTANCE ScoreDelivery WITH
  pending <- dPending, fate <- dFate, flush <- dFlush, barrier <- dBarrier, phase <- dPhase

ImplementsDelivery == Delivery!Spec
=============================================================================
