--------------------------- MODULE ScoreQueueProofs ---------------------------
(***************************************************************************)
(* Machine-checked theorems about ScoreQueue, for any number of producers, *)
(* flushes and shutdowns and any queue capacity: its invariants, and that  *)
(* it implements ScoreDelivery.                                            *)
(***************************************************************************)
EXTENDS ScoreQueue, TLAPS

USE DEF queueVars, signalVars, lifeVars, dispVars, flushVars

-----------------------------------------------------------------------------
(* Types: every step keeps every variable in its type.                     *)

LEMMA TypeInit == Init => TypeOK
<1> SUFFICES ASSUME Init PROVE TypeOK
  OBVIOUS
<1>1. 0 \in 0..DiagSlots
  BY BoundsAssumption
<1>2. <<>> \in Seq(Scores)
  OBVIOUS
<1> QED
  BY <1>1, <1>2 DEF Init, TypeOK, CallStates, DispStates, Outcomes, FlushStates, StopStates

LEMMA TypeEnqueue == ASSUME TypeOK, NEW s \in Scores, Enqueue(s) PROVE TypeOK'
<1> USE DEF TypeOK, CallStates, DispStates
<1>1. CASE EnqueueReject(s) BY <1>1 DEF EnqueueReject
<1>2. CASE EnqueueAccept(s) BY <1>2 DEF EnqueueAccept
<1>3. CASE EnqueueSignal(s) BY <1>3 DEF EnqueueSignal
<1>4. CASE EnqueueFull(s) BY <1>4 DEF EnqueueFull
<1>5. CASE EnqueueTakeSpace(s) BY <1>5 DEF EnqueueTakeSpace
<1>6. CASE EnqueueLeave(s) BY <1>6 DEF EnqueueLeave
<1> QED BY <1>1, <1>2, <1>3, <1>4, <1>5, <1>6 DEF Enqueue

LEMMA TypeFlush == ASSUME TypeOK, NEW f \in Flushers, Flush(f) PROVE TypeOK'
<1> USE DEF TypeOK, FlushStates
<1>1. CASE FlushEnter(f) BY <1>1 DEF FlushEnter, accepted
<1>2. CASE FlushReleased(f) BY <1>2 DEF FlushReleased
<1>3. CASE FlushExpire(f) BY <1>3 DEF FlushExpire
<1>4. CASE abandonWaiter(f) BY <1>4 DEF abandonWaiter
<1> QED BY <1>1, <1>2, <1>3, <1>4 DEF Flush

LEMMA TypeShutdown == ASSUME TypeOK, NEW p \in Stoppers, Shutdown(p) PROVE TypeOK'
<1> USE DEF TypeOK, StopStates
<1>1. CASE ShutdownEnter(p) BY <1>1 DEF ShutdownEnter
<1>2. CASE ShutdownSignal(p) BY <1>2 DEF ShutdownSignal, AfterSignal
<1>3. CASE ShutdownDone(p) BY <1>3 DEF ShutdownDone
<1>4. CASE ShutdownExpire(p) BY <1>4 DEF ShutdownExpire
<1>5. CASE ShutdownAborted(p) BY <1>5 DEF ShutdownAborted
<1> QED BY <1>1, <1>2, <1>3, <1>4, <1>5 DEF Shutdown

LEMMA TypeDrop ==
  ASSUME TypeOK, NEW end \in {"failed", "aborted"}, DropAs(end)
  PROVE  /\ disp' = "finish" /\ outcome' \in [Scores -> Outcomes]
         /\ diags' \in 0..DiagSlots
<1>1. disp' = "finish" /\ outcome' \in [Scores -> Outcomes]
  BY DEF TypeOK, DropAs, Outcomes
<1>2. diags' \in 0..DiagSlots
  BY BoundsAssumption DEF TypeOK, DropAs, reportAsync
<1> QED BY <1>1, <1>2

LEMMA TypeDispatch == ASSUME TypeOK, inflight = NoScore => disp \notin {"post", "check", "retryWait"}, dispatch PROVE TypeOK'
<1> USE DEF TypeOK, DispStates
<1>1. CASE DispatchPop BY <1>1 DEF DispatchPop
<1>2. CASE DispatchIdle BY <1>2 DEF DispatchIdle
<1>3. CASE DispatchWake BY <1>3 DEF DispatchWake
<1>4. CASE DispatchSignal BY <1>4 DEF DispatchSignal
<1>5. CASE DeliverCheck BY <1>5, TypeDrop DEF DeliverCheck
<1>6. CASE DeliverRetry BY <1>6, TypeDrop DEF DeliverRetry
<1>7. ASSUME NEW r \in Replies, NEW applied \in BOOLEAN, DeliverAttempt(r, applied)
      PROVE  TypeOK'
  <2>1. /\ stored' \subseteq Scores /\ tries' \in Nat
        /\ UNCHANGED <<call, queueVars, signalVars, lifeVars, inflight, flushVars, stop>>
    BY <1>7 DEF DeliverAttempt, post
  <2>2. /\ disp' \in DispStates /\ outcome' \in [Scores -> Outcomes]
        /\ diags' \in 0..DiagSlots
    BY <1>7, TypeDrop DEF DeliverAttempt, Outcomes
  <2> QED BY <2>1, <2>2
<1>8. CASE finishOne BY <1>8 DEF finishOne
<1> QED BY <1>1, <1>2, <1>3, <1>4, <1>5, <1>6, <1>7, <1>8 DEF dispatch, deliver

-----------------------------------------------------------------------------
(* Frames: what a call leaves alone, and what one pass of deliver does.    *)

LEMMA EnqueueFrame ==
  ASSUME NEW s \in Scores, Enqueue(s)
  PROVE  \/ EnqueueAccept(s)
         \/ UNCHANGED <<queueVars, lifeVars, dispVars, stored, diags, flushVars, stop>>
BY DEF Enqueue, EnqueueReject, EnqueueSignal, EnqueueFull, EnqueueTakeSpace, EnqueueLeave

LEMMA FlushFrame ==
  ASSUME NEW f \in Flushers, Flush(f)
  PROVE  UNCHANGED <<call, queueVars, signalVars, lifeVars, dispVars, stored, diags, stop>>
BY DEF Flush, FlushEnter, FlushReleased, FlushExpire, abandonWaiter

LEMMA ShutdownFrame ==
  ASSUME NEW p \in Stoppers, Shutdown(p)
  PROVE  UNCHANGED <<call, queueVars, space, started, dispVars, stored, diags, flushVars>>
BY DEF Shutdown, ShutdownEnter, ShutdownSignal, ShutdownDone, ShutdownExpire, ShutdownAborted

LEMMA DeliverFrame ==
  ASSUME deliver
  PROVE  /\ UNCHANGED <<call, queueVars, signalVars, lifeVars, inflight, flushVars, stop>>
         /\ disp \in {"check", "post", "retryWait"}
         /\ stored \subseteq stored'
         /\ \/ disp' \in {"check", "post", "retryWait"} /\ outcome' = outcome
            \/ /\ disp' = "finish"
               /\ \E end \in {"sent", "failed", "aborted"} :
                    /\ outcome' = [outcome EXCEPT ![inflight] = end]
                    /\ end = "sent" => inflight \in stored'
                    /\ end = "aborted" => canceled
<1>1. CASE DeliverCheck BY <1>1 DEF DeliverCheck, DropAs
<1>2. CASE DeliverRetry BY <1>2 DEF DeliverRetry, DropAs
<1>3. ASSUME NEW r \in Replies, NEW applied \in BOOLEAN, DeliverAttempt(r, applied)
      PROVE  /\ UNCHANGED <<call, queueVars, signalVars, lifeVars, inflight, flushVars, stop>>
             /\ disp = "post"
             /\ stored \subseteq stored'
             /\ \/ disp' = "retryWait" /\ outcome' = outcome
                \/ /\ disp' = "finish"
                   /\ \E end \in {"sent", "failed", "aborted"} :
                        /\ outcome' = [outcome EXCEPT ![inflight] = end]
                        /\ end = "sent" => inflight \in stored'
                        /\ end = "aborted" => canceled
  <2>1. Delivered(r) => inflight \in stored'
    BY <1>3 DEF DeliverAttempt, post, Delivered, Confirms
  <2>2. stored \subseteq stored'
    BY <1>3 DEF DeliverAttempt, post
  <2> QED BY <1>3, <2>1, <2>2 DEF DeliverAttempt, DropAs
<1> QED BY <1>1, <1>2, <1>3 DEF deliver

-----------------------------------------------------------------------------
(* The control state: the dispatcher runs from the first acceptance, holds *)
(* an event exactly while delivering, and exits only when stopped with the *)
(* queue empty; the lifecycle ends only through Shutdown.                  *)
Control ==
  /\ started <=> disp # "absent"
  /\ ~started => log = <<>> /\ buf = <<>>
  /\ Delivering <=> inflight # NoScore
  /\ disp = "exited" => stopped /\ buf = <<>>
  /\ canceled => stopped
  /\ \A p \in Stoppers : stop[p] # "idle" => stopped

LEMMA ControlInit == Init => Control
BY DEF Init, Control, Delivering

LEMMA ControlStep == ASSUME TypeOK, Control, [Next]_vars PROVE Control'
<1> USE DEF Control, Delivering
<1>1. ASSUME NEW s \in Scores, EnqueueAccept(s) PROVE Control'
  BY <1>1 DEF EnqueueAccept, TypeOK
<1>2. ASSUME NEW s \in Scores, Enqueue(s), ~EnqueueAccept(s) PROVE Control'
  BY <1>2, EnqueueFrame
<1>3. ASSUME NEW f \in Flushers, Flush(f) PROVE Control'
  BY <1>3, FlushFrame
<1>4. ASSUME NEW p \in Stoppers, Shutdown(p) PROVE Control'
  <2>1. UNCHANGED <<queueVars, started, dispVars>> BY <1>4, ShutdownFrame
  <2>2. stopped' /\ stop' \in [Stoppers -> StopStates]
    BY <1>4, TypeShutdown DEF TypeOK, Shutdown, ShutdownEnter, ShutdownSignal, ShutdownDone,
       ShutdownExpire, ShutdownAborted, Signaling
  <2> QED BY <2>1, <2>2
<1>5. CASE DispatchPop BY <1>5, NoScoreAssumption DEF DispatchPop, TypeOK
<1>6. CASE DispatchIdle BY <1>6 DEF DispatchIdle
<1>7. CASE DispatchWake BY <1>7 DEF DispatchWake
<1>8. CASE DispatchSignal BY <1>8 DEF DispatchSignal
<1>9. CASE deliver BY <1>9, DeliverFrame
<1>10. CASE finishOne BY <1>10 DEF finishOne
<1>11. CASE DiagDone BY <1>11 DEF DiagDone
<1>12. CASE UNCHANGED vars BY <1>12 DEF vars
<1> QED BY <1>1, <1>2, <1>3, <1>4, <1>5, <1>6, <1>7, <1>8, <1>9, <1>10, <1>11, <1>12
        DEF Next, dispatch

-----------------------------------------------------------------------------
(* Accounting: an event enters the log once, by the call that was accepted, *)
(* so the counters, the queue and the outcomes stay aligned.               *)
LogOnce ==
  /\ \A i, j \in 1..accepted : log[i] = log[j] => i = j
  /\ \A i \in 1..accepted : call[log[i]] \in {"signal", "accepted"}
  /\ \A s \in Scores : outcome[s] # "none" => call[s] \in {"signal", "accepted"}

LEMMA AccountingInit == Init => LogOnce /\ QueueAccounting
BY DEF Init, LogOnce, QueueAccounting, accepted, popped, Delivering

LEMMA AccountingFrame ==
  ASSUME UNCHANGED <<call, queueVars, dispVars>>, LogOnce, QueueAccounting
  PROVE  LogOnce' /\ QueueAccounting'
BY DEF LogOnce, QueueAccounting, accepted, popped, Delivering

LEMMA CallsKeepLog ==
  ASSUME TypeOK, LogOnce, NEW s \in Scores, Enqueue(s), ~EnqueueAccept(s)
  PROVE  LogOnce'
<1>1. UNCHANGED <<queueVars, dispVars>>
  BY EnqueueFrame
<1>2. call'[s] \in {"signal", "accepted"} \/ call[s] \notin {"signal", "accepted"}
  BY DEF Enqueue, EnqueueReject, EnqueueSignal, EnqueueFull, EnqueueTakeSpace, EnqueueLeave,
         Locks, TypeOK
<1>3. \A q \in Scores : q # s => call'[q] = call[q]
  BY DEF Enqueue, EnqueueReject, EnqueueSignal, EnqueueFull, EnqueueTakeSpace, EnqueueLeave,
         Locks, TypeOK
<1>4. \A i \in 1..accepted : log[i] \in Scores
  BY DEF TypeOK, accepted
<1> QED BY <1>1, <1>2, <1>3, <1>4 DEF LogOnce, accepted

LEMMA AccountingStep ==
  ASSUME TypeOK, Control, LogOnce, QueueAccounting, [Next]_vars
  PROVE  LogOnce' /\ QueueAccounting'
<1>1. ASSUME NEW s \in Scores, EnqueueAccept(s) PROVE LogOnce' /\ QueueAccounting'
  <2> DEFINE n == accepted
  <2>1. n \in Nat /\ accepted' = n + 1 /\ log'[n + 1] = s /\ \A i \in 1..n : log'[i] = log[i] /\ log[i] \in Scores
    BY <1>1 DEF EnqueueAccept, TypeOK, accepted
  <2>2. call' = [call EXCEPT ![s] = "signal"] /\ call[s] \in {"idle", "try"}
    BY <1>1 DEF EnqueueAccept, Locks
  <2>3. \A i \in 1..n : log[i] # s
    BY <2>2 DEF LogOnce
  <2>4. outcome' = outcome /\ outcome[s] = "none"
    BY <1>1, <2>2 DEF EnqueueAccept, LogOnce
  <2>5. LogOnce'
    <3>1. \A i, j \in 1..(n + 1) : log'[i] = log'[j] => i = j
      BY <2>1, <2>3 DEF LogOnce
    <3>2. \A i \in 1..(n + 1) : call'[log'[i]] \in {"signal", "accepted"}
      BY <2>1, <2>2, <2>3 DEF LogOnce, TypeOK
    <3>3. \A q \in Scores : outcome'[q] # "none" => call'[q] \in {"signal", "accepted"}
      BY <2>2, <2>4 DEF LogOnce, TypeOK
    <3> QED BY <2>1, <3>1, <3>2, <3>3 DEF LogOnce
  <2>6. /\ Delivering' <=> Delivering
        /\ popped' = popped /\ completed' = completed /\ inflight' = inflight
        /\ disp' = "finish" <=> disp = "finish"
    BY <1>1 DEF EnqueueAccept, Delivering, popped, Control
  <2>7. /\ popped \in Nat /\ completed \in Nat /\ popped + Len(buf) = n /\ Len(buf) \in Nat
        /\ Delivering => popped >= 1
    BY DEF TypeOK, popped, QueueAccounting
  <2>8. /\ Len(buf') = Len(buf) + 1 /\ buf'[Len(buf) + 1] = s
        /\ \A i \in 1..Len(buf) : buf'[i] = buf[i]
    BY <1>1 DEF EnqueueAccept, TypeOK
  <2>9. popped' + Len(buf') = accepted'
    BY <2>1, <2>6, <2>7, <2>8
  <2>10. \A i \in 1..Len(buf') : buf'[i] = log'[popped' + i]
    BY <2>1, <2>6, <2>7, <2>8 DEF QueueAccounting
  <2>11. Delivering' => inflight' = log'[popped']
    BY <2>1, <2>6, <2>7 DEF QueueAccounting
  <2>12. \A i \in 1..(n + 1) : outcome'[log'[i]] # "none" <=>
            i <= completed' \/ (i = popped' /\ disp' = "finish")
    <3>1. completed <= popped /\ popped <= n
      BY <2>7 DEF popped, TypeOK
    <3>2. \A i \in 1..n : outcome'[log'[i]] # "none" <=>
             i <= completed \/ (i = popped /\ disp = "finish")
      BY <2>1, <2>4 DEF QueueAccounting
    <3>3. outcome'[log'[n + 1]] = "none" /\ ~(n + 1 <= completed) /\ n + 1 # popped
      BY <2>1, <2>4, <2>7, <3>1
    <3>4. \A i \in 1..(n + 1) : i \in 1..n \/ i = n + 1
      BY <2>1
    <3> QED BY <2>6, <3>2, <3>3, <3>4
  <2> QED BY <2>1, <2>5, <2>9, <2>10, <2>11, <2>12 DEF QueueAccounting
<1>2. ASSUME NEW s \in Scores, Enqueue(s), ~EnqueueAccept(s) PROVE LogOnce' /\ QueueAccounting'
  <2>1. UNCHANGED <<queueVars, dispVars>> BY <1>2, EnqueueFrame
  <2> QED BY <1>2, <2>1, CallsKeepLog DEF QueueAccounting, accepted, popped, Delivering
<1>3. ASSUME NEW f \in Flushers, Flush(f) PROVE LogOnce' /\ QueueAccounting'
  BY <1>3, FlushFrame, AccountingFrame
<1>4. ASSUME NEW p \in Stoppers, Shutdown(p) PROVE LogOnce' /\ QueueAccounting'
  BY <1>4, ShutdownFrame, AccountingFrame
<1>5. CASE DispatchPop
  <2>1. /\ buf # <<>> /\ ~Delivering /\ Delivering' /\ popped = completed /\ popped' = completed + 1
        /\ UNCHANGED <<call, log, completed, outcome>> /\ disp' # "finish" /\ disp # "finish"
    BY <1>5 DEF DispatchPop, Delivering, popped
  <2>2. inflight' = buf[1] /\ Len(buf') = Len(buf) - 1 /\ Len(buf) >= 1
        /\ \A i \in 1..Len(buf') : buf'[i] = buf[i + 1]
    BY <1>5 DEF DispatchPop, TypeOK
  <2>3. /\ LogOnce' /\ accepted' = accepted
    BY <2>1 DEF LogOnce, accepted
  <2>4. popped' + Len(buf') = accepted
    BY <2>1, <2>2 DEF QueueAccounting, TypeOK
  <2>5. \A i \in 1..Len(buf) : buf[i] = log[completed + i]
    BY <2>1 DEF QueueAccounting
  <2>6. \A i \in 1..Len(buf') : buf'[i] = log'[popped' + i]
    <3> TAKE i \in 1..Len(buf')
    <3>1. i + 1 \in 1..Len(buf) /\ completed + (i + 1) = popped' + i
      BY <2>1, <2>2 DEF TypeOK
    <3> QED BY <2>1, <2>2, <2>5, <3>1
  <2>7. inflight' = log'[popped']
    BY <2>1, <2>2, <2>5
  <2>8. \A i \in 1..accepted : outcome'[log'[i]] # "none" <=> i <= completed'
    BY <2>1 DEF QueueAccounting
  <2> QED BY <2>1, <2>3, <2>4, <2>6, <2>7, <2>8 DEF QueueAccounting
<1>6. CASE DispatchIdle \/ DispatchWake \/ DispatchSignal
  BY <1>6, ZenonT(30) DEF DispatchIdle, DispatchWake, DispatchSignal, LogOnce, QueueAccounting, accepted, popped, Delivering
<1>7. CASE deliver
  <2>1. /\ UNCHANGED <<call, queueVars, inflight>> /\ Delivering /\ Delivering'
        /\ popped' = popped /\ disp # "finish" /\ popped = completed + 1
        /\ inflight = log[popped] /\ popped \in 1..accepted /\ inflight \in Scores
    BY <1>7, DeliverFrame DEF Delivering, popped, QueueAccounting, accepted, TypeOK
  <2>2. CASE outcome' = outcome /\ disp' # "finish"
    BY <2>1, <2>2 DEF LogOnce, QueueAccounting, accepted
  <2>3. ASSUME disp' = "finish", NEW end \in {"sent", "failed", "aborted"},
               outcome' = [outcome EXCEPT ![inflight] = end]
        PROVE  LogOnce' /\ QueueAccounting'
    <3>1. call[inflight] \in {"signal", "accepted"}
      BY <2>1 DEF LogOnce
    <3>2. LogOnce'
      BY <2>1, <2>3, <3>1 DEF LogOnce, accepted, TypeOK
    <3>3. \A i \in 1..accepted : log[i] \in Scores /\ (i # popped => log[i] # inflight)
      BY <2>1 DEF LogOnce, accepted, TypeOK
    <3>4. \A i \in 1..accepted : outcome'[log[i]] # "none" <=> i <= completed \/ i = popped
      BY <2>1, <2>3, <3>3 DEF QueueAccounting, TypeOK
    <3> QED BY <2>1, <2>3, <3>2, <3>4 DEF QueueAccounting, accepted
  <2> QED BY <1>7, DeliverFrame, <2>2, <2>3
<1>8. CASE finishOne
  <2>1. /\ UNCHANGED <<call, buf, log, outcome>> /\ Delivering /\ ~Delivering'
        /\ completed' = completed + 1 /\ popped = completed + 1 /\ popped' = popped
        /\ disp = "finish" /\ disp' # "finish"
    BY <1>8 DEF finishOne, Delivering, popped
  <2> QED BY <2>1 DEF LogOnce, QueueAccounting, accepted, TypeOK
<1>9. CASE DiagDone
  BY <1>9, AccountingFrame DEF DiagDone
<1>10. CASE UNCHANGED vars
  BY <1>10, AccountingFrame DEF vars
<1> QED BY <1>1, <1>2, <1>3, <1>4, <1>5, <1>6, <1>7, <1>8, <1>9, <1>10 DEF Next, dispatch

-----------------------------------------------------------------------------
(* Signals: neither the dispatcher nor a blocked producer is forgotten.    *)

LEMMA WakeStep == ASSUME TypeOK, Control, NoLostWakeup, [Next]_vars PROVE NoLostWakeup'
<1> USE DEF NoLostWakeup
<1>1. ASSUME NEW s \in Scores, Enqueue(s) PROVE NoLostWakeup'
  <2>1. CASE EnqueueAccept(s)
    <3>1. call'[s] = "signal" BY <2>1 DEF EnqueueAccept, TypeOK
    <3> QED BY <3>1
  <2>2. CASE EnqueueSignal(s) BY <2>2 DEF EnqueueSignal
  <2>3. CASE EnqueueReject(s) \/ EnqueueFull(s) \/ EnqueueTakeSpace(s) \/ EnqueueLeave(s)
    <3>1. /\ UNCHANGED <<disp, wake, buf, stopped, stop>> /\ call[s] # "signal"
          /\ \A q \in Scores : q # s => call'[q] = call[q]
      BY <2>3 DEF EnqueueReject, EnqueueFull, EnqueueTakeSpace, EnqueueLeave, Locks, TypeOK
    <3> QED BY <3>1
  <2> QED BY <1>1, <2>1, <2>2, <2>3 DEF Enqueue
<1>2. ASSUME NEW f \in Flushers, Flush(f) PROVE NoLostWakeup'
  BY <1>2, FlushFrame
<1>3. ASSUME NEW p \in Stoppers, Shutdown(p) PROVE NoLostWakeup'
  <2>1. CASE ShutdownEnter(p)
    <3>1. disp = "sleep" => stop'[p] \in Signaling
      BY <2>1 DEF ShutdownEnter, Control, Signaling, TypeOK
    <3> QED BY <2>1, <3>1 DEF ShutdownEnter
  <2>2. CASE ShutdownSignal(p) BY <2>2 DEF ShutdownSignal
  <2>3. CASE ShutdownDone(p) \/ ShutdownExpire(p) \/ ShutdownAborted(p)
    <3>1. /\ UNCHANGED <<disp, wake, buf, stopped, call>> /\ stop[p] \notin Signaling
          /\ \A q \in Stoppers : q # p => stop'[q] = stop[q]
      BY <2>3 DEF ShutdownDone, ShutdownExpire, ShutdownAborted, Signaling, TypeOK
    <3> QED BY <3>1
  <2> QED BY <1>3, <2>1, <2>2, <2>3 DEF Shutdown
<1>4. CASE DispatchPop BY <1>4 DEF DispatchPop
<1>5. CASE DispatchIdle BY <1>5 DEF DispatchIdle
<1>6. CASE DispatchWake BY <1>6 DEF DispatchWake
<1>7. CASE DispatchSignal BY <1>7 DEF DispatchSignal
<1>8. CASE deliver BY <1>8, DeliverFrame
<1>9. CASE finishOne BY <1>9 DEF finishOne
<1>10. CASE DiagDone BY <1>10 DEF DiagDone
<1>11. CASE UNCHANGED vars BY <1>11 DEF vars
<1> QED BY <1>1, <1>2, <1>3, <1>4, <1>5, <1>6, <1>7, <1>8, <1>9, <1>10, <1>11 DEF Next, dispatch

(* Once a running client is stopped, some Shutdown owns the drain until it *)
(* cancels the lifecycle; and only a started client has blocked producers. *)
DrainOwned ==
  /\ \A s \in Scores : call[s] = "wait" => started
  /\ started /\ stopped /\ ~canceled => \E p \in Stoppers : OwnsDrain(p)

LEMMA OwnedStep == ASSUME TypeOK, Control, DrainOwned, [Next]_vars PROVE DrainOwned'
<1> USE DEF DrainOwned, OwnsDrain
<1>1. ASSUME NEW s \in Scores, Enqueue(s) PROVE DrainOwned'
  <2>1. CASE EnqueueAccept(s) BY <2>1 DEF EnqueueAccept
  <2>2. CASE EnqueueFull(s)
    <3>1. started BY <2>2, CapacityAssumption DEF EnqueueFull, Control
    <3> QED BY <2>2, <3>1 DEF EnqueueFull
  <2>3. CASE EnqueueReject(s) \/ EnqueueSignal(s) \/ EnqueueTakeSpace(s) \/ EnqueueLeave(s)
    <3>1. UNCHANGED <<lifeVars, stop>> /\ \A q \in Scores : call'[q] = "wait" => call[q] = "wait"
      BY <2>3 DEF EnqueueReject, EnqueueSignal, EnqueueTakeSpace, EnqueueLeave, TypeOK
    <3> QED BY <3>1
  <2> QED BY <1>1, <2>1, <2>2, <2>3 DEF Enqueue
<1>2. ASSUME NEW f \in Flushers, Flush(f) PROVE DrainOwned'
  BY <1>2, FlushFrame
<1>3. ASSUME NEW p \in Stoppers, Shutdown(p) PROVE DrainOwned'
  <2>1. UNCHANGED <<call, started>> BY <1>3, ShutdownFrame
  <2>2. CASE ShutdownEnter(p)
    <3>1. UNCHANGED canceled /\ \A q \in Stoppers : OwnsDrain(q) => OwnsDrain(q)'
      BY <2>2 DEF ShutdownEnter, TypeOK
    <3>2. started /\ ~stopped => OwnsDrain(p)'
      BY <2>2 DEF ShutdownEnter, TypeOK
    <3> QED BY <2>1, <3>1, <3>2
  <2>3. CASE ShutdownSignal(p)
    <3>1. UNCHANGED <<stopped, canceled>> /\ \A q \in Stoppers : OwnsDrain(q) => OwnsDrain(q)'
      BY <2>3 DEF ShutdownSignal, AfterSignal, TypeOK
    <3> QED BY <2>1, <3>1
  <2>4. CASE ShutdownDone(p) \/ ShutdownExpire(p)
    BY <2>1, <2>4 DEF ShutdownDone, ShutdownExpire
  <2>5. CASE ShutdownAborted(p)
    <3>1. UNCHANGED <<stopped, canceled>> /\ \A q \in Stoppers : OwnsDrain(q) => OwnsDrain(q)'
      BY <2>5 DEF ShutdownAborted, TypeOK
    <3> QED BY <2>1, <3>1
  <2> QED BY <1>3, <2>2, <2>3, <2>4, <2>5 DEF Shutdown
<1>4. CASE dispatch
  BY <1>4, DeliverFrame DEF dispatch, DispatchPop, DispatchIdle, DispatchWake, DispatchSignal, finishOne
<1>5. CASE DiagDone BY <1>5 DEF DiagDone
<1>6. CASE UNCHANGED vars BY <1>6 DEF vars
<1> QED BY <1>1, <1>2, <1>3, <1>4, <1>5, <1>6 DEF Next

LEMMA StoppedStays == ASSUME stopped, [Next]_vars PROVE stopped'
<1>1. ASSUME NEW s \in Scores, Enqueue(s) PROVE stopped'
  BY <1>1 DEF Enqueue, EnqueueReject, EnqueueAccept, EnqueueSignal, EnqueueFull, EnqueueTakeSpace,
              EnqueueLeave
<1>2. ASSUME NEW f \in Flushers, Flush(f) PROVE stopped'
  BY <1>2, FlushFrame
<1>3. ASSUME NEW p \in Stoppers, Shutdown(p) PROVE stopped'
  BY <1>3 DEF Shutdown, ShutdownEnter, ShutdownSignal, ShutdownDone, ShutdownExpire, ShutdownAborted
<1>4. CASE dispatch
  BY <1>4, DeliverFrame DEF dispatch, DispatchPop, DispatchIdle, DispatchWake, DispatchSignal, finishOne
<1>5. CASE DiagDone BY <1>5 DEF DiagDone
<1>6. CASE UNCHANGED vars BY <1>6 DEF vars
<1> QED BY <1>1, <1>2, <1>3, <1>4, <1>5, <1>6 DEF Next

LEMMA SpaceStep ==
  ASSUME TypeOK, Control, DrainOwned, NoStrandedProducer, [Next]_vars
  PROVE  NoStrandedProducer'
<1> DEFINE Hope == \/ space \/ buf # <<>> \/ disp = "signalSpace"
                   \/ \E s \in Scores : call[s] = "try"
<1>1. SUFFICES ASSUME ~stopped, ~stopped', NEW w \in Scores, call'[w] = "wait" PROVE Hope'
  <2>1. DrainOwned' BY OwnedStep
  <2> QED BY <2>1, StoppedStays DEF NoStrandedProducer, DrainOwned
<1>2. ASSUME NEW q \in Scores, call[q] = "wait" PROVE Hope
  <2>1. ~canceled /\ \A p \in Stoppers : ~OwnsDrain(p)
    BY <1>1 DEF Control, OwnsDrain
  <2> QED BY <1>2, <2>1 DEF NoStrandedProducer
<1>3. ASSUME NEW s \in Scores, Enqueue(s) PROVE Hope'
  <2>1. CASE EnqueueAccept(s) BY <2>1 DEF EnqueueAccept, TypeOK
  <2>2. CASE EnqueueFull(s) BY <2>2, CapacityAssumption DEF EnqueueFull
  <2>3. CASE EnqueueTakeSpace(s)
    <3>1. call'[s] = "try" BY <2>3 DEF EnqueueTakeSpace, TypeOK
    <3> QED BY <3>1
  <2>4. CASE EnqueueSignal(s) \/ EnqueueLeave(s)
    <3>1. /\ UNCHANGED <<space, buf, disp>> /\ call[s] # "try" /\ call[w] = "wait"
          /\ \A q \in Scores : q # s => call'[q] = call[q]
      BY <1>1, <2>4 DEF EnqueueSignal, EnqueueLeave, TypeOK
    <3> QED BY <1>2, <3>1
  <2>5. ~EnqueueReject(s) BY <1>1 DEF EnqueueReject
  <2> QED BY <1>3, <2>1, <2>2, <2>3, <2>4, <2>5 DEF Enqueue
<1>4. CASE UNCHANGED <<call, space, buf, disp>>
  BY <1>1, <1>2, <1>4
<1>5. ASSUME NEW f \in Flushers, Flush(f) PROVE Hope'
  BY <1>4, <1>5, FlushFrame
<1>6. ASSUME NEW p \in Stoppers, Shutdown(p) PROVE Hope'
  BY <1>4, <1>6, ShutdownFrame
<1>7. CASE DispatchPop BY <1>7 DEF DispatchPop
<1>8. CASE DispatchIdle \/ DispatchWake \/ finishOne
  <2>1. UNCHANGED <<call, space, buf>> /\ disp # "signalSpace"
    BY <1>8 DEF DispatchIdle, DispatchWake, finishOne
  <2> QED BY <1>1, <1>2, <2>1
<1>9. CASE DispatchSignal BY <1>9 DEF DispatchSignal
<1>10. CASE deliver
  BY <1>1, <1>2, <1>10, DeliverFrame
<1>11. CASE DiagDone BY <1>4, <1>11 DEF DiagDone
<1>12. CASE UNCHANGED vars BY <1>4, <1>12 DEF vars
<1> QED BY <1>3, <1>5, <1>6, <1>7, <1>8, <1>9, <1>10, <1>11, <1>12 DEF Next, dispatch

-----------------------------------------------------------------------------
(* Flush: a waiter's own target, not the length of the queue, decides.     *)
FlushState ==
  \A f \in Flushers :
    /\ target[f] <= accepted
    /\ flush[f] = "ok" \/ f \in released => target[f] <= completed
    /\ f \in released => flush[f] # "idle"
    /\ f \in waiters => target[f] > completed /\ flush[f] # "idle"
    /\ flush[f] = "wait" => f \in waiters \cup released

LEMMA FlushStep ==
  ASSUME TypeOK, Control, FlushState, QueueAccounting, [Next]_vars
  PROVE  FlushState'
<1> USE DEF FlushState, accepted
<1>1. ASSUME NEW s \in Scores, EnqueueAccept(s) PROVE FlushState'
  BY <1>1 DEF EnqueueAccept, TypeOK
<1>2. CASE UNCHANGED <<queueVars, flushVars>>
  BY <1>2
<1>3. ASSUME NEW s \in Scores, Enqueue(s), ~EnqueueAccept(s) PROVE FlushState'
  BY <1>2, <1>3, EnqueueFrame
<1>4. ASSUME NEW f \in Flushers, Flush(f) PROVE FlushState'
  <2>1. UNCHANGED queueVars BY <1>4, FlushFrame
  <2>2. CASE FlushEnter(f) BY <2>1, <2>2 DEF FlushEnter, TypeOK
  <2>3. CASE FlushReleased(f) BY <2>1, <2>3 DEF FlushReleased, TypeOK
  <2>4. CASE FlushExpire(f) BY <2>1, <2>4 DEF FlushExpire, TypeOK
  <2>5. CASE abandonWaiter(f) BY <2>1, <2>5 DEF abandonWaiter, TypeOK
  <2> QED BY <1>4, <2>2, <2>3, <2>4, <2>5 DEF Flush
<1>5. ASSUME NEW p \in Stoppers, Shutdown(p) PROVE FlushState'
  BY <1>2, <1>5, ShutdownFrame
<1>6. CASE DispatchPop \/ DispatchIdle \/ DispatchWake \/ DispatchSignal
  BY <1>6 DEF DispatchPop, DispatchIdle, DispatchWake, DispatchSignal
<1>7. CASE deliver BY <1>2, <1>7, DeliverFrame
<1>8. CASE finishOne BY <1>8 DEF finishOne, TypeOK
<1>9. CASE DiagDone BY <1>2, <1>9 DEF DiagDone
<1>10. CASE UNCHANGED vars BY <1>2, <1>10 DEF vars
<1> QED BY <1>1, <1>3, <1>4, <1>5, <1>6, <1>7, <1>8, <1>9, <1>10 DEF Next, dispatch

-----------------------------------------------------------------------------
(* Shutdown: who may have canceled the lifecycle, and what that excuses.   *)
StopState ==
  /\ \A p \in Stoppers : stop[p] \in {"ok", "expired"} => disp = "exited"
  /\ canceled /\ disp # "exited" => \E p \in Stoppers : stop[p] = "doneWait"

LEMMA StopStep ==
  ASSUME TypeOK, Control, StopState, AbortOnlyOnExpiry, [Next]_vars
  PROVE  StopState' /\ AbortOnlyOnExpiry'
<1> USE DEF StopState, AbortOnlyOnExpiry
<1>1. ASSUME NEW s \in Scores, Enqueue(s) PROVE StopState' /\ AbortOnlyOnExpiry'
  <2>1. CASE EnqueueAccept(s) BY <2>1 DEF EnqueueAccept, Control
  <2>2. CASE ~EnqueueAccept(s) BY <1>1, <2>2, EnqueueFrame
  <2> QED BY <2>1, <2>2
<1>2. ASSUME NEW f \in Flushers, Flush(f) PROVE StopState' /\ AbortOnlyOnExpiry'
  BY <1>2, FlushFrame
<1>3. ASSUME NEW p \in Stoppers, Shutdown(p) PROVE StopState' /\ AbortOnlyOnExpiry'
  <2>1. UNCHANGED dispVars BY <1>3, ShutdownFrame
  <2>2. CASE ShutdownEnter(p) BY <2>1, <2>2 DEF ShutdownEnter, TypeOK
  <2>3. CASE ShutdownSignal(p)
    BY <2>1, <2>3 DEF ShutdownSignal, Signaling, AfterSignal, TypeOK
  <2>4. CASE ShutdownDone(p) BY <2>1, <2>4 DEF ShutdownDone, TypeOK
  <2>5. CASE ShutdownExpire(p)
    <3>1. stop'[p] = "doneWait" /\ stop[p] \notin {"doneWait", "ok", "expired"}
          /\ \A q \in Stoppers : q # p => stop'[q] = stop[q]
      BY <2>5 DEF ShutdownExpire, TypeOK
    <3> QED BY <2>1, <3>1
  <2>6. CASE ShutdownAborted(p)
    <3>1. stop'[p] = "expired" /\ disp = "exited"
          /\ \A q \in Stoppers : q # p => stop'[q] = stop[q]
      BY <2>6 DEF ShutdownAborted, TypeOK
    <3> QED BY <2>1, <3>1
  <2> QED BY <1>3, <2>2, <2>3, <2>4, <2>5, <2>6 DEF Shutdown
<1>4. CASE DispatchPop \/ DispatchIdle \/ DispatchWake \/ DispatchSignal \/ finishOne
  BY <1>4 DEF DispatchPop, DispatchIdle, DispatchWake, DispatchSignal, finishOne
<1>5. CASE deliver
  <2>1. /\ UNCHANGED <<canceled, stop>> /\ disp # "exited" /\ disp' # "exited"
        /\ (\E s \in Scores : outcome'[s] = "aborted") =>
              canceled \/ \E s \in Scores : outcome[s] = "aborted"
    BY <1>5, DeliverFrame DEF TypeOK
  <2> QED BY <2>1
<1>6. CASE DiagDone BY <1>6 DEF DiagDone
<1>7. CASE UNCHANGED vars BY <1>7 DEF vars
<1> QED BY <1>1, <1>2, <1>3, <1>4, <1>5, <1>6, <1>7 DEF Next, dispatch

LEMMA SentStep ==
  ASSUME TypeOK, SentMeansStored, [Next]_vars PROVE SentMeansStored'
<1> USE DEF SentMeansStored
<1>1. CASE UNCHANGED <<outcome, stored>> BY <1>1
<1>2. CASE deliver BY <1>2, DeliverFrame DEF TypeOK
<1>3. ASSUME NEW s \in Scores, Enqueue(s) PROVE UNCHANGED <<outcome, stored>>
  BY <1>3, EnqueueFrame DEF EnqueueAccept
<1>4. ASSUME NEW f \in Flushers, Flush(f) PROVE UNCHANGED <<outcome, stored>>
  BY <1>4, FlushFrame
<1>5. ASSUME NEW p \in Stoppers, Shutdown(p) PROVE UNCHANGED <<outcome, stored>>
  BY <1>5, ShutdownFrame
<1>6. CASE DispatchPop \/ DispatchIdle \/ DispatchWake \/ DispatchSignal \/ finishOne
  BY <1>1, <1>6 DEF DispatchPop, DispatchIdle, DispatchWake, DispatchSignal, finishOne
<1>7. CASE DiagDone BY <1>1, <1>7 DEF DiagDone
<1>8. CASE UNCHANGED vars BY <1>1, <1>8 DEF vars
<1> QED BY <1>1, <1>2, <1>3, <1>4, <1>5, <1>6, <1>7, <1>8 DEF Next, dispatch

-----------------------------------------------------------------------------
(* The inductive invariant and what follows from it.                       *)
IInv == /\ TypeOK /\ Control /\ LogOnce /\ QueueAccounting
        /\ NoLostWakeup /\ DrainOwned /\ NoStrandedProducer
        /\ FlushState /\ StopState /\ AbortOnlyOnExpiry /\ SentMeansStored

THEOREM Inductive == Spec => []IInv
<1>1. Init => IInv
  <2> SUFFICES ASSUME Init PROVE IInv
    OBVIOUS
  <2>1. TypeOK /\ Control /\ LogOnce /\ QueueAccounting
    BY TypeInit, ControlInit, AccountingInit
  <2>2. NoLostWakeup /\ DrainOwned /\ NoStrandedProducer
    BY DEF Init, NoLostWakeup, DrainOwned, NoStrandedProducer
  <2>3. FlushState /\ StopState /\ AbortOnlyOnExpiry /\ SentMeansStored
    BY DEF Init, FlushState, StopState, AbortOnlyOnExpiry, SentMeansStored, accepted
  <2> QED BY <2>1, <2>2, <2>3 DEF IInv
<1>2. IInv /\ [Next]_vars => IInv'
  <2> SUFFICES ASSUME IInv, [Next]_vars PROVE IInv'
    OBVIOUS
  <2>1. TypeOK' /\ Control'
    <3>1. inflight = NoScore => disp \notin {"post", "check", "retryWait"}
      BY DEF IInv, Control, Delivering
    <3>2. TypeOK'
      <4>1. CASE UNCHANGED vars BY <4>1 DEF vars, IInv, TypeOK
      <4>2. CASE DiagDone BY <4>2, BoundsAssumption DEF DiagDone, IInv, TypeOK
      <4> QED BY <3>1, <4>1, <4>2, TypeEnqueue, TypeFlush, TypeShutdown, TypeDispatch DEF IInv, Next
    <3> QED BY <3>2, ControlStep DEF IInv
  <2>2. LogOnce' /\ QueueAccounting'
    BY AccountingStep DEF IInv
  <2>3. NoLostWakeup' /\ DrainOwned' /\ NoStrandedProducer'
    BY WakeStep, OwnedStep, SpaceStep DEF IInv
  <2>4. FlushState' /\ StopState' /\ AbortOnlyOnExpiry' /\ SentMeansStored'
    BY FlushStep, StopStep, SentStep DEF IInv
  <2> QED BY <2>1, <2>2, <2>3, <2>4 DEF IInv
<1> QED BY <1>1, <1>2, PTL DEF Spec

(* Every reachable state is well typed.                                    *)
THEOREM TypeCorrect == Spec => []TypeOK
<1>1. IInv => TypeOK BY DEF IInv
<1> QED BY <1>1, Inductive, PTL

(* accepted and completed describe the queue exactly (scores.go, finishOne *)
(* and dispatch).                                                          *)
THEOREM Accounting == Spec => []QueueAccounting
<1>1. IInv => QueueAccounting BY DEF IInv
<1> QED BY <1>1, Inductive, PTL

(* The 1-buffered wake signal is never lost.                               *)
THEOREM WakeNeverLost == Spec => []NoLostWakeup
<1>1. IInv => NoLostWakeup BY DEF IInv
<1> QED BY <1>1, Inductive, PTL

(* However many producers block, merged space tokens strand none of them.  *)
THEOREM ProducersNotStranded == Spec => []NoStrandedProducer
<1>1. IInv => NoStrandedProducer BY DEF IInv
<1> QED BY <1>1, Inductive, PTL

(* Flush has call-time barrier semantics.                                  *)
THEOREM FlushIsABarrier == Spec => []FlushBarrier
<1>1. ASSUME IInv, NEW f \in Flushers, flush[f] = "ok", NEW i \in 1..target[f]
      PROVE  outcome[log[i]] # "none"
  <2>1. target[f] <= completed /\ target[f] <= accepted /\ target[f] \in Nat
        /\ completed \in Nat /\ accepted \in Nat
    BY <1>1 DEF IInv, FlushState, TypeOK, accepted
  <2>2. i \in 1..accepted /\ i <= completed
    BY <2>1
  <2> QED BY <1>1, <2>2 DEF IInv, QueueAccounting
<1>2. IInv => FlushBarrier
  BY <1>1 DEF IInv, FlushState, FlushBarrier
<1> QED BY <1>2, Inductive, PTL

(* The owning Shutdown returns only when every accepted score is settled   *)
(* and the dispatcher has exited.                                          *)
THEOREM ShutdownAccountsForAll == Spec => []ShutdownDrains
<1>1. IInv => ShutdownDrains
  <2> SUFFICES ASSUME IInv, NEW p \in Stoppers, stop[p] \in {"ok", "expired"}
               PROVE  disp = "exited" /\ buf = <<>> /\ completed = accepted
    BY DEF ShutdownDrains
  <2>1. disp = "exited" /\ buf = <<>>
    BY DEF IInv, StopState, Control
  <2>2. popped = completed /\ Len(buf) = 0
    BY <2>1 DEF popped, Delivering
  <2> QED BY <2>1, <2>2 DEF IInv, QueueAccounting, TypeOK
<1> QED BY <1>1, Inductive, PTL

(* Only an expired drain abandons an accepted score.                       *)
THEOREM AbortsAreExplained == Spec => []AbortOnlyOnExpiry
<1>1. IInv => AbortOnlyOnExpiry BY DEF IInv
<1> QED BY <1>1, Inductive, PTL

(* A score counted as sent has been stored.                                *)
THEOREM SentIsStored == Spec => []SentMeansStored
<1>1. IInv => SentMeansStored BY DEF IInv
<1> QED BY <1>1, Inductive, PTL

-----------------------------------------------------------------------------
(* Refinement: every initial state maps to an initial state of             *)
(* ScoreDelivery and every step to one abstract step or to a stutter.      *)

(* An index in the log belongs to one score, so the mapped fate of a score *)
(* is read off the one index it has.                                       *)
LEMMA FateOfLogged ==
  ASSUME IInv, NEW i \in 1..accepted
  PROVE  /\ log[i] \in Scores
         /\ i > completed => dFate[log[i]] = "pending"
         /\ i <= completed => dFate[log[i]] = IF outcome[log[i]] = "sent" THEN "sent" ELSE "dropped"
<1>1. log[i] \in Scores /\ completed \in Nat /\ accepted \in Nat
  BY DEF IInv, TypeOK, accepted
<1>2. completed <= accepted
  BY DEF IInv, QueueAccounting, popped, TypeOK, accepted
<1>3. \A j \in 1..completed : log[j] = log[i] => j = i
  BY <1>1, <1>2 DEF IInv, LogOnce
<1> QED BY <1>1, <1>3 DEF dFate

LEMMA FateOfUnlogged ==
  ASSUME IInv, NEW s \in Scores, \A i \in 1..accepted : log[i] # s
  PROVE  dFate[s] = IF call[s] \in {"full", "canceled", "rejected"} THEN "refused" ELSE "none"
<1>1. \A i \in 1..completed : log[i] # s
  BY DEF IInv, QueueAccounting, popped, TypeOK, accepted
<1> QED BY <1>1 DEF dFate

LEMMA InitMaps == Init => Delivery!Init
<1> SUFFICES ASSUME Init PROVE Delivery!Init
  OBVIOUS
<1>1. dPending = <<>> BY DEF Init, dPending, Delivering
<1>2. dFate = [s \in Scores |-> "none"] BY DEF Init, dFate, accepted
<1>3. dFlush = [f \in Flushers |-> "idle"] BY DEF Init, dFlush
<1>4. dBarrier = [f \in Flushers |-> {}] BY DEF Init, dBarrier
<1>5. dPhase = "open" BY DEF Init, dPhase
<1> QED BY <1>1, <1>2, <1>3, <1>4, <1>5 DEF Delivery!Init

-----------------------------------------------------------------------------
(* Steps that leave a part of the pipeline alone leave its image alone.    *)

LEMMA QueueImage ==
  ASSUME UNCHANGED <<call, queueVars, dispVars>> PROVE UNCHANGED <<dPending, dFate>>
BY DEF dPending, dFate, Delivering, accepted

LEMMA FlushImage ==
  ASSUME UNCHANGED <<log, flush, target>> PROVE UNCHANGED <<dFlush, dBarrier>>
BY DEF dFlush, dBarrier

LEMMA PhaseImage == ASSUME UNCHANGED <<disp, stopped>> PROVE UNCHANGED dPhase
BY DEF dPhase

-----------------------------------------------------------------------------
(* One step of an Enqueue call.                                            *)

LEMMA AcceptMaps ==
  ASSUME IInv, NEW s \in Scores, EnqueueAccept(s) PROVE Delivery!Accept(s)
<1> DEFINE n == accepted
<1>1. n \in Nat /\ accepted' = n + 1 /\ log'[n + 1] = s /\ \A i \in 1..n : log'[i] = log[i] /\ log[i] \in Scores
  BY DEF EnqueueAccept, IInv, TypeOK, accepted
<1>2. call[s] \in {"idle", "try"} /\ call' = [call EXCEPT ![s] = "signal"]
      /\ UNCHANGED <<completed, outcome, stop, inflight, flushVars, stopped>> /\ ~stopped
  BY DEF EnqueueAccept, Locks
<1>3. \A i \in 1..n : log[i] # s
  BY <1>2 DEF IInv, LogOnce
<1>4. completed \in Nat /\ completed <= n
  BY DEF IInv, QueueAccounting, popped, TypeOK, accepted
<1>5. (Delivering' <=> Delivering) /\ disp # "exited" /\ disp' # "exited"
  BY DEF EnqueueAccept, Delivering, IInv, Control
<1>6. dPending' = Append(dPending, s)
  <2>1. buf' = Append(buf, s) /\ buf \in Seq(Scores)
    BY DEF EnqueueAccept, IInv, TypeOK
  <2>2. CASE Delivering
    <3>1. inflight \in Scores BY <2>2 DEF IInv, TypeOK, Control
    <3> QED BY <1>2, <1>5, <2>1, <2>2, <3>1 DEF dPending
  <2>3. CASE ~Delivering
    BY <1>5, <2>1, <2>3 DEF dPending
  <2> QED BY <2>2, <2>3
<1>7. dFate[s] = "none"
  BY <1>2, <1>3, FateOfUnlogged
<1>8. dFate' = [dFate EXCEPT ![s] = "pending"]
  <2>1. dFate'[s] = "pending"
    <3>1. \A i \in 1..completed : log'[i] # s BY <1>1, <1>3, <1>4
    <3> QED BY <1>1, <1>2, <3>1 DEF dFate
  <2>2. ASSUME NEW q \in Scores, q # s PROVE dFate'[q] = dFate[q]
    <3>1. \A i \in 1..completed : log'[i] = log[i] BY <1>1, <1>4
    <3>2. (\E i \in 1..(n + 1) : log'[i] = q) <=> \E i \in 1..n : log[i] = q BY <1>1, <2>2
    <3>3. call'[q] = call[q] BY <1>2, <2>2 DEF IInv, TypeOK
    <3> QED BY <1>1, <1>2, <3>1, <3>2, <3>3 DEF dFate
  <2>3. dFate = [q \in Scores |-> dFate[q]] /\ dFate' = [q \in Scores |-> dFate'[q]]
    BY DEF dFate
  <2> QED BY <2>1, <2>2, <2>3
<1>9. UNCHANGED <<dFlush, dBarrier>>
  <2>1. \A f \in Flushers : target[f] <= n /\ target[f] \in Nat
    BY DEF IInv, FlushState, TypeOK
  <2>2. \A f \in Flushers : {log'[i] : i \in 1..target[f]} = {log[i] : i \in 1..target[f]}
    <3> TAKE f \in Flushers
    <3>1. \A i \in 1..target[f] : log'[i] = log[i] BY <1>1, <2>1
    <3> QED BY <3>1
  <2> QED BY <1>2, <2>2 DEF dFlush, dBarrier
<1>10. dPhase = "open" /\ dPhase' = "open"
  BY <1>2, <1>5 DEF dPhase
<1> QED BY <1>6, <1>7, <1>8, <1>9, <1>10 DEF Delivery!Accept

LEMMA OtherEnqueueMaps ==
  ASSUME IInv, NEW s \in Scores, Enqueue(s), ~EnqueueAccept(s)
  PROVE  Delivery!Refuse(s) \/ UNCHANGED Delivery!vars
<1>1. UNCHANGED <<queueVars, dispVars, flushVars, lifeVars>>
  BY EnqueueFrame
<1>2. UNCHANGED <<dPending, dFlush, dBarrier, dPhase>>
  BY <1>1, FlushImage, PhaseImage DEF dPending, Delivering
<1>3. \A q \in Scores : q # s => dFate'[q] = dFate[q]
  <2>1. \A q \in Scores : q # s => call'[q] = call[q]
    BY DEF Enqueue, EnqueueAccept, EnqueueReject, EnqueueSignal, EnqueueFull, EnqueueTakeSpace, EnqueueLeave,
           IInv, TypeOK
  <2> QED BY <1>1, <2>1 DEF dFate, accepted
<1>4. dFate = [q \in Scores |-> dFate[q]] /\ dFate' = [q \in Scores |-> dFate'[q]]
  BY DEF dFate
<1>5. CASE EnqueueSignal(s)
  <2>1. call[s] = "signal" /\ call'[s] = "accepted" BY <1>5 DEF EnqueueSignal, IInv, TypeOK
  <2>2. dFate'[s] = dFate[s] BY <1>1, <2>1 DEF dFate, accepted
  <2> QED BY <1>2, <1>3, <1>4, <2>2 DEF Delivery!vars
<1>6. CASE ~EnqueueSignal(s)
  <2>1. /\ call[s] \in {"idle", "try", "wait"}
        /\ call'[s] \in {"try", "wait", "full", "canceled", "rejected"}
    BY <1>6 DEF Enqueue, EnqueueAccept, EnqueueReject, EnqueueFull, EnqueueTakeSpace, EnqueueLeave, Locks,
       IInv, TypeOK
  <2>2. \A i \in 1..accepted : log[i] # s
    BY <2>1 DEF IInv, LogOnce
  <2>3. dFate[s] = "none" BY <2>1, <2>2, FateOfUnlogged
  <2>4. dFate'[s] \in {"none", "refused"}
    <3>1. \A i \in 1..completed : log[i] # s
      BY <2>2 DEF IInv, QueueAccounting, popped, TypeOK, accepted
    <3> QED BY <1>1, <2>2, <3>1 DEF dFate, accepted
  <2>5. CASE dFate'[s] = "none"
    BY <1>2, <1>3, <1>4, <2>3, <2>5 DEF Delivery!vars
  <2>6. CASE dFate'[s] = "refused"
    <3>1. dFate' = [dFate EXCEPT ![s] = "refused"] BY <1>3, <1>4, <2>6
    <3> QED BY <1>2, <2>3, <3>1 DEF Delivery!Refuse
  <2> QED BY <2>4, <2>5, <2>6
<1> QED BY <1>5, <1>6

-----------------------------------------------------------------------------
(* One step of a Flush or Shutdown call.                                   *)

(* What the abstract specification calls accepted is the log.              *)
LEMMA AcceptedIsLog ==
  ASSUME IInv PROVE Delivery!Accepted = {log[i] : i \in 1..accepted}
<1>1. \A i \in 1..accepted : log[i] \in Delivery!Accepted
  BY FateOfLogged DEF Delivery!Accepted, IInv, TypeOK, accepted
<1>2. ASSUME NEW s \in Delivery!Accepted PROVE \E i \in 1..accepted : log[i] = s
  BY FateOfUnlogged DEF Delivery!Accepted
<1>3. Delivery!Accepted \subseteq Scores BY DEF Delivery!Accepted
<1> QED BY <1>1, <1>2, <1>3

(* Nothing is pending exactly when the counters agree.                     *)
LEMMA PendingEmpty == ASSUME IInv PROVE dPending = <<>> <=> completed >= accepted
<1>1. CASE Delivering
  <2>1. inflight \in Scores BY <1>1 DEF IInv, Control, TypeOK
  <2>2. dPending # <<>> BY <1>1, <2>1 DEF dPending, IInv, TypeOK
  <2>3. completed < accepted
    BY <1>1 DEF IInv, QueueAccounting, popped, TypeOK, accepted
  <2> QED BY <2>2, <2>3 DEF IInv, TypeOK, accepted
<1>2. CASE ~Delivering
  <2>1. dPending = buf BY <1>2 DEF dPending, IInv, TypeOK
  <2>2. completed + Len(buf) = accepted BY <1>2 DEF IInv, QueueAccounting, popped
  <2> QED BY <2>1, <2>2 DEF IInv, TypeOK, accepted
<1> QED BY <1>1, <1>2

LEMMA FlushMaps ==
  ASSUME IInv, NEW f \in Flushers, Flush(f)
  PROVE  \/ Delivery!FlushBegin(f) \/ Delivery!FlushReturn(f) \/ Delivery!FlushGiveUp(f)
         \/ UNCHANGED Delivery!vars
<1>1. UNCHANGED <<call, queueVars, dispVars, stopped>>
  BY FlushFrame
<1>2. UNCHANGED <<dPending, dFate, dPhase>>
  BY <1>1, QueueImage, PhaseImage
<1>3. CASE FlushEnter(f)
  <2>1. dFlush[f] = "idle" BY <1>3 DEF FlushEnter, dFlush
  <2>2. flush' = [flush EXCEPT ![f] = IF completed >= accepted THEN "ok" ELSE "wait"]
    BY <1>3 DEF FlushEnter
  <2>3. dFlush' = [dFlush EXCEPT ![f] = IF dPending = <<>> THEN "ok" ELSE "waiting"]
    BY <2>2, PendingEmpty DEF dFlush, IInv, TypeOK
  <2>4. dBarrier' = [dBarrier EXCEPT ![f] = Delivery!Accepted]
    <3>1. target' = [target EXCEPT ![f] = accepted] BY <1>3 DEF FlushEnter
    <3> QED BY <1>1, <3>1, AcceptedIsLog DEF dBarrier, IInv, TypeOK
  <2> QED BY <1>2, <2>1, <2>3, <2>4 DEF Delivery!FlushBegin
<1>4. CASE FlushReleased(f)
  <2>1. dFlush[f] = "waiting" /\ dFlush' = [dFlush EXCEPT ![f] = "ok"] /\ UNCHANGED dBarrier
    BY <1>1, <1>4 DEF FlushReleased, dFlush, dBarrier, IInv, TypeOK
  <2>2. target[f] <= completed /\ target[f] <= accepted /\ target[f] \in Nat /\ completed \in Nat
        /\ accepted \in Nat
    BY <1>4 DEF FlushReleased, IInv, FlushState, TypeOK, accepted
  <2>3. \A i \in 1..target[f] : log[i] \in Scores /\ dFate[log[i]] \in {"sent", "dropped"}
    <3> TAKE i \in 1..target[f]
    <3>1. i \in 1..accepted /\ i <= completed BY <2>2
    <3> QED BY <3>1, FateOfLogged
  <2>4. dBarrier[f] \subseteq Delivery!Settled
    BY <2>3 DEF dBarrier, Delivery!Settled
  <2> QED BY <1>2, <2>1, <2>4 DEF Delivery!FlushReturn
<1>5. CASE FlushExpire(f)
  BY <1>1, <1>2, <1>5 DEF FlushExpire, dFlush, dBarrier, Delivery!vars, IInv, TypeOK
<1>6. CASE abandonWaiter(f)
  <2>1. dFlush[f] = "waiting" /\ dFlush' = [dFlush EXCEPT ![f] = "gaveUp"] /\ UNCHANGED dBarrier
    BY <1>1, <1>6 DEF abandonWaiter, dFlush, dBarrier, IInv, TypeOK
  <2> QED BY <1>2, <2>1 DEF Delivery!FlushGiveUp
<1> QED BY <1>3, <1>4, <1>5, <1>6 DEF Flush

LEMMA ShutdownMaps ==
  ASSUME IInv, NEW p \in Stoppers, Shutdown(p)
  PROVE  Delivery!BeginClose \/ UNCHANGED Delivery!vars
<1>1. UNCHANGED <<call, queueVars, dispVars, flushVars>>
  BY ShutdownFrame
<1>2. UNCHANGED <<dPending, dFate, dFlush, dBarrier>>
  BY <1>1, QueueImage, FlushImage
<1>3. stopped'
  BY DEF Shutdown, ShutdownEnter, ShutdownSignal, ShutdownDone, ShutdownExpire, ShutdownAborted,
     IInv, Control, Signaling
<1>4. CASE stopped
  BY <1>1, <1>2, <1>3, <1>4 DEF dPhase, Delivery!vars
<1>5. CASE ~stopped
  <2>1. dPhase = "open" /\ dPhase' = "closing"
    BY <1>1, <1>3, <1>5 DEF dPhase, IInv, Control
  <2> QED BY <1>2, <2>1 DEF Delivery!BeginClose
<1> QED BY <1>4, <1>5

-----------------------------------------------------------------------------
(* One step of the dispatcher.                                             *)

LEMMA FinishMaps ==
  ASSUME IInv, finishOne PROVE \E end \in {"sent", "dropped"} : Delivery!Settle(end)
<1> DEFINE end == IF outcome[inflight] = "sent" THEN "sent" ELSE "dropped"
<1>1. /\ UNCHANGED <<call, buf, log, outcome, flush, target, stopped>>
      /\ disp = "finish" /\ disp' = "top" /\ completed' = completed + 1
  BY DEF finishOne
<1>2. /\ Delivering /\ ~Delivering' /\ inflight \in Scores /\ popped = completed + 1
  BY <1>1 DEF Delivering, IInv, Control, TypeOK, popped
<1>3. completed + 1 \in 1..accepted /\ inflight = log[completed + 1] /\ completed \in Nat
  BY <1>2 DEF IInv, QueueAccounting, TypeOK, accepted
<1>4. dPending = <<inflight>> \o buf /\ dPending' = buf
  BY <1>1, <1>2 DEF dPending, IInv, TypeOK
<1>5. dPending # <<>> /\ Head(dPending) = inflight /\ dPending' = Tail(dPending)
  BY <1>2, <1>4 DEF IInv, TypeOK
<1>6. dFate' = [dFate EXCEPT ![inflight] = end]
  <2>1. dFate'[inflight] = end
    BY <1>1, <1>2, <1>3 DEF dFate
  <2>2. ASSUME NEW q \in Scores, q # inflight PROVE dFate'[q] = dFate[q]
    <3>1. (\E i \in 1..(completed + 1) : log[i] = q) <=> \E i \in 1..completed : log[i] = q
      BY <1>3, <2>2
    <3> QED BY <1>1, <3>1 DEF dFate, accepted
  <2>3. dFate = [q \in Scores |-> dFate[q]] /\ dFate' = [q \in Scores |-> dFate'[q]]
    BY DEF dFate
  <2> QED BY <2>1, <2>2, <2>3
<1>7. UNCHANGED <<dFlush, dBarrier, dPhase>>
  BY <1>1, FlushImage DEF dPhase
<1> QED BY <1>5, <1>6, <1>7 DEF Delivery!Settle

LEMMA DispatchMaps ==
  ASSUME IInv, dispatch
  PROVE  \/ \E end \in {"sent", "dropped"} : Delivery!Settle(end)
         \/ Delivery!Close
         \/ UNCHANGED Delivery!vars
<1>1. CASE DispatchPop
  <2>1. /\ UNCHANGED <<call, log, completed, outcome, flushVars, stopped>> /\ buf # <<>>
        /\ inflight' = Head(buf) /\ buf' = Tail(buf) /\ ~Delivering /\ Delivering'
        /\ disp # "exited" /\ disp' # "exited"
    BY <1>1 DEF DispatchPop, Delivering
  <2>2. dPending' = dPending
    <3>1. buf \in Seq(Scores) BY DEF IInv, TypeOK
    <3>2. <<Head(buf)>> \o Tail(buf) = buf BY <2>1, <3>1
    <3> QED BY <2>1, <3>1, <3>2 DEF dPending
  <2>3. UNCHANGED <<dFate, dFlush, dBarrier, dPhase>>
    BY <2>1, FlushImage DEF dFate, accepted, dPhase
  <2> QED BY <2>2, <2>3 DEF Delivery!vars
<1>2. CASE DispatchIdle
  <2>1. UNCHANGED <<call, queueVars, outcome, inflight, flushVars, stopped>> /\ ~Delivering
        /\ ~Delivering' /\ buf = <<>> /\ disp = "top"
    BY <1>2 DEF DispatchIdle, Delivering
  <2>2. UNCHANGED <<dPending, dFate, dFlush, dBarrier>> /\ dPending = <<>>
    BY <2>1, FlushImage DEF dPending, dFate, accepted
  <2>3. CASE stopped
    <3>1. dPhase = "closing" /\ dPhase' = "closed" BY <1>2, <2>1, <2>3 DEF DispatchIdle, dPhase
    <3> QED BY <2>2, <3>1 DEF Delivery!Close
  <2>4. CASE ~stopped
    BY <1>2, <2>1, <2>2, <2>4 DEF DispatchIdle, dPhase, Delivery!vars
  <2> QED BY <2>3, <2>4
<1>3. CASE DispatchWake \/ DispatchSignal
  BY <1>3, FlushImage, SMTT(30) DEF DispatchWake, DispatchSignal, dPending, dFate, Delivering, accepted, dPhase,
     Delivery!vars
<1>4. CASE deliver
  <2>1. /\ UNCHANGED <<call, queueVars, inflight, flushVars, stopped>> /\ Delivering /\ Delivering'
        /\ disp # "exited" /\ disp' # "exited" /\ popped = completed + 1
    BY <1>4, DeliverFrame DEF Delivering, popped
  <2>2. UNCHANGED <<dPending, dFlush, dBarrier, dPhase>>
    BY <2>1, FlushImage DEF dPending, dPhase
  <2>3. \A i \in 1..completed : log[i] # inflight
    <3>1. inflight = log[completed + 1] /\ completed + 1 \in 1..accepted /\ completed \in Nat
          /\ accepted \in Nat
      BY <2>1 DEF IInv, QueueAccounting, TypeOK, accepted
    <3> QED BY <3>1 DEF IInv, LogOnce
  <2>4. \A q \in Scores : q # inflight => outcome'[q] = outcome[q]
    BY <1>4, DeliverFrame DEF IInv, TypeOK
  <2>5. dFate' = dFate
    <3>1. ASSUME NEW q \in Scores PROVE dFate'[q] = dFate[q]
      <4>1. CASE q = inflight BY <2>1, <2>3, <4>1 DEF dFate, accepted
      <4>2. CASE q # inflight BY <2>1, <2>4, <4>2 DEF dFate, accepted
      <4> QED BY <4>1, <4>2
    <3>2. dFate = [q \in Scores |-> dFate[q]] /\ dFate' = [q \in Scores |-> dFate'[q]]
      BY DEF dFate
    <3> QED BY <3>1, <3>2
  <2> QED BY <2>2, <2>5 DEF Delivery!vars
<1>5. CASE finishOne BY <1>5, FinishMaps
<1> QED BY <1>1, <1>2, <1>3, <1>4, <1>5 DEF dispatch

-----------------------------------------------------------------------------
(* The score client keeps the promise its callers rely on: in-order        *)
(* settlement, call-time flush barriers, nothing accepted after shutdown   *)
(* began, and a close only when everything accepted has settled.           *)
THEOREM Refines == Spec => ImplementsDelivery
<1>1. Init => Delivery!Init
  BY InitMaps
<1>2. IInv /\ [Next]_vars => [Delivery!Next]_(Delivery!vars)
  <2> SUFFICES ASSUME IInv, [Next]_vars PROVE Delivery!Next \/ UNCHANGED Delivery!vars
    OBVIOUS
  <2>1. ASSUME NEW s \in Scores, Enqueue(s) PROVE Delivery!Next \/ UNCHANGED Delivery!vars
    BY <2>1, AcceptMaps, OtherEnqueueMaps DEF Delivery!Next
  <2>2. ASSUME NEW f \in Flushers, Flush(f) PROVE Delivery!Next \/ UNCHANGED Delivery!vars
    BY <2>2, FlushMaps DEF Delivery!Next
  <2>3. ASSUME NEW p \in Stoppers, Shutdown(p) PROVE Delivery!Next \/ UNCHANGED Delivery!vars
    BY <2>3, ShutdownMaps DEF Delivery!Next
  <2>4. CASE dispatch BY <2>4, DispatchMaps DEF Delivery!Next
  <2>5. CASE DiagDone
    BY <2>5, QueueImage, FlushImage, PhaseImage DEF DiagDone, Delivery!vars
  <2>6. CASE UNCHANGED vars
    BY <2>6, QueueImage, FlushImage, PhaseImage DEF vars, Delivery!vars
  <2> QED BY <2>1, <2>2, <2>3, <2>4, <2>5, <2>6 DEF Next
<1> QED BY <1>1, <1>2, Inductive, PTL DEF Spec, ImplementsDelivery, Delivery!Spec
==============================================================================
