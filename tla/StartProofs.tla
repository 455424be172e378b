------------------------------ MODULE StartProofs -----------------------------
(***************************************************************************)
(* Clients and what a context carries.  At most one Langfuse client is     *)
(* attached to a borrowed provider, what a processor expects is active,    *)
(* and a Shutdown that returns nil left nothing behind, for any number of  *)
(* clients, callers and spans.  Score suppression is sound, and authority  *)
(* that is lost stays lost, for any paths, rates, traces and number of     *)
(* spans.  Attribution is current and outbound baggage is the path's       *)
(* state, for any attributes, messages, masker and limits.                 *)
(*                                                                         *)
(* The invariant of clients ties the reservation to New and to the stage   *)
(* of teardown that frees it, and each span to the one processor that      *)
(* observed its start: while that processor has not begun its own shutdown *)
(* it is still attached, so the span's end reaches it and no other.        *)
(*                                                                         *)
(* The invariant of decisions: an authoritative one names an observation   *)
(* that has authority itself, and above it there are only its like.  The   *)
(* invariant of baggage: each attribute is a local call's or of the last   *)
(* namespace, and members that were written are those the state makes.     *)
(***************************************************************************)
EXTENDS ClientLifecycle, TraceDecision, Baggage, SequenceTheorems, FiniteSetTheorems, TLAPS

-----------------------------------------------------------------------------
(* Clients, processors and spans.                                         *)


SpanStates ==
  [at : {"idle", "start", "fill", "admit", "record", "mark", "return", "refuse",
         "refused", "unrecorded", "item", "accept", "mark item", "live"},
   client : Clients \cup {NoClient}, parent : Spans \cup {NoSpan},
   rec : BOOLEAN, wants : BOOLEAN, by : Clients \cup {NoClient},
   ctx : SUBSET Clients, parentExpected : BOOLEAN, admitted : BOOLEAN,
   expected : BOOLEAN, root : BOOLEAN, claim : SUBSET Clients,
   end : {"no", "ending", "done"}, endBy : Clients \cup {NoClient}]
CallerStates ==
  [at : {"idle", "swap", "owns", "inProgress", "none", "ok", "error"}, client : Clients \cup {NoClient}]

SetupTyped ==
  /\ phase \in [Clients -> {"none", "reserved", "refused", "open"}]
  /\ attached \subseteq Clients /\ stopped \subseteq Clients /\ procStopped \subseteq Clients
ProcTyped ==
  /\ proc \in [Clients -> {"idle", "stop", "clear", "next", "done"}]
  /\ expected \in [Clients -> SUBSET Spans]
DownTyped ==
  /\ down \in [Clients -> Stages] /\ failed \subseteq Clients
  /\ result \in [Clients -> {"none", "ok", "error"}]
  /\ caller \in [Callers -> CallerStates]
SpansTyped == span \in [Spans -> SpanStates]
Typed == SetupTyped /\ ProcTyped /\ DownTyped /\ SpansTyped

\* The reservation is New's until it fails, and the client's from then on.
OfSetup(c) ==
  /\ phase[c] = "reserved" => owner = c
  /\ c \in attached => phase[c] = "open"

Detached == {"release", "drain", "publish", "closed"}
Released == {"drain", "publish", "closed"}
AfterProc == {"procRun", "procWait", "detach"} \cup Detached

OfDown(c) ==
  /\ down[c] # "idle" => phase[c] = "open"
  /\ down[c] \in AfterProc => proc[c] # "idle"
  /\ down[c] \in Detached /\ c \in attached /\ c \in Borrowed => provShut
  /\ down[c] \in Released => owner # c
  /\ down[c] \in {"detach", "release", "drain"} /\ c \notin failed => proc[c] = "done"
  /\ down[c] \in {"publish", "closed"} /\ result[c] = "ok" => proc[c] = "done"

OfProc(c) ==
  /\ proc[c] \in {"clear", "next", "done"} => c \in procStopped
  /\ proc[c] \in {"next", "done"} => expected[c] = {}

OfCaller(x) ==
  /\ caller[x].at = "swap" => caller[x].client \in Clients /\ phase[caller[x].client] = "open"
  /\ caller[x].at \in {"ok", "error"} =>
       /\ caller[x].client \in Clients /\ down[caller[x].client] = "closed"
       /\ caller[x].at = result[caller[x].client]

OfApp ==
  /\ app # "idle" => provShut
  /\ app = "wait" => \A c \in attached \cap Borrowed : proc[c] # "idle"

\* The processor that observed a span's start, and the span's end.
Observed == {"fill", "admit", "record", "mark", "item", "accept", "mark item"}
Starting == {"idle", "start", "fill", "admit", "record", "mark", "return", "refuse"}
Items == {"item", "accept", "mark item"}
Sound(s, r) ==
  /\ r.at \in {"idle", "start"} => r.by = NoClient
  /\ r.at \in Observed \/ r.admitted => r.by \in Clients
  /\ r.by \in Clients =>
       /\ r.by \in Peers(r.client) /\ (s \in Sdk => r.by = r.client)
       /\ proc[r.by] = "idle" => r.by \in attached
  /\ r.at \in Items \/ r.expected => r.client \in Clients /\ r.by = r.client
  /\ r.at \in Starting => r.end = "no"
  /\ r.end = "ending" => r.endBy \in Clients

Active(c, r) == r.by = c /\ (proc[c] = "idle" => r.end = "no" \/ (r.end = "ending" /\ r.endBy = c))
OfExpected(c) ==
  /\ \A s \in expected[c] : Active(c, span[s])
  /\ IsFiniteSet(expected[c]) /\ Cardinality(expected[c]) <= MaxExpected

EverySetup == \A c \in Clients : OfSetup(c)
EveryDown == \A c \in Clients : OfDown(c)
EveryProc == \A c \in Clients : OfProc(c)
EveryCaller == \A x \in Callers : OfCaller(x)
EverySpan == \A s \in Spans : Sound(s, span[s])
EveryExpected == \A c \in Clients : OfExpected(c)

Inv == /\ Typed /\ OneAttachment /\ EverySetup /\ EveryDown /\ EveryProc
       /\ EveryCaller /\ OfApp /\ EverySpan /\ EveryExpected

-----------------------------------------------------------------------------
LEMMA InitHolds == Init => Inv
<1> SUFFICES ASSUME Init
             PROVE  Inv
  OBVIOUS
<1> USE DEF Init
<1>1. Typed
  <2>1. SetupTyped /\ ProcTyped
    BY DEF SetupTyped, ProcTyped
  <2>2. DownTyped
    BY DEF DownTyped, CallerStates, Stages
  <2>3. IdleSpan \in SpanStates
    BY DEF IdleSpan, SpanStates
  <2> QED BY <2>1, <2>2, <2>3 DEF Typed, SpansTyped
<1>2. OneAttachment /\ EverySetup /\ EveryDown /\ EveryProc /\ EveryCaller /\ OfApp
  BY DEF OneAttachment, EverySetup, OfSetup, EveryDown, OfDown, AfterProc, Detached, Released,
         EveryProc, OfProc, EveryCaller, OfCaller, OfApp
<1>3. EverySpan
  BY SetsAssumption DEF EverySpan, Sound, IdleSpan, Observed, Items, Starting
<1>4. EveryExpected
  BY FS_EmptySet, LimitsAssumption DEF EveryExpected, OfExpected
<1> QED BY <1>1, <1>2, <1>3, <1>4 DEF Inv

-----------------------------------------------------------------------------
(* Steps that leave the spans as they are.                                 *)

LEMMA SpansStay ==
  ASSUME Inv, UNCHANGED span,
         \A c \in Clients : /\ proc'[c] = "idle" => proc[c] = "idle" /\ (c \in attached => c \in attached')
                            /\ expected'[c] \in {expected[c], {}}
  PROVE  EverySpan' /\ EveryExpected'
<1>1. EverySpan'
  <2> SUFFICES ASSUME NEW s \in Spans
               PROVE  Sound(s, span[s])'
    BY DEF EverySpan
  <2>1. Sound(s, span[s])
    BY DEF Inv, EverySpan
  <2> QED BY <2>1 DEF Sound
<1>2. EveryExpected'
  <2> SUFFICES ASSUME NEW c \in Clients
               PROVE  OfExpected(c)'
    BY DEF EveryExpected
  <2>1. OfExpected(c)
    BY DEF Inv, EveryExpected
  <2>2. CASE expected'[c] = expected[c]
    BY <2>1, <2>2 DEF OfExpected, Active
  <2>3. CASE expected'[c] = {}
    BY <2>3, FS_EmptySet, LimitsAssumption DEF OfExpected
  <2> QED BY <2>2, <2>3
<1> QED BY <1>1, <1>2

LEMMA NewKeeps == ASSUME Inv, NEW c \in Clients, New(c) PROVE Inv'
<1> USE DEF New, reserveBorrowedProvider, NewFails, NewRegisters
<1>1. UNCHANGED <<provVars, procVars, downVars, caller, span>> /\ attached \subseteq attached'
  OBVIOUS
<1> USE DEF provVars, procVars, downVars
<1>2. Typed'
  BY DEF Inv, Typed, SetupTyped, ProcTyped, DownTyped, SpansTyped
<1>3. EverySpan' /\ EveryExpected'
  BY <1>1, SpansStay
<1>4. phase[c] \in {"none", "reserved"} /\ down[c] = "idle" /\ c \notin attached
  BY DEF Inv, EveryDown, OfDown, EverySetup, OfSetup
<1>5. \A d \in Clients \ {c} : phase'[d] = phase[d]
  BY DEF Inv, Typed, SetupTyped
<1>6. OneAttachment' /\ OfApp'
  <2>1. CASE UNCHANGED attached
    <3>1. OneAttachment'
      <4>1. ASSUME NEW d \in attached \cap Borrowed
            PROVE  provShut \/ owner' = d
        BY <1>4, <2>1, SetsAssumption DEF Inv, OneAttachment, Borrowed
      <4> QED BY <1>1, <2>1, <4>1 DEF Inv, OneAttachment
    <3> QED BY <2>1, <3>1 DEF Inv, OfApp
  <2>2. CASE attached' = attached \cup {c} /\ c \in Owned
    BY <1>1, <2>2 DEF Inv, OneAttachment, Borrowed, OfApp
  <2>3. CASE attached' = attached \cup {c} /\ c \in Borrowed /\ ~provShut /\ phase[c] = "reserved"
    <3>1. owner = c /\ owner' = owner
      BY <2>3 DEF Inv, EverySetup, OfSetup, Borrowed
    <3>2. \A d \in attached \cap Borrowed : d = c
      BY <2>3, <3>1 DEF Inv, OneAttachment
    <3>3. app = "idle" /\ app' = app
      BY <2>3 DEF Inv, OfApp
    <3> QED BY <2>3, <3>1, <3>2, <3>3 DEF OneAttachment, OfApp
  <2> QED BY <2>1, <2>2, <2>3 DEF Borrowed
<1>7. EverySetup'
  <2>1. OfSetup(c)'
    BY <1>4 DEF Inv, EverySetup, OfSetup, Typed, SetupTyped, Borrowed
  <2>2. ASSUME NEW d \in Clients \ {c}
        PROVE  OfSetup(d)'
    BY <1>5, SetsAssumption DEF Inv, EverySetup, OfSetup, Borrowed
  <2> QED BY <2>1, <2>2 DEF EverySetup
<1>8. EveryDown'
  <2>1. OfDown(c)'
    BY <1>4 DEF OfDown, AfterProc, Detached, Released
  <2>2. ASSUME NEW d \in Clients \ {c}
        PROVE  OfDown(d)'
    <3>1. OfDown(d) /\ phase'[d] = phase[d] /\ (owner' = d => owner = d) /\ (d \in attached' => d \in attached)
      BY <1>5, SetsAssumption DEF Inv, EveryDown
    <3> QED BY <1>1, <3>1 DEF OfDown
  <2> QED BY <2>1, <2>2 DEF EveryDown
<1>9. EveryProc'
  BY DEF Inv, EveryProc, OfProc
<1>10. EveryCaller'
  BY <1>4, <1>5 DEF Inv, EveryCaller, OfCaller
<1> QED BY <1>2, <1>3, <1>6, <1>7, <1>8, <1>9, <1>10 DEF Inv

(* Processor.Shutdown only goes forward, and never back to idle.           *)
Forward == \A c \in Clients : /\ proc'[c] = "idle" => proc[c] = "idle"
                              /\ proc[c] = "done" => proc'[c] = "done"
                              /\ expected'[c] \in {expected[c], {}}

LEMMA ProcForward ==
  ASSUME Inv, Forward, UNCHANGED <<setupVars, provShut, downVars, caller, span>>,
         ProcTyped', procStopped' \subseteq Clients, app' = "wait" => app = "wait",
         app' # "idle" => app # "idle",
         EveryProc'
  PROVE  Inv'
<1> USE DEF setupVars, downVars
<1>1. Typed'
  BY DEF Inv, Typed, SetupTyped, DownTyped, SpansTyped
<1>2. EverySpan' /\ EveryExpected'
  BY SpansStay DEF Forward
<1>3. OneAttachment' /\ EverySetup' /\ EveryCaller'
  BY DEF Inv, OneAttachment, EverySetup, OfSetup, EveryCaller, OfCaller
<1>4. OfApp'
  BY DEF Inv, Typed, SetupTyped, OfApp, Forward
<1>5. EveryDown'
  BY DEF Inv, EveryDown, OfDown, Forward
<1> QED BY <1>1, <1>2, <1>3, <1>4, <1>5 DEF Inv

LEMMA ProcKeeps == ASSUME Inv, NEW c \in Clients, ProcShutdown(c) PROVE Inv'
<1> USE DEF ProcShutdown, ProcStop, ProcClear, ProcNext, provVars
<1>1. UNCHANGED <<setupVars, provVars, downVars, caller, span>>
  OBVIOUS
<1>2. /\ proc[c] # "done" /\ proc'[c] # "idle" /\ \A d \in Clients \ {c} : proc'[d] = proc[d]
      /\ expected'[c] \in {expected[c], {}} /\ \A d \in Clients \ {c} : expected'[d] = expected[d]
  BY DEF Inv, Typed, ProcTyped
<1>3. ProcTyped' /\ procStopped' \subseteq Clients /\ procStopped \subseteq procStopped'
  BY DEF Inv, Typed, ProcTyped, SetupTyped
<1>4. EveryProc'
  <2>1. OfProc(c)'
    BY DEF Inv, EveryProc, OfProc, Typed, ProcTyped
  <2>2. ASSUME NEW d \in Clients \ {c}
        PROVE  OfProc(d)'
    BY <1>2, <1>3 DEF Inv, EveryProc, OfProc
  <2> QED BY <2>1, <2>2 DEF EveryProc
<1>5. Forward
  BY <1>2 DEF Forward
<1> QED BY <1>1, <1>3, <1>4, <1>5, ProcForward

LEMMA AppKeeps == ASSUME Inv, AppStep PROVE Inv'
<1> USE DEF AppStep
<1>1. UNCHANGED <<phase, owner, procStopped, expected, downVars, caller, span>>
  OBVIOUS
<1>2. \A c \in Clients : /\ proc'[c] = "idle" => proc[c] = "idle"
                         /\ proc'[c] # proc[c] => proc[c] = "idle" /\ proc'[c] = "stop"
  BY DEF AppShutdown, ProcCall, Inv, Typed, ProcTyped
<1>3. ProcTyped'
  BY <1>1 DEF AppShutdown, ProcCall, Inv, Typed, ProcTyped
<1>4. (provShut => provShut') /\ attached' \subseteq attached /\ (app' # "idle" => provShut')
  BY DEF AppShutdown, Inv, OfApp
<1>5. \A c \in Clients : c \in attached /\ c \notin attached' => proc[c] # "idle"
  <2>1. CASE attached' = attached
    BY <2>1
  <2>2. CASE app = "wait" /\ attached' = attached \ Borrowed
    BY <2>2 DEF Inv, OfApp
  <2> QED BY <2>1, <2>2 DEF AppShutdown
<1>6. app' = "wait" => \A c \in attached' \cap Borrowed : proc'[c] # "idle"
  <2> SUFFICES ASSUME app' = "wait", NEW d \in attached' \cap Borrowed
               PROVE  proc'[d] # "idle"
    OBVIOUS
  <2>1. CASE \A c \in attached \cap Borrowed : proc[c] # "idle"
    BY <1>2, <1>4, <2>1 DEF Borrowed
  <2>2. ASSUME NEW c \in attached \cap Borrowed, ProcCall(c, "app")
        PROVE  proc'[d] # "idle"
    <3>1. d = c
      BY <1>4 DEF Inv, OneAttachment
    <3> QED BY <2>2, <3>1 DEF ProcCall, Inv, Typed, ProcTyped, Borrowed
  <2> QED BY <2>1, <2>2 DEF AppShutdown
<1>7. Typed'
  BY <1>1, <1>3, <1>4 DEF Inv, Typed, SetupTyped, DownTyped, SpansTyped, downVars
<1>8. EverySpan' /\ EveryExpected'
  BY <1>1, <1>2, <1>5, SpansStay
<1>9. OneAttachment' /\ EverySetup'
  BY <1>1, <1>4 DEF Inv, OneAttachment, EverySetup, OfSetup
<1>10. EveryDown'
  BY <1>1, <1>2, <1>4 DEF Inv, EveryDown, OfDown, downVars
<1>11. EveryProc' /\ EveryCaller'
  BY <1>1, <1>2 DEF Inv, EveryProc, OfProc, EveryCaller, OfCaller, downVars
<1>12. OfApp'
  BY <1>4, <1>6 DEF OfApp
<1> QED BY <1>7, <1>8, <1>9, <1>10, <1>11, <1>12 DEF Inv

-----------------------------------------------------------------------------
(* Client.Shutdown.                                                        *)

\* Steps that change no more than the stages of Client.Shutdown and its calls.
LEMMA DownOnly ==
  ASSUME Inv, UNCHANGED <<setupVars, provVars, procVars, span>>, stopped' \subseteq Clients,
         DownTyped', EveryDown', EveryCaller'
  PROVE  Inv'
<1> USE DEF setupVars, provVars, procVars
<1>1. Typed'
  BY DEF Inv, Typed, SetupTyped, ProcTyped, SpansTyped
<1>2. EverySpan' /\ EveryExpected'
  BY SpansStay
<1>3. OneAttachment' /\ EverySetup' /\ EveryProc' /\ OfApp'
  BY DEF Inv, OneAttachment, EverySetup, OfSetup, EveryProc, OfProc, OfApp
<1> QED BY <1>1, <1>2, <1>3 DEF Inv

\* A call on client c enters its Shutdown, wins it, or returns at once.
Turns(x, c) ==
  /\ phase[c] = "open" /\ caller'[x].client = c
  /\ \/ caller'[x].at = "swap" /\ UNCHANGED down
     \/ caller'[x].at = "owns" /\ down[c] = "idle" /\ down' = [down EXCEPT ![c] = "stop"]
     \/ caller'[x].at = currentShutdownResult(c) /\ UNCHANGED down
  /\ caller' = [caller EXCEPT ![x] = caller'[x]]
  /\ \A y \in Callers \ {x} : caller'[y] = caller[y]
  /\ UNCHANGED <<setupVars, provVars, procVars, stopped, failed, result, span>>

LEMMA CallersKeep == ASSUME Inv, NEW x \in Callers, Shutdown(x) PROVE Inv'
<1>1. PICK c \in Clients : Turns(x, c)
  <2>1. CASE Swap(x)
    <3>1. PICK c \in Clients : c = caller[x].client /\ phase[c] = "open"
      BY <2>1 DEF Swap, Inv, EveryCaller, OfCaller
    <3>2. PICK a : caller' = [caller EXCEPT ![x].at = a]
                   /\ \/ a = "owns" /\ down[c] = "idle" /\ down' = [down EXCEPT ![c] = "stop"]
                      \/ a = currentShutdownResult(c) /\ UNCHANGED down
      BY <2>1, <3>1 DEF Swap
    <3>3. /\ caller'[x] = [caller[x] EXCEPT !.at = a]
          /\ caller' = [caller EXCEPT ![x] = caller'[x]]
          /\ \A y \in Callers \ {x} : caller'[y] = caller[y]
      BY <3>2 DEF Inv, Typed, DownTyped
    <3>4. caller'[x].at = a /\ caller'[x].client = c
      BY <3>1, <3>3 DEF Inv, Typed, DownTyped, CallerStates
    <3> QED BY <2>1, <3>1, <3>2, <3>3, <3>4 DEF Swap, Turns
  <2>2. ASSUME NEW c \in Clients, Enter(x, c)
        PROVE  Turns(x, c)
    BY <2>2 DEF Enter, downVars, Inv, Typed, DownTyped, Turns
  <2> QED BY <2>1, <2>2 DEF Shutdown
<1> USE DEF Turns
<1>2. /\ currentShutdownResult(c) \in {"inProgress", "none", "ok", "error"}
      /\ currentShutdownResult(c) \in {"ok", "error"} => down[c] = "closed" /\ currentShutdownResult(c) = result[c]
  BY DEF currentShutdownResult, Inv, Typed, DownTyped
<1>3. DownTyped'
  <2>1. caller'[x] \in CallerStates
    <3>1. PICK a \in {"swap", "owns", "inProgress", "none", "ok", "error"} : caller'[x].at = a
      BY <1>1, <1>2
    <3>2. caller'[x] = [at |-> a, client |-> c]
      <4>1. CASE Swap(x)
        BY <1>1, <3>1, <4>1 DEF Swap, Inv, Typed, DownTyped, CallerStates
      <4>2. ASSUME NEW d \in Clients, Enter(x, d)
            PROVE  caller'[x] = [at |-> a, client |-> c]
        BY <1>1, <3>1, <4>2 DEF Enter, Inv, Typed, DownTyped
      <4> QED BY <4>1, <4>2 DEF Shutdown
    <3> QED BY <3>1, <3>2 DEF CallerStates
  <2>2. down' \in [Clients -> Stages]
    BY <1>1 DEF Inv, Typed, DownTyped, Stages
  <2> QED BY <1>1, <2>1, <2>2 DEF Inv, Typed, DownTyped
<1>4. \A d \in Clients : down'[d] = down[d] \/ (down[d] = "idle" /\ d = c /\ down'[d] = "stop")
  BY <1>1 DEF Inv, Typed, DownTyped
<1>5. EveryDown'
  <2>1. ASSUME NEW d \in Clients
        PROVE  OfDown(d)'
    <3>1. OfDown(d)
      BY DEF Inv, EveryDown
    <3> QED BY <1>1, <1>4, <3>1 DEF OfDown, AfterProc, Detached, Released, setupVars, provVars, procVars
  <2> QED BY <2>1 DEF EveryDown
<1>6. EveryCaller'
  <2>1. OfCaller(x)'
    BY <1>1, <1>2, <1>4 DEF OfCaller, setupVars
  <2>2. ASSUME NEW y \in Callers \ {x}
        PROVE  OfCaller(y)'
    BY <1>1, <1>4 DEF Inv, EveryCaller, OfCaller, setupVars
  <2> QED BY <2>1, <2>2 DEF EveryCaller
<1> QED BY <1>1, <1>3, <1>5, <1>6, DownOnly DEF Inv, Typed, SetupTyped

\* A stage of client c's teardown that leaves its calls and its result alone.
LEMMA StageOnly ==
  ASSUME Inv, NEW c \in Clients, NEW from \in Stages \ {"idle", "closed"}, NEW to \in Stages,
         Stage(c, from, to), failed' \subseteq Clients, failed \subseteq failed',
         UNCHANGED <<result, caller>>
  PROVE  /\ DownTyped' /\ EveryDown
         /\ down[c] = from /\ down'[c] = to /\ phase[c] = "open"
         /\ \A d \in Clients \ {c} : down'[d] = down[d]
         /\ phase' = phase => EveryCaller'
<1>1. /\ down[c] = from /\ down'[c] = to /\ DownTyped'
      /\ \A d \in Clients \ {c} : down'[d] = down[d]
  BY DEF Stage, Inv, Typed, DownTyped
<1>2. phase[c] = "open" /\ EveryDown
  BY <1>1 DEF Inv, EveryDown, OfDown
<1>3. ASSUME phase' = phase, NEW x \in Callers
      PROVE  OfCaller(x)'
  BY <1>1, <1>3 DEF Inv, EveryCaller, OfCaller
<1> QED BY <1>1, <1>2, <1>3 DEF EveryCaller

LEMMA EarlyStagesKeep ==
  ASSUME Inv, NEW c \in Clients, PublishStopped(c) \/ TeardownFlush(c) \/ ProcReturn(c)
  PROVE  Inv'
<1> USE DEF PublishStopped, TeardownFlush, ProcReturn, Joins
<1>1. UNCHANGED <<setupVars, provVars, procVars, result, caller, span>>
  OBVIOUS
<1>2. stopped' \subseteq Clients /\ failed' \subseteq Clients /\ failed \subseteq failed'
  BY DEF Inv, Typed, SetupTyped, DownTyped
<1>3. PICK from \in {"stop", "flush", "procRun", "procWait"}, to \in {"flush", "proc", "detach"} :
        /\ Stage(c, from, to) /\ (to = "detach" => from \in {"procRun", "procWait"})
        /\ to = "detach" /\ c \notin failed' => proc[c] = "done"
  OBVIOUS
<1>4. /\ DownTyped' /\ EveryDown
      /\ down[c] = from /\ down'[c] = to /\ phase[c] = "open"
      /\ \A d \in Clients \ {c} : down'[d] = down[d]
      /\ phase' = phase => EveryCaller'
  BY <1>1, <1>2, <1>3, StageOnly DEF Stages
<1>5. EveryDown'
  <2>1. OfDown(c)'
    BY <1>1, <1>3, <1>4 DEF EveryDown, OfDown, AfterProc, Detached, Released, setupVars, provVars, procVars
  <2>2. ASSUME NEW d \in Clients \ {c}
        PROVE  OfDown(d)'
    <3>1. OfDown(d)
      BY <1>4 DEF EveryDown
    <3> QED BY <1>1, <1>2, <1>4, <3>1 DEF OfDown, setupVars, provVars, procVars
  <2> QED BY <2>1, <2>2 DEF EveryDown
<1> QED BY <1>1, <1>2, <1>4, <1>5, DownOnly DEF setupVars

LEMMA TeardownProcKeeps == ASSUME Inv, NEW c \in Clients, TeardownProc(c) PROVE Inv'
<1> USE DEF TeardownProc
<1>1. UNCHANGED <<setupVars, provVars, procStopped, expected, stopped, failed, result, caller, span>>
  OBVIOUS
<1>2. PICK to \in {"procRun", "procWait"} : Stage(c, "proc", to)
  OBVIOUS
<1>3. /\ DownTyped' /\ EveryDown
      /\ down[c] = "proc" /\ down'[c] = to /\ phase[c] = "open"
      /\ \A d \in Clients \ {c} : down'[d] = down[d]
      /\ EveryCaller'
  <2>1. failed' \subseteq Clients
    BY <1>1 DEF Inv, Typed, DownTyped
  <2> QED BY <1>1, <1>2, <2>1, StageOnly DEF Stages, setupVars
<1>4. \A d \in Clients : /\ proc'[d] = "idle" => proc[d] = "idle" /\ d # c
                         /\ proc'[d] # proc[d] => proc[d] = "idle" /\ proc'[d] = "stop"
  BY DEF ProcCall, Inv, Typed, ProcTyped
<1>5. ProcTyped'
  BY <1>1 DEF ProcCall, Inv, Typed, ProcTyped
<1> USE DEF setupVars, provVars
<1>6. Typed'
  BY <1>1, <1>3, <1>5 DEF Inv, Typed, SetupTyped, SpansTyped
<1>7. EverySpan' /\ EveryExpected'
  BY <1>1, <1>4, SpansStay
<1>8. OneAttachment' /\ EverySetup' /\ EveryProc' /\ OfApp'
  BY <1>1, <1>4 DEF Inv, OneAttachment, EverySetup, OfSetup, EveryProc, OfProc, OfApp, Borrowed
<1>9. EveryDown'
  <2>1. OfDown(c)'
    BY <1>1, <1>3, <1>4 DEF EveryDown, OfDown, AfterProc, Detached, Released
  <2>2. ASSUME NEW d \in Clients \ {c}
        PROVE  OfDown(d)'
    <3>1. OfDown(d)
      BY <1>3 DEF EveryDown
    <3> QED BY <1>1, <1>3, <1>4, <3>1 DEF OfDown
  <2> QED BY <2>1, <2>2 DEF EveryDown
<1> QED BY <1>3, <1>6, <1>7, <1>8, <1>9 DEF Inv

LEMMA DetachKeeps == ASSUME Inv, NEW c \in Clients, Detach(c) \/ releaseReservation(c) PROVE Inv'
<1> USE DEF Detach, releaseReservation
<1>1. /\ UNCHANGED <<phase, provVars, procVars, stopped, result, caller, span>>
      /\ failed' \subseteq Clients /\ failed \subseteq failed'
  BY DEF Inv, Typed, DownTyped
<1>2. PICK from \in {"detach", "release"}, to \in {"release", "drain"} :
        /\ Stage(c, from, to)
        /\ to = "release" => from = "detach" /\ owner' = owner
                             /\ (c \in attached' /\ c \in Borrowed => provShut)
        /\ to = "drain" => from = "release" /\ owner' # c /\ attached' = attached
                           /\ owner' = (IF owner = c THEN NoClient ELSE owner)
  BY SetsAssumption DEF Borrowed
<1>3. /\ DownTyped' /\ EveryDown
      /\ down[c] = from /\ down'[c] = to /\ phase[c] = "open"
      /\ \A d \in Clients \ {c} : down'[d] = down[d]
      /\ EveryCaller'
  BY <1>1, <1>2, StageOnly DEF Stages
<1>4. proc[c] # "idle"
  BY <1>2, <1>3 DEF EveryDown, OfDown, AfterProc, Detached
<1>5. attached' \in {attached, attached \ {c}}
  OBVIOUS
<1> USE DEF provVars, procVars
<1>6. Typed'
  BY <1>1, <1>3, <1>5 DEF Inv, Typed, SetupTyped, ProcTyped, SpansTyped
<1>7. EverySpan' /\ EveryExpected'
  BY <1>1, <1>4, <1>5, SpansStay
<1>8. OneAttachment'
  <2>1. ASSUME NEW d \in attached' \cap Borrowed
        PROVE  provShut \/ owner' = d
    <3>1. provShut \/ owner = d
      BY <1>5 DEF Inv, OneAttachment
    <3>2. CASE d = c /\ to = "drain"
      BY <1>2, <1>3, <3>2 DEF EveryDown, OfDown, Detached
    <3>3. CASE d = c /\ to = "release"
      BY <1>2, <3>3
    <3>4. CASE d # c
      BY <1>2, <3>1, <3>4
    <3> QED BY <1>2, <3>2, <3>3, <3>4
  <2> QED BY <1>1, <1>5, <2>1 DEF Inv, OneAttachment
<1>9. EverySetup'
  BY <1>1, <1>2, <1>3, <1>5 DEF Inv, EverySetup, OfSetup
<1>10. EveryProc' /\ OfApp'
  BY <1>1, <1>5 DEF Inv, EveryProc, OfProc, OfApp
<1>11. EveryDown'
  <2>1. OfDown(c)'
    BY <1>1, <1>2, <1>3, <1>4 DEF EveryDown, OfDown, AfterProc, Detached, Released
  <2>2. ASSUME NEW d \in Clients \ {c}
        PROVE  OfDown(d)'
    <3>1. OfDown(d)
      BY <1>3 DEF EveryDown
    <3>2. owner' = d => owner = d
      BY <1>2, SetsAssumption
    <3> QED BY <1>1, <1>3, <1>5, <3>1, <3>2 DEF OfDown
  <2> QED BY <2>1, <2>2 DEF EveryDown
<1> QED BY <1>3, <1>6, <1>7, <1>8, <1>9, <1>10, <1>11 DEF Inv

LEMMA DrainKeeps == ASSUME Inv, NEW c \in Clients, Drain(c) PROVE Inv'
<1> USE DEF Drain
<1>1. PICK err \in BOOLEAN :
        /\ failed' = IF err THEN failed \cup {c} ELSE failed
        /\ result' = [result EXCEPT ![c] = IF err \/ c \in failed THEN "error" ELSE "ok"]
  OBVIOUS
<1>2. UNCHANGED <<setupVars, provVars, procVars, stopped, caller, span>>
  OBVIOUS
<1>3. /\ down[c] = "drain" /\ down'[c] = "publish"
      /\ \A d \in Clients \ {c} : down'[d] = down[d] /\ result'[d] = result[d]
      /\ result'[c] = "ok" => c \notin failed
  BY <1>1 DEF Stage, Inv, Typed, DownTyped
<1>4. DownTyped'
  BY <1>1, <1>2 DEF Stage, Inv, Typed, DownTyped, Stages
<1>5. EveryDown'
  <2>1. OfDown(c)'
    BY <1>2, <1>3 DEF Inv, EveryDown, OfDown, AfterProc, Detached, Released, setupVars, provVars, procVars
  <2>2. ASSUME NEW d \in Clients \ {c}
        PROVE  OfDown(d)'
    <3>1. OfDown(d) /\ (d \notin failed' => d \notin failed)
      BY <1>1 DEF Inv, EveryDown
    <3> QED BY <1>2, <1>3, <3>1 DEF OfDown, setupVars, provVars, procVars
  <2> QED BY <2>1, <2>2 DEF EveryDown
<1>6. EveryCaller'
  BY <1>2, <1>3 DEF Inv, EveryCaller, OfCaller, setupVars
<1> QED BY <1>2, <1>4, <1>5, <1>6, DownOnly DEF Inv, Typed, SetupTyped

LEMMA CloseKeeps == ASSUME Inv, NEW c \in Clients, CloseDone(c) PROVE Inv'
<1> USE DEF CloseDone
<1>1. UNCHANGED <<setupVars, provVars, procVars, stopped, failed, result, span>>
  OBVIOUS
<1>2. /\ down[c] = "publish" /\ down'[c] = "closed"
      /\ \A d \in Clients \ {c} : down'[d] = down[d]
  BY DEF Stage, Inv, Typed, DownTyped
<1>3. ASSUME NEW x \in Callers
      PROVE  /\ caller'[x] \in CallerStates /\ caller'[x].client = caller[x].client
             /\ \/ caller'[x] = caller[x]
                \/ caller[x].client = c /\ caller'[x].at = result[c]
  <2>1. CASE caller[x].at = "owns" /\ caller[x].client = c
    BY <2>1 DEF Inv, Typed, DownTyped, CallerStates
  <2>2. CASE ~(caller[x].at = "owns" /\ caller[x].client = c)
    BY <2>2 DEF Inv, Typed, DownTyped
  <2> QED BY <2>1, <2>2
<1>4. DownTyped'
  BY <1>1, <1>3 DEF Stage, Inv, Typed, DownTyped, Stages
<1>5. EveryDown'
  BY <1>1, <1>2 DEF Inv, EveryDown, OfDown, AfterProc, Detached, Released, setupVars, provVars, procVars
<1>6. EveryCaller'
  <2>1. ASSUME NEW x \in Callers
        PROVE  OfCaller(x)'
    <3>1. OfCaller(x)
      BY DEF Inv, EveryCaller
    <3>2. result[c] # "swap"
      BY DEF Inv, Typed, DownTyped
    <3> QED BY <1>1, <1>2, <1>3, <3>1, <3>2 DEF OfCaller, setupVars
  <2> QED BY <2>1 DEF EveryCaller
<1> QED BY <1>1, <1>4, <1>5, <1>6, DownOnly DEF Inv, Typed, SetupTyped

-----------------------------------------------------------------------------
(* Steps of one span.                                                      *)

\* A step that gives span s the record r, and may add s to what one processor
\* expects or take it away.
LEMMA SpanKeeps ==
  ASSUME Inv, NEW s \in Spans, NEW r \in SpanStates, Set(s, r), Sound(s, r), ProcTyped',
         UNCHANGED <<setupVars, provVars, procStopped, proc, procBy, downVars, caller>>,
         \A c \in Clients : s \in expected'[c] => Active(c, r),
         \A c \in Clients : /\ expected'[c] \ {s} \subseteq expected[c]
                            /\ proc[c] \in {"next", "done"} => expected'[c] = {}
                            /\ IsFiniteSet(expected'[c]) /\ Cardinality(expected'[c]) <= MaxExpected
  PROVE  Inv'
<1> USE DEF setupVars, provVars, downVars
<1>1. span'[s] = r /\ \A t \in Spans \ {s} : span'[t] = span[t]
  BY DEF Set, Inv, Typed, SpansTyped
<1>2. Typed'
  BY <1>1 DEF Set, Inv, Typed, SetupTyped, DownTyped, SpansTyped
<1>3. EverySpan'
  <2>1. ASSUME NEW t \in Spans
        PROVE  Sound(t, span[t])'
    <3>1. CASE t = s
      BY <1>1, <3>1 DEF Sound
    <3>2. CASE t # s
      <4>1. Sound(t, span[t]) /\ span'[t] = span[t]
        BY <1>1, <3>2 DEF Inv, EverySpan
      <4> QED BY <4>1 DEF Sound
    <3> QED BY <3>1, <3>2
  <2> QED BY <2>1 DEF EverySpan
<1>4. EveryExpected'
  <2>1. ASSUME NEW c \in Clients, NEW t \in Spans, t \in expected'[c]
        PROVE  Active(c, span[t])'
    <3>1. CASE t = s
      BY <1>1, <2>1, <3>1 DEF Active
    <3>2. CASE t # s
      <4>1. Active(c, span[t]) /\ span'[t] = span[t]
        BY <1>1, <2>1, <3>2 DEF Inv, EveryExpected, OfExpected
      <4> QED BY <4>1 DEF Active
    <3> QED BY <3>1, <3>2
  <2>2. \A c \in Clients : expected'[c] \subseteq Spans
    BY DEF ProcTyped
  <2> QED BY <2>1, <2>2 DEF EveryExpected, OfExpected
<1>5. OneAttachment' /\ EverySetup' /\ EveryDown' /\ EveryCaller' /\ OfApp'
  BY DEF Inv, OneAttachment, EverySetup, OfSetup, EveryDown, OfDown, EveryCaller, OfCaller, OfApp
<1>6. EveryProc'
  BY DEF Inv, EveryProc, OfProc
<1> QED BY <1>2, <1>3, <1>4, <1>5, <1>6 DEF Inv

LEMMA SpanOnly ==
  ASSUME Inv, NEW s \in Spans, NEW r \in SpanStates, Set(s, r), Sound(s, r), SpanStep,
         \A c \in Clients : s \in expected[c] => Active(c, r)
  PROVE  Inv'
<1>1. \A c \in Clients : /\ expected[c] \ {s} \subseteq expected[c]
                         /\ proc[c] \in {"next", "done"} => expected[c] = {}
                         /\ IsFiniteSet(expected[c]) /\ Cardinality(expected[c]) <= MaxExpected
  BY DEF Inv, EveryProc, OfProc, EveryExpected, OfExpected
<1>2. ProcTyped' /\ expected' = expected
  BY DEF SpanStep, procVars, Inv, Typed, ProcTyped
<1>3. UNCHANGED <<setupVars, provVars, procStopped, proc, procBy, downVars, caller>>
  BY DEF SpanStep, procVars
<1> QED BY <1>1, <1>2, <1>3, SpanKeeps

\* A span keeps the processor that observed it and its end: so do the sets it is in.
LEMMA SameObserver ==
  ASSUME Inv, NEW s \in Spans, NEW r \in SpanStates, Set(s, r), Sound(s, r), SpanStep,
         r.by = span[s].by, r.end = span[s].end, r.endBy = span[s].endBy
  PROVE  Inv'
<1>1. \A c \in Clients : s \in expected[c] => Active(c, r)
  BY DEF Inv, EveryExpected, OfExpected, Active
<1> QED BY <1>1, SpanOnly

LEMMA SpanFacts ==
  ASSUME Inv, NEW s \in Spans
  PROVE  /\ span[s] \in SpanStates /\ Sound(s, span[s])
         /\ \A c \in Clients : s \in expected[c] => Active(c, span[s])
BY DEF Inv, Typed, SpansTyped, EverySpan, EveryExpected, OfExpected

LEMMA BeginsKeep == ASSUME Inv, NEW s \in Spans, StartBegin(s) PROVE Inv'
<1> USE DEF StartBegin
<1>1. PICK c \in Clients \cup {NoClient}, p \in Shared \cup {NoSpan}, rec \in BOOLEAN, wants \in BOOLEAN :
        Set(s, [IdleSpan EXCEPT
            !.at = IF rec THEN "start" ELSE "return", !.client = c, !.parent = p,
            !.rec = rec, !.wants = wants,
            !.ctx = IF p = NoSpan THEN {} ELSE span[p].claim])
  BY ZenonT(30)
<1>2. PICK claimed \in SUBSET Clients : claimed = IF p = NoSpan THEN {} ELSE span[p].claim
  BY DEF Shared, Inv, Typed, SpansTyped, SpanStates
<1>3. PICK r : r = [IdleSpan EXCEPT
            !.at = IF rec THEN "start" ELSE "return", !.client = c, !.parent = p,
            !.rec = rec, !.wants = wants, !.ctx = claimed]
  OBVIOUS
<1>4. /\ r \in SpanStates /\ r.at \in {"start", "return"} /\ r.by = NoClient /\ r.end = "no"
      /\ r.admitted = FALSE /\ r.expected = FALSE /\ r.endBy = NoClient
  <2>1. p \in Spans \cup {NoSpan}
    BY DEF Shared
  <2> QED BY <1>3, <2>1, ZenonT(30) DEF IdleSpan, SpanStates
<1>5. Sound(s, r)
  BY <1>4, SetsAssumption DEF Sound, Observed, Starting, Items
<1>6. span[s].at = "idle" /\ \A d \in Clients : s \notin expected[d]
  BY SpanFacts, SetsAssumption DEF Sound, Active
<1> QED BY <1>1, <1>2, <1>3, <1>4, <1>5, <1>6, SpanOnly

LEMMA StartChecksKeep ==
  ASSUME Inv, NEW s \in Spans, OnStartCheck(s) \/ admitObservation(s) \/ OnStartMark(s)
  PROVE  Inv'
<1> USE DEF OnStartCheck, admitObservation, OnStartMark
<1>1. span[s] \in SpanStates /\ Sound(s, span[s]) /\ SpanStep
  BY SpanFacts
<1>2. CASE OnStartCheck(s)
  <2>1. PICK r : r = [span[s] EXCEPT !.at = IF span[s].by \in procStopped THEN "return" ELSE "admit"]
    OBVIOUS
  <2>2. /\ r \in SpanStates /\ r.at \in {"return", "admit"} /\ r.by = span[s].by /\ r.end = span[s].end
        /\ r.endBy = span[s].endBy /\ r.client = span[s].client /\ r.admitted = span[s].admitted
        /\ r.expected = span[s].expected
    BY <1>1, <2>1 DEF SpanStates
  <2>3. Sound(s, r)
    BY <1>1, <1>2, <2>2 DEF Sound, Observed, Starting, Items
  <2> QED BY <1>1, <1>2, <2>1, <2>2, <2>3, SameObserver
<1>3. CASE admitObservation(s)
  <2>1. PICK accept \in BOOLEAN : accept = (s \in Sdk /\ span[s].client \notin stopped)
    OBVIOUS
  <2>2. PICK expects \in BOOLEAN : expects = (accept /\ span[s].wants)
    OBVIOUS
  <2>3. PICK r : r = [span[s] EXCEPT !.at = "record", !.admitted = accept, !.expected = expects]
    OBVIOUS
  <2>4. /\ r \in SpanStates /\ r.at = "record" /\ r.by = span[s].by /\ r.end = span[s].end
        /\ r.endBy = span[s].endBy /\ r.client = span[s].client /\ r.expected = expects
    BY <1>1, <2>3 DEF SpanStates
  <2>5. Sound(s, r)
    BY <1>1, <1>3, <2>1, <2>2, <2>4 DEF Sound, Observed, Starting, Items
  <2>6. Set(s, r)
    BY <1>3, <2>1, <2>2, <2>3
  <2> QED BY <1>1, <2>4, <2>5, <2>6, SameObserver
<1>4. CASE OnStartMark(s)
  <2>1. PICK root \in BOOLEAN :
          root = (span[s].wants /\ ~span[s].parentExpected /\ span[s].by \notin span[s].ctx)
    OBVIOUS
  <2>2. PICK r : r = [span[s] EXCEPT !.at = "return", !.root = root]
    OBVIOUS
  <2>3. /\ r \in SpanStates /\ r.at = "return" /\ r.by = span[s].by /\ r.end = span[s].end
        /\ r.endBy = span[s].endBy /\ r.client = span[s].client /\ r.admitted = span[s].admitted
        /\ r.expected = span[s].expected
    BY <1>1, <2>2 DEF SpanStates
  <2>4. Sound(s, r)
    BY <1>1, <1>4, <2>3 DEF Sound, Observed, Starting, Items
  <2>5. Set(s, r)
    BY <1>4, <2>1, <2>2
  <2> QED BY <1>1, <2>3, <2>4, <2>5, SameObserver
<1> QED BY <1>2, <1>3, <1>4

LEMMA OnStartKeeps == ASSUME Inv, NEW s \in Spans, OnStart(s) PROVE Inv'
<1> USE DEF OnStart
<1>1. span[s] \in SpanStates /\ Sound(s, span[s]) /\ SpanStep /\ span[s].at = "start"
  BY SpanFacts
<1>2. span[s].by = NoClient /\ span[s].end = "no" /\ span[s].expected = FALSE
  BY <1>1, SetsAssumption DEF Sound, Starting, SpanStates
<1>2a. \A c \in Clients : s \notin expected[c]
  BY <1>2, SpanFacts, SetsAssumption, ZenonT(30) DEF Active
<1>3. CASE Set(s, [span[s] EXCEPT !.at = "return"])
  <2>1. PICK r : r = [span[s] EXCEPT !.at = "return"]
    OBVIOUS
  <2>2. /\ r \in SpanStates /\ r.at = "return" /\ r.by = span[s].by /\ r.end = span[s].end
        /\ r.endBy = span[s].endBy /\ r.client = span[s].client /\ r.admitted = span[s].admitted
        /\ r.expected = span[s].expected
    BY <1>1, <2>1 DEF SpanStates
  <2>3. Sound(s, r)
    BY <1>1, <2>2 DEF Sound, Observed, Starting, Items
  <2> QED BY <1>1, <1>3, <2>1, <2>2, <2>3, SameObserver
<1>4. ASSUME NEW p \in attached \cap Peers(span[s].client),
             ~(s \in Sdk /\ p # span[s].client), Set(s, [span[s] EXCEPT !.at = "fill", !.by = p])
      PROVE  Inv'
  <2>1. p \in Clients
    BY DEF Inv, Typed, SetupTyped
  <2>2. PICK r : r = [span[s] EXCEPT !.at = "fill", !.by = p]
    OBVIOUS
  <2>3. /\ r \in SpanStates /\ r.at = "fill" /\ r.by = p /\ r.end = span[s].end
        /\ r.client = span[s].client /\ r.expected = span[s].expected
    BY <1>1, <2>1, <2>2 DEF SpanStates
  <2>4. Sound(s, r)
    BY <1>2, <1>4, <2>1, <2>3 DEF Sound, Observed, Starting, Items
  <2> QED BY <1>1, <1>2a, <1>4, <2>2, <2>3, <2>4, SpanOnly
<1> QED BY <1>3, <1>4

LEMMA ReturnKeeps == ASSUME Inv, NEW s \in Spans, StartReturn(s) PROVE Inv'
<1> USE DEF StartReturn
<1>1. span[s] \in SpanStates /\ Sound(s, span[s]) /\ SpanStep /\ span[s].at = "return"
  BY SpanFacts
<1>2. PICK at \in {"refuse", "refused", "unrecorded", "item", "live"} :
        /\ at = "item" => s \in Sdk /\ span[s].admitted
        /\ Set(s, [span[s] EXCEPT !.wants = FALSE, !.ctx = {}, !.parentExpected = FALSE,
                                  !.admitted = FALSE, !.expected = FALSE, !.at = at, !.claim = Claims(s)])
  BY SetsAssumption
<1>3. PICK claim \in SUBSET Clients : claim = Claims(s)
  BY <1>1 DEF Claims, SpanStates, Sound
<1>4. PICK r : r = [span[s] EXCEPT !.wants = FALSE, !.ctx = {}, !.parentExpected = FALSE,
                                   !.admitted = FALSE, !.expected = FALSE, !.at = at, !.claim = claim]
  OBVIOUS
<1>5. /\ r \in SpanStates /\ r.at = at /\ r.by = span[s].by /\ r.end = span[s].end
      /\ r.endBy = span[s].endBy /\ r.client = span[s].client
      /\ r.admitted = FALSE /\ r.expected = FALSE
  BY <1>1, <1>4 DEF SpanStates
<1>6. Sound(s, r)
  BY <1>1, <1>2, <1>5 DEF Sound, Observed, Starting, Items
<1> QED BY <1>1, <1>2, <1>3, <1>4, <1>5, <1>6, SameObserver

-----------------------------------------------------------------------------
(* What a processor expects, and the ends of spans.                        *)

\* A span that begins to end is ended by the processor that expects it, if any does.
LEMMA EndBeginsKeep ==
  ASSUME Inv, NEW s \in Spans, NEW r \in SpanStates, EndBegins(s, r), SpanStep, r.at \notin Starting,
         r.by = span[s].by, r.client = span[s].client, r.admitted = span[s].admitted,
         r.expected = span[s].expected, r.at \in Observed => r.at = span[s].at, span[s].end = "no"
  PROVE  Inv'
<1>1. Sound(s, span[s]) /\ \A c \in Clients : s \in expected[c] => Active(c, span[s])
  BY SpanFacts
<1>2. ASSUME NEW c \in Clients, s \in expected[c], proc[c] = "idle"
      PROVE  c \in attached \cap Peers(r.client) /\ \A p \in attached \cap Peers(r.client) : p = c
  <2>1. c \in attached \cap Peers(r.client)
    BY <1>1, <1>2 DEF Active, Sound
  <2> QED BY <2>1, SetsAssumption DEF Peers, Borrowed, Inv, OneAttachment
<1>3. CASE attached \cap Peers(r.client) = {} /\ Set(s, [r EXCEPT !.end = "done"])
  <2>1. PICK q : q = [r EXCEPT !.end = "done"]
    OBVIOUS
  <2>2. /\ q \in SpanStates /\ q.end = "done" /\ q.at = r.at /\ q.by = r.by
        /\ q.client = r.client /\ q.admitted = r.admitted /\ q.expected = r.expected
    BY <2>1 DEF SpanStates
  <2>3. Sound(s, q)
    BY <1>1, <2>2 DEF Sound, Observed, Items, Starting
  <2>4. \A c \in Clients : s \in expected[c] => Active(c, q)
    BY <1>1, <1>2, <1>3, <2>2 DEF Active
  <2> QED BY <1>3, <2>1, <2>2, <2>3, <2>4, SpanOnly
<1>4. ASSUME NEW p \in attached \cap Peers(r.client), Set(s, [r EXCEPT !.end = "ending", !.endBy = p])
      PROVE  Inv'
  <2>1. p \in Clients
    BY DEF Inv, Typed, SetupTyped
  <2>2. PICK q : q = [r EXCEPT !.end = "ending", !.endBy = p]
    OBVIOUS
  <2>3. /\ q \in SpanStates /\ q.end = "ending" /\ q.endBy = p /\ q.at = r.at /\ q.by = r.by
        /\ q.client = r.client /\ q.admitted = r.admitted /\ q.expected = r.expected
    BY <2>1, <2>2 DEF SpanStates
  <2>4. Sound(s, q)
    BY <1>1, <2>1, <2>3 DEF Sound, Observed, Items, Starting
  <2>5. \A c \in Clients : s \in expected[c] => Active(c, q)
    BY <1>1, <1>2, <2>3 DEF Active
  <2> QED BY <1>4, <2>2, <2>3, <2>4, <2>5, SpanOnly
<1> QED BY <1>3, <1>4 DEF EndBegins

LEMMA EndsKeep == ASSUME Inv, NEW s \in Spans, End(s) \/ RefuseStart(s) PROVE Inv'
<1> USE DEF End, RefuseStart
<1>1. span[s] \in SpanStates /\ Sound(s, span[s]) /\ SpanStep
  BY SpanFacts
<1>2. CASE End(s)
  BY <1>1, <1>2, EndBeginsKeep DEF Starting
<1>3. CASE RefuseStart(s)
  <2>1. PICK r : r = [span[s] EXCEPT !.at = "refused"]
    OBVIOUS
  <2>2. /\ r \in SpanStates /\ r.at = "refused" /\ r.by = span[s].by
        /\ r.client = span[s].client /\ r.admitted = span[s].admitted
        /\ r.expected = span[s].expected
    BY <1>1, <2>1 DEF SpanStates
  <2>3. span[s].end = "no"
    BY <1>1, <1>3 DEF Sound, Observed, Items, Starting
  <2> QED BY <1>1, <1>3, <2>1, <2>2, <2>3, EndBeginsKeep DEF Starting, Observed
<1> QED BY <1>2, <1>3

LEMMA ItemsKeep == ASSUME Inv, NEW s \in Spans, Exports(s) \/ acceptItemRoot(s) PROVE Inv'
<1> USE DEF Exports, acceptItemRoot
<1>1. span[s] \in SpanStates /\ Sound(s, span[s]) /\ SpanStep
  BY SpanFacts
<1>2. ASSUME NEW at \in {"accept", "refused", "live"}, NEW root \in BOOLEAN, NEW claim \in SUBSET Clients,
             at = "accept" => span[s].at = "item",
             Set(s, [span[s] EXCEPT !.at = at, !.root = root, !.claim = claim])
      PROVE  Inv'
  <2>1. PICK r : r = [span[s] EXCEPT !.at = at, !.root = root, !.claim = claim]
    OBVIOUS
  <2>2. /\ r \in SpanStates /\ r.at = at /\ r.by = span[s].by /\ r.end = span[s].end
        /\ r.endBy = span[s].endBy /\ r.client = span[s].client /\ r.admitted = span[s].admitted
        /\ r.expected = span[s].expected
    BY <1>1, <2>1 DEF SpanStates
  <2>3. Sound(s, r)
    BY <1>1, <1>2, <2>2 DEF Sound, Observed, Starting, Items
  <2> QED BY <1>1, <1>2, <2>1, <2>2, <2>3, SameObserver
<1>3. ASSUME NEW at \in {"accept", "refused"}, span[s].at = "item", Set(s, [span[s] EXCEPT !.at = at])
      PROVE  Inv'
  <2>1. PICK root \in BOOLEAN, claim \in SUBSET Clients : root = span[s].root /\ claim = span[s].claim
    BY <1>1 DEF SpanStates
  <2>2. [span[s] EXCEPT !.at = at] = [span[s] EXCEPT !.at = at, !.root = root, !.claim = claim]
    BY <1>1, <2>1 DEF SpanStates
  <2> QED BY <1>2, <1>3, <2>2
<1>4. CASE span[s].at = "item" /\ span[s].end = "no" /\ EndBegins(s, [span[s] EXCEPT !.at = "refused"])
  <2>1. PICK r : r = [span[s] EXCEPT !.at = "refused"]
    OBVIOUS
  <2>2. /\ r \in SpanStates /\ r.at = "refused" /\ r.by = span[s].by
        /\ r.client = span[s].client /\ r.admitted = span[s].admitted
        /\ r.expected = span[s].expected
    BY <1>1, <2>1 DEF SpanStates
  <2> QED BY <1>1, <1>4, <2>1, <2>2, EndBeginsKeep DEF Starting, Observed
<1>5. CASE acceptItemRoot(s)
  <2>1. PICK root \in BOOLEAN : root = (span[s].root \/ span[s].end = "no")
    OBVIOUS
  <2>2. PICK claim \in SUBSET Clients : claim = span[s].claim \cup {span[s].client}
    <3>1. span[s].client \in Clients
      BY <1>1, <1>5 DEF Sound, Items
    <3> QED BY <1>1, <3>1 DEF SpanStates
  <2> QED BY <1>2, <1>5, <2>1, <2>2
<1> QED BY <1>3, <1>4, <1>5

\* Adding one element, or taking one away, keeps a bounded set bounded.
LEMMA GrowsByOne ==
  ASSUME NEW S, NEW t, IsFiniteSet(S), Cardinality(S) < MaxExpected
  PROVE  IsFiniteSet(S \cup {t}) /\ Cardinality(S \cup {t}) <= MaxExpected
<1>1. /\ Cardinality(S) \in Nat /\ IsFiniteSet(S \cup {t})
      /\ Cardinality(S \cup {t}) \in {Cardinality(S), Cardinality(S) + 1}
  BY FS_AddElement, FS_CardinalityType
<1> QED BY <1>1, LimitsAssumption

LEMMA ShrinksByOne ==
  ASSUME NEW S, NEW t, IsFiniteSet(S), Cardinality(S) <= MaxExpected
  PROVE  IsFiniteSet(S \ {t}) /\ Cardinality(S \ {t}) <= MaxExpected
<1>1. /\ Cardinality(S) \in Nat /\ IsFiniteSet(S \ {t}) /\ Cardinality(S \ {t}) \in Nat
      /\ Cardinality(S \ {t}) <= Cardinality(S)
  BY FS_Subset, FS_CardinalityType
<1> QED BY <1>1, LimitsAssumption

\* A step that may add span s, not ended, to what its processor c expects.
LEMMA AddKeeps ==
  ASSUME Inv, NEW s \in Spans, NEW r \in SpanStates, NEW c \in Clients,
         Set(s, r), Sound(s, r), r.by = c, r.by = span[s].by, r.end = span[s].end, r.endBy = span[s].endBy,
         expected' = expected \/ /\ r.end = "no" /\ RoomToExpect(c) /\ AcceptsExpectations(c)
                                 /\ expected' = [expected EXCEPT ![c] = @ \cup {s}],
         UNCHANGED <<setupVars, provVars, procStopped, proc, procBy, downVars, caller>>
  PROVE  Inv'
<1>1. CASE expected' = expected
  BY <1>1, SameObserver DEF SpanStep, procVars
<1>2. CASE /\ r.end = "no" /\ RoomToExpect(c) /\ AcceptsExpectations(c)
           /\ expected' = [expected EXCEPT ![c] = @ \cup {s}]
  <2>1. /\ expected'[c] = expected[c] \cup {s}
        /\ \A d \in Clients \ {c} : expected'[d] = expected[d]
    BY <1>2 DEF Inv, Typed, ProcTyped
  <2>2. ProcTyped'
    BY <1>2 DEF Inv, Typed, ProcTyped
  <2>3. proc[c] \notin {"next", "done"}
    BY <1>2 DEF Inv, EveryProc, OfProc, AcceptsExpectations
  <2>4. IsFiniteSet(expected'[c]) /\ Cardinality(expected'[c]) <= MaxExpected
    <3>1. IsFiniteSet(expected[c]) /\ Cardinality(expected[c]) < MaxExpected
      BY <1>2 DEF RoomToExpect, Inv, EveryExpected, OfExpected
    <3>2. IsFiniteSet(expected[c] \cup {s}) /\ Cardinality(expected[c] \cup {s}) <= MaxExpected
      BY <3>1, GrowsByOne
    <3> QED BY <2>1, <3>2
  <2>5. ASSUME NEW d \in Clients
        PROVE  /\ s \in expected'[d] => Active(d, r)
               /\ expected'[d] \ {s} \subseteq expected[d]
               /\ proc[d] \in {"next", "done"} => expected'[d] = {}
               /\ IsFiniteSet(expected'[d]) /\ Cardinality(expected'[d]) <= MaxExpected
    <3>1. CASE d = c
      BY <1>2, <2>1, <2>3, <2>4, <3>1 DEF Active
    <3>2. CASE d # c
      BY <2>1, <3>2 DEF Active, Inv, EveryProc, OfProc, EveryExpected, OfExpected
    <3> QED BY <3>1, <3>2
  <2> QED BY <2>2, <2>5, SpanKeeps
<1> QED BY <1>1, <1>2

LEMMA MembershipIsBoolean == ASSUME NEW x, NEW S PROVE \E b \in BOOLEAN : b = (x \in S)
<1>1. CASE x \in S
  BY <1>1, TRUE = (x \in S)
<1>2. CASE x \notin S
  BY <1>2, FALSE = (x \in S)
<1> QED BY <1>1, <1>2

LEMMA RecordKeeps == ASSUME Inv, NEW s \in Spans, OnStartRecord(s) PROVE Inv'
<1> USE DEF OnStartRecord
<1>1. span[s] \in SpanStates /\ Sound(s, span[s]) /\ span[s].at = "record"
  BY SpanFacts
<1>2. PICK c \in Clients : c = span[s].by
  BY <1>1 DEF Sound, Observed
<1>3. span[s].end = "no"
  BY <1>1 DEF Sound, Starting
<1>4. CASE AcceptsExpectations(c)
  <2>1. PICK expects \in BOOLEAN : expects = (span[s].parent \in expected[span[s].by])
    BY MembershipIsBoolean
  <2>2. PICK r : r = [span[s] EXCEPT !.at = "mark", !.parentExpected = expects]
    OBVIOUS
  <2>3. /\ r \in SpanStates /\ r.at = "mark" /\ r.by = span[s].by /\ r.end = span[s].end
        /\ r.endBy = span[s].endBy /\ r.client = span[s].client /\ r.admitted = span[s].admitted
        /\ r.expected = span[s].expected
    BY <1>1, <2>2 DEF SpanStates
  <2>4. Sound(s, r)
    BY <1>1, <2>3 DEF Sound, Observed, Items, Starting
  <2>5. Set(s, r)
    BY <1>2, <1>4, <2>1, <2>2
  <2>6. expected' = expected \/ /\ RoomToExpect(c)
                                /\ expected' = [expected EXCEPT ![c] = @ \cup {s}]
    BY <1>2, <1>4
  <2> QED BY <1>2, <1>3, <1>4, <2>3, <2>4, <2>5, <2>6, AddKeeps
<1>5. CASE ~AcceptsExpectations(c)
  <2>1. PICK r : r = [span[s] EXCEPT !.at = "return"]
    OBVIOUS
  <2>2. /\ r \in SpanStates /\ r.at = "return" /\ r.by = span[s].by /\ r.end = span[s].end
        /\ r.endBy = span[s].endBy /\ r.client = span[s].client /\ r.admitted = span[s].admitted
        /\ r.expected = span[s].expected
    BY <1>1, <2>1 DEF SpanStates
  <2>3. Sound(s, r)
    BY <1>1, <2>2 DEF Sound, Observed, Items, Starting
  <2> QED BY <1>2, <1>5, <2>1, <2>2, <2>3, AddKeeps
<1> QED BY <1>4, <1>5

LEMMA ExpectKeeps == ASSUME Inv, NEW s \in Spans, Expect(s) PROVE Inv'
<1> USE DEF Expect
<1>1. span[s] \in SpanStates /\ Sound(s, span[s]) /\ span[s].at = "accept"
  BY SpanFacts
<1>2. PICK c \in Clients : c = span[s].client /\ c = span[s].by
  BY <1>1 DEF Sound, Items
<1>3. PICK r : r = [span[s] EXCEPT !.at = "mark item"]
  OBVIOUS
<1>4. /\ r \in SpanStates /\ r.at = "mark item" /\ r.by = span[s].by /\ r.end = span[s].end
      /\ r.endBy = span[s].endBy /\ r.client = span[s].client /\ r.admitted = span[s].admitted
      /\ r.expected = span[s].expected
  BY <1>1, <1>3 DEF SpanStates
<1>5. Sound(s, r)
  BY <1>1, <1>4 DEF Sound, Observed, Items, Starting
<1>6. expected' = expected \/ /\ r.end = "no" /\ RoomToExpect(c) /\ AcceptsExpectations(c)
                              /\ expected' = [expected EXCEPT ![c] = @ \cup {s}]
  BY <1>2, <1>4
<1> QED BY <1>2, <1>3, <1>4, <1>5, <1>6, AddKeeps

LEMMA OnEndKeeps == ASSUME Inv, NEW s \in Spans, OnEnd(s) PROVE Inv'
<1> USE DEF OnEnd
<1>1. span[s] \in SpanStates /\ Sound(s, span[s]) /\ span[s].end = "ending"
  BY SpanFacts
<1>2. PICK c \in Clients : c = span[s].endBy
  BY <1>1 DEF Sound
<1>3. PICK r : r = [span[s] EXCEPT !.end = "done"]
  OBVIOUS
<1>4. /\ r \in SpanStates /\ r.end = "done" /\ r.at = span[s].at /\ r.by = span[s].by
      /\ r.client = span[s].client /\ r.admitted = span[s].admitted /\ r.expected = span[s].expected
  BY <1>1, <1>3 DEF SpanStates
<1>5. Sound(s, r)
  BY <1>1, <1>4 DEF Sound, Starting
<1>6. /\ expected'[c] = expected[c] \ {s} /\ \A d \in Clients \ {c} : expected'[d] = expected[d]
      /\ ProcTyped'
  BY <1>2 DEF Inv, Typed, ProcTyped
<1>7. ASSUME NEW d \in Clients
      PROVE  /\ s \in expected'[d] => Active(d, r)
             /\ expected'[d] \ {s} \subseteq expected[d]
             /\ proc[d] \in {"next", "done"} => expected'[d] = {}
             /\ IsFiniteSet(expected'[d]) /\ Cardinality(expected'[d]) <= MaxExpected
  <2>1. /\ s \in expected[d] => Active(d, span[s])
        /\ proc[d] \in {"next", "done"} => expected[d] = {}
        /\ IsFiniteSet(expected[d]) /\ Cardinality(expected[d]) <= MaxExpected
    BY DEF Inv, EveryProc, OfProc, EveryExpected, OfExpected
  <2>2. CASE d = c
    <3>1. IsFiniteSet(expected[d] \ {s}) /\ Cardinality(expected[d] \ {s}) <= MaxExpected
      BY <2>1, ShrinksByOne
    <3>2. expected'[d] = expected[d] \ {s}
      BY <1>6, <2>2
    <3> HIDE DEF OnEnd
    <3> QED BY <2>1, <3>1, <3>2
  <2>3. CASE d # c
    BY <1>1, <1>2, <1>4, <1>6, <2>1, <2>3 DEF Active
  <2> QED BY <2>2, <2>3
<1> QED BY <1>3, <1>4, <1>5, <1>6, <1>7, SpanKeeps

-----------------------------------------------------------------------------
LEMMA StepKeeps == Inv /\ [Next]_vars => Inv'
<1> SUFFICES ASSUME Inv, [Next]_vars
             PROVE  Inv'
  OBVIOUS
<1>1. CASE \E c \in Clients : New(c) \/ ProcShutdown(c) \/ Teardown(c)
  BY <1>1, NewKeeps, ProcKeeps, EarlyStagesKeep, TeardownProcKeeps, DetachKeeps, DrainKeeps, CloseKeeps DEF Teardown
<1>2. CASE \E x \in Callers : Shutdown(x)
  BY <1>2, CallersKeep
<1>3. ASSUME NEW s \in Spans, Start(s) \/ End(s) \/ OnEnd(s)
      PROVE  Inv'
  BY <1>3, BeginsKeep, StartChecksKeep, OnStartKeeps, ReturnKeeps, EndsKeep, ItemsKeep,
     RecordKeeps, ExpectKeeps, OnEndKeeps DEF Start
<1>4. CASE AppStep
  BY <1>4, AppKeeps
<1>5. CASE UNCHANGED vars
  <2>1. EverySpan' /\ EveryExpected'
    BY <1>5, SpansStay DEF vars, setupVars, procVars
  <2> QED BY <1>5, <2>1, DownOnly DEF vars, downVars, Inv, Typed, SetupTyped, DownTyped,
             EveryDown, OfDown, EveryCaller, OfCaller, setupVars, procVars, provVars
<1> QED BY <1>1, <1>2, <1>3, <1>4, <1>5 DEF Next

(* The invariant holds of every reachable state.                           *)
THEOREM LifecycleHolds == Spec => []Inv
<1>1. Init => Inv
  BY InitHolds
<1>2. Inv /\ [Next]_vars => Inv'
  BY StepKeeps
<1> QED BY <1>1, <1>2, PTL DEF Spec

(* Two clients never export through the same borrowed provider, however    *)
(* New of one interleaves with the teardown of another and with the        *)
(* application shutting that provider down.                                *)
THEOREM OneAttached == Spec => []OneAttachment
<1>1. Inv => OneAttachment
  BY DEF Inv
<1> QED BY <1>1, LifecycleHolds, PTL

(* What a processor expects is a span that is active or ending in its own  *)
(* OnEnd, until its teardown; and nothing once the teardown cleared it.    *)
THEOREM ExpectedActive == Spec => []ExpectedIsActive
<1>1. Inv => ExpectedIsActive
  <2> SUFFICES ASSUME Inv
               PROVE  ExpectedIsActive
    OBVIOUS
  <2>1. ASSUME NEW c \in Clients
        PROVE  /\ proc[c] = "idle" => \A s \in expected[c] :
                    span[s].end = "no" \/ (span[s].end = "ending" /\ span[s].endBy = c)
               /\ proc[c] \in {"next", "done"} => expected[c] = {}
    <3>1. \A s \in expected[c] : Active(c, span[s])
      BY DEF Inv, EveryExpected, OfExpected
    <3>2. proc[c] \in {"next", "done"} => expected[c] = {}
      BY DEF Inv, EveryProc, OfProc
    <3> QED BY <3>1, <3>2 DEF Active
  <2> QED BY <2>1 DEF ExpectedIsActive
<1> QED BY <1>1, LifecycleHolds, PTL

(* A processor tracks no more than maxActiveExpectations spans, however    *)
(* starts, late item acceptances and ends race.                            *)
THEOREM ExpectationsBounded == Spec => [](\A c \in Clients : Cardinality(expected[c]) <= MaxExpected)
<1>1. Inv => \A c \in Clients : Cardinality(expected[c]) <= MaxExpected
  BY DEF Inv, EveryExpected, OfExpected
<1> QED BY <1>1, LifecycleHolds, PTL

(* Every call that returns a result returns the owner's, after the whole   *)
(* teardown; nil means nothing of the client was left behind.              *)
THEOREM ShutdownIsSound == Spec => []ShutdownSound
<1>1. Inv => ShutdownSound
  <2> SUFFICES ASSUME Inv
               PROVE  ShutdownSound
    OBVIOUS
  <2>1. ASSUME NEW x \in Callers, caller[x].at \in {"ok", "error"}
        PROVE  down[caller[x].client] = "closed" /\ caller[x].at = result[caller[x].client]
    BY <2>1 DEF Inv, EveryCaller, OfCaller
  <2>2. ASSUME NEW c \in Clients, down[c] = "closed"
        PROVE  /\ owner # c /\ (c \in attached /\ c \in Borrowed => provShut)
               /\ result[c] = "ok" => proc[c] = "done" /\ expected[c] = {}
    BY <2>2 DEF Inv, EveryDown, OfDown, Detached, Released, EveryProc, OfProc
  <2> QED BY <2>1, <2>2 DEF ShutdownSound
<1> QED BY <1>1, LifecycleHolds, PTL

-----------------------------------------------------------------------------
(* Along a path of contexts: what a start's context claims is what the     *)
(* start below it was given, and a marked observation claims its client.   *)

Underway == {"start", "fill", "admit", "record", "mark"}
Returned == {"refuse", "refused", "unrecorded", "item", "accept", "mark item", "live"}
Final == {"unrecorded", "live"}
Above(r) == IF r.parent = NoSpan THEN {} ELSE span[r.parent].claim   \* the claims r started from

OnPath(s, r) ==
  /\ r.parent \in Shared \cup {NoSpan} /\ (s \in ItemRoots => r.parent = NoSpan)
  /\ r.at \in Underway \cup {"return"} => r.ctx = Above(r)
  /\ r.at \in Returned => Above(r) \subseteq r.claim
  /\ r.at \in Underway => r.rec
  /\ r.at \in Items => s \in ItemRoots
  /\ r.at \in Underway \cup {"idle"} => ~r.root
  /\ r.at = "return" /\ r.root => r.rec /\ r.wants
  /\ r.wants /\ r.admitted => r.expected
  /\ r.root => r.by \notin Above(r)
  /\ s \in Sdk /\ r.at \in Final /\ r.root => r.client \in r.claim
EveryPath == \A s \in Spans : OnPath(s, span[s])

LEMMA PathStarts == Init => EveryPath
<1>1. /\ IdleSpan.at = "idle" /\ IdleSpan.parent = NoSpan /\ IdleSpan.root = FALSE
      /\ IdleSpan.admitted = FALSE
  BY DEF IdleSpan
<1> QED
  BY <1>1, SetsAssumption DEF Init, EveryPath, OnPath, Above, Underway, Returned, Final, Items

\* Spans that keep their place on the path keep it whole.
LEMMA PathStays == ASSUME EveryPath, UNCHANGED span PROVE EveryPath'
BY DEF EveryPath, OnPath, Above, Shared

LEMMA PathStep ==
  ASSUME Inv, EveryPath, NEW s \in Spans, NEW r \in SpanStates, Set(s, r), OnPath(s, r),
         span[s].at \in Final => r.at = span[s].at /\ r.claim = span[s].claim
  PROVE  EveryPath'
<1>1. span'[s] = r /\ \A t \in Spans \ {s} : span'[t] = span[t]
  BY DEF Set, Inv, Typed, SpansTyped
<1>2. \A p \in Shared : p \in Shared' /\ span'[p].claim = span[p].claim
  BY <1>1 DEF Shared, Final
<1>3. ASSUME NEW t \in Spans
      PROVE  OnPath(t, span[t])'
  <2>1. PICK u : u = span'[t]
    OBVIOUS
  <2>2. OnPath(t, u)
    BY <1>1, <2>1 DEF EveryPath
  <2>3. (IF u.parent = NoSpan THEN {} ELSE span'[u.parent].claim) = Above(u)
    BY <1>2, <2>2, SetsAssumption DEF OnPath, Above, Shared
  <2>4. u.parent \in Shared' \cup {NoSpan}
    BY <1>2, <2>2 DEF OnPath
  <2>5. Above(span[t])' = Above(u)
    BY <2>1, <2>3 DEF Above
  <2> QED BY <2>1, <2>2, <2>4, <2>5 DEF OnPath
<1> QED BY <1>3 DEF EveryPath

\* A step that ends a span, or moves it among the states of an item or a refusal.
LEMMA PathMoves ==
  ASSUME Inv, EveryPath, NEW s \in Spans, NEW r \in SpanStates, Set(s, r),
         r.at = span[s].at \/ (r.at \in {"accept", "mark item", "refused"} /\ span[s].at \in Returned \ Final),
         r.at \in Items => span[s].at \in Items,
         r.parent = span[s].parent, r.ctx = span[s].ctx, r.claim = span[s].claim, r.rec = span[s].rec,
         r.root = span[s].root, r.wants = span[s].wants, r.admitted = span[s].admitted,
         r.expected = span[s].expected, r.by = span[s].by, r.client = span[s].client
  PROVE  EveryPath'
<1>1. OnPath(s, span[s]) /\ Above(r) = Above(span[s])
  BY DEF EveryPath, Above
<1>2. OnPath(s, r)
  BY <1>1 DEF OnPath, Underway, Returned, Final, Items
<1> QED BY <1>2, PathStep DEF Final

LEMMA PathBegins == ASSUME Inv, EveryPath, NEW s \in Spans, StartBegin(s) PROVE EveryPath'
<1> USE DEF StartBegin
<1>1. PICK c \in Clients \cup {NoClient}, p \in Shared \cup {NoSpan}, rec \in BOOLEAN, wants \in BOOLEAN :
        /\ s \in ItemRoots => p = NoSpan
        /\ Set(s, [IdleSpan EXCEPT
            !.at = IF rec THEN "start" ELSE "return", !.client = c, !.parent = p,
            !.rec = rec, !.wants = wants,
            !.ctx = IF p = NoSpan THEN {} ELSE span[p].claim])
  BY ZenonT(30)
<1>2. PICK claimed \in SUBSET Clients : claimed = IF p = NoSpan THEN {} ELSE span[p].claim
  BY DEF Shared, Inv, Typed, SpansTyped, SpanStates
<1>3. PICK r : r = [IdleSpan EXCEPT
            !.at = IF rec THEN "start" ELSE "return", !.client = c, !.parent = p,
            !.rec = rec, !.wants = wants, !.ctx = claimed]
  OBVIOUS
<1>4. /\ r \in SpanStates /\ r.at = (IF rec THEN "start" ELSE "return") /\ r.parent = p /\ r.rec = rec
      /\ r.ctx = claimed /\ r.root = FALSE /\ r.admitted = FALSE
  <2>1. p \in Spans \cup {NoSpan}
    BY DEF Shared
  <2>2. PICK at \in {"start", "return"} : at = IF rec THEN "start" ELSE "return"
    OBVIOUS
  <2> QED BY <1>3, <2>1, <2>2, ZenonT(30) DEF IdleSpan, SpanStates
<1>5. OnPath(s, r)
  BY <1>1, <1>2, <1>4 DEF OnPath, Above, Underway, Returned, Final, Items
<1> QED BY <1>1, <1>2, <1>3, <1>4, <1>5, PathStep DEF Final

\* The steps of a start up to its return, but for the marker.
LEMMA PathGoesOn ==
  ASSUME Inv, EveryPath, NEW s \in Spans, NEW r \in SpanStates, Set(s, r), span[s].at \in Underway,
         r.at \in Underway \cup {"return"}, r.parent = span[s].parent, r.ctx = span[s].ctx,
         r.rec = span[s].rec, r.wants = span[s].wants, r.wants /\ r.admitted => r.expected,
         r.root => r.at = "return" /\ r.wants /\ r.by \notin r.ctx
  PROVE  EveryPath'
<1>1. OnPath(s, span[s]) /\ Above(r) = Above(span[s])
  BY DEF EveryPath, Above
<1>2. OnPath(s, r)
  BY <1>1 DEF OnPath, Underway, Returned, Final, Items
<1> QED BY <1>2, PathStep DEF Final, Underway

\* The span's own record, after a step that changes only what it says.
LEMMA PathRecord == ASSUME NEW s \in Spans, Inv PROVE span[s] \in SpanStates
BY SpanFacts

LEMMA PathOnStart ==
  ASSUME Inv, EveryPath, NEW s \in Spans, OnStart(s) \/ OnStartCheck(s) \/ admitObservation(s) PROVE EveryPath'
<1>0. span[s] \in SpanStates /\ OnPath(s, span[s])
  BY PathRecord DEF EveryPath
<1>1. CASE OnStart(s) \/ OnStartCheck(s)
  <2>1. PICK at \in {"return", "fill", "admit"}, by \in Clients \cup {NoClient} :
          Set(s, [span[s] EXCEPT !.at = at, !.by = by]) /\ span[s].at \in {"start", "fill"}
    <3>1. CASE Set(s, [span[s] EXCEPT !.at = "return"]) /\ span[s].at = "start"
      <4>1. [span[s] EXCEPT !.at = "return"] = [span[s] EXCEPT !.at = "return", !.by = span[s].by]
        BY <1>0 DEF SpanStates
      <4> QED BY <1>0, <3>1, <4>1 DEF SpanStates
    <3>2. CASE \E p \in attached : Set(s, [span[s] EXCEPT !.at = "fill", !.by = p]) /\ span[s].at = "start"
      BY <3>2 DEF Inv, Typed, SetupTyped
    <3>3. CASE OnStartCheck(s)
      <4>1. PICK at \in {"return", "admit"} : Set(s, [span[s] EXCEPT !.at = at]) /\ span[s].at = "fill"
        BY <3>3 DEF OnStartCheck
      <4>2. PICK by \in Clients \cup {NoClient} : by = span[s].by
        BY <1>0 DEF SpanStates
      <4>3. [span[s] EXCEPT !.at = at] = [span[s] EXCEPT !.at = at, !.by = by]
        BY <1>0, <4>2 DEF SpanStates
      <4> QED BY <4>1, <4>3
    <3> QED BY <1>1, <3>1, <3>2, <3>3 DEF OnStart
  <2>2. PICK r : r = [span[s] EXCEPT !.at = at, !.by = by]
    OBVIOUS
  <2>3. /\ r \in SpanStates /\ r.at = at /\ r.parent = span[s].parent /\ r.ctx = span[s].ctx
        /\ r.rec = span[s].rec /\ r.wants = span[s].wants /\ r.admitted = span[s].admitted
        /\ r.expected = span[s].expected /\ r.root = span[s].root
    BY <1>0, <2>2 DEF SpanStates
  <2>4. ~span[s].root /\ (r.wants /\ r.admitted => r.expected)
    BY <1>0, <2>1, <2>3 DEF OnPath, Underway
  <2> QED BY <2>1, <2>2, <2>3, <2>4, PathGoesOn DEF Underway
<1>2. CASE admitObservation(s)
  <2>1. PICK accept \in BOOLEAN : accept = (s \in Sdk /\ span[s].client \notin stopped)
    OBVIOUS
  <2>2. PICK e \in BOOLEAN : e = (accept /\ span[s].wants)
    BY <1>0 DEF SpanStates
  <2>3. PICK r : r = [span[s] EXCEPT !.at = "record", !.admitted = accept, !.expected = e]
    OBVIOUS
  <2>4. Set(s, r) /\ span[s].at = "admit"
    BY <1>2, <2>1, <2>2, <2>3 DEF admitObservation
  <2>5. /\ r \in SpanStates /\ r.at = "record" /\ r.parent = span[s].parent /\ r.ctx = span[s].ctx
        /\ r.rec = span[s].rec /\ r.wants = span[s].wants /\ r.admitted = accept
        /\ r.expected = e /\ r.root = span[s].root
    BY <1>0, <2>3 DEF SpanStates
  <2>6. ~span[s].root /\ (r.wants /\ r.admitted => r.expected)
    BY <1>0, <2>2, <2>4, <2>5 DEF OnPath, Underway
  <2> QED BY <2>4, <2>5, <2>6, PathGoesOn DEF Underway
<1> QED BY <1>1, <1>2

LEMMA PathOnRecord == ASSUME Inv, EveryPath, NEW s \in Spans, OnStartRecord(s) PROVE EveryPath'
<1>0. span[s] \in SpanStates /\ OnPath(s, span[s]) /\ span[s].at = "record"
  BY PathRecord DEF EveryPath, OnStartRecord
<1>1. PICK at \in {"mark", "return"}, b \in BOOLEAN : Set(s, [span[s] EXCEPT !.at = at, !.parentExpected = b])
  <2>1. CASE Set(s, [span[s] EXCEPT !.at = "return"])
    <3>1. [span[s] EXCEPT !.at = "return"] = [span[s] EXCEPT !.at = "return", !.parentExpected = span[s].parentExpected]
      BY <1>0 DEF SpanStates
    <3> QED BY <1>0, <2>1, <3>1 DEF SpanStates
  <2>2. PICK b \in BOOLEAN : b = (span[s].parent \in expected[span[s].by])
    BY MembershipIsBoolean
  <2> QED BY <2>1, <2>2 DEF OnStartRecord
<1>2. PICK r : r = [span[s] EXCEPT !.at = at, !.parentExpected = b]
  OBVIOUS
<1>3. /\ r \in SpanStates /\ r.at = at /\ r.parent = span[s].parent /\ r.ctx = span[s].ctx
      /\ r.rec = span[s].rec /\ r.wants = span[s].wants /\ r.admitted = span[s].admitted
      /\ r.expected = span[s].expected /\ r.root = span[s].root
  BY <1>0, <1>2 DEF SpanStates
<1>4. ~span[s].root /\ (r.wants /\ r.admitted => r.expected)
  BY <1>0, <1>3 DEF OnPath, Underway
<1> QED BY <1>0, <1>1, <1>2, <1>3, <1>4, PathGoesOn DEF Underway

\* The marker is decided on what the start context claims.
LEMMA PathOnMark == ASSUME Inv, EveryPath, NEW s \in Spans, OnStartMark(s) PROVE EveryPath'
<1>0. span[s] \in SpanStates /\ OnPath(s, span[s]) /\ span[s].at = "mark"
  BY PathRecord DEF EveryPath, OnStartMark
<1>1. PICK b \in BOOLEAN : b = (span[s].by \in span[s].ctx)
  BY MembershipIsBoolean
<1>2. PICK root \in BOOLEAN : root = (span[s].wants /\ ~span[s].parentExpected /\ ~b)
  BY <1>0 DEF SpanStates
<1>3. PICK r : r = [span[s] EXCEPT !.at = "return", !.root = root]
  OBVIOUS
<1>4. Set(s, r)
  BY <1>1, <1>2, <1>3 DEF OnStartMark
<1>5. /\ r \in SpanStates /\ r.at = "return" /\ r.parent = span[s].parent /\ r.ctx = span[s].ctx
      /\ r.rec = span[s].rec /\ r.wants = span[s].wants /\ r.admitted = span[s].admitted
      /\ r.expected = span[s].expected /\ r.root = root /\ r.by = span[s].by
  BY <1>0, <1>3 DEF SpanStates
<1>6. r.wants /\ r.admitted => r.expected
  BY <1>0, <1>5 DEF OnPath
<1>7. r.root => r.wants /\ r.by \notin r.ctx
  BY <1>1, <1>2, <1>5
<1> QED BY <1>0, <1>4, <1>5, <1>6, <1>7, PathGoesOn DEF Underway

LEMMA PathReturns == ASSUME Inv, EveryPath, NEW s \in Spans, StartReturn(s) PROVE EveryPath'
<1>0. span[s] \in SpanStates /\ OnPath(s, span[s]) /\ span[s].at = "return"
  BY PathRecord DEF EveryPath, StartReturn
<1>1. PICK at \in Returned :
        /\ at \in Final /\ s \in Sdk /\ span[s].rec => span[s].admitted
        /\ at \in Items => s \in ItemRoots
        /\ Set(s, [span[s] EXCEPT !.wants = FALSE, !.ctx = {}, !.parentExpected = FALSE,
                                  !.admitted = FALSE, !.expected = FALSE, !.at = at, !.claim = Claims(s)])
  BY SetsAssumption DEF StartReturn, Returned, Final, Items
<1>2. PICK claim \in SUBSET Clients : claim = Claims(s)
  <2>1. Sound(s, span[s])
    BY SpanFacts
  <2> QED BY <1>0, <2>1 DEF Claims, SpanStates, Sound
<1>3. PICK r : r = [span[s] EXCEPT !.wants = FALSE, !.ctx = {}, !.parentExpected = FALSE,
                                   !.admitted = FALSE, !.expected = FALSE, !.at = at, !.claim = claim]
  OBVIOUS
<1>4. /\ r \in SpanStates /\ r.at = at /\ r.parent = span[s].parent /\ r.claim = claim
      /\ r.wants = FALSE /\ r.admitted = FALSE /\ r.by = span[s].by /\ r.client = span[s].client
      /\ r.root = span[s].root
  BY <1>0, <1>3 DEF SpanStates, Returned
<1>5. Above(r) = span[s].ctx /\ span[s].ctx \subseteq claim
  BY <1>0, <1>2, <1>4 DEF OnPath, Above, Claims
<1>6. s \in Sdk /\ at \in Final /\ span[s].root => span[s].client \in claim
  BY <1>0, <1>1, <1>2 DEF OnPath, Claims
<1>7. OnPath(s, r)
  BY <1>0, <1>1, <1>4, <1>5, <1>6 DEF OnPath, Items, Returned, Final, Underway, Above
<1> QED BY <1>0, <1>1, <1>2, <1>3, <1>4, <1>7, PathStep DEF Final

LEMMA EndTyped ==
  ASSUME NEW r \in SpanStates, NEW e \in {"done", "ending"}, NEW b \in Clients \cup {NoClient}
  PROVE  [r EXCEPT !.end = e, !.endBy = b] \in SpanStates
BY DEF SpanStates

\* What EndBegins makes of a record.
LEMMA PathEnds ==
  ASSUME Inv, EveryPath, NEW s \in Spans, NEW at, NEW r, r = [span[s] EXCEPT !.at = at], EndBegins(s, r),
         at = span[s].at \/ (at = "refused" /\ span[s].at \in Returned \ Final)
  PROVE  EveryPath'
<1>0. span[s] \in SpanStates
  BY PathRecord
<1>1. r \in SpanStates
  BY <1>0 DEF SpanStates
<1>2. PICK e \in {"done", "ending"}, b \in Clients \cup {NoClient} :
        Set(s, [r EXCEPT !.end = e, !.endBy = b])
  <2>1. CASE Set(s, [r EXCEPT !.end = "done"])
    <3>1. PICK b \in Clients \cup {NoClient} : b = r.endBy
      BY <1>1 DEF SpanStates
    <3>2. [r EXCEPT !.end = "done"] = [r EXCEPT !.end = "done", !.endBy = b]
      BY <1>1, <3>1 DEF SpanStates
    <3> QED BY <2>1, <3>2
  <2>2. CASE \E p \in attached : Set(s, [r EXCEPT !.end = "ending", !.endBy = p])
    BY <2>2 DEF Inv, Typed, SetupTyped
  <2> QED BY <2>1, <2>2 DEF EndBegins
<1>3. PICK q : q = [r EXCEPT !.end = e, !.endBy = b]
  OBVIOUS
<1>4. /\ q \in SpanStates /\ q.at = at /\ q.parent = span[s].parent /\ q.ctx = span[s].ctx
      /\ q.claim = span[s].claim /\ q.rec = span[s].rec /\ q.root = span[s].root
      /\ q.wants = span[s].wants /\ q.admitted = span[s].admitted /\ q.expected = span[s].expected
      /\ q.by = span[s].by /\ q.client = span[s].client
  <2>1. /\ r.at = at /\ r.parent = span[s].parent /\ r.ctx = span[s].ctx
        /\ r.claim = span[s].claim /\ r.rec = span[s].rec /\ r.root = span[s].root
        /\ r.wants = span[s].wants /\ r.admitted = span[s].admitted /\ r.expected = span[s].expected
        /\ r.by = span[s].by /\ r.client = span[s].client
    BY <1>0 DEF SpanStates
  <2>2. q \in SpanStates
    BY <1>1, <1>3, EndTyped
  <2>3. /\ q.at = r.at /\ q.parent = r.parent /\ q.ctx = r.ctx /\ q.claim = r.claim /\ q.rec = r.rec
        /\ q.root = r.root /\ q.wants = r.wants /\ q.admitted = r.admitted /\ q.expected = r.expected
        /\ q.by = r.by /\ q.client = r.client
    BY <1>1, <1>3 DEF SpanStates
  <2> QED BY <2>1, <2>2, <2>3
<1> QED BY <1>2, <1>3, <1>4, PathMoves DEF Returned, Final, Items

LEMMA PathEnd ==
  ASSUME Inv, EveryPath, NEW s \in Spans, End(s) \/ RefuseStart(s) \/ OnEnd(s) PROVE EveryPath'
<1>0. span[s] \in SpanStates
  BY PathRecord
<1>1. CASE End(s)
  <2>1. span[s] = [span[s] EXCEPT !.at = span[s].at]
    BY <1>0 DEF SpanStates
  <2>2. PICK at : at = span[s].at
    OBVIOUS
  <2> QED BY <1>1, <2>1, <2>2, PathEnds DEF End
<1>2. CASE RefuseStart(s)
  BY <1>2, PathEnds DEF RefuseStart, Returned, Final
<1>3. CASE OnEnd(s)
  <2>1. PICK q : q = [span[s] EXCEPT !.end = "done"]
    OBVIOUS
  <2>2. /\ q \in SpanStates /\ q.at = span[s].at /\ q.parent = span[s].parent /\ q.ctx = span[s].ctx
        /\ q.claim = span[s].claim /\ q.rec = span[s].rec /\ q.root = span[s].root
        /\ q.wants = span[s].wants /\ q.admitted = span[s].admitted /\ q.expected = span[s].expected
        /\ q.by = span[s].by /\ q.client = span[s].client
    BY <1>0, <2>1 DEF SpanStates
  <2> QED BY <1>3, <2>1, <2>2, PathMoves DEF OnEnd
<1> QED BY <1>1, <1>2, <1>3

LEMMA PathItems ==
  ASSUME Inv, EveryPath, NEW s \in Spans, Exports(s) \/ Expect(s) PROVE EveryPath'
<1>0. span[s] \in SpanStates /\ span[s].at \in {"item", "accept"}
  BY PathRecord DEF Exports, Expect
<1>1. CASE \E at \in {"accept", "refused", "mark item"} : Set(s, [span[s] EXCEPT !.at = at])
  <2>1. PICK at \in {"accept", "refused", "mark item"} : Set(s, [span[s] EXCEPT !.at = at])
    BY <1>1
  <2>2. PICK q : q = [span[s] EXCEPT !.at = at]
    OBVIOUS
  <2>3. /\ q \in SpanStates /\ q.at = at /\ q.parent = span[s].parent /\ q.ctx = span[s].ctx
        /\ q.claim = span[s].claim /\ q.rec = span[s].rec /\ q.root = span[s].root
        /\ q.wants = span[s].wants /\ q.admitted = span[s].admitted /\ q.expected = span[s].expected
        /\ q.by = span[s].by /\ q.client = span[s].client
    BY <1>0, <2>2 DEF SpanStates
  <2> QED BY <1>0, <2>1, <2>2, <2>3, PathMoves DEF Returned, Final, Items
<1>2. CASE EndBegins(s, [span[s] EXCEPT !.at = "refused"])
  BY <1>0, <1>2, PathEnds DEF Returned, Final
<1> QED BY <1>1, <1>2 DEF Exports, Expect

\* An accepted item root claims its trace, and has no start above it.
LEMMA PathAccepts == ASSUME Inv, EveryPath, NEW s \in Spans, acceptItemRoot(s) PROVE EveryPath'
<1>0. span[s] \in SpanStates /\ OnPath(s, span[s]) /\ span[s].at = "mark item" /\ s \in ItemRoots
  BY PathRecord DEF EveryPath, acceptItemRoot, OnPath, Items
<1>1. PICK root \in BOOLEAN : root = (span[s].root \/ span[s].end = "no")
  BY <1>0 DEF SpanStates
<1>2. PICK c \in Clients : c = span[s].client
  <2>1. Sound(s, span[s])
    BY SpanFacts
  <2> QED BY <1>0, <2>1 DEF Sound, Items
<1>3. PICK r : r = [span[s] EXCEPT !.at = "live", !.root = root, !.claim = @ \cup {c}]
  OBVIOUS
<1>4. Set(s, r)
  BY <1>1, <1>2, <1>3 DEF acceptItemRoot
<1>5. /\ r \in SpanStates /\ r.at = "live" /\ r.parent = span[s].parent /\ r.claim = span[s].claim \cup {c}
      /\ r.wants = span[s].wants /\ r.admitted = span[s].admitted /\ r.expected = span[s].expected
      /\ r.by = span[s].by /\ r.client = c
  BY <1>0, <1>2, <1>3 DEF SpanStates
<1>6. r.parent = NoSpan /\ Above(r) = {}
  BY <1>0, <1>5 DEF OnPath, Above
<1>7. OnPath(s, r)
  BY <1>0, <1>5, <1>6 DEF OnPath, Items, Returned, Final, Underway
<1> QED BY <1>0, <1>4, <1>5, <1>7, PathStep DEF Final

LEMMA PathKept == ASSUME Inv, EveryPath, [Next]_vars PROVE EveryPath'
<1>1. CASE UNCHANGED span
  BY <1>1, PathStays
<1>2. ASSUME NEW s \in Spans, Start(s)
      PROVE  EveryPath'
  BY <1>2, PathBegins, PathOnStart, PathOnRecord, PathOnMark, PathReturns, PathEnd, PathItems, PathAccepts
     DEF Start
<1>3. ASSUME NEW s \in Spans, End(s) \/ OnEnd(s)
      PROVE  EveryPath'
  BY <1>3, PathEnd
<1>4. (\E c \in Clients : New(c) \/ ProcShutdown(c) \/ Teardown(c)) => UNCHANGED span
  BY DEF New, reserveBorrowedProvider, NewFails, NewRegisters, ProcShutdown, ProcStop, ProcClear, ProcNext,
         Teardown, PublishStopped, TeardownFlush, TeardownProc, ProcReturn, Detach, releaseReservation,
         Drain, CloseDone
<1>5. (\E x \in Callers : Shutdown(x)) \/ AppStep \/ UNCHANGED vars => UNCHANGED span
  BY DEF Shutdown, Swap, Enter, AppStep, vars
<1> QED BY <1>1, <1>2, <1>3, <1>4, <1>5 DEF Next

\* On a path, the clients of the marked observations above are all claimed.
LEMMA NoSecondRoot == ASSUME EveryPath PROVE OneRootPerPath
<1> SUFFICES ASSUME NEW s \in Spans, span[s].root, NEW a \in Ancestors(s) \cap Sdk, span[a].root
             PROVE  span[a].client # span[s].by
  BY DEF OneRootPerPath
<1>1. PICK line \in SUBSET Spans : line = {p \in Shared : span[s].by \notin span[p].claim}
  BY DEF Shared
<1>2. UpClosed(line)
  <2>1. ASSUME NEW p \in line
        PROVE  span[p].parent \in line \cup {NoSpan}
    <3>1. OnPath(p, span[p]) /\ span[p].at \in Returned
      BY <1>1 DEF EveryPath, Shared, Returned
    <3> QED BY <1>1, <3>1 DEF OnPath, Above
  <2> QED BY <2>1 DEF UpClosed
<1>3. span[s].parent \in line \cup {NoSpan}
  BY <1>1 DEF EveryPath, OnPath, Above
<1>4. a \in line
  BY <1>2, <1>3 DEF Ancestors
<1>5. span[a].client \in span[a].claim
  BY <1>1, <1>4 DEF EveryPath, OnPath, Shared, Final
<1> QED BY <1>1, <1>4, <1>5

(* A client marks at most one application root along a path of contexts,   *)
(* however starts, ends, late acceptances of item roots and the tracking   *)
(* limit interleave: the claim travels in the context, not in the tracker. *)
THEOREM OneRootAlways == Spec => []OneRootPerPath
<1>1. Init => EveryPath
  BY PathStarts
<1>2. Inv /\ EveryPath /\ [Next]_vars => EveryPath'
  BY PathKept
<1>3. EveryPath => OneRootPerPath
  BY NoSecondRoot
<1> QED BY <1>1, <1>2, <1>3, LifecycleHolds, PTL DEF Spec

-----------------------------------------------------------------------------
(* Decisions and baggage.                                                 *)


Decision == [trace : Nat, sampled : BOOLEAN, authoritative : BOOLEAN, lastSDKSpanID : Nat]
Span == [trace : Traces, parent : Nat, sdk : BOOLEAN, sampled : BOOLEAN, decision : Decision, lost : SUBSET Nat]
Context == [ambient : Nat, decision : Decision, rate : Rates, parent : Nat, lost : SUBSET Nat]

(* The parts of the invariant, of any sequence of spans. *)

\* An observation with authority over its trace.
Firm(sp, s) == s \in DOMAIN sp /\ sp[s].sdk /\ sp[s].decision.authoritative
Alike(sp, s, t) == sp[t].trace = sp[s].trace /\ sp[t].sampled = sp[s].sampled
Known(sp, s) == s \in DOMAIN sp \cup {Invalid}
TracesOf(sp) == {sp[s].trace : s \in DOMAIN sp}

Backed(sp, d) ==
  /\ d.trace \in TracesOf(sp) \cup {0}
  /\ d.authoritative => LET s == d.lastSDKSpanID
                        IN Firm(sp, s) /\ sp[s].trace = d.trace /\ sp[s].sampled = d.sampled
ContextBacked(sp, c) ==
  /\ Backed(sp, c.decision) /\ Known(sp, c.ambient)
  /\ Known(sp, c.parent) /\ (IsSpan(c.parent) => sp[c.parent].sdk)
SpanBacked(sp, s) ==
  /\ Known(sp, sp[s].parent)
  /\ sp[s].sdk => /\ sp[s].decision.trace = sp[s].trace /\ sp[s].decision.sampled = sp[s].sampled
                  /\ sp[s].decision.lastSDKSpanID = s
  /\ Firm(sp, s) /\ IsSpan(sp[s].parent) => Firm(sp, sp[s].parent) /\ Alike(sp, s, sp[s].parent)
SpansBacked(sp) == \A s \in DOMAIN sp : SpanBacked(sp, s)

DecisionsInv ==
  /\ spans \in Seq(Span) /\ ctx \in [Paths -> Context]
  /\ SpansBacked(spans) /\ \A p \in Paths : ContextBacked(spans, ctx[p])

-----------------------------------------------------------------------------
LEMMA Appended ==
  ASSUME NEW sp \in Seq(Span), NEW e \in Span
  PROVE  /\ Append(sp, e) \in Seq(Span) /\ Len(sp) \in Nat
         /\ DOMAIN sp = 1..Len(sp) /\ DOMAIN Append(sp, e) = DOMAIN sp \cup {Len(sp) + 1}
         /\ Append(sp, e)[Len(sp) + 1] = e
         /\ \A s \in DOMAIN sp : Append(sp, e)[s] = sp[s] /\ s # Len(sp) + 1 /\ s # Invalid /\ sp[s] \in Span
         /\ Len(sp) + 1 # Invalid
BY DEF Invalid

(* A span more leaves what is known of a context. *)
LEMMA ContextKept ==
  ASSUME NEW sp \in Seq(Span), NEW e \in Span, NEW c \in Context, ContextBacked(sp, c)
  PROVE  ContextBacked(Append(sp, e), c)
<1> DEFINE next == Append(sp, e)
<1>1. \A s \in DOMAIN sp : s \in DOMAIN next /\ next[s] = sp[s]
  BY Appended
<1>2. TracesOf(sp) \subseteq TracesOf(next)
  BY <1>1 DEF TracesOf
<1>3. Backed(next, c.decision)
  BY <1>1, <1>2 DEF ContextBacked, Backed, Firm
<1>4. Known(next, c.ambient) /\ Known(next, c.parent) /\ (IsSpan(c.parent) => next[c.parent].sdk)
  BY <1>1 DEF ContextBacked, Known, IsSpan
<1> QED BY <1>3, <1>4 DEF ContextBacked

LEMMA SpansKept ==
  ASSUME NEW sp \in Seq(Span), NEW e \in Span, SpansBacked(sp), SpanBacked(Append(sp, e), Len(sp) + 1)
  PROVE  SpansBacked(Append(sp, e))
<1> DEFINE next == Append(sp, e)
<1>1. \A s \in DOMAIN sp : s \in DOMAIN next /\ next[s] = sp[s]
  BY Appended
<1>2. ASSUME NEW s \in DOMAIN sp
      PROVE  SpanBacked(next, s)
  <2>1. SpanBacked(sp, s) /\ next[s] = sp[s]
    BY <1>1 DEF SpansBacked
  <2>2. Known(next, sp[s].parent)
    BY <1>1, <2>1 DEF SpanBacked, Known
  <2>3. Firm(next, s) /\ IsSpan(sp[s].parent) => Firm(next, sp[s].parent) /\ Alike(next, s, sp[s].parent)
    BY <1>1, <2>1 DEF SpanBacked, Firm, Alike
  <2> QED BY <2>1, <2>2, <2>3 DEF SpanBacked
<1> QED BY <1>2, Appended DEF SpansBacked
-----------------------------------------------------------------------------
(* What a start makes of a context.                                        *)

(* The context a start begins with: under an overridden parent it has the   *)
(* parent's decision, with less authority if any.                           *)
LEMMA StartContextBacked ==
  ASSUME DecisionsInv, NEW c \in Context, ContextBacked(spans, c)
  PROVE  StartContext(c) \in Context /\ ContextBacked(spans, StartContext(c)) /\ StartContext(c).parent = Invalid
<1>1. CASE ~IsSpan(c.parent)
  BY <1>1 DEF StartContext, IsSpan
<1>2. CASE IsSpan(c.parent)
  <2> DEFINE s == c.parent
             d == overrideDecision(c)
  <2>1. s \in DOMAIN spans /\ spans[s] \in Span /\ spans[s].sdk /\ SpanBacked(spans, s)
    BY <1>2 DEF DecisionsInv, ContextBacked, Known, IsSpan, SpansBacked
  <2>2. spans[s].decision \in Decision
    BY <2>1 DEF Span
  <2>3. /\ d \in Decision /\ d.trace = spans[s].decision.trace /\ d.sampled = spans[s].decision.sampled
        /\ d.lastSDKSpanID = spans[s].decision.lastSDKSpanID
        /\ d.authoritative => spans[s].decision.authoritative
    BY <2>2 DEF overrideDecision, Decision
  <2>4. Backed(spans, d)
    BY <2>1, <2>3 DEF SpanBacked, Backed, Firm, TracesOf
  <2>5. StartContext(c) = [c EXCEPT !.ambient = s, !.decision = d, !.parent = Invalid]
    BY <1>2 DEF StartContext
  <2>6. /\ StartContext(c) \in Context /\ StartContext(c).ambient = s
        /\ StartContext(c).decision = d /\ StartContext(c).parent = Invalid
    <3> DEFINE c1 == [c EXCEPT !.ambient = s]
               c2 == [c1 EXCEPT !.decision = d]
               c3 == [c2 EXCEPT !.parent = Invalid]
    <3>1. StartContext(c) = c3
      BY <2>5
    <3> HIDE DEF d
    <3>2. c1 \in Context /\ c1.ambient = s
      BY DEF Context
    <3> HIDE DEF c1
    <3>3. c2 \in Context /\ c2.ambient = s /\ c2.decision = d
      BY <2>3, <3>2 DEF Context
    <3> HIDE DEF c2
    <3> QED BY <3>1, <3>3 DEF Context, Invalid
  <2>7. Known(spans, s) /\ Known(spans, Invalid) /\ ~IsSpan(Invalid)
    BY <2>1 DEF Known, IsSpan
  <2> HIDE DEF s, d
  <2> QED BY <2>4, <2>6, <2>7 DEF ContextBacked
<1> QED BY <1>1, <1>2

(* A start with base in a trace, below the parent that the trace has: the   *)
(* span and the context it installs.                                        *)
LEMMA StartedBacked ==
  ASSUME DecisionsInv, NEW c \in Context, Known(spans, c.ambient),
         NEW base \in Context, ContextBacked(spans, base), base.parent = Invalid,
         NEW parent \in Nat, Known(spans, parent), NEW trace \in Traces, NEW sampled \in BOOLEAN,
         IsSpan(parent) => TraceOf(parent) = trace,
         base.decision.trace = trace => sampled = base.decision.sampled /\ IsSpan(parent)
  PROVE  LET st == Started(c, base, parent, trace, sampled)
         IN /\ st.span \in Span /\ st.context \in Context
            /\ ContextBacked(Append(spans, st.span), st.context)
            /\ SpansBacked(Append(spans, st.span))
<1> DEFINE id == Len(spans) + 1
           d == nextTraceDecision(base, parent, id, trace, sampled)
           lost == c.lost \cup Losses(c, parent)
           sp == [trace |-> trace, parent |-> parent, sdk |-> TRUE, sampled |-> sampled,
                    decision |-> d, lost |-> lost]
           context == [base EXCEPT !.ambient = id, !.decision = d, !.lost = lost]
           next == Append(spans, sp)
<1>1. Started(c, base, parent, trace, sampled) = [context |-> context, span |-> sp]
  BY DEF Started
<1>2. id \in Nat /\ lost \in SUBSET Nat
  <2>1. \A s \in DOMAIN spans : spans[s] \in Span
    BY DEF DecisionsInv
  <2>2. \A s : Known(spans, s) => TraceOf(s) \in Nat
    BY <2>1 DEF TraceOf, Known, IsSpan, Span, Traces
  <2>3. IsSpan(parent) => spans[parent].lost \in SUBSET Nat
    BY <2>1 DEF Known, IsSpan, Span
  <2>4. Losses(c, parent) \in SUBSET Nat
    BY <2>2, <2>3 DEF Losses
  <2> QED BY <2>4 DEF DecisionsInv, Context
<1>3. /\ d \in Decision /\ d.trace = trace /\ d.sampled = sampled /\ d.lastSDKSpanID = id
      /\ d.authoritative =>
           \/ parent = Invalid
           \/ /\ parent = base.decision.lastSDKSpanID /\ base.decision.authoritative
              /\ base.decision.trace = trace /\ base.decision.sampled = sampled
  <2>1. trace \in Nat /\ base.decision \in Decision
    BY DEF Context, Traces
  <2>2. CASE base.decision.trace = trace
    <3>1. d = [trace |-> trace, sampled |-> base.decision.sampled, lastSDKSpanID |-> id,
               authoritative |-> base.decision.authoritative /\ Continues(base, parent)]
      BY <2>2 DEF nextTraceDecision
    <3> HIDE DEF d
    <3> QED BY <1>2, <2>1, <2>2, <3>1 DEF Decision, Continues
  <2>3. CASE base.decision.trace # trace
    <3>1. d = [trace |-> trace, sampled |-> sampled, lastSDKSpanID |-> id, authoritative |-> ~IsSpan(parent)]
      BY <2>3 DEF nextTraceDecision
    <3> HIDE DEF d
    <3> QED BY <1>2, <2>1, <3>1 DEF Decision, IsSpan
  <2> QED BY <2>2, <2>3
<1> HIDE DEF d, lost
<1>4. sp \in Span
  BY <1>2, <1>3 DEF Span
<1>5. context \in Context /\ context.ambient = id /\ context.decision = d /\ context.parent = Invalid
  <2> DEFINE c1 == [base EXCEPT !.ambient = id]
             c2 == [c1 EXCEPT !.decision = d]
             c3 == [c2 EXCEPT !.lost = lost]
  <2>1. context = c3
    OBVIOUS
  <2> HIDE DEF context, id
  <2>2. c1 \in Context /\ c1.ambient = id /\ c1.parent = Invalid
    BY <1>2 DEF Context
  <2> HIDE DEF c1
  <2>3. c2 \in Context /\ c2.ambient = id /\ c2.decision = d /\ c2.parent = Invalid
    BY <1>3, <2>2 DEF Context
  <2> HIDE DEF c2
  <2>4. c3 \in Context /\ c3.ambient = id /\ c3.decision = d /\ c3.parent = Invalid
    BY <1>2, <2>3 DEF Context
  <2> QED BY <2>1, <2>4
<1>6. /\ next \in Seq(Span) /\ DOMAIN next = DOMAIN spans \cup {id} /\ next[id] = sp
      /\ \A s \in DOMAIN spans : next[s] = spans[s] /\ s # id /\ s # Invalid
      /\ id # Invalid
  BY <1>4, Appended DEF DecisionsInv
<1>7. d.authoritative /\ IsSpan(parent) => Firm(next, parent) /\ Alike(next, id, parent)
  <2> SUFFICES ASSUME d.authoritative, IsSpan(parent)
               PROVE  Firm(next, parent) /\ Alike(next, id, parent)
    OBVIOUS
  <2>1. /\ parent = base.decision.lastSDKSpanID /\ base.decision.authoritative
        /\ base.decision.trace = trace /\ base.decision.sampled = sampled
    BY <1>3 DEF IsSpan
  <2>2. Firm(spans, parent) /\ spans[parent].trace = trace /\ spans[parent].sampled = sampled
    BY <2>1 DEF ContextBacked, Backed
  <2> QED BY <1>6, <2>2 DEF Firm, Alike
<1>8. Known(next, parent) /\ Known(next, id) /\ Known(next, Invalid) /\ ~IsSpan(Invalid)
  BY <1>6 DEF Known, IsSpan
<1> HIDE DEF next
<1>9. SpanBacked(next, id)
  BY <1>3, <1>6, <1>7, <1>8 DEF SpanBacked, Firm
<1>10. SpansBacked(next)
  BY <1>4, <1>9, SpansKept DEF next, id, DecisionsInv
<1>11. ContextBacked(next, context)
  <2>1. Backed(next, d)
    BY <1>3, <1>6 DEF Backed, Firm, TracesOf
  <2> HIDE DEF context
  <2> QED BY <1>5, <1>8, <2>1 DEF ContextBacked
<1> HIDE DEF context, sp
<1> QED BY <1>1, <1>4, <1>5, <1>10, <1>11 DEF next
-----------------------------------------------------------------------------
(* The steps.                                                              *)

(* A path that gets a context, with a sp or without one, leaves the other *)
(* paths as they are.                                                      *)
LEMMA ContextMoves ==
  ASSUME DecisionsInv, NEW p \in Paths, NEW c \in Context, ContextBacked(spans, c),
         ctx' = [ctx EXCEPT ![p] = c], spans' = spans
  PROVE  DecisionsInv'
<1>1. ctx' \in [Paths -> Context] /\ \A q \in Paths : ctx'[q] = IF q = p THEN c ELSE ctx[q]
  BY DEF DecisionsInv
<1> QED BY <1>1 DEF DecisionsInv

LEMMA PathGrows ==
  ASSUME DecisionsInv, NEW p \in Paths, NEW c \in Context, NEW e \in Span,
         ContextBacked(Append(spans, e), c), SpansBacked(Append(spans, e)),
         ctx' = [ctx EXCEPT ![p] = c], spans' = Append(spans, e)
  PROVE  DecisionsInv'
<1>1. ctx' \in [Paths -> Context] /\ \A q \in Paths : ctx'[q] = IF q = p THEN c ELSE ctx[q]
  BY DEF DecisionsInv
<1>2. spans' \in Seq(Span)
  BY DEF DecisionsInv
<1>3. \A q \in Paths : ContextBacked(spans', ctx'[q])
  BY <1>1, ContextKept DEF DecisionsInv
<1> QED BY <1>1, <1>2, <1>3 DEF DecisionsInv

LEMMA InitBacked == PathInit => DecisionsInv
<1> SUFFICES ASSUME PathInit
             PROVE  DecisionsInv
  OBVIOUS
<1>1. NoDecision \in Decision
  BY DEF NoDecision, Decision, Invalid
<1>2. Background \in Context
  <2>1. (CHOOSE r \in Rates : TRUE) \in Rates
    BY SamplerAssumption DEF SamplerAssumption
  <2> QED BY <1>1, <2>1 DEF Background, Context, Invalid
<1>3. Background.decision = NoDecision /\ Background.ambient = Invalid /\ Background.parent = Invalid
  BY DEF Background
<1>4. ContextBacked(spans, Background)
  BY <1>3 DEF ContextBacked, Backed, NoDecision, Known, IsSpan
<1>5. spans = <<>> /\ ctx = [p \in Paths |-> Background]
  BY DEF PathInit
<1>6. SpansBacked(spans) /\ spans \in Seq(Span)
  BY <1>5 DEF SpansBacked
<1> HIDE DEF Background
<1> QED BY <1>2, <1>4, <1>5, <1>6 DEF DecisionsInv

LEMMA SampledIsBoolean ==
  ASSUME NEW c \in Context, NEW trace \in Traces
  PROVE  ShouldSample(c, trace) \in BOOLEAN
<1>1. Hash[trace] \in Nat
  <2>1. Hash \in Seq(Nat) /\ trace \in 1..Len(Hash)
    BY SamplerAssumption DEF SamplerAssumption, Traces
  <2> QED BY <2>1
<1>2. c.rate \in Nat /\ c.decision.sampled \in BOOLEAN
  BY SamplerAssumption DEF SamplerAssumption, Context, Decision
<1>3. sampledAt(trace, c.rate) \in BOOLEAN
  BY <1>1, <1>2 DEF sampledAt
<1> QED BY <1>2, <1>3 DEF ShouldSample

(* What StartObservation(p) starts with satisfies StartedBacked.           *)
LEMMA ObservationPremises ==
  ASSUME DecisionsInv, NEW p \in Paths,
         NEW trace \in IF IsSpan(StartContext(ctx[p]).ambient)
                        THEN {TraceOf(StartContext(ctx[p]).ambient)} ELSE Fresh
  PROVE  LET base == StartContext(ctx[p])
         IN /\ ctx[p] \in Context /\ Known(spans, ctx[p].ambient)
            /\ base \in Context /\ ContextBacked(spans, base) /\ base.parent = Invalid
            /\ base.ambient \in Nat /\ Known(spans, base.ambient)
            /\ trace \in Traces /\ ShouldSample(base, trace) \in BOOLEAN
            /\ IsSpan(base.ambient) => TraceOf(base.ambient) = trace
            /\ base.decision.trace = trace =>
                 ShouldSample(base, trace) = base.decision.sampled /\ IsSpan(base.ambient)
<1> DEFINE base == StartContext(ctx[p])
<1>1. ctx[p] \in Context /\ ContextBacked(spans, ctx[p])
  BY DEF DecisionsInv
<1>2. base \in Context /\ ContextBacked(spans, base) /\ base.parent = Invalid
  BY <1>1, StartContextBacked
<1> HIDE DEF base
<1>3. trace \in IF IsSpan(base.ambient) THEN {TraceOf(base.ambient)} ELSE Fresh
  BY DEF base
<1>4. Known(spans, base.ambient) /\ Known(spans, ctx[p].ambient) /\ Backed(spans, base.decision)
  BY <1>1, <1>2 DEF ContextBacked
<1>5. \A s \in DOMAIN spans : spans[s] \in Span
  BY DEF DecisionsInv
<1>6. trace \in Traces
  BY <1>3, <1>4, <1>5 DEF Known, IsSpan, TraceOf, Span, Fresh
<1>7. base.ambient \in Nat
  BY <1>2 DEF Context
<1>8. ShouldSample(base, trace) \in BOOLEAN
  BY <1>2, <1>6, SampledIsBoolean
<1>9. base.decision.trace = trace => ShouldSample(base, trace) = base.decision.sampled
  BY DEF ShouldSample
<1>10. base.decision.trace = trace => IsSpan(base.ambient)
  <2> SUFFICES ASSUME base.decision.trace = trace, ~IsSpan(base.ambient)
               PROVE  FALSE
    OBVIOUS
  <2>1. trace \notin Used /\ trace # 0
    BY <1>3, <1>6 DEF Fresh, Traces
  <2> QED BY <1>4, <2>1 DEF Backed, TracesOf, Used
<1>11. IsSpan(base.ambient) => TraceOf(base.ambient) = trace
  BY <1>3
<1> QED BY <1>1, <1>2, <1>4, <1>6, <1>7, <1>8, <1>9, <1>10, <1>11 DEF base

LEMMA StartsBacked ==
  ASSUME DecisionsInv, NEW p \in Paths, StartObservation(p) \/ StartItemRoot(p)
  PROVE  DecisionsInv'
<1>1. CASE StartObservation(p)
  <2> DEFINE base == StartContext(ctx[p])
  <2>1. PICK trace \in IF IsSpan(base.ambient) THEN {TraceOf(base.ambient)} ELSE Fresh :
          Install(p, Started(ctx[p], base, base.ambient, trace, ShouldSample(base, trace)))
    BY <1>1 DEF StartObservation
  <2> DEFINE st == Started(ctx[p], base, base.ambient, trace, ShouldSample(base, trace))
  <2>2. /\ st.span \in Span /\ st.context \in Context
        /\ ContextBacked(Append(spans, st.span), st.context) /\ SpansBacked(Append(spans, st.span))
    <3> HIDE DEF base
    <3>1. /\ ctx[p] \in Context /\ Known(spans, ctx[p].ambient)
          /\ base \in Context /\ ContextBacked(spans, base) /\ base.parent = Invalid
          /\ base.ambient \in Nat /\ Known(spans, base.ambient)
          /\ trace \in Traces /\ ShouldSample(base, trace) \in BOOLEAN
          /\ IsSpan(base.ambient) => TraceOf(base.ambient) = trace
          /\ base.decision.trace = trace =>
               ShouldSample(base, trace) = base.decision.sampled /\ IsSpan(base.ambient)
      BY ObservationPremises DEF base
    <3> QED BY <3>1, StartedBacked
  <2>3. ctx' = [ctx EXCEPT ![p] = st.context] /\ spans' = Append(spans, st.span)
    BY <2>1 DEF Install
  <2> HIDE DEF st
  <2> QED BY <2>2, <2>3, PathGrows
<1>2. CASE StartItemRoot(p)
  <2> DEFINE base == [ctx[p] EXCEPT !.parent = Invalid]
  <2>1. PICK trace \in Fresh : Install(p, Started(ctx[p], base, Invalid, trace, TRUE))
    BY <1>2 DEF StartItemRoot
  <2> DEFINE st == Started(ctx[p], base, Invalid, trace, TRUE)
  <2>2. ctx[p] \in Context /\ ContextBacked(spans, ctx[p])
    BY DEF DecisionsInv
  <2>3. /\ base \in Context /\ base.parent = Invalid
        /\ base.decision = ctx[p].decision /\ base.ambient = ctx[p].ambient
    BY <2>2 DEF Context, Invalid
  <2> HIDE DEF base
  <2>4. ContextBacked(spans, base) /\ Known(spans, Invalid) /\ Invalid \in Nat /\ ~IsSpan(Invalid)
    BY <2>2, <2>3 DEF ContextBacked, Known, IsSpan, Invalid
  <2>5. trace \in Traces /\ base.decision.trace # trace
    <3>1. trace \in Traces /\ trace \notin Used /\ trace # 0
      BY DEF Fresh, Traces
    <3> QED BY <2>4, <3>1 DEF ContextBacked, Backed, TracesOf, Used
  <2>6. /\ st.span \in Span /\ st.context \in Context
        /\ ContextBacked(Append(spans, st.span), st.context) /\ SpansBacked(Append(spans, st.span))
    BY <2>2, <2>3, <2>4, <2>5, StartedBacked DEF ContextBacked
  <2>7. ctx' = [ctx EXCEPT ![p] = st.context] /\ spans' = Append(spans, st.span)
    BY <2>1 DEF Install
  <2> HIDE DEF st
  <2> QED BY <2>6, <2>7, PathGrows
<1> QED BY <1>1, <1>2

(* Another tracer's span.                                                  *)
LEMMA ForeignBacked ==
  ASSUME DecisionsInv, NEW p \in Paths, NEW trace \in Traces, NEW parent \in Nat, Known(spans, parent),
         spans' = Append(spans, ForeignSpan(trace, parent)), ctx' = [ctx EXCEPT ![p].ambient = Len(spans) + 1]
  PROVE  DecisionsInv'
<1> DEFINE id == Len(spans) + 1
           e == ForeignSpan(trace, parent)
           c == [ctx[p] EXCEPT !.ambient = id]
           next == Append(spans, e)
<1>1. e \in Span /\ e.parent = parent /\ ~e.sdk
  BY DEF ForeignSpan, Span, NoDecision, Decision, Invalid
<1> HIDE DEF e
<1>2. /\ DOMAIN next = DOMAIN spans \cup {id} /\ next[id] = e /\ id \in Nat
      /\ \A s \in DOMAIN spans : next[s] = spans[s]
  BY <1>1, Appended DEF DecisionsInv
<1>3. ctx[p] \in Context /\ ContextBacked(next, ctx[p])
  BY <1>1, ContextKept DEF DecisionsInv
<1> HIDE DEF next
<1>4. SpanBacked(next, id)
  BY <1>1, <1>2 DEF SpanBacked, Known, Firm
<1>5. SpansBacked(next)
  BY <1>1, <1>4, SpansKept DEF next, DecisionsInv
<1>6. /\ c \in Context /\ c.ambient = id /\ c.decision = ctx[p].decision /\ c.parent = ctx[p].parent
  BY <1>2, <1>3 DEF Context
<1> HIDE DEF c
<1>7. ContextBacked(next, c)
  BY <1>2, <1>3, <1>6 DEF ContextBacked, Known
<1>8. ctx' = [ctx EXCEPT ![p] = c]
  BY DEF c, DecisionsInv
<1> QED BY <1>1, <1>5, <1>6, <1>7, <1>8, PathGrows DEF next, e

LEMMA StepBacked == DecisionsInv /\ [PathNext]_pathVars => DecisionsInv'
<1> SUFFICES ASSUME DecisionsInv, [PathNext]_pathVars
             PROVE  DecisionsInv'
  OBVIOUS
<1>1. CASE UNCHANGED pathVars
  BY <1>1 DEF pathVars, DecisionsInv
<1>2. ASSUME NEW p \in Paths, StartObservation(p) \/ StartItemRoot(p)
      PROVE  DecisionsInv'
  BY <1>2, StartsBacked
<1>3. ASSUME NEW p \in Paths, StartForeign(p)
      PROVE  DecisionsInv'
  <2>1. ctx[p].ambient \in Nat /\ Known(spans, ctx[p].ambient)
    BY DEF DecisionsInv, Context, ContextBacked
  <2>2. PICK trace \in IF IsSpan(ctx[p].ambient) THEN {TraceOf(ctx[p].ambient)} ELSE Fresh :
          /\ spans' = Append(spans, ForeignSpan(trace, ctx[p].ambient))
          /\ ctx' = [ctx EXCEPT ![p].ambient = Len(spans) + 1]
    BY <1>3 DEF StartForeign
  <2>3. \A s \in DOMAIN spans : spans[s] \in Span
    BY DEF DecisionsInv
  <2>4. trace \in Traces
    BY <2>1, <2>3 DEF Known, IsSpan, TraceOf, Span, Fresh
  <2> QED BY <2>1, <2>2, <2>4, ForeignBacked
<1>4. ASSUME NEW p \in Paths, Extract(p)
      PROVE  DecisionsInv'
  <2>1. PICK trace \in Used : /\ spans' = Append(spans, ForeignSpan(trace, Invalid))
                              /\ ctx' = [ctx EXCEPT ![p].ambient = Len(spans) + 1]
    BY <1>4 DEF Extract
  <2>2. PICK s \in DOMAIN spans : trace = spans[s].trace
    BY DEF Used
  <2>3. spans[s] \in Span
    BY DEF DecisionsInv
  <2>4. trace \in Traces /\ Invalid \in Nat /\ Known(spans, Invalid)
    BY <2>2, <2>3 DEF Span, Known, Invalid
  <2> QED BY <2>1, <2>4, ForeignBacked
<1>5. ASSUME NEW p \in Paths, NEW rate \in Rates, WithSampleRate(p, rate)
      PROVE  DecisionsInv'
  <2> DEFINE c == [ctx[p] EXCEPT !.rate = rate]
  <2>1. ctx[p] \in Context /\ ContextBacked(spans, ctx[p])
    BY DEF DecisionsInv
  <2>2. /\ c \in Context /\ c.ambient = ctx[p].ambient /\ c.decision = ctx[p].decision
        /\ c.parent = ctx[p].parent
    BY <2>1 DEF Context
  <2>3. ctx' = [ctx EXCEPT ![p] = c] /\ spans' = spans
    BY <1>5 DEF WithSampleRate, DecisionsInv
  <2> HIDE DEF c
  <2>4. ContextBacked(spans, c)
    BY <2>1, <2>2 DEF ContextBacked
  <2> QED BY <2>2, <2>3, <2>4, ContextMoves
<1>6. ASSUME NEW p \in Paths, NEW s \in DOMAIN spans, WithParent(p, s)
      PROVE  DecisionsInv'
  <2> DEFINE c == [ctx[p] EXCEPT !.parent = s]
  <2>1. ctx[p] \in Context /\ ContextBacked(spans, ctx[p]) /\ s \in Nat /\ spans[s].sdk
    BY <1>6 DEF DecisionsInv, WithParent
  <2>2. c \in Context /\ c.ambient = ctx[p].ambient /\ c.decision = ctx[p].decision /\ c.parent = s
    BY <2>1 DEF Context
  <2>3. ctx' = [ctx EXCEPT ![p] = c] /\ spans' = spans
    BY <1>6 DEF WithParent, DecisionsInv
  <2> HIDE DEF c
  <2>4. ContextBacked(spans, c)
    BY <2>1, <2>2 DEF ContextBacked, Known
  <2> QED BY <2>2, <2>3, <2>4, ContextMoves
<1>7. ASSUME NEW p \in Paths, NEW s \in DOMAIN spans \cup {Invalid}, Activate(p, s)
      PROVE  DecisionsInv'
  <2> DEFINE c == [ctx[p] EXCEPT !.ambient = s]
  <2>1. ctx[p] \in Context /\ ContextBacked(spans, ctx[p]) /\ s \in Nat
    BY DEF DecisionsInv, Invalid
  <2>2. c \in Context /\ c.ambient = s /\ c.decision = ctx[p].decision /\ c.parent = ctx[p].parent
    BY <2>1 DEF Context
  <2>3. ctx' = [ctx EXCEPT ![p] = c] /\ spans' = spans
    BY <1>7 DEF Activate, DecisionsInv
  <2> HIDE DEF c
  <2>4. ContextBacked(spans, c)
    BY <2>1, <2>2 DEF ContextBacked, Known
  <2> QED BY <2>2, <2>3, <2>4, ContextMoves
<1>8. ASSUME NEW p \in Paths, NEW q \in Paths, Fork(p, q)
      PROVE  DecisionsInv'
  <2>1. ctx[p] \in Context /\ ContextBacked(spans, ctx[p])
    BY DEF DecisionsInv
  <2> QED BY <1>8, <2>1, ContextMoves DEF Fork
<1> QED BY <1>1, <1>2, <1>3, <1>4, <1>5, <1>6, <1>7, <1>8 DEF PathNext

(* The invariant holds on every behaviour: the contexts and spans are what  *)
(* context.go and observation.go make, and every authority is backed.      *)
THEOREM PathsBacked == PathSpec => []DecisionsInv
BY InitBacked, StepBacked, PTL DEF PathSpec

-----------------------------------------------------------------------------
(* A score is suppressed only when no observation of this client is sampled *)
(* from the ambient span to the root of its trace: suppressScore of          *)
(* sampler.go under every start, fork, parent override and foreign span.   *)
THEOREM SuppressionSound == PathSpec => []SuppressionIsSound
<1>1. DecisionsInv => SuppressionIsSound
  <2> SUFFICES ASSUME DecisionsInv, NEW p \in Paths, NEW trace \in Used, suppressScore(ctx[p], trace)
               PROVE  \E lineage \in SUBSET DOMAIN spans :
                        /\ ctx[p].ambient \in lineage
                        /\ \A s \in lineage : /\ spans[s].sdk /\ ~spans[s].sampled /\ spans[s].trace = trace
                                              /\ spans[s].parent \in lineage \cup {Invalid}
    BY DEF SuppressionIsSound
  <2> DEFINE lineage == {s \in DOMAIN spans : Firm(spans, s) /\ ~spans[s].sampled /\ spans[s].trace = trace}
  <2>1. Backed(spans, ctx[p].decision)
    BY DEF DecisionsInv, ContextBacked
  <2>2. ctx[p].ambient \in lineage
    BY <2>1 DEF suppressScore, Backed, Firm
  <2>3. ASSUME NEW s \in lineage
        PROVE  /\ spans[s].sdk /\ ~spans[s].sampled /\ spans[s].trace = trace
               /\ spans[s].parent \in lineage \cup {Invalid}
    <3>1. SpanBacked(spans, s)
      BY DEF DecisionsInv, SpansBacked
    <3> QED BY <3>1 DEF SpanBacked, Firm, Alike, Known, IsSpan
  <2> QED BY <2>2, <2>3
<1> QED BY <1>1, PathsBacked, PTL

(* What a start inherits never has more authority than the path had in the  *)
(* trace it starts in.                                                     *)
LEMMA LostStaysLost ==
  ASSUME DecisionsInv, NEW p \in Paths, HasLost(ctx[p]), StartObservation(p) \/ StartItemRoot(p),
         ctx'[p].decision.trace = ctx[p].decision.trace
  PROVE  ~ctx'[p].decision.authoritative
<1> DEFINE c == ctx[p]
           d == c.decision
           id == Len(spans) + 1
<1>1. c \in Context /\ ContextBacked(spans, c) /\ Backed(spans, d)
  BY DEF DecisionsInv, ContextBacked
<1>2. /\ d.trace \in Used \cup {0}
      /\ d.authoritative => c.ambient # d.lastSDKSpanID
      /\ d.authoritative => TraceOf(c.ambient) = d.trace
  BY <1>1 DEF HasLost, Backed, Firm, TracesOf, Used
<1>3. \A trace \in Fresh : trace # d.trace
  BY <1>2 DEF Fresh, Traces
<1>4. CASE StartItemRoot(p)
  <2> DEFINE base == [c EXCEPT !.parent = Invalid]
  <2>1. PICK trace \in Fresh : Install(p, Started(c, base, Invalid, trace, TRUE))
    BY <1>4 DEF StartItemRoot
  <2> DEFINE new == nextTraceDecision(base, Invalid, id, trace, TRUE)
  <2>2. ctx'[p].decision = new
    BY <1>1, <2>1 DEF Install, Started, DecisionsInv, Context
  <2>3. new.trace = trace
    BY DEF nextTraceDecision
  <2> QED BY <1>3, <2>2, <2>3
<1>5. CASE StartObservation(p)
  <2> DEFINE base == StartContext(c)
  <2>1. PICK trace \in IF IsSpan(base.ambient) THEN {TraceOf(base.ambient)} ELSE Fresh :
          Install(p, Started(c, base, base.ambient, trace, ShouldSample(base, trace)))
    BY <1>5 DEF StartObservation
  <2> DEFINE new == nextTraceDecision(base, base.ambient, id, trace, ShouldSample(base, trace))
  <2>2. base \in Context
    BY <1>1, StartContextBacked
  <2>3. ctx'[p].decision = new /\ new.trace = trace
    <3> HIDE DEF base
    <3> QED BY <2>1, <2>2 DEF Install, Started, DecisionsInv, Context, nextTraceDecision
  <2>4. trace = d.trace /\ IsSpan(base.ambient) /\ TraceOf(base.ambient) = trace
    BY <1>3, <2>1, <2>3
  <2>5. CASE ~IsSpan(c.parent)
    <3>1. base = c
      BY <2>5 DEF StartContext
    <3>2. new.authoritative <=> d.authoritative /\ Continues(c, c.ambient)
      BY <2>4, <3>1 DEF nextTraceDecision
    <3> QED BY <1>2, <2>3, <2>4, <3>1, <3>2 DEF Continues
  <2>6. CASE IsSpan(c.parent)
    <3> DEFINE over == overrideDecision(c)
               parents == spans[c.parent].decision
    <3>1. base = [c EXCEPT !.ambient = c.parent, !.decision = over, !.parent = Invalid]
      BY <2>6 DEF StartContext
    <3>2. base.decision = over /\ base.ambient = c.parent
      <4> HIDE DEF over
      <4> QED BY <1>1, <3>1 DEF Context
    <3>3. c.parent \in DOMAIN spans /\ parents.trace = TraceOf(c.parent) /\ parents \in Decision
      <4>1. c.parent \in DOMAIN spans /\ spans[c.parent].sdk
        BY <1>1, <2>6 DEF ContextBacked, Known, IsSpan
      <4>2. SpanBacked(spans, c.parent) /\ spans[c.parent] \in Span
        BY <4>1 DEF DecisionsInv, SpansBacked
      <4>3. parents.trace = spans[c.parent].trace /\ parents \in Decision
        BY <4>1, <4>2 DEF SpanBacked, Span
      <4> QED BY <2>6, <4>1, <4>3 DEF TraceOf
    <3>4. parents.trace = d.trace
      BY <2>4, <3>2, <3>3
    <3>5. over.trace = d.trace /\ ~over.authoritative
      <4> DEFINE foreign == TraceOf(c.ambient) = parents.trace
                             /\ ~(d.trace = parents.trace /\ d.lastSDKSpanID = c.ambient)
                 authority == parents.authoritative /\ (d.trace = parents.trace => d.authoritative) /\ ~foreign
      <4>1. over = [parents EXCEPT !.authoritative = authority]
        BY DEF overrideDecision
      <4>2. ~authority
        BY <1>2, <3>4 DEF TraceOf
      <4> HIDE DEF authority
      <4> QED BY <3>3, <3>4, <4>1, <4>2 DEF Decision
    <3>6. new.authoritative <=> over.authoritative /\ Continues(base, base.ambient)
      BY <2>4, <3>2, <3>5 DEF nextTraceDecision
    <3> QED BY <2>3, <3>5, <3>6
  <2> QED BY <2>5, <2>6
<1> QED BY <1>4, <1>5

(* Authority that a path has lost in its trace, or loses by the foreign span *)
(* it is under, is not back in what it starts there: nextTraceDecision of    *)
(* sampler.go and overrideDecision of observation.go together.              *)
THEOREM LostAuthorityStaysLost == PathSpec => AuthorityStaysLost
<1> DEFINE Holds ==
      spans' # spans /\ spans'[Len(spans')].sdk =>
        \A p \in Paths : /\ ctx'[p] # ctx[p] /\ ctx[p].decision # NoDecision /\ HasLost(ctx[p])
                         /\ ctx'[p].decision.trace = ctx[p].decision.trace
                         => ~ctx'[p].decision.authoritative
<1>1. DecisionsInv /\ PathNext => Holds
  <2> SUFFICES ASSUME DecisionsInv, PathNext, spans' # spans, spans'[Len(spans')].sdk,
                      NEW p \in Paths, ctx'[p] # ctx[p], HasLost(ctx[p]),
                      ctx'[p].decision.trace = ctx[p].decision.trace
               PROVE  ~ctx'[p].decision.authoritative
    OBVIOUS
  <2>1. PICK q \in Paths : StartObservation(q) \/ StartItemRoot(q) \/ StartForeign(q) \/ Extract(q)
    BY DEF PathNext, WithSampleRate, WithParent, Activate, Fork
  <2>2. ~StartForeign(q) /\ ~Extract(q)
    <3>1. \A trace, parent : spans' # Append(spans, ForeignSpan(trace, parent))
      <4> SUFFICES ASSUME NEW trace, NEW parent, spans' = Append(spans, ForeignSpan(trace, parent))
                   PROVE  FALSE
        OBVIOUS
      <4>1. Len(spans) \in Nat /\ Len(spans') = Len(spans) + 1
        BY DEF DecisionsInv
      <4>2. spans'[Len(spans')] = ForeignSpan(trace, parent)
        BY <4>1 DEF DecisionsInv
      <4> QED BY <4>2 DEF ForeignSpan
    <3> QED BY <3>1 DEF StartForeign, Extract
  <2>3. StartObservation(q) \/ StartItemRoot(q)
    BY <2>1, <2>2
  <2>4. q = p
    <3>1. ctx \in [Paths -> Context] /\ \E c : ctx' = [ctx EXCEPT ![q] = c]
      BY <2>3 DEF DecisionsInv, StartObservation, StartItemRoot, Install
    <3> QED BY <3>1
  <2> QED BY <2>3, <2>4, LostStaysLost
<1>2. DecisionsInv /\ [PathNext]_pathVars => [Holds]_pathVars
  BY <1>1
<1> QED BY <1>2, PathsBacked, PTL DEF PathSpec, AuthorityStaysLost

-----------------------------------------------------------------------------
(* The members in their order: what is first of a set is no more than its  *)
(* number, and of the set.                                                 *)

Names == Fields \cup {Claim}

LEMMA PriorityOrders ==
  /\ DOMAIN Priority = 1..Len(Priority) /\ Len(Priority) \in Nat
  /\ \A i, j \in DOMAIN Priority : Priority[i] = Priority[j] => i = j
  /\ \A m \in Names : \E i \in DOMAIN Priority : Priority[i] = m
<1>1. PICK n \in Nat : n = Len(Scalars) /\ DOMAIN Scalars = 1..n
  BY NamesAssumption
<1>2. PICK k \in Nat : k = Len(Keys) /\ DOMAIN Keys = 1..k
  BY NamesAssumption
<1>3. PICK s : s = <<Claim>> \o Scalars
  OBVIOUS
<1>4. /\ s \in Seq(Names) /\ Len(s) = n + 1 /\ DOMAIN s = 1..(n + 1)
      /\ s[1] = Claim /\ \A i \in 1..n : s[i + 1] = Scalars[i]
  BY <1>1, <1>3, NamesAssumption DEF Names, Fields
<1>5. /\ Len(Priority) = n + 1 + k /\ DOMAIN Priority = 1..(n + 1 + k)
      /\ \A i \in 1..(n + 1) : Priority[i] = s[i]
      /\ \A i \in 1..k : Priority[n + 1 + i] = Keys[i]
  <2>1. Keys \in Seq(Names)
    BY NamesAssumption DEF Names, Fields
  <2>2. Priority = s \o Keys
    BY <1>3 DEF Priority
  <2>3. Len(Keys) = k /\ Len(s) = n + 1
    BY <1>2, <1>4, NamesAssumption
  <2>4. Len(s \o Keys) = n + 1 + k /\ DOMAIN (s \o Keys) = 1..(n + 1 + k)
    BY <1>4, <2>1, <2>3, SMTT(30)
  <2>5. \A i \in 1..(n + 1) : (s \o Keys)[i] = s[i]
    BY <1>4, <2>1, <2>3
  <2>6. \A i \in 1..k : (s \o Keys)[n + 1 + i] = Keys[i]
    BY <1>4, <2>1, <2>3
  <2> QED BY <2>2, <2>4, <2>5, <2>6
<1>6. ASSUME NEW i \in 1..(n + 1 + k)
      PROVE  \/ i = 1 /\ Priority[i] = Claim
             \/ i - 1 \in 1..n /\ Priority[i] = Scalars[i - 1]
             \/ i - n - 1 \in 1..k /\ Priority[i] = Keys[i - n - 1]
  <2>1. CASE i = 1
    BY <1>4, <1>5, <2>1
  <2>2. CASE i > 1 /\ i <= n + 1
    <3>1. PICK j \in 1..n : i = j + 1
      BY <2>2
    <3> QED BY <1>4, <1>5, <2>2, <3>1
  <2>3. CASE i > n + 1
    <3>1. PICK j \in 1..k : i = n + 1 + j
      BY <2>3
    <3> QED BY <1>5, <3>1
  <2> QED BY <2>1, <2>2, <2>3
<1>7. ASSUME NEW i \in 1..(n + 1 + k), NEW j \in 1..(n + 1 + k), Priority[i] = Priority[j]
      PROVE  i = j
  <2>1. \A m : (m \in ScalarSet => m \notin KeySet) /\ (m \in Fields => m # Claim)
    BY NamesAssumption
  <2>2. /\ \A m \in 1..n : Scalars[m] \in ScalarSet
        /\ \A m \in 1..k : Keys[m] \in KeySet
    BY <1>1, <1>2 DEF ScalarSet, KeySet
  <2>3. (i = 1 <=> j = 1) /\ (i - 1 \in 1..n <=> j - 1 \in 1..n)
    BY <1>6, <1>7, <2>1, <2>2 DEF Fields
  <2>4. CASE i = 1
    BY <2>3, <2>4
  <2>5. CASE i - 1 \in 1..n
    <3>1. Scalars[i - 1] = Scalars[j - 1] /\ j - 1 \in 1..n
      BY <1>6, <1>7, <2>1, <2>2, <2>3, <2>5 DEF Fields
    <3>2. i - 1 = j - 1
      BY <1>1, <2>5, <3>1, NamesAssumption DEF Unrepeated
    <3> QED BY <3>2
  <2>6. CASE i # 1 /\ i - 1 \notin 1..n
    <3>1. Keys[i - n - 1] = Keys[j - n - 1] /\ i - n - 1 \in 1..k /\ j - n - 1 \in 1..k
      BY <1>6, <1>7, <2>3, <2>6
    <3>2. i - n - 1 = j - n - 1
      BY <1>2, <3>1, NamesAssumption DEF Unrepeated
    <3> QED BY <3>2
  <2> QED BY <2>4, <2>5, <2>6
<1>8. ASSUME NEW m \in Names
      PROVE  \E i \in DOMAIN Priority : Priority[i] = m
  <2>1. CASE m = Claim
    BY <1>4, <1>5, <2>1
  <2>2. CASE m \in ScalarSet
    <3>1. PICK i \in 1..n : Scalars[i] = m
      BY <1>1, <2>2 DEF ScalarSet
    <3>2. i + 1 \in 1..(n + 1) /\ i + 1 \in 1..(n + 1 + k) /\ Priority[i + 1] = m
      BY <1>4, <1>5, <3>1
    <3> QED BY <1>5, <3>2
  <2>3. CASE m \in KeySet
    <3>1. PICK i \in 1..k : Keys[i] = m
      BY <1>2, <2>3 DEF KeySet
    <3>2. n + 1 + i \in 1..(n + 1 + k) /\ Priority[n + 1 + i] = m
      BY <1>5, <3>1
    <3> QED BY <1>5, <3>2
  <2> QED BY <2>1, <2>2, <2>3 DEF Names, Fields
<1> QED BY <1>5, <1>7, <1>8

LEMMA BeforeOrders ==
  /\ \A m, n \in Names : m # n => Before(m, n) \/ Before(n, m)
  /\ \A m : ~Before(m, m)
  /\ \A m, n, k : Before(m, n) /\ Before(n, k) => Before(m, k)
<1> DEFINE At(i, m) == i \in DOMAIN Priority /\ Priority[i] = m
<1>1. \A m \in Names : \E i \in Int : At(i, m)
  BY PriorityOrders
<1>2. \A i, j, m : At(i, m) /\ At(j, m) => i = j /\ i \in Int
  BY PriorityOrders
<1>3. \A m, n : Before(m, n) <=> \E i, j \in Int : At(i, m) /\ At(j, n) /\ i < j
  BY PriorityOrders DEF Before
<1> HIDE DEF At
<1>4. \A m, n : At(m, n) => m \in Int
  BY <1>2
<1>5. ASSUME NEW m \in Names, NEW n \in Names, m # n
      PROVE  Before(m, n) \/ Before(n, m)
  <2>1. PICK i \in Int, j \in Int : At(i, m) /\ At(j, n)
    BY <1>1
  <2>2. i # j
    BY <1>5, <2>1 DEF At
  <2> QED BY <1>3, <2>1, <2>2
<1>6. \A m : ~Before(m, m)
  BY <1>2, <1>3
<1>7. \A m, n, k : Before(m, n) /\ Before(n, k) => Before(m, k)
  BY <1>2, <1>3
<1> QED BY <1>5, <1>6, <1>7

LEMMA NamesFinite == ASSUME NEW S \in SUBSET Names PROVE IsFiniteSet(S)
<1>1. PICK n \in Nat : DOMAIN Priority = 1..n
  BY PriorityOrders
<1>2. IsFiniteSet(1..n)
  BY FS_Interval
<1> DEFINE f == [m \in Names |-> CHOOSE i \in 1..n : Priority[i] = m]
<1>3. \A m \in Names : f[m] \in 1..n /\ Priority[f[m]] = m
  BY <1>1, PriorityOrders
<1>4. f \in Injection(Names, 1..n)
  BY <1>3 DEF Injection, IsInjective
<1>5. IsFiniteSet(Names)
  BY <1>2, <1>4, FS_Injection
<1> QED BY <1>5, FS_Subset

LEMMA TheFirstFew ==
  ASSUME NEW S \in SUBSET Names, NEW n \in Int, n >= 0
  PROVE  TheFirst(n, S) \subseteq S /\ Cardinality(TheFirst(n, S)) <= n
<1> DEFINE Lower(m) == {k \in S : Before(k, m)}
           f == [m \in TheFirst(n, S) |-> Cardinality(Lower(m))]
<1>1. TheFirst(n, S) = {m \in S : Cardinality(Lower(m)) < n}
  BY DEF TheFirst
<1>2. ASSUME NEW m \in S
      PROVE  IsFiniteSet(Lower(m)) /\ Cardinality(Lower(m)) \in Nat
  BY NamesFinite, FS_CardinalityType
<1>3. ASSUME NEW m \in S, NEW k \in S, Before(m, k)
      PROVE  Cardinality(Lower(m)) < Cardinality(Lower(k))
  <2>1. m \notin Lower(m) /\ Lower(m) \cup {m} \in SUBSET Lower(k)
    BY <1>3, BeforeOrders
  <2>2. Cardinality(Lower(m) \cup {m}) = Cardinality(Lower(m)) + 1
    BY <1>2, <2>1, FS_AddElement
  <2>3. Cardinality(Lower(m) \cup {m}) <= Cardinality(Lower(k))
    BY <1>2, <2>1, FS_Subset
  <2> HIDE DEF Lower
  <2> QED BY <1>2, <2>2, <2>3
<1>4. f \in Injection(TheFirst(n, S), 0..(n - 1))
  <2>1. \A m \in TheFirst(n, S) : f[m] = Cardinality(Lower(m)) /\ f[m] \in 0..(n - 1) /\ m \in S
    <3>1. ASSUME NEW m \in TheFirst(n, S)
          PROVE  m \in S /\ Cardinality(Lower(m)) \in 0..(n - 1)
      <4>1. m \in S /\ Cardinality(Lower(m)) < n
        BY <1>1
      <4>2. PICK c \in Nat : c = Cardinality(Lower(m))
        BY <1>2, <4>1
      <4> QED BY <4>1, <4>2
    <3> QED BY <3>1
  <2>2. ASSUME NEW m \in TheFirst(n, S), NEW k \in TheFirst(n, S), f[m] = f[k]
        PROVE  m = k
    <3>1. m # k => Before(m, k) \/ Before(k, m)
      BY <2>1, BeforeOrders
    <3>2. f[m] \in Int
      BY <2>1
    <3> HIDE DEF f, Lower
    <3>3. Before(m, k) => f[m] < f[k]
      BY <1>3, <2>1
    <3>4. Before(k, m) => f[k] < f[m]
      BY <1>3, <2>1
    <3> QED BY <2>2, <3>1, <3>2, <3>3, <3>4
  <2> QED BY <2>1, <2>2 DEF Injection, IsInjective
<1>5. IsFiniteSet(0..(n - 1)) /\ Cardinality(0..(n - 1)) = n
  BY FS_Interval
<1> HIDE DEF f
<1>6. Cardinality(TheFirst(n, S)) <= n
  BY <1>4, <1>5, FS_Injection
<1> QED BY <1>1, <1>6

-----------------------------------------------------------------------------
(* The context path.                                                       *)

Texts == Values \cup {None} \cup Nat \cup UNION {{m.members[f] : f \in DOMAIN m.members} : m \in Messages}
AllNames == Names \cup UNION {DOMAIN m.members : m \in Messages}
Namespaces == UNION {[D -> Texts] : D \in SUBSET AllNames}
ClaimType == [id : Nat, imported : BOOLEAN]
PathType ==
  [value : [Fields -> Texts], accepted : SUBSET Fields, wire : SUBSET KeySet, claim : ClaimType,
   marked : BOOLEAN, ambient : Nat, members : Namespaces, foreign : Nat]

\* The members are as the state makes them.
Synced(c) == c.foreign <= MaxMembers /\ c.members = wireBaggageMembers(c)
Attributed(f) ==
  /\ locals[f] # None => path.value[f] = locals[f] /\ f \notin path.accepted
  /\ locals[f] = None => (path.value[f] # None <=> f \in path.accepted)
  /\ f \in path.accepted =>
       \E g \in DOMAIN imported \cap Fields : Target(g) = f /\ imported[g] = path.value[f]
BaggageInv ==
  /\ path \in PathType /\ locals \in [Fields -> Values \cup {None}] /\ synced \in BOOLEAN
  /\ \A f \in Fields : Attributed(f)
  /\ synced => Synced(path)

LEMMA NothingNamed == <<>> \in Namespaces /\ DOMAIN <<>> = {}
<1>1. <<>> \in [{} -> Texts]
  OBVIOUS
<1> QED BY <1>1 DEF Namespaces

LEMMA MessagesTyped == ASSUME NEW m \in Messages PROVE m.members \in Namespaces /\ m.foreign \in Nat /\ m.trace \in Nat
<1>1. PICK g : g = m.members
  OBVIOUS
<1>2. g = [f \in DOMAIN g |-> g[f]]
  BY <1>1, MessagesAssumption
<1>3. \A f \in DOMAIN g : g[f] \in Texts
  BY <1>1 DEF Texts
<1>4. DOMAIN g \in SUBSET AllNames
  BY <1>1 DEF AllNames
<1>5. g \in [DOMAIN g -> Texts]
  BY <1>2, <1>3
<1>6. g \in Namespaces
  BY <1>4, <1>5 DEF Namespaces
<1> QED BY <1>1, <1>6, MessagesAssumption

\* What the client writes is a namespace, and settled by the state alone.
LEMMA MembersTyped == ASSUME NEW c \in PathType PROVE wireBaggageMembers(c) \in Namespaces /\ KeptForeign(c) \in 0..MaxMembers
<1>1. PICK n \in Int : n = MaxMembers - KeptForeign(c) /\ n >= 0 /\ KeptForeign(c) \in 0..MaxMembers
  BY BoundsAssumption DEF PathType, KeptForeign
<1>2. TheFirst(n, Candidates(c)) \in SUBSET Names
  BY DEF TheFirst, Candidates, Names
<1>3. \A m \in Names : (IF m = Claim THEN c.claim.id ELSE c.value[m]) \in Texts
  BY DEF Names, PathType, ClaimType, Texts
<1>4. PICK D \in SUBSET Names : D = TheFirst(n, Candidates(c))
  BY <1>2
<1>5. [m \in D |-> IF m = Claim THEN c.claim.id ELSE c.value[m]] \in [D -> Texts]
  BY <1>3, <1>4
<1>6. D \in SUBSET AllNames
  BY <1>4 DEF AllNames
<1>7. [m \in D |-> IF m = Claim THEN c.claim.id ELSE c.value[m]] \in Namespaces
  BY <1>5, <1>6 DEF Namespaces
<1> QED BY <1>1, <1>4, <1>7, NothingNamed DEF wireBaggageMembers

LEMMA SyncKeeps ==
  ASSUME NEW c \in PathType, NEW force \in BOOLEAN, NEW d, d = syncBaggage(c, force)
  PROVE  /\ d \in PathType /\ d.value = c.value /\ d.accepted = c.accepted /\ d.marked = c.marked
         /\ (force \/ c.marked => Synced(d)) /\ (~force /\ ~c.marked => d = c)
<1>1. CASE ~force /\ ~c.marked
  BY <1>1 DEF syncBaggage, PathType
<1>2. CASE force \/ c.marked
  <2>1. PICK m \in Namespaces : m = wireBaggageMembers(c)
    BY MembersTyped
  <2>2. PICK k \in Nat : k = KeptForeign(c) /\ k <= MaxMembers
    BY MembersTyped, BoundsAssumption
  <2>3. d = [c EXCEPT !.foreign = k, !.members = m]
    BY <1>2, <2>1, <2>2 DEF syncBaggage, PathType
  <2>4. /\ d \in PathType /\ d.value = c.value /\ d.accepted = c.accepted /\ d.marked = c.marked
        /\ d.wire = c.wire /\ d.claim = c.claim /\ d.ambient = c.ambient /\ d.foreign = k /\ d.members = m
    BY <2>3 DEF PathType
  <2>5. KeptForeign(d) = KeptForeign(c) /\ Candidates(d) = Candidates(c)
    BY <2>2, <2>4, BoundsAssumption DEF KeptForeign, Candidates, Carried
  <2>6. wireBaggageMembers(d) = wireBaggageMembers(c)
    BY <2>4, <2>5 DEF wireBaggageMembers
  <2> QED BY <1>2, <2>1, <2>2, <2>4, <2>6 DEF Synced
<1> QED BY <1>1, <1>2

\* A path without a mark carries nothing, whatever its attributes.
LEMMA Unmarked ==
  ASSUME NEW c \in PathType, NEW d, ~c.marked, ~d.marked, Synced(c), d.members = c.members, d.foreign = c.foreign
  PROVE  Synced(d)
BY DEF Synced, wireBaggageMembers

(* Local attributes. *)
LEMMA TargetTyped == ASSUME NEW f \in Fields PROVE Target(f) \in Fields /\ (Target(f) \in KeySet <=> f \in KeySet)
BY NamesAssumption DEF Target, Fields

LEMMA MergeTyped ==
  ASSUME NEW c \in PathType, NEW f \in Fields, NEW v \in Values, NEW d, d = merge(c, f, v)
  PROVE  /\ d \in PathType /\ d.marked = c.marked /\ d.members = c.members /\ d.foreign = c.foreign
         /\ d.value = [c.value EXCEPT ![Target(f)] = v] /\ d.accepted = c.accepted \ {Target(f)}
<1>1. PICK t \in Fields : t = Target(f) /\ (t \in KeySet <=> f \in KeySet)
  BY TargetTyped
<1>2. PICK w \in SUBSET KeySet : w = IF f \notin KeySet THEN c.wire
                                     ELSE IF t \in Structured THEN c.wire \ {t} ELSE c.wire \cup {t}
  BY <1>1 DEF PathType
<1>3. PICK a \in SUBSET Fields : a = c.accepted \ {t}
  BY DEF PathType
<1>4. PICK x \in [Fields -> Texts] : x = [c.value EXCEPT ![t] = v]
  BY DEF PathType, Texts
<1>5. d = [c EXCEPT !.value = x, !.accepted = a, !.wire = w]
  BY <1>1, <1>2, <1>3, <1>4 DEF merge, PathType
<1>6. d \in PathType /\ d.marked = c.marked /\ d.members = c.members /\ d.foreign = c.foreign /\ d.value = x /\ d.accepted = a
  BY <1>5 DEF PathType
<1> QED BY <1>1, <1>3, <1>4, <1>6

LEMMA LocalKeeps ==
  ASSUME BaggageInv, NEW f \in Fields, NEW v \in Values, WithTraceAttributes(f, v)
  PROVE  BaggageInv'
<1>1. PICK m : m = merge(path, f, v)
  OBVIOUS
<1>2. PICK t \in Fields : t = Target(f)
  BY TargetTyped
<1>3. /\ m \in PathType /\ m.marked = path.marked /\ m.members = path.members /\ m.foreign = path.foreign
      /\ m.value = [path.value EXCEPT ![t] = v] /\ m.accepted = path.accepted \ {t}
  BY <1>1, <1>2, MergeTyped DEF BaggageInv
<1>4. path' = syncBaggage(m, FALSE) /\ locals' = [locals EXCEPT ![t] = v] /\ imported' = imported
      /\ synced' = (synced \/ path.marked)
  BY <1>1, <1>2 DEF WithTraceAttributes
<1>5. /\ path' \in PathType /\ path'.value = m.value /\ path'.accepted = m.accepted /\ path'.marked = m.marked
      /\ (m.marked => Synced(path')) /\ (~m.marked => path' = m)
  BY <1>3, <1>4, SyncKeeps
<1>6. locals' \in [Fields -> Values \cup {None}] /\ synced' \in BOOLEAN
  BY <1>4 DEF BaggageInv, PathType
<1>7. ASSUME NEW g \in Fields
      PROVE  Attributed(g)'
  <2>1. CASE g = t
    <3>1. locals'[g] = v /\ path'.value[g] = v /\ g \notin path'.accepted /\ v # None
      BY <1>3, <1>4, <1>5, <2>1, NamesAssumption DEF BaggageInv, PathType
    <3> QED BY <3>1 DEF Attributed
  <2>2. CASE g # t
    <3>1. locals'[g] = locals[g] /\ path'.value[g] = path.value[g] /\ (g \in path'.accepted <=> g \in path.accepted)
      BY <1>3, <1>4, <1>5, <2>2 DEF BaggageInv, PathType
    <3>2. Attributed(g)
      BY DEF BaggageInv
    <3> QED BY <1>4, <3>1, <3>2 DEF Attributed, Target
  <2> QED BY <2>1, <2>2
<1>8. synced' => Synced(path)'
  <2>1. CASE m.marked
    BY <1>5, <2>1 DEF Synced, wireBaggageMembers, KeptForeign, Candidates, Carried
  <2>2. CASE ~m.marked
    <3>1. synced' => Synced(path)
      BY <1>3, <1>4, <2>2 DEF BaggageInv
    <3>2. synced' => Synced(m)
      BY <1>3, <2>2, <3>1, Unmarked DEF BaggageInv
    <3> QED BY <1>5, <2>2, <3>2 DEF Synced, wireBaggageMembers, KeptForeign, Candidates, Carried
  <2> QED BY <2>1, <2>2
<1> QED BY <1>5, <1>6, <1>7, <1>8 DEF BaggageInv

(* Importing. *)

\* A key that is installed has a source among the accepted members.
LEMMA SourceFound ==
  ASSUME NEW c \in PathType, NEW ns \in Namespaces, NEW k \in KeySet, Installs(c, k, ns)
  PROVE  /\ Source(c, k, ns) \in KeySet /\ Remap[Source(c, k, ns)] = k
         /\ Accepts(c, Source(c, k, ns), ns)
<1>1. k \in Masked(c, ns)
  BY DEF Installs, Normalized, TheFirst
<1>2. \E j \in KeySet : Accepts(c, j, ns) /\ Remap[j] = k
  BY <1>1 DEF Masked
<1> QED BY <1>2 DEF Source

LEMMA NamespaceValues ==
  ASSUME NEW ns \in Namespaces
  PROVE  \A f \in DOMAIN ns : ns[f] \in Texts
BY DEF Namespaces

LEMMA ScalarTyped ==
  ASSUME NEW c \in PathType, NEW ns \in Namespaces, NEW f \in ScalarSet
  PROVE  ImportedScalar(c, f, ns) \in Texts
<1>1. f \in DOMAIN ns => ns[f] \in Texts
  BY NamespaceValues
<1>2. c.value[f] \in Texts /\ None \in Texts
  BY DEF PathType, Fields, Texts
<1> QED BY <1>1, <1>2 DEF ImportedScalar, Accepts

LEMMA KeyTyped ==
  ASSUME NEW c \in PathType, NEW ns \in Namespaces, NEW k \in KeySet
  PROVE  ImportedKey(c, k, ns) \in Texts
<1>1. Installs(c, k, ns) => Source(c, k, ns) \in DOMAIN ns
  BY SourceFound DEF Accepts
<1>2. Installs(c, k, ns) => ns[Source(c, k, ns)] \in Texts
  BY <1>1, NamespaceValues
<1>3. c.value[k] \in Texts /\ None \in Texts
  BY DEF PathType, Fields, Texts
<1> QED BY <1>2, <1>3 DEF ImportedKey

\* What an import makes of a path that got a namespace.
Imports(c, d, ns) ==
  /\ \A f \in ScalarSet : d.value[f] = ImportedScalar(c, f, ns)
  /\ \A k \in KeySet : d.value[k] = ImportedKey(c, k, ns)
  /\ \A f \in ScalarSet : f \in d.accepted <=> Accepts(c, f, ns) \/ (f \in c.accepted /\ ~Retires(c, f, ns))
  /\ \A k \in KeySet : k \in d.accepted <=> Installs(c, k, ns)

LEMMA ImportTyped ==
  ASSUME NEW c \in PathType, NEW d, d = Imported(c)
  PROVE  /\ d \in PathType /\ (DOMAIN c.members = {} => d = c)
         /\ (DOMAIN c.members # {} => Imports(c, d, c.members))
<1>1. PICK ns \in Namespaces : ns = c.members
  BY DEF PathType
<1>2. CASE DOMAIN ns = {}
  BY <1>1, <1>2 DEF Imported
<1>3. CASE DOMAIN ns # {}
  <2>1. PICK installed \in SUBSET KeySet : installed = {k \in KeySet : Installs(c, k, ns)}
    OBVIOUS
  <2>2. PICK value \in [Fields -> Texts] :
          value = [f \in Fields |-> IF f \in ScalarSet THEN ImportedScalar(c, f, ns) ELSE ImportedKey(c, f, ns)]
    <3>1. \A f \in Fields : (IF f \in ScalarSet THEN ImportedScalar(c, f, ns) ELSE ImportedKey(c, f, ns)) \in Texts
      BY ScalarTyped, KeyTyped DEF Fields
    <3> QED BY <3>1
  <2>3. PICK accepted \in SUBSET Fields :
          accepted = {f \in ScalarSet : Accepts(c, f, ns)} \cup installed
                     \cup {f \in c.accepted \cap ScalarSet : ~Retires(c, f, ns)}
    BY DEF Fields
  <2>4. PICK wire \in SUBSET KeySet : wire = ((c.wire \ c.accepted) \cup installed) \ (Structured \cap installed)
    BY DEF PathType
  <2>5. PICK claim \in ClaimType : claim = ImportedClaim(c, ns)
    BY DEF PathType, ClaimType, ImportedClaim, NoClaim
  <2>6. d = [c EXCEPT !.value = value, !.accepted = accepted, !.wire = wire, !.claim = claim]
    BY <1>1, <1>3, <2>1, <2>2, <2>3, <2>4, <2>5 DEF Imported, PathType
  <2>7. d \in PathType /\ d.value = value /\ d.accepted = accepted
    BY <2>6 DEF PathType
  <2>8. Imports(c, d, ns)
    <3>1. \A f \in ScalarSet : f \in Fields /\ f \notin KeySet
      BY NamesAssumption DEF Fields
    <3>2. \A k \in KeySet : k \in Fields /\ k \notin ScalarSet
      BY NamesAssumption DEF Fields
    <3>3. \A f \in ScalarSet : d.value[f] = ImportedScalar(c, f, ns)
      BY <2>2, <2>7, <3>1
    <3>4. \A k \in KeySet : d.value[k] = ImportedKey(c, k, ns)
      BY <2>2, <2>7, <3>2
    <3>5. \A f \in ScalarSet : f \in d.accepted <=> Accepts(c, f, ns) \/ (f \in c.accepted /\ ~Retires(c, f, ns))
      BY <2>1, <2>3, <2>7, <3>1
    <3>6. \A k \in KeySet : k \in d.accepted <=> Installs(c, k, ns)
      BY <2>1, <2>3, <2>7, <3>2
    <3> QED BY <3>3, <3>4, <3>5, <3>6 DEF Imports
  <2> QED BY <1>1, <1>3, <2>7, <2>8
<1> QED BY <1>2, <1>3

\* An imported attribute was free, or of an earlier message.
LEMMA ImportAttributes ==
  ASSUME BaggageInv, NEW d \in PathType, Imports(path, d, path.members), NEW f \in Fields
  PROVE  /\ locals[f] # None => d.value[f] = locals[f] /\ f \notin d.accepted
         /\ locals[f] = None => (d.value[f] # None <=> f \in d.accepted)
         /\ f \in d.accepted =>
              \E g \in DOMAIN path.members \cap Fields : Target(g) = f /\ path.members[g] = d.value[f]
<1> DEFINE ns == path.members
<1>1. Attributed(f) /\ path \in PathType
  BY DEF BaggageInv
<1>2. CASE f \in ScalarSet
  <2>1. /\ d.value[f] = ImportedScalar(path, f, ns)
        /\ f \in d.accepted <=> Accepts(path, f, ns) \/ (f \in path.accepted /\ ~Retires(path, f, ns))
    BY <1>2 DEF Imports
  <2>2. Target(f) = f
    BY <1>2, NamesAssumption DEF Target
  <2>3. CASE Accepts(path, f, ns)
    <3>1. d.value[f] = ns[f] /\ f \in d.accepted /\ f \in DOMAIN ns /\ ns[f] # None
      BY <2>1, <2>3 DEF ImportedScalar, Accepts, wireBaggageValue
    <3>2. locals[f] = None
      BY <1>1, <2>3 DEF Accepts, Replaceable, Attributed
    <3> QED BY <2>2, <3>1, <3>2
  <2>4. CASE ~Accepts(path, f, ns) /\ Retires(path, f, ns)
    <3>1. d.value[f] = None /\ f \notin d.accepted
      BY <2>1, <2>4 DEF ImportedScalar
    <3>2. locals[f] = None
      BY <1>1, <2>4 DEF Retires, Attributed
    <3> QED BY <3>1, <3>2
  <2>5. CASE ~Accepts(path, f, ns) /\ ~Retires(path, f, ns)
    <3>1. d.value[f] = path.value[f] /\ (f \in d.accepted <=> f \in path.accepted)
      BY <2>1, <2>5 DEF ImportedScalar
    <3>2. f \notin path.accepted
      BY <2>5 DEF Accepts, Retires, Replaceable
    <3> QED BY <1>1, <3>1, <3>2 DEF Attributed
  <2> QED BY <2>3, <2>4, <2>5
<1>3. CASE f \in KeySet
  <2>1. /\ d.value[f] = ImportedKey(path, f, ns)
        /\ f \in d.accepted <=> Installs(path, f, ns)
    BY <1>3 DEF Imports
  <2>2. f \in LocalKeys(path) <=> path.value[f] # None /\ f \notin path.accepted
    BY <1>3 DEF LocalKeys, Held
  <2>3. CASE Installs(path, f, ns)
    <3>1. PICK g \in KeySet : /\ g = Source(path, f, ns) /\ Remap[g] = f /\ Accepts(path, g, ns)
      BY <1>1, <1>3, <2>3, SourceFound DEF PathType
    <3>2. d.value[f] = ns[g] /\ f \in d.accepted /\ g \in DOMAIN ns /\ ns[g] # None /\ Target(g) = f /\ g \in Fields
      BY <2>1, <2>3, <3>1 DEF ImportedKey, Accepts, wireBaggageValue, Target, Fields
    <3>3. locals[f] = None
      BY <1>1, <2>2, <2>3 DEF Installs, Attributed
    <3> QED BY <3>2, <3>3
  <2>4. CASE ~Installs(path, f, ns) /\ f \in path.accepted
    <3>1. d.value[f] = None /\ f \notin d.accepted
      BY <2>1, <2>4 DEF ImportedKey
    <3> QED BY <1>1, <2>4, <3>1 DEF Attributed
  <2>5. CASE ~Installs(path, f, ns) /\ f \notin path.accepted
    <3>1. d.value[f] = path.value[f] /\ f \notin d.accepted
      BY <2>1, <2>5 DEF ImportedKey
    <3> QED BY <1>1, <2>5, <3>1 DEF Attributed
  <2> QED BY <2>3, <2>4, <2>5
<1> QED BY <1>2, <1>3 DEF Fields

\* A step that leaves the attributes alone, or is an import, and writes the
\* baggage on a path that has the mark.
LEMMA ImportKeeps == ASSUME BaggageInv, WithTraceAttributesFromBaggage PROVE BaggageInv'
<1>1. PICK d : d = Imported(path)
  OBVIOUS
<1>2. /\ d \in PathType /\ (DOMAIN path.members = {} => d = path)
      /\ (DOMAIN path.members # {} => Imports(path, d, path.members))
  BY <1>1, ImportTyped DEF BaggageInv
<1>3. PICK t \in BOOLEAN : t = TRUE
  OBVIOUS
<1>4. /\ path' = syncBaggage(d, t) /\ locals' = locals /\ synced' = TRUE
      /\ imported' = IF DOMAIN path.members = {} THEN imported ELSE path.members
  BY <1>1, <1>3 DEF WithTraceAttributesFromBaggage
<1>5. path' \in PathType /\ path'.value = d.value /\ path'.accepted = d.accepted /\ Synced(path')
  BY <1>2, <1>3, <1>4, SyncKeeps
<1>6. ASSUME NEW f \in Fields
      PROVE  Attributed(f)'
  <2>1. CASE DOMAIN path.members = {}
    <3>1. Attributed(f)
      BY DEF BaggageInv
    <3> QED BY <1>2, <1>4, <1>5, <2>1, <3>1 DEF Attributed, Target
  <2>2. CASE DOMAIN path.members # {}
    <3>1. /\ locals[f] # None => d.value[f] = locals[f] /\ f \notin d.accepted
          /\ locals[f] = None => (d.value[f] # None <=> f \in d.accepted)
          /\ f \in d.accepted =>
               \E g \in DOMAIN path.members \cap Fields : Target(g) = f /\ path.members[g] = d.value[f]
      BY <1>2, <2>2, ImportAttributes
    <3> QED BY <1>4, <1>5, <2>2, <3>1 DEF Attributed, Target
  <2> QED BY <2>1, <2>2
<1>7. Synced(path)'
  BY <1>5 DEF Synced, wireBaggageMembers, KeptForeign, Candidates, Carried
<1>8. locals' \in [Fields -> Values \cup {None}] /\ synced' \in BOOLEAN
  BY <1>4 DEF BaggageInv
<1> QED BY <1>5, <1>6, <1>7, <1>8 DEF BaggageInv

(* Steps that leave the attributes alone. *)
LEMMA RestKeeps ==
  ASSUME BaggageInv, NEW c \in PathType, c.value = path.value, c.accepted = path.accepted,
         c.members = path.members, c.foreign = path.foreign,
         NEW force \in BOOLEAN, force \/ c.marked = path.marked,
         path' = syncBaggage(c, force), synced' = (force \/ synced \/ path.marked),
         UNCHANGED <<imported, locals>>
  PROVE  BaggageInv'
<1>1. /\ path' \in PathType /\ path'.value = c.value /\ path'.accepted = c.accepted
      /\ (force \/ c.marked => Synced(path')) /\ (~force /\ ~c.marked => path' = c)
  BY SyncKeeps
<1>2. ASSUME NEW f \in Fields
      PROVE  Attributed(f)'
  <2>1. Attributed(f)
    BY DEF BaggageInv
  <2> QED BY <1>1, <2>1 DEF Attributed, Target
<1>3. synced' => Synced(path)'
  <2>1. CASE force \/ c.marked
    <3>1. Synced(path')
      BY <1>1, <2>1
    <3> QED BY <3>1 DEF Synced, wireBaggageMembers, KeptForeign, Candidates, Carried
  <2>2. CASE ~force /\ ~c.marked
    <3>1. synced' => Synced(path)
      BY <2>2 DEF BaggageInv
    <3>2. synced' => Synced(c)
      BY <2>2, <3>1, Unmarked DEF BaggageInv
    <3> QED BY <1>1, <2>2, <3>2 DEF Synced, wireBaggageMembers, KeptForeign, Candidates, Carried
  <2> QED BY <2>1, <2>2
<1>4. locals' \in [Fields -> Values \cup {None}] /\ synced' \in BOOLEAN
  BY DEF BaggageInv, PathType
<1> QED BY <1>1, <1>2, <1>3, <1>4 DEF BaggageInv

LEMMA PropagationKeeps == ASSUME BaggageInv, WithBaggagePropagation PROVE BaggageInv'
<1>1. PICK c : c = [path EXCEPT !.marked = TRUE]
  OBVIOUS
<1>2. /\ c \in PathType /\ c.value = path.value /\ c.accepted = path.accepted
      /\ c.members = path.members /\ c.foreign = path.foreign
  BY <1>1 DEF BaggageInv, PathType
<1>3. PICK t \in BOOLEAN : t = TRUE
  OBVIOUS
<1> QED BY <1>1, <1>2, <1>3, RestKeeps DEF WithBaggagePropagation

LEMMA RootKeeps ==
  ASSUME BaggageInv, NEW trace \in 1..MaxTraces, NEW sampled \in BOOLEAN, StartRoot(trace, sampled)
  PROVE  BaggageInv'
<1>1. PICK n \in Nat : n = trace
  BY BoundsAssumption
<1>2. PICK claim \in ClaimType : claim = IF sampled THEN [id |-> n, imported |-> FALSE] ELSE path.claim
  <2>1. [id |-> n, imported |-> FALSE] \in ClaimType /\ path.claim \in ClaimType
    BY DEF ClaimType, BaggageInv, PathType
  <2> QED BY <2>1
<1>3. PICK c : c = [path EXCEPT !.ambient = n, !.claim = claim]
  OBVIOUS
<1>4. /\ c \in PathType /\ c.value = path.value /\ c.accepted = path.accepted /\ c.marked = path.marked
      /\ c.members = path.members /\ c.foreign = path.foreign
  BY <1>3 DEF BaggageInv, PathType
<1>5. PICK t \in BOOLEAN : t = FALSE
  OBVIOUS
<1>6. c = [path EXCEPT !.ambient = trace, !.claim = IF sampled THEN [id |-> trace, imported |-> FALSE] ELSE @]
  BY <1>1, <1>2, <1>3 DEF BaggageInv, PathType
<1>7. path' = syncBaggage(c, t) /\ synced' = (t \/ synced \/ path.marked) /\ UNCHANGED <<imported, locals>>
  BY <1>5, <1>6 DEF StartRoot
<1> QED BY <1>4, <1>7, RestKeeps

LEMMA ReceiveKeeps == ASSUME BaggageInv, NEW m \in Messages, Receive(m) PROVE BaggageInv'
<1>1. PICK ns \in Namespaces, k \in Nat, t \in Nat : ns = m.members /\ k = m.foreign /\ t = m.trace
  BY MessagesTyped
<1>2. path' = [path EXCEPT !.members = ns, !.foreign = k, !.ambient = t]
  BY <1>1 DEF Receive
<1>3. path' \in PathType /\ path'.value = path.value /\ path'.accepted = path.accepted
  BY <1>2 DEF BaggageInv, PathType
<1>4. UNCHANGED <<imported, locals>> /\ synced' = FALSE
  BY DEF Receive
<1> QED BY <1>3, <1>4 DEF BaggageInv, Attributed, Target

LEMMA LeaveKeeps == ASSUME BaggageInv, LeaveTrace PROVE BaggageInv'
<1>1. path' \in PathType /\ path'.value = path.value /\ path'.accepted = path.accepted
  BY DEF LeaveTrace, BaggageInv, PathType
<1>2. UNCHANGED <<imported, locals>> /\ synced' = FALSE
  BY DEF LeaveTrace
<1> QED BY <1>1, <1>2 DEF BaggageInv, Attributed, Target

LEMMA BaggageStarts == BaggageInit => BaggageInv
<1> SUFFICES ASSUME BaggageInit
             PROVE  BaggageInv
  OBVIOUS
<1>1. Unset \in [Fields -> {None}] /\ \A f \in Fields : Unset[f] = None
  BY DEF Unset
<1>2. NoClaim \in ClaimType
  BY DEF NoClaim, ClaimType
<1>3. PICK u \in [Fields -> Texts] : u = Unset
  BY <1>1 DEF Texts
<1>4. PICK k \in ClaimType, n \in Namespaces : k = NoClaim /\ n = <<>>
  BY <1>2, NothingNamed
<1>5. path = [value |-> u, accepted |-> {}, wire |-> {}, claim |-> k, marked |-> FALSE,
              ambient |-> 0, members |-> n, foreign |-> 0]
  BY <1>3, <1>4 DEF BaggageInit, EmptyPath
<1>6. /\ path \in PathType /\ path.value = u /\ path.accepted = {} /\ path.marked = FALSE
      /\ path.members = n /\ path.foreign = 0
  BY <1>5 DEF PathType
<1>7. Synced(path)
  BY <1>4, <1>6, BoundsAssumption DEF Synced, wireBaggageMembers
<1> QED BY <1>1, <1>3, <1>6, <1>7 DEF BaggageInit, BaggageInv, Attributed

(* The invariant holds of every reachable state of a path.                 *)
THEOREM BaggageHolds == BaggageSpec => []BaggageInv
<1>1. BaggageInit => BaggageInv
  BY BaggageStarts
<1>2. BaggageInv /\ [BaggageNext]_baggageVars => BaggageInv'
  <2> SUFFICES ASSUME BaggageInv, [BaggageNext]_baggageVars
               PROVE  BaggageInv'
    OBVIOUS
  <2>1. CASE UNCHANGED baggageVars
    BY <2>1 DEF baggageVars, BaggageInv, Attributed, Target, Synced, wireBaggageMembers, KeptForeign, Candidates, Carried
  <2>2. CASE BaggageNext
    BY <2>2, ReceiveKeeps, LocalKeeps, PropagationKeeps, ImportKeeps, LeaveKeeps, RootKeeps DEF BaggageNext
  <2> QED BY <2>1, <2>2
<1> QED BY <1>1, <1>2, PTL DEF BaggageSpec

(* Whatever messages a path goes through, what a local call set is there   *)
(* until the next one, and every accepted attribute is of the last         *)
(* namespace that was imported.                                            *)
THEOREM AttributionHolds == BaggageSpec => []AttributionIsCurrent
<1>1. BaggageInv => AttributionIsCurrent
  BY DEF BaggageInv, Attributed, AttributionIsCurrent
<1> QED BY <1>1, BaggageHolds, PTL

(* The baggage the client last wrote is the path's state, and within the   *)
(* limits: what does not fit was dropped by priority.                      *)
THEOREM BaggageMatches == BaggageSpec => []BaggageIsTheState
<1>1. BaggageInv => BaggageIsTheState
  <2> SUFFICES ASSUME BaggageInv, synced
               PROVE  /\ path.foreign + Cardinality(DOMAIN path.members) <= MaxMembers
                      /\ \A m \in DOMAIN path.members :
                           IF m = Claim THEN path.members[m] = path.ambient /\ path.claim.id = path.ambient
                           ELSE m \in Fields /\ path.members[m] = path.value[m] /\ wireBaggageValue(path.value[m])
                      /\ ~path.marked => path.members = <<>>
    BY DEF BaggageIsTheState
  <2>1. path.foreign \in Nat /\ path.foreign <= MaxMembers /\ path.members = wireBaggageMembers(path)
    BY DEF BaggageInv, Synced, PathType
  <2>2. CASE ~path.marked
    <3>1. path.members = <<>> /\ DOMAIN path.members = {} /\ Cardinality({}) = 0
      BY <2>1, <2>2, NothingNamed, FS_EmptySet DEF wireBaggageMembers
    <3> QED BY <2>1, <3>1, BoundsAssumption
  <2>3. CASE path.marked
    <3>1. PICK n \in Int : n = MaxMembers - KeptForeign(path) /\ n = MaxMembers - path.foreign /\ n >= 0
      BY <2>1, BoundsAssumption DEF KeptForeign
    <3>2. PICK D \in SUBSET Names : D = TheFirst(n, Candidates(path))
      BY DEF TheFirst, Candidates, Names
    <3>3. path.members = [m \in D |-> IF m = Claim THEN path.claim.id ELSE path.value[m]]
      BY <2>1, <2>3, <3>1, <3>2 DEF wireBaggageMembers
    <3>4. Candidates(path) \in SUBSET Names
      BY DEF Candidates, Names
    <3>5. D \subseteq Candidates(path) /\ Cardinality(D) <= n
      BY <3>1, <3>2, <3>4, TheFirstFew
    <3>6. IsFiniteSet(D) /\ Cardinality(D) \in Nat
      BY NamesFinite, FS_CardinalityType
    <3>7. DOMAIN path.members = D
      BY <3>3
    <3>8. ASSUME NEW m \in D
          PROVE  IF m = Claim THEN path.members[m] = path.ambient /\ path.claim.id = path.ambient
                 ELSE m \in Fields /\ path.members[m] = path.value[m] /\ wireBaggageValue(path.value[m])
      <4>1. m \in Candidates(path) /\ path.members[m] = IF m = Claim THEN path.claim.id ELSE path.value[m]
        BY <3>3, <3>5
      <4> QED BY <4>1, NamesAssumption DEF Candidates, Carried
    <3> QED BY <2>1, <2>3, <3>1, <3>5, <3>6, <3>7, <3>8, BoundsAssumption
  <2> QED BY <2>2, <2>3
<1> QED BY <1>1, BaggageHolds, PTL
===============================================================================
