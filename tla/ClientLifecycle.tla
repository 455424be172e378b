---------------------------- MODULE ClientLifecycle ---------------------------
(***************************************************************************)
(* The life of a Client: New (reservation of a borrowed provider, then     *)
(* registration of the Langfuse processor), StartObservation's admission   *)
(* token, the processor's OnStart / Expect / OnEnd and its teardown, and   *)
(* Client.Shutdown with concurrent and re-entrant callers.                 *)
(*                                                                         *)
(* Every atomic load or store, every region under expectationsMu or the    *)
(* registry's lock, and every call into OpenTelemetry is a step.  Clients  *)
(* outside Owned share one borrowed provider, which the application may    *)
(* shut down itself at any time.  Owned clients have one each.  Spans are  *)
(* observations of a client (Sdk, the item roots of experiments among      *)
(* them) or spans of the application's own tracers on that provider.       *)
(* Applications do not end a span from inside Tracer.Start.  What a drain  *)
(* does is left to the modules of the queues; here it ends well or not.    *)
(***************************************************************************)
EXTENDS Naturals, FiniteSets

CONSTANTS
  Clients, Owned,     \* Owned: clients with a provider of their own
  Callers,            \* Shutdown calls
  Spans, Sdk, ItemRoots,
  MaxExpected,        \* maxActiveExpectations
  MaxAppShutdowns,    \* bound: 1 if the application shuts its provider down
  NoClient, NoSpan

ASSUME SetsAssumption ==
  /\ Owned \subseteq Clients /\ Sdk \subseteq Spans /\ ItemRoots \subseteq Sdk
  /\ NoClient \notin Clients /\ NoSpan \notin Spans
ASSUME LimitsAssumption == MaxExpected \in Nat /\ MaxAppShutdowns \in 0..1

VARIABLES
  phase,       \* [Clients -> where New is]
  owner,       \* the borrowed provider's entry in borrowedProviderRegistry
  attached,    \* clients whose processor is registered with its provider
  provShut,    \* the borrowed provider's isShutdown
  app,         \* the application's own provider.Shutdown call
  stopped,     \* clients whose stopped flag is set
  procStopped, \* clients whose processor's stopped flag is set
  proc,        \* [Clients -> stage of Processor.Shutdown]
  procBy,      \* [Clients -> who won its shutdownStarted]
  expected,    \* [Clients -> SUBSET Spans]
  down,        \* [Clients -> stage of the Client.Shutdown that owns teardown]
  failed,      \* clients with an error joined into the result so far
  result,      \* [Clients -> shutdownResult]
  caller,      \* [Callers -> [at, client]]
  span         \* [Spans -> record]

setupVars == <<phase, owner, attached>>
provVars  == <<provShut, app>>
procVars  == <<procStopped, proc, procBy, expected>>
downVars  == <<stopped, down, failed, result>>
vars == <<setupVars, provVars, procVars, downVars, caller, span>>

Borrowed == Clients \ Owned
Peers(c) == IF c \in Owned THEN {c} ELSE Borrowed   \* clients of its provider

IdleSpan == [at |-> "idle", client |-> NoClient, parent |-> NoSpan,
             rec |-> FALSE, wants |-> FALSE,    \* recording, passes the start filter
             by |-> NoClient,                   \* the processor that observes the start
             ctx |-> {},                        \* clients its start context claims the trace for
             parentExpected |-> FALSE, admitted |-> FALSE, expected |-> FALSE,
             root |-> FALSE,                    \* carries the application-root marker
             claim |-> {},                      \* and the context it returns
             end |-> "no", endBy |-> NoClient]

Init ==
  /\ phase = [c \in Clients |-> "none"] /\ owner = NoClient /\ attached = {}
  /\ provShut = FALSE /\ app = "idle"
  /\ stopped = {} /\ procStopped = {}
  /\ proc = [c \in Clients |-> "idle"] /\ procBy = [c \in Clients |-> "none"]
  /\ expected = [c \in Clients |-> {}]
  /\ down = [c \in Clients |-> "idle"] /\ failed = {}
  /\ result = [c \in Clients |-> "none"]
  /\ caller = [x \in Callers |-> [at |-> "idle", client |-> NoClient]]
  /\ span = [s \in Spans |-> IdleSpan]

-----------------------------------------------------------------------------
(* New                                                                     *)

reserveBorrowedProvider(c) ==
  /\ phase[c] = "none" /\ c \in Borrowed
  /\ IF owner = NoClient
       THEN owner' = c /\ phase' = [phase EXCEPT ![c] = "reserved"]
       ELSE phase' = [phase EXCEPT ![c] = "refused"] /\ UNCHANGED owner
  /\ UNCHANGED <<attached, provVars, procVars, downVars, caller, span>>

NewFails(c) ==   \* the exporter or the processor cannot be built
  /\ phase[c] = "reserved"
  /\ owner' = IF owner = c THEN NoClient ELSE owner
  /\ phase' = [phase EXCEPT ![c] = "refused"]
  /\ UNCHANGED <<attached, provVars, procVars, downVars, caller, span>>

NewRegisters(c) ==
  /\ phase[c] = "reserved" \/ (phase[c] = "none" /\ c \in Owned)
  /\ phase' = [phase EXCEPT ![c] = "open"]
  /\ attached' = IF c \in Borrowed /\ provShut THEN attached ELSE attached \cup {c}
  /\ UNCHANGED <<owner, provVars, procVars, downVars, caller, span>>

New(c) == reserveBorrowedProvider(c) \/ NewFails(c) \/ NewRegisters(c)

-----------------------------------------------------------------------------
(* Processor.Shutdown, called by the client or through the provider        *)

ProcCall(c, who) == proc' = [proc EXCEPT ![c] = "stop"] /\ procBy' = [procBy EXCEPT ![c] = who]

ProcStop(c) ==
  /\ proc[c] = "stop"
  /\ procStopped' = procStopped \cup {c}
  /\ proc' = [proc EXCEPT ![c] = "clear"]
  /\ UNCHANGED <<setupVars, provVars, procBy, expected, downVars, caller, span>>

ProcClear(c) ==
  /\ proc[c] = "clear"
  /\ expected' = [expected EXCEPT ![c] = {}]
  /\ proc' = [proc EXCEPT ![c] = "next"]
  /\ UNCHANGED <<setupVars, provVars, procStopped, procBy, downVars, caller, span>>

ProcNext(c) ==   \* the wrapped batch processor's own shutdown
  /\ proc[c] = "next"
  /\ proc' = [proc EXCEPT ![c] = "done"]
  /\ UNCHANGED <<setupVars, provVars, procStopped, procBy, expected, downVars, caller, span>>

ProcShutdown(c) == ProcStop(c) \/ ProcClear(c) \/ ProcNext(c)

(* The application shuts its provider down: TracerProvider.Shutdown marks  *)
(* itself, shuts every registered processor down once, empties its list;   *)
(* an ended context stops it between those.                                *)
AppShutdown ==
  \/ /\ app = "idle" /\ MaxAppShutdowns = 1
     /\ provShut' = TRUE /\ app' = "stop"
     /\ UNCHANGED <<attached, proc, procBy>>
  \/ /\ app = "stop"
     /\ \/ \E c \in attached \cap Borrowed :
             /\ proc[c] = "idle"
             /\ ProcCall(c, "app") /\ app' = "wait"
        \/ /\ \A c \in attached \cap Borrowed : proc[c] # "idle"
           /\ app' = "wait" /\ UNCHANGED <<proc, procBy>>
        \/ app' = "done" /\ UNCHANGED <<proc, procBy>>
     /\ UNCHANGED <<attached, provShut>>
  \/ /\ app = "wait"
     /\ \A c \in attached \cap Borrowed : proc[c] = "done" \/ procBy[c] # "app"
     /\ app' = "done"
     /\ attached' \in {attached, attached \ Borrowed}
     /\ UNCHANGED <<provShut, proc, procBy>>

AppStep ==
  /\ AppShutdown
  /\ UNCHANGED <<phase, owner, procStopped, expected, downVars, caller, span>>

-----------------------------------------------------------------------------
(* Client.Shutdown                                                         *)

(* Mutant: a later call returns nil.                                       *)
MutCurrentShutdownResult(c) == IF down[c] = "closed" THEN "ok" ELSE "inProgress"

currentShutdownResult(c) == IF down[c] = "closed" THEN result[c] ELSE "inProgress"

Enter(x, c) ==
  /\ caller[x].at = "idle" /\ phase[c] = "open"
  /\ caller' = [caller EXCEPT ![x] =
       [at |-> IF down[c] = "idle" THEN "swap" ELSE currentShutdownResult(c), client |-> c]]
  /\ UNCHANGED <<setupVars, provVars, procVars, downVars, span>>

Swap(x) ==
  LET c == caller[x].client IN
  /\ caller[x].at = "swap"
  /\ IF down[c] = "idle"
       THEN /\ down' = [down EXCEPT ![c] = "stop"]
            /\ caller' = [caller EXCEPT ![x].at = "owns"]
       ELSE /\ caller' = [caller EXCEPT ![x].at = currentShutdownResult(c)]
            /\ UNCHANGED down
  /\ UNCHANGED <<setupVars, provVars, procVars, stopped, failed, result, span>>

Stage(c, from, to) == down[c] = from /\ down' = [down EXCEPT ![c] = to]

(* A flush, a shutdown or a drain may fail; its error is joined.           *)
Joins(c) == failed' = failed \/ failed' = failed \cup {c}

PublishStopped(c) ==
  /\ Stage(c, "stop", "flush")
  /\ stopped' = stopped \cup {c}
  /\ UNCHANGED <<setupVars, provVars, procVars, failed, result, caller, span>>

TeardownFlush(c) ==   \* after the prompt and REST gates closed
  /\ Stage(c, "flush", "proc") /\ Joins(c)
  /\ UNCHANGED <<setupVars, provVars, procVars, stopped, result, caller, span>>

TeardownProc(c) ==
  /\ IF proc[c] = "idle" THEN Stage(c, "proc", "procRun") /\ ProcCall(c, "client")
     ELSE Stage(c, "proc", "procWait") /\ UNCHANGED <<proc, procBy>>
  /\ UNCHANGED <<setupVars, provVars, procStopped, expected, stopped, failed, result, caller, span>>

(* Mutant: the reservation is released before the processor is detached.   *)
MutProcReturn(c) ==
  /\ \/ Stage(c, "procRun", "detach") /\ proc[c] = "done" /\ Joins(c)
     \/ Stage(c, "procWait", "detach") /\ proc[c] = "done" /\ UNCHANGED failed
     \/ Stage(c, "procWait", "detach") /\ failed' = failed \cup {c}
  /\ owner' = IF owner = c THEN NoClient ELSE owner
  /\ UNCHANGED <<phase, attached, provVars, procVars, stopped, result, caller, span>>

ProcReturn(c) ==   \* only a call that lost the race gives up with its context
  /\ \/ Stage(c, "procRun", "detach") /\ proc[c] = "done" /\ Joins(c)
     \/ Stage(c, "procWait", "detach") /\ proc[c] = "done" /\ UNCHANGED failed
     \/ Stage(c, "procWait", "detach") /\ failed' = failed \cup {c}
  /\ UNCHANGED <<setupVars, provVars, procVars, stopped, result, caller, span>>

(* UnregisterSpanProcessor, ignored by a provider that is shut down; or    *)
(* the owned provider's Shutdown, which an ended context stops early.      *)
Detach(c) ==
  /\ Stage(c, "detach", "release")
  /\ IF c \in Owned
       THEN \/ attached' = attached \ {c} /\ UNCHANGED failed
            \/ failed' = failed \cup {c} /\ UNCHANGED attached
       ELSE attached' = (IF provShut THEN attached ELSE attached \ {c}) /\ UNCHANGED failed
  /\ UNCHANGED <<phase, owner, provVars, procVars, stopped, result, caller, span>>

releaseReservation(c) ==
  /\ Stage(c, "release", "drain")
  /\ owner' = IF owner = c THEN NoClient ELSE owner
  /\ UNCHANGED <<phase, attached, provVars, procVars, stopped, failed, result, caller, span>>

Drain(c) ==   \* scores, prompts and REST calls, then the joined result
  /\ Stage(c, "drain", "publish")
  /\ \E err \in BOOLEAN :
       /\ failed' = IF err THEN failed \cup {c} ELSE failed
       /\ result' = [result EXCEPT ![c] = IF err \/ c \in failed THEN "error" ELSE "ok"]
  /\ UNCHANGED <<setupVars, provVars, procVars, stopped, caller, span>>

CloseDone(c) ==   \* close(shutdownDone), and the owning call returns
  /\ Stage(c, "publish", "closed")
  /\ caller' = [x \in Callers |->
       IF caller[x].at = "owns" /\ caller[x].client = c
         THEN [caller[x] EXCEPT !.at = result[c]] ELSE caller[x]]
  /\ UNCHANGED <<setupVars, provVars, procVars, stopped, failed, result, span>>

Teardown(c) ==
  \/ PublishStopped(c) \/ TeardownFlush(c) \/ TeardownProc(c) \/ ProcReturn(c)
  \/ Detach(c) \/ releaseReservation(c) \/ Drain(c) \/ CloseDone(c)

Shutdown(x) == Swap(x) \/ \E c \in Clients : Enter(x, c)

-----------------------------------------------------------------------------
(* StartObservation, and starts by the application's tracers               *)

Set(s, r) == span' = [span EXCEPT ![s] = r]
SpanStep == UNCHANGED <<setupVars, provVars, procVars, downVars, caller>>

(* Contexts to start from: the background, or one returned by an earlier   *)
(* start on the same provider.                                             *)
Shared == {p \in Spans : span[p].at \in {"live", "unrecorded"}}

StartBegin(s) ==
  /\ span[s].at = "idle"
  /\ \E c \in Clients \cup {NoClient}, p \in Shared \cup {NoSpan}, rec, wants \in BOOLEAN :
       /\ wants => rec
       /\ IF s \in Sdk THEN c # NoClient /\ phase[c] = "open" /\ c \notin stopped
                       ELSE c = NoClient
       /\ s \in ItemRoots => p = NoSpan
       /\ Set(s, [IdleSpan EXCEPT
            !.at = IF rec THEN "start" ELSE "return", !.client = c, !.parent = p,
            !.rec = rec, !.wants = wants,
            !.ctx = IF p = NoSpan THEN {} ELSE span[p].claim])
  /\ SpanStep

(* Tracer.Start reads the provider's processors; OnStart's first checks.   *)
OnStart(s) ==
  LET sp == span[s] IN
  /\ sp.at = "start"
  /\ \/ /\ attached \cap Peers(sp.client) = {}
        /\ Set(s, [sp EXCEPT !.at = "return"])
     \/ \E p \in attached \cap Peers(sp.client) :
        IF p \in procStopped \/ (s \in Sdk /\ p # sp.client)   \* acceptsProjectSpan
          THEN Set(s, [sp EXCEPT !.at = "return"])
          ELSE Set(s, [sp EXCEPT !.at = "fill", !.by = p])
  /\ SpanStep

OnStartCheck(s) ==   \* after the callbacks and the filter ran
  /\ span[s].at = "fill"
  /\ Set(s, [span[s] EXCEPT !.at = IF span[s].by \in procStopped THEN "return" ELSE "admit"])
  /\ SpanStep

admitObservation(s) ==
  LET accept == s \in Sdk /\ span[s].client \notin stopped IN
  /\ span[s].at = "admit"
  /\ Set(s, [span[s] EXCEPT !.at = "record", !.admitted = accept,
                            !.expected = accept /\ span[s].wants])
  /\ SpanStep

(* Mutant: the flag is not read again under the lock.                      *)
MutAcceptsExpectations(p) == p \in Clients

AcceptsExpectations(p) == p \notin procStopped
RoomToExpect(p) == Cardinality(expected[p]) < MaxExpected

OnStartRecord(s) ==
  LET sp == span[s] IN
  /\ sp.at = "record"
  /\ IF AcceptsExpectations(sp.by)
       THEN /\ Set(s, [sp EXCEPT !.at = "mark", !.parentExpected = sp.parent \in expected[sp.by]])
            /\ expected' = IF sp.wants /\ RoomToExpect(sp.by)
                             THEN [expected EXCEPT ![sp.by] = @ \cup {s}] ELSE expected
       ELSE Set(s, [sp EXCEPT !.at = "return"]) /\ UNCHANGED expected
  /\ UNCHANGED <<setupVars, provVars, procStopped, proc, procBy, downVars, caller>>

OnStartMark(s) ==
  LET sp == span[s] IN
  /\ sp.at = "mark"
  /\ Set(s, [sp EXCEPT !.at = "return",
                       !.root = sp.wants /\ ~sp.parentExpected /\ sp.by \notin sp.ctx])
  /\ SpanStep

(* Mutant: only a start the processor still tracks claims its trace.       *)
MutClaims(s) == span[s].ctx \cup {c \in Clients : s \in expected[c]}

Claims(s) == span[s].ctx \cup (IF span[s].expected THEN {span[s].client} ELSE {})

StartReturn(s) ==
  LET sp == span[s]
      refuse == s \in Sdk /\ (sp.client \in stopped \/ (sp.rec /\ ~sp.admitted))
  IN
  /\ sp.at = "return"
  /\ Set(s, [sp EXCEPT   \* the locals of the start are gone
       !.wants = FALSE, !.ctx = {}, !.parentExpected = FALSE,
       !.admitted = FALSE, !.expected = FALSE,
       !.at = IF refuse THEN (IF sp.rec THEN "refuse" ELSE "refused")
              ELSE IF ~sp.rec THEN (IF s \in ItemRoots THEN "refused" ELSE "unrecorded")
              ELSE IF s \in ItemRoots THEN "item" ELSE "live",
       !.claim = Claims(s)])
  /\ SpanStep

-----------------------------------------------------------------------------
(* span.End and OnEnd                                                      *)

EndBegins(s, r) ==   \* Span.End reads the provider's processors
  IF attached \cap Peers(r.client) = {}
    THEN Set(s, [r EXCEPT !.end = "done"])
    ELSE \E p \in attached \cap Peers(r.client) : Set(s, [r EXCEPT !.end = "ending", !.endBy = p])

End(s) ==   \* by the application, or by one of its span processors
  /\ span[s].at \in {"live", "item", "accept", "mark item"} /\ span[s].rec /\ span[s].end = "no"
  /\ EndBegins(s, span[s])
  /\ SpanStep

RefuseStart(s) ==   \* the refused start is ended for the other processors
  /\ span[s].at = "refuse"
  /\ EndBegins(s, [span[s] EXCEPT !.at = "refused"])
  /\ SpanStep

OnEnd(s) ==
  /\ span[s].end = "ending"
  /\ expected' = [expected EXCEPT ![span[s].endBy] = @ \ {s}]
  /\ Set(s, [span[s] EXCEPT !.end = "done"])
  /\ UNCHANGED <<setupVars, provVars, procStopped, proc, procBy, downVars, caller>>

-----------------------------------------------------------------------------
(* Experiment item roots: the export decision on the complete identity,    *)
(* then acceptItemRoot                                                     *)

Exports(s) ==
  LET sp == span[s] IN
  /\ sp.at = "item"
  /\ \/ sp.client \notin procStopped /\ Set(s, [sp EXCEPT !.at = "accept"])
     \/ IF sp.end = "no" THEN EndBegins(s, [sp EXCEPT !.at = "refused"])   \* rejected
        ELSE Set(s, [sp EXCEPT !.at = "refused"])
  /\ SpanStep

Expect(s) ==
  LET c == span[s].client IN
  /\ span[s].at = "accept"
  /\ expected' = IF AcceptsExpectations(c) /\ span[s].end = "no" /\ RoomToExpect(c)
                   THEN [expected EXCEPT ![c] = @ \cup {s}] ELSE expected
  /\ Set(s, [span[s] EXCEPT !.at = "mark item"])
  /\ UNCHANGED <<setupVars, provVars, procStopped, proc, procBy, downVars, caller>>

acceptItemRoot(s) ==
  /\ span[s].at = "mark item"
  /\ Set(s, [span[s] EXCEPT !.at = "live", !.root = @ \/ span[s].end = "no", !.claim = @ \cup {span[s].client}])
  /\ SpanStep

Start(s) ==
  \/ StartBegin(s) \/ OnStart(s) \/ OnStartCheck(s) \/ admitObservation(s)
  \/ OnStartRecord(s) \/ OnStartMark(s) \/ StartReturn(s) \/ RefuseStart(s)
  \/ Exports(s) \/ Expect(s) \/ acceptItemRoot(s)

-----------------------------------------------------------------------------
Next ==
  \/ \E c \in Clients : New(c) \/ ProcShutdown(c) \/ Teardown(c)
  \/ \E x \in Callers : Shutdown(x)
  \/ \E s \in Spans : Start(s) \/ End(s) \/ OnEnd(s)
  \/ AppStep

Spec == Init /\ [][Next]_vars

(* Goroutines run; OpenTelemetry's flushes and shutdowns end by themselves *)
(* (each export has a timeout).  Calls being finite, it is enough that one *)
(* that can take a step does.  Contexts need not end.                      *)
Running ==
  \/ \E c \in Clients : ProcShutdown(c)
  \/ \E c \in Clients : Teardown(c) /\ (down[c] = "procWait" => proc[c] = "done")
  \/ \E x \in Callers : Swap(x)
Fairness == WF_vars(Running)

FairSpec == Spec /\ Fairness

-----------------------------------------------------------------------------
(* Properties                                                              *)

Stages == {"idle", "stop", "flush", "proc", "procRun", "procWait", "detach",
           "release", "drain", "publish", "closed"}

(* Every variable keeps its type, and the expectations stay bounded.       *)
TypeOK ==
  /\ phase \in [Clients -> {"none", "reserved", "refused", "open"}]
  /\ owner \in Borrowed \cup {NoClient} /\ attached \subseteq Clients
  /\ provShut \in BOOLEAN /\ app \in {"idle", "stop", "wait", "done"}
  /\ stopped \subseteq Clients /\ procStopped \subseteq Clients
  /\ proc \in [Clients -> {"idle", "stop", "clear", "next", "done"}]
  /\ procBy \in [Clients -> {"none", "client", "app"}]
  /\ expected \in [Clients -> SUBSET Spans]
  /\ \A c \in Clients : Cardinality(expected[c]) <= MaxExpected
  /\ down \in [Clients -> Stages] /\ failed \subseteq Clients
  /\ result \in [Clients -> {"none", "ok", "error"}]
  /\ caller \in [Callers -> [at : {"idle", "swap", "owns", "inProgress", "ok", "error"},
                             client : Clients \cup {NoClient}]]
  /\ span \in [Spans ->
       [at : {"idle", "start", "fill", "admit", "record", "mark", "return", "refuse",
              "refused", "unrecorded", "item", "accept", "mark item", "live"},
        client : Clients \cup {NoClient}, parent : Spans \cup {NoSpan},
        rec : BOOLEAN, wants : BOOLEAN, by : Clients \cup {NoClient},
        ctx : SUBSET Clients, parentExpected : BOOLEAN, admitted : BOOLEAN,
        expected : BOOLEAN, root : BOOLEAN, claim : SUBSET Clients,
        end : {"no", "ending", "done"}, endBy : Clients \cup {NoClient}]]

(* At most one Langfuse client is attached to a borrowed provider, and     *)
(* while the provider is live it is the one that holds the reservation:    *)
(* no span is exported twice while one client replaces another.            *)
OneAttachment ==
  /\ \A c, d \in attached \cap Borrowed : c = d
  /\ \A c \in attached \cap Borrowed : provShut \/ owner = c

(* The processor's application-root state holds only spans still active,   *)
(* and nothing once its teardown cleared it, although starts, ends and     *)
(* late acceptances race both the end of the span and the teardown.        *)
ExpectedIsActive ==
  \A c \in Clients :
    /\ proc[c] = "idle" => \A s \in expected[c] :
         span[s].end = "no" \/ (span[s].end = "ending" /\ span[s].endBy = c)
    /\ proc[c] \in {"next", "done"} => expected[c] = {}

(* Along a path of contexts a client marks at most one application root    *)
(* from its own observations down: not a second one below it, whether the  *)
(* first has ended, was over the tracking limit or became one late, and    *)
(* whatever application spans lie between.                                 *)
UpClosed(path) == \A s \in path : span[s].parent \in path \cup {NoSpan}
Ancestors(s) ==   \* in every closed set that the parent of s is in
  {a \in Spans : \A path \in SUBSET Spans :
     UpClosed(path) /\ span[s].parent \in path \cup {NoSpan} => a \in path}

OneRootPerPath ==
  \A s \in Spans : span[s].root =>
    \A a \in Ancestors(s) \cap Sdk :
      span[a].root => span[a].client # span[s].by

(* Every call that returns a result returns the owning call's, after the   *)
(* whole teardown; and a nil result means the processor is gone from the   *)
(* provider, its state cleared and the reservation free.                   *)
ShutdownSound ==
  /\ \A x \in Callers : caller[x].at \in {"ok", "error"} =>
       down[caller[x].client] = "closed" /\ caller[x].at = result[caller[x].client]
  /\ \A c \in Clients : down[c] = "closed" =>
       /\ owner # c /\ (c \in attached /\ c \in Borrowed => provShut)
       /\ result[c] = "ok" => proc[c] = "done" /\ expected[c] = {}

NoCallRuns == \A x \in Callers : caller[x].at \notin {"swap", "owns"}

(* Every Shutdown call returns, concurrent with others and with the        *)
(* application's shutdown of the same provider: calls being finite, from   *)
(* some instant on none runs.                                              *)
CallsReturn == <>[]NoCallRuns
=============================================================================
