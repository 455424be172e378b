---------------------------- MODULE WiretapAttempt ----------------------------
(***************************************************************************)
(* One HTTP attempt through the wiretap: RoundTrip, the request recorder   *)
(* with its replays, and the wrapped response body whose reader, closer    *)
(* and garbage collector end the attempt.                                  *)
(*                                                                         *)
(* Every region under bodyWrapper.mu or requestRecorder.mu is a step, and  *)
(* so is every call of the wrapped body and every parser call made outside *)
(* the locks.  The application reads from one goroutine and may close from *)
(* another; the base transport sends request bodies from goroutines of its *)
(* own, which may outlive a replay.  Bytes are pieces: a response chunk is *)
(* what the sniffer, the framer and the parser tell apart, a request piece *)
(* is its transmission and its position.  How the framer finds events in   *)
(* bytes, and what a status code adds to an outcome, is left out; the      *)
(* cancellation watcher is, too, since an outcome asks the context itself. *)
(***************************************************************************)
EXTENDS Naturals, Sequences, FiniteSets

CONSTANTS
  Modes,           \* what selectMode may answer
  Salvages,        \* the parser is a ChunkedCall
  RequestPieces,   \* length of the request body
  RequestCap, ResponseCap,   \* capture caps, in pieces
  MaxSends,        \* bound: transmissions of the request
  MaxReads         \* bound: reads that return response bytes

ASSUME ModesAssumption == Modes \subseteq {"undecided", "unary", "sse", "ignore"}
ASSUME CapsAssumption ==
  /\ Salvages \in BOOLEAN
  /\ {RequestPieces, RequestCap, ResponseCap, MaxSends, MaxReads} \subseteq Nat
  /\ MaxSends > 0

VARIABLES
  phase,     \* RoundTrip: "new", "exchange", "response", "failed" or "untapped"
  sampled,
  ctxDone,   \* the observation's context has ended
  send,      \* [1..MaxSends -> a request body in the transport's hands]
  rec,       \* the requestRecorder
  body,      \* the bodyWrapper
  reads,
  held,      \* the application holds the response body
  rcClosed,  \* the wrapped body is closed
  actor,     \* [Actors -> a Read, a Close, or the finalizer's abandon]
  parser,    \* [fed, request, taken]: calls on the parser
  obs,       \* [updates, ends, wire, outcome]: what the observation got
  seen       \* history: what completed Reads returned

requestVars == <<send, rec>>
bodyVars    == <<body, reads, held, rcClosed, actor, seen>>
vars == <<phase, sampled, ctxDone, requestVars, bodyVars, parser, obs>>

Sends  == 1..MaxSends
Actors == {"reader", "closer", "collector"}

NoSend == [at |-> "none", sent |-> 0]
Idle == [at |-> "idle", chunk |-> "none", err |-> "nil", outcome |-> "none", then |-> "idle"]

Init ==
  /\ phase = "new" /\ sampled \in BOOLEAN /\ ctxDone = FALSE
  /\ send = [g \in Sends |-> NoSend]
  /\ rec = [gen |-> 0, buf |-> <<>>, overCap |-> FALSE, closed |-> FALSE,
            active |-> FALSE, disabled |-> FALSE]
  /\ body = [mode |-> "none", finalized |-> FALSE, panicked |-> "no", json |-> "blank",
             len |-> 0, over |-> FALSE, pending |-> FALSE, discarded |-> FALSE]
  /\ reads = 0 /\ held = FALSE /\ rcClosed = FALSE
  /\ actor = [a \in Actors |-> Idle]
  /\ parser = [fed |-> 0, request |-> <<>>, taken |-> FALSE]
  /\ obs = [updates |-> 0, ends |-> 0, wire |-> "none", outcome |-> "none"]
  /\ seen = [terminal |-> "none", err |-> "nil"]

ContextEnds ==
  /\ ~ctxDone /\ ctxDone' = TRUE
  /\ UNCHANGED <<phase, sampled, requestVars, bodyVars, parser, obs>>

-----------------------------------------------------------------------------
(* The request                                                             *)

newGeneration(g) ==
  /\ rec' = [rec EXCEPT !.gen = g, !.buf = <<>>, !.overCap = FALSE,
                        !.closed = FALSE, !.active = TRUE]
  /\ send' = [send EXCEPT ![g] = [NoSend EXCEPT !.at = "open"]]

Begin ==
  /\ phase = "new"
  /\ \/ phase' = "untapped" /\ UNCHANGED requestVars   \* not recognized, or nothing records it
     \/ phase' = "exchange" /\ UNCHANGED requestVars   \* no request body, or unsampled
     \/ phase' = "exchange" /\ sampled /\ newGeneration(1)
  /\ UNCHANGED <<sampled, ctxDone, bodyVars, parser, obs>>

GetBody ==   \* the base transport replays the request
  /\ phase = "exchange" /\ rec.active /\ rec.gen < MaxSends
  /\ newGeneration(rec.gen + 1)
  /\ UNCHANGED <<phase, sampled, ctxDone, bodyVars, parser, obs>>

SendRead(g) ==   \* the body under a recorderBody is read
  /\ send[g].at = "open"
  /\ send' = [send EXCEPT ![g].at = IF send[g].sent = RequestPieces THEN "eof" ELSE "piece"]
  /\ UNCHANGED <<phase, sampled, ctxDone, rec, bodyVars, parser, obs>>

Overflows(n, cap) == n + 1 > cap   \* one more piece is dropped with the rest

Observes(g) == g = rec.gen /\ ~rec.disabled /\ ~rec.overCap

observe(g) ==
  /\ send[g].at = "piece"
  /\ send' = [send EXCEPT ![g] = [at |-> "open", sent |-> @.sent + 1]]
  /\ rec' = IF ~Observes(g) THEN rec
            ELSE IF Overflows(Len(rec.buf), RequestCap) THEN [rec EXCEPT !.overCap = TRUE, !.buf = <<>>]
            ELSE [rec EXCEPT !.buf = Append(@, <<g, send[g].sent + 1>>)]
  /\ UNCHANGED <<phase, sampled, ctxDone, bodyVars, parser, obs>>

SendClose(g) ==   \* at any point: a response may come early
  /\ send[g].at = "open"
  /\ send' = [send EXCEPT ![g].at = "closing"]
  /\ UNCHANGED <<phase, sampled, ctxDone, rec, bodyVars, parser, obs>>

(* Mutant: a late Close of an older transmission completes the newest.     *)
MutCompletes(g) == rec.active

Completes(g) == g = rec.gen

markClosed(g) ==
  /\ send[g].at \in {"eof", "closing"}
  /\ send' = [send EXCEPT ![g].at = "done"]
  /\ rec' = [rec EXCEPT !.closed = @ \/ Completes(g)]
  /\ UNCHANGED <<phase, sampled, ctxDone, bodyVars, parser, obs>>

(* Bound: after the snapshot the recorder ignores what is still sent.      *)
Transmit(g) == ~rec.disabled /\ (SendRead(g) \/ observe(g) \/ SendClose(g) \/ markClosed(g))

-----------------------------------------------------------------------------
(* The response's headers, or an error in their place                      *)

TransportError ==   \* and, unsampled, a response without a body
  /\ phase = "exchange"
  /\ phase' = "failed"
  /\ \E outcome \in {"failed"} \cup (IF ctxDone THEN {"canceled"} ELSE {}) :
       obs' = [updates |-> IF sampled THEN 1 ELSE 0, ends |-> 1, wire |-> outcome, outcome |-> outcome]
  /\ UNCHANGED <<sampled, ctxDone, requestVars, bodyVars, parser>>

newBodyWrapper ==
  /\ phase = "exchange"
  /\ phase' = "response" /\ held' = TRUE
  /\ \E m \in Modes : body' = [body EXCEPT !.mode = IF sampled THEN m ELSE "ignore"]
  /\ UNCHANGED <<sampled, ctxDone, requestVars, reads, rcClosed, actor, seen, parser, obs>>

-----------------------------------------------------------------------------
(* What a chunk does to the capture                                        *)

Terminals == [success |-> "complete", failure |-> "failed", incomplete |-> "incomplete",
              oversizedSuccess |-> IF Salvages THEN "complete" ELSE "none"]

(* Chunks by the mode that can tell them: server-sent events, the last one *)
(* completed unless a "half" follows, or pieces of a JSON document.        *)
EventChunks == DOMAIN Terminals \cup {"event", "half", "oversized"}
JsonChunks  == {"part", "last", "space"}   \* "space" decides nothing and ends nothing
Chunks == EventChunks \cup JsonChunks

TerminalOf(chunk) == IF chunk \in DOMAIN Terminals THEN Terminals[chunk] ELSE "none"

(* The JSON received so far: "whole" is one complete value, and what once  *)
(* looked like half an event begins none.                                  *)
JsonAfter(b, chunk) ==
  IF b.pending THEN "bad"
  ELSE IF chunk = "space" THEN b.json
  ELSE IF b.json \in {"whole", "bad"} THEN "bad"
  ELSE IF chunk = "last" THEN "whole" ELSE "open"

(* A unary body over its cap is dropped, and streamed to the parser that   *)
(* salvages.                                                               *)
Unary(b, chunk) ==
  [b EXCEPT !.json = JsonAfter(b, chunk),
            !.len = IF b.over \/ Overflows(@, ResponseCap) THEN 0 ELSE @ + 1,
            !.over = @ \/ Overflows(b.len, ResponseCap)]

Oversized == {"oversized", "oversizedSuccess"}

Fed(b, chunk) ==
  [b EXCEPT !.pending = chunk = "half",
            !.discarded = @ \/ (chunk \in Oversized /\ ~Salvages)]

(* recoverParse: the parser panicked while it was fed or finished.         *)
recoverParse(b, during) == [b EXCEPT !.mode = "ignore", !.panicked = during]

(* sniffDecide: the mode once this chunk is in.                            *)
SniffedModes(chunk) ==
  IF body.mode # "undecided" THEN {body.mode}
  ELSE IF chunk = "half" THEN {"undecided", "sse"}
  ELSE IF chunk = "space" /\ ~body.pending THEN {"undecided", "unary"}
  ELSE IF chunk \in JsonChunks THEN {"unary"} ELSE {"sse"}

Captured(b, chunk) ==
  IF b.mode = "unary" THEN Unary(b, chunk)
  ELSE IF b.mode = "sse" THEN Fed(b, chunk)
  ELSE [b EXCEPT !.pending = @ \/ chunk = "half"]

ParserFed(b, chunk) ==
  \/ b.mode = "sse" /\ chunk # "half" /\ (chunk \in Oversized => Salvages)
  \/ b.mode = "unary" /\ Captured(b, chunk).over /\ Salvages

Fits(m, chunk) ==   \* chunks that a body in this mode tells apart
  \/ m = "undecided"
  \/ m = "ignore" /\ chunk = "part"
  \/ m = "unary" /\ chunk \in JsonChunks
  \/ m = "sse" /\ chunk \in EventChunks

-----------------------------------------------------------------------------
(* Read, Close and the finalizer                                           *)

Goes(a, r) == actor' = [actor EXCEPT ![a] = r]

(* Mutant: only outcomes that freeze the body are final.                   *)
MutClaimed(outcome) == outcome \in {"complete", "failed", "incomplete"}

Claimed(outcome) == outcome # "none"

finalizeLocked(a, b, outcome, then) ==
  /\ body' = [b EXCEPT !.finalized = Claimed(outcome)]
  /\ Goes(a, [actor[a] EXCEPT !.at = "snapshot", !.outcome = outcome, !.then = then])

ReadBody ==
  /\ phase = "response" /\ held /\ actor["reader"].at = "idle" /\ reads < MaxReads
  /\ \E chunk \in Chunks \cup {"none"}, err \in {"nil", "EOF", "canceled", "reset", "closed"} :
       /\ chunk = "none" => err # "nil"
       /\ IF rcClosed THEN chunk = "none" /\ err = "closed" ELSE err # "closed"
       /\ err = "canceled" => ctxDone
       /\ chunk # "none" => Fits(body.mode, chunk)
       /\ Goes("reader", [Idle EXCEPT !.chunk = chunk, !.err = err,
                            !.at = IF chunk = "none" THEN "terminal" ELSE "process"])
  /\ reads' = reads + 1
  /\ UNCHANGED <<phase, sampled, ctxDone, requestVars, body, held, rcClosed, parser, obs, seen>>

(* Mutant: a body that has its outcome goes on parsing.                    *)
MutInert == body.mode = "ignore"

Inert == body.finalized \/ body.mode = "ignore"

(* Mutant: an error that comes with bytes is not looked at.                *)
MutAfterProcess == "done read"

AfterProcess == IF actor["reader"].err = "nil" THEN "done read" ELSE "terminal"

(* Mutant: what the parser finds in an oversized event goes unheard.       *)
MutVerdict(m, chunk) == IF m = "sse" /\ chunk \notin Oversized THEN TerminalOf(chunk) ELSE "none"

Verdict(m, chunk) == IF m = "sse" THEN TerminalOf(chunk) ELSE "none"

process ==
  LET chunk == actor["reader"].chunk IN
  /\ actor["reader"].at = "process"
  /\ IF Inert
       THEN Goes("reader", [actor["reader"] EXCEPT !.at = AfterProcess]) /\ UNCHANGED <<body, parser>>
       ELSE \E m \in SniffedModes(chunk) :
              LET b == [body EXCEPT !.mode = m]
                  terminal == Verdict(m, chunk)
                  Onward == Goes("reader", [actor["reader"] EXCEPT !.at = AfterProcess])
              IN /\ parser' = [parser EXCEPT !.fed = @ + (IF ParserFed(b, chunk) THEN 1 ELSE 0)]
                 /\ \/ ParserFed(b, chunk) /\ body' = recoverParse(b, "feeding") /\ Onward
                    \/ terminal = "none" /\ body' = Captured(b, chunk) /\ Onward
                    \/ /\ terminal # "none"
                       /\ finalizeLocked("reader", Captured(b, chunk), terminal, AfterProcess)
  /\ UNCHANGED <<phase, sampled, ctxDone, requestVars, reads, held, rcClosed, obs, seen>>

(* A protocol without a sentinel takes any stream's end for its success.   *)
EofOutcomes ==
  IF body.mode # "sse" THEN {"complete"}
  ELSE {"incomplete"} \cup (IF body.pending THEN {} ELSE {"complete"})

causallyCanceled(err) == ctxDone /\ err = "canceled"

terminalRead ==
  LET err == actor["reader"].err
      finished == err = "EOF" /\ ((body.mode = "unary" /\ (body.over => Salvages))
                                  \/ body.mode \in {"undecided", "sse"})
  IN
  /\ actor["reader"].at = "terminal"
  /\ IF body.finalized
       THEN /\ Goes("reader", [actor["reader"] EXCEPT !.at = "done read"])
            /\ UNCHANGED <<body, parser>>
       ELSE /\ parser' = [parser EXCEPT !.fed = @ + (IF finished THEN 1 ELSE 0)]
            /\ \/ \E outcome \in IF err = "EOF" THEN EofOutcomes
                                ELSE IF causallyCanceled(err) THEN {"canceled"} ELSE {"failed"} :
                    finalizeLocked("reader", body, outcome, "done read")
               \/ /\ finished /\ body' = recoverParse(body, "finishing")
                  /\ Goes("reader", [actor["reader"] EXCEPT !.at = "done read"])
  /\ UNCHANGED <<phase, sampled, ctxDone, requestVars, reads, held, rcClosed, obs, seen>>

ReadReturns ==
  LET r == actor["reader"] IN
  /\ r.at = "done read"
  /\ seen' = [terminal |-> IF seen.terminal = "none" /\ body.mode = "sse" THEN TerminalOf(r.chunk)
                           ELSE seen.terminal,
              err |-> IF seen.err = "nil" THEN r.err ELSE seen.err]
  /\ Goes("reader", IF r.err = "nil" THEN Idle ELSE [Idle EXCEPT !.at = "ended"])
  /\ UNCHANGED <<phase, sampled, ctxDone, requestVars, body, reads, held, rcClosed, parser, obs>>

Close ==
  /\ phase = "response" /\ held /\ actor["closer"].at = "idle"
  /\ rcClosed' = TRUE
  /\ Goes("closer", [Idle EXCEPT !.at = "close"])
  /\ UNCHANGED <<phase, sampled, ctxDone, requestVars, body, reads, held, parser, obs, seen>>

closeTelemetry(a) ==
  LET whole == body.mode = "unary" /\ body.json = "whole" /\ (body.over => Salvages) IN
  /\ actor[a].at = "close"
  /\ IF body.finalized
       THEN Goes(a, [Idle EXCEPT !.at = "ended"]) /\ UNCHANGED <<body, parser>>
       ELSE /\ parser' = [parser EXCEPT !.fed = @ + (IF whole THEN 1 ELSE 0)]
            /\ \/ finalizeLocked(a, body, IF whole THEN "complete" ELSE "closedEarly", "ended")
               \/ whole /\ body' = recoverParse(body, "finishing") /\ Goes(a, [Idle EXCEPT !.at = "ended"])
  /\ UNCHANGED <<phase, sampled, ctxDone, requestVars, reads, held, rcClosed, obs, seen>>

Drop ==   \* the application lets the body go, closed or not
  /\ phase = "response" /\ held
  /\ actor["reader"].at \in {"idle", "ended"} /\ actor["closer"].at \in {"idle", "ended"}
  /\ held' = FALSE
  /\ UNCHANGED <<phase, sampled, ctxDone, requestVars, body, reads, rcClosed, actor, parser, obs, seen>>

abandon ==   \* the finalizer is cleared once there is an outcome
  /\ phase = "response" /\ ~held /\ ~body.finalized /\ actor["collector"].at = "idle"
  /\ rcClosed' = TRUE
  /\ Goes("collector", [Idle EXCEPT !.at = "close"])
  /\ UNCHANGED <<phase, sampled, ctxDone, requestVars, body, reads, held, parser, obs, seen>>

-----------------------------------------------------------------------------
(* newFinalizer's function, outside the body's lock                        *)

snapshot(a) ==
  /\ actor[a].at = "snapshot"
  /\ IF sampled
       THEN /\ rec' = [rec EXCEPT !.disabled = TRUE, !.buf = <<>>]
            /\ parser' = IF rec.active /\ rec.closed /\ ~rec.overCap /\ ~rec.disabled
                           THEN [parser EXCEPT !.request = <<rec.buf>>] ELSE parser
       ELSE UNCHANGED <<rec, parser>>
  /\ Goes(a, [actor[a] EXCEPT !.at = "result"])
  /\ UNCHANGED <<phase, sampled, ctxDone, send, body, reads, held, rcClosed, obs, seen>>

(* The parser's result refines a complete outcome; Update, then EndAt.     *)
finalize(a) ==
  /\ actor[a].at = "result"
  /\ parser' = [parser EXCEPT !.taken = sampled]
  /\ \E refined \in IF sampled /\ actor[a].outcome = "complete" THEN {"complete", "failed", "incomplete"}
                    ELSE {actor[a].outcome} :
       obs' = [updates |-> obs.updates + (IF sampled THEN 1 ELSE 0), ends |-> obs.ends + 1,
               wire |-> actor[a].outcome, outcome |-> refined]
  /\ Goes(a, [actor[a] EXCEPT !.at = actor[a].then])
  /\ UNCHANGED <<phase, sampled, ctxDone, requestVars, body, reads, held, rcClosed, seen>>

-----------------------------------------------------------------------------
Read == ReadBody \/ process \/ terminalRead \/ ReadReturns

RoundTrip == Begin \/ TransportError \/ newBodyWrapper

Running ==   \* what a goroutine in the middle of a call does next
  \/ process \/ terminalRead \/ ReadReturns
  \/ \E a \in Actors : closeTelemetry(a) \/ snapshot(a) \/ finalize(a)

Next ==
  \/ RoundTrip \/ GetBody \/ ContextEnds
  \/ \E g \in Sends : Transmit(g)
  \/ ReadBody \/ Close \/ Drop \/ abandon
  \/ Running

Spec == Init /\ [][Next]_vars

(* Calls on the body run to their end; nothing obliges the application to  *)
(* read or close, the base transport to answer, or the collector to run.   *)
FairSpec == Spec /\ WF_vars(Running)

-----------------------------------------------------------------------------
(* Properties                                                              *)

(* Every variable keeps its type, and captures keep within their caps.     *)
TypeOK ==
  /\ phase \in {"new", "exchange", "response", "failed", "untapped"}
  /\ {sampled, ctxDone, held, rcClosed} \subseteq BOOLEAN
  /\ \A g \in Sends : /\ send[g].at \in {"none", "open", "piece", "eof", "closing", "done"}
                      /\ send[g].sent \in 0..RequestPieces
  /\ rec.gen \in 0..MaxSends /\ Len(rec.buf) <= RequestCap
  /\ {rec.overCap, rec.closed, rec.active, rec.disabled} \subseteq BOOLEAN
  /\ body \in [mode : Modes \cup {"none", "unary", "sse", "ignore"}, finalized : BOOLEAN,
               panicked : {"no", "feeding", "finishing"}, json : {"blank", "open", "whole", "bad"},
               len : 0..ResponseCap, over : BOOLEAN, pending : BOOLEAN, discarded : BOOLEAN]
  /\ reads \in 0..MaxReads
  /\ \A a \in Actors :
       /\ actor[a].at \in {"idle", "process", "terminal", "done read", "close", "snapshot",
                           "result", "ended"}
       /\ actor[a].outcome \in {"none", "complete", "failed", "incomplete", "canceled", "closedEarly"}
  /\ parser.fed \in Nat /\ parser.taken \in BOOLEAN /\ Len(parser.request) <= 1

(* An attempt ends once: reads, a Close from another goroutine and the     *)
(* collector agree on who delivers the outcome, and it is one update       *)
(* followed by one end.                                                    *)
EndsOnce ==
  /\ obs.ends <= 1 /\ obs.updates <= 1
  /\ Cardinality({a \in Actors : actor[a].at \in {"snapshot", "result"}}) + obs.ends <= 1

(* Once the finalizer has taken the parser's result, no read that is still *)
(* on its way touches the parser: callbacks are one at a time.             *)
ParserQuiet ==
  [][/\ parser.taken => UNCHANGED parser
     /\ (\E a \in Actors : actor[a].at \in {"snapshot", "result"}) => UNCHANGED parser.fed]_vars

(* What the parser gets for a request is one transmission, the newest, in  *)
(* order and from its start, after that transmission has ended, whatever   *)
(* older transmissions still read or close.                                *)
CaptureIsOneSend ==
  parser.request # <<>> =>
    LET r == parser.request[1] IN
    /\ \A i \in 1..Len(r) : r[i] = <<rec.gen, i>>
    /\ send[rec.gen].at = "done" /\ Len(r) = send[rec.gen].sent

(* The first protocol terminal the application was handed by a Read is the outcome, *)
(* unless a Close got ahead of it, the parser had failed, or the parser's  *)
(* own result refines it.                                                  *)
TerminalWins ==
  (seen.terminal # "none" /\ actor["closer"].at = "idle" /\ body.panicked = "no" /\ sampled) =>
    \/ obs.outcome = seen.terminal
    \/ seen.terminal = "complete" /\ obs.outcome \in {"failed", "incomplete"}

(* Every Read that returned an error and every Close leaves the attempt    *)
(* ended, unless the parser panicked when it was told of the end.          *)
AttemptEnds ==
  <>[](actor["closer"].at # "idle" \/ seen.err # "nil" =>
         obs.ends = 1 \/ body.panicked = "finishing")

(* The adapter's README on statuses: "closed_early (body closed before the *)
(* protocol finished)": an attempt is not recorded as a failure for the    *)
(* error that reads return since the application itself closed the body.   *)
CloseIsNotFailure ==
  (sampled /\ obs.wire = "failed" /\ seen.terminal = "none") => seen.err # "closed"
=============================================================================
