------------------------------- MODULE RestCall -------------------------------
(***************************************************************************)
(* A public REST operation from its first check to its return: masks, the  *)
(* gate that Shutdown closes and drains, the transport's attempts, and the *)
(* pages of a listing.                                                     *)
(*                                                                         *)
(* Every select, every check of a context and every region under the       *)
(* gate's lock is a step.  The operation's context is the caller's, bound  *)
(* to the operation's budget and to the gate's lifecycle, whose end        *)
(* reaches it a step later (context.AfterFunc).  The server may apply a    *)
(* request it received at any later moment, also when its caller has gone. *)
(* Time is abstract: a budget may run out and a retry may find no time     *)
(* left at any moment.                                                     *)
(***************************************************************************)
EXTENDS RestOperations

CONSTANTS
  Callers,
  Assignments,   \* the methods the callers call, a set of functions
  RetryLimit,    \* restRetryLimit
  PagesHeld,     \* pages with entries the server holds for a listing
  Tokens,        \* the cursors the server hands out
  NoMethod, NoToken

ASSUME MethodAssumption ==
  NoMethod \notin Methods /\ Assignments \subseteq [Callers -> Methods \cup {NoMethod}]
ASSUME BoundAssumption ==
  RetryLimit \in Nat /\ PagesHeld \in Nat /\ NoToken \notin Tokens /\ IsFiniteSet(Tokens)

VARIABLES
  method,    \* [Callers -> method called]
  at,        \* [Callers -> program counter]
  left,      \* values the Mask has still to see
  ctx,       \* whether the caller's context has ended
  opctx,     \* whether the operation's context has ended
  inside,    \* the callers the gate's wait group counts
  tries,     \* retries of the request at hand
  failure,   \* the RESTError of the attempt, or NoFailure
  result,    \* what the operation returned
  page, seen,   \* of a listing: the page at hand, the cursors met
  answer,    \* of a listing: the page decoded last
  server,    \* [Callers -> what the server does with the request at hand]
  applied,   \* [Callers -> how often the server has applied the write] (history)
  asked,     \* [Callers -> pages asked for] (history)
  stopped, closing, canceled,   \* Client.stopped, restGate.closing, its lifecycle
  stop       \* where the Shutdown call is

callVars == <<method, at, left, ctx, opctx, tries, failure, result>>
pageVars == <<page, seen, answer, asked>>
wireVars == <<server, applied>>
gateVars == <<stopped, closing, canceled, stop>>
vars == <<callVars, pageVars, wireVars, gateVars, inside>>

NoFailure == [unknown |-> FALSE, notFound |-> FALSE, retry |-> FALSE]
Failure(unknown) == [NoFailure EXCEPT !.unknown = unknown]
NoPage == [entries |-> FALSE, total |-> 0, next |-> NoToken]

Op(c) == Method[method[c]]
IsWrite(c) == Op(c).send.write
Listing(c) == Op(c).pages # "one"
Go(c, step) == at' = [at EXCEPT ![c] = step]
Return(c, r) == Go(c, "done") /\ result' = [result EXCEPT ![c] = r]

Init ==
  /\ method \in Assignments
  /\ at = [c \in Callers |-> IF method[c] = NoMethod THEN "none" ELSE "ready"]
  /\ left \in [Callers -> 0..1]
  /\ \A c \in Callers : left[c] > 0 => method[c] # NoMethod /\ Op(c).masks > 0
  /\ ctx = [c \in Callers |-> FALSE] /\ opctx = ctx
  /\ inside = {}
  /\ tries = [c \in Callers |-> 0]
  /\ failure = [c \in Callers |-> NoFailure]
  /\ result = [c \in Callers |-> "none"]
  /\ page = [c \in Callers |-> 1]
  /\ seen = [c \in Callers |-> {}] /\ answer = [c \in Callers |-> NoPage]
  /\ asked = [c \in Callers |-> 0]
  /\ server = [c \in Callers |-> "none"]
  /\ applied = [c \in Callers |-> 0]
  /\ stopped = FALSE /\ closing = FALSE /\ canceled = FALSE
  /\ stop = "idle"

-----------------------------------------------------------------------------
(* Before the request. *)

ContextEnds(c) ==
  /\ at[c] \notin {"none", "done"} /\ ~ctx[c]
  /\ ctx' = [ctx EXCEPT ![c] = TRUE]
  /\ UNCHANGED <<method, at, left, opctx, tries, failure, result, pageVars, wireVars, gateVars, inside>>

\* The step after step, with n values the Mask has still to see: the gate is
\* entered last, so that a Mask that calls Shutdown is not what it waits for.
\* Mutant: the gate is entered before the Mask has run.
MutFollowing(step, n) ==
  CASE step = "ready" -> "enter" [] step # "ready" /\ n > 0 -> "mask" [] OTHER -> "attempt"
Following(step, n) ==
  CASE step = "enter" -> "attempt" [] step # "enter" /\ n > 0 -> "mask" [] OTHER -> "enter"

\* restReady, and restUnavailable alone for every page after the first.
Ready(c) ==
  /\ at[c] = "ready"
  /\ \/ page[c] = 1 /\ asked[c] = 0 /\ Op(c).checks # {} /\ Return(c, "invalid")
     \/ stopped /\ Return(c, "shutdown")
     \/ ~stopped /\ Go(c, Following("ready", left[c])) /\ UNCHANGED result
  /\ UNCHANGED <<method, left, ctx, opctx, tries, failure, pageVars, wireVars, gateVars, inside>>

\* The application's Mask sees a value.  A strict one may fail the call.
Mask(c) ==
  /\ at[c] = "mask"
  /\ \/ left' = [left EXCEPT ![c] = @ - 1]
        /\ Go(c, Following("mask", left[c] - 1)) /\ UNCHANGED result
     \/ Op(c).strict /\ Return(c, "invalid") /\ UNCHANGED left
  /\ UNCHANGED <<method, ctx, opctx, tries, failure, pageVars, wireVars, gateVars, inside>>

\* The Mask shuts the client down: it makes the call, or finds one under way
\* and gets its answer at once.
MaskShutsDown(c) ==
  /\ at[c] = "mask" /\ stop = "idle"
  /\ stop' = "publish"
  /\ Go(c, "shutting")
  /\ UNCHANGED <<method, left, ctx, opctx, tries, failure, result, pageVars, wireVars,
                 stopped, closing, canceled, inside>>

MaskGoesOn(c) ==
  /\ at[c] = "shutting" /\ stop \in {"drained", "expired"}
  /\ Go(c, "mask")
  /\ UNCHANGED <<method, left, ctx, opctx, tries, failure, result, pageVars, wireVars, gateVars, inside>>

Serialize(c) ==
  /\ at[c] = "enter" /\ Op(c).body # {}
  /\ Return(c, "invalid")
  /\ UNCHANGED <<method, left, ctx, opctx, tries, failure, pageVars, wireVars, gateVars, inside>>

\* Mutant: a closing gate still admits.
MutAdmitted == TRUE
Admitted == ~closing

\* restGate.enter; the operation's context starts as ended as its parents are.
enter(c) ==
  /\ at[c] = "enter"
  /\ IF Admitted
     THEN /\ inside' = inside \cup {c}
          /\ opctx' = [opctx EXCEPT ![c] = ctx[c]]
          /\ tries' = [tries EXCEPT ![c] = 0]
          /\ Go(c, Following("enter", left[c])) /\ UNCHANGED result
     ELSE Return(c, "shutdown") /\ UNCHANGED <<inside, opctx, tries>>
  /\ UNCHANGED <<method, left, ctx, failure, pageVars, wireVars, gateVars>>

\* The budget runs out, or the caller's context or the lifecycle has ended.
OperationEnds(c) ==
  /\ c \in inside /\ ~opctx[c]
  /\ opctx' = [opctx EXCEPT ![c] = TRUE]
  /\ UNCHANGED <<method, at, left, ctx, tries, failure, result, pageVars, wireVars, gateVars, inside>>

-----------------------------------------------------------------------------
(* The attempts. *)

Retries(c, f) == f.retry /\ tries[c] < RetryLimit /\ ~opctx[c]

\* The attempt failed with f.  A retry also needs time before the deadline.
Fails(c, f) ==
  /\ failure' = [failure EXCEPT ![c] = f]
  /\ \/ Retries(c, f) /\ Go(c, "backoff")
     \/ Go(c, "failed")

\* canceledError: the operation's context has ended.
canceledError(c, unknown) ==
  /\ failure' = [failure EXCEPT ![c] = Failure(unknown)]
  /\ Go(c, "failed")

\* attempt, up to client.Do: a dial that fails has sent nothing.
Attempt(c) ==
  /\ at[c] = "attempt"
  /\ \/ /\ opctx[c] /\ canceledError(c, FALSE)
        /\ UNCHANGED <<server, asked>>
     \/ /\ ~opctx[c]
        /\ Go(c, "sent") /\ server' = [server EXCEPT ![c] = "dialing"]
        /\ asked' = [asked EXCEPT ![c] = IF tries[c] = 0 THEN @ + 1 ELSE @]
        /\ UNCHANGED failure
  /\ UNCHANGED <<method, left, ctx, opctx, tries, result, page, seen, answer, applied, gateVars, inside>>

\* The connection is there, and the request goes out.
Transmit(c) ==
  /\ at[c] = "sent" /\ server[c] = "dialing"
  /\ server' = [server EXCEPT ![c] = "sent"]
  /\ UNCHANGED <<callVars, pageVars, applied, gateVars, inside>>

\* The server takes the request up: it applies it, or refuses it.
Serve(c) ==
  /\ server[c] = "sent"
  /\ \/ server' = [server EXCEPT ![c] = "applied"]
        /\ applied' = [applied EXCEPT ![c] = IF IsWrite(c) THEN @ + 1 ELSE @]
     \/ server' = [server EXCEPT ![c] = "refused"] /\ UNCHANGED applied
  /\ UNCHANGED <<callVars, pageVars, gateVars, inside>>

\* client.Do fails: the dial, the connection, the client's timeout, or the
\* operation's context.
DoFails(c) ==
  /\ at[c] = "sent"
  /\ IF opctx[c]
     THEN canceledError(c, IsWrite(c))
     ELSE Fails(c, [Failure(IsWrite(c) /\ server[c] # "dialing") EXCEPT !.retry = ~IsWrite(c)])
  /\ server' = [server EXCEPT ![c] = IF @ = "dialing" THEN "none" ELSE @]
  /\ UNCHANGED <<method, left, ctx, opctx, tries, result, pageVars, applied, gateVars, inside>>

\* The statuses: 404, the others that mean refused before a commit, those a
\* gateway may send whatever the server did, of which some are retried.
Statuses == {"notFound", "rejected", "transient", "gateway"}
\* Langfuse answers so only when it has not applied the request.
NotApplied == {"notFound", "rejected"}
writeRejectedBeforeCommit(status) == status \in {"notFound", "rejected"}
retryableStatus(status) == status = "transient"

\* Mutant: a transient status of a write is retried, as a read's is.
MutStatusFailure(c, status) ==
  [unknown |-> IsWrite(c) /\ ~writeRejectedBeforeCommit(status),
   notFound |-> status = "notFound",
   retry |-> retryableStatus(status)]
StatusFailure(c, status) ==
  [unknown |-> IsWrite(c) /\ ~writeRejectedBeforeCommit(status),
   notFound |-> status = "notFound",
   retry |-> ~IsWrite(c) /\ retryableStatus(status)]

Refused(c) ==
  /\ at[c] = "sent" /\ server[c] # "dialing"
  /\ \E status \in Statuses :
       /\ status \in NotApplied => server[c] = "refused"
       /\ Fails(c, StatusFailure(c, status))
  /\ UNCHANGED <<method, left, ctx, opctx, tries, result, pageVars, wireVars, gateVars, inside>>

\* A 2xx whose body breaks off, is too large, or is refused by the decoder.
AnswerLost(c) ==
  /\ at[c] = "sent" /\ server[c] = "applied"
  /\ \/ opctx[c] /\ canceledError(c, IsWrite(c))
     \/ Fails(c, Failure(IsWrite(c)))
     \/ Op(c).send.refuses # {} /\ Fails(c, Failure(Op(c).send.write))
  /\ UNCHANGED <<method, left, ctx, opctx, tries, result, pageVars, wireVars, gateVars, inside>>

\* The pages the server can answer with: it may overstate its page count and
\* hand out any cursor, but holds no entries beyond its own pages.
PagesOf(c) ==
  IF Op(c).pages = "numbered"
  THEN [entries : IF page[c] <= PagesHeld THEN BOOLEAN ELSE {FALSE},
        total : 0..PagesHeld + 2, next : {NoToken}]
  ELSE [entries : {TRUE}, total : {0}, next : Tokens \cup {NoToken}]

Answered(c) ==
  /\ at[c] = "sent" /\ server[c] = "applied"
  /\ IF Listing(c) THEN \E p \in PagesOf(c) : answer' = [answer EXCEPT ![c] = p]
                   ELSE UNCHANGED answer
  /\ failure' = [failure EXCEPT ![c] = NoFailure]
  /\ Go(c, "answered")
  /\ UNCHANGED <<method, left, ctx, opctx, tries, result, page, seen, asked, wireVars, gateVars, inside>>

\* The wait before a retry: the timer, or the operation's context.
Backoff(c) ==
  /\ at[c] = "backoff"
  /\ \/ /\ Go(c, "attempt") /\ tries' = [tries EXCEPT ![c] = @ + 1]
        /\ UNCHANGED failure
     \/ opctx[c] /\ canceledError(c, FALSE) /\ UNCHANGED tries
  /\ UNCHANGED <<method, left, ctx, opctx, result, pageVars, wireVars, gateVars, inside>>

-----------------------------------------------------------------------------
(* After the request. *)

release(c) ==
  /\ at[c] \in {"answered", "failed"} /\ c \in inside
  /\ inside' = inside \ {c}
  /\ UNCHANGED <<callVars, pageVars, wireVars, gateVars>>

\* restFailure: the mapped 404, or whether the outcome is known and why the
\* request did not finish.
Reason(c) == CASE ctx[c] -> "context" [] ~ctx[c] /\ canceled -> "shutdown" [] OTHER -> "own"
restFailure(c) ==
  /\ at[c] = "failed" /\ c \notin inside
  /\ Return(c, IF failure[c].notFound /\ Op(c).missing # "" THEN "notFound"
               ELSE IF failure[c].unknown THEN "unknown"
               ELSE IF Reason(c) = "own" THEN "failed" ELSE Reason(c))
  /\ UNCHANGED <<method, left, ctx, opctx, tries, failure, pageVars, wireVars, gateVars, inside>>

Succeeds(c) ==
  /\ at[c] = "answered" /\ c \notin inside /\ ~Listing(c)
  /\ Return(c, "ok")
  /\ UNCHANGED <<method, left, ctx, opctx, tries, failure, pageVars, wireVars, gateVars, inside>>

LastPage(c) == ~answer[c].entries \/ page[c] >= answer[c].total

numberedPages(c) ==
  /\ Op(c).pages = "numbered"
  /\ IF LastPage(c)
     THEN Return(c, "ok") /\ UNCHANGED page
     ELSE Go(c, "ready") /\ page' = [page EXCEPT ![c] = @ + 1] /\ UNCHANGED result
  /\ UNCHANGED seen

\* Mutant: a cursor met before is asked for again.
MutRepeated(c) == FALSE
Repeated(c) == answer[c].next \in seen[c]

cursorPages(c) ==
  /\ Op(c).pages = "cursor"
  /\ IF answer[c].next = NoToken THEN Return(c, "ok") /\ UNCHANGED seen
     ELSE IF Repeated(c) THEN Return(c, "repeated") /\ UNCHANGED seen
     ELSE /\ Go(c, "ready") /\ UNCHANGED result
          /\ seen' = [seen EXCEPT ![c] = @ \cup {answer[c].next}]
  /\ UNCHANGED page

\* The loop body takes the entries of a page, or breaks off.
Yield(c) ==
  /\ at[c] = "answered" /\ c \notin inside /\ Listing(c)
  /\ \/ numberedPages(c)
     \/ cursorPages(c)
     \/ answer[c].entries /\ Return(c, "broke") /\ UNCHANGED <<page, seen>>
  /\ server' = [server EXCEPT ![c] = "none"]
  /\ UNCHANGED <<method, left, ctx, opctx, tries, failure, answer, asked, applied, gateVars, inside>>

-----------------------------------------------------------------------------
(* Client.Shutdown as far as it concerns the REST gate. *)

ShutdownStarts ==
  /\ stop = "idle"
  /\ stop' = "publish"
  /\ UNCHANGED <<callVars, pageVars, wireVars, stopped, closing, canceled, inside>>

Publish ==
  /\ stop = "publish"
  /\ stopped' = TRUE /\ stop' = "begin"
  /\ UNCHANGED <<callVars, pageVars, wireVars, closing, canceled, inside>>

beginShutdown ==
  \/ /\ stop = "begin"
     /\ closing' = TRUE /\ stop' = "cancel"
     /\ UNCHANGED <<callVars, pageVars, wireVars, stopped, canceled, inside>>
  \/ /\ stop = "cancel"
     /\ canceled' = TRUE /\ stop' = "drain"
     /\ UNCHANGED <<callVars, pageVars, wireVars, stopped, closing, inside>>

\* restGate.shutdown: the wait group is empty, or the call's context ends.
shutdown ==
  /\ stop = "drain"
  /\ \/ inside = {} /\ stop' = "drained"
     \/ stop' = "expired"
  /\ UNCHANGED <<callVars, pageVars, wireVars, stopped, closing, canceled, inside>>

-----------------------------------------------------------------------------
Local(c) ==
  \/ Ready(c) \/ Mask(c) \/ MaskShutsDown(c) \/ MaskGoesOn(c) \/ Serialize(c) \/ enter(c)
Request(c) ==
  \/ Attempt(c) \/ Transmit(c) \/ DoFails(c) \/ Refused(c) \/ AnswerLost(c) \/ Answered(c) \/ Backoff(c)
After(c) == release(c) \/ restFailure(c) \/ Succeeds(c) \/ Yield(c)
ShutdownSteps == Publish \/ beginShutdown

Next ==
  \/ \E c \in Callers : ContextEnds(c) \/ OperationEnds(c) \/ Serve(c) \/ Local(c) \/ Request(c) \/ After(c)
  \/ ShutdownStarts \/ ShutdownSteps \/ shutdown

Spec == Init /\ [][Next]_vars

\* The goroutines run, the application's callbacks and loop bodies return, and
\* an attempt ends by the client's timeout at the latest.  Calls being finite,
\* it is enough that one that can take a step does.  Nothing is asked of the
\* server, and no context need end.
Running ==
  \/ \E c \in Callers : Local(c) \/ Request(c) \/ After(c)
  \/ ShutdownSteps
  \/ stop = "drain" /\ inside = {} /\ shutdown
Fairness == WF_vars(Running)
FairSpec == Spec /\ Fairness

-----------------------------------------------------------------------------
\* Once Shutdown has drained the gate no operation is inside it, so none sends
\* a request after Shutdown has returned (restGate.enter against shutdown).
GateStaysDrained == stop = "drained" => inside = {}

\* A listing asks for at most one page beyond those the server holds, and for
\* no cursor twice, whatever page counts and cursors it is given.
ListingsAreBounded ==
  \A c \in Callers : at[c] # "none" =>
    asked[c] <= CASE Op(c).pages = "one" -> 1
                  [] Op(c).pages = "numbered" -> PagesHeld + 1
                  [] OTHER -> Cardinality(Tokens) + 1

\* The server applies a write at most once, a second time not being a step of
\* WriteOnce; success means it was applied, and any error but an unknown outcome
\* that it was not and will not be.
Tells(c) ==
  IF at[c] # "done" \/ ~IsWrite(c) THEN "none"
  ELSE IF result[c] \in {"ok", "unknown"} THEN result[c] ELSE "failed"
Told == [c \in Callers |-> Tells(c)]
Write == INSTANCE WriteOnce WITH
  Writers <- Callers, applied <- applied, verdict <- Told
ImplementsWriteOnce == Write!Spec

\* Every operation returns, and so does Shutdown, also when a Mask calls it.
Quiet == (\A c \in Callers : at[c] \in {"none", "done"}) /\ stop \in {"idle", "drained", "expired"}
CallsReturn == <>[]Quiet
=============================================================================
