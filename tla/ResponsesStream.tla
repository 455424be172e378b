---------------------------- MODULE ResponsesStream ---------------------------
(***************************************************************************)
(* The parser of one /responses attempt: typed stream events accumulate    *)
(* items by output index until a terminal event, which carries the final   *)
(* response and is authoritative; or one unary body.                       *)
(*                                                                         *)
(* An event is a record with its type and what the type uses of: index and *)
(* id of its item, the slot of the item it writes, text, the finished      *)
(* item, and the embedded response.  A text is a sequence, its length is   *)
(* its bytes.  Whether a payload passes the grammar scanner, and what the  *)
(* scanner salvages of one over the event cap, is ControlScanner's.        *)
(***************************************************************************)
EXTENDS Naturals, Sequences, FiniteSets

CONSTANTS
  Events,        \* the events the provider may send
  Bodies,        \* the unary bodies the provider may send
  MaxEvents,     \* bound: events of one stream
  MaxItems,      \* maxResponseItems
  MaxParts,      \* maxContentParts
  CaptureCap     \* the capture cap

(* What an event, a finished item and a unary body may hold.               *)
ItemTypes == [id : STRING, kind : STRING, text : Seq(STRING), large : BOOLEAN]
BodyTypes == [valid : BOOLEAN, status : STRING, id : STRING, error : BOOLEAN, output : BOOLEAN, items : Seq(ItemTypes)]
EventTypes ==
  [type : {"terminal", "error", "delta", "text", "image", "audio", "added", "done", "lifecycle", "unusable"},
   index : Nat, id : STRING, slot : {"args", "summary", "text", "refusal"} \X Nat, text : Seq(STRING),
   oversized : BOOLEAN, transcript : BOOLEAN, class : STRING, item : ItemTypes, body : BodyTypes]

ASSUME EventsAssumption ==
  /\ Events \subseteq EventTypes
  /\ \A e \in Events : e.type = "terminal" => e.class \in {"completed", "failed", "incomplete"}
ASSUME BodiesAssumption ==
  \A body \in Bodies : /\ {body.valid, body.error, body.output, body.oversized, body.httpError} \subseteq BOOLEAN
                       /\ {body.status, body.id} \subseteq STRING /\ body.items \in Seq(ItemTypes)
ASSUME ResponsesBounds == {MaxEvents, MaxItems, MaxParts, CaptureCap} \subseteq Nat

VARIABLES
  call,      \* the responsesCall
  verdict,   \* the terminal verdict, "none" until there is one
  stamped,   \* whether an event that was not salvaged has borne output (history)
  sent,      \* the number of events fed
  said,      \* what the provider sent, by index (history)
  claims,    \* the class and the status of the terminal event (history)
  exceeded   \* whether an event has gone over the capture cap (history)

responsesVars == <<call, verdict, stamped, sent, said, claims, exceeded>>

-----------------------------------------------------------------------------
(* Items.  A slot is a place an item accumulates text in: its arguments,    *)
(* its reasoning summary, a text or a refusal by content index.             *)

Args == <<"args", 0>>
Summary == <<"summary", 0>>
Texts(parts) == {"text", "refusal"} \X parts
Slots == {Args, Summary} \cup Texts(0..MaxParts - 1)
Indices == 0..MaxItems - 1
Empty == [s \in Slots |-> <<>>]
NotDone == [kind |-> "none", text |-> <<>>]

responseItemState == [id |-> "", kind |-> "unknown", tombstone |-> FALSE, done |-> NotDone,
                      text |-> Empty, imaged |-> FALSE]

\* The discriminators whose content is kept; every other one is a placeholder.
Retained == {"message", "function_call", "reasoning"}
KindOf(slot) == CASE slot = Args -> "function_call" [] slot = Summary -> "reasoning" [] OTHER -> "message"

\* sanitizeResponsesOutputItem: the item as it is kept, whether it carries
\* visible output, and whether something was left out.
Placeholder(kind) == [kind |-> kind, text |-> <<>>]
sanitizeResponsesOutputItem(item) ==
  [kept |-> IF item.kind \in Retained THEN [kind |-> item.kind, text |-> item.text] ELSE Placeholder(item.kind),
   bearing |-> item.text # <<>> /\ item.kind \in {"message", "function_call", "image_generation_call"},
   partial |-> item.kind \notin Retained]

\* render: what an item that was not finished shows, and the slots it is in.
Shows(item, slots) == {s \in slots : item.text[s] # <<>>}
render(item) ==
  IF item.imaged THEN Placeholder("image_generation_call")
  ELSE IF item.text[Args] # <<>> \/ item.kind = "function_call"
    THEN [kind |-> "function_call", text |-> [s \in {Args} |-> item.text[s]]]
  ELSE IF item.text[Summary] # <<>> THEN [kind |-> "reasoning", text |-> [s \in {Summary} |-> item.text[s]]]
  ELSE LET shown == Shows(item, Texts(0..MaxParts - 1))
       IN IF shown = {} THEN NotDone ELSE [kind |-> "message", text |-> [s \in shown |-> item.text[s]]]

-----------------------------------------------------------------------------
(* The call.  What an operator makes of a call is the next call.  error is  *)
(* whether it has an error category, errorOut whether it holds an error     *)
(* object to show.                                                          *)

newResponsesCall == [items |-> <<>>, bytes |-> 0, partial |-> FALSE, audio |-> FALSE, id |-> "",
                     final |-> <<>>, haveFinal |-> FALSE, haveUnary |-> FALSE,
                     incomplete |-> FALSE, error |-> FALSE, errorOut |-> FALSE]

Degraded(c) == [c EXCEPT !.partial = TRUE]

\* The verdict of one event: whether it bore output, and the terminal.
Continue(c, output) == [call |-> c, output |-> output, terminal |-> "none"]

\* An item keeps its first id, and no id is of two items.
Binds(c, i, id) ==
  IF c.items[i].id = "" THEN \A j \in DOMAIN c.items \ {i} : c.items[j].id # id ELSE c.items[i].id = id
bindIdentity(c, i, id) ==
  [ok |-> id = "" \/ Binds(c, i, id),
   call |-> IF id = "" THEN c ELSE IF Binds(c, i, id) THEN [c EXCEPT !.items[i].id = id] ELSE Degraded(c)]

\* itemFor: the item of the event's index, opened if need be.
Opened(items, i) ==
  [j \in DOMAIN items \cup {i} |-> IF j \in DOMAIN items THEN items[j] ELSE responseItemState]
itemFor(c, e) ==
  IF e.index \notin Indices THEN [ok |-> FALSE, call |-> Degraded(c)]
  ELSE bindIdentity([c EXCEPT !.items = Opened(@, e.index)], e.index, e.id)

\* Mutant: the cap drops what was kept without saying so.
MutOverCap(c) == [c EXCEPT !.items = <<>>]
\* charge, over the cap: everything accumulated goes.
OverCap(c) == [Degraded(c) EXCEPT !.items = <<>>]
FitsCap(c, n) == c.bytes + n <= CaptureCap

\* appendText, replaceText and the deltas of arguments and summaries.
Written(item, slot, text, replace) ==
  [item EXCEPT !.kind = KindOf(slot), !.text[slot] = IF replace THEN text ELSE @ \o text]
\* Mutant: output is what the event holds, kept or not.
MutBears(e, accepted) == e.text # <<>>
\* Reasoning is not output.
Bears(e, accepted) == accepted /\ e.slot # Summary

\* What the event's slot and text, or a finished item, leave nothing to write of.
\* An empty summary is written all the same.
Void(c, e) ==
  c.items[e.index].tombstone \/ e.slot \notin Slots \/ (e.text = <<>> /\ e.slot # Summary)

Exceeds(c, e) ==
  LET found == itemFor(c, e)
  IN found.ok /\ ~Void(found.call, e) /\ ~FitsCap(found.call, Len(e.text))

\* replace is whether the event carries the whole text of its slot; what it
\* replaces has been charged for and stays so.
Write(c, e, replace) ==
  LET found == itemFor(c, e)
  IN CASE ~found.ok -> Continue(found.call, Bears(e, FALSE))
       [] found.ok /\ Void(found.call, e) ->
            Continue(IF e.slot \in Slots THEN found.call ELSE Degraded(found.call), Bears(e, FALSE))
       [] Exceeds(c, e) -> Continue(OverCap(found.call), Bears(e, FALSE))
       [] OTHER -> Continue([found.call EXCEPT !.bytes = @ + Len(e.text),
                                               !.items[e.index] = Written(@, e.slot, e.text, replace)],
                            Bears(e, TRUE))

\* A stale image for a finished identity changes nothing.
partialImage(c, e) ==
  LET found == itemFor(c, e)
  IN CASE ~found.ok -> Continue(found.call, FALSE)
       [] found.ok /\ found.call.items[e.index].tombstone -> Continue(Degraded(found.call), FALSE)
       [] OTHER -> Continue([found.call EXCEPT !.items[e.index].imaged = TRUE,
                                               !.items[e.index].kind = "image_generation_call"], TRUE)

\* output_item.added: identity, and a kind if it has one; no content.
bindItem(c, e) ==
  LET found == itemFor(c, e)
      bound == bindIdentity(found.call, e.index, e.item.id)
  IN Continue(CASE ~found.ok -> found.call
                [] found.ok /\ ~bound.ok -> bound.call
                [] OTHER -> [bound.call EXCEPT !.items[e.index].kind = IF e.item.kind # "" THEN e.item.kind ELSE @],
              FALSE)

\* output_item.done: the finished item replaces what was accumulated, or is a
\* tombstone when it is too large.
finalizeItem(c, e) ==
  LET found == itemFor(c, e)
      bound == bindIdentity(found.call, e.index, e.item.id)
      clean == sanitizeResponsesOutputItem(e.item)
      fresh(item, done) == [item EXCEPT !.done = done, !.text = Empty, !.tombstone = e.item.large]
  IN CASE ~found.ok -> Continue(found.call, FALSE)
       [] found.ok /\ ~bound.ok -> Continue(bound.call, FALSE)
       [] found.ok /\ bound.ok /\ e.item.large ->
            Continue([Degraded(bound.call) EXCEPT !.items[e.index] = fresh(@, Placeholder(e.item.kind))], FALSE)
       [] OTHER ->
            Continue([bound.call EXCEPT !.partial = @ \/ clean.partial,
                        !.items[e.index] = [fresh(@, clean.kept) EXCEPT !.kind = e.item.kind]], clean.bearing)

-----------------------------------------------------------------------------
(* Final responses. *)

\* The embedded response: its status, whether the members have their types,
\* whether it has an output, and the items of it.
rank(class) == CASE class = "failed" -> 2 [] class = "incomplete" -> 1 [] OTHER -> 0
ClassOf(status) == CASE status \in {"completed", "failed"} -> status [] OTHER -> "incomplete"
\* Mutant: the type of the event decides.
MutMoreSevereClass(class, status) == class
moreSevereClass(class, status) ==
  IF status = "" \/ rank(ClassOf(status)) <= rank(class) THEN class ELSE ClassOf(status)
Mismatch(class, status) == status # "" /\ ClassOf(status) # class

TerminalVerdicts == [completed |-> "success", incomplete |-> "incomplete", failed |-> "error"]

\* applyBody: of the output, at most MaxItems items, the large ones as
\* placeholders.
SanitizedOutput(items) ==
  [i \in DOMAIN items |-> IF items[i].large THEN Placeholder(items[i].kind)
                          ELSE sanitizeResponsesOutputItem(items[i]).kept]
LosesOutput(items) ==
  \E i \in DOMAIN items : items[i].large \/ sanitizeResponsesOutputItem(items[i]).partial
BearsOutput(items) ==
  \E i \in DOMAIN items : ~items[i].large /\ sanitizeResponsesOutputItem(items[i]).bearing
applyBody(c, body, unary) ==
  LET d == [c EXCEPT !.id = IF body.id # "" THEN body.id ELSE @, !.error = @ \/ body.error,
                     !.errorOut = @ \/ body.error]
  IN IF ~body.output THEN d
     ELSE [d EXCEPT !.partial = @ \/ LosesOutput(body.items), !.final = SanitizedOutput(body.items),
                    !.haveFinal = ~unary, !.haveUnary = unary]

\* consumeTerminal: nothing changes for an envelope that is not valid.
consumeTerminal(c, e) ==
  IF ~e.body.valid THEN Continue(Degraded(c), FALSE)
  ELSE LET class == moreSevereClass(e.class, e.body.status)
           d == applyBody(c, e.body, FALSE)
       IN [call |-> [d EXCEPT !.partial = @ \/ Mismatch(e.class, e.body.status), !.error = @ \/ class = "failed"],
           output |-> e.body.output /\ BearsOutput(e.body.items), terminal |-> TerminalVerdicts[class]]

oversizedOutputPresence(e) ==
  e.type \in {"image", "audio", "done"} \/ (e.type \in {"delta", "text"} /\ e.slot # Summary)

\* FinishOversizedEvent: of a salvaged event only its control facts are kept.
FinishOversizedEvent(c, e) ==
  LET d == Degraded(c)
      class == moreSevereClass(e.class, e.body.status)
  IN CASE e.type = "lifecycle" -> Continue([d EXCEPT !.id = IF @ = "" THEN e.body.id ELSE @], FALSE)
       [] e.type = "error" -> [call |-> [d EXCEPT !.error = TRUE, !.errorOut = @ \/ e.body.error],
                               output |-> FALSE, terminal |-> "error"]
       [] e.type = "terminal" /\ e.body.valid ->
            [call |-> [d EXCEPT !.id = IF e.body.id # "" THEN e.body.id ELSE @,
                                !.error = @ \/ e.body.error \/ class = "failed",
                                !.errorOut = @ \/ e.body.error],
             output |-> e.body.output /\ BearsOutput(e.body.items), terminal |-> TerminalVerdicts[class]]
       [] OTHER -> Continue(d, oversizedOutputPresence(e))

consumeEvent(c, e) ==
  CASE e.type = "terminal"  -> consumeTerminal(c, e)
    [] e.type = "error"     -> [call |-> [c EXCEPT !.error = TRUE, !.errorOut = TRUE],
                                output |-> FALSE, terminal |-> "error"]
    [] e.type = "delta"     -> Write(c, e, FALSE)
    [] e.type = "text"      -> Write(c, e, TRUE)
    [] e.type = "image"     -> partialImage(c, e)
    [] e.type = "audio"     -> Continue([c EXCEPT !.audio = TRUE, !.partial = @ \/ e.transcript], TRUE)
    [] e.type = "added"     -> bindItem(c, e)
    [] e.type = "done"      -> finalizeItem(c, e)
    [] e.type = "lifecycle" -> Continue([c EXCEPT !.id = IF @ = "" THEN e.body.id ELSE @], FALSE)
    [] e.type = "unusable"  -> Continue(Degraded(c), FALSE)

Consume(c, e) == IF e.oversized THEN FinishOversizedEvent(c, e) ELSE consumeEvent(c, e)

\* FinishUnary and FinishOversizedUnary with applyUnaryStatus.  The body of an
\* HTTP error is the output, if it is JSON at all.
UnaryStatus(c, status) ==
  [c EXCEPT !.error = @ \/ status = "failed",
            !.incomplete = status \notin {"", "completed", "failed"},
            !.partial = @ \/ status \notin {"", "completed", "failed", "incomplete"}]
UnaryBody(c, body) ==
  CASE body.oversized /\ body.valid /\ ~body.httpError ->
         UnaryStatus([Degraded(c) EXCEPT !.haveUnary = TRUE, !.error = body.error, !.errorOut = body.error,
                                         !.id = IF body.id # "" THEN body.id ELSE @], body.status)
    [] body.oversized /\ (~body.valid \/ body.httpError) -> [Degraded(c) EXCEPT !.haveUnary = TRUE]
    [] ~body.oversized /\ body.httpError -> [c EXCEPT !.haveUnary = body.valid]
    [] ~body.oversized /\ ~body.httpError /\ ~body.valid -> Degraded(c)
    [] OTHER -> UnaryStatus(applyBody(c, body, TRUE), body.status)

-----------------------------------------------------------------------------
(* Result. *)

\* renderFallback: finished items win at their index.
ItemAt(c, i) == IF i \in DOMAIN c.items THEN c.items[i] ELSE responseItemState
Shown(item) == IF item.done # NotDone THEN item.done ELSE render(item)
renderFallback(c) == {<<i, Shown(c.items[i])>> : i \in {j \in DOMAIN c.items : Shown(c.items[j]) # NotDone}}

\* Which output the result shows: without a final one an error object stands
\* alone, and what was accumulated is not looked at.
Result(c) ==
  CASE c.errorOut /\ ~c.haveFinal /\ ~c.haveUnary -> "error"
    [] c.haveFinal -> "final"
    [] ~c.haveFinal /\ c.haveUnary -> "unary"
    [] OTHER -> "fallback"
Visible(c) ==
  \/ Result(c) \in {"final", "unary"}
  \/ Result(c) = "fallback" /\ (renderFallback(c) # {} \/ c.audio)

-----------------------------------------------------------------------------
(* What the provider sent: by index the texts of its slots and the kinds    *)
(* its events were of, or the finished item.  A whole text that is empty    *)
(* takes nothing back.                                                      *)

NothingSaid == [text |-> Empty, kinds |-> {}, done |-> NotDone]
Says(e) == e.type \in {"delta", "text"} /\ e.slot \in Slots /\ (e.text # <<>> \/ e.slot = Summary)
Saying(s, e) ==
  CASE e.type = "done" -> [NothingSaid EXCEPT !.done = [kind |-> e.item.kind, text |-> e.item.text]]
    [] s.done = NotDone /\ Says(e) ->
         [s EXCEPT !.text[e.slot] = IF e.type = "delta" THEN @ \o e.text ELSE e.text,
                   !.kinds = @ \cup {KindOf(e.slot)}]
    [] s.done = NotDone /\ e.type = "image" -> [s EXCEPT !.kinds = @ \cup {"image_generation_call"}]
    [] s.done = NotDone /\ e.type = "added" -> [s EXCEPT !.kinds = @ \cup ({e.item.kind} \ {""})]
    [] OTHER -> s

ResponsesInit ==
  /\ call = newResponsesCall /\ verdict = "none" /\ stamped = FALSE /\ sent = 0
  /\ said = [i \in Indices |-> NothingSaid] /\ claims = {} /\ exceeded = FALSE

FeedEvent(e) ==
  LET v == Consume(call, e)
  IN /\ verdict = "none" /\ sent < MaxEvents /\ ~call.haveUnary
     /\ call' = v.call /\ verdict' = v.terminal
     /\ stamped' = (stamped \/ (v.output /\ ~e.oversized))
     /\ exceeded' = (exceeded \/ (e.type \in {"delta", "text"} /\ ~e.oversized /\ Exceeds(call, e)))
     /\ claims' = IF e.type = "terminal" THEN {e.class, e.body.status} ELSE {}
     /\ sent' = sent + 1
     /\ said' = IF e.type \in {"delta", "text", "image", "added", "done"} /\ e.index \in Indices
                THEN [said EXCEPT ![e.index] = Saying(@, e)] ELSE said

FinishUnary(body) ==
  /\ sent = 0 /\ sent' = MaxEvents
  /\ call' = UnaryBody(call, body)
  /\ verdict' = "none" /\ UNCHANGED <<stamped, said, claims, exceeded>>

ResponsesNext == (\E e \in Events : FeedEvent(e)) \/ (\E body \in Bodies : FinishUnary(body))
ResponsesSpec == ResponsesInit /\ [][ResponsesNext]_responsesVars

-----------------------------------------------------------------------------
\* When the result shows what was accumulated and is not marked partial, every
\* item it shows is of a kind the provider sent and each of its texts is all that
\* was sent for it, or it is the finished item; and an item all of whose events
\* were of one kind shows every text they sent.  Of an item with events of several
\* kinds one kind is shown, and of a call with an error object the object alone:
\* the code marks neither, and nothing is said of what is then left out.
OfOneKind(s) == \A k, l \in s.kinds : k = l
FallbackIsWhole ==
  ~call.partial /\ Result(call) = "fallback" =>
    \A i \in Indices :
      LET item == ItemAt(call, i)   shown == render(item)
      IN /\ item.done = said[i].done
         /\ item.done = NotDone =>
              /\ shown # NotDone => shown.kind \in said[i].kinds
              /\ \A s \in DOMAIN shown.text : shown.text[s] = said[i].text[s]
              /\ OfOneKind(said[i]) => \A s \in Slots : said[i].text[s] # <<>> => s \in DOMAIN shown.text

\* "over the cap, fallback output is dropped entirely (never truncated)": an
\* item shows nothing of a slot or all that was sent for it.
NeverTruncated ==
  exceeded /\ ~call.haveFinal =>
    \A i \in DOMAIN call.items, s \in Slots :
      call.items[i].done = NotDone => call.items[i].text[s] \in {<<>>, said[i].text[s]}

\* The time to the first token is stamped by output that is there to be seen:
\* by what was accepted, never by what an event held.
StampsAreVisible == [][~stamped /\ stamped' => Visible(call')]_responsesVars

\* The verdict of a terminal event is never milder than the event's type or
\* the status it carries, and a failure is an error of the result.
TerminalsAreSevere ==
  verdict # "none" =>
    /\ verdict = "success" => claims \subseteq {"", "completed"}
    /\ "failed" \in claims => verdict = "error"
    /\ verdict = "error" => call.error
=============================================================================
