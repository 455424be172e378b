------------------------------ MODULE ChatStream ------------------------------
(***************************************************************************)
(* The parser of one chat/completions, completions or embeddings attempt:  *)
(* streamed choices accumulate under one byte budget, which finish reasons *)
(* share; a stream ends with [DONE].  Or one unary body.                   *)
(*                                                                         *)
(* A chunk is a record: the type of the event, and its choices in order.   *)
(* A choice has an index, a text, the content and the refusal of a delta,  *)
(* pieces of tool calls (a function_call is a legacy one, at index 0 and   *)
(* first) and a finish reason.  Texts are sequences, their length is their *)
(* bytes.                                                                  *)
(***************************************************************************)
EXTENDS Integers, Sequences

CONSTANTS
  ChatEvents,   \* the events the provider may send
  Replies,      \* the unary bodies the provider may send
  MaxChatEvents,  \* bound: events of one stream
  maxChoices,   \* of choices, of tools of one, and of finish reasons
  chatCap       \* the capture cap

PieceTypes == [index : Int, name : Seq(STRING), args : Seq(STRING), legacy : BOOLEAN]
ChoiceTypes == [index : Int, text : Seq(STRING), content : Seq(STRING), refusal : Seq(STRING),
                tools : Seq(PieceTypes), reason : Seq(STRING)]
ASSUME ChatInputs ==
  /\ ChatEvents \subseteq [type : {"done", "garbled", "error", "chunk"}, choices : Seq(ChoiceTypes)]
  /\ Replies \subseteq [type : {"empty", "failure", "garbled", "embeddings", "choices"}, valid : BOOLEAN,
                        count : Nat, reasons : Seq(Seq(STRING))]
ASSUME ChatBounds == maxChoices \in Nat /\ chatCap \in Nat

VARIABLES
  chat,       \* the call
  ended,      \* the terminal verdict, "none" until there is one
  fed,        \* the number of events fed
  spoken      \* what the provider sent, by choice (history)

chatVars == <<chat, ended, fed, spoken>>

-----------------------------------------------------------------------------
Numbers == 0..maxChoices - 1
toolAccumulator == [name |-> <<>>, args |-> <<>>]
choiceAccumulator == [text |-> <<>>, tools |-> [n \in Numbers |-> toolAccumulator]]

newChat == [choices |-> <<>>, bytes |-> 0, over |-> FALSE, partial |-> FALSE, reasons |-> <<>>,
            done |-> FALSE, error |-> FALSE, unary |-> "none", embeddings |-> 0]

ChatPartial(c) == [c EXCEPT !.partial = TRUE]
FitsIn(c, n) == c.bytes + n <= chatCap

\* Mutant: the budget is spent, but later output is taken again.
MutGoOver(c) == [c EXCEPT !.choices = <<>>, !.partial = TRUE]
\* charge, over the cap: all streamed output goes, for good.
GoOver(c) == [c EXCEPT !.choices = <<>>, !.over = TRUE]

Accumulated(c, n) == IF n \in DOMAIN c.choices THEN c.choices[n] ELSE choiceAccumulator

\* Every choice up to the index exists from then on: it renders as an empty text.
choiceAt(c, index) ==
  [c EXCEPT !.choices = [n \in DOMAIN @ \cup 0..index |-> Accumulated(c, n)]]

Hostile(index) == index \notin Numbers

\* What a choice's text is taken from: the first of the three that is not empty.
Output(ch) ==
  CASE ch.text # <<>> -> ch.text
    [] ch.text = <<>> /\ ch.content # <<>> -> ch.content
    [] OTHER -> ch.refusal

AppendText(c, ch) ==
  CASE Output(ch) = <<>> \/ c.over -> c
    [] Output(ch) # <<>> /\ ~c.over /\ Hostile(ch.index) -> ChatPartial(c)
    [] OTHER -> IF FitsIn(c, Len(Output(ch)))
                THEN [choiceAt(c, ch.index) EXCEPT !.choices[ch.index].text = @ \o Output(ch),
                                                   !.bytes = @ + Len(Output(ch))]
                ELSE GoOver(c)

\* A choice with a text has no delta, and an empty tool call is passed over.
Skipped(ch, piece) == ch.text # <<>> \/ (~piece.legacy /\ piece.name = <<>> /\ piece.args = <<>>)

\* A name replaces the one before it, arguments are appended.
Extended(tool, piece) ==
  [name |-> IF piece.name # <<>> THEN piece.name ELSE tool.name, args |-> tool.args \o piece.args]

\* tool: the pieces of a tool call gather under its index.
PieceLen(piece) == Len(piece.name) + Len(piece.args)
Tool(c, ch, piece) ==
  CASE Skipped(ch, piece) \/ c.over -> c
    [] ~Skipped(ch, piece) /\ ~c.over /\ Hostile(ch.index) -> ChatPartial(c)
    [] ~Skipped(ch, piece) /\ ~c.over /\ ~Hostile(ch.index) /\ Hostile(piece.index) ->
         ChatPartial(choiceAt(c, ch.index))
    [] OTHER -> IF FitsIn(c, PieceLen(piece))
                THEN [choiceAt(c, ch.index) EXCEPT !.choices[ch.index].tools[piece.index] = Extended(@, piece),
                                                   !.bytes = @ + PieceLen(piece)]
                ELSE GoOver(c)

consumeInto(c, ch) ==
  LET after[k \in 0..Len(ch.tools)] ==
        IF k = 0 THEN AppendText(c, ch) ELSE Tool(after[k - 1], ch, ch.tools[k])
  IN after[Len(ch.tools)]

\* appendFinishReason: too many or a repeated one is ignored; one over the
\* budget is dropped alone.
appendFinishReason(c, reason) ==
  CASE reason = <<>> \/ Len(c.reasons) >= maxChoices -> c
    [] reason # <<>> /\ c.reasons # <<>> /\ c.reasons[Len(c.reasons)] = reason -> c
    [] OTHER -> IF FitsIn(c, Len(reason)) THEN [c EXCEPT !.reasons = Append(@, reason), !.bytes = @ + Len(reason)]
                ELSE ChatPartial(c)

\* Of every choice of the event the output is charged before the reason.
consumeChoice(c, ch) == appendFinishReason(consumeInto(c, ch), ch.reason)
ConsumeChoices(c, choices) ==
  LET after[k \in 0..Len(choices)] == IF k = 0 THEN c ELSE consumeChoice(after[k - 1], choices[k])
  IN after[Len(choices)]

consumeChunk(c, e) ==
  CASE e.type = "done"    -> [c EXCEPT !.done = TRUE]
    [] e.type = "garbled" -> ChatPartial(c)
    [] e.type = "error"   -> [c EXCEPT !.error = TRUE]
    [] e.type = "chunk"   -> ConsumeChoices(c, e.choices)
ChatVerdict(e) == CASE e.type = "done" -> "success" [] e.type = "error" -> "error" [] OTHER -> "none"

AppendReasons(c, reasons) ==
  LET after[k \in 0..Len(reasons)] == IF k = 0 THEN c ELSE appendFinishReason(after[k - 1], reasons[k])
  IN after[Len(reasons)]

\* FinishUnary: the body of an error is the output; embeddings have none.
consumeUnary(c, reply) ==
  CASE reply.type = "empty" -> c
    [] reply.type = "failure" -> [c EXCEPT !.unary = IF reply.valid THEN "error body" ELSE @]
    [] reply.type = "garbled" -> ChatPartial(c)
    [] reply.type = "embeddings" -> [c EXCEPT !.embeddings = reply.count]
    [] reply.type = "choices" ->
         [AppendReasons(c, reply.reasons) EXCEPT !.unary = IF reply.count = 0 THEN @ ELSE "choices"]

-----------------------------------------------------------------------------
\* What the provider said by now at every good index, in order: all the texts,
\* and of every tool call the arguments and the last name.  A choice is crowded
\* once an event has held several of what the parser takes one of: a text, a
\* content and a refusal, or a text and tool calls.
Unspoken == [text |-> <<>>, tools |-> choiceAccumulator.tools, crowded |-> FALSE]
Crowds(ch) ==
  \/ ch.text # <<>> /\ (ch.content # <<>> \/ ch.refusal # <<>>)
  \/ ch.content # <<>> /\ ch.refusal # <<>>
HearText(s, ch) ==
  IF Hostile(ch.index) THEN s
  ELSE [s EXCEPT ![ch.index].text = @ \o ch.text \o ch.content \o ch.refusal,
                 ![ch.index].crowded = @ \/ Crowds(ch)]
HearTool(s, ch, piece) ==
  IF Hostile(ch.index) \/ Hostile(piece.index) THEN s
  ELSE [s EXCEPT ![ch.index].tools[piece.index] = Extended(@, piece),
                 ![ch.index].crowded = @ \/ ch.text # <<>>]
HearChoice(s, ch) ==
  LET got[k \in 0..Len(ch.tools)] ==
        IF k = 0 THEN HearText(s, ch) ELSE HearTool(got[k - 1], ch, ch.tools[k])
  IN got[Len(ch.tools)]
Hear(s, choices) ==
  LET got[k \in 0..Len(choices)] == IF k = 0 THEN s ELSE HearChoice(got[k - 1], choices[k])
  IN got[Len(choices)]

ChatInit ==
  /\ chat = newChat /\ ended = "none" /\ fed = 0
  /\ spoken = [n \in Numbers |-> Unspoken]

FeedChunk(e) ==
  /\ ended = "none" /\ fed < MaxChatEvents
  /\ chat' = consumeChunk(chat, e)
  /\ ended' = ChatVerdict(e)
  /\ fed' = fed + 1
  /\ spoken' = IF e.type = "chunk" THEN Hear(spoken, e.choices) ELSE spoken

FinishReply(reply) ==
  /\ fed = 0 /\ fed' = MaxChatEvents
  /\ chat' = consumeUnary(chat, reply)
  /\ UNCHANGED <<ended, spoken>>

ChatNext == (\E e \in ChatEvents : FeedChunk(e)) \/ (\E reply \in Replies : FinishReply(reply))
ChatSpec == ChatInit /\ [][ChatNext]_chatVars

-----------------------------------------------------------------------------
\* A streamed output is, of every choice, all of the text the provider sent in
\* the order it was sent, all of the arguments of every tool call and the name it
\* had last; or nothing once the cap was exceeded, to the end of the stream: it is
\* never a part of a text or of arguments.  What an index out of bounds names is
\* not taken (the call is then partial), and of a crowded choice the parser takes
\* the first of what an event holds, of which nothing is said here.
ChoicesWholeOrNothing ==
  IF chat.over THEN chat.choices = <<>>
  ELSE \A n \in Numbers :
         \/ spoken[n].crowded
         \/ /\ Accumulated(chat, n).text = spoken[n].text
            /\ Accumulated(chat, n).tools = spoken[n].tools
=============================================================================
