------------------------------- MODULE SseFramer ------------------------------
(***************************************************************************)
(* The bounded server-sent-events framer: reads of any size are cut into   *)
(* events, whose data payloads go to the parser.  An event over the cap is *)
(* discarded, or, if the parser can take it in pieces, lexed as it comes.  *)
(*                                                                         *)
(* A stream is a sequence of bytes.  "D" stands for the four letters of    *)
(* the field name data; a payload that holds a "t" is one after which the  *)
(* parser stops.                                                           *)
(*                                                                         *)
(* A turn of a loop of feed or of drain is a step.  What a read delivers   *)
(* is taken piece by piece; since every piece may as well be a read of its *)
(* own, a state between two pieces is one between two reads.               *)
(***************************************************************************)
EXTENDS Naturals, Sequences

CONSTANTS
  Streams,        \* the streams the server sends, sequences of bytes
  MaxEvent,       \* the cap on one event
  DelimiterSlack, \* delimiterSlack
  MaxFieldName    \* maxFieldName

ASSUME StreamsAssumption == Streams \subseteq Seq(STRING)
ASSUME FramerBounds == {MaxEvent, DelimiterSlack, MaxFieldName} \subseteq Nat /\ DelimiterSlack > 2

VARIABLES
  stream,      \* what the server sends
  taken,       \* how many bytes of it feed has taken
  chunked,     \* whether the parser salvages oversized events
  buf, discarded, dropping, stopped, chunking, lexer,   \* the sseFramer
  draining,    \* whether feed is in drain
  handed       \* what the parser got of each event so far, <<>> if nothing (history)

framerVars == <<stream, taken, chunked, buf, discarded, dropping, stopped, chunking, lexer, draining, handed>>

LF == "\n"
CR == "\r"
Colon == ":"
Space == " "
Data == "D"
\* What the parser got ends the stream: its verdict is terminal.
Stops(payload) == payload # <<>> /\ \E i \in DOMAIN payload[1] : payload[1][i] = "t"

-----------------------------------------------------------------------------
(* Whole events. *)

First(S) == CHOOSE i \in S : \A j \in S : i <= j

\* The index of the line feed that ends the blank line which ends the event
\* whose last line ends at i, or 0.
BlankAfter(s, i) ==
  LET j == IF i < Len(s) /\ s[i + 1] = CR THEN i + 2 ELSE i + 1
  IN IF s[i] = LF /\ j <= Len(s) /\ s[j] = LF THEN j ELSE 0

EventEnds(s) == {i \in DOMAIN s : BlankAfter(s, i) > 0}
nextEvent(s) ==
  LET i == First(EventEnds(s))
  IN [event |-> SubSeq(s, 1, i), rest |-> SubSeq(s, BlankAfter(s, i) + 1, Len(s))]

TrimSuffix(line) ==
  IF line # <<>> /\ line[Len(line)] = CR THEN SubSeq(line, 1, Len(line) - 1) ELSE line
TrimSpace(value) == IF value # <<>> /\ value[1] = Space THEN SubSeq(value, 2, Len(value)) ELSE value

\* sseField for the name data: <<>> if the line is not one, else <<its value>>.
sseField(line) ==
  IF line = <<Data>> THEN << <<>> >>
  ELSE IF Len(line) > 1 /\ line[1] = Data /\ line[2] = Colon THEN << TrimSpace(SubSeq(line, 3, Len(line))) >>
  ELSE <<>>

\* Data lines are joined with a line feed.
Join(data, value) == IF data = <<>> THEN <<value>> ELSE << data[1] \o <<LF>> \o value >>
WithLine(data, line) ==
  LET value == sseField(TrimSuffix(line)) IN IF value = <<>> THEN data ELSE Join(data, value[1])

\* The event's next line is taken: from says how much of it has been.
NextLine(event, r) ==
  LET feeds == {i \in r.from + 1..Len(event) : event[i] = LF}
      end == IF feeds = {} THEN Len(event) + 1 ELSE First(feeds)
  IN IF r.from >= Len(event) THEN r
     ELSE [from |-> end, data |-> WithLine(r.data, SubSeq(event, r.from + 1, end - 1))]

\* The joined payload, in a sequence of one, or nothing.
eventData(event) ==
  LET after[k \in 0..Len(event)] ==
        IF k = 0 THEN [from |-> 0, data |-> <<>>] ELSE NextLine(event, after[k - 1])
  IN after[Len(event)].data

-----------------------------------------------------------------------------
(* Events lexed as they come. *)

oversizedLexer ==
  [state |-> "lineStart", field |-> <<>>, sawData |-> FALSE, heldCR |-> FALSE, out |-> <<>>, done |-> FALSE]

GoTo(l, state) == [l EXCEPT !.state = state]
beginDataValue(l) == [l EXCEPT !.out = IF l.sawData THEN Append(@, LF) ELSE @, !.sawData = TRUE]
endFieldOnlyLine(l) == GoTo(IF l.field = <<Data>> THEN beginDataValue(l) ELSE l, "lineStart")

\* A byte of a data value: a held carriage return belongs to it unless the
\* line ends.
ReleaseCR(l, b) ==
  IF l.heldCR THEN [l EXCEPT !.heldCR = FALSE, !.out = IF b = LF THEN @ ELSE Append(@, CR)] ELSE l
DataByte(l, b) ==
  CASE b = LF -> GoTo(l, "lineStart")
    [] b = CR -> [l EXCEPT !.heldCR = TRUE]
    [] b \notin {LF, CR} -> [l EXCEPT !.out = Append(@, b)]

FieldByte(l, b) ==
  CASE b = Colon -> GoTo(l, IF l.field = <<Data>> THEN "dataValueStart" ELSE "skipLine")
    [] b = LF -> endFieldOnlyLine(l)
    [] b = CR -> GoTo(l, "fieldCR")
    [] b \notin {Colon, LF, CR} ->
         IF Len(l.field) >= MaxFieldName THEN GoTo(l, "skipLine") ELSE [l EXCEPT !.field = Append(@, b)]

\* What one byte does.  The event is done after the blank line.
LexByte(l, b) ==
  CASE l.state = "lineStart" ->
         (CASE b = LF -> [l EXCEPT !.done = TRUE]
            [] b = CR -> GoTo(l, "lineStartCR")
            [] b = Colon -> GoTo(l, "skipLine")
            [] b \notin {Colon, LF, CR} -> GoTo([l EXCEPT !.field = <<b>>], "fieldName"))
    [] l.state = "lineStartCR" -> IF b = LF THEN [l EXCEPT !.done = TRUE] ELSE GoTo(l, "skipLine")
    [] l.state = "fieldName" -> FieldByte(l, b)
    [] l.state = "fieldCR" -> IF b = LF THEN endFieldOnlyLine(l) ELSE GoTo(l, "skipLine")
    [] l.state = "dataValueStart" ->
         LET m == GoTo(beginDataValue(l), "dataValue") IN IF b = Space THEN m ELSE DataByte(m, b)
    [] l.state = "dataValue" -> DataByte(ReleaseCR(l, b), b)
    [] l.state = "skipLine" -> IF b = LF THEN GoTo(l, "lineStart") ELSE l

\* oversizedLexer.feed: it stops after the blank line that ends the event.
LexNext(l, b) == IF l.done THEN l ELSE LexByte(l, b)
Lex(l, p) ==
  LET after[k \in 0..Len(p)] == IF k = 0 THEN l ELSE LexNext(after[k - 1], p[k])
  IN after[Len(p)]

\* finishOversized is called only for an event with data.
Salvaged(l) == IF l.sawData THEN <<l.out>> ELSE <<>>

-----------------------------------------------------------------------------
(* The framer. *)

FramerInit ==
  /\ stream \in Streams /\ taken = 0
  /\ chunked \in BOOLEAN
  /\ buf = <<>> /\ discarded = FALSE /\ dropping = FALSE /\ stopped = FALSE
  /\ chunking = FALSE /\ lexer = oversizedLexer
  /\ draining = FALSE /\ handed = <<>>

pending == buf # <<>> \/ dropping \/ chunking

\* The bytes the buffer still has room for.
Room == IF Len(buf) >= MaxEvent + DelimiterSlack THEN 1 ELSE MaxEvent + DelimiterSlack - Len(buf)

\* feed: the next n bytes of a read go to the buffer.
TakeChunk(n) ==
  /\ ~stopped /\ ~chunking /\ ~draining
  /\ n <= Room
  /\ buf' = buf \o SubSeq(stream, taken + 1, taken + n) /\ taken' = taken + n
  /\ draining' = TRUE
  /\ UNCHANGED <<stream, chunked, discarded, dropping, stopped, chunking, lexer, handed>>

\* An event is over and the parser gets its payload: it may stop the framer,
\* which then keeps nothing.
EndEvent(payload, rest) ==
  /\ handed' = Append(handed, payload)
  /\ IF Stops(payload) THEN stopped' = TRUE /\ draining' = FALSE /\ buf' = <<>>
     ELSE buf' = rest /\ UNCHANGED <<stopped, draining>>

\* feed: the next byte of an event that is lexed.
LexOne ==
  /\ chunking
  /\ taken' = taken + 1
  /\ LET l == LexByte(lexer, stream[taken + 1])
     IN IF l.done
        THEN /\ chunking' = FALSE /\ lexer' = oversizedLexer
             /\ EndEvent(Salvaged(l), buf)
        ELSE lexer' = l /\ UNCHANGED <<buf, stopped, chunking, draining, handed>>
  /\ UNCHANGED <<stream, chunked, discarded, dropping>>

\* feed after the parser stopped.
Ignore ==
  /\ stopped /\ taken' = taken + 1
  /\ UNCHANGED <<stream, chunked, buf, discarded, dropping, stopped, chunking, lexer, draining, handed>>

\* Mutant: nothing of the delimiter is kept.
MutKeptDelimiter(s) == <<>>
KeptDelimiter(s) ==
  LET n == Len(s)
  IN IF n >= 2 /\ s[n - 1] = LF /\ s[n] = CR THEN <<LF, CR>>
     ELSE IF n >= 1 /\ s[n] = LF THEN <<LF>> ELSE <<>>

\* drain, without a whole event in the buffer.
Keep ==
  /\ Len(buf) <= MaxEvent
  /\ UNCHANGED <<buf, discarded, dropping, chunking, lexer>>
\* The event goes to the lexer, whose verdict on the buffer is not looked at.
StartChunking ==
  /\ Len(buf) > MaxEvent /\ chunked /\ ~dropping
  /\ chunking' = TRUE /\ lexer' = [Lex(oversizedLexer, buf) EXCEPT !.done = FALSE] /\ buf' = <<>>
  /\ UNCHANGED <<discarded, dropping>>
discardKeepingDelimiterState ==
  /\ Len(buf) > MaxEvent /\ ~(chunked /\ ~dropping)
  /\ buf' = KeptDelimiter(buf) /\ discarded' = TRUE /\ dropping' = TRUE
  /\ UNCHANGED <<chunking, lexer>>
DrainRest ==
  /\ draining /\ EventEnds(buf) = {}
  /\ draining' = FALSE
  /\ Keep \/ StartChunking \/ discardKeepingDelimiterState
  /\ UNCHANGED <<stream, taken, chunked, stopped, handed>>

\* drain, with one: the rest of an event that was discarded, one that is over
\* the cap by no more than the slack, or one to deliver.
Salvage(event) ==
  IF chunked THEN Salvaged(Lex(Lex(oversizedLexer, event), <<LF>>)) ELSE <<>>
DrainEvent ==
  /\ draining /\ EventEnds(buf) # {}
  /\ LET e == nextEvent(buf)
         over == Len(e.event) > MaxEvent
     IN /\ EndEvent(CASE dropping -> <<>> [] ~dropping /\ over -> Salvage(e.event)
                      [] ~dropping /\ ~over -> eventData(e.event), e.rest)
        /\ discarded' = (discarded \/ (~dropping /\ over /\ ~chunked))
  /\ dropping' = FALSE
  /\ UNCHANGED <<stream, taken, chunked, chunking, lexer>>

FramerNext ==
  \/ taken < Len(stream) /\ (LexOne \/ Ignore \/ \E n \in 1..Len(stream) - taken : TakeChunk(n))
  \/ DrainRest \/ DrainEvent
FramerSpec == FramerInit /\ [][FramerNext]_framerVars

-----------------------------------------------------------------------------
(* What a reader with room for all of the stream makes of its bytes: an     *)
(* event is one line at least, up to a blank line.                          *)

Blank(line) == line \in {<<>>, <<CR>>}

\* events: those that have ended; size, data and blank: the bytes and the
\* payload of the open one, and whether it begins with a blank line; line: the
\* line that has not ended.
Silence == [events |-> <<>>, size |-> 0, data |-> <<>>, blank |-> FALSE, line |-> <<>>]
EventOf(r) == [size |-> r.size, data |-> r.data, blank |-> r.blank, last |-> r.line]
Ends(r, b) == b = LF /\ Blank(r.line) /\ r.size > 0
Hears(r, b) ==
  IF b # LF THEN [r EXCEPT !.line = Append(@, b)]
  ELSE IF Ends(r, b) THEN [Silence EXCEPT !.events = Append(r.events, EventOf(r))]
  ELSE [r EXCEPT !.size = @ + Len(r.line) + 1, !.data = WithLine(@, r.line), !.line = <<>>,
                 !.blank = IF r.size = 0 THEN Blank(r.line) ELSE @]
Readings(s) ==
  LET after[k \in 0..Len(s)] == IF k = 0 THEN Silence ELSE Hears(after[k - 1], s[k]) IN after

Reading == Readings(stream)[taken]

Over(e) == e.size > MaxEvent
\* A piece may end within the blank line of an event exactly at the cap, and
\* then the event counts as over it.
MayCountAsOver(e) == e.size = MaxEvent /\ e.last = <<CR>>

\* An event that the lexer gets, or may have got, and that begins with a blank
\* line, or the open one if it is over the cap by now.
MisreadIn(r) ==
  \/ r.blank /\ r.size + Len(r.line) > MaxEvent
  \/ \E i \in DOMAIN r.events : r.events[i].blank /\ (Over(r.events[i]) \/ MayCountAsOver(r.events[i]))
Misread == chunked /\ MisreadIn(Reading)

\* Of every event that has ended the parser was told once, in order, as far as
\* the one it stopped after.
HandedInOrder ==
  /\ Len(handed) <= Len(Reading.events)
  /\ ~stopped /\ ~draining => Len(handed) = Len(Reading.events)
  /\ \A i \in DOMAIN handed : Stops(handed[i]) <=> stopped /\ i = Len(handed)

\* What the parser may be told of an event that is not salvaged.
Due(e) == IF Over(e) THEN {<<>>} ELSE IF MayCountAsOver(e) THEN {<<>>, e.data} ELSE {e.data}

\* Without salvage the events within the cap arrive, each once and in order,
\* however the reads split them, and no event after a discarded one is taken
\* for its rest (discardKeepingDelimiterState).  A loss is on record.
EventsWithinCapArrive ==
  ~chunked =>
    /\ HandedInOrder
    /\ \A i \in DOMAIN handed :
         LET e == Reading.events[i] IN handed[i] \in Due(e) /\ (handed[i] # e.data => discarded)

\* With salvage every event arrives whatever its size.  An event over the cap
\* that begins with a blank line is left out: see SalvageIsExact.
EveryEventArrives ==
  chunked /\ ~Misread => HandedInOrder /\ \A i \in DOMAIN handed : handed[i] = Reading.events[i].data

\* The stream ends within an event exactly if the framer says so, also when
\* the event is being discarded or lexed (endOfStream asks it at EOF).
PendingIsExact ==
  ~stopped /\ ~draining /\ ~Misread => (pending <=> Reading.size > 0 \/ Reading.line # <<>>)

\* However large the reads and the events are, the buffer is not.
BufferIsBounded == Len(buf) <= MaxEvent + DelimiterSlack

\* The framer is right about every event, whatever the reads, within bounded
\* memory.
FramesAreExact == EventsWithinCapArrive /\ EveryEventArrives /\ PendingIsExact /\ BufferIsBounded

\* The lexer delivers "exactly as eventData would have produced it".
SalvageIsExact ==
  chunked => HandedInOrder /\ \A i \in DOMAIN handed : handed[i] = Reading.events[i].data
=============================================================================
