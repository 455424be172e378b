------------------------------ MODULE AdapterProofs ------------------------------
(***************************************************************************)
(* Theorems about the provider adapters, for every value of the constants: *)
(*                                                                         *)
(*   - the parser of a /responses attempt (ResponsesStream): accumulated   *)
(*     items that are not marked partial are shown whole, the first token  *)
(*     is stamped by output that is in the result, and verdicts are        *)
(*     severe.                                                             *)
(*     The invariant compares the call with the history of what was sent,  *)
(*     item by item; each operator on calls is shown to have the Effect    *)
(*     that one event may have;                                            *)
(*                                                                         *)
(*   - the parsers of streamed choices and candidates (StreamedOutputs):   *)
(*     what is kept and what was sent agree after every turn of their      *)
(*     loops, until the budget is exceeded and nothing is kept;            *)
(*                                                                         *)
(*   - one attempt through the wiretap (WiretapAttempt): it ends once, the *)
(*     request captured is one transmission, the first terminal a Read     *)
(*     returned is the outcome, and nobody touches the parser once its     *)
(*     result is taken.                                                    *)
(***************************************************************************)
EXTENDS WiretapAttempt, ResponsesStream, StreamedOutputs, Loops, FiniteSetTheorems, TLAPS

-----------------------------------------------------------------------------
(* The parser of a /responses attempt                                      *)

(* Types.  The names that the parser itself gives are strings too. *)
Strings == STRING \cup {"", "none", "unknown", "message", "function_call", "reasoning", "image_generation_call"}
Wording == Seq(STRING)
Shapes == [kind : Strings, text : Wording]
ItemStates == [id : Strings, kind : Strings, tombstone : BOOLEAN, done : Shapes,
               text : [Slots -> Wording], imaged : BOOLEAN]
ItemMaps == UNION {[I -> ItemStates] : I \in SUBSET Indices}
Finals == Seq(Shapes)
Calls == [items : ItemMaps, bytes : Nat, partial : BOOLEAN, audio : BOOLEAN, id : Strings, final : Finals,
          haveFinal : BOOLEAN, haveUnary : BOOLEAN, incomplete : BOOLEAN, error : BOOLEAN,
          errorOut : BOOLEAN]
Sayings == [text : [Slots -> Wording], kinds : SUBSET Strings, done : Shapes]

(* The item at an index is what was said of it: the finished item, or the   *)
(* texts; and what it would be shown as is one of the kinds that were said. *)
Accounted(item, s) ==
  /\ item.text = s.text
  /\ item.imaged => "image_generation_call" \in s.kinds
  /\ item.kind = "function_call" => "function_call" \in s.kinds
  /\ \A q \in Slots : s.text[q] # <<>> => KindOf(q) \in s.kinds
Renders(item, s) ==
  item.done = s.done /\ ~item.tombstone /\ (s.done = NotDone => Accounted(item, s))
Faithful(c, w) == \A i \in Indices : Renders(ItemAt(c, i), w[i])

(* What an operator on calls leaves of an item, and of a call. *)
Same(x, y) ==
  x.done = y.done /\ x.tombstone = y.tombstone /\ x.text = y.text /\ x.imaged = y.imaged /\ x.kind = y.kind

(* Texts: what concatenation and length make of them. *)
LEMMA WordingFacts ==
  /\ <<>> \in Wording
  /\ \A s, t \in Wording : s \o t \in Wording /\ (t # <<>> => s \o t # <<>>) /\ Len(s) \in Nat
BY DEF Wording

(* An item that nothing was said of. *)
LEMMA BlankTyped ==
  /\ Empty \in [Slots -> Wording] /\ NotDone \in Shapes /\ responseItemState \in ItemStates
  /\ responseItemState.text = Empty /\ responseItemState.done = NotDone /\ ~responseItemState.tombstone
  /\ ~responseItemState.imaged /\ responseItemState.kind = "unknown"
<1>1. Empty \in [Slots -> Wording] BY WordingFacts DEF Empty
<1>2. NotDone \in Shapes BY WordingFacts DEF NotDone, Shapes, Strings
<1>3. responseItemState \in ItemStates BY <1>1, <1>2 DEF responseItemState, ItemStates, Strings
<1> QED BY <1>1, <1>2, <1>3 DEF responseItemState

(* markPartial touches the flag only. *)
LEMMA DegradedTyped ==
  ASSUME NEW c \in Calls
  PROVE  /\ Degraded(c) \in Calls /\ Degraded(c).partial /\ Degraded(c).items = c.items
         /\ Degraded(c).haveFinal = c.haveFinal /\ Degraded(c).haveUnary = c.haveUnary /\ Degraded(c).audio = c.audio /\ Degraded(c).errorOut = c.errorOut
         /\ Degraded(c).error = c.error
BY DEF Degraded, Calls

(* The items of a call are at indices of its bound. *)
LEMMA ItemTyped ==
  ASSUME NEW c \in Calls
  PROVE  /\ DOMAIN c.items \subseteq Indices
         /\ c.items \in [DOMAIN c.items -> ItemStates]
         /\ \A i \in Indices : ItemAt(c, i) \in ItemStates
<1>1. PICK I \in SUBSET Indices : c.items \in [I -> ItemStates] BY DEF Calls, ItemMaps
<1> QED BY <1>1, BlankTyped DEF ItemAt

(* One item put in place of another.                                       *)
LEMMA Replaced ==
  ASSUME NEW c \in Calls, NEW i \in DOMAIN c.items, NEW x \in ItemStates,
         NEW d, d = [c EXCEPT !.items = [c.items EXCEPT ![i] = x]]
  PROVE  /\ d \in Calls /\ d.partial = c.partial /\ d.haveFinal = c.haveFinal /\ d.haveUnary = c.haveUnary
         /\ d.audio = c.audio /\ d.errorOut = c.errorOut /\ d.error = c.error /\ DOMAIN d.items = DOMAIN c.items
         /\ d.items[i] = x /\ \A j \in Indices : j # i => ItemAt(d, j) = ItemAt(c, j)
<1>1. DOMAIN c.items \subseteq Indices /\ c.items \in [DOMAIN c.items -> ItemStates] BY ItemTyped
<1>2. PICK I : I = DOMAIN c.items OBVIOUS
<1>3. PICK m : m = [c.items EXCEPT ![i] = x] OBVIOUS
<1>4. m \in [I -> ItemStates] /\ DOMAIN m = I /\ m[i] = x /\ \A j \in I : j # i => m[j] = c.items[j]
  BY <1>1, <1>2, <1>3
<1>5. m \in ItemMaps BY <1>1, <1>2, <1>4 DEF ItemMaps
<1>6. d = [c EXCEPT !.items = m] BY <1>3
<1>7. /\ d \in Calls /\ d.items = m /\ d.partial = c.partial
      /\ d.haveFinal = c.haveFinal /\ d.haveUnary = c.haveUnary /\ d.audio = c.audio /\ d.errorOut = c.errorOut /\ d.error = c.error
  BY <1>5, <1>6 DEF Calls
<1>8. \A j \in Indices : j # i => ItemAt(d, j) = ItemAt(c, j) BY <1>2, <1>4, <1>7 DEF ItemAt
<1> QED BY <1>2, <1>3, <1>4, <1>5, <1>6, <1>7, <1>8

(* Opening an index says nothing of any item. *)
LEMMA OpenedItems ==
  ASSUME NEW c \in Calls, NEW i \in Indices
  PROVE  LET d == [c EXCEPT !.items = Opened(@, i)]
         IN /\ d \in Calls /\ i \in DOMAIN d.items /\ d.partial = c.partial
            /\ \A j \in Indices : ItemAt(d, j) = ItemAt(c, j)
            /\ d.haveFinal = c.haveFinal /\ d.haveUnary = c.haveUnary /\ d.audio = c.audio /\ d.errorOut = c.errorOut /\ d.error = c.error
<1>1. DOMAIN c.items \subseteq Indices /\ c.items \in [DOMAIN c.items -> ItemStates] BY ItemTyped
<1>2. PICK m : m = Opened(c.items, i) OBVIOUS
<1>3. m \in [DOMAIN c.items \cup {i} -> ItemStates] BY <1>1, <1>2, BlankTyped DEF Opened
<1>4. m \in ItemMaps BY <1>1, <1>3 DEF ItemMaps
<1>6. PICK d : d = [c EXCEPT !.items = m] OBVIOUS
<1>7. /\ d \in Calls /\ d.items = m /\ d.partial = c.partial
      /\ d.haveFinal = c.haveFinal /\ d.haveUnary = c.haveUnary /\ d.audio = c.audio /\ d.errorOut = c.errorOut /\ d.error = c.error
  BY <1>4, <1>6 DEF Calls
<1>8. DOMAIN m = DOMAIN c.items \cup {i} BY <1>3
<1>9. \A j \in Indices : ItemAt(d, j) = ItemAt(c, j)
  BY <1>1, <1>2, <1>7, <1>8 DEF ItemAt, Opened
<1> QED BY <1>2, <1>6, <1>7, <1>8, <1>9

(* bindIdentity refuses and says so, or changes an id only. *)
LEMMA BindTyped ==
  ASSUME NEW c \in Calls, NEW i \in DOMAIN c.items, NEW id \in Strings
  PROVE  LET b == bindIdentity(c, i, id)
         IN /\ b.call \in Calls /\ i \in DOMAIN b.call.items
            /\ ~b.ok => b.call.partial
            /\ b.ok => b.call.partial = c.partial
            /\ c.partial => b.call.partial
            /\ \A j \in Indices : Same(ItemAt(b.call, j), ItemAt(c, j))
            /\ b.call.haveFinal = c.haveFinal /\ b.call.haveUnary = c.haveUnary /\ b.call.audio = c.audio /\ b.call.errorOut = c.errorOut
<1>1. PICK b : b = bindIdentity(c, i, id) OBVIOUS
<1>2. CASE id = ""
  <2>1. b.call = c /\ b.ok BY <1>1, <1>2 DEF bindIdentity
  <2> QED BY <1>1, <2>1 DEF Same
<1>3. CASE id # "" /\ Binds(c, i, id)
  <2>1. b.ok /\ b.call = [c EXCEPT !.items[i].id = id] BY <1>1, <1>3 DEF bindIdentity
  <2>2. PICK x : x = [c.items[i] EXCEPT !.id = id] OBVIOUS
  <2>3. c.items[i] \in ItemStates BY ItemTyped
  <2>4. x \in ItemStates /\ Same(x, c.items[i]) BY <2>2, <2>3 DEF ItemStates, Same
  <2>5. PICK d : d = [c EXCEPT !.items = [c.items EXCEPT ![i] = x]] OBVIOUS
  <2>8. b.call = d BY <2>1, <2>2, <2>5
  <2>6. /\ d \in Calls /\ d.partial = c.partial /\ d.haveFinal = c.haveFinal
        /\ d.haveUnary = c.haveUnary
        /\ d.audio = c.audio /\ d.errorOut = c.errorOut /\ DOMAIN d.items = DOMAIN c.items
        /\ d.items[i] = x /\ \A j \in Indices : j # i => ItemAt(d, j) = ItemAt(c, j)
    <3>1. x \in ItemStates BY <2>4
    <3> QED BY <2>5, <3>1, Replaced
  <2>7. \A j \in Indices : Same(ItemAt(d, j), ItemAt(c, j)) BY <2>4, <2>6 DEF ItemAt, Same
  <2> QED BY <1>1, <2>1, <2>6, <2>7, <2>8
<1>4. CASE id # "" /\ ~Binds(c, i, id)
  <2>1. b.call = Degraded(c) /\ ~b.ok BY <1>1, <1>4 DEF bindIdentity
  <2> QED BY <1>1, <2>1, DegradedTyped DEF Same, ItemAt
<1> QED BY <1>2, <1>3, <1>4

(* What the assumption on the events gives of one. *)
LEMMA EventTyped ==
  ASSUME NEW e \in Events
  PROVE  /\ e.id \in Strings /\ e.item.id \in Strings /\ e.item.kind \in Strings /\ e.body.id \in Strings
         /\ e.text \in Wording /\ e.item.text \in Wording /\ e.index \in Nat
         /\ e.item \in ItemTypes /\ e.body \in BodyTypes /\ e.oversized \in BOOLEAN /\ e.transcript \in BOOLEAN
         /\ e.item.large \in BOOLEAN
<1>1. e \in EventTypes BY EventsAssumption
<1>2. e.item \in ItemTypes /\ e.body \in BodyTypes /\ e.id \in STRING /\ e.text \in Seq(STRING) /\ e.index \in Nat
      /\ e.oversized \in BOOLEAN /\ e.transcript \in BOOLEAN
  BY <1>1 DEF EventTypes
<1>3. e.item.id \in STRING /\ e.item.kind \in STRING /\ e.item.text \in Seq(STRING) /\ e.item.large \in BOOLEAN
  BY <1>2 DEF ItemTypes
<1>4. e.body.id \in STRING BY <1>2 DEF BodyTypes
<1> QED BY <1>2, <1>3, <1>4 DEF Strings, Wording

(* itemFor leaves what every item holds as it was, or is refused and says so. *)
LEMMA ItemForTyped ==
  ASSUME NEW c \in Calls, NEW e \in Events
  PROVE  LET f == itemFor(c, e)
         IN /\ f.call \in Calls
            /\ ~f.ok => f.call.partial
            /\ f.ok => f.call.partial = c.partial /\ e.index \in DOMAIN f.call.items /\ e.index \in Indices
            /\ c.partial => f.call.partial
            /\ \A j \in Indices : Same(ItemAt(f.call, j), ItemAt(c, j))
            /\ f.call.haveFinal = c.haveFinal /\ f.call.haveUnary = c.haveUnary /\ f.call.audio = c.audio /\ f.call.errorOut = c.errorOut
<1>1. PICK f : f = itemFor(c, e) OBVIOUS
<1>2. CASE e.index \notin Indices
  <2>1. f.call = Degraded(c) /\ ~f.ok BY <1>1, <1>2 DEF itemFor
  <2> QED BY <1>1, <2>1, DegradedTyped DEF Same, ItemAt
<1>3. CASE e.index \in Indices
  <2>1. PICK d : d = [c EXCEPT !.items = Opened(@, e.index)] OBVIOUS
  <2>2. /\ d \in Calls /\ e.index \in DOMAIN d.items /\ d.partial = c.partial
        /\ \A j \in Indices : ItemAt(d, j) = ItemAt(c, j)
        /\ d.haveFinal = c.haveFinal /\ d.haveUnary = c.haveUnary /\ d.audio = c.audio /\ d.errorOut = c.errorOut
    BY <1>3, <2>1, OpenedItems
  <2>3. f = bindIdentity(d, e.index, e.id) BY <1>1, <1>3, <2>1 DEF itemFor
  <2>4. e.id \in Strings BY EventTyped
  <2>5. /\ f.call \in Calls /\ e.index \in DOMAIN f.call.items
        /\ ~f.ok => f.call.partial
        /\ f.ok => f.call.partial = d.partial
        /\ d.partial => f.call.partial
        /\ \A j \in Indices : Same(ItemAt(f.call, j), ItemAt(d, j))
        /\ f.call.haveFinal = d.haveFinal /\ f.call.haveUnary = d.haveUnary /\ f.call.audio = d.audio /\ f.call.errorOut = d.errorOut
    BY <2>2, <2>3, <2>4, BindTyped
  <2> QED BY <1>1, <1>3, <2>2, <2>5
<1> QED BY <1>2, <1>3

(* What an item shows: anything it has of an image or of a text.           *)
LEMMA RenderShows ==
  ASSUME NEW item \in ItemStates, item.imaged \/ \E s \in Slots : item.text[s] # <<>>
  PROVE  render(item) # NotDone
<1>1. CASE item.imaged
  <2>1. render(item) = Placeholder("image_generation_call") BY <1>1 DEF render
  <2> QED BY <2>1 DEF Placeholder, NotDone
<1>2. CASE ~item.imaged /\ (item.text[Args] # <<>> \/ item.kind = "function_call")
  <2>1. render(item).kind = "function_call" BY <1>2 DEF render
  <2> QED BY <2>1 DEF NotDone
<1>3. CASE ~item.imaged /\ ~(item.text[Args] # <<>> \/ item.kind = "function_call") /\ item.text[Summary] # <<>>
  <2>1. render(item).kind = "reasoning" BY <1>3 DEF render
  <2> QED BY <2>1 DEF NotDone
<1>4. CASE ~item.imaged /\ ~(item.text[Args] # <<>> \/ item.kind = "function_call") /\ item.text[Summary] = <<>>
  <2>1. PICK s \in Slots : item.text[s] # <<>> BY <1>4
  <2>2. s \in Texts(0..MaxParts - 1) BY <1>4, <2>1 DEF Slots
  <2>3. Shows(item, Texts(0..MaxParts - 1)) # {} BY <2>1, <2>2 DEF Shows
  <2>4. render(item).kind = "message" BY <1>4, <2>3 DEF render
  <2> QED BY <2>4 DEF NotDone
<1> QED BY <1>1, <1>2, <1>3, <1>4

(* An item with a finished item, an image or a text is there to be seen. *)
LEMMA ItemVisible ==
  ASSUME NEW c \in Calls, NEW i \in DOMAIN c.items,
         c.items[i].done # NotDone \/ c.items[i].imaged \/ \E s \in Slots : c.items[i].text[s] # <<>>,
         ~c.errorOut
  PROVE  Visible(c)
<1>1. c.items[i] \in ItemStates BY ItemTyped
<1>2. Shown(c.items[i]) # NotDone BY <1>1, RenderShows DEF Shown
<1>3. <<i, Shown(c.items[i])>> \in renderFallback(c) BY <1>2 DEF renderFallback
<1> QED BY <1>3 DEF Visible, Result

(* What an event did to a call: only its own item may differ, a call that is not *)
(* marked partial still says what was said, output is there to be seen, and an   *)
(* error object comes with a terminal only.                                      *)
Effect(c, e, v) ==
  /\ v.call \in Calls
  /\ c.partial => v.call.partial
  /\ ~v.call.partial => \A j \in Indices : j # e.index => Same(ItemAt(v.call, j), ItemAt(c, j))
  /\ ~v.call.partial /\ e.index \in Indices =>
       \A s \in Sayings : Renders(ItemAt(c, e.index), s) => Renders(ItemAt(v.call, e.index), Saying(s, e))
  /\ v.output /\ ~e.oversized /\ ~c.errorOut => Visible(v.call)
  /\ v.terminal = "none" => v.call.errorOut = c.errorOut

(* Items that hold the same are the same saying. *)
LEMMA SameRenders ==
  ASSUME NEW x, NEW y, NEW s, Same(x, y), Renders(y, s)
  PROVE  Renders(x, s)
BY DEF Same, Renders, Accounted

(* An event that writes no item takes nothing from what was said.          *)
LEMMA QuietSaying ==
  ASSUME NEW e \in Events, NEW s, e.type \notin {"delta", "text", "image", "added", "done"}
  PROVE  Saying(s, e) = s
BY DEF Saying, Says

(* A finished item is all that is said at its index. *)
LEMMA DoneSaying ==
  ASSUME NEW e \in Events, NEW s, e.type = "done"
  PROVE  Saying(s, e) = [text |-> Empty, kinds |-> {}, done |-> [kind |-> e.item.kind, text |-> e.item.text]]
<1>1. PICK d : d = [kind |-> e.item.kind, text |-> e.item.text] OBVIOUS
<1>2. Saying(s, e) = [NothingSaid EXCEPT !.done = d] BY <1>1 DEF Saying, Says
<1> QED BY <1>1, <1>2 DEF NothingSaid

(* A text is said unless its slot is none, its item is finished, or it is empty. *)
LEMMA TextSaying ==
  ASSUME NEW e \in Events, NEW s \in Sayings, e.type \in {"delta", "text"}
  PROVE  /\ ~(s.done = NotDone /\ Says(e)) => Saying(s, e) = s
         /\ s.done = NotDone /\ Says(e) =>
              /\ Saying(s, e).text = [s.text EXCEPT ![e.slot] = IF e.type = "delta" THEN @ \o e.text ELSE e.text]
              /\ Saying(s, e).kinds = s.kinds \cup {KindOf(e.slot)} /\ Saying(s, e).done = NotDone
<1>1. CASE s.done = NotDone /\ Says(e)
  <2>1. PICK m : m = [s.text EXCEPT ![e.slot] = IF e.type = "delta" THEN @ \o e.text ELSE e.text] OBVIOUS
  <2>2. PICK k : k = s.kinds \cup {KindOf(e.slot)} OBVIOUS
  <2>3. Saying(s, e) = [s EXCEPT !.text = m, !.kinds = k] BY <1>1, <2>1, <2>2 DEF Saying
  <2>4. PICK t : t = [s EXCEPT !.text = m, !.kinds = k] OBVIOUS
  <2>5. t.text = m /\ t.kinds = k /\ t.done = NotDone BY <1>1, <2>4 DEF Sayings
  <2> QED BY <1>1, <2>1, <2>2, <2>3, <2>4, <2>5
<1>2. CASE ~(s.done = NotDone /\ Says(e))
  <2>1. Saying(s, e) = s BY <1>2 DEF Saying
  <2> QED BY <1>2, <2>1
<1> QED BY <1>1, <1>2

(* An image or an added item is a kind that is said. *)
LEMMA KindSaying ==
  ASSUME NEW e \in Events, NEW s \in Sayings, e.type \in {"image", "added"}
  PROVE  /\ s.done # NotDone => Saying(s, e) = s
         /\ s.done = NotDone =>
              /\ Saying(s, e).text = s.text /\ Saying(s, e).done = NotDone
              /\ e.type = "image" => Saying(s, e).kinds = s.kinds \cup {"image_generation_call"}
              /\ e.type = "added" => Saying(s, e).kinds = s.kinds \cup ({e.item.kind} \ {""})
              /\ Saying(s, e) = [s EXCEPT !.kinds = Saying(s, e).kinds]
<1>1. CASE s.done # NotDone BY <1>1 DEF Saying
<1>2. CASE s.done = NotDone
  <2>1. PICK k : k = s.kinds \cup (IF e.type = "image" THEN {"image_generation_call"} ELSE {e.item.kind} \ {""}) OBVIOUS
  <2>2. ~Says(e) BY DEF Says
  <2>3. Saying(s, e) = [s EXCEPT !.kinds = k] BY <1>2, <2>1, <2>2 DEF Saying
  <2>4. PICK t : t = [s EXCEPT !.kinds = k] OBVIOUS
  <2>5. t.text = s.text /\ t.done = NotDone /\ t.kinds = k BY <1>2, <2>4 DEF Sayings
  <2>6. e.type = "image" => k = s.kinds \cup {"image_generation_call"} BY <2>1
  <2>7. e.type = "added" => k = s.kinds \cup ({e.item.kind} \ {""}) BY <2>1
  <2> QED BY <1>2, <2>3, <2>4, <2>5, <2>6, <2>7
<1> QED BY <1>1, <1>2

(* A call that keeps its items, or is marked partial.                      *)
LEMMA Unchanged ==
  ASSUME NEW c \in Calls, NEW e \in Events, NEW v, v.call \in Calls, c.partial => v.call.partial,
         ~v.call.partial => \A j \in Indices : Same(ItemAt(v.call, j), ItemAt(c, j)),
         ~v.call.partial => \A s \in Sayings : e.index \in Indices /\ Renders(ItemAt(c, e.index), s) => Saying(s, e) = s,
         v.output /\ ~e.oversized /\ ~c.errorOut => Visible(v.call),
         v.terminal = "none" => v.call.errorOut = c.errorOut
  PROVE  Effect(c, e, v)
BY SameRenders DEF Effect

(* One item put in place of another of a call with the items of c.          *)
LEMMA Replacing ==
  ASSUME NEW c \in Calls, NEW e \in Events, e.index \in Indices, NEW f \in Calls, e.index \in DOMAIN f.items,
         \A j \in Indices : Same(ItemAt(f, j), ItemAt(c, j)), c.partial => f.partial,
         NEW x \in ItemStates, NEW v, v.call \in Calls, v.call.items = [f.items EXCEPT ![e.index] = x],
         f.partial => v.call.partial,
         \A s \in Sayings : ~v.call.partial /\ Renders(f.items[e.index], s) => Renders(x, Saying(s, e)),
         v.output /\ ~e.oversized /\ ~c.errorOut => Visible(v.call), v.call.errorOut = c.errorOut
  PROVE  Effect(c, e, v)
<1>1. f.items \in [DOMAIN f.items -> ItemStates] BY ItemTyped
<1>2. ItemAt(v.call, e.index) = x BY <1>1 DEF ItemAt
<1>3. \A j \in Indices : j # e.index => ItemAt(v.call, j) = ItemAt(f, j) BY <1>1 DEF ItemAt
<1>4. ItemAt(f, e.index) = f.items[e.index] BY DEF ItemAt
<1>5. ASSUME NEW s \in Sayings, ~v.call.partial, Renders(ItemAt(c, e.index), s)
      PROVE  Renders(ItemAt(v.call, e.index), Saying(s, e))
  <2>1. Same(ItemAt(f, e.index), ItemAt(c, e.index)) OBVIOUS
  <2>2. Renders(f.items[e.index], s) BY <1>4, <1>5, <2>1, SameRenders
  <2> QED BY <1>2, <1>5, <2>2
<1>6. \A j \in Indices : j # e.index => Same(ItemAt(v.call, j), ItemAt(c, j)) BY <1>3
<1> QED BY <1>5, <1>6 DEF Effect

(* Dropping everything leaves a call, marked partial. *)
LEMMA OverCapTyped ==
  ASSUME NEW f \in Calls
  PROVE  OverCap(f) \in Calls /\ OverCap(f).partial /\ OverCap(f).errorOut = f.errorOut
<1>1. <<>> \in [{} -> ItemStates] OBVIOUS
<1>2. <<>> \in ItemMaps BY <1>1 DEF ItemMaps
<1>3. Degraded(f) \in Calls /\ Degraded(f).partial /\ Degraded(f).errorOut = f.errorOut BY DegradedTyped
<1>4. PICK g : g = Degraded(f) OBVIOUS
<1>5. /\ [g EXCEPT !.items = <<>>] \in Calls /\ [g EXCEPT !.items = <<>>].partial = g.partial
      /\ [g EXCEPT !.items = <<>>].errorOut = g.errorOut
  BY <1>2, <1>3, <1>4 DEF Calls
<1> QED BY <1>3, <1>4, <1>5 DEF OverCap

(* appendText, replaceText, and the deltas of arguments and summaries. *)
LEMMA WriteEffect ==
  ASSUME NEW c \in Calls, NEW e \in Events, e.type \in {"delta", "text"},
         NEW replace \in BOOLEAN, replace <=> e.type = "text", NEW v, v = Write(c, e, replace)
  PROVE  Effect(c, e, v) /\ v.terminal = "none"
<1>1. PICK f : f = itemFor(c, e) OBVIOUS
<1>2. /\ f.call \in Calls
      /\ ~f.ok => f.call.partial
      /\ f.ok => f.call.partial = c.partial /\ e.index \in DOMAIN f.call.items /\ e.index \in Indices
      /\ c.partial => f.call.partial
      /\ \A j \in Indices : Same(ItemAt(f.call, j), ItemAt(c, j))
      /\ f.call.errorOut = c.errorOut
  BY <1>1, ItemForTyped
<1>3. CASE ~f.ok
  <2>3. ~Exceeds(c, e) BY <1>1, <1>3 DEF Exceeds
  <2>4. PICK o : o = Bears(e, FALSE) OBVIOUS
  <2>1. v = Continue(f.call, o) BY <1>1, <1>3, <2>3, <2>4 DEF Write
  <2>5. ~o BY <2>4 DEF Bears
  <2>2. v.call = f.call /\ ~v.output /\ v.terminal = "none" BY <2>1, <2>5 DEF Continue
  <2> QED BY <1>2, <1>3, <2>2, Unchanged
<1>4. CASE f.ok /\ Void(f.call, e)
  <2>6. ~Exceeds(c, e) BY <1>1, <1>4 DEF Exceeds
  <2>7. PICK o : o = Bears(e, FALSE) OBVIOUS
  <2>1. v = Continue(IF e.slot \in Slots THEN f.call ELSE Degraded(f.call), o)
    BY <1>1, <1>4, <2>6, <2>7 DEF Write
  <2>8. ~o BY <2>7 DEF Bears
  <2>2. /\ v.call = (IF e.slot \in Slots THEN f.call ELSE Degraded(f.call))
        /\ ~v.output /\ v.terminal = "none"
    BY <2>1, <2>8 DEF Continue
  <2>3. v.call \in Calls /\ (f.call.partial => v.call.partial) /\ v.call.errorOut = c.errorOut
    BY <1>2, <2>2, DegradedTyped
  <2>4. CASE e.slot \notin Slots
    <3>1. v.call.partial BY <1>2, <2>2, <2>4, DegradedTyped
    <3> QED BY <1>2, <2>2, <2>3, <3>1, Unchanged
  <2>5. CASE e.slot \in Slots
    <3>1. v.call = f.call BY <2>2, <2>5
    <3>2. ItemAt(f.call, e.index) = f.call.items[e.index] BY <1>2, <1>4 DEF ItemAt
    <3>3. ASSUME NEW s \in Sayings, e.index \in Indices, Renders(ItemAt(c, e.index), s)
          PROVE  Saying(s, e) = s
      <4>1. ~f.call.items[e.index].tombstone BY <1>2, <3>2, <3>3 DEF Same, Renders
      <4>2. e.text = <<>> /\ e.slot # Summary BY <1>4, <2>5, <4>1 DEF Void
      <4>3. ~Says(e) BY <4>2 DEF Says
      <4> QED BY <4>3, TextSaying
    <3> QED BY <1>2, <2>2, <3>1, <3>3, Unchanged
  <2> QED BY <2>2, <2>4, <2>5
<1>5. CASE f.ok /\ ~Void(f.call, e) /\ ~FitsCap(f.call, Len(e.text))
  <2>1. Exceeds(c, e) BY <1>1, <1>5 DEF Exceeds
  <2>5. PICK o : o = Bears(e, FALSE) OBVIOUS
  <2>2. v = Continue(OverCap(f.call), o) BY <1>1, <1>5, <2>1, <2>5 DEF Write
  <2>6. ~o BY <2>5 DEF Bears
  <2>3. v.call = OverCap(f.call) /\ ~v.output /\ v.terminal = "none" BY <2>2, <2>6 DEF Continue
  <2>4. v.call \in Calls /\ v.call.partial /\ v.call.errorOut = c.errorOut BY <1>2, <2>3, OverCapTyped
  <2> QED BY <2>3, <2>4, Unchanged
<1>6. CASE f.ok /\ ~Void(f.call, e) /\ FitsCap(f.call, Len(e.text))
  <2>1. ~Exceeds(c, e) BY <1>1, <1>6 DEF Exceeds
  <2>2. PICK g : g = f.call OBVIOUS
  <2>3. PICK x : x = Written(g.items[e.index], e.slot, e.text, replace) OBVIOUS
  <2>4. v = Continue([g EXCEPT !.bytes = @ + Len(e.text), !.items[e.index] = x], Bears(e, TRUE))
    BY <1>1, <1>6, <2>1, <2>2, <2>3 DEF Write
  <2>5. e.text \in Wording /\ e.slot \in Slots /\ (e.text = <<>> => e.slot = Summary)
    BY <1>6, EventTyped DEF Void
  <2>6. g \in Calls /\ e.index \in DOMAIN g.items /\ e.index \in Indices BY <1>2, <1>6, <2>2
  <2>7. PICK y \in ItemStates : y = g.items[e.index] BY <2>6, ItemTyped
  <2>8. PICK w : w = (IF replace THEN e.text ELSE y.text[e.slot] \o e.text) OBVIOUS
  <2>18. w \in Wording /\ (e.text # <<>> => w # <<>>) BY <2>5, <2>8, WordingFacts DEF ItemStates
  <2>19. x = [y EXCEPT !.kind = KindOf(e.slot), !.text[e.slot] = w] BY <2>3, <2>7, <2>8 DEF Written
  <2>20. /\ x \in ItemStates /\ x.done = y.done /\ x.tombstone = y.tombstone /\ x.imaged = y.imaged
         /\ x.kind = KindOf(e.slot)
         /\ x.text = [y.text EXCEPT ![e.slot] = w] /\ x.text[e.slot] = w
    <3>1. PICK k \in Strings : k = KindOf(e.slot) BY DEF KindOf, Strings
    <3>2. PICK m : m = [y.text EXCEPT ![e.slot] = w] OBVIOUS
    <3>3. m \in [Slots -> Wording] /\ m[e.slot] = w BY <2>5, <2>18, <3>2 DEF ItemStates
    <3>4. x = [y EXCEPT !.kind = k, !.text = m] BY <2>19, <3>1, <3>2
    <3>5. /\ x \in ItemStates /\ x.done = y.done /\ x.tombstone = y.tombstone /\ x.text = m
          /\ x.imaged = y.imaged /\ x.kind = k
      BY <3>3, <3>4 DEF ItemStates
    <3> QED BY <3>1, <3>2, <3>3, <3>5
  <2>9. PICK n \in Nat : n = g.bytes + Len(e.text) BY <2>5, <2>6, WordingFacts DEF Calls
  <2>10. PICK d : d = [g EXCEPT !.bytes = n, !.items = [g.items EXCEPT ![e.index] = x]] OBVIOUS
  <2>12. /\ d \in Calls /\ d.partial = g.partial /\ d.items = [g.items EXCEPT ![e.index] = x]
         /\ e.index \in DOMAIN d.items /\ d.items[e.index] = x /\ d.errorOut = c.errorOut
    <3>1. x \in ItemStates BY <2>20
    <3>2. PICK h : h = [g EXCEPT !.items = [g.items EXCEPT ![e.index] = x]] OBVIOUS
    <3>3. /\ h \in Calls /\ h.partial = g.partial /\ e.index \in DOMAIN h.items /\ h.items[e.index] = x
          /\ h.errorOut = g.errorOut
      BY <2>6, <3>1, <3>2, Replaced
    <3>4. d = [h EXCEPT !.bytes = n] BY <2>6, <2>10, <3>2 DEF Calls
    <3>5. d \in Calls /\ d.partial = h.partial /\ d.items = h.items /\ d.errorOut = h.errorOut BY <3>3, <3>4 DEF Calls
    <3>6. h.items = [g.items EXCEPT ![e.index] = x] BY <2>6, <3>2 DEF Calls
    <3> QED BY <1>2, <2>2, <3>3, <3>5, <3>6
  <2>13. d = [g EXCEPT !.bytes = @ + Len(e.text), !.items[e.index] = x] BY <2>6, <2>9, <2>10 DEF Calls
  <2>14. v.call = d /\ v.output = Bears(e, TRUE) /\ v.terminal = "none" BY <2>4, <2>13 DEF Continue
  <2>15. v.output /\ ~c.errorOut => Visible(d)
    <3>1. v.output => e.text # <<>> BY <2>5, <2>14 DEF Bears
    <3>2. e.text # <<>> => d.items[e.index].text[e.slot] # <<>> BY <2>18, <2>20, <2>12
    <3> QED BY <2>5, <2>12, <3>1, <3>2, ItemVisible
  <2>16. ASSUME NEW s \in Sayings, Renders(y, s)
         PROVE  Renders(x, Saying(s, e))
    <3>1. CASE s.done # NotDone
      <4>1. Saying(s, e) = s BY <3>1, TextSaying
      <4> QED BY <2>20, <2>16, <3>1, <4>1 DEF Renders
    <3>2. CASE s.done = NotDone
      <4>1. Says(e) BY <2>5 DEF Says
      <4>2. PICK t : t = Saying(s, e) OBVIOUS
      <4>3. /\ t.text = [s.text EXCEPT ![e.slot] = IF e.type = "delta" THEN @ \o e.text ELSE e.text]
            /\ t.kinds = s.kinds \cup {KindOf(e.slot)} /\ t.done = NotDone
        BY <3>2, <4>1, <4>2, TextSaying
      <4>4. Accounted(y, s) BY <2>16, <3>2 DEF Renders
      <4>5. y.text = s.text /\ s.text \in [Slots -> Wording] BY <4>4 DEF Accounted, Sayings
      <4>6. x.text = t.text BY <2>5, <2>8, <2>20, <4>3, <4>5
      <4>7. ASSUME NEW q \in Slots, t.text[q] # <<>> PROVE KindOf(q) \in t.kinds
        <5>1. CASE q = e.slot BY <5>1, <4>3
        <5>2. CASE q # e.slot
          <6>1. t.text[q] = s.text[q] BY <4>3, <4>5, <5>2
          <6> QED BY <4>3, <4>4, <4>7, <6>1 DEF Accounted
        <5> QED BY <5>1, <5>2
      <4>8. Accounted(x, t)
        <5>1. x.imaged => "image_generation_call" \in t.kinds BY <2>20, <4>3, <4>4 DEF Accounted
        <5>2. x.kind \in t.kinds BY <2>20, <4>3
        <5> QED BY <4>6, <4>7, <5>1, <5>2 DEF Accounted
      <4>9. x.done = NotDone /\ ~x.tombstone BY <2>20, <2>16, <3>2 DEF Renders
      <4> QED BY <4>2, <4>3, <4>8, <4>9 DEF Renders
    <3> QED BY <3>1, <3>2
  <2>17. Effect(c, e, v)
    <3>1. \A j \in Indices : Same(ItemAt(g, j), ItemAt(c, j)) BY <1>2, <2>2
    <3>2. c.partial => g.partial BY <1>2, <2>2
    <3>3. \A s \in Sayings : ~v.call.partial /\ Renders(g.items[e.index], s) => Renders(x, Saying(s, e))
      BY <2>7, <2>16
    <3>4. v.call \in Calls /\ v.call.items = [g.items EXCEPT ![e.index] = x] /\ (g.partial => v.call.partial)
      BY <2>12, <2>14
    <3>5. (v.output /\ ~e.oversized /\ ~c.errorOut => Visible(v.call)) /\ v.call.errorOut = c.errorOut
      BY <2>12, <2>14, <2>15
    <3> QED BY <2>6, <2>20, <3>1, <3>2, <3>3, <3>4, <3>5, Replacing
  <2> QED BY <2>14, <2>17
<1> QED BY <1>3, <1>4, <1>5, <1>6

(* An item changed in a field that is not text, and only in that.           *)
LEMMA ImageEffect ==
  ASSUME NEW c \in Calls, NEW e \in Events, e.type = "image", NEW v, v = partialImage(c, e)
  PROVE  Effect(c, e, v) /\ v.terminal = "none"
<1>1. PICK f : f = itemFor(c, e) OBVIOUS
<1>2. /\ f.call \in Calls
      /\ ~f.ok => f.call.partial
      /\ f.ok => f.call.partial = c.partial /\ e.index \in DOMAIN f.call.items /\ e.index \in Indices
      /\ c.partial => f.call.partial
      /\ \A j \in Indices : Same(ItemAt(f.call, j), ItemAt(c, j))
      /\ f.call.errorOut = c.errorOut
  BY <1>1, ItemForTyped
<1>3. CASE ~f.ok
  <2>1. v = Continue(f.call, FALSE) BY <1>1, <1>3 DEF partialImage
  <2>2. v.call = f.call /\ ~v.output /\ v.terminal = "none" BY <2>1 DEF Continue
  <2> QED BY <1>2, <1>3, <2>2, Unchanged
<1>4. CASE f.ok /\ f.call.items[e.index].tombstone
  <2>1. v = Continue(Degraded(f.call), FALSE) BY <1>1, <1>4 DEF partialImage
  <2>2. v.call = Degraded(f.call) /\ ~v.output /\ v.terminal = "none" BY <2>1 DEF Continue
  <2>3. v.call \in Calls /\ v.call.partial /\ v.call.errorOut = c.errorOut BY <1>2, <2>2, DegradedTyped
  <2> QED BY <2>2, <2>3, Unchanged
<1>5. CASE f.ok /\ ~f.call.items[e.index].tombstone
  <2>1. PICK g : g = f.call OBVIOUS
  <2>2. g \in Calls /\ e.index \in DOMAIN g.items /\ e.index \in Indices BY <1>2, <1>5, <2>1
  <2>3. PICK y \in ItemStates : y = g.items[e.index] BY <2>2, ItemTyped
  <2>4. PICK x : x = [y EXCEPT !.imaged = TRUE, !.kind = "image_generation_call"] OBVIOUS
  <2>5. /\ x \in ItemStates /\ x.done = y.done /\ x.tombstone = y.tombstone /\ x.text = y.text /\ x.imaged
         /\ x.kind = "image_generation_call"
    BY <2>4 DEF ItemStates, Strings
  <2>6. PICK d : d = [g EXCEPT !.items = [g.items EXCEPT ![e.index] = x]] OBVIOUS
  <2>7. /\ d \in Calls /\ d.partial = g.partial /\ e.index \in DOMAIN d.items /\ d.items[e.index] = x
        /\ d.errorOut = g.errorOut
    BY <2>2, <2>5, <2>6, Replaced
  <2>8. [g EXCEPT !.items[e.index].imaged = TRUE, !.items[e.index].kind = "image_generation_call"] = d
    <3>1. PICK m : m = g.items OBVIOUS
    <3>2. [[m EXCEPT ![e.index].imaged = TRUE] EXCEPT ![e.index].kind = "image_generation_call"]
            = [m EXCEPT ![e.index] = [m[e.index] EXCEPT !.imaged = TRUE, !.kind = "image_generation_call"]]
      BY <2>2, <3>1, ItemTyped
    <3> QED BY <2>2, <2>3, <2>4, <2>6, <3>1, <3>2 DEF Calls
  <2>9. v = Continue(d, TRUE) BY <1>1, <1>5, <2>1, <2>8 DEF partialImage
  <2>10. v.call = d /\ v.output /\ v.terminal = "none" BY <2>9 DEF Continue
  <2>11. d.items = [g.items EXCEPT ![e.index] = x] BY <2>2, <2>6 DEF Calls
  <2>15. d.errorOut = c.errorOut BY <1>2, <2>1, <2>7
  <2>12. ~c.errorOut => Visible(d) BY <2>5, <2>7, <2>15, ItemVisible
  <2>13. ASSUME NEW s \in Sayings, Renders(g.items[e.index], s) PROVE Renders(x, Saying(s, e))
    <3>1. CASE s.done # NotDone BY <2>3, <2>5, <2>13, <3>1, KindSaying DEF Renders
    <3>2. CASE s.done = NotDone
      <4>1. PICK t : t = Saying(s, e) OBVIOUS
      <4>2. t.text = s.text /\ t.kinds = s.kinds \cup {"image_generation_call"} /\ t.done = NotDone
        BY <2>13, <3>2, <4>1, KindSaying
      <4>3. Accounted(y, s) /\ y.done = NotDone /\ ~y.tombstone BY <2>3, <2>13, <3>2 DEF Renders
      <4>4. Accounted(x, t) BY <2>5, <4>2, <4>3 DEF Accounted
      <4> QED BY <2>5, <4>1, <4>2, <4>3, <4>4 DEF Renders
    <3> QED BY <3>1, <3>2
  <2>14. Effect(c, e, v)
    <3>1. \A j \in Indices : Same(ItemAt(g, j), ItemAt(c, j)) BY <1>2, <2>1
    <3>2. c.partial => g.partial BY <1>2, <2>1
    <3>3. v.call \in Calls /\ v.call.items = [g.items EXCEPT ![e.index] = x] /\ (g.partial => v.call.partial)
      BY <2>7, <2>10, <2>11
    <3>4. \A s \in Sayings : ~v.call.partial /\ Renders(g.items[e.index], s) => Renders(x, Saying(s, e)) BY <2>13
    <3>5. (v.output /\ ~e.oversized /\ ~c.errorOut => Visible(v.call)) /\ v.call.errorOut = c.errorOut
      BY <2>10, <2>12, <2>15
    <3> QED BY <2>2, <2>5, <3>1, <3>2, <3>3, <3>4, <3>5, Replacing
  <2> QED BY <2>10, <2>14
<1> QED BY <1>3, <1>4, <1>5

(* output_item.added says nothing of what an item holds. *)
LEMMA BindEffect ==
  ASSUME NEW c \in Calls, NEW e \in Events, e.type = "added", NEW v, v = bindItem(c, e)
  PROVE  Effect(c, e, v) /\ v.terminal = "none"
<1>1. PICK f : f = itemFor(c, e) OBVIOUS
<1>2. /\ f.call \in Calls
      /\ ~f.ok => f.call.partial
      /\ f.ok => f.call.partial = c.partial /\ e.index \in DOMAIN f.call.items /\ e.index \in Indices
      /\ c.partial => f.call.partial
      /\ \A j \in Indices : Same(ItemAt(f.call, j), ItemAt(c, j))
      /\ f.call.errorOut = c.errorOut
  BY <1>1, ItemForTyped
<1>3. PICK b : b = bindIdentity(f.call, e.index, e.item.id) OBVIOUS
<1>4. f.ok =>
        /\ b.call \in Calls /\ e.index \in DOMAIN b.call.items
        /\ ~b.ok => b.call.partial
        /\ b.ok => b.call.partial = f.call.partial
        /\ f.call.partial => b.call.partial
        /\ \A j \in Indices : Same(ItemAt(b.call, j), ItemAt(f.call, j))
        /\ b.call.errorOut = c.errorOut
  BY <1>2, <1>3, EventTyped, BindTyped
<1>5. CASE ~f.ok
  <2>1. v = Continue(f.call, FALSE) BY <1>1, <1>5 DEF bindItem
  <2>2. v.call = f.call /\ ~v.output /\ v.terminal = "none" BY <2>1 DEF Continue
  <2> QED BY <1>2, <1>5, <2>2, Unchanged
<1>6. CASE f.ok /\ ~b.ok
  <2>1. v = Continue(b.call, FALSE) BY <1>1, <1>3, <1>6 DEF bindItem
  <2>2. v.call = b.call /\ ~v.output /\ v.terminal = "none" BY <2>1 DEF Continue
  <2> QED BY <1>4, <1>6, <2>2, Unchanged
<1>7. CASE f.ok /\ b.ok
  <2>1. PICK g : g = b.call OBVIOUS
  <2>2. g \in Calls /\ e.index \in DOMAIN g.items /\ e.index \in Indices BY <1>2, <1>4, <1>7, <2>1
  <2>3. PICK y \in ItemStates : y = g.items[e.index] BY <2>2, ItemTyped
  <2>14. PICK k \in Strings : k = (IF e.item.kind # "" THEN e.item.kind ELSE y.kind) BY EventTyped DEF ItemStates
  <2>4. PICK x : x = [y EXCEPT !.kind = k] OBVIOUS
  <2>5. /\ x \in ItemStates /\ x.done = y.done /\ x.tombstone = y.tombstone /\ x.text = y.text
        /\ x.imaged = y.imaged /\ x.kind = k
    BY <2>4 DEF ItemStates
  <2>6. PICK d : d = [g EXCEPT !.items = [g.items EXCEPT ![e.index] = x]] OBVIOUS
  <2>7. /\ d \in Calls /\ d.partial = g.partial /\ e.index \in DOMAIN d.items /\ d.items[e.index] = x
        /\ d.errorOut = g.errorOut
    BY <2>2, <2>5, <2>6, Replaced
  <2>8. [g EXCEPT !.items[e.index].kind = IF e.item.kind # "" THEN e.item.kind ELSE @] = d BY <2>3, <2>4, <2>6, <2>14
  <2>9. v = Continue(d, FALSE) BY <1>1, <1>3, <1>7, <2>1, <2>8 DEF bindItem
  <2>10. v.call = d /\ ~v.output /\ v.terminal = "none" BY <2>9 DEF Continue
  <2>11. d.items = [g.items EXCEPT ![e.index] = x] BY <2>2, <2>6 DEF Calls
  <2>12. ASSUME NEW s \in Sayings, Renders(g.items[e.index], s) PROVE Renders(x, Saying(s, e))
    <3>1. CASE s.done # NotDone BY <2>3, <2>5, <2>12, <3>1, KindSaying DEF Renders
    <3>2. CASE s.done = NotDone
      <4>1. PICK t : t = Saying(s, e) OBVIOUS
      <4>2. t.text = s.text /\ t.kinds = s.kinds \cup ({e.item.kind} \ {""}) /\ t.done = NotDone
        BY <2>12, <3>2, <4>1, KindSaying
      <4>3. Accounted(y, s) /\ y.done = NotDone /\ ~y.tombstone BY <2>3, <2>12, <3>2 DEF Renders
      <4>4. x.kind = "function_call" => "function_call" \in t.kinds BY <2>5, <2>14, <4>2, <4>3 DEF Accounted
      <4>5. Accounted(x, t) BY <2>5, <4>2, <4>3, <4>4 DEF Accounted
      <4> QED BY <2>5, <4>1, <4>2, <4>3, <4>5 DEF Renders
    <3> QED BY <3>1, <3>2
  <2>13. Effect(c, e, v)
    <3>1. \A j \in Indices : Same(ItemAt(g, j), ItemAt(c, j)) BY <1>2, <1>4, <1>7, <2>1 DEF Same
    <3>2. c.partial => g.partial BY <1>2, <1>4, <1>7, <2>1
    <3>3. v.call \in Calls /\ v.call.items = [g.items EXCEPT ![e.index] = x] /\ (g.partial => v.call.partial)
      BY <2>7, <2>10, <2>11
    <3>4. \A s \in Sayings : ~v.call.partial /\ Renders(g.items[e.index], s) => Renders(x, Saying(s, e)) BY <2>12
    <3>5. v.call.errorOut = c.errorOut BY <1>4, <1>7, <2>1, <2>7, <2>10
    <3> QED BY <2>2, <2>5, <2>10, <3>1, <3>2, <3>3, <3>4, <3>5, Replacing
  <2> QED BY <2>10, <2>13
<1> QED BY <1>5, <1>6, <1>7

(* What is kept of a finished item: all of it, or the result is partial; and it shows. *)
LEMMA SanitizedItem ==
  ASSUME NEW item \in ItemTypes
  PROVE  LET clean == sanitizeResponsesOutputItem(item)
         IN /\ clean.kept \in Shapes /\ clean.partial \in BOOLEAN
            /\ ~clean.partial => clean.kept = [kind |-> item.kind, text |-> item.text] /\ clean.kept # NotDone
            /\ clean.bearing => clean.kept # NotDone
<1>1. item.kind \in Strings /\ item.text \in Wording BY DEF ItemTypes, Strings, Wording
<1>2. PICK clean : clean = sanitizeResponsesOutputItem(item) OBVIOUS
<1>3. /\ clean.kept = (IF item.kind \in Retained THEN [kind |-> item.kind, text |-> item.text] ELSE Placeholder(item.kind))
      /\ clean.bearing = (item.text # <<>> /\ item.kind \in {"message", "function_call", "image_generation_call"})
      /\ clean.partial = (item.kind \notin Retained)
  BY <1>2 DEF sanitizeResponsesOutputItem
<1>4. clean.kept \in Shapes BY <1>1, <1>3, WordingFacts DEF Shapes, Placeholder
<1>5. clean.kept.kind = item.kind BY <1>3 DEF Placeholder
<1>6. item.kind # "none" => clean.kept # NotDone BY <1>5 DEF NotDone
<1>7. clean.bearing => item.kind # "none" BY <1>3
<1>8. ~clean.partial => item.kind # "none" BY <1>3 DEF Retained
<1>9. ~clean.partial => clean.kept = [kind |-> item.kind, text |-> item.text] BY <1>3
<1>10. clean.partial \in BOOLEAN BY <1>3
<1> QED BY <1>2, <1>4, <1>6, <1>7, <1>8, <1>9, <1>10

(* output_item.done: what is kept is what was said, unless the call is marked partial. *)
LEMMA DoneEffect ==
  ASSUME NEW c \in Calls, NEW e \in Events, e.type = "done", NEW v, v = finalizeItem(c, e)
  PROVE  Effect(c, e, v) /\ v.terminal = "none"
<1>1. PICK f : f = itemFor(c, e) OBVIOUS
<1>2. /\ f.call \in Calls
      /\ ~f.ok => f.call.partial
      /\ f.ok => f.call.partial = c.partial /\ e.index \in DOMAIN f.call.items /\ e.index \in Indices
      /\ c.partial => f.call.partial
      /\ \A j \in Indices : Same(ItemAt(f.call, j), ItemAt(c, j))
      /\ f.call.errorOut = c.errorOut
  BY <1>1, ItemForTyped
<1>3. PICK b : b = bindIdentity(f.call, e.index, e.item.id) OBVIOUS
<1>4. f.ok =>
        /\ b.call \in Calls /\ e.index \in DOMAIN b.call.items
        /\ ~b.ok => b.call.partial
        /\ b.ok => b.call.partial = f.call.partial
        /\ f.call.partial => b.call.partial
        /\ \A j \in Indices : Same(ItemAt(b.call, j), ItemAt(f.call, j))
        /\ b.call.errorOut = c.errorOut
  BY <1>2, <1>3, EventTyped, BindTyped
<1>5. CASE ~f.ok
  <2>1. v = Continue(f.call, FALSE) BY <1>1, <1>5 DEF finalizeItem
  <2>2. v.call = f.call /\ ~v.output /\ v.terminal = "none" BY <2>1 DEF Continue
  <2> QED BY <1>2, <1>5, <2>2, Unchanged
<1>6. CASE f.ok /\ ~b.ok
  <2>1. v = Continue(b.call, FALSE) BY <1>1, <1>3, <1>6 DEF finalizeItem
  <2>2. v.call = b.call /\ ~v.output /\ v.terminal = "none" BY <2>1 DEF Continue
  <2> QED BY <1>4, <1>6, <2>2, Unchanged
<1>7. CASE f.ok /\ b.ok /\ e.item.large
  <2>1. PICK g : g = Degraded(b.call) OBVIOUS
  <2>2. b.call \in Calls /\ e.index \in DOMAIN b.call.items BY <1>4, <1>7
  <2>3. g \in Calls /\ g.partial /\ e.index \in DOMAIN g.items /\ g.errorOut = c.errorOut
    BY <1>4, <1>7, <2>1, <2>2, DegradedTyped
  <2>4. PICK y \in ItemStates : y = g.items[e.index] BY <2>3, ItemTyped
  <2>5. PICK p : p = Placeholder(e.item.kind) OBVIOUS
  <2>6. p \in Shapes BY <2>5, EventTyped, WordingFacts DEF Placeholder, Shapes
  <2>7. PICK x : x = [y EXCEPT !.done = p, !.text = Empty, !.tombstone = e.item.large] OBVIOUS
  <2>8. x \in ItemStates
    <3>1. Empty \in [Slots -> Wording] BY BlankTyped
    <3>2. e.item.large \in BOOLEAN BY EventTyped
    <3> QED BY <2>6, <2>7, <3>1, <3>2 DEF ItemStates
  <2>9. PICK d : d = [g EXCEPT !.items = [g.items EXCEPT ![e.index] = x]] OBVIOUS
  <2>10. d \in Calls /\ d.partial = g.partial /\ d.errorOut = g.errorOut BY <2>3, <2>8, <2>9, Replaced
  <2>11. v = Continue([g EXCEPT !.items[e.index] = x], FALSE)
    BY <1>1, <1>3, <1>7, <2>1, <2>4, <2>5, <2>7 DEF finalizeItem
  <2>12. v.call = d /\ ~v.output /\ v.terminal = "none" BY <2>9, <2>11 DEF Continue
  <2> QED BY <2>3, <2>10, <2>12, Unchanged
<1>8. CASE f.ok /\ b.ok /\ ~e.item.large
  <2>1. PICK g : g = b.call OBVIOUS
  <2>2. g \in Calls /\ e.index \in DOMAIN g.items /\ e.index \in Indices BY <1>2, <1>4, <1>8, <2>1
  <2>3. PICK y \in ItemStates : y = g.items[e.index] BY <2>2, ItemTyped
  <2>4. PICK clean : clean = sanitizeResponsesOutputItem(e.item) OBVIOUS
  <2>5. /\ clean.kept \in Shapes /\ clean.partial \in BOOLEAN
        /\ ~clean.partial => clean.kept = [kind |-> e.item.kind, text |-> e.item.text] /\ clean.kept # NotDone
        /\ clean.bearing => clean.kept # NotDone
    BY <2>4, EventTyped, SanitizedItem
  <2>6. PICK k : k = clean.kept OBVIOUS
  <2>7. PICK x : x = [y EXCEPT !.done = k, !.text = Empty, !.tombstone = e.item.large, !.kind = e.item.kind] OBVIOUS
  <2>8. x \in ItemStates /\ x.done = k /\ ~x.tombstone /\ x.text = Empty
    <3>1. Empty \in [Slots -> Wording] BY BlankTyped
    <3>2. e.item.large \in BOOLEAN /\ e.item.kind \in Strings BY EventTyped
    <3> QED BY <1>8, <2>5, <2>6, <2>7, <3>1, <3>2 DEF ItemStates
  <2>9. PICK h : h = [g EXCEPT !.items = [g.items EXCEPT ![e.index] = x]] OBVIOUS
  <2>10. /\ h \in Calls /\ h.partial = g.partial /\ e.index \in DOMAIN h.items /\ h.items[e.index] = x
         /\ h.errorOut = c.errorOut
    BY <1>4, <1>8, <2>1, <2>2, <2>8, <2>9, Replaced
  <2>11. PICK p : p = (g.partial \/ clean.partial) OBVIOUS
  <2>12. p \in BOOLEAN BY <2>2, <2>5, <2>11 DEF Calls
  <2>13. PICK d : d = [h EXCEPT !.partial = p] OBVIOUS
  <2>14. d \in Calls /\ d.partial = p /\ d.items = h.items /\ d.errorOut = c.errorOut BY <2>10, <2>12, <2>13 DEF Calls
  <2>15. d = [g EXCEPT !.partial = p, !.items[e.index] = x] BY <2>2, <2>9, <2>13 DEF Calls
  <2>16. v = Continue([g EXCEPT !.partial = p, !.items[e.index] = x], clean.bearing)
    <3>1. v = Continue([g EXCEPT !.partial = @ \/ clean.partial,
              !.items[e.index] = [[@ EXCEPT !.done = clean.kept, !.text = Empty, !.tombstone = e.item.large]
                                     EXCEPT !.kind = e.item.kind]], clean.bearing)
      BY <1>1, <1>3, <1>8, <2>1, <2>4 DEF finalizeItem
    <3>2. x = [[y EXCEPT !.done = clean.kept, !.text = Empty, !.tombstone = e.item.large] EXCEPT !.kind = e.item.kind]
      BY <2>6, <2>7
    <3> QED BY <2>3, <2>11, <3>1, <3>2
  <2>17. v.call = d /\ v.output = clean.bearing /\ v.terminal = "none" BY <2>15, <2>16 DEF Continue
  <2>18. v.output /\ ~c.errorOut => Visible(d)
    <3>1. v.output => d.items[e.index].done # NotDone BY <2>5, <2>6, <2>8, <2>10, <2>14, <2>17
    <3>2. e.index \in DOMAIN d.items BY <2>10, <2>14
    <3> QED BY <2>14, <3>1, <3>2, ItemVisible
  <2>19. ASSUME NEW s \in Sayings, ~v.call.partial, Renders(g.items[e.index], s)
         PROVE  Renders(x, Saying(s, e))
    <3>1. ~clean.partial BY <2>11, <2>14, <2>17, <2>19
    <3>2. x.done = Saying(s, e).done /\ x.done # NotDone BY <2>5, <2>6, <2>8, <3>1, DoneSaying
    <3> QED BY <2>8, <3>2 DEF Renders
  <2>20. Effect(c, e, v)
    <3>1. \A j \in Indices : Same(ItemAt(g, j), ItemAt(c, j)) BY <1>2, <1>4, <1>8, <2>1 DEF Same
    <3>2. c.partial => g.partial BY <1>2, <1>4, <1>8, <2>1
    <3>3. h.items = [g.items EXCEPT ![e.index] = x] BY <2>2, <2>9 DEF Calls
    <3>4. v.call \in Calls /\ v.call.items = [g.items EXCEPT ![e.index] = x] /\ (g.partial => v.call.partial)
      BY <2>11, <2>14, <2>17, <3>3
    <3>5. \A s \in Sayings : ~v.call.partial /\ Renders(g.items[e.index], s) => Renders(x, Saying(s, e)) BY <2>19
    <3>6. (v.output /\ ~e.oversized /\ ~c.errorOut => Visible(v.call)) /\ v.call.errorOut = c.errorOut
      BY <2>14, <2>17, <2>18
    <3> QED BY <2>2, <2>8, <3>1, <3>2, <3>4, <3>5, <3>6, Replacing
  <2> QED BY <2>17, <2>20
<1> QED BY <1>5, <1>6, <1>7, <1>8

(* Final responses: the items are left as they are, what is kept of the output is typed. *)
LEMMA SanitizedTyped ==
  ASSUME NEW items \in Seq(ItemTypes)
  PROVE  SanitizedOutput(items) \in Finals /\ LosesOutput(items) \in BOOLEAN
<1>1. \A i \in DOMAIN items : items[i] \in ItemTypes OBVIOUS
<1>2. ASSUME NEW i \in DOMAIN items
      PROVE  (IF items[i].large THEN Placeholder(items[i].kind) ELSE sanitizeResponsesOutputItem(items[i]).kept) \in Shapes
  <2>1. PICK item \in ItemTypes : item = items[i] BY <1>1
  <2>2. sanitizeResponsesOutputItem(item).kept \in Shapes BY SanitizedItem
  <2>3. Placeholder(item.kind) \in Shapes BY WordingFacts DEF Placeholder, Shapes, ItemTypes, Strings
  <2> QED BY <2>1, <2>2, <2>3
<1>3. PICK m : m = SanitizedOutput(items) OBVIOUS
<1>4. m \in [DOMAIN items -> Shapes] BY <1>2, <1>3 DEF SanitizedOutput
<1>5. Len(items) \in Nat /\ DOMAIN items = 1..Len(items) OBVIOUS
<1>6. m \in Seq(Shapes) BY <1>4, <1>5
<1> QED BY <1>3, <1>6 DEF Finals, LosesOutput

(* applyBody leaves the items alone, and an output makes a final response. *)
LEMMA BodyKeeps ==
  ASSUME NEW c \in Calls, NEW unary, unary.id \in Strings, unary.error \in BOOLEAN, unary.output \in BOOLEAN,
         unary.items \in Seq(ItemTypes)
  PROVE  /\ applyBody(c, unary, FALSE) \in Calls /\ applyBody(c, unary, FALSE).items = c.items
         /\ c.partial => applyBody(c, unary, FALSE).partial
         /\ unary.output => applyBody(c, unary, FALSE).haveFinal
<1>1. PICK i \in Strings : i = (IF unary.id # "" THEN unary.id ELSE c.id) BY DEF Calls
<1>2. PICK r \in BOOLEAN : r = (c.error \/ unary.error) BY DEF Calls
<1>8. PICK n \in BOOLEAN : n = (c.errorOut \/ unary.error) BY DEF Calls
<1>3. PICK d : d = [c EXCEPT !.id = i, !.error = r, !.errorOut = n] OBVIOUS
<1>4. d \in Calls /\ d.items = c.items /\ d.partial = c.partial BY <1>3 DEF Calls
<1>5. d = [c EXCEPT !.id = IF unary.id # "" THEN unary.id ELSE @, !.error = @ \/ unary.error,
                    !.errorOut = @ \/ unary.error]
  BY <1>1, <1>2, <1>3, <1>8
<1>6. CASE ~unary.output
  <2>1. applyBody(c, unary, FALSE) = d BY <1>5, <1>6 DEF applyBody
  <2> QED BY <1>4, <1>6, <2>1
<1>7. CASE unary.output
  <2>1. PICK s \in Finals : s = SanitizedOutput(unary.items) BY SanitizedTyped
  <2>2. PICK p \in BOOLEAN : p = (d.partial \/ LosesOutput(unary.items)) BY SanitizedTyped, <1>4 DEF Calls
  <2>3. PICK t \in BOOLEAN : t = ~FALSE OBVIOUS
  <2>4. PICK u \in BOOLEAN : u = FALSE OBVIOUS
  <2>5. PICK h : h = [d EXCEPT !.partial = p, !.final = s, !.haveFinal = t, !.haveUnary = u] OBVIOUS
  <2>6. h \in Calls /\ h.items = d.items /\ h.partial = p /\ h.haveFinal BY <1>4, <2>3, <2>5 DEF Calls
  <2>7. applyBody(c, unary, FALSE) = [d EXCEPT !.partial = @ \/ LosesOutput(unary.items), !.final = SanitizedOutput(unary.items),
                                             !.haveFinal = ~FALSE, !.haveUnary = FALSE]
    BY <1>5, <1>7 DEF applyBody
  <2>8. applyBody(c, unary, FALSE) = h BY <2>1, <2>2, <2>3, <2>4, <2>5, <2>7
  <2> QED BY <1>4, <2>2, <2>6, <2>8
<1> QED BY <1>6, <1>7

(* The verdict of a terminal event against its type and status.            *)
Severe(class, status, verdictOf, error) ==
  /\ verdictOf = "success" => {class, status} \subseteq {"", "completed"}
  /\ "failed" \in {class, status} => verdictOf = "error"
  /\ verdictOf = "error" => error

(* moreSevereClass: no verdict is milder than the type or the status. *)
LEMMA ClassIsSevere ==
  ASSUME NEW class \in {"completed", "failed", "incomplete"}, NEW status,
         NEW error, moreSevereClass(class, status) = "failed" => error
  PROVE  /\ Severe(class, status, TerminalVerdicts[moreSevereClass(class, status)], error)
         /\ TerminalVerdicts[moreSevereClass(class, status)] # "none"
<1>1. PICK m : m = moreSevereClass(class, status) OBVIOUS
<1>2. status = "" => m = class BY <1>1 DEF moreSevereClass
<1>3. status # "" =>
        m = (IF rank(ClassOf(status)) <= rank(class) THEN class ELSE ClassOf(status))
  BY <1>1 DEF moreSevereClass
<1>4. rank("failed") = 2 /\ rank("incomplete") = 1 /\ rank("completed") = 0 BY DEF rank
<1>5. /\ status = "failed" => ClassOf(status) = "failed"
      /\ status = "completed" => ClassOf(status) = "completed"
      /\ status \notin {"failed", "completed"} => ClassOf(status) = "incomplete"
  BY DEF ClassOf
<1>6. m \in {"completed", "failed", "incomplete"} BY <1>2, <1>3, <1>5
<1>14. PICK k : k = ClassOf(status) OBVIOUS
<1>15. k = "failed" \/ k = "incomplete" \/ k = "completed" BY <1>5, <1>14
<1>16. rank(class) \in Nat /\ (rank(class) >= 1 => class # "completed") /\ (class # "failed" => rank(class) < 2)
       /\ (class # "completed" => rank(class) >= 1) /\ rank(class) <= 2 /\ (class = "failed" => rank(class) = 2)
  BY <1>4
<1>18. /\ k = "completed" => rank(k) = 0
       /\ k = "incomplete" => rank(k) = 1
       /\ k = "failed" => rank(k) = 2
  BY <1>4
<1>19. class = "completed" => rank(class) = 0 BY <1>4
<1>17. m = "completed" => class = "completed" /\ (status = "" \/ k = "completed")
  <2>1. CASE status = "" BY <1>2, <2>1
  <2>2. CASE status # "" /\ rank(k) <= rank(class)
    <3>1. m = class BY <1>3, <1>14, <2>2
    <3>3. PICK n \in Nat : n = rank(k) BY <1>15, <1>18
    <3>4. PICK r \in Nat : r = rank(class) BY <1>16
    <3>5. n <= r BY <2>2, <3>3, <3>4
    <3>6. r = 0 => n = 0 BY <3>5
    <3>7. k # "completed" => n # 0 BY <1>15, <1>18, <3>3
    <3>2. rank(class) = 0 => k # "failed" /\ k # "incomplete" BY <3>4, <3>6, <3>7
    <3> QED BY <1>15, <1>19, <3>1, <3>2
  <2>3. CASE status # "" /\ ~(rank(k) <= rank(class))
    <3>1. m = k BY <1>3, <1>14, <2>3
    <3>2. k = "completed" => rank(k) <= rank(class) BY <1>16, <1>18
    <3> QED BY <2>3, <3>1, <3>2
  <2> QED BY <2>1, <2>2, <2>3
<1>7. m = "completed" => class = "completed" /\ status \in {"", "completed"}
  BY <1>5, <1>14, <1>17
<1>8. "failed" \in {class, status} => m = "failed"
  <2>1. CASE class = "failed"
    <3>1. rank(k) <= rank(class) BY <1>4, <1>15, <2>1
    <3> QED BY <1>2, <1>3, <1>14, <2>1, <3>1
  <2>2. CASE class # "failed" /\ status = "failed"
    <3>1. k = "failed" BY <1>5, <1>14, <2>2
    <3>2. ~(rank(k) <= rank(class)) BY <1>4, <1>16, <2>2, <3>1
    <3> QED BY <1>3, <1>14, <2>2, <3>1, <3>2
  <2> QED BY <2>1, <2>2
<1>9. TerminalVerdicts["completed"] = "success" /\ TerminalVerdicts["incomplete"] = "incomplete"
      /\ TerminalVerdicts["failed"] = "error"
  BY DEF TerminalVerdicts
<1>10. TerminalVerdicts[m] = "success" => m = "completed" BY <1>6, <1>9
<1>11. TerminalVerdicts[m] = "error" => m = "failed" BY <1>6, <1>9
<1>12. TerminalVerdicts[m] # "none" BY <1>6, <1>9
<1>13. {class, status} \subseteq {"", "completed"} <=> class \in {"", "completed"} /\ status \in {"", "completed"} OBVIOUS
<1> QED BY <1>1, <1>7, <1>8, <1>9, <1>10, <1>11, <1>12, <1>13 DEF Severe

(* What the verdict on an event says against the event.                    *)
ClaimsOf(e) == IF e.type = "terminal" THEN {e.class, e.body.status} ELSE {}
Judged(e, v) ==
  v.terminal # "none" =>
    /\ v.terminal = "success" => ClaimsOf(e) \subseteq {"", "completed"}
    /\ "failed" \in ClaimsOf(e) => v.terminal = "error"
    /\ v.terminal = "error" => v.call.error

(* Events that leave the items alone. *)
LEMMA QuietEffect ==
  ASSUME NEW c \in Calls, NEW e \in Events, e.type \notin {"delta", "text", "image", "added", "done"},
         NEW v, v.call \in Calls, v.call.items = c.items, c.partial => v.call.partial,
         v.output /\ ~c.errorOut => Visible(v.call), v.terminal = "none" => v.call.errorOut = c.errorOut
  PROVE  Effect(c, e, v)
BY QuietSaying, Unchanged DEF Same, ItemAt

(* What the assumption on the events gives of an embedded response. *)
LEMMA BodyTyped ==
  ASSUME NEW e \in Events
  PROVE  /\ e.body.id \in Strings /\ e.body.error \in BOOLEAN /\ e.body.output \in BOOLEAN
         /\ e.body.items \in Seq(ItemTypes) /\ (e.type = "terminal" => e.class \in {"completed", "failed", "incomplete"})
<1>1. e.body \in BodyTypes BY EventTyped
<1> QED BY <1>1, EventsAssumption DEF BodyTypes, Strings

(* A terminal event: its final response is there to be seen, its verdict is severe. *)
LEMMA TerminalEffect ==
  ASSUME NEW c \in Calls, NEW e \in Events, e.type = "terminal", NEW v, v = consumeTerminal(c, e)
  PROVE  Effect(c, e, v) /\ Judged(e, v)
<1>1. CASE ~e.body.valid
  <2>1. v = Continue(Degraded(c), FALSE) BY <1>1 DEF consumeTerminal
  <2>2. v.call = Degraded(c) /\ ~v.output /\ v.terminal = "none" BY <2>1 DEF Continue
  <2>3. v.call \in Calls /\ v.call.partial /\ v.call.errorOut = c.errorOut BY <2>2, DegradedTyped
  <2> QED BY <2>2, <2>3, Unchanged DEF Judged
<1>2. CASE e.body.valid
  <2>1. PICK m : m = moreSevereClass(e.class, e.body.status) OBVIOUS
  <2>2. PICK d : d = applyBody(c, e.body, FALSE) OBVIOUS
  <2>3. d \in Calls /\ d.items = c.items /\ (c.partial => d.partial) /\ (e.body.output => d.haveFinal)
    BY <2>2, BodyTyped, BodyKeeps
  <2>4. PICK p \in BOOLEAN : p = (d.partial \/ Mismatch(e.class, e.body.status)) BY <2>3 DEF Calls, Mismatch
  <2>5. PICK r \in BOOLEAN : r = (d.error \/ m = "failed") BY <2>3 DEF Calls
  <2>6. PICK h : h = [d EXCEPT !.partial = p, !.error = r] OBVIOUS
  <2>7. /\ h \in Calls /\ h.items = d.items /\ h.partial = p /\ h.error = r
        /\ h.haveFinal = d.haveFinal
    BY <2>3, <2>6 DEF Calls
  <2>8. PICK o : o = (e.body.output /\ BearsOutput(e.body.items)) OBVIOUS
  <2>9. v = [call |-> h, output |-> o, terminal |-> TerminalVerdicts[m]]
    BY <1>2, <2>1, <2>2, <2>4, <2>5, <2>6, <2>8 DEF consumeTerminal
  <2>10. v.call = h /\ v.output = o /\ v.terminal = TerminalVerdicts[m] BY <2>9
  <2>11. v.output => Visible(v.call) BY <2>3, <2>7, <2>8, <2>10 DEF Visible, Result
  <2>15. v.terminal # "none"
    <3>1. m \in {"completed", "failed", "incomplete"} BY <2>1, BodyTyped DEF moreSevereClass, ClassOf
    <3> QED BY <2>10, <3>1 DEF TerminalVerdicts
  <2>12. Effect(c, e, v) BY <2>3, <2>4, <2>7, <2>10, <2>11, <2>15, QuietEffect
  <2>13. Severe(e.class, e.body.status, TerminalVerdicts[m], v.call.error)
    <3>1. m = "failed" => v.call.error BY <2>5, <2>7, <2>10
    <3>2. PICK s : s = e.body.status OBVIOUS
    <3>3. PICK k \in {"completed", "failed", "incomplete"} : k = e.class BY BodyTyped
    <3>4. PICK b : b = v.call.error OBVIOUS
    <3>5. moreSevereClass(k, s) = "failed" => b BY <2>1, <3>1, <3>2, <3>3, <3>4
    <3>6. Severe(k, s, TerminalVerdicts[moreSevereClass(k, s)], b) BY <3>5, ClassIsSevere
    <3> QED BY <2>1, <3>2, <3>3, <3>4, <3>6
  <2>14. Judged(e, v) BY <2>10, <2>13 DEF Severe, Judged, ClaimsOf
  <2> QED BY <2>12, <2>14
<1> QED BY <1>1, <1>2

(* A salvaged event marks the call partial. *)
LEMMA OversizedEffect ==
  ASSUME NEW c \in Calls, NEW e \in Events, e.oversized, NEW v, v = FinishOversizedEvent(c, e)
  PROVE  Effect(c, e, v) /\ Judged(e, v)
<1>1. PICK d : d = Degraded(c) OBVIOUS
<1>2. d \in Calls /\ d.partial /\ d.errorOut = c.errorOut BY <1>1, DegradedTyped
<1>3. PICK m : m = moreSevereClass(e.class, e.body.status) OBVIOUS
<1>4. e.body.id \in Strings /\ e.body.error \in BOOLEAN BY BodyTyped
<1>5. CASE e.type = "lifecycle"
  <2>1. PICK i \in Strings : i = (IF d.id = "" THEN e.body.id ELSE d.id) BY <1>2, <1>4 DEF Calls
  <2>2. v = Continue([d EXCEPT !.id = i], FALSE) BY <1>1, <1>5, <2>1 DEF FinishOversizedEvent
  <2>3. v.call = [d EXCEPT !.id = i] /\ v.terminal = "none" BY <2>2 DEF Continue
  <2>4. v.call \in Calls /\ v.call.partial /\ v.call.errorOut = c.errorOut BY <1>2, <2>3 DEF Calls
  <2> QED BY <2>3, <2>4, Unchanged DEF Judged
<1>6. CASE e.type = "error"
  <2>6. PICK n \in BOOLEAN : n = (d.errorOut \/ e.body.error) BY <1>2, <1>4 DEF Calls
  <2>1. v = [call |-> [d EXCEPT !.error = TRUE, !.errorOut = n], output |-> FALSE, terminal |-> "error"]
    BY <1>1, <1>6, <2>6 DEF FinishOversizedEvent
  <2>2. v.call = [d EXCEPT !.error = TRUE, !.errorOut = n] /\ v.terminal = "error" BY <2>1
  <2>3. v.call \in Calls /\ v.call.partial /\ v.call.error BY <1>2, <2>2 DEF Calls
  <2>4. ClaimsOf(e) = {} BY <1>6 DEF ClaimsOf
  <2>5. Judged(e, v) BY <2>2, <2>3, <2>4 DEF Judged
  <2> QED BY <2>1, <2>3, <2>5, Unchanged
<1>7. CASE e.type = "terminal" /\ e.body.valid
  <2>1. PICK i \in Strings : i = (IF e.body.id # "" THEN e.body.id ELSE d.id) BY <1>2, <1>4 DEF Calls
  <2>2. PICK r \in BOOLEAN : r = (d.error \/ e.body.error \/ m = "failed") BY <1>2, <1>4 DEF Calls
  <2>10. PICK n \in BOOLEAN : n = (d.errorOut \/ e.body.error) BY <1>2, <1>4 DEF Calls
  <2>3. PICK h : h = [d EXCEPT !.id = i, !.error = r, !.errorOut = n] OBVIOUS
  <2>4. h \in Calls /\ h.partial /\ h.error = r BY <1>2, <2>3 DEF Calls
  <2>5. PICK o : o = (e.body.output /\ BearsOutput(e.body.items)) OBVIOUS
  <2>6. v = [call |-> h, output |-> o, terminal |-> TerminalVerdicts[m]]
    BY <1>1, <1>3, <1>7, <2>1, <2>2, <2>3, <2>5, <2>10 DEF FinishOversizedEvent
  <2>7. v.call = h /\ v.terminal = TerminalVerdicts[m] BY <2>6
  <2>8. Severe(e.class, e.body.status, TerminalVerdicts[m], v.call.error)
    <3>1. m = "failed" => v.call.error BY <2>2, <2>4, <2>7
    <3>2. PICK s : s = e.body.status OBVIOUS
    <3>3. PICK k \in {"completed", "failed", "incomplete"} : k = e.class BY <1>7, BodyTyped
    <3>4. PICK b : b = v.call.error OBVIOUS
    <3>5. moreSevereClass(k, s) = "failed" => b BY <1>3, <3>1, <3>2, <3>3, <3>4
    <3>6. Severe(k, s, TerminalVerdicts[moreSevereClass(k, s)], b) BY <3>5, ClassIsSevere
    <3> QED BY <1>3, <3>2, <3>3, <3>4, <3>6
  <2>9. Judged(e, v) BY <1>7, <2>7, <2>8 DEF Severe, Judged, ClaimsOf
  <2>11. v.terminal # "none"
    <3>1. m \in {"completed", "failed", "incomplete"} BY <1>3, <1>7, BodyTyped DEF moreSevereClass, ClassOf
    <3> QED BY <2>7, <3>1 DEF TerminalVerdicts
  <2> QED BY <2>4, <2>7, <2>9, <2>11, Unchanged
<1>8. CASE e.type \notin {"lifecycle", "error"} /\ ~(e.type = "terminal" /\ e.body.valid)
  <2>1. v = Continue(d, oversizedOutputPresence(e)) BY <1>1, <1>8 DEF FinishOversizedEvent
  <2>2. v.call = d /\ v.terminal = "none" BY <2>1 DEF Continue
  <2> QED BY <1>2, <2>2, Unchanged DEF Judged
<1> QED BY <1>5, <1>6, <1>7, <1>8

(* Every event of the stream. *)
LEMMA ConsumeEffect ==
  ASSUME NEW c \in Calls, NEW e \in Events, NEW v, v = Consume(c, e)
  PROVE  Effect(c, e, v) /\ Judged(e, v)
<1>1. CASE e.oversized
  <2>1. v = FinishOversizedEvent(c, e) BY <1>1 DEF Consume
  <2> QED BY <1>1, <2>1, OversizedEffect
<1>2. CASE ~e.oversized
  <2>1. v = consumeEvent(c, e) BY <1>2 DEF Consume
  <2>2. e.type \in {"terminal", "error", "delta", "text", "image", "audio", "added", "done", "lifecycle", "unusable"}
    BY EventsAssumption DEF EventTypes
  <2>3. CASE e.type = "terminal"
    <3>1. v = consumeTerminal(c, e) BY <2>1, <2>3 DEF consumeEvent
    <3> QED BY <2>3, <3>1, TerminalEffect
  <2>4. CASE e.type = "error"
    <3>1. v = [call |-> [c EXCEPT !.error = TRUE, !.errorOut = TRUE], output |-> FALSE, terminal |-> "error"]
      BY <2>1, <2>4 DEF consumeEvent
    <3>2. v.call = [c EXCEPT !.error = TRUE, !.errorOut = TRUE] /\ ~v.output /\ v.terminal = "error" BY <3>1
    <3>3. v.call \in Calls /\ v.call.items = c.items /\ v.call.partial = c.partial /\ v.call.error
      BY <3>2 DEF Calls
    <3>4. ClaimsOf(e) = {} BY <2>4 DEF ClaimsOf
    <3>5. Judged(e, v) BY <3>2, <3>3, <3>4 DEF Judged
    <3> QED BY <2>4, <3>2, <3>3, <3>5, QuietEffect
  <2>5. CASE e.type = "delta"
    <3>1. v = Write(c, e, FALSE) BY <2>1, <2>5 DEF consumeEvent
    <3> QED BY <2>5, <3>1, WriteEffect DEF Judged
  <2>6. CASE e.type = "text"
    <3>1. v = Write(c, e, TRUE) BY <2>1, <2>6 DEF consumeEvent
    <3> QED BY <2>6, <3>1, WriteEffect DEF Judged
  <2>7. CASE e.type = "image"
    <3>1. v = partialImage(c, e) BY <2>1, <2>7 DEF consumeEvent
    <3> QED BY <2>7, <3>1, ImageEffect DEF Judged
  <2>8. CASE e.type = "audio"
    <3>1. PICK p \in BOOLEAN : p = (c.partial \/ e.transcript) BY EventTyped DEF Calls
    <3>2. v = Continue([c EXCEPT !.audio = TRUE, !.partial = p], TRUE) BY <2>1, <2>8, <3>1 DEF consumeEvent
    <3>3. v.call = [c EXCEPT !.audio = TRUE, !.partial = p] /\ v.terminal = "none" BY <3>2 DEF Continue
    <3>4. /\ v.call \in Calls /\ v.call.items = c.items /\ v.call.partial = p /\ v.call.audio
          /\ v.call.errorOut = c.errorOut
      BY <3>3 DEF Calls
    <3>5. ~c.errorOut => Visible(v.call) BY <3>4 DEF Visible, Result
    <3> QED BY <2>8, <3>1, <3>3, <3>4, <3>5, QuietEffect DEF Judged
  <2>9. CASE e.type = "added"
    <3>1. v = bindItem(c, e) BY <2>1, <2>9 DEF consumeEvent
    <3> QED BY <2>9, <3>1, BindEffect DEF Judged
  <2>10. CASE e.type = "done"
    <3>1. v = finalizeItem(c, e) BY <2>1, <2>10 DEF consumeEvent
    <3> QED BY <2>10, <3>1, DoneEffect DEF Judged
  <2>11. CASE e.type = "lifecycle"
    <3>1. PICK i \in Strings : i = (IF c.id = "" THEN e.body.id ELSE c.id) BY BodyTyped DEF Calls
    <3>2. v = Continue([c EXCEPT !.id = i], FALSE) BY <2>1, <2>11, <3>1 DEF consumeEvent
    <3>3. v.call = [c EXCEPT !.id = i] /\ ~v.output /\ v.terminal = "none" BY <3>2 DEF Continue
    <3>4. /\ v.call \in Calls /\ v.call.items = c.items /\ v.call.partial = c.partial
          /\ v.call.errorOut = c.errorOut
      BY <3>3 DEF Calls
    <3> QED BY <2>11, <3>3, <3>4, QuietEffect DEF Judged
  <2>12. CASE e.type = "unusable"
    <3>1. v = Continue(Degraded(c), FALSE) BY <2>1, <2>12 DEF consumeEvent
    <3>2. v.call = Degraded(c) /\ ~v.output /\ v.terminal = "none" BY <3>1 DEF Continue
    <3>3. v.call \in Calls /\ v.call.partial /\ v.call.errorOut = c.errorOut BY <3>2, DegradedTyped
    <3> QED BY <3>2, <3>3, Unchanged DEF Judged
  <2> QED BY <2>2, <2>3, <2>4, <2>5, <2>6, <2>7, <2>8, <2>9, <2>10, <2>11, <2>12
<1> QED BY <1>1, <1>2

(* A unary body leaves the items alone.                                    *)
LEMMA StatusKeeps ==
  ASSUME NEW c \in Calls, NEW status
  PROVE  /\ UnaryStatus(c, status) \in Calls /\ UnaryStatus(c, status).items = c.items
         /\ c.partial => UnaryStatus(c, status).partial
<1>1. PICK r \in BOOLEAN : r = (c.error \/ status = "failed") BY DEF Calls
<1>2. PICK n \in BOOLEAN : n = (status \notin {"", "completed", "failed"}) OBVIOUS
<1>3. PICK p \in BOOLEAN : p = (c.partial \/ status \notin {"", "completed", "failed", "incomplete"}) BY DEF Calls
<1>4. PICK d : d = [c EXCEPT !.error = r, !.incomplete = n, !.partial = p] OBVIOUS
<1>5. d \in Calls /\ d.items = c.items /\ d.partial = p BY <1>4 DEF Calls
<1>6. UnaryStatus(c, status) = d BY <1>1, <1>2, <1>3, <1>4 DEF UnaryStatus
<1> QED BY <1>3, <1>5, <1>6

(* applyBody of a unary response leaves the items alone. *)
LEMMA UnaryBodyKeeps ==
  ASSUME NEW c \in Calls, NEW unary \in Bodies
  PROVE  applyBody(c, unary, TRUE) \in Calls /\ applyBody(c, unary, TRUE).items = c.items
         /\ (c.partial => applyBody(c, unary, TRUE).partial)
<1>0. unary.id \in Strings /\ unary.error \in BOOLEAN /\ unary.output \in BOOLEAN /\ unary.items \in Seq(ItemTypes)
  BY BodiesAssumption DEF Strings
<1>1. PICK i \in Strings : i = (IF unary.id # "" THEN unary.id ELSE c.id) BY <1>0 DEF Calls
<1>2. PICK r \in BOOLEAN : r = (c.error \/ unary.error) BY <1>0 DEF Calls
<1>8. PICK n \in BOOLEAN : n = (c.errorOut \/ unary.error) BY <1>0 DEF Calls
<1>3. PICK d : d = [c EXCEPT !.id = i, !.error = r, !.errorOut = n] OBVIOUS
<1>4. d \in Calls /\ d.items = c.items /\ d.partial = c.partial BY <1>3 DEF Calls
<1>5. d = [c EXCEPT !.id = IF unary.id # "" THEN unary.id ELSE @, !.error = @ \/ unary.error,
                    !.errorOut = @ \/ unary.error]
  BY <1>1, <1>2, <1>3, <1>8
<1>6. CASE ~unary.output
  <2>1. applyBody(c, unary, TRUE) = d BY <1>5, <1>6 DEF applyBody
  <2> QED BY <1>4, <2>1
<1>7. CASE unary.output
  <2>1. PICK s \in Finals : s = SanitizedOutput(unary.items) BY <1>0, SanitizedTyped
  <2>2. PICK p \in BOOLEAN : p = (d.partial \/ LosesOutput(unary.items)) BY <1>0, SanitizedTyped, <1>4 DEF Calls
  <2>3. PICK t \in BOOLEAN : t = ~TRUE OBVIOUS
  <2>4. PICK u \in BOOLEAN : u = TRUE OBVIOUS
  <2>5. PICK h : h = [d EXCEPT !.partial = p, !.final = s, !.haveFinal = t, !.haveUnary = u] OBVIOUS
  <2>6. h \in Calls /\ h.items = d.items /\ h.partial = p
    <3>1. h = [items |-> d.items, bytes |-> d.bytes, partial |-> p, audio |-> d.audio, id |-> d.id,
               final |-> s, haveFinal |-> t, haveUnary |-> u, incomplete |-> d.incomplete,
               error |-> d.error, errorOut |-> d.errorOut]
      BY <1>4, <2>5 DEF Calls
    <3>3. /\ d.items \in ItemMaps /\ d.bytes \in Nat /\ d.id \in Strings
          /\ {d.audio, d.incomplete, d.error, d.errorOut} \subseteq BOOLEAN
      BY <1>4 DEF Calls
    <3>4. h \in Calls BY <3>1, <3>3 DEF Calls
    <3>2. h.items = d.items /\ h.partial = p BY <3>1
    <3> QED BY <3>2, <3>4
  <2>7. applyBody(c, unary, TRUE) = [d EXCEPT !.partial = @ \/ LosesOutput(unary.items), !.final = SanitizedOutput(unary.items),
                                             !.haveFinal = ~TRUE, !.haveUnary = TRUE]
    BY <1>5, <1>7 DEF applyBody
  <2>8. applyBody(c, unary, TRUE) = h BY <2>1, <2>2, <2>3, <2>4, <2>5, <2>7
  <2> QED BY <1>4, <2>2, <2>6, <2>8
<1> QED BY <1>6, <1>7

(* FinishUnary and FinishOversizedUnary leave the items alone. *)
LEMMA UnaryKeeps ==
  ASSUME NEW c \in Calls, NEW unary \in Bodies, NEW d, d = UnaryBody(c, unary)
  PROVE  d \in Calls /\ d.items = c.items /\ (c.partial => d.partial)
<1>0. /\ unary.valid \in BOOLEAN /\ unary.error \in BOOLEAN /\ unary.oversized \in BOOLEAN /\ unary.httpError \in BOOLEAN
      /\ unary.id \in Strings
  BY BodiesAssumption DEF Strings
<1>1. CASE unary.oversized /\ unary.valid /\ ~unary.httpError
  <2>1. PICK g : g = Degraded(c) OBVIOUS
  <2>2. g \in Calls /\ g.partial /\ g.items = c.items BY <2>1, DegradedTyped
  <2>3. PICK i \in Strings : i = (IF unary.id # "" THEN unary.id ELSE g.id) BY <1>0, <2>2 DEF Calls
  <2>4. PICK h : h = [g EXCEPT !.haveUnary = TRUE, !.error = unary.error, !.errorOut = unary.error, !.id = i] OBVIOUS
  <2>5. h \in Calls /\ h.partial /\ h.items = c.items BY <1>0, <2>2, <2>4 DEF Calls
  <2>6. d = UnaryStatus(h, unary.status) BY <1>1, <2>1, <2>3, <2>4 DEF UnaryBody
  <2> QED BY <2>5, <2>6, StatusKeeps
<1>2. CASE unary.oversized /\ (~unary.valid \/ unary.httpError)
  <2>1. PICK g : g = Degraded(c) OBVIOUS
  <2>2. g \in Calls /\ g.partial /\ g.items = c.items BY <2>1, DegradedTyped
  <2>3. d = [g EXCEPT !.haveUnary = TRUE] BY <1>2, <2>1 DEF UnaryBody
  <2> QED BY <2>2, <2>3 DEF Calls
<1>3. CASE ~unary.oversized /\ unary.httpError
  <2>1. d = [c EXCEPT !.haveUnary = unary.valid] BY <1>3 DEF UnaryBody
  <2> QED BY <1>0, <2>1 DEF Calls
<1>4. CASE ~unary.oversized /\ ~unary.httpError /\ ~unary.valid
  <2>1. d = Degraded(c) BY <1>4 DEF UnaryBody
  <2> QED BY <2>1, DegradedTyped
<1>5. CASE ~unary.oversized /\ ~unary.httpError /\ unary.valid
  <2>1. PICK g : g = applyBody(c, unary, TRUE) OBVIOUS
  <2>2. g \in Calls /\ g.items = c.items /\ (c.partial => g.partial) BY <2>1, UnaryBodyKeeps
  <2>3. d = UnaryStatus(g, unary.status) BY <1>5, <2>1 DEF UnaryBody
  <2> QED BY <2>2, <2>3, StatusKeeps
<1> QED BY <1>0, <1>1, <1>2, <1>3, <1>4, <1>5

(* The inductive invariant: what a result not marked partial holds, item by *)
(* item, is what was said; and there is no error object while events are    *)
(* taken.                                                                   *)
StreamInv ==
  /\ call \in Calls /\ said \in [Indices -> Sayings]
  /\ ~call.partial => Faithful(call, said)
  /\ call.errorOut /\ verdict = "none" => sent = MaxEvents
  /\ TerminalsAreSevere

(* What is said stays typed. *)
LEMMA SayingTyped ==
  ASSUME NEW s \in Sayings, NEW e \in Events
  PROVE  Saying(s, e) \in Sayings
<1>1. CASE e.type = "done"
  <2>1. e.item.kind \in Strings /\ e.item.text \in Wording BY EventTyped
  <2>2. [kind |-> e.item.kind, text |-> e.item.text] \in Shapes BY <2>1 DEF Shapes
  <2> QED BY <1>1, <2>2, DoneSaying, BlankTyped DEF Sayings
<1>2. CASE e.type \in {"delta", "text"}
  <2>1. CASE s.done = NotDone /\ Says(e)
    <3>1. s.text \in [Slots -> Wording] /\ s.kinds \in SUBSET Strings BY DEF Sayings
    <3>2. PICK w : w = (IF e.type = "delta" THEN s.text[e.slot] \o e.text ELSE e.text) OBVIOUS
    <3>3. w \in Wording BY <2>1, <3>1, <3>2, EventTyped, WordingFacts DEF Says
    <3>4. PICK m : m = [s.text EXCEPT ![e.slot] = w] OBVIOUS
    <3>5. m \in [Slots -> Wording] BY <3>1, <3>3, <3>4
    <3>6. PICK k : k = s.kinds \cup {KindOf(e.slot)} OBVIOUS
    <3>7. k \in SUBSET Strings BY <3>1, <3>6 DEF KindOf, Strings
    <3>8. Saying(s, e) = [s EXCEPT !.text = m, !.kinds = k] BY <1>2, <2>1, <3>2, <3>4, <3>6 DEF Saying
    <3> QED BY <3>5, <3>7, <3>8 DEF Sayings
  <2>2. CASE ~(s.done = NotDone /\ Says(e)) BY <1>2, <2>2, TextSaying
  <2> QED BY <2>1, <2>2
<1>3. CASE e.type \in {"image", "added"}
  <2>1. CASE s.done # NotDone BY <1>3, <2>1, KindSaying
  <2>2. CASE s.done = NotDone
    <3>1. PICK k : k = Saying(s, e).kinds OBVIOUS
    <3>2. k \in SUBSET Strings
      <4>1. s.kinds \in SUBSET Strings BY DEF Sayings
      <4>2. e.item.kind \in Strings /\ "image_generation_call" \in Strings BY EventTyped DEF Strings
      <4>3. e.type = "image" => k = s.kinds \cup {"image_generation_call"} BY <1>3, <2>2, <3>1, KindSaying
      <4>4. e.type = "added" => k = s.kinds \cup ({e.item.kind} \ {""}) BY <1>3, <2>2, <3>1, KindSaying
      <4>5. PICK a : a = s.kinds OBVIOUS
      <4>6. PICK b : b = e.item.kind OBVIOUS
      <4>7. a \cup {"image_generation_call"} \in SUBSET Strings /\ a \cup ({b} \ {""}) \in SUBSET Strings
        BY <4>1, <4>2, <4>5, <4>6
      <4> QED BY <1>3, <4>3, <4>4, <4>5, <4>6, <4>7
    <3>3. Saying(s, e) = [s EXCEPT !.kinds = k] BY <1>3, <2>2, <3>1, KindSaying
    <3> QED BY <3>2, <3>3 DEF Sayings
  <2> QED BY <2>1, <2>2
<1>4. CASE e.type \notin {"delta", "text", "image", "added", "done"} BY <1>4, QuietSaying
<1> QED BY <1>1, <1>2, <1>3, <1>4

(* The invariant holds of a new call. *)
LEMMA StreamInit == ASSUME ResponsesInit PROVE StreamInv
<1>1. call \in Calls
  <2>1. <<>> \in [{} -> ItemStates] OBVIOUS
  <2>2. <<>> \in ItemMaps BY <2>1 DEF ItemMaps
  <2>3. <<>> \in Finals BY DEF Finals
  <2> QED BY <2>2, <2>3 DEF ResponsesInit, newResponsesCall, Calls, Strings
<1>2. NothingSaid \in Sayings BY BlankTyped DEF NothingSaid, Sayings, Strings
<1>3. said \in [Indices -> Sayings] BY <1>2 DEF ResponsesInit
<1>7. call.items = <<>> BY DEF ResponsesInit, newResponsesCall
<1>8. DOMAIN call.items = {} BY <1>7
<1>4. \A i \in Indices : ItemAt(call, i) = responseItemState BY <1>8 DEF ItemAt
<1>5. \A i \in Indices : said[i].text = Empty /\ said[i].done = NotDone BY DEF ResponsesInit, NothingSaid
<1>9. \A q \in Slots : Empty[q] = <<>> BY DEF Empty
<1>6. Faithful(call, said) BY <1>4, <1>5, <1>9, BlankTyped DEF Faithful, Renders, Accounted
<1>10. ~call.errorOut BY DEF ResponsesInit, newResponsesCall
<1> QED BY <1>1, <1>3, <1>6, <1>10 DEF StreamInv, TerminalsAreSevere, ResponsesInit

(* One event: the invariant is kept, and a stamp comes with output to see. *)
LEMMA FeedKeeps ==
  ASSUME StreamInv, NEW e \in Events, FeedEvent(e)
  PROVE  StreamInv' /\ (~stamped /\ stamped' => Visible(call'))
<1>1. PICK v : v = Consume(call, e) OBVIOUS
<1>2. Effect(call, e, v) /\ Judged(e, v) BY <1>1, ConsumeEffect DEF StreamInv
<1>3. call' = v.call /\ verdict' = v.terminal BY <1>1 DEF FeedEvent
<1>4. call' \in Calls BY <1>2, <1>3 DEF Effect
<1>5. PICK w : w = said OBVIOUS
<1>6. w \in [Indices -> Sayings] BY <1>5 DEF StreamInv
<1>7. said' = (IF e.type \in {"delta", "text", "image", "added", "done"} /\ e.index \in Indices
               THEN [w EXCEPT ![e.index] = Saying(w[e.index], e)] ELSE w)
  BY <1>5 DEF FeedEvent
<1>8. \A i \in Indices : said'[i] = (IF i = e.index THEN Saying(w[i], e) ELSE w[i])
  BY <1>6, <1>7, QuietSaying
<1>9. said' \in [Indices -> Sayings] BY <1>6, <1>7, SayingTyped
<1>10. ASSUME ~call'.partial PROVE Faithful(call', said')
  <2>1. ~call.partial BY <1>2, <1>3, <1>10 DEF Effect
  <2>2. Faithful(call, w) BY <1>5, <2>1 DEF StreamInv
  <2>3. ASSUME NEW i \in Indices PROVE Renders(ItemAt(v.call, i), said'[i])
    <3>1. Renders(ItemAt(call, i), w[i]) BY <2>2 DEF Faithful
    <3>2. CASE i = e.index
      <4>1. w[i] \in Sayings BY <1>6
      <4>2. Renders(ItemAt(v.call, e.index), Saying(w[i], e)) BY <1>2, <1>3, <1>10, <3>1, <3>2, <4>1 DEF Effect
      <4> QED BY <1>8, <3>2, <4>2
    <3>3. CASE i # e.index
      <4>1. Same(ItemAt(v.call, i), ItemAt(call, i)) BY <1>2, <1>3, <1>10, <3>3 DEF Effect
      <4>2. Renders(ItemAt(v.call, i), w[i]) BY <3>1, <4>1, SameRenders
      <4> QED BY <1>8, <3>3, <4>2
    <3> QED BY <3>2, <3>3
  <2>4. PICK z : z = said' OBVIOUS
  <2>5. Faithful(v.call, z) BY <2>3, <2>4 DEF Faithful
  <2> QED BY <1>3, <2>4, <2>5
<1>11. TerminalsAreSevere'
  <2>1. claims' = ClaimsOf(e) BY DEF FeedEvent, ClaimsOf
  <2> QED BY <1>2, <1>3, <2>1 DEF Judged, TerminalsAreSevere
<1>13. ~call.errorOut
  <2>1. verdict = "none" /\ sent < MaxEvents BY DEF FeedEvent
  <2>2. MaxEvents \in Nat BY ResponsesBounds
  <2>3. sent # MaxEvents BY <2>1, <2>2
  <2> QED BY <2>1, <2>3 DEF StreamInv
<1>12. ~stamped /\ stamped' => Visible(call')
  <2>1. stamped' = (stamped \/ (v.output /\ ~e.oversized)) BY <1>1 DEF FeedEvent
  <2>2. v.output /\ ~e.oversized => Visible(v.call) BY <1>2, <1>13 DEF Effect
  <2> QED BY <1>3, <2>1, <2>2
<1>14. ~(call'.errorOut /\ verdict' = "none") BY <1>2, <1>3, <1>13 DEF Effect
<1> QED BY <1>4, <1>9, <1>10, <1>11, <1>12, <1>14 DEF StreamInv

(* One unary body keeps the invariant. *)
LEMMA UnaryStep ==
  ASSUME StreamInv, NEW unary \in Bodies, FinishUnary(unary)
  PROVE  StreamInv'
<1>1. PICK d : d = UnaryBody(call, unary) OBVIOUS
<1>2. d \in Calls /\ d.items = call.items /\ (call.partial => d.partial) BY <1>1, UnaryKeeps DEF StreamInv
<1>3. call' = d /\ said' = said /\ verdict' = "none" BY <1>1 DEF FinishUnary
<1>4. PICK w : w = said OBVIOUS
<1>5. ~d.partial => Faithful(d, w) BY <1>2, <1>4 DEF StreamInv, Faithful, ItemAt
<1>6. ~call'.partial => Faithful(call', said') BY <1>3, <1>4, <1>5
<1>7. TerminalsAreSevere' BY <1>3 DEF TerminalsAreSevere
<1>8. call' \in Calls /\ said' \in [Indices -> Sayings] BY <1>2, <1>3 DEF StreamInv
<1>9. sent' = MaxEvents BY DEF FinishUnary
<1> QED BY <1>6, <1>7, <1>8, <1>9 DEF StreamInv

(* The invariant of a stream, for all events, bodies, items, parts and caps. *)
THEOREM StreamInductive == ResponsesSpec => []StreamInv
<1>1. ResponsesInit => StreamInv BY StreamInit
<1>2. StreamInv /\ [ResponsesNext]_responsesVars => StreamInv'
  <2> SUFFICES ASSUME StreamInv, [ResponsesNext]_responsesVars PROVE StreamInv' OBVIOUS
  <2>1. CASE \E e \in Events : FeedEvent(e) BY <2>1, FeedKeeps
  <2>2. CASE \E unary \in Bodies : FinishUnary(unary) BY <2>2, UnaryStep
  <2>3. CASE UNCHANGED responsesVars
    <3>1. call' = call /\ said' = said /\ verdict' = verdict /\ claims' = claims /\ sent' = sent
      BY <2>3 DEF responsesVars
    <3> QED BY <3>1 DEF StreamInv, TerminalsAreSevere, Faithful, ItemAt
  <2> QED BY <2>1, <2>2, <2>3 DEF ResponsesNext
<1> QED BY <1>1, <1>2, PTL DEF ResponsesSpec

(* The verdict of a terminal event (consumeTerminal, moreSevereClass) is never
   milder than its type or its status. *)
THEOREM VerdictsAreSevere == ResponsesSpec => []TerminalsAreSevere
<1>1. StreamInv => TerminalsAreSevere BY DEF StreamInv
<1> QED BY <1>1, StreamInductive, PTL

(* Whatever stamps the first token (Verdict.Output) is in the result. *)
THEOREM StampsShow == ResponsesSpec => StampsAreVisible
<1>1. StreamInv /\ [ResponsesNext]_responsesVars => [~stamped /\ stamped' => Visible(call')]_responsesVars
  <2> SUFFICES ASSUME StreamInv, ResponsesNext, ~stamped, stamped' PROVE Visible(call') OBVIOUS
  <2>1. CASE \E e \in Events : FeedEvent(e) BY <2>1, FeedKeeps
  <2>2. CASE \E unary \in Bodies : FinishUnary(unary) BY <2>2 DEF FinishUnary
  <2> QED BY <2>1, <2>2 DEF ResponsesNext
<1> QED BY <1>1, StreamInductive, PTL DEF ResponsesSpec, StampsAreVisible

(* What is shown of an item that was not finished: texts it has, and as one *)
(* of its kinds.                                                             *)
LEMMA RenderedOf ==
  ASSUME NEW item \in ItemStates, NEW s \in Sayings, Accounted(item, s), NEW shown, shown = render(item)
  PROVE  /\ shown # NotDone => shown.kind \in s.kinds
         /\ \A q \in DOMAIN shown.text : shown.text[q] = s.text[q]
         /\ OfOneKind(s) => \A q \in Slots : s.text[q] # <<>> => q \in DOMAIN shown.text
<1>1. item.text = s.text /\ item.text \in [Slots -> Wording] BY DEF Accounted, ItemStates
<1>2. Args # Summary /\ \A q \in Slots : q \notin {Args, Summary} => q \in Texts(0..MaxParts - 1)
  BY DEF Args, Summary, Slots
<1>3. /\ KindOf(Args) = "function_call" /\ KindOf(Summary) = "reasoning"
      /\ \A q : q \notin {Args, Summary} => KindOf(q) = "message"
  BY <1>2 DEF KindOf
<1>4. \A q \in Slots : s.text[q] # <<>> => KindOf(q) \in s.kinds BY DEF Accounted
<1>5. CASE item.imaged
  <2>1. shown = Placeholder("image_generation_call") BY <1>5 DEF render
  <2>2. shown.kind = "image_generation_call" /\ DOMAIN shown.text = {} BY <2>1 DEF Placeholder
  <2>3. "image_generation_call" \in s.kinds BY <1>5 DEF Accounted
  <2>4. ASSUME OfOneKind(s), NEW q \in Slots, s.text[q] # <<>> PROVE FALSE
    <3>1. KindOf(q) = "image_generation_call" BY <1>4, <2>3, <2>4 DEF OfOneKind
    <3> QED BY <1>3, <3>1
  <2> QED BY <2>2, <2>3, <2>4
<1>6. CASE ~item.imaged /\ (item.text[Args] # <<>> \/ item.kind = "function_call")
  <2>1. shown = [kind |-> "function_call", text |-> [q \in {Args} |-> item.text[q]]] BY <1>6 DEF render
  <2>2. "function_call" \in s.kinds
    <3>1. Args \in Slots BY DEF Slots
    <3> QED BY <1>1, <1>3, <1>4, <1>6, <3>1 DEF Accounted
  <2>3. ASSUME OfOneKind(s), NEW q \in Slots, s.text[q] # <<>> PROVE q = Args
    <3>1. KindOf(q) = "function_call" BY <1>4, <2>2, <2>3 DEF OfOneKind
    <3> QED BY <1>3, <3>1
  <2> QED BY <1>1, <2>1, <2>2, <2>3
<1>7. CASE ~item.imaged /\ ~(item.text[Args] # <<>> \/ item.kind = "function_call") /\ item.text[Summary] # <<>>
  <2>1. shown = [kind |-> "reasoning", text |-> [q \in {Summary} |-> item.text[q]]] BY <1>7 DEF render
  <2>2. "reasoning" \in s.kinds
    <3>1. Summary \in Slots BY DEF Slots
    <3> QED BY <1>1, <1>3, <1>4, <1>7, <3>1
  <2>3. ASSUME OfOneKind(s), NEW q \in Slots, s.text[q] # <<>> PROVE q = Summary
    <3>1. KindOf(q) = "reasoning" BY <1>4, <2>2, <2>3 DEF OfOneKind
    <3> QED BY <1>3, <3>1
  <2> QED BY <1>1, <2>1, <2>2, <2>3
<1>8. CASE ~item.imaged /\ ~(item.text[Args] # <<>> \/ item.kind = "function_call") /\ item.text[Summary] = <<>>
  <2>1. PICK S : S = Shows(item, Texts(0..MaxParts - 1)) OBVIOUS
  <2>2. shown = (IF S = {} THEN NotDone ELSE [kind |-> "message", text |-> [q \in S |-> item.text[q]]])
    BY <1>8, <2>1 DEF render
  <2>3. \A q \in S : q \in Texts(0..MaxParts - 1) /\ item.text[q] # <<>> BY <2>1 DEF Shows
  <2>4. \A q \in Slots : s.text[q] # <<>> => q \in S BY <1>1, <1>2, <1>8, <2>1 DEF Shows
  <2>5. CASE S = {}
    <3>1. shown = NotDone /\ DOMAIN shown.text = {} BY <2>2, <2>5 DEF NotDone
    <3> QED BY <3>1, <2>4, <2>5
  <2>6. CASE S # {}
    <3>1. shown.kind = "message" /\ DOMAIN shown.text = S /\ \A q \in S : shown.text[q] = item.text[q] BY <2>2, <2>6
    <3>2. PICK q \in S : TRUE BY <2>6
    <3>3. q \in Slots /\ q \notin {Args, Summary} BY <2>3 DEF Slots, Texts, Args, Summary
    <3>4. "message" \in s.kinds BY <1>1, <1>3, <1>4, <2>3, <3>3
    <3> QED BY <1>1, <2>4, <3>1, <3>4
  <2> QED BY <2>5, <2>6
<1> QED BY <1>5, <1>6, <1>7, <1>8

(* A call that is faithful item by item falls back to all of what was said. *)
LEMMA FaithfulIsWhole == ASSUME StreamInv PROVE FallbackIsWhole
<1> SUFFICES ASSUME ~call.partial, NEW i \in Indices, NEW item, item = ItemAt(call, i),
                    NEW shown, shown = render(item)
             PROVE  /\ item.done = said[i].done
                    /\ item.done = NotDone =>
                         /\ shown # NotDone => shown.kind \in said[i].kinds
                         /\ \A s \in DOMAIN shown.text : shown.text[s] = said[i].text[s]
                         /\ OfOneKind(said[i]) => \A s \in Slots : said[i].text[s] # <<>> => s \in DOMAIN shown.text
  BY DEF FallbackIsWhole
<1>1. item \in ItemStates BY ItemTyped DEF StreamInv
<1>2. PICK s \in Sayings : s = said[i] BY DEF StreamInv
<1>3. Renders(item, s) BY <1>2 DEF StreamInv, Faithful
<1>4. item.done = s.done BY <1>3 DEF Renders
<1>5. CASE s.done # NotDone BY <1>2, <1>4, <1>5
<1>6. CASE s.done = NotDone
  <2>1. Accounted(item, s) BY <1>3, <1>6 DEF Renders
  <2> QED BY <1>1, <1>2, <1>4, <2>1, RenderedOf
<1> QED BY <1>5, <1>6

(* A result that shows what was accumulated and is not marked partial shows, of
   every item, all the provider sent for the kind it shows (renderFallback,
   render, TelemetryPartial). *)
THEOREM FallbackStaysWhole == ResponsesSpec => []FallbackIsWhole
BY StreamInductive, FaithfulIsWhole, PTL

-----------------------------------------------------------------------------
(* Chat: what a choice has gathered is all that was sent for it.           *)

ToolStates == [name : Wording, args : Wording]
Accumulators == [text : Wording, tools : [Numbers -> ToolStates]]
Gathered == UNION {[S -> Accumulators] : S \in SUBSET Numbers}
ChatCalls == [choices : Gathered, bytes : 0..chatCap, over : BOOLEAN, partial : BOOLEAN, reasons : Seq(Wording),
              done : BOOLEAN, error : BOOLEAN, unary : {"none", "error body", "choices"}, embeddings : Nat]
Tellings == [text : Wording, tools : [Numbers -> ToolStates], crowded : BOOLEAN]
Histories == [Numbers -> Tellings]

(* A call and what was sent: all of it is kept, or nothing from the moment *)
(* the budget was exceeded.                                                *)
Alike(a, h) == h.crowded \/ (a.text = h.text /\ a.tools = h.tools)
ChatAgrees(c, s) == IF c.over THEN c.choices = <<>> ELSE \A n \in Numbers : Alike(Accumulated(c, n), s[n])
ChatPairs == {p \in ChatCalls \X Histories : ChatAgrees(p[1], p[2])}

LEMMA NothingGathered ==
  /\ <<>> \in Gathered /\ choiceAccumulator \in Accumulators /\ Unspoken \in Tellings
  /\ Alike(choiceAccumulator, Unspoken)
<1>1. <<>> \in [{} -> Accumulators] OBVIOUS
<1>2. toolAccumulator \in ToolStates BY WordingFacts DEF toolAccumulator, ToolStates
<1>3. choiceAccumulator \in Accumulators BY <1>2, WordingFacts DEF choiceAccumulator, Accumulators
<1>4. Unspoken \in Tellings BY <1>2, WordingFacts DEF Unspoken, choiceAccumulator, Tellings
<1>5. Alike(choiceAccumulator, Unspoken) BY DEF Unspoken, choiceAccumulator, Alike
<1> QED BY <1>1, <1>3, <1>4, <1>5 DEF Gathered

LEMMA ChatPair ==
  ASSUME NEW c, NEW s
  PROVE  <<c, s>> \in ChatPairs <=> c \in ChatCalls /\ s \in Histories /\ ChatAgrees(c, s)
BY DEF ChatPairs

(* What a choice has gathered, before and after it is looked for.          *)
LEMMA Gathering ==
  ASSUME NEW c \in ChatCalls, NEW i \in Numbers
  PROVE  /\ choiceAt(c, i) \in ChatCalls /\ i \in DOMAIN choiceAt(c, i).choices
         /\ \A n \in Numbers : Accumulated(c, n) \in Accumulators /\ Accumulated(choiceAt(c, i), n) = Accumulated(c, n)
         /\ choiceAt(c, i).over = c.over /\ choiceAt(c, i).bytes = c.bytes
<1>1. PICK S \in SUBSET Numbers : c.choices \in [S -> Accumulators] BY DEF ChatCalls, Gathered
<1>2. \A n \in Numbers : Accumulated(c, n) \in Accumulators BY <1>1, NothingGathered DEF Accumulated
<1>3. S \cup 0..i \in SUBSET Numbers
  <2>1. ASSUME NEW n \in 0..i PROVE n \in Numbers BY ChatBounds DEF Numbers
  <2> QED BY <2>1, <1>1
<1>4. PICK g : g = [n \in S \cup 0..i |-> Accumulated(c, n)] OBVIOUS
<1>5. g \in [S \cup 0..i -> Accumulators] BY <1>2, <1>3, <1>4
<1>6. choiceAt(c, i) = [c EXCEPT !.choices = g] BY <1>1, <1>4 DEF choiceAt
<1>7. g \in Gathered BY <1>3, <1>5 DEF Gathered
<1>8. PICK d : d = choiceAt(c, i) OBVIOUS
<1>9. d \in ChatCalls /\ d.choices = g /\ d.over = c.over /\ d.bytes = c.bytes BY <1>6, <1>7, <1>8 DEF ChatCalls
<1>10. \A n \in Numbers : Accumulated(d, n) = Accumulated(c, n) BY <1>1, <1>4, <1>9 DEF Accumulated
<1>11. i \in DOMAIN g BY <1>4, ChatBounds DEF Numbers
<1> QED BY <1>2, <1>8, <1>9, <1>10, <1>11

(* One choice of a call is written: what it gathered changes, no other's   *)
(* does.                                                                   *)
LEMMA Writing ==
  ASSUME NEW c \in ChatCalls, NEW s \in Histories, ChatAgrees(c, s), ~c.over, NEW i \in Numbers,
         NEW a \in Accumulators, NEW h \in Tellings, Alike(a, h), NEW b \in 0..chatCap, NEW g,
         g = [choiceAt(c, i).choices EXCEPT ![i] = a]
  PROVE  <<[choiceAt(c, i) EXCEPT !.choices = g, !.bytes = b], [s EXCEPT ![i] = h]>> \in ChatPairs
<1>1. PICK d : d = choiceAt(c, i) OBVIOUS
<1>2. /\ d \in ChatCalls /\ i \in DOMAIN d.choices /\ ~d.over
      /\ \A n \in Numbers : Accumulated(d, n) = Accumulated(c, n)
  BY <1>1, Gathering
<1>3. PICK S \in SUBSET Numbers : d.choices \in [S -> Accumulators] BY <1>2 DEF ChatCalls, Gathered
<1>4. g \in [S -> Accumulators] /\ i \in S BY <1>1, <1>2, <1>3
<1>5. g \in Gathered BY <1>4 DEF Gathered
<1>6. PICK e : e = [d EXCEPT !.choices = g, !.bytes = b] OBVIOUS
<1>7. e \in ChatCalls /\ e.choices = g /\ ~e.over BY <1>2, <1>5, <1>6 DEF ChatCalls
<1>8. PICK t : t = [s EXCEPT ![i] = h] OBVIOUS
<1>9. t \in Histories /\ t[i] = h /\ \A n \in Numbers : n # i => t[n] = s[n] BY <1>8 DEF Histories
<1>10. ASSUME NEW n \in Numbers PROVE Alike(Accumulated(e, n), t[n])
  <2>1. CASE n = i BY <2>1, <1>1, <1>4, <1>3, <1>7, <1>9 DEF Accumulated
  <2>2. CASE n # i
    <3>1. Accumulated(e, n) = Accumulated(d, n) BY <2>2, <1>1, <1>3, <1>4, <1>7 DEF Accumulated
    <3>2. Alike(Accumulated(c, n), s[n]) BY DEF ChatAgrees
    <3> QED BY <3>1, <3>2, <2>2, <1>2, <1>9
  <2> QED BY <2>1, <2>2
<1>11. ChatAgrees(e, t) BY <1>7, <1>10 DEF ChatAgrees
<1> QED BY <1>1, <1>6, <1>7, <1>8, <1>9, <1>11, ChatPair

(* Something is sent for a choice of which nothing is kept.                *)
LEMMA Hearing ==
  ASSUME NEW c \in ChatCalls, NEW s \in Histories, ChatAgrees(c, s), NEW i \in Numbers, NEW h \in Tellings,
         c.over \/ Alike(Accumulated(c, i), h)
  PROVE  <<c, [s EXCEPT ![i] = h]>> \in ChatPairs
<1>1. PICK t : t = [s EXCEPT ![i] = h] OBVIOUS
<1>2. t \in Histories /\ t[i] = h /\ \A n \in Numbers : n # i => t[n] = s[n] BY <1>1 DEF Histories
<1>3. ChatAgrees(c, t)
  <2>1. CASE c.over BY <2>1 DEF ChatAgrees
  <2>2. CASE ~c.over
    <3>1. ASSUME NEW n \in Numbers PROVE Alike(Accumulated(c, n), t[n])
      <4>1. CASE n = i BY <4>1, <2>2, <1>2
      <4>2. CASE n # i BY <4>2, <2>2, <1>2 DEF ChatAgrees
      <4> QED BY <4>1, <4>2
    <3> QED BY <3>1, <2>2 DEF ChatAgrees
  <2> QED BY <2>1, <2>2
<1> QED BY <1>1, <1>2, <1>3, ChatPair

LEMMA Accumulating ==
  ASSUME NEW a \in Accumulators, NEW w \in Wording, NEW x \in ToolStates, NEW n \in Numbers
  PROVE  /\ [a EXCEPT !.text = @ \o w] \in Accumulators
         /\ [a EXCEPT !.tools[n] = x] \in Accumulators
<1>1. a.text \o w \in Wording BY WordingFacts DEF Accumulators
<1>2. PICK t : t = [a.tools EXCEPT ![n] = x] OBVIOUS
<1>3. t \in [Numbers -> ToolStates] BY <1>2 DEF Accumulators
<1>4. [a EXCEPT !.tools[n] = x] = [a EXCEPT !.tools = t] BY <1>2
<1> QED BY <1>1, <1>3, <1>4 DEF Accumulators

LEMMA Extending ==
  ASSUME NEW x \in ToolStates, NEW piece \in PieceTypes
  PROVE  /\ Extended(x, piece) \in ToolStates
         /\ piece.name = <<>> /\ piece.args = <<>> => Extended(x, piece) = x
<1>1. piece.name \in Wording /\ piece.args \in Wording BY DEF PieceTypes, Wording
<1>2. x.name \in Wording /\ x.args \in Wording BY DEF ToolStates
<1>3. x.args \o piece.args \in Wording BY <1>1, <1>2, WordingFacts
<1>4. x.args \o <<>> = x.args BY <1>2 DEF Wording
<1> QED BY <1>1, <1>2, <1>3, <1>4 DEF Extended, ToolStates

(* Over the budget, and out of bounds.                                     *)
LEMMA Dropping ==
  ASSUME NEW c \in ChatCalls, NEW s \in Histories
  PROVE  /\ <<GoOver(c), s>> \in ChatPairs
         /\ ChatAgrees(c, s) => <<ChatPartial(c), s>> \in ChatPairs
<1>1. PICK d : d = GoOver(c) OBVIOUS
<1>2. d \in ChatCalls /\ d.over /\ d.choices = <<>> BY <1>1, NothingGathered DEF GoOver, ChatCalls
<1>3. <<d, s>> \in ChatPairs BY <1>2, ChatPair DEF ChatAgrees
<1>4. PICK e : e = ChatPartial(c) OBVIOUS
<1>5. e \in ChatCalls /\ e.over = c.over /\ e.choices = c.choices BY <1>4 DEF ChatPartial, ChatCalls
<1>6. ChatAgrees(c, s) => <<e, s>> \in ChatPairs BY <1>5, ChatPair DEF ChatAgrees, Accumulated
<1> QED BY <1>1, <1>3, <1>4, <1>6

(* One turn of each loop, on what is kept and on what was sent.            *)
LEMMA Uncrowded ==
  ASSUME NEW w \in Wording, NEW ch \in ChoiceTypes
  PROVE  /\ Output(ch) \in Wording /\ Len(Output(ch)) \in Nat
         /\ w \o ch.text \o ch.content \o ch.refusal \in Wording
         /\ ~Crowds(ch) => w \o ch.text \o ch.content \o ch.refusal = w \o Output(ch)
<1>1. ch.text \in Wording /\ ch.content \in Wording /\ ch.refusal \in Wording BY DEF ChoiceTypes, Wording
<1>2. Output(ch) \in Wording BY <1>1 DEF Output
<1>3. Len(Output(ch)) \in Nat BY <1>2, WordingFacts DEF Wording
<1>4. \A u, v \in Wording : u \o v \in Wording BY WordingFacts
<1>5. \A v \in Wording : v \o <<>> = v BY DEF Wording
<1>6. w \o ch.text \in Wording /\ w \o ch.content \in Wording /\ w \o ch.refusal \in Wording BY <1>1, <1>4
<1>7. w \o ch.text \o ch.content \in Wording BY <1>1, <1>4, <1>6
<1>8. w \o ch.text \o ch.content \o ch.refusal \in Wording BY <1>1, <1>4, <1>7
<1>9. ASSUME ~Crowds(ch) PROVE w \o ch.text \o ch.content \o ch.refusal = w \o Output(ch)
  <2>1. CASE ch.text # <<>>
    <3>1. ch.content = <<>> /\ ch.refusal = <<>> /\ Output(ch) = ch.text BY <2>1, <1>9 DEF Crowds, Output
    <3> QED BY <3>1, <1>5, <1>6
  <2>2. CASE ch.text = <<>> /\ ch.content # <<>>
    <3>1. ch.refusal = <<>> /\ Output(ch) = ch.content BY <2>2, <1>9 DEF Crowds, Output
    <3> QED BY <3>1, <2>2, <1>5, <1>6
  <2>3. CASE ch.text = <<>> /\ ch.content = <<>>
    <3>1. Output(ch) = ch.refusal BY <2>3 DEF Output
    <3> QED BY <3>1, <2>3, <1>5
  <2> QED BY <2>1, <2>2, <2>3
<1> QED BY <1>2, <1>3, <1>8, <1>9

LEMMA TextTurn ==
  ASSUME NEW c \in ChatCalls, NEW s \in Histories, ChatAgrees(c, s), NEW ch \in ChoiceTypes
  PROVE  <<AppendText(c, ch), HearText(s, ch)>> \in ChatPairs
<1>1. <<c, s>> \in ChatPairs BY ChatPair
<1>2. PICK t : t = HearText(s, ch) OBVIOUS
<1>3. CASE Hostile(ch.index)
  <2>1. t = s BY <1>2, <1>3 DEF HearText
  <2>2. AppendText(c, ch) = c \/ AppendText(c, ch) = ChatPartial(c) BY <1>3 DEF AppendText
  <2> QED BY <2>1, <2>2, <1>1, <1>2, Dropping
<1>4. CASE ~Hostile(ch.index)
  <2>1. PICK i : i = ch.index OBVIOUS
  <2>2. i \in Numbers BY <2>1, <1>4 DEF Hostile
  <2>3. PICK u : u = s[i] OBVIOUS
  <2>4. u \in Tellings BY <2>2, <2>3 DEF Histories
  <2>5. PICK o : o = Output(ch) OBVIOUS
  <2>6. PICK w : w = u.text \o ch.text \o ch.content \o ch.refusal OBVIOUS
  <2>7. o \in Wording /\ Len(o) \in Nat /\ w \in Wording /\ (~Crowds(ch) => w = u.text \o o)
    BY <2>4, <2>5, <2>6, Uncrowded DEF Tellings
  <2>8. PICK b : b = (u.crowded \/ Crowds(ch)) OBVIOUS
  <2>9. b \in BOOLEAN BY <2>8, <2>4 DEF Tellings
  <2>10. PICK h : h = [u EXCEPT !.text = w, !.crowded = b] OBVIOUS
  <2>11. h \in Tellings /\ h.text = w /\ h.tools = u.tools /\ h.crowded = b BY <2>4, <2>7, <2>9, <2>10 DEF Tellings
  <2>12. t = [s EXCEPT ![i] = h]
    <3>1. t = [s EXCEPT ![i].text = w, ![i].crowded = @ \/ Crowds(ch)]
      BY <1>2, <1>4, <2>1, <2>3, <2>6 DEF HearText
    <3>2. t = [s EXCEPT ![i] = [u EXCEPT !.text = w, !.crowded = b]] BY <3>1, <2>2, <2>3, <2>4, <2>8 DEF Histories, Tellings
    <3> QED BY <3>2, <2>10
  <2>13. PICK x : x = Accumulated(c, i) OBVIOUS
  <2>14. x \in Accumulators BY <2>2, <2>13, Gathering
  <2>15. PICK a : a = [x EXCEPT !.text = @ \o o] OBVIOUS
  <2>16. a \in Accumulators BY <2>2, <2>7, <2>14, <2>15, Accumulating, NothingGathered DEF Accumulators
  <2>17. ~c.over => Alike(a, h)
    <3>1. SUFFICES ASSUME ~c.over, ~b PROVE Alike(a, h)
      BY <2>11 DEF Alike
    <3>2. ~u.crowded /\ ~Crowds(ch) BY <3>1, <2>8
    <3>3. x.text = u.text /\ x.tools = u.tools BY <3>1, <3>2, <2>2, <2>3, <2>13 DEF ChatAgrees, Alike
    <3>4. a.text = x.text \o o /\ a.tools = x.tools BY <2>14, <2>15 DEF Accumulators
    <3> QED BY <3>2, <3>3, <3>4, <2>7, <2>11 DEF Alike
  <2>18. CASE c.over
    <3>1. AppendText(c, ch) = c BY <2>18 DEF AppendText
    <3> QED BY <3>1, <2>2, <2>11, <2>12, <2>18, <1>2, Hearing
  <2>19. CASE ~c.over /\ o = <<>>
    <3>1. AppendText(c, ch) = c BY <2>19, <2>5 DEF AppendText
    <3>2. x.text \o <<>> = x.text BY <2>14 DEF Accumulators, Wording
    <3>3. a = x BY <3>2, <2>14, <2>15, <2>19 DEF Accumulators
    <3> QED BY <3>1, <3>3, <2>2, <2>11, <2>12, <2>13, <2>17, <2>19, <1>2, Hearing
  <2>20. CASE ~c.over /\ o # <<>> /\ ~FitsIn(c, Len(o))
    <3>1. AppendText(c, ch) = GoOver(c) BY <2>20, <2>5, <1>4 DEF AppendText
    <3>2. t \in Histories BY <2>2, <2>11, <2>12 DEF Histories
    <3> QED BY <3>1, <3>2, <1>2, Dropping
  <2>21. CASE ~c.over /\ o # <<>> /\ FitsIn(c, Len(o))
    <3>1. PICK d : d = choiceAt(c, i) OBVIOUS
    <3>2. /\ d \in ChatCalls /\ i \in DOMAIN d.choices /\ d.bytes = c.bytes
          /\ Accumulated(d, i) = Accumulated(c, i)
      BY <3>1, <2>2, Gathering
    <3>3. d.choices[i] = x BY <3>2, <2>13 DEF Accumulated
    <3>4. PICK l \in Nat : l = Len(o) BY <2>7
    <3>5. PICK m : m = c.bytes + l OBVIOUS
    <3>6. m \in 0..chatCap
      <4>1. c.bytes \in 0..chatCap BY DEF ChatCalls
      <4> QED BY <4>1, <2>21, <3>4, <3>5, ChatBounds DEF FitsIn
    <3>7. PICK g : g = [d.choices EXCEPT ![i] = a] OBVIOUS
    <3>8. AppendText(c, ch) = [d EXCEPT !.choices = g, !.bytes = m]
      <4>1. AppendText(c, ch) = [d EXCEPT !.choices[i].text = @ \o o, !.bytes = @ + l]
        BY <1>4, <2>1, <2>5, <2>21, <3>1, <3>4 DEF AppendText
      <4>2. [d.choices EXCEPT ![i].text = @ \o o] = g BY <2>15, <3>3, <3>7
      <4> QED BY <4>1, <4>2, <3>2, <3>5 DEF ChatCalls
    <3>9. <<[d EXCEPT !.choices = g, !.bytes = m], [s EXCEPT ![i] = h]>> \in ChatPairs
      BY <2>2, <2>11, <2>16, <2>17, <2>21, <3>1, <3>6, <3>7, Writing
    <3> QED BY <3>8, <3>9, <2>12, <1>2
  <2> QED BY <2>18, <2>19, <2>20, <2>21
<1> QED BY <1>3, <1>4

LEMMA ToolTurn ==
  ASSUME NEW c \in ChatCalls, NEW s \in Histories, ChatAgrees(c, s), NEW ch \in ChoiceTypes, NEW piece \in PieceTypes
  PROVE  <<Tool(c, ch, piece), HearTool(s, ch, piece)>> \in ChatPairs
<1>1. <<c, s>> \in ChatPairs BY ChatPair
<1>2. PICK t : t = HearTool(s, ch, piece) OBVIOUS
<1>3. PICK i : i = ch.index OBVIOUS
<1>4. PICK k : k = piece.index OBVIOUS
<1>5. CASE Hostile(i)
  <2>1. t = s BY <1>2, <1>3, <1>5 DEF HearTool
  <2>2. Tool(c, ch, piece) = c \/ Tool(c, ch, piece) = ChatPartial(c) BY <1>3, <1>5 DEF Tool
  <2> QED BY <2>1, <2>2, <1>1, <1>2, Dropping
<1>6. CASE ~Hostile(i) /\ Hostile(k)
  <2>1. t = s BY <1>2, <1>4, <1>6 DEF HearTool
  <2>2. CASE Tool(c, ch, piece) = c BY <2>1, <2>2, <1>1, <1>2
  <2>3. CASE ~c.over /\ Tool(c, ch, piece) = ChatPartial(choiceAt(c, i))
    <3>1. i \in Numbers BY <1>6 DEF Hostile
    <3>2. PICK d : d = choiceAt(c, i) OBVIOUS
    <3>3. d \in ChatCalls /\ d.over = c.over /\ \A n \in Numbers : Accumulated(d, n) = Accumulated(c, n)
      BY <3>1, <3>2, Gathering
    <3>4. ChatAgrees(d, s) BY <2>3, <3>3 DEF ChatAgrees
    <3>5. <<ChatPartial(d), s>> \in ChatPairs BY <3>3, <3>4, Dropping
    <3> QED BY <2>1, <2>3, <3>2, <3>5, <1>2
  <2> QED BY <2>2, <2>3, <1>3, <1>4, <1>6 DEF Tool
<1>7. CASE ~Hostile(i) /\ ~Hostile(k)
  <2>1. i \in Numbers /\ k \in Numbers BY <1>7 DEF Hostile
  <2>2. PICK u : u = s[i] OBVIOUS
  <2>3. u \in Tellings /\ u.tools \in [Numbers -> ToolStates] BY <2>1, <2>2 DEF Histories, Tellings
  <2>4. PICK y : y = Extended(u.tools[k], piece) OBVIOUS
  <2>5. y \in ToolStates BY <2>1, <2>3, <2>4, Extending
  <2>6. PICK b : b = (u.crowded \/ ch.text # <<>>) OBVIOUS
  <2>7. PICK v : v = [u.tools EXCEPT ![k] = y] OBVIOUS
  <2>8. v \in [Numbers -> ToolStates] /\ b \in BOOLEAN BY <2>1, <2>3, <2>5, <2>6, <2>7 DEF Tellings
  <2>9. PICK h : h = [u EXCEPT !.tools = v, !.crowded = b] OBVIOUS
  <2>10. h \in Tellings /\ h.text = u.text /\ h.tools = v /\ h.crowded = b BY <2>3, <2>8, <2>9 DEF Tellings
  <2>11. t = [s EXCEPT ![i] = h]
    <3>1. t = [s EXCEPT ![i].tools[k] = Extended(@, piece), ![i].crowded = @ \/ ch.text # <<>>]
      BY <1>2, <1>3, <1>4, <1>7 DEF HearTool
    <3>2. t = [s EXCEPT ![i] = [u EXCEPT !.tools = v, !.crowded = b]]
      BY <3>1, <2>1, <2>2, <2>3, <2>4, <2>6, <2>7 DEF Histories, Tellings
    <3> QED BY <3>2, <2>9
  <2>12. PICK x : x = Accumulated(c, i) OBVIOUS
  <2>13. x \in Accumulators /\ x.tools \in [Numbers -> ToolStates] BY <2>1, <2>12, Gathering DEF Accumulators
  <2>14. PICK z : z = Extended(x.tools[k], piece) OBVIOUS
  <2>15. z \in ToolStates BY <2>1, <2>13, <2>14, Extending
  <2>16. PICK a : a = [x EXCEPT !.tools[k] = z] OBVIOUS
  <2>17. a \in Accumulators BY <2>1, <2>13, <2>15, <2>16, Accumulating, WordingFacts
  <2>18. ~c.over => Alike(a, h)
    <3>1. SUFFICES ASSUME ~c.over, ~b PROVE Alike(a, h)
      BY <2>10 DEF Alike
    <3>2. x.text = u.text /\ x.tools = u.tools BY <3>1, <2>1, <2>2, <2>6, <2>12 DEF ChatAgrees, Alike
    <3>3. z = y BY <3>2, <2>4, <2>14
    <3>4. a.text = x.text /\ a.tools = [x.tools EXCEPT ![k] = z] BY <2>13, <2>16 DEF Accumulators
    <3> QED BY <3>2, <3>3, <3>4, <2>7, <2>10 DEF Alike
  <2>19. CASE c.over
    <3>1. Tool(c, ch, piece) = c BY <2>19 DEF Tool
    <3> QED BY <3>1, <2>1, <2>10, <2>11, <2>19, <1>2, Hearing
  <2>20. CASE ~c.over /\ Skipped(ch, piece)
    <3>1. Tool(c, ch, piece) = c BY <2>20 DEF Tool
    <3>2. Alike(x, h)
      <4>1. CASE b BY <4>1, <2>10 DEF Alike
      <4>2. CASE ~b
        <5>1. piece.name = <<>> /\ piece.args = <<>> BY <4>2, <2>6, <2>20 DEF Skipped
        <5>2. z = x.tools[k] BY <5>1, <2>1, <2>13, <2>14, Extending
        <5>3. a = x BY <5>2, <2>1, <2>13, <2>16 DEF Accumulators
        <5> QED BY <5>3, <2>18, <2>20
      <4> QED BY <4>1, <4>2, <2>8
    <3> QED BY <3>1, <3>2, <2>1, <2>10, <2>11, <2>12, <1>2, Hearing
  <2>21. CASE ~c.over /\ ~Skipped(ch, piece) /\ ~FitsIn(c, PieceLen(piece))
    <3>1. Tool(c, ch, piece) = GoOver(c) BY <2>21, <1>3, <1>4, <1>7 DEF Tool
    <3>2. t \in Histories BY <2>1, <2>10, <2>11 DEF Histories
    <3> QED BY <3>1, <3>2, <1>2, Dropping
  <2>22. CASE ~c.over /\ ~Skipped(ch, piece) /\ FitsIn(c, PieceLen(piece))
    <3>1. PICK d : d = choiceAt(c, i) OBVIOUS
    <3>2. /\ d \in ChatCalls /\ i \in DOMAIN d.choices /\ d.bytes = c.bytes
          /\ Accumulated(d, i) = Accumulated(c, i)
      BY <3>1, <2>1, Gathering
    <3>3. d.choices[i] = x BY <3>2, <2>12 DEF Accumulated
    <3>4. PICK l \in Nat : l = PieceLen(piece)
      <4>1. PICK p : p = piece.name OBVIOUS
      <4>2. PICK q : q = piece.args OBVIOUS
      <4>3. p \in Wording /\ q \in Wording BY <4>1, <4>2 DEF PieceTypes, Wording
      <4>4. Len(p) \in Nat /\ Len(q) \in Nat BY <4>3, WordingFacts
      <4>5. Len(p) + Len(q) \in Nat BY <4>4
      <4> QED BY <4>1, <4>2, <4>5 DEF PieceLen
    <3>5. PICK m : m = c.bytes + l OBVIOUS
    <3>6. m \in 0..chatCap
      <4>1. c.bytes \in 0..chatCap BY DEF ChatCalls
      <4> QED BY <4>1, <2>22, <3>4, <3>5, ChatBounds DEF FitsIn
    <3>7. PICK g : g = [d.choices EXCEPT ![i] = a] OBVIOUS
    <3>8. Tool(c, ch, piece) = [d EXCEPT !.choices = g, !.bytes = m]
      <4>1. Tool(c, ch, piece) = [d EXCEPT !.choices[i].tools[k] = Extended(@, piece), !.bytes = @ + l]
        BY <1>3, <1>4, <1>7, <2>22, <3>1, <3>4 DEF Tool
      <4>2. [d.choices EXCEPT ![i].tools[k] = Extended(@, piece)] = g BY <2>14, <2>16, <3>3, <3>7
      <4> QED BY <4>1, <4>2, <3>2, <3>5 DEF ChatCalls
    <3>9. <<[d EXCEPT !.choices = g, !.bytes = m], [s EXCEPT ![i] = h]>> \in ChatPairs
      BY <2>1, <2>10, <2>17, <2>18, <2>22, <3>1, <3>6, <3>7, Writing
    <3> QED BY <3>8, <3>9, <2>11, <1>2
  <2> QED BY <2>19, <2>20, <2>21, <2>22
<1> QED BY <1>5, <1>6, <1>7

LEMMA ReasonTurn ==
  ASSUME NEW c \in ChatCalls, NEW s \in Histories, ChatAgrees(c, s), NEW reason \in Wording
  PROVE  <<appendFinishReason(c, reason), s>> \in ChatPairs
<1>1. <<c, s>> \in ChatPairs BY ChatPair
<1>2. PICK d : d = appendFinishReason(c, reason) OBVIOUS
<1>3. CASE d = c BY <1>1, <1>2, <1>3
<1>4. CASE d = ChatPartial(c) BY <1>2, <1>4, Dropping
<1>5. CASE FitsIn(c, Len(reason)) /\ d = [c EXCEPT !.reasons = Append(@, reason), !.bytes = @ + Len(reason)]
  <2>1. c.bytes \in 0..chatCap BY DEF ChatCalls
  <2>2. PICK l \in Nat : l = Len(reason) BY WordingFacts
  <2>3. c.bytes + l \in 0..chatCap BY <2>1, <2>2, <1>5, ChatBounds DEF FitsIn
  <2>4. Append(c.reasons, reason) \in Seq(Wording)
    <3>1. c.reasons \in Seq(Wording) BY DEF ChatCalls
    <3> QED BY <3>1
  <2>5. d \in ChatCalls /\ d.over = c.over /\ d.choices = c.choices BY <1>5, <2>2, <2>3, <2>4 DEF ChatCalls
  <2>6. ChatAgrees(d, s) BY <2>5 DEF ChatAgrees, Accumulated
  <2> QED BY <2>5, <2>6, <1>2, ChatPair
<1> QED BY <1>2, <1>3, <1>4, <1>5 DEF appendFinishReason

(* The loops: what both make of a choice's tool calls, of a chunk's        *)
(* choices and of a body's finish reasons.                                 *)
LEMMA ToolsLoop ==
  ASSUME NEW c \in ChatCalls, NEW s \in Histories, ChatAgrees(c, s), NEW ch \in ChoiceTypes
  PROVE  <<consumeInto(c, ch), HearChoice(s, ch)>> \in ChatPairs
<1>1. PICK n \in Nat : n = Len(ch.tools) BY DEF ChoiceTypes
<1>2. \A k \in 1..n : ch.tools[k] \in PieceTypes BY <1>1 DEF ChoiceTypes
<1> DEFINE first == <<AppendText(c, ch), HearText(s, ch)>>
           Turn(p, k) == <<Tool(p[1], ch, ch.tools[k]), HearTool(p[2], ch, ch.tools[k])>>
           step == [k \in 1..n |-> [p \in ChatPairs |-> Turn(p, k)]]
           after[k \in 0..n] == IF k = 0 THEN AppendText(c, ch) ELSE Tool(after[k - 1], ch, ch.tools[k])
           got[k \in 0..n] == IF k = 0 THEN HearText(s, ch) ELSE HearTool(got[k - 1], ch, ch.tools[k])
<1>3. first \in ChatPairs BY TextTurn
<1>4. ASSUME NEW k \in 1..n, NEW p \in ChatPairs PROVE Turn(p, k) \in ChatPairs
  <2>1. p[1] \in ChatCalls /\ p[2] \in Histories /\ ChatAgrees(p[1], p[2]) BY DEF ChatPairs
  <2> QED BY <1>2, <2>1, ToolTurn
<1>5. PICK f : Loop(f, ChatPairs, first, step, n)
  <2>1. step \in [1..n -> [ChatPairs -> ChatPairs]] BY <1>4
  <2> HIDE DEF step, first
  <2> QED BY <1>3, <2>1, LoopEnds
<1>6. f[0] = first /\ \A k \in 1..n : f[k] = Turn(f[k - 1], k)
  <2>1. f \in [0..n -> ChatPairs] /\ f[0] = first /\ \A k \in 1..n : f[k] = step[k][f[k - 1]]
    <3> HIDE DEF step, first
    <3> QED BY <1>5 DEF Loop
  <2>2. ASSUME NEW k \in 1..n PROVE f[k] = Turn(f[k - 1], k)
    <3>1. k - 1 \in 0..n OBVIOUS
    <3>2. f[k - 1] \in ChatPairs BY <2>1, <3>1
    <3>3. f[k] = step[k][f[k - 1]] BY <2>1
    <3> HIDE DEF Turn
    <3> QED BY <3>2, <3>3
  <2> QED BY <2>1, <2>2
<1>7. after = [k \in 0..n |-> IF k = 0 THEN AppendText(c, ch) ELSE Tool(after[k - 1], ch, ch.tools[k])]
  <2> DEFINE g == [k \in 0..n |-> f[k][1]]
  <2>3. f[0][1] = AppendText(c, ch) BY <1>6
  <2>4. \A k \in 1..n : f[k][1] = Tool(f[k - 1][1], ch, ch.tools[k])
    <3> TAKE k \in 1..n
    <3>1. f[k] = Turn(f[k - 1], k) BY <1>6
    <3> QED BY <3>1
  <2>5. \A k \in 0..n : g[k] = f[k][1] OBVIOUS
  <2>6. \A k \in 1..n : g[k] = Tool(g[k - 1], ch, ch.tools[k])
    <3> TAKE k \in 1..n
    <3>1. k \in 0..n /\ k - 1 \in 0..n OBVIOUS
    <3>2. g[k] = f[k][1] /\ g[k - 1] = f[k - 1][1] BY <2>5, <3>1
    <3> HIDE DEF g
    <3> QED BY <2>4, <3>2
  <2>7. g[0] = AppendText(c, ch) BY <2>3, <2>5
  <2>8. g = [k \in 0..n |-> g[k]] OBVIOUS
  <2> HIDE DEF g
  <2>1. g = [k \in 0..n |-> IF k = 0 THEN AppendText(c, ch) ELSE Tool(g[k - 1], ch, ch.tools[k])]
    <3>1. \A k \in 0..n : g[k] = IF k = 0 THEN AppendText(c, ch) ELSE Tool(g[k - 1], ch, ch.tools[k])
      <4> TAKE k \in 0..n
      <4>1. CASE k = 0 BY <4>1, <2>7
      <4>2. CASE k # 0
        <5>1. k \in 1..n BY <4>2
        <5> QED BY <4>2, <5>1, <2>6
      <4> QED BY <4>1, <4>2
    <3> QED BY <3>1, <2>8
  <2> HIDE DEF g
  <2> QED BY <2>1
<1>8. got = [k \in 0..n |-> IF k = 0 THEN HearText(s, ch) ELSE HearTool(got[k - 1], ch, ch.tools[k])]
  <2> DEFINE g == [k \in 0..n |-> f[k][2]]
  <2>3. f[0][2] = HearText(s, ch) BY <1>6
  <2>4. \A k \in 1..n : f[k][2] = HearTool(f[k - 1][2], ch, ch.tools[k])
    <3> TAKE k \in 1..n
    <3>1. f[k] = Turn(f[k - 1], k) BY <1>6
    <3> QED BY <3>1
  <2>5. \A k \in 0..n : g[k] = f[k][2] OBVIOUS
  <2>6. \A k \in 1..n : g[k] = HearTool(g[k - 1], ch, ch.tools[k])
    <3> TAKE k \in 1..n
    <3>1. k \in 0..n /\ k - 1 \in 0..n OBVIOUS
    <3>2. g[k] = f[k][2] /\ g[k - 1] = f[k - 1][2] BY <2>5, <3>1
    <3> HIDE DEF g
    <3> QED BY <2>4, <3>2
  <2>7. g[0] = HearText(s, ch) BY <2>3, <2>5
  <2>8. g = [k \in 0..n |-> g[k]] OBVIOUS
  <2> HIDE DEF g
  <2>1. g = [k \in 0..n |-> IF k = 0 THEN HearText(s, ch) ELSE HearTool(g[k - 1], ch, ch.tools[k])]
    <3>1. \A k \in 0..n : g[k] = IF k = 0 THEN HearText(s, ch) ELSE HearTool(g[k - 1], ch, ch.tools[k])
      <4> TAKE k \in 0..n
      <4>1. CASE k = 0 BY <4>1, <2>7
      <4>2. CASE k # 0
        <5>1. k \in 1..n BY <4>2
        <5> QED BY <4>2, <5>1, <2>6
      <4> QED BY <4>1, <4>2
    <3> QED BY <3>1, <2>8
  <2> HIDE DEF g
  <2> QED BY <2>1
<1>9. consumeInto(c, ch) = after[n] /\ HearChoice(s, ch) = got[n] BY <1>1 DEF consumeInto, HearChoice
<1> HIDE DEF after, got
<1>10. after[0] = AppendText(c, ch) /\ got[0] = HearText(s, ch) BY <1>7, <1>8
<1>11. ASSUME NEW k \in 1..n, <<after[k - 1], got[k - 1]>> \in ChatPairs
       PROVE  <<after[k], got[k]>> \in ChatPairs
  <2>1. k \in 0..n /\ k # 0 OBVIOUS
  <2>2. after[k] = Tool(after[k - 1], ch, ch.tools[k]) BY <2>1, <1>7
  <2>3. got[k] = HearTool(got[k - 1], ch, ch.tools[k]) BY <2>1, <1>8
  <2>4. Turn(<<after[k - 1], got[k - 1]>>, k) \in ChatPairs
    <3> HIDE DEF Turn
    <3> QED BY <1>11, <1>4
  <2> QED BY <2>2, <2>3, <2>4
<1>12. <<after[n], got[n]>> \in ChatPairs BY <1>3, <1>10, <1>11, LoopsAgree
<1> QED BY <1>9, <1>12

LEMMA ChoiceTurn ==
  ASSUME NEW c \in ChatCalls, NEW s \in Histories, ChatAgrees(c, s), NEW ch \in ChoiceTypes
  PROVE  <<consumeChoice(c, ch), HearChoice(s, ch)>> \in ChatPairs
<1>1. PICK d : d = consumeInto(c, ch) OBVIOUS
<1>2. PICK t : t = HearChoice(s, ch) OBVIOUS
<1>3. d \in ChatCalls /\ t \in Histories /\ ChatAgrees(d, t) BY <1>1, <1>2, ToolsLoop, ChatPair
<1>4. ch.reason \in Wording BY DEF ChoiceTypes, Wording
<1>5. <<appendFinishReason(d, ch.reason), t>> \in ChatPairs BY <1>3, <1>4, ReasonTurn
<1> QED BY <1>1, <1>2, <1>5 DEF consumeChoice

LEMMA ChoicesLoop ==
  ASSUME NEW c \in ChatCalls, NEW s \in Histories, ChatAgrees(c, s), NEW chs \in Seq(ChoiceTypes)
  PROVE  <<ConsumeChoices(c, chs), Hear(s, chs)>> \in ChatPairs
<1>1. PICK n \in Nat : n = Len(chs) OBVIOUS
<1>2. \A k \in 1..n : chs[k] \in ChoiceTypes BY <1>1
<1> DEFINE first == <<c, s>>
           Turn(p, k) == <<consumeChoice(p[1], chs[k]), HearChoice(p[2], chs[k])>>
           step == [k \in 1..n |-> [p \in ChatPairs |-> Turn(p, k)]]
           after[k \in 0..n] == IF k = 0 THEN c ELSE consumeChoice(after[k - 1], chs[k])
           got[k \in 0..n] == IF k = 0 THEN s ELSE HearChoice(got[k - 1], chs[k])
<1>3. first \in ChatPairs BY ChatPair
<1>4. ASSUME NEW k \in 1..n, NEW p \in ChatPairs PROVE Turn(p, k) \in ChatPairs
  <2>1. p[1] \in ChatCalls /\ p[2] \in Histories /\ ChatAgrees(p[1], p[2]) BY DEF ChatPairs
  <2> QED BY <1>2, <2>1, ChoiceTurn
<1>5. PICK f : Loop(f, ChatPairs, first, step, n)
  <2>1. step \in [1..n -> [ChatPairs -> ChatPairs]] BY <1>4
  <2> HIDE DEF step, first
  <2> QED BY <1>3, <2>1, LoopEnds
<1>6. f[0] = first /\ \A k \in 1..n : f[k] = Turn(f[k - 1], k)
  <2>1. f \in [0..n -> ChatPairs] /\ f[0] = first /\ \A k \in 1..n : f[k] = step[k][f[k - 1]]
    <3> HIDE DEF step, first
    <3> QED BY <1>5 DEF Loop
  <2>2. ASSUME NEW k \in 1..n PROVE f[k] = Turn(f[k - 1], k)
    <3>1. k - 1 \in 0..n OBVIOUS
    <3>2. f[k - 1] \in ChatPairs BY <2>1, <3>1
    <3>3. f[k] = step[k][f[k - 1]] BY <2>1
    <3> HIDE DEF Turn
    <3> QED BY <3>2, <3>3
  <2> QED BY <2>1, <2>2
<1>7. after = [k \in 0..n |-> IF k = 0 THEN c ELSE consumeChoice(after[k - 1], chs[k])]
  <2> DEFINE g == [k \in 0..n |-> f[k][1]]
  <2>3. f[0][1] = c BY <1>6
  <2>4. \A k \in 1..n : f[k][1] = consumeChoice(f[k - 1][1], chs[k])
    <3> TAKE k \in 1..n
    <3>1. f[k] = Turn(f[k - 1], k) BY <1>6
    <3> QED BY <3>1
  <2>5. \A k \in 0..n : g[k] = f[k][1] OBVIOUS
  <2>6. \A k \in 1..n : g[k] = consumeChoice(g[k - 1], chs[k])
    <3> TAKE k \in 1..n
    <3>1. k \in 0..n /\ k - 1 \in 0..n OBVIOUS
    <3>2. g[k] = f[k][1] /\ g[k - 1] = f[k - 1][1] BY <2>5, <3>1
    <3> HIDE DEF g
    <3> QED BY <2>4, <3>2
  <2>7. g[0] = c BY <2>3, <2>5
  <2>8. g = [k \in 0..n |-> g[k]] OBVIOUS
  <2> HIDE DEF g
  <2>1. g = [k \in 0..n |-> IF k = 0 THEN c ELSE consumeChoice(g[k - 1], chs[k])]
    <3>1. \A k \in 0..n : g[k] = IF k = 0 THEN c ELSE consumeChoice(g[k - 1], chs[k])
      <4> TAKE k \in 0..n
      <4>1. CASE k = 0 BY <4>1, <2>7
      <4>2. CASE k # 0
        <5>1. k \in 1..n BY <4>2
        <5> QED BY <4>2, <5>1, <2>6
      <4> QED BY <4>1, <4>2
    <3> QED BY <3>1, <2>8
  <2> HIDE DEF g
  <2> QED BY <2>1
<1>8. got = [k \in 0..n |-> IF k = 0 THEN s ELSE HearChoice(got[k - 1], chs[k])]
  <2> DEFINE g == [k \in 0..n |-> f[k][2]]
  <2>3. f[0][2] = s BY <1>6
  <2>4. \A k \in 1..n : f[k][2] = HearChoice(f[k - 1][2], chs[k])
    <3> TAKE k \in 1..n
    <3>1. f[k] = Turn(f[k - 1], k) BY <1>6
    <3> QED BY <3>1
  <2>5. \A k \in 0..n : g[k] = f[k][2] OBVIOUS
  <2>6. \A k \in 1..n : g[k] = HearChoice(g[k - 1], chs[k])
    <3> TAKE k \in 1..n
    <3>1. k \in 0..n /\ k - 1 \in 0..n OBVIOUS
    <3>2. g[k] = f[k][2] /\ g[k - 1] = f[k - 1][2] BY <2>5, <3>1
    <3> HIDE DEF g
    <3> QED BY <2>4, <3>2
  <2>7. g[0] = s BY <2>3, <2>5
  <2>8. g = [k \in 0..n |-> g[k]] OBVIOUS
  <2> HIDE DEF g
  <2>1. g = [k \in 0..n |-> IF k = 0 THEN s ELSE HearChoice(g[k - 1], chs[k])]
    <3>1. \A k \in 0..n : g[k] = IF k = 0 THEN s ELSE HearChoice(g[k - 1], chs[k])
      <4> TAKE k \in 0..n
      <4>1. CASE k = 0 BY <4>1, <2>7
      <4>2. CASE k # 0
        <5>1. k \in 1..n BY <4>2
        <5> QED BY <4>2, <5>1, <2>6
      <4> QED BY <4>1, <4>2
    <3> QED BY <3>1, <2>8
  <2> HIDE DEF g
  <2> QED BY <2>1
<1>9. ConsumeChoices(c, chs) = after[n] /\ Hear(s, chs) = got[n] BY <1>1 DEF ConsumeChoices, Hear
<1> HIDE DEF after, got
<1>10. after[0] = c /\ got[0] = s BY <1>7, <1>8
<1>11. ASSUME NEW k \in 1..n, <<after[k - 1], got[k - 1]>> \in ChatPairs
       PROVE  <<after[k], got[k]>> \in ChatPairs
  <2>1. k \in 0..n /\ k # 0 OBVIOUS
  <2>2. after[k] = consumeChoice(after[k - 1], chs[k]) BY <2>1, <1>7
  <2>3. got[k] = HearChoice(got[k - 1], chs[k]) BY <2>1, <1>8
  <2>4. Turn(<<after[k - 1], got[k - 1]>>, k) \in ChatPairs
    <3> HIDE DEF Turn
    <3> QED BY <1>11, <1>4
  <2> QED BY <2>2, <2>3, <2>4
<1>12. <<after[n], got[n]>> \in ChatPairs BY <1>3, <1>10, <1>11, LoopsAgree
<1> QED BY <1>9, <1>12

LEMMA ReasonsLoop ==
  ASSUME NEW c \in ChatCalls, NEW s \in Histories, ChatAgrees(c, s), NEW reasons \in Seq(Wording)
  PROVE  <<AppendReasons(c, reasons), s>> \in ChatPairs
<1>1. PICK n \in Nat : n = Len(reasons) OBVIOUS
<1>2. \A k \in 1..n : reasons[k] \in Wording BY <1>1
<1> DEFINE X == {d \in ChatCalls : ChatAgrees(d, s)}
           step == [k \in 1..n |-> [d \in X |-> appendFinishReason(d, reasons[k])]]
           after[k \in 0..n] == IF k = 0 THEN c ELSE appendFinishReason(after[k - 1], reasons[k])
<1>3. c \in X OBVIOUS
<1>4. ASSUME NEW k \in 1..n, NEW d \in X PROVE appendFinishReason(d, reasons[k]) \in X
  BY <1>2, ReasonTurn, ChatPair
<1>5. PICK f : Loop(f, X, c, step, n)
  <2>1. step \in [1..n -> [X -> X]] BY <1>4
  <2> HIDE DEF step, X
  <2> QED BY <1>3, <2>1, LoopEnds
<1>6. f[0] = c /\ \A k \in 1..n : f[k] = appendFinishReason(f[k - 1], reasons[k])
  <2>1. f \in [0..n -> X] /\ f[0] = c /\ \A k \in 1..n : f[k] = step[k][f[k - 1]]
    <3> HIDE DEF step, X
    <3> QED BY <1>5 DEF Loop
  <2> HIDE DEF X
  <2>2. ASSUME NEW k \in 1..n PROVE f[k] = appendFinishReason(f[k - 1], reasons[k])
    <3>1. k - 1 \in 0..n OBVIOUS
    <3>2. f[k - 1] \in X BY <2>1, <3>1
    <3>3. f[k] = step[k][f[k - 1]] BY <2>1
    <3> QED BY <3>2, <3>3
  <2> QED BY <2>1, <2>2
<1>7. after = [k \in 0..n |-> IF k = 0 THEN c ELSE appendFinishReason(after[k - 1], reasons[k])]
  <2> DEFINE g == [k \in 0..n |-> f[k]]
  <2>3. f[0] = c BY <1>6
  <2>4. \A k \in 1..n : f[k] = appendFinishReason(f[k - 1], reasons[k]) BY <1>6
  <2>5. \A k \in 0..n : g[k] = f[k] OBVIOUS
  <2>6. \A k \in 1..n : g[k] = appendFinishReason(g[k - 1], reasons[k])
    <3> TAKE k \in 1..n
    <3>1. k \in 0..n /\ k - 1 \in 0..n OBVIOUS
    <3>2. g[k] = f[k] /\ g[k - 1] = f[k - 1] BY <2>5, <3>1
    <3> HIDE DEF g
    <3> QED BY <2>4, <3>2
  <2>7. g[0] = c BY <2>3, <2>5
  <2>8. g = [k \in 0..n |-> g[k]] OBVIOUS
  <2> HIDE DEF g
  <2>1. g = [k \in 0..n |-> IF k = 0 THEN c ELSE appendFinishReason(g[k - 1], reasons[k])]
    <3>1. \A k \in 0..n : g[k] = IF k = 0 THEN c ELSE appendFinishReason(g[k - 1], reasons[k])
      <4> TAKE k \in 0..n
      <4>1. CASE k = 0 BY <4>1, <2>7
      <4>2. CASE k # 0
        <5>1. k \in 1..n BY <4>2
        <5> QED BY <4>2, <5>1, <2>6
      <4> QED BY <4>1, <4>2
    <3> QED BY <3>1, <2>8
  <2> HIDE DEF g
  <2> QED BY <2>1
<1>8. AppendReasons(c, reasons) = after[n] BY <1>1 DEF AppendReasons
<1> HIDE DEF after, X
<1>9. after[0] \in X BY <1>3, <1>7
<1>10. ASSUME NEW k \in 1..n, after[k - 1] \in X PROVE after[k] \in X
  <2>1. k \in 0..n /\ k # 0 OBVIOUS
  <2>2. after[k] = appendFinishReason(after[k - 1], reasons[k]) BY <2>1, <1>7
  <2> QED BY <2>2, <1>10, <1>4
<1>11. \A k \in 0..n : after[k] \in X BY <1>9, <1>10, LoopStays
<1>12. after[n] \in X BY <1>11
<1> QED BY <1>8, <1>12, ChatPair DEF X

(* A step of the parser on a chunk or on a body.                           *)
LEMMA ChunkTurn ==
  ASSUME NEW c \in ChatCalls, NEW s \in Histories, ChatAgrees(c, s), NEW e \in ChatEvents
  PROVE  <<consumeChunk(c, e), IF e.type = "chunk" THEN Hear(s, e.choices) ELSE s>> \in ChatPairs
<1>1. e.type \in {"done", "garbled", "error", "chunk"} /\ e.choices \in Seq(ChoiceTypes) BY ChatInputs
<1>2. CASE e.type = "chunk"
  <2>1. consumeChunk(c, e) = ConsumeChoices(c, e.choices) BY <1>2 DEF consumeChunk
  <2>2. <<ConsumeChoices(c, e.choices), Hear(s, e.choices)>> \in ChatPairs BY <1>1, ChoicesLoop
  <2> QED BY <2>1, <2>2, <1>2
<1>3. CASE e.type = "garbled"
  <2>1. consumeChunk(c, e) = ChatPartial(c) BY <1>3 DEF consumeChunk
  <2> QED BY <2>1, <1>3, Dropping
<1>4. CASE e.type \in {"done", "error"}
  <2>1. PICK d : d = consumeChunk(c, e) OBVIOUS
  <2>2. d = [c EXCEPT !.done = TRUE] \/ d = [c EXCEPT !.error = TRUE] BY <1>4, <2>1 DEF consumeChunk
  <2>3. d \in ChatCalls /\ d.over = c.over /\ d.choices = c.choices BY <2>2 DEF ChatCalls
  <2>4. ChatAgrees(d, s) BY <2>3 DEF ChatAgrees, Accumulated
  <2> QED BY <1>4, <2>1, <2>3, <2>4, ChatPair
<1> QED BY <1>1, <1>2, <1>3, <1>4

LEMMA ReplyTurn ==
  ASSUME NEW c \in ChatCalls, NEW s \in Histories, ChatAgrees(c, s), NEW reply \in Replies
  PROVE  <<consumeUnary(c, reply), s>> \in ChatPairs
<1>1. /\ reply.type \in {"empty", "failure", "garbled", "embeddings", "choices"}
      /\ reply.count \in Nat /\ reply.reasons \in Seq(Wording) /\ reply.valid \in BOOLEAN
  BY ChatInputs DEF Wording
<1>2. PICK d : d = consumeUnary(c, reply) OBVIOUS
<1>3. CASE reply.type = "empty"
  <2>1. d = c BY <1>2, <1>3 DEF consumeUnary
  <2> QED BY <2>1, <1>2, ChatPair
<1>4. CASE reply.type = "garbled"
  <2>1. d = ChatPartial(c) BY <1>2, <1>4 DEF consumeUnary
  <2> QED BY <2>1, <1>2, Dropping
<1>5. CASE reply.type \in {"failure", "embeddings"}
  <2>1. d = c \/ d = [c EXCEPT !.unary = "error body"] \/ d = [c EXCEPT !.embeddings = reply.count]
    <3>1. CASE reply.type = "embeddings" BY <3>1, <1>2 DEF consumeUnary
    <3>2. CASE reply.type = "failure"
      <4>1. d = [c EXCEPT !.unary = IF reply.valid THEN "error body" ELSE @] BY <3>2, <1>2 DEF consumeUnary
      <4>2. [c EXCEPT !.unary = c.unary] = c BY DEF ChatCalls
      <4> QED BY <4>1, <4>2
    <3> QED BY <3>1, <3>2, <1>5
  <2>2. d \in ChatCalls /\ d.over = c.over /\ d.choices = c.choices BY <2>1, <1>1 DEF ChatCalls
  <2>3. ChatAgrees(d, s) BY <2>2 DEF ChatAgrees, Accumulated
  <2> QED BY <1>2, <2>2, <2>3, ChatPair
<1>6. CASE reply.type = "choices"
  <2>1. PICK g : g = AppendReasons(c, reply.reasons) OBVIOUS
  <2>2. g \in ChatCalls /\ ChatAgrees(g, s) BY <2>1, <1>1, ReasonsLoop, ChatPair
  <2>3. d = [g EXCEPT !.unary = IF reply.count = 0 THEN @ ELSE "choices"] BY <1>2, <1>6, <2>1 DEF consumeUnary
  <2>4. d \in ChatCalls /\ d.over = g.over /\ d.choices = g.choices BY <2>2, <2>3 DEF ChatCalls
  <2>5. ChatAgrees(d, s) BY <2>2, <2>4 DEF ChatAgrees, Accumulated
  <2> QED BY <1>2, <2>4, <2>5, ChatPair
<1> QED BY <1>1, <1>3, <1>4, <1>5, <1>6

(* The inductive invariant of the chat parser: what is kept and what was   *)
(* sent agree, choice by choice.                                           *)
ChatInv == <<chat, spoken>> \in ChatPairs

(* The chat parser keeps what was sent, or nothing (FeedEvent, charge).    *)
THEOREM ChatHolds == ChatSpec => []ChatInv
<1>1. ChatInit => ChatInv
  <2> SUFFICES ASSUME ChatInit PROVE ChatInv
    OBVIOUS
  <2>1. newChat \in ChatCalls /\ ~newChat.over /\ newChat.choices = <<>>
    BY NothingGathered, ChatBounds DEF newChat, ChatCalls
  <2>2. spoken \in Histories BY NothingGathered DEF ChatInit, Histories
  <2>3. \A n \in Numbers : Accumulated(newChat, n) = choiceAccumulator BY <2>1 DEF Accumulated
  <2>4. ChatAgrees(newChat, spoken) BY <2>1, <2>3, NothingGathered DEF ChatAgrees, ChatInit
  <2> QED BY <2>1, <2>2, <2>4, ChatPair DEF ChatInv, ChatInit
<1>2. ChatInv /\ [ChatNext]_chatVars => ChatInv'
  <2> SUFFICES ASSUME ChatInv, [ChatNext]_chatVars PROVE ChatInv'
    OBVIOUS
  <2>1. chat \in ChatCalls /\ spoken \in Histories /\ ChatAgrees(chat, spoken) BY ChatPair DEF ChatInv
  <2>2. ASSUME NEW e \in ChatEvents, FeedChunk(e) PROVE ChatInv'
    BY <2>1, <2>2, ChunkTurn DEF FeedChunk, ChatInv
  <2>3. ASSUME NEW reply \in Replies, FinishReply(reply) PROVE ChatInv'
    BY <2>1, <2>3, ReplyTurn DEF FinishReply, ChatInv
  <2>4. CASE UNCHANGED chatVars BY <2>4 DEF chatVars, ChatInv
  <2> QED BY <2>2, <2>3, <2>4 DEF ChatNext
<1> QED BY <1>1, <1>2, PTL DEF ChatSpec

(* So the streamed choices have all their texts and arguments and the last *)
(* names, or are dropped entirely, never truncated (charge, tool).         *)
THEOREM ChoicesWhole == ChatSpec => []ChoicesWholeOrNothing
<1>1. ChatInv => ChoicesWholeOrNothing BY ChatPair DEF ChatInv, ChatAgrees, Alike, ChoicesWholeOrNothing
<1> QED BY <1>1, ChatHolds, PTL

-----------------------------------------------------------------------------
(* Gemini: the texts of the candidates are all that was sent, and the      *)
(* other parts are the first of those that were.                           *)
Exports == [deltas : [Candidates -> Wording], extras : Seq(PartTypes)]
GeminiCalls == [kept : Exports, bytes : 0..geminiCap, over : BOOLEAN, partial : BOOLEAN, reasons : Nat,
                stream : BOOLEAN, unary : BOOLEAN, error : BOOLEAN]

FirstOf(few, all) ==
  /\ Len(few) <= maxCandidates /\ Len(few) <= Len(all)
  /\ \A i \in 1..Len(few) : few[i] = all[i]
  /\ few = all \/ Len(few) = maxCandidates
GeminiAgrees(c, t) ==
  IF c.over THEN c.kept = Silent
  ELSE c.kept.deltas = t.deltas /\ FirstOf(c.kept.extras, t.extras)
GeminiPairs == {p \in GeminiCalls \X Exports : GeminiAgrees(p[1], p[2])}

LEMMA GeminiPair ==
  ASSUME NEW c, NEW t
  PROVE  <<c, t>> \in GeminiPairs <=> c \in GeminiCalls /\ t \in Exports /\ GeminiAgrees(c, t)
BY DEF GeminiPairs

LEMMA SilentTyped == Silent \in Exports /\ Silent.deltas = [n \in Candidates |-> <<>>] /\ Silent.extras = <<>>
BY WordingFacts DEF Silent, Exports

(* Over the budget, and out of bounds.                                     *)
LEMMA GeminiDrops ==
  ASSUME NEW c \in GeminiCalls, NEW t \in Exports
  PROVE  /\ <<DropAll(c), t>> \in GeminiPairs
         /\ GeminiAgrees(c, t) => <<GeminiPartial(c), t>> \in GeminiPairs
<1>1. PICK d : d = DropAll(c) OBVIOUS
<1>2. d \in GeminiCalls /\ d.over /\ d.kept = Silent BY <1>1, SilentTyped DEF DropAll, GeminiCalls
<1>3. <<d, t>> \in GeminiPairs BY <1>2, GeminiPair DEF GeminiAgrees
<1>4. PICK e : e = GeminiPartial(c) OBVIOUS
<1>5. e \in GeminiCalls /\ e.over = c.over /\ e.kept = c.kept BY <1>4 DEF GeminiPartial, GeminiCalls
<1>6. GeminiAgrees(c, t) => <<e, t>> \in GeminiPairs BY <1>5, GeminiPair DEF GeminiAgrees
<1> QED BY <1>1, <1>3, <1>4, <1>6

(* A call with what it keeps and has spent.                                *)
LEMMA Keeping ==
  ASSUME NEW c \in GeminiCalls, NEW k \in Exports, NEW t \in Exports, NEW size \in Nat, c.bytes + size <= geminiCap,
         ~c.over, k.deltas = t.deltas, FirstOf(k.extras, t.extras)
  PROVE  <<[Charged(c, size) EXCEPT !.kept = k], t>> \in GeminiPairs
<1>1. c.bytes \in 0..geminiCap BY DEF GeminiCalls
<1>2. PICK b : b = c.bytes + size OBVIOUS
<1>3. b \in 0..geminiCap BY <1>1, <1>2, GeminiBounds
<1>4. PICK d : d = [Charged(c, size) EXCEPT !.kept = k] OBVIOUS
<1>5. d = [c EXCEPT !.bytes = b, !.kept = k] BY <1>2, <1>4 DEF Charged, GeminiCalls
<1>6. d \in GeminiCalls /\ ~d.over /\ d.kept = k BY <1>3, <1>5 DEF GeminiCalls
<1>7. GeminiAgrees(d, t) BY <1>6 DEF GeminiAgrees
<1> QED BY <1>4, <1>6, <1>7, GeminiPair

(* One turn of each loop.                                                  *)
LEMMA DeltaTurn ==
  ASSUME NEW c \in GeminiCalls, NEW t \in Exports, GeminiAgrees(c, t), NEW n \in Nat, NEW part \in PartTypes,
         part.kind = "text"
  PROVE  <<consumePart(c, n, part), TellPart(t, n, part)>> \in GeminiPairs
<1>0. part.text \in Wording /\ Len(part.text) \in Nat BY WordingFacts DEF PartTypes, Wording
<1>1. consumePart(c, n, part) = appendDelta(c, n, part.text) BY DEF consumePart
<1>2. PICK u : u = TellPart(t, n, part) OBVIOUS
<1>3. n \notin Candidates => u = t BY <1>2 DEF TellPart
<1>4. n \in Candidates => u = [t EXCEPT !.deltas[n] = @ \o part.text] BY <1>2 DEF TellPart
<1>5. u \in Exports
  <2>1. CASE n \in Candidates
    <3>1. t.deltas[n] \o part.text \in Wording BY <2>1, <1>0, WordingFacts DEF Exports
    <3>2. PICK g : g = [t.deltas EXCEPT ![n] = @ \o part.text] OBVIOUS
    <3>3. g \in [Candidates -> Wording] BY <3>1, <3>2 DEF Exports
    <3>4. u = [t EXCEPT !.deltas = g] BY <2>1, <1>4, <3>2
    <3> QED BY <3>3, <3>4 DEF Exports
  <2> QED BY <2>1, <1>3
<1>6. CASE c.over
  <2>1. appendDelta(c, n, part.text) = c BY <1>6 DEF appendDelta
  <2>2. GeminiAgrees(c, u) BY <1>6 DEF GeminiAgrees
  <2> QED BY <2>1, <2>2, <1>1, <1>2, <1>5, GeminiPair
<1>7. CASE ~c.over /\ n \notin Candidates
  <2>1. appendDelta(c, n, part.text) = GeminiPartial(c) BY <1>7 DEF appendDelta
  <2> QED BY <2>1, <1>1, <1>2, <1>3, <1>7, GeminiDrops
<1>8. CASE ~c.over /\ n \in Candidates
  <2>1. CASE c.bytes + Len(part.text) > geminiCap
    <3>1. appendDelta(c, n, part.text) = DropAll(c) BY <1>8, <2>1 DEF appendDelta
    <3> QED BY <3>1, <1>1, <1>2, <1>5, GeminiDrops
  <2>2. CASE ~(c.bytes + Len(part.text) > geminiCap)
    <3>1. PICK d : d = Charged(c, Len(part.text)) OBVIOUS
    <3>2. appendDelta(c, n, part.text) = [d EXCEPT !.kept.deltas[n] = @ \o part.text]
      BY <1>8, <2>2, <3>1 DEF appendDelta
    <3>3. d.kept = c.kept /\ c.kept \in Exports BY <3>1 DEF Charged, GeminiCalls
    <3>4. PICK g : g = [t.deltas EXCEPT ![n] = @ \o part.text] OBVIOUS
    <3>5. PICK k : k = [c.kept EXCEPT !.deltas = g] OBVIOUS
    <3>6. c.kept.deltas = t.deltas /\ FirstOf(c.kept.extras, t.extras) BY <1>8 DEF GeminiAgrees
    <3>7. [d EXCEPT !.kept.deltas[n] = @ \o part.text] = [d EXCEPT !.kept = k] BY <3>3, <3>4, <3>5, <3>6
    <3>8. u = [t EXCEPT !.deltas = g] BY <1>4, <1>8, <3>4
    <3>9. u.deltas = g /\ u.extras = t.extras BY <3>8 DEF Exports
    <3>10. k \in Exports /\ k.deltas = g /\ k.extras = c.kept.extras BY <1>5, <3>3, <3>5, <3>9 DEF Exports
    <3>11. c.bytes + Len(part.text) <= geminiCap
      <4>1. c.bytes \in Nat BY DEF GeminiCalls
      <4> QED BY <4>1, <2>2, <1>0, GeminiBounds
    <3>12. <<[d EXCEPT !.kept = k], u>> \in GeminiPairs
      BY <1>0, <1>5, <1>8, <3>1, <3>6, <3>9, <3>10, <3>11, Keeping
    <3> QED BY <1>1, <1>2, <3>2, <3>7, <3>12
  <2> QED BY <2>1, <2>2
<1> QED BY <1>6, <1>7, <1>8

LEMMA ExtraTurn ==
  ASSUME NEW c \in GeminiCalls, NEW t \in Exports, GeminiAgrees(c, t), NEW n \in Nat, NEW part \in PartTypes,
         part.kind \in {"thought", "call", "media"}
  PROVE  <<consumePart(c, n, part), TellPart(t, n, part)>> \in GeminiPairs
<1>1. consumePart(c, n, part) = retainExtra(c, part) BY DEF consumePart
<1>2. PICK u : u = TellPart(t, n, part) OBVIOUS
<1>3. u = [t EXCEPT !.extras = Append(@, part)] BY <1>2 DEF TellPart
<1>4. u.deltas = t.deltas /\ u.extras = Append(t.extras, part) BY <1>3 DEF Exports
<1>5. t.extras \in Seq(PartTypes) BY DEF Exports
<1>6. u \in Exports
  <2>1. Append(t.extras, part) \in Seq(PartTypes) BY <1>5
  <2> QED BY <2>1, <1>3 DEF Exports
<1>7. c.kept \in Exports BY DEF GeminiCalls
<1>8. c.kept.extras \in Seq(PartTypes) BY <1>7 DEF Exports
<1>9. CASE c.over
  <2>1. retainExtra(c, part) = c BY <1>9 DEF retainExtra
  <2>2. GeminiAgrees(c, u) BY <1>9 DEF GeminiAgrees
  <2> QED BY <2>1, <2>2, <1>1, <1>2, <1>6, GeminiPair
<1>10. CASE ~c.over
  <2>1. c.kept.deltas = t.deltas /\ FirstOf(c.kept.extras, t.extras) BY <1>10 DEF GeminiAgrees
  <2>2. PICK few \in Seq(PartTypes) : few = c.kept.extras BY <1>8
  <2>3. PICK all \in Seq(PartTypes) : all = t.extras BY <1>5
  <2>4. CASE Len(c.kept.extras) >= maxCandidates
    <3>1. retainExtra(c, part) = c BY <2>4 DEF retainExtra
    <3>2. FirstOf(few, Append(all, part)) BY <2>1, <2>2, <2>3, <2>4, GeminiBounds DEF FirstOf
    <3>3. GeminiAgrees(c, u) BY <1>10, <2>1, <3>2, <2>2, <2>3, <1>4 DEF GeminiAgrees
    <3> QED BY <3>1, <3>3, <1>1, <1>2, <1>6, GeminiPair
  <2>5. CASE ~(Len(c.kept.extras) >= maxCandidates)
    <3>1. few = all /\ Len(few) < maxCandidates BY <2>1, <2>2, <2>3, <2>5, GeminiBounds DEF FirstOf
    <3>2. CASE c.bytes + part.size > geminiCap
      <4>1. retainExtra(c, part) = DropAll(c) BY <1>10, <2>5, <3>2 DEF retainExtra
      <4> QED BY <4>1, <1>1, <1>2, <1>6, GeminiDrops
    <3>3. CASE ~(c.bytes + part.size > geminiCap)
      <4>1. PICK d : d = Charged(c, part.size) OBVIOUS
      <4>2. retainExtra(c, part) = [d EXCEPT !.kept.extras = Append(@, part)]
        BY <1>10, <2>5, <3>3, <4>1 DEF retainExtra
      <4>3. d.kept = c.kept BY <4>1 DEF Charged, GeminiCalls
      <4>4. PICK g \in Seq(PartTypes) : g = Append(few, part)
        <5>1. Append(few, part) \in Seq(PartTypes) OBVIOUS
        <5> QED BY <5>1
      <4>5. PICK k : k = [c.kept EXCEPT !.extras = g] OBVIOUS
      <4>6. [d EXCEPT !.kept.extras = Append(@, part)] = [d EXCEPT !.kept = k] BY <4>3, <4>4, <4>5, <2>2
      <4>7. k \in Exports /\ k.deltas = c.kept.deltas /\ k.extras = g BY <1>7, <4>4, <4>5 DEF Exports
      <4>8. FirstOf(g, u.extras)
        <5>1. u.extras = g BY <1>4, <2>3, <3>1, <4>4
        <5>2. Len(g) = Len(few) + 1 BY <4>4
        <5> QED BY <5>1, <5>2, <3>1, GeminiBounds DEF FirstOf
      <4>9. part.size \in Nat BY DEF PartTypes
      <4>10. c.bytes + part.size <= geminiCap
        <5>1. c.bytes \in Nat BY DEF GeminiCalls
        <5> QED BY <5>1, <3>3, <4>9, GeminiBounds
      <4>11. <<[d EXCEPT !.kept = k], u>> \in GeminiPairs
        BY <1>4, <1>6, <1>10, <2>1, <4>1, <4>7, <4>8, <4>9, <4>10, Keeping
      <4> QED BY <1>1, <1>2, <4>2, <4>6, <4>11
    <3> QED BY <3>2, <3>3
  <2> QED BY <2>4, <2>5
<1> QED BY <1>9, <1>10

LEMMA PartTurn ==
  ASSUME NEW c \in GeminiCalls, NEW t \in Exports, GeminiAgrees(c, t), NEW n \in Nat, NEW part \in PartTypes
  PROVE  <<consumePart(c, n, part), TellPart(t, n, part)>> \in GeminiPairs
<1>1. part.kind \in {"empty", "text", "thought", "call", "media"} BY DEF PartTypes
<1>2. CASE part.kind = "empty"
  <2>1. consumePart(c, n, part) = c /\ TellPart(t, n, part) = t BY <1>2 DEF consumePart, TellPart
  <2> QED BY <2>1, GeminiPair
<1> QED BY <1>1, <1>2, DeltaTurn, ExtraTurn

LEMMA GeminiReason ==
  ASSUME NEW c \in GeminiCalls, NEW t \in Exports, GeminiAgrees(c, t), NEW size \in Nat
  PROVE  <<retainFinishReason(c, size), t>> \in GeminiPairs
<1>1. PICK d : d = retainFinishReason(c, size) OBVIOUS
<1>2. CASE d = c BY <1>1, <1>2, GeminiPair
<1>3. CASE d = GeminiPartial(c) BY <1>1, <1>3, GeminiDrops
<1>4. CASE c.bytes + size <= geminiCap /\ d = [Charged(c, size) EXCEPT !.reasons = @ + 1]
  <2>1. c.bytes \in 0..geminiCap /\ c.reasons \in Nat BY DEF GeminiCalls
  <2>2. PICK b : b = c.bytes + size OBVIOUS
  <2>3. b \in 0..geminiCap BY <2>1, <2>2, <1>4, GeminiBounds
  <2>4. PICK r \in Nat : r = c.reasons + 1 BY <2>1
  <2>5. d = [c EXCEPT !.bytes = b, !.reasons = r] BY <1>4, <2>2, <2>4 DEF Charged, GeminiCalls
  <2>6. d \in GeminiCalls /\ d.over = c.over /\ d.kept = c.kept BY <2>3, <2>5 DEF GeminiCalls
  <2>7. GeminiAgrees(d, t) BY <2>6 DEF GeminiAgrees
  <2> QED BY <1>1, <2>6, <2>7, GeminiPair
<1>5. c.bytes + size \in Nat
  <2>1. c.bytes \in Nat BY DEF GeminiCalls
  <2> QED BY <2>1
<1> QED BY <1>1, <1>2, <1>3, <1>4, <1>5, GeminiBounds DEF retainFinishReason

LEMMA PartsLoop ==
  ASSUME NEW c \in GeminiCalls, NEW t \in Exports, GeminiAgrees(c, t), NEW n \in Nat, NEW parts \in Seq(PartTypes)
  PROVE  <<ConsumeParts(c, n, parts), TellParts(t, n, parts)>> \in GeminiPairs
<1>1. PICK m \in Nat : m = Len(parts) OBVIOUS
<1>2. \A k \in 1..m : parts[k] \in PartTypes BY <1>1
<1> DEFINE first == <<c, t>>
           Turn(p, k) == <<consumePart(p[1], n, parts[k]), TellPart(p[2], n, parts[k])>>
           step == [k \in 1..m |-> [p \in GeminiPairs |-> Turn(p, k)]]
           after[k \in 0..m] == IF k = 0 THEN c ELSE consumePart(after[k - 1], n, parts[k])
           got[k \in 0..m] == IF k = 0 THEN t ELSE TellPart(got[k - 1], n, parts[k])
<1>3. first \in GeminiPairs BY GeminiPair
<1>4. ASSUME NEW k \in 1..m, NEW p \in GeminiPairs PROVE Turn(p, k) \in GeminiPairs
  <2>1. p[1] \in GeminiCalls /\ p[2] \in Exports /\ GeminiAgrees(p[1], p[2]) BY DEF GeminiPairs
  <2> QED BY <1>2, <2>1, PartTurn
<1>5. PICK f : Loop(f, GeminiPairs, first, step, m)
  <2>1. step \in [1..m -> [GeminiPairs -> GeminiPairs]] BY <1>4
  <2> HIDE DEF step, first
  <2> QED BY <1>3, <2>1, LoopEnds
<1>6. f[0] = first /\ \A k \in 1..m : f[k] = Turn(f[k - 1], k)
  <2>1. f \in [0..m -> GeminiPairs] /\ f[0] = first /\ \A k \in 1..m : f[k] = step[k][f[k - 1]]
    <3> HIDE DEF step, first
    <3> QED BY <1>5 DEF Loop
  <2>2. ASSUME NEW k \in 1..m PROVE f[k] = Turn(f[k - 1], k)
    <3>1. k - 1 \in 0..m OBVIOUS
    <3>2. f[k - 1] \in GeminiPairs BY <2>1, <3>1
    <3>3. f[k] = step[k][f[k - 1]] BY <2>1
    <3> HIDE DEF Turn
    <3> QED BY <3>2, <3>3
  <2> QED BY <2>1, <2>2
<1>7. after = [k \in 0..m |-> IF k = 0 THEN c ELSE consumePart(after[k - 1], n, parts[k])]
  <2> DEFINE g == [k \in 0..m |-> f[k][1]]
  <2>3. f[0][1] = c BY <1>6
  <2>4. \A k \in 1..m : f[k][1] = consumePart(f[k - 1][1], n, parts[k])
    <3> TAKE k \in 1..m
    <3>1. f[k] = Turn(f[k - 1], k) BY <1>6
    <3> QED BY <3>1
  <2>5. \A k \in 0..m : g[k] = f[k][1] OBVIOUS
  <2>6. \A k \in 1..m : g[k] = consumePart(g[k - 1], n, parts[k])
    <3> TAKE k \in 1..m
    <3>1. k \in 0..m /\ k - 1 \in 0..m OBVIOUS
    <3>2. g[k] = f[k][1] /\ g[k - 1] = f[k - 1][1] BY <2>5, <3>1
    <3> HIDE DEF g
    <3> QED BY <2>4, <3>2
  <2>7. g[0] = c BY <2>3, <2>5
  <2>8. g = [k \in 0..m |-> g[k]] OBVIOUS
  <2> HIDE DEF g
  <2>1. g = [k \in 0..m |-> IF k = 0 THEN c ELSE consumePart(g[k - 1], n, parts[k])]
    <3>1. \A k \in 0..m : g[k] = IF k = 0 THEN c ELSE consumePart(g[k - 1], n, parts[k])
      <4> TAKE k \in 0..m
      <4>1. CASE k = 0 BY <4>1, <2>7
      <4>2. CASE k # 0
        <5>1. k \in 1..m BY <4>2
        <5> QED BY <4>2, <5>1, <2>6
      <4> QED BY <4>1, <4>2
    <3> QED BY <3>1, <2>8
  <2> HIDE DEF g
  <2> QED BY <2>1
<1>8. got = [k \in 0..m |-> IF k = 0 THEN t ELSE TellPart(got[k - 1], n, parts[k])]
  <2> DEFINE g == [k \in 0..m |-> f[k][2]]
  <2>3. f[0][2] = t BY <1>6
  <2>4. \A k \in 1..m : f[k][2] = TellPart(f[k - 1][2], n, parts[k])
    <3> TAKE k \in 1..m
    <3>1. f[k] = Turn(f[k - 1], k) BY <1>6
    <3> QED BY <3>1
  <2>5. \A k \in 0..m : g[k] = f[k][2] OBVIOUS
  <2>6. \A k \in 1..m : g[k] = TellPart(g[k - 1], n, parts[k])
    <3> TAKE k \in 1..m
    <3>1. k \in 0..m /\ k - 1 \in 0..m OBVIOUS
    <3>2. g[k] = f[k][2] /\ g[k - 1] = f[k - 1][2] BY <2>5, <3>1
    <3> HIDE DEF g
    <3> QED BY <2>4, <3>2
  <2>7. g[0] = t BY <2>3, <2>5
  <2>8. g = [k \in 0..m |-> g[k]] OBVIOUS
  <2> HIDE DEF g
  <2>1. g = [k \in 0..m |-> IF k = 0 THEN t ELSE TellPart(g[k - 1], n, parts[k])]
    <3>1. \A k \in 0..m : g[k] = IF k = 0 THEN t ELSE TellPart(g[k - 1], n, parts[k])
      <4> TAKE k \in 0..m
      <4>1. CASE k = 0 BY <4>1, <2>7
      <4>2. CASE k # 0
        <5>1. k \in 1..m BY <4>2
        <5> QED BY <4>2, <5>1, <2>6
      <4> QED BY <4>1, <4>2
    <3> QED BY <3>1, <2>8
  <2> HIDE DEF g
  <2> QED BY <2>1
<1>9. ConsumeParts(c, n, parts) = after[m] /\ TellParts(t, n, parts) = got[m] BY <1>1 DEF ConsumeParts, TellParts
<1> HIDE DEF after, got
<1>10. after[0] = c /\ got[0] = t BY <1>7, <1>8
<1>11. ASSUME NEW k \in 1..m, <<after[k - 1], got[k - 1]>> \in GeminiPairs
       PROVE  <<after[k], got[k]>> \in GeminiPairs
  <2>1. k \in 0..m /\ k # 0 OBVIOUS
  <2>2. after[k] = consumePart(after[k - 1], n, parts[k]) BY <2>1, <1>7
  <2>3. got[k] = TellPart(got[k - 1], n, parts[k]) BY <2>1, <1>8
  <2>4. Turn(<<after[k - 1], got[k - 1]>>, k) \in GeminiPairs
    <3> HIDE DEF Turn
    <3> QED BY <1>11, <1>4
  <2> QED BY <2>2, <2>3, <2>4
<1>12. <<after[m], got[m]>> \in GeminiPairs BY <1>3, <1>10, <1>11, LoopsAgree
<1> QED BY <1>9, <1>12

LEMMA CandidateTurn ==
  ASSUME NEW c \in GeminiCalls, NEW t \in Exports, GeminiAgrees(c, t), NEW n \in Nat, NEW candidate \in CandidateTypes
  PROVE  <<consumeCandidate(c, n, candidate), TellParts(t, n, candidate.parts)>> \in GeminiPairs
<1>1. candidate.parts \in Seq(PartTypes) /\ candidate.reason \in Nat BY DEF CandidateTypes
<1>2. PICK d : d = ConsumeParts(c, n, candidate.parts) OBVIOUS
<1>3. PICK u : u = TellParts(t, n, candidate.parts) OBVIOUS
<1>4. d \in GeminiCalls /\ u \in Exports /\ GeminiAgrees(d, u) BY <1>1, <1>2, <1>3, PartsLoop, GeminiPair
<1>5. <<retainFinishReason(d, candidate.reason), u>> \in GeminiPairs BY <1>1, <1>4, GeminiReason
<1> QED BY <1>2, <1>3, <1>5 DEF consumeCandidate

LEMMA CandidatesLoop ==
  ASSUME NEW c \in GeminiCalls, NEW t \in Exports, GeminiAgrees(c, t), NEW cs \in Seq(CandidateTypes)
  PROVE  <<consumeResponse(c, cs), Tell(t, cs)>> \in GeminiPairs
<1>1. PICK n \in Nat : n = Len(cs) OBVIOUS
<1>2. \A k \in 1..n : cs[k] \in CandidateTypes BY <1>1
<1> DEFINE first == <<c, t>>
           Turn(p, k) == <<consumeCandidate(p[1], k, cs[k]), TellParts(p[2], k, cs[k].parts)>>
           step == [k \in 1..n |-> [p \in GeminiPairs |-> Turn(p, k)]]
           after[k \in 0..n] == IF k = 0 THEN c ELSE consumeCandidate(after[k - 1], k, cs[k])
           got[k \in 0..n] == IF k = 0 THEN t ELSE TellParts(got[k - 1], k, cs[k].parts)
<1>3. first \in GeminiPairs BY GeminiPair
<1>4. ASSUME NEW k \in 1..n, NEW p \in GeminiPairs PROVE Turn(p, k) \in GeminiPairs
  <2>1. p[1] \in GeminiCalls /\ p[2] \in Exports /\ GeminiAgrees(p[1], p[2]) BY DEF GeminiPairs
  <2> QED BY <1>2, <2>1, CandidateTurn
<1>5. PICK f : Loop(f, GeminiPairs, first, step, n)
  <2>1. step \in [1..n -> [GeminiPairs -> GeminiPairs]] BY <1>4
  <2> HIDE DEF step, first
  <2> QED BY <1>3, <2>1, LoopEnds
<1>6. f[0] = first /\ \A k \in 1..n : f[k] = Turn(f[k - 1], k)
  <2>1. f \in [0..n -> GeminiPairs] /\ f[0] = first /\ \A k \in 1..n : f[k] = step[k][f[k - 1]]
    <3> HIDE DEF step, first
    <3> QED BY <1>5 DEF Loop
  <2>2. ASSUME NEW k \in 1..n PROVE f[k] = Turn(f[k - 1], k)
    <3>1. k - 1 \in 0..n OBVIOUS
    <3>2. f[k - 1] \in GeminiPairs BY <2>1, <3>1
    <3>3. f[k] = step[k][f[k - 1]] BY <2>1
    <3> HIDE DEF Turn
    <3> QED BY <3>2, <3>3
  <2> QED BY <2>1, <2>2
<1>7. after = [k \in 0..n |-> IF k = 0 THEN c ELSE consumeCandidate(after[k - 1], k, cs[k])]
  <2> DEFINE g == [k \in 0..n |-> f[k][1]]
  <2>3. f[0][1] = c BY <1>6
  <2>4. \A k \in 1..n : f[k][1] = consumeCandidate(f[k - 1][1], k, cs[k])
    <3> TAKE k \in 1..n
    <3>1. f[k] = Turn(f[k - 1], k) BY <1>6
    <3> QED BY <3>1
  <2>5. \A k \in 0..n : g[k] = f[k][1] OBVIOUS
  <2>6. \A k \in 1..n : g[k] = consumeCandidate(g[k - 1], k, cs[k])
    <3> TAKE k \in 1..n
    <3>1. k \in 0..n /\ k - 1 \in 0..n OBVIOUS
    <3>2. g[k] = f[k][1] /\ g[k - 1] = f[k - 1][1] BY <2>5, <3>1
    <3> HIDE DEF g
    <3> QED BY <2>4, <3>2
  <2>7. g[0] = c BY <2>3, <2>5
  <2>8. g = [k \in 0..n |-> g[k]] OBVIOUS
  <2> HIDE DEF g
  <2>1. g = [k \in 0..n |-> IF k = 0 THEN c ELSE consumeCandidate(g[k - 1], k, cs[k])]
    <3>1. \A k \in 0..n : g[k] = IF k = 0 THEN c ELSE consumeCandidate(g[k - 1], k, cs[k])
      <4> TAKE k \in 0..n
      <4>1. CASE k = 0 BY <4>1, <2>7
      <4>2. CASE k # 0
        <5>1. k \in 1..n BY <4>2
        <5> QED BY <4>2, <5>1, <2>6
      <4> QED BY <4>1, <4>2
    <3> QED BY <3>1, <2>8
  <2> HIDE DEF g
  <2> QED BY <2>1
<1>8. got = [k \in 0..n |-> IF k = 0 THEN t ELSE TellParts(got[k - 1], k, cs[k].parts)]
  <2> DEFINE g == [k \in 0..n |-> f[k][2]]
  <2>3. f[0][2] = t BY <1>6
  <2>4. \A k \in 1..n : f[k][2] = TellParts(f[k - 1][2], k, cs[k].parts)
    <3> TAKE k \in 1..n
    <3>1. f[k] = Turn(f[k - 1], k) BY <1>6
    <3> QED BY <3>1
  <2>5. \A k \in 0..n : g[k] = f[k][2] OBVIOUS
  <2>6. \A k \in 1..n : g[k] = TellParts(g[k - 1], k, cs[k].parts)
    <3> TAKE k \in 1..n
    <3>1. k \in 0..n /\ k - 1 \in 0..n OBVIOUS
    <3>2. g[k] = f[k][2] /\ g[k - 1] = f[k - 1][2] BY <2>5, <3>1
    <3> HIDE DEF g
    <3> QED BY <2>4, <3>2
  <2>7. g[0] = t BY <2>3, <2>5
  <2>8. g = [k \in 0..n |-> g[k]] OBVIOUS
  <2> HIDE DEF g
  <2>1. g = [k \in 0..n |-> IF k = 0 THEN t ELSE TellParts(g[k - 1], k, cs[k].parts)]
    <3>1. \A k \in 0..n : g[k] = IF k = 0 THEN t ELSE TellParts(g[k - 1], k, cs[k].parts)
      <4> TAKE k \in 0..n
      <4>1. CASE k = 0 BY <4>1, <2>7
      <4>2. CASE k # 0
        <5>1. k \in 1..n BY <4>2
        <5> QED BY <4>2, <5>1, <2>6
      <4> QED BY <4>1, <4>2
    <3> QED BY <3>1, <2>8
  <2> HIDE DEF g
  <2> QED BY <2>1
<1>9. consumeResponse(c, cs) = after[n] /\ Tell(t, cs) = got[n] BY <1>1 DEF consumeResponse, Tell
<1> HIDE DEF after, got
<1>10. after[0] = c /\ got[0] = t BY <1>7, <1>8
<1>11. ASSUME NEW k \in 1..n, <<after[k - 1], got[k - 1]>> \in GeminiPairs
       PROVE  <<after[k], got[k]>> \in GeminiPairs
  <2>1. k \in 0..n /\ k # 0 OBVIOUS
  <2>2. after[k] = consumeCandidate(after[k - 1], k, cs[k]) BY <2>1, <1>7
  <2>3. got[k] = TellParts(got[k - 1], k, cs[k].parts) BY <2>1, <1>8
  <2>4. Turn(<<after[k - 1], got[k - 1]>>, k) \in GeminiPairs
    <3> HIDE DEF Turn
    <3> QED BY <1>11, <1>4
  <2> QED BY <2>2, <2>3, <2>4
<1>12. <<after[n], got[n]>> \in GeminiPairs BY <1>3, <1>10, <1>11, LoopsAgree
<1> QED BY <1>9, <1>12

LEMMA GeminiReasonsLoop ==
  ASSUME NEW c \in GeminiCalls, NEW t \in Exports, GeminiAgrees(c, t), NEW cs \in Seq(CandidateTypes)
  PROVE  <<RetainReasons(c, cs), t>> \in GeminiPairs
<1>1. PICK n \in Nat : n = Len(cs) OBVIOUS
<1>2. \A k \in 1..n : cs[k].reason \in Nat
  <2>1. \A k \in 1..n : cs[k] \in CandidateTypes BY <1>1
  <2> QED BY <2>1 DEF CandidateTypes
<1> DEFINE X == {d \in GeminiCalls : GeminiAgrees(d, t)}
           step == [k \in 1..n |-> [d \in X |-> retainFinishReason(d, cs[k].reason)]]
           after[k \in 0..n] == IF k = 0 THEN c ELSE retainFinishReason(after[k - 1], cs[k].reason)
<1>3. c \in X OBVIOUS
<1>4. ASSUME NEW k \in 1..n, NEW d \in X PROVE retainFinishReason(d, cs[k].reason) \in X
  BY <1>2, GeminiReason, GeminiPair
<1>5. PICK f : Loop(f, X, c, step, n)
  <2>1. step \in [1..n -> [X -> X]] BY <1>4
  <2> HIDE DEF step, X
  <2> QED BY <1>3, <2>1, LoopEnds
<1>6. f[0] = c /\ \A k \in 1..n : f[k] = retainFinishReason(f[k - 1], cs[k].reason)
  <2>1. f \in [0..n -> X] /\ f[0] = c /\ \A k \in 1..n : f[k] = step[k][f[k - 1]]
    <3> HIDE DEF step, X
    <3> QED BY <1>5 DEF Loop
  <2> HIDE DEF X
  <2>2. ASSUME NEW k \in 1..n PROVE f[k] = retainFinishReason(f[k - 1], cs[k].reason)
    <3>1. k - 1 \in 0..n OBVIOUS
    <3>2. f[k - 1] \in X BY <2>1, <3>1
    <3>3. f[k] = step[k][f[k - 1]] BY <2>1
    <3> QED BY <3>2, <3>3
  <2> QED BY <2>1, <2>2
<1>7. after = [k \in 0..n |-> IF k = 0 THEN c ELSE retainFinishReason(after[k - 1], cs[k].reason)]
  <2> DEFINE g == [k \in 0..n |-> f[k]]
  <2>3. f[0] = c BY <1>6
  <2>4. \A k \in 1..n : f[k] = retainFinishReason(f[k - 1], cs[k].reason) BY <1>6
  <2>5. \A k \in 0..n : g[k] = f[k] OBVIOUS
  <2>6. \A k \in 1..n : g[k] = retainFinishReason(g[k - 1], cs[k].reason)
    <3> TAKE k \in 1..n
    <3>1. k \in 0..n /\ k - 1 \in 0..n OBVIOUS
    <3>2. g[k] = f[k] /\ g[k - 1] = f[k - 1] BY <2>5, <3>1
    <3> HIDE DEF g
    <3> QED BY <2>4, <3>2
  <2>7. g[0] = c BY <2>3, <2>5
  <2>8. g = [k \in 0..n |-> g[k]] OBVIOUS
  <2> HIDE DEF g
  <2>1. g = [k \in 0..n |-> IF k = 0 THEN c ELSE retainFinishReason(g[k - 1], cs[k].reason)]
    <3>1. \A k \in 0..n : g[k] = IF k = 0 THEN c ELSE retainFinishReason(g[k - 1], cs[k].reason)
      <4> TAKE k \in 0..n
      <4>1. CASE k = 0 BY <4>1, <2>7
      <4>2. CASE k # 0
        <5>1. k \in 1..n BY <4>2
        <5> QED BY <4>2, <5>1, <2>6
      <4> QED BY <4>1, <4>2
    <3> QED BY <3>1, <2>8
  <2> HIDE DEF g
  <2> QED BY <2>1
<1>8. RetainReasons(c, cs) = after[n] BY <1>1 DEF RetainReasons
<1> HIDE DEF after, X
<1>9. after[0] \in X BY <1>3, <1>7
<1>10. ASSUME NEW k \in 1..n, after[k - 1] \in X PROVE after[k] \in X
  <2>1. k \in 0..n /\ k # 0 OBVIOUS
  <2>2. after[k] = retainFinishReason(after[k - 1], cs[k].reason) BY <2>1, <1>7
  <2> QED BY <2>2, <1>10, <1>4
<1>11. \A k \in 0..n : after[k] \in X BY <1>9, <1>10, LoopStays
<1>12. after[n] \in X BY <1>11
<1> QED BY <1>8, <1>12, GeminiPair DEF X

(* A step of the parser on a chunk or on a body.                           *)
LEMMA AnswerTurn ==
  ASSUME NEW c \in GeminiCalls, NEW t \in Exports, GeminiAgrees(c, t), NEW e \in Answers
  PROVE  <<FeedAnswer(c, e), IF e.type = "chunk" THEN Tell(t, e.candidates) ELSE t>> \in GeminiPairs
<1>1. e.type \in {"garbled", "error", "chunk"} /\ e.candidates \in Seq(CandidateTypes) BY AnswersAssumption
<1>2. PICK d : d = [c EXCEPT !.stream = TRUE] OBVIOUS
<1>3. d \in GeminiCalls /\ d.over = c.over /\ d.kept = c.kept BY <1>2 DEF GeminiCalls
<1>4. GeminiAgrees(d, t) BY <1>3 DEF GeminiAgrees
<1>5. CASE e.type = "chunk"
  <2>1. FeedAnswer(c, e) = consumeResponse(d, e.candidates) BY <1>2, <1>5 DEF FeedAnswer
  <2>2. <<consumeResponse(d, e.candidates), Tell(t, e.candidates)>> \in GeminiPairs
    BY <1>1, <1>3, <1>4, CandidatesLoop
  <2> QED BY <2>1, <2>2, <1>5
<1>6. CASE e.type = "garbled"
  <2>1. FeedAnswer(c, e) = GeminiPartial(d) BY <1>2, <1>6 DEF FeedAnswer
  <2> QED BY <2>1, <1>3, <1>4, <1>6, GeminiDrops
<1>7. CASE e.type = "error"
  <2>1. PICK g : g = FeedAnswer(c, e) OBVIOUS
  <2>2. g = [d EXCEPT !.error = TRUE] BY <1>2, <1>7, <2>1 DEF FeedAnswer
  <2>3. g \in GeminiCalls /\ g.over = d.over /\ g.kept = d.kept BY <1>3, <2>2 DEF GeminiCalls
  <2>4. GeminiAgrees(g, t) BY <1>4, <2>3 DEF GeminiAgrees
  <2> QED BY <1>7, <2>1, <2>3, <2>4, GeminiPair
<1> QED BY <1>1, <1>5, <1>6, <1>7

LEMMA WholeTurn ==
  ASSUME NEW c \in GeminiCalls, NEW t \in Exports, GeminiAgrees(c, t), NEW e \in Answers
  PROVE  <<FinishAnswer(c, e), t>> \in GeminiPairs
<1>1. e.type \in {"garbled", "error", "chunk"} /\ e.candidates \in Seq(CandidateTypes) BY AnswersAssumption
<1>2. PICK d : d = FinishAnswer(c, e) OBVIOUS
<1>3. CASE e.type = "garbled"
  <2>1. d = GeminiPartial(c) BY <1>2, <1>3 DEF FinishAnswer
  <2> QED BY <2>1, <1>2, GeminiDrops
<1>4. CASE e.type \in {"error", "chunk"}
  <2>1. PICK g : g = IF e.type = "chunk" THEN RetainReasons(c, e.candidates) ELSE c OBVIOUS
  <2>2. g \in GeminiCalls /\ GeminiAgrees(g, t) BY <2>1, <1>1, GeminiReasonsLoop, GeminiPair
  <2>3. PICK b \in BOOLEAN : b = (e.type = "chunk" => \E n \in DOMAIN e.candidates : e.candidates[n].parts # <<>>)
    OBVIOUS
  <2>4. d = [g EXCEPT !.unary = b] BY <1>2, <1>4, <2>1, <2>3 DEF FinishAnswer
  <2>5. d \in GeminiCalls /\ d.over = g.over /\ d.kept = g.kept BY <2>2, <2>4 DEF GeminiCalls
  <2>6. GeminiAgrees(d, t) BY <2>2, <2>5 DEF GeminiAgrees
  <2> QED BY <1>2, <2>5, <2>6, GeminiPair
<1> QED BY <1>1, <1>3, <1>4

(* The inductive invariant of the Gemini parser.                           *)
GeminiInv == <<gem, told>> \in GeminiPairs

(* The Gemini parser keeps what was sent, or nothing (FeedEvent, charge).  *)
THEOREM GeminiHolds == GeminiSpec => []GeminiInv
<1>1. GeminiInit => GeminiInv
  <2> SUFFICES ASSUME GeminiInit PROVE GeminiInv
    OBVIOUS
  <2>1. newGemini \in GeminiCalls /\ ~newGemini.over /\ newGemini.kept = Silent
    BY SilentTyped, GeminiBounds DEF newGemini, GeminiCalls
  <2>2. FirstOf(Silent.extras, Silent.extras) BY SilentTyped, GeminiBounds DEF FirstOf
  <2>3. GeminiAgrees(newGemini, Silent) BY <2>1, <2>2 DEF GeminiAgrees
  <2> QED BY <2>1, <2>3, SilentTyped, GeminiPair DEF GeminiInv, GeminiInit
<1>2. GeminiInv /\ [GeminiNext]_geminiVars => GeminiInv'
  <2> SUFFICES ASSUME GeminiInv, [GeminiNext]_geminiVars PROVE GeminiInv'
    OBVIOUS
  <2>1. gem \in GeminiCalls /\ told \in Exports /\ GeminiAgrees(gem, told) BY GeminiPair DEF GeminiInv
  <2>2. ASSUME NEW e \in Answers, Stream(e) PROVE GeminiInv'
    BY <2>1, <2>2, AnswerTurn DEF Stream, GeminiInv
  <2>3. ASSUME NEW e \in Answers, WholeAnswer(e) PROVE GeminiInv'
    BY <2>1, <2>3, WholeTurn DEF WholeAnswer, GeminiInv
  <2>4. CASE EndOfStream BY <2>4 DEF EndOfStream, GeminiInv
  <2>5. CASE UNCHANGED geminiVars BY <2>5 DEF geminiVars, GeminiInv
  <2> QED BY <2>2, <2>3, <2>4, <2>5 DEF GeminiNext
<1> QED BY <1>1, <1>2, PTL DEF GeminiSpec

(* The first of a sequence are its prefix.                                 *)
LEMMA FirstIsPrefix ==
  ASSUME NEW few \in Seq(PartTypes), NEW all \in Seq(PartTypes), FirstOf(few, all)
  PROVE  few = SubSeq(all, 1, Len(few))
<1>1. PICK n \in Nat : n = Len(few) OBVIOUS
<1>2. n <= Len(all) /\ \A i \in 1..n : few[i] = all[i] BY <1>1 DEF FirstOf
<1>3. PICK s : s = SubSeq(all, 1, n) OBVIOUS
<1>4. s \in Seq(PartTypes) /\ Len(s) = n /\ \A i \in 1..n : s[i] = all[i] BY <1>2, <1>3
<1> QED BY <1>1, <1>2, <1>3, <1>4

(* So the candidates' texts and parts are whole, as far as the limit on    *)
(* parts, or dropped entirely (charge, retainExtra).                       *)
THEOREM CandidatesWhole == GeminiSpec => []CandidatesWholeOrNothing
<1>1. GeminiInv => CandidatesWholeOrNothing
  <2> SUFFICES ASSUME GeminiInv PROVE CandidatesWholeOrNothing
    OBVIOUS
  <2>1. gem \in GeminiCalls /\ told \in Exports /\ GeminiAgrees(gem, told) BY GeminiPair DEF GeminiInv
  <2>2. CASE gem.over BY <2>1, <2>2 DEF GeminiAgrees, CandidatesWholeOrNothing
  <2>3. CASE ~gem.over
    <3>1. gem.kept.deltas = told.deltas /\ FirstOf(gem.kept.extras, told.extras) BY <2>1, <2>3 DEF GeminiAgrees
    <3>2. gem.kept.extras \in Seq(PartTypes) /\ told.extras \in Seq(PartTypes) BY <2>1 DEF GeminiCalls, Exports
    <3>3. gem.kept.extras = SubSeq(told.extras, 1, Len(gem.kept.extras)) BY <3>1, <3>2, FirstIsPrefix
    <3>4. gem.kept.extras = told.extras \/ Len(gem.kept.extras) = maxCandidates BY <3>1 DEF FirstOf
    <3> QED BY <2>3, <3>1, <3>3, <3>4 DEF CandidatesWholeOrNothing
  <2> QED BY <2>2, <2>3
<1> QED BY <1>1, GeminiHolds, PTL

(* Streamed output is whole or absent, as far as each parser takes it, for *)
(* any chunks of any choices, tool calls, candidates and parts and any     *)
(* budget (both charge functions).                                         *)
THEOREM OutputsWhole == ChatSpec /\ GeminiSpec => []WholeOrNothing
BY ChoicesWhole, CandidatesWhole, PTL DEF WholeOrNothing

-----------------------------------------------------------------------------
(* One attempt through the wiretap                                         *)

(* Who has taken an outcome and is on its way to the observation. *)
Delivering(a) == actor[a].at \in {"snapshot", "result"}
Ended == {"complete", "failed", "incomplete", "canceled", "closedEarly"}
Errors == {"nil", "EOF", "canceled", "reset", "closed"}
Places == {"idle", "process", "terminal", "done read", "close", "snapshot", "result", "ended"}

Sending == [at : {"none", "open", "piece", "eof", "closing", "done"}, sent : 0..RequestPieces]
Recorder == [gen : 0..MaxSends, buf : Seq(Sends \X (1..RequestPieces)), overCap : BOOLEAN, closed : BOOLEAN,
             active : BOOLEAN, disabled : BOOLEAN]
Body == [mode : Modes \cup {"none", "unary", "sse", "ignore"}, finalized : BOOLEAN,
         panicked : {"no", "feeding", "finishing"}, json : {"blank", "open", "whole", "bad"},
         len : 0..ResponseCap, over : BOOLEAN, pending : BOOLEAN, discarded : BOOLEAN]
Actor == [at : Places, chunk : Chunks \cup {"none"}, err : Errors, outcome : Ended \cup {"none"},
          then : {"idle", "terminal", "done read", "ended"}]
Fates == {"none", "complete", "failed", "incomplete"}

(* The type of every variable, closer than TypeOK. *)
Types ==
  /\ phase \in {"new", "exchange", "response", "failed", "untapped"}
  /\ sampled \in BOOLEAN /\ ctxDone \in BOOLEAN /\ held \in BOOLEAN /\ rcClosed \in BOOLEAN
  /\ send \in [Sends -> Sending]
  /\ rec \in Recorder /\ Len(rec.buf) <= RequestCap
  /\ body \in Body
  /\ reads \in 0..MaxReads
  /\ actor \in [Actors -> Actor]
  /\ parser \in [fed : Nat, request : Seq(Seq(Sends \X (1..RequestPieces))), taken : BOOLEAN]
  /\ obs \in [updates : Nat, ends : Nat, wire : Ended \cup {"none"}, outcome : Ended \cup {"none"}]
  /\ seen \in [terminal : Fates, err : Errors]

(* The request recorder: what it holds is its newest transmission, unless it has
   given up, and the snapshot is of a recorder that takes no more. *)
Recording ==
  /\ \A g \in Sends : g > rec.gen => send[g] = NoSend
  /\ \A g \in Sends : send[g].at = "piece" => send[g].sent < RequestPieces
  /\ rec.gen = 0 => rec.buf = <<>> /\ ~rec.closed /\ ~rec.active
  /\ rec.closed => rec.gen > 0 /\ send[rec.gen].at = "done"
  /\ (rec.gen > 0 /\ ~rec.overCap /\ ~rec.disabled) =>
       /\ Len(rec.buf) = send[rec.gen].sent
       /\ \A i \in 1..Len(rec.buf) : rec.buf[i] = <<rec.gen, i>>
  /\ parser.request # <<>> => rec.disabled /\ rec.gen > 0 /\ Len(parser.request) = 1
  /\ (rec.disabled \/ parser.request # <<>>) => phase = "response"
  /\ phase = "new" => rec.gen = 0

(* Where each actor may stand, given the phase and who holds the body. *)
Standing ==
  /\ actor["reader"].at # "close"
  /\ \A a \in {"closer", "collector"} : actor[a].at \in {"idle", "close", "snapshot", "result", "ended"}
  /\ \A a \in Actors : Delivering(a) => actor[a].then \in IF a = "reader" THEN {"terminal", "done read"} ELSE {"ended"}
  /\ phase # "response" =>
       /\ \A a \in Actors : actor[a].at = "idle"
       /\ ~body.finalized /\ body.mode = "none" /\ ~parser.taken /\ ~held /\ seen.terminal = "none"
  /\ (phase = "response" /\ ~held) => actor["reader"].at \in {"idle", "ended"}
  /\ actor["collector"].at # "idle" => ~held

(* At most one outcome is under way or delivered. *)
Delivery ==
  /\ \A a, b \in Actors : Delivering(a) /\ Delivering(b) => a = b
  /\ \A a \in Actors : Delivering(a) => body.finalized /\ obs.ends = 0 /\ actor[a].outcome # "none"
  /\ obs.ends = 0 => obs.updates = 0 /\ obs.outcome = "none"
  /\ obs.ends <= 1 /\ obs.updates <= 1
  /\ obs.ends = 1 => phase = "failed" \/ body.finalized
  /\ parser.taken => obs.ends = 1 /\ body.finalized

(* A terminal chunk decides the outcome, but a completion may be judged by the parser. *)
Won(t) == obs.outcome = t \/ (t = "complete" /\ obs.outcome \in {"failed", "incomplete"})
Unopposed == actor["closer"].at = "idle" /\ body.panicked = "no"
TerminalChunk(chunk) == body.mode = "sse" /\ TerminalOf(chunk) # "none"

(* The reader: the terminal of its chunk is the outcome, unless somebody else ended
   the attempt or a parser panicked. *)
Reading ==
  LET r == actor["reader"] IN
  /\ r.at = "process" => r.chunk # "none"
  /\ r.at = "terminal" => r.err # "nil"
  /\ (Delivering("reader") /\ r.then = "terminal") => r.err # "nil"
  /\ r.at \in {"process", "terminal", "done read", "snapshot", "result"} => held /\ phase = "response"
  /\ (Unopposed /\ seen.terminal # "none") => Won(seen.terminal)
  /\ (Unopposed /\ seen.terminal = "none") =>
       /\ (TerminalChunk(r.chunk) /\ r.at \in {"terminal", "done read"}) => Won(TerminalOf(r.chunk))
       /\ (TerminalChunk(r.chunk) /\ Delivering("reader")) => r.outcome = TerminalOf(r.chunk)
       /\ (held /\ r.at \in {"idle", "process"}) => ~body.finalized
       /\ (r.err = "nil" /\ body.finalized /\ (r.at = "done read" \/ Delivering("reader"))) => TerminalChunk(r.chunk)

(* The inductive invariant of an attempt. *)
IInv == Types /\ Recording /\ Standing /\ Delivery /\ Reading /\ CaptureIsOneSend

USE DEF requestVars, bodyVars, Actors

-----------------------------------------------------------------------------
(* The chunks and the outcomes they may bear. *)
LEMMA ChunkTypes ==
  /\ Chunks = {"success", "failure", "incomplete", "oversizedSuccess", "event", "half", "oversized", "part", "last", "space"}
  /\ \A c \in Chunks \cup {"none"} : TerminalOf(c) \in Fates
<1>1. DOMAIN Terminals = {"success", "failure", "incomplete", "oversizedSuccess"}
  BY DEF Terminals
<1>2. /\ Terminals["success"] = "complete" /\ Terminals["failure"] = "failed" /\ Terminals["incomplete"] = "incomplete"
      /\ Terminals["oversizedSuccess"] = IF Salvages THEN "complete" ELSE "none"
  BY DEF Terminals
<1>3. Chunks = {"success", "failure", "incomplete", "oversizedSuccess", "event", "half", "oversized", "part", "last", "space"}
  BY <1>1 DEF Chunks, EventChunks, JsonChunks
<1>4. \A c \in Chunks \cup {"none"} : TerminalOf(c) \in Fates
  BY <1>1, <1>2, <1>3 DEF TerminalOf, Fates
<1> QED BY <1>3, <1>4

(* An actor that moves leaves the others where they are. *)
LEMMA GoesActor ==
  ASSUME actor \in [Actors -> Actor], NEW a \in Actors, NEW r \in Actor, Goes(a, r)
  PROVE  /\ actor' \in [Actors -> Actor]
         /\ actor'[a] = r
         /\ \A b \in Actors : b # a => actor'[b] = actor[b]
BY DEF Goes

(* Idle is a place of an actor. *)
LEMMA IdleActor == Idle \in Actor
BY DEF Idle, Actor, Places, Errors

(* capture keeps the body typed. *)
LEMMA CapturedBody ==
  ASSUME NEW b \in Body, NEW chunk \in Chunks
  PROVE  /\ Captured(b, chunk) \in Body
         /\ Captured(b, chunk).finalized = b.finalized
         /\ Captured(b, chunk).mode = b.mode
         /\ Captured(b, chunk).panicked = b.panicked
<1>0. ResponseCap \in Nat BY CapsAssumption
<1>1. CASE b.mode = "unary"
  <2>1. JsonAfter(b, chunk) \in {"blank", "open", "whole", "bad"}
    BY DEF JsonAfter, Body
  <2>2. PICK j \in {"blank", "open", "whole", "bad"} : j = JsonAfter(b, chunk)
    BY <2>1
  <2>3. b.len \in 0..ResponseCap /\ b.over \in BOOLEAN BY DEF Body
  <2>4. \E l \in 0..ResponseCap : l = IF b.over \/ Overflows(b.len, ResponseCap) THEN 0 ELSE b.len + 1
    BY <1>0, <2>3 DEF Overflows
  <2>5. PICK l \in 0..ResponseCap : l = IF b.over \/ Overflows(b.len, ResponseCap) THEN 0 ELSE b.len + 1
    BY <2>4
  <2>6. \E o \in BOOLEAN : o = (b.over \/ Overflows(b.len, ResponseCap)) OBVIOUS
  <2>7. PICK o \in BOOLEAN : o = (b.over \/ Overflows(b.len, ResponseCap)) BY <2>6
  <2>8. Captured(b, chunk) = [b EXCEPT !.json = j, !.len = l, !.over = o]
    BY <1>1, <2>2, <2>5, <2>7 DEF Captured, Unary, Body
  <2> QED BY <2>8 DEF Body
<1>2. CASE b.mode = "sse"
  <2>1. \E p \in BOOLEAN : p = (chunk = "half") OBVIOUS
  <2>2. PICK p \in BOOLEAN : p = (chunk = "half") BY <2>1
  <2>3. \E d \in BOOLEAN : d = (b.discarded \/ (chunk \in Oversized /\ ~Salvages)) OBVIOUS
  <2>4. PICK d \in BOOLEAN : d = (b.discarded \/ (chunk \in Oversized /\ ~Salvages)) BY <2>3
  <2>5. Captured(b, chunk) = [b EXCEPT !.pending = p, !.discarded = d]
    BY <1>2, <2>2, <2>4 DEF Captured, Fed, Body
  <2> QED BY <2>5 DEF Body
<1>3. CASE b.mode \notin {"unary", "sse"}
  <2>1. \E p \in BOOLEAN : p = (b.pending \/ chunk = "half") OBVIOUS
  <2>2. PICK p \in BOOLEAN : p = (b.pending \/ chunk = "half") BY <2>1
  <2>3. Captured(b, chunk) = [b EXCEPT !.pending = p]
    BY <1>3, <2>2 DEF Captured, Body
  <2> QED BY <2>3 DEF Body
<1> QED BY <1>1, <1>2, <1>3

-----------------------------------------------------------------------------
(* The request: what the recorder has is the newest transmission so far.   *)

(* The invariant holds of a new attempt. *)
LEMMA InitHolds == ASSUME Init PROVE IInv
<1>0. /\ MaxSends \in Nat /\ MaxReads \in Nat /\ RequestCap \in Nat /\ ResponseCap \in Nat /\ RequestPieces \in Nat
  BY CapsAssumption
<1>1. NoSend \in Sending BY <1>0 DEF NoSend, Sending
<1>2. send \in [Sends -> Sending] /\ \A g \in Sends : send[g] = NoSend
  BY <1>1 DEF Init
<1>3. actor \in [Actors -> Actor] /\ \A a \in Actors : actor[a] = Idle
  BY IdleActor DEF Init
<1>4. rec \in Recorder /\ Len(rec.buf) <= RequestCap /\ rec.gen = 0 /\ rec.buf = <<>> /\ ~rec.closed /\ ~rec.active /\ ~rec.disabled
  BY <1>0 DEF Init, Recorder
<1>5. body \in Body /\ ~body.finalized /\ body.mode = "none" /\ body.panicked = "no"
  BY <1>0 DEF Init, Body
<1>6. /\ parser \in [fed : Nat, request : Seq(Seq(Sends \X (1..RequestPieces))), taken : BOOLEAN]
      /\ parser.request = <<>> /\ ~parser.taken
  BY DEF Init
<1>7. /\ obs \in [updates : Nat, ends : Nat, wire : Ended \cup {"none"}, outcome : Ended \cup {"none"}]
      /\ obs.ends = 0 /\ obs.updates = 0 /\ obs.outcome = "none"
  BY DEF Init
<1>8. seen \in [terminal : Fates, err : Errors] /\ seen.terminal = "none"
  BY DEF Init, Fates, Errors
<1>9. /\ phase = "new" /\ sampled \in BOOLEAN /\ ctxDone \in BOOLEAN /\ held \in BOOLEAN /\ rcClosed \in BOOLEAN
      /\ reads \in 0..MaxReads /\ held = FALSE
  <2>1. reads \in 0..MaxReads BY <1>0 DEF Init
  <2> QED BY <2>1 DEF Init
<1>10. Types BY <1>2, <1>3, <1>4, <1>5, <1>6, <1>7, <1>8, <1>9 DEF Types
<1>11. Recording BY <1>2, <1>4, <1>6, <1>9 DEF Recording, NoSend
<1>12. \A a \in Actors : actor[a].at = "idle" BY <1>3 DEF Idle
<1>13. Standing BY <1>5, <1>6, <1>8, <1>9, <1>12 DEF Standing, Delivering
<1>14. Delivery BY <1>5, <1>6, <1>7, <1>12 DEF Delivery, Delivering
<1>15. actor["reader"] = Idle BY <1>3
<1>16. Reading BY <1>5, <1>8, <1>9, <1>15 DEF Reading, Delivering, Idle, TerminalChunk, Won
<1>17. CaptureIsOneSend BY <1>6 DEF CaptureIsOneSend
<1> QED BY <1>10, <1>11, <1>13, <1>14, <1>16, <1>17 DEF IInv

(* A step of the request alone keeps what is about the response. *)
LEMMA FrameAttempt ==
  ASSUME IInv, UNCHANGED <<phase, bodyVars, parser, obs>>
  PROVE  Standing' /\ Delivery' /\ Reading'
<1>1. Standing' BY DEF IInv, Standing, Delivering
<1>2. Delivery' BY DEF IInv, Delivery, Delivering
<1>3. Reading' BY DEF IInv, Reading, Delivering, Won, Unopposed, TerminalChunk, TerminalOf
<1> QED BY <1>1, <1>2, <1>3

(* A step that leaves the recorder and the parser's request alone keeps the capture. *)
LEMMA FrameRequest ==
  ASSUME IInv, UNCHANGED <<phase, requestVars>>, parser'.request = parser.request
  PROVE  Recording' /\ CaptureIsOneSend'
<1>1. Recording' BY DEF IInv, Recording
<1>2. CaptureIsOneSend' BY DEF IInv, CaptureIsOneSend
<1> QED BY <1>1, <1>2

LEMMA NewGeneration ==
  ASSUME IInv, NEW g \in Sends, g > rec.gen, newGeneration(g), ~rec.disabled,
         parser' = parser, parser.request = <<>>, phase' # "new"
  PROVE  /\ rec' \in Recorder /\ Len(rec'.buf) <= RequestCap /\ send' \in [Sends -> Sending]
         /\ Recording' /\ CaptureIsOneSend'
<1>0. /\ MaxSends \in Nat /\ RequestCap \in Nat /\ RequestPieces \in Nat
  BY CapsAssumption
<1>1. rec \in Recorder /\ send \in [Sends -> Sending] BY DEF IInv, Types
<1>2. /\ rec' = [rec EXCEPT !.gen = g, !.buf = <<>>, !.overCap = FALSE, !.closed = FALSE, !.active = TRUE]
      /\ send' = [send EXCEPT ![g] = [NoSend EXCEPT !.at = "open"]]
  BY DEF newGeneration
<1>3. g \in 0..MaxSends /\ g > 0 /\ g \in Nat BY <1>0 DEF Sends
<1>4. /\ rec' \in Recorder /\ rec'.gen = g /\ rec'.buf = <<>> /\ ~rec'.overCap /\ ~rec'.closed /\ ~rec'.disabled
  <2>1. <<>> \in Seq(Sends \X (1..RequestPieces)) OBVIOUS
  <2>2. rec' = [gen |-> g, buf |-> <<>>, overCap |-> FALSE, closed |-> FALSE, active |-> TRUE, disabled |-> rec.disabled]
    BY <1>1, <1>2 DEF Recorder
  <2>3. rec.disabled \in BOOLEAN BY <1>1 DEF Recorder
  <2>4. rec' \in Recorder BY <2>1, <2>2, <2>3, <1>3 DEF Recorder
  <2> QED BY <2>2, <2>4
<1>5. [NoSend EXCEPT !.at = "open"] = [at |-> "open", sent |-> 0] BY DEF NoSend
<1>6. [at |-> "open", sent |-> 0] \in Sending BY <1>0 DEF Sending
<1>7. /\ send' \in [Sends -> Sending] /\ send'[g] = [at |-> "open", sent |-> 0]
      /\ \A h \in Sends : h # g => send'[h] = send[h]
  BY <1>1, <1>2, <1>5, <1>6
<1>8. \A h \in Sends : h > g => h > rec.gen BY <1>0, <1>1, <1>3 DEF Sends, Recorder
<1>9. \A h \in Sends : h > g => h # g BY <1>3 DEF Sends
<1>10. \A h \in Sends : h > g => send'[h] = NoSend BY <1>7, <1>8, <1>9 DEF IInv, Recording
<1>11. \A h \in Sends : send'[h].at = "piece" => send'[h].sent < RequestPieces BY <1>7 DEF IInv, Recording
<1>12. Recording' BY <1>3, <1>4, <1>7, <1>10, <1>11 DEF IInv, Recording
<1>13. CaptureIsOneSend' BY DEF CaptureIsOneSend
<1>14. Len(rec'.buf) <= RequestCap BY <1>0, <1>4
<1> QED BY <1>4, <1>7, <1>12, <1>13, <1>14

LEMMA StepBegin == ASSUME IInv, Begin PROVE IInv'
<1>0. 1 \in Sends BY CapsAssumption DEF Sends
<1> USE DEF Begin
<1>1. /\ phase = "new" /\ phase' \in {"untapped", "exchange"} /\ UNCHANGED <<sampled, ctxDone, bodyVars, parser, obs>>
  OBVIOUS
<1>2. Standing'
  <2>1. phase # "response" /\ phase' # "response" BY <1>1
  <2>2. UNCHANGED <<body, actor, parser, held, seen>> BY <1>1
  <2>3. /\ \A a \in Actors : actor[a].at = "idle"
        /\ ~body.finalized /\ body.mode = "none" /\ ~parser.taken /\ ~held /\ seen.terminal = "none"
    BY <2>1 DEF IInv, Standing
  <2>4. /\ \A a \in Actors : actor'[a].at = "idle"
        /\ ~body'.finalized /\ body'.mode = "none" /\ ~parser'.taken /\ ~held' /\ seen'.terminal = "none"
    BY <2>2, <2>3
  <2>5. \A a \in Actors : ~Delivering(a)' BY <2>4 DEF Delivering
  <2> QED BY <2>1, <2>4, <2>5 DEF Standing
<1>3. Delivery' BY <1>1 DEF IInv, Delivery, Delivering, Standing
<1>4. Reading' BY <1>1 DEF IInv, Reading, Delivering, Won, Unopposed, TerminalChunk, TerminalOf, Standing
<1>5. ~rec.disabled /\ parser.request = <<>> BY <1>1 DEF IInv, Recording
<1>6. CASE UNCHANGED requestVars
  <2>1. Types' BY <1>1, <1>6 DEF IInv, Types
  <2>2. Recording' BY <1>1, <1>5, <1>6 DEF IInv, Recording
  <2>3. CaptureIsOneSend' BY <1>1, <1>5 DEF CaptureIsOneSend
  <2> QED BY <2>1, <2>2, <2>3, <1>2, <1>3, <1>4 DEF IInv
<1>7. CASE newGeneration(1)
  <2>0. 1 > rec.gen BY <1>1 DEF IInv, Recording
  <2>1. /\ rec' \in Recorder /\ Len(rec'.buf) <= RequestCap /\ send' \in [Sends -> Sending]
        /\ Recording' /\ CaptureIsOneSend'
    BY <1>0, <1>1, <1>5, <1>7, <2>0, NewGeneration
  <2>2. Types' BY <1>1, <2>1 DEF IInv, Types
  <2> QED BY <2>1, <2>2, <1>2, <1>3, <1>4 DEF IInv
<1> QED BY <1>6, <1>7

LEMMA StepGetBody == ASSUME IInv, GetBody PROVE IInv'
<1>0. MaxSends \in Nat BY CapsAssumption
<1> USE DEF GetBody
<1>1. /\ phase = "exchange" /\ rec.gen < MaxSends /\ newGeneration(rec.gen + 1)
      /\ UNCHANGED <<phase, sampled, ctxDone, bodyVars, parser, obs>>
  OBVIOUS
<1>2. rec.gen \in 0..MaxSends BY DEF IInv, Types, Recorder
<1>3. rec.gen + 1 \in Sends /\ rec.gen + 1 > rec.gen BY <1>0, <1>1, <1>2 DEF Sends
<1>4. ~rec.disabled /\ parser.request = <<>> BY <1>1 DEF IInv, Recording
<1>5. /\ rec' \in Recorder /\ Len(rec'.buf) <= RequestCap /\ send' \in [Sends -> Sending]
      /\ Recording' /\ CaptureIsOneSend'
  BY <1>1, <1>3, <1>4, NewGeneration
<1>6. Types' BY <1>1, <1>5 DEF IInv, Types
<1> QED BY <1>1, <1>5, <1>6, FrameAttempt DEF IInv

(* A step of a transmission: its record, and the recorder unless it is the *)
(* newest one's piece or end.                                              *)
LEMMA OneSend ==
  ASSUME IInv, NEW g \in Sends, NEW x \in Sending, send' = [send EXCEPT ![g] = x],
         send[g].at # "none", send[g].at # "done", ~rec.disabled
  PROVE  /\ send' \in [Sends -> Sending] /\ send'[g] = x
         /\ \A h \in Sends : h # g => send'[h] = send[h]
         /\ g <= rec.gen /\ rec.gen > 0 /\ rec.gen \in Sends /\ parser.request = <<>>
         /\ \A h \in Sends : h > rec.gen => send'[h] = NoSend
<1>0. MaxSends \in Nat BY CapsAssumption
<1>1. rec.gen \in 0..MaxSends BY DEF IInv, Types, Recorder
<1>2. send \in [Sends -> Sending] BY DEF IInv, Types
<1>3. NoSend.at = "none" BY DEF NoSend
<1>4. ~(g > rec.gen) BY <1>3 DEF IInv, Recording
<1>5. g <= rec.gen /\ rec.gen > 0 /\ rec.gen \in Sends BY <1>0, <1>1, <1>4 DEF Sends
<1>6. \A h \in Sends : h > rec.gen => h # g BY <1>1, <1>4
<1>7. /\ send' \in [Sends -> Sending] /\ send'[g] = x
      /\ \A h \in Sends : h # g => send'[h] = send[h]
  BY <1>2
<1>8. \A h \in Sends : h > rec.gen => send'[h] = NoSend BY <1>6, <1>7 DEF IInv, Recording
<1> QED BY <1>5, <1>7, <1>8 DEF IInv, Recording

LEMMA SendFields ==
  ASSUME IInv, NEW g \in Sends
  PROVE  /\ send[g] \in Sending /\ send[g].sent \in 0..RequestPieces
         /\ send[g] = [at |-> send[g].at, sent |-> send[g].sent]
BY DEF IInv, Types, Sending

LEMMA MovesOn ==
  ASSUME IInv, NEW g \in Sends, NEW at
  PROVE  [send EXCEPT ![g].at = at] = [send EXCEPT ![g] = [at |-> at, sent |-> send[g].sent]]
<1>1. [send[g] EXCEPT !.at = at] = [at |-> at, sent |-> send[g].sent]
  <2>1. PICK x, n : send[g] = [at |-> x, sent |-> n] /\ n = send[g].sent BY SendFields
  <2>2. [send[g] EXCEPT !.at = at] = [at |-> at, sent |-> n] BY <2>1
  <2> QED BY <2>1, <2>2
<1> QED BY <1>1

LEMMA StepTransmit == ASSUME IInv, NEW g \in Sends, Transmit(g) PROVE IInv'
<1>0. MaxSends \in Nat /\ RequestPieces \in Nat /\ RequestCap \in Nat BY CapsAssumption
<1>1. ~rec.disabled /\ UNCHANGED <<phase, sampled, ctxDone, bodyVars, parser, obs>>
  BY DEF Transmit, SendRead, observe, SendClose, markClosed
<1>2. PICK n : n = send[g].sent OBVIOUS
<1>3. n \in 0..RequestPieces BY <1>2, SendFields
<1>4. rec \in Recorder /\ Len(rec.buf) <= RequestCap BY DEF IInv, Types
<1>5. SUFFICES rec' \in Recorder /\ Len(rec'.buf) <= RequestCap /\ send' \in [Sends -> Sending] /\ Recording' /\ CaptureIsOneSend'
  <2>1. Types' BY <1>1, <1>5 DEF IInv, Types
  <2> QED BY <1>1, <1>5, <2>1, FrameAttempt DEF IInv
<1>6. parser.request = <<>> BY <1>1 DEF IInv, Recording
<1>7. CaptureIsOneSend' BY <1>1, <1>6 DEF CaptureIsOneSend
<1>8. ASSUME NEW x \in Sending, send' = [send EXCEPT ![g] = x], rec' = rec, x.sent = n,
             send[g].at # "none", send[g].at # "done", x.at = "piece" => n < RequestPieces
      PROVE  send' \in [Sends -> Sending] /\ Recording'
  <2>1. /\ send' \in [Sends -> Sending] /\ send'[g] = x
        /\ \A h \in Sends : h # g => send'[h] = send[h]
        /\ g <= rec.gen /\ rec.gen > 0 /\ rec.gen \in Sends /\ parser.request = <<>>
        /\ \A h \in Sends : h > rec.gen => send'[h] = NoSend
    BY <1>1, <1>8, OneSend
  <2>2. send'[rec.gen].sent = send[rec.gen].sent BY <1>2, <1>8, <2>1
  <2>3. rec.closed => rec.gen # g BY <1>8 DEF IInv, Recording
  <2>4. rec.closed => send'[rec.gen].at = "done" BY <2>1, <2>3 DEF IInv, Recording
  <2>5. \A h \in Sends : send'[h].at = "piece" => send'[h].sent < RequestPieces
    BY <1>8, <2>1 DEF IInv, Recording
  <2>6. Recording' BY <1>1, <1>8, <2>1, <2>2, <2>4, <2>5 DEF IInv, Recording
  <2> QED BY <2>1, <2>6
<1>9. CASE SendRead(g)
  <2>1. PICK at \in {"eof", "piece"} : /\ send' = [send EXCEPT ![g] = [at |-> at, sent |-> n]]
                                       /\ at = "piece" => n # RequestPieces
    <3>1. PICK at \in {"eof", "piece"} : /\ send' = [send EXCEPT ![g].at = at]
                                         /\ at = "piece" => n # RequestPieces
      BY <1>2, <1>9 DEF SendRead
    <3> QED BY <1>2, <3>1, MovesOn
  <2>2. [at |-> at, sent |-> n] \in Sending BY <1>3, <2>1 DEF Sending
  <2>3. at = "piece" => n < RequestPieces BY <1>0, <1>3, <2>1
  <2>4. send[g].at = "open" /\ rec' = rec BY <1>9 DEF SendRead
  <2> QED BY <2>1, <2>2, <2>3, <2>4, <1>4, <1>7, <1>8
<1>10. CASE SendClose(g)
  <2>1. send' = [send EXCEPT ![g] = [at |-> "closing", sent |-> n]]
    BY <1>2, <1>10, MovesOn DEF SendClose
  <2>2. [at |-> "closing", sent |-> n] \in Sending BY <1>3 DEF Sending
  <2>4. send[g].at = "open" /\ rec' = rec BY <1>10 DEF SendClose
  <2> QED BY <2>1, <2>2, <2>4, <1>4, <1>7, <1>8
<1>11. CASE markClosed(g)
  <2>1. send' = [send EXCEPT ![g] = [at |-> "done", sent |-> n]]
    BY <1>2, <1>11, MovesOn DEF markClosed
  <2>2. [at |-> "done", sent |-> n] \in Sending BY <1>3 DEF Sending
  <2>3. send[g].at \in {"eof", "closing"} BY <1>11 DEF markClosed
  <2>4. /\ send' \in [Sends -> Sending] /\ send'[g] = [at |-> "done", sent |-> n]
        /\ \A h \in Sends : h # g => send'[h] = send[h]
        /\ g <= rec.gen /\ rec.gen > 0 /\ rec.gen \in Sends /\ parser.request = <<>>
        /\ \A h \in Sends : h > rec.gen => send'[h] = NoSend
    BY <1>1, <2>1, <2>2, <2>3, OneSend
  <2>5. \E c \in BOOLEAN : c = (rec.closed \/ g = rec.gen) OBVIOUS
  <2>6. PICK c \in BOOLEAN : c = (rec.closed \/ g = rec.gen) BY <2>5
  <2>7. rec' = [rec EXCEPT !.closed = c] BY <1>11, <2>6 DEF markClosed, Completes
  <2>8. /\ rec' \in Recorder /\ rec'.closed = c /\ rec'.gen = rec.gen /\ rec'.buf = rec.buf
        /\ rec'.overCap = rec.overCap /\ rec'.disabled = rec.disabled /\ rec'.active = rec.active
    BY <1>4, <2>7 DEF Recorder
  <2>9. send'[rec.gen].sent = send[rec.gen].sent BY <1>2, <2>4
  <2>10. c => send'[rec.gen].at = "done"
    <3>1. CASE g = rec.gen BY <2>4, <3>1
    <3>2. CASE g # rec.gen /\ rec.closed BY <2>4, <3>2 DEF IInv, Recording
    <3> QED BY <2>6, <3>1, <3>2
  <2>11. \A h \in Sends : send'[h].at = "piece" => send'[h].sent < RequestPieces
    BY <2>4 DEF IInv, Recording
  <2>12. Recording' BY <1>1, <2>4, <2>8, <2>9, <2>10, <2>11 DEF IInv, Recording
  <2> QED BY <1>4, <1>7, <2>4, <2>8, <2>12
<1>12. CASE observe(g)
  <2>1. send' = [send EXCEPT ![g] = [at |-> "open", sent |-> n + 1]] /\ send[g].at = "piece"
    BY <1>2, <1>12 DEF observe
  <2>2. n < RequestPieces BY <1>2, <2>1 DEF IInv, Recording
  <2>3. [at |-> "open", sent |-> n + 1] \in Sending BY <1>0, <1>3, <2>2 DEF Sending
  <2>4. /\ send' \in [Sends -> Sending] /\ send'[g] = [at |-> "open", sent |-> n + 1]
        /\ \A h \in Sends : h # g => send'[h] = send[h]
        /\ g <= rec.gen /\ rec.gen > 0 /\ rec.gen \in Sends /\ parser.request = <<>>
        /\ \A h \in Sends : h > rec.gen => send'[h] = NoSend
    BY <1>1, <2>1, <2>3, OneSend
  <2>5. \A h \in Sends : send'[h].at = "piece" => send'[h].sent < RequestPieces
    BY <2>4 DEF IInv, Recording
  <2>6. rec.closed => send'[rec.gen].at = "done" /\ rec.gen # g BY <2>1, <2>4 DEF IInv, Recording
  <2>7. CASE ~Observes(g)
    <3>1. rec' = rec BY <1>12, <2>7 DEF observe
    <3>2. ~rec.overCap => g # rec.gen BY <1>1, <2>7 DEF Observes
    <3>3. ~rec.overCap => send'[rec.gen].sent = send[rec.gen].sent BY <2>4, <3>2
    <3>4. Recording' BY <1>1, <2>4, <2>5, <2>6, <3>1, <3>3 DEF IInv, Recording
    <3> QED BY <1>4, <1>7, <2>4, <3>1, <3>4
  <2>8. CASE Observes(g) /\ Overflows(Len(rec.buf), RequestCap)
    <3>1. rec' = [rec EXCEPT !.overCap = TRUE, !.buf = <<>>] BY <1>12, <2>8 DEF observe
    <3>2. <<>> \in Seq(Sends \X (1..RequestPieces)) OBVIOUS
    <3>3. /\ rec' \in Recorder /\ rec'.overCap /\ rec'.gen = rec.gen /\ rec'.buf = <<>>
          /\ rec'.closed = rec.closed /\ rec'.disabled = rec.disabled /\ rec'.active = rec.active
      BY <1>4, <3>1, <3>2 DEF Recorder
    <3>4. Recording' BY <1>1, <2>4, <2>5, <2>6, <3>3 DEF IInv, Recording
    <3>5. Len(rec'.buf) <= RequestCap BY <1>0, <3>3
    <3> QED BY <1>7, <2>4, <3>3, <3>4, <3>5
  <2>9. CASE Observes(g) /\ ~Overflows(Len(rec.buf), RequestCap)
    <3>1. rec' = [rec EXCEPT !.buf = Append(rec.buf, <<g, n + 1>>)] BY <1>2, <1>12, <2>9 DEF observe
    <3>2. n + 1 \in 1..RequestPieces BY <1>0, <1>3, <2>2
    <3>3. rec.buf \in Seq(Sends \X (1..RequestPieces)) BY <1>4 DEF Recorder
    <3>4. PICK s : s = Append(rec.buf, <<g, n + 1>>) OBVIOUS
    <3>5. s \in Seq(Sends \X (1..RequestPieces)) /\ Len(s) = Len(rec.buf) + 1 /\ Len(rec.buf) \in Nat
      BY <3>2, <3>3, <3>4
    <3>6. /\ rec' \in Recorder /\ rec'.overCap = rec.overCap /\ rec'.gen = rec.gen /\ rec'.buf = s
          /\ rec'.closed = rec.closed /\ rec'.disabled = rec.disabled /\ rec'.active = rec.active
      BY <1>4, <3>1, <3>4, <3>5 DEF Recorder
    <3>7. Len(s) <= RequestCap BY <1>0, <2>9, <3>5 DEF Overflows
    <3>8. g = rec.gen /\ ~rec.overCap BY <2>9 DEF Observes
    <3>9. Len(rec.buf) = n /\ \A i \in 1..Len(rec.buf) : rec.buf[i] = <<g, i>>
      BY <1>1, <1>2, <2>4, <3>8 DEF IInv, Recording
    <3>10. Len(s) = send'[rec.gen].sent BY <2>4, <3>5, <3>8, <3>9
    <3>11. \A i \in 1..Len(s) : s[i] = <<rec.gen, i>> BY <3>3, <3>4, <3>5, <3>8, <3>9
    <3>12. ~rec.closed BY <2>6, <3>8
    <3>13. Recording' BY <1>1, <2>4, <2>5, <3>6, <3>10, <3>11, <3>12 DEF IInv, Recording
    <3> QED BY <1>7, <2>4, <3>6, <3>7, <3>13
  <2> QED BY <2>7, <2>8, <2>9
<1> QED BY <1>1, <1>9, <1>10, <1>11, <1>12 DEF Transmit

-----------------------------------------------------------------------------
(* Outside the body: the context, and how the exchange ends.               *)

LEMMA StepContextEnds == ASSUME IInv, ContextEnds PROVE IInv'
<1>1. UNCHANGED <<phase, sampled, requestVars, bodyVars, parser, obs>> /\ ctxDone' \in BOOLEAN
  BY DEF ContextEnds
<1>2. Types' BY <1>1 DEF IInv, Types
<1> QED BY <1>1, <1>2, FrameAttempt, FrameRequest DEF IInv

LEMMA StepTransportError == ASSUME IInv, TransportError PROVE IInv'
<1>1. /\ phase = "exchange" /\ phase' = "failed" /\ UNCHANGED <<sampled, ctxDone, requestVars, bodyVars, parser>>
  BY DEF TransportError
<1>2. PICK o \in {"failed", "canceled"} :
        obs' = [updates |-> IF sampled THEN 1 ELSE 0, ends |-> 1, wire |-> o, outcome |-> o]
  BY DEF TransportError
<1>3. /\ obs' \in [updates : Nat, ends : Nat, wire : Ended \cup {"none"}, outcome : Ended \cup {"none"}]
      /\ obs'.ends = 1 /\ obs'.updates <= 1
  <2>1. PICK u \in {0, 1} : u = IF sampled THEN 1 ELSE 0 OBVIOUS
  <2>2. obs' = [updates |-> u, ends |-> 1, wire |-> o, outcome |-> o] BY <1>2, <2>1
  <2> QED BY <2>2 DEF Ended
<1>4. Types' BY <1>1, <1>3 DEF IInv, Types
<1>5. ~rec.disabled /\ parser.request = <<>> BY <1>1 DEF IInv, Recording
<1>6. Recording' BY <1>1, <1>5 DEF IInv, Recording
<1>7. CaptureIsOneSend' BY <1>1, <1>5 DEF CaptureIsOneSend
<1>8. /\ \A a \in Actors : actor'[a].at = "idle"
      /\ ~body'.finalized /\ body'.mode = "none" /\ ~parser'.taken /\ ~held' /\ seen'.terminal = "none"
  BY <1>1 DEF IInv, Standing
<1>9. \A a \in Actors : ~Delivering(a)' BY <1>8 DEF Delivering
<1>10. Standing' BY <1>1, <1>8, <1>9 DEF Standing
<1>11. Delivery' BY <1>1, <1>3, <1>8, <1>9 DEF Delivery
<1>12. Reading' BY <1>8, <1>9 DEF Reading, TerminalChunk
<1> QED BY <1>4, <1>6, <1>7, <1>10, <1>11, <1>12 DEF IInv

LEMMA StepNewBody == ASSUME IInv, newBodyWrapper PROVE IInv'
<1>1. /\ phase = "exchange" /\ phase' = "response" /\ held' = TRUE
      /\ UNCHANGED <<sampled, ctxDone, requestVars, reads, rcClosed, actor, seen, parser, obs>>
  BY DEF newBodyWrapper
<1>2. PICK m \in Modes \cup {"ignore"} : body' = [body EXCEPT !.mode = m]
  BY DEF newBodyWrapper
<1>3. body' \in Body /\ body'.finalized = body.finalized /\ body'.panicked = body.panicked
  BY <1>2 DEF IInv, Types, Body
<1>4. Types' BY <1>1, <1>3 DEF IInv, Types
<1>5. ~rec.disabled /\ parser.request = <<>> BY <1>1 DEF IInv, Recording
<1>6. Recording' BY <1>1, <1>5 DEF IInv, Recording
<1>7. CaptureIsOneSend' BY <1>1, <1>5 DEF CaptureIsOneSend
<1>8. /\ \A a \in Actors : actor'[a].at = "idle"
      /\ ~body'.finalized /\ ~parser'.taken /\ seen'.terminal = "none"
  BY <1>1, <1>3 DEF IInv, Standing
<1>9. \A a \in Actors : ~Delivering(a)' BY <1>8 DEF Delivering
<1>10. Standing' BY <1>1, <1>8, <1>9 DEF Standing
<1>11. Delivery'
  <2>1. obs.ends = 1 => FALSE BY <1>1 DEF IInv, Delivery, Standing
  <2> QED BY <1>1, <1>8, <1>9, <2>1 DEF Delivery, IInv
<1>12. Reading' BY <1>8, <1>9 DEF Reading
<1> QED BY <1>4, <1>6, <1>7, <1>10, <1>11, <1>12 DEF IInv

-----------------------------------------------------------------------------
(* The body: Read                                                          *)

LEMMA StepReadBody == ASSUME IInv, ReadBody PROVE IInv'
<1>0. MaxReads \in Nat BY CapsAssumption
<1>1. /\ phase = "response" /\ held /\ actor["reader"].at = "idle" /\ reads < MaxReads /\ reads' = reads + 1
      /\ UNCHANGED <<phase, sampled, ctxDone, requestVars, body, held, rcClosed, parser, obs, seen>>
  BY DEF ReadBody
<1>2. PICK chunk \in Chunks \cup {"none"}, err \in Errors :
        /\ chunk = "none" => err # "nil"
        /\ Goes("reader", [Idle EXCEPT !.chunk = chunk, !.err = err,
                             !.at = IF chunk = "none" THEN "terminal" ELSE "process"])
  BY DEF ReadBody, Errors
<1>3. PICK at \in {"terminal", "process"} : at = IF chunk = "none" THEN "terminal" ELSE "process" OBVIOUS
<1>4. PICK r : r = [Idle EXCEPT !.chunk = chunk, !.err = err, !.at = at] OBVIOUS
<1>5. r \in Actor /\ r.at = at /\ r.chunk = chunk /\ r.err = err
  BY <1>4, IdleActor DEF Actor, Places
<1>6. Goes("reader", r) BY <1>2, <1>3, <1>4
<1>7. /\ actor' \in [Actors -> Actor] /\ actor'["reader"] = r
      /\ \A b \in Actors : b # "reader" => actor'[b] = actor[b]
  BY <1>5, <1>6, GoesActor DEF IInv, Types
<1>8. r.at = at /\ r.chunk = chunk /\ r.err = err BY <1>5
<1>9. reads' \in 0..MaxReads BY <1>0, <1>1 DEF IInv, Types
<1>10. Types' BY <1>1, <1>7, <1>9 DEF IInv, Types
<1>11. ~Delivering("reader") /\ ~Delivering("reader")' BY <1>1, <1>7, <1>8 DEF Delivering
<1>12. \A b \in Actors : Delivering(b)' <=> Delivering(b) BY <1>7, <1>11 DEF Delivering
<1>13. actor'["closer"] = actor["closer"] /\ actor'["collector"] = actor["collector"] BY <1>7
<1>14. Standing' BY <1>1, <1>7, <1>8, <1>11, <1>12, <1>13 DEF IInv, Standing
<1>15. Delivery' BY <1>1, <1>7, <1>11, <1>12 DEF IInv, Delivery
<1>16. at = "terminal" => chunk = "none" BY <1>3
<1>17. TerminalOf("none") = "none" BY DEF TerminalOf, Terminals
<1>18. Reading' BY <1>1, <1>2, <1>3, <1>7, <1>8, <1>11, <1>13, <1>16, <1>17 DEF IInv, Reading, Unopposed, Won, TerminalChunk, TerminalOf
<1> QED BY <1>1, <1>10, <1>14, <1>15, <1>18, FrameRequest DEF IInv

LEMMA ActorFields ==
  ASSUME IInv, NEW a \in Actors
  PROVE  /\ actor[a] \in Actor
         /\ actor[a] = [at |-> actor[a].at, chunk |-> actor[a].chunk, err |-> actor[a].err,
                        outcome |-> actor[a].outcome, then |-> actor[a].then]
BY DEF IInv, Types, Actor

(* An actor goes on to another place and keeps the rest.                   *)
LEMMA GoesOn ==
  ASSUME IInv, NEW a \in Actors, NEW at \in Places, Goes(a, [actor[a] EXCEPT !.at = at])
  PROVE  /\ actor' \in [Actors -> Actor]
         /\ actor'[a].at = at /\ actor'[a].chunk = actor[a].chunk /\ actor'[a].err = actor[a].err
         /\ actor'[a].outcome = actor[a].outcome /\ actor'[a].then = actor[a].then
         /\ \A b \in Actors : b # a => actor'[b] = actor[b]
<1>1. PICK r : r = [actor[a] EXCEPT !.at = at] OBVIOUS
<1>2. PICK p : p = actor[a] OBVIOUS
<1>3. p \in Actor BY <1>2, ActorFields
<1>4. r \in Actor /\ r.at = at /\ r.chunk = p.chunk /\ r.err = p.err /\ r.outcome = p.outcome /\ r.then = p.then
  BY <1>1, <1>2, <1>3 DEF Actor
<1>5. /\ actor' \in [Actors -> Actor] /\ actor'[a] = r
      /\ \A b \in Actors : b # a => actor'[b] = actor[b]
  BY <1>1, <1>4, GoesActor DEF IInv, Types
<1> QED BY <1>2, <1>4, <1>5

(* finalizeLocked: the body is final, and the actor is the one to deliver. *)
LEMMA FinalizeLocked ==
  ASSUME IInv, NEW a \in Actors, NEW b \in Body, NEW o \in Ended, NEW then \in {"terminal", "done read", "ended"},
         body' = [b EXCEPT !.finalized = Claimed(o)],
         Goes(a, [actor[a] EXCEPT !.at = "snapshot", !.outcome = o, !.then = then])
  PROVE  /\ actor' \in [Actors -> Actor]
         /\ actor'[a].at = "snapshot" /\ actor'[a].chunk = actor[a].chunk /\ actor'[a].err = actor[a].err
         /\ actor'[a].outcome = o /\ actor'[a].then = then
         /\ \A c \in Actors : c # a => actor'[c] = actor[c]
         /\ body' \in Body /\ body'.finalized /\ body'.mode = b.mode /\ body'.panicked = b.panicked
<1>1. PICK r : r = [actor[a] EXCEPT !.at = "snapshot", !.outcome = o, !.then = then] OBVIOUS
<1>2. PICK p : p = actor[a] OBVIOUS
<1>3. p \in Actor BY <1>2, ActorFields
<1>4. r \in Actor /\ r.at = "snapshot" /\ r.chunk = p.chunk /\ r.err = p.err /\ r.outcome = o /\ r.then = then
  BY <1>1, <1>2, <1>3 DEF Actor, Places
<1>5. Goes(a, r) BY <1>1
<1>6. /\ actor' \in [Actors -> Actor] /\ actor'[a] = r
      /\ \A c \in Actors : c # a => actor'[c] = actor[c]
  <2>1. r \in Actor BY <1>4
  <2>2. actor \in [Actors -> Actor] BY DEF IInv, Types
  <2> QED BY <1>5, <2>1, <2>2, GoesActor
<1>7. Claimed(o) = TRUE BY DEF Claimed, Ended
<1>8. body' = [b EXCEPT !.finalized = TRUE] BY <1>7
<1>9. body' \in Body /\ body'.finalized /\ body'.mode = b.mode /\ body'.panicked = b.panicked
  BY <1>8 DEF Body
<1> QED BY <1>2, <1>4, <1>6, <1>9

(* Who makes the body final is the first to: nobody delivers yet, and      *)
(* nothing has been delivered.                                             *)
LEMMA Claims ==
  ASSUME IInv, NEW a \in Actors, ~body.finalized, phase = "response", UNCHANGED <<phase, obs>>,
         parser'.taken = parser.taken, body'.finalized, actor'[a].at = "snapshot", actor'[a].outcome \in Ended,
         \A c \in Actors : c # a => actor'[c] = actor[c]
  PROVE  Delivery' /\ (\A c \in Actors : Delivering(c)' <=> c = a) /\ \A c \in Actors : ~Delivering(c)
<1>1. \A c \in Actors : ~Delivering(c) BY DEF IInv, Delivery
<1>2. \A c \in Actors : Delivering(c)' <=> c = a BY <1>1 DEF Delivering
<1>3. obs.ends # 1 /\ obs.ends \in Nat /\ obs.ends <= 1 BY DEF IInv, Delivery, Types
<1>4. obs.ends = 0 BY <1>3
<1>5. actor'[a].outcome # "none" BY DEF Ended
<1>6. \A c, d \in Actors : Delivering(c)' /\ Delivering(d)' => c = d BY <1>2
<1>7. \A c \in Actors : Delivering(c)' => body'.finalized /\ obs'.ends = 0 /\ actor'[c].outcome # "none"
  BY <1>2, <1>4, <1>5
<1>8. ~parser'.taken BY DEF IInv, Delivery
<1>9. Delivery' BY <1>6, <1>7, <1>8 DEF IInv, Delivery
<1> QED BY <1>1, <1>2, <1>9

(* Who does not deliver changes nothing of the delivery.                   *)
LEMMA Bystander ==
  ASSUME IInv, NEW a \in Actors, ~Delivering(a), ~Delivering(a)', UNCHANGED <<phase, obs>>,
         parser'.taken = parser.taken, body.finalized => body'.finalized,
         \A c \in Actors : c # a => actor'[c] = actor[c]
  PROVE  Delivery' /\ \A c \in Actors : Delivering(c)' <=> Delivering(c)
<1>1. \A c \in Actors : Delivering(c)' <=> Delivering(c) BY DEF Delivering
<1>2. \A c \in Actors : Delivering(c) => actor'[c] = actor[c] OBVIOUS
<1>3. \A c, d \in Actors : Delivering(c)' /\ Delivering(d)' => c = d BY <1>1 DEF IInv, Delivery
<1>4. \A c \in Actors : Delivering(c)' => body'.finalized /\ obs'.ends = 0 /\ actor'[c].outcome # "none"
  BY <1>1, <1>2 DEF IInv, Delivery
<1>5. Delivery' BY <1>3, <1>4 DEF IInv, Delivery
<1> QED BY <1>1, <1>5

LEMMA AfterProcessPlaces ==
  /\ AfterProcess \in {"done read", "terminal"}
  /\ AfterProcess = "terminal" <=> actor["reader"].err # "nil"
BY DEF AfterProcess

LEMMA ParserFeeds ==
  ASSUME IInv, NEW n \in Nat, parser' = [parser EXCEPT !.fed = @ + n]
  PROVE  /\ parser' \in [fed : Nat, request : Seq(Seq(Sends \X (1..RequestPieces))), taken : BOOLEAN]
         /\ parser'.request = parser.request /\ parser'.taken = parser.taken
<1>1. parser \in [fed : Nat, request : Seq(Seq(Sends \X (1..RequestPieces))), taken : BOOLEAN]
  BY DEF IInv, Types
<1>2. PICK q : q = Seq(Seq(Sends \X (1..RequestPieces))) OBVIOUS
<1>3. parser \in [fed : Nat, request : q, taken : BOOLEAN] BY <1>1, <1>2
<1>4. parser' \in [fed : Nat, request : q, taken : BOOLEAN] /\ parser'.request = parser.request /\ parser'.taken = parser.taken
  BY <1>3
<1> QED BY <1>2, <1>4

LEMMA ReaderStands ==
  ASSUME IInv, phase = "response", held, UNCHANGED <<phase, held, seen>>,
         \A c \in Actors : c # "reader" => actor'[c] = actor[c],
         actor'["reader"].at # "close",
         Delivering("reader")' => actor'["reader"].then \in {"terminal", "done read"}
  PROVE  Standing'
<1>1. actor'["closer"] = actor["closer"] /\ actor'["collector"] = actor["collector"] OBVIOUS
<1> QED BY <1>1 DEF IInv, Standing, Delivering

LEMMA StepProcess == ASSUME IInv, process PROVE IInv'
<1> DEFINE chunk == actor["reader"].chunk
           r == actor["reader"]
<1>1. /\ r.at = "process"
      /\ UNCHANGED <<phase, sampled, ctxDone, requestVars, reads, held, rcClosed, obs, seen>>
  BY DEF process
<1>2. held /\ phase = "response" /\ chunk \in Chunks
  BY <1>1, ActorFields DEF IInv, Reading, Actor
<1>3. ~Delivering("reader") BY <1>1 DEF Delivering
<1>4. UNCHANGED <<phase, requestVars>> BY <1>1
<1>5. Unopposed /\ seen.terminal = "none" => ~body.finalized BY <1>1, <1>2 DEF IInv, Reading
<1>6. AfterProcess \in {"done read", "terminal"} /\ (AfterProcess = "terminal" <=> r.err # "nil")
  BY AfterProcessPlaces
<1>7. CASE Inert
  <2>1. Goes("reader", [actor["reader"] EXCEPT !.at = AfterProcess]) /\ UNCHANGED <<body, parser>>
    BY <1>7 DEF process
  <2>2. AfterProcess \in Places BY <1>6 DEF Places
  <2>3. /\ actor' \in [Actors -> Actor]
        /\ actor'["reader"].at = AfterProcess /\ actor'["reader"].chunk = r.chunk /\ actor'["reader"].err = r.err
        /\ \A b \in Actors : b # "reader" => actor'[b] = actor[b]
    BY <2>1, <2>2, GoesOn
  <2>4. Types' BY <1>1, <2>1, <2>3 DEF IInv, Types
  <2>5. ~Delivering("reader")' BY <1>6, <2>3 DEF Delivering
  <2>6. Delivery' BY <1>1, <1>3, <2>1, <2>3, <2>5, Bystander
  <2>7. Standing' BY <1>1, <1>2, <1>6, <2>3, <2>5, ReaderStands
  <2>8. actor'["closer"] = actor["closer"] BY <2>3
  <2>9. Unopposed /\ seen.terminal = "none" => body.mode = "ignore" BY <1>5, <1>7 DEF Inert
  <2>10. Reading'
    BY <1>1, <1>2, <1>5, <1>6, <2>1, <2>3, <2>5, <2>8, <2>9 DEF IInv, Reading, Won, Unopposed, TerminalChunk, TerminalOf
  <2> QED BY <1>4, <2>1, <2>4, <2>6, <2>7, <2>10, FrameRequest DEF IInv
<1>8. CASE ~Inert
  <2>1. ~body.finalized /\ body.mode # "ignore" BY <1>8 DEF Inert
  <2>2. PICK m \in SniffedModes(chunk) :
          LET b == [body EXCEPT !.mode = m]
              terminal == Verdict(m, chunk)
              Onward == Goes("reader", [actor["reader"] EXCEPT !.at = AfterProcess])
          IN /\ parser' = [parser EXCEPT !.fed = @ + (IF ParserFed(b, chunk) THEN 1 ELSE 0)]
             /\ \/ ParserFed(b, chunk) /\ body' = recoverParse(b, "feeding") /\ Onward
                \/ terminal = "none" /\ body' = Captured(b, chunk) /\ Onward
                \/ /\ terminal # "none"
                   /\ finalizeLocked("reader", Captured(b, chunk), terminal, AfterProcess)
    BY <1>8 DEF process
  <2>3. m \in Modes \cup {"none", "unary", "sse", "ignore"}
    <3>1. body.mode \in Modes \cup {"none", "unary", "sse", "ignore"} BY DEF IInv, Types, Body
    <3>2. m \in {body.mode, "undecided", "unary", "sse"} /\ (body.mode # "undecided" => m = body.mode)
      BY <2>2 DEF SniffedModes
    <3>3. body.mode = "undecided" => "undecided" \in Modes BY <3>1
    <3> QED BY <3>1, <3>2, <3>3
  <2>4. PICK b : b = [body EXCEPT !.mode = m] OBVIOUS
  <2>5. b \in Body /\ b.mode = m /\ ~b.finalized /\ b.panicked = body.panicked
    BY <2>1, <2>3, <2>4 DEF IInv, Types, Body
  <2>6. PICK n \in {0, 1} : n = IF ParserFed(b, chunk) THEN 1 ELSE 0 OBVIOUS
  <2>7. /\ parser' \in [fed : Nat, request : Seq(Seq(Sends \X (1..RequestPieces))), taken : BOOLEAN]
        /\ parser'.request = parser.request /\ parser'.taken = parser.taken
    <3>1. parser' = [parser EXCEPT !.fed = @ + n] BY <2>2, <2>4, <2>6
    <3> QED BY <3>1, ParserFeeds
  <2>8. /\ Captured(b, chunk) \in Body /\ ~Captured(b, chunk).finalized
        /\ Captured(b, chunk).mode = m /\ Captured(b, chunk).panicked = body.panicked
    BY <1>2, <2>5, CapturedBody
  <2>9. ASSUME NEW c \in Body, body' = c, ~c.finalized, c.panicked = body.panicked \/ c.panicked # "no",
               c.panicked = "no" => c.mode # "sse" \/ TerminalOf(chunk) = "none",
               Goes("reader", [actor["reader"] EXCEPT !.at = AfterProcess])
        PROVE  IInv'
    <3>1. AfterProcess \in Places BY <1>6 DEF Places
    <3>2. /\ actor' \in [Actors -> Actor]
          /\ actor'["reader"].at = AfterProcess /\ actor'["reader"].chunk = r.chunk /\ actor'["reader"].err = r.err
          /\ \A d \in Actors : d # "reader" => actor'[d] = actor[d]
      BY <2>9, <3>1, GoesOn
    <3>3. Types' BY <1>1, <2>7, <2>9, <3>2 DEF IInv, Types
    <3>4. ~Delivering("reader")' BY <1>6, <3>2 DEF Delivering
    <3>5. ~body'.finalized BY <2>9
    <3>6. Delivery' BY <1>1, <1>3, <2>1, <2>7, <3>5, <3>2, <3>4, Bystander
    <3>7. Standing' BY <1>1, <1>2, <1>6, <3>2, <3>4, ReaderStands
    <3>8. actor'["closer"] = actor["closer"] BY <3>2
    <3>9. Unopposed' => Unopposed BY <2>9, <3>8 DEF Unopposed
    <3>10. Unopposed' => ~TerminalChunk(chunk)' BY <2>9, <3>2 DEF TerminalChunk, TerminalOf, Unopposed
    <3>11. Reading'
      BY <1>1, <1>2, <1>6, <3>2, <3>4, <3>5, <3>9, <3>10 DEF IInv, Reading, Won, TerminalChunk, TerminalOf
    <3> QED BY <1>4, <2>7, <3>3, <3>6, <3>7, <3>11, FrameRequest DEF IInv
  <2>10. CASE body' = recoverParse(b, "feeding") /\ Goes("reader", [actor["reader"] EXCEPT !.at = AfterProcess])
    <3>1. body' = [b EXCEPT !.mode = "ignore", !.panicked = "feeding"] BY <2>10 DEF recoverParse
    <3>2. body' \in Body /\ ~body'.finalized /\ body'.panicked = "feeding" BY <2>5, <3>1 DEF Body
    <3> QED BY <2>9, <2>10, <3>2
  <2>11. CASE Verdict(m, chunk) = "none" /\ body' = Captured(b, chunk)
              /\ Goes("reader", [actor["reader"] EXCEPT !.at = AfterProcess])
    <3>1. m # "sse" \/ TerminalOf(chunk) = "none" BY <2>11 DEF Verdict
    <3>2. PICK c : c = Captured(b, chunk) OBVIOUS
    <3>3. c \in Body /\ body' = c /\ ~c.finalized /\ c.panicked = body.panicked /\ c.mode = m
      BY <2>8, <2>11, <3>2
    <3> QED BY <2>9, <2>11, <3>1, <3>3
  <2>12. CASE Verdict(m, chunk) # "none" /\ finalizeLocked("reader", Captured(b, chunk), Verdict(m, chunk), AfterProcess)
    <3>1. m = "sse" /\ Verdict(m, chunk) = TerminalOf(chunk) BY <2>12 DEF Verdict
    <3>2. TerminalOf(chunk) \in Fates BY <1>2, ChunkTypes
    <3>3. Verdict(m, chunk) \in Ended BY <2>12, <3>1, <3>2 DEF Fates, Ended
    <3>4. AfterProcess \in {"terminal", "done read", "ended"} BY <1>6
    <3>5. /\ actor' \in [Actors -> Actor]
          /\ actor'["reader"].at = "snapshot" /\ actor'["reader"].chunk = r.chunk /\ actor'["reader"].err = r.err
          /\ actor'["reader"].outcome = Verdict(m, chunk) /\ actor'["reader"].then = AfterProcess
          /\ \A c \in Actors : c # "reader" => actor'[c] = actor[c]
          /\ body' \in Body /\ body'.finalized /\ body'.mode = m /\ body'.panicked = body.panicked
      <4>1. PICK c, v, then : c = Captured(b, chunk) /\ v = Verdict(m, chunk) /\ then = AfterProcess OBVIOUS
      <4>2. c \in Body /\ v \in Ended /\ then \in {"terminal", "done read", "ended"} BY <2>8, <3>3, <3>4, <4>1
      <4>3. /\ body' = [c EXCEPT !.finalized = Claimed(v)]
            /\ Goes("reader", [actor["reader"] EXCEPT !.at = "snapshot", !.outcome = v, !.then = then])
        BY <2>12, <4>1 DEF finalizeLocked
      <4>4. /\ actor' \in [Actors -> Actor]
            /\ actor'["reader"].at = "snapshot" /\ actor'["reader"].chunk = actor["reader"].chunk
            /\ actor'["reader"].err = actor["reader"].err
            /\ actor'["reader"].outcome = v /\ actor'["reader"].then = then
            /\ \A d \in Actors : d # "reader" => actor'[d] = actor[d]
            /\ body' \in Body /\ body'.finalized /\ body'.mode = c.mode /\ body'.panicked = c.panicked
        BY <4>2, <4>3, FinalizeLocked
      <4> QED BY <2>8, <4>1, <4>4
    <3>6. Types' BY <1>1, <2>7, <3>5 DEF IInv, Types
    <3>7. actor'["reader"].outcome \in Ended BY <3>3, <3>5
    <3>8. Delivery' BY <1>1, <1>2, <2>1, <2>7, <3>5, <3>7, Claims
    <3>9. Standing' BY <1>1, <1>2, <1>6, <3>5, ReaderStands
    <3>10. actor'["closer"] = actor["closer"] BY <3>5
    <3>11. Unopposed' => Unopposed BY <3>5, <3>10 DEF Unopposed
    <3>12. TerminalOf(chunk) # "none" /\ TerminalChunk(chunk)' BY <2>12, <3>1, <3>5 DEF TerminalChunk, TerminalOf
    <3>13. Reading'
      BY <1>1, <1>2, <1>6, <3>1, <3>5, <3>11, <3>12 DEF IInv, Reading, Won, TerminalChunk, TerminalOf, Delivering
    <3> QED BY <1>4, <2>7, <3>6, <3>8, <3>9, <3>13, FrameRequest DEF IInv
  <2> QED BY <2>2, <2>4, <2>10, <2>11, <2>12
<1> QED BY <1>7, <1>8

LEMMA StepTerminalRead == ASSUME IInv, terminalRead PROVE IInv'
<1> DEFINE chunk == actor["reader"].chunk
           r == actor["reader"]
<1>1. /\ r.at = "terminal"
      /\ UNCHANGED <<phase, sampled, ctxDone, requestVars, reads, held, rcClosed, obs, seen>>
  BY DEF terminalRead
<1>2. held /\ phase = "response" /\ r.err # "nil" BY <1>1 DEF IInv, Reading
<1>3. ~Delivering("reader") BY <1>1 DEF Delivering
<1>4. UNCHANGED <<phase, requestVars>> BY <1>1
<1>5. (Unopposed /\ seen.terminal = "none" /\ TerminalChunk(chunk)) => body.finalized
  <2>1. (Unopposed /\ seen.terminal = "none" /\ TerminalChunk(chunk)) => Won(TerminalOf(chunk)) /\ TerminalOf(chunk) # "none"
    BY <1>1 DEF IInv, Reading, TerminalChunk
  <2>2. Won(TerminalOf(chunk)) /\ TerminalOf(chunk) # "none" => obs.outcome # "none" BY DEF Won
  <2>3. obs.outcome # "none" => obs.ends # 0 BY DEF IInv, Delivery
  <2>4. obs.ends # 0 => obs.ends = 1 BY DEF IInv, Delivery, Types
  <2>5. obs.ends = 1 => body.finalized BY <1>2 DEF IInv, Delivery
  <2> QED BY <2>1, <2>2, <2>3, <2>4, <2>5
<1>6. ASSUME Goes("reader", [actor["reader"] EXCEPT !.at = "done read"]), body' \in Body,
             body'.finalized <=> body.finalized,
             parser' \in [fed : Nat, request : Seq(Seq(Sends \X (1..RequestPieces))), taken : BOOLEAN],
             parser'.request = parser.request, parser'.taken = parser.taken,
             body' = body \/ body'.panicked # "no"
      PROVE  IInv'
  <2>1. "done read" \in Places BY DEF Places
  <2>2. /\ actor' \in [Actors -> Actor]
        /\ actor'["reader"].at = "done read" /\ actor'["reader"].chunk = r.chunk /\ actor'["reader"].err = r.err
        /\ \A b \in Actors : b # "reader" => actor'[b] = actor[b]
    BY <1>6, <2>1, GoesOn
  <2>3. Types' BY <1>1, <1>6, <2>2 DEF IInv, Types
  <2>4. ~Delivering("reader")' BY <2>2 DEF Delivering
  <2>5. Delivery' BY <1>1, <1>3, <1>6, <2>2, <2>4, Bystander
  <2>6. Standing' BY <1>1, <1>2, <2>2, <2>4, ReaderStands
  <2>7. actor'["closer"] = actor["closer"] BY <2>2
  <2>8. Unopposed' => Unopposed /\ body' = body BY <1>6, <2>7 DEF Unopposed
  <2>9. Reading'
    BY <1>1, <1>2, <1>5, <2>2, <2>4, <2>8 DEF IInv, Reading, Won, TerminalChunk, TerminalOf
  <2> QED BY <1>4, <1>6, <2>3, <2>5, <2>6, <2>9, FrameRequest DEF IInv
<1>7. CASE body.finalized
  <2>1. Goes("reader", [actor["reader"] EXCEPT !.at = "done read"]) /\ UNCHANGED <<body, parser>>
    BY <1>7 DEF terminalRead
  <2> QED BY <1>6, <2>1 DEF IInv, Types
<1>8. CASE ~body.finalized
  <2> DEFINE finished == r.err = "EOF" /\ ((body.mode = "unary" /\ (body.over => Salvages))
                                  \/ body.mode \in {"undecided", "sse"})
  <2>1. PICK n \in {0, 1} : n = IF finished THEN 1 ELSE 0 OBVIOUS
  <2>2. parser' = [parser EXCEPT !.fed = @ + n] BY <1>8, <2>1 DEF terminalRead
  <2>3. /\ parser' \in [fed : Nat, request : Seq(Seq(Sends \X (1..RequestPieces))), taken : BOOLEAN]
        /\ parser'.request = parser.request /\ parser'.taken = parser.taken
    BY <2>2, ParserFeeds
  <2>4. CASE body' = recoverParse(body, "finishing") /\ Goes("reader", [actor["reader"] EXCEPT !.at = "done read"])
    <3>1. body \in Body BY DEF IInv, Types
    <3>2. body' \in Body /\ (body'.finalized <=> body.finalized) /\ body'.panicked # "no"
      BY <2>4, <3>1 DEF recoverParse, Body
    <3> QED BY <1>6, <2>3, <2>4, <3>2
  <2>5. ASSUME NEW o \in Ended, finalizeLocked("reader", body, o, "done read") PROVE IInv'
    <3>1. body \in Body BY DEF IInv, Types
    <3>2. /\ body' = [body EXCEPT !.finalized = Claimed(o)]
          /\ Goes("reader", [actor["reader"] EXCEPT !.at = "snapshot", !.outcome = o, !.then = "done read"])
      BY <2>5 DEF finalizeLocked
    <3>3. /\ actor' \in [Actors -> Actor]
          /\ actor'["reader"].at = "snapshot" /\ actor'["reader"].chunk = actor["reader"].chunk
          /\ actor'["reader"].err = actor["reader"].err
          /\ actor'["reader"].outcome = o /\ actor'["reader"].then = "done read"
          /\ \A d \in Actors : d # "reader" => actor'[d] = actor[d]
          /\ body' \in Body /\ body'.finalized /\ body'.mode = body.mode /\ body'.panicked = body.panicked
      BY <3>1, <3>2, FinalizeLocked
    <3>4. Types' BY <1>1, <2>3, <3>3 DEF IInv, Types
    <3>5. actor'["reader"].outcome \in Ended BY <3>3
    <3>6. Delivery' BY <1>1, <1>2, <1>8, <2>3, <3>3, <3>5, Claims
    <3>7. Standing' BY <1>1, <1>2, <3>3, ReaderStands
    <3>8. actor'["closer"] = actor["closer"] BY <3>3
    <3>9. Unopposed' => Unopposed BY <3>3, <3>8 DEF Unopposed
    <3>10. (Unopposed' /\ seen.terminal = "none") => ~TerminalChunk(chunk) BY <1>5, <1>8, <3>9
    <3>11. TerminalChunk(chunk)' <=> TerminalChunk(chunk) BY <3>3 DEF TerminalChunk, TerminalOf
    <3>12. Reading'
      BY <1>1, <1>2, <3>3, <3>9, <3>10, <3>11 DEF IInv, Reading, Won, Delivering
    <3> QED BY <1>4, <2>3, <3>4, <3>6, <3>7, <3>12, FrameRequest DEF IInv
  <2>6. \/ \E o \in Ended : finalizeLocked("reader", body, o, "done read")
        \/ body' = recoverParse(body, "finishing") /\ Goes("reader", [actor["reader"] EXCEPT !.at = "done read"])
    BY <1>8 DEF terminalRead, EofOutcomes, Ended
  <2> QED BY <2>4, <2>5, <2>6
<1> QED BY <1>7, <1>8

LEMMA StepReadReturns == ASSUME IInv, ReadReturns PROVE IInv'
<1> DEFINE r == actor["reader"]
<1>1. /\ r.at = "done read"
      /\ seen' = [terminal |-> IF seen.terminal = "none" /\ body.mode = "sse" THEN TerminalOf(r.chunk)
                               ELSE seen.terminal,
                  err |-> IF seen.err = "nil" THEN r.err ELSE seen.err]
      /\ Goes("reader", IF r.err = "nil" THEN Idle ELSE [Idle EXCEPT !.at = "ended"])
      /\ UNCHANGED <<phase, sampled, ctxDone, requestVars, body, reads, held, rcClosed, parser, obs>>
  BY DEF ReadReturns
<1>2. held /\ phase = "response" BY <1>1 DEF IInv, Reading
<1>3. PICK at \in {"idle", "ended"} : at = IF r.err = "nil" THEN "idle" ELSE "ended" OBVIOUS
<1>4. PICK i : i = Idle OBVIOUS
<1>5. i \in Actor /\ i.at = "idle" /\ i.err = "nil" /\ i.chunk = "none" BY <1>4, IdleActor DEF Idle
<1>6. PICK x : x = [i EXCEPT !.at = at] OBVIOUS
<1>7. x \in Actor /\ x.at = at /\ x.err = "nil" /\ x.chunk = "none" BY <1>5, <1>6 DEF Actor, Places
<1>8. Goes("reader", x)
  <2>1. CASE r.err = "nil"
    <3>1. x = i BY <1>3, <1>5, <1>6, <2>1 DEF Actor
    <3> QED BY <1>1, <1>4, <2>1, <3>1
  <2>2. CASE r.err # "nil" BY <1>1, <1>3, <1>4, <1>6, <2>2
  <2> QED BY <2>1, <2>2
<1>9. /\ actor' \in [Actors -> Actor] /\ actor'["reader"] = x
      /\ \A b \in Actors : b # "reader" => actor'[b] = actor[b]
  <2>1. actor \in [Actors -> Actor] /\ x \in Actor BY <1>7 DEF IInv, Types
  <2> QED BY <1>8, <2>1, GoesActor
<1>10. r.chunk \in Chunks \cup {"none"} /\ r.err \in Errors /\ seen \in [terminal : Fates, err : Errors]
  BY ActorFields DEF Actor, IInv, Types
<1>11. TerminalOf(r.chunk) \in Fates BY <1>10, ChunkTypes
<1>12. PICK t \in Fates, e \in Errors :
          /\ t = IF seen.terminal = "none" /\ body.mode = "sse" THEN TerminalOf(r.chunk) ELSE seen.terminal
          /\ e = IF seen.err = "nil" THEN r.err ELSE seen.err
  BY <1>10, <1>11
<1>13. seen' \in [terminal : Fates, err : Errors] /\ seen'.terminal = t BY <1>1, <1>12
<1>14. Types' BY <1>1, <1>9, <1>13 DEF IInv, Types
<1>15. ~Delivering("reader") /\ ~Delivering("reader")' BY <1>1, <1>3, <1>7, <1>9 DEF Delivering
<1>16. Delivery' BY <1>1, <1>9, <1>15, Bystander
<1>17. actor'["closer"] = actor["closer"] /\ actor'["collector"] = actor["collector"] BY <1>9
<1>18. Standing' BY <1>1, <1>2, <1>3, <1>7, <1>9, <1>15, <1>17 DEF IInv, Standing, Delivering
<1>19. Unopposed' <=> Unopposed BY <1>1, <1>17 DEF Unopposed
<1>20. \A z : Won(z)' <=> Won(z) BY <1>1 DEF Won
<1>21. (Unopposed /\ t # "none") => Won(t)
  <2>1. CASE seen.terminal # "none" BY <1>12, <2>1 DEF IInv, Reading
  <2>2. CASE seen.terminal = "none"
    <3>1. t # "none" => t = TerminalOf(r.chunk) /\ TerminalChunk(r.chunk) BY <1>12, <2>2 DEF TerminalChunk
    <3> QED BY <1>1, <2>2, <3>1 DEF IInv, Reading
  <2> QED BY <2>1, <2>2
<1>22. (Unopposed /\ t = "none" /\ at = "idle") => ~body.finalized
  <2>1. t = "none" => seen.terminal = "none" /\ ~TerminalChunk(r.chunk) BY <1>12 DEF TerminalChunk
  <2> QED BY <1>1, <1>3, <2>1 DEF IInv, Reading
<1>23. Reading'
  BY <1>1, <1>3, <1>7, <1>9, <1>13, <1>15, <1>19, <1>20, <1>21, <1>22 DEF Reading
<1> QED BY <1>1, <1>14, <1>16, <1>18, <1>23, FrameRequest DEF IInv

-----------------------------------------------------------------------------
(* Close, the collector, and the delivery                                  *)

LEMMA StepClose == ASSUME IInv, Close PROVE IInv'
<1>1. /\ phase = "response" /\ held /\ actor["closer"].at = "idle" /\ rcClosed' \in BOOLEAN
      /\ Goes("closer", [Idle EXCEPT !.at = "close"])
      /\ UNCHANGED <<phase, sampled, ctxDone, requestVars, body, reads, held, parser, obs, seen>>
  BY DEF Close
<1>2. PICK x : x = [Idle EXCEPT !.at = "close"] OBVIOUS
<1>3. x \in Actor /\ x.at = "close" BY <1>2, IdleActor DEF Actor, Places
<1>4. /\ actor' \in [Actors -> Actor] /\ actor'["closer"] = x
      /\ \A b \in Actors : b # "closer" => actor'[b] = actor[b]
  <2>1. actor \in [Actors -> Actor] /\ x \in Actor BY <1>3 DEF IInv, Types
  <2> QED BY <1>1, <1>2, <2>1, GoesActor
<1>5. actor'["reader"] = actor["reader"] /\ actor'["collector"] = actor["collector"] BY <1>4
<1>6. ~Delivering("closer") /\ ~Delivering("closer")' BY <1>1, <1>3, <1>4 DEF Delivering
<1>7. Types' BY <1>1, <1>4 DEF IInv, Types
<1>8. Delivery' BY <1>1, <1>4, <1>6, Bystander
<1>9. Standing' BY <1>1, <1>3, <1>4, <1>5, <1>6 DEF IInv, Standing, Delivering
<1>10. ~Unopposed' BY <1>3, <1>4 DEF Unopposed
<1>11. Reading' BY <1>1, <1>5, <1>10 DEF IInv, Reading, Delivering
<1> QED BY <1>1, <1>7, <1>8, <1>9, <1>11, FrameRequest DEF IInv

LEMMA StepAbandon == ASSUME IInv, abandon PROVE IInv'
<1>1. /\ phase = "response" /\ ~held /\ actor["collector"].at = "idle" /\ rcClosed' \in BOOLEAN
      /\ Goes("collector", [Idle EXCEPT !.at = "close"])
      /\ UNCHANGED <<phase, sampled, ctxDone, requestVars, body, reads, held, parser, obs, seen>>
  BY DEF abandon
<1>2. PICK x : x = [Idle EXCEPT !.at = "close"] OBVIOUS
<1>3. x \in Actor /\ x.at = "close" BY <1>2, IdleActor DEF Actor, Places
<1>4. /\ actor' \in [Actors -> Actor] /\ actor'["collector"] = x
      /\ \A b \in Actors : b # "collector" => actor'[b] = actor[b]
  <2>1. actor \in [Actors -> Actor] /\ x \in Actor BY <1>3 DEF IInv, Types
  <2> QED BY <1>1, <1>2, <2>1, GoesActor
<1>5. actor'["reader"] = actor["reader"] /\ actor'["closer"] = actor["closer"] BY <1>4
<1>6. ~Delivering("collector") /\ ~Delivering("collector")' BY <1>1, <1>3, <1>4 DEF Delivering
<1>7. Types' BY <1>1, <1>4 DEF IInv, Types
<1>8. Delivery' BY <1>1, <1>4, <1>6, Bystander
<1>9. Standing' BY <1>1, <1>3, <1>4, <1>5, <1>6 DEF IInv, Standing, Delivering
<1>11. Reading' BY <1>1, <1>5 DEF IInv, Reading, Delivering, Unopposed, Won, TerminalChunk, TerminalOf
<1> QED BY <1>1, <1>7, <1>8, <1>9, <1>11, FrameRequest DEF IInv

LEMMA StepDrop == ASSUME IInv, Drop PROVE IInv'
<1>1. /\ phase = "response" /\ held /\ held' = FALSE
      /\ actor["reader"].at \in {"idle", "ended"} /\ actor["closer"].at \in {"idle", "ended"}
      /\ UNCHANGED <<phase, sampled, ctxDone, requestVars, body, reads, rcClosed, actor, parser, obs, seen>>
  BY DEF Drop
<1>2. Types' BY <1>1 DEF IInv, Types
<1>3. Delivery' BY <1>1 DEF IInv, Delivery, Delivering
<1>4. Standing' BY <1>1 DEF IInv, Standing, Delivering
<1>5. Reading' BY <1>1 DEF IInv, Reading, Delivering, Unopposed, Won, TerminalChunk, TerminalOf
<1> QED BY <1>1, <1>2, <1>3, <1>4, <1>5, FrameRequest DEF IInv

(* What a step of the closer or the collector must keep of the others.     *)
LEMMA OtherStands ==
  ASSUME IInv, NEW a \in {"closer", "collector"}, phase = "response", actor[a].at # "idle",
         UNCHANGED <<phase, held, seen>>,
         \A c \in Actors : c # a => actor'[c] = actor[c],
         actor'[a].at \in {"snapshot", "result", "ended"}, Delivering(a)' => actor'[a].then = "ended"
  PROVE  Standing'
<1>1. CASE a = "closer"
  <2>1. actor'["reader"] = actor["reader"] /\ actor'["collector"] = actor["collector"] BY <1>1
  <2> QED BY <1>1, <2>1 DEF IInv, Standing, Delivering
<1>2. CASE a = "collector"
  <2>1. actor'["reader"] = actor["reader"] /\ actor'["closer"] = actor["closer"] BY <1>2
  <2> QED BY <1>2, <2>1 DEF IInv, Standing, Delivering
<1> QED BY <1>1, <1>2

LEMMA OtherReads ==
  ASSUME IInv, NEW a \in {"closer", "collector"}, phase = "response", actor[a].at # "idle",
         UNCHANGED <<phase, held, seen, obs>>,
         \A c \in Actors : c # a => actor'[c] = actor[c], actor'[a].at # "idle",
         body'.panicked = body.panicked \/ body'.panicked # "no"
  PROVE  Reading'
<1>1. actor'["reader"] = actor["reader"] OBVIOUS
<1>2. \A z : Won(z)' <=> Won(z) BY DEF Won
<1>3. CASE a = "closer" BY <1>1, <1>3 DEF IInv, Reading, Unopposed, Delivering
<1>4. CASE a = "collector"
  <2>1. ~held /\ actor["reader"].at \in {"idle", "ended"} BY <1>4 DEF IInv, Standing
  <2>2. actor'["closer"] = actor["closer"] BY <1>4
  <2>3. Unopposed' => Unopposed BY <2>2 DEF Unopposed
  <2> QED BY <1>1, <1>2, <2>1, <2>3 DEF IInv, Reading, Delivering
<1> QED BY <1>3, <1>4

LEMMA StepCloseTelemetry == ASSUME IInv, NEW a \in Actors, closeTelemetry(a) PROVE IInv'
<1> DEFINE whole == body.mode = "unary" /\ body.json = "whole" /\ (body.over => Salvages)
<1>1. /\ actor[a].at = "close"
      /\ UNCHANGED <<phase, sampled, ctxDone, requestVars, reads, held, rcClosed, obs, seen>>
  BY DEF closeTelemetry
<1>2. a \in {"closer", "collector"} /\ phase = "response"
  BY <1>1 DEF IInv, Standing
<1>3. ~Delivering(a) BY <1>1 DEF Delivering
<1>4. UNCHANGED <<phase, requestVars>> BY <1>1
<1>5. ASSUME Goes(a, [Idle EXCEPT !.at = "ended"]), body' \in Body, body'.finalized <=> body.finalized,
             parser' \in [fed : Nat, request : Seq(Seq(Sends \X (1..RequestPieces))), taken : BOOLEAN],
             parser'.request = parser.request, parser'.taken = parser.taken,
             body'.panicked = body.panicked \/ body'.panicked # "no"
      PROVE  IInv'
  <2>1. PICK x : x = [Idle EXCEPT !.at = "ended"] OBVIOUS
  <2>2. x \in Actor /\ x.at = "ended" BY <2>1, IdleActor DEF Actor, Places
  <2>3. /\ actor' \in [Actors -> Actor] /\ actor'[a] = x
        /\ \A b \in Actors : b # a => actor'[b] = actor[b]
    <3>1. actor \in [Actors -> Actor] /\ x \in Actor BY <2>2 DEF IInv, Types
    <3>2. Goes(a, x) BY <1>5, <2>1
    <3> QED BY <3>1, <3>2, GoesActor
  <2>4. Types' BY <1>1, <1>5, <2>3 DEF IInv, Types
  <2>5. ~Delivering(a)' BY <2>2, <2>3 DEF Delivering
  <2>6. Delivery' BY <1>1, <1>3, <1>5, <2>3, <2>5, Bystander
  <2>7. actor[a].at # "idle" /\ actor'[a].at \in {"snapshot", "result", "ended"} /\ actor'[a].at # "idle"
    BY <1>1, <2>2, <2>3
  <2>8. Standing' BY <1>1, <1>2, <2>3, <2>5, <2>7, OtherStands
  <2>9. Reading' BY <1>1, <1>2, <1>5, <2>3, <2>7, OtherReads
  <2> QED BY <1>4, <1>5, <2>4, <2>6, <2>8, <2>9, FrameRequest DEF IInv
<1>6. CASE body.finalized
  <2>1. Goes(a, [Idle EXCEPT !.at = "ended"]) /\ UNCHANGED <<body, parser>>
    BY <1>6 DEF closeTelemetry
  <2> QED BY <1>5, <2>1 DEF IInv, Types
<1>7. CASE ~body.finalized
  <2>1. PICK n \in {0, 1} : n = IF whole THEN 1 ELSE 0 OBVIOUS
  <2>2. parser' = [parser EXCEPT !.fed = @ + n] BY <1>7, <2>1 DEF closeTelemetry
  <2>3. /\ parser' \in [fed : Nat, request : Seq(Seq(Sends \X (1..RequestPieces))), taken : BOOLEAN]
        /\ parser'.request = parser.request /\ parser'.taken = parser.taken
    BY <2>2, ParserFeeds
  <2>4. CASE body' = recoverParse(body, "finishing") /\ Goes(a, [Idle EXCEPT !.at = "ended"])
    <3>1. body \in Body BY DEF IInv, Types
    <3>2. body' \in Body /\ (body'.finalized <=> body.finalized) /\ body'.panicked # "no"
      BY <2>4, <3>1 DEF recoverParse, Body
    <3> QED BY <1>5, <2>3, <2>4, <3>2
  <2>5. ASSUME NEW o \in Ended, finalizeLocked(a, body, o, "ended") PROVE IInv'
    <3>1. body \in Body BY DEF IInv, Types
    <3>2. /\ body' = [body EXCEPT !.finalized = Claimed(o)]
          /\ Goes(a, [actor[a] EXCEPT !.at = "snapshot", !.outcome = o, !.then = "ended"])
      BY <2>5 DEF finalizeLocked
    <3>3. /\ actor' \in [Actors -> Actor]
          /\ actor'[a].at = "snapshot" /\ actor'[a].outcome = o /\ actor'[a].then = "ended"
          /\ \A d \in Actors : d # a => actor'[d] = actor[d]
          /\ body' \in Body /\ body'.finalized /\ body'.mode = body.mode /\ body'.panicked = body.panicked
      BY <3>1, <3>2, FinalizeLocked
    <3>4. Types' BY <1>1, <2>3, <3>3 DEF IInv, Types
    <3>5. actor'[a].outcome \in Ended BY <3>3
    <3>6. Delivery' BY <1>1, <1>2, <1>7, <2>3, <3>3, <3>5, Claims
    <3>7. actor[a].at # "idle" /\ actor'[a].at \in {"snapshot", "result", "ended"} /\ actor'[a].at # "idle"
      BY <1>1, <3>3
    <3>8. Standing' BY <1>1, <1>2, <3>3, <3>7, OtherStands
    <3>9. Reading' BY <1>1, <1>2, <3>3, <3>7, OtherReads
    <3> QED BY <1>4, <2>3, <3>4, <3>6, <3>8, <3>9, FrameRequest DEF IInv
  <2>6. \/ \E o \in Ended : finalizeLocked(a, body, o, "ended")
        \/ body' = recoverParse(body, "finishing") /\ Goes(a, [Idle EXCEPT !.at = "ended"])
    BY <1>7 DEF closeTelemetry, Ended
  <2> QED BY <2>4, <2>5, <2>6
<1> QED BY <1>6, <1>7

LEMMA StepSnapshot == ASSUME IInv, NEW a \in Actors, snapshot(a) PROVE IInv'
<1>0. RequestCap \in Nat BY CapsAssumption
<1>1. /\ actor[a].at = "snapshot" /\ Goes(a, [actor[a] EXCEPT !.at = "result"])
      /\ UNCHANGED <<phase, sampled, ctxDone, send, body, reads, held, rcClosed, obs, seen>>
  BY DEF snapshot
<1>2. "result" \in Places BY DEF Places
<1>3. /\ actor' \in [Actors -> Actor]
      /\ actor'[a].at = "result" /\ actor'[a].chunk = actor[a].chunk /\ actor'[a].err = actor[a].err
      /\ actor'[a].outcome = actor[a].outcome /\ actor'[a].then = actor[a].then
      /\ \A b \in Actors : b # a => actor'[b] = actor[b]
  BY <1>1, <1>2, GoesOn
<1>4. Delivering(a) /\ Delivering(a)' BY <1>1, <1>3 DEF Delivering
<1>5. \A b \in Actors : /\ Delivering(b)' <=> Delivering(b)
                        /\ actor'[b].then = actor[b].then /\ actor'[b].outcome = actor[b].outcome
                        /\ actor'[b].chunk = actor[b].chunk /\ actor'[b].err = actor[b].err
                        /\ actor'[b].at = actor[b].at \/ (actor[b].at = "snapshot" /\ actor'[b].at = "result")
  BY <1>1, <1>3, <1>4 DEF Delivering
<1>6. phase = "response" BY <1>1 DEF IInv, Standing
<1>7. PICK p : p = parser'.request OBVIOUS
<1>10. phase' = phase /\ body' = body /\ held' = held BY <1>1
<1>11. ASSUME parser'.taken = parser.taken PROVE Standing'
  <2>1. /\ actor["reader"].at # "close" /\ (~held => actor["reader"].at \in {"idle", "ended"})
        /\ \A b \in {"closer", "collector"} : actor[b].at \in {"idle", "close", "snapshot", "result", "ended"}
        /\ actor["collector"].at # "idle" => ~held
    BY <1>6 DEF IInv, Standing
  <2>2. \A b \in Actors : Delivering(b) => actor[b].then \in IF b = "reader" THEN {"terminal", "done read"} ELSE {"ended"}
    BY DEF IInv, Standing
  <2>3. \A b \in Actors : Delivering(b)' => actor'[b].then \in IF b = "reader" THEN {"terminal", "done read"} ELSE {"ended"}
    BY <1>5, <2>2
  <2>4. {"reader", "closer", "collector"} \subseteq Actors BY DEF Actors
  <2>5. actor'["reader"].at # "close" /\ (~held => actor'["reader"].at \in {"idle", "ended"})
    BY <1>5, <2>1, <2>4
  <2>6. \A b \in {"closer", "collector"} : actor'[b].at \in {"idle", "close", "snapshot", "result", "ended"}
    BY <1>5, <2>1, <2>4
  <2>7. actor'["collector"].at # "idle" => ~held BY <1>5, <2>1, <2>4
  <2> QED BY <1>6, <1>10, <2>3, <2>5, <2>6, <2>7 DEF Standing
<1>8. CASE ~sampled
  <2>1. UNCHANGED <<rec, parser>> BY <1>8, <1>1 DEF snapshot
  <2>2. Types' BY <1>1, <1>3, <2>1 DEF IInv, Types
  <2>3. Standing' BY <1>11, <2>1
  <2>4. Delivery' BY <1>1, <1>5, <2>1 DEF IInv, Delivery
  <2>5. Reading' BY <1>1, <1>5, <2>1, ZenonT(30) DEF IInv, Reading, Unopposed, Won, TerminalChunk, TerminalOf
  <2> QED BY <1>1, <2>1, <2>2, <2>3, <2>4, <2>5, FrameRequest DEF IInv
<1>9. CASE sampled
  <2> DEFINE captured == rec.active /\ rec.closed /\ ~rec.overCap /\ ~rec.disabled
  <2>1. rec' = [rec EXCEPT !.disabled = TRUE, !.buf = <<>>] BY <1>9 DEF snapshot
  <2>2. parser' = IF captured THEN [parser EXCEPT !.request = <<rec.buf>>] ELSE parser BY <1>9 DEF snapshot
  <2>3. rec \in Recorder BY DEF IInv, Types
  <2>4. /\ rec' \in Recorder /\ rec'.disabled /\ rec'.buf = <<>> /\ rec'.gen = rec.gen
        /\ rec'.closed = rec.closed /\ rec'.active = rec.active /\ rec'.overCap = rec.overCap
    <3>1. <<>> \in Seq(Sends \X (1..RequestPieces)) OBVIOUS
    <3> QED BY <2>1, <2>3, <3>1 DEF Recorder
  <2>5. Len(rec'.buf) <= RequestCap BY <1>0, <2>4
  <2>6. PICK q : q = Seq(Seq(Sends \X (1..RequestPieces))) OBVIOUS
  <2>7. parser \in [fed : Nat, request : q, taken : BOOLEAN] BY <2>6 DEF IInv, Types
  <2>8. <<rec.buf>> \in q
    <3>1. rec.buf \in Seq(Sends \X (1..RequestPieces)) BY <2>3 DEF Recorder
    <3> QED BY <2>6, <3>1
  <2>9. parser' \in [fed : Nat, request : q, taken : BOOLEAN] /\ parser'.taken = parser.taken
    BY <2>2, <2>7, <2>8
  <2>10. captured => parser'.request = <<rec.buf>> BY <2>2, <2>7
  <2>11. ~captured => parser'.request = parser.request BY <2>2
  <2>12. Types' BY <1>1, <1>3, <2>4, <2>5, <2>6, <2>9 DEF IInv, Types
  <2>13. Standing' BY <1>11, <2>9
  <2>14. Delivery' BY <1>1, <1>5, <2>9 DEF IInv, Delivery
  <2>15. Reading' BY <1>1, <1>5, ZenonT(30) DEF IInv, Reading, Unopposed, Won, TerminalChunk, TerminalOf
  <2>16. CASE captured
    <3>1. PICK r : r = rec.buf OBVIOUS
    <3>2. parser'.request = <<r>> BY <2>10, <2>16, <3>1
    <3>3. rec.gen > 0 /\ send[rec.gen].at = "done" BY <2>16 DEF IInv, Recording
    <3>4. Len(r) = send[rec.gen].sent /\ \A i \in 1..Len(r) : r[i] = <<rec.gen, i>>
      BY <2>16, <3>1, <3>3 DEF IInv, Recording
    <3>5. parser'.request[1] = r /\ Len(parser'.request) = 1 BY <3>2
    <3>6. CaptureIsOneSend' BY <1>1, <2>4, <3>3, <3>4, <3>5 DEF CaptureIsOneSend
    <3>7. Recording' BY <1>1, <1>6, <2>4, <3>3, <3>5 DEF IInv, Recording
    <3> QED BY <2>12, <2>13, <2>14, <2>15, <3>6, <3>7 DEF IInv
  <2>17. CASE ~captured
    <3>1. parser'.request = parser.request BY <2>11, <2>17
    <3>2. CaptureIsOneSend' BY <1>1, <2>4, <3>1 DEF IInv, CaptureIsOneSend
    <3>3. Recording' BY <1>1, <1>6, <2>4, <3>1 DEF IInv, Recording
    <3> QED BY <2>12, <2>13, <2>14, <2>15, <3>2, <3>3 DEF IInv
  <2> QED BY <2>16, <2>17
<1> QED BY <1>8, <1>9

LEMMA StepFinalize == ASSUME IInv, NEW a \in Actors, finalize(a) PROVE IInv'
<1>1. /\ actor[a].at = "result" /\ parser' = [parser EXCEPT !.taken = sampled]
      /\ Goes(a, [actor[a] EXCEPT !.at = actor[a].then])
      /\ UNCHANGED <<phase, sampled, ctxDone, requestVars, body, reads, held, rcClosed, seen>>
  BY DEF finalize
<1>2. PICK refined \in IF sampled /\ actor[a].outcome = "complete" THEN {"complete", "failed", "incomplete"}
                       ELSE {actor[a].outcome} :
        obs' = [updates |-> obs.updates + (IF sampled THEN 1 ELSE 0), ends |-> obs.ends + 1,
                wire |-> actor[a].outcome, outcome |-> refined]
  BY DEF finalize
<1>3. PICK o : o = actor[a].outcome OBVIOUS
<1>4. PICK then : then = actor[a].then OBVIOUS
<1>5. Delivering(a) BY <1>1 DEF Delivering
<1>6. body.finalized /\ obs.ends = 0 /\ obs.updates = 0 /\ o # "none" /\ o \in Ended
  BY <1>3, <1>5, ActorFields DEF IInv, Delivery, Actor
<1>7. then \in IF a = "reader" THEN {"terminal", "done read"} ELSE {"ended"}
  BY <1>4, <1>5 DEF IInv, Standing
<1>8. phase = "response" BY <1>1 DEF IInv, Standing
<1>9. /\ obs' \in [updates : Nat, ends : Nat, wire : Ended \cup {"none"}, outcome : Ended \cup {"none"}]
      /\ obs'.ends = 1 /\ obs'.updates <= 1
      /\ obs'.outcome = o \/ (o = "complete" /\ obs'.outcome \in {"failed", "incomplete"})
  <2>1. PICK u \in {0, 1} : u = IF sampled THEN 1 ELSE 0 OBVIOUS
  <2>2. refined \in Ended /\ (refined = o \/ (o = "complete" /\ refined \in {"failed", "incomplete"}))
    BY <1>2, <1>3, <1>6 DEF Ended
  <2>3. obs' = [updates |-> u, ends |-> 1, wire |-> o, outcome |-> refined] BY <1>2, <1>3, <1>6, <2>1
  <2> QED BY <1>6, <2>2, <2>3
<1>10. /\ parser' \in [fed : Nat, request : Seq(Seq(Sends \X (1..RequestPieces))), taken : BOOLEAN]
       /\ parser'.request = parser.request
  <2>1. PICK q : q = Seq(Seq(Sends \X (1..RequestPieces))) OBVIOUS
  <2>2. parser \in [fed : Nat, request : q, taken : BOOLEAN] /\ sampled \in BOOLEAN BY <2>1 DEF IInv, Types
  <2>3. parser' \in [fed : Nat, request : q, taken : BOOLEAN] /\ parser'.request = parser.request BY <1>1, <2>2
  <2> QED BY <2>1, <2>3
<1>11. then \in Places BY <1>7 DEF Places
<1>12. /\ actor' \in [Actors -> Actor]
       /\ actor'[a].at = then /\ actor'[a].chunk = actor[a].chunk /\ actor'[a].err = actor[a].err
       /\ \A b \in Actors : b # a => actor'[b] = actor[b]
  BY <1>1, <1>4, <1>11, GoesOn
<1>13. Types' BY <1>1, <1>9, <1>10, <1>12 DEF IInv, Types
<1>14. ~Delivering(a)' BY <1>7, <1>12 DEF Delivering
<1>15. \A b \in Actors : ~Delivering(b)'
  <2>1. \A b \in Actors : b # a => ~Delivering(b) BY <1>5 DEF IInv, Delivery
  <2> QED BY <1>12, <1>14, <2>1 DEF Delivering
<1>16. Delivery' BY <1>1, <1>6, <1>9, <1>15 DEF Delivery
<1>17. CASE a = "reader"
  <2>1. actor'["closer"] = actor["closer"] /\ actor'["collector"] = actor["collector"] BY <1>12, <1>17
  <2>2. held BY <1>1, <1>17 DEF IInv, Reading
  <2>3. actor'["reader"].at \in {"terminal", "done read"} BY <1>7, <1>12, <1>17
  <2>4. Standing' BY <1>1, <1>8, <1>15, <2>1, <2>2, <2>3 DEF IInv, Standing
  <2>5. Unopposed' <=> Unopposed BY <1>1, <2>1 DEF Unopposed
  <2>6. TerminalChunk(actor["reader"].chunk)' <=> TerminalChunk(actor["reader"].chunk) BY <1>1, <1>12, <1>17 DEF TerminalChunk, TerminalOf
  <2>7. (Unopposed /\ seen.terminal # "none") => FALSE
    BY <1>6 DEF IInv, Reading, Delivery, Won
  <2>8. (Unopposed /\ seen.terminal = "none" /\ TerminalChunk(actor["reader"].chunk)) => Won(TerminalOf(actor["reader"].chunk))'
    <3>1. (Unopposed /\ seen.terminal = "none" /\ TerminalChunk(actor["reader"].chunk)) => o = TerminalOf(actor["reader"].chunk)
      BY <1>3, <1>5, <1>17 DEF IInv, Reading
    <3>2. actor'["reader"].chunk = actor["reader"].chunk BY <1>12, <1>17
    <3> QED BY <1>9, <3>1, <3>2 DEF Won, TerminalOf
  <2>9. then = "terminal" => actor["reader"].err # "nil" BY <1>4, <1>5, <1>17 DEF IInv, Reading
  <2>10. (Unopposed /\ seen.terminal = "none" /\ actor["reader"].err = "nil") => TerminalChunk(actor["reader"].chunk)
    BY <1>5, <1>6, <1>17 DEF IInv, Reading
  <2>11. actor'["reader"].err = actor["reader"].err /\ actor'["reader"].at = then BY <1>12, <1>17
  <2>12. Reading'
    BY <1>1, <1>8, <1>15, <2>2, <2>3, <2>5, <2>6, <2>7, <2>8, <2>9, <2>10, <2>11 DEF Reading
  <2> QED BY <1>1, <1>10, <1>13, <1>16, <2>4, <2>12, FrameRequest DEF IInv
<1>18. CASE a # "reader"
  <2>1. a \in {"closer", "collector"} /\ actor'[a].at = "ended" /\ actor'["reader"] = actor["reader"]
    BY <1>7, <1>12, <1>18
  <2>2. Standing'
    <3>1. \A b \in {"closer", "collector"} : b # a => actor'[b] = actor[b] BY <1>12
    <3>2. actor["collector"].at # "idle" <=> actor'["collector"].at # "idle" BY <1>1, <2>1, <3>1
    <3> QED BY <1>1, <1>8, <1>15, <2>1, <3>1, <3>2 DEF IInv, Standing
  <2>3. ~Delivering("reader") BY <1>5, <1>18 DEF IInv, Delivery
  <2>4. CASE a = "closer"
    <3>1. ~Unopposed' BY <2>1, <2>4 DEF Unopposed
    <3> QED BY <1>1, <1>10, <1>13, <1>15, <1>16, <2>1, <2>2, <3>1, FrameRequest DEF IInv, Reading
  <2>5. CASE a = "collector"
    <3>1. ~held /\ actor["reader"].at \in {"idle", "ended"} BY <1>1, <1>8, <2>5 DEF IInv, Standing
    <3>2. actor'["closer"] = actor["closer"] BY <1>12, <2>5
    <3>3. Unopposed' => Unopposed BY <1>1, <3>2 DEF Unopposed
    <3>4. (Unopposed /\ seen.terminal # "none") => FALSE BY <1>6 DEF IInv, Reading, Delivery, Won
    <3>5. Reading' BY <1>1, <1>15, <2>1, <3>1, <3>3, <3>4 DEF IInv, Reading
    <3> QED BY <1>1, <1>10, <1>13, <1>16, <2>2, <3>5, FrameRequest DEF IInv
  <2> QED BY <2>1, <2>4, <2>5
<1> QED BY <1>17, <1>18

-----------------------------------------------------------------------------
(* The theorems                                                            *)

(* Every step keeps the invariant. *)
LEMMA StepHolds == ASSUME IInv, [Next]_vars PROVE IInv'
<1>1. CASE RoundTrip BY <1>1, StepBegin, StepTransportError, StepNewBody DEF RoundTrip
<1>2. CASE GetBody BY <1>2, StepGetBody
<1>3. CASE ContextEnds BY <1>3, StepContextEnds
<1>4. CASE \E g \in Sends : Transmit(g) BY <1>4, StepTransmit
<1>5. CASE ReadBody BY <1>5, StepReadBody
<1>6. CASE Close BY <1>6, StepClose
<1>7. CASE Drop BY <1>7, StepDrop
<1>8. CASE abandon BY <1>8, StepAbandon
<1>9. CASE Running
  BY <1>9, StepProcess, StepTerminalRead, StepReadReturns, StepCloseTelemetry, StepSnapshot, StepFinalize DEF Running
<1>10. CASE UNCHANGED vars
  <2>1. UNCHANGED <<phase, sampled, ctxDone, requestVars, bodyVars, parser, obs>> BY <1>10 DEF vars
  <2>2. Types' BY <2>1 DEF IInv, Types
  <2> QED BY <2>1, <2>2, FrameAttempt, FrameRequest DEF IInv
<1> QED BY <1>1, <1>2, <1>3, <1>4, <1>5, <1>6, <1>7, <1>8, <1>9, <1>10 DEF Next

(* The invariant of an attempt, for every cap and number of transmissions and reads. *)
THEOREM AttemptInductive == Spec => []IInv
<1>1. Init => IInv BY InitHolds
<1>2. IInv /\ [Next]_vars => IInv' BY StepHolds
<1> QED BY <1>1, <1>2, PTL DEF Spec

(* Every variable keeps its type, and both captures keep within their caps *)
(* (newRequestRecorder's and newBodyWrapper's), whatever the caps are.     *)
THEOREM AttemptTyped == Spec => []TypeOK
<1>1. IInv => TypeOK
  <2> SUFFICES ASSUME IInv PROVE TypeOK OBVIOUS
  <2>1. Types BY DEF IInv
  <2>2. {sampled, ctxDone, held, rcClosed} \subseteq BOOLEAN BY <2>1 DEF Types
  <2>3. \A g \in Sends : /\ send[g].at \in {"none", "open", "piece", "eof", "closing", "done"}
                         /\ send[g].sent \in 0..RequestPieces
    BY <2>1 DEF Types, Sending
  <2>4. rec.gen \in 0..MaxSends /\ Len(rec.buf) <= RequestCap BY <2>1 DEF Types, Recorder
  <2>5. {rec.overCap, rec.closed, rec.active, rec.disabled} \subseteq BOOLEAN BY <2>1 DEF Types, Recorder
  <2>6. \A a \in Actors :
          /\ actor[a].at \in {"idle", "process", "terminal", "done read", "close", "snapshot", "result", "ended"}
          /\ actor[a].outcome \in {"none", "complete", "failed", "incomplete", "canceled", "closedEarly"}
    BY ActorFields DEF Actor, Places, Ended
  <2>7. parser.fed \in Nat /\ parser.taken \in BOOLEAN BY <2>1 DEF Types
  <2>8. Len(parser.request) <= 1
    <3>1. CASE parser.request = <<>>
      <4>1. Len(<<>>) = 0 OBVIOUS
      <4>2. Len(parser.request) = 0 BY <3>1, <4>1
      <4> QED BY <4>2
    <3>2. CASE parser.request # <<>>
      <4>1. Len(parser.request) = 1 BY <3>2 DEF IInv, Recording
      <4> QED BY <4>1
    <3> QED BY <3>1, <3>2
  <2>9. body \in Body /\ reads \in 0..MaxReads /\ phase \in {"new", "exchange", "response", "failed", "untapped"}
    BY <2>1 DEF Types
  <2> QED BY <2>2, <2>3, <2>4, <2>5, <2>6, <2>7, <2>8, <2>9 DEF TypeOK, Body
<1> QED BY <1>1, AttemptInductive, PTL

(* Reads, a Close from another goroutine and the collector agree on who    *)
(* delivers the outcome: one update followed by one end.                   *)
THEOREM AttemptEndsOnce == Spec => []EndsOnce
<1>1. IInv => EndsOnce
  <2> SUFFICES ASSUME IInv PROVE EndsOnce OBVIOUS
  <2> DEFINE D == {a \in Actors : actor[a].at \in {"snapshot", "result"}}
  <2>1. obs.ends <= 1 /\ obs.updates <= 1 /\ obs.ends \in Nat BY DEF IInv, Delivery, Types
  <2>2. Cardinality(D) + obs.ends <= 1
    <3>1. CASE D = {}
      <4>1. Cardinality(D) = 0 BY <3>1, FS_EmptySet
      <4> HIDE DEF D
      <4> QED BY <2>1, <4>1
    <3>2. CASE D # {}
      <4>1. PICK a \in D : TRUE BY <3>2
      <4>2. D = {a} BY <4>1 DEF IInv, Delivery, Delivering
      <4>3. obs.ends = 0 BY <4>1 DEF IInv, Delivery, Delivering
      <4>4. Cardinality({a}) = 1 BY FS_Singleton
      <4>5. Cardinality(D) = 1 BY <4>2, <4>4
      <4> HIDE DEF D
      <4> QED BY <4>3, <4>5
    <3> QED BY <3>1, <3>2
  <2> QED BY <2>1, <2>2 DEF EndsOnce
<1> QED BY <1>1, AttemptInductive, PTL

(* What the parser gets for a request is the newest transmission, whole.   *)
THEOREM CapturesOneSend == Spec => []CaptureIsOneSend
<1>1. IInv => CaptureIsOneSend BY DEF IInv
<1> QED BY <1>1, AttemptInductive, PTL

(* The first protocol terminal a Read returned is the outcome.             *)
THEOREM FirstTerminalWins == Spec => []TerminalWins
<1>1. IInv => TerminalWins
  BY DEF IInv, Reading, TerminalWins, Unopposed, Won
<1> QED BY <1>1, AttemptInductive, PTL

(* The parser is touched by nobody once its result is taken, and fed by    *)
(* nobody once an outcome is on its way.                                   *)
THEOREM ParserIsQuiet == Spec => ParserQuiet
<1> DEFINE Quiet == /\ parser.taken => UNCHANGED parser
                    /\ (\E a \in Actors : actor[a].at \in {"snapshot", "result"}) => UNCHANGED parser.fed
<1>1. ASSUME IInv, [Next]_vars PROVE Quiet
  <2>1. parser.taken => body.finalized /\ \A a \in Actors : ~Delivering(a)
    BY <1>1 DEF IInv, Delivery
  <2>2. (\E a \in Actors : actor[a].at \in {"snapshot", "result"}) => body.finalized
    BY <1>1 DEF IInv, Delivery, Delivering
  <2>3. CASE UNCHANGED parser BY <2>3
  <2>4. CASE body.finalized /\ (process \/ terminalRead \/ \E a \in Actors : closeTelemetry(a))
    <3>1. UNCHANGED parser BY <2>4 DEF process, terminalRead, closeTelemetry, Inert
    <3> QED BY <3>1
  <2>5. CASE ~body.finalized BY <2>1, <2>2, <2>5
  <2>6. ASSUME NEW a \in Actors, snapshot(a) \/ finalize(a) PROVE Quiet
    <3>1. Delivering(a) BY <2>6 DEF snapshot, finalize, Delivering
    <3>2. ~parser.taken BY <2>1, <3>1
    <3>3. parser'.fed = parser.fed
      <4>1. PICK q : q = Seq(Seq(Sends \X (1..RequestPieces))) OBVIOUS
      <4>2. parser \in [fed : Nat, request : q, taken : BOOLEAN] BY <1>1, <4>1 DEF IInv, Types
      <4>3. CASE snapshot(a)
        <5>1. parser' = parser \/ parser' = [parser EXCEPT !.request = <<rec.buf>>] BY <4>3 DEF snapshot
        <5> QED BY <4>2, <5>1
      <4>4. CASE finalize(a)
        <5>1. parser' = [parser EXCEPT !.taken = sampled] BY <4>4 DEF finalize
        <5> QED BY <4>2, <5>1
      <4> QED BY <2>6, <4>3, <4>4
    <3> QED BY <3>2, <3>3
  <2>7. CASE RoundTrip \/ GetBody \/ ContextEnds \/ ReadBody \/ Close \/ Drop \/ abandon \/ ReadReturns
    <3>1. UNCHANGED parser
      BY <2>7 DEF RoundTrip, Begin, TransportError, newBodyWrapper, GetBody, ContextEnds, ReadBody, Close, Drop,
                  abandon, ReadReturns
    <3> QED BY <3>1
  <2>8. CASE \E g \in Sends : Transmit(g)
    <3>1. UNCHANGED parser BY <2>8 DEF Transmit, SendRead, observe, SendClose, markClosed
    <3> QED BY <3>1
  <2>9. CASE UNCHANGED vars
    <3>1. UNCHANGED parser BY <2>9 DEF vars
    <3> QED BY <3>1
  <2> QED BY <1>1, <2>4, <2>5, <2>6, <2>7, <2>8, <2>9 DEF Next, Running
<1>2. IInv /\ [Next]_vars => Quiet BY <1>1
<1>3. Spec => []IInv BY AttemptInductive
<1>4. Spec => [][Quiet]_vars
  <2>1. IInv /\ [Next]_vars => [Quiet]_vars BY <1>2
  <2> QED BY <1>3, <2>1, PTL DEF Spec
<1> QED BY <1>4 DEF ParserQuiet
================================================================================
