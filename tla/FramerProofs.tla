------------------------------ MODULE FramerProofs ------------------------------
(***************************************************************************)
(* The framer is right about every event of every stream, however the      *)
(* reads split it, and whatever the caps are (FramesExact).                *)
(***************************************************************************)
EXTENDS SseFramer, Loops

Bytes == STRING \cup {LF, CR, Colon, Space, Data}
Payloads == {<<>>} \cup {<<x>> : x \in Seq(Bytes)}
Events == [size : Nat, data : Payloads, blank : BOOLEAN, last : Seq(Bytes)]
Readers == [events : Seq(Events), size : Nat, data : Payloads, blank : BOOLEAN, line : Seq(Bytes)]

-----------------------------------------------------------------------------
(* The reader.                                                             *)

At(s, k) == Readings(s)[k]

LEMMA TrimTypes ==
  ASSUME NEW line \in Seq(Bytes)
  PROVE  TrimSuffix(line) \in Seq(Bytes) /\ TrimSpace(line) \in Seq(Bytes)
<1>1. line # <<>> => Len(line) \in Nat /\ Len(line) >= 1 OBVIOUS
<1>2. line # <<>> => SubSeq(line, 1, Len(line) - 1) \in Seq(Bytes) BY <1>1
<1>3. line # <<>> => SubSeq(line, 2, Len(line)) \in Seq(Bytes) BY <1>1
<1> QED BY <1>2, <1>3 DEF TrimSuffix, TrimSpace

LEMMA FieldType == ASSUME NEW line \in Seq(Bytes) PROVE sseField(line) \in Payloads
<1>1. <<>> \in Seq(Bytes) OBVIOUS
<1>2. Len(line) > 1 => SubSeq(line, 3, Len(line)) \in Seq(Bytes) OBVIOUS
<1>3. Len(line) > 1 => TrimSpace(SubSeq(line, 3, Len(line))) \in Seq(Bytes) BY <1>2, TrimTypes
<1> QED BY <1>1, <1>3 DEF sseField, Payloads

LEMMA JoinType ==
  ASSUME NEW data \in Payloads, NEW v \in Seq(Bytes)
  PROVE  Join(data, v) \in Payloads
<1>1. CASE data = <<>> BY <1>1 DEF Join, Payloads
<1>2. CASE data # <<>>
  <2>1. PICK x \in Seq(Bytes) : data = <<x>> BY <1>2 DEF Payloads
  <2>2. data[1] = x BY <2>1
  <2>3. <<LF>> \in Seq(Bytes) BY DEF Bytes
  <2>4. x \o <<LF>> \in Seq(Bytes) BY <2>3
  <2>5. (x \o <<LF>>) \o v \in Seq(Bytes) BY <2>4
  <2>6. Join(data, v) = << (x \o <<LF>>) \o v >> BY <1>2, <2>2 DEF Join
  <2> QED BY <2>5, <2>6 DEF Payloads
<1> QED BY <1>1, <1>2

LEMMA WithLineType ==
  ASSUME NEW data \in Payloads, NEW line \in Seq(Bytes)
  PROVE  WithLine(data, line) \in Payloads
<1>1. PICK value \in Payloads : value = sseField(TrimSuffix(line)) BY TrimTypes, FieldType
<1>2. CASE value = <<>> BY <1>1, <1>2 DEF WithLine
<1>3. CASE value # <<>>
  <2>1. value[1] \in Seq(Bytes) BY <1>3 DEF Payloads
  <2>2. WithLine(data, line) = Join(data, value[1]) BY <1>1, <1>3 DEF WithLine
  <2> QED BY <2>1, <2>2, JoinType
<1> QED BY <1>2, <1>3

LEMMA SilenceType == Silence \in Readers
<1>1. <<>> \in Seq(Bytes) /\ <<>> \in Seq(Events) /\ <<>> \in Payloads BY DEF Payloads
<1> QED BY <1>1 DEF Silence, Readers

\* What the reader is after a byte, field by field.
LEMMA HearsFields ==
  ASSUME NEW r \in Readers, NEW b \in Bytes
  PROVE  /\ Hears(r, b) \in Readers
         /\ b # LF => /\ Hears(r, b).line = Append(r.line, b) /\ Hears(r, b).events = r.events
                      /\ Hears(r, b).size = r.size /\ Hears(r, b).data = r.data /\ Hears(r, b).blank = r.blank
         /\ Ends(r, b) => /\ Hears(r, b).events = Append(r.events, EventOf(r)) /\ Hears(r, b).size = 0
                          /\ Hears(r, b).line = <<>> /\ Hears(r, b).data = <<>> /\ Hears(r, b).blank = FALSE
         /\ b = LF /\ ~Ends(r, b) =>
              /\ Hears(r, b).line = <<>> /\ Hears(r, b).events = r.events
              /\ Hears(r, b).size = r.size + Len(r.line) + 1 /\ Hears(r, b).data = WithLine(r.data, r.line)
              /\ Hears(r, b).blank = IF r.size = 0 THEN Blank(r.line) ELSE r.blank
<1>1. /\ r.line \in Seq(Bytes) /\ r.events \in Seq(Events) /\ r.size \in Nat /\ r.data \in Payloads
      /\ r.blank \in BOOLEAN
  BY DEF Readers
<1>2. CASE b # LF
  <2>1. Append(r.line, b) \in Seq(Bytes) BY <1>1
  <2>2. Hears(r, b) = [r EXCEPT !.line = Append(r.line, b)] BY <1>2 DEF Hears
  <2> QED BY <1>2, <2>1, <2>2 DEF Readers, Ends
<1>3. CASE Ends(r, b)
  <2>1. EventOf(r) \in Events BY <1>1 DEF EventOf, Events
  <2>2. Append(r.events, EventOf(r)) \in Seq(Events) BY <1>1, <2>1
  <2>3. b = LF BY <1>3 DEF Ends
  <2>4. Hears(r, b) = [Silence EXCEPT !.events = Append(r.events, EventOf(r))] BY <1>3, <2>3 DEF Hears
  <2> QED BY <1>3, <2>2, <2>3, <2>4, SilenceType DEF Readers, Silence
<1>4. CASE b = LF /\ ~Ends(r, b)
  <2>1. r.size + Len(r.line) + 1 \in Nat BY <1>1
  <2>2. WithLine(r.data, r.line) \in Payloads BY <1>1, WithLineType
  <2>6. Blank(r.line) \in BOOLEAN BY DEF Blank
  <2>3. PICK bl \in BOOLEAN : bl = IF r.size = 0 THEN Blank(r.line) ELSE r.blank BY <1>1, <2>6
  <2>4. Hears(r, b) = [r EXCEPT !.size = r.size + Len(r.line) + 1, !.data = WithLine(r.data, r.line),
                                !.line = <<>>, !.blank = bl]
    BY <1>4, <2>3 DEF Hears
  <2>5. <<>> \in Seq(Bytes) OBVIOUS
  <2> QED BY <1>4, <2>1, <2>2, <2>3, <2>4, <2>5 DEF Readers
<1> QED BY <1>2, <1>3, <1>4

LEMMA Hearing ==
  ASSUME NEW s \in Seq(Bytes)
  PROVE  /\ At(s, 0) = Silence
         /\ \A k \in 0..Len(s) : At(s, k) \in Readers
         /\ \A k \in 1..Len(s) : At(s, k) = Hears(At(s, k - 1), s[k])
<1>1. PICK n \in Nat : n = Len(s) OBVIOUS
<1>2. \A k \in 1..n : s[k] \in Bytes BY <1>1
<1> DEFINE step == [k \in 1..n |-> [r \in Readers |-> Hears(r, s[k])]]
<1>3. step \in [1..n -> [Readers -> Readers]] BY <1>2, HearsFields
<1>4. PICK f : Loop(f, Readers, Silence, step, n) BY <1>3, SilenceType, LoopEnds
<1>5. f \in [0..n -> Readers] /\ f[0] = Silence BY <1>4 DEF Loop
<1>6. \A k \in 1..n : f[k] = Hears(f[k - 1], s[k])
  <2> TAKE k \in 1..n
  <2>1. k - 1 \in 0..n BY <1>1
  <2>2. f[k - 1] \in Readers BY <2>1, <1>5
  <2>3. step[k] = [r \in Readers |-> Hears(r, s[k])] OBVIOUS
  <2>4. f[k] = step[k][f[k - 1]] BY <1>4 DEF Loop
  <2> QED BY <2>2, <2>3, <2>4
<1> HIDE DEF step
<1> DEFINE P(g) == g = [k \in 0..Len(s) |-> IF k = 0 THEN Silence ELSE Hears(g[k - 1], s[k])]
<1>7. P(f)
  <2>1. f = [k \in 0..n |-> f[k]] BY <1>5
  <2>2. \A k \in 0..n : f[k] = IF k = 0 THEN Silence ELSE Hears(f[k - 1], s[k])
    <3> TAKE k \in 0..n
    <3>1. k # 0 => k \in 1..n BY <1>1
    <3> QED BY <3>1, <1>5, <1>6
  <2>3. [k \in 0..n |-> f[k]] = [k \in 0..n |-> IF k = 0 THEN Silence ELSE Hears(f[k - 1], s[k])] BY <2>2
  <2> QED BY <2>1, <2>3, <1>1
<1>8. P(CHOOSE g : P(g)) BY <1>7
<1>9. Readings(s) = CHOOSE g : P(g) BY DEF Readings
<1>10. P(Readings(s)) BY <1>8, <1>9
<1>11. PICK g : g = Readings(s) /\ g = [k \in 0..n |-> IF k = 0 THEN Silence ELSE Hears(g[k - 1], s[k])]
  BY <1>10, <1>1
<1>12. g[0] = Silence BY <1>11, <1>1
<1>13. \A k \in 1..n : g[k] = Hears(g[k - 1], s[k])
  <2> TAKE k \in 1..n
  <2>1. k \in 0..n /\ k # 0 BY <1>1
  <2> QED BY <2>1, <1>11
<1>14. \A k \in 1..n : g[k - 1] \in Readers => g[k] \in Readers BY <1>13, <1>2, HearsFields
<1>15. \A k \in 0..n : g[k] \in Readers BY <1>12, <1>14, SilenceType, LoopStays
<1> QED BY <1>1, <1>11, <1>12, <1>13, <1>15 DEF At

-----------------------------------------------------------------------------
(* Where the open event and the open line begin.                           *)

Start(s, k) == k - (At(s, k).size + Len(At(s, k).line))

\* The open line is the bytes after the last line feed.
Shape(s, k) ==
  LET r == At(s, k)
  IN /\ r.size + Len(r.line) <= k
     /\ \A i \in 1..Len(r.line) : r.line[i] = s[k - Len(r.line) + i] /\ r.line[i] # LF
     /\ Len(r.line) = k \/ s[k - Len(r.line)] = LF
     /\ r.size = 0 => r.data = <<>> /\ ~r.blank

LEMMA ReaderFields ==
  ASSUME NEW r \in Readers
  PROVE  /\ r.line \in Seq(Bytes) /\ r.events \in Seq(Events) /\ r.size \in Nat /\ r.data \in Payloads
         /\ r.blank \in BOOLEAN /\ Len(r.line) \in Nat
BY DEF Readers

LEMMA ShapeStep ==
  ASSUME NEW s \in Seq(Bytes), NEW k \in 1..Len(s), Shape(s, k - 1)
  PROVE  Shape(s, k)
<1>1. PICK r \in Readers : r = At(s, k - 1) BY Hearing
<1>2. PICK q \in Readers : q = At(s, k) BY Hearing
<1>3. q = Hears(r, s[k]) BY <1>1, <1>2, Hearing
<1>4. s[k] \in Bytes OBVIOUS
<1>5. /\ r.line \in Seq(Bytes) /\ r.size \in Nat /\ Len(r.line) \in Nat
  BY ReaderFields
<1>6. /\ r.size + Len(r.line) <= k - 1
      /\ \A i \in 1..Len(r.line) : r.line[i] = s[k - 1 - Len(r.line) + i] /\ r.line[i] # LF
      /\ Len(r.line) = k - 1 \/ s[k - 1 - Len(r.line)] = LF
      /\ r.size = 0 => r.data = <<>> /\ ~r.blank
  BY <1>1 DEF Shape
<1> SUFFICES /\ q.size + Len(q.line) <= k
             /\ \A i \in 1..Len(q.line) : q.line[i] = s[k - Len(q.line) + i] /\ q.line[i] # LF
             /\ Len(q.line) = k \/ s[k - Len(q.line)] = LF
             /\ q.size = 0 => q.data = <<>> /\ ~q.blank
  BY <1>2 DEF Shape
<1>7. CASE s[k] # LF
  <2>1. /\ q.line = Append(r.line, s[k]) /\ q.size = r.size /\ q.data = r.data /\ q.blank = r.blank
    BY <1>3, <1>4, <1>7, HearsFields
  <2>2. PICK n \in Nat : n = Len(r.line) BY <1>5
  <2>3. Len(q.line) = n + 1 /\ q.line[n + 1] = s[k] BY <2>1, <2>2, <1>5, <1>4
  <2>4. \A i \in 1..n : q.line[i] = r.line[i] BY <2>1, <2>2, <1>5, <1>4
  <2>5. \A i \in 1..(n + 1) : q.line[i] = s[k - (n + 1) + i] /\ q.line[i] # LF
    <3> TAKE i \in 1..(n + 1)
    <3>1. CASE i = n + 1 BY <3>1, <2>3, <1>7
    <3>2. CASE i \in 1..n
      <4>1. q.line[i] = s[k - 1 - n + i] /\ q.line[i] # LF BY <3>2, <2>4, <1>6, <2>2
      <4>2. k - 1 - n + i = k - (n + 1) + i BY <2>2, <3>2
      <4> QED BY <4>1, <4>2
    <3> QED BY <3>1, <3>2
  <2>6. k - 1 - n = k - (n + 1) BY <2>2
  <2>7. q.size + Len(q.line) <= k BY <2>1, <2>2, <2>3, <1>5, <1>6
  <2>8. Len(q.line) = k \/ s[k - Len(q.line)] = LF BY <2>2, <2>3, <2>6, <1>6
  <2>9. q.size = 0 => q.data = <<>> /\ ~q.blank BY <2>1, <1>6
  <2> QED BY <2>3, <2>5, <2>7, <2>8, <2>9
<1>8. CASE s[k] = LF
  <2>1. q.line = <<>> /\ q.size \in Nat BY <1>3, <1>4, <1>8, HearsFields, ReaderFields
  <2>2. \/ q.size = 0 /\ q.data = <<>> /\ q.blank = FALSE
        \/ q.size = r.size + Len(r.line) + 1
    BY <1>3, <1>4, <1>8, HearsFields
  <2>3. q.size <= k /\ (q.size = 0 => q.data = <<>> /\ ~q.blank) BY <2>2, <1>5, <1>6
  <2>4. Len(q.line) = 0 /\ k - 0 = k BY <2>1
  <2> QED BY <2>1, <2>3, <2>4, <1>8
<1> QED BY <1>7, <1>8

LEMMA Shapes == ASSUME NEW s \in Seq(Bytes), NEW k \in 0..Len(s) PROVE Shape(s, k)
<1>1. PICK n \in Nat : n = Len(s) OBVIOUS
<1> DEFINE S == {m \in Nat : m <= n => Shape(s, m)}
<1>2. 0 \in S
  <2>1. At(s, 0) = Silence BY Hearing
  <2>2. Silence.size = 0 /\ Silence.line = <<>> /\ Silence.data = <<>> /\ Silence.blank = FALSE BY DEF Silence
  <2>3. Shape(s, 0) BY <2>1, <2>2 DEF Shape
  <2> QED BY <2>3
<1>3. ASSUME NEW m \in Nat, m \in S PROVE m + 1 \in S
  <2> SUFFICES ASSUME m + 1 <= n PROVE Shape(s, m + 1)
    OBVIOUS
  <2>1. Shape(s, m) BY <1>3
  <2>2. m + 1 \in 1..Len(s) /\ m + 1 - 1 = m BY <1>1
  <2> QED BY <2>1, <2>2, ShapeStep
<1>4. Nat \subseteq S BY <1>2, <1>3, SetInduction
<1> QED BY <1>4, <1>1

-----------------------------------------------------------------------------
(* Where events end.                                                       *)

EndsAt(s, m) == Ends(At(s, m - 1), s[m])
NoEnd(s, a, c) == \A m \in (a + 1)..c : ~EndsAt(s, m)

LEMMA Onwards ==
  ASSUME NEW S, NEW a \in Nat, NEW c \in Nat, a <= c, a \in S, \A m \in (a + 1)..c : m - 1 \in S => m \in S
  PROVE  c \in S
<1> DEFINE T == {i \in Nat : a + i <= c => a + i \in S}
<1>1. 0 \in T OBVIOUS
<1>2. ASSUME NEW i \in Nat, i \in T PROVE i + 1 \in T
  <2> SUFFICES ASSUME a + (i + 1) <= c PROVE a + (i + 1) \in S
    OBVIOUS
  <2>1. a + i \in S BY <1>2
  <2>2. a + (i + 1) \in (a + 1)..c /\ a + (i + 1) - 1 = a + i OBVIOUS
  <2> QED BY <2>1, <2>2
<1>3. Nat \subseteq T BY <1>1, <1>2, SetInduction
<1>4. c - a \in T /\ a + (c - a) = c BY <1>3
<1> QED BY <1>4

LEMMA StartStep ==
  ASSUME NEW s \in Seq(Bytes), NEW m \in 1..Len(s)
  PROVE  /\ ~EndsAt(s, m) => /\ Start(s, m) = Start(s, m - 1) /\ At(s, m).events = At(s, m - 1).events
                             /\ At(s, m - 1).blank => At(s, m).blank
         /\ EndsAt(s, m) => /\ Start(s, m) = m /\ At(s, m).size = 0 /\ At(s, m).line = <<>>
                            /\ At(s, m).events = Append(At(s, m - 1).events, EventOf(At(s, m - 1)))
<1>1. PICK r \in Readers : r = At(s, m - 1) BY Hearing
<1>2. PICK q \in Readers : q = At(s, m) BY Hearing
<1>3. q = Hears(r, s[m]) BY <1>1, <1>2, Hearing
<1>4. s[m] \in Bytes OBVIOUS
<1>5. PICK n \in Nat : n = Len(r.line) /\ r.line \in Seq(Bytes) /\ r.size \in Nat BY ReaderFields
<1>6. r.size = 0 => ~r.blank
  <2>1. Shape(s, m - 1) BY Shapes
  <2> QED BY <2>1, <1>1 DEF Shape
<1>7. EndsAt(s, m) <=> Ends(r, s[m]) BY <1>1 DEF EndsAt
<1>8. Start(s, m) = m - (q.size + Len(q.line)) /\ Start(s, m - 1) = m - 1 - (r.size + n)
  BY <1>1, <1>2, <1>5 DEF Start
<1>9. CASE s[m] # LF
  <2>1. /\ q.line = Append(r.line, s[m]) /\ q.events = r.events /\ q.size = r.size /\ q.blank = r.blank
    BY <1>3, <1>4, <1>9, HearsFields
  <2>2. Len(q.line) = n + 1 BY <2>1, <1>5, <1>4
  <2>3. ~Ends(r, s[m]) BY <1>9 DEF Ends
  <2>5. m \in Nat /\ q.size = r.size BY <2>1
  <2>4. Start(s, m) = Start(s, m - 1) BY <1>8, <2>2, <2>5, <1>5, SMTT(30)
  <2> QED BY <2>1, <2>3, <2>4, <1>1, <1>2, <1>7
<1>10. CASE s[m] = LF /\ ~Ends(r, s[m])
  <2>1. /\ q.line = <<>> /\ q.events = r.events /\ q.size = r.size + n + 1
        /\ q.blank = IF r.size = 0 THEN Blank(r.line) ELSE r.blank
    BY <1>3, <1>4, <1>5, <1>10, HearsFields
  <2>2. Len(q.line) = 0 BY <2>1
  <2>3. q.size = r.size + n + 1 BY <2>1
  <2>4. Start(s, m) = Start(s, m - 1) BY <1>8, <2>2, <2>3, <1>5
  <2>5. r.blank => q.blank BY <2>1, <1>6
  <2> QED BY <2>1, <2>4, <2>5, <1>1, <1>2, <1>7, <1>10
<1>11. CASE Ends(r, s[m])
  <2>1. /\ q.line = <<>> /\ q.events = Append(r.events, EventOf(r)) /\ q.size = 0
    BY <1>3, <1>4, <1>11, HearsFields
  <2>2. Len(q.line) = 0 BY <2>1
  <2>4. Start(s, m) = m BY <1>8, <2>1, <2>2
  <2> QED BY <2>1, <2>4, <1>1, <1>2, <1>7, <1>11
<1>12. Ends(r, s[m]) => s[m] = LF BY DEF Ends
<1> QED BY <1>9, <1>10, <1>11

LEMMA Steady ==
  ASSUME NEW s \in Seq(Bytes), NEW a \in Nat, NEW c \in Nat, a <= c, c <= Len(s), NoEnd(s, a, c)
  PROVE  /\ Start(s, c) = Start(s, a) /\ At(s, c).events = At(s, a).events
         /\ At(s, a).blank => At(s, c).blank
<1>0. PICK n \in Nat : n = Len(s) OBVIOUS
<1> DEFINE S == {m \in a..c : /\ Start(s, m) = Start(s, a) /\ At(s, m).events = At(s, a).events
                              /\ At(s, a).blank = TRUE => At(s, m).blank = TRUE}
<1>1. a \in S OBVIOUS
<1>2. ASSUME NEW m \in (a + 1)..c, m - 1 \in S PROVE m \in S
  <2>1. m \in 1..Len(s) /\ m \in 0..Len(s) /\ m \in a..c BY <1>0
  <2>2. ~EndsAt(s, m) BY DEF NoEnd
  <2>3. /\ Start(s, m) = Start(s, m - 1) /\ At(s, m).events = At(s, m - 1).events
        /\ At(s, m - 1).blank = TRUE => At(s, m).blank = TRUE
    <3>1. At(s, m).blank \in BOOLEAN BY <2>1, Hearing, ReaderFields
    <3> QED BY <3>1, <2>1, <2>2, StartStep
  <2> QED BY <2>1, <2>3, <1>2
<1>3. c \in S
  <2> HIDE DEF S
  <2> QED BY <1>1, <1>2, Onwards
<1>4. Start(s, c) = Start(s, a) /\ At(s, c).events = At(s, a).events BY <1>3
<1>6. At(s, a).blank = TRUE => At(s, c).blank = TRUE BY <1>3
<1>5. At(s, a).blank => At(s, c).blank
  <2>1. At(s, a).blank \in BOOLEAN BY <1>0, Hearing, ReaderFields
  <2> QED BY <2>1, <1>6
<1> QED BY <1>4, <1>5

LEMMA SingleByte ==
  ASSUME NEW line \in Seq(Bytes), Len(line) = 1
  PROVE  line = <<line[1]>>
OBVIOUS

LEMMA EndsWhere ==
  ASSUME NEW s \in Seq(Bytes), NEW m \in 1..Len(s)
  PROVE  EndsAt(s, m) <=>
           /\ s[m] = LF
           /\ \/ m - 1 > Start(s, m - 1) /\ s[m - 1] = LF
              \/ m - 2 > Start(s, m - 1) /\ s[m - 2] = LF /\ s[m - 1] = CR
<1>1. PICK r \in Readers : r = At(s, m - 1) BY Hearing
<1>2. PICK n \in Nat : n = Len(r.line) /\ r.line \in Seq(Bytes) /\ r.size \in Nat BY ReaderFields
<1>3. m - 1 \in 0..Len(s) /\ m \in Nat OBVIOUS
<1>4. /\ r.size + n <= m - 1
      /\ \A i \in 1..n : r.line[i] = s[m - 1 - n + i] /\ r.line[i] # LF
      /\ n = m - 1 \/ s[m - 1 - n] = LF
  <2>1. Shape(s, m - 1) BY Shapes
  <2> QED BY <2>1, <1>1, <1>2 DEF Shape
<1>5. Start(s, m - 1) = m - 1 - (r.size + n) BY <1>1, <1>2 DEF Start
<1>6. EndsAt(s, m) <=> s[m] = LF /\ r.line \in {<<>>, <<CR>>} /\ r.size > 0 BY <1>1 DEF EndsAt, Ends, Blank
<1>7. r.line = <<>> <=> n = 0 BY <1>2
<1>8. r.line = <<CR>> <=> n = 1 /\ s[m - 1] = CR
  <2>1. n = 1 => r.line[1] = s[m - 1]
    <3>1. n = 1 => m - 1 - n + 1 = m - 1 BY <1>3
    <3> QED BY <3>1, <1>4
  <2>2. r.line = <<CR>> => n = 1 /\ r.line[1] = CR BY <1>2
  <2>3. n = 1 /\ r.line[1] = CR => r.line = <<CR>> BY <1>2, SingleByte
  <2> QED BY <2>1, <2>2, <2>3
<1>9. n >= 1 => s[m - 1] # LF
  <2>1. n >= 1 => n \in 1..n /\ m - 1 - n + n = m - 1 BY <1>2, <1>3
  <2> QED BY <2>1, <1>4
<1>10. n >= 2 => s[m - 2] # LF
  <2>1. n >= 2 => n - 1 \in 1..n /\ m - 1 - n + (n - 1) = m - 2 BY <1>2, <1>3
  <2> QED BY <2>1, <1>4
<1>11. n = 0 => m - 1 = 0 \/ s[m - 1] = LF
  <2>1. m - 1 - 0 = m - 1 BY <1>3
  <2> QED BY <2>1, <1>4
<1>12. n = 1 => m - 1 = 1 \/ s[m - 2] = LF
  <2>1. m - 1 - 1 = m - 2 BY <1>3
  <2> QED BY <2>1, <1>4
<1>13. LF # CR BY DEF LF, CR
<1>14. r.line = <<>> /\ r.size > 0 <=> m - 1 > Start(s, m - 1) /\ s[m - 1] = LF
  <2>1. n = 0 /\ r.size > 0 => m - 1 > Start(s, m - 1) /\ s[m - 1] = LF BY <1>2, <1>3, <1>4, <1>5, <1>11
  <2>2. m - 1 > Start(s, m - 1) /\ s[m - 1] = LF => n = 0 /\ r.size > 0 BY <1>2, <1>3, <1>5, <1>9
  <2> QED BY <2>1, <2>2, <1>7
<1>15. r.line = <<CR>> /\ r.size > 0 <=> m - 2 > Start(s, m - 1) /\ s[m - 2] = LF /\ s[m - 1] = CR
  <2>1. n = 1 /\ r.size > 0 => m - 2 > Start(s, m - 1) /\ s[m - 2] = LF
    <3>1. ASSUME n = 1, r.size > 0 PROVE m - 2 > Start(s, m - 1) BY <3>1, <1>2, <1>3, <1>5
    <3>2. ASSUME n = 1, r.size > 0 PROVE m - 1 # 1 BY <3>2, <1>2, <1>3, <1>4
    <3> QED BY <3>1, <3>2, <1>12
  <2>2. m - 2 > Start(s, m - 1) /\ s[m - 2] = LF /\ s[m - 1] = CR => n = 1 /\ r.size > 0
    <3> SUFFICES ASSUME m - 2 > Start(s, m - 1), s[m - 2] = LF, s[m - 1] = CR PROVE n = 1 /\ r.size > 0
      OBVIOUS
    <3>1. ~ (n >= 2) BY <1>10
    <3>2. m - 1 # 0 BY <1>2, <1>3, <1>4, <1>5
    <3>3. n # 0 BY <3>2, <1>11, <1>13
    <3>4. n = 1 BY <3>1, <3>3
    <3>5. m - 2 > m - 1 - (r.size + 1) BY <3>4, <1>5
    <3> QED BY <3>4, <3>5, <1>2, <1>3
  <2> QED BY <2>1, <2>2, <1>8
<1> QED BY <1>6, <1>14, <1>15

LEMMA FreshFields ==
  ASSUME NEW s \in Seq(Bytes), NEW b \in 0..Len(s), Start(s, b) = b
  PROVE  At(s, b).size = 0 /\ At(s, b).line = <<>> /\ At(s, b).data = <<>> /\ ~At(s, b).blank
<1>1. PICK r \in Readers : r = At(s, b) BY Hearing
<1>2. r.line \in Seq(Bytes) /\ r.size \in Nat /\ Len(r.line) \in Nat BY ReaderFields
<1>3. r.size = 0 /\ Len(r.line) = 0 BY <1>1, <1>2 DEF Start
<1>4. Shape(s, b) BY Shapes
<1> QED BY <1>1, <1>2, <1>3, <1>4 DEF Shape

LEMMA Earlier ==
  ASSUME NEW s \in Seq(Bytes), NEW a \in Nat, NEW c \in Nat, a <= c, c <= Len(s)
  PROVE  /\ Len(At(s, a).events) <= Len(At(s, c).events)
         /\ \A i \in 1..Len(At(s, a).events) : At(s, c).events[i] = At(s, a).events[i]
<1>0. PICK n \in Nat : n = Len(s) OBVIOUS
<1>1. PICK old \in Seq(Events) : old = At(s, a).events
  <2>1. a \in 0..Len(s) BY <1>0
  <2> QED BY <2>1, Hearing, ReaderFields
<1> DEFINE S == {m \in a..c : Len(old) <= Len(At(s, m).events)
                               /\ \A i \in 1..Len(old) : At(s, m).events[i] = old[i]}
<1>2. a \in S BY <1>1
<1>3. ASSUME NEW m \in (a + 1)..c, m - 1 \in S PROVE m \in S
  <2>1. m \in 1..Len(s) /\ m \in a..c /\ m - 1 \in 0..Len(s) BY <1>0
  <2>2. PICK es \in Seq(Events) : es = At(s, m - 1).events BY <2>1, Hearing, ReaderFields
  <2>3. Len(old) <= Len(es) /\ \A i \in 1..Len(old) : es[i] = old[i] BY <2>2, <1>3
  <2>4. CASE ~EndsAt(s, m)
    <3>1. At(s, m).events = es BY <2>1, <2>2, <2>4, StartStep
    <3> QED BY <3>1, <2>1, <2>3
  <2>5. CASE EndsAt(s, m)
    <3>1. PICK e : At(s, m).events = Append(es, e) BY <2>1, <2>2, <2>5, StartStep
    <3>2. Len(Append(es, e)) = Len(es) + 1 /\ \A i \in 1..Len(es) : Append(es, e)[i] = es[i] BY <2>2
    <3>3. \A i \in 1..Len(old) : i \in 1..Len(es) BY <2>3, <2>2, <1>1
    <3> QED BY <3>1, <3>2, <3>3, <2>1, <2>2, <2>3, <1>1, SMTT(30)
  <2> QED BY <2>4, <2>5
<1>4. c \in S
  <2> HIDE DEF S
  <2> QED BY <1>2, <1>3, Onwards
<1> QED BY <1>1, <1>4

LEMMA StartBelow ==
  ASSUME NEW s \in Seq(Bytes), NEW k \in 0..Len(s)
  PROVE  Start(s, k) \in 0..k /\ At(s, k).size + Len(At(s, k).line) = k - Start(s, k)
<1>1. PICK r \in Readers : r = At(s, k) BY Hearing
<1>2. r.size \in Nat /\ Len(r.line) \in Nat BY ReaderFields
<1>3. r.size + Len(r.line) <= k
  <2>1. Shape(s, k) BY Shapes
  <2> QED BY <2>1, <1>1 DEF Shape
<1>4. k \in Nat OBVIOUS
<1> QED BY <1>1, <1>2, <1>3, <1>4 DEF Start

\* Within a line nothing changes but the line.
LEMMA Quiet ==
  ASSUME NEW s \in Seq(Bytes), NEW a \in Nat, NEW c \in Nat, a <= c, c <= Len(s),
         \A m \in (a + 1)..c : s[m] # LF
  PROVE  /\ At(s, c).data = At(s, a).data /\ At(s, c).size = At(s, a).size
         /\ At(s, c).blank = At(s, a).blank /\ NoEnd(s, a, c)
<1>0. PICK n \in Nat : n = Len(s) OBVIOUS
<1> DEFINE S == {m \in a..c : At(s, m).data = At(s, a).data /\ At(s, m).size = At(s, a).size
                              /\ At(s, m).blank = At(s, a).blank}
<1>1. a \in S OBVIOUS
<1>2. ASSUME NEW m \in (a + 1)..c, m - 1 \in S PROVE m \in S
  <2>1. m \in 1..Len(s) /\ m - 1 \in 0..Len(s) /\ m \in a..c /\ s[m] \in Bytes BY <1>0
  <2>2. PICK r \in Readers : r = At(s, m - 1) BY <2>1, Hearing
  <2>3. At(s, m) = Hears(r, s[m]) BY <2>1, <2>2, Hearing
  <2>4. s[m] # LF OBVIOUS
  <2>5. At(s, m).data = r.data /\ At(s, m).size = r.size /\ At(s, m).blank = r.blank
    <3>1. PICK b \in Bytes : b = s[m] BY <2>1
    <3>2. Hears(r, b).data = r.data /\ Hears(r, b).size = r.size /\ Hears(r, b).blank = r.blank
      BY <3>1, <2>4, HearsFields
    <3> QED BY <3>1, <3>2, <2>3
  <2> QED BY <2>1, <2>2, <2>5, <1>2
<1>3. c \in S
  <2> HIDE DEF S
  <2> QED BY <1>1, <1>2, Onwards
<1>4. NoEnd(s, a, c) BY DEF NoEnd, EndsAt, Ends
<1> QED BY <1>3, <1>4

\* An event with more bytes than the cap before it ends is over it, unless the
\* last of them is half of the blank line.
LEMMA EventSize ==
  ASSUME NEW s \in Seq(Bytes), NEW m \in 1..Len(s), EndsAt(s, m)
  PROVE  LET e == EventOf(At(s, m - 1))
         IN /\ e.size = m - 1 - Len(At(s, m - 1).line) - Start(s, m - 1)
            /\ m - 1 - Start(s, m - 1) > MaxEvent => Over(e) \/ MayCountAsOver(e)
<1>1. PICK r \in Readers : r = At(s, m - 1) BY Hearing
<1>2. r.size \in Nat /\ Len(r.line) \in Nat BY ReaderFields
<1>3. m - 1 \in 0..Len(s) /\ m \in Nat OBVIOUS
<1>4. Start(s, m - 1) \in 0..(m - 1) /\ r.size + Len(r.line) = m - 1 - Start(s, m - 1) BY <1>1, <1>3, StartBelow
<1>5. r.line = <<>> \/ r.line = <<CR>> BY <1>1 DEF EndsAt, Ends, Blank
<1>6. EventOf(r).size = r.size /\ EventOf(r).last = r.line BY DEF EventOf
<1>7. Len(r.line) = 0 \/ (Len(r.line) = 1 /\ r.line = <<CR>>)
  <2>1. Len(<<>>) = 0 /\ Len(<<CR>>) = 1 OBVIOUS
  <2> QED BY <1>5, <2>1
<1>8. MaxEvent \in Nat BY FramerBounds
<1>9. EventOf(r).size = m - 1 - Len(r.line) - Start(s, m - 1)
  <2>1. PICK t \in Nat : t = Start(s, m - 1) BY <1>4
  <2>2. PICK w \in Nat : w = Len(r.line) BY <1>2
  <2>3. PICK z \in Nat : z = r.size BY <1>2
  <2>4. z + w = m - 1 - t BY <1>4, <2>1, <2>2, <2>3
  <2>5. z = m - 1 - w - t BY <2>4, <1>3
  <2> QED BY <2>1, <2>2, <2>3, <2>5, <1>6
<1>10. m - 1 - Start(s, m - 1) > MaxEvent => r.size > MaxEvent \/ (r.size = MaxEvent /\ r.line = <<CR>>)
  <2> SUFFICES ASSUME m - 1 - Start(s, m - 1) > MaxEvent
               PROVE  r.size > MaxEvent \/ (r.size = MaxEvent /\ r.line = <<CR>>)
    OBVIOUS
  <2>1. r.size + Len(r.line) > MaxEvent BY <1>4
  <2>2. CASE Len(r.line) = 0 BY <2>1, <2>2, <1>2, <1>8
  <2>3. CASE Len(r.line) = 1 /\ r.line = <<CR>> BY <2>1, <2>3, <1>2, <1>8
  <2> QED BY <2>2, <2>3, <1>7
<1> QED BY <1>1, <1>6, <1>9, <1>10 DEF Over, MayCountAsOver

LEMMA MisreadStays ==
  ASSUME NEW s \in Seq(Bytes), NEW a \in Nat, NEW c \in Nat, a <= c, c <= Len(s), MisreadIn(At(s, a))
  PROVE  MisreadIn(At(s, c))
<1>0. PICK n \in Nat : n = Len(s) OBVIOUS
<1> DEFINE S == {m \in a..c : MisreadIn(At(s, m))}
<1>1. a \in S OBVIOUS
<1>2. ASSUME NEW m \in (a + 1)..c, m - 1 \in S PROVE m \in S
  <2>1. m \in 1..Len(s) /\ m - 1 \in 0..Len(s) /\ m \in 0..Len(s) /\ m \in a..c /\ m \in Nat BY <1>0
  <2>2. PICK r \in Readers : r = At(s, m - 1) BY <2>1, Hearing
  <2>3. PICK q \in Readers : q = At(s, m) BY <2>1, Hearing
  <2>4. MisreadIn(r) BY <1>2, <2>2
  <2>5. r.events \in Seq(Events) /\ q.events \in Seq(Events) BY ReaderFields
  <2>6. MaxEvent \in Nat BY FramerBounds
  <2>7. CASE \E i \in DOMAIN r.events : r.events[i].blank /\ (Over(r.events[i]) \/ MayCountAsOver(r.events[i]))
    <3>1. PICK i \in 1..Len(r.events) : r.events[i].blank /\ (Over(r.events[i]) \/ MayCountAsOver(r.events[i]))
      BY <2>5, <2>7
    <3>2. Len(r.events) <= Len(q.events) /\ q.events[i] = r.events[i]
      <4>1. m - 1 \in Nat /\ m - 1 <= m /\ m <= Len(s) BY <2>1
      <4> QED BY <4>1, <2>1, <2>2, <2>3, Earlier
    <3>3. i \in DOMAIN q.events BY <3>2, <2>5
    <3>4. MisreadIn(q) BY <3>1, <3>2, <3>3 DEF MisreadIn
    <3> QED BY <3>4, <2>1, <2>3
  <2>8. CASE r.blank /\ r.size + Len(r.line) > MaxEvent
    <3>1. m - 1 - Start(s, m - 1) > MaxEvent BY <2>8, <2>1, <2>2, StartBelow
    <3>2. CASE ~EndsAt(s, m)
      <4>1. q.blank /\ Start(s, m) = Start(s, m - 1) BY <2>1, <2>2, <2>3, <2>8, <3>2, StartStep
      <4>2. Start(s, m) \in 0..m /\ q.size + Len(q.line) = m - Start(s, m) BY <2>1, <2>3, StartBelow
      <4>3. Start(s, m - 1) \in 0..(m - 1) BY <2>1, StartBelow
      <4>4. m - Start(s, m) > MaxEvent BY <4>1, <4>2, <4>3, <3>1, <2>1, <2>6
      <4>5. q.size + Len(q.line) > MaxEvent BY <4>2, <4>4
      <4>6. MisreadIn(q) BY <4>1, <4>5 DEF MisreadIn
      <4> QED BY <4>6, <2>1, <2>3
    <3>3. CASE EndsAt(s, m)
      <4>1. PICK e : e = EventOf(r) OBVIOUS
      <4>2. q.events = Append(r.events, e) BY <4>1, <2>1, <2>2, <2>3, <3>3, StartStep
      <4>3. Over(e) \/ MayCountAsOver(e) BY <4>1, <2>1, <2>2, <3>1, <3>3, EventSize
      <4>4. e.blank BY <4>1, <2>8 DEF EventOf
      <4>5. PICK i : i = Len(r.events) + 1 OBVIOUS
      <4>6. i \in DOMAIN q.events /\ q.events[i] = e
        <5>1. Len(q.events) = i BY <4>2, <4>5, <2>5
        <5>2. i \in 1..Len(q.events) BY <5>1, <4>5, <2>5
        <5> QED BY <5>2, <4>2, <4>5, <2>5
      <4>7. MisreadIn(q) BY <4>3, <4>4, <4>6 DEF MisreadIn
      <4> QED BY <4>7, <2>1, <2>3
    <3> QED BY <3>2, <3>3
  <2> QED BY <2>4, <2>7, <2>8 DEF MisreadIn
<1>3. c \in S
  <2> HIDE DEF S
  <2> QED BY <1>1, <1>2, Onwards
<1> QED BY <1>3

-----------------------------------------------------------------------------
(* What nextEvent finds.                                                   *)

\* p is what follows the first b bytes.
Window(s, b, p) ==
  /\ b \in Nat /\ p \in Seq(Bytes) /\ b + Len(p) <= Len(s)
  /\ \A i \in 1..Len(p) : p[i] = s[b + i]

\* No event ends within a blank line that begins before b.
Clear(s, b) ==
  /\ b > Start(s, b) => s[b] # LF
  /\ b - 1 > Start(s, b) => ~ (s[b - 1] = LF /\ s[b] = CR)

LEMMA LeastOf ==
  ASSUME NEW S \in SUBSET Nat, S # {}
  PROVE  First(S) \in S /\ \A j \in S : First(S) <= j
<1>1. \E i \in S : \A j \in S : i <= j
  <2> SUFFICES ASSUME \A i \in S : \E j \in S : ~ (i <= j) PROVE FALSE
    OBVIOUS
  <2> DEFINE T == {n \in Nat : \A m \in 0..n : m \notin S}
  <2>1. 0 \in T
    <3>1. \A j \in S : 0 <= j OBVIOUS
    <3>2. 0 \notin S BY <3>1
    <3> QED BY <3>2
  <2>2. ASSUME NEW n \in Nat, n \in T PROVE n + 1 \in T
    <3>1. \A j \in S : ~ (j <= n) BY <2>2
    <3>2. \A j \in S : n + 1 <= j BY <3>1
    <3>3. n + 1 \notin S BY <3>2
    <3> QED BY <2>2, <3>3
  <2>3. Nat \subseteq T BY <2>1, <2>2, SetInduction
  <2>4. PICK x \in S : TRUE OBVIOUS
  <2>5. x \in T BY <2>3
  <2> QED BY <2>4, <2>5
<1> QED BY <1>1 DEF First

LEMMA BlankAfterIs ==
  ASSUME NEW p \in Seq(Bytes), NEW i \in 1..Len(p), NEW j \in Nat, j > 0
  PROVE  BlankAfter(p, i) = j <=>
           j <= Len(p) /\ p[i] = LF /\ p[j] = LF /\ (j = i + 1 \/ (j = i + 2 /\ p[i + 1] = CR))
<1>1. PICK n \in Nat : n = Len(p) OBVIOUS
<1>2. LF # CR BY DEF LF, CR
<1> QED BY <1>1, <1>2 DEF BlankAfter

LEMMA EndInWindow ==
  ASSUME NEW s \in Seq(Bytes), NEW b, NEW p, Window(s, b, p), Clear(s, b),
         NEW m \in (b + 1)..(b + Len(p)), NoEnd(s, b, m - 1)
  PROVE  EndsAt(s, m) <=> \E i \in 1..Len(p) : BlankAfter(p, i) = m - b
<1>1. b \in Nat /\ p \in Seq(Bytes) BY DEF Window
<1>2. PICK n \in Nat : n = Len(p) BY <1>1
<1>3. PICK k \in Nat : k = Len(s) OBVIOUS
<1>4. b + n <= k /\ \A i \in 1..n : p[i] = s[b + i] BY <1>2, <1>3 DEF Window
<1>5. m \in Nat /\ m >= b + 1 /\ m <= b + n BY <1>1, <1>2
<1>6. PICK o \in 0..b : o = Start(s, b)
  <2>1. b \in 0..Len(s) BY <1>1, <1>3, <1>4
  <2> QED BY <2>1, StartBelow
<1>7. Start(s, m - 1) = o
  <2>1. m - 1 \in Nat /\ b <= m - 1 /\ m - 1 <= Len(s) BY <1>1, <1>3, <1>4, <1>5
  <2> QED BY <2>1, <1>1, <1>6, Steady
<1>8. m \in 1..Len(s) BY <1>1, <1>3, <1>4, <1>5
<1>9. EndsAt(s, m) <=>
        s[m] = LF /\ ((m - 1 > o /\ s[m - 1] = LF) \/ (m - 2 > o /\ s[m - 2] = LF /\ s[m - 1] = CR))
  BY <1>7, <1>8, EndsWhere
<1>10. (b > o => s[b] # LF) /\ (b - 1 > o => ~ (s[b - 1] = LF /\ s[b] = CR)) BY <1>6 DEF Clear
<1>11. \A i \in 1..n : BlankAfter(p, i) = m - b <=>
         p[i] = LF /\ p[m - b] = LF /\ (m - b = i + 1 \/ (m - b = i + 2 /\ p[i + 1] = CR))
  <2> TAKE i \in 1..n
  <2>1. m - b \in Nat /\ m - b > 0 /\ m - b <= n BY <1>1, <1>5
  <2> QED BY <1>1, <1>2, <2>1, BlankAfterIs
<1>12. p[m - b] = s[m]
  <2>1. m - b \in 1..n /\ b + (m - b) = m BY <1>1, <1>5
  <2> QED BY <2>1, <1>4
<1>13. ASSUME EndsAt(s, m) PROVE \E i \in 1..n : BlankAfter(p, i) = m - b
  <2>1. s[m] = LF BY <1>9, <1>13
  <2>2. CASE m - 1 > o /\ s[m - 1] = LF
    <3>1. m - 1 # b BY <2>2, <1>10
    <3>2. PICK i \in 1..n : i = m - 1 - b BY <3>1, <1>1, <1>5
    <3>3. p[i] = s[m - 1] BY <3>2, <1>1, <1>4, <1>5
    <3>4. m - b = i + 1 BY <3>2, <1>1, <1>5
    <3> QED BY <3>3, <3>4, <2>1, <2>2, <1>11, <1>12
  <2>3. CASE m - 2 > o /\ s[m - 2] = LF /\ s[m - 1] = CR
    <3>1. m - 1 # b
      <4>1. m - 1 = b => b - 1 = m - 2 BY <1>1, <1>5
      <4> QED BY <4>1, <2>3, <1>10
    <3>2. m - 2 # b BY <2>3, <1>10
    <3>3. PICK i \in 1..n : i = m - 2 - b BY <3>1, <3>2, <1>1, <1>5
    <3>4. m - b = i + 2 /\ i + 1 \in 1..n /\ b + i = m - 2 /\ b + (i + 1) = m - 1 BY <3>3, <1>1, <1>5
    <3>5. p[i] = s[m - 2] /\ p[i + 1] = s[m - 1] BY <3>4, <1>4
    <3> QED BY <3>4, <3>5, <2>1, <2>3, <1>11, <1>12
  <2> QED BY <2>2, <2>3, <1>9, <1>13
<1>14. ASSUME NEW i \in 1..n, BlankAfter(p, i) = m - b PROVE EndsAt(s, m)
  <2>1. p[i] = LF /\ p[m - b] = LF /\ (m - b = i + 1 \/ (m - b = i + 2 /\ p[i + 1] = CR)) BY <1>11, <1>14
  <2>2. p[i] = s[b + i] BY <1>4
  <2>3. CASE m - b = i + 1
    <3>1. m - 1 = b + i /\ m - 1 > o BY <2>3, <1>1, <1>5
    <3> QED BY <3>1, <2>1, <2>2, <1>9, <1>12
  <2>4. CASE m - b = i + 2 /\ p[i + 1] = CR
    <3>1. m - 2 = b + i /\ m - 2 > o /\ i + 1 \in 1..n /\ b + (i + 1) = m - 1 BY <2>4, <1>1, <1>5
    <3>2. s[m - 1] = CR BY <3>1, <2>4, <1>4
    <3> QED BY <3>1, <3>2, <2>1, <2>2, <1>9, <1>12
  <2> QED BY <2>1, <2>3, <2>4
<1> QED BY <1>2, <1>13, <1>14

\* The first end, if there is one.
LEMMA FirstEnd ==
  ASSUME NEW s \in Seq(Bytes), NEW b \in Nat, NEW c \in Nat, ~NoEnd(s, b, c)
  PROVE  \E m \in (b + 1)..c : EndsAt(s, m) /\ NoEnd(s, b, m - 1)
<1> DEFINE S == {m \in (b + 1)..c : EndsAt(s, m)}
<1>1. S # {} BY DEF NoEnd
<1>2. S \in SUBSET Nat OBVIOUS
<1>3. PICK m : m = First(S) OBVIOUS
<1>4. m \in S /\ \A j \in S : m <= j
  <2> HIDE DEF S
  <2> QED BY <1>1, <1>2, <1>3, LeastOf
<1>5. NoEnd(s, b, m - 1)
  <2>1. m \in Nat /\ m <= c BY <1>4
  <2>2. \A j \in (b + 1)..(m - 1) : j \in (b + 1)..c /\ ~ (m <= j) BY <2>1
  <2> QED BY <2>2, <1>4 DEF NoEnd
<1> QED BY <1>4, <1>5

LEMMA NoEventEnds ==
  ASSUME NEW s \in Seq(Bytes), NEW b, NEW p, Window(s, b, p), Clear(s, b)
  PROVE  EventEnds(p) = {} <=> NoEnd(s, b, b + Len(p))
<1>1. b \in Nat /\ p \in Seq(Bytes) BY DEF Window
<1>2. PICK n \in Nat : n = Len(p) BY <1>1
<1>3. EventEnds(p) = {i \in 1..n : BlankAfter(p, i) > 0} BY <1>1, <1>2 DEF EventEnds
<1>4. ASSUME NoEnd(s, b, b + n), NEW i \in 1..n, BlankAfter(p, i) > 0 PROVE FALSE
  <2>1. PICK j \in Nat : j = BlankAfter(p, i) /\ j > 0 /\ j <= n BY <1>1, <1>2, <1>4 DEF BlankAfter
  <2>2. b + j \in (b + 1)..(b + n) /\ b + j - b = j BY <2>1, <1>1
  <2>3. NoEnd(s, b, b + j - 1) BY <2>1, <2>2, <1>1, <1>4, SMTT(30) DEF NoEnd
  <2>4. EndsAt(s, b + j)
    <3>1. PICK m : m = b + j OBVIOUS
    <3>2. m - 1 = b + j - 1 /\ m - b = j BY <3>1, <2>2, <1>1
    <3>4. NoEnd(s, b, m - 1) BY <3>2, <2>3
    <3>5. m \in (b + 1)..(b + Len(p)) /\ BlankAfter(p, i) = m - b BY <3>1, <3>2, <2>1, <2>2, <1>2
    <3>3. EndsAt(s, m) BY <3>4, <3>5, <1>2, EndInWindow
    <3> QED BY <3>1, <3>3
  <2> QED BY <2>2, <2>4, <1>4 DEF NoEnd
<1>5. ASSUME ~NoEnd(s, b, b + n) PROVE \E i \in 1..n : BlankAfter(p, i) > 0
  <2>1. PICK m \in (b + 1)..(b + n) : EndsAt(s, m) /\ NoEnd(s, b, m - 1)
    <3>1. b + n \in Nat BY <1>1
    <3> QED BY <3>1, <1>1, <1>5, FirstEnd
  <2>2. PICK i \in 1..n : BlankAfter(p, i) = m - b BY <2>1, <1>2, EndInWindow
  <2>3. m - b > 0 BY <1>1
  <2> QED BY <2>2, <2>3
<1> QED BY <1>2, <1>3, <1>4, <1>5

LEMMA NextEventEnds ==
  ASSUME NEW s \in Seq(Bytes), NEW b, NEW p, Window(s, b, p), Clear(s, b), EventEnds(p) # {}
  PROVE  \E i \in 1..Len(p) : \E j \in 1..Len(p) :
           /\ i = First(EventEnds(p)) /\ j = BlankAfter(p, i) /\ i < j
           /\ p[i] = LF /\ \A x \in (i + 1)..(j - 1) : p[x] # LF
           /\ NoEnd(s, b, b + j - 1) /\ EndsAt(s, b + j)
<1>1. b \in Nat /\ p \in Seq(Bytes) BY DEF Window
<1>2. PICK n \in Nat : n = Len(p) BY <1>1
<1>3. EventEnds(p) = {i \in 1..n : BlankAfter(p, i) > 0} BY <1>1, <1>2 DEF EventEnds
<1>4. PICK i : i = First(EventEnds(p)) OBVIOUS
<1>5. i \in EventEnds(p) /\ \A x \in EventEnds(p) : i <= x
  <2>1. EventEnds(p) \in SUBSET Nat BY <1>3
  <2> QED BY <2>1, <1>4, LeastOf
<1>6. i \in 1..n /\ BlankAfter(p, i) > 0 BY <1>3, <1>5
<1>7. PICK j \in Nat : j = BlankAfter(p, i) /\ j > 0 BY <1>1, <1>2, <1>6 DEF BlankAfter
<1>8. j <= n /\ p[i] = LF /\ p[j] = LF /\ (j = i + 1 \/ (j = i + 2 /\ p[i + 1] = CR))
  BY <1>1, <1>2, <1>6, <1>7, BlankAfterIs
<1>9. LF # CR BY DEF LF, CR
<1>10. NoEnd(s, b, b + j - 1)
  <2> SUFFICES ASSUME ~NoEnd(s, b, b + j - 1) PROVE FALSE
    OBVIOUS
  <2>1. PICK m \in (b + 1)..(b + j - 1) : EndsAt(s, m) /\ NoEnd(s, b, m - 1)
    <3>1. b + j - 1 \in Nat BY <1>1, <1>7
    <3> QED BY <3>1, <1>1, FirstEnd
  <2>2. m \in (b + 1)..(b + n) BY <1>1, <1>7, <1>8
  <2>3. PICK x \in 1..n : BlankAfter(p, x) = m - b BY <2>1, <2>2, <1>2, EndInWindow
  <2>4. m - b \in Nat /\ m - b > 0 /\ m - b < j BY <1>1, <1>7
  <2>5. x \in EventEnds(p) BY <2>3, <2>4, <1>3
  <2>6. i <= x BY <2>5, <1>5
  <2>7. m - b >= x + 1
    <3>1. m - b = x + 1 \/ m - b = x + 2 BY <2>3, <2>4, <1>1, <1>2, BlankAfterIs
    <3> QED BY <3>1
  <2>8. x # i BY <2>3, <2>4, <1>7
  <2> QED BY <2>4, <2>6, <2>7, <2>8, <1>6, <1>8
<1>11. EndsAt(s, b + j)
  <2>1. PICK m : m = b + j OBVIOUS
  <2>2. m \in (b + 1)..(b + Len(p)) /\ m - b = j BY <2>1, <1>1, <1>2, <1>7, <1>8
  <2>3. m - 1 = b + j - 1 BY <2>1, <1>1
  <2>5. NoEnd(s, b, m - 1) BY <2>3, <1>10
  <2>6. BlankAfter(p, i) = m - b BY <2>2, <1>7
  <2>4. EndsAt(s, m) BY <2>2, <2>5, <2>6, <1>2, <1>6, EndInWindow
  <2> QED BY <2>1, <2>4
<1>12. \A x \in (i + 1)..(j - 1) : p[x] # LF
  <2> TAKE x \in (i + 1)..(j - 1)
  <2>1. x = i + 1 /\ p[i + 1] = CR BY <1>6, <1>7, <1>8
  <2> QED BY <2>1, <1>9
<1>13. j \in 1..n /\ i < j BY <1>6, <1>7, <1>8
<1> QED BY <1>2, <1>4, <1>6, <1>7, <1>8, <1>10, <1>11, <1>12, <1>13

-----------------------------------------------------------------------------
(* What eventData makes of a whole event.                                  *)

LEMMA SameBytes ==
  ASSUME NEW p \in Seq(Bytes), NEW q \in Seq(Bytes), Len(p) = Len(q), \A i \in 1..Len(p) : p[i] = q[i]
  PROVE  p = q
OBVIOUS

LEMMA OpenLine ==
  ASSUME NEW s \in Seq(Bytes), NEW a \in Nat, NEW c \in Nat, a <= c, c <= Len(s),
         a = 0 \/ s[a] = LF, \A x \in (a + 1)..c : s[x] # LF
  PROVE  Len(At(s, c).line) = c - a /\ \A i \in 1..(c - a) : At(s, c).line[i] = s[a + i]
<1>1. c \in 0..Len(s) OBVIOUS
<1>2. PICK line \in Seq(Bytes) : line = At(s, c).line BY <1>1, Hearing, ReaderFields
<1>3. PICK n \in Nat : n = Len(line) BY <1>2
<1>4. /\ n <= c
      /\ \A i \in 1..n : line[i] = s[c - n + i] /\ line[i] # LF
      /\ n = c \/ s[c - n] = LF
  <2>1. Shape(s, c) BY <1>1, Shapes
  <2>2. At(s, c).size \in Nat BY <1>1, Hearing, ReaderFields
  <2>3. PICK r : r = At(s, c) OBVIOUS
  <2>4. /\ r.size + Len(line) <= c
        /\ \A i \in 1..Len(line) : line[i] = s[c - Len(line) + i] /\ line[i] # LF
        /\ Len(line) = c \/ s[c - Len(line)] = LF
    BY <2>1, <2>3, <1>2 DEF Shape
  <2>5. n <= c BY <2>2, <2>3, <2>4, <1>3
  <2> QED BY <2>4, <2>5, <1>3
<1>5. ~ (n < c - a)
  <2> SUFFICES ASSUME n < c - a PROVE FALSE
    OBVIOUS
  <2>1. c - n \in (a + 1)..c /\ n # c OBVIOUS
  <2> QED BY <2>1, <1>4
<1>6. ~ (n > c - a)
  <2> SUFFICES ASSUME n > c - a PROVE FALSE
    OBVIOUS
  <2>1. PICK i : i = n - (c - a) OBVIOUS
  <2>2. i \in 1..n /\ c - n + i = a /\ a # 0 BY <2>1, <1>4
  <2> QED BY <2>2, <1>4
<1>7. n = c - a BY <1>5, <1>6
<1>8. \A i \in 1..(c - a) : c - n + i = a + i BY <1>7
<1> QED BY <1>2, <1>3, <1>4, <1>7, <1>8

\* What the reader makes of a line feed, of the whole line before it.
LEMMA LineHeard ==
  ASSUME NEW s \in Seq(Bytes), NEW a \in Nat, NEW c \in Nat, a < c, c <= Len(s),
         a = 0 \/ s[a] = LF, \A x \in (a + 1)..(c - 1) : s[x] # LF, s[c] = LF, ~EndsAt(s, c),
         NEW line \in Seq(Bytes), Len(line) = c - 1 - a, \A i \in 1..(c - 1 - a) : line[i] = s[a + i]
  PROVE  At(s, c).data = WithLine(At(s, a).data, line)
<1>1. c - 1 \in Nat /\ a <= c - 1 /\ c - 1 <= Len(s) /\ c - 1 \in 0..Len(s) /\ c \in 1..Len(s) OBVIOUS
<1>2. PICK r \in Readers : r = At(s, c - 1) BY <1>1, Hearing
<1>3. r.data = At(s, a).data BY <1>1, <1>2, Quiet
<1>4. r.line \in Seq(Bytes) BY ReaderFields
<1>5. Len(r.line) = c - 1 - a /\ \A i \in 1..(c - 1 - a) : r.line[i] = s[a + i] BY <1>1, <1>2, OpenLine
<1>6. r.line = line
  <2>1. Len(r.line) = Len(line) /\ \A i \in 1..Len(r.line) : r.line[i] = line[i] BY <1>5
  <2> QED BY <2>1, <1>4, SameBytes
<1>7. At(s, c) = Hears(r, s[c]) BY <1>1, <1>2, Hearing
<1>8. ~Ends(r, s[c]) BY <1>2 DEF EndsAt
<1>9. PICK lf \in Bytes : lf = s[c] BY <1>1
<1>10. Hears(r, lf).data = WithLine(r.data, r.line) BY <1>8, <1>9, HearsFields
<1> QED BY <1>3, <1>6, <1>7, <1>9, <1>10

Turns(n) == [from : 0..n, data : Payloads]

\* A turn of eventData, of an event that ends with a line feed.
LEMMA NextLineIs ==
  ASSUME NEW p \in Seq(Bytes), NEW n \in Nat, n = Len(p), n > 0 => p[n] = LF, NEW r \in Turns(n)
  PROVE  /\ NextLine(p, r) \in Turns(n)
         /\ r.from = n => NextLine(p, r) = r
         /\ r.from < n =>
              \E end \in (r.from + 1)..n :
                /\ NextLine(p, r).from = end /\ p[end] = LF /\ \A x \in (r.from + 1)..(end - 1) : p[x] # LF
                /\ NextLine(p, r).data = WithLine(r.data, SubSeq(p, r.from + 1, end - 1))
<1>1. r.from \in 0..n /\ r.data \in Payloads BY DEF Turns
<1>2. CASE r.from = n BY <1>1, <1>2 DEF NextLine
<1>3. CASE r.from < n
  <2> DEFINE feeds == {i \in (r.from + 1)..Len(p) : p[i] = LF}
  <2>1. feeds # {} /\ feeds \in SUBSET Nat
    <3>1. n \in feeds BY <1>1, <1>3
    <3> QED BY <3>1, <1>1
  <2>2. PICK end : end = First(feeds) OBVIOUS
  <2>3. end \in feeds /\ \A x \in feeds : end <= x
    <3> HIDE DEF feeds
    <3> QED BY <2>1, <2>2, LeastOf
  <2>4. end \in (r.from + 1)..n /\ p[end] = LF BY <2>3
  <2>5. \A x \in (r.from + 1)..(end - 1) : p[x] # LF
    <3> TAKE x \in (r.from + 1)..(end - 1)
    <3>1. x \in (r.from + 1)..Len(p) /\ ~ (end <= x) BY <2>4, <1>1
    <3> QED BY <3>1, <2>3
  <2>6. NextLine(p, r) = [from |-> end, data |-> WithLine(r.data, SubSeq(p, r.from + 1, end - 1))]
    <3>1. ~ (r.from >= Len(p)) BY <1>1, <1>3
    <3> QED BY <3>1, <2>1, <2>2 DEF NextLine
  <2>7. SubSeq(p, r.from + 1, end - 1) \in Seq(Bytes)
    <3>1. \A x \in (r.from + 1)..(end - 1) : x \in 1..n BY <1>1, <2>4
    <3> QED BY <3>1, <1>1, <2>4
  <2>8. WithLine(r.data, SubSeq(p, r.from + 1, end - 1)) \in Payloads BY <2>7, <1>1, WithLineType
  <2>9. NextLine(p, r) \in Turns(n)
    <3>1. end \in 0..n BY <2>4, <1>1
    <3> QED BY <3>1, <2>6, <2>8 DEF Turns
  <2> HIDE DEF feeds
  <2> QED BY <2>4, <2>5, <2>6, <2>9, <1>3
<1> QED BY <1>1, <1>2, <1>3

\* The turns of eventData.
EventTurns(p, f) ==
  /\ f[0] = [from |-> 0, data |-> <<>>] /\ eventData(p) = f[Len(p)].data
  /\ \A k \in 0..Len(p) : f[k] \in Turns(Len(p))
  /\ \A k \in 1..Len(p) : f[k] = NextLine(p, f[k - 1])

LEMMA EventDataTurns ==
  ASSUME NEW p \in Seq(Bytes), Len(p) > 0 => p[Len(p)] = LF
  PROVE  \E f : EventTurns(p, f)
<1>1. PICK n \in Nat : n = Len(p) OBVIOUS
<1>2. PICK first : first = [from |-> 0, data |-> <<>>] OBVIOUS
<1>3. first \in Turns(n)
  <2>1. 0 \in 0..n /\ <<>> \in Payloads BY DEF Payloads
  <2> QED BY <2>1, <1>2 DEF Turns
<1> DEFINE step == [k \in 1..n |-> [r \in Turns(n) |-> NextLine(p, r)]]
<1>4. step \in [1..n -> [Turns(n) -> Turns(n)]]
  <2>1. \A r \in Turns(n) : NextLine(p, r) \in Turns(n) BY <1>1, NextLineIs
  <2> QED BY <2>1
<1>5. PICK f : Loop(f, Turns(n), first, step, n)
  <2> HIDE DEF step
  <2> QED BY <1>3, <1>4, LoopEnds
<1>6. f \in [0..n -> Turns(n)] /\ f[0] = first BY <1>5 DEF Loop
<1>7. \A k \in 1..n : f[k] = NextLine(p, f[k - 1])
  <2> TAKE k \in 1..n
  <2>1. f[k - 1] \in Turns(n)
    <3>1. k - 1 \in 0..n BY <1>1
    <3> QED BY <3>1, <1>6
  <2>2. step[k] = [r \in Turns(n) |-> NextLine(p, r)] OBVIOUS
  <2>3. f[k] = step[k][f[k - 1]] BY <1>5 DEF Loop
  <2> QED BY <2>1, <2>2, <2>3
<1> HIDE DEF step
<1> DEFINE P(g) == g = [k \in 0..Len(p) |-> IF k = 0 THEN [from |-> 0, data |-> <<>>] ELSE NextLine(p, g[k - 1])]
<1>8. P(f)
  <2>1. f = [k \in 0..n |-> f[k]] BY <1>6
  <2>2. \A k \in 0..n : f[k] = IF k = 0 THEN [from |-> 0, data |-> <<>>] ELSE NextLine(p, f[k - 1])
    <3> TAKE k \in 0..n
    <3>1. k # 0 => k \in 1..n BY <1>1
    <3> QED BY <3>1, <1>2, <1>6, <1>7
  <2>3. [k \in 0..n |-> f[k]] = [k \in 0..n |-> IF k = 0 THEN [from |-> 0, data |-> <<>>] ELSE NextLine(p, f[k - 1])]
    BY <2>2
  <2> QED BY <2>1, <2>3, <1>1
<1>9. P(CHOOSE g : P(g)) BY <1>8
<1>10. PICK g : g = (CHOOSE h : P(h)) OBVIOUS
<1>11. g = [k \in 0..n |-> IF k = 0 THEN [from |-> 0, data |-> <<>>] ELSE NextLine(p, g[k - 1])]
  BY <1>9, <1>10, <1>1
<1>12. eventData(p) = g[n].data BY <1>1, <1>10 DEF eventData
<1>13. g[0] = first /\ \A k \in 1..n : g[k] = NextLine(p, g[k - 1])
  <2>1. g[0] = first BY <1>11, <1>2
  <2>2. \A k \in 1..n : g[k] = NextLine(p, g[k - 1])
    <3> TAKE k \in 1..n
    <3>1. k \in 0..n /\ k # 0 BY <1>1
    <3> QED BY <3>1, <1>11
  <2> QED BY <2>1, <2>2
<1>14. \A k \in 0..n : g[k] \in Turns(n)
  <2>1. \A k \in 1..n : g[k - 1] \in Turns(n) => g[k] \in Turns(n) BY <1>13, <1>1, NextLineIs
  <2> HIDE DEF P
  <2> QED BY <2>1, <1>13, <1>3, LoopStays
<1> QED BY <1>1, <1>2, <1>12, <1>13, <1>14 DEF EventTurns

LEMMA SubSeqAt ==
  ASSUME NEW p, NEW a \in Nat, NEW c \in Nat, NEW i \in 1..(c - a)
  PROVE  SubSeq(p, a + 1, c)[i] = p[a + i]
OBVIOUS

\* Of an event whose lines begin after the first b bytes eventData finds what
\* the reader does.
LEMMA EventDataIs ==
  ASSUME NEW s \in Seq(Bytes), NEW b \in Nat, NEW p, Window(s, b, p), Start(s, b) = b,
         Len(p) > 0, p[Len(p)] = LF, NoEnd(s, b, b + Len(p))
  PROVE  eventData(p) = At(s, b + Len(p)).data
<1>1. b \in Nat /\ p \in Seq(Bytes) BY DEF Window
<1>2. PICK n \in Nat : n = Len(p) BY <1>1
<1>3. PICK k \in Nat : k = Len(s) OBVIOUS
<1>4. b + n <= k /\ \A i \in 1..n : p[i] = s[b + i] BY <1>2, <1>3 DEF Window
<1>5. PICK f : EventTurns(p, f) BY <1>1, EventDataTurns
<1>6. /\ f[0] = [from |-> 0, data |-> <<>>] /\ eventData(p) = f[n].data
      /\ \A x \in 0..n : f[x] \in Turns(n)
      /\ \A x \in 1..n : f[x] = NextLine(p, f[x - 1])
  BY <1>5, <1>2 DEF EventTurns
<1>7. b = 0 \/ s[b] = LF
  <2>1. b \in 0..Len(s) BY <1>1, <1>3, <1>4
  <2>2. Shape(s, b) /\ At(s, b).line = <<>> BY <2>1, Shapes, FreshFields
  <2>3. Len(At(s, b).line) = 0 /\ b - 0 = b BY <2>2, <1>1
  <2> QED BY <2>2, <2>3 DEF Shape
<1>8. At(s, b).data = <<>>
  <2>1. b \in 0..Len(s) BY <1>1, <1>3, <1>4
  <2> QED BY <2>1, FreshFields
<1> DEFINE Good == {r \in Turns(n) : (r.from = 0 \/ p[r.from] = LF) /\ r.data = At(s, b + r.from).data}
<1>9. f[0] \in Good
  <2>1. b + 0 = b BY <1>1
  <2>2. f[0].from = 0 /\ f[0].data = <<>> /\ f[0] \in Turns(n) BY <1>6
  <2> QED BY <2>1, <2>2, <1>8
<1>10. ASSUME NEW x \in 1..n, f[x - 1] \in Good PROVE f[x] \in Good
  <2>1. PICK r \in Turns(n) : r = f[x - 1] /\ (r.from = 0 \/ p[r.from] = LF) /\ r.data = At(s, b + r.from).data
    BY <1>10
  <2> HIDE DEF Good
  <2>2. r \in Turns(n) /\ r.from \in 0..n /\ r.data \in Payloads BY DEF Turns
  <2>3. f[x] = NextLine(p, r) /\ f[x] \in Turns(n)
    <3>1. x \in 0..n BY <1>2
    <3> QED BY <3>1, <2>1, <1>6
  <2>4. CASE r.from = n
    <3>1. NextLine(p, r) = r BY <2>2, <2>4, <1>1, <1>2, NextLineIs
    <3> QED BY <3>1, <2>1, <2>3, <1>10
  <2>5. CASE r.from < n
    <3>0. PICK t \in Nat : t = r.from /\ t < n BY <2>2, <2>5
    <3>13. PICK end \in (t + 1)..n :
            /\ NextLine(p, r).from = end /\ p[end] = LF /\ \A y \in (t + 1)..(end - 1) : p[y] # LF
            /\ NextLine(p, r).data = WithLine(r.data, SubSeq(p, t + 1, end - 1))
      BY <3>0, <2>2, <2>5, <1>1, <1>2, NextLineIs, SMTT(30)
    <3>1. /\ f[x].from = end /\ p[end] = LF /\ \A y \in (t + 1)..(end - 1) : p[y] # LF
          /\ f[x].data = WithLine(r.data, SubSeq(p, t + 1, end - 1))
      BY <3>13, <2>3
    <3>14. end >= t + 1 /\ end <= n OBVIOUS
    <3>2. PICK a \in Nat : a = b + t BY <3>14, <1>1
    <3>3. PICK c \in Nat : c = b + end BY <3>14, <1>1
    <3>15. b + n <= k BY <1>4
    <3>4. a < c /\ c <= Len(s)
      <4>1. a < c BY <3>2, <3>3, <3>14
      <4>2. c <= k BY <3>3, <3>14, <3>15
      <4> QED BY <4>1, <4>2, <1>3
    <3>5. a = 0 \/ s[a] = LF
      <4>1. CASE t = 0 BY <4>1, <3>0, <3>2, <1>1, <1>7
      <4>2. CASE t # 0
        <5>1. t \in 1..n BY <4>2, <3>0
        <5> QED BY <5>1, <4>2, <3>0, <3>2, <2>1, <1>4
      <4> QED BY <4>1, <4>2
    <3>6. \A y \in (a + 1)..(c - 1) : s[y] # LF
      <4> TAKE y \in (a + 1)..(c - 1)
      <4>1. y - b \in (t + 1)..(end - 1) /\ y - b \in 1..n /\ b + (y - b) = y
        BY <3>2, <3>3, <3>14
      <4> QED BY <4>1, <3>1, <1>4
    <3>7. s[c] = LF
      <4>1. end \in 1..n BY <3>14
      <4> QED BY <4>1, <3>1, <3>3, <1>4
    <3>8. ~EndsAt(s, c)
      <4>1. c \in (b + 1)..(b + Len(p)) BY <3>3, <3>14, <1>1, <1>2
      <4> QED BY <4>1 DEF NoEnd
    <3>9. PICK line : line = SubSeq(p, t + 1, end - 1) OBVIOUS
    <3>10. line \in Seq(Bytes) /\ Len(line) = c - 1 - a /\ \A i \in 1..(c - 1 - a) : line[i] = s[a + i]
      <4>1. \A y \in (t + 1)..(end - 1) : y \in 1..n BY <3>14
      <4>2. line \in Seq(Bytes) BY <4>1, <3>9, <3>14, <1>1, <1>2
      <4>3. Len(line) = end - 1 - t BY <3>9, <3>14
      <4>4. end - 1 - t = c - 1 - a BY <3>2, <3>3, <3>14
      <4>5. \A i \in 1..(end - 1 - t) : line[i] = s[a + i]
        <5> TAKE i \in 1..(end - 1 - t)
        <5>1. line[i] = p[t + i]
          <6>1. PICK z \in Nat : z = end - 1 BY <3>14
          <6>2. i \in 1..(z - t) /\ line = SubSeq(p, t + 1, z) BY <3>9, <6>1
          <6> QED BY <6>2, SubSeqAt
        <5>2. t + i \in 1..n /\ b + (t + i) = a + i BY <3>2, <3>3, <3>14
        <5> QED BY <5>1, <5>2, <1>4
      <4> QED BY <4>2, <4>3, <4>4, <4>5
    <3>11. At(s, c).data = WithLine(At(s, a).data, line)
      BY <3>4, <3>5, <3>6, <3>7, <3>8, <3>10, LineHeard
    <3>12. f[x].data = At(s, b + end).data BY <3>0, <3>1, <3>2, <3>3, <3>9, <3>11, <2>1
    <3> QED BY <3>1, <3>12, <2>3 DEF Good
  <2> QED BY <2>2, <2>4, <2>5
<1>11. \A x \in 0..n : f[x] \in Good
  <2> HIDE DEF Good
  <2> QED BY <1>9, <1>10, LoopStays
<1>12. f[n].from = n
  <2> DEFINE T == {m \in Nat : m <= n => f[m].from >= m}
  <2>1. 0 \in T BY <1>6
  <2>2. ASSUME NEW m \in Nat, m \in T PROVE m + 1 \in T
    <3> SUFFICES ASSUME m + 1 <= n PROVE f[m + 1].from >= m + 1
      OBVIOUS
    <3>1. m \in 0..n /\ m + 1 \in 1..n /\ m + 1 - 1 = m OBVIOUS
    <3>2. PICK r \in Turns(n) : r = f[m] /\ f[m + 1] = NextLine(p, r) BY <3>1, <1>6
    <3>3. r.from \in 0..n /\ r.from >= m BY <3>2, <2>2 DEF Turns
    <3>4. CASE r.from = n
      <4>1. NextLine(p, r) = r BY <3>4, <1>1, <1>2, NextLineIs
      <4> QED BY <4>1, <3>2, <3>4
    <3>5. CASE r.from < n
      <4>1. PICK end \in (r.from + 1)..n : f[m + 1].from = end BY <3>2, <3>5, <1>1, <1>2, NextLineIs
      <4> QED BY <4>1, <3>3
    <3> QED BY <3>3, <3>4, <3>5
  <2>3. n \in T
    <3> HIDE DEF T
    <3> QED BY <2>1, <2>2, SetInduction
  <2>4. f[n] \in Turns(n) BY <1>6
  <2>5. f[n].from \in 0..n BY <2>4 DEF Turns
  <2> QED BY <2>3, <2>5
<1>13. f[n] \in Good BY <1>11
<1> QED BY <1>2, <1>6, <1>12, <1>13

-----------------------------------------------------------------------------
(* What a line adds to the payload.                                        *)

Value(line) == TrimSpace(SubSeq(line, 3, Len(line)))
DataLine(line) == Len(line) > 1 /\ line[1] = Data /\ line[2] = Colon

\* A line that is not one of data, whatever follows.
NeverData(line) ==
  /\ line # <<>> /\ (line[1] = CR => Len(line) > 1)
  /\ line[1] = Data => Len(line) > 1 /\ line[2] # Colon /\ (line[2] = CR => Len(line) > 2)
Name(field) == field # <<>> /\ \A i \in DOMAIN field : field[i] \notin {Colon, CR, LF}

LEMMA Letters == /\ LF # CR /\ LF # Colon /\ LF # Space /\ LF # Data /\ CR # Colon /\ CR # Space
                 /\ CR # Data /\ Colon # Space /\ Colon # Data /\ Space # Data
BY DEF LF, CR, Colon, Space, Data

LEMMA Appended ==
  ASSUME NEW p \in Seq(Bytes), NEW b \in Bytes
  PROVE  /\ Append(p, b) \in Seq(Bytes) /\ Len(Append(p, b)) = Len(p) + 1 /\ Append(p, b)[Len(p) + 1] = b
         /\ \A i \in 1..Len(p) : Append(p, b)[i] = p[i]
         /\ Append(p, b) # <<>>
OBVIOUS

LEMMA ValueType ==
  ASSUME NEW line \in Seq(Bytes), Len(line) > 1
  PROVE  SubSeq(line, 3, Len(line)) \in Seq(Bytes) /\ Value(line) \in Seq(Bytes)
<1>1. SubSeq(line, 3, Len(line)) \in Seq(Bytes) OBVIOUS
<1> QED BY <1>1, TrimTypes DEF Value

LEMMA ValueMore ==
  ASSUME NEW line \in Seq(Bytes), Len(line) > 1, NEW b \in Bytes, ~ (Len(line) = 2 /\ b = Space)
  PROVE  Value(Append(line, b)) = Append(Value(line), b)
<1>1. PICK n \in Nat : n = Len(line) OBVIOUS
<1>2. PICK more \in Seq(Bytes) : more = Append(line, b) BY Appended
<1>3. Len(more) = n + 1 /\ more[n + 1] = b /\ \A i \in 1..n : more[i] = line[i] BY <1>1, <1>2, Appended
<1>4. PICK c \in Seq(Bytes) : c = SubSeq(line, 3, n) BY <1>1, ValueType
<1>5. Len(c) = n - 2 /\ \A i \in 1..(n - 2) : c[i] = line[i + 2]
  <2>1. Len(c) = n - 2 BY <1>1, <1>4
  <2>2. \A i \in 1..(n - 2) : c[i] = line[2 + i] BY <1>1, <1>4
  <2>3. \A i \in 1..(n - 2) : 2 + i = i + 2 OBVIOUS
  <2> QED BY <2>1, <2>2, <2>3
<1>6. SubSeq(more, 3, n + 1) = Append(c, b)
  <2>1. PICK d : d = SubSeq(more, 3, n + 1) OBVIOUS
  <2>2. d \in Seq(Bytes) /\ Len(d) = n - 1 /\ \A i \in 1..(n - 1) : d[i] = more[2 + i]
    <3>1. n + 1 = Len(more) BY <1>3
    <3>2. \A i \in 3..(n + 1) : i \in 1..Len(more) BY <3>1
    <3>3. d \in Seq(Bytes) BY <2>1, <3>1, <3>2
    <3>4. Len(d) = n - 1 BY <2>1, <1>1
    <3>5. \A i \in 1..(n - 1) : d[i] = more[2 + i] BY <2>1, <1>1
    <3> QED BY <3>3, <3>4, <3>5
  <2>3. Append(c, b) \in Seq(Bytes) /\ Len(Append(c, b)) = n - 1 BY <1>5, Appended, <1>1
  <2>4. \A i \in 1..(n - 1) : d[i] = Append(c, b)[i]
    <3> TAKE i \in 1..(n - 1)
    <3>1. CASE i = n - 1
      <4>1. 2 + i = n + 1 /\ i = Len(c) + 1 BY <3>1, <1>5, <1>1
      <4> QED BY <4>1, <2>2, <1>3, Appended
    <3>2. CASE i \in 1..(n - 2)
      <4>1. 2 + i \in 1..n /\ 2 + i = i + 2 BY <3>2
      <4>2. i \in 1..Len(c) BY <3>2, <1>5
      <4>3. Append(c, b)[i] = c[i] BY <4>2
      <4> QED BY <4>1, <4>3, <3>2, <2>2, <1>3, <1>5
    <3>3. i = n - 1 \/ i \in 1..(n - 2) OBVIOUS
    <3> QED BY <3>1, <3>2, <3>3
  <2> QED BY <2>1, <2>2, <2>3, <2>4, SameBytes
<1>7. TrimSpace(Append(c, b)) = Append(TrimSpace(c), b)
  <2>1. CASE c = <<>>
    <3>1. n = 2 BY <2>1, <1>5, <1>1
    <3>2. b # Space BY <3>1, <1>1
    <3>3. Append(c, b)[1] = b BY <2>1
    <3> QED BY <2>1, <3>2, <3>3 DEF TrimSpace
  <2>2. CASE c # <<>>
    <3>1. PICK m \in Nat : m = Len(c) /\ m >= 1 BY <2>2
    <3>2. PICK e \in Seq(Bytes) : e = Append(c, b) BY Appended
    <3>3. e[1] = c[1] /\ e # <<>> /\ Len(e) = m + 1 BY <3>1, <3>2
    <3>4. CASE c[1] # Space BY <3>2, <3>3, <3>4 DEF TrimSpace
    <3>5. CASE c[1] = Space
      <4>1. TrimSpace(c) = SubSeq(c, 2, m) BY <2>2, <3>1, <3>5 DEF TrimSpace
      <4>2. TrimSpace(e) = SubSeq(e, 2, m + 1) BY <3>3, <3>5 DEF TrimSpace
      <4>3. PICK u : u = SubSeq(c, 2, m) OBVIOUS
      <4>4. u \in Seq(Bytes) /\ Len(u) = m - 1 /\ \A i \in 1..(m - 1) : u[i] = c[1 + i] BY <4>3, <3>1
      <4>5. PICK v : v = SubSeq(e, 2, m + 1) OBVIOUS
      <4>6. v \in Seq(Bytes) /\ Len(v) = m /\ \A i \in 1..m : v[i] = e[1 + i] BY <4>5, <3>1, <3>3
      <4>7. Append(u, b) \in Seq(Bytes) /\ Len(Append(u, b)) = m BY <4>4, <3>1
      <4>8. \A i \in 1..m : v[i] = Append(u, b)[i]
        <5> TAKE i \in 1..m
        <5>1. CASE i = m
          <6>1. e[1 + i] = b BY <5>1, <3>1, <3>2
          <6>2. Append(u, b)[i] = b BY <5>1, <4>4
          <6> QED BY <6>1, <6>2, <4>6
        <5>2. CASE i \in 1..(m - 1)
          <6>1. e[1 + i] = c[1 + i] BY <5>2, <3>1, <3>2
          <6>2. Append(u, b)[i] = u[i] BY <5>2, <4>4
          <6> QED BY <6>1, <6>2, <5>2, <4>4, <4>6
        <5>3. i = m \/ i \in 1..(m - 1) OBVIOUS
        <5> QED BY <5>1, <5>2, <5>3
      <4>9. v = Append(u, b) BY <4>6, <4>7, <4>8, SameBytes
      <4> QED BY <4>1, <4>2, <4>3, <4>5, <4>9, <3>2
    <3> QED BY <3>4, <3>5
  <2> QED BY <2>1, <2>2
<1> QED BY <1>1, <1>2, <1>3, <1>4, <1>6, <1>7 DEF Value

LEMMA JoinMore ==
  ASSUME NEW data \in Payloads, NEW v \in Seq(Bytes), NEW b \in Bytes
  PROVE  \E out \in Seq(Bytes) : Join(data, v) = <<out>> /\ Join(data, Append(v, b)) = <<Append(out, b)>>
<1>1. CASE data = <<>> BY <1>1 DEF Join
<1>2. CASE data # <<>>
  <2>1. PICK x \in Seq(Bytes) : data = <<x>> BY <1>2 DEF Payloads
  <2>2. data[1] = x BY <2>1
  <2>3. <<LF>> \in Seq(Bytes) BY DEF Bytes
  <2>11. x \o <<LF>> \in Seq(Bytes) BY <2>3
  <2>4. PICK y \in Seq(Bytes) : y = x \o <<LF>> BY <2>11
  <2>5. y \o v \in Seq(Bytes) OBVIOUS
  <2>6. Append(v, b) \in Seq(Bytes) OBVIOUS
  <2>7. y \o Append(v, b) \in Seq(Bytes) BY <2>6
  <2>8. Append(y \o v, b) \in Seq(Bytes) BY <2>5
  <2>9. y \o Append(v, b) = Append(y \o v, b)
    <3>1. PICK ny \in Nat : ny = Len(y) OBVIOUS
    <3>2. PICK nv \in Nat : nv = Len(v) OBVIOUS
    <3>3. Len(y \o Append(v, b)) = ny + (nv + 1) /\ Len(Append(y \o v, b)) = ny + nv + 1 BY <3>1, <3>2
    <3>4. \A i \in 1..(ny + nv + 1) : (y \o Append(v, b))[i] = Append(y \o v, b)[i]
      <4> TAKE i \in 1..(ny + nv + 1)
      <4>1. CASE i \in 1..ny
        <5>1. (y \o Append(v, b))[i] = y[i] BY <4>1, <3>1, <2>6
        <5>2. Append(y \o v, b)[i] = (y \o v)[i] BY <4>1, <3>1, <3>2, <2>5
        <5>3. (y \o v)[i] = y[i] BY <4>1, <3>1
        <5> QED BY <5>1, <5>2, <5>3
      <4>2. CASE i \in (ny + 1)..(ny + nv)
        <5>1. (y \o Append(v, b))[i] = Append(v, b)[i - ny] BY <4>2, <3>1, <3>2, <2>6
        <5>2. Append(v, b)[i - ny] = v[i - ny] BY <4>2, <3>1, <3>2
        <5>3. Append(y \o v, b)[i] = (y \o v)[i] BY <4>2, <3>1, <3>2, <2>5
        <5>4. (y \o v)[i] = v[i - ny] BY <4>2, <3>1, <3>2
        <5> QED BY <5>1, <5>2, <5>3, <5>4
      <4>3. CASE i = ny + nv + 1
        <5>1. (y \o Append(v, b))[i] = Append(v, b)[nv + 1] BY <4>3, <3>1, <3>2, <2>6
        <5>2. Append(v, b)[nv + 1] = b BY <3>2
        <5>3. Append(y \o v, b)[i] = b BY <4>3, <3>1, <3>2, <2>5
        <5> QED BY <5>1, <5>2, <5>3
      <4>4. i \in 1..ny \/ i \in (ny + 1)..(ny + nv) \/ i = ny + nv + 1 OBVIOUS
      <4> QED BY <4>1, <4>2, <4>3, <4>4
    <3>5. ny + (nv + 1) = ny + nv + 1 OBVIOUS
    <3> QED BY <3>3, <3>4, <3>5, <2>7, <2>8, SameBytes
  <2>10. Join(data, v) = <<y \o v>> /\ Join(data, Append(v, b)) = <<y \o Append(v, b)>>
    BY <1>2, <2>2, <2>4 DEF Join
  <2> QED BY <2>5, <2>9, <2>10
<1> QED BY <1>1, <1>2

LEMMA SpaceFirst ==
  /\ Value(<<Data, Colon>>) = <<>> /\ Value(Append(<<Data, Colon>>, Space)) = <<>>
<1>1. Data \in Bytes /\ Colon \in Bytes /\ Space \in Bytes BY DEF Bytes
<1>2. <<Data, Colon>> \in Seq(Bytes) /\ Len(<<Data, Colon>>) = 2 BY <1>1
<1>3. PICK p \in Seq(Bytes) : p = <<Data, Colon>> BY <1>2
<1>4. Len(p) = 2 BY <1>2, <1>3
<1>5. SubSeq(p, 3, Len(p)) = <<>> BY <1>4
<1>6. TrimSpace(<<>>) = <<>> BY DEF TrimSpace
<1>7. PICK q \in Seq(Bytes) : q = Append(p, Space) BY <1>1, Appended
<1>13. Len(q) = Len(p) + 1 /\ q[Len(p) + 1] = Space BY <1>1, <1>7, Appended
<1>8. Len(q) = 3 /\ q[3] = Space BY <1>4, <1>13
<1>9. PICK one : one = SubSeq(q, 3, Len(q)) OBVIOUS
<1>10. one \in Seq(Bytes) /\ Len(one) = 1 /\ one[1] = Space BY <1>8, <1>9, SMTT(30)
<1>14. one # <<>>
  <2>1. Len(<<>>) = 0 OBVIOUS
  <2>2. Len(one) # 0 BY <1>10
  <2> QED BY <2>1, <2>2
<1>11. TrimSpace(one) = SubSeq(one, 2, 1) BY <1>10, <1>14 DEF TrimSpace
<1>12. SubSeq(one, 2, 1) = <<>> BY <1>10
<1> QED BY <1>3, <1>5, <1>6, <1>7, <1>9, <1>11, <1>12 DEF Value

LEMMA CutCR ==
  ASSUME NEW line \in Seq(Bytes)
  PROVE  TrimSuffix(Append(line, CR)) = line
<1>1. PICK n \in Nat : n = Len(line) OBVIOUS
<1>2. CR \in Bytes BY DEF Bytes
<1>3. PICK p \in Seq(Bytes) : p = Append(line, CR) BY <1>2, Appended
<1>4. Len(p) = n + 1 /\ p[n + 1] = CR /\ p # <<>> /\ \A i \in 1..n : p[i] = line[i] BY <1>1, <1>2, <1>3, Appended
<1>5. TrimSuffix(p) = SubSeq(p, 1, n)
  <2>1. Len(p) - 1 = n BY <1>4, <1>1
  <2> QED BY <2>1, <1>4 DEF TrimSuffix
<1>6. SubSeq(p, 1, n) = line
  <2>1. PICK q : q = SubSeq(p, 1, n) OBVIOUS
  <2>2. q \in Seq(Bytes) /\ Len(q) = n /\ \A i \in 1..n : q[i] = p[i] BY <2>1, <1>4
  <2>3. \A i \in 1..Len(q) : q[i] = line[i] BY <2>2, <1>4
  <2> QED BY <2>1, <2>2, <2>3, <1>1, SameBytes
<1> QED BY <1>3, <1>5, <1>6

LEMMA WithDataLine ==
  ASSUME NEW data \in Payloads, NEW line \in Seq(Bytes), DataLine(line)
  PROVE  /\ line[Len(line)] # CR => WithLine(data, line) = Join(data, Value(line))
         /\ WithLine(data, Append(line, CR)) = Join(data, Value(line))
<1>1. line # <<>> BY DEF DataLine
<1>2. sseField(line) = <<Value(line)>>
  <2>1. line # <<Data>>
    <3>1. Len(<<Data>>) = 1 OBVIOUS
    <3>2. Len(line) # 1 BY DEF DataLine
    <3> QED BY <3>1, <3>2
  <2> QED BY <2>1 DEF sseField, DataLine, Value
<1>3. ASSUME NEW t, TrimSuffix(t) = line PROVE WithLine(data, t) = Join(data, Value(line))
  <2>1. PICK value : value = sseField(TrimSuffix(t)) OBVIOUS
  <2>2. value = <<Value(line)>> BY <2>1, <1>2, <1>3
  <2>3. value # <<>> /\ value[1] = Value(line) BY <2>2
  <2> QED BY <2>1, <2>3 DEF WithLine
<1>4. line[Len(line)] # CR => TrimSuffix(line) = line BY <1>1 DEF TrimSuffix
<1>5. TrimSuffix(Append(line, CR)) = line BY CutCR
<1> QED BY <1>3, <1>4, <1>5

LEMMA WithBareData ==
  ASSUME NEW data \in Payloads
  PROVE  WithLine(data, <<Data>>) = Join(data, <<>>) /\ WithLine(data, <<Data, CR>>) = Join(data, <<>>)
<1>1. sseField(<<Data>>) = << <<>> >> BY DEF sseField
<1>2. TrimSuffix(<<Data>>) = <<Data>>
  <2>1. <<Data>>[Len(<<Data>>)] = Data OBVIOUS
  <2> QED BY <2>1, Letters DEF TrimSuffix
<1>3. TrimSuffix(<<Data, CR>>) = <<Data>>
  <2>1. Data \in Bytes BY DEF Bytes
  <2>2. <<Data>> \in Seq(Bytes) BY <2>1
  <2>4. CR \in Bytes BY DEF Bytes
  <2>5. <<Data, CR>> \in Seq(Bytes) BY <2>1, <2>4
  <2>6. PICK p \in Seq(Bytes) : p = Append(<<Data>>, CR) BY <2>2, <2>4, Appended
  <2>7. Len(<<Data>>) = 1 /\ <<Data>>[1] = Data OBVIOUS
  <2>8. Len(p) = Len(<<Data>>) + 1 /\ p[Len(<<Data>>) + 1] = CR /\ \A i \in 1..Len(<<Data>>) : p[i] = <<Data>>[i]
    BY <2>2, <2>4, <2>6, Appended
  <2>9. Len(p) = 2 /\ p[1] = Data /\ p[2] = CR BY <2>7, <2>8
  <2>10. \A i \in 1..2 : p[i] = <<Data, CR>>[i] BY <2>9
  <2>3. Append(<<Data>>, CR) = <<Data, CR>> BY <2>5, <2>6, <2>9, <2>10, SameBytes
  <2> QED BY <2>2, <2>3, CutCR
<1>4. ASSUME NEW t, TrimSuffix(t) = <<Data>> PROVE WithLine(data, t) = Join(data, <<>>)
  <2>1. PICK value : value = sseField(TrimSuffix(t)) OBVIOUS
  <2>2. value = << <<>> >> BY <2>1, <1>1, <1>4
  <2>3. value # <<>> /\ value[1] = <<>> BY <2>2
  <2> QED BY <2>1, <2>3 DEF WithLine
<1> QED BY <1>2, <1>3, <1>4

LEMMA WithoutData ==
  ASSUME NEW data, NEW line \in Seq(Bytes), NeverData(line)
  PROVE  WithLine(data, line) = data /\ ~Blank(line)
<1>1. PICK n \in Nat : n = Len(line) /\ n >= 1 BY DEF NeverData
<1>2. /\ line[1] = CR => n > 1
      /\ line[1] = Data => n > 1 /\ line[2] # Colon /\ (line[2] = CR => n > 2)
  BY <1>1 DEF NeverData
<1>3. PICK t : t = TrimSuffix(line) OBVIOUS
<1>4. t = line \/ (line[n] = CR /\ t = SubSeq(line, 1, n - 1))
  BY <1>1, <1>3 DEF TrimSuffix
<1>5. t # <<Data>> /\ ~ (Len(t) > 1 /\ t[1] = Data /\ t[2] = Colon)
  <2>1. CASE t = line
    <3>1. line # <<Data>>
      <4>1. line = <<Data>> => line[1] = Data /\ n = 1 BY <1>1
      <4> QED BY <4>1, <1>2
    <3> QED BY <2>1, <3>1, <1>2
  <2>2. CASE line[n] = CR /\ t = SubSeq(line, 1, n - 1)
    <3>1. t \in Seq(Bytes) /\ Len(t) = n - 1 /\ \A i \in 1..(n - 1) : t[i] = line[i] BY <2>2, <1>1
    <3>2. ASSUME t = <<Data>> PROVE FALSE
      <4>1. n = 2 /\ t[1] = Data
        <5>1. Len(<<Data>>) = 1 /\ <<Data>>[1] = Data OBVIOUS
        <5>2. Len(t) = 1 /\ t[1] = Data BY <5>1, <3>2
        <5>3. n - 1 = 1 BY <5>2, <3>1
        <5> QED BY <5>2, <5>3, <1>1
      <4>2. line[1] = Data BY <4>1, <3>1
      <4> QED BY <4>1, <4>2, <2>2, <1>2
    <3>3. ASSUME Len(t) > 1, t[1] = Data, t[2] = Colon PROVE FALSE
      <4>1. n - 1 > 1 BY <3>1, <3>3
      <4>2. line[1] = Data /\ line[2] = Colon BY <4>1, <3>1, <3>3
      <4> QED BY <4>2, <1>2
    <3> QED BY <3>2, <3>3
  <2> QED BY <2>1, <2>2, <1>4
<1>6. sseField(t) = <<>> BY <1>5 DEF sseField
<1>7. WithLine(data, line) = data BY <1>3, <1>6 DEF WithLine
<1>8. ~Blank(line)
  <2>1. line # <<>> BY <1>1
  <2>2. line = <<CR>> => line[1] = CR /\ n = 1 BY <1>1
  <2> QED BY <2>1, <2>2, <1>2 DEF Blank
<1> QED BY <1>7, <1>8

LEMMA NeverDataMore ==
  ASSUME NEW line \in Seq(Bytes), NeverData(line), NEW b \in Bytes
  PROVE  NeverData(Append(line, b))
<1>1. PICK n \in Nat : n = Len(line) /\ n >= 1 BY DEF NeverData
<1>2. PICK p : p = Append(line, b) OBVIOUS
<1>3. p # <<>> /\ Len(p) = n + 1 /\ \A i \in 1..n : p[i] = line[i] BY <1>1, <1>2, Appended
<1>4. /\ line[1] = CR => n > 1
      /\ line[1] = Data => n > 1 /\ line[2] # Colon /\ (line[2] = CR => n > 2)
  BY <1>1 DEF NeverData
<1>5. p[1] = line[1] /\ (n > 1 => p[2] = line[2]) BY <1>1, <1>3
<1> QED BY <1>1, <1>2, <1>3, <1>4, <1>5 DEF NeverData

LEMMA NamesAreNotData ==
  ASSUME NEW field \in Seq(Bytes), Name(field), field # <<Data>>
  PROVE  NeverData(field) /\ NeverData(Append(field, CR)) /\ NeverData(Append(field, Colon))
<1>1. PICK n \in Nat : n = Len(field) /\ n >= 1 BY DEF Name
<1>2. \A i \in 1..n : field[i] # Colon /\ field[i] # CR /\ field[i] # LF BY <1>1 DEF Name
<1>3. field[1] = Data => n > 1
  <2>1. n = 1 => field = <<field[1]>> BY <1>1, SingleByte
  <2> QED BY <2>1, <1>1
<1>4. NeverData(field)
  <2>1. field # <<>> BY <1>1
  <2>2. field[1] # CR /\ (n > 1 => field[2] # Colon /\ field[2] # CR) BY <1>1, <1>2
  <2> QED BY <2>1, <2>2, <1>1, <1>3 DEF NeverData
<1>5. CR \in Bytes /\ Colon \in Bytes BY DEF Bytes
<1> QED BY <1>4, <1>5, NeverDataMore

-----------------------------------------------------------------------------
(* The lexer keeps up with the reader.                                     *)

LexStates == {"lineStart", "lineStartCR", "fieldName", "fieldCR", "dataValueStart", "dataValue", "skipLine"}
Lexers == [state : LexStates, field : Seq(Bytes), sawData : BOOLEAN, heldCR : BOOLEAN, out : Seq(Bytes), done : BOOLEAN]

\* The state says what the open line is so far, and out what the payload is.
LexMatches(l, r) ==
  /\ l.state # "dataValue" => Salvaged(l) = r.data /\ ~l.heldCR
  /\ ~l.sawData => l.out = <<>>
  /\ \/ l.state = "lineStart" /\ r.line = <<>>
     \/ l.state = "lineStartCR" /\ r.line = <<CR>>
     \/ l.state = "fieldName" /\ Name(l.field) /\ r.line = l.field
     \/ l.state = "fieldCR" /\ Name(l.field) /\ r.line = Append(l.field, CR)
     \/ l.state = "dataValueStart" /\ r.line = <<Data, Colon>>
     \/ /\ l.state = "dataValue" /\ DataLine(r.line) /\ Len(r.line) > 2 /\ l.sawData
        /\ l.heldCR <=> r.line[Len(r.line)] = CR
        /\ Join(r.data, Value(r.line)) = <<IF l.heldCR THEN Append(l.out, CR) ELSE l.out>>
     \/ l.state = "skipLine" /\ NeverData(r.line)

LEMMA LexerFields ==
  ASSUME NEW l \in Lexers
  PROVE  /\ l.state \in LexStates /\ l.field \in Seq(Bytes) /\ l.sawData \in BOOLEAN /\ l.heldCR \in BOOLEAN
         /\ l.out \in Seq(Bytes) /\ l.done \in BOOLEAN
BY DEF Lexers

LEMMA FirstLexer == oversizedLexer \in Lexers /\ LexMatches(oversizedLexer, Silence)
<1>1. <<>> \in Seq(Bytes) OBVIOUS
<1>2. oversizedLexer \in Lexers BY <1>1 DEF oversizedLexer, Lexers, LexStates
<1>3. /\ oversizedLexer.state = "lineStart" /\ oversizedLexer.sawData = FALSE /\ oversizedLexer.heldCR = FALSE
      /\ oversizedLexer.out = <<>>
  BY DEF oversizedLexer
<1>4. Silence.line = <<>> /\ Silence.data = <<>> BY DEF Silence
<1>5. Salvaged(oversizedLexer) = <<>> BY <1>3 DEF Salvaged
<1> QED BY <1>2, <1>3, <1>4, <1>5 DEF LexMatches

LEMMA GoToFields ==
  ASSUME NEW l \in Lexers, NEW st \in LexStates
  PROVE  /\ GoTo(l, st) \in Lexers /\ GoTo(l, st).state = st /\ GoTo(l, st).field = l.field
         /\ GoTo(l, st).sawData = l.sawData /\ GoTo(l, st).heldCR = l.heldCR /\ GoTo(l, st).out = l.out
         /\ GoTo(l, st).done = l.done
<1>1. GoTo(l, st) = [l EXCEPT !.state = st] BY DEF GoTo
<1> QED BY <1>1 DEF Lexers

LEMMA BeginFields ==
  ASSUME NEW l \in Lexers
  PROVE  /\ beginDataValue(l) \in Lexers /\ beginDataValue(l).state = l.state /\ beginDataValue(l).field = l.field
         /\ beginDataValue(l).sawData = TRUE /\ beginDataValue(l).heldCR = l.heldCR /\ beginDataValue(l).done = l.done
         /\ (~l.sawData => l.out = <<>>) => <<beginDataValue(l).out>> = Join(Salvaged(l), <<>>)
<1>1. l.out \in Seq(Bytes) /\ l.sawData \in BOOLEAN BY LexerFields
<1>2. LF \in Bytes BY DEF Bytes
<1>3. PICK out \in Seq(Bytes) : out = IF l.sawData THEN Append(l.out, LF) ELSE l.out
  <2>1. Append(l.out, LF) \in Seq(Bytes) BY <1>1, <1>2
  <2> QED BY <2>1, <1>1
<1>4. beginDataValue(l) = [l EXCEPT !.out = out, !.sawData = TRUE] BY <1>3 DEF beginDataValue
<1>5. ASSUME ~l.sawData => l.out = <<>> PROVE <<out>> = Join(Salvaged(l), <<>>)
  <2>1. CASE l.sawData
    <3>1. Salvaged(l) = <<l.out>> BY <2>1 DEF Salvaged
    <3>2. PICK x : x = <<l.out>> OBVIOUS
    <3>3. x # <<>> /\ x[1] = l.out BY <3>2
    <3>4. Join(x, <<>>) = << l.out \o <<LF>> \o <<>> >> BY <3>3 DEF Join
    <3>5. l.out \o <<LF>> \o <<>> = Append(l.out, LF)
      <4>1. PICK y \in Seq(Bytes) : y = l.out BY <1>1
      <4>2. <<LF>> \in Seq(Bytes) BY <1>2
      <4>3. y \o <<LF>> \in Seq(Bytes) BY <4>2
      <4>4. (y \o <<LF>>) \o <<>> = y \o <<LF>> BY <4>3
      <4>5. Append(y, LF) \in Seq(Bytes) BY <1>2
      <4>6. Len(y \o <<LF>>) = Len(y) + 1 /\ Len(Append(y, LF)) = Len(y) + 1 BY <4>2, <1>2
      <4>7. \A i \in 1..(Len(y) + 1) : (y \o <<LF>>)[i] = Append(y, LF)[i]
        <5> TAKE i \in 1..(Len(y) + 1)
        <5>1. CASE i \in 1..Len(y) BY <5>1, <4>2, <1>2
        <5>2. CASE i = Len(y) + 1 BY <5>2, <4>2, <1>2
        <5>3. i \in 1..Len(y) \/ i = Len(y) + 1 OBVIOUS
        <5> QED BY <5>1, <5>2, <5>3
      <4>8. y \o <<LF>> = Append(y, LF) BY <4>3, <4>5, <4>6, <4>7, SameBytes
      <4> QED BY <4>1, <4>4, <4>8
    <3> QED BY <2>1, <3>1, <3>2, <3>4, <3>5, <1>3
  <2>2. CASE ~l.sawData
    <3>1. Salvaged(l) = <<>> BY <2>2 DEF Salvaged
    <3>2. out = <<>> BY <2>2, <1>3, <1>5
    <3>3. Join(<<>>, <<>>) = << <<>> >> BY DEF Join
    <3> QED BY <3>1, <3>2, <3>3
  <2> QED BY <2>1, <2>2
<1>6. /\ beginDataValue(l) \in Lexers /\ beginDataValue(l).state = l.state /\ beginDataValue(l).field = l.field
      /\ beginDataValue(l).sawData = TRUE /\ beginDataValue(l).heldCR = l.heldCR /\ beginDataValue(l).done = l.done
      /\ beginDataValue(l).out = out
  BY <1>4 DEF Lexers
<1> QED BY <1>5, <1>6

\* What a byte does, state by state.
LEMMA LexByteIs ==
  ASSUME NEW l \in Lexers, NEW b \in Bytes
  PROVE  /\ l.state = "lineStart" =>
              LexByte(l, b) = IF b = LF THEN [l EXCEPT !.done = TRUE]
                              ELSE IF b = CR THEN GoTo(l, "lineStartCR")
                              ELSE IF b = Colon THEN GoTo(l, "skipLine")
                              ELSE GoTo([l EXCEPT !.field = <<b>>], "fieldName")
         /\ l.state = "lineStartCR" =>
              LexByte(l, b) = IF b = LF THEN [l EXCEPT !.done = TRUE] ELSE GoTo(l, "skipLine")
         /\ l.state = "fieldName" => LexByte(l, b) = FieldByte(l, b)
         /\ l.state = "fieldCR" => LexByte(l, b) = IF b = LF THEN endFieldOnlyLine(l) ELSE GoTo(l, "skipLine")
         /\ l.state = "dataValueStart" =>
              LexByte(l, b) = IF b = Space THEN GoTo(beginDataValue(l), "dataValue")
                              ELSE DataByte(GoTo(beginDataValue(l), "dataValue"), b)
         /\ l.state = "dataValue" => LexByte(l, b) = DataByte(ReleaseCR(l, b), b)
         /\ l.state = "skipLine" => LexByte(l, b) = IF b = LF THEN GoTo(l, "lineStart") ELSE l
<1>1. l.state = "lineStart" =>
        LexByte(l, b) = IF b = LF THEN [l EXCEPT !.done = TRUE]
                        ELSE IF b = CR THEN GoTo(l, "lineStartCR")
                        ELSE IF b = Colon THEN GoTo(l, "skipLine")
                        ELSE GoTo([l EXCEPT !.field = <<b>>], "fieldName")
  BY Letters DEF LexByte
<1>2. l.state = "lineStartCR" => LexByte(l, b) = IF b = LF THEN [l EXCEPT !.done = TRUE] ELSE GoTo(l, "skipLine")
  BY DEF LexByte
<1>3. l.state = "fieldName" => LexByte(l, b) = FieldByte(l, b) BY DEF LexByte
<1>4. l.state = "fieldCR" => LexByte(l, b) = IF b = LF THEN endFieldOnlyLine(l) ELSE GoTo(l, "skipLine")
  BY DEF LexByte
<1>5. l.state = "dataValueStart" =>
        LexByte(l, b) = IF b = Space THEN GoTo(beginDataValue(l), "dataValue")
                        ELSE DataByte(GoTo(beginDataValue(l), "dataValue"), b)
  BY DEF LexByte
<1>6. l.state = "dataValue" => LexByte(l, b) = DataByte(ReleaseCR(l, b), b) BY DEF LexByte
<1>7. l.state = "skipLine" => LexByte(l, b) = IF b = LF THEN GoTo(l, "lineStart") ELSE l BY DEF LexByte
<1> QED BY <1>1, <1>2, <1>3, <1>4, <1>5, <1>6, <1>7

LEMMA FieldByteIs ==
  ASSUME NEW l \in Lexers, NEW b \in Bytes
  PROVE  FieldByte(l, b) =
           IF b = Colon THEN GoTo(l, IF l.field = <<Data>> THEN "dataValueStart" ELSE "skipLine")
           ELSE IF b = LF THEN endFieldOnlyLine(l)
           ELSE IF b = CR THEN GoTo(l, "fieldCR")
           ELSE IF Len(l.field) >= MaxFieldName THEN GoTo(l, "skipLine") ELSE [l EXCEPT !.field = Append(l.field, b)]
BY Letters DEF FieldByte

LEMMA DataByteIs ==
  ASSUME NEW l \in Lexers, NEW b \in Bytes
  PROVE  DataByte(l, b) = IF b = LF THEN GoTo(l, "lineStart")
                          ELSE IF b = CR THEN [l EXCEPT !.heldCR = TRUE]
                          ELSE [l EXCEPT !.out = Append(l.out, b)]
BY Letters DEF DataByte

LEMMA EndFieldFields ==
  ASSUME NEW l \in Lexers
  PROVE  /\ endFieldOnlyLine(l) \in Lexers /\ endFieldOnlyLine(l).state = "lineStart"
         /\ endFieldOnlyLine(l).done = l.done /\ endFieldOnlyLine(l).heldCR = l.heldCR
         /\ l.field # <<Data>> => endFieldOnlyLine(l).out = l.out /\ endFieldOnlyLine(l).sawData = l.sawData
         /\ l.field = <<Data>> => /\ endFieldOnlyLine(l).out = beginDataValue(l).out
                                  /\ endFieldOnlyLine(l).sawData = TRUE
<1>1. "lineStart" \in LexStates BY DEF LexStates
<1>2. CASE l.field = <<Data>>
  <2>1. PICK m \in Lexers : m = beginDataValue(l) BY BeginFields
  <2>2. endFieldOnlyLine(l) = GoTo(m, "lineStart") BY <2>1, <1>2 DEF endFieldOnlyLine
  <2>3. m.done = l.done /\ m.heldCR = l.heldCR /\ m.sawData = TRUE BY <2>1, BeginFields
  <2>4. /\ GoTo(m, "lineStart") \in Lexers /\ GoTo(m, "lineStart").state = "lineStart"
        /\ GoTo(m, "lineStart").sawData = m.sawData /\ GoTo(m, "lineStart").heldCR = m.heldCR
        /\ GoTo(m, "lineStart").out = m.out /\ GoTo(m, "lineStart").done = m.done
    BY <1>1, GoToFields
  <2> QED BY <2>1, <2>2, <2>3, <2>4, <1>2
<1>3. CASE l.field # <<Data>>
  <2>1. endFieldOnlyLine(l) = GoTo(l, "lineStart") BY <1>3 DEF endFieldOnlyLine
  <2> QED BY <2>1, <1>1, <1>3, GoToFields
<1> QED BY <1>2, <1>3

LEMMA ReleaseFields ==
  ASSUME NEW l \in Lexers, NEW b \in Bytes
  PROVE  /\ ReleaseCR(l, b) \in Lexers /\ ReleaseCR(l, b).state = l.state /\ ReleaseCR(l, b).done = l.done
         /\ ReleaseCR(l, b).sawData = l.sawData /\ ReleaseCR(l, b).heldCR = FALSE
         /\ ReleaseCR(l, b).out = IF l.heldCR /\ b # LF THEN Append(l.out, CR) ELSE l.out
<1>1. l.out \in Seq(Bytes) /\ l.heldCR \in BOOLEAN BY LexerFields
<1>2. CASE l.heldCR
  <2>1. CR \in Bytes BY DEF Bytes
  <2>2. Append(l.out, CR) \in Seq(Bytes) BY <1>1, <2>1
  <2>3. PICK out \in Seq(Bytes) : out = IF b # LF THEN Append(l.out, CR) ELSE l.out BY <2>2, <1>1
  <2>4. ReleaseCR(l, b) = [l EXCEPT !.heldCR = FALSE, !.out = out] BY <1>2, <2>3 DEF ReleaseCR
  <2> QED BY <1>2, <2>3, <2>4 DEF Lexers
<1>3. CASE ~l.heldCR
  <2>1. ReleaseCR(l, b) = l BY <1>3 DEF ReleaseCR
  <2> QED BY <2>1, <1>1, <1>3
<1> QED BY <1>2, <1>3

LEMMA DataFields ==
  ASSUME NEW l \in Lexers, NEW b \in Bytes, l.state = "dataValue"
  PROVE  /\ DataByte(l, b) \in Lexers /\ DataByte(l, b).done = l.done /\ DataByte(l, b).sawData = l.sawData
         /\ b = LF => /\ DataByte(l, b).state = "lineStart" /\ DataByte(l, b).out = l.out
                      /\ DataByte(l, b).heldCR = l.heldCR
         /\ b # LF => /\ DataByte(l, b).state = "dataValue"
                      /\ DataByte(l, b).heldCR = IF b = CR THEN TRUE ELSE l.heldCR
                      /\ DataByte(l, b).out = IF b = CR THEN l.out ELSE Append(l.out, b)
<1>1. l.out \in Seq(Bytes) /\ Append(l.out, b) \in Seq(Bytes)
  <2>1. l.out \in Seq(Bytes) BY LexerFields
  <2> QED BY <2>1
<1>2. CASE b = LF
  <2>1. "lineStart" \in LexStates BY DEF LexStates
  <2>2. DataByte(l, b) = GoTo(l, "lineStart") BY <1>2, DataByteIs
  <2> QED BY <2>1, <2>2, <1>2, GoToFields
<1>3. CASE b = CR
  <2>1. DataByte(l, b) = [l EXCEPT !.heldCR = TRUE] BY <1>3, DataByteIs, Letters
  <2>2. b # LF BY <1>3, Letters
  <2> QED BY <2>1, <2>2, <1>3 DEF Lexers
<1>4. CASE b # LF /\ b # CR
  <2>1. DataByte(l, b) = [l EXCEPT !.out = Append(l.out, b)] BY <1>4, DataByteIs
  <2> QED BY <2>1, <1>1, <1>4 DEF Lexers
<1> QED BY <1>2, <1>3, <1>4

LEMMA DoneFields ==
  ASSUME NEW l \in Lexers
  PROVE  /\ [l EXCEPT !.done = TRUE] \in Lexers /\ [l EXCEPT !.done = TRUE].done
         /\ Salvaged([l EXCEPT !.done = TRUE]) = Salvaged(l)
BY DEF Lexers, Salvaged

LEMMA FieldFields ==
  ASSUME NEW l \in Lexers, NEW field \in Seq(Bytes)
  PROVE  LET m == [l EXCEPT !.field = field]
         IN /\ m \in Lexers /\ m.state = l.state /\ m.field = field /\ m.sawData = l.sawData
            /\ m.heldCR = l.heldCR /\ m.out = l.out /\ m.done = l.done
BY DEF Lexers

LEMMA LexByteType == ASSUME NEW l \in Lexers, NEW b \in Bytes PROVE LexByte(l, b) \in Lexers
<1>1. \A m \in Lexers : /\ GoTo(m, "lineStart") \in Lexers /\ GoTo(m, "lineStartCR") \in Lexers
                        /\ GoTo(m, "fieldName") \in Lexers /\ GoTo(m, "fieldCR") \in Lexers
                        /\ GoTo(m, "dataValueStart") \in Lexers /\ GoTo(m, "skipLine") \in Lexers
                        /\ GoTo(m, "dataValue") \in Lexers /\ GoTo(m, "dataValue").state = "dataValue"
  <2>1. "lineStart" \in LexStates /\ "lineStartCR" \in LexStates /\ "fieldName" \in LexStates
        /\ "fieldCR" \in LexStates /\ "dataValueStart" \in LexStates /\ "dataValue" \in LexStates
        /\ "skipLine" \in LexStates
    BY DEF LexStates
  <2> QED BY <2>1, GoToFields
<1>2. [l EXCEPT !.done = TRUE] \in Lexers BY DoneFields
<1>3. CASE l.state = "lineStart"
  <2>1. <<b>> \in Seq(Bytes) OBVIOUS
  <2>2. PICK m \in Lexers : m = [l EXCEPT !.field = <<b>>] BY <2>1, FieldFields
  <2>3. GoTo(m, "fieldName") \in Lexers BY <1>1
  <2>4. LexByte(l, b) = IF b = LF THEN [l EXCEPT !.done = TRUE]
                        ELSE IF b = CR THEN GoTo(l, "lineStartCR")
                        ELSE IF b = Colon THEN GoTo(l, "skipLine") ELSE GoTo(m, "fieldName")
    BY <2>2, <1>3, LexByteIs
  <2>5. GoTo(l, "lineStartCR") \in Lexers /\ GoTo(l, "skipLine") \in Lexers BY <1>1
  <2> QED BY <2>3, <2>4, <2>5, <1>2
<1>4. CASE l.state = "lineStartCR"
  <2>1. LexByte(l, b) = IF b = LF THEN [l EXCEPT !.done = TRUE] ELSE GoTo(l, "skipLine") BY <1>4, LexByteIs
  <2>2. GoTo(l, "skipLine") \in Lexers BY <1>1
  <2> QED BY <2>1, <2>2, <1>2
<1>5. CASE l.state = "fieldName"
  <2>1. Append(l.field, b) \in Seq(Bytes) BY LexerFields, Appended
  <2>2. [l EXCEPT !.field = Append(l.field, b)] \in Lexers BY <2>1, FieldFields
  <2>3. LexByte(l, b) = FieldByte(l, b) BY <1>5, LexByteIs
  <2>4. endFieldOnlyLine(l) \in Lexers BY EndFieldFields
  <2>5. /\ GoTo(l, "dataValueStart") \in Lexers /\ GoTo(l, "skipLine") \in Lexers
        /\ GoTo(l, "fieldCR") \in Lexers
    BY <1>1
  <2>6. FieldByte(l, b) \in Lexers
    <3>1. CASE b = Colon BY <3>1, <2>5, FieldByteIs
    <3>2. CASE b = LF BY <3>2, <2>4, FieldByteIs, Letters
    <3>3. CASE b = CR BY <3>3, <2>5, FieldByteIs, Letters
    <3>4. CASE b # Colon /\ b # LF /\ b # CR BY <3>4, <2>2, <2>5, FieldByteIs
    <3> QED BY <3>1, <3>2, <3>3, <3>4
  <2> QED BY <2>3, <2>6
<1>6. CASE l.state = "fieldCR"
  <2>1. LexByte(l, b) = IF b = LF THEN endFieldOnlyLine(l) ELSE GoTo(l, "skipLine") BY <1>6, LexByteIs
  <2>2. GoTo(l, "skipLine") \in Lexers /\ endFieldOnlyLine(l) \in Lexers BY <1>1, EndFieldFields
  <2> QED BY <2>1, <2>2
<1>7. CASE l.state = "dataValueStart"
  <2>1. PICK n \in Lexers : n = beginDataValue(l) BY BeginFields
  <2>2. PICK m \in Lexers : m = GoTo(n, "dataValue") BY <1>1
  <2>3. m.state = "dataValue" BY <2>2, <1>1
  <2>4. DataByte(m, b) \in Lexers BY <2>3, DataFields
  <2>5. LexByte(l, b) = IF b = Space THEN m ELSE DataByte(m, b) BY <2>1, <2>2, <1>7, LexByteIs
  <2> QED BY <2>4, <2>5
<1>8. CASE l.state = "dataValue"
  <2>1. PICK m \in Lexers : m = ReleaseCR(l, b) BY ReleaseFields
  <2>2. m.state = "dataValue" BY <2>1, <1>8, ReleaseFields
  <2>3. DataByte(m, b) \in Lexers BY <2>2, DataFields
  <2> QED BY <2>1, <2>3, <1>8, LexByteIs
<1>9. CASE l.state = "skipLine"
  <2>1. LexByte(l, b) = IF b = LF THEN GoTo(l, "lineStart") ELSE l BY <1>9, LexByteIs
  <2>2. GoTo(l, "lineStart") \in Lexers BY <1>1
  <2> QED BY <2>1, <2>2
<1> QED BY <1>3, <1>4, <1>5, <1>6, <1>7, <1>8, <1>9, LexerFields DEF LexStates

\* q is the reader after a byte that ends no event.
HeardAs(r, b, q) ==
  /\ b # LF => q.line = Append(r.line, b) /\ q.data = r.data
  /\ b = LF => q.line = <<>> /\ q.data = WithLine(r.data, r.line) /\ ~Blank(r.line)

LEMMA EmptyAppend == ASSUME NEW b \in Bytes PROVE Append(<<>>, b) = <<b>>
<1>1. <<>> \in Seq(Bytes) /\ <<b>> \in Seq(Bytes) OBVIOUS
<1>2. Append(<<>>, b) \in Seq(Bytes) /\ Len(Append(<<>>, b)) = 1 /\ Append(<<>>, b)[1] = b
  <2>1. Len(<<>>) = 0 OBVIOUS
  <2>2. Append(<<>>, b) \in Seq(Bytes) /\ Len(Append(<<>>, b)) = Len(<<>>) + 1 /\ Append(<<>>, b)[Len(<<>>) + 1] = b
    BY <1>1, Appended
  <2> QED BY <2>1, <2>2
<1> QED BY <1>2, SingleByte

LEMMA FollowsLineStart ==
  ASSUME NEW l \in Lexers, NEW r \in Readers, LexMatches(l, r), NEW b \in Bytes, NEW q, HeardAs(r, b, q),
         l.state = "lineStart"
  PROVE  LexMatches(LexByte(l, b), q) /\ LexByte(l, b).done = l.done
<1>1. r.line = <<>> /\ Salvaged(l) = r.data /\ ~l.heldCR /\ (~l.sawData => l.out = <<>>) BY DEF LexMatches
<1>2. b # LF BY <1>1 DEF HeardAs, Blank
<1>3. q.line = <<b>> /\ q.data = r.data BY <1>1, <1>2, EmptyAppend DEF HeardAs
<1>4. <<b>> \in Seq(Bytes) /\ <<b>> # <<>> /\ <<b>>[1] = b /\ Len(<<b>>) = 1 OBVIOUS
<1>5. "lineStartCR" \in LexStates /\ "skipLine" \in LexStates /\ "fieldName" \in LexStates BY DEF LexStates
<1>6. PICK m \in Lexers : m = LexByte(l, b) BY LexByteType
<1>7. CASE b = CR
  <2>1. m = GoTo(l, "lineStartCR") BY <1>2, <1>6, <1>7, LexByteIs
  <2>2. /\ m.state = "lineStartCR" /\ m.sawData = l.sawData /\ m.heldCR = l.heldCR /\ m.out = l.out
        /\ m.done = l.done
    BY <2>1, <1>5, GoToFields
  <2>3. Salvaged(m) = Salvaged(l) BY <2>2 DEF Salvaged
  <2> QED BY <2>2, <2>3, <1>1, <1>3, <1>6, <1>7 DEF LexMatches
<1>8. CASE b = Colon
  <2>1. m = GoTo(l, "skipLine") BY <1>2, <1>6, <1>8, LexByteIs, Letters
  <2>2. /\ m.state = "skipLine" /\ m.sawData = l.sawData /\ m.heldCR = l.heldCR /\ m.out = l.out
        /\ m.done = l.done
    BY <2>1, <1>5, GoToFields
  <2>3. Salvaged(m) = Salvaged(l) BY <2>2 DEF Salvaged
  <2>4. NeverData(<<b>>) BY <1>4, <1>8, Letters DEF NeverData
  <2> QED BY <2>2, <2>3, <2>4, <1>1, <1>3, <1>6 DEF LexMatches
<1>9. CASE b # CR /\ b # Colon
  <2>1. PICK n \in Lexers : n = [l EXCEPT !.field = <<b>>] BY <1>4, FieldFields
  <2>2. n.field = <<b>> /\ n.sawData = l.sawData /\ n.heldCR = l.heldCR /\ n.out = l.out /\ n.done = l.done
    BY <2>1, <1>4, FieldFields
  <2>3. m = GoTo(n, "fieldName") BY <2>1, <1>2, <1>6, <1>9, LexByteIs
  <2>4. /\ m.state = "fieldName" /\ m.field = n.field /\ m.sawData = n.sawData /\ m.heldCR = n.heldCR
        /\ m.out = n.out /\ m.done = n.done
    BY <2>3, <1>5, GoToFields
  <2>5. Salvaged(m) = Salvaged(l) BY <2>2, <2>4 DEF Salvaged
  <2>6. Name(<<b>>) BY <1>2, <1>4, <1>9 DEF Name
  <2> QED BY <2>2, <2>4, <2>5, <2>6, <1>1, <1>3, <1>6 DEF LexMatches
<1> QED BY <1>7, <1>8, <1>9

LEMMA FollowsLineStartCR ==
  ASSUME NEW l \in Lexers, NEW r \in Readers, LexMatches(l, r), NEW b \in Bytes, NEW q, HeardAs(r, b, q),
         l.state = "lineStartCR"
  PROVE  LexMatches(LexByte(l, b), q) /\ LexByte(l, b).done = l.done
<1>1. r.line = <<CR>> /\ Salvaged(l) = r.data /\ ~l.heldCR /\ (~l.sawData => l.out = <<>>) BY DEF LexMatches
<1>2. b # LF BY <1>1 DEF HeardAs, Blank
<1>3. q.line = Append(<<CR>>, b) /\ q.data = r.data BY <1>1, <1>2 DEF HeardAs
<1>4. PICK m \in Lexers : m = LexByte(l, b) BY LexByteType
<1>5. m = GoTo(l, "skipLine") BY <1>2, <1>4, LexByteIs
<1>6. /\ m.state = "skipLine" /\ m.sawData = l.sawData /\ m.heldCR = l.heldCR /\ m.out = l.out /\ m.done = l.done
  <2>1. "skipLine" \in LexStates BY DEF LexStates
  <2> QED BY <2>1, <1>5, GoToFields
<1>7. NeverData(Append(<<CR>>, b))
  <2>1. CR \in Bytes BY DEF Bytes
  <2>2. <<CR>> \in Seq(Bytes) /\ Len(<<CR>>) = 1 /\ <<CR>>[1] = CR BY <2>1
  <2>3. PICK c \in Seq(Bytes) : c = <<CR>> BY <2>2
  <2>4. PICK p : p = Append(c, b) OBVIOUS
  <2>5. Len(c) = 1 /\ c[1] = CR BY <2>2, <2>3
  <2>7. p # <<>> /\ Len(p) = Len(c) + 1 /\ \A i \in 1..Len(c) : p[i] = c[i] BY <2>4, Appended
  <2>6. p # <<>> /\ Len(p) = 2 /\ p[1] = CR BY <2>5, <2>7
  <2> QED BY <2>3, <2>4, <2>6, Letters DEF NeverData
<1>8. Salvaged(m) = Salvaged(l) BY <1>6 DEF Salvaged
<1> QED BY <1>1, <1>3, <1>4, <1>6, <1>7, <1>8 DEF LexMatches

LEMMA FollowsSkipLine ==
  ASSUME NEW l \in Lexers, NEW r \in Readers, LexMatches(l, r), NEW b \in Bytes, NEW q, HeardAs(r, b, q),
         l.state = "skipLine"
  PROVE  LexMatches(LexByte(l, b), q) /\ LexByte(l, b).done = l.done
<1>1. NeverData(r.line) /\ Salvaged(l) = r.data /\ ~l.heldCR /\ (~l.sawData => l.out = <<>>) BY DEF LexMatches
<1>2. r.line \in Seq(Bytes) BY ReaderFields
<1>3. PICK m \in Lexers : m = LexByte(l, b) BY LexByteType
<1>4. CASE b # LF
  <2>1. m = l BY <1>3, <1>4, LexByteIs
  <2>2. NeverData(q.line) /\ q.data = r.data BY <1>1, <1>2, <1>4, NeverDataMore DEF HeardAs
  <2> QED BY <2>1, <2>2, <1>1, <1>3 DEF LexMatches
<1>5. CASE b = LF
  <2>1. m = GoTo(l, "lineStart") BY <1>3, <1>5, LexByteIs
  <2>2. /\ m.state = "lineStart" /\ m.sawData = l.sawData /\ m.heldCR = l.heldCR /\ m.out = l.out
        /\ m.done = l.done
    <3>1. "lineStart" \in LexStates BY DEF LexStates
    <3> QED BY <2>1, <3>1, GoToFields
  <2>3. q.line = <<>> /\ q.data = r.data BY <1>1, <1>2, <1>5, WithoutData DEF HeardAs
  <2>4. Salvaged(m) = Salvaged(l) BY <2>2 DEF Salvaged
  <2> QED BY <2>2, <2>3, <2>4, <1>1, <1>3 DEF LexMatches
<1> QED BY <1>4, <1>5

LEMMA NamesGrow ==
  ASSUME NEW field \in Seq(Bytes), Name(field), NEW b \in Bytes, b # LF, b # CR, b # Colon
  PROVE  Name(Append(field, b)) /\ NeverData(Append(field, b))
<1>1. PICK n \in Nat : n = Len(field) /\ n >= 1 BY DEF Name
<1>2. \A i \in 1..n : field[i] \notin {Colon, CR, LF} BY <1>1 DEF Name
<1>3. PICK p \in Seq(Bytes) : p = Append(field, b) BY Appended
<1>4. p # <<>> /\ Len(p) = n + 1 /\ p[n + 1] = b /\ \A i \in 1..n : p[i] = field[i] BY <1>1, <1>3, Appended
<1>5. \A i \in 1..(n + 1) : p[i] \notin {Colon, CR, LF}
  <2> TAKE i \in 1..(n + 1)
  <2>1. i \in 1..n \/ i = n + 1 OBVIOUS
  <2>2. CASE i \in 1..n BY <2>2, <1>2, <1>4
  <2>3. CASE i = n + 1 BY <2>3, <1>4
  <2> QED BY <2>1, <2>2, <2>3
<1>6. Name(p) BY <1>4, <1>5 DEF Name
<1>7. p # <<Data>>
  <2>1. Len(<<Data>>) = 1 OBVIOUS
  <2>2. Len(p) # 1 BY <1>1, <1>4
  <2> QED BY <2>1, <2>2
<1> QED BY <1>3, <1>6, <1>7, NamesAreNotData

\* What a line of a field name alone adds, with a carriage return or without.
LEMMA FollowsFieldEnd ==
  ASSUME NEW l \in Lexers, Name(l.field), ~l.heldCR, ~l.sawData => l.out = <<>>,
         NEW r \in Readers, Salvaged(l) = r.data, r.line = l.field \/ r.line = Append(l.field, CR),
         NEW q, q.line = <<>>, q.data = WithLine(r.data, r.line)
  PROVE  LexMatches(endFieldOnlyLine(l), q) /\ endFieldOnlyLine(l).done = l.done
<1>1. PICK m \in Lexers : m = endFieldOnlyLine(l) BY EndFieldFields
<1>2. m.state = "lineStart" /\ m.done = l.done /\ m.heldCR = l.heldCR BY <1>1, EndFieldFields
<1>3. r.data \in Payloads /\ l.field \in Seq(Bytes) BY ReaderFields, LexerFields
<1>4. CASE l.field = <<Data>>
  <2>1. m.out = beginDataValue(l).out /\ m.sawData = TRUE BY <1>1, <1>4, EndFieldFields
  <2>2. <<m.out>> = Join(r.data, <<>>) BY <2>1, BeginFields
  <2>3. Salvaged(m) = <<m.out>> BY <2>1 DEF Salvaged
  <2>4. Append(<<Data>>, CR) = <<Data, CR>>
    <3>1. Data \in Bytes /\ CR \in Bytes BY DEF Bytes
    <3>2. <<Data>> \in Seq(Bytes) /\ <<Data, CR>> \in Seq(Bytes) BY <3>1
    <3>3. PICK p \in Seq(Bytes) : p = Append(<<Data>>, CR) BY <3>1, <3>2, Appended
    <3>4. Len(<<Data>>) = 1 /\ <<Data>>[1] = Data OBVIOUS
    <3>5. Len(p) = Len(<<Data>>) + 1 /\ p[Len(<<Data>>) + 1] = CR /\ \A i \in 1..Len(<<Data>>) : p[i] = <<Data>>[i]
      BY <3>1, <3>2, <3>3, Appended
    <3>6. Len(p) = 2 /\ p[1] = Data /\ p[2] = CR BY <3>4, <3>5
    <3>7. \A i \in 1..2 : p[i] = <<Data, CR>>[i] BY <3>6
    <3> QED BY <3>2, <3>3, <3>6, <3>7, SameBytes
  <2>5. r.line = <<Data>> \/ r.line = <<Data, CR>> BY <1>4, <2>4
  <2>6. q.data = Join(r.data, <<>>) BY <2>5, <1>3, WithBareData
  <2> QED BY <1>1, <1>2, <2>1, <2>2, <2>3, <2>6 DEF LexMatches
<1>5. CASE l.field # <<Data>>
  <2>1. m.out = l.out /\ m.sawData = l.sawData BY <1>1, <1>5, EndFieldFields
  <2>2. Salvaged(m) = Salvaged(l) BY <2>1 DEF Salvaged
  <2>3. NeverData(r.line) BY <1>3, <1>5, NamesAreNotData
  <2>4. r.line \in Seq(Bytes) BY ReaderFields
  <2>5. q.data = r.data BY <2>3, <2>4, WithoutData
  <2> QED BY <1>1, <1>2, <2>1, <2>2, <2>5 DEF LexMatches
<1> QED BY <1>4, <1>5

LEMMA FollowsFieldName ==
  ASSUME NEW l \in Lexers, NEW r \in Readers, LexMatches(l, r), NEW b \in Bytes, NEW q, HeardAs(r, b, q),
         l.state = "fieldName"
  PROVE  LexMatches(LexByte(l, b), q) /\ LexByte(l, b).done = l.done
<1>1. /\ Name(l.field) /\ r.line = l.field /\ Salvaged(l) = r.data /\ ~l.heldCR
      /\ (~l.sawData => l.out = <<>>)
  BY DEF LexMatches
<1>2. l.field \in Seq(Bytes) BY LexerFields
<1>3. PICK m \in Lexers : m = LexByte(l, b) BY LexByteType
<1>4. m = FieldByte(l, b) BY <1>3, LexByteIs
<1>5. "dataValueStart" \in LexStates /\ "skipLine" \in LexStates /\ "fieldCR" \in LexStates BY DEF LexStates
<1>6. CASE b = LF
  <2>1. m = endFieldOnlyLine(l) BY <1>4, <1>6, FieldByteIs, Letters
  <2>2. q.line = <<>> /\ q.data = WithLine(r.data, r.line) BY <1>6 DEF HeardAs
  <2> QED BY <1>1, <1>3, <2>1, <2>2, FollowsFieldEnd
<1>7. ASSUME b # LF PROVE q.line = Append(l.field, b) /\ q.data = r.data BY <1>1, <1>7 DEF HeardAs
<1>8. ASSUME NEW st \in LexStates, m = GoTo(l, st)
      PROVE  /\ m.state = st /\ m.field = l.field /\ m.sawData = l.sawData /\ m.heldCR = l.heldCR /\ m.out = l.out
             /\ m.done = l.done /\ Salvaged(m) = Salvaged(l)
  <2>1. /\ m.state = st /\ m.field = l.field /\ m.sawData = l.sawData /\ m.heldCR = l.heldCR /\ m.out = l.out
        /\ m.done = l.done
    BY <1>8, GoToFields
  <2> QED BY <2>1 DEF Salvaged
<1>9. ASSUME b # LF, m = GoTo(l, "skipLine"), NeverData(Append(l.field, b))
      PROVE  LexMatches(m, q) /\ m.done = l.done
  <2>1. /\ m.state = "skipLine" /\ m.sawData = l.sawData /\ m.heldCR = l.heldCR /\ m.out = l.out
        /\ m.done = l.done /\ Salvaged(m) = Salvaged(l)
    BY <1>5, <1>8, <1>9
  <2>2. NeverData(q.line) /\ q.data = r.data BY <1>7, <1>9
  <2> QED BY <2>1, <2>2, <1>1 DEF LexMatches
<1>10. CASE b = Colon /\ l.field = <<Data>>
  <2>1. m = GoTo(l, "dataValueStart") BY <1>4, <1>10, FieldByteIs
  <2>2. /\ m.state = "dataValueStart" /\ m.sawData = l.sawData /\ m.heldCR = l.heldCR /\ m.out = l.out
        /\ m.done = l.done /\ Salvaged(m) = Salvaged(l)
    BY <2>1, <1>5, <1>8
  <2>3. Append(<<Data>>, Colon) = <<Data, Colon>>
    <3>1. Data \in Bytes /\ Colon \in Bytes BY DEF Bytes
    <3>2. <<Data>> \in Seq(Bytes) /\ <<Data, Colon>> \in Seq(Bytes) BY <3>1
    <3>3. PICK p \in Seq(Bytes) : p = Append(<<Data>>, Colon) BY <3>1, <3>2, Appended
    <3>4. Len(<<Data>>) = 1 /\ <<Data>>[1] = Data OBVIOUS
    <3>5. /\ Len(p) = Len(<<Data>>) + 1 /\ p[Len(<<Data>>) + 1] = Colon
          /\ \A i \in 1..Len(<<Data>>) : p[i] = <<Data>>[i]
      BY <3>1, <3>2, <3>3, Appended
    <3>6. Len(p) = 2 /\ p[1] = Data /\ p[2] = Colon BY <3>4, <3>5
    <3>7. \A i \in 1..2 : p[i] = <<Data, Colon>>[i] BY <3>6
    <3> QED BY <3>2, <3>3, <3>6, <3>7, SameBytes
  <2>4. q.line = <<Data, Colon>> /\ q.data = r.data BY <2>3, <1>7, <1>10, Letters
  <2> QED BY <2>2, <2>4, <1>1, <1>3 DEF LexMatches
<1>11. CASE b = Colon /\ l.field # <<Data>>
  <2>1. m = GoTo(l, "skipLine") BY <1>4, <1>11, FieldByteIs
  <2>2. NeverData(Append(l.field, b)) BY <1>1, <1>2, <1>11, NamesAreNotData
  <2> QED BY <2>1, <2>2, <1>3, <1>9, <1>11, Letters
<1>12. CASE b = CR
  <2>1. m = GoTo(l, "fieldCR") BY <1>4, <1>12, FieldByteIs, Letters
  <2>2. /\ m.state = "fieldCR" /\ m.field = l.field /\ m.sawData = l.sawData /\ m.heldCR = l.heldCR /\ m.out = l.out
        /\ m.done = l.done /\ Salvaged(m) = Salvaged(l)
    BY <2>1, <1>5, <1>8
  <2>3. q.line = Append(l.field, CR) /\ q.data = r.data BY <1>7, <1>12, Letters
  <2> QED BY <2>2, <2>3, <1>1, <1>3 DEF LexMatches
<1>13. CASE b # LF /\ b # CR /\ b # Colon /\ Len(l.field) >= MaxFieldName
  <2>1. m = GoTo(l, "skipLine") BY <1>4, <1>13, FieldByteIs
  <2>2. NeverData(Append(l.field, b)) BY <1>1, <1>2, <1>13, NamesGrow
  <2> QED BY <2>1, <2>2, <1>3, <1>9, <1>13
<1>14. CASE b # LF /\ b # CR /\ b # Colon /\ ~ (Len(l.field) >= MaxFieldName)
  <2>1. m = [l EXCEPT !.field = Append(l.field, b)] BY <1>4, <1>14, FieldByteIs
  <2>2. PICK field \in Seq(Bytes) : field = Append(l.field, b) BY <1>2, Appended
  <2>3. /\ m.state = l.state /\ m.field = field /\ m.sawData = l.sawData /\ m.heldCR = l.heldCR /\ m.out = l.out
        /\ m.done = l.done
    BY <2>1, <2>2, FieldFields
  <2>4. Salvaged(m) = Salvaged(l) BY <2>3 DEF Salvaged
  <2>5. Name(field) BY <1>1, <1>2, <1>14, <2>2, NamesGrow
  <2>6. q.line = field /\ q.data = r.data BY <1>7, <1>14, <2>2
  <2> QED BY <2>3, <2>4, <2>5, <2>6, <1>1, <1>3 DEF LexMatches
<1> QED BY <1>3, <1>6, <1>10, <1>11, <1>12, <1>13, <1>14

LEMMA FollowsFieldCR ==
  ASSUME NEW l \in Lexers, NEW r \in Readers, LexMatches(l, r), NEW b \in Bytes, NEW q, HeardAs(r, b, q),
         l.state = "fieldCR"
  PROVE  LexMatches(LexByte(l, b), q) /\ LexByte(l, b).done = l.done
<1>1. /\ Name(l.field) /\ r.line = Append(l.field, CR) /\ Salvaged(l) = r.data /\ ~l.heldCR
      /\ (~l.sawData => l.out = <<>>)
  BY DEF LexMatches
<1>2. l.field \in Seq(Bytes) /\ CR \in Bytes BY LexerFields DEF Bytes
<1>3. PICK m \in Lexers : m = LexByte(l, b) BY LexByteType
<1>4. CASE b = LF
  <2>1. m = endFieldOnlyLine(l) BY <1>3, <1>4, LexByteIs
  <2>2. q.line = <<>> /\ q.data = WithLine(r.data, r.line) BY <1>4 DEF HeardAs
  <2> QED BY <1>1, <1>3, <2>1, <2>2, FollowsFieldEnd
<1>5. CASE b # LF
  <2>1. m = GoTo(l, "skipLine") BY <1>3, <1>5, LexByteIs
  <2>2. /\ m.state = "skipLine" /\ m.sawData = l.sawData /\ m.heldCR = l.heldCR /\ m.out = l.out
        /\ m.done = l.done
    <3>1. "skipLine" \in LexStates BY DEF LexStates
    <3> QED BY <2>1, <3>1, GoToFields
  <2>3. Salvaged(m) = Salvaged(l) BY <2>2 DEF Salvaged
  <2>4. PICK p \in Seq(Bytes) : p = Append(l.field, CR) BY <1>2, Appended
  <2>5. q.line = Append(p, b) /\ q.data = r.data BY <2>4, <1>1, <1>5 DEF HeardAs
  <2>6. NeverData(Append(p, b))
    <3>1. CASE l.field # <<Data>> BY <3>1, <2>4, <1>1, <1>2, NamesAreNotData, NeverDataMore
    <3>2. CASE l.field = <<Data>>
      <4>1. Len(<<Data>>) = 1 /\ <<Data>>[1] = Data OBVIOUS
      <4>2. Len(l.field) = 1 /\ l.field[1] = Data BY <4>1, <3>2
      <4>3. /\ Len(p) = Len(l.field) + 1 /\ p[Len(l.field) + 1] = CR
            /\ \A i \in 1..Len(l.field) : p[i] = l.field[i]
        BY <2>4, <1>2, Appended
      <4>4. Len(p) = 2 /\ p[1] = Data /\ p[2] = CR BY <4>2, <4>3
      <4>5. PICK u : u = Append(p, b) OBVIOUS
      <4>6. u # <<>> /\ Len(u) = Len(p) + 1 /\ \A i \in 1..Len(p) : u[i] = p[i] BY <4>5, Appended
      <4>7. u # <<>> /\ Len(u) = 3 /\ u[1] = Data /\ u[2] = CR BY <4>4, <4>6
      <4>8. NeverData(u) BY <4>7, Letters DEF NeverData
      <4> QED BY <4>5, <4>8
    <3> QED BY <3>1, <3>2
  <2> QED BY <2>2, <2>3, <2>5, <2>6, <1>1, <1>3 DEF LexMatches
<1> QED BY <1>4, <1>5

LEMMA SameAppend ==
  ASSUME NEW p \in Seq(Bytes), NEW q \in Seq(Bytes), NEW b \in Bytes, Append(p, b) = Append(q, b)
  PROVE  p = q
<1>1. PICK u : u = Append(p, b) OBVIOUS
<1>2. Len(u) = Len(p) + 1 /\ \A i \in 1..Len(p) : u[i] = p[i] BY <1>1, Appended
<1>3. Len(u) = Len(q) + 1 /\ \A i \in 1..Len(q) : u[i] = q[i] BY <1>1, Appended
<1>4. Len(p) = Len(q) BY <1>2, <1>3
<1> QED BY <1>2, <1>3, <1>4, SameBytes

LEMMA FrontOf ==
  ASSUME NEW line \in Seq(Bytes), Len(line) > 1
  PROVE  \E front \in Seq(Bytes) :
           /\ line = Append(front, line[Len(line)]) /\ Len(front) = Len(line) - 1
           /\ \A i \in 1..(Len(line) - 1) : front[i] = line[i]
<1>1. PICK n \in Nat : n = Len(line) OBVIOUS
<1>2. PICK front : front = SubSeq(line, 1, n - 1) OBVIOUS
<1>3. front \in Seq(Bytes) /\ Len(front) = n - 1 /\ \A i \in 1..(n - 1) : front[i] = line[i] BY <1>1, <1>2
<1>4. PICK b \in Bytes : b = line[n]
  <2>1. n \in 1..Len(line) BY <1>1
  <2> QED BY <2>1
<1>5. PICK p \in Seq(Bytes) : p = Append(front, b) BY <1>3, Appended
<1>6. Len(p) = n /\ p[n] = b /\ \A i \in 1..(n - 1) : p[i] = front[i]
  <2>1. Len(p) = Len(front) + 1 /\ p[Len(front) + 1] = b /\ \A i \in 1..Len(front) : p[i] = front[i]
    BY <1>3, <1>5, Appended
  <2>2. Len(front) = n - 1 /\ n - 1 + 1 = n BY <1>3
  <2> QED BY <2>1, <2>2
<1>7. \A i \in 1..n : p[i] = line[i]
  <2> TAKE i \in 1..n
  <2>1. i = n \/ i \in 1..(n - 1) OBVIOUS
  <2> QED BY <2>1, <1>3, <1>4, <1>6
<1>8. p = line BY <1>1, <1>6, <1>7, SameBytes
<1> QED BY <1>1, <1>3, <1>4, <1>5, <1>8

\* A line that has got to its value.
LEMMA DataLineMore ==
  ASSUME NEW line \in Seq(Bytes), DataLine(line), NEW b \in Bytes
  PROVE  LET more == Append(line, b) IN DataLine(more) /\ Len(more) > 2 /\ more[Len(more)] = b
<1>1. PICK n \in Nat : n = Len(line) /\ n > 1 BY DEF DataLine
<1>2. PICK p : p = Append(line, b) OBVIOUS
<1>3. Len(p) = n + 1 /\ p[n + 1] = b /\ \A i \in 1..n : p[i] = line[i] BY <1>1, <1>2, Appended
<1>4. p[1] = line[1] /\ p[2] = line[2] BY <1>1, <1>3
<1> QED BY <1>1, <1>2, <1>3, <1>4 DEF DataLine

LEMMA EmptyData ==
  ASSUME NEW line, line = <<Data, Colon>>
  PROVE  line \in Seq(Bytes) /\ DataLine(line) /\ Len(line) = 2 /\ line[2] = Colon /\ Value(line) = <<>>
<1>1. Data \in Bytes /\ Colon \in Bytes BY DEF Bytes
<1>2. line \in Seq(Bytes) /\ Len(line) = 2 /\ line[1] = Data /\ line[2] = Colon BY <1>1
<1> QED BY <1>2, SpaceFirst DEF DataLine

LEMMA FollowsDataValueStart ==
  ASSUME NEW l \in Lexers, NEW r \in Readers, LexMatches(l, r), NEW b \in Bytes, NEW q, HeardAs(r, b, q),
         l.state = "dataValueStart"
  PROVE  LexMatches(LexByte(l, b), q) /\ LexByte(l, b).done = l.done
<1>1. r.line = <<Data, Colon>> /\ Salvaged(l) = r.data /\ ~l.heldCR /\ (~l.sawData => l.out = <<>>)
  BY DEF LexMatches
<1>2. r.data \in Payloads /\ l.heldCR \in BOOLEAN BY ReaderFields, LexerFields
<1>3. PICK line \in Seq(Bytes) : line = r.line BY ReaderFields
<1>4. DataLine(line) /\ Len(line) = 2 /\ line[Len(line)] = Colon /\ Value(line) = <<>> BY <1>1, <1>3, EmptyData
<1>5. PICK begun \in Lexers : begun = beginDataValue(l) BY BeginFields
<1>6. begun.sawData = TRUE /\ begun.heldCR = FALSE /\ begun.done = l.done BY <1>1, <1>2, <1>5, BeginFields
<1>7. <<begun.out>> = Join(r.data, <<>>) BY <1>1, <1>5, BeginFields
<1>8. PICK n \in Lexers : n = GoTo(begun, "dataValue") BY GoToFields DEF LexStates
<1>9. /\ n.state = "dataValue" /\ n.sawData = TRUE /\ n.heldCR = FALSE /\ n.done = l.done /\ n.out = begun.out
  <2>1. "dataValue" \in LexStates BY DEF LexStates
  <2> QED BY <2>1, <1>6, <1>8, GoToFields
<1>10. <<n.out>> = Join(r.data, <<>>) BY <1>7, <1>9
<1>11. PICK m \in Lexers : m = LexByte(l, b) BY LexByteType
<1>12. b # Space => m = DataByte(n, b) BY <1>5, <1>8, <1>11, LexByteIs
<1>13. ASSUME b # LF PROVE /\ q.data = r.data /\ DataLine(q.line) /\ Len(q.line) > 2
                           /\ q.line[Len(q.line)] = b /\ q.line = Append(line, b)
  <2>1. q.data = r.data /\ q.line = Append(line, b) BY <1>3, <1>13 DEF HeardAs
  <2>2. PICK more : more = Append(line, b) OBVIOUS
  <2>3. DataLine(more) /\ Len(more) > 2 /\ more[Len(more)] = b BY <2>2, <1>4, DataLineMore
  <2>4. q.line = more BY <2>1, <2>2
  <2> QED BY <2>1, <2>3, <2>4
<1>14. CASE b = Space
  <2>1. m = n BY <1>5, <1>8, <1>11, <1>14, LexByteIs
  <2>2. b # LF /\ b # CR BY <1>14, Letters
  <2>3. Value(q.line) = <<>> BY <1>1, <1>3, <1>13, <1>14, <2>2, SpaceFirst
  <2>4. Join(q.data, Value(q.line)) = <<m.out>> BY <2>1, <2>2, <2>3, <1>10, <1>13
  <2>5. q.line[Len(q.line)] # CR /\ DataLine(q.line) /\ Len(q.line) > 2 BY <2>2, <1>13
  <2> QED BY <2>1, <2>4, <2>5, <1>9, <1>11 DEF LexMatches
<1>15. CASE b = LF
  <2>1. m = DataByte(n, b) BY <1>12, <1>15, Letters
  <2>2. m.state = "lineStart" /\ m.out = n.out /\ m.heldCR = FALSE /\ m.sawData = TRUE /\ m.done = l.done
    BY <2>1, <1>9, <1>15, DataFields
  <2>3. q.line = <<>> /\ q.data = WithLine(r.data, line) BY <1>3, <1>15 DEF HeardAs
  <2>4. line[Len(line)] # CR BY <1>4, Letters
  <2>5. q.data = Join(r.data, <<>>) BY <2>3, <2>4, <1>2, <1>4, WithDataLine
  <2>6. Salvaged(m) = <<m.out>> BY <2>2 DEF Salvaged
  <2> QED BY <2>2, <2>3, <2>5, <2>6, <1>10, <1>11 DEF LexMatches
<1>16. CASE b # LF /\ b # Space
  <2>1. m = DataByte(n, b) BY <1>12, <1>16
  <2>2. /\ m.state = "dataValue" /\ m.sawData = TRUE /\ m.done = l.done
        /\ m.heldCR = (b = CR) /\ m.out = IF b = CR THEN n.out ELSE Append(n.out, b)
    BY <2>1, <1>9, <1>16, DataFields
  <2>11. Len(line) > 1 /\ ~ (Len(line) = 2 /\ b = Space) BY <1>4, <1>16
  <2>10. Value(Append(line, b)) = Append(Value(line), b) BY <2>11, ValueMore
  <2>3. Value(q.line) = Append(<<>>, b) BY <2>10, <1>4, <1>13, <1>16
  <2>4. PICK out \in Seq(Bytes) : Join(r.data, <<>>) = <<out>> /\ Join(r.data, Append(<<>>, b)) = <<Append(out, b)>>
    <3>1. <<>> \in Seq(Bytes) OBVIOUS
    <3> QED BY <3>1, <1>2, JoinMore
  <2>5. out = n.out
    <3>1. <<out>> = <<n.out>> BY <2>4, <1>10
    <3> QED BY <3>1
  <2>6. Join(q.data, Value(q.line)) = <<Append(n.out, b)>> BY <2>3, <2>4, <2>5, <1>13, <1>16
  <2>7. Join(q.data, Value(q.line)) = <<IF m.heldCR THEN Append(m.out, CR) ELSE m.out>> BY <2>2, <2>6
  <2>8. m.heldCR <=> q.line[Len(q.line)] = CR BY <2>2, <1>13, <1>16
  <2>9. DataLine(q.line) /\ Len(q.line) > 2 BY <1>13, <1>16
  <2> QED BY <2>2, <2>7, <2>8, <2>9, <1>11 DEF LexMatches
<1> QED BY <1>11, <1>14, <1>15, <1>16

LEMMA FollowsDataValue ==
  ASSUME NEW l \in Lexers, NEW r \in Readers, LexMatches(l, r), NEW b \in Bytes, NEW q, HeardAs(r, b, q),
         l.state = "dataValue"
  PROVE  LexMatches(LexByte(l, b), q) /\ LexByte(l, b).done = l.done
<1>1. PICK line \in Seq(Bytes) : line = r.line BY ReaderFields
<1>2. /\ DataLine(line) /\ Len(line) > 2 /\ l.sawData /\ (l.heldCR <=> line[Len(line)] = CR)
      /\ Join(r.data, Value(line)) = <<IF l.heldCR THEN Append(l.out, CR) ELSE l.out>>
  BY <1>1 DEF LexMatches
<1>3. r.data \in Payloads /\ l.out \in Seq(Bytes) /\ l.heldCR \in BOOLEAN /\ CR \in Bytes
  BY ReaderFields, LexerFields DEF Bytes
<1>4. PICK cur \in Seq(Bytes) : cur = IF l.heldCR THEN Append(l.out, CR) ELSE l.out BY <1>3, Appended
<1>5. Join(r.data, Value(line)) = <<cur>> BY <1>2, <1>4
<1>6. PICK n \in Lexers : n = ReleaseCR(l, b) BY ReleaseFields
<1>7. /\ n.state = "dataValue" /\ n.done = l.done /\ n.sawData = l.sawData /\ n.heldCR = FALSE
      /\ n.out = IF l.heldCR /\ b # LF THEN Append(l.out, CR) ELSE l.out
  BY <1>6, ReleaseFields
<1>8. PICK m \in Lexers : m = LexByte(l, b) BY LexByteType
<1>9. m = DataByte(n, b) BY <1>6, <1>8, LexByteIs
<1>10. CASE b # LF
  <2>1. n.out = cur BY <1>4, <1>7, <1>10
  <2>2. /\ m.state = "dataValue" /\ m.sawData = l.sawData /\ m.done = l.done
        /\ m.heldCR = (b = CR) /\ m.out = IF b = CR THEN cur ELSE Append(cur, b)
    BY <2>1, <1>7, <1>9, <1>10, DataFields
  <2>3. q.line = Append(line, b) /\ q.data = r.data BY <1>1, <1>10 DEF HeardAs
  <2>4. DataLine(q.line) /\ Len(q.line) > 2 /\ q.line[Len(q.line)] = b BY <2>3, <1>2, DataLineMore
  <2>5. Len(line) > 1 /\ Len(line) # 2
    <3>1. PICK k \in Nat : k = Len(line) OBVIOUS
    <3> QED BY <3>1, <1>2
  <2>6. Value(Append(line, b)) = Append(Value(line), b) BY <2>5, ValueMore
  <2>7. Value(line) \in Seq(Bytes) BY <2>5, ValueType
  <2>8. PICK v \in Seq(Bytes) : v = Value(line) BY <2>7
  <2>9. PICK out \in Seq(Bytes) : Join(r.data, v) = <<out>> /\ Join(r.data, Append(v, b)) = <<Append(out, b)>>
    BY <1>3, JoinMore
  <2>10. out = cur
    <3>1. <<out>> = <<cur>> BY <2>8, <2>9, <1>5
    <3> QED BY <3>1
  <2>11. Join(q.data, Value(q.line)) = <<Append(cur, b)>> BY <2>3, <2>6, <2>8, <2>9, <2>10
  <2>12. Join(q.data, Value(q.line)) = <<IF m.heldCR THEN Append(m.out, CR) ELSE m.out>> BY <2>2, <2>11
  <2>13. m.heldCR <=> q.line[Len(q.line)] = CR BY <2>2, <2>4
  <2>14. m.sawData BY <2>2, <1>2
  <2> QED BY <2>2, <2>4, <2>12, <2>13, <2>14, <1>8 DEF LexMatches
<1>11. CASE b = LF
  <2>1. n.out = l.out BY <1>7, <1>11
  <2>2. /\ m.state = "lineStart" /\ m.out = l.out /\ m.heldCR = FALSE /\ m.sawData = l.sawData
        /\ m.done = l.done
    BY <2>1, <1>7, <1>9, <1>11, DataFields
  <2>3. q.line = <<>> /\ q.data = WithLine(r.data, line) BY <1>1, <1>11 DEF HeardAs
  <2>4. q.data = <<l.out>>
    <3>1. CASE ~l.heldCR
      <4>1. q.data = Join(r.data, Value(line)) BY <3>1, <2>3, <1>2, <1>3, WithDataLine
      <4> QED BY <4>1, <3>1, <1>2
    <3>2. CASE l.heldCR
      <4>1. PICK k \in Nat : k = Len(line) /\ k > 2 BY <1>2
      <4>2. line[k] = CR BY <3>2, <1>2, <4>1
      <4>3. PICK front \in Seq(Bytes) : /\ line = Append(front, line[k]) /\ Len(front) = k - 1
                                        /\ \A i \in 1..(k - 1) : front[i] = line[i]
        <5>1. Len(line) > 1 BY <4>1
        <5> QED BY <4>1, <5>1, FrontOf
      <4>4. Len(front) > 1 /\ front[1] = line[1] /\ front[2] = line[2] BY <4>1, <4>3
      <4>5. DataLine(front) BY <4>4, <1>2 DEF DataLine
      <4>6. line = Append(front, CR) BY <4>2, <4>3
      <4>7. q.data = Join(r.data, Value(front)) BY <4>5, <4>6, <2>3, <1>3, WithDataLine
      <4>8. Value(Append(front, CR)) = Append(Value(front), CR) BY <4>4, <1>3, ValueMore, Letters
      <4>9. PICK v \in Seq(Bytes) : v = Value(front) BY <4>4, ValueType
      <4>10. PICK out \in Seq(Bytes) : Join(r.data, v) = <<out>> /\ Join(r.data, Append(v, CR)) = <<Append(out, CR)>>
        BY <1>3, JoinMore
      <4>11. <<Append(out, CR)>> = <<Append(l.out, CR)>> BY <4>6, <4>8, <4>9, <4>10, <3>2, <1>2
      <4>12. Append(out, CR) = Append(l.out, CR) BY <4>11
      <4>13. out = l.out BY <4>12, <1>3, SameAppend
      <4> QED BY <4>7, <4>9, <4>10, <4>13
    <3> QED BY <3>1, <3>2
  <2>5. m.sawData BY <2>2, <1>2
  <2>6. Salvaged(m) = <<m.out>> BY <2>5 DEF Salvaged
  <2> QED BY <2>2, <2>3, <2>4, <2>5, <2>6, <1>8 DEF LexMatches
<1> QED BY <1>8, <1>10, <1>11

\* While the line goes on, or ends without being blank, the lexer keeps up.
LEMMA LexFollows ==
  ASSUME NEW l \in Lexers, NEW r \in Readers, LexMatches(l, r), NEW b \in Bytes, NEW q, HeardAs(r, b, q)
  PROVE  LexMatches(LexByte(l, b), q) /\ LexByte(l, b).done = l.done
<1>1. l.state \in LexStates BY LexerFields
<1>2. \/ l.state = "lineStart" \/ l.state = "lineStartCR" \/ l.state = "fieldName" \/ l.state = "fieldCR"
      \/ l.state = "dataValueStart" \/ l.state = "dataValue" \/ l.state = "skipLine"
  BY <1>1 DEF LexStates
<1>3. CASE l.state = "lineStart" BY <1>3, FollowsLineStart
<1>4. CASE l.state = "lineStartCR" BY <1>4, FollowsLineStartCR
<1>5. CASE l.state = "fieldName" BY <1>5, FollowsFieldName
<1>6. CASE l.state = "fieldCR" BY <1>6, FollowsFieldCR
<1>7. CASE l.state = "dataValueStart" BY <1>7, FollowsDataValueStart
<1>8. CASE l.state = "dataValue" BY <1>8, FollowsDataValue
<1>9. CASE l.state = "skipLine" BY <1>9, FollowsSkipLine
<1> QED BY <1>2, <1>3, <1>4, <1>5, <1>6, <1>7, <1>8, <1>9

\* After a blank line it is done, with the payload of the event.
LEMMA LexEnds ==
  ASSUME NEW l \in Lexers, NEW r \in Readers, LexMatches(l, r), Blank(r.line)
  PROVE  LexByte(l, LF).done /\ Salvaged(LexByte(l, LF)) = r.data
<1>1. LF \in Bytes BY DEF Bytes
<1>2. r.line = <<>> \/ r.line = <<CR>> BY DEF Blank
<1>3. r.line \in Seq(Bytes) /\ l.field \in Seq(Bytes) BY ReaderFields, LexerFields
<1>4. Len(<<>>) = 0 /\ Len(<<CR>>) = 1 /\ <<CR>>[1] = CR OBVIOUS
<1>5. Len(r.line) = 0 \/ Len(r.line) = 1 BY <1>2, <1>4
<1>12. ~NeverData(<<>>) /\ ~DataLine(<<>>) BY <1>4 DEF NeverData, DataLine
<1>13. ~NeverData(<<CR>>) /\ ~DataLine(<<CR>>) BY <1>4 DEF NeverData, DataLine
<1>6. ~NeverData(r.line) /\ ~DataLine(r.line) BY <1>2, <1>12, <1>13
<1>7. r.line # <<Data, Colon>>
  <2> SUFFICES ASSUME r.line = <<Data, Colon>> PROVE FALSE
    OBVIOUS
  <2>1. Len(r.line) = 2 OBVIOUS
  <2> QED BY <2>1, <1>5
<1>8. ASSUME Name(l.field) PROVE r.line # l.field /\ r.line # Append(l.field, CR)
  <2>1. PICK n \in Nat : n = Len(l.field) /\ n >= 1 BY <1>3, <1>8 DEF Name
  <2>2. l.field[1] # CR BY <2>1, <1>8, <1>3 DEF Name
  <2>3. r.line # l.field BY <2>1, <2>2, <1>2, <1>4
  <2>4. CR \in Bytes BY DEF Bytes
  <2>5. Len(Append(l.field, CR)) = n + 1 BY <2>1, <2>4, <1>3, Appended
  <2> QED BY <2>1, <2>3, <2>5, <1>5
<1>9. l.state = "lineStart" \/ l.state = "lineStartCR" BY <1>6, <1>7, <1>8 DEF LexMatches
<1>10. Salvaged(l) = r.data BY <1>9 DEF LexMatches
<1>11. LexByte(l, LF) = [l EXCEPT !.done = TRUE] BY <1>1, <1>9, LexByteIs
<1> QED BY <1>10, <1>11, DoneFields

LEMMA HearsAs ==
  ASSUME NEW r \in Readers, NEW b \in Bytes, ~ (b = LF /\ Blank(r.line))
  PROVE  HeardAs(r, b, Hears(r, b))
<1>1. ~Ends(r, b) BY DEF Ends
<1>2. CASE b # LF BY <1>2, HearsFields DEF HeardAs
<1>3. CASE b = LF BY <1>1, <1>3, HearsFields DEF HeardAs
<1> QED BY <1>2, <1>3

\* The turns of oversizedLexer.feed.
LexTurns(l, p, f) ==
  /\ f[0] = l /\ Lex(l, p) = f[Len(p)]
  /\ \A k \in 0..Len(p) : f[k] \in Lexers
  /\ \A k \in 1..Len(p) : f[k] = LexNext(f[k - 1], p[k])

LEMMA LexHasTurns ==
  ASSUME NEW l \in Lexers, NEW p \in Seq(Bytes)
  PROVE  \E f : LexTurns(l, p, f)
<1>1. PICK n \in Nat : n = Len(p) OBVIOUS
<1>2. \A m \in Lexers : \A k \in 1..n : LexNext(m, p[k]) \in Lexers
  <2> TAKE m \in Lexers
  <2> TAKE k \in 1..n
  <2>1. p[k] \in Bytes BY <1>1
  <2> QED BY <2>1, LexByteType DEF LexNext
<1> DEFINE step == [k \in 1..n |-> [m \in Lexers |-> LexNext(m, p[k])]]
<1>3. step \in [1..n -> [Lexers -> Lexers]] BY <1>2
<1>4. PICK f : Loop(f, Lexers, l, step, n)
  <2> HIDE DEF step
  <2> QED BY <1>3, LoopEnds
<1>5. f \in [0..n -> Lexers] /\ f[0] = l BY <1>4 DEF Loop
<1>6. \A k \in 1..n : f[k] = LexNext(f[k - 1], p[k])
  <2> TAKE k \in 1..n
  <2>1. f[k - 1] \in Lexers
    <3>1. k - 1 \in 0..n BY <1>1
    <3> QED BY <3>1, <1>5
  <2>2. step[k] = [m \in Lexers |-> LexNext(m, p[k])] OBVIOUS
  <2>3. f[k] = step[k][f[k - 1]] BY <1>4 DEF Loop
  <2> QED BY <2>1, <2>2, <2>3
<1> HIDE DEF step
<1> DEFINE P(g) == g = [k \in 0..Len(p) |-> IF k = 0 THEN l ELSE LexNext(g[k - 1], p[k])]
<1>7. P(f)
  <2>1. f = [k \in 0..n |-> f[k]] BY <1>5
  <2>2. \A k \in 0..n : f[k] = IF k = 0 THEN l ELSE LexNext(f[k - 1], p[k])
    <3> TAKE k \in 0..n
    <3>1. k # 0 => k \in 1..n BY <1>1
    <3> QED BY <3>1, <1>5, <1>6
  <2>3. [k \in 0..n |-> f[k]] = [k \in 0..n |-> IF k = 0 THEN l ELSE LexNext(f[k - 1], p[k])] BY <2>2
  <2> QED BY <2>1, <2>3, <1>1
<1>8. P(CHOOSE g : P(g)) BY <1>7
<1>9. PICK g : g = (CHOOSE h : P(h)) OBVIOUS
<1>10. g = [k \in 0..n |-> IF k = 0 THEN l ELSE LexNext(g[k - 1], p[k])] BY <1>8, <1>9, <1>1
<1>11. Lex(l, p) = g[n] BY <1>1, <1>9 DEF Lex
<1>12. g[0] = l /\ \A k \in 1..n : g[k] = LexNext(g[k - 1], p[k])
  <2>1. g[0] = l BY <1>10
  <2>2. \A k \in 1..n : g[k] = LexNext(g[k - 1], p[k])
    <3> TAKE k \in 1..n
    <3>1. k \in 0..n /\ k # 0 BY <1>1
    <3> QED BY <3>1, <1>10
  <2> QED BY <2>1, <2>2
<1>13. \A k \in 0..n : g[k] \in Lexers
  <2>1. \A k \in 1..n : g[k - 1] \in Lexers => g[k] \in Lexers BY <1>12, <1>2
  <2> HIDE DEF P
  <2> QED BY <2>1, <1>12, LoopStays
<1> QED BY <1>1, <1>11, <1>12, <1>13 DEF LexTurns

LEMMA LexType ==
  ASSUME NEW l \in Lexers, NEW p \in Seq(Bytes)
  PROVE  Lex(l, p) \in Lexers
<1>1. PICK f : LexTurns(l, p, f) BY LexHasTurns
<1>2. Len(p) \in 0..Len(p) OBVIOUS
<1> QED BY <1>1, <1>2 DEF LexTurns

LEMMA LexOneByte ==
  ASSUME NEW l \in Lexers, ~l.done, NEW b \in Bytes
  PROVE  Lex(l, <<b>>) = LexByte(l, b)
<1>1. <<b>> \in Seq(Bytes) /\ Len(<<b>>) = 1 /\ <<b>>[1] = b OBVIOUS
<1>2. PICK f : LexTurns(l, <<b>>, f) BY <1>1, LexHasTurns
<1>3. f[0] = l /\ Lex(l, <<b>>) = f[1] BY <1>1, <1>2 DEF LexTurns
<1>4. 1 \in 1..Len(<<b>>) /\ 1 - 1 = 0 BY <1>1
<1>5. f[1] = LexNext(f[0], b) BY <1>1, <1>2, <1>4 DEF LexTurns
<1> QED BY <1>3, <1>5 DEF LexNext

\* Lexed from its first byte on an event stays open, unless its first line is
\* blank.
LEMMA LexWindow ==
  ASSUME NEW s \in Seq(Bytes), NEW b \in Nat, NEW p, Window(s, b, p), Start(s, b) = b,
         NoEnd(s, b, b + Len(p)), ~At(s, b + Len(p)).blank
  PROVE  LexMatches(Lex(oversizedLexer, p), At(s, b + Len(p))) /\ ~Lex(oversizedLexer, p).done
<1>1. p \in Seq(Bytes) BY DEF Window
<1>2. PICK n \in Nat : n = Len(p) BY <1>1
<1>3. PICK k \in Nat : k = Len(s) OBVIOUS
<1>4. b + n <= k /\ \A i \in 1..n : p[i] = s[b + i] BY <1>2, <1>3 DEF Window
<1>5. PICK f : LexTurns(oversizedLexer, p, f) BY <1>1, FirstLexer, LexHasTurns
<1>6. /\ f[0] = oversizedLexer /\ Lex(oversizedLexer, p) = f[n]
      /\ \A i \in 0..n : f[i] \in Lexers
      /\ \A i \in 1..n : f[i] = LexNext(f[i - 1], p[i])
  BY <1>2, <1>5 DEF LexTurns
<1> DEFINE T == {i \in Nat : i <= n => LexMatches(f[i], At(s, b + i)) /\ f[i].done = FALSE}
<1>7. 0 \in T
  <2>1. b \in 0..Len(s) /\ b + 0 = b BY <1>3, <1>4
  <2>2. At(s, b).line = <<>> /\ At(s, b).data = <<>> BY <2>1, FreshFields
  <2>3. Silence.line = <<>> /\ Silence.data = <<>> BY DEF Silence
  <2>4. LexMatches(oversizedLexer, At(s, b)) BY <2>2, <2>3, FirstLexer DEF LexMatches
  <2>5. oversizedLexer.done = FALSE BY DEF oversizedLexer
  <2> QED BY <2>1, <2>4, <2>5, <1>6
<1>8. ASSUME NEW i \in Nat, i \in T PROVE i + 1 \in T
  <2>16. i + 1 \in Nat /\ (i + 1 <= n => i <= n) BY <1>2
  <2> SUFFICES ASSUME i + 1 <= n PROVE LexMatches(f[i + 1], At(s, b + (i + 1))) /\ f[i + 1].done = FALSE
    BY <2>16, Zenon
  <2>1. LexMatches(f[i], At(s, b + i)) /\ f[i].done = FALSE BY <1>8, <2>16, Zenon
  <2> HIDE DEF T
  <2>2. i \in 0..n /\ i + 1 \in 1..n /\ i + 1 - 1 = i OBVIOUS
  <2>3. PICK l \in Lexers : l = f[i] BY <2>2, <1>6
  <2>4. PICK m \in Nat : m = b + (i + 1) OBVIOUS
  <2>5. m \in 1..Len(s) /\ m - 1 = b + i /\ m - 1 \in 0..Len(s) /\ m \in (b + 1)..(b + n) /\ m <= b + n
    BY <2>4, <1>3, <1>4
  <2>6. PICK r \in Readers : r = At(s, m - 1) BY <2>5, Hearing
  <2>7. PICK c \in Bytes : c = s[m] BY <2>5
  <2>8. At(s, m) = Hears(r, c) BY <2>5, <2>6, <2>7, Hearing
  <2>9. p[i + 1] = c BY <2>2, <2>4, <2>7, <1>4
  <2>10. f[i + 1] = LexByte(l, c) BY <2>1, <2>2, <2>3, <2>9, <1>6 DEF LexNext
  <2>11. ~EndsAt(s, m) BY <2>5, <1>2 DEF NoEnd
  <2>12. ~ (c = LF /\ Blank(r.line))
    <3> SUFFICES ASSUME c = LF, Blank(r.line) PROVE FALSE
      OBVIOUS
    <3>1. ~Ends(r, c) BY <2>6, <2>7, <2>11 DEF EndsAt
    <3>2. r.size = 0 BY <3>1, ReaderFields DEF Ends
    <3>3. Hears(r, c).blank = Blank(r.line) BY <3>1, <3>2, HearsFields
    <3>4. At(s, m).blank BY <3>3, <2>8
    <3>5. b + n \in Nat /\ b + n <= Len(s) BY <1>3, <1>4
    <3>6. NoEnd(s, m, b + n)
      <4>1. \A x \in (m + 1)..(b + n) : x \in (b + 1)..(b + n) BY <2>5
      <4> QED BY <4>1, <1>2 DEF NoEnd
    <3>7. At(s, b + n).blank BY <3>4, <3>5, <3>6, <2>5, Steady
    <3> QED BY <3>7, <1>2
  <2>13. HeardAs(r, c, At(s, m)) BY <2>8, <2>12, HearsAs
  <2>14. LexMatches(l, r) BY <2>1, <2>3, <2>5, <2>6
  <2>15. LexMatches(LexByte(l, c), At(s, m)) /\ LexByte(l, c).done = l.done BY <2>13, <2>14, LexFollows
  <2> QED BY <2>1, <2>3, <2>4, <2>10, <2>15
<1>9. n \in T
  <2> HIDE DEF T
  <2> QED BY <1>7, <1>8, SetInduction
<1> QED BY <1>2, <1>6, <1>9

\* The payload of an event that is salvaged in one piece, up to the line feed
\* of its last line.
LEMMA SalvageIs ==
  ASSUME NEW s \in Seq(Bytes), NEW b \in Nat, NEW p, Window(s, b, p), Start(s, b) = b,
         Len(p) > 0, p[Len(p)] = LF, NoEnd(s, b, b + Len(p)), ~At(s, b + Len(p)).blank, chunked
  PROVE  Salvage(p) = At(s, b + Len(p)).data
<1>1. p \in Seq(Bytes) BY DEF Window
<1>2. PICK n \in Nat : n = Len(p) BY <1>1
<1>3. PICK k \in Nat : k = Len(s) OBVIOUS
<1>4. b + n <= k /\ \A i \in 1..n : p[i] = s[b + i] BY <1>2, <1>3 DEF Window
<1>5. PICK l \in Lexers : l = Lex(oversizedLexer, p) BY <1>1, FirstLexer, LexType
<1>6. PICK m \in Nat : m = b + n OBVIOUS
<1>7. m \in 1..Len(s) /\ m \in 0..Len(s) BY <1>2, <1>3, <1>4, <1>6
<1>8. PICK r \in Readers : r = At(s, m) BY <1>7, Hearing
<1>9. LexMatches(l, r) /\ ~l.done BY <1>2, <1>5, <1>6, <1>8, LexWindow
<1>10. r.line = <<>>
  <2>1. s[m] = LF BY <1>2, <1>4, <1>6
  <2>2. PICK q \in Readers : q = At(s, m - 1) BY <1>7, Hearing
  <2>3. r = Hears(q, LF) BY <2>1, <2>2, <1>7, <1>8, Hearing
  <2>4. LF \in Bytes BY DEF Bytes
  <2> QED BY <2>3, <2>4, HearsFields
<1>11. Blank(r.line) BY <1>10 DEF Blank
<1>12. LF \in Bytes BY DEF Bytes
<1>13. Lex(l, <<LF>>) = LexByte(l, LF) BY <1>9, <1>12, LexOneByte
<1>14. Salvaged(LexByte(l, LF)) = r.data BY <1>9, <1>11, LexEnds
<1> QED BY <1>2, <1>5, <1>6, <1>8, <1>13, <1>14 DEF Salvage

LEMMA SalvageType == ASSUME NEW p \in Seq(Bytes) PROVE Salvage(p) \in Payloads
<1>1. LF \in Bytes BY DEF Bytes
<1>2. <<LF>> \in Seq(Bytes) BY <1>1
<1>3. PICK l \in Lexers : l = Lex(Lex(oversizedLexer, p), <<LF>>) BY <1>2, FirstLexer, LexType
<1>4. l.out \in Seq(Bytes) BY LexerFields
<1> QED BY <1>3, <1>4 DEF Salvage, Salvaged, Payloads

LEMMA EndFound ==
  ASSUME NEW p \in Seq(Bytes), EventEnds(p) # {}
  PROVE  \E i \in 1..Len(p) : \E j \in 1..Len(p) :
           /\ i = First(EventEnds(p)) /\ j = BlankAfter(p, i) /\ i < j /\ p[i] = LF
           /\ nextEvent(p) = [event |-> SubSeq(p, 1, i), rest |-> SubSeq(p, j + 1, Len(p))]
<1>1. PICK n \in Nat : n = Len(p) OBVIOUS
<1>2. EventEnds(p) = {i \in 1..n : BlankAfter(p, i) > 0} BY <1>1 DEF EventEnds
<1>3. PICK i : i = First(EventEnds(p)) OBVIOUS
<1>4. i \in 1..n /\ BlankAfter(p, i) > 0
  <2>1. EventEnds(p) \in SUBSET Nat BY <1>2
  <2>2. i \in EventEnds(p) BY <2>1, <1>3, LeastOf
  <2> QED BY <2>2, <1>2
<1>5. PICK j \in Nat : j = BlankAfter(p, i) /\ j > 0 BY <1>1, <1>4 DEF BlankAfter
<1>6. j <= n /\ p[i] = LF /\ (j = i + 1 \/ j = i + 2) BY <1>1, <1>4, <1>5, BlankAfterIs
<1>7. j \in 1..n /\ i < j BY <1>4, <1>5, <1>6
<1>8. nextEvent(p) = [event |-> SubSeq(p, 1, i), rest |-> SubSeq(p, j + 1, Len(p))]
  BY <1>3, <1>5 DEF nextEvent
<1> QED BY <1>1, <1>3, <1>4, <1>5, <1>6, <1>7, <1>8

LEMMA Pieces ==
  ASSUME NEW s \in Seq(Bytes), NEW b \in Nat, NEW p, Window(s, b, p), NEW i \in 0..Len(p)
  PROVE  /\ Window(s, b, SubSeq(p, 1, i)) /\ Len(SubSeq(p, 1, i)) = i
         /\ i > 0 => SubSeq(p, 1, i)[i] = p[i]
         /\ Window(s, b + i, SubSeq(p, i + 1, Len(p))) /\ Len(SubSeq(p, i + 1, Len(p))) = Len(p) - i
<1>1. p \in Seq(Bytes) BY DEF Window
<1>2. PICK n \in Nat : n = Len(p) BY <1>1
<1>3. PICK k \in Nat : k = Len(s) OBVIOUS
<1>4. b + n <= k /\ \A x \in 1..n : p[x] = s[b + x] BY <1>2, <1>3 DEF Window
<1>5. i \in 0..n BY <1>2
<1>6. PICK u : u = SubSeq(p, 1, i) OBVIOUS
<1>7. u \in Seq(Bytes) /\ Len(u) = i /\ \A x \in 1..i : u[x] = p[x]
  <2>1. \A x \in 1..i : x \in 1..Len(p) BY <1>2, <1>5
  <2> QED BY <2>1, <1>1, <1>6
<1>8. Window(s, b, u)
  <2>1. b + i <= k BY <1>4, <1>5
  <2>2. \A x \in 1..i : u[x] = s[b + x]
    <3> TAKE x \in 1..i
    <3>1. x \in 1..n BY <1>5
    <3> QED BY <3>1, <1>4, <1>7
  <2> QED BY <2>1, <2>2, <1>3, <1>7 DEF Window
<1>9. PICK v : v = SubSeq(p, i + 1, n) OBVIOUS
<1>10. v \in Seq(Bytes) /\ Len(v) = n - i /\ \A x \in 1..(n - i) : v[x] = p[i + x]
  <2>1. \A x \in (i + 1)..n : x \in 1..Len(p) BY <1>2, <1>5
  <2>2. v \in Seq(Bytes) BY <2>1, <1>1, <1>2, <1>5, <1>9
  <2>3. Len(v) = n - i /\ \A x \in 1..(n - i) : v[x] = p[i + x] BY <1>5, <1>9
  <2> QED BY <2>2, <2>3
<1>11. Window(s, b + i, v)
  <2>1. b + i \in Nat /\ b + i + (n - i) <= k BY <1>4, <1>5
  <2>2. \A x \in 1..(n - i) : v[x] = s[b + i + x]
    <3> TAKE x \in 1..(n - i)
    <3>1. i + x \in 1..n /\ b + (i + x) = b + i + x BY <1>5
    <3> QED BY <3>1, <1>4, <1>10
  <2> QED BY <2>1, <2>2, <1>3, <1>10 DEF Window
<1> QED BY <1>2, <1>5, <1>6, <1>7, <1>8, <1>9, <1>10, <1>11

\* The event that nextEvent cuts off, as the reader has it.
LEMMA EndedEvent ==
  ASSUME NEW s \in Seq(Bytes), NEW b \in Nat, NEW p, Window(s, b, p), NEW i \in 1..Len(p), NEW j \in 1..Len(p),
         i < j, p[i] = LF, \A x \in (i + 1)..(j - 1) : p[x] # LF, NoEnd(s, b, b + j - 1), EndsAt(s, b + j)
  PROVE  \E e \in Events :
           /\ e = EventOf(At(s, b + j - 1)) /\ At(s, b + j).events = Append(At(s, b).events, e)
           /\ e.data = At(s, b + i).data /\ e.blank = At(s, b + i).blank
           /\ Start(s, b + j) = b + j /\ Start(s, b + j - 1) = Start(s, b)
           /\ Start(s, b) = b => e.size = i
           /\ NoEnd(s, b, b + i)
<1>1. p \in Seq(Bytes) BY DEF Window
<1>2. PICK n \in Nat : n = Len(p) BY <1>1
<1>3. PICK k \in Nat : k = Len(s) OBVIOUS
<1>4. b + n <= k /\ \A x \in 1..n : p[x] = s[b + x] BY <1>2, <1>3 DEF Window
<1>5. i \in 1..n /\ j \in 1..n /\ i < j BY <1>2
<1>6. PICK a \in Nat : a = b + i BY <1>5
<1>7. PICK c \in Nat : c = b + j - 1 BY <1>5
<1>8. PICK m \in Nat : m = b + j BY <1>5
<1>22. b + n <= k BY <1>4
<1>9. /\ b <= a /\ a <= c /\ c <= k /\ b <= c /\ m \in 1..k /\ m - 1 = c
      /\ a \in 1..k /\ a \in 0..k /\ b \in 0..k /\ c \in 0..k
  BY <1>22, <1>5, <1>6, <1>7, <1>8
<1>10. NoEnd(s, b, c) /\ EndsAt(s, m) BY <1>7, <1>8
<1>11. NoEnd(s, b, a)
  <2>1. \A x \in (b + 1)..a : x \in (b + 1)..c BY <1>9
  <2> QED BY <2>1, <1>10 DEF NoEnd
<1>12. \A x \in (a + 1)..c : s[x] # LF
  <2> TAKE x \in (a + 1)..c
  <2>1. x - b \in (i + 1)..(j - 1) /\ x - b \in 1..n /\ b + (x - b) = x BY <1>5, <1>6, <1>7
  <2> QED BY <2>1, <1>4
<1>13. At(s, c).data = At(s, a).data /\ At(s, c).size = At(s, a).size /\ At(s, c).blank = At(s, a).blank
  BY <1>9, <1>12, <1>3, Quiet
<1>14. Start(s, c) = Start(s, b) /\ At(s, c).events = At(s, b).events BY <1>9, <1>10, <1>3, Steady
<1>15. Start(s, m) = m /\ At(s, m).events = Append(At(s, c).events, EventOf(At(s, c)))
  BY <1>9, <1>10, <1>3, StartStep
<1>16. PICK r \in Readers : r = At(s, c) BY <1>9, <1>3, Hearing
<1>17. PICK e \in Events : e = EventOf(r)
  <2>1. EventOf(r) \in Events BY ReaderFields DEF EventOf, Events
  <2> QED BY <2>1
<1>18. e.data = r.data /\ e.blank = r.blank /\ e.size = r.size BY <1>17 DEF EventOf
<1>19. ASSUME Start(s, b) = b PROVE At(s, a).size = i
  <2>1. Start(s, a) = b BY <1>9, <1>11, <1>19, <1>3, Steady
  <2>2. At(s, a).line = <<>>
    <3>1. s[a] = LF BY <1>4, <1>5, <1>6
    <3>2. PICK q \in Readers : q = At(s, a - 1) BY <1>9, <1>3, Hearing
    <3>3. At(s, a) = Hears(q, LF) BY <3>1, <3>2, <1>9, <1>3, Hearing
    <3>4. LF \in Bytes BY DEF Bytes
    <3>5. Hears(q, LF).line = <<>>
      <4>1. CASE Ends(q, LF) BY <4>1, <3>4, HearsFields
      <4>2. CASE ~Ends(q, LF) BY <4>2, <3>4, HearsFields
      <4> QED BY <4>1, <4>2
    <3> QED BY <3>3, <3>5
  <2>3. Len(At(s, a).line) = 0 BY <2>2
  <2>4. At(s, a).size + Len(At(s, a).line) = a - Start(s, a) BY <1>9, <1>3, StartBelow
  <2>5. At(s, a).size \in Nat BY <1>9, <1>3, Hearing, ReaderFields
  <2> QED BY <2>1, <2>3, <2>4, <2>5, <1>6
<1>20. Start(s, b) = b => e.size = i BY <1>13, <1>16, <1>18, <1>19
<1>21. /\ e = EventOf(At(s, c)) /\ At(s, m).events = Append(At(s, b).events, e)
       /\ e.data = At(s, a).data /\ e.blank = At(s, a).blank
       /\ Start(s, m) = m /\ Start(s, c) = Start(s, b)
  BY <1>13, <1>14, <1>15, <1>16, <1>17, <1>18
<1> QED BY <1>6, <1>7, <1>8, <1>11, <1>20, <1>21

KeptCount(p) ==
  LET n == Len(p)
  IN IF n >= 2 /\ p[n - 1] = LF /\ p[n] = CR THEN 2 ELSE IF n >= 1 /\ p[n] = LF THEN 1 ELSE 0

LEMMA KeptIs ==
  ASSUME NEW s \in Seq(Bytes), NEW b \in Nat, NEW p, Window(s, b, p), Len(p) > 0
  PROVE  \E k \in 0..2 : /\ k = KeptCount(p) /\ k <= Len(p) /\ Len(KeptDelimiter(p)) = k
                         /\ Window(s, b + Len(p) - k, KeptDelimiter(p))
<1>1. p \in Seq(Bytes) BY DEF Window
<1>2. PICK n \in Nat : n = Len(p) /\ n > 0 BY <1>1
<1>3. PICK c \in Nat : c = Len(s) OBVIOUS
<1>4. b + n <= c /\ \A x \in 1..n : p[x] = s[b + x] BY <1>2, <1>3 DEF Window
<1>5. PICK k \in 0..2 : k = KeptCount(p) /\ k <= n BY <1>2 DEF KeptCount
<1>10. k \in 0..2 /\ k <= n BY <1>5
<1>6. PICK o \in Nat : o = b + n - k
  <2>1. b + n - k \in Nat BY <1>10
  <2> QED BY <2>1
<1>7. LF \in Bytes /\ CR \in Bytes BY DEF Bytes
<1>8. PICK q : q = KeptDelimiter(p) OBVIOUS
<1>9. q \in Seq(Bytes) /\ Len(q) = k /\ \A x \in 1..k : q[x] = s[o + x]
  <2>1. CASE n >= 2 /\ p[n - 1] = LF /\ p[n] = CR
    <3>1. k = 2 BY <2>1, <1>2, <1>5 DEF KeptCount
    <3>2. q = <<LF, CR>> BY <2>1, <1>2, <1>8 DEF KeptDelimiter
    <3>3. q \in Seq(Bytes) /\ Len(q) = 2 /\ q[1] = LF /\ q[2] = CR BY <3>2, <1>7
    <3>4. o + 1 = b + (n - 1) /\ o + 2 = b + n /\ n - 1 \in 1..n /\ n \in 1..n BY <2>1, <3>1, <1>6
    <3>5. s[o + 1] = LF /\ s[o + 2] = CR BY <2>1, <3>4, <1>4
    <3>6. \A x \in 1..2 : x = 1 \/ x = 2 OBVIOUS
    <3> QED BY <3>1, <3>3, <3>5, <3>6
  <2>2. CASE ~ (n >= 2 /\ p[n - 1] = LF /\ p[n] = CR) /\ p[n] = LF
    <3>1. k = 1 BY <2>2, <1>2, <1>5 DEF KeptCount
    <3>2. q = <<LF>> BY <2>2, <1>2, <1>8 DEF KeptDelimiter
    <3>3. q \in Seq(Bytes) /\ Len(q) = 1 /\ q[1] = LF BY <3>2, <1>7
    <3>4. o + 1 = b + n /\ n \in 1..n BY <3>1, <1>2, <1>6
    <3>5. s[o + 1] = LF BY <2>2, <3>4, <1>4
    <3>6. \A x \in 1..1 : x = 1 OBVIOUS
    <3> QED BY <3>1, <3>3, <3>5, <3>6
  <2>3. CASE ~ (n >= 2 /\ p[n - 1] = LF /\ p[n] = CR) /\ p[n] # LF
    <3>1. k = 0 BY <2>3, <1>2, <1>5 DEF KeptCount
    <3>2. q = <<>> BY <2>3, <1>2, <1>8 DEF KeptDelimiter
    <3> QED BY <3>1, <3>2
  <2> QED BY <2>1, <2>2, <2>3
<1>11. Window(s, o, q)
  <2>1. o + k <= c BY <1>4, <1>10, <1>6
  <2> QED BY <2>1, <1>3, <1>9 DEF Window
<1> QED BY <1>2, <1>5, <1>6, <1>8, <1>9, <1>11

\* No event ends within the blank line that the kept bytes may begin.
LEMMA KeptClear ==
  ASSUME NEW s \in Seq(Bytes), NEW b \in Nat, NEW p, Window(s, b, p), Clear(s, b), Len(p) > 0,
         NoEnd(s, b, b + Len(p)), NEW k \in 0..2, k = KeptCount(p), k <= Len(p)
  PROVE  Clear(s, b + Len(p) - k)
<1>1. p \in Seq(Bytes) BY DEF Window
<1>2. PICK n \in Nat : n = Len(p) /\ n > 0 BY <1>1
<1>3. PICK c \in Nat : c = Len(s) OBVIOUS
<1>4. b + n <= c /\ \A x \in 1..n : p[x] = s[b + x] BY <1>2, <1>3 DEF Window
<1>5. k \in 0..2 /\ k <= n /\ b + n <= c BY <1>2, <1>4
<1>6. PICK o \in Nat : o = b + n - k
  <2>1. b + n - k \in Nat BY <1>5
  <2> QED BY <2>1
<1>7. k = IF n >= 2 /\ p[n - 1] = LF /\ p[n] = CR THEN 2 ELSE IF p[n] = LF THEN 1 ELSE 0
  BY <1>2 DEF KeptCount
<1>11. b <= o /\ o <= b + n /\ o <= c BY <1>5, <1>6
<1>12. Start(s, o) = Start(s, b)
  <2>1. NoEnd(s, b, o)
    <3>1. \A x \in (b + 1)..o : x \in (b + 1)..(b + n) BY <1>11
    <3> QED BY <3>1, <1>2 DEF NoEnd
  <2> QED BY <2>1, <1>3, <1>11, Steady
<1>13. ASSUME NEW m \in 1..c, m = o + 1, m \in (b + 1)..(b + n), s[m] = LF PROVE Clear(s, o)
  <2>1. ~EndsAt(s, m) BY <1>2, <1>13 DEF NoEnd
  <2>2. m - 1 = o /\ m - 2 = o - 1 BY <1>13
  <2>3. m \in 1..Len(s) BY <1>3
  <2>4. ~ (o > Start(s, o) /\ s[o] = LF) /\ ~ (o - 1 > Start(s, o) /\ s[o - 1] = LF /\ s[o] = CR)
    BY <2>1, <2>2, <2>3, <1>13, EndsWhere
  <2> QED BY <2>4 DEF Clear
<1>14. ASSUME k > 0 PROVE Clear(s, o)
  <2>1. PICK m \in Nat : m = o + 1 OBVIOUS
  <2>2. m \in 1..c /\ m \in (b + 1)..(b + n) BY <2>1, <1>5, <1>6, <1>14, SMTT(30)
  <2>3. s[m] = LF
    <3>1. PICK i \in 1..n : i = n - k + 1 BY <1>5, <1>14
    <3>2. b + i = m BY <3>1, <2>1, <1>5, <1>6, SMTT(30)
    <3>3. p[i] = LF
      <4>1. CASE n >= 2 /\ p[n - 1] = LF /\ p[n] = CR
        <5>1. k = 2 BY <4>1, <1>7
        <5>2. i = n - 1 BY <5>1, <3>1
        <5> QED BY <4>1, <5>2
      <4>2. CASE ~ (n >= 2 /\ p[n - 1] = LF /\ p[n] = CR)
        <5>1. k = 1 /\ p[n] = LF BY <4>2, <1>7, <1>14
        <5>2. i = n BY <5>1, <3>1
        <5> QED BY <5>1, <5>2
      <4> QED BY <4>1, <4>2
    <3> QED BY <3>2, <3>3, <1>4
  <2> QED BY <2>1, <2>2, <2>3, <1>13
<1>15. ASSUME k = 0 PROVE Clear(s, o)
  <2>1. p[n] # LF /\ ~ (n >= 2 /\ p[n - 1] = LF /\ p[n] = CR) BY <1>7, <1>15
  <2>2. o = b + n /\ n \in 1..n BY <1>2, <1>6, <1>15
  <2>3. s[o] = p[n] BY <2>2, <1>4
  <2>4. s[o] # LF BY <2>1, <2>3
  <2>5. ASSUME o - 1 > Start(s, o), s[o - 1] = LF, s[o] = CR PROVE FALSE
    <3>1. CASE n >= 2
      <4>1. n - 1 \in 1..n /\ b + (n - 1) = o - 1 BY <3>1, <2>2
      <4>2. p[n - 1] = LF BY <4>1, <2>5, <1>4
      <4> QED BY <3>1, <4>2, <2>1, <2>3, <2>5
    <3>2. CASE n = 1
      <4>1. o - 1 = b BY <3>2, <2>2
      <4>2. b > Start(s, b) /\ s[b] = LF BY <4>1, <2>5, <1>12
      <4> QED BY <4>2 DEF Clear
    <3> QED BY <3>1, <3>2, <1>2
  <2> QED BY <2>4, <2>5 DEF Clear
<1>16. Clear(s, o)
  <2>1. k > 0 \/ k = 0 BY <1>5
  <2> QED BY <2>1, <1>14, <1>15
<1> QED BY <1>2, <1>6, <1>16

-----------------------------------------------------------------------------
(* The invariant.                                                          *)

Types ==
  /\ stream \in Seq(Bytes) /\ taken \in 0..Len(stream) /\ buf \in Seq(Bytes)
  /\ {chunked, discarded, dropping, stopped, chunking, draining} \subseteq BOOLEAN
  /\ lexer \in Lexers /\ handed \in Seq(Payloads)

\* How many bytes have left the buffer.
Origin == taken - Len(buf)

\* The buffer is the last bytes taken, and bounded.
Kept ==
  /\ Origin \in Nat /\ Window(stream, Origin, buf)
  /\ chunking \/ stopped => buf = <<>> /\ ~draining
  /\ ~ (chunking /\ stopped)
  /\ Len(buf) <= MaxEvent + DelimiterSlack
  /\ ~draining => Len(buf) <= MaxEvent \/ Len(buf) <= 2

\* What the parser got is what it may get.
Fits(whole, payload, e, loss) ==
  IF whole THEN payload = e.data ELSE payload \in Due(e) /\ (payload # e.data => loss)
Verdicts(es, hs, over, whole, loss) ==
  /\ Len(hs) <= Len(es)
  /\ \A i \in 1..Len(hs) : (Stops(hs[i]) <=> over /\ i = Len(hs)) /\ Fits(whole, hs[i], es[i], loss)
Judged == Verdicts(Reading.events, handed, stopped, chunked, discarded)

\* While the open event is lexed.
InLexer ==
  /\ chunked /\ ~draining /\ ~dropping
  /\ Len(handed) = Len(Reading.events)
  /\ ~lexer.done /\ LexMatches(lexer, Reading)
  /\ taken - Start(stream, taken) > MaxEvent

\* While it is in the buffer, or the bytes of it that are not yet dropped are.
Dropped(s, o, c) == \E d \in o..c : d - Start(s, o) > MaxEvent /\ NoEnd(s, o, d)
Buffered ==
  /\ Len(handed) = Len(At(stream, Origin).events)
  /\ ~draining => NoEnd(stream, Origin, taken)
  /\ IF dropping THEN ~chunked /\ discarded /\ Clear(stream, Origin) /\ Dropped(stream, Origin, taken)
     ELSE Start(stream, Origin) = Origin

Sound ==
  /\ Judged
  /\ ~stopped => IF chunking THEN InLexer ELSE Buffered

FramerInv == Types /\ Kept /\ (Misread \/ Sound)

-----------------------------------------------------------------------------
(* The steps.                                                              *)

LEMMA ReadingAt == Reading = At(stream, taken) /\ (Reading)' = At(stream', taken')
BY DEF Reading, At

LEMMA MisreadRemains ==
  ASSUME Types, UNCHANGED <<stream, chunked>>, taken' \in taken..Len(stream), Misread
  PROVE  Misread'
<1>1. MisreadIn(At(stream, taken)) /\ chunked BY ReadingAt DEF Misread
<1>2. PICK k \in Nat : k = Len(stream) BY DEF Types
<1>3. taken \in Nat /\ taken' \in Nat /\ taken <= taken' /\ taken' <= k BY <1>2 DEF Types
<1>4. MisreadIn(At(stream, taken')) BY <1>1, <1>2, <1>3, MisreadStays DEF Types
<1>5. (MisreadIn(Reading))' <=> MisreadIn(At(stream, taken')) BY ReadingAt DEF MisreadIn, Over, MayCountAsOver
<1> QED BY <1>1, <1>4, <1>5 DEF Misread

LEMMA VerdictsLater ==
  ASSUME NEW es \in Seq(Events), NEW fs \in Seq(Events), Len(es) <= Len(fs), \A i \in 1..Len(es) : fs[i] = es[i],
         NEW hs \in Seq(Payloads), NEW over, NEW whole, NEW x, NEW y, x => y, Verdicts(es, hs, over, whole, x)
  PROVE  Verdicts(fs, hs, over, whole, y)
<1>1. PICK n \in Nat : n = Len(hs) OBVIOUS
<1>2. n <= Len(es) /\ n <= Len(fs) BY <1>1 DEF Verdicts
<1>3. ASSUME NEW i \in 1..n PROVE (Stops(hs[i]) <=> over /\ i = n) /\ Fits(whole, hs[i], fs[i], y)
  <2>1. (Stops(hs[i]) <=> over /\ i = n) /\ Fits(whole, hs[i], es[i], x) BY <1>1 DEF Verdicts
  <2>2. i \in 1..Len(es) BY <1>2
  <2>3. fs[i] = es[i] BY <2>2
  <2> QED BY <2>1, <2>3 DEF Fits
<1> QED BY <1>1, <1>2, <1>3 DEF Verdicts

LEMMA VerdictsMore ==
  ASSUME NEW es \in Seq(Events), NEW hs \in Seq(Payloads), NEW whole, NEW y, Verdicts(es, hs, FALSE, whole, y),
         NEW payload \in Payloads, NEW over, over <=> Stops(payload), NEW e, NEW m \in Nat, m = Len(hs) + 1,
         m <= Len(es), es[m] = e, Fits(whole, payload, e, y)
  PROVE  Verdicts(es, Append(hs, payload), over, whole, y)
<1>1. PICK n \in Nat : n = Len(hs) OBVIOUS
<1>2. PICK gs : gs = Append(hs, payload) OBVIOUS
<1>3. Len(gs) = m /\ gs[m] = payload /\ \A i \in 1..n : gs[i] = hs[i] BY <1>1, <1>2
<1>4. ASSUME NEW i \in 1..m PROVE (Stops(gs[i]) <=> over /\ i = m) /\ Fits(whole, gs[i], es[i], y)
  <2>1. i = m \/ i \in 1..n BY <1>1
  <2>2. CASE i = m BY <2>2, <1>3
  <2>3. CASE i \in 1..n
    <3>1. ~Stops(hs[i]) /\ Fits(whole, hs[i], es[i], y) BY <2>3, <1>1 DEF Verdicts
    <3>2. i # m /\ gs[i] = hs[i] BY <2>3, <1>1, <1>3
    <3> QED BY <3>1, <3>2
  <2> QED BY <2>1, <2>2, <2>3
<1> QED BY <1>2, <1>3, <1>4 DEF Verdicts

LEMMA StreamLength == ASSUME Types PROVE \E k \in Nat : k = Len(stream)
BY DEF Types

\* The verdicts stand when the reader goes on.
LEMMA JudgedLater ==
  ASSUME Types, Judged, UNCHANGED <<stream, chunked, stopped, handed>>, taken' \in taken..Len(stream),
         discarded => discarded'
  PROVE  Judged'
<1>1. PICK k \in Nat : k = Len(stream) BY DEF Types
<1>2. taken \in Nat /\ taken' \in Nat /\ taken <= taken' /\ taken' <= k /\ taken' \in 0..k BY <1>1 DEF Types
<1>3. PICK es \in Seq(Events) : es = At(stream, taken).events BY <1>1, <1>2, Hearing, ReaderFields DEF Types
<1>4. PICK fs \in Seq(Events) : fs = At(stream, taken').events BY <1>1, <1>2, Hearing, ReaderFields DEF Types
<1>5. Len(es) <= Len(fs) /\ \A i \in 1..Len(es) : fs[i] = es[i] BY <1>1, <1>2, <1>3, <1>4, Earlier DEF Types
<1>6. PICK hs \in Seq(Payloads) : hs = handed BY DEF Types
<1>7. PICK w : w = chunked OBVIOUS
<1>8. PICK x : x = discarded OBVIOUS
<1>9. PICK y : y = discarded' OBVIOUS
<1>10. PICK z : z = stopped OBVIOUS
<1>11. Verdicts(es, hs, z, w, x) BY <1>3, <1>6, <1>7, <1>8, <1>10, ReadingAt DEF Judged
<1>12. x => y BY <1>8, <1>9
<1>13. Verdicts(fs, hs, z, w, y) BY <1>5, <1>11, <1>12, VerdictsLater
<1> QED BY <1>4, <1>6, <1>7, <1>9, <1>10, <1>13, ReadingAt DEF Judged

\* And with the verdict on one more event.
LEMMA JudgedMore ==
  ASSUME Types, Judged, ~stopped, UNCHANGED <<stream, chunked>>, taken' \in taken..Len(stream),
         discarded => discarded', NEW payload \in Payloads, handed' = Append(handed, payload),
         stopped' <=> Stops(payload), NEW e, NEW m \in Nat, m = Len(handed) + 1,
         m <= Len(At(stream, taken').events), At(stream, taken').events[m] = e,
         Fits(chunked, payload, e, discarded')
  PROVE  Judged'
<1>1. PICK k \in Nat : k = Len(stream) BY StreamLength
<1>2. taken \in Nat /\ taken' \in Nat /\ taken <= taken' /\ taken' <= k /\ taken' \in 0..k BY <1>1 DEF Types
<1>3. PICK es \in Seq(Events) : es = At(stream, taken).events BY <1>1, <1>2, Hearing, ReaderFields DEF Types
<1>4. PICK fs \in Seq(Events) : fs = At(stream, taken').events BY <1>1, <1>2, Hearing, ReaderFields DEF Types
<1>5. Len(es) <= Len(fs) /\ \A i \in 1..Len(es) : fs[i] = es[i] BY <1>1, <1>2, <1>3, <1>4, Earlier DEF Types
<1>6. PICK hs \in Seq(Payloads) : hs = handed BY DEF Types
<1>7. PICK w : w = chunked OBVIOUS
<1>8. PICK x : x = discarded OBVIOUS
<1>9. PICK y : y = discarded' OBVIOUS
<1>10. PICK z : z = stopped' OBVIOUS
<1>11. Verdicts(es, hs, stopped, w, x) BY <1>3, <1>6, <1>7, <1>8, ReadingAt DEF Judged
<1>12. Verdicts(es, hs, FALSE, w, x) BY <1>11 DEF Verdicts
<1>13. Verdicts(fs, hs, FALSE, w, y)
  <2>1. x => y BY <1>8, <1>9
  <2> QED BY <2>1, <1>5, <1>12, VerdictsLater
<1>14. (z <=> Stops(payload)) /\ m = Len(hs) + 1 /\ m <= Len(fs) /\ fs[m] = e /\ Fits(w, payload, e, y)
  BY <1>4, <1>6, <1>7, <1>9, <1>10
<1>15. Verdicts(fs, Append(hs, payload), z, w, y) BY <1>13, <1>14, VerdictsMore
<1> QED BY <1>4, <1>6, <1>7, <1>9, <1>10, <1>15, ReadingAt DEF Judged

LEMMA Places ==
  ASSUME Types, Kept
  PROVE  /\ Len(stream) \in Nat /\ taken \in Nat /\ taken <= Len(stream) /\ Len(buf) \in Nat
         /\ Origin \in Nat /\ Origin + Len(buf) = taken /\ Origin <= taken /\ Origin \in 0..Len(stream)
         /\ MaxEvent \in Nat /\ DelimiterSlack \in Nat /\ DelimiterSlack > 2
<1>1. PICK k \in Nat : k = Len(stream) BY DEF Types
<1>2. PICK n \in Nat : n = Len(buf) BY DEF Types
<1>3. taken \in 0..k /\ Origin = taken - n /\ Origin \in Nat BY <1>1, <1>2 DEF Types, Kept, Origin
<1>4. Origin + n = taken /\ Origin <= taken /\ Origin \in 0..k BY <1>3
<1> QED BY <1>1, <1>2, <1>3, <1>4, FramerBounds

LEMMA Joined ==
  ASSUME NEW p \in Seq(Bytes), NEW q \in Seq(Bytes)
  PROVE  Len(p \o q) = Len(p) + Len(q)
OBVIOUS

\* Bytes that are taken without the buffer's bounds being passed.
LEMMA WindowGrows ==
  ASSUME NEW s \in Seq(Bytes), NEW b \in Nat, NEW p, Window(s, b, p), NEW a \in Nat, a = b + Len(p),
         NEW n \in Nat, a + n <= Len(s)
  PROVE  Window(s, b, p \o SubSeq(s, a + 1, a + n)) /\ Len(p \o SubSeq(s, a + 1, a + n)) = Len(p) + n
<1>1. p \in Seq(Bytes) BY DEF Window
<1>2. PICK m \in Nat : m = Len(p) BY <1>1
<1>3. PICK k \in Nat : k = Len(s) OBVIOUS
<1>4. b + m + n <= k BY <1>2, <1>3
<1>13. a + n <= k BY <1>3
<1>5. \A x \in 1..m : p[x] = s[b + x] BY <1>2 DEF Window
<1>6. a = b + m BY <1>2
<1>7. PICK u : u = SubSeq(s, a + 1, a + n) OBVIOUS
<1>8. u \in Seq(Bytes) /\ Len(u) = n /\ \A x \in 1..n : u[x] = s[a + x]
  <2>1. \A x \in (a + 1)..(a + n) : x \in 1..Len(s) BY <1>3, <1>13
  <2> QED BY <2>1, <1>7
<1>9. PICK q : q = p \o u OBVIOUS
<1>10. q \in Seq(Bytes) /\ Len(q) = m + n
  <2>1. u \in Seq(Bytes) /\ Len(u) = n BY <1>8
  <2>3. q \in Seq(Bytes) BY <2>1, <1>1, <1>9
  <2>2. Len(q) = Len(p) + Len(u) BY <2>1, <1>1, <1>9, Joined
  <2> QED BY <2>1, <2>2, <2>3, <1>2
<1>11. \A x \in 1..(m + n) : q[x] = s[b + x]
  <2> TAKE x \in 1..(m + n)
  <2>1. x \in 1..m \/ x \in (m + 1)..(m + n) OBVIOUS
  <2>2. CASE x \in 1..m
    <3>1. q[x] = p[x] BY <2>2, <1>1, <1>2, <1>8, <1>9
    <3> QED BY <2>2, <3>1, <1>5
  <2>3. CASE x \in (m + 1)..(m + n)
    <3>1. q[x] = u[x - m] BY <2>3, <1>1, <1>2, <1>8, <1>9
    <3>2. x - m \in 1..n /\ a + (x - m) = b + x BY <2>3, <1>6
    <3> QED BY <3>1, <3>2, <1>8
  <2> QED BY <2>1, <2>2, <2>3
<1>12. Window(s, b, q)
  <2>1. b + Len(q) <= Len(s) BY <1>3, <1>4, <1>10
  <2> QED BY <2>1, <1>10, <1>11 DEF Window
<1> QED BY <1>2, <1>6, <1>7, <1>9, <1>10, <1>12

LEMMA TakeChunkStep ==
  ASSUME FramerInv, NEW n \in 1..(Len(stream) - taken), TakeChunk(n)
  PROVE  FramerInv'
<1> USE DEF FramerInv
<1>1. /\ Len(stream) \in Nat /\ taken \in Nat /\ taken <= Len(stream) /\ Len(buf) \in Nat
      /\ Origin \in Nat /\ Origin + Len(buf) = taken /\ Origin <= taken
      /\ MaxEvent \in Nat /\ DelimiterSlack \in Nat /\ DelimiterSlack > 2
  BY Places
<1>2. PICK k \in Nat : k = Len(stream) BY <1>1
<1>3. PICK m \in Nat : m = Len(buf) BY <1>1
<1>4. /\ ~stopped /\ ~chunking /\ ~draining /\ n <= Room
      /\ buf' = buf \o SubSeq(stream, taken + 1, taken + n) /\ taken' = taken + n /\ draining' = TRUE
      /\ UNCHANGED <<stream, chunked, discarded, dropping, stopped, chunking, lexer, handed>>
  BY DEF TakeChunk
<1>5. n \in Nat /\ taken' \in taken..k /\ taken' \in 0..k /\ taken + n <= k BY <1>1, <1>2, <1>4
<1>6. Window(stream, Origin, buf') /\ Len(buf') = m + n
  <2>1. Window(stream, Origin, buf) BY DEF Kept
  <2>2. PICK o \in Nat : o = Origin BY <1>1
  <2>3. PICK a \in Nat : a = taken BY <1>1
  <2>4. PICK s \in Seq(Bytes) : s = stream BY DEF Types
  <2>5. PICK p : p = buf OBVIOUS
  <2>6. Window(s, o, p) BY <2>1, <2>2, <2>4, <2>5
  <2>10. PICK x \in Nat : x = n BY <1>5
  <2>7. a = o + Len(p) /\ a + x <= Len(s) BY <2>2, <2>3, <2>4, <2>5, <2>10, <1>1, <1>2, <1>5
  <2>8. Window(s, o, p \o SubSeq(s, a + 1, a + x)) BY <2>6, <2>7, WindowGrows
  <2>11. Len(p \o SubSeq(s, a + 1, a + x)) = Len(p) + x BY <2>6, <2>7, WindowGrows
  <2>9. buf' = p \o SubSeq(s, a + 1, a + x) BY <2>3, <2>4, <2>5, <2>10, <1>4
  <2> QED BY <2>2, <2>4, <2>5, <2>8, <2>9, <2>10, <2>11, <1>3
<1>7. Origin' = Origin BY <1>1, <1>3, <1>4, <1>5, <1>6 DEF Origin
<1>8. m + n <= MaxEvent + DelimiterSlack
  <2>1. m <= MaxEvent \/ m <= 2 BY <1>3, <1>4 DEF Kept
  <2>2. Room = MaxEvent + DelimiterSlack - m BY <2>1, <1>1, <1>3 DEF Room
  <2> QED BY <2>2, <1>1, <1>4, <1>5
<1>9. Types'
  <2>1. buf' \in Seq(Bytes) BY <1>6 DEF Window
  <2> QED BY <2>1, <1>2, <1>4, <1>5 DEF Types
<1>10. Kept' BY <1>1, <1>4, <1>6, <1>7, <1>8 DEF Kept, Window
<1>11. CASE Misread BY <1>2, <1>4, <1>5, <1>9, <1>10, <1>11, MisreadRemains
<1>12. CASE Sound
  <2>1. Judged' BY <1>2, <1>4, <1>5, <1>12, JudgedLater DEF Sound
  <2>2. Buffered BY <1>4, <1>12 DEF Sound
  <2>3. Buffered'
    <3>1. CASE dropping
      <4>1. ~chunked /\ discarded /\ Clear(stream, Origin) /\ Dropped(stream, Origin, taken) BY <2>2, <3>1 DEF Buffered
      <4>2. PICK d \in Origin..taken : d - Start(stream, Origin) > MaxEvent /\ NoEnd(stream, Origin, d)
        BY <4>1 DEF Dropped
      <4>3. d \in Origin..taken' BY <1>1, <1>5
      <4>4. Dropped(stream, Origin, taken') BY <4>2, <4>3 DEF Dropped
      <4>5. /\ Len(handed') = Len(At(stream', Origin').events) /\ draining' /\ dropping' /\ ~chunked' /\ discarded'
            /\ Clear(stream', Origin') /\ Dropped(stream', Origin', taken')
        BY <1>4, <1>7, <2>2, <3>1, <4>1, <4>4 DEF Buffered
      <4> QED BY <4>5 DEF Buffered
    <3>2. CASE ~dropping
      <4>1. Start(stream, Origin) = Origin BY <2>2, <3>2 DEF Buffered
      <4> QED BY <4>1, <1>4, <1>7, <2>2, <3>2 DEF Buffered
    <3> QED BY <3>1, <3>2
  <2> QED BY <1>4, <1>9, <1>10, <2>1, <2>3 DEF Sound
<1> QED BY <1>11, <1>12

LEMMA IgnoreStep ==
  ASSUME FramerInv, taken < Len(stream), Ignore
  PROVE  FramerInv'
<1> USE DEF FramerInv
<1>1. PICK k \in Nat : k = Len(stream) BY DEF Types
<1>2. /\ stopped /\ taken' = taken + 1
      /\ UNCHANGED <<stream, chunked, buf, discarded, dropping, stopped, chunking, lexer, draining, handed>>
  BY DEF Ignore
<1>3. taken \in Nat /\ taken' \in taken..k /\ taken' \in 0..k BY <1>1, <1>2 DEF Types
<1>4. Types' BY <1>1, <1>2, <1>3 DEF Types
<1>5. buf = <<>> /\ ~draining /\ Len(buf) = 0 BY <1>2 DEF Kept
<1>6. Kept'
  <2>1. Origin' = taken' BY <1>2, <1>3, <1>5 DEF Origin
  <2>2. Window(stream, taken', <<>>)
    <3>1. <<>> \in Seq(Bytes) /\ Len(<<>>) = 0 OBVIOUS
    <3>2. taken' \in Nat /\ taken' + 0 <= Len(stream) BY <1>1, <1>3
    <3> QED BY <3>1, <3>2 DEF Window
  <2> QED BY <2>1, <2>2, <1>2, <1>3, <1>5 DEF Kept
<1>7. CASE Misread BY <1>1, <1>2, <1>3, <1>4, <1>6, <1>7, MisreadRemains
<1>8. CASE Sound
  <2>1. Judged' BY <1>1, <1>2, <1>3, <1>8, JudgedLater DEF Sound
  <2> QED BY <2>1, <1>2, <1>4, <1>6 DEF Sound
<1> QED BY <1>7, <1>8

\* The open event of a reader that is over the cap.
LEMMA BlankIsMisread ==
  ASSUME NEW s \in Seq(Bytes), NEW k \in 0..Len(s), At(s, k).blank, k - Start(s, k) > MaxEvent
  PROVE  MisreadIn(At(s, k))
<1>1. At(s, k).size + Len(At(s, k).line) = k - Start(s, k) BY StartBelow
<1> QED BY <1>1 DEF MisreadIn

LEMMA LexOneStep ==
  ASSUME FramerInv, taken < Len(stream), LexOne
  PROVE  FramerInv'
<1> USE DEF FramerInv
<1>1. PICK k \in Nat : k = Len(stream) BY DEF Types
<1>2. PICK c \in Nat : c = taken' /\ c = taken + 1 /\ c - 1 = taken BY <1>1 DEF LexOne, Types
<1>3. taken \in Nat /\ taken' \in taken..k /\ taken' \in 0..k /\ c \in 1..k /\ taken \in 0..k BY <1>1, <1>2 DEF Types
<1>4. PICK s \in Seq(Bytes) : s = stream /\ stream' = stream BY DEF LexOne, Types
<1>5. PICK b \in Bytes : b = s[c]
  <2>1. c \in 1..Len(s) BY <1>1, <1>3, <1>4
  <2> QED BY <2>1
<1>6. PICK l \in Lexers : l = LexByte(lexer, b) BY LexByteType DEF Types
<1>7. /\ chunking /\ UNCHANGED <<stream, chunked, discarded, dropping>>
      /\ l.done => chunking' = FALSE /\ lexer' = oversizedLexer /\ EndEvent(Salvaged(l), buf)
      /\ ~l.done => lexer' = l /\ UNCHANGED <<chunking, buf, stopped, draining, handed>>
  BY <1>2, <1>4, <1>5, <1>6 DEF LexOne
<1>8. buf = <<>> /\ Len(buf) = 0 /\ ~draining /\ ~stopped
  <2>1. buf = <<>> /\ ~draining BY <1>7 DEF Kept
  <2> QED BY <2>1, <1>7 DEF Kept
<1>9. PICK payload \in Payloads : payload = Salvaged(l)
  <2>1. l.out \in Seq(Bytes) BY LexerFields
  <2> QED BY <2>1 DEF Salvaged, Payloads
<1>10. buf' = <<>> /\ draining' = FALSE
  <2>1. draining = FALSE BY <1>8 DEF Types
  <2> QED BY <2>1, <1>7, <1>8 DEF EndEvent
<1>11. l.done => handed' = Append(handed, payload) /\ (stopped' <=> Stops(payload)) /\ stopped' \in BOOLEAN
  <2>1. stopped = FALSE BY <1>8 DEF Types
  <2> QED BY <2>1, <1>7, <1>9 DEF EndEvent
<1>12. Types'
  <2>1. handed' \in Seq(Payloads)
    <3>1. handed \in Seq(Payloads) BY DEF Types
    <3>2. Append(handed, payload) \in Seq(Payloads) BY <3>1
    <3> QED BY <3>1, <3>2, <1>7, <1>11
  <2>2. lexer' \in Lexers BY <1>7, FirstLexer
  <2>3. stopped' \in BOOLEAN /\ chunking' \in BOOLEAN BY <1>7, <1>11 DEF Types
  <2>4. <<>> \in Seq(Bytes) OBVIOUS
  <2> QED BY <2>1, <2>2, <2>3, <2>4, <1>1, <1>3, <1>7, <1>10 DEF Types
<1>13. Origin' = c
  <2>1. Len(<<>>) = 0 OBVIOUS
  <2> QED BY <2>1, <1>2, <1>10 DEF Origin
<1>14. Kept'
  <2>1. Window(stream, c, <<>>)
    <3>1. <<>> \in Seq(Bytes) /\ Len(<<>>) = 0 OBVIOUS
    <3>2. c + 0 <= Len(stream) BY <1>1, <1>3
    <3> QED BY <3>1, <3>2 DEF Window
  <2>2. Len(<<>>) = 0 OBVIOUS
  <2>3. ~ (chunking' /\ stopped') BY <1>7, <1>8
  <2>4. MaxEvent \in Nat /\ DelimiterSlack \in Nat BY FramerBounds
  <2> QED BY <2>1, <2>2, <2>3, <2>4, <1>4, <1>10, <1>13 DEF Kept
<1>15. CASE Misread BY <1>1, <1>3, <1>7, <1>12, <1>14, <1>15, MisreadRemains
<1>16. CASE Sound /\ ~Misread'
  <2>1. PICK r \in Readers : r = At(s, taken) BY <1>1, <1>3, <1>4, Hearing
  <2>2. PICK q \in Readers : q = At(s, c) BY <1>1, <1>3, <1>4, Hearing
  <2>3. q = Hears(r, b) BY <1>1, <1>2, <1>3, <1>4, <1>5, <2>1, <2>2, Hearing
  <2>4. /\ Judged /\ chunked /\ ~dropping /\ Len(handed) = Len(r.events)
        /\ ~lexer.done /\ LexMatches(lexer, r) /\ taken - Start(s, taken) > MaxEvent
    BY <1>4, <1>7, <1>8, <1>16, <2>1, ReadingAt DEF Sound, InLexer
  <2>5. ~MisreadIn(q)
    <3>1. chunked' BY <2>4, <1>7
    <3> QED BY <3>1, <1>2, <1>4, <1>16, <2>2, ReadingAt DEF Misread
  <2>6. EndsAt(s, c) <=> Ends(r, b) BY <1>2, <1>5, <2>1 DEF EndsAt
  <2>7. c \in 1..Len(s) /\ c \in 0..Len(s) /\ MaxEvent \in Nat BY <1>1, <1>3, <1>4, FramerBounds
  <2>8. CASE b = LF /\ Blank(r.line)
    <3>1. l.done /\ payload = r.data BY <2>4, <2>8, <1>6, <1>9, LexEnds DEF Types
    <3>2. Ends(r, b)
      <4> SUFFICES ASSUME ~Ends(r, b) PROVE FALSE
        OBVIOUS
      <4>1. r.size = 0 BY <2>8, ReaderFields DEF Ends
      <4>2. q.blank = Blank(r.line) BY <4>1, <2>3, <2>8, HearsFields
      <4>3. At(s, c).blank BY <4>2, <2>2, <2>8
      <4>4. Start(s, c) = Start(s, taken) BY <2>6, <2>7, <1>2, StartStep
      <4>5. Start(s, taken) \in 0..taken BY <1>1, <1>3, <1>4, StartBelow
      <4>6. c - Start(s, c) > MaxEvent BY <4>4, <4>5, <2>4, <2>7, <1>2, <1>3
      <4>7. MisreadIn(At(s, c)) BY <4>3, <4>6, <2>7, BlankIsMisread
      <4> QED BY <4>7, <2>2, <2>5
    <3>3. PICK e : e = EventOf(r) OBVIOUS
    <3>4. Start(s, c) = c /\ q.events = Append(r.events, e)
      BY <3>2, <3>3, <2>1, <2>2, <2>6, <2>7, <1>2, StartStep
    <3>5. r.events \in Seq(Events) BY ReaderFields
    <3>6. PICK m \in Nat : m = Len(handed) + 1 BY DEF Types
    <3>7. Len(q.events) = m /\ q.events[m] = e
      <4>1. Len(handed) = Len(r.events) /\ Len(r.events) \in Nat BY <2>4, <3>5
      <4>2. m = Len(r.events) + 1 BY <4>1, <3>6
      <4> QED BY <4>2, <3>4, <3>5
    <3>8. Fits(chunked, payload, e, discarded') BY <3>1, <3>3, <2>4 DEF Fits, EventOf
    <3>9. m <= Len(At(stream, taken').events) /\ At(stream, taken').events[m] = e BY <3>6, <3>7, <2>2, <1>2, <1>4
    <3>10. taken' \in taken..Len(stream) /\ discarded' = discarded BY <1>1, <1>3, <1>7
    <3>14. handed' = Append(handed, payload) /\ (stopped' <=> Stops(payload)) /\ UNCHANGED <<stream, chunked>>
      BY <3>1, <1>7, <1>11
    <3>15. Judged /\ ~stopped /\ (discarded => discarded') BY <3>10, <2>4, <1>8
    <3>11. Judged' BY <3>6, <3>8, <3>9, <3>10, <3>14, <3>15, JudgedMore
    <3>12. Buffered'
      <4>1. Len(handed') = m
        <5>1. handed \in Seq(Payloads) BY DEF Types
        <5> QED BY <5>1, <3>1, <3>6, <1>11
      <4>2. Len(At(stream', Origin').events) = m BY <3>7, <2>2, <1>4, <1>13
      <4>3. NoEnd(stream', Origin', taken')
        <5>1. \A x \in (c + 1)..c : FALSE OBVIOUS
        <5> QED BY <5>1, <1>2, <1>13 DEF NoEnd
      <4>4. ~dropping' /\ Start(stream', Origin') = Origin' BY <3>4, <2>4, <1>4, <1>7, <1>13
      <4> QED BY <4>1, <4>2, <4>3, <4>4 DEF Buffered
    <3>13. ~chunking' BY <3>1, <1>7
    <3> QED BY <3>11, <3>12, <3>13, <1>12, <1>14 DEF Sound
  <2>9. CASE ~ (b = LF /\ Blank(r.line))
    <3>1. HeardAs(r, b, q) BY <2>3, <2>9, HearsAs
    <3>2. LexMatches(l, q) /\ l.done = lexer.done BY <3>1, <2>4, <1>6, LexFollows DEF Types
    <3>3. ~l.done BY <3>2, <2>4
    <3>4. /\ lexer' = l /\ UNCHANGED <<chunking, buf, stopped, draining, handed>> BY <3>3, <1>7
    <3>5. ~Ends(r, b) BY <2>9 DEF Ends
    <3>6. Start(s, c) = Start(s, taken) /\ q.events = r.events BY <3>5, <2>1, <2>2, <2>6, <2>7, <1>2, StartStep
    <3>7. Start(s, taken) \in 0..taken BY <1>1, <1>3, <1>4, StartBelow
    <3>8. c - Start(s, c) > MaxEvent BY <3>6, <3>7, <2>4, <2>7, <1>2, <1>3
    <3>9. taken' \in taken..Len(stream) BY <1>1, <1>3
    <3>10. Judged' BY <3>4, <3>9, <2>4, <1>7, JudgedLater
    <3>11. (Reading)' = q BY <2>2, <1>2, <1>4, ReadingAt
    <3>12. InLexer'
      <4>1. chunked' /\ ~draining' /\ ~dropping' BY <2>4, <1>7, <1>10
      <4>2. Len(handed') = Len((Reading)'.events) BY <3>4, <3>6, <3>11, <2>4
      <4>3. ~lexer'.done /\ LexMatches(lexer', (Reading)') BY <3>2, <3>3, <3>4, <3>11
      <4>4. taken' - Start(stream', taken') > MaxEvent BY <3>8, <1>2, <1>4
      <4> QED BY <4>1, <4>2, <4>3, <4>4 DEF InLexer
    <3>13. chunking' BY <3>4, <1>7
    <3> QED BY <3>10, <3>12, <3>13, <1>12, <1>14 DEF Sound
  <2> QED BY <2>8, <2>9
<1>17. Misread' => FramerInv' BY <1>12, <1>14
<1> QED BY <1>15, <1>16, <1>17

\* When the buffer holds no whole event, none ends in it.
LEMMA NothingEnds ==
  ASSUME Types, Kept, Buffered, EventEnds(buf) = {}
  PROVE  /\ NoEnd(stream, Origin, taken) /\ Start(stream, taken) = Start(stream, Origin)
         /\ At(stream, taken).events = At(stream, Origin).events /\ Clear(stream, Origin)
<1>1. /\ Len(stream) \in Nat /\ taken \in Nat /\ taken <= Len(stream) /\ Len(buf) \in Nat
      /\ Origin \in Nat /\ Origin + Len(buf) = taken /\ Origin <= taken
  BY Places
<1>2. PICK s \in Seq(Bytes) : s = stream BY DEF Types
<1>3. PICK b \in Nat : b = Origin BY <1>1
<1>4. PICK p : p = buf OBVIOUS
<1>5. PICK c \in Nat : c = taken /\ c = b + Len(p) /\ b <= c /\ c <= Len(s) BY <1>1, <1>2, <1>3, <1>4
<1>6. Window(s, b, p) BY <1>2, <1>3, <1>4 DEF Kept
<1>7. Clear(s, b)
  <2>1. CASE dropping BY <2>1, <1>2, <1>3 DEF Buffered
  <2>2. CASE ~dropping
    <3>1. Start(s, b) = b BY <2>2, <1>2, <1>3 DEF Buffered
    <3>2. ~ (b > b) /\ ~ (b - 1 > b) OBVIOUS
    <3> QED BY <3>1, <3>2 DEF Clear
  <2> QED BY <2>1, <2>2
<1>8. NoEnd(s, b, c) BY <1>4, <1>5, <1>6, <1>7, NoEventEnds
<1>9. Start(s, c) = Start(s, b) /\ At(s, c).events = At(s, b).events BY <1>5, <1>8, Steady
<1> QED BY <1>2, <1>3, <1>5, <1>7, <1>8, <1>9

LEMMA KeepStep ==
  ASSUME FramerInv, draining, EventEnds(buf) = {}, draining' = FALSE, Keep,
         UNCHANGED <<stream, taken, chunked, stopped, handed>>
  PROVE  FramerInv'
<1> USE DEF FramerInv
<1>1. UNCHANGED <<stream, taken, chunked, stopped, handed, buf, discarded, dropping, chunking, lexer>>
      /\ Len(buf) <= MaxEvent
  BY DEF Keep
<1>2. ~chunking /\ ~stopped BY DEF Kept
<1>3. Types' BY <1>1 DEF Types
<1>4. Origin' = Origin BY <1>1 DEF Origin
<1>5. Kept' BY <1>1, <1>2, <1>4 DEF Kept
<1>6. taken' \in taken..Len(stream) BY <1>1, Places
<1>7. CASE Misread BY <1>1, <1>3, <1>5, <1>6, <1>7, MisreadRemains
<1>8. CASE Sound
  <2>1. Judged' BY <1>1, <1>6, <1>8, JudgedLater DEF Sound
  <2>2. Buffered BY <1>2, <1>8 DEF Sound
  <2>3. NoEnd(stream, Origin, taken) BY <2>2, NothingEnds
  <2>4. Buffered' BY <1>1, <1>4, <2>2, <2>3 DEF Buffered
  <2> QED BY <1>1, <1>2, <1>3, <1>5, <2>1, <2>4 DEF Sound
<1> QED BY <1>7, <1>8

LEMMA UndoneFields ==
  ASSUME NEW l \in Lexers
  PROVE  LET m == [l EXCEPT !.done = FALSE]
         IN /\ m \in Lexers /\ m.state = l.state /\ m.field = l.field /\ m.sawData = l.sawData
            /\ m.heldCR = l.heldCR /\ m.out = l.out /\ m.done = FALSE
BY DEF Lexers

LEMMA StartChunkingStep ==
  ASSUME FramerInv, draining, EventEnds(buf) = {}, draining' = FALSE, StartChunking,
         UNCHANGED <<stream, taken, chunked, stopped, handed>>
  PROVE  FramerInv'
<1> USE DEF FramerInv
<1>1. /\ UNCHANGED <<stream, taken, chunked, stopped, handed, discarded, dropping>>
      /\ Len(buf) > MaxEvent /\ chunked /\ ~dropping /\ chunking' = TRUE /\ buf' = <<>>
      /\ lexer' = [Lex(oversizedLexer, buf) EXCEPT !.done = FALSE]
  BY DEF StartChunking
<1>2. ~chunking /\ ~stopped BY DEF Kept
<1>3. /\ Len(stream) \in Nat /\ taken \in Nat /\ taken <= Len(stream) /\ Len(buf) \in Nat
      /\ Origin \in Nat /\ Origin + Len(buf) = taken /\ Origin <= taken
      /\ MaxEvent \in Nat /\ DelimiterSlack \in Nat
  BY Places
<1>4. PICK l \in Lexers : l = Lex(oversizedLexer, buf) BY FirstLexer, LexType DEF Types
<1>5. PICK m \in Lexers : /\ m = lexer' /\ m.state = l.state /\ m.field = l.field /\ m.sawData = l.sawData
                          /\ m.heldCR = l.heldCR /\ m.out = l.out /\ m.done = FALSE
  <2>1. lexer' = [l EXCEPT !.done = FALSE] BY <1>1, <1>4
  <2> QED BY <2>1, UndoneFields
<1>6. Types'
  <2>1. <<>> \in Seq(Bytes) OBVIOUS
  <2> QED BY <2>1, <1>1, <1>5 DEF Types
<1>7. Len(<<>>) = 0 OBVIOUS
<1>8. Kept'
  <2>1. Origin' = taken BY <1>1, <1>3, <1>7 DEF Origin
  <2>2. Window(stream, taken, <<>>)
    <3>1. <<>> \in Seq(Bytes) OBVIOUS
    <3>2. taken + 0 <= Len(stream) BY <1>3
    <3> QED BY <3>1, <3>2, <1>3, <1>7 DEF Window
  <2> QED BY <2>1, <2>2, <1>1, <1>2, <1>3, <1>7 DEF Kept
<1>9. taken' \in taken..Len(stream) BY <1>1, <1>3
<1>10. CASE Misread BY <1>1, <1>6, <1>8, <1>9, <1>10, MisreadRemains
<1>11. CASE Sound /\ ~Misread
  <2>1. Judged' BY <1>1, <1>9, <1>11, JudgedLater DEF Sound
  <2>2. Buffered BY <1>2, <1>11 DEF Sound
  <2>3. /\ NoEnd(stream, Origin, taken) /\ Start(stream, taken) = Start(stream, Origin)
        /\ At(stream, taken).events = At(stream, Origin).events
    BY <2>2, NothingEnds
  <2>4. Start(stream, Origin) = Origin BY <1>1, <2>2 DEF Buffered
  <2>5. taken - Start(stream, taken) > MaxEvent BY <2>3, <2>4, <1>1, <1>3
  <2>6. PICK s \in Seq(Bytes) : s = stream BY DEF Types
  <2>7. PICK b \in Nat : b = Origin BY <1>3
  <2>8. PICK p : p = buf OBVIOUS
  <2>9. PICK c \in 0..Len(s) : c = taken /\ c = b + Len(p) BY <2>6, <2>7, <2>8, <1>3
  <2>10. ~At(s, c).blank
    <3>1. ~MisreadIn(At(s, c)) BY <1>1, <1>11, <2>6, <2>9, ReadingAt DEF Misread
    <3>2. c - Start(s, c) > MaxEvent BY <2>5, <2>6, <2>9
    <3> QED BY <3>1, <3>2, BlankIsMisread
  <2>11. LexMatches(l, At(s, c))
    <3>1. Window(s, b, p) /\ Start(s, b) = b /\ NoEnd(s, b, b + Len(p)) /\ ~At(s, b + Len(p)).blank
      BY <2>3, <2>4, <2>6, <2>7, <2>8, <2>9, <2>10 DEF Kept
    <3>2. LexMatches(Lex(oversizedLexer, p), At(s, b + Len(p))) BY <3>1, LexWindow
    <3> QED BY <3>2, <2>8, <2>9, <1>4
  <2>12. LexMatches(m, At(s, c))
    <3>1. Salvaged(m) = Salvaged(l) BY <1>5 DEF Salvaged
    <3> QED BY <3>1, <2>11, <1>5 DEF LexMatches
  <2>13. (Reading)' = At(s, c) BY <1>1, <2>6, <2>9, ReadingAt
  <2>14. InLexer'
    <3>1. Len(handed') = Len((Reading)'.events) BY <2>2, <2>3, <2>6, <2>9, <2>13, <1>1 DEF Buffered
    <3>2. ~lexer'.done /\ LexMatches(lexer', (Reading)') BY <1>5, <2>12, <2>13
    <3>3. taken' - Start(stream', taken') > MaxEvent BY <2>5, <1>1
    <3> QED BY <3>1, <3>2, <3>3, <1>1 DEF InLexer
  <2> QED BY <1>1, <1>6, <1>8, <2>1, <2>14 DEF Sound
<1> QED BY <1>10, <1>11

LEMMA DiscardStep ==
  ASSUME FramerInv, draining, EventEnds(buf) = {}, draining' = FALSE, discardKeepingDelimiterState,
         UNCHANGED <<stream, taken, chunked, stopped, handed>>
  PROVE  FramerInv'
<1> USE DEF FramerInv
<1>1. /\ UNCHANGED <<stream, taken, chunked, stopped, handed, chunking, lexer>>
      /\ Len(buf) > MaxEvent /\ ~ (chunked /\ ~dropping) /\ buf' = KeptDelimiter(buf)
      /\ discarded' = TRUE /\ dropping' = TRUE
  BY DEF discardKeepingDelimiterState
<1>2. ~chunking /\ ~stopped BY DEF Kept
<1>3. /\ Len(stream) \in Nat /\ taken \in Nat /\ taken <= Len(stream) /\ Len(buf) \in Nat
      /\ Origin \in Nat /\ Origin + Len(buf) = taken /\ Origin <= taken
      /\ MaxEvent \in Nat /\ DelimiterSlack \in Nat /\ DelimiterSlack > 2
  BY Places
<1>4. PICK s \in Seq(Bytes) : s = stream BY DEF Types
<1>5. PICK b \in Nat : b = Origin BY <1>3
<1>6. PICK p : p = buf OBVIOUS
<1>7. PICK n \in Nat : n = Len(p) /\ n > 0 BY <1>1, <1>3, <1>6
<1>8. PICK c \in Nat : c = taken /\ c = b + n /\ c <= Len(s) BY <1>3, <1>4, <1>5, <1>6, <1>7
<1>9. Window(s, b, p) BY <1>4, <1>5, <1>6 DEF Kept
<1>10. PICK k \in 0..2 : /\ k = KeptCount(p) /\ k <= n /\ Len(buf') = k
                         /\ Window(s, b + Len(p) - k, buf')
  BY <1>1, <1>6, <1>7, <1>9, KeptIs
<1>11. PICK o \in Nat : o = c - k /\ o = b + Len(p) - k /\ b <= o /\ o <= c
  <2>1. k \in 0..2 /\ k <= n BY <1>10
  <2>2. c - k \in Nat /\ c - k = b + Len(p) - k /\ b <= c - k /\ c - k <= c BY <2>1, <1>7, <1>8
  <2> QED BY <2>2
<1>12. Origin' = o /\ Window(s, o, buf') BY <1>1, <1>8, <1>10, <1>11 DEF Origin
<1>13. Types'
  <2>1. buf' \in Seq(Bytes) BY <1>12 DEF Window
  <2> QED BY <2>1, <1>1 DEF Types
<1>14. Kept'
  <2>1. Len(buf') <= 2 /\ Len(buf') <= MaxEvent + DelimiterSlack BY <1>3, <1>10, SMTT(30)
  <2> QED BY <2>1, <1>1, <1>2, <1>4, <1>12 DEF Kept
<1>15. taken' \in taken..Len(stream) BY <1>1, <1>3
<1>16. CASE Misread BY <1>1, <1>13, <1>14, <1>15, <1>16, MisreadRemains
<1>17. CASE Sound
  <2>1. Judged' BY <1>1, <1>15, <1>17, JudgedLater DEF Sound
  <2>2. Buffered BY <1>2, <1>17 DEF Sound
  <2>3. ~chunked BY <1>1, <2>2 DEF Buffered
  <2>4. NoEnd(s, b, c) /\ Start(s, c) = Start(s, b) /\ Clear(s, b)
    BY <2>2, <1>4, <1>5, <1>8, NothingEnds
  <2>5. Clear(s, o)
    <3>1. NoEnd(s, b, b + Len(p)) BY <2>4, <1>7, <1>8
    <3> QED BY <3>1, <2>4, <1>7, <1>9, <1>10, <1>11, KeptClear
  <2>6. NoEnd(s, b, o) /\ NoEnd(s, o, c)
    <3>1. \A x \in (b + 1)..o : x \in (b + 1)..c BY <1>11
    <3>2. \A x \in (o + 1)..c : x \in (b + 1)..c BY <1>11
    <3> QED BY <3>1, <3>2, <2>4 DEF NoEnd
  <2>7. Start(s, o) = Start(s, b) /\ At(s, o).events = At(s, b).events
    <3>1. o <= Len(s) BY <1>8, <1>11
    <3> QED BY <3>1, <2>6, <1>11, Steady
  <2>8. Start(s, b) \in 0..b
    <3>1. b \in 0..Len(s) BY <1>8
    <3> QED BY <3>1, StartBelow
  <2>9. c - Start(s, o) > MaxEvent
    <3>1. n > MaxEvent BY <1>1, <1>6, <1>7
    <3> QED BY <3>1, <2>7, <2>8, <1>3, <1>8
  <2>10. Dropped(s, o, c)
    <3>1. c \in o..c BY <1>11
    <3> QED BY <3>1, <2>6, <2>9 DEF Dropped
  <2>11. Buffered'
    <3>1. Len(handed') = Len(At(stream', Origin').events) BY <2>2, <2>7, <1>1, <1>4, <1>5, <1>12 DEF Buffered
    <3>2. NoEnd(stream', Origin', taken') BY <2>6, <1>1, <1>4, <1>8, <1>12
    <3>3. ~chunked' /\ discarded' /\ dropping' BY <2>3, <1>1
    <3>4. Clear(stream', Origin') /\ Dropped(stream', Origin', taken') BY <2>5, <2>10, <1>1, <1>4, <1>8, <1>12
    <3> QED BY <3>1, <3>2, <3>3, <3>4 DEF Buffered
  <2> QED BY <1>1, <1>2, <1>13, <1>14, <2>1, <2>11 DEF Sound
<1> QED BY <1>16, <1>17

LEMMA EventDataType ==
  ASSUME NEW p \in Seq(Bytes), Len(p) > 0 => p[Len(p)] = LF
  PROVE  eventData(p) \in Payloads
<1>1. PICK n \in Nat : n = Len(p) OBVIOUS
<1>2. PICK f : EventTurns(p, f) BY EventDataTurns
<1>3. eventData(p) = f[n].data /\ \A x \in 0..n : f[x] \in Turns(n) BY <1>1, <1>2 DEF EventTurns
<1>4. f[n] \in Turns(n) BY <1>3
<1> QED BY <1>3, <1>4 DEF Turns

\* What drain gives the parser of a whole event.
Delivers(event) ==
  CASE dropping -> <<>>
    [] ~dropping /\ Len(event) > MaxEvent -> Salvage(event)
    [] ~dropping /\ ~ (Len(event) > MaxEvent) -> eventData(event)

LEMMA DeliversType ==
  ASSUME NEW event \in Seq(Bytes), event[Len(event)] = LF
  PROVE  Delivers(event) \in Payloads
<1>1. Salvage(event) \in Payloads BY SalvageType
<1>2. eventData(event) \in Payloads BY EventDataType
<1>3. <<>> \in Payloads BY DEF Payloads
<1>4. CASE dropping BY <1>3, <1>4 DEF Delivers
<1>5. CASE ~dropping /\ Len(event) > MaxEvent BY <1>1, <1>5 DEF Delivers
<1>6. CASE ~dropping /\ ~ (Len(event) > MaxEvent) BY <1>2, <1>6 DEF Delivers
<1> QED BY <1>4, <1>5, <1>6

\* The first i bytes of a buffer that follows the first b bytes of s are an
\* event, the reader's e, which ends after the first j.
Cut(s, b, p, i, j, c, e) ==
  /\ Window(s, b, p) /\ i \in 1..Len(p) /\ j \in 1..Len(p) /\ i < j /\ b + j <= c /\ c <= Len(s) /\ p[i] = LF
  /\ NoEnd(s, b, b + i) /\ NoEnd(s, b, b + j - 1) /\ EndsAt(s, b + j) /\ e = EventOf(At(s, b + j - 1))
  /\ e.data = At(s, b + i).data /\ e.blank = At(s, b + i).blank
  /\ Start(s, b + j - 1) = Start(s, b)
  /\ Start(s, b) = b => e.size = i

\* That is what the parser may get of it.
LEMMA DeliversWhatFits ==
  ASSUME NEW s \in Seq(Bytes), NEW b \in Nat, NEW p, NEW i, NEW j, NEW c \in Nat, NEW e, Cut(s, b, p, i, j, c, e),
         Buffered, s = stream, b = Origin, c = taken,
         chunked => ~ (e.blank /\ (Over(e) \/ MayCountAsOver(e))),
         NEW event, event = SubSeq(p, 1, i), NEW loss, discarded => loss,
         ~dropping /\ Len(event) > MaxEvent /\ ~chunked => loss
  PROVE  Fits(chunked, Delivers(event), e, loss)
<1>0. /\ Window(s, b, p) /\ i \in 1..Len(p) /\ j \in 1..Len(p) /\ i < j /\ b + j <= c /\ c <= Len(s) /\ p[i] = LF
      /\ NoEnd(s, b, b + i) /\ NoEnd(s, b, b + j - 1) /\ EndsAt(s, b + j) /\ e = EventOf(At(s, b + j - 1))
      /\ e.data = At(s, b + i).data /\ e.blank = At(s, b + i).blank
      /\ Start(s, b + j - 1) = Start(s, b)
      /\ Start(s, b) = b => e.size = i
  BY DEF Cut
<1> USE <1>0
<1>1. p \in Seq(Bytes) BY <1>0 DEF Window
<1>2. PICK n \in Nat : n = Len(p) BY <1>1
<1>3. i \in 1..n /\ j \in 1..n /\ i \in Nat /\ j \in Nat /\ i > 0 /\ i \in 0..Len(p)
  <2>1. i \in 1..Len(p) /\ j \in 1..Len(p) BY <1>0
  <2> QED BY <2>1, <1>2
<1>4. Window(s, b, event) /\ Len(event) = i /\ event[i] = LF
  <2>1. i \in 0..Len(p) BY <1>3
  <2>2. Window(s, b, SubSeq(p, 1, i)) /\ Len(SubSeq(p, 1, i)) = i /\ (i > 0 => SubSeq(p, 1, i)[i] = p[i])
    BY <2>1, Pieces
  <2> QED BY <2>2, <1>3
<1>5. MaxEvent \in Nat BY FramerBounds
<1>6. CASE dropping
  <2>1. Delivers(event) = <<>> BY <1>6 DEF Delivers
  <2>2. ~chunked /\ discarded /\ Dropped(s, b, c) BY <1>6 DEF Buffered
  <2>3. PICK d \in b..c : d - Start(s, b) > MaxEvent /\ NoEnd(s, b, d) BY <2>2 DEF Dropped
  <2>4. b + j > d
    <3> SUFFICES ASSUME b + j <= d PROVE FALSE
      BY <2>3, <1>3
    <3>1. b + j \in (b + 1)..d BY <1>3
    <3> QED BY <3>1, <2>3 DEF NoEnd
  <2>5. PICK m \in Nat : m = b + j BY <1>3
  <2>6. m \in 1..Len(s) /\ m - 1 = b + j - 1 /\ b \in 0..Len(s)
    <3>1. PICK k \in Nat : k = Len(s) OBVIOUS
    <3>2. b + j <= k BY <3>1
    <3>3. m \in 1..k /\ m - 1 = b + j - 1 /\ b \in 0..k BY <3>2, <2>5, <1>3
    <3> QED BY <3>1, <3>3
  <2>7. Start(s, b) \in 0..b BY <2>6, StartBelow
  <2>8. m - 1 - Start(s, m - 1) > MaxEvent
    <3>1. Start(s, m - 1) = Start(s, b) BY <2>6
    <3>2. d <= m - 1 BY <2>3, <2>4, <2>5
    <3> QED BY <3>1, <3>2, <2>3, <2>5, <2>7, <1>5
  <2>9. Over(e) \/ MayCountAsOver(e)
    <3>1. EndsAt(s, m) /\ e = EventOf(At(s, m - 1)) BY <2>5, <2>6
    <3> QED BY <3>1, <2>6, <2>8, EventSize
  <2>10. <<>> \in Due(e) BY <2>9 DEF Due
  <2> QED BY <2>1, <2>2, <2>10 DEF Fits
<1>7. ASSUME ~dropping PROVE Start(s, b) = b /\ e.size = i BY <1>7 DEF Buffered
<1>8. CASE ~dropping /\ Len(event) > MaxEvent /\ ~chunked
  <2>1. Delivers(event) = <<>> BY <1>8 DEF Delivers, Salvage
  <2>2. Over(e) BY <1>4, <1>7, <1>8 DEF Over
  <2>3. <<>> \in Due(e) BY <2>2 DEF Due
  <2> QED BY <2>1, <2>3, <1>8 DEF Fits
<1>9. CASE ~dropping /\ Len(event) > MaxEvent /\ chunked
  <2>1. Delivers(event) = Salvage(event) BY <1>9 DEF Delivers
  <2>2. Over(e) BY <1>4, <1>7, <1>9 DEF Over
  <2>3. ~At(s, b + i).blank BY <2>2, <1>9
  <2>4. /\ Start(s, b) = b /\ Len(event) > 0 /\ event[Len(event)] = LF
        /\ NoEnd(s, b, b + Len(event)) /\ ~At(s, b + Len(event)).blank
    BY <2>3, <1>3, <1>4, <1>7, <1>9
  <2>5. Salvage(event) = At(s, b + Len(event)).data BY <2>4, <1>4, <1>9, SalvageIs
  <2> QED BY <2>1, <2>5, <1>4, <1>9 DEF Fits
<1>10. CASE ~dropping /\ ~ (Len(event) > MaxEvent)
  <2>1. Delivers(event) = eventData(event) BY <1>10 DEF Delivers
  <2>2. /\ Start(s, b) = b /\ Len(event) > 0 /\ event[Len(event)] = LF /\ NoEnd(s, b, b + Len(event))
    BY <1>3, <1>4, <1>7, <1>10
  <2>3. eventData(event) = At(s, b + Len(event)).data BY <2>2, <1>4, EventDataIs
  <2>4. Delivers(event) = e.data BY <2>1, <2>3, <1>4
  <2>5. ~Over(e) BY <1>4, <1>7, <1>10 DEF Over
  <2>6. e.data \in Due(e) BY <2>5 DEF Due
  <2> QED BY <2>4, <2>6 DEF Fits
<1> QED BY <1>6, <1>8, <1>9, <1>10

LEMMA DrainEventStep ==
  ASSUME FramerInv, DrainEvent
  PROVE  FramerInv'
<1> USE DEF FramerInv
<1>1. draining /\ EventEnds(buf) # {} BY DEF DrainEvent
<1>2. ~chunking /\ ~stopped BY <1>1 DEF Kept
<1>3. /\ Len(stream) \in Nat /\ taken \in Nat /\ taken <= Len(stream) /\ Len(buf) \in Nat
      /\ Origin \in Nat /\ Origin + Len(buf) = taken /\ Origin <= taken
      /\ MaxEvent \in Nat /\ DelimiterSlack \in Nat
  BY Places
<1>4. PICK s \in Seq(Bytes) : s = stream BY DEF Types
<1>5. PICK b \in Nat : b = Origin BY <1>3
<1>6. PICK p \in Seq(Bytes) : p = buf BY DEF Types
<1>7. PICK n \in Nat : n = Len(p) BY <1>6
<1>8. PICK c \in Nat : c = taken /\ c = b + n /\ c <= Len(s) BY <1>3, <1>4, <1>5, <1>6, <1>7
<1>9. Window(s, b, p) BY <1>4, <1>5, <1>6 DEF Kept
<1>10. PICK i \in 1..Len(p), j \in 1..Len(p) :
         /\ i = First(EventEnds(p)) /\ j = BlankAfter(p, i) /\ i < j /\ p[i] = LF
         /\ nextEvent(p) = [event |-> SubSeq(p, 1, i), rest |-> SubSeq(p, j + 1, Len(p))]
  BY <1>1, <1>6, EndFound
<1>11. /\ i \in 1..n /\ j \in 1..n /\ i \in Nat /\ j \in Nat /\ i > 0 /\ j > 0 /\ i <= n /\ j <= n
       /\ i \in 0..Len(p) /\ j \in 0..Len(p)
  BY <1>7
<1>12. PICK event : event = SubSeq(p, 1, i) OBVIOUS
<1>13. PICK rest : rest = SubSeq(p, j + 1, Len(p)) OBVIOUS
<1>14. event \in Seq(Bytes) /\ Len(event) = i /\ event[i] = LF
  <2>1. Window(s, b, event) /\ Len(event) = i /\ (i > 0 => event[i] = p[i]) BY <1>9, <1>11, <1>12, Pieces
  <2> QED BY <2>1, <1>10, <1>11 DEF Window
<1>15. Window(s, b + j, rest) /\ Len(rest) = n - j BY <1>7, <1>9, <1>11, <1>13, Pieces
<1>16. PICK payload \in Payloads : payload = Delivers(event) BY <1>14, DeliversType
<1>17. /\ handed' = Append(handed, payload) /\ dropping' = FALSE
       /\ UNCHANGED <<stream, taken, chunked, chunking, lexer>>
       /\ discarded' = (discarded \/ (~dropping /\ Len(event) > MaxEvent /\ ~chunked))
       /\ Stops(payload) => stopped' = TRUE /\ draining' = FALSE /\ buf' = <<>>
       /\ ~Stops(payload) => buf' = rest /\ stopped' = stopped /\ draining' = draining
  <2>1. nextEvent(buf).event = event /\ nextEvent(buf).rest = rest
    <3>1. nextEvent(p) = [event |-> event, rest |-> rest] BY <1>10, <1>12, <1>13
    <3>2. nextEvent(p).event = event /\ nextEvent(p).rest = rest BY <3>1
    <3> QED BY <3>2, <1>6
  <2>2. /\ EndEvent(Delivers(event), rest) /\ dropping' = FALSE
        /\ UNCHANGED <<stream, taken, chunked, chunking, lexer>>
        /\ discarded' = (discarded \/ (~dropping /\ Len(event) > MaxEvent /\ ~chunked))
    BY <2>1 DEF DrainEvent, Delivers
  <2>3. EndEvent(payload, rest) BY <2>2, <1>16
  <2> QED BY <2>2, <2>3 DEF EndEvent
<1>18. stopped' <=> Stops(payload) BY <1>2, <1>17
<1>19. PICK o \in Nat : o = b + j BY <1>11
<1>20. o <= c /\ b <= o BY <1>8, <1>11, <1>19
<1>21. Len(<<>>) = 0 OBVIOUS
<1>22. ~stopped' => Origin' = o /\ buf' = rest
  <2>1. ASSUME ~stopped' PROVE Origin' = o /\ buf' = rest
    <3>1. buf' = rest BY <1>17, <1>18, <2>1
    <3>2. Origin' = c - (n - j) BY <3>1, <1>8, <1>15, <1>17 DEF Origin
    <3> QED BY <3>1, <3>2, <1>8, <1>11, <1>19
  <2> QED BY <2>1
<1>23. Types'
  <2>1. buf' \in Seq(Bytes)
    <3>1. rest \in Seq(Bytes) /\ <<>> \in Seq(Bytes) BY <1>15 DEF Window
    <3> QED BY <3>1, <1>17
  <2>2. handed' \in Seq(Payloads)
    <3>1. handed \in Seq(Payloads) BY DEF Types
    <3> QED BY <3>1, <1>17
  <2>3. {discarded', dropping', stopped', draining'} \subseteq BOOLEAN BY <1>17 DEF Types
  <2> QED BY <2>1, <2>2, <2>3, <1>17 DEF Types
<1>24. Kept'
  <2>1. CASE Stops(payload)
    <3>1. buf' = <<>> /\ ~draining' /\ Len(buf') = 0 /\ stopped' /\ ~chunking' BY <2>1, <1>2, <1>17, <1>21
    <3>2. Origin' = c
      <4>1. taken' = taken BY <1>17
      <4>2. taken' = c BY <4>1, <1>8
      <4>3. c - 0 = c OBVIOUS
      <4> QED BY <4>2, <4>3, <3>1 DEF Origin
    <3>3. Window(s, c, <<>>)
      <4>1. <<>> \in Seq(Bytes) OBVIOUS
      <4>2. c + 0 <= Len(s) BY <1>8
      <4> QED BY <4>1, <4>2, <1>21 DEF Window
    <3>4. Window(stream', Origin', buf') BY <3>1, <3>2, <3>3, <1>4, <1>17
    <3>5. Len(buf') <= MaxEvent + DelimiterSlack /\ Len(buf') <= 2 BY <3>1, <1>3
    <3> QED BY <3>1, <3>2, <3>4, <3>5 DEF Kept
  <2>2. CASE ~Stops(payload)
    <3>1. buf' = rest /\ draining' /\ ~stopped' /\ ~chunking' BY <2>2, <1>1, <1>2, <1>17
    <3>2. Origin' = o BY <3>1, <1>22
    <3>3. Window(stream', Origin', buf') BY <3>1, <3>2, <1>4, <1>15, <1>17, <1>19
    <3>4. n <= MaxEvent + DelimiterSlack BY <1>6, <1>7 DEF Kept
    <3>5. Len(buf') <= MaxEvent + DelimiterSlack BY <3>1, <3>4, <1>3, <1>11, <1>15
    <3> QED BY <3>1, <3>2, <3>3, <3>5 DEF Kept
  <2> QED BY <2>1, <2>2
<1>25. taken' \in taken..Len(stream) BY <1>3, <1>17
<1>26. CASE Misread BY <1>17, <1>23, <1>24, <1>25, <1>26, MisreadRemains
<1>27. CASE Sound /\ ~Misread
  <2>1. Buffered /\ Judged BY <1>2, <1>27 DEF Sound
  <2>2. Clear(s, b)
    <3>1. CASE dropping BY <2>1, <3>1, <1>4, <1>5 DEF Buffered
    <3>2. CASE ~dropping
      <4>1. Start(s, b) = b BY <2>1, <3>2, <1>4, <1>5 DEF Buffered
      <4>2. ~ (b > b) /\ ~ (b - 1 > b) OBVIOUS
      <4> QED BY <4>1, <4>2 DEF Clear
    <3> QED BY <3>1, <3>2
  <2>3. /\ \A x \in (i + 1)..(j - 1) : p[x] # LF
        /\ NoEnd(s, b, b + j - 1) /\ EndsAt(s, b + j)
    <3>1. EventEnds(p) # {} BY <1>1, <1>6
    <3>2. PICK x \in 1..Len(p) : \E y \in 1..Len(p) :
             /\ x = First(EventEnds(p)) /\ y = BlankAfter(p, x)
             /\ \A z \in (x + 1)..(y - 1) : p[z] # LF
             /\ NoEnd(s, b, b + y - 1) /\ EndsAt(s, b + y)
      BY <3>1, <2>2, <1>9, NextEventEnds
    <3>3. x = i BY <3>2, <1>10
    <3> QED BY <3>2, <3>3, <1>10
  <2>4. PICK e \in Events :
          /\ e = EventOf(At(s, b + j - 1)) /\ At(s, b + j).events = Append(At(s, b).events, e)
          /\ e.data = At(s, b + i).data /\ e.blank = At(s, b + i).blank
          /\ Start(s, b + j) = b + j /\ Start(s, b + j - 1) = Start(s, b)
          /\ Start(s, b) = b => e.size = i
          /\ NoEnd(s, b, b + i)
    <3>1. i \in 1..Len(p) /\ j \in 1..Len(p) /\ i < j /\ p[i] = LF BY <1>10
    <3> QED BY <3>1, <2>3, <1>9, EndedEvent
  <2>5. PICK es \in Seq(Events) : es = At(s, b).events
    <3>1. b \in 0..Len(s) BY <1>8, <1>11, <1>19, <1>20
    <3> QED BY <3>1, Hearing, ReaderFields
  <2>6. PICK fs : fs = At(s, o).events OBVIOUS
  <2>7. PICK m \in Nat : m = Len(handed) + 1 BY DEF Types
  <2>8. Len(handed) = Len(es) BY <2>1, <2>5, <1>4, <1>5 DEF Buffered
  <2>9. fs = Append(es, e) BY <2>4, <2>5, <2>6, <1>19
  <2>10. Len(fs) = m /\ fs[m] = e BY <2>7, <2>8, <2>9
  <2>11. PICK gs : gs = At(s, c).events OBVIOUS
  <2>12. m \in 1..Len(fs) /\ m <= Len(gs) /\ gs[m] = e
    <3>1. m \in 1..Len(fs) BY <2>7, <2>10
    <3>2. Len(fs) <= Len(gs) /\ \A x \in 1..Len(fs) : gs[x] = fs[x] BY <2>6, <2>11, <1>8, <1>20, Earlier
    <3> QED BY <3>1, <3>2, <2>10
  <2>13. ASSUME chunked PROVE ~ (e.blank /\ (Over(e) \/ MayCountAsOver(e)))
    <3> SUFFICES ASSUME e.blank, Over(e) \/ MayCountAsOver(e) PROVE FALSE
      OBVIOUS
    <3>1. gs \in Seq(Events)
      <4>1. c \in 0..Len(s) BY <1>8
      <4> QED BY <4>1, <2>11, Hearing, ReaderFields
    <3>2. m \in 1..Len(gs) /\ m \in DOMAIN gs
      <4>1. Len(gs) \in Nat BY <3>1
      <4>2. m \in 1..Len(gs) BY <4>1, <2>7, <2>12
      <4> QED BY <4>2, <3>1
    <3>3. gs[m].blank /\ (Over(gs[m]) \/ MayCountAsOver(gs[m])) BY <2>12
    <3>4. MisreadIn(At(s, c)) BY <3>2, <3>3, <2>11 DEF MisreadIn
    <3> QED BY <3>4, <2>13, <1>4, <1>8, <1>27, ReadingAt DEF Misread
  <2>14. Fits(chunked, payload, e, discarded')
    <3>1. discarded => discarded' BY <1>17
    <3>2. ~dropping /\ Len(event) > MaxEvent /\ ~chunked => discarded' BY <1>17
    <3>3. b + j <= c BY <1>19, <1>20
    <3>5. PICK loss : loss = discarded' OBVIOUS
    <3>6. Cut(s, b, p, i, j, c, e)
      <4>1. i \in 1..Len(p) /\ j \in 1..Len(p) /\ i < j /\ p[i] = LF BY <1>10
      <4>2. c <= Len(s) BY <1>8
      <4>3. /\ e = EventOf(At(s, b + j - 1)) /\ e.data = At(s, b + i).data /\ e.blank = At(s, b + i).blank
            /\ Start(s, b + j - 1) = Start(s, b) /\ NoEnd(s, b, b + i)
        BY <2>4
      <4>4. Start(s, b) = b => e.size = i BY <2>4
      <4>5. NoEnd(s, b, b + j - 1) /\ EndsAt(s, b + j) BY <2>3
      <4> QED BY <3>3, <4>1, <4>2, <4>3, <4>4, <4>5, <1>9 DEF Cut
    <3>7. (discarded => loss) /\ (~dropping /\ Len(event) > MaxEvent /\ ~chunked => loss) BY <3>1, <3>2, <3>5
    <3>8. s = stream /\ b = Origin /\ c = taken BY <1>4, <1>5, <1>8
    <3>10. chunked => ~ (e.blank /\ (Over(e) \/ MayCountAsOver(e))) BY <2>13
    <3>11. Fits(chunked, Delivers(event), e, loss)
      BY <2>1, <3>6, <3>7, <3>8, <3>10, <1>12, DeliversWhatFits
    <3>4. Fits(chunked, Delivers(event), e, discarded') BY <3>5, <3>11
    <3> QED BY <3>4, <1>16
  <2>15. Judged'
    <3>1. UNCHANGED <<stream, chunked>> /\ (discarded => discarded') BY <1>17
    <3>2. m <= Len(At(stream, taken').events) /\ At(stream, taken').events[m] = e
      BY <2>11, <2>12, <1>4, <1>8, <1>17
    <3>3. handed' = Append(handed, payload) BY <1>17
    <3> QED BY <2>1, <2>7, <2>14, <3>1, <3>2, <3>3, <1>2, <1>18, <1>25, JudgedMore
  <2>16. ASSUME ~stopped' PROVE ~chunking' /\ Buffered'
    <3>1. Origin' = o /\ buf' = rest BY <2>16, <1>22
    <3>2. ~chunking' /\ draining' BY <2>16, <1>1, <1>2, <1>17, <1>18
    <3>3. Len(handed') = m
      <4>1. handed \in Seq(Payloads) BY DEF Types
      <4> QED BY <4>1, <2>7, <1>17
    <3>4. Len(handed') = Len(At(stream', Origin').events) BY <3>1, <3>3, <2>6, <2>10, <1>4, <1>17
    <3>5. ~dropping' /\ Start(stream', Origin') = Origin' BY <3>1, <2>4, <1>4, <1>17, <1>19
    <3> QED BY <3>2, <3>4, <3>5 DEF Buffered
  <2> QED BY <2>15, <2>16, <1>23, <1>24 DEF Sound
<1> QED BY <1>26, <1>27

LEMMA WiderSeq ==
  ASSUME NEW A, NEW B, A \subseteq B, NEW t \in Seq(A)
  PROVE  t \in Seq(B)
<1>1. \A i \in 1..Len(t) : t[i] \in B OBVIOUS
<1> QED BY <1>1

LEMMA FramerInvInit ==
  ASSUME FramerInit
  PROVE  FramerInv
<1> USE DEF FramerInit
<1>1. STRING \subseteq Bytes BY DEF Bytes
<1>2. PICK s \in Seq(Bytes) : s = stream
  <2>1. PICK t \in Seq(STRING) : t = stream BY StreamsAssumption
  <2>3. t \in Seq(Bytes) BY <1>1, WiderSeq
  <2> QED BY <2>1, <2>3
<1>3. <<>> \in Seq(Bytes) /\ <<>> \in Seq(Payloads) /\ Len(<<>>) = 0 OBVIOUS
<1>4. 0 \in 0..Len(s) OBVIOUS
<1>5. Types
  <2>1. lexer \in Lexers BY FirstLexer
  <2>2. taken \in 0..Len(stream) BY <1>2, <1>4
  <2>3. {chunked, discarded, dropping, stopped, chunking, draining} \subseteq BOOLEAN OBVIOUS
  <2> QED BY <2>1, <2>2, <2>3, <1>2, <1>3 DEF Types
<1>6. Origin = 0
  <2>1. 0 - 0 = 0 OBVIOUS
  <2>2. taken = 0 /\ Len(buf) = 0 BY <1>3
  <2> QED BY <2>1, <2>2 DEF Origin
<1>7. Kept
  <2>1. Window(s, 0, <<>>)
    <3>1. 0 + 0 <= Len(s) BY <1>4
    <3> QED BY <3>1, <1>3 DEF Window
  <2>2. MaxEvent \in Nat /\ DelimiterSlack \in Nat BY FramerBounds
  <2> QED BY <2>1, <2>2, <1>2, <1>3, <1>6 DEF Kept
<1>8. At(s, 0) = Silence BY Hearing
<1>9. Silence.events = <<>> /\ Silence.size = 0 /\ Silence.line = <<>> BY DEF Silence
<1>10. Judged
  <2>1. Reading.events = <<>> BY <1>2, <1>8, <1>9, ReadingAt
  <2>2. \A i \in 1..0 : FALSE OBVIOUS
  <2> QED BY <2>1, <2>2, <1>3 DEF Judged, Verdicts
<1>11. Buffered
  <2>1. Start(s, 0) = 0
    <3>1. 0 - (0 + 0) = 0 OBVIOUS
    <3> QED BY <3>1, <1>3, <1>8, <1>9 DEF Start
  <2>2. NoEnd(s, 0, 0)
    <3>1. \A m \in (0 + 1)..0 : FALSE OBVIOUS
    <3> QED BY <3>1 DEF NoEnd
  <2> QED BY <2>1, <2>2, <1>2, <1>3, <1>6, <1>8, <1>9 DEF Buffered
<1> QED BY <1>5, <1>7, <1>10, <1>11 DEF FramerInv, Sound

LEMMA DrainRestStep ==
  ASSUME FramerInv, DrainRest
  PROVE  FramerInv'
<1>1. /\ draining /\ EventEnds(buf) = {} /\ draining' = FALSE /\ UNCHANGED <<stream, taken, chunked, stopped, handed>>
  BY DEF DrainRest
<1>2. CASE Keep BY <1>1, <1>2, KeepStep
<1>3. CASE StartChunking BY <1>1, <1>3, StartChunkingStep
<1>4. CASE discardKeepingDelimiterState BY <1>1, <1>4, DiscardStep
<1> QED BY <1>2, <1>3, <1>4 DEF DrainRest

LEMMA FramerInvStep ==
  ASSUME FramerInv, [FramerNext]_framerVars
  PROVE  FramerInv'
<1>1. CASE taken < Len(stream) /\ LexOne BY <1>1, LexOneStep
<1>2. CASE taken < Len(stream) /\ Ignore BY <1>2, IgnoreStep
<1>3. ASSUME NEW n \in 1..Len(stream) - taken, TakeChunk(n) PROVE FramerInv' BY <1>3, TakeChunkStep
<1>4. CASE DrainRest BY <1>4, DrainRestStep
<1>5. CASE DrainEvent BY <1>5, DrainEventStep
<1>6. CASE UNCHANGED framerVars
  <2>1. UNCHANGED <<stream, taken, chunked, buf, discarded, dropping, stopped, chunking, lexer, draining, handed>>
    BY <1>6 DEF framerVars
  <2>2. (Reading)' = Reading BY <2>1 DEF Reading
  <2>3. Origin' = Origin BY <2>1 DEF Origin
  <2>4. Types' <=> Types BY <2>1 DEF Types
  <2>5. Kept' <=> Kept BY <2>1, <2>3 DEF Kept
  <2>6. Misread' <=> Misread BY <2>1, <2>2 DEF Misread, MisreadIn, Over, MayCountAsOver
  <2>7. Judged' <=> Judged BY <2>1, <2>2 DEF Judged
  <2>8. InLexer' <=> InLexer BY <2>1, <2>2 DEF InLexer
  <2>9. Buffered' <=> Buffered BY <2>1, <2>3 DEF Buffered
  <2>10. Sound' <=> Sound BY <2>1, <2>7, <2>8, <2>9 DEF Sound
  <2> QED BY <2>4, <2>5, <2>6, <2>10 DEF FramerInv
<1> QED BY <1>1, <1>2, <1>3, <1>4, <1>5, <1>6 DEF FramerNext

\* What the verdicts say of the parser.
LEMMA InOrder ==
  ASSUME Types, Kept, Sound
  PROVE  HandedInOrder
<1>1. handed \in Seq(Payloads) /\ DOMAIN handed = 1..Len(handed) BY DEF Types
<1>2. Len(handed) <= Len(Reading.events) BY DEF Sound, Judged, Verdicts
<1>3. \A i \in DOMAIN handed : Stops(handed[i]) <=> stopped /\ i = Len(handed)
  BY <1>1 DEF Sound, Judged, Verdicts
<1>4. ASSUME ~stopped, ~draining PROVE Len(handed) = Len(Reading.events)
  <2>1. CASE chunking BY <2>1, <1>4 DEF Sound, InLexer
  <2>2. CASE ~chunking
    <3>1. Buffered /\ NoEnd(stream, Origin, taken) BY <2>2, <1>4 DEF Sound, Buffered
    <3>2. PICK s \in Seq(Bytes) : s = stream BY DEF Types
    <3>3. PICK b \in Nat : b = Origin BY Places
    <3>4. PICK c \in Nat : c = taken BY Places
    <3>5. b <= c /\ c <= Len(s) BY <3>2, <3>3, <3>4, Places
    <3>6. NoEnd(s, b, c) BY <3>1, <3>2, <3>3, <3>4
    <3>7. At(s, c).events = At(s, b).events BY <3>5, <3>6, Steady
    <3> QED BY <3>1, <3>2, <3>3, <3>4, <3>7, ReadingAt DEF Buffered
  <2> QED BY <2>1, <2>2
<1> QED BY <1>2, <1>3, <1>4 DEF HandedInOrder

LEMMA PendingFollows ==
  ASSUME Types, Kept, Sound, ~stopped, ~draining
  PROVE  pending <=> Reading.size > 0 \/ Reading.line # <<>>
<1>1. PICK s \in Seq(Bytes) : s = stream BY DEF Types
<1>2. PICK b \in Nat : b = Origin BY Places
<1>3. PICK c \in Nat : c = taken BY Places
<1>4. PICK n \in Nat : n = Len(buf) BY Places
<1>5. b <= c /\ c <= Len(s) /\ b + n = c BY <1>1, <1>2, <1>3, <1>4, Places
<1>6. c \in 0..Len(s) /\ b \in 0..Len(s)
  <2>1. PICK k \in Nat : k = Len(s) OBVIOUS
  <2> QED BY <2>1, <1>5
<1>7. PICK r \in Readers : r = At(s, c) BY <1>6, Hearing
<1>8. Reading = r BY <1>1, <1>3, <1>7, ReadingAt
<1>9. PICK a \in Nat : a = Start(s, c) /\ a <= c /\ r.size + Len(r.line) = c - a
  <2>1. Start(s, c) \in 0..c /\ At(s, c).size + Len(At(s, c).line) = c - Start(s, c) BY <1>6, StartBelow
  <2> QED BY <2>1, <1>7
<1>10. PICK z \in Nat : z = r.size BY ReaderFields
<1>11. PICK l \in Nat : l = Len(r.line) /\ (r.line = <<>> <=> l = 0)
  <2>1. r.line \in Seq(Bytes) BY ReaderFields
  <2> QED BY <2>1
<1>12. Reading.size > 0 \/ Reading.line # <<>> <=> c > a
  <2>1. z + l = c - a BY <1>9, <1>10, <1>11
  <2>2. z > 0 \/ l # 0 <=> c > a BY <2>1, <1>9
  <2> QED BY <2>2, <1>8, <1>10, <1>11
<1>13. CASE chunking
  <2>1. c - a > MaxEvent BY <1>1, <1>3, <1>9, <1>13 DEF Sound, InLexer
  <2>2. c > a BY <2>1, <1>9, FramerBounds
  <2> QED BY <2>2, <1>12, <1>13 DEF pending
<1>14. CASE ~chunking
  <2>1. Buffered /\ NoEnd(s, b, c) BY <1>1, <1>2, <1>3, <1>14 DEF Sound, Buffered
  <2>2. Start(s, b) = a BY <2>1, <1>5, <1>9, Steady
  <2>3. CASE dropping
    <3>1. Dropped(s, b, c) BY <2>1, <2>3, <1>1, <1>2, <1>3 DEF Buffered
    <3>2. PICK d \in b..c : d - a > MaxEvent BY <3>1, <2>2 DEF Dropped
    <3>3. MaxEvent \in Nat BY FramerBounds
    <3>4. c > a BY <3>2, <3>3, <1>5, <1>9
    <3> QED BY <3>4, <2>3, <1>12 DEF pending
  <2>4. CASE ~dropping
    <3>1. a = b BY <2>1, <2>2, <2>4, <1>1, <1>2 DEF Buffered
    <3>2. c > a <=> n # 0 BY <3>1, <1>5
    <3>3. buf # <<>> <=> n # 0
      <4>1. buf \in Seq(Bytes) BY DEF Types
      <4> QED BY <4>1, <1>4
    <3> QED BY <3>2, <3>3, <2>4, <1>12, <1>14 DEF pending
  <2> QED BY <2>3, <2>4
<1> QED BY <1>13, <1>14

\* What the invariant says of every reachable state.
LEMMA FramerInvIsExact ==
  ASSUME FramerInv
  PROVE  FramesAreExact
<1>1. Types /\ Kept /\ (Misread \/ Sound) BY DEF FramerInv
<1>2. handed \in Seq(Payloads) /\ DOMAIN handed = 1..Len(handed) BY <1>1 DEF Types
<1>3. ASSUME Sound, NEW i \in DOMAIN handed PROVE Fits(chunked, handed[i], Reading.events[i], discarded)
  BY <1>2, <1>3 DEF Sound, Judged, Verdicts
<1>4. EventsWithinCapArrive
  <2> SUFFICES ASSUME ~chunked
               PROVE  /\ HandedInOrder
                      /\ \A i \in DOMAIN handed :
                           LET e == Reading.events[i]
                           IN  handed[i] \in Due(e) /\ (handed[i] # e.data => discarded)
    BY DEF EventsWithinCapArrive
  <2>1. Sound BY <1>1 DEF Misread
  <2>2. HandedInOrder BY <2>1, <1>1, InOrder
  <2> QED BY <2>1, <2>2, <1>3 DEF Fits
<1>5. EveryEventArrives
  <2> SUFFICES ASSUME chunked, ~Misread
               PROVE  HandedInOrder /\ \A i \in DOMAIN handed : handed[i] = Reading.events[i].data
    BY DEF EveryEventArrives
  <2>1. Sound BY <1>1
  <2>2. HandedInOrder BY <2>1, <1>1, InOrder
  <2> QED BY <2>1, <2>2, <1>3 DEF Fits
<1>6. PendingIsExact
  <2> SUFFICES ASSUME ~stopped, ~draining, ~Misread
               PROVE  pending <=> Reading.size > 0 \/ Reading.line # <<>>
    BY DEF PendingIsExact
  <2> QED BY <1>1, PendingFollows
<1>7. BufferIsBounded BY <1>1 DEF Kept, BufferIsBounded
<1> QED BY <1>4, <1>5, <1>6, <1>7 DEF FramesAreExact

THEOREM FramesExact == FramerSpec => []FramesAreExact
<1>1. FramerInit => FramerInv BY FramerInvInit
<1>2. FramerInv /\ [FramerNext]_framerVars => FramerInv' BY FramerInvStep
<1>3. FramerInv => FramesAreExact BY FramerInvIsExact
<1> QED BY <1>1, <1>2, <1>3, PTL DEF FramerSpec

\* The first line of p is blank.
BeginsBlank(p) ==
  \/ Len(p) >= 1 /\ p[1] = LF
  \/ Len(p) >= 2 /\ p[1] = CR /\ p[2] = LF

LEMMA BlankIsFirst ==
  ASSUME NEW p \in Seq(Bytes), NoEnd(p, 0, Len(p)), At(p, Len(p)).blank
  PROVE  BeginsBlank(p)
<1>1. PICK n \in Nat : n = Len(p) OBVIOUS
<1> DEFINE S == {m \in 0..n : At(p, m).blank = TRUE => BeginsBlank(p) = TRUE}
<1>2. BeginsBlank(p) \in BOOLEAN BY DEF BeginsBlank
<1>3. Start(p, 0) = 0 /\ At(p, 0).blank = FALSE
  <2>1. At(p, 0) = Silence BY Hearing
  <2>2. Silence.size = 0 /\ Silence.line = <<>> /\ Silence.blank = FALSE BY DEF Silence
  <2>3. Len(<<>>) = 0 /\ 0 - (0 + 0) = 0 OBVIOUS
  <2> QED BY <2>1, <2>2, <2>3 DEF Start
<1>4. 0 \in S
  <2>1. 0 \in 0..n OBVIOUS
  <2> QED BY <2>1, <1>3
<1>5. ASSUME NEW m \in 1..n, m - 1 \in S PROVE m \in S
  <2>1. m \in 1..Len(p) /\ m - 1 \in 0..Len(p) /\ m \in 0..Len(p) /\ m \in Nat /\ m - 1 \in Nat BY <1>1
  <2>2. PICK r \in Readers : r = At(p, m - 1) BY <2>1, Hearing
  <2>3. PICK x \in Bytes : x = p[m] BY <2>1
  <2>4. At(p, m) = Hears(r, x) BY <2>1, <2>2, <2>3, Hearing
  <2>5. ~Ends(r, x)
    <3>1. m \in (0 + 1)..Len(p) BY <2>1
    <3> QED BY <3>1, <2>2, <2>3 DEF NoEnd, EndsAt
  <2>6. r.blank = TRUE => BeginsBlank(p) = TRUE BY <1>5, <2>2
  <2>7. Start(p, m - 1) = 0
    <3>1. NoEnd(p, 0, m - 1)
      <4>1. \A y \in (0 + 1)..(m - 1) : y \in (0 + 1)..Len(p) BY <2>1
      <4> QED BY <4>1 DEF NoEnd
    <3>2. 0 \in Nat /\ 0 <= m - 1 /\ m - 1 <= Len(p) BY <2>1
    <3> QED BY <3>1, <3>2, <2>1, <1>3, Steady
  <2> HIDE DEF S
  <2>8. ASSUME x = LF, r.size = 0, Blank(r.line) PROVE BeginsBlank(p)
    <3>1. PICK line \in Seq(Bytes) : line = r.line BY ReaderFields
    <3>2. PICK l \in Nat : l = Len(line) OBVIOUS
    <3>3. r.size + Len(r.line) = m - 1 - Start(p, m - 1) BY <2>1, <2>2, StartBelow
    <3>4. l = m - 1 BY <3>1, <3>2, <3>3, <2>7, <2>8, <2>1
    <3>5. CASE line = <<>>
      <4>1. l = 0 BY <3>2, <3>5
      <4>2. m = 1 BY <4>1, <3>4, <2>1
      <4>3. Len(p) >= 1 /\ p[1] = LF BY <4>2, <2>1, <2>3, <2>8
      <4> QED BY <4>3 DEF BeginsBlank
    <3>6. CASE line = <<CR>>
      <4>1. l = 1 /\ line[1] = CR BY <3>2, <3>6
      <4>2. m = 2 BY <4>1, <3>4, <2>1
      <4>3. p[2] = LF /\ Len(p) >= 2 BY <4>2, <2>1, <2>3, <2>8
      <4>4. Shape(p, m - 1) BY <2>1, Shapes
      <4>5. \A i \in 1..Len(line) : line[i] = p[m - 1 - Len(line) + i] BY <4>4, <3>1, <2>2 DEF Shape
      <4>6. 1 \in 1..Len(line) /\ m - 1 - Len(line) + 1 = 1
        <5>1. Len(line) = 1 BY <4>1, <3>2
        <5>2. 2 - 1 - 1 + 1 = 1 /\ 1 \in 1..1 OBVIOUS
        <5> QED BY <5>1, <5>2, <4>2
      <4>7. p[1] = CR BY <4>1, <4>5, <4>6
      <4> QED BY <4>3, <4>7 DEF BeginsBlank
    <3> QED BY <3>1, <3>5, <3>6, <2>8 DEF Blank
  <2>9. Hears(r, x).blank = TRUE => r.blank = TRUE \/ (x = LF /\ r.size = 0 /\ Blank(r.line))
    BY <2>5, HearsFields
  <2>10. At(p, m).blank = TRUE => BeginsBlank(p) = TRUE BY <2>4, <2>6, <2>8, <2>9, <1>2
  <2> QED BY <2>1, <2>10, <1>1 DEF S
<1>6. n \in S
  <2> HIDE DEF S
  <2>1. 0 \in Nat /\ n \in Nat /\ 0 <= n /\ \A m \in (0 + 1)..n : m - 1 \in S => m \in S BY <1>5
  <2> QED BY <2>1, <1>4, Onwards
<1>7. At(p, n).blank = TRUE
  <2>1. n \in 0..Len(p) BY <1>1
  <2>2. At(p, n).blank \in BOOLEAN BY <2>1, Hearing, ReaderFields
  <2> QED BY <2>2, <1>1
<1> QED BY <1>6, <1>7

\* What an event salvaged in one piece yields is what eventData yields, unless
\* the event begins with a blank line (sse.go: the oversized lexer emits
\* "exactly as eventData would have produced it").
THEOREM SalvageAgrees ==
  ASSUME NEW p \in Seq(Bytes), Len(p) > 0, p[Len(p)] = LF, EventEnds(p) = {}, ~BeginsBlank(p), chunked
  PROVE  Salvage(p) = eventData(p)
<1>1. PICK n \in Nat : n = Len(p) OBVIOUS
<1>2. Window(p, 0, p)
  <2>1. 0 \in Nat /\ 0 + n <= n /\ \A i \in 1..n : p[i] = p[0 + i] OBVIOUS
  <2> QED BY <2>1, <1>1 DEF Window
<1>3. Start(p, 0) = 0
  <2>1. At(p, 0) = Silence BY Hearing
  <2>2. Silence.size = 0 /\ Silence.line = <<>> BY DEF Silence
  <2>3. Len(<<>>) = 0 /\ 0 - (0 + 0) = 0 OBVIOUS
  <2> QED BY <2>1, <2>2, <2>3 DEF Start
<1>4. Clear(p, 0)
  <2>1. ~ (0 > 0) /\ ~ (0 - 1 > 0) OBVIOUS
  <2> QED BY <2>1, <1>3 DEF Clear
<1>5. NoEnd(p, 0, 0 + Len(p)) BY <1>2, <1>4, NoEventEnds
<1>6. 0 + Len(p) = Len(p) /\ 0 \in Nat BY <1>1
<1>7. ~At(p, Len(p)).blank BY <1>5, <1>6, BlankIsFirst
<1>8. Salvage(p) = At(p, 0 + Len(p)).data BY <1>2, <1>3, <1>5, <1>6, <1>7, SalvageIs
<1>9. eventData(p) = At(p, 0 + Len(p)).data BY <1>2, <1>3, <1>5, <1>6, EventDataIs
<1> QED BY <1>8, <1>9
=============================================================================
