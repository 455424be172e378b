--------------------------- MODULE ObservationProofs ---------------------------
(***************************************************************************)
(* Theorems about ObservationHandle, for any number of calls, any inputs   *)
(* and any limits.  What a loop over attributes computes is followed turn  *)
(* by turn: a loop whose turns stay in a set ends in it.                   *)
(***************************************************************************)
EXTENDS ObservationHandle, Loops, FiniteSetTheorems, TLAPS

-----------------------------------------------------------------------------
(* What every turn of the budget's loop keeps, the budget keeps.           *)
LEMMA FitLoop ==
  ASSUME NEW X, NEW attrs, NEW sz, NEW used, Len(attrs) \in Nat, Account(sz, used) \in X,
         \A i \in 1..Len(attrs), acc \in X : fitOne(acc, attrs[i]) \in X
  PROVE  fitObservationAttributeBudget(attrs, sz, used) \in X
<1> DEFINE n == Len(attrs)
           step == [i \in 1..n |-> [acc \in X |-> fitOne(acc, attrs[i])]]
           after[i \in 0..n] == IF i = 0 THEN Account(sz, used) ELSE fitOne(after[i - 1], attrs[i])
<1>1. PICK f : Loop(f, X, Account(sz, used), step, n)
  <2>1. step \in [1..n -> [X -> X]] OBVIOUS
  <2> HIDE DEF step
  <2> QED BY <2>1, LoopEnds
<1>2. f = [i \in 0..n |-> IF i = 0 THEN Account(sz, used) ELSE fitOne(f[i - 1], attrs[i])]
  <2>1. \A i \in 0..n : f[i] = IF i = 0 THEN Account(sz, used) ELSE fitOne(f[i - 1], attrs[i])
    <3> TAKE i \in 0..n
    <3>1. CASE i = 0 BY <3>1, <1>1 DEF Loop
    <3>2. CASE i \in 1..n
      <4>1. i - 1 \in 0..n BY <3>2
      <4>2. f[i - 1] \in X BY <4>1, <1>1 DEF Loop
      <4>3. f[i] = step[i][f[i - 1]] BY <3>2, <1>1 DEF Loop
      <4> QED BY <4>2, <4>3, <3>2
    <3> QED BY <3>1, <3>2
  <2>2. f \in [0..n -> X] BY <1>1 DEF Loop
  <2> QED BY <2>1, <2>2
<1>3. after = [i \in 0..n |-> IF i = 0 THEN Account(sz, used) ELSE fitOne(after[i - 1], attrs[i])]
  BY <1>2
<1>4. fitObservationAttributeBudget(attrs, sz, used) = after[n]
  BY DEF fitObservationAttributeBudget
<1> HIDE DEF after
<1>5. after[0] \in X BY <1>3
<1>6. \A i \in 1..n : after[i - 1] \in X => after[i] \in X
  <2> TAKE i \in 1..n
  <2>1. after[i] = fitOne(after[i - 1], attrs[i]) BY <1>3
  <2> QED BY <2>1
<1>7. \A i \in 0..n : after[i] \in X BY <1>5, <1>6, LoopStays
<1> QED BY <1>4, <1>7

(* The same of the loop that drops metadata keys without room,             *)
LEMMA WithinLoop ==
  ASSUME NEW X, NEW attrs, Len(attrs) \in Nat, <<>> \in X,
         \A i \in 1..Len(attrs), acc \in X : Passing(acc, attrs[i]) \in X
  PROVE  WithinMetadata(attrs) \in X
<1> DEFINE n == Len(attrs)
           step == [i \in 1..n |-> [acc \in X |-> Passing(acc, attrs[i])]]
           passed[i \in 0..n] == IF i = 0 THEN <<>> ELSE Passing(passed[i - 1], attrs[i])
<1>1. PICK f : Loop(f, X, <<>>, step, n)
  <2>1. step \in [1..n -> [X -> X]] OBVIOUS
  <2> HIDE DEF step
  <2> QED BY <2>1, LoopEnds
<1>2. f = [i \in 0..n |-> IF i = 0 THEN <<>> ELSE Passing(f[i - 1], attrs[i])]
  <2>1. \A i \in 0..n : f[i] = IF i = 0 THEN <<>> ELSE Passing(f[i - 1], attrs[i])
    <3> TAKE i \in 0..n
    <3>1. CASE i = 0 BY <3>1, <1>1 DEF Loop
    <3>2. CASE i \in 1..n
      <4>1. i - 1 \in 0..n BY <3>2
      <4>2. f[i - 1] \in X BY <4>1, <1>1 DEF Loop
      <4>3. f[i] = step[i][f[i - 1]] BY <3>2, <1>1 DEF Loop
      <4> QED BY <4>2, <4>3, <3>2
    <3> QED BY <3>1, <3>2
  <2>2. f \in [0..n -> X] BY <1>1 DEF Loop
  <2> QED BY <2>1, <2>2
<1>3. passed = [i \in 0..n |-> IF i = 0 THEN <<>> ELSE Passing(passed[i - 1], attrs[i])]
  BY <1>2
<1>4. WithinMetadata(attrs) = passed[n]
  BY DEF WithinMetadata
<1> HIDE DEF passed
<1>5. passed[0] \in X BY <1>3
<1>6. \A i \in 1..n : passed[i - 1] \in X => passed[i] \in X
  <2> TAKE i \in 1..n
  <2>1. passed[i] = Passing(passed[i - 1], attrs[i]) BY <1>3
  <2> QED BY <2>1
<1>7. \A i \in 0..n : passed[i] \in X BY <1>5, <1>6, LoopStays
<1> QED BY <1>4, <1>7

LEMMA MetaOrderLength == Len(MetaOrder) \in Nat /\ DOMAIN MetaOrder = 1..Len(MetaOrder)
BY InputsAssumption

(* and of the one that takes metadata keys in order.                       *)
LEMMA OrderLoop ==
  ASSUME NEW X, NEW S, <<>> \in X,
         \A i \in 1..Len(MetaOrder), acc \in X : Taking(S, acc, MetaOrder[i]) \in X
  PROVE  InOrder(S) \in X
<1> DEFINE n == Len(MetaOrder)
           step == [i \in 1..n |-> [acc \in X |-> Taking(S, acc, MetaOrder[i])]]
           upTo[i \in 0..n] == IF i = 0 THEN <<>> ELSE Taking(S, upTo[i - 1], MetaOrder[i])
<1>0. n \in Nat BY MetaOrderLength
<1>1. PICK f : Loop(f, X, <<>>, step, n)
  <2>1. step \in [1..n -> [X -> X]] OBVIOUS
  <2> HIDE DEF step
  <2> QED BY <1>0, <2>1, LoopEnds
<1>2. f = [i \in 0..n |-> IF i = 0 THEN <<>> ELSE Taking(S, f[i - 1], MetaOrder[i])]
  <2>1. \A i \in 0..n : f[i] = IF i = 0 THEN <<>> ELSE Taking(S, f[i - 1], MetaOrder[i])
    <3> TAKE i \in 0..n
    <3>1. CASE i = 0 BY <3>1, <1>1 DEF Loop
    <3>2. CASE i \in 1..n
      <4>1. i - 1 \in 0..n BY <3>2, <1>0
      <4>2. f[i - 1] \in X BY <4>1, <1>1 DEF Loop
      <4>3. f[i] = step[i][f[i - 1]] BY <3>2, <1>1 DEF Loop
      <4> QED BY <4>2, <4>3, <3>2
    <3> QED BY <3>1, <3>2, <1>0
  <2>2. f \in [0..n -> X] BY <1>1 DEF Loop
  <2> QED BY <2>1, <2>2
<1>3. upTo = [i \in 0..n |-> IF i = 0 THEN <<>> ELSE Taking(S, upTo[i - 1], MetaOrder[i])]
  BY <1>2
<1>4. InOrder(S) = upTo[n]
  BY DEF InOrder
<1> HIDE DEF upTo
<1>5. upTo[0] \in X BY <1>3, <1>0
<1>6. \A i \in 1..n : upTo[i - 1] \in X => upTo[i] \in X
  <2> TAKE i \in 1..n
  <2>1. upTo[i] = Taking(S, upTo[i - 1], MetaOrder[i]) BY <1>3, <1>0
  <2> QED BY <2>1
<1>7. \A i \in 0..n : upTo[i] \in X BY <1>0, <1>5, <1>6, LoopStays
<1> QED BY <1>0, <1>4, <1>7

(* And of the one that adds up the metadata.                               *)
Sums(f, sz) ==
  /\ f \in [0..Len(MetaOrder) -> Nat] /\ f[0] = 0
  /\ \A i \in 1..Len(MetaOrder) : f[i] = f[i - 1] + sz[MetaOrder[i]]

LEMMA MetadataSum ==
  ASSUME NEW sz \in [Keys -> Nat]
  PROVE  \E f : Sums(f, sz) /\ MetadataTotal(sz) = f[Len(MetaOrder)]
<1> DEFINE n == Len(MetaOrder)
           step == [i \in 1..n |-> [acc \in Nat |-> acc + sz[MetaOrder[i]]]]
           upTo[i \in 0..n] == IF i = 0 THEN 0 ELSE upTo[i - 1] + sz[MetaOrder[i]]
<1>0. n \in Nat BY MetaOrderLength
<1>n. \A i \in 1..n : sz[MetaOrder[i]] \in Nat BY MetaOrderLength DEF MetaKeys, Keys
<1>1. PICK f : Loop(f, Nat, 0, step, n)
  <2>1. step \in [1..n -> [Nat -> Nat]] BY <1>n
  <2> HIDE DEF step
  <2> QED BY <1>0, <2>1, LoopEnds
<1>2. f \in [0..n -> Nat] /\ f[0] = 0 /\ \A i \in 1..n : f[i] = f[i - 1] + sz[MetaOrder[i]]
  <2>1. f \in [0..n -> Nat] /\ f[0] = 0 BY <1>1 DEF Loop
  <2>2. ASSUME NEW i \in 1..n PROVE f[i] = f[i - 1] + sz[MetaOrder[i]]
    <3>1. i - 1 \in 0..n BY <1>0
    <3>2. f[i - 1] \in Nat BY <3>1, <2>1
    <3>3. f[i] = step[i][f[i - 1]] BY <1>1 DEF Loop
    <3> QED BY <3>2, <3>3
  <2> QED BY <2>1, <2>2
<1>3. f = [i \in 0..n |-> IF i = 0 THEN 0 ELSE f[i - 1] + sz[MetaOrder[i]]]
  BY <1>0, <1>2
<1>4. upTo = [i \in 0..n |-> IF i = 0 THEN 0 ELSE upTo[i - 1] + sz[MetaOrder[i]]]
  BY <1>3
<1>5. MetadataTotal(sz) = upTo[n] BY DEF MetadataTotal
<1> HIDE DEF upTo
<1>6. upTo[0] \in Nat BY <1>0, <1>4
<1>7. \A i \in 1..n : upTo[i - 1] \in Nat => upTo[i] \in Nat
  <2> TAKE i \in 1..n
  <2>1. upTo[i] = upTo[i - 1] + sz[MetaOrder[i]] BY <1>0, <1>4
  <2> QED BY <2>1, <1>n
<1>8. \A i \in 0..n : upTo[i] \in Nat
  BY <1>0, <1>6, <1>7, LoopStays
<1>9. Sums(upTo, sz)
  <2>1. upTo \in [0..n -> Nat] BY <1>4, <1>8
  <2>2. upTo[0] = 0 /\ \A i \in 1..n : upTo[i] = upTo[i - 1] + sz[MetaOrder[i]] BY <1>0, <1>4
  <2> QED BY <2>1, <2>2 DEF Sums
<1> QED BY <1>5, <1>9

LEMMA MetadataTotalOf ==
  ASSUME NEW sz \in [Keys -> Nat], NEW f, Sums(f, sz)
  PROVE  MetadataTotal(sz) = f[Len(MetaOrder)]
<1> DEFINE n == Len(MetaOrder)
<1>1. PICK g : Sums(g, sz) /\ MetadataTotal(sz) = g[n] BY MetadataSum
<1> DEFINE d == [i \in 0..n |-> g[i] - f[i]]
           Zero == {0}
<1>2. d[0] \in Zero BY <1>1, MetaOrderLength DEF Sums
<1>3. ASSUME NEW i \in 1..n, d[i - 1] \in Zero PROVE d[i] \in Zero
  <2>1. i \in 0..n /\ i - 1 \in 0..n BY MetaOrderLength
  <2>2. g[i - 1] \in Nat /\ f[i - 1] \in Nat /\ g[i] \in Nat /\ f[i] \in Nat BY <1>1, <2>1 DEF Sums
  <2>3. g[i - 1] = f[i - 1] BY <1>3, <2>1, <2>2
  <2>4. g[i] = g[i - 1] + sz[MetaOrder[i]] /\ f[i] = f[i - 1] + sz[MetaOrder[i]] BY <1>1 DEF Sums
  <2> QED BY <2>1, <2>2, <2>3, <2>4
<1>n. n \in Nat BY MetaOrderLength
<1> HIDE DEF d
<1>4. \A i \in 0..n : d[i] \in Zero
  <2> HIDE DEF n, Zero
  <2> QED BY <1>2, <1>3, <1>n, LoopStays
<1>5. n \in 0..n BY MetaOrderLength
<1>6. d[n] = g[n] - f[n] /\ g[n] \in Nat /\ f[n] \in Nat BY <1>1, <1>5 DEF d, Sums
<1> QED BY <1>1, <1>4, <1>5, <1>6

LEMMA MetadataChange ==
  ASSUME NEW sz \in [Keys -> Nat], NEW k \in Keys, NEW m \in Nat
  PROVE  MetadataTotal([sz EXCEPT ![k] = m])
           = IF k \in MetaKeys THEN MetadataTotal(sz) - sz[k] + m ELSE MetadataTotal(sz)
<1> DEFINE n == Len(MetaOrder)
           new == [sz EXCEPT ![k] = m]
<1>n. n \in Nat /\ DOMAIN MetaOrder = 1..n BY MetaOrderLength
<1>1. PICK f : Sums(f, sz) /\ MetadataTotal(sz) = f[n] BY MetadataSum
<1>2. new \in [Keys -> Nat] OBVIOUS
<1>k. \A i \in 1..n : MetaOrder[i] \in Keys BY <1>n DEF MetaKeys, Keys
<1>3. CASE k \notin MetaKeys
  <2>1. \A i \in 1..n : new[MetaOrder[i]] = sz[MetaOrder[i]] BY <1>3, <1>n DEF MetaKeys
  <2>2. Sums(f, new) BY <1>1, <2>1 DEF Sums
  <2> HIDE DEF new
  <2> QED BY <1>1, <1>2, <1>3, <2>2, MetadataTotalOf DEF new
<1>4. CASE k \in MetaKeys
  <2>1. PICK p \in 1..n : MetaOrder[p] = k BY <1>4, <1>n DEF MetaKeys
  <2>2. \A i \in 1..n : i # p => new[MetaOrder[i]] = sz[MetaOrder[i]]
    BY <2>1, <1>n, <1>k, InputsAssumption
  <2>3. new[MetaOrder[p]] = m BY <2>1
  <2> DEFINE g == [i \in 0..n |-> IF p <= i THEN f[i] - sz[k] + m ELSE f[i]]
  <2>f. \A i \in 0..n : f[i] \in Nat BY <1>1 DEF Sums
  <2>4. \A i \in p..n : f[i] >= sz[k]
    <3> DEFINE S == {i \in Nat : p + i <= n => f[p + i] >= sz[k]}
    <3>1. 0 \in S
      <4>1. f[p] = f[p - 1] + sz[k] /\ p - 1 \in 0..n BY <1>1, <2>1, <1>n DEF Sums
      <4> QED BY <4>1, <2>f, <2>1, <1>n
    <3>2. ASSUME NEW i \in Nat, i \in S PROVE i + 1 \in S
      <4> SUFFICES ASSUME p + (i + 1) <= n PROVE f[p + (i + 1)] >= sz[k]
        OBVIOUS
      <4>1. p + (i + 1) \in 1..n /\ p + i \in 0..n /\ p + (i + 1) - 1 = p + i BY <1>n
      <4>2. f[p + (i + 1)] = f[p + i] + sz[MetaOrder[p + (i + 1)]] BY <4>1, <1>1 DEF Sums
      <4>3. f[p + i] >= sz[k] BY <3>2, <1>n
      <4>4. sz[MetaOrder[p + (i + 1)]] \in Nat BY <4>1, <1>k
      <4> QED BY <4>1, <4>2, <4>3, <4>4, <2>f
    <3>3. Nat \subseteq S BY <3>1, <3>2, SetInduction
    <3> TAKE i \in p..n
    <3>4. i - p \in Nat /\ p + (i - p) = i BY <1>n
    <3>5. i - p \in S BY <3>3, <3>4
    <3> QED BY <3>4, <3>5
  <2>5. g \in [0..n -> Nat]
    <3>1. ASSUME NEW i \in 0..n PROVE g[i] \in Nat
      <4>1. f[i] \in Nat /\ sz[k] \in Nat BY <2>f
      <4>2. CASE p <= i
        <5>1. i \in p..n BY <4>2, <1>n
        <5> QED BY <4>1, <4>2, <5>1, <2>4
      <4> QED BY <4>1, <4>2
    <3>2. DOMAIN g = 0..n OBVIOUS
    <3> HIDE DEF g
    <3>3. g = [i \in 0..n |-> g[i]] BY DEF g
    <3> QED BY <3>1, <3>3
  <2>6. g[0] = 0 BY <1>1, <1>n, <2>1 DEF Sums
  <2>7. ASSUME NEW i \in 1..n PROVE g[i] = g[i - 1] + new[MetaOrder[i]]
    <3>1. i - 1 \in 0..n /\ i \in 0..n BY <1>n
    <3>2. f[i] = f[i - 1] + sz[MetaOrder[i]] /\ f[i - 1] \in Nat /\ f[i] \in Nat BY <3>1, <1>1, <2>f DEF Sums
    <3>3. CASE i = p
      <4>1. g[i] = f[i] - sz[k] + m /\ g[i - 1] = f[i - 1] BY <3>3, <3>1, <1>n
      <4> QED BY <4>1, <3>2, <3>3, <2>1, <2>3
    <3>4. CASE i < p
      <4>1. g[i] = f[i] /\ g[i - 1] = f[i - 1] BY <3>4, <3>1, <1>n
      <4> QED BY <4>1, <3>2, <3>4, <2>2
    <3>5. CASE i > p
      <4>1. g[i] = f[i] - sz[k] + m /\ g[i - 1] = f[i - 1] - sz[k] + m BY <3>5, <3>1, <1>n
      <4>2. new[MetaOrder[i]] = sz[MetaOrder[i]] /\ sz[MetaOrder[i]] \in Nat BY <3>5, <2>2, <1>k
      <4>3. sz[k] \in Nat OBVIOUS
      <4>4. f[i] - sz[k] + m = (f[i - 1] - sz[k] + m) + sz[MetaOrder[i]] BY <3>2, <4>2, <4>3, SMTT(30)
      <4> HIDE DEF g, new, n
      <4> QED BY <4>1, <4>2, <4>4
    <3> HIDE DEF g, new
    <3> QED BY <3>3, <3>4, <3>5, <1>n
  <2> HIDE DEF g, new
  <2>8. Sums(g, new) BY <2>5, <2>6, <2>7 DEF Sums
  <2>9. MetadataTotal(new) = g[n] BY <1>2, <2>8, MetadataTotalOf
  <2>10. g[n] = f[n] - sz[k] + m BY <1>n, <2>1 DEF g
  <2> QED BY <1>1, <1>4, <2>9, <2>10 DEF new
<1> QED BY <1>3, <1>4

LEMMA TotalType == ASSUME NEW sz \in [Keys -> Nat] PROVE MetadataTotal(sz) \in Nat /\ Total(sz) \in Nat
<1>1. PICK f : Sums(f, sz) /\ MetadataTotal(sz) = f[Len(MetaOrder)] BY MetadataSum
<1>2. MetadataTotal(sz) \in Nat BY <1>1, MetaOrderLength DEF Sums
<1>3. \A k \in Keys : sz[k] \in Nat OBVIOUS
<1> QED BY <1>2, <1>3 DEF Total, Keys, ErrorKeys

(* Another size for one key moves the total by the difference.             *)
LEMMA TotalChange ==
  ASSUME NEW sz \in [Keys -> Nat], NEW k \in Keys, NEW m \in Nat
  PROVE  Total([sz EXCEPT ![k] = m]) = Total(sz) - sz[k] + m
<1> DEFINE new == [sz EXCEPT ![k] = m]
<1>1. MetadataTotal(new) = IF k \in MetaKeys THEN MetadataTotal(sz) - sz[k] + m ELSE MetadataTotal(sz)
  BY MetadataChange
<1>2. MetadataTotal(sz) \in Nat BY TotalType
<1>3. \A j \in Keys : sz[j] \in Nat /\ new[j] = IF j = k THEN m ELSE sz[j] OBVIOUS
<1>4. {"level", "status", "version", "input"} \cap MetaKeys = {} BY InputsAssumption DEF ErrorKeys
<1>5. k \in {"level", "status", "version", "input"} \/ k \in MetaKeys BY DEF Keys, ErrorKeys
<1>6. {"level", "status", "version", "input"} \subseteq Keys BY DEF Keys, ErrorKeys
<1> HIDE DEF new
<1>7. CASE k \in MetaKeys
  <2>1. \A j \in {"level", "status", "version", "input"} : new[j] = sz[j] BY <1>3, <1>4, <1>6, <1>7
  <2> QED BY <2>1, <1>1, <1>2, <1>3, <1>6, <1>7 DEF Total, new
<1>8. CASE k = "level" BY <1>8, <1>1, <1>2, <1>3, <1>4, <1>6 DEF Total, new
<1>9. CASE k = "status" BY <1>9, <1>1, <1>2, <1>3, <1>4, <1>6 DEF Total, new
<1>10. CASE k = "version" BY <1>10, <1>1, <1>2, <1>3, <1>4, <1>6 DEF Total, new
<1>11. CASE k = "input" BY <1>11, <1>1, <1>2, <1>3, <1>4, <1>6 DEF Total, new
<1> QED BY <1>5, <1>7, <1>8, <1>9, <1>10, <1>11

NoSizes == [k \in Keys |-> 0]

LEMMA TotalOfNothing == Total(NoSizes) = 0
<1> DEFINE n == Len(MetaOrder)
           f == [i \in 0..n |-> 0]
<1>1. NoSizes \in [Keys -> Nat] BY DEF NoSizes
<1>2. \A i \in 1..n : MetaOrder[i] \in Keys BY MetaOrderLength DEF MetaKeys, Keys
<1>3. Sums(f, NoSizes) BY <1>2, MetaOrderLength DEF Sums, NoSizes
<1>4. MetadataTotal(NoSizes) = 0 BY <1>1, <1>3, MetadataTotalOf, MetaOrderLength
<1> QED BY <1>4 DEF Total, NoSizes, Keys, ErrorKeys

-----------------------------------------------------------------------------
(* What fitting keeps                                                      *)

Limits(sz) == Total(sz) <= MaxBytes /\ Total(sz) - sz["level"] - sz["status"] <= MaxDataBytes

(* The last of the attributes with a key has this size.                    *)
Newest(kept, k, m) ==
  \E i \in DOMAIN kept : /\ kept[i].key = k /\ kept[i].size = m
                         /\ \A j \in DOMAIN kept : kept[j].key = k => j <= i

(* Books that were right and are right after keeping some of the allowed   *)
(* keys.                                                                   *)
Books(old, allowed) ==
  {acc \in [sizes : [Keys -> Nat], used : Nat, kept : Seq(AttrType)] :
     /\ acc.used = Total(acc.sizes) /\ Limits(acc.sizes)
     /\ KeysOf(acc.kept) \subseteq allowed
     /\ \A k \in KeysOf(acc.kept) : Newest(acc.kept, k, acc.sizes[k])
     /\ \A k \in Keys \ KeysOf(acc.kept) : acc.sizes[k] = old[k]}

LEMMA KeysOfAppend ==
  ASSUME NEW kept \in Seq(AttrType), NEW a \in AttrType
  PROVE  /\ Append(kept, a) \in Seq(AttrType)
         /\ KeysOf(Append(kept, a)) = KeysOf(kept) \cup {a.key}
         /\ Newest(Append(kept, a), a.key, a.size)
         /\ \A k, m : k # a.key /\ Newest(kept, k, m) => Newest(Append(kept, a), k, m)
<1> DEFINE s == Append(kept, a)
           n == Len(kept)
<1>1. n \in Nat /\ DOMAIN kept = 1..n /\ DOMAIN s = 1..(n + 1) /\ s \in Seq(AttrType) OBVIOUS
<1>2. s[n + 1] = a /\ \A i \in 1..n : s[i] = kept[i] OBVIOUS
<1> HIDE DEF s, n
<1>3. KeysOf(s) = KeysOf(kept) \cup {a.key}
  <2>1. \A i \in 1..(n + 1) : i = n + 1 \/ i \in 1..n BY <1>1
  <2>2. 1..n \subseteq 1..(n + 1) /\ n + 1 \in 1..(n + 1) BY <1>1
  <2> QED BY <1>1, <1>2, <2>1, <2>2 DEF KeysOf
<1>4. Newest(s, a.key, a.size) BY <1>1, <1>2 DEF Newest
<1>5. ASSUME NEW k, NEW m, k # a.key, Newest(kept, k, m) PROVE Newest(s, k, m)
  <2>1. PICK i \in 1..n : /\ kept[i].key = k /\ kept[i].size = m
                          /\ \A j \in 1..n : kept[j].key = k => j <= i
    BY <1>1, <1>5 DEF Newest
  <2>2. i \in 1..(n + 1) /\ s[i] = kept[i] BY <1>1, <1>2
  <2>3. ASSUME NEW j \in 1..(n + 1), s[j].key = k PROVE j <= i
    <3>1. j # n + 1 BY <1>2, <1>5, <2>3
    <3>2. j \in 1..n BY <3>1, <1>1
    <3> QED BY <3>2, <2>1, <2>3, <1>2
  <2> QED BY <1>1, <2>1, <2>2, <2>3 DEF Newest
<1> QED BY <1>1, <1>3, <1>4, <1>5 DEF s

LEMMA FitOneBooks ==
  ASSUME NEW old, NEW allowed, NEW acc \in Books(old, allowed), NEW a \in AttrType, a.key \in allowed
  PROVE  fitOne(acc, a) \in Books(old, allowed)
<1> DEFINE previous == acc.sizes[a.key]
           next == acc.used - previous + a.size
           held == acc.sizes["level"] + acc.sizes["status"]
           reserved == IF a.key \in ErrorKeys THEN held - previous + a.size ELSE held
<1>1. CASE ~Fits(next, reserved) BY <1>1 DEF fitOne
<1>2. CASE Fits(next, reserved)
  <2>1. /\ acc.sizes \in [Keys -> Nat] /\ acc.used = Total(acc.sizes) /\ acc.kept \in Seq(AttrType)
        /\ KeysOf(acc.kept) \subseteq allowed
        /\ \A k \in KeysOf(acc.kept) : Newest(acc.kept, k, acc.sizes[k])
        /\ \A k \in Keys \ KeysOf(acc.kept) : acc.sizes[k] = old[k]
    BY DEF Books
  <2>a. a.key \in Keys /\ a.size \in Nat BY DEF AttrType
  <2>2. PICK sizes2 : sizes2 = [acc.sizes EXCEPT ![a.key] = a.size] OBVIOUS
  <2>3. PICK kept2 : kept2 = Append(acc.kept, a) OBVIOUS
  <2>4. sizes2 \in [Keys -> Nat] /\ sizes2[a.key] = a.size /\ \A k \in Keys : k # a.key => sizes2[k] = acc.sizes[k]
    BY <2>1, <2>2, <2>a
  <2>5. Total(sizes2) = next BY <2>1, <2>2, <2>a, TotalChange
  <2>6. next \in Nat BY <2>4, <2>5, TotalType
  <2>7. Limits(sizes2)
    <3>1. {"level", "status"} \subseteq Keys BY DEF Keys, ErrorKeys
    <3>2. acc.sizes["level"] \in Nat /\ acc.sizes["status"] \in Nat /\ previous \in Nat BY <3>1, <2>1, <2>a
    <3>3. next <= MaxBytes /\ next - reserved <= MaxDataBytes BY <1>2 DEF Fits
    <3>4. MaxBytes \in Nat /\ MaxDataBytes \in Nat BY LimitsAssumption
    <3>5. sizes2["level"] + sizes2["status"] = reserved
      <4>1. CASE a.key = "level" BY <4>1, <2>4, <2>a, <3>1, <3>2 DEF ErrorKeys
      <4>2. CASE a.key = "status" BY <4>2, <2>4, <2>a, <3>1, <3>2 DEF ErrorKeys
      <4>3. CASE a.key \notin {"level", "status"} BY <4>3, <2>4, <3>1 DEF ErrorKeys
      <4> QED BY <4>1, <4>2, <4>3
    <3>6. sizes2["level"] \in Nat /\ sizes2["status"] \in Nat BY <3>1, <2>4
    <3> HIDE DEF next, reserved, previous
    <3> QED BY <2>5, <2>6, <3>3, <3>4, <3>5, <3>6 DEF Limits
  <2>8. /\ kept2 \in Seq(AttrType) /\ KeysOf(kept2) = KeysOf(acc.kept) \cup {a.key}
        /\ Newest(kept2, a.key, a.size)
        /\ \A k, m : k # a.key /\ Newest(acc.kept, k, m) => Newest(kept2, k, m)
    BY <2>1, <2>3, KeysOfAppend
  <2>9. \A k \in KeysOf(kept2) : Newest(kept2, k, sizes2[k])
    <3> TAKE k \in KeysOf(kept2)
    <3>1. CASE k = a.key BY <3>1, <2>4, <2>8
    <3>2. CASE k # a.key
      <4>1. k \in KeysOf(acc.kept) BY <3>2, <2>8
      <4>2. k \in Keys
        <5>1. \A i \in DOMAIN acc.kept : acc.kept[i] \in AttrType BY <2>1
        <5> QED BY <5>1, <4>1 DEF KeysOf, AttrType
      <4> QED BY <4>1, <4>2, <3>2, <2>1, <2>4, <2>8
    <3> QED BY <3>1, <3>2
  <2>10. \A k \in Keys \ KeysOf(kept2) : sizes2[k] = old[k] BY <2>1, <2>4, <2>8
  <2>11. PICK r : r = [sizes |-> sizes2, used |-> next, kept |-> kept2] OBVIOUS
  <2>12. r \in [sizes : [Keys -> Nat], used : Nat, kept : Seq(AttrType)] BY <2>11, <2>4, <2>6, <2>8
  <2>13. r.sizes = sizes2 /\ r.used = next /\ r.kept = kept2 BY <2>11
  <2>14. r \in Books(old, allowed)
    <3> HIDE DEF next
    <3> QED BY <2>1, <2>5, <2>7, <2>8, <2>9, <2>10, <2>12, <2>13 DEF Books
  <2>15. fitOne(acc, a) = r BY <1>2, <2>2, <2>3, <2>11 DEF fitOne
  <2> QED BY <2>14, <2>15
<1> QED BY <1>1, <1>2

LEMMA FitBooks ==
  ASSUME NEW attrs \in Seq(AttrType), NEW sz \in [Keys -> Nat], Limits(sz)
  PROVE  fitObservationAttributeBudget(attrs, sz, Total(sz)) \in Books(sz, KeysOf(attrs))
<1>1. Account(sz, Total(sz)) \in Books(sz, KeysOf(attrs))
  <2>1. PICK r : r = Account(sz, Total(sz)) OBVIOUS
  <2>2. r \in [sizes : [Keys -> Nat], used : Nat, kept : Seq(AttrType)]
    BY <2>1, TotalType DEF Account
  <2>3. r.sizes = sz /\ r.used = Total(sz) /\ KeysOf(r.kept) = {} BY <2>1 DEF Account, KeysOf
  <2> QED BY <2>1, <2>2, <2>3 DEF Books
<1>2. ASSUME NEW i \in 1..Len(attrs), NEW acc \in Books(sz, KeysOf(attrs))
      PROVE  fitOne(acc, attrs[i]) \in Books(sz, KeysOf(attrs))
  <2>1. attrs[i] \in AttrType /\ attrs[i].key \in KeysOf(attrs) BY DEF KeysOf
  <2> QED BY <2>1, FitOneBooks
<1>3. Len(attrs) \in Nat OBVIOUS
<1> QED BY <1>1, <1>2, <1>3, FitLoop

-----------------------------------------------------------------------------
(* The limit on metadata                                                   *)

LEMMA MetaKeysFinite == IsFiniteSet(MetaKeys)
<1>1. MetaOrder \in Surjection(1..Len(MetaOrder), MetaKeys)
  BY MetaOrderLength, InputsAssumption DEF Surjection, MetaKeys
<1>2. IsFiniteSet(1..Len(MetaOrder)) BY MetaOrderLength, FS_Interval
<1> QED BY <1>1, <1>2, FS_Surjection

LEMMA ElementsAreAttrs ==
  ASSUME NEW s \in Seq(AttrType)
  PROVE  KeysOf(s) \subseteq Keys /\ \A i \in DOMAIN s : s[i].key \in Keys /\ s[i].size \in Nat \ {0}
<1>1. \A i \in DOMAIN s : s[i] \in AttrType OBVIOUS
<1> QED BY <1>1 DEF KeysOf, AttrType

(* An update lets no more metadata keys through than the limit leaves.     *)
LEMMA WithinFits ==
  ASSUME NEW attrs \in Seq(AttrType), metadataKeys \subseteq MetaKeys,
         Cardinality(metadataKeys) <= MaxMetadataEntries
  PROVE  /\ WithinMetadata(attrs) \in Seq(AttrType)
         /\ Cardinality(metadataKeys \cup (KeysOf(WithinMetadata(attrs)) \cap MetaKeys)) <= MaxMetadataEntries
<1> DEFINE Held(kept) == metadataKeys \cup (KeysOf(kept) \cap MetaKeys)
           X == {kept \in Seq(AttrType) : Cardinality(Held(kept)) <= MaxMetadataEntries}
<1>1. <<>> \in X
  <2>1. KeysOf(<<>>) = {} BY DEF KeysOf
  <2>2. Held(<<>>) = metadataKeys BY <2>1
  <2>3. <<>> \in Seq(AttrType) OBVIOUS
  <2> QED BY <2>2, <2>3
<1>2. ASSUME NEW i \in 1..Len(attrs), NEW kept \in X PROVE Passing(kept, attrs[i]) \in X
  <2>1. PICK a \in AttrType : a = attrs[i] OBVIOUS
  <2>2. kept \in Seq(AttrType) /\ Cardinality(Held(kept)) <= MaxMetadataEntries OBVIOUS
  <2>3. PICK longer : longer = Append(kept, a) OBVIOUS
  <2>4. longer \in Seq(AttrType) /\ KeysOf(longer) = KeysOf(kept) \cup {a.key}
    BY <2>2, <2>3, KeysOfAppend
  <2>5. CASE a.key \in MetaKeys \ Held(kept) /\ Cardinality(Held(kept)) >= MaxMetadataEntries
    BY <2>1, <2>2, <2>5 DEF Passing
  <2>6. CASE ~(a.key \in MetaKeys \ Held(kept) /\ Cardinality(Held(kept)) >= MaxMetadataEntries)
    <3>1. Passing(kept, attrs[i]) = longer BY <2>1, <2>3, <2>6 DEF Passing
    <3>2. Cardinality(Held(longer)) <= MaxMetadataEntries
      <4>1. CASE a.key \in MetaKeys \ Held(kept)
        <5>1. Held(longer) = Held(kept) \cup {a.key} BY <4>1, <2>4
        <5>2. IsFiniteSet(Held(kept))
          <6>1. Held(kept) \in SUBSET MetaKeys OBVIOUS
          <6> QED BY <6>1, FS_Subset, MetaKeysFinite
        <5> HIDE DEF Held
        <5>3. Cardinality(Held(kept)) \in Nat BY <5>2, FS_CardinalityType
        <5>4. Cardinality(Held(kept) \cup {a.key})
                = IF a.key \in Held(kept) THEN Cardinality(Held(kept)) ELSE Cardinality(Held(kept)) + 1
          BY <5>2, FS_AddElement
        <5>5. MaxMetadataEntries \in Nat BY LimitsAssumption
        <5> QED BY <5>1, <5>3, <5>4, <5>5, <2>2, <2>6, <4>1
      <4>2. CASE a.key \notin MetaKeys \ Held(kept)
        <5>1. Held(longer) = Held(kept) BY <4>2, <2>4
        <5> QED BY <5>1, <2>2
      <4> QED BY <4>1, <4>2
    <3> QED BY <3>1, <3>2, <2>4
  <2> QED BY <2>5, <2>6
<1>3. WithinMetadata(attrs) \in X
  <2>1. Len(attrs) \in Nat OBVIOUS
  <2> HIDE DEF X
  <2> QED BY <2>1, <1>1, <1>2, WithinLoop
<1> QED BY <1>3

(* A start or an update builds attributes of the known keys, and no more   *)
(* metadata than the limit leaves beside what the observation has.         *)
LEMMA InOrderType == ASSUME NEW S PROVE InOrder(S) \in Seq(S \cap MetaKeys)
<1> DEFINE X == Seq(S \cap MetaKeys)
<1>1. <<>> \in X OBVIOUS
<1>2. ASSUME NEW i \in 1..Len(MetaOrder), NEW acc \in X PROVE Taking(S, acc, MetaOrder[i]) \in X
  <2>1. MetaOrder[i] \in MetaKeys BY MetaOrderLength DEF MetaKeys
  <2> QED BY <2>1 DEF Taking
<1> HIDE DEF X
<1>3. InOrder(S) \in X BY <1>1, <1>2, OrderLoop
<1> QED BY <1>3 DEF X

LEMMA BoundedType ==
  ASSUME NEW wanted \in SUBSET MetaKeys, NEW existing \in SUBSET MetaKeys
  PROVE  /\ boundedMetadataKeys(wanted, existing) \in Seq(MetaKeys)
         /\ existing = {} => Len(boundedMetadataKeys(wanted, existing)) <= MaxMetadataEntries
<1>1. PICK new : new = InOrder(wanted \ existing) OBVIOUS
<1>2. PICK held : held = InOrder(wanted \cap existing) OBVIOUS
<1>3. new \in Seq(MetaKeys) /\ held \in Seq(MetaKeys) /\ (existing = {} => held = <<>>)
  <2>1. new \in Seq((wanted \ existing) \cap MetaKeys) BY <1>1, InOrderType
  <2>2. held \in Seq((wanted \cap existing) \cap MetaKeys) BY <1>2, InOrderType
  <2>3. existing = {} => held \in Seq({}) BY <2>2
  <2>4. \A s \in Seq({}) : s = <<>> OBVIOUS
  <2> QED BY <2>1, <2>2, <2>3, <2>4
<1>4. PICK room : room = MaxMetadataEntries - Cardinality(existing) OBVIOUS
<1>5. PICK m : m = IF Len(new) < room THEN Len(new) ELSE room OBVIOUS
<1>6. IsFiniteSet(existing) /\ Cardinality(existing) \in Nat
  BY FS_Subset, MetaKeysFinite, FS_CardinalityType
<1>7. MaxMetadataEntries \in Nat BY LimitsAssumption
<1>8. m \in Int /\ m <= Len(new) /\ Len(new) \in Nat BY <1>3, <1>4, <1>5, <1>6, <1>7
<1>9. SubSeq(new, 1, m) \in Seq(MetaKeys) BY <1>3, <1>8
<1>10. boundedMetadataKeys(wanted, existing) = held \o SubSeq(new, 1, m)
  BY <1>1, <1>2, <1>4, <1>5 DEF boundedMetadataKeys
<1>11. ASSUME existing = {} PROVE Len(boundedMetadataKeys(wanted, existing)) <= MaxMetadataEntries
  <2>1. Cardinality(existing) = 0 BY <1>11, FS_EmptySet
  <2>2. m \in Nat /\ m <= MaxMetadataEntries BY <2>1, <1>4, <1>5, <1>7, <1>8
  <2>3. Len(SubSeq(new, 1, m)) = m BY <1>3, <1>8, <2>2
  <2>4. held \o SubSeq(new, 1, m) = SubSeq(new, 1, m) BY <1>3, <1>9, <1>11
  <2> QED BY <1>10, <2>2, <2>3, <2>4
<1> QED BY <1>3, <1>9, <1>10, <1>11

LEMMA KeysOfConcat ==
  ASSUME NEW s \in Seq(AttrType), NEW t \in Seq(AttrType)
  PROVE  s \o t \in Seq(AttrType) /\ KeysOf(s \o t) = KeysOf(s) \cup KeysOf(t)
<1> DEFINE m == Len(s)
           n == Len(t)
           u == s \o t
<1>1. /\ m \in Nat /\ n \in Nat /\ DOMAIN s = 1..m /\ DOMAIN t = 1..n
      /\ DOMAIN u = 1..(m + n) /\ u \in Seq(AttrType)
  OBVIOUS
<1>2. \A i \in 1..(m + n) : u[i] = IF i <= m THEN s[i] ELSE t[i - m] OBVIOUS
<1> HIDE DEF m, n, u
<1>3. KeysOf(u) \subseteq KeysOf(s) \cup KeysOf(t)
  <2>1. ASSUME NEW i \in 1..(m + n) PROVE u[i].key \in KeysOf(s) \cup KeysOf(t)
    <3>1. CASE i <= m
      <4>1. i \in DOMAIN s /\ u[i] = s[i] BY <3>1, <1>1, <1>2
      <4> QED BY <4>1 DEF KeysOf
    <3>2. CASE ~(i <= m)
      <4>1. i - m \in DOMAIN t /\ u[i] = t[i - m] BY <3>2, <1>1, <1>2
      <4> QED BY <4>1 DEF KeysOf
    <3> QED BY <3>1, <3>2
  <2> QED BY <2>1, <1>1 DEF KeysOf
<1>4. KeysOf(s) \subseteq KeysOf(u)
  <2>1. ASSUME NEW i \in 1..m PROVE s[i].key \in KeysOf(u)
    <3>1. i \in 1..(m + n) /\ u[i] = s[i] BY <1>1, <1>2
    <3> QED BY <3>1, <1>1 DEF KeysOf
  <2> QED BY <2>1, <1>1 DEF KeysOf
<1>5. KeysOf(t) \subseteq KeysOf(u)
  <2>1. ASSUME NEW i \in 1..n PROVE t[i].key \in KeysOf(u)
    <3>1. PICK j : j = i + m OBVIOUS
    <3>2. j \in 1..(m + n) /\ j - m = i /\ ~(j <= m) BY <3>1, <1>1
    <3>3. u[j] = t[j - m] BY <3>2, <1>2
    <3>4. u[j] = t[i] BY <3>2, <3>3
    <3> QED BY <3>2, <3>4, <1>1 DEF KeysOf
  <2> QED BY <2>1, <1>1 DEF KeysOf
<1> QED BY <1>1, <1>3, <1>4, <1>5 DEF u

LEMMA OneAttr ==
  ASSUME NEW k \in Keys, NEW n \in Nat \ {0}
  PROVE  /\ <<Attr(k, n)>> \in Seq(AttrType) /\ KeysOf(<<Attr(k, n)>>) \subseteq {k}
<1>1. PICK a : a = Attr(k, n) OBVIOUS
<1>2. a \in AttrType /\ a.key = k BY <1>1 DEF Attr, AttrType
<1>3. <<a>> \in Seq(AttrType) /\ DOMAIN <<a>> = {1} /\ <<a>>[1] = a BY <1>2
<1>4. KeysOf(<<a>>) \subseteq {k} BY <1>2, <1>3 DEF KeysOf
<1> QED BY <1>1, <1>3, <1>4

LEMMA NoAttr == <<>> \in Seq(AttrType) /\ KeysOf(<<>>) = {}
BY DEF KeysOf

LEMMA BuildType ==
  ASSUME NEW v \in Inputs, NEW existing \in SUBSET MetaKeys
  PROVE  /\ buildObservationAttributes(v, existing) \in Seq(AttrType)
         /\ existing = {} => Cardinality(KeysOf(buildObservationAttributes(v, existing)) \cap MetaKeys)
                               <= MaxMetadataEntries
<1>1. v \in InputType BY InputsAssumption
<1>2. /\ v.status \in Nat /\ v.version \in BOOLEAN /\ v.input \in Nat /\ v.metadata \in SUBSET MetaKeys
  BY <1>1 DEF InputType
<1>3. LevelBytes \in Nat \ {0} /\ VersionBytes \in Nat \ {0} /\ MetaBytes \in Nat \ {0}
  BY LimitsAssumption
<1>4. PICK a : a = AttrIf(v.level # "none", "level", LevelBytes) OBVIOUS
<1>5. PICK b : b = AttrIf(v.status > 0, "status", v.status) OBVIOUS
<1>6. PICK c : c = AttrIf(v.version, "version", VersionBytes) OBVIOUS
<1>7. PICK d : d = AttrIf(v.input > 0, "input", v.input) OBVIOUS
<1>8. PICK ks : ks = boundedMetadataKeys(v.metadata, existing) OBVIOUS
<1>9. PICK e : e = [i \in DOMAIN ks |-> Attr(ks[i], MetaBytes)] OBVIOUS
<1>10. {"level", "status", "version", "input"} \subseteq Keys BY DEF Keys, ErrorKeys
<1>11. a \in Seq(AttrType) /\ KeysOf(a) \subseteq {"level"}
  <2>1. CASE v.level # "none"
    <3>1. a = <<Attr("level", LevelBytes)>> BY <2>1, <1>4 DEF AttrIf
    <3> QED BY <3>1, <1>3, <1>10, OneAttr
  <2>2. CASE ~(v.level # "none")
    <3>1. a = <<>> BY <2>2, <1>4 DEF AttrIf
    <3> QED BY <3>1, NoAttr
  <2> QED BY <2>1, <2>2
<1>12. b \in Seq(AttrType) /\ KeysOf(b) \subseteq {"status"}
  <2>1. CASE v.status > 0
    <3>1. b = <<Attr("status", v.status)>> BY <2>1, <1>5 DEF AttrIf
    <3>2. v.status \in Nat \ {0} BY <2>1, <1>2
    <3> QED BY <3>1, <3>2, <1>10, OneAttr
  <2>2. CASE ~(v.status > 0)
    <3>1. b = <<>> BY <2>2, <1>5 DEF AttrIf
    <3> QED BY <3>1, NoAttr
  <2> QED BY <2>1, <2>2
<1>13. c \in Seq(AttrType) /\ KeysOf(c) \subseteq {"version"}
  <2>1. CASE v.version
    <3>1. c = <<Attr("version", VersionBytes)>> BY <2>1, <1>6 DEF AttrIf
    <3> QED BY <3>1, <1>3, <1>10, OneAttr
  <2>2. CASE ~v.version
    <3>1. c = <<>> BY <2>2, <1>6 DEF AttrIf
    <3> QED BY <3>1, NoAttr
  <2> QED BY <2>1, <2>2
<1>14. d \in Seq(AttrType) /\ KeysOf(d) \subseteq {"input"}
  <2>1. CASE v.input > 0
    <3>1. d = <<Attr("input", v.input)>> BY <2>1, <1>7 DEF AttrIf
    <3>2. v.input \in Nat \ {0} BY <2>1, <1>2
    <3> QED BY <3>1, <3>2, <1>10, OneAttr
  <2>2. CASE ~(v.input > 0)
    <3>1. d = <<>> BY <2>2, <1>7 DEF AttrIf
    <3> QED BY <3>1, NoAttr
  <2> QED BY <2>1, <2>2
<1>15. ks \in Seq(MetaKeys) /\ (existing = {} => Len(ks) <= MaxMetadataEntries)
  BY <1>2, <1>8, BoundedType
<1>16. Len(ks) \in Nat /\ DOMAIN ks = 1..Len(ks) /\ \A i \in 1..Len(ks) : ks[i] \in MetaKeys BY <1>15
<1>17. e \in Seq(AttrType) /\ KeysOf(e) = {ks[i] : i \in 1..Len(ks)}
  <2>1. DOMAIN e = 1..Len(ks) BY <1>9, <1>16
  <2>2. \A i \in 1..Len(ks) : e[i] = Attr(ks[i], MetaBytes) BY <1>9, <1>16
  <2>3. ASSUME NEW i \in 1..Len(ks) PROVE e[i] \in AttrType /\ e[i].key = ks[i]
    <3>1. ks[i] \in Keys BY <1>16 DEF Keys
    <3>2. PICK x : x = Attr(ks[i], MetaBytes) OBVIOUS
    <3>3. x \in AttrType /\ x.key = ks[i] BY <3>1, <3>2, <1>3 DEF Attr, AttrType
    <3>4. e[i] = x BY <2>2, <3>2
    <3> QED BY <3>3, <3>4
  <2>4. e = [i \in 1..Len(ks) |-> e[i]] BY <1>9, <2>1
  <2>5. e \in Seq(AttrType) BY <1>16, <2>3, <2>4
  <2> QED BY <2>1, <2>3, <2>5 DEF KeysOf
<1>18. PICK w : w = a \o b \o c \o d \o e OBVIOUS
<1>19. w = buildObservationAttributes(v, existing)
  BY <1>4, <1>5, <1>6, <1>7, <1>8, <1>9, <1>18 DEF buildObservationAttributes
<1>20. w \in Seq(AttrType) /\ KeysOf(w) = KeysOf(a) \cup KeysOf(b) \cup KeysOf(c) \cup KeysOf(d) \cup KeysOf(e)
  <2>1. a \o b \in Seq(AttrType) /\ KeysOf(a \o b) = KeysOf(a) \cup KeysOf(b)
    BY <1>11, <1>12, KeysOfConcat
  <2>2. a \o b \o c \in Seq(AttrType) /\ KeysOf(a \o b \o c) = KeysOf(a \o b) \cup KeysOf(c)
    BY <2>1, <1>13, KeysOfConcat
  <2>3. a \o b \o c \o d \in Seq(AttrType) /\ KeysOf(a \o b \o c \o d) = KeysOf(a \o b \o c) \cup KeysOf(d)
    BY <2>2, <1>14, KeysOfConcat
  <2>4. w \in Seq(AttrType) /\ KeysOf(w) = KeysOf(a \o b \o c \o d) \cup KeysOf(e)
    BY <2>3, <1>17, <1>18, KeysOfConcat
  <2> QED BY <2>1, <2>2, <2>3, <2>4
<1>21. ASSUME existing = {} PROVE Cardinality(KeysOf(w) \cap MetaKeys) <= MaxMetadataEntries
  <2>1. {"level", "status", "version", "input"} \cap MetaKeys = {} BY InputsAssumption DEF ErrorKeys
  <2>2. KeysOf(w) \cap MetaKeys = KeysOf(e)
    BY <2>1, <1>11, <1>12, <1>13, <1>14, <1>16, <1>17, <1>20
  <2>3. ks \in Surjection(1..Len(ks), KeysOf(e)) BY <1>15, <1>16, <1>17 DEF Surjection
  <2>4. ExistsSurjection(1..Len(ks), KeysOf(e)) BY <2>3 DEF ExistsSurjection
  <2>5. Cardinality(KeysOf(e)) <= Len(ks) BY <2>4, <1>16, FS_SurjCardinalityBound
  <2>6. IsFiniteSet(KeysOf(e)) BY <2>3, <1>16, FS_Surjection, FS_Interval
  <2>7. Cardinality(KeysOf(e)) \in Nat /\ MaxMetadataEntries \in Nat
    BY <2>6, FS_CardinalityType, LimitsAssumption
  <2>8. PICK n \in Nat : n = Cardinality(KeysOf(e)) BY <2>7
  <2>9. PICK m \in Nat : m = Len(ks) BY <1>16
  <2>10. n <= m /\ m <= MaxMetadataEntries BY <2>5, <2>8, <2>9, <1>15, <1>21
  <2>11. n <= MaxMetadataEntries BY <2>7, <2>10
  <2> QED BY <2>2, <2>8, <2>11
<1> QED BY <1>19, <1>20, <1>21

-----------------------------------------------------------------------------
(* The handle's books and the span's attributes                            *)

AttrsType == [Keys -> [by : {"none", "own", "trace"}, size : Nat]]

(* attr are the span's attributes; sz, mk and ex the books about them.     *)
Matches(attr, sz, mk, ex) ==
  /\ attr \in AttrsType /\ sz \in [Keys -> Nat]
  /\ Limits(sz)
  /\ \A k \in Keys : sz[k] = IF attr[k].by = "own" THEN attr[k].size ELSE 0
  /\ mk = {k \in MetaKeys : attr[k].by = "own"}
  /\ Cardinality(mk) <= MaxMetadataEntries
  /\ ex = {k \in {"version"} : attr[k].by = "own"}

LEMMA LastIsNewest ==
  ASSUME NEW kept \in Seq(AttrType), NEW k, NEW m, Newest(kept, k, m)
  PROVE  LastOf(kept, k).size = m
<1> DEFINE Is(i) == kept[i].key = k /\ \A j \in DOMAIN kept : kept[j].key = k => j <= i
<1>1. PICK i \in DOMAIN kept : Is(i) /\ kept[i].size = m BY DEF Newest
<1>2. DOMAIN kept \subseteq Int OBVIOUS
<1>3. \A j \in DOMAIN kept : Is(j) => j = i BY <1>1, <1>2
<1>4. (CHOOSE j \in DOMAIN kept : Is(j)) = i BY <1>1, <1>3
<1> QED BY <1>1, <1>4 DEF LastOf

(* Setting what the budget let through keeps the books right.              *)
LEMMA MatchesStill ==
  ASSUME NEW attr, NEW sz, NEW mk, NEW ex, Matches(attr, sz, mk, ex),
         NEW attrs \in Seq(AttrType), NEW fit \in Books(sz, KeysOf(attrs)),
         Cardinality(mk \cup (KeysOf(attrs) \cap MetaKeys)) <= MaxMetadataEntries
  PROVE  Matches(SetAttributes(attr, fit.kept, "own"), fit.sizes,
                 mk \cup (KeysOf(fit.kept) \cap MetaKeys), ex \cup acceptedExplicitAttributes(fit.kept))
<1>1. /\ fit.sizes \in [Keys -> Nat] /\ fit.kept \in Seq(AttrType) /\ Limits(fit.sizes)
      /\ KeysOf(fit.kept) \subseteq KeysOf(attrs)
      /\ \A k \in KeysOf(fit.kept) : Newest(fit.kept, k, fit.sizes[k])
      /\ \A k \in Keys \ KeysOf(fit.kept) : fit.sizes[k] = sz[k]
  BY DEF Books
<1>2. PICK sz2 : sz2 = fit.sizes OBVIOUS
<1>3. PICK kept : kept = fit.kept OBVIOUS
<1>4. PICK attr2 : attr2 = SetAttributes(attr, kept, "own") OBVIOUS
<1>5. KeysOf(kept) \subseteq Keys BY <1>1, <1>3, ElementsAreAttrs
<1>6. \A k \in KeysOf(kept) : /\ attr2[k] \in [by : {"own"}, size : Nat]
                              /\ attr2[k].by = "own" /\ attr2[k].size = sz2[k]
  <2> TAKE k \in KeysOf(kept)
  <2>1. Newest(kept, k, sz2[k]) BY <1>1, <1>2, <1>3
  <2>2. LastOf(kept, k).size = sz2[k] BY <2>1, <1>1, <1>3, LastIsNewest
  <2>3. PICK r : r = [by |-> "own", size |-> sz2[k]] OBVIOUS
  <2>4. sz2[k] \in Nat BY <1>1, <1>2, <1>5
  <2>5. r \in [by : {"own"}, size : Nat] /\ r.by = "own" /\ r.size = sz2[k] BY <2>3, <2>4
  <2>6. attr2[k] = r BY <2>2, <2>3, <1>4, <1>5 DEF SetAttributes
  <2> QED BY <2>5, <2>6
<1>7. \A k \in Keys \ KeysOf(kept) : attr2[k] = attr[k] BY <1>4 DEF SetAttributes
<1>8. attr2 \in AttrsType
  <2>1. attr2 = [k \in Keys |-> attr2[k]] BY <1>4 DEF SetAttributes
  <2>2. \A k \in Keys : attr2[k] \in [by : {"none", "own", "trace"}, size : Nat]
    <3> TAKE k \in Keys
    <3>1. CASE k \in KeysOf(kept)
      <4>1. attr2[k] \in [by : {"own"}, size : Nat] BY <3>1, <1>6
      <4> QED BY <4>1
    <3>2. CASE k \notin KeysOf(kept)
      <4>1. attr[k] \in [by : {"none", "own", "trace"}, size : Nat] BY DEF Matches, AttrsType
      <4> QED BY <3>2, <4>1, <1>7
    <3> QED BY <3>1, <3>2
  <2> QED BY <2>1, <2>2 DEF AttrsType
<1>9. \A k \in Keys : sz2[k] = IF attr2[k].by = "own" THEN attr2[k].size ELSE 0
  <2> TAKE k \in Keys
  <2>1. CASE k \in KeysOf(kept) BY <2>1, <1>6
  <2>2. CASE k \notin KeysOf(kept)
    <3>1. sz2[k] = sz[k] /\ attr2[k] = attr[k] BY <2>2, <1>1, <1>2, <1>3, <1>7
    <3> QED BY <3>1 DEF Matches
  <2> QED BY <2>1, <2>2
<1>10. \A k \in Keys : attr2[k].by = "own" <=> (attr[k].by = "own" \/ k \in KeysOf(kept))
  BY <1>6, <1>7
<1>11. PICK mk2 : mk2 = mk \cup (KeysOf(kept) \cap MetaKeys) OBVIOUS
<1>12. mk2 = {k \in MetaKeys : attr2[k].by = "own"}
  <2>1. MetaKeys \subseteq Keys BY DEF Keys
  <2>2. mk = {k \in MetaKeys : attr[k].by = "own"} BY DEF Matches
  <2> QED BY <2>1, <2>2, <1>10, <1>11
<1>13. Cardinality(mk2) <= MaxMetadataEntries
  <2>1. PICK all : all = mk \cup (KeysOf(attrs) \cap MetaKeys) OBVIOUS
  <2>2. all \in SUBSET MetaKeys BY <2>1 DEF Matches
  <2>3. IsFiniteSet(all) BY <2>2, FS_Subset, MetaKeysFinite
  <2>4. mk2 \in SUBSET all BY <1>1, <1>3, <1>11, <2>1
  <2>5. IsFiniteSet(mk2) /\ Cardinality(mk2) <= Cardinality(all) BY <2>3, <2>4, FS_Subset
  <2>6. PICK m \in Nat : m = Cardinality(mk2) BY <2>5, FS_CardinalityType
  <2>7. PICK n \in Nat : n = Cardinality(all) BY <2>3, FS_CardinalityType
  <2>8. MaxMetadataEntries \in Nat BY LimitsAssumption
  <2> QED BY <2>1, <2>5, <2>6, <2>7, <2>8
<1>14. ex \cup acceptedExplicitAttributes(kept) = {k \in {"version"} : attr2[k].by = "own"}
  <2>1. "version" \in Keys BY DEF Keys
  <2>2. ex = {k \in {"version"} : attr[k].by = "own"} BY DEF Matches
  <2> QED BY <2>1, <2>2, <1>10 DEF acceptedExplicitAttributes
<1>15. Limits(sz2) /\ sz2 \in [Keys -> Nat] BY <1>1, <1>2
<1>16. Matches(attr2, sz2, mk2, ex \cup acceptedExplicitAttributes(kept))
  BY <1>8, <1>9, <1>12, <1>13, <1>14, <1>15 DEF Matches
<1> QED BY <1>16, <1>2, <1>3, <1>4, <1>11

LEMMA NothingMatches == Matches(NoAttributes, NoSizes, {}, {})
<1>1. NoSizes \in [Keys -> Nat] /\ NoAttributes \in AttrsType BY DEF NoSizes, NoAttributes, AttrsType
<1>2. \A k \in Keys : NoSizes[k] = 0 /\ NoAttributes[k].by = "none" BY DEF NoSizes, NoAttributes
<1>3. Limits(NoSizes)
  <2>1. Total(NoSizes) = 0 BY TotalOfNothing
  <2>2. NoSizes["level"] = 0 /\ NoSizes["status"] = 0 BY <1>2 DEF Keys, ErrorKeys
  <2>3. MaxBytes \in Nat /\ MaxDataBytes \in Nat BY LimitsAssumption
  <2> QED BY <2>1, <2>2, <2>3 DEF Limits
<1>4. "version" \in Keys /\ MetaKeys \subseteq Keys BY DEF Keys
<1>5. Cardinality({}) = 0 /\ MaxMetadataEntries \in Nat BY FS_EmptySet, LimitsAssumption
<1>6. Cardinality({}) <= MaxMetadataEntries BY <1>5
<1>7. {} = {k \in MetaKeys : NoAttributes[k].by = "own"} BY <1>2, <1>4
<1>8. {} = {k \in {"version"} : NoAttributes[k].by = "own"} BY <1>2, <1>4
<1> QED BY <1>1, <1>2, <1>3, <1>6, <1>7, <1>8 DEF Matches

TraceVersion == [by |-> "trace", size |-> VersionBytes]

(* Trace state sets a version the observation has not set itself.          *)
LEMMA TraceMatches ==
  ASSUME NEW attr, NEW sz, NEW mk, NEW ex, Matches(attr, sz, mk, ex), attr["version"].by # "own"
  PROVE  Matches([attr EXCEPT !["version"] = TraceVersion], sz, mk, ex)
<1>1. PICK attr2 : attr2 = [attr EXCEPT !["version"] = TraceVersion] OBVIOUS
<1>2. "version" \in Keys /\ "version" \notin MetaKeys /\ MetaKeys \subseteq Keys
  BY InputsAssumption DEF Keys
<1>3. attr \in AttrsType BY DEF Matches
<1>4. attr2["version"] = TraceVersion /\ \A k \in Keys : k # "version" => attr2[k] = attr[k]
  BY <1>1, <1>2, <1>3 DEF AttrsType
<1>5. VersionBytes \in Nat BY LimitsAssumption
<1>6. TraceVersion \in [by : {"none", "own", "trace"}, size : Nat] /\ TraceVersion.by = "trace"
  BY <1>5 DEF TraceVersion
<1>7. attr2 \in AttrsType BY <1>1, <1>3, <1>6 DEF AttrsType
<1>8. \A k \in Keys : sz[k] = IF attr2[k].by = "own" THEN attr2[k].size ELSE 0
  <2> TAKE k \in Keys
  <2>1. CASE k = "version"
    <3>1. attr2[k].by # "own" BY <2>1, <1>4, <1>6
    <3> QED BY <2>1, <3>1 DEF Matches
  <2>2. CASE k # "version" BY <2>2, <1>4 DEF Matches
  <2> QED BY <2>1, <2>2
<1>9. mk = {k \in MetaKeys : attr2[k].by = "own"} BY <1>2, <1>4 DEF Matches
<1>10. ex = {k \in {"version"} : attr2[k].by = "own"} BY <1>4, <1>6 DEF Matches
<1>11. Matches(attr2, sz, mk, ex) BY <1>7, <1>8, <1>9, <1>10 DEF Matches
<1> QED BY <1>1, <1>11

-----------------------------------------------------------------------------
(* The invariant                                                           *)

Stages == {"idle", "build", "apply", "message", "record", "end", "done"}

CallType == [at : Stages, input : Seq(Inputs), attrs : Seq(AttrType), existing : SUBSET MetaKeys,
             error : Messages \cup {0}]

SpanType == [attr : AttrsType, level : {"none", "DEFAULT", "ERROR"}, failed : BOOLEAN,
             events : Nat, open : BOOLEAN]

(* What a call in this stage holds.                                        *)
Carries(r) ==
  /\ r.at \in {"build", "apply"} => \E v \in Inputs : r.input = <<v>>
  /\ r.at = "record" => r.error \in Messages

(* The calls that hold an error slot and have not recorded their error.    *)
HoldsSlot(r) == r.at \in {"message", "record"}
Pending == {c \in Calls : HoldsSlot(call[c])}

CallsHold == call \in [Calls -> CallType] /\ \A c \in Calls : Carries(call[c])
BooksHold == Matches(span.attr, sizes, metadataKeys, explicit) /\ bytes = Total(sizes)
SlotsHold ==
  /\ errorEvents \in 0..MaxErrorEvents
  /\ IsFiniteSet(Pending) /\ Cardinality(Pending) + span.events <= errorEvents

Inv ==
  /\ stopped \in BOOLEAN /\ ended \in BOOLEAN /\ span \in SpanType
  /\ CallsHold /\ BooksHold /\ SlotsHold

LEMMA InvImplies == Inv => AccountExact
<1> SUFFICES ASSUME Inv PROVE AccountExact
  OBVIOUS
<1>1. CallsHold /\ BooksHold /\ SlotsHold /\ span \in SpanType BY DEF Inv
<1>2. Matches(span.attr, sizes, metadataKeys, explicit) /\ bytes = Total(sizes) BY <1>1 DEF BooksHold
<1>3. sizes \in [Keys -> Nat] /\ bytes \in Nat BY <1>2, TotalType DEF Matches
<1>4. span \in [attr : [Keys -> [by : {"none", "own", "trace"}, size : Nat]],
                level : {"none", "DEFAULT", "ERROR"}, failed : BOOLEAN,
                events : 0..MaxErrorEvents, open : BOOLEAN]
  <2>1. span.events \in 0..MaxErrorEvents
    <3>1. PICK n \in Nat : n = Cardinality(Pending) BY <1>1, FS_CardinalityType DEF SlotsHold
    <3>2. span.events \in Nat BY <1>1 DEF SpanType
    <3>3. errorEvents \in 0..MaxErrorEvents /\ n + span.events <= errorEvents /\ MaxErrorEvents \in Nat
      BY <1>1, <3>1, LimitsAssumption DEF SlotsHold
    <3> QED BY <3>2, <3>3
  <2> QED BY <2>1, <1>1 DEF SpanType, AttrsType
<1>5. \A c \in Calls :
        /\ call[c].at \in {"idle", "build", "apply", "message", "record", "end", "done"}
        /\ call[c].existing \subseteq MetaKeys /\ call[c].error \in Messages \cup {0}
        /\ call[c].attrs \in Seq(AttrType)
  <2> TAKE c \in Calls
  <2>1. call[c] \in CallType BY <1>1 DEF CallsHold
  <2> QED BY <2>1 DEF CallType, Stages
<1>6. metadataKeys \subseteq MetaKeys /\ explicit \subseteq {"version"} BY <1>2 DEF Matches
<1>7. errorEvents \in 0..MaxErrorEvents BY <1>1 DEF SlotsHold
<1>8. TypeOK BY <1>3, <1>4, <1>5, <1>6, <1>7 DEF Inv, TypeOK
<1>9. bytes <= MaxBytes /\ bytes - sizes["level"] - sizes["status"] <= MaxDataBytes
  BY <1>2 DEF Matches, Limits
<1> QED BY <1>2, <1>8, <1>9 DEF AccountExact, Matches

LEMMA BooksFrame ==
  ASSUME BooksHold, UNCHANGED <<sizes, bytes, metadataKeys, explicit, span.attr>>
  PROVE  BooksHold'
BY DEF BooksHold, Matches

(* One call goes on.                                                       *)
LEMMA CallGoes ==
  ASSUME CallsHold, NEW c \in Calls, NEW r \in CallType, Carries(r), call' = [call EXCEPT ![c] = r]
  PROVE  /\ CallsHold'
         /\ HoldsSlot(r) => Pending' = Pending \cup {c}
         /\ ~HoldsSlot(r) => Pending' = Pending \ {c}
<1>1. call \in [Calls -> CallType] /\ \A d \in Calls : Carries(call[d]) BY DEF CallsHold
<1>2. call'[c] = r /\ \A d \in Calls : d # c => call'[d] = call[d] BY <1>1
<1>3. call' \in [Calls -> CallType] BY <1>1
<1>4. \A d \in Calls : Carries(call'[d]) BY <1>1, <1>2
<1>5. CallsHold' BY <1>3, <1>4 DEF CallsHold, Carries
<1>6. \A d : d \in Pending <=> (d \in Calls /\ HoldsSlot(call[d])) BY DEF Pending
<1>7. \A d : d \in Pending' <=> (d \in Calls /\ HoldsSlot(call'[d])) BY DEF Pending, HoldsSlot
<1>8. ASSUME HoldsSlot(r) PROVE Pending' = Pending \cup {c}
  BY <1>2, <1>6, <1>7, <1>8
<1>9. ASSUME ~HoldsSlot(r) PROVE Pending' = Pending \ {c}
  BY <1>2, <1>6, <1>7, <1>9
<1> QED BY <1>5, <1>8, <1>9

(* A call without a slot goes on without one, or one gives its slot up.    *)
LEMMA SlotsFrame ==
  ASSUME SlotsHold, NEW c, span.events \in Nat, Pending' = Pending \ {c},
         UNCHANGED <<errorEvents, span.events>>
  PROVE  SlotsHold'
<1>1. IsFiniteSet(Pending) BY DEF SlotsHold
<1>2. PICK n \in Nat : n = Cardinality(Pending) BY <1>1, FS_CardinalityType
<1>3. IsFiniteSet(Pending \ {c})
      /\ Cardinality(Pending \ {c}) = IF c \in Pending THEN Cardinality(Pending) - 1 ELSE Cardinality(Pending)
  BY <1>1, FS_RemoveElement
<1>4. PICK m : m = Cardinality(Pending \ {c}) OBVIOUS
<1>5. PICK P : P = Pending \ {c} OBVIOUS
<1>6. m \in Int /\ m <= n BY <1>2, <1>3, <1>4
<1>7. n + span.events <= errorEvents /\ errorEvents \in 0..MaxErrorEvents BY <1>2 DEF SlotsHold
<1>8. m + span.events <= errorEvents BY <1>6, <1>7, LimitsAssumption
<1>9. IsFiniteSet(P) /\ Cardinality(P) = m BY <1>3, <1>4, <1>5
<1>10. IsFiniteSet(Pending') /\ Cardinality(Pending') = m BY <1>9, <1>5
<1> QED BY <1>7, <1>8, <1>10 DEF SlotsHold

LEMMA IdleType ==
  /\ IdleCall \in CallType /\ IdleCall.at = "idle"
  /\ \A at \in Stages : [IdleCall EXCEPT !.at = at] \in CallType /\ [IdleCall EXCEPT !.at = at].at = at
  /\ [IdleCall EXCEPT !.at = "done"] \in CallType /\ [IdleCall EXCEPT !.at = "done"].at = "done"
<1>1. IdleCall \in CallType
  <2>1. <<>> \in Seq(Inputs) /\ <<>> \in Seq(AttrType) OBVIOUS
  <2> QED BY <2>1 DEF IdleCall, CallType, Stages
<1>2. IdleCall.at = "idle" BY DEF IdleCall
<1>3. \A at \in Stages : [IdleCall EXCEPT !.at = at] \in CallType /\ [IdleCall EXCEPT !.at = at].at = at
  BY <1>1 DEF CallType
<1>4. "done" \in Stages BY DEF Stages
<1> QED BY <1>1, <1>2, <1>3, <1>4

(* A call that is done without changing what the books are about.          *)
LEMMA DoneKeeps ==
  ASSUME CallsHold, NEW c \in Calls, Done(c)
  PROVE  CallsHold' /\ Pending' = Pending \ {c}
<1>1. PICK r : r = [IdleCall EXCEPT !.at = "done"] OBVIOUS
<1>2. r \in CallType /\ r.at = "done" BY <1>1, IdleType
<1>3. Carries(r) BY <1>2 DEF Carries
<1>4. call' = [call EXCEPT ![c] = r] BY <1>1 DEF Done, Went
<1>5. ~HoldsSlot(r) BY <1>2 DEF HoldsSlot
<1> QED BY <1>2, <1>3, <1>4, <1>5, CallGoes

-----------------------------------------------------------------------------
(* Steps of the invariant                                                  *)

LEMMA TypesOf ==
  ASSUME Inv
  PROVE  /\ span \in SpanType /\ span.events \in Nat /\ CallsHold /\ BooksHold /\ SlotsHold
         /\ stopped \in BOOLEAN /\ ended \in BOOLEAN
         /\ \A c \in Calls : call[c] \in CallType /\ Carries(call[c])
BY DEF Inv, SpanType, CallsHold

(* A step of one call that touches neither the span nor the books.         *)
LEMMA QuietStep ==
  ASSUME Inv, NEW c \in Calls, CallsHold', Pending' = Pending \ {c},
         stopped' \in BOOLEAN, ended' \in BOOLEAN,
         UNCHANGED <<metadataKeys, sizes, bytes, explicit, errorEvents, span>>
  PROVE  Inv'
<1>1. span' \in SpanType BY TypesOf
<1>2. BooksHold' BY TypesOf, BooksFrame
<1>3. SlotsHold' BY TypesOf, SlotsFrame
<1> QED BY <1>1, <1>2, <1>3 DEF Inv

LEMMA InvUpdateBegin == ASSUME Inv, NEW c \in Calls, UpdateBegin(c) PROVE Inv'
<1>1. UNCHANGED <<stopped, ended, metadataKeys, sizes, bytes, explicit, errorEvents, span>>
  BY DEF UpdateBegin, handleVars
<1>2. CASE Done(c) BY <1>1, <1>2, DoneKeeps, QuietStep, TypesOf
<1>3. CASE ~Done(c)
  <2>1. PICK v \in Inputs :
          Went(c, [IdleCall EXCEPT !.at = "build", !.input = <<v>>, !.existing = metadataKeys])
    BY <1>3 DEF UpdateBegin
  <2>2. PICK r : r = [IdleCall EXCEPT !.at = "build", !.input = <<v>>, !.existing = metadataKeys] OBVIOUS
  <2>3. metadataKeys \in SUBSET MetaKeys BY TypesOf DEF BooksHold, Matches
  <2>4. r \in CallType /\ r.at = "build" /\ r.input = <<v>>
    <3>1. <<v>> \in Seq(Inputs) OBVIOUS
    <3> QED BY <2>2, <2>3, <3>1, IdleType DEF CallType, Stages
  <2>5. Carries(r) /\ ~HoldsSlot(r) BY <2>4 DEF Carries, HoldsSlot
  <2>6. call' = [call EXCEPT ![c] = r] BY <2>1, <2>2 DEF Went
  <2>7. CallsHold' /\ Pending' = Pending \ {c} BY <2>4, <2>5, <2>6, CallGoes, TypesOf
  <2> QED BY <1>1, <2>7, QuietStep, TypesOf
<1> QED BY <1>2, <1>3

LEMMA InvUpdateBuild == ASSUME Inv, NEW c \in Calls, UpdateBuild(c) PROVE Inv'
<1>1. UNCHANGED <<stopped, ended, metadataKeys, sizes, bytes, explicit, errorEvents, span>>
  BY DEF UpdateBuild, handleVars
<1>2. CASE Done(c) BY <1>1, <1>2, DoneKeeps, QuietStep, TypesOf
<1>3. CASE ~Done(c)
  <2>1. PICK w : w = buildObservationAttributes(call[c].input[1], call[c].existing) OBVIOUS
  <2>2. PICK r : r = [call[c] EXCEPT !.at = "apply", !.existing = {}, !.attrs = w] OBVIOUS
  <2>3. call' = [call EXCEPT ![c] = r] BY <1>3, <2>1, <2>2 DEF UpdateBuild, Went
  <2>4. call[c].at = "build" BY DEF UpdateBuild
  <2>5. call[c] \in CallType /\ Carries(call[c]) BY TypesOf
  <2>6. PICK v \in Inputs : call[c].input = <<v>> BY <2>4, <2>5 DEF Carries
  <2>7. call[c].input[1] = v BY <2>6
  <2>8. call[c].existing \in SUBSET MetaKeys BY <2>5 DEF CallType
  <2>9. w \in Seq(AttrType) BY <2>1, <2>7, <2>8, BuildType
  <2>10. r \in CallType /\ r.at = "apply" /\ r.input = <<v>>
    BY <2>2, <2>5, <2>6, <2>9 DEF CallType, Stages
  <2>11. Carries(r) /\ ~HoldsSlot(r) BY <2>10 DEF Carries, HoldsSlot
  <2>12. CallsHold' /\ Pending' = Pending \ {c} BY <2>3, <2>10, <2>11, CallGoes, TypesOf
  <2> QED BY <1>1, <2>12, QuietStep, TypesOf
<1> QED BY <1>2, <1>3

LEMMA InvUpdateApply == ASSUME Inv, NEW c \in Calls, UpdateApply(c) PROVE Inv'
<1>1. call[c].at = "apply" /\ Done(c) /\ UNCHANGED stopped BY DEF UpdateApply
<1>2. CallsHold' /\ Pending' = Pending \ {c} BY <1>1, DoneKeeps, TypesOf
<1>3. CASE EndedMeanwhile(c)
  <2>1. UNCHANGED <<ended, metadataKeys, sizes, bytes, explicit, errorEvents, span>>
    BY <1>3 DEF UpdateApply, handleVars
  <2> QED BY <1>1, <1>2, <2>1, QuietStep, TypesOf
<1>4. CASE ~EndedMeanwhile(c)
  <2>1. PICK v \in Inputs : call[c].input = <<v>> BY <1>1, TypesOf DEF Carries
  <2>2. call[c].input[1] = v BY <2>1
  <2>3. call[c].attrs \in Seq(AttrType) BY TypesOf DEF CallType
  <2>4. PICK w : w = WithinMetadata(call[c].attrs) OBVIOUS
  <2>5. PICK fit : fit = fitObservationAttributeBudget(w, sizes, bytes) OBVIOUS
  <2>6. /\ sizes' = fit.sizes /\ bytes' = fit.used
        /\ metadataKeys' = metadataKeys \cup Recorded(call[c].attrs, fit.kept)
        /\ explicit' = explicit \cup acceptedExplicitAttributes(fit.kept)
        /\ UNCHANGED <<ended, errorEvents>>
    BY <1>4, <2>4, <2>5 DEF UpdateApply
  <2>7. span' = [span EXCEPT
               !.attr = SetAttributes(@, fit.kept, "own"),
               !.level = IF "level" \in KeysOf(fit.kept) THEN v.level ELSE @,
               !.failed = @ \/ v.level = "ERROR"]
    BY <1>4, <2>2, <2>4, <2>5 DEF UpdateApply
  <2>8. BooksHold BY TypesOf
  <2>9. w \in Seq(AttrType) /\ Cardinality(metadataKeys \cup (KeysOf(w) \cap MetaKeys)) <= MaxMetadataEntries
    BY <2>3, <2>4, <2>8, WithinFits DEF BooksHold, Matches
  <2>10. fit \in Books(sizes, KeysOf(w)) BY <2>5, <2>8, <2>9, FitBooks DEF BooksHold, Matches
  <2>11. Matches(SetAttributes(span.attr, fit.kept, "own"), fit.sizes,
                 metadataKeys \cup (KeysOf(fit.kept) \cap MetaKeys), explicit \cup acceptedExplicitAttributes(fit.kept))
    BY <2>8, <2>9, <2>10, MatchesStill DEF BooksHold
  <2>12. v.level \in {"none", "DEFAULT", "ERROR"} BY InputsAssumption DEF InputType
  <2>13. SetAttributes(span.attr, fit.kept, "own") \in AttrsType BY <2>11 DEF Matches
  <2>14. span' \in SpanType /\ span'.attr = SetAttributes(span.attr, fit.kept, "own")
         /\ span'.events = span.events
    <3>1. PICK attr \in AttrsType : attr = SetAttributes(span.attr, fit.kept, "own") BY <2>13
    <3>2. PICK level \in {"none", "DEFAULT", "ERROR"} :
            level = IF "level" \in KeysOf(fit.kept) THEN v.level ELSE span.level
      BY <2>12, TypesOf DEF SpanType
    <3>3. PICK failed \in BOOLEAN : failed = (span.failed \/ v.level = "ERROR")
      BY TypesOf DEF SpanType
    <3>4. span' = [span EXCEPT !.attr = attr, !.level = level, !.failed = failed]
      BY <2>7, <3>1, <3>2, <3>3
    <3> QED BY <3>1, <3>4, TypesOf DEF SpanType
  <2>15. BooksHold'
    <3>1. fit.used = Total(fit.sizes) BY <2>10 DEF Books
    <3>2. Matches(span'.attr, sizes', metadataKeys', explicit') BY <2>6, <2>11, <2>14 DEF Recorded
    <3> QED BY <2>6, <3>1, <3>2 DEF BooksHold, Total, MetadataTotal
  <2>16. SlotsHold' BY <1>2, <2>6, <2>14, SlotsFrame, TypesOf
  <2> QED BY <1>1, <1>2, <2>6, <2>14, <2>15, <2>16, TypesOf DEF Inv
<1> QED BY <1>3, <1>4

LEMMA InvErrorBegin == ASSUME Inv, NEW c \in Calls, ErrorBegin(c) PROVE Inv'
<1>1. UNCHANGED <<stopped, ended, metadataKeys, sizes, bytes, explicit, span>> BY DEF ErrorBegin
<1>2. CASE stopped \/ ended \/ errorEvents >= MaxErrorEvents
  <2>1. Done(c) /\ UNCHANGED errorEvents BY <1>2 DEF ErrorBegin
  <2> QED BY <1>1, <2>1, DoneKeeps, QuietStep, TypesOf
<1>3. CASE ~(stopped \/ ended \/ errorEvents >= MaxErrorEvents)
  <2>1. PICK r : r = [IdleCall EXCEPT !.at = "message"] OBVIOUS
  <2>2. "message" \in Stages BY DEF Stages
  <2>3. r \in CallType /\ r.at = "message" BY <2>1, <2>2, IdleType
  <2>4. Carries(r) /\ HoldsSlot(r) BY <2>3 DEF Carries, HoldsSlot
  <2>5. call' = [call EXCEPT ![c] = r] /\ errorEvents' = errorEvents + 1
    BY <1>3, <2>1 DEF ErrorBegin, Went, Reserved
  <2>6. CallsHold' /\ Pending' = Pending \cup {c} BY <2>3, <2>4, <2>5, CallGoes, TypesOf
  <2>7. SlotsHold'
    <3>1. IsFiniteSet(Pending) /\ errorEvents \in 0..MaxErrorEvents BY TypesOf DEF SlotsHold
    <3>2. PICK n \in Nat : n = Cardinality(Pending) BY <3>1, FS_CardinalityType
    <3>3. n + span.events <= errorEvents BY <3>2, TypesOf DEF SlotsHold
    <3>4. PICK P : P = Pending \cup {c} OBVIOUS
    <3>5. IsFiniteSet(P) /\ Cardinality(P) \in {n, n + 1} BY <3>1, <3>2, <3>4, FS_AddElement
    <3>6. PICK m \in {n, n + 1} : m = Cardinality(P) BY <3>5
    <3>7. MaxErrorEvents \in Nat /\ span.events \in Nat BY LimitsAssumption, TypesOf
    <3>8. m + span.events <= errorEvents + 1 BY <3>1, <3>3, <3>6, <3>7
    <3>9. errorEvents + 1 \in 0..MaxErrorEvents BY <1>3, <3>1, <3>7
    <3> QED BY <1>1, <2>5, <2>6, <3>4, <3>5, <3>6, <3>8, <3>9 DEF SlotsHold
  <2>8. BooksHold' BY <1>1, TypesOf, BooksFrame
  <2> QED BY <1>1, <2>6, <2>7, <2>8, TypesOf DEF Inv
<1> QED BY <1>2, <1>3

LEMMA InvErrorMessage == ASSUME Inv, NEW c \in Calls, ErrorMessage(c) PROVE Inv'
<1>1. UNCHANGED <<stopped, ended, metadataKeys, sizes, bytes, explicit, errorEvents, span>>
  BY DEF ErrorMessage, handleVars
<1>2. CASE stopped
  <2>1. Done(c) BY <1>2 DEF ErrorMessage
  <2> QED BY <1>1, <2>1, DoneKeeps, QuietStep, TypesOf
<1>3. CASE ~stopped
  <2>1. PICK n \in Messages : Went(c, [call[c] EXCEPT !.at = "record", !.error = n])
    BY <1>3 DEF ErrorMessage
  <2>2. PICK r : r = [call[c] EXCEPT !.at = "record", !.error = n] OBVIOUS
  <2>3. call[c] \in CallType /\ call[c].at = "message" BY TypesOf DEF ErrorMessage
  <2>4. r \in CallType /\ r.at = "record" /\ r.error = n BY <2>2, <2>3 DEF CallType, Stages
  <2>5. Carries(r) /\ HoldsSlot(r) BY <2>4 DEF Carries, HoldsSlot
  <2>6. call' = [call EXCEPT ![c] = r] BY <2>1, <2>2 DEF Went
  <2>7. CallsHold' /\ Pending' = Pending \cup {c} BY <2>4, <2>5, <2>6, CallGoes, TypesOf
  <2>8. c \in Pending BY <2>3 DEF Pending, HoldsSlot
  <2>9. Pending' = Pending BY <2>7, <2>8
  <2>10. SlotsHold' BY <1>1, <2>9, TypesOf DEF SlotsHold
  <2>11. BooksHold' BY <1>1, TypesOf, BooksFrame
  <2> QED BY <1>1, <2>7, <2>10, <2>11, TypesOf DEF Inv
<1> QED BY <1>2, <1>3

(* The attributes of an error, which are no metadata.                      *)
LEMMA ErrorAttrs ==
  ASSUME NEW n \in Messages
  PROVE  /\ <<Attr("level", LevelBytes), Attr("status", n)>> \in Seq(AttrType)
         /\ KeysOf(<<Attr("level", LevelBytes), Attr("status", n)>>) \subseteq {"level", "status"}
<1>1. PICK a : a = Attr("level", LevelBytes) OBVIOUS
<1>2. PICK b : b = Attr("status", n) OBVIOUS
<1>3. "level" \in Keys /\ "status" \in Keys BY DEF Keys, ErrorKeys
<1>4. LevelBytes \in Nat \ {0} /\ n \in Nat \ {0} BY LimitsAssumption
<1>5. a \in AttrType /\ a.key = "level" BY <1>1, <1>3, <1>4 DEF Attr, AttrType
<1>6. b \in AttrType /\ b.key = "status" BY <1>2, <1>3, <1>4 DEF Attr, AttrType
<1>7. <<a, b>> \in Seq(AttrType) /\ DOMAIN <<a, b>> = {1, 2} /\ <<a, b>>[1] = a /\ <<a, b>>[2] = b
  BY <1>5, <1>6
<1>8. KeysOf(<<a, b>>) \subseteq {"level", "status"} BY <1>5, <1>6, <1>7 DEF KeysOf
<1> QED BY <1>1, <1>2, <1>7, <1>8

LEMMA InvErrorRecord == ASSUME Inv, NEW c \in Calls, ErrorRecord(c) PROVE Inv'
<1>1. call[c].at = "record" /\ Done(c) /\ UNCHANGED <<stopped, ended, metadataKeys, explicit, errorEvents>>
  BY DEF ErrorRecord
<1>2. CallsHold' /\ Pending' = Pending \ {c} BY <1>1, DoneKeeps, TypesOf
<1>3. CASE ended
  <2>1. UNCHANGED <<sizes, bytes, span>> BY <1>3 DEF ErrorRecord
  <2> QED BY <1>1, <1>2, <2>1, QuietStep, TypesOf
<1>4. CASE ~ended
  <2>1. call[c].error \in Messages BY <1>1, TypesOf DEF Carries
  <2>2. PICK w : w = <<Attr("level", LevelBytes), Attr("status", call[c].error)>> OBVIOUS
  <2>3. PICK fit : fit = fitObservationAttributeBudget(w, sizes, bytes) OBVIOUS
  <2>4. sizes' = fit.sizes /\ bytes' = fit.used BY <1>4, <2>2, <2>3 DEF ErrorRecord
  <2>5. span' = [span EXCEPT
               !.attr = SetAttributes(@, fit.kept, "own"),
               !.level = IF "level" \in KeysOf(fit.kept) THEN "ERROR" ELSE @,
               !.failed = TRUE, !.events = @ + 1]
    BY <1>4, <2>2, <2>3 DEF ErrorRecord
  <2>6. w \in Seq(AttrType) /\ KeysOf(w) \subseteq {"level", "status"} BY <2>1, <2>2, ErrorAttrs
  <2>7. BooksHold BY TypesOf
  <2>8. {"level", "status"} \cap MetaKeys = {} BY InputsAssumption DEF ErrorKeys
  <2>9. metadataKeys \cup (KeysOf(w) \cap MetaKeys) = metadataKeys BY <2>6, <2>8
  <2>10. Cardinality(metadataKeys \cup (KeysOf(w) \cap MetaKeys)) <= MaxMetadataEntries
    BY <2>7, <2>9 DEF BooksHold, Matches
  <2>11. fit \in Books(sizes, KeysOf(w)) BY <2>3, <2>6, <2>7, FitBooks DEF BooksHold, Matches
  <2>12. Matches(SetAttributes(span.attr, fit.kept, "own"), fit.sizes,
                 metadataKeys \cup (KeysOf(fit.kept) \cap MetaKeys), explicit \cup acceptedExplicitAttributes(fit.kept))
    BY <2>6, <2>7, <2>10, <2>11, MatchesStill DEF BooksHold
  <2>13. KeysOf(fit.kept) \subseteq {"level", "status"} BY <2>6, <2>11 DEF Books
  <2>14. metadataKeys \cup (KeysOf(fit.kept) \cap MetaKeys) = metadataKeys BY <2>8, <2>13
  <2>15. explicit \cup acceptedExplicitAttributes(fit.kept) = explicit
    BY <2>13 DEF acceptedExplicitAttributes
  <2>16. SetAttributes(span.attr, fit.kept, "own") \in AttrsType BY <2>12 DEF Matches
  <2>17. span' \in SpanType /\ span'.attr = SetAttributes(span.attr, fit.kept, "own")
         /\ span'.events = span.events + 1
    <3>1. PICK attr \in AttrsType : attr = SetAttributes(span.attr, fit.kept, "own") BY <2>16
    <3>2. PICK level \in {"none", "DEFAULT", "ERROR"} :
            level = IF "level" \in KeysOf(fit.kept) THEN "ERROR" ELSE span.level
      BY TypesOf DEF SpanType
    <3>3. span' = [span EXCEPT !.attr = attr, !.level = level, !.failed = TRUE, !.events = span.events + 1]
      BY <2>5, <3>1, <3>2
    <3>4. span.events + 1 \in Nat BY TypesOf
    <3> QED BY <3>1, <3>3, <3>4, TypesOf DEF SpanType
  <2>18. BooksHold'
    <3>1. fit.used = Total(fit.sizes) BY <2>11 DEF Books
    <3>2. Matches(span'.attr, sizes', metadataKeys', explicit')
      BY <1>1, <2>4, <2>12, <2>14, <2>15, <2>17
    <3> QED BY <2>4, <3>1, <3>2 DEF BooksHold, Total, MetadataTotal
  <2>19. SlotsHold'
    <3>1. IsFiniteSet(Pending) /\ errorEvents \in 0..MaxErrorEvents BY TypesOf DEF SlotsHold
    <3>2. PICK n \in Nat : n = Cardinality(Pending) BY <3>1, FS_CardinalityType
    <3>3. n + span.events <= errorEvents BY <3>2, TypesOf DEF SlotsHold
    <3>4. c \in Pending BY <1>1 DEF Pending, HoldsSlot
    <3>5. PICK P : P = Pending \ {c} OBVIOUS
    <3>6. IsFiniteSet(P) /\ Cardinality(P) = n - 1 BY <3>1, <3>2, <3>4, <3>5, FS_RemoveElement
    <3>7. span.events \in Nat BY TypesOf
    <3>8. n - 1 + (span.events + 1) <= errorEvents BY <3>1, <3>3, <3>7
    <3>9. IsFiniteSet(Pending') /\ Cardinality(Pending') = n - 1 BY <1>2, <3>5, <3>6
    <3>10. span'.events = span.events + 1 /\ errorEvents' = errorEvents BY <1>1, <2>17
    <3> QED BY <3>1, <3>8, <3>9, <3>10 DEF SlotsHold
  <2> QED BY <1>1, <1>2, <2>17, <2>18, <2>19, TypesOf DEF Inv
<1> QED BY <1>3, <1>4

LEMMA InvEnd == ASSUME Inv, NEW c \in Calls, endOnce(c) PROVE Inv'
<1>1. CASE EndMark(c)
  <2>1. UNCHANGED <<stopped, metadataKeys, sizes, bytes, explicit, errorEvents, span>> BY <1>1 DEF EndMark
  <2>2. CASE ended
    <3>1. Done(c) /\ UNCHANGED ended BY <1>1, <2>2 DEF EndMark
    <3> QED BY <2>1, <3>1, DoneKeeps, QuietStep, TypesOf
  <2>3. CASE ~ended
    <3>1. PICK r : r = [IdleCall EXCEPT !.at = "end"] OBVIOUS
    <3>2. "end" \in Stages BY DEF Stages
    <3>3. r \in CallType /\ r.at = "end" BY <3>1, <3>2, IdleType
    <3>4. Carries(r) /\ ~HoldsSlot(r) BY <3>3 DEF Carries, HoldsSlot
    <3>5. call' = [call EXCEPT ![c] = r] /\ ended' = TRUE BY <1>1, <2>3, <3>1 DEF EndMark, Went
    <3>6. CallsHold' /\ Pending' = Pending \ {c} BY <3>3, <3>4, <3>5, CallGoes, TypesOf
    <3> QED BY <2>1, <3>5, <3>6, QuietStep, TypesOf
  <2> QED BY <2>2, <2>3
<1>2. CASE EndSpan(c)
  <2>1. Done(c) /\ UNCHANGED <<stopped, ended, metadataKeys, sizes, bytes, explicit, errorEvents>>
    BY <1>2 DEF EndSpan, handleVars
  <2>2. span' = [span EXCEPT !.open = FALSE] BY <1>2 DEF EndSpan
  <2>3. span' \in SpanType /\ span'.attr = span.attr /\ span'.events = span.events
    BY <2>2, TypesOf DEF SpanType
  <2>4. CallsHold' /\ Pending' = Pending \ {c} BY <2>1, DoneKeeps, TypesOf
  <2>5. BooksHold' BY <2>1, <2>3, TypesOf, BooksFrame
  <2>6. SlotsHold' BY <2>1, <2>3, <2>4, SlotsFrame, TypesOf
  <2> QED BY <2>1, <2>3, <2>4, <2>5, <2>6, TypesOf DEF Inv
<1> QED BY <1>1, <1>2 DEF endOnce

LEMMA InvTraceState == ASSUME Inv, NEW c \in Calls, applyTraceState(c) PROVE Inv'
<1>1. Done(c) /\ UNCHANGED <<stopped, ended, metadataKeys, sizes, bytes, explicit, errorEvents>>
  BY DEF applyTraceState, handleVars
<1>2. CallsHold' /\ Pending' = Pending \ {c} BY <1>1, DoneKeeps, TypesOf
<1>3. CASE ended \/ ~TraceMaySet("version")
  <2>1. span' = span BY <1>3 DEF applyTraceState
  <2> QED BY <1>1, <1>2, <2>1, QuietStep, TypesOf
<1>4. CASE ~(ended \/ ~TraceMaySet("version"))
  <2>1. PICK attr : attr = [span.attr EXCEPT !["version"] = TraceVersion] OBVIOUS
  <2>2. span' = [span EXCEPT !.attr = attr]
    <3>1. span' = [span EXCEPT !.attr["version"] = TraceVersion]
      BY <1>4 DEF applyTraceState, TraceVersion
    <3> QED BY <2>1, <3>1
  <2>3. Matches(span.attr, sizes, metadataKeys, explicit) /\ bytes = Total(sizes) BY TypesOf DEF BooksHold
  <2>4. span.attr["version"].by # "own" BY <1>4, <2>3 DEF TraceMaySet, Matches
  <2>5. Matches(attr, sizes, metadataKeys, explicit) BY <2>1, <2>3, <2>4, TraceMatches
  <2>6. attr \in AttrsType BY <2>5 DEF Matches
  <2>7. span' \in SpanType /\ span'.attr = attr /\ span'.events = span.events
    BY <2>2, <2>6, TypesOf DEF SpanType
  <2>8. BooksHold' BY <1>1, <2>3, <2>5, <2>7 DEF BooksHold
  <2>9. SlotsHold' BY <1>1, <1>2, <2>7, SlotsFrame, TypesOf
  <2> QED BY <1>1, <1>2, <2>7, <2>8, <2>9, TypesOf DEF Inv
<1> QED BY <1>3, <1>4

LEMMA InvStep == ASSUME Inv, [Next]_vars PROVE Inv'
<1>1. CASE Shutdown
  <2>1. stopped' = TRUE /\ UNCHANGED <<ended, metadataKeys, sizes, bytes, explicit, errorEvents, span, call>>
    BY <1>1 DEF Shutdown, handleVars
  <2> QED BY <2>1, TypesOf, BooksFrame DEF Inv, CallsHold, SlotsHold, Pending, HoldsSlot
<1>2. CASE UNCHANGED vars
  <2>1. UNCHANGED <<stopped, ended, metadataKeys, sizes, bytes, explicit, errorEvents, span, call>>
    BY <1>2 DEF vars, handleVars
  <2> QED BY <2>1, TypesOf, BooksFrame DEF Inv, CallsHold, SlotsHold, Pending, HoldsSlot
<1>3. ASSUME NEW c \in Calls, Update(c) PROVE Inv'
  BY <1>3, InvUpdateBegin, InvUpdateBuild, InvUpdateApply DEF Update
<1>4. ASSUME NEW c \in Calls, RecordError(c) PROVE Inv'
  BY <1>4, InvErrorBegin, InvErrorMessage, InvErrorRecord DEF RecordError
<1>5. ASSUME NEW c \in Calls, endOnce(c) \/ applyTraceState(c) PROVE Inv'
  BY <1>5, InvEnd, InvTraceState
<1> QED BY <1>1, <1>2, <1>3, <1>4, <1>5 DEF Next

LEMMA InvInit == Init => Inv
<1> SUFFICES ASSUME Init PROVE Inv
  OBVIOUS
<1>1. PICK v \in Inputs, traced \in BOOLEAN :
        LET fit == fitObservationAttributeBudget(buildObservationAttributes(v, {}),
                                                 [k \in Keys |-> 0], 0)
            attr == SetAttributes(NoAttributes, fit.kept, "own")
        IN /\ stopped = FALSE /\ ended = FALSE /\ errorEvents = 0
           /\ sizes = fit.sizes /\ bytes = fit.used
           /\ metadataKeys = KeysOf(fit.kept) \cap MetaKeys
           /\ explicit = acceptedExplicitAttributes(fit.kept)
           /\ span = [attr |-> IF traced /\ attr["version"].by = "none"
                                 THEN [attr EXCEPT !["version"] = [by |-> "trace", size |-> VersionBytes]]
                                 ELSE attr,
                      level |-> IF "level" \in KeysOf(fit.kept) THEN v.level ELSE "none",
                      failed |-> v.level = "ERROR", events |-> 0, open |-> TRUE]
           /\ call = [c \in Calls |-> IdleCall]
  BY DEF Init
<1>2. PICK w : w = buildObservationAttributes(v, {}) OBVIOUS
<1>3. PICK fit : fit = fitObservationAttributeBudget(w, NoSizes, 0) OBVIOUS
<1>4. PICK attr : attr = SetAttributes(NoAttributes, fit.kept, "own") OBVIOUS
<1>5. PICK last : last = IF traced /\ attr["version"].by = "none"
                           THEN [attr EXCEPT !["version"] = TraceVersion] ELSE attr
  OBVIOUS
<1>6. /\ stopped = FALSE /\ ended = FALSE /\ errorEvents = 0
      /\ sizes = fit.sizes /\ bytes = fit.used
      /\ metadataKeys = KeysOf(fit.kept) \cap MetaKeys
      /\ explicit = acceptedExplicitAttributes(fit.kept)
      /\ span = [attr |-> last, level |-> IF "level" \in KeysOf(fit.kept) THEN v.level ELSE "none",
                 failed |-> v.level = "ERROR", events |-> 0, open |-> TRUE]
      /\ call = [c \in Calls |-> IdleCall]
  BY <1>1, <1>2, <1>3, <1>4, <1>5 DEF NoSizes, TraceVersion
<1>7. w \in Seq(AttrType) /\ Cardinality(KeysOf(w) \cap MetaKeys) <= MaxMetadataEntries
  <2>1. {} \in SUBSET MetaKeys OBVIOUS
  <2> QED BY <1>2, <2>1, BuildType
<1>8. fit \in Books(NoSizes, KeysOf(w))
  <2>1. NoSizes \in [Keys -> Nat] /\ Limits(NoSizes) BY NothingMatches DEF Matches
  <2> QED BY <1>3, <1>7, <2>1, TotalOfNothing, FitBooks
<1>9. Matches(attr, sizes, metadataKeys, explicit)
  <2>1. {} \cup (KeysOf(w) \cap MetaKeys) = KeysOf(w) \cap MetaKeys OBVIOUS
  <2>2. Cardinality({} \cup (KeysOf(w) \cap MetaKeys)) <= MaxMetadataEntries BY <1>7, <2>1
  <2>3. Matches(SetAttributes(NoAttributes, fit.kept, "own"), fit.sizes,
                {} \cup (KeysOf(fit.kept) \cap MetaKeys), {} \cup acceptedExplicitAttributes(fit.kept))
    BY <1>7, <1>8, <2>2, NothingMatches, MatchesStill
  <2>4. {} \cup (KeysOf(fit.kept) \cap MetaKeys) = metadataKeys
        /\ {} \cup acceptedExplicitAttributes(fit.kept) = explicit
    BY <1>6
  <2> QED BY <1>4, <1>6, <2>3, <2>4
<1>10. Matches(last, sizes, metadataKeys, explicit)
  <2>1. CASE traced /\ attr["version"].by = "none"
    <3>1. last = [attr EXCEPT !["version"] = TraceVersion] /\ attr["version"].by # "own" BY <1>5, <2>1
    <3> QED BY <1>9, <3>1, TraceMatches
  <2>2. CASE ~(traced /\ attr["version"].by = "none") BY <1>5, <1>9, <2>2
  <2> QED BY <2>1, <2>2
<1>11. span \in SpanType /\ span.attr = last /\ span.events = 0
  <2>1. last \in AttrsType BY <1>10 DEF Matches
  <2>2. v.level \in {"none", "DEFAULT", "ERROR"} BY InputsAssumption DEF InputType
  <2>3. PICK level \in {"none", "DEFAULT", "ERROR"} :
          level = IF "level" \in KeysOf(fit.kept) THEN v.level ELSE "none"
    BY <2>2
  <2>4. PICK failed \in BOOLEAN : failed = (v.level = "ERROR") OBVIOUS
  <2>5. span = [attr |-> last, level |-> level, failed |-> failed, events |-> 0, open |-> TRUE]
    BY <1>6, <2>3, <2>4
  <2> QED BY <2>1, <2>5 DEF SpanType
<1>12. BooksHold
  <2>1. fit.used = Total(fit.sizes) BY <1>8 DEF Books
  <2> QED BY <1>6, <1>10, <1>11, <2>1 DEF BooksHold
<1>13. CallsHold
  <2>1. Carries(IdleCall) BY IdleType DEF Carries
  <2> QED BY <1>6, <2>1, IdleType DEF CallsHold
<1>14. SlotsHold
  <2>1. ~HoldsSlot(IdleCall) BY IdleType DEF HoldsSlot
  <2>2. Pending = {} BY <1>6, <2>1 DEF Pending
  <2> QED BY <1>6, <1>11, <2>2, FS_EmptySet, LimitsAssumption DEF SlotsHold
<1> QED BY <1>6, <1>11, <1>12, <1>13, <1>14 DEF Inv

(* Calls carry what their stage needs, the books match the span, and the   *)
(* errors recorded and those under way are no more than the slots taken.   *)
THEOREM Safety == Spec => []Inv
<1>1. Inv /\ [Next]_vars => Inv' BY InvStep
<1> QED BY InvInit, <1>1, PTL DEF Spec

(* The handle's books are the span's attributes and stay within their      *)
(* limits (attributeSizes, attributeBytes, metadataKeys, errorEvents of    *)
(* observation.go), whatever updates, errors, ends and trace attributes    *)
(* interleave.                                                             *)
THEOREM AccountIsExact == Spec => []AccountExact
<1> QED BY Safety, InvImplies, PTL

(* What the observation set explicitly is never replaced by trace state    *)
(* (acceptedExplicitAttributes and applyTraceState), however updates and   *)
(* WithTraceAttributes interleave.                                         *)
THEOREM ExplicitAlwaysWins == Spec => []ExplicitWins
<1>1. Inv => ExplicitWins BY DEF Inv, BooksHold, Matches, ExplicitWins
<1> QED BY <1>1, Safety, PTL

-----------------------------------------------------------------------------
(* The end is final                                                        *)

Kept == UNCHANGED <<span.attr, span.level, span.failed, span.events>>

(* The span has its fields.                                                *)
Shape == DOMAIN span = {"attr", "level", "failed", "events", "open"}

LEMMA EndSpanKeeps == ASSUME Shape, NEW c \in Calls, EndSpan(c) PROVE Kept
BY DEF EndSpan, Shape, Kept

LEMMA StepAfterEnd == ASSUME Shape, ended, Next PROVE Kept
<1>1. CASE Shutdown BY <1>1 DEF Shutdown, Kept
<1>2. ASSUME NEW c \in Calls, Update(c) PROVE Kept
  BY <1>2 DEF Update, UpdateBegin, UpdateBuild, UpdateApply, EndedMeanwhile, Kept
<1>3. ASSUME NEW c \in Calls, RecordError(c) PROVE Kept
  BY <1>3 DEF RecordError, ErrorBegin, ErrorMessage, ErrorRecord, Kept
<1>4. ASSUME NEW c \in Calls, endOnce(c) PROVE Kept
  BY <1>4, EndSpanKeeps DEF endOnce, EndMark, Kept
<1>5. ASSUME NEW c \in Calls, applyTraceState(c) PROVE Kept
  BY <1>5 DEF applyTraceState, Kept
<1> QED BY <1>1, <1>2, <1>3, <1>4, <1>5 DEF Next

(* After the first End no step changes what the span exports, though       *)
(* updates and errors may be in the middle of their callbacks: each looks  *)
(* at o.ended again once it holds the lock again.                          *)
THEOREM TheEndIsFinal == Spec => EndedIsFinal
<1>1. Shape /\ [Next]_vars => [ended => Kept]_vars
  BY StepAfterEnd
<1>2. Inv => Shape BY DEF Inv, SpanType, Shape
<1> QED BY <1>1, <1>2, Safety, PTL DEF Spec, EndedIsFinal, Kept
=============================================================================
