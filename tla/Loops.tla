---------------------------------- MODULE Loops ---------------------------------
(***************************************************************************)
(* Loops over a sequence, written as recursive functions of the turn: they *)
(* exist, and what every turn preserves holds when they end.  A predicate  *)
(* on states is a set of states here, so these are facts of first order.   *)
(***************************************************************************)
EXTENDS Naturals, NaturalsInduction, WellFoundedInduction, TLAPS

NatLess == {ss \in Nat \X Nat : ss[1] < ss[2]}

(* Induction over the naturals, with a set for the predicate.              *)
LEMMA SetInduction ==
  ASSUME NEW S, 0 \in S, \A n \in Nat : n \in S => n + 1 \in S
  PROVE  Nat \subseteq S
<1>1. SUFFICES ASSUME Nat \ S # {} PROVE FALSE
  OBVIOUS
<1>2. NatLess = OpToRel(<, Nat) BY DEF NatLess, OpToRel
<1>3. PICK x \in Nat \ S : \A y \in Nat \ S : ~ (<<y, x>> \in NatLess)
  BY <1>1, <1>2, WFMin, NatLessThanWellFounded
<1>4. x # 0 /\ x - 1 \in Nat /\ x = x - 1 + 1
  BY <1>3
<1>5. x - 1 \notin S
  BY <1>4, <1>3
<1>6. <<x - 1, x>> \in NatLess
  BY <1>4, <1>3 DEF NatLess
<1> QED BY <1>3, <1>4, <1>5, <1>6

(* What a loop computes exists, and every turn of it stays in X.           *)
Loop(f, X, first, step, n) ==
  f \in [0..n -> X] /\ f[0] = first /\ \A i \in 1..n : f[i] = step[i][f[i - 1]]

LEMMA LoopEnds ==
  ASSUME NEW X, NEW first \in X, NEW n \in Nat, NEW step \in [1..n -> [X -> X]]
  PROVE  \E f : Loop(f, X, first, step, n)
<1> DEFINE S == {m \in Nat : m <= n => \E f : Loop(f, X, first, step, m)}
<1>1. 0 \in S
  <2>1. Loop([i \in 0..0 |-> first], X, first, step, 0) BY DEF Loop
  <2> QED BY <2>1
<1>2. ASSUME NEW m \in Nat, m \in S PROVE m + 1 \in S
  <2> SUFFICES ASSUME m + 1 <= n PROVE \E f : Loop(f, X, first, step, m + 1)
    OBVIOUS
  <2>1. PICK f : Loop(f, X, first, step, m) BY <1>2
  <2>2. m + 1 \in 1..n /\ step[m + 1] \in [X -> X] OBVIOUS
  <2>3. f[m] \in X BY <2>1 DEF Loop
  <2> DEFINE h == [i \in 0..(m + 1) |-> IF i = m + 1 THEN step[m + 1][f[m]] ELSE f[i]]
  <2>4. h[m + 1] = step[m + 1][f[m]] /\ \A i \in 0..m : h[i] = f[i] OBVIOUS
  <2>5. h \in [0..(m + 1) -> X] BY <2>1, <2>2, <2>3 DEF Loop
  <2>6. \A i \in 1..(m + 1) : h[i] = step[i][h[i - 1]]
    <3> TAKE i \in 1..(m + 1)
    <3>1. CASE i = m + 1 BY <3>1, <2>4
    <3>2. CASE i \in 1..m
      <4>1. i - 1 \in 0..m /\ i \in 0..m BY <3>2
      <4>2. h[i] = f[i] /\ h[i - 1] = f[i - 1] BY <4>1, <2>4
      <4> QED BY <4>2, <3>2, <2>1 DEF Loop
    <3> QED BY <3>1, <3>2
  <2>7. h[0] = first BY <2>4, <2>1 DEF Loop
  <2> QED BY <2>5, <2>6, <2>7 DEF Loop
<1>3. n \in S BY <1>1, <1>2, SetInduction
<1> QED BY <1>3

LEMMA LoopStays ==
  ASSUME NEW X, NEW n \in Nat, NEW f, f[0] \in X, \A i \in 1..n : f[i - 1] \in X => f[i] \in X
  PROVE  \A i \in 0..n : f[i] \in X
<1> DEFINE S == {m \in Nat : m <= n => f[m] \in X}
<1>1. ASSUME NEW m \in Nat, m \in S PROVE m + 1 \in S
  <2> SUFFICES ASSUME m + 1 <= n PROVE f[m + 1] \in X
    OBVIOUS
  <2>1. m + 1 \in 1..n /\ m + 1 - 1 = m OBVIOUS
  <2>2. f[m] \in X BY <1>1
  <2> QED BY <2>1, <2>2
<1>2. Nat \subseteq S BY <1>1, SetInduction
<1> QED BY <1>2

(* Two loops that run side by side stay in a relation.                     *)
LEMMA LoopsAgree ==
  ASSUME NEW X, NEW n \in Nat, NEW f, NEW g, <<f[0], g[0]>> \in X,
         \A i \in 1..n : <<f[i - 1], g[i - 1]>> \in X => <<f[i], g[i]>> \in X
  PROVE  <<f[n], g[n]>> \in X
<1> DEFINE h == [i \in 0..n |-> <<f[i], g[i]>>]
<1>1. \A i \in 0..n : h[i] = <<f[i], g[i]>> OBVIOUS
<1> HIDE DEF h
<1>2. h[0] \in X BY <1>1
<1>3. \A i \in 1..n : h[i - 1] \in X => h[i] \in X
  <2> TAKE i \in 1..n
  <2>1. i - 1 \in 0..n /\ i \in 0..n OBVIOUS
  <2>2. h[i - 1] = <<f[i - 1], g[i - 1]>> /\ h[i] = <<f[i], g[i]>> BY <1>1, <2>1
  <2> QED BY <2>2
<1>4. \A i \in 0..n : h[i] \in X BY <1>2, <1>3, LoopStays
<1> QED BY <1>1, <1>4
=============================================================================
