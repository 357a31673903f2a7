---------------------------- MODULE SequenceFacts ----------------------------
(***************************************************************************)
(* Facts the proofs of the project need and the library does not state:    *)
(* induction over the natural numbers in the form of a least element, and  *)
(* what FlattenSeq, the concatenation that pcat computes, gives.           *)
(***************************************************************************)
EXTENDS SequencesExt, SequenceTheorems, WellFoundedInduction, TLAPS

(* A set of natural numbers has a least element.                           *)
LEMMA LeastElement ==
  ASSUME NEW T, T \subseteq Nat, T # {}
  PROVE  \E x \in T : \A y \in T : x <= y
<1> DEFINE R == OpToRel(<, Nat)
<1>1. IsWellFoundedOn(R, Nat)
  BY NatLessThanWellFounded
<1>2. ASSUME NEW x \in Nat, NEW y \in Nat, y < x PROVE <<y, x>> \in R
  BY <1>2 DEF OpToRel
<1> HIDE DEF R
<1>3. PICK x \in T : \A y \in T : ~ (<<y, x>> \in R)
  BY <1>1, WFMin
<1>4. ASSUME NEW y \in T PROVE x <= y
  <2>1. x \in Nat /\ y \in Nat
    OBVIOUS
  <2>2. ~ (y < x)
    BY <2>1, <1>2, <1>3
  <2>3. QED
    BY <2>1, <2>2
<1>5. QED
  BY <1>4

\* g holds the concatenations of the first, the first two, ... of ss.
Flattens(g, ss, k) == g = [i \in 1..k |-> IF i = 1 THEN ss[i] ELSE g[i - 1] \o ss[i]]

(* The recursion of FlattenSeq has a solution.                             *)
LEMMA FlattenExists ==
  ASSUME NEW ss, NEW n \in Nat \ {0}
  PROVE  \E g : Flattens(g, ss, n)
<1> DEFINE T == {k \in Nat : k > 0 /\ ~ \E g : Flattens(g, ss, k)}
<1>1. SUFFICES ASSUME T # {} PROVE FALSE
  OBVIOUS
<1>2. PICK k \in T : \A x \in T : k <= x
  BY <1>1, LeastElement
<1>3. k \in Nat /\ k > 0 /\ ~ \E g : Flattens(g, ss, k)
  OBVIOUS
<1>4. CASE k = 1
  <2> DEFINE g == [i \in 1..1 |-> ss[i]]
  <2>1. g = [i \in 1..1 |-> IF i = 1 THEN ss[i] ELSE g[i - 1] \o ss[i]]
    OBVIOUS
  <2>2. QED
    BY <1>3, <1>4, <2>1 DEF Flattens
<1>5. CASE k # 1
  <2>1. k - 1 \in Nat /\ k - 1 > 0 /\ ~(k <= k - 1)
    BY <1>3, <1>5
  <2>2. PICK g : Flattens(g, ss, k - 1)
    BY <1>2, <2>1
  <2>3. \A i \in 1..k - 1 : g[i] = IF i = 1 THEN ss[i] ELSE g[i - 1] \o ss[i]
    BY <2>2 DEF Flattens
  <2> DEFINE h == [i \in 1..k |-> IF i = k THEN g[k - 1] \o ss[k] ELSE g[i]]
  <2>4. ASSUME NEW i \in 1..k PROVE h[i] = IF i = 1 THEN ss[i] ELSE h[i - 1] \o ss[i]
    <3>1. i # 1 => i - 1 \in 1..k /\ i - 1 # k /\ h[i - 1] = g[i - 1]
      BY <1>3
    <3>2. CASE i = k
      BY <1>3, <1>5, <3>1, <3>2
    <3>3. CASE i # k
      <4>1. i \in 1..k - 1 /\ h[i] = g[i]
        BY <1>3, <3>3
      <4>2. QED
        BY <2>3, <3>1, <4>1
    <3>4. QED
      BY <3>2, <3>3
  <2>5. h = [i \in 1..k |-> IF i = 1 THEN ss[i] ELSE h[i - 1] \o ss[i]]
    <3>1. h = [i \in 1..k |-> h[i]]
      OBVIOUS
    <3> HIDE DEF h
    <3>2. QED
      BY <2>4, <3>1
  <2>6. Flattens(h, ss, k)
    BY <2>5 DEF Flattens
  <2>7. QED
    BY <1>3, <2>6
<1>6. QED
  BY <1>4, <1>5

(* A sequence behind another one: its elements follow.                     *)
LEMMA ConcatParts ==
  ASSUME NEW S, NEW s \in Seq(S), NEW t \in Seq(S)
  PROVE  /\ s \o t \in Seq(S) /\ Len(s \o t) = Len(s) + Len(t)
         /\ Len(s) \in Nat /\ Len(t) \in Nat
         /\ \A i \in 1..Len(s) : (s \o t)[i] = s[i]
BY ConcatProperties, LenProperties

(* FlattenSeq gives a sequence that begins with the first of its parts.    *)
LEMMA FlattenBegins ==
  ASSUME NEW S, NEW ss \in Seq(Seq(S))
  PROVE  /\ FlattenSeq(ss) \in Seq(S)
         /\ Len(ss) > 0 => /\ Len(ss[1]) <= Len(FlattenSeq(ss))
                           /\ \A i \in 1..Len(ss[1]) : FlattenSeq(ss)[i] = ss[1][i]
<1> DEFINE n == Len(ss)
<1>1. n \in Nat /\ \A i \in 1..n : ss[i] \in Seq(S)
  BY LenProperties, ElementOfSeq
<1>2. CASE n = 0
  <2>1. ss = <<>> /\ FlattenSeq(ss) = ss
    BY <1>2, EmptySeq DEF FlattenSeq
  <2>2. <<>> \in Seq(S)
    BY EmptySeq
  <2>3. FlattenSeq(ss) \in Seq(S)
    BY <2>1, <2>2
  <2>4. ~(Len(ss) > 0)
    BY <1>2
  <2>5. QED
    BY <2>3, <2>4
<1>3. CASE n # 0
  <2> DEFINE F == CHOOSE g : g = [i \in 1..n |-> IF i = 1 THEN ss[i] ELSE g[i - 1] \o ss[i]]
  <2>1. FlattenSeq(ss) = F[n]
    BY <1>3 DEF FlattenSeq
  <2>2. Flattens(F, ss, n)
    <3>1. \E g : Flattens(g, ss, n)
      BY <1>1, <1>3, FlattenExists
    <3>2. QED
      BY <3>1 DEF Flattens
  <2>3. \A i \in 1..n : F[i] = IF i = 1 THEN ss[i] ELSE F[i - 1] \o ss[i]
    BY <2>2 DEF Flattens
  <2> HIDE DEF F
  <2> DEFINE Good(s) == /\ s \in Seq(S) /\ Len(ss[1]) <= Len(s)
                        /\ \A i \in 1..Len(ss[1]) : s[i] = ss[1][i]
             T == {k \in 1..n : ~Good(F[k])}
  <2>4. T = {}
    <3>1. SUFFICES ASSUME T # {} PROVE FALSE
      OBVIOUS
    <3>2. T \subseteq Nat
      BY <1>1
    <3>3. PICK k \in T : \A x \in T : k <= x
      BY <3>1, <3>2, LeastElement
    <3>4. k \in 1..n /\ ~Good(F[k])
      OBVIOUS
    <3>5. 1 \in 1..n /\ ss[1] \in Seq(S) /\ Len(ss[1]) \in Nat
      BY <1>1, <1>3, LenProperties
    <3>6. k # 1
      BY <2>3, <3>4, <3>5
    <3>7. k - 1 \in 1..n /\ ~(k <= k - 1)
      BY <1>1, <3>4, <3>6
    <3>8. Good(F[k - 1])
      BY <3>3, <3>7
    <3>9. F[k] = F[k - 1] \o ss[k] /\ ss[k] \in Seq(S)
      BY <1>1, <2>3, <3>4, <3>6
    <3>10. PICK s \in Seq(S) : s = F[k - 1]
      BY <3>8
    <3>11. /\ s \o ss[k] \in Seq(S) /\ Len(s \o ss[k]) = Len(s) + Len(ss[k])
           /\ Len(s) \in Nat /\ Len(ss[k]) \in Nat
           /\ \A i \in 1..Len(s) : (s \o ss[k])[i] = s[i]
      BY <3>9, ConcatParts
    <3>12. Len(ss[1]) <= Len(s \o ss[k])
      <4>1. Len(ss[1]) <= Len(s)
        BY <3>8, <3>10
      <4>2. QED
        BY <3>5, <3>11, <4>1
    <3>13. \A i \in 1..Len(ss[1]) : i \in 1..Len(s)
      BY <3>5, <3>8, <3>10, <3>11
    <3>14. Good(s \o ss[k])
      BY <3>8, <3>10, <3>11, <3>12, <3>13
    <3>15. QED
      BY <3>4, <3>9, <3>10, <3>14
  <2>5. n \in 1..n
    BY <1>1, <1>3
  <2>6. Good(F[n])
    BY <2>4, <2>5
  <2>7. QED
    BY <2>1, <2>6
<1>4. QED
  BY <1>2, <1>3
=============================================================================
