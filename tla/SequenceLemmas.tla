--------------------------- MODULE SequenceLemmas ---------------------------
(***************************************************************************)
(* Facts about numbers and sequences that the proofs share.                *)
(***************************************************************************)
EXTENDS SequenceTheorems, WellFoundedInduction, TLAPS

-----------------------------------------------------------------------------
(* Induction.  The induction theorems of the library are about an operator,  *)
(* which no prover here can put in; these are about a set.                   *)

LEMMA Least ==
  ASSUME NEW T, T \subseteq Nat, T # {}
  PROVE  \E x \in T : \A y \in T : x <= y
<1>1. IsWellFoundedOn(OpToRel(<, Nat), Nat)
  BY NatLessThanWellFounded
<1>2. PICK x \in T : \A y \in T : ~(<<y, x>> \in OpToRel(<, Nat))
  BY <1>1, WFMin
<1>3. \A y \in T : ~(y < x)
  BY <1>2 DEF OpToRel
<1> QED
  BY <1>3

LEMMA Greatest ==
  ASSUME NEW T, T \subseteq Nat, T # {}, NEW N \in Nat, \A x \in T : x <= N
  PROVE  \E x \in T : \A y \in T : y <= x
<1> DEFINE R == {n \in Nat : \E x \in T : n = N - x}
<1>1. R \subseteq Nat /\ R # {} /\ \A x \in T : N - x \in R
  <2>1. \A x \in T : N - x \in R
    OBVIOUS
  <2>2. PICK x \in T : TRUE
    OBVIOUS
  <2> QED
    BY <2>1, <2>2
<1>2. PICK n \in R : \A m \in R : n <= m
  <2> HIDE DEF R
  <2> QED
    BY <1>1, Least
<1>3. PICK x \in T : n = N - x
  OBVIOUS
<1>4. \A y \in T : N - x <= N - y
  BY <1>1, <1>2, <1>3
<1> QED
  BY <1>3, <1>4

LEMMA Induct ==
  ASSUME NEW T, T \subseteq Nat, 0 \in T, \A n \in T : n + 1 \in T
  PROVE  T = Nat
<1> SUFFICES ASSUME Nat \ T # {}
             PROVE  FALSE
  OBVIOUS
<1>1. PICK x \in Nat \ T : \A y \in Nat \ T : x <= y
  BY Least
<1>2. x # 0 /\ x - 1 \in Nat /\ x - 1 \in T
  BY <1>1
<1> QED
  BY <1>1, <1>2

LEMMA InductTo ==
  ASSUME NEW N \in Nat, NEW T, 0 \in T, \A n \in 0..N - 1 : n \in T => n + 1 \in T
  PROVE  0..N \subseteq T
<1> DEFINE R == {n \in Nat : n <= N => n \in T}
<1>1. 0 \in R /\ R \subseteq Nat /\ \A n \in R : n + 1 \in R
  OBVIOUS
<1>2. R = Nat
  <2> HIDE DEF R
  <2> QED
    BY <1>1, Induct
<1> QED
  BY <1>2

-----------------------------------------------------------------------------
(* Queues: s is what was taken, q what is left.                              *)

LEMMA TakenWhole ==
  ASSUME NEW D, NEW s \in Seq(D), NEW q \in Seq(D), q # <<>>
  PROVE  Append(s, Head(q)) \o Tail(q) = s \o q
<1>1. Head(q) \in D /\ Tail(q) \in Seq(D) /\ Len(Tail(q)) = Len(q) - 1
  BY HeadTailProperties
<1>2. \A i \in 1..Len(q) - 1 : Tail(q)[i] = q[i + 1]
  BY HeadTailProperties
<1>3. Append(s, Head(q)) \in Seq(D) /\ Len(Append(s, Head(q))) = Len(s) + 1
  BY <1>1, AppendProperties
<1>4. /\ Append(s, Head(q)) \o Tail(q) \in Seq(D) /\ s \o q \in Seq(D)
      /\ Len(Append(s, Head(q)) \o Tail(q)) = Len(s \o q)
  BY <1>1, <1>3, ConcatProperties
<1>5. ASSUME NEW i \in 1..Len(s \o q)
      PROVE  (Append(s, Head(q)) \o Tail(q))[i] = (s \o q)[i]
  <2>1. CASE i <= Len(s)
    BY <1>1, <1>3, <2>1, ConcatProperties, AppendProperties
  <2>2. CASE i = Len(s) + 1
    BY <1>1, <1>3, <2>2, ConcatProperties, AppendProperties
  <2>3. CASE i > Len(s) + 1
    BY <1>1, <1>2, <1>3, <2>3, ConcatProperties
  <2> QED
    BY <1>4, <2>1, <2>2, <2>3
<1> QED
  BY <1>4, <1>5, SeqEqual

LEMMA AppendedWhole ==
  ASSUME NEW D, NEW s \in Seq(D), NEW q \in Seq(D), NEW e \in D
  PROVE  s \o Append(q, e) = Append(s \o q, e)
BY ConcatProperties, AppendProperties, SeqEqual

LEMMA Regrouped == \A D : \A s, q, r \in Seq(D) : (s \o q) \o r = s \o (q \o r)
BY ConcatAssociative

LEMMA HeadedWhole ==
  ASSUME NEW D, NEW s \in Seq(D), NEW q \in Seq(D), NEW e \in D
  PROVE  s \o (<<e>> \o q) = Append(s, e) \o q
<1>1. <<e>> \in Seq(D) /\ Len(<<e>>) = 1 /\ <<e>>[1] = e
  OBVIOUS
<1>2. /\ <<e>> \o q \in Seq(D) /\ Len(<<e>> \o q) = Len(q) + 1 /\ (<<e>> \o q)[1] = e
      /\ \A i \in 1..Len(q) : (<<e>> \o q)[i + 1] = q[i]
  BY <1>1, ConcatProperties
<1>3. /\ Append(s, e) \in Seq(D) /\ Len(Append(s, e)) = Len(s) + 1
      /\ Append(s, e)[Len(s) + 1] = e /\ \A i \in 1..Len(s) : Append(s, e)[i] = s[i]
  BY AppendProperties
<1>4. PICK v \in Seq(D) : v = <<e>> \o q
  BY <1>2
<1>5. PICK w \in Seq(D) : w = Append(s, e)
  BY <1>3
<1>6. /\ s \o v \in Seq(D) /\ Len(s \o v) = Len(s) + Len(q) + 1
      /\ \A i \in 1..Len(s) : (s \o v)[i] = s[i]
      /\ \A i \in 1..Len(q) + 1 : (s \o v)[Len(s) + i] = v[i]
  BY <1>2, <1>4, ConcatProperties
<1>7. /\ w \o q \in Seq(D) /\ Len(w \o q) = Len(s) + Len(q) + 1
      /\ \A i \in 1..Len(s) + 1 : (w \o q)[i] = w[i]
      /\ \A i \in 1..Len(q) : (w \o q)[Len(s) + 1 + i] = q[i]
  BY <1>3, <1>5, ConcatProperties
<1>8. Len(s) \in Nat /\ Len(q) \in Nat
  OBVIOUS
<1>9. ASSUME NEW i \in 1..Len(s) + Len(q) + 1
      PROVE  (s \o v)[i] = (w \o q)[i]
  <2>1. CASE i \in 1..Len(s)
    BY <1>3, <1>5, <1>6, <1>7, <1>8, <2>1
  <2>2. CASE i = Len(s) + 1
    BY <1>2, <1>3, <1>4, <1>5, <1>6, <1>7, <1>8, <2>2
  <2>3. ASSUME NEW j \in 1..Len(q), i = Len(s) + 1 + j
        PROVE  (s \o v)[i] = (w \o q)[i]
    <3>1. i = Len(s) + (j + 1) /\ j + 1 \in 1..Len(q) + 1
      BY <1>8, <2>3
    <3> QED
      BY <1>2, <1>4, <1>6, <1>7, <2>3, <3>1
  <2>4. i \in 1..Len(s) \/ i = Len(s) + 1 \/ \E j \in 1..Len(q) : i = Len(s) + 1 + j
    <3>1. PICK a \in Nat, b \in Nat : a = Len(s) /\ b = Len(q)
      BY <1>8
    <3>2. i \in 1..a + b + 1
      BY <3>1
    <3>3. i \in 1..a \/ i = a + 1 \/ i - a - 1 \in 1..b
      BY <3>1, <3>2
    <3>4. i = a + 1 + (i - a - 1)
      BY <3>1, <3>2
    <3> QED
      BY <3>1, <3>3, <3>4
  <2> QED
    BY <2>1, <2>2, <2>3, <2>4
<1> QED
  BY <1>4, <1>5, <1>6, <1>7, <1>9, SeqEqual

\* What comes after the first k, when there is one more.
LEMMA AppendedRest ==
  ASSUME NEW D, NEW s \in Seq(D), NEW e \in D, NEW k \in 0..Len(s)
  PROVE  SubSeq(Append(s, e), k + 1, Len(s) + 1) = Append(SubSeq(s, k + 1, Len(s)), e)
<1>1. Append(s, e) \in Seq(D) /\ Len(Append(s, e)) = Len(s) + 1
  BY AppendProperties
<1>2. /\ SubSeq(s, k + 1, Len(s)) \in Seq(D) /\ Len(SubSeq(s, k + 1, Len(s))) = Len(s) - k
      /\ \A i \in 1..Len(s) - k : SubSeq(s, k + 1, Len(s))[i] = s[k + i]
  BY SubSeqProperties
<1>3. /\ SubSeq(Append(s, e), k + 1, Len(s) + 1) \in Seq(D)
      /\ Len(SubSeq(Append(s, e), k + 1, Len(s) + 1)) = Len(s) - k + 1
      /\ \A i \in 1..Len(s) - k + 1 :
            SubSeq(Append(s, e), k + 1, Len(s) + 1)[i] = Append(s, e)[k + i]
  BY <1>1, SubSeqProperties
<1>4. Append(SubSeq(s, k + 1, Len(s)), e) \in Seq(D)
  BY <1>2, AppendProperties
<1>5. ASSUME NEW i \in 1..Len(s) - k + 1
      PROVE  Append(s, e)[k + i] = Append(SubSeq(s, k + 1, Len(s)), e)[i]
  <2>1. CASE i <= Len(s) - k
    BY <1>2, <2>1, AppendProperties
  <2>2. CASE i = Len(s) - k + 1
    BY <1>2, <2>2, AppendProperties
  <2> QED
    BY <2>1, <2>2
<1>6. Len(Append(SubSeq(s, k + 1, Len(s)), e)) = Len(s) - k + 1
  BY <1>2, AppendProperties
<1> QED
  BY <1>3, <1>4, <1>5, <1>6, SeqEqual

\* A sequence that has the elements of two is the two together.
LEMMA IsJoined ==
  ASSUME NEW D, NEW s \in Seq(D), NEW q \in Seq(D), NEW r \in Seq(D),
         Len(r) = Len(s) + Len(q),
         \A i \in 1..Len(s) : r[i] = s[i],
         \A i \in 1..Len(q) : r[Len(s) + i] = q[i]
  PROVE  r = s \o q
<1>1. PICK n \in Nat : n = Len(s)
  OBVIOUS
<1>2. PICK l \in Nat : l = Len(q)
  OBVIOUS
<1>3. /\ s \o q \in Seq(D) /\ Len(s \o q) = n + l
      /\ \A i \in 1..n : (s \o q)[i] = s[i]
      /\ \A i \in 1..l : (s \o q)[n + i] = q[i]
  BY <1>1, <1>2, ConcatProperties
<1>4. ASSUME NEW i \in 1..n + l
      PROVE  (s \o q)[i] = r[i]
  <2>1. CASE i > n
    <3>1. i - n \in 1..l /\ i = n + (i - n)
      BY <2>1
    <3> QED
      BY <1>1, <1>2, <1>3, <3>1
  <2> QED
    BY <1>1, <1>3, <2>1
<1> QED
  BY <1>1, <1>2, <1>3, <1>4, SeqEqual
=============================================================================
