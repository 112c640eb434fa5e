------------------------------ MODULE LineProofs ------------------------------
(***************************************************************************)
(* Proofs about Lines: what a line that Encode makes is taken for.         *)
(***************************************************************************)
EXTENDS Lines, SequenceLemmas, FiniteSetTheorems

-----------------------------------------------------------------------------
(* The first and the last of a set of numbers.                               *)

LEMMA MinIs ==
  ASSUME NEW T, T \subseteq Nat, T # {}
  PROVE  Min(T) \in T /\ \A y \in T : Min(T) <= y
BY Least DEF Min

LEMMA MaxIs ==
  ASSUME NEW T, NEW N \in Nat, T \subseteq 0..N, T # {}
  PROVE  Max(T) \in T /\ \A y \in T : y <= Max(T)
<1>1. \E x \in T : \A y \in T : x >= y
  <2>1. T \subseteq Nat /\ \A x \in T : x <= N
    OBVIOUS
  <2>2. PICK x \in T : \A y \in T : y <= x
    BY <2>1, Greatest
  <2> QED
    BY <2>1, <2>2
<1>2. Max(T) \in T /\ \A y \in T : Max(T) >= y
  BY <1>1 DEF Max
<1> QED
  BY <1>2

-----------------------------------------------------------------------------
(* Colons and pieces.                                                        *)

LEMMA ColonsType ==
  ASSUME NEW s \in Texts
  PROVE  /\ Len(s) \in Nat /\ Colons(s) \subseteq 1..Len(s)
         /\ IsFiniteSet(Colons(s)) /\ Cardinality(Colons(s)) \in Nat
         /\ Cardinality(Colons(s)) = 0 <=> Colons(s) = {}
<1>1. Len(s) \in Nat /\ Colons(s) \subseteq 1..Len(s)
  BY DEF Colons, Texts
<1>2. IsFiniteSet(1..Len(s))
  BY <1>1, FS_Interval
<1> QED
  BY <1>1, <1>2, FS_Subset, FS_CardinalityType, FS_EmptySet

LEMMA BeginType ==
  ASSUME NEW s \in Texts, NEW i \in 0..Len(s)
  PROVE  /\ SubSeq(s, 1, i) \in Texts /\ Len(SubSeq(s, 1, i)) = i
         /\ \A j \in 1..i : SubSeq(s, 1, i)[j] = s[j]
BY SubSeqProperties DEF Texts

\* The places of the characters of a piece.
PiecePlaces(s, k) == {i \in DOMAIN s \ Colons(s) : Cardinality(Colons(SubSeq(s, 1, i))) = k}

LEMMA PieceType ==
  ASSUME NEW s \in Texts, NEW k
  PROVE  Piece(s, k) \in Texts
<1>1. PICK T : T = PiecePlaces(s, k)
  OBVIOUS
<1>2. CASE T = {}
  BY <1>1, <1>2 DEF Piece, PiecePlaces, Texts
<1>3. CASE T # {}
  <2>1. Len(s) \in Nat /\ T \subseteq 0..Len(s) /\ T \subseteq 1..Len(s) /\ T \subseteq Nat
    BY <1>1 DEF PiecePlaces, Texts
  <2>2. Min(T) \in T /\ Max(T) \in T
    BY <1>3, <2>1, MinIs, MaxIs
  <2>3. Piece(s, k) = SubSeq(s, Min(T), Max(T))
    BY <1>1, <1>3 DEF Piece, PiecePlaces
  <2>4. PICK x \in 1..Len(s), y \in 1..Len(s) : x = Min(T) /\ y = Max(T)
    BY <2>1, <2>2
  <2>5. \A i \in x..y : s[i] \in Chars
    BY <2>4 DEF Texts
  <2> QED
    BY <2>3, <2>4, <2>5, SubSeqProperties DEF Texts
<1> QED
  BY <1>2, <1>3

LEMMA DataType ==
  ASSUME NEW s \in Texts
  PROVE  Data(s) \in Texts /\ \A k : Piece(s, k) \in Texts
<1>1. \A k : Piece(s, k) \in Texts
  BY PieceType
<1>2. <<Colon>> \in Texts
  BY DEF Texts, Chars
<1>3. \A a, b \in Texts : a \o b \in Texts
  BY ConcatProperties DEF Texts
<1> QED
  BY <1>1, <1>2, <1>3 DEF Data

-----------------------------------------------------------------------------
(* A text that is cut at its first colon.                                    *)

Cut(s, a, b) == /\ s \in Texts /\ a \in Texts /\ b \in Texts
                /\ Colons(a) = {}
                /\ Len(s) = Len(a) + 1 + Len(b)
                /\ \A i \in 1..Len(a) : s[i] = a[i]
                /\ s[Len(a) + 1] = Colon
                /\ \A i \in 1..Len(b) : s[Len(a) + 1 + i] = b[i]

\* A text has a first colon, or none.
LEMMA CutExists ==
  ASSUME NEW s \in Texts, Colons(s) # {}
  PROVE  \E a, b \in Texts : Cut(s, a, b)
<1>1. Len(s) \in Nat /\ Colons(s) \subseteq 1..Len(s)
  BY ColonsType
<1>2. PICK c \in Colons(s) : \A d \in Colons(s) : c <= d
  <2>1. Colons(s) \subseteq Nat
    BY <1>1
  <2> QED
    BY <2>1, Least
<1>3. PICK n \in Nat : c = n + 1 /\ n + 1 \in 1..Len(s) /\ s[n + 1] = Colon
  <2>1. c - 1 \in Nat /\ c = c - 1 + 1 /\ s[c] = Colon /\ c \in 1..Len(s)
    BY <1>1, <1>2 DEF Colons
  <2> QED
    BY <2>1
<1>4. PICK a : a = SubSeq(s, 1, n)
  OBVIOUS
<1>5. a \in Texts /\ Len(a) = n /\ \A i \in 1..n : a[i] = s[i]
  BY <1>1, <1>3, <1>4, BeginType
<1>6. Colons(a) = {}
  <2>1. \A i \in 1..n : s[i] # Colon
    BY <1>1, <1>2, <1>3 DEF Colons, Texts
  <2> QED
    BY <1>5, <2>1 DEF Colons, Texts
<1>7. PICK b : b = SubSeq(s, n + 2, Len(s))
  OBVIOUS
<1>8. b \in Texts /\ Len(b) = Len(s) - n - 1 /\ \A i \in 1..Len(s) - n - 1 : b[i] = s[n + 1 + i]
  <2>1. \A i \in n + 2..Len(s) : s[i] \in Chars
    BY <1>1, <1>3 DEF Texts
  <2> QED
    BY <1>1, <1>3, <1>7, <2>1, SubSeqProperties DEF Texts
<1>9. Cut(s, a, b)
  BY <1>1, <1>3, <1>5, <1>6, <1>8 DEF Cut
<1> QED
  BY <1>5, <1>8, <1>9

LEMMA CutOf ==
  ASSUME NEW a \in Texts, NEW b \in Texts, Colons(a) = {}
  PROVE  Cut(a \o <<Colon>> \o b, a, b)
<1>1. <<Colon>> \in Seq(Chars) /\ Len(<<Colon>>) = 1 /\ <<Colon>>[1] = Colon
  BY DEF Chars
<1>2. PICK c \in Seq(Chars) : c = a \o <<Colon>>
  BY <1>1, ConcatProperties DEF Texts
<1>3. /\ Len(c) = Len(a) + 1 /\ c[Len(a) + 1] = Colon
      /\ \A i \in 1..Len(a) : c[i] = a[i]
  BY <1>1, <1>2, ConcatProperties DEF Texts
<1>4. /\ c \o b \in Seq(Chars) /\ Len(c \o b) = Len(c) + Len(b)
      /\ \A i \in 1..Len(c) : (c \o b)[i] = c[i]
      /\ \A i \in 1..Len(b) : (c \o b)[Len(c) + i] = b[i]
  BY ConcatProperties DEF Texts
<1> QED
  BY <1>2, <1>3, <1>4 DEF Cut, Texts

LEMMA CutColons ==
  ASSUME NEW s, NEW a, NEW b, Cut(s, a, b)
  PROVE  /\ Len(a) \in Nat /\ Len(b) \in Nat /\ Len(s) \in Nat
         /\ \A i \in 1..Len(a) : i \notin Colons(s)
         /\ Len(a) + 1 \in Colons(s)
         /\ \A i \in 1..Len(b) : Len(a) + 1 + i \in Colons(s) <=> i \in Colons(b)
<1>1. Len(a) \in Nat /\ Len(b) \in Nat /\ Len(s) \in Nat
  BY DEF Cut, Texts
<1>2. DOMAIN a = 1..Len(a) /\ DOMAIN b = 1..Len(b) /\ DOMAIN s = 1..Len(s)
  BY DEF Cut, Texts
<1>3. \A i \in 1..Len(a) : a[i] # Colon
  BY <1>2 DEF Cut, Colons
<1> QED
  BY <1>1, <1>2, <1>3 DEF Cut, Colons

\* Colons are counted on from the first.
LEMMA CutCount ==
  ASSUME NEW s, NEW a, NEW b, Cut(s, a, b)
  PROVE  /\ \A i \in 0..Len(a) : Cardinality(Colons(SubSeq(s, 1, i))) = 0
         /\ \A i \in 0..Len(b) : Cardinality(Colons(SubSeq(s, 1, Len(a) + 1 + i)))
                                    = Cardinality(Colons(SubSeq(b, 1, i))) + 1
<1>1. s \in Texts /\ a \in Texts /\ b \in Texts /\ Len(s) = Len(a) + 1 + Len(b)
  BY DEF Cut
<1>2. /\ Len(a) \in Nat /\ Len(b) \in Nat /\ Len(s) \in Nat
      /\ \A i \in 1..Len(a) : i \notin Colons(s)
      /\ Len(a) + 1 \in Colons(s)
      /\ \A i \in 1..Len(b) : Len(a) + 1 + i \in Colons(s) <=> i \in Colons(b)
  BY CutColons
<1>3. ASSUME NEW t \in Texts, NEW i \in 0..Len(t)
      PROVE  Colons(SubSeq(t, 1, i)) = {j \in 1..i : j \in Colons(t)}
  <2>1. Len(t) \in Nat /\ DOMAIN t = 1..Len(t)
    BY DEF Texts
  <2>2. SubSeq(t, 1, i) \in Texts /\ Len(SubSeq(t, 1, i)) = i /\ \A j \in 1..i : SubSeq(t, 1, i)[j] = t[j]
    BY BeginType
  <2>3. DOMAIN SubSeq(t, 1, i) = 1..i
    BY <2>2 DEF Texts
  <2> QED
    BY <2>1, <2>2, <2>3 DEF Colons
<1>4. ASSUME NEW i \in 0..Len(a)
      PROVE  Cardinality(Colons(SubSeq(s, 1, i))) = 0
  <2>1. i \in 0..Len(s)
    BY <1>1, <1>2
  <2>2. Colons(SubSeq(s, 1, i)) = {}
    BY <1>1, <1>2, <1>3, <2>1
  <2> QED
    BY <2>2, FS_EmptySet
<1>5. ASSUME NEW i \in 0..Len(b)
      PROVE  Cardinality(Colons(SubSeq(s, 1, Len(a) + 1 + i)))
                = Cardinality(Colons(SubSeq(b, 1, i))) + 1
  <2>1. PICK d \in Nat : d = Len(a) + 1
    BY <1>2
  <2>2. d + i \in 0..Len(s) /\ d \in 1..d + i
    BY <1>1, <1>2, <2>1
  <2>3. PICK C : C = Colons(SubSeq(b, 1, i))
    OBVIOUS
  <2>4. C = {j \in 1..i : j \in Colons(b)}
    BY <1>1, <1>3, <2>3
  <2>5. PICK E : E = {d + j : j \in C}
    OBVIOUS
  <2>6. Colons(SubSeq(s, 1, d + i)) = {j \in 1..d + i : j \in Colons(s)}
    BY <1>1, <1>3, <2>2
  <2>7. Colons(SubSeq(s, 1, d + i)) = E \cup {d}
    <3>1. ASSUME NEW j \in 1..d + i, j \in Colons(s)
          PROVE  j \in E \cup {d}
      <4>1. CASE j > d
        <5>1. PICK l \in 1..i : l = j - d
          <6>1. PICK n \in Nat : n = i
            BY <1>2
          <6> QED
            BY <4>1, <6>1
        <5>2. j = d + l /\ l \in 1..Len(b)
          BY <1>2, <2>1, <5>1
        <5>3. l \in Colons(b)
          BY <1>2, <2>1, <3>1, <5>2
        <5> QED
          BY <2>4, <2>5, <5>1, <5>2, <5>3
      <4>2. CASE j < d
        BY <1>2, <2>1, <3>1, <4>2
      <4> QED
        BY <4>1, <4>2
    <3>2. ASSUME NEW l \in C
          PROVE  d + l \in 1..d + i /\ d + l \in Colons(s)
      BY <1>2, <2>1, <2>4, <3>2
    <3> QED
      BY <1>2, <2>1, <2>2, <2>5, <2>6, <3>1, <3>2
  <2>8. IsFiniteSet(C)
    <3>1. IsFiniteSet(1..i) /\ C \subseteq 1..i
      BY <2>4, FS_Interval
    <3> QED
      BY <3>1, FS_Subset
  <2>9. IsFiniteSet(E) /\ Cardinality(E) = Cardinality(C)
    <3>1. PICK f : f = [j \in C |-> d + j]
      OBVIOUS
    <3>2. f \in Bijection(C, E)
      BY <2>4, <2>5, <3>1 DEF Bijection, Injection, Surjection, IsInjective
    <3>3. ExistsBijection(C, E)
      BY <3>2 DEF ExistsBijection
    <3> QED
      BY <2>8, <3>3, FS_Bijection
  <2>10. d \notin E
    BY <2>4, <2>5
  <2>11. Cardinality(E \cup {d}) = Cardinality(E) + 1
    BY <2>9, <2>10, FS_AddElement
  <2> QED
    BY <2>1, <2>3, <2>7, <2>9, <2>11
<1> QED
  BY <1>4, <1>5

LEMMA CutPieces ==
  ASSUME NEW s, NEW a, NEW b, Cut(s, a, b)
  PROVE  Pieces(s) = Pieces(b) + 1 /\ Pieces(b) \in Nat
<1>1. s \in Texts /\ b \in Texts /\ Len(s) = Len(a) + 1 + Len(b) /\ Len(a) \in Nat /\ Len(b) \in Nat
  BY CutColons DEF Cut
<1>2. SubSeq(s, 1, Len(s)) = s /\ SubSeq(b, 1, Len(b)) = b
  BY <1>1 DEF Texts
<1>3. Cardinality(Colons(s)) = Cardinality(Colons(b)) + 1 /\ Cardinality(Colons(b)) \in Nat
  <2>1. Len(b) \in 0..Len(b)
    BY <1>1
  <2>2. Cardinality(Colons(SubSeq(s, 1, Len(a) + 1 + Len(b))))
           = Cardinality(Colons(SubSeq(b, 1, Len(b)))) + 1
    BY <2>1, CutCount
  <2>3. Cardinality(Colons(b)) \in Nat
    BY <1>1, ColonsType
  <2> QED
    BY <1>1, <1>2, <2>2, <2>3
<1>4. s # <<>> /\ (Last(s) # Colon <=> b # <<>> /\ Last(b) # Colon)
  <2>1. CASE Len(b) = 0
    <3>1. b = <<>> /\ s # <<>> /\ s[Len(s)] = Colon
      BY <1>1, <2>1, EmptySeq DEF Cut, Texts
    <3> QED
      BY <3>1 DEF Last
  <2>2. CASE Len(b) # 0
    <3>1. Len(b) \in 1..Len(b) /\ b # <<>> /\ s # <<>>
      BY <1>1, <2>2, EmptySeq DEF Texts
    <3>2. s[Len(s)] = b[Len(b)]
      BY <1>1, <3>1 DEF Cut
    <3> QED
      BY <3>1, <3>2 DEF Last
  <2> QED
    BY <2>1, <2>2
<1> QED
  BY <1>3, <1>4 DEF Pieces

\* A piece that the text begins with.
LEMMA BeginPiece ==
  ASSUME NEW s \in Texts, NEW k, NEW n \in 0..Len(s), PiecePlaces(s, k) = 1..n
  PROVE  Piece(s, k) = SubSeq(s, 1, n)
<1>1. Len(s) \in Nat /\ n \in Nat
  BY DEF Texts
<1>2. CASE n = 0
  <2>1. 1..n = {} /\ SubSeq(s, 1, n) = <<>>
    BY <1>2, SubSeqEmpty
  <2> QED
    BY <2>1 DEF Piece, PiecePlaces
<1>3. CASE n # 0
  <2>1. PICK T : T = 1..n
    OBVIOUS
  <2>2. T # {} /\ T \subseteq 0..n /\ T \subseteq Nat /\ 1 \in T /\ n \in T
    <3>1. 1 \in 1..n /\ n \in 1..n
      BY <1>1, <1>3
    <3>2. 1..n \subseteq 0..n /\ 1..n \subseteq Nat
      BY <1>1
    <3> QED
      BY <2>1, <3>1, <3>2
  <2>3. /\ Min(T) \in T /\ \A y \in T : Min(T) <= y
        /\ Max(T) \in T /\ \A y \in T : y <= Max(T)
    BY <1>1, <2>2, MinIs, MaxIs
  <2>4. Min(T) = 1 /\ Max(T) = n
    <3>1. PICK v \in 1..n, w \in 1..n : v = Min(T) /\ w = Max(T)
      BY <2>1, <2>3
    <3> QED
      BY <2>2, <2>3, <3>1
  <2> QED
    BY <2>1, <2>2, <2>4 DEF Piece, PiecePlaces
<1> QED
  BY <1>2, <1>3

\* A text without a colon is its only piece.
LEMMA OnePiece ==
  ASSUME NEW s \in Texts, Colons(s) = {}
  PROVE  /\ Piece(s, 0) = s
         /\ \A k \in Nat : Piece(s, k + 1) = <<>>
         /\ Pieces(s) = IF s = <<>> THEN 0 ELSE 1
<1>1. Len(s) \in Nat /\ DOMAIN s = 1..Len(s)
  BY DEF Texts
<1>2. \A i \in 1..Len(s) : s[i] # Colon
  BY <1>1 DEF Colons
<1>3. ASSUME NEW i \in 1..Len(s)
      PROVE  Cardinality(Colons(SubSeq(s, 1, i))) = 0
  <2>1. \A j \in 1..i : SubSeq(s, 1, i)[j] # Colon
    BY <1>1, <1>2, BeginType
  <2>2. DOMAIN SubSeq(s, 1, i) = 1..i
    BY <1>1, BeginType DEF Texts
  <2>3. Colons(SubSeq(s, 1, i)) = {}
    BY <2>1, <2>2 DEF Colons
  <2> QED
    BY <2>3, FS_EmptySet
<1>4. PiecePlaces(s, 0) = 1..Len(s) /\ \A k \in Nat : PiecePlaces(s, k + 1) = {}
  BY <1>1, <1>3 DEF PiecePlaces
<1>5. Piece(s, 0) = s
  <2>1. Piece(s, 0) = SubSeq(s, 1, Len(s))
    BY <1>1, <1>4, BeginPiece
  <2> QED
    BY <2>1 DEF Texts
<1>6. \A k \in Nat : Piece(s, k + 1) = <<>>
  BY <1>4 DEF Piece, PiecePlaces
<1>7. Pieces(s) = IF s = <<>> THEN 0 ELSE 1
  <2>1. Cardinality(Colons(s)) = 0
    BY FS_EmptySet
  <2>2. s # <<>> => Last(s) # Colon
    BY <1>1, <1>2, EmptySeq DEF Last, Texts
  <2> QED
    BY <2>1, <2>2 DEF Pieces
<1> QED
  BY <1>5, <1>6, <1>7

\* The first piece is what comes before the first colon, and the others are the
\* pieces of what comes after it.
LEMMA CutPiece ==
  ASSUME NEW s, NEW a, NEW b, Cut(s, a, b)
  PROVE  Piece(s, 0) = a /\ \A k \in Nat : Piece(s, k + 1) = Piece(b, k)
<1>1. s \in Texts /\ a \in Texts /\ b \in Texts /\ Len(s) = Len(a) + 1 + Len(b)
  BY DEF Cut
<1>2. /\ Len(a) \in Nat /\ Len(b) \in Nat /\ Len(s) \in Nat
      /\ \A i \in 1..Len(a) : i \notin Colons(s)
      /\ Len(a) + 1 \in Colons(s)
      /\ \A i \in 1..Len(b) : Len(a) + 1 + i \in Colons(s) <=> i \in Colons(b)
  BY CutColons
<1>3. DOMAIN s = 1..Len(s) /\ DOMAIN b = 1..Len(b)
  BY <1>1 DEF Texts
<1>4. /\ \A i \in 0..Len(a) : Cardinality(Colons(SubSeq(s, 1, i))) = 0
      /\ \A i \in 0..Len(b) : Cardinality(Colons(SubSeq(s, 1, Len(a) + 1 + i)))
                                 = Cardinality(Colons(SubSeq(b, 1, i))) + 1
      /\ \A i \in 0..Len(b) : Cardinality(Colons(SubSeq(b, 1, i))) \in Nat
  <2>1. \A i \in 0..Len(b) : Cardinality(Colons(SubSeq(b, 1, i))) \in Nat
    BY <1>1, BeginType, ColonsType
  <2> QED
    BY <2>1, CutCount
<1>5. PICK d \in Nat : d = Len(a) + 1
  BY <1>2
<1>6. \A i \in 1..Len(s) : i < d \/ i = d \/ \E j \in 1..Len(b) : i = d + j
  <2>1. ASSUME NEW i \in 1..Len(s), i > d
        PROVE  \E j \in 1..Len(b) : i = d + j
    <3>1. PICK n \in Nat : n = Len(b)
      BY <1>2
    <3>2. i - d \in 1..n /\ i = d + (i - d)
      BY <1>1, <1>2, <1>5, <2>1, <3>1
    <3> QED
      BY <3>1, <3>2
  <2>2. \A i \in 1..Len(s) : i < d \/ i = d \/ i > d
    BY <1>5
  <2> QED
    BY <2>1, <2>2
<1>7. PiecePlaces(s, 0) = 1..Len(a)
  <2>1. \A i \in 1..Len(a) : i \in PiecePlaces(s, 0)
    BY <1>1, <1>2, <1>3, <1>4 DEF PiecePlaces
  <2>2. \A j \in 1..Len(b) : d + j \notin PiecePlaces(s, 0)
    BY <1>4, <1>5 DEF PiecePlaces
  <2>3. d \notin PiecePlaces(s, 0)
    BY <1>2, <1>5 DEF PiecePlaces
  <2>4. \A i \in PiecePlaces(s, 0) : i \in 1..Len(s)
    BY <1>3 DEF PiecePlaces
  <2>5. \A i \in PiecePlaces(s, 0) : i \in 1..Len(s) /\ i < d
    BY <1>6, <2>2, <2>3, <2>4
  <2>6. \A i \in PiecePlaces(s, 0) : i \in 1..Len(a)
    BY <1>2, <1>5, <2>5
  <2> QED
    BY <2>1, <2>6
<1>8. Piece(s, 0) = a
  <2>1. Len(a) \in 0..Len(s)
    BY <1>1, <1>2
  <2>2. Piece(s, 0) = SubSeq(s, 1, Len(a))
    BY <1>1, <1>7, <2>1, BeginPiece
  <2>3. /\ SubSeq(s, 1, Len(a)) \in Seq(Chars) /\ Len(SubSeq(s, 1, Len(a))) = Len(a)
        /\ \A j \in 1..Len(a) : SubSeq(s, 1, Len(a))[j] = a[j]
    BY <1>1, <2>1, BeginType DEF Cut, Texts
  <2> QED
    BY <1>1, <2>2, <2>3, SeqEqual DEF Texts
<1>9. ASSUME NEW k \in Nat
      PROVE  Piece(s, k + 1) = Piece(b, k)
  <2>1. PICK T : T = PiecePlaces(b, k)
    OBVIOUS
  <2>2. PICK E : E = PiecePlaces(s, k + 1)
    OBVIOUS
  <2>3. \A j \in 1..Len(b) : d + j \in E <=> j \in T
    BY <1>1, <1>2, <1>3, <1>4, <1>5, <2>1, <2>2 DEF PiecePlaces
  <2>4. \A i \in E : \E j \in 1..Len(b) : i = d + j
    <3>1. \A i \in 1..Len(a) : i \notin E
      BY <1>4, <2>2 DEF PiecePlaces
    <3>2. d \notin E /\ \A i \in E : i \in 1..Len(s)
      BY <1>2, <1>3, <1>5, <2>2 DEF PiecePlaces
    <3> QED
      BY <1>2, <1>5, <1>6, <3>1, <3>2
  <2>5. T \subseteq 1..Len(b) /\ T \subseteq 0..Len(b) /\ T \subseteq Nat
    BY <1>2, <1>3, <2>1 DEF PiecePlaces
  <2>6. CASE T = {}
    BY <2>1, <2>2, <2>3, <2>4, <2>6 DEF Piece, PiecePlaces
  <2>7. CASE T # {}
    <3>1. PICK x \in 1..Len(b), y \in 1..Len(b) :
             /\ x = Min(T) /\ y = Max(T) /\ x \in T /\ y \in T
             /\ \A j \in T : x <= j /\ j <= y
      BY <1>2, <2>5, <2>7, MinIs, MaxIs
    <3>2. d + x \in E /\ d + y \in E /\ \A i \in E : d + x <= i /\ i <= d + y
      <4>1. ASSUME NEW i \in E
            PROVE  d + x <= i /\ i <= d + y
        <5>1. PICK j \in 1..Len(b) : i = d + j
          BY <2>4
        <5> QED
          BY <2>3, <3>1, <5>1
      <4> QED
        BY <2>3, <3>1, <4>1
    <3>3. E \subseteq Nat /\ E # {} /\ E \subseteq 0..Len(s)
      BY <1>3, <2>2, <3>2 DEF PiecePlaces
    <3>4. Min(E) = d + x /\ Max(E) = d + y
      <4>1. Min(E) \in E /\ Min(E) <= d + x /\ Max(E) \in E /\ d + y <= Max(E)
        BY <1>2, <3>2, <3>3, MinIs, MaxIs
      <4>2. PICK v \in Nat, w \in Nat : v = Min(E) /\ w = Max(E)
        BY <3>3, <4>1
      <4> QED
        BY <3>1, <3>2, <4>1, <4>2
    <3>5. Piece(s, k + 1) = SubSeq(s, d + x, d + y) /\ Piece(b, k) = SubSeq(b, x, y)
      BY <2>1, <2>2, <2>7, <3>1, <3>3, <3>4 DEF Piece, PiecePlaces
    <3>6. \A i \in x..y : b[i] \in Chars /\ s[d + i] = b[i]
      BY <1>1, <1>2, <1>5 DEF Cut, Texts
    <3>7. \A i \in d + x..d + y : s[i] \in Chars
      BY <1>1, <1>2, <1>5, <3>1 DEF Texts
    <3>8. /\ SubSeq(b, x, y) \in Seq(Chars)
          /\ Len(SubSeq(b, x, y)) = IF x <= y THEN y - x + 1 ELSE 0
          /\ \A i \in 1..y - x + 1 : SubSeq(b, x, y)[i] = b[x + i - 1]
      BY <3>1, <3>6, SubSeqProperties
    <3>9. PICK v \in Nat, w \in Nat : v = d + x /\ w = d + y
      BY <3>1
    <3>10. /\ SubSeq(s, v, w) \in Seq(Chars)
           /\ Len(SubSeq(s, v, w)) = IF v <= w THEN w - v + 1 ELSE 0
           /\ \A i \in 1..w - v + 1 : SubSeq(s, v, w)[i] = s[v + i - 1]
      BY <3>7, <3>9, SubSeqProperties
    <3>11. x <= y /\ x \in Nat /\ y \in Nat
      BY <1>2, <3>1
    <3>12. ASSUME NEW i \in 1..y - x + 1
           PROVE  SubSeq(s, v, w)[i] = SubSeq(b, x, y)[i]
      <4>1. /\ v + i - 1 = d + (x + i - 1) /\ x + i - 1 \in x..y /\ w - v + 1 = y - x + 1
        BY <3>9, <3>11
      <4>2. SubSeq(s, v, w)[i] = s[d + (x + i - 1)]
        BY <3>10, <4>1
      <4>3. SubSeq(b, x, y)[i] = b[x + i - 1]
        BY <3>8
      <4> QED
        BY <3>6, <4>1, <4>2, <4>3
    <3> QED
      <4>1. Len(SubSeq(s, v, w)) = y - x + 1 /\ Len(SubSeq(b, x, y)) = y - x + 1
        BY <3>1, <3>8, <3>9, <3>10, <3>11
      <4> QED
        BY <3>5, <3>8, <3>9, <3>10, <3>12, <4>1, SeqEqual
  <2> QED
    BY <2>6, <2>7
<1> QED
  BY <1>8, <1>9

-----------------------------------------------------------------------------
(* Lines one after the other.                                                *)

\* The function that FlattenSeq chooses exists.
LEMMA FlattenDef ==
  ASSUME NEW s, Len(s) \in Nat \ {0}
  PROVE  \E f : /\ f[1] = s[1]
                /\ \A n \in 1..Len(s) - 1 : f[n + 1] = f[n] \o s[n + 1]
                /\ FlattenSeq(s) = f[Len(s)]
<1> DEFINE Element(h, i) == IF i = 1 THEN s[i] ELSE h[i - 1] \o s[i]
           Is(h, k) == h = [n \in 1..k |-> Element(h, n)]
           T == {k \in Nat : \E h : Is(h, k)}
<1>1. 0 \in T
  <2>1. Is([n \in 1..0 |-> <<>>], 0)
    OBVIOUS
  <2> QED
    BY <2>1
<1>2. ASSUME NEW m \in T
      PROVE  m + 1 \in T
  <2>1. PICK f : Is(f, m)
    OBVIOUS
  <2>2. m \in Nat
    OBVIOUS
  <2>3. PICK g : g = [n \in 1..m + 1 |-> IF n = m + 1 THEN Element(f, n) ELSE f[n]]
    OBVIOUS
  <2>4. ASSUME NEW n \in 1..m + 1
        PROVE  g[n] = Element(g, n)
    <3>1. CASE n = 1
      <4>1. CASE m = 0
        BY <2>3, <3>1, <4>1
      <4>2. CASE m # 0
        BY <2>1, <2>2, <2>3, <3>1, <4>2
      <4> QED
        BY <4>1, <4>2
    <3>2. CASE n \in 2..m + 1
      <4>1. n - 1 \in 1..m /\ g[n - 1] = f[n - 1]
        BY <2>2, <2>3, <3>2
      <4>2. CASE n = m + 1
        BY <2>2, <2>3, <4>1, <4>2
      <4>3. CASE n \in 1..m
        <5> HIDE DEF Element
        <5>1. g[n] = f[n] /\ f[n] = Element(f, n)
          BY <2>1, <2>2, <2>3, <4>3
        <5>2. Element(f, n) = Element(g, n)
          BY <3>2, <4>1 DEF Element
        <5> QED
          BY <5>1, <5>2
      <4> QED
        BY <2>2, <3>2, <4>2, <4>3
    <3> QED
      BY <2>2, <3>1, <3>2
  <2>5. Is(g, m + 1)
    <3> HIDE DEF Element
    <3> QED
      BY <2>3, <2>4
  <2> HIDE DEF Is
  <2> QED
    BY <2>2, <2>5
<1>3. T = Nat
  <2> HIDE DEF Is
  <2>1. T \subseteq Nat
    OBVIOUS
  <2> HIDE DEF T
  <2> QED
    BY <1>1, <1>2, <2>1, Induct
<1>4. PICK f : f = CHOOSE h : Is(h, Len(s))
  OBVIOUS
<1>5. Is(f, Len(s))
  <2> HIDE DEF Is
  <2>1. Len(s) \in T
    BY <1>3
  <2> QED
    BY <1>4, <2>1
<1>6. FlattenSeq(s) = f[Len(s)]
  BY <1>4 DEF FlattenSeq
<1>7. \A n \in 1..Len(s) : f[n] = Element(f, n)
  <2> HIDE DEF Element
  <2> QED
    BY <1>5
<1>8. f[1] = s[1]
  BY <1>7
<1>9. \A n \in 1..Len(s) - 1 : f[n + 1] = f[n] \o s[n + 1]
  <2> SUFFICES ASSUME NEW n \in 1..Len(s) - 1
               PROVE  f[n + 1] = f[n] \o s[n + 1]
    OBVIOUS
  <2>1. PICK k \in 1..Len(s) : k = n + 1 /\ k # 1 /\ k - 1 = n
    OBVIOUS
  <2>2. f[k] = Element(f, k)
    <3> HIDE DEF Element
    <3> QED
      BY <1>7
  <2>3. Element(f, k) = f[n] \o s[k]
    <3> HIDE <1>5, <1>7
    <3> QED
      BY <2>1
  <2> QED
    BY <2>1, <2>2, <2>3
<1> QED
  BY <1>6, <1>8, <1>9

LEMMA FlattenEmpty == FlattenSeq(<<>>) = <<>>
BY DEF FlattenSeq

LEMMA FlattenAppend ==
  ASSUME NEW D, NEW s \in Seq(Seq(D)), NEW e \in Seq(D)
  PROVE  /\ FlattenSeq(s) \in Seq(D)
         /\ FlattenSeq(Append(s, e)) = FlattenSeq(s) \o e
<1>a. PICK M : M = Seq(D)
  OBVIOUS
<1>b. s \in Seq(M) /\ e \in M
  BY <1>a
<1>1. PICK t \in Seq(M) : t = Append(s, e)
  BY <1>b, AppendProperties
<1>2. /\ Len(s) \in Nat /\ Len(t) = Len(s) + 1 /\ t[Len(s) + 1] = e
      /\ \A n \in 1..Len(s) : t[n] = s[n] /\ s[n] \in Seq(D)
      /\ Len(t) \in Nat \ {0}
  BY <1>a, <1>b, <1>1, AppendProperties
<1>3. PICK g : /\ g[1] = t[1]
               /\ \A n \in 1..Len(t) - 1 : g[n + 1] = g[n] \o t[n + 1]
               /\ FlattenSeq(t) = g[Len(t)]
  BY <1>2, FlattenDef
<1>4. CASE Len(s) = 0
  <2>1. s = <<>> /\ FlattenSeq(s) = <<>>
    BY <1>4, EmptySeq, FlattenEmpty
  <2>2. FlattenSeq(t) = e /\ <<>> \o e = e /\ <<>> \in Seq(D)
    BY <1>2, <1>3, <1>4, ConcatEmptySeq, EmptySeq
  <2> QED
    BY <1>1, <2>1, <2>2
<1>5. CASE Len(s) # 0
  <2>1. PICK f : /\ f[1] = s[1]
                 /\ \A n \in 1..Len(s) - 1 : f[n + 1] = f[n] \o s[n + 1]
                 /\ FlattenSeq(s) = f[Len(s)]
    BY <1>2, <1>5, FlattenDef
  <2>2. \A n \in 1..Len(s) : g[n] = f[n] /\ f[n] \in Seq(D)
    <3> DEFINE T == {n \in Nat : n = 0 \/ (g[n] = f[n] /\ f[n] \in Seq(D))}
    <3>1. 0 \in T
      OBVIOUS
    <3>2. ASSUME NEW n \in 0..Len(s) - 1, n \in T
          PROVE  n + 1 \in T
      <4>1. CASE n = 0
        <5>1. 1 \in 1..Len(s) /\ 0 + 1 = 1
          BY <1>2, <1>5
        <5>2. g[1] = f[1] /\ f[1] \in Seq(D)
          BY <1>2, <1>3, <2>1, <5>1
        <5> QED
          BY <4>1, <5>1, <5>2
      <4>2. CASE n # 0
        <5>1. n \in 1..Len(s) - 1 /\ n \in 1..Len(t) - 1 /\ n + 1 \in 1..Len(s)
          BY <1>2, <4>2
        <5>2. g[n + 1] = g[n] \o t[n + 1] /\ f[n + 1] = f[n] \o s[n + 1]
          BY <1>3, <2>1, <5>1
        <5>3. PICK x \in Seq(D), y \in Seq(D) : x = f[n] /\ y = s[n + 1] /\ y = t[n + 1] /\ x = g[n]
          BY <1>2, <3>2, <4>2, <5>1
        <5>4. x \o y \in Seq(D)
          BY ConcatProperties
        <5>5. f[n + 1] = x \o y /\ g[n + 1] = x \o y
          BY <5>2, <5>3
        <5>6. n + 1 \in Nat
          OBVIOUS
        <5> QED
          BY <5>4, <5>5, <5>6
      <4> QED
        BY <4>1, <4>2
    <3>3. 0..Len(s) \subseteq T
      <4> HIDE DEF T
      <4> QED
        BY <1>2, <3>1, <3>2, InductTo
    <3>4. \A n \in 1..Len(s) : n \in 0..Len(s) /\ n # 0
      OBVIOUS
    <3> QED
      BY <3>3, <3>4
  <2>3. Len(s) \in 1..Len(s) /\ Len(s) \in 1..Len(t) - 1
    BY <1>2, <1>5
  <2>4. g[Len(t)] = g[Len(s)] \o e
    BY <1>2, <1>3, <2>3
  <2> QED
    BY <1>1, <1>3, <2>1, <2>2, <2>3, <2>4
<1> QED
  BY <1>4, <1>5

\* The running concatenations of a sequence of sequences, and of the same
\* sequence with e before it: the second are the first with e before them.
AreRunning(D, e, k, t, f, g) ==
  /\ e \in Seq(D) /\ k \in Nat \ {0}
  /\ \A n \in 1..k : t[n] \in Seq(D)
  /\ f[1] = t[1] /\ \A n \in 1..k - 1 : f[n + 1] = f[n] \o t[n + 1]
  /\ g[1] = e /\ \A n \in 1..k : g[n + 1] = g[n] \o t[n]

LEMMA RunningConcats ==
  ASSUME NEW D, NEW e, NEW k, NEW t, NEW f, NEW g, AreRunning(D, e, k, t, f, g)
  PROVE  g[k + 1] = e \o f[k]
<1> USE DEF AreRunning
<1>1. \A x, y \in Seq(D) : (e \o x) \o y = e \o (x \o y)
  BY Regrouped
<1> DEFINE T == {n \in Nat : n = 0 \/ (g[n + 1] = e \o f[n] /\ f[n] \in Seq(D))}
<1>2. 0 \in T
  OBVIOUS
<1>3. ASSUME NEW n \in 0..k - 1, n \in T
      PROVE  n + 1 \in T
  <2>1. CASE n = 0
    <3>1. 1 \in 1..k /\ 0 + 1 = 1 /\ 1 + 1 = 2
      OBVIOUS
    <3>2. g[1 + 1] = e \o f[1] /\ f[1] \in Seq(D) /\ 1 \in Nat
      BY <3>1
    <3>3. 1 \in T
      BY <3>2
    <3> QED
      BY <2>1, <3>1, <3>3
  <2>2. CASE n # 0
    <3>1. n \in 1..k - 1 /\ n + 1 \in 1..k /\ n + 1 + 1 = n + 2 /\ n + 1 \in Nat
      BY <2>2
    <3>2. g[n + 2] = g[n + 1] \o t[n + 1] /\ f[n + 1] = f[n] \o t[n + 1]
      BY <3>1
    <3>3. PICK x \in Seq(D), y \in Seq(D) : x = f[n] /\ y = t[n + 1] /\ g[n + 1] = e \o x
      BY <1>3, <2>2, <3>1
    <3>4. x \o y \in Seq(D)
      BY ConcatProperties
    <3>5. (e \o x) \o y = e \o (x \o y)
      BY <1>1
    <3>6. f[n + 1] = x \o y /\ g[n + 2] = (e \o x) \o y
      BY <3>2, <3>3
    <3> QED
      BY <3>1, <3>4, <3>5, <3>6
  <2> QED
    BY <2>1, <2>2
<1>4. 0..k \subseteq T
  <2> HIDE DEF T
  <2> QED
    BY <1>2, <1>3, InductTo
<1>5. k \in 0..k /\ k # 0
  OBVIOUS
<1> QED
  BY <1>4, <1>5

\* Flattening a sequence with e before it puts e before what it flattens to.
IsPrefixed(D, e, s, t) ==
  /\ e \in Seq(D) /\ Len(t) \in Nat \ {0} /\ Len(s) = Len(t) + 1 /\ e = s[1]
  /\ \A n \in 1..Len(t) : t[n] = s[n + 1] /\ t[n] \in Seq(D)

LEMMA FlattenPrefixed ==
  ASSUME NEW D, NEW e, NEW s, NEW t, IsPrefixed(D, e, s, t)
  PROVE  FlattenSeq(s) = e \o FlattenSeq(t)
<1>0. /\ e \in Seq(D) /\ Len(t) \in Nat \ {0} /\ Len(s) = Len(t) + 1 /\ e = s[1]
      /\ \A n \in 1..Len(t) : t[n] = s[n + 1] /\ t[n] \in Seq(D)
  BY DEF IsPrefixed
<1>1. PICK k \in Nat \ {0} : k = Len(t) /\ Len(s) = k + 1
  BY <1>0
<1>2. Len(s) \in Nat \ {0} /\ Len(s) - 1 = k
  BY <1>1
<1>3. PICK g : /\ g[1] = s[1]
               /\ \A n \in 1..Len(s) - 1 : g[n + 1] = g[n] \o s[n + 1]
               /\ FlattenSeq(s) = g[Len(s)]
  BY <1>2, FlattenDef
<1>4. PICK f : /\ f[1] = t[1]
               /\ \A n \in 1..Len(t) - 1 : f[n + 1] = f[n] \o t[n + 1]
               /\ FlattenSeq(t) = f[Len(t)]
  BY <1>1, FlattenDef
<1>5. g[1] = e /\ f[1] = t[1]
  BY <1>0, <1>3, <1>4
<1>6. \A n \in 1..k : g[n + 1] = g[n] \o t[n]
  BY <1>0, <1>1, <1>2, <1>3
<1>7. \A n \in 1..k - 1 : f[n + 1] = f[n] \o t[n + 1]
  BY <1>1, <1>4
<1>8. \A n \in 1..k : t[n] \in Seq(D)
  BY <1>0, <1>1
<1>9. AreRunning(D, e, k, t, f, g)
  BY <1>0, <1>1, <1>5, <1>6, <1>7, <1>8 DEF AreRunning
<1>10. g[k + 1] = e \o f[k]
  BY <1>9, RunningConcats
<1> QED
  BY <1>1, <1>3, <1>4, <1>10

LEMMA FlattenHead ==
  ASSUME NEW D, NEW s \in Seq(Seq(D)), s # <<>>
  PROVE  FlattenSeq(s) = Head(s) \o FlattenSeq(Tail(s))
<1>a. PICK M : M = Seq(D)
  OBVIOUS
<1>b. s \in Seq(M)
  BY <1>a
<1>1. PICK t \in Seq(M) : t = Tail(s)
  BY <1>b, HeadTailProperties
<1>2. PICK e \in Seq(D) : e = Head(s)
  BY <1>a, <1>b, HeadTailProperties
<1>3. /\ Len(t) \in Nat /\ Len(s) = Len(t) + 1 /\ e = s[1]
      /\ \A n \in 1..Len(t) : t[n] = s[n + 1] /\ t[n] \in Seq(D)
      /\ Len(s) \in Nat \ {0}
  BY <1>a, <1>b, <1>1, <1>2, HeadTailProperties
<1>4. CASE Len(t) = 0
  <2>1. t = <<>> /\ FlattenSeq(t) = <<>>
    BY <1>4, EmptySeq, FlattenEmpty
  <2>2. PICK g : g[1] = s[1] /\ FlattenSeq(s) = g[Len(s)]
    BY <1>3, FlattenDef
  <2>3. FlattenSeq(s) = e /\ e \o <<>> = e
    BY <1>3, <1>4, <2>2, ConcatEmptySeq
  <2> QED
    BY <1>1, <1>2, <2>1, <2>3
<1>5. CASE Len(t) # 0
  <2>1. Len(t) \in Nat \ {0}
    BY <1>3, <1>5
  <2>2. IsPrefixed(D, e, s, t)
    BY <1>3, <2>1 DEF IsPrefixed
  <2>3. FlattenSeq(s) = e \o FlattenSeq(t)
    BY <2>2, FlattenPrefixed
  <2> QED
    BY <1>1, <1>2, <2>3
<1> QED
  BY <1>4, <1>5

-----------------------------------------------------------------------------
(* The line of a message.                                                    *)

\* What comes after the tag and its colon.
Rest(m) == Body(m) \o <<Newline>>

LEMMA Separators ==
  /\ Colon \in Chars /\ Newline \in Chars /\ Colon # Newline
  /\ \A w \in Words : w \in Chars /\ w # Colon /\ w # Newline
  /\ {<<Colon>>, <<Newline>>} \subseteq Texts
BY WordsAssumption DEF Chars, Colon, Newline, Texts

LEMMA RestIs ==
  ASSUME NEW m, Body(m) \in Texts
  PROVE  /\ Rest(m) \in Texts /\ Len(Rest(m)) = Len(Body(m)) + 1 /\ Len(Body(m)) \in Nat
         /\ Rest(m)[Len(Body(m)) + 1] = Newline
         /\ \A i \in 1..Len(Body(m)) : Rest(m)[i] = Body(m)[i]
BY Separators, ConcatProperties DEF Rest, Texts

LEMMA EncodeIs ==
  ASSUME NEW m, m.tag \in Words, Body(m) \in Texts
  PROVE  /\ Encode(m) \in Texts /\ Len(Encode(m)) = Len(Body(m)) + 3
         /\ Cut(Encode(m), <<m.tag>>, Rest(m))
<1>1. PICK w \in Chars : w = m.tag /\ w # Colon /\ w # Newline
  BY Separators
<1>2. PICK b \in Seq(Chars) : b = Body(m)
  BY DEF Texts
<1>3. PICK n \in Nat : n = Len(b)
  OBVIOUS
<1>4. /\ <<w, Colon>> \in Seq(Chars) /\ Len(<<w, Colon>>) = 2
      /\ <<w, Colon>>[1] = w /\ <<w, Colon>>[2] = Colon
  BY Separators
<1>5. PICK h \in Seq(Chars) : h = <<w, Colon>>
  BY <1>4
<1>6. PICK c \in Seq(Chars) : c = h \o b
  BY ConcatProperties
<1>7. /\ Len(c) = n + 2 /\ c[1] = w /\ c[2] = Colon
      /\ \A i \in 1..n : c[2 + i] = b[i]
  BY <1>3, <1>4, <1>5, <1>6, ConcatProperties
<1>8. /\ <<Newline>> \in Seq(Chars) /\ Len(<<Newline>>) = 1 /\ <<Newline>>[1] = Newline
  BY Separators
<1>9. PICK e \in Seq(Chars) : e = c \o <<Newline>>
  BY <1>8, ConcatProperties
<1>10. /\ Len(e) = n + 3 /\ e[n + 3] = Newline
       /\ \A i \in 1..n + 2 : e[i] = c[i]
  BY <1>7, <1>8, <1>9, ConcatProperties
<1>11. Encode(m) = e
  BY <1>1, <1>2, <1>5, <1>6, <1>9 DEF Encode
<1>12. /\ <<w>> \in Texts /\ Len(<<w>>) = 1 /\ <<w>>[1] = w /\ Colons(<<w>>) = {}
  BY <1>1 DEF Texts, Colons
<1>13. /\ Rest(m) \in Texts /\ Len(Rest(m)) = n + 1 /\ Rest(m)[n + 1] = Newline
       /\ \A i \in 1..n : Rest(m)[i] = b[i]
  BY <1>2, <1>3, RestIs
<1>14. ASSUME NEW i \in 1..n + 1
       PROVE  e[2 + i] = Rest(m)[i]
  <2>1. CASE i = n + 1
    BY <1>10, <1>13, <2>1
  <2>2. CASE i \in 1..n
    <3>1. 2 + i \in 1..n + 2
      BY <2>2
    <3> QED
      BY <1>7, <1>10, <1>13, <2>2, <3>1
  <2> QED
    BY <2>1, <2>2
<1>15. e[1] = w /\ e[2] = Colon
  BY <1>7, <1>10
<1>16. Cut(e, <<w>>, Rest(m))
  <2>1. PICK a : a = <<w>>
    OBVIOUS
  <2>2. a \in Texts /\ Len(a) = 1 /\ a[1] = w /\ Colons(a) = {}
    BY <1>12, <2>1
  <2>3. e \in Texts /\ Len(e) = Len(a) + 1 + Len(Rest(m)) /\ e[Len(a) + 1] = Colon
    BY <1>9, <1>10, <1>13, <1>15, <2>2 DEF Texts
  <2>4. \A i \in 1..Len(a) : e[i] = a[i]
    BY <1>15, <2>2
  <2>5. \A i \in 1..Len(Rest(m)) : e[Len(a) + 1 + i] = Rest(m)[i]
    BY <1>13, <1>14, <2>2
  <2>6. Cut(e, a, Rest(m))
    BY <1>13, <2>2, <2>3, <2>4, <2>5 DEF Cut
  <2> QED
    BY <2>1, <2>6
<1> QED
  BY <1>1, <1>2, <1>3, <1>10, <1>11, <1>16 DEF Texts

\* It has two pieces at least: the tag, and those of the rest.
LEMMA EncodedPieces ==
  ASSUME NEW m, m.tag \in Words, Body(m) \in Texts
  PROVE  /\ ~Invalid(Encode(m))
         /\ Piece(Encode(m), 0) = <<m.tag>>
         /\ \A k \in Nat : Piece(Encode(m), k + 1) = Piece(Rest(m), k)
         /\ Pieces(Encode(m)) = Pieces(Rest(m)) + 1 /\ Pieces(Rest(m)) \in Nat
<1>1. Cut(Encode(m), <<m.tag>>, Rest(m))
  BY EncodeIs
<1>2. Pieces(Encode(m)) = Pieces(Rest(m)) + 1 /\ Pieces(Rest(m)) \in Nat
  BY <1>1, CutPieces
<1>3. Pieces(Rest(m)) >= 1
  <2>1. /\ Rest(m) \in Texts /\ Len(Rest(m)) = Len(Body(m)) + 1 /\ Len(Body(m)) \in Nat
        /\ Rest(m)[Len(Body(m)) + 1] = Newline
    BY RestIs
  <2>2. Rest(m) # <<>> /\ Last(Rest(m)) # Colon
    BY <2>1, Separators, EmptySeq DEF Last, Texts
  <2>3. Cardinality(Colons(Rest(m))) \in Nat
    BY <2>1, ColonsType
  <2> QED
    BY <2>2, <2>3 DEF Pieces
<1> QED
  BY <1>1, <1>2, <1>3, CutPiece DEF Invalid

\* Without a newline in it, and short enough, it is the line that any content
\* that begins with it begins with.
LEMMA EncodedLine ==
  ASSUME NEW m, m.tag \in Words, Body(m) \in Seq(Chars \ {Newline}),
         Len(Encode(m)) <= MaxLen - 1, NEW t \in Texts
  PROVE  LET c == Encode(m) \o t
         IN  /\ c \in Texts /\ Len(c) = Len(Encode(m)) + Len(t)
             /\ SubSeq(c, 1, Len(Encode(m))) = Encode(m)
             /\ Ends(Encode(m))
             /\ \A n \in 0..Len(Encode(m)) - 1 : ~Ends(SubSeq(c, 1, n))
<1>1. Body(m) \in Texts /\ \A i \in 1..Len(Body(m)) : Body(m)[i] # Newline
  BY DEF Texts
<1>2. PICK n \in Nat : n = Len(Body(m))
  BY <1>1 DEF Texts
<1>3. PICK e \in Texts : e = Encode(m)
  BY <1>1, EncodeIs
<1>4. Len(e) = n + 3 /\ Cut(e, <<m.tag>>, Rest(m))
  BY <1>1, <1>2, <1>3, EncodeIs
<1>5. /\ e[1] = m.tag /\ e[2] = Colon
      /\ \A i \in 1..n + 1 : e[2 + i] = Rest(m)[i]
  <2>1. PICK a : a = <<m.tag>>
    OBVIOUS
  <2>2. Len(a) = 1 /\ a[1] = m.tag
    BY <2>1
  <2>3. Len(Rest(m)) = n + 1
    BY <1>1, <1>2, RestIs
  <2>4. Cut(e, a, Rest(m))
    BY <1>4, <2>1
  <2> QED
    BY <2>2, <2>3, <2>4 DEF Cut
<1>6. /\ e[n + 3] = Newline
      /\ \A i \in 1..n + 2 : e[i] # Newline
  <2>1. Rest(m)[n + 1] = Newline /\ \A i \in 1..n : Rest(m)[i] # Newline
    BY <1>1, <1>2, RestIs
  <2>2. e[1] # Newline /\ e[2] # Newline
    BY <1>5, Separators
  <2>3. ASSUME NEW i \in 3..n + 2
        PROVE  e[i] # Newline
    <3>1. PICK j \in 1..n : i = 2 + j
      <4>1. i - 2 \in 1..n /\ i = 2 + (i - 2)
        OBVIOUS
      <4> QED
        BY <4>1
    <3>2. e[2 + j] = Rest(m)[j]
      <4>1. j \in 1..n + 1
        BY <3>1
      <4> QED
        BY <1>5, <4>1
    <3> QED
      BY <2>1, <3>1, <3>2
  <2>4. e[2 + (n + 1)] = Newline
    BY <1>5, <2>1
  <2> QED
    BY <2>2, <2>3, <2>4
<1>7. PICK c \in Texts : c = e \o t
  BY ConcatProperties DEF Texts
<1>8. Len(c) = Len(e) + Len(t) /\ Len(t) \in Nat /\ \A i \in 1..Len(e) : c[i] = e[i]
  BY <1>7, ConcatProperties DEF Texts
<1>9. SubSeq(c, 1, Len(e)) = e
  BY <1>7, SubSeqOfConcat1 DEF Texts
<1>10. Ends(e)
  <2>1. e # <<>>
    BY <1>4, EmptySeq DEF Texts
  <2> QED
    BY <1>4, <1>6, <2>1 DEF Ends, Last
<1>11. ASSUME NEW k \in 0..n + 2
       PROVE  ~Ends(SubSeq(c, 1, k))
  <2>0. k \in 0..Len(c)
    BY <1>4, <1>8
  <2>1. PICK s \in Texts : s = SubSeq(c, 1, k) /\ Len(s) = k /\ \A i \in 1..k : s[i] = c[i]
    BY <1>7, <2>0, BeginType
  <2>2. Len(s) < MaxLen - 1
    BY <1>3, <1>4, <2>1, LengthAssumption
  <2>3. CASE k = 0
    BY <2>1, <2>2, <2>3, EmptySeq, LengthAssumption DEF Ends, Texts
  <2>4. CASE k # 0
    <3>1. s[k] # Newline
      BY <1>4, <1>6, <1>8, <2>1, <2>4
    <3> QED
      BY <2>1, <2>2, <2>4, <3>1, LengthAssumption DEF Ends, Last
  <2> QED
    BY <2>1, <2>3, <2>4
<1>12. 0..Len(e) - 1 = 0..n + 2
  BY <1>4
<1> QED
  BY <1>3, <1>7, <1>8, <1>9, <1>10, <1>11, <1>12

-----------------------------------------------------------------------------
(* The lines of many messages, one after the other.                          *)

\* The characters of the first k messages.
Stream(p, k) == FlattenSeq([i \in 1..k |-> Encode(p[i])])

LEMMA StreamNext ==
  ASSUME NEW M, \A m \in M : Encode(m) \in Texts, NEW p \in Seq(M)
  PROVE  /\ Stream(p, 0) = <<>>
         /\ \A k \in 0..Len(p) : Stream(p, k) \in Texts
         /\ \A k \in 0..Len(p) - 1 : Stream(p, k + 1) = Stream(p, k) \o Encode(p[k + 1])
<1>1. PICK l \in Nat : l = Len(p)
  OBVIOUS
<1>2. PICK T : T = Seq(Chars)
  OBVIOUS
<1> DEFINE h(k) == [i \in 1..k |-> Encode(p[i])]
<1>3. ASSUME NEW k \in 0..l
      PROVE  h(k) \in Seq(T) /\ Len(h(k)) = k
  <2>1. \A i \in 1..k : Encode(p[i]) \in T
    <3>1. \A i \in 1..k : p[i] \in M
      BY <1>1
    <3> QED
      BY <1>2, <3>1 DEF Texts
  <2> QED
    BY <1>1, <2>1
<1>4. ASSUME NEW k \in 0..l
      PROVE  Stream(p, k) \in Texts
  <2>1. PICK g : g = h(k)
    OBVIOUS
  <2>2. g \in Seq(Seq(Chars)) /\ <<>> \in Seq(Chars)
    BY <1>2, <1>3, <2>1
  <2>3. FlattenSeq(g) \in Seq(Chars)
    BY <2>2, FlattenAppend
  <2> QED
    BY <2>1, <2>3 DEF Stream, Texts
<1>5. ASSUME NEW k \in 0..l - 1
      PROVE  Stream(p, k + 1) = Stream(p, k) \o Encode(p[k + 1])
  <2>1. PICK j \in 0..l : j = k + 1 /\ j \in 1..l
    BY <1>1
  <2>2. PICK g : g = h(k)
    OBVIOUS
  <2>3. PICK e : e = Encode(p[j])
    OBVIOUS
  <2>4. g \in Seq(T) /\ Len(g) = k /\ e \in T
    <3>1. k \in 0..l /\ p[j] \in M
      BY <1>1, <2>1
    <3> QED
      BY <1>2, <1>3, <2>2, <2>3, <3>1 DEF Texts
  <2>5. PICK f : f = h(j)
    OBVIOUS
  <2>6. f = Append(g, e)
    <3>1. f \in Seq(T) /\ Len(f) = k + 1
      BY <1>3, <2>1, <2>5
    <3>2. Append(g, e) \in Seq(T) /\ Len(Append(g, e)) = k + 1
          /\ Append(g, e)[k + 1] = e /\ \A i \in 1..k : Append(g, e)[i] = g[i]
      BY <2>4, AppendProperties
    <3>3. \A i \in 1..k : f[i] = g[i]
      BY <2>1, <2>2, <2>5
    <3>4. f[k + 1] = e
      BY <2>1, <2>3, <2>5
    <3>5. \A i \in 1..k + 1 : f[i] = Append(g, e)[i]
      BY <3>2, <3>3, <3>4
    <3> QED
      BY <3>1, <3>2, <3>5, SeqEqual
  <2>7. FlattenSeq(Append(g, e)) = FlattenSeq(g) \o e
    BY <1>2, <2>4, FlattenAppend
  <2>8. Stream(p, j) = FlattenSeq(f) /\ Stream(p, k) = FlattenSeq(g)
    BY <2>2, <2>5 DEF Stream
  <2> QED
    BY <2>1, <2>3, <2>6, <2>7, <2>8
<1>6. Stream(p, 0) = <<>>
  <2>1. PICK g : g = h(0)
    OBVIOUS
  <2>2. g = <<>>
    <3>1. 1..0 = {}
      OBVIOUS
    <3>2. 0 \in 0..l
      OBVIOUS
    <3>3. g \in Seq(T) /\ Len(g) = 0
      BY <1>3, <2>1, <3>2
    <3> QED
      BY <3>3, EmptySeq
  <2> QED
    BY <2>1, <2>2, FlattenEmpty DEF Stream
<1> QED
  BY <1>1, <1>4, <1>5, <1>6

LEMMA StreamAppend ==
  ASSUME NEW M, NEW p \in Seq(M), NEW m \in M, NEW k \in 0..Len(p)
  PROVE  Stream(Append(p, m), k) = Stream(p, k)
<1>1. \A i \in 1..k : Append(p, m)[i] = p[i]
  BY AppendProperties
<1>2. PICK q : q = Append(p, m)
  OBVIOUS
<1>3. [i \in 1..k |-> Encode(q[i])] = [i \in 1..k |-> Encode(p[i])]
  BY <1>1, <1>2
<1> QED
  BY <1>2, <1>3 DEF Stream

\* The first of them come first.
LEMMA StreamFrom ==
  ASSUME NEW M, \A m \in M : Encode(m) \in Texts, NEW p \in Seq(M),
         NEW l \in 0..Len(p), NEW k \in 0..l
  PROVE  \E t \in Texts : Stream(p, l) = Stream(p, k) \o t
<1>1. l \in Nat /\ Len(p) \in Nat /\ l <= Len(p)
  OBVIOUS
<1>2. PICK c \in Texts : c = Stream(p, k)
  <2>1. k \in 0..Len(p)
    BY <1>1
  <2> QED
    BY <2>1, StreamNext
<1> DEFINE T == {j \in 0..l : j < k \/ \E t \in Texts : Stream(p, j) = c \o t}
<1>3. k \in T
  <2>1. c = c \o <<>> /\ <<>> \in Texts
    BY ConcatEmptySeq DEF Texts
  <2> QED
    BY <1>1, <1>2, <2>1
<1>4. 0 \in T
  BY <1>1, <1>3
<1>5. ASSUME NEW j \in 0..l - 1, j \in T
      PROVE  j + 1 \in T
  <2>1. CASE j + 1 <= k
    BY <1>1, <1>3, <2>1
  <2>2. CASE ~(j + 1 <= k)
    <3>1. PICK t \in Texts : Stream(p, j) = c \o t
      BY <1>1, <1>5, <2>2
    <3>2. PICK e \in Texts : e = Encode(p[j + 1])
      <4>1. p[j + 1] \in M
        BY <1>1
      <4> QED
        BY <4>1
    <3>3. Stream(p, j + 1) = (c \o t) \o e
      <4>1. j \in 0..Len(p) - 1
        BY <1>1
      <4> QED
        BY <3>1, <3>2, <4>1, StreamNext
    <3>4. (c \o t) \o e = c \o (t \o e) /\ t \o e \in Texts
      BY ConcatAssociative, ConcatProperties DEF Texts
    <3>5. j + 1 \in 0..l
      OBVIOUS
    <3> QED
      BY <3>3, <3>4, <3>5
  <2> QED
    BY <2>1, <2>2
<1>6. 0..l \subseteq T
  <2> HIDE DEF T
  <2> QED
    BY <1>4, <1>5, InductTo
<1>7. l \in T
  <2>1. l \in 0..l
    OBVIOUS
  <2> HIDE DEF T
  <2> QED
    BY <1>6, <2>1
<1>8. ~(l < k)
  BY <1>1
<1>9. \E t \in Texts : Stream(p, l) = c \o t
  BY <1>7, <1>8
<1> QED
  BY <1>1, <1>2, <1>9

-----------------------------------------------------------------------------
(* A reader that takes lines from the characters of messages.                *)

\* A message that is one line.
OneLine(m) == /\ m.tag \in Words /\ Body(m) \in Seq(Chars \ {Newline})
              /\ Len(Encode(m)) <= MaxLen - 1

\* What is before a sequence, and what is behind it.
LEMMA BeginsWith ==
  ASSUME NEW a \in Texts, NEW b \in Texts
  PROVE  /\ a \o b \in Texts /\ Len(a \o b) = Len(a) + Len(b)
         /\ Len(a) \in Nat /\ Len(b) \in Nat
         /\ SubSeq(a \o b, 1, Len(a)) = a
         /\ SubSeq(a \o b, Len(a) + 1, Len(a \o b)) = b
BY LenProperties, ConcatProperties, SubSeqOfConcat1, SubSeqOfConcat2 DEF Texts

\* A line that has gone as far as the first message, and no further, is that message.
LEMMA LineIs ==
  ASSUME NEW m, OneLine(m), NEW t \in Texts, NEW l \in Texts, NEW r \in Texts,
         l \o r = Encode(m) \o t, Unended(l), Ends(l) \/ r = <<>>
  PROVE  l = Encode(m) /\ r = t
<1>1. PICK e \in Texts : e = Encode(m)
  <2>1. Body(m) \in Texts
    BY DEF OneLine, Texts
  <2> QED
    BY <2>1, EncodeIs DEF OneLine
<1>2. PICK c \in Texts : /\ c = e \o t /\ c = l \o r
                         /\ Len(c) = Len(e) + Len(t) /\ Len(c) = Len(l) + Len(r)
                         /\ SubSeq(c, 1, Len(e)) = e /\ SubSeq(c, 1, Len(l)) = l
                         /\ SubSeq(c, Len(e) + 1, Len(c)) = t /\ SubSeq(c, Len(l) + 1, Len(c)) = r
  <2>1. PICK c \in Texts : c = e \o t
    BY BeginsWith
  <2>2. c = l \o r
    BY <1>1, <2>1
  <2>3. /\ Len(c) = Len(e) + Len(t) /\ SubSeq(c, 1, Len(e)) = e
        /\ SubSeq(c, Len(e) + 1, Len(c)) = t
    BY <2>1, BeginsWith
  <2>4. /\ Len(c) = Len(l) + Len(r) /\ SubSeq(c, 1, Len(l)) = l
        /\ SubSeq(c, Len(l) + 1, Len(c)) = r
    BY <2>2, BeginsWith
  <2> QED
    BY <2>1, <2>2, <2>3, <2>4
<1>3. Ends(e) /\ \A n \in 0..Len(e) - 1 : ~Ends(SubSeq(c, 1, n))
  BY <1>1, <1>2, EncodedLine DEF OneLine
<1>4. PICK n \in Nat : n = Len(e)
  BY DEF Texts
<1>5. PICK k \in Nat : k = Len(l)
  BY DEF Texts
<1>6. ~(k < n)
  <2> SUFFICES ASSUME k < n
               PROVE  FALSE
    OBVIOUS
  <2>1. ~Ends(l)
    <3>1. k \in 0..Len(e) - 1
      BY <1>4
    <3> QED
      BY <1>2, <1>3, <1>5, <3>1
  <2>2. Len(r) = 0
    BY <2>1
  <2>3. Len(t) \in Nat
    BY DEF Texts
  <2> QED
    BY <1>2, <1>4, <1>5, <2>2, <2>3
<1>7. ~(n < k)
  <2> SUFFICES ASSUME n < k
               PROVE  FALSE
    OBVIOUS
  <2>1. ~Ends(SubSeq(l, 1, n))
    <3>1. n \in 0..(Len(l) - 1)
      BY <1>5
    <3> QED
      BY <3>1 DEF Unended
  <2>2. SubSeq(l, 1, n) = e
    <3>1. n \in 0..Len(l) /\ n \in 0..Len(c)
      <4>1. Len(r) \in Nat
        BY DEF Texts
      <4> QED
        BY <1>2, <1>5, <4>1
    <3>2. PICK a \in Texts : a = SubSeq(l, 1, n) /\ Len(a) = n /\ \A i \in 1..n : a[i] = l[i]
      BY <3>1, BeginType
    <3>3. \A i \in 1..n : e[i] = c[i]
      BY <1>2, <1>4, ConcatProperties DEF Texts
    <3>4. \A i \in 1..k : l[i] = c[i]
      BY <1>2, <1>5, ConcatProperties DEF Texts
    <3>5. \A i \in 1..n : a[i] = e[i]
      BY <3>2, <3>3, <3>4
    <3> QED
      BY <1>4, <3>2, <3>5, SeqEqual DEF Texts
  <2> QED
    BY <1>3, <2>1, <2>2
<1>8. k = n
  BY <1>6, <1>7
<1> QED
  BY <1>1, <1>2, <1>4, <1>5, <1>8

\* Of a message that is not there yet as a whole, no line is made.
LEMMA NoLineYet ==
  ASSUME NEW m, OneLine(m), NEW l \in Texts, NEW r \in Texts, NEW q \in Texts, q # <<>>,
         Encode(m) = (l \o r) \o q
  PROVE  ~Ends(l)
<1>1. PICK e \in Texts : e = Encode(m)
  <2>1. Body(m) \in Texts
    BY DEF OneLine, Texts
  <2> QED
    BY <2>1, EncodeIs DEF OneLine
<1>2. <<>> \in Texts /\ e \o <<>> = e
  BY ConcatEmptySeq DEF Texts
<1>3. \A n \in 0..Len(e) - 1 : ~Ends(SubSeq(e, 1, n))
  BY <1>1, <1>2, EncodedLine DEF OneLine
<1>4. e = l \o (r \o q) /\ r \o q \in Texts
  BY <1>1, ConcatAssociative, ConcatProperties DEF Texts
<1>5. Len(e) = Len(l) + Len(r \o q) /\ SubSeq(e, 1, Len(l)) = l /\ Len(l) \in Nat
  BY <1>4, BeginsWith
<1>6. Len(r \o q) = Len(r) + Len(q) /\ Len(r) \in Nat /\ Len(q) \in Nat
  BY BeginsWith
<1>7. Len(q) # 0
  BY EmptySeq DEF Texts
<1>8. Len(l) \in 0..Len(e) - 1
  BY <1>5, <1>6, <1>7
<1> QED
  BY <1>3, <1>5, <1>8

LEMMA Cancel ==
  ASSUME NEW a \in Texts, NEW b \in Texts, NEW c \in Texts, a \o b = a \o c
  PROVE  b = c
<1>1. PICK d : d = a \o b
  OBVIOUS
<1>2. SubSeq(d, Len(a) + 1, Len(d)) = b
  BY <1>1, BeginsWith
<1>3. d = a \o c
  BY <1>1
<1>4. SubSeq(d, Len(a) + 1, Len(d)) = c
  BY <1>3, BeginsWith
<1> QED
  BY <1>2, <1>4

\* Two texts, one after the other: without a word on what is in them, for the
\* provers.
Joins(a, b) == a \o b

LEMMA JoinsAre ==
  /\ \A a, b \in Texts : Joins(a, b) \in Texts
  /\ \A a, b, c \in Texts : Joins(Joins(a, b), c) = Joins(a, Joins(b, c))
  /\ \A a, b, c \in Texts : Joins(a, b) = Joins(a, c) => b = c
  /\ \A a \in Texts : Joins(a, <<>>) = a /\ Joins(<<>>, a) = a
  /\ <<>> \in Texts
<1>1. \A a, b \in Texts : Joins(a, b) \in Texts
  BY ConcatProperties DEF Joins, Texts
<1>2. \A a, b, c \in Texts : Joins(Joins(a, b), c) = Joins(a, Joins(b, c))
  BY ConcatAssociative DEF Joins, Texts
<1>3. \A a, b, c \in Texts : Joins(a, b) = Joins(a, c) => b = c
  BY Cancel DEF Joins
<1>4. /\ \A a \in Texts : Joins(a, <<>>) = a /\ Joins(<<>>, a) = a
      /\ <<>> \in Texts
  BY ConcatEmptySeq DEF Joins, Texts
<1> QED
  BY <1>1, <1>2, <1>3, <1>4

\* Behind what was taken comes what was next, whatever is behind that.
LEMMA NextOf ==
  ASSUME NEW c \in Texts, NEW e \in Texts, NEW v \in Texts, NEW t \in Texts, NEW x \in Texts,
         Joins(c, x) = Joins(Joins(Joins(c, e), v), t)
  PROVE  \E u \in Texts : x = Joins(e, u)
<1>1. PICK w \in Texts : w = Joins(v, t)
  BY JoinsAre
<1>2. PICK d \in Texts : d = Joins(c, e)
  BY JoinsAre
<1>3. Joins(Joins(d, v), t) = Joins(d, w)
  BY <1>1, JoinsAre
<1>4. PICK y \in Texts : y = Joins(e, w)
  BY JoinsAre
<1>5. Joins(d, w) = Joins(c, y)
  BY <1>2, <1>4, JoinsAre
<1>6. Joins(c, x) = Joins(c, y)
  BY <1>2, <1>3, <1>5
<1>7. x = y
  BY <1>6, JoinsAre
<1> QED
  BY <1>4, <1>7
=============================================================================
