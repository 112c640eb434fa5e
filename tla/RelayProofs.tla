------------------------------ MODULE RelayProofs ------------------------------
(***************************************************************************)
(* Proofs about Relay, for any names, any texts and any limit.             *)
(***************************************************************************)
EXTENDS Relay, LineProofs

-----------------------------------------------------------------------------
(* The type of the state.                                                    *)

Plain == Seq(Chars \ {Newline})

LEMMA PlainTexts == Plain \subseteq Texts /\ Sayings \subseteq Plain
<1>1. Plain \subseteq Texts
  BY DEF Plain, Texts
<1>2. ASSUME NEW t \in Sayings
      PROVE  t \in Plain
  <2>1. t \in Seq(Chars \ {Newline, "quit", "join", "leave"})
    BY SayingsAssumption
  <2> QED
    BY <2>1 DEF Plain
<1> QED
  BY <1>1, <1>2

\* Without its newline, and what is behind that, a text is plain; one that is plain
\* stays what it is.
LEMMA RemoveNewlineIs ==
  ASSUME NEW t \in Texts
  PROVE  /\ RemoveNewline(t) \in Plain
         /\ t \in Seq(Chars \ {Colon}) => Colons(RemoveNewline(t)) = {}
         /\ t \in Plain => RemoveNewline(t) = t
<1> DEFINE I == {i \in DOMAIN t : t[i] = Newline}
<1>1. PICK n \in Nat : n = Len(t) /\ DOMAIN t = 1..n /\ \A i \in 1..n : t[i] \in Chars
  BY DEF Texts
<1>2. CASE I = {}
  <2>1. RemoveNewline(t) = t /\ \A i \in 1..n : t[i] \in Chars \ {Newline}
    BY <1>1, <1>2 DEF RemoveNewline
  <2>2. t \in Plain
    BY <1>1, <2>1 DEF Plain, Texts
  <2>3. t \in Seq(Chars \ {Colon}) => Colons(t) = {}
    BY DEF Colons
  <2> QED
    BY <2>1, <2>2, <2>3
<1>3. CASE I # {}
  <2>1. I \subseteq Nat /\ I \subseteq 1..n
    BY <1>1
  <2>2. PICK m \in 1..n : m = Min(I) /\ m \in I /\ \A y \in I : m <= y
    BY <1>3, <2>1, MinIs
  <2>3. m - 1 \in 0..Len(t)
    BY <1>1
  <2>4. PICK s \in Texts : s = SubSeq(t, 1, m - 1) /\ Len(s) = m - 1 /\ \A i \in 1..m - 1 : s[i] = t[i]
    BY <2>3, BeginType
  <2>5. RemoveNewline(t) = s
    BY <1>3, <2>2, <2>4 DEF RemoveNewline
  <2>6. ASSUME NEW i \in 1..m - 1
        PROVE  s[i] \in Chars \ {Newline}
    <3>1. i \in 1..n /\ ~(m <= i)
      OBVIOUS
    <3>2. i \notin I
      BY <2>2, <3>1
    <3>3. t[i] # Newline
      BY <1>1, <3>1, <3>2
    <3> QED
      BY <1>1, <2>4, <3>1, <3>3
  <2>7. s \in Plain
    <3>1. PICK k \in Nat : k = m - 1
      OBVIOUS
    <3>2. PICK D : D = Chars \ {Newline}
      OBVIOUS
    <3>3. Len(s) = k /\ \A i \in 1..k : s[i] \in D
      BY <2>4, <2>6, <3>1, <3>2
    <3>4. s \in Seq(D)
      BY <3>3 DEF Texts
    <3> QED
      BY <3>2, <3>4 DEF Plain
  <2>8. ASSUME t \in Seq(Chars \ {Colon})
        PROVE  Colons(s) = {}
    <3>1. \A i \in 1..n : t[i] # Colon
      BY <1>1, <2>8
    <3>2. \A i \in 1..m - 1 : s[i] # Colon
      BY <2>4, <3>1
    <3>3. Colons(s) \subseteq 1..m - 1
      BY <2>4, ColonsType
    <3> QED
      BY <3>2, <3>3 DEF Colons
  <2>9. t \notin Plain
    BY <1>1, <2>2 DEF Plain
  <2> QED
    BY <2>5, <2>7, <2>8, <2>9
<1> QED
  BY <1>2, <1>3

LEMMA NamesPlain ==
  ASSUME names \in Names
  PROVE  /\ names.room \in Texts /\ names.user \in Texts
         /\ RemoveNewline(names.room) \in Plain /\ Colons(RemoveNewline(names.room)) = {}
         /\ RemoveNewline(names.user) \in Plain /\ Colons(RemoveNewline(names.user)) = {}
<1>1. names.room \in Seq(Chars \ {Colon}) /\ names.user \in Seq(Chars \ {Colon})
  BY NamesAssumption
<1>2. names.room \in Texts /\ names.user \in Texts
  BY <1>1 DEF Texts
<1> QED
  BY <1>1, <1>2, RemoveNewlineIs

LEMMA DeliveryDataPlain ==
  ASSUME names \in Names, NEW t \in Texts
  PROVE  DeliveryData(t) \in Plain
<1>1. PICK a \in Plain : a = RemoveNewline(names.room)
  BY NamesPlain
<1>2. PICK b \in Plain : b = RemoveNewline(names.user)
  BY NamesPlain
<1>3. PICK c \in Plain : c = RemoveNewline(t)
  BY RemoveNewlineIs
<1>4. PICK o \in Plain : o = <<Colon>>
  <2>1. Colon \in Chars \ {Newline}
    BY Separators
  <2>2. <<Colon>> \in Seq(Chars \ {Newline})
    BY <2>1
  <2> QED
    BY <2>2 DEF Plain
<1>5. \A x, y \in Plain : x \o y \in Plain
  BY ConcatProperties DEF Plain
<1>6. (((a \o o) \o b) \o o) \o c \in Plain
  BY <1>5, Zenon
<1> QED
  BY <1>1, <1>2, <1>3, <1>4, <1>6 DEF DeliveryData

LEMMA MessageEncode ==
  ASSUME NEW d \in Texts, NEW tag \in {"sendall", "delivery"}
  PROVE  /\ Message(tag, d).tag \in Words /\ Message(tag, d).tag = tag
         /\ Body(Message(tag, d)) = d
         /\ Encode(Message(tag, d)) \in Texts
         /\ Len(Encode(Message(tag, d))) = Len(d) + 3
         /\ MaySend(Message(tag, d)) <=> Len(d) <= MaxLen
<1>1. /\ Message(tag, d).tag = tag /\ Message(tag, d).data = d /\ tag \in Words
      /\ tag \notin {"quit", "leave"}
  BY TagAssumption, WordsAssumption DEF Message
<1>2. PICK m : m = Message(tag, d)
  OBVIOUS
<1>3. m.tag = tag /\ Body(m) = d
  BY <1>1, <1>2 DEF Body
<1>4. Encode(m) \in Texts /\ Len(Encode(m)) = Len(Body(m)) + 3
  BY <1>1, <1>3, EncodeIs
<1> QED
  BY <1>1, <1>2, <1>3, <1>4 DEF MaySend

LEMMA TwoParts ==
  ASSUME NEW s \in Texts, NEW n \in 1..Len(s)
  PROVE  /\ SubSeq(s, n + 1, Len(s)) \in Texts
         /\ SubSeq(s, 1, n) \o SubSeq(s, n + 1, Len(s)) = s
BY DEF Texts

\* A line and what is behind it.
LEMMA NextLineIs ==
  ASSUME NEW c \in Texts, NEW s \in NextLine(c)
  PROVE  /\ s \in Texts /\ After(c, s) \in Texts
         /\ IsLine(s) /\ c = Joins(s, After(c, s)) /\ c # <<>>
<1>1. PICK n \in DOMAIN c : s = SubSeq(c, 1, n)
  BY DEF NextLine
<1>2. n \in 1..Len(c) /\ Len(c) \in Nat
  BY <1>1 DEF Texts
<1>3. s \in Texts /\ Len(s) = n
  BY <1>1, <1>2, BeginType
<1>4. After(c, s) = SubSeq(c, n + 1, Len(c))
  BY <1>3 DEF After
<1>5. SubSeq(c, n + 1, Len(c)) \in Texts /\ SubSeq(c, 1, n) \o SubSeq(c, n + 1, Len(c)) = c
  BY <1>2, TwoParts
<1>6. c # <<>>
  BY <1>2, EmptySeq
<1>7. IsLine(s)
  BY DEF NextLine
<1> QED
  BY <1>1, <1>3, <1>4, <1>5, <1>6, <1>7 DEF Joins

LEMMA InitTypeOK == Init => TypeOK
<1>1. <<>> \in Texts
  BY DEF Texts
<1> QED
  BY <1>1 DEF Init, TypeOK

LEMMA NextTypeOK == TypeOK /\ [Next]_vars => TypeOK'
<1> SUFFICES ASSUME TypeOK, [Next]_vars
             PROVE  TypeOK'
  OBVIOUS
<1> USE DEF ends, server
<1>a. /\ names \in Names /\ sent \in Seq(Sayings) /\ toServer \in Texts /\ toReceiver \in Texts
      /\ responses \in Seq({"ok", "err"}) /\ mqueue \in Seq(Plain)
      /\ printed \in Seq([name : Texts, text : Texts])
  BY DEF TypeOK, Plain
<1>1. ASSUME NEW t \in Sayings, Say(t)
      PROVE  TypeOK'
  <2>1. t \in Texts
    BY PlainTexts
  <2>2. PICK e \in Texts : e = Encode(Message("sendall", t))
    BY <2>1, MessageEncode
  <2>3. toServer \o e \in Texts
    BY <1>a, BeginsWith
  <2>4. Append(sent, t) \in Seq(Sayings)
    BY <1>a
  <2> QED
    BY <1>1, <2>2, <2>3, <2>4 DEF TypeOK, Say
<1>2. ASSUME NEW t \in Sayings, SayRefused(t)
      PROVE  TypeOK'
  BY <1>2 DEF TypeOK, SayRefused
<1>3. CASE TakeResponse
  <2>1. Tail(responses) \in Seq({"ok", "err"})
    BY <1>3, <1>a DEF TakeResponse
  <2> QED
    BY <1>3, <2>1 DEF TypeOK, TakeResponse
<1>4. CASE ResponseFails
  BY <1>4 DEF TypeOK, ResponseFails
<1>5. ASSUME NEW s \in NextLine(toServer), ServeLine(s)
      PROVE  TypeOK'
  <2>1. s \in Texts /\ After(toServer, s) \in Texts
    BY <1>a, NextLineIs
  <2>2. DeliveryData(Data(s)) \in Plain
    BY <1>a, <2>1, DataType, DeliveryDataPlain
  <2>3. Append(mqueue, DeliveryData(Data(s))) \in Seq(Plain)
    BY <1>a, <2>2
  <2>4. mqueue' \in Seq(Seq(Chars \ {Newline}))
    <3>1. mqueue' \in Seq(Plain)
      BY <1>a, <1>5, <2>3 DEF ServeLine
    <3> QED
      BY <3>1 DEF Plain
  <2>5. responses' \in Seq({"ok", "err"})
    <3>1. PICK tag \in {"ok", "err"} : Responds(tag)
      BY <1>5 DEF ServeLine
    <3>2. responses' = Append(responses, tag)
      BY <3>1 DEF Responds
    <3> QED
      BY <1>a, <3>2
  <2> QED
    BY <1>5, <2>1, <2>4, <2>5 DEF TypeOK, ServeLine
<1>6. CASE Forward
  <2>1. Head(mqueue) \in Plain /\ Tail(mqueue) \in Seq(Plain)
    BY <1>a, <1>6 DEF Forward
  <2>2. PICK e \in Texts : e = Encode(Message("delivery", Head(mqueue)))
    BY <2>1, PlainTexts, MessageEncode
  <2>3. toReceiver \o e \in Texts
    BY <1>a, BeginsWith
  <2>4. toReceiver' \in Texts
    BY <1>6, <1>a, <2>2, <2>3 DEF Forward
  <2>5. mqueue' \in Seq(Seq(Chars \ {Newline}))
    BY <1>6, <2>1 DEF Forward, Plain
  <2> QED
    BY <1>6, <2>4, <2>5 DEF TypeOK, Forward
<1>7. ASSUME NEW s \in NextLine(toReceiver), ReceiveLine(s)
      PROVE  TypeOK'
  <2>1. s \in Texts /\ After(toReceiver, s) \in Texts
    BY <1>a, NextLineIs
  <2>2. PICK M : M = [name : Texts, text : Texts]
    OBVIOUS
  <2>3. PICK r \in M : r = Printed(s)
    BY <2>1, <2>2, PieceType DEF Printed
  <2>4. Append(printed, r) \in Seq(M)
    BY <1>a, <2>2
  <2>5. printed' \in Seq(M)
    BY <1>7, <1>a, <2>2, <2>3, <2>4 DEF ReceiveLine, Receiving
  <2> QED
    BY <1>7, <2>1, <2>2, <2>5 DEF TypeOK, ReceiveLine, Receiving
<1>8. CASE UNCHANGED vars
  BY <1>8 DEF TypeOK, vars
<1> QED
  BY <1>1, <1>2, <1>3, <1>4, <1>5, <1>6, <1>7, <1>8 DEF Next, ServeLines, ReceiveLines

\* Whatever the user types and however long the names are, what is in the queue
\* has no newline, and only ok and err come back to the sender.
THEOREM TypeCorrect == Spec => []TypeOK
BY InitTypeOK, NextTypeOK, PTL DEF Spec

-----------------------------------------------------------------------------
(* What becomes of a text.                                                   *)

LEMMA BeforeColonIs ==
  ASSUME NEW t \in Plain
  PROVE  /\ BeforeColon(t) \in Plain /\ Colons(BeforeColon(t)) = {}
         /\ Len(BeforeColon(t)) \in Nat /\ Len(BeforeColon(t)) <= Len(t)
         /\ Colons(t) = {} => BeforeColon(t) = t
         /\ Colons(t) # {} => \E b \in Texts : Cut(t, BeforeColon(t), b)
<1>1. t \in Texts /\ Len(t) \in Nat
  BY PlainTexts DEF Plain
<1>2. CASE Colons(t) = {}
  BY <1>1, <1>2 DEF BeforeColon
<1>3. CASE Colons(t) # {}
  <2>1. PICK a \in Texts, b \in Texts : Cut(t, a, b)
    BY <1>1, <1>3, CutExists
  <2>2. PICK n \in Nat : n = Len(a)
    BY DEF Texts
  <2>3. /\ Colons(a) = {} /\ Len(t) = n + 1 + Len(b) /\ Len(b) \in Nat
        /\ \A i \in 1..n : a[i] = t[i]
    BY <2>1, <2>2 DEF Cut, Texts
  <2>4. n + 1 \in Colons(t) /\ \A i \in 1..n : i \notin Colons(t)
    BY <2>1, <2>2, CutColons
  <2>5. Min(Colons(t)) = n + 1
    <3>1. Colons(t) \subseteq Nat
      BY <1>1, ColonsType
    <3>2. PICK c \in Nat : c = Min(Colons(t)) /\ c \in Colons(t) /\ c <= n + 1
      BY <1>3, <2>4, <3>1, MinIs
    <3>3. c \in 1..Len(t)
      BY <1>1, <3>2, ColonsType
    <3> QED
      BY <2>4, <3>2, <3>3
  <2>6. BeforeColon(t) = SubSeq(t, 1, n)
    <3>1. n + 1 - 1 = n
      OBVIOUS
    <3> QED
      BY <1>3, <2>5, <3>1 DEF BeforeColon
  <2>7. SubSeq(t, 1, n) = a
    <3>1. n \in 0..Len(t)
      BY <2>3
    <3>2. PICK s \in Texts : s = SubSeq(t, 1, n) /\ Len(s) = n /\ \A i \in 1..n : s[i] = t[i]
      BY <1>1, <3>1, BeginType
    <3> QED
      BY <2>2, <2>3, <3>2, SeqEqual DEF Texts
  <2>8. a \in Plain
    <3>1. PICK D : D = Chars \ {Newline}
      OBVIOUS
    <3>2. t \in Seq(D)
      BY <3>1 DEF Plain
    <3>3. \A i \in 1..n : a[i] \in D
      <4>1. \A i \in 1..n : t[i] \in D
        BY <2>3, <3>2
      <4> QED
        BY <2>3, <4>1
    <3>4. a \in Seq(D)
      BY <2>2, <3>3 DEF Texts
    <3> QED
      BY <3>1, <3>4 DEF Plain
  <2>9. BeforeColon(t) = a
    BY <2>6, <2>7
  <2>10. Len(a) \in Nat /\ Len(a) <= Len(t)
    BY <2>2, <2>3
  <2> QED
    BY <1>3, <2>1, <2>3, <2>8, <2>9, <2>10
<1> QED
  BY <1>2, <1>3

\* A text with a newline behind it.
LEMMA Ended ==
  ASSUME NEW t \in Plain
  PROVE  LET e == t \o <<Newline>>
         IN  /\ e \in Texts /\ Len(e) = Len(t) + 1 /\ e # <<>> /\ Last(e) = Newline
             /\ RemoveNewline(e) = t
             /\ Colons(t) = {} => Colons(e) = {}
             /\ \A b \in Texts : \A a \in Texts : Cut(t, a, b) => Cut(e, a, b \o <<Newline>>)
<1>1. PICK n \in Nat : n = Len(t)
  BY DEF Plain
<1>2. t \in Texts /\ t \in Seq(Chars)
  BY PlainTexts DEF Texts
<1>3. PICK e \in Texts : e = t \o <<Newline>>
  BY <1>2, Separators, BeginsWith
<1>4. Len(e) = n + 1 /\ e[n + 1] = Newline /\ DOMAIN e = 1..n + 1
      /\ \A i \in 1..n : e[i] = t[i]
  BY <1>1, <1>2, <1>3, Separators, ConcatProperties DEF Texts
<1>5. e # <<>> /\ Last(e) = Newline
  BY <1>4, EmptySeq DEF Last
<1>6. \A i \in 1..n : t[i] # Newline
  BY <1>1 DEF Plain
<1>7. RemoveNewline(e) = t
  <2> DEFINE I == {i \in DOMAIN e : e[i] = Newline}
  <2>1. I = {n + 1}
    <3>1. ASSUME NEW i \in I
          PROVE  i = n + 1
      <4>1. i \in 1..n + 1 /\ e[i] = Newline
        BY <1>4
      <4>2. i \notin 1..n
        BY <1>4, <1>6, <4>1
      <4> QED
        BY <4>1, <4>2
    <3>2. n + 1 \in I
      BY <1>4
    <3> QED
      BY <3>1, <3>2
  <2>2. Min(I) = n + 1
    <3>1. {n + 1} \subseteq Nat /\ {n + 1} # {}
      OBVIOUS
    <3>2. Min({n + 1}) \in {n + 1}
      BY <3>1, MinIs
    <3> QED
      BY <2>1, <3>2
  <2>3. RemoveNewline(e) = SubSeq(e, 1, Min(I) - 1)
    BY <2>1 DEF RemoveNewline
  <2>4. n + 1 - 1 = n
    OBVIOUS
  <2>5. RemoveNewline(e) = SubSeq(e, 1, n)
    <3> HIDE DEF I
    <3> QED
      BY <2>2, <2>3, <2>4
  <2>6. SubSeq(e, 1, Len(t)) = t
    BY <1>2, <1>3, Separators, BeginsWith
  <2> QED
    BY <1>1, <2>5, <2>6
<1>8. ASSUME Colons(t) = {}
      PROVE  Colons(e) = {}
  <2>1. \A i \in 1..n : t[i] # Colon
    BY <1>1, <1>2, <1>8 DEF Colons
  <2>2. \A i \in 1..n + 1 : e[i] # Colon
    BY <1>4, <2>1, Separators
  <2> QED
    BY <1>4, <2>2 DEF Colons
<1>9. ASSUME NEW b \in Texts, NEW a \in Texts, Cut(t, a, b)
      PROVE  Cut(e, a, b \o <<Newline>>)
  <2>1. PICK k \in Nat : k = Len(a)
    BY DEF Texts
  <2>2. PICK l \in Nat : l = Len(b)
    BY DEF Texts
  <2>3. n = k + 1 + l /\ Colons(a) = {} /\ t[k + 1] = Colon
        /\ (\A i \in 1..k : t[i] = a[i]) /\ \A i \in 1..l : t[k + 1 + i] = b[i]
    BY <1>1, <1>9, <2>1, <2>2 DEF Cut
  <2>4. PICK d \in Texts : d = b \o <<Newline>> /\ Len(d) = l + 1 /\ d[l + 1] = Newline
                         /\ \A i \in 1..l : d[i] = b[i]
    <3>1. PICK w \in Texts : w = <<Newline>> /\ Len(w) = 1 /\ w[1] = Newline
      BY Separators
    <3>2. PICK d \in Texts : d = b \o w
      BY BeginsWith
    <3>3. Len(d) = l + 1 /\ d[l + 1] = Newline /\ \A i \in 1..l : d[i] = b[i]
      BY <2>2, <3>1, <3>2, ConcatProperties DEF Texts
    <3> QED
      BY <3>1, <3>2, <3>3
  <2>5. (\A i \in 1..k : e[i] = a[i]) /\ e[k + 1] = Colon
    BY <1>4, <2>3
  <2>6. \A i \in 1..l + 1 : e[k + 1 + i] = d[i]
    <3>1. \A i \in 1..l : e[k + 1 + i] = d[i]
      BY <1>4, <2>3, <2>4
    <3>2. e[k + 1 + (l + 1)] = d[l + 1]
      BY <1>4, <2>3, <2>4
    <3> QED
      BY <3>1, <3>2
  <2>7. Cut(e, a, d)
    BY <1>4, <2>1, <2>3, <2>4, <2>5, <2>6 DEF Cut
  <2> QED
    BY <2>4, <2>7
<1> QED
  BY <1>1, <1>3, <1>4, <1>5, <1>7, <1>8, <1>9

\* What the server reads of a sendall is what is before its first colon.
LEMMA SendallData ==
  ASSUME NEW t \in Plain
  PROVE  LET e == Encode(Message("sendall", t))
         IN  /\ ~Invalid(e) /\ Data(e) \in Texts
             /\ RemoveNewline(Data(e)) = BeforeColon(t)
<1>1. PICK m : m = Message("sendall", t)
  OBVIOUS
<1>2. m.tag = "sendall" /\ m.tag \in Words /\ Body(m) = t /\ Body(m) \in Texts
  BY <1>1, PlainTexts, MessageEncode
<1>3. PICK e \in Texts : e = Encode(m)
  BY <1>1, PlainTexts, MessageEncode
<1>4. PICK r \in Texts : r = Rest(m) /\ r = t \o <<Newline>>
  BY <1>2, RestIs DEF Rest
<1>5. ~Invalid(e) /\ Piece(e, 0) = <<"sendall">> /\ Piece(e, 1) = Piece(r, 0)
  <2>1. /\ ~Invalid(e) /\ Piece(e, 0) = <<m.tag>>
        /\ \A k \in Nat : Piece(e, k + 1) = Piece(r, k)
    BY <1>2, <1>3, <1>4, EncodedPieces
  <2>2. Piece(e, 0 + 1) = Piece(r, 0)
    BY <2>1
  <2> QED
    BY <1>2, <2>1, <2>2
<1>6. Data(e) = Piece(r, 0)
  BY <1>5 DEF Data, IsDelivery
<1>7. CASE Colons(t) = {}
  <2>1. Colons(r) = {} /\ RemoveNewline(r) = t
    BY <1>4, <1>7, Ended
  <2>2. Piece(r, 0) = r
    BY <2>1, OnePiece
  <2> QED
    BY <1>1, <1>3, <1>5, <1>6, <1>7, <2>1, <2>2, BeforeColonIs
<1>8. CASE Colons(t) # {}
  <2>1. PICK a \in Plain : a = BeforeColon(t)
    BY BeforeColonIs
  <2>2. a \in Texts /\ RemoveNewline(a) = a
    BY PlainTexts, RemoveNewlineIs
  <2>3. PICK b \in Texts : Cut(t, a, b)
    BY <1>8, <2>1, BeforeColonIs
  <2>4. Cut(r, a, b \o <<Newline>>)
    BY <1>4, <2>2, <2>3, Ended
  <2>5. Piece(r, 0) = a
    BY <2>4, CutPiece
  <2> QED
    BY <1>1, <1>3, <1>5, <1>6, <2>1, <2>2, <2>5
<1> QED
  BY <1>7, <1>8

\* The data of a delivery, of three texts without a colon.
ThreeParts(a, b, c) == a \o <<Colon>> \o b \o <<Colon>> \o c

LEMMA ThreePartsAre ==
  ASSUME NEW a \in Plain, NEW b \in Plain, NEW c \in Plain
  PROVE  /\ ThreeParts(a, b, c) \in Plain
         /\ Len(ThreeParts(a, b, c)) = Len(a) + Len(b) + Len(c) + 2
         /\ Len(a) \in Nat /\ Len(b) \in Nat /\ Len(c) \in Nat
<1>1. PICK o \in Plain : o = <<Colon>> /\ Len(o) = 1
  <2>1. Colon \in Chars \ {Newline}
    BY Separators
  <2>2. <<Colon>> \in Seq(Chars \ {Newline}) /\ Len(<<Colon>>) = 1
    BY <2>1
  <2> QED
    BY <2>2 DEF Plain
<1>2. \A x, y \in Plain : x \o y \in Plain /\ Len(x \o y) = Len(x) + Len(y) /\ Len(x) \in Nat
  BY ConcatProperties DEF Plain
<1>3. PICK p \in Plain : p = a \o o /\ Len(p) = Len(a) + 1
  BY <1>1, <1>2
<1>4. PICK q \in Plain : q = p \o b /\ Len(q) = Len(p) + Len(b)
  BY <1>2
<1>5. PICK r \in Plain : r = q \o o /\ Len(r) = Len(q) + 1
  BY <1>1, <1>2
<1>6. PICK d \in Plain : d = r \o c /\ Len(d) = Len(r) + Len(c)
  BY <1>2
<1>7. d = ThreeParts(a, b, c)
  BY <1>1, <1>3, <1>4, <1>5, <1>6 DEF ThreeParts
<1>8. Len(a) \in Nat /\ Len(b) \in Nat /\ Len(c) \in Nat
  BY DEF Plain
<1> QED
  BY <1>3, <1>4, <1>5, <1>6, <1>7, <1>8

\* What the receiver finds in a delivery.
LEMMA DeliveryPieces ==
  ASSUME NEW a \in Plain, NEW b \in Plain, NEW c \in Plain,
         Colons(a) = {}, Colons(b) = {}, Colons(c) = {}
  PROVE  LET e == Encode(Message("delivery", ThreeParts(a, b, c)))
         IN  /\ ~Invalid(e) /\ ~Faulty(e)
             /\ Printed(e) = [name |-> b, text |-> c \o <<Newline>>]
<1>1. PICK d \in Texts : d = ThreeParts(a, b, c)
  BY ThreePartsAre, PlainTexts
<1>2. PICK m : m = Message("delivery", d)
  OBVIOUS
<1>3. m.tag = "delivery" /\ m.tag \in Words /\ Body(m) = d /\ Body(m) \in Texts
  BY <1>2, MessageEncode
<1>4. PICK e \in Texts : e = Encode(m)
  BY <1>2, MessageEncode
<1>5. PICK r \in Texts : r = Rest(m) /\ r = d \o <<Newline>>
  BY <1>3, RestIs DEF Rest
<1>6. /\ ~Invalid(e)
      /\ \A k \in Nat : Piece(e, k + 1) = Piece(r, k)
      /\ Pieces(e) = Pieces(r) + 1 /\ Pieces(r) \in Nat
  BY <1>3, <1>4, <1>5, EncodedPieces
<1>7. PICK z \in Texts : z = c \o <<Newline>> /\ z # <<>> /\ Colons(z) = {}
  BY Ended
<1>8. PICK y \in Texts : y = Joins(Joins(b, <<Colon>>), z) /\ Cut(y, b, z)
  <2>1. b \in Texts /\ <<Colon>> \in Texts
    BY PlainTexts, Separators
  <2>2. Joins(Joins(b, <<Colon>>), z) \in Texts
    BY <2>1, JoinsAre
  <2>3. Cut(b \o <<Colon>> \o z, b, z)
    BY <2>1, CutOf
  <2> QED
    BY <2>2, <2>3 DEF Joins
<1>9. r = Joins(Joins(a, <<Colon>>), y) /\ Cut(r, a, y)
  <2>1. PICK o \in Texts : o = <<Colon>>
    BY Separators
  <2>2. PICK w \in Texts : w = <<Newline>>
    BY Separators
  <2>3. a \in Texts /\ b \in Texts /\ c \in Texts
    BY PlainTexts
  <2>4. r = Joins(Joins(Joins(Joins(Joins(a, o), b), o), c), w)
    BY <1>1, <1>5, <2>1, <2>2 DEF Joins, ThreeParts
  <2>5. z = Joins(c, w)
    BY <1>7, <2>2 DEF Joins
  <2>6. PICK p \in Texts : p = Joins(a, o)
    BY <2>3, JoinsAre
  <2>7. PICK q \in Texts : q = Joins(b, o)
    BY <2>3, JoinsAre
  <2>8. Joins(Joins(p, b), o) = Joins(p, q)
    BY <2>3, <2>7, JoinsAre
  <2>9. Joins(Joins(Joins(p, q), c), w) = Joins(Joins(p, q), z)
    <3>1. Joins(p, q) \in Texts
      BY JoinsAre
    <3> QED
      BY <2>3, <2>5, <3>1, JoinsAre
  <2>10. Joins(Joins(p, q), z) = Joins(p, Joins(q, z))
    BY JoinsAre
  <2>11. r = Joins(p, y)
    BY <1>8, <2>1, <2>4, <2>6, <2>7, <2>8, <2>9, <2>10
  <2>12. Cut(a \o <<Colon>> \o y, a, y)
    BY <2>3, CutOf
  <2>13. r = a \o <<Colon>> \o y
    BY <2>1, <2>6, <2>11 DEF Joins
  <2> QED
    BY <2>1, <2>6, <2>11, <2>12, <2>13
<1>10. Pieces(z) = 1 /\ Piece(z, 0) = z
  BY <1>7, OnePiece
<1>11. Pieces(y) = 2 /\ Piece(y, 0) = b /\ Piece(y, 1) = z
  <2>1. Piece(y, 0 + 1) = Piece(z, 0)
    BY <1>8, CutPiece
  <2> QED
    BY <1>8, <1>10, <2>1, CutPieces, CutPiece
<1>12. Pieces(r) = 3 /\ Piece(r, 1) = b /\ Piece(r, 2) = z
  <2>1. Piece(r, 0 + 1) = Piece(y, 0) /\ Piece(r, 1 + 1) = Piece(y, 1)
    BY <1>9, CutPiece
  <2> QED
    BY <1>9, <1>11, <2>1, CutPieces
<1>13. Pieces(e) = 4 /\ Piece(e, 2) = b /\ Piece(e, 3) = z
  <2>1. Piece(e, 1 + 1) = Piece(r, 1) /\ Piece(e, 2 + 1) = Piece(r, 2)
    BY <1>6
  <2> QED
    BY <1>6, <1>12, <2>1
<1>14. ~Faulty(e)
  BY <1>13 DEF Faulty
<1>15. Printed(e) = [name |-> b, text |-> c \o <<Newline>>]
  BY <1>7, <1>13 DEF Printed
<1>16. e = Encode(Message("delivery", ThreeParts(a, b, c)))
  BY <1>1, <1>2, <1>4
<1> QED
  BY <1>6, <1>14, <1>15, <1>16

\* What the server puts into the queue for a text.
Post(t) == DeliveryData(Data(Encode(Message("sendall", t))))

LEMMA PostIs ==
  ASSUME names \in Names, NEW t \in Plain
  PROVE  /\ Post(t) = ThreeParts(RemoveNewline(names.room), RemoveNewline(names.user), BeforeColon(t))
         /\ Post(t) \in Plain
         /\ DeliveryData(t) = ThreeParts(RemoveNewline(names.room), RemoveNewline(names.user), t)
<1>1. RemoveNewline(Data(Encode(Message("sendall", t)))) = BeforeColon(t)
  BY SendallData
<1>2. RemoveNewline(t) = t
  BY PlainTexts, RemoveNewlineIs
<1>3. /\ RemoveNewline(names.room) \in Plain /\ RemoveNewline(names.user) \in Plain
      /\ BeforeColon(t) \in Plain
  BY NamesPlain, BeforeColonIs
<1> QED
  BY <1>1, <1>2, <1>3, ThreePartsAre DEF Post, DeliveryData, ThreeParts

\* A text that fits goes all the way: both its lines are whole.
LEMMA FitsAll ==
  ASSUME names \in Names, NEW t \in Plain, Fits(t)
  PROVE  /\ OneLine(Message("sendall", t))
         /\ OneLine(Message("delivery", Post(t)))
         /\ MaySend(Message("delivery", Post(t)))
<1>1. PICK a \in Plain : a = RemoveNewline(names.room)
  BY NamesPlain
<1>2. PICK b \in Plain : b = RemoveNewline(names.user)
  BY NamesPlain
<1>3. PICK c \in Plain : c = BeforeColon(t) /\ Len(c) <= Len(t)
  BY BeforeColonIs
<1>4. PICK d \in Plain : d = DeliveryData(t) /\ Len(d) = Len(a) + Len(b) + Len(t) + 2
  <2>1. DeliveryData(t) = ThreeParts(a, b, t)
    BY <1>1, <1>2, PostIs
  <2>2. ThreeParts(a, b, t) \in Plain /\ Len(ThreeParts(a, b, t)) = Len(a) + Len(b) + Len(t) + 2
    BY ThreePartsAre
  <2> QED
    BY <2>1, <2>2
<1>5. PICK q \in Plain : q = Post(t) /\ Len(q) = Len(a) + Len(b) + Len(c) + 2
  <2>1. Post(t) = ThreeParts(a, b, c)
    BY <1>1, <1>2, <1>3, PostIs
  <2>2. ThreeParts(a, b, c) \in Plain /\ Len(ThreeParts(a, b, c)) = Len(a) + Len(b) + Len(c) + 2
    BY ThreePartsAre
  <2> QED
    BY <2>1, <2>2
<1>6. Len(a) \in Nat /\ Len(b) \in Nat /\ Len(c) \in Nat /\ Len(t) \in Nat
  BY DEF Plain
<1>7. Len(d) + 3 <= MaxLen - 1
  <2>1. Len(Encode(Message("delivery", d))) = Len(d) + 3
    BY PlainTexts, MessageEncode
  <2> QED
    BY <1>4, <2>1 DEF Fits
<1>8. Len(q) + 3 <= MaxLen - 1 /\ Len(t) + 3 <= MaxLen - 1 /\ Len(q) <= MaxLen
  BY <1>3, <1>4, <1>5, <1>6, <1>7, LengthAssumption
<1>9. ASSUME NEW x \in Plain, NEW tag \in {"sendall", "delivery"}, Len(x) + 3 <= MaxLen - 1
      PROVE  OneLine(Message(tag, x))
  <2>1. /\ Message(tag, x).tag \in Words /\ Body(Message(tag, x)) = x
        /\ Len(Encode(Message(tag, x))) = Len(x) + 3
    BY PlainTexts, MessageEncode
  <2> QED
    BY <1>9, <2>1 DEF OneLine, Plain
<1>10. MaySend(Message("delivery", q))
  BY <1>8, PlainTexts, MessageEncode
<1> QED
  BY <1>5, <1>8, <1>9, <1>10

LEMMA PostPrinted ==
  ASSUME names \in Names, NEW t \in Plain
  PROVE  LET e == Encode(Message("delivery", Post(t)))
         IN  ~Invalid(e) /\ ~Faulty(e) /\ Printed(e) = Expected(t)
<1>1. PICK a \in Plain : a = RemoveNewline(names.room) /\ Colons(a) = {}
  BY NamesPlain
<1>2. PICK b \in Plain : b = RemoveNewline(names.user) /\ Colons(b) = {}
  BY NamesPlain
<1>3. PICK c \in Plain : c = BeforeColon(t) /\ Colons(c) = {}
  BY BeforeColonIs
<1>4. Post(t) = ThreeParts(a, b, c)
  BY <1>1, <1>2, <1>3, PostIs
<1>5. PICK e : e = Encode(Message("delivery", ThreeParts(a, b, c)))
  OBVIOUS
<1>6. ~Invalid(e) /\ ~Faulty(e) /\ Printed(e) = [name |-> b, text |-> c \o <<Newline>>]
  <2>1. Colons(a) = {} /\ Colons(b) = {} /\ Colons(c) = {}
    BY <1>1, <1>2, <1>3
  <2> QED
    BY <1>5, <2>1, DeliveryPieces, Zenon
<1>7. Printed(e) = Expected(t)
  BY <1>2, <1>3, <1>6 DEF Expected
<1> QED
  BY <1>4, <1>5, <1>6, <1>7

-----------------------------------------------------------------------------
(* The step: one sendall, or its response, or nothing, is under way.         *)

StepInv == /\ serving /\ receiver = "listening"
           /\ \/ sender \in {"command", "failed"} /\ toServer = <<>> /\ responses = <<>>
              \/ sender = "waiting" /\ toServer = <<>> /\ Len(responses) = 1
              \/ /\ sender = "waiting" /\ sent # <<>> /\ responses = <<>>
                 /\ toServer = Encode(Message("sendall", sent[Len(sent)]))

\* How many texts the server has read.
Served == IF toServer = <<>> THEN Len(sent) ELSE Len(sent) - 1

\* The deliveries of the texts.
Deliveries == [i \in DOMAIN sent |-> Message("delivery", Post(sent[i]))]

\* Of the deliveries, some are printed, then f are on their way, and the others are
\* in the queue; what is on its way is their characters.
Pipe(f) == /\ Len(printed) + f + Len(mqueue) = Served
           /\ Joins(Stream(Deliveries, Len(printed)), toReceiver)
                 = Stream(Deliveries, Len(printed) + f)
           /\ \A i \in DOMAIN mqueue : mqueue[i] = Post(sent[Len(printed) + f + i])
           /\ \A i \in DOMAIN printed : printed[i] = Expected(sent[i])

PipeInv == \E f \in Nat : Pipe(f)

LEMMA SentType ==
  ASSUME TypeOK
  PROVE  /\ names \in Names /\ Len(sent) \in Nat /\ Len(printed) \in Nat /\ Len(mqueue) \in Nat
         /\ DOMAIN sent = 1..Len(sent) /\ DOMAIN mqueue = 1..Len(mqueue)
         /\ DOMAIN printed = 1..Len(printed)
         /\ \A i \in 1..Len(sent) : sent[i] \in Sayings /\ sent[i] \in Plain
BY PlainTexts DEF TypeOK

Posts == {Message("delivery", d) : d \in Plain}

LEMMA DeliveriesType ==
  ASSUME TypeOK
  PROVE  /\ Deliveries \in Seq(Posts) /\ Len(Deliveries) = Len(sent)
         /\ \A i \in 1..Len(sent) : Deliveries[i] = Message("delivery", Post(sent[i]))
         /\ \A m \in Posts : Encode(m) \in Texts
<1>1. PICK n \in Nat : n = Len(sent) /\ DOMAIN sent = 1..n
  BY SentType
<1>2. \A i \in 1..n : Message("delivery", Post(sent[i])) \in Posts
  BY <1>1, SentType, PostIs DEF Posts
<1>3. Deliveries = [i \in 1..n |-> Message("delivery", Post(sent[i]))]
  BY <1>1 DEF Deliveries
<1>4. Deliveries \in Seq(Posts) /\ Len(Deliveries) = n
  BY <1>2, <1>3
<1>5. \A m \in Posts : Encode(m) \in Texts
  BY PlainTexts, MessageEncode DEF Posts
<1> QED
  BY <1>1, <1>3, <1>4, <1>5

LEMMA DeliveryStream ==
  ASSUME TypeOK
  PROVE  /\ \A k \in 0..Len(sent) : Stream(Deliveries, k) \in Texts
         /\ \A k \in 0..Len(sent) - 1 : Stream(Deliveries, k + 1)
               = Joins(Stream(Deliveries, k), Encode(Message("delivery", Post(sent[k + 1]))))
         /\ \A l \in 0..Len(sent) : \A k \in 0..l :
               \E t \in Texts : Stream(Deliveries, l) = Joins(Stream(Deliveries, k), t)
<1>1. PICK p \in Seq(Posts) : p = Deliveries
  BY DeliveriesType
<1>2. PICK n \in Nat : n = Len(sent) /\ Len(p) = n
  BY <1>1, SentType, DeliveriesType
<1>3. \A m \in Posts : Encode(m) \in Texts
  BY DeliveriesType
<1>4. /\ \A k \in 0..n : Stream(p, k) \in Texts
      /\ \A k \in 0..n - 1 : Stream(p, k + 1) = Stream(p, k) \o Encode(p[k + 1])
  BY <1>2, <1>3, StreamNext
<1>5. \A k \in 0..n - 1 : Stream(p, k + 1)
                            = Joins(Stream(p, k), Encode(Message("delivery", Post(sent[k + 1]))))
  <2> TAKE k \in 0..n - 1
  <2>1. k + 1 \in 1..n
    OBVIOUS
  <2>2. p[k + 1] = Message("delivery", Post(sent[k + 1]))
    BY <1>1, <1>2, <2>1, DeliveriesType
  <2> QED
    BY <1>4, <2>2 DEF Joins
<1>6. \A l \in 0..n : \A k \in 0..l : \E t \in Texts : Stream(p, l) = Joins(Stream(p, k), t)
  <2> TAKE l \in 0..n
  <2> TAKE k \in 0..l
  <2>1. \E t \in Texts : Stream(p, l) = Stream(p, k) \o t
    BY <1>2, <1>3, StreamFrom
  <2> QED
    BY <2>1 DEF Joins
<1> QED
  BY <1>1, <1>2, <1>4, <1>5, <1>6

\* Every text that was sent fits.
LEMMA SentFits ==
  ASSUME TypeOK, AllFit, NEW i \in 1..Len(sent)
  PROVE  /\ OneLine(Message("sendall", sent[i]))
         /\ OneLine(Message("delivery", Post(sent[i])))
         /\ MaySend(Message("delivery", Post(sent[i])))
BY SentType, FitsAll DEF AllFit

LEMMA AllFitBefore == TypeOK /\ [Next]_vars /\ AllFit' => AllFit
<1> SUFFICES ASSUME TypeOK, [Next]_vars, AllFit'
             PROVE  AllFit
  OBVIOUS
<1> USE DEF ends, server
<1>1. names' = names /\ (sent' = sent \/ \E t \in Sayings : sent' = Append(sent, t))
  BY DEF Next, Say, SayRefused, TakeResponse, ResponseFails, ServeLines, ServeLine, Forward,
         ReceiveLines, ReceiveLine, Receiving, vars
<1>2. ASSUME NEW i \in DOMAIN sent
      PROVE  i \in DOMAIN sent' /\ sent'[i] = sent[i]
  <2>1. sent \in Seq(Sayings)
    BY DEF TypeOK
  <2>2. \A t \in Sayings : i \in DOMAIN Append(sent, t) /\ Append(sent, t)[i] = sent[i]
    BY <2>1
  <2> QED
    BY <1>1, <2>2
<1>3. ASSUME NEW t
      PROVE  Fits(t)' <=> Fits(t)
  BY <1>1 DEF Fits, DeliveryData
<1> QED
  BY <1>2, <1>3 DEF AllFit

\* The server reads the sendall, the whole of it and nothing else.
LEMMA ServeIs ==
  ASSUME TypeOK, AllFit, StepInv, NEW s \in NextLine(toServer), ServeLine(s)
  PROVE  /\ sender = "waiting" /\ sent # <<>> /\ toServer # <<>>
         /\ toServer' = <<>> /\ responses' = <<"ok">>
         /\ mqueue' = Append(mqueue, Post(sent[Len(sent)]))
         /\ UNCHANGED <<ends, serving, toReceiver, receiver, printed>>
<1>1. toServer \in Texts
  BY DEF TypeOK
<1>2. PICK r \in Texts : r = After(toServer, s)
  BY <1>1, NextLineIs
<1>3. s \in Texts /\ IsLine(s) /\ toServer = Joins(s, r) /\ toServer # <<>>
  BY <1>1, <1>2, NextLineIs
<1>4. /\ sender = "waiting" /\ sent # <<>> /\ responses = <<>>
      /\ toServer = Encode(Message("sendall", sent[Len(sent)]))
  BY <1>3 DEF StepInv
<1>5. Len(sent) \in 1..Len(sent)
  BY <1>4, SentType, EmptySeq DEF TypeOK
<1>6. PICK t \in Plain : t = sent[Len(sent)]
  BY <1>5, SentType
<1>7. PICK m : m = Message("sendall", t)
  OBVIOUS
<1>8. OneLine(m)
  BY <1>5, <1>6, <1>7, SentFits
<1>9. PICK e \in Texts : e = Encode(m)
  BY <1>6, <1>7, PlainTexts, MessageEncode
<1>10. s = e /\ r = <<>>
  <2>1. e = Joins(e, <<>>) /\ <<>> \in Texts
    BY JoinsAre
  <2>2. s \o r = Encode(m) \o <<>>
    BY <1>3, <1>4, <1>6, <1>7, <1>9, <2>1 DEF Joins
  <2>3. Unended(s) /\ Ends(s)
    BY <1>3 DEF IsLine
  <2> QED
    BY <1>3, <1>8, <1>9, <2>1, <2>2, <2>3, LineIs
<1>11. ~Invalid(s) /\ DeliveryData(Data(s)) = Post(t)
  BY <1>6, <1>7, <1>9, <1>10, SendallData DEF Post
<1>12. responses' = <<"ok">>
  <2>1. Responds("ok")
    BY <1>11 DEF ServeLine
  <2>2. responses' = Append(<<>>, "ok")
    BY <1>4, <2>1 DEF Responds
  <2> QED
    BY <2>2
<1> QED
  BY <1>2, <1>3, <1>4, <1>6, <1>10, <1>11, <1>12 DEF ServeLine

-----------------------------------------------------------------------------
(* From the server's queue to the receiver.                                  *)

LEMMA SameDeliveries ==
  ASSUME names' = names
  PROVE  /\ \A i : Post(sent[i])' = Post(sent'[i]) /\ Expected(sent[i])' = Expected(sent'[i])
         /\ sent' = sent => Deliveries' = Deliveries
<1>1. ASSUME NEW i
      PROVE  Post(sent[i])' = Post(sent'[i]) /\ Expected(sent[i])' = Expected(sent'[i])
  BY DEF Post, DeliveryData, Expected
<1>2. ASSUME sent' = sent
      PROVE  Deliveries' = Deliveries
  BY <1>2 DEF Deliveries, Post, DeliveryData
<1> QED
  BY <1>1, <1>2

LEMMA SayPipe ==
  ASSUME TypeOK, StepInv, NEW f \in Nat, Pipe(f), NEW t \in Sayings, Say(t)
  PROVE  Pipe(f)'
<1>1. /\ toServer = <<>> /\ names' = names /\ sent' = Append(sent, t)
      /\ UNCHANGED <<mqueue, toReceiver, printed>>
      /\ toServer' = toServer \o Encode(Message("sendall", t))
  <2>1. sender = "command"
    BY DEF Say
  <2>2. toServer = <<>>
    BY <2>1 DEF StepInv
  <2> QED
    BY <2>2 DEF Say, server
<1>2. PICK e \in Texts : e = Encode(Message("sendall", t)) /\ e # <<>>
  <2>1. t \in Texts /\ Len(t) \in Nat
    BY PlainTexts DEF Texts
  <2>2. PICK e \in Texts : e = Encode(Message("sendall", t)) /\ Len(e) = Len(t) + 3
    BY <2>1, MessageEncode
  <2> QED
    BY <2>1, <2>2, EmptySeq
<1>3. toServer' = e
  <2>1. Joins(<<>>, e) = e
    BY JoinsAre
  <2> QED
    BY <1>1, <1>2, <2>1 DEF Joins
<1>4. PICK n \in Nat : n = Len(sent) /\ DOMAIN sent = 1..n
  BY SentType
<1>5. Len(sent') = n + 1 /\ DOMAIN sent' = 1..n + 1 /\ sent'[n + 1] = t
      /\ \A i \in 1..n : sent'[i] = sent[i]
  BY <1>1, <1>4 DEF TypeOK
<1>6. Served = n /\ Served' = n
  BY <1>1, <1>2, <1>3, <1>4, <1>5 DEF Served
<1>7. PICK a \in Nat, b \in Nat : a = Len(printed) /\ b = Len(mqueue) /\ a + f + b = n
  BY <1>6, SentType DEF Pipe
<1>8. Deliveries' = Append(Deliveries, Message("delivery", Post(t)))
  <2>1. PICK d \in Seq(Posts) : d = Deliveries /\ Len(d) = n
                                /\ \A i \in 1..n : d[i] = Message("delivery", Post(sent[i]))
    BY <1>4, DeliveriesType
  <2>2. PICK v : v = Deliveries'
    OBVIOUS
  <2>3. v = [i \in 1..n + 1 |-> Message("delivery", Post(sent'[i]))]
    <3>1. Deliveries' = [i \in DOMAIN sent' |-> Message("delivery", Post(sent'[i]))]
      BY <1>1 DEF Deliveries, Post, DeliveryData
    <3> QED
      BY <1>5, <2>2, <3>1
  <2>4. PICK m \in Posts : m = Message("delivery", Post(t))
    BY PlainTexts, SentType, PostIs DEF Posts
  <2>5. v = [i \in 1..n + 1 |-> IF i = n + 1 THEN m ELSE d[i]]
    BY <1>5, <2>1, <2>3, <2>4
  <2>6. PICK w \in Seq(Posts) : w = Append(d, m)
    BY <2>1, <2>4, AppendProperties
  <2>7. Len(w) = n + 1 /\ w[n + 1] = m /\ \A i \in 1..n : w[i] = d[i]
    BY <2>1, <2>6, AppendProperties
  <2>8. v \in Seq(Posts) /\ Len(v) = n + 1 /\ v[n + 1] = m /\ \A i \in 1..n : v[i] = d[i]
    BY <2>1, <2>5
  <2>9. \A i \in 1..n + 1 : v[i] = w[i]
    BY <2>7, <2>8
  <2>10. v = w
    BY <2>7, <2>8, <2>9, SeqEqual
  <2> QED
    BY <2>1, <2>2, <2>4, <2>6, <2>10
<1>9. \A k \in 0..n : Stream(Deliveries', k) = Stream(Deliveries, k)
  <2>1. Post(t) \in Plain
    BY PlainTexts, SentType, PostIs
  <2>2. Message("delivery", Post(t)) \in Posts
    BY <2>1 DEF Posts
  <2>3. Deliveries \in Seq(Posts) /\ Len(Deliveries) = n
    BY <1>4, DeliveriesType
  <2> QED
    BY <1>8, <2>2, <2>3, StreamAppend
<1>10. \A i \in DOMAIN mqueue : mqueue[i] = Post(sent[a + f + i])'
  <2> TAKE i \in DOMAIN mqueue
  <2>1. i \in 1..b /\ a + f + i \in 1..n
    BY <1>7, SentType
  <2>2. sent'[a + f + i] = sent[a + f + i]
    BY <1>5, <2>1
  <2>3. Post(sent[a + f + i])' = Post(sent[a + f + i])
    BY <1>1, <2>2, SameDeliveries
  <2> QED
    BY <1>7, <2>3 DEF Pipe
<1>11. \A i \in DOMAIN printed : printed[i] = Expected(sent[i])'
  <2> TAKE i \in DOMAIN printed
  <2>1. i \in 1..n
    BY <1>7, SentType
  <2>2. Expected(sent[i])' = Expected(sent[i])
    BY <1>1, <1>5, <2>1, SameDeliveries
  <2> QED
    BY <2>2 DEF Pipe
<1>12. Joins(Stream(Deliveries', a), toReceiver) = Stream(Deliveries', a + f)
  <2>1. a \in 0..n /\ a + f \in 0..n
    BY <1>7
  <2>2. Joins(Stream(Deliveries, a), toReceiver) = Stream(Deliveries, a + f)
    BY <1>7 DEF Pipe
  <2> QED
    BY <1>9, <2>1, <2>2
<1> QED
  BY <1>1, <1>6, <1>7, <1>10, <1>11, <1>12 DEF Pipe

LEMMA ServePipe ==
  ASSUME TypeOK, AllFit, StepInv, NEW f \in Nat, Pipe(f),
         NEW s \in NextLine(toServer), ServeLine(s)
  PROVE  Pipe(f)'
<1>1. /\ toServer # <<>> /\ toServer' = <<>> /\ sent # <<>>
      /\ names' = names /\ sent' = sent /\ printed' = printed /\ toReceiver' = toReceiver
      /\ mqueue' = Append(mqueue, Post(sent[Len(sent)]))
  BY ServeIs DEF ends
<1>2. PICK n \in Nat : n = Len(sent) /\ Served = n - 1 /\ Served' = n
  BY <1>1, SentType DEF Served
<1>3. PICK a \in Nat, b \in Nat : a = Len(printed) /\ b = Len(mqueue) /\ a + f + b = n - 1
  BY <1>2, SentType DEF Pipe
<1>4. Len(mqueue') = b + 1 /\ DOMAIN mqueue' = 1..b + 1 /\ mqueue'[b + 1] = Post(sent[n])
      /\ \A i \in 1..b : mqueue'[i] = mqueue[i]
  <2>1. mqueue \in Seq(Plain)
    BY DEF TypeOK, Plain
  <2>2. PICK x : x = Post(sent[n])
    OBVIOUS
  <2>3. mqueue' = Append(mqueue, x)
    BY <1>1, <1>2, <2>2
  <2>4. Len(mqueue) = b
    BY <1>3
  <2> QED
    BY <2>1, <2>2, <2>3, <2>4
<1>5. \A i \in 1..b + 1 : mqueue'[i] = Post(sent[a + f + i])
  <2> TAKE i \in 1..b + 1
  <2>1. CASE i = b + 1
    <3>1. a + f + i = n
      BY <1>3, <2>1
    <3> QED
      BY <1>4, <2>1, <3>1
  <2>2. CASE i # b + 1
    <3>1. i \in 1..b
      BY <2>2
    <3>2. mqueue[i] = Post(sent[a + f + i])
      BY <1>3, <3>1, SentType DEF Pipe
    <3> QED
      BY <1>4, <3>1, <3>2
  <2> QED
    BY <2>1, <2>2
<1>6. \A i \in DOMAIN mqueue' : mqueue'[i] = Post(sent[a + f + i])'
  <2> TAKE i \in DOMAIN mqueue'
  <2>1. Post(sent[a + f + i])' = Post(sent[a + f + i])
    BY <1>1, SameDeliveries
  <2> QED
    BY <1>4, <1>5, <2>1
<1>7. \A i \in DOMAIN printed : printed[i] = Expected(sent[i])'
  <2> TAKE i \in DOMAIN printed
  <2>1. Expected(sent[i])' = Expected(sent[i])
    BY <1>1, SameDeliveries
  <2> QED
    BY <2>1 DEF Pipe
<1>8. Joins(Stream(Deliveries', a), toReceiver) = Stream(Deliveries', a + f)
  <2>1. Deliveries' = Deliveries
    BY <1>1, SameDeliveries
  <2> QED
    BY <1>3, <2>1 DEF Pipe
<1>9. a + f + (b + 1) = n
  BY <1>3
<1> QED
  BY <1>1, <1>2, <1>3, <1>4, <1>6, <1>7, <1>8, <1>9 DEF Pipe

LEMMA ServedType ==
  ASSUME TypeOK, NEW f \in Nat, Pipe(f)
  PROVE  Served \in 0..Len(sent)
<1>1. Len(sent) \in Nat /\ Len(printed) \in Nat /\ Len(mqueue) \in Nat
  BY SentType
<1>2. Served \in Nat
  BY <1>1 DEF Pipe
<1> QED
  BY <1>1, <1>2 DEF Served

LEMMA ForwardPipe ==
  ASSUME TypeOK, AllFit, NEW f \in Nat, Pipe(f), Forward
  PROVE  Pipe(f + 1)'
<1>1. /\ mqueue # <<>> /\ mqueue' = Tail(mqueue) /\ names' = names /\ sent' = sent
      /\ toServer' = toServer /\ printed' = printed
  BY DEF Forward, ends
<1>2. PICK n \in Nat : n = Len(sent) /\ DOMAIN sent = 1..n /\ Served \in 0..n
  BY SentType, ServedType
<1>3. PICK a \in Nat, b \in Nat : a = Len(printed) /\ b = Len(mqueue) /\ a + f + b = Served
  BY SentType DEF Pipe
<1>4. b >= 1 /\ DOMAIN mqueue = 1..b /\ Head(mqueue) = mqueue[1] /\ Len(mqueue') = b - 1
      /\ DOMAIN mqueue' = 1..b - 1 /\ \A i \in 1..b - 1 : mqueue'[i] = mqueue[i + 1]
  <2>1. mqueue \in Seq(Plain)
    BY DEF TypeOK, Plain
  <2> QED
    BY <1>1, <1>3, <2>1
<1>5. PICK j \in 1..n : j = a + f + 1
  BY <1>2, <1>3, <1>4
<1>6. Head(mqueue) = Post(sent[j])
  <2>1. 1 \in DOMAIN mqueue
    BY <1>4
  <2>2. mqueue[1] = Post(sent[Len(printed) + f + 1])
    BY <2>1 DEF Pipe
  <2> QED
    BY <1>3, <1>4, <1>5, <2>2
<1>7. PICK m : m = Message("delivery", Post(sent[j]))
  OBVIOUS
<1>8. MaySend(m)
  BY <1>2, <1>7, SentFits
<1>9. PICK e \in Texts : e = Encode(m)
  <2>1. Post(sent[j]) \in Texts
    BY <1>2, SentType, PlainTexts, PostIs
  <2> QED
    BY <1>7, <2>1, MessageEncode
<1>10. toReceiver' = Joins(toReceiver, e)
  BY <1>6, <1>7, <1>8, <1>9 DEF Forward, Joins
<1>11. PICK c \in Texts : c = Stream(Deliveries, a)
  <2>1. a \in 0..Len(sent)
    BY <1>2, <1>3
  <2> QED
    BY <2>1, DeliveryStream
<1>12. PICK d \in Texts : d = Stream(Deliveries, a + f)
  <2>1. a + f \in 0..Len(sent)
    BY <1>2, <1>3
  <2> QED
    BY <2>1, DeliveryStream
<1>13. Joins(c, toReceiver) = d
  BY <1>3, <1>11, <1>12 DEF Pipe
<1>14. Stream(Deliveries, a + (f + 1)) = Joins(d, e)
  <2>1. PICK k \in 0..Len(sent) - 1 : k = a + f
    BY <1>2, <1>5
  <2>2. Stream(Deliveries, k + 1) = Joins(Stream(Deliveries, k), Encode(Message("delivery", Post(sent[k + 1]))))
    BY DeliveryStream
  <2>3. k + 1 = j /\ k + 1 = a + (f + 1)
    BY <1>5, <2>1
  <2> QED
    BY <1>7, <1>9, <1>12, <2>1, <2>2, <2>3
<1>15. Joins(Stream(Deliveries', a), toReceiver') = Stream(Deliveries', a + (f + 1))
  <2>1. Deliveries' = Deliveries
    BY <1>1, SameDeliveries
  <2>2. toReceiver \in Texts
    BY DEF TypeOK
  <2>3. Joins(c, Joins(toReceiver, e)) = Joins(Joins(c, toReceiver), e)
    BY <2>2, JoinsAre
  <2> QED
    BY <1>10, <1>11, <1>13, <1>14, <2>1, <2>3
<1>16. \A i \in DOMAIN mqueue' : mqueue'[i] = Post(sent[a + (f + 1) + i])'
  <2> TAKE i \in DOMAIN mqueue'
  <2>1. i \in 1..b - 1 /\ i + 1 \in 1..b
    BY <1>4
  <2>2. mqueue[i + 1] = Post(sent[Len(printed) + f + (i + 1)])
    BY <1>4, <2>1 DEF Pipe
  <2>3. a + f + (i + 1) = a + (f + 1) + i
    BY <2>1
  <2>4. mqueue'[i] = Post(sent[a + (f + 1) + i])
    BY <1>3, <1>4, <2>1, <2>2, <2>3
  <2>5. Post(sent[a + (f + 1) + i])' = Post(sent'[a + (f + 1) + i])
    BY <1>1, SameDeliveries
  <2> QED
    BY <1>1, <2>4, <2>5
<1>17. \A i \in DOMAIN printed : printed[i] = Expected(sent[i])'
  <2> TAKE i \in DOMAIN printed
  <2>1. Expected(sent[i])' = Expected(sent'[i])
    BY <1>1, SameDeliveries
  <2> QED
    BY <1>1, <2>1 DEF Pipe
<1>18. Served' = Served
  BY <1>1 DEF Served
<1>19. a + (f + 1) + (b - 1) = Served
  BY <1>3
<1> QED
  BY <1>1, <1>3, <1>4, <1>15, <1>16, <1>17, <1>18, <1>19 DEF Pipe

\* The receiver reads the next delivery, the whole of it and nothing else.
LEMMA ReceivePipe ==
  ASSUME TypeOK, AllFit, NEW f \in Nat, Pipe(f), NEW s \in NextLine(toReceiver), ReceiveLine(s)
  PROVE  /\ f # 0 /\ Pipe(f - 1)'
         /\ UNCHANGED <<ends, toServer, server, responses, receiver>>
<1>1. /\ mqueue' = mqueue /\ names' = names /\ sent' = sent /\ toServer' = toServer
      /\ UNCHANGED <<ends, toServer, server, responses>>
  BY DEF ReceiveLine, Receiving, ends, server
<1>2. PICK n \in Nat : n = Len(sent) /\ Served \in 0..n
  BY SentType, ServedType
<1>3. PICK a \in Nat, b \in Nat : a = Len(printed) /\ b = Len(mqueue) /\ a + f + b = Served
  BY SentType DEF Pipe
<1>4. PICK x \in Texts : x = toReceiver
  BY DEF TypeOK
<1>5. PICK r \in Texts : r = After(x, s)
  BY <1>4, NextLineIs
<1>6. s \in Texts /\ IsLine(s) /\ x = Joins(s, r) /\ x # <<>>
  BY <1>4, <1>5, NextLineIs
<1>7. PICK c \in Texts : c = Stream(Deliveries, a)
  <2>1. a \in 0..Len(sent)
    BY <1>2, <1>3
  <2> QED
    BY <2>1, DeliveryStream
<1>8. PICK d \in Texts : d = Stream(Deliveries, a + f)
  <2>1. a + f \in 0..Len(sent)
    BY <1>2, <1>3
  <2> QED
    BY <2>1, DeliveryStream
<1>9. Joins(c, x) = d
  BY <1>3, <1>4, <1>7, <1>8 DEF Pipe
<1>10. f # 0
  <2> SUFFICES ASSUME f = 0
               PROVE  FALSE
    OBVIOUS
  <2>1. a + 0 = a
    OBVIOUS
  <2>2. Joins(c, x) = Joins(c, <<>>)
    BY <1>7, <1>8, <1>9, <2>1, JoinsAre
  <2>3. x = <<>>
    BY <2>2, JoinsAre
  <2> QED
    BY <1>6, <2>3
<1>11. PICK j \in 1..n : j = a + 1
  BY <1>2, <1>3, <1>10
<1>12. PICK t \in Plain : t = sent[j]
  BY <1>2, SentType
<1>13. PICK m : m = Message("delivery", Post(t))
  OBVIOUS
<1>14. OneLine(m)
  BY <1>2, <1>12, <1>13, SentFits
<1>15. PICK e \in Texts : e = Encode(m)
  <2>1. Post(t) \in Texts
    BY SentType, PlainTexts, PostIs
  <2> QED
    BY <1>13, <2>1, MessageEncode
<1>16. Stream(Deliveries, a + 1) = Joins(c, e)
  <2>1. a \in 0..Len(sent) - 1
    BY <1>2, <1>11
  <2>2. Stream(Deliveries, a + 1) = Joins(Stream(Deliveries, a), Encode(Message("delivery", Post(sent[a + 1]))))
    BY <2>1, DeliveryStream
  <2> QED
    BY <1>7, <1>11, <1>12, <1>13, <1>15, <2>2
<1>17. PICK u \in Texts : x = Joins(e, u)
  <2>1. PICK l \in 0..Len(sent) : l = a + f
    BY <1>2, <1>3
  <2>2. j \in 0..l
    BY <1>10, <1>11, <2>1
  <2>3. PICK t2 \in Texts : Stream(Deliveries, l) = Joins(Stream(Deliveries, j), t2)
    BY <2>2, DeliveryStream
  <2>4. d = Joins(Joins(c, e), t2)
    BY <1>8, <1>11, <1>16, <2>1, <2>3
  <2>5. Joins(c, e) \in Texts
    BY JoinsAre
  <2>6. Joins(Joins(c, e), <<>>) = Joins(c, e) /\ <<>> \in Texts
    BY <2>5, JoinsAre
  <2>7. Joins(c, x) = Joins(Joins(Joins(c, e), <<>>), t2)
    BY <1>9, <2>4, <2>6
  <2> QED
    BY <2>6, <2>7, NextOf
<1>18. s = e /\ r = u
  <2>1. s \o r = Encode(m) \o u
    BY <1>6, <1>15, <1>17 DEF Joins
  <2>2. Unended(s) /\ Ends(s)
    BY <1>6 DEF IsLine
  <2> QED
    BY <1>6, <1>14, <1>15, <2>1, <2>2, LineIs
<1>19. ~Invalid(s) /\ ~Faulty(s) /\ Printed(s) = Expected(t)
  <2>1. names \in Names
    BY SentType
  <2> QED
    BY <1>13, <1>15, <1>18, <2>1, PostPrinted
<1>20. /\ printed' = Append(printed, Expected(t)) /\ receiver' = receiver /\ toReceiver' = u
  BY <1>4, <1>5, <1>18, <1>19 DEF ReceiveLine, Receiving
<1>21. Len(printed') = a + 1 /\ DOMAIN printed' = 1..a + 1 /\ printed'[a + 1] = Expected(t)
       /\ \A i \in 1..a : printed'[i] = printed[i]
  <2>1. PICK M : M = [name : Texts, text : Texts]
    OBVIOUS
  <2>2. printed \in Seq(M)
    BY <2>1 DEF TypeOK
  <2>3. PICK v : v = Expected(t)
    OBVIOUS
  <2>4. printed' = Append(printed, v)
    BY <1>20, <2>3
  <2> QED
    BY <1>3, <2>2, <2>3, <2>4
<1>22. \A i \in DOMAIN printed' : printed'[i] = Expected(sent[i])'
  <2> TAKE i \in DOMAIN printed'
  <2>1. Expected(sent[i])' = Expected(sent'[i])
    BY <1>1, SameDeliveries
  <2>2. CASE i = a + 1
    BY <1>1, <1>11, <1>12, <1>21, <2>1, <2>2
  <2>3. CASE i # a + 1
    <3>1. i \in 1..a
      BY <1>21, <2>3
    <3>2. i \in DOMAIN printed
      BY <1>3, <3>1, SentType
    <3>3. printed[i] = Expected(sent[i])
      BY <3>2 DEF Pipe
    <3> QED
      BY <1>1, <1>21, <2>1, <3>1, <3>3
  <2> QED
    BY <2>2, <2>3
<1>23. Joins(Stream(Deliveries', a + 1), toReceiver') = Stream(Deliveries', a + f)
  <2>1. Deliveries' = Deliveries
    BY <1>1, SameDeliveries
  <2>2. Joins(Joins(c, e), u) = Joins(c, Joins(e, u))
    BY JoinsAre
  <2> QED
    BY <1>8, <1>9, <1>16, <1>17, <1>20, <2>1, <2>2
<1>24. \A i \in DOMAIN mqueue' : mqueue'[i] = Post(sent[a + f + i])'
  <2> TAKE i \in DOMAIN mqueue'
  <2>1. Post(sent[a + f + i])' = Post(sent'[a + f + i])
    BY <1>1, SameDeliveries
  <2>2. mqueue[i] = Post(sent[a + f + i])
    BY <1>1, <1>3 DEF Pipe
  <2> QED
    BY <1>1, <2>1, <2>2
<1>25. Served' = Served
  BY <1>1 DEF Served
<1>26. a + 1 + (f - 1) = a + f
  OBVIOUS
<1>27. Pipe(f - 1)'
  BY <1>1, <1>3, <1>21, <1>22, <1>23, <1>24, <1>25, <1>26 DEF Pipe
<1> QED
  BY <1>1, <1>10, <1>20, <1>27

LEMMA SamePipe ==
  ASSUME NEW f, Pipe(f), UNCHANGED <<names, sent, toServer, mqueue, toReceiver, printed>>
  PROVE  Pipe(f)'
<1>1. Deliveries' = Deliveries
  BY SameDeliveries
<1>2. Served' = Served
  BY DEF Served
<1>3. \A i : Post(sent[i])' = Post(sent[i]) /\ Expected(sent[i])' = Expected(sent[i])
  BY SameDeliveries
<1>4. \A i \in DOMAIN mqueue : mqueue[i] = Post(sent[Len(printed) + f + i])'
  BY <1>3 DEF Pipe
<1>5. \A i \in DOMAIN printed : printed[i] = Expected(sent[i])'
  BY <1>3 DEF Pipe
<1> QED
  BY <1>1, <1>2, <1>4, <1>5 DEF Pipe

-----------------------------------------------------------------------------
(* The invariant.                                                            *)

RelayInv == AllFit => StepInv /\ PipeInv

LEMMA InitRelay == Init => RelayInv
<1> SUFFICES ASSUME Init
             PROVE  StepInv /\ PipeInv
  BY DEF RelayInv
<1>1. TypeOK
  BY InitTypeOK
<1>2. Len(sent) = 0 /\ Len(printed) = 0 /\ Len(mqueue) = 0 /\ Served = 0
  BY DEF Init, Served
<1>3. StepInv
  BY DEF Init, StepInv
<1>4. Joins(Stream(Deliveries, 0), toReceiver) = Stream(Deliveries, 0)
  <2>1. Stream(Deliveries, 0) \in Texts
    BY <1>1, <1>2, DeliveryStream
  <2> QED
    BY <2>1, JoinsAre DEF Init
<1>5. DOMAIN mqueue = {} /\ DOMAIN printed = {}
  BY DEF Init
<1>6. Pipe(0)
  BY <1>2, <1>4, <1>5 DEF Pipe
<1> QED
  BY <1>3, <1>6 DEF PipeInv

LEMMA NextRelay == TypeOK /\ RelayInv /\ [Next]_vars => RelayInv'
<1> SUFFICES ASSUME TypeOK, RelayInv, [Next]_vars, AllFit'
             PROVE  (StepInv /\ PipeInv)'
  BY DEF RelayInv
<1>1. AllFit /\ StepInv
  BY AllFitBefore DEF RelayInv
<1>2. PICK f \in Nat : Pipe(f)
  BY <1>1 DEF RelayInv, PipeInv
<1>3. ASSUME NEW t \in Sayings, Say(t)
      PROVE  (StepInv /\ PipeInv)'
  <2>1. Pipe(f)'
    BY <1>1, <1>2, <1>3, SayPipe
  <2>2. toServer = <<>> /\ responses = <<>> /\ serving /\ receiver = "listening"
    BY <1>1, <1>3 DEF StepInv, Say
  <2>3. sent' # <<>> /\ sent'[Len(sent')] = t
    <3>1. sent \in Seq(Sayings) /\ sent' = Append(sent, t)
      BY <1>3 DEF Say, TypeOK
    <3> QED
      BY <3>1
  <2>4. PICK e \in Texts : e = Encode(Message("sendall", t))
    BY PlainTexts, MessageEncode
  <2>5. toServer' = e
    <3>1. Joins(<<>>, e) = e
      BY JoinsAre
    <3> QED
      BY <1>3, <2>2, <2>4, <3>1 DEF Say, Joins
  <2>6. StepInv'
    BY <1>3, <2>2, <2>3, <2>4, <2>5 DEF StepInv, Say, server
  <2> QED
    BY <2>1, <2>6 DEF PipeInv
<1>4. ASSUME NEW t \in Sayings, SayRefused(t)
      PROVE  (StepInv /\ PipeInv)'
  <2>1. Pipe(f)'
    BY <1>2, <1>4, SamePipe DEF SayRefused, server
  <2>2. StepInv'
    BY <1>1, <1>4 DEF StepInv, SayRefused, server
  <2> QED
    BY <2>1, <2>2 DEF PipeInv
<1>5. CASE TakeResponse
  <2>1. Pipe(f)'
    BY <1>2, <1>5, SamePipe DEF TakeResponse, server
  <2>2. toServer = <<>> /\ Len(responses) = 1
    BY <1>1, <1>5 DEF StepInv, TakeResponse
  <2>3. responses' = <<>>
    <3>1. responses \in Seq({"ok", "err"})
      BY DEF TypeOK
    <3>2. PICK D : D = {"ok", "err"}
      OBVIOUS
    <3>3. PICK q \in Seq(D) : q = responses /\ Len(q) = 1
      BY <2>2, <3>1, <3>2
    <3>4. Tail(q) \in Seq(D) /\ Len(Tail(q)) = 0
      BY <3>3
    <3>5. Tail(q) = <<>>
      BY <3>4, EmptySeq
    <3> QED
      BY <1>5, <3>3, <3>5 DEF TakeResponse
  <2>4. StepInv'
    BY <1>1, <1>5, <2>2, <2>3 DEF StepInv, TakeResponse, server
  <2> QED
    BY <2>1, <2>4 DEF PipeInv
<1>6. CASE ResponseFails
  BY <1>1, <1>6 DEF StepInv, ResponseFails
<1>7. ASSUME NEW s \in NextLine(toServer), ServeLine(s)
      PROVE  (StepInv /\ PipeInv)'
  <2>1. Pipe(f)'
    BY <1>1, <1>2, <1>7, ServePipe
  <2>2. /\ sender = "waiting" /\ toServer' = <<>> /\ responses' = <<"ok">>
        /\ UNCHANGED <<ends, serving, receiver>>
    BY <1>1, <1>7, ServeIs
  <2>3. StepInv'
    BY <1>1, <2>2 DEF StepInv, ends
  <2> QED
    BY <2>1, <2>3 DEF PipeInv
<1>8. CASE Forward
  <2>1. Pipe(f + 1)'
    BY <1>1, <1>2, <1>8, ForwardPipe
  <2>2. StepInv'
    BY <1>1, <1>8 DEF StepInv, Forward, ends
  <2>3. f + 1 \in Nat
    OBVIOUS
  <2> QED
    BY <2>1, <2>2, <2>3 DEF PipeInv
<1>9. ASSUME NEW s \in NextLine(toReceiver), ReceiveLine(s)
      PROVE  (StepInv /\ PipeInv)'
  <2>1. /\ f # 0 /\ Pipe(f - 1)' /\ UNCHANGED <<ends, toServer, server, responses, receiver>>
    BY <1>1, <1>2, <1>9, ReceivePipe
  <2>2. StepInv'
    BY <1>1, <2>1 DEF StepInv, ends, server
  <2>3. f - 1 \in Nat
    BY <2>1
  <2> QED
    BY <2>1, <2>2, <2>3 DEF PipeInv
<1>10. CASE UNCHANGED vars
  <2>1. Pipe(f)'
    BY <1>2, <1>10, SamePipe DEF vars, ends, server
  <2>2. StepInv'
    BY <1>1, <1>10 DEF StepInv, vars, ends, server
  <2> QED
    BY <2>1, <2>2 DEF PipeInv
<1> QED
  BY <1>3, <1>4, <1>5, <1>6, <1>7, <1>8, <1>9, <1>10 DEF Next, ServeLines, ReceiveLines

LEMMA RelayAlways == Spec => [](TypeOK /\ RelayInv)
BY InitTypeOK, NextTypeOK, InitRelay, NextRelay, PTL DEF Spec

\* However many texts are typed, and however threads and connections take turns: if
\* every text fits, there is one response to each, and none is left over (sender.cpp
\* main, Server::chat_with_sender).
THEOREM KeepsStep == Spec => []InStep
<1>1. TypeOK /\ RelayInv => InStep
  BY DEF RelayInv, StepInv, InStep
<1> QED
  BY <1>1, RelayAlways, PTL

\* What the receiver prints is what was typed, up to its first colon, behind the
\* name, each text once and in order; as long as every text fits (chat_with_sender,
\* Room::broadcast_message, chat_with_receiver, receiver.cpp main).
THEOREM PrintedIsSent == Spec => []PrintedAsSent
<1>1. TypeOK /\ RelayInv => PrintedAsSent
  <2> SUFFICES ASSUME TypeOK, AllFit, StepInv, PipeInv
               PROVE  PrintedAsSent
    BY DEF RelayInv, PrintedAsSent
  <2>1. PICK f \in Nat : Pipe(f)
    BY DEF PipeInv
  <2>2. Len(printed) <= Len(sent)
    <3>1. Served \in 0..Len(sent) /\ Len(printed) + f + Len(mqueue) = Served
      BY <2>1, ServedType DEF Pipe
    <3> QED
      BY <3>1, SentType
  <2> QED
    BY <2>1, <2>2 DEF PrintedAsSent, StepInv, Pipe
<1> QED
  BY <1>1, RelayAlways, PTL
=============================================================================
