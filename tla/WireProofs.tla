------------------------------ MODULE WireProofs ------------------------------
(***************************************************************************)
(* Proofs about Wire, for any messages and any limits.                     *)
(***************************************************************************)
EXTENDS Wire, LineProofs

\* What is lost or doubled shows only if all the parts are sequences: the two
\* properties and the types of the characters are inductive together.
IInv == CharsOK /\ NothingLostOnWire /\ LineFitsBuffer

-----------------------------------------------------------------------------
(* Sequences of characters. *)

\* Cutting a sequence in two changes nothing.
LEMMA CutInTwo ==
  ASSUME NEW s \in Texts, NEW n \in 1..Len(s)
  PROVE  /\ SubSeq(s, 1, n) \in Texts /\ SubSeq(s, n + 1, Len(s)) \in Texts
         /\ Len(SubSeq(s, 1, n)) = n
         /\ SubSeq(s, 1, n) \o SubSeq(s, n + 1, Len(s)) = s
BY DEF Texts

\* Concatenation groups in any way.
LEMMA Joined ==
  ASSUME NEW a \in Texts, NEW b \in Texts
  PROVE  a \o b \in Texts
BY ConcatProperties DEF Texts

LEMMA Regroup ==
  ASSUME NEW a \in Texts, NEW b \in Texts, NEW c \in Texts
  PROVE  (a \o b) \o c = a \o (b \o c)
BY ConcatAssociative DEF Texts

\* Without the last characters, the first ones are left.
LEMMA WithoutEnd ==
  ASSUME NEW a \in Texts, NEW b \in Texts
  PROVE  /\ Len(a \o b) - Len(b) = Len(a)
         /\ SubSeq(a \o b, 1, Len(a)) = a
         /\ a \o <<>> = a
<1>1. /\ a \in Seq(Chars) /\ b \in Seq(Chars)
      /\ a \o b \in Seq(Chars) /\ Len(a \o b) = Len(a) + Len(b)
      /\ Len(a) \in Nat /\ Len(b) \in Nat
  BY DEF Texts
<1>2. SubSeq(a \o b, 1, Len(a)) = a
  BY <1>1, SubSeqOfConcat1
<1>3. a \o <<>> = a
  BY <1>1, ConcatEmptySeq
<1> QED
  BY <1>1, <1>2, <1>3

LEMMA HeadToEnd ==
  ASSUME NEW a \in Texts, NEW s \in Texts, s # <<>>
  PROVE  /\ Append(a, Head(s)) \in Texts /\ Tail(s) \in Texts
         /\ Len(Append(a, Head(s))) = Len(a) + 1 /\ Len(Tail(s)) = Len(s) - 1
         /\ Append(a, Head(s)) \o Tail(s) = a \o s
BY DEF Texts

LEMMA EncodeType == ASSUME NEW m \in Outbox
                    PROVE  Encode(m) \in Texts /\ m.data \in Texts
<1>1. m.tag \in Words /\ m.data \in Seq(Chars)
  BY OutboxAssumption DEF Messages, Texts
<1>2. Body(m) \in Seq(Chars)
  <2>1. "bye" \in Chars
    BY WordsAssumption DEF Chars
  <2>2. <<"bye">> \in Seq(Chars)
    BY <2>1
  <2> QED
    BY <1>1, <2>2 DEF Body
<1>3. <<m.tag, Colon>> \in Seq(Chars) /\ <<Newline>> \in Seq(Chars)
  BY <1>1 DEF Chars
<1>4. <<m.tag, Colon>> \o Body(m) \in Seq(Chars)
  BY <1>2, <1>3
<1>5. Encode(m) \in Seq(Chars)
  BY <1>3, <1>4, <1>2, ConcatProperties DEF Encode
<1> QED
  BY <1>1, <1>5 DEF Texts

-----------------------------------------------------------------------------

LEMMA InitIInv == Init => IInv
<1> SUFFICES ASSUME Init
             PROVE  IInv
  OBVIOUS
<1>1. <<>> \in Texts /\ Len(<<>>) = 0
  BY DEF Texts
<1>2. CharsOK
  BY <1>1, LimitsAssumption DEF Init, CharsOK, Results
<1>3. NothingLostOnWire
  BY DEF Init, NothingLostOnWire
<1>4. LineFitsBuffer
  BY <1>1, LengthAssumption DEF Init, LineFitsBuffer
<1> QED
  BY <1>2, <1>3, <1>4 DEF IInv

LEMMA NextIInv == IInv /\ [Next]_vars => IInv'
<1> SUFFICES ASSUME IInv, [Next]_vars
             PROVE  IInv'
  OBVIOUS
<1> USE DEF IInv, CharsOK, NothingLostOnWire, LineFitsBuffer, writer, reader
<1>a. /\ taken \in Texts /\ line \in Texts /\ rio_buf \in Texts
      /\ stream \in Texts /\ out \in Texts
  OBVIOUS
<1>0. \A a, b \in Texts : a \o b \in Texts
  BY Joined
<1>1. ASSUME NEW m \in Outbox, Send(m)
      PROVE  IInv'
  <2>1. Encode(m) \in Texts
    BY EncodeType
  <2>2. CharsOK'
    BY <1>0, <1>1, <2>1 DEF Send, Result, Results
  <2>3. NothingLostOnWire'
    <3>1. taken \o line \o rio_buf \o stream \in Texts
      BY <1>0
    <3>2. taken \o line \o rio_buf \o stream = written
      BY <1>1, <3>1 DEF Send, Texts
    <3> QED
      BY <1>1, <3>2 DEF Send
  <2> QED
    BY <1>1, <2>2, <2>3 DEF Send
<1>2. ASSUME NEW m \in Outbox, SendRefused(m)
      PROVE  IInv'
  BY <1>2 DEF SendRefused, Result, Results
<1>3. CASE Stop
  <2> DEFINE p == taken \o line \o rio_buf \o stream
  <2>1. p \in Texts /\ written = p \o out
    BY <1>0
  <2>2. SubSeq(written, 1, Len(written) - Len(out)) = p /\ p \o <<>> = p
    <3> HIDE DEF p
    <3> QED
      BY <2>1, WithoutEnd
  <2> HIDE DEF p
  <2>3. CharsOK'
    <3>1. open' = FALSE /\ out' = <<>> /\ written' = p
      BY <1>3, <2>2 DEF Stop
    <3>2. <<>> \in Texts
      BY DEF Texts
    <3>3. last_result' \in [{"writer", "reader"} -> Results]
      BY <1>3 DEF Stop, Result, Results
    <3> QED
      BY <1>3, <2>1, <3>1, <3>2, <3>3 DEF Stop
  <2>4. NothingLostOnWire'
    BY <1>3, <2>2 DEF Stop, p
  <2> QED
    BY <1>3, <2>3, <2>4 DEF Stop
<1>4. ASSUME NEW n \in 1..Len(out), Write(n)
      PROVE  IInv'
  <2>1. CharsOK'
    BY <1>0, <1>4, CutInTwo DEF Write
  <2>2. NothingLostOnWire'
    <3> DEFINE a == taken \o line \o rio_buf
               p == SubSeq(out, 1, n)
               q == SubSeq(out, n + 1, Len(out))
    <3>1. a \in Texts /\ p \in Texts /\ q \in Texts /\ p \o q = out
      BY <1>0, CutInTwo
    <3>2. a \o (stream \o p) \o q = a \o stream \o (p \o q)
      <4> HIDE DEF a, p, q, IInv
      <4>0. a \in Texts /\ stream \in Texts /\ p \in Texts
        BY <1>a, <3>1
      <4>1. a \o stream \in Texts
        BY <4>0, Joined
      <4>2. a \o (stream \o p) = (a \o stream) \o p
        BY ONLY <4>0, Regroup, Zenon
      <4>3. ((a \o stream) \o p) \o q = (a \o stream) \o (p \o q)
        BY <3>1, <4>1, Regroup, Zenon
      <4> QED
        BY <4>2, <4>3, Zenon
    <3> QED
      BY <1>4, <3>1, <3>2 DEF Write
  <2> QED
    BY <1>4, <2>1, <2>2 DEF Write
<1>5. CASE CallReceive
  BY <1>5 DEF CallReceive
<1>6. ASSUME NEW n \in 1..Len(stream), Refill(n)
      PROVE  IInv'
  <2>1. CharsOK'
    BY <1>0, <1>6, CutInTwo DEF Refill
  <2>2. NothingLostOnWire'
    <3> DEFINE a == taken \o line
               p == SubSeq(stream, 1, n)
               q == SubSeq(stream, n + 1, Len(stream))
    <3>1. a \in Texts /\ p \in Texts /\ q \in Texts /\ p \o q = stream
      BY <1>0, CutInTwo
    <3>2. a \o p \o q = a \o (p \o q) /\ a \o <<>> = a
      <4> HIDE DEF a, p, q, IInv
      <4>1. a \o p \o q = a \o (p \o q)
        BY <3>1, Regroup, Zenon
      <4>2. a \o <<>> = a
        BY <3>1, WithoutEnd
      <4> QED
        BY <4>1, <4>2, Zenon
    <3> QED
      BY <1>6, <3>1, <3>2 DEF Refill
  <2> QED
    BY <1>6, <2>1, <2>2 DEF Refill
<1>7. CASE Copy
  <2>1. CharsOK' /\ LineFitsBuffer'
    <3>1. Len(line) \in Nat /\ Len(line) < MaxLen - 1
      BY <1>7, LengthAssumption DEF Copy, LineDone, Ends, Texts
    <3>2. LineFitsBuffer'
      BY <1>7, <3>1, HeadToEnd, LengthAssumption DEF Copy
    <3> QED
      BY <1>7, <3>2, HeadToEnd, LimitsAssumption DEF Copy, Texts
  <2>2. NothingLostOnWire'
    <3> DEFINE l == Append(line, Head(rio_buf))
               b == Tail(rio_buf)
    <3>1. l \in Texts /\ b \in Texts /\ l \o b = line \o rio_buf
      BY <1>7, HeadToEnd DEF Copy
    <3>2. taken \o l \o b = taken \o (l \o b) /\ taken \o line \o rio_buf = taken \o (line \o rio_buf)
      <4> HIDE DEF l, b, IInv
      <4>1. taken \o l \o b = taken \o (l \o b)
        <5>1. l \in Texts /\ b \in Texts /\ taken \in Texts
          BY <1>a, <3>1
        <5> QED
          BY <5>1, Regroup, Zenon
      <4>2. taken \o line \o rio_buf = taken \o (line \o rio_buf)
        BY <1>a, Regroup, Zenon
      <4> QED
        BY <4>1, <4>2, Zenon
    <3> QED
      BY <1>7, <3>1, <3>2 DEF Copy
  <2> QED
    BY <2>1, <2>2
<1>8. CASE Receive
  <2>1. CharsOK'
    BY <1>0, <1>8 DEF Receive, Result, Results, Texts
  <2>2. NothingLostOnWire'
    <3>1. (taken \o line) \o <<>> = taken \o line
      BY <1>0 DEF Texts
    <3> QED
      BY <1>8, <3>1 DEF Receive
  <2>3. LineFitsBuffer'
    BY <1>8, LengthAssumption DEF Receive
  <2> QED
    BY <2>1, <2>2, <2>3
<1>9. CASE EndOfInput
  BY <1>9 DEF EndOfInput, Result, Results
<1>10. CASE ReadFails
  BY <1>10 DEF ReadFails, Result, Results
<1>11. CASE UNCHANGED vars
  BY <1>11 DEF vars
<1> QED
  BY <1>1, <1>2, <1>3, <1>4, <1>5, <1>6, <1>7, <1>8, <1>9, <1>10, <1>11
     DEF Next, Writes, Refills, Reads

LEMMA Inductive == Spec => []IInv
BY InitIInv, NextIInv, PTL DEF Spec

\* However writes and reads cut the stream, and whenever the writer stops, the
\* lines that receive takes are what was written, and what is between.
THEOREM NothingLost == Spec => []NothingLostOnWire
<1>1. IInv => NothingLostOnWire
  BY DEF IInv
<1> QED
  BY <1>1, Inductive, PTL

\* No input makes rio_readlineb write beyond the buffer of receive.
THEOREM BufferSafe == Spec => []LineFitsBuffer
<1>1. IInv => LineFitsBuffer
  BY DEF IInv
<1> QED
  BY <1>1, Inductive, PTL

-----------------------------------------------------------------------------
(* The refinement: Wire is a Channel. *)

\* The reader is never behind the end of a line, and a writer that has stopped
\* has nothing left to write.
Ongoing == Unended(line) /\ (~open => out = <<>>)

\* Both modules have their format of lines from Lines.
LEMMA SameFormat == /\ \A m : Sent!MaySend(m) = MaySend(m) /\ Sent!Encode(m) = Encode(m)
                    /\ \A s : Sent!Ends(s) = Ends(s) /\ Sent!Unended(s) = Unended(s)
<1>1. \A m : Sent!MaySend(m) = MaySend(m)
  BY DEF Sent!MaySend, MaySend
<1>2. \A m : Sent!Encode(m) = Encode(m)
  BY DEF Sent!Encode, Encode, Sent!Body, Body, Sent!Colon, Colon, Sent!Newline, Newline
<1>3. \A s : Sent!Ends(s) = Ends(s)
  BY DEF Sent!Ends, Ends, Sent!Newline, Newline, Sent!Last, Last
<1>4. ASSUME NEW s
      PROVE  Sent!Unended(s) = Unended(s)
  <2>1. Sent!Unended(s) = \A k \in 0..(Len(s) - 1) : ~Ends(SubSeq(s, 1, k))
    BY <1>3, Zenon DEF Sent!Unended
  <2> QED
    BY <2>1, Zenon DEF Unended
<1> QED
  BY <1>1, <1>2, <1>3, <1>4

\* Without the first characters, the last ones are left.
LEMMA WithoutBegin ==
  ASSUME NEW a \in Texts, NEW b \in Texts
  PROVE  SubSeq(a \o b, Len(a) + 1, Len(a \o b)) = b
<1>1. a \in Seq(Chars) /\ b \in Seq(Chars)
  BY DEF Texts
<1> QED
  BY <1>1, SubSeqOfConcat2, LenProperties, ConcatProperties

\* A line that has not ended stays so when a character is copied.
LEMMA StillUnended ==
  ASSUME NEW s \in Texts, NEW c \in Chars, Unended(s), ~Ends(s)
  PROVE  Unended(Append(s, c))
<1> DEFINE t == Append(s, c)
<1>1. Len(t) = Len(s) + 1 /\ Len(s) \in Nat
  BY DEF Texts
<1> SUFFICES ASSUME NEW k \in 0..(Len(t) - 1)
             PROVE  ~Ends(SubSeq(t, 1, k))
  BY DEF Unended
<1>2. SubSeq(t, 1, k) = SubSeq(s, 1, k)
  BY <1>1 DEF Texts
<1>3. CASE k = Len(s)
  <2>1. SubSeq(s, 1, k) = s
    BY <1>3 DEF Texts
  <2> QED
    BY <1>2, <2>1
<1>4. CASE k # Len(s)
  <2>1. k \in 0..(Len(s) - 1)
    BY <1>1, <1>4
  <2> QED
    BY <1>2, <2>1 DEF Unended
<1> QED
  BY <1>3, <1>4

LEMMA InitOngoing == Init => Ongoing
BY DEF Init, Ongoing, Unended

LEMMA NextOngoing == IInv /\ Ongoing /\ [Next]_vars => Ongoing'
<1> SUFFICES ASSUME IInv, Ongoing, [Next]_vars
             PROVE  Ongoing'
  OBVIOUS
<1> USE DEF Ongoing, reader, writer
<1>1. ASSUME NEW m \in Outbox, Send(m)
      PROVE  Ongoing'
  BY <1>1 DEF Send, Unended
<1>2. ASSUME NEW m \in Outbox, SendRefused(m)
      PROVE  Ongoing'
  BY <1>2 DEF SendRefused, Unended
<1>3. CASE Stop
  BY <1>3 DEF Stop, Unended
<1>4. ASSUME NEW n \in 1..Len(out), Write(n)
      PROVE  Ongoing'
  BY <1>4 DEF Write, Unended
<1>5. CASE CallReceive
  BY <1>5 DEF CallReceive, Unended
<1>6. ASSUME NEW n \in 1..Len(stream), Refill(n)
      PROVE  Ongoing'
  BY <1>6 DEF Refill, Unended
<1>7. CASE Copy
  <2>1. line \in Texts /\ Head(rio_buf) \in Chars
    BY <1>7 DEF Copy, IInv, CharsOK, Texts
  <2>2. Unended(Append(line, Head(rio_buf)))
    BY <1>7, <2>1, StillUnended DEF Copy, LineDone
  <2> QED
    BY <1>7, <2>2 DEF Copy, Unended
<1>8. CASE Receive
  BY <1>8 DEF Receive, Unended
<1>9. CASE EndOfInput
  BY <1>9 DEF EndOfInput, Unended
<1>10. CASE ReadFails
  BY <1>10 DEF ReadFails, Unended
<1>11. CASE UNCHANGED vars
  BY <1>11 DEF vars, Unended
<1> QED
  BY <1>1, <1>2, <1>3, <1>4, <1>5, <1>6, <1>7, <1>8, <1>9, <1>10, <1>11
     DEF Next, Writes, Refills, Reads

LEMMA RefinesInit == Init => Sent!Init
BY DEF Init, Sent!Init

\* A step puts a message in, takes a line out, stops the writer, or moves
\* characters that are on their way.
LEMMA RefinesNext == IInv /\ Ongoing /\ [Next]_vars => [Sent!Next]_(Sent!vars)
<1> SUFFICES ASSUME IInv, Ongoing, [Next]_vars
             PROVE  [Sent!Next]_(Sent!vars)
  OBVIOUS
<1> USE DEF writer, reader
<1> DEFINE content == line \o rio_buf \o stream \o out
<1>a. /\ line \in Texts /\ rio_buf \in Texts /\ stream \in Texts /\ out \in Texts
      /\ taken \in Texts /\ <<>> \in Texts
  BY DEF IInv, CharsOK, Texts
<1>b. /\ line \o rio_buf \in Texts /\ line \o rio_buf \o stream \in Texts
      /\ content \in Texts
  BY <1>a, Joined
<1>c. ASSUME content' = content, UNCHANGED <<open, taken>>
      PROVE  UNCHANGED Sent!vars
  BY <1>c DEF Sent!vars
<1>1. ASSUME NEW m \in Outbox, Send(m)
      PROVE  Sent!Next
  <2>1. content = line \o rio_buf \o stream
    BY <1>1, <1>b, WithoutEnd DEF Send
  <2>2. content' = content \o Encode(m)
    BY <1>1, <2>1 DEF Send
  <2>3. Sent!Send(m)
    BY <1>1, <2>2, SameFormat DEF Send, Sent!Send
  <2> QED
    BY <2>3 DEF Sent!Next
<1>2. ASSUME NEW m \in Outbox, SendRefused(m)
      PROVE  UNCHANGED Sent!vars
  BY <1>2 DEF SendRefused, Sent!vars
<1>3. CASE Stop
  <2> DEFINE p == line \o rio_buf \o stream
             n == Len(p)
  <2>0. p \in Texts
    BY <1>b
  <2>1. SubSeq(content, 1, n) = p /\ p \o <<>> = p /\ n \in 0..Len(content)
    <3>1. SubSeq(p \o out, 1, Len(p)) = p /\ p \o <<>> = p
      <4> HIDE DEF p
      <4> QED
        BY <2>0, <1>a, WithoutEnd
    <3>2. Len(p) \in Nat /\ Len(out) \in Nat /\ Len(p \o out) = Len(p) + Len(out)
      <4> HIDE DEF p
      <4> QED
        BY <2>0, <1>a DEF Texts
    <3> QED
      BY <3>1, <3>2
  <2>2. content' = SubSeq(content, 1, n)
    BY <1>3, <2>1 DEF Stop
  <2>3. Sent!Stop(n)
    BY <1>3, <2>2 DEF Stop, Sent!Stop
  <2> QED
    BY <2>1, <2>3 DEF Sent!Next
<1>4. ASSUME NEW n \in 1..Len(out), Write(n)
      PROVE  UNCHANGED Sent!vars
  <2> DEFINE a == line \o rio_buf
             p == SubSeq(out, 1, n)
             q == SubSeq(out, n + 1, Len(out))
  <2>1. a \in Texts /\ p \in Texts /\ q \in Texts /\ p \o q = out
    BY <1>a, <1>b, CutInTwo
  <2>2. a \o (stream \o p) \o q = a \o stream \o (p \o q)
    <3> HIDE DEF a, p, q
    <3>1. a \in Texts /\ stream \in Texts /\ p \in Texts
      BY <1>a, <2>1
    <3>2. a \o (stream \o p) = (a \o stream) \o p
      BY ONLY <3>1, Regroup, Zenon
    <3>a. a \o stream \in Texts /\ p \in Texts /\ q \in Texts
      BY <2>1, <3>1, Joined
    <3>3. ((a \o stream) \o p) \o q = (a \o stream) \o (p \o q)
      BY ONLY <3>a, Regroup, Zenon
    <3> QED
      BY <3>2, <3>3, Zenon
  <2>3. content' = content
    BY <1>4, <2>1, <2>2 DEF Write
  <2> QED
    BY <1>4, <1>c, <2>3 DEF Write
<1>5. CASE CallReceive
  BY <1>5 DEF CallReceive, Sent!vars
<1>6. ASSUME NEW n \in 1..Len(stream), Refill(n)
      PROVE  UNCHANGED Sent!vars
  <2> DEFINE p == SubSeq(stream, 1, n)
             q == SubSeq(stream, n + 1, Len(stream))
  <2>1. p \in Texts /\ q \in Texts /\ p \o q = stream
    BY <1>a, CutInTwo
  <2>2. line \o p \o q = line \o (p \o q) /\ line \o <<>> = line
    <3> HIDE DEF p, q
    <3>a. line \in Texts /\ p \in Texts /\ q \in Texts
      BY <1>a, <2>1
    <3>1. line \o p \o q = line \o (p \o q)
      BY ONLY <3>a, Regroup, Zenon
    <3>2. line \o <<>> = line
      BY <1>a, WithoutEnd
    <3> QED
      BY <3>1, <3>2
  <2>3. content' = content
    BY <1>6, <2>1, <2>2 DEF Refill
  <2> QED
    BY <1>6, <1>c, <2>3 DEF Refill
<1>7. CASE Copy
  <2>1. Append(line, Head(rio_buf)) \o Tail(rio_buf) = line \o rio_buf
    BY <1>7, <1>a, HeadToEnd DEF Copy
  <2>2. content' = content
    BY <1>7, <2>1 DEF Copy
  <2> QED
    BY <1>7, <1>c, <2>2 DEF Copy
<1>8. CASE Receive
  <2> DEFINE rest == rio_buf \o stream \o out
             n == Len(line)
  <2>1. rest \in Texts /\ content = line \o rest
    <3>1. rio_buf \o stream \in Texts /\ rest \in Texts
      BY <1>a, Joined
    <3>a. line \in Texts /\ rio_buf \in Texts /\ stream \in Texts
      BY <1>a
    <3>2. (line \o rio_buf) \o stream = line \o (rio_buf \o stream)
      BY ONLY <3>a, Regroup, Zenon
    <3>b. line \in Texts /\ rio_buf \o stream \in Texts /\ out \in Texts
      BY <1>a, <3>1
    <3>3. (line \o (rio_buf \o stream)) \o out = line \o ((rio_buf \o stream) \o out)
      BY ONLY <3>b, Regroup, Zenon
    <3> QED
      BY <3>1, <3>2, <3>3
  <2> HIDE DEF content, rest
  <2>2. SubSeq(content, 1, n) = line /\ SubSeq(content, n + 1, Len(content)) = rest
    BY <1>a, <2>1, WithoutEnd, WithoutBegin
  <2>3. n \in 0..Len(content)
    BY <1>a, <2>1 DEF Texts
  <2>4. content' = rest
    <3>1. <<>> \o rio_buf = rio_buf
      BY <1>a, ConcatEmptySeq DEF Texts
    <3> QED
      BY <1>8, <3>1 DEF Receive, content, rest
  <2>5. Ends(line) \/ (~open /\ n = Len(content))
    <3>1. CASE LineDone
      BY <3>1 DEF LineDone
    <3>2. CASE AtEnd
      <4>1. ~open /\ rio_buf = <<>> /\ stream = <<>> /\ out = <<>>
        BY <3>2 DEF AtEnd, Ongoing
      <4>2. content = line
        BY <1>a, <4>1, ConcatEmptySeq DEF content, Texts
      <4> QED
        BY <4>1, <4>2
    <3> QED
      BY <1>8, <3>1, <3>2 DEF Receive
  <2>6. taken' = taken \o line /\ open' = open
    BY <1>8 DEF Receive
  <2>7. Sent!Take(n)
    BY <2>2, <2>4, <2>5, <2>6, SameFormat DEF Sent!Take, Ongoing, content
  <2> QED
    BY <2>3, <2>7 DEF Sent!Next, content
<1>9. CASE EndOfInput
  BY <1>9 DEF EndOfInput, Sent!vars
<1>10. CASE ReadFails
  BY <1>10 DEF ReadFails, Sent!vars
<1>11. CASE UNCHANGED vars
  BY <1>11 DEF vars, Sent!vars
<1> QED
  BY <1>1, <1>2, <1>3, <1>4, <1>5, <1>6, <1>7, <1>8, <1>9, <1>10, <1>11
     DEF Next, Writes, Refills, Reads

\* Whatever the sizes of the reads and the writes, a connection puts messages in
\* and takes lines out one at a time: what Relay makes of it is right.
THEOREM RefinesChannel == Spec => ImplementsChannel
<1>1. Init => Ongoing /\ Sent!Init
  BY InitOngoing, RefinesInit
<1>2. IInv /\ Ongoing /\ [Next]_vars => Ongoing' /\ [Sent!Next]_(Sent!vars)
  BY NextOngoing, RefinesNext
<1> QED
  BY <1>1, <1>2, Inductive, PTL DEF Spec, ImplementsChannel, Sent!Spec

-----------------------------------------------------------------------------
(* What is received has the type of a message. *)

ReceivedOK == received \in Seq([tag : Texts, data : Texts])

LEMMA NextReceivedOK == IInv /\ ReceivedOK /\ [Next]_vars => ReceivedOK'
<1> SUFFICES ASSUME IInv, ReceivedOK, [Next]_vars
             PROVE  ReceivedOK'
  OBVIOUS
<1>1. CASE Receive
  <2>1. line \in Texts
    BY DEF IInv, CharsOK
  <2>2. PICK M : M = [tag : Texts, data : Texts]
    OBVIOUS
  <2>3. PICK r \in M : r = [tag |-> Piece(line, 0), data |-> Data(line)]
    BY <2>1, <2>2, DataType
  <2>4. received' = received \/ received' = Append(received, r)
    BY <1>1, <2>3 DEF Receive
  <2>5. received \in Seq(M)
    BY <2>2 DEF ReceivedOK
  <2>6. received' \in Seq(M)
    BY <2>4, <2>5
  <2> QED
    BY <2>2, <2>6 DEF ReceivedOK
<1>2. CASE ~Receive
  <2>1. UNCHANGED received
    BY <1>2 DEF Next, Reads, Writes, Refills, Send, SendRefused, Stop, Write, CallReceive, Refill,
                Copy, EndOfInput, ReadFails, vars, reader
  <2> QED
    BY <2>1 DEF ReceivedOK
<1> QED
  BY <1>1, <1>2

LEMMA ReceivedAlways == Spec => []ReceivedOK
<1>1. Init => ReceivedOK
  BY DEF Init, ReceivedOK
<1> QED
  BY <1>1, NextReceivedOK, Inductive, PTL DEF Spec

\* Whatever characters arrive, and however they are cut, what receive returns is
\* a text for the tag and a text for the data.
THEOREM TypeCorrect == Spec => []TypeOK
<1>1. IInv /\ ReceivedOK => TypeOK
  BY DEF IInv, TypeOK, ReceivedOK
<1> QED
  BY <1>1, Inductive, ReceivedAlways, PTL

-----------------------------------------------------------------------------
(* What of a message arrives. *)

LEMMA BeforeOne ==
  ASSUME NEW s, Colons(s) = {}
  PROVE  \A k : Before(s, k) = s
BY DEF Before

\* The colons of a text that are the k-th.
Kth(s, k) == {i \in Colons(s) : Cardinality(Colons(SubSeq(s, 1, i))) = k}

LEMMA BeforeCut ==
  ASSUME NEW s, NEW a, NEW b, Cut(s, a, b)
  PROVE  /\ Before(s, 1) = a
         /\ \A k \in Nat \ {0} : Before(s, k + 1) = a \o <<Colon>> \o Before(b, k)
<1>1. /\ s \in Seq(Chars) /\ a \in Seq(Chars) /\ b \in Seq(Chars) /\ a \in Texts /\ b \in Texts
      /\ Len(s) = Len(a) + 1 + Len(b) /\ s[Len(a) + 1] = Colon
      /\ \A i \in 1..Len(a) : s[i] = a[i]
      /\ \A i \in 1..Len(b) : s[Len(a) + 1 + i] = b[i]
  BY DEF Cut, Texts
<1>2. PICK n \in Nat : n = Len(a)
  BY <1>1
<1>3. PICK l \in Nat : l = Len(b)
  BY <1>1
<1>4. /\ \A i \in 1..n : i \notin Colons(s)
      /\ n + 1 \in Colons(s)
      /\ \A i \in 1..l : n + 1 + i \in Colons(s) <=> i \in Colons(b)
      /\ Colons(s) \subseteq 1..n + 1 + l
  BY <1>1, <1>2, <1>3, CutColons, ColonsType DEF Texts
<1>5. \A i \in 0..l : Cardinality(Colons(SubSeq(s, 1, n + 1 + i)))
                        = Cardinality(Colons(SubSeq(b, 1, i))) + 1
  BY <1>2, <1>3, CutCount
<1>6. Cardinality(Colons(SubSeq(s, 1, n + 1))) = 1
  <2>1. Cardinality(Colons(SubSeq(b, 1, 0))) = 0
    <3>1. 0 \in 0..Len(b)
      BY <1>3
    <3>2. PICK c \in Texts : c = SubSeq(b, 1, 0) /\ Len(c) = 0
      BY <1>1, <3>1, BeginType
    <3>3. Colons(c) = {}
      <4>1. Colons(c) \subseteq 1..Len(c)
        BY <3>2, ColonsType
      <4>2. 1..0 = {}
        OBVIOUS
      <4> QED
        BY <3>2, <4>1, <4>2
    <3> QED
      BY <3>2, <3>3, ColonsType
  <2> QED
    BY <1>5, <2>1
<1>7. \A j \in Colons(s) : j = n + 1 \/ \E i \in 1..l : j = n + 1 + i /\ i \in Colons(b)
  <2> TAKE j \in Colons(s)
  <2>1. j \in 1..n + 1 + l /\ j \notin 1..n
    BY <1>4
  <2>2. CASE j # n + 1
    <3>1. j - (n + 1) \in 1..l /\ j = n + 1 + (j - (n + 1))
      BY <2>1, <2>2
    <3> QED
      BY <1>4, <3>1
  <2> QED
    BY <2>2
<1>8. Before(s, 1) = a
  <2>1. ASSUME NEW i \in 1..l, i \in Colons(b)
        PROVE  Cardinality(Colons(SubSeq(s, 1, n + 1 + i))) # 1
    <3>0. i \in 0..Len(b) /\ i \in 1..i
      BY <1>3
    <3>1. PICK c \in Texts : c = SubSeq(b, 1, i) /\ Len(c) = i /\ c[i] = b[i]
      BY <1>1, <3>0, BeginType
    <3>2. i \in Colons(c)
      BY <2>1, <3>1 DEF Colons, Texts
    <3>3. Cardinality(Colons(c)) \in Nat /\ Cardinality(Colons(c)) # 0
      BY <3>2, ColonsType
    <3> QED
      BY <1>5, <3>1, <3>3
  <2>2. Kth(s, 1) = {n + 1}
    BY <1>4, <1>6, <1>7, <2>1 DEF Kth
  <2>3. Min(Kth(s, 1)) = n + 1
    <3>1. Min({n + 1}) \in {n + 1}
      BY MinIs
    <3> QED
      BY <2>2, <3>1
  <2>4. Before(s, 1) = SubSeq(s, 1, n)
    <3>1. Before(s, 1) = SubSeq(s, 1, Min(Kth(s, 1)) - 1)
      BY <2>2 DEF Before, Kth
    <3>2. n + 1 - 1 = n
      OBVIOUS
    <3> QED
      BY <2>3, <3>1, <3>2
  <2>5. SubSeq(s, 1, n) = a
    BY <1>1, <1>2, SubSeqProperties, SeqEqual
  <2> QED
    BY <2>4, <2>5
<1>9. ASSUME NEW k \in Nat \ {0}
      PROVE  Before(s, k + 1) = a \o <<Colon>> \o Before(b, k)
  <2>1. \A i \in 1..l : n + 1 + i \in Kth(s, k + 1) <=> i \in Kth(b, k)
    <3> TAKE i \in 1..l
    <3>1. PICK c \in Nat : c = Cardinality(Colons(SubSeq(b, 1, i)))
      BY <1>1, <1>3, BeginType, ColonsType
    <3>2. Cardinality(Colons(SubSeq(s, 1, n + 1 + i))) = c + 1
      BY <1>5, <3>1
    <3> QED
      BY <1>4, <3>1, <3>2 DEF Kth
  <2>2. n + 1 \notin Kth(s, k + 1)
    BY <1>6 DEF Kth
  <2>3. Kth(s, k + 1) \subseteq Colons(s) /\ Kth(b, k) \subseteq Colons(b) /\ Colons(b) \subseteq 1..l
    BY <1>1, <1>3, ColonsType DEF Kth
  <2>4. \A j \in Kth(s, k + 1) : \E i \in Kth(b, k) : j = n + 1 + i
    BY <1>7, <2>1, <2>2, <2>3
  <2>5. PICK x \in Seq(Chars) : x = a \o <<Colon>>
    BY <1>1, Separators, ConcatProperties DEF Texts
  <2>6. Len(x) = n + 1 /\ x[n + 1] = Colon /\ \A i \in 1..n : x[i] = a[i]
    BY <1>1, <1>2, <2>5, Separators, ConcatProperties DEF Texts
  <2>c. \A i \in 1..n + 1 : s[i] = x[i]
    <3>1. \A i \in 1..n : s[i] = x[i]
      BY <1>1, <1>2, <2>6
    <3>2. s[n + 1] = x[n + 1]
      BY <1>1, <1>2, <2>6
    <3> QED
      BY <3>1, <3>2
  <2>7. CASE Kth(b, k) = {}
    <3>1. Before(s, k + 1) = s /\ Before(b, k) = b
      BY <2>4, <2>7 DEF Before, Kth
    <3>2. s = x \o b
      <4>1. Len(s) = Len(x) + Len(b)
        BY <1>1, <1>2, <1>3, <2>6
      <4>2. \A i \in 1..Len(x) : s[i] = x[i]
        BY <2>6, <2>c
      <4>3. \A i \in 1..Len(b) : s[Len(x) + i] = b[i]
        BY <1>1, <1>2, <2>6
      <4> QED
        BY <1>1, <4>1, <4>2, <4>3, IsJoined
    <3> QED
      BY <2>5, <3>1, <3>2
  <2>8. CASE Kth(b, k) # {}
    <3>1. PICK q \in 1..l : q = Min(Kth(b, k)) /\ q \in Kth(b, k) /\ \A i \in Kth(b, k) : q <= i
      <4>1. Kth(b, k) \subseteq Nat
        BY <2>3
      <4> QED
        BY <2>3, <2>8, <4>1, MinIs
    <3>2. n + 1 + q \in Kth(s, k + 1) /\ \A j \in Kth(s, k + 1) : n + 1 + q <= j
      <4>1. \A j \in Kth(s, k + 1) : n + 1 + q <= j
        <5> TAKE j \in Kth(s, k + 1)
        <5>1. PICK i \in Kth(b, k) : j = n + 1 + i
          BY <2>4
        <5>2. i \in 1..l
          BY <2>3
        <5> QED
          BY <3>1, <5>1, <5>2
      <4> QED
        BY <2>1, <3>1, <4>1
    <3>3. Min(Kth(s, k + 1)) = n + 1 + q
      <4>1. Kth(s, k + 1) \subseteq Nat
        BY <1>4, <2>3
      <4>2. PICK z \in Nat : z = Min(Kth(s, k + 1))
        BY <3>2, <4>1, MinIs
      <4>3. z \in Kth(s, k + 1) /\ z <= n + 1 + q
        BY <3>2, <4>1, <4>2, MinIs
      <4> QED
        BY <3>2, <4>2, <4>3
    <3>4. Before(s, k + 1) = SubSeq(s, 1, n + q) /\ Before(b, k) = SubSeq(b, 1, q - 1)
      <4>1. n + 1 + q - 1 = n + q
        OBVIOUS
      <4>2. Before(s, k + 1) = SubSeq(s, 1, Min(Kth(s, k + 1)) - 1)
        BY <3>2 DEF Before, Kth
      <4>3. Before(b, k) = SubSeq(b, 1, Min(Kth(b, k)) - 1)
        BY <2>8 DEF Before, Kth
      <4> QED
        BY <3>1, <3>3, <4>1, <4>2, <4>3
    <3>5. q - 1 \in 0..Len(b) /\ n + q \in 0..Len(s)
      BY <1>1, <1>2, <1>3
    <3>6. PICK d \in Texts : d = SubSeq(b, 1, q - 1) /\ Len(d) = q - 1
                            /\ \A i \in 1..q - 1 : d[i] = b[i]
      BY <1>1, <3>5, BeginType
    <3>7. PICK f \in Texts : f = SubSeq(s, 1, n + q) /\ Len(f) = n + q
                            /\ \A i \in 1..n + q : f[i] = s[i]
      <4>1. PICK w : w = n + q
        OBVIOUS
      <4>2. s \in Texts /\ w \in 0..Len(s)
        BY <3>5, <4>1 , <1>1 DEF Texts
      <4>3. SubSeq(s, 1, w) \in Texts /\ Len(SubSeq(s, 1, w)) = w
            /\ \A i \in 1..w : SubSeq(s, 1, w)[i] = s[i]
        BY <4>2, BeginType
      <4> QED
        BY <4>1, <4>3
    <3>8. Len(f) = Len(x) + Len(d)
      BY <2>6, <3>6, <3>7
    <3>9. \A i \in 1..Len(x) : f[i] = x[i]
      <4>1. 1..Len(x) \subseteq 1..n + q
        BY <2>6
      <4> QED
        BY <2>6, <2>c, <3>7, <4>1
    <3>10. ASSUME NEW i \in 1..q - 1
           PROVE  f[n + 1 + i] = d[i]
      <4>1. n + 1 + i \in 1..n + q /\ i \in 1..l
        OBVIOUS
      <4>2. f[n + 1 + i] = s[n + 1 + i]
        BY <3>7, <4>1
      <4>3. s[n + 1 + i] = b[i]
        BY <1>1, <1>2, <1>3, <4>1
      <4> QED
        BY <3>6, <4>2, <4>3
    <3>11. \A i \in 1..Len(d) : f[Len(x) + i] = d[i]
      BY <2>6, <3>6, <3>10
    <3>12. f = x \o d
      BY <3>8, <3>9, <3>11, IsJoined DEF Texts
    <3> QED
      BY <2>5, <3>4, <3>6, <3>7, <3>12
  <2> QED
    BY <2>7, <2>8
<1> QED
  BY <1>8, <1>9

LEMMA BeforePiece ==
  ASSUME NEW s \in Texts
  PROVE  Before(s, 1) = Piece(s, 0)
<1>1. CASE Colons(s) = {}
  BY <1>1, BeforeOne, OnePiece
<1>2. CASE Colons(s) # {}
  BY <1>2, CutExists, CutPiece, BeforeCut
<1> QED
  BY <1>1, <1>2

LEMMA FivePieces ==
  ASSUME NEW a \in Texts, NEW z \in Texts, NEW c \in Texts, NEW f \in Texts
  PROVE  (a \o z) \o ((c \o z) \o f) = (((a \o z) \o c) \o z) \o f
<1>1. ASSUME NEW x \in Texts
      PROVE  (x \o (c \o z)) \o f = x \o ((c \o z) \o f)
  <2>1. c \o z \in Texts
    BY Joined
  <2> QED
    BY <2>1, Regroup, Zenon
<1>2. ASSUME NEW x \in Texts
      PROVE  (x \o c) \o z = x \o (c \o z)
  BY Regroup, Zenon
<1>3. a \o z \in Texts
  BY Joined
<1> QED
  BY <1>1, <1>2, <1>3, Zenon

LEMMA JoinsFive ==
  \A a, z, c, f \in Texts :
     Joins(Joins(a, z), Joins(Joins(c, z), f)) = Joins(Joins(Joins(Joins(a, z), c), z), f)
BY FivePieces DEF Joins

\* With three pieces, what is before the third colon is the three.
LEMMA BeforeThree ==
  ASSUME NEW s \in Texts, Pieces(s) \in Nat, Pieces(s) >= 3
  PROVE  Before(s, 3) = Piece(s, 0) \o <<Colon>> \o Piece(s, 1) \o <<Colon>> \o Piece(s, 2)
<1>1. PICK a \in Texts, b \in Texts : Cut(s, a, b)
  <2>1. Colons(s) # {}
    BY OnePiece
  <2> QED
    BY <2>1, CutExists
<1>2. Pieces(b) \in Nat /\ Pieces(b) >= 2
  BY <1>1, CutPieces
<1>3. PICK c \in Texts, d \in Texts : Cut(b, c, d)
  <2>1. Colons(b) # {}
    BY <1>2, OnePiece
  <2> QED
    BY <2>1, CutExists
<1>4. /\ Piece(s, 0) = a /\ Piece(s, 1) = c /\ Piece(s, 2) = Piece(d, 0)
  <2>1. Piece(s, 0) = a /\ Piece(s, 0 + 1) = Piece(b, 0) /\ Piece(s, 1 + 1) = Piece(b, 1)
    BY <1>1, CutPiece
  <2>2. Piece(b, 0) = c /\ Piece(b, 0 + 1) = Piece(d, 0)
    BY <1>3, CutPiece
  <2> QED
    BY <2>1, <2>2
<1>5. PICK f \in Texts : f = Piece(d, 0)
  BY PieceType
<1>6. Before(s, 3) = Joins(Joins(a, <<Colon>>), Before(b, 2))
  <2>1. Before(s, 2 + 1) = (a \o <<Colon>>) \o Before(b, 2)
    BY <1>1, BeforeCut
  <2>2. 2 + 1 = 3
    OBVIOUS
  <2>3. Before(s, 3) = (a \o <<Colon>>) \o Before(b, 2)
    BY <2>1, <2>2, Zenon
  <2> QED
    BY <2>3, Zenon DEF Joins
<1>7. Before(b, 2) = Joins(Joins(c, <<Colon>>), f)
  <2>1. Before(b, 1 + 1) = (c \o <<Colon>>) \o Before(d, 1)
    BY <1>3, BeforeCut
  <2>2. Before(d, 1) = f
    BY <1>5, BeforePiece
  <2> QED
    BY <2>1, <2>2 DEF Joins
<1>8. Before(s, 3) = Joins(Joins(Joins(Joins(a, <<Colon>>), c), <<Colon>>), f)
  <2>1. PICK z \in Texts : z = <<Colon>>
    BY Separators
  <2>2. Before(s, 3) = Joins(Joins(a, z), Joins(Joins(c, z), f))
    BY <1>6, <1>7, <2>1
  <2> QED
    BY <2>1, <2>2, JoinsFive
<1>9. Before(s, 3) = a \o <<Colon>> \o c \o <<Colon>> \o f
  BY <1>8 DEF Joins
<1> QED
  BY <1>4, <1>5, <1>9

\* What receive makes of the line of a message.
LEMMA ArrivalIs ==
  ASSUME NEW m \in Outbox, ~Faulty(Encode(m))
  PROVE  [tag |-> Piece(Encode(m), 0), data |-> Data(Encode(m))] = Arrival(m)
<1>1. m.tag \in Words /\ Body(m) \in Texts
  <2>1. m.tag \in Words /\ m.data \in Texts
    BY OutboxAssumption DEF Messages
  <2>2. <<"bye">> \in Texts
    BY WordsAssumption DEF Texts, Chars
  <2> QED
    BY <2>1, <2>2 DEF Body
<1>2. PICK r \in Texts : r = Rest(m)
  BY <1>1, RestIs
<1>3. PICK e \in Texts : e = Encode(m)
  BY EncodeType
<1>4. /\ ~Invalid(e) /\ Piece(e, 0) = <<m.tag>>
      /\ \A k \in Nat : Piece(e, k + 1) = Piece(r, k)
      /\ Pieces(e) = Pieces(r) + 1 /\ Pieces(r) \in Nat
  BY <1>1, <1>2, <1>3, EncodedPieces
<1>5. Piece(e, 1) = Piece(r, 0) /\ Piece(e, 2) = Piece(r, 1) /\ Piece(e, 3) = Piece(r, 2)
  <2>1. Piece(e, 0 + 1) = Piece(r, 0) /\ Piece(e, 1 + 1) = Piece(r, 1) /\ Piece(e, 2 + 1) = Piece(r, 2)
    BY <1>4
  <2> QED
    BY <2>1
<1>6. IsDelivery(e) <=> m.tag = "delivery"
  BY <1>4 DEF IsDelivery
<1>7. CASE m.tag # "delivery"
  <2>1. Data(e) = Before(r, 1)
    BY <1>5, <1>6, <1>7, BeforePiece DEF Data
  <2> QED
    BY <1>2, <1>3, <1>4, <1>7, <2>1 DEF Arrival, Rest
<1>8. CASE m.tag = "delivery"
  <2>1. Pieces(r) >= 3
    BY <1>3, <1>4, <1>6, <1>8 DEF Faulty, Invalid
  <2>2. Data(e) = Before(r, 3)
    BY <1>4, <1>5, <1>6, <1>8, <2>1, BeforeThree DEF Data
  <2> QED
    BY <1>2, <1>3, <1>4, <1>8, <2>2 DEF Arrival, Rest
<1> QED
  BY <1>7, <1>8

-----------------------------------------------------------------------------
(* What was given to write.                                                  *)

Whole == Stream(posted, Len(posted))

\* The writer stopped with a part of its last message written.
Truncated ==
  /\ ~open /\ posted # <<>>
  /\ \E p, q \in Texts : /\ q # <<>>
                         /\ Encode(posted[Len(posted)]) = p \o q
                         /\ written = Stream(posted, Len(posted) - 1) \o p

\* Of the last message the end is still to be written, if anything is.
OutEnds == \/ out = <<>>
           \/ posted # <<>> /\ \E p \in Texts : Encode(posted[Len(posted)]) = p \o out

WrittenInv == /\ OutEnds /\ (~open => out = <<>>)
              /\ written = Whole \/ Truncated

LEMMA CutShortIs == IInv => (CutShort <=> written # Whole)
<1> SUFFICES ASSUME IInv
             PROVE  CutShort <=> written # Whole
  OBVIOUS
<1>1. DOMAIN posted = 1..Len(posted)
  BY DEF IInv, CharsOK
<1> QED
  BY <1>1 DEF CutShort, Whole, Stream

LEMMA PostedStream ==
  ASSUME NEW p \in Seq(Outbox)
  PROVE  /\ Len(p) \in Nat
         /\ Stream(p, 0) = <<>>
         /\ \A k \in 0..Len(p) : Stream(p, k) \in Texts
         /\ \A k \in 0..Len(p) - 1 : Stream(p, k + 1) = Stream(p, k) \o Encode(p[k + 1])
         /\ \A l \in 0..Len(p) : \A k \in 0..l :
               \E t \in Texts : Stream(p, l) = Stream(p, k) \o t
<1>1. \A m \in Outbox : Encode(m) \in Texts
  BY EncodeType
<1>2. Len(p) \in Nat
  OBVIOUS
<1>3. \A l \in 0..Len(p) : \A k \in 0..l : \E t \in Texts : Stream(p, l) = Stream(p, k) \o t
  BY <1>1, StreamFrom
<1> QED
  BY <1>1, <1>2, <1>3, StreamNext

LEMMA InitWritten == Init => WrittenInv
<1> SUFFICES ASSUME Init
             PROVE  WrittenInv
  OBVIOUS
<1>1. posted = <<>> /\ posted \in Seq(Outbox) /\ Len(posted) = 0
  BY DEF Init
<1>2. Whole = <<>>
  BY <1>1, PostedStream DEF Whole
<1> QED
  BY <1>2 DEF Init, WrittenInv, OutEnds

LEMMA NextWritten == IInv /\ WrittenInv /\ [Next]_vars => WrittenInv'
<1> SUFFICES ASSUME IInv, WrittenInv, [Next]_vars
             PROVE  WrittenInv'
  OBVIOUS
<1>a. posted \in Seq(Outbox) /\ out \in Texts /\ written \in Texts
  BY DEF IInv, CharsOK
<1>b. PICK l \in Nat : l = Len(posted)
  BY <1>a
<1>1. ASSUME NEW m \in Outbox, Send(m)
      PROVE  WrittenInv'
  <2>1. PICK e \in Texts : e = Encode(m)
    BY EncodeType
  <2>2. PICK q \in Seq(Outbox) : q = posted'
    <3>1. posted' = Append(posted, m)
      BY <1>1 DEF Send
    <3>2. Append(posted, m) \in Seq(Outbox)
      BY <1>a
    <3> QED
      BY <3>1, <3>2
  <2>3. q = Append(posted, m) /\ Len(q) = l + 1 /\ q[l + 1] = m
    BY <1>1, <1>a, <1>b, <2>2 DEF Send
  <2>4. Stream(q, l + 1) = Stream(q, l) \o e
    <3>1. l \in 0..Len(q) - 1
      BY <2>3
    <3> QED
      BY <2>1, <2>3, <3>1, PostedStream
  <2>5. Stream(q, l) = Stream(posted, l)
    <3>1. l \in 0..Len(posted)
      BY <1>b
    <3> QED
      BY <1>a, <2>3, <3>1, StreamAppend
  <2>6. written = Stream(posted, l)
    BY <1>1, <1>b DEF WrittenInv, Truncated, Send, Whole
  <2>7. written' = written \o e /\ out' = e /\ open'
    BY <1>1, <2>1 DEF Send
  <2>8. (written = Whole)'
    BY <2>2, <2>3, <2>4, <2>5, <2>6, <2>7 DEF Whole
  <2>9. OutEnds'
    <3>1. <<>> \in Texts /\ e = <<>> \o e
      BY ConcatEmptySeq DEF Texts
    <3>2. posted' # <<>> /\ Encode(q[Len(q)]) = e
      BY <2>1, <2>2, <2>3
    <3> QED
      BY <2>2, <2>7, <3>1, <3>2 DEF OutEnds
  <2> QED
    BY <2>7, <2>8, <2>9 DEF WrittenInv
<1>2. CASE Stop
  <2>1. open /\ ~open' /\ out' = <<>> /\ posted' = posted
        /\ written' = SubSeq(written, 1, Len(written) - Len(out)) /\ written = Whole
    BY <1>2 DEF Stop, WrittenInv, Truncated
  <2>2. CASE out = <<>>
    <3>1. written' = written
      <4>1. Len(out) = 0 /\ Len(written) \in Nat
        BY <1>a, <2>2 DEF Texts
      <4>2. Len(written) - Len(out) = Len(written)
        BY <4>1
      <4>3. SubSeq(written, 1, Len(written)) = written
        BY <1>a DEF Texts
      <4> QED
        BY <2>1, <4>2, <4>3
    <3>2. (written = Whole)'
      BY <2>1, <3>1 DEF Whole
    <3> QED
      BY <2>1, <3>2 DEF WrittenInv, OutEnds
  <2>3. CASE out # <<>>
    <3>1. PICK p \in Texts : posted # <<>> /\ Encode(posted[l]) = p \o out
      BY <1>b, <2>3 DEF WrittenInv, OutEnds
    <3>2. l - 1 \in 0..l - 1 /\ l - 1 + 1 = l
      BY <1>a, <1>b, <3>1, EmptySeq
    <3>3. PICK c \in Texts : c = Stream(posted, l - 1)
      BY <1>a, <1>b, <3>2, PostedStream
    <3>4. written = c \o (p \o out)
      <4>1. l - 1 \in 0..Len(posted) - 1
        BY <1>b, <3>2
      <4>2. Stream(posted, l - 1 + 1) = Stream(posted, l - 1) \o Encode(posted[l - 1 + 1])
        BY <1>a, <4>1, PostedStream
      <4>3. Stream(posted, l) = c \o Encode(posted[l])
        BY <3>2, <3>3, <4>2
      <4> QED
        BY <1>b, <2>1, <3>1, <4>3 DEF Whole
    <3>5. c \o (p \o out) = (c \o p) \o out
      BY <1>a, Regroup, Zenon
    <3>6. PICK d \in Texts : d = c \o p
      BY Joined
    <3>7. written = d \o out
      BY <3>4, <3>5, <3>6
    <3>8. written' = d
      BY <1>a, <2>1, <3>7, WithoutEnd
    <3>9. Truncated'
      <4>1. /\ ~open' /\ posted' # <<>> /\ out # <<>> /\ out \in Texts
            /\ Encode(posted'[Len(posted')]) = p \o out
            /\ written' = Stream(posted', Len(posted') - 1) \o p
        BY <1>a, <1>b, <2>1, <2>3, <3>1, <3>3, <3>6, <3>8
      <4> QED
        BY <4>1 DEF Truncated
    <3> QED
      BY <2>1, <3>9 DEF WrittenInv, OutEnds
  <2> QED
    BY <2>2, <2>3
<1>3. ASSUME NEW n \in 1..Len(out), Write(n)
      PROVE  WrittenInv'
  <2>1. /\ out' = SubSeq(out, n + 1, Len(out)) /\ open /\ open' = open
        /\ posted' = posted /\ written' = written
    BY <1>3 DEF Write
  <2>2. PICK a \in Texts : a = SubSeq(out, 1, n)
    BY <1>a, CutInTwo
  <2>3. out' \in Texts /\ out = a \o out'
    BY <1>a, <2>1, <2>2, CutInTwo
  <2>4. PICK b \in Texts : b = out'
    BY <2>3
  <2>5. out # <<>>
    BY <1>a DEF Texts
  <2>6. PICK p \in Texts : posted # <<>> /\ Encode(posted[l]) = p \o out
    BY <1>b, <2>5 DEF WrittenInv, OutEnds
  <2>7. p \o (a \o b) = (p \o a) \o b
    BY ConcatAssociative DEF Texts
  <2>8. p \o a \in Texts
    BY Joined
  <2>9. Encode(posted[l]) = (p \o a) \o b
    BY <2>3, <2>4, <2>6, <2>7
  <2>10. OutEnds'
    BY <1>b, <2>1, <2>4, <2>6, <2>8, <2>9 DEF OutEnds
  <2>11. (written = Whole)'
    BY <2>1 DEF WrittenInv, Truncated, Whole
  <2> QED
    BY <2>1, <2>10, <2>11 DEF WrittenInv
<1>4. CASE UNCHANGED writer
  BY <1>4 DEF writer, WrittenInv, OutEnds, Whole, Truncated
<1> QED
  BY <1>1, <1>2, <1>3, <1>4 DEF Next, Reads, Writes, Refills, SendRefused, CallReceive, Refill, Copy,
     Receive, EndOfInput, ReadFails, vars, writer

-----------------------------------------------------------------------------
(* What was received is what was sent.                                       *)

Short == \A i \in DOMAIN posted : Len(Encode(posted[i])) <= MaxLen - 1

\* The reader has taken all there is, and the writer had not finished.
Done == ~open /\ line = <<>> /\ taken = written /\ CutShort

ReceivedInv ==
  /\ status # "failed" \/ CutShort
  /\ Len(received) <= Len(posted)
  /\ \A i \in DOMAIN received : received[i] = Arrival(posted[i]) \/ (CutShort /\ i = Len(posted))
  /\ status \in {"idle", "reading"} => taken = Stream(posted, Len(received)) \/ Done

\* No message has a newline in its data.
OneLiners == \A m \in Outbox : m.data \in Seq(Chars \ {Newline})

LEMMA IsOneLine ==
  ASSUME OneLiners, NEW m \in Outbox, Len(Encode(m)) <= MaxLen - 1
  PROVE  OneLine(m)
<1>1. m.tag \in Words
  BY OutboxAssumption DEF Messages
<1>2. Body(m) \in Seq(Chars \ {Newline})
  <2>1. "bye" \in Chars \ {Newline}
    BY WordsAssumption DEF Chars, Newline
  <2>2. <<"bye">> \in Seq(Chars \ {Newline})
    BY <2>1
  <2> QED
    BY <2>2 DEF Body, OneLiners
<1> QED
  BY <1>1, <1>2 DEF OneLine

\* When the writer stopped within a message, the whole of it was not written.
LEMMA TruncatedCut ==
  ASSUME IInv, Truncated
  PROVE  CutShort
<1>1. posted \in Seq(Outbox)
  BY DEF IInv, CharsOK
<1>2. PICK l \in Nat : l = Len(posted)
  BY <1>1
<1>3. PICK p \in Texts, q \in Texts : /\ q # <<>> /\ Encode(posted[l]) = p \o q
                                      /\ written = Stream(posted, l - 1) \o p
  BY <1>2 DEF Truncated
<1>4. l - 1 \in 0..Len(posted) - 1 /\ l - 1 + 1 = l
  BY <1>1, <1>2, EmptySeq DEF Truncated
<1>5. PICK c \in Texts : c = Stream(posted, l - 1)
  BY <1>1, <1>2, <1>4, PostedStream
<1>6. Stream(posted, l) = c \o (p \o q)
  <2>1. Stream(posted, l - 1 + 1) = Stream(posted, l - 1) \o Encode(posted[l - 1 + 1])
    BY <1>1, <1>4, PostedStream
  <2> QED
    BY <1>3, <1>4, <1>5, <2>1
<1>7. Len(c \o p) # Len(c \o (p \o q))
  <2>1. Len(q) # 0
    BY <1>3, EmptySeq DEF Texts
  <2>2. PICK d \in Texts : d = p \o q /\ Len(d) = Len(p) + Len(q)
    BY BeginsWith
  <2>3. Len(c \o p) = Len(c) + Len(p) /\ Len(c \o d) = Len(c) + Len(d)
    BY BeginsWith
  <2>4. Len(c) \in Nat /\ Len(p) \in Nat /\ Len(q) \in Nat
    BY DEF Texts
  <2> QED
    BY <2>1, <2>2, <2>3, <2>4
<1>8. written # Whole
  BY <1>2, <1>3, <1>5, <1>6, <1>7 DEF Whole
<1> QED
  BY <1>8, CutShortIs

\* What is behind the line.
Behind == rio_buf \o stream \o out

LEMMA TakenAndBehind ==
  ASSUME IInv
  PROVE  /\ Behind \in Texts /\ line \in Texts /\ taken \in Texts /\ written \in Texts
         /\ taken \o (line \o Behind) = written
         /\ rio_buf = <<>> /\ stream = <<>> /\ out = <<>> => Behind = <<>>
<1>1. /\ taken \in Texts /\ line \in Texts /\ rio_buf \in Texts /\ stream \in Texts
      /\ out \in Texts /\ written \in Texts
  BY DEF IInv, CharsOK
<1>2. Joins(taken, Joins(line, Joins(Joins(rio_buf, stream), out)))
        = Joins(Joins(Joins(Joins(taken, line), rio_buf), stream), out)
  <2> DEFINE first == Joins(taken, line)
             last == Joins(rio_buf, stream)
  <2>1. first \in Texts /\ last \in Texts /\ Joins(last, out) \in Texts
    BY <1>1, JoinsAre
  <2>2. Joins(Joins(first, rio_buf), stream) = Joins(first, last)
    BY <1>1, <2>1, JoinsAre
  <2>3. Joins(Joins(first, last), out) = Joins(first, Joins(last, out))
    BY <1>1, <2>1, JoinsAre
  <2>4. Joins(first, Joins(last, out)) = Joins(taken, Joins(line, Joins(last, out)))
    BY <1>1, <2>1, JoinsAre
  <2> QED
    BY <2>2, <2>3, <2>4
<1>3. taken \o (line \o Behind) = written
  <2>1. taken \o (line \o ((rio_buf \o stream) \o out)) = taken \o line \o rio_buf \o stream \o out
    BY <1>2 DEF Joins
  <2> QED
    BY <2>1 DEF IInv, NothingLostOnWire, Behind
<1>4. Behind \in Texts
  BY <1>1, Joined DEF Behind
<1>5. rio_buf = <<>> /\ stream = <<>> /\ out = <<>> => Behind = <<>>
  BY DEF Behind
<1> QED
  BY <1>1, <1>3, <1>4, <1>5

LEMMA DoneIsEmpty ==
  ASSUME IInv, Done
  PROVE  rio_buf = <<>>
<1>1. PICK b \in Texts : b = Behind
  BY TakenAndBehind
<1>2. PICK t \in Texts : t = taken
  BY TakenAndBehind
<1>3. <<>> \in Texts /\ <<>> \o b = b /\ t \o <<>> = t
  BY ConcatEmptySeq DEF Texts
<1>4. t \o b = t \o <<>>
  BY <1>1, <1>2, <1>3, TakenAndBehind DEF Done
<1>5. b = <<>>
  BY <1>3, <1>4, Cancel
<1>6. /\ rio_buf \in Texts /\ stream \in Texts /\ out \in Texts
  BY DEF IInv, CharsOK
<1>7. Len(rio_buf) = 0
  <2>1. PICK c \in Texts : c = rio_buf \o stream /\ Len(c) = Len(rio_buf) + Len(stream)
    BY <1>6, BeginsWith
  <2>2. Len(b) = Len(c) + Len(out) /\ Len(b) = 0
    BY <1>1, <1>5, <1>6, <2>1, BeginsWith DEF Behind
  <2>3. Len(rio_buf) \in Nat /\ Len(stream) \in Nat /\ Len(out) \in Nat
    BY <1>6 DEF Texts
  <2> QED
    BY <2>1, <2>2, <2>3
<1> QED
  BY <1>6, <1>7, EmptySeq DEF Texts

\* Behind the first k messages comes the next, as long as there is one.
LEMMA PostedNext ==
  ASSUME NEW p \in Seq(Outbox), NEW l \in 1..Len(p), NEW k \in 0..l - 1,
         NEW t \in Texts, NEW x \in Texts, Joins(Stream(p, k), x) = Joins(Stream(p, l), t)
  PROVE  \E u \in Texts : x = Joins(Encode(p[k + 1]), u)
<1>1. PICK c \in Texts : c = Stream(p, k)
  <2>1. k \in 0..Len(p)
    OBVIOUS
  <2> QED
    BY <2>1, PostedStream
<1>2. PICK e \in Texts : e = Encode(p[k + 1])
  <2>1. p[k + 1] \in Outbox
    OBVIOUS
  <2> QED
    BY <2>1, EncodeType
<1>3. Stream(p, k + 1) = Joins(c, e)
  <2>1. k \in 0..Len(p) - 1
    OBVIOUS
  <2> QED
    BY <1>1, <1>2, <2>1, PostedStream DEF Joins
<1>4. PICK v \in Texts : Stream(p, l) = Joins(Joins(c, e), v)
  <2>1. PICK j : j = k + 1
    OBVIOUS
  <2>2. l \in 0..Len(p) /\ j \in 0..l
    BY <2>1
  <2>3. \E v \in Texts : Stream(p, l) = Joins(Stream(p, j), v)
    BY <2>2, PostedStream DEF Joins
  <2> QED
    BY <1>3, <2>1, <2>3
<1>5. Joins(c, x) = Joins(Joins(Joins(c, e), v), t)
  BY <1>1, <1>4
<1>6. \E u \in Texts : x = Joins(e, u)
  BY <1>5, NextOf
<1> QED
  BY <1>2, <1>6

\* A line that ends while all was whole is the next message.
LEMMA TakesWhole ==
  ASSUME OneLiners, IInv, Short, NEW p, p = posted, NEW l \in 1..Len(p), NEW k \in 0..l - 1,
         NEW t \in Texts, taken = Stream(p, k), written = Joins(Stream(p, l), t),
         Unended(line), Ends(line) \/ Behind = <<>>
  PROVE  line = Encode(p[k + 1])
<1>1. p \in Seq(Outbox)
  BY DEF IInv, CharsOK
<1>2. line \in Texts /\ Behind \in Texts
  BY TakenAndBehind
<1>3. PICK x \in Texts : x = Joins(line, Behind)
  BY <1>2, JoinsAre
<1>4. Joins(Stream(p, k), x) = Joins(Stream(p, l), t)
  <2>1. Joins(taken, Joins(line, Behind)) = written
    BY TakenAndBehind DEF Joins
  <2> QED
    BY <1>3, <2>1
<1>5. PICK u \in Texts : x = Joins(Encode(p[k + 1]), u)
  BY <1>1, <1>4, PostedNext
<1>6. OneLine(p[k + 1])
  <2>1. k + 1 \in DOMAIN p /\ p[k + 1] \in Outbox
    BY <1>1
  <2> QED
    BY <2>1, IsOneLine DEF Short
<1>7. line \o Behind = Encode(p[k + 1]) \o u
  BY <1>3, <1>5 DEF Joins
<1> QED
  BY <1>2, <1>6, <1>7, LineIs

LEMMA BodyType ==
  ASSUME NEW m \in Outbox
  PROVE  m.tag \in Words /\ Body(m) \in Texts
<1>1. m.tag \in Words /\ m.data \in Texts
  BY OutboxAssumption DEF Messages
<1>2. <<"bye">> \in Texts
  BY WordsAssumption DEF Texts, Chars
<1> QED
  BY <1>1, <1>2 DEF Body

\* Of what the writer did not finish the reader makes a line only at the end.
LEMMA TakesRest ==
  ASSUME OneLiners, IInv, Short, NEW n, n = Len(posted), posted # <<>>,
         NEW p \in Texts, NEW q \in Texts, q # <<>>, Encode(posted[n]) = p \o q,
         written = Stream(posted, n - 1) \o p, taken = Stream(posted, n - 1)
  PROVE  ~Ends(line) /\ (Behind = <<>> => taken \o line = written)
<1>1. posted \in Seq(Outbox)
  BY DEF IInv, CharsOK
<1>2. n \in 1..Len(posted) /\ posted[n] \in Outbox
  BY <1>1, EmptySeq
<1>3. PICK x \in Texts : x = line \o Behind
  BY TakenAndBehind, Joined
<1>4. PICK c \in Texts : c = taken
  BY TakenAndBehind
<1>5. c \o x = c \o p
  BY <1>3, <1>4, TakenAndBehind
<1>6. x = p
  BY <1>5, Cancel
<1>7. OneLine(posted[n])
  <2>1. n \in DOMAIN posted
    BY <1>1, <1>2
  <2> QED
    BY <1>2, <2>1, IsOneLine DEF Short
<1>8. ~Ends(line)
  <2>1. line \in Texts /\ Behind \in Texts
    BY TakenAndBehind
  <2>2. Encode(posted[n]) = (line \o Behind) \o q
    BY <1>3, <1>6
  <2> QED
    BY <1>7, <2>1, <2>2, NoLineYet
<1>9. Behind = <<>> => taken \o line = written
  <2>1. line \o <<>> = line
    BY TakenAndBehind, ConcatEmptySeq DEF Texts
  <2> QED
    BY <2>1, TakenAndBehind
<1> QED
  BY <1>8, <1>9

LEMMA ReceivedType ==
  ASSUME ReceivedOK
  PROVE  /\ Len(received) \in Nat /\ DOMAIN received = 1..Len(received)
         /\ \A r : /\ Len(Append(received, r)) = Len(received) + 1
                  /\ DOMAIN Append(received, r) = 1..Len(received) + 1
                  /\ Append(received, r)[Len(received) + 1] = r
                  /\ \A i \in 1..Len(received) : Append(received, r)[i] = received[i]
<1>1. Len(received) \in Nat /\ DOMAIN received = 1..Len(received)
  BY DEF ReceivedOK
<1>2. ASSUME NEW r
      PROVE  /\ Len(Append(received, r)) = Len(received) + 1
             /\ DOMAIN Append(received, r) = 1..Len(received) + 1
             /\ Append(received, r)[Len(received) + 1] = r
             /\ \A i \in 1..Len(received) : Append(received, r)[i] = received[i]
  <2>1. PICK D : D = [tag : Texts, data : Texts] \cup {r}
    OBVIOUS
  <2>2. received \in Seq(D) /\ r \in D
    <3>1. PICK M : M = [tag : Texts, data : Texts]
      OBVIOUS
    <3>2. received \in Seq(M) /\ D = M \cup {r}
      BY <2>1, <3>1 DEF ReceivedOK
    <3> QED
      BY <3>2
  <2> QED
    BY <2>2, AppendProperties
<1> QED
  BY <1>1, <1>2

\* The reader takes a line.
LEMMA ReceiveReceived ==
  ASSUME OneLiners, IInv, Ongoing, WrittenInv, ReceivedOK, Short, ReceivedInv, Receive
  PROVE  ReceivedInv'
<1>1. /\ posted' = posted /\ written' = written /\ open' = open
      /\ line' = <<>> /\ taken' = taken \o line /\ status = "reading" /\ Unended(line)
      /\ Ends(line) \/ (AtEnd /\ line # <<>>)
  BY DEF Receive, writer, LineDone, Ongoing
<1>2. CutShort' <=> CutShort
  BY <1>1 DEF CutShort
<1>3. posted \in Seq(Outbox) /\ Len(posted) \in Nat /\ DOMAIN posted = 1..Len(posted)
  BY DEF IInv, CharsOK
<1>4. Ends(line) \/ (~open /\ Behind = <<>>)
  <2>1. AtEnd => ~open /\ rio_buf = <<>> /\ stream = <<>> /\ out = <<>>
    BY DEF AtEnd, WrittenInv
  <2> QED
    BY <1>1, <2>1, TakenAndBehind
<1>5. ~Done
  <2>1. ~Ends(<<>>)
    BY LengthAssumption DEF Ends
  <2> QED
    BY <1>1, <2>1 DEF Done
<1>6. PICK l \in Nat : l = Len(posted)
  BY <1>3
<1>7. PICK k \in 0..l : k = Len(received) /\ DOMAIN received = 1..k
  <2>1. PICK k \in Nat : k = Len(received) /\ DOMAIN received = 1..k
    BY ReceivedType
  <2>2. k <= l
    BY <1>6, <2>1 DEF ReceivedInv
  <2> QED
    BY <2>1, <2>2
<1>8. taken = Stream(posted, k)
  BY <1>1, <1>5, <1>7 DEF ReceivedInv
<1>9. ASSUME NEW t \in Texts, NEW n \in 1..l, k < n, written = Joins(Stream(posted, n), t)
      PROVE  ReceivedInv'
  <2>1. k \in 0..n - 1 /\ n \in 1..Len(posted)
    BY <1>6, <1>9
  <2>2. line = Encode(posted[k + 1])
    <3>1. PICK p : p = posted
      OBVIOUS
    <3>2. n \in 1..Len(p) /\ taken = Stream(p, k) /\ written = Joins(Stream(p, n), t)
      BY <1>8, <1>9, <2>1, <3>1
    <3>3. Ends(line) \/ Behind = <<>>
      BY <1>4
    <3>4. line = Encode(p[k + 1])
      BY <1>1, <2>1, <3>1, <3>2, <3>3, TakesWhole
    <3> QED
      BY <3>1, <3>4
  <2>3. k + 1 \in 1..l /\ posted[k + 1] \in Outbox
    BY <1>3, <1>6, <2>1
  <2>4. ~Invalid(line)
    <3>1. posted[k + 1].tag \in Words /\ Body(posted[k + 1]) \in Texts
      BY <2>3, BodyType
    <3> QED
      BY <2>2, <3>1, EncodedPieces
  <2>5. taken' = Stream(posted', k + 1)
    <3>1. k \in 0..Len(posted) - 1
      BY <1>6, <2>1
    <3> QED
      BY <1>1, <1>3, <1>8, <2>2, <3>1, PostedStream
  <2>6. CASE Faulty(line)
    <3>1. received' = received /\ status' = "faulted"
      BY <2>4, <2>6 DEF Receive
    <3> QED
      BY <1>1, <1>2, <3>1 DEF ReceivedInv
  <2>7. CASE ~Faulty(line)
    <3>1. status' = "idle" /\ received' = Append(received, Arrival(posted[k + 1]))
      BY <2>2, <2>3, <2>4, <2>7, ArrivalIs DEF Receive
    <3>2. /\ Len(received') = k + 1 /\ DOMAIN received' = 1..k + 1
          /\ received'[k + 1] = Arrival(posted[k + 1])
          /\ \A i \in 1..k : received'[i] = received[i]
      BY <1>7, <3>1, ReceivedType
    <3>3. \A i \in DOMAIN received' :
             received'[i] = Arrival(posted'[i]) \/ (CutShort' /\ i = Len(posted'))
      <4> TAKE i \in DOMAIN received'
      <4>1. CASE i = k + 1
        BY <1>1, <3>2, <4>1
      <4>2. CASE i # k + 1
        <5>1. i \in 1..k
          BY <3>2, <4>2
        <5> QED
          BY <1>1, <1>2, <1>7, <3>2, <5>1 DEF ReceivedInv
      <4> QED
        BY <4>1, <4>2
    <3> QED
      BY <1>1, <1>6, <2>3, <2>5, <3>1, <3>2, <3>3 DEF ReceivedInv
  <2> QED
    BY <2>6, <2>7
<1>10. CASE written = Whole
  <2>1. k # l
    <3> SUFFICES ASSUME k = l
                 PROVE  FALSE
      OBVIOUS
    <3>1. PICK x \in Texts : x = Joins(line, Behind)
      BY TakenAndBehind, JoinsAre
    <3>2. PICK c \in Texts : c = taken
      BY TakenAndBehind
    <3>3. Joins(c, x) = Joins(c, <<>>)
      <4>1. Joins(taken, Joins(line, Behind)) = written
        BY TakenAndBehind DEF Joins
      <4>2. written = c
        BY <1>6, <1>8, <1>10, <3>2 DEF Whole
      <4> QED
        BY <3>1, <3>2, <4>1, <4>2, JoinsAre
    <3>4. x = <<>>
      BY <3>3, JoinsAre
    <3>5. Len(line) + Len(Behind) = 0 /\ Len(line) \in Nat /\ Len(Behind) \in Nat
      <4>1. line \in Texts /\ Behind \in Texts
        BY TakenAndBehind
      <4>2. Len(line \o Behind) = Len(line) + Len(Behind)
        BY <4>1, BeginsWith
      <4>3. Len(line \o Behind) = 0
        BY <3>1, <3>4 DEF Joins
      <4> QED
        BY <4>1, <4>2, <4>3 DEF Texts
    <3>6. line = <<>>
      BY <3>5, TakenAndBehind, EmptySeq DEF Texts
    <3>7. ~Ends(<<>>)
      BY LengthAssumption DEF Ends
    <3> QED
      BY <1>1, <3>6, <3>7
  <2>2. l \in 1..l /\ k < l
    BY <2>1
  <2>3. written = Joins(Stream(posted, l), <<>>) /\ <<>> \in Texts
    <3>1. l \in 0..Len(posted)
      BY <1>6
    <3>2. Stream(posted, l) \in Texts
      BY <1>3, <3>1, PostedStream
    <3> QED
      BY <1>6, <1>10, <3>2, JoinsAre DEF Whole
  <2> QED
    BY <1>9, <2>2, <2>3
<1>11. CASE Truncated
  <2>1. PICK p \in Texts, q \in Texts : /\ q # <<>> /\ Encode(posted[l]) = p \o q
                                        /\ written = Stream(posted, l - 1) \o p
    BY <1>6, <1>11 DEF Truncated
  <2>2. posted # <<>> /\ ~open /\ l \in 1..l
    BY <1>3, <1>6, <1>11, EmptySeq DEF Truncated
  <2>3. CASE k < l - 1
    <3>1. l - 1 \in 1..l
      BY <2>3
    <3>2. written = Joins(Stream(posted, l - 1), p)
      BY <2>1 DEF Joins
    <3> QED
      BY <1>9, <2>3, <3>1, <3>2
  <2>4. k # l
    <3> SUFFICES ASSUME k = l
                 PROVE  FALSE
      OBVIOUS
    <3>1. PICK c \in Texts : c = Stream(posted, l - 1)
      <4>1. l - 1 \in 0..Len(posted)
        BY <1>6, <2>2
      <4> QED
        BY <1>3, <4>1, PostedStream
    <3>2. PICK e \in Texts : e = Encode(posted[l])
      BY <1>3, <1>6, <2>2, EncodeType
    <3>3. taken = Joins(c, e)
      <4>1. l - 1 \in 0..Len(posted) - 1 /\ l - 1 + 1 = l
        BY <1>6, <2>2
      <4>2. Stream(posted, l - 1 + 1) = Stream(posted, l - 1) \o Encode(posted[l - 1 + 1])
        BY <1>3, <4>1, PostedStream
      <4> QED
        BY <1>8, <3>1, <3>2, <4>1, <4>2 DEF Joins
    <3>4. PICK x \in Texts : x = Joins(line, Behind)
      BY TakenAndBehind, JoinsAre
    <3>5. Joins(Joins(c, e), x) = Joins(c, p)
      <4>1. Joins(taken, Joins(line, Behind)) = written
        BY TakenAndBehind DEF Joins
      <4>2. written = Joins(c, p)
        BY <2>1, <3>1 DEF Joins
      <4> QED
        BY <3>3, <3>4, <4>1, <4>2
    <3>6. Joins(e, x) \in Texts /\ Joins(c, Joins(e, x)) = Joins(c, p)
      BY <3>5, JoinsAre
    <3>7. Joins(e, x) = p
      BY <3>6, JoinsAre
    <3>8. e = Joins(p, q)
      BY <2>1, <3>2 DEF Joins
    <3>9. Len(p) = Len(e) + Len(x) /\ Len(e) = Len(p) + Len(q)
      <4>1. Len(Joins(e, x)) = Len(e) + Len(x) /\ Len(Joins(p, q)) = Len(p) + Len(q)
        BY BeginsWith DEF Joins
      <4> QED
        BY <3>7, <3>8, <4>1
    <3>10. Len(q) # 0 /\ Len(q) \in Nat /\ Len(x) \in Nat /\ Len(e) \in Nat /\ Len(p) \in Nat
      BY <2>1, EmptySeq DEF Texts
    <3> QED
      BY <3>9, <3>10
  <2>5. CASE k = l - 1
    <3>1. ~Ends(line) /\ (Behind = <<>> => taken \o line = written)
      <4>1. taken = Stream(posted, l - 1)
        BY <1>8, <2>5
      <4> QED
        BY <1>6, <2>1, <2>2, <4>1, TakesRest
    <3>2. taken' = written' /\ line' = <<>> /\ ~open'
      BY <1>1, <1>4, <2>2, <3>1
    <3>3. CutShort
      BY <1>11, TruncatedCut
    <3>4. Done'
      BY <1>2, <3>2, <3>3 DEF Done
    <3>5. /\ Len(received') <= l
          /\ \A i \in DOMAIN received' : i # l => i \in DOMAIN received /\ received'[i] = received[i]
      <4>1. CASE received' = received
        BY <1>7, <4>1
      <4>2. CASE received' # received
        <5>1. PICK r : received' = Append(received, r)
          BY <4>2 DEF Receive
        <5>2. /\ Len(received') = k + 1 /\ DOMAIN received' = 1..k + 1
              /\ \A i \in 1..k : received'[i] = received[i]
          BY <1>7, <5>1, ReceivedType
        <5> QED
          BY <1>7, <2>5, <5>2
      <4> QED
        BY <4>1, <4>2
    <3>6. \A i \in DOMAIN received' :
             received'[i] = Arrival(posted'[i]) \/ (CutShort' /\ i = Len(posted'))
      BY <1>1, <1>2, <1>6, <3>3, <3>5 DEF ReceivedInv
    <3> QED
      BY <1>1, <1>2, <1>6, <3>3, <3>4, <3>5, <3>6 DEF ReceivedInv
  <2>6. k < l - 1 \/ k = l - 1
    BY <2>4
  <2> QED
    BY <2>3, <2>5, <2>6
<1> QED
  BY <1>10, <1>11 DEF WrittenInv

ArrivedInv == Short => ReceivedInv

LEMMA NextArrived ==
  ASSUME OneLiners, IInv, Ongoing, WrittenInv, ReceivedOK, ArrivedInv, [Next]_vars
  PROVE  ArrivedInv'
<1>a. posted \in Seq(Outbox) /\ Len(posted) \in Nat /\ DOMAIN posted = 1..Len(posted)
  BY DEF IInv, CharsOK
<1>1. ASSUME NEW m \in Outbox, Send(m), Short'
      PROVE  ReceivedInv'
  <2>1. /\ open /\ open' /\ posted' = Append(posted, m) /\ written' = written \o Encode(m)
        /\ UNCHANGED <<status, line, taken, received>>
    BY <1>1 DEF Send, reader
  <2>2. PICK l \in Nat : l = Len(posted)
    BY <1>a
  <2>3. /\ Len(posted') = l + 1 /\ DOMAIN posted' = 1..l + 1 /\ posted' \in Seq(Outbox)
        /\ \A i \in 1..l : posted'[i] = posted[i]
    BY <1>1, <1>a, <2>1, <2>2, AppendProperties
  <2>4. Short
    BY <1>1, <1>a, <2>2, <2>3 DEF Short
  <2>5. ~CutShort
    BY <2>1, CutShortIs DEF WrittenInv, Truncated
  <2>6. ReceivedInv
    BY <2>4 DEF ArrivedInv
  <2>7. PICK k \in 0..l : k = Len(received) /\ DOMAIN received = 1..k
    <3>1. PICK k \in Nat : k = Len(received) /\ DOMAIN received = 1..k
      BY ReceivedType
    <3>2. k <= l
      BY <2>2, <2>6, <3>1 DEF ReceivedInv
    <3> QED
      BY <3>1, <3>2
  <2>8. \A i \in 1..k : received[i] = Arrival(posted'[i])
    <3> TAKE i \in 1..k
    <3>1. received[i] = Arrival(posted[i]) /\ posted'[i] = posted[i]
      BY <2>3, <2>5, <2>6, <2>7 DEF ReceivedInv
    <3> QED
      BY <3>1
  <2>9. Stream(posted', k) = Stream(posted, k)
    <3>1. k \in 0..Len(posted)
      BY <2>2
    <3> QED
      BY <1>a, <2>1, <3>1, StreamAppend
  <2>10. status # "failed" /\ (status \in {"idle", "reading"} => taken = Stream(posted, k))
    BY <2>1, <2>5, <2>6, <2>7 DEF ReceivedInv, Done
  <2> QED
    BY <2>1, <2>3, <2>7, <2>8, <2>9, <2>10 DEF ReceivedInv
<1>2. ASSUME Stop, Short'
      PROVE  ReceivedInv'
  <2>1. open /\ posted' = posted /\ UNCHANGED <<status, line, taken, received>>
    BY <1>2 DEF Stop, reader
  <2>2. Short
    BY <1>2, <2>1 DEF Short
  <2>3. ~CutShort
    BY <2>1, CutShortIs DEF WrittenInv, Truncated
  <2> QED
    BY <2>1, <2>2, <2>3 DEF ArrivedInv, ReceivedInv, Done
<1>3. ASSUME Receive, Short'
      PROVE  ReceivedInv'
  <2>1. Short
    BY <1>3 DEF Short, Receive, writer
  <2> QED
    BY <1>3, <2>1, ReceiveReceived DEF ArrivedInv
<1>4. ASSUME UNCHANGED <<open, posted, written, taken, received>>, Short',
             line' = line \/ rio_buf # <<>>,
             status' = status \/ status' \in {"ended", "faulted"} \/ (status = "idle" /\ status' = "reading")
      PROVE  ReceivedInv'
  <2>1. Short /\ (CutShort' <=> CutShort)
    BY <1>4 DEF Short, CutShort
  <2>2. Done => Done'
    BY <1>4, <2>1, DoneIsEmpty DEF Done
  <2> QED
    BY <1>4, <2>1, <2>2 DEF ArrivedInv, ReceivedInv
<1>5. CASE \/ \E m \in Outbox : SendRefused(m)
           \/ Writes \/ Refills \/ Copy \/ CallReceive \/ EndOfInput \/ ReadFails \/ UNCHANGED vars
  <2>1. /\ UNCHANGED <<open, posted, written, taken, received>>
        /\ line' = line \/ rio_buf # <<>>
        /\ status' = status \/ status' \in {"ended", "faulted"}
           \/ (status = "idle" /\ status' = "reading")
    BY <1>5 DEF SendRefused, Writes, Write, Refills, Refill, Copy, CallReceive, EndOfInput, ReadFails,
                vars, writer, reader
  <2> QED
    BY <1>4, <2>1 DEF ArrivedInv
<1> QED
  BY <1>1, <1>2, <1>3, <1>5 DEF Next, Reads, ArrivedInv

\* If no message holds a newline, and none is longer than the reader's limit, each
\* that is received is what was sent in its place, up to the colon where
\* receive stops, however the characters were cut into writes and reads; receive
\* fails, or takes another message for one, only at the end of a writer that
\* stopped within its last message.
THEOREM ShortArrive ==
  ASSUME OneLiners
  PROVE  Spec => []ShortMessagesArrive
<1>1. Init => Ongoing /\ WrittenInv /\ ArrivedInv
  <2> SUFFICES ASSUME Init
               PROVE  ArrivedInv
    BY InitOngoing, InitWritten
  <2>1. Stream(posted, 0) = <<>> /\ Len(posted) = 0 /\ Len(received) = 0 /\ DOMAIN received = {}
    <3>1. posted = <<>> /\ received = <<>>
      BY DEF Init
    <3>2. PICK e \in Seq(Outbox) : e = <<>> /\ Len(e) = 0 /\ DOMAIN e = {}
      <4>1. <<>> \in Seq(Outbox) /\ Len(<<>>) = 0
        OBVIOUS
      <4>2. DOMAIN <<>> = {}
        OBVIOUS
      <4> QED
        BY <4>1, <4>2
    <3>3. Stream(e, 0) = <<>>
      BY PostedStream
    <3> QED
      BY <3>1, <3>2, <3>3
  <2> QED
    BY <2>1 DEF Init, ArrivedInv, ReceivedInv
<1>2. IInv /\ ReceivedOK /\ Ongoing /\ WrittenInv /\ ArrivedInv /\ [Next]_vars
        => (Ongoing /\ WrittenInv /\ ArrivedInv)'
  BY NextOngoing, NextWritten, NextArrived
<1>3. ArrivedInv => ShortMessagesArrive
  BY DEF ArrivedInv, ReceivedInv, Short, ShortMessagesArrive, ArriveWithin
<1> QED
  BY <1>1, <1>2, <1>3, Inductive, ReceivedAlways, PTL DEF Spec
=============================================================================
