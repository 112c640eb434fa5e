--------------------------------- MODULE Wire ---------------------------------
(***************************************************************************)
(* One direction of a connection: Connection::send over rio_writen at one  *)
(* end, Connection::receive over rio_readlineb at the other.  Nothing in   *)
(* the bytes marks where a message begins but the newline of the last one. *)
(* A tag, and "bye", count as one character.                               *)
(***************************************************************************)
EXTENDS Lines

CONSTANTS
  Outbox,    \* the messages that the writer may send
  BufSize,   \* RIO_BUFSIZE
  MaxSends   \* bound on the messages sent

ASSUME LimitsAssumption == BufSize \in Nat \ {0} /\ MaxSends \in Nat
ASSUME OutboxAssumption == \A m \in Outbox : m \in Messages

VARIABLES
  open,         \* the writer's side has not been closed
  out,          \* what rio_writen has yet to write
  stream,       \* written, and not yet read
  rio_buf,      \* read into the rio_t, and not yet copied
  status,       \* what the reader is doing
  line,         \* what rio_readlineb has copied so far
  last_result,  \* m_last_result of the two Connections
  posted,       \* the messages that send has encoded
  written,      \* all the characters that were given to write
  taken,        \* all the characters of the lines that were received
  received      \* the messages that receive has returned

writer == <<open, out, posted, written>>
reader == <<rio_buf, status, line, taken, received>>
vars == <<writer, stream, reader, last_result>>

Init == /\ open = TRUE
        /\ out = <<>>
        /\ stream = <<>>
        /\ rio_buf = <<>>
        /\ status = "idle"
        /\ line = <<>>
        /\ last_result = [e \in {"writer", "reader"} |-> "SUCCESS"]
        /\ posted = <<>>
        /\ written = <<>>
        /\ taken = <<>>
        /\ received = <<>>

Result(end, r) == last_result' = [last_result EXCEPT ![end] = r]

-----------------------------------------------------------------------------
(* Connection::send and rio_writen *)

Send(m) == /\ open /\ out = <<>>
           /\ Len(posted) < MaxSends
           /\ MaySend(m)
           /\ out' = Encode(m)
           /\ written' = written \o Encode(m)
           /\ posted' = Append(posted, m)
           /\ Result("writer", "SUCCESS")
           /\ UNCHANGED <<open, stream, reader>>

SendRefused(m) == /\ open /\ out = <<>>
                  /\ ~MaySend(m)
                  /\ Result("writer", "INVALID_MSG")
                  /\ UNCHANGED <<writer, stream, reader>>

\* A write may take any part of what is left.
Write(n) == /\ open /\ n \in 1..Len(out)
            /\ stream' = stream \o SubSeq(out, 1, n)
            /\ out' = SubSeq(out, n + 1, Len(out))
            /\ UNCHANGED <<open, posted, written, reader, last_result>>

\* The writer closes, or its process ends, or a write fails: in the middle of a
\* message, perhaps.
Stop == /\ open
        /\ open' = FALSE
        /\ out' = <<>>
        /\ written' = SubSeq(written, 1, Len(written) - Len(out))
        /\ Result("writer", IF out = <<>> THEN last_result["writer"] ELSE "EOF_OR_ERROR")
        /\ UNCHANGED <<posted, stream, reader>>

-----------------------------------------------------------------------------
(* rio_readlineb *)

CallReceive == /\ status = "idle"
               /\ status' = "reading"
               /\ UNCHANGED <<writer, stream, rio_buf, line, taken, received, last_result>>

\* Mutant: no limit to a line.
AtNewline == line # <<>> /\ Last(line) = Newline

LineDone == Ends(line)

\* Mutants: a read into a buffer that still holds characters, behind them or
\* over them.
RefillBehind(n) == /\ status = "reading" /\ ~LineDone
                   /\ n \in 1..Len(stream) /\ n <= BufSize
                   /\ rio_buf' = rio_buf \o SubSeq(stream, 1, n)
                   /\ stream' = SubSeq(stream, n + 1, Len(stream))
                   /\ UNCHANGED <<writer, status, line, taken, received, last_result>>

RefillEarly(n) == /\ status = "reading" /\ ~LineDone
                  /\ n \in 1..Len(stream) /\ n <= BufSize
                  /\ rio_buf' = SubSeq(stream, 1, n)
                  /\ stream' = SubSeq(stream, n + 1, Len(stream))
                  /\ UNCHANGED <<writer, status, line, taken, received, last_result>>

\* rio_read refills an empty buffer with whatever one read gives.
Refill(n) == /\ status = "reading" /\ ~LineDone
             /\ rio_buf = <<>>
             /\ n \in 1..Len(stream) /\ n <= BufSize
             /\ rio_buf' = SubSeq(stream, 1, n)
             /\ stream' = SubSeq(stream, n + 1, Len(stream))
             /\ UNCHANGED <<writer, status, line, taken, received, last_result>>

Copy == /\ status = "reading" /\ ~LineDone
        /\ rio_buf # <<>>
        /\ line' = Append(line, Head(rio_buf))
        /\ rio_buf' = Tail(rio_buf)
        /\ UNCHANGED <<writer, stream, status, taken, received, last_result>>

\* read returns 0.
AtEnd == ~open /\ stream = <<>> /\ rio_buf = <<>>

-----------------------------------------------------------------------------
(* Connection::receive and divide_data *)

\* The end of a line, and what receive does with it.
Receive == /\ status = "reading"
           /\ LineDone \/ (AtEnd /\ line # <<>>)
           /\ taken' = taken \o line
           /\ line' = <<>>
           /\ \/ /\ Invalid(line)
                 /\ status' = "failed"
                 /\ Result("reader", "INVALID_MSG")
                 /\ UNCHANGED received
              \/ /\ ~Invalid(line) /\ ~Faulty(line)
                 /\ status' = "idle"
                 /\ received' = Append(received, [tag |-> Piece(line, 0), data |-> Data(line)])
                 /\ Result("reader", "SUCCESS")
              \/ /\ Faulty(line)
                 /\ status' = "faulted"
                 /\ UNCHANGED <<received, last_result>>
           /\ UNCHANGED <<writer, stream, rio_buf>>

\* Nothing was read: receive goes on with a buffer that nobody wrote to.
EndOfInput == /\ status = "reading" /\ AtEnd
              /\ line = <<>> /\ ~LineDone
              /\ \/ /\ status' = "ended"
                    /\ \E r \in {"SUCCESS", "INVALID_MSG"} : Result("reader", r)
                 \/ /\ status' = "faulted"
                    /\ UNCHANGED last_result
              /\ UNCHANGED <<writer, stream, rio_buf, line, taken, received>>

\* read fails: the writer's end was closed with characters unread, and what it had
\* sent is lost with the connection.
ReadFails == /\ status = "reading" /\ ~LineDone
             /\ rio_buf = <<>> /\ ~open
             /\ status' = "ended"
             /\ Result("reader", "EOF_OR_ERROR")
             /\ UNCHANGED <<writer, stream, rio_buf, line, taken, received>>

-----------------------------------------------------------------------------

Writes == \E n \in 1..Len(out) : Write(n)
Refills == \E n \in 1..Len(stream) : Refill(n)
Reads == CallReceive \/ Refills \/ Copy \/ Receive

Next == \/ \E m \in Outbox : Send(m) \/ SendRefused(m)
        \/ Stop \/ Writes \/ Reads \/ EndOfInput \/ ReadFails

Spec == Init /\ [][Next]_vars

\* Bytes that are written arrive, and the reader calls receive again after
\* every message.
FairSpec == Spec /\ WF_vars(Writes) /\ WF_vars(Reads)

-----------------------------------------------------------------------------
(* Properties *)

Results == {"SUCCESS", "EOF_OR_ERROR", "INVALID_MSG"}

CharsOK == /\ open \in BOOLEAN
           /\ {out, stream, rio_buf, line, written, taken} \subseteq Texts
           /\ Len(rio_buf) <= BufSize
           /\ status \in {"idle", "reading", "failed", "faulted", "ended"}
           /\ last_result \in [{"writer", "reader"} -> Results]
           /\ posted \in Seq(Outbox)

TypeOK == CharsOK /\ received \in Seq([tag : Texts, data : Texts])

\* However writes and reads cut the stream, no character is lost, doubled or
\* moved between rio_writen and the lines that receive takes.
NothingLostOnWire == taken \o line \o rio_buf \o stream \o out = written

\* The writer, the socket and the reader together: a message is sent, and a line
\* is taken, in one step.
Sent == INSTANCE Channel WITH content <- line \o rio_buf \o stream \o out, closed <- ~open
ImplementsChannel == Sent!Spec

\* A line and its terminating zero fit the buffer of receive (connection.cpp:88),
\* whatever the other side sends.
LineFitsBuffer == Len(line) + 1 <= MaxLen + 1

\* What should arrive of a message: the text up to the first colon in it, up to
\* the third in a delivery.
Before(s, k) == LET I == {i \in Colons(s) : Cardinality(Colons(SubSeq(s, 1, i))) = k}
                IN  IF I = {} THEN s ELSE SubSeq(s, 1, Min(I) - 1)
Arrival(m) == [tag |-> <<m.tag>>,
               data |-> Before(Body(m) \o <<Newline>>, IF m.tag = "delivery" THEN 3 ELSE 1)]

\* The writer stopped in the middle of a message.
CutShort == written # FlattenSeq([i \in DOMAIN posted |-> Encode(posted[i])])

\* As long as no encoded message is longer than n, each arrives as one message
\* and in order; only a last one that was cut short may be taken for another.
ArriveWithin(n) ==
  (\A i \in DOMAIN posted : Len(Encode(posted[i])) <= n) =>
     /\ status # "failed" \/ CutShort
     /\ Len(received) <= Len(posted)
     /\ \A i \in DOMAIN received :
           received[i] = Arrival(posted[i]) \/ (CutShort /\ i = Len(posted))

\* The limit the reader really has is one less than MAX_LEN.
ShortMessagesArrive == ArriveWithin(MaxLen - 1)

\* What was sent arrives, unless it was cut short or receive says that it failed.
SentArrives ==
  \A k \in 1..MaxSends :
     Len(posted) = k /\ (\A i \in 1..k : Len(Encode(posted[i])) <= MaxLen - 1)
        ~> Len(received) >= k \/ CutShort \/ last_result["reader"] = "EOF_OR_ERROR"

\* "An encoded message may have at most this many characters, including the
\* trailing newline" (message.h:9-10): up to that length it arrives.
FullMessagesArrive == ArriveWithin(MaxLen)
=============================================================================
