---------------------------- MODULE SessionProofs ----------------------------
(***************************************************************************)
(* Proofs about Session: what a client knows of what it asked for.         *)
(***************************************************************************)
EXTENDS Session, SequenceLemmas

-----------------------------------------------------------------------------
(* The elements of a sequence that are in a set.                             *)

\* The function that Keeps chooses exists.
LEMMA KeepsDef ==
  ASSUME NEW s, NEW S, Len(s) \in Nat
  PROVE  Keeps(s, S) = [n \in 0..Len(s) |-> IF n = 0 THEN <<>>
                                            ELSE IF s[n] \in S THEN Append(Keeps(s, S)[n - 1], s[n])
                                            ELSE Keeps(s, S)[n - 1]]
<1> DEFINE Element(h, i) == IF i = 0 THEN <<>>
                            ELSE IF s[i] \in S THEN Append(h[i - 1], s[i])
                            ELSE h[i - 1]
           Is(h, k) == h = [n \in 0..k |-> Element(h, n)]
           T == {k \in Nat : \E h : Is(h, k)}
<1>1. 0 \in T
  <2>1. Is([n \in 0..0 |-> <<>>], 0)
    OBVIOUS
  <2> QED
    BY <2>1
<1>2. ASSUME NEW m \in T
      PROVE  m + 1 \in T
  <2>1. PICK f : Is(f, m)
    OBVIOUS
  <2>2. m \in Nat
    OBVIOUS
  <2>3. PICK g : g = [n \in 0..m + 1 |-> IF n = m + 1 THEN Element(f, n) ELSE f[n]]
    OBVIOUS
  <2>4. ASSUME NEW n \in 0..m + 1
        PROVE  g[n] = Element(g, n)
    <3>1. CASE n = 0
      BY <2>1, <2>2, <2>3, <3>1
    <3>2. CASE n \in 1..m + 1
      <4>1. n - 1 \in 0..m /\ g[n - 1] = f[n - 1]
        BY <2>2, <2>3, <3>2
      <4>2. CASE n = m + 1
        BY <2>2, <2>3, <4>1, <4>2
      <4>3. CASE n \in 0..m
        <5> HIDE DEF Element
        <5>1. g[n] = f[n] /\ f[n] = Element(f, n)
          BY <2>1, <2>2, <2>3, <4>3
        <5>2. Element(f, n) = Element(g, n)
          BY <3>2, <4>1 DEF Element
        <5> QED
          BY <5>1, <5>2
      <4> QED
        BY <2>2, <3>2, <4>2, <4>3
    <3> QED
      BY <2>2, <3>1, <3>2
  <2>5. Is(g, m + 1)
    <3> HIDE DEF Element
    <3> QED
      BY <2>3, <2>4
  <2> HIDE DEF Is
  <2> QED
    BY <2>2, <2>5
<1>3. T = Nat
  <2> HIDE DEF Is
  <2>1. T \subseteq Nat
    OBVIOUS
  <2> HIDE DEF T
  <2> QED
    BY <1>1, <1>2, <2>1, Induct
<1>4. PICK f : Is(f, Len(s))
  BY <1>3
<1>5. Is(CHOOSE h : Is(h, Len(s)), Len(s))
  <2> HIDE DEF Is
  <2> QED
    BY <1>4
<1>6. Keeps(s, S) = CHOOSE h : Is(h, Len(s))
  BY DEF Keeps
<1> QED
  BY <1>5, <1>6

\* What the first elements leave, one more at a time.
LEMMA KeepsAt ==
  ASSUME NEW D, NEW s \in Seq(D), NEW S
  PROVE  /\ Keeps(s, S)[0] = <<>>
         /\ \A n \in 1..Len(s) :
               Keeps(s, S)[n] = IF s[n] \in S THEN Append(Keeps(s, S)[n - 1], s[n])
                                ELSE Keeps(s, S)[n - 1]
<1>1. Len(s) \in Nat
  OBVIOUS
<1>2. PICK f : f = Keeps(s, S)
  OBVIOUS
<1>3. f = [n \in 0..Len(s) |-> IF n = 0 THEN <<>>
                               ELSE IF s[n] \in S THEN Append(f[n - 1], s[n])
                               ELSE f[n - 1]]
  BY <1>1, <1>2, KeepsDef
<1>4. \A n \in 0..Len(s) : f[n] = IF n = 0 THEN <<>>
                                  ELSE IF s[n] \in S THEN Append(f[n - 1], s[n])
                                  ELSE f[n - 1]
  BY <1>3
<1>5. f[0] = <<>>
  BY <1>1, <1>4
<1>6. \A n \in 1..Len(s) : f[n] = IF s[n] \in S THEN Append(f[n - 1], s[n]) ELSE f[n - 1]
  BY <1>1, <1>4
<1> QED
  BY <1>2, <1>5, <1>6

LEMMA KeepsType ==
  ASSUME NEW D, NEW s \in Seq(D), NEW S
  PROVE  \A n \in 0..Len(s) : Keeps(s, S)[n] \in Seq(D \cap S)
<1>1. PICK f : f = Keeps(s, S)
  OBVIOUS
<1>2. f[0] \in Seq(D \cap S)
  <2>1. f[0] = <<>>
    BY <1>1, KeepsAt
  <2> QED
    BY <2>1
<1>3. ASSUME NEW n \in 0..Len(s) - 1, f[n] \in Seq(D \cap S)
      PROVE  f[n + 1] \in Seq(D \cap S)
  <2>1. n + 1 \in 1..Len(s) /\ s[n + 1] \in D /\ n + 1 - 1 = n
    OBVIOUS
  <2>2. f[n + 1] = IF s[n + 1] \in S THEN Append(f[n], s[n + 1]) ELSE f[n]
    BY <1>1, <2>1, KeepsAt
  <2> QED
    BY <1>3, <2>1, <2>2, AppendProperties
<1> DEFINE T == {n \in Nat : f[n] \in Seq(D \cap S)}
<1>4. 0..Len(s) \subseteq T
  <2>1. Len(s) \in Nat /\ 0 \in T /\ \A n \in 0..Len(s) - 1 : n \in T => n + 1 \in T
    BY <1>2, <1>3
  <2> HIDE DEF T
  <2> QED
    BY <2>1, InductTo
<1> QED
  BY <1>1, <1>4

LEMMA KeptType ==
  ASSUME NEW D, NEW s \in Seq(D), NEW S
  PROVE  Kept(s, S) \in Seq(D \cap S)
<1>1. Len(s) \in 0..Len(s)
  OBVIOUS
<1> QED
  BY <1>1, KeepsType DEF Kept

LEMMA KeptEmpty == \A S : Kept(<<>>, S) = <<>>
<1> TAKE S
<1>0. <<>> \in Seq({}) /\ Len(<<>>) = 0
  OBVIOUS
<1>1. PICK e \in Seq({}) : e = <<>> /\ Len(e) = 0
  BY <1>0, Zenon
<1>2. Keeps(e, S)[0] = <<>>
  BY KeepsAt, Zenon
<1> QED
  BY <1>1, <1>2 DEF Kept

\* Two functions that begin and go on alike.
LEMMA KeptAppend ==
  ASSUME NEW D, NEW s \in Seq(D), NEW e \in D, NEW S
  PROVE  Kept(Append(s, e), S) = IF e \in S THEN Append(Kept(s, S), e) ELSE Kept(s, S)
<1>1. PICK t : t = Append(s, e)
  OBVIOUS
<1>2. /\ t \in Seq(D) /\ Len(s) \in Nat /\ Len(t) = Len(s) + 1 /\ t[Len(s) + 1] = e
      /\ \A n \in 1..Len(s) : t[n] = s[n]
  BY <1>1, AppendProperties
<1>3. PICK f : f = Keeps(s, S)
  OBVIOUS
<1>4. PICK g : g = Keeps(t, S)
  OBVIOUS
<1>5. f[0] = <<>> /\ g[0] = <<>>
  BY <1>2, <1>3, <1>4, KeepsAt
<1>6. ASSUME NEW n \in 0..Len(s) - 1, g[n] = f[n]
      PROVE  g[n + 1] = f[n + 1]
  <2>1. n + 1 \in 1..Len(s) /\ n + 1 \in 1..Len(t) /\ n + 1 - 1 = n
    BY <1>2
  <2>2. f[n + 1] = IF s[n + 1] \in S THEN Append(f[n], s[n + 1]) ELSE f[n]
    BY <1>3, <2>1, KeepsAt
  <2>3. g[n + 1] = IF t[n + 1] \in S THEN Append(g[n], t[n + 1]) ELSE g[n]
    BY <1>2, <1>4, <2>1, KeepsAt
  <2> QED
    BY <1>2, <1>6, <2>1, <2>2, <2>3
<1>7. g[Len(s)] = f[Len(s)]
  <2> DEFINE T == {n \in Nat : g[n] = f[n]}
  <2>1. 0 \in T /\ \A n \in 0..Len(s) - 1 : n \in T => n + 1 \in T
    BY <1>5, <1>6
  <2>2. 0..Len(s) \subseteq T
    <3> HIDE DEF T
    <3> QED
      BY <1>2, <2>1, InductTo
  <2> QED
    BY <1>2, <2>2
<1>8. g[Len(t)] = IF e \in S THEN Append(g[Len(s)], e) ELSE g[Len(s)]
  <2>1. Len(t) \in 1..Len(t) /\ Len(t) - 1 = Len(s) /\ t[Len(t)] = e
    BY <1>2
  <2> QED
    BY <1>2, <1>4, <2>1, KeepsAt
<1> QED
  BY <1>1, <1>3, <1>4, <1>7, <1>8 DEF Kept

\* From the second element on, that of the tail is one behind.
LEMMA KeptHead ==
  ASSUME NEW D, NEW s \in Seq(D), s # <<>>, NEW S
  PROVE  Kept(s, S) = IF Head(s) \in S THEN <<Head(s)>> \o Kept(Tail(s), S)
                      ELSE Kept(Tail(s), S)
<1>1. PICK t : t = Tail(s)
  OBVIOUS
<1>2. /\ t \in Seq(D) /\ Len(t) \in Nat /\ Len(s) = Len(t) + 1 /\ Head(s) = s[1]
      /\ Head(s) \in D /\ \A n \in 1..Len(t) : t[n] = s[n + 1]
  BY <1>1, HeadTailProperties
<1>3. PICK f : f = Keeps(s, S)
  OBVIOUS
<1>4. PICK g : g = Keeps(t, S)
  OBVIOUS
<1>5. PICK h : h = IF Head(s) \in S THEN <<Head(s)>> ELSE <<>>
  OBVIOUS
<1>6. h \in Seq(D \cap S)
  <2>1. \A e \in D \cap S : <<e>> \in Seq(D \cap S)
    OBVIOUS
  <2> QED
    BY <1>2, <1>5, <2>1, EmptySeq
<1>7. \A n \in 0..Len(t) : g[n] \in Seq(D \cap S)
  BY <1>2, <1>4, KeepsType
<1>8. f[1] = h \o g[0]
  <2>1. f[0] = <<>> /\ g[0] = <<>> /\ 1 \in 1..Len(s) /\ 1 - 1 = 0
    BY <1>2, <1>3, <1>4, KeepsAt
  <2>2. f[1] = IF s[1] \in S THEN Append(f[0], s[1]) ELSE f[0]
    <3>1. \A n \in 1..Len(s) :
             f[n] = IF s[n] \in S THEN Append(f[n - 1], s[n]) ELSE f[n - 1]
      BY <1>3, KeepsAt
    <3> QED
      BY <2>1, <3>1
  <2>3. f[1] = h
    BY <1>2, <1>5, <2>1, <2>2
  <2> QED
    BY <1>6, <2>1, <2>3, ConcatEmptySeq
<1>9. ASSUME NEW n \in 0..Len(t) - 1, f[n + 1] = h \o g[n]
      PROVE  f[n + 1 + 1] = h \o g[n + 1]
  <2>1. /\ n + 1 \in 1..Len(t) /\ n + 2 \in 1..Len(s) /\ n + 1 - 1 = n /\ n + 2 - 1 = n + 1 /\ n + 1 + 1 = n + 2
        /\ n \in 0..Len(t)
    BY <1>2
  <2>2. PICK e \in D : e = t[n + 1] /\ e = s[n + 2]
    BY <1>2, <2>1
  <2>3. f[n + 2] = IF e \in S THEN Append(f[n + 1], e) ELSE f[n + 1]
    BY <1>3, <2>1, <2>2, KeepsAt
  <2>4. g[n + 1] = IF e \in S THEN Append(g[n], e) ELSE g[n]
    BY <1>2, <1>4, <2>1, <2>2, KeepsAt
  <2>5. e \in S => \A q \in Seq(D \cap S) : h \o Append(q, e) = Append(h \o q, e)
    BY <1>6, AppendedWhole
  <2>6. g[n] \in Seq(D \cap S)
    BY <1>7, <2>1
  <2> QED
    BY <1>9, <2>1, <2>3, <2>4, <2>5, <2>6
<1>10. f[Len(t) + 1] = h \o g[Len(t)]
  <2> DEFINE T == {n \in Nat : f[n + 1] = h \o g[n]}
  <2>1. 0 \in T
    <3>1. 0 + 1 = 1
      OBVIOUS
    <3> QED
      BY <1>8, <3>1
  <2>2. \A n \in 0..Len(t) - 1 : n \in T => n + 1 \in T
    BY <1>9
  <2>3. 0..Len(t) \subseteq T
    <3> HIDE DEF T
    <3> QED
      BY <1>2, <2>1, <2>2, InductTo
  <2> QED
    BY <1>2, <2>3
<1>11. \A q \in Seq(D \cap S) : <<>> \o q = q
  BY ConcatEmptySeq
<1>12. g[Len(t)] \in Seq(D \cap S)
  BY <1>2, <1>7
<1> QED
  BY <1>1, <1>2, <1>3, <1>4, <1>5, <1>10, <1>11, <1>12 DEF Kept

-----------------------------------------------------------------------------
(* The inductive invariant.                                                  *)

Starting == {"none", "lost", "login"}

\* A connection, of a sender or of a receiver.
ConnectionKnows(c) ==
  /\ client[c] = "start" => thread[c] = "none" /\ toServer[c] = <<>>
  /\ thread[c] \in Starting => toClient[c] = <<>> /\ client[c] \in {"start", "login"} \cup Gone
  /\ \A i \in DOMAIN toServer[c] : toServer[c][i].tag = "join" => toServer[c][i].room \in RoomNames
  /\ thread[c] = "enter" => request[c].tag = "join" /\ request[c].room \in RoomNames
  /\ thread[c] = "answer" => reply[c] \in Responses
  /\ member[c] # NoRoom => since[c] <= Len(log[member[c]])

\* The last request of a sender, and a response that is right for it.
Current(c) == IF commands[c] = <<>> THEN Plain("slogin") ELSE commands[c][Len(commands[c])]

Fits(c, r) == /\ r \in Responses
              /\ r.id = Current(c).id
              /\ Current(c).tag = "sendall" => (r.tag = "ok" <=> Posted(c, r.id))

\* A sender and its thread pass one message to and fro: it is on its way to the
\* thread, is served, or comes back as the response.
SenderKnows(c) ==
  /\ client[c] \in {"start", "login", "command", "waiting"} \cup Gone
  /\ thread[c] \in Starting \cup {"serve", "enter", "answer", "closed", "left"}
  /\ Len(commands[c]) <= MaxCommands
  /\ Len(commands[c]) \in {Len(answers[c]), Len(answers[c]) + 1}
  /\ \A i \in 1..Len(commands[c]) : commands[c][i].id = i /\ commands[c][i].tag # "rlogin"
  /\ client[c] \in {"start", "login"} \/ thread[c] \in Starting => commands[c] = <<>>
  /\ client[c] = "command" => /\ Len(commands[c]) = Len(answers[c])
                              /\ toServer[c] = <<>> /\ toClient[c] = <<>>
                              /\ thread[c] \notin {"enter", "answer"}
  /\ client[c] = "waiting" => Len(commands[c]) = Len(answers[c]) + 1
  /\ toServer[c] # <<>> => /\ toServer[c] = <<Current(c)>> /\ toClient[c] = <<>>
                           /\ thread[c] \notin {"enter", "answer"}
                           /\ commands[c] # <<>> => /\ Len(commands[c]) = Len(answers[c]) + 1
                                                    /\ ~Posted(c, Len(commands[c]))
  /\ thread[c] \in {"enter", "answer"} => /\ request[c] = Current(c)
                                          /\ toServer[c] = <<>> /\ toClient[c] = <<>>
  /\ thread[c] = "answer" => Fits(c, reply[c])
  /\ toClient[c] # <<>> => Len(toClient[c]) = 1 /\ Fits(c, toClient[c][1])
  /\ \A i \in 1..MaxCommands : Posted(c, i) => i <= Len(commands[c])

\* A receiver is in a room only when its thread has served the join, and what
\* it takes for the response to the join is that.
ReceiverKnows(c) ==
  /\ client[c] \in {"start", "login", "joining", "listening"} \cup Gone
  /\ thread[c] \in Starting \cup {"first", "enter", "answer", "deliver", "left"}
  /\ thread[c] \in Starting => toServer[c] \in {<<>>, <<Plain("rlogin")>>}
  /\ thread[c] = "answer" => request[c].tag \in {"rlogin", "join"}
  /\ client[c] \in {"start", "login"} =>
        /\ thread[c] \notin {"enter", "deliver"}
        /\ thread[c] = "answer" => request[c].tag = "rlogin"
        /\ thread[c] \notin Starting => toServer[c] = <<>>
  /\ member[c] # NoRoom => /\ thread[c] \in {"answer", "deliver"}
                           /\ thread[c] = "answer" => request[c].tag = "join"
  /\ member[c] = NoRoom => /\ mqueue[c] = <<>> /\ printed[c] = <<>>
                           /\ toClient[c] \in Seq(Responses)
  /\ client[c] = "joining" /\ thread[c] = "deliver" => toClient[c] # <<>>
  /\ client[c] = "joining" /\ toClient[c] # <<>> => Head(toClient[c]) \in Responses

IInv == /\ TypeOK
        /\ \A c \in Clients : ConnectionKnows(c)
        /\ \A c \in Senders : SenderKnows(c)
        /\ \A c \in Receivers : ReceiverKnows(c)
        /\ AnswersMatch /\ EndToEnd

\* The actions, one by one.
StepOf(c) ==
  \/ Connect(c) \/ ConnectFails(c) \/ Killed(c) \/ (\E q \in UserCommands : Command(c, q))
  \/ SenderLogsIn(c) \/ (\E name \in RoomNames : ReceiverLogsIn(c, name))
  \/ ReceiverJoins(c) \/ Listen(c) \/ Answered(c) \/ ServerGone(c)
  \/ ServeLogin(c) \/ ServeJoin(c) \/ Enter(c) \/ ServeLeave(c) \/ LeaveFaults(c)
  \/ ServeQuit(c) \/ Post(c) \/ Refuse(c) \/ Answer(c) \/ Deliver(c) \/ ClientGone(c)

LEMMA StepCases == Next => \E c \in Clients : StepOf(c)
BY DEF Next, Users, Program, Thread, StepOf

-----------------------------------------------------------------------------
(* Type correctness.                                                         *)

LEMMA MessageTypes ==
  /\ Plain("slogin") \in Requests /\ Plain("rlogin") \in Requests
  /\ \A name \in RoomNames : Message("join", name, 0) \in Requests
  /\ \A tag \in {"ok", "err"}, id \in 0..MaxCommands : Message(tag, NoRoom, id) \in Responses
BY BoundAssumption DEF Plain, Message, Requests, Responses

LEMMA CommandType ==
  ASSUME NEW q \in UserCommands, NEW n \in 1..MaxCommands, NEW m, m = [q EXCEPT !.id = n]
  PROVE  /\ m \in Requests /\ m.id = n /\ m.tag \in {"leave", "quit", "sendall", "join"}
         /\ m.tag = "join" => m.room \in RoomNames
<1>1. CASE q \in {Plain("leave"), Plain("quit"), Plain("sendall")}
  BY <1>1, BoundAssumption DEF Plain, Message, Requests
<1>2. ASSUME NEW r \in RoomNames, q = Message("join", r, 0)
      PROVE  /\ m \in Requests /\ m.id = n /\ m.tag \in {"leave", "quit", "sendall", "join"}
             /\ m.tag = "join" => m.room \in RoomNames
  BY <1>2, BoundAssumption DEF Message, Requests
<1> QED
  BY <1>1, <1>2 DEF UserCommands

\* Taking the first of the messages on a connection.
LEMMA ArrivesType ==
  ASSUME TypeOK, NEW c \in Clients, Arrives(c)
  PROVE  /\ Head(toClient[c]) \in Responses \cup Deliveries
         /\ toClient' \in [Clients -> Seq(Responses \cup Deliveries)]
BY HeadTailProperties DEF Arrives, TypeOK

LEMMA TakesType ==
  ASSUME TypeOK, NEW c \in Clients, Takes(c)
  PROVE  /\ Head(toServer[c]) \in Requests
         /\ toServer' \in [Clients -> Seq(Requests)]
         /\ request' \in [Clients -> Requests \cup {None}]
BY HeadTailProperties DEF Takes, TypeOK

LEMMA SendsType ==
  ASSUME TypeOK, NEW c \in Clients, NEW m \in Requests, Sends(c, m)
  PROVE  toServer' \in [Clients -> Seq(Requests)]
BY AppendProperties DEF Sends, TypeOK

LEMMA RepliesType ==
  ASSUME TypeOK, NEW c \in Clients, NEW tag \in {"ok", "err"}, NEW id \in 0..MaxCommands,
         Replies(c, tag, id)
  PROVE  reply' \in [Clients -> Responses \cup {None}] /\ reply'[c] \in Responses
BY MessageTypes DEF Replies, TypeOK

LEMMA RequestIds ==
  /\ \A m \in Requests : m.id \in 0..MaxCommands /\ m.room \in RoomNames \cup {NoRoom}
  /\ None.id \in 0..MaxCommands
BY BoundAssumption DEF Requests, None, Plain, Message

LEMMA TypeInit == Init => TypeOK
BY BoundAssumption, EmptySeq DEF Init, TypeOK, Places, Receiving, Gone, Labels

\* A delivery by a sender in a room, of a message it sent.
LEMMA DeliveryType ==
  ASSUME TypeOK, NEW c \in Senders, SenderKnows(c), member[c] # NoRoom, toServer[c] # <<>>,
         Head(toServer[c]).tag = "sendall"
  PROVE  /\ commands[c] # <<>> /\ Head(toServer[c]) = commands[c][Len(commands[c])]
         /\ Head(toServer[c]).id = Len(commands[c])
         /\ Delivery(c, Head(toServer[c]).id) \in Deliveries
<1>1. c \in Clients /\ Head(toServer[c]) = Current(c)
  BY DEF SenderKnows, Clients
<1>2. commands[c] # <<>>
  BY <1>1 DEF Current, Plain, Message
<1>3. commands[c] \in Seq(Requests) /\ Len(commands[c]) \in 1..Len(commands[c])
  BY <1>1, <1>2 DEF TypeOK
<1>4. Head(toServer[c]).id = Len(commands[c]) /\ Len(commands[c]) \in 1..MaxCommands
  BY <1>1, <1>2, <1>3, BoundAssumption DEF Current, SenderKnows
<1>5. member[c] \in RoomNames /\ Username[c] \in {Username[u] : u \in Clients}
  BY <1>1 DEF TypeOK
<1> QED
  BY <1>1, <1>2, <1>4, <1>5 DEF Delivery, Deliveries, Current

LEMMA TypeStep ==
  ASSUME IInv, NEW c \in Clients, StepOf(c)
  PROVE  TypeOK'
<1>a. TypeOK /\ ConnectionKnows(c)
  BY DEF IInv
<1>b. (c \in Senders => SenderKnows(c)) /\ (c \in Receivers => ReceiverKnows(c))
  BY DEF IInv
<1>c. c \in Senders \/ c \in Receivers
  BY DEF Clients
<1> USE DEF Goes, ServerUnchanged, ClientsUnchanged, Moves, programs, threads, rooms
<1>1. CASE Connect(c)
  <2>1. toServer' \in [Clients -> Seq(Requests)]
    BY <1>1, <1>a, SendsType, MessageTypes DEF Connect
  <2> QED
    BY <1>1, <1>a, <2>1 DEF Connect, TypeOK, Places, Receiving, Labels
<1>2. CASE ConnectFails(c) \/ ServerGone(c) \/ Killed(c)
  BY <1>2, <1>a DEF ConnectFails, ServerGone, Killed, TypeOK, Places, Gone
<1>3. CASE SenderLogsIn(c)
  BY <1>3, <1>a, ArrivesType DEF SenderLogsIn, TypeOK, Places, Gone
<1>4. ASSUME NEW name \in RoomNames, ReceiverLogsIn(c, name)
      PROVE  TypeOK'
  <2>1. toServer[c] \in Seq(Requests) /\ Message("join", name, 0) \in Requests
    BY <1>a, MessageTypes DEF TypeOK
  <2>2. \A q \in Seq(Requests), m \in Requests : q \o <<m>> \in Seq(Requests) /\ q \o <<>> \in Seq(Requests)
    OBVIOUS
  <2>3. toServer' \in [Clients -> Seq(Requests)]
    BY <1>4, <1>a, <2>1, <2>2 DEF ReceiverLogsIn, TypeOK
  <2> QED
    BY <1>4, <1>a, <2>3, ArrivesType DEF ReceiverLogsIn, TypeOK, Places, Receiving, Gone
<1>5. CASE ReceiverJoins(c)
  BY <1>5, <1>a, ArrivesType DEF ReceiverJoins, TypeOK, Places, Receiving, Gone
<1>6. CASE Listen(c)
  <2>1. Head(toClient[c]) \in Responses \cup Deliveries
    BY <1>6, <1>a, ArrivesType DEF Listen
  <2>2. Head(toClient[c]).tag = "delivery" => Head(toClient[c]) \in Deliveries
    BY <2>1 DEF Responses
  <2>3. printed' \in [Clients -> Seq(Deliveries)]
    BY <1>6, <1>a, <2>2, AppendProperties DEF Listen, TypeOK
  <2> QED
    BY <1>6, <1>a, <2>3, ArrivesType DEF Listen, TypeOK, Places, Receiving, Gone
<1>7. ASSUME NEW q \in UserCommands, Command(c, q)
      PROVE  TypeOK'
  <2>1. commands[c] \in Seq(Requests) /\ Len(commands[c]) < MaxCommands
    BY <1>7, <1>a DEF Command, TypeOK
  <2>2. PICK m : m = [q EXCEPT !.id = Len(commands[c]) + 1]
    OBVIOUS
  <2>3. m \in Requests
    <3>1. Len(commands[c]) + 1 \in 1..MaxCommands
      BY <2>1, BoundAssumption
    <3> QED
      BY <2>2, <3>1, CommandType
  <2>4. toServer' \in [Clients -> Seq(Requests)]
    BY <1>7, <1>a, <2>2, <2>3, SendsType DEF Command
  <2>5. commands' \in [Clients -> Seq(Requests)]
    BY <1>7, <1>a, <2>2, <2>3, AppendProperties DEF Command, TypeOK
  <2> QED
    BY <1>7, <1>a, <2>4, <2>5 DEF Command, TypeOK, Places, Receiving
<1>8. CASE Answered(c)
  <2>1. c \in Senders /\ SenderKnows(c) /\ toClient[c] # <<>>
    BY <1>8, <1>b, <1>c DEF Answered, ReceiverKnows, Gone, Arrives
  <2>2. Head(toClient[c]) \in Responses /\ Len(commands[c]) \in 1..MaxCommands
    BY <1>8, <1>a, <2>1, BoundAssumption DEF Answered, SenderKnows, Fits, TypeOK
  <2>3. answers' \in [Clients -> Seq([to : 1..MaxCommands, got : Responses])]
    BY <1>8, <1>a, <2>2, AppendProperties DEF Answered, TypeOK
  <2> QED
    BY <1>8, <1>a, <2>3, ArrivesType DEF Answered, TypeOK, Places, Receiving, Gone
<1>9. CASE ServeLogin(c)
  <2>1. reply' \in [Clients -> Responses \cup {None}]
    BY <1>9, <1>a, RepliesType, BoundAssumption DEF ServeLogin
  <2> QED
    BY <1>9, <1>a, <2>1, TakesType DEF ServeLogin, TypeOK, Labels
<1>10. CASE ServeJoin(c)
  BY <1>10, <1>a, TakesType DEF ServeJoin, TypeOK, Labels
<1>11. CASE Enter(c)
  <2>1. request[c].id \in 0..MaxCommands /\ request[c].room \in RoomNames
    BY <1>11, <1>a, RequestIds DEF Enter, Entering, ConnectionKnows, TypeOK
  <2>2. reply' \in [Clients -> Responses \cup {None}]
    BY <1>11, <1>a, <2>1, RepliesType DEF Enter, Entering
  <2>3. Len(log[request[c].room]) \in Nat
    BY <1>a, <2>1 DEF TypeOK
  <2> QED
    BY <1>11, <1>a, <2>1, <2>2, <2>3 DEF Enter, Entering, TypeOK, Labels
<1>12. CASE ServeLeave(c) \/ ServeQuit(c) \/ Refuse(c)
  <2>1. Takes(c) /\ \E tag \in {"ok", "err"} : Replies(c, tag, Head(toServer[c]).id)
    BY <1>12 DEF ServeLeave, ServeQuit, Refuse, Refusal
  <2>2. reply' \in [Clients -> Responses \cup {None}]
    BY <1>a, <2>1, TakesType, RequestIds, RepliesType
  <2> QED
    BY <1>12, <1>a, <2>1, <2>2, TakesType
       DEF ServeLeave, ServeQuit, Refuse, Refusal, TypeOK, Labels
<1>13. CASE LeaveFaults(c)
  BY <1>13, <1>a DEF LeaveFaults, Faults, TypeOK
<1>14. CASE Post(c)
  <2>1. c \in Senders /\ SenderKnows(c)
    BY <1>14, <1>b, <1>c DEF Post, ReceiverKnows, Starting
  <2>2. PICK m : m = Delivery(c, Head(toServer[c]).id)
    OBVIOUS
  <2>3. m \in Deliveries /\ m.id = Head(toServer[c]).id
    BY <1>14, <1>a, <2>1, <2>2, DeliveryType DEF Post, Takes, Delivery
  <2>4. log' \in [RoomNames -> Seq(Deliveries)] /\ mqueue' \in [Clients -> Seq(Deliveries)]
    BY <1>14, <1>a, <2>2, <2>3, AppendProperties DEF Post, TypeOK
  <2>5. m.id \in 0..MaxCommands
    BY <1>14, <1>a, <2>3, TakesType, RequestIds DEF Post
  <2>6. reply' \in [Clients -> Responses \cup {None}]
    BY <1>14, <1>a, <2>2, <2>5, RepliesType DEF Post
  <2> QED
    BY <1>14, <1>a, <2>4, <2>6, TakesType DEF Post, TypeOK, Labels
<1>15. CASE Answer(c)
  <2>1. toClient' \in [Clients -> Seq(Responses \cup Deliveries)]
    BY <1>15, <1>a, AppendProperties DEF Answer, ConnectionKnows, TypeOK
  <2>2. After(c) \in Labels
    BY <1>c DEF After, Labels
  <2> QED
    BY <1>15, <1>a, <2>1, <2>2 DEF Answer, TypeOK
<1>16. CASE Deliver(c)
  <2>1. Head(mqueue[c]) \in Deliveries /\ Tail(mqueue[c]) \in Seq(Deliveries)
    BY <1>16, <1>a, HeadTailProperties DEF Deliver, Sending, TypeOK
  <2>2. toClient' \in [Clients -> Seq(Responses \cup Deliveries)]
    BY <1>16, <1>a, <2>1, AppendProperties DEF Deliver, Sending, TypeOK
  <2> QED
    BY <1>16, <1>a, <2>1, <2>2 DEF Deliver, Sending, TypeOK, Labels
<1>17. CASE ClientGone(c)
  BY <1>17, <1>a DEF ClientGone, Faults, TypeOK, Labels
<1> QED
  BY <1>1, <1>2, <1>3, <1>4, <1>5, <1>6, <1>7, <1>8, <1>9, <1>10, <1>11, <1>12, <1>13,
     <1>14, <1>15, <1>16, <1>17 DEF StepOf

-----------------------------------------------------------------------------
(* A step is about one connection; what others see of it is that a log and   *)
(* queues grow.                                                              *)

Untouched(d) == /\ client'[d] = client[d] /\ commands'[d] = commands[d]
                /\ answers'[d] = answers[d] /\ printed'[d] = printed[d]
                /\ toServer'[d] = toServer[d] /\ toClient'[d] = toClient[d]
                /\ thread'[d] = thread[d] /\ request'[d] = request[d] /\ reply'[d] = reply[d]
                /\ member'[d] = member[d] /\ since'[d] = since[d]

LEMMA OthersUntouched ==
  ASSUME TypeOK, NEW c \in Clients, StepOf(c), NEW d \in Clients \ {c}
  PROVE  Untouched(d) /\ (~Post(c) => mqueue'[d] = mqueue[d])
<1> USE DEF Goes, ServerUnchanged, ClientsUnchanged, Moves, programs, threads, rooms, TypeOK,
            Untouched, Arrives, Takes, Sends, Replies, Faults
<1>1. CASE Connect(c) \/ ConnectFails(c) \/ ServerGone(c) \/ Killed(c)
  BY <1>1 DEF Connect, ConnectFails, ServerGone, Killed, Post
<1>2. CASE SenderLogsIn(c) \/ ReceiverJoins(c) \/ Listen(c) \/ Answered(c)
  BY <1>2 DEF SenderLogsIn, ReceiverJoins, Listen, Answered
<1>3. CASE \/ \E q \in UserCommands : Command(c, q)
           \/ \E name \in RoomNames : ReceiverLogsIn(c, name)
  BY <1>3 DEF Command, ReceiverLogsIn
<1>4. CASE ServeLogin(c) \/ ServeJoin(c) \/ Enter(c)
  BY <1>4 DEF ServeLogin, ServeJoin, Enter, Entering
<1>5. CASE ServeLeave(c) \/ ServeQuit(c) \/ Refuse(c)
  BY <1>5 DEF ServeLeave, ServeQuit, Refuse, Refusal
<1>6. CASE Post(c)
  BY <1>6 DEF Post
<1>7. CASE Answer(c) \/ Deliver(c)
  BY <1>7 DEF Answer, Deliver, Sending
<1>8. CASE LeaveFaults(c) \/ ClientGone(c)
  BY <1>8 DEF LeaveFaults, ClientGone
<1> QED
  BY <1>1, <1>2, <1>3, <1>4, <1>5, <1>6, <1>7, <1>8 DEF StepOf

LEMMA LogKept ==
  ASSUME NEW c \in Clients, StepOf(c), ~Post(c)
  PROVE  log' = log
BY DEF StepOf, ServerUnchanged, rooms, Faults, Connect, ConnectFails, ServerGone, Killed,
       SenderLogsIn, ReceiverJoins, Listen, Answered, Command, ReceiverLogsIn, ServeLogin,
       ServeJoin, Enter, Entering, ServeLeave, ServeQuit, Refuse, Refusal, Answer, Deliver,
       Sending, LeaveFaults, ClientGone

\* What a sender posts is its current request.
LEMMA PostIsCurrent ==
  ASSUME IInv, NEW c \in Clients, Post(c)
  PROVE  /\ c \in Senders /\ commands[c] # <<>> /\ member[c] \in RoomNames
         /\ \E m \in Deliveries :
               /\ m.by = c /\ m.id = Len(commands[c]) /\ m.from = Username[c]
               /\ m.room = member[c]
               /\ log' = [log EXCEPT ![member[c]] = Append(@, m)]
               /\ mqueue' = [u \in Clients |->
                               IF member[u] = member[c] /\ Username[u] # Username[c]
                               THEN Append(mqueue[u], m)
                               ELSE mqueue[u]]
<1>1. c \in Senders
  BY DEF Post, Moves, IInv, ReceiverKnows, Starting, Clients
<1>2. /\ SenderKnows(c) /\ TypeOK /\ member[c] # NoRoom /\ toServer[c] # <<>>
      /\ Head(toServer[c]).tag = "sendall"
  BY <1>1 DEF Post, Takes, IInv
<1>3. PICK m : m = Delivery(c, Head(toServer[c]).id)
  OBVIOUS
<1>4. m \in Deliveries /\ commands[c] # <<>> /\ Head(toServer[c]).id = Len(commands[c])
  BY <1>1, <1>2, <1>3, DeliveryType
<1>5. m.by = c /\ m.id = Len(commands[c]) /\ m.from = Username[c] /\ m.room = member[c]
  BY <1>3, <1>4 DEF Delivery
<1>6. member[c] \in RoomNames
  BY <1>1, <1>2 DEF TypeOK, Clients
<1> QED
  BY <1>1, <1>3, <1>4, <1>5, <1>6 DEF Post

LEMMA LogGrows ==
  ASSUME IInv, NEW c \in Clients, StepOf(c), NEW n \in RoomNames
  PROVE  log[n] \in Seq(Deliveries) /\ Len(log[n]) <= Len(log'[n])
<1>1. log \in [RoomNames -> Seq(Deliveries)]
  BY DEF IInv, TypeOK
<1>2. CASE ~Post(c)
  BY <1>1, <1>2, LogKept
<1>3. CASE Post(c)
  <2>1. PICK m \in Deliveries : log' = [log EXCEPT ![member[c]] = Append(@, m)]
    BY <1>3, PostIsCurrent
  <2>2. \A s \in Seq(Deliveries) : Len(s) \in Nat /\ Len(Append(s, m)) = Len(s) + 1
    OBVIOUS
  <2> QED
    BY <1>1, <2>1, <2>2
<1> QED
  BY <1>2, <1>3

\* Only a sender's own post makes something posted by it.
LEMMA PostedStep ==
  ASSUME IInv, NEW c \in Clients, StepOf(c), NEW d, NEW i
  PROVE  Posted(d, i)' <=> Posted(d, i) \/ (Post(c) /\ d = c /\ i = Len(commands[c]))
<1>1. log \in [RoomNames -> Seq(Deliveries)]
  BY DEF IInv, TypeOK
<1>2. CASE ~Post(c)
  BY <1>2, LogKept DEF Posted
<1>3. CASE Post(c)
  <2>1. PICK m \in Deliveries : /\ m.by = c /\ m.id = Len(commands[c])
                                /\ log' = [log EXCEPT ![member[c]] = Append(@, m)]
    BY <1>3, PostIsCurrent
  <2>2. PICK r \in RoomNames : r = member[c]
    BY <1>3, PostIsCurrent
  <2>3. /\ log'[r] = Append(log[r], m) /\ log[r] \in Seq(Deliveries)
        /\ \A n \in RoomNames \ {r} : log'[n] = log[n]
    BY <1>1, <2>1, <2>2
  <2>4. /\ DOMAIN log'[r] = DOMAIN log[r] \cup {Len(log[r]) + 1}
        /\ log'[r][Len(log[r]) + 1] = m
        /\ \A j \in DOMAIN log[r] : log'[r][j] = log[r][j]
    BY <2>3
  <2>5. ASSUME Posted(d, i)
        PROVE  Posted(d, i)'
    <3>1. PICK n \in RoomNames : \E j \in DOMAIN log[n] : log[n][j].by = d /\ log[n][j].id = i
      BY <2>5 DEF Posted
    <3>2. PICK j \in DOMAIN log[n] : log[n][j].by = d /\ log[n][j].id = i
      BY <3>1
    <3>3. j \in DOMAIN log'[n] /\ log'[n][j] = log[n][j]
      BY <2>3, <2>4
    <3> QED
      BY <3>2, <3>3 DEF Posted
  <2>6. ASSUME d = c, i = Len(commands[c])
        PROVE  Posted(d, i)'
    BY <2>1, <2>4, <2>6 DEF Posted
  <2>7. ASSUME Posted(d, i)'
        PROVE  Posted(d, i) \/ (d = c /\ i = Len(commands[c]))
    <3>1. PICK n \in RoomNames :
             \E j \in DOMAIN log'[n] : log'[n][j].by = d /\ log'[n][j].id = i
      BY <2>7 DEF Posted
    <3>2. PICK j \in DOMAIN log'[n] : log'[n][j].by = d /\ log'[n][j].id = i
      BY <3>1
    <3>3. CASE j \in DOMAIN log[n] /\ log'[n][j] = log[n][j]
      BY <3>2, <3>3 DEF Posted
    <3>4. CASE log'[n][j] = m
      BY <2>1, <3>2, <3>4
    <3> QED
      BY <2>3, <2>4, <3>3, <3>4
  <2> QED
    BY <1>3, <2>5, <2>6, <2>7
<1> QED
  BY <1>2, <1>3

LEMMA OthersKnow ==
  ASSUME IInv, NEW c \in Clients, StepOf(c), NEW d \in Clients \ {c}
  PROVE  /\ ConnectionKnows(d)'
         /\ d \in Senders => SenderKnows(d)'
         /\ d \in Receivers => ReceiverKnows(d)'
<1>1. Untouched(d) /\ TypeOK
  BY OthersUntouched DEF IInv
<1>2. ConnectionKnows(d)'
  <2>1. ConnectionKnows(d) /\ member[d] \in RoomNames \cup {NoRoom} /\ since[d] \in Nat
    BY <1>1 DEF IInv, TypeOK
  <2>2. \A n \in RoomNames : Len(log[n]) \in Nat /\ Len(log'[n]) \in Nat /\ Len(log[n]) <= Len(log'[n])
    BY LogGrows, TypeStep DEF TypeOK
  <2> QED
    BY <1>1, <2>1, <2>2 DEF ConnectionKnows, Untouched
<1>3. ASSUME d \in Senders
      PROVE  SenderKnows(d)'
  <2>1. \A i : Posted(d, i)' <=> Posted(d, i)
    BY PostedStep
  <2>2. SenderKnows(d)
    BY <1>3 DEF IInv
  <2> QED
    BY <1>1, <2>1, <2>2 DEF SenderKnows, Untouched, Fits, Current
<1>4. ASSUME d \in Receivers
      PROVE  ReceiverKnows(d)'
  <2>1. ReceiverKnows(d)
    BY <1>4 DEF IInv
  <2>2. member[d] = NoRoom => mqueue'[d] = mqueue[d]
    <3>1. CASE Post(c)
      BY <3>1, PostIsCurrent, NamesAssumption
    <3>2. CASE ~Post(c)
      BY <1>1, <3>2, OthersUntouched
    <3> QED
      BY <3>1, <3>2
  <2> QED
    BY <1>1, <2>1, <2>2 DEF ReceiverKnows, Untouched
<1> QED
  BY <1>2, <1>3, <1>4

-----------------------------------------------------------------------------
(* What the connection of the step knows after it.                           *)

LEMMA SinceStep ==
  ASSUME IInv, NEW c \in Clients, StepOf(c)
  PROVE  member'[c] # NoRoom => since'[c] <= Len(log'[member'[c]])
<1>1. TypeOK /\ ConnectionKnows(c)
  BY DEF IInv
<1>2. CASE Enter(c)
  <2>1. /\ request[c].room \in RoomNames /\ log' = log
        /\ member'[c] = request[c].room /\ since'[c] = Len(log[request[c].room])
    BY <1>1, <1>2 DEF Enter, Entering, Moves, ConnectionKnows, TypeOK
  <2>2. Len(log[request[c].room]) \in Nat
    BY <1>1, <2>1 DEF TypeOK
  <2> QED
    BY <2>1, <2>2
<1>3. CASE ~Enter(c)
  <2>1. since' = since /\ member'[c] \in {member[c], NoRoom}
    BY <1>1, <1>3
       DEF StepOf, TypeOK, ServerUnchanged, rooms, Faults, Connect, ConnectFails, ServerGone,
           Killed, SenderLogsIn, ReceiverJoins, Listen, Answered, Command, ReceiverLogsIn,
           ServeLogin, ServeJoin, ServeLeave, ServeQuit, Post, Refuse, Refusal, Answer,
           Deliver, Sending, LeaveFaults, ClientGone
  <2>2. CASE member'[c] = member[c] /\ member[c] # NoRoom
    <3>1. member[c] \in RoomNames /\ since[c] \in Nat /\ since[c] <= Len(log[member[c]])
      BY <1>1, <2>2 DEF TypeOK, ConnectionKnows
    <3>2. /\ Len(log[member[c]]) \in Nat /\ Len(log'[member[c]]) \in Nat
          /\ Len(log[member[c]]) <= Len(log'[member[c]])
      BY <3>1, LogGrows, TypeStep DEF TypeOK
    <3> QED
      BY <2>1, <2>2, <3>1, <3>2
  <2> QED
    BY <2>1, <2>2
<1> QED
  BY <1>2, <1>3

LEMMA ConnectionStep ==
  ASSUME IInv, NEW c \in Clients, StepOf(c)
  PROVE  ConnectionKnows(c)'
<1>1. TypeOK /\ ConnectionKnows(c)
  BY DEF IInv
<1>2. toServer[c] \in Seq(Requests) /\ toClient[c] \in Seq(Responses \cup Deliveries)
  BY <1>1 DEF TypeOK
<1> DEFINE Named(q) == \A i \in DOMAIN q : q[i].tag = "join" => q[i].room \in RoomNames
<1>3. ASSUME NEW q \in Seq(Requests), Named(q), q # <<>>
      PROVE  Named(Tail(q)) /\ (Head(q).tag = "join" => Head(q).room \in RoomNames)
  <2>1. /\ Head(q) = q[1] /\ 1 \in DOMAIN q
        /\ \A i \in DOMAIN Tail(q) : i + 1 \in DOMAIN q /\ Tail(q)[i] = q[i + 1]
    BY <1>3
  <2> QED
    BY <1>3, <2>1
<1>4. ASSUME NEW q \in Seq(Requests), Named(q), NEW m, m.tag = "join" => m.room \in RoomNames
      PROVE  Named(Append(q, m)) /\ Named(q \o <<m>>) /\ Named(q \o <<>>)
  BY <1>4
<1>5. Named(toServer[c])
  BY <1>1 DEF ConnectionKnows
<1> HIDE DEF Named
<1> USE DEF Goes, ServerUnchanged, ClientsUnchanged, Moves, programs, threads, rooms, TypeOK,
            ConnectionKnows, Starting, Gone
<1>6. CASE Connect(c)
  <2>1. Named(toServer'[c])
    BY <1>1, <1>2, <1>4, <1>5, <1>6 DEF Connect, Sends, Plain, Message
  <2> QED
    BY <1>1, <1>6, <2>1, SinceStep DEF Connect, Named
<1>7. CASE ConnectFails(c) \/ ServerGone(c) \/ Killed(c)
  BY <1>1, <1>7, SinceStep DEF ConnectFails, ServerGone, Killed, Receiving
<1>8. CASE SenderLogsIn(c) \/ ReceiverJoins(c) \/ Listen(c) \/ Answered(c)
  BY <1>1, <1>8, SinceStep DEF SenderLogsIn, ReceiverJoins, Listen, Answered, Arrives
<1>9. ASSUME NEW name \in RoomNames, ReceiverLogsIn(c, name)
      PROVE  ConnectionKnows(c)'
  <2>1. Named(toServer'[c])
    BY <1>1, <1>2, <1>4, <1>5, <1>9 DEF ReceiverLogsIn, Message
  <2> QED
    BY <1>1, <1>9, <2>1, SinceStep DEF ReceiverLogsIn, Arrives, Named
<1>10. ASSUME NEW q \in UserCommands, Command(c, q)
       PROVE  ConnectionKnows(c)'
  <2>1. PICK m : m = [q EXCEPT !.id = Len(commands[c]) + 1]
    OBVIOUS
  <2>2. Len(commands[c]) + 1 \in 1..MaxCommands
    BY <1>1, <1>10, BoundAssumption DEF Command
  <2>3. Named(toServer'[c])
    <3>1. m.tag = "join" => m.room \in RoomNames
      BY <2>1, <2>2, CommandType
    <3>2. toServer'[c] = Append(toServer[c], m)
      BY <1>1, <1>10, <2>1 DEF Command, Sends
    <3> QED
      BY <1>2, <1>4, <1>5, <3>1, <3>2
  <2> QED
    BY <1>1, <1>10, <2>3, SinceStep DEF Command, Named
<1>11. CASE Enter(c) \/ Answer(c) \/ Deliver(c) \/ LeaveFaults(c) \/ ClientGone(c)
  <2>1. CASE Enter(c)
    <3>1. reply'[c] \in Responses
      BY <1>1, <2>1, RepliesType, RequestIds DEF Enter, Entering
    <3> QED
      BY <1>1, <2>1, <3>1, SinceStep DEF Enter, Entering
  <2>2. CASE Answer(c)
    BY <1>1, <2>2, SinceStep DEF Answer, After, Clients
  <2>3. CASE Deliver(c)
    BY <1>1, <2>3, SinceStep DEF Deliver, Sending
  <2>4. CASE LeaveFaults(c) \/ ClientGone(c)
    BY <1>1, <2>4, SinceStep DEF LeaveFaults, ClientGone, Faults
  <2> QED
    BY <1>11, <2>1, <2>2, <2>3, <2>4
<1>12. CASE \/ ServeLogin(c) \/ ServeJoin(c) \/ ServeLeave(c) \/ ServeQuit(c) \/ Post(c)
            \/ Refuse(c)
  <2>1. Takes(c) /\ thread[c] \in {"login", "serve", "first"} /\ client' = client /\ toClient' = toClient
    BY <1>12 DEF ServeLogin, ServeJoin, ServeLeave, ServeQuit, Post, Refuse, Refusal
  <2>2. /\ Named(toServer'[c]) /\ toServer'[c] = Tail(toServer[c]) /\ request'[c] = Head(toServer[c])
        /\ request'[c].tag = "join" => request'[c].room \in RoomNames
    BY <1>1, <1>2, <1>3, <1>5, <2>1 DEF Takes
  <2>3. thread'[c] = "enter" => request'[c].tag = "join"
    BY <1>1, <1>12, <2>2 DEF ServeLogin, ServeJoin, ServeLeave, ServeQuit, Post, Refuse, Refusal
  <2>4. thread'[c] = "answer" => reply'[c] \in Responses
    <3>1. ServeJoin(c) \/ \E tag \in {"ok", "err"}, id \in 0..MaxCommands : Replies(c, tag, id)
      <4>1. Head(toServer[c]).id \in 0..MaxCommands
        BY <1>1, <2>1, TakesType, RequestIds
      <4> QED
        BY <1>12, <4>1, BoundAssumption
           DEF ServeLogin, ServeLeave, ServeQuit, Post, Delivery, Refuse, Refusal
    <3>2. ServeJoin(c) => thread'[c] = "enter"
      BY <1>1 DEF ServeJoin
    <3> QED
      BY <1>1, <3>1, <3>2, RepliesType
  <2>5. thread'[c] \in {"enter", "answer"} /\ client[c] # "start"
    BY <1>1, <1>12, <2>1 DEF ServeLogin, ServeJoin, ServeLeave, ServeQuit, Post, Refuse, Refusal
  <2> QED
    BY <1>1, <2>1, <2>2, <2>3, <2>4, <2>5, SinceStep DEF Named
<1> QED
  BY <1>6, <1>7, <1>8, <1>9, <1>10, <1>11, <1>12 DEF StepOf

LEMMA ReceiverActions ==
  ASSUME IInv, NEW c \in Receivers, StepOf(c)
  PROVE  \/ Connect(c) \/ ConnectFails(c) \/ Killed(c) \/ ServerGone(c)
         \/ (\E name \in RoomNames : ReceiverLogsIn(c, name)) \/ ReceiverJoins(c) \/ Listen(c)
         \/ ServeLogin(c) \/ ServeJoin(c) \/ Enter(c) \/ Answer(c) \/ Deliver(c) \/ ClientGone(c)
<1>1. ReceiverKnows(c) /\ c \notin Senders
  BY ClientsAssumption DEF IInv
<1> QED
  BY <1>1 DEF StepOf, ReceiverKnows, Starting, Gone, Command, SenderLogsIn, Answered, Goes, Moves,
              ServeLeave, LeaveFaults, ServeQuit, Post, Refuse, Refusal

LEMMA ReceiverStep ==
  ASSUME IInv, NEW c \in Receivers, StepOf(c)
  PROVE  ReceiverKnows(c)'
<1>1. TypeOK /\ ConnectionKnows(c) /\ ReceiverKnows(c) /\ c \in Clients /\ c \notin Senders
  BY ClientsAssumption DEF IInv, Clients
<1>2. toServer[c] \in Seq(Requests) /\ toClient[c] \in Seq(Responses \cup Deliveries)
  BY <1>1 DEF TypeOK
<1>3. \A q \in Seq(Responses) : q # <<>> => Head(q) \in Responses /\ Tail(q) \in Seq(Responses)
  OBVIOUS
<1> USE DEF Goes, ServerUnchanged, ClientsUnchanged, Moves, programs, threads, rooms, TypeOK,
            ReceiverKnows, Starting, Gone
<1>4. CASE Connect(c)
  <2>1. toServer'[c] = <<Plain("rlogin")>>
    BY <1>1, <1>4 DEF Connect, Sends, ConnectionKnows
  <2> QED
    BY <1>1, <1>4, <2>1 DEF Connect, ConnectionKnows
<1>5. CASE ConnectFails(c) \/ ServerGone(c) \/ Killed(c)
  BY <1>1, <1>5 DEF ConnectFails, ServerGone, Killed, Receiving
<1>6. ASSUME NEW name \in RoomNames, ReceiverLogsIn(c, name)
      PROVE  ReceiverKnows(c)'
  <2>1. /\ client[c] = "login" /\ member[c] = NoRoom /\ toClient[c] # <<>>
        /\ thread[c] \notin Starting
    BY <1>1, <1>6 DEF ReceiverLogsIn, Arrives, ConnectionKnows
  <2>2. toClient'[c] \in Seq(Responses) /\ (toClient'[c] # <<>> => Head(toClient'[c]) \in Responses)
    BY <1>1, <1>3, <1>6, <2>1 DEF ReceiverLogsIn, Arrives
  <2> QED
    BY <1>1, <1>6, <2>1, <2>2 DEF ReceiverLogsIn
<1>7. CASE ReceiverJoins(c) \/ Listen(c)
  <2>1. client[c] \in {"joining", "listening"} /\ client'[c] \in {"listening", "failed"}
    BY <1>1, <1>7 DEF ReceiverJoins, Listen
  <2>2. toClient[c] # <<>> /\ toClient'[c] = Tail(toClient[c])
    BY <1>1, <1>7 DEF ReceiverJoins, Listen, Arrives
  <2>3. member[c] = NoRoom => toClient'[c] \in Seq(Responses) /\ printed'[c] = printed[c]
    <3>1. member[c] = NoRoom => Head(toClient[c]) \in Responses
      BY <1>1, <1>3, <2>2
    <3> QED
      BY <1>1, <1>3, <1>7, <2>2, <3>1 DEF ReceiverJoins, Listen, Responses
  <2>4. thread[c] \notin Starting
    BY <1>1, <2>1 DEF ConnectionKnows
  <2> QED
    BY <1>1, <1>7, <2>1, <2>2, <2>3, <2>4 DEF ReceiverJoins, Listen
<1>8. CASE ServeLogin(c)
  <2>1. toServer[c] = <<Plain("rlogin")>>
    BY <1>1, <1>8 DEF ServeLogin, Takes
  <2>2. request'[c].tag = "rlogin" /\ toServer'[c] = <<>>
    BY <1>1, <1>8, <2>1 DEF ServeLogin, Takes, Plain, Message
  <2> QED
    BY <1>1, <1>8, <2>2 DEF ServeLogin, ConnectionKnows
<1>9. CASE ServeJoin(c)
  <2>1. thread[c] = "first" /\ toServer[c] # <<>> /\ member[c] = NoRoom /\ member' = member
    BY <1>1, <1>9 DEF ServeJoin, Takes
  <2> QED
    BY <1>1, <1>9, <2>1 DEF ServeJoin
<1>10. CASE Enter(c)
  <2>1. thread[c] = "enter" /\ thread'[c] = "answer" /\ request'[c].tag = "join"
    BY <1>1, <1>10 DEF Enter, Entering, ConnectionKnows
  <2>2. member'[c] # NoRoom
    BY <1>1, <1>10, NamesAssumption DEF Enter, Entering, ConnectionKnows
  <2> QED
    BY <1>1, <1>10, <2>1, <2>2 DEF Enter, Entering
<1>11. CASE Answer(c)
  <2>1. /\ reply[c] \in Responses /\ thread[c] = "answer"
        /\ toClient'[c] = Append(toClient[c], reply[c])
    BY <1>1, <1>11 DEF Answer, ConnectionKnows
  <2>2. toClient[c] # <<>> => Head(toClient'[c]) = Head(toClient[c])
    BY <1>2, <2>1
  <2>3. /\ toClient'[c] # <<>>
        /\ toClient[c] = <<>> => Head(toClient'[c]) \in Responses
        /\ toClient[c] \in Seq(Responses) => toClient'[c] \in Seq(Responses)
    <3>1. \A q \in Seq(Responses) : Append(q, reply[c]) \in Seq(Responses)
      BY <2>1
    <3>2. PICK r \in Responses : r = reply[c]
      BY <2>1
    <3>3. Append(<<>>, r) = <<r>> /\ Head(<<r>>) = r
      OBVIOUS
    <3>4. toClient[c] = <<>> => Head(toClient'[c]) \in Responses
      BY <2>1, <3>2, <3>3
    <3>5. toClient'[c] # <<>>
      BY <1>2, <2>1
    <3> QED
      BY <2>1, <3>1, <3>4, <3>5
  <2>4. thread'[c] = IF request[c].tag = "rlogin" THEN "first" ELSE "deliver"
    BY <1>1, <1>11 DEF Answer, After
  <2> QED
    BY <1>1, <1>11, <2>1, <2>2, <2>3, <2>4 DEF Answer
<1>12. CASE Deliver(c)
  <2>1. /\ thread[c] = "deliver" /\ thread' = thread /\ mqueue[c] # <<>> /\ member[c] # NoRoom
        /\ toClient'[c] = Append(toClient[c], Head(mqueue[c])) /\ Head(mqueue[c]) \in Deliveries
    BY <1>1, <1>12 DEF Deliver, Sending
  <2>2. toClient'[c] # <<>> /\ (toClient[c] # <<>> => Head(toClient'[c]) = Head(toClient[c]))
    BY <1>2, <2>1
  <2> QED
    BY <1>1, <1>12, <2>1, <2>2 DEF Deliver, Sending
<1>13. CASE ClientGone(c)
  BY <1>1, <1>13 DEF ClientGone, Faults
<1> QED
  BY <1>4, <1>5, <1>6, <1>7, <1>8, <1>9, <1>10, <1>11, <1>12, <1>13, ReceiverActions

LEMMA SenderActions ==
  ASSUME IInv, NEW c \in Senders, StepOf(c)
  PROVE  \/ Connect(c) \/ ConnectFails(c) \/ Killed(c) \/ ServerGone(c)
         \/ SenderLogsIn(c) \/ (\E q \in UserCommands : Command(c, q)) \/ Answered(c)
         \/ ServeLogin(c) \/ ServeJoin(c) \/ Enter(c) \/ ServeLeave(c) \/ LeaveFaults(c)
         \/ ServeQuit(c) \/ Post(c) \/ Refuse(c) \/ Answer(c) \/ ClientGone(c)
<1>1. SenderKnows(c) /\ c \notin Receivers
  BY ClientsAssumption DEF IInv
<1> QED
  BY <1>1 DEF StepOf, SenderKnows, Starting, Gone, ReceiverLogsIn, ReceiverJoins, Listen, Goes,
              Deliver, Sending, Moves

\* But for a new command and a post, the current request and what fits it stay.
LEMMA SameFits ==
  ASSUME NEW c \in Senders, commands'[c] = commands[c], log' = log
  PROVE  /\ Current(c)' = Current(c)
         /\ \A i : Posted(c, i)' <=> Posted(c, i)
         /\ \A r : Fits(c, r)' <=> Fits(c, r)
<1>1. \A i : Posted(c, i)' <=> Posted(c, i)
  BY DEF Posted
<1> QED
  BY <1>1 DEF Current, Fits

\* A request that is taken off the connection.
LEMMA SenderTakes ==
  ASSUME TypeOK, NEW c \in Senders, SenderKnows(c), Takes(c)
  PROVE  /\ request'[c] = Current(c) /\ Head(toServer[c]) = Current(c)
         /\ toServer'[c] = <<>> /\ toClient[c] = <<>>
         /\ toServer[c] # <<>>
         /\ commands[c] # <<>> => ~Posted(c, Len(commands[c]))
<1>1. toServer[c] # <<>> /\ toServer[c] = <<Current(c)>> /\ c \in Clients
  BY DEF Takes, SenderKnows, Clients
<1>2. \A x : Head(<<x>>) = x /\ Tail(<<x>>) = <<>>
  OBVIOUS
<1>3. Head(toServer[c]) = Current(c) /\ Tail(toServer[c]) = <<>>
  BY <1>1, <1>2
<1>4. request'[c] = Head(toServer[c]) /\ toServer'[c] = Tail(toServer[c])
  BY <1>1 DEF Takes, TypeOK
<1> QED
  BY <1>1, <1>3, <1>4 DEF SenderKnows

LEMMA CurrentIs ==
  ASSUME TypeOK, NEW c \in Senders, SenderKnows(c)
  PROVE  /\ commands[c] = <<>> => Current(c).id = 0 /\ Current(c).tag = "slogin"
         /\ commands[c] # <<>> => /\ Current(c).id = Len(commands[c]) /\ Current(c).tag # "rlogin"
                                 /\ Len(commands[c]) \in 1..MaxCommands
         /\ Current(c) \in Requests /\ Current(c).id \in 0..MaxCommands
<1>1. CASE commands[c] = <<>>
  BY <1>1, MessageTypes, BoundAssumption DEF Current, Plain, Message
<1>2. CASE commands[c] # <<>>
  <2>1. commands[c] \in Seq(Requests) /\ Len(commands[c]) <= MaxCommands
    BY DEF TypeOK, SenderKnows, Clients
  <2>2. Len(commands[c]) \in 1..Len(commands[c]) /\ Len(commands[c]) \in 1..MaxCommands
    BY <1>2, <2>1, BoundAssumption
  <2>3. Current(c) = commands[c][Len(commands[c])] /\ Current(c) \in Requests
    BY <1>2, <2>1, <2>2 DEF Current
  <2> QED
    BY <1>2, <2>2, <2>3 DEF SenderKnows
<1> QED
  BY <1>1, <1>2

\* The answers of the thread that change nothing.
LEMMA SenderServed ==
  ASSUME IInv, NEW c \in Senders, ServeLogin(c) \/ ServeLeave(c) \/ ServeQuit(c) \/ Refuse(c),
         StepOf(c)
  PROVE  SenderKnows(c)'
<1>1. TypeOK /\ SenderKnows(c) /\ c \in Clients /\ c \notin Receivers
  BY ClientsAssumption DEF IInv, Clients
<1>2. /\ Takes(c) /\ thread[c] \in {"login", "serve"} /\ thread'[c] = "answer"
      /\ UNCHANGED <<client, commands, answers, toClient, log>>
  BY <1>1 DEF ServeLogin, ServeLeave, ServeQuit, Refuse, Refusal, Moves, ClientsUnchanged,
              programs, TypeOK, rooms
<1>3. /\ request'[c] = Current(c) /\ Head(toServer[c]) = Current(c)
      /\ toServer'[c] = <<>> /\ toClient[c] = <<>> /\ toServer[c] # <<>>
      /\ commands[c] # <<>> => ~Posted(c, Len(commands[c]))
  BY <1>1, <1>2, SenderTakes
<1>4. Fits(c, reply'[c])
  <2>1. CASE ServeLogin(c)
    <3>1. commands[c] = <<>> /\ reply'[c] = Message("ok", NoRoom, 0)
      BY <1>1, <2>1 DEF ServeLogin, Moves, Replies, TypeOK, SenderKnows, Starting
    <3> QED
      BY <1>1, <3>1, MessageTypes, BoundAssumption DEF Fits, Current, Plain, Message
  <2>2. CASE ServeLeave(c) \/ ServeQuit(c) \/ Refuse(c)
    <3>1. \E tag \in {"ok", "err"} :
             /\ reply'[c] = Message(tag, NoRoom, Current(c).id)
             /\ Current(c).tag = "sendall" => tag = "err"
      BY <1>1, <1>3, <2>2 DEF ServeLeave, ServeQuit, Refuse, Refusal, Replies, TypeOK
    <3>2. Current(c).id \in 0..MaxCommands
      BY <1>1, CurrentIs
    <3>3. Current(c).tag = "sendall" => ~Posted(c, Current(c).id)
      BY <1>1, <1>3, CurrentIs
    <3> QED
      BY <3>1, <3>2, <3>3, MessageTypes DEF Fits, Message
  <2> QED
    BY <2>1, <2>2, <1>1
<1> QED
  BY <1>1, <1>2, <1>3, <1>4, SameFits DEF SenderKnows, Starting

LEMMA SenderPosts ==
  ASSUME IInv, NEW c \in Senders, Post(c), StepOf(c)
  PROVE  SenderKnows(c)'
<1>1. TypeOK /\ SenderKnows(c) /\ c \in Clients
  BY DEF IInv, Clients
<1>2. /\ Takes(c) /\ thread[c] = "serve" /\ thread'[c] = "answer"
      /\ UNCHANGED <<client, commands, answers, toClient>>
  BY <1>1 DEF Post, Moves, ClientsUnchanged, programs, TypeOK
<1>3. /\ request'[c] = Current(c) /\ Head(toServer[c]) = Current(c)
      /\ toServer'[c] = <<>> /\ toClient[c] = <<>> /\ toServer[c] # <<>>
      /\ Current(c)' = Current(c)
  BY <1>1, <1>2, SenderTakes DEF Current
<1>4. /\ Len(commands[c]) \in 1..MaxCommands /\ commands[c] # <<>>
      /\ Current(c).id = Len(commands[c])
  BY <1>1, PostIsCurrent, CurrentIs
<1>5. \A i : Posted(c, i)' <=> Posted(c, i) \/ i = Len(commands[c])
  BY <1>1, PostedStep
<1>6. reply'[c] = Message("ok", NoRoom, Current(c).id)
  <2>1. Replies(c, "ok", Current(c).id)
    BY <1>3 DEF Post, Delivery
  <2> QED
    BY <1>1, <2>1 DEF Replies, TypeOK
<1>7. Fits(c, reply[c])'
  <2>1. reply'[c] \in Responses /\ reply'[c].tag = "ok" /\ reply'[c].id = Len(commands[c])
    BY <1>1, <1>4, <1>6, CurrentIs, MessageTypes DEF Message
  <2>2. PICK k : k = Len(commands[c])
    OBVIOUS
  <2>3. Posted(c, k)'
    BY <1>5, <2>2
  <2>4. reply'[c].id = k /\ Current(c)'.id = k
    BY <1>3, <1>4, <2>1, <2>2
  <2> QED
    BY <2>1, <2>3, <2>4 DEF Fits, Posted, Responses
<1>8. \A i \in 1..MaxCommands : Posted(c, i)' => i <= Len(commands[c])
  BY <1>1, <1>4, <1>5 DEF SenderKnows
<1> QED
  BY <1>1, <1>2, <1>3, <1>4, <1>7, <1>8 DEF SenderKnows, Starting

LEMMA SenderCommands ==
  ASSUME IInv, NEW c \in Senders, NEW q \in UserCommands, Command(c, q), StepOf(c)
  PROVE  SenderKnows(c)'
<1>1. TypeOK /\ SenderKnows(c) /\ ConnectionKnows(c) /\ c \in Clients
  BY DEF IInv, Clients
<1>2. PICK n \in 1..MaxCommands : n = Len(commands[c]) + 1
  BY <1>1, BoundAssumption DEF Command, TypeOK
<1>3. PICK m : m = [q EXCEPT !.id = n]
  OBVIOUS
<1>4. m.id = n /\ m.tag # "rlogin"
  BY <1>3, CommandType
<1>5. PICK s \in Seq(Requests) : s = commands[c]
  BY <1>1 DEF TypeOK
<1>6. /\ commands'[c] = Append(s, m) /\ Len(commands'[c]) = n /\ commands'[c][n] = m
      /\ \A i \in 1..n : i = n \/ (i \in 1..Len(s) /\ commands'[c][i] = s[i])
      /\ commands'[c] # <<>>
  <2>1. commands'[c] = Append(s, m)
    BY <1>1, <1>2, <1>3, <1>5 DEF Command, TypeOK
  <2>2. PICK t : t = Append(s, m)
    OBVIOUS
  <2>3. /\ Len(s) + 1 = n /\ Len(t) = n /\ t[n] = m /\ t # <<>>
        /\ \A i \in 1..Len(s) : t[i] = s[i]
    BY <1>2, <1>5, <2>2
  <2> QED
    BY <1>2, <1>5, <2>1, <2>2, <2>3
<1>7. /\ client[c] = "command" /\ client'[c] = "waiting" /\ toServer[c] = <<>>
      /\ UNCHANGED <<answers, toClient, thread, request, reply, log>>
      /\ toServer'[c] = Append(<<>>, m) /\ toClient[c] = <<>>
  BY <1>1, <1>2, <1>3 DEF Command, Goes, ServerUnchanged, threads, rooms, Sends, TypeOK, SenderKnows
<1>8. Current(c)' = m
  BY <1>6 DEF Current
<1>9. \A i : Posted(c, i)' <=> Posted(c, i)
  BY <1>7 DEF Posted
<1> QED
  BY <1>1, <1>2, <1>4, <1>5, <1>6, <1>7, <1>8, <1>9 DEF SenderKnows, ConnectionKnows, Starting, Gone

LEMMA SenderAnswered ==
  ASSUME IInv, NEW c \in Senders, SenderLogsIn(c) \/ Answered(c), StepOf(c)
  PROVE  SenderKnows(c)'
<1>1. TypeOK /\ SenderKnows(c) /\ ConnectionKnows(c) /\ c \in Clients
  BY DEF IInv, Clients
<1>2. /\ toClient[c] # <<>> /\ toClient'[c] = Tail(toClient[c]) /\ Len(toClient[c]) = 1
      /\ toClient[c] \in Seq(Responses \cup Deliveries)
      /\ UNCHANGED <<commands, toServer, thread, request, reply, log>>
  BY <1>1 DEF SenderLogsIn, Answered, Arrives, ServerUnchanged, threads, rooms, TypeOK, SenderKnows
<1>3. toClient'[c] = <<>>
  <2>1. ASSUME NEW q \in Seq(Responses \cup Deliveries), Len(q) = 1
        PROVE  Tail(q) = <<>>
    <3>1. Tail(q) \in Seq(Responses \cup Deliveries) /\ Len(Tail(q)) = 0
      BY <2>1
    <3> QED
      BY <3>1, EmptySeq
  <2> QED
    BY <1>2, <2>1
<1>4. /\ toServer[c] = <<>> /\ thread[c] \notin {"enter", "answer"} \cup Starting
  BY <1>1, <1>2 DEF SenderKnows, ConnectionKnows
<1>5. /\ Len(commands[c]) = Len(answers'[c])
      /\ client'[c] \in {"command", "failed", "done"}
  <2>1. commands[c] \in Seq(Requests) /\ answers[c] \in Seq([to : 1..MaxCommands, got : Responses])
    BY <1>1 DEF TypeOK
  <2>2. CASE SenderLogsIn(c)
    <3>1. client[c] = "login" /\ answers' = answers /\ client'[c] \in {"command", "failed"}
      BY <1>1, <2>2 DEF SenderLogsIn, Goes, TypeOK
    <3>2. commands[c] = <<>> /\ 0 \in {Len(answers[c]), Len(answers[c]) + 1}
      BY <1>1, <3>1 DEF SenderKnows
    <3>3. Len(answers[c]) \in Nat
      BY <2>1
    <3> QED
      BY <3>1, <3>2, <3>3
  <2>3. CASE Answered(c)
    <3>1. /\ client[c] = "waiting" /\ client'[c] \in {"command", "done"}
          /\ \E a : answers'[c] = Append(answers[c], a)
      BY <1>1, <2>3 DEF Answered, Goes, TypeOK
    <3>2. Len(commands[c]) = Len(answers[c]) + 1
      BY <1>1, <3>1 DEF SenderKnows
    <3>3. \A a : Len(Append(answers[c], a)) = Len(answers[c]) + 1
      BY <2>1
    <3> QED
      BY <3>1, <3>2, <3>3
  <2> QED
    BY <2>2, <2>3
<1>6. \A i : Posted(c, i)' <=> Posted(c, i)
  BY <1>2 DEF Posted
<1> QED
  BY <1>1, <1>2, <1>3, <1>4, <1>5, <1>6 DEF SenderKnows, Starting, Gone

\* What a sender knows after any other step.
LEMMA SenderMoves ==
  ASSUME IInv, NEW c \in Senders, StepOf(c),
         \/ Connect(c) \/ ConnectFails(c) \/ Killed(c) \/ ServerGone(c)
         \/ ServeJoin(c) \/ Enter(c) \/ LeaveFaults(c) \/ Answer(c) \/ ClientGone(c)
  PROVE  SenderKnows(c)'
<1>1. TypeOK /\ SenderKnows(c) /\ ConnectionKnows(c) /\ c \in Clients /\ c \notin Receivers
  BY ClientsAssumption DEF IInv, Clients
<1>2. commands' = commands /\ answers' = answers /\ log' = log
  BY DEF Connect, ConnectFails, Killed, ServerGone, ServeJoin, Enter, Entering, LeaveFaults,
         Faults, Answer, ClientGone, ClientsUnchanged, ServerUnchanged, programs, rooms
<1>3. /\ Current(c)' = Current(c)
      /\ \A i : Posted(c, i)' <=> Posted(c, i)
      /\ \A r : Fits(c, r)' <=> Fits(c, r)
  BY <1>2, SameFits
<1> USE DEF Goes, Moves, ServerUnchanged, ClientsUnchanged, programs, threads, rooms, TypeOK,
            SenderKnows, Starting, Gone
<1>4. CASE Connect(c)
  <2>1. /\ toServer[c] = <<>> /\ toClient[c] = <<>> /\ commands[c] = <<>>
        /\ thread'[c] \in {"login", "lost"} /\ client'[c] = "login"
        /\ UNCHANGED <<toClient, request, reply>>
    BY <1>1, <1>4 DEF Connect, ConnectionKnows
  <2>2. toServer'[c] = Append(<<>>, Plain("slogin"))
    BY <1>1, <1>4, <2>1 DEF Connect, Sends
  <2>3. toServer'[c] = <<Current(c)>>
    BY <2>1, <2>2 DEF Current
  <2> QED
    BY <1>1, <1>2, <1>3, <2>1, <2>3
<1>5. CASE ConnectFails(c) \/ Killed(c) \/ ServerGone(c)
  <2>1. /\ UNCHANGED <<toServer, toClient, thread, request, reply>>
        /\ client'[c] \in Gone
        /\ client[c] # "start" => client[c] # "done"
    BY <1>1, <1>5 DEF ConnectFails, Killed, ServerGone, Receiving
  <2> QED
    BY <1>1, <1>2, <1>3, <2>1
<1>6. CASE ServeJoin(c)
  <2>1. /\ request'[c] = Current(c) /\ toServer'[c] = <<>> /\ toClient[c] = <<>>
        /\ toServer[c] # <<>>
    BY <1>1, <1>6, SenderTakes DEF ServeJoin
  <2>2. thread'[c] = "enter" /\ UNCHANGED <<client, toClient, reply>> /\ thread[c] = "serve"
    BY <1>1, <1>6 DEF ServeJoin
  <2> QED
    BY <1>1, <1>2, <1>3, <2>1, <2>2
<1>7. CASE Enter(c)
  <2>1. /\ UNCHANGED <<client, toServer, toClient, request>> /\ thread[c] = "enter"
        /\ thread'[c] = "answer" /\ reply'[c] = Message("ok", NoRoom, request[c].id)
    BY <1>1, <1>7 DEF Enter, Entering, Replies
  <2>2. request[c] = Current(c) /\ Current(c).tag = "join" /\ Current(c).id \in 0..MaxCommands
    BY <1>1, <2>1, CurrentIs DEF ConnectionKnows
  <2>3. Fits(c, reply'[c])
    BY <2>1, <2>2, MessageTypes DEF Fits, Message
  <2> QED
    BY <1>1, <1>2, <1>3, <2>1, <2>2, <2>3
<1>8. CASE LeaveFaults(c) \/ ClientGone(c)
  <2>1. /\ UNCHANGED <<client, toServer, toClient, request, reply>>
        /\ \/ thread' = thread
           \/ /\ thread[c] \in {"login", "serve", "first"} /\ thread'[c] \in {"closed", "left"}
              /\ client[c] \in Gone
    BY <1>1, <1>8 DEF LeaveFaults, ClientGone, Faults
  <2> QED
    BY <1>1, <1>2, <1>3, <2>1
<1>9. CASE Answer(c)
  <2>1. /\ UNCHANGED <<client, toServer, request, reply>> /\ thread[c] = "answer"
        /\ toClient[c] = <<>> /\ request[c] = Current(c) /\ toServer[c] = <<>>
        /\ Fits(c, reply[c])
        /\ toClient'[c] = Append(<<>>, reply[c])
    BY <1>1, <1>9 DEF Answer
  <2>2. thread'[c] \in {"closed", "serve"}
    <3>1. Current(c).tag # "rlogin"
      BY <1>1, CurrentIs
    <3> QED
      BY <1>1, <1>9, <2>1, <3>1 DEF Answer, After
  <2>3. Len(toClient'[c]) = 1 /\ toClient'[c][1] = reply[c]
    BY <2>1
  <2> QED
    BY <1>1, <1>2, <1>3, <2>1, <2>2, <2>3
<1> QED
  BY <1>4, <1>5, <1>6, <1>7, <1>8, <1>9

LEMMA SenderStep ==
  ASSUME IInv, NEW c \in Senders, StepOf(c)
  PROVE  SenderKnows(c)'
BY SenderActions, SenderMoves, SenderServed, SenderPosts, SenderAnswered, SenderCommands

-----------------------------------------------------------------------------
(* The answers.                                                              *)

Matches(c) == \A i \in DOMAIN answers[c] :
                 LET a == answers[c][i]
                 IN  /\ a.to = i /\ a.got.id = i
                     /\ commands[c][i].tag = "sendall" => (a.got.tag = "ok" <=> Posted(c, i))

\* A response that fits the current command is appended.
LEMMA AnsweredMatches ==
  ASSUME IInv, NEW c \in Senders, Answered(c)
  PROVE  Matches(c)'
<1>1. TypeOK /\ SenderKnows(c) /\ c \in Clients /\ Matches(c)
  BY DEF IInv, Clients, AnswersMatch, Matches
<1>2. PICK s \in Seq([to : 1..MaxCommands, got : Responses]) : s = answers[c]
  BY <1>1 DEF TypeOK
<1>3. PICK n \in 1..MaxCommands : n = Len(commands[c]) /\ n = Len(s) + 1
  <2>1. commands[c] \in Seq(Requests) /\ Len(commands[c]) <= MaxCommands /\ Len(commands[c]) = Len(s) + 1
    BY <1>1, <1>2 DEF Answered, Goes, SenderKnows, TypeOK
  <2> QED
    BY <1>2, <2>1, BoundAssumption
<1>4. PICK r : r = Head(toClient[c])
  OBVIOUS
<1>5. Fits(c, r)
  <2>1. toClient[c] \in Seq(Responses \cup Deliveries) /\ toClient[c] # <<>>
    BY <1>1 DEF Answered, Arrives, TypeOK
  <2>2. Head(toClient[c]) = toClient[c][1]
    BY <2>1
  <2> QED
    BY <1>1, <1>4, <2>1, <2>2 DEF SenderKnows
<1>6. Current(c) = commands[c][n] /\ Current(c).id = n
  <2>1. n # 0 /\ Len(<<>>) = 0
    OBVIOUS
  <2>2. commands[c] # <<>>
    BY <1>3, <2>1
  <2> QED
    BY <1>1, <1>3, <2>2, CurrentIs DEF Current
<1>7. PICK a : a = [to |-> n, got |-> r]
  OBVIOUS
<1>8. answers'[c] = Append(s, a) /\ commands' = commands /\ log' = log
  BY <1>1, <1>2, <1>3, <1>4, <1>7 DEF Answered, ServerUnchanged, rooms, TypeOK
<1>9. \A i : Posted(c, i)' <=> Posted(c, i)
  BY <1>8 DEF Posted
<1>10. PICK t : t = answers'[c]
  OBVIOUS
<1>11. \A i \in DOMAIN t : (i = n /\ t[i] = a) \/ (i \in DOMAIN s /\ t[i] = s[i])
  BY <1>2, <1>3, <1>8, <1>10
<1>12. a.to = n /\ a.got = r /\ r.id = n /\ (commands[c][n].tag = "sendall" => (r.tag = "ok" <=> Posted(c, n)))
  BY <1>5, <1>6, <1>7 DEF Fits
<1>13. ASSUME NEW i \in DOMAIN t
       PROVE  /\ t[i].to = i /\ t[i].got.id = i
              /\ commands[c][i].tag = "sendall" => (t[i].got.tag = "ok" <=> Posted(c, i))
  BY <1>1, <1>2, <1>11, <1>12 DEF Matches
<1> QED
  BY <1>8, <1>9, <1>10, <1>13 DEF Matches

LEMMA AnswersStep ==
  ASSUME IInv, NEW c \in Clients, StepOf(c)
  PROVE  AnswersMatch'
<1>1. SUFFICES ASSUME NEW d \in Senders
               PROVE  Matches(d)'
  BY DEF AnswersMatch, Matches
<1>2. TypeOK /\ SenderKnows(d) /\ d \in Clients /\ Matches(d)
  BY DEF IInv, Clients, AnswersMatch, Matches
<1>3. PICK n \in Nat : n = Len(answers[d]) /\ DOMAIN answers[d] = 1..n
  BY <1>2 DEF TypeOK
<1>4. CASE d # c
  <2>1. \A i : Posted(d, i)' <=> Posted(d, i)
    BY <1>4, PostedStep
  <2> QED
    BY <1>2, <1>4, <2>1, OthersUntouched DEF Untouched, Matches
<1>5. CASE d = c /\ Answered(c)
  BY <1>5, AnsweredMatches
<1>6. CASE d = c /\ Post(c)
  <2>1. answers' = answers /\ commands' = commands
    BY <1>6 DEF Post, ClientsUnchanged, programs
  <2>2. Len(commands[c]) = n + 1
    BY <1>2, <1>3, <1>6, PostIsCurrent DEF Post, Takes, SenderKnows
  <2>3. \A i \in 1..n : Posted(d, i)' <=> Posted(d, i)
    BY <1>6, <2>2, PostedStep
  <2> QED
    BY <1>2, <1>3, <2>1, <2>3 DEF Matches
<1>7. ASSUME NEW q \in UserCommands, d = c, Command(c, q)
      PROVE  Matches(d)'
  <2>1. answers' = answers /\ log' = log /\ n = Len(commands[d])
    BY <1>2, <1>3, <1>7 DEF Command, Goes, ServerUnchanged, rooms, SenderKnows
  <2>2. PICK s \in Seq(Requests) : s = commands[d]
    BY <1>2 DEF TypeOK
  <2>3. \E m : commands'[d] = Append(s, m)
    BY <1>2, <1>7, <2>2 DEF Command, TypeOK
  <2>4. \A i \in 1..n : commands'[d][i] = commands[d][i]
    BY <2>1, <2>2, <2>3
  <2>5. \A i : Posted(d, i)' <=> Posted(d, i)
    BY <2>1 DEF Posted
  <2> QED
    BY <1>2, <1>3, <2>1, <2>4, <2>5 DEF Matches
<1>8. CASE d = c /\ ~Answered(c) /\ ~Post(c) /\ ~\E q \in UserCommands : Command(c, q)
  <2>1. answers' = answers /\ commands' = commands
    BY <1>8 DEF StepOf, Connect, ConnectFails, Killed, ServerGone, SenderLogsIn, ReceiverLogsIn,
                ReceiverJoins, Listen, ServeLogin, ServeJoin, Enter, Entering, ServeLeave,
                LeaveFaults, Faults, ServeQuit, Refuse, Refusal, Answer, Deliver, Sending,
                ClientGone, ClientsUnchanged, programs
  <2>2. log' = log
    BY <1>8, LogKept
  <2>3. \A i : Posted(d, i)' <=> Posted(d, i)
    BY <2>2 DEF Posted
  <2> QED
    BY <1>2, <2>1, <2>3 DEF Matches
<1> QED
  BY <1>4, <1>5, <1>6, <1>7, <1>8

-----------------------------------------------------------------------------
(* From end to end.                                                          *)

Through(u) == printed[u] \o Kept(toClient[u], Deliveries) \o mqueue[u]

LEMMA Disjoint ==
  /\ Responses \cap Deliveries = {}
  /\ \A m \in Responses \cup Deliveries : m.tag = "delivery" <=> m \in Deliveries
BY DEF Responses, Deliveries

LEMMA NothingKept == \A s \in Seq(Responses) : Kept(s, Deliveries) = <<>>
<1> TAKE s \in Seq(Responses)
<1>1. Kept(s, Deliveries) \in Seq({})
  BY KeptType, Disjoint
<1> QED
  BY <1>1, EmptySeq

\* What a user that has just come is to get: nothing yet.
LEMMA EnterThrough ==
  ASSUME IInv, NEW u \in Receivers, Enter(u)
  PROVE  Through(u)' = Expected(u)'
<1>1. TypeOK /\ ReceiverKnows(u) /\ ConnectionKnows(u) /\ u \in Clients
  BY DEF IInv, Clients
<1>2. member[u] = NoRoom /\ request[u].room \in RoomNames
  BY <1>1 DEF Enter, Entering, Moves, ReceiverKnows, ConnectionKnows
<1>3. mqueue[u] = <<>> /\ printed[u] = <<>> /\ Kept(toClient[u], Deliveries) = <<>>
  BY <1>1, <1>2, NothingKept DEF ReceiverKnows
<1>4. <<>> \o <<>> \o <<>> = <<>>
  OBVIOUS
<1>5. Through(u)' = <<>>
  BY <1>3, <1>4 DEF Through, Enter, Entering, ClientsUnchanged, programs
<1>6. PICK n \in RoomNames : n = request[u].room
  BY <1>2
<1>7. PICK l \in Seq(Deliveries) : l = log[n]
  BY <1>1 DEF TypeOK
<1>8. member'[u] = n /\ log'[n] = l /\ since'[u] = Len(l)
  BY <1>1, <1>6, <1>7 DEF Enter, Entering, TypeOK
<1>9. SubSeq(l, Len(l) + 1, Len(l)) = <<>>
  OBVIOUS
<1>10. Expected(u)' = <<>>
  <2>1. Kept(<<>>, Foreign(u)) = <<>>
    BY KeptEmpty
  <2>2. Foreign(u)' = Foreign(u)
    BY DEF Foreign, Deliveries
  <2> QED
    BY <1>8, <1>9, <2>1, <2>2 DEF Expected
<1> QED
  BY <1>5, <1>10

\* A post is appended to the queues of those who are to get it, and to what they
\* are to get.
LEMMA PostThrough ==
  ASSUME IInv, NEW c \in Clients, Post(c), NEW u \in Receivers, member[u] # NoRoom, EndToEnd
  PROVE  Through(u)' = Expected(u)'
<1>1. TypeOK /\ ConnectionKnows(u) /\ u \in Clients /\ Through(u) = Expected(u)
  BY DEF IInv, Clients, EndToEnd, Through
<1>2. PICK m \in Deliveries :
         /\ m.from = Username[c] /\ m.room = member[c]
         /\ log' = [log EXCEPT ![member[c]] = Append(@, m)]
         /\ mqueue' = [v \in Clients |->
                         IF member[v] = member[c] /\ Username[v] # Username[c]
                         THEN Append(mqueue[v], m)
                         ELSE mqueue[v]]
  BY PostIsCurrent
<1>3. UNCHANGED <<printed, toClient, member, since>>
  BY DEF Post, ClientsUnchanged, programs
<1>4. PICK n \in RoomNames : n = member[u]
  BY <1>1 DEF TypeOK
<1>5. PICK l \in Seq(Deliveries) : l = log[n]
  BY <1>1 DEF TypeOK
<1>6. PICK k \in 0..Len(l) : k = since[u]
  BY <1>1, <1>4, <1>5 DEF TypeOK, ConnectionKnows
<1>7. PICK p \in Seq(Deliveries) : p = printed[u] \o Kept(toClient[u], Deliveries)
  <2>1. Kept(toClient[u], Deliveries) \in Seq((Responses \cup Deliveries) \cap Deliveries)
    BY <1>1, KeptType DEF TypeOK
  <2>2. (Responses \cup Deliveries) \cap Deliveries = Deliveries
    OBVIOUS
  <2> QED
    BY <1>1, <2>1, <2>2, ConcatProperties DEF TypeOK
<1>8. PICK q \in Seq(Deliveries) : q = mqueue[u]
  BY <1>1 DEF TypeOK
<1>9. PICK r \in Seq(Deliveries) : r = SubSeq(l, k + 1, Len(l))
  <2>1. SubSeq(l, k + 1, Len(l)) \in Seq(Deliveries)
    BY SubSeqProperties
  <2> QED
    BY <2>1
<1>10. p \o q = Kept(r, Foreign(u))
  BY <1>1, <1>4, <1>5, <1>6, <1>7, <1>8, <1>9 DEF Through, Expected
<1>11. Foreign(u)' = Foreign(u)
  BY DEF Foreign, Deliveries
<1>12. CASE n # member[c]
  <2>1. log'[n] = l /\ mqueue'[u] = q
    BY <1>1, <1>2, <1>4, <1>5, <1>8, <1>12 DEF TypeOK
  <2> QED
    BY <1>3, <1>4, <1>6, <1>7, <1>9, <1>10, <1>11, <2>1 DEF Through, Expected
<1>13. CASE n = member[c]
  <2>1. log'[n] = Append(l, m) /\ Len(Append(l, m)) = Len(l) + 1
    BY <1>1, <1>2, <1>4, <1>5, <1>13 DEF TypeOK
  <2>2. SubSeq(Append(l, m), k + 1, Len(l) + 1) = Append(r, m)
    BY <1>9, AppendedRest
  <2>3. Expected(u)' = Kept(Append(r, m), Foreign(u))
    BY <1>3, <1>4, <1>6, <1>11, <2>1, <2>2 DEF Expected
  <2>4. Kept(Append(r, m), Foreign(u)) = IF m \in Foreign(u) THEN Append(p \o q, m) ELSE p \o q
    BY <1>10, KeptAppend
  <2>5. m \in Foreign(u) <=> Username[u] # Username[c]
    BY <1>2 DEF Foreign
  <2>6. mqueue'[u] = IF Username[u] # Username[c] THEN Append(q, m) ELSE q
    BY <1>1, <1>2, <1>4, <1>8, <1>13
  <2>7. p \o Append(q, m) = Append(p \o q, m)
    BY AppendedWhole
  <2>8. Through(u)' = p \o mqueue'[u]
    BY <1>3, <1>7 DEF Through
  <2> QED
    BY <2>3, <2>4, <2>5, <2>6, <2>7, <2>8
<1> QED
  BY <1>12, <1>13

\* What is on its way is taken at one end and put at the other.
LEMMA PassedOn ==
  ASSUME IInv, NEW c \in Receivers, StepOf(c), member[c] # NoRoom, member'[c] # NoRoom, ~Enter(c)
  PROVE  Through(c)' = Through(c)
<1>1. TypeOK /\ ReceiverKnows(c) /\ ConnectionKnows(c) /\ c \in Clients /\ c \notin Senders
  BY ClientsAssumption DEF IInv, Clients
<1>2. PICK p \in Seq(Deliveries) : p = printed[c]
  BY <1>1 DEF TypeOK
<1>3. PICK s \in Seq(Responses \cup Deliveries) : s = toClient[c]
  BY <1>1 DEF TypeOK
<1>4. PICK q \in Seq(Deliveries) : q = mqueue[c]
  BY <1>1 DEF TypeOK
<1>5. \A t \in Seq(Responses \cup Deliveries) : Kept(t, Deliveries) \in Seq(Deliveries)
  <2>1. (Responses \cup Deliveries) \cap Deliveries = Deliveries
    OBVIOUS
  <2> QED
    BY <2>1, KeptType
<1>6. PICK k \in Seq(Deliveries) : k = Kept(s, Deliveries)
  BY <1>5
<1>7. Through(c) = p \o k \o q
  BY <1>2, <1>3, <1>4, <1>6 DEF Through
<1> USE DEF Goes, ServerUnchanged, ClientsUnchanged, Moves, programs, threads, rooms
<1>8. CASE \/ Connect(c) \/ ConnectFails(c) \/ Killed(c) \/ ServerGone(c) \/ ServeLogin(c)
           \/ ClientGone(c)
  BY <1>8 DEF Connect, ConnectFails, Killed, ServerGone, ServeLogin, ClientGone, Faults, Through
<1>9. CASE ReceiverJoins(c) \/ Listen(c)
  <2>1. s # <<>> /\ toClient'[c] = Tail(s) /\ mqueue' = mqueue
    BY <1>1, <1>3, <1>9 DEF ReceiverJoins, Listen, Arrives, TypeOK
  <2>2. Tail(s) \in Seq(Responses \cup Deliveries) /\ Head(s) \in Responses \cup Deliveries
    BY <2>1, HeadTailProperties
  <2>3. PICK j \in Seq(Deliveries) : j = Kept(Tail(s), Deliveries)
    BY <1>5, <2>2
  <2>4. k = IF Head(s) \in Deliveries THEN <<Head(s)>> \o j ELSE j
    BY <1>6, <2>1, <2>3, KeptHead
  <2>5. printed'[c] = IF Head(s) \in Deliveries THEN Append(p, Head(s)) ELSE p
    <3>1. CASE ReceiverJoins(c)
      <4>1. Head(s) \in Responses
        BY <1>1, <1>3, <2>1, <3>1 DEF ReceiverJoins, ReceiverKnows
      <4> QED
        BY <1>2, <3>1, <4>1, Disjoint DEF ReceiverJoins
    <3>2. CASE Listen(c)
      BY <1>1, <1>2, <1>3, <2>2, <3>2, Disjoint DEF Listen, TypeOK
    <3> QED
      BY <1>9, <3>1, <3>2
  <2>6. Head(s) \in Deliveries => p \o (<<Head(s)>> \o j) = Append(p, Head(s)) \o j
    BY HeadedWhole
  <2>7. Through(c)' = printed'[c] \o j \o q
    BY <1>4, <2>1, <2>3 DEF Through, Deliveries
  <2> QED
    BY <1>7, <2>4, <2>5, <2>6, <2>7
<1>10. CASE Answer(c)
  <2>1. /\ toClient'[c] = Append(s, reply[c]) /\ reply[c] \in Responses
        /\ printed' = printed /\ mqueue' = mqueue
    BY <1>1, <1>3, <1>10 DEF Answer, ConnectionKnows, TypeOK
  <2>2. reply[c] \notin Deliveries
    BY <2>1, Disjoint
  <2>3. Kept(Append(s, reply[c]), Deliveries) = k
    <3>1. PICK M : M = Responses \cup Deliveries
      OBVIOUS
    <3>2. PICK e \in M : e = reply[c]
      BY <2>1, <3>1
    <3>3. PICK S : S = Deliveries
      OBVIOUS
    <3>4. s \in Seq(M) /\ e \notin S
      BY <2>2, <3>1, <3>2, <3>3
    <3>5. Kept(Append(s, e), S) = Kept(s, S)
      BY <3>4, KeptAppend
    <3> QED
      BY <1>6, <3>2, <3>3, <3>5
  <2> QED
    BY <1>2, <1>4, <1>7, <2>1, <2>3 DEF Through, Deliveries
<1>11. CASE Deliver(c)
  <2>1. /\ q # <<>> /\ toClient'[c] = Append(s, Head(q)) /\ mqueue'[c] = Tail(q)
        /\ printed' = printed
    BY <1>1, <1>3, <1>4, <1>11 DEF Deliver, Sending, TypeOK
  <2>2. PICK e \in Deliveries : e = Head(q)
    BY <2>1, HeadTailProperties
  <2>3. Kept(Append(s, e), Deliveries) = Append(k, e)
    <3>1. PICK M : M = Responses \cup Deliveries
      OBVIOUS
    <3>2. s \in Seq(M) /\ e \in M
      BY <3>1
    <3> QED
      BY <1>6, <3>2, KeptAppend
  <2>4. p \o k \in Seq(Deliveries) /\ p \o Append(k, e) = Append(p \o k, e)
    BY AppendedWhole, ConcatProperties
  <2>5. Append(p \o k, Head(q)) \o Tail(q) = (p \o k) \o q
    BY <2>1, <2>4, TakenWhole
  <2>6. Through(c)' = p \o Append(k, e) \o Tail(q)
    BY <1>2, <2>1, <2>2, <2>3 DEF Through, Deliveries
  <2> QED
    BY <1>7, <2>2, <2>4, <2>5, <2>6
<1>12. CASE \/ ServeJoin(c) \/ \E name \in RoomNames : ReceiverLogsIn(c, name)
  <2>1. ~ServeJoin(c)
    BY <1>1 DEF ServeJoin, TypeOK
  <2> QED
    BY <1>1, <1>12, <2>1 DEF ReceiverLogsIn, ReceiverKnows
<1> QED
  BY <1>8, <1>9, <1>10, <1>11, <1>12, ReceiverActions

LEMMA EndToEndStep ==
  ASSUME IInv, NEW c \in Clients, StepOf(c)
  PROVE  EndToEnd'
<1>1. SUFFICES ASSUME NEW u \in Receivers, member'[u] # NoRoom
               PROVE  Through(u)' = Expected(u)'
  BY DEF EndToEnd, Through
<1>2. TypeOK /\ ReceiverKnows(u) /\ u \in Clients /\ EndToEnd
  BY DEF IInv, Clients
<1>3. CASE u = c /\ Enter(c)
  BY <1>3, EnterThrough
<1>4. CASE ~(u = c /\ Enter(c))
  <2>1. member'[u] = member[u] /\ since'[u] = since[u] /\ member[u] # NoRoom
    <3>1. CASE u # c
      BY <1>1, <1>2, <3>1, OthersUntouched DEF Untouched
    <3>2. CASE u = c
      BY <1>1, <1>2, <1>4, <3>2, ReceiverActions
         DEF Connect, ConnectFails, Killed, ServerGone, ReceiverLogsIn, ReceiverJoins, Listen,
             ServeLogin, ServeJoin, Answer, Deliver, Sending, ClientGone, Faults,
             ServerUnchanged, rooms, TypeOK
    <3> QED
      BY <3>1, <3>2
  <2>2. CASE Post(c)
    BY <1>2, <2>1, <2>2, PostThrough
  <2>3. CASE ~Post(c)
    <3>1. log' = log
      BY <2>3, LogKept
    <3>2. Expected(u)' = Expected(u)
      BY <2>1, <3>1 DEF Expected, Foreign, Deliveries
    <3>3. Through(u)' = Through(u)
      <4>1. CASE u = c
        BY <1>1, <1>4, <2>1, <4>1, PassedOn
      <4>2. CASE u # c
        BY <1>2, <2>3, <4>2, OthersUntouched DEF Untouched, Through, Deliveries
      <4> QED
        BY <4>1, <4>2
    <3>4. Through(u) = Expected(u)
      BY <1>2, <2>1 DEF EndToEnd, Through
    <3> QED
      BY <3>2, <3>3, <3>4
  <2> QED
    BY <2>2, <2>3
<1> QED
  BY <1>3, <1>4

-----------------------------------------------------------------------------
(* The theorems.                                                             *)

LEMMA InitIInv == Init => IInv
<1> SUFFICES ASSUME Init
             PROVE  IInv
  OBVIOUS
<1>1. TypeOK
  BY TypeInit
<1>2. \A c \in Clients : ConnectionKnows(c)
  BY DEF Init, ConnectionKnows, Starting
<1>3. ASSUME NEW c \in Senders
      PROVE  SenderKnows(c)
  <2>1. \A i : ~Posted(c, i)
    BY DEF Init, Posted
  <2> QED
    BY <2>1, BoundAssumption DEF Init, SenderKnows, Starting, Clients
<1>4. ASSUME NEW c \in Receivers
      PROVE  ReceiverKnows(c)
  BY EmptySeq DEF Init, ReceiverKnows, Starting, Clients
<1>5. AnswersMatch
  BY DEF Init, AnswersMatch, Clients
<1>6. EndToEnd
  BY DEF Init, EndToEnd, Clients
<1> QED
  BY <1>1, <1>2, <1>3, <1>4, <1>5, <1>6 DEF IInv

LEMMA StepIInv == IInv /\ [Next]_vars => IInv'
<1> SUFFICES ASSUME IInv, [Next]_vars
             PROVE  IInv'
  OBVIOUS
<1>1. CASE Next
  <2>1. PICK c \in Clients : StepOf(c)
    BY <1>1, StepCases
  <2>2. TypeOK'
    BY <2>1, TypeStep
  <2>3. \A d \in Clients : ConnectionKnows(d)'
    BY <2>1, ConnectionStep, OthersKnow
  <2>4. \A d \in Senders : SenderKnows(d)'
    BY <2>1, SenderStep, OthersKnow DEF Clients
  <2>5. \A d \in Receivers : ReceiverKnows(d)'
    BY <2>1, ReceiverStep, OthersKnow DEF Clients
  <2>6. AnswersMatch' /\ EndToEnd'
    BY <2>1, AnswersStep, EndToEndStep
  <2> QED
    BY <2>2, <2>3, <2>4, <2>5, <2>6 DEF IInv
<1>2. CASE UNCHANGED vars
  <2> USE <1>2 DEF vars, programs, threads, rooms
  <2>1. TypeOK'
    BY DEF IInv, TypeOK
  <2>2. \A c \in Clients : ConnectionKnows(c)'
    BY DEF IInv, ConnectionKnows
  <2>3. \A c \in Senders : SenderKnows(c)'
    BY DEF IInv, SenderKnows, Fits, Current, Posted
  <2>4. \A c \in Receivers : ReceiverKnows(c)'
    BY DEF IInv, ReceiverKnows
  <2>5. AnswersMatch'
    BY DEF IInv, AnswersMatch, Posted
  <2>6. EndToEnd'
    BY DEF IInv, EndToEnd, Expected, Foreign
  <2> QED
    BY <2>1, <2>2, <2>3, <2>4, <2>5, <2>6 DEF IInv
<1> QED
  BY <1>1, <1>2

LEMMA Inductive == Spec => []IInv
BY InitIInv, StepIInv, PTL DEF Spec

\* Requests and responses on a connection, in the hands of a client or of its
\* thread, are such as the program sends: a sender never takes a delivery for the
\* response to a command (Sender main, chat_with_sender, chat_with_receiver).
THEOREM TypeCorrect == Spec => []TypeOK
<1>1. IInv => TypeOK
  BY DEF IInv
<1> QED
  BY Inductive, <1>1, PTL

\* The response a sender takes for that to a command is the response to that
\* command, and a sendall is answered ok exactly if it was posted to a room: for
\* any clients, names, rooms and commands, and with clients and the server
\* ending where they may (sender.cpp main, Server::chat_with_sender).
THEOREM AnswersCorrect == Spec => []AnswersMatch
<1>1. IInv => AnswersMatch
  BY DEF IInv
<1> QED
  BY Inductive, <1>1, PTL

\* What a receiver has printed, what is on the way to it and what is in its
\* queue are just what others posted to its room since it came, once and in order
\* (receiver.cpp main, Server::chat_with_receiver, Room::broadcast_message).
THEOREM DeliveredFromEndToEnd == Spec => []EndToEnd
<1>1. IInv => EndToEnd
  BY DEF IInv
<1> QED
  BY Inductive, <1>1, PTL
=============================================================================
