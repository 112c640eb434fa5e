------------------------------- MODULE Session -------------------------------
(***************************************************************************)
(* The sender and receiver clients and the threads that serve them, with a *)
(* connection between each two.  A connection carries whole messages, for  *)
(* Wire shows that it does if they are short; entering, leaving and        *)
(* posting to a room are one step each, for ChatServer is shown to         *)
(* implement ChatRooms.                                                    *)
(***************************************************************************)
EXTENDS Integers, FiniteSets, SequencesExt

CONSTANTS
  Senders,      \* runs of the program sender
  Receivers,    \* runs of the program receiver
  Mortals,      \* clients that may be killed
  RoomNames,    \* names of rooms
  Username,     \* the name each client was started with
  NoRoom,       \* not in a room
  MaxCommands   \* bound on the commands of one sender

Clients == Senders \cup Receivers

ASSUME ClientsAssumption == Senders \cap Receivers = {} /\ Mortals \subseteq Clients
ASSUME NamesAssumption == DOMAIN Username = Clients /\ NoRoom \notin RoomNames
ASSUME BoundAssumption == MaxCommands \in Nat

VARIABLES
  client,    \* where the program of each client is
  commands,  \* the commands each sender has sent, oldest first
  answers,   \* the responses it took, each with the number of its command
  printed,   \* what each receiver printed
  toServer,  \* messages from each client on their way
  toClient,  \* messages to it
  up,        \* the server's process is alive
  thread,    \* where the thread of each connection is
  request,   \* the message it is serving
  reply,     \* the response it is about to send
  joined,    \* its variable room is not null
  member,    \* the room its user is in
  mqueue,    \* the queue of its user
  log,       \* what was posted to each room
  since      \* how much of it was posted before each user came

programs == <<client, commands, answers, printed>>
threads == <<thread, request, reply, joined>>
rooms == <<member, log, since>>
vars == <<programs, toServer, toClient, up, threads, rooms, mqueue>>

Message(tag, room, id) == [tag |-> tag, room |-> room, id |-> id]
Plain(tag) == Message(tag, NoRoom, 0)
None == Plain("none")

Init == /\ client = [c \in Clients |-> "start"]
        /\ commands = [c \in Clients |-> <<>>]
        /\ answers = [c \in Clients |-> <<>>]
        /\ printed = [c \in Clients |-> <<>>]
        /\ toServer = [c \in Clients |-> <<>>]
        /\ toClient = [c \in Clients |-> <<>>]
        /\ up = TRUE
        /\ thread = [c \in Clients |-> "none"]
        /\ request = [c \in Clients |-> None]
        /\ reply = [c \in Clients |-> None]
        /\ joined = [c \in Clients |-> FALSE]
        /\ member = [c \in Clients |-> NoRoom]
        /\ mqueue = [c \in Clients |-> <<>>]
        /\ log = [n \in RoomNames |-> <<>>]
        /\ since = [c \in Clients |-> 0]

-----------------------------------------------------------------------------
(* The clients *)

Goes(c, from, to) == client[c] = from /\ client' = [client EXCEPT ![c] = to]
Sends(c, m) == toServer' = [toServer EXCEPT ![c] = Append(@, m)]
Arrives(c) == /\ toClient[c] # <<>>
              /\ toClient' = [toClient EXCEPT ![c] = Tail(@)]
ServerUnchanged == UNCHANGED <<up, threads, rooms, mqueue>>

\* open_clientfd succeeds while the server listens.  The thread starts later, or
\* never: that pthread_create failed is not noticed.
Connect(c) == /\ up
              /\ Goes(c, "start", "login")
              /\ Sends(c, Plain(IF c \in Senders THEN "slogin" ELSE "rlogin"))
              /\ \E t \in {"login", "lost"} : thread' = [thread EXCEPT ![c] = t]
              /\ UNCHANGED <<commands, answers, printed, toClient, up, request, reply, joined,
                             rooms, mqueue>>

ConnectFails(c) == /\ ~up
                   /\ Goes(c, "start", "failed")
                   /\ ServerUnchanged
                   /\ UNCHANGED <<commands, answers, printed, toServer, toClient>>

\* The response to slogin, before the loop of commands.
SenderLogsIn(c) == /\ c \in Senders
                   /\ Arrives(c)
                   /\ Goes(c, "login", IF Head(toClient[c]).tag = "err" THEN "failed" ELSE "command")
                   /\ ServerUnchanged
                   /\ UNCHANGED <<commands, answers, printed, toServer>>

\* The response to rlogin, and the join.
ReceiverLogsIn(c, name) ==
  LET ok == Head(toClient[c]).tag # "err"
  IN  /\ c \in Receivers
      /\ Arrives(c)
      /\ Goes(c, "login", IF ok THEN "joining" ELSE "failed")
      /\ toServer' = [toServer EXCEPT ![c] =
                         @ \o (IF ok THEN <<Message("join", name, 0)>> ELSE <<>>)]
      /\ ServerUnchanged
      /\ UNCHANGED <<commands, answers, printed>>

\* The response to the join: whatever comes first is taken for it.
ReceiverJoins(c) == /\ Arrives(c)
                    /\ Goes(c, "joining", IF Head(toClient[c]).tag = "err" THEN "failed" ELSE "listening")
                    /\ ServerUnchanged
                    /\ UNCHANGED <<commands, answers, printed, toServer>>

\* Deliveries are printed, and what is not a delivery is passed over.
Listen(c) == LET m == Head(toClient[c])
             IN  /\ Arrives(c)
                 /\ Goes(c, "listening", IF m.tag = "err" THEN "failed" ELSE "listening")
                 /\ printed' = [printed EXCEPT ![c] =
                                  IF m.tag = "delivery" THEN Append(@, m) ELSE @]
                 /\ ServerUnchanged
                 /\ UNCHANGED <<commands, answers, toServer>>

\* A line of the standard input: a command, or a text to be sent to all, which
\* is empty for ever at the end of the input.
UserCommands == {Plain("leave"), Plain("quit"), Plain("sendall")}
                  \cup {Message("join", n, 0) : n \in RoomNames}

Command(c, q) == LET m == [q EXCEPT !.id = Len(commands[c]) + 1]
                 IN  /\ Len(commands[c]) < MaxCommands
                     /\ Goes(c, "command", "waiting")
                     /\ commands' = [commands EXCEPT ![c] = Append(@, m)]
                     /\ Sends(c, m)
                     /\ ServerUnchanged
                     /\ UNCHANGED <<answers, printed, toClient>>

\* One response for each command; after that to quit the program ends.
Answered(c) == /\ Arrives(c)
               /\ Goes(c, "waiting", IF Last(commands[c]).tag = "quit" THEN "done" ELSE "command")
               /\ answers' = [answers EXCEPT ![c] =
                                  Append(@, [to |-> Len(commands[c]), got |-> Head(toClient[c])])]
               /\ ServerUnchanged
               /\ UNCHANGED <<commands, printed, toServer>>

Receiving == {"login", "joining", "listening", "waiting"}

\* The server has ended: receive fails, or faults on a buffer that nobody wrote
\* to.  (A connection whose thread ended has had its last response.)
ServerGone(c) == /\ client[c] \in Receiving
                 /\ toClient[c] = <<>>
                 /\ ~up
                 /\ Goes(c, client[c], "failed") \/ Goes(c, client[c], "crashed")
                 /\ ServerUnchanged
                 /\ UNCHANGED <<commands, answers, printed, toServer, toClient>>

Killed(c) == /\ c \in Mortals
             /\ client[c] \in Receiving \cup {"command"}
             /\ Goes(c, client[c], "killed")
             /\ ServerUnchanged
             /\ UNCHANGED <<commands, answers, printed, toServer, toClient>>

-----------------------------------------------------------------------------
(* The server's threads *)

Moves(c, from, to) == up /\ thread[c] = from /\ thread' = [thread EXCEPT ![c] = to]
Takes(c) == /\ toServer[c] # <<>>
            /\ toServer' = [toServer EXCEPT ![c] = Tail(@)]
            /\ request' = [request EXCEPT ![c] = Head(toServer[c])]
Replies(c, tag, id) == reply' = [reply EXCEPT ![c] = Message(tag, NoRoom, id)]
ClientsUnchanged == UNCHANGED <<programs, up>>

ServeLogin(c) == /\ Moves(c, "login", "answer")
                 /\ Takes(c)
                 /\ Replies(c, "ok", 0)
                 /\ ClientsUnchanged
                 /\ UNCHANGED <<toClient, joined, rooms, mqueue>>

\* A join begins with leaving the room; that of a receiver is its first request.
ServeJoin(c) == /\ Moves(c, IF c \in Senders THEN "serve" ELSE "first", "enter")
                /\ Takes(c)
                /\ Head(toServer[c]).tag = "join"
                /\ member' = [member EXCEPT ![c] = NoRoom]
                /\ ClientsUnchanged
                /\ UNCHANGED <<toClient, reply, joined, log, since, mqueue>>

Entering(c, next) == LET name == request[c].room
                     IN  /\ Moves(c, "enter", next)
                         /\ member' = [member EXCEPT ![c] = name]
                         /\ joined' = [joined EXCEPT ![c] = TRUE]
                         /\ since' = [since EXCEPT ![c] = Len(log[name])]
                         /\ Replies(c, "ok", request[c].id)
                         /\ ClientsUnchanged
                         /\ UNCHANGED <<toServer, toClient, request, log, mqueue>>

\* Mutant: a receiver is served its queue without a response to its join.
EnterUnanswered(c) == Entering(c, IF c \in Senders THEN "answer" ELSE "deliver")

Enter(c) == Entering(c, "answer")

ServeLeave(c) == /\ joined[c]
                 /\ Moves(c, "serve", "answer")
                 /\ Takes(c)
                 /\ Head(toServer[c]).tag = "leave"
                 /\ member' = [member EXCEPT ![c] = NoRoom]
                 /\ Replies(c, IF member[c] # NoRoom THEN "ok" ELSE "err", Head(toServer[c]).id)
                 /\ ClientsUnchanged
                 /\ UNCHANGED <<toClient, joined, log, since, mqueue>>

Faults == /\ up /\ up' = FALSE
          /\ UNCHANGED <<programs, toServer, toClient, threads, rooms, mqueue>>

\* leave follows room without a look.
LeaveFaults(c) == /\ ~joined[c]
                  /\ thread[c] = "serve"
                  /\ toServer[c] # <<>> /\ Head(toServer[c]).tag = "leave"
                  /\ Faults

ServeQuit(c) == /\ Moves(c, "serve", "answer")
                /\ Takes(c)
                /\ Head(toServer[c]).tag = "quit"
                /\ Replies(c, "ok", Head(toServer[c]).id)
                /\ ClientsUnchanged
                /\ UNCHANGED <<toClient, joined, rooms, mqueue>>

Delivery(c, id) == [tag |-> "delivery", room |-> member[c], from |-> Username[c],
                    by |-> c, id |-> id]

\* A sendall from a member.
Post(c) == LET m == Delivery(c, Head(toServer[c]).id)
           IN  /\ member[c] # NoRoom
               /\ Moves(c, "serve", "answer")
               /\ Takes(c)
               /\ Head(toServer[c]).tag = "sendall"
               /\ log' = [log EXCEPT ![member[c]] = Append(@, m)]
               /\ mqueue' = [u \in Clients |->
                               IF member[u] = member[c] /\ Username[u] # Username[c]
                               THEN Append(mqueue[u], m)
                               ELSE mqueue[u]]
               /\ Replies(c, "ok", m.id)
               /\ ClientsUnchanged
               /\ UNCHANGED <<toClient, joined, member, since>>

Refusal(c, next) == /\ member[c] = NoRoom
                    /\ Moves(c, "serve", next)
                    /\ Takes(c)
                    /\ Head(toServer[c]).tag = "sendall"
                    /\ Replies(c, "err", Head(toServer[c]).id)
                    /\ ClientsUnchanged
                    /\ UNCHANGED <<toClient, joined, rooms, mqueue>>

\* Mutant: a sendall that is refused gets no response.
RefuseSilently(c) == Refusal(c, "serve")

\* A sendall from a user in no room.
Refuse(c) == Refusal(c, "answer")

\* Where the thread goes on when the response is sent.
After(c) == CASE request[c].tag = "quit" -> "closed"
              [] request[c].tag = "rlogin" -> "first"
              [] request[c].tag # "rlogin" /\ c \in Receivers -> "deliver"
              [] request[c].tag # "quit" /\ c \in Senders -> "serve"

\* Mutant: the response is sent twice.
AnswerTwice(c) == /\ Moves(c, "answer", After(c))
                  /\ toClient' = [toClient EXCEPT ![c] = @ \o <<reply[c], reply[c]>>]
                  /\ ClientsUnchanged
                  /\ UNCHANGED <<toServer, request, reply, joined, rooms, mqueue>>

Answer(c) == /\ Moves(c, "answer", After(c))
             /\ toClient' = [toClient EXCEPT ![c] = Append(@, reply[c])]
             /\ ClientsUnchanged
             /\ UNCHANGED <<toServer, request, reply, joined, rooms, mqueue>>

Sending(c, next) == /\ Moves(c, "deliver", next)
                    /\ mqueue[c] # <<>>
                    /\ toClient' = [toClient EXCEPT ![c] = Append(@, Head(mqueue[c]))]
                    /\ mqueue' = [mqueue EXCEPT ![c] = Tail(@)]
                    /\ ClientsUnchanged
                    /\ UNCHANGED <<toServer, request, reply, joined, rooms>>

\* Mutants: the thread of a receiver returns after a delivery; a dequeue that
\* timed out is sent like one that did not.
DeliverOnce(c) == Sending(c, "left")

DeliverUnchecked(c) == /\ Moves(c, "deliver", "deliver")
                       /\ toClient' = [toClient EXCEPT ![c] =
                            Append(@, IF mqueue[c] = <<>> THEN None ELSE Head(mqueue[c]))]
                       /\ mqueue' = [mqueue EXCEPT ![c] = IF @ = <<>> THEN @ ELSE Tail(@)]
                       /\ ClientsUnchanged
                       /\ UNCHANGED <<toServer, request, reply, joined, rooms>>

Deliver(c) == Sending(c, "deliver")

\* The thread of a client that is gone finds out when it receives; what was on
\* the way may be lost.  (Or it serves a request that was refused once more,
\* which changes nothing but what is sent to nobody.)
Gone == {"done", "failed", "crashed", "killed"}
ClientGone(c) == /\ client[c] \in Gone
                 /\ thread[c] \in {"login", "serve", "first"}
                 /\ \/ /\ Moves(c, thread[c], IF thread[c] = "serve" THEN "closed" ELSE "left")
                       /\ ClientsUnchanged
                       /\ UNCHANGED <<toServer, toClient, request, reply, joined, rooms, mqueue>>
                    \/ Faults

-----------------------------------------------------------------------------

\* What users do.
Users(c) == \/ Connect(c) \/ ConnectFails(c) \/ Killed(c)
            \/ \E q \in UserCommands : Command(c, q)

Program(c) == \/ SenderLogsIn(c) \/ \E name \in RoomNames : ReceiverLogsIn(c, name)
              \/ ReceiverJoins(c) \/ Listen(c) \/ Answered(c) \/ ServerGone(c)

Thread(c) == \/ ServeLogin(c) \/ ServeJoin(c) \/ Enter(c) \/ ServeLeave(c) \/ LeaveFaults(c)
             \/ ServeQuit(c) \/ Post(c) \/ Refuse(c) \/ Answer(c) \/ Deliver(c)

Next == \E c \in Clients : Users(c) \/ Program(c) \/ Thread(c) \/ ClientGone(c)

Spec == Init /\ [][Next]_vars

\* Programs and threads run.  Users owe nothing.
FairSpec == Spec /\ \A c \in Clients : WF_vars(Program(c)) /\ WF_vars(Thread(c))

-----------------------------------------------------------------------------
(* Properties *)

Places == {"start", "command"} \cup Receiving \cup Gone
Labels == {"none", "login", "serve", "first", "enter", "answer", "deliver", "closed", "left",
           "lost"}
Requests == [tag : {"slogin", "rlogin", "join", "leave", "sendall", "quit"},
             room : RoomNames \cup {NoRoom}, id : 0..MaxCommands]
Responses == [tag : {"ok", "err"}, room : {NoRoom}, id : 0..MaxCommands]
Deliveries == [tag : {"delivery"}, room : RoomNames, from : {Username[c] : c \in Clients},
               by : Senders, id : 1..MaxCommands]

TypeOK == /\ client \in [Clients -> Places]
          /\ commands \in [Clients -> Seq(Requests)]
          /\ answers \in [Clients -> Seq([to : 1..MaxCommands, got : Responses])]
          /\ printed \in [Clients -> Seq(Deliveries)]
          /\ toServer \in [Clients -> Seq(Requests)]
          /\ toClient \in [Clients -> Seq(Responses \cup Deliveries)]
          /\ up \in BOOLEAN
          /\ thread \in [Clients -> Labels]
          /\ request \in [Clients -> Requests \cup {None}]
          /\ reply \in [Clients -> Responses \cup {None}]
          /\ joined \in [Clients -> BOOLEAN]
          /\ member \in [Clients -> RoomNames \cup {NoRoom}]
          /\ mqueue \in [Clients -> Seq(Deliveries)]
          /\ log \in [RoomNames -> Seq(Deliveries)]
          /\ since \in [Clients -> Nat]

Posted(c, i) == \E n \in RoomNames : \E j \in DOMAIN log[n] : log[n][j].by = c /\ log[n][j].id = i

\* The response a sender takes for that to a command is the response to that
\* command, and a sendall is answered ok exactly if it was posted.
AnswersMatch == \A c \in Senders : \A i \in DOMAIN answers[c] :
                   LET a == answers[c][i]
                   IN  /\ a.to = i /\ a.got.id = i
                       /\ commands[c][i].tag = "sendall" => (a.got.tag = "ok" <=> Posted(c, i))

\* The elements of s that are in S, in their order.  (As SelectSeq, with a set
\* instead of an operator.)
Keeps(s, S) == LET kept[n \in 0..Len(s)] == IF n = 0 THEN <<>>
                                            ELSE IF s[n] \in S THEN Append(kept[n - 1], s[n])
                                            ELSE kept[n - 1]
               IN  kept
Kept(s, S) == Keeps(s, S)[Len(s)]

\* What was posted to the room of a user since it came, but for what users with
\* its own name posted.
Foreign(u) == {m \in Deliveries : m.from # Username[u]}
Expected(u) == Kept(SubSeq(log[member[u]], since[u] + 1, Len(log[member[u]])), Foreign(u))

\* From end to end: what a receiver has printed, what is on the way to it and
\* what is in its queue are just that, once and in order.
EndToEnd == \A c \in Receivers : member[c] # NoRoom =>
               printed[c] \o Kept(toClient[c], Deliveries) \o mqueue[c] = Expected(c)

\* No client waits for a response for ever, whatever becomes of the server: each
\* request has its response, on every way through the code, or the connection
\* ends.  (But for a client that was given no thread.)
NobodyWaits ==
  \A c \in Clients :
     /\ client[c] = "waiting" ~> client[c] # "waiting"
     /\ client[c] \in {"login", "joining"} /\ thread[c] # "lost"
           ~> client[c] \notin {"login", "joining"}

\* A receiver prints what was posted to its room, all of it, unless it or the
\* server ends: its thread goes on from one message to the next.
Heard == \A c \in Receivers : \A n \in 1..MaxCommands * Cardinality(Senders) :
            member[c] # NoRoom /\ Len(Expected(c)) >= n
               ~> Len(printed[c]) >= n \/ client[c] \in Gone \/ ~up
=============================================================================
