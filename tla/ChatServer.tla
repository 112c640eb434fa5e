------------------------------ MODULE ChatServer ------------------------------
(***************************************************************************)
(* The chat server: the threads of server.cpp and the rooms of room.cpp.   *)
(* A connection c has a thread of its own (worker) and, once logged in, a  *)
(* User; c stands for all three.  One action is one access to what threads *)
(* share, with the thread's own work up to it; the queue of a User is the  *)
(* atomic queue that module MessageQueue is shown to implement.            *)
(***************************************************************************)
EXTENDS Integers, Sequences

CONSTANTS
  Senders,      \* connections that log in with slogin
  Receivers,    \* connections that log in with rlogin
  Closers,      \* connections whose client may stop without quit
  RoomNames,    \* the names clients give to rooms
  Username,     \* the name each client logs in with
  NoRoom,       \* a null Room pointer
  Nobody,       \* owner of a free mutex
  MaxSendalls   \* bound on the sendall requests

Conns == Senders \cup Receivers

\* Room objects: the connection whose thread created the room is part of its
\* identity, so that one name could have two rooms.
Rooms == RoomNames \X Conns
NameOf(r) == r[1]

ASSUME ConnsAssumption == /\ Senders \cap Receivers = {}
                          /\ Closers \subseteq Conns
                          /\ Nobody \notin Conns
ASSUME NamesAssumption == DOMAIN Username = Conns
ASSUME NullAssumption == NoRoom \notin Rooms \cup RoomNames
ASSUME BoundAssumption == MaxSendalls \in Nat

VARIABLES
  up,          \* the process is alive
  pc,          \* where the thread of each connection is
  connected,   \* the client may still send requests
  request,     \* the message in the buffer of each thread's receive
  reply,       \* the response to it, "none" while there is none
  sendalls,    \* sendall requests so far
  m_lock,      \* owner of Server::m_lock
  m_rooms,     \* Server::m_rooms, by name
  room,        \* the variable room of each thread
  lock,        \* owner of the lock of each Room
  members,     \* the members of each Room
  visited,     \* members the running broadcast has posted to
  mqueue,      \* the message queue of each User
  sent         \* what chat_with_receiver has sent to each client

client == <<connected, request, reply, sendalls>>
registry == <<m_lock, m_rooms>>
queues == <<visited, mqueue, sent>>
vars == <<up, pc, client, registry, room, lock, members, queues>>

NoRequest == [tag |-> "none"]
Join(name) == [tag |-> "join", room |-> name]
Leave == [tag |-> "leave"]
Sendall(id) == [tag |-> "sendall", id |-> id]   \* or a tag that is not known
Ids == 1..MaxSendalls
Requests == {NoRequest, Leave} \cup {Join(n) : n \in RoomNames}
                               \cup {Sendall(i) : i \in Ids}

Init == /\ up = TRUE
        /\ pc = [c \in Conns |-> "none"]
        /\ connected = [c \in Conns |-> TRUE]
        /\ request = [c \in Conns |-> NoRequest]
        /\ reply = [c \in Conns |-> "none"]
        /\ sendalls = 0
        /\ m_lock = Nobody
        /\ m_rooms = [n \in RoomNames |-> NoRoom]
        /\ room = [c \in Conns |-> NoRoom]
        /\ lock = [r \in Rooms |-> Nobody]
        /\ members = [r \in Rooms |-> {}]
        /\ visited = [c \in Conns |-> {}]
        /\ mqueue = [c \in Conns |-> <<>>]
        /\ sent = [c \in Conns |-> <<>>]

\* The thread of c goes from one control point to another.
Step(c, from, to) == /\ up /\ up' = up
                     /\ pc[c] = from
                     /\ pc' = [pc EXCEPT ![c] = to]

\* A fault in one thread is the end of the process.
Fault == up /\ up' = FALSE /\ UNCHANGED <<pc, client, registry, room, lock, members, queues>>

\* The thread of c has a message, or has an answer to it.  The calls that lead
\* to "ok" write over the buffer on the stack, those that lead to "err" do not.
Received(c, q) == /\ request' = [request EXCEPT ![c] = q]
                  /\ reply' = [reply EXCEPT ![c] = "none"]
Ok(c) == /\ reply' = [reply EXCEPT ![c] = "ok"]
         /\ request' = [request EXCEPT ![c] = NoRequest]
Err(c) == reply' = [reply EXCEPT ![c] = "err"] /\ UNCHANGED request

\* What the steps that touch no room and no queue leave alone.
RoomsUnchanged == UNCHANGED <<registry, room, lock, members, queues>>

-----------------------------------------------------------------------------
(* Connecting and logging in *)

\* pthread_create.  A failure is not noticed: the connection stays open and no
\* thread serves it.
StartThread(c) == Step(c, "none", "login") \/ Step(c, "none", "lost")

Accept(c) == /\ StartThread(c)
             /\ RoomsUnchanged
             /\ UNCHANGED client

\* slogin and rlogin succeed whatever the name is.
Login(c) == /\ connected[c]
            /\ Step(c, "login", IF c \in Senders THEN "serve" ELSE "first")
            /\ Ok(c)
            /\ RoomsUnchanged
            /\ UNCHANGED <<connected, sendalls>>

\* No login: an error response, and the worker returns without closing.
LoginRefused(c) == /\ Step(c, "login", "left")
                   /\ Err(c)
                   /\ RoomsUnchanged
                   /\ UNCHANGED <<connected, sendalls>>

\* The client is gone or will send no more.  The thread can see that only
\* where it receives.
ClientStops(c) == /\ up
                  /\ c \in Closers
                  /\ pc[c] \in {"login", "serve", "first"}
                  /\ connected' = [connected EXCEPT ![c] = FALSE]
                  /\ RoomsUnchanged
                  /\ UNCHANGED <<up, pc, request, reply, sendalls>>

-----------------------------------------------------------------------------
(* chat_with_sender: Connection::receive and the choice by tag *)

\* Mutant: a join that leaves the user in the room it was in.
JoinWithoutRemove(c, name) == /\ connected[c]
                              /\ Step(c, "serve", "find")
                              /\ Received(c, Join(name))
                              /\ RoomsUnchanged
                              /\ UNCHANGED <<connected, sendalls>>

\* A sender that is in a room, or was, is first removed from it.
ReceiveJoin(c, name) ==
  /\ connected[c]
  /\ Step(c, "serve", IF room[c] # NoRoom THEN "remove" ELSE "find")
  /\ Received(c, Join(name))
  /\ RoomsUnchanged
  /\ UNCHANGED <<connected, sendalls>>

ReceiveLeave(c) == /\ connected[c]
                   /\ Step(c, "serve", "check")
                   /\ Received(c, Leave)
                   /\ RoomsUnchanged
                   /\ UNCHANGED <<connected, sendalls>>

ReceiveSendall(c) == /\ connected[c]
                     /\ sendalls < MaxSendalls
                     /\ sendalls' = sendalls + 1
                     /\ Step(c, "serve", "check")
                     /\ Received(c, Sendall(sendalls + 1))
                     /\ RoomsUnchanged
                     /\ UNCHANGED connected

\* quit: a response, the connection is closed and the thread ends.
ReceiveQuit(c) == /\ connected[c]
                  /\ Step(c, "serve", "closed")
                  /\ Ok(c)
                  /\ RoomsUnchanged
                  /\ UNCHANGED <<connected, sendalls>>

\* A line without a colon, or what the buffer holds at the end of the input.
ReceiveFails(c) == /\ Step(c, "serve", "closed")
                   /\ Err(c)
                   /\ RoomsUnchanged
                   /\ UNCHANGED <<connected, sendalls>>

\* At the end of the input receive looks at a buffer nobody wrote to.  It may
\* still hold the message that was answered "err", which is served once more.
ReceiveStale(c) == /\ ~connected[c]
                   /\ reply[c] = "err"
                   /\ Step(c, "serve", "check")
                   /\ Received(c, request[c])
                   /\ RoomsUnchanged
                   /\ UNCHANGED <<connected, sendalls>>

\* Or it holds an empty string, of which divide_data takes the first part.
ReceiveFaults(c) == /\ ~connected[c]
                    /\ pc[c] \in {"login", "serve", "first"}
                    /\ Fault

-----------------------------------------------------------------------------
(* join, of senders and of receivers *)

\* chat_with_receiver: the first message must be a join.
ReceiveFirstJoin(c, name) == /\ connected[c]
                             /\ Step(c, "first", "find")
                             /\ Received(c, Join(name))
                             /\ RoomsUnchanged
                             /\ UNCHANGED <<connected, sendalls>>

\* Any other message, or none: the thread returns without closing.
FirstRefused(c) == /\ Step(c, "first", "left")
                   /\ Err(c)
                   /\ RoomsUnchanged
                   /\ UNCHANGED <<connected, sendalls>>

\* The Guard of the operations of Room.
LockRoom(c, from, to) == /\ Step(c, from, to)
                         /\ lock[room[c]] = Nobody
                         /\ lock' = [lock EXCEPT ![room[c]] = c]
                         /\ UNCHANGED <<client, registry, room, members, queues>>

\* Mutant: the lock of the room is never given back.
UnlockForgotten(c) == UNCHANGED lock

UnlockRoom(c) == lock' = [lock EXCEPT ![room[c]] = Nobody]

\* Room::remove_member, called by join and by leave, which does not reset room.
RemoveLock(c) == LockRoom(c, "remove", "erasing")

Erase(c) == /\ members' = [members EXCEPT ![room[c]] = @ \ {c}]
            /\ UnlockRoom(c)
            /\ UNCHANGED <<connected, sendalls, registry, room, queues>>

RemovedForJoin(c) == /\ Step(c, "erasing", "find")
                     /\ request[c].tag = "join"
                     /\ Erase(c)
                     /\ UNCHANGED <<request, reply>>

RemovedForLeave(c) == /\ Step(c, "erasing", "serve")
                      /\ request[c].tag = "leave"
                      /\ Erase(c)
                      /\ Ok(c)

\* Mutants: operations without their Guard.
FindUnlocked(c) == /\ Step(c, "find", "lookup")
                   /\ RoomsUnchanged
                   /\ UNCHANGED client

AddUnlocked(c) == /\ Step(c, "add", "inserting")
                  /\ RoomsUnchanged
                  /\ UNCHANGED client

BroadcastUnlocked(c) == /\ Step(c, "broadcast", "posting")
                        /\ RoomsUnchanged
                        /\ UNCHANGED client

\* Server::find_or_create_room
FindLock(c) == /\ Step(c, "find", "lookup")
               /\ m_lock = Nobody
               /\ m_lock' = c
               /\ UNCHANGED <<client, m_rooms, room, lock, members, queues>>

Found(c) == /\ Step(c, "lookup", "add")
            /\ m_rooms[request[c].room] # NoRoom
            /\ room' = [room EXCEPT ![c] = m_rooms[request[c].room]]
            /\ m_lock' = Nobody
            /\ UNCHANGED <<client, m_rooms, lock, members, queues>>

NotFound(c) == /\ Step(c, "lookup", "create")
               /\ m_rooms[request[c].room] = NoRoom
               /\ RoomsUnchanged
               /\ UNCHANGED client

CreateRoom(c) == LET new == <<request[c].room, c>>
                 IN  /\ Step(c, "create", "add")
                     /\ m_rooms' = [m_rooms EXCEPT ![NameOf(new)] = new]
                     /\ room' = [room EXCEPT ![c] = new]
                     /\ m_lock' = Nobody
                     /\ UNCHANGED <<client, lock, members, queues>>

\* Room::add_member
AddLock(c) == LockRoom(c, "add", "inserting")

\* Mutant: the thread of a receiver returns after the join.
InsertAndReturn(c) == /\ Step(c, "inserting", IF c \in Senders THEN "serve" ELSE "left")
                      /\ members' = [members EXCEPT ![room[c]] = @ \cup {c}]
                      /\ UnlockRoom(c)
                      /\ Ok(c)
                      /\ UNCHANGED <<connected, sendalls, registry, room, queues>>

Insert(c) == /\ Step(c, "inserting", IF c \in Senders THEN "serve" ELSE "deliver")
             /\ members' = [members EXCEPT ![room[c]] = @ \cup {c}]
             /\ UnlockRoom(c)
             /\ Ok(c)
             /\ UNCHANGED <<connected, sendalls, registry, room, queues>>

-----------------------------------------------------------------------------
(* leave and sendall: Room::member_exists, which takes no lock *)

\* Another thread is changing the set that c is looking at.
Raced(c) == \E d \in Conns \ {c} : /\ pc[d] \in {"erasing", "inserting"}
                                   /\ room[d] = room[c]

SeesItself(c) == /\ Step(c, "check", IF request[c].tag = "leave" THEN "remove" ELSE "broadcast")
                 /\ room[c] # NoRoom
                 /\ c \in members[room[c]]
                 /\ RoomsUnchanged
                 /\ UNCHANGED client

\* sendall looks first whether there is a room.  A member may be missed in a
\* tree that is being rebalanced.
SeesNothing(c) == /\ Step(c, "check", "serve")
                  /\ \/ room[c] = NoRoom /\ request[c].tag # "leave"
                     \/ room[c] # NoRoom /\ (c \notin members[room[c]] \/ Raced(c))
                  /\ Err(c)
                  /\ RoomsUnchanged
                  /\ UNCHANGED <<connected, sendalls>>

\* leave follows room without a look; a tree that is being rebalanced may lead
\* to a node that was freed.
CheckFaults(c) == /\ pc[c] = "check"
                  /\ \/ room[c] = NoRoom /\ request[c].tag = "leave"
                     \/ room[c] # NoRoom /\ Raced(c)
                  /\ Fault

-----------------------------------------------------------------------------
(* sendall: Room::broadcast_message *)

BroadcastLock(c) == LockRoom(c, "broadcast", "posting")

Delivery(c) == [room |-> NameOf(room[c]), from |-> Username[c], id |-> request[c].id]

\* Mutant: a user hears what users with its name say.
UnvisitedOrSelf(c) == members[room[c]] \ visited[c]

\* The members that the loop of c has yet to post to.  It passes over those
\* with the sender's name.
Unvisited(c) == {u \in members[room[c]] \ visited[c] : Username[u] # Username[c]}

\* The set is ordered by address, which says nothing of the users.
PostTo(c, u) == /\ Step(c, "posting", "posting")
                /\ u \in Unvisited(c)
                /\ mqueue' = [mqueue EXCEPT ![u] = Append(@, Delivery(c))]
                /\ visited' = [visited EXCEPT ![c] = @ \cup {u}]
                /\ UNCHANGED <<client, registry, room, lock, members, sent>>

\* Mutant: the wrong response to a sendall that was done.
DoneWithError(c) == /\ Step(c, "posting", "serve")
                    /\ Unvisited(c) = {}
                    /\ visited' = [visited EXCEPT ![c] = {}]
                    /\ UnlockRoom(c)
                    /\ Err(c)
                    /\ UNCHANGED <<connected, sendalls, registry, room, members, mqueue, sent>>

BroadcastDone(c) == /\ Step(c, "posting", "serve")
                    /\ Unvisited(c) = {}
                    /\ visited' = [visited EXCEPT ![c] = {}]
                    /\ UnlockRoom(c)
                    /\ Ok(c)
                    /\ UNCHANGED <<connected, sendalls, registry, room, members, mqueue, sent>>

-----------------------------------------------------------------------------
(* chat_with_receiver: the loop *)

\* Mutant: a nullptr from dequeue is sent like a message.
DeliverUnchecked(c) ==
  /\ Step(c, "deliver", "deliver")
  /\ sent' = [sent EXCEPT ![c] = Append(@, IF mqueue[c] = <<>> THEN NoRoom ELSE Head(mqueue[c]))]
  /\ mqueue' = [mqueue EXCEPT ![c] = IF @ = <<>> THEN @ ELSE Tail(@)]
  /\ UNCHANGED <<client, registry, room, lock, members, visited>>

\* A dequeue that returns nullptr changes nothing.  What send returns is not
\* looked at: a message to a client that is gone is taken like any other.
Deliver(c) == /\ Step(c, "deliver", "deliver")
              /\ mqueue[c] # <<>>
              /\ sent' = [sent EXCEPT ![c] = Append(@, Head(mqueue[c]))]
              /\ mqueue' = [mqueue EXCEPT ![c] = Tail(@)]
              /\ UNCHANGED <<client, registry, room, lock, members, visited>>

-----------------------------------------------------------------------------

\* What a client decides.
Client(c) == \/ Accept(c) \/ Login(c) \/ ClientStops(c)
             \/ \E name \in RoomNames : ReceiveJoin(c, name) \/ ReceiveFirstJoin(c, name)
             \/ ReceiveLeave(c) \/ ReceiveSendall(c) \/ ReceiveQuit(c)

\* A receive that gives no message, or not the message the client sent.
Unreceived(c) == \/ LoginRefused(c) \/ FirstRefused(c)
                 \/ ReceiveFails(c) \/ ReceiveStale(c) \/ ReceiveFaults(c)

Acquire(c) == RemoveLock(c) \/ FindLock(c) \/ AddLock(c) \/ BroadcastLock(c)

\* What the thread of c does with a request and with its queue.
Work(c) == \/ Acquire(c)
           \/ RemovedForJoin(c) \/ RemovedForLeave(c)
           \/ Found(c) \/ NotFound(c) \/ CreateRoom(c) \/ Insert(c)
           \/ SeesItself(c) \/ SeesNothing(c) \/ CheckFaults(c)
           \/ \E u \in Conns : PostTo(c, u)
           \/ BroadcastDone(c) \/ Deliver(c)

Next == \E c \in Conns : Client(c) \/ Unreceived(c) \/ Work(c)

Spec == Init /\ [][Next]_vars

\* Threads run, a receive at the end of the input returns, and a thread that
\* waits for a mutex gets it in the end: those that hold it never wait for a
\* client.  Clients owe nothing.
Fairness == \A c \in Conns : /\ WF_vars(Work(c))
                             /\ WF_vars(~connected[c] /\ Unreceived(c))
                             /\ SF_vars(Acquire(c))

FairSpec == Spec /\ Fairness

-----------------------------------------------------------------------------
(* Invariants *)

Inside == {"erasing", "inserting", "posting"}
Labels == {"none", "lost", "login", "left", "serve", "first", "closed", "remove", "find",
           "lookup", "create", "add", "check", "broadcast", "deliver"} \cup Inside
Settled == {"serve", "check", "remove", "erasing", "broadcast", "posting", "deliver", "closed"}
Deliveries == [room : RoomNames, from : {Username[c] : c \in Conns}, id : Ids]

TypeOK == /\ up \in BOOLEAN
          /\ pc \in [Conns -> Labels]
          /\ connected \in [Conns -> BOOLEAN]
          /\ request \in [Conns -> Requests]
          /\ reply \in [Conns -> {"none", "ok", "err"}]
          /\ sendalls \in 0..MaxSendalls
          /\ m_lock \in Conns \cup {Nobody}
          /\ m_rooms \in [RoomNames -> Rooms \cup {NoRoom}]
          /\ room \in [Conns -> Rooms \cup {NoRoom}]
          /\ lock \in [Rooms -> Conns \cup {Nobody}]
          /\ members \in [Rooms -> SUBSET Conns]
          /\ visited \in [Conns -> SUBSET Conns]
          /\ mqueue \in [Conns -> Seq(Deliveries)]
          /\ sent \in [Conns -> Seq(Deliveries)]

\* A mutex belongs to the thread that is between its Guard and the end of the
\* block, and to nobody when there is none: no way out keeps a lock.
LocksHeld ==
  /\ \A c \in Conns : pc[c] \in {"lookup", "create"} <=> m_lock = c
  /\ \A r \in Rooms, c \in Conns : pc[c] \in Inside /\ room[c] = r <=> lock[r] = c

\* find_or_create_room: threads that join the same name at the same time get
\* the same Room, or the users would not hear each other.
UniqueRoom == \A c, d \in Conns :
                 /\ room[c] # NoRoom /\ room[d] # NoRoom
                 /\ NameOf(room[c]) = NameOf(room[d])
                 => room[c] = room[d]

\* A join takes the user out of the room it was in before it enters another: a
\* user is in one room at most, the one its thread points to, and in none
\* before its first join and while its thread is between two rooms.
OneRoomPerUser == \A c \in Conns, r \in Rooms :
                     c \in members[r] => /\ room[c] = r
                                         /\ pc[c] \in Settled

\* Everything that has come to a user, in the order it came.
Log(u) == sent[u] \o mqueue[u]
At(u, m, i) == i \in DOMAIN Log(u) /\ Log(u)[i] = m

\* Two users never see two messages in opposite orders: a broadcast holds the
\* room's lock over all its enqueues (room.cpp:42-56).
TotalOrder == \A u, v \in Conns : \A i, j \in DOMAIN Log(u) : \A k, l \in DOMAIN Log(v) :
                 i < j /\ k < l => ~(Log(u)[i] = Log(v)[l] /\ Log(u)[j] = Log(v)[k])

\* A sendall that was answered "err" has reached nobody, and will not, although
\* its membership was looked up without the lock and may be looked up again
\* from a stale buffer.
RefusedIsUnsent == \A c, u \in Conns : reply[c] = "err" =>
                      \A i \in DOMAIN Log(u) : Sendall(Log(u)[i].id) # request[c]

-----------------------------------------------------------------------------
(* Action property *)

\* The loop over members never sees the set change (room.cpp:43): a set that
\* another thread inserts into or erases from would invalidate its iterator.
BroadcastSeesFixedMembers ==
  [][\A c \in Conns : pc[c] = "posting" => members'[room[c]] = members[room[c]]]_vars

-----------------------------------------------------------------------------
(* Liveness *)

Waiting == {"serve", "first", "deliver", "closed", "left"}

\* No request stays without an answer: no thread is left waiting for a lock,
\* nor in the loop of a broadcast, unless the process dies.
Answered == \A c \in Conns :
               pc[c] \notin Waiting \cup {"none", "lost", "login"}
                  ~> pc[c] \in Waiting \/ ~up

\* What was queued for a receiver is sent to it, unless the process dies.
Delivered == \A c \in Receivers : mqueue[c] # <<>> ~> mqueue[c] = <<>> \/ ~up

-----------------------------------------------------------------------------
(* Refinement: a broadcast happens when it takes the room's lock.  Until it  *)
(* gets to a member, its delivery is counted as the last of that member's    *)
(* queue.                                                                    *)

RoomOf(u) == IF \E r \in Rooms : u \in members[r]
             THEN NameOf(CHOOSE r \in Rooms : u \in members[r])
             ELSE NoRoom

DueTo(u) == {c \in Conns : pc[c] = "posting" /\ u \in Unvisited(c)}

Inbox(u) == IF DueTo(u) = {}
            THEN mqueue[u]
            ELSE Append(mqueue[u], Delivery(CHOOSE c \in DueTo(u) : TRUE))

inRoom == [u \in Conns |-> RoomOf(u)]
inbox == [u \in Conns |-> Inbox(u)]

CR == INSTANCE ChatRooms WITH Users <- Conns, Nowhere <- NoRoom,
                              member <- inRoom, queue <- inbox

\* Threads, locks and an unlocked look at the members implement rooms in which
\* joining, leaving and posting each happen in one step.
ImplementsRooms == CR!Spec
-----------------------------------------------------------------------------
(* What the repository says of the server, and the code does not do *)

\* "Our approach to synchronization effectively prevents race conditions"
\* (README.txt:23): nobody reads a room's members while another thread changes
\* them.
NoRaces == \A c \in Conns : pc[c] = "check" /\ room[c] # NoRoom => ~Raced(c)

\* "Server died when it was not supposed to!" (test_concurrent.sh:306-311): no
\* client takes the server down, least of all one that stays and asks in turn.
ServerStaysUp == up

\* Reaching the end of the input is a failure of receive (connection.h:14,
\* 41-44), on which chat_with_sender closes the connection.
AbandonedIsClosed == \A c \in Senders :
                        pc[c] = "serve" /\ ~connected[c] ~> pc[c] = "closed" \/ ~up
=============================================================================
