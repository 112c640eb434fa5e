--------------------------- MODULE ChatServerProofs ---------------------------
(***************************************************************************)
(* Proofs about ChatServer, for any connections, rooms and names.          *)
(***************************************************************************)
EXTENDS ChatServer, SequenceLemmas

-----------------------------------------------------------------------------
(* The inductive invariant: the properties to be shown, and what a thread    *)
(* knows at each of its control points.                                      *)

Joins == {Join(n) : n \in RoomNames}
Sendalls == {Sendall(i) : i \in Ids}

\* Where room is followed it is not null, and the buffer holds what the
\* control point is about.
ThreadKnows(c) ==
  /\ pc[c] \in {"remove", "erasing", "add", "inserting", "broadcast", "posting"}
        => room[c] \in Rooms
  /\ pc[c] \in {"find", "lookup", "create", "add", "inserting"} => request[c] \in Joins
  /\ pc[c] \in {"remove", "erasing"} => request[c] \in Joins \cup {Leave}
  /\ pc[c] = "check" => request[c] \in Sendalls \cup {Leave}
  /\ pc[c] \in {"broadcast", "posting"} => request[c] \in Sendalls
  /\ pc[c] = "serve" /\ reply[c] = "err" => request[c] \in Sendalls \cup {Leave}

ThreadsKnow == \A c \in Conns : ThreadKnows(c)

\* The registry is the only source of rooms, and a thread that creates one has
\* seen that there is none and still holds m_lock.
Registry ==
  /\ \A n \in RoomNames : m_rooms[n] # NoRoom => NameOf(m_rooms[n]) = n
  /\ \A c \in Conns : room[c] # NoRoom => m_rooms[NameOf(room[c])] = room[c]
  /\ \A c \in Conns : pc[c] = "create" => m_rooms[request[c].room] = NoRoom

\* Only a member broadcasts, and only a broadcast has visited anybody.
Broadcasts ==
  /\ \A c \in Conns : pc[c] \in {"broadcast", "posting"} => c \in members[room[c]]
  /\ \A c \in Conns : pc[c] # "posting" => visited[c] = {}

IInv == /\ TypeOK /\ LocksHeld /\ ThreadsKnow /\ Registry /\ OneRoomPerUser
        /\ Broadcasts

\* The actions, one by one.
StepOf(c) ==
  \/ Accept(c) \/ Login(c) \/ LoginRefused(c) \/ ClientStops(c)
  \/ (\E name \in RoomNames : ReceiveJoin(c, name))
  \/ ReceiveLeave(c) \/ ReceiveSendall(c) \/ ReceiveQuit(c)
  \/ ReceiveFails(c) \/ ReceiveStale(c) \/ ReceiveFaults(c)
  \/ (\E name \in RoomNames : ReceiveFirstJoin(c, name)) \/ FirstRefused(c)
  \/ RemoveLock(c) \/ RemovedForJoin(c) \/ RemovedForLeave(c)
  \/ FindLock(c) \/ Found(c) \/ NotFound(c) \/ CreateRoom(c)
  \/ AddLock(c) \/ Insert(c)
  \/ SeesItself(c) \/ SeesNothing(c) \/ CheckFaults(c)
  \/ BroadcastLock(c) \/ (\E u \in Conns : PostTo(c, u))
  \/ BroadcastDone(c) \/ Deliver(c)

LEMMA StepCases == Next => \E c \in Conns : StepOf(c)
BY DEF Next, Client, Unreceived, Work, Acquire, StepOf

-----------------------------------------------------------------------------
(* Type correctness. *)

LEMMA TypeInit == Init => TypeOK
BY BoundAssumption, EmptySeq DEF Init, TypeOK, Labels, Inside, Requests

\* What a thread posts is a delivery.
LEMMA DeliveryType ==
  ASSUME TypeOK, ThreadsKnow, NEW c \in Conns, pc[c] = "posting"
  PROVE  Delivery(c) \in Deliveries
<1>1. room[c] \in Rooms /\ request[c] \in Sendalls
  BY DEF ThreadsKnow, ThreadKnows
<1>2. NameOf(room[c]) \in RoomNames
  BY <1>1 DEF Rooms, NameOf
<1>3. request[c].id \in Ids
  BY <1>1 DEF Sendalls, Sendall
<1> QED
  BY <1>2, <1>3 DEF Delivery, Deliveries

LEMMA RequestTypes ==
  /\ NoRequest \in Requests /\ Leave \in Requests
  /\ \A n \in RoomNames : Join(n) \in Requests
  /\ \A i \in Ids : Sendall(i) \in Requests
BY DEF Requests

LEMMA TypeStep ==
  ASSUME TypeOK, ThreadsKnow, Next
  PROVE  TypeOK'
<1>1. PICK c \in Conns : StepOf(c)
  BY StepCases
<1> USE BoundAssumption, RequestTypes
    DEF TypeOK, Step, Labels, Inside, RoomsUnchanged, client, registry, queues,
        Ok, Err, Received, Fault, Ids
<1>2. CASE Accept(c)
  BY <1>2 DEF Accept, StartThread
<1>3. CASE Login(c)
  BY <1>3 DEF Login
<1>4. CASE LoginRefused(c) \/ FirstRefused(c) \/ ReceiveFails(c) \/ SeesNothing(c)
  BY <1>4 DEF LoginRefused, FirstRefused, ReceiveFails, SeesNothing
<1>5. CASE ClientStops(c)
  BY <1>5 DEF ClientStops
<1>6. ASSUME NEW name \in RoomNames, ReceiveJoin(c, name) \/ ReceiveFirstJoin(c, name)
      PROVE  TypeOK'
  <2>1. CASE ReceiveJoin(c, name)
    BY <2>1 DEF ReceiveJoin
  <2>2. CASE ReceiveFirstJoin(c, name)
    BY <2>2 DEF ReceiveFirstJoin
  <2> QED
    BY <1>6, <2>1, <2>2
<1>7. CASE ReceiveLeave(c)
  BY <1>7 DEF ReceiveLeave
<1>8. CASE ReceiveSendall(c)
  BY <1>8 DEF ReceiveSendall
<1>9. CASE ReceiveQuit(c)
  BY <1>9 DEF ReceiveQuit
<1>10. CASE ReceiveStale(c)
  BY <1>10 DEF ReceiveStale
<1>11. CASE ReceiveFaults(c) \/ CheckFaults(c)
  BY <1>11 DEF ReceiveFaults, CheckFaults
<1>12. CASE RemoveLock(c) \/ AddLock(c) \/ BroadcastLock(c)
  <2>1. CASE RemoveLock(c)
    BY <2>1 DEF RemoveLock, LockRoom
  <2>2. CASE AddLock(c)
    BY <2>2 DEF AddLock, LockRoom
  <2>3. CASE BroadcastLock(c)
    BY <2>3 DEF BroadcastLock, LockRoom
  <2> QED
    BY <1>12, <2>1, <2>2, <2>3
<1>13. CASE RemovedForJoin(c) \/ RemovedForLeave(c)
  <2>1. CASE RemovedForJoin(c)
    BY <2>1 DEF RemovedForJoin, Erase, UnlockRoom
  <2>2. CASE RemovedForLeave(c)
    BY <2>2 DEF RemovedForLeave, Erase, UnlockRoom
  <2> QED
    BY <1>13, <2>1, <2>2
<1>14. CASE FindLock(c) \/ Found(c) \/ NotFound(c)
  <2>1. CASE FindLock(c)
    BY <2>1 DEF FindLock
  <2>2. CASE Found(c)
    <3>1. request[c].room \in RoomNames
      BY <2>2 DEF Found, ThreadsKnow, ThreadKnows, Joins, Join
    <3> QED
      BY <2>2, <3>1 DEF Found
  <2>3. CASE NotFound(c)
    BY <2>3 DEF NotFound
  <2> QED
    BY <1>14, <2>1, <2>2, <2>3
<1>15. CASE CreateRoom(c)
  BY <1>15 DEF CreateRoom, ThreadsKnow, ThreadKnows, Joins, Join, Rooms, NameOf
<1>16. CASE Insert(c)
  BY <1>16 DEF Insert, UnlockRoom
<1>17. CASE SeesItself(c)
  BY <1>17 DEF SeesItself
<1>18. ASSUME NEW u \in Conns, PostTo(c, u)
       PROVE  TypeOK'
  <2>1. Delivery(c) \in Deliveries
    BY <1>18, DeliveryType DEF PostTo
  <2>2. mqueue' \in [Conns -> Seq(Deliveries)]
    BY <1>18, <2>1, AppendProperties DEF PostTo
  <2> QED
    BY <1>18, <2>2 DEF PostTo
<1>19. CASE BroadcastDone(c)
  BY <1>19 DEF BroadcastDone, UnlockRoom
<1>20. CASE Deliver(c)
  <2>1. Head(mqueue[c]) \in Deliveries /\ Tail(mqueue[c]) \in Seq(Deliveries)
    BY <1>20, HeadTailProperties DEF Deliver
  <2>2. mqueue' \in [Conns -> Seq(Deliveries)] /\ sent' \in [Conns -> Seq(Deliveries)]
    BY <1>20, <2>1, AppendProperties DEF Deliver
  <2> QED
    BY <1>20, <2>2 DEF Deliver
<1> QED
  BY <1>1, <1>2, <1>3, <1>4, <1>5, <1>6, <1>7, <1>8, <1>9, <1>10, <1>11, <1>12, <1>13,
     <1>14, <1>15, <1>16, <1>17, <1>18, <1>19, <1>20 DEF StepOf

-----------------------------------------------------------------------------
(* The locks. *)

LEMMA LocksInit == Init => LocksHeld
BY ConnsAssumption DEF Init, LocksHeld, Inside

\* A thread that is under no lock before and after its step.
LEMMA LocksLocal ==
  ASSUME TypeOK, LocksHeld, RoomsUnchanged, NEW c \in Conns,
         NEW l, l \notin Inside \cup {"lookup", "create"}, pc[c] \notin Inside \cup {"lookup", "create"},
         pc' = [pc EXCEPT ![c] = l]
  PROVE  LocksHeld'
BY DEF TypeOK, LocksHeld, RoomsUnchanged, registry, Inside

LEMMA LocksStep ==
  ASSUME TypeOK, ThreadsKnow, LocksHeld, Next
  PROVE  LocksHeld'
<1>1. PICK c \in Conns : StepOf(c)
  BY StepCases
<1>2. CASE \/ Accept(c) \/ Login(c) \/ LoginRefused(c)
           \/ (\E name \in RoomNames : ReceiveJoin(c, name))
           \/ ReceiveLeave(c) \/ ReceiveSendall(c) \/ ReceiveQuit(c)
           \/ ReceiveFails(c) \/ ReceiveStale(c)
           \/ (\E name \in RoomNames : ReceiveFirstJoin(c, name)) \/ FirstRefused(c)
           \/ SeesItself(c) \/ SeesNothing(c)
  BY <1>2, LocksLocal
     DEF Accept, StartThread, Login, LoginRefused, ReceiveJoin, ReceiveLeave, ReceiveSendall,
         ReceiveQuit, ReceiveFails, ReceiveStale, ReceiveFirstJoin, FirstRefused, SeesItself,
         SeesNothing, Step, Inside
<1>3. CASE ClientStops(c) \/ ReceiveFaults(c) \/ CheckFaults(c)
  BY <1>3 DEF ClientStops, ReceiveFaults, CheckFaults, Fault, RoomsUnchanged, registry,
              LocksHeld
<1> USE ConnsAssumption DEF TypeOK, LocksHeld, Inside, Step, registry
<1>4. CASE RemoveLock(c)
  BY <1>4 DEF RemoveLock, LockRoom
<1>5. CASE AddLock(c)
  BY <1>5 DEF AddLock, LockRoom
<1>6. CASE BroadcastLock(c)
  BY <1>6 DEF BroadcastLock, LockRoom
<1>7. CASE RemovedForJoin(c)
  BY <1>7 DEF RemovedForJoin, Erase, UnlockRoom
<1>8. CASE RemovedForLeave(c)
  BY <1>8 DEF RemovedForLeave, Erase, UnlockRoom
<1>9. CASE FindLock(c)
  BY <1>9 DEF FindLock
<1>10. CASE Found(c)
  BY <1>10 DEF Found
<1>11. CASE NotFound(c)
  BY <1>11 DEF NotFound, RoomsUnchanged
<1>12. CASE CreateRoom(c)
  BY <1>12 DEF CreateRoom
<1>13. CASE Insert(c)
  BY <1>13 DEF Insert, UnlockRoom
<1>14. ASSUME NEW u \in Conns, PostTo(c, u)
       PROVE  LocksHeld'
  BY <1>14 DEF PostTo
<1>15. CASE BroadcastDone(c)
  BY <1>15 DEF BroadcastDone, UnlockRoom
<1>16. CASE Deliver(c)
  BY <1>16 DEF Deliver
<1> QED
  BY <1>1, <1>2, <1>3, <1>4, <1>5, <1>6, <1>7, <1>8, <1>9, <1>10, <1>11, <1>12, <1>13,
     <1>14, <1>15, <1>16 DEF StepOf

-----------------------------------------------------------------------------
(* What the threads know. *)

LEMMA KnowInit == Init => ThreadsKnow
BY DEF Init, ThreadsKnow, ThreadKnows

\* What a thread knows is about its own variables: the step of another leaves
\* it alone.
LEMMA KnowOthers ==
  ASSUME ThreadsKnow, NEW c \in Conns, ThreadKnows(c)',
         \A d \in Conns \ {c} : /\ pc'[d] = pc[d] /\ room'[d] = room[d]
                                /\ request'[d] = request[d] /\ reply'[d] = reply[d]
  PROVE  ThreadsKnow'
BY DEF ThreadsKnow, ThreadKnows

LEMMA KnowStep ==
  ASSUME TypeOK, ThreadsKnow, Registry, Next
  PROVE  ThreadsKnow'
<1>1. PICK c \in Conns : StepOf(c)
  BY StepCases
<1>a. ThreadKnows(c)
  BY DEF ThreadsKnow
<1> USE <1>a DEF TypeOK, Step, RoomsUnchanged, client, registry, queues, Ok, Err, Received
<1>2. CASE Accept(c)
  BY <1>2, KnowOthers DEF Accept, StartThread, ThreadKnows
<1>3. CASE Login(c) \/ LoginRefused(c) \/ FirstRefused(c) \/ ReceiveQuit(c) \/ ReceiveFails(c)
  <2>1. CASE Login(c)
    BY <2>1, KnowOthers DEF Login, ThreadKnows
  <2>2. CASE LoginRefused(c) \/ FirstRefused(c)
    BY <2>2, KnowOthers DEF LoginRefused, FirstRefused, ThreadKnows
  <2>3. CASE ReceiveQuit(c) \/ ReceiveFails(c)
    BY <2>3, KnowOthers DEF ReceiveQuit, ReceiveFails, ThreadKnows
  <2> QED
    BY <1>3, <2>1, <2>2, <2>3
<1>4. CASE ClientStops(c) \/ ReceiveFaults(c) \/ CheckFaults(c)
  BY <1>4 DEF ClientStops, ReceiveFaults, CheckFaults, Fault, ThreadsKnow, ThreadKnows
<1>5. ASSUME NEW name \in RoomNames, ReceiveJoin(c, name)
      PROVE  ThreadsKnow'
  BY <1>5, KnowOthers DEF ReceiveJoin, ThreadKnows, Joins
<1>6. ASSUME NEW name \in RoomNames, ReceiveFirstJoin(c, name)
      PROVE  ThreadsKnow'
  BY <1>6, KnowOthers DEF ReceiveFirstJoin, ThreadKnows, Joins
<1>7. CASE ReceiveLeave(c)
  BY <1>7, KnowOthers DEF ReceiveLeave, ThreadKnows
<1>8. CASE ReceiveSendall(c)
  <2>1. sendalls + 1 \in Ids
    BY <1>8, BoundAssumption DEF ReceiveSendall, Ids
  <2> QED
    BY <1>8, <2>1, KnowOthers DEF ReceiveSendall, ThreadKnows, Sendalls
<1>9. CASE ReceiveStale(c)
  BY <1>9, KnowOthers DEF ReceiveStale, ThreadKnows
<1>10. CASE RemoveLock(c)
  BY <1>10, KnowOthers DEF RemoveLock, LockRoom, ThreadKnows
<1>11. CASE AddLock(c)
  BY <1>11, KnowOthers DEF AddLock, LockRoom, ThreadKnows
<1>12. CASE BroadcastLock(c)
  BY <1>12, KnowOthers DEF BroadcastLock, LockRoom, ThreadKnows
<1>13. CASE RemovedForJoin(c)
  BY <1>13, KnowOthers DEF RemovedForJoin, Erase, ThreadKnows, Leave
<1>14. CASE RemovedForLeave(c)
  BY <1>14, KnowOthers DEF RemovedForLeave, Erase, ThreadKnows
<1>15. CASE FindLock(c)
  BY <1>15, KnowOthers DEF FindLock, ThreadKnows
<1>16. CASE Found(c)
  <2>1. request[c].room \in RoomNames
    BY <1>16 DEF Found, ThreadKnows, Joins, Join
  <2> QED
    BY <1>16, <2>1, KnowOthers DEF Found, ThreadKnows
<1>17. CASE NotFound(c)
  BY <1>17, KnowOthers DEF NotFound, ThreadKnows
<1>18. CASE CreateRoom(c)
  <2>1. <<request[c].room, c>> \in Rooms
    BY <1>18 DEF CreateRoom, ThreadKnows, Joins, Join, Rooms
  <2> QED
    BY <1>18, <2>1, KnowOthers DEF CreateRoom, ThreadKnows
<1>19. CASE Insert(c)
  BY <1>19, KnowOthers DEF Insert, ThreadKnows
<1>20. CASE SeesItself(c)
  <2>1. request[c].tag # "leave" => request[c] \in Sendalls
    BY <1>20 DEF SeesItself, ThreadKnows, Leave
  <2>2. request[c].tag = "leave" => request[c] = Leave
    BY <1>20 DEF SeesItself, ThreadKnows, Sendalls, Sendall
  <2> QED
    BY <1>20, <2>1, <2>2, KnowOthers DEF SeesItself, ThreadKnows
<1>21. CASE SeesNothing(c)
  BY <1>21, KnowOthers DEF SeesNothing, ThreadKnows
<1>22. ASSUME NEW u \in Conns, PostTo(c, u)
       PROVE  ThreadsKnow'
  BY <1>22, KnowOthers DEF PostTo, ThreadKnows
<1>23. CASE BroadcastDone(c)
  BY <1>23, KnowOthers DEF BroadcastDone, ThreadKnows
<1>24. CASE Deliver(c)
  BY <1>24, KnowOthers DEF Deliver, ThreadKnows
<1> QED
  BY <1>1, <1>2, <1>3, <1>4, <1>5, <1>6, <1>7, <1>8, <1>9, <1>10, <1>11, <1>12, <1>13,
     <1>14, <1>15, <1>16, <1>17, <1>18, <1>19, <1>20, <1>21, <1>22, <1>23, <1>24 DEF StepOf

-----------------------------------------------------------------------------
(* The registry of rooms. *)

LEMMA RegistryInit == Init => Registry
BY DEF Init, Registry

\* Most steps change neither the registry nor what the threads hold of it.
LEMMA RegistryKept ==
  ASSUME TypeOK, Registry, NEW c \in Conns,
         UNCHANGED <<m_rooms, room>>,
         pc'[c] = "create" => pc[c] = "create" /\ request'[c] = request[c],
         \A d \in Conns \ {c} : pc'[d] = pc[d] /\ request'[d] = request[d]
  PROVE  Registry'
BY DEF Registry

LEMMA RegistryStep ==
  ASSUME TypeOK, ThreadsKnow, LocksHeld, Registry, Next
  PROVE  Registry'
<1>1. PICK c \in Conns : StepOf(c)
  BY StepCases
<1>a. ThreadKnows(c)
  BY DEF ThreadsKnow
<1>2. CASE \/ Accept(c) \/ Login(c) \/ LoginRefused(c) \/ FirstRefused(c)
           \/ (\E name \in RoomNames : ReceiveJoin(c, name) \/ ReceiveFirstJoin(c, name))
           \/ ReceiveLeave(c) \/ ReceiveSendall(c) \/ ReceiveQuit(c)
           \/ ReceiveFails(c) \/ ReceiveStale(c) \/ SeesItself(c) \/ SeesNothing(c)
  BY <1>2, RegistryKept
     DEF Accept, StartThread, Login, LoginRefused, FirstRefused, ReceiveJoin,
         ReceiveFirstJoin, ReceiveLeave, ReceiveSendall, ReceiveQuit, ReceiveFails,
         ReceiveStale, SeesItself, SeesNothing, Step, RoomsUnchanged, registry, client,
         Ok, Err, Received, TypeOK
<1>3. CASE ClientStops(c) \/ ReceiveFaults(c) \/ CheckFaults(c)
  BY <1>3, RegistryKept
     DEF ClientStops, ReceiveFaults, CheckFaults, Fault, RoomsUnchanged, registry, client
<1>4. CASE \/ RemoveLock(c) \/ AddLock(c) \/ BroadcastLock(c) \/ FindLock(c)
           \/ RemovedForJoin(c) \/ RemovedForLeave(c) \/ Insert(c)
           \/ (\E u \in Conns : PostTo(c, u)) \/ BroadcastDone(c) \/ Deliver(c)
  BY <1>4, RegistryKept
     DEF RemoveLock, AddLock, BroadcastLock, LockRoom, FindLock, RemovedForJoin,
         RemovedForLeave, Erase, Insert, PostTo, BroadcastDone, Deliver, Step, registry,
         client, Ok, TypeOK
<1> USE NullAssumption, <1>a DEF TypeOK, Step, client, registry, Registry
<1>5. CASE NotFound(c)
  BY <1>5 DEF NotFound, RoomsUnchanged
<1>6. CASE Found(c)
  <2>1. request[c].room \in RoomNames
    BY <1>6 DEF Found, ThreadKnows, Joins, Join
  <2> QED
    BY <1>6, <2>1 DEF Found
<1>7. CASE CreateRoom(c)
  <2> DEFINE name == request[c].room
             new == <<name, c>>
  <2>1. name \in RoomNames /\ new \in Rooms /\ NameOf(new) = name
    BY <1>7 DEF CreateRoom, ThreadKnows, Joins, Join, Rooms, NameOf
  <2>2. \A d \in Conns : pc[d] = "create" => d = c
    BY <1>7 DEF CreateRoom, LocksHeld
  <2>3. \A d \in Conns : room[d] # NoRoom => NameOf(room[d]) # name
    BY <1>7, <2>1 DEF CreateRoom
  <2>4. /\ m_rooms' = [m_rooms EXCEPT ![name] = new]
        /\ room' = [room EXCEPT ![c] = new]
        /\ pc' = [pc EXCEPT ![c] = "add"]
        /\ request' = request
    BY <1>7, <2>1 DEF CreateRoom
  <2> HIDE DEF name, new
  <2>5. \A d \in Conns : room'[d] # NoRoom => m_rooms'[NameOf(room'[d])] = room'[d]
    BY <2>1, <2>3, <2>4 DEF Rooms, NameOf
  <2> QED
    BY <2>1, <2>2, <2>4, <2>5
<1> QED
  BY <1>1, <1>2, <1>3, <1>4, <1>5, <1>6, <1>7 DEF StepOf

-----------------------------------------------------------------------------
(* Membership. *)

LEMMA OneRoomInit == Init => OneRoomPerUser
BY DEF Init, OneRoomPerUser

\* Steps that leave the sets of members alone and do not unsettle their thread.
LEMMA OneRoomKept ==
  ASSUME TypeOK, OneRoomPerUser, NEW c \in Conns,
         UNCHANGED <<members, room>>,
         pc[c] \in Settled => pc'[c] \in Settled,
         \A d \in Conns \ {c} : pc'[d] = pc[d]
  PROVE  OneRoomPerUser'
BY DEF OneRoomPerUser

LEMMA OneRoomStep ==
  ASSUME TypeOK, ThreadsKnow, LocksHeld, OneRoomPerUser, Next
  PROVE  OneRoomPerUser'
<1>1. PICK c \in Conns : StepOf(c)
  BY StepCases
<1>a. ThreadKnows(c)
  BY DEF ThreadsKnow
<1>2. CASE \/ Accept(c) \/ Login(c) \/ LoginRefused(c) \/ FirstRefused(c)
           \/ (\E name \in RoomNames : ReceiveFirstJoin(c, name))
           \/ ReceiveLeave(c) \/ ReceiveSendall(c) \/ ReceiveQuit(c)
           \/ ReceiveFails(c) \/ ReceiveStale(c) \/ SeesItself(c) \/ SeesNothing(c)
  BY <1>2, OneRoomKept
     DEF Accept, StartThread, Login, LoginRefused, FirstRefused,
         ReceiveFirstJoin, ReceiveLeave, ReceiveSendall, ReceiveQuit, ReceiveFails,
         ReceiveStale, SeesItself, SeesNothing, Step, RoomsUnchanged, Settled, TypeOK
<1>3. CASE ClientStops(c) \/ ReceiveFaults(c) \/ CheckFaults(c)
  BY <1>3, OneRoomKept DEF ClientStops, ReceiveFaults, CheckFaults, Fault, RoomsUnchanged
<1>4. CASE \/ RemoveLock(c) \/ AddLock(c) \/ BroadcastLock(c) \/ FindLock(c) \/ NotFound(c)
           \/ (\E u \in Conns : PostTo(c, u)) \/ BroadcastDone(c) \/ Deliver(c)
  BY <1>4, OneRoomKept
     DEF RemoveLock, AddLock, BroadcastLock, LockRoom, FindLock, NotFound, RoomsUnchanged,
         PostTo, BroadcastDone, Deliver, Step, Settled, TypeOK
<1> USE NullAssumption, <1>a DEF TypeOK, Step, OneRoomPerUser, Settled
<1>5. ASSUME NEW name \in RoomNames, ReceiveJoin(c, name)
      PROVE  OneRoomPerUser'
  BY <1>5 DEF ReceiveJoin, RoomsUnchanged
<1>6. CASE RemovedForJoin(c)
  BY <1>6 DEF RemovedForJoin, Erase, ThreadKnows
<1>7. CASE RemovedForLeave(c)
  BY <1>7 DEF RemovedForLeave, Erase, ThreadKnows
<1>8. CASE Found(c)
  BY <1>8 DEF Found
<1>9. CASE CreateRoom(c)
  BY <1>9 DEF CreateRoom
<1>10. CASE Insert(c)
  BY <1>10 DEF Insert, ThreadKnows
<1> QED
  BY <1>1, <1>2, <1>3, <1>4, <1>5, <1>6, <1>7, <1>8, <1>9, <1>10 DEF StepOf

-----------------------------------------------------------------------------
(* Broadcasts. *)

LEMMA BroadcastsInit == Init => Broadcasts
BY DEF Init, Broadcasts

LEMMA BroadcastsKept ==
  ASSUME TypeOK, Broadcasts, NEW c \in Conns,
         UNCHANGED <<members, room, visited>>,
         pc'[c] \in {"broadcast", "posting"} => pc[c] \in {"broadcast", "posting"},
         pc[c] = "posting" => pc'[c] = "posting",
         \A d \in Conns \ {c} : pc'[d] = pc[d]
  PROVE  Broadcasts'
BY DEF Broadcasts

LEMMA BroadcastsStep ==
  ASSUME TypeOK, ThreadsKnow, Broadcasts, Next
  PROVE  Broadcasts'
<1>1. PICK c \in Conns : StepOf(c)
  BY StepCases
<1>a. ThreadKnows(c)
  BY DEF ThreadsKnow
<1>2. CASE \/ Accept(c) \/ Login(c) \/ LoginRefused(c) \/ FirstRefused(c)
           \/ (\E name \in RoomNames : ReceiveJoin(c, name) \/ ReceiveFirstJoin(c, name))
           \/ ReceiveLeave(c) \/ ReceiveSendall(c) \/ ReceiveQuit(c)
           \/ ReceiveFails(c) \/ ReceiveStale(c) \/ SeesNothing(c)
  BY <1>2, BroadcastsKept
     DEF Accept, StartThread, Login, LoginRefused, FirstRefused, ReceiveJoin,
         ReceiveFirstJoin, ReceiveLeave, ReceiveSendall, ReceiveQuit, ReceiveFails,
         ReceiveStale, SeesNothing, RoomsUnchanged, queues, Step, TypeOK
<1>3. CASE ClientStops(c) \/ ReceiveFaults(c) \/ CheckFaults(c)
  BY <1>3, BroadcastsKept
     DEF ClientStops, ReceiveFaults, CheckFaults, Fault, RoomsUnchanged, queues
<1> USE <1>a DEF TypeOK, Step, Broadcasts, registry, queues
<1>4. CASE SeesItself(c)
  BY <1>4 DEF SeesItself, RoomsUnchanged
<1>5. CASE RemoveLock(c) \/ AddLock(c) \/ FindLock(c) \/ NotFound(c)
  <2>1. CASE RemoveLock(c)
    BY <2>1, BroadcastsKept DEF RemoveLock, LockRoom
  <2>4. CASE AddLock(c)
    BY <2>4, BroadcastsKept DEF AddLock, LockRoom
  <2>2. CASE FindLock(c)
    BY <2>2, BroadcastsKept DEF FindLock
  <2>3. CASE NotFound(c)
    BY <2>3, BroadcastsKept DEF NotFound, RoomsUnchanged
  <2> QED
    BY <1>5, <2>1, <2>2, <2>3, <2>4
<1>6. CASE BroadcastLock(c)
  BY <1>6 DEF BroadcastLock, LockRoom
<1>7. CASE RemovedForJoin(c)
  BY <1>7 DEF RemovedForJoin, Erase, ThreadKnows
<1>8. CASE RemovedForLeave(c)
  BY <1>8 DEF RemovedForLeave, Erase, ThreadKnows
<1>9. CASE Found(c)
  BY <1>9 DEF Found
<1>10. CASE CreateRoom(c)
  BY <1>10 DEF CreateRoom
<1>11. CASE Insert(c)
  BY <1>11 DEF Insert, ThreadKnows
<1>12. ASSUME NEW u \in Conns, PostTo(c, u)
       PROVE  Broadcasts'
  BY <1>12 DEF PostTo
<1>13. CASE BroadcastDone(c)
  BY <1>13 DEF BroadcastDone
<1>14. CASE Deliver(c)
  BY <1>14 DEF Deliver
<1> QED
  BY <1>1, <1>2, <1>3, <1>4, <1>5, <1>7, <1>8, <1>9, <1>10, <1>11, <1>12, <1>13, <1>14,
     <1>6 DEF StepOf

-----------------------------------------------------------------------------
(* The inductive invariant, and what follows from it. *)

LEMMA IInvStutter ==
  ASSUME IInv, UNCHANGED vars
  PROVE  IInv'
BY DEF IInv, vars, client, registry, queues, TypeOK, LocksHeld, ThreadsKnow, ThreadKnows,
       Registry, OneRoomPerUser, Broadcasts

LEMMA Inductive == Spec => []IInv
<1>1. Init => IInv
  BY TypeInit, LocksInit, KnowInit, RegistryInit, OneRoomInit, BroadcastsInit
     DEF IInv
<1>2. IInv /\ [Next]_vars => IInv'
  BY TypeStep, LocksStep, KnowStep, RegistryStep, OneRoomStep, BroadcastsStep,
     IInvStutter DEF IInv
<1> QED
  BY <1>1, <1>2, PTL DEF Spec

\* Every variable keeps its type: no null or foreign Room is ever locked,
\* registered or posted from.
THEOREM TypeCorrect == Spec => []TypeOK
<1>1. IInv => TypeOK
  BY DEF IInv
<1> QED
  BY <1>1, Inductive, PTL

\* Server::m_lock and the lock of every Room belong to the thread that is in
\* the block of the Guard, and are free when there is none.
THEOREM LocksCorrect == Spec => []LocksHeld
<1>1. IInv => LocksHeld
  BY DEF IInv
<1> QED
  BY <1>1, Inductive, PTL

\* However joins of one name interleave, they meet in one Room.
THEOREM OneRoomPerName == Spec => []UniqueRoom
<1>1. IInv => UniqueRoom
  BY DEF IInv, Registry, UniqueRoom
<1> QED
  BY <1>1, Inductive, PTL

\* However a sender joins and leaves, it is a member of one room at most, the
\* one its thread points to.
THEOREM NobodyInTwoRooms == Spec => []OneRoomPerUser
<1>1. IInv => OneRoomPerUser
  BY DEF IInv
<1> QED
  BY <1>1, Inductive, PTL

\* No step changes the members that another thread loops over.
LEMMA LoopFixed ==
  ASSUME IInv, Next
  PROVE  \A c \in Conns : pc[c] = "posting" => members'[room[c]] = members[room[c]]
<1>1. PICK d \in Conns : StepOf(d)
  BY StepCases
<1>2. SUFFICES ASSUME NEW c \in Conns, pc[c] = "posting"
               PROVE  members'[room[c]] = members[room[c]]
  OBVIOUS
<1>3. lock[room[c]] = c /\ room[c] \in Rooms
  BY <1>1, <1>2 DEF IInv, ThreadsKnow, ThreadKnows, LocksHeld, Inside
<1>4. CASE RemovedForJoin(d) \/ RemovedForLeave(d) \/ Insert(d)
  <2>1. pc[d] \in {"erasing", "inserting"} /\ room[d] \in Rooms
    BY <1>1, <1>4 DEF RemovedForJoin, RemovedForLeave, Insert, Step, IInv, ThreadsKnow,
                      ThreadKnows
  <2>2. lock[room[d]] = d /\ d # c
    BY <1>1, <1>2, <2>1 DEF IInv, LocksHeld, Inside
  <2>3. room[d] # room[c]
    BY <1>3, <2>2
  <2> QED
    BY <1>1, <1>3, <1>4, <2>1, <2>3
       DEF RemovedForJoin, RemovedForLeave, Erase, Insert, IInv, TypeOK
<1>5. CASE ~(RemovedForJoin(d) \/ RemovedForLeave(d) \/ Insert(d))
  BY <1>1, <1>5 DEF StepOf, Accept, Login, LoginRefused, ClientStops, ReceiveJoin,
     ReceiveLeave, ReceiveSendall, ReceiveQuit, ReceiveFails, ReceiveStale, ReceiveFaults,
     ReceiveFirstJoin, FirstRefused, RemoveLock, AddLock, BroadcastLock, LockRoom, FindLock,
     Found, NotFound, CreateRoom, SeesItself, SeesNothing, CheckFaults, Fault, PostTo,
     BroadcastDone, Deliver, RoomsUnchanged
<1> QED
  BY <1>4, <1>5

\* The set a broadcast loops over does not change under it.
THEOREM LoopIsSafe == Spec => BroadcastSeesFixedMembers
<1> DEFINE Fixed == \A c \in Conns : pc[c] = "posting" => members'[room[c]] = members[room[c]]
<1>1. IInv /\ [Next]_vars => [Fixed]_vars
  BY LoopFixed
<1> QED
  BY <1>1, Inductive, PTL DEF Spec, BroadcastSeesFixedMembers

-----------------------------------------------------------------------------
(* The refinement.  What ChatRooms sees of a state: the room of each user,   *)
(* and its queue with the delivery that is due to it.                        *)

SeenRooms == \A u \in Conns :
               /\ \A r \in Rooms : u \in members[r] => RoomOf(u) = NameOf(r)
               /\ (\A r \in Rooms : u \notin members[r]) => RoomOf(u) = NoRoom

SeenInboxes == \A u \in Conns :
                 /\ \A c \in DueTo(u) : Inbox(u) = Append(mqueue[u], Delivery(c))
                 /\ DueTo(u) = {} => Inbox(u) = mqueue[u]

\* A broadcast has the room's lock, so no two reach the same member.
OneIsDue == \A u \in Conns : \A c, d \in DueTo(u) : c = d

Seen == SeenRooms /\ SeenInboxes /\ OneIsDue

LEMMA IInvSeen == IInv => Seen
<1> SUFFICES ASSUME IInv
             PROVE  Seen
  OBVIOUS
<1>1. SeenRooms
  <2>1. ASSUME NEW u \in Conns, NEW r \in Rooms, u \in members[r]
        PROVE  RoomOf(u) = NameOf(r)
    <3>1. \A s \in Rooms : u \in members[s] => s = r
      BY <2>1 DEF IInv, OneRoomPerUser
    <3> QED
      BY <2>1, <3>1 DEF RoomOf
  <2> QED
    BY <2>1 DEF SeenRooms, RoomOf
<1>2. OneIsDue
  <2> SUFFICES ASSUME NEW u \in Conns, NEW c \in DueTo(u), NEW d \in DueTo(u)
               PROVE  c = d
    BY DEF OneIsDue
  <2>1. /\ c \in Conns /\ pc[c] = "posting" /\ u \in members[room[c]] /\ room[c] \in Rooms
        /\ d \in Conns /\ pc[d] = "posting" /\ u \in members[room[d]] /\ room[d] \in Rooms
    BY DEF DueTo, Unvisited, IInv, ThreadsKnow, ThreadKnows
  <2>2. room[c] = room[d]
    BY <2>1 DEF IInv, OneRoomPerUser
  <2>3. lock[room[c]] = c /\ lock[room[d]] = d
    BY <2>1 DEF IInv, LocksHeld, Inside
  <2> QED
    BY <2>2, <2>3
<1>3. ASSUME NEW u \in Conns, NEW c \in DueTo(u)
      PROVE  Inbox(u) = Append(mqueue[u], Delivery(c))
  <2>1. DueTo(u) = {c}
    BY <1>2 DEF OneIsDue
  <2> QED
    BY <2>1 DEF Inbox
<1> QED
  BY <1>1, <1>2, <1>3 DEF Seen, SeenInboxes, Inbox

\* A queue looks the same when it is, and the same broadcast is due to it.
LEMMA SameInbox ==
  ASSUME SeenInboxes, SeenInboxes', NEW u \in Conns, mqueue'[u] = mqueue[u],
         DueTo(u)' = DueTo(u),
         \A c \in DueTo(u) : Delivery(c)' = Delivery(c)
  PROVE  Inbox(u)' = Inbox(u)
<1>1. CASE DueTo(u) = {}
  BY <1>1 DEF SeenInboxes
<1>2. ASSUME NEW c \in DueTo(u)
      PROVE  Inbox(u)' = Inbox(u)
  BY <1>2 DEF SeenInboxes
<1> QED
  BY <1>1, <1>2

\* Steps that touch no broadcast and no queue, and no set that is looped over,
\* change no inbox.
LEMMA InboxKept ==
  ASSUME SeenInboxes, SeenInboxes', UNCHANGED <<visited, mqueue>>,
         \A c \in Conns : pc'[c] = "posting" <=> pc[c] = "posting",
         \A c \in Conns : pc[c] = "posting" =>
            /\ room'[c] = room[c] /\ request'[c] = request[c]
            /\ members'[room[c]] = members[room[c]]
  PROVE  inbox' = inbox
<1>1. \A u \in Conns : DueTo(u)' = DueTo(u)
  BY DEF DueTo, Unvisited
<1>2. \A c \in Conns : pc[c] = "posting" => Delivery(c)' = Delivery(c)
  BY DEF Delivery
<1>3. \A u \in Conns : \A c \in DueTo(u) : Delivery(c)' = Delivery(c)
  BY <1>2 DEF DueTo
<1>4. \A u \in Conns : Inbox(u)' = Inbox(u)
  BY <1>1, <1>3, SameInbox
<1> QED
  BY <1>4 DEF inbox

LEMMA RoomKept == ASSUME members' = members
                  PROVE  inRoom' = inRoom
BY DEF inRoom, RoomOf

\* Entering and leaving: the room's lock is held, so nobody posts to the room.
LEMMA EnterStep ==
  ASSUME IInv, IInv', Seen, Seen', Next, NEW c \in Conns, Insert(c)
  PROVE  \E name \in RoomNames : CR!Enter(c, name)
<1>1. /\ pc[c] = "inserting" /\ room[c] \in Rooms /\ NameOf(room[c]) \in RoomNames
      /\ \A r \in Rooms : c \notin members[r]
  BY DEF Insert, Step, IInv, ThreadsKnow, ThreadKnows, OneRoomPerUser, Settled, Rooms, NameOf
<1>2. inbox' = inbox
  BY LoopFixed, InboxKept DEF Insert, Step, Ok, queues, registry, IInv, TypeOK, Seen
<1>3. inRoom[c] = NoRoom
  BY <1>1 DEF Seen, SeenRooms, inRoom
<1>4. \A r \in Rooms : members'[r] = IF r = room[c] THEN members[r] \cup {c} ELSE members[r]
  BY <1>1 DEF Insert, IInv, TypeOK
<1>5. inRoom' = [inRoom EXCEPT ![c] = NameOf(room[c])]
  <2>1. RoomOf(c)' = NameOf(room[c])
    BY <1>1, <1>4 DEF Seen, SeenRooms
  <2>2. \A u \in Conns \ {c} : RoomOf(u)' = RoomOf(u)
    BY <1>4 DEF RoomOf
  <2> QED
    BY <2>1, <2>2 DEF inRoom
<1> QED
  BY <1>1, <1>2, <1>3, <1>5 DEF CR!Enter, Insert, Step, queues

LEMMA ExitStep ==
  ASSUME IInv, IInv', Seen, Seen', Next, NEW c \in Conns,
         RemovedForJoin(c) \/ RemovedForLeave(c)
  PROVE  CR!Exit(c) \/ UNCHANGED CR!vars
<1>1. pc[c] = "erasing" /\ room[c] \in Rooms /\ up /\ up' = up /\ sent' = sent
  BY DEF RemovedForJoin, RemovedForLeave, Erase, Step, IInv, ThreadsKnow, ThreadKnows, queues
<1>2. inbox' = inbox
  BY LoopFixed, InboxKept
     DEF RemovedForJoin, RemovedForLeave, Erase, Step, Ok, queues, registry, IInv, TypeOK, Seen
<1>3. \A r \in Rooms : members'[r] = IF r = room[c] THEN members[r] \ {c} ELSE members[r]
  BY <1>1 DEF RemovedForJoin, RemovedForLeave, Erase, IInv, TypeOK
<1>4. CASE c \in members[room[c]]
  <2>1. inRoom[c] # NoRoom
    BY <1>1, <1>4, NullAssumption DEF Seen, SeenRooms, inRoom, Rooms, NameOf
  <2>2. \A r \in Rooms : c \notin members'[r]
    BY <1>3, <1>4 DEF IInv, OneRoomPerUser
  <2>3. RoomOf(c)' = NoRoom
    BY <2>2 DEF Seen, SeenRooms
  <2>4. \A u \in Conns \ {c} : RoomOf(u)' = RoomOf(u)
    BY <1>3 DEF RoomOf
  <2>5. inRoom' = [inRoom EXCEPT ![c] = NoRoom]
    BY <2>3, <2>4 DEF inRoom
  <2> QED
    BY <1>1, <1>2, <2>1, <2>5 DEF CR!Exit
<1>5. CASE c \notin members[room[c]]
  <2>1. \A r \in Rooms : members'[r] = members[r]
    BY <1>3, <1>5
  <2>2. inRoom' = inRoom
    BY <2>1 DEF inRoom, RoomOf
  <2> QED
    BY <1>1, <1>2, <2>2 DEF CR!vars
<1> QED
  BY <1>4, <1>5

\* Posting happens when the broadcast gets the lock: from then on a delivery
\* is due to every member with another name.
LEMMA PostStep ==
  ASSUME IInv, IInv', Seen, Seen', NEW c \in Conns, BroadcastLock(c)
  PROVE  request[c].id \in Ids /\ CR!Post(c, request[c].id)
<1>1. /\ pc[c] = "broadcast" /\ room[c] \in Rooms /\ request[c] \in Sendalls
      /\ c \in members[room[c]] /\ visited[c] = {} /\ lock[room[c]] = Nobody
      /\ NameOf(room[c]) \in RoomNames
  BY DEF BroadcastLock, LockRoom, Step, IInv, ThreadsKnow, ThreadKnows, Broadcasts,
         Rooms, NameOf
<1>2. /\ up /\ up' = up /\ pc' = [pc EXCEPT ![c] = "posting"]
      /\ UNCHANGED <<request, room, members, visited, mqueue, sent>>
  BY DEF BroadcastLock, LockRoom, Step, client, queues
<1>3. inRoom' = inRoom
  BY <1>2, RoomKept
<1>4. request[c].id \in Ids
  BY <1>1 DEF Sendalls, Sendall
<1>5. inRoom[c] = NameOf(room[c]) /\ inRoom[c] # NoRoom
  BY <1>1, NullAssumption DEF Seen, SeenRooms, inRoom
<1>6. CR!Message(c, request[c].id) = Delivery(c) /\ Delivery(c)' = Delivery(c)
  BY <1>2, <1>5 DEF CR!Message, Delivery
<1>7. \A u \in Conns : inRoom[u] = inRoom[c] <=> u \in members[room[c]]
  <2> SUFFICES ASSUME NEW u \in Conns
               PROVE  inRoom[u] = inRoom[c] <=> u \in members[room[c]]
    OBVIOUS
  <2>1. CASE u \in members[room[c]]
    BY <1>1, <1>5, <2>1 DEF Seen, SeenRooms, inRoom
  <2>2. CASE \E r \in Rooms \ {room[c]} : u \in members[r]
    <3>1. PICK r \in Rooms \ {room[c]} : u \in members[r]
      BY <2>2
    <3>2. inRoom[u] = NameOf(r) /\ room[u] = r
      BY <3>1 DEF Seen, SeenRooms, inRoom, IInv, OneRoomPerUser
    <3>3. r # NoRoom /\ room[c] # NoRoom
      BY <1>1, <3>1, NullAssumption
    <3>4. NameOf(r) # NameOf(room[c])
      BY <3>1, <3>2, <3>3 DEF IInv, Registry
    <3>5. u \notin members[room[c]]
      BY <1>1, <3>1, <3>2 DEF IInv, OneRoomPerUser
    <3> QED
      BY <1>5, <3>2, <3>4, <3>5
  <2>3. CASE \A r \in Rooms : u \notin members[r]
    BY <1>1, <1>5, <2>3 DEF Seen, SeenRooms, inRoom
  <2> QED
    BY <2>1, <2>2, <2>3
<1>8. ASSUME NEW u \in members[room[c]], Username[u] # Username[c]
      PROVE  Inbox(u)' = Append(Inbox(u), Delivery(c))
  <2>1. u \in Conns
    BY <1>1, <1>8 DEF IInv, TypeOK
  <2>2. DueTo(u) = {}
    <3> SUFFICES ASSUME NEW d \in DueTo(u)
                 PROVE  FALSE
      OBVIOUS
    <3>1. d \in Conns /\ pc[d] = "posting" /\ u \in members[room[d]] /\ room[d] \in Rooms
      BY DEF DueTo, Unvisited, IInv, ThreadsKnow, ThreadKnows
    <3>2. room[d] = room[c] /\ lock[room[d]] = d
      BY <1>1, <1>8, <2>1, <3>1 DEF IInv, OneRoomPerUser, LocksHeld, Inside
    <3> QED
      BY <1>1, <3>1, <3>2, ConnsAssumption
  <2>3. c \in DueTo(u)'
    BY <1>1, <1>2, <1>8 DEF DueTo, Unvisited, IInv, TypeOK
  <2> QED
    BY <1>2, <1>6, <2>1, <2>2, <2>3 DEF Seen, SeenInboxes
<1>9. ASSUME NEW u \in Conns, u \notin members[room[c]] \/ Username[u] = Username[c]
      PROVE  Inbox(u)' = Inbox(u)
  <2>1. DueTo(u)' = DueTo(u)
    BY <1>1, <1>2, <1>9 DEF DueTo, Unvisited, IInv, TypeOK
  <2>2. \A d \in DueTo(u) : Delivery(d)' = Delivery(d)
    BY <1>2 DEF Delivery
  <2> QED
    BY <1>2, <2>1, <2>2, SameInbox DEF Seen
<1>10. inbox' = [u \in Conns |->
                   IF inRoom[u] = inRoom[c] /\ Username[u] # Username[c]
                   THEN Append(inbox[u], CR!Message(c, request[c].id))
                   ELSE inbox[u]]
  BY <1>6, <1>7, <1>8, <1>9 DEF inbox
<1> QED
  BY <1>2, <1>3, <1>4, <1>5, <1>10 DEF CR!Post

\* The loop puts into the queue of a member what was due to it.
LEMMA PostToStep ==
  ASSUME IInv, IInv', Seen, Seen', NEW c \in Conns, NEW v \in Conns, PostTo(c, v)
  PROVE  UNCHANGED CR!vars
<1>1. pc[c] = "posting" /\ v \in members[room[c]] /\ v \notin visited[c] /\ c \in DueTo(v)
  BY DEF PostTo, Step, DueTo, Unvisited
<1>2. /\ up' = up /\ UNCHANGED <<request, room, members, sent>> /\ pc' = pc
      /\ mqueue' = [mqueue EXCEPT ![v] = Append(@, Delivery(c))]
      /\ visited' = [visited EXCEPT ![c] = @ \cup {v}]
  BY <1>1 DEF PostTo, Step, client, IInv, TypeOK
<1>3. inRoom' = inRoom
  BY <1>2, RoomKept
<1>4. Inbox(v)' = Inbox(v)
  <2>1. DueTo(v)' = {}
    <3>1. \A d \in DueTo(v) : d = c
      BY <1>1 DEF Seen, OneIsDue
    <3>2. DueTo(v)' \subseteq DueTo(v) \ {c}
      BY <1>2 DEF DueTo, Unvisited, IInv, TypeOK
    <3> QED
      BY <3>1, <3>2
  <2>2. Inbox(v)' = mqueue'[v]
    BY <2>1 DEF Seen, SeenInboxes
  <2>3. Inbox(v) = Append(mqueue[v], Delivery(c))
    BY <1>1 DEF Seen, SeenInboxes
  <2> QED
    BY <1>2, <2>2, <2>3 DEF IInv, TypeOK
<1>5. ASSUME NEW u \in Conns \ {v}
      PROVE  Inbox(u)' = Inbox(u)
  <2>1. DueTo(u)' = DueTo(u)
    BY <1>2 DEF DueTo, Unvisited, IInv, TypeOK
  <2>2. \A d \in DueTo(u) : Delivery(d)' = Delivery(d)
    BY <1>2 DEF Delivery
  <2>3. mqueue'[u] = mqueue[u]
    BY <1>2 DEF IInv, TypeOK
  <2> QED
    BY <2>1, <2>2, <2>3, SameInbox DEF Seen
<1>6. inbox' = inbox
  BY <1>4, <1>5 DEF inbox
<1> QED
  BY <1>2, <1>3, <1>6 DEF CR!vars

\* At the end of the loop nothing is due.
LEMMA DoneStep ==
  ASSUME IInv, IInv', Seen, Seen', NEW c \in Conns, BroadcastDone(c)
  PROVE  UNCHANGED CR!vars
<1>1. pc[c] = "posting" /\ \A u \in Conns : c \notin DueTo(u)
  BY DEF BroadcastDone, Step, DueTo
<1>2. /\ up' = up /\ UNCHANGED <<room, members, mqueue, sent>>
      /\ pc' = [pc EXCEPT ![c] = "serve"]
      /\ visited' = [visited EXCEPT ![c] = {}]
      /\ request' = [request EXCEPT ![c] = NoRequest]
  BY DEF BroadcastDone, Step, Ok
<1>3. ASSUME NEW u \in Conns
      PROVE  Inbox(u)' = Inbox(u)
  <2>1. DueTo(u)' = DueTo(u)
    BY <1>1, <1>2 DEF DueTo, Unvisited, IInv, TypeOK
  <2>2. \A d \in DueTo(u) : Delivery(d)' = Delivery(d)
    BY <1>1, <1>2 DEF Delivery, DueTo, IInv, TypeOK
  <2> QED
    BY <1>2, <2>1, <2>2, SameInbox DEF Seen
<1> QED
  BY <1>2, <1>3, RoomKept DEF CR!vars, inbox

LEMMA TakeStep ==
  ASSUME IInv, IInv', Seen, Seen', NEW c \in Conns, Deliver(c)
  PROVE  CR!Take(c)
<1>1. /\ up /\ up' = up /\ mqueue[c] # <<>> /\ pc' = pc
      /\ UNCHANGED <<request, room, members, visited>>
      /\ sent' = [sent EXCEPT ![c] = Append(@, Head(mqueue[c]))]
      /\ mqueue' = [mqueue EXCEPT ![c] = Tail(@)]
  BY DEF Deliver, Step, client, IInv, TypeOK
<1>2. \A u \in Conns : DueTo(u)' = DueTo(u)
  BY <1>1 DEF DueTo, Unvisited
<1>3. \A d \in Conns : Delivery(d)' = Delivery(d)
  BY <1>1 DEF Delivery
<1>4. ASSUME NEW u \in Conns \ {c}
      PROVE  Inbox(u)' = Inbox(u)
  <2>1. mqueue'[u] = mqueue[u]
    BY <1>1 DEF IInv, TypeOK
  <2> QED
    BY <1>2, <1>3, <2>1, SameInbox DEF Seen, DueTo
<1>5. /\ Inbox(c) # <<>> /\ Head(Inbox(c)) = Head(mqueue[c])
      /\ Inbox(c)' = Tail(Inbox(c))
  <2>1. mqueue[c] \in Seq(Deliveries) /\ mqueue'[c] = Tail(mqueue[c])
    BY <1>1 DEF IInv, TypeOK
  <2>2. CASE DueTo(c) = {}
    BY <1>1, <1>2, <2>1, <2>2 DEF Seen, SeenInboxes
  <2>3. CASE DueTo(c) # {}
    <3>1. PICK d \in DueTo(c) : TRUE
      BY <2>3
    <3>2. d \in Conns /\ Delivery(d) \in Deliveries
      BY <3>1, DeliveryType DEF DueTo, IInv
    <3>3. Inbox(c) = Append(mqueue[c], Delivery(d))
      BY <3>1 DEF Seen, SeenInboxes
    <3>4. Inbox(c)' = Append(Tail(mqueue[c]), Delivery(d))
      BY <1>2, <1>3, <2>1, <3>1, <3>2 DEF Seen, SeenInboxes
    <3>5. /\ Head(Append(mqueue[c], Delivery(d))) = Head(mqueue[c])
          /\ Tail(Append(mqueue[c], Delivery(d))) = Append(Tail(mqueue[c]), Delivery(d))
          /\ Append(mqueue[c], Delivery(d)) # <<>>
      BY <1>1, <2>1, <3>2
    <3> QED
      BY <3>3, <3>4, <3>5
  <2> QED
    BY <2>2, <2>3
<1>6. inbox' = [inbox EXCEPT ![c] = Tail(@)]
  BY <1>4, <1>5 DEF inbox
<1> QED
  BY <1>1, <1>5, <1>6, RoomKept DEF CR!Take, inbox

\* Every other step is one that ChatRooms does not see, or the end.
LEMMA OtherStep ==
  ASSUME IInv, Seen, Seen', NEW c \in Conns, StepOf(c),
         ~Insert(c), ~RemovedForJoin(c), ~RemovedForLeave(c), ~BroadcastLock(c),
         ~(\E u \in Conns : PostTo(c, u)), ~BroadcastDone(c), ~Deliver(c)
  PROVE  CR!Die \/ UNCHANGED CR!vars
<1>1. UNCHANGED <<members, visited, mqueue, sent>>
  BY DEF StepOf, Accept, Login, LoginRefused, ClientStops, ReceiveJoin,
     ReceiveLeave, ReceiveSendall, ReceiveQuit, ReceiveFails, ReceiveStale, ReceiveFaults,
     ReceiveFirstJoin, FirstRefused, RemoveLock, AddLock, LockRoom, FindLock,
     Found, NotFound, CreateRoom, SeesItself, SeesNothing, CheckFaults, Fault,
     RoomsUnchanged, queues
<1>2. \/ up' = up
      \/ up /\ up' = FALSE
  BY DEF StepOf, Accept, StartThread, Login, LoginRefused, ClientStops, ReceiveJoin,
     ReceiveLeave, ReceiveSendall, ReceiveQuit, ReceiveFails, ReceiveStale, ReceiveFaults,
     ReceiveFirstJoin, FirstRefused, RemoveLock, AddLock, LockRoom, FindLock,
     Found, NotFound, CreateRoom, SeesItself, SeesNothing, CheckFaults, Fault, Step
<1>3. \A d \in Conns : pc'[d] = "posting" <=> pc[d] = "posting"
  BY DEF StepOf, Accept, StartThread, Login, LoginRefused, ClientStops, ReceiveJoin,
     ReceiveLeave, ReceiveSendall, ReceiveQuit, ReceiveFails, ReceiveStale, ReceiveFaults,
     ReceiveFirstJoin, FirstRefused, RemoveLock, AddLock, LockRoom, FindLock,
     Found, NotFound, CreateRoom, SeesItself, SeesNothing, CheckFaults, Fault, Step,
     IInv, TypeOK
<1>4. \A d \in Conns : pc[d] = "posting" => room'[d] = room[d] /\ request'[d] = request[d]
  BY DEF StepOf, Accept, StartThread, Login, LoginRefused, ClientStops, ReceiveJoin,
     ReceiveLeave, ReceiveSendall, ReceiveQuit, ReceiveFails, ReceiveStale, ReceiveFaults,
     ReceiveFirstJoin, FirstRefused, RemoveLock, AddLock, LockRoom, FindLock,
     Found, NotFound, CreateRoom, SeesItself, SeesNothing, CheckFaults, Fault, Step,
     RoomsUnchanged, client, registry, Received, Ok, Err, IInv, TypeOK
<1>5. inbox' = inbox
  BY <1>1, <1>3, <1>4, InboxKept DEF Seen
<1> QED
  BY <1>1, <1>2, <1>5, RoomKept DEF CR!Die, CR!vars

LEMMA RefinesInit == Init => CR!Init
<1> SUFFICES ASSUME Init
             PROVE  CR!Init
  OBVIOUS
<1>1. \A u \in Conns : RoomOf(u) = NoRoom
  BY DEF Init, RoomOf
<1>2. \A u \in Conns : DueTo(u) = {}
  BY DEF Init, DueTo
<1>3. \A u \in Conns : Inbox(u) = <<>>
  BY <1>2 DEF Init, Inbox
<1> QED
  BY <1>1, <1>3 DEF Init, CR!Init, inRoom, inbox

LEMMA RefinesStep ==
  ASSUME IInv, IInv', Seen, Seen', Next
  PROVE  CR!Next \/ UNCHANGED CR!vars
<1>1. PICK c \in Conns : StepOf(c)
  BY StepCases
<1>2. CASE Insert(c)
  BY <1>2, EnterStep DEF CR!Next
<1>3. CASE RemovedForJoin(c) \/ RemovedForLeave(c)
  BY <1>3, ExitStep DEF CR!Next
<1>4. CASE BroadcastLock(c)
  BY <1>4, PostStep DEF CR!Next
<1>5. CASE \E u \in Conns : PostTo(c, u)
  BY <1>5, PostToStep
<1>6. CASE BroadcastDone(c)
  BY <1>6, DoneStep
<1>7. CASE Deliver(c)
  BY <1>7, TakeStep DEF CR!Next
<1> QED
  BY <1>1, <1>2, <1>3, <1>4, <1>5, <1>6, <1>7, OtherStep DEF CR!Next

\* The threads, the locks and the look at the members that takes no lock
\* implement rooms in which joining, leaving and posting are single steps.
THEOREM RefinesRooms == Spec => ImplementsRooms
<1>1. IInv /\ IInv' /\ Seen /\ Seen' /\ [Next]_vars => [CR!Next]_(CR!vars)
  <2>1. CASE Next
    BY <2>1, RefinesStep
  <2>2. CASE UNCHANGED vars
    <3>1. UNCHANGED <<up, pc, request, room, members, visited, mqueue, sent>>
      BY <2>2 DEF vars, client, queues
    <3>2. inRoom' = inRoom
      BY <3>1, RoomKept
    <3>3. \A u \in Conns : Inbox(u)' = Inbox(u)
      BY <3>1 DEF Inbox, DueTo, Unvisited, Delivery
    <3> QED
      BY <3>1, <3>2, <3>3 DEF CR!vars, inbox
  <2> QED
    BY <2>1, <2>2
<1>2. Spec => []Seen
  BY IInvSeen, Inductive, PTL
<1> QED
  BY <1>1, <1>2, RefinesInit, Inductive, PTL DEF Spec, ImplementsRooms, CR!Spec

-----------------------------------------------------------------------------
(* What comes to users, and in which order: an inductive invariant on top of *)
(* IInv and Seen.  Whole(u) is everything that has come to u, with the       *)
(* delivery that a running broadcast owes it: only the step that starts a    *)
(* broadcast changes it.                                                     *)

Whole(u) == sent[u] \o Inbox(u)

\* The request of a sendall is held by the thread that received it, and by no
\* other.
Numbered == \A c \in Conns : request[c] \in Sendalls => request[c].id <= sendalls
Own == \A c, d \in Conns : request[c] \in Sendalls /\ request[c] = request[d] => c = d

\* A request on its way to a broadcast has no answer yet.
Unanswered == \A c \in Conns : pc[c] \in {"check", "broadcast", "posting"} => reply[c] = "none"

\* Users have heard of sendalls only, and of none that has not been posted.
Heard == \A u \in Conns : \A i \in DOMAIN Whole(u) : Whole(u)[i].id <= sendalls
Unposted == \A c, u \in Conns : request[c] \in Sendalls /\ pc[c] # "posting" =>
               \A i \in DOMAIN Whole(u) : Whole(u)[i].id # request[c].id

Ordered == \A u, v \in Conns : \A i, j \in DOMAIN Whole(u) : \A k, l \in DOMAIN Whole(v) :
              i < j /\ k < l => ~(Whole(u)[i] = Whole(v)[l] /\ Whole(u)[j] = Whole(v)[k])

OInv == Numbered /\ Own /\ Unanswered /\ Heard /\ Unposted /\ Ordered

-----------------------------------------------------------------------------
(* How a step changes what has come to users. *)

LEMMA WholeType ==
  ASSUME IInv, Seen, NEW u \in Conns
  PROVE  Inbox(u) \in Seq(Deliveries) /\ Whole(u) \in Seq(Deliveries)
<1>1. Inbox(u) \in Seq(Deliveries)
  <2>1. CASE DueTo(u) = {}
    BY <2>1 DEF Seen, SeenInboxes, IInv, TypeOK
  <2>2. ASSUME NEW c \in DueTo(u)
        PROVE  Inbox(u) \in Seq(Deliveries)
    <3>1. Delivery(c) \in Deliveries
      BY DeliveryType DEF DueTo, IInv
    <3>2. Inbox(u) = Append(mqueue[u], Delivery(c)) /\ mqueue[u] \in Seq(Deliveries)
      BY DEF Seen, SeenInboxes, IInv, TypeOK
    <3> QED
      BY <3>1, <3>2, AppendProperties
  <2> QED
    BY <2>1, <2>2
<1> QED
  BY <1>1, ConcatProperties DEF Whole, IInv, TypeOK

\* The step that takes the room's lock for a broadcast.
LEMMA WholePosted ==
  ASSUME IInv, IInv', Seen, Seen', NEW c \in Conns, BroadcastLock(c), NEW u \in Conns
  PROVE  \/ Whole(u)' = Whole(u)
         \/ \E m \in Deliveries : m.id = request[c].id /\ Whole(u)' = Append(Whole(u), m)
<1>1. CR!Post(c, request[c].id)
  BY PostStep
<1>2. PICK m : m = CR!Message(c, request[c].id)
  OBVIOUS
<1>3. sent'[u] = sent[u] /\ (Inbox(u)' = Inbox(u) \/ Inbox(u)' = Append(Inbox(u), m))
  BY <1>1, <1>2 DEF CR!Post, inbox
<1>4. m \in Deliveries /\ m.id = request[c].id
  <2>1. /\ pc[c] = "broadcast" /\ request[c] \in Sendalls /\ room[c] \in Rooms
        /\ c \in members[room[c]]
    BY DEF BroadcastLock, LockRoom, Step, IInv, ThreadsKnow, ThreadKnows, Broadcasts
  <2>2. inRoom[c] \in RoomNames
    BY <2>1 DEF Seen, SeenRooms, inRoom, Rooms, NameOf
  <2>3. request[c].id \in Ids
    BY <2>1 DEF Sendalls, Sendall
  <2> QED
    BY <1>2, <2>2, <2>3 DEF CR!Message, Deliveries
<1>5. CASE Inbox(u)' = Inbox(u)
  BY <1>3, <1>5 DEF Whole
<1>6. CASE Inbox(u)' = Append(Inbox(u), m)
  <2>1. sent[u] \in Seq(Deliveries) /\ Inbox(u) \in Seq(Deliveries)
    BY WholeType DEF IInv, TypeOK
  <2>2. \A s, q \in Seq(Deliveries) : s \o Append(q, m) = Append(s \o q, m)
    BY <1>4, AppendedWhole
  <2>3. Whole(u)' = Append(Whole(u), m)
    BY <1>3, <1>6, <2>1, <2>2 DEF Whole
  <2> QED
    BY <1>4, <2>3
<1> QED
  BY <1>3, <1>5, <1>6

\* Every other step.
LEMMA WholeKept ==
  ASSUME IInv, IInv', Seen, Seen', NEW c \in Conns, StepOf(c), ~BroadcastLock(c),
         NEW u \in Conns
  PROVE  Whole(u)' = Whole(u)
<1>1. Next
  BY DEF StepOf, Next, Client, Unreceived, Work, Acquire
<1>2. CASE Deliver(c)
  <2>1. CR!Take(c)
    BY <1>2, TakeStep
  <2>2. CASE u = c
    <3>1. /\ Inbox(c) # <<>> /\ Inbox(c)' = Tail(Inbox(c))
          /\ sent'[c] = Append(sent[c], Head(Inbox(c)))
      BY <2>1 DEF CR!Take, inbox, IInv, TypeOK
    <3>2. sent[c] \in Seq(Deliveries) /\ Inbox(c) \in Seq(Deliveries)
      BY WholeType DEF IInv, TypeOK
    <3>3. Append(sent[c], Head(Inbox(c))) \o Tail(Inbox(c)) = sent[c] \o Inbox(c)
      BY <3>1, <3>2, TakenWhole
    <3> QED
      BY <2>2, <3>1, <3>3 DEF Whole
  <2>3. CASE u # c
    BY <2>1, <2>3 DEF CR!Take, inbox, IInv, TypeOK, Whole
  <2> QED
    BY <2>2, <2>3
<1>3. CASE ~Deliver(c)
  <2>1. sent' = sent /\ inbox' = inbox
    <3>1. CASE Insert(c)
      BY <1>1, <3>1, EnterStep DEF CR!Enter
    <3>2. CASE RemovedForJoin(c) \/ RemovedForLeave(c)
      BY <1>1, <3>2, ExitStep DEF CR!Exit, CR!vars
    <3>3. CASE \E v \in Conns : PostTo(c, v)
      BY <3>3, PostToStep DEF CR!vars
    <3>4. CASE BroadcastDone(c)
      BY <3>4, DoneStep DEF CR!vars
    <3> QED
      BY <1>3, <3>1, <3>2, <3>3, <3>4, OtherStep DEF CR!Die, CR!vars
  <2> QED
    BY <2>1 DEF inbox, Whole
<1> QED
  BY <1>2, <1>3

-----------------------------------------------------------------------------
(* The requests. *)

\* A step changes the request of its own thread only, and gives a new sendall a
\* number that is greater than all before it.
LEMMA RequestStep ==
  ASSUME IInv, Unanswered, NEW c \in Conns, StepOf(c)
  PROVE  /\ \A d \in Conns \ {c} : /\ request'[d] = request[d] /\ pc'[d] = pc[d]
                                   /\ reply'[d] = reply[d]
         /\ request'[c] \in Sendalls =>
              \/ /\ request'[c] = request[c] /\ sendalls' = sendalls
                 /\ pc[c] = "posting" => pc'[c] = "posting"
              \/ request'[c].id = sendalls' /\ sendalls' = sendalls + 1
         /\ sendalls' \in {sendalls, sendalls + 1}
         /\ pc'[c] \in {"check", "broadcast", "posting"} => reply'[c] = "none"
<1>a. ThreadKnows(c)
  BY DEF IInv, ThreadsKnow
<1> USE DEF IInv, TypeOK, Step, RoomsUnchanged, client, Ok, Err, Received
<1>1. CASE Accept(c)
  BY <1>1 DEF Accept, StartThread
<1>2. CASE Login(c) \/ ReceiveQuit(c)
  BY <1>2 DEF Login, ReceiveQuit, Sendalls, Sendall, NoRequest
<1>3. CASE LoginRefused(c) \/ FirstRefused(c) \/ ReceiveFails(c) \/ SeesNothing(c)
  BY <1>3 DEF LoginRefused, FirstRefused, ReceiveFails, SeesNothing
<1>4. CASE ClientStops(c) \/ ReceiveFaults(c) \/ CheckFaults(c)
  BY <1>4 DEF ClientStops, ReceiveFaults, CheckFaults, Fault, Unanswered
<1>5. CASE \E name \in RoomNames : ReceiveJoin(c, name) \/ ReceiveFirstJoin(c, name)
  BY <1>5 DEF ReceiveJoin, ReceiveFirstJoin, Sendalls, Sendall, Join
<1>6. CASE ReceiveLeave(c)
  BY <1>6 DEF ReceiveLeave, Sendalls, Sendall, Leave
<1>7. CASE ReceiveSendall(c)
  BY <1>7 DEF ReceiveSendall, Sendalls, Sendall
<1>8. CASE ReceiveStale(c)
  BY <1>8 DEF ReceiveStale
<1>9. CASE RemoveLock(c) \/ AddLock(c) \/ BroadcastLock(c)
  BY <1>9 DEF RemoveLock, AddLock, BroadcastLock, LockRoom, Unanswered
<1>10. CASE RemovedForJoin(c)
  BY <1>10 DEF RemovedForJoin, Erase
<1>11. CASE RemovedForLeave(c)
  BY <1>11 DEF RemovedForLeave, Erase, Sendalls, Sendall, NoRequest
<1>12. CASE FindLock(c) \/ Found(c) \/ NotFound(c) \/ CreateRoom(c)
  BY <1>12 DEF FindLock, Found, NotFound, CreateRoom
<1>13. CASE Insert(c)
  BY <1>13 DEF Insert, Sendalls, Sendall, NoRequest
<1>14. CASE SeesItself(c)
  BY <1>14 DEF SeesItself, Unanswered
<1>15. CASE \E u \in Conns : PostTo(c, u)
  BY <1>15 DEF PostTo, Unanswered
<1>16. CASE BroadcastDone(c)
  BY <1>16 DEF BroadcastDone, Sendalls, Sendall, NoRequest
<1>17. CASE Deliver(c)
  BY <1>17 DEF Deliver
<1> QED
  BY <1>1, <1>2, <1>3, <1>4, <1>5, <1>6, <1>7, <1>8, <1>9, <1>10, <1>11, <1>12, <1>13,
     <1>14, <1>15, <1>16, <1>17 DEF StepOf

-----------------------------------------------------------------------------
(* The inductive invariant holds, and what follows from it. *)

\* What is new to a user is the last that has come to it, and is what the
\* thread of c has begun to broadcast.
LEMMA Arrival ==
  ASSUME IInv, IInv', Seen, Seen', NEW c \in Conns, StepOf(c), NEW u \in Conns,
         NEW i \in DOMAIN Whole(u)'
  PROVE  /\ i \in Nat
         /\ \/ i \in DOMAIN Whole(u) /\ Whole(u)'[i] = Whole(u)[i]
            \/ /\ pc[c] = "broadcast" /\ pc'[c] = "posting" /\ request[c] \in Sendalls
               /\ Whole(u)'[i].id = request[c].id
               /\ \A j \in DOMAIN Whole(u)' : j <= i
<1>1. CASE Whole(u)' = Whole(u)
  <2>1. Whole(u) \in Seq(Deliveries)
    BY WholeType
  <2> QED
    BY <1>1, <2>1
<1>2. CASE Whole(u)' # Whole(u)
  <2>1. BroadcastLock(c)
    BY <1>2, WholeKept
  <2>2. PICK m \in Deliveries : m.id = request[c].id /\ Whole(u)' = Append(Whole(u), m)
    BY <1>2, <2>1, WholePosted
  <2>3. pc[c] = "broadcast" /\ pc'[c] = "posting" /\ request[c] \in Sendalls
    BY <2>1 DEF BroadcastLock, LockRoom, Step, IInv, TypeOK, ThreadsKnow, ThreadKnows
  <2>4. Whole(u) \in Seq(Deliveries)
    BY WholeType
  <2> QED
    BY <2>2, <2>3, <2>4
<1> QED
  BY <1>1, <1>2

LEMMA PostedIds ==
  ASSUME IInv, Seen, NEW u \in Conns
  PROVE  \A i \in DOMAIN Whole(u) : Whole(u)[i].id \in Ids
<1>1. Whole(u) \in Seq(Deliveries)
  BY WholeType
<1>2. \A i \in DOMAIN Whole(u) : Whole(u)[i] \in Deliveries
  BY <1>1
<1> QED
  BY <1>2 DEF Deliveries

LEMMA RequestsStep ==
  ASSUME IInv, IInv', Numbered, Own, Unanswered, NEW c \in Conns, StepOf(c)
  PROVE  Numbered' /\ Own' /\ Unanswered'
<1>1. sendalls \in Nat /\ \A d \in Conns : request[d] \in Sendalls => request[d].id \in Nat
  <2>1. sendalls \in Nat /\ Ids \subseteq Nat
    BY BoundAssumption DEF IInv, TypeOK, Ids
  <2>2. \A i \in Ids : Sendall(i).id = i
    BY DEF Sendall
  <2> QED
    BY <2>1, <2>2 DEF Sendalls
<1>2. Numbered'
  BY <1>1, RequestStep DEF Numbered
<1>3. Own'
  BY <1>1, RequestStep DEF Own, Numbered
<1>4. Unanswered'
  BY RequestStep DEF Unanswered
<1> QED
  BY <1>2, <1>3, <1>4

LEMMA HeardStep ==
  ASSUME IInv, IInv', Seen, Seen', Numbered, Unanswered, Heard, NEW c \in Conns, StepOf(c)
  PROVE  Heard'
<1> SUFFICES ASSUME NEW u \in Conns, NEW i \in DOMAIN Whole(u)'
             PROVE  Whole(u)'[i].id <= sendalls'
  BY DEF Heard
<1>1. sendalls \in Nat /\ sendalls' \in {sendalls, sendalls + 1}
  BY RequestStep, BoundAssumption DEF IInv, TypeOK
<1>2. CASE i \in DOMAIN Whole(u) /\ Whole(u)'[i] = Whole(u)[i]
  BY <1>1, <1>2, PostedIds, BoundAssumption DEF Heard, Ids
<1>3. CASE request[c] \in Sendalls /\ Whole(u)'[i].id = request[c].id
  <2>1. request[c].id \in Nat
    BY <1>3, BoundAssumption DEF Sendalls, Sendall, Ids
  <2> QED
    BY <1>1, <1>3, <2>1 DEF Numbered
<1> QED
  BY <1>2, <1>3, Arrival

LEMMA UnpostedStep ==
  ASSUME IInv, IInv', Seen, Seen', Numbered, Own, Unanswered, Heard, Unposted,
         NEW c \in Conns, StepOf(c)
  PROVE  Unposted'
<1> SUFFICES ASSUME NEW d \in Conns, NEW u \in Conns, request'[d] \in Sendalls,
                    pc'[d] # "posting", NEW i \in DOMAIN Whole(u)'
             PROVE  Whole(u)'[i].id # request'[d].id
  BY DEF Unposted
<1>1. CASE request'[d] = request[d] /\ pc[d] # "posting"
  <2>1. CASE i \in DOMAIN Whole(u) /\ Whole(u)'[i] = Whole(u)[i]
    BY <1>1, <2>1 DEF Unposted
  <2>2. CASE /\ pc'[c] = "posting" /\ request[c] \in Sendalls
             /\ Whole(u)'[i].id = request[c].id
    <3>1. c # d
      BY <2>2
    <3>2. request[c] # request[d]
      BY <2>2, <3>1 DEF Own
    <3> QED
      BY <1>1, <2>2, <3>2 DEF Sendalls, Sendall
  <2> QED
    BY <2>1, <2>2, Arrival
<1>2. CASE d = c /\ request'[c].id = sendalls' /\ sendalls' = sendalls + 1
  <2>1. i \in DOMAIN Whole(u) /\ Whole(u)'[i] = Whole(u)[i]
    BY <1>2, Arrival
  <2>2. Whole(u)[i].id \in Ids /\ Whole(u)[i].id <= sendalls
    BY <2>1, PostedIds DEF Heard
  <2>3. Ids \subseteq Nat /\ sendalls \in Nat
    BY BoundAssumption DEF IInv, TypeOK, Ids
  <2> QED
    BY <1>2, <2>1, <2>2, <2>3
<1> QED
  BY <1>1, <1>2, RequestStep

LEMMA OrderedStep ==
  ASSUME IInv, IInv', Seen, Seen', Unposted, Ordered, NEW c \in Conns, StepOf(c)
  PROVE  Ordered'
<1> SUFFICES ASSUME NEW u \in Conns, NEW v \in Conns,
                    NEW i \in DOMAIN Whole(u)', NEW j \in DOMAIN Whole(u)',
                    NEW k \in DOMAIN Whole(v)', NEW l \in DOMAIN Whole(v)',
                    i < j, k < l,
                    Whole(u)'[i] = Whole(v)'[l], Whole(u)'[j] = Whole(v)'[k]
             PROVE  FALSE
  BY DEF Ordered
<1>1. i \in Nat /\ j \in Nat /\ k \in Nat /\ l \in Nat
  BY Arrival
<1>2. /\ i \in DOMAIN Whole(u) /\ Whole(u)'[i] = Whole(u)[i]
      /\ k \in DOMAIN Whole(v) /\ Whole(v)'[k] = Whole(v)[k]
  BY <1>1, Arrival
<1>3. j \in DOMAIN Whole(u) /\ Whole(u)'[j] = Whole(u)[j]
  BY <1>2, Arrival DEF Unposted
<1>4. l \in DOMAIN Whole(v) /\ Whole(v)'[l] = Whole(v)[l]
  <2>1. ASSUME pc[c] = "broadcast", request[c] \in Sendalls
        PROVE  Whole(v)'[l].id # request[c].id
    BY <1>2, <2>1 DEF Unposted
  <2> QED
    BY <2>1, Arrival
<1> QED
  BY <1>2, <1>3, <1>4 DEF Ordered

LEMMA OrderInit == Init => OInv
<1> SUFFICES ASSUME Init
             PROVE  OInv
  OBVIOUS
<1>1. \A u \in Conns : Inbox(u) = <<>>
  BY DEF Init, Inbox, DueTo
<1>2. \A u \in Conns : DOMAIN Whole(u) = {}
  BY <1>1 DEF Init, Whole
<1>3. \A c \in Conns : request[c] \notin Sendalls
  BY DEF Init, Sendalls, Sendall, NoRequest
<1> QED
  BY <1>2, <1>3 DEF Init, OInv, Numbered, Own, Unanswered, Heard, Unposted, Ordered

LEMMA OrderStep ==
  ASSUME IInv, IInv', Seen, Seen', OInv, [Next]_vars
  PROVE  OInv'
<1>1. CASE Next
  BY <1>1, StepCases, RequestsStep, HeardStep, UnpostedStep, OrderedStep DEF OInv
<1>2. CASE UNCHANGED vars
  <2>1. UNCHANGED <<pc, request, reply, sendalls, room, members, visited, mqueue, sent>>
    BY <1>2 DEF vars, client, queues
  <2>2. \A u \in Conns : Whole(u)' = Whole(u)
    BY <2>1 DEF Whole, Inbox, DueTo, Unvisited, Delivery
  <2> QED
    BY <2>1, <2>2 DEF OInv, Numbered, Own, Unanswered, Heard, Unposted, Ordered
<1> QED
  BY <1>1, <1>2

LEMMA OrderInductive == Spec => [](IInv /\ Seen /\ OInv)
<1>1. Spec => []Seen
  BY IInvSeen, Inductive, PTL
<1> QED
  BY <1>1, OrderInit, OrderStep, Inductive, PTL DEF Spec

\* What has come to a user is the beginning of what comes with what is due.
LEMMA LogBegins ==
  ASSUME IInv, Seen, NEW u \in Conns, NEW i \in DOMAIN Log(u)
  PROVE  i \in DOMAIN Whole(u) /\ Whole(u)[i] = Log(u)[i]
<1>1. sent[u] \in Seq(Deliveries) /\ mqueue[u] \in Seq(Deliveries)
  BY DEF IInv, TypeOK
<1>2. CASE DueTo(u) = {}
  BY <1>2 DEF Seen, SeenInboxes, Log, Whole
<1>3. ASSUME NEW c \in DueTo(u)
      PROVE  i \in DOMAIN Whole(u) /\ Whole(u)[i] = Log(u)[i]
  <2>1. PICK m \in Deliveries : m = Delivery(c)
    BY DeliveryType DEF DueTo, IInv
  <2>2. \A s, q \in Seq(Deliveries) : s \o Append(q, m) = Append(s \o q, m)
    BY AppendedWhole
  <2>3. Whole(u) = Append(Log(u), m)
    BY <1>1, <2>1, <2>2 DEF Seen, SeenInboxes, Log, Whole
  <2>4. Log(u) \in Seq(Deliveries)
    BY <1>1, ConcatProperties DEF Log
  <2> QED
    BY <2>3, <2>4
<1> QED
  BY <1>2, <1>3

\* No two users, of one room or of several, see two messages in opposite
\* orders, and no user sees a message twice: a broadcast holds the room's lock
\* over all its enqueues, and no sendall is broadcast again.
THEOREM SameOrder == Spec => []TotalOrder
<1>1. IInv /\ Seen /\ OInv => TotalOrder
  BY LogBegins DEF OInv, Ordered, TotalOrder
<1> QED
  BY <1>1, OrderInductive, PTL

\* A sendall that was answered "err" has reached nobody: membership is looked
\* up without the lock, but only the thread itself makes it a member.
THEOREM RefusedUnsent == Spec => []RefusedIsUnsent
<1>1. ASSUME IInv, Seen, OInv, NEW c \in Conns, NEW u \in Conns, reply[c] = "err",
             NEW i \in DOMAIN Log(u), Sendall(Log(u)[i].id) = request[c]
      PROVE  FALSE
  <2>1. i \in DOMAIN Whole(u) /\ Whole(u)[i] = Log(u)[i]
    BY <1>1, LogBegins
  <2>2. Log(u)[i].id \in Ids
    BY <1>1, <2>1, PostedIds
  <2>3. request[c] \in Sendalls /\ request[c].id = Log(u)[i].id
    BY <1>1, <2>2 DEF Sendalls, Sendall
  <2>4. pc[c] # "posting"
    BY <1>1 DEF OInv, Unanswered
  <2> QED
    BY <1>1, <2>1, <2>3, <2>4 DEF OInv, Unposted
<1>2. IInv /\ Seen /\ OInv => RefusedIsUnsent
  BY <1>1 DEF RefusedIsUnsent
<1> QED
  BY <1>2, OrderInductive, PTL
=============================================================================
