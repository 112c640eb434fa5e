---------------------------- MODULE AcceptorProofs ----------------------------
(***************************************************************************)
(* Proofs about Acceptor, for any clients, any lists of addresses and any  *)
(* limits.                                                                 *)
(***************************************************************************)
EXTENDS Acceptor, SequenceTheorems, TLAPS

\* A socket is opened, and given up, for an address that is in the list.
Placed == \A p \in Processes : at[p] \in {"opened", "refused"} => place[p] <= Len(List[p])

\* A client waits for accept once, after it has connected and before it has a
\* thread.
Queued == /\ \A i, j \in DOMAIN backlog : backlog[i] = backlog[j] => i = j
          /\ \A i \in DOMAIN backlog : thread[backlog[i]] = "none"
Connected == \A c \in Clients :
                Waiting(c) \/ thread[c] # "none" => at[c] \in {"connected", "ended"}

IInv == TypeOK /\ Placed /\ WalkHoldsOne /\ Queued /\ Connected /\ DescriptorIsOwn

LEMMA InitIInv == Init => IInv
<1> SUFFICES ASSUME Init
             PROVE  IInv
  OBVIOUS
<1> USE DEF Init
<1>1. TypeOK
  <2>1. \A p \in Processes : 1 \in 1..(Len(List[p]) + 1)
    BY ListAssumption
  <2>2. backlog \in Seq(Clients)
    OBVIOUS
  <2> QED
    BY <2>1, <2>2 DEF TypeOK, Nothing, Something, Open, Fds
<1>2. Placed /\ WalkHoldsOne
  BY DEF Placed, WalkHoldsOne, Something
<1>3. Queued /\ Connected
  BY DEF Queued, Connected, Waiting
<1>4. DescriptorIsOwn
  BY ProcessesAssumption DEF DescriptorIsOwn, Open, Unserved
<1> QED
  BY <1>1, <1>2, <1>3, <1>4 DEF IInv

-----------------------------------------------------------------------------
(* Where the processes are: the walks, their ends, and the accept loop *)

\* What these steps leave alone.
LEMMA ServingKept ==
  ASSUME DescriptorIsOwn, UNCHANGED serving
  PROVE  DescriptorIsOwn'
BY DEF DescriptorIsOwn, serving

LEMMA WalkKeeps ==
  ASSUME IInv, NEW p \in Processes, Walk(p)
  PROVE  IInv'
<1> USE DEF IInv, Goes, Holds, NextPlace
<1>1. UNCHANGED <<bound, backlog, serving>>
  BY DEF Walk, Resolve, SocketOpens, SocketFails, Refused, CloseRefused, CloseFails, Exhausted
<1>2. TypeOK' /\ Placed'
  <2> USE ListAssumption DEF TypeOK, Placed, Nothing, Something, serving
  <2>1. CASE Resolve(p)
    BY <2>1, <1>1 DEF Resolve
  <2>2. CASE SocketOpens(p)
    BY <2>2, <1>1 DEF SocketOpens
  <2>3. CASE SocketFails(p)
    BY <2>3, <1>1 DEF SocketFails
  <2>4. CASE Refused(p)
    BY <2>4, <1>1 DEF Refused
  <2>5. CASE CloseRefused(p)
    BY <2>5, <1>1 DEF CloseRefused
  <2>6. CASE CloseFails(p)
    BY <2>6, <1>1 DEF CloseFails
  <2>7. CASE Exhausted(p)
    BY <2>7, <1>1 DEF Exhausted
  <2> QED
    BY <2>1, <2>2, <2>3, <2>4, <2>5, <2>6, <2>7 DEF Walk
<1>3. WalkHoldsOne'
  <2> USE DEF WalkHoldsOne, TypeOK, Something
  <2>1. CASE Resolve(p)
    BY <2>1 DEF Resolve
  <2>2. CASE SocketOpens(p)
    BY <2>2 DEF SocketOpens
  <2>3. CASE SocketFails(p)
    BY <2>3 DEF SocketFails
  <2>4. CASE Refused(p)
    BY <2>4 DEF Refused
  <2>5. CASE CloseRefused(p)
    BY <2>5 DEF CloseRefused
  <2>6. CASE CloseFails(p)
    BY <2>6 DEF CloseFails
  <2>7. CASE Exhausted(p)
    BY <2>7 DEF Exhausted
  <2> QED
    BY <2>1, <2>2, <2>3, <2>4, <2>5, <2>6, <2>7 DEF Walk
<1>4. Queued' /\ Connected'
  <2> USE DEF Walk, Resolve, SocketOpens, SocketFails, Refused, CloseRefused, CloseFails,
              Exhausted
  <2>1. at[p] \in {"start", "try", "opened", "refused"}
    OBVIOUS
  <2>2. ASSUME NEW c \in Clients, at[c] \in {"connected", "ended"}
        PROVE  at'[c] = at[c]
    <3>1. c # p
      BY <2>1, <2>2
    <3>2. at \in [Processes -> Nothing \cup Something] /\ c \in Processes
      BY DEF TypeOK, Processes
    <3> HIDE DEF IInv
    <3>3. at' = at \/ \E to : at' = [at EXCEPT ![p] = to]
      BY Zenon
    <3> QED
      BY <3>1, <3>2, <3>3
  <2> HIDE DEF Walk
  <2> QED
    BY <1>1, <2>2 DEF Queued, Connected, Waiting, serving
<1>5. DescriptorIsOwn'
  BY <1>1, ServingKept
<1> QED
  BY <1>2, <1>3, <1>4, <1>5

LEMMA ServerKeeps ==
  ASSUME IInv, Opens
  PROVE  IInv'
<1> USE DEF IInv, Goes, Holds, Opens, Binds, Listens, ListenFails
<1>0. Server \in Processes /\ \A c \in Clients : c # Server /\ c \in Processes
  BY ProcessesAssumption DEF Processes
<1>1. UNCHANGED <<place, backlog, serving>>
  OBVIOUS
<1>2. TypeOK' /\ Placed'
  <2> USE ListAssumption DEF TypeOK, Placed, Nothing, Something, serving
  <2>1. CASE Binds
    BY <1>0, <2>1
  <2>2. CASE Listens
    BY <1>0, <2>2
  <2>3. CASE ListenFails
    BY <1>0, <2>3
  <2> QED
    BY <2>1, <2>2, <2>3
<1>3. WalkHoldsOne'
  BY <1>0 DEF WalkHoldsOne, TypeOK, Something
<1>4. Queued' /\ Connected'
  <2>1. ASSUME NEW c \in Clients
        PROVE  at'[c] = at[c]
    BY <1>0 DEF TypeOK
  <2> QED
    BY <1>1, <2>1 DEF Queued, Connected, Waiting, serving
<1>5. DescriptorIsOwn'
  BY <1>1, ServingKept
<1> QED
  BY <1>2, <1>3, <1>4, <1>5

LEMMA ClientEndsKeeps ==
  ASSUME IInv, NEW c \in Clients, ClientEnds(c)
  PROVE  IInv'
<1> USE DEF IInv, Goes, Holds, ClientEnds
<1>0. c \in Processes
  BY DEF Processes
<1>1. UNCHANGED <<place, backlog, serving>>
  OBVIOUS
<1>2. TypeOK' /\ Placed'
  BY <1>0, <1>1 DEF TypeOK, Placed, Nothing, Something, serving
<1>3. WalkHoldsOne'
  BY <1>0 DEF WalkHoldsOne, TypeOK, Something
<1>4. Queued' /\ Connected'
  <2>1. \A d \in Clients : at[d] \in {"connected", "ended"} => at'[d] \in {"connected", "ended"}
    BY <1>0 DEF TypeOK, Processes
  <2> QED
    BY <1>1, <2>1 DEF Queued, Connected, Waiting, serving
<1>5. DescriptorIsOwn'
  BY <1>1, ServingKept
<1> QED
  BY <1>2, <1>3, <1>4, <1>5

LEMMA ConnectsKeeps ==
  ASSUME IInv, NEW c \in Clients, Connects(c)
  PROVE  IInv'
<1> USE DEF IInv, Goes, Holds, Connects
<1>0. c \in Processes /\ backlog \in Seq(Clients)
  BY DEF Processes, TypeOK
<1>1. UNCHANGED <<place, held, serving>>
  OBVIOUS
<1>2. TypeOK' /\ Placed'
  BY <1>0, <1>1 DEF TypeOK, Placed, Nothing, Something, serving
<1>3. WalkHoldsOne'
  BY <1>0, <1>1 DEF WalkHoldsOne, TypeOK, Something
\* A client that has not connected is not in the backlog and has no thread.
<1>a. ~Waiting(c) /\ thread[c] = "none"
  BY DEF Connected
<1>b. /\ DOMAIN backlog' = 1..(Len(backlog) + 1) /\ DOMAIN backlog = 1..Len(backlog)
      /\ Len(backlog) \in Nat
      /\ \A i \in DOMAIN backlog : backlog'[i] = backlog[i]
      /\ backlog'[Len(backlog) + 1] = c
  BY <1>0
<1>4. Queued'
  BY <1>1, <1>a, <1>b DEF Queued, Waiting, serving
<1>5. Connected'
  <2> SUFFICES ASSUME NEW d \in Clients, Waiting(d)' \/ thread'[d] # "none"
               PROVE  at'[d] \in {"connected", "ended"}
    BY DEF Connected
  <2>1. d = c \/ Waiting(d) \/ thread[d] # "none"
    BY <1>1, <1>b DEF Waiting, serving
  <2>2. at \in [Processes -> Nothing \cup Something] /\ d \in Processes
    BY DEF TypeOK, Processes
  <2> QED
    BY <1>0, <2>1, <2>2 DEF Connected
<1>6. DescriptorIsOwn'
  BY <1>1, ServingKept
<1> QED
  BY <1>2, <1>3, <1>4, <1>5, <1>6

-----------------------------------------------------------------------------
(* The accept loop and the threads *)

LEMMA WalksKept ==
  ASSUME Placed, WalkHoldsOne, UNCHANGED walks
  PROVE  Placed' /\ WalkHoldsOne'
BY DEF Placed, WalkHoldsOne, walks

\* accept takes the oldest connection, which has no thread and no descriptor, and
\* a descriptor that is nobody's.
LEMMA AcceptKeeps ==
  ASSUME IInv, NEW d \in Fds, NEW t \in {"login", "lost"}, Accept(d, t)
  PROVE  IInv'
<1> DEFINE c == Head(backlog)
<1> USE DEF IInv
<1>0. /\ backlog \in Seq(Clients) /\ backlog # <<>> /\ c \in Clients
      /\ DOMAIN backlog = 1..Len(backlog) /\ Len(backlog) \in Nat \ {0}
      /\ c = backlog[1] /\ 1 \in DOMAIN backlog
  BY DEF TypeOK, Accept
<1>1. /\ Tail(backlog) \in Seq(Clients)
      /\ DOMAIN Tail(backlog) = 1..(Len(backlog) - 1)
      /\ \A i \in DOMAIN Tail(backlog) : Tail(backlog)[i] = backlog[i + 1] /\ i + 1 \in DOMAIN backlog
  BY <1>0
<1> HIDE DEF c
<1>2. /\ fds[d] = Free
      /\ fds' = [fds EXCEPT ![d] = c]
      /\ m_fd' = [m_fd EXCEPT ![c] = d]
      /\ thread' = [thread EXCEPT ![c] = t]
      /\ backlog' = Tail(backlog)
      /\ UNCHANGED <<walks, bound>>
  BY DEF Accept, IsLowestFree, c
<1>3. thread[c] = "none" /\ Waiting(c)
  BY <1>0 DEF Queued, Waiting
<1>4. TypeOK'
  BY <1>0, <1>1, <1>2 DEF TypeOK, walks, Open, Unserved
<1>5. Placed' /\ WalkHoldsOne'
  BY <1>2, WalksKept
<1>6. Queued'
  <2>1. \A i \in DOMAIN backlog' : backlog'[i] # c
    <3> SUFFICES ASSUME NEW i \in DOMAIN backlog'
                 PROVE  backlog'[i] # c
      OBVIOUS
    <3>1. i \in 1..(Len(backlog) - 1) /\ backlog'[i] = backlog[i + 1] /\ i + 1 \in DOMAIN backlog
      BY <1>1, <1>2
    <3>2. i + 1 # 1
      BY <3>1
    <3> QED
      BY <1>0, <3>1, <3>2 DEF Queued
  <2>2. thread \in [Clients -> Open \cup {"none", "closed"}]
    BY DEF TypeOK
  <2>3. \A i \in DOMAIN backlog' : backlog'[i] \in Clients /\ thread'[backlog'[i]] = "none"
    <3> SUFFICES ASSUME NEW i \in DOMAIN backlog'
                 PROVE  backlog'[i] \in Clients /\ thread'[backlog'[i]] = "none"
      OBVIOUS
    <3>1. backlog'[i] = backlog[i + 1] /\ i + 1 \in DOMAIN backlog
      BY <1>1, <1>2
    <3>2. backlog[i + 1] \in Clients /\ thread[backlog[i + 1]] = "none"
      BY <1>0, <3>1 DEF Queued
    <3> QED
      BY <1>2, <2>1, <2>2, <3>1, <3>2
  <2>4. \A i, j \in DOMAIN backlog' : backlog'[i] = backlog'[j] => i = j
    BY <1>0, <1>1, <1>2 DEF Queued
  <2> QED
    BY <2>3, <2>4 DEF Queued
<1>7. Connected'
  <2> SUFFICES ASSUME NEW b \in Clients, Waiting(b)' \/ thread'[b] # "none"
               PROVE  at'[b] \in {"connected", "ended"}
    BY DEF Connected
  <2>1. Waiting(b)' => Waiting(b)
    BY <1>1, <1>2 DEF Waiting
  <2>2. b = c \/ thread'[b] = thread[b]
    BY <1>2 DEF TypeOK
  <2> QED
    BY <1>2, <1>3, <2>1, <2>2 DEF Connected, walks
<1>8. DescriptorIsOwn'
  <2> SUFFICES ASSUME NEW b \in Clients, NEW e \in Fds
               PROVE  fds'[e] = b <=> thread'[b] \in Open /\ m_fd'[b] = e
    BY DEF DescriptorIsOwn
  <2>1. fds[e] = b <=> thread[b] \in Open /\ m_fd[b] = e
    BY DEF DescriptorIsOwn
  <2>2. /\ fds \in [Fds -> Clients \cup {Free}] /\ m_fd \in [Clients -> Fds \cup {0}]
        /\ thread \in [Clients -> Open \cup {"none", "closed"}]
    BY DEF TypeOK
  <2>3. "none" \notin Open /\ t \in Open
    BY DEF Open, Unserved
  <2>4. CASE b = c
    <3>1. \A f \in Fds : fds[f] # c
      BY <1>0, <1>3, <2>3 DEF DescriptorIsOwn
    <3> QED
      BY <1>0, <1>2, <2>2, <2>3, <2>4, <3>1
  <2>5. CASE b # c
    <3>1. Free # b
      BY ProcessesAssumption
    <3> QED
      BY <1>0, <1>2, <2>1, <2>2, <2>5, <3>1
  <2> QED
    BY <2>4, <2>5
<1> QED
  BY <1>4, <1>5, <1>6, <1>7, <1>8

\* A thread that goes on, or returns without a close, has what it had.
LEMMA ThreadKeeps ==
  ASSUME IInv, NEW c \in Clients, Serve(c) \/ Leave(c)
  PROVE  IInv'
<1> USE DEF IInv, Serve, Leave, Runs
<1>1. /\ thread[c] = "login"
      /\ \E t \in {"serve", "deliver", "left"} : thread' = [thread EXCEPT ![c] = t]
      /\ UNCHANGED <<walks, bound, backlog, fds, m_fd>>
  OBVIOUS
<1>2. thread \in [Clients -> Open \cup {"none", "closed"}]
  BY DEF TypeOK
<1>3. TypeOK'
  BY <1>1 DEF TypeOK, walks, Open, Unserved
<1>4. Placed' /\ WalkHoldsOne'
  BY <1>1, WalksKept
<1>5. \A b \in Clients : /\ thread'[b] = "none" <=> thread[b] = "none"
                         /\ thread'[b] \in Open <=> thread[b] \in Open
  BY <1>1, <1>2 DEF Open, Unserved
<1>6. Queued' /\ Connected'
  <2>1. \A i \in DOMAIN backlog : backlog[i] \in Clients
    BY DEF TypeOK
  <2> QED
    BY <1>1, <1>5, <2>1 DEF Queued, Connected, Waiting, walks
<1>7. DescriptorIsOwn'
  BY <1>1, <1>5 DEF DescriptorIsOwn
<1> QED
  BY <1>3, <1>4, <1>6, <1>7

\* What a thread closes is its own: the number is free, and no other Connection
\* that knows it is still open.
LEMMA CloseKeeps ==
  ASSUME IInv, NEW c \in Clients, Close(c)
  PROVE  IInv'
<1> USE DEF IInv, Close, Releases, Runs
<1>1. /\ thread[c] = "serve"
      /\ thread' = [thread EXCEPT ![c] = "closed"]
      /\ fds' = [fds EXCEPT ![m_fd[c]] = Free]
      /\ UNCHANGED <<walks, bound, backlog, m_fd>>
  OBVIOUS
<1>2. /\ thread \in [Clients -> Open \cup {"none", "closed"}]
      /\ fds \in [Fds -> Clients \cup {Free}] /\ m_fd \in [Clients -> Fds \cup {0}]
  BY DEF TypeOK
<1>3. TypeOK'
  BY <1>1 DEF TypeOK, walks, Open, Unserved
<1>4. Placed' /\ WalkHoldsOne'
  BY <1>1, WalksKept
<1>5. \A b \in Clients : thread'[b] = "none" <=> thread[b] = "none"
  BY <1>1, <1>2
<1>6. Queued' /\ Connected'
  <2>1. \A i \in DOMAIN backlog : backlog[i] \in Clients
    BY DEF TypeOK
  <2> QED
    BY <1>1, <1>5, <2>1 DEF Queued, Connected, Waiting, walks
<1>7. DescriptorIsOwn'
  <2> SUFFICES ASSUME NEW b \in Clients, NEW e \in Fds
               PROVE  fds'[e] = b <=> thread'[b] \in Open /\ m_fd'[b] = e
    BY DEF DescriptorIsOwn
  <2>1. fds[e] = b <=> thread[b] \in Open /\ m_fd[b] = e
    BY DEF DescriptorIsOwn
  <2>2. "closed" \notin Open /\ "serve" \in Open
    BY DEF Open, Unserved
  <2>3. Free # b
    BY ProcessesAssumption
  <2>4. fds[e] = c <=> m_fd[c] = e
    BY <1>1, <2>2 DEF DescriptorIsOwn
  <2>5. CASE e = m_fd[c]
    BY <1>1, <1>2, <2>1, <2>2, <2>3, <2>4, <2>5
  <2>6. CASE e # m_fd[c]
    BY <1>1, <1>2, <2>1, <2>2, <2>3, <2>4, <2>6
  <2> QED
    BY <2>5, <2>6
<1> QED
  BY <1>3, <1>4, <1>6, <1>7

-----------------------------------------------------------------------------

LEMMA NextIInv == IInv /\ [Next]_vars => IInv'
<1> SUFFICES ASSUME IInv, [Next]_vars
             PROVE  IInv'
  OBVIOUS
<1>1. ASSUME NEW p \in Processes, Walk(p)
      PROVE  IInv'
  BY <1>1, WalkKeeps
<1>2. CASE Opens
  BY <1>2, ServerKeeps
<1>3. CASE UNCHANGED vars
  BY <1>3 DEF vars, walks, serving, IInv, TypeOK, Placed, WalkHoldsOne, Queued, Connected, Waiting,
              DescriptorIsOwn
<1>4. CASE Accepts
  BY <1>3, <1>4, AcceptKeeps DEF Accepts, AcceptFails
<1>5. ASSUME NEW c \in Clients, Connects(c) \/ ClientEnds(c) \/ Serve(c) \/ Leave(c) \/ Close(c)
      PROVE  IInv'
  BY <1>5, ConnectsKeeps, ClientEndsKeeps, ThreadKeeps, CloseKeeps
<1> QED
  BY <1>1, <1>2, <1>3, <1>4, <1>5 DEF Next

LEMMA Inductive == Spec => []IInv
BY InitIInv, NextIInv, PTL DEF Spec

\* The variables of the walks, the backlog and the descriptors have their types,
\* and no walk goes beyond the end of its list.
THEOREM TypeCorrect == Spec => []TypeOK
<1>1. IInv => TypeOK
  BY DEF IInv
<1> QED
  BY <1>1, Inductive, PTL

\* open_listenfd and open_clientfd leave no socket open but the one they return,
\* for lists of any length and failures of any calls.
THEOREM WalksHoldOne == Spec => []WalkHoldsOne
<1>1. IInv => WalkHoldsOne
  BY DEF IInv
<1> QED
  BY <1>1, Inductive, PTL

\* However often numbers of descriptors are given out again, no thread has that
\* of another's connection.
THEOREM DescriptorsAreOwn == Spec => []DescriptorIsOwn
<1>1. IInv => DescriptorIsOwn
  BY DEF IInv
<1> QED
  BY <1>1, Inductive, PTL
=============================================================================
