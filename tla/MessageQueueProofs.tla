------------------------- MODULE MessageQueueProofs -------------------------
(***************************************************************************)
(* Proofs about MessageQueue, for any number of producers, messages and    *)
(* calls: the safety invariants, and that the queue implements the         *)
(* safety part of Mailbox.                                                 *)
(***************************************************************************)
EXTENDS MessageQueue, SequenceTheorems, TLAPS

\* The steps of Next, named once for the case splits below.
LEMMA StepCases ==
  ASSUME Next
  PROVE  \/ \E p \in Producers : Lock(p, "push") \/ Push(p) \/ Post(p) \/ Unlock(p)
         \/ \E p \in Producers, m \in Messages : CallEnqueue(p, m)
         \/ CallDequeue \/ SemTake \/ SemBlock \/ SemTimeout
         \/ Lock(Consumer, "pop") \/ Pop \/ Unlock(Consumer)
BY DEF Next, Dequeue, Enqueue

-----------------------------------------------------------------------------
(* Type correctness.  Pop alone needs more than types: the deque it takes  *)
(* from must not be empty, so TypeOK is inductive only with FrontExists.   *)

LEMMA TypeInit == Init => TypeOK
BY EmptySeq DEF Init, TypeOK, Threads, ProducerPC, ConsumerPC

LEMMA TypeStep ==
  ASSUME TypeOK, FrontExists, Next
  PROVE  TypeOK'
<1> USE ThreadsAssumption DEF TypeOK, Threads, ProducerPC, ConsumerPC
<1>1. ASSUME NEW p \in Producers, Lock(p, "push")
      PROVE  TypeOK'
  BY <1>1 DEF Lock, Goto
<1>2. ASSUME NEW p \in Producers, Push(p)
      PROVE  TypeOK'
  BY <1>2, AppendProperties DEF Push, Goto
<1>3. ASSUME NEW p \in Producers, Post(p)
      PROVE  TypeOK'
  BY <1>3 DEF Post, Goto
<1>4. ASSUME NEW t \in Threads, Unlock(t)
      PROVE  TypeOK'
  BY <1>4 DEF Unlock, Goto
<1>5. ASSUME NEW p \in Producers, NEW m \in Messages, CallEnqueue(p, m)
      PROVE  TypeOK'
  BY <1>5 DEF CallEnqueue, Goto
<1>6. CASE CallDequeue \/ SemBlock \/ SemTimeout
  BY <1>6 DEF CallDequeue, SemBlock, SemTimeout, Goto
<1>7. CASE SemTake
  BY <1>7 DEF SemTake, Goto
<1>8. CASE Lock(Consumer, "pop")
  BY <1>8 DEF Lock, Goto
<1>9. CASE Pop
  <2>1. CASE sem = 0
    <3>1. m_messages # <<>> /\ Head(m_messages) \in Messages
                            /\ Tail(m_messages) \in Seq(Messages)
      BY <1>9, <2>1, HeadTailProperties DEF Pop, FrontExists
    <3>2. Append(dequeued, Head(m_messages)) \in Seq(Messages)
      BY <3>1, AppendProperties
    <3> QED
      BY <1>9, <2>1, <3>1, <3>2 DEF Pop, Goto
  <2>2. CASE sem # 0
    BY <1>9, <2>2 DEF Pop, Goto
  <2> QED
    BY <2>1, <2>2
<1> QED
  BY StepCases, <1>1, <1>2, <1>3, <1>4, <1>5, <1>6, <1>7, <1>8, <1>9

-----------------------------------------------------------------------------
(* The mutex. *)

LEMMA MutexInit == Init => MutexHeldInside
BY ThreadsAssumption DEF Init, MutexHeldInside, InGuard, Threads

LEMMA MutexStep ==
  ASSUME TypeOK, MutexHeldInside, Next
  PROVE  MutexHeldInside'
<1> USE ThreadsAssumption DEF TypeOK, MutexHeldInside, InGuard, Threads
<1>1. ASSUME NEW p \in Producers, Lock(p, "push")
      PROVE  MutexHeldInside'
  BY <1>1 DEF Lock, Goto
<1>2. ASSUME NEW p \in Producers, Push(p) \/ Post(p)
      PROVE  MutexHeldInside'
  BY <1>2 DEF Push, Post, Goto
<1>3. ASSUME NEW t \in Threads, Unlock(t)
      PROVE  MutexHeldInside'
  BY <1>3 DEF Unlock, Goto
<1>4. ASSUME NEW p \in Producers, NEW m \in Messages, CallEnqueue(p, m)
      PROVE  MutexHeldInside'
  BY <1>4 DEF CallEnqueue, Goto
<1>5. CASE CallDequeue \/ SemTake \/ SemBlock \/ SemTimeout
  BY <1>5 DEF CallDequeue, SemTake, SemBlock, SemTimeout, Goto
<1>6. CASE Lock(Consumer, "pop")
  BY <1>6 DEF Lock, Goto
<1>7. CASE Pop
  BY <1>7 DEF Pop, Goto
<1> QED
  BY StepCases, <1>1, <1>2, <1>3, <1>4, <1>5, <1>6, <1>7

-----------------------------------------------------------------------------
(* The semaphore against the deque. *)

LEMMA PermitsGiveFront ==
  ASSUME TypeOK, PermitsCountMessages
  PROVE  FrontExists
<1> SUFFICES ASSUME pc[Consumer] = "pop", sem = 0
             PROVE  m_messages # <<>>
  BY DEF FrontExists
<1>1. PermitHeld = 1 /\ PermitDue \in {0, 1}
  BY DEF PermitHeld, PermitDue
<1>2. Len(m_messages) >= 1
  BY <1>1 DEF TypeOK, PermitsCountMessages
<1> QED
  BY <1>2

LEMMA PermitsInit == Init => PermitsCountMessages
BY DEF Init, PermitsCountMessages, PermitHeld, PermitDue, Threads

\* The part of PermitsCountMessages no step but those of one message moves.
LEMMA PermitsFrame ==
  ASSUME TypeOK, PermitsCountMessages,
         UNCHANGED <<m_avail, m_messages>>,
         PermitHeld' = PermitHeld, PermitDue' = PermitDue
  PROVE  PermitsCountMessages'
BY DEF PermitsCountMessages

LEMMA PermitsStep ==
  ASSUME TypeOK, MutexHeldInside, PermitsCountMessages, Next
  PROVE  PermitsCountMessages'
<1> USE ThreadsAssumption DEF TypeOK, Threads
<1>0. PermitHeld \in {0, 1} /\ PermitDue \in {0, 1} /\ Len(m_messages) \in Nat
  BY DEF PermitHeld, PermitDue
<1>1. ASSUME NEW p \in Producers, Lock(p, "push")
      PROVE  PermitsCountMessages'
  BY <1>1, PermitsFrame DEF Lock, Goto, PermitHeld, PermitDue
<1>2. ASSUME NEW p \in Producers, Push(p)
      PROVE  PermitsCountMessages'
  <2>1. \A q \in Producers : pc[q] # "post"
    BY <1>2 DEF Push, MutexHeldInside, InGuard
  <2>2. PermitDue = 0 /\ PermitDue' = 1 /\ PermitHeld' = PermitHeld
    BY <1>2, <2>1 DEF Push, Goto, PermitHeld, PermitDue
  <2>3. Len(m_messages') = Len(m_messages) + 1 /\ m_avail' = m_avail
    BY <1>2, AppendProperties DEF Push
  <2> QED
    BY <1>0, <2>2, <2>3 DEF PermitsCountMessages
<1>3. ASSUME NEW p \in Producers, Post(p)
      PROVE  PermitsCountMessages'
  <2>1. \A q \in Producers \ {p} : pc[q] # "post"
    BY <1>3 DEF Post, MutexHeldInside, InGuard
  <2>2. PermitDue = 1 /\ PermitDue' = 0 /\ PermitHeld' = PermitHeld
    BY <1>3, <2>1 DEF Post, Goto, PermitHeld, PermitDue
  <2>3. m_messages' = m_messages /\ m_avail' = m_avail + 1
    BY <1>3 DEF Post
  <2> QED
    BY <1>0, <2>2, <2>3 DEF PermitsCountMessages
<1>4. ASSUME NEW t \in Threads, Unlock(t)
      PROVE  PermitsCountMessages'
  BY <1>4, PermitsFrame DEF Unlock, Goto, PermitHeld, PermitDue
<1>5. ASSUME NEW p \in Producers, NEW m \in Messages, CallEnqueue(p, m)
      PROVE  PermitsCountMessages'
  BY <1>5, PermitsFrame DEF CallEnqueue, Goto, PermitHeld, PermitDue
<1>6. CASE CallDequeue \/ SemBlock \/ SemTimeout
  BY <1>6, PermitsFrame DEF CallDequeue, SemBlock, SemTimeout, Goto, PermitHeld, PermitDue
<1>7. CASE SemTake
  <2>1. PermitHeld = 0 /\ PermitHeld' = 1 /\ PermitDue' = PermitDue
    BY <1>7 DEF SemTake, Goto, PermitHeld, PermitDue
  <2>2. m_messages' = m_messages /\ m_avail' = m_avail - 1
    BY <1>7 DEF SemTake
  <2> QED
    BY <1>0, <2>1, <2>2 DEF PermitsCountMessages
<1>8. CASE Lock(Consumer, "pop")
  BY <1>8, PermitsFrame DEF Lock, Goto, PermitHeld, PermitDue
<1>9. CASE Pop
  <2>1. CASE sem = 0
    <3>1. m_messages # <<>>
      BY <1>9, <2>1, PermitsGiveFront DEF Pop, FrontExists
    <3>2. Len(m_messages') = Len(m_messages) - 1 /\ m_avail' = m_avail
      BY <1>9, <2>1, <3>1, HeadTailProperties DEF Pop
    <3>3. PermitHeld = 1 /\ PermitHeld' = 0 /\ PermitDue' = PermitDue
      BY <1>9, <2>1 DEF Pop, Goto, PermitHeld, PermitDue
    <3> QED
      BY <1>0, <3>2, <3>3 DEF PermitsCountMessages
  <2>2. CASE sem # 0
    BY <1>9, <2>2, PermitsFrame DEF Pop, Goto, PermitHeld, PermitDue
  <2> QED
    BY <2>1, <2>2
<1> QED
  BY StepCases, <1>1, <1>2, <1>3, <1>4, <1>5, <1>6, <1>7, <1>8, <1>9

-----------------------------------------------------------------------------
(* The history of messages. *)

LEMMA HistoryInit == Init => NothingLost
BY ConcatEmptySeq, EmptySeq DEF Init, NothingLost

\* Moving the first element of t to the end of s leaves s \o t what it was.
LEMMA MoveHead ==
  ASSUME NEW S, NEW s \in Seq(S), NEW t \in Seq(S), t # <<>>
  PROVE  Append(s, Head(t)) \o Tail(t) = s \o t
<1>1. Head(t) \in S /\ Tail(t) \in Seq(S) /\ t = <<Head(t)>> \o Tail(t)
  BY HeadTailProperties
<1>2. Append(s, Head(t)) = s \o <<Head(t)>>
  BY <1>1, AppendIsConcat
<1>3. (s \o <<Head(t)>>) \o Tail(t) = s \o (<<Head(t)>> \o Tail(t))
  BY <1>1, ConcatAssociative
<1> QED
  BY <1>1, <1>2, <1>3

LEMMA HistoryStep ==
  ASSUME TypeOK, FrontExists, NothingLost, Next
  PROVE  NothingLost'
<1>1. CASE UNCHANGED <<m_messages, enqueued, dequeued>>
  BY <1>1 DEF NothingLost
<1>2. ASSUME NEW p \in Producers, Push(p)
      PROVE  NothingLost'
  <2>1. msg[p] \in Messages
    BY DEF TypeOK
  <2>2. dequeued \o Append(m_messages, msg[p]) = Append(dequeued \o m_messages, msg[p])
    BY <2>1 DEF TypeOK
  <2> QED
    BY <1>2, <2>2 DEF Push, NothingLost
<1>3. CASE Pop /\ sem = 0
  BY <1>3, MoveHead DEF Pop, FrontExists, NothingLost, TypeOK
<1> QED
  BY StepCases, <1>1, <1>2, <1>3 DEF Lock, Post, Unlock, CallEnqueue, CallDequeue,
     SemTake, SemBlock, SemTimeout, Pop

-----------------------------------------------------------------------------
(* The inductive invariant and what follows from it. *)

IInv == TypeOK /\ MutexHeldInside /\ PermitsCountMessages /\ NothingLost

LEMMA IInvStutter ==
  ASSUME IInv, UNCHANGED vars
  PROVE  IInv'
BY DEF IInv, vars, TypeOK, MutexHeldInside, InGuard, PermitsCountMessages,
       PermitHeld, PermitDue, NothingLost

LEMMA Inductive == Spec => []IInv
<1>1. Init => IInv
  BY TypeInit, MutexInit, PermitsInit, HistoryInit DEF IInv
<1>2. IInv /\ [Next]_vars => IInv'
  BY TypeStep, MutexStep, PermitsStep, HistoryStep, PermitsGiveFront, IInvStutter
     DEF IInv
<1> QED
  BY <1>1, <1>2, PTL DEF Spec

\* Every variable keeps its type, the deque included: front and pop_front
\* never leave it undefined.
THEOREM TypeCorrect == Spec => []TypeOK
<1>1. IInv => TypeOK
  BY DEF IInv
<1> QED
  BY <1>1, Inductive, PTL

\* enqueue and dequeue change the deque one at a time, and give the mutex back.
THEOREM MutualExclusion == Spec => []MutexHeldInside
<1>1. IInv => MutexHeldInside
  BY DEF IInv
<1> QED
  BY <1>1, Inductive, PTL

\* The semaphore counts the messages, up to the permit that is on its way.
THEOREM SemaphoreCounts == Spec => []PermitsCountMessages
<1>1. IInv => PermitsCountMessages
  BY DEF IInv
<1> QED
  BY <1>1, Inductive, PTL

\* dequeue never applies front to an empty deque, although it does not look.
THEOREM FrontIsSafe == Spec => []FrontExists
<1>1. IInv => FrontExists
  BY PermitsGiveFront DEF IInv
<1> QED
  BY <1>1, Inductive, PTL

\* First in, first out, nothing lost and nothing twice.
THEOREM FirstInFirstOut == Spec => []NothingLost
<1>1. IInv => NothingLost
  BY DEF IInv
<1> QED
  BY <1>1, Inductive, PTL

\* Every behaviour of the queue is one of Mailbox: Push is its Put, a
\* successful Pop its Take, and all the rest is invisible to the users.
THEOREM RefinesMailbox == Spec => MB!Spec
<1>1. Init => MB!Init
  BY DEF Init, MB!Init
<1>2. ASSUME IInv, [Next]_vars
      PROVE  [MB!Next]_(MB!vars)
  <2>1. CASE UNCHANGED <<m_messages, dequeued>>
    BY <2>1 DEF MB!vars
  <2>2. ASSUME NEW p \in Producers, Push(p)
        PROVE  MB!Next
    <3>1. MB!Put(msg[p]) /\ msg[p] \in Messages
      BY <1>2, <2>2 DEF Push, MB!Put, IInv, TypeOK
    <3> QED
      BY <3>1 DEF MB!Next
  <2>3. CASE Pop /\ sem = 0
    <3>1. m_messages # <<>>
      BY <1>2, <2>3, PermitsGiveFront DEF IInv, Pop, FrontExists
    <3> QED
      BY <2>3, <3>1 DEF Pop, MB!Next, MB!Take
  <2> QED
    BY <1>2, StepCases, <2>1, <2>2, <2>3 DEF vars, Lock, Post, Unlock, CallEnqueue,
       CallDequeue, SemTake, SemBlock, SemTimeout, Pop
<1> QED
  BY <1>1, <1>2, Inductive, PTL DEF Spec, MB!Spec
=============================================================================
