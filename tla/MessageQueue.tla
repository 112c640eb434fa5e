---------------------------- MODULE MessageQueue ----------------------------
(***************************************************************************)
(* MessageQueue (message_queue.h, message_queue.cpp): the queue of         *)
(* messages that waits in a User for the thread of its receiver.  Threads  *)
(* that broadcast call enqueue; the one thread that owns the User calls    *)
(* dequeue in a loop (server.cpp, chat_with_receiver).                     *)
(*                                                                         *)
(* One action is one access to shared state: taking or releasing m_lock,   *)
(* changing m_messages, posting or taking the semaphore m_avail.           *)
(***************************************************************************)
EXTENDS Integers, Sequences

CONSTANTS
  Producers,    \* threads that call enqueue
  Consumer,     \* the thread that calls dequeue
  Messages,     \* the messages
  Nobody,       \* owner of a free mutex
  MaxEnqueues   \* bound on the calls of enqueue

ASSUME ThreadsAssumption == /\ Consumer \notin Producers
                            /\ Nobody \notin Producers \cup {Consumer}
ASSUME BoundAssumption == MaxEnqueues \in Nat

Threads == Producers \cup {Consumer}

VARIABLES
  pc,           \* what each thread does next
  m_lock,       \* owner of the mutex
  m_avail,      \* value of the semaphore
  m_messages,   \* the deque
  msg,          \* argument of each producer's running enqueue
  sem,          \* what sem_timedwait last returned to the consumer
  calls,        \* calls of enqueue so far
  enqueued,     \* history: every message pushed, in push order
  dequeued      \* history: every message dequeue took out, in that order

vars == <<pc, m_lock, m_avail, m_messages, msg, sem, calls, enqueued, dequeued>>

ProducerPC == {"idle", "lock", "push", "post", "unlock"}
ConsumerPC == {"idle", "wait", "blocked", "lock", "pop", "unlock"}

Init == /\ pc = [t \in Threads |-> "idle"]
        /\ m_lock = Nobody
        /\ m_avail = 0
        /\ m_messages = <<>>
        /\ msg \in [Producers -> Messages]
        /\ sem = -1
        /\ calls = 0
        /\ enqueued = <<>>
        /\ dequeued = <<>>

Goto(t, label) == pc' = [pc EXCEPT ![t] = label]

-----------------------------------------------------------------------------
(* The mutex, as the Guard of guard.h uses it. *)

Lock(t, next) == /\ pc[t] = "lock"
                 /\ m_lock = Nobody
                 /\ m_lock' = t
                 /\ Goto(t, next)
                 /\ UNCHANGED <<m_avail, m_messages, msg, sem, calls, enqueued, dequeued>>

\* Mutant: a return path that leaves the mutex locked.
UnlockForgotten(t) == /\ pc[t] = "unlock"
                      /\ Goto(t, "idle")
                      /\ UNCHANGED <<m_lock, m_avail, m_messages, msg, sem, calls,
                                     enqueued, dequeued>>

Unlock(t) == /\ pc[t] = "unlock"
             /\ m_lock' = Nobody
             /\ Goto(t, "idle")
             /\ UNCHANGED <<m_avail, m_messages, msg, sem, calls, enqueued, dequeued>>

-----------------------------------------------------------------------------
(* enqueue *)

CallEnqueue(p, m) == /\ pc[p] = "idle"
                     /\ calls < MaxEnqueues
                     /\ calls' = calls + 1
                     /\ msg' = [msg EXCEPT ![p] = m]
                     /\ Goto(p, "lock")
                     /\ UNCHANGED <<m_lock, m_avail, m_messages, sem, enqueued, dequeued>>

\* Mutant: the newest message goes to the front of the deque.
PushFront(p) == /\ pc[p] = "push"
                /\ m_messages' = <<msg[p]>> \o m_messages
                /\ enqueued' = Append(enqueued, msg[p])
                /\ Goto(p, "post")
                /\ UNCHANGED <<m_lock, m_avail, msg, sem, calls, dequeued>>

Push(p) == /\ pc[p] = "push"
           /\ m_messages' = Append(m_messages, msg[p])
           /\ enqueued' = Append(enqueued, msg[p])
           /\ Goto(p, "post")
           /\ UNCHANGED <<m_lock, m_avail, msg, sem, calls, dequeued>>

\* Mutant: the waiting thread is not told of the message.
PostForgotten(p) == /\ pc[p] = "post"
                    /\ Goto(p, "unlock")
                    /\ UNCHANGED <<m_lock, m_avail, m_messages, msg, sem, calls,
                                   enqueued, dequeued>>

\* sem_post, still under the mutex
Post(p) == /\ pc[p] = "post"
           /\ m_avail' = m_avail + 1
           /\ Goto(p, "unlock")
           /\ UNCHANGED <<m_lock, m_messages, msg, sem, calls, enqueued, dequeued>>

-----------------------------------------------------------------------------
(* dequeue *)

CallDequeue == /\ pc[Consumer] = "idle"
               /\ Goto(Consumer, "wait")
               /\ UNCHANGED <<m_lock, m_avail, m_messages, msg, sem, calls, enqueued, dequeued>>

\* Mutant: a wait that looks at the semaphore and does not decrement it.
SemPeek == /\ pc[Consumer] \in {"wait", "blocked"}
           /\ m_avail > 0
           /\ sem' = 0
           /\ Goto(Consumer, "lock")
           /\ UNCHANGED <<m_lock, m_avail, m_messages, msg, calls, enqueued, dequeued>>

\* Mutant: a semaphore that is decremented below zero instead of waited for.
SemUnguarded == /\ pc[Consumer] \in {"wait", "blocked"}
                /\ m_avail' = m_avail - 1
                /\ sem' = 0
                /\ Goto(Consumer, "lock")
                /\ UNCHANGED <<m_lock, m_messages, msg, calls, enqueued, dequeued>>

\* sem_timedwait takes a permit, at once or after having blocked.
SemTake == /\ pc[Consumer] \in {"wait", "blocked"}
           /\ m_avail > 0
           /\ m_avail' = m_avail - 1
           /\ sem' = 0
           /\ Goto(Consumer, "lock")
           /\ UNCHANGED <<m_lock, m_messages, msg, calls, enqueued, dequeued>>

\* It blocks only when it finds no permit: a call never times out before that.
SemBlock == /\ pc[Consumer] = "wait"
            /\ m_avail = 0
            /\ Goto(Consumer, "blocked")
            /\ UNCHANGED <<m_lock, m_avail, m_messages, msg, sem, calls, enqueued, dequeued>>

\* Mutant: a timeout that is taken for a success.
TimeoutIgnored == /\ pc[Consumer] = "blocked"
                  /\ sem' = 0
                  /\ Goto(Consumer, "lock")
                  /\ UNCHANGED <<m_lock, m_avail, m_messages, msg, calls, enqueued, dequeued>>

\* The second has passed.  A permit may have been posted just before: the
\* timeout can still win, and the permit stays for the next call.
SemTimeout == /\ pc[Consumer] = "blocked"
              /\ sem' = -1
              /\ Goto(Consumer, "lock")
              /\ UNCHANGED <<m_lock, m_avail, m_messages, msg, calls, enqueued, dequeued>>

\* front and pop_front when the wait succeeded, nullptr when it did not.
Pop == /\ pc[Consumer] = "pop"
       /\ \/ /\ sem = 0
             /\ dequeued' = Append(dequeued, Head(m_messages))
             /\ m_messages' = Tail(m_messages)
          \/ /\ sem # 0
             /\ UNCHANGED <<m_messages, dequeued>>
       /\ Goto(Consumer, "unlock")
       /\ UNCHANGED <<m_lock, m_avail, msg, sem, calls, enqueued>>

-----------------------------------------------------------------------------

Enqueue(p) == \/ Lock(p, "push")
              \/ Push(p)
              \/ Post(p)
              \/ Unlock(p)

Dequeue == \/ CallDequeue
           \/ SemTake
           \/ SemBlock
           \/ SemTimeout
           \/ Lock(Consumer, "pop")
           \/ Pop
           \/ Unlock(Consumer)

Next == \/ Dequeue
        \/ \E p \in Producers : Enqueue(p) \/ \E m \in Messages : CallEnqueue(p, m)

Spec == Init /\ [][Next]_vars

\* Running threads are scheduled and chat_with_receiver calls dequeue again
\* and again.  A pthread mutex is not first come first served, but between two
\* uses of it the consumer blocks up to a second, so a producer that keeps
\* asking gets it: strong fairness.  Nothing obliges anybody to call enqueue.
Fairness == /\ WF_vars(Dequeue)
            /\ \A p \in Producers : /\ WF_vars(Enqueue(p))
                                   /\ SF_vars(Lock(p, "push"))

FairSpec == Spec /\ Fairness

-----------------------------------------------------------------------------
(* Invariants *)

TypeOK == /\ pc \in [Threads -> ProducerPC \cup ConsumerPC]
          /\ \A p \in Producers : pc[p] \in ProducerPC
          /\ pc[Consumer] \in ConsumerPC
          /\ m_lock \in Threads \cup {Nobody}
          /\ m_avail \in Nat
          /\ m_messages \in Seq(Messages)
          /\ msg \in [Producers -> Messages]
          /\ sem \in {0, -1}
          /\ calls \in Nat
          /\ enqueued \in Seq(Messages)
          /\ dequeued \in Seq(Messages)

\* Control points at which a thread has a Guard on m_lock.
InGuard(t) == pc[t] \in {"push", "post", "pop", "unlock"}

\* A thread is inside a Guard exactly when it owns the mutex: no two are, and
\* no thread returns without giving it back (guard.h).
MutexHeldInside == \A t \in Threads : InGuard(t) <=> m_lock = t

\* The consumer took a permit and has not used it yet.
PermitHeld == IF pc[Consumer] \in {"lock", "pop"} /\ sem = 0 THEN 1 ELSE 0

\* A message is on the deque and its permit is still to be posted.
PermitDue == IF \E p \in Producers : pc[p] = "post" THEN 1 ELSE 0

\* "The semaphore keeps a count of how many messages are currently in the
\* queue" (message_queue.h:24-26), up to the permit that is on its way.
PermitsCountMessages == m_avail + PermitHeld + PermitDue = Len(m_messages)

\* front() and pop_front() are never applied to an empty deque, which would be
\* undefined: dequeue tests only what sem_timedwait returned
\* (message_queue.cpp:49-51).
FrontExists == pc[Consumer] = "pop" /\ sem = 0 => m_messages # <<>>

\* No message is lost, duplicated or reordered between enqueue and dequeue,
\* however pushes, pops and timeouts interleave.
NothingLost == enqueued = dequeued \o m_messages

-----------------------------------------------------------------------------
(* Liveness *)

\* "blocks for at most a finite amount of time" (message_queue.h:17): every
\* call of dequeue returns, with or without messages.
DequeueReturns == []<>(pc[Consumer] = "idle")

\* "will not block" (message_queue.h:16): every call of enqueue returns.
EnqueueReturns == \A p \in Producers : pc[p] # "idle" ~> pc[p] = "idle"

-----------------------------------------------------------------------------
(* Refinement *)

MB == INSTANCE Mailbox WITH queue <- m_messages, taken <- dequeued

\* The queue keeps the promise of Mailbox, its liveness included: a message on
\* the deque is taken, although any single wait may time out.
ImplementsMailbox == MB!FairSpec
=============================================================================
