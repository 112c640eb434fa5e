------------------------------- MODULE Mailbox -------------------------------
(***************************************************************************)
(* What a MessageQueue promises to its users (message_queue.h): a message  *)
(* put by any thread is taken exactly once, by the one thread that owns    *)
(* the queue, in the order the messages were put.  There are no locks and  *)
(* no semaphore here: Put and Take are atomic.                             *)
(***************************************************************************)
EXTENDS Naturals, Sequences

CONSTANT Messages   \* what can be put

VARIABLES
  queue,   \* messages put and not yet taken, oldest first
  taken    \* every message taken so far, in the order it was taken

vars == <<queue, taken>>

Init == /\ queue = <<>>
        /\ taken = <<>>

Put(m) == /\ queue' = Append(queue, m)
          /\ UNCHANGED taken

Take == /\ queue # <<>>
        /\ taken' = Append(taken, Head(queue))
        /\ queue' = Tail(queue)

Next == Take \/ \E m \in Messages : Put(m)

Spec == Init /\ [][Next]_vars

\* The owner keeps asking, so a message that is there is taken.
FairSpec == Spec /\ WF_vars(Take)
=============================================================================
