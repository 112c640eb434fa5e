------------------------------- MODULE Channel -------------------------------
(***************************************************************************)
(* What one direction of a connection promises: a line of characters in    *)
(* which whole messages are put at one end and whole lines are taken from  *)
(* the other, each in one step.                                            *)
(***************************************************************************)
EXTENDS Lines

CONSTANT Outbox   \* the messages that may be sent

VARIABLES content,   \* sent and not yet taken
          closed,    \* no more is sent
          taken      \* all that was taken

vars == <<content, closed, taken>>

Init == content = <<>> /\ closed = FALSE /\ taken = <<>>

Send(m) == /\ ~closed
           /\ MaySend(m)
           /\ content' = content \o Encode(m)
           /\ UNCHANGED <<closed, taken>>

\* The end, and perhaps the loss of what was sent last.
Stop(n) == /\ ~closed
           /\ closed' = TRUE
           /\ content' = SubSeq(content, 1, n)
           /\ UNCHANGED taken

\* What is taken ends where rio_readlineb ends a line, or at the end of all.
Take(n) == LET s == SubSeq(content, 1, n)
           IN  /\ Ends(s) \/ (closed /\ n = Len(content))
               /\ Unended(s)
               /\ taken' = taken \o s
               /\ content' = SubSeq(content, n + 1, Len(content))
               /\ UNCHANGED closed

Next == \/ \E m \in Outbox : Send(m)
        \/ \E n \in 0..Len(content) : Stop(n) \/ Take(n)

Spec == Init /\ [][Next]_vars
=============================================================================
