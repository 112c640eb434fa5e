---------------------------- MODULE MCChatServer ----------------------------
(***************************************************************************)
(* ChatServer for TLC: the connections, the rooms and the names users give.*)
(***************************************************************************)
EXTENDS ChatServer, TLC

CONSTANTS s1, s2, r1, r2   \* connections
CONSTANTS p, q             \* names of rooms

\* Every client has a name of its own.
Distinct == [c \in Conns |-> c]

\* The senders share a name: neither hears the other.
Twins == [c \in Conns |-> IF c \in Senders THEN "alice" ELSE "carol"]

\* Sound with the safety properties: they treat all senders alike, all
\* receivers and all rooms, and so do Distinct and Twins.
Symmetry == Permutations(Senders) \cup Permutations(Receivers) \cup Permutations(RoomNames)
=============================================================================
