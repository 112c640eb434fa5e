------------------------------ MODULE ChatRooms ------------------------------
(***************************************************************************)
(* What the chat server promises to its clients: a user is in at most one  *)
(* room, and a message posted to a room goes, in one step, to the queue of *)
(* every user who is in the room and has another name than the poster.     *)
(* There are no locks here and nothing is seen half done.  The process may *)
(* die at any time; nothing happens after that.                            *)
(***************************************************************************)
EXTENDS Naturals, Sequences

CONSTANTS
  Users,       \* users, one for each connection that logged in
  Username,    \* the name each user gave; two users may have the same
  RoomNames,   \* the names of rooms
  Ids,         \* what tells the messages apart
  Nowhere      \* not in a room

VARIABLES
  up,       \* the server's process is alive
  member,   \* the name of the room each user is in
  queue,    \* messages posted to each user and not yet taken
  sent      \* messages sent to each user, oldest first

vars == <<up, member, queue, sent>>

Init == /\ up = TRUE
        /\ member = [u \in Users |-> Nowhere]
        /\ queue = [u \in Users |-> <<>>]
        /\ sent = [u \in Users |-> <<>>]

Enter(u, name) == /\ up
                  /\ member[u] = Nowhere
                  /\ member' = [member EXCEPT ![u] = name]
                  /\ UNCHANGED <<up, queue, sent>>

Exit(u) == /\ up
           /\ member[u] # Nowhere
           /\ member' = [member EXCEPT ![u] = Nowhere]
           /\ UNCHANGED <<up, queue, sent>>

Message(u, id) == [room |-> member[u], from |-> Username[u], id |-> id]

Post(u, id) ==
  /\ up
  /\ member[u] # Nowhere
  /\ queue' = [v \in Users |->
                 IF member[v] = member[u] /\ Username[v] # Username[u]
                 THEN Append(queue[v], Message(u, id))
                 ELSE queue[v]]
  /\ UNCHANGED <<up, member, sent>>

Take(u) == /\ up
           /\ queue[u] # <<>>
           /\ sent' = [sent EXCEPT ![u] = Append(@, Head(queue[u]))]
           /\ queue' = [queue EXCEPT ![u] = Tail(@)]
           /\ UNCHANGED <<up, member>>

Die == up /\ up' = FALSE /\ UNCHANGED <<member, queue, sent>>

Next == \/ Die
        \/ \E u \in Users : \/ Exit(u) \/ Take(u)
                            \/ \E name \in RoomNames : Enter(u, name)
                            \/ \E id \in Ids : Post(u, id)

Spec == Init /\ [][Next]_vars
=============================================================================
