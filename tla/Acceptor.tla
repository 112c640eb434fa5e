------------------------------ MODULE Acceptor ------------------------------
(***************************************************************************)
(* How connections begin and end: the walks of open_listenfd and           *)
(* open_clientfd over their lists of addresses, the accept loop of the     *)
(* server, the thread and the descriptor each connection gets, and what    *)
(* becomes of the descriptor.  What the threads say meanwhile is left out. *)
(***************************************************************************)
EXTENDS Integers, Sequences

CONSTANTS
  Clients,      \* runs of sender and receiver
  Receivers,    \* those of receiver
  Server,       \* the server's process
  List,         \* the addresses that getaddrinfo gives to each process
  Reaches,      \* <<a, b>>: a connect to a reaches who is bound to b
  NoAddress,
  Free,         \* who has a descriptor that is not open
  MaxFds,       \* how many connections the server's limit of descriptors allows
  LISTENQ       \* how many connections may wait for accept

Processes == Clients \cup {Server}
Fds == 1..MaxFds

ASSUME ProcessesAssumption == /\ Receivers \subseteq Clients
                              /\ Server \notin Clients
                              /\ Free \notin Clients
ASSUME ListAssumption == /\ DOMAIN List = Processes
                         /\ \A p \in Processes : Len(List[p]) \in Nat
ASSUME LimitsAssumption == MaxFds \in Nat /\ LISTENQ \in Nat \ {0}

VARIABLES
  at,        \* where each process is
  place,     \* which address of its list it tries
  held,      \* how many sockets the walk has opened and not closed
  bound,     \* the address the server listens at
  backlog,   \* connections that accept has not taken
  fds,       \* the connection of each of the server's descriptors
  m_fd,      \* m_fd of the server's Connection, 0 before there is one
  thread     \* the thread of the connection

walks == <<at, place, held>>
serving == <<fds, m_fd, thread>>
vars == <<walks, bound, backlog, serving>>

Init == /\ at = [p \in Processes |-> "start"]
        /\ place = [p \in Processes |-> 1]
        /\ held = [p \in Processes |-> 0]
        /\ bound = NoAddress
        /\ backlog = <<>>
        /\ fds = [d \in Fds |-> Free]
        /\ m_fd = [c \in Clients |-> 0]
        /\ thread = [c \in Clients |-> "none"]

Goes(p, from, to) == at[p] = from /\ at' = [at EXCEPT ![p] = to]
Holds(p, n) == held' = [held EXCEPT ![p] = @ + n]
NextPlace(p) == place' = [place EXCEPT ![p] = @ + 1]
Address(p) == List[p][place[p]]

-----------------------------------------------------------------------------
(* The walk, the same in open_listenfd and open_clientfd *)

\* getaddrinfo gives a list, or fails.
Resolve(p) == /\ Goes(p, "start", "try") \/ Goes(p, "start", "failed")
              /\ UNCHANGED <<place, held, bound, backlog, serving>>

SocketOpens(p) == /\ place[p] <= Len(List[p])
                  /\ Goes(p, "try", "opened")
                  /\ Holds(p, 1)
                  /\ UNCHANGED <<place, bound, backlog, serving>>

\* Mutant: no test for the end of the list.
SocketFailsUnguarded(p) == /\ at[p] = "try"
                           /\ NextPlace(p)
                           /\ UNCHANGED <<at, held, bound, backlog, serving>>

SocketFails(p) == /\ place[p] <= Len(List[p])
                  /\ at[p] = "try"
                  /\ NextPlace(p)
                  /\ UNCHANGED <<at, held, bound, backlog, serving>>

\* bind or connect fails: nobody listens there, too many wait, or the port is
\* taken.
Refused(p) == /\ Goes(p, "opened", "refused")
              /\ UNCHANGED <<place, held, bound, backlog, serving>>

\* Mutants: the next address without a close; a close, and the same address
\* again.
CloseSkipped(p) == /\ Goes(p, "refused", "try")
                   /\ NextPlace(p)
                   /\ UNCHANGED <<held, bound, backlog, serving>>

CloseAndRetry(p) == /\ Goes(p, "refused", "try")
                    /\ Holds(p, -1)
                    /\ UNCHANGED <<place, bound, backlog, serving>>

CloseRefused(p) == /\ Goes(p, "refused", "try")
                   /\ Holds(p, -1)
                   /\ NextPlace(p)
                   /\ UNCHANGED <<bound, backlog, serving>>

\* close reports an error, and the walk is given up.  The descriptor is closed
\* all the same, as Linux does it.
CloseFails(p) == /\ Goes(p, "refused", "failed")
                 /\ Holds(p, -1)
                 /\ UNCHANGED <<place, bound, backlog, serving>>

\* No address worked: the program says so and ends.
Exhausted(p) == /\ place[p] > Len(List[p])
                /\ Goes(p, "try", "failed")
                /\ UNCHANGED <<place, held, bound, backlog, serving>>

-----------------------------------------------------------------------------
(* Success, and what follows *)

Binds == /\ Goes(Server, "opened", "bound")
         /\ bound' = Address(Server)
         /\ UNCHANGED <<place, held, backlog, serving>>

Listens == /\ Goes(Server, "bound", "accepting")
           /\ UNCHANGED <<place, held, bound, backlog, serving>>

ListenFails == /\ Goes(Server, "bound", "failed")
               /\ Holds(Server, -1)
               /\ bound' = NoAddress
               /\ UNCHANGED <<place, backlog, serving>>

\* The connection is made before accept is called.
Connects(c) == /\ at[Server] = "accepting"
               /\ Goes(c, "opened", "connected")
               /\ <<Address(c), bound>> \in Reaches
               /\ Len(backlog) < LISTENQ
               /\ backlog' = Append(backlog, c)
               /\ UNCHANGED <<place, held, bound, serving>>

\* main returns, or exit: the socket is closed.
ClientEnds(c) == /\ Goes(c, "connected", "ended")
                 /\ Holds(c, -1)
                 /\ UNCHANGED <<place, bound, backlog, serving>>

-----------------------------------------------------------------------------
(* handle_client_requests *)

IsLowestFree(d) == fds[d] = Free /\ \A e \in Fds : e < d => fds[e] # Free
Full == \A d \in Fds : fds[d] # Free

\* accept gives the lowest descriptor that is free.  That pthread_create failed
\* is not noticed, and the connection is served by nobody.
Accept(d, t) == LET c == Head(backlog)
                IN  /\ at[Server] = "accepting"
                    /\ backlog # <<>>
                    /\ IsLowestFree(d)
                    /\ t \in {"login", "lost"}
                    /\ fds' = [fds EXCEPT ![d] = c]
                    /\ m_fd' = [m_fd EXCEPT ![c] = d]
                    /\ thread' = [thread EXCEPT ![c] = t]
                    /\ backlog' = Tail(backlog)
                    /\ UNCHANGED <<walks, bound>>

\* Mutant: the loop ends when accept fails, and with it the program.
AcceptBreaks == /\ backlog # <<>> /\ Full
                /\ Goes(Server, "accepting", "failed")
                /\ Holds(Server, -1)
                /\ backlog' = <<>>
                /\ fds' = [d \in Fds |-> Free]
                /\ UNCHANGED <<place, bound, m_fd, thread>>

\* The loop goes on when accept fails.
AcceptFails == /\ backlog # <<>> /\ Full
               /\ at[Server] = "accepting"
               /\ UNCHANGED vars

-----------------------------------------------------------------------------
(* worker, chat_with_sender and chat_with_receiver *)

Runs(c, from, to) == /\ at[Server] = "accepting"
                     /\ thread[c] = from
                     /\ thread' = [thread EXCEPT ![c] = to]

Serve(c) == /\ Runs(c, "login", IF c \in Receivers THEN "deliver" ELSE "serve")
            /\ UNCHANGED <<walks, bound, backlog, fds, m_fd>>

\* A login or a first message that is refused: return without a close.
Leave(c) == /\ Runs(c, "login", "left")
            /\ UNCHANGED <<walks, bound, backlog, fds, m_fd>>

\* The wrapper, which ends the program should close fail, for the number is not
\* open.  That the number is the thread's own (DescriptorIsOwn) is why it does not.
Releases(c) == fds' = [fds EXCEPT ![m_fd[c]] = Free]

\* Mutant: is_open still says yes, and the thread goes on.
CloseAndGoOn(c) == /\ Runs(c, "serve", "serve")
                   /\ Releases(c)
                   /\ UNCHANGED <<walks, bound, backlog, m_fd>>

\* Connection::close, which does not reset m_fd, and the thread returns.  The
\* loop of chat_with_receiver has no end.
Close(c) == /\ Runs(c, "serve", "closed")
            /\ Releases(c)
            /\ UNCHANGED <<walks, bound, backlog, m_fd>>

-----------------------------------------------------------------------------

Walk(p) == \/ Resolve(p) \/ SocketOpens(p) \/ SocketFails(p)
           \/ Refused(p) \/ CloseRefused(p) \/ CloseFails(p) \/ Exhausted(p)

Opens == Binds \/ Listens \/ ListenFails
Accepts == AcceptFails \/ \E d \in Fds, t \in {"login", "lost"} : Accept(d, t)

Next == \/ \E p \in Processes : Walk(p)
        \/ Opens \/ Accepts
        \/ \E c \in Clients : Connects(c) \/ ClientEnds(c) \/ Serve(c) \/ Leave(c) \/ Close(c)

Spec == Init /\ [][Next]_vars

\* The walks go on, and so does the accept loop.  Nothing is assumed of the
\* threads: they wait for their clients.
FairSpec == /\ Spec
            /\ WF_vars(Accepts)
            /\ WF_vars(Opens)
            /\ \A p \in Processes : WF_vars(Walk(p))

-----------------------------------------------------------------------------
(* Properties *)

Nothing == {"start", "try", "failed", "ended"}
Something == {"opened", "refused", "bound", "accepting", "connected"}
Unserved == {"lost", "left"}
Open == {"login", "serve", "deliver"} \cup Unserved

TypeOK == /\ at \in [Processes -> Nothing \cup Something]
          /\ place \in [Processes -> Nat] /\ \A p \in Processes : place[p] \in 1..(Len(List[p]) + 1)
          /\ held \in [Processes -> Int]
          /\ backlog \in Seq(Clients)
          /\ fds \in [Fds -> Clients \cup {Free}]
          /\ m_fd \in [Clients -> Fds \cup {0}]
          /\ thread \in [Clients -> Open \cup {"none", "closed"}]

\* However many addresses fail, and at whatever call, the walk ends with the
\* socket it returns and with no other, and with none when it fails.
WalkHoldsOne == \A p \in Processes : held[p] = IF at[p] \in Something THEN 1 ELSE 0

\* Numbers of descriptors are given out again while the Connection that had them
\* still knows them: a thread reads, writes and closes its own client's
\* connection, never another's, and no descriptor is open that no connection has.
DescriptorIsOwn == \A c \in Clients, d \in Fds :
                      fds[d] = c <=> thread[c] \in Open /\ m_fd[c] = d

\* A walk comes to an end, whatever fails.
WalkEnds == \A p \in Processes : at[p] = "try" ~> at[p] \notin {"try", "opened", "refused"}

\* A connection that the kernel has made is accepted, and its thread created if
\* that is possible, unless the descriptors are used up for ever: a failed accept
\* is not the end of accepting.
Waiting(c) == \E i \in DOMAIN backlog : backlog[i] = c
Admitted == \A c \in Clients : Waiting(c) ~> thread[c] # "none" \/ []Full
=============================================================================
