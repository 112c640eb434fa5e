-------------------------------- MODULE Relay --------------------------------
(***************************************************************************)
(* A text on its way from a sender, through the server, to a receiver: two *)
(* connections with their lines, the response to each line, and the room   *)
(* between them.  A connection is what Channel says of it, and both users  *)
(* stay in the room.  A tag counts as one character.                       *)
(***************************************************************************)
EXTENDS Lines

CONSTANTS
  Names,      \* pairs of names, of a room and of a sender, as the server has them
  Sayings,    \* the texts that the user may type
  MaxTexts    \* bound on the texts sent

\* The names came to the server as pieces of a line, between colons.
ASSUME NamesAssumption == Names \subseteq [room : Seq(Chars \ {Colon}), user : Seq(Chars \ {Colon})]

\* What a user types holds no newline, and no tag: a line that is the rest of
\* another is a sendall, for its tag is not known.
ASSUME SayingsAssumption == \A t \in Sayings : t \in Seq(Chars \ {Newline, "quit", "join", "leave"})
ASSUME TagAssumption == "sendall" \in Words
ASSUME TextsAssumption == MaxTexts \in Nat

VARIABLES
  names,       \* the room's name and the sender's
  sender,      \* what the program sender is doing
  sent,        \* the texts it has sent
  toServer,    \* characters on their way to the server
  serving,     \* chat_with_sender goes on
  responses,   \* tags of the responses on their way to the sender
  mqueue,      \* the data of the deliveries in the receiver's queue
  toReceiver,  \* characters on their way to the receiver
  receiver,    \* what the program receiver is doing
  printed      \* what it has printed: of each delivery the name and the text

ends == <<names, sender, sent>>
server == <<serving, mqueue>>
vars == <<ends, toServer, server, responses, toReceiver, receiver, printed>>

Init == /\ names \in Names
        /\ sender = "command"
        /\ sent = <<>>
        /\ toServer = <<>>
        /\ serving = TRUE
        /\ responses = <<>>
        /\ mqueue = <<>>
        /\ toReceiver = <<>>
        /\ receiver = "listening"
        /\ printed = <<>>

Message(tag, data) == [tag |-> tag, data |-> data]

-----------------------------------------------------------------------------
(* sender.cpp: a sendall, and the response to it *)

Say(t) == /\ sender = "command"
          /\ Len(sent) < MaxTexts
          /\ MaySend(Message("sendall", t))
          /\ sender' = "waiting"
          /\ sent' = Append(sent, t)
          /\ toServer' = toServer \o Encode(Message("sendall", t))
          /\ UNCHANGED <<names, server, responses, toReceiver, receiver, printed>>

\* send fails, and the program ends.
SayRefused(t) == /\ sender = "command"
                 /\ ~MaySend(Message("sendall", t))
                 /\ sender' = "failed"
                 /\ UNCHANGED <<names, sent, toServer, server, responses, toReceiver, receiver,
                                printed>>

\* ok or err: the next line is read.
TakeResponse == /\ sender = "waiting"
                /\ responses # <<>>
                /\ sender' = "command"
                /\ responses' = Tail(responses)
                /\ UNCHANGED <<names, sent, toServer, server, toReceiver, receiver, printed>>

\* The server has closed the connection; its last response may be lost.
ResponseFails == /\ sender = "waiting"
                 /\ ~serving
                 /\ sender' = "failed"
                 /\ UNCHANGED <<names, sent, toServer, server, responses, toReceiver, receiver,
                                printed>>

-----------------------------------------------------------------------------
(* chat_with_sender and Room::broadcast_message *)

\* Mutant: the newline goes on with the text.
KeepNewline(s) == s

RemoveNewline(s) == LET I == {i \in DOMAIN s : s[i] = Newline}
                    IN  IF I = {} THEN s ELSE SubSeq(s, 1, Min(I) - 1)

\* Mutant: the names in the wrong order.
UserFirst(text) == RemoveNewline(names.user) \o <<Colon>> \o RemoveNewline(names.room)
                      \o <<Colon>> \o RemoveNewline(text)

\* What broadcast_message puts together.
DeliveryData(text) == RemoveNewline(names.room) \o <<Colon>> \o RemoveNewline(names.user)
                         \o <<Colon>> \o RemoveNewline(text)

\* Mutant: the response is sent twice.
RespondsTwice(tag) == responses' = responses \o <<tag, tag>>

Responds(tag) == responses' = Append(responses, tag)

\* receive fails: err, and the connection is closed.  Otherwise the broadcast,
\* and then ok.
ServeLine(s) == /\ serving
                /\ toServer' = After(toServer, s)
                /\ \/ /\ Invalid(s)
                      /\ serving' = FALSE
                      /\ Responds("err")
                      /\ UNCHANGED mqueue
                   \/ /\ ~Invalid(s)
                      /\ mqueue' = Append(mqueue, DeliveryData(Data(s)))
                      /\ Responds("ok")
                      /\ UNCHANGED serving
                /\ UNCHANGED <<ends, toReceiver, receiver, printed>>

-----------------------------------------------------------------------------
(* chat_with_receiver: dequeue and send *)

\* What send returns is not looked at: a delivery that it refuses is gone.
Forward == LET m == Message("delivery", Head(mqueue))
           IN  /\ mqueue # <<>>
               /\ mqueue' = Tail(mqueue)
               /\ \/ MaySend(m) /\ toReceiver' = toReceiver \o Encode(m)
                  \/ ~MaySend(m) /\ UNCHANGED toReceiver
               /\ UNCHANGED <<ends, toServer, serving, responses, receiver, printed>>

-----------------------------------------------------------------------------
(* receiver.cpp: the loop *)

\* The second and the third piece of the data, which are the third and the
\* fourth of the line.
Printed(s) == [name |-> Piece(s, 2), text |-> Piece(s, 3)]

Receiving(s) == /\ receiver = "listening"
                /\ toReceiver' = After(toReceiver, s)
                /\ \/ Invalid(s) /\ receiver' = "failed" /\ UNCHANGED printed
                   \/ Faulty(s) /\ receiver' = "faulted" /\ UNCHANGED printed
                   \/ /\ ~Invalid(s) /\ ~Faulty(s)
                      /\ printed' = Append(printed, Printed(s))
                      /\ UNCHANGED receiver
                /\ UNCHANGED <<ends, toServer, server, responses>>

\* Mutant: one delivery, and no more.
ReceiveFirst(s) == printed = <<>> /\ Receiving(s)

\* The rest of a delivery that was cut in two has no colon: it is never taken
\* for a message.
ReceiveLine(s) == Receiving(s)

-----------------------------------------------------------------------------

ServeLines == \E s \in NextLine(toServer) : ServeLine(s)
ReceiveLines == \E s \in NextLine(toReceiver) : ReceiveLine(s)

Next == \/ \E t \in Sayings : Say(t) \/ SayRefused(t)
        \/ TakeResponse \/ ResponseFails
        \/ ServeLines \/ Forward \/ ReceiveLines

Spec == Init /\ [][Next]_vars

\* Programs and threads run, and what is written arrives.  The user owes nothing.
FairSpec == Spec /\ WF_vars(TakeResponse) /\ WF_vars(ServeLines) /\ WF_vars(Forward)
                 /\ WF_vars(ReceiveLines)

-----------------------------------------------------------------------------
(* Properties *)

TypeOK == /\ names \in Names
          /\ sender \in {"command", "waiting", "failed"}
          /\ sent \in Seq(Sayings)
          /\ {toServer, toReceiver} \subseteq Texts
          /\ serving \in BOOLEAN
          /\ responses \in Seq({"ok", "err"})
          /\ mqueue \in Seq(Seq(Chars \ {Newline}))
          /\ receiver \in {"listening", "failed", "faulted"}
          /\ printed \in Seq([name : Texts, text : Texts])

\* Both lines of a text, the sendall and the longer delivery, end within the
\* limit of rio_readlineb.  (connection.cpp:58 looks at less.)
Fits(t) == Len(Encode(Message("delivery", DeliveryData(t)))) <= MaxLen - 1
AllFit == \A i \in DOMAIN sent : Fits(sent[i])

\* What the receiver should print of a text: it ends at its first colon.
BeforeColon(t) == IF Colons(t) = {} THEN t ELSE SubSeq(t, 1, Min(Colons(t)) - 1)
Expected(t) == [name |-> RemoveNewline(names.user), text |-> BeforeColon(t) \o <<Newline>>]

\* As long as every text fits, what is printed is what was sent, each text once
\* and in order, and nobody's connection ends.
PrintedAsSent == AllFit =>
  /\ serving /\ receiver = "listening"
  /\ Len(printed) <= Len(sent)
  /\ \A i \in DOMAIN printed : printed[i] = Expected(sent[i])

\* As long as every text fits, sender and server keep step: there is one
\* response to a sendall, and none is left when the next is typed.
InStep == AllFit /\ sender = "command" => responses = <<>> /\ toServer = <<>>

\* What was sent is printed, if every text fits: none is dropped by the server,
\* which looks at the result of no send.
SentIsPrinted == \A k \in 1..MaxTexts : [](Len(sent) = k /\ AllFit => <>(Len(printed) >= k \/ ~AllFit))
=============================================================================
