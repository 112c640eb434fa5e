-------------------------------- MODULE Lines --------------------------------
(***************************************************************************)
(* The format of a connection: how Connection::send makes a line of a      *)
(* message, where rio_readlineb ends a line, and what Connection::receive  *)
(* and divide_data make of it.  A tag, and "bye", count as one character.  *)
(***************************************************************************)
EXTENDS Integers, Sequences, FiniteSetsExt, SequencesExt

CONSTANTS
  Words,   \* characters that are neither a colon nor a newline, tags included
  MaxLen   \* Message::MAX_LEN

Colon == ":"
Newline == "\n"
Chars == Words \cup {Colon, Newline}
Texts == Seq(Chars)
Messages == [tag : Words, data : Texts]

\* With room for one character, of which the last is the zero, rio_readlineb would
\* copy nothing.
ASSUME LengthAssumption == MaxLen \in Nat \ {0, 1}
ASSUME WordsAssumption == {"bye", "delivery"} \subseteq Words /\ {Colon, Newline} \cap Words = {}

-----------------------------------------------------------------------------
(* From a message to characters *)

\* leave and quit say "bye", whatever the data is.
Body(m) == IF m.tag \in {"quit", "leave"} THEN <<"bye">> ELSE m.data

\* Mutant: a line without its end.
EncodeUnended(m) == <<m.tag, Colon>> \o Body(m)

Encode(m) == <<m.tag, Colon>> \o Body(m) \o <<Newline>>

\* The test of send is made of the data alone, before the tag is put in front.
MaySend(m) == Len(m.data) <= MaxLen

-----------------------------------------------------------------------------
(* From characters to lines *)

\* rio_readlineb ends with a newline, or when maxlen - 1 characters were copied.
Ends(s) == \/ s # <<>> /\ Last(s) = Newline
           \/ Len(s) >= MaxLen - 1

Unended(s) == \A k \in 0..(Len(s) - 1) : ~Ends(SubSeq(s, 1, k))

IsLine(s) == Ends(s) /\ Unended(s)

\* The line that content begins with, if there is one.
NextLine(content) == {s \in {SubSeq(content, 1, n) : n \in DOMAIN content} : IsLine(s)}
After(content, s) == SubSeq(content, Len(s) + 1, Len(content))

-----------------------------------------------------------------------------
(* From a line to a message *)

Colons(s) == {i \in DOMAIN s : s[i] = Colon}

\* How many strings getline finds between the colons: an empty one at the end
\* is not found.
Pieces(s) == Cardinality(Colons(s)) + IF s # <<>> /\ Last(s) # Colon THEN 1 ELSE 0

\* The k-th of them, from 0.
Piece(s, k) == LET I == {i \in DOMAIN s \ Colons(s) : Cardinality(Colons(SubSeq(s, 1, i))) = k}
               IN  IF I = {} THEN <<>> ELSE SubSeq(s, Min(I), Max(I))

IsDelivery(s) == Piece(s, 0) = <<"delivery">>

\* receive refuses a line without two pieces; of a delivery without four it
\* reads beyond the end of the vector.
Invalid(s) == Pieces(s) < 2
Faulty(s) == IsDelivery(s) /\ Pieces(s) \in 2..3

\* Mutant: a delivery like any other message.
FirstPiece(s) == Piece(s, 1)

Data(s) == IF IsDelivery(s)
           THEN Piece(s, 1) \o <<Colon>> \o Piece(s, 2) \o <<Colon>> \o Piece(s, 3)
           ELSE Piece(s, 1)
=============================================================================
