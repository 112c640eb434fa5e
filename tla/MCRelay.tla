------------------------------- MODULE MCRelay -------------------------------
(* Relay for TLC: texts at the limits, with colons in them, and too long.    *)
EXTENDS Relay
x(n) == [i \in 1..n |-> "x"]
MCWords == {"sendall", "delivery", "bye", "x", "r", "u"}
\* A short room, and one so long that a delivery is cut within its name.
MCNames == {[room |-> <<"r", Newline>>, user |-> <<"u", Newline>>],
            [room |-> [i \in 1..(MaxLen - 3) |-> "r"], user |-> <<"u", Newline>>]}
MCSayings == {x(0), <<"x", Colon, "x">>,
              x(MaxLen - 8), x(MaxLen - 7), x(MaxLen - 6), x(MaxLen - 3),
              x(MaxLen - 3) \o <<Colon, "x">>, x(MaxLen + 1)}
=============================================================================
