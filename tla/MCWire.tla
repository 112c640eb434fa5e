-------------------------------- MODULE MCWire --------------------------------
(* Wire for TLC: messages at the limits, with colons in them, and too long.  *)
EXTENDS Wire

m(tag, data) == [tag |-> tag, data |-> data]
x(n) == [i \in 1..n |-> "x"]

\* Messages that fit, up to the last character; with a colon; one refused.
MCOutbox == {m("sendall", x(0)), m("sendall", x(MaxLen - 4)), m("join", <<"x", ":", "x">>),
             m("quit", x(0)), m("delivery", <<"x", ":", "x", ":", "x">>),
             m("sendall", x(MaxLen + 1)),
             m("sendall", x(MaxLen - 3)), m("sendall", x(MaxLen))}
MCWords == {"sendall", "join", "quit", "delivery", "bye", "x"}
=============================================================================
