----------------------------- MODULE MCAcceptor -----------------------------
(* Acceptor for TLC: the server may bind to the wildcard of either protocol, *)
(* clients try the newer one first.                                          *)
EXTENDS Acceptor
CONSTANTS c1, c2, c3
MCList == [p \in Processes |-> IF p = Server THEN <<"0.0.0.0", "::">> ELSE <<"::1", "127.0.0.1">>]
MCReaches == {<<"127.0.0.1", "0.0.0.0">>, <<"::1", "::">>, <<"127.0.0.1", "::">>}
=============================================================================
