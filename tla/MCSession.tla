------------------------------ MODULE MCSession ------------------------------
(* Session for TLC: a sender and a receiver, with two rooms to choose from.  *)
EXTENDS Session
CONSTANTS s1, r1, n1, n2, alice, bob
MCUsername == [c \in Clients |-> IF c = s1 THEN alice ELSE bob]
=============================================================================
