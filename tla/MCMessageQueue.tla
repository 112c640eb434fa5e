--------------------------- MODULE MCMessageQueue ---------------------------
(* MessageQueue for TLC: two broadcasting threads and the receiver's thread. *)
EXTENDS MessageQueue
=============================================================================
