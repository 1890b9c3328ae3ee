----------------------------- MODULE MCClientSync -----------------------------
(* A small instance of ClientSync for TLC: one write that races with reads.   *)
EXTENDS ClientSync

CONSTANT w1

MCWrites == {w1}
=============================================================================
