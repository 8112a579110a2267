---------------------------- MODULE MCPassthrough ----------------------------
(* Passthrough with two pieces each way and all kinds of CONNECT. *)
EXTENDS Passthrough

AllKinds == {"public", "blocked", "invalid"}

=============================================================================
