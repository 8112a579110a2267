-------------------------- MODULE MCGatewayInstance --------------------------
(* GatewayInstance on small sets. *)
EXTENDS GatewayInstance, TLC

\* Clients, slots of daemons and slots of connections are interchangeable.
Symmetry == Permutations(Clients) \cup Permutations(Daemons) \cup Permutations(Conns)

=============================================================================
