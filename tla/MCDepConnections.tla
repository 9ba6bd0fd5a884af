-------------------------- MODULE MCDepConnections --------------------------
(* DepConnections with processes as model values. *)
EXTENDS DepConnections
=============================================================================
