---------------------------- MODULE MCNodeService ----------------------------
(* Two joins by one machine. *)
EXTENDS NodeService

=============================================================================
