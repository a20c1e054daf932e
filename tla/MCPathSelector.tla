---------------------------- MODULE MCPathSelector ----------------------------
(* Thresholds that differ, so that neither can stand in for the other. *)
EXTENDS PathSelector

=============================================================================
