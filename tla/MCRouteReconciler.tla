-------------------------- MODULE MCRouteReconciler --------------------------
(* One interface, two virtual addresses. *)
EXTENDS RouteReconciler

CONSTANTS ip1, ip2

=============================================================================
