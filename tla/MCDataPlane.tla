----------------------------- MODULE MCDataPlane -----------------------------
(* Two generations of one network: the local address moves to the one the   *)
(* departed peer held, and two other peers join.                            *)
EXTENDS DataPlane

CONSTANTS ip1, ip2, ip3

MCPlan == << [address |-> ip1, peers |-> {ip2}],
             [address |-> ip2, peers |-> {ip1, ip3}] >>

=============================================================================
