---------------------------- MODULE MCControlPlane ----------------------------
(* Two requests, which may both be room joins, both enrollments with the one  *)
(* administrator's invite under one chosen node ID, or one of each.           *)
EXTENDS ControlPlane, AddressPool, TLC

CONSTANTS n1, h1, h2, d1, d2, c1, k1, k2, i1, i2, i3, t1, t2, t3, a1, a2, e1

MCPool       == [n \in Network |-> Address]
MCHosts      == [n \in Network |-> Address \ {a2}]
\* Key names do not matter: the first request has k1, the other the same or k2.
MCKeysOf     == (h1 :> {k1}) @@ (h2 :> {k1, k2})
MCNewNode    == (h1 :> d1) @@ (h2 :> d2)
MCNewInvite  == (h1 :> i1) @@ (h2 :> i2)
MCNewToken   == (h1 :> t1) @@ (h2 :> t2)
MCAdminToken == i3 :> t3

\* ControlPlane lets an enrollment take any free host address, or fail when
\* there is none.  That is what the code's random scan and retry loop amount
\* to, in every CIDR of up to eight addresses with any of them taken.
ASSUME LoopFindsEveryFreeHost ==
    \A size \in {1, 2, 4, 8} : \A taken \in SUBSET (0..(size - 1)) :
        LET p    == NewPool(0, size)
            free == {a \in (0..(size - 1)) \ taken : Usable(p, a)}
        IN  /\ Allocations(p, taken) = IF free = {} THEN {Exhausted} ELSE free
            /\ LowestFree(p, taken) \in IF free = {} THEN {Exhausted} ELSE free

=============================================================================
