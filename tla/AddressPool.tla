----------------------------- MODULE AddressPool -----------------------------
(***************************************************************************)
(* internal/address/pool.go: an IPv4 CIDR and its usable host addresses,   *)
(* and the allocation loop of enrollControl that draws from it.  An        *)
(* address is its number; a pool is given by its first number and its size *)
(* (2^(32 - prefix) in the code).  What is proved of these operators is in *)
(* ControlPlaneProofs; MCControlPlane compares them with the set of free   *)
(* hosts, which is what ControlPlane uses.                                 *)
(***************************************************************************)
EXTENDS Integers

\* PoolExhaustedError: a number no address has.
Exhausted == -1

\* Every CIDR has a network and a broadcast address; what is between is usable.
NewPool(network, size) ==
    IF size > 2
    THEN [network |-> network, size |-> size,
          first |-> network + 1, last |-> network + (size - 2), usableCount |-> size - 2]
    ELSE [network |-> network, size |-> size, first |-> 0, last |-> 0, usableCount |-> 0]

\* Membership of the CIDR, which AddMembership requires of an address.
Contains(p, a) == a \in p.network..(p.network + p.size - 1)

Usable(p, a) == p.usableCount # 0 /\ a >= p.first /\ a <= p.last

\* The address offset places after place start, wrapping around.
Candidate(p, start, offset) == p.first + ((start + offset) % p.usableCount)

\* The offsets at which the scan from start meets an address not in occupied.
Hits(p, start, occupied) ==
    {offset \in 0..(p.usableCount - 1) : Candidate(p, start, offset) \notin occupied}

\* RandomNext, with the place crypto/rand drew.
RandomNext(p, start, occupied) ==
    IF Hits(p, start, occupied) = {} THEN Exhausted
    ELSE Candidate(p, start, CHOOSE i \in Hits(p, start, occupied) :
                                \A j \in Hits(p, start, occupied) : i <= j)

\* ForEachCandidate: what it visits, in ascending order.
Candidates(p) == IF p.usableCount = 0 THEN {} ELSE p.first..p.last

\* Next: the first candidate not in occupied.
LowestFree(p, occupied) ==
    LET free == Candidates(p) \ occupied
    IN  IF free = {} THEN Exhausted ELSE CHOOSE a \in free : \A b \in free : a <= b

\* What enrollControl's loop may end with when the store holds the addresses
\* taken: it knows only the conflicts it has met, and tries Size() times.
Allocations(p, taken) ==
    LET n == p.usableCount
        loop[attempts \in 0..n, occupied \in SUBSET taken] ==
            IF attempts = n THEN {Exhausted}
            ELSE UNION {LET a == RandomNext(p, start, occupied)
                        IN  IF a = Exhausted \/ a \notin taken THEN {a}
                            ELSE loop[attempts + 1, occupied \cup {a}] :
                        start \in 0..(n - 1)}
    IN  loop[0, {}]

=============================================================================
