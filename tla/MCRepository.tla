---------------------------- MODULE MCRepository ----------------------------
(***************************************************************************)
(* Small instances of Repository.                                          *)
(***************************************************************************)
EXTENDS Repository, TLC

CONSTANTS n1, n2, d1, d2, k1, k2, a1, a2, a3, i1, i2, t1, e1, r1, r2

\* a3 is an address outside every pool.
MCPool == [n \in Network |-> Address \ {a3}]

\* n1 lives long enough for a relay to be assigned and taken away again.
MCMaxVersion == (n1 :> 5) @@ (n2 :> 3)

Symmetric == Permutations(Node) \cup Permutations(Key)
                 \cup Permutations(Assignment) \cup Permutations({a1, a2})
                 \cup Permutations(Invite)

=============================================================================
