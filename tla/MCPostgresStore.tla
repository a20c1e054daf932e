--------------------------- MODULE MCPostgresStore ---------------------------
(* Three transactions over two networks: d1 and d2 are members of n1, or of  *)
(* both, and d1 relays for d2 in n1; i1 is unused, d2 came with invite i2.   *)
EXTENDS PostgresStore, TLC

CONSTANTS n1, n2, d1, d2, d3, k1, k2, k3, a1, a2, a3, i1, i2, i3, t1, t2, t3, e1, r1, r2, x1, x2, x3

MCPool == [n \in Network |-> Address]
MCRank == (d1 :> 1) @@ (d2 :> 2) @@ (d3 :> 3) @@ (n1 :> 1) @@ (n2 :> 2)
MCMaxVersion == [n \in Network |-> 20]

Networks == CreateNetwork(CreateNetwork(EmptyRepo, n1), n2)
Nodes    == AddNode(AddNode(Networks, d1, k1), d2, k2)
Invites  == CreateInvite(ConsumeInviteForNode(CreateInvite(Nodes, i2, n1, t2), i2, d2), i1, n1, t1)
Members  == AddMembership(AddMembership(Invites, n1, d1, a1, "active"), n1, d2, a2, "active")
Relayed  == SetRelayAssignment(Members, n1, d2, r1, d1, "live")
Both     == AddMembership(AddMembership(Relayed, n2, d1, a1, "active"), n2, d2, a2, "active")
MCInitial == {Relayed, Both}

Call(kind) ==
    [kind |-> kind, node |-> None, other |-> None, key |-> None, network |-> None,
     invite |-> None, token |-> None, value |-> None, address |-> None,
     assignment |-> None, observed |-> [e \in Endpoint |-> "none"]]

MCOperations ==
    {[Call("enroll") EXCEPT !.node = d3, !.key = k, !.value = i1, !.token = t1] : k \in {k2, k3}}
    \cup {[Call("addMembership") EXCEPT !.node = d, !.network = n2, !.address = a1] : d \in {d1, d2}}
    \cup {[Call("removeMembership") EXCEPT !.node = d, !.network = n1] : d \in {d1, d2}}
    \cup {[Call("removeNode") EXCEPT !.node = d] : d \in {d1, d2}}
    \cup {[Call("createInvite") EXCEPT !.invite = i3, !.network = n, !.token = t3] : n \in {n1, n2}}
    \cup {[Call("revokeInvite") EXCEPT !.invite = i1]}
    \cup {[Call("consumeInvite") EXCEPT !.value = v, !.token = t1, !.node = d] :
             v \in {i1, n1}, d \in {None, d1}}
    \cup {[Call("replaceEndpoints") EXCEPT !.node = d, !.observed = [e \in Endpoint |-> "fresh"]] :
             d \in {d1, d2}}
    \cup {[Call("setRelayAssignment") EXCEPT !.node = d, !.other = o, !.network = n1, !.assignment = a] :
             d \in {d1}, o \in {d2}, a \in {r1, r2}}
    \cup {[Call("setRelayAssignment") EXCEPT !.node = d2, !.other = d1, !.network = n1, !.assignment = r2]}
    \cup {[Call("removeRelayAssignment") EXCEPT !.network = n1]}
    \cup {[Call("buildSnapshot") EXCEPT !.network = n1, !.node = d2]}

Symmetric == Permutations(Tx)

=============================================================================
