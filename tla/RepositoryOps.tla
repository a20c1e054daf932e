---------------------------- MODULE RepositoryOps ----------------------------
(***************************************************************************)
(* The control-plane store of internal/db/repository.go as pure operators  *)
(* on a repository value r.  Each Go method is a pair: Can<Op>(r, ...) is  *)
(* the conjunction of its validations and early returns, <Op>(r, ...) the  *)
(* repository it leaves behind.  A method whose Can<Op> is false returns   *)
(* an error and changes nothing.  Written this way the methods compose     *)
(* inside one transaction exactly as they do on the working copy of        *)
(* MemoryRepository.WithTransaction.                                       *)
(*                                                                         *)
(* Data abstraction.  Identifiers, keys, tokens and addresses are opaque.  *)
(* Absolute times are replaced by the phase they put a value in: an        *)
(* endpoint observation is "future", "fresh" or "stale", a relay           *)
(* assignment "scheduled", "live" or "ended" (ended also stands for the    *)
(* statuses expired and revoked), an unused invite may become "expired".   *)
(* The membership statuses pending, suspended and revoked are one value,   *)
(* "inactive": no code tells them apart.  Display names, client versions   *)
(* and last-seen times are left out.                                       *)
(***************************************************************************)
EXTENDS Integers

CONSTANTS
    Network,     \* network IDs
    Node,        \* node IDs
    Key,         \* WireGuard public keys
    Address,     \* IPv4 addresses
    Pool,        \* Pool[n]: the addresses of network n's CIDR pool
    Invite,      \* invite IDs
    Token,       \* invite token hashes
    Endpoint,    \* endpoint identities (address, port, interface)
    Assignment,  \* relay assignment IDs
    None         \* Go's zero value / missing map entry

ASSUME NoneAssumption ==
    /\ None \notin Network
    /\ None \notin Node
    /\ None \notin Key
    /\ None \notin Address
    /\ None \notin Invite
    /\ None \notin Token
    /\ None \notin Assignment

ASSUME PoolAssumption == Pool \in [Network -> SUBSET Address]

----------------------------------------------------------------------------
\* The values a repository holds.

MembershipRecord == [address : Address \cup {None},
                     status  : {"none", "active", "inactive"}]
AbsentMembership == [address |-> None, status |-> "none"]

InviteRecord == [network : Network \cup {None},
                 token   : Token \cup {None},
                 state   : {"none", "unused", "expired", "consumed", "revoked"},
                 by      : Node \cup {None}]
AbsentInvite == [network |-> None, token |-> None, state |-> "none", by |-> None]

Observation == {"none", "future", "fresh", "stale"}

AssignmentRecord == [id    : Assignment \cup {None},
                     relay : Node \cup {None},
                     state : {"none", "scheduled", "live", "ended"}]
AbsentAssignment == [id |-> None, relay |-> None, state |-> "none"]

OwnerRecord == [network : Network \cup {None}, node : Node \cup {None}]
NoOwner     == [network |-> None, node |-> None]

\* version[n] = 0: network n does not exist (a created one starts at 1).
\* nodes[d]: the public key of node d.  publicKeys, inviteByToken and
\* relayAssignmentOwners are the secondary indexes the code keeps.
Repo == [version               : [Network -> Nat],
         nodes                 : [Node -> Key \cup {None}],
         publicKeys            : [Key -> Node \cup {None}],
         memberships           : [Network -> [Node -> MembershipRecord]],
         invites               : [Invite -> InviteRecord],
         inviteByToken         : [Token -> Invite \cup {None}],
         endpoints             : [Node -> [Endpoint -> Observation]],
         relayAssignments      : [Network -> [Node -> AssignmentRecord]],
         relayAssignmentOwners : [Assignment -> OwnerRecord]]

EmptyRepo ==
    [version               |-> [n \in Network |-> 0],
     nodes                 |-> [d \in Node |-> None],
     publicKeys            |-> [k \in Key |-> None],
     memberships           |-> [n \in Network |-> [d \in Node |-> AbsentMembership]],
     invites               |-> [i \in Invite |-> AbsentInvite],
     inviteByToken         |-> [t \in Token |-> None],
     endpoints             |-> [d \in Node |-> [e \in Endpoint |-> "none"]],
     relayAssignments      |-> [n \in Network |-> [d \in Node |-> AbsentAssignment]],
     relayAssignmentOwners |-> [a \in Assignment |-> NoOwner]]

----------------------------------------------------------------------------
\* Reading a repository.

NetworkExists(r, n) == r.version[n] > 0
NodeExists(r, d)    == r.nodes[d] # None
IsMember(r, n, d)   == r.memberships[n][d].status # "none"
IsActive(r, n, d)   == r.memberships[n][d].status = "active"
HasAssignment(r, n, d) == r.relayAssignments[n][d].id # None

\* GetNodeNetworkIDs.
NodeNetworks(r, d) == {n \in Network : IsMember(r, n, d)}

\* incrementNetworkVersionLocked on every network of ns.
Bump(r, ns) ==
    [r EXCEPT !.version = [n \in Network |-> IF n \in ns THEN r.version[n] + 1
                                                         ELSE r.version[n]]]

----------------------------------------------------------------------------
\* Networks, nodes and memberships.

CanCreateNetwork(r, n) == ~NetworkExists(r, n)
CreateNetwork(r, n) == [r EXCEPT !.version[n] = 1]

CanAddNode(r, d, k) == ~NodeExists(r, d) /\ r.publicKeys[k] = None
\* Mutant: the index is not written.
AddNodeUnindexed(r, d, k) == [r EXCEPT !.nodes[d] = k]
AddNode(r, d, k) == [r EXCEPT !.nodes[d] = k, !.publicKeys[k] = d]

\* Mutant: only active members' addresses count as taken.
CanAddMembershipIfInactive(r, n, d, a) ==
    /\ NetworkExists(r, n)
    /\ NodeExists(r, d)
    /\ a \in Pool[n]
    /\ ~IsMember(r, n, d)
    /\ \A o \in Node : IsActive(r, n, o) => r.memberships[n][o].address # a
CanAddMembership(r, n, d, a) ==
    /\ NetworkExists(r, n)
    /\ NodeExists(r, d)
    /\ a \in Pool[n]
    /\ ~IsMember(r, n, d)
    /\ \A o \in Node : IsMember(r, n, o) => r.memberships[n][o].address # a
AddMembership(r, n, d, a, status) ==
    Bump([r EXCEPT !.memberships[n][d] = [address |-> a, status |-> status]], {n})

\* Mutant: the assignments that use d as their relay are forgotten.
InvolvingTarget(r, n, d) == {t \in Node : HasAssignment(r, n, t) /\ t = d}

\* The nodes of network n whose assignment names node d, as target or relay.
Involving(r, n, d) ==
    {t \in Node : HasAssignment(r, n, t) /\ (t = d \/ r.relayAssignments[n][t].relay = d)}

\* deleteRelayAssignmentLocked for the nodes gone[n] of every network n: the
\* assignment and its entry of the owner index.
DropAssignments(r, gone) ==
    [r EXCEPT
       !.relayAssignments =
          [n \in Network |-> [t \in Node |->
             IF t \in gone[n] THEN AbsentAssignment ELSE r.relayAssignments[n][t]]],
       !.relayAssignmentOwners =
          [a \in Assignment |->
             IF \E n \in Network : \E t \in gone[n] : r.relayAssignments[n][t].id = a
             THEN NoOwner ELSE r.relayAssignmentOwners[a]]]

CanRemoveMembership(r, n, d) == IsMember(r, n, d)
RemoveMembership(r, n, d) ==
    LET gone == [m \in Network |-> IF m = n THEN Involving(r, n, d) ELSE {}]
    IN  Bump([DropAssignments(r, gone)
                EXCEPT !.memberships[n][d] = AbsentMembership], {n})

CanRemoveNode(r, d) == NodeExists(r, d)
RemoveNode(r, d) ==
    LET gone     == [n \in Network |-> Involving(r, n, d)]
        affected == {n \in Network : IsMember(r, n, d) \/ gone[n] # {}}
    IN  Bump([DropAssignments(r, gone) EXCEPT
                !.nodes[d] = None,
                !.publicKeys[r.nodes[d]] = None,
                !.endpoints[d] = [e \in Endpoint |-> "none"],
                !.invites = [i \in Invite |->
                    IF r.invites[i].by = d THEN [r.invites[i] EXCEPT !.by = None]
                                           ELSE r.invites[i]],
                !.memberships = [n \in Network |->
                    [r.memberships[n] EXCEPT ![d] = AbsentMembership]]],
             affected)

----------------------------------------------------------------------------
\* Invites.

CanCreateInvite(r, i, n, t) ==
    /\ NetworkExists(r, n)
    /\ r.invites[i].state = "none"
    /\ r.inviteByToken[t] = None
CreateInvite(r, i, n, t) ==
    [r EXCEPT !.invites[i] = [network |-> n, token |-> t,
                              state |-> "unused", by |-> None],
              !.inviteByToken[t] = i]

\* A revoked invite may be revoked again (no change), a consumed one may not.
CanRevokeInvite(r, i) == r.invites[i].state \in {"unused", "expired", "revoked"}
RevokeInvite(r, i) == [r EXCEPT !.invites[i].state = "revoked"]

\* inviteByLookupLocked: value is an invite ID, or else the ID of the network
\* the token's invite was issued for.
InviteByLookup(r, value, t, i) ==
    \/ /\ value = i
       /\ r.invites[i].state # "none"
       /\ r.invites[i].token = t
    \/ /\ \A j \in Invite : value = j => r.invites[j].state = "none"
       /\ r.inviteByToken[t] = i
       /\ r.invites[i].network = value

\* Mutant: the consuming node is not looked up.
CanConsumeUnchecked(r, value, t, i, d) ==
    InviteByLookup(r, value, t, i) /\ r.invites[i].state = "unused"
CanConsumeInvite(r, value, t, i, d) ==
    /\ InviteByLookup(r, value, t, i)
    /\ d # None => NodeExists(r, d)
    /\ r.invites[i].state = "unused"
ConsumeInviteForNode(r, i, d) ==
    [r EXCEPT !.invites[i].state = "consumed", !.invites[i].by = d]

----------------------------------------------------------------------------
\* Endpoints and relay assignments.

CanReplaceEndpoints(r, d) == NodeExists(r, d)
\* Mutant: the networks of d keep their versions.
ReplaceEndpointsSilently(r, d, observed) == [r EXCEPT !.endpoints[d] = observed]
ReplaceEndpoints(r, d, observed) ==
    Bump([r EXCEPT !.endpoints[d] = observed], NodeNetworks(r, d))

CanSetRelayAssignment(r, n, d, a, relay) ==
    /\ d # relay
    /\ NetworkExists(r, n) /\ NodeExists(r, d) /\ NodeExists(r, relay)
    /\ IsActive(r, n, d) /\ IsActive(r, n, relay)
    /\ r.relayAssignmentOwners[a] \in {NoOwner, [network |-> n, node |-> d]}
SetRelayAssignment(r, n, d, a, relay, state) ==
    LET previous == r.relayAssignments[n][d].id
    IN  Bump([r EXCEPT
                !.relayAssignments[n][d] =
                    [id |-> a, relay |-> relay, state |-> state],
                !.relayAssignmentOwners =
                    [b \in Assignment |->
                       IF b = a THEN [network |-> n, node |-> d]
                       ELSE IF b = previous THEN NoOwner
                       ELSE r.relayAssignmentOwners[b]]],
             {n})

CanRemoveRelayAssignment(r, n) == \E d \in Node : HasAssignment(r, n, d)
RemoveRelayAssignment(r, n) ==
    LET gone == [m \in Network |->
                   IF m = n THEN {t \in Node : HasAssignment(r, n, t)} ELSE {}]
    IN  Bump(DropAssignments(r, gone), {n})

----------------------------------------------------------------------------
\* BuildSnapshotAt.

CanBuildSnapshot(r, n, d) ==
    NetworkExists(r, n) /\ IsActive(r, n, d) /\ NodeExists(r, d)

\* Mutant: peers without a fresh endpoint are left out.
SnapshotReachable(r, n, d) ==
    {[node      |-> p,
      key       |-> r.nodes[p],
      address   |-> r.memberships[n][p].address,
      endpoints |-> {e \in Endpoint : r.endpoints[p][e] = "fresh"}] :
        p \in {q \in Node \ {d} : IsActive(r, n, q) /\ NodeExists(r, q)
                                     /\ \E e \in Endpoint : r.endpoints[q][e] = "fresh"}}
SnapshotPeers(r, n, d) ==
    {[node      |-> p,
      key       |-> r.nodes[p],
      address   |-> r.memberships[n][p].address,
      endpoints |-> {e \in Endpoint : r.endpoints[p][e] = "fresh"}] :
        p \in {q \in Node \ {d} : IsActive(r, n, q) /\ NodeExists(r, q)}}

\* The relay of d in n, None when it has no usable one.
SnapshotRelay(r, n, d) ==
    LET selected == r.relayAssignments[n][d]
    IN  IF /\ selected.id # None
           /\ selected.state = "live"
           /\ IsActive(r, n, d)
           /\ IsActive(r, n, selected.relay)
        THEN selected.relay ELSE None

\* What a member configures itself from, without the generation it carries.
SnapshotContent(r, n, d) ==
    [address |-> r.memberships[n][d].address,
     peers   |-> SnapshotPeers(r, n, d),
     relay   |-> SnapshotRelay(r, n, d)]

BuildSnapshot(r, n, d) ==
    [network |-> n, generation |-> r.version[n], content |-> SnapshotContent(r, n, d)]

----------------------------------------------------------------------------
\* What every repository the operations can produce satisfies.

\* publicKeys is the inverse of nodes: AddNode's uniqueness test looks only
\* at the index, so a key left behind would lock its owner out and a missing
\* one would admit a second node with the same WireGuard key.
KeyIndexExact(r) ==
    /\ \A d \in Node : r.nodes[d] # None => r.publicKeys[r.nodes[d]] = d
    /\ \A k \in Key : r.publicKeys[k] # None => r.nodes[r.publicKeys[k]] = k

\* Members exist, sit inside their network's pool and never share an address
\* within a network.
AddressesExclusive(r) ==
    \A n \in Network, d \in Node : IsMember(r, n, d) =>
        /\ NetworkExists(r, n)
        /\ NodeExists(r, d)
        /\ r.memberships[n][d].address \in Pool[n]
        /\ \A o \in Node :
              IsMember(r, n, o) /\ r.memberships[n][o].address = r.memberships[n][d].address
                  => o = d

\* Every relay assignment joins two different active members of its network.
RelaysAreMembers(r) ==
    \A n \in Network, d \in Node : HasAssignment(r, n, d) =>
        /\ r.relayAssignments[n][d].relay \in Node
        /\ r.relayAssignments[n][d].relay # d
        /\ IsActive(r, n, d)
        /\ IsActive(r, n, r.relayAssignments[n][d].relay)

\* relayAssignmentOwners is the exact inverse of the assignments' IDs.
OwnerIndexExact(r) ==
    /\ \A n \in Network, d \in Node : HasAssignment(r, n, d) =>
          r.relayAssignmentOwners[r.relayAssignments[n][d].id]
              = [network |-> n, node |-> d]
    /\ \A a \in Assignment : r.relayAssignmentOwners[a] # NoOwner =>
          /\ r.relayAssignmentOwners[a].network \in Network
          /\ r.relayAssignmentOwners[a].node \in Node
          /\ r.relayAssignments[r.relayAssignmentOwners[a].network]
                               [r.relayAssignmentOwners[a].node].id = a

\* Tokens and invites are in one-to-one correspondence, only a consumed invite
\* names a node, and the node it names exists.
InvitesAccounted(r) ==
    \A i \in Invite :
        /\ r.invites[i].state # "none" =>
              /\ r.invites[i].network \in Network
              /\ r.invites[i].token \in Token
              /\ r.inviteByToken[r.invites[i].token] = i
        /\ r.invites[i].by # None =>
              r.invites[i].state = "consumed" /\ NodeExists(r, r.invites[i].by)

\* Only a stored node has endpoint observations: one left behind would be
\* served as fresh if its node ID were enrolled again.
EndpointsOwned(r) ==
    \A d \in Node : ~NodeExists(r, d) => \A e \in Endpoint : r.endpoints[d][e] = "none"

RepoInv(r) ==
    /\ r \in Repo
    /\ KeyIndexExact(r)
    /\ AddressesExclusive(r)
    /\ RelaysAreMembers(r)
    /\ OwnerIndexExact(r)
    /\ InvitesAccounted(r)
    /\ EndpointsOwned(r)

=============================================================================
