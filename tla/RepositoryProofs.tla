-------------------------- MODULE RepositoryProofs --------------------------
(***************************************************************************)
(* RepoInv is an invariant of Repository for every set of networks, nodes, *)
(* keys and addresses, and the properties the runs check follow from it.   *)
(***************************************************************************)
EXTENDS Repository, RepositoryOpsProofs

\* The clock moves no reference and no version.
LEMMA TimePassesInv ==
    ASSUME RepoInv(db), TimePasses
    PROVE  RepoInv(db') /\ db'.version = db.version
<1>0. db \in Repo
  BY DEF RepoInv
<1>1. ASSUME NEW i \in Invite, AgeInvite(i)
      PROVE  RepoInv(db') /\ db'.version = db.version
  <2> DEFINE rec == [db.invites[i] EXCEPT !.state = "expired"]
  <2>1. db.invites[i] \in InviteRecord
    BY <1>0 DEF Repo
  <2>2. /\ rec \in InviteRecord /\ rec.network = db.invites[i].network
        /\ rec.token = db.invites[i].token /\ rec.by = db.invites[i].by
    BY <2>1 DEF InviteRecord
  <2>3. db.invites[i].state # "none" /\ db.invites[i].by = None
    BY <1>1 DEF AgeInvite, RepoInv, InvitesAccounted
  <2>4. db' = [db EXCEPT !.invites[i] = rec] /\ db'.version = db.version
    BY <1>1, <1>0 DEF AgeInvite, Repo
  <2> HIDE DEF rec
  <2> QED BY <2>2, <2>3, <2>4, MarkInviteInv
<1>2. ASSUME NEW d \in Node, NEW e \in Endpoint, AgeEndpoint(d, e)
      PROVE  RepoInv(db') /\ db'.version = db.version
  <2>1. PICK o \in Observation : db' = [db EXCEPT !.endpoints[d][e] = o]
    BY <1>2 DEF AgeEndpoint, Observation
  <2> DEFINE observed == [db.endpoints[d] EXCEPT ![e] = o]
  <2>2. observed \in [Endpoint -> Observation]
    BY <1>0 DEF Repo
  <2>3. db' = [db EXCEPT !.endpoints[d] = observed] /\ db'.version = db.version
    BY <2>1, <1>0 DEF Repo
  <2>4. NodeExists(db, d)
    BY <1>2 DEF AgeEndpoint, RepoInv, EndpointsOwned
  <2> HIDE DEF observed
  <2> QED BY <2>2, <2>3, <2>4, PutEndpointsInv
<1>3. ASSUME NEW n \in Network, NEW d \in Node, AgeAssignment(n, d)
      PROVE  RepoInv(db') /\ db'.version = db.version
  <2>1. PICK st \in {"live", "ended"} :
           db' = [db EXCEPT !.relayAssignments[n][d].state = st]
    BY <1>3 DEF AgeAssignment
  <2>2. db'.version = db.version
    BY <2>1, <1>0 DEF Repo
  <2> QED BY <2>1, <2>2, MarkAssignmentInv
<1> QED BY <1>1, <1>2, <1>3 DEF TimePasses

----------------------------------------------------------------------------
\* The invariant of the specification.

\* RepoInv is inductive by itself; the second conjunct is the bound that
\* Publish imposes.
Inv == RepoInv(db) /\ \A n \in Network : db.version[n] <= MaxVersion[n]

\* An empty repository satisfies the invariant.
LEMMA InitInv == Init => Inv
<1> SUFFICES ASSUME Init PROVE Inv
  OBVIOUS
<1>1. db = EmptyRepo
  BY DEF Init
<1>2. \A n \in Network : db.version[n] = 0
  BY <1>1 DEF EmptyRepo
<1>3. \A n \in Network : 0 <= MaxVersion[n]
  BY MaxVersionAssumption
<1> QED BY <1>1, <1>2, <1>3, EmptyRepoInv DEF Inv

\* Calls on networks, nodes, memberships and endpoints preserve RepoInv.
LEMMA MemberStepInv == RepoInv(db) /\ MemberStep => RepoInv(db')
<1> SUFFICES ASSUME RepoInv(db), MemberStep PROVE RepoInv(db')
  OBVIOUS
<1>1. ASSUME NEW n \in Network, DoCreateNetwork(n) PROVE RepoInv(db')
  BY <1>1, CreateNetworkInv DEF DoCreateNetwork, Publish
<1>2. ASSUME NEW d \in Node, NEW k \in Key, DoAddNode(d, k) PROVE RepoInv(db')
  BY <1>2, AddNodeInv DEF DoAddNode, Publish
<1>3. ASSUME NEW d \in Node, TouchNode(d) PROVE RepoInv(db')
  BY <1>3 DEF TouchNode
<1>4. ASSUME NEW n \in Network, NEW d \in Node, NEW a \in Address,
             NEW s \in {"active", "inactive"}, DoAddMembership(n, d, a, s)
      PROVE  RepoInv(db')
  BY <1>4, AddMembershipInv DEF DoAddMembership, Publish
<1>5. ASSUME NEW n \in Network, NEW d \in Node, DoRemoveMembership(n, d) PROVE RepoInv(db')
  BY <1>5, RemoveMembershipInv DEF DoRemoveMembership, Publish
<1>6. ASSUME NEW d \in Node, DoRemoveNode(d) PROVE RepoInv(db')
  BY <1>6, RemoveNodeInv DEF DoRemoveNode, Publish
<1>7. ASSUME NEW d \in Node, NEW observed \in [Endpoint -> Observation],
             DoReplaceEndpoints(d, observed)
      PROVE  RepoInv(db')
  BY <1>7, ReplaceEndpointsInv DEF DoReplaceEndpoints, Publish
<1> QED BY <1>1, <1>2, <1>3, <1>4, <1>5, <1>6, <1>7 DEF MemberStep

\* Calls on invites preserve RepoInv.
LEMMA InviteStepInv == RepoInv(db) /\ InviteStep => RepoInv(db')
<1> SUFFICES ASSUME RepoInv(db), InviteStep PROVE RepoInv(db')
  OBVIOUS
<1>1. ASSUME NEW i \in Invite, NEW n \in Network, NEW t \in Token, DoCreateInvite(i, n, t)
      PROVE  RepoInv(db')
  BY <1>1, CreateInviteInv DEF DoCreateInvite, Publish
<1>2. ASSUME NEW i \in Invite, DoRevokeInvite(i) PROVE RepoInv(db')
  BY <1>2, RevokeInviteInv DEF DoRevokeInvite, Publish
<1>3. ASSUME NEW value \in Invite \cup Network, NEW t \in Token, NEW i \in Invite,
             NEW d \in Node \cup {None}, DoConsumeInvite(value, t, i, d)
      PROVE  RepoInv(db')
  BY <1>3, ConsumeInviteInv DEF DoConsumeInvite, Publish
<1> QED BY <1>1, <1>2, <1>3 DEF InviteStep

\* Calls on relay assignments preserve RepoInv.
LEMMA RelayStepInv == RepoInv(db) /\ RelayStep => RepoInv(db')
<1> SUFFICES ASSUME RepoInv(db), RelayStep PROVE RepoInv(db')
  OBVIOUS
<1>1. ASSUME NEW n \in Network, NEW d \in Node, NEW a \in Assignment, NEW relay \in Node,
             NEW s \in {"scheduled", "live", "ended"}, DoSetRelayAssignment(n, d, a, relay, s)
      PROVE  RepoInv(db')
  BY <1>1, SetRelayAssignmentInv DEF DoSetRelayAssignment, Publish
<1>2. ASSUME NEW n \in Network, DoRemoveRelayAssignment(n) PROVE RepoInv(db')
  BY <1>2, RemoveRelayAssignmentInv DEF DoRemoveRelayAssignment, Publish
<1> QED BY <1>1, <1>2 DEF RelayStep

\* Every call ends in Publish, which checks the bound; the clock leaves the
\* versions alone.
LEMMA BoundStep ==
    ASSUME Inv, Next
    PROVE  \A n \in Network : db'.version[n] <= MaxVersion[n]
<1>1. CASE MemberStep
  BY <1>1 DEF MemberStep, Publish, DoCreateNetwork, DoAddNode, TouchNode, DoAddMembership,
              DoRemoveMembership, DoRemoveNode, DoReplaceEndpoints, Inv
<1>2. CASE InviteStep
  BY <1>2 DEF InviteStep, Publish, DoCreateInvite, DoRevokeInvite, DoConsumeInvite
<1>3. CASE RelayStep
  BY <1>3 DEF RelayStep, Publish, DoSetRelayAssignment, DoRemoveRelayAssignment
<1>4. CASE TimePasses
  BY <1>4, TimePassesInv DEF Inv
<1> QED BY <1>1, <1>2, <1>3, <1>4 DEF Next

\* Every step preserves the invariant.
LEMMA NextInv == Inv /\ [Next]_db => Inv'
<1> SUFFICES ASSUME Inv, [Next]_db PROVE Inv'
  OBVIOUS
<1>1. CASE Next
  <2>1. RepoInv(db)
    BY DEF Inv
  <2>2. RepoInv(db')
    BY <1>1, <2>1, MemberStepInv, InviteStepInv, RelayStepInv, TimePassesInv DEF Next
  <2> QED BY <1>1, <2>2, BoundStep DEF Inv
<1>2. CASE UNCHANGED db
  BY <1>2 DEF Inv
<1> QED BY <1>1, <1>2

\* The store satisfies RepoInv after every sequence of calls.
THEOREM RepositoryInvariant == Spec => []Inv
<1> QED BY InitInv, NextInv, PTL DEF Spec

\* Every map keeps its type through every sequence of calls.
THEOREM TypeCorrect == Spec => []TypeOK
<1>1. Inv => TypeOK
  BY DEF Inv, RepoInv, TypeOK
<1> QED BY <1>1, RepositoryInvariant, PTL

\* The public-key index is exact in every reachable repository.
THEOREM KeysIndexedAlways == Spec => []KeysIndexed
<1>1. Inv => KeysIndexed
  BY DEF Inv, RepoInv, KeysIndexed
<1> QED BY <1>1, RepositoryInvariant, PTL

\* No network ever gives one address to two members.
THEOREM NoSharedAddressAlways == Spec => []NoSharedAddress
<1>1. Inv => NoSharedAddress
  BY DEF Inv, RepoInv, NoSharedAddress
<1> QED BY <1>1, RepositoryInvariant, PTL

\* No relay assignment outlives a membership it names, and the owner index is
\* exact.
THEOREM RelaysConsistentAlways == Spec => []RelaysConsistent
<1>1. Inv => RelaysConsistent
  BY DEF Inv, RepoInv, RelaysConsistent
<1> QED BY <1>1, RepositoryInvariant, PTL

\* Invites stay accounted for and no endpoint outlives its node.
THEOREM NothingDanglesAlways == Spec => []NothingDangles
<1>1. Inv => NothingDangles
  BY DEF Inv, RepoInv, NothingDangles
<1> QED BY <1>1, RepositoryInvariant, PTL

\* Every snapshot is closed: its relay is a peer and no peer shares an address
\* or a key.
THEOREM SnapshotClosedAlways == Spec => []SnapshotClosed
<1>1. Inv => SnapshotClosed
  <2> SUFFICES ASSUME RepoInv(db), NEW n \in Network, NEW d \in Node,
                      CanBuildSnapshot(db, n, d)
               PROVE  LET s == SnapshotContent(db, n, d)
                      IN  /\ s.relay # None => \E p \in s.peers : p.node = s.relay
                          /\ \A p \in s.peers : p.address # s.address /\ p.key # db.nodes[d]
                          /\ \A p, q \in s.peers : p.key = q.key => p = q
    BY DEF SnapshotClosed, Inv
  <2> DEFINE peers == SnapshotPeers(db, n, d)
             P == {q \in Node \ {d} : IsActive(db, n, q) /\ NodeExists(db, q)}
             peer(x) == [node |-> x, key |-> db.nodes[x],
                         address |-> db.memberships[n][x].address,
                         endpoints |-> {e \in Endpoint : db.endpoints[x][e] = "fresh"}]
  <2>1. peers = {peer(x) : x \in P}
    BY DEF SnapshotPeers
  <2>2. \A x \in P : /\ peer(x).node = x /\ peer(x).key = db.nodes[x]
                     /\ peer(x).address = db.memberships[n][x].address
    OBVIOUS
  <2>3. \A x \in P : IsMember(db, n, x)
    BY DEF IsActive, IsMember
  <2>4. IsMember(db, n, d) /\ IsActive(db, n, d) /\ NodeExists(db, d)
    BY DEF CanBuildSnapshot, IsActive, IsMember
  <2>5. \A x \in P : peer(x).address # db.memberships[n][d].address
    BY <2>2, <2>3, <2>4 DEF RepoInv, AddressesExclusive
  <2>6. \A x, y \in P \cup {d} : db.nodes[x] = db.nodes[y] => x = y
    BY <2>4 DEF RepoInv, KeyIndexExact, NodeExists
  <2>7. SnapshotRelay(db, n, d) # None => SnapshotRelay(db, n, d) \in P
    BY DEF SnapshotRelay, RepoInv, RelaysAreMembers, AddressesExclusive, HasAssignment,
           IsActive, IsMember
  <2>8. LET s == SnapshotContent(db, n, d)
        IN  /\ s.address = db.memberships[n][d].address
            /\ s.peers = peers /\ s.relay = SnapshotRelay(db, n, d)
    BY DEF SnapshotContent
  <2> HIDE DEF P, peers, peer
  <2> QED BY <2>1, <2>2, <2>5, <2>6, <2>7, <2>8
<1> QED BY <1>1, RepositoryInvariant, PTL

----------------------------------------------------------------------------
\* The generation covers the content.

\* What a snapshot of network n is read from: its memberships, its relay
\* assignments, and the keys and endpoints of its members.
SameView(r, q, n) ==
    /\ \A d \in Node : q.memberships[n][d].status = r.memberships[n][d].status
    /\ q.relayAssignments[n] = r.relayAssignments[n]
    /\ \A d \in Node : IsMember(r, n, d) =>
          /\ q.memberships[n][d] = r.memberships[n][d]
          /\ q.nodes[d] = r.nodes[d]
          /\ q.endpoints[d] = r.endpoints[d]

\* From r to q, network n advances its version or keeps all its members see.
Covers(r, q, n) ==
    \/ q.version[n] > r.version[n]
    \/ q.version[n] = r.version[n] /\ SameView(r, q, n)

\* Two stores with the same view of a network build the same snapshots of it.
LEMMA SameViewContent ==
    ASSUME NEW r, NEW q, RepoInv(r), NEW n \in Network, NEW d \in Node,
           IsActive(r, n, d), SameView(r, q, n)
    PROVE  SnapshotContent(q, n, d) = SnapshotContent(r, n, d)
<1> DEFINE S(x) == {p \in Node \ {d} : IsActive(x, n, p) /\ NodeExists(x, p)}
           peer(x, p) == [node |-> p, key |-> x.nodes[p],
                          address |-> x.memberships[n][p].address,
                          endpoints |-> {e \in Endpoint : x.endpoints[p][e] = "fresh"}]
<1>1. q.relayAssignments[n] = r.relayAssignments[n]
  BY DEF SameView
<1>2. \A p \in Node : IsActive(q, n, p) = IsActive(r, n, p)
  BY DEF SameView, IsActive
<1>3. \A p \in Node : IsActive(r, n, p) =>
         /\ q.memberships[n][p] = r.memberships[n][p]
         /\ q.nodes[p] = r.nodes[p] /\ q.endpoints[p] = r.endpoints[p]
  BY DEF SameView, IsActive, IsMember
<1>4. S(q) = S(r)
  BY <1>2, <1>3 DEF NodeExists
<1>5. \A p \in S(r) : peer(q, p) = peer(r, p)
  BY <1>3
<1>6. SnapshotPeers(q, n, d) = {peer(q, p) : p \in S(q)}
  BY DEF SnapshotPeers
<1>7. SnapshotPeers(r, n, d) = {peer(r, p) : p \in S(r)}
  BY DEF SnapshotPeers
<1> HIDE DEF S, peer
<1>8. SnapshotPeers(q, n, d) = SnapshotPeers(r, n, d)
  BY <1>4, <1>5, <1>6, <1>7
<1>9. SnapshotRelay(q, n, d) = SnapshotRelay(r, n, d)
  BY <1>1, <1>2 DEF SnapshotRelay, RepoInv, RelaysAreMembers, HasAssignment
<1> QED BY <1>3, <1>8, <1>9 DEF SnapshotContent

\* incrementNetworkVersionLocked: a call that leaves the other networks' view
\* alone may change what it likes in the networks it advances.
LEMMA BumpCovers ==
    ASSUME NEW r \in Repo, NEW q, NEW ns, NEW m \in Network,
           q.version[m] = IF m \in ns THEN r.version[m] + 1 ELSE r.version[m],
           m \notin ns => SameView(r, q, m)
    PROVE  Covers(r, q, m)
<1>1. r.version[m] \in Nat
  BY DEF Repo
<1> QED BY <1>1 DEF Covers

\* A network is created with version 1, above the 0 of a missing one.
LEMMA CreateNetworkCovers ==
    ASSUME NEW r, RepoInv(r), NEW n \in Network, CanCreateNetwork(r, n), NEW m \in Network
    PROVE  Covers(r, CreateNetwork(r, n), m)
<1> DEFINE q == CreateNetwork(r, n)
<1>0. r \in Repo /\ r.version[n] = 0
  BY DEF RepoInv, Repo, CanCreateNetwork, NetworkExists
<1>1. /\ q.version[m] = IF m = n THEN 1 ELSE r.version[m]
      /\ q.memberships = r.memberships /\ q.relayAssignments = r.relayAssignments
      /\ q.nodes = r.nodes /\ q.endpoints = r.endpoints
  BY <1>0 DEF CreateNetwork, Repo
<1> HIDE DEF q
<1>2. Covers(r, q, m)
  BY <1>0, <1>1 DEF Covers, SameView
<1> QED BY <1>2 DEF q

\* A new node is a member of no network yet.
LEMMA AddNodeCovers ==
    ASSUME NEW r, RepoInv(r), NEW d \in Node, NEW k \in Key, CanAddNode(r, d, k),
           NEW m \in Network
    PROVE  Covers(r, AddNode(r, d, k), m)
<1> DEFINE q == AddNode(r, d, k)
<1>0. r \in Repo /\ ~IsMember(r, m, d)
  BY DEF RepoInv, CanAddNode, AddressesExclusive
<1>1. /\ q.version = r.version
      /\ q.memberships = r.memberships /\ q.relayAssignments = r.relayAssignments
      /\ q.endpoints = r.endpoints
      /\ \A x \in Node : x # d => q.nodes[x] = r.nodes[x]
  BY <1>0 DEF AddNode, Repo
<1> HIDE DEF q
<1>2. Covers(r, q, m)
  BY <1>0, <1>1 DEF Covers, SameView
<1> QED BY <1>2 DEF q

\* AddMembership changes the memberships of the network it advances.
LEMMA AddMembershipCovers ==
    ASSUME NEW r, RepoInv(r), NEW n \in Network, NEW d \in Node, NEW a \in Address,
           NEW status \in {"active", "inactive"}, NEW m \in Network
    PROVE  Covers(r, AddMembership(r, n, d, a, status), m)
<1> DEFINE q == AddMembership(r, n, d, a, status)
<1>0. r \in Repo
  BY DEF RepoInv
<1>1. /\ q.version[m] = IF m \in {n} THEN r.version[m] + 1 ELSE r.version[m]
      /\ m # n => q.memberships[m] = r.memberships[m]
      /\ q.relayAssignments = r.relayAssignments
      /\ q.nodes = r.nodes /\ q.endpoints = r.endpoints
  BY <1>0 DEF AddMembership, Bump, Repo
<1> HIDE DEF q
<1>2. Covers(r, q, m)
  BY <1>0, <1>1, BumpCovers DEF SameView
<1> QED BY <1>2 DEF q

\* RemoveMembership drops the member and its assignments in that network only.
LEMMA RemoveMembershipCovers ==
    ASSUME NEW r, RepoInv(r), NEW n \in Network, NEW d \in Node, NEW m \in Network
    PROVE  Covers(r, RemoveMembership(r, n, d), m)
<1> DEFINE q == RemoveMembership(r, n, d)
<1>0. r \in Repo
  BY DEF RepoInv
<1>1. /\ q.version[m] = IF m \in {n} THEN r.version[m] + 1 ELSE r.version[m]
      /\ m # n => q.memberships[m] = r.memberships[m]
      /\ q.nodes = r.nodes /\ q.endpoints = r.endpoints
  BY <1>0 DEF RemoveMembership, DropAssignments, Bump, Repo
<1>2. m # n => q.relayAssignments[m] = r.relayAssignments[m]
  BY <1>0 DEF RemoveMembership, DropAssignments, Bump, Repo
<1> HIDE DEF q
<1>3. Covers(r, q, m)
  BY <1>0, <1>1, <1>2, BumpCovers DEF SameView
<1> QED BY <1>3 DEF q

\* RemoveNode advances every network the node is a member of or relays in;
\* the others never showed it.
LEMMA RemoveNodeCovers ==
    ASSUME NEW r, RepoInv(r), NEW d \in Node, CanRemoveNode(r, d), NEW m \in Network
    PROVE  Covers(r, RemoveNode(r, d), m)
<1> DEFINE q == RemoveNode(r, d)
           gone == [n \in Network |-> Involving(r, n, d)]
           affected == {n \in Network : IsMember(r, n, d) \/ gone[n] # {}}
<1>0. r \in Repo
  BY DEF RepoInv
<1>1. /\ q.version[m] = IF m \in affected THEN r.version[m] + 1 ELSE r.version[m]
      /\ q.memberships[m] = [r.memberships[m] EXCEPT ![d] = AbsentMembership]
      /\ \A x \in Node : x # d => q.nodes[x] = r.nodes[x] /\ q.endpoints[x] = r.endpoints[x]
  BY <1>0 DEF RemoveNode, DropAssignments, Bump, Repo
<1>2. q.relayAssignments[m] = [t \in Node |-> IF t \in gone[m] THEN AbsentAssignment
                                                ELSE r.relayAssignments[m][t]]
  BY <1>0 DEF RemoveNode, DropAssignments, Bump, Repo
<1>3. ASSUME m \notin affected PROVE SameView(r, q, m)
  <2>1. ~IsMember(r, m, d) /\ gone[m] = {}
    BY <1>3
  <2>2. /\ r.memberships[m] \in [Node -> MembershipRecord]
        /\ r.relayAssignments[m] \in [Node -> AssignmentRecord]
    BY <1>0 DEF Repo
  <2> HIDE DEF q, gone, affected
  <2>3. r.memberships[m][d].status = "none" /\ AbsentMembership.status = "none"
    BY <2>1 DEF IsMember, AbsentMembership
  <2>4. /\ \A x \in Node : x # d => q.memberships[m][x] = r.memberships[m][x]
        /\ q.memberships[m][d] = AbsentMembership
    BY <2>2, <1>1
  <2>5. q.relayAssignments[m] = r.relayAssignments[m]
    BY <2>1, <2>2, <1>2
  <2> QED BY <2>1, <2>3, <2>4, <2>5, <1>1 DEF SameView
<1> HIDE DEF q, affected
<1>4. Covers(r, q, m)
  BY <1>0, <1>1, <1>3, BumpCovers
<1> QED BY <1>4 DEF q

\* A snapshot shows nothing of the invites.
LEMMA InviteCovers ==
    ASSUME NEW r \in Repo, NEW q, NEW m \in Network,
           q.version = r.version, q.memberships = r.memberships, q.nodes = r.nodes,
           q.endpoints = r.endpoints, q.relayAssignments = r.relayAssignments
    PROVE  Covers(r, q, m)
  BY DEF Covers, SameView

\* ReplaceEndpoints advances every network the node is a member of.
LEMMA ReplaceEndpointsCovers ==
    ASSUME NEW r, RepoInv(r), NEW d \in Node, NEW observed \in [Endpoint -> Observation],
           NEW m \in Network
    PROVE  Covers(r, ReplaceEndpoints(r, d, observed), m)
<1> DEFINE q == ReplaceEndpoints(r, d, observed)
           ns == NodeNetworks(r, d)
<1>0. r \in Repo
  BY DEF RepoInv
<1>1. /\ q.version[m] = IF m \in ns THEN r.version[m] + 1 ELSE r.version[m]
      /\ q.memberships = r.memberships /\ q.relayAssignments = r.relayAssignments
      /\ q.nodes = r.nodes
      /\ \A x \in Node : x # d => q.endpoints[x] = r.endpoints[x]
  BY <1>0 DEF ReplaceEndpoints, Bump, Repo
<1>2. m \notin ns => ~IsMember(r, m, d)
  BY DEF NodeNetworks
<1> HIDE DEF q, ns
<1>3. Covers(r, q, m)
  BY <1>0, <1>1, <1>2, BumpCovers DEF SameView
<1> QED BY <1>3 DEF q

\* SetRelayAssignment changes one assignment of the network it advances.
LEMMA SetRelayAssignmentCovers ==
    ASSUME NEW r, RepoInv(r), NEW n \in Network, NEW d \in Node, NEW a \in Assignment,
           NEW relay \in Node, NEW state, NEW m \in Network
    PROVE  Covers(r, SetRelayAssignment(r, n, d, a, relay, state), m)
<1> DEFINE q == SetRelayAssignment(r, n, d, a, relay, state)
<1>0. r \in Repo
  BY DEF RepoInv
<1>1. /\ q.version[m] = IF m \in {n} THEN r.version[m] + 1 ELSE r.version[m]
      /\ q.memberships = r.memberships /\ q.nodes = r.nodes /\ q.endpoints = r.endpoints
      /\ m # n => q.relayAssignments[m] = r.relayAssignments[m]
  BY <1>0 DEF SetRelayAssignment, Bump, Repo
<1> HIDE DEF q
<1>2. Covers(r, q, m)
  BY <1>0, <1>1, BumpCovers DEF SameView
<1> QED BY <1>2 DEF q

\* RemoveRelayAssignment empties the assignments of the network it advances.
LEMMA RemoveRelayAssignmentCovers ==
    ASSUME NEW r, RepoInv(r), NEW n \in Network, NEW m \in Network
    PROVE  Covers(r, RemoveRelayAssignment(r, n), m)
<1> DEFINE q == RemoveRelayAssignment(r, n)
<1>0. r \in Repo
  BY DEF RepoInv
<1>1. /\ q.version[m] = IF m \in {n} THEN r.version[m] + 1 ELSE r.version[m]
      /\ q.memberships = r.memberships /\ q.nodes = r.nodes /\ q.endpoints = r.endpoints
      /\ m # n => q.relayAssignments[m] = r.relayAssignments[m]
  BY <1>0 DEF RemoveRelayAssignment, DropAssignments, Bump, Repo
<1> HIDE DEF q
<1>2. Covers(r, q, m)
  BY <1>0, <1>1, BumpCovers DEF SameView
<1> QED BY <1>2 DEF q

\* Every call of a member or an operator covers what it changes.
LEMMA CallCovers ==
    ASSUME RepoInv(db), MemberStep \/ InviteStep \/ RelayStep, NEW m \in Network
    PROVE  Covers(db, db', m)
<1>0. db \in Repo
  BY DEF RepoInv
<1>1. CASE MemberStep
  <2>1. ASSUME NEW n \in Network, DoCreateNetwork(n) PROVE Covers(db, db', m)
    BY <2>1, CreateNetworkCovers DEF DoCreateNetwork, Publish
  <2>2. ASSUME NEW d \in Node, NEW k \in Key, DoAddNode(d, k) PROVE Covers(db, db', m)
    BY <2>2, AddNodeCovers DEF DoAddNode, Publish
  <2>3. ASSUME NEW d \in Node, TouchNode(d) PROVE Covers(db, db', m)
    BY <2>3, <1>0, InviteCovers DEF TouchNode
  <2>4. ASSUME NEW n \in Network, NEW d \in Node, NEW a \in Address,
               NEW s \in {"active", "inactive"}, DoAddMembership(n, d, a, s)
        PROVE  Covers(db, db', m)
    BY <2>4, AddMembershipCovers DEF DoAddMembership, Publish
  <2>5. ASSUME NEW n \in Network, NEW d \in Node, DoRemoveMembership(n, d)
        PROVE  Covers(db, db', m)
    BY <2>5, RemoveMembershipCovers DEF DoRemoveMembership, Publish
  <2>6. ASSUME NEW d \in Node, DoRemoveNode(d) PROVE Covers(db, db', m)
    BY <2>6, RemoveNodeCovers DEF DoRemoveNode, Publish
  <2>7. ASSUME NEW d \in Node, NEW observed \in [Endpoint -> Observation],
               DoReplaceEndpoints(d, observed)
        PROVE  Covers(db, db', m)
    BY <2>7, ReplaceEndpointsCovers DEF DoReplaceEndpoints, Publish
  <2> QED BY <1>1, <2>1, <2>2, <2>3, <2>4, <2>5, <2>6, <2>7 DEF MemberStep
<1>2. CASE InviteStep
  <2>1. ASSUME NEW i \in Invite, NEW n \in Network, NEW t \in Token, DoCreateInvite(i, n, t)
        PROVE  Covers(db, db', m)
    <3>1. /\ db'.version = db.version /\ db'.memberships = db.memberships
          /\ db'.nodes = db.nodes /\ db'.endpoints = db.endpoints
          /\ db'.relayAssignments = db.relayAssignments
      BY <2>1, <1>0 DEF DoCreateInvite, Publish, CreateInvite, Repo
    <3> QED BY <1>0, <3>1, InviteCovers
  <2>2. ASSUME NEW i \in Invite, DoRevokeInvite(i) PROVE Covers(db, db', m)
    <3>1. /\ db'.version = db.version /\ db'.memberships = db.memberships
          /\ db'.nodes = db.nodes /\ db'.endpoints = db.endpoints
          /\ db'.relayAssignments = db.relayAssignments
      BY <2>2, <1>0 DEF DoRevokeInvite, Publish, RevokeInvite, Repo
    <3> QED BY <1>0, <3>1, InviteCovers
  <2>3. ASSUME NEW value \in Invite \cup Network, NEW t \in Token, NEW i \in Invite,
               NEW d \in Node \cup {None}, DoConsumeInvite(value, t, i, d)
        PROVE  Covers(db, db', m)
    <3>1. /\ db'.version = db.version /\ db'.memberships = db.memberships
          /\ db'.nodes = db.nodes /\ db'.endpoints = db.endpoints
          /\ db'.relayAssignments = db.relayAssignments
      BY <2>3, <1>0 DEF DoConsumeInvite, Publish, ConsumeInviteForNode, Repo
    <3> QED BY <1>0, <3>1, InviteCovers
  <2> QED BY <1>2, <2>1, <2>2, <2>3 DEF InviteStep
<1>3. CASE RelayStep
  <2>1. ASSUME NEW n \in Network, NEW d \in Node, NEW a \in Assignment, NEW relay \in Node,
               NEW s \in {"scheduled", "live", "ended"},
               DoSetRelayAssignment(n, d, a, relay, s)
        PROVE  Covers(db, db', m)
    BY <2>1, SetRelayAssignmentCovers DEF DoSetRelayAssignment, Publish
  <2>2. ASSUME NEW n \in Network, DoRemoveRelayAssignment(n) PROVE Covers(db, db', m)
    BY <2>2, RemoveRelayAssignmentCovers DEF DoRemoveRelayAssignment, Publish
  <2> QED BY <1>3, <2>1, <2>2 DEF RelayStep
<1> QED BY <1>1, <1>2, <1>3

\* A call that changes some member's snapshot advances its network's version,
\* and no call takes a version back.
THEOREM VersionCoversContentAlways == Spec => VersionCoversContent
<1> DEFINE A == /\ \A n \in Network : db'.version[n] >= db.version[n]
                /\ TimePasses \/ \A n \in Network, d \in Node :
                      /\ CanBuildSnapshot(db, n, d)
                      /\ CanBuildSnapshot(db', n, d)
                      /\ SnapshotContent(db', n, d) # SnapshotContent(db, n, d)
                      => db'.version[n] > db.version[n]
<1>1. ASSUME Inv, [Next]_db PROVE [A]_db
  <2>0. RepoInv(db) /\ \A n \in Network : db.version[n] \in Nat
    BY <1>1 DEF Inv, RepoInv, Repo
  <2>p. \A n \in Network : db'.version[n] \in Nat
    <3>1. Inv'
      BY <1>1, NextInv
    <3> QED BY <3>1 DEF Inv, RepoInv, Repo
  <2>1. CASE TimePasses
    <3>1. db'.version = db.version
      BY <2>0, <2>1, TimePassesInv
    <3> QED BY <2>0, <2>1, <3>1
  <2>2. CASE MemberStep \/ InviteStep \/ RelayStep
    <3>1. \A n \in Network : Covers(db, db', n)
      BY <2>0, <2>2, CallCovers
    <3>2. \A n \in Network : db'.version[n] >= db.version[n]
      BY <2>0, <2>p, <3>1 DEF Covers
    <3>3. ASSUME NEW n \in Network, NEW d \in Node, CanBuildSnapshot(db, n, d),
                 SnapshotContent(db', n, d) # SnapshotContent(db, n, d)
          PROVE  db'.version[n] > db.version[n]
      <4>1. IsActive(db, n, d)
        BY <3>3 DEF CanBuildSnapshot
      <4>2. ~SameView(db, db', n)
        BY <2>0, <3>3, <4>1, SameViewContent
      <4> QED BY <3>1, <4>2 DEF Covers
    <3> QED BY <3>2, <3>3
  <2> QED BY <1>1, <2>1, <2>2 DEF Next
<1>2. Spec => [][A]_db
  BY <1>1, RepositoryInvariant, PTL DEF Spec
<1> QED BY <1>2 DEF VersionCoversContent

----------------------------------------------------------------------------
\* An invite is used once.

\* What one step may do to the invite record x, leaving y.
InviteKept(x, y) ==
    /\ x.state \in {"consumed", "revoked"} => y.state = x.state
    /\ x.state # "none" =>
          /\ y.state \notin {"none"}
          /\ y.network = x.network
          /\ y.token = x.token
    /\ x.state = "consumed" => y.by \in {x.by, None}

\* Every call and the clock keep every invite.
LEMMA StepKeepsInvites ==
    ASSUME RepoInv(db), Next, NEW j \in Invite
    PROVE  InviteKept(db.invites[j], db'.invites[j])
<1>0. /\ db \in Repo
      /\ db.invites[j] \in InviteRecord /\ db.invites \in [Invite -> InviteRecord]
  BY DEF RepoInv, Repo
<1>1. ASSUME db'.invites[j] = db.invites[j]
      PROVE  InviteKept(db.invites[j], db'.invites[j])
  BY <1>1 DEF InviteKept
<1>2. CASE MemberStep
  <2>1. ASSUME NEW d \in Node, DoRemoveNode(d)
        PROVE  InviteKept(db.invites[j], db'.invites[j])
    <3>1. db'.invites[j] = IF db.invites[j].by = d THEN [db.invites[j] EXCEPT !.by = None]
                                                   ELSE db.invites[j]
      BY <2>1, <1>0 DEF DoRemoveNode, Publish, RemoveNode, DropAssignments, Bump, Repo
    <3> QED BY <1>0, <3>1 DEF InviteKept, InviteRecord
  <2>2. ASSUME ~\E d \in Node : DoRemoveNode(d)
        PROVE  db'.invites = db.invites
    <3>1. ASSUME NEW n \in Network, DoCreateNetwork(n) PROVE db'.invites = db.invites
      BY <3>1, <1>0 DEF DoCreateNetwork, Publish, CreateNetwork, Repo
    <3>2. ASSUME NEW d \in Node, NEW k \in Key, DoAddNode(d, k) PROVE db'.invites = db.invites
      BY <3>2, <1>0 DEF DoAddNode, Publish, AddNode, Repo
    <3>3. ASSUME NEW d \in Node, TouchNode(d) PROVE db'.invites = db.invites
      BY <3>3 DEF TouchNode
    <3>4. ASSUME NEW n \in Network, NEW d \in Node, NEW a \in Address,
                 NEW s \in {"active", "inactive"}, DoAddMembership(n, d, a, s)
          PROVE  db'.invites = db.invites
      BY <3>4, <1>0 DEF DoAddMembership, Publish, AddMembership, Bump, Repo
    <3>5. ASSUME NEW n \in Network, NEW d \in Node, DoRemoveMembership(n, d)
          PROVE  db'.invites = db.invites
      BY <3>5, <1>0 DEF DoRemoveMembership, Publish, RemoveMembership, DropAssignments, Bump,
                        Repo
    <3>6. ASSUME NEW d \in Node, NEW observed \in [Endpoint -> Observation],
                 DoReplaceEndpoints(d, observed)
          PROVE  db'.invites = db.invites
      BY <3>6, <1>0 DEF DoReplaceEndpoints, Publish, ReplaceEndpoints, Bump, Repo
    <3> QED BY <1>2, <2>2, <3>1, <3>2, <3>3, <3>4, <3>5, <3>6 DEF MemberStep
  <2> QED BY <2>1, <2>2, <1>1
<1>3. CASE InviteStep
  <2>1. ASSUME NEW i \in Invite, NEW n \in Network, NEW t \in Token, DoCreateInvite(i, n, t)
        PROVE  InviteKept(db.invites[j], db'.invites[j])
    <3>1. CASE i = j
      BY <3>1, <2>1 DEF DoCreateInvite, CanCreateInvite, InviteKept
    <3>2. CASE i # j
      <4>1. db'.invites[j] = db.invites[j]
        BY <3>2, <2>1, <1>0 DEF DoCreateInvite, Publish, CreateInvite, Repo
      <4> QED BY <4>1, <1>1
    <3> QED BY <3>1, <3>2
  <2>2. ASSUME NEW i \in Invite, DoRevokeInvite(i)
        PROVE  InviteKept(db.invites[j], db'.invites[j])
    <3>1. db'.invites[j] = IF i = j THEN [db.invites[j] EXCEPT !.state = "revoked"]
                                    ELSE db.invites[j]
      BY <2>2, <1>0 DEF DoRevokeInvite, Publish, RevokeInvite, Repo
    <3>2. i = j => db.invites[j].state \in {"unused", "expired", "revoked"}
      BY <2>2 DEF DoRevokeInvite, CanRevokeInvite
    <3> QED BY <1>0, <3>1, <3>2 DEF InviteKept, InviteRecord
  <2>3. ASSUME NEW value \in Invite \cup Network, NEW t \in Token, NEW i \in Invite,
               NEW d \in Node \cup {None}, DoConsumeInvite(value, t, i, d)
        PROVE  InviteKept(db.invites[j], db'.invites[j])
    <3>1. db'.invites[j] =
             IF i = j THEN [db.invites[j] EXCEPT !.state = "consumed", !.by = d]
                      ELSE db.invites[j]
      BY <2>3, <1>0 DEF DoConsumeInvite, Publish, ConsumeInviteForNode, Repo
    <3>2. i = j => db.invites[j].state = "unused"
      BY <2>3 DEF DoConsumeInvite, CanConsumeInvite
    <3> QED BY <1>0, <3>1, <3>2 DEF InviteKept, InviteRecord
  <2> QED BY <1>3, <2>1, <2>2, <2>3 DEF InviteStep
<1>4. CASE RelayStep
  <2>1. ASSUME NEW n \in Network, NEW d \in Node, NEW a \in Assignment, NEW relay \in Node,
               NEW s \in {"scheduled", "live", "ended"},
               DoSetRelayAssignment(n, d, a, relay, s)
        PROVE  db'.invites = db.invites
    BY <2>1, <1>0 DEF DoSetRelayAssignment, Publish, SetRelayAssignment, Bump, Repo
  <2>2. ASSUME NEW n \in Network, DoRemoveRelayAssignment(n) PROVE db'.invites = db.invites
    BY <2>2, <1>0 DEF DoRemoveRelayAssignment, Publish, RemoveRelayAssignment,
                      DropAssignments, Bump, Repo
  <2> QED BY <1>1, <1>4, <2>1, <2>2 DEF RelayStep
<1>5. CASE TimePasses
  <2>1. ASSUME NEW i \in Invite, AgeInvite(i)
        PROVE  InviteKept(db.invites[j], db'.invites[j])
    <3>1. db'.invites[j] = IF i = j THEN [db.invites[j] EXCEPT !.state = "expired"]
                                    ELSE db.invites[j]
      BY <2>1, <1>0 DEF AgeInvite, Repo
    <3>2. i = j => db.invites[j].state = "unused"
      BY <2>1 DEF AgeInvite
    <3> QED BY <1>0, <3>1, <3>2 DEF InviteKept, InviteRecord
  <2>2. ASSUME NEW d \in Node, NEW e \in Endpoint, AgeEndpoint(d, e)
        PROVE  db'.invites = db.invites
    BY <2>2, <1>0 DEF AgeEndpoint, Repo
  <2>3. ASSUME NEW n \in Network, NEW d \in Node, AgeAssignment(n, d)
        PROVE  db'.invites = db.invites
    BY <2>3, <1>0 DEF AgeAssignment, Repo
  <2> QED BY <1>1, <1>5, <2>1, <2>2, <2>3 DEF TimePasses
<1> QED BY <1>2, <1>3, <1>4, <1>5 DEF Next

\* A consumed or revoked invite stays so, and none passes to another network,
\* token or node.
THEOREM InviteUsedOnceAlways == Spec => InviteUsedOnce
<1> DEFINE A == \A i \in Invite : InviteKept(db.invites[i], db'.invites[i])
<1>1. Inv /\ [Next]_db => [A]_db
  BY StepKeepsInvites DEF Inv
<1>2. Spec => [][A]_db
  BY <1>1, RepositoryInvariant, PTL DEF Spec
<1> QED BY <1>2 DEF InviteUsedOnce, InviteKept

=============================================================================
