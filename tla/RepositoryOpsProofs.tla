------------------------ MODULE RepositoryOpsProofs ------------------------
(***************************************************************************)
(* RepoInv, the conjunction of what every repository satisfies, is         *)
(* preserved by each operation of RepositoryOps, one lemma per operation.  *)
(***************************************************************************)
EXTENDS RepositoryOps, TLAPS

----------------------------------------------------------------------------
\* Building blocks.

\* A repository with nothing in it satisfies RepoInv.
LEMMA EmptyRepoInv == RepoInv(EmptyRepo)
<1> DEFINE r == EmptyRepo
<1>1. /\ AbsentMembership \in MembershipRecord /\ AbsentInvite \in InviteRecord
      /\ AbsentAssignment \in AssignmentRecord /\ NoOwner \in OwnerRecord
      /\ "none" \in Observation
  BY DEF AbsentMembership, MembershipRecord, AbsentInvite, InviteRecord,
         AbsentAssignment, AssignmentRecord, NoOwner, OwnerRecord, Observation
<1>2. r \in Repo
  BY <1>1 DEF EmptyRepo, Repo
<1>3. KeyIndexExact(r)
  BY DEF EmptyRepo, KeyIndexExact
<1>4. AddressesExclusive(r)
  BY DEF EmptyRepo, AddressesExclusive, IsMember, AbsentMembership
<1>5. RelaysAreMembers(r)
  BY DEF EmptyRepo, RelaysAreMembers, HasAssignment, AbsentAssignment
<1>6. OwnerIndexExact(r)
  BY DEF EmptyRepo, OwnerIndexExact, HasAssignment, AbsentAssignment
<1>7. InvitesAccounted(r)
  BY DEF EmptyRepo, InvitesAccounted, AbsentInvite
<1>8. EndpointsOwned(r)
  BY DEF EmptyRepo, EndpointsOwned
<1> QED BY <1>2, <1>3, <1>4, <1>5, <1>6, <1>7, <1>8 DEF RepoInv

\* Replacing the versions of a repository by naturals gives a repository.
LEMMA VersionsTyped ==
    ASSUME NEW r \in Repo,
           NEW version \in [Network -> Nat]
    PROVE  [r EXCEPT !.version = version] \in Repo
  BY DEF Repo

\* incrementNetworkVersionLocked disturbs nothing but the version.
LEMMA BumpInv ==
    ASSUME NEW r, RepoInv(r), NEW ns \in SUBSET Network
    PROVE  RepoInv(Bump(r, ns))
<1> DEFINE s == Bump(r, ns)
           v == [n \in Network |-> IF n \in ns THEN r.version[n] + 1 ELSE r.version[n]]
<1>0. /\ s.version = v
      /\ s.nodes = r.nodes /\ s.publicKeys = r.publicKeys /\ s.memberships = r.memberships
      /\ s.invites = r.invites /\ s.inviteByToken = r.inviteByToken
      /\ s.endpoints = r.endpoints /\ s.relayAssignments = r.relayAssignments
      /\ s.relayAssignmentOwners = r.relayAssignmentOwners
  BY DEF Bump, RepoInv, Repo
<1>1. s \in Repo
  <2>1. r.version \in [Network -> Nat]
    BY DEF RepoInv, Repo
  <2>2. v \in [Network -> Nat]
    BY <2>1
  <2>3. s = [r EXCEPT !.version = v]
    BY DEF Bump
  <2> HIDE DEF v, s
  <2> QED BY <2>2, <2>3, VersionsTyped DEF RepoInv
<1>2. \A n \in Network : r.version[n] > 0 => s.version[n] > 0
  BY <1>0 DEF RepoInv, Repo
<1> HIDE DEF s
<1>3. KeyIndexExact(s)
  BY <1>0 DEF RepoInv, KeyIndexExact
<1>4. AddressesExclusive(s)
  BY <1>0, <1>2 DEF RepoInv, AddressesExclusive, IsMember, NetworkExists, NodeExists
<1>5. RelaysAreMembers(s)
  BY <1>0 DEF RepoInv, RelaysAreMembers, HasAssignment, IsActive
<1>6. OwnerIndexExact(s)
  BY <1>0 DEF RepoInv, OwnerIndexExact, HasAssignment
<1>7. InvitesAccounted(s)
  BY <1>0 DEF RepoInv, InvitesAccounted, NodeExists
<1>e. EndpointsOwned(s)
  BY <1>0 DEF RepoInv, EndpointsOwned, NodeExists
<1>8. RepoInv(s)
  BY <1>1, <1>3, <1>4, <1>5, <1>6, <1>7, <1>e DEF RepoInv
<1> QED BY <1>8 DEF s

\* deleteRelayAssignmentLocked keeps the owner index exact: assignment IDs
\* are unique, so no surviving assignment loses its entry.
LEMMA DropAssignmentsInv ==
    ASSUME NEW r, RepoInv(r), NEW gone \in [Network -> SUBSET Node],
           \A n \in Network : \A t \in gone[n] : HasAssignment(r, n, t)
    PROVE  LET s == DropAssignments(r, gone)
           IN  /\ RepoInv(s)
               /\ s.version = r.version /\ s.nodes = r.nodes
               /\ s.publicKeys = r.publicKeys /\ s.memberships = r.memberships
               /\ s.invites = r.invites /\ s.inviteByToken = r.inviteByToken
               /\ s.endpoints = r.endpoints
               /\ \A n \in Network, t \in Node :
                     s.relayAssignments[n][t] =
                        IF t \in gone[n] THEN AbsentAssignment ELSE r.relayAssignments[n][t]
<1> DEFINE s == DropAssignments(r, gone)
           kept == [n \in Network |-> [t \in Node |->
                      IF t \in gone[n] THEN AbsentAssignment ELSE r.relayAssignments[n][t]]]
           owners == [a \in Assignment |->
                        IF \E n \in Network : \E t \in gone[n] : r.relayAssignments[n][t].id = a
                        THEN NoOwner ELSE r.relayAssignmentOwners[a]]
<1>a. r \in Repo
  BY DEF RepoInv
<1>b. kept \in [Network -> [Node -> AssignmentRecord]]
  <2>1. AbsentAssignment \in AssignmentRecord
    BY DEF AbsentAssignment, AssignmentRecord
  <2>2. r.relayAssignments \in [Network -> [Node -> AssignmentRecord]]
    BY <1>a DEF Repo
  <2> QED BY <2>1, <2>2
<1>c. owners \in [Assignment -> OwnerRecord]
  <2>1. NoOwner \in OwnerRecord
    BY DEF NoOwner, OwnerRecord
  <2>2. r.relayAssignmentOwners \in [Assignment -> OwnerRecord]
    BY <1>a DEF Repo
  <2> QED BY <2>1, <2>2
<1>0. /\ s.version = r.version /\ s.nodes = r.nodes
      /\ s.publicKeys = r.publicKeys /\ s.memberships = r.memberships
      /\ s.invites = r.invites /\ s.inviteByToken = r.inviteByToken
      /\ s.endpoints = r.endpoints
      /\ s.relayAssignments = kept /\ s.relayAssignmentOwners = owners
  BY <1>a DEF DropAssignments, Repo
<1>1. s \in Repo
  <2>1. s = [r EXCEPT !.relayAssignments = kept, !.relayAssignmentOwners = owners]
    BY DEF DropAssignments
  <2> HIDE DEF kept, owners, s
  <2> QED BY <2>1, <1>a, <1>b, <1>c DEF Repo
<1>2. \A n \in Network, t \in Node : s.relayAssignments[n][t] =
          IF t \in gone[n] THEN AbsentAssignment ELSE r.relayAssignments[n][t]
  BY <1>0
<1>3. \A a \in Assignment : s.relayAssignmentOwners[a] =
          IF \E n \in Network : \E t \in gone[n] : r.relayAssignments[n][t].id = a
          THEN NoOwner ELSE r.relayAssignmentOwners[a]
  BY <1>0
<1> HIDE DEF s, kept, owners
<1>4. KeyIndexExact(s)
  BY <1>0 DEF RepoInv, KeyIndexExact
<1>5. AddressesExclusive(s)
  BY <1>0 DEF RepoInv, AddressesExclusive, IsMember, NetworkExists, NodeExists
<1>6. RelaysAreMembers(s)
  BY <1>0, <1>2 DEF RepoInv, RelaysAreMembers, HasAssignment, IsActive, AbsentAssignment
<1>7. OwnerIndexExact(s)
  <2>1. ASSUME NEW n \in Network, NEW d \in Node, HasAssignment(s, n, d)
        PROVE  s.relayAssignmentOwners[s.relayAssignments[n][d].id]
                  = [network |-> n, node |-> d]
    <3> DEFINE a == r.relayAssignments[n][d].id
    <3>1. d \notin gone[n] /\ s.relayAssignments[n][d].id = a /\ HasAssignment(r, n, d)
      BY <2>1, <1>2 DEF HasAssignment, AbsentAssignment
    <3>2. a \in Assignment
      BY <3>1, <1>a DEF Repo, AssignmentRecord, HasAssignment
    <3>3. r.relayAssignmentOwners[a] = [network |-> n, node |-> d]
      BY <3>1 DEF RepoInv, OwnerIndexExact
    <3>4. ASSUME NEW m \in Network, NEW t \in gone[m], r.relayAssignments[m][t].id = a
          PROVE  FALSE
      <4>1. t \in Node /\ HasAssignment(r, m, t)
        BY <3>4
      <4>2. r.relayAssignmentOwners[a] = [network |-> m, node |-> t]
        BY <3>4, <4>1 DEF RepoInv, OwnerIndexExact
      <4>3. m = n /\ t = d
        BY <4>2, <3>3
      <4> QED BY <4>3, <3>1
    <3> QED BY <3>1, <3>2, <3>3, <3>4, <1>3
  <2>2. ASSUME NEW a \in Assignment, s.relayAssignmentOwners[a] # NoOwner
        PROVE  /\ s.relayAssignmentOwners[a].network \in Network
               /\ s.relayAssignmentOwners[a].node \in Node
               /\ s.relayAssignments[s.relayAssignmentOwners[a].network]
                                    [s.relayAssignmentOwners[a].node].id = a
    <3>1. /\ s.relayAssignmentOwners[a] = r.relayAssignmentOwners[a]
          /\ ~ \E n \in Network : \E t \in gone[n] : r.relayAssignments[n][t].id = a
      BY <2>2, <1>3
    <3> DEFINE m == r.relayAssignmentOwners[a].network
               t == r.relayAssignmentOwners[a].node
    <3>2. m \in Network /\ t \in Node /\ r.relayAssignments[m][t].id = a
      BY <2>2, <3>1 DEF RepoInv, OwnerIndexExact
    <3>3. t \notin gone[m]
      BY <3>1, <3>2
    <3> QED BY <3>1, <3>2, <3>3, <1>2
  <2> QED BY <2>1, <2>2 DEF OwnerIndexExact
<1>8. InvitesAccounted(s)
  BY <1>0 DEF RepoInv, InvitesAccounted, NodeExists
<1>e. EndpointsOwned(s)
  BY <1>0 DEF RepoInv, EndpointsOwned, NodeExists
<1>9. RepoInv(s)
  BY <1>1, <1>4, <1>5, <1>6, <1>7, <1>8, <1>e DEF RepoInv
<1> QED BY <1>9, <1>0, <1>2 DEF s

----------------------------------------------------------------------------
\* One lemma per operation.

\* CreateNetwork preserves RepoInv: a new network has no members yet.
LEMMA CreateNetworkInv ==
    ASSUME NEW r, RepoInv(r), NEW n \in Network, CanCreateNetwork(r, n)
    PROVE  RepoInv(CreateNetwork(r, n))
<1> DEFINE s == CreateNetwork(r, n)
<1>1. s \in Repo
  BY DEF RepoInv, Repo, CreateNetwork
<1>2. KeyIndexExact(s)
  BY DEF RepoInv, Repo, CreateNetwork, KeyIndexExact
<1>3. AddressesExclusive(s)
  BY DEF RepoInv, Repo, CreateNetwork, AddressesExclusive, IsMember, NetworkExists,
         NodeExists, CanCreateNetwork
<1>4. RelaysAreMembers(s)
  BY DEF RepoInv, Repo, CreateNetwork, RelaysAreMembers, HasAssignment, IsActive
<1>5. OwnerIndexExact(s)
  BY DEF RepoInv, Repo, CreateNetwork, OwnerIndexExact, HasAssignment
<1>6. InvitesAccounted(s)
  BY DEF RepoInv, Repo, CreateNetwork, InvitesAccounted, NodeExists
<1>7. EndpointsOwned(s)
  BY DEF RepoInv, Repo, CreateNetwork, EndpointsOwned, NodeExists
<1> QED BY <1>1, <1>2, <1>3, <1>4, <1>5, <1>6, <1>7 DEF RepoInv

\* AddNode preserves RepoInv: the key it indexes is new on both sides.
LEMMA AddNodeInv ==
    ASSUME NEW r, RepoInv(r), NEW d \in Node, NEW k \in Key, CanAddNode(r, d, k)
    PROVE  RepoInv(AddNode(r, d, k))
<1> DEFINE s == AddNode(r, d, k)
<1>a. r \in Repo
  BY DEF RepoInv
<1>0. /\ s.nodes = [r.nodes EXCEPT ![d] = k]
      /\ s.publicKeys = [r.publicKeys EXCEPT ![k] = d]
      /\ s.version = r.version /\ s.memberships = r.memberships
      /\ s.invites = r.invites /\ s.inviteByToken = r.inviteByToken
      /\ s.endpoints = r.endpoints /\ s.relayAssignments = r.relayAssignments
      /\ s.relayAssignmentOwners = r.relayAssignmentOwners
  BY <1>a DEF AddNode, Repo
<1>1. s \in Repo
  BY <1>a DEF Repo, AddNode
<1>2. /\ r.nodes \in [Node -> Key \cup {None}]
      /\ r.publicKeys \in [Key -> Node \cup {None}]
      /\ r.nodes[d] = None /\ r.publicKeys[k] = None /\ k # None /\ d # None
  BY <1>a, NoneAssumption DEF Repo, CanAddNode, NodeExists
<1>3. \A o \in Node : NodeExists(r, o) => NodeExists(s, o)
  BY <1>0, <1>2 DEF NodeExists
<1> HIDE DEF s
<1>4. KeyIndexExact(s)
  <2>1. ASSUME NEW o \in Node, s.nodes[o] # None
        PROVE  s.publicKeys[s.nodes[o]] = o
    <3>1. CASE o = d
      BY <3>1, <1>0, <1>2
    <3>2. CASE o # d
      <4>1. s.nodes[o] = r.nodes[o] /\ r.nodes[o] \in Key
        BY <3>2, <2>1, <1>0, <1>2
      <4>2. r.publicKeys[r.nodes[o]] = o
        BY <4>1, <2>1 DEF RepoInv, KeyIndexExact
      <4>3. r.nodes[o] # k
        BY <4>2, <1>2, NoneAssumption
      <4> QED BY <4>1, <4>2, <4>3, <1>0, <1>2
    <3> QED BY <3>1, <3>2
  <2>2. ASSUME NEW j \in Key, s.publicKeys[j] # None
        PROVE  s.nodes[s.publicKeys[j]] = j
    <3>1. CASE j = k
      BY <3>1, <1>0, <1>2
    <3>2. CASE j # k
      <4>1. s.publicKeys[j] = r.publicKeys[j] /\ r.publicKeys[j] \in Node
        BY <3>2, <2>2, <1>0, <1>2
      <4>2. r.nodes[r.publicKeys[j]] = j
        BY <4>1, <2>2 DEF RepoInv, KeyIndexExact
      <4>3. r.publicKeys[j] # d
        BY <4>2, <1>2, NoneAssumption
      <4> QED BY <4>1, <4>2, <4>3, <1>0, <1>2
    <3> QED BY <3>1, <3>2
  <2> QED BY <2>1, <2>2 DEF KeyIndexExact
<1>5. AddressesExclusive(s)
  BY <1>0, <1>3 DEF RepoInv, AddressesExclusive, IsMember, NetworkExists
<1>6. RelaysAreMembers(s)
  BY <1>0 DEF RepoInv, RelaysAreMembers, HasAssignment, IsActive
<1>7. OwnerIndexExact(s)
  BY <1>0 DEF RepoInv, OwnerIndexExact, HasAssignment
<1>8. InvitesAccounted(s)
  <2>1. \A i \in Invite : r.invites[i].by \in Node \cup {None}
    BY <1>a DEF Repo, InviteRecord
  <2> QED BY <1>0, <1>3, <2>1 DEF RepoInv, InvitesAccounted
<1>e. EndpointsOwned(s)
  BY <1>0, <1>3 DEF RepoInv, EndpointsOwned
<1>9. RepoInv(s)
  BY <1>1, <1>4, <1>5, <1>6, <1>7, <1>8, <1>e DEF RepoInv
<1> QED BY <1>9 DEF s

\* Writing one membership entry, the step AddMembership and RemoveMembership
\* share: sound when the entry is new and its address free, or when no
\* assignment of the network names the node.
LEMMA PutMembershipInv ==
    ASSUME NEW r, RepoInv(r), NEW n \in Network, NEW d \in Node,
           NEW m \in MembershipRecord,
           \/ /\ m.status # "none"
              /\ NetworkExists(r, n) /\ NodeExists(r, d)
              /\ m.address \in Pool[n]
              /\ ~IsMember(r, n, d)
              /\ \A o \in Node : IsMember(r, n, o) => r.memberships[n][o].address # m.address
           \/ /\ m.status = "none"
              /\ \A t \in Node : HasAssignment(r, n, t) =>
                    t # d /\ r.relayAssignments[n][t].relay # d
    PROVE  RepoInv([r EXCEPT !.memberships[n][d] = m])
<1> DEFINE s == [r EXCEPT !.memberships[n][d] = m]
<1>a. r \in Repo
  BY DEF RepoInv
<1>0. /\ s.version = r.version /\ s.nodes = r.nodes /\ s.publicKeys = r.publicKeys
      /\ s.invites = r.invites /\ s.inviteByToken = r.inviteByToken
      /\ s.endpoints = r.endpoints /\ s.relayAssignments = r.relayAssignments
      /\ s.relayAssignmentOwners = r.relayAssignmentOwners
      /\ s.memberships = [r.memberships EXCEPT ![n][d] = m]
  BY <1>a DEF Repo
<1>1. s \in Repo
  BY <1>a DEF Repo
<1>2. \A n2 \in Network, d2 \in Node : s.memberships[n2][d2] =
          IF n2 = n /\ d2 = d THEN m ELSE r.memberships[n2][d2]
  BY <1>0, <1>a DEF Repo
<1> HIDE DEF s
<1>3. KeyIndexExact(s)
  BY <1>0 DEF RepoInv, KeyIndexExact
<1>4. AddressesExclusive(s)
  BY <1>0, <1>2 DEF RepoInv, AddressesExclusive, IsMember, NetworkExists, NodeExists
<1>5. RelaysAreMembers(s)
  BY <1>0, <1>2 DEF RepoInv, RelaysAreMembers, HasAssignment, IsActive, IsMember
<1>6. OwnerIndexExact(s)
  BY <1>0 DEF RepoInv, OwnerIndexExact, HasAssignment
<1>7. InvitesAccounted(s)
  BY <1>0 DEF RepoInv, InvitesAccounted, NodeExists
<1>e. EndpointsOwned(s)
  BY <1>0 DEF RepoInv, EndpointsOwned, NodeExists
<1>8. RepoInv(s)
  BY <1>1, <1>3, <1>4, <1>5, <1>6, <1>7, <1>e DEF RepoInv
<1> QED BY <1>8 DEF s

\* AddMembership preserves RepoInv: the address it gives is free and in the pool.
LEMMA AddMembershipInv ==
    ASSUME NEW r, RepoInv(r), NEW n \in Network, NEW d \in Node, NEW a \in Address,
           NEW status \in {"active", "inactive"}, CanAddMembership(r, n, d, a)
    PROVE  RepoInv(AddMembership(r, n, d, a, status))
<1> DEFINE m == [address |-> a, status |-> status]
           s == [r EXCEPT !.memberships[n][d] = m]
<1>1. m \in MembershipRecord /\ m.status # "none" /\ m.address = a
  BY DEF MembershipRecord
<1>2. RepoInv(s)
  <2> HIDE DEF m
  <2> QED BY <1>1, PutMembershipInv DEF CanAddMembership
<1>3. AddMembership(r, n, d, a, status) = Bump(s, {n})
  BY DEF AddMembership
<1> HIDE DEF s
<1> QED BY <1>2, <1>3, BumpInv

\* RemoveMembership preserves RepoInv: the assignments that name the member go first.
LEMMA RemoveMembershipInv ==
    ASSUME NEW r, RepoInv(r), NEW n \in Network, NEW d \in Node,
           CanRemoveMembership(r, n, d)
    PROVE  RepoInv(RemoveMembership(r, n, d))
<1> DEFINE gone == [m \in Network |-> IF m = n THEN Involving(r, n, d) ELSE {}]
           q == DropAssignments(r, gone)
           s == [q EXCEPT !.memberships[n][d] = AbsentMembership]
<1>1. gone \in [Network -> SUBSET Node]
  BY DEF Involving
<1>2. \A m \in Network : \A t \in gone[m] : HasAssignment(r, m, t)
  BY DEF Involving
<1>3. /\ RepoInv(q)
      /\ \A m \in Network, t \in Node : q.relayAssignments[m][t] =
            IF t \in gone[m] THEN AbsentAssignment ELSE r.relayAssignments[m][t]
  <2> HIDE DEF gone
  <2> QED BY <1>1, <1>2, DropAssignmentsInv
<1>4. ASSUME NEW t \in Node, HasAssignment(q, n, t)
      PROVE  t # d /\ q.relayAssignments[n][t].relay # d
  <2>1. gone[n] = Involving(r, n, d)
    OBVIOUS
  <2> HIDE DEF gone, q
  <2>2. t \notin gone[n]
    BY <1>3, <1>4 DEF HasAssignment, AbsentAssignment
  <2>3. q.relayAssignments[n][t] = r.relayAssignments[n][t]
    BY <1>3, <2>2
  <2> QED BY <2>1, <2>2, <2>3, <1>4 DEF HasAssignment, Involving
<1>5. AbsentMembership \in MembershipRecord /\ AbsentMembership.status = "none"
  BY DEF AbsentMembership, MembershipRecord
<1>6. RepoInv(s)
  <2> HIDE DEF q
  <2> QED BY <1>3, <1>4, <1>5, PutMembershipInv
<1>7. RemoveMembership(r, n, d) = Bump(s, {n})
  BY DEF RemoveMembership
<1> HIDE DEF s
<1> QED BY <1>6, <1>7, BumpInv

\* RemoveNode preserves RepoInv: index entry, endpoints, consumed-by references,
\* memberships and assignments of the node all go in the same call.
LEMMA RemoveNodeInv ==
    ASSUME NEW r, RepoInv(r), NEW d \in Node, CanRemoveNode(r, d)
    PROVE  RepoInv(RemoveNode(r, d))
<1> DEFINE gone == [n \in Network |-> Involving(r, n, d)]
           affected == {n \in Network : IsMember(r, n, d) \/ gone[n] # {}}
           q == DropAssignments(r, gone)
           inv == [i \in Invite |->
                      IF r.invites[i].by = d THEN [r.invites[i] EXCEPT !.by = None]
                                             ELSE r.invites[i]]
           mem == [n \in Network |-> [r.memberships[n] EXCEPT ![d] = AbsentMembership]]
           s == [q EXCEPT !.nodes[d] = None, !.publicKeys[r.nodes[d]] = None,
                          !.endpoints[d] = [e \in Endpoint |-> "none"],
                          !.invites = inv, !.memberships = mem]
<1>1. gone \in [Network -> SUBSET Node]
  BY DEF Involving
<1>2. \A m \in Network : \A t \in gone[m] : HasAssignment(r, m, t)
  BY DEF Involving
<1>3. /\ RepoInv(q)
      /\ q.version = r.version /\ q.nodes = r.nodes
      /\ q.publicKeys = r.publicKeys /\ q.memberships = r.memberships
      /\ q.invites = r.invites /\ q.inviteByToken = r.inviteByToken
      /\ q.endpoints = r.endpoints
      /\ \A m \in Network, t \in Node : q.relayAssignments[m][t] =
            IF t \in gone[m] THEN AbsentAssignment ELSE r.relayAssignments[m][t]
  <2> HIDE DEF gone
  <2> QED BY <1>1, <1>2, DropAssignmentsInv
<1>4. ASSUME NEW n \in Network, NEW t \in Node, HasAssignment(q, n, t)
      PROVE  t # d /\ q.relayAssignments[n][t].relay # d
  <2>1. gone[n] = Involving(r, n, d)
    OBVIOUS
  <2> HIDE DEF gone, q
  <2>2. t \notin gone[n]
    BY <1>3, <1>4 DEF HasAssignment, AbsentAssignment
  <2>3. q.relayAssignments[n][t] = r.relayAssignments[n][t]
    BY <1>3, <2>2
  <2> QED BY <2>1, <2>2, <2>3, <1>4 DEF HasAssignment, Involving
<1> DEFINE k == r.nodes[d]
<1>5. k \in Key /\ r.publicKeys[k] = d /\ r \in Repo /\ q \in Repo
  <2>1. r \in Repo /\ q \in Repo
    <3> HIDE DEF q
    <3> QED BY <1>3 DEF RepoInv
  <2>2. k \in Key
    BY <2>1 DEF Repo, CanRemoveNode, NodeExists
  <2>3. r.publicKeys[k] = d
    BY DEF RepoInv, KeyIndexExact, CanRemoveNode, NodeExists
  <2> QED BY <2>1, <2>2, <2>3
<1>6. inv \in [Invite -> InviteRecord]
  <2> SUFFICES ASSUME NEW i \in Invite
               PROVE  inv[i] \in InviteRecord
    OBVIOUS
  <2>1. r.invites[i] \in InviteRecord
    BY <1>5 DEF Repo
  <2>2. [r.invites[i] EXCEPT !.by = None] \in InviteRecord
    BY <2>1 DEF InviteRecord
  <2> QED BY <2>1, <2>2
<1>7. mem \in [Network -> [Node -> MembershipRecord]]
  <2>1. AbsentMembership \in MembershipRecord
    BY DEF AbsentMembership, MembershipRecord
  <2> QED BY <1>5, <2>1 DEF Repo
<1>8. RemoveNode(r, d) = Bump(s, affected)
  BY DEF RemoveNode
<1>9. \A i \in Invite :
         /\ inv[i].by = (IF r.invites[i].by = d THEN None ELSE r.invites[i].by)
         /\ inv[i].state = r.invites[i].state
         /\ inv[i].network = r.invites[i].network
         /\ inv[i].token = r.invites[i].token
  <2> TAKE i \in Invite
  <2>1. r.invites[i] \in InviteRecord
    BY <1>5 DEF Repo
  <2>2. LET c == [r.invites[i] EXCEPT !.by = None]
        IN  /\ c.by = None /\ c.state = r.invites[i].state
            /\ c.network = r.invites[i].network /\ c.token = r.invites[i].token
    BY <2>1 DEF InviteRecord
  <2> QED BY <2>2
<1>10. \A n \in Network, o \in Node : mem[n][o] =
          IF o = d THEN AbsentMembership ELSE r.memberships[n][o]
  BY <1>5 DEF Repo
<1> HIDE DEF gone, q, inv, mem, k
<1>11. /\ s.nodes = [r.nodes EXCEPT ![d] = None]
       /\ s.publicKeys = [r.publicKeys EXCEPT ![k] = None]
       /\ s.version = r.version /\ s.memberships = mem /\ s.invites = inv
       /\ s.inviteByToken = r.inviteByToken
       /\ s.relayAssignments = q.relayAssignments
       /\ s.relayAssignmentOwners = q.relayAssignmentOwners
  BY <1>3, <1>5 DEF Repo, k
<1>12. s \in Repo
  <2>1. [e \in Endpoint |-> "none"] \in [Endpoint -> Observation]
    BY DEF Observation
  <2> QED BY <1>5, <1>6, <1>7, <2>1 DEF Repo
<1>21. \A o \in Node, e \in Endpoint : s.endpoints[o][e] =
          IF o = d THEN "none" ELSE r.endpoints[o][e]
  BY <1>3, <1>5 DEF Repo
<1> HIDE DEF s
<1>13. /\ r.nodes \in [Node -> Key \cup {None}]
       /\ r.publicKeys \in [Key -> Node \cup {None}]
       /\ k = r.nodes[d]
  BY <1>5 DEF Repo, k
<1>14. KeyIndexExact(s)
  <2>1. ASSUME NEW o \in Node, s.nodes[o] # None
        PROVE  s.publicKeys[s.nodes[o]] = o
    <3>1. o # d /\ s.nodes[o] = r.nodes[o] /\ r.nodes[o] \in Key
      BY <2>1, <1>11, <1>13
    <3>2. r.publicKeys[r.nodes[o]] = o
      BY <3>1, <2>1 DEF RepoInv, KeyIndexExact
    <3>3. r.nodes[o] # k
      BY <3>1, <3>2, <1>5
    <3> QED BY <3>1, <3>2, <3>3, <1>11, <1>13, <1>5
  <2>2. ASSUME NEW j \in Key, s.publicKeys[j] # None
        PROVE  s.nodes[s.publicKeys[j]] = j
    <3>1. j # k /\ s.publicKeys[j] = r.publicKeys[j] /\ r.publicKeys[j] \in Node
      BY <2>2, <1>11, <1>13, <1>5
    <3>2. r.nodes[r.publicKeys[j]] = j
      BY <3>1, <2>2 DEF RepoInv, KeyIndexExact
    <3>3. r.publicKeys[j] # d
      BY <3>1, <3>2, <1>13
    <3> QED BY <3>1, <3>2, <3>3, <1>11, <1>13
  <2> QED BY <2>1, <2>2 DEF KeyIndexExact
<1>15. \A o \in Node : o # d => s.nodes[o] = r.nodes[o]
  BY <1>11, <1>13
<1>16. AddressesExclusive(s)
  BY <1>10, <1>11, <1>15
     DEF RepoInv, AddressesExclusive, IsMember, NetworkExists, NodeExists, AbsentMembership
<1>17. RelaysAreMembers(s)
  <2> SUFFICES ASSUME NEW n \in Network, NEW t \in Node, HasAssignment(s, n, t)
               PROVE  /\ s.relayAssignments[n][t].relay \in Node
                      /\ s.relayAssignments[n][t].relay # t
                      /\ IsActive(s, n, t)
                      /\ IsActive(s, n, s.relayAssignments[n][t].relay)
    BY DEF RelaysAreMembers
  <2>1. HasAssignment(q, n, t)
    BY <1>11 DEF HasAssignment
  <2>2. /\ q.relayAssignments[n][t].relay \in Node
        /\ q.relayAssignments[n][t].relay # t
        /\ IsActive(q, n, t)
        /\ IsActive(q, n, q.relayAssignments[n][t].relay)
    BY <2>1, <1>3 DEF RepoInv, RelaysAreMembers
  <2>3. t # d /\ q.relayAssignments[n][t].relay # d
    BY <2>1, <1>4
  <2> QED BY <2>2, <2>3, <1>3, <1>10, <1>11 DEF IsActive
<1>18. OwnerIndexExact(s)
  BY <1>3, <1>11 DEF RepoInv, OwnerIndexExact, HasAssignment
<1>19. InvitesAccounted(s)
  <2>1. \A i \in Invite : r.invites[i].by \in Node \cup {None}
    BY <1>5 DEF Repo, InviteRecord
  <2> QED BY <2>1, <1>9, <1>11, <1>15 DEF RepoInv, InvitesAccounted, NodeExists
<1>e. EndpointsOwned(s)
  BY <1>15, <1>21 DEF RepoInv, EndpointsOwned, NodeExists
<1>20. RepoInv(s)
  BY <1>12, <1>14, <1>16, <1>17, <1>18, <1>19, <1>e DEF RepoInv
<1> QED BY <1>8, <1>20, BumpInv

\* Writing one invite keeps every conjunct but the invites' own.
LEMMA PutInviteInv ==
    ASSUME NEW r, RepoInv(r), NEW invites \in [Invite -> InviteRecord],
           NEW byToken \in [Token -> Invite \cup {None}],
           InvitesAccounted([r EXCEPT !.invites = invites, !.inviteByToken = byToken])
    PROVE  RepoInv([r EXCEPT !.invites = invites, !.inviteByToken = byToken])
<1> DEFINE s == [r EXCEPT !.invites = invites, !.inviteByToken = byToken]
<1>0. /\ s.version = r.version /\ s.nodes = r.nodes
      /\ s.publicKeys = r.publicKeys /\ s.memberships = r.memberships
      /\ s.endpoints = r.endpoints /\ s.relayAssignments = r.relayAssignments
      /\ s.relayAssignmentOwners = r.relayAssignmentOwners
  BY DEF RepoInv, Repo
<1>1. s \in Repo
  BY DEF RepoInv, Repo
<1> HIDE DEF s
<1>2. KeyIndexExact(s)
  BY <1>0 DEF RepoInv, KeyIndexExact
<1>3. AddressesExclusive(s)
  BY <1>0 DEF RepoInv, AddressesExclusive, IsMember, NetworkExists, NodeExists
<1>4. RelaysAreMembers(s)
  BY <1>0 DEF RepoInv, RelaysAreMembers, HasAssignment, IsActive
<1>5. OwnerIndexExact(s)
  BY <1>0 DEF RepoInv, OwnerIndexExact, HasAssignment
<1>6. InvitesAccounted(s)
  BY DEF s
<1>e. EndpointsOwned(s)
  BY <1>0 DEF RepoInv, EndpointsOwned, NodeExists
<1>7. RepoInv(s)
  BY <1>1, <1>2, <1>3, <1>4, <1>5, <1>6, <1>e DEF RepoInv
<1> QED BY <1>7 DEF s

\* CreateInvite preserves RepoInv: invite and token are both new.
LEMMA CreateInviteInv ==
    ASSUME NEW r, RepoInv(r), NEW i \in Invite, NEW n \in Network, NEW t \in Token,
           CanCreateInvite(r, i, n, t)
    PROVE  RepoInv(CreateInvite(r, i, n, t))
<1> DEFINE rec == [network |-> n, token |-> t, state |-> "unused", by |-> None]
           invites == [r.invites EXCEPT ![i] = rec]
           byToken == [r.inviteByToken EXCEPT ![t] = i]
           s == [r EXCEPT !.invites = invites, !.inviteByToken = byToken]
<1>0. r \in Repo
  BY DEF RepoInv
<1>1. invites \in [Invite -> InviteRecord] /\ byToken \in [Token -> Invite \cup {None}]
  BY <1>0 DEF Repo, InviteRecord
<1>2. s.invites = invites /\ s.inviteByToken = byToken /\ s.nodes = r.nodes
  BY <1>0 DEF Repo
<1>3. InvitesAccounted(s)
  <2> SUFFICES ASSUME NEW j \in Invite
               PROVE  /\ s.invites[j].state # "none" =>
                            /\ s.invites[j].network \in Network
                            /\ s.invites[j].token \in Token
                            /\ s.inviteByToken[s.invites[j].token] = j
                      /\ s.invites[j].by # None =>
                            s.invites[j].state = "consumed" /\ NodeExists(s, s.invites[j].by)
    BY DEF InvitesAccounted
  <2> USE <1>0, <1>2 DEF Repo
  <2> HIDE DEF s
  <2>1. CASE j = i
    BY <2>1
  <2>2. CASE j # i
    <3>1. s.invites[j] = r.invites[j]
      BY <2>2
    <3>2. r.invites[j].state # "none" => r.invites[j].token # t
      BY <2>2, NoneAssumption DEF RepoInv, InvitesAccounted, CanCreateInvite
    <3> QED BY <3>1, <3>2 DEF RepoInv, InvitesAccounted, NodeExists
  <2> QED BY <2>1, <2>2
<1>4. CreateInvite(r, i, n, t) = s
  BY DEF CreateInvite
<1>5. RepoInv(s)
  <2> HIDE DEF invites, byToken
  <2> QED BY <1>1, <1>3, PutInviteInv
<1> QED BY <1>4, <1>5

\* Changing the state of one existing invite, and who consumed it.
LEMMA MarkInviteInv ==
    ASSUME NEW r, RepoInv(r), NEW i \in Invite, NEW s,
           NEW rec \in InviteRecord,
           s = [r EXCEPT !.invites[i] = rec],
           r.invites[i].state # "none",
           rec.network = r.invites[i].network, rec.token = r.invites[i].token,
           rec.by # None => rec.state = "consumed" /\ NodeExists(r, rec.by)
    PROVE  RepoInv(s)
<1> DEFINE invites == [r.invites EXCEPT ![i] = rec]
           q == [r EXCEPT !.invites = invites, !.inviteByToken = r.inviteByToken]
<1>0. r \in Repo
  BY DEF RepoInv
<1>1. invites \in [Invite -> InviteRecord] /\ r.inviteByToken \in [Token -> Invite \cup {None}]
  BY <1>0 DEF Repo
<1>2. q.invites = invites /\ q.inviteByToken = r.inviteByToken /\ q.nodes = r.nodes
  BY <1>0 DEF Repo
<1>3. s = q
  BY <1>0 DEF Repo
<1>4. \A j \in Invite : q.invites[j] = IF j = i THEN rec ELSE r.invites[j]
  BY <1>0, <1>2 DEF Repo
<1> HIDE DEF q
<1>5. InvitesAccounted(q)
  BY <1>2, <1>4 DEF RepoInv, InvitesAccounted, NodeExists
<1>6. RepoInv(q)
  <2> HIDE DEF invites
  <2> QED BY <1>1, <1>5, PutInviteInv DEF q
<1> QED BY <1>3, <1>6

\* RevokeInvite preserves RepoInv: a consumed invite is refused.
LEMMA RevokeInviteInv ==
    ASSUME NEW r, RepoInv(r), NEW i \in Invite, CanRevokeInvite(r, i)
    PROVE  RepoInv(RevokeInvite(r, i))
<1> DEFINE rec == [r.invites[i] EXCEPT !.state = "revoked"]
<1>1. r \in Repo /\ r.invites[i] \in InviteRecord
  BY DEF RepoInv, Repo
<1>2. /\ rec \in InviteRecord /\ rec.network = r.invites[i].network
      /\ rec.token = r.invites[i].token /\ rec.by = r.invites[i].by
  BY <1>1 DEF InviteRecord
<1>3. r.invites[i].state # "none" /\ r.invites[i].by = None
  BY DEF RepoInv, InvitesAccounted, CanRevokeInvite
<1>4. RevokeInvite(r, i) = [r EXCEPT !.invites[i] = rec]
  BY <1>1 DEF RevokeInvite, Repo
<1> HIDE DEF rec
<1> QED BY <1>2, <1>3, <1>4, MarkInviteInv

\* ConsumeInviteForNode preserves RepoInv: the consuming node exists.
LEMMA ConsumeInviteInv ==
    ASSUME NEW r, RepoInv(r), NEW i \in Invite, NEW value, NEW t \in Token,
           NEW d \in Node \cup {None}, CanConsumeInvite(r, value, t, i, d)
    PROVE  RepoInv(ConsumeInviteForNode(r, i, d))
<1> DEFINE rec == [r.invites[i] EXCEPT !.state = "consumed", !.by = d]
<1>1. r \in Repo /\ r.invites[i] \in InviteRecord
  BY DEF RepoInv, Repo
<1>2. /\ rec \in InviteRecord /\ rec.network = r.invites[i].network
      /\ rec.token = r.invites[i].token /\ rec.by = d /\ rec.state = "consumed"
  BY <1>1 DEF InviteRecord
<1>3. r.invites[i].state # "none" /\ (d # None => NodeExists(r, d))
  BY DEF CanConsumeInvite
<1>4. ConsumeInviteForNode(r, i, d) = [r EXCEPT !.invites[i] = rec]
  BY <1>1 DEF ConsumeInviteForNode, Repo
<1> HIDE DEF rec
<1> QED BY <1>2, <1>3, <1>4, MarkInviteInv

\* The endpoint observations of a stored node may be anything.
LEMMA PutEndpointsInv ==
    ASSUME NEW r, RepoInv(r), NEW d \in Node, NEW observed \in [Endpoint -> Observation],
           NodeExists(r, d)
    PROVE  RepoInv([r EXCEPT !.endpoints[d] = observed])
<1> DEFINE s == [r EXCEPT !.endpoints[d] = observed]
<1>0. /\ s.version = r.version /\ s.nodes = r.nodes
      /\ s.publicKeys = r.publicKeys /\ s.memberships = r.memberships
      /\ s.invites = r.invites /\ s.inviteByToken = r.inviteByToken
      /\ s.relayAssignments = r.relayAssignments
      /\ s.relayAssignmentOwners = r.relayAssignmentOwners
  BY DEF RepoInv, Repo
<1>1. s \in Repo
  BY DEF RepoInv, Repo
<1>f. \A o \in Node : s.endpoints[o] = IF o = d THEN observed ELSE r.endpoints[o]
  BY DEF RepoInv, Repo
<1> HIDE DEF s
<1>2. KeyIndexExact(s)
  BY <1>0 DEF RepoInv, KeyIndexExact
<1>3. AddressesExclusive(s)
  BY <1>0 DEF RepoInv, AddressesExclusive, IsMember, NetworkExists, NodeExists
<1>4. RelaysAreMembers(s)
  BY <1>0 DEF RepoInv, RelaysAreMembers, HasAssignment, IsActive
<1>5. OwnerIndexExact(s)
  BY <1>0 DEF RepoInv, OwnerIndexExact, HasAssignment
<1>6. InvitesAccounted(s)
  BY <1>0 DEF RepoInv, InvitesAccounted, NodeExists
<1>e. EndpointsOwned(s)
  BY <1>0, <1>f DEF RepoInv, EndpointsOwned, NodeExists
<1>7. RepoInv(s)
  BY <1>1, <1>2, <1>3, <1>4, <1>5, <1>6, <1>e DEF RepoInv
<1> QED BY <1>7 DEF s

\* ReplaceEndpoints preserves RepoInv.
LEMMA ReplaceEndpointsInv ==
    ASSUME NEW r, RepoInv(r), NEW d \in Node, NEW observed \in [Endpoint -> Observation],
           CanReplaceEndpoints(r, d)
    PROVE  RepoInv(ReplaceEndpoints(r, d, observed))
<1> DEFINE s == [r EXCEPT !.endpoints[d] = observed]
<1>1. RepoInv(s)
  BY PutEndpointsInv DEF CanReplaceEndpoints
<1>2. ReplaceEndpoints(r, d, observed) = Bump(s, NodeNetworks(r, d))
  BY DEF ReplaceEndpoints
<1>3. NodeNetworks(r, d) \in SUBSET Network
  BY DEF NodeNetworks
<1> HIDE DEF s
<1> QED BY <1>1, <1>2, <1>3, BumpInv

\* The relay tables alone: what SetRelayAssignment and the clock change.
LEMMA PutRelaysInv ==
    ASSUME NEW r, RepoInv(r),
           NEW assignments \in [Network -> [Node -> AssignmentRecord]],
           NEW owners \in [Assignment -> OwnerRecord],
           NEW s,
           s = [r EXCEPT !.relayAssignments = assignments, !.relayAssignmentOwners = owners],
           RelaysAreMembers(s), OwnerIndexExact(s)
    PROVE  RepoInv(s)
<1>0. /\ s.version = r.version /\ s.nodes = r.nodes
      /\ s.publicKeys = r.publicKeys /\ s.memberships = r.memberships
      /\ s.invites = r.invites /\ s.inviteByToken = r.inviteByToken
      /\ s.endpoints = r.endpoints
  BY DEF RepoInv, Repo
<1>1. s \in Repo
  BY DEF RepoInv, Repo
<1>2. KeyIndexExact(s)
  BY <1>0 DEF RepoInv, KeyIndexExact
<1>3. AddressesExclusive(s)
  BY <1>0 DEF RepoInv, AddressesExclusive, IsMember, NetworkExists, NodeExists
<1>4. InvitesAccounted(s)
  BY <1>0 DEF RepoInv, InvitesAccounted, NodeExists
<1>e. EndpointsOwned(s)
  BY <1>0 DEF RepoInv, EndpointsOwned, NodeExists
<1> QED BY <1>1, <1>2, <1>3, <1>4, <1>e DEF RepoInv

\* SetRelayAssignment preserves RepoInv: replacing an assignment frees the ID it
\* had, and an ID owned by another member is refused.
LEMMA SetRelayAssignmentInv ==
    ASSUME NEW r, RepoInv(r), NEW n \in Network, NEW d \in Node, NEW a \in Assignment,
           NEW relay \in Node, NEW state \in {"scheduled", "live", "ended"},
           CanSetRelayAssignment(r, n, d, a, relay)
    PROVE  RepoInv(SetRelayAssignment(r, n, d, a, relay, state))
<1> DEFINE previous == r.relayAssignments[n][d].id
           rec == [id |-> a, relay |-> relay, state |-> state]
           owner == [network |-> n, node |-> d]
           assignments == [r.relayAssignments EXCEPT ![n][d] = rec]
           owners == [b \in Assignment |-> IF b = a THEN owner
                                           ELSE IF b = previous THEN NoOwner
                                           ELSE r.relayAssignmentOwners[b]]
           s == [r EXCEPT !.relayAssignments = assignments, !.relayAssignmentOwners = owners]
<1>0. /\ r \in Repo
      /\ r.relayAssignments \in [Network -> [Node -> AssignmentRecord]]
      /\ r.relayAssignmentOwners \in [Assignment -> OwnerRecord]
  BY DEF RepoInv, Repo
<1>1. rec \in AssignmentRecord /\ owner \in OwnerRecord /\ NoOwner \in OwnerRecord
  BY DEF AssignmentRecord, OwnerRecord, NoOwner
<1>2. assignments \in [Network -> [Node -> AssignmentRecord]]
  <2> HIDE DEF rec
  <2> QED BY <1>0, <1>1
<1>3. owners \in [Assignment -> OwnerRecord]
  <2> HIDE DEF owner, previous
  <2> QED BY <1>0, <1>1
<1>4. SetRelayAssignment(r, n, d, a, relay, state) = Bump(s, {n})
  BY <1>0 DEF SetRelayAssignment
<1>5. \A m \in Network, t \in Node : assignments[m][t] =
         IF m = n /\ t = d THEN rec ELSE r.relayAssignments[m][t]
  <2> HIDE DEF rec
  <2> QED BY <1>0
<1>6. rec.id = a /\ rec.relay = relay /\ a # None /\ owner # NoOwner
  BY NoneAssumption DEF NoOwner
<1>7. /\ s.relayAssignments = assignments /\ s.relayAssignmentOwners = owners
      /\ s.memberships = r.memberships
  <2> HIDE DEF assignments, owners
  <2> QED BY <1>0 DEF Repo
<1>8. \A b \in Assignment : owners[b] = IF b = a THEN owner
                                        ELSE IF b = previous THEN NoOwner
                                        ELSE r.relayAssignmentOwners[b]
  OBVIOUS
<1>9. \A m \in Network, t \in Node : HasAssignment(r, m, t) =>
         /\ r.relayAssignments[m][t].id \in Assignment
         /\ r.relayAssignmentOwners[r.relayAssignments[m][t].id] = [network |-> m, node |-> t]
  BY <1>0 DEF RepoInv, OwnerIndexExact, HasAssignment, AssignmentRecord
<1>10. RelaysAreMembers(s)
  <2> HIDE DEF s, assignments, owners, rec
  <2> QED BY <1>5, <1>6, <1>7
          DEF RepoInv, RelaysAreMembers, HasAssignment, IsActive, CanSetRelayAssignment
<1>11. OwnerIndexExact(s)
  <2>1. ASSUME NEW m \in Network, NEW t \in Node, HasAssignment(s, m, t)
        PROVE  s.relayAssignmentOwners[s.relayAssignments[m][t].id]
                  = [network |-> m, node |-> t]
    <3>1. CASE m = n /\ t = d
      <4> HIDE DEF s, assignments, owners, rec
      <4> QED BY <3>1, <1>5, <1>6, <1>7, <1>8
    <3>2. CASE ~(m = n /\ t = d)
      <4> DEFINE b == r.relayAssignments[m][t].id
      <4>1. s.relayAssignments[m][t] = r.relayAssignments[m][t] /\ HasAssignment(r, m, t)
        <5> HIDE DEF s, assignments, owners, rec
        <5> QED BY <3>2, <2>1, <1>5, <1>7 DEF HasAssignment
      <4>2. b \in Assignment /\ r.relayAssignmentOwners[b] = [network |-> m, node |-> t]
        BY <4>1, <1>9
      <4>3. b # a
        <5> SUFFICES ASSUME b = a PROVE FALSE
          OBVIOUS
        <5> HIDE DEF b
        <5>1. [network |-> m, node |-> t] \in {NoOwner, [network |-> n, node |-> d]}
          BY <4>2 DEF CanSetRelayAssignment
        <5>2. [network |-> m, node |-> t] # NoOwner
          BY NoneAssumption DEF NoOwner
        <5>3. [network |-> m, node |-> t] = [network |-> n, node |-> d]
          BY <5>1, <5>2
        <5>4. m = n /\ t = d
          BY <5>3
        <5> QED BY <5>4, <3>2
      <4>4. b # previous
        <5>1. CASE HasAssignment(r, n, d)
          <6>1. r.relayAssignmentOwners[previous] = [network |-> n, node |-> d]
            BY <5>1, <1>9
          <6>2. [network |-> m, node |-> t] # [network |-> n, node |-> d]
            BY <3>2
          <6> HIDE DEF b, previous
          <6> QED BY <6>1, <6>2, <4>2
        <5>2. CASE ~HasAssignment(r, n, d)
          BY <5>2, <4>2, NoneAssumption DEF HasAssignment
        <5> QED BY <5>1, <5>2
      <4> HIDE DEF s, assignments, owners, rec, previous
      <4> QED BY <4>1, <4>2, <4>3, <4>4, <1>7, <1>8
    <3> QED BY <3>1, <3>2
  <2>2. ASSUME NEW b \in Assignment, s.relayAssignmentOwners[b] # NoOwner
        PROVE  /\ s.relayAssignmentOwners[b].network \in Network
               /\ s.relayAssignmentOwners[b].node \in Node
               /\ s.relayAssignments[s.relayAssignmentOwners[b].network]
                                    [s.relayAssignmentOwners[b].node].id = b
    <3>1. CASE b = a
      <4>1. s.relayAssignmentOwners[b] = owner /\ owner.network = n /\ owner.node = d
        BY <3>1, <1>7, <1>8
      <4> HIDE DEF s, assignments, owners, rec, owner
      <4> QED BY <3>1, <4>1, <1>5, <1>6, <1>7
    <3>2. CASE b # a
      <4> DEFINE o == r.relayAssignmentOwners[b]
      <4>1. s.relayAssignmentOwners[b] = o /\ b # previous
        <5> HIDE DEF s, assignments, owners, rec, owner, previous
        <5> QED BY <3>2, <2>2, <1>7, <1>8
      <4>2. o.network \in Network /\ o.node \in Node
            /\ r.relayAssignments[o.network][o.node].id = b
        BY <4>1, <2>2 DEF RepoInv, OwnerIndexExact
      <4>3. ~(o.network = n /\ o.node = d)
        BY <4>1, <4>2
      <4> HIDE DEF s, assignments, owners, rec, owner, previous
      <4> QED BY <4>1, <4>2, <4>3, <1>5, <1>7
    <3> QED BY <3>1, <3>2
  <2> QED BY <2>1, <2>2 DEF OwnerIndexExact
<1>12. RepoInv(s)
  <2>1. s = [r EXCEPT !.relayAssignments = assignments, !.relayAssignmentOwners = owners]
    OBVIOUS
  <2> HIDE DEF s, assignments, owners
  <2> QED BY <2>1, <1>2, <1>3, <1>10, <1>11, PutRelaysInv
<1> HIDE DEF s
<1> QED BY <1>4, <1>12, BumpInv

\* RemoveRelayAssignment preserves RepoInv.
LEMMA RemoveRelayAssignmentInv ==
    ASSUME NEW r, RepoInv(r), NEW n \in Network
    PROVE  RepoInv(RemoveRelayAssignment(r, n))
<1> DEFINE gone == [m \in Network |->
                      IF m = n THEN {t \in Node : HasAssignment(r, n, t)} ELSE {}]
<1>1. gone \in [Network -> SUBSET Node]
  OBVIOUS
<1>2. \A m \in Network : \A t \in gone[m] : HasAssignment(r, m, t)
  OBVIOUS
<1>3. RemoveRelayAssignment(r, n) = Bump(DropAssignments(r, gone), {n})
  BY DEF RemoveRelayAssignment
<1> HIDE DEF gone
<1>4. RepoInv(DropAssignments(r, gone))
  BY <1>1, <1>2, DropAssignmentsInv
<1> QED BY <1>3, <1>4, BumpInv

\* Changing the state of one existing assignment.
LEMMA MarkAssignmentInv ==
    ASSUME NEW r, RepoInv(r), NEW n \in Network, NEW d \in Node,
           NEW state \in {"live", "ended"}
    PROVE  RepoInv([r EXCEPT !.relayAssignments[n][d].state = state])
<1> DEFINE rec == [r.relayAssignments[n][d] EXCEPT !.state = state]
           assignments == [r.relayAssignments EXCEPT ![n][d] = rec]
           owners == r.relayAssignmentOwners
           s == [r EXCEPT !.relayAssignments = assignments, !.relayAssignmentOwners = owners]
<1>0. /\ r \in Repo
      /\ r.relayAssignments \in [Network -> [Node -> AssignmentRecord]]
      /\ owners \in [Assignment -> OwnerRecord]
  BY DEF RepoInv, Repo
<1>1. r.relayAssignments[n][d] \in AssignmentRecord
  BY <1>0
<1>2. /\ rec \in AssignmentRecord /\ rec.id = r.relayAssignments[n][d].id
      /\ rec.relay = r.relayAssignments[n][d].relay
  BY <1>1 DEF AssignmentRecord
<1>3. [r EXCEPT !.relayAssignments[n][d].state = state] = s
  BY <1>0 DEF Repo
<1> HIDE DEF rec
<1>4. assignments \in [Network -> [Node -> AssignmentRecord]]
  BY <1>0, <1>2
<1>5. \A m \in Network, t \in Node : assignments[m][t] =
         IF m = n /\ t = d THEN rec ELSE r.relayAssignments[m][t]
  BY <1>0
<1>6. /\ s.relayAssignments = assignments /\ s.relayAssignmentOwners = owners
      /\ s.memberships = r.memberships
  <2> HIDE DEF assignments
  <2> QED BY <1>0 DEF Repo
<1>7. \A m \in Network, t \in Node :
         /\ s.relayAssignments[m][t].id = r.relayAssignments[m][t].id
         /\ s.relayAssignments[m][t].relay = r.relayAssignments[m][t].relay
  <2> HIDE DEF assignments, s
  <2> QED BY <1>2, <1>5, <1>6
<1>8. RelaysAreMembers(s)
  <2> HIDE DEF assignments, s
  <2> QED BY <1>6, <1>7 DEF RepoInv, RelaysAreMembers, HasAssignment, IsActive
<1>9. OwnerIndexExact(s)
  <2> HIDE DEF assignments, s
  <2> QED BY <1>6, <1>7 DEF RepoInv, OwnerIndexExact, HasAssignment
<1>10. RepoInv(s)
  <2>1. s = [r EXCEPT !.relayAssignments = assignments, !.relayAssignmentOwners = owners]
    OBVIOUS
  <2> HIDE DEF s, assignments, owners
  <2> QED BY <2>1, <1>0, <1>4, <1>8, <1>9, PutRelaysInv
<1> QED BY <1>3, <1>10

=============================================================================
