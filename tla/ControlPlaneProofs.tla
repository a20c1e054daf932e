------------------------ MODULE ControlPlaneProofs ------------------------
(***************************************************************************)
(* ControlPlane's safety properties for every number of requests, nodes,   *)
(* invites and networks, and what enrollControl relies on in               *)
(* internal/address/pool.go, for pools of every size.                      *)
(*                                                                         *)
(* The store changes in two ways only.  An enrollment adds one node, spends *)
(* one invite and adds one membership (Admits); everything else leaves the *)
(* nodes that remain, their memberships and their invites as they were     *)
(* (Shrinks).  The invariant is shown once for each of the two, and every  *)
(* action is one or the other.                                             *)
(***************************************************************************)
EXTENDS ControlPlane, AddressPool, RepositoryOpsProofs, WellFoundedInduction

----------------------------------------------------------------------------
\* The address pool.

\* The remainder of a number below twice the divisor.
LEMMA WrapOnce ==
    ASSUME NEW n \in Nat, n > 0, NEW x \in Nat, x < 2 * n
    PROVE  x % n = IF x < n THEN x ELSE x - n
  OBVIOUS

\* A nonempty set of numbers has a least element.
LEMMA LeastElement ==
    ASSUME NEW S \in SUBSET Nat, S # {}
    PROVE  \E i \in S : \A j \in S : i <= j
<1>1. PICK i \in S : \A j \in S : ~(<<j, i>> \in OpToRel(<, Nat))
  BY NatLessThanWellFounded, WFMin, Zenon
<1>2. \A j \in S : ~(j < i)
  BY <1>1 DEF OpToRel
<1> QED
  BY <1>2

\* A candidate of the scan is always a usable address of the pool.
LEMMA CandidateUsable ==
    ASSUME NEW network \in Nat, NEW size \in Nat, size > 2,
           NEW start \in 0..(size - 3), NEW offset \in 0..(size - 3)
    PROVE  Usable(NewPool(network, size), Candidate(NewPool(network, size), start, offset))
<1>1. start + offset \in Nat /\ start + offset < 2 * (size - 2)
  OBVIOUS
<1>2. (start + offset) % (size - 2) \in 0..(size - 3)
  BY <1>1, WrapOnce
<1> QED
  BY <1>2 DEF Usable, Candidate, NewPool

\* Wrapping around, the scan passes every usable address.
LEMMA ScanCovers ==
    ASSUME NEW network \in Nat, NEW size \in Nat, size > 2,
           NEW start \in 0..(size - 3), NEW a \in Int, Usable(NewPool(network, size), a)
    PROVE  \E offset \in 0..(size - 3) : Candidate(NewPool(network, size), start, offset) = a
<1> DEFINE place  == a - (network + 1)
           offset == IF place >= start THEN place - start ELSE place + (size - 2) - start
<1>1. place \in 0..(size - 3)
  BY DEF Usable, NewPool
<1>2. offset \in 0..(size - 3)
  BY <1>1
<1>3. (start + offset) % (size - 2) = place
  <2>1. size - 2 \in Nat /\ size - 2 > 0
    OBVIOUS
  <2>2. CASE place >= start
    <3>1. start + offset = place
      BY <1>1, <2>2
    <3>2. place \in Nat /\ place < size - 2
      BY <1>1
    <3>3. place % (size - 2) = place
      BY <2>1, <3>2, WrapOnce
    <3> QED
      BY <3>1, <3>3
  <2>3. CASE ~(place >= start)
    <3>1. start + offset = place + (size - 2)
      BY <1>1, <2>3
    <3>2. place + (size - 2) \in Nat /\ place + (size - 2) < 2 * (size - 2)
            /\ ~(place + (size - 2) < size - 2) /\ (place + (size - 2)) - (size - 2) = place
      BY <1>1
    <3>3. (place + (size - 2)) % (size - 2) = place
      BY <2>1, <3>2, WrapOnce
    <3> QED
      BY <3>1, <3>3
  <2> QED
    BY <2>2, <2>3
<1>4. Candidate(NewPool(network, size), start, offset) = a
  BY <1>1, <1>3 DEF Candidate, NewPool
<1> QED
  BY <1>2, <1>4

\* RandomNext as enrollControl relies on it: whatever place the scan starts at,
\* it returns a usable address that is not occupied; and it reports a full pool
\* only if every usable address is occupied.
THEOREM RandomNextCorrect ==
    ASSUME NEW network \in Nat, NEW size \in Nat, size > 2,
           NEW start \in 0..(size - 3), NEW occupied
    PROVE  LET p == NewPool(network, size)
               a == RandomNext(p, start, occupied)
           IN  \/ a # Exhausted /\ Usable(p, a) /\ a \notin occupied
               \/ a = Exhausted /\ \A b \in Int : Usable(p, b) => b \in occupied
<1> DEFINE p == NewPool(network, size)
           H == Hits(p, start, occupied)
<1>1. p.usableCount = size - 2
  BY DEF NewPool
<1>2. H = {offset \in 0..(size - 3) : Candidate(p, start, offset) \notin occupied}
  BY <1>1 DEF Hits
<1>3. CASE H = {}
  <2>1. RandomNext(p, start, occupied) = Exhausted
    BY <1>3 DEF RandomNext
  <2>2. ASSUME NEW b \in Int, Usable(p, b) PROVE b \in occupied
    <3>1. PICK offset \in 0..(size - 3) : Candidate(p, start, offset) = b
      BY <2>2, ScanCovers
    <3> QED
      BY <1>2, <1>3, <3>1
  <2> QED
    BY <2>1, <2>2
<1>4. CASE H # {}
  <2> DEFINE first == CHOOSE i \in H : \A j \in H : i <= j
  <2>1. \E i \in H : \A j \in H : i <= j
    <3>1. H \in SUBSET Nat
      BY <1>2
    <3> HIDE DEF H
    <3> QED
      BY <1>4, <3>1, LeastElement
  <2>2. first \in H
    BY <2>1
  <2>3. RandomNext(p, start, occupied) = Candidate(p, start, first)
    BY <1>4 DEF RandomNext
  <2>4. first \in 0..(size - 3) /\ Candidate(p, start, first) \notin occupied
    BY <1>2, <2>2
  <2>5. Usable(p, Candidate(p, start, first))
    BY <2>4, CandidateUsable
  <2>6. Candidate(p, start, first) # Exhausted
    BY <2>5 DEF Usable, NewPool, Exhausted
  <2> QED
    BY <2>3, <2>4, <2>5, <2>6
<1> QED
  BY <1>3, <1>4

\* A usable address lies inside the CIDR, so AddMembership never refuses an
\* allocated address as foreign to its pool, and it is neither the network's
\* own address nor the broadcast address.
THEOREM UsableContained ==
    ASSUME NEW network \in Nat, NEW size \in Nat \ {0}, NEW a \in Int,
           Usable(NewPool(network, size), a)
    PROVE  /\ Contains(NewPool(network, size), a)
           /\ a # network /\ a # network + size - 1
  BY DEF Usable, Contains, NewPool

----------------------------------------------------------------------------
\* What a call on the store changes, of what the invariant speaks of.

\* From r to s no node is added, the nodes that remain keep their key,
\* memberships and invite, and only the invites in I may be revoked.
Shrinks(r, s, I) ==
    /\ RepoInv(s)
    /\ \A m \in Network : NetworkExists(r, m) => NetworkExists(s, m)
    /\ \A d \in Node : NodeExists(s, d) =>
          /\ s.nodes[d] = r.nodes[d]
          /\ \A m \in Network : s.memberships[m][d] = r.memberships[m][d]
          /\ \A i \in Invite : s.invites[i].by = d <=> r.invites[i].by = d
    /\ \A k \in Key : r.publicKeys[k] = None => s.publicKeys[k] = None
    /\ \A i \in Invite :
          /\ r.invites[i].state # "none" =>
                /\ s.invites[i].state # "none"
                /\ s.invites[i].network = r.invites[i].network
          /\ r.invites[i].state = "consumed" => s.invites[i].state = "consumed"
          /\ r.invites[i].state = "unused" /\ i \notin I => s.invites[i].state = "unused"
          /\ r.invites[i].state = "none" /\ s.invites[i].state # "none" =>
                NetworkExists(s, s.invites[i].network)

\* From r to s node d enters network n with key k and address a by invite i.
Admits(r, s, d, k, i, n, a) ==
    /\ RepoInv(s)
    /\ \A m \in Network : NetworkExists(r, m) => NetworkExists(s, m)
    /\ \A o \in Node : s.nodes[o] = IF o = d THEN k ELSE r.nodes[o]
    /\ \A j \in Key : s.publicKeys[j] = IF j = k THEN d ELSE r.publicKeys[j]
    /\ \A m \in Network, o \in Node :
          s.memberships[m][o] = IF m = n /\ o = d THEN [address |-> a, status |-> "active"]
                                                  ELSE r.memberships[m][o]
    /\ \A j \in Invite :
          /\ s.invites[j].network = r.invites[j].network
          /\ s.invites[j].state = IF j = i THEN "consumed" ELSE r.invites[j].state
          /\ s.invites[j].by = IF j = i THEN d ELSE r.invites[j].by

\* incrementNetworkVersionLocked leaves everything but the version alone.
LEMMA BumpFields ==
    ASSUME NEW r \in Repo, NEW ns \in SUBSET Network
    PROVE  LET s == Bump(r, ns)
           IN  /\ s.nodes = r.nodes /\ s.publicKeys = r.publicKeys
               /\ s.memberships = r.memberships /\ s.invites = r.invites
               /\ \A m \in Network : NetworkExists(r, m) => NetworkExists(s, m)
<1> DEFINE s == Bump(r, ns)
           v == [n \in Network |-> IF n \in ns THEN r.version[n] + 1 ELSE r.version[n]]
<1>1. /\ s.nodes = r.nodes /\ s.publicKeys = r.publicKeys
      /\ s.memberships = r.memberships /\ s.invites = r.invites /\ s.version = v
  BY DEF Bump, Repo
<1>2. \A m \in Network : r.version[m] > 0 => v[m] > 0
  BY DEF Repo
<1> HIDE DEF s
<1>3. \A m \in Network : NetworkExists(r, m) => NetworkExists(s, m)
  BY <1>1, <1>2 DEF NetworkExists
<1> QED BY <1>1, <1>3 DEF s

\* A store is itself a shrunk one.
LEMMA SameShrinks ==
    ASSUME NEW r, RepoInv(r), NEW I
    PROVE  Shrinks(r, r, I)
  BY DEF Shrinks

\* CreateNetwork only makes a network exist.
LEMMA CreateNetworkShrinks ==
    ASSUME NEW r, RepoInv(r), NEW n \in Network, CanCreateNetwork(r, n), NEW I
    PROVE  Shrinks(r, CreateNetwork(r, n), I)
<1> DEFINE s == CreateNetwork(r, n)
<1>1. r \in Repo
  BY DEF RepoInv
<1>2. RepoInv(s)
  BY CreateNetworkInv
<1>3. /\ s.nodes = r.nodes /\ s.publicKeys = r.publicKeys
      /\ s.memberships = r.memberships /\ s.invites = r.invites
      /\ \A m \in Network : NetworkExists(r, m) => NetworkExists(s, m)
  BY <1>1 DEF CreateNetwork, Repo, NetworkExists
<1> HIDE DEF s
<1>4. Shrinks(r, s, I)
  BY <1>2, <1>3 DEF Shrinks
<1> QED BY <1>4 DEF s

\* CreateInvite writes an invite that was not there.
LEMMA CreateInviteShrinks ==
    ASSUME NEW r, RepoInv(r), NEW i \in Invite, NEW n \in Network, NEW t \in Token,
           CanCreateInvite(r, i, n, t), NEW I
    PROVE  Shrinks(r, CreateInvite(r, i, n, t), I)
<1> DEFINE s == CreateInvite(r, i, n, t)
<1>1. r \in Repo
  BY DEF RepoInv
<1>2. RepoInv(s)
  BY CreateInviteInv
<1>3. /\ s.nodes = r.nodes /\ s.publicKeys = r.publicKeys
      /\ s.memberships = r.memberships /\ s.version = r.version
      /\ \A j \in Invite : j # i => s.invites[j] = r.invites[j]
      /\ s.invites[i].network = n /\ s.invites[i].state = "unused" /\ s.invites[i].by = None
  BY <1>1 DEF CreateInvite, Repo
<1>4. r.invites[i].state = "none" /\ r.invites[i].by = None /\ NetworkExists(r, n)
  BY DEF CanCreateInvite, RepoInv, InvitesAccounted
<1> HIDE DEF s
<1>5. Shrinks(r, s, I)
  BY <1>2, <1>3, <1>4, NoneAssumption DEF Shrinks, NetworkExists, NodeExists
<1> QED BY <1>5 DEF s

\* RevokeInvite touches one invite, and not a consumed one.
LEMMA RevokeInviteShrinks ==
    ASSUME NEW r, RepoInv(r), NEW i \in Invite, CanRevokeInvite(r, i)
    PROVE  Shrinks(r, RevokeInvite(r, i), {i})
<1> DEFINE s == RevokeInvite(r, i)
<1>1. r \in Repo
  BY DEF RepoInv
<1>2. RepoInv(s)
  BY RevokeInviteInv
<1>3. /\ s.nodes = r.nodes /\ s.publicKeys = r.publicKeys
      /\ s.memberships = r.memberships /\ s.version = r.version
      /\ \A j \in Invite : j # i => s.invites[j] = r.invites[j]
      /\ s.invites[i].network = r.invites[i].network /\ s.invites[i].state = "revoked"
      /\ s.invites[i].by = r.invites[i].by
  BY <1>1 DEF RevokeInvite, Repo, InviteRecord
<1>4. r.invites[i].state \notin {"none", "consumed"}
  BY DEF CanRevokeInvite
<1> HIDE DEF s
<1>5. Shrinks(r, s, {i})
  BY <1>2, <1>3, <1>4 DEF Shrinks, NetworkExists, NodeExists
<1> QED BY <1>5 DEF s

\* ReplaceEndpoints touches endpoints and versions.
LEMMA ReplaceEndpointsShrinks ==
    ASSUME NEW r, RepoInv(r), NEW d \in Node, NEW observed \in [Endpoint -> Observation],
           CanReplaceEndpoints(r, d), NEW I
    PROVE  Shrinks(r, ReplaceEndpoints(r, d, observed), I)
<1> DEFINE q == [r EXCEPT !.endpoints[d] = observed]
           s == ReplaceEndpoints(r, d, observed)
<1>1. r \in Repo
  BY DEF RepoInv
<1>2. RepoInv(s)
  BY ReplaceEndpointsInv
<1>3. RepoInv(q)
  BY PutEndpointsInv DEF CanReplaceEndpoints
<1>4. q \in Repo
  BY <1>3 DEF RepoInv
<1>5. /\ q.nodes = r.nodes /\ q.publicKeys = r.publicKeys
      /\ q.memberships = r.memberships /\ q.version = r.version /\ q.invites = r.invites
  BY <1>1 DEF Repo
<1>6. s = Bump(q, NodeNetworks(r, d)) /\ NodeNetworks(r, d) \in SUBSET Network
  BY DEF ReplaceEndpoints, NodeNetworks
<1> HIDE DEF s, q
<1>7. /\ s.nodes = r.nodes /\ s.publicKeys = r.publicKeys
      /\ s.memberships = r.memberships /\ s.invites = r.invites
      /\ \A m \in Network : NetworkExists(r, m) => NetworkExists(s, m)
  BY <1>4, <1>5, <1>6, BumpFields DEF NetworkExists
<1>8. Shrinks(r, s, I)
  BY <1>2, <1>7 DEF Shrinks
<1> QED BY <1>8 DEF s

\* RemoveNode takes one node, its memberships and its mark on its invite.
LEMMA RemoveNodeShrinks ==
    ASSUME NEW r, RepoInv(r), NEW d \in Node, CanRemoveNode(r, d), NEW I
    PROVE  Shrinks(r, RemoveNode(r, d), I)
<1> DEFINE gone == [n \in Network |-> Involving(r, n, d)]
           affected == {n \in Network : IsMember(r, n, d) \/ gone[n] # {}}
           q == DropAssignments(r, gone)
           inv == [i \in Invite |->
                      IF r.invites[i].by = d THEN [r.invites[i] EXCEPT !.by = None]
                                             ELSE r.invites[i]]
           mem == [n \in Network |-> [r.memberships[n] EXCEPT ![d] = AbsentMembership]]
           p == [q EXCEPT !.nodes[d] = None, !.publicKeys[r.nodes[d]] = None,
                          !.endpoints[d] = [e \in Endpoint |-> "none"],
                          !.invites = inv, !.memberships = mem]
           v == [n \in Network |-> IF n \in affected THEN p.version[n] + 1 ELSE p.version[n]]
           s == RemoveNode(r, d)
<1>1. r \in Repo
  BY DEF RepoInv
<1>2. RepoInv(s)
  BY RemoveNodeInv
<1>3. /\ RepoInv(q)
      /\ q.version = r.version /\ q.nodes = r.nodes /\ q.publicKeys = r.publicKeys
  <2>1. gone \in [Network -> SUBSET Node]
    BY DEF Involving
  <2>2. \A m \in Network : \A t \in gone[m] : HasAssignment(r, m, t)
    BY DEF Involving
  <2> HIDE DEF gone
  <2> QED BY <2>1, <2>2, DropAssignmentsInv
<1>4. q \in Repo
  <2> HIDE DEF q
  <2> QED BY <1>3 DEF RepoInv
<1>5. s = [p EXCEPT !.version = v]
  BY DEF RemoveNode, Bump
<1>6. \A i \in Invite :
         /\ inv[i].by = (IF r.invites[i].by = d THEN None ELSE r.invites[i].by)
         /\ inv[i].state = r.invites[i].state
         /\ inv[i].network = r.invites[i].network
  <2> TAKE i \in Invite
  <2>1. r.invites[i] \in InviteRecord
    BY <1>1 DEF Repo
  <2>2. LET c == [r.invites[i] EXCEPT !.by = None]
        IN  c.by = None /\ c.state = r.invites[i].state /\ c.network = r.invites[i].network
    BY <2>1 DEF InviteRecord
  <2> QED BY <2>2
<1>7. \A m \in Network, o \in Node : mem[m][o] =
          IF o = d THEN AbsentMembership ELSE r.memberships[m][o]
  BY <1>1 DEF Repo
<1> HIDE DEF gone, q, inv, mem, affected
<1>8. /\ p.version = r.version /\ p.invites = inv /\ p.memberships = mem
      /\ p.nodes = [r.nodes EXCEPT ![d] = None]
      /\ p.publicKeys = [r.publicKeys EXCEPT ![r.nodes[d]] = None]
  BY <1>3, <1>4 DEF Repo
<1>9. /\ s.invites = inv /\ s.memberships = mem /\ s.version = v
      /\ s.nodes = p.nodes /\ s.publicKeys = p.publicKeys
  BY <1>4, <1>5, <1>8 DEF Repo
<1>10. \A m \in Network : NetworkExists(r, m) => NetworkExists(s, m)
  <2> HIDE DEF s, p
  <2> QED BY <1>1, <1>8, <1>9 DEF NetworkExists, Repo
<1>11. \A o \in Node : s.nodes[o] = IF o = d THEN None ELSE r.nodes[o]
  <2>1. r.nodes \in [Node -> Key \cup {None}]
    BY <1>1 DEF Repo
  <2> HIDE DEF s, p
  <2> QED BY <2>1, <1>8, <1>9
<1>12. \A k \in Key : r.publicKeys[k] = None => s.publicKeys[k] = None
  <2>1. r.publicKeys \in [Key -> Node \cup {None}]
    BY <1>1 DEF Repo
  <2> HIDE DEF s, p
  <2> QED BY <2>1, <1>8, <1>9
<1> HIDE DEF s, p, v
<1>13. \A o \in Node : NodeExists(s, o) =>
          /\ s.nodes[o] = r.nodes[o]
          /\ \A m \in Network : s.memberships[m][o] = r.memberships[m][o]
          /\ \A i \in Invite : s.invites[i].by = o <=> r.invites[i].by = o
  BY <1>6, <1>7, <1>9, <1>11, NoneAssumption DEF NodeExists
<1>14. Shrinks(r, s, I)
  BY <1>2, <1>6, <1>9, <1>10, <1>12, <1>13 DEF Shrinks
<1> QED BY <1>14 DEF s

\* AddNode, ConsumeInviteForNode and AddMembership together: the transaction of
\* enrollControl, whose checks all passed.
LEMMA EnrolledAdmits ==
    ASSUME NEW r, RepoInv(r), NEW d \in Node, NEW k \in Key, NEW i \in Invite,
           NEW n \in Network, NEW a \in Address,
           CanAddNode(r, d, k),
           r.invites[i].state = "unused", r.invites[i].network = n,
           NetworkExists(r, n), a \in Pool[n],
           \A o \in Node : IsMember(r, n, o) => r.memberships[n][o].address # a
    PROVE  Admits(r, AddMembership(ConsumeInviteForNode(AddNode(r, d, k), i, d),
                                   n, d, a, "active"),
                  d, k, i, n, a)
<1> DEFINE p   == AddNode(r, d, k)
           rec == [p.invites[i] EXCEPT !.state = "consumed", !.by = d]
           q   == ConsumeInviteForNode(p, i, d)
           w   == [q EXCEPT !.memberships[n][d] = [address |-> a, status |-> "active"]]
           s   == AddMembership(q, n, d, a, "active")
<1>1. r \in Repo /\ RepoInv(p)
  BY AddNodeInv DEF RepoInv
<1>2. p \in Repo
  <2> HIDE DEF p
  <2> QED BY <1>1 DEF RepoInv
<1>3. /\ p.nodes = [r.nodes EXCEPT ![d] = k]
      /\ p.publicKeys = [r.publicKeys EXCEPT ![k] = d]
      /\ p.memberships = r.memberships /\ p.invites = r.invites /\ p.version = r.version
  BY <1>1 DEF AddNode, Repo
<1>4. NodeExists(p, d)
  BY <1>1, <1>3, NoneAssumption DEF NodeExists, Repo
<1> HIDE DEF p
<1>5. /\ rec \in InviteRecord /\ rec.network = p.invites[i].network
      /\ rec.token = p.invites[i].token /\ rec.by = d /\ rec.state = "consumed"
      /\ p.invites[i].state # "none"
  <2>1. p.invites[i] \in InviteRecord
    BY <1>2 DEF Repo
  <2> QED BY <2>1, <1>3 DEF InviteRecord
<1>6. q = [p EXCEPT !.invites[i] = rec]
  BY <1>2 DEF ConsumeInviteForNode, Repo
<1> HIDE DEF rec, q
<1>7. RepoInv(q)
  BY <1>1, <1>4, <1>5, <1>6, MarkInviteInv
<1>8. q \in Repo
  BY <1>7 DEF RepoInv
<1>9. /\ q.nodes = p.nodes /\ q.publicKeys = p.publicKeys
      /\ q.memberships = p.memberships /\ q.version = p.version
      /\ q.invites = [p.invites EXCEPT ![i] = rec]
  BY <1>2, <1>6 DEF Repo
<1>10. CanAddMembership(q, n, d, a)
  <2>1. ~NodeExists(r, d)
    BY DEF CanAddNode
  <2>2. ~IsMember(r, n, d)
    BY <2>1 DEF RepoInv, AddressesExclusive
  <2> QED BY <1>3, <1>4, <1>9, <2>2 DEF CanAddMembership, NetworkExists, NodeExists, IsMember
<1>11. RepoInv(s)
  BY <1>7, <1>10, AddMembershipInv
<1>12. s = Bump(w, {n})
  BY DEF AddMembership
<1>13. w \in Repo
  <2>1. [address |-> a, status |-> "active"] \in MembershipRecord
    BY DEF MembershipRecord
  <2> QED BY <1>8, <2>1 DEF Repo
<1>14. /\ w.nodes = q.nodes /\ w.publicKeys = q.publicKeys
       /\ w.invites = q.invites /\ w.version = q.version
       /\ \A m \in Network, o \in Node :
             w.memberships[m][o] = IF m = n /\ o = d THEN [address |-> a, status |-> "active"]
                                                     ELSE q.memberships[m][o]
  BY <1>8 DEF Repo
<1> HIDE DEF s, w
<1>15. /\ s.nodes = w.nodes /\ s.publicKeys = w.publicKeys
       /\ s.memberships = w.memberships /\ s.invites = w.invites
       /\ \A m \in Network : NetworkExists(w, m) => NetworkExists(s, m)
  BY <1>12, <1>13, BumpFields
<1>16. \A m \in Network : NetworkExists(r, m) => NetworkExists(s, m)
  BY <1>3, <1>9, <1>14, <1>15 DEF NetworkExists
<1>17. /\ \A o \in Node : s.nodes[o] = IF o = d THEN k ELSE r.nodes[o]
       /\ \A j \in Key : s.publicKeys[j] = IF j = k THEN d ELSE r.publicKeys[j]
  <2>1. r.nodes \in [Node -> Key \cup {None}] /\ r.publicKeys \in [Key -> Node \cup {None}]
    BY <1>1 DEF Repo
  <2> QED BY <2>1, <1>3, <1>9, <1>14, <1>15
<1>18. \A j \in Invite : s.invites[j] = IF j = i THEN rec ELSE r.invites[j]
  <2>1. p.invites \in [Invite -> InviteRecord]
    BY <1>2 DEF Repo
  <2> QED BY <2>1, <1>3, <1>9, <1>14, <1>15
<1>19. \A m \in Network, o \in Node :
          s.memberships[m][o] = IF m = n /\ o = d THEN [address |-> a, status |-> "active"]
                                                  ELSE r.memberships[m][o]
  BY <1>3, <1>9, <1>14, <1>15
<1>20. Admits(r, s, d, k, i, n, a)
  BY <1>3, <1>5, <1>11, <1>16, <1>17, <1>18, <1>19 DEF Admits
<1> QED BY <1>20 DEF s, q, p

----------------------------------------------------------------------------
\* The two ways the store changes, and what EnrollmentAtomic says of it.

\* EnrollmentAtomic, of a store r.
Atomic(r) ==
    \A d \in Node : NodeExists(r, d) =>
        \E n \in Network, i \in Invite :
            /\ NodeNetworks(r, d) = {n} /\ IsActive(r, n, d)
            /\ {j \in Invite : r.invites[j].by = d} = {i}
            /\ r.invites[i].network = n

\* The nodes that remain were enrolled as a whole and still are.
LEMMA ShrinksAtomic ==
    ASSUME NEW r, RepoInv(r), NEW s, NEW I, Shrinks(r, s, I), Atomic(r)
    PROVE  Atomic(s)
<1> SUFFICES ASSUME NEW d \in Node, NodeExists(s, d)
             PROVE  \E n \in Network, i \in Invite :
                        /\ NodeNetworks(s, d) = {n} /\ IsActive(s, n, d)
                        /\ {j \in Invite : s.invites[j].by = d} = {i}
                        /\ s.invites[i].network = n
  BY DEF Atomic
<1>1. /\ NodeExists(r, d)
      /\ \A m \in Network : s.memberships[m][d] = r.memberships[m][d]
      /\ \A i \in Invite : s.invites[i].by = d <=> r.invites[i].by = d
  BY DEF Shrinks, NodeExists
<1>2. PICK n \in Network, i \in Invite :
          /\ NodeNetworks(r, d) = {n} /\ IsActive(r, n, d)
          /\ {j \in Invite : r.invites[j].by = d} = {i}
          /\ r.invites[i].network = n
  BY <1>1 DEF Atomic
<1>3. NodeNetworks(s, d) = {n} /\ IsActive(s, n, d)
  BY <1>1, <1>2 DEF NodeNetworks, IsMember, IsActive
<1>4. {j \in Invite : s.invites[j].by = d} = {i}
  BY <1>1, <1>2
<1>5. r.invites[i].by = d
  BY <1>2
<1>6. r.invites[i].state = "consumed"
  BY <1>5, NoneAssumption DEF RepoInv, InvitesAccounted
<1>7. s.invites[i].network = n
  BY <1>2, <1>6 DEF Shrinks
<1> QED BY <1>3, <1>4, <1>7

\* The new node is enrolled as a whole, and the others are not touched.
LEMMA AdmitsAtomic ==
    ASSUME NEW r, RepoInv(r), NEW s, NEW d \in Node, NEW k \in Key, NEW i \in Invite,
           NEW n \in Network, NEW a,
           Admits(r, s, d, k, i, n, a), Atomic(r),
           ~NodeExists(r, d), r.invites[i].state = "unused", r.invites[i].network = n
    PROVE  Atomic(s)
<1> SUFFICES ASSUME NEW o \in Node, NodeExists(s, o)
             PROVE  \E m \in Network, j \in Invite :
                        /\ NodeNetworks(s, o) = {m} /\ IsActive(s, m, o)
                        /\ {l \in Invite : s.invites[l].by = o} = {j}
                        /\ s.invites[j].network = m
  BY DEF Atomic
<1>0. r.invites[i].by = None /\ \A j \in Invite : r.invites[j].by # d
  BY NoneAssumption DEF RepoInv, InvitesAccounted
<1>1. CASE o = d
  <2>1. \A m \in Network : ~IsMember(r, m, d)
    BY DEF RepoInv, AddressesExclusive
  <2>2. IsActive(s, n, d) /\ \A m \in Network : IsMember(s, m, d) <=> m = n
    BY <2>1 DEF Admits, IsMember, IsActive
  <2>3. NodeNetworks(s, d) = {n}
    BY <2>2 DEF NodeNetworks
  <2>4. {l \in Invite : s.invites[l].by = d} = {i}
    BY <1>0 DEF Admits
  <2>5. s.invites[i].network = n
    BY DEF Admits
  <2> QED BY <1>1, <2>2, <2>3, <2>4, <2>5
<1>2. CASE o # d
  <2>1. NodeExists(r, o)
    BY <1>2 DEF Admits, NodeExists
  <2>2. PICK m \in Network, j \in Invite :
            /\ NodeNetworks(r, o) = {m} /\ IsActive(r, m, o)
            /\ {l \in Invite : r.invites[l].by = o} = {j}
            /\ r.invites[j].network = m
    BY <2>1 DEF Atomic
  <2>3. \A l \in Network : s.memberships[l][o] = r.memberships[l][o]
    BY <1>2 DEF Admits
  <2>4. NodeNetworks(s, o) = {m} /\ IsActive(s, m, o)
    BY <2>2, <2>3 DEF NodeNetworks, IsMember, IsActive
  <2>5. \A l \in Invite : s.invites[l].by = o <=> r.invites[l].by = o
    BY <1>0, <1>2, NoneAssumption DEF Admits
  <2>6. {l \in Invite : s.invites[l].by = o} = {j}
    BY <2>2, <2>5
  <2>7. s.invites[j].network = m
    BY <2>2 DEF Admits
  <2> QED BY <2>4, <2>6, <2>7
<1> QED BY <1>1, <1>2

----------------------------------------------------------------------------
\* The requests.

\* What request h claims, once it has arrived.
LEMMA Claims ==
    ASSUME Inv, NEW h \in Req
    PROVE  /\ NewNode[h] \in Node /\ NewNode[h] # None
           /\ OwnNode(h) => req[h].pc # "new"
           /\ req[h].pc # "new" => /\ req[h].node \in Node
                                   /\ req[h].key \in Key
                                   /\ req[h].invite \in Invite
           /\ h \in inDoubt => req[h].pc \notin {"new", "invite", "enroll"}
           /\ \A g \in Req : req[g].pc # "new" /\ req[g].node = NewNode[h] => g = h
<1>1. NewNode[h] \in Node /\ NewNode[h] # None
  BY FreshIdentifiers, NoneAssumption
<1>2. req[h].pc = "new" => req[h].node = None /\ req[h].network = None
  BY DEF Inv, RequestShape, Shaped, NewRequest
<1>3. OwnNode(h) => req[h].pc # "new"
  BY <1>1, <1>2 DEF OwnNode
<1>4. ASSUME req[h].pc # "new"
      PROVE  req[h].node \in Node /\ req[h].key \in Key /\ req[h].invite \in Invite
  BY <1>4, FreshIdentifiers DEF Inv, RequestShape, Shaped
<1>5. h \in inDoubt => req[h].pc \notin {"new", "invite", "enroll"}
  BY <1>2 DEF Inv, RequestShape, Shaped, TypeOK
<1>6. ASSUME NEW g \in Req, req[g].pc # "new", req[g].node = NewNode[h]
      PROVE  g = h
  <2>1. req[g].node \in ClientNode \cup {NewNode[g]}
    BY <1>6 DEF Inv, RequestShape, Shaped
  <2>2. NewNode[h] \notin ClientNode
    BY FreshIdentifiers
  <2>3. NewNode[g] = NewNode[h]
    BY <1>6, <2>1, <2>2
  <2> QED BY <2>3, FreshIdentifiers
<1> QED BY <1>1, <1>3, <1>4, <1>5, <1>6

\* The stages before the transaction.
Early == {"new", "invite", "enroll"}

\* Request g goes on without enrolling: it keeps its claims, and is told
\* "created" only about a node of its own that is there; or it was still before
\* its transaction, and is not told so.
Continues(g) ==
    \/ /\ req'[g].node = req[g].node /\ req'[g].key = req[g].key
       /\ req'[g].invite = req[g].invite
       /\ req'[g].network = req[g].network /\ req'[g].address = req[g].address
       /\ req[g].pc \notin Early => req'[g].pc \notin Early
       /\ req'[g].reply = "created" /\ OwnNode(g) => Admitted(g)
    \/ /\ req[g].pc \in Early
       /\ req'[g].reply # "created"

\* A request that is told "created" without enrolling was admitted before.
LEMMA ContinuesAdmitted ==
    ASSUME Inv, NEW I, Shrinks(db, db', I), NEW g \in Req, Continues(g), Admitted(g)'
    PROVE  /\ Admitted(g)
           /\ req'[g].invite = req[g].invite
<1>1. NodeExists(db', NewNode[g]) => NodeExists(db, NewNode[g])
  BY Claims DEF Shrinks, NodeExists
<1>2. ASSUME req[g].pc \in Early
      PROVE  ~NodeExists(db', NewNode[g])
  BY <1>1, <1>2 DEF Inv, OwnNodes, Early
<1>3. CASE /\ req'[g].node = req[g].node /\ req'[g].invite = req[g].invite
           /\ req'[g].reply = "created" /\ OwnNode(g) => Admitted(g)
  BY <1>1, <1>3 DEF Admitted, OwnNode
<1>4. CASE req[g].pc \in Early /\ req'[g].reply # "created"
  BY <1>2, <1>4 DEF Admitted
<1> QED BY <1>3, <1>4 DEF Continues

\* A step that enrolls nobody keeps what the invariant says of the store.
LEMMA QuietStore ==
    ASSUME Inv, NEW I, Shrinks(db, db', I), \A g \in Req : Continues(g)
    PROVE  StoreSound' /\ EnrollmentAtomic' /\ InvitesIssued' /\ OwnNodes' /\ InvitesSpent'
<1>1. StoreSound'
  BY DEF StoreSound, Shrinks
<1>2. EnrollmentAtomic'
  <2>1. RepoInv(db) /\ Atomic(db)
    BY DEF Inv, StoreSound, EnrollmentAtomic, Atomic
  <2>2. Atomic(db')
    BY <2>1, ShrinksAtomic
  <2> QED BY <2>2 DEF EnrollmentAtomic, Atomic
<1>3. InvitesIssued'
  <2>0. RepoInv(db)
    BY DEF Inv, StoreSound
  <2> SUFFICES ASSUME NEW i \in Invite, db'.invites[i].state # "none"
               PROVE  NetworkExists(db', db'.invites[i].network)
    BY DEF InvitesIssued
  <2>1. CASE db.invites[i].state = "none"
    BY <2>1 DEF Shrinks
  <2>2. CASE db.invites[i].state # "none"
    <3>1. NetworkExists(db, db.invites[i].network) /\ db.invites[i].network \in Network
      BY <2>0, <2>2 DEF Inv, InvitesIssued, RepoInv, InvitesAccounted
    <3> QED BY <3>1, <2>2 DEF Shrinks
  <2> QED BY <2>1, <2>2
<1>4. OwnNodes'
  <2> SUFFICES ASSUME NEW h \in Req, NodeExists(db', NewNode[h])
               PROVE  /\ OwnNode(h)'
                      /\ req'[h].pc \notin Early
                      /\ db'.nodes[NewNode[h]] = req'[h].key
                      /\ req'[h].network \in Network
                      /\ db'.memberships[req'[h].network][NewNode[h]].address = req'[h].address
    BY DEF OwnNodes, Early
  <2>1. /\ NodeExists(db, NewNode[h])
        /\ db'.nodes[NewNode[h]] = db.nodes[NewNode[h]]
        /\ \A m \in Network : db'.memberships[m][NewNode[h]] = db.memberships[m][NewNode[h]]
    BY Claims DEF Shrinks, NodeExists
  <2>2. /\ OwnNode(h)
        /\ req[h].pc \notin Early
        /\ db.nodes[NewNode[h]] = req[h].key
        /\ req[h].network \in Network
        /\ db.memberships[req[h].network][NewNode[h]].address = req[h].address
    BY <2>1 DEF Inv, OwnNodes, Early
  <2>3. /\ req'[h].node = req[h].node /\ req'[h].key = req[h].key
        /\ req'[h].network = req[h].network /\ req'[h].address = req[h].address
        /\ req'[h].pc \notin Early
    BY <2>2 DEF Continues
  <2> QED BY <2>1, <2>2, <2>3 DEF OwnNode
<1>5. InvitesSpent'
  <2> SUFFICES ASSUME NEW h \in Req, Admitted(h)'
               PROVE  /\ db'.invites[req'[h].invite].state = "consumed"
                      /\ \A g \in Req : Admitted(g)' /\ req'[g].invite = req'[h].invite => g = h
    BY DEF InvitesSpent
  <2>1. Admitted(h) /\ req'[h].invite = req[h].invite
    BY ContinuesAdmitted
  <2>2. req[h].invite \in Invite
    BY <2>1, Claims DEF Admitted
  <2>3. db.invites[req[h].invite].state = "consumed"
    BY <2>1 DEF Inv, InvitesSpent
  <2>4. db'.invites[req'[h].invite].state = "consumed"
    BY <2>1, <2>2, <2>3 DEF Shrinks
  <2>5. ASSUME NEW g \in Req, Admitted(g)', req'[g].invite = req'[h].invite
        PROVE  g = h
    <3>1. Admitted(g) /\ req'[g].invite = req[g].invite
      BY <2>5, ContinuesAdmitted
    <3> QED BY <3>1, <2>1, <2>5 DEF Inv, InvitesSpent
  <2> QED BY <2>4, <2>5
<1> QED BY <1>1, <1>2, <1>3, <1>4, <1>5

\* A commit under way keeps its way clear when nobody enrolls and its invite is
\* not the one revoked.
LEMMA QuietDoubt ==
    ASSUME Inv, NEW I, Shrinks(db, db', I),
           NEW h \in inDoubt, h \in Req, req[h].invite \notin I,
           req'[h].node = req[h].node, req'[h].key = req[h].key,
           req'[h].invite = req[h].invite,
           req'[h].network = req[h].network, req'[h].address = req[h].address
    PROVE  /\ CanAdd(h)'
           /\ db'.invites[req'[h].invite].state = "unused"
           /\ InviteFor(h)' = req'[h].network
           /\ req'[h].address \in FreeHosts(h)'
<1>1. req[h].node \in Node /\ req[h].key \in Key /\ req[h].invite \in Invite
  BY Claims
<1>2. /\ CanAdd(h)
      /\ db.invites[req[h].invite].state = "unused"
      /\ InviteFor(h) = req[h].network
      /\ req[h].address \in FreeHosts(h)
  BY DEF Inv, DoubtReady
<1>3. CanAdd(h)'
  BY <1>1, <1>2 DEF CanAdd, CanAddNode, NodeExists, Shrinks
<1>4. /\ db'.invites[req'[h].invite].state = "unused"
      /\ InviteFor(h)' = InviteFor(h)
  BY <1>1, <1>2 DEF Shrinks, InviteFor
<1>5. InviteFor(h) \in Network
  BY <1>1, <1>2 DEF Inv, StoreSound, RepoInv, InvitesAccounted, InviteFor
<1>6. ASSUME NEW o \in Node, IsMember(db', InviteFor(h), o)
      PROVE  db'.memberships[InviteFor(h)][o].address # req[h].address
  <2>1. NodeExists(db', o)
    BY <1>5, <1>6 DEF Shrinks, RepoInv, AddressesExclusive
  <2>2. db'.memberships[InviteFor(h)][o] = db.memberships[InviteFor(h)][o]
    BY <2>1, <1>5 DEF Shrinks
  <2>3. IsMember(db, InviteFor(h), o)
    BY <2>2, <1>6 DEF IsMember
  <2> QED BY <2>2, <2>3, <1>2 DEF FreeHosts
<1>7. req'[h].address \in FreeHosts(h)'
  BY <1>2, <1>4, <1>6 DEF FreeHosts
<1> QED BY <1>2, <1>3, <1>4, <1>7

\* What the invariant says of the store and of the commits under way.
StorePart == StoreSound /\ EnrollmentAtomic /\ InvitesIssued /\ OwnNodes /\ InvitesSpent
DoubtPart == DoubtReady /\ DoubtApart

\* A step that enrolls nobody and starts no commit.
LEMMA QuietStep ==
    ASSUME Inv, NEW I, Shrinks(db, db', I), \A g \in Req : Continues(g),
           inDoubt' \subseteq inDoubt, \A g \in inDoubt' : req[g].invite \notin I
    PROVE  StorePart' /\ DoubtPart'
<1>1. StorePart'
  BY QuietStore DEF StorePart
<1>2. ASSUME NEW g \in inDoubt
      PROVE  /\ g \in Req
             /\ req'[g].node = req[g].node /\ req'[g].key = req[g].key
             /\ req'[g].invite = req[g].invite
             /\ req'[g].network = req[g].network /\ req'[g].address = req[g].address
  <2>1. g \in Req
    BY DEF Inv, TypeOK
  <2>2. req[g].pc \notin Early
    BY <2>1, Claims DEF Early
  <2> QED BY <2>1, <2>2 DEF Continues
<1>3. DoubtReady'
  <2> SUFFICES ASSUME NEW g \in inDoubt'
               PROVE  /\ CanAdd(g)'
                      /\ db'.invites[req'[g].invite].state = "unused"
                      /\ InviteFor(g)' = req'[g].network
                      /\ req'[g].address \in FreeHosts(g)'
    BY DEF DoubtReady
  <2> QED BY <1>2, QuietDoubt
<1>4. DoubtApart'
  BY <1>2 DEF Inv, DoubtApart
<1> QED BY <1>1, <1>3, <1>4 DEF DoubtPart

\* The enrollment of request h reaches the store, at once or when the database
\* finishes its commit.
LEMMA AdmitStep ==
    ASSUME Inv, NEW h \in Req, NEW n, NEW a,
           req[h].pc # "new", CanAdd(h),
           db.invites[req[h].invite].state = "unused", InviteFor(h) = n,
           a \in FreeHosts(h), db' = Enrolled(h, n, a),
           \A g \in Req : g # h => req'[g] = req[g],
           req'[h].node = req[h].node, req'[h].key = req[h].key,
           req'[h].invite = req[h].invite,
           req'[h].network = n, req'[h].address = a, req'[h].pc \notin Early,
           inDoubt' = inDoubt \ {h},
           \A g \in inDoubt : g # h => /\ req[g].network # n
                                       /\ req[g].node # req[h].node
                                       /\ req[g].key # req[h].key
    PROVE  /\ StorePart' /\ DoubtPart'
           /\ Admits(db, db', req[h].node, req[h].key, req[h].invite, n, a)
<1> DEFINE d == req[h].node  k == req[h].key  i == req[h].invite
<1>1. d \in Node /\ k \in Key /\ i \in Invite
  BY Claims
<1>2. RepoInv(db) /\ Atomic(db)
  BY DEF Inv, StoreSound, EnrollmentAtomic, Atomic
<1>3. n \in Network /\ NetworkExists(db, n) /\ db.invites[i].network = n
  BY <1>1, <1>2 DEF InviteFor, Inv, InvitesIssued, RepoInv, InvitesAccounted
<1>4. /\ a \in Address /\ a \in Pool[n]
      /\ \A o \in Node : IsMember(db, n, o) => db.memberships[n][o].address # a
  BY <1>3, HostsAssumption DEF FreeHosts
<1>5. CanAddNode(db, d, k) /\ ~NodeExists(db, d)
  BY DEF CanAdd, CanAddNode
<1>6. Admits(db, db', d, k, i, n, a)
  <2>1. db' = AddMembership(ConsumeInviteForNode(AddNode(db, d, k), i, d), n, d, a, "active")
    BY DEF Enrolled, WithNode
  <2> HIDE DEF d, k, i
  <2> QED BY <1>1, <1>2, <1>3, <1>4, <1>5, <2>1, EnrolledAdmits DEF i
<1>7. StoreSound'
  BY <1>6 DEF StoreSound, Admits
<1>8. EnrollmentAtomic'
  <2>1. Atomic(db')
    BY <1>1, <1>2, <1>3, <1>5, <1>6, AdmitsAtomic
  <2> QED BY <2>1 DEF EnrollmentAtomic, Atomic
<1>9. InvitesIssued'
  <2> SUFFICES ASSUME NEW j \in Invite, db'.invites[j].state # "none"
               PROVE  NetworkExists(db', db'.invites[j].network)
    BY DEF InvitesIssued
  <2>1. db.invites[j].state # "none" /\ db'.invites[j].network = db.invites[j].network
    BY <1>6 DEF Admits
  <2>2. NetworkExists(db, db.invites[j].network) /\ db.invites[j].network \in Network
    BY <1>2, <2>1 DEF Inv, InvitesIssued, RepoInv, InvitesAccounted
  <2> QED BY <1>6, <2>1, <2>2 DEF Admits
\* The only node of a request's own that appears is h's.
<1>10. ASSUME NEW g \in Req, g # h
       PROVE  /\ NewNode[g] # d /\ NewNode[g] \in Node
              /\ NodeExists(db', NewNode[g]) <=> NodeExists(db, NewNode[g])
              /\ Admitted(g)' <=> Admitted(g)
  <2>1. NewNode[g] # d /\ NewNode[g] \in Node
    BY <1>10, Claims
  <2>2. NodeExists(db', NewNode[g]) <=> NodeExists(db, NewNode[g])
    BY <2>1, <1>6 DEF Admits, NodeExists
  <2> QED BY <1>10, <2>1, <2>2 DEF Admitted, OwnNode
<1>11. OwnNodes'
  <2> SUFFICES ASSUME NEW g \in Req, NodeExists(db', NewNode[g])
               PROVE  /\ OwnNode(g)'
                      /\ req'[g].pc \notin Early
                      /\ db'.nodes[NewNode[g]] = req'[g].key
                      /\ req'[g].network \in Network
                      /\ db'.memberships[req'[g].network][NewNode[g]].address = req'[g].address
    BY DEF OwnNodes, Early
  <2>1. CASE g # h
    <3>1. /\ OwnNode(g)
          /\ req[g].pc \notin Early
          /\ db.nodes[NewNode[g]] = req[g].key
          /\ req[g].network \in Network
          /\ db.memberships[req[g].network][NewNode[g]].address = req[g].address
      BY <1>10, <2>1 DEF Inv, OwnNodes, Early
    <3>2. /\ db'.nodes[NewNode[g]] = db.nodes[NewNode[g]]
          /\ \A m \in Network : db'.memberships[m][NewNode[g]] = db.memberships[m][NewNode[g]]
      BY <1>6, <1>10, <2>1 DEF Admits
    <3> QED BY <2>1, <3>1, <3>2 DEF OwnNode
  <2>2. CASE g = h
    <3>1. NewNode[h] = d
      <4> SUFFICES ASSUME NewNode[h] # d
                   PROVE  FALSE
        OBVIOUS
      <4>1. NodeExists(db, NewNode[h])
        BY <1>6, <2>2, Claims DEF Admits, NodeExists
      <4> QED BY <4>1 DEF Inv, OwnNodes, OwnNode
    <3>2. db'.nodes[d] = k /\ db'.memberships[n][d].address = a
      BY <1>1, <1>3, <1>6 DEF Admits
    <3> QED BY <1>3, <2>2, <3>1, <3>2 DEF OwnNode
  <2> QED BY <2>1, <2>2
<1>12. \A g \in Req : g # h /\ Admitted(g) =>
          /\ req[g].invite \in Invite /\ req[g].invite # i
          /\ db'.invites[req[g].invite].state = "consumed"
  <2> SUFFICES ASSUME NEW g \in Req, g # h, Admitted(g)
               PROVE  /\ req[g].invite \in Invite /\ req[g].invite # i
                      /\ db'.invites[req[g].invite].state = "consumed"
    OBVIOUS
  <2>1. req[g].invite \in Invite
    BY Claims DEF Admitted
  <2>2. db.invites[req[g].invite].state = "consumed"
    BY DEF Inv, InvitesSpent
  <2> QED BY <2>1, <2>2, <1>6 DEF Admits
<1>13. InvitesSpent'
  <2> SUFFICES ASSUME NEW g \in Req, Admitted(g)'
               PROVE  /\ db'.invites[req'[g].invite].state = "consumed"
                      /\ \A f \in Req : Admitted(f)' /\ req'[f].invite = req'[g].invite => f = g
    BY DEF InvitesSpent
  <2>1. db'.invites[i].state = "consumed"
    BY <1>1, <1>6 DEF Admits
  <2>2. db'.invites[req'[g].invite].state = "consumed"
    BY <2>1, <1>10, <1>12
  <2>3. ASSUME NEW f \in Req, Admitted(f)', req'[f].invite = req'[g].invite
        PROVE  f = g
    <3>1. CASE f = h \/ g = h
      BY <3>1, <2>3, <1>10, <1>12
    <3>2. CASE f # h /\ g # h
      BY <3>2, <2>3, <1>10 DEF Inv, InvitesSpent
    <3> QED BY <3>1, <3>2
  <2> QED BY <2>2, <2>3
<1>14. DoubtReady'
  <2> SUFFICES ASSUME NEW g \in inDoubt, g # h
               PROVE  /\ CanAdd(g)'
                      /\ db'.invites[req'[g].invite].state = "unused"
                      /\ InviteFor(g)' = req'[g].network
                      /\ req'[g].address \in FreeHosts(g)'
    BY DEF DoubtReady
  <2>1. g \in Req /\ req'[g] = req[g]
    BY DEF Inv, TypeOK
  <2>2. req[g].node \in Node /\ req[g].key \in Key /\ req[g].invite \in Invite
    BY <2>1, Claims
  <2>3. /\ CanAdd(g)
        /\ db.invites[req[g].invite].state = "unused"
        /\ InviteFor(g) = req[g].network
        /\ req[g].address \in FreeHosts(g)
    BY DEF Inv, DoubtReady
  <2>4. CanAdd(g)'
    BY <1>6, <2>1, <2>2, <2>3 DEF CanAdd, CanAddNode, NodeExists, Admits
  <2>5. req[g].invite # i
    BY <2>3, <1>3 DEF InviteFor
  <2>6. db'.invites[req'[g].invite].state = "unused" /\ InviteFor(g)' = InviteFor(g)
    BY <1>6, <2>1, <2>2, <2>3, <2>5 DEF Admits, InviteFor
  <2>7. InviteFor(g) \in Network /\ InviteFor(g) # n
    BY <1>2, <2>2, <2>3 DEF InviteFor, RepoInv, InvitesAccounted
  <2>8. \A o \in Node : db'.memberships[InviteFor(g)][o] = db.memberships[InviteFor(g)][o]
    BY <1>6, <2>7 DEF Admits
  <2>9. req'[g].address \in FreeHosts(g)'
    BY <2>1, <2>3, <2>6, <2>8 DEF FreeHosts, IsMember
  <2> QED BY <2>1, <2>3, <2>4, <2>6, <2>9
<1>15. DoubtApart'
  BY DEF Inv, DoubtApart, TypeOK
<1> QED BY <1>6, <1>7, <1>8, <1>9, <1>11, <1>13, <1>14, <1>15 DEF StorePart, DoubtPart

----------------------------------------------------------------------------
\* The steps.

\* Initially there is nothing.
LEMMA InitInv ==
    ASSUME Init
    PROVE  Inv
<1>1. db = EmptyRepo /\ RepoInv(EmptyRepo)
  BY EmptyRepoInv DEF Init
<1>2. TypeOK
  <2>1. NewRequest \in Request
    BY AttemptsAssumption DEF NewRequest, Request, Replies
  <2> QED BY <1>1, <2>1 DEF Init, TypeOK, RepoInv
<1>3. StoreSound
  BY <1>1 DEF StoreSound
<1>4. /\ \A d \in Node : ~NodeExists(db, d)
      /\ \A i \in Invite : db.invites[i].state = "none"
  BY <1>1 DEF EmptyRepo, NodeExists, AbsentInvite
<1>5. EnrollmentAtomic /\ InvitesIssued
  BY <1>4 DEF EnrollmentAtomic, InvitesIssued
<1>6. \A h \in Req : req[h] = NewRequest /\ req[h].pc = "new" /\ sessions[h] = NoSession
  BY DEF Init, NewRequest
<1>7. RequestShape /\ SessionShape
  BY <1>6 DEF RequestShape, Shaped, SessionShape, Credited
<1>8. DoubtReady /\ DoubtApart
  BY DEF Init, DoubtReady, DoubtApart
<1>9. \A h \in Req : ~NodeExists(db, NewNode[h]) /\ ~Admitted(h)
  BY <1>4, <1>6, FreshIdentifiers DEF Admitted, NewRequest
<1>10. OwnNodes /\ InvitesSpent
  BY <1>9 DEF OwnNodes, InvitesSpent
<1> QED BY <1>2, <1>3, <1>5, <1>7, <1>8, <1>10 DEF Inv

\* A step of the store and of the sessions that no handler takes.
LEMMA StoreOnlyStep ==
    ASSUME Inv, Shrinks(db, db', {}), req' = req, inDoubt' = inDoubt,
           room' \in Network \cup {None}, revoked' \subseteq Network,
           sessions' \in [Req -> Session \cup {NoSession}],
           \A g \in Req : sessions'[g] # NoSession => sessions'[g] = sessions[g]
    PROVE  Inv'
<1>1. \A g \in Req : Continues(g)
  BY DEF Continues, Admitted
<1>2. StorePart' /\ DoubtPart'
  BY <1>1, QuietStep
<1>3. TypeOK'
  BY DEF Inv, TypeOK, Shrinks, RepoInv
<1>4. RequestShape'
  BY DEF Inv, RequestShape, Shaped
<1>5. SessionShape'
  BY DEF Inv, SessionShape, Credited
<1> QED BY <1>2, <1>3, <1>4, <1>5 DEF Inv, StorePart, DoubtPart

\* A step of the handler of request h.
LEMMA HandlerInv ==
    ASSUME Inv, NEW h \in Req,
           req' \in [Req -> Request], \A g \in Req : g # h => req'[g] = req[g],
           sessions' \in [Req -> Session \cup {NoSession}],
           \A g \in Req : g # h => sessions'[g] = sessions[g],
           room' = room, revoked' = revoked,
           inDoubt' \subseteq inDoubt \cup {h}, h \in inDoubt' => req'[h].network # None,
           Shaped(h)', Credited(h)', StorePart', DoubtPart'
    PROVE  Inv'
<1>1. TypeOK'
  BY DEF Inv, TypeOK, StorePart, StoreSound, RepoInv
<1>2. RequestShape'
  BY DEF Inv, RequestShape, Shaped
<1>3. SessionShape'
  BY DEF Inv, SessionShape, Credited
<1> QED BY <1>1, <1>2, <1>3 DEF Inv, StorePart, DoubtPart

\* The administrator's requests.
LEMMA AdminInv ==
    ASSUME Inv, AdminStep
    PROVE  Inv'
<1>0. RepoInv(db) /\ TypeOK
  BY DEF Inv, StoreSound
<1> USE <1>0 DEF TypeOK
<1>1. ASSUME NEW n \in Network, CreateRoom(n)
      PROVE  Inv'
  BY <1>1, CreateNetworkShrinks, StoreOnlyStep DEF CreateRoom
<1>2. ASSUME NEW n \in Network, CreateNetworkRequest(n)
      PROVE  Inv'
  BY <1>2, CreateNetworkShrinks, StoreOnlyStep DEF CreateNetworkRequest
<1>3. ASSUME NEW i \in DOMAIN AdminToken, NEW n \in Network, CreateInviteRequest(i, n)
      PROVE  Inv'
  <2>1. i \in Invite /\ AdminToken[i] \in Token
    BY FreshIdentifiers
  <2> QED BY <1>3, <2>1, CreateInviteShrinks, StoreOnlyStep DEF CreateInviteRequest
<1>4. ASSUME NEW n \in Network, RevokeNetwork(n)
      PROVE  Inv'
  BY <1>4, SameShrinks, StoreOnlyStep DEF RevokeNetwork
<1>5. ASSUME NEW d \in Node, DeleteNode(d)
      PROVE  Inv'
  BY <1>5, RemoveNodeShrinks, StoreOnlyStep DEF DeleteNode
<1> QED BY <1>1, <1>2, <1>3, <1>4, <1>5 DEF AdminStep

\* Requests made with a session.
LEMMA SessionInv ==
    ASSUME Inv, NEW h \in Req, SessionStep(h)
    PROVE  Inv'
<1>0. RepoInv(db) /\ TypeOK
  BY DEF Inv, StoreSound
<1> USE <1>0 DEF TypeOK
<1>1. Authorized(h) => sessions[h].subject \in Node
  BY DEF Authorized, Session
<1>2. CASE LeaveNode(h)
  BY <1>1, <1>2, RemoveNodeShrinks, StoreOnlyStep DEF LeaveNode
<1>3. ASSUME NEW observed \in [Endpoint -> {"none", "fresh"}], Heartbeat(h, observed)
      PROVE  Inv'
  <2>1. observed \in [Endpoint -> Observation]
    BY DEF Observation
  <2> QED BY <1>1, <1>3, <2>1, ReplaceEndpointsShrinks, StoreOnlyStep DEF Heartbeat
<1>4. CASE ExpireSession(h)
  BY <1>4, SameShrinks, StoreOnlyStep DEF ExpireSession
<1> QED BY <1>2, <1>3, <1>4 DEF SessionStep

\* Only request h changes.
Alone(h) == req' \in [Req -> Request] /\ \A g \in Req : g # h => req'[g] = req[g]

\* What the arrival of request h sets.
Arrived(h) ==
    /\ req[h].pc = "new"
    /\ Alone(h)
    /\ req'[h].pc = "invite" => req'[h].join
    /\ req'[h].pc \in {"invite", "enroll"} /\ req'[h].key \in Key
    /\ IF req'[h].join
       THEN /\ req'[h].node = NewNode[h]
            /\ req'[h].invite = NewInvite[h] /\ req'[h].token = NewToken[h]
       ELSE /\ req'[h].node \in ClientNode \cup {NewNode[h]}
            /\ req'[h].invite \in DOMAIN AdminToken
    /\ req'[h].network = req[h].network /\ req'[h].reply = req[h].reply

\* A request arrives: joinRoom and POST /v1/enrollments.
LEMMA ArriveInv ==
    ASSUME Inv, NEW h \in Req, Arrive(h)
    PROVE  Inv'
<1>0. /\ RepoInv(db) /\ TypeOK /\ Shaped(h)
      /\ req \in [Req -> Request] /\ req[h] \in Request
  BY DEF Inv, StoreSound, RequestShape, TypeOK
<1>1. Arrived(h)
  <2>1. ASSUME NEW k \in KeysOf[h], JoinRoom(h, k)
        PROVE  Arrived(h)
    <3>1. k \in Key /\ NewNode[h] \in Node /\ NewInvite[h] \in Invite /\ NewToken[h] \in Token
      BY FreshIdentifiers
    <3>2. req'[h] \in Request
      BY <1>0, <2>1, <3>1 DEF JoinRoom, Request
    <3>3. Alone(h)
      BY <1>0, <2>1, <3>2 DEF JoinRoom, Alone
    <3> QED BY <1>0, <2>1, <3>1, <3>3 DEF JoinRoom, Request, Arrived
  <2>2. ASSUME NEW k \in KeysOf[h], NEW i \in DOMAIN AdminToken,
               NEW d \in ClientNode \cup {NewNode[h]}, EnrollRequest(h, k, i, d)
        PROVE  Arrived(h)
    <3>1. k \in Key /\ d \in Node /\ i \in Invite /\ AdminToken[i] \in Token
      BY FreshIdentifiers
    <3>2. req'[h] \in Request
      BY <1>0, <2>2, <3>1 DEF EnrollRequest, Request
    <3>3. Alone(h)
      BY <1>0, <2>2, <3>2 DEF EnrollRequest, Alone
    <3>4. req[h].join = FALSE /\ req[h].pc = "new"
      BY <1>0, <2>2 DEF EnrollRequest, Shaped, NewRequest
    <3> QED BY <1>0, <2>2, <3>1, <3>3, <3>4 DEF EnrollRequest, Request, Arrived
  <2> QED BY <2>1, <2>2 DEF Arrive
<1>2. UNCHANGED <<db, room, revoked, sessions, inDoubt>>
  BY DEF Arrive, JoinRoom, EnrollRequest
<1>3. req[h].network = None /\ req[h].reply = "none" /\ sessions[h] = NoSession
  BY <1>0, <1>1 DEF Shaped, NewRequest, Inv, SessionShape, Credited, Arrived
<1>4. Shaped(h)'
  BY <1>1, <1>3 DEF Shaped, Arrived
<1>5. \A g \in Req : Continues(g)
  BY <1>1, <1>3 DEF Continues, Early, Admitted, Arrived, Alone
<1>6. Shrinks(db, db', {})
  BY <1>0, <1>2, SameShrinks
<1>7. StorePart' /\ DoubtPart'
  BY <1>2, <1>5, <1>6, QuietStep
<1>8. Credited(h)'
  BY <1>2, <1>3 DEF Credited
<1>9. h \notin inDoubt'
  BY <1>1, <1>2, Claims DEF Arrived
<1> QED BY <1>0, <1>1, <1>2, <1>4, <1>7, <1>8, <1>9, HandlerInv DEF TypeOK, Arrived, Alone

\* Request h goes on to another stage, or another round, with its claims.
Moves(h) ==
    /\ Alone(h)
    /\ req'[h].join = req[h].join /\ req'[h].node = req[h].node
    /\ req'[h].key = req[h].key /\ req'[h].invite = req[h].invite
    /\ req'[h].token = req[h].token
    /\ req'[h].network = req[h].network /\ req'[h].address = req[h].address

\* A handler answers, or goes on, without enrolling.
LEMMA MovesInv ==
    ASSUME Inv, NEW h \in Req, Moves(h), req[h].pc # "new",
           req'[h].pc \notin {"new", "invite"},
           req'[h].pc = "enroll" => req[h].pc = "invite" /\ req'[h].reply = "none",
           req'[h].pc = "recover" => req[h].pc = "recover" /\ req'[h].reply = "none",
           req'[h].pc = "revoke" => req[h].join,
           req'[h].reply = "created" /\ OwnNode(h) => Admitted(h),
           NEW I, Shrinks(db, db', I), \A g \in inDoubt : req[g].invite \notin I,
           UNCHANGED <<room, revoked, inDoubt>>,
           sessions' \in {sessions, [sessions EXCEPT ![h] = NoSession]},
           Credited(h)'
    PROVE  Inv'
<1>0. TypeOK /\ Shaped(h)
  BY DEF Inv, RequestShape
<1>1. Shaped(h)'
  BY <1>0 DEF Shaped, Moves
<1>2. \A g \in Req : Continues(g)
  BY DEF Continues, Early, Admitted, Alone, Moves
<1>3. StorePart' /\ DoubtPart'
  BY <1>2, QuietStep
<1>4. /\ sessions' \in [Req -> Session \cup {NoSession}]
      /\ \A g \in Req : g # h => sessions'[g] = sessions[g]
  BY <1>0 DEF TypeOK
<1>5. h \in inDoubt' => req'[h].network # None
  BY <1>0 DEF TypeOK, Moves
<1> QED BY <1>1, <1>3, <1>4, <1>5, HandlerInv DEF Alone, Moves

\* Setting the stage and the answer of request h is a move.
LEMMA AnswerMoves ==
    ASSUME Inv, NEW h \in Req, NEW pc \in {"enroll", "revoke", "done"}, NEW reply \in Replies,
           req' = [req EXCEPT ![h].pc = pc, ![h].reply = reply]
    PROVE  Moves(h) /\ req'[h].pc = pc /\ req'[h].reply = reply
<1>1. req \in [Req -> Request] /\ req[h] \in Request
  BY DEF Inv, TypeOK
<1>2. req'[h] = [req[h] EXCEPT !.pc = pc, !.reply = reply]
  BY <1>1
<1>3. req'[h] \in Request
  BY <1>1, <1>2 DEF Request
<1>4. Alone(h)
  BY <1>1, <1>3 DEF Alone
<1> QED BY <1>1, <1>2, <1>4 DEF Request, Moves

\* ... and so is setting the stage alone.
LEMMA StageMoves ==
    ASSUME Inv, NEW h \in Req, NEW pc \in {"enroll", "revoke", "done"},
           req' = [req EXCEPT ![h].pc = pc]
    PROVE  Moves(h) /\ req'[h].pc = pc /\ req'[h].reply = req[h].reply
<1>1. req \in [Req -> Request] /\ req[h] \in Request
  BY DEF Inv, TypeOK
<1>2. req'[h] = [req[h] EXCEPT !.pc = pc]
  BY <1>1
<1>3. req'[h] \in Request
  BY <1>1, <1>2 DEF Request
<1>4. Alone(h)
  BY <1>1, <1>3 DEF Alone
<1> QED BY <1>1, <1>2, <1>4 DEF Request, Moves

\* newInternalRoomInvite.
LEMMA NewInternalRoomInviteInv ==
    ASSUME Inv, NEW h \in Req, NewInternalRoomInvite(h)
    PROVE  Inv'
<1>0. /\ RepoInv(db) /\ TypeOK /\ Shaped(h) /\ Credited(h) /\ req[h].pc = "invite"
      /\ UNCHANGED <<room, revoked, sessions, inDoubt>>
  BY DEF Inv, StoreSound, RequestShape, SessionShape, NewInternalRoomInvite
<1>1. req[h].reply = "none" /\ req[h].join /\ sessions[h] = NoSession
  BY <1>0 DEF Shaped, Credited
<1>2. /\ Moves(h)
      /\ \/ req'[h].pc = "enroll" /\ req'[h].reply = "none"
         \/ req'[h].pc = "done" /\ req'[h].reply = "refused"
  <2>1. CASE req' = [req EXCEPT ![h].pc = "enroll"]
    BY <1>1, <2>1, StageMoves
  <2>2. CASE Reply(h, "refused")
    BY <2>2, AnswerMoves DEF Reply, Replies
  <2> QED BY <2>1, <2>2 DEF NewInternalRoomInvite
<1>3. Shrinks(db, db', {})
  <2>1. req[h].invite \in Invite /\ req[h].token \in Token
    BY <1>0, <1>1, FreshIdentifiers DEF Shaped
  <2>2. ASSUME room # None, CanCreateInvite(db, req[h].invite, room, req[h].token),
               db' = CreateInvite(db, req[h].invite, room, req[h].token)
        PROVE  Shrinks(db, db', {})
    <3>1. room \in Network
      BY <1>0, <2>2 DEF TypeOK
    <3> QED BY <1>0, <2>1, <2>2, <3>1, CreateInviteShrinks
  <2>3. CASE db' = db
    BY <1>0, <2>3, SameShrinks
  <2> QED BY <2>2, <2>3 DEF NewInternalRoomInvite
<1>4. Credited(h)'
  BY <1>0, <1>1 DEF Credited
<1> QED BY <1>0, <1>2, <1>3, <1>4, MovesInv

\* The transaction of enrollControl fails.
LEMMA EnrollFailsInv ==
    ASSUME Inv, NEW h \in Req, EnrollFails(h)
    PROVE  Inv'
<1>0. /\ RepoInv(db) /\ Shaped(h) /\ Credited(h) /\ req[h].pc = "enroll"
      /\ UNCHANGED <<db, room, revoked, sessions, inDoubt>>
  BY DEF Inv, StoreSound, RequestShape, SessionShape, EnrollFails
<1>1. sessions[h] = NoSession
  BY <1>0 DEF Credited
<1>2. PICK reply \in {"conflict", "full", "refused"} : FailEnrollment(h, reply)
  BY DEF EnrollFails
<1>3. /\ Moves(h) /\ req'[h].reply = reply
      /\ req'[h].pc \in {"revoke", "done"} /\ (req'[h].pc = "revoke" => req[h].join)
  <2> DEFINE pc == IF req[h].join THEN "revoke" ELSE "done"
  <2>1. pc \in {"enroll", "revoke", "done"} /\ reply \in Replies
    BY DEF Replies
  <2>2. req' = [req EXCEPT ![h].pc = pc, ![h].reply = reply]
    BY <1>2 DEF FailEnrollment
  <2>3. Moves(h) /\ req'[h].pc = pc /\ req'[h].reply = reply
    <3> HIDE DEF pc
    <3> QED BY <2>1, <2>2, AnswerMoves
  <2> QED BY <2>3
<1>4. Shrinks(db, db', {})
  BY <1>0, SameShrinks
<1>5. Credited(h)'
  BY <1>0, <1>1 DEF Credited
<1> QED BY <1>0, <1>3, <1>4, <1>5, MovesInv

\* joinRoom revokes its invite, or fails to.
LEMMA RevokeRoomInviteInv ==
    ASSUME Inv, NEW h \in Req, RevokeRoomInvite(h)
    PROVE  Inv'
<1>0. /\ RepoInv(db) /\ Shaped(h) /\ Credited(h) /\ req[h].pc = "revoke"
      /\ UNCHANGED <<room, revoked, sessions, inDoubt>>
  BY DEF Inv, StoreSound, RequestShape, SessionShape, RevokeRoomInvite
<1>1. sessions[h] = NoSession
  BY <1>0 DEF Credited
<1>2. Moves(h) /\ req'[h].pc = "done" /\ req'[h].reply = req[h].reply
  BY StageMoves DEF RevokeRoomInvite
<1>3. Credited(h)'
  BY <1>0, <1>1 DEF Credited
<1>4. req'[h].reply = "created" /\ OwnNode(h) => Admitted(h)
  BY <1>2 DEF Admitted
<1>5. CASE db' = db
  <2>1. Shrinks(db, db', {})
    BY <1>0, <1>5, SameShrinks
  <2> QED BY <1>0, <1>2, <1>3, <1>4, <2>1, MovesInv
<1>6. ASSUME CanRevokeInvite(db, req[h].invite), h \notin inDoubt,
             db' = RevokeInvite(db, req[h].invite)
      PROVE  Inv'
  <2>1. req[h].invite \in Invite /\ req[h].invite = NewInvite[h]
    BY <1>0, FreshIdentifiers DEF Shaped
  <2>2. Shrinks(db, db', {req[h].invite})
    BY <1>0, <1>6, <2>1, RevokeInviteShrinks
  <2>3. ASSUME NEW g \in inDoubt
        PROVE  req[g].invite \notin {req[h].invite}
    <3>1. g \in Req /\ g # h /\ Shaped(g)
      BY <1>6 DEF Inv, TypeOK, RequestShape
    <3>2. req[g].pc # "new"
      BY <3>1, Claims
    <3>3. \/ req[g].invite = NewInvite[g]
          \/ req[g].invite \in Invite \ {NewInvite[f] : f \in Req}
      BY <3>1, <3>2, FreshIdentifiers DEF Shaped
    <3> QED BY <2>1, <3>1, <3>3, FreshIdentifiers
  <2> QED BY <1>0, <1>2, <1>3, <1>4, <2>2, <2>3, MovesInv
<1> QED BY <1>5, <1>6 DEF RevokeRoomInvite

\* A round of recoverEnrollmentCommit that is not the last.
LEMMA RoundMoves ==
    ASSUME Inv, NEW h \in Req, NEW unsure \in BOOLEAN, req[h].pc = "recover", ~LastRound(h),
           req' = [req EXCEPT ![h].attempt = @ + 1, ![h].uncertain = @ \/ unsure]
    PROVE  Moves(h) /\ req'[h].pc = "recover" /\ req'[h].reply = req[h].reply
<1>1. req \in [Req -> Request] /\ req[h] \in Request
  BY DEF Inv, TypeOK
<1>2. req'[h] = [req[h] EXCEPT !.attempt = req[h].attempt + 1,
                               !.uncertain = req[h].uncertain \/ unsure]
  BY <1>1
<1>3. req[h].attempt + 1 \in 1..Attempts
  BY <1>1, AttemptsAssumption DEF Request, LastRound
<1>4. req'[h] \in Request
  <2>1. /\ [req[h] EXCEPT !.attempt = req[h].attempt + 1, !.uncertain = TRUE] \in Request
        /\ [req[h] EXCEPT !.attempt = req[h].attempt + 1, !.uncertain = FALSE] \in Request
    BY <1>1, <1>3 DEF Request
  <2>2. (req[h].uncertain \/ unsure) = TRUE \/ (req[h].uncertain \/ unsure) = FALSE
    BY Zenon
  <2> QED BY <1>2, <2>1, <2>2, Zenon
<1>5. Alone(h)
  BY <1>1, <1>4 DEF Alone
<1> QED BY <1>1, <1>2, <1>5 DEF Request, Moves

\* recoverEnrollmentCommit.
LEMMA RecoverAttemptInv ==
    ASSUME Inv, NEW h \in Req, RecoverAttempt(h)
    PROVE  Inv'
<1>0. /\ RepoInv(db) /\ TypeOK /\ Shaped(h) /\ Credited(h) /\ req[h].pc = "recover"
      /\ UNCHANGED <<db, room, revoked, inDoubt>>
  BY DEF Inv, StoreSound, RequestShape, SessionShape, RecoverAttempt
<1>1. Shrinks(db, db', {})
  BY <1>0, SameShrinks
<1>2. req[h].reply = "none"
  BY <1>0 DEF Shaped
<1>3. ASSUME Present(h), Reply(h, "created"), UNCHANGED sessions
      PROVE  Inv'
  <2>1. Moves(h) /\ req'[h].pc = "done" /\ req'[h].reply = "created"
    BY <1>3, AnswerMoves DEF Reply, Replies
  <2>2. OwnNode(h) => Admitted(h)
    BY <1>3 DEF Present, Admitted, OwnNode
  <2>3. Credited(h)'
    BY <2>1 DEF Credited
  <2> QED BY <1>0, <1>1, <1>3, <2>1, <2>2, <2>3, MovesInv
<1>4. ASSUME NEW unsure \in BOOLEAN, ~LastRound(h), UNCHANGED sessions,
             req' = [req EXCEPT ![h].attempt = @ + 1, ![h].uncertain = @ \/ unsure]
      PROVE  Inv'
  <2>1. Moves(h) /\ req'[h].pc = "recover" /\ req'[h].reply = "none"
    BY <1>0, <1>2, <1>4, RoundMoves
  <2>2. Credited(h)'
    BY <2>1 DEF Credited
  <2>3. sessions' \in {sessions, [sessions EXCEPT ![h] = NoSession]}
    BY <1>4
  <2>4. req[h].pc # "new" /\ UNCHANGED <<room, revoked, inDoubt>>
    BY <1>0
  <2>5. /\ req'[h].pc \notin {"new", "invite", "enroll", "revoke"}
        /\ req'[h].reply = "none" /\ req'[h].reply # "created"
    BY <2>1
  <2> QED BY <1>0, <1>1, <2>1, <2>2, <2>3, <2>4, <2>5, MovesInv
<1>5. CASE RecoverAbsent(h)
  <2> DEFINE pc == IF req[h].join THEN "revoke" ELSE "done"
  <2>1. pc \in {"enroll", "revoke", "done"} /\ "refused" \in Replies
    BY DEF Replies
  <2>2. req' = [req EXCEPT ![h].pc = pc, ![h].reply = "refused"]
    BY <1>5 DEF RecoverAbsent, FailEnrollment
  <2>3. Moves(h) /\ req'[h].pc = pc /\ req'[h].reply = "refused"
    <3> HIDE DEF pc
    <3> QED BY <2>1, <2>2, AnswerMoves
  <2>4. sessions' = [sessions EXCEPT ![h] = NoSession] /\ sessions'[h] = NoSession
    BY <1>0, <1>5 DEF RecoverAbsent, TypeOK
  <2>5. Credited(h)'
    BY <2>4 DEF Credited
  <2>6. pc \in {"revoke", "done"} /\ (pc = "revoke" => req[h].join)
    OBVIOUS
  <2>7. sessions' \in {sessions, [sessions EXCEPT ![h] = NoSession]}
    BY <2>4
  <2>8. req[h].pc # "new" /\ UNCHANGED <<room, revoked, inDoubt>>
    BY <1>0
  <2>9. req'[h].pc \in {"revoke", "done"} /\ (req'[h].pc = "revoke" => req[h].join)
    BY <2>3, <2>6
  <2> HIDE DEF pc
  <2> QED BY <1>1, <2>3, <2>5, <2>7, <2>8, <2>9, MovesInv
<1>6. ASSUME Reply(h, "pending"), UNCHANGED sessions
      PROVE  Inv'
  <2>1. Moves(h) /\ req'[h].pc = "done" /\ req'[h].reply = "pending"
    BY <1>6, AnswerMoves DEF Reply, Replies
  <2>2. Credited(h)'
    BY <2>1 DEF Credited
  <2> QED BY <1>0, <1>1, <1>6, <2>1, <2>2, MovesInv
<1> QED BY <1>3, <1>4, <1>5, <1>6 DEF RecoverAttempt

\* ... and its timeout.
LEMMA RecoverTimesOutInv ==
    ASSUME Inv, NEW h \in Req, RecoverTimesOut(h)
    PROVE  Inv'
<1>0. /\ RepoInv(db) /\ req[h].pc = "recover"
      /\ UNCHANGED <<db, room, revoked, sessions, inDoubt>>
  BY DEF Inv, StoreSound, RecoverTimesOut
<1>1. Moves(h) /\ req'[h].pc = "done" /\ req'[h].reply = "pending"
  BY AnswerMoves DEF RecoverTimesOut, Reply, Replies
<1>2. Shrinks(db, db', {})
  BY <1>0, SameShrinks
<1>3. Credited(h)'
  BY <1>1 DEF Credited
<1> QED BY <1>0, <1>1, <1>2, <1>3, MovesInv

\* What COMMIT sets in the handler of request h.
Committed(h, a) ==
    /\ Alone(h)
    /\ req'[h].join = req[h].join /\ req'[h].node = req[h].node
    /\ req'[h].key = req[h].key /\ req'[h].invite = req[h].invite
    /\ req'[h].token = req[h].token
    /\ req'[h].network = InviteFor(h) /\ req'[h].address = a
    /\ \/ req'[h].pc = "done" /\ req'[h].reply = "created"
       \/ req'[h].pc = "recover" /\ req'[h].reply = "none"

\* The commit of enrollControl succeeds, or its outcome is unknown.
LEMMA EnrollCommitsInv ==
    ASSUME Inv, NEW h \in Req, NEW a \in Address, EnrollCommits(h, a)
    PROVE  /\ Inv' /\ Committed(h, a)
           /\ req'[h].reply = "created" =>
                 Admits(db, db', req[h].node, req[h].key, req[h].invite, InviteFor(h), a)
<1> DEFINE n == InviteFor(h)
<1>0. /\ RepoInv(db) /\ TypeOK /\ Shaped(h) /\ req[h].pc = "enroll"
      /\ req \in [Req -> Request] /\ req[h] \in Request
      /\ CanAdd(h) /\ CanConsume(h) /\ a \in FreeHosts(h) /\ Unlocked(h, n)
      /\ UNCHANGED <<room, revoked>>
  BY DEF Inv, StoreSound, RequestShape, TypeOK, EnrollCommits
<1>1. /\ req[h].node \in Node /\ req[h].key \in Key /\ req[h].invite \in Invite
      /\ h \notin inDoubt /\ req[h].reply = "none"
  BY <1>0, Claims DEF Shaped
<1>2. db.invites[req[h].invite].state = "unused"
  <2>1. WithNode(h).invites = db.invites
    BY <1>0 DEF WithNode, AddNode, RepoInv, Repo
  <2> QED BY <1>0, <2>1 DEF CanConsume, CanConsumeInvite
<1>3. n \in Network /\ n # None
  BY <1>0, <1>1, <1>2, NoneAssumption DEF InviteFor, RepoInv, InvitesAccounted
<1>4. Committed(h, a)
  <2>1. CASE req' = [req EXCEPT ![h].pc = "done", ![h].reply = "created",
                                ![h].network = n, ![h].address = a]
    <3> HIDE DEF n
    <3>1. req'[h] = [req[h] EXCEPT !.pc = "done", !.reply = "created",
                                   !.network = n, !.address = a]
      BY <1>0, <2>1
    <3>2. req'[h] \in Request
      BY <1>0, <1>3, <3>1 DEF Request, Replies
    <3>3. Alone(h)
      BY <1>0, <2>1, <3>2 DEF Alone
    <3> QED BY <1>0, <3>1, <3>3 DEF Request, Committed, n
  <2>2. CASE req' = [req EXCEPT ![h].pc = "recover", ![h].network = n, ![h].address = a]
    <3> HIDE DEF n
    <3>1. req'[h] = [req[h] EXCEPT !.pc = "recover", !.network = n, !.address = a]
      BY <1>0, <2>2
    <3>2. req'[h] \in Request
      BY <1>0, <1>3, <3>1 DEF Request
    <3>3. Alone(h)
      BY <1>0, <2>2, <3>2 DEF Alone
    <3> QED BY <1>0, <1>1, <3>1, <3>3 DEF Request, Committed, n
  <2> QED BY <2>1, <2>2 DEF EnrollCommits
<1>5. Shaped(h)'
  BY <1>0, <1>3, <1>4 DEF Shaped, Committed
<1>6. Credited(h)'
  BY <1>4 DEF Credited, Committed
<1>7. /\ sessions' \in [Req -> Session \cup {NoSession}]
      /\ \A g \in Req : g # h => sessions'[g] = sessions[g]
  <2>1. sessions' = [sessions EXCEPT ![h] = [subject |-> req[h].node, network |-> n]]
    BY DEF EnrollCommits
  <2>2. [subject |-> req[h].node, network |-> n] \in Session
    BY <1>1, <1>3 DEF Session
  <2> QED BY <1>0, <2>1, <2>2 DEF TypeOK
<1>8. /\ StorePart' /\ DoubtPart'
      /\ inDoubt' \subseteq inDoubt \cup {h}
      /\ req'[h].reply = "created" =>
            Admits(db, db', req[h].node, req[h].key, req[h].invite, n, a)
  <2>1. CASE db' = Enrolled(h, n, a) /\ inDoubt' = inDoubt
    <3>1. inDoubt' = inDoubt \ {h}
      BY <1>1, <2>1
    <3>2. \A g \in inDoubt : g # h => /\ req[g].network # n
                                      /\ req[g].node # req[h].node
                                      /\ req[g].key # req[h].key
      BY <1>0 DEF Unlocked, Writable
    <3>3. /\ \A g \in Req : g # h => req'[g] = req[g]
          /\ req'[h].node = req[h].node /\ req'[h].key = req[h].key
          /\ req'[h].invite = req[h].invite
          /\ req'[h].network = n /\ req'[h].address = a /\ req'[h].pc \notin Early
      BY <1>4 DEF Committed, Alone, Early
    <3>4. InviteFor(h) = n /\ db' = Enrolled(h, n, a)
      BY <2>1
    <3> HIDE DEF n
    <3>5. /\ StorePart' /\ DoubtPart'
          /\ Admits(db, db', req[h].node, req[h].key, req[h].invite, n, a)
      BY <1>0, <1>2, <3>1, <3>2, <3>3, <3>4, AdmitStep
    <3> QED BY <2>1, <3>5
  <2>2. CASE db' = db /\ inDoubt' \in {inDoubt, inDoubt \cup {h}}
                /\ req'[h].reply # "created"
    <3>1. \A g \in Req : Continues(g)
      BY <1>0, <1>4, <2>2 DEF Continues, Early, Committed, Alone, Admitted
    <3>2. Shrinks(db, db', {})
      BY <1>0, <2>2, SameShrinks
    <3>3. StorePart'
      BY <3>1, <3>2, QuietStore DEF StorePart
    <3>4. \A g \in inDoubt : g \in Req /\ g # h /\ req'[g] = req[g]
      BY <1>0, <1>1, <1>4 DEF TypeOK, Committed, Alone
    <3>5. DoubtReady'
      <4> SUFFICES ASSUME NEW g \in inDoubt'
                   PROVE  /\ CanAdd(g)'
                          /\ db'.invites[req'[g].invite].state = "unused"
                          /\ InviteFor(g)' = req'[g].network
                          /\ req'[g].address \in FreeHosts(g)'
        BY DEF DoubtReady
      <4>1. CASE g \in inDoubt
        <5>1. /\ CanAdd(g)
              /\ db.invites[req[g].invite].state = "unused"
              /\ InviteFor(g) = req[g].network
              /\ req[g].address \in FreeHosts(g)
          BY <4>1 DEF Inv, DoubtReady
        <5> QED BY <2>2, <3>4, <4>1, <5>1 DEF CanAdd, InviteFor, FreeHosts
      <4>2. CASE g = h
        BY <1>0, <1>2, <1>4, <2>2, <4>2 DEF Committed, CanAdd, InviteFor, FreeHosts
      <4> QED BY <2>2, <4>1, <4>2
    <3>6. DoubtApart'
      <4>1. \A g \in inDoubt : /\ req[g].network # n
                               /\ req[g].node # req[h].node
                               /\ req[g].key # req[h].key
        BY <1>0 DEF Unlocked, Writable
      <4> QED BY <1>4, <2>2, <3>4, <4>1 DEF Inv, DoubtApart, Committed
    <3> QED BY <2>2, <3>3, <3>5, <3>6 DEF DoubtPart
  <2>3. CASE req' = [req EXCEPT ![h].pc = "recover", ![h].network = n, ![h].address = a]
    <3>1. req'[h].reply # "created"
      BY <1>0, <1>1, <2>3 DEF Request
    <3> QED BY <2>1, <2>2, <2>3, <3>1 DEF EnrollCommits
  <2> QED BY <2>1, <2>3 DEF EnrollCommits
<1>9. h \in inDoubt' => req'[h].network # None
  BY <1>3, <1>4 DEF Committed
<1> QED BY <1>0, <1>4, <1>5, <1>6, <1>7, <1>8, <1>9, HandlerInv DEF Committed, Alone

\* The database finishes a commit under way, or drops it.
LEMMA ResolveCommitInv ==
    ASSUME Inv, NEW h \in Req, ResolveCommit(h)
    PROVE  Inv'
<1>0. /\ RepoInv(db) /\ TypeOK /\ Shaped(h) /\ Credited(h) /\ h \in inDoubt
      /\ inDoubt' = inDoubt \ {h} /\ UNCHANGED <<room, revoked, sessions, req>>
  BY DEF Inv, StoreSound, RequestShape, SessionShape, ResolveCommit
<1>1. StorePart' /\ DoubtPart'
  <2>1. CASE db' = db
    <3>1. \A g \in Req : Continues(g)
      BY <1>0 DEF Continues, Admitted
    <3>2. Shrinks(db, db', {})
      BY <1>0, <2>1, SameShrinks
    <3> QED BY <1>0, <3>1, <3>2, QuietStep
  <2>2. CASE db' = Enrolled(h, req[h].network, req[h].address)
    <3>1. /\ CanAdd(h)
          /\ db.invites[req[h].invite].state = "unused"
          /\ InviteFor(h) = req[h].network
          /\ req[h].address \in FreeHosts(h)
      BY <1>0 DEF Inv, DoubtReady
    <3>2. req[h].pc \notin Early /\ req[h].pc # "new"
      BY <1>0, Claims DEF Early
    <3>3. \A g \in inDoubt : g # h => /\ req[g].network # req[h].network
                                      /\ req[g].node # req[h].node
                                      /\ req[g].key # req[h].key
      BY <1>0 DEF Inv, DoubtApart
    <3>4. req' = req
      BY <1>0
    <3> QED BY <1>0, <2>2, <3>1, <3>2, <3>3, <3>4, AdmitStep
  <2> QED BY <2>1, <2>2 DEF ResolveCommit
<1>2. Shaped(h)' /\ Credited(h)'
  BY <1>0 DEF Shaped, Credited
<1> QED BY <1>0, <1>1, <1>2, HandlerInv DEF TypeOK

\* The process restarts: the handlers that were running are lost.
LEMMA RestartInv ==
    ASSUME Inv, Restart
    PROVE  Inv'
<1>0. /\ RepoInv(db) /\ TypeOK /\ RequestShape
      /\ UNCHANGED <<db, inDoubt>>
      /\ room' = None /\ revoked' = {} /\ sessions' = [h \in Req |-> NoSession]
      /\ req \in [Req -> Request]
  BY DEF Inv, StoreSound, Restart, TypeOK
<1>1. ASSUME NEW h \in Req
      PROVE  /\ req'[h] \in Request
             /\ Shaped(h)'
             /\ Continues(h)
             /\ req'[h].network = req[h].network
  <2>1. req[h] \in Request /\ Shaped(h)
    BY <1>0 DEF RequestShape
  <2>2. CASE req[h].pc \in {"new", "done"}
    <3>1. req'[h] = req[h]
      BY <2>2 DEF Restart
    <3>2. Shaped(h)'
      BY <2>1, <3>1 DEF Shaped
    <3>3. Continues(h)
      BY <3>1 DEF Continues, Admitted
    <3> QED BY <2>1, <3>1, <3>2, <3>3
  <2>3. CASE req[h].pc \notin {"new", "done"}
    <3>1. req'[h] = [req[h] EXCEPT !.pc = "done", !.reply = "lost"]
      BY <2>3 DEF Restart
    <3>2. req'[h] \in Request
      BY <2>1, <3>1 DEF Request, Replies
    <3>3. /\ req'[h].pc = "done" /\ req'[h].reply = "lost"
          /\ req'[h].join = req[h].join /\ req'[h].node = req[h].node
          /\ req'[h].key = req[h].key /\ req'[h].invite = req[h].invite
          /\ req'[h].token = req[h].token
          /\ req'[h].network = req[h].network /\ req'[h].address = req[h].address
      BY <2>1, <3>1 DEF Request
    <3>4. Shaped(h)'
      BY <2>1, <2>3, <3>3 DEF Shaped
    <3>5. Continues(h)
      BY <3>3 DEF Continues, Early
    <3> QED BY <3>2, <3>3, <3>4, <3>5
  <2> QED BY <2>2, <2>3
<1>2. Shrinks(db, db', {})
  BY <1>0, SameShrinks
<1>3. StorePart' /\ DoubtPart'
  <2>1. inDoubt' = inDoubt
    BY <1>0
  <2> QED BY <1>1, <1>2, <2>1, QuietStep
<1>4. req' \in [Req -> Request]
  <2>1. DOMAIN req' = Req /\ req' = [h \in Req |-> req'[h]]
    BY DEF Restart
  <2> QED BY <1>1, <2>1
<1>5. TypeOK'
  BY <1>0, <1>1, <1>4 DEF TypeOK
<1>6. RequestShape'
  BY <1>1 DEF RequestShape
<1>7. SessionShape'
  BY <1>0 DEF SessionShape, Credited
<1> QED BY <1>3, <1>5, <1>6, <1>7 DEF Inv, StorePart, DoubtPart

\* Every step preserves the invariant.
LEMMA NextInv ==
    ASSUME Inv, [Next]_vars
    PROVE  Inv'
<1>1. CASE AdminStep
  BY <1>1, AdminInv
<1>2. ASSUME NEW h \in Req, Arrive(h)
      PROVE  Inv'
  BY <1>2, ArriveInv
<1>3. ASSUME NEW h \in Req, HandlerStep(h)
      PROVE  Inv'
  BY <1>3, NewInternalRoomInviteInv, EnrollFailsInv, EnrollCommitsInv, RecoverAttemptInv,
     RecoverTimesOutInv, RevokeRoomInviteInv DEF HandlerStep
<1>4. ASSUME NEW h \in Req, SessionStep(h)
      PROVE  Inv'
  BY <1>4, SessionInv
<1>5. ASSUME NEW h \in Req, ResolveCommit(h)
      PROVE  Inv'
  BY <1>5, ResolveCommitInv
<1>6. CASE Restart
  BY <1>6, RestartInv
<1>7. CASE UNCHANGED vars
  <2>1. Shrinks(db, db', {}) /\ TypeOK
    BY <1>7, SameShrinks DEF Inv, StoreSound, vars
  <2> QED BY <1>7, <2>1, StoreOnlyStep DEF vars, TypeOK
<1> QED BY <1>1, <1>2, <1>3, <1>4, <1>5, <1>6, <1>7 DEF Next

\* Inv holds in every reachable state, for any number of requests, nodes,
\* invites and networks.
THEOREM ControlInvariant == Spec => []Inv
  BY InitInv, NextInv, PTL DEF Spec

\* The store, the sessions and the handlers keep their types.
THEOREM TypeCorrect == Spec => []TypeOK
<1>1. Inv => TypeOK
  BY DEF Inv
<1> QED BY <1>1, ControlInvariant, PTL

\* The handlers keep the store's invariant however their calls interleave, and
\* whenever the database decides the commits it was left with.
THEOREM StoreSoundAlways == Spec => []StoreSound
<1>1. Inv => StoreSound
  BY DEF Inv
<1> QED BY <1>1, ControlInvariant, PTL

\* An enrollment is stored as a whole or not at all.
THEOREM EnrollmentAtomicAlways == Spec => []EnrollmentAtomic
<1>1. Inv => EnrollmentAtomic
  BY DEF Inv
<1> QED BY <1>1, ControlInvariant, PTL

\* A refused request leaves no session behind.
THEOREM NoGhostSessionAlways == Spec => []NoGhostSession
<1>1. Inv => NoGhostSession
  BY DEF Inv, SessionShape, Credited, NoGhostSession
<1> QED BY <1>1, ControlInvariant, PTL

\* An invite admits one node, whatever the recoveries found out.
THEOREM OneNodePerInviteAlways == Spec => []OneNodePerInvite
<1>1. Inv => OneNodePerInvite
  BY DEF Inv, InvitesSpent, Admitted, OneNodePerInvite
<1> QED BY <1>1, ControlInvariant, PTL

----------------------------------------------------------------------------
\* Answers.

\* Request h is answered with what the store says.
Truthful(h) ==
    /\ req'[h].reply = "created" =>
          /\ NodeExists(db', req'[h].node)
          /\ NodeNetworks(db', req'[h].node) = {req'[h].network}
          /\ req'[h].join =>
                /\ db'.nodes[req'[h].node] = req'[h].key
                /\ db'.memberships[req'[h].network][req'[h].node].address = req'[h].address
    /\ req'[h].reply \in {"conflict", "full", "refused"} /\ req'[h].join =>
          ~NodeExists(db', req'[h].node)

\* The handler of h answers truthfully.
LEMMA HandlerTruthful ==
    ASSUME Inv, NEW h \in Req, HandlerStep(h), req[h].reply = "none"
    PROVE  Truthful(h)
<1>0. RepoInv(db) /\ Shaped(h)
  BY DEF Inv, StoreSound, RequestShape
<1>1. req[h].pc \in Early => ~NodeExists(db, NewNode[h])
  BY DEF Inv, OwnNodes, Early
<1>2. CASE NewInternalRoomInvite(h)
  <2>1. req[h].pc = "invite" /\ req[h].node = NewNode[h] /\ ~NodeExists(db, NewNode[h])
    BY <1>0, <1>1, <1>2 DEF NewInternalRoomInvite, Shaped, Early
  <2>2. Moves(h) /\ req'[h].reply # "created"
    <3>1. CASE req' = [req EXCEPT ![h].pc = "enroll"]
      BY <3>1, StageMoves
    <3>2. CASE Reply(h, "refused")
      BY <3>2, AnswerMoves DEF Reply, Replies
    <3> QED BY <1>2, <3>1, <3>2 DEF NewInternalRoomInvite
  <2>3. ~NodeExists(db', NewNode[h])
    <3>1. \/ db' = CreateInvite(db, req[h].invite, room, req[h].token)
          \/ db' = db
      BY <1>2 DEF NewInternalRoomInvite
    <3>2. db'.nodes = db.nodes
      BY <1>0, <3>1 DEF CreateInvite, RepoInv, Repo
    <3> QED BY <2>1, <3>2 DEF NodeExists
  <2> QED BY <2>1, <2>2, <2>3 DEF Truthful, Moves
<1>3. CASE EnrollFails(h)
  <2>1. req[h].pc = "enroll" /\ db' = db
    BY <1>3 DEF EnrollFails
  <2>2. PICK reply \in {"conflict", "full", "refused"} : FailEnrollment(h, reply)
    BY <1>3 DEF EnrollFails
  <2>3. Moves(h) /\ req'[h].reply = reply
    <3> DEFINE pc == IF req[h].join THEN "revoke" ELSE "done"
    <3>1. pc \in {"enroll", "revoke", "done"} /\ reply \in Replies
      BY DEF Replies
    <3>2. req' = [req EXCEPT ![h].pc = pc, ![h].reply = reply]
      BY <2>2 DEF FailEnrollment
    <3> HIDE DEF pc
    <3> QED BY <3>1, <3>2, AnswerMoves
  <2>4. req[h].join => ~NodeExists(db', req[h].node)
    BY <1>0, <1>1, <2>1 DEF Shaped, Early
  <2> QED BY <2>3, <2>4 DEF Truthful, Moves
<1>4. ASSUME NEW a \in Address, EnrollCommits(h, a)
      PROVE  Truthful(h)
  <2>1. /\ Committed(h, a)
        /\ req'[h].reply = "created" =>
              Admits(db, db', req[h].node, req[h].key, req[h].invite, InviteFor(h), a)
    BY <1>4, EnrollCommitsInv
  <2>2. CASE req'[h].reply = "none"
    BY <2>2 DEF Truthful
  <2>3. CASE req'[h].reply = "created"
    <3> DEFINE d == req[h].node  n == InviteFor(h)
    <3>1. req[h].pc = "enroll" /\ CanAdd(h) /\ CanConsume(h)
      BY <1>4 DEF EnrollCommits
    <3>2. d \in Node /\ req[h].key \in Key /\ req[h].invite \in Invite
      BY <3>1, Claims
    <3>3. n \in Network
      <4>1. WithNode(h).invites = db.invites
        BY <1>0 DEF WithNode, AddNode, RepoInv, Repo
      <4>2. db.invites[req[h].invite].state = "unused"
        BY <3>1, <4>1 DEF CanConsume, CanConsumeInvite
      <4> QED BY <1>0, <3>2, <4>2 DEF InviteFor, RepoInv, InvitesAccounted
    <3>4. ~NodeExists(db, d) /\ \A m \in Network : ~IsMember(db, m, d)
      BY <1>0, <3>1, <3>2 DEF CanAdd, CanAddNode, RepoInv, AddressesExclusive
    <3>5. /\ db'.nodes[d] = req[h].key
          /\ db'.memberships[n][d] = [address |-> a, status |-> "active"]
          /\ \A m \in Network : m # n => db'.memberships[m][d] = db.memberships[m][d]
      BY <2>1, <2>3, <3>2, <3>3 DEF Admits
    <3>6. NodeExists(db', d)
      BY <3>2, <3>5, NoneAssumption DEF NodeExists
    <3>7. NodeNetworks(db', d) = {n} /\ db'.memberships[n][d].address = a
      BY <3>3, <3>4, <3>5 DEF NodeNetworks, IsMember
    <3> QED BY <2>1, <2>3, <3>5, <3>6, <3>7 DEF Committed, Truthful
  <2> QED BY <2>1, <2>2, <2>3 DEF Committed
<1>5. CASE RecoverAttempt(h)
  <2>1. req[h].pc = "recover" /\ db' = db /\ (OwnNode(h) \/ ~req[h].join)
    BY <1>0, <1>5 DEF RecoverAttempt, Shaped, OwnNode
  <2>2. ASSUME Present(h), Reply(h, "created")
        PROVE  Truthful(h)
    <3>1. Moves(h) /\ req'[h].reply = "created"
      BY <2>2, AnswerMoves DEF Reply, Replies
    <3>2. NodeExists(db, req[h].node) /\ NodeNetworks(db, req[h].node) = {req[h].network}
      BY <2>2 DEF Present
    <3>3. OwnNode(h) =>
            /\ db.nodes[req[h].node] = req[h].key
            /\ db.memberships[req[h].network][req[h].node].address = req[h].address
      BY <3>2 DEF Inv, OwnNodes, OwnNode
    <3> QED BY <2>1, <3>1, <3>2, <3>3 DEF Truthful, Moves
  <2>3. ASSUME NEW unsure \in BOOLEAN, ~LastRound(h),
               req' = [req EXCEPT ![h].attempt = @ + 1, ![h].uncertain = @ \/ unsure]
        PROVE  Truthful(h)
    <3>1. req'[h].reply = "none"
      BY <2>1, <2>3, RoundMoves
    <3> QED BY <3>1 DEF Truthful
  <2>4. CASE RecoverAbsent(h)
    <3> DEFINE pc == IF req[h].join THEN "revoke" ELSE "done"
    <3>1. pc \in {"enroll", "revoke", "done"} /\ "refused" \in Replies
      BY DEF Replies
    <3>2. req' = [req EXCEPT ![h].pc = pc, ![h].reply = "refused"]
      BY <2>4 DEF RecoverAbsent, FailEnrollment
    <3>3. Moves(h) /\ req'[h].reply = "refused"
      <4> HIDE DEF pc
      <4> QED BY <3>1, <3>2, AnswerMoves
    <3>4. ~NodeExists(db, req[h].node)
      BY <2>4 DEF RecoverAbsent, Absent
    <3> QED BY <2>1, <3>3, <3>4 DEF Truthful, Moves
  <2>5. CASE Reply(h, "pending")
    <3>1. req'[h].reply = "pending"
      BY <2>5, AnswerMoves DEF Reply, Replies
    <3> QED BY <3>1 DEF Truthful
  <2> QED BY <1>5, <2>2, <2>3, <2>4, <2>5 DEF RecoverAttempt
<1>6. CASE RecoverTimesOut(h)
  <2>1. req'[h].reply = "pending"
    BY <1>6, AnswerMoves DEF RecoverTimesOut, Reply, Replies
  <2> QED BY <2>1 DEF Truthful
<1>7. CASE RevokeRoomInvite(h)
  <2>1. req'[h].reply = "none"
    BY <1>7, StageMoves DEF RevokeRoomInvite
  <2> QED BY <2>1 DEF Truthful
<1> QED BY <1>2, <1>3, <1>4, <1>5, <1>6, <1>7 DEF HandlerStep

\* No other step answers h.
LEMMA OthersSilent ==
    ASSUME Inv, [Next]_vars, NEW h \in Req, ~HandlerStep(h), req[h].reply = "none"
    PROVE  req'[h].reply \in {"none", "lost"}
<1>0. req \in [Req -> Request]
  BY DEF Inv, TypeOK
<1>1. CASE req' = req
  BY <1>1
<1>2. ASSUME NEW g \in Req, Arrive(g)
      PROVE  req'[h].reply = "none"
  <2>1. CASE g = h
    <3>1. ASSUME NEW k \in KeysOf[h], JoinRoom(h, k)
          PROVE  req'[h].reply = "none"
      BY <1>0, <3>1 DEF JoinRoom, Request
    <3>2. ASSUME NEW k, NEW i, NEW d, EnrollRequest(h, k, i, d)
          PROVE  req'[h].reply = "none"
      BY <1>0, <3>2 DEF EnrollRequest, Request
    <3> QED BY <1>2, <2>1, <3>1, <3>2 DEF Arrive
  <2>2. CASE g # h
    BY <1>0, <1>2, <2>2 DEF Arrive, JoinRoom, EnrollRequest
  <2> QED BY <2>1, <2>2
<1>3. ASSUME NEW g \in Req, HandlerStep(g)
      PROVE  req'[h].reply = "none"
  <2>1. g # h
    BY <1>3
  <2>2. req'[h] = req[h]
    BY <1>0, <1>3, <2>1 DEF HandlerStep, NewInternalRoomInvite, EnrollFails, EnrollCommits,
       RecoverAttempt, RecoverTimesOut, RevokeRoomInvite, Reply, FailEnrollment, RecoverAbsent
  <2> QED BY <2>2
<1>4. CASE Restart
  <2>1. \/ req'[h] = req[h]
        \/ req'[h] = [req[h] EXCEPT !.pc = "done", !.reply = "lost"]
    BY <1>4 DEF Restart
  <2> QED BY <1>0, <2>1 DEF Request
<1>5. CASE AdminStep
  BY <1>5, <1>1 DEF AdminStep, CreateRoom, CreateNetworkRequest, CreateInviteRequest,
     RevokeNetwork, DeleteNode
<1>6. ASSUME NEW g \in Req, SessionStep(g) \/ ResolveCommit(g)
      PROVE  req' = req
  BY <1>6 DEF SessionStep, LeaveNode, Heartbeat, ExpireSession, ResolveCommit
<1>7. CASE UNCHANGED vars
  BY <1>7 DEF vars
<1> QED BY <1>1, <1>2, <1>3, <1>4, <1>5, <1>6, <1>7 DEF Next

\* The answer says what the store says when it is given.
THEOREM AnswersTruthfulAlways == Spec => AnswersTruthful
<1> DEFINE A == \A h \in Req : req[h].reply = "none" =>
         /\ req'[h].reply = "created" =>
               /\ NodeExists(db', req'[h].node)
               /\ NodeNetworks(db', req'[h].node) = {req'[h].network}
               /\ req'[h].join =>
                     /\ db'.nodes[req'[h].node] = req'[h].key
                     /\ db'.memberships[req'[h].network][req'[h].node].address = req'[h].address
         /\ req'[h].reply \in {"conflict", "full", "refused"} /\ req'[h].join =>
               ~NodeExists(db', req'[h].node)
<1>1. ASSUME Inv, [Next]_vars
      PROVE  A
  <2> SUFFICES ASSUME NEW h \in Req, req[h].reply = "none"
               PROVE  Truthful(h)
    BY DEF Truthful
  <2>1. CASE HandlerStep(h)
    BY <1>1, <2>1, HandlerTruthful
  <2>2. CASE ~HandlerStep(h)
    <3>1. req'[h].reply \in {"none", "lost"}
      BY <1>1, <2>2, OthersSilent
    <3> QED BY <3>1 DEF Truthful
  <2> QED BY <2>1, <2>2
<1> HIDE DEF A
<1>2. Inv /\ [Next]_vars => [A]_vars
  BY <1>1
<1>3. Spec => [][A]_vars
  BY <1>2, ControlInvariant, PTL DEF Spec
<1>4. AnswersTruthful <=> [][A]_vars
  BY PTL DEF AnswersTruthful, A
<1> QED BY <1>3, <1>4, PTL

=============================================================================
