------------------------- MODULE PostgresStoreProofs -------------------------
(***************************************************************************)
(* The transactions of PostgresStore.  Inv is inductive; from it follow    *)
(* that every commit is one change of AtomicStore, that no version moves   *)
(* without its row lock, that no transactions wait in a circle, and that   *)
(* a snapshot is one store's.                                              *)
(*                                                                         *)
(* Frame(r, q, T) says what a commit that writes the rows T leaves alone,  *)
(* as far as another transaction can have relied on it.  Each kind of call *)
(* commits within the frame of the rows it holds (first part), so whatever *)
(* a transaction has found out under its own locks survives the steps of   *)
(* the others (second part).                                               *)
(***************************************************************************)
EXTENDS PostgresStore, RepositoryOpsProofs, FiniteSetTheorems

----------------------------------------------------------------------------
\* What a commit leaves alone.

\* The members of network n, and what is stored of them, are the same.
SameMembers(r, q, n) ==
    \A d \in Node :
        /\ q.memberships[n][d].status = r.memberships[n][d].status
        /\ IsMember(r, n, d) => q.memberships[n][d] = r.memberships[n][d]

\* A commit that writes rows T, from store r to store q.
Frame(r, q, T) ==
    /\ \A d \in Node : <<"node", d>> \notin T /\ NodeExists(r, d) =>
          /\ NodeExists(q, d)
          /\ \A n \in Network : q.memberships[n][d].status = r.memberships[n][d].status
    /\ \A d \in Node : <<"id", d>> \notin T /\ ~NodeExists(r, d) => ~NodeExists(q, d)
    /\ \A k \in Key : <<"key", k>> \notin T /\ r.publicKeys[k] = None => q.publicKeys[k] = None
    /\ \A n \in Network : NetworkExists(r, n) => NetworkExists(q, n)
    /\ \A n \in Network : <<"network", n>> \notin T =>
          /\ q.version[n] = r.version[n]
          /\ \A d \in Node : q.relayAssignments[n][d] = r.relayAssignments[n][d]
          /\ SameMembers(r, q, n)
    /\ \A i \in Invite : <<"invite", i>> \notin T =>
          q.invites[i].state = r.invites[i].state /\ q.invites[i].network = r.invites[i].network
    /\ \A t \in Token : <<"token", t>> \notin T /\ r.inviteByToken[t] = None =>
          q.inviteByToken[t] = None
    /\ \A a \in Assignment : <<"relay", a>> \notin T =>
          q.relayAssignmentOwners[a] \in {r.relayAssignmentOwners[a], NoOwner}

\* A statement that writes nothing.
LEMMA SameFrame ==
    ASSUME NEW r, NEW T
    PROVE  Frame(r, r, T)
  BY DEF Frame, SameMembers

\* incrementNetworkVersionLocked on locked networks stays within the frame.
LEMMA BumpFrame ==
    ASSUME NEW r, r \in Repo, NEW w, w \in Repo, NEW T, NEW ns \in SUBSET Network,
           w.version = r.version, Frame(r, w, T),
           \A n \in ns : <<"network", n>> \in T
    PROVE  Frame(r, Bump(w, ns), T)
<1> DEFINE s == Bump(w, ns)
           v == [n \in Network |-> IF n \in ns THEN w.version[n] + 1 ELSE w.version[n]]
<1>1. /\ s.nodes = w.nodes /\ s.publicKeys = w.publicKeys
      /\ s.memberships = w.memberships /\ s.invites = w.invites
      /\ s.inviteByToken = w.inviteByToken /\ s.relayAssignments = w.relayAssignments
      /\ s.relayAssignmentOwners = w.relayAssignmentOwners /\ s.version = v
  BY DEF Bump, Repo
<1>2. /\ \A n \in Network : r.version[n] > 0 => v[n] > 0
      /\ \A n \in Network : n \notin ns => v[n] = r.version[n]
  BY DEF Repo
<1> HIDE DEF s, v
<1>3. Frame(r, s, T)
  BY <1>1, <1>2 DEF Frame, SameMembers, NodeExists, NetworkExists, IsMember
<1> QED BY <1>3 DEF s

\* A membership is written under the locks of its node and its network.
LEMMA AddMembershipFrame ==
    ASSUME NEW r, r \in Repo, NEW n \in Network, NEW d \in Node, NEW a \in Address, NEW T,
           <<"node", d>> \in T \/ ~NodeExists(r, d), <<"network", n>> \in T
    PROVE  Frame(r, AddMembership(r, n, d, a, "active"), T)
<1> DEFINE rec == [address |-> a, status |-> "active"]
           w == [r EXCEPT !.memberships[n][d] = rec]
<1>1. rec \in MembershipRecord
  BY DEF MembershipRecord
<1>2. AddMembership(r, n, d, a, "active") = Bump(w, {n})
  BY DEF AddMembership
<1> HIDE DEF rec
<1>3. w \in Repo
  BY <1>1 DEF Repo
<1>4. /\ w.version = r.version /\ w.nodes = r.nodes /\ w.publicKeys = r.publicKeys
      /\ w.invites = r.invites /\ w.inviteByToken = r.inviteByToken
      /\ w.relayAssignments = r.relayAssignments
      /\ w.relayAssignmentOwners = r.relayAssignmentOwners
      /\ \A m \in Network, o \in Node : m # n \/ o # d =>
            w.memberships[m][o] = r.memberships[m][o]
  BY DEF Repo
<1> HIDE DEF w
<1>5. Frame(r, w, T)
  BY <1>4 DEF Frame, SameMembers, NodeExists, NetworkExists, IsMember
<1> QED BY <1>2, <1>3, <1>4, <1>5, BumpFrame

\* What deleting the assignments of the nodes gone[n] leaves alone.
LEMMA DropFields ==
    ASSUME NEW r, RepoInv(r), NEW gone \in [Network -> SUBSET Node],
           \A n \in Network : \A t \in gone[n] : HasAssignment(r, n, t)
    PROVE  LET q == DropAssignments(r, gone)
           IN  /\ q \in Repo
               /\ q.version = r.version /\ q.nodes = r.nodes
               /\ q.publicKeys = r.publicKeys /\ q.memberships = r.memberships
               /\ q.invites = r.invites /\ q.inviteByToken = r.inviteByToken
               /\ \A n \in Network : gone[n] = {} =>
                     \A d \in Node : q.relayAssignments[n][d] = r.relayAssignments[n][d]
               /\ \A a \in Assignment :
                     q.relayAssignmentOwners[a] \in {r.relayAssignmentOwners[a], NoOwner}
<1> DEFINE q == DropAssignments(r, gone)
<1>1. /\ RepoInv(q)
      /\ q.version = r.version /\ q.nodes = r.nodes
      /\ q.publicKeys = r.publicKeys /\ q.memberships = r.memberships
      /\ q.invites = r.invites /\ q.inviteByToken = r.inviteByToken
      /\ \A n \in Network, t \in Node :
            q.relayAssignments[n][t] =
               IF t \in gone[n] THEN AbsentAssignment ELSE r.relayAssignments[n][t]
  BY DropAssignmentsInv
<1>2. \A a \in Assignment : q.relayAssignmentOwners[a] \in {r.relayAssignmentOwners[a], NoOwner}
  BY DEF DropAssignments, RepoInv, Repo
<1> HIDE DEF q
<1>3. q \in Repo
  BY <1>1 DEF RepoInv
<1> QED BY <1>1, <1>2, <1>3 DEF q

\* RemoveMembership.
LEMMA RemoveMembershipFrame ==
    ASSUME NEW r, RepoInv(r), NEW n \in Network, NEW d \in Node, NEW T,
           <<"node", d>> \in T, <<"network", n>> \in T
    PROVE  Frame(r, RemoveMembership(r, n, d), T)
<1> DEFINE gone == [m \in Network |-> IF m = n THEN Involving(r, n, d) ELSE {}]
           q == DropAssignments(r, gone)
           w == [q EXCEPT !.memberships[n][d] = AbsentMembership]
<1>1. gone \in [Network -> SUBSET Node]
  BY DEF Involving
<1>2. \A m \in Network : \A t \in gone[m] : HasAssignment(r, m, t)
  BY DEF Involving
<1>3. \A m \in Network : m # n => gone[m] = {}
  OBVIOUS
<1>4. RemoveMembership(r, n, d) = Bump(w, {n})
  BY DEF RemoveMembership
<1> HIDE DEF gone
<1>5. /\ q \in Repo
      /\ q.version = r.version /\ q.nodes = r.nodes
      /\ q.publicKeys = r.publicKeys /\ q.memberships = r.memberships
      /\ q.invites = r.invites /\ q.inviteByToken = r.inviteByToken
      /\ \A m \in Network : gone[m] = {} =>
            \A o \in Node : q.relayAssignments[m][o] = r.relayAssignments[m][o]
      /\ \A a \in Assignment :
            q.relayAssignmentOwners[a] \in {r.relayAssignmentOwners[a], NoOwner}
  BY <1>1, <1>2, DropFields
<1>6. AbsentMembership \in MembershipRecord
  BY DEF AbsentMembership, MembershipRecord
<1> HIDE DEF q
<1>7. w \in Repo
  BY <1>5, <1>6 DEF Repo
<1>8. /\ w.version = q.version /\ w.nodes = q.nodes /\ w.publicKeys = q.publicKeys
      /\ w.invites = q.invites /\ w.inviteByToken = q.inviteByToken
      /\ w.relayAssignments = q.relayAssignments
      /\ w.relayAssignmentOwners = q.relayAssignmentOwners
      /\ \A m \in Network, o \in Node : m # n \/ o # d =>
            w.memberships[m][o] = q.memberships[m][o]
  BY <1>5 DEF Repo
<1> HIDE DEF w
<1>9. Frame(r, w, T)
  BY <1>3, <1>5, <1>8 DEF Frame, SameMembers, NodeExists, NetworkExists, IsMember
<1>10. r \in Repo
  BY DEF RepoInv
<1> QED BY <1>4, <1>5, <1>7, <1>8, <1>9, <1>10, BumpFrame

\* A node's relay assignments are in networks it is a member of, so the networks
\* RemoveNode's first query finds are the node's own.
LEMMA InvolvedAreMembers ==
    ASSUME NEW r, RepoInv(r), NEW n \in Network, NEW d \in Node
    PROVE  Involving(r, n, d) # {} => IsMember(r, n, d)
  BY DEF RepoInv, RelaysAreMembers, Involving, IsActive, IsMember

\* RemoveNode.
LEMMA RemoveNodeFrame ==
    ASSUME NEW r, RepoInv(r), NEW d \in Node, NEW T, <<"node", d>> \in T,
           \A n \in NodeNetworks(r, d) : <<"network", n>> \in T
    PROVE  /\ Frame(r, RemoveNode(r, d), T)
           /\ RemoveNode(r, d) =
                 [RemoveNode(r, d) EXCEPT !.version = Bump(r, NodeNetworks(r, d)).version]
<1> DEFINE gone == [n \in Network |-> Involving(r, n, d)]
           affected == {n \in Network : IsMember(r, n, d) \/ gone[n] # {}}
           q == DropAssignments(r, gone)
           inv == [i \in Invite |->
                      IF r.invites[i].by = d THEN [r.invites[i] EXCEPT !.by = None]
                                             ELSE r.invites[i]]
           mem == [n \in Network |-> [r.memberships[n] EXCEPT ![d] = AbsentMembership]]
           w == [q EXCEPT !.nodes[d] = None, !.publicKeys[r.nodes[d]] = None,
                          !.endpoints[d] = [e \in Endpoint |-> "none"],
                          !.invites = inv, !.memberships = mem]
<1>1. gone \in [Network -> SUBSET Node]
  BY DEF Involving
<1>2. \A m \in Network : \A t \in gone[m] : HasAssignment(r, m, t)
  BY DEF Involving
<1>3. affected = NodeNetworks(r, d) /\ affected \in SUBSET Network
  BY InvolvedAreMembers DEF NodeNetworks
<1>4. RemoveNode(r, d) = Bump(w, affected)
  BY DEF RemoveNode
<1>5. \A m \in Network : ~IsMember(r, m, d) => gone[m] = {}
  BY InvolvedAreMembers
<1>6. r \in Repo
  BY DEF RepoInv
<1>7. inv \in [Invite -> InviteRecord]
  <2> SUFFICES ASSUME NEW i \in Invite
               PROVE  inv[i] \in InviteRecord
    OBVIOUS
  <2>1. r.invites[i] \in InviteRecord
    BY <1>6 DEF Repo
  <2>2. [r.invites[i] EXCEPT !.by = None] \in InviteRecord
    BY <2>1 DEF InviteRecord
  <2> QED BY <2>1, <2>2
<1>8. \A i \in Invite : inv[i].state = r.invites[i].state /\ inv[i].network = r.invites[i].network
  <2> TAKE i \in Invite
  <2>1. r.invites[i] \in InviteRecord
    BY <1>6 DEF Repo
  <2>2. LET c == [r.invites[i] EXCEPT !.by = None]
        IN  c.state = r.invites[i].state /\ c.network = r.invites[i].network
    BY <2>1 DEF InviteRecord
  <2> QED BY <2>2
<1>9. mem \in [Network -> [Node -> MembershipRecord]]
  <2>1. AbsentMembership \in MembershipRecord
    BY DEF AbsentMembership, MembershipRecord
  <2> QED BY <1>6, <2>1 DEF Repo
<1>10. \A n \in Network, o \in Node : mem[n][o] =
          IF o = d THEN AbsentMembership ELSE r.memberships[n][o]
  BY <1>6 DEF Repo
<1> HIDE DEF gone
<1>11. /\ q \in Repo
       /\ q.version = r.version /\ q.nodes = r.nodes
       /\ q.publicKeys = r.publicKeys /\ q.memberships = r.memberships
       /\ q.invites = r.invites /\ q.inviteByToken = r.inviteByToken
       /\ \A m \in Network : gone[m] = {} =>
             \A o \in Node : q.relayAssignments[m][o] = r.relayAssignments[m][o]
       /\ \A a \in Assignment :
             q.relayAssignmentOwners[a] \in {r.relayAssignmentOwners[a], NoOwner}
  BY <1>1, <1>2, DropFields
<1> HIDE DEF q, inv, mem
<1>12. w \in Repo
  <2>1. [e \in Endpoint |-> "none"] \in [Endpoint -> Observation]
    BY DEF Observation
  <2> QED BY <1>7, <1>9, <1>11, <2>1 DEF Repo
<1>13. /\ w.version = r.version
       /\ \A o \in Node : o # d => w.nodes[o] = r.nodes[o]
       /\ w.nodes[d] = None
       /\ \A k \in Key : w.publicKeys[k] \in {r.publicKeys[k], None}
       /\ w.memberships = mem /\ w.invites = inv /\ w.inviteByToken = r.inviteByToken
       /\ w.relayAssignments = q.relayAssignments
       /\ w.relayAssignmentOwners = q.relayAssignmentOwners
  BY <1>6, <1>11 DEF Repo
<1> HIDE DEF w, affected
<1>14. Frame(r, w, T)
  <2>1. \A m \in Network : <<"network", m>> \notin T => ~IsMember(r, m, d)
    BY DEF NodeNetworks
  <2>2. \A m \in Network : ~IsMember(r, m, d) => SameMembers(r, w, m)
    BY <1>10, <1>13 DEF SameMembers, IsMember, AbsentMembership
  <2>3. \A m \in Network, o \in Node : o # d =>
           w.memberships[m][o].status = r.memberships[m][o].status
    BY <1>10, <1>13
  <2> QED BY <2>1, <2>2, <2>3, <1>5, <1>8, <1>11, <1>13
          DEF Frame, NodeExists, NetworkExists
<1>15. Frame(r, RemoveNode(r, d), T)
  BY <1>3, <1>4, <1>6, <1>12, <1>13, <1>14, BumpFrame
<1>16. Bump(w, affected).version = Bump(r, affected).version
  BY <1>6, <1>12, <1>13 DEF Bump, Repo
<1>17. Bump(w, affected) = [Bump(w, affected) EXCEPT !.version = Bump(r, affected).version]
  BY <1>12, <1>16 DEF Bump, Repo
<1> QED BY <1>3, <1>4, <1>15, <1>17

\* CreateInvite holds the rows of the new invite and of its token.
LEMMA CreateInviteFrame ==
    ASSUME NEW r, r \in Repo, NEW i \in Invite, NEW n \in Network, NEW t \in Token, NEW T,
           <<"invite", i>> \in T, <<"token", t>> \in T
    PROVE  Frame(r, CreateInvite(r, i, n, t), T)
<1> DEFINE s == CreateInvite(r, i, n, t)
<1>1. /\ s.version = r.version /\ s.nodes = r.nodes /\ s.publicKeys = r.publicKeys
      /\ s.memberships = r.memberships /\ s.relayAssignments = r.relayAssignments
      /\ s.relayAssignmentOwners = r.relayAssignmentOwners
      /\ \A j \in Invite : j # i => s.invites[j] = r.invites[j]
      /\ \A u \in Token : u # t => s.inviteByToken[u] = r.inviteByToken[u]
  BY DEF CreateInvite, Repo
<1> HIDE DEF s
<1>2. Frame(r, s, T)
  BY <1>1 DEF Frame, SameMembers, NodeExists, NetworkExists, IsMember
<1> QED BY <1>2 DEF s

\* RevokeInvite and ConsumeInvite hold the invite's row.
LEMMA MarkInviteFrame ==
    ASSUME NEW r, r \in Repo, NEW i \in Invite, NEW rec, NEW T, <<"invite", i>> \in T
    PROVE  Frame(r, [r EXCEPT !.invites[i] = rec], T)
<1> DEFINE s == [r EXCEPT !.invites[i] = rec]
<1>1. /\ s.version = r.version /\ s.nodes = r.nodes /\ s.publicKeys = r.publicKeys
      /\ s.memberships = r.memberships /\ s.relayAssignments = r.relayAssignments
      /\ s.relayAssignmentOwners = r.relayAssignmentOwners
      /\ s.inviteByToken = r.inviteByToken
      /\ \A j \in Invite : j # i => s.invites[j] = r.invites[j]
  BY DEF Repo
<1> HIDE DEF s
<1>2. Frame(r, s, T)
  BY <1>1 DEF Frame, SameMembers, NodeExists, NetworkExists, IsMember
<1> QED BY <1>2 DEF s

\* RevokeInvite writes the invite's row.
LEMMA RevokeInviteFrame ==
    ASSUME NEW r, r \in Repo, NEW i \in Invite, NEW T, <<"invite", i>> \in T
    PROVE  Frame(r, RevokeInvite(r, i), T)
<1>1. RevokeInvite(r, i) = [r EXCEPT !.invites[i] = [r.invites[i] EXCEPT !.state = "revoked"]]
  BY DEF RevokeInvite, Repo
<1> QED BY <1>1, MarkInviteFrame

\* ConsumeInviteForNode writes the invite's row.
LEMMA ConsumeInviteFrame ==
    ASSUME NEW r, r \in Repo, NEW i \in Invite, NEW d, NEW T, <<"invite", i>> \in T
    PROVE  Frame(r, ConsumeInviteForNode(r, i, d), T)
<1>1. ConsumeInviteForNode(r, i, d) =
         [r EXCEPT !.invites[i] = [r.invites[i] EXCEPT !.state = "consumed", !.by = d]]
  BY DEF ConsumeInviteForNode, Repo
<1> QED BY <1>1, MarkInviteFrame

\* ReplaceEndpoints advances the node's networks.
LEMMA ReplaceEndpointsFrame ==
    ASSUME NEW r, r \in Repo, NEW d \in Node, NEW observed \in [Endpoint -> Observation],
           NEW T, \A n \in NodeNetworks(r, d) : <<"network", n>> \in T
    PROVE  Frame(r, ReplaceEndpoints(r, d, observed), T)
<1> DEFINE w == [r EXCEPT !.endpoints[d] = observed]
<1>1. ReplaceEndpoints(r, d, observed) = Bump(w, NodeNetworks(r, d))
  BY DEF ReplaceEndpoints
<1>2. w \in Repo
  BY DEF Repo
<1>3. /\ w.version = r.version /\ w.nodes = r.nodes /\ w.publicKeys = r.publicKeys
      /\ w.memberships = r.memberships /\ w.relayAssignments = r.relayAssignments
      /\ w.relayAssignmentOwners = r.relayAssignmentOwners
      /\ w.inviteByToken = r.inviteByToken /\ w.invites = r.invites
  BY DEF Repo
<1>4. NodeNetworks(r, d) \in SUBSET Network
  BY DEF NodeNetworks
<1> HIDE DEF w
<1>5. Frame(r, w, T)
  BY <1>3 DEF Frame, SameMembers, NodeExists, NetworkExists, IsMember
<1> QED BY <1>1, <1>2, <1>3, <1>4, <1>5, BumpFrame

\* SetRelayAssignment holds its network and the row of the assignment.
LEMMA SetRelayAssignmentFrame ==
    ASSUME NEW r, r \in Repo, NEW n \in Network, NEW d \in Node, NEW a \in Assignment,
           NEW relay \in Node, NEW T, <<"network", n>> \in T, <<"relay", a>> \in T
    PROVE  Frame(r, SetRelayAssignment(r, n, d, a, relay, "live"), T)
<1> DEFINE previous == r.relayAssignments[n][d].id
           rec == [id |-> a, relay |-> relay, state |-> "live"]
           owners == [b \in Assignment |-> IF b = a THEN [network |-> n, node |-> d]
                                           ELSE IF b = previous THEN NoOwner
                                           ELSE r.relayAssignmentOwners[b]]
           w == [r EXCEPT !.relayAssignments[n][d] = rec, !.relayAssignmentOwners = owners]
<1>1. SetRelayAssignment(r, n, d, a, relay, "live") = Bump(w, {n})
  BY DEF SetRelayAssignment
<1>2. rec \in AssignmentRecord
  BY DEF AssignmentRecord
<1>3. owners \in [Assignment -> OwnerRecord]
  <2>1. NoOwner \in OwnerRecord /\ [network |-> n, node |-> d] \in OwnerRecord
    BY DEF NoOwner, OwnerRecord
  <2>2. r.relayAssignmentOwners \in [Assignment -> OwnerRecord]
    BY DEF Repo
  <2> HIDE DEF previous
  <2> QED BY <2>1, <2>2
<1>4. \A b \in Assignment : b # a => owners[b] \in {r.relayAssignmentOwners[b], NoOwner}
  OBVIOUS
<1> HIDE DEF rec, owners
<1>5. w \in Repo
  BY <1>2, <1>3 DEF Repo
<1>6. /\ w.version = r.version /\ w.nodes = r.nodes /\ w.publicKeys = r.publicKeys
      /\ w.memberships = r.memberships
      /\ w.relayAssignmentOwners = owners
      /\ w.inviteByToken = r.inviteByToken /\ w.invites = r.invites
      /\ \A m \in Network, o \in Node : m # n =>
            w.relayAssignments[m][o] = r.relayAssignments[m][o]
  BY DEF Repo
<1> HIDE DEF w
<1>7. Frame(r, w, T)
  BY <1>4, <1>6 DEF Frame, SameMembers, NodeExists, NetworkExists, IsMember
<1> QED BY <1>1, <1>5, <1>6, <1>7, BumpFrame

\* RemoveRelayAssignment.
LEMMA RemoveRelayAssignmentFrame ==
    ASSUME NEW r, RepoInv(r), NEW n \in Network, NEW T, <<"network", n>> \in T
    PROVE  Frame(r, RemoveRelayAssignment(r, n), T)
<1> DEFINE gone == [m \in Network |->
                      IF m = n THEN {t \in Node : HasAssignment(r, n, t)} ELSE {}]
           q == DropAssignments(r, gone)
<1>1. gone \in [Network -> SUBSET Node]
  OBVIOUS
<1>2. \A m \in Network : \A t \in gone[m] : HasAssignment(r, m, t)
  OBVIOUS
<1>3. \A m \in Network : m # n => gone[m] = {}
  OBVIOUS
<1>4. RemoveRelayAssignment(r, n) = Bump(q, {n})
  BY DEF RemoveRelayAssignment
<1> HIDE DEF gone
<1>5. /\ q \in Repo
      /\ q.version = r.version /\ q.nodes = r.nodes
      /\ q.publicKeys = r.publicKeys /\ q.memberships = r.memberships
      /\ q.invites = r.invites /\ q.inviteByToken = r.inviteByToken
      /\ \A m \in Network : gone[m] = {} =>
            \A o \in Node : q.relayAssignments[m][o] = r.relayAssignments[m][o]
      /\ \A a \in Assignment :
            q.relayAssignmentOwners[a] \in {r.relayAssignmentOwners[a], NoOwner}
  BY <1>1, <1>2, DropFields
<1> HIDE DEF q
<1>6. Frame(r, q, T)
  BY <1>3, <1>5 DEF Frame, SameMembers, NodeExists, NetworkExists, IsMember
<1>7. r \in Repo
  BY DEF RepoInv
<1> QED BY <1>4, <1>5, <1>6, <1>7, BumpFrame

\* Two writes one after the other.
LEMMA FrameTransitive ==
    ASSUME NEW r, NEW p, NEW q, NEW T, Frame(r, p, T), Frame(p, q, T)
    PROVE  Frame(r, q, T)
  BY DEF Frame, SameMembers, IsMember

\* The checks of an enrollment that holds its index entries, its invite and its
\* network: each statement of enrollControl's transaction succeeds.
LEMMA EnrollChecks ==
    ASSUME NEW r, RepoInv(r), NEW d \in Node, NEW k \in Key, NEW i \in Invite,
           NEW n \in Network, NEW a \in Address, CanAddNode(r, d, k),
           r.invites[i].state = "unused", r.invites[i].network = n, NetworkExists(r, n),
           a \in Pool[n], \A o \in Node : IsMember(r, n, o) => r.memberships[n][o].address # a
    PROVE  LET p == AddNode(r, d, k)
               q == ConsumeInviteForNode(p, i, d)
               t == r.invites[i].token
           IN  /\ t \in Token
               /\ RepoInv(p) /\ CanConsumeInvite(p, i, t, i, d)
               /\ RepoInv(q) /\ CanAddMembership(q, n, d, a)
<1> DEFINE p == AddNode(r, d, k)
           q == ConsumeInviteForNode(p, i, d)
           t == r.invites[i].token
<1>1. r \in Repo /\ RepoInv(p) /\ t \in Token
  BY AddNodeInv DEF RepoInv, InvitesAccounted
<1>2. /\ p.nodes = [r.nodes EXCEPT ![d] = k]
      /\ p.memberships = r.memberships /\ p.invites = r.invites /\ p.version = r.version
  BY <1>1 DEF AddNode, Repo
<1>3. NodeExists(p, d)
  BY <1>1, <1>2, NoneAssumption DEF NodeExists, Repo
<1> HIDE DEF p
<1>4. CanConsumeInvite(p, i, t, i, d)
  BY <1>1, <1>2, <1>3 DEF CanConsumeInvite, InviteByLookup
<1>5. RepoInv(q)
  BY <1>1, <1>4, ConsumeInviteInv
<1>6. q.nodes = p.nodes /\ q.memberships = p.memberships /\ q.version = p.version
  BY <1>1 DEF ConsumeInviteForNode, RepoInv, Repo
<1>7. ~IsMember(r, n, d)
  BY DEF RepoInv, AddressesExclusive, CanAddNode
<1> HIDE DEF q
<1>8. CanAddMembership(q, n, d, a)
  BY <1>2, <1>3, <1>6, <1>7 DEF CanAddMembership, NetworkExists, NodeExists, IsMember
<1> QED BY <1>1, <1>4, <1>5, <1>8 DEF p, q

\* The instance of AtomicStore computes with the same operators.
LEMMA EnrolledComposes ==
    ASSUME NEW r, NEW d, NEW k, NEW i, NEW n, NEW a
    PROVE  Atomic!Enrolled(r, d, k, i, n, a) =
              AddMembership(ConsumeInviteForNode(AddNode(r, d, k), i, d), n, d, a, "active")
  BY DEF Atomic!Enrolled, Atomic!AddMembership, Atomic!ConsumeInviteForNode, Atomic!AddNode,
         Atomic!Bump, AddMembership, ConsumeInviteForNode, AddNode, Bump

\* Enrollment.  The node it adds is nobody else's to rely on: it did not exist.
LEMMA EnrolledFrame ==
    ASSUME NEW r, RepoInv(r), NEW d \in Node, NEW k \in Key, NEW i \in Invite,
           NEW n \in Network, NEW a \in Address, CanAddNode(r, d, k),
           r.invites[i].state = "unused", r.invites[i].network = n, NetworkExists(r, n),
           a \in Pool[n], \A o \in Node : IsMember(r, n, o) => r.memberships[n][o].address # a,
           NEW T, <<"id", d>> \in T, <<"key", k>> \in T, <<"invite", i>> \in T,
           <<"network", n>> \in T
    PROVE  /\ RepoInv(Atomic!Enrolled(r, d, k, i, n, a))
           /\ Frame(r, Atomic!Enrolled(r, d, k, i, n, a), T)
<1> DEFINE p == AddNode(r, d, k)
           q == ConsumeInviteForNode(p, i, d)
           s == AddMembership(q, n, d, a, "active")
           W == T \cup {<<"node", d>>}
<1>1. RepoInv(p) /\ RepoInv(q) /\ CanAddMembership(q, n, d, a)
  BY EnrollChecks
<1>2. r \in Repo
  BY DEF RepoInv
<1>3. /\ p.version = r.version /\ p.memberships = r.memberships /\ p.invites = r.invites
      /\ p.inviteByToken = r.inviteByToken /\ p.relayAssignments = r.relayAssignments
      /\ p.relayAssignmentOwners = r.relayAssignmentOwners
      /\ \A o \in Node : o # d => p.nodes[o] = r.nodes[o]
      /\ \A j \in Key : j # k => p.publicKeys[j] = r.publicKeys[j]
  BY <1>2 DEF AddNode, Repo
<1>4. ~NodeExists(r, d)
  BY DEF CanAddNode
<1> HIDE DEF p
<1>5. Frame(r, p, W)
  BY <1>3, <1>4 DEF Frame, SameMembers, NodeExists, NetworkExists, IsMember
<1>6. p \in Repo
  BY <1>1 DEF RepoInv
<1>7. Frame(p, q, W)
  BY <1>6, ConsumeInviteFrame
<1> HIDE DEF q
<1>8. q \in Repo
  BY <1>1 DEF RepoInv
<1>9. Frame(q, s, W)
  BY <1>8, AddMembershipFrame
<1>10. RepoInv(s)
  BY <1>1, AddMembershipInv
<1> HIDE DEF s
<1>11. Frame(r, s, W)
  BY <1>5, <1>7, <1>9, FrameTransitive
<1>12. Frame(r, s, T)
  BY <1>4, <1>11 DEF Frame
<1> QED BY <1>10, <1>12, EnrolledComposes DEF p, q, s

----------------------------------------------------------------------------
\* What a transaction that comes to its COMMIT has made sure of.

\* The rows the commit of call o writes; ns are the networks it has locked.
Touched(o, ns) ==
    CASE o.kind = "enroll" -> {<<"id", o.node>>, <<"key", o.key>>, <<"invite", o.invite>>,
                               <<"network", o.network>>}
      [] o.kind \in {"addMembership", "removeMembership"} ->
            {<<"node", o.node>>, <<"network", o.network>>}
      [] o.kind = "removeNode" -> {<<"node", o.node>>} \cup ({"network"} \X ns)
      [] o.kind = "createInvite" -> {<<"invite", o.invite>>, <<"token", o.token>>}
      [] o.kind \in {"revokeInvite", "consumeInvite"} -> {<<"invite", o.invite>>}
      [] o.kind = "replaceEndpoints" -> {"network"} \X ns
      [] o.kind = "setRelayAssignment" -> {<<"network", o.network>>, <<"relay", o.assignment>>}
      [] o.kind = "removeRelayAssignment" -> {<<"network", o.network>>}

\* The checks the commit of call o stands on, as the store is now.
Checked(o, ns) ==
    /\ o.kind = "enroll" =>
          /\ o.invite \in Invite /\ o.network \in Network /\ o.address \in Address
          /\ CanAddNode(db, o.node, o.key)
          /\ db.invites[o.invite].state = "unused" /\ db.invites[o.invite].network = o.network
          /\ NetworkExists(db, o.network) /\ Unassigned(o.network, o.address)
    /\ o.kind = "addMembership" =>
          o.address \in Address /\ CanAddMembership(db, o.network, o.node, o.address)
    /\ o.kind = "removeMembership" => CanRemoveMembership(db, o.network, o.node)
    /\ o.kind = "removeNode" => CanRemoveNode(db, o.node) /\ ns = NodeNetworks(db, o.node)
    /\ o.kind = "createInvite" => CanCreateInvite(db, o.invite, o.network, o.token)
    /\ o.kind = "revokeInvite" => CanRevokeInvite(db, o.invite)
    /\ o.kind = "consumeInvite" =>
          /\ o.invite \in Invite /\ db.invites[o.invite].state = "unused"
          /\ o.node # None => NodeExists(db, o.node)
    /\ o.kind = "replaceEndpoints" =>
          CanReplaceEndpoints(db, o.node) /\ ns = NodeNetworks(db, o.node)
    /\ o.kind = "setRelayAssignment" =>
          CanSetRelayAssignment(db, o.network, o.node, o.assignment, o.other)
    /\ o.kind = "removeRelayAssignment" => CanRemoveRelayAssignment(db, o.network)

\* What the invariant says of a transaction x that is about to commit.
LEMMA AtCommit ==
    ASSUME Inv, NEW x \in Tx, tx[x].pc = "commit"
    PROVE  /\ Op(x) \in Operation /\ WellFormed(Op(x)) /\ Op(x).kind # "buildSnapshot"
           /\ RepoInv(db) /\ db \in Repo
           /\ \A d \in NodesLocked(x) : owner[<<"node", d>>] = x /\ NodeExists(db, d)
           /\ Op(x).kind \notin {"enroll", "removeRelayAssignment"} =>
                 NodesLocked(x) = {Op(x).node, Op(x).other} \ {None}
           /\ tx[x].networks \subseteq Network
           /\ \A n \in tx[x].networks : owner[<<"network", n>>] = x /\ NetworkExists(db, n)
           /\ Op(x).kind # "consumeInvite" => tx[x].networks = NetworksToLock(Op(x))
           /\ Writes(Op(x), Op(x).address)
           /\ Op(x).kind # "removeNode" => \A row \in RowsToWrite(Op(x)) : owner[row] = x
           /\ Op(x).kind = "enroll" =>
                 /\ owner[<<"id", Op(x).node>>] = x /\ owner[<<"key", Op(x).key>>] = x
                 /\ CanAddNode(db, Op(x).node, Op(x).key)
           /\ Op(x).kind \in {"enroll", "consumeInvite"} =>
                 /\ Op(x).invite \in Invite /\ owner[<<"invite", Op(x).invite>>] = x
                 /\ db.invites[Op(x).invite].state = "unused"
                 /\ Op(x).network = db.invites[Op(x).invite].network
<1>1. StageOf(x) /\ Holds(x) /\ RepoInv(db) /\ db \in Repo
  BY DEF Inv, CallShape, LocksHold, RepoInv
<1>2. tx[x] \in Transaction
  BY DEF Inv, TypeOK
<1>3. tx[x].networks \subseteq Network
  BY <1>2 DEF Transaction
<1>4. Op(x) \in Operation /\ WellFormed(Op(x)) /\ Op(x).kind # "buildSnapshot" /\ tx[x].want = {}
  BY <1>1 DEF StageOf, Running
<1>5. /\ \A d \in NodesLocked(x) : owner[<<"node", d>>] = x /\ NodeExists(db, d)
      /\ \A n \in tx[x].networks : owner[<<"network", n>>] = x /\ NetworkExists(db, n)
      /\ Op(x).kind # "consumeInvite" => tx[x].networks = NetworksToLock(Op(x))
      /\ Writes(Op(x), Op(x).address)
      /\ Op(x).kind # "removeNode" => \A row \in RowsToWrite(Op(x)) : owner[row] = x
  BY <1>1, <1>4 DEF Holds, Writing
<1>6. /\ Op(x).kind = "enroll" =>
            /\ owner[<<"id", Op(x).node>>] = x /\ owner[<<"key", Op(x).key>>] = x
            /\ CanAddNode(db, Op(x).node, Op(x).key)
      /\ Op(x).kind \in {"enroll", "consumeInvite"} =>
            /\ Op(x).invite \in Invite /\ owner[<<"invite", Op(x).invite>>] = x
            /\ db.invites[Op(x).invite].state = "unused"
            /\ Op(x).network = db.invites[Op(x).invite].network
  BY <1>1 DEF Holds, Writing, HasConsumed
<1>7. Op(x).kind \notin {"enroll", "removeRelayAssignment"} =>
         NodesLocked(x) = {Op(x).node, Op(x).other} \ {None}
  BY DEF NodesLocked
<1> QED BY <1>1, <1>3, <1>4, <1>5, <1>6, <1>7

\* The networks a committing call of one network has locked.
LEMMA OneNetwork ==
    ASSUME NEW o \in Operation,
           o.kind \notin {"removeNode", "replaceEndpoints"}, o.network \in Network
    PROVE  NetworksToLock(o) = {o.network}
  BY NoneAssumption DEF NetworksToLock

\* Under its locks, every check of the call still holds, and it owns every row
\* it is going to write.
LEMMA CommitChecks ==
    ASSUME Inv, NEW x \in Tx, tx[x].pc = "commit"
    PROVE  /\ Checked(Op(x), tx[x].networks)
           /\ \A row \in Touched(Op(x), tx[x].networks) : row \in Row /\ owner[row] = x
<1> DEFINE o == Op(x)
           ns == tx[x].networks
<1> USE AtCommit
<1>0. o.kind \in Kinds \ {"buildSnapshot"}
  BY DEF Operation
<1> HIDE DEF o, ns
<1>1. CASE o.kind = "enroll"
  <2>1. o \in Operation /\ o.node \in Node /\ o.key \in Key
    BY <1>1 DEF WellFormed, o
  <2>2. o.invite \in Invite /\ db.invites[o.invite].state = "unused"
        /\ o.network = db.invites[o.invite].network /\ owner[<<"invite", o.invite>>] = x
    BY <1>1 DEF o
  <2>3. o.network \in Network
    BY <2>2 DEF RepoInv, InvitesAccounted
  <2>4. ns = {o.network}
    BY <1>1, <2>1, <2>3, OneNetwork DEF o, ns
  <2>5. NetworkExists(db, o.network) /\ owner[<<"network", o.network>>] = x
    BY <2>4 DEF ns
  <2>6. Unassigned(o.network, o.address)
    BY <1>1 DEF Writes, o
  <2>7. o.address \in Address
    BY <2>3, <2>6, PoolAssumption DEF Unassigned
  <2>8. CanAddNode(db, o.node, o.key) /\ owner[<<"id", o.node>>] = x /\ owner[<<"key", o.key>>] = x
    BY <1>1 DEF o
  <2>9. Touched(o, ns) = {<<"id", o.node>>, <<"key", o.key>>, <<"invite", o.invite>>,
                          <<"network", o.network>>}
    BY <1>1 DEF Touched
  <2>10. \A row \in Touched(o, ns) : row \in Row /\ owner[row] = x
    BY <2>1, <2>2, <2>3, <2>5, <2>8, <2>9 DEF Row
  <2>11. Checked(o, ns)
    BY <1>1, <2>2, <2>3, <2>5, <2>6, <2>7, <2>8 DEF Checked
  <2> QED BY <2>10, <2>11 DEF o, ns
<1>2. CASE o.kind \in {"addMembership", "removeMembership"}
  <2>1. o \in Operation /\ o.node \in Node /\ o.network \in Network
    BY <1>2 DEF WellFormed, o
  <2>2. ns = {o.network}
    BY <1>2, <2>1, OneNetwork DEF o, ns
  <2>3. NetworkExists(db, o.network) /\ owner[<<"network", o.network>>] = x
    BY <2>2 DEF ns
  <2>4. owner[<<"node", o.node>>] = x /\ NodeExists(db, o.node)
    BY <1>2, <2>1, NoneAssumption DEF o
  <2>5. Touched(o, ns) = {<<"node", o.node>>, <<"network", o.network>>}
    BY <1>2 DEF Touched
  <2>6. \A row \in Touched(o, ns) : row \in Row /\ owner[row] = x
    BY <2>1, <2>3, <2>4, <2>5 DEF Row
  <2>7. Writes(o, o.address)
    BY DEF o
  <2>8. Checked(o, ns)
    <3>1. CASE o.kind = "addMembership"
      <4>1. ~IsMember(db, o.network, o.node) /\ Unassigned(o.network, o.address)
        BY <3>1, <2>7 DEF Writes
      <4>2. o.address \in Address
        BY <4>1, <2>1, PoolAssumption DEF Unassigned
      <4>3. CanAddMembership(db, o.network, o.node, o.address)
        BY <4>1, <2>3, <2>4 DEF CanAddMembership, Unassigned
      <4> QED BY <3>1, <4>2, <4>3 DEF Checked
    <3>2. CASE o.kind = "removeMembership"
      BY <3>2, <2>7 DEF Checked, Writes, CanRemoveMembership
    <3> QED BY <1>2, <3>1, <3>2
  <2> QED BY <2>6, <2>8 DEF o, ns
<1>3. CASE o.kind \in {"removeNode", "replaceEndpoints"}
  <2>1. o \in Operation /\ o.node \in Node
    BY <1>3 DEF WellFormed, o
  <2>2. ns = NetworksToLock(o) /\ ns \subseteq Network
    BY <1>3 DEF o, ns
  <2>3. ns = NodeNetworks(db, o.node)
    <3>1. AffectedNetworks(o.node) = NodeNetworks(db, o.node)
      BY <2>1, InvolvedAreMembers DEF AffectedNetworks, NodeNetworks
    <3> QED BY <1>3, <2>2, <3>1 DEF NetworksToLock
  <2>4. owner[<<"node", o.node>>] = x /\ NodeExists(db, o.node)
    BY <1>3, <2>1, NoneAssumption DEF o
  <2>5. \A n \in ns : owner[<<"network", n>>] = x
    BY DEF ns
  <2>6. Touched(o, ns) \subseteq {<<"node", o.node>>} \cup ({"network"} \X ns)
    BY <1>3 DEF Touched
  <2>7. \A row \in Touched(o, ns) : row \in Row /\ owner[row] = x
    BY <2>1, <2>2, <2>4, <2>5, <2>6 DEF Row
  <2>8. Checked(o, ns)
    BY <1>3, <2>3, <2>4 DEF Checked, CanRemoveNode, CanReplaceEndpoints
  <2> QED BY <2>7, <2>8 DEF o, ns
<1>4. CASE o.kind \in {"createInvite", "revokeInvite"}
  <2>1. o \in Operation /\ o.invite \in Invite
    BY <1>4 DEF WellFormed, o
  <2>2. Writes(o, o.address) /\ \A row \in RowsToWrite(o) : owner[row] = x
    BY <1>4 DEF o
  <2>3. owner[<<"invite", o.invite>>] = x
    BY <1>4, <2>2 DEF RowsToWrite
  <2>4. CASE o.kind = "createInvite"
    <3>1. o.network \in Network /\ o.token \in Token
      BY <2>4 DEF WellFormed, o
    <3>2. ns = {o.network}
      BY <2>4, <2>1, <3>1, OneNetwork DEF o, ns
    <3>3. NetworkExists(db, o.network)
      BY <3>2 DEF ns
    <3>4. owner[<<"token", o.token>>] = x
      BY <2>4, <2>2 DEF RowsToWrite
    <3>5. Touched(o, ns) = {<<"invite", o.invite>>, <<"token", o.token>>}
      BY <2>4 DEF Touched
    <3>6. \A row \in Touched(o, ns) : row \in Row /\ owner[row] = x
      BY <2>1, <2>3, <3>1, <3>4, <3>5 DEF Row
    <3>7. Checked(o, ns)
      BY <2>4, <2>2, <3>3 DEF Checked, Writes, CanCreateInvite
    <3> QED BY <3>6, <3>7 DEF o, ns
  <2>5. CASE o.kind = "revokeInvite"
    <3>1. Touched(o, ns) = {<<"invite", o.invite>>}
      BY <2>5 DEF Touched
    <3>2. \A row \in Touched(o, ns) : row \in Row /\ owner[row] = x
      BY <2>1, <2>3, <3>1 DEF Row
    <3>3. Checked(o, ns)
      BY <2>5, <2>2 DEF Checked, Writes, CanRevokeInvite
    <3> QED BY <3>2, <3>3 DEF o, ns
  <2> QED BY <1>4, <2>4, <2>5
<1>5. CASE o.kind = "consumeInvite"
  <2>1. o.invite \in Invite /\ db.invites[o.invite].state = "unused" /\ owner[<<"invite", o.invite>>] = x
    BY <1>5 DEF o
  <2>2. o.node # None => NodeExists(db, o.node)
    BY <1>5 DEF o
  <2>3. Touched(o, ns) = {<<"invite", o.invite>>}
    BY <1>5 DEF Touched
  <2>4. \A row \in Touched(o, ns) : row \in Row /\ owner[row] = x
    BY <2>1, <2>3 DEF Row
  <2>5. Checked(o, ns)
    BY <1>5, <2>1, <2>2 DEF Checked
  <2> QED BY <2>4, <2>5 DEF o, ns
<1>6. CASE o.kind = "setRelayAssignment"
  <2>1. /\ o \in Operation /\ o.node \in Node /\ o.network \in Network
        /\ o.assignment \in Assignment /\ o.other \in Node \ {o.node}
    BY <1>6 DEF WellFormed, o
  <2>2. ns = {o.network}
    BY <1>6, <2>1, OneNetwork DEF o, ns
  <2>3. NetworkExists(db, o.network) /\ owner[<<"network", o.network>>] = x
    BY <2>2 DEF ns
  <2>4. NodeExists(db, o.node) /\ NodeExists(db, o.other)
    <3>1. NodesLocked(x) = {o.node, o.other} \ {None}
      BY <1>6 DEF o
    <3>2. o.node \in NodesLocked(x) /\ o.other \in NodesLocked(x)
      BY <2>1, <3>1, NoneAssumption
    <3> QED BY <3>2
  <2>5. Writes(o, o.address) /\ \A row \in RowsToWrite(o) : owner[row] = x
    BY <1>6 DEF o
  <2>6. owner[<<"relay", o.assignment>>] = x
    BY <1>6, <2>5 DEF RowsToWrite
  <2>7. Touched(o, ns) = {<<"network", o.network>>, <<"relay", o.assignment>>}
    BY <1>6 DEF Touched
  <2>8. \A row \in Touched(o, ns) : row \in Row /\ owner[row] = x
    BY <2>1, <2>3, <2>6, <2>7 DEF Row
  <2>9. CanSetRelayAssignment(db, o.network, o.node, o.assignment, o.other)
    <3>1. /\ IsActive(db, o.network, o.node) /\ IsActive(db, o.network, o.other)
          /\ db.relayAssignmentOwners[o.assignment]
                \in {NoOwner, [network |-> o.network, node |-> o.node]}
      BY <1>6, <2>5 DEF Writes
    <3> QED BY <2>1, <2>3, <2>4, <3>1 DEF CanSetRelayAssignment
  <2>10. Checked(o, ns)
    BY <1>6, <2>9 DEF Checked
  <2> QED BY <2>8, <2>10 DEF o, ns
<1>7. CASE o.kind = "removeRelayAssignment"
  <2>1. o \in Operation /\ o.network \in Network
    BY <1>7 DEF WellFormed, o
  <2>2. ns = {o.network}
    BY <1>7, <2>1, OneNetwork DEF o, ns
  <2>3. owner[<<"network", o.network>>] = x
    BY <2>2 DEF ns
  <2>4. AssignmentNodes(o.network) # {}
    BY <1>7 DEF Writes, o
  <2>5. CanRemoveRelayAssignment(db, o.network)
    BY <2>4 DEF AssignmentNodes, CanRemoveRelayAssignment
  <2>6. Touched(o, ns) = {<<"network", o.network>>}
    BY <1>7 DEF Touched
  <2>7. \A row \in Touched(o, ns) : row \in Row /\ owner[row] = x
    BY <2>1, <2>3, <2>6 DEF Row
  <2>8. Checked(o, ns)
    BY <1>7, <2>5 DEF Checked
  <2> QED BY <2>7, <2>8 DEF o, ns
<1> QED BY <1>0, <1>1, <1>2, <1>3, <1>4, <1>5, <1>6, <1>7 DEF Kinds

\* A commit keeps the store sound and stays within the frame of its rows.
LEMMA CommitEffect ==
    ASSUME Inv, NEW x \in Tx, tx[x].pc = "commit"
    PROVE  /\ RepoInv(Effect(Op(x), tx[x].networks))
           /\ Frame(db, Effect(Op(x), tx[x].networks), Touched(Op(x), tx[x].networks))
<1> DEFINE o == Op(x)
           ns == tx[x].networks
           T == Touched(o, ns)
<1>0. /\ o.kind \in Kinds \ {"buildSnapshot"} /\ o \in Operation /\ WellFormed(o)
      /\ RepoInv(db) /\ db \in Repo
  BY AtCommit DEF Operation
<1>c. Checked(o, ns)
  BY CommitChecks
<1> HIDE DEF o, ns, T
<1> SUFFICES RepoInv(Effect(o, ns)) /\ Frame(db, Effect(o, ns), T)
  BY DEF o, ns, T
<1>1. CASE o.kind = "enroll"
  <2>1. o.node \in Node /\ o.key \in Key
    BY <1>0, <1>1 DEF WellFormed
  <2>2. /\ o.invite \in Invite /\ o.network \in Network /\ o.address \in Address
        /\ CanAddNode(db, o.node, o.key)
        /\ db.invites[o.invite].state = "unused" /\ db.invites[o.invite].network = o.network
        /\ NetworkExists(db, o.network) /\ o.address \in Pool[o.network]
        /\ \A d \in Node : IsMember(db, o.network, d) =>
              db.memberships[o.network][d].address # o.address
    BY <1>1, <1>c DEF Checked, Unassigned
  <2>3. /\ <<"id", o.node>> \in T /\ <<"key", o.key>> \in T /\ <<"invite", o.invite>> \in T
        /\ <<"network", o.network>> \in T
    BY <1>1 DEF Touched, T
  <2>4. Effect(o, ns) = Atomic!Enrolled(db, o.node, o.key, o.invite, o.network, o.address)
    BY <1>1 DEF Effect
  <2> QED BY <1>0, <2>1, <2>2, <2>3, <2>4, EnrolledFrame
<1>2. CASE o.kind = "addMembership"
  <2>1. o.node \in Node /\ o.network \in Network
    BY <1>0, <1>2 DEF WellFormed
  <2>2. o.address \in Address /\ CanAddMembership(db, o.network, o.node, o.address)
    BY <1>2, <1>c DEF Checked
  <2>3. <<"node", o.node>> \in T /\ <<"network", o.network>> \in T
    BY <1>2 DEF Touched, T
  <2>4. Effect(o, ns) = AddMembership(db, o.network, o.node, o.address, "active")
    BY <1>2 DEF Effect
  <2>5. RepoInv(Effect(o, ns))
    BY <1>0, <2>1, <2>2, <2>4, AddMembershipInv
  <2>6. Frame(db, Effect(o, ns), T)
    BY <1>0, <2>1, <2>2, <2>3, <2>4, AddMembershipFrame
  <2> QED BY <2>5, <2>6
<1>3. CASE o.kind = "removeMembership"
  <2>1. o.node \in Node /\ o.network \in Network
    BY <1>0, <1>3 DEF WellFormed
  <2>2. CanRemoveMembership(db, o.network, o.node)
    BY <1>3, <1>c DEF Checked
  <2>3. <<"node", o.node>> \in T /\ <<"network", o.network>> \in T
    BY <1>3 DEF Touched, T
  <2>4. Effect(o, ns) = RemoveMembership(db, o.network, o.node)
    BY <1>3 DEF Effect
  <2>5. RepoInv(Effect(o, ns))
    BY <1>0, <2>1, <2>2, <2>4, RemoveMembershipInv
  <2>6. Frame(db, Effect(o, ns), T)
    BY <1>0, <2>1, <2>3, <2>4, RemoveMembershipFrame
  <2> QED BY <2>5, <2>6
<1>4. CASE o.kind = "removeNode"
  <2>1. o.node \in Node
    BY <1>0, <1>4 DEF WellFormed
  <2>2. CanRemoveNode(db, o.node) /\ ns = NodeNetworks(db, o.node)
    BY <1>4, <1>c DEF Checked
  <2>3. <<"node", o.node>> \in T /\ \A n \in NodeNetworks(db, o.node) : <<"network", n>> \in T
    BY <1>4, <2>2 DEF Touched, T
  <2>4. Effect(o, ns) = [RemoveNode(db, o.node) EXCEPT !.version = Bump(db, ns).version]
    BY <1>4 DEF Effect
  <2>5. /\ Frame(db, RemoveNode(db, o.node), T)
        /\ Effect(o, ns) = RemoveNode(db, o.node)
    BY <1>0, <2>1, <2>2, <2>3, <2>4, RemoveNodeFrame
  <2>6. RepoInv(Effect(o, ns))
    BY <1>0, <2>1, <2>2, <2>5, RemoveNodeInv
  <2> QED BY <2>5, <2>6
<1>5. CASE o.kind = "createInvite"
  <2>1. o.invite \in Invite /\ o.network \in Network /\ o.token \in Token
    BY <1>0, <1>5 DEF WellFormed
  <2>2. CanCreateInvite(db, o.invite, o.network, o.token)
    BY <1>5, <1>c DEF Checked
  <2>3. <<"invite", o.invite>> \in T /\ <<"token", o.token>> \in T
    BY <1>5 DEF Touched, T
  <2>4. Effect(o, ns) = CreateInvite(db, o.invite, o.network, o.token)
    BY <1>5 DEF Effect
  <2>5. RepoInv(Effect(o, ns))
    BY <1>0, <2>1, <2>2, <2>4, CreateInviteInv
  <2>6. Frame(db, Effect(o, ns), T)
    BY <1>0, <2>1, <2>3, <2>4, CreateInviteFrame
  <2> QED BY <2>5, <2>6
<1>6. CASE o.kind = "revokeInvite"
  <2>1. o.invite \in Invite
    BY <1>0, <1>6 DEF WellFormed
  <2>2. CanRevokeInvite(db, o.invite)
    BY <1>6, <1>c DEF Checked
  <2>3. <<"invite", o.invite>> \in T
    BY <1>6 DEF Touched, T
  <2>4. Effect(o, ns) = RevokeInvite(db, o.invite)
    BY <1>6 DEF Effect
  <2> QED BY <1>0, <2>1, <2>2, <2>3, <2>4, RevokeInviteInv, RevokeInviteFrame
<1>7. CASE o.kind = "consumeInvite"
  <2>1. o.node \in Node \cup {None}
    BY <1>0 DEF Operation
  <2>2. /\ o.invite \in Invite /\ db.invites[o.invite].state = "unused"
        /\ o.node # None => NodeExists(db, o.node)
    BY <1>7, <1>c DEF Checked
  <2>3. <<"invite", o.invite>> \in T
    BY <1>7 DEF Touched, T
  <2>4. Effect(o, ns) = ConsumeInviteForNode(db, o.invite, o.node)
    BY <1>7 DEF Effect
  <2> DEFINE t == db.invites[o.invite].token
  <2>5. t \in Token /\ CanConsumeInvite(db, o.invite, t, o.invite, o.node)
    BY <1>0, <2>2 DEF RepoInv, InvitesAccounted, CanConsumeInvite, InviteByLookup
  <2> HIDE DEF t
  <2>6. RepoInv(Effect(o, ns))
    BY <1>0, <2>1, <2>2, <2>4, <2>5, ConsumeInviteInv
  <2>7. Frame(db, Effect(o, ns), T)
    BY <1>0, <2>2, <2>3, <2>4, ConsumeInviteFrame
  <2> QED BY <2>6, <2>7
<1>8. CASE o.kind = "replaceEndpoints"
  <2>1. o.node \in Node /\ o.observed \in [Endpoint -> Observation]
    BY <1>0, <1>8 DEF WellFormed, Operation
  <2>2. CanReplaceEndpoints(db, o.node) /\ ns = NodeNetworks(db, o.node)
    BY <1>8, <1>c DEF Checked
  <2>3. \A n \in NodeNetworks(db, o.node) : <<"network", n>> \in T
    BY <1>8, <2>2 DEF Touched, T
  <2>4. Effect(o, ns) = ReplaceEndpoints(db, o.node, o.observed)
    BY <1>8 DEF Effect
  <2>5. RepoInv(Effect(o, ns))
    BY <1>0, <2>1, <2>2, <2>4, ReplaceEndpointsInv
  <2>6. Frame(db, Effect(o, ns), T)
    BY <1>0, <2>1, <2>3, <2>4, ReplaceEndpointsFrame
  <2> QED BY <2>5, <2>6
<1>9. CASE o.kind = "setRelayAssignment"
  <2>1. /\ o.node \in Node /\ o.network \in Network /\ o.assignment \in Assignment
        /\ o.other \in Node
    BY <1>0, <1>9 DEF WellFormed
  <2>2. CanSetRelayAssignment(db, o.network, o.node, o.assignment, o.other)
    BY <1>9, <1>c DEF Checked
  <2>3. <<"network", o.network>> \in T /\ <<"relay", o.assignment>> \in T
    BY <1>9 DEF Touched, T
  <2>4. Effect(o, ns) = SetRelayAssignment(db, o.network, o.node, o.assignment, o.other, "live")
    BY <1>9 DEF Effect
  <2>5. RepoInv(Effect(o, ns))
    BY <1>0, <2>1, <2>2, <2>4, SetRelayAssignmentInv
  <2>6. Frame(db, Effect(o, ns), T)
    BY <1>0, <2>1, <2>3, <2>4, SetRelayAssignmentFrame
  <2> QED BY <2>5, <2>6
<1>10. CASE o.kind = "removeRelayAssignment"
  <2>1. o.network \in Network
    BY <1>0, <1>10 DEF WellFormed
  <2>2. <<"network", o.network>> \in T
    BY <1>10 DEF Touched, T
  <2>3. Effect(o, ns) = RemoveRelayAssignment(db, o.network)
    BY <1>10 DEF Effect
  <2> QED BY <1>0, <2>1, <2>2, <2>3, RemoveRelayAssignmentInv, RemoveRelayAssignmentFrame
<1> QED BY <1>0, <1>1, <1>2, <1>3, <1>4, <1>5, <1>6, <1>7, <1>8, <1>9, <1>10 DEF Kinds

\* Each commit is the change AtomicStore makes in one step, whose checks hold in
\* the store at that moment.
LEMMA CommitAtomic ==
    ASSUME Inv, NEW x \in Tx, Commit(x)
    PROVE  Atomic!StoreNext
<1> DEFINE o == Op(x)
           ns == tx[x].networks
<1>0. /\ tx[x].pc = "commit" /\ db' = Effect(o, ns)
      /\ \A n \in Network : db'.version[n] <= MaxVersion[n]
  BY DEF Commit
<1>1. /\ o.kind \in Kinds \ {"buildSnapshot"} /\ o \in Operation /\ WellFormed(o)
      /\ RepoInv(db) /\ db \in Repo
  BY <1>0, AtCommit DEF Operation
<1>c. Checked(o, ns)
  BY <1>0, CommitChecks
<1> HIDE DEF o, ns
<1>p. ASSUME NEW r, db' = r PROVE Atomic!Publish(r)
  BY <1>0, <1>p DEF Atomic!Publish
<1>2. CASE o.kind = "enroll"
  <2>1. o.node \in Node /\ o.key \in Key
    BY <1>1, <1>2 DEF WellFormed
  <2>2. /\ o.invite \in Invite /\ o.network \in Network /\ o.address \in Address
        /\ CanAddNode(db, o.node, o.key)
        /\ db.invites[o.invite].state = "unused" /\ db.invites[o.invite].network = o.network
        /\ NetworkExists(db, o.network) /\ o.address \in Pool[o.network]
        /\ \A d \in Node : IsMember(db, o.network, d) =>
              db.memberships[o.network][d].address # o.address
    BY <1>2, <1>c DEF Checked, Unassigned
  <2> DEFINE p == AddNode(db, o.node, o.key)
             q == ConsumeInviteForNode(p, o.invite, o.node)
             t == db.invites[o.invite].token
  <2>3. /\ t \in Token /\ CanConsumeInvite(p, o.invite, t, o.invite, o.node)
        /\ CanAddMembership(q, o.network, o.node, o.address)
    BY <1>1, <2>1, <2>2, EnrollChecks
  <2>4. db' = Atomic!Enrolled(db, o.node, o.key, o.invite, o.network, o.address)
    BY <1>0, <1>2 DEF Effect
  <2>5. /\ p = Atomic!AddNode(db, o.node, o.key)
        /\ q = Atomic!ConsumeInviteForNode(p, o.invite, o.node)
    BY DEF AddNode, Atomic!AddNode, ConsumeInviteForNode, Atomic!ConsumeInviteForNode
  <2> HIDE DEF p, q, t
  <2>6. Atomic!CanAddNode(db, o.node, o.key)
    BY <2>2 DEF CanAddNode, NodeExists, Atomic!CanAddNode, Atomic!NodeExists
  <2>7. Atomic!CanConsumeInvite(p, o.invite, t, o.invite, o.node)
    BY <2>3 DEF CanConsumeInvite, InviteByLookup, NodeExists,
                Atomic!CanConsumeInvite, Atomic!InviteByLookup, Atomic!NodeExists
  <2>8. Atomic!CanAddMembership(q, o.network, o.node, o.address)
    BY <2>3 DEF CanAddMembership, NetworkExists, NodeExists, IsMember,
                Atomic!CanAddMembership, Atomic!NetworkExists, Atomic!NodeExists, Atomic!IsMember
  <2>9. Atomic!Publish(Atomic!Enrolled(db, o.node, o.key, o.invite, o.network, o.address))
    BY <1>p, <2>4
  <2>10. Atomic!DoEnroll(o.node, o.key, o.invite, t, o.address)
    BY <2>2, <2>5, <2>6, <2>7, <2>8, <2>9 DEF Atomic!DoEnroll
  <2> QED BY <2>1, <2>2, <2>3, <2>10 DEF Atomic!StoreNext
<1>3. CASE o.kind = "addMembership"
  <2>1. o.node \in Node /\ o.network \in Network
    BY <1>1, <1>3 DEF WellFormed
  <2>2. o.address \in Address /\ CanAddMembership(db, o.network, o.node, o.address)
    BY <1>3, <1>c DEF Checked
  <2>3. db' = Atomic!AddMembership(db, o.network, o.node, o.address, "active")
    BY <1>0, <1>3 DEF Effect, AddMembership, Bump, Atomic!AddMembership, Atomic!Bump
  <2>4. Atomic!CanAddMembership(db, o.network, o.node, o.address)
    BY <2>2 DEF CanAddMembership, NetworkExists, NodeExists, IsMember,
                Atomic!CanAddMembership, Atomic!NetworkExists, Atomic!NodeExists, Atomic!IsMember
  <2>5. Atomic!DoAddMembership(o.network, o.node, o.address, "active")
    BY <1>p, <2>3, <2>4 DEF Atomic!DoAddMembership
  <2> QED BY <2>1, <2>2, <2>5 DEF Atomic!StoreNext, Atomic!Next, Atomic!MemberStep
<1>4. CASE o.kind = "removeMembership"
  <2>1. o.node \in Node /\ o.network \in Network
    BY <1>1, <1>4 DEF WellFormed
  <2>2. Atomic!CanRemoveMembership(db, o.network, o.node)
    BY <1>4, <1>c DEF Checked, CanRemoveMembership, IsMember,
                      Atomic!CanRemoveMembership, Atomic!IsMember
  <2>3. db' = Atomic!RemoveMembership(db, o.network, o.node)
    BY <1>0, <1>4 DEF Effect, RemoveMembership, DropAssignments, Involving, HasAssignment, Bump,
              AbsentMembership, AbsentAssignment, NoOwner,
              Atomic!RemoveMembership, Atomic!DropAssignments, Atomic!Involving,
              Atomic!HasAssignment, Atomic!Bump, Atomic!AbsentMembership,
              Atomic!AbsentAssignment, Atomic!NoOwner
  <2>4. Atomic!DoRemoveMembership(o.network, o.node)
    BY <1>p, <2>2, <2>3 DEF Atomic!DoRemoveMembership
  <2> QED BY <2>1, <2>4 DEF Atomic!StoreNext, Atomic!Next, Atomic!MemberStep
<1>5. CASE o.kind = "removeNode"
  <2>1. o.node \in Node
    BY <1>1, <1>5 DEF WellFormed
  <2>2. CanRemoveNode(db, o.node) /\ ns = NodeNetworks(db, o.node)
    BY <1>5, <1>c DEF Checked
  <2> DEFINE W == {<<"node", o.node>>} \cup ({"network"} \X Network)
  <2>3. <<"node", o.node>> \in W /\ \A n \in NodeNetworks(db, o.node) : <<"network", n>> \in W
    BY DEF NodeNetworks
  <2> HIDE DEF W
  <2>4. db' = RemoveNode(db, o.node)
    BY <1>0, <1>1, <1>5, <2>1, <2>2, <2>3, RemoveNodeFrame DEF Effect
  <2>5. RemoveNode(db, o.node) = Atomic!RemoveNode(db, o.node)
    BY DEF RemoveNode, DropAssignments, Involving, HasAssignment, IsMember, Bump,
           AbsentMembership, AbsentAssignment, NoOwner,
           Atomic!RemoveNode, Atomic!DropAssignments, Atomic!Involving, Atomic!HasAssignment,
           Atomic!IsMember, Atomic!Bump, Atomic!AbsentMembership, Atomic!AbsentAssignment,
           Atomic!NoOwner
  <2>6. Atomic!CanRemoveNode(db, o.node)
    BY <2>2 DEF CanRemoveNode, NodeExists, Atomic!CanRemoveNode, Atomic!NodeExists
  <2>7. Atomic!DoRemoveNode(o.node)
    BY <1>p, <2>4, <2>5, <2>6 DEF Atomic!DoRemoveNode
  <2> QED BY <2>1, <2>7 DEF Atomic!StoreNext, Atomic!Next, Atomic!MemberStep
<1>6. CASE o.kind = "createInvite"
  <2>1. o.invite \in Invite /\ o.network \in Network /\ o.token \in Token
    BY <1>1, <1>6 DEF WellFormed
  <2>2. Atomic!CanCreateInvite(db, o.invite, o.network, o.token)
    BY <1>6, <1>c DEF Checked, CanCreateInvite, NetworkExists,
                      Atomic!CanCreateInvite, Atomic!NetworkExists
  <2>3. db' = Atomic!CreateInvite(db, o.invite, o.network, o.token)
    BY <1>0, <1>6 DEF Effect, CreateInvite, Atomic!CreateInvite
  <2>4. Atomic!DoCreateInvite(o.invite, o.network, o.token)
    BY <1>p, <2>2, <2>3 DEF Atomic!DoCreateInvite
  <2> QED BY <2>1, <2>4 DEF Atomic!StoreNext, Atomic!Next, Atomic!InviteStep
<1>7. CASE o.kind = "revokeInvite"
  <2>1. o.invite \in Invite
    BY <1>1, <1>7 DEF WellFormed
  <2>2. Atomic!CanRevokeInvite(db, o.invite)
    BY <1>7, <1>c DEF Checked, CanRevokeInvite, Atomic!CanRevokeInvite
  <2>3. db' = Atomic!RevokeInvite(db, o.invite)
    BY <1>0, <1>7 DEF Effect, RevokeInvite, Atomic!RevokeInvite
  <2>4. Atomic!DoRevokeInvite(o.invite)
    BY <1>p, <2>2, <2>3 DEF Atomic!DoRevokeInvite
  <2> QED BY <2>1, <2>4 DEF Atomic!StoreNext, Atomic!Next, Atomic!InviteStep
<1>8. CASE o.kind = "consumeInvite"
  <2> DEFINE t == db.invites[o.invite].token
  <2>1. o.node \in Node \cup {None} /\ o.invite \in Invite
    BY <1>1, <1>8, <1>c DEF Operation, Checked
  <2>2. /\ db.invites[o.invite].state = "unused"
        /\ o.node # None => NodeExists(db, o.node)
    BY <1>8, <1>c DEF Checked
  <2>3. t \in Token
    BY <1>1, <2>1, <2>2 DEF RepoInv, InvitesAccounted
  <2>4. Atomic!CanConsumeInvite(db, o.invite, t, o.invite, o.node)
    BY <2>2 DEF NodeExists, Atomic!CanConsumeInvite, Atomic!InviteByLookup, Atomic!NodeExists
  <2>5. db' = Atomic!ConsumeInviteForNode(db, o.invite, o.node)
    BY <1>0, <1>8 DEF Effect, ConsumeInviteForNode, Atomic!ConsumeInviteForNode
  <2> HIDE DEF t
  <2>6. Atomic!DoConsumeInvite(o.invite, t, o.invite, o.node)
    BY <1>p, <2>4, <2>5 DEF Atomic!DoConsumeInvite
  <2> QED BY <2>1, <2>3, <2>6 DEF Atomic!StoreNext, Atomic!Next, Atomic!InviteStep
<1>9. CASE o.kind = "replaceEndpoints"
  <2>1. o.node \in Node /\ o.observed \in [Endpoint -> Observation]
    BY <1>1, <1>9 DEF WellFormed, Operation
  <2>2. Atomic!CanReplaceEndpoints(db, o.node)
    BY <1>9, <1>c DEF Checked, CanReplaceEndpoints, NodeExists,
                      Atomic!CanReplaceEndpoints, Atomic!NodeExists
  <2>3. db' = Atomic!ReplaceEndpoints(db, o.node, o.observed)
    BY <1>0, <1>9 DEF Effect, ReplaceEndpoints, NodeNetworks, IsMember, Bump,
              Atomic!ReplaceEndpoints, Atomic!NodeNetworks, Atomic!IsMember, Atomic!Bump
  <2>4. Atomic!DoReplaceEndpoints(o.node, o.observed)
    BY <1>p, <2>2, <2>3 DEF Atomic!DoReplaceEndpoints
  <2>5. o.observed \in [Endpoint -> Atomic!Observation]
    BY <2>1 DEF Observation, Atomic!Observation
  <2> QED BY <2>1, <2>4, <2>5 DEF Atomic!StoreNext, Atomic!Next, Atomic!MemberStep
<1>10. CASE o.kind = "setRelayAssignment"
  <2>1. /\ o.node \in Node /\ o.network \in Network /\ o.assignment \in Assignment
        /\ o.other \in Node
    BY <1>1, <1>10 DEF WellFormed
  <2>2. Atomic!CanSetRelayAssignment(db, o.network, o.node, o.assignment, o.other)
    BY <1>10, <1>c DEF Checked, CanSetRelayAssignment, NetworkExists, NodeExists, IsActive,
                       NoOwner, Atomic!CanSetRelayAssignment, Atomic!NetworkExists,
                       Atomic!NodeExists, Atomic!IsActive, Atomic!NoOwner
  <2>3. db' = Atomic!SetRelayAssignment(db, o.network, o.node, o.assignment, o.other, "live")
    BY <1>0, <1>10 DEF Effect, SetRelayAssignment, NoOwner, Bump,
              Atomic!SetRelayAssignment, Atomic!NoOwner, Atomic!Bump
  <2>4. Atomic!DoSetRelayAssignment(o.network, o.node, o.assignment, o.other, "live")
    BY <1>p, <2>2, <2>3 DEF Atomic!DoSetRelayAssignment
  <2> QED BY <2>1, <2>4 DEF Atomic!StoreNext, Atomic!Next, Atomic!RelayStep
<1>11. CASE o.kind = "removeRelayAssignment"
  <2>1. o.network \in Network
    BY <1>1, <1>11 DEF WellFormed
  <2>2. Atomic!CanRemoveRelayAssignment(db, o.network)
    BY <1>11, <1>c DEF Checked, CanRemoveRelayAssignment, HasAssignment,
                       Atomic!CanRemoveRelayAssignment, Atomic!HasAssignment
  <2>3. db' = Atomic!RemoveRelayAssignment(db, o.network)
    BY <1>0, <1>11 DEF Effect, RemoveRelayAssignment, DropAssignments, HasAssignment, Bump,
              AbsentAssignment, NoOwner,
              Atomic!RemoveRelayAssignment, Atomic!DropAssignments, Atomic!HasAssignment,
              Atomic!Bump, Atomic!AbsentAssignment, Atomic!NoOwner
  <2>4. Atomic!DoRemoveRelayAssignment(o.network)
    BY <1>p, <2>2, <2>3 DEF Atomic!DoRemoveRelayAssignment
  <2> QED BY <2>1, <2>4 DEF Atomic!StoreNext, Atomic!Next, Atomic!RelayStep
<1> QED BY <1>1, <1>2, <1>3, <1>4, <1>5, <1>6, <1>7, <1>8, <1>9, <1>10, <1>11 DEF Kinds
----------------------------------------------------------------------------
\* What a transaction has found out survives the steps of the others.

\* A step of x, which writes rows T it holds: it takes and releases only rows of
\* its own, and moves only itself.
Apart(x, T) ==
    /\ \A y \in Tx \ {x} : tx'[y] = tx[y]
    /\ \A row \in Row, y \in Tx \ {x} : owner'[row] = y <=> owner[row] = y
    /\ T \subseteq Row /\ \A row \in T : owner[row] = x
    /\ RepoInv(db)' /\ Frame(db, db', T)

\* The last statements of a call still affect their rows, whatever commits that
\* leaves the rows of the call alone.
LEMMA WritesKept ==
    ASSUME NEW CONSTANT o \in Operation, WellFormed(o), NEW CONSTANT a, NEW T,
           Frame(db, db', T), Writes(o, a),
           o.kind \in {"enroll", "addMembership", "removeMembership", "setRelayAssignment",
                       "removeRelayAssignment"} =>
              o.network \in Network /\ <<"network", o.network>> \notin T,
           o.kind \in {"createInvite", "revokeInvite"} => <<"invite", o.invite>> \notin T,
           o.kind = "createInvite" => <<"token", o.token>> \notin T,
           o.kind = "setRelayAssignment" => <<"relay", o.assignment>> \notin T
    PROVE  Writes(o, a)'
<1>0. o.kind \in Kinds
  BY DEF Operation
<1>1. ASSUME NEW n \in Network, <<"network", n>> \notin T
      PROVE  /\ \A d \in Node : /\ IsMember(db, n, d)' <=> IsMember(db, n, d)
                                /\ IsActive(db, n, d)' <=> IsActive(db, n, d)
             /\ \A b : Unassigned(n, b) => Unassigned(n, b)'
  <2>1. SameMembers(db, db', n)
    BY <1>1 DEF Frame
  <2> QED BY <2>1 DEF SameMembers, IsMember, IsActive, Unassigned
<1>2. CASE o.kind = "enroll"
  BY <1>1, <1>2 DEF Writes
<1>3. CASE o.kind = "addMembership"
  BY <1>1, <1>3 DEF Writes, WellFormed
<1>4. CASE o.kind = "removeMembership"
  BY <1>1, <1>4 DEF Writes, WellFormed
<1>5. CASE o.kind = "createInvite"
  <2>1. o.invite \in Invite /\ o.token \in Token
    BY <1>5 DEF WellFormed
  <2>2. db.invites[o.invite].state = "none" /\ db.inviteByToken[o.token] = None
    BY <1>5 DEF Writes
  <2>3. db'.invites[o.invite].state = "none" /\ db'.inviteByToken[o.token] = None
    BY <1>5, <2>1, <2>2 DEF Frame
  <2> QED BY <1>5, <2>3 DEF Writes
<1>6. CASE o.kind = "revokeInvite"
  <2>1. o.invite \in Invite
    BY <1>6 DEF WellFormed
  <2>2. db'.invites[o.invite].state = db.invites[o.invite].state
    BY <1>6, <2>1 DEF Frame
  <2> QED BY <1>6, <2>2 DEF Writes
<1>7. CASE o.kind = "setRelayAssignment"
  <2>1. o.node \in Node /\ o.other \in Node /\ o.assignment \in Assignment
    BY <1>7 DEF WellFormed
  <2>2. /\ IsActive(db, o.network, o.node) /\ IsActive(db, o.network, o.other)
        /\ db.relayAssignmentOwners[o.assignment]
              \in {NoOwner, [network |-> o.network, node |-> o.node]}
    BY <1>7 DEF Writes
  <2>3. IsActive(db, o.network, o.node)' /\ IsActive(db, o.network, o.other)'
    BY <1>1, <1>7, <2>1, <2>2
  <2>4. db'.relayAssignmentOwners[o.assignment]
           \in {db.relayAssignmentOwners[o.assignment], NoOwner}
    BY <1>7, <2>1 DEF Frame
  <2>5. db'.relayAssignmentOwners[o.assignment]
           \in {NoOwner, [network |-> o.network, node |-> o.node]}
    BY <2>2, <2>4
  <2> QED BY <1>7, <2>3, <2>5 DEF Writes
<1>8. CASE o.kind = "removeRelayAssignment"
  <2>1. \A d \in Node : db'.relayAssignments[o.network][d] = db.relayAssignments[o.network][d]
    BY <1>8 DEF Frame
  <2>2. AssignmentNodes(o.network) # {}
    BY <1>8 DEF Writes
  <2>3. AssignmentNodes(o.network)' # {}
    BY <2>1, <2>2 DEF AssignmentNodes, HasAssignment
  <2> QED BY <1>8, <2>3 DEF Writes
<1>9. CASE o.kind \in {"removeNode", "consumeInvite", "replaceEndpoints", "buildSnapshot"}
  BY <1>9 DEF Writes
<1> QED BY <1>0, <1>2, <1>3, <1>4, <1>5, <1>6, <1>7, <1>8, <1>9 DEF Kinds

\* The networks of a node whose row is held, and so those a call on it locks.
LEMMA NetworksKept ==
    ASSUME NEW CONSTANT o \in Operation, WellFormed(o), NEW T,
           RepoInv(db), RepoInv(db)', Frame(db, db', T),
           o.kind \in {"removeNode", "replaceEndpoints"} =>
              <<"node", o.node>> \notin T /\ NodeExists(db, o.node)
    PROVE  NetworksToLock(o)' = NetworksToLock(o)
<1>1. CASE o.kind \notin {"removeNode", "replaceEndpoints"}
  BY <1>1 DEF NetworksToLock
<1>2. CASE o.kind \in {"removeNode", "replaceEndpoints"}
  <2>1. o.node \in Node
    BY <1>2 DEF WellFormed
  <2>2. \A n \in Network : IsMember(db, n, o.node)' <=> IsMember(db, n, o.node)
    BY <1>2, <2>1 DEF Frame, IsMember
  <2>3. NodeNetworks(db, o.node)' = NodeNetworks(db, o.node)
    BY <2>2 DEF NodeNetworks
  <2>4. AffectedNetworks(o.node) = NodeNetworks(db, o.node)
    BY <2>1, InvolvedAreMembers DEF AffectedNetworks, NodeNetworks
  <2>5. \A n \in Network : Involving(db', n, o.node) # {} => IsMember(db', n, o.node)
    BY <2>1, InvolvedAreMembers
  <2>6. AffectedNetworks(o.node)' = NodeNetworks(db, o.node)'
    BY <2>5 DEF AffectedNetworks, NodeNetworks
  <2> QED BY <1>2, <2>3, <2>4, <2>6 DEF NetworksToLock
<1> QED BY <1>1, <1>2

\* The rows a call at its COMMIT has written are rows.
LEMMA RowsToWriteTyped ==
    ASSUME NEW o \in Operation, WellFormed(o), o.kind # "removeNode"
    PROVE  RowsToWrite(o) \subseteq Row
  BY DEF RowsToWrite, WellFormed, Row

\* Two-phase locking: what y has found out is still so after a step of x.
LEMMA HoldsKept ==
    ASSUME Inv, NEW x \in Tx, NEW T, Apart(x, T), NEW y \in Tx, y # x
    PROVE  Holds(y)'
<1>1. PICK o : o = tx[y].op
  OBVIOUS
<1>2. tx'[y] = tx[y] /\ RepoInv(db) /\ RepoInv(db)' /\ Frame(db, db', T)
  BY DEF Apart, Inv
<1>3. \A row \in Row : owner[row] = y => owner'[row] = y /\ row \notin T
  BY DEF Apart
<1>4. StageOf(y) /\ Holds(y) /\ tx[y] \in Transaction
  BY DEF Inv, CallShape, LocksHold, TypeOK
<1>5. tx[y].pc \in Writing => o \in Operation /\ WellFormed(o)
  BY <1>1, <1>4 DEF StageOf, Running, Op, Writing
<1>6. Op(y) = o /\ Op(y)' = o
  BY <1>1, <1>2 DEF Op
<1>7. NodesLocked(y)' = NodesLocked(y) /\ (HasConsumed(y)' <=> HasConsumed(y))
  BY <1>2 DEF NodesLocked, HasConsumed, Op
<1>8. tx[y].pc \in Writing => NodesLocked(y) \subseteq Node
  BY <1>5, <1>6 DEF NodesLocked, Operation
<1>n. tx[y].pc \in Writing => \A d \in NodesLocked(y) : owner[<<"node", d>>] = y /\ NodeExists(db, d)
  BY <1>4 DEF Holds
<1>a. tx[y].pc \in Writing =>
         \A d \in NodesLocked(y) : owner'[<<"node", d>>] = y /\ NodeExists(db, d)'
  <2> SUFFICES ASSUME tx[y].pc \in Writing, NEW d \in NodesLocked(y)
               PROVE  owner'[<<"node", d>>] = y /\ NodeExists(db, d)'
    OBVIOUS
  <2>1. d \in Node /\ <<"node", d>> \in Row
    BY <1>8 DEF Row
  <2>2. owner'[<<"node", d>>] = y /\ <<"node", d>> \notin T
    BY <1>3, <1>n, <2>1
  <2> QED BY <1>2, <1>n, <2>1, <2>2 DEF Frame
<1>b. tx[y].pc \in {"networks", "commit"} =>
         /\ \A n \in tx[y].networks \ tx[y].want :
               /\ n \in Network /\ owner[<<"network", n>>] = y /\ <<"network", n>> \notin T
               /\ owner'[<<"network", n>>] = y /\ NetworkExists(db, n)'
         /\ o.kind # "consumeInvite" => tx[y].networks = NetworksToLock(o)'
  <2> SUFFICES ASSUME tx[y].pc \in {"networks", "commit"}
               PROVE  /\ \A n \in tx[y].networks \ tx[y].want :
                            /\ n \in Network /\ owner[<<"network", n>>] = y /\ <<"network", n>> \notin T
                            /\ owner'[<<"network", n>>] = y /\ NetworkExists(db, n)'
                      /\ o.kind # "consumeInvite" => tx[y].networks = NetworksToLock(o)'
    OBVIOUS
  <2>0. tx[y].pc \in Writing
    BY DEF Writing
  <2>1. /\ \A n \in tx[y].networks \ tx[y].want : owner[<<"network", n>>] = y /\ NetworkExists(db, n)
        /\ o.kind # "consumeInvite" => tx[y].networks = NetworksToLock(o)
    BY <1>4, <1>6 DEF Holds
  <2>2. \A n \in tx[y].networks : n \in Network /\ <<"network", n>> \in Row
    BY <1>4 DEF Transaction, Row
  <2>3. \A n \in Network : NetworkExists(db, n) => NetworkExists(db, n)'
    BY <1>2 DEF Frame
  <2>4. o.kind \in {"removeNode", "replaceEndpoints"} =>
           <<"node", o.node>> \notin T /\ NodeExists(db, o.node)
    <3> SUFFICES ASSUME o.kind \in {"removeNode", "replaceEndpoints"}
                 PROVE  <<"node", o.node>> \notin T /\ NodeExists(db, o.node)
      OBVIOUS
    <3>1. o.node \in Node
      BY <1>5, <2>0 DEF WellFormed
    <3>2. o.node \in NodesLocked(y)
      BY <1>6, <3>1, NoneAssumption DEF NodesLocked
    <3>3. <<"node", o.node>> \in Row
      BY <3>1 DEF Row
    <3> QED BY <1>3, <1>n, <2>0, <3>2, <3>3
  <2>5. NetworksToLock(o)' = NetworksToLock(o)
    BY <1>2, <1>5, <2>0, <2>4, NetworksKept
  <2> QED BY <1>3, <2>1, <2>2, <2>3, <2>5
<1>c. tx[y].pc \in Writing /\ o.kind = "enroll" =>
         /\ owner'[<<"id", o.node>>] = y /\ owner'[<<"key", o.key>>] = y
         /\ CanAddNode(db, o.node, o.key)'
  <2> SUFFICES ASSUME tx[y].pc \in Writing, o.kind = "enroll"
               PROVE  /\ owner'[<<"id", o.node>>] = y /\ owner'[<<"key", o.key>>] = y
                      /\ CanAddNode(db, o.node, o.key)'
    OBVIOUS
  <2>1. /\ owner[<<"id", o.node>>] = y /\ owner[<<"key", o.key>>] = y
        /\ CanAddNode(db, o.node, o.key)
    BY <1>4, <1>6 DEF Holds
  <2>2. o.node \in Node /\ o.key \in Key /\ <<"id", o.node>> \in Row /\ <<"key", o.key>> \in Row
    BY <1>5 DEF WellFormed, Row
  <2>3. <<"id", o.node>> \notin T /\ <<"key", o.key>> \notin T
    BY <1>3, <2>1, <2>2
  <2>4. CanAddNode(db, o.node, o.key)'
    BY <1>2, <2>1, <2>2, <2>3 DEF Frame, CanAddNode
  <2> QED BY <1>3, <2>1, <2>2, <2>4
<1>d. tx[y].pc \in Writing /\ HasConsumed(y) =>
         /\ o.invite \in Invite /\ owner'[<<"invite", o.invite>>] = y
         /\ db'.invites[o.invite].state = "unused"
         /\ o.network = db'.invites[o.invite].network
  <2> SUFFICES ASSUME tx[y].pc \in Writing, HasConsumed(y)
               PROVE  /\ o.invite \in Invite /\ owner'[<<"invite", o.invite>>] = y
                      /\ db'.invites[o.invite].state = "unused"
                      /\ o.network = db'.invites[o.invite].network
    OBVIOUS
  <2>1. /\ o.invite \in Invite /\ owner[<<"invite", o.invite>>] = y
        /\ db.invites[o.invite].state = "unused"
        /\ o.network = db.invites[o.invite].network
    BY <1>4, <1>6 DEF Holds
  <2>2. <<"invite", o.invite>> \in Row
    BY <2>1 DEF Row
  <2>3. owner'[<<"invite", o.invite>>] = y /\ <<"invite", o.invite>> \notin T
    BY <1>3, <2>1, <2>2
  <2> QED BY <1>2, <2>1, <2>3 DEF Frame
<1>e. tx[y].pc = "commit" =>
         /\ Writes(o, o.address)'
         /\ o.kind # "removeNode" => \A row \in RowsToWrite(o)' : owner'[row] = y
  <2> SUFFICES ASSUME tx[y].pc = "commit"
               PROVE  /\ Writes(o, o.address)'
                      /\ o.kind # "removeNode" => \A row \in RowsToWrite(o)' : owner'[row] = y
    OBVIOUS
  <2>0. tx[y].pc \in Writing /\ o \in Operation /\ WellFormed(o) /\ tx[y].want = {}
    BY <1>4, <1>5 DEF Writing, StageOf
  <2>1. /\ Writes(o, o.address)
        /\ o.kind # "removeNode" => \A row \in RowsToWrite(o) : owner[row] = y
    BY <1>4, <1>6 DEF Holds
  <2>2. o.kind # "removeNode" => \A row \in RowsToWrite(o) : owner'[row] = y /\ row \notin T
    BY <1>3, <2>0, <2>1, RowsToWriteTyped
  <2>3. o.kind # "removeNode" => RowsToWrite(o)' = RowsToWrite(o)
    BY DEF RowsToWrite
  <2>4. o.kind \in {"enroll", "addMembership", "removeMembership", "setRelayAssignment",
                    "removeRelayAssignment"} =>
           o.network \in Network /\ <<"network", o.network>> \notin T
    <3> SUFFICES ASSUME o.kind \in {"enroll", "addMembership", "removeMembership",
                                    "setRelayAssignment", "removeRelayAssignment"}
                 PROVE  o.network \in Network /\ <<"network", o.network>> \notin T
      OBVIOUS
    <3>1. o.network \in Network
      <4>1. CASE o.kind = "enroll"
        <5>1. HasConsumed(y)
          BY <1>6, <4>1 DEF HasConsumed
        <5>2. /\ o.invite \in Invite /\ db.invites[o.invite].state = "unused"
              /\ o.network = db.invites[o.invite].network
          BY <1>4, <1>6, <2>0, <5>1 DEF Holds
        <5> QED BY <1>2, <5>2 DEF RepoInv, InvitesAccounted
      <4>2. CASE o.kind # "enroll"
        BY <2>0, <4>2 DEF WellFormed
      <4> QED BY <4>1, <4>2
    <3>2. tx[y].networks = NetworksToLock(o)
      BY <1>4, <1>6 DEF Holds
    <3>3. o.network \in tx[y].networks \ tx[y].want
      BY <2>0, <3>1, <3>2, OneNetwork
    <3> QED BY <1>b, <3>1, <3>3
  <2>5. /\ o.kind \in {"createInvite", "revokeInvite"} => <<"invite", o.invite>> \notin T
        /\ o.kind = "createInvite" => <<"token", o.token>> \notin T
        /\ o.kind = "setRelayAssignment" => <<"relay", o.assignment>> \notin T
    BY <2>2 DEF RowsToWrite
  <2>6. Writes(o, o.address)'
    BY <1>2, <2>0, <2>1, <2>4, <2>5, WritesKept
  <2> QED BY <2>2, <2>3, <2>6
<1>f. NetworksToLock(Op(y))' = NetworksToLock(o)' /\ Writes(Op(y), Op(y).address)' = Writes(o, o.address)'
      /\ RowsToWrite(Op(y))' = RowsToWrite(o)' /\ CanAddNode(db, Op(y).node, Op(y).key)' = CanAddNode(db, o.node, o.key)'
  BY <1>6
<1> QED BY <1>2, <1>6, <1>7, <1>a, <1>b, <1>c, <1>d, <1>e, <1>f DEF Holds

\* The rest of what the invariant says of y is about y's own state and rows.
LEMMA OthersKept ==
    ASSUME Inv, NEW x \in Tx, NEW T, Apart(x, T), NEW y \in Tx, y # x
    PROVE  StageOf(y)' /\ OwnsInOrder(y)' /\ ReadsOneStore(y)'
<1>1. /\ StageOf(y) /\ OwnsInOrder(y) /\ ReadsOneStore(y)
      /\ tx'[y] = tx[y]
      /\ \A row \in Row : owner'[row] = y <=> owner[row] = y
  BY DEF Inv, CallShape, OwnersInOrder, ReadersApart, Apart
<1>2. StageOf(y)'
  BY <1>1 DEF StageOf, Running, Op
<1>3. OwnsInOrder(y)'
  BY <1>1 DEF OwnsInOrder, Op, Row
<1>4. ReadsOneStore(y)'
  BY <1>1 DEF ReadsOneStore, Op, Sees
<1> QED BY <1>2, <1>3, <1>4

\* So a step keeps the invariant when it keeps what the invariant says of the
\* transaction that takes it.
LEMMA StepInv ==
    ASSUME Inv, NEW x \in Tx, NEW T, Apart(x, T), NEW t \in Transaction,
           tx' = [tx EXCEPT ![x] = t],
           owner' \in [Row -> Tx \cup {None}],
           ~Running(x)' => \A row \in Row : owner'[row] # x,
           StageOf(x)', Holds(x)', OwnsInOrder(x)', ReadsOneStore(x)',
           InvitesDrawn'
    PROVE  Inv'
<1>1. TypeOK'
  <2>1. tx' \in [Tx -> Transaction]
    BY DEF Inv, TypeOK
  <2>2. db' \in Repo
    BY DEF Apart, RepoInv
  <2>3. ASSUME NEW y \in Tx, ~Running(y)', y # x, NEW row \in Row
        PROVE  owner'[row] # y
    <3>1. ~Running(y)
      BY <2>3 DEF Apart, Running
    <3> QED BY <2>3, <3>1 DEF Apart, Inv, TypeOK
  <2> QED BY <2>1, <2>2, <2>3 DEF TypeOK
<1>2. RepoInv(db)'
  BY DEF Apart
<1>3. CallShape'
  BY OthersKept DEF CallShape
<1>4. LocksHold'
  BY HoldsKept DEF LocksHold
<1>5. OwnersInOrder'
  BY OthersKept DEF OwnersInOrder
<1>6. ReadersApart'
  BY OthersKept DEF ReadersApart
<1> QED BY <1>1, <1>2, <1>3, <1>4, <1>5, <1>6 DEF Inv

\* Only its own commit uses a drawn invite ID.
LEMMA DrawnKept ==
    ASSUME Inv, NEW x \in Tx, NEW T, Apart(x, T),
           Creating(x)' => /\ Creating(x) /\ Op(x)'.invite = Op(x).invite
                           /\ db'.invites[Op(x).invite].state = "none",
           \A i \in Invite : <<"invite", i>> \in T /\ db.invites[i].state = "none" =>
              Creating(x) /\ Op(x).invite = i
    PROVE  InvitesDrawn'
<1>1. \A y \in Tx : y # x => (Creating(y)' <=> Creating(y)) /\ Op(y)' = Op(y)
  BY DEF Apart, Creating, Running, Op
<1>2. \A y \in Tx : Creating(y)' => Creating(y) /\ Op(y)'.invite = Op(y).invite
  BY <1>1
<1>3. \A y \in Tx : Creating(y) => /\ db.invites[Op(y).invite].state = "none"
                                   /\ Op(y).invite \in Invite
  BY DEF Inv, InvitesDrawn, CallShape, StageOf, Creating, WellFormed
<1>4. ASSUME NEW y \in Tx, Creating(y)'
      PROVE  db'.invites[Op(y)'.invite].state = "none"
  <2>1. CASE y = x
    BY <1>4, <2>1
  <2>2. CASE y # x
    <3>1. Creating(y) /\ Op(y)' = Op(y)
      BY <1>1, <1>4, <2>2
    <3>2. <<"invite", Op(y).invite>> \notin T
      BY <1>3, <2>2, <3>1 DEF Inv, InvitesDrawn
    <3> QED BY <1>3, <3>1, <3>2 DEF Apart, Frame
  <2> QED BY <2>1, <2>2
<1>5. ASSUME NEW y \in Tx, NEW z \in Tx, Creating(y)', Creating(z)', Op(z)'.invite = Op(y)'.invite
      PROVE  z = y
  BY <1>2, <1>5 DEF Inv, InvitesDrawn
<1> QED BY <1>4, <1>5 DEF InvitesDrawn

----------------------------------------------------------------------------
\* Rows taken and released.

\* A statement that takes no row.
LEMMA ApartQuiet ==
    ASSUME Inv, NEW x \in Tx, NEW t, tx' = [tx EXCEPT ![x] = t], db' = db, owner' = owner
    PROVE  /\ Apart(x, {}) /\ owner' \in [Row -> Tx \cup {None}]
           /\ tx'[x] = t
<1>1. tx \in [Tx -> Transaction] /\ owner \in [Row -> Tx \cup {None}] /\ RepoInv(db)
  BY DEF Inv, TypeOK
<1>2. RepoInv(db)' /\ Frame(db, db', {})
  BY <1>1, SameFrame
<1> QED BY <1>1, <1>2 DEF Apart

\* A statement that takes rows nobody else has.
LEMMA ApartTake ==
    ASSUME Inv, NEW x \in Tx, NEW t, tx' = [tx EXCEPT ![x] = t], db' = db,
           Granted(x), NEW rows, Take(x, rows), rows \subseteq Needs(x)
    PROVE  /\ Apart(x, {}) /\ owner' \in [Row -> Tx \cup {None}]
           /\ tx'[x] = t
           /\ \A row \in Row : owner'[row] = x <=> row \in rows \/ owner[row] = x
<1>1. tx \in [Tx -> Transaction] /\ owner \in [Row -> Tx \cup {None}] /\ RepoInv(db)
  BY DEF Inv, TypeOK
<1>2. RepoInv(db)' /\ Frame(db, db', {})
  BY <1>1, SameFrame
<1>3. \A row \in Row : owner'[row] = IF row \in rows THEN x ELSE owner[row]
  BY DEF Take
<1>4. \A row \in rows, y \in Tx \ {x} : owner[row] # y
  BY DEF Granted, WaitsFor
<1>5. owner' \in [Row -> Tx \cup {None}]
  BY <1>1 DEF Take
<1> QED BY <1>1, <1>2, <1>3, <1>4, <1>5 DEF Apart

\* COMMIT and ROLLBACK give up every row.
LEMMA ApartRelease ==
    ASSUME Inv, NEW x \in Tx, Release(x)
    PROVE  /\ owner' \in [Row -> Tx \cup {None}]
           /\ \A row \in Row : owner'[row] # x
           /\ \A row \in Row, y \in Tx \ {x} : owner'[row] = y <=> owner[row] = y
<1>1. owner \in [Row -> Tx \cup {None}]
  BY DEF Inv, TypeOK
<1>2. owner' = [row \in Row |-> IF owner[row] = x THEN None ELSE owner[row]]
  BY DEF Release
<1> QED BY <1>1, <1>2, TxAssumption

\* A transaction that is over.
LEMMA DoneInv ==
    ASSUME Inv, NEW x \in Tx, NEW T, Apart(x, T),
           tx' = [tx EXCEPT ![x] = [NoCall EXCEPT !.pc = "done"]],
           owner' \in [Row -> Tx \cup {None}], \A row \in Row : owner'[row] # x,
           \A i \in Invite : <<"invite", i>> \in T /\ db.invites[i].state = "none" =>
              Creating(x) /\ Op(x).invite = i
    PROVE  Inv'
<1> DEFINE t == [NoCall EXCEPT !.pc = "done"]
<1>1. t \in Transaction /\ t.pc = "done"
  BY DEF NoCall, Transaction, PC
<1>2. tx'[x] = t /\ tx' = [tx EXCEPT ![x] = t]
  BY DEF Inv, TypeOK
<1> HIDE DEF t
<1>3. tx'[x].pc = "done"
  BY <1>1, <1>2
<1>4. StageOf(x)'
  BY <1>3 DEF StageOf, Running, Reading
<1>5. Holds(x)'
  BY <1>3 DEF Holds, Writing
<1>6. OwnsInOrder(x)'
  <2>1. \A d \in Node : owner'[<<"node", d>>] # x
    BY DEF Row
  <2>2. \A row \in ({"id"} \X Node) \cup ({"key"} \X Key) : owner'[row] # x
    BY DEF Row
  <2>3. \A n \in Network : owner'[<<"network", n>>] # x
    BY DEF Row
  <2>4. \A i \in Invite : owner'[<<"invite", i>>] # x
    BY DEF Row
  <2>5. \A row \in ({"token"} \X Token) \cup ({"relay"} \X Assignment) : owner'[row] # x
    BY DEF Row
  <2> QED BY <2>1, <2>2, <2>3, <2>4, <2>5 DEF OwnsInOrder
<1>7. ReadsOneStore(x)'
  BY <1>3 DEF ReadsOneStore, Reading
<1>8. ~Creating(x)'
  BY <1>3 DEF Creating, Running
<1>9. InvitesDrawn'
  BY <1>8, DrawnKept
<1> QED BY <1>1, <1>2, <1>4, <1>5, <1>6, <1>7, <1>9, StepInv

\* Commit preserves the invariant.
LEMMA CommitInv ==
    ASSUME Inv, NEW x \in Tx, Commit(x)
    PROVE  Inv'
<1> DEFINE T == Touched(Op(x), tx[x].networks)
<1>1. /\ tx[x].pc = "commit" /\ db' = Effect(Op(x), tx[x].networks) /\ Release(x)
      /\ tx' = [tx EXCEPT ![x] = [NoCall EXCEPT !.pc = "done"]]
  BY DEF Commit
<1>2. RepoInv(db)' /\ Frame(db, db', T)
  BY <1>1, CommitEffect
<1>3. T \subseteq Row /\ \A row \in T : owner[row] = x
  BY <1>1, CommitChecks
<1>4. \A y \in Tx \ {x} : tx'[y] = tx[y]
  BY <1>1 DEF Inv, TypeOK
<1>5. /\ owner' \in [Row -> Tx \cup {None}] /\ \A row \in Row : owner'[row] # x
      /\ \A row \in Row, y \in Tx \ {x} : owner'[row] = y <=> owner[row] = y
  BY <1>1, ApartRelease
<1>6. ASSUME NEW i \in Invite, <<"invite", i>> \in T, db.invites[i].state = "none"
      PROVE  Creating(x) /\ Op(x).invite = i
  <2>1. Op(x).kind \in Kinds \ {"buildSnapshot"}
    BY <1>1, AtCommit DEF Operation
  <2>2. /\ Op(x).kind \in {"enroll", "createInvite", "revokeInvite", "consumeInvite"}
        /\ Op(x).invite = i
    BY <1>6, <2>1 DEF Touched, Kinds
  <2>3. Checked(Op(x), tx[x].networks)
    BY <1>1, CommitChecks
  <2>4. Op(x).kind = "createInvite"
    BY <1>6, <2>2, <2>3 DEF Checked, CanRevokeInvite
  <2> QED BY <1>1, <2>2, <2>4 DEF Creating, Running
<1> HIDE DEF T
<1>7. Apart(x, T)
  BY <1>2, <1>3, <1>4, <1>5 DEF Apart
<1> QED BY <1>1, <1>5, <1>6, <1>7, DoneInv

\* Rollback preserves the invariant.
LEMMA RollbackInv ==
    ASSUME Inv, NEW x \in Tx, Rollback(x)
    PROVE  Inv'
<1>1. db' = db /\ Release(x) /\ tx' = [tx EXCEPT ![x] = [NoCall EXCEPT !.pc = "done"]]
  BY DEF Rollback
<1>2. RepoInv(db)' /\ Frame(db, db', {})
  BY <1>1, SameFrame DEF Inv
<1>3. \A y \in Tx \ {x} : tx'[y] = tx[y]
  BY <1>1 DEF Inv, TypeOK
<1>4. /\ owner' \in [Row -> Tx \cup {None}] /\ \A row \in Row : owner'[row] # x
      /\ \A row \in Row, y \in Tx \ {x} : owner'[row] = y <=> owner[row] = y
  BY <1>1, ApartRelease
<1>5. Apart(x, {})
  BY <1>2, <1>3, <1>4 DEF Apart
<1> DEFINE N == {}
<1>6. Apart(x, N) /\ \A i \in Invite : <<"invite", i>> \notin N
  BY <1>5
<1> HIDE DEF N
<1> QED BY <1>1, <1>4, <1>6, DoneInv

\* ReadEnds preserves the invariant: a reader holds no row.
LEMMA ReadEndsInv ==
    ASSUME Inv, NEW x \in Tx, ReadEnds(x)
    PROVE  Inv'
<1>1. /\ tx[x].pc = "answer" /\ db' = db /\ owner' = owner
      /\ tx' = [tx EXCEPT ![x] = [NoCall EXCEPT !.pc = "done"]]
  BY DEF ReadEnds
<1>2. Apart(x, {}) /\ owner' \in [Row -> Tx \cup {None}]
  BY <1>1, ApartQuiet
<1>3. \A row \in Row : owner[row] # x
  BY <1>1 DEF Inv, OwnersInOrder, OwnsInOrder, Writing, Row
<1> DEFINE N == {}
<1>4. Apart(x, N) /\ \A i \in Invite : <<"invite", i>> \notin N
  BY <1>2
<1> HIDE DEF N
<1> QED BY <1>1, <1>2, <1>3, <1>4, DoneInv
----------------------------------------------------------------------------
\* The statements of a writer.

\* A statement of x that writes nothing another transaction can read.
LEMMA QuietInv ==
    ASSUME Inv, NEW x \in Tx, Apart(x, {}), db' = db, Running(x),
           NEW t \in Transaction, tx' = [tx EXCEPT ![x] = t], tx'[x] = t,
           t.pc \notin {"new", "done"}, t.op.kind = Op(x).kind,
           t.op.kind = "createInvite" => t.op.invite = Op(x).invite,
           owner' \in [Row -> Tx \cup {None}],
           StageOf(x)', Holds(x)', OwnsInOrder(x)', ReadsOneStore(x)'
    PROVE  Inv'
<1> DEFINE N == {}
<1>1. Apart(x, N) /\ \A i \in Invite : <<"invite", i>> \notin N
  OBVIOUS
<1>2. Creating(x)' => /\ Creating(x) /\ Op(x)'.invite = Op(x).invite
                      /\ db'.invites[Op(x).invite].state = "none"
  BY DEF Creating, Running, Op, Inv, InvitesDrawn
<1>3. Running(x)'
  BY DEF Running
<1> HIDE DEF N
<1>4. InvitesDrawn'
  BY <1>1, <1>2, DrawnKept
<1> QED BY <1>1, <1>3, <1>4, StepInv

\* What the invariant says of x alone.
LEMMA OfOne ==
    ASSUME Inv, NEW x \in Tx
    PROVE  /\ tx[x] \in Transaction /\ StageOf(x) /\ Holds(x) /\ OwnsInOrder(x)
           /\ ReadsOneStore(x) /\ RepoInv(db) /\ db \in Repo
  BY DEF Inv, TypeOK, CallShape, LocksHold, OwnersInOrder, ReadersApart

\* InsertNode preserves the invariant.
LEMMA InsertNodeInv ==
    ASSUME Inv, NEW x \in Tx, InsertNode(x)
    PROVE  Inv'
<1> DEFINE t == [tx[x] EXCEPT !.pc = "consume"]
<1>1. /\ tx[x].pc = "insert" /\ Granted(x) /\ CanAddNode(db, Op(x).node, Op(x).key)
      /\ Take(x, Needs(x)) /\ tx' = [tx EXCEPT ![x] = t] /\ db' = db
  BY DEF InsertNode
<1>2. /\ tx[x] \in Transaction /\ StageOf(x) /\ OwnsInOrder(x)
  BY OfOne
<1>3. /\ t \in Transaction /\ t.pc = "consume" /\ t.op = tx[x].op /\ t.want = tx[x].want
      /\ t.networks = tx[x].networks
  BY <1>2 DEF Transaction, PC
<1> HIDE DEF t
<1>4. /\ Apart(x, {}) /\ owner' \in [Row -> Tx \cup {None}] /\ tx'[x] = t
      /\ \A row \in Row : owner'[row] = x <=> row \in Needs(x) \/ owner[row] = x
  BY <1>1, ApartTake
<1>5. Needs(x) = {<<"id", Op(x).node>>, <<"key", Op(x).key>>}
  BY <1>1 DEF Needs
<1>6. /\ Op(x) \in Operation /\ WellFormed(Op(x)) /\ Op(x).kind = "enroll" /\ Running(x)
      /\ Op(x).node \in Node /\ Op(x).key \in Key
  BY <1>1, <1>2 DEF StageOf, Running, WellFormed
<1>7. Op(x)' = Op(x) /\ t.op = Op(x)
  BY <1>3, <1>4 DEF Op
<1>8. StageOf(x)'
  BY <1>3, <1>4, <1>6, <1>7 DEF StageOf, Reading
<1>9. Holds(x)'
  <2>1. owner'[<<"id", Op(x).node>>] = x /\ owner'[<<"key", Op(x).key>>] = x
    BY <1>4, <1>5, <1>6 DEF Row
  <2>2. CanAddNode(db, Op(x).node, Op(x).key)'
    BY <1>1, <1>7
  <2>3. NodesLocked(x)' = {} /\ ~HasConsumed(x)'
    BY <1>3, <1>4, <1>6, <1>7 DEF NodesLocked, HasConsumed
  <2> QED BY <1>3, <1>4, <1>6, <1>7, <2>1, <2>2, <2>3 DEF Holds
<1>10. OwnsInOrder(x)'
  <2>1. \A d \in Node : owner'[<<"node", d>>] # x
    BY <1>1, <1>2, <1>4, <1>5 DEF OwnsInOrder, Writing, Row
  <2>2. \A n \in Network : owner'[<<"network", n>>] # x
    BY <1>1, <1>2, <1>4, <1>5 DEF OwnsInOrder, Row
  <2>3. \A i \in Invite : owner'[<<"invite", i>>] # x
    BY <1>1, <1>2, <1>4, <1>5 DEF OwnsInOrder, Row
  <2>4. \A row \in ({"token"} \X Token) \cup ({"relay"} \X Assignment) : owner'[row] # x
    BY <1>1, <1>2, <1>4, <1>5 DEF OwnsInOrder, Row
  <2> QED BY <1>3, <1>4, <1>6, <1>7, <2>1, <2>2, <2>3, <2>4 DEF OwnsInOrder
<1>11. ReadsOneStore(x)'
  BY <1>3, <1>4 DEF ReadsOneStore, Reading
<1> QED BY <1>1, <1>3, <1>4, <1>6, <1>7, <1>8, <1>9, <1>10, <1>11, QuietInv

\* A nonempty set of numbers has a least element.
LEMMA Least ==
    ASSUME NEW S \in SUBSET Nat, S # {}
    PROVE  \E i \in S : \A j \in S : i <= j
<1>1. PICK i \in S : \A j \in S : ~(<<j, i>> \in OpToRel(<, Nat))
  BY NatLessThanWellFounded, WFMin, Zenon
<1>2. \A j \in S : ~(j < i)
  BY <1>1 DEF OpToRel
<1> QED
  BY <1>2

\* sortedUniqueStrings: the next ID to lock comes before all the others.
LEMMA NextIsFirst ==
    ASSUME NEW x, NEW S \in {Node, Network}, tx[x].want \subseteq S, tx[x].want # {}
    PROVE  /\ NextToLock(x) \in tx[x].want
           /\ \A z \in tx[x].want : z # NextToLock(x) => Rank[NextToLock(x)] < Rank[z]
           /\ \A z \in tx[x].want : Rank[NextToLock(x)] <= Rank[z]
<1> DEFINE w == tx[x].want
           R == {Rank[y] : y \in w}
<1>1. \A y \in S : y \in Node \cup Network /\ Rank[y] \in Nat
  BY OrderAssumption
<1>2. R \in SUBSET Nat /\ R # {}
  BY <1>1
<1>3. PICK m \in R : \A j \in R : m <= j
  <2> HIDE DEF R
  <2> QED BY <1>2, Least
<1>4. \E y \in w : \A z \in w : Rank[y] <= Rank[z]
  BY <1>3
<1>5. NextToLock(x) \in w /\ \A z \in w : Rank[NextToLock(x)] <= Rank[z]
  BY <1>4 DEF NextToLock
<1>6. ASSUME NEW z \in w, z # NextToLock(x) PROVE Rank[NextToLock(x)] < Rank[z]
  <2>1. Rank[NextToLock(x)] # Rank[z]
    BY <1>5, <1>6, OrderAssumption
  <2> QED BY <1>1, <1>5, <2>1
<1> QED BY <1>5, <1>6

\* LockNode preserves the invariant: the rows it has come before those it wants.
LEMMA LockNodeInv ==
    ASSUME Inv, NEW x \in Tx, LockNode(x)
    PROVE  Inv'
<1> DEFINE w == NextToLock(x)
           t == [tx[x] EXCEPT !.want = tx[x].want \ {w}]
<1>1. /\ tx[x].pc = "nodes" /\ tx[x].want # {} /\ Granted(x) /\ NodeExists(db, w)
      /\ Take(x, Needs(x)) /\ tx' = [tx EXCEPT ![x] = t] /\ db' = db
  BY DEF LockNode
<1>2. tx[x] \in Transaction /\ StageOf(x) /\ Holds(x) /\ OwnsInOrder(x)
  BY OfOne
<1>3. /\ Op(x) \in Operation /\ WellFormed(Op(x)) /\ Running(x)
      /\ Op(x).kind \notin {"enroll", "buildSnapshot"} /\ tx[x].want \subseteq Node
      /\ Op(x).kind # "removeRelayAssignment" => tx[x].want \subseteq {Op(x).node, Op(x).other}
  BY <1>1, <1>2 DEF StageOf, Running
<1>4. /\ w \in tx[x].want /\ w \in Node
      /\ \A z \in tx[x].want : z # w => Rank[w] < Rank[z]
  BY <1>1, <1>3, NextIsFirst
<1>5. Needs(x) = {<<"node", w>>}
  BY <1>1 DEF Needs
<1> HIDE DEF w
<1>6. /\ t \in Transaction /\ t.pc = "nodes" /\ t.op = tx[x].op /\ t.want = tx[x].want \ {w}
      /\ t.networks = tx[x].networks
  BY <1>1, <1>2 DEF Transaction
<1> HIDE DEF t
<1>7. /\ Apart(x, {}) /\ owner' \in [Row -> Tx \cup {None}] /\ tx'[x] = t
      /\ \A row \in Row : owner'[row] = x <=> row \in Needs(x) \/ owner[row] = x
  BY <1>1, ApartTake
<1>8. Op(x)' = Op(x) /\ t.op = Op(x)
  BY <1>6, <1>7 DEF Op
<1>9. StageOf(x)'
  BY <1>3, <1>6, <1>7, <1>8 DEF StageOf, Reading
<1>10. Holds(x)'
  <2>1. NodesLocked(x)' \subseteq NodesLocked(x) \cup {w}
    BY <1>1, <1>6, <1>7, <1>8 DEF NodesLocked
  <2>2. NodesLocked(x) \subseteq Node
    BY <1>3 DEF NodesLocked, Operation
  <2>3. \A d \in NodesLocked(x) : owner[<<"node", d>>] = x /\ NodeExists(db, d)
    BY <1>1, <1>2 DEF Holds, Writing
  <2>4. \A d \in NodesLocked(x)' : owner'[<<"node", d>>] = x /\ NodeExists(db, d)'
    <3> TAKE d \in NodesLocked(x)'
    <3>1. d \in Node /\ <<"node", d>> \in Row
      BY <1>4, <2>1, <2>2 DEF Row
    <3>2. CASE d = w
      BY <1>1, <1>5, <1>7, <3>1, <3>2
    <3>3. CASE d \in NodesLocked(x)
      BY <1>1, <1>7, <2>3, <3>1, <3>3
    <3> QED BY <2>1, <3>2, <3>3
  <2>5. ~HasConsumed(x)'
    BY <1>6, <1>7, <1>8 DEF HasConsumed
  <2> QED BY <1>3, <1>6, <1>7, <1>8, <2>4, <2>5 DEF Holds
<1>11. OwnsInOrder(x)'
  <2>1. \A d \in Node : owner'[<<"node", d>>] = x => d = w \/ owner[<<"node", d>>] = x
    BY <1>5, <1>7 DEF Row
  <2>2. Op(x).kind # "revokeInvite"
    BY <1>3, <1>4, NoneAssumption DEF WellFormed
  <2>3. ASSUME NEW d \in Node, owner'[<<"node", d>>] = x
        PROVE  /\ t.pc \in Writing /\ Op(x).kind # "revokeInvite"
               /\ t.pc = "nodes" => \A v \in t.want : Rank[d] < Rank[v]
    <3>1. CASE d = w
      BY <1>4, <1>6, <2>2, <3>1 DEF Writing
    <3>2. CASE owner[<<"node", d>>] = x
      BY <1>1, <1>2, <1>6, <2>2, <3>2 DEF OwnsInOrder, Writing
    <3> QED BY <2>1, <2>3, <3>1, <3>2
  <2>4. \A row \in ({"id"} \X Node) \cup ({"key"} \X Key) : owner'[row] # x
    BY <1>1, <1>2, <1>5, <1>7 DEF OwnsInOrder, Row
  <2>5. \A n \in Network : owner'[<<"network", n>>] # x
    BY <1>1, <1>2, <1>5, <1>7 DEF OwnsInOrder, Row
  <2>6. \A i \in Invite : owner'[<<"invite", i>>] # x
    BY <1>1, <1>2, <1>5, <1>7 DEF OwnsInOrder, Row
  <2>7. \A row \in ({"token"} \X Token) \cup ({"relay"} \X Assignment) : owner'[row] # x
    BY <1>1, <1>2, <1>5, <1>7 DEF OwnsInOrder, Row
  <2> QED BY <1>6, <1>7, <1>8, <2>3, <2>4, <2>5, <2>6, <2>7 DEF OwnsInOrder
<1>12. ReadsOneStore(x)'
  BY <1>6, <1>7 DEF ReadsOneStore, Reading
<1> QED BY <1>1, <1>3, <1>6, <1>7, <1>8, <1>9, <1>10, <1>11, <1>12, QuietInv

\* The networks a call locks are networks.
LEMMA NetworksTyped ==
    ASSUME NEW o \in Operation
    PROVE  NetworksToLock(o) \subseteq Network
<1>1. o.network \in Network \cup {None}
  BY DEF Operation
<1>2. AffectedNetworks(o.node) \subseteq Network /\ NodeNetworks(db, o.node) \subseteq Network
  BY DEF AffectedNetworks, NodeNetworks
<1> QED BY <1>1, <1>2 DEF NetworksToLock

\* ReadNetworks preserves the invariant.
LEMMA ReadNetworksInv ==
    ASSUME Inv, NEW x \in Tx, ReadNetworks(x)
    PROVE  Inv'
<1> DEFINE ns == NetworksToLock(Op(x))
           pc == IF Op(x).kind = "consumeInvite" THEN "consume" ELSE "networks"
           t == [tx[x] EXCEPT !.pc = pc, !.want = ns, !.networks = ns]
<1>1. /\ tx[x].pc = "nodes" /\ tx[x].want = {}
      /\ tx' = [tx EXCEPT ![x] = t] /\ db' = db /\ owner' = owner
  BY DEF ReadNetworks
<1>2. tx[x] \in Transaction /\ StageOf(x) /\ Holds(x) /\ OwnsInOrder(x)
  BY OfOne
<1>3. /\ Op(x) \in Operation /\ WellFormed(Op(x)) /\ Running(x)
      /\ Op(x).kind \notin {"enroll", "buildSnapshot"}
  BY <1>1, <1>2 DEF StageOf, Running
<1>4. ns \subseteq Network
  BY <1>3, NetworksTyped
<1>5. pc \in {"consume", "networks"} /\ (pc = "consume" <=> Op(x).kind = "consumeInvite")
  OBVIOUS
<1> HIDE DEF ns, pc
<1>6. /\ t \in Transaction /\ t.pc = pc /\ t.op = tx[x].op /\ t.want = ns /\ t.networks = ns
  <2>1. pc \in PC /\ ns \in SUBSET Network /\ ns \in SUBSET (Node \cup Network)
    BY <1>4, <1>5 DEF PC
  <2> QED BY <1>2, <2>1 DEF Transaction
<1> HIDE DEF t
<1>7. Apart(x, {}) /\ owner' \in [Row -> Tx \cup {None}] /\ tx'[x] = t
  BY <1>1, ApartQuiet
<1>8. Op(x)' = Op(x) /\ t.op = Op(x)
  BY <1>6, <1>7 DEF Op
<1>9. StageOf(x)'
  BY <1>3, <1>5, <1>6, <1>7, <1>8 DEF StageOf, Reading
<1>10. Holds(x)'
  <2>1. NodesLocked(x)' = NodesLocked(x)
    BY <1>1, <1>5, <1>6, <1>7, <1>8 DEF NodesLocked
  <2>2. \A d \in NodesLocked(x) : owner[<<"node", d>>] = x /\ NodeExists(db, d)
    BY <1>1, <1>2 DEF Holds, Writing
  <2>3. \A d \in NodesLocked(x)' : owner'[<<"node", d>>] = x /\ NodeExists(db, d)'
    BY <1>1, <2>1, <2>2
  <2>4. ~HasConsumed(x)'
    BY <1>3, <1>5, <1>6, <1>7, <1>8 DEF HasConsumed
  <2>5. NetworksToLock(Op(x))' = ns
    BY <1>1, <1>8 DEF ns, NetworksToLock, AffectedNetworks, NodeNetworks
  <2> QED BY <1>3, <1>5, <1>6, <1>7, <1>8, <2>3, <2>4, <2>5 DEF Holds
<1>11. OwnsInOrder(x)'
  BY <1>1, <1>2, <1>5, <1>6, <1>7, <1>8 DEF OwnsInOrder, Writing
<1>12. ReadsOneStore(x)'
  BY <1>5, <1>6, <1>7 DEF ReadsOneStore, Reading
<1>13. t.pc \notin {"new", "done"}
  BY <1>5, <1>6
<1> QED BY <1>1, <1>3, <1>6, <1>7, <1>8, <1>9, <1>10, <1>11, <1>12, <1>13, QuietInv

\* ConsumeInvite preserves the invariant: the invite's row is locked, and its
\* network is now the call's.
LEMMA ConsumeInviteStepInv ==
    ASSUME Inv, NEW x \in Tx, ConsumeInvite(x)
    PROVE  Inv'
<1>1. /\ tx[x].pc = "consume" /\ Granted(x) /\ db' = db
  BY DEF ConsumeInvite
<1>2. PICK i \in Matching(Op(x)) :
         LET concerned == IF Op(x).kind = "enroll" THEN {db.invites[i].network} ELSE {}
         IN  /\ Take(x, {<<"invite", i>>})
             /\ tx' = [tx EXCEPT ![x] =
                         [@ EXCEPT !.pc = IF concerned = {} THEN "commit" ELSE "networks",
                                   !.op = [Op(x) EXCEPT !.invite = i,
                                                        !.network = db.invites[i].network],
                                   !.want = concerned, !.networks = concerned]]
  BY DEF ConsumeInvite
<1> DEFINE n == db.invites[i].network
           ns == IF Op(x).kind = "enroll" THEN {n} ELSE {}
           pc == IF ns = {} THEN "commit" ELSE "networks"
           op == [Op(x) EXCEPT !.invite = i, !.network = n]
           t == [tx[x] EXCEPT !.pc = pc, !.op = op, !.want = ns, !.networks = ns]
<1>3. Take(x, {<<"invite", i>>}) /\ tx' = [tx EXCEPT ![x] = t]
  BY <1>2
<1>4. tx[x] \in Transaction /\ StageOf(x) /\ Holds(x) /\ OwnsInOrder(x) /\ RepoInv(db) /\ db \in Repo
  BY OfOne
<1>5. /\ Op(x) \in Operation /\ WellFormed(Op(x)) /\ Running(x)
      /\ Op(x).kind \in {"enroll", "consumeInvite"}
  BY <1>1, <1>4 DEF StageOf, Running
<1>6. i \in Invite /\ db.invites[i].state = "unused" /\ n \in Network
  BY <1>4 DEF Matching, RepoInv, InvitesAccounted
<1>7. /\ pc \in {"networks", "commit"} /\ ns \subseteq Network
      /\ Op(x).kind = "enroll" => ns = {n} /\ pc = "networks"
      /\ Op(x).kind = "consumeInvite" => ns = {} /\ pc = "commit"
  BY <1>5, <1>6
<1>o. PICK o : o = op
  OBVIOUS
<1>8. /\ o \in Operation /\ o.kind = Op(x).kind /\ o.node = Op(x).node /\ o.other = Op(x).other
      /\ o.key = Op(x).key /\ o.token = Op(x).token /\ o.value = Op(x).value
      /\ o.invite = i /\ o.network = n
  <2> HIDE DEF n
  <2> QED BY <1>5, <1>6, <1>o DEF Operation
<1> HIDE DEF n, ns, pc, op
<1>9. WellFormed(o)
  BY <1>5, <1>8 DEF WellFormed
<1>10. /\ t \in Transaction /\ t.pc = pc /\ t.op = o /\ t.want = ns /\ t.networks = ns
  <2>1. pc \in PC /\ ns \in SUBSET Network /\ ns \in SUBSET (Node \cup Network)
    BY <1>7 DEF PC
  <2> QED BY <1>4, <1>8, <1>o, <2>1 DEF Transaction
<1> HIDE DEF t
<1>11. Needs(x) = {<<"invite", j>> : j \in Matching(Op(x))}
  BY <1>1 DEF Needs
<1>12. /\ Apart(x, {}) /\ owner' \in [Row -> Tx \cup {None}] /\ tx'[x] = t
       /\ \A row \in Row : owner'[row] = x <=> row \in {<<"invite", i>>} \/ owner[row] = x
  <2>1. {<<"invite", i>>} \subseteq Needs(x)
    BY <1>11
  <2> HIDE DEF Needs
  <2> QED BY <1>1, <1>3, <2>1, ApartTake
<1>13. Op(x)' = o
  BY <1>10, <1>12 DEF Op
<1>14. StageOf(x)'
  BY <1>5, <1>7, <1>8, <1>9, <1>10, <1>12, <1>13 DEF StageOf, Reading
<1>15. Holds(x)'
  <2>1. NodesLocked(x)' = NodesLocked(x)
    BY <1>1, <1>7, <1>8, <1>10, <1>12, <1>13 DEF NodesLocked
  <2>2. \A d \in NodesLocked(x) : owner[<<"node", d>>] = x /\ NodeExists(db, d)
    BY <1>1, <1>4 DEF Holds, Writing
  <2>3. NodesLocked(x) \subseteq Node
    BY <1>5 DEF NodesLocked, Operation
  <2>4. \A d \in NodesLocked(x)' : owner'[<<"node", d>>] = x /\ NodeExists(db, d)'
    BY <1>1, <1>12, <2>1, <2>2, <2>3 DEF Row
  <2>5. Op(x).kind = "enroll" => NetworksToLock(o)' = ns
    BY <1>6, <1>7, <1>8, NoneAssumption DEF NetworksToLock
  <2>6. Op(x).kind = "enroll" =>
           /\ owner'[<<"id", o.node>>] = x /\ owner'[<<"key", o.key>>] = x
           /\ CanAddNode(db, o.node, o.key)'
    <3> SUFFICES ASSUME Op(x).kind = "enroll"
                 PROVE  /\ owner'[<<"id", o.node>>] = x /\ owner'[<<"key", o.key>>] = x
                        /\ CanAddNode(db, o.node, o.key)'
      OBVIOUS
    <3>1. /\ owner[<<"id", Op(x).node>>] = x /\ owner[<<"key", Op(x).key>>] = x
          /\ CanAddNode(db, Op(x).node, Op(x).key)
      BY <1>1, <1>4 DEF Holds, Writing
    <3>2. <<"id", o.node>> \in Row /\ <<"key", o.key>> \in Row
      BY <1>8, <1>9 DEF WellFormed, Row
    <3>3. CanAddNode(db, o.node, o.key)'
      BY <1>1, <1>8, <3>1 DEF CanAddNode, NodeExists
    <3> QED BY <1>8, <1>12, <3>1, <3>2, <3>3
  <2>7. /\ o.invite \in Invite /\ owner'[<<"invite", o.invite>>] = x
        /\ db'.invites[o.invite].state = "unused"
        /\ o.network = db'.invites[o.invite].network
    BY <1>1, <1>6, <1>8, <1>12 DEF Row, n
  <2>8. o.kind = "consumeInvite" => Writes(o, o.address)' /\ RowsToWrite(o)' = {}
    BY DEF Writes, RowsToWrite
  <2>9. /\ NetworksToLock(Op(x))' = NetworksToLock(o)'
        /\ Writes(Op(x), Op(x).address)' = Writes(o, o.address)'
        /\ RowsToWrite(Op(x))' = RowsToWrite(o)'
        /\ CanAddNode(db, Op(x).node, Op(x).key)' = CanAddNode(db, o.node, o.key)'
    BY <1>13
  <2>10. ns \ ns = {}
    OBVIOUS
  <2> QED BY <1>5, <1>7, <1>8, <1>10, <1>12, <1>13, <2>4, <2>5, <2>6, <2>7, <2>8, <2>9, <2>10
          DEF Holds
<1>16. OwnsInOrder(x)'
  <2>1. \A d \in Node : owner'[<<"node", d>>] = x => owner[<<"node", d>>] = x
    BY <1>12 DEF Row
  <2>2. \A n2 \in Network : owner'[<<"network", n2>>] # x
    BY <1>1, <1>4, <1>12 DEF OwnsInOrder, Row
  <2>3. \A j \in Invite : owner'[<<"invite", j>>] = x => j = i
    BY <1>1, <1>4, <1>5, <1>12 DEF OwnsInOrder, Row
  <2>4. \A row \in ({"token"} \X Token) \cup ({"relay"} \X Assignment) : owner'[row] # x
    BY <1>1, <1>4, <1>12 DEF OwnsInOrder, Row
  <2>5. /\ t.pc \in Writing /\ t.pc \in {"consume", "networks", "commit"} /\ t.pc # "nodes"
        /\ o.kind # "revokeInvite"
        /\ o.kind # "enroll" => t.pc = "commit"
        /\ o.kind = "enroll" => t.pc = "networks"
    BY <1>5, <1>7, <1>8, <1>10 DEF Writing
  <2> QED BY <1>8, <1>12, <1>13, <2>1, <2>2, <2>3, <2>4, <2>5 DEF OwnsInOrder
<1>17. ReadsOneStore(x)'
  BY <1>7, <1>10, <1>12 DEF ReadsOneStore, Reading
<1>18. /\ t.pc \notin {"new", "done"} /\ t.op.kind = Op(x).kind
       /\ t.op.kind = "createInvite" => t.op.invite = Op(x).invite
  BY <1>5, <1>7, <1>8, <1>10
<1> QED BY <1>1, <1>3, <1>5, <1>10, <1>12, <1>14, <1>15, <1>16, <1>17, <1>18, QuietInv

\* LockNetwork preserves the invariant.
LEMMA LockNetworkInv ==
    ASSUME Inv, NEW x \in Tx, LockNetwork(x)
    PROVE  Inv'
<1> DEFINE w == NextToLock(x)
           t == [tx[x] EXCEPT !.want = tx[x].want \ {w}]
<1>1. /\ tx[x].pc = "networks" /\ tx[x].want # {} /\ Granted(x) /\ NetworkExists(db, w)
      /\ Take(x, Needs(x)) /\ tx' = [tx EXCEPT ![x] = t] /\ db' = db
  BY DEF LockNetwork
<1>2. tx[x] \in Transaction /\ StageOf(x) /\ Holds(x) /\ OwnsInOrder(x)
  BY OfOne
<1>3. /\ Op(x) \in Operation /\ WellFormed(Op(x)) /\ Running(x)
      /\ Op(x).kind \notin {"consumeInvite", "buildSnapshot"}
      /\ tx[x].want \subseteq tx[x].networks /\ tx[x].networks \subseteq Network
  BY <1>1, <1>2 DEF StageOf, Running, Transaction
<1>4. /\ w \in tx[x].want /\ w \in Network
      /\ \A z \in tx[x].want : z # w => Rank[w] < Rank[z]
  BY <1>1, <1>3, NextIsFirst
<1>5. Needs(x) = {<<"network", w>>}
  BY <1>1 DEF Needs
<1> HIDE DEF w
<1>6. /\ t \in Transaction /\ t.pc = "networks" /\ t.op = tx[x].op /\ t.want = tx[x].want \ {w}
      /\ t.networks = tx[x].networks
  BY <1>1, <1>2 DEF Transaction
<1> HIDE DEF t
<1>7. /\ Apart(x, {}) /\ owner' \in [Row -> Tx \cup {None}] /\ tx'[x] = t
      /\ \A row \in Row : owner'[row] = x <=> row \in Needs(x) \/ owner[row] = x
  BY <1>1, ApartTake
<1>8. Op(x)' = Op(x) /\ t.op = Op(x)
  BY <1>6, <1>7 DEF Op
<1>9. StageOf(x)'
  BY <1>3, <1>6, <1>7, <1>8 DEF StageOf, Reading
<1>10. Holds(x)'
  <2>1. NodesLocked(x)' = NodesLocked(x) /\ (HasConsumed(x)' <=> HasConsumed(x))
    BY <1>1, <1>6, <1>7, <1>8 DEF NodesLocked, HasConsumed
  <2>2. NodesLocked(x) \subseteq Node
    BY <1>3 DEF NodesLocked, Operation
  <2>3. \A d \in NodesLocked(x) : owner[<<"node", d>>] = x /\ NodeExists(db, d)
    BY <1>1, <1>2 DEF Holds, Writing
  <2>4. \A d \in NodesLocked(x)' : owner'[<<"node", d>>] = x /\ NodeExists(db, d)'
    BY <1>1, <1>7, <2>1, <2>2, <2>3 DEF Row
  <2>5. \A n \in tx[x].networks \ tx[x].want : owner[<<"network", n>>] = x /\ NetworkExists(db, n)
    BY <1>1, <1>2 DEF Holds
  <2>6. \A n \in t.networks \ t.want : owner'[<<"network", n>>] = x /\ NetworkExists(db, n)'
    <3> TAKE n \in t.networks \ t.want
    <3>1. <<"network", n>> \in Row
      BY <1>3, <1>6 DEF Row
    <3>2. n = w \/ n \in tx[x].networks \ tx[x].want
      BY <1>6
    <3> QED BY <1>1, <1>5, <1>7, <2>5, <3>1, <3>2
  <2>7. t.networks = NetworksToLock(Op(x))'
    <3>1. tx[x].networks = NetworksToLock(Op(x))
      BY <1>1, <1>2, <1>3 DEF Holds
    <3> QED BY <1>1, <1>6, <1>8, <3>1 DEF NetworksToLock, AffectedNetworks, NodeNetworks
  <2>8. Op(x).kind = "enroll" =>
           /\ owner'[<<"id", Op(x).node>>] = x /\ owner'[<<"key", Op(x).key>>] = x
           /\ CanAddNode(db, Op(x).node, Op(x).key)'
    <3> SUFFICES ASSUME Op(x).kind = "enroll"
                 PROVE  /\ owner'[<<"id", Op(x).node>>] = x /\ owner'[<<"key", Op(x).key>>] = x
                        /\ CanAddNode(db, Op(x).node, Op(x).key)'
      OBVIOUS
    <3>1. /\ owner[<<"id", Op(x).node>>] = x /\ owner[<<"key", Op(x).key>>] = x
          /\ CanAddNode(db, Op(x).node, Op(x).key)
      BY <1>1, <1>2 DEF Holds, Writing
    <3>2. <<"id", Op(x).node>> \in Row /\ <<"key", Op(x).key>> \in Row
      BY <1>3 DEF WellFormed, Row
    <3>3. CanAddNode(db, Op(x).node, Op(x).key)'
      BY <1>1, <1>8, <3>1 DEF CanAddNode, NodeExists
    <3> QED BY <1>7, <3>1, <3>2, <3>3
  <2>9. HasConsumed(x) =>
           /\ Op(x).invite \in Invite /\ owner'[<<"invite", Op(x).invite>>] = x
           /\ db'.invites[Op(x).invite].state = "unused"
           /\ Op(x).network = db'.invites[Op(x).invite].network
    BY <1>1, <1>2, <1>7 DEF Holds, Writing, Row
  <2> QED BY <1>3, <1>6, <1>7, <1>8, <2>1, <2>4, <2>6, <2>7, <2>8, <2>9 DEF Holds
<1>11. OwnsInOrder(x)'
  <2>1. \A d \in Node : owner'[<<"node", d>>] = x => owner[<<"node", d>>] = x
    BY <1>5, <1>7 DEF Row
  <2>2. \A row \in ({"id"} \X Node) \cup ({"key"} \X Key) : owner'[row] = x => owner[row] = x
    BY <1>5, <1>7 DEF Row
  <2>3. ASSUME NEW n \in Network, owner'[<<"network", n>>] = x
        PROVE  n \in t.networks /\ \A v \in t.want : Rank[n] < Rank[v]
    <3>1. n = w \/ owner[<<"network", n>>] = x
      BY <1>5, <1>7, <2>3 DEF Row
    <3>2. CASE n = w
      BY <1>3, <1>4, <1>6, <3>2
    <3>3. CASE owner[<<"network", n>>] = x
      BY <1>2, <1>6, <3>3 DEF OwnsInOrder
    <3> QED BY <3>1, <3>2, <3>3
  <2>4. \A i \in Invite : owner'[<<"invite", i>>] = x => owner[<<"invite", i>>] = x
    BY <1>5, <1>7 DEF Row
  <2>5. \A row \in ({"token"} \X Token) \cup ({"relay"} \X Assignment) : owner'[row] # x
    BY <1>1, <1>2, <1>5, <1>7 DEF OwnsInOrder, Row
  <2> QED BY <1>1, <1>2, <1>6, <1>7, <1>8, <2>1, <2>2, <2>3, <2>4, <2>5 DEF OwnsInOrder
<1>12. ReadsOneStore(x)'
  BY <1>6, <1>7 DEF ReadsOneStore, Reading
<1> QED BY <1>1, <1>3, <1>6, <1>7, <1>8, <1>9, <1>10, <1>11, <1>12, QuietInv

\* Write preserves the invariant: what it checked is what the commit stands on.
LEMMA WriteInv ==
    ASSUME Inv, NEW x \in Tx, Write(x)
    PROVE  Inv'
<1>1. tx[x].pc = "networks" /\ tx[x].want = {} /\ Granted(x) /\ Take(x, Needs(x)) /\ db' = db
  BY DEF Write
<1>2. PICK a \in IF Op(x).kind = "enroll" THEN Address ELSE {Op(x).address} :
         /\ Writes(Op(x), a)
         /\ tx' = [tx EXCEPT ![x] = [@ EXCEPT !.pc = "commit",
                                              !.op = [Op(x) EXCEPT !.address = a]]]
  BY DEF Write
<1> DEFINE op == [Op(x) EXCEPT !.address = a]
           t == [tx[x] EXCEPT !.pc = "commit", !.op = op]
<1>3. Writes(Op(x), a) /\ tx' = [tx EXCEPT ![x] = t]
  BY <1>2
<1>4. tx[x] \in Transaction /\ StageOf(x) /\ Holds(x) /\ OwnsInOrder(x)
  BY OfOne
<1>5. /\ Op(x) \in Operation /\ WellFormed(Op(x)) /\ Running(x)
      /\ Op(x).kind \notin {"consumeInvite", "buildSnapshot"}
      /\ tx[x].networks \subseteq Network
  BY <1>1, <1>4 DEF StageOf, Running, Transaction
<1>6. a \in Address \cup {None}
  BY <1>5 DEF Operation
<1>o. PICK o : o = op
  OBVIOUS
<1>7. /\ o \in Operation /\ o.kind = Op(x).kind /\ o.node = Op(x).node /\ o.other = Op(x).other
      /\ o.key = Op(x).key /\ o.token = Op(x).token /\ o.value = Op(x).value
      /\ o.invite = Op(x).invite /\ o.network = Op(x).network
      /\ o.assignment = Op(x).assignment /\ o.address = a
  BY <1>5, <1>6, <1>o DEF Operation
<1> HIDE DEF op
<1>8. WellFormed(o)
  BY <1>5, <1>7 DEF WellFormed
<1>9. /\ t \in Transaction /\ t.pc = "commit" /\ t.op = o /\ t.want = {}
      /\ t.networks = tx[x].networks
  BY <1>1, <1>4, <1>7, <1>o DEF Transaction, PC
<1> HIDE DEF t
<1>10. Needs(x) = RowsToWrite(Op(x))
  BY <1>1 DEF Needs
<1>11. /\ Apart(x, {}) /\ owner' \in [Row -> Tx \cup {None}] /\ tx'[x] = t
       /\ \A row \in Row : owner'[row] = x <=> row \in Needs(x) \/ owner[row] = x
  BY <1>1, <1>3, ApartTake
<1>12. Op(x)' = o
  BY <1>9, <1>11 DEF Op
<1>13. /\ NetworksToLock(o)' = NetworksToLock(Op(x)) /\ RowsToWrite(o)' = RowsToWrite(Op(x))
       /\ CanAddNode(db, o.node, o.key)' = CanAddNode(db, Op(x).node, Op(x).key)
  BY <1>1, <1>7 DEF NetworksToLock, AffectedNetworks, NodeNetworks, RowsToWrite, CanAddNode,
                    NodeExists
<1>14. Writes(o, o.address)'
  <2>1. o.kind \in Kinds
    BY <1>7 DEF Operation
  <2>2. db' = db /\ Writes(Op(x), a)
    BY <1>1, <1>3
  <2> QED BY <1>7, <2>1, <2>2 DEF Writes, Unassigned, AssignmentNodes, Kinds
<1>15. StageOf(x)'
  BY <1>5, <1>7, <1>8, <1>9, <1>11, <1>12 DEF StageOf, Reading
<1>16. Holds(x)'
  <2>1. NodesLocked(x)' = NodesLocked(x) /\ (HasConsumed(x)' <=> HasConsumed(x))
    BY <1>1, <1>5, <1>7, <1>9, <1>11, <1>12 DEF NodesLocked, HasConsumed
  <2>2. NodesLocked(x) \subseteq Node
    BY <1>5 DEF NodesLocked, Operation
  <2>3. \A d \in NodesLocked(x) : owner[<<"node", d>>] = x /\ NodeExists(db, d)
    BY <1>1, <1>4 DEF Holds, Writing
  <2>4. \A d \in NodesLocked(x)' : owner'[<<"node", d>>] = x /\ NodeExists(db, d)'
    BY <1>1, <1>11, <2>1, <2>2, <2>3 DEF Row
  <2>5. /\ \A n \in tx[x].networks : owner[<<"network", n>>] = x /\ NetworkExists(db, n)
        /\ tx[x].networks = NetworksToLock(Op(x))
    BY <1>1, <1>4, <1>5 DEF Holds
  <2>6. /\ \A n \in t.networks : owner'[<<"network", n>>] = x /\ NetworkExists(db, n)'
        /\ t.networks = NetworksToLock(o)'
    BY <1>1, <1>5, <1>9, <1>11, <1>13, <2>5 DEF Row
  <2>7. o.kind = "enroll" =>
           /\ owner'[<<"id", o.node>>] = x /\ owner'[<<"key", o.key>>] = x
           /\ CanAddNode(db, o.node, o.key)'
    <3> SUFFICES ASSUME o.kind = "enroll"
                 PROVE  /\ owner'[<<"id", o.node>>] = x /\ owner'[<<"key", o.key>>] = x
                        /\ CanAddNode(db, o.node, o.key)'
      OBVIOUS
    <3>1. /\ owner[<<"id", Op(x).node>>] = x /\ owner[<<"key", Op(x).key>>] = x
          /\ CanAddNode(db, Op(x).node, Op(x).key)
      BY <1>1, <1>4, <1>7 DEF Holds, Writing
    <3>2. <<"id", o.node>> \in Row /\ <<"key", o.key>> \in Row
      BY <1>8 DEF WellFormed, Row
    <3> QED BY <1>7, <1>11, <1>13, <3>1, <3>2
  <2>8. HasConsumed(x) =>
           /\ o.invite \in Invite /\ owner'[<<"invite", o.invite>>] = x
           /\ db'.invites[o.invite].state = "unused"
           /\ o.network = db'.invites[o.invite].network
    BY <1>1, <1>4, <1>7, <1>11 DEF Holds, Writing, Row
  <2>9. o.kind # "removeNode" => \A row \in RowsToWrite(o)' : owner'[row] = x
    BY <1>5, <1>7, <1>10, <1>11, <1>13, RowsToWriteTyped
  <2>10. /\ NetworksToLock(Op(x))' = NetworksToLock(o)'
         /\ Writes(Op(x), Op(x).address)' = Writes(o, o.address)'
         /\ RowsToWrite(Op(x))' = RowsToWrite(o)'
         /\ CanAddNode(db, Op(x).node, Op(x).key)' = CanAddNode(db, o.node, o.key)'
    BY <1>12
  <2> QED BY <1>5, <1>7, <1>9, <1>11, <1>12, <1>14, <2>1, <2>4, <2>6, <2>7, <2>8, <2>9, <2>10
          DEF Holds
<1>17. OwnsInOrder(x)'
  <2>0. Needs(x) \subseteq ({"invite"} \X Invite) \cup ({"token"} \X Token) \cup ({"relay"} \X Assignment)
    BY <1>5, <1>10 DEF RowsToWrite, WellFormed
  <2>1. \A d \in Node : owner'[<<"node", d>>] = x => owner[<<"node", d>>] = x
    BY <1>11, <2>0 DEF Row
  <2>2. \A row \in ({"id"} \X Node) \cup ({"key"} \X Key) : owner'[row] = x => owner[row] = x
    BY <1>11, <2>0 DEF Row
  <2>3. \A n \in Network : owner'[<<"network", n>>] = x => owner[<<"network", n>>] = x
    BY <1>11, <2>0 DEF Row
  <2> QED BY <1>1, <1>4, <1>7, <1>9, <1>11, <1>12, <2>1, <2>2, <2>3 DEF OwnsInOrder, Writing
<1>18. ReadsOneStore(x)'
  BY <1>9, <1>11 DEF ReadsOneStore, Reading
<1>19. /\ t.pc \notin {"new", "done"} /\ t.op.kind = Op(x).kind
       /\ t.op.kind = "createInvite" => t.op.invite = Op(x).invite
  BY <1>7, <1>9
<1> QED BY <1>1, <1>3, <1>5, <1>9, <1>11, <1>15, <1>16, <1>17, <1>18, <1>19, QuietInv

\* Begin preserves the invariant: a call starts without locks, and a new
\* invite's ID is nobody else's.
LEMMA BeginInv ==
    ASSUME Inv, NEW x \in Tx, NEW o \in Operations, Begin(x, o)
    PROVE  Inv'
<1> DEFINE pc == CASE o.kind = "enroll"        -> "insert"
                   [] o.kind = "buildSnapshot" -> "network"
                   [] OTHER                    -> "nodes"
           w == IF o.kind \in {"enroll", "buildSnapshot"} THEN {} ELSE NodesToLock(o)
           t == [tx[x] EXCEPT !.op = o, !.pc = pc, !.want = w]
<1>1. /\ tx[x].pc = "new" /\ Drawn(o) /\ tx' = [tx EXCEPT ![x] = t] /\ db' = db /\ owner' = owner
  BY DEF Begin
<1>2. o \in Operation /\ WellFormed(o) /\ tx[x] \in Transaction /\ RepoInv(db)
  BY OperationsAssumption, OfOne
<1>3. /\ pc \in {"insert", "network", "nodes"}
      /\ pc = "insert" <=> o.kind = "enroll"
      /\ pc = "network" <=> o.kind = "buildSnapshot"
  OBVIOUS
<1>4. /\ w \subseteq Node
      /\ pc = "nodes" /\ o.kind # "removeRelayAssignment" => w = {o.node, o.other} \ {None}
  <2>1. {o.node, o.other} \ {None} \subseteq Node
    BY <1>2 DEF Operation
  <2>2. o.kind = "removeRelayAssignment" => AssignmentNodes(o.network) \subseteq Node
    BY <1>2 DEF AssignmentNodes, WellFormed, RepoInv, RelaysAreMembers
  <2> QED BY <2>1, <2>2 DEF NodesToLock
<1> HIDE DEF pc, w
<1>5. t \in Transaction /\ t.pc = pc /\ t.op = o /\ t.want = w
  <2>1. pc \in PC /\ w \in SUBSET (Node \cup Network)
    BY <1>3, <1>4 DEF PC
  <2> QED BY <1>2, <2>1 DEF Transaction
<1> HIDE DEF t
<1>6. Apart(x, {}) /\ owner' \in [Row -> Tx \cup {None}] /\ tx'[x] = t
  BY <1>1, ApartQuiet
<1>7. Op(x)' = o
  BY <1>5, <1>6 DEF Op
<1>8. \A row \in Row : owner'[row] # x
  BY <1>1 DEF Inv, TypeOK, Running
<1>9. StageOf(x)'
  BY <1>2, <1>3, <1>4, <1>5, <1>6, <1>7 DEF StageOf, Reading
<1>10. Holds(x)'
  <2>1. pc = "nodes" => NodesLocked(x)' = {}
    BY <1>4, <1>5, <1>6, <1>7 DEF NodesLocked
  <2>2. ~HasConsumed(x)'
    BY <1>3, <1>5, <1>6, <1>7 DEF HasConsumed
  <2>3. pc \in Writing => pc = "nodes" /\ o.kind # "enroll"
    BY <1>3 DEF Writing
  <2> QED BY <1>3, <1>5, <1>6, <1>7, <2>1, <2>2, <2>3 DEF Holds
<1>11. OwnsInOrder(x)'
  BY <1>8 DEF OwnsInOrder, Row
<1>12. ReadsOneStore(x)'
  BY <1>3, <1>5, <1>6 DEF ReadsOneStore, Reading
<1>13. InvitesDrawn'
  <2>1. \A y \in Tx : y # x => (Creating(y)' <=> Creating(y)) /\ Op(y)' = Op(y)
    BY <1>6 DEF Apart, Creating, Running, Op
  <2>2. Creating(x)' => /\ db'.invites[o.invite].state = "none"
                        /\ \A y \in Tx : Creating(y) => Op(y).invite # o.invite
    BY <1>1, <1>7 DEF Drawn, Creating
  <2>3. \A y \in Tx : Creating(y) => db'.invites[Op(y).invite].state = "none"
    BY <1>1 DEF Inv, InvitesDrawn
  <2>4. \A y, z \in Tx : Creating(y) /\ Creating(z) /\ Op(z).invite = Op(y).invite => z = y
    BY DEF Inv, InvitesDrawn
  <2> QED BY <1>7, <2>1, <2>2, <2>3, <2>4 DEF InvitesDrawn
<1>14. PICK N : N = {}
  OBVIOUS
<1>15. Apart(x, N)
  BY <1>6, <1>14
<1> QED BY <1>1, <1>5, <1>6, <1>8, <1>9, <1>10, <1>11, <1>12, <1>13, <1>15, StepInv
----------------------------------------------------------------------------
\* The statements of a reader.

\* A reader holds no row, and needs no lock to know what it knows.
LEMMA ReaderInv ==
    ASSUME Inv, NEW x \in Tx, tx[x].pc \in Reading, db' = db, owner' = owner,
           NEW t \in Transaction, tx' = [tx EXCEPT ![x] = t],
           t.pc \in Reading, t.op = tx[x].op, tx'[x] = t => ReadsOneStore(x)'
    PROVE  Inv'
<1>1. Apart(x, {}) /\ owner' \in [Row -> Tx \cup {None}] /\ tx'[x] = t
  BY ApartQuiet
<1>2. StageOf(x) /\ OwnsInOrder(x)
  BY OfOne
<1>3. /\ Running(x) /\ Op(x) \in Operation /\ WellFormed(Op(x)) /\ Op(x).kind = "buildSnapshot"
      /\ Op(x)' = Op(x) /\ t.op = Op(x)
  BY <1>1, <1>2 DEF StageOf, Running, Reading, Op
<1>4. StageOf(x)'
  BY <1>1, <1>3 DEF StageOf, Reading
<1>5. Holds(x)'
  BY <1>1 DEF Holds, Reading, Writing
<1>6. OwnsInOrder(x)'
  BY <1>1, <1>2 DEF OwnsInOrder, Reading, Writing
<1>7. t.pc \notin {"new", "done"}
  BY DEF Reading
<1> QED BY <1>1, <1>3, <1>4, <1>5, <1>6, <1>7, QuietInv

\* ReadNetwork preserves the invariant.
LEMMA ReadNetworkInv ==
    ASSUME Inv, NEW x \in Tx, ReadNetwork(x)
    PROVE  Inv'
<1> DEFINE n == Op(x).network
           rd == [store |-> db, generation |-> db.version[n], members |-> {}, peers |-> {},
                  relay |-> None]
           t == [tx[x] EXCEPT !.pc = "members", !.read = rd]
<1>1. /\ tx[x].pc = "network" /\ NetworkExists(db, n)
      /\ tx' = [tx EXCEPT ![x] = t] /\ db' = db /\ owner' = owner
  BY DEF ReadNetwork
<1>2. tx[x] \in Transaction /\ StageOf(x) /\ db \in Repo
  BY OfOne
<1>3. n \in Network
  BY <1>1, <1>2 DEF StageOf, Running, Reading, WellFormed
<1>4. rd \in Read
  BY <1>2, <1>3 DEF Read, Repo
<1>5. rd.store = db /\ rd.generation = db.version[n] /\ rd.peers = {}
  OBVIOUS
<1> HIDE DEF rd
<1>6. t \in Transaction /\ t.pc = "members" /\ t.op = tx[x].op /\ t.read = rd
  BY <1>2, <1>4 DEF Transaction, PC
<1> HIDE DEF t
<1>7. ASSUME tx'[x] = t PROVE ReadsOneStore(x)'
  BY <1>1, <1>4, <1>5, <1>6, <1>7 DEF ReadsOneStore, Sees, Op, n
<1>8. tx[x].pc \in Reading /\ t.pc \in Reading
  BY <1>1, <1>6 DEF Reading
<1> QED BY <1>1, <1>6, <1>7, <1>8, ReaderInv

\* What a reader keeps of its first statement.
LEMMA ReaderSees ==
    ASSUME Inv, NEW x \in Tx, tx[x].pc \in Reading \ {"network"}
    PROVE  /\ tx[x].read \in Read /\ Sees(x) \in Repo /\ NetworkExists(Sees(x), Op(x).network)
           /\ tx[x].read.generation = Sees(x).version[Op(x).network]
           /\ Op(x).network \in Network /\ Op(x).node \in Node
<1>1. StageOf(x) /\ ReadsOneStore(x)
  BY OfOne
<1>2. /\ tx[x].read \in Read /\ NetworkExists(Sees(x), Op(x).network)
      /\ tx[x].read.generation = Sees(x).version[Op(x).network]
  BY <1>1 DEF ReadsOneStore
<1>3. Op(x).network \in Network /\ Op(x).node \in Node
  BY <1>1 DEF StageOf, Running, Reading, WellFormed
<1>4. Sees(x) \in Repo
  BY <1>2 DEF Sees, Read
<1> QED BY <1>2, <1>3, <1>4

\* ReadMembers preserves the invariant.
LEMMA ReadMembersInv ==
    ASSUME Inv, NEW x \in Tx, ReadMembers(x)
    PROVE  Inv'
<1>0. PICK r, n, d : r = Sees(x) /\ n = Op(x).network /\ d = Op(x).node
  OBVIOUS
<1> DEFINE active == ActiveNodes(r, n)
           ms == {MemberRow(r, n, m) : m \in active}
           rd == [tx[x].read EXCEPT !.members = ms]
           t == [tx[x] EXCEPT !.pc = "endpoints", !.want = active \ {d}, !.read = rd]
<1>1. /\ tx[x].pc = "members"
      /\ tx' = [tx EXCEPT ![x] = t] /\ db' = db /\ owner' = owner
  BY <1>0 DEF ReadMembers
<1>2. tx[x] \in Transaction /\ ReadsOneStore(x)
  BY OfOne
<1>3. /\ tx[x].read \in Read /\ r \in Repo /\ NetworkExists(r, n)
      /\ tx[x].read.generation = r.version[n] /\ n \in Network
  BY <1>0, <1>1, ReaderSees DEF Reading
<1>4. tx[x].read.peers = {} /\ tx[x].read.store = r
  BY <1>0, <1>1, <1>2 DEF ReadsOneStore, Reading, Sees
<1>5. active \subseteq Node
  BY DEF ActiveNodes
<1>6. ms \in SUBSET Member
  <2> HIDE DEF active
  <2> SUFFICES ASSUME NEW m \in active PROVE MemberRow(r, n, m) \in Member
    OBVIOUS
  <2>1. r.nodes[m] \in Key \cup {None} /\ r.memberships[n][m] \in MembershipRecord
    BY <1>3, <1>5 DEF Repo
  <2> QED BY <1>5, <2>1 DEF MemberRow, Member, MembershipRecord
<1> HIDE DEF active, ms
<1>7. /\ rd \in Read /\ rd.store = r /\ rd.generation = r.version[n] /\ rd.members = ms
      /\ rd.peers = {}
  BY <1>3, <1>4, <1>6 DEF Read
<1> HIDE DEF rd
<1>8. /\ t \in Transaction /\ t.pc = "endpoints" /\ t.op = tx[x].op /\ t.read = rd
      /\ t.want = active \ {d}
  BY <1>2, <1>5, <1>7 DEF Transaction, PC
<1> HIDE DEF t
<1>9. ASSUME tx'[x] = t PROVE ReadsOneStore(x)'
  <2>1. Sees(x)' = r /\ Op(x)'.network = n /\ Op(x)'.node = d
    BY <1>0, <1>7, <1>8, <1>9 DEF Sees, Op
  <2>2. {PeerRow(r, n, p) : p \in (active \ {d}) \ t.want} = {}
    BY <1>8
  <2> QED BY <1>3, <1>7, <1>8, <1>9, <2>1, <2>2 DEF ReadsOneStore, active, ms
<1>10. tx[x].pc \in Reading /\ t.pc \in Reading
  BY <1>1, <1>8 DEF Reading
<1> QED BY <1>1, <1>8, <1>9, <1>10, ReaderInv

\* ReadEndpoints preserves the invariant: the member row it joins with is the
\* peer's own.
LEMMA ReadEndpointsInv ==
    ASSUME Inv, NEW x \in Tx, ReadEndpoints(x)
    PROVE  Inv'
<1>0. PICK r, n, d : r = Sees(x) /\ n = Op(x).network /\ d = Op(x).node
  OBVIOUS
<1>1. tx[x].pc = "endpoints" /\ tx[x].want # {} /\ db' = db /\ owner' = owner
  BY DEF ReadEndpoints
<1>2. PICK m \in tx[x].read.members :
         /\ m.node = NextToLock(x)
         /\ tx' = [tx EXCEPT ![x] =
                     [@ EXCEPT !.want = tx[x].want \ {m.node},
                               !.read = [tx[x].read EXCEPT !.peers = @ \cup
                                  {[node |-> m.node, key |-> m.key, address |-> m.address,
                                    endpoints |-> FreshEndpoints(Sees(x), m.node)]}]]]
  BY DEF ReadEndpoints
<1> DEFINE active == ActiveNodes(r, n)
           w == NextToLock(x)
           peers == tx[x].read.peers \cup {PeerRow(r, n, w)}
           rd == [tx[x].read EXCEPT !.peers = peers]
           t == [tx[x] EXCEPT !.want = tx[x].want \ {w}, !.read = rd]
<1>3. tx[x] \in Transaction /\ ReadsOneStore(x)
  BY OfOne
<1>4. /\ tx[x].read \in Read /\ r \in Repo /\ NetworkExists(r, n)
      /\ tx[x].read.generation = r.version[n] /\ n \in Network
  BY <1>0, <1>1, ReaderSees DEF Reading
<1>5. /\ tx[x].read.store = r /\ tx[x].want \subseteq active \ {d}
      /\ tx[x].read.members = {MemberRow(r, n, q) : q \in active}
      /\ tx[x].read.peers = {PeerRow(r, n, p) : p \in (active \ {d}) \ tx[x].want}
  BY <1>0, <1>1, <1>3 DEF ReadsOneStore, Reading, Sees
<1>6. active \subseteq Node
  BY DEF ActiveNodes
<1> HIDE DEF active
<1>7. w \in tx[x].want /\ w \in active
  BY <1>1, <1>5, <1>6, NextIsFirst
<1>8. m.key = r.nodes[w] /\ m.address = r.memberships[n][w].address /\ m.node = w
  <2>1. PICK q \in active : m = MemberRow(r, n, q)
    BY <1>2, <1>5
  <2>2. q = w
    BY <1>2, <2>1 DEF MemberRow
  <2> QED BY <1>2, <2>1, <2>2 DEF MemberRow
<1>9. PeerRow(r, n, w) = [node |-> m.node, key |-> m.key, address |-> m.address,
                          endpoints |-> FreshEndpoints(Sees(x), m.node)]
  BY <1>0, <1>8 DEF PeerRow
<1>10. tx' = [tx EXCEPT ![x] = t]
  BY <1>2, <1>8, <1>9
<1>11. PeerRow(r, n, w) \in Peer
  <2>1. r.nodes[w] \in Key \cup {None} /\ r.memberships[n][w] \in MembershipRecord /\ w \in Node
    BY <1>4, <1>6, <1>7 DEF Repo
  <2>2. FreshEndpoints(r, w) \in SUBSET Endpoint
    BY DEF FreshEndpoints
  <2> QED BY <2>1, <2>2 DEF PeerRow, Peer, MembershipRecord
<1>12. peers = {PeerRow(r, n, p) : p \in (active \ {d}) \ (tx[x].want \ {w})}
  BY <1>5, <1>7
<1>13. peers \in SUBSET Peer
  BY <1>4, <1>11 DEF Read
<1> HIDE DEF w, peers
<1>14. /\ rd \in Read /\ rd.store = r /\ rd.generation = r.version[n] /\ rd.peers = peers
       /\ rd.members = tx[x].read.members
  BY <1>4, <1>5, <1>13 DEF Read
<1> HIDE DEF rd
<1>15. /\ t \in Transaction /\ t.pc = "endpoints" /\ t.op = tx[x].op /\ t.read = rd
       /\ t.want = tx[x].want \ {w}
  BY <1>1, <1>3, <1>14 DEF Transaction
<1> HIDE DEF t
<1>16. ASSUME tx'[x] = t PROVE ReadsOneStore(x)'
  <2>1. Sees(x)' = r /\ Op(x)'.network = n /\ Op(x)'.node = d
    BY <1>0, <1>14, <1>15, <1>16 DEF Sees, Op
  <2>2. t.want \subseteq active \ {d}
    BY <1>5, <1>15
  <2>3. rd.peers = {PeerRow(r, n, p) : p \in (active \ {d}) \ t.want}
    BY <1>12, <1>14, <1>15
  <2> QED BY <1>4, <1>5, <1>14, <1>15, <1>16, <2>1, <2>2, <2>3 DEF ReadsOneStore, active
<1>17. tx[x].pc \in Reading /\ t.pc \in Reading
  BY <1>1, <1>15 DEF Reading
<1> QED BY <1>1, <1>10, <1>15, <1>16, <1>17, ReaderInv

\* ReadRelay preserves the invariant: the local membership was among those read.
LEMMA ReadRelayInv ==
    ASSUME Inv, NEW x \in Tx, ReadRelay(x)
    PROVE  Inv'
<1>0. PICK r, n, d : r = Sees(x) /\ n = Op(x).network /\ d = Op(x).node
  OBVIOUS
<1> DEFINE active == ActiveNodes(r, n)
           relay == SnapshotRelay(r, n, d)
           rd == [tx[x].read EXCEPT !.relay = relay]
           t == [tx[x] EXCEPT !.pc = "answer", !.read = rd]
<1>1. /\ tx[x].pc = "endpoints" /\ tx[x].want = {}
      /\ \E m \in tx[x].read.members : m.node = d
      /\ tx' = [tx EXCEPT ![x] = t] /\ db' = db /\ owner' = owner
  BY <1>0 DEF ReadRelay
<1>2. tx[x] \in Transaction /\ ReadsOneStore(x)
  BY OfOne
<1>3. /\ tx[x].read \in Read /\ r \in Repo /\ NetworkExists(r, n)
      /\ tx[x].read.generation = r.version[n] /\ n \in Network /\ d \in Node
  BY <1>0, <1>1, ReaderSees DEF Reading
<1>4. /\ tx[x].read.store = r
      /\ tx[x].read.members = {MemberRow(r, n, q) : q \in active}
      /\ tx[x].read.peers = {PeerRow(r, n, p) : p \in (active \ {d}) \ tx[x].want}
  BY <1>0, <1>1, <1>2 DEF ReadsOneStore, Reading, Sees
<1>5. d \in active
  <2> HIDE DEF active
  <2> QED BY <1>1, <1>4 DEF MemberRow
<1>6. relay \in Node \cup {None}
  <2>1. r.relayAssignments[n][d] \in AssignmentRecord
    BY <1>3 DEF Repo
  <2> QED BY <2>1 DEF SnapshotRelay, AssignmentRecord
<1> HIDE DEF active, relay
<1>7. /\ rd \in Read /\ rd.store = r /\ rd.generation = r.version[n] /\ rd.relay = relay
      /\ rd.members = tx[x].read.members /\ rd.peers = tx[x].read.peers
  BY <1>3, <1>4, <1>6 DEF Read
<1> HIDE DEF rd
<1>8. /\ t \in Transaction /\ t.pc = "answer" /\ t.op = tx[x].op /\ t.read = rd
      /\ t.want = {}
  BY <1>1, <1>2, <1>7 DEF Transaction, PC
<1> HIDE DEF t
<1>9. ASSUME tx'[x] = t PROVE ReadsOneStore(x)'
  <2>1. Sees(x)' = r /\ Op(x)'.network = n /\ Op(x)'.node = d
    BY <1>0, <1>7, <1>8, <1>9 DEF Sees, Op
  <2> QED BY <1>1, <1>3, <1>4, <1>5, <1>7, <1>8, <1>9, <2>1 DEF ReadsOneStore, active, relay
<1>10. tx[x].pc \in Reading /\ t.pc \in Reading
  BY <1>1, <1>8 DEF Reading
<1> QED BY <1>1, <1>8, <1>9, <1>10, ReaderInv

----------------------------------------------------------------------------
\* The invariant, and what follows from it.

\* Nothing is locked and nobody has called yet.
LEMMA InitInv == Init => Inv
<1> SUFFICES ASSUME Init PROVE Inv
  OBVIOUS
<1>1. RepoInv(db) /\ db \in Repo
  BY InitialAssumption DEF Init, RepoInv
<1>2. NoCall \in Transaction
  BY DEF NoCall, Transaction, PC
<1>3. \A x \in Tx : tx[x] = NoCall /\ tx[x].pc = "new" /\ ~Running(x)
  BY DEF Init, NoCall, Running
<1>4. \A row \in Row : owner[row] = None
  BY DEF Init
<1>5. None \notin Tx
  BY TxAssumption
<1>6. TypeOK
  <2>1. tx \in [Tx -> Transaction] /\ owner \in [Row -> Tx \cup {None}]
    BY <1>2 DEF Init
  <2> QED BY <1>1, <1>3, <1>4, <1>5, <2>1 DEF TypeOK
<1>7. CallShape
  BY <1>3 DEF CallShape, StageOf, Reading
<1>8. LocksHold
  BY <1>3 DEF LocksHold, Holds, Writing
<1>9. OwnersInOrder
  BY <1>4, <1>5 DEF OwnersInOrder, OwnsInOrder, Row
<1>10. InvitesDrawn /\ ReadersApart
  BY <1>3 DEF InvitesDrawn, Creating, ReadersApart, ReadsOneStore, Reading
<1> QED BY <1>1, <1>6, <1>7, <1>8, <1>9, <1>10 DEF Inv

\* Every statement of every transaction preserves the invariant.
LEMMA NextInv == Inv /\ [Next]_vars => Inv'
<1> SUFFICES ASSUME Inv, [Next]_vars PROVE Inv'
  OBVIOUS
<1>1. CASE UNCHANGED vars
  <2>0. db' = db /\ owner' = owner /\ tx' = tx
    BY <1>1 DEF vars
  <2>1. TypeOK' <=> TypeOK
    BY <2>0 DEF TypeOK, Running
  <2>2. CallShape' <=> CallShape
    BY <2>0 DEF CallShape, StageOf, Running, Op
  <2>3. LocksHold' <=> LocksHold
    <3>1. \A x \in Tx : Op(x)' = Op(x) /\ NodesLocked(x)' = NodesLocked(x) /\ (HasConsumed(x)' <=> HasConsumed(x))
      BY <2>0 DEF Op, NodesLocked, HasConsumed
    <3>2. \A o : NetworksToLock(o)' = NetworksToLock(o) /\ RowsToWrite(o)' = RowsToWrite(o)
      BY <2>0 DEF NetworksToLock, AffectedNetworks, RowsToWrite
    <3>3. \A o, a : Writes(o, a)' <=> Writes(o, a)
      BY <2>0 DEF Writes, Unassigned, AssignmentNodes
    <3> QED BY <2>0, <3>1, <3>2, <3>3 DEF LocksHold, Holds
  <2>4. OwnersInOrder' <=> OwnersInOrder
    BY <2>0 DEF OwnersInOrder, OwnsInOrder, Op
  <2>5. InvitesDrawn' <=> InvitesDrawn
    BY <2>0 DEF InvitesDrawn, Creating, Running, Op
  <2>6. ReadersApart' <=> ReadersApart
    BY <2>0 DEF ReadersApart, ReadsOneStore, Sees, Op
  <2> QED BY <2>0, <2>1, <2>2, <2>3, <2>4, <2>5, <2>6 DEF Inv
<1>2. CASE Next
  <2>1. PICK x \in Tx : (\E o \in Operations : Begin(x, o)) \/ Statement(x) \/ Rollback(x)
    BY <1>2 DEF Next
  <2>2. CASE \E o \in Operations : Begin(x, o)
    BY <2>2, BeginInv
  <2>3. CASE Statement(x)
    BY <2>3, InsertNodeInv, LockNodeInv, ReadNetworksInv, ConsumeInviteStepInv, LockNetworkInv,
       WriteInv, CommitInv, ReadNetworkInv, ReadMembersInv, ReadEndpointsInv, ReadRelayInv,
       ReadEndsInv DEF Statement
  <2>4. CASE Rollback(x)
    BY <2>4, RollbackInv
  <2> QED BY <2>1, <2>2, <2>3, <2>4
<1> QED BY <1>1, <1>2

\* Two-phase locking: at every moment, what each transaction has found out under
\* its locks still holds, and the store is sound.
THEOREM PostgresInvariant == Spec => []Inv
<1> QED BY InitInv, NextInv, PTL DEF Spec

\* The store, the locks and the transactions keep their types, and only running
\* transactions hold rows.
THEOREM PostgresTypeCorrect == Spec => []TypeOK
<1>1. Inv => TypeOK
  BY DEF Inv
<1> QED BY <1>1, PostgresInvariant, PTL

\* BuildSnapshotAt's answer is the snapshot of the one store its first statement
\* saw, whatever was committed between its statements.
LEMMA AnswerOfOneStore == Inv => SnapshotOfOneStore
<1> SUFFICES ASSUME Inv, NEW x \in Tx, tx[x].pc = "answer"
             PROVE  /\ CanBuildSnapshot(tx[x].read.store, Op(x).network, Op(x).node)
                    /\ SnapshotRead(x) = BuildSnapshot(tx[x].read.store, Op(x).network, Op(x).node)
  BY DEF SnapshotOfOneStore
<1>0. PICK r, n, d : r = Sees(x) /\ n = Op(x).network /\ d = Op(x).node
  OBVIOUS
<1> DEFINE active == ActiveNodes(r, n)
<1>1. /\ tx[x].read.store = r /\ NetworkExists(r, n) /\ tx[x].read.generation = r.version[n]
      /\ tx[x].read.members = {MemberRow(r, n, m) : m \in active}
      /\ tx[x].read.peers = {PeerRow(r, n, p) : p \in active \ {d}}
      /\ d \in active /\ tx[x].read.relay = SnapshotRelay(r, n, d)
  BY <1>0, OfOne DEF ReadsOneStore, Reading, Sees
<1>2. CanBuildSnapshot(r, n, d)
  BY <1>1 DEF CanBuildSnapshot, ActiveNodes
<1>3. tx[x].read.peers = SnapshotPeers(r, n, d)
  <2>1. active \ {d} = {q \in Node \ {d} : IsActive(r, n, q) /\ NodeExists(r, q)}
    BY DEF ActiveNodes
  <2> HIDE DEF active
  <2> QED BY <1>1, <2>1 DEF PeerRow, SnapshotPeers, FreshEndpoints
<1>4. PICK own : own = CHOOSE m \in tx[x].read.members : m.node = d
  OBVIOUS
<1>5. own.address = r.memberships[n][d].address
  <2> HIDE DEF active
  <2>1. MemberRow(r, n, d) \in tx[x].read.members /\ MemberRow(r, n, d).node = d
    BY <1>1 DEF MemberRow
  <2>2. own \in tx[x].read.members /\ own.node = d
    BY <1>4, <2>1
  <2>3. PICK m \in active : own = MemberRow(r, n, m)
    BY <1>1, <2>2
  <2>4. m = d
    BY <2>2, <2>3 DEF MemberRow
  <2> QED BY <2>3, <2>4 DEF MemberRow
<1>6. SnapshotRead(x) = [network |-> n, generation |-> r.version[n],
                         content |-> [address |-> r.memberships[n][d].address,
                                      peers |-> SnapshotPeers(r, n, d),
                                      relay |-> SnapshotRelay(r, n, d)]]
  BY <1>0, <1>1, <1>3, <1>4, <1>5 DEF SnapshotRead
<1>7. SnapshotRead(x) = BuildSnapshot(r, n, d)
  BY <1>6 DEF BuildSnapshot, SnapshotContent
<1> QED BY <1>0, <1>1, <1>2, <1>7

\* BuildSnapshotAt never answers with a mixture of two stores.
THEOREM SnapshotOfOneStoreAlways == Spec => []SnapshotOfOneStore
<1> QED BY AnswerOfOneStore, PostgresInvariant, PTL

\* Only a commit changes the store.
LEMMA OnlyCommits ==
    ASSUME Next, db' # db
    PROVE  \E x \in Tx : Commit(x)
<1>1. PICK x \in Tx : (\E o \in Operations : Begin(x, o)) \/ Statement(x) \/ Rollback(x)
  BY DEF Next
<1>2. \A o \in Operations : ~Begin(x, o)
  BY DEF Begin
<1>3. ~Rollback(x) /\ ~InsertNode(x) /\ ~LockNode(x) /\ ~ReadNetworks(x) /\ ~LockNetwork(x)
  BY DEF Rollback, InsertNode, LockNode, ReadNetworks, LockNetwork
<1>4. ~ConsumeInvite(x) /\ ~Write(x)
  <2>1. ConsumeInvite(x) => UNCHANGED db
    BY Zenon DEF ConsumeInvite
  <2>2. Write(x) => UNCHANGED db
    BY Zenon DEF Write
  <2> QED BY <2>1, <2>2
<1>5. ~ReadNetwork(x) /\ ~ReadMembers(x) /\ ~ReadEndpoints(x) /\ ~ReadRelay(x) /\ ~ReadEnds(x)
  <2>1. ReadNetwork(x) \/ ReadMembers(x) \/ ReadRelay(x) \/ ReadEnds(x) => UNCHANGED <<db, owner>>
    BY Zenon DEF ReadNetwork, ReadMembers, ReadRelay, ReadEnds
  <2>2. ReadEndpoints(x) => UNCHANGED <<db, owner>>
    BY Zenon DEF ReadEndpoints
  <2> QED BY <2>1, <2>2
<1> QED BY <1>1, <1>2, <1>3, <1>4, <1>5 DEF Statement

\* A network's version moves only in the commit of a transaction that holds its
\* row.
THEOREM VersionsLockedAlways == Spec => VersionsLocked
<1> DEFINE Moved == \A n \in Network : db'.version[n] # db.version[n] =>
                      \E x \in Tx : tx[x].pc = "commit" /\ owner[<<"network", n>>] = x
                                       /\ tx'[x].pc = "done"
<1>1. Inv /\ [Next]_vars => [Moved]_vars
  <2> SUFFICES ASSUME Inv, Next, NEW n \in Network, db'.version[n] # db.version[n]
               PROVE  \E x \in Tx : tx[x].pc = "commit" /\ owner[<<"network", n>>] = x
                                       /\ tx'[x].pc = "done"
    OBVIOUS
  <2>1. PICK x \in Tx : Commit(x)
    BY OnlyCommits
  <2>2. tx[x].pc = "commit" /\ db' = Effect(Op(x), tx[x].networks)
    BY <2>1 DEF Commit
  <2>3. <<"network", n>> \in Touched(Op(x), tx[x].networks)
    BY <2>2, CommitEffect DEF Frame
  <2>4. owner[<<"network", n>>] = x
    BY <2>2, <2>3, CommitChecks
  <2>5. tx'[x].pc = "done"
    BY <2>1, OfOne DEF Commit, NoCall, Inv, TypeOK
  <2> QED BY <2>2, <2>4, <2>5
<1> QED BY <1>1, PostgresInvariant, PTL DEF Spec, VersionsLocked

\* Row locks implement the mutex: the transactions, statement by statement,
\* implement a store whose every operation is one indivisible change.
THEOREM AtomicityAlways == Spec => Atomicity
<1>1. Init => Atomic!StoreInit
  BY DEF Init, Atomic!StoreInit
<1>2. Inv /\ [Next]_vars => [Atomic!StoreNext]_db
  <2> SUFFICES ASSUME Inv, Next, db' # db PROVE Atomic!StoreNext
    BY DEF vars
  <2> QED BY OnlyCommits, CommitAtomic
<1> QED BY <1>1, <1>2, PostgresInvariant, PTL DEF Spec, Atomicity, Atomic!StoreSpec

----------------------------------------------------------------------------
\* No deadlock.

\* How far x has come in the order in which rows are locked: index entries (and
\* RevokeInvite, which holds nothing), nodes, invites, networks, what is left to
\* write; beyond that, x waits for nobody.
Level(x) ==
    IF tx[x].pc = "insert" \/ (tx[x].pc = "networks" /\ Op(x).kind = "revokeInvite") THEN 0
    ELSE IF tx[x].pc = "nodes" /\ tx[x].want # {} THEN 1
    ELSE IF tx[x].pc = "consume" THEN 2
    ELSE IF tx[x].pc = "networks" THEN (IF tx[x].want # {} THEN 3 ELSE 4)
    ELSE 5
At(x) ==
    IF tx[x].pc \in {"nodes", "networks"} /\ tx[x].want # {} THEN Rank[NextToLock(x)] ELSE 0

\* y is further than x.
Further(x, y) == Level(x) < Level(y) \/ (Level(x) = Level(y) /\ At(x) < At(y))

\* Progress is measured in numbers.
LEMMA FurtherTyped ==
    ASSUME Inv, NEW x \in Tx
    PROVE  Level(x) \in 0 .. 5 /\ At(x) \in Nat
<1>1. Level(x) \in 0 .. 5
  BY DEF Level
<1>2. tx[x].pc = "nodes" => tx[x].want \subseteq Node
  BY OfOne DEF StageOf
<1>3. tx[x].pc = "networks" => tx[x].want \subseteq Network
  BY OfOne DEF StageOf, Transaction
<1>4. tx[x].pc \in {"nodes", "networks"} /\ tx[x].want # {} => NextToLock(x) \in Node \cup Network
  BY <1>2, <1>3, NextIsFirst
<1> QED BY <1>1, <1>4, OrderAssumption DEF At

\* RevokeInvite locks neither nodes nor networks.
LEMMA RevokeLocksNothing ==
    ASSUME Inv, NEW x \in Tx, tx[x].pc = "networks", Op(x).kind = "revokeInvite"
    PROVE  tx[x].networks = {} /\ tx[x].want = {}
<1>1. StageOf(x) /\ Holds(x)
  BY OfOne
<1>2. WellFormed(Op(x)) /\ tx[x].want \subseteq tx[x].networks
  BY <1>1 DEF StageOf, Running
<1>3. tx[x].networks = NetworksToLock(Op(x))
  BY <1>1 DEF Holds
<1>4. NetworksToLock(Op(x)) = {}
  BY <1>2 DEF WellFormed, NetworksToLock
<1> QED BY <1>2, <1>3, <1>4

\* Whoever holds what x waits for is further than x.
LEMMA WaitsForward ==
    ASSUME Inv, NEW x \in Tx, NEW y \in Tx, WaitsFor(x, y)
    PROVE  Further(x, y)
<1>1. PICK row \in Needs(x) : owner[row] = y
  BY DEF WaitsFor
<1>2. StageOf(x) /\ OwnsInOrder(y) /\ Holds(y) /\ StageOf(y) /\ RepoInv(db)
  BY OfOne
<1>3. /\ tx[x].pc = "nodes" => tx[x].want \subseteq Node
      /\ tx[x].pc = "networks" => tx[x].want \subseteq Network
      /\ tx[y].pc = "nodes" => tx[y].want \subseteq Node
      /\ tx[y].pc = "networks" => tx[y].want \subseteq Network
  BY OfOne DEF StageOf, Transaction
<1>4. Level(y) \in 0 .. 5 /\ At(x) \in Nat /\ At(y) \in Nat
  BY FurtherTyped
<1>5. CASE tx[x].pc = "insert"
  <2>1. Op(x).node \in Node /\ Op(x).key \in Key
    BY <1>2, <1>5 DEF StageOf, Running, WellFormed
  <2>2. row \in ({"id"} \X Node) \cup ({"key"} \X Key)
    BY <1>1, <1>5, <2>1 DEF Needs
  <2>3. tx[y].pc \in {"consume", "networks", "commit"} /\ Op(y).kind # "revokeInvite"
    BY <1>1, <1>2, <2>2 DEF OwnsInOrder
  <2> QED BY <1>5, <2>3 DEF Further, Level
<1>6. CASE tx[x].pc = "nodes" /\ tx[x].want # {}
  <2> DEFINE w == NextToLock(x)
  <2>1. w \in Node /\ row = <<"node", w>>
    <3>1. w \in tx[x].want
      BY <1>3, <1>6, NextIsFirst
    <3> QED BY <1>1, <1>3, <1>6, <3>1 DEF Needs
  <2>2. /\ tx[y].pc \in Writing /\ Op(y).kind # "revokeInvite"
        /\ tx[y].pc = "nodes" => \A z \in tx[y].want : Rank[w] < Rank[z]
    BY <1>1, <1>2, <2>1 DEF OwnsInOrder
  <2>3. tx[y].pc = "nodes" /\ tx[y].want # {} => At(x) < At(y)
    BY <1>3, <1>6, <2>2, NextIsFirst DEF At
  <2> QED BY <1>4, <1>6, <2>2, <2>3 DEF Further, Level, Writing
<1>7. CASE tx[x].pc = "consume"
  <2>1. PICK i \in Invite : row = <<"invite", i>>
    BY <1>1, <1>7 DEF Needs, Matching
  <2>2. tx[y].pc = "commit" \/ (tx[y].pc = "networks" /\ Op(y).kind = "enroll")
    BY <1>1, <1>2, <2>1 DEF OwnsInOrder
  <2> QED BY <1>7, <2>2 DEF Further, Level
<1>8. CASE tx[x].pc = "networks" /\ tx[x].want # {}
  <2> DEFINE w == NextToLock(x)
  <2>0. Op(x).kind # "revokeInvite"
    BY <1>8, RevokeLocksNothing
  <2>1. w \in Network /\ row = <<"network", w>>
    <3>1. w \in tx[x].want
      BY <1>3, <1>8, NextIsFirst
    <3> QED BY <1>1, <1>3, <1>8, <3>1 DEF Needs
  <2>2. /\ tx[y].pc \in {"networks", "commit"} /\ w \in tx[y].networks
        /\ \A z \in tx[y].want : Rank[w] < Rank[z]
    BY <1>1, <1>2, <2>1 DEF OwnsInOrder
  <2>3. tx[y].pc = "networks" => Op(y).kind # "revokeInvite"
    BY <2>2, RevokeLocksNothing
  <2>4. tx[y].pc = "networks" /\ tx[y].want # {} => At(x) < At(y)
    BY <1>3, <1>8, <2>2, NextIsFirst DEF At
  <2> QED BY <1>4, <1>8, <2>0, <2>2, <2>3, <2>4 DEF Further, Level
<1>9. CASE tx[x].pc = "networks" /\ tx[x].want = {}
  <2>1. row \in RowsToWrite(Op(x)) /\ Op(x) \in Operation /\ WellFormed(Op(x))
    BY <1>1, <1>2, <1>9 DEF Needs, StageOf, Running
  <2>2. ASSUME NEW i \in Invite, row = <<"invite", i>>, tx[y].pc # "commit"
        PROVE  Op(x).kind = "revokeInvite" /\ tx[y].pc = "networks" /\ Op(y).kind = "enroll"
    <3>1. tx[y].pc = "networks" /\ Op(y).kind = "enroll" /\ Op(y).invite = i
      BY <1>1, <1>2, <2>2 DEF OwnsInOrder
    <3>2. db.invites[i].state = "unused"
      BY <1>2, <3>1 DEF Holds, HasConsumed, Writing
    <3>3. Op(x).kind = "removeNode" => db.invites[i].by = Op(x).node /\ Op(x).node \in Node
      BY <2>1, <2>2 DEF RowsToWrite, WellFormed
    <3>4. Op(x).kind # "removeNode"
      BY <1>2, <3>2, <3>3, NoneAssumption DEF RepoInv, InvitesAccounted
    <3>5. Op(x).kind = "createInvite" => Op(x).invite = i /\ Creating(x)
      BY <1>9, <2>1, <2>2 DEF RowsToWrite, Creating, Running
    <3>6. Op(x).kind # "createInvite"
      BY <3>2, <3>5 DEF Inv, InvitesDrawn
    <3> QED BY <2>1, <2>2, <3>1, <3>4, <3>6 DEF RowsToWrite
  <2>3. (\E i \in Invite : row = <<"invite", i>>)
           \/ row \in ({"token"} \X Token) \cup ({"relay"} \X Assignment)
    BY <2>1 DEF RowsToWrite, WellFormed
  <2>4. row \in ({"token"} \X Token) \cup ({"relay"} \X Assignment) => tx[y].pc = "commit"
    BY <1>1, <1>2 DEF OwnsInOrder
  <2>5. tx[y].pc = "commit"
           \/ (Op(x).kind = "revokeInvite" /\ tx[y].pc = "networks" /\ Op(y).kind = "enroll")
    BY <2>2, <2>3, <2>4
  <2> QED BY <1>9, <2>5 DEF Further, Level
<1> QED BY <1>1, <1>5, <1>6, <1>7, <1>8, <1>9 DEF Needs

\* Of finitely many transactions one is the furthest, and waits for none of them.
LEMMA FurthestWaitsForNone == Inv => NoDeadlock
<1> SUFFICES ASSUME Inv, NEW circle \in SUBSET Tx, circle # {}
             PROVE  \E x \in circle : \A y \in circle : ~WaitsFor(x, y)
  BY DEF NoDeadlock
<1> DEFINE Beyond(x) == {z \in circle : Further(x, z)}
           Sizes == {Cardinality(Beyond(x)) : x \in circle}
<1>1. IsFiniteSet(circle)
  BY TxAssumption, FS_Subset
<1>2. \A x \in circle : IsFiniteSet(Beyond(x)) /\ Cardinality(Beyond(x)) \in Nat
  <2> TAKE x \in circle
  <2>1. PICK B : B = Beyond(x)
    OBVIOUS
  <2>2. B \in SUBSET circle
    BY <2>1
  <2>3. IsFiniteSet(B)
    BY <1>1, <2>2, FS_Subset
  <2>4. Cardinality(B) \in Nat
    BY <2>3, FS_CardinalityType
  <2> QED BY <2>1, <2>3, <2>4
<1>3. Sizes \in SUBSET Nat /\ Sizes # {}
  <2> HIDE DEF Beyond
  <2> QED BY <1>2
<1>4. PICK least \in Sizes : \A j \in Sizes : least <= j
  <2> HIDE DEF Sizes
  <2> QED BY <1>3, Least
<1>5. PICK x \in circle : \A y \in circle : Cardinality(Beyond(x)) <= Cardinality(Beyond(y))
  <2> HIDE DEF Beyond
  <2> QED BY <1>4
<1>6. ASSUME NEW y \in circle, WaitsFor(x, y)
      PROVE  FALSE
  <2>1. Further(x, y)
    BY <1>6, WaitsForward
  <2>2. /\ \A z \in circle : Level(z) \in 0 .. 5 /\ At(z) \in Nat
        /\ ~Further(y, y)
    <3>1. \A z \in circle : Level(z) \in 0 .. 5 /\ At(z) \in Nat
      BY FurtherTyped
    <3> QED BY <3>1 DEF Further
  <2>3. PICK A, B : A = Beyond(y) /\ B = Beyond(x)
    OBVIOUS
  <2>4. A \in SUBSET B /\ y \in B /\ y \notin A
    BY <2>1, <2>2, <2>3 DEF Further
  <2>5. IsFiniteSet(B) /\ Cardinality(A) \in Nat /\ Cardinality(B) \in Nat
    BY <1>2, <2>3
  <2>6. Cardinality(A) <= Cardinality(B) /\ Cardinality(A) # Cardinality(B)
    BY <2>4, <2>5, FS_Subset
  <2> HIDE DEF Beyond
  <2>7. Cardinality(B) <= Cardinality(A)
    BY <1>5, <2>3
  <2> QED BY <2>5, <2>6, <2>7
<1> QED BY <1>6

\* However many transactions run, no set of them waits in a circle for each
\* other's rows: whoever holds a row is further along the lock order than whoever
\* waits for it.
THEOREM NoDeadlockAlways == Spec => []NoDeadlock
<1> QED BY FurthestWaitsForNone, PostgresInvariant, PTL

=============================================================================
