----------------------------- MODULE Repository -----------------------------
(***************************************************************************)
(* MemoryRepository as a state machine: every method runs under its lock,  *)
(* so one step is one call.  A call that returns an error changes nothing  *)
(* and is not a step.  The Age* actions are the clock: what was fresh,     *)
(* live or unused a moment ago no longer is when it is next read.          *)
(***************************************************************************)
EXTENDS RepositoryOps

CONSTANTS MaxVersion  \* bound: MaxVersion[n], the highest version of network n explored

ASSUME MaxVersionAssumption == MaxVersion \in [Network -> Nat]

VARIABLE db

Init == db = EmptyRepo

\* The lock is released with the new maps in place.
Publish(r) ==
    /\ \A n \in Network : r.version[n] <= MaxVersion[n]
    /\ db' = r

DoCreateNetwork(n) ==
    CanCreateNetwork(db, n) /\ Publish(CreateNetwork(db, n))

DoAddNode(d, k) ==
    CanAddNode(db, d, k) /\ Publish(AddNode(db, d, k))

\* TouchNode and UpdateNodeClientVersion write only metadata left out here.
TouchNode(d) ==
    NodeExists(db, d) /\ UNCHANGED db

DoAddMembership(n, d, a, status) ==
    CanAddMembership(db, n, d, a) /\ Publish(AddMembership(db, n, d, a, status))

DoRemoveMembership(n, d) ==
    CanRemoveMembership(db, n, d) /\ Publish(RemoveMembership(db, n, d))

DoRemoveNode(d) ==
    CanRemoveNode(db, d) /\ Publish(RemoveNode(db, d))

DoCreateInvite(i, n, t) ==
    CanCreateInvite(db, i, n, t) /\ Publish(CreateInvite(db, i, n, t))

DoRevokeInvite(i) ==
    CanRevokeInvite(db, i) /\ Publish(RevokeInvite(db, i))

DoConsumeInvite(value, t, i, d) ==
    CanConsumeInvite(db, value, t, i, d) /\ Publish(ConsumeInviteForNode(db, i, d))

DoReplaceEndpoints(d, observed) ==
    CanReplaceEndpoints(db, d) /\ Publish(ReplaceEndpoints(db, d, observed))

DoSetRelayAssignment(n, d, a, relay, state) ==
    /\ CanSetRelayAssignment(db, n, d, a, relay)
    /\ Publish(SetRelayAssignment(db, n, d, a, relay, state))

DoRemoveRelayAssignment(n) ==
    CanRemoveRelayAssignment(db, n) /\ Publish(RemoveRelayAssignment(db, n))

\* Invite.IsExpired: an unused invite passes its expiry time.
AgeInvite(i) ==
    /\ db.invites[i].state = "unused"
    /\ db' = [db EXCEPT !.invites[i].state = "expired"]

\* IsFreshEndpoint: an observation enters, then leaves the freshness window.
AgeEndpoint(d, e) ==
    \/ /\ db.endpoints[d][e] = "future"
       /\ db' = [db EXCEPT !.endpoints[d][e] = "fresh"]
    \/ /\ db.endpoints[d][e] = "fresh"
       /\ db' = [db EXCEPT !.endpoints[d][e] = "stale"]

\* relayAssignmentUsable: an assignment starts, then expires.
AgeAssignment(n, d) ==
    \/ /\ db.relayAssignments[n][d].state = "scheduled"
       /\ db' = [db EXCEPT !.relayAssignments[n][d].state = "live"]
    \/ /\ db.relayAssignments[n][d].state = "live"
       /\ db' = [db EXCEPT !.relayAssignments[n][d].state = "ended"]

TimePasses ==
    \/ \E i \in Invite : AgeInvite(i)
    \/ \E d \in Node, e \in Endpoint : AgeEndpoint(d, e)
    \/ \E n \in Network, d \in Node : AgeAssignment(n, d)

MemberStep ==
    \/ \E n \in Network : DoCreateNetwork(n)
    \/ \E d \in Node, k \in Key : DoAddNode(d, k)
    \/ \E d \in Node : TouchNode(d)
    \/ \E n \in Network, d \in Node, a \in Address, s \in {"active", "inactive"} :
          DoAddMembership(n, d, a, s)
    \/ \E n \in Network, d \in Node : DoRemoveMembership(n, d)
    \/ \E d \in Node : DoRemoveNode(d)
    \/ \E d \in Node, observed \in [Endpoint -> Observation] :
          DoReplaceEndpoints(d, observed)

InviteStep ==
    \/ \E i \in Invite, n \in Network, t \in Token : DoCreateInvite(i, n, t)
    \/ \E i \in Invite : DoRevokeInvite(i)
    \/ \E value \in Invite \cup Network, t \in Token, i \in Invite, d \in Node \cup {None} :
          DoConsumeInvite(value, t, i, d)

RelayStep ==
    \/ \E n \in Network, d \in Node, a \in Assignment, relay \in Node,
          s \in {"scheduled", "live", "ended"} :
          DoSetRelayAssignment(n, d, a, relay, s)
    \/ \E n \in Network : DoRemoveRelayAssignment(n)

Next == MemberStep \/ InviteStep \/ RelayStep \/ TimePasses

Spec == Init /\ [][Next]_db

----------------------------------------------------------------------------
\* Properties.

\* Every map of the repository holds values of its type, and a configuration
\* version stays within the explored bound.
TypeOK == db \in Repo /\ \A n \in Network : db.version[n] <= MaxVersion[n]

\* The public-key index is the exact inverse of the node table through every
\* sequence of AddNode and RemoveNode.
KeysIndexed == KeyIndexExact(db)

\* No two members of a network ever hold the same virtual IPv4 address, and
\* none is left behind by a removed node.
NoSharedAddress == AddressesExclusive(db)

\* Removing a node or a membership removes every assignment it takes part in,
\* as client or as relay, and its entry of the owner index.
RelaysConsistent == RelaysAreMembers(db) /\ OwnerIndexExact(db)

\* RemoveNode clears the consumed-by reference of the invites it consumed and
\* its endpoint observations, and the token index never points at another
\* invite.
NothingDangles == InvitesAccounted(db) /\ EndpointsOwned(db)

\* A snapshot is closed: the relay it names is one of its peers, and no peer
\* shares the local address or another peer's key.
SnapshotClosed ==
    \A n \in Network, d \in Node : CanBuildSnapshot(db, n, d) =>
        LET s == SnapshotContent(db, n, d)
        IN  /\ s.relay # None => \E p \in s.peers : p.node = s.relay
            /\ \A p \in s.peers : p.address # s.address /\ p.key # db.nodes[d]
            /\ \A p, q \in s.peers : p.key = q.key => p = q

\* The generation a member compares covers what it configures: a call that
\* changes the content of some member's snapshot advances that network's
\* version (only the clock may change content silently), and no call takes a
\* version back.
VersionCoversContent ==
    [][/\ \A n \in Network : db'.version[n] >= db.version[n]
       /\ TimePasses \/ \A n \in Network, d \in Node :
             /\ CanBuildSnapshot(db, n, d)
             /\ CanBuildSnapshot(db', n, d)
             /\ SnapshotContent(db', n, d) # SnapshotContent(db, n, d)
             => db'.version[n] > db.version[n]]_db

\* An invite is good for one enrollment: once consumed it stays consumed and
\* revoked it stays revoked, and it never passes to another node or network.
InviteUsedOnce ==
    [][\A i \in Invite :
         /\ db.invites[i].state \in {"consumed", "revoked"} =>
               db'.invites[i].state = db.invites[i].state
         /\ db.invites[i].state # "none" =>
               /\ db'.invites[i].state \notin {"none"}
               /\ db'.invites[i].network = db.invites[i].network
               /\ db'.invites[i].token = db.invites[i].token
         /\ db.invites[i].state = "consumed" =>
               db'.invites[i].by \in {db.invites[i].by, None}]_db

=============================================================================
