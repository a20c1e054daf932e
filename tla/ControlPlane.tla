---------------------------- MODULE ControlPlane ----------------------------
(***************************************************************************)
(* The HTTP control server of internal/control over the repository:        *)
(* concurrent join and enrollment requests, the session store, the room    *)
(* coordinator, and the recovery of an enrollment whose commit returned an *)
(* error.  The repository calls of one handler are separate steps, so      *)
(* other requests run between them; each call is atomic (the mutex of      *)
(* MemoryRepository, one SQL transaction of PostgresRepository).           *)
(*                                                                         *)
(* A request h is used once.  The identifiers the server draws at random   *)
(* for it (node ID, invite ID and token, session token) are unique, so     *)
(* they are functions of h: NewNode[h], NewInvite[h], NewToken[h]; its     *)
(* session is sessions[h].  Clients of /v1/enrollments choose their node   *)
(* ID themselves, from ClientNode.                                         *)
(*                                                                         *)
(* A commit that returns an error may have happened, not have happened, or *)
(* still be under way in the database (inDoubt); in the last case it holds *)
(* the lock on its network's row, so other writes to that network wait.    *)
(* Bodies and credentials that fail validation change nothing and are not  *)
(* steps, except where a handler has already written something.            *)
(***************************************************************************)
EXTENDS RepositoryOps

CONSTANTS
    Req,         \* join and enrollment requests
    NewNode,     \* NewNode[h]: the node ID newID() draws for h
    KeysOf,      \* KeysOf[h]: the public keys request h may carry
    ClientNode,  \* node IDs clients choose
    NewInvite,   \* NewInvite[h]: the internal invite of room join h
    NewToken,    \* NewToken[h]: its token
    AdminToken,  \* AdminToken[i]: the token of an invite i made by createInvite
    Hosts,       \* Hosts[n]: the usable addresses of network n's pool
    Attempts,    \* enrollmentRecoveryAttempts
    MaxVersion   \* bound: heartbeats are explored up to this version

ASSUME FreshIdentifiers ==
    /\ KeysOf \in [Req -> SUBSET Key]
    /\ ClientNode \subseteq Node
    /\ NewNode \in [Req -> Node \ ClientNode]
    /\ NewInvite \in [Req -> Invite]
    /\ NewToken \in [Req -> Token]
    /\ \A g, h \in Req : NewNode[g] = NewNode[h] \/ NewInvite[g] = NewInvite[h]
                            \/ NewToken[g] = NewToken[h] => g = h
    /\ AdminToken \in [Invite \ {NewInvite[h] : h \in Req} -> Token \ {NewToken[h] : h \in Req}]

ASSUME HostsAssumption ==
    Hosts \in [Network -> SUBSET Address] /\ \A n \in Network : Hosts[n] \subseteq Pool[n]

ASSUME AttemptsAssumption == Attempts \in Nat \ {0} /\ MaxVersion \in Nat

VARIABLES
    db,        \* the repository
    room,      \* roomCoordinator.networkID
    revoked,   \* SessionStore.revokedNetworks
    sessions,  \* SessionStore.sessions, by the request that was issued it
    inDoubt,   \* enrollments whose commit is still under way
    req        \* the handlers

vars == <<db, room, revoked, sessions, inDoubt, req>>

Session   == [subject : Node, network : Network]
NoSession == [subject |-> None, network |-> None]

Replies == {"none", "created", "pending", "conflict", "full", "refused", "lost"}

\* pc: new -> invite (joinRoom, before newInternalRoomInvite) -> enroll
\* (enrollControl) -> recover -> revoke (joinRoom's RevokeInvite) -> done.
Request == [pc : {"new", "invite", "enroll", "recover", "revoke", "done"},
            join : BOOLEAN, node : Node \cup {None}, key : Key \cup {None},
            invite : Invite \cup {None}, token : Token \cup {None},
            network : Network \cup {None}, address : Address \cup {None},
            attempt : 1..Attempts, uncertain : BOOLEAN, reply : Replies]

NewRequest == [pc |-> "new", join |-> FALSE, node |-> None, key |-> None,
               invite |-> None, token |-> None, network |-> None, address |-> None,
               attempt |-> 1, uncertain |-> FALSE, reply |-> "none"]

Init ==
    /\ db = EmptyRepo
    /\ room = None
    /\ revoked = {}
    /\ sessions = [h \in Req |-> NoSession]
    /\ inDoubt = {}
    /\ req = [h \in Req |-> NewRequest]

\* No commit in doubt holds the lock on network n.
Writable(n) == \A g \in inDoubt : req[g].network # n

\* ... nor the unique index entries request h is about to insert.
Unlocked(h, n) ==
    /\ Writable(n)
    /\ \A g \in inDoubt : req[g].node # req[h].node /\ req[g].key # req[h].key

Reply(h, reply) == req' = [req EXCEPT ![h].pc = "done", ![h].reply = reply]

----------------------------------------------------------------------------
\* Administration.

\* roomCoordinator.create holds its mutex across CreateNetwork.
CreateRoom(n) ==
    /\ room = None
    /\ CanCreateNetwork(db, n)
    /\ db' = CreateNetwork(db, n)
    /\ room' = n
    /\ UNCHANGED <<revoked, sessions, inDoubt, req>>

CreateNetworkRequest(n) ==
    /\ CanCreateNetwork(db, n)
    /\ db' = CreateNetwork(db, n)
    /\ UNCHANGED <<room, revoked, sessions, inDoubt, req>>

CreateInviteRequest(i, n) ==
    /\ n \notin revoked
    /\ CanCreateInvite(db, i, n, AdminToken[i])
    /\ db' = CreateInvite(db, i, n, AdminToken[i])
    /\ UNCHANGED <<room, revoked, sessions, inDoubt, req>>

RevokeNetwork(n) ==
    /\ revoked' = revoked \cup {n}
    /\ UNCHANGED <<db, room, sessions, inDoubt, req>>

----------------------------------------------------------------------------
\* Admission.

\* joinRoom: the room is active and the limiter admits the source (one it
\* refuses gets 429 and nothing changes).
JoinRoom(h, k) ==
    /\ req[h].pc = "new"
    /\ room # None
    /\ req' = [req EXCEPT ![h].pc = "invite", ![h].join = TRUE, ![h].key = k,
                          ![h].node = NewNode[h], ![h].invite = NewInvite[h],
                          ![h].token = NewToken[h]]
    /\ UNCHANGED <<db, room, revoked, sessions, inDoubt>>

\* newInternalRoomInvite: the second read of the room and CreateInvite, which
\* fails when the request has been cancelled or the store is unavailable.
NewInternalRoomInvite(h) ==
    /\ req[h].pc = "invite"
    /\ \/ /\ room # None
          /\ CanCreateInvite(db, req[h].invite, room, req[h].token)
          /\ db' = CreateInvite(db, req[h].invite, room, req[h].token)
          /\ req' = [req EXCEPT ![h].pc = "enroll"]
       \/ Reply(h, "refused") /\ UNCHANGED db
    /\ UNCHANGED <<room, revoked, sessions, inDoubt>>

\* POST /v1/enrollments with an invite token, and a node ID the client chose or
\* else the server draws.
EnrollRequest(h, k, i, d) ==
    /\ req[h].pc = "new"
    /\ req' = [req EXCEPT ![h].pc = "enroll", ![h].key = k, ![h].node = d,
                          ![h].invite = i, ![h].token = AdminToken[i]]
    /\ UNCHANGED <<db, room, revoked, sessions, inDoubt>>

----------------------------------------------------------------------------
\* enrollControl's transaction, as the calls it composes.

WithNode(h)    == AddNode(db, req[h].node, req[h].key)
InviteFor(h)   == db.invites[req[h].invite].network
\* Mutant: taken addresses are not skipped.
AllHosts(h)    == Hosts[InviteFor(h)]
FreeHosts(h)   ==
    {a \in Hosts[InviteFor(h)] :
        \A o \in Node : IsMember(db, InviteFor(h), o) => db.memberships[InviteFor(h)][o].address # a}

CanAdd(h)     == CanAddNode(db, req[h].node, req[h].key)
\* Mutant: a consumed invite is accepted again.
CanConsumeAgain(h) ==
    InviteByLookup(WithNode(h), req[h].invite, req[h].token, req[h].invite)
CanConsume(h) ==
    CanConsumeInvite(WithNode(h), req[h].invite, req[h].token, req[h].invite, req[h].node)

\* The working copy after AddNode, ConsumeInviteForNode and AddMembership.
Enrolled(h, n, a) ==
    AddMembership(ConsumeInviteForNode(WithNode(h), req[h].invite, req[h].node),
                  n, req[h].node, a, "active")

\* Where a failed enrollment goes: joinRoom revokes the invite it made.
FailEnrollment(h, reply) ==
    req' = [req EXCEPT ![h].pc = IF req[h].join THEN "revoke" ELSE "done",
                       ![h].reply = reply]

\* The transaction fails before a session is issued.
EnrollFails(h) ==
    /\ req[h].pc = "enroll"
    /\ \/ ~CanAdd(h) /\ FailEnrollment(h, "conflict")
       \/ CanAdd(h) /\ ~CanConsume(h) /\ FailEnrollment(h, "refused")
       \/ /\ CanAdd(h) /\ CanConsume(h) /\ InviteFor(h) \in revoked
          /\ FailEnrollment(h, "refused")
       \/ /\ CanAdd(h) /\ CanConsume(h) /\ InviteFor(h) \notin revoked
          /\ FreeHosts(h) = {}
          /\ FailEnrollment(h, "full")
       \/ FailEnrollment(h, "refused")       \* cancelled, or the store failed
    /\ UNCHANGED <<db, room, revoked, sessions, inDoubt>>

\* Every write succeeded and the session was issued; then COMMIT.
EnrollCommits(h, a) ==
    LET n == InviteFor(h)
    IN  /\ req[h].pc = "enroll"
        /\ CanAdd(h) /\ CanConsume(h)
        /\ n \notin revoked
        /\ a \in FreeHosts(h)
        /\ Unlocked(h, n)
        /\ sessions' = [sessions EXCEPT ![h] = [subject |-> req[h].node, network |-> n]]
        /\ \/ /\ db' = Enrolled(h, n, a)
              /\ req' = [req EXCEPT ![h].pc = "done", ![h].reply = "created",
                                    ![h].network = n, ![h].address = a]
              /\ UNCHANGED inDoubt
           \/ /\ req' = [req EXCEPT ![h].pc = "recover", ![h].network = n, ![h].address = a]
              /\ \/ db' = Enrolled(h, n, a) /\ UNCHANGED inDoubt
                 \/ UNCHANGED <<db, inDoubt>>
                 \/ inDoubt' = inDoubt \cup {h} /\ UNCHANGED db
        /\ UNCHANGED <<room, revoked>>

\* The database finishes a commit it was still working on, or drops it.
ResolveCommit(h) ==
    /\ h \in inDoubt
    /\ inDoubt' = inDoubt \ {h}
    /\ \/ db' = Enrolled(h, req[h].network, req[h].address)
       \/ UNCHANGED db
    /\ UNCHANGED <<room, revoked, sessions, req>>

----------------------------------------------------------------------------
\* recoverEnrollmentCommit.

\* Mutant: any readable answer counts as the enrolled node.
Readable(h) == TRUE
Present(h)  == NodeExists(db, req[h].node) /\ NodeNetworks(db, req[h].node) = {req[h].network}
Absent(h)   == ~NodeExists(db, req[h].node)

LastRound(h) == req[h].attempt = Attempts

\* Every round found the node absent: the session is revoked and the
\* transaction's error returned.  Mutant: the session is kept.
RecoverAbsentKeeps(h) ==
    /\ Absent(h) /\ ~req[h].uncertain
    /\ FailEnrollment(h, "refused")
    /\ UNCHANGED sessions
RecoverAbsent(h) ==
    /\ Absent(h) /\ ~req[h].uncertain
    /\ FailEnrollment(h, "refused")
    /\ sessions' = [sessions EXCEPT ![h] = NoSession]

\* One round of GetNode and GetNodeNetworkIDs; a read that fails, or sees the
\* node change in between, leaves the round uncertain.  The last round ends in
\* the answer.
RecoverAttempt(h) ==
    /\ req[h].pc = "recover"
    /\ \/ Present(h) /\ Reply(h, "created") /\ UNCHANGED sessions
       \/ /\ ~LastRound(h)
          /\ \E unsure \in BOOLEAN :
                /\ unsure \/ Absent(h)
                /\ req' = [req EXCEPT ![h].attempt = @ + 1,
                                      ![h].uncertain = @ \/ unsure]
          /\ UNCHANGED sessions
       \/ LastRound(h) /\ RecoverAbsent(h)
       \/ LastRound(h) /\ Reply(h, "pending") /\ UNCHANGED sessions
    /\ UNCHANGED <<db, room, revoked, inDoubt>>

\* The recovery timeout passes between two rounds.
RecoverTimesOut(h) ==
    /\ req[h].pc = "recover"
    /\ req[h].attempt > 1
    /\ Reply(h, "pending")
    /\ UNCHANGED <<db, room, revoked, sessions, inDoubt>>

\* Mutant: the handler insists on the revocation.
RevokeUntilDone(h) ==
    /\ req[h].pc = "revoke"
    /\ CanRevokeInvite(db, req[h].invite) /\ h \notin inDoubt
    /\ req' = [req EXCEPT ![h].pc = "done"]
    /\ db' = RevokeInvite(db, req[h].invite)
    /\ UNCHANGED <<room, revoked, sessions, inDoubt>>

\* joinRoom's RevokeInvite uses the request's own context.
RevokeRoomInvite(h) ==
    /\ req[h].pc = "revoke"
    /\ req' = [req EXCEPT ![h].pc = "done"]
    /\ \/ /\ CanRevokeInvite(db, req[h].invite)
          /\ h \notin inDoubt
          /\ db' = RevokeInvite(db, req[h].invite)
       \/ UNCHANGED db
    /\ UNCHANGED <<room, revoked, sessions, inDoubt>>

----------------------------------------------------------------------------
\* Requests made with a session, and the administrator's delete.

\* Authenticate and AuthorizeNetwork.
Authorized(h) == sessions[h] # NoSession /\ sessions[h].network \notin revoked

AllWritable(d) == \A n \in NodeNetworks(db, d) : Writable(n)

\* Mutant: leaving removes the membership and keeps the node.
LeaveNetwork(h) ==
    /\ Authorized(h)
    /\ CanRemoveMembership(db, sessions[h].network, sessions[h].subject)
    /\ AllWritable(sessions[h].subject)
    /\ db' = RemoveMembership(db, sessions[h].network, sessions[h].subject)
    /\ UNCHANGED <<room, revoked, sessions, inDoubt, req>>

LeaveNode(h) ==
    /\ Authorized(h)
    /\ CanRemoveNode(db, sessions[h].subject)
    /\ AllWritable(sessions[h].subject)
    /\ db' = RemoveNode(db, sessions[h].subject)
    /\ UNCHANGED <<room, revoked, sessions, inDoubt, req>>

DeleteNode(d) ==
    /\ CanRemoveNode(db, d)
    /\ AllWritable(d)
    /\ db' = RemoveNode(db, d)
    /\ UNCHANGED <<room, revoked, sessions, inDoubt, req>>

Heartbeat(h, observed) ==
    /\ Authorized(h)
    /\ CanReplaceEndpoints(db, sessions[h].subject)
    /\ \A n \in Network : db.version[n] < MaxVersion
    /\ AllWritable(sessions[h].subject)
    /\ db' = ReplaceEndpoints(db, sessions[h].subject, observed)
    /\ UNCHANGED <<room, revoked, sessions, inDoubt, req>>

\* Authenticate drops a session past its expiry.
ExpireSession(h) ==
    /\ sessions[h] # NoSession
    /\ sessions' = [sessions EXCEPT ![h] = NoSession]
    /\ UNCHANGED <<db, room, revoked, inDoubt, req>>

\* The process restarts on a durable store: sessions, room and handlers are
\* gone, committed data is not.
Restart ==
    /\ room' = None /\ revoked' = {}
    /\ sessions' = [h \in Req |-> NoSession]
    /\ req' = [h \in Req |-> IF req[h].pc \in {"new", "done"} THEN req[h]
                             ELSE [req[h] EXCEPT !.pc = "done", !.reply = "lost"]]
    /\ UNCHANGED <<db, inDoubt>>

----------------------------------------------------------------------------
HandlerStep(h) ==
    \/ NewInternalRoomInvite(h)
    \/ EnrollFails(h)
    \/ \E a \in Address : EnrollCommits(h, a)
    \/ RecoverAttempt(h)
    \/ RecoverTimesOut(h)
    \/ RevokeRoomInvite(h)

AdminStep ==
    \/ \E n \in Network : CreateRoom(n)
    \/ \E n \in Network : CreateNetworkRequest(n)
    \/ \E i \in DOMAIN AdminToken, n \in Network : CreateInviteRequest(i, n)
    \/ \E n \in Network : RevokeNetwork(n)
    \/ \E d \in Node : DeleteNode(d)

Arrive(h) ==
    \/ \E k \in KeysOf[h] : JoinRoom(h, k)
    \/ \E k \in KeysOf[h], i \in DOMAIN AdminToken, d \in ClientNode \cup {NewNode[h]} :
          EnrollRequest(h, k, i, d)

SessionStep(h) ==
    \/ LeaveNode(h)
    \/ \E observed \in [Endpoint -> {"none", "fresh"}] : Heartbeat(h, observed)
    \/ ExpireSession(h)

Next ==
    \/ AdminStep
    \/ \E h \in Req : Arrive(h) \/ HandlerStep(h) \/ SessionStep(h) \/ ResolveCommit(h)
    \/ Restart

\* Every handler is a goroutine that keeps running, and the database resolves
\* every commit.
Spec == Init /\ [][Next]_vars /\ \A h \in Req : WF_vars(HandlerStep(h)) /\ WF_vars(ResolveCommit(h))

----------------------------------------------------------------------------
\* Properties.

\* The repository, the session store and every handler hold values of their
\* types; only a handler that reached COMMIT can be in doubt.
TypeOK ==
    /\ db \in Repo
    /\ room \in Network \cup {None}
    /\ revoked \subseteq Network
    /\ sessions \in [Req -> Session \cup {NoSession}]
    /\ inDoubt \subseteq {h \in Req : req[h].network # None}
    /\ req \in [Req -> Request]

\* Whatever the handlers interleave, the store keeps its invariant: the
\* enrollment transaction composes AddNode, ConsumeInviteForNode and
\* AddMembership without an observable intermediate state.
StoreSound == RepoInv(db)

\* An enrollment is all or nothing: every stored node is an active member of
\* exactly one network and was admitted by exactly one invite to it.  This is
\* what recoverEnrollmentCommit's single-network test relies on.
EnrollmentAtomic ==
    \A d \in Node : NodeExists(db, d) =>
        \E n \in Network, i \in Invite :
            /\ NodeNetworks(db, d) = {n} /\ IsActive(db, n, d)
            /\ {j \in Invite : db.invites[j].by = d} = {i}
            /\ db.invites[i].network = n

\* The answer says what the store says when it is given: "created" means the
\* node is enrolled in that network (for a room join, whose node ID is the
\* request's own, with the key and the address the answer carries); an error
\* means a room join left no node behind.
AnswersTruthful ==
    [][\A h \in Req : req[h].reply = "none" =>
         /\ req'[h].reply = "created" =>
               /\ NodeExists(db', req'[h].node)
               /\ NodeNetworks(db', req'[h].node) = {req'[h].network}
               /\ req'[h].join =>
                     /\ db'.nodes[req'[h].node] = req'[h].key
                     /\ db'.memberships[req'[h].network][req'[h].node].address = req'[h].address
         /\ req'[h].reply \in {"conflict", "full", "refused"} /\ req'[h].join =>
               ~NodeExists(db', req'[h].node)]_vars

\* A request that is refused leaves no credential in the session store.
NoGhostSession ==
    \A h \in Req : (req[h].pc = "done" /\ sessions[h] # NoSession) =>
        req[h].reply \in {"created", "pending"}

\* The node ID of request h is the one newID() drew for it.  A request whose
\* client chose the ID is left out below: recoverEnrollmentCommit looks for the
\* ID alone, so such a request can take the enrollment of another request
\* under the same ID for its own.
OwnNode(h) == req[h].node = NewNode[h]

\* One invite admits one node: of the requests that present the same invite
\* under node IDs of their own, at most one is ever told "created", whatever
\* the recovery of their commits found out.
OneNodePerInvite ==
    \A g, h \in Req :
        (/\ OwnNode(g) /\ OwnNode(h)
         /\ req[g].reply = "created" /\ req[h].reply = "created"
         /\ req[g].invite = req[h].invite)
            => g = h

\* Every admitted request is answered, recovery rounds included.
RequestsFinish == \A h \in Req : (req[h].pc # "new") ~> (req[h].pc = "done")

----------------------------------------------------------------------------
\* The inductive invariant.

\* Every invite was issued for a network that exists, so consuming it leads to
\* a network a member can be added to.
InvitesIssued ==
    \A i \in Invite : db.invites[i].state # "none" => NetworkExists(db, db.invites[i].network)

\* What a handler has set by the time it reaches each of its stages.
Shaped(h) ==
    /\ req[h].pc = "new" => req[h] = NewRequest
    /\ req[h].pc # "new" =>
          /\ req[h].key \in Key
          /\ IF req[h].join
             THEN /\ req[h].node = NewNode[h]
                  /\ req[h].invite = NewInvite[h] /\ req[h].token = NewToken[h]
             ELSE /\ req[h].node \in ClientNode \cup {NewNode[h]}
                  /\ req[h].invite \in DOMAIN AdminToken
    /\ req[h].pc \in {"invite", "enroll"} => req[h].network = None /\ req[h].reply = "none"
    /\ req[h].pc = "recover" => req[h].network \in Network /\ req[h].reply = "none"
    /\ req[h].pc \in {"invite", "revoke"} => req[h].join
RequestShape == \A h \in Req : Shaped(h)

\* A session belongs to a handler still in recovery, or to one that answered
\* with a credential.
Credited(h) ==
    sessions[h] # NoSession =>
        \/ req[h].pc = "recover"
        \/ req[h].pc = "done" /\ req[h].reply \in {"created", "pending"}
SessionShape == \A h \in Req : Credited(h)

\* A commit under way can still be carried out: the locks it holds have kept
\* everything its transaction checked.
DoubtReady ==
    \A h \in inDoubt :
        /\ CanAdd(h)
        /\ db.invites[req[h].invite].state = "unused"
        /\ InviteFor(h) = req[h].network
        /\ req[h].address \in FreeHosts(h)

\* Two commits under way touch different networks, nodes and keys.
DoubtApart ==
    \A g, h \in inDoubt : g # h =>
        /\ req[g].network # req[h].network
        /\ req[g].node # req[h].node
        /\ req[g].key # req[h].key

\* A node under an ID the server drew was stored by the request it was drawn
\* for, past its transaction, and is what that request would answer.
OwnNodes ==
    \A h \in Req : NodeExists(db, NewNode[h]) =>
        /\ OwnNode(h)
        /\ req[h].pc \notin {"new", "invite", "enroll"}
        /\ db.nodes[NewNode[h]] = req[h].key
        /\ req[h].network \in Network
        /\ db.memberships[req[h].network][NewNode[h]].address = req[h].address

\* The request's own node has been stored, at some time or other.
Admitted(h) == OwnNode(h) /\ (req[h].reply = "created" \/ NodeExists(db, NewNode[h]))

\* Each such request has used up an invite of its own.
InvitesSpent ==
    \A h \in Req : Admitted(h) =>
        /\ db.invites[req[h].invite].state = "consumed"
        /\ \A g \in Req : Admitted(g) /\ req[g].invite = req[h].invite => g = h

Inv ==
    /\ TypeOK
    /\ StoreSound
    /\ EnrollmentAtomic
    /\ InvitesIssued
    /\ RequestShape
    /\ SessionShape
    /\ DoubtReady
    /\ DoubtApart
    /\ OwnNodes
    /\ InvitesSpent

=============================================================================
