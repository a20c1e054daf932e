----------------------------- MODULE NodeService -----------------------------
(***************************************************************************)
(* The privileged node service (internal/service) of one machine, its      *)
(* HTTP control client, and the control server as that machine's public    *)
(* key sees it.  operationMu admits one local operation at a time; inside  *)
(* it every HTTP call is a request the server may execute before or after  *)
(* the client stops waiting for it, and a reply that may be lost.  The     *)
(* heartbeat goroutine runs beside the operations, and the process may     *)
(* stop at any moment.                                                     *)
(*                                                                         *)
(* The server is abstracted to what ControlPlane shows of it: a public key *)
(* is enrolled at most once, a session token outlives the node it was      *)
(* issued for, and a join whose commit is in doubt is answered "pending",  *)
(* or refused when recovery did not see its node.  Apply and Clear are the *)
(* atomic outcomes DataPlane shows they have on the applier's record.      *)
(* There is one network; a request naming another is refused before        *)
(* anything happens, as are a second join and operations on a service that *)
(* is not started or not joined.  roomMembers and Status only read.        *)
(***************************************************************************)
EXTENDS Integers

CONSTANTS
    MaxJoins,    \* bound: join requests sent
    MaxVersion,  \* bound: configuration versions explored
    None         \* Go's zero value

ASSUME BoundsAssumption == MaxJoins \in Nat /\ MaxVersion \in Nat \ {0}

Join   == 1..MaxJoins
\* Node IDs: 0 is stableNodeID of the public key, j the one the server draws
\* for room join j.
NodeID == 0..MaxJoins

\* A session token, known by the join it was issued to, and its subject.
Session == [join : Join, node : NodeID]

ASSUME NoneAssumption == None \notin NodeID /\ None \notin Session

Request   == [kind : {"join", "leave", "snapshot"}, session : Session]
NoRequest == [kind |-> "none", session |-> None]

\* An operation: its step, the request it waits for and the answer to it.
Operation ==
    [kind    : {"none", "join", "leave", "connect", "disconnect", "shutdown"},
     pc      : {"idle", "join", "snapshot", "apply", "undo", "disconnect", "clear", "leave"},
     request : Request \cup {NoRequest},
     reply   : {"none", "created", "pending", "ok", "error"},
     gen     : 0..MaxVersion]

\* The control server: the enrollment of this machine's key, the sessions it
\* accepts, the enrollments whose commit is in doubt, the network's version.
Server == [member : Session \cup {None}, sessions : SUBSET Session,
           doubt : SUBSET Session, version : 1..MaxVersion]

VARIABLES
    svc,    \* Service: started, joined, status.path_state
    cred,   \* HTTPControlClient: nodeID, and the token with its network
    plane,  \* Applier.generation, 0 when nothing is applied
    op,     \* the operation holding operationMu
    hb,     \* the heartbeat request under way: its session
    late,   \* requests the client no longer waits for
    srv,    \* the control server
    joins,  \* join requests sent so far
    left,   \* history: the sessions whose Leave succeeded
    unsure  \* history: the enrollments, by session, of which the client does
            \* not know whether the server has them, or has forgotten them

vars == <<svc, cred, plane, op, hb, late, srv, joins, left, unsure>>

Stopped == [started |-> FALSE, joined |-> None, path |-> "disconnected"]
NoCred  == [node |-> None, session |-> None]
Idle    == [kind |-> "none", pc |-> "idle", request |-> NoRequest, reply |-> "none", gen |-> 0]

Init ==
    /\ svc = Stopped /\ cred = NoCred /\ plane = 0 /\ op = Idle
    /\ hb = None /\ late = {} /\ joins = 0 /\ left = {} /\ unsure = {}
    /\ srv = [member |-> None, sessions |-> {}, doubt |-> {}, version |-> 1]

----------------------------------------------------------------------------
\* The server.  srv.member is the enrollment of this machine's key, as the
\* session that was issued with it.

Enroll(s, session) == [s EXCEPT !.member = session, !.version = @ + 1]
Remove(s)          == [s EXCEPT !.member = None, !.version = @ + 1]
Issue(s, session)  == [s EXCEPT !.sessions = @ \cup {session}]
Doubt(s, session)  == [s EXCEPT !.doubt = @ \cup {session}]

\* The session authenticates, and its subject is the enrolled node.
Serves(s, session) ==
    session \in s.sessions /\ s.member # None /\ s.member.node = session.node

Answer(s, reply, gen) == [srv |-> s, reply |-> reply, gen |-> gen]

\* What the server may do with request r and answer to it.  A join whose
\* commit returned an error is recovered: recoverEnrollmentCommit found the
\* node, could not tell, or did not find it, and then revokes the session and
\* returns the error although the commit may still happen.
Outcomes(s, r) ==
    {Answer(s, "error", 0)} \cup
    CASE r.kind = "join" /\ s.member = None ->
            LET issued == Issue(s, r.session)
            IN  {Answer(Enroll(issued, r.session), "created", 0),
                 Answer(Enroll(issued, r.session), "pending", 0),
                 Answer(Doubt(issued, r.session), "pending", 0),
                 Answer(Doubt(s, r.session), "error", 0)}
      [] r.kind = "leave" /\ Serves(s, r.session) -> {Answer(Remove(s), "ok", 0)}
      [] r.kind = "snapshot" /\ Serves(s, r.session) -> {Answer(s, "ok", s.version)}
      [] OTHER -> {}

Bounded(s) == s.version <= MaxVersion

\* The commit in doubt happens, unless the key was enrolled meanwhile, or not.
ResolveCommit(session) ==
    /\ session \in srv.doubt
    /\ LET s == [srv EXCEPT !.doubt = @ \ {session}]
       IN  \/ srv.member = None /\ Bounded(Enroll(s, session)) /\ srv' = Enroll(s, session)
           \/ srv' = s
    /\ UNCHANGED <<svc, cred, plane, op, hb, late, joins, left, unsure>>

\* deleteNode, by an administrator.
AdminDeletes ==
    /\ srv.member # None
    /\ Bounded(Remove(srv))
    /\ srv' = Remove(srv)
    /\ UNCHANGED <<svc, cred, plane, op, hb, late, joins, left, unsure>>

\* The server restarts on a durable store, or the session expires.
SessionsLost ==
    /\ srv' = [srv EXCEPT !.sessions = {}]
    /\ UNCHANGED <<svc, cred, plane, op, hb, late, joins, left, unsure>>

----------------------------------------------------------------------------
\* HTTP: doJSONWithAuth.

Waiting == op.request # NoRequest /\ op.reply = "none"

\* An answer to the running operation after which its enrollment may be, or
\* come to be, on the server while the client goes on without it.
Unclear(out) ==
    \/ op.pc = "join" /\ (out.reply = "pending" \/ op.request.session \in out.srv.doubt)
    \/ op.pc = "undo" /\ out.reply = "error"

Serve ==
    /\ Waiting
    /\ \E out \in Outcomes(srv, op.request) :
          /\ Bounded(out.srv)
          /\ srv' = out.srv
          /\ op' = [op EXCEPT !.reply = out.reply, !.gen = out.gen]
          /\ unsure' = IF Unclear(out) THEN unsure \cup {op.request.session} ELSE unsure
    /\ UNCHANGED <<svc, cred, plane, hb, late, joins, left>>

\* Mutant: the rollback's Leave has no deadline.
GiveUpUnlessUndo ==
    /\ op.request # NoRequest /\ op.reply # "error"
    /\ op.pc # "undo"
    /\ op' = [op EXCEPT !.reply = "error"]
    /\ late' = IF Waiting THEN late \cup {op.request} ELSE late
    /\ unsure' = IF op.pc \in {"join", "undo"} THEN unsure \cup {op.request.session} ELSE unsure
    /\ UNCHANGED <<svc, cred, plane, hb, srv, joins, left>>

\* Timeout, cancellation, an unreachable server: the request may be executed
\* later, or has been and its answer is lost.
GiveUp ==
    /\ op.request # NoRequest /\ op.reply # "error"
    /\ op' = [op EXCEPT !.reply = "error"]
    /\ late' = IF Waiting THEN late \cup {op.request} ELSE late
    /\ unsure' = IF op.pc \in {"join", "undo"} THEN unsure \cup {op.request.session} ELSE unsure
    /\ UNCHANGED <<svc, cred, plane, hb, srv, joins, left>>

ServeLate(r) ==
    /\ r \in late
    /\ late' = late \ {r}
    /\ \E out \in Outcomes(srv, r) : Bounded(out.srv) /\ srv' = out.srv
    /\ UNCHANGED <<svc, cred, plane, op, hb, joins, left, unsure>>

\* Send request kind with the stored credential.  Without one the client fails
\* before it sends anything.
Send(o, kind) ==
    [o EXCEPT !.request = [kind |-> kind, session |-> cred.session],
              !.reply = IF cred.session = None THEN "error" ELSE "none"]

Done == op' = Idle

\* What the process knew of is forgotten with it.
Orphaned == unsure \cup ({cred.session, op.request.session} \ {None})

----------------------------------------------------------------------------
\* Start, join and joinRoom.

Start ==
    /\ ~svc.started /\ op = Idle
    /\ svc' = [Stopped EXCEPT !.started = TRUE]
    /\ cred' = NoCred /\ plane' = 0          \* a new process
    /\ UNCHANGED <<op, hb, late, srv, joins, left, unsure>>

\* A room join gets a node ID from the server; an invite join sends the last
\* one, or the one derived from the key.
JoinBegin(room) ==
    /\ svc.started /\ op = Idle /\ svc.joined = None
    /\ joins < MaxJoins
    /\ joins' = joins + 1
    /\ LET node == IF room THEN joins' ELSE IF cred.node # None THEN cred.node ELSE 0
       IN  op' = [Idle EXCEPT !.kind = "join", !.pc = "join",
                    !.request = [kind |-> "join", session |-> [join |-> joins', node |-> node]]]
    /\ UNCHANGED <<svc, cred, plane, hb, late, srv, left, unsure>>

\* rememberEnrollment, then finishJoin asks for the snapshot.  Every status
\* other than 2xx, enrollment_recovery_pending included, is an error whose
\* body httpError reads only for its code.
JoinReply ==
    /\ op.pc = "join" /\ op.reply # "none"
    /\ \/ /\ op.reply = "created"
          /\ cred' = [node |-> op.request.session.node, session |-> op.request.session]
          /\ op' = [op EXCEPT !.pc = "snapshot", !.reply = "none",
                              !.request = [kind |-> "snapshot", session |-> op.request.session]]
       \/ /\ op.reply # "created"
          /\ Done
          /\ UNCHANGED cred
    /\ UNCHANGED <<svc, plane, hb, late, srv, joins, left, unsure>>

\* finishJoin's rollback: Leave under a context of its own.
\* Mutant: the operation just ends.
RollbackSkipped == Idle
Rollback == [Send(op, "leave") EXCEPT !.pc = "undo"]

SnapshotReply ==
    /\ op.pc = "snapshot" /\ op.reply # "none"
    /\ op' = IF op.reply = "ok"
             THEN [op EXCEPT !.pc = "apply", !.request = NoRequest, !.reply = "none"]
             ELSE IF op.kind = "join" THEN Rollback ELSE Idle
    /\ UNCHANGED <<svc, cred, plane, hb, late, srv, joins, left, unsure>>

\* Applier.Apply of generation op.gen: refused, nothing to do, or applied.
ApplySucceeds ==
    /\ op.pc = "apply"
    /\ op.gen >= plane
    /\ plane' = op.gen
    /\ svc' = IF op.kind = "join"
              THEN [svc EXCEPT !.joined = cred.session, !.path = "disconnected"]
              ELSE [svc EXCEPT !.path = "direct"]
    /\ Done
    /\ UNCHANGED <<cred, hb, late, srv, joins, left, unsure>>

ApplyFails ==
    /\ op.pc = "apply"
    /\ op' = IF op.kind = "join" THEN Rollback ELSE Idle
    /\ UNCHANGED <<svc, cred, plane, hb, late, srv, joins, left, unsure>>

\* Mutant: the credential is dropped and the membership of the service is not.
LeaveReplyForgets ==
    /\ op.pc = "leave" /\ op.reply # "none"
    /\ Done
    /\ cred' = [cred EXCEPT !.session = None]
    /\ svc' = IF op.reply = "ok" THEN [svc EXCEPT !.joined = None, !.path = "disconnected"]
                                  ELSE svc
    /\ UNCHANGED <<plane, hb, late, srv, joins, left, unsure>>

\* HTTPControlClient.Leave forgets the token and the network, not the node ID.
Forget == [cred EXCEPT !.session = None]

\* The error of the rollback's Leave is ignored.
UndoReply ==
    /\ op.pc = "undo" /\ op.reply # "none"
    /\ Done
    /\ \/ op.reply = "ok" /\ cred' = Forget /\ left' = left \cup {op.request.session}
       \/ op.reply # "ok" /\ UNCHANGED <<cred, left>>
    /\ UNCHANGED <<svc, plane, hb, late, srv, joins, unsure>>

----------------------------------------------------------------------------
\* connect, disconnect, leave, Shutdown.

Begin(kind, pc) == op' = [Idle EXCEPT !.kind = kind, !.pc = pc]

ConnectBegin ==
    /\ svc.started /\ op = Idle /\ svc.joined # None
    /\ op' = [Send(Idle, "snapshot") EXCEPT !.kind = "connect", !.pc = "snapshot"]
    /\ UNCHANGED <<svc, cred, plane, hb, late, srv, joins, left, unsure>>

DisconnectBegin ==
    /\ svc.started /\ op = Idle /\ svc.joined # None
    /\ Begin("disconnect", "clear")
    /\ UNCHANGED <<svc, cred, plane, hb, late, srv, joins, left, unsure>>

LeaveBegin ==
    /\ svc.started /\ op = Idle /\ svc.joined # None
    /\ Begin("leave", IF svc.path = "disconnected" THEN "clear" ELSE "disconnect")
    /\ UNCHANGED <<svc, cred, plane, hb, late, srv, joins, left, unsure>>

ShutdownBegin ==
    /\ svc.started /\ op = Idle
    /\ Begin("shutdown", "clear")
    /\ UNCHANGED <<svc, cred, plane, hb, late, srv, joins, left, unsure>>

\* leave: WindowsDataPlane.Disconnect is Applier.Clear.
LeaveDisconnects ==
    /\ op.pc = "disconnect"
    /\ \/ plane' = 0 /\ op' = [op EXCEPT !.pc = "clear"]
       \/ UNCHANGED plane /\ Done
    /\ UNCHANGED <<svc, cred, hb, late, srv, joins, left, unsure>>

ClearSucceeds ==
    /\ op.pc = "clear"
    /\ plane' = 0
    /\ \/ /\ op.kind = "leave"
          /\ op' = [Send(op, "leave") EXCEPT !.pc = "leave"]
          /\ UNCHANGED svc
       \/ op.kind = "disconnect" /\ Done /\ svc' = [svc EXCEPT !.path = "disconnected"]
       \/ op.kind = "shutdown" /\ Done /\ svc' = Stopped
    /\ unsure' = IF op.kind = "shutdown" THEN Orphaned ELSE unsure
    /\ UNCHANGED <<cred, hb, late, srv, joins, left>>

\* Mutant: disconnect and leave forget the membership too.
ClearFailsForgets ==
    /\ op.pc = "clear"
    /\ Done
    /\ svc' = [svc EXCEPT !.joined = None, !.started = (op.kind # "shutdown")]
    /\ unsure' = IF op.kind = "shutdown" THEN Orphaned ELSE unsure
    /\ UNCHANGED <<cred, plane, hb, late, srv, joins, left>>

\* Clear fails and the applier keeps its record.  Shutdown stops all the same.
ClearFails ==
    /\ op.pc = "clear"
    /\ Done
    /\ svc' = IF op.kind = "shutdown" THEN Stopped ELSE svc
    /\ unsure' = IF op.kind = "shutdown" THEN Orphaned ELSE unsure
    /\ UNCHANGED <<cred, plane, hb, late, srv, joins, left>>

\* Mutant: any answer counts as success.
LeaveReplyUnchecked ==
    /\ op.pc = "leave" /\ op.reply # "none"
    /\ Done
    /\ cred' = Forget
    /\ svc' = [svc EXCEPT !.joined = None, !.path = "disconnected"]
    /\ left' = left \cup {op.request.session}
    /\ UNCHANGED <<plane, hb, late, srv, joins, unsure>>

LeaveReply ==
    /\ op.pc = "leave" /\ op.reply # "none"
    /\ Done
    /\ \/ /\ op.reply = "ok"
          /\ cred' = Forget
          /\ svc' = [svc EXCEPT !.joined = None, !.path = "disconnected"]
          /\ left' = left \cup {op.request.session}
       \/ op.reply # "ok" /\ UNCHANGED <<svc, cred, left>>
    /\ UNCHANGED <<plane, hb, late, srv, joins, unsure>>

\* The process dies: the host's stopService may return before Shutdown ran.
Crash ==
    /\ svc.started
    /\ svc' = Stopped /\ cred' = NoCred /\ plane' = 0 /\ op' = Idle
    /\ late' = IF Waiting THEN late \cup {op.request} ELSE late
    /\ unsure' = Orphaned
    /\ UNCHANGED <<hb, srv, joins, left>>

----------------------------------------------------------------------------
\* runEndpointHeartbeat: the credential is read, then used.

HeartbeatSend ==
    /\ svc.started /\ hb = None /\ cred.session # None
    /\ hb' = cred.session
    /\ UNCHANGED <<svc, cred, plane, op, late, srv, joins, left, unsure>>

HeartbeatServe ==
    /\ hb # None
    /\ hb' = None
    /\ \/ /\ Serves(srv, hb) /\ srv.version < MaxVersion
          /\ srv' = [srv EXCEPT !.version = @ + 1]
       \/ UNCHANGED srv
    /\ UNCHANGED <<svc, cred, plane, op, late, joins, left, unsure>>

----------------------------------------------------------------------------
ServiceStep ==
    \/ JoinReply \/ SnapshotReply \/ ApplySucceeds \/ ApplyFails \/ UndoReply
    \/ LeaveDisconnects \/ ClearSucceeds \/ ClearFails \/ LeaveReply

Command ==
    \/ Start
    \/ \E room \in BOOLEAN : JoinBegin(room)
    \/ ConnectBegin \/ DisconnectBegin \/ LeaveBegin \/ ShutdownBegin

ServerStep ==
    \/ \E session \in Session : ResolveCommit(session)
    \/ AdminDeletes \/ SessionsLost
    \/ Serve
    \/ \E r \in late : ServeLate(r)
    \/ HeartbeatServe

Next == Command \/ ServiceStep \/ ServerStep \/ GiveUp \/ HeartbeatSend \/ Crash

\* The goroutine in an operation runs on, and its HTTP client has a timeout.
Spec == Init /\ [][Next]_vars /\ WF_vars(ServiceStep) /\ WF_vars(GiveUp)

----------------------------------------------------------------------------
\* Properties.

\* The request an operation waits for at pc.
Expects(pc) ==
    IF pc = "undo" THEN "leave"
    ELSE IF pc \in {"join", "snapshot", "leave"} THEN pc ELSE "none"

\* The service, its control client, the running operation and the server hold
\* values of their types, and an operation waits for the request it sent.
TypeOK ==
    /\ svc \in [started : BOOLEAN, joined : Session \cup {None},
                path : {"disconnected", "direct"}]
    /\ cred \in [node : NodeID \cup {None}, session : Session \cup {None}]
    /\ plane \in 0..MaxVersion
    /\ op \in Operation
    /\ Expects(op.pc) = op.request.kind
    /\ hb \in Session \cup {None}
    /\ late \subseteq Request
    /\ srv \in Server
    /\ joins \in 0..MaxJoins
    /\ left \subseteq Session
    /\ unsure \subseteq Session

\* The applier has a record only for a membership the service knows of: no
\* failed join, failed leave or lost reply leaves one that no later command
\* would clear.  (What a failed Apply leaves without a record is DataPlane's.)
PlaneOwned == (svc.started /\ plane # 0) => svc.joined # None

\* While joined, the control client holds the credential of that very
\* enrollment: connect, roomMembers and a repeated leave are sent with it.
\* Whether the server still accepts it is another matter.
Leaveable == svc.joined # None => cred.session = svc.joined

\* Leave is final: an enrollment whose Leave the client saw succeed is never
\* on the server again, whatever late requests and commits arrive.
LeftForGood == srv.member \notin left

\* A failed join is undone: between operations, the server has no enrollment
\* of a service that is not joined, unless nobody could tell.  A join whose
\* snapshot or whose Apply failed has been rolled back, and nothing that was
\* lost or late before, the server's sessions included, gets in its way.  The
\* exceptions are named one by one in unsure: a join that was given up or
\* answered "pending", or was refused while its commit was in doubt; a rollback
\* the server refused or did not answer; and what a process left behind.
FailedJoinUndone ==
    (op = Idle /\ svc.joined = None) => srv.member \in unsure \cup {None}

\* Every operation returns and releases operationMu.
OperationsReturn == (op # Idle) ~> (op = Idle)

\* http.go:892-894, of the answer enrollment_recovery_pending: the issued
\* credential is available to the client, which can retry with it.
RecoveryCredentialKept ==
    [][(JoinReply /\ op.reply = "pending") => cred'.session = op.request.session]_vars

----------------------------------------------------------------------------
\* The inductive invariant behind them.

\* How an operation's program counter fixes its kind and what it may rely on.
OpShape ==
    /\ op.pc = "idle" => op = Idle
    /\ op.pc # "idle" => svc.started
    /\ ~svc.started => svc.joined = None
    /\ op.pc # "join" => op.reply \notin {"created", "pending"}
    /\ op.pc \in {"join", "undo"} => op.kind = "join"
    /\ op.pc \in {"disconnect", "leave"} => op.kind = "leave"
    /\ op.pc \in {"snapshot", "apply"} => op.kind \in {"join", "connect"}
    /\ op.pc = "clear" => op.kind \in {"leave", "disconnect", "shutdown"}
    /\ op.kind = "join" => svc.joined = None
    /\ op.kind \in {"connect", "leave", "disconnect"} => svc.joined # None
    /\ op.pc \in {"snapshot", "undo", "leave"} => op.request.session = cred.session
    /\ (op.pc = "apply" /\ op.kind = "join") => cred.session # None
    /\ op.pc = "leave" => plane = 0
    /\ op.pc = "join" => op.request.session.join = joins

\* The server may yet enroll session s.
Pending(s) == [kind |-> "join", session |-> s] \in late \/ s \in srv.doubt

\* Join numbers are used once: what is known so far is numbered up to joins,
\* and the join under way is newer than what the client holds or has left.
Numbered ==
    /\ \A r \in late : r.session.join <= joins
    /\ \A s \in srv.doubt \cup left : s.join <= joins
    /\ cred.session # None => cred.session.join <= joins
    /\ srv.member # None => srv.member.join <= joins
    /\ op.pc = "join" =>
          /\ \A s \in left : s.join < joins
          /\ cred.session # None => cred.session.join < joins

\* Nothing pending can bring back what the client holds, has left or has just
\* been told is gone.
Settled ==
    /\ cred.session # None => ~Pending(cred.session)
    /\ (op.pc = "join" /\ op.reply \in {"none", "created"}) => ~Pending(op.request.session)
    /\ \A s \in left : ~Pending(s)
    /\ (op.pc \in {"undo", "leave"} /\ op.reply = "ok") => srv.member # op.request.session

\* The enrollment the client counts on: the one it is joined with, or that of
\* the join under way once the server has it.
Counted(s) ==
    \/ s = svc.joined
    \/ op.pc = "join" /\ op.reply = "created" /\ s = op.request.session
    \/ op.kind = "join" /\ op.pc \in {"snapshot", "apply", "undo"} /\ s = cred.session

\* Whatever else the server has or may yet enroll, the client is unsure of.
Accounted ==
    /\ \A s \in Session : Pending(s) => s \in unsure
    /\ srv.member # None => srv.member \in unsure \/ Counted(srv.member)
    /\ op.pc = "undo" /\ op.reply = "error" => op.request.session \in unsure

Inv ==
    /\ TypeOK /\ OpShape /\ PlaneOwned /\ Leaveable
    /\ Numbered /\ Settled /\ LeftForGood /\ Accounted

=============================================================================
