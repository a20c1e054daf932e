---------------------------- MODULE PostgresStore ----------------------------
(***************************************************************************)
(* internal/db/postgres.go: concurrent transactions at READ COMMITTED over *)
(* the schema of internal/db/schema.sql.  A transaction runs its           *)
(* statements one at a time; each reads what is committed at that moment   *)
(* (and its own writes), may have to wait for a row another transaction    *)
(* has locked or inserted, and may fail, which rolls the transaction back. *)
(* Its writes become visible at COMMIT.  BuildSnapshotAt alone runs at     *)
(* REPEATABLE READ: it waits for nobody, and all its statements read the   *)
(* store its first one saw.                                                *)
(*                                                                         *)
(* Every method locks node rows first, in the order of their IDs, then     *)
(* network rows in the order of theirs, then writes.  What a method writes *)
(* after its last lock is one step: a transaction that has come that far   *)
(* waits only for one that waits for nothing.  Foreign keys add no lock,   *)
(* the rows they point at are already held.                                *)
(*                                                                         *)
(* CreateNetwork and AddNode by themselves insert one row, TouchNode and   *)
(* UpdateNodeClientVersion update one: a single statement is atomic by     *)
(* itself.  The clock stands still here; Repository models it.             *)
(*                                                                         *)
(* newID draws the ID of a new invite at random: it is not in use (Drawn). *)
(* A CreateInvite with the ID of an invite that is being consumed would    *)
(* wait with its network locked, and NoDeadlock would fail: the enrollment *)
(* that consumes it may wait for a RemoveNode that waits for that network. *)
(***************************************************************************)
EXTENDS RepositoryOps, FiniteSets

CONSTANTS
    Tx,          \* database transactions
    Operations,  \* the calls they may make
    Initial,     \* the stores explored from
    MaxVersion,  \* bound: MaxVersion[n], the highest version of network n explored
    Rank         \* the byte order of IDs that sort.Strings uses

Kinds == {"enroll", "addMembership", "removeMembership", "removeNode", "createInvite",
          "revokeInvite", "consumeInvite", "replaceEndpoints",
          "setRelayAssignment", "removeRelayAssignment", "buildSnapshot"}

\* A call and its arguments.  other is the relay node; value is what
\* consumeInvite looks the invite up by; an enrollment's address is drawn later.
Operation ==
    [kind : Kinds, node : Node \cup {None}, other : Node \cup {None}, key : Key \cup {None},
     network : Network \cup {None}, invite : Invite \cup {None}, token : Token \cup {None},
     value : Invite \cup Network \cup {None}, address : Address \cup {None},
     assignment : Assignment \cup {None}, observed : [Endpoint -> Observation]]

\* The arguments each kind of call has: Validate* and the tests for empty IDs
\* refuse a call before its transaction begins.
WellFormed(o) ==
    /\ o.kind \in {"enroll", "addMembership", "removeMembership", "removeNode",
                   "replaceEndpoints", "setRelayAssignment", "buildSnapshot"} => o.node \in Node
    /\ o.kind \in {"addMembership", "removeMembership", "createInvite", "setRelayAssignment",
                   "removeRelayAssignment", "buildSnapshot"} => o.network \in Network
    /\ o.kind = "enroll" => o.key \in Key
    /\ o.kind \in {"enroll", "consumeInvite"} => o.token \in Token /\ o.value # None
    /\ o.kind \in {"createInvite", "revokeInvite"} => o.invite \in Invite /\ o.node = None
    /\ o.kind = "createInvite" => o.token \in Token
    /\ o.kind = "revokeInvite" => o.network = None
    /\ IF o.kind = "setRelayAssignment"
       THEN o.assignment \in Assignment /\ o.other \in Node \ {o.node}
       ELSE o.other = None

ASSUME OperationsAssumption == \A o \in Operations : o \in Operation /\ WellFormed(o)
ASSUME TxAssumption == IsFiniteSet(Tx) /\ None \notin Tx
ASSUME OrderAssumption ==
    /\ Rank \in [Node \cup Network -> Nat]
    /\ \A S \in {Node, Network} : \A y, z \in S : Rank[y] = Rank[z] => y = z
ASSUME InitialAssumption == \A r \in Initial : RepoInv(r)

\* What a transaction can hold: a row, or the entry of a unique index it has
\* inserted ("id" and "key" of nodes, "token" of invites).
Row == ({"node", "id"} \X Node) \cup ({"key"} \X Key) \cup ({"network"} \X Network)
         \cup ({"invite"} \X Invite) \cup ({"token"} \X Token) \cup ({"relay"} \X Assignment)

VARIABLES
    db,     \* the committed store
    owner,  \* owner[row]: the transaction that holds it
    tx      \* tx[x]: call, next statement, rows still to lock, networks read;
            \* of a reader, the peers still to read and what it has read

vars == <<db, owner, tx>>

Atomic == INSTANCE AtomicStore
             WITH db <- db, Initial <- Initial, MaxVersion <- MaxVersion

\* pc: new -> insert (enrollments) -> nodes -> consume -> networks -> commit,
\* and new -> network -> members -> endpoints -> answer for a reader.
NoCall == [pc |-> "new", op |-> None, want |-> {}, networks |-> {}, read |-> None]

Init ==
    /\ db \in Initial
    /\ owner = [row \in Row |-> None]
    /\ tx = [x \in Tx |-> NoCall]

----------------------------------------------------------------------------
\* Rows.

Op(x) == tx[x].op
Take(x, rows) == owner' = [row \in Row |-> IF row \in rows THEN x ELSE owner[row]]
Release(x)    == owner' = [row \in Row |-> IF owner[row] = x THEN None ELSE owner[row]]

\* relayAssignmentNodeIDsQuery.
AssignmentNodes(n) ==
    UNION {{d, db.relayAssignments[n][d].relay} : d \in {e \in Node : HasAssignment(db, n, e)}}

\* The node rows a call locks: its arguments, or what a first SELECT finds.
\* Mutant: only RemoveNode locks its node.
NodesOfRemovals(o) ==
    IF o.kind = "removeNode" THEN {o.node} ELSE {}
NodesToLock(o) ==
    IF o.kind = "removeRelayAssignment" THEN AssignmentNodes(o.network)
                                        ELSE {o.node, o.other} \ {None}

\* removeNodeAffectedNetworksQuery.
AffectedNetworks(d) ==
    {n \in Network : IsMember(db, n, d) \/ Involving(db, n, d) # {}}

\* The network rows it locks next.
NetworksToLock(o) ==
    CASE o.kind = "removeNode"       -> AffectedNetworks(o.node)
      [] o.kind = "replaceEndpoints" -> NodeNetworks(db, o.node)
      [] OTHER                       -> {o.network} \ {None}

\* The invites consumeInviteWithExecutor's UPDATE matches: one, or none.
Matching(o) ==
    {i \in Invite : InviteByLookup(db, o.value, o.token, i) /\ db.invites[i].state = "unused"}

\* Rows and index entries the last statements write that are not locked yet.
\* (A delete also makes an INSERT of the same key wait for its end; here the
\* INSERT fails or comes later.)
RowsToWrite(o) ==
    CASE o.kind = "removeNode"   -> {<<"invite", i>> : i \in {j \in Invite : db.invites[j].by = o.node}}
      [] o.kind = "createInvite" -> {<<"invite", o.invite>>, <<"token", o.token>>}
      [] o.kind = "revokeInvite" -> {<<"invite", o.invite>>}
      [] o.kind = "setRelayAssignment" -> {<<"relay", o.assignment>>}
      [] OTHER -> {}

\* sortedUniqueStrings: the next ID to lock.
\* Mutant: the IDs are locked in the order of the arguments.
NextInArguments(x) ==
    IF Op(x).node \in tx[x].want THEN Op(x).node ELSE CHOOSE y \in tx[x].want : TRUE
NextToLock(x) == CHOOSE y \in tx[x].want : \A z \in tx[x].want : Rank[y] <= Rank[z]

\* What the next statement of x must get hold of.
Needs(x) ==
    CASE tx[x].pc = "insert"  -> {<<"id", Op(x).node>>, <<"key", Op(x).key>>}
      [] tx[x].pc = "consume" -> {<<"invite", i>> : i \in Matching(Op(x))}
      [] tx[x].pc = "nodes" /\ tx[x].want # {}    -> {<<"node", NextToLock(x)>>}
      [] tx[x].pc = "networks" /\ tx[x].want # {} -> {<<"network", NextToLock(x)>>}
      [] tx[x].pc = "networks" /\ tx[x].want = {} -> RowsToWrite(Op(x))
      [] OTHER -> {}

WaitsFor(x, y) == y # x /\ \E row \in Needs(x) : owner[row] = y
Granted(x) == \A y \in Tx : ~WaitsFor(x, y)

----------------------------------------------------------------------------
\* Statements.

Running(x) == tx[x].pc \notin {"new", "done"}

\* newID: the ID of a new invite is neither in the table nor in another call.
Drawn(o) ==
    o.kind = "createInvite" =>
        /\ db.invites[o.invite].state = "none"
        /\ \A y \in Tx : Running(y) /\ Op(y).kind = "createInvite" => Op(y).invite # o.invite

\* BeginTx, and RemoveRelayAssignment's unlocked SELECT.
Begin(x, o) ==
    /\ tx[x].pc = "new" /\ Drawn(o)
    /\ tx' = [tx EXCEPT ![x] =
                [@ EXCEPT !.op = o,
                          !.pc = CASE o.kind = "enroll"        -> "insert"
                                   [] o.kind = "buildSnapshot" -> "network"
                                   [] OTHER                    -> "nodes",
                          !.want = IF o.kind \in {"enroll", "buildSnapshot"}
                                   THEN {} ELSE NodesToLock(o)]]
    /\ UNCHANGED <<db, owner>>

\* Inside enrollControl's transaction: AddNode's INSERT ... ON CONFLICT.
InsertNode(x) ==
    /\ tx[x].pc = "insert" /\ Granted(x)
    /\ CanAddNode(db, Op(x).node, Op(x).key)
    /\ Take(x, Needs(x))
    /\ tx' = [tx EXCEPT ![x] = [@ EXCEPT !.pc = "consume"]]
    /\ UNCHANGED db

\* lockNodeRows, one SELECT ... FOR UPDATE.
LockNode(x) ==
    /\ tx[x].pc = "nodes" /\ tx[x].want # {} /\ Granted(x)
    /\ NodeExists(db, NextToLock(x))
    /\ Take(x, Needs(x))
    /\ tx' = [tx EXCEPT ![x] = [@ EXCEPT !.want = tx[x].want \ {NextToLock(x)}]]
    /\ UNCHANGED db

\* With its nodes locked a call finds out which networks it concerns.
ReadNetworks(x) ==
    /\ tx[x].pc = "nodes" /\ tx[x].want = {}
    /\ tx' = [tx EXCEPT ![x] =
                [@ EXCEPT !.pc = IF Op(x).kind = "consumeInvite" THEN "consume" ELSE "networks",
                          !.want = NetworksToLock(Op(x)), !.networks = NetworksToLock(Op(x))]]
    /\ UNCHANGED <<db, owner>>

\* consumeInviteWithExecutor's conditional UPDATE.
ConsumeInvite(x) ==
    /\ tx[x].pc = "consume" /\ Granted(x)
    /\ \E i \in Matching(Op(x)) :
          LET concerned == IF Op(x).kind = "enroll" THEN {db.invites[i].network} ELSE {}
          IN  /\ Take(x, {<<"invite", i>>})
              /\ tx' = [tx EXCEPT ![x] =
                          [@ EXCEPT !.pc = IF concerned = {} THEN "commit" ELSE "networks",
                                    !.op = [Op(x) EXCEPT !.invite = i,
                                                         !.network = db.invites[i].network],
                                    !.want = concerned, !.networks = concerned]]
    /\ UNCHANGED db

\* lockNetworkRows and lockNetworkAndReadIPv4Pool.
LockNetwork(x) ==
    /\ tx[x].pc = "networks" /\ tx[x].want # {} /\ Granted(x)
    /\ NetworkExists(db, NextToLock(x))
    /\ Take(x, Needs(x))
    /\ tx' = [tx EXCEPT ![x] = [@ EXCEPT !.want = tx[x].want \ {NextToLock(x)}]]
    /\ UNCHANGED db

\* No membership of network n has address a.
Unassigned(n, a) ==
    a \in Pool[n] /\ \A d \in Node : IsMember(db, n, d) => db.memberships[n][d].address # a

\* Whether the last statements of call o affect the rows they are about.
Writes(o, a) ==
    CASE o.kind = "enroll" -> Unassigned(o.network, a)
      [] o.kind = "addMembership" ->
            ~IsMember(db, o.network, o.node) /\ Unassigned(o.network, a)
      [] o.kind = "removeMembership" -> IsMember(db, o.network, o.node)
      [] o.kind = "createInvite" ->
            db.invites[o.invite].state = "none" /\ db.inviteByToken[o.token] = None
      [] o.kind = "revokeInvite" -> db.invites[o.invite].state \in {"unused", "expired", "revoked"}
      [] o.kind = "setRelayAssignment" ->
            /\ IsActive(db, o.network, o.node) /\ IsActive(db, o.network, o.other)
            /\ db.relayAssignmentOwners[o.assignment]
                  \in {NoOwner, [network |-> o.network, node |-> o.node]}
      [] o.kind = "removeRelayAssignment" -> AssignmentNodes(o.network) # {}
      [] OTHER -> TRUE

\* The last statements.  An enrollment tries addresses until one is free.
Write(x) ==
    /\ tx[x].pc = "networks" /\ tx[x].want = {} /\ Granted(x)
    /\ \E a \in IF Op(x).kind = "enroll" THEN Address ELSE {Op(x).address} :
          /\ Writes(Op(x), a)
          /\ tx' = [tx EXCEPT ![x] = [@ EXCEPT !.pc = "commit",
                                               !.op = [Op(x) EXCEPT !.address = a]]]
    /\ Take(x, Needs(x))
    /\ UNCHANGED db

\* The store after call o, whose transaction read networks ns, has committed.
Effect(o, ns) ==
    CASE o.kind = "enroll" -> Atomic!Enrolled(db, o.node, o.key, o.invite, o.network, o.address)
      [] o.kind = "addMembership" -> AddMembership(db, o.network, o.node, o.address, "active")
      [] o.kind = "removeMembership" -> RemoveMembership(db, o.network, o.node)
      [] o.kind = "removeNode" -> [RemoveNode(db, o.node) EXCEPT !.version = Bump(db, ns).version]
      [] o.kind = "createInvite" -> CreateInvite(db, o.invite, o.network, o.token)
      [] o.kind = "revokeInvite" -> RevokeInvite(db, o.invite)
      [] o.kind = "consumeInvite" -> ConsumeInviteForNode(db, o.invite, o.node)
      [] o.kind = "replaceEndpoints" -> ReplaceEndpoints(db, o.node, o.observed)
      [] o.kind = "setRelayAssignment" ->
            SetRelayAssignment(db, o.network, o.node, o.assignment, o.other, "live")
      [] o.kind = "removeRelayAssignment" -> RemoveRelayAssignment(db, o.network)

\* Mutant: the locks outlive the transaction.
CommitUnreleased(x) ==
    /\ tx[x].pc = "commit"
    /\ db' = Effect(Op(x), tx[x].networks)
    /\ tx' = [tx EXCEPT ![x] = [NoCall EXCEPT !.pc = "done"]]
    /\ UNCHANGED owner
Commit(x) ==
    /\ tx[x].pc = "commit"
    /\ db' = Effect(Op(x), tx[x].networks)
    /\ \A n \in Network : db'.version[n] <= MaxVersion[n]
    /\ Release(x)
    /\ tx' = [tx EXCEPT ![x] = [NoCall EXCEPT !.pc = "done"]]

\* A statement affects no row, the caller cancels, the connection breaks.
Rollback(x) ==
    /\ Running(x)
    /\ Release(x)
    /\ tx' = [tx EXCEPT ![x] = [NoCall EXCEPT !.pc = "done"]]
    /\ UNCHANGED db

----------------------------------------------------------------------------
\* BuildSnapshotAt: a read-only transaction at REPEATABLE READ.

\* What a later statement of reader x reads: the store of its first one.
\* Mutant: READ COMMITTED, every statement reads what is committed by then.
SeesCommitted(x) == db
Sees(x) == tx[x].read.store

\* SELECT ... FROM networks WHERE id = $1.
ReadNetwork(x) ==
    /\ tx[x].pc = "network"
    /\ NetworkExists(db, Op(x).network)
    /\ tx' = [tx EXCEPT ![x] =
                [@ EXCEPT !.pc = "members",
                          !.read = [store |-> db, generation |-> db.version[Op(x).network],
                                    members |-> {}, peers |-> {}, relay |-> None]]]
    /\ UNCHANGED <<db, owner>>

\* The active memberships of network n joined with their nodes.
ActiveNodes(r, n) == {d \in Node : IsActive(r, n, d) /\ NodeExists(r, d)}
MemberRow(r, n, d) ==
    [node |-> d, key |-> r.nodes[d], address |-> r.memberships[n][d].address]

ReadMembers(x) ==
    LET active == ActiveNodes(Sees(x), Op(x).network)
    IN  /\ tx[x].pc = "members"
        /\ tx' = [tx EXCEPT ![x] =
                    [@ EXCEPT !.pc = "endpoints",
                              !.want = active \ {Op(x).node},
                              !.read = [tx[x].read EXCEPT !.members =
                                 {MemberRow(Sees(x), Op(x).network, d) : d \in active}]]]
        /\ UNCHANGED <<db, owner>>

\* readFreshEndpointsWithMaxAge.
FreshEndpoints(r, d) == {e \in Endpoint : r.endpoints[d][e] = "fresh"}

\* The endpoints of the next peer in the order of the IDs.
ReadEndpoints(x) ==
    /\ tx[x].pc = "endpoints" /\ tx[x].want # {}
    /\ \E m \in tx[x].read.members :
          /\ m.node = NextToLock(x)
          /\ tx' = [tx EXCEPT ![x] =
                      [@ EXCEPT !.want = tx[x].want \ {m.node},
                                !.read = [tx[x].read EXCEPT !.peers = @ \cup
                                   {[node |-> m.node, key |-> m.key, address |-> m.address,
                                     endpoints |-> FreshEndpoints(Sees(x), m.node)]}]]]
    /\ UNCHANGED <<db, owner>>

\* snapshotRelayAssignmentsQuery, once the local membership was found.
ReadRelay(x) ==
    /\ tx[x].pc = "endpoints" /\ tx[x].want = {}
    /\ \E m \in tx[x].read.members : m.node = Op(x).node
    /\ tx' = [tx EXCEPT ![x] =
                [@ EXCEPT !.pc = "answer",
                          !.read = [tx[x].read EXCEPT
                             !.relay = SnapshotRelay(Sees(x), Op(x).network, Op(x).node)]]]
    /\ UNCHANGED <<db, owner>>

\* The snapshot the caller gets.
SnapshotRead(x) ==
    LET own == CHOOSE m \in tx[x].read.members : m.node = Op(x).node
    IN  [network    |-> Op(x).network,
         generation |-> tx[x].read.generation,
         content    |-> [address |-> own.address, peers |-> tx[x].read.peers,
                         relay |-> tx[x].read.relay]]

\* The COMMIT of a transaction that wrote nothing.
ReadEnds(x) ==
    /\ tx[x].pc = "answer"
    /\ tx' = [tx EXCEPT ![x] = [NoCall EXCEPT !.pc = "done"]]
    /\ UNCHANGED <<db, owner>>

Statement(x) ==
    \/ InsertNode(x) \/ LockNode(x) \/ ReadNetworks(x) \/ ConsumeInvite(x)
    \/ LockNetwork(x) \/ Write(x) \/ Commit(x)
    \/ ReadNetwork(x) \/ ReadMembers(x) \/ ReadEndpoints(x) \/ ReadRelay(x) \/ ReadEnds(x)

Next == \E x \in Tx : (\E o \in Operations : Begin(x, o)) \/ Statement(x) \/ Rollback(x)

Spec == Init /\ [][Next]_vars

----------------------------------------------------------------------------
\* Properties.

PC == {"new", "insert", "nodes", "consume", "networks", "commit",
       "network", "members", "endpoints", "answer", "done"}
Member == [node : Node, key : Key \cup {None}, address : Address \cup {None}]
Peer   == [node : Node, key : Key \cup {None}, address : Address \cup {None},
           endpoints : SUBSET Endpoint]
Read   == [store : Repo, generation : Nat, members : SUBSET Member,
           peers : SUBSET Peer, relay : Node \cup {None}]
Transaction == [pc : PC, op : Operation \cup {None}, want : SUBSET (Node \cup Network),
                networks : SUBSET Network, read : Read \cup {None}]

\* The committed store and the transactions hold values of their types; only
\* a running transaction holds rows.
TypeOK ==
    /\ db \in Repo
    /\ owner \in [Row -> Tx \cup {None}]
    /\ tx \in [Tx -> Transaction]
    /\ \A x \in Tx : ~Running(x) => \A row \in Row : owner[row] # x

\* Row locks make every method atomic: what was checked and read statement by
\* statement still holds when the transaction commits, so each commit is the
\* one change AtomicStore allows (and RemoveNode advances exactly the networks
\* the node was part of, although it read their list before it locked them).
Atomicity == Atomic!StoreSpec

\* No set of transactions waits in a circle: an enrollment's index entries,
\* node rows, invites it consumes, network rows, then what is left to write;
\* nodes and networks each in the order of their IDs.
NoDeadlock ==
    \A circle \in (SUBSET Tx) \ {{}} :
        \E x \in circle : \A y \in circle : ~WaitsFor(x, y)

\* Whatever commits between its statements, BuildSnapshotAt answers with the
\* snapshot MemoryRepository would have built of the store its first statement
\* saw: members, keys, endpoints and relay belong to one store, and the
\* generation is that store's.  A generation paired with later contents would
\* make a member ignore the real snapshot of that generation.
SnapshotOfOneStore ==
    \A x \in Tx : tx[x].pc = "answer" =>
        /\ CanBuildSnapshot(tx[x].read.store, Op(x).network, Op(x).node)
        /\ SnapshotRead(x) = BuildSnapshot(tx[x].read.store, Op(x).network, Op(x).node)

\* No network's version is advanced without its row lock: ReplaceEndpoints and
\* RemoveNode find the networks before they lock them, and a membership that
\* appeared in between would be updated out of order.
VersionsLocked ==
    [][\A n \in Network : db'.version[n] # db.version[n] =>
         \E x \in Tx : tx[x].pc = "commit" /\ owner[<<"network", n>>] = x
                           /\ tx'[x].pc = "done"]_vars

----------------------------------------------------------------------------
\* The inductive invariant.

Writing == {"nodes", "consume", "networks", "commit"}
Reading == {"network", "members", "endpoints", "answer"}

\* What a call is by the time it has come to each stage.
StageOf(x) ==
    /\ Running(x) => Op(x) \in Operation /\ WellFormed(Op(x))
    /\ tx[x].pc = "insert" => Op(x).kind = "enroll"
    /\ tx[x].pc = "nodes" => /\ Op(x).kind \notin {"enroll", "buildSnapshot"}
                             /\ tx[x].want \subseteq Node
                             /\ Op(x).kind # "removeRelayAssignment" =>
                                   tx[x].want \subseteq {Op(x).node, Op(x).other}
    /\ tx[x].pc = "consume" => Op(x).kind \in {"enroll", "consumeInvite"}
    /\ tx[x].pc = "networks" => /\ Op(x).kind \notin {"consumeInvite", "buildSnapshot"}
                                /\ tx[x].want \subseteq tx[x].networks
    /\ tx[x].pc = "commit" => Op(x).kind # "buildSnapshot" /\ tx[x].want = {}
    /\ tx[x].pc \in Reading => Op(x).kind = "buildSnapshot"
CallShape == \A x \in Tx : StageOf(x)

\* The nodes whose rows x has locked so far; RemoveRelayAssignment's are not
\* the ones it writes about.
NodesLocked(x) ==
    IF Op(x).kind \in {"enroll", "removeRelayAssignment"} THEN {}
    ELSE {Op(x).node, Op(x).other} \ ({None} \cup IF tx[x].pc = "nodes" THEN tx[x].want ELSE {})

\* x has the row of an invite it consumes.
HasConsumed(x) ==
    \/ Op(x).kind = "enroll" /\ tx[x].pc \in {"networks", "commit"}
    \/ Op(x).kind = "consumeInvite" /\ tx[x].pc = "commit"

\* Two-phase locking: what x has found out under the locks it holds is still
\* so.  The networks it has read are those it would read now.
Holds(x) ==
    /\ tx[x].pc \in Writing => \A d \in NodesLocked(x) : owner[<<"node", d>>] = x /\ NodeExists(db, d)
    /\ tx[x].pc \in {"networks", "commit"} =>
          /\ \A n \in tx[x].networks \ tx[x].want :
                owner[<<"network", n>>] = x /\ NetworkExists(db, n)
          /\ Op(x).kind # "consumeInvite" => tx[x].networks = NetworksToLock(Op(x))
    /\ tx[x].pc \in Writing /\ Op(x).kind = "enroll" =>
          /\ owner[<<"id", Op(x).node>>] = x /\ owner[<<"key", Op(x).key>>] = x
          /\ CanAddNode(db, Op(x).node, Op(x).key)
    /\ tx[x].pc \in Writing /\ HasConsumed(x) =>
          /\ Op(x).invite \in Invite /\ owner[<<"invite", Op(x).invite>>] = x
          /\ db.invites[Op(x).invite].state = "unused"
          /\ Op(x).network = db.invites[Op(x).invite].network
    /\ tx[x].pc = "commit" =>
          /\ Writes(Op(x), Op(x).address)
          /\ Op(x).kind # "removeNode" => \A row \in RowsToWrite(Op(x)) : owner[row] = x
LocksHold == \A x \in Tx : Holds(x)

\* Which rows a transaction can hold at each stage: below those it waits for.
OwnsInOrder(x) ==
    /\ \A d \in Node : owner[<<"node", d>>] = x =>
          /\ tx[x].pc \in Writing /\ Op(x).kind # "revokeInvite"
          /\ tx[x].pc = "nodes" => \A w \in tx[x].want : Rank[d] < Rank[w]
    /\ \A row \in ({"id"} \X Node) \cup ({"key"} \X Key) : owner[row] = x =>
          tx[x].pc \in {"consume", "networks", "commit"} /\ Op(x).kind # "revokeInvite"
    /\ \A n \in Network : owner[<<"network", n>>] = x =>
          /\ tx[x].pc \in {"networks", "commit"} /\ n \in tx[x].networks
          /\ \A w \in tx[x].want : Rank[n] < Rank[w]
    /\ \A i \in Invite : owner[<<"invite", i>>] = x =>
          \/ tx[x].pc = "commit"
          \/ tx[x].pc = "networks" /\ Op(x).kind = "enroll" /\ Op(x).invite = i
    /\ \A row \in ({"token"} \X Token) \cup ({"relay"} \X Assignment) :
          owner[row] = x => tx[x].pc = "commit"
OwnersInOrder == \A x \in Tx : OwnsInOrder(x)

\* A new invite's ID stays unused until its call has committed.
Creating(x) == Running(x) /\ Op(x).kind = "createInvite"
InvitesDrawn ==
    \A x \in Tx : Creating(x) =>
        /\ db.invites[Op(x).invite].state = "none"
        /\ \A y \in Tx : Creating(y) /\ Op(y).invite = Op(x).invite => y = x

\* What a reader has put together so far is of the store it sees.
PeerRow(r, n, d) ==
    [node |-> d, key |-> r.nodes[d], address |-> r.memberships[n][d].address,
     endpoints |-> FreshEndpoints(r, d)]
ReadsOneStore(x) ==
    LET r == Sees(x)
        n == Op(x).network
        d == Op(x).node
    IN  tx[x].pc \in Reading \ {"network"} =>
            /\ tx[x].read \in Read /\ NetworkExists(r, n)
            /\ tx[x].read.generation = r.version[n]
            /\ tx[x].pc = "members" => tx[x].read.peers = {}
            /\ tx[x].pc \in {"endpoints", "answer"} =>
                  /\ tx[x].want \subseteq ActiveNodes(r, n) \ {d}
                  /\ tx[x].read.members = {MemberRow(r, n, m) : m \in ActiveNodes(r, n)}
                  /\ tx[x].read.peers =
                        {PeerRow(r, n, p) : p \in (ActiveNodes(r, n) \ {d}) \ tx[x].want}
            /\ tx[x].pc = "answer" =>
                  /\ tx[x].want = {} /\ d \in ActiveNodes(r, n)
                  /\ tx[x].read.relay = SnapshotRelay(r, n, d)
ReadersApart == \A x \in Tx : ReadsOneStore(x)

Inv ==
    /\ TypeOK
    /\ RepoInv(db)
    /\ CallShape
    /\ LocksHold
    /\ OwnersInOrder
    /\ InvitesDrawn
    /\ ReadersApart

=============================================================================
