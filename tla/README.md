# Verification of ipv6mesh

ipv6mesh joins machines into an IPv4 overlay that runs over WireGuard and IPv6.
A control server keeps networks, nodes, invites and endpoints; a privileged
service on every machine enrolls it, fetches versioned snapshots and configures
the WireGuard adapter, the overlay address and the host routes. This directory
holds TLA+ models of those parts, the TLC configurations that check them on small
instances, and proofs, checked by TLAPS, of what holds for every instance.

`PROJECT.json` maps every definition to the lines it models and lists the runs,
the mutants that show each property can fail, the hazards and the theorems.

    tlc -workers 2 -config MCRepository.cfg MCRepository     # a run
    tlapm RepositoryProofs.tla                               # a proof

## 1. The system

| Part (sources under `src/`) | State | Operations | Talks to |
|---|---|---|---|
| Store, in memory (`internal/db/repository.go`) | maps of networks, nodes, memberships, invites, endpoints, relay assignments; indexes by key, token and assignment ID; a version per network | create, add, remove, consume, replace, assign; build snapshot | called by the server under one mutex |
| Store, PostgreSQL (`internal/db/postgres.go`, `schema.sql`) | the same as tables | the same, each a READ COMMITTED transaction with row locks | called concurrently by handlers |
| HTTP control server (`internal/control/http.go`, `room.go`) | the current room, the admission window | create network, invite, room; join, enroll, recover a commit; heartbeat, leave, delete; snapshot, events | store, session store |
| Sessions and tokens (`internal/auth/tokens.go`) | sessions by token, revoked networks; memory only | issue, authenticate, revoke | server |
| Address pool (`internal/address/pool.go`) | none (a search) | allocate | server |
| Node service (`internal/service`) | joined network, path, started; credential in the control client | start, join, joinRoom, connect, disconnect, leave, roomMembers, shutdown; heartbeat goroutine | control client, applier, IPC |
| Snapshot applier (`internal/reconcile/snapshot.go`) | the applied handle, plan and generation | Apply, Clear | adapter client, route reconciler |
| Adapter client (`internal/wgnt/adapter_windows.go`) | handle per adapter name | Ensure, Configure, SetUp, SetDown, Delete, Status | driver |
| Route reconciler (`internal/netwin`) | owned address and routes | Reconcile, Clear | the Windows address and route tables, which the user edits too |
| Path selector (`internal/path/selector.go`) | state, two counters, time of the last observation | Observe | nothing yet |
| Relay agent (`internal/relay`, `cmd/relay-agent`) | owned address and routes on Linux; the kernel keeps them when the process dies | Apply, Clear | `ip`, `wg` |
| Identity store (`internal/identity`) | the key file | LoadOrCreate | service, data plane |
| Local IPC (`internal/ipc`) | the pipe, its connections, closed or not | Serve, Close, one goroutine per connection | node service, local clients |
| Service host (`cmd/vpn-service`), wizard (`cmd/ipv6mesh-installer`), `cmd/vpnctl` | host phase; the wizard's step and retries | start, stop; status, join, connect, leave, disconnect | IPC |
| Endpoint discovery, room address format, user interface | none | parsing, I/O, layout | |

What is hard here:

* **Concurrency.** Handlers interleave between store calls; PostgreSQL
  transactions interleave between statements; the heartbeat goroutine uses a
  credential that leave and join replace.
* **Partial failure.** Reconcile, Apply and Clear are series of system calls, any
  of which can fail, also in the rollback of an earlier failure.
* **Unreliable delivery.** A reply is lost, a request is executed after the client
  stopped waiting, a COMMIT returns an error although it happened or is still
  under way.
* **Crash and restart.** Sessions are in memory and nodes in the database; the
  service's record of its adapter is in memory and the adapter in the kernel; a
  killed relay agent leaves its address, peers and routes to the next one.
* **Stopping.** The host cancels, the pipe server closes and Shutdown clears while
  connection goroutines that nobody waits for still run and queue for a mutex.
* **Versions.** Members compare only a generation, so content must never change
  under an unchanged one.

What makes each part correct: the store's indexes, addresses, relays and invites
agree and every change members must see moves the version; transactions are
atomic and never wait in a circle; an enrollment is all or nothing and the answer
says what the store says; success of Apply or Clear means it is done, one fault is
rolled back, and nothing of the user's is touched; the service has no record
of an applied snapshot it is not joined for, and keeps the credential of the
enrollment it is joined with; the machine keeps one key pair whatever dies, and
a stopped service holds no data plane and no open connection; a serving relay serves
its configuration and nothing else. The `hazards` list of `PROJECT.json` puts these at
the lines where they could go wrong.

## 2. Modules

    RepositoryOps ── Repository ── AtomicStore <── implements ── PostgresStore
         │                └── RepositoryProofs                        └── PostgresStoreProofs
         ├── RepositoryOpsProofs
         └── ControlPlane ──┬── MCControlPlane
             AddressPool ───┴── ControlPlaneProofs
    RouteReconciler ── DataPlane ── DataPlaneProofs
    NodeService ── NodeServiceProofs
    ServiceHost ── ServiceHostProofs
    RelayAgent ──┐
    PathSelector ┴─ RelayProofs

**RepositoryOps** holds the store as one record and every method as a pair of pure
operators: `CanX`, the conjunction of the method's checks, and `X`, the record with
the new maps (version increments, index updates and cascades included). Time is
abstracted to the phase a timestamp is in: an invite is unused, expired, consumed
or revoked; an observation is absent, fresh or stale; an assignment is early, live
or ended. `RepoInv` is the conjunction of the store's invariants.

**Repository** is the state machine over these operators: one action per method
(each runs under the mutex), and `AgeInvite`, `AgeEndpoint`, `AgeAssignment` for
the clock. A call that returns an error changes nothing and is no step.

**AtomicStore** is the abstract specification callers rely on: every method, and
the enrollment `enrollControl` composes inside `WithTransaction`, is one change.

**PostgresStore** runs transactions statement by statement: begin, insert, lock one
node row, read the networks, consume, lock one network row, write, commit or roll
back. A statement reads what is committed at that moment and waits for rows others
hold; `owner` is the lock table. A transaction may fail at any point. `Atomic` is
`AtomicStore` with the committed tables for its store, and `Atomicity`, its
specification, is a property of the run. Beside the writers, `buildSnapshot` is a
REPEATABLE READ transaction: its first statement fixes the tables that `Sees` gives
to the later ones, which read the network, the members, the endpoints and the relay.

**AddressPool** has the allocator as operators: the host range of a CIDR, the scan
that starts at a random host and wraps at the end, and the loop that allocates until
the pool is full.

**ControlPlane** has the handlers of the HTTP server as processes that interleave
between store calls, the session store, the room coordinator, and
`recoverEnrollmentCommit`. A commit that returned an error happened, did not, or is
still in doubt, and then keeps its row locks until `ResolveCommit`. The random
identifiers of a request are functions of the request.

**RouteReconciler** makes one step of every IP Helper call. Each can fail; a failure
starts the code's rollback, whose steps can fail too (`torn` remembers it). Each
entry of the OS tables knows who created it.

**DataPlane** extends it with the applier and the adapter client: Apply, the two
shapes of rollback, and Clear, one step per call, over the same tables. It uses the
reconciler's actions unchanged for `Routes.Reconcile` and `Routes.Clear`.

**NodeService** models one machine: operations under `operationMu`, each HTTP call
split into sending, execution at the server (perhaps late) and the reply (perhaps
lost), the heartbeat beside them, and crashes. The server is abstracted to what
ControlPlane shows, the data plane to what DataPlane shows of the applier's record.

**ServiceHost** models the process around the node service: the host with its stop
path, `LoadOrCreate` (temporary file, rename, access control) called twice on the way
up, the pipe server's accept loop and Close, a goroutine per connection, `Shutdown`,
and two clients, the wizard, which repeats a call that got no answer, and vpnctl,
which does not. An operation is its steps against the server and the data plane,
which succeed or fail; NodeService has them in full.

**RelayAgent** makes one step of every `ip` and `wg` command of Apply, its rollback
and Clear. A signal, a kill or a failure may come between any two, and the next
process, perhaps with another configuration, finds the kernel as the last left it.

**PathSelector** has one step per observation. `good` and `bad` are history
variables: the runs of healthy and unhealthy observations.

The `MC*` modules give the constants their values; a module `XProofs` holds the
theorems about `X` (DataPlaneProofs those about the reconciler too, ControlPlaneProofs
those about the allocator, RelayProofs those about the relay agent and the path
selector). Where an invariant is not inductive as it stands, the
parts that strengthen it follow the properties in the module of the component. Definitions marked "Mutant" are the plausible bugs `PROJECT.json`
pairs with each property; no specification uses them.

## 3. Runs

| Run | Instance | Distinct states | Shows |
|---|---|---|---|
| `repository` | 2 networks, 2 nodes, 2 keys, 2 pool addresses and one outside, 2 invites with one token, 2 assignments; versions up to 5 and 3; symmetric | 148,627 | indexes exact, addresses exclusive, relays between active members, nothing dangling, snapshots closed, content versioned |
| `postgres_store` | 3 transactions, 2 networks, 3 nodes, 22 calls, from two stores; symmetric in the transactions | 298,855 | no circle of waiting transactions; every commit is one step of AtomicStore; no version moves without its row lock; a snapshot read beside the writers is that of one committed store |
| `control_plane` | 2 requests of either kind, one room, 2 addresses of which one is a usable host, 2 recovery rounds, versions up to 3; pools of up to 8 addresses for the assumption about the allocator | 353,908 | the store stays sound, enrollments are atomic, answers are true, refused requests leave no session, one node per invite, every request is answered |
| `route_reconciler` | 1 interface, 2 addresses | about 21,000 | registry exact, user entries kept |
| `data_plane` | 2 adapters in succession, 3 addresses, 2 generations | 624,116 | success of Apply and Clear means done, one fault is absorbed, generations move forward, operations return |
| `node_service` | 2 joins, versions up to 5 | 491,491 | no applied record without a membership, the credential of the enrollment while joined, final leaves, failed joins undone but for those in `unsure`, operations return |
| `service_host` | 2 processes in succession, 2 connections at a time, 2 key pairs, vpnctl with leave and disconnect | 205,755 | Shutdown is final (`ShutdownReleases`), one key pair for ever (`EnrolledKeyKept`), a closing server leaves no connection open (`ClosedServesNobody`), a retry never overlaps its last attempt (`RetryAlone`), every call ends (`EveryCallEnds`) |
| `relay_agent` | 3 keys, 3 addresses, 4 configurations of which one is invalid | 2,682 | a serving relay has exactly the peers of its configuration, and its address, routes and interface are up (`ServesConfiguration`); a process that could clean up left nothing (`NothingLeft`) |
| `path_selector` | thresholds 3 and 4, runs up to 6, times up to 6 | 202 | hysteresis, and the selector keeps up |

Three runs show where the code does not do what a comment says:

| Run | What happens |
|---|---|
| `clear_after_failed_join` | A first Apply that fails in Status or Reconcile returns without rollback. Clear then returns nil because nothing is applied, and the adapter survives Shutdown. |
| `pending_join` | The client drops the credential of an `enrollment_recovery_pending` answer, which the server's comment says it can retry with. |
| `host_stop` | On Stop the host cancels and then selects on the result of serve and on the context it has just cancelled. It may return at once, and the process end, before Shutdown has cleared the data plane. |

### Why the bounds are enough

Two nodes and two networks are the least in which removing one leaves something
to be confused with the other; two invites with one token exercise the unique
index and both lookups. Three transactions allow a circle of three, and one more
than any pairwise argument about lock order covers. Two requests show every
interference of handlers the properties speak of, each of which is about one or
two requests; the single usable host makes the second meet a full pool. Two
interfaces and two generations let an adapter be deleted and made again, and the
second generation's address is the first one's peer, so addresses and routes
collide. Two joins let a late request of the first meet the second. Two processes
show what the second finds of the first, a second key pair what must not be drawn,
and two connections a wizard's retry or a vpnctl command beside a call still in the
service. The relay's configurations drop a peer, give its address to another, and
move the relay onto a peer's old address. The theorems of section 4 remove the
bounds for every safety property, and for the allocator's scan.

### Fairness

* `RouteReconciler`, `DataPlane`: weak fairness of the running call's steps. A
  goroutine inside a call is scheduled, and every IP Helper or driver call returns.
* `ControlPlane`: weak fairness of every handler's next step (recovery has its own
  two-second timeout) and of `ResolveCommit`: PostgreSQL ends every transaction.
  There is none for the administrator, for other requests or for restarts.
* `NodeService`: weak fairness of the operation's steps and of `GiveUp`, the HTTP
  client's timeout. None for the server.
* `ServiceHost`: weak fairness of the goroutine that runs serve, of the one that
  closes the server and of every connection's goroutine. Strong fairness of taking a
  queued connection and of taking `operationMu`: the pipe hands out connections in
  the order they came, and Go's mutex goes to the longest waiter once one starves.
  None for the clients, the service control manager or the process staying alive.
* `Repository`, `PostgresStore`, `PathSelector`, `RelayAgent` state safety only. In `PostgresStore`
  every transaction runs once, so a behaviour ends.

## 4. Proofs

TLAPS checks the following for all values of the constants.

**RepositoryOpsProofs**: every method preserves `RepoInv`, one lemma per method,
stated for any record that satisfies it; so both Repository and the modules that
use the operators can cite them. `RepoInv` is inductive as it stands because
its parts lean on each other: that relays are active members needs the owner index to be exact
when `DropAssignments` clears it, and that no consumed-by reference dangles needs
consumption to check the node.

**RepositoryProofs**: `Spec => []RepoInv`, and from it `TypeOK`, `KeysIndexed`,
`NoSharedAddress`, `RelaysConsistent`, `NothingDangles` and `SnapshotClosed`; and two
action properties. `VersionCoversContent`: `SameView` names all a snapshot is read
from, stores with the same view of a network build the same snapshots of it
(`SameViewContent`), and every method advances a network or leaves its view alone
(`Covers`, one lemma per method). `InviteUsedOnce`, which no run checks: a consumed
or revoked invite stays so and never changes hands.
Assumptions: `NoneAssumption` (the zero value is no identifier), `PoolAssumption`
and `MaxVersionAssumption` (types of two constants).

**PostgresStoreProofs**: `Spec => []Inv`, and from it `TypeOK`, `NoDeadlock`,
`SnapshotOfOneStore`, the action property `VersionsLocked` and the refinement
`Atomicity` (`Spec => Atomic!StoreSpec`), for any number of transactions and calls.
The argument is two-phase locking, spelled out for this schema. `Holds`: what a
transaction has found out under the locks it has (a node exists, the networks it read
are those it would read now, an invite is unused, its last statements affect their
rows) is still so. `Frame(r, q, T)` lists what a commit that writes the rows `T` leaves
alone; one lemma per method shows that its commit stays within the frame of rows the
transaction owns (`CommitChecks`, `CommitEffect`), and `HoldsKept` that whatever others
rely on survives every such commit, since they own different rows. So the checks of a
call hold together when it commits, which is one step of `AtomicStore`
(`CommitAtomic`). RemoveNode and ReplaceEndpoints are the cases to look at: they find
their networks before they lock them, and it is the lock on the node's row that keeps
the list current. `OwnsInOrder`: the rows a transaction can hold at each stage precede
those it can still wait for. `NoDeadlock` then follows from a measure (`Level`, and
within it the rank of the next ID): whoever holds a row is further than whoever waits
for it (`WaitsForward`), and of finitely many transactions one is furthest. The two
cases the order does not decide, CreateInvite or RemoveNode waiting with networks
locked for an invite an enrollment is consuming, are excluded by `InvitesDrawn` and by
`InvitesAccounted` (an unused invite names no node). `ReadsOneStore`: what a reader has
so far is of the store its first statement saw. Assumptions: `NoneAssumption`,
`OperationsAssumption` (calls have the arguments validation demands), `TxAssumption`
(finitely many transactions at a time), `OrderAssumption` (IDs are totally ordered),
`InitialAssumption` (the tables satisfy `RepoInv` at first).

**ControlPlaneProofs**: `Spec => []Inv`, and from it `TypeOK`, `StoreSound`,
`EnrollmentAtomic`, `NoGhostSession`, `OneNodePerInvite` and the action property
`AnswersTruthful`, for any number of requests. A change of the store is one of two
kinds, and the proof of each step only says which. `Admits`: one enrollment, node,
consumed invite and membership together. `Shrinks`: everything else, which adds no
node and gives no invite back. The strengthenings are about commits in doubt and
recovery. `DoubtReady`: the locks of a commit under way have kept all its transaction
checked, so it can still happen. `DoubtApart`: two of them touch different networks,
nodes and keys. `OwnNodes`: a node under an ID the server drew belongs to the request
it was drawn for, which is why recovery by node ID finds the right one. `InvitesSpent`:
each request that was admitted has used up an invite of its own. `EnrollmentAtomic`
also needs `InvitesIssued`. Assumptions: `NoneAssumption`, `PoolAssumption`,
`FreshIdentifiers` (random identifiers are distinct), `HostsAssumption`,
`AttemptsAssumption` (types).
The module also proves the allocator's scan. `RandomNextCorrect`, for pools of every
size and every start: an address it returns is usable and free, and it reports a full
pool only if every usable address is occupied. `ScanCovers` is the argument: offsets
0..n-1 from any start, wrapped once, hit every host. `UsableContained`: a usable
address is in the CIDR and is neither the network nor the broadcast address. The
allocation loop is recursive and stays with TLC (`LoopFindsEveryFreeHost`).

**DataPlaneProofs**: for the reconciler, `RRSpec => []RRInv`, `RegistryExact` and the
action property `UserEntriesKept`; for the applier above it, `Spec => []Inv`, `TypeOK`,
`ApplyRealises`, `ClearRemovesAll`, `OneFaultRestores` and the action property
`GenerationForward`, for any interfaces, addresses and generations and any pattern of
failing calls. `RegistryExact` speaks of the time between calls, so it says nothing
while one runs. `TablesExact` does: until a rollback is torn, the OS tables hold exactly
what the registry and the running call's locals account for, at every step of the call
and of its rollback. `NotTheUsers` (nothing the registry or the call claims is the
user's) gives `UserEntriesKept`. Above it, `ApplierShape` and `ApplierProgress` say what
each stage of Apply, its rollbacks and Clear has reached, `StillHeld` that a healthy
plane has what the record says until the new routes are in place, and `HandlesPast`
that no handle is given out twice: an entry of a deleted adapter can never be taken for
one of its successor. Between calls, that the record is held (`RecordHeld`) is then
the same as that the machine is in sync. Assumptions: `NoneIsNoAddress`,
`HandleAssumption` (handles are positive), `PlanAssumption` (types of the plans).

**ServiceHostProofs**: `Spec => []Inv`, and from it `TypeOK`, `ShutdownReleases`,
`EnrolledKeyKept`, `ClosedServesNobody` and `RetryAlone`, for any number of
connections, key pairs and processes. `KeysOnTheWay`: the key file is written only
while there is none, and what was loaded is what it holds. `ProcessPhases`: an
operation runs only in a started service, so whoever still queues for `operationMu`
when Shutdown has taken it finds the service stopped. `WizardAlone`: an earlier join or
connect of the wizard is still in the service only if the wizard waits for it or has
given up, or the server is closing and takes no other. Assumptions: `BoundsAssumption`,
`CommandsAssumption` (types and bounds).

**RelayProofs**, the relay agent: `Spec => []Inv`, and from it `TypeOK`, `ServesConfiguration` and
`NothingLeft`, for any keys, addresses and configurations and whatever the kernel held
when the process began. `PeersOnTheWay`, `RoutesOnTheWay` and `KernelOnTheWay` say what
each step of Apply, its rollback and Clear has done so far. Assumption:
`ConfigAssumption` (the type of configurations).

**NodeServiceProofs**: `Spec => []Inv`, and from it `TypeOK`, `PlaneOwned`,
`Leaveable`, `LeftForGood` and `FailedJoinUndone`, for any number of joins.
`LeftForGood` says that an enrollment the client has left is not on the server
again. This is not inductive, since a late join or a commit in doubt could enroll
it. Two strengthenings exclude that. `Settled`: nothing pending can enroll what the
client holds, has left or has just been told is gone. `Numbered`: join numbers are
used once, so the join under way is newer than anything left. `FailedJoinUndone`
needs `Accounted`: whatever the server has or may yet enroll is the enrollment the
client counts on (`Counted`: it is joined with it, or a join under way has it and
will roll it back if it fails) or one the client is `unsure` of.
`OpShape` ties an operation's position to its kind, its request and its credential.
Assumptions: `BoundsAssumption`, `NoneAssumption`.

**RelayProofs**, the path selector: `SelectorSpec => []SelectorInv`, `SelectorTypeOK`,
`KeepsUp` and the action property `Hysteresis`, for all thresholds and every initial state. `KeepsUp` relates the
state to the run of observations; it needs `CountersMatch`: each counter equals its
run in the states where it decides something. Assumption: `ThresholdAssumption`, which
NewSelector's defaults establish; it also says that runs are counted at least up to
the thresholds.

The type invariants of Repository, ControlPlane, NodeService, PathSelector and
RelayAgent are proved, so their runs leave them out.

Only model-checked: all liveness properties, since fairness is out of the prover's
reach, and what the recursive allocation loop computes.

## 5. Assumptions and limits of the models

* The user adds entries to the OS tables only between calls of the reconciler and
  removes only his own. Inside a call there is a window of a few system calls in
  which rollback could claim a route the user has just added.
* Clock-driven changes (an endpoint goes stale, an assignment starts or ends) alter
  a snapshot under an unchanged version. `VersionCoversContent` exempts them.
* Random identifiers are unique. In `PostgresStore` a new invite's ID is not in use
  and in no other call (`Drawn`); reusing the ID of an invite that is being consumed
  could close a circle of three transactions.
* The clock stands still in `PostgresStore`.
* `AnswersTruthful` speaks of key and address only for room joins: for a node ID
  the client chose, recovery may find another request's node under it.
* `OneNodePerInvite` speaks of the requests whose node ID the server drew.
  `recoverEnrollmentCommit` (`http.go:544`) looks only at node ID and network, so two
  requests under one ID their client chose can both be told of the same node.
* `RevokeNetwork` is reachable from tests only; it is an action all the same.
* `FailedJoinUndone` makes its exceptions enrollment by enrollment, in the history
  variable `unsure`: a join that was given up or answered
  `enrollment_recovery_pending`; a join refused although its commit was still in
  doubt; a rollback the server refused or did not answer; and what a process that
  ended knew of. Lost sessions and what became of earlier joins are no excuse. For
  an enrollment in `unsure` the administrator's delete is the way back.
* A refused join is not always a failed one: when recovery does not find the node,
  `recoverEnrollmentCommit` revokes the session and returns the plain error
  (`http.go:571-575`), and the COMMIT may still happen. The design
  (`docs/superpowers/specs/2026-08-16-host-bound-room-flow-design.md:145`) reserves
  `503 enrollment_recovery_pending` "for an uncertain commit"; the client cannot
  tell this case from a definite refusal. `Outcomes` has it as the answer `error`
  with the session in `srv.doubt`, and ControlPlane as `RecoverAbsent` followed by
  `ResolveCommit`.
* `Leaveable` says that the credential is kept, not that the server accepts it. After
  a leave whose answer was lost, or an administrator's delete, the server refuses
  every later leave, and the service stays joined.
* `PlaneOwned` speaks of the applier's record. The adapter of an Apply that failed
  without one may be left (`clear_after_failed_join`).
* `EnsureAdapter` reopens an adapter that exists (`WireGuardOpenAdapter`); DataPlane
  folds this into creation. A Win32 call that fails has no effect in the models,
  whereas `Delete` (`adapter_windows.go:253-256`) may report a stale last error after
  the close took effect.
* `CanConsumeInvite` drops the check that an invite is not consumed before it was
  created. `TouchNode` and `UpdateNodeClientVersion` write only the last-seen time and
  the client version and are left out. The limit of 2^20 on `Candidates` is not
  modelled; the pools checked are far smaller.
* In ControlPlane the IDs clients send (`ClientNode`) are disjoint from those the
  server draws (`NewNode`). The client also re-sends the ID it remembers from an
  earlier room join (`control_client.go:41-45`), which NodeService has
  (`JoinBegin`) and ControlPlane does not.
* DataPlane identifies a snapshot with its generation, which `VersionCoversContent`
  justifies.
* Byte formats, display names, client versions, last-seen times and wording of
  errors are left out. Validation that rejects a call before it changes anything is
  the absence of a step.
* ServiceHost's service control manager runs one process at a time. The wizard's
  path for `-connect=false` ends after the join and is a prefix of the one modelled.
* The relay agent applies one configuration in its life, so the removal of what an
  earlier Apply owned is unreachable and left out.

Behaviour the models show and no property forbids, because nothing in the repository
promises otherwise, or the promise is about one fault and this takes two:

* A rollback of the route reconciler that cannot put a removed route back leaves it
  in the registry (`route_reconciler.go:110`, `:177`); the next Reconcile takes it
  for owned. `RegistryExact` excludes histories with such a torn rollback.
* A Clear that fails on a route still deletes the adapter and keeps its record
  (`snapshot.go:148`); every later Clear meets `ErrInvalidHandle`, although the
  design of room reliability wants cleanup to be repeatable.
* A killed relay agent leaves its address; `ip addr add` in its successor fails, and
  the successor ends until an operator removes it. `NothingLeft` excludes kills.
* When `wg show` fails the relay keeps peers of an earlier configuration;
  `ServesConfiguration` then only asks that its own peers are among them.

## 6. Not modelled, and the plan

Left out for good: request decoding, the IPC codec (stateless, as are its size
limits), endpoint classification, room address parsing, prompts and file copying of
the installer, and the layout of the user interface (stateless parsing, or I/O);
`internal/enrollment`, a copy of `enrollControl` that nothing calls; the event stream
and `Watch`, which no program of the repository uses; the arithmetic of the admission
window, whose only property would restate it.

The modules of the plan are written, and every safety property of the runs is proved.
What remains are hazards without a property (`PROJECT.json` says why) and parts that
are modelled in part: more of the HTTP client's error handling and of the wizard.
