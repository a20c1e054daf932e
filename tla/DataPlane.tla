------------------------------ MODULE DataPlane ------------------------------
(***************************************************************************)
(* The node's local data plane: reconcile.Applier driving the WireGuard    *)
(* adapter client of internal/wgnt and the RouteReconciler.  Apply and     *)
(* Clear hold the applier's mutex.  Every call they make to the adapter or *)
(* to the IP Helper tables is a step of its own and can fail; the error    *)
(* paths, including the two shapes of rollback, are the code's.            *)
(*                                                                         *)
(* The client caches one adapter per name and this program uses one name,  *)
(* so at most one adapter is alive; its handle and its LUID are both       *)
(* allocated when it is created and are one number here.  A snapshot is    *)
(* known by its generation: Plan[g] is the address and the peers plan()    *)
(* extracts from generation g (Repository shows that content changes only  *)
(* with the generation, time aside).  A snapshot plan() rejects changes    *)
(* nothing and is not a step.                                              *)
(***************************************************************************)
EXTENDS RouteReconciler

CONSTANTS
    MaxGeneration,  \* bound: generations explored
    Plan            \* Plan[g] = [address |-> IP, peers |-> set of IP]

\* Handles are allocated from 1; 0 is no handle.
ASSUME HandleAssumption == Luid \subseteq Nat \ {0}

ASSUME PlanAssumption ==
    /\ MaxGeneration \in Nat
    /\ Plan \in [1..MaxGeneration -> [address : IP, peers : SUBSET IP]]
    /\ \A g \in 1..MaxGeneration : Plan[g].address \notin Plan[g].peers

VARIABLES
    next,     \* wgnt.Client: the next handle (the live one is in luids)
    wgUp,     \* the adapter is up
    wgConfig, \* generation of the configuration the adapter holds, 0: none
    applied,  \* Applier.state and .generation
    ap,       \* the running Apply or Clear
    last      \* what the last Apply or Clear returned

wgVars == <<next, wgUp, wgConfig>>
dpVars == <<rrVars, wgVars, applied, ap, last>>

Handle     == Luid \cup {0}
NotApplied == [handle |-> 0, generation |-> 0]
IsApplied  == applied # NotApplied

PC == {"idle", "status", "routes", "configure", "setup",
       "undoRoutes", "undoConfigure", "undoSetUp",
       "dropRoutes", "dropDown", "dropDelete", "clearDown", "clearDelete"}

\* faults counts the failing backend calls of the running operation (0, 1,
\* 2 = more); sound remembers whether the plane matched the applier's record
\* when it began.
Idle == [pc |-> "idle", gen |-> 0, handle |-> 0, failed |-> FALSE,
         faults |-> 0, sound |-> TRUE]

AddressOf(h, g) == <<h, Plan[g].address>>
RoutesOf(h, g)  == {h} \X Plan[g].peers

\* The machine is configured as handle h at generation g says.
Realises(h, g) ==
    /\ h \in luids /\ wgUp /\ wgConfig = g
    /\ osAddresses[AddressOf(h, g)] # "absent"
    /\ \A r \in RoutesOf(h, g) : osRoutes[r] # "absent"

InSync == IsApplied => Realises(applied.handle, applied.generation)

Fault(a) == [a EXCEPT !.faults = IF @ < 2 THEN @ + 1 ELSE @]

Return(op, gen, result, effective) ==
    /\ ap' = Idle
    /\ last' = [op |-> op, gen |-> gen, result |-> result, effective |-> effective,
                faults |-> ap.faults, sound |-> ap.sound]

\* The same, when the call that ends the operation is the one that failed.
ReturnFault(op, gen, effective) ==
    /\ ap' = Idle
    /\ last' = [op |-> op, gen |-> gen, result |-> "error", effective |-> effective,
                faults |-> Fault(ap).faults, sound |-> ap.sound]

Init ==
    /\ luids = {}
    /\ RegistryInit
    /\ next = 1 /\ wgUp = FALSE /\ wgConfig = 0
    /\ applied = NotApplied
    /\ ap = Idle
    /\ last = [op |-> "none", gen |-> 0, result |-> "ok", effective |-> FALSE,
               faults |-> 0, sound |-> TRUE]

----------------------------------------------------------------------------
\* Apply.

\* Mutant: any other generation is applied, an older one too.
Different(g) == g # applied.generation
Newer(g) == g > applied.generation

\* Older than the applied generation: refused.  Equal: nothing to do.
ApplyNotNewer(g) ==
    /\ ap.pc = "idle"
    /\ ~Newer(g)
    /\ Return("apply", g, IF g < applied.generation THEN "error" ELSE "ok", FALSE)
    /\ UNCHANGED <<rrVars, wgVars, applied>>

\* Client.Ensure: open the cached adapter or create one.  Mutant: the cache is
\* not consulted.
EnsureUncached ==
    /\ next \in Luid
    /\ luids' = luids \cup {next} /\ next' = next + 1 /\ wgUp' = FALSE
EnsureAdapter ==
    \/ luids # {} /\ UNCHANGED <<luids, next, wgUp>>
    \/ /\ luids = {} /\ next \in Luid
       /\ luids' = {next} /\ next' = next + 1 /\ wgUp' = FALSE

\* plan() and Ensure.
ApplyEnsure(g) ==
    /\ ap.pc = "idle"
    /\ Newer(g)
    /\ UNCHANGED <<osRoutes, osAddresses, regVars, call, torn, wgConfig, applied>>
    /\ \/ /\ EnsureAdapter
          /\ ap' = [Idle EXCEPT !.pc = "status", !.gen = g, !.sound = InSync,
                                !.handle = CHOOSE h \in luids' : TRUE]
          /\ UNCHANGED last
       \/ /\ ap' = Idle
          /\ last' = [op |-> "apply", gen |-> g, result |-> "error", effective |-> TRUE,
                      faults |-> 1, sound |-> InSync]
          /\ UNCHANGED <<luids, next, wgUp>>

\* Status: its failure returns with the adapter left behind.  On success the
\* LUID completes the plan and Routes.Reconcile is called.
ApplyStatus ==
    /\ ap.pc = "status"
    /\ UNCHANGED <<wgVars, applied>>
    /\ \/ /\ StartReconcile(AddressOf(ap.handle, ap.gen), RoutesOf(ap.handle, ap.gen))
          /\ ap' = [ap EXCEPT !.pc = "routes"]
          /\ UNCHANGED last
       \/ /\ ReturnFault("apply", ap.gen, TRUE)
          /\ UNCHANGED rrVars

\* Mutant: only a Reconcile that succeeded is taken up.
ApplyRoutesOk ==
    /\ ap.pc = "routes" /\ call.op = "idle" /\ call.result = "ok"
    /\ ap' = [ap EXCEPT !.pc = "configure"]
    /\ UNCHANGED <<rrVars, wgVars, applied, last>>

\* Reconcile returned.  Its error returns with no rollback of the adapter.
ApplyRoutesDone ==
    /\ ap.pc = "routes" /\ call.op = "idle"
    /\ UNCHANGED <<rrVars, wgVars, applied>>
    /\ IF call.result = "ok"
       THEN ap' = [ap EXCEPT !.pc = "configure"] /\ UNCHANGED last
       ELSE ReturnFault("apply", ap.gen, TRUE)

\* The first step of rollback depends on whether a state was applied before.
\* Mutant: it never does.
RollbackDrops(a) == [Fault(a) EXCEPT !.pc = "dropRoutes"]
Rollback(a) ==
    [Fault(a) EXCEPT !.pc = IF IsApplied THEN "undoRoutes" ELSE "dropRoutes"]

\* Mutant: the error of Configure is dropped.
ApplyConfigureUnchecked ==
    /\ ap.pc = "configure"
    /\ ap' = [ap EXCEPT !.pc = "setup"]
    /\ wgConfig' \in {wgConfig, ap.gen}
    /\ UNCHANGED <<rrVars, next, wgUp, applied, last>>

ApplyConfigure ==
    /\ ap.pc = "configure"
    /\ \/ ap' = [ap EXCEPT !.pc = "setup"] /\ wgConfig' = ap.gen
       \/ ap' = Rollback(ap) /\ UNCHANGED wgConfig
    /\ UNCHANGED <<rrVars, next, wgUp, applied, last>>

ApplySetUp ==
    /\ ap.pc = "setup"
    /\ \/ /\ wgUp' = TRUE
          /\ applied' = [handle |-> ap.handle, generation |-> ap.gen]
          /\ Return("apply", ap.gen, "ok", TRUE)
       \/ /\ ap' = Rollback(ap)
          /\ UNCHANGED <<wgUp, applied, last>>
    /\ UNCHANGED <<rrVars, next, wgConfig>>

----------------------------------------------------------------------------
\* rollback with a previous state: its routes, its configuration, up again.

UndoRoutes ==
    /\ ap.pc = "undoRoutes"
    /\ StartReconcile(AddressOf(applied.handle, applied.generation),
                      RoutesOf(applied.handle, applied.generation))
    /\ ap' = [ap EXCEPT !.pc = "undoConfigure"]
    /\ UNCHANGED <<wgVars, applied, last>>

\* The error of the restoring Reconcile is joined; Configure runs regardless.
UndoConfigure ==
    /\ ap.pc = "undoConfigure" /\ call.op = "idle"
    /\ LET b == IF call.result = "ok" THEN ap ELSE Fault(ap)
       IN  \/ /\ applied.handle \in luids
              /\ wgConfig' = applied.generation
              /\ ap' = [b EXCEPT !.pc = "undoSetUp"]
              /\ UNCHANGED last
           \/ /\ ap' = Idle
              /\ last' = [op |-> "apply", gen |-> ap.gen, result |-> "error",
                          effective |-> TRUE, faults |-> Fault(b).faults, sound |-> ap.sound]
              /\ UNCHANGED wgConfig
    /\ UNCHANGED <<rrVars, next, wgUp, applied>>

UndoSetUp ==
    /\ ap.pc = "undoSetUp"
    /\ \/ wgUp' = TRUE /\ Return("apply", ap.gen, "error", TRUE)
       \/ UNCHANGED wgUp /\ ReturnFault("apply", ap.gen, TRUE)
    /\ UNCHANGED <<rrVars, next, wgConfig, applied>>

----------------------------------------------------------------------------
\* Adapter calls shared by Clear and by the rollback of a first Apply.

\* The operation after Routes.Clear returned: its error is joined.
\* Mutant: it is dropped.
RoutesUnchecked == ap
RoutesCleared == IF call.result = "ok" THEN ap ELSE [Fault(ap) EXCEPT !.failed = TRUE]

\* Client.SetDown on handle h: ErrInvalidHandle when it was deleted.
SetDown(h, pc) ==
    /\ call.op = "idle"
    /\ \/ /\ h \in luids
          /\ wgUp' = FALSE
          /\ ap' = [RoutesCleared EXCEPT !.pc = pc]
       \/ /\ h \in luids
          /\ ap' = [Fault(RoutesCleared) EXCEPT !.pc = pc, !.failed = TRUE]
          /\ UNCHANGED wgUp
       \/ /\ h \notin luids
          /\ ap' = [RoutesCleared EXCEPT !.pc = pc, !.failed = TRUE]
          /\ UNCHANGED wgUp
    /\ UNCHANGED <<rrVars, next, wgConfig, applied, last>>

\* Client.Delete on a live handle: the driver removes the interface and with
\* it every address and route on it.
DeleteAdapter(h) ==
    /\ h \in luids
    /\ luids' = luids \ {h}
    /\ osRoutes' = [r \in Route |-> IF r[1] = h THEN "absent" ELSE osRoutes[r]]
    /\ osAddresses' = [a \in Address |-> IF a[1] = h THEN "absent" ELSE osAddresses[a]]
    /\ wgUp' = FALSE /\ wgConfig' = 0
    /\ UNCHANGED <<regVars, call, torn, next>>

\* rollback of a first Apply: Routes.Clear, SetDown, Delete, all attempted.
DropRoutes ==
    /\ ap.pc = "dropRoutes"
    /\ StartClear
    /\ ap' = [ap EXCEPT !.pc = "dropDown"]
    /\ UNCHANGED <<wgVars, applied, last>>

DropDown ==
    /\ ap.pc = "dropDown"
    /\ SetDown(ap.handle, "dropDelete")

DropDelete ==
    /\ ap.pc = "dropDelete"
    /\ \/ DeleteAdapter(ap.handle) /\ Return("apply", ap.gen, "error", TRUE)
       \/ UNCHANGED <<rrVars, wgVars>> /\ ReturnFault("apply", ap.gen, TRUE)
    /\ UNCHANGED applied

----------------------------------------------------------------------------
\* Clear.

ClearNothing ==
    /\ ap.pc = "idle"
    /\ ~IsApplied
    /\ Return("clear", 0, "ok", FALSE)
    /\ UNCHANGED <<rrVars, wgVars, applied>>

ClearRoutes ==
    /\ ap.pc = "idle"
    /\ IsApplied
    /\ StartClear
    /\ ap' = [Idle EXCEPT !.pc = "clearDown", !.sound = InSync]
    /\ UNCHANGED <<wgVars, applied, last>>

ClearDown ==
    /\ ap.pc = "clearDown"
    /\ SetDown(applied.handle, "clearDelete")

\* Only when all three succeeded does the applier forget the state.
ClearDelete ==
    /\ ap.pc = "clearDelete"
    /\ \/ /\ DeleteAdapter(applied.handle)
          /\ applied' = IF ap.failed THEN applied ELSE NotApplied
          /\ Return("clear", 0, IF ap.failed THEN "error" ELSE "ok", TRUE)
       \/ /\ applied.handle \in luids
          /\ UNCHANGED <<rrVars, wgVars, applied>>
          /\ ReturnFault("clear", 0, TRUE)
       \/ /\ applied.handle \notin luids      \* ErrInvalidHandle
          /\ UNCHANGED <<rrVars, wgVars, applied>>
          /\ Return("clear", 0, "error", TRUE)

----------------------------------------------------------------------------
ApplierStep ==
    \/ ApplyStatus \/ ApplyRoutesDone \/ ApplyConfigure \/ ApplySetUp
    \/ UndoRoutes \/ UndoConfigure \/ UndoSetUp
    \/ DropRoutes \/ DropDown \/ DropDelete
    \/ ClearDown \/ ClearDelete

RoutesStep == ReconcilerStep /\ UNCHANGED <<wgVars, applied, ap, last>>

\* Either call finds its context already cancelled.
Cancelled(op) ==
    /\ ap.pc = "idle"
    /\ ReturnFault(op, 0, FALSE)
    /\ UNCHANGED <<rrVars, wgVars, applied>>

Request ==
    \/ \E op \in {"apply", "clear"} : Cancelled(op)
    \/ \E g \in 1..MaxGeneration : ApplyNotNewer(g)
    \/ \E g \in 1..MaxGeneration : ApplyEnsure(g)
    \/ ClearNothing
    \/ ClearRoutes

Next == Request \/ ApplierStep \/ RoutesStep

\* The goroutine inside Apply or Clear keeps running.
Spec == Init /\ [][Next]_dpVars /\ WF_dpVars(ApplierStep \/ RoutesStep)

----------------------------------------------------------------------------
\* Properties.

Settled == ap.pc = "idle"

Operation == [pc : PC, gen : 0..MaxGeneration, handle : Handle, failed : BOOLEAN,
              faults : 0..2, sound : BOOLEAN]
Outcome   == [op : {"none", "apply", "clear"}, gen : 0..MaxGeneration,
              result : {"ok", "error"}, effective : BOOLEAN,
              faults : 0..2, sound : BOOLEAN]

\* The adapter client, the applier's record and the running operation hold
\* values of their types; at most one adapter is alive and it is the newest.
TypeOK ==
    /\ RRTypeOK
    /\ next \in Nat /\ wgUp \in BOOLEAN /\ wgConfig \in 0..MaxGeneration
    /\ luids \subseteq {next - 1}
    /\ applied \in [handle : Handle, generation : 0..MaxGeneration]
    /\ ap \in Operation
    /\ last \in Outcome

\* When Apply has worked through a new snapshot and returns nil, the adapter
\* is up with that configuration and its address and routes are in the tables.
\* (After a torn rollback the route registry may list a route that is absent,
\* and the next Reconcile trusts it: route_reconciler.go:110.)
ApplyRealises ==
    (Settled /\ last.op = "apply" /\ last.result = "ok" /\ last.effective /\ ~torn)
        => applied.generation = last.gen /\ InSync

\* When Clear has run against an applied state and returns nil, no adapter,
\* address or route of the service is left and nothing is remembered.
ClearRemovesAll ==
    (Settled /\ last.op = "clear" /\ last.result = "ok" /\ last.effective)
        => /\ luids = {} /\ ~IsApplied /\ ownedRoutes = {} /\ address = None
           /\ \A r \in Route : osRoutes[r] # "mesh" /\ osAddresses[r] # "mesh"

\* One failing call in an Apply over a healthy plane is absorbed: the rollback
\* leaves the machine as the previous generation configured it.  (Reconcile
\* counts as one call; ~torn says its own rollback did what it set out to do.)
OneFaultRestores ==
    (Settled /\ last.op = "apply" /\ last.result = "error" /\ last.effective
        /\ last.faults = 1 /\ last.sound /\ ~torn)
        => InSync

\* The applied generation only moves forward; it goes back to zero only when a
\* complete Clear has removed the adapter.
GenerationForward ==
    [][applied'.generation # applied.generation =>
         \/ applied'.generation > applied.generation
         \/ applied' = NotApplied /\ luids' = {}]_dpVars

\* Apply and Clear always return, whatever fails on the way.
OperationsReturn == (ap.pc # "idle") ~> (ap.pc = "idle")

\* service.go:131-134, of the Clear that Shutdown calls: after it reports
\* success, no adapter, address or route the service made is left.
CleanupLeavesNothing ==
    (Settled /\ last.op = "clear" /\ last.result = "ok")
        => /\ luids = {}
           /\ \A r \in Route : osRoutes[r] # "mesh" /\ osAddresses[r] # "mesh"

----------------------------------------------------------------------------
\* The inductive invariant.

\* The user has no entries on the interfaces of this program.
NoUserRows == \A r \in Route : osRoutes[r] # "user" /\ osAddresses[r] # "user"

\* Handles are never reused: what is recorded is about handles given out.
HandlesPast ==
    /\ \A r \in ownedRoutes \cup call.added : r[1] \in 1..(next - 1)
    /\ \A a \in HeldAddresses : a[1] \in 1..(next - 1)

\* The registry lists the address and the routes of generation g on handle h.
Registered(h, g) == address = AddressOf(h, g) /\ RoutesOf(h, g) \subseteq ownedRoutes

\* The running Reconcile is for generation g on handle h, and what it ensured
\* was absent before; once it has succeeded, it is all registered.
ReconcilesTo(h, g) ==
    /\ call.op \in {"idle", "address", "routes", "undo"}
    /\ call.op # "idle" => call.want = AddressOf(h, g) /\ call.desired = RoutesOf(h, g)
    /\ (call.op \in {"address", "routes"} /\ ~torn) => call.done \subseteq call.added
    /\ (call.op = "routes" /\ ~torn) => call.newOwned
    /\ (call.op = "idle" /\ call.result = "ok" /\ ~torn) => Registered(h, g)

\* The running Routes.Clear; once it has succeeded the registry is empty.
ClearsRoutes ==
    /\ call.op \in {"idle", "clear"}
    /\ (call.op = "idle" /\ call.result = "ok") => ownedRoutes = {} /\ address = None

Applying  == {"status", "routes", "configure", "setup"}
Undoing   == {"undoRoutes", "undoConfigure", "undoSetUp"}
Dropping  == {"dropRoutes", "dropDown", "dropDelete"}
Clearing  == {"clearDown", "clearDelete"}

\* The adapter and the registry are as the applier's record says.
RecordHeld ==
    IsApplied => /\ applied.handle \in luids /\ wgUp /\ wgConfig = applied.generation
                 /\ Registered(applied.handle, applied.generation)

\* How the applier's stages relate to the calls it makes.
ApplierShape ==
    /\ ap.pc \notin {"routes", "undoConfigure", "dropDown", "clearDown"} => call.op = "idle"
    /\ ap.pc = "routes" => ReconcilesTo(ap.handle, ap.gen)
    /\ ap.pc = "undoConfigure" => ReconcilesTo(applied.handle, applied.generation)
    /\ ap.pc \in {"dropDown", "clearDown"} => ClearsRoutes
    /\ ap.pc \in Applying \cup Undoing \cup Dropping =>
          /\ ap.gen \in 1..MaxGeneration /\ ap.gen > applied.generation
          /\ luids = {ap.handle}
    /\ ap.pc \in Undoing \cup Clearing => applied.generation \in 1..MaxGeneration
    /\ ap.pc \in Dropping => applied.generation = 0
    /\ ap.pc \in Undoing \cup Dropping => ap.faults > 0
    /\ IF applied.generation = 0 THEN applied = NotApplied ELSE applied.handle \in Luid

\* What has been achieved when the applier reaches a stage.
ApplierProgress ==
    /\ (ap.pc \in {"configure", "setup"} /\ ~torn) => Registered(ap.handle, ap.gen)
    /\ ap.pc = "setup" => wgConfig = ap.gen
    /\ (ap.pc = "undoSetUp" /\ ap.faults = 1 /\ ~torn) =>
          /\ applied.handle \in luids /\ wgConfig = applied.generation
          /\ Registered(applied.handle, applied.generation)
    /\ (ap.pc = "clearDelete" /\ ~ap.failed) => ownedRoutes = {} /\ address = None
    /\ (ap.pc = "clearDown") => ~ap.failed

\* Until the new snapshot's routes are in place, a plane that was healthy when
\* Apply began still has what the record says.
StillHeld ==
    (/\ ap.sound /\ ~torn
     /\ \/ ap.pc = "status"
        \/ ap.pc = "routes" /\ ~(call.op = "idle" /\ call.result = "ok")) => RecordHeld

Inv ==
    /\ TypeOK
    /\ RRInv
    /\ NoUserRows
    /\ HandlesPast
    /\ ApplierShape
    /\ ApplierProgress
    /\ StillHeld
    /\ ApplyRealises
    /\ ClearRemovesAll
    /\ OneFaultRestores

=============================================================================
