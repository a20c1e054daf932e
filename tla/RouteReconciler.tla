--------------------------- MODULE RouteReconciler ---------------------------
(***************************************************************************)
(* internal/netwin/route_reconciler.go over the IP Helper tables of        *)
(* internal/netwin/iphelper_windows.go.  Reconcile and Clear hold the      *)
(* reconciler's mutex, so one call runs at a time; but a call is a series  *)
(* of backend calls, each of which can fail (a Win32 error, or the         *)
(* cancelled context of the caller).  Every backend call is one step.  The *)
(* user edits the same tables: adds entries between calls, removes his own *)
(* at any time.                                                            *)
(*                                                                         *)
(* Validation (validateAddress, validateRoute, the duplicate test) only    *)
(* rejects a call before it starts; the callers' plans pass it, so desired *)
(* routes are a set.  Next hops and metrics are constant in this program.  *)
(***************************************************************************)
EXTENDS Integers

CONSTANTS
    Luid,           \* interface LUIDs
    IP,             \* virtual IPv4 addresses
    None            \* no address

ASSUME NoneIsNoAddress == None \notin Luid \X IP

Route   == Luid \X IP     \* a host route through an interface
Address == Luid \X IP     \* a /32 address on an interface

VARIABLES
    luids,        \* interfaces that exist
    osRoutes,     \* the OS route table: who created each entry
    osAddresses,  \* the OS unicast address table
    address,      \* the registry: the owned address, None when there is none
    ownedRoutes,  \* the registry: the owned routes
    call,         \* the running call, or the result of the last one
    torn          \* history: some step of some rollback has failed

osVars  == <<luids, osRoutes, osAddresses>>
regVars == <<address, ownedRoutes>>
rrVars  == <<luids, osRoutes, osAddresses, address, ownedRoutes, call, torn>>

Creator == {"absent", "user", "mesh"}
Ops     == {"idle", "address", "routes", "undo", "clear"}

\* want, desired: the arguments.  newOwned, added, removed: Reconcile's locals.
\* done: what a loop has dealt with.  failed: an error has been joined.
Call == [op : Ops, want : Address \cup {None}, desired : SUBSET Route,
         newOwned : BOOLEAN, added : SUBSET Route, removed : SUBSET Route,
         done : SUBSET Route, failed : BOOLEAN, result : {"none", "ok", "error"}]

Returned(result) ==
    [op |-> "idle", want |-> None, desired |-> {}, newOwned |-> FALSE,
     added |-> {}, removed |-> {}, done |-> {}, failed |-> FALSE, result |-> result]

\* Entries the user made before the service started are in the tables.
RegistryInit ==
    /\ osRoutes \in [Route -> {"absent", "user"}]
    /\ osAddresses \in [Address -> {"absent", "user"}]
    /\ \A r \in Route : r[1] \notin luids => osRoutes[r] = "absent" /\ osAddresses[r] = "absent"
    /\ address = None
    /\ ownedRoutes = {}
    /\ call = Returned("none")
    /\ torn = FALSE

----------------------------------------------------------------------------
\* The backend.  Creating an entry that exists succeeds with created = FALSE;
\* removing one that does not exist succeeds; an entry cannot be created on an
\* interface that is gone.

EnsureEntry(table, r) == [table EXCEPT ![r] = IF @ = "absent" THEN "mesh" ELSE @]
RemoveEntry(table, r) == [table EXCEPT ![r] = "absent"]

----------------------------------------------------------------------------
\* Reconcile.

StartReconcile(want, desired) ==
    /\ call.op = "idle"
    /\ \/ call' = [Returned("none") EXCEPT
                     !.op = IF address = want THEN "routes" ELSE "address",
                     !.want = want, !.desired = desired, !.newOwned = (address = want)]
       \/ call' = Returned("error")           \* the context is already cancelled
    /\ UNCHANGED <<osVars, regVars, torn>>

\* Mutant: the address counts as owned whether or not it was created.
EnsureAddressClaimed ==
    /\ call.op = "address"
    /\ call.want[1] \in luids
    /\ osAddresses' = EnsureEntry(osAddresses, call.want)
    /\ call' = [call EXCEPT !.op = "routes", !.newOwned = TRUE]
    /\ UNCHANGED <<luids, osRoutes, regVars, torn>>

EnsureOverlayAddress ==
    /\ call.op = "address"
    /\ UNCHANGED <<luids, osRoutes, regVars, torn>>
    /\ \/ /\ call.want[1] \in luids
          /\ osAddresses' = EnsureEntry(osAddresses, call.want)
          /\ call' = [call EXCEPT !.op = "routes",
                                  !.newOwned = (osAddresses[call.want] = "absent")]
       \/ /\ call' = Returned("error")
          /\ UNCHANGED osAddresses

StaleRoutes == (ownedRoutes \ call.desired) \ call.removed
MissingRoutes  == (call.desired \ ownedRoutes) \ call.done

RemoveStaleRoute(r) ==
    /\ call.op = "routes"
    /\ r \in StaleRoutes
    /\ UNCHANGED <<luids, osAddresses, regVars, torn>>
    /\ \/ /\ osRoutes' = RemoveEntry(osRoutes, r)
          /\ call' = [call EXCEPT !.removed = @ \cup {r}]
       \/ /\ call' = [call EXCEPT !.op = "undo"]
          /\ UNCHANGED osRoutes

EnsureDesiredRoute(r) ==
    /\ call.op = "routes"
    /\ StaleRoutes = {}
    /\ r \in MissingRoutes
    /\ UNCHANGED <<luids, osAddresses, regVars, torn>>
    /\ \/ /\ r[1] \in luids
          /\ osRoutes' = EnsureEntry(osRoutes, r)
          /\ call' = [call EXCEPT !.done = @ \cup {r},
                         !.added = IF osRoutes[r] = "absent" THEN @ \cup {r} ELSE @]
       \/ /\ call' = [call EXCEPT !.op = "undo"]
          /\ UNCHANGED osRoutes

AddressChanged == address \notin {None, call.want}

\* The last backend call, when the address moved, and the registry update.
FinishReconcile ==
    /\ call.op = "routes"
    /\ StaleRoutes = {}
    /\ MissingRoutes = {}
    /\ UNCHANGED <<luids, osRoutes, torn>>
    /\ \/ /\ osAddresses' = IF AddressChanged THEN RemoveEntry(osAddresses, address)
                                              ELSE osAddresses
          /\ address' = IF call.newOwned THEN call.want ELSE None
          /\ ownedRoutes' = call.added \cup (ownedRoutes \cap call.desired)
          /\ call' = Returned("ok")
       \/ /\ AddressChanged
          /\ call' = [call EXCEPT !.op = "undo"]
          /\ UNCHANGED <<osAddresses, regVars>>

\* rollback: the registry keeps its old value whatever happens here.
UndoAddedRoute(r) ==
    /\ call.op = "undo"
    /\ r \in call.added
    /\ call' = [call EXCEPT !.added = @ \ {r}]
    /\ UNCHANGED <<luids, osAddresses, regVars>>
    /\ \/ osRoutes' = RemoveEntry(osRoutes, r) /\ UNCHANGED torn
       \/ torn' = TRUE /\ UNCHANGED osRoutes

UndoRemovedRoute(r) ==
    /\ call.op = "undo"
    /\ call.added = {}
    /\ r \in call.removed
    /\ call' = [call EXCEPT !.removed = @ \ {r}]
    /\ UNCHANGED <<luids, osAddresses, regVars>>
    /\ \/ r[1] \in luids /\ osRoutes' = EnsureEntry(osRoutes, r) /\ UNCHANGED torn
       \/ torn' = TRUE /\ UNCHANGED osRoutes

\* Mutant: a new address is left in place.
NoAddressToUndo == FALSE
NewAddressToUndo == call.newOwned /\ address # call.want

UndoNewAddress ==
    /\ call.op = "undo"
    /\ call.added = {} /\ call.removed = {}
    /\ NewAddressToUndo
    /\ call' = [call EXCEPT !.newOwned = FALSE]
    /\ UNCHANGED <<luids, osRoutes, regVars>>
    /\ \/ osAddresses' = RemoveEntry(osAddresses, call.want) /\ UNCHANGED torn
       \/ torn' = TRUE /\ UNCHANGED osAddresses

FinishRollback ==
    /\ call.op = "undo"
    /\ call.added = {} /\ call.removed = {}
    /\ ~NewAddressToUndo
    /\ call' = Returned("error")
    /\ UNCHANGED <<luids, osRoutes, regVars>>
    /\ \/ ~AddressChanged /\ UNCHANGED <<osAddresses, torn>>
       \/ /\ AddressChanged /\ address[1] \in luids
          /\ osAddresses' = EnsureEntry(osAddresses, address) /\ UNCHANGED torn
       \/ AddressChanged /\ torn' = TRUE /\ UNCHANGED osAddresses

----------------------------------------------------------------------------
\* Clear: every removal is attempted, each success leaves the registry.

StartClear ==
    /\ call.op = "idle"
    /\ \/ call' = [Returned("none") EXCEPT !.op = "clear"]
       \/ call' = Returned("error")           \* the context is already cancelled
    /\ UNCHANGED <<osVars, regVars, torn>>

ClearRoute(r) ==
    /\ call.op = "clear"
    /\ r \in ownedRoutes \ call.done
    /\ UNCHANGED <<luids, osAddresses, address, torn>>
    /\ \/ /\ osRoutes' = RemoveEntry(osRoutes, r)
          /\ ownedRoutes' = ownedRoutes \ {r}
          /\ UNCHANGED call
       \/ /\ call' = [call EXCEPT !.done = @ \cup {r}, !.failed = TRUE]
          /\ UNCHANGED <<osRoutes, ownedRoutes>>

EveryRouteTried == ownedRoutes \subseteq call.done

FinishClear ==
    /\ call.op = "clear"
    /\ EveryRouteTried
    /\ UNCHANGED <<luids, osRoutes, ownedRoutes, torn>>
    /\ \/ /\ address' = None
          /\ osAddresses' = IF address = None THEN osAddresses
                                              ELSE RemoveEntry(osAddresses, address)
          /\ call' = Returned(IF call.failed THEN "error" ELSE "ok")
       \/ /\ address # None
          /\ call' = Returned("error")
          /\ UNCHANGED <<address, osAddresses>>

----------------------------------------------------------------------------
\* The user edits the tables: adds entries between calls, none that the
\* registry lists (an assumption: a rollback does not look whether the entry
\* it puts back is by now the user's), and removes his own at any time.

UserMayTake(listed) == call.op = "idle" /\ ~listed

UserAddsRoute(r) ==
    /\ r[1] \in luids
    /\ osRoutes[r] = "absent"
    /\ UserMayTake(r \in ownedRoutes)
    /\ osRoutes' = [osRoutes EXCEPT ![r] = "user"]
    /\ UNCHANGED <<luids, osAddresses, regVars, call, torn>>

UserAddsAddress(a) ==
    /\ a[1] \in luids
    /\ osAddresses[a] = "absent"
    /\ UserMayTake(a = address)
    /\ osAddresses' = [osAddresses EXCEPT ![a] = "user"]
    /\ UNCHANGED <<luids, osRoutes, regVars, call, torn>>

UserRemovesRoute(r) ==
    /\ osRoutes[r] = "user"
    /\ osRoutes' = RemoveEntry(osRoutes, r)
    /\ UNCHANGED <<luids, osAddresses, regVars, call, torn>>

UserRemovesAddress(a) ==
    /\ osAddresses[a] = "user"
    /\ osAddresses' = RemoveEntry(osAddresses, a)
    /\ UNCHANGED <<luids, osRoutes, regVars, call, torn>>

----------------------------------------------------------------------------
ReconcilerStep ==
    \/ EnsureOverlayAddress
    \/ \E r \in Route : RemoveStaleRoute(r)
    \/ \E r \in Route : EnsureDesiredRoute(r)
    \/ FinishReconcile
    \/ \E r \in Route : UndoAddedRoute(r)
    \/ \E r \in Route : UndoRemovedRoute(r)
    \/ UndoNewAddress
    \/ FinishRollback
    \/ \E r \in Route : ClearRoute(r)
    \/ FinishClear

UserStep ==
    \/ \E r \in Route : UserAddsRoute(r)
    \/ \E a \in Address : UserAddsAddress(a)
    \/ \E r \in Route : UserRemovesRoute(r)
    \/ \E a \in Address : UserRemovesAddress(a)

\* On its own the reconciler serves any sequence of calls on fixed interfaces;
\* the plan of one call is for one interface.
StartCall ==
    \/ \E want \in Address : \E ips \in SUBSET IP :
          StartReconcile(want, {want[1]} \X ips)
    \/ StartClear

RRInit == luids = Luid /\ RegistryInit
RRNext == StartCall \/ ReconcilerStep \/ UserStep

\* A call in progress holds a goroutine that runs: its next step is taken.
RRSpec == RRInit /\ [][RRNext]_rrVars /\ WF_rrVars(ReconcilerStep)

----------------------------------------------------------------------------
\* Properties.

\* The tables, the registry and the running call hold values of their types,
\* and the locals of a running Reconcile are apart: added are desired routes
\* that were not owned, removed are owned routes no longer desired.
RRTypeOK ==
    /\ luids \subseteq Luid
    /\ osRoutes \in [Route -> Creator]
    /\ osAddresses \in [Address -> Creator]
    /\ address \in Address \cup {None}
    /\ ownedRoutes \subseteq Route
    /\ call \in Call
    /\ call.added \subseteq call.desired \ ownedRoutes
    /\ call.removed \subseteq ownedRoutes \ call.desired
    /\ torn \in BOOLEAN

\* Backend's contract (route_reconciler.go:33-35): an entry the user made is
\* never removed by the reconciler, in success, failure, rollback or Clear.
UserEntriesKept ==
    [][ReconcilerStep =>
         /\ \A r \in Route : osRoutes[r] = "user" => osRoutes'[r] = "user"
         /\ \A a \in Address : osAddresses[a] = "user" => osAddresses'[a] = "user"]_rrVars

\* As long as no step of a rollback has itself failed, the registry between
\* calls is exactly what the reconciler has put in the tables: a failed call
\* neither forgets an entry it made nor claims one it undid.
RegistryExact ==
    (call.op = "idle" /\ ~torn) =>
        /\ ownedRoutes = {r \in Route : osRoutes[r] = "mesh"}
        /\ {a \in Address : osAddresses[a] = "mesh"} = {address} \ {None}

----------------------------------------------------------------------------
\* The inductive invariant.

\* What the locals of a running call say at each of its stages.
CallShape ==
    /\ call.op \in {"idle", "address", "clear"} => call.added = {} /\ call.removed = {}
    /\ call.op \in {"address", "routes", "undo"} => call.want \in Address
    /\ call.op = "address" => address # call.want
    /\ call.op \in {"routes", "undo"} /\ address = call.want => call.newOwned
    /\ call.op = "clear" /\ ~call.failed => call.done = {}

\* The entries the reconciler holds: those of the registry, as the running
\* call has changed them so far.
HeldRoutes    == (ownedRoutes \ call.removed) \cup call.added
NewAddress    == IF call.op \in {"routes", "undo"} /\ call.newOwned THEN {call.want} ELSE {}
HeldAddresses == ({address} \cup NewAddress) \ {None}

\* No entry the registry or the running call claims was made by the user.
NotTheUsers ==
    /\ \A r \in ownedRoutes \cup call.added : osRoutes[r] # "user"
    /\ \A a \in HeldAddresses : osAddresses[a] # "user"

\* The tables have entries on live interfaces only.
RowsLive ==
    \A r \in Route : r[1] \notin luids => osRoutes[r] = "absent" /\ osAddresses[r] = "absent"

\* While no rollback was torn, the reconciler's entries are those it holds.
TablesExact ==
    ~torn =>
        /\ \A r \in Route : osRoutes[r] = "mesh" <=> r[1] \in luids /\ r \in HeldRoutes
        /\ \A a \in Address : osAddresses[a] = "mesh" <=> a[1] \in luids /\ a \in HeldAddresses

RRInv ==
    /\ RRTypeOK
    /\ CallShape
    /\ NotTheUsers
    /\ RowsLive
    /\ TablesExact

=============================================================================
