--------------------------- MODULE DataPlaneProofs ---------------------------
(***************************************************************************)
(* The route reconciler on its own (RRSpec) and under the snapshot applier *)
(* (Spec): the tables are what the registry and the running call hold, and *)
(* the applier's record is what the machine does.                          *)
(***************************************************************************)
EXTENDS DataPlane, TLAPS

----------------------------------------------------------------------------
\* The reconciler.

\* The types of a call's fields.
LEMMA CallFields ==
    ASSUME call \in Call
    PROVE  /\ call.op \in Ops /\ call.want \in Address \cup {None}
           /\ call.desired \subseteq Route /\ call.added \subseteq Route
           /\ call.removed \subseteq Route /\ call.done \subseteq Route
           /\ call.result \in {"none", "ok", "error"}
           /\ call.newOwned \in BOOLEAN /\ call.failed \in BOOLEAN
BY DEF Call

\* A call that has returned.
LEMMA ReturnedCall ==
    ASSUME NEW result \in {"none", "ok", "error"}
    PROVE  /\ Returned(result) \in Call
           /\ Returned(result).op = "idle" /\ Returned(result).added = {}
           /\ Returned(result).removed = {} /\ Returned(result).result = result
BY DEF Returned, Call, Ops

\* EnsureOverlayAddress.
LEMMA EnsureOverlayAddressInv == RRInv /\ EnsureOverlayAddress => RRInv'
<1> SUFFICES ASSUME RRInv, EnsureOverlayAddress PROVE RRInv'
  OBVIOUS
<1> USE DEF RRInv
<1>1. /\ call \in Call /\ call.added = {} /\ call.removed = {} /\ call.want \in Address
      /\ address # call.want /\ call.op = "address"
  BY DEF RRTypeOK, CallShape, EnsureOverlayAddress
<1>2. CASE call' = Returned("error") /\ UNCHANGED osAddresses
  <2>1. call' \in Call /\ call'.op = "idle" /\ call'.added = {} /\ call'.removed = {}
    BY <1>2, ReturnedCall
  <2>2. RRTypeOK'
    BY <1>2, <2>1 DEF RRTypeOK, EnsureOverlayAddress, regVars
  <2>3. CallShape'
    BY <2>1 DEF CallShape
  <2>4. HeldRoutes' = HeldRoutes /\ HeldAddresses' = HeldAddresses
    BY <1>1, <1>2, <2>1 DEF HeldRoutes, HeldAddresses, NewAddress, EnsureOverlayAddress, regVars
  <2>5. NotTheUsers' /\ RowsLive' /\ TablesExact'
    BY <1>1, <1>2, <2>1, <2>4 DEF NotTheUsers, RowsLive, TablesExact, EnsureOverlayAddress, regVars
  <2> QED
    BY <2>2, <2>3, <2>5
<1>3. CASE /\ call.want[1] \in luids
           /\ osAddresses' = EnsureEntry(osAddresses, call.want)
           /\ call' = [call EXCEPT !.op = "routes",
                                   !.newOwned = (osAddresses[call.want] = "absent")]
  <2>1. /\ call'.op = "routes" /\ call'.added = {} /\ call'.removed = {}
        /\ call'.want = call.want
        /\ call'.newOwned = (osAddresses[call.want] = "absent")
    BY <1>1, <1>3 DEF Call
  <2>2. call' \in Call
    BY <1>1, <1>3 DEF Call, Ops
  <2>3. RRTypeOK'
    BY <1>1, <1>3, <2>1, <2>2 DEF RRTypeOK, EnsureOverlayAddress, regVars, EnsureEntry, Creator
  <2>4. CallShape'
    BY <1>1, <2>1 DEF CallShape, EnsureOverlayAddress, regVars
  <2>5. HeldRoutes' = HeldRoutes
    BY <1>1, <2>1 DEF HeldRoutes, EnsureOverlayAddress, regVars
  <2>6. HeldAddresses' = HeldAddresses \cup
          (IF osAddresses[call.want] = "absent" THEN {call.want} ELSE {})
    BY <1>1, <2>1, NoneIsNoAddress
       DEF HeldAddresses, NewAddress, EnsureOverlayAddress, regVars, Address
  <2>7. /\ \A a \in Address : a # call.want => osAddresses'[a] = osAddresses[a]
        /\ osAddresses[call.want] = "absent" => osAddresses'[call.want] = "mesh"
        /\ osAddresses[call.want] # "absent" => osAddresses'[call.want] = osAddresses[call.want]
    BY <1>1, <1>3 DEF EnsureEntry, RRTypeOK
  <2>8. HeldAddresses \subseteq Address /\ HeldAddresses' \subseteq Address
    BY <1>1, <2>6 DEF HeldAddresses, NewAddress, RRTypeOK
  <2>9. NotTheUsers'
    BY <1>1, <2>1, <2>6, <2>7, <2>8 DEF NotTheUsers, EnsureOverlayAddress, regVars
  <2>10. RowsLive'
    BY <1>3, <2>7 DEF RowsLive, EnsureOverlayAddress, Route, Address
  <2>11. TablesExact'
    BY <1>3, <2>5, <2>6, <2>7, <2>8 DEF TablesExact, EnsureOverlayAddress
  <2> QED
    BY <2>3, <2>4, <2>9, <2>10, <2>11
<1> QED
  BY <1>2, <1>3 DEF EnsureOverlayAddress

\* Reconcile gives up and starts its rollback.
LEMMA GivesUp ==
    ASSUME RRInv, call.op = "routes", call' = [call EXCEPT !.op = "undo"],
           UNCHANGED <<osVars, regVars, torn>>
    PROVE  RRInv'
<1> USE DEF RRInv
<1>1. /\ call \in Call /\ call.want \in Address
      /\ UNCHANGED <<luids, osRoutes, osAddresses, address, ownedRoutes, torn>>
  BY DEF RRTypeOK, CallShape, osVars, regVars
<1>2. call'.op = "undo" /\ call' \in Call
  BY <1>1 DEF Call, Ops
<1>3. /\ call'.added = call.added /\ call'.removed = call.removed /\ call'.want = call.want
      /\ call'.desired = call.desired /\ call'.newOwned = call.newOwned
  BY <1>1 DEF Call
<1>4. HeldRoutes' = HeldRoutes /\ HeldAddresses' = HeldAddresses
  BY <1>1, <1>2, <1>3 DEF HeldRoutes, HeldAddresses, NewAddress
<1>5. RRTypeOK' /\ CallShape'
  BY <1>1, <1>2, <1>3 DEF RRTypeOK, CallShape
<1> QED
  BY <1>1, <1>3, <1>4, <1>5 DEF NotTheUsers, RowsLive, TablesExact

\* RemoveStaleRoute.
LEMMA RemoveStaleRouteInv ==
    ASSUME NEW r \in Route, RRInv, RemoveStaleRoute(r) PROVE RRInv'
<1> USE DEF RRInv
<1>1. /\ call \in Call /\ call.op = "routes" /\ call.want \in Address
      /\ r \in ownedRoutes /\ r \notin call.desired /\ r \notin call.removed
      /\ UNCHANGED <<luids, osAddresses, address, ownedRoutes, torn>>
  BY DEF RRTypeOK, CallShape, RemoveStaleRoute, StaleRoutes, regVars
<1>2. CASE call' = [call EXCEPT !.op = "undo"] /\ UNCHANGED osRoutes
  BY <1>1, <1>2, GivesUp DEF osVars, regVars
<1>3. CASE /\ osRoutes' = RemoveEntry(osRoutes, r)
           /\ call' = [call EXCEPT !.removed = @ \cup {r}]
  <2>1. call' \in Call /\ call'.op = "routes"
    BY <1>1, <1>3 DEF Call, Ops
  <2>2. /\ call'.added = call.added /\ call'.removed = call.removed \cup {r}
        /\ call'.want = call.want /\ call'.desired = call.desired
        /\ call'.newOwned = call.newOwned
    BY <1>1, <1>3 DEF Call
  <2>3. r \notin call.added
    BY <1>1 DEF RRTypeOK
  <2>4. HeldRoutes' = HeldRoutes \ {r} /\ HeldAddresses' = HeldAddresses
    BY <1>1, <2>1, <2>2, <2>3 DEF HeldRoutes, HeldAddresses, NewAddress
  <2>5. /\ \A s \in Route : s # r => osRoutes'[s] = osRoutes[s]
        /\ osRoutes'[r] = "absent"
        /\ osRoutes' \in [Route -> Creator]
    BY <1>3 DEF RemoveEntry, RRTypeOK, Creator
  <2>6. RRTypeOK' /\ CallShape'
    BY <1>1, <2>1, <2>2, <2>5 DEF RRTypeOK, CallShape
  <2>7. ownedRoutes \cup call.added \subseteq Route
    BY <1>1 DEF RRTypeOK, Call
  <2>8. NotTheUsers'
    BY <1>1, <2>2, <2>4, <2>5, <2>7 DEF NotTheUsers
  <2>9. RowsLive'
    BY <1>1, <2>5 DEF RowsLive
  <2>10. TablesExact'
    BY <1>1, <2>4, <2>5 DEF TablesExact
  <2> QED
    BY <2>6, <2>8, <2>9, <2>10
<1> QED
  BY <1>2, <1>3 DEF RemoveStaleRoute

\* EnsureDesiredRoute.
LEMMA EnsureDesiredRouteInv ==
    ASSUME NEW r \in Route, RRInv, EnsureDesiredRoute(r) PROVE RRInv'
<1> USE DEF RRInv
<1>1. /\ call \in Call /\ call.op = "routes" /\ call.want \in Address
      /\ r \notin ownedRoutes /\ r \in call.desired
      /\ UNCHANGED <<luids, osAddresses, address, ownedRoutes, torn>>
  BY DEF RRTypeOK, CallShape, EnsureDesiredRoute, MissingRoutes, regVars
<1>2. CASE call' = [call EXCEPT !.op = "undo"] /\ UNCHANGED osRoutes
  BY <1>1, <1>2, GivesUp DEF osVars, regVars
<1>3. CASE /\ r[1] \in luids
           /\ osRoutes' = EnsureEntry(osRoutes, r)
           /\ call' = [call EXCEPT !.done = @ \cup {r},
                          !.added = IF osRoutes[r] = "absent" THEN @ \cup {r} ELSE @]
  <2>1. call' \in Call /\ call'.op = "routes"
    BY <1>1, <1>3 DEF Call, Ops
  <2>2. /\ call'.added = call.added \cup (IF osRoutes[r] = "absent" THEN {r} ELSE {})
        /\ call'.removed = call.removed
        /\ call'.want = call.want /\ call'.desired = call.desired
        /\ call'.newOwned = call.newOwned
    BY <1>1, <1>3 DEF Call
  <2>3. r \notin call.removed
    BY <1>1 DEF RRTypeOK
  <2>4. /\ HeldRoutes' = HeldRoutes \cup (IF osRoutes[r] = "absent" THEN {r} ELSE {})
        /\ HeldAddresses' = HeldAddresses
    BY <1>1, <2>1, <2>2, <2>3 DEF HeldRoutes, HeldAddresses, NewAddress
  <2>5. /\ \A s \in Route : s # r => osRoutes'[s] = osRoutes[s]
        /\ osRoutes[r] = "absent" => osRoutes'[r] = "mesh"
        /\ osRoutes[r] # "absent" => osRoutes'[r] = osRoutes[r]
        /\ osRoutes' \in [Route -> Creator]
    BY <1>3 DEF EnsureEntry, RRTypeOK, Creator
  <2>6. RRTypeOK' /\ CallShape'
    BY <1>1, <2>1, <2>2, <2>5 DEF RRTypeOK, CallShape
  <2>7. ownedRoutes \cup call.added \subseteq Route
    BY <1>1 DEF RRTypeOK, Call
  <2>8. NotTheUsers'
    BY <1>1, <2>2, <2>4, <2>5, <2>7 DEF NotTheUsers
  <2>9. RowsLive'
    BY <1>1, <1>3, <2>5 DEF RowsLive
  <2>10. TablesExact'
    BY <1>1, <1>3, <2>4, <2>5 DEF TablesExact
  <2> QED
    BY <2>6, <2>8, <2>9, <2>10
<1> QED
  BY <1>2, <1>3 DEF EnsureDesiredRoute

\* FinishReconcile.
LEMMA FinishReconcileInv == ASSUME RRInv, FinishReconcile PROVE RRInv'
<1> USE DEF RRInv
<1>1. /\ call \in Call /\ call.op = "routes" /\ call.want \in Address
      /\ UNCHANGED <<luids, osRoutes, torn>>
  BY DEF RRTypeOK, CallShape, FinishReconcile
<1>2. CASE /\ AddressChanged
           /\ call' = [call EXCEPT !.op = "undo"]
           /\ UNCHANGED <<osAddresses, regVars>>
  BY <1>1, <1>2, GivesUp DEF osVars
<1>3. CASE /\ osAddresses' = IF AddressChanged THEN RemoveEntry(osAddresses, address)
                                               ELSE osAddresses
           /\ address' = IF call.newOwned THEN call.want ELSE None
           /\ ownedRoutes' = call.added \cup (ownedRoutes \cap call.desired)
           /\ call' = Returned("ok")
  <2>1. call' \in Call /\ call'.op = "idle" /\ call'.added = {} /\ call'.removed = {}
    BY <1>3, ReturnedCall
  <2>2. ownedRoutes \subseteq Route /\ call.added \subseteq Route /\ address \in Address \cup {None}
    BY <1>1 DEF RRTypeOK, Call
  <2>3. HeldRoutes' = HeldRoutes /\ ownedRoutes' = HeldRoutes
    BY <1>3, <2>1 DEF HeldRoutes, RRTypeOK, FinishReconcile, StaleRoutes
  <2>4. None \notin Address /\ (address = call.want => call.newOwned)
    BY <1>1, NoneIsNoAddress DEF Address, CallShape
  <2>5. HeldAddresses' = HeldAddresses \ (IF AddressChanged THEN {address} ELSE {})
    BY <1>1, <1>3, <2>1, <2>2, <2>4 DEF HeldAddresses, NewAddress, AddressChanged
  <2>6. /\ \A a \in Address : ~(AddressChanged /\ a = address) => osAddresses'[a] = osAddresses[a]
        /\ AddressChanged => address \in Address /\ osAddresses'[address] = "absent"
        /\ osAddresses' \in [Address -> Creator]
    BY <1>3, <2>2 DEF RemoveEntry, RRTypeOK, Creator, AddressChanged
  <2>7. HeldAddresses \subseteq Address
    BY <1>1, <2>2 DEF HeldAddresses, NewAddress
  <2>8. RRTypeOK' /\ CallShape'
    BY <1>1, <1>3, <2>1, <2>2, <2>6 DEF RRTypeOK, CallShape
  <2>9. NotTheUsers'
    BY <1>1, <1>3, <2>1, <2>2, <2>5, <2>6, <2>7 DEF NotTheUsers
  <2>10. RowsLive'
    BY <1>1, <2>6 DEF RowsLive, Route, Address
  <2>11. TablesExact'
    BY <1>1, <2>3, <2>5, <2>6 DEF TablesExact
  <2> QED
    BY <2>8, <2>9, <2>10, <2>11
<1> QED
  BY <1>2, <1>3 DEF FinishReconcile

\* UndoAddedRoute and UndoRemovedRoute.
LEMMA UndoRouteInv ==
    ASSUME NEW r \in Route, RRInv, UndoAddedRoute(r) \/ UndoRemovedRoute(r) PROVE RRInv'
<1> USE DEF RRInv
<1>1. /\ call \in Call /\ call.op = "undo" /\ call.want \in Address
      /\ UNCHANGED <<luids, osAddresses, address, ownedRoutes>>
  BY DEF RRTypeOK, CallShape, UndoAddedRoute, UndoRemovedRoute, regVars
<1>2. ownedRoutes \cup call.added \subseteq Route
  BY <1>1 DEF RRTypeOK, Call
<1>3. CASE UndoAddedRoute(r)
  <2>1. call' \in Call /\ call'.op = "undo"
    BY <1>1, <1>3 DEF Call, Ops, UndoAddedRoute
  <2>2. /\ call'.added = call.added \ {r} /\ call'.removed = call.removed
        /\ call'.want = call.want /\ call'.desired = call.desired
        /\ call'.newOwned = call.newOwned
    BY <1>1, <1>3 DEF Call, UndoAddedRoute
  <2>3. r \in call.added /\ r \notin ownedRoutes
    BY <1>3 DEF RRTypeOK, UndoAddedRoute
  <2>4. HeldRoutes' = HeldRoutes \ {r} /\ HeldAddresses' = HeldAddresses
    BY <1>1, <2>1, <2>2, <2>3 DEF HeldRoutes, HeldAddresses, NewAddress
  <2>5. /\ \A s \in Route : s # r => osRoutes'[s] = osRoutes[s]
        /\ osRoutes'[r] \in {osRoutes[r], "absent"}
        /\ ~torn' => ~torn /\ osRoutes'[r] = "absent"
        /\ osRoutes' \in [Route -> Creator] /\ torn' \in BOOLEAN
    <3>1. torn' \in BOOLEAN
      BY <1>3, Zenon DEF RRTypeOK, UndoAddedRoute
    <3>2. CASE osRoutes' = RemoveEntry(osRoutes, r) /\ UNCHANGED torn
      BY <3>1, <3>2 DEF RemoveEntry, RRTypeOK, Creator
    <3>3. CASE torn' = TRUE /\ UNCHANGED osRoutes
      BY <3>1, <3>3 DEF RRTypeOK
    <3> QED
      BY <1>3, <3>2, <3>3, Zenon DEF UndoAddedRoute
  <2>6. RRTypeOK' /\ CallShape'
    BY <1>1, <2>1, <2>2, <2>5 DEF RRTypeOK, CallShape
  <2>7. NotTheUsers' /\ RowsLive'
    BY <1>1, <1>2, <2>2, <2>4, <2>5 DEF NotTheUsers, RowsLive
  <2>8. TablesExact'
    BY <1>1, <2>4, <2>5 DEF TablesExact
  <2> QED
    BY <2>6, <2>7, <2>8
<1>4. CASE UndoRemovedRoute(r)
  <2>1. call' \in Call /\ call'.op = "undo"
    BY <1>1, <1>4 DEF Call, Ops, UndoRemovedRoute
  <2>2. /\ call'.added = call.added /\ call'.removed = call.removed \ {r}
        /\ call'.want = call.want /\ call'.desired = call.desired
        /\ call'.newOwned = call.newOwned
    BY <1>1, <1>4 DEF Call, UndoRemovedRoute
  <2>3. r \in call.removed /\ r \in ownedRoutes /\ osRoutes[r] # "user"
    BY <1>4 DEF RRTypeOK, UndoRemovedRoute, NotTheUsers
  <2>4. HeldRoutes' = HeldRoutes \cup {r} /\ HeldAddresses' = HeldAddresses
    BY <1>1, <2>1, <2>2, <2>3 DEF HeldRoutes, HeldAddresses, NewAddress
  <2>5. /\ \A s \in Route : s # r => osRoutes'[s] = osRoutes[s]
        /\ osRoutes'[r] = osRoutes[r] \/ (r[1] \in luids /\ osRoutes'[r] = "mesh")
        /\ ~torn' => ~torn /\ r[1] \in luids /\ osRoutes'[r] = "mesh"
        /\ osRoutes' \in [Route -> Creator] /\ torn' \in BOOLEAN
    <3>1. torn' \in BOOLEAN
      BY <1>4, Zenon DEF RRTypeOK, UndoRemovedRoute
    <3>2. CASE r[1] \in luids /\ osRoutes' = EnsureEntry(osRoutes, r) /\ UNCHANGED torn
      BY <2>3, <3>1, <3>2 DEF EnsureEntry, RRTypeOK, Creator
    <3>3. CASE torn' = TRUE /\ UNCHANGED osRoutes
      BY <3>1, <3>3 DEF RRTypeOK
    <3> QED
      BY <1>4, <3>2, <3>3, Zenon DEF UndoRemovedRoute
  <2>6. RRTypeOK' /\ CallShape'
    BY <1>1, <2>1, <2>2, <2>5 DEF RRTypeOK, CallShape
  <2>7. NotTheUsers' /\ RowsLive'
    BY <1>1, <1>2, <2>2, <2>4, <2>5 DEF NotTheUsers, RowsLive
  <2>8. TablesExact'
    BY <1>1, <2>4, <2>5 DEF TablesExact
  <2> QED
    BY <2>6, <2>7, <2>8
<1> QED
  BY <1>3, <1>4

\* UndoNewAddress.
LEMMA UndoNewAddressInv == ASSUME RRInv, UndoNewAddress PROVE RRInv'
<1> USE DEF RRInv
<1>1. /\ call \in Call /\ call.op = "undo" /\ call.want \in Address
      /\ call.added = {} /\ call.removed = {} /\ call.newOwned /\ address # call.want
      /\ UNCHANGED <<luids, osRoutes, address, ownedRoutes>>
  BY DEF RRTypeOK, CallShape, UndoNewAddress, NewAddressToUndo, regVars
<1>2. call' \in Call /\ call'.op = "undo"
  BY <1>1 DEF Call, Ops, UndoNewAddress
<1>3. /\ call'.added = {} /\ call'.removed = {} /\ call'.newOwned = FALSE
      /\ call'.want = call.want /\ call'.desired = call.desired
  BY <1>1 DEF Call, UndoNewAddress
<1>4. None \notin Address /\ address \in Address \cup {None}
  BY NoneIsNoAddress DEF Address, RRTypeOK
<1>5. /\ HeldRoutes' = HeldRoutes
      /\ HeldAddresses' = HeldAddresses \ {call.want}
      /\ HeldAddresses' \subseteq Address
  BY <1>1, <1>2, <1>3, <1>4 DEF HeldRoutes, HeldAddresses, NewAddress
<1>6. /\ \A a \in Address : a # call.want => osAddresses'[a] = osAddresses[a]
      /\ osAddresses'[call.want] \in {osAddresses[call.want], "absent"}
      /\ ~torn' => ~torn /\ osAddresses'[call.want] = "absent"
      /\ osAddresses' \in [Address -> Creator] /\ torn' \in BOOLEAN
  <2>1. torn' \in BOOLEAN
    BY Zenon DEF RRTypeOK, UndoNewAddress
  <2>2. CASE osAddresses' = RemoveEntry(osAddresses, call.want) /\ UNCHANGED torn
    BY <1>1, <2>1, <2>2 DEF RemoveEntry, RRTypeOK, Creator
  <2>3. CASE torn' = TRUE /\ UNCHANGED osAddresses
    BY <2>1, <2>3 DEF RRTypeOK
  <2> QED
    BY <2>2, <2>3, Zenon DEF UndoNewAddress
<1>7. RRTypeOK' /\ CallShape'
  BY <1>1, <1>2, <1>3, <1>6 DEF RRTypeOK, CallShape
<1>8. NotTheUsers'
  BY <1>1, <1>3, <1>5, <1>6 DEF NotTheUsers
<1>9. RowsLive'
  BY <1>1, <1>6 DEF RowsLive, Route, Address
<1>10. TablesExact'
  BY <1>1, <1>5, <1>6 DEF TablesExact
<1> QED
  BY <1>7, <1>8, <1>9, <1>10

\* FinishRollback.
LEMMA FinishRollbackInv == ASSUME RRInv, FinishRollback PROVE RRInv'
<1> USE DEF RRInv
<1>1. /\ call \in Call /\ call.op = "undo" /\ call.want \in Address
      /\ call.added = {} /\ call.removed = {} /\ (call.newOwned => address = call.want)
      /\ UNCHANGED <<luids, osRoutes, address, ownedRoutes>>
  BY DEF RRTypeOK, CallShape, FinishRollback, NewAddressToUndo, regVars
<1>2. call' \in Call /\ call'.op = "idle" /\ call'.added = {} /\ call'.removed = {}
  BY ReturnedCall DEF FinishRollback
<1>3. None \notin Address /\ address \in Address \cup {None}
  BY NoneIsNoAddress DEF Address, RRTypeOK
<1>4. /\ HeldRoutes' = HeldRoutes /\ HeldAddresses' = HeldAddresses
      /\ HeldAddresses = {address} \ {None}
  BY <1>1, <1>2, <1>3 DEF HeldRoutes, HeldAddresses, NewAddress
<1>5. AddressChanged => address \in Address /\ osAddresses[address] # "user"
  BY <1>3, <1>4 DEF AddressChanged, NotTheUsers
<1>6. /\ \A a \in Address : a # address => osAddresses'[a] = osAddresses[a]
      /\ \/ osAddresses'[address] = osAddresses[address]
         \/ address[1] \in luids /\ osAddresses'[address] = "mesh"
      /\ ~torn' => ~torn
      /\ osAddresses' \in [Address -> Creator] /\ torn' \in BOOLEAN
  <2>1. torn' \in BOOLEAN
    BY Zenon DEF RRTypeOK, FinishRollback
  <2>2. CASE UNCHANGED <<osAddresses, torn>>
    BY <2>1, <2>2 DEF RRTypeOK
  <2>3. CASE /\ AddressChanged /\ address[1] \in luids
             /\ osAddresses' = EnsureEntry(osAddresses, address) /\ UNCHANGED torn
    BY <1>5, <2>1, <2>3 DEF EnsureEntry, RRTypeOK, Creator
  <2>4. CASE torn' = TRUE /\ UNCHANGED osAddresses
    BY <2>1, <2>4 DEF RRTypeOK
  <2> QED
    BY <2>2, <2>3, <2>4, Zenon DEF FinishRollback
<1>7. RRTypeOK' /\ CallShape'
  BY <1>1, <1>2, <1>6 DEF RRTypeOK, CallShape
<1>8. NotTheUsers'
  BY <1>1, <1>2, <1>3, <1>4, <1>6 DEF NotTheUsers
<1>9. RowsLive'
  BY <1>1, <1>6 DEF RowsLive, Route, Address
<1>10. TablesExact'
  <2>1. SUFFICES ASSUME ~torn' PROVE TablesExact'
    BY DEF TablesExact
  <2>2. ~torn /\ \A a \in Address : osAddresses[a] = "mesh" <=> a[1] \in luids /\ a \in HeldAddresses
    BY <1>6, <2>1 DEF TablesExact
  <2>3. ASSUME NEW a \in Address
        PROVE  osAddresses'[a] = "mesh" <=> a[1] \in luids /\ a \in HeldAddresses
    <3>1. CASE a # address
      BY <1>6, <2>2, <3>1
    <3>2. CASE a = address
      BY <1>3, <1>4, <1>6, <2>2, <3>2
    <3> QED
      BY <3>1, <3>2
  <2> QED
    BY <1>1, <1>4, <2>2, <2>3 DEF TablesExact
<1> QED
  BY <1>7, <1>8, <1>9, <1>10

\* ClearRoute.
LEMMA ClearRouteInv ==
    ASSUME NEW r \in Route, RRInv, ClearRoute(r) PROVE RRInv'
<1> USE DEF RRInv
<1>1. /\ call \in Call /\ call.op = "clear" /\ call.added = {} /\ call.removed = {}
      /\ r \in ownedRoutes
      /\ UNCHANGED <<luids, osAddresses, address, torn>>
  BY DEF RRTypeOK, CallShape, ClearRoute
<1>2. CASE /\ osRoutes' = RemoveEntry(osRoutes, r)
           /\ ownedRoutes' = ownedRoutes \ {r}
           /\ UNCHANGED call
  <2>1. HeldRoutes' = HeldRoutes \ {r} /\ HeldAddresses' = HeldAddresses
    BY <1>1, <1>2 DEF HeldRoutes, HeldAddresses, NewAddress
  <2>2. /\ \A s \in Route : s # r => osRoutes'[s] = osRoutes[s]
        /\ osRoutes'[r] = "absent"
        /\ osRoutes' \in [Route -> Creator]
    BY <1>2 DEF RemoveEntry, RRTypeOK, Creator
  <2>3. RRTypeOK' /\ CallShape'
    BY <1>1, <1>2, <2>2 DEF RRTypeOK, CallShape
  <2>4. NotTheUsers' /\ RowsLive'
    BY <1>1, <1>2, <2>1, <2>2 DEF NotTheUsers, RowsLive, RRTypeOK
  <2>5. TablesExact'
    BY <1>1, <2>1, <2>2 DEF TablesExact
  <2> QED
    BY <2>3, <2>4, <2>5
<1>3. CASE /\ call' = [call EXCEPT !.done = @ \cup {r}, !.failed = TRUE]
           /\ UNCHANGED <<osRoutes, ownedRoutes>>
  <2>1. call' \in Call /\ call'.op = "clear" /\ call'.added = {} /\ call'.removed = {}
    BY <1>1, <1>3 DEF Call, Ops
  <2>2. call'.failed = TRUE
    BY <1>1, <1>3 DEF Call
  <2>3. HeldRoutes' = HeldRoutes /\ HeldAddresses' = HeldAddresses
    BY <1>1, <1>3, <2>1 DEF HeldRoutes, HeldAddresses, NewAddress
  <2>4. RRTypeOK' /\ CallShape'
    BY <1>1, <1>3, <2>1, <2>2 DEF RRTypeOK, CallShape
  <2> QED
    BY <1>1, <1>3, <2>1, <2>3, <2>4 DEF NotTheUsers, RowsLive, TablesExact
<1> QED
  BY <1>2, <1>3 DEF ClearRoute

\* FinishClear.
LEMMA FinishClearInv == ASSUME RRInv, FinishClear PROVE RRInv'
<1> USE DEF RRInv
<1>1. /\ call \in Call /\ call.op = "clear" /\ call.added = {} /\ call.removed = {}
      /\ UNCHANGED <<luids, osRoutes, ownedRoutes, torn>>
  BY DEF RRTypeOK, CallShape, FinishClear
<1>2. call' \in Call /\ call'.op = "idle" /\ call'.added = {} /\ call'.removed = {}
  BY ReturnedCall DEF FinishClear
<1>3. None \notin Address /\ address \in Address \cup {None}
  BY NoneIsNoAddress DEF Address, RRTypeOK
<1>4. HeldRoutes' = HeldRoutes /\ HeldAddresses = {address} \ {None}
  BY <1>1, <1>2 DEF HeldRoutes, HeldAddresses, NewAddress
<1>5. HeldAddresses' = {address'} \ {None}
  BY <1>2 DEF HeldAddresses, NewAddress
<1>6. \/ address' = address /\ osAddresses' = osAddresses
      \/ /\ address' = None /\ address # None /\ osAddresses'[address] = "absent"
         /\ \A a \in Address : a # address => osAddresses'[a] = osAddresses[a]
  BY <1>3 DEF FinishClear, RemoveEntry, RRTypeOK
<1>7. osAddresses' \in [Address -> Creator]
  BY <1>3 DEF FinishClear, RemoveEntry, RRTypeOK, Creator
<1>8. RRTypeOK' /\ CallShape'
  BY <1>1, <1>2, <1>3, <1>6, <1>7 DEF RRTypeOK, CallShape
<1>9. NotTheUsers'
  BY <1>1, <1>2, <1>3, <1>4, <1>5, <1>6 DEF NotTheUsers
<1>10. RowsLive'
  BY <1>1, <1>3, <1>6 DEF RowsLive, Route, Address
<1>11. TablesExact'
  BY <1>1, <1>3, <1>4, <1>5, <1>6 DEF TablesExact
<1> QED
  BY <1>8, <1>9, <1>10, <1>11

\* Every step of a running call keeps the reconciler's invariant.
LEMMA ReconcilerStepInv == ASSUME RRInv, ReconcilerStep PROVE RRInv'
BY EnsureOverlayAddressInv, RemoveStaleRouteInv, EnsureDesiredRouteInv, FinishReconcileInv,
   UndoRouteInv, UndoNewAddressInv, FinishRollbackInv, ClearRouteInv, FinishClearInv
   DEF ReconcilerStep

\* A call starts, or returns at once because its context is cancelled.
LEMMA StartReconcileInv ==
    ASSUME NEW want \in Address, NEW desired \in SUBSET Route,
           RRInv, StartReconcile(want, desired)
    PROVE  RRInv'
<1> USE DEF RRInv
<1>1. /\ call.op = "idle" /\ call.added = {} /\ call.removed = {}
      /\ UNCHANGED <<luids, osRoutes, osAddresses, address, ownedRoutes, torn>>
  BY DEF StartReconcile, CallShape, osVars, regVars
<1>2. /\ call' \in Call /\ call'.added = {} /\ call'.removed = {}
      /\ call'.op = "idle" \/ (call'.op = "address" /\ address # want)
                           \/ (call'.op = "routes" /\ address = want)
      /\ call'.op # "idle" => call'.want = want
      /\ call'.op = "routes" => call'.newOwned
  <2>1. CASE call' = Returned("error")
    BY <2>1, ReturnedCall
  <2>2. CASE call' = [Returned("none") EXCEPT
                        !.op = IF address = want THEN "routes" ELSE "address",
                        !.want = want, !.desired = desired, !.newOwned = (address = want)]
    BY <2>2 DEF Returned, Call, Ops
  <2> QED
    BY <2>1, <2>2 DEF StartReconcile
<1>3. HeldRoutes' = HeldRoutes /\ HeldAddresses' = HeldAddresses
  BY <1>1, <1>2 DEF HeldRoutes, HeldAddresses, NewAddress
<1>4. RRTypeOK' /\ CallShape'
  BY <1>1, <1>2 DEF RRTypeOK, CallShape
<1> QED
  BY <1>1, <1>2, <1>3, <1>4 DEF NotTheUsers, RowsLive, TablesExact

LEMMA StartClearInv == ASSUME RRInv, StartClear PROVE RRInv'
<1> USE DEF RRInv
<1>1. /\ call.op = "idle" /\ call.added = {} /\ call.removed = {}
      /\ UNCHANGED <<luids, osRoutes, osAddresses, address, ownedRoutes, torn>>
  BY DEF StartClear, CallShape, osVars, regVars
<1>2. /\ call' \in Call /\ call'.added = {} /\ call'.removed = {} /\ call'.op \in {"idle", "clear"}
      /\ call'.op = "clear" => call'.done = {}
  BY ReturnedCall DEF StartClear, Returned, Call, Ops
<1>3. HeldRoutes' = HeldRoutes /\ HeldAddresses' = HeldAddresses
  BY <1>1, <1>2 DEF HeldRoutes, HeldAddresses, NewAddress
<1>4. RRTypeOK' /\ CallShape'
  BY <1>1, <1>2 DEF RRTypeOK, CallShape
<1> QED
  BY <1>1, <1>2, <1>3, <1>4 DEF NotTheUsers, RowsLive, TablesExact

\* The user's edits.
LEMMA UserRouteInv ==
    ASSUME NEW r \in Route, RRInv, UserAddsRoute(r) \/ UserRemovesRoute(r) PROVE RRInv'
<1> USE DEF RRInv
<1>1. UNCHANGED <<luids, osAddresses, address, ownedRoutes, call, torn>>
  BY DEF UserAddsRoute, UserRemovesRoute, regVars
<1>2. HeldRoutes' = HeldRoutes /\ HeldAddresses' = HeldAddresses
  BY <1>1 DEF HeldRoutes, HeldAddresses, NewAddress
<1>3. ownedRoutes \cup call.added \subseteq Route /\ HeldRoutes \subseteq ownedRoutes \cup call.added
  BY DEF RRTypeOK, Call, HeldRoutes
<1>4. r \notin ownedRoutes \cup call.added
  BY DEF UserAddsRoute, UserRemovesRoute, UserMayTake, NotTheUsers, CallShape
<1>5. /\ \A s \in Route : s # r => osRoutes'[s] = osRoutes[s]
      /\ osRoutes'[r] \in {"absent", "user"} /\ osRoutes[r] # "mesh"
      /\ r[1] \notin luids => osRoutes'[r] = "absent"
      /\ osRoutes' \in [Route -> Creator]
  BY DEF UserAddsRoute, UserRemovesRoute, RemoveEntry, RRTypeOK, Creator
<1>6. RRTypeOK' /\ CallShape'
  BY <1>1, <1>5 DEF RRTypeOK, CallShape
<1>7. NotTheUsers' /\ RowsLive'
  BY <1>1, <1>2, <1>3, <1>4, <1>5 DEF NotTheUsers, RowsLive
<1>8. TablesExact'
  BY <1>1, <1>2, <1>3, <1>4, <1>5 DEF TablesExact
<1> QED
  BY <1>6, <1>7, <1>8

LEMMA UserAddressInv ==
    ASSUME NEW a \in Address, RRInv, UserAddsAddress(a) \/ UserRemovesAddress(a) PROVE RRInv'
<1> USE DEF RRInv
<1>1. UNCHANGED <<luids, osRoutes, address, ownedRoutes, call, torn>>
  BY DEF UserAddsAddress, UserRemovesAddress, regVars
<1>2. HeldRoutes' = HeldRoutes /\ HeldAddresses' = HeldAddresses
  BY <1>1 DEF HeldRoutes, HeldAddresses, NewAddress
<1>3. HeldAddresses \subseteq Address
  BY DEF RRTypeOK, CallShape, HeldAddresses, NewAddress
<1>4. a \notin HeldAddresses
  BY DEF UserAddsAddress, UserRemovesAddress, UserMayTake, NotTheUsers, HeldAddresses, NewAddress
<1>5. /\ \A b \in Address : b # a => osAddresses'[b] = osAddresses[b]
      /\ osAddresses'[a] \in {"absent", "user"} /\ osAddresses[a] # "mesh"
      /\ a[1] \notin luids => osAddresses'[a] = "absent"
      /\ osAddresses' \in [Address -> Creator]
  BY DEF UserAddsAddress, UserRemovesAddress, RemoveEntry, RRTypeOK, Creator
<1>6. RRTypeOK' /\ CallShape'
  BY <1>1, <1>5 DEF RRTypeOK, CallShape
<1>7. NotTheUsers' /\ RowsLive'
  BY <1>1, <1>2, <1>3, <1>4, <1>5 DEF NotTheUsers, RowsLive, Route, Address
<1>8. TablesExact'
  BY <1>1, <1>2, <1>3, <1>4, <1>5 DEF TablesExact
<1> QED
  BY <1>6, <1>7, <1>8

LEMMA RegistryInitInv == ASSUME luids \subseteq Luid, RegistryInit PROVE RRInv
<1> USE DEF RegistryInit
<1>1. /\ call \in Call /\ call.op = "idle" /\ call.added = {} /\ call.removed = {}
  BY ReturnedCall
<1>2. HeldRoutes = {} /\ HeldAddresses = {}
  BY <1>1 DEF HeldRoutes, HeldAddresses, NewAddress
<1>3. /\ osRoutes \in [Route -> Creator] /\ osAddresses \in [Address -> Creator]
      /\ \A r \in Route : osRoutes[r] # "mesh"
      /\ \A a \in Address : osAddresses[a] # "mesh"
  BY DEF Creator
<1>4. RRTypeOK /\ CallShape
  BY <1>1, <1>3 DEF RRTypeOK, CallShape
<1> QED
  BY <1>1, <1>2, <1>3, <1>4 DEF RRInv, NotTheUsers, RowsLive, TablesExact

\* On fixed interfaces, whatever calls are made and whatever the user edits,
\* the tables are what the registry and the running call hold.
THEOREM ReconcilerInvariant == RRSpec => [](RRInv /\ luids = Luid)
<1>1. RRInit => RRInv /\ luids = Luid
  BY RegistryInitInv DEF RRInit
<1>2. (RRInv /\ luids = Luid) /\ [RRNext]_rrVars => (RRInv /\ luids = Luid)'
  <2> SUFFICES ASSUME RRInv, luids = Luid, [RRNext]_rrVars PROVE RRInv' /\ luids' = Luid
    OBVIOUS
  <2>1. luids' = luids
    BY DEF RRNext, rrVars, StartCall, StartReconcile, StartClear, osVars, ReconcilerStep,
           EnsureOverlayAddress, RemoveStaleRoute, EnsureDesiredRoute, FinishReconcile,
           UndoAddedRoute, UndoRemovedRoute, UndoNewAddress, FinishRollback, ClearRoute,
           FinishClear, UserStep, UserAddsRoute, UserAddsAddress, UserRemovesRoute,
           UserRemovesAddress
  <2>2. CASE StartCall
    <3>1. ASSUME NEW want \in Address, NEW ips \in SUBSET IP,
                 StartReconcile(want, {want[1]} \X ips)
          PROVE  RRInv'
      <4>1. {want[1]} \X ips \in SUBSET Route
        BY DEF Address, Route
      <4> QED
        BY <3>1, <4>1, StartReconcileInv
    <3> QED
      BY <2>1, <2>2, <3>1, StartClearInv DEF StartCall
  <2>3. CASE ReconcilerStep
    BY <2>1, <2>3, ReconcilerStepInv
  <2>4. CASE UserStep
    BY <2>1, <2>4, UserRouteInv, UserAddressInv DEF UserStep
  <2>5. CASE UNCHANGED rrVars
    BY <2>1, <2>5 DEF rrVars, RRInv, RRTypeOK, CallShape, NotTheUsers, RowsLive, TablesExact,
                HeldRoutes, HeldAddresses, NewAddress
  <2> QED
    BY <2>2, <2>3, <2>4, <2>5 DEF RRNext
<1> QED
  BY <1>1, <1>2, PTL DEF RRSpec

\* Between calls, as long as no step of a rollback has failed, the registry is
\* exactly what the reconciler has put in the tables.
THEOREM RegistryExactAlways == RRSpec => []RegistryExact
<1>1. RRInv /\ luids = Luid => RegistryExact
  <2> SUFFICES ASSUME RRInv, luids = Luid, call.op = "idle", ~torn
               PROVE  /\ ownedRoutes = {r \in Route : osRoutes[r] = "mesh"}
                      /\ {a \in Address : osAddresses[a] = "mesh"} = {address} \ {None}
    BY DEF RegistryExact
  <2>1. HeldRoutes = ownedRoutes /\ HeldAddresses = {address} \ {None}
    BY DEF RRInv, CallShape, HeldRoutes, HeldAddresses, NewAddress
  <2>2. ownedRoutes \subseteq Route /\ address \in Address \cup {None}
    BY DEF RRInv, RRTypeOK
  <2>3. (\A r \in Route : r[1] \in luids) /\ (\A a \in Address : a[1] \in luids)
    BY DEF Route, Address
  <2>4. /\ \A r \in Route : osRoutes[r] = "mesh" <=> r \in ownedRoutes
        /\ \A a \in Address : osAddresses[a] = "mesh" <=> a \in {address} \ {None}
    BY <2>1, <2>3 DEF RRInv, TablesExact
  <2> QED
    BY <2>2, <2>4
<1> QED
  BY <1>1, ReconcilerInvariant, PTL

\* No step of the reconciler takes an entry the user made.
LEMMA EntriesKept ==
    ASSUME RRInv, ReconcilerStep
    PROVE  /\ \A r \in Route : osRoutes[r] = "user" => osRoutes'[r] = "user"
           /\ \A a \in Address : osAddresses[a] = "user" => osAddresses'[a] = "user"
<1> USE DEF RRInv
<1>1. /\ osRoutes \in [Route -> Creator] /\ osAddresses \in [Address -> Creator]
      /\ call \in Call /\ address \in Address \cup {None}
  BY DEF RRTypeOK
<1>2. CASE EnsureOverlayAddress
  BY <1>1, <1>2 DEF EnsureOverlayAddress, EnsureEntry
<1>3. ASSUME NEW r \in Route, RemoveStaleRoute(r)
      PROVE  /\ \A s \in Route : osRoutes[s] = "user" => osRoutes'[s] = "user"
             /\ osAddresses' = osAddresses
  BY <1>1, <1>3 DEF RemoveStaleRoute, RemoveEntry, StaleRoutes, NotTheUsers
<1>4. ASSUME NEW r \in Route, EnsureDesiredRoute(r) \/ UndoRemovedRoute(r)
      PROVE  /\ \A s \in Route : osRoutes[s] = "user" => osRoutes'[s] = "user"
             /\ osAddresses' = osAddresses
  BY <1>1, <1>4 DEF EnsureDesiredRoute, UndoRemovedRoute, EnsureEntry
<1>5. CASE FinishReconcile
  <2>1. AddressChanged => address \in Address /\ osAddresses[address] # "user"
    BY <1>1 DEF AddressChanged, NotTheUsers, HeldAddresses
  <2> QED
    BY <1>1, <1>5, <2>1 DEF FinishReconcile, RemoveEntry
<1>6. ASSUME NEW r \in Route, UndoAddedRoute(r) \/ ClearRoute(r)
      PROVE  /\ \A s \in Route : osRoutes[s] = "user" => osRoutes'[s] = "user"
             /\ osAddresses' = osAddresses
  BY <1>1, <1>6 DEF UndoAddedRoute, ClearRoute, RemoveEntry, NotTheUsers
<1>7. CASE UndoNewAddress
  <2>1. call.want \in Address /\ osAddresses[call.want] # "user"
    BY <1>7, NoneIsNoAddress
       DEF UndoNewAddress, NewAddressToUndo, CallShape, NotTheUsers, HeldAddresses, NewAddress, Address
  <2> QED
    BY <1>1, <1>7, <2>1 DEF UndoNewAddress, RemoveEntry
<1>8. CASE FinishRollback
  BY <1>1, <1>8 DEF FinishRollback, EnsureEntry, AddressChanged
<1>9. CASE FinishClear
  <2>1. address # None => address \in Address /\ osAddresses[address] # "user"
    BY <1>1 DEF NotTheUsers, HeldAddresses
  <2> QED
    BY <1>1, <1>9, <2>1 DEF FinishClear, RemoveEntry
<1> QED
  BY <1>2, <1>3, <1>4, <1>5, <1>6, <1>7, <1>8, <1>9 DEF ReconcilerStep

\* An entry the user made is never removed by the reconciler, in success,
\* failure, rollback or Clear.
THEOREM UserEntriesKeptAlways == RRSpec => UserEntriesKept
<1>1. RRInv => (ReconcilerStep =>
        /\ \A r \in Route : osRoutes[r] = "user" => osRoutes'[r] = "user"
        /\ \A a \in Address : osAddresses[a] = "user" => osAddresses'[a] = "user")
  BY EntriesKept
<1> QED
  BY <1>1, ReconcilerInvariant, PTL DEF UserEntriesKept

----------------------------------------------------------------------------
\* What the applier relies on while the reconciler runs.

\* The reconciler makes no entry of the user's.
LEMMA NoUserRowsStep == ASSUME RRInv, NoUserRows, ReconcilerStep PROVE NoUserRows'
<1>1. osRoutes \in [Route -> Creator] /\ osAddresses \in [Address -> Creator] /\ Route = Address
  BY DEF RRInv, RRTypeOK, Route, Address
<1>2. /\ \A r \in Route : osRoutes'[r] \in {osRoutes[r], "absent", "mesh"}
      /\ \A r \in Route : osAddresses'[r] \in {osAddresses[r], "absent", "mesh"}
  <2>1. CASE EnsureOverlayAddress \/ UndoNewAddress \/ FinishRollback \/ FinishClear \/ FinishReconcile
    BY <1>1, <2>1 DEF EnsureOverlayAddress, UndoNewAddress, FinishRollback, FinishClear,
                     FinishReconcile, EnsureEntry, RemoveEntry
  <2>2. ASSUME NEW s \in Route, RemoveStaleRoute(s) \/ EnsureDesiredRoute(s)
                                  \/ UndoAddedRoute(s) \/ UndoRemovedRoute(s) \/ ClearRoute(s)
        PROVE  /\ \A r \in Route : osRoutes'[r] \in {osRoutes[r], "absent", "mesh"}
               /\ \A r \in Route : osAddresses'[r] \in {osAddresses[r], "absent", "mesh"}
    BY <1>1, <2>2 DEF RemoveStaleRoute, EnsureDesiredRoute, UndoAddedRoute, UndoRemovedRoute,
                     ClearRoute, EnsureEntry, RemoveEntry
  <2> QED
    BY <2>1, <2>2 DEF ReconcilerStep
<1> QED
  BY <1>2 DEF NoUserRows

\* An interface that is gone stays gone, and a rollback that failed has failed.
LEMMA ReconcilerFrame == ASSUME ReconcilerStep PROVE luids' = luids
BY DEF ReconcilerStep, EnsureOverlayAddress, RemoveStaleRoute, EnsureDesiredRoute, FinishReconcile,
       UndoAddedRoute, UndoRemovedRoute, UndoNewAddress, FinishRollback, ClearRoute, FinishClear

LEMMA TornStays == ASSUME torn \in BOOLEAN, ReconcilerStep PROVE torn => torn'
BY Zenon
   DEF ReconcilerStep, EnsureOverlayAddress, RemoveStaleRoute, EnsureDesiredRoute, FinishReconcile,
       UndoAddedRoute, UndoRemovedRoute, UndoNewAddress, FinishRollback, ClearRoute, FinishClear

\* Until it succeeds, Reconcile leaves the registry alone.
LEMMA RegistryKept ==
    ASSUME RRInv, ReconcilerStep, call.op # "clear"
    PROVE  \/ address' = address /\ ownedRoutes' = ownedRoutes
           \/ call'.op = "idle" /\ call'.result = "ok"
<1>1. CASE FinishReconcile
  BY <1>1, ReturnedCall DEF FinishReconcile, regVars
<1> QED
  BY <1>1
     DEF ReconcilerStep, EnsureOverlayAddress, RemoveStaleRoute, EnsureDesiredRoute,
         UndoAddedRoute, UndoRemovedRoute, UndoNewAddress, FinishRollback, ClearRoute, FinishClear,
         regVars

\* The reconciler claims entries on the live adapter only.
LEMMA HandlesPastStep ==
    ASSUME RRInv, HandlesPast, ReconcilerStep, next \in Nat, next' = next, luids \subseteq {next - 1}
    PROVE  HandlesPast'
<1> DEFINE Past == 1..(next - 1)
<1>1. \A h \in luids : h \in Past
  BY HandleAssumption DEF RRInv, RRTypeOK
<1>2. /\ \A r \in ownedRoutes \cup call.added : r[1] \in Past
      /\ \A a \in HeldAddresses : a[1] \in Past
  BY DEF HandlesPast
<1>3. call \in Call /\ None \notin Address /\ address \in Address \cup {None}
  BY NoneIsNoAddress DEF RRInv, RRTypeOK, Address
<1> HIDE DEF Past
<1>4. ASSUME ownedRoutes' \cup call'.added \subseteq ownedRoutes \cup call.added \cup {r \in Route : r[1] \in luids},
             HeldAddresses' \subseteq HeldAddresses \cup {a \in Address : a[1] \in luids}
      PROVE  HandlesPast'
  <2>1. /\ \A r \in ownedRoutes' \cup call'.added : r[1] \in Past
        /\ \A a \in HeldAddresses' : a[1] \in Past
    BY <1>1, <1>2, <1>4
  <2> QED
    BY <2>1 DEF HandlesPast, Past
<1>5. CASE EnsureOverlayAddress
  <2>1. /\ ownedRoutes' = ownedRoutes /\ call'.added = {} /\ address' = address
        /\ call.want \in Address
        /\ \/ call'.op = "idle"
           \/ call'.op = "routes" /\ call'.want = call.want /\ call.want[1] \in luids
    BY <1>3, <1>5, ReturnedCall DEF EnsureOverlayAddress, regVars, RRInv, CallShape, Call
  <2> QED
    BY <1>4, <2>1 DEF HeldAddresses, NewAddress
<1>6. ASSUME NEW s \in Route, RemoveStaleRoute(s) \/ EnsureDesiredRoute(s)
                                \/ UndoAddedRoute(s) \/ UndoRemovedRoute(s)
      PROVE  HandlesPast'
  <2>1. /\ ownedRoutes' = ownedRoutes /\ address' = address
        /\ call'.newOwned = call.newOwned /\ call'.want = call.want
        /\ call.op \in {"routes", "undo"} /\ call'.op \in {"routes", "undo"}
    BY <1>3, <1>6 DEF RemoveStaleRoute, EnsureDesiredRoute, UndoAddedRoute, UndoRemovedRoute,
                     regVars, Call
  <2>2. call'.added \subseteq call.added \cup {r \in Route : r[1] \in luids}
    <3>1. CASE EnsureDesiredRoute(s)
      <4>1. \/ call'.added = call.added
            \/ s[1] \in luids /\ call'.added = call.added \cup {s}
        BY <1>3, <3>1 DEF EnsureDesiredRoute, Call
      <4> QED
        BY <4>1
    <3>2. CASE RemoveStaleRoute(s) \/ UndoAddedRoute(s) \/ UndoRemovedRoute(s)
      <4>1. call'.added \subseteq call.added
        BY <1>3, <3>2 DEF RemoveStaleRoute, UndoAddedRoute, UndoRemovedRoute, Call
      <4> QED
        BY <4>1
    <3> QED
      BY <1>6, <3>1, <3>2
  <2>3. HeldAddresses' = HeldAddresses
    BY <2>1 DEF HeldAddresses, NewAddress
  <2> QED
    BY <1>4, <2>1, <2>2, <2>3
<1>7. CASE FinishReconcile
  <2>1. CASE call' = Returned("ok")
    <3>1. call'.op = "idle" /\ call'.added = {} /\ call.op = "routes"
      BY <1>7, <2>1, ReturnedCall DEF FinishReconcile
    <3>2. ownedRoutes' \subseteq ownedRoutes \cup call.added
      BY <1>3, <1>7, <2>1 DEF FinishReconcile, Returned, Call
    <3>3. address' \in {None} \cup NewAddress
      BY <1>3, <1>7, <2>1, <3>1 DEF FinishReconcile, Returned, Call, NewAddress
    <3>4. HeldAddresses' \subseteq HeldAddresses
      BY <3>1, <3>3 DEF HeldAddresses, NewAddress
    <3> QED
      BY <1>4, <3>1, <3>2, <3>4
  <2>2. CASE call' = [call EXCEPT !.op = "undo"] /\ UNCHANGED regVars
    <3>1. /\ ownedRoutes' = ownedRoutes /\ address' = address /\ call'.added = call.added
          /\ call'.newOwned = call.newOwned /\ call'.want = call.want
          /\ call.op \in {"routes", "undo"} /\ call'.op \in {"routes", "undo"}
      BY <1>3, <1>7, <2>2 DEF FinishReconcile, regVars, Call
    <3> QED
      BY <1>4, <3>1 DEF HeldAddresses, NewAddress
  <2> QED
    BY <1>7, <2>1, <2>2 DEF FinishReconcile
<1>8. CASE UndoNewAddress
  <2>1. /\ ownedRoutes' = ownedRoutes /\ address' = address /\ call'.added = call.added
        /\ call'.newOwned = FALSE
    BY <1>3, <1>8 DEF UndoNewAddress, regVars, Call
  <2> QED
    BY <1>4, <2>1 DEF HeldAddresses, NewAddress
<1>9. CASE FinishRollback \/ FinishClear
  <2>1. /\ ownedRoutes' = ownedRoutes /\ address' \in {None, address} /\ call'.added = {}
        /\ call'.op = "idle"
    BY <1>9, ReturnedCall DEF FinishRollback, FinishClear, regVars
  <2> QED
    BY <1>4, <2>1 DEF HeldAddresses, NewAddress
<1>10. ASSUME NEW s \in Route, ClearRoute(s) PROVE HandlesPast'
  <2>1. /\ ownedRoutes' \subseteq ownedRoutes /\ address' = address /\ call'.added = call.added
        /\ call'.op = "clear" /\ call.op = "clear"
    BY <1>3, <1>10 DEF ClearRoute, Call
  <2> QED
    BY <1>4, <2>1 DEF HeldAddresses, NewAddress
<1> QED
  BY <1>5, <1>6, <1>7, <1>8, <1>9, <1>10 DEF ReconcilerStep

\* Routes.Clear in progress.
LEMMA ClearsStep == ASSUME RRInv, ClearsRoutes, ReconcilerStep PROVE ClearsRoutes'
<1>1. call \in Call /\ call.op = "clear"
  BY DEF RRInv, RRTypeOK, ClearsRoutes, ReconcilerStep, EnsureOverlayAddress, RemoveStaleRoute,
         EnsureDesiredRoute, FinishReconcile, UndoAddedRoute, UndoRemovedRoute, UndoNewAddress,
         FinishRollback, ClearRoute, FinishClear
<1>2. ASSUME NEW r \in Route, ClearRoute(r) PROVE call'.op = "clear"
  BY <1>1, <1>2 DEF ClearRoute, Call
<1>3. CASE FinishClear
  <2>1. ~call.failed => ownedRoutes = {}
    BY <1>3 DEF FinishClear, EveryRouteTried, RRInv, CallShape
  <2>2. call'.op = "idle" /\ ownedRoutes' = ownedRoutes
    BY <1>3, ReturnedCall DEF FinishClear
  <2>3. call'.result = "ok" => ~call.failed /\ address' = None
    BY <1>3, ReturnedCall DEF FinishClear
  <2> QED
    BY <2>1, <2>2, <2>3 DEF ClearsRoutes
<1> QED
  BY <1>1, <1>2, <1>3
     DEF ClearsRoutes, ReconcilerStep, EnsureOverlayAddress, RemoveStaleRoute,
         EnsureDesiredRoute, FinishReconcile, UndoAddedRoute, UndoRemovedRoute, UndoNewAddress,
         FinishRollback

\* Reconcile in progress.
LEMMA ReconcilesStep ==
    ASSUME NEW h, NEW g, RRInv, NoUserRows, ReconcilesTo(h, g), ReconcilerStep
    PROVE  ReconcilesTo(h, g)'
<1>1. call \in Call /\ call.op # "clear" /\ call.op # "idle" /\ torn \in BOOLEAN
  BY DEF RRInv, RRTypeOK, ReconcilesTo, ReconcilerStep, EnsureOverlayAddress, RemoveStaleRoute,
         EnsureDesiredRoute, FinishReconcile, UndoAddedRoute, UndoRemovedRoute, UndoNewAddress,
         FinishRollback, ClearRoute, FinishClear
<1>2. call.want = AddressOf(h, g) /\ call.desired = RoutesOf(h, g)
  BY <1>1 DEF ReconcilesTo
<1>3. ~torn' => ~torn
  BY <1>1, TornStays
<1>4. ASSUME call'.op = "undo", call'.want = call.want, call'.desired = call.desired
      PROVE  ReconcilesTo(h, g)'
  BY <1>2, <1>4 DEF ReconcilesTo, AddressOf, RoutesOf
<1>5. ASSUME call'.op = "idle", call'.result = "error" PROVE ReconcilesTo(h, g)'
  BY <1>5 DEF ReconcilesTo
<1>6. CASE EnsureOverlayAddress
  <2>1. CASE call' = Returned("error")
    BY <1>5, <2>1, ReturnedCall
  <2>2. CASE call' = [call EXCEPT !.op = "routes",
                                  !.newOwned = (osAddresses[call.want] = "absent")]
    <3>1. /\ call'.op = "routes" /\ call'.want = call.want /\ call'.desired = call.desired
          /\ call'.done = call.done /\ call'.added = call.added
          /\ call'.newOwned <=> osAddresses[call.want] = "absent"
      BY <1>1, <2>2 DEF Call
    <3>2. ~torn => osAddresses[call.want] = "absent"
      <4>1. HeldAddresses = {address} \ {None} /\ call.want # address /\ call.want \in Address
        BY <1>6 DEF EnsureOverlayAddress, RRInv, CallShape, HeldAddresses, NewAddress
      <4>2. osAddresses[call.want] \in Creator /\ osAddresses[call.want] # "user"
        BY <4>1 DEF RRInv, RRTypeOK, NoUserRows, Route, Address
      <4> QED
        BY <4>1, <4>2 DEF RRInv, TablesExact, Creator
    <3>3. call.op = "address"
      BY <1>6 DEF EnsureOverlayAddress
    <3> QED
      BY <1>2, <1>3, <3>1, <3>2, <3>3 DEF ReconcilesTo, AddressOf, RoutesOf
  <2> QED
    BY <1>6, <2>1, <2>2 DEF EnsureOverlayAddress
<1>7. ASSUME NEW r \in Route, RemoveStaleRoute(r) PROVE ReconcilesTo(h, g)'
  <2>1. CASE call' = [call EXCEPT !.op = "undo"]
    BY <1>1, <1>4, <2>1 DEF Call
  <2>2. CASE call' = [call EXCEPT !.removed = @ \cup {r}]
    <3>1. /\ call'.op = call.op /\ call'.want = call.want /\ call'.desired = call.desired
          /\ call'.done = call.done /\ call'.added = call.added /\ call'.newOwned = call.newOwned
      BY <1>1, <2>2 DEF Call
    <3> QED
      BY <1>1, <1>3, <3>1 DEF ReconcilesTo, AddressOf, RoutesOf
  <2> QED
    BY <1>7, <2>1, <2>2 DEF RemoveStaleRoute
<1>8. ASSUME NEW r \in Route, EnsureDesiredRoute(r) PROVE ReconcilesTo(h, g)'
  <2>1. CASE call' = [call EXCEPT !.op = "undo"]
    BY <1>1, <1>4, <2>1 DEF Call
  <2>2. CASE call' = [call EXCEPT !.done = @ \cup {r},
                        !.added = IF osRoutes[r] = "absent" THEN @ \cup {r} ELSE @]
    <3>1. /\ call'.op = call.op /\ call'.want = call.want /\ call'.desired = call.desired
          /\ call'.done = call.done \cup {r}
          /\ call'.added = call.added \cup (IF osRoutes[r] = "absent" THEN {r} ELSE {})
          /\ call'.newOwned = call.newOwned
      BY <1>1, <2>2 DEF Call
    <3>2. call.op = "routes" /\ r \notin ownedRoutes
      BY <1>8 DEF EnsureDesiredRoute, MissingRoutes
    <3>3. ~torn => osRoutes[r] = "absent" \/ r \in call.added
      <4>1. osRoutes[r] \in Creator /\ osRoutes[r] # "user"
        BY DEF RRInv, RRTypeOK, NoUserRows
      <4> QED
        BY <3>2, <4>1 DEF RRInv, TablesExact, Creator, HeldRoutes
    <3> QED
      BY <1>3, <3>1, <3>2, <3>3 DEF ReconcilesTo, AddressOf, RoutesOf
  <2> QED
    BY <1>8, <2>1, <2>2 DEF EnsureDesiredRoute
<1>9. CASE FinishReconcile
  <2>1. CASE call' = [call EXCEPT !.op = "undo"]
    BY <1>1, <1>4, <2>1 DEF Call
  <2>2. CASE /\ address' = IF call.newOwned THEN call.want ELSE None
             /\ ownedRoutes' = call.added \cup (ownedRoutes \cap call.desired)
             /\ call' = Returned("ok")
    <3>1. call'.op = "idle" /\ call.op = "routes" /\ call.desired \ ownedRoutes \subseteq call.done
      BY <1>9, <2>2, ReturnedCall DEF FinishReconcile, MissingRoutes
    <3>2. ~torn => call.newOwned /\ call.done \subseteq call.added
      BY <3>1 DEF ReconcilesTo
    <3>3. ~torn => address' = AddressOf(h, g) /\ RoutesOf(h, g) \subseteq ownedRoutes'
      BY <1>2, <2>2, <3>1, <3>2
    <3> QED
      BY <1>3, <3>1, <3>3 DEF ReconcilesTo, Registered, AddressOf, RoutesOf
  <2> QED
    BY <1>9, <2>1, <2>2 DEF FinishReconcile
<1>10. ASSUME NEW r \in Route, UndoAddedRoute(r) \/ UndoRemovedRoute(r) PROVE ReconcilesTo(h, g)'
  <2>1. call'.op = "undo" /\ call'.want = call.want /\ call'.desired = call.desired
    BY <1>1, <1>10 DEF UndoAddedRoute, UndoRemovedRoute, Call
  <2> QED
    BY <1>4, <2>1
<1>11. CASE UndoNewAddress
  <2>1. call'.op = "undo" /\ call'.want = call.want /\ call'.desired = call.desired
    BY <1>1, <1>11 DEF UndoNewAddress, Call
  <2> QED
    BY <1>4, <2>1
<1>12. CASE FinishRollback
  BY <1>5, <1>12, ReturnedCall DEF FinishRollback
<1> QED
  BY <1>1, <1>6, <1>7, <1>8, <1>9, <1>10, <1>11, <1>12
     DEF ReconcilerStep, ClearRoute, FinishClear

----------------------------------------------------------------------------
\* The applier.

\* The applier's record is of its type, and no record has generation zero.
RecordTyped ==
    /\ applied \in [handle : Handle, generation : 0..MaxGeneration]
    /\ IF applied.generation = 0 THEN applied = NotApplied ELSE applied.handle \in Luid

\* No call is running and no rollback was torn.
Calm == RRInv /\ NoUserRows /\ call.op = "idle" /\ ~torn /\ RecordTyped

\* A generation's address and routes are of the reconciler's types.
LEMMA PlanTyped ==
    ASSUME NEW h \in Luid, NEW g \in 1..MaxGeneration
    PROVE  AddressOf(h, g) \in Address /\ RoutesOf(h, g) \in SUBSET Route
<1>1. Plan[g] \in [address : IP, peers : SUBSET IP]
  BY PlanAssumption
<1>2. Plan[g].address \in IP /\ Plan[g].peers \subseteq IP
  BY <1>1
<1> QED
  BY <1>2 DEF AddressOf, RoutesOf, Address, Route

\* Between calls what the registry lists of a generation is what the tables
\* have of it.
LEMMA TablesRegistered ==
    ASSUME Calm, NEW h \in luids, NEW g \in 1..MaxGeneration
    PROVE  Registered(h, g) <=>
             /\ osAddresses[AddressOf(h, g)] # "absent"
             /\ \A r \in RoutesOf(h, g) : osRoutes[r] # "absent"
<1>1. h \in Luid /\ AddressOf(h, g) \in Address /\ RoutesOf(h, g) \subseteq Route
  BY PlanTyped DEF Calm, RRInv, RRTypeOK
<1>2. AddressOf(h, g)[1] = h /\ \A r \in RoutesOf(h, g) : r[1] = h
  BY <1>1 DEF AddressOf, RoutesOf
<1>3. HeldRoutes = ownedRoutes /\ HeldAddresses = {address} \ {None}
  BY DEF Calm, RRInv, CallShape, HeldRoutes, HeldAddresses, NewAddress
<1>4. /\ \A r \in Route : r[1] = h => (osRoutes[r] = "mesh" <=> r \in ownedRoutes)
      /\ \A a \in Address : a[1] = h => (osAddresses[a] = "mesh" <=> a = address)
  BY <1>3, NoneIsNoAddress DEF Calm, RRInv, TablesExact, Address
<1>5. /\ \A r \in Route : osRoutes[r] = "mesh" <=> osRoutes[r] # "absent"
      /\ \A a \in Address : osAddresses[a] = "mesh" <=> osAddresses[a] # "absent"
  BY DEF Calm, RRInv, RRTypeOK, NoUserRows, Creator, Route, Address
<1> QED
  BY <1>1, <1>2, <1>4, <1>5 DEF Registered

\* So the plane is in sync exactly when adapter and registry are as recorded.
LEMMA SyncIsHeld == Calm => (InSync <=> RecordHeld)
<1> SUFFICES ASSUME Calm PROVE InSync <=> RecordHeld
  OBVIOUS
<1>1. CASE ~IsApplied
  BY <1>1 DEF InSync, RecordHeld
<1>2. CASE IsApplied
  <2>1. applied.generation \in 1..MaxGeneration
    BY <1>2, PlanAssumption DEF IsApplied, Calm, RecordTyped
  <2>2. CASE applied.handle \in luids
    BY <1>2, <2>1, <2>2, TablesRegistered DEF InSync, RecordHeld, Realises
  <2>3. CASE applied.handle \notin luids
    BY <1>2, <2>3 DEF InSync, RecordHeld, Realises
  <2> QED
    BY <2>2, <2>3
<1> QED
  BY <1>1, <1>2

\* Starting a call moves no table and claims nothing.
LEMMA StartFrame ==
    ASSUME RRInv, NoUserRows, HandlesPast, next' = next, call.op = "idle",
           UNCHANGED <<osVars, regVars, torn>>,
           call'.added = {}, call'.op \in {"routes", "undo"} => call'.want = address
    PROVE  NoUserRows' /\ HandlesPast'
<1>1. UNCHANGED <<osRoutes, osAddresses, address, ownedRoutes>> /\ call.added = {}
  BY DEF osVars, regVars, RRInv, CallShape
<1>2. HeldAddresses' = HeldAddresses
  BY <1>1 DEF HeldAddresses, NewAddress
<1> QED
  BY <1>1, <1>2 DEF NoUserRows, HandlesPast

LEMMA StartReconcileFrame ==
    ASSUME NEW h \in Luid, NEW g \in 1..MaxGeneration, RRInv, NoUserRows, HandlesPast, next' = next,
           StartReconcile(AddressOf(h, g), RoutesOf(h, g))
    PROVE  /\ RRInv' /\ NoUserRows' /\ HandlesPast' /\ ReconcilesTo(h, g)'
           /\ UNCHANGED <<luids, address, ownedRoutes, torn>>
           /\ ~(call'.op = "idle" /\ call'.result = "ok")
<1> DEFINE want == AddressOf(h, g)
           desired == RoutesOf(h, g)
<1>1. want \in Address /\ desired \in SUBSET Route
  BY PlanTyped
<1>2. UNCHANGED <<osVars, regVars, torn>> /\ call.op = "idle"
  BY DEF StartReconcile
<1>3. want' = want /\ desired' = desired
  BY DEF AddressOf, RoutesOf
<1>4. StartReconcile(want, desired)
  OBVIOUS
<1> HIDE DEF want, desired
<1>5. RRInv'
  BY <1>1, <1>4, StartReconcileInv
<1>6. CASE call' = Returned("error")
  <2>1. call'.op = "idle" /\ call'.result = "error" /\ call'.added = {}
    BY <1>6, ReturnedCall
  <2>2. NoUserRows' /\ HandlesPast'
    BY <1>2, <2>1, StartFrame
  <2> QED
    BY <1>2, <1>5, <2>1, <2>2 DEF ReconcilesTo, osVars, regVars
<1>7. CASE call' = [Returned("none") EXCEPT
                      !.op = IF address = want THEN "routes" ELSE "address",
                      !.want = want, !.desired = desired, !.newOwned = (address = want)]
  <2>1. /\ call'.op \in {"address", "routes"} /\ call'.want = want /\ call'.desired = desired
        /\ call'.added = {} /\ call'.done = {}
        /\ call'.op = "routes" => address = want
    BY <1>7 DEF Returned
  <2>2. call'.op = "routes" => call'.newOwned
    BY <1>7 DEF Returned
  <2>3. NoUserRows' /\ HandlesPast'
    BY <1>2, <2>1, StartFrame
  <2>4. ReconcilesTo(h, g)'
    BY <1>3, <2>1, <2>2 DEF ReconcilesTo, want, desired
  <2> QED
    BY <1>2, <1>5, <2>1, <2>3, <2>4 DEF osVars, regVars
<1> QED
  BY <1>4, <1>6, <1>7 DEF StartReconcile

LEMMA StartClearFrame ==
    ASSUME RRInv, NoUserRows, HandlesPast, next' = next, StartClear
    PROVE  /\ RRInv' /\ NoUserRows' /\ HandlesPast' /\ ClearsRoutes'
           /\ UNCHANGED <<luids, torn>>
<1>1. UNCHANGED <<osVars, regVars, torn>> /\ call.op = "idle"
  BY DEF StartClear
<1>2. /\ call'.op \in {"idle", "clear"} /\ call'.added = {} /\ call'.result # "ok"
  BY DEF StartClear, Returned
<1>3. NoUserRows' /\ HandlesPast'
  BY <1>1, <1>2, StartFrame
<1> QED
  BY <1>1, <1>2, <1>3, StartClearInv DEF ClearsRoutes, osVars

\* Adapter calls leave the reconciler alone.
LEMMA SameTables ==
    ASSUME Inv, UNCHANGED rrVars, next' = next
    PROVE  RRInv' /\ NoUserRows' /\ HandlesPast'
BY DEF Inv, rrVars, RRInv, RRTypeOK, CallShape, NotTheUsers, RowsLive, TablesExact,
       HeldRoutes, HeldAddresses, NewAddress, NoUserRows, HandlesPast

\* Client.Delete takes the adapter's rows with it.
LEMMA DeleteTables ==
    ASSUME Inv, NEW h, DeleteAdapter(h), call.op = "idle"
    PROVE  RRInv' /\ NoUserRows' /\ HandlesPast' /\ luids' = {}
<1>1. /\ luids' = {} /\ UNCHANGED <<address, ownedRoutes, call, torn, next>>
  BY DEF DeleteAdapter, Inv, TypeOK, regVars
<1>2. /\ \A r \in Route : r[1] \notin luids => osRoutes[r] = "absent" /\ osAddresses[r] = "absent"
      /\ luids = {h} /\ Route = Address
  BY DEF Inv, RRInv, RowsLive, TypeOK, DeleteAdapter, Route, Address
<1>3. /\ \A r \in Route : osRoutes'[r] = "absent"
      /\ \A a \in Address : osAddresses'[a] = "absent"
  BY <1>2 DEF DeleteAdapter
<1>4. osRoutes' \in [Route -> Creator] /\ osAddresses' \in [Address -> Creator]
  BY DEF DeleteAdapter, Inv, RRInv, RRTypeOK, Creator
<1>5. HeldRoutes' = HeldRoutes /\ HeldAddresses' = HeldAddresses
  BY <1>1 DEF HeldRoutes, HeldAddresses, NewAddress
<1>6. RRTypeOK' /\ CallShape'
  BY <1>1, <1>4 DEF Inv, RRInv, RRTypeOK, CallShape
<1>7. NoUserRows' /\ HandlesPast'
  BY <1>1, <1>2, <1>3, <1>5 DEF NoUserRows, HandlesPast, Inv
<1>8. NotTheUsers'
  <2>1. ownedRoutes \cup call.added \subseteq Route /\ HeldAddresses \subseteq Address
    BY DEF Inv, RRInv, RRTypeOK, CallShape, HeldAddresses, NewAddress
  <2> QED
    BY <1>1, <1>3, <1>5, <2>1 DEF NotTheUsers
<1>9. RowsLive' /\ TablesExact'
  BY <1>1, <1>2, <1>3 DEF RowsLive, TablesExact
<1> QED
  BY <1>1, <1>6, <1>7, <1>8, <1>9 DEF RRInv

\* Client.Ensure: a new adapter has no rows and nothing claims any on it.
LEMMA EnsureTables ==
    ASSUME Inv, EnsureAdapter, UNCHANGED <<osRoutes, osAddresses, regVars, call, torn>>
    PROVE  /\ RRInv' /\ NoUserRows' /\ HandlesPast'
           /\ next' \in Nat /\ luids' = {next' - 1} /\ next' - 1 \in Luid
<1>1. UNCHANGED <<osRoutes, osAddresses, address, ownedRoutes, call, torn>>
  BY DEF regVars
<1>2. HeldRoutes' = HeldRoutes /\ HeldAddresses' = HeldAddresses
  BY <1>1 DEF HeldRoutes, HeldAddresses, NewAddress
<1>3. next \in Nat /\ luids \subseteq {next - 1} /\ luids \subseteq Luid
  BY DEF Inv, TypeOK, RRTypeOK
<1>4. CASE luids # {} /\ UNCHANGED <<luids, next, wgUp>>
  <2>1. RRInv' /\ NoUserRows' /\ HandlesPast'
    BY <1>4, <1>1, SameTables DEF rrVars
  <2> QED
    BY <1>3, <1>4, <2>1
<1>5. CASE luids = {} /\ next \in Luid /\ luids' = {next} /\ next' = next + 1
  <2>1. RRTypeOK' /\ CallShape' /\ NotTheUsers' /\ RowsLive' /\ NoUserRows'
    BY <1>1, <1>2, <1>5 DEF Inv, RRInv, RRTypeOK, CallShape, NotTheUsers, RowsLive, NoUserRows
  <2>2. /\ \A r \in ownedRoutes \cup call.added : r[1] \in 1..(next - 1)
        /\ \A a \in HeldAddresses : a[1] \in 1..(next - 1)
    BY DEF Inv, HandlesPast
  <2>3. HandlesPast'
    BY <1>1, <1>2, <1>3, <1>5, <2>2 DEF HandlesPast
  <2>4. /\ \A r \in Route : osRoutes[r] = "absent"
        /\ \A a \in Address : osAddresses[a] = "absent"
    BY <1>5 DEF Inv, RRInv, RowsLive, Route, Address
  <2>5. /\ \A r \in HeldRoutes : r[1] # next
        /\ \A a \in HeldAddresses : a[1] # next
    BY <1>3, <2>2 DEF HeldRoutes
  <2>6. TablesExact'
    BY <1>1, <1>2, <1>5, <2>4, <2>5 DEF TablesExact
  <2> QED
    BY <1>3, <1>5, <2>1, <2>3, <2>6 DEF RRInv
<1> QED
  BY <1>4, <1>5 DEF EnsureAdapter

\* The fields of the running operation, and of one that moves on or fails.
LEMMA OperationMoved ==
    ASSUME NEW a \in Operation, NEW p \in PC
    PROVE  /\ [a EXCEPT !.pc = p] \in Operation
           /\ [a EXCEPT !.pc = p].pc = p /\ [a EXCEPT !.pc = p].gen = a.gen
           /\ [a EXCEPT !.pc = p].handle = a.handle /\ [a EXCEPT !.pc = p].faults = a.faults
           /\ [a EXCEPT !.pc = p].failed = a.failed /\ [a EXCEPT !.pc = p].sound = a.sound
BY DEF Operation

LEMMA OperationFaulted ==
    ASSUME NEW a \in Operation
    PROVE  /\ Fault(a) \in Operation
           /\ Fault(a).pc = a.pc /\ Fault(a).gen = a.gen /\ Fault(a).handle = a.handle
           /\ Fault(a).failed = a.failed /\ Fault(a).sound = a.sound
           /\ Fault(a).faults \in 1..2 /\ (a.faults > 0 => Fault(a).faults = 2)
<1>1. a.faults \in 0..2
  BY DEF Operation
<1> QED
  BY <1>1 DEF Operation, Fault

LEMMA OutcomeTyped ==
    ASSUME NEW op \in {"none", "apply", "clear"}, NEW gen \in 0..MaxGeneration,
           NEW result \in {"ok", "error"}, NEW effective \in BOOLEAN,
           NEW faults \in 0..2, NEW sound \in BOOLEAN
    PROVE  [op |-> op, gen |-> gen, result |-> result, effective |-> effective,
            faults |-> faults, sound |-> sound] \in Outcome
BY DEF Outcome

LEMMA IdleTyped == Idle \in Operation /\ Idle.pc = "idle"
BY PlanAssumption DEF Idle, Operation, PC, Handle

\* An operation has returned.
LEMMA SettledShape ==
    ASSUME ap' = Idle, call'.op = "idle", RecordTyped'
    PROVE  ApplierShape' /\ ApplierProgress' /\ StillHeld'
<1>1. ap'.pc = "idle"
  BY IdleTyped
<1> QED
  BY <1>1 DEF ApplierShape, ApplierProgress, StillHeld, RecordTyped, Applying, Undoing,
              Dropping, Clearing

\* The same machine and the same record are as much in sync.
LEMMA SameSync ==
    ASSUME UNCHANGED <<luids, osRoutes, osAddresses, wgUp, wgConfig, applied>>
    PROVE  InSync' <=> InSync
BY DEF InSync, IsApplied, Realises, AddressOf, RoutesOf, NotApplied

\* A step of the running Reconcile or Routes.Clear.
LEMMA RoutesStepInv == ASSUME Inv, RoutesStep PROVE Inv'
<1>1. ReconcilerStep /\ UNCHANGED <<next, wgUp, wgConfig, applied, ap, last>>
  BY DEF RoutesStep, wgVars
<1>2. /\ RRInv /\ NoUserRows /\ HandlesPast /\ ApplierShape /\ ApplierProgress /\ StillHeld
      /\ next \in Nat /\ luids \subseteq {next - 1} /\ torn \in BOOLEAN
  BY DEF Inv, TypeOK, RRTypeOK
<1>3. call.op # "idle"
  BY <1>1 DEF ReconcilerStep, EnsureOverlayAddress, RemoveStaleRoute, EnsureDesiredRoute,
       FinishReconcile, UndoAddedRoute, UndoRemovedRoute, UndoNewAddress, FinishRollback,
       ClearRoute, FinishClear
<1>4. ap.pc \in {"routes", "undoConfigure", "dropDown", "clearDown"}
  BY <1>2, <1>3 DEF ApplierShape
<1>5. luids' = luids /\ (~torn' => ~torn)
  BY <1>1, <1>2, ReconcilerFrame, TornStays
<1>6. RRInv' /\ NoUserRows' /\ HandlesPast'
  BY <1>1, <1>2, ReconcilerStepInv, NoUserRowsStep, HandlesPastStep
<1>7. TypeOK'
  BY <1>1, <1>5, <1>6 DEF Inv, TypeOK, RRInv
<1>8. ap.pc = "routes" => ReconcilesTo(ap.handle, ap.gen)'
  <2>1. PICK h, g : h = ap.handle /\ g = ap.gen
    OBVIOUS
  <2>2. ap.pc = "routes" => ReconcilesTo(h, g)
    BY <1>2, <2>1 DEF ApplierShape
  <2>3. ap.pc = "routes" => ReconcilesTo(h, g)'
    BY <1>1, <1>2, <2>2, ReconcilesStep
  <2> QED
    BY <1>1, <2>1, <2>3
<1>9. ap.pc = "undoConfigure" => ReconcilesTo(applied.handle, applied.generation)'
  <2>1. PICK h, g : h = applied.handle /\ g = applied.generation
    OBVIOUS
  <2>2. ap.pc = "undoConfigure" => ReconcilesTo(h, g)
    BY <1>2, <2>1 DEF ApplierShape
  <2>3. ap.pc = "undoConfigure" => ReconcilesTo(h, g)'
    BY <1>1, <1>2, <2>2, ReconcilesStep
  <2> QED
    BY <1>1, <2>1, <2>3
<1>10. ap.pc \in {"dropDown", "clearDown"} => ClearsRoutes'
  BY <1>1, <1>2, ClearsStep DEF ApplierShape
<1>11. ApplierShape'
  BY <1>1, <1>2, <1>4, <1>5, <1>8, <1>9, <1>10 DEF ApplierShape
<1>12. ApplierProgress'
  BY <1>1, <1>2, <1>4 DEF ApplierProgress
<1>13. StillHeld'
  <2> SUFFICES ASSUME ap.sound, ~torn', ap.pc = "routes",
                      ~(call'.op = "idle" /\ call'.result = "ok")
               PROVE  RecordHeld'
    BY <1>1, <1>4 DEF StillHeld
  <2>1. RecordHeld
    BY <1>2, <1>3, <1>5 DEF StillHeld
  <2>2. call.op # "clear"
    BY <1>2 DEF ApplierShape, ReconcilesTo
  <2>3. address' = address /\ ownedRoutes' = ownedRoutes
    BY <1>1, <1>2, <2>2, RegistryKept
  <2> QED
    BY <1>1, <1>5, <2>1, <2>3 DEF RecordHeld, IsApplied, Registered, AddressOf, RoutesOf, NotApplied
<1>14. ApplyRealises' /\ ClearRemovesAll' /\ OneFaultRestores'
  BY <1>1, <1>4 DEF ApplyRealises, ClearRemovesAll, OneFaultRestores, Settled
<1> QED
  BY <1>6, <1>7, <1>11, <1>12, <1>13, <1>14 DEF Inv

\* What the applier's actions take from the invariant.
LEMMA InvFacts ==
    ASSUME Inv
    PROVE  /\ RRInv /\ NoUserRows /\ HandlesPast /\ RecordTyped
           /\ ApplierShape /\ ApplierProgress /\ StillHeld
           /\ next \in Nat /\ wgUp \in BOOLEAN /\ wgConfig \in 0..MaxGeneration
           /\ luids \subseteq {next - 1} /\ luids \subseteq Luid
           /\ ap \in Operation /\ last \in Outcome
           /\ ap.gen \in 0..MaxGeneration /\ ap.handle \in Handle /\ ap.faults \in 0..2
           /\ ap.failed \in BOOLEAN /\ ap.sound \in BOOLEAN
BY DEF Inv, TypeOK, RRTypeOK, Operation, RecordTyped, ApplierShape

\* A call returns and leaves the machine and the record as they are.
LEMMA ReturnsAsBefore ==
    ASSUME Inv, call.op = "idle", ap' = Idle, UNCHANGED <<rrVars, wgVars, applied>>,
           last' \in Outcome,
           last'.effective => /\ last'.result = "error"
                              /\ (last'.op = "apply" /\ last'.faults = 1 /\ last'.sound /\ ~torn)
                                    => InSync
    PROVE  Inv'
<1>1. /\ UNCHANGED <<luids, osRoutes, osAddresses, address, ownedRoutes, call, torn>>
      /\ UNCHANGED <<next, wgUp, wgConfig>>
  BY DEF rrVars, wgVars
<1>2. RRInv' /\ NoUserRows' /\ HandlesPast'
  BY <1>1, SameTables
<1>3. TypeOK' /\ RecordTyped'
  BY <1>1, <1>2, IdleTyped, InvFacts DEF Inv, TypeOK, RRInv, RecordTyped
<1>4. ApplierShape' /\ ApplierProgress' /\ StillHeld'
  BY <1>1, <1>3, SettledShape
<1>5. InSync' <=> InSync
  BY <1>1, SameSync
<1>6. ApplyRealises' /\ ClearRemovesAll'
  BY DEF ApplyRealises, ClearRemovesAll
<1>7. OneFaultRestores'
  BY <1>1, <1>5 DEF OneFaultRestores
<1> QED
  BY <1>2, <1>3, <1>4, <1>6, <1>7 DEF Inv

LEMMA ReturnsNothingDone ==
    ASSUME Inv,
           \/ \E op \in {"apply", "clear"} : Cancelled(op)
           \/ \E g \in 1..MaxGeneration : ApplyNotNewer(g)
           \/ ClearNothing
    PROVE  Inv'
<1>1. ap.pc = "idle" /\ ap' = Idle /\ UNCHANGED <<rrVars, wgVars, applied>>
  BY DEF Cancelled, ApplyNotNewer, ClearNothing, Return, ReturnFault
<1>2. call.op = "idle"
  BY <1>1, InvFacts DEF ApplierShape
<1>3. 0 \in 0..MaxGeneration /\ 1..MaxGeneration \subseteq 0..MaxGeneration
  BY PlanAssumption
<1>4. /\ ap.faults \in 0..2 /\ ap.sound \in BOOLEAN /\ Fault(ap).faults \in 0..2
      /\ ap \in Operation
  BY InvFacts, OperationFaulted
<1>5. last' \in Outcome /\ last'.effective = FALSE
  <2>1. ASSUME NEW op \in {"apply", "clear"}, Cancelled(op)
        PROVE  last' \in Outcome /\ last'.effective = FALSE
    BY <1>3, <1>4, <2>1, OutcomeTyped DEF Cancelled, ReturnFault
  <2>2. ASSUME NEW g \in 1..MaxGeneration, ApplyNotNewer(g)
        PROVE  last' \in Outcome /\ last'.effective = FALSE
    BY <1>3, <1>4, <2>2, OutcomeTyped DEF ApplyNotNewer, Return
  <2>3. CASE ClearNothing
    BY <1>3, <1>4, <2>3, OutcomeTyped DEF ClearNothing, Return
  <2> QED
    BY <2>1, <2>2, <2>3
<1> QED
  BY <1>1, <1>2, <1>5, ReturnsAsBefore

\* Ensure.
LEMMA ApplyEnsureInv ==
    ASSUME Inv, NEW g \in 1..MaxGeneration, ApplyEnsure(g) PROVE Inv'
<1>1. /\ ap.pc = "idle" /\ g > applied.generation
      /\ UNCHANGED <<osRoutes, osAddresses, address, ownedRoutes, call, torn, wgConfig, applied>>
  BY DEF ApplyEnsure, Newer, regVars
<1>2. call.op = "idle"
  BY <1>1, InvFacts DEF ApplierShape
<1>3. g \in 0..MaxGeneration /\ InSync \in BOOLEAN
  BY PlanAssumption DEF InSync
<1>4. CASE /\ ap' = Idle
           /\ last' = [op |-> "apply", gen |-> g, result |-> "error", effective |-> TRUE,
                       faults |-> 1, sound |-> InSync]
           /\ UNCHANGED <<luids, next, wgUp>>
  <2>1. [op |-> "apply", gen |-> g, result |-> "error", effective |-> TRUE,
         faults |-> 1, sound |-> TRUE] \in Outcome
    BY <1>3 DEF Outcome
  <2>2. [op |-> "apply", gen |-> g, result |-> "error", effective |-> TRUE,
         faults |-> 1, sound |-> FALSE] \in Outcome
    BY <1>3 DEF Outcome
  <2>3. last' \in Outcome
    BY <1>3, <1>4, <2>1, <2>2, Zenon
  <2>4. last'.result = "error" /\ (last'.sound => InSync)
    BY <1>4
  <2> QED
    BY <1>1, <1>2, <1>4, <2>3, <2>4, ReturnsAsBefore DEF rrVars, wgVars
<1>5. CASE /\ EnsureAdapter
           /\ ap' = [Idle EXCEPT !.pc = "status", !.gen = g, !.sound = InSync,
                                 !.handle = CHOOSE h \in luids' : TRUE]
           /\ UNCHANGED last
  <2>1. /\ RRInv' /\ NoUserRows' /\ HandlesPast'
        /\ next' \in Nat /\ luids' = {next' - 1} /\ next' - 1 \in Luid
    BY <1>1, <1>5, EnsureTables DEF regVars
  <2>2. (CHOOSE h \in luids' : TRUE) = next' - 1
    BY <2>1
  <2>3. /\ ap'.pc = "status" /\ ap'.gen = g /\ ap'.handle = next' - 1 /\ ap'.faults = 0
        /\ (ap'.sound <=> InSync)
    BY <1>5, <2>2 DEF Idle
  <2>4. ap' \in Operation
    <3>1. PICK h \in Handle : h = next' - 1
      BY <2>1 DEF Handle
    <3>2. [Idle EXCEPT !.pc = "status", !.gen = g, !.sound = TRUE, !.handle = h] \in Operation
      BY <1>3, IdleTyped DEF Operation, PC
    <3>3. [Idle EXCEPT !.pc = "status", !.gen = g, !.sound = FALSE, !.handle = h] \in Operation
      BY <1>3, IdleTyped DEF Operation, PC
    <3>4. InSync = TRUE \/ InSync = FALSE
      BY <1>3, Zenon
    <3> QED
      BY <1>5, <2>2, <3>1, <3>2, <3>3, <3>4, Zenon
  <2>5. wgUp' \in BOOLEAN
    BY <1>5, InvFacts, Zenon DEF EnsureAdapter
  <2>6. TypeOK'
    BY <1>1, <1>5, <2>1, <2>4, <2>5 DEF Inv, TypeOK, RRInv
  <2>7. ApplierShape'
    BY <1>1, <1>2, <2>1, <2>3, InvFacts DEF ApplierShape, RecordTyped, Applying, Undoing, Dropping, Clearing
  <2>8. ApplierProgress'
    BY <2>3 DEF ApplierProgress
  <2>9. StillHeld'
    <3> SUFFICES ASSUME ap'.sound, ~torn PROVE RecordHeld'
      BY <1>1 DEF StillHeld
    <3>1. Calm
      BY <1>2, InvFacts DEF Calm
    <3>2. RecordHeld
      BY <2>3, <3>1, SyncIsHeld
    <3>3. IsApplied => luids' = luids /\ wgUp' = wgUp
      BY <1>5, <3>2 DEF RecordHeld, EnsureAdapter
    <3> QED
      BY <1>1, <3>2, <3>3 DEF RecordHeld, IsApplied, Registered, AddressOf, RoutesOf, NotApplied
  <2>10. ApplyRealises' /\ ClearRemovesAll' /\ OneFaultRestores'
    BY <2>3 DEF ApplyRealises, ClearRemovesAll, OneFaultRestores, Settled
  <2> QED
    BY <2>1, <2>6, <2>7, <2>8, <2>9, <2>10 DEF Inv
<1> QED
  BY <1>4, <1>5 DEF ApplyEnsure

\* Status, and the start of Reconcile.
LEMMA ApplyStatusInv == ASSUME Inv, ApplyStatus PROVE Inv'
<1>1. ap.pc = "status" /\ UNCHANGED <<next, wgUp, wgConfig, applied>>
  BY DEF ApplyStatus, wgVars
<1>2. /\ call.op = "idle" /\ ap.gen \in 1..MaxGeneration /\ ap.gen > applied.generation
      /\ luids = {ap.handle} /\ ap.handle \in Luid
  BY <1>1, InvFacts DEF ApplierShape, Applying
<1>3. CASE ReturnFault("apply", ap.gen, TRUE) /\ UNCHANGED rrVars
  <2>1. Fault(ap).faults \in 0..2
    BY InvFacts, OperationFaulted
  <2>2. last' \in Outcome /\ last'.result = "error" /\ last'.sound = ap.sound
    BY <1>3, <2>1, InvFacts, OutcomeTyped DEF ReturnFault
  <2>3. ap.sound /\ ~torn => InSync
    <3> SUFFICES ASSUME ap.sound, ~torn PROVE InSync
      OBVIOUS
    <3>1. RecordHeld
      BY <1>1, InvFacts DEF StillHeld
    <3>2. Calm
      BY <1>2, InvFacts DEF Calm
    <3> QED
      BY <3>1, <3>2, SyncIsHeld
  <2> QED
    BY <1>1, <1>2, <1>3, <2>2, <2>3, ReturnsAsBefore DEF ReturnFault, wgVars
<1>4. CASE /\ StartReconcile(AddressOf(ap.handle, ap.gen), RoutesOf(ap.handle, ap.gen))
           /\ ap' = [ap EXCEPT !.pc = "routes"]
           /\ UNCHANGED last
  <2>1. PICK h, g : h = ap.handle /\ g = ap.gen
    OBVIOUS
  <2>2. StartReconcile(AddressOf(h, g), RoutesOf(h, g)) /\ h \in Luid /\ g \in 1..MaxGeneration
    BY <1>2, <1>4, <2>1
  <2>3. /\ RRInv' /\ NoUserRows' /\ HandlesPast' /\ ReconcilesTo(h, g)'
        /\ UNCHANGED <<luids, address, ownedRoutes, torn>>
        /\ ~(call'.op = "idle" /\ call'.result = "ok")
    BY <1>1, <2>2, InvFacts, StartReconcileFrame
  <2>4. /\ ap' \in Operation /\ ap'.pc = "routes" /\ ap'.gen = ap.gen
        /\ ap'.handle = ap.handle /\ ap'.sound = ap.sound
    BY <1>4, InvFacts, OperationMoved DEF PC
  <2>5. TypeOK'
    BY <1>1, <1>4, <2>3, <2>4 DEF Inv, TypeOK, RRInv
  <2>6. ApplierShape'
    <3>1. ReconcilesTo(ap.handle, ap.gen)'
      BY <2>1, <2>3, <2>4
    <3> QED
      BY <1>1, <1>2, <2>3, <2>4, <3>1, InvFacts
         DEF ApplierShape, Applying, Undoing, Dropping, Clearing
  <2>7. ApplierProgress'
    BY <2>4 DEF ApplierProgress
  <2>8. StillHeld'
    <3> SUFFICES ASSUME ap.sound, ~torn PROVE RecordHeld'
      BY <2>3, <2>4 DEF StillHeld
    <3>1. RecordHeld
      BY <1>1, InvFacts DEF StillHeld
    <3> QED
      BY <1>1, <2>3, <3>1 DEF RecordHeld, IsApplied, Registered, AddressOf, RoutesOf, NotApplied
  <2>9. ApplyRealises' /\ ClearRemovesAll' /\ OneFaultRestores'
    BY <2>4 DEF ApplyRealises, ClearRemovesAll, OneFaultRestores, Settled
  <2> QED
    BY <2>3, <2>5, <2>6, <2>7, <2>8, <2>9 DEF Inv
<1> QED
  BY <1>3, <1>4 DEF ApplyStatus

\* An adapter call moves the operation on.
LEMMA MovesOn ==
    ASSUME Inv, UNCHANGED rrVars, UNCHANGED <<next, applied, last>>, wgUp' \in BOOLEAN,
           wgConfig' \in 0..MaxGeneration, ap' \in Operation, ap'.pc # "idle",
           ApplierShape', ApplierProgress', StillHeld'
    PROVE  Inv'
<1>1. RRInv' /\ NoUserRows' /\ HandlesPast'
  BY SameTables
<1>2. TypeOK'
  BY <1>1 DEF Inv, TypeOK, RRInv, rrVars
<1>3. ApplyRealises' /\ ClearRemovesAll' /\ OneFaultRestores'
  BY DEF ApplyRealises, ClearRemovesAll, OneFaultRestores, Settled
<1> QED
  BY <1>1, <1>2, <1>3 DEF Inv

\* Reconcile returned.
LEMMA ApplyRoutesDoneInv == ASSUME Inv, ApplyRoutesDone PROVE Inv'
<1>1. /\ ap.pc = "routes" /\ call.op = "idle"
      /\ UNCHANGED rrVars /\ UNCHANGED <<next, wgUp, wgConfig, applied>>
  BY DEF ApplyRoutesDone, wgVars
<1>2. /\ ap.gen \in 1..MaxGeneration /\ ap.gen > applied.generation
      /\ luids = {ap.handle} /\ ReconcilesTo(ap.handle, ap.gen)
  BY <1>1, InvFacts DEF ApplierShape, Applying
<1>3. CASE call.result # "ok" /\ ReturnFault("apply", ap.gen, TRUE)
  <2>1. Fault(ap).faults \in 0..2
    BY InvFacts, OperationFaulted
  <2>2. last' \in Outcome /\ last'.result = "error" /\ last'.sound = ap.sound
    BY <1>3, <2>1, InvFacts, OutcomeTyped DEF ReturnFault
  <2>3. ap.sound /\ ~torn => InSync
    <3> SUFFICES ASSUME ap.sound, ~torn PROVE InSync
      OBVIOUS
    <3>1. RecordHeld
      BY <1>1, <1>3, InvFacts DEF StillHeld
    <3>2. Calm
      BY <1>1, InvFacts DEF Calm
    <3> QED
      BY <3>1, <3>2, SyncIsHeld
  <2> QED
    BY <1>1, <1>3, <2>2, <2>3, ReturnsAsBefore DEF ReturnFault, wgVars
<1>4. CASE call.result = "ok" /\ ap' = [ap EXCEPT !.pc = "configure"] /\ UNCHANGED last
  <2>1. /\ ap' \in Operation /\ ap'.pc = "configure" /\ ap'.gen = ap.gen
        /\ ap'.handle = ap.handle
    BY <1>4, InvFacts, OperationMoved DEF PC
  <2>2. ~torn => Registered(ap.handle, ap.gen)
    BY <1>1, <1>2, <1>4 DEF ReconcilesTo
  <2>3. ApplierShape'
    BY <1>1, <1>2, <2>1, InvFacts
       DEF ApplierShape, Applying, Undoing, Dropping, Clearing, rrVars
  <2>4. ApplierProgress'
    BY <1>1, <2>1, <2>2 DEF ApplierProgress, Registered, AddressOf, RoutesOf, rrVars
  <2>5. StillHeld'
    BY <2>1 DEF StillHeld
  <2> QED
    BY <1>1, <1>4, <2>1, <2>3, <2>4, <2>5, InvFacts, MovesOn
<1> QED
  BY <1>3, <1>4 DEF ApplyRoutesDone

\* Configure or SetUp failed: rollback, which depends on the record.
LEMMA RollbackInv ==
    ASSUME Inv, ap.pc \in {"configure", "setup"}, ap' = Rollback(ap),
           UNCHANGED <<rrVars, wgVars, applied, last>>
    PROVE  Inv'
<1>1. /\ UNCHANGED <<next, wgUp, wgConfig>> /\ call.op = "idle"
      /\ ap.gen \in 1..MaxGeneration /\ ap.gen > applied.generation /\ luids = {ap.handle}
      /\ UNCHANGED <<luids, call>>
  BY InvFacts DEF ApplierShape, Applying, wgVars, rrVars
<1>2. IsApplied <=> applied.generation # 0
  BY InvFacts DEF IsApplied, RecordTyped, NotApplied
<1>3. /\ ap' \in Operation /\ ap'.pc = (IF IsApplied THEN "undoRoutes" ELSE "dropRoutes")
      /\ ap'.gen = ap.gen /\ ap'.handle = ap.handle /\ ap'.faults \in 1..2
  <2>1. PICK p \in PC : p = (IF IsApplied THEN "undoRoutes" ELSE "dropRoutes")
    BY DEF PC
  <2>2. Fault(ap) \in Operation /\ ap' = [Fault(ap) EXCEPT !.pc = p]
    BY <2>1, InvFacts, OperationFaulted DEF Rollback
  <2> QED
    BY <2>1, <2>2, InvFacts, OperationFaulted, OperationMoved
<1>4. ApplierShape'
  BY <1>1, <1>2, <1>3, InvFacts, PlanAssumption
     DEF ApplierShape, RecordTyped, Applying, Undoing, Dropping, Clearing
<1>5. ApplierProgress' /\ StillHeld'
  BY <1>3 DEF ApplierProgress, StillHeld
<1> QED
  BY <1>1, <1>3, <1>4, <1>5, InvFacts, MovesOn

LEMMA ApplyConfigureInv == ASSUME Inv, ApplyConfigure PROVE Inv'
<1>1. /\ ap.pc = "configure" /\ UNCHANGED rrVars /\ UNCHANGED <<next, wgUp, applied, last>>
  BY DEF ApplyConfigure
<1>2. CASE ap' = Rollback(ap) /\ UNCHANGED wgConfig
  BY <1>1, <1>2, RollbackInv DEF wgVars
<1>3. CASE ap' = [ap EXCEPT !.pc = "setup"] /\ wgConfig' = ap.gen
  <2>1. /\ ap' \in Operation /\ ap'.pc = "setup" /\ ap'.gen = ap.gen /\ ap'.handle = ap.handle
    BY <1>3, InvFacts, OperationMoved DEF PC
  <2>2. ApplierShape'
    BY <1>1, <2>1, InvFacts DEF ApplierShape, Applying, Undoing, Dropping, Clearing, rrVars
  <2>3. ApplierProgress'
    BY <1>1, <1>3, <2>1, InvFacts DEF ApplierProgress, Registered, AddressOf, RoutesOf, rrVars
  <2>4. StillHeld'
    BY <2>1 DEF StillHeld
  <2> QED
    BY <1>1, <1>3, <2>1, <2>2, <2>3, <2>4, InvFacts, MovesOn
<1> QED
  BY <1>2, <1>3 DEF ApplyConfigure

\* SetUp: Apply has succeeded and the snapshot is recorded.
LEMMA ApplySetUpInv == ASSUME Inv, ApplySetUp PROVE Inv'
<1>1. ap.pc = "setup" /\ UNCHANGED rrVars /\ UNCHANGED <<next, wgConfig>>
  BY DEF ApplySetUp
<1>2. CASE ap' = Rollback(ap) /\ UNCHANGED <<wgUp, applied, last>>
  BY <1>1, <1>2, RollbackInv DEF wgVars
<1>3. CASE /\ wgUp' = TRUE
           /\ applied' = [handle |-> ap.handle, generation |-> ap.gen]
           /\ Return("apply", ap.gen, "ok", TRUE)
  <2>1. /\ call.op = "idle" /\ ap.gen \in 1..MaxGeneration /\ luids = {ap.handle}
        /\ ap.handle \in Luid /\ wgConfig = ap.gen
        /\ (~torn => Registered(ap.handle, ap.gen))
    BY <1>1, InvFacts DEF ApplierShape, ApplierProgress, Applying
  <2>2. UNCHANGED <<luids, osRoutes, osAddresses, address, ownedRoutes, call, torn>>
    BY <1>1 DEF rrVars
  <2>3. RRInv' /\ NoUserRows' /\ HandlesPast'
    BY <1>1, SameTables
  <2>4. RecordTyped'
    BY <1>3, <2>1 DEF RecordTyped, Handle
  <2>5. ap' = Idle /\ last' \in Outcome /\ last'.op = "apply" /\ last'.result = "ok" /\ last'.gen = ap.gen
    BY <1>3, InvFacts, OutcomeTyped DEF Return
  <2>6. TypeOK'
    BY <1>1, <1>3, <2>2, <2>3, <2>4, <2>5, IdleTyped DEF Inv, TypeOK, RRInv, RecordTyped
  <2>7. ApplierShape' /\ ApplierProgress' /\ StillHeld'
    BY <2>1, <2>2, <2>4, <2>5, SettledShape
  <2>8. ~torn' => InSync'
    <3>1. Calm' => (InSync' <=> RecordHeld')
      BY SyncIsHeld, PTL
    <3>2. ~torn' => Calm'
      BY <2>1, <2>2, <2>3, <2>4 DEF Calm
    <3>3. ~torn' => Registered(ap.handle, ap.gen)
      BY <2>1, <2>2
    <3>4. ~torn' => RecordHeld'
      BY <1>1, <1>3, <2>1, <2>2, <3>3 DEF RecordHeld, Registered, AddressOf, RoutesOf
    <3> QED
      BY <3>1, <3>2, <3>4
  <2>9. ApplyRealises'
    BY <1>3, <2>5, <2>8 DEF ApplyRealises
  <2>10. ClearRemovesAll' /\ OneFaultRestores'
    BY <2>5 DEF ClearRemovesAll, OneFaultRestores
  <2> QED
    BY <2>3, <2>6, <2>7, <2>9, <2>10 DEF Inv
<1> QED
  BY <1>2, <1>3 DEF ApplySetUp

\* rollback with a previous state.
LEMMA UndoRoutesInv == ASSUME Inv, UndoRoutes PROVE Inv'
<1>1. /\ ap.pc = "undoRoutes" /\ UNCHANGED <<next, wgUp, wgConfig, applied, last>>
      /\ ap' = [ap EXCEPT !.pc = "undoConfigure"]
  BY DEF UndoRoutes, wgVars
<1>2. PICK h, g : h = applied.handle /\ g = applied.generation
  OBVIOUS
<1>3. StartReconcile(AddressOf(h, g), RoutesOf(h, g)) /\ h \in Luid /\ g \in 1..MaxGeneration
  BY <1>1, <1>2, InvFacts DEF UndoRoutes, ApplierShape, Undoing
<1>4. /\ RRInv' /\ NoUserRows' /\ HandlesPast' /\ ReconcilesTo(h, g)' /\ luids' = luids
  BY <1>1, <1>3, InvFacts, StartReconcileFrame
<1>5. /\ ap' \in Operation /\ ap'.pc = "undoConfigure" /\ ap'.gen = ap.gen
      /\ ap'.handle = ap.handle /\ ap'.faults = ap.faults
  BY <1>1, InvFacts, OperationMoved DEF PC
<1>6. TypeOK'
  BY <1>1, <1>4, <1>5 DEF Inv, TypeOK, RRInv
<1>7. ApplierShape'
  <2>1. ReconcilesTo(applied.handle, applied.generation)'
    BY <1>1, <1>2, <1>4
  <2> QED
    BY <1>1, <1>4, <1>5, <2>1, InvFacts DEF ApplierShape, Applying, Undoing, Dropping, Clearing
<1>8. ApplierProgress' /\ StillHeld'
  BY <1>5 DEF ApplierProgress, StillHeld
<1>9. ApplyRealises' /\ ClearRemovesAll' /\ OneFaultRestores'
  BY <1>5 DEF ApplyRealises, ClearRemovesAll, OneFaultRestores, Settled
<1> QED
  BY <1>4, <1>6, <1>7, <1>8, <1>9 DEF Inv

LEMMA UndoConfigureInv == ASSUME Inv, UndoConfigure PROVE Inv'
<1>1. /\ ap.pc = "undoConfigure" /\ call.op = "idle"
      /\ UNCHANGED rrVars /\ UNCHANGED <<next, wgUp, applied>>
  BY DEF UndoConfigure
<1>2. /\ ap.gen \in 1..MaxGeneration /\ ap.gen > applied.generation /\ luids = {ap.handle}
      /\ applied.generation \in 1..MaxGeneration /\ ap.faults > 0
      /\ ReconcilesTo(applied.handle, applied.generation)
  BY <1>1, InvFacts DEF ApplierShape, Undoing
<1> DEFINE b == IF call.result = "ok" THEN ap ELSE Fault(ap)
<1>3. /\ b \in Operation /\ b.gen = ap.gen /\ b.handle = ap.handle /\ b.faults > 0
      /\ (b.faults = 1 => call.result = "ok")
  BY <1>2, InvFacts, OperationFaulted
<1>4. \/ /\ applied.handle \in luids
         /\ wgConfig' = applied.generation
         /\ ap' = [b EXCEPT !.pc = "undoSetUp"]
         /\ UNCHANGED last
      \/ /\ ap' = Idle
         /\ last' = [op |-> "apply", gen |-> ap.gen, result |-> "error",
                     effective |-> TRUE, faults |-> Fault(b).faults, sound |-> ap.sound]
         /\ UNCHANGED wgConfig
  BY DEF UndoConfigure
<1> HIDE DEF b
<1>5. CASE /\ ap' = Idle
           /\ last' = [op |-> "apply", gen |-> ap.gen, result |-> "error",
                       effective |-> TRUE, faults |-> Fault(b).faults, sound |-> ap.sound]
           /\ UNCHANGED wgConfig
  <2>1. Fault(b).faults = 2 /\ Fault(b).faults \in 0..2
    BY <1>3, OperationFaulted
  <2>2. last' \in Outcome /\ last'.result = "error" /\ last'.faults = 2
    BY <1>5, <2>1, InvFacts, OutcomeTyped
  <2> QED
    BY <1>1, <1>5, <2>2, ReturnsAsBefore DEF wgVars
<1>6. CASE /\ applied.handle \in luids
           /\ wgConfig' = applied.generation
           /\ ap' = [b EXCEPT !.pc = "undoSetUp"]
           /\ UNCHANGED last
  <2>1. /\ ap' \in Operation /\ ap'.pc = "undoSetUp" /\ ap'.gen = ap.gen
        /\ ap'.handle = ap.handle /\ ap'.faults = b.faults
    BY <1>3, <1>6, OperationMoved DEF PC
  <2>2. UNCHANGED <<luids, address, ownedRoutes, call, torn>>
    BY <1>1 DEF rrVars
  <2>3. ApplierShape'
    BY <1>1, <1>2, <1>3, <2>1, <2>2, InvFacts
       DEF ApplierShape, Applying, Undoing, Dropping, Clearing
  <2>4. ApplierProgress'
    <3>1. (call.result = "ok" /\ ~torn) => Registered(applied.handle, applied.generation)
      BY <1>1, <1>2 DEF ReconcilesTo
    <3> QED
      BY <1>1, <1>3, <1>6, <2>1, <2>2, <3>1 DEF ApplierProgress, Registered, AddressOf, RoutesOf
  <2>5. StillHeld'
    BY <2>1 DEF StillHeld
  <2>6. wgConfig' \in 0..MaxGeneration
    BY <1>2, <1>6
  <2> QED
    BY <1>1, <1>6, <2>1, <2>3, <2>4, <2>5, <2>6, InvFacts, MovesOn
<1> QED
  BY <1>4, <1>5, <1>6

LEMMA UndoSetUpInv == ASSUME Inv, UndoSetUp PROVE Inv'
<1>1. /\ ap.pc = "undoSetUp" /\ UNCHANGED rrVars /\ UNCHANGED <<next, wgConfig, applied>>
  BY DEF UndoSetUp
<1>2. call.op = "idle" /\ ap.faults > 0 /\ ap.gen \in 1..MaxGeneration
  BY <1>1, InvFacts DEF ApplierShape, Undoing
<1>3. CASE UNCHANGED wgUp /\ ReturnFault("apply", ap.gen, TRUE)
  <2>1. Fault(ap).faults = 2 /\ Fault(ap).faults \in 0..2
    BY <1>2, InvFacts, OperationFaulted
  <2>2. ap' = Idle /\ last' \in Outcome /\ last'.result = "error" /\ last'.faults = 2
    BY <1>3, <2>1, InvFacts, OutcomeTyped DEF ReturnFault
  <2> QED
    BY <1>1, <1>2, <1>3, <2>2, ReturnsAsBefore DEF wgVars
<1>4. CASE wgUp' = TRUE /\ Return("apply", ap.gen, "error", TRUE)
  <2>1. /\ ap' = Idle /\ last' \in Outcome /\ last'.op = "apply" /\ last'.result = "error"
        /\ last'.faults = ap.faults
    BY <1>4, InvFacts, OutcomeTyped DEF Return
  <2>2. UNCHANGED <<luids, osRoutes, osAddresses, address, ownedRoutes, call, torn>>
    BY <1>1 DEF rrVars
  <2>3. RRInv' /\ NoUserRows' /\ HandlesPast'
    BY <1>1, SameTables
  <2>4. RecordTyped'
    BY <1>1, InvFacts DEF RecordTyped
  <2>5. TypeOK'
    BY <1>1, <1>4, <2>1, <2>2, <2>3, IdleTyped DEF Inv, TypeOK, RRInv
  <2>6. ApplierShape' /\ ApplierProgress' /\ StillHeld'
    BY <1>2, <2>1, <2>2, <2>4, SettledShape
  <2>7. ~torn' /\ last'.faults = 1 => InSync'
    <3> SUFFICES ASSUME ~torn', last'.faults = 1 PROVE InSync'
      OBVIOUS
    <3>1. Calm' => (InSync' <=> RecordHeld')
      BY SyncIsHeld, PTL
    <3>2. Calm'
      BY <1>2, <2>2, <2>3, <2>4 DEF Calm
    <3>3. /\ applied.handle \in luids /\ wgConfig = applied.generation
          /\ Registered(applied.handle, applied.generation)
      BY <1>1, <2>1, <2>2, InvFacts DEF ApplierProgress
    <3>4. RecordHeld'
      BY <1>1, <1>4, <2>2, <3>3 DEF RecordHeld, Registered, AddressOf, RoutesOf
    <3> QED
      BY <3>1, <3>2, <3>4
  <2>8. ApplyRealises' /\ ClearRemovesAll' /\ OneFaultRestores'
    BY <2>1, <2>7 DEF ApplyRealises, ClearRemovesAll, OneFaultRestores
  <2> QED
    BY <2>3, <2>5, <2>6, <2>8 DEF Inv
<1> QED
  BY <1>3, <1>4 DEF UndoSetUp

\* Routes.Clear is called, by the rollback of a first Apply or by Clear.
LEMMA ClearCallInv ==
    ASSUME Inv, StartClear, UNCHANGED <<wgVars, applied, last>>, ap' \in Operation,
           ap'.pc \in {"dropDown", "clearDown"},
           ap'.pc = "dropDown" => /\ ap'.gen \in 1..MaxGeneration /\ ap'.gen > applied.generation
                                  /\ luids = {ap'.handle} /\ applied.generation = 0
                                  /\ ap'.faults > 0,
           ap'.pc = "clearDown" => applied.generation \in 1..MaxGeneration /\ ~ap'.failed
    PROVE  Inv'
<1>1. UNCHANGED <<next, wgUp, wgConfig>>
  BY DEF wgVars
<1>2. RRInv' /\ NoUserRows' /\ HandlesPast' /\ ClearsRoutes' /\ luids' = luids
  BY <1>1, InvFacts, StartClearFrame
<1>3. TypeOK'
  BY <1>1, <1>2 DEF Inv, TypeOK, RRInv
<1>4. ApplierShape'
  BY <1>1, <1>2, InvFacts DEF ApplierShape, RecordTyped, Applying, Undoing, Dropping, Clearing
<1>5. ApplierProgress' /\ StillHeld'
  BY DEF ApplierProgress, StillHeld
<1>6. ApplyRealises' /\ ClearRemovesAll' /\ OneFaultRestores'
  BY DEF ApplyRealises, ClearRemovesAll, OneFaultRestores, Settled
<1> QED
  BY <1>2, <1>3, <1>4, <1>5, <1>6 DEF Inv

LEMMA DropRoutesInv == ASSUME Inv, DropRoutes PROVE Inv'
<1>1. /\ ap.pc = "dropRoutes" /\ StartClear /\ UNCHANGED <<wgVars, applied, last>>
      /\ ap' = [ap EXCEPT !.pc = "dropDown"]
  BY DEF DropRoutes
<1>2. /\ ap' \in Operation /\ ap'.pc = "dropDown" /\ ap'.gen = ap.gen
      /\ ap'.handle = ap.handle /\ ap'.faults = ap.faults
  BY <1>1, InvFacts, OperationMoved DEF PC
<1>3. /\ ap.gen \in 1..MaxGeneration /\ ap.gen > applied.generation /\ luids = {ap.handle}
      /\ applied.generation = 0 /\ ap.faults > 0
  BY <1>1, InvFacts DEF ApplierShape, Dropping
<1> QED
  BY <1>1, <1>2, <1>3, ClearCallInv

LEMMA ClearRoutesInv == ASSUME Inv, ClearRoutes PROVE Inv'
<1>1. /\ ap.pc = "idle" /\ IsApplied /\ StartClear /\ UNCHANGED <<wgVars, applied, last>>
      /\ ap' = [Idle EXCEPT !.pc = "clearDown", !.sound = InSync]
  BY DEF ClearRoutes
<1>2. ap' \in Operation
  <2>1. InSync \in BOOLEAN
    BY DEF InSync
  <2>2. [Idle EXCEPT !.pc = "clearDown", !.sound = TRUE] \in Operation
    BY IdleTyped DEF Operation, PC
  <2>3. [Idle EXCEPT !.pc = "clearDown", !.sound = FALSE] \in Operation
    BY IdleTyped DEF Operation, PC
  <2> QED
    BY <1>1, <2>1, <2>2, <2>3, Zenon
<1>3. ap'.pc = "clearDown" /\ ap'.failed = FALSE
  BY <1>1 DEF Idle
<1>4. applied.generation \in 1..MaxGeneration
  BY <1>1, InvFacts, PlanAssumption DEF IsApplied, RecordTyped
<1> QED
  BY <1>1, <1>2, <1>3, <1>4, ClearCallInv

\* SetDown after Routes.Clear returned: no error so far means that it was ok.
LEMMA SetDownFacts ==
    ASSUME Inv, NEW h, NEW p \in PC, SetDown(h, p)
    PROVE  /\ call.op = "idle" /\ UNCHANGED rrVars /\ UNCHANGED <<next, wgConfig, applied, last>>
           /\ wgUp' \in BOOLEAN /\ ap' \in Operation /\ ap'.pc = p
           /\ ap'.gen = ap.gen /\ ap'.handle = ap.handle
           /\ (ap.faults > 0 => ap'.faults > 0)
           /\ (~ap'.failed => call.result = "ok")
<1>1. /\ RoutesCleared \in Operation /\ RoutesCleared.gen = ap.gen
      /\ RoutesCleared.handle = ap.handle /\ (ap.faults > 0 => RoutesCleared.faults > 0)
      /\ (~RoutesCleared.failed => call.result = "ok")
  <2>1. CASE call.result = "ok"
    BY <2>1, InvFacts DEF RoutesCleared
  <2>2. CASE call.result # "ok"
    <3>1. /\ Fault(ap) \in Operation /\ Fault(ap).gen = ap.gen /\ Fault(ap).handle = ap.handle
          /\ Fault(ap).faults \in 1..2
      BY InvFacts, OperationFaulted
    <3>2. RoutesCleared = [Fault(ap) EXCEPT !.failed = TRUE]
      BY <2>2 DEF RoutesCleared
    <3>3. RoutesCleared \in Operation /\ RoutesCleared.failed = TRUE
      BY <3>1, <3>2 DEF Operation
    <3>4. /\ RoutesCleared.gen = ap.gen /\ RoutesCleared.handle = ap.handle
          /\ RoutesCleared.faults > 0
      BY <3>1, <3>2 DEF Operation
    <3> QED
      BY <3>3, <3>4
  <2> QED
    BY <2>1, <2>2
<1>2. /\ Fault(RoutesCleared) \in Operation /\ Fault(RoutesCleared).gen = ap.gen
      /\ Fault(RoutesCleared).handle = ap.handle /\ Fault(RoutesCleared).faults \in 1..2
  BY <1>1, OperationFaulted
<1>3. call.op = "idle" /\ UNCHANGED rrVars /\ UNCHANGED <<next, wgConfig, applied, last>>
  BY DEF SetDown
<1>4. wgUp' \in BOOLEAN
  BY InvFacts, Zenon DEF SetDown
<1>5. CASE ap' = [RoutesCleared EXCEPT !.pc = p]
  BY <1>1, <1>3, <1>4, <1>5, OperationMoved
<1>6. CASE ap' = [Fault(RoutesCleared) EXCEPT !.pc = p, !.failed = TRUE]
  <2>1. ap' \in Operation /\ ap'.pc = p /\ ap'.gen = ap.gen /\ ap'.handle = ap.handle
    BY <1>2, <1>6 DEF Operation
  <2>2. ap'.faults > 0 /\ ap'.failed = TRUE
    BY <1>2, <1>6 DEF Operation
  <2> QED
    BY <1>3, <1>4, <2>1, <2>2
<1>7. CASE ap' = [RoutesCleared EXCEPT !.pc = p, !.failed = TRUE]
  <2>1. ap' \in Operation /\ ap'.pc = p /\ ap'.gen = ap.gen /\ ap'.handle = ap.handle
    BY <1>1, <1>7 DEF Operation
  <2>2. (ap.faults > 0 => ap'.faults > 0) /\ ap'.failed = TRUE
    BY <1>1, <1>7 DEF Operation
  <2> QED
    BY <1>3, <1>4, <2>1, <2>2
<1> QED
  BY <1>5, <1>6, <1>7 DEF SetDown

LEMMA DropDownInv == ASSUME Inv, DropDown PROVE Inv'
<1>1. ap.pc = "dropDown" /\ \E h : h = ap.handle /\ SetDown(h, "dropDelete")
  BY DEF DropDown
<1>2. /\ call.op = "idle" /\ UNCHANGED rrVars /\ UNCHANGED <<next, wgConfig, applied, last>>
      /\ wgUp' \in BOOLEAN /\ ap' \in Operation /\ ap'.pc = "dropDelete"
      /\ ap'.gen = ap.gen /\ ap'.handle = ap.handle /\ (ap.faults > 0 => ap'.faults > 0)
  BY <1>1, SetDownFacts DEF PC
<1>3. /\ ap.gen \in 1..MaxGeneration /\ ap.gen > applied.generation /\ luids = {ap.handle}
      /\ applied.generation = 0 /\ ap.faults > 0
  BY <1>1, InvFacts DEF ApplierShape, Dropping
<1>4. ApplierShape'
  BY <1>2, <1>3, InvFacts
     DEF ApplierShape, RecordTyped, Applying, Undoing, Dropping, Clearing, rrVars
<1>5. ApplierProgress' /\ StillHeld'
  BY <1>2 DEF ApplierProgress, StillHeld
<1> QED
  BY <1>2, <1>4, <1>5, InvFacts, MovesOn

LEMMA ClearDownInv == ASSUME Inv, ClearDown PROVE Inv'
<1>1. ap.pc = "clearDown" /\ \E h : h = applied.handle /\ SetDown(h, "clearDelete")
  BY DEF ClearDown
<1>2. /\ call.op = "idle" /\ UNCHANGED rrVars /\ UNCHANGED <<next, wgConfig, applied, last>>
      /\ wgUp' \in BOOLEAN /\ ap' \in Operation /\ ap'.pc = "clearDelete"
      /\ (~ap'.failed => call.result = "ok")
  BY <1>1, SetDownFacts DEF PC
<1>3. applied.generation \in 1..MaxGeneration /\ ClearsRoutes
  BY <1>1, InvFacts DEF ApplierShape, Clearing
<1>4. ApplierShape'
  BY <1>2, <1>3, InvFacts
     DEF ApplierShape, RecordTyped, Applying, Undoing, Dropping, Clearing, rrVars
<1>5. ~ap'.failed => ownedRoutes' = {} /\ address' = None
  BY <1>2, <1>3 DEF ClearsRoutes, rrVars
<1>6. ApplierProgress' /\ StillHeld'
  BY <1>2, <1>5 DEF ApplierProgress, StillHeld
<1> QED
  BY <1>2, <1>4, <1>6, InvFacts, MovesOn

\* The adapter is deleted and the operation returns.
LEMMA DeletedInv ==
    ASSUME Inv, NEW h, DeleteAdapter(h), call.op = "idle", ap' = Idle, RecordTyped',
           last' \in Outcome, last'.op = "apply" => last'.result = "error" /\ applied' = NotApplied,
           last'.op = "clear" /\ last'.result = "ok" =>
               ownedRoutes = {} /\ address = None /\ applied' = NotApplied
    PROVE  Inv'
<1>1. /\ UNCHANGED <<address, ownedRoutes, call, torn, next>> /\ wgUp' = FALSE /\ wgConfig' = 0
  BY DEF DeleteAdapter, regVars
<1>2. RRInv' /\ NoUserRows' /\ HandlesPast' /\ luids' = {}
  BY DeleteTables
<1>3. TypeOK'
  <2>1. next' \in Nat /\ wgConfig' \in 0..MaxGeneration /\ luids' \subseteq {next' - 1}
    BY <1>1, <1>2, InvFacts, PlanAssumption
  <2>2. wgUp' \in BOOLEAN /\ ap' \in Operation /\ RRTypeOK'
    BY <1>1, <1>2, IdleTyped DEF RRInv
  <2> QED
    BY <2>1, <2>2 DEF TypeOK, RecordTyped
<1>4. ApplierShape' /\ ApplierProgress' /\ StillHeld'
  BY <1>1, SettledShape
<1>5. ApplyRealises'
  BY DEF ApplyRealises
<1>6. ClearRemovesAll'
  BY <1>1, <1>2 DEF ClearRemovesAll, IsApplied, RRInv, RowsLive
<1>7. OneFaultRestores'
  BY DEF OneFaultRestores, InSync, IsApplied
<1> QED
  BY <1>2, <1>3, <1>4, <1>5, <1>6, <1>7 DEF Inv

LEMMA DropDeleteInv == ASSUME Inv, DropDelete PROVE Inv'
<1>1. ap.pc = "dropDelete" /\ applied' = applied
  BY DEF DropDelete
<1>2. /\ call.op = "idle" /\ applied = NotApplied /\ applied.generation = 0
      /\ ap.gen \in 1..MaxGeneration /\ ap.faults > 0
  BY <1>1, InvFacts DEF ApplierShape, Dropping
<1>3. RecordTyped'
  BY <1>1, InvFacts DEF RecordTyped
<1>4. CASE (\E h : DeleteAdapter(h)) /\ Return("apply", ap.gen, "error", TRUE)
  <2>1. PICK h : DeleteAdapter(h)
    BY <1>4
  <2>2. /\ ap' = Idle /\ last' \in Outcome /\ last'.op = "apply" /\ last'.result = "error"
    BY <1>4, InvFacts, OutcomeTyped DEF Return
  <2> QED
    BY <1>1, <1>2, <1>3, <2>1, <2>2, DeletedInv
<1>5. CASE UNCHANGED <<rrVars, wgVars>> /\ ReturnFault("apply", ap.gen, TRUE)
  <2>1. Fault(ap).faults = 2 /\ Fault(ap).faults \in 0..2
    BY <1>2, InvFacts, OperationFaulted
  <2>2. ap' = Idle /\ last' \in Outcome /\ last'.result = "error" /\ last'.faults = 2
    BY <1>5, <2>1, InvFacts, OutcomeTyped DEF ReturnFault
  <2> QED
    BY <1>1, <1>2, <1>5, <2>2, ReturnsAsBefore
<1> QED
  BY <1>4, <1>5 DEF DropDelete

LEMMA ClearDeleteInv == ASSUME Inv, ClearDelete PROVE Inv'
<1>1. ap.pc = "clearDelete"
  BY DEF ClearDelete
<1>2. /\ call.op = "idle" /\ applied.generation \in 1..MaxGeneration
      /\ (~ap.failed => ownedRoutes = {} /\ address = None)
      /\ 0 \in 0..MaxGeneration
  BY <1>1, InvFacts, PlanAssumption DEF ApplierShape, ApplierProgress, Clearing
<1>3. CASE /\ \E h : DeleteAdapter(h)
           /\ applied' = IF ap.failed THEN applied ELSE NotApplied
           /\ Return("clear", 0, IF ap.failed THEN "error" ELSE "ok", TRUE)
  <2>1. PICK h : DeleteAdapter(h)
    BY <1>3
  <2>2. RecordTyped'
    BY <1>2, <1>3, InvFacts DEF RecordTyped, NotApplied, Handle
  <2>3. /\ ap' = Idle /\ last' \in Outcome /\ last'.op = "clear"
        /\ (last'.result = "ok" => ~ap.failed)
    <3>1. CASE ap.failed
      BY <1>2, <1>3, <3>1, InvFacts, OutcomeTyped DEF Return
    <3>2. CASE ~ap.failed
      BY <1>2, <1>3, <3>2, InvFacts, OutcomeTyped DEF Return
    <3> QED
      BY <3>1, <3>2
  <2>4. last'.result = "ok" => ownedRoutes = {} /\ address = None /\ applied' = NotApplied
    BY <1>2, <1>3, <2>3
  <2> QED
    BY <1>2, <2>1, <2>2, <2>3, <2>4, DeletedInv
<1>4. CASE /\ UNCHANGED <<rrVars, wgVars, applied>>
           /\ ReturnFault("clear", 0, TRUE) \/ Return("clear", 0, "error", TRUE)
  <2>1. Fault(ap).faults \in 0..2
    BY InvFacts, OperationFaulted
  <2>2. ap' = Idle /\ last' \in Outcome /\ last'.result = "error" /\ last'.op = "clear"
    <3>1. CASE ReturnFault("clear", 0, TRUE)
      BY <1>2, <2>1, <3>1, InvFacts, OutcomeTyped DEF ReturnFault
    <3>2. CASE Return("clear", 0, "error", TRUE)
      BY <1>2, <2>1, <3>2, InvFacts, OutcomeTyped DEF Return
    <3> QED
      BY <1>4, <3>1, <3>2
  <2> QED
    BY <1>2, <1>4, <2>2, ReturnsAsBefore
<1> QED
  BY <1>3, <1>4 DEF ClearDelete

----------------------------------------------------------------------------
\* The theorems about the data plane.

LEMMA InitInv == Init => Inv
<1> SUFFICES ASSUME Init PROVE Inv
  OBVIOUS
<1>1. /\ luids = {} /\ RegistryInit /\ next = 1 /\ wgUp = FALSE /\ wgConfig = 0
      /\ applied = NotApplied /\ ap = Idle
      /\ last = [op |-> "none", gen |-> 0, result |-> "ok", effective |-> FALSE,
                 faults |-> 0, sound |-> TRUE]
  BY DEF Init
<1>2. RRInv
  BY <1>1, RegistryInitInv
<1>3. /\ ap \in Operation /\ ap.pc = "idle" /\ last \in Outcome
      /\ applied \in [handle : Handle, generation : 0..MaxGeneration]
      /\ applied.generation = 0 /\ applied = NotApplied
  BY <1>1, IdleTyped, PlanAssumption DEF Outcome, NotApplied, Handle
<1>4. call.op = "idle" /\ call.added = {}
  BY <1>1, ReturnedCall DEF RegistryInit
<1>5. TypeOK
  BY <1>1, <1>2, <1>3, PlanAssumption DEF TypeOK, RRInv
<1>6. NoUserRows
  BY <1>1 DEF RegistryInit, NoUserRows
<1>7. HandlesPast
  BY <1>1, <1>4 DEF RegistryInit, HandlesPast, HeldAddresses, NewAddress
<1>8. ApplierShape /\ ApplierProgress /\ StillHeld
  BY <1>3, <1>4 DEF ApplierShape, ApplierProgress, StillHeld, Applying, Undoing, Dropping, Clearing
<1>9. ApplyRealises /\ ClearRemovesAll /\ OneFaultRestores
  BY <1>1 DEF ApplyRealises, ClearRemovesAll, OneFaultRestores
<1> QED
  BY <1>2, <1>5, <1>6, <1>7, <1>8, <1>9 DEF Inv

LEMMA NextInv == Inv /\ [Next]_dpVars => Inv'
<1> SUFFICES ASSUME Inv, [Next]_dpVars PROVE Inv'
  OBVIOUS
<1>1. CASE Request
  BY <1>1, ReturnsNothingDone, ApplyEnsureInv, ClearRoutesInv DEF Request
<1>2. CASE ApplierStep
  BY <1>2, ApplyStatusInv, ApplyRoutesDoneInv, ApplyConfigureInv, ApplySetUpInv,
     UndoRoutesInv, UndoConfigureInv, UndoSetUpInv, DropRoutesInv, DropDownInv,
     DropDeleteInv, ClearDownInv, ClearDeleteInv DEF ApplierStep
<1>3. CASE RoutesStep
  BY <1>3, RoutesStepInv
<1>4. CASE UNCHANGED dpVars
  <2>1. UNCHANGED <<luids, osRoutes, osAddresses, address, ownedRoutes, call, torn, next, wgUp,
                    wgConfig, applied, ap, last>> /\ UNCHANGED rrVars
    BY <1>4 DEF dpVars, rrVars, wgVars
  <2>2. RRInv' /\ NoUserRows' /\ HandlesPast'
    BY <2>1, SameTables
  <2>3. InSync' <=> InSync
    BY <2>1, SameSync
  <2>4. TypeOK' /\ ApplyRealises' /\ ClearRemovesAll' /\ OneFaultRestores'
    BY <2>1, <2>3 DEF Inv, TypeOK, RRTypeOK, ApplyRealises, ClearRemovesAll, OneFaultRestores,
                     Settled, IsApplied
  <2>5. ApplierShape' /\ ApplierProgress' /\ StillHeld'
    BY <2>1 DEF Inv, ApplierShape, ApplierProgress, StillHeld, RecordHeld, ReconcilesTo,
                ClearsRoutes, Registered, AddressOf, RoutesOf, IsApplied
  <2> QED
    BY <2>2, <2>4, <2>5 DEF Inv
<1> QED
  BY <1>1, <1>2, <1>3, <1>4 DEF Next

\* Whatever calls fail and in whatever order snapshots arrive, tables,
\* registry, adapter and the applier's record stay related as Inv says.
THEOREM DataPlaneInvariant == Spec => []Inv
BY InitInv, NextInv, PTL DEF Spec

\* Types, and at most one adapter is alive: the newest.
THEOREM TypeCorrect == Spec => []TypeOK
<1>1. Inv => TypeOK
  BY DEF Inv
<1> QED
  BY <1>1, DataPlaneInvariant, PTL

\* An Apply that returns nil has configured the machine as its snapshot says.
THEOREM ApplyRealisesAlways == Spec => []ApplyRealises
<1>1. Inv => ApplyRealises
  BY DEF Inv
<1> QED
  BY <1>1, DataPlaneInvariant, PTL

\* A Clear that returns nil has removed adapter, address and routes.
THEOREM ClearRemovesAllAlways == Spec => []ClearRemovesAll
<1>1. Inv => ClearRemovesAll
  BY DEF Inv
<1> QED
  BY <1>1, DataPlaneInvariant, PTL

\* One failing call in an Apply over a healthy plane is absorbed.
THEOREM OneFaultRestoresAlways == Spec => []OneFaultRestores
<1>1. Inv => OneFaultRestores
  BY DEF Inv
<1> QED
  BY <1>1, DataPlaneInvariant, PTL

\* The applied generation moves forward until a complete Clear.
THEOREM GenerationForwardAlways == Spec => GenerationForward
<1>1. Inv /\ [Next]_dpVars =>
        [applied'.generation # applied.generation =>
           \/ applied'.generation > applied.generation
           \/ applied' = NotApplied /\ luids' = {}]_dpVars
  <2> SUFFICES ASSUME Inv, Next, applied' # applied
               PROVE  \/ applied'.generation > applied.generation
                      \/ applied' = NotApplied /\ luids' = {}
    OBVIOUS
  <2>1. ApplySetUp \/ ClearDelete
    BY DEF Next, Request, Cancelled, ApplyNotNewer, ApplyEnsure, ClearNothing, ClearRoutes,
           ApplierStep, ApplyStatus, ApplyRoutesDone, ApplyConfigure, UndoRoutes, UndoConfigure,
           UndoSetUp, DropRoutes, DropDown, DropDelete, ClearDown, SetDown, RoutesStep
  <2>2. CASE ApplySetUp
    <3>1. ap.gen > applied.generation
      BY <2>2, InvFacts DEF ApplySetUp, ApplierShape, Applying
    <3>2. applied' = [handle |-> ap.handle, generation |-> ap.gen]
      BY <2>2 DEF ApplySetUp
    <3> QED
      BY <3>1, <3>2
  <2>3. CASE ClearDelete
    BY <2>3, InvFacts DEF ClearDelete, DeleteAdapter
  <2> QED
    BY <2>1, <2>2, <2>3
<1> QED
  BY <1>1, DataPlaneInvariant, PTL DEF Spec, GenerationForward

=============================================================================
