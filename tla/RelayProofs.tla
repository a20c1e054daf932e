----------------------------- MODULE RelayProofs -----------------------------
(***************************************************************************)
(* The two ends of a relayed path: the selector that decides when a peer   *)
(* is reached through the relay, and the agent that serves there.          *)
(*                                                                         *)
(* The path selector's hysteresis holds for all thresholds, any initial    *)
(* state and any sequence of observations.  KeepsUp is not inductive: that *)
(* the threshold-th success makes the path direct needs the counters to    *)
(* agree with the runs of observations (CountersMatch), through every      *)
(* state in which one of them is reset or left alone.                      *)
(*                                                                         *)
(* The relay agent is correct for any keys, addresses and configurations.  *)
(* Inv says what holds at each step of Apply and Clear, whatever kernel    *)
(* state the process found; its third part, KernelOnTheWay, is the reason  *)
(* a process that could clean up leaves nothing behind.                    *)
(***************************************************************************)
EXTENDS RelayAgent, PathSelector, TLAPS

----------------------------------------------------------------------------
\* The path selector.

\* NewSelector establishes the invariant for every initial state.
LEMMA SelectorInitInv == SelectorInit => SelectorInv
BY ThresholdAssumption DEF SelectorInit, SelectorInv, SelectorTypeOK, CountersMatch, KeepsUp, State

\* An observation that finds the member inactive preserves the invariant.
LEMMA MemberInactivePreserves ==
    ASSUME SelectorInv, NEW at \in 1..MaxTime, Accept(at), MemberInactive
    PROVE  SelectorInv'
BY ThresholdAssumption
DEF SelectorInv, SelectorTypeOK, CountersMatch, KeepsUp, State, Accept, MemberInactive

\* A healthy direct path: failures are forgotten, a success counts.
LEMMA DirectHealthyPreserves ==
    ASSUME SelectorInv, NEW at \in 1..MaxTime, Accept(at), DirectHealthy
    PROVE  SelectorInv'
<1> USE ThresholdAssumption DEF SelectorInv, Accept, DirectHealthy, Recovers, Capped
<1>1. SelectorTypeOK'
  BY DEF SelectorTypeOK, CountersMatch, KeepsUp, State
<1>2. CountersMatch'
  BY DEF SelectorTypeOK, CountersMatch, KeepsUp, State
<1>3. KeepsUp'
  BY DEF SelectorTypeOK, CountersMatch, KeepsUp, State
<1> QED BY <1>1, <1>2, <1>3

\* An unhealthy direct path, in each state of the selector.
LEMMA DirectUnhealthyPreserves ==
    ASSUME SelectorInv, NEW at \in 1..MaxTime, Accept(at),
           NEW relayHealthy \in BOOLEAN, DirectUnhealthy(relayHealthy)
    PROVE  SelectorInv'
<1> USE ThresholdAssumption DEF SelectorInv, Accept, DirectUnhealthy, Fallback, Capped
<1>1. SelectorTypeOK'
  BY DEF SelectorTypeOK, CountersMatch, KeepsUp, State
<1>2. CountersMatch'
  BY DEF SelectorTypeOK, CountersMatch, KeepsUp, State
<1>3. KeepsUp'
  BY DEF SelectorTypeOK, CountersMatch, KeepsUp, State
<1> QED BY <1>1, <1>2, <1>3

\* Every observation, refused or accepted, preserves the invariant.
LEMMA SelectorNextInv == SelectorInv /\ [SelectorNext]_selectorVars => SelectorInv'
<1> SUFFICES ASSUME SelectorInv, [SelectorNext]_selectorVars PROVE SelectorInv'
  OBVIOUS
<1>1. CASE UNCHANGED selectorVars
  BY <1>1 DEF selectorVars, SelectorInv, SelectorTypeOK, CountersMatch, KeepsUp
<1>2. CASE SelectorNext
  <2>1. PICK at \in 1..MaxTime :
            \/ OutOfOrder(at)
            \/ \E directHealthy, relayHealthy, memberActive \in BOOLEAN :
                  Observe(at, directHealthy, relayHealthy, memberActive)
    BY <1>2 DEF SelectorNext
  <2>2. CASE OutOfOrder(at)
    BY <2>2 DEF OutOfOrder, selectorVars, SelectorInv, SelectorTypeOK, CountersMatch, KeepsUp
  <2>3. CASE \E directHealthy, relayHealthy, memberActive \in BOOLEAN :
                Observe(at, directHealthy, relayHealthy, memberActive)
    BY <2>3, MemberInactivePreserves, DirectHealthyPreserves, DirectUnhealthyPreserves
    DEF Observe
  <2> QED BY <2>1, <2>2, <2>3
<1> QED BY <1>1, <1>2

\* The inductive invariant holds throughout.
THEOREM SelectorInvariant == SelectorSpec => []SelectorInv
BY SelectorInitInv, SelectorNextInv, PTL DEF SelectorSpec

\* The selector's state is well typed and its counters never pass the
\* thresholds that end them.
THEOREM SelectorTypeCorrect == SelectorSpec => []SelectorTypeOK
<1>1. SelectorInv => SelectorTypeOK BY DEF SelectorInv
<1> QED BY <1>1, SelectorInvariant, PTL

\* A threshold of successes in a row always ends in the direct path, a
\* threshold of failures always leaves it.
THEOREM KeepsUpAlways == SelectorSpec => []KeepsUp
<1>1. SelectorInv => KeepsUp BY DEF SelectorInv
<1> QED BY <1>1, SelectorInvariant, PTL

\* Hysteresis: no observation takes up the direct path before the threshold of
\* successes in a row, or gives it up before the threshold of failures.
THEOREM HysteresisAlways == SelectorSpec => Hysteresis
<1> DEFINE Slow ==
        /\ (state # "direct" /\ state' = "direct") => good' >= RecoverySuccessThreshold
        /\ (state \in {"direct", "suspect"} /\ state' \in {"relay", "disconnected"}) =>
              bad' >= DirectFailureThreshold \/ (good' = 0 /\ bad' = 0)
<1>1. ASSUME SelectorInv, [SelectorNext]_selectorVars PROVE [Slow]_selectorVars
  <2> SUFFICES ASSUME SelectorNext PROVE Slow
    BY <1>1
  <2>1. PICK at \in 1..MaxTime :
            \/ OutOfOrder(at)
            \/ \E directHealthy, relayHealthy, memberActive \in BOOLEAN :
                  Observe(at, directHealthy, relayHealthy, memberActive)
    BY DEF SelectorNext
  <2>2. CASE OutOfOrder(at)
    BY <2>2 DEF OutOfOrder, selectorVars
  <2>3. CASE MemberInactive
    BY <2>3 DEF MemberInactive
  <2>4. CASE DirectHealthy
    BY <1>1, <2>4, ThresholdAssumption
    DEF DirectHealthy, Recovers, Capped, SelectorInv, SelectorTypeOK, CountersMatch, State
  <2>5. ASSUME NEW relayHealthy \in BOOLEAN, DirectUnhealthy(relayHealthy) PROVE Slow
    BY <1>1, <2>5, ThresholdAssumption
    DEF DirectUnhealthy, Fallback, Capped, SelectorInv, SelectorTypeOK, CountersMatch, State
  <2> QED BY <2>1, <2>2, <2>3, <2>4, <2>5 DEF Observe
<1>2. SelectorInv /\ [SelectorNext]_selectorVars => [Slow]_selectorVars
  BY <1>1
<1> QED BY <1>2, SelectorInvariant, PTL DEF SelectorSpec, Hysteresis

----------------------------------------------------------------------------
\* The relay agent.

USE ConfigAssumption

\* A configuration and what the agent reads of it.
LEMMA ConfigTypes ==
    ASSUME NEW c \in Config
    PROVE  /\ c.address \in IP
           /\ Peers(c) \subseteq Peer
           /\ Keys(c) \subseteq Key
           /\ IPs(c) \subseteq IP
           /\ Keys(c) = {p.key : p \in Peers(c)}
           /\ c # None
<1>1. c.address \in IP /\ c.peers \in Seq(Peer) /\ c # None
  OBVIOUS
<1>2. \A i \in DOMAIN c.peers : c.peers[i] \in Peer
  BY <1>1
<1> QED BY <1>1, <1>2 DEF Peers, Keys, IPs, Peer

\* A valid configuration never gives a relay's address to a peer.
LEMMA AddressNotPeers ==
    ASSUME NEW c \in Config, Validate(c)
    PROVE  c.address \notin IPs(c)
BY DEF Validate, IPs, Peers

\* "wg set" installs every peer of a valid configuration, and nothing but them
\* when the peers that were there all have configured keys.
LEMMA ConfiguredExact ==
    ASSUME NEW c \in Config, Validate(c), NEW peers \in SUBSET Peer
    PROVE  /\ Peers(c) \subseteq Configured(peers, c)
           /\ Configured(peers, c) \subseteq Peer
           /\ (\A p \in peers : p.key \in Keys(c)) => Configured(peers, c) = Peers(c)
<1> DEFINE last == {k \in DOMAIN c.peers : \A j \in (k + 1)..Len(c.peers) :
                       c.peers[j].key # c.peers[k].key /\ c.peers[j].ip # c.peers[k].ip}
<1>1. c.peers \in Seq(Peer) /\ DOMAIN c.peers = 1..Len(c.peers) /\ Len(c.peers) \in Nat
  OBVIOUS
<1>2. last = DOMAIN c.peers
  <2> SUFFICES ASSUME NEW k \in DOMAIN c.peers, NEW j \in (k + 1)..Len(c.peers)
               PROVE  c.peers[j].key # c.peers[k].key /\ c.peers[j].ip # c.peers[k].ip
    OBVIOUS
  <2>1. j \in DOMAIN c.peers /\ j # k
    BY <1>1
  <2> QED BY <2>1 DEF Validate
<1>3. Configured(peers, c) =
        {p \in peers : p.key \notin Keys(c) /\ p.ip \notin IPs(c)} \cup Peers(c)
  BY <1>2 DEF Configured, Peers
<1> QED BY <1>3, ConfigTypes

----------------------------------------------------------------------------
\* The steps, one lemma per action.

\* The end of a process, with the kernel as it may leave it.
LEMMA EndsInv ==
    ASSUME Inv, Ends, dirty' \in BOOLEAN, link' \in {"absent", "down", "up"},
           wg' \subseteq Peer, addrs' \subseteq IP, routes' \subseteq IP,
           ~dirty' => addrs' = {} /\ routes' = {} /\ link' # "up"
    PROVE  Inv'
BY DEF Inv, Ends, TypeOK, PeersOnTheWay, RoutesOnTheWay, KernelOnTheWay

LEMMA WireGuardFailsInv ==
    ASSUME Inv, WireGuardFails, pc \in {"link", "peers", "stale", "set", "up"}
    PROVE  Inv'
BY EndsInv DEF WireGuardFails, Inv, TypeOK, KernelOnTheWay, kernel

LEMMA StartAgentInv == ASSUME Inv, NEW c \in Config, StartAgent(c) PROVE Inv'
BY ConfigTypes DEF Inv, StartAgent, TypeOK, PeersOnTheWay, RoutesOnTheWay, KernelOnTheWay, kernel

LEMMA EnsureLinkInv == ASSUME Inv, EnsureLink PROVE Inv'
<1>1. CASE WireGuardFails
  BY <1>1, WireGuardFailsInv DEF EnsureLink
<1>2. CASE ~WireGuardFails
  BY <1>2 DEF EnsureLink, Goes, Inv, TypeOK, PeersOnTheWay, RoutesOnTheWay, KernelOnTheWay, kernel
<1> QED BY <1>1, <1>2

LEMMA ShowPeersInv == ASSUME Inv, ShowPeers PROVE Inv'
<1>1. CASE WireGuardFails
  BY <1>1, WireGuardFailsInv DEF ShowPeers
<1>2. CASE ~WireGuardFails
  BY <1>2 DEF ShowPeers, Goes, Inv, TypeOK, PeersOnTheWay, RoutesOnTheWay, KernelOnTheWay, kernel
<1> QED BY <1>1, <1>2

LEMMA RemoveStalePeerInv == ASSUME Inv, RemoveStalePeer PROVE Inv'
<1>1. CASE WireGuardFails
  BY <1>1, WireGuardFailsInv DEF RemoveStalePeer
<1>2. CASE ~WireGuardFails
  BY <1>2 DEF RemoveStalePeer, Goes, Inv, TypeOK, PeersOnTheWay, RoutesOnTheWay, KernelOnTheWay, kernel
<1> QED BY <1>1, <1>2

LEMMA SetPeersInv == ASSUME Inv, SetPeers PROVE Inv'
<1>1. CASE WireGuardFails
  BY <1>1, WireGuardFailsInv DEF SetPeers
<1>2. CASE ~WireGuardFails
  <2>1. config \in Config /\ Validate(config) /\ wg \in SUBSET Peer
    BY DEF SetPeers, Inv, TypeOK, PeersOnTheWay
  <2>2. Peers(config) \subseteq wg' /\ wg' \subseteq Peer /\ (blind \/ wg' = Peers(config))
    BY <1>2, <2>1, ConfiguredExact DEF SetPeers, Inv, PeersOnTheWay
  <2> QED BY <1>2, <2>2 DEF SetPeers, Goes, Inv, TypeOK, PeersOnTheWay, RoutesOnTheWay, KernelOnTheWay
<1> QED BY <1>1, <1>2

LEMMA LinkUpInv == ASSUME Inv, LinkUp PROVE Inv'
<1>1. CASE WireGuardFails
  BY <1>1, WireGuardFailsInv DEF LinkUp
<1>2. CASE ~WireGuardFails
  BY <1>2 DEF LinkUp, Goes, Inv, TypeOK, PeersOnTheWay, RoutesOnTheWay, KernelOnTheWay
<1> QED BY <1>1, <1>2

LEMMA AddAddressInv == ASSUME Inv, AddAddress PROVE Inv'
<1>1. config \in Config /\ Validate(config) /\ config.address \in IP /\ IPs(config) \subseteq IP
  BY ConfigTypes DEF AddAddress, Inv, TypeOK, PeersOnTheWay
<1>2. CASE Goes("down") /\ UNCHANGED <<todo, kernel>>
  BY <1>1, <1>2 DEF AddAddress, Goes, Inv, TypeOK, PeersOnTheWay, RoutesOnTheWay, KernelOnTheWay, kernel
<1>3. CASE ~(Goes("down") /\ UNCHANGED <<todo, kernel>>)
  BY <1>1, <1>3, AddressNotPeers DEF AddAddress, Inv, TypeOK, PeersOnTheWay, RoutesOnTheWay, KernelOnTheWay
<1> QED BY <1>2, <1>3

LEMMA AddRouteInv == ASSUME Inv, AddRoute PROVE Inv'
<1>1. config \in Config /\ Validate(config) /\ config.address \notin IPs(config)
  BY AddressNotPeers DEF AddRoute, Inv, TypeOK, PeersOnTheWay
<1>2. CASE \E ip \in todo \ routes :
             /\ routes' = routes \cup {ip}
             /\ todo' = todo \ {ip} /\ added' = added \cup {ip}
             /\ UNCHANGED <<pc, config, blind, dirty, link, wg, addrs>>
  BY <1>1, <1>2 DEF AddRoute, Inv, TypeOK, PeersOnTheWay, RoutesOnTheWay, KernelOnTheWay
<1>3. CASE todo # {} /\ Goes("undo") /\ UNCHANGED <<todo, kernel>>
  BY <1>1, <1>3 DEF AddRoute, Goes, Inv, TypeOK, PeersOnTheWay, RoutesOnTheWay, KernelOnTheWay, kernel
<1>4. CASE /\ todo = {}
           /\ pc' = "serving" /\ added' = {}
           /\ UNCHANGED <<config, todo, blind, dirty, kernel>>
  BY <1>1, <1>4 DEF AddRoute, Inv, TypeOK, PeersOnTheWay, RoutesOnTheWay, KernelOnTheWay, kernel
<1> QED BY <1>2, <1>3, <1>4 DEF AddRoute

LEMMA UndoAddedInv == ASSUME Inv, UndoAdded PROVE Inv'
<1>1. PICK kept \in SUBSET added : Deletes(added, kept)
  BY DEF UndoAdded
<1>2. /\ pc = "undo" /\ pc' = "down" /\ added' = {} /\ todo' = {}
      /\ UNCHANGED <<config, blind, link, wg>>
  BY <1>1 DEF UndoAdded, Deletes
<1>3. addrs' \subseteq addrs /\ routes' \subseteq routes /\ dirty' \in BOOLEAN
  BY <1>1 DEF Deletes, Inv, TypeOK
<1>4. ASSUME ~dirty' PROVE addrs' = {} /\ routes' = {}
  <2>1. ~dirty /\ kept = {}
    BY <1>1, <1>4 DEF Deletes
  <2>2. addrs = {config.address} /\ added = addrs \cup routes /\ config.address \notin routes
    BY <1>2, <2>1 DEF Inv, KernelOnTheWay
  <2> QED BY <1>1, <2>1, <2>2 DEF Deletes
<1>5. TypeOK'
  BY <1>2, <1>3 DEF Inv, TypeOK
<1>6. PeersOnTheWay' /\ RoutesOnTheWay' /\ KernelOnTheWay'
  BY <1>2, <1>4 DEF Inv, PeersOnTheWay, RoutesOnTheWay, KernelOnTheWay
<1> QED BY <1>5, <1>6 DEF Inv

\* After a clean rollback or Clear only the interface is left to go down.
LEMMA DownInv == ASSUME Inv, Ends, Down, pc \in {"down", "cleardown"} PROVE Inv'
<1>1. /\ dirty' \in BOOLEAN /\ link' \in {"absent", "down", "up"}
      /\ wg' \subseteq Peer /\ addrs' \subseteq IP /\ routes' \subseteq IP
  BY DEF Inv, TypeOK, Down
<1>2. ~dirty' => addrs' = {} /\ routes' = {} /\ link' # "up"
  BY DEF Inv, KernelOnTheWay, Down
<1> QED BY <1>1, <1>2, EndsInv

LEMMA RollbackDownInv == ASSUME Inv, RollbackDown PROVE Inv'
BY DownInv DEF RollbackDown

LEMMA SignalInv == ASSUME Inv, Signal PROVE Inv'
BY DEF Signal, Goes, Inv, TypeOK, PeersOnTheWay, RoutesOnTheWay, KernelOnTheWay, kernel

LEMMA ClearRoutesInv == ASSUME Inv, ClearRoutes PROVE Inv'
<1> DEFINE owned == IPs(config) \cup {config.address}
<1>1. PICK kept \in SUBSET owned : Deletes(owned, kept)
  BY DEF ClearRoutes
<1>2. /\ pc = "clear" /\ pc' = "cleardown"
      /\ UNCHANGED <<config, todo, added, blind, link, wg>>
  BY <1>1 DEF ClearRoutes, Deletes
<1>3. addrs' \subseteq addrs /\ routes' \subseteq routes /\ dirty' \in BOOLEAN
  BY <1>1 DEF Deletes, Inv, TypeOK
<1>4. ASSUME ~dirty' PROVE addrs' = {} /\ routes' = {}
  <2>1. ~dirty /\ kept = {}
    BY <1>1, <1>4 DEF Deletes
  <2>2. addrs = {config.address} /\ routes = IPs(config) /\ config.address \notin routes
    BY <1>2, <2>1 DEF Inv, KernelOnTheWay
  <2> QED BY <1>1, <2>1, <2>2 DEF Deletes
<1>5. TypeOK'
  BY <1>2, <1>3 DEF Inv, TypeOK, RoutesOnTheWay
<1>6. PeersOnTheWay' /\ RoutesOnTheWay' /\ KernelOnTheWay'
  BY <1>2, <1>4 DEF Inv, PeersOnTheWay, RoutesOnTheWay, KernelOnTheWay
<1> QED BY <1>5, <1>6 DEF Inv

LEMMA ClearDownInv == ASSUME Inv, ClearDown PROVE Inv'
BY DownInv DEF ClearDown

LEMMA KillInv == ASSUME Inv, Kill PROVE Inv'
BY EndsInv DEF Kill, Inv, TypeOK, kernel

----------------------------------------------------------------------------
\* Inv is an invariant of the agent, for any configurations.
THEOREM AgentInvariant == Spec => []Inv
<1>1. Init => Inv
  BY DEF Init, Inv, TypeOK, PeersOnTheWay, RoutesOnTheWay, KernelOnTheWay
<1>2. Inv /\ [Next]_vars => Inv'
  <2> SUFFICES ASSUME Inv, [Next]_vars PROVE Inv'
    OBVIOUS
  <2>1. CASE \E c \in Config : StartAgent(c)
    BY <2>1, StartAgentInv
  <2>2. CASE AgentStep
    BY <2>2, EnsureLinkInv, ShowPeersInv, RemoveStalePeerInv, SetPeersInv, LinkUpInv,
       AddAddressInv, AddRouteInv, UndoAddedInv, RollbackDownInv, ClearRoutesInv, ClearDownInv
       DEF AgentStep
  <2>3. CASE Signal \/ Kill
    BY <2>3, SignalInv, KillInv
  <2>4. CASE UNCHANGED vars
    BY <2>4 DEF vars, agent, kernel, Inv, TypeOK, PeersOnTheWay, RoutesOnTheWay, KernelOnTheWay
  <2> QED BY <2>1, <2>2, <2>3, <2>4 DEF Next
<1> QED BY <1>1, <1>2, PTL DEF Spec

\* The agent's variables and the kernel's tables are always well typed, and
\* what the agent lists as added is in the kernel.
THEOREM TypeCorrect == Spec => []TypeOK
<1>1. Inv => TypeOK
  BY DEF Inv
<1> QED BY <1>1, AgentInvariant, PTL

\* A relay that serves has the peers, the address, the routes and the interface
\* of its configuration (relay.Runtime.Apply returned nil).
THEOREM ServesConfigurationAlways == Spec => []ServesConfiguration
<1>1. Inv => ServesConfiguration
  BY DEF Inv, ServesConfiguration, PeersOnTheWay, RoutesOnTheWay
<1> QED BY <1>1, AgentInvariant, PTL

\* A process that was not killed and whose deletions worked leaves no address,
\* no route and no interface that is up.
THEOREM NothingLeftAlways == Spec => []NothingLeft
<1>1. Inv => NothingLeft
  BY DEF Inv, NothingLeft, KernelOnTheWay
<1> QED BY <1>1, AgentInvariant, PTL

=============================================================================
