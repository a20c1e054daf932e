----------------------------- MODULE RelayAgent -----------------------------
(***************************************************************************)
(* The relay agent (cmd/relay-agent, internal/relay) on a Linux machine:   *)
(* one process reads a configuration, applies it with ip and wg commands,  *)
(* waits for a signal, clears what it applied and ends.  Every command may *)
(* fail, the process may be killed between any two of them, and the next   *)
(* process, perhaps with an edited configuration, finds the kernel as the  *)
(* last one left it.                                                       *)
(*                                                                         *)
(* A peer is a public key and a virtual address, the /32 it may send from  *)
(* and the route to it.  The agent applies one configuration in its life,  *)
(* so RouteManager.Apply finds nothing owned and its removal of stale      *)
(* entries never runs.  A loop of deletions whose errors are collected is  *)
(* one step that may keep any part of what it deletes, which is also what  *)
(* a kill inside it leaves.                                                *)
(***************************************************************************)
EXTENDS Integers, Sequences

CONSTANTS
    Key,     \* WireGuard public keys
    IP,      \* virtual addresses
    Config,  \* the configurations the operator may install
    None     \* Go's zero value

Peer == [key : Key, ip : IP]

ASSUME ConfigAssumption ==
    Config \subseteq [address : IP, peers : Seq(Peer)] /\ None \notin Config

VARIABLES
    pc,      \* where the agent's process is
    config,  \* its configuration
    todo,    \* what the loop it is in has left
    added,   \* RouteManager.Apply: what it has added
    blind,   \* "wg show" failed in this process
    dirty,   \* history: a process was killed, or a deletion or Down failed
    link,    \* the kernel's WireGuard interface
    wg,      \* its peers
    addrs,   \* its addresses
    routes   \* the routes over it

agent  == <<pc, config, todo, added, blind, dirty>>
kernel == <<link, wg, addrs, routes>>
vars   == <<agent, kernel>>

Init ==
    /\ pc = "off" /\ config = None /\ todo = {} /\ added = {} /\ blind = FALSE /\ dirty = FALSE
    /\ link = "absent" /\ wg = {} /\ addrs = {} /\ routes = {}

\* Config.Validate.
Validate(c) ==
    \A i, j \in DOMAIN c.peers :
        /\ c.peers[i].ip # c.address
        /\ i # j => c.peers[i].ip # c.peers[j].ip /\ c.peers[i].key # c.peers[j].key

Peers(c) == {c.peers[i] : i \in DOMAIN c.peers}
Keys(c)  == {p.key : p \in Peers(c)}
IPs(c)   == {p.ip : p \in Peers(c)}

\* The process ends.
Ends == pc' = "off" /\ config' = None /\ todo' = {} /\ added' = {} /\ blind' = FALSE

Goes(to) == pc' = to /\ UNCHANGED <<config, added, blind, dirty>>

----------------------------------------------------------------------------
\* WireGuardManager.Apply.  Its errors end the process.

WireGuardFails == Ends /\ UNCHANGED <<dirty, kernel>>

StartAgent(c) ==
    /\ pc = "off" /\ Validate(c)
    /\ pc' = "link" /\ config' = c
    /\ UNCHANGED <<todo, added, blind, dirty, kernel>>

\* ip link show, and ip link add when it fails.
EnsureLink ==
    /\ pc = "link"
    /\ \/ link # "absent" /\ Goes("peers") /\ UNCHANGED <<todo, kernel>>
       \/ link = "absent" /\ link' = "down" /\ Goes("peers") /\ UNCHANGED <<todo, wg, addrs, routes>>
       \/ WireGuardFails

\* Mutant: peers of an earlier configuration are left alone.
ShowPeersKeeps ==
    /\ pc = "peers"
    /\ \/ todo' = {} /\ Goes("stale") /\ UNCHANGED kernel
       \/ /\ pc' = "set" /\ blind' = TRUE
          /\ UNCHANGED <<config, todo, added, dirty, kernel>>
       \/ WireGuardFails

\* The private key file is written, then wg show lists the peers.  When wg
\* show fails nothing is removed.
ShowPeers ==
    /\ pc = "peers"
    /\ \/ todo' = {p \in wg : p.key \notin Keys(config)} /\ Goes("stale") /\ UNCHANGED kernel
       \/ /\ pc' = "set" /\ blind' = TRUE
          /\ UNCHANGED <<config, todo, added, dirty, kernel>>
       \/ WireGuardFails

RemoveStalePeer ==
    /\ pc = "stale"
    /\ \/ todo = {} /\ Goes("set") /\ UNCHANGED <<todo, kernel>>
       \/ \E p \in todo :
             /\ wg' = wg \ {p} /\ todo' = todo \ {p}
             /\ UNCHANGED <<pc, config, added, blind, dirty, link, addrs, routes>>
       \/ todo # {} /\ WireGuardFails

\* wg set: a peer named again, or whose address another is given, loses it.
Configured(peers, c) ==
    {p \in peers : p.key \notin Keys(c) /\ p.ip \notin IPs(c)} \cup
    {c.peers[i] : i \in {k \in DOMAIN c.peers : \A j \in (k + 1)..Len(c.peers) :
                             c.peers[j].key # c.peers[k].key /\ c.peers[j].ip # c.peers[k].ip}}

SetPeers ==
    /\ pc = "set"
    /\ \/ wg' = Configured(wg, config) /\ Goes("up") /\ UNCHANGED <<todo, link, addrs, routes>>
       \/ WireGuardFails

LinkUp ==
    /\ pc = "up"
    /\ \/ link' = "up" /\ Goes("address") /\ UNCHANGED <<todo, wg, addrs, routes>>
       \/ WireGuardFails

----------------------------------------------------------------------------
\* RouteManager.Apply, and Runtime.Apply's rollback.

\* ip addr add fails when the address is there already.
AddAddress ==
    /\ pc = "address"
    /\ \/ /\ config.address \notin addrs
          /\ addrs' = addrs \cup {config.address}
          /\ pc' = "routes" /\ todo' = IPs(config) /\ added' = {config.address}
          /\ UNCHANGED <<config, blind, dirty, link, wg, routes>>
       \/ Goes("down") /\ UNCHANGED <<todo, kernel>>

\* ip route add fails when the route is there already.
AddRoute ==
    /\ pc = "routes"
    /\ \/ \E ip \in todo \ routes :
             /\ routes' = routes \cup {ip}
             /\ todo' = todo \ {ip} /\ added' = added \cup {ip}
             /\ UNCHANGED <<pc, config, blind, dirty, link, wg, addrs>>
       \/ todo # {} /\ Goes("undo") /\ UNCHANGED <<todo, kernel>>
       \/ /\ todo = {}
          /\ pc' = "serving" /\ added' = {}
          /\ UNCHANGED <<config, todo, blind, dirty, kernel>>

\* Delete the entries, except those whose deletion fails: the relay's own
\* address is deleted as an address, any other as a route.
Deletes(entries, kept) ==
    LET gone == entries \ kept
    IN  /\ addrs' = addrs \ (gone \cap {config.address})
        /\ routes' = routes \ (gone \ {config.address})
        /\ dirty' = (dirty \/ kept # {})
        /\ UNCHANGED <<link, wg>>

\* The errors are ignored.
UndoAdded ==
    /\ pc = "undo"
    /\ \E kept \in SUBSET added :
          /\ Deletes(added, kept)
          /\ pc' = "down" /\ added' = {} /\ todo' = {}
    /\ UNCHANGED <<config, blind>>

\* WireGuardManager.Down: with the interface go its routes, not its addresses.
\* It may fail.
Down ==
    /\ \/ link' = "down" /\ routes' = {} /\ UNCHANGED dirty
       \/ UNCHANGED <<link, routes>> /\ dirty' = TRUE
    /\ UNCHANGED <<wg, addrs>>

\* Mutant: Apply returns its error with the interface still up.
RollbackSkipped ==
    /\ pc = "down"
    /\ Ends
    /\ UNCHANGED <<dirty, kernel>>

\* Down fails, or the interface is down; Apply returns its error.
RollbackDown ==
    /\ pc = "down"
    /\ Ends
    /\ Down

----------------------------------------------------------------------------
\* The signal, Runtime.Clear, and the end of the process.

Signal ==
    /\ pc = "serving"
    /\ Goes("clear")
    /\ UNCHANGED <<todo, kernel>>

\* RouteManager.Clear: the owned routes, then the address.
ClearRoutes ==
    /\ pc = "clear"
    /\ LET owned == IPs(config) \cup {config.address}
       IN  \E kept \in SUBSET owned : Deletes(owned, kept)
    /\ pc' = "cleardown"
    /\ UNCHANGED <<config, todo, added, blind>>

\* Down runs whether or not the routes were cleared.
ClearDown ==
    /\ pc = "cleardown"
    /\ Ends
    /\ Down

\* Killed, or a signal before NotifyContext asked for it.
Kill ==
    /\ pc # "off"
    /\ Ends
    /\ dirty' = TRUE
    /\ UNCHANGED kernel

----------------------------------------------------------------------------
AgentStep ==
    \/ EnsureLink \/ ShowPeers \/ RemoveStalePeer \/ SetPeers \/ LinkUp
    \/ AddAddress \/ AddRoute \/ UndoAdded \/ RollbackDown \/ ClearRoutes \/ ClearDown

Next == (\E c \in Config : StartAgent(c)) \/ AgentStep \/ Signal \/ Kill

Spec == Init /\ [][Next]_vars

----------------------------------------------------------------------------
\* Properties.

\* The agent's variables hold values of their types, and the entries it has
\* added are in the kernel.
TypeOK ==
    /\ pc \in {"off", "link", "peers", "stale", "set", "up", "address", "routes", "undo",
               "down", "serving", "clear", "cleardown"}
    /\ config \in Config \cup {None} /\ (config = None) = (pc = "off")
    /\ todo \subseteq (IF pc = "stale" THEN Peer ELSE IP) /\ added \subseteq addrs \cup routes
    /\ blind \in BOOLEAN /\ dirty \in BOOLEAN
    /\ link \in {"absent", "down", "up"}
    /\ wg \subseteq Peer /\ addrs \subseteq IP /\ routes \subseteq IP

\* A relay that serves has exactly the peers of its configuration, whatever
\* earlier processes left (unless wg show failed), and its interface, its
\* address and every route are up: no error on the way went unnoticed.
ServesConfiguration ==
    pc = "serving" =>
        /\ blind \/ wg = Peers(config)
        /\ Peers(config) \subseteq wg /\ IPs(config) \subseteq routes
        /\ config.address \in addrs /\ link = "up"

\* A process that could clean up leaves nothing the next one trips over: after
\* a failed Apply or a Clear, no address and no route is left and the interface
\* is down.  Only a kill, a failed deletion or a failed Down makes the next
\* process's "ip addr add" fail.
NothingLeft ==
    (pc = "off" /\ ~dirty) => addrs = {} /\ routes = {} /\ link # "up"

----------------------------------------------------------------------------
\* The inductive invariant: what holds at each step of the way.

\* WireGuardManager.Apply: the peers of earlier processes go, the configured
\* ones come, then the interface is up.
PeersOnTheWay ==
    /\ pc # "off" => Validate(config)
    /\ pc = "stale" => \A p \in wg \ todo : p.key \in Keys(config)
    /\ pc = "set" => blind \/ \A p \in wg : p.key \in Keys(config)
    /\ pc \in {"up", "address", "routes", "serving"} =>
          Peers(config) \subseteq wg /\ (blind \/ wg = Peers(config))
    /\ pc \in {"address", "routes", "serving"} => link = "up"

\* RouteManager.Apply: its list of added entries is what it has put into the
\* kernel so far.
RoutesOnTheWay ==
    /\ pc \notin {"routes", "undo"} => added = {}
    /\ pc \in {"routes", "serving"} => config.address \in addrs
    /\ pc = "routes" => todo \subseteq IPs(config) /\ IPs(config) \ todo \subseteq routes
    /\ pc = "serving" => IPs(config) \subseteq routes

\* While nothing has failed to be undone, the kernel holds what this process
\* has put there and nothing else.
KernelOnTheWay ==
    ~dirty =>
        /\ pc \in {"off", "link", "peers", "stale", "set", "up"} => link # "up"
        /\ pc \notin {"routes", "undo", "serving", "clear"} => addrs = {} /\ routes = {}
        /\ pc \in {"routes", "undo"} => addrs = {config.address} /\ added = addrs \cup routes
        /\ pc \in {"routes", "undo", "serving", "clear"} => config.address \notin routes
        /\ pc \in {"serving", "clear"} => addrs = {config.address} /\ routes = IPs(config)
        /\ pc \in {"routes", "undo"} => routes \subseteq IPs(config)

Inv == TypeOK /\ PeersOnTheWay /\ RoutesOnTheWay /\ KernelOnTheWay

=============================================================================
