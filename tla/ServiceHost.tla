---------------------------- MODULE ServiceHost ----------------------------
(***************************************************************************)
(* The process around the node service on a Windows machine: the service   *)
(* host (cmd/vpn-service), the identity record it loads twice on its way   *)
(* up (internal/identity), the named-pipe server and its connection        *)
(* goroutines (internal/ipc), Shutdown, and two local clients: the         *)
(* installer's connection wizard, which repeats a call that got no answer, *)
(* and vpnctl, which does not.  The service control manager runs at most   *)
(* one process; it may be stopped, or die, at any point.                   *)
(*                                                                         *)
(* NodeService has the operations in full; here an operation is its steps  *)
(* against the control server and the data plane, each of which succeeds   *)
(* or fails, because what matters is who runs them and when.  The wording  *)
(* and size of messages and the caller check, which lets everyone in, are  *)
(* left out.                                                               *)
(***************************************************************************)
EXTENDS Integers

CONSTANTS
    MaxStarts,  \* bound: processes started
    MaxCalls,   \* bound: pipe connections at a time
    MaxKeys,    \* bound: key pairs generated
    VpnctlCommands  \* bound: the commands given to vpnctl

ASSUME CommandsAssumption ==
    VpnctlCommands \subseteq {"status", "join", "connect", "leave", "disconnect"}
ASSUME BoundsAssumption == {MaxStarts, MaxCalls, MaxKeys} \subseteq Nat \ {0}

Call    == 1..MaxCalls
NoCall  == 0
Key     == 1..MaxKeys
NoKey   == 0
Command == {"status", "join", "connect", "leave", "disconnect"}

\* Who holds operationMu: nobody, the goroutine of a call, or Shutdown.
Free         == 0
ShutdownCall == MaxCalls + 1

\* A pipe connection: its client and command, where its goroutine is, whether both ends
\* are open, and the response.  A "joined" response is a status that names a
\* network.
Connection ==
    [by    : {"wizard", "vpnctl"},
     cmd   : Command,
     pc    : {"unused", "queued", "accepted", "reading", "waiting", "control", "apply",
              "clear", "answered"},
     wire  : {"open", "cut"},
     reply : {"none", "ok", "joined", "error"}]

VARIABLES
    host,     \* executeService: its phase, and whether cancel was called
    at,       \* where the goroutine running serve is
    loads,    \* the LoadOrCreate calls it has completed
    fresh,    \* the key pair LoadOrCreate is creating
    keys,     \* the data plane's private key, and Service.identity
    pipe,     \* ipc.Server: not made, open, closed set, listener closed
    conn,     \* the connections
    mu,       \* operationMu
    svc,      \* Service: started, and whether a network is joined
    plane,    \* the applier holds an applied data plane
    unclear,  \* history: Shutdown's Clear failed in this process
    file,     \* the key pair in identity.json
    enrolled, \* the public keys of this machine the control server holds
    client,   \* each client: its step and the call it waits for
    drawn,    \* key pairs generated so far
    starts    \* processes started so far

process == <<at, loads, fresh, keys, pipe, mu, svc, plane, unclear>>
vars == <<host, process, conn, file, enrolled, client, drawn, starts>>

NoConn == [by |-> "vpnctl", cmd |-> "status", pc |-> "unused", wire |-> "cut", reply |-> "none"]

Init ==
    /\ host = [phase |-> "off", cancelled |-> FALSE]
    /\ at = "none" /\ loads = 0 /\ fresh = NoKey
    /\ keys = [plane |-> NoKey, service |-> NoKey]
    /\ pipe = "none" /\ mu = Free /\ unclear = FALSE
    /\ svc = [started |-> FALSE, joined |-> FALSE] /\ plane = FALSE
    /\ conn = [n \in Call |-> NoConn]
    /\ file = NoKey /\ enrolled = {} /\ drawn = 0 /\ starts = 0
    /\ client = [wizard |-> [step |-> "first", call |-> NoCall],
                 vpnctl |-> [step |-> "idle", call |-> NoCall]]

----------------------------------------------------------------------------
\* The service host: executeService and stopService.

StartProcess ==
    /\ host.phase = "off" /\ starts < MaxStarts
    /\ host' = [phase |-> "running", cancelled |-> FALSE]
    /\ at' = "read"
    /\ starts' = starts + 1
    /\ UNCHANGED <<loads, fresh, keys, pipe, mu, svc, plane, unclear,
                   conn, file, enrolled, client, drawn>>

\* A Stop or Shutdown request, or the request channel closes.
Stop ==
    /\ host.phase = "running"
    /\ host' = [phase |-> "stopping", cancelled |-> TRUE]
    /\ UNCHANGED <<process, conn, file, enrolled, client, drawn, starts>>

\* The process is gone, and with it everything it kept in memory.
Gone ==
    /\ host' = [phase |-> "off", cancelled |-> FALSE]
    /\ at' = "none" /\ loads' = 0 /\ fresh' = NoKey
    /\ keys' = [plane |-> NoKey, service |-> NoKey]
    /\ pipe' = "none" /\ mu' = Free /\ unclear' = FALSE
    /\ svc' = [started |-> FALSE, joined |-> FALSE] /\ plane' = FALSE
    /\ conn' = [n \in Call |->
                  IF conn[n].pc \in {"unused", "answered"} THEN conn[n]
                  ELSE NoConn]
    /\ UNCHANGED <<file, enrolled, client, drawn, starts>>

\* serveResult is ready, or ctx.Done, which cancel has made ready already.
Exit ==
    /\ host.phase # "off"
    /\ at = "done" \/ host.cancelled
    /\ Gone

Crash == host.phase # "off" /\ Gone

----------------------------------------------------------------------------
\* runService and Service.Start: LoadOrCreate for the private key, and again
\* for the public key.  A failure ends serve.

Fails == at' = "done" /\ UNCHANGED <<loads, fresh, keys, svc, file, drawn>>

\* LoadOrCreate returns key k.
Loaded(k) ==
    /\ loads' = loads + 1
    /\ fresh' = NoKey
    /\ \/ loads = 0 /\ keys' = [keys EXCEPT !.plane = k] /\ at' = "read" /\ UNCHANGED svc
       \/ /\ loads = 1
          /\ keys' = [keys EXCEPT !.service = k]
          /\ IF host.cancelled THEN at' = "done" /\ UNCHANGED svc
             ELSE at' = "listen" /\ svc' = [svc EXCEPT !.started = TRUE]

\* Mutant: a record that cannot be read or unprotected counts as absent.
LoadOrCreateReplaces ==
    /\ at = "read"
    /\ \/ file # NoKey /\ Loaded(file) /\ UNCHANGED <<file, drawn>>
       \/ /\ drawn < MaxKeys
          /\ drawn' = drawn + 1 /\ fresh' = drawn' /\ at' = "temp"
          /\ UNCHANGED <<loads, keys, svc, file>>
       \/ Fails
    /\ UNCHANGED <<host, pipe, mu, plane, unclear, conn, enrolled, client, starts>>

\* ReadFile: the record is loaded; there is none and one is created; or it
\* cannot be read, parsed or unprotected, and is left alone.
LoadOrCreate ==
    /\ at = "read"
    /\ \/ file # NoKey /\ Loaded(file) /\ UNCHANGED <<file, drawn>>
       \/ /\ file = NoKey /\ drawn < MaxKeys
          /\ drawn' = drawn + 1 /\ fresh' = drawn' /\ at' = "temp"
          /\ UNCHANGED <<loads, keys, svc, file>>
       \/ Fails
    /\ UNCHANGED <<host, pipe, mu, plane, unclear, conn, enrolled, client, starts>>

\* write: the temporary file beside it is written and synced.
WriteTemporary ==
    /\ at = "temp"
    /\ \/ at' = "rename" /\ UNCHANGED <<loads, fresh, keys, svc, file, drawn>>
       \/ Fails
    /\ UNCHANGED <<host, pipe, mu, plane, unclear, conn, enrolled, client, starts>>

Rename ==
    /\ at = "rename"
    /\ \/ file' = fresh /\ at' = "secure" /\ UNCHANGED <<loads, fresh, keys, svc, drawn>>
       \/ Fails
    /\ UNCHANGED <<host, pipe, mu, plane, unclear, conn, enrolled, client, starts>>

SecureRecord ==
    /\ at = "secure"
    /\ \/ Loaded(fresh) /\ UNCHANGED <<file, drawn>>
       \/ Fails
    /\ UNCHANGED <<host, pipe, mu, plane, unclear, conn, enrolled, client, starts>>

----------------------------------------------------------------------------
\* ServeWindows after Start, and ipc.Server.

Goroutine(n) == conn[n].pc \in {"reading", "waiting", "control", "apply", "clear"}
Cut(c)       == [c EXCEPT !.wire = "cut"]

Listen ==
    /\ at = "listen"
    /\ \/ at' = "accept" /\ pipe' = "open"
       \/ at' = "shutdown" /\ UNCHANGED pipe
    /\ UNCHANGED <<host, loads, fresh, keys, mu, svc, plane, unclear, conn, file, enrolled,
                   client, drawn, starts>>

Accept(n) ==
    /\ at = "accept" /\ pipe # "shut"
    /\ conn[n].pc = "queued"
    /\ conn' = [conn EXCEPT ![n].pc = "accepted"]
    /\ at' = "track"
    /\ UNCHANGED <<host, loads, fresh, keys, pipe, mu, svc, plane, unclear, file, enrolled,
                   client, drawn, starts>>

\* Accept fails because Close closed the listener, or for another reason.
AcceptFails ==
    /\ at = "accept"
    /\ at' = "close"
    /\ UNCHANGED <<host, loads, fresh, keys, pipe, mu, svc, plane, unclear, conn, file,
                   enrolled, client, drawn, starts>>

\* Mutant: closed is not looked at.
TrackAll(n) ==
    /\ at = "track" /\ conn[n].pc = "accepted"
    /\ conn' = [conn EXCEPT ![n].pc = "reading"]
    /\ at' = "accept"
    /\ UNCHANGED <<host, loads, fresh, keys, pipe, mu, svc, plane, unclear, file, enrolled,
                   client, drawn, starts>>

\* track, and go handleConnection.
Track(n) ==
    /\ at = "track" /\ conn[n].pc = "accepted"
    /\ conn' = [conn EXCEPT ![n] = IF pipe = "open" THEN [@ EXCEPT !.pc = "reading"]
                                   ELSE NoConn]
    /\ at' = "accept"
    /\ UNCHANGED <<host, loads, fresh, keys, pipe, mu, svc, plane, unclear, file, enrolled,
                   client, drawn, starts>>

\* Close runs once: in the goroutine that waits for ctx.Done, or deferred when
\* Serve has returned.  It marks the server closed and closes the tracked
\* connections, then the listener.
CloseMarks ==
    /\ pipe = "open"
    /\ host.cancelled \/ at = "close"
    /\ pipe' = "closing"
    /\ conn' = [n \in Call |-> IF Goroutine(n) THEN Cut(conn[n]) ELSE conn[n]]
    /\ UNCHANGED <<host, at, loads, fresh, keys, mu, svc, plane, unclear, file, enrolled,
                   client, drawn, starts>>

CloseListener ==
    /\ pipe = "closing"
    /\ pipe' = "shut"
    /\ conn' = [n \in Call |-> IF conn[n].pc = "queued" THEN NoConn ELSE conn[n]]
    /\ UNCHANGED <<host, at, loads, fresh, keys, mu, svc, plane, unclear, file, enrolled,
                   client, drawn, starts>>

ServeReturns ==
    /\ at = "close" /\ pipe = "shut"
    /\ at' = "shutdown"
    /\ UNCHANGED <<host, loads, fresh, keys, pipe, mu, svc, plane, unclear, conn, file,
                   enrolled, client, drawn, starts>>

\* Mutant: Shutdown does not wait for the operation under way.
ShutdownUnlocked ==
    /\ at = "shutdown"
    /\ mu' = ShutdownCall
    /\ at' = "clear"
    /\ UNCHANGED <<host, loads, fresh, keys, pipe, svc, plane, unclear, conn, file, enrolled,
                   client, drawn, starts>>

ShutdownBegins ==
    /\ at = "shutdown" /\ mu = Free
    /\ mu' = ShutdownCall
    /\ at' = "clear"
    /\ UNCHANGED <<host, loads, fresh, keys, pipe, svc, plane, unclear, conn, file, enrolled,
                   client, drawn, starts>>

\* Mutant: the service stays started.
ShutdownStaysStarted ==
    /\ at = "clear"
    /\ \/ plane' = FALSE /\ UNCHANGED unclear
       \/ unclear' = TRUE /\ UNCHANGED plane
    /\ svc' = [svc EXCEPT !.joined = FALSE]
    /\ mu' = Free /\ at' = "done"
    /\ UNCHANGED <<host, loads, fresh, keys, pipe, conn, file, enrolled, client, drawn, starts>>

\* Clear succeeds, or fails, as it does when the ten seconds Shutdown was
\* given are over before it has operationMu.
ShutdownClears ==
    /\ at = "clear"
    /\ \/ plane' = FALSE /\ UNCHANGED unclear
       \/ unclear' = TRUE /\ UNCHANGED plane
    /\ svc' = [started |-> FALSE, joined |-> FALSE]
    /\ mu' = Free /\ at' = "done"
    /\ UNCHANGED <<host, loads, fresh, keys, pipe, conn, file, enrolled, client, drawn, starts>>

----------------------------------------------------------------------------
\* handleConnection and Service.Handle, with the steps of an operation.

\* Write, which a closed connection refuses; then untrack and close.
Replying(n, reply) ==
    conn' = [conn EXCEPT ![n] = IF @.wire = "open"
                                THEN [@ EXCEPT !.pc = "answered", !.reply = reply]
                                ELSE NoConn]

Handling(n, pc) == conn' = [conn EXCEPT ![n].pc = pc]

\* ReadAll, and Handle up to operationMu.
ReadRequest(n) ==
    /\ conn[n].pc = "reading"
    /\ \/ conn[n].wire = "cut" /\ conn' = [conn EXCEPT ![n] = NoConn]
       \/ /\ conn[n].wire = "open"
          /\ \/ host.cancelled /\ Replying(n, "error")
             \/ /\ ~host.cancelled /\ conn[n].cmd = "status"
                /\ Replying(n, IF ~svc.started THEN "error"
                               ELSE IF svc.joined THEN "joined" ELSE "ok")
             \/ ~host.cancelled /\ conn[n].cmd # "status" /\ Handling(n, "waiting")
    /\ UNCHANGED <<host, process, file, enrolled, client, drawn, starts>>

\* What an operation does first, if it is not refused.
FirstStep(cmd) ==
    IF ~svc.started \/ svc.joined = (cmd = "join") THEN "refused"
    ELSE IF cmd \in {"join", "connect"} THEN "control" ELSE "clear"

\* Mutant: a refused operation keeps operationMu.
OperationBeginsKeeping(n) ==
    /\ conn[n].pc = "waiting" /\ mu = Free
    /\ mu' = n
    /\ IF FirstStep(conn[n].cmd) = "refused" THEN Replying(n, "error")
       ELSE Handling(n, FirstStep(conn[n].cmd))
    /\ UNCHANGED <<host, at, loads, fresh, keys, pipe, svc, plane, unclear, file, enrolled,
                   client, drawn, starts>>

OperationBegins(n) ==
    /\ conn[n].pc = "waiting" /\ mu = Free
    /\ IF FirstStep(conn[n].cmd) = "refused" THEN Replying(n, "error") /\ UNCHANGED mu
       ELSE Handling(n, FirstStep(conn[n].cmd)) /\ mu' = n
    /\ UNCHANGED <<host, at, loads, fresh, keys, pipe, svc, plane, unclear, file, enrolled,
                   client, drawn, starts>>

\* The operation returns and gives up operationMu.
Returns(n, reply) == Replying(n, reply) /\ mu' = Free

\* The control server: what the request of command cmd makes of enrolled.
AfterRequest(cmd) ==
    CASE cmd = "join"  -> enrolled \cup {keys.service}
      [] cmd = "leave" -> enrolled \ {keys.service}
      [] OTHER         -> enrolled

\* An HTTP request under the connection's context, which cancel ends.  A join
\* is refused when the key is enrolled; a failed request may have been served.
ControlStep(n) ==
    /\ conn[n].pc = "control"
    /\ LET cmd == conn[n].cmd
       IN  \/ /\ ~host.cancelled
              /\ cmd = "join" => keys.service \notin enrolled
              /\ enrolled' = AfterRequest(cmd)
              /\ \/ /\ cmd = "leave"
                    /\ svc' = [svc EXCEPT !.joined = FALSE]
                    /\ Returns(n, "ok")
                 \/ cmd # "leave" /\ Handling(n, "apply") /\ UNCHANGED <<mu, svc>>
           \/ /\ Returns(n, "error")
              /\ enrolled' \in {enrolled, AfterRequest(cmd)}
              /\ UNCHANGED svc
    /\ UNCHANGED <<host, at, loads, fresh, keys, pipe, plane, unclear, file, client, drawn, starts>>

\* Applier.Apply; a failed join asks the control server to undo it.
ApplyStep(n) ==
    /\ conn[n].pc = "apply"
    /\ \/ /\ plane' = TRUE
          /\ svc' = [svc EXCEPT !.joined = TRUE]
          /\ Returns(n, "ok")
          /\ UNCHANGED enrolled
       \/ /\ Returns(n, "error")
          /\ enrolled' \in {enrolled, IF conn[n].cmd = "join" THEN AfterRequest("leave") ELSE enrolled}
          /\ UNCHANGED <<svc, plane>>
    /\ UNCHANGED <<host, at, loads, fresh, keys, pipe, unclear, file, client, drawn, starts>>

\* Applier.Clear in leave and disconnect.
ClearStep(n) ==
    /\ conn[n].pc = "clear"
    /\ \/ /\ plane' = FALSE
          /\ \/ conn[n].cmd = "leave" /\ Handling(n, "control") /\ UNCHANGED mu
             \/ conn[n].cmd # "leave" /\ Returns(n, "ok")
       \/ Returns(n, "error") /\ UNCHANGED plane
    /\ UNCHANGED <<host, at, loads, fresh, keys, pipe, svc, unclear, file, enrolled, client,
                   drawn, starts>>

----------------------------------------------------------------------------
\* The clients: ipc.Client.Call, and the wizard's callService around it.

\* Mutant: a join has the short deadline.
ShortJoin(cmd) == cmd \in {"status", "disconnect", "join"}

\* commandTimeoutClass: a local command has five seconds, a network command
\* forty-five, more than callService allows for all its attempts together.
Local(cmd) == cmd \in {"status", "disconnect"}

CommandOf(step) == IF step \in {"first", "final"} THEN "status" ELSE step
Calling(c)      == client[c].step \notin {"idle", "done", "failed"}
Waiting(c)      == client[c].call # NoCall

\* A connection nobody uses: both ends have closed it.
Unused(n) == conn[n] = NoConn /\ \A c \in {"wizard", "vpnctl"} : client[c].call # n
FirstUnused(n) == Unused(n) /\ \A m \in 1..(n - 1) : ~Unused(m)

\* The pipe is there to be opened.
Dial(c, cmd, n) ==
    /\ pipe \in {"open", "closing"} /\ FirstUnused(n)
    /\ conn' = [conn EXCEPT ![n] = [by |-> c, cmd |-> cmd, pc |-> "queued", wire |-> "open",
                                     reply |-> "none"]]
    /\ UNCHANGED <<host, process, file, enrolled, drawn, starts>>

WizardCalls(n) ==
    /\ Calling("wizard") /\ ~Waiting("wizard")
    /\ Dial("wizard", CommandOf(client["wizard"].step), n)
    /\ client' = [client EXCEPT !["wizard"].call = n]

VpnctlCalls(cmd, n) ==
    /\ client["vpnctl"].step = "idle"
    /\ Dial("vpnctl", cmd, n)
    /\ client' = [client EXCEPT !["vpnctl"] = [step |-> cmd, call |-> n]]

\* runConnectionWizard: what follows an answer.
After(step, reply) ==
    CASE reply = "error"  -> "failed"
      [] step = "first"   -> IF reply = "joined" THEN "connect" ELSE "join"
      [] step = "join"    -> "connect"
      [] step = "connect" -> "final"
      [] OTHER            -> "done"

Answered(c) ==
    /\ Waiting(c)
    /\ LET n == client[c].call
       IN  /\ conn[n].pc = "answered"
           /\ conn' = [conn EXCEPT ![n] = NoConn]
           /\ client' = [client EXCEPT ![c] =
                 [step |-> IF c = "wizard" THEN After(@.step, conn[n].reply) ELSE "done",
                  call |-> NoCall]]
    /\ UNCHANGED <<host, process, file, enrolled, drawn, starts>>

\* The server's end is gone without an answer: the wizard will call again.
CallBreaks(c) ==
    /\ Waiting(c)
    /\ conn[client[c].call].wire = "cut"
    /\ client' = [client EXCEPT ![c] =
                     [step |-> IF c = "wizard" THEN @.step ELSE "done", call |-> NoCall]]
    /\ UNCHANGED <<host, process, conn, file, enrolled, drawn, starts>>

\* The deadline of one call: the wizard calls again if it has time left.
CallTimesOut(c) ==
    /\ Waiting(c)
    /\ LET n == client[c].call
       IN  /\ conn[n].wire = "open" /\ conn[n].pc # "answered"
           /\ conn' = [conn EXCEPT ![n] = Cut(@)]
           /\ client' = [client EXCEPT ![c] =
                 [step |-> IF c # "wizard" THEN "done"
                           ELSE IF Local(conn[n].cmd) THEN @.step ELSE "failed",
                  call |-> NoCall]]
    /\ UNCHANGED <<host, process, file, enrolled, drawn, starts>>

\* The thirty seconds of callService are over.
WizardGivesUp ==
    /\ Calling("wizard") /\ ~Waiting("wizard")
    /\ client' = [client EXCEPT !["wizard"].step = "failed"]
    /\ UNCHANGED <<host, process, conn, file, enrolled, drawn, starts>>

----------------------------------------------------------------------------
HostStep == StartProcess \/ Stop \/ Exit \/ Crash

ServeStep ==
    \/ LoadOrCreate \/ WriteTemporary \/ Rename \/ SecureRecord \/ Listen
    \/ \E n \in Call : Accept(n) \/ Track(n)
    \/ AcceptFails \/ ServeReturns \/ ShutdownBegins \/ ShutdownClears

CloseStep == CloseMarks \/ CloseListener

HandlerStep(n) ==
    \/ ReadRequest(n) \/ OperationBegins(n) \/ ControlStep(n) \/ ApplyStep(n)
    \/ ClearStep(n)

ClientStep ==
    \/ \E n \in Call : WizardCalls(n) \/ \E cmd \in VpnctlCommands : VpnctlCalls(cmd, n)
    \/ \E c \in {"wizard", "vpnctl"} : Answered(c) \/ CallBreaks(c) \/ CallTimesOut(c)
    \/ WizardGivesUp

Next == HostStep \/ ServeStep \/ CloseStep \/ (\E n \in Call : HandlerStep(n)) \/ ClientStep

\* Goroutines run on; nothing is assumed of the clients, of the service
\* control manager or of the process staying alive.
Spec ==
    /\ Init /\ [][Next]_vars
    /\ WF_vars(ServeStep) /\ WF_vars(CloseStep)
    /\ \A n \in Call : WF_vars(HandlerStep(n))
    /\ \A n \in Call : SF_vars(Accept(n)) /\ SF_vars(OperationBegins(n))

----------------------------------------------------------------------------
\* Properties.

\* The host, the serving goroutine, the pipe, the service and the clients hold
\* values of their types, and operationMu is held by whoever is inside it.
TypeOK ==
    /\ host \in [phase : {"off", "running", "stopping"}, cancelled : BOOLEAN]
    /\ at \in {"none", "read", "temp", "rename", "secure", "listen", "accept", "track",
               "close", "shutdown", "clear", "done"}
    /\ loads \in 0..2 /\ {fresh, file} \subseteq Key \cup {NoKey}
    /\ keys \in [plane : Key \cup {NoKey}, service : Key \cup {NoKey}]
    /\ pipe \in {"none", "open", "closing", "shut"}
    /\ conn \in [Call -> Connection]
    /\ svc \in [started : BOOLEAN, joined : BOOLEAN]
    /\ {plane, unclear} \subseteq BOOLEAN
    /\ enrolled \subseteq Key
    /\ client \in [{"wizard", "vpnctl"} ->
                     [step : Command \cup {"idle", "first", "final", "done", "failed"},
                      call : Call \cup {NoCall}]]
    /\ drawn \in 0..MaxKeys /\ starts \in 0..MaxStarts
    /\ mu \in {Free, ShutdownCall} \cup Call
    /\ \A n \in Call : (mu = n) = (conn[n].pc \in {"control", "apply", "clear"})
    /\ (mu = ShutdownCall) = (at = "clear")

\* Service.Shutdown is final: once serve has returned, no data plane is up
\* unless Clear failed, although connection goroutines that nobody waits for
\* still run, hold requests they have read, and queue for operationMu.
ShutdownReleases == (at = "done" /\ ~unclear) => ~plane

\* One key pair for the life of the machine: whatever fails and wherever the
\* process dies, the keys a control server holds for this machine are the one
\* on disk, and the private key of the data plane belongs to the public key
\* the service enrolls.
EnrolledKeyKept ==
    /\ enrolled \subseteq {file}
    /\ svc.started => keys.plane = file /\ keys.service = file

\* A connection that is accepted while the server closes is not left open: the
\* server that has closed serves nobody whose end is still open.
ClosedServesNobody ==
    pipe \in {"closing", "shut"} => \A n \in Call : Goroutine(n) => conn[n].wire = "cut"

\* The wizard's repeated calls do not overtake each other: a join or connect
\* is sent again only when its last attempt is no longer in the service.
RetryAlone ==
    \A n, m \in Call :
        (n # m /\ conn[n].by = "wizard" /\ conn[m].by = "wizard"
           /\ conn[n].cmd \in {"join", "connect"} /\ conn[m].cmd = conn[n].cmd)
        => ~(conn[n].pc \in {"waiting", "control", "apply"}
              /\ conn[m].pc \in {"waiting", "control", "apply"})

\* Every call ends on the server's side, with an answer or a closed pipe,
\* without the client's deadline having to pass.
EveryCallEnds ==
    \A n \in Call : (conn[n].pc = "queued") ~> (conn[n].pc \in {"answered", "unused"})

\* service.go:131-134, of Shutdown: it is used when the service receives Stop
\* so that WireGuard state, addresses and routes do not survive the process.
StopReleasesPlane == [][Exit => (plane => unclear)]_vars

----------------------------------------------------------------------------
\* The inductive invariant.

\* On its way up the process holds no plane, and the record is replaced only
\* while there is none: keys loaded before are the key on disk.
KeysOnTheWay ==
    /\ enrolled \subseteq {file}
    /\ at \in {"temp", "rename"} => file = NoKey /\ fresh \in Key
    /\ at = "secure" => file = fresh /\ fresh \in Key
    /\ loads > 0 => file # NoKey /\ keys.plane = file
    /\ loads = 2 => keys.service = file
    /\ svc.started => loads = 2 /\ at \notin {"none", "read", "temp", "rename", "secure", "done"}
    /\ plane => at \notin {"none", "read", "temp", "rename", "secure"}

\* A process that is not there holds nothing, and an operation runs only in a
\* service that is started.
ProcessPhases ==
    /\ (host.phase = "off") = (at = "none")
    /\ at = "none" => loads = 0 /\ pipe = "none" /\ mu = Free
    /\ at \in {"none", "read", "temp", "rename", "secure", "listen"} => pipe = "none"
    /\ pipe = "none" => \A n \in Call : conn[n].pc \in {"unused", "answered"}
    /\ \A n \in Call : conn[n].pc \in {"control", "apply", "clear"} => svc.started

\* A connection that carries a join or connect of the wizard.
WizardJoin(n) ==
    /\ conn[n].by = "wizard" /\ conn[n].cmd \in {"join", "connect"}
    /\ conn[n].pc # "unused"

\* The wizard waits for the one it can still hear from; one it cannot is its
\* last, or in a server that closes and takes up no other.
WizardAlone ==
    /\ client["wizard"].step = "failed" => client["wizard"].call = NoCall
    /\ client["wizard"].call = client["vpnctl"].call => client["wizard"].call = NoCall
    /\ \A n \in Call : conn[n].pc = "answered" => conn[n].wire = "open"
    /\ \A n \in Call : WizardJoin(n) =>
          IF conn[n].wire = "open" THEN client["wizard"].call = n
          ELSE client["wizard"].step = "failed" \/ pipe \in {"closing", "shut"}
    /\ \A n, m \in Call :
          (WizardJoin(n) /\ WizardJoin(m)
             /\ (pipe \in {"none", "open"} \/ (Goroutine(n) /\ Goroutine(m)))) => n = m

Inv ==
    /\ TypeOK /\ KeysOnTheWay /\ ProcessPhases /\ WizardAlone
    /\ ShutdownReleases /\ ClosedServesNobody

=============================================================================
