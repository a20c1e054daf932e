-------------------------- MODULE ServiceHostProofs --------------------------
(***************************************************************************)
(* The service process is correct for any number of starts, connections    *)
(* and key pairs.  Three arguments carry the proof.  The key record is     *)
(* created only when there is none, so a key that was loaded, and one that *)
(* was enrolled, is the one on disk (KeysOnTheWay).  An operation runs only *)
(* under operationMu in a started service, which Shutdown ends while it    *)
(* holds the mutex, so nothing raises the data plane afterwards            *)
(* (ProcessPhases).  And the wizard calls again only when its last call was *)
(* answered, or cut by a server that takes up no other (WizardAlone).      *)
(***************************************************************************)
EXTENDS ServiceHost, TLAPS

\* The numbers that stand for nobody are no call and no key.
LEMMA Numbers ==
    /\ MaxCalls \in Nat /\ MaxKeys \in Nat /\ MaxStarts \in Nat
    /\ NoCall \notin Call /\ NoKey \notin Key /\ Free \notin Call
    /\ ShutdownCall \notin Call /\ ShutdownCall # Free
BY BoundsAssumption DEF NoCall, Call, NoKey, Key, Free, ShutdownCall

\* A connection nobody has made is well typed.
LEMMA NoConnType == NoConn \in Connection
BY DEF NoConn, Connection, Command

\* Cutting a connection changes only its wire.
LEMMA CutType ==
    ASSUME NEW c \in Connection
    PROVE  /\ Cut(c) \in Connection /\ Cut(c).wire = "cut"
           /\ Cut(c).by = c.by /\ Cut(c).cmd = c.cmd /\ Cut(c).pc = c.pc
BY DEF Cut, Connection

Inside == {"control", "apply", "clear"}
Serving == {"reading", "waiting", "control", "apply", "clear"}

\* The server takes connection n on, or drops it: what a step of the accept
\* loop or of the connection's goroutine does to it.
Advances(n, c) ==
    /\ c \in Connection
    /\ conn' = [conn EXCEPT ![n] = c]
    /\ \/ c = NoConn
       \/ /\ c.by = conn[n].by /\ c.cmd = conn[n].cmd /\ c.wire = conn[n].wire
          /\ conn[n].pc # "unused" /\ c.pc # "unused"
          /\ c.pc = "answered" => c.wire = "open"
          /\ c.pc \in Serving => conn[n].pc \in Serving \/ pipe = "open"

\* Such a step keeps what the wizard relies on and what Close promises.
LEMMA AdvanceKeeps ==
    ASSUME Inv, NEW n \in Call, NEW c, Advances(n, c), UNCHANGED <<client, pipe>>
    PROVE  WizardAlone' /\ ClosedServesNobody' /\ conn' \in [Call -> Connection]
<1>1. conn \in [Call -> Connection] /\ conn' \in [Call -> Connection]
  BY DEF Advances, Inv, TypeOK
<1>2. \A m \in Call : conn'[m] = IF m = n THEN c ELSE conn[m]
  BY <1>1 DEF Advances
<1>3. NoConn.pc = "unused" /\ NoConn.wire = "cut"
  BY DEF NoConn
<1>4. \A m \in Call : WizardJoin(m)' =>
        WizardJoin(m) /\ conn'[m].wire = conn[m].wire
          /\ (Goroutine(m)' => Goroutine(m) \/ pipe = "open")
  BY <1>2, <1>3 DEF Advances, WizardJoin, Goroutine, Serving
<1>5. WizardAlone'
  BY <1>2, <1>3, <1>4 DEF Inv, WizardAlone, Advances
<1>6. ClosedServesNobody'
  BY <1>2, <1>3 DEF Inv, ClosedServesNobody, Advances, Goroutine, Serving
<1> QED BY <1>1, <1>5, <1>6

\* Write, and untrack: the connection is answered or gone.
LEMMA ReplyingAdvances ==
    ASSUME Inv, NEW n \in Call, NEW reply \in {"none", "ok", "joined", "error"},
           Replying(n, reply), conn[n].pc # "unused"
    PROVE  \E c : Advances(n, c) /\ c.pc \in {"answered", "unused"}
<1> DEFINE c == IF conn[n].wire = "open" THEN [conn[n] EXCEPT !.pc = "answered", !.reply = reply]
                ELSE NoConn
<1>1. conn[n] \in Connection
  BY DEF Inv, TypeOK
<1>2. conn' = [conn EXCEPT ![n] = c]
  BY DEF Replying
<1>3. c \in Connection /\ c.pc \in {"answered", "unused"}
  BY <1>1, NoConnType DEF Connection, NoConn
<1>4. c = NoConn \/ (c.by = conn[n].by /\ c.cmd = conn[n].cmd /\ c.wire = conn[n].wire
                      /\ c.pc = "answered" /\ c.wire = "open")
  BY <1>1 DEF Connection
<1> HIDE DEF c
<1>5. Advances(n, c)
  BY <1>2, <1>3, <1>4 DEF Advances, Serving
<1> QED BY <1>3, <1>5

\* The goroutine of a connection goes on to its next step.
LEMMA HandlingAdvances ==
    ASSUME Inv, NEW n \in Call, NEW pc \in Serving, Handling(n, pc), conn[n].pc \in Serving
    PROVE  \E c : Advances(n, c) /\ c.pc = pc
<1> DEFINE c == [conn[n] EXCEPT !.pc = pc]
<1>1. conn[n] \in Connection /\ conn \in [Call -> Connection]
  BY DEF Inv, TypeOK
<1>2. conn' = [conn EXCEPT ![n] = c]
  BY DEF Handling
<1>3. c \in Connection /\ c.pc = pc
  BY <1>1 DEF Connection, Serving
<1>4. c.by = conn[n].by /\ c.cmd = conn[n].cmd /\ c.wire = conn[n].wire
  BY <1>1 DEF Connection
<1> HIDE DEF c
<1>5. Advances(n, c)
  BY <1>2, <1>3, <1>4 DEF Advances, Serving
<1> QED BY <1>3, <1>5

\* A step that leaves the connections, the clients and the pipe alone.
LEMMA SameConnections ==
    ASSUME Inv, UNCHANGED <<conn, client, pipe>>
    PROVE  WizardAlone' /\ ClosedServesNobody'
BY DEF Inv, WizardAlone, WizardJoin, ClosedServesNobody, Goroutine

\* The process is gone: only answers that were already written remain.
LEMMA GoneInv == ASSUME Inv, Gone, host.phase # "off" PROVE Inv'
<1>1. conn \in [Call -> Connection] /\ conn' \in [Call -> Connection]
  BY NoConnType DEF Inv, TypeOK, Gone
<1>2. \A n \in Call : \/ conn'[n] = conn[n] /\ conn[n].pc \in {"unused", "answered"}
                      \/ conn'[n] = NoConn
  BY DEF Gone
<1>3. NoConn.pc = "unused" /\ NoConn.wire = "cut"
  BY DEF NoConn
<1>4. \A n \in Call : conn'[n].pc \in {"unused", "answered"}
  BY <1>2, <1>3
<1>5. \A n \in Call : WizardJoin(n)' => WizardJoin(n) /\ conn'[n] = conn[n]
                                          /\ conn[n].pc = "answered"
  BY <1>2, <1>3 DEF WizardJoin
<1>6. TypeOK'
  <2>1. /\ host' \in [phase : {"off", "running", "stopping"}, cancelled : BOOLEAN]
        /\ keys' \in [plane : Key \cup {NoKey}, service : Key \cup {NoKey}]
        /\ svc' \in [started : BOOLEAN, joined : BOOLEAN]
    BY DEF Gone
  <2>2. \A n \in Call : mu' # n /\ conn'[n].pc \notin {"control", "apply", "clear"}
    BY <1>4, Numbers DEF Gone
  <2>3. mu' # ShutdownCall /\ at' # "clear" /\ mu' = Free
    BY Numbers DEF Gone
  <2>4. {plane', unclear'} \subseteq BOOLEAN
    BY DEF Gone
  <2>5. \A n \in Call : (mu' = n) = (conn'[n].pc \in {"control", "apply", "clear"})
    BY <2>2
  <2>6. (mu' = ShutdownCall) = (at' = "clear")
    BY <2>3
  <2>7. {fresh', file'} \subseteq Key \cup {NoKey} /\ loads' \in 0..2
    BY DEF Inv, TypeOK, Gone
  <2> QED BY <1>1, <2>1, <2>3, <2>4, <2>5, <2>6, <2>7 DEF Inv, TypeOK, Gone
<1>7. KeysOnTheWay'
  BY DEF Inv, KeysOnTheWay, Gone
<1>8. ProcessPhases'
  BY <1>4 DEF ProcessPhases, Gone
<1>9. WizardAlone'
  BY <1>2, <1>3, <1>5 DEF Inv, WizardAlone, Gone
<1>10. ShutdownReleases' /\ ClosedServesNobody'
  BY DEF ShutdownReleases, ClosedServesNobody, Gone
<1> QED BY <1>6, <1>7, <1>8, <1>9, <1>10 DEF Inv

LEMMA HostStepInv == ASSUME Inv, HostStep PROVE Inv'
<1>1. CASE StartProcess
  <2>1. TypeOK'
    BY <1>1, Numbers DEF StartProcess, Inv, TypeOK, ProcessPhases
  <2>2. KeysOnTheWay' /\ ProcessPhases' /\ ShutdownReleases'
    BY <1>1 DEF StartProcess, Inv, KeysOnTheWay, ProcessPhases, ShutdownReleases
  <2>3. WizardAlone' /\ ClosedServesNobody'
    BY <1>1, SameConnections DEF StartProcess
  <2> QED BY <2>1, <2>2, <2>3 DEF Inv
<1>2. CASE Stop
  <2>1. TypeOK'
    BY <1>2 DEF Stop, process, Inv, TypeOK
  <2>2. KeysOnTheWay' /\ ProcessPhases' /\ ShutdownReleases'
    BY <1>2 DEF Stop, process, Inv, KeysOnTheWay, ProcessPhases, ShutdownReleases
  <2>3. WizardAlone' /\ ClosedServesNobody'
    BY <1>2, SameConnections DEF Stop, process
  <2> QED BY <2>1, <2>2, <2>3 DEF Inv
<1>3. CASE Exit \/ Crash
  BY <1>3, GoneInv DEF Exit, Crash
<1> QED BY <1>1, <1>2, <1>3 DEF HostStep

----------------------------------------------------------------------------
\* The way up.

\* A call of LoadOrCreate that fails ends serve before anything was started.
LEMMA FailsInv ==
    ASSUME Inv, Fails, at \in {"read", "temp", "rename", "secure"},
           UNCHANGED <<host, pipe, mu, plane, unclear, conn, enrolled, client, starts>>
    PROVE  Inv'
<1>1. TypeOK'
  BY DEF Fails, Inv, TypeOK
<1>2. KeysOnTheWay' /\ ProcessPhases' /\ ShutdownReleases'
  BY DEF Fails, Inv, KeysOnTheWay, ProcessPhases, ShutdownReleases
<1> QED BY <1>1, <1>2, SameConnections DEF Inv

\* LoadOrCreate returns the key that is on disk.
LEMMA LoadedInv ==
    ASSUME Inv, at \in {"read", "secure"}, file # NoKey, Loaded(file),
           UNCHANGED <<host, pipe, mu, plane, unclear, conn, enrolled, client, starts, file, drawn>>
    PROVE  Inv'
<1>1. loads' \in 0..2 /\ loads' = loads + 1 /\ fresh' = NoKey
  BY DEF Loaded
<1>2. /\ keys' \in [plane : Key \cup {NoKey}, service : Key \cup {NoKey}]
      /\ keys'.plane = file
      /\ loads' = 2 => keys'.service = file
  BY DEF Loaded, Inv, TypeOK, KeysOnTheWay
<1>3. svc' \in [started : BOOLEAN, joined : BOOLEAN] /\ at' \in {"read", "listen", "done"}
        /\ (svc'.started => loads' = 2 /\ at' = "listen")
  <2>1. svc \in [started : BOOLEAN, joined : BOOLEAN] /\ ~svc.started
    BY DEF Inv, TypeOK, KeysOnTheWay
  <2>2. CASE UNCHANGED svc /\ at' \in {"read", "done"}
    BY <2>1, <2>2
  <2>3. CASE loads = 1 /\ at' = "listen" /\ svc' = [svc EXCEPT !.started = TRUE]
    <3>1. svc' \in [started : BOOLEAN, joined : BOOLEAN]
      BY <2>1, <2>3, Zenon
    <3>2. loads' = 2
      BY <1>1, <2>3
    <3> QED BY <2>3, <3>1, <3>2
  <2> QED BY <2>2, <2>3 DEF Loaded
<1>4. TypeOK'
  BY <1>1, <1>2, <1>3 DEF Inv, TypeOK
<1>5. KeysOnTheWay'
  BY <1>1, <1>2, <1>3 DEF Inv, KeysOnTheWay
<1>6. ProcessPhases' /\ ShutdownReleases'
  BY <1>1, <1>2, <1>3 DEF Inv, ProcessPhases, KeysOnTheWay, ShutdownReleases, TypeOK
<1> QED BY <1>4, <1>5, <1>6, SameConnections DEF Inv

LEMMA LoadOrCreateInv == ASSUME Inv, LoadOrCreate PROVE Inv'
<1>1. CASE Fails
  BY <1>1, FailsInv DEF LoadOrCreate
<1>2. CASE file # NoKey /\ Loaded(file) /\ UNCHANGED <<file, drawn>>
  BY <1>2, LoadedInv DEF LoadOrCreate
<1>3. CASE /\ file = NoKey /\ drawn < MaxKeys
           /\ drawn' = drawn + 1 /\ fresh' = drawn' /\ at' = "temp"
           /\ UNCHANGED <<loads, keys, svc, file>>
  <2>1. drawn' \in 0..MaxKeys /\ fresh' \in Key
    BY <1>3, Numbers DEF Inv, TypeOK, Key
  <2>2. TypeOK'
    BY <1>3, <2>1 DEF LoadOrCreate, Inv, TypeOK
  <2>3. KeysOnTheWay' /\ ProcessPhases' /\ ShutdownReleases'
    BY <1>3, <2>1 DEF LoadOrCreate, Inv, KeysOnTheWay, ProcessPhases, ShutdownReleases
  <2> QED BY <2>2, <2>3, SameConnections DEF Inv, LoadOrCreate
<1> QED BY <1>1, <1>2, <1>3 DEF LoadOrCreate

LEMMA WriteTemporaryInv == ASSUME Inv, WriteTemporary PROVE Inv'
<1>1. CASE Fails
  BY <1>1, FailsInv DEF WriteTemporary
<1>2. CASE at' = "rename" /\ UNCHANGED <<loads, fresh, keys, svc, file, drawn>>
  <2>1. TypeOK'
    BY <1>2 DEF WriteTemporary, Inv, TypeOK
  <2>2. KeysOnTheWay' /\ ProcessPhases' /\ ShutdownReleases'
    BY <1>2 DEF WriteTemporary, Inv, KeysOnTheWay, ProcessPhases, ShutdownReleases
  <2> QED BY <2>1, <2>2, SameConnections DEF Inv, WriteTemporary
<1> QED BY <1>1, <1>2 DEF WriteTemporary

\* Nothing was loaded and nothing enrolled while there was no record.
LEMMA RenameInv == ASSUME Inv, Rename PROVE Inv'
<1>1. CASE Fails
  BY <1>1, FailsInv DEF Rename
<1>2. CASE file' = fresh /\ at' = "secure" /\ UNCHANGED <<loads, fresh, keys, svc, drawn>>
  <2>1. file = NoKey /\ fresh \in Key /\ ~(loads > 0) /\ loads # 2 /\ ~svc.started
    BY DEF Rename, Inv, KeysOnTheWay
  <2>2. enrolled = {}
    BY <2>1, Numbers DEF Inv, KeysOnTheWay, TypeOK
  <2>3. TypeOK'
    BY <1>2 DEF Rename, Inv, TypeOK
  <2>4. KeysOnTheWay'
    BY <1>2, <2>1, <2>2 DEF Rename, Inv, KeysOnTheWay
  <2>5. ProcessPhases' /\ ShutdownReleases'
    BY <1>2 DEF Rename, Inv, ProcessPhases, ShutdownReleases
  <2> QED BY <2>3, <2>4, <2>5, SameConnections DEF Inv, Rename
<1> QED BY <1>1, <1>2 DEF Rename

LEMMA SecureRecordInv == ASSUME Inv, SecureRecord PROVE Inv'
<1>1. CASE Fails
  BY <1>1, FailsInv DEF SecureRecord
<1>2. CASE Loaded(fresh) /\ UNCHANGED <<file, drawn>>
  <2>1. file = fresh /\ file # NoKey
    BY Numbers DEF SecureRecord, Inv, KeysOnTheWay
  <2> QED BY <1>2, <2>1, LoadedInv DEF SecureRecord
<1> QED BY <1>1, <1>2 DEF SecureRecord

----------------------------------------------------------------------------
\* The pipe server and Shutdown.

LEMMA ListenInv == ASSUME Inv, Listen PROVE Inv'
<1>1. TypeOK'
  BY DEF Listen, Inv, TypeOK
<1>2. KeysOnTheWay' /\ ShutdownReleases'
  BY DEF Listen, Inv, KeysOnTheWay, ShutdownReleases
<1>3. pipe = "none"
  BY DEF Listen, Inv, ProcessPhases
<1>4. ProcessPhases'
  BY DEF Listen, Inv, ProcessPhases
<1>5. WizardAlone' /\ ClosedServesNobody'
  BY <1>3 DEF Listen, Inv, WizardAlone, WizardJoin, ClosedServesNobody, Goroutine
<1> QED BY <1>1, <1>2, <1>4, <1>5 DEF Inv

\* The accept loop takes connection n on without entering operationMu.
LEMMA AcceptLoop ==
    ASSUME Inv, NEW n \in Call, NEW c, Advances(n, c), conn[n].pc \notin Inside, c.pc \notin Inside,
           at \in {"accept", "track"}, at' \in {"accept", "track"},
           pipe # "none",
           UNCHANGED <<host, loads, fresh, keys, pipe, mu, svc, plane, unclear, file, enrolled,
                       client, drawn, starts>>
    PROVE  Inv'
<1>1. conn \in [Call -> Connection] /\ \A m \in Call : conn'[m] = IF m = n THEN c ELSE conn[m]
  BY DEF Advances, Inv, TypeOK
<1>2. \A m \in Call : conn'[m].pc \in Inside <=> conn[m].pc \in Inside
  BY <1>1
<1>3. WizardAlone' /\ ClosedServesNobody' /\ conn' \in [Call -> Connection]
  BY AdvanceKeeps
<1>4. TypeOK'
  BY <1>2, <1>3 DEF Inv, TypeOK, Inside
<1>5. KeysOnTheWay' /\ ShutdownReleases'
  BY DEF Inv, KeysOnTheWay, ShutdownReleases
<1>6. ProcessPhases'
  BY <1>2 DEF Inv, ProcessPhases, Inside
<1> QED BY <1>3, <1>4, <1>5, <1>6 DEF Inv

LEMMA AcceptInv == ASSUME Inv, NEW n \in Call, Accept(n) PROVE Inv'
<1> DEFINE c == [conn[n] EXCEPT !.pc = "accepted"]
<1>1. conn[n] \in Connection /\ conn[n].pc = "queued" /\ conn' = [conn EXCEPT ![n] = c]
  BY DEF Accept, Inv, TypeOK
<1>2. c \in Connection /\ c.by = conn[n].by /\ c.cmd = conn[n].cmd /\ c.wire = conn[n].wire
        /\ c.pc = "accepted"
  BY <1>1 DEF Connection
<1> HIDE DEF c
<1>3. Advances(n, c)
  BY <1>1, <1>2 DEF Advances, Serving
<1>4. pipe # "none"
  BY <1>1 DEF Inv, ProcessPhases
<1> QED BY <1>1, <1>2, <1>3, <1>4, AcceptLoop DEF Accept, Inside

LEMMA TrackInv == ASSUME Inv, NEW n \in Call, Track(n) PROVE Inv'
<1> DEFINE c == IF pipe = "open" THEN [conn[n] EXCEPT !.pc = "reading"] ELSE NoConn
<1>1. conn[n] \in Connection /\ conn[n].pc = "accepted" /\ conn' = [conn EXCEPT ![n] = c]
  BY DEF Track, Inv, TypeOK
<1>2. /\ c \in Connection /\ c.pc \in {"reading", "unused"}
      /\ \/ c = NoConn
         \/ /\ c.by = conn[n].by /\ c.cmd = conn[n].cmd /\ c.wire = conn[n].wire
            /\ c.pc = "reading" /\ pipe = "open"
  BY <1>1, NoConnType DEF Connection, NoConn
<1> HIDE DEF c
<1>3. Advances(n, c)
  BY <1>1, <1>2 DEF Advances, Serving
<1>4. pipe # "none"
  BY <1>1 DEF Inv, ProcessPhases
<1> QED BY <1>1, <1>2, <1>3, <1>4, AcceptLoop DEF Track, Inside

LEMMA AcceptFailsInv == ASSUME Inv, AcceptFails PROVE Inv'
<1>1. TypeOK'
  BY DEF AcceptFails, Inv, TypeOK
<1>2. KeysOnTheWay' /\ ProcessPhases' /\ ShutdownReleases'
  BY DEF AcceptFails, Inv, KeysOnTheWay, ProcessPhases, ShutdownReleases
<1> QED BY <1>1, <1>2, SameConnections DEF Inv, AcceptFails

LEMMA ServeReturnsInv == ASSUME Inv, ServeReturns PROVE Inv'
<1>1. TypeOK'
  BY DEF ServeReturns, Inv, TypeOK
<1>2. KeysOnTheWay' /\ ProcessPhases' /\ ShutdownReleases'
  BY DEF ServeReturns, Inv, KeysOnTheWay, ProcessPhases, ShutdownReleases
<1> QED BY <1>1, <1>2, SameConnections DEF Inv, ServeReturns

\* Nobody is inside when Shutdown takes operationMu.
LEMMA ShutdownBeginsInv == ASSUME Inv, ShutdownBegins PROVE Inv'
<1>1. \A n \in Call : mu' # n /\ conn'[n].pc \notin {"control", "apply", "clear"}
  BY Numbers DEF ShutdownBegins, Inv, TypeOK
<1>2. TypeOK'
  BY <1>1, Numbers DEF ShutdownBegins, Inv, TypeOK
<1>3. KeysOnTheWay' /\ ProcessPhases' /\ ShutdownReleases'
  BY DEF ShutdownBegins, Inv, KeysOnTheWay, ProcessPhases, ShutdownReleases
<1> QED BY <1>2, <1>3, SameConnections DEF Inv, ShutdownBegins

\* Shutdown holds operationMu, so no operation is under way when the service
\* stops being started.
LEMMA ShutdownClearsInv == ASSUME Inv, ShutdownClears PROVE Inv'
<1>1. mu = ShutdownCall
  BY DEF ShutdownClears, Inv, TypeOK
<1>2. \A n \in Call : mu' # n /\ conn'[n].pc \notin {"control", "apply", "clear"}
  BY <1>1, Numbers DEF ShutdownClears, Inv, TypeOK
<1>3. svc' \in [started : BOOLEAN, joined : BOOLEAN] /\ {plane', unclear'} \subseteq BOOLEAN
        /\ ~svc'.started
  <2>1. svc' \in [started : BOOLEAN, joined : BOOLEAN] /\ ~svc'.started
    BY DEF ShutdownClears
  <2>2. {plane', unclear'} \subseteq BOOLEAN
    BY Zenon DEF ShutdownClears, Inv, TypeOK
  <2> QED BY <2>1, <2>2
<1>4. mu' = Free /\ mu' # ShutdownCall /\ at' = "done"
  BY Numbers DEF ShutdownClears
<1>5. \A n \in Call : (mu' = n) = (conn'[n].pc \in {"control", "apply", "clear"})
  BY <1>2
<1>6. (mu' = ShutdownCall) = (at' = "clear")
  BY <1>4
<1>7. TypeOK'
  BY <1>3, <1>4, <1>5, <1>6 DEF ShutdownClears, Inv, TypeOK
<1>8. KeysOnTheWay'
  BY <1>3, <1>4 DEF ShutdownClears, Inv, KeysOnTheWay
<1>9. ProcessPhases'
  BY <1>2, <1>4 DEF ShutdownClears, Inv, ProcessPhases
<1>10. ShutdownReleases'
  BY DEF ShutdownClears, ShutdownReleases
<1> QED BY <1>7, <1>8, <1>9, <1>10, SameConnections DEF Inv, ShutdownClears

\* Close cuts every connection that has a goroutine.
LEMMA CloseMarksInv == ASSUME Inv, CloseMarks PROVE Inv'
<1>1. conn \in [Call -> Connection] /\ pipe = "open" /\ pipe' = "closing"
  BY DEF CloseMarks, Inv, TypeOK
<1>2. \A n \in Call : conn'[n] = IF Goroutine(n) THEN Cut(conn[n]) ELSE conn[n]
  BY DEF CloseMarks
<1>3. \A n \in Call : conn'[n] \in Connection /\ conn'[n].pc = conn[n].pc
        /\ conn'[n].by = conn[n].by /\ conn'[n].cmd = conn[n].cmd
        /\ conn'[n].wire = IF Goroutine(n) THEN "cut" ELSE conn[n].wire
  BY <1>1, <1>2, CutType
<1>4. conn' \in [Call -> Connection]
  BY <1>3 DEF CloseMarks
<1>5. \A n \in Call : (WizardJoin(n)' <=> WizardJoin(n)) /\ (Goroutine(n)' <=> Goroutine(n))
  BY <1>3 DEF WizardJoin, Goroutine
<1>6. TypeOK'
  BY <1>3, <1>4 DEF CloseMarks, Inv, TypeOK
<1>7. KeysOnTheWay' /\ ShutdownReleases'
  BY DEF CloseMarks, Inv, KeysOnTheWay, ShutdownReleases
<1>8. ProcessPhases'
  BY <1>1, <1>3 DEF CloseMarks, Inv, ProcessPhases
<1>9. WizardAlone'
  <2>1. \A n \in Call : conn'[n].pc = "answered" => conn'[n].wire = "open"
    BY <1>3 DEF Inv, WizardAlone, Goroutine
  <2>2. \A n \in Call : WizardJoin(n)' /\ conn'[n].wire = "open" => client["wizard"].call = n
    BY <1>3, <1>5 DEF Inv, WizardAlone
  <2> QED BY <1>1, <1>3, <1>5, <2>1, <2>2 DEF CloseMarks, Inv, WizardAlone
<1>10. ClosedServesNobody'
  BY <1>3, <1>5 DEF ClosedServesNobody
<1> QED BY <1>6, <1>7, <1>8, <1>9, <1>10 DEF Inv

\* With the listener go the connections nobody has accepted.
LEMMA CloseListenerInv == ASSUME Inv, CloseListener PROVE Inv'
<1>1. conn \in [Call -> Connection] /\ pipe = "closing" /\ pipe' = "shut"
  BY DEF CloseListener, Inv, TypeOK
<1>2. \A n \in Call : conn'[n] = IF conn[n].pc = "queued" THEN NoConn ELSE conn[n]
  BY DEF CloseListener
<1>3. NoConn.pc = "unused" /\ NoConn.wire = "cut"
  BY DEF NoConn
<1>4. conn' \in [Call -> Connection]
  BY <1>1, <1>2, NoConnType DEF CloseListener
<1>5. \A n \in Call : conn'[n].pc \in {"control", "apply", "clear"} <=>
                      conn[n].pc \in {"control", "apply", "clear"}
  BY <1>2, <1>3
<1>6. \A n \in Call : (WizardJoin(n)' => WizardJoin(n) /\ conn'[n] = conn[n])
                      /\ (Goroutine(n)' <=> Goroutine(n)) /\ (Goroutine(n) => conn'[n] = conn[n])
  BY <1>2, <1>3 DEF WizardJoin, Goroutine
<1>7. TypeOK'
  BY <1>4, <1>5 DEF CloseListener, Inv, TypeOK
<1>8. KeysOnTheWay' /\ ShutdownReleases'
  BY DEF CloseListener, Inv, KeysOnTheWay, ShutdownReleases
<1>9. ProcessPhases'
  BY <1>1, <1>5 DEF CloseListener, Inv, ProcessPhases
<1>10. WizardAlone'
  BY <1>1, <1>2, <1>3, <1>6 DEF CloseListener, Inv, WizardAlone
<1>11. ClosedServesNobody'
  BY <1>1, <1>6 DEF Inv, ClosedServesNobody
<1> QED BY <1>7, <1>8, <1>9, <1>10, <1>11 DEF Inv

----------------------------------------------------------------------------
\* The goroutine of a connection.

\* Taking, keeping and giving up operationMu goes with the step of the
\* goroutine; only an operation, and so only a started service, changes the
\* service, the data plane and what is enrolled.
LEMMA HandlerKeeps ==
    ASSUME Inv, NEW n \in Call, NEW c, Advances(n, c), conn[n].pc \in Serving,
           UNCHANGED <<host, at, loads, fresh, keys, pipe, unclear, file, client, drawn, starts>>,
           svc' \in [started : BOOLEAN, joined : BOOLEAN], svc'.started <=> svc.started,
           plane' \in BOOLEAN, plane' => plane \/ svc.started,
           enrolled' \subseteq enrolled \cup {keys.service},
           enrolled' # enrolled => svc.started,
           c.pc \in Inside => svc.started,
           \/ mu' = mu /\ (c.pc \in Inside <=> conn[n].pc \in Inside)
           \/ mu' = Free /\ conn[n].pc \in Inside /\ c.pc \notin Inside
           \/ mu = Free /\ mu' = n /\ c.pc \in Inside
    PROVE  Inv'
<1>1. conn \in [Call -> Connection] /\ \A m \in Call : conn'[m] = IF m = n THEN c ELSE conn[m]
  BY DEF Advances, Inv, TypeOK
<1>2. WizardAlone' /\ ClosedServesNobody' /\ conn' \in [Call -> Connection]
  BY AdvanceKeeps
<1>3. \A m \in Call : mu = m <=> conn[m].pc \in Inside
  BY DEF Inv, TypeOK, Inside
<1>4. \A m \in Call : mu' = m <=> conn'[m].pc \in Inside
  BY <1>1, <1>3, Numbers
<1>5. mu' \in {Free, ShutdownCall} \cup Call /\ (mu' = ShutdownCall <=> at' = "clear")
  <2>1. mu = ShutdownCall <=> at = "clear"
    BY DEF Inv, TypeOK
  <2>2. conn[n].pc \in Inside => mu = n
    BY <1>3
  <2>3. mu \in {Free, ShutdownCall} \cup Call
    BY DEF Inv, TypeOK
  <2> QED BY <2>1, <2>2, <2>3, Numbers
<1>6. enrolled' \subseteq {file} /\ enrolled' \subseteq Key
  <2>1. CASE enrolled' = enrolled
    BY <2>1 DEF Inv, KeysOnTheWay, TypeOK
  <2>2. CASE enrolled' # enrolled
    <3>1. keys.service = file /\ file # NoKey
      BY <2>2 DEF Inv, KeysOnTheWay
    <3>2. file \in Key
      BY <3>1 DEF Inv, TypeOK
    <3> QED BY <3>1, <3>2 DEF Inv, KeysOnTheWay, TypeOK
  <2> QED BY <2>1, <2>2
<1>7. TypeOK'
  <2>1. \A m \in Call : (mu' = m) = (conn'[m].pc \in {"control", "apply", "clear"})
    BY <1>4 DEF Inside
  <2>2. (mu' = ShutdownCall) = (at' = "clear")
    BY <1>5
  <2>3. {plane', unclear'} \subseteq BOOLEAN
    BY Zenon DEF Inv, TypeOK
  <2> QED BY <1>2, <1>5, <1>6, <2>1, <2>2, <2>3 DEF Inv, TypeOK
<1>8. KeysOnTheWay'
  BY <1>6 DEF Inv, KeysOnTheWay
<1>9. ProcessPhases'
  <2>1. pipe # "none" /\ at # "none"
    BY DEF Inv, ProcessPhases, Serving
  <2>2. \A m \in Call : conn'[m].pc \in Inside => svc'.started
    BY <1>1 DEF Inv, ProcessPhases, Inside
  <2> QED BY <2>1, <2>2 DEF Inv, ProcessPhases, Inside
<1>10. ShutdownReleases'
  BY DEF Inv, ShutdownReleases, KeysOnTheWay
<1> QED BY <1>2, <1>7, <1>8, <1>9, <1>10 DEF Inv

LEMMA ReadRequestInv == ASSUME Inv, NEW n \in Call, ReadRequest(n) PROVE Inv'
<1>1. conn[n].pc = "reading" /\ conn[n] \in Connection
  BY DEF ReadRequest, Inv, TypeOK
<1>2. \E c : Advances(n, c) /\ c.pc \notin Inside
  <2>1. CASE conn' = [conn EXCEPT ![n] = NoConn]
    <3>1. Advances(n, NoConn) /\ NoConn.pc \notin Inside
      BY <2>1, NoConnType DEF Advances, NoConn, Inside
    <3> QED BY <3>1
  <2>2. CASE \E reply \in {"none", "ok", "joined", "error"} : Replying(n, reply)
    BY <1>1, <2>2, ReplyingAdvances DEF Inside
  <2>3. CASE Handling(n, "waiting")
    BY <1>1, <2>3, HandlingAdvances DEF Inside, Serving
  <2> QED BY <2>1, <2>2, <2>3 DEF ReadRequest
<1>3. UNCHANGED <<host, process, file, enrolled, client, drawn, starts>>
  BY DEF ReadRequest
<1>4. svc \in [started : BOOLEAN, joined : BOOLEAN] /\ plane \in BOOLEAN
  BY Zenon DEF Inv, TypeOK
<1> QED BY <1>1, <1>2, <1>3, <1>4, HandlerKeeps DEF process, Serving, Inside

LEMMA OperationBeginsInv == ASSUME Inv, NEW n \in Call, OperationBegins(n) PROVE Inv'
<1>1. conn[n].pc = "waiting" /\ mu = Free
  BY DEF OperationBegins
<1>2. svc \in [started : BOOLEAN, joined : BOOLEAN] /\ plane \in BOOLEAN
  BY Zenon DEF Inv, TypeOK
<1>3. UNCHANGED <<host, at, loads, fresh, keys, pipe, svc, plane, unclear, file, enrolled,
                  client, drawn, starts>>
  BY DEF OperationBegins
<1>4. CASE FirstStep(conn[n].cmd) = "refused"
  <2>1. \E c : Advances(n, c) /\ c.pc \notin Inside
    BY <1>1, <1>4, ReplyingAdvances DEF OperationBegins, Inside
  <2>2. mu' = mu
    BY <1>4 DEF OperationBegins
  <2> QED BY <1>1, <1>2, <1>3, <2>1, <2>2, HandlerKeeps DEF Serving, Inside
<1>5. CASE FirstStep(conn[n].cmd) # "refused"
  <2>1. FirstStep(conn[n].cmd) \in Inside /\ svc.started
    BY <1>5 DEF FirstStep, Inside
  <2>2. \E c : Advances(n, c) /\ c.pc \in Inside
    BY <1>1, <1>5, <2>1, HandlingAdvances DEF OperationBegins, Inside, Serving
  <2>3. mu' = n
    BY <1>5 DEF OperationBegins
  <2> QED BY <1>1, <1>2, <1>3, <2>1, <2>2, <2>3, HandlerKeeps DEF Serving
<1> QED BY <1>4, <1>5

\* What a request can do to the control server's table.
LEMMA AfterRequestBounds ==
    ASSUME NEW cmd
    PROVE  AfterRequest(cmd) \subseteq enrolled \cup {keys.service}
BY DEF AfterRequest

LEMMA ControlStepInv == ASSUME Inv, NEW n \in Call, ControlStep(n) PROVE Inv'
<1>1. conn[n].pc = "control" /\ svc.started
  BY DEF ControlStep, Inv, ProcessPhases
<1>2. svc \in [started : BOOLEAN, joined : BOOLEAN] /\ plane \in BOOLEAN
  BY Zenon DEF Inv, TypeOK
<1>3. /\ UNCHANGED <<host, at, loads, fresh, keys, pipe, plane, unclear, file, client, drawn, starts>>
      /\ enrolled' \subseteq enrolled \cup {keys.service}
  BY AfterRequestBounds DEF ControlStep
<1>4. CASE Handling(n, "apply") /\ UNCHANGED <<mu, svc>>
  <2>1. \E c : Advances(n, c) /\ c.pc \in Inside
    BY <1>1, <1>4, HandlingAdvances DEF Inside, Serving
  <2> QED BY <1>1, <1>2, <1>3, <1>4, <2>1, HandlerKeeps DEF Serving, Inside
<1>5. CASE \E reply \in {"ok", "error"} : Returns(n, reply)
  <2>1. \E c : Advances(n, c) /\ c.pc \notin Inside
    BY <1>1, <1>5, ReplyingAdvances DEF Returns, Inside
  <2>2. mu' = Free
    BY <1>5 DEF Returns
  <2>3. svc' \in [started : BOOLEAN, joined : BOOLEAN] /\ svc'.started
    <3>1. svc' = svc \/ svc' = [svc EXCEPT !.joined = FALSE]
      BY DEF ControlStep
    <3>2. [svc EXCEPT !.joined = FALSE] \in [started : BOOLEAN, joined : BOOLEAN]
            /\ [svc EXCEPT !.joined = FALSE].started
      BY <1>1, <1>2, Zenon
    <3> QED BY <1>1, <1>2, <3>1, <3>2
  <2> QED BY <1>1, <1>2, <1>3, <2>1, <2>2, <2>3, HandlerKeeps DEF Serving, Inside
<1> QED BY <1>4, <1>5 DEF ControlStep

LEMMA ApplyStepInv == ASSUME Inv, NEW n \in Call, ApplyStep(n) PROVE Inv'
<1>1. conn[n].pc = "apply" /\ svc.started
  BY DEF ApplyStep, Inv, ProcessPhases
<1>2. svc \in [started : BOOLEAN, joined : BOOLEAN] /\ plane \in BOOLEAN
  BY Zenon DEF Inv, TypeOK
<1>3. /\ UNCHANGED <<host, at, loads, fresh, keys, pipe, unclear, file, client, drawn, starts>>
      /\ enrolled' \subseteq enrolled \cup {keys.service}
  BY AfterRequestBounds DEF ApplyStep
<1>4. /\ \E c : Advances(n, c) /\ c.pc \notin Inside
      /\ mu' = Free
  BY <1>1, ReplyingAdvances DEF ApplyStep, Returns, Inside
<1>5. svc' \in [started : BOOLEAN, joined : BOOLEAN] /\ svc'.started /\ plane' \in BOOLEAN
  <2>1. (svc' = svc /\ plane' = plane) \/ (svc' = [svc EXCEPT !.joined = TRUE] /\ plane' = TRUE)
    BY DEF ApplyStep
  <2>2. [svc EXCEPT !.joined = TRUE] \in [started : BOOLEAN, joined : BOOLEAN]
          /\ [svc EXCEPT !.joined = TRUE].started
    BY <1>1, <1>2, Zenon
  <2> QED BY <1>1, <1>2, <2>1, <2>2
<1> QED BY <1>1, <1>2, <1>3, <1>4, <1>5, HandlerKeeps DEF Serving, Inside

LEMMA ClearStepInv == ASSUME Inv, NEW n \in Call, ClearStep(n) PROVE Inv'
<1>1. conn[n].pc = "clear" /\ svc.started
  BY DEF ClearStep, Inv, ProcessPhases
<1>2. svc \in [started : BOOLEAN, joined : BOOLEAN] /\ plane \in BOOLEAN
  BY Zenon DEF Inv, TypeOK
<1>3. UNCHANGED <<host, at, loads, fresh, keys, pipe, svc, unclear, file, enrolled, client,
                  drawn, starts>>
  BY DEF ClearStep
<1>4. plane' \in BOOLEAN
  BY <1>2, Zenon DEF ClearStep
<1>5. CASE Handling(n, "control") /\ UNCHANGED mu
  <2>1. \E c : Advances(n, c) /\ c.pc \in Inside
    BY <1>1, <1>5, HandlingAdvances DEF Inside, Serving
  <2> QED BY <1>1, <1>2, <1>3, <1>4, <1>5, <2>1, HandlerKeeps DEF Serving, Inside
<1>6. CASE \E reply \in {"ok", "error"} : Returns(n, reply)
  <2>1. (\E c : Advances(n, c) /\ c.pc \notin Inside) /\ mu' = Free
    BY <1>1, <1>6, ReplyingAdvances DEF Returns, Inside
  <2> QED BY <1>1, <1>2, <1>3, <1>4, <2>1, HandlerKeeps DEF Serving, Inside
<1> QED BY <1>5, <1>6 DEF ClearStep

----------------------------------------------------------------------------
\* The clients.

Steps == Command \cup {"idle", "first", "final", "done", "failed"}

\* A client step leaves the process alone and no connection inside operationMu
\* or in a goroutine that was not there.
LEMMA ClientKeeps ==
    ASSUME Inv, UNCHANGED <<host, process, file, enrolled, drawn, starts>>,
           client' \in [{"wizard", "vpnctl"} -> [step : Steps, call : Call \cup {NoCall}]],
           conn' \in [Call -> Connection],
           \A m \in Call :
              \/ conn'[m].pc = conn[m].pc /\ (conn[m].wire = "cut" => conn'[m].wire = "cut")
              \/ conn[m].pc \in {"unused", "answered"} /\ conn'[m].pc \in {"unused", "queued"}
                   /\ (pipe = "none" => conn'[m].pc = "unused"),
           WizardAlone'
    PROVE  Inv'
<1>1. TypeOK'
  <2>1. \A m \in Call : (mu' = m) = (conn'[m].pc \in {"control", "apply", "clear"})
    BY DEF Inv, TypeOK, process
  <2> QED BY <2>1 DEF Inv, TypeOK, process, Steps
<1>2. KeysOnTheWay' /\ ShutdownReleases'
  BY DEF Inv, KeysOnTheWay, ShutdownReleases, process
<1>3. ProcessPhases'
  BY DEF Inv, ProcessPhases, process
<1>4. ClosedServesNobody'
  BY DEF Inv, ClosedServesNobody, Goroutine, process
<1> QED BY <1>1, <1>2, <1>3, <1>4 DEF Inv

\* A new connection is the only one the wizard has a join or connect in, unless
\* the server closes.
LEMMA DialInv ==
    ASSUME Inv, NEW c \in {"wizard", "vpnctl"}, NEW cmd \in Command, NEW n \in Call, Dial(c, cmd, n),
           NEW step \in Steps, client' = [client EXCEPT ![c] = [step |-> step, call |-> n]],
           c = "wizard" => client["wizard"].call = NoCall /\ client["wizard"].step # "failed"
                             /\ step = client["wizard"].step
    PROVE  Inv'
<1> DEFINE new == [by |-> c, cmd |-> cmd, pc |-> "queued", wire |-> "open", reply |-> "none"]
<1>1. new \in Connection /\ new.pc = "queued" /\ new.wire = "open" /\ new.by = c
  BY DEF Connection
<1>2. conn \in [Call -> Connection] /\ conn' = [conn EXCEPT ![n] = new]
  BY DEF Dial, Inv, TypeOK
<1> HIDE DEF new
<1>3. conn' \in [Call -> Connection] /\ \A m \in Call : conn'[m] = IF m = n THEN new ELSE conn[m]
  BY <1>1, <1>2
<1>4. /\ pipe \in {"open", "closing"} /\ conn[n].pc = "unused"
      /\ \A o \in {"wizard", "vpnctl"} : client[o].call # n
      /\ UNCHANGED <<host, process, file, enrolled, drawn, starts>>
  BY DEF Dial, FirstUnused, Unused, NoConn
<1>5. client \in [{"wizard", "vpnctl"} -> [step : Steps, call : Call \cup {NoCall}]]
  BY DEF Inv, TypeOK, Steps
<1>6. /\ client' \in [{"wizard", "vpnctl"} -> [step : Steps, call : Call \cup {NoCall}]]
      /\ client'[c].step = step /\ client'[c].call = n
      /\ \A o \in {"wizard", "vpnctl"} \ {c} : client'[o] = client[o]
  BY <1>5
<1>7. \A m \in Call : m # n => (WizardJoin(m)' <=> WizardJoin(m)) /\ (Goroutine(m)' <=> Goroutine(m))
  BY <1>3 DEF WizardJoin, Goroutine
<1>8. ~Goroutine(n)' /\ (c = "vpnctl" => ~WizardJoin(n)')
  BY <1>1, <1>3 DEF WizardJoin, Goroutine
<1>9. pipe' = pipe
  BY <1>4 DEF process
<1>10. WizardAlone'
  <2>1. n # NoCall
    BY Numbers
  <2>2. CASE c = "wizard"
    <3>1. \A m \in Call : WizardJoin(m) => conn[m].wire # "open" /\ pipe = "closing"
      BY <1>4, <2>2, Numbers DEF Inv, WizardAlone
    <3> QED BY <1>1, <1>3, <1>4, <1>6, <1>7, <1>8, <1>9, <2>1, <2>2, <3>1 DEF Inv, WizardAlone
  <2>3. CASE c = "vpnctl"
    BY <1>1, <1>3, <1>4, <1>6, <1>7, <1>8, <1>9, <2>1, <2>3 DEF Inv, WizardAlone
  <2> QED BY <2>2, <2>3
<1> QED BY <1>1, <1>3, <1>4, <1>6, <1>10, ClientKeeps

LEMMA CallsInv ==
    ASSUME Inv, NEW n \in Call
    PROVE  /\ WizardCalls(n) => Inv'
           /\ \A cmd \in VpnctlCommands : VpnctlCalls(cmd, n) => Inv'
<1>1. client \in [{"wizard", "vpnctl"} -> [step : Steps, call : Call \cup {NoCall}]]
  BY DEF Inv, TypeOK, Steps
<1>2. ASSUME WizardCalls(n) PROVE Inv'
  <2>1. client["wizard"].step \in Steps /\ client["wizard"].step \notin {"idle", "done", "failed"}
          /\ client["wizard"].call = NoCall
    BY <1>1, <1>2 DEF WizardCalls, Calling, Waiting
  <2>2. CommandOf(client["wizard"].step) \in Command
    BY <2>1 DEF CommandOf, Command, Steps
  <2>3. client' = [client EXCEPT !["wizard"] = [step |-> client["wizard"].step, call |-> n]]
    <3>1. client["wizard"] \in [step : Steps, call : Call \cup {NoCall}]
      BY <1>1
    <3>2. [client["wizard"] EXCEPT !.call = n] = [step |-> client["wizard"].step, call |-> n]
      BY <3>1
    <3> QED BY <1>2, <3>2 DEF WizardCalls
  <2> QED BY <1>2, <2>1, <2>2, <2>3, DialInv DEF WizardCalls
<1>3. ASSUME NEW cmd \in VpnctlCommands, VpnctlCalls(cmd, n) PROVE Inv'
  <2>1. cmd \in Command /\ cmd \in Steps
    BY CommandsAssumption DEF Command, Steps
  <2> QED BY <1>3, <2>1, DialInv DEF VpnctlCalls
<1> QED BY <1>2, <1>3

\* The wizard reads an answer: it had no other call it could hear from.
LEMMA AnsweredInv == ASSUME Inv, NEW c \in {"wizard", "vpnctl"}, Answered(c) PROVE Inv'
<1> DEFINE n == client[c].call
<1>1. client \in [{"wizard", "vpnctl"} -> [step : Steps, call : Call \cup {NoCall}]]
        /\ conn \in [Call -> Connection]
  BY DEF Inv, TypeOK, Steps
<1>2. /\ n \in Call /\ conn[n].pc = "answered" /\ conn' = [conn EXCEPT ![n] = NoConn]
      /\ UNCHANGED <<host, process, file, enrolled, drawn, starts>>
  BY <1>1 DEF Answered, Waiting
<1>3. conn' \in [Call -> Connection] /\ \A m \in Call : conn'[m] = IF m = n THEN NoConn ELSE conn[m]
  BY <1>1, <1>2, NoConnType
<1>4. \E step \in Steps : client' = [client EXCEPT ![c] = [step |-> step, call |-> NoCall]]
  <2>1. \A step \in Steps : \A reply : After(step, reply) \in Steps
    BY DEF After, Steps, Command
  <2>2. (IF c = "wizard" THEN After(client[c].step, conn[n].reply) ELSE "done") \in Steps
    BY <1>1, <2>1 DEF Steps
  <2> QED BY <2>2 DEF Answered
<1>5. /\ client' \in [{"wizard", "vpnctl"} -> [step : Steps, call : Call \cup {NoCall}]]
      /\ client'[c].call = NoCall
      /\ \A o \in {"wizard", "vpnctl"} \ {c} : client'[o] = client[o]
  BY <1>1, <1>4
<1>6. NoConn.pc = "unused" /\ NoConn.wire = "cut"
  BY DEF NoConn
<1>7. \A m \in Call : (WizardJoin(m)' => WizardJoin(m) /\ m # n) /\ (Goroutine(m)' => Goroutine(m))
  BY <1>3, <1>6 DEF WizardJoin, Goroutine
<1>8. pipe' = pipe
  BY <1>2 DEF process
<1> HIDE DEF n
<1>9. WizardAlone'
  <2>1. \A m \in Call : WizardJoin(m)' /\ c = "wizard" => conn[m].wire # "open" /\ pipe \in {"closing", "shut"}
    BY <1>2, <1>7, Numbers DEF Inv, WizardAlone, n
  <2>2. CASE c = "wizard"
    BY <1>3, <1>5, <1>6, <1>7, <1>8, <2>1, <2>2 DEF Inv, WizardAlone
  <2>3. CASE c = "vpnctl"
    BY <1>3, <1>5, <1>6, <1>7, <1>8, <2>3 DEF Inv, WizardAlone
  <2> QED BY <2>2, <2>3
<1> QED BY <1>2, <1>3, <1>5, <1>6, <1>9, ClientKeeps

\* The pipe broke: the connection the client waited for was cut already.
LEMMA CallBreaksInv == ASSUME Inv, NEW c \in {"wizard", "vpnctl"}, CallBreaks(c) PROVE Inv'
<1>1. client \in [{"wizard", "vpnctl"} -> [step : Steps, call : Call \cup {NoCall}]]
        /\ conn \in [Call -> Connection]
  BY DEF Inv, TypeOK, Steps
<1>2. /\ client[c].call \in Call /\ conn[client[c].call].wire = "cut"
      /\ UNCHANGED <<host, process, conn, file, enrolled, drawn, starts>>
  BY <1>1 DEF CallBreaks, Waiting
<1>3. \E step \in Steps : client' = [client EXCEPT ![c] = [step |-> step, call |-> NoCall]]
  <2>1. (IF c = "wizard" THEN client[c].step ELSE "done") \in Steps
    BY <1>1 DEF Steps
  <2> QED BY <2>1 DEF CallBreaks
<1>4. /\ client' \in [{"wizard", "vpnctl"} -> [step : Steps, call : Call \cup {NoCall}]]
      /\ client'[c].call = NoCall
      /\ \A o \in {"wizard", "vpnctl"} \ {c} : client'[o] = client[o]
  BY <1>1, <1>3
<1>5. \A m \in Call : (WizardJoin(m)' <=> WizardJoin(m)) /\ (Goroutine(m)' <=> Goroutine(m))
  BY <1>2 DEF WizardJoin, Goroutine
<1>6. pipe' = pipe
  BY <1>2 DEF process
<1>7. WizardAlone'
  <2>1. CASE c = "wizard"
    <3>1. \A m \in Call : WizardJoin(m) => conn[m].wire # "open" /\ pipe \in {"closing", "shut"}
      BY <1>2, <2>1, Numbers DEF Inv, WizardAlone
    <3> QED BY <1>2, <1>4, <1>5, <1>6, <2>1, <3>1 DEF Inv, WizardAlone
  <2>2. CASE c = "vpnctl"
    BY <1>2, <1>4, <1>5, <1>6, <2>2 DEF Inv, WizardAlone
  <2> QED BY <2>1, <2>2
<1> QED BY <1>1, <1>2, <1>4, <1>7, ClientKeeps

\* The deadline of a join or connect is the end of the wizard.
LEMMA CallTimesOutInv == ASSUME Inv, NEW c \in {"wizard", "vpnctl"}, CallTimesOut(c) PROVE Inv'
<1> DEFINE n == client[c].call
<1>1. client \in [{"wizard", "vpnctl"} -> [step : Steps, call : Call \cup {NoCall}]]
        /\ conn \in [Call -> Connection]
  BY DEF Inv, TypeOK, Steps
<1>2. /\ n \in Call /\ conn[n].pc # "answered" /\ conn[n].wire = "open"
      /\ conn' = [conn EXCEPT ![n] = Cut(conn[n])]
      /\ UNCHANGED <<host, process, file, enrolled, drawn, starts>>
  BY <1>1 DEF CallTimesOut, Waiting
<1>3. /\ conn' \in [Call -> Connection]
      /\ \A m \in Call : conn'[m].pc = conn[m].pc /\ conn'[m].by = conn[m].by
                          /\ conn'[m].cmd = conn[m].cmd
                          /\ conn'[m].wire = IF m = n THEN "cut" ELSE conn[m].wire
  BY <1>1, <1>2, CutType
<1>4. PICK step \in Steps :
        /\ client' = [client EXCEPT ![c] = [step |-> step, call |-> NoCall]]
        /\ c = "wizard" /\ conn[n].cmd \in {"join", "connect"} => step = "failed"
  <2> DEFINE s == IF c # "wizard" THEN "done"
                  ELSE IF Local(conn[n].cmd) THEN client[c].step ELSE "failed"
  <2>1. s \in Steps
    BY <1>1 DEF Steps
  <2>2. c = "wizard" /\ conn[n].cmd \in {"join", "connect"} => s = "failed"
    BY DEF Local
  <2>3. client' = [client EXCEPT ![c] = [step |-> s, call |-> NoCall]]
    BY DEF CallTimesOut
  <2> HIDE DEF s
  <2> QED BY <2>1, <2>2, <2>3
<1>5. /\ client' \in [{"wizard", "vpnctl"} -> [step : Steps, call : Call \cup {NoCall}]]
      /\ client'[c].call = NoCall /\ client'[c].step = step
      /\ \A o \in {"wizard", "vpnctl"} \ {c} : client'[o] = client[o]
  BY <1>1, <1>4
<1>6. \A m \in Call : (WizardJoin(m)' <=> WizardJoin(m)) /\ (Goroutine(m)' <=> Goroutine(m))
  BY <1>3 DEF WizardJoin, Goroutine
<1>7. pipe' = pipe
  BY <1>2 DEF process
<1> HIDE DEF n
<1>8. WizardAlone'
  <2>1. CASE c = "wizard"
    <3>1. \A m \in Call : WizardJoin(m) => IF m = n THEN step = "failed"
                                           ELSE conn[m].wire # "open" /\ pipe \in {"closing", "shut"}
      BY <1>2, <1>4, <2>1, Numbers DEF Inv, WizardAlone, WizardJoin, n
    <3> QED BY <1>2, <1>3, <1>5, <1>6, <1>7, <2>1, <3>1 DEF Inv, WizardAlone
  <2>2. CASE c = "vpnctl"
    <3>1. ~WizardJoin(n)
      BY <1>2, <2>2, Numbers DEF Inv, WizardAlone, n
    <3> QED BY <1>2, <1>3, <1>5, <1>6, <1>7, <2>2, <3>1 DEF Inv, WizardAlone
  <2> QED BY <2>1, <2>2
<1> QED BY <1>2, <1>3, <1>5, <1>8, ClientKeeps

LEMMA WizardGivesUpInv == ASSUME Inv, WizardGivesUp PROVE Inv'
<1>1. client \in [{"wizard", "vpnctl"} -> [step : Steps, call : Call \cup {NoCall}]]
        /\ conn \in [Call -> Connection]
  BY DEF Inv, TypeOK, Steps
<1>2. /\ client' \in [{"wizard", "vpnctl"} -> [step : Steps, call : Call \cup {NoCall}]]
      /\ client'["wizard"].call = NoCall /\ client'["wizard"].step = "failed"
      /\ client["wizard"].call = NoCall
      /\ client'["vpnctl"] = client["vpnctl"]
  BY <1>1 DEF WizardGivesUp, Waiting, Steps
<1>3. UNCHANGED <<host, process, conn, file, enrolled, drawn, starts>> /\ pipe' = pipe
  BY DEF WizardGivesUp, process
<1>4. \A m \in Call : (WizardJoin(m)' <=> WizardJoin(m)) /\ (Goroutine(m)' <=> Goroutine(m))
  BY <1>3 DEF WizardJoin, Goroutine
<1>5. WizardAlone'
  BY <1>2, <1>3, <1>4 DEF Inv, WizardAlone
<1> QED BY <1>1, <1>2, <1>3, <1>5, ClientKeeps

LEMMA ClientStepInv == ASSUME Inv, ClientStep PROVE Inv'
BY CallsInv, AnsweredInv, CallBreaksInv, CallTimesOutInv, WizardGivesUpInv DEF ClientStep

----------------------------------------------------------------------------
\* Inv is an invariant of the service process, for any bounds.
THEOREM HostInvariant == Spec => []Inv
<1>1. Init => Inv
  <2> SUFFICES ASSUME Init PROVE Inv
    OBVIOUS
  <2>1. conn \in [Call -> Connection] /\ \A n \in Call : conn[n].pc = "unused"
    BY NoConnType DEF Init, NoConn
  <2>2. client \in [{"wizard", "vpnctl"} -> [step : Steps, call : Call \cup {NoCall}]]
          /\ client["wizard"].call = NoCall
    BY DEF Init, Steps
  <2>3. host \in [phase : {"off", "running", "stopping"}, cancelled : BOOLEAN]
          /\ svc \in [started : BOOLEAN, joined : BOOLEAN] /\ {plane, unclear} \subseteq BOOLEAN
          /\ ~svc.started /\ host.phase = "off"
          /\ keys \in [plane : Key \cup {NoKey}, service : Key \cup {NoKey}]
    BY DEF Init
  <2>4. \A n \in Call : (mu = n) = (conn[n].pc \in {"control", "apply", "clear"})
    BY <2>1, Numbers DEF Init
  <2>5. TypeOK
    BY <2>1, <2>2, <2>3, <2>4, Numbers DEF Init, TypeOK, Steps
  <2>6. KeysOnTheWay /\ ProcessPhases /\ ShutdownReleases /\ ClosedServesNobody
    BY <2>1, <2>3 DEF Init, KeysOnTheWay, ProcessPhases, ShutdownReleases, ClosedServesNobody
  <2>7. WizardAlone
    BY <2>1, <2>2 DEF Init, WizardAlone, WizardJoin
  <2> QED BY <2>5, <2>6, <2>7 DEF Inv
<1>2. Inv /\ [Next]_vars => Inv'
  <2> SUFFICES ASSUME Inv, [Next]_vars PROVE Inv'
    OBVIOUS
  <2>1. CASE ServeStep
    BY <2>1, LoadOrCreateInv, WriteTemporaryInv, RenameInv, SecureRecordInv, ListenInv, AcceptInv,
       TrackInv, AcceptFailsInv, ServeReturnsInv, ShutdownBeginsInv, ShutdownClearsInv DEF ServeStep
  <2>2. CASE CloseStep
    BY <2>2, CloseMarksInv, CloseListenerInv DEF CloseStep
  <2>3. CASE \E n \in Call : HandlerStep(n)
    BY <2>3, ReadRequestInv, OperationBeginsInv, ControlStepInv, ApplyStepInv, ClearStepInv
       DEF HandlerStep
  <2>4. CASE UNCHANGED vars
    <3>1. TypeOK'
      BY <2>4 DEF vars, process, Inv, TypeOK
    <3>2. KeysOnTheWay' /\ ProcessPhases' /\ ShutdownReleases'
      BY <2>4 DEF vars, process, Inv, KeysOnTheWay, ProcessPhases, ShutdownReleases
    <3>3. WizardAlone' /\ ClosedServesNobody'
      BY <2>4, SameConnections DEF vars, process
    <3> QED BY <3>1, <3>2, <3>3 DEF Inv
  <2> QED BY <2>1, <2>2, <2>3, <2>4, HostStepInv, ClientStepInv DEF Next
<1> QED BY <1>1, <1>2, PTL DEF Spec

\* Every variable of the process is always well typed, and operationMu is held
\* by whoever is inside it.
THEOREM TypeCorrect == Spec => []TypeOK
<1>1. Inv => TypeOK
  BY DEF Inv
<1> QED BY <1>1, HostInvariant, PTL

\* After Service.Shutdown no data plane is up unless Clear failed, whatever the
\* connection goroutines nobody waits for still do.
THEOREM ShutdownReleasesAlways == Spec => []ShutdownReleases
<1>1. Inv => ShutdownReleases
  BY DEF Inv
<1> QED BY <1>1, HostInvariant, PTL

\* One key pair for the life of the machine: identity.LoadOrCreate never
\* replaces a key that was enrolled or loaded.
THEOREM EnrolledKeyKeptAlways == Spec => []EnrolledKeyKept
<1>1. Inv => EnrolledKeyKept
  BY DEF Inv, KeysOnTheWay, EnrolledKeyKept
<1> QED BY <1>1, HostInvariant, PTL

\* ipc.Server.Close leaves no connection open that has a goroutine, also none
\* that was accepted while it ran.
THEOREM ClosedServesNobodyAlways == Spec => []ClosedServesNobody
<1>1. Inv => ClosedServesNobody
  BY DEF Inv
<1> QED BY <1>1, HostInvariant, PTL

\* No two attempts of the wizard's join or connect are ever in the service
\* together.
THEOREM RetryAloneAlways == Spec => []RetryAlone
<1>1. Inv => RetryAlone
  BY DEF Inv, WizardAlone, WizardJoin, Goroutine, RetryAlone
<1> QED BY <1>1, HostInvariant, PTL

=============================================================================
