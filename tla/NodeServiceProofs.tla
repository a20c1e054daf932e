---------------------------- MODULE NodeServiceProofs ----------------------------
(***************************************************************************)
(* NodeService is correct for any number of joins and any version bound:   *)
(* Inv is inductive, and its parts are the safety properties the runs      *)
(* check.  The argument turns on Settled: a request the client has stopped *)
(* waiting for can be executed at any later time, so an enrollment is gone *)
(* for good only because no pending join or commit in doubt carries its    *)
(* number any more.                                                        *)
(***************************************************************************)
EXTENDS NodeService, TLAPS

\* A process that has not started has a well-typed state.
LEMMA StoppedType ==
    Stopped \in [started : BOOLEAN, joined : Session \cup {None},
                path : {"disconnected", "direct"}]
BY DEF Stopped

USE BoundsAssumption, NoneAssumption
    DEF Session, Request, NoRequest, Idle, Stopped, NoCred, Join, NodeID, Operation, Server, Expects

\* The server's operations stay within its type.
LEMMA ServerTypes ==
    ASSUME NEW s \in Server, NEW session \in Session
    PROVE  /\ Issue(s, session) \in Server
           /\ Bounded(Enroll(s, session)) => Enroll(s, session) \in Server
           /\ Bounded(Remove(s)) => Remove(s) \in Server
           /\ Doubt(s, session) \in Server
           /\ [s EXCEPT !.doubt = @ \ {session}] \in Server
<1>1. s.version \in 1..MaxVersion /\ s.member \in Session \cup {None}
        /\ s.sessions \in SUBSET Session /\ s.doubt \in SUBSET Session
  OBVIOUS
<1>2. Issue(s, session) = [s EXCEPT !.sessions = s.sessions \cup {session}]
  BY DEF Issue
<1>3. Issue(s, session) \in Server
  BY <1>1, <1>2
<1>4. /\ Doubt(s, session) \in Server
      /\ [s EXCEPT !.doubt = @ \ {session}] \in Server
  BY <1>1 DEF Doubt
<1>5. ASSUME Bounded(Enroll(s, session)) PROVE Enroll(s, session) \in Server
  <2>1. s.version + 1 \in 1..MaxVersion
    BY <1>1, <1>5 DEF Bounded, Enroll
  <2> QED BY <2>1, <1>1 DEF Enroll
<1>6. ASSUME Bounded(Remove(s)) PROVE Remove(s) \in Server
  <2>1. s.version + 1 \in 1..MaxVersion
    BY <1>1, <1>6 DEF Bounded, Remove
  <2> QED BY <2>1, <1>1 DEF Remove
<1> QED BY <1>3, <1>4, <1>5, <1>6

\* A commit in doubt enrolls nothing the client holds or has left.
LEMMA ResolveCommitInv == ASSUME NEW session \in Session, Inv, ResolveCommit(session) PROVE Inv'
<1> DEFINE s == [srv EXCEPT !.doubt = @ \ {session}]
<1>1. s \in Server /\ s.member = srv.member /\ s.doubt = srv.doubt \ {session}
        /\ s.sessions = srv.sessions /\ s.version = srv.version
  BY ServerTypes DEF Inv, TypeOK
<1>2. /\ srv' \in Server
      /\ srv'.doubt = srv.doubt \ {session}
      /\ \/ srv'.member = srv.member
         \/ srv.member = None /\ srv'.member = session
  <2>1. CASE srv' = s
    BY <1>1, <2>1
  <2>2. CASE srv.member = None /\ Bounded(Enroll(s, session)) /\ srv' = Enroll(s, session)
    <3>1. Enroll(s, session) \in Server
      BY <1>1, <2>2, ServerTypes
    <3>2. Enroll(s, session).member = session /\ Enroll(s, session).doubt = s.doubt
      BY <1>1 DEF Enroll
    <3> HIDE DEF s
    <3> QED BY <1>1, <2>2, <3>1, <3>2
  <2> QED BY <2>1, <2>2 DEF ResolveCommit
<1>3. session \in srv.doubt
        /\ UNCHANGED <<svc, cred, plane, op, hb, late, joins, left, unsure>>
  BY DEF ResolveCommit
<1> HIDE DEF s
<1>4. TypeOK' /\ OpShape' /\ PlaneOwned' /\ Leaveable'
  BY <1>2, <1>3 DEF Inv, TypeOK, OpShape, PlaneOwned, Leaveable
<1>5. Numbered'
  BY <1>2, <1>3 DEF Inv, TypeOK, Numbered
<1>6. Settled'
  BY <1>2, <1>3 DEF Inv, TypeOK, Settled, Pending, OpShape
<1>7. LeftForGood'
  BY <1>2, <1>3 DEF Inv, TypeOK, LeftForGood, Settled, Pending
<1>8. Accounted'
  BY <1>2, <1>3 DEF Inv, TypeOK, Accounted, Counted, Pending
<1> QED BY <1>4, <1>5, <1>6, <1>7, <1>8 DEF Inv

\* Deletion only takes an enrollment away.
LEMMA AdminDeletesInv == ASSUME Inv, AdminDeletes PROVE Inv'
<1>1. TypeOK'
  <2>1. srv' \in Server
    BY ServerTypes DEF Inv, TypeOK, AdminDeletes, Remove, Bounded
  <2> QED BY <2>1 DEF Inv, TypeOK, AdminDeletes
<1>2. OpShape' /\ PlaneOwned' /\ Leaveable'
  BY DEF Inv, OpShape, TypeOK, Leaveable, PlaneOwned,
         AdminDeletes, Remove, Bounded
<1>3. Numbered'
  BY DEF Inv, Numbered, TypeOK, OpShape, Leaveable,
         AdminDeletes, Remove, Bounded
<1>4. Settled' /\ LeftForGood'
  BY DEF Inv, Settled, TypeOK, OpShape, Numbered, Pending, LeftForGood,
         AdminDeletes, Remove, Bounded
<1>5. Accounted'
  BY DEF Inv, Accounted, Counted, Pending, TypeOK, OpShape, Leaveable, Settled,
         AdminDeletes, Remove, Bounded
<1> QED BY <1>1, <1>2, <1>3, <1>4, <1>5 DEF Inv

\* Lost sessions leave the enrollment alone.
LEMMA SessionsLostInv == ASSUME Inv, SessionsLost PROVE Inv'
<1>1. TypeOK'
  BY DEF Inv, TypeOK, OpShape, Leaveable,
         SessionsLost
<1>2. OpShape' /\ PlaneOwned' /\ Leaveable'
  BY DEF Inv, OpShape, TypeOK, Leaveable, PlaneOwned,
         SessionsLost
<1>3. Numbered'
  BY DEF Inv, Numbered, TypeOK, OpShape, Leaveable,
         SessionsLost
<1>4. Settled' /\ LeftForGood'
  BY DEF Inv, Settled, TypeOK, OpShape, Numbered, Pending, LeftForGood,
         SessionsLost
<1>5. Accounted'
  BY DEF Inv, Accounted, Counted, Pending, TypeOK, OpShape, Leaveable, Settled,
         SessionsLost
<1> QED BY <1>1, <1>2, <1>3, <1>4, <1>5 DEF Inv

\* What a request can do to the server, case by case.
LEMMA OutcomeCases ==
    ASSUME NEW s \in Server, NEW r \in Request, NEW out \in Outcomes(s, r), Bounded(out.srv)
    PROVE  /\ out.srv \in Server /\ out.gen \in 0..MaxVersion
           /\ \/ out.srv = s /\ out.reply = "error"
              \/ /\ r.kind = "join" /\ s.member = None
                 /\ out.reply \in {"created", "pending"}
                 /\ out.srv.member = r.session /\ out.srv.doubt = s.doubt
              \/ /\ r.kind = "join" /\ s.member = None
                 /\ out.reply \in {"pending", "error"}
                 /\ out.srv.member = None /\ out.srv.doubt = s.doubt \cup {r.session}
              \/ /\ r.kind = "leave" /\ s.member # None /\ s.member.node = r.session.node
                 /\ out.reply = "ok"
                 /\ out.srv.member = None /\ out.srv.doubt = s.doubt
              \/ r.kind = "snapshot" /\ out.reply = "ok" /\ out.srv = s
<1> DEFINE issued == Issue(s, r.session)
<1>1. /\ issued \in Server
      /\ issued.member = s.member /\ issued.doubt = s.doubt /\ issued.version = s.version
  BY ServerTypes DEF Issue
<1>2. Enroll(issued, r.session).member = r.session /\ Enroll(issued, r.session).doubt = s.doubt
  BY <1>1 DEF Enroll
<1>3. Bounded(Enroll(issued, r.session)) => Enroll(issued, r.session) \in Server
  BY <1>1, ServerTypes
<1>4. ASSUME NEW q \in Server, q.member = s.member, q.doubt = s.doubt
      PROVE  /\ Doubt(q, r.session) \in Server
             /\ Doubt(q, r.session).doubt = s.doubt \cup {r.session}
             /\ Doubt(q, r.session).member = s.member
  BY <1>4, ServerTypes DEF Doubt
<1>5. Remove(s).member = None /\ Remove(s).doubt = s.doubt
        /\ (Bounded(Remove(s)) => Remove(s) \in Server)
  BY ServerTypes DEF Remove
<1>6. \/ out = Answer(s, "error", 0)
      \/ /\ r.kind = "join" /\ s.member = None
         /\ \/ out = Answer(Enroll(issued, r.session), "created", 0)
            \/ out = Answer(Enroll(issued, r.session), "pending", 0)
            \/ out = Answer(Doubt(issued, r.session), "pending", 0)
            \/ out = Answer(Doubt(s, r.session), "error", 0)
      \/ r.kind = "leave" /\ Serves(s, r.session) /\ out = Answer(Remove(s), "ok", 0)
      \/ r.kind = "snapshot" /\ out = Answer(s, "ok", s.version)
  BY DEF Outcomes
<1> HIDE DEF issued
<1>7. CASE out = Answer(s, "error", 0)
  BY <1>7 DEF Answer
<1>8. CASE r.kind = "join" /\ s.member = None
             /\ \/ out = Answer(Enroll(issued, r.session), "created", 0)
                \/ out = Answer(Enroll(issued, r.session), "pending", 0)
  BY <1>2, <1>3, <1>8 DEF Answer
<1>9. CASE r.kind = "join" /\ s.member = None
             /\ \/ out = Answer(Doubt(issued, r.session), "pending", 0)
                \/ out = Answer(Doubt(s, r.session), "error", 0)
  BY <1>1, <1>4, <1>9 DEF Answer
<1>10. CASE r.kind = "leave" /\ Serves(s, r.session) /\ out = Answer(Remove(s), "ok", 0)
  BY <1>5, <1>10 DEF Answer, Serves
<1>11. CASE r.kind = "snapshot" /\ out = Answer(s, "ok", s.version)
  BY <1>11 DEF Answer
<1> QED BY <1>6, <1>7, <1>8, <1>9, <1>10, <1>11

\* A served request: what the answer says is what the server holds.
LEMMA ServeInv == ASSUME Inv, Serve PROVE Inv'
<1>1. op.request \in Request /\ srv \in Server
  BY DEF Inv, TypeOK, Serve, Waiting
<1>2. PICK out \in Outcomes(srv, op.request) :
          /\ Bounded(out.srv)
          /\ srv' = out.srv
          /\ op' = [op EXCEPT !.reply = out.reply, !.gen = out.gen]
          /\ unsure' = IF Unclear(out) THEN unsure \cup {op.request.session} ELSE unsure
  BY DEF Serve
<1>3. /\ op'.kind = op.kind /\ op'.pc = op.pc /\ op'.request = op.request
      /\ op'.reply = out.reply /\ op'.gen = out.gen
      /\ op.reply = "none" /\ op.request # NoRequest
  BY <1>2 DEF Inv, TypeOK, Serve, Waiting
<1>4. UNCHANGED <<svc, cred, plane, hb, late, joins, left>>
  BY DEF Serve
<1>5. /\ out.srv \in Server /\ out.gen \in 0..MaxVersion
      /\ \/ srv' = srv /\ op'.reply = "error"
         \/ /\ op.request.kind = "join" /\ srv.member = None
            /\ op'.reply \in {"created", "pending"}
            /\ srv'.member = op.request.session /\ srv'.doubt = srv.doubt
         \/ /\ op.request.kind = "join" /\ srv.member = None
            /\ op'.reply \in {"pending", "error"}
            /\ srv'.member = None /\ srv'.doubt = srv.doubt \cup {op.request.session}
         \/ /\ op.request.kind = "leave"
            /\ op'.reply = "ok"
            /\ srv'.member = None /\ srv'.doubt = srv.doubt
         \/ op.request.kind = "snapshot" /\ op'.reply = "ok" /\ srv' = srv
  BY <1>1, <1>2, <1>3, OutcomeCases
<1>6. TypeOK'
  <2>1. op'.reply \in {"none", "created", "pending", "ok", "error"}
    BY <1>5
  <2>2. op' \in Operation
    BY <1>2, <1>3, <1>5, <2>1 DEF Inv, TypeOK
  <2>3. Expects(op'.pc) = op'.request.kind
    BY <1>3 DEF Inv, TypeOK
  <2>4. unsure' \subseteq Session
    BY <1>1, <1>2 DEF Inv, TypeOK
  <2> QED BY <1>2, <1>4, <1>5, <2>2, <2>3, <2>4 DEF Inv, TypeOK
<1>7. OpShape' /\ PlaneOwned' /\ Leaveable'
  BY <1>1, <1>3, <1>4, <1>5 DEF Inv, TypeOK, OpShape, PlaneOwned, Leaveable
<1>8. Numbered'
  BY <1>1, <1>3, <1>4, <1>5 DEF Inv, TypeOK, OpShape, Numbered
<1>9. op.pc \in {"join", "snapshot", "undo", "leave"}
        /\ (op.pc = "join" <=> op.request.kind = "join")
        /\ (op.pc \in {"undo", "leave"} <=> op.request.kind = "leave")
  BY <1>1, <1>3 DEF Inv, TypeOK
<1>10. Settled'
  <2>1. op.pc \in {"undo", "leave"} /\ op'.reply = "ok" => srv'.member # op.request.session
    BY <1>1, <1>5, <1>9
  <2>2. cred.session # None => ~Pending(cred.session)'
    BY <1>3, <1>4, <1>5, <1>9 DEF Inv, TypeOK, OpShape, Numbered, Settled, Pending
  <2>3. op.pc = "join" /\ op'.reply \in {"none", "created"} => ~Pending(op.request.session)'
    BY <1>3, <1>4, <1>5, <1>9 DEF Inv, TypeOK, Settled, Pending
  <2>4. ASSUME NEW q \in left PROVE ~Pending(q)'
    <3>1. ~Pending(q) /\ (op.pc = "join" => q # op.request.session)
      BY <1>1 DEF Inv, TypeOK, OpShape, Numbered, Settled
    <3> QED BY <1>3, <1>4, <1>5, <1>9, <3>1 DEF Pending
  <2> QED BY <1>3, <1>4, <2>1, <2>2, <2>3, <2>4 DEF Settled
<1>11. LeftForGood'
  BY <1>3, <1>4, <1>5, <1>9 DEF Inv, TypeOK, LeftForGood, OpShape, Numbered
<1>12. Accounted'
  <2>1. unsure \subseteq unsure' /\ (Unclear(out) => op.request.session \in unsure')
    BY <1>2
  <2>2. op.pc = "join" /\ (op'.reply = "pending" \/ op.request.session \in srv'.doubt)
          => op.request.session \in unsure'
    BY <1>2, <1>3, <2>1 DEF Unclear
  <2>3. op.pc = "undo" /\ op'.reply = "error" => op.request.session \in unsure'
    BY <1>2, <1>3, <2>1 DEF Unclear
  <2>4. ASSUME NEW q \in Session, Pending(q)' PROVE q \in unsure'
    <3>1. Pending(q) \/ (op.pc = "join" /\ q = op.request.session /\ q \in srv'.doubt)
      BY <1>4, <1>5, <1>9, <2>4 DEF Pending
    <3> QED BY <2>1, <2>2, <3>1 DEF Inv, Accounted
  <2>5. ASSUME srv'.member # None PROVE srv'.member \in unsure' \/ Counted(srv.member)'
    <3>1. CASE srv'.member = srv.member
      BY <1>3, <1>4, <2>1, <2>5, <3>1 DEF Inv, Accounted, Counted
    <3>2. CASE srv'.member # srv.member
      BY <1>3, <1>4, <1>5, <1>9, <2>2, <2>5, <3>2 DEF Counted
    <3> QED BY <3>1, <3>2
  <2> QED BY <1>3, <2>3, <2>4, <2>5 DEF Accounted
<1> QED BY <1>6, <1>7, <1>8, <1>10, <1>11, <1>12 DEF Inv

\* A request given up joins the late ones, and the client is unsure of a join.
LEMMA GiveUpInv == ASSUME Inv, GiveUp PROVE Inv'
<1>1. TypeOK'
  BY DEF Inv, TypeOK, OpShape, Leaveable,
         GiveUp, Waiting
<1>2. OpShape' /\ PlaneOwned' /\ Leaveable'
  BY DEF Inv, OpShape, TypeOK, Leaveable, PlaneOwned,
         GiveUp, Waiting
<1>3. Numbered'
  BY DEF Inv, Numbered, TypeOK, OpShape, Leaveable,
         GiveUp, Waiting
<1>4. Settled' /\ LeftForGood'
  BY DEF Inv, Settled, TypeOK, OpShape, Numbered, Pending, LeftForGood,
         GiveUp, Waiting
<1>5. Accounted'
  BY DEF Inv, Accounted, Counted, Pending, TypeOK, OpShape, Leaveable, Settled,
         GiveUp, Waiting
<1> QED BY <1>1, <1>2, <1>3, <1>4, <1>5 DEF Inv

\* A late request enrolls nothing the client holds or has left.
LEMMA ServeLateInv == ASSUME NEW r \in late, Inv, ServeLate(r) PROVE Inv'
<1>1. r \in Request /\ srv \in Server
  BY DEF Inv, TypeOK
<1>2. PICK out \in Outcomes(srv, r) : Bounded(out.srv) /\ srv' = out.srv
  BY DEF ServeLate
<1>3. /\ srv' \in Server
      /\ \/ srv' = srv
         \/ /\ r.kind = "join" /\ srv.member = None
            /\ srv'.member = r.session /\ srv'.doubt = srv.doubt
         \/ /\ r.kind = "join" /\ srv.member = None
            /\ srv'.member = None /\ srv'.doubt = srv.doubt \cup {r.session}
         \/ srv'.member = None /\ srv'.doubt = srv.doubt
  BY <1>1, <1>2, OutcomeCases
<1>4. late' = late \ {r} /\ UNCHANGED <<svc, cred, plane, op, hb, joins, left, unsure>>
  BY DEF ServeLate
<1>5. r.kind = "join" => r = [kind |-> "join", session |-> r.session] /\ Pending(r.session)
  BY <1>1 DEF Pending
<1>6. TypeOK' /\ OpShape' /\ PlaneOwned' /\ Leaveable'
  BY <1>3, <1>4 DEF Inv, TypeOK, OpShape, PlaneOwned, Leaveable
<1>7. Numbered'
  BY <1>1, <1>3, <1>4 DEF Inv, TypeOK, Numbered
<1>8. \A q \in Session : Pending(q)' => Pending(q)
  BY <1>1, <1>3, <1>4, <1>5 DEF Pending
<1>9. Settled'
  <2>1. op.pc \in {"undo", "leave"} /\ op.reply = "ok" => srv'.member # op.request.session
    BY <1>1, <1>3, <1>5 DEF Inv, TypeOK, OpShape, Settled
  <2>2. cred.session # None => ~Pending(cred.session)'
    BY <1>4, <1>8 DEF Inv, TypeOK, Settled
  <2>3. op.pc = "join" /\ op.reply \in {"none", "created"} => ~Pending(op.request.session)'
    BY <1>4, <1>8 DEF Inv, TypeOK, Settled
  <2>4. \A q \in left : ~Pending(q)'
    BY <1>8 DEF Inv, TypeOK, Settled
  <2> QED BY <1>4, <2>1, <2>2, <2>3, <2>4 DEF Settled
<1>10. LeftForGood'
  BY <1>1, <1>3, <1>4, <1>5 DEF Inv, TypeOK, LeftForGood, Settled
<1>11. Accounted'
  <2>1. srv'.member \in {srv.member, None} \/ Pending(srv'.member)
    BY <1>1, <1>3, <1>5
  <2>2. srv'.member \in Session \cup {None}
    BY <1>3
  <2> QED BY <1>4, <1>8, <2>1, <2>2 DEF Inv, Accounted, Counted
<1> QED BY <1>6, <1>7, <1>9, <1>10, <1>11 DEF Inv

\* A new process starts with nothing.
LEMMA StartInv == ASSUME Inv, Start PROVE Inv'
<1>1. TypeOK'
  BY DEF Inv, TypeOK, OpShape, Leaveable,
         Start
<1>2. OpShape' /\ PlaneOwned' /\ Leaveable'
  BY DEF Inv, OpShape, TypeOK, Leaveable, PlaneOwned,
         Start
<1>3. Numbered'
  BY DEF Inv, Numbered, TypeOK, OpShape, Leaveable,
         Start
<1>4. Settled' /\ LeftForGood'
  BY DEF Inv, Settled, TypeOK, OpShape, Numbered, Pending, LeftForGood,
         Start
<1>5. Accounted'
  BY DEF Inv, Accounted, Counted, Pending, TypeOK, OpShape, Leaveable, Settled,
         Start
<1> QED BY <1>1, <1>2, <1>3, <1>4, <1>5 DEF Inv

\* With a stored credential Send makes a well-formed request.
LEMMA SendType ==
    ASSUME NEW o \in Operation, NEW kind \in {"leave", "snapshot"}, cred.session \in Session
    PROVE  /\ Send(o, kind) \in Operation
           /\ Send(o, kind).kind = o.kind /\ Send(o, kind).gen = o.gen
           /\ Send(o, kind).request = [kind |-> kind, session |-> cred.session]
           /\ Send(o, kind).reply = "none"
<1>1. Send(o, kind) = [o EXCEPT !.request = [kind |-> kind, session |-> cred.session],
                                !.reply = "none"]
  BY DEF Send
<1>2. [kind |-> kind, session |-> cred.session] \in Request
  OBVIOUS
<1> QED BY <1>1, <1>2

\* A new join gets a number of its own.
LEMMA JoinBeginInv == ASSUME NEW room \in BOOLEAN, Inv, JoinBegin(room) PROVE Inv'
<1>1. TypeOK'
  <2> DEFINE node == IF room THEN joins' ELSE IF cred.node # None THEN cred.node ELSE 0
             session == [join |-> joins', node |-> node]
  <2>1. joins' = joins + 1 /\ joins' \in 1..MaxJoins
    BY DEF Inv, TypeOK, JoinBegin
  <2>2. node \in NodeID
    BY <2>1 DEF Inv, TypeOK
  <2>3. session \in Session
    BY <2>1, <2>2
  <2>4. op' = [kind |-> "join", pc |-> "join", request |-> [kind |-> "join", session |-> session],
               reply |-> "none", gen |-> 0]
    BY DEF JoinBegin
  <2> HIDE DEF node, session
  <2>5. [kind |-> "join", session |-> session] \in Request
    BY <2>3
  <2>6. op' \in Operation /\ Expects(op'.pc) = op'.request.kind
    BY <2>4, <2>5
  <2> QED BY <2>1, <2>6 DEF Inv, TypeOK, JoinBegin
<1>2. OpShape' /\ PlaneOwned' /\ Leaveable'
  BY DEF Inv, OpShape, TypeOK, Leaveable, PlaneOwned,
         JoinBegin
<1>3. Numbered'
  BY DEF Inv, Numbered, TypeOK, OpShape, Leaveable,
         JoinBegin
<1>4. Settled' /\ LeftForGood'
  BY DEF Inv, Settled, TypeOK, OpShape, Numbered, Pending, LeftForGood,
         JoinBegin
<1>5. Accounted'
  BY DEF Inv, Accounted, Counted, Pending, TypeOK, OpShape, Leaveable, Settled,
         JoinBegin
<1> QED BY <1>1, <1>2, <1>3, <1>4, <1>5 DEF Inv

\* The answer to a join.
LEMMA JoinReplyInv == ASSUME Inv, JoinReply PROVE Inv'
<1>1. op.request \in Request /\ op.request.kind = "join" /\ op.request.session \in Session
  BY DEF Inv, TypeOK, JoinReply
<1>2. UNCHANGED <<svc, plane, hb, late, srv, joins, left, unsure>>
  BY DEF JoinReply
<1>3. CASE op.reply = "created"
  <2>1. cred' = [node |-> op.request.session.node, session |-> op.request.session]
    BY <1>3 DEF JoinReply
  <2>2. op' = [op EXCEPT !.pc = "snapshot", !.reply = "none",
                         !.request = [kind |-> "snapshot", session |-> op.request.session]]
    BY <1>3 DEF JoinReply
  <2>3. [kind |-> "snapshot", session |-> op.request.session] \in Request
    BY <1>1
  <2>4. op' \in Operation
    BY <2>2, <2>3 DEF Inv, TypeOK
  <2>5. /\ op'.kind = "join" /\ op'.pc = "snapshot" /\ op'.reply = "none"
        /\ op'.request.kind = "snapshot" /\ op'.request.session = op.request.session
    BY <2>2 DEF Inv, TypeOK, OpShape, JoinReply
  <2>6. cred' \in [node : NodeID \cup {None}, session : Session \cup {None}]
          /\ cred'.session = op.request.session
    BY <1>1, <2>1
  <2>7. TypeOK'
    BY <1>2, <2>4, <2>5, <2>6 DEF Inv, TypeOK
  <2>8. OpShape' /\ PlaneOwned' /\ Leaveable'
    BY <1>1, <1>2, <2>5, <2>6 DEF Inv, OpShape, PlaneOwned, Leaveable, JoinReply
  <2>9. Numbered'
    BY <1>1, <1>2, <2>5, <2>6 DEF Inv, TypeOK, OpShape, Numbered, JoinReply
  <2>10. Settled' /\ LeftForGood'
    BY <1>1, <1>2, <1>3, <2>5, <2>6 DEF Inv, Settled, LeftForGood, Pending, JoinReply
  <2>11. Accounted'
    BY <1>2, <1>3, <2>5, <2>6 DEF Inv, OpShape, Accounted, Counted, Pending, JoinReply
  <2> QED BY <2>7, <2>8, <2>9, <2>10, <2>11 DEF Inv
<1>4. CASE op.reply # "created"
  <2>1. op' = Idle /\ UNCHANGED cred
    BY <1>4 DEF JoinReply, Done
  <2>2. TypeOK' /\ OpShape' /\ PlaneOwned' /\ Leaveable'
    BY <1>2, <2>1 DEF Inv, TypeOK, OpShape, PlaneOwned, Leaveable
  <2>3. Numbered'
    BY <1>2, <2>1 DEF Inv, TypeOK, Numbered
  <2>4. Settled' /\ LeftForGood'
    BY <1>2, <2>1 DEF Inv, Settled, LeftForGood, Pending
  <2>5. Accounted'
    BY <1>2, <1>4, <2>1 DEF Inv, TypeOK, Accounted, Counted, Pending, JoinReply
  <2> QED BY <2>2, <2>3, <2>4, <2>5 DEF Inv
<1> QED BY <1>3, <1>4

\* The answer to the snapshot request of a join or a connect.
LEMMA SnapshotReplyInv == ASSUME Inv, SnapshotReply PROVE Inv'
<1>1. TypeOK'
  <2>1. cred.session \in Session
    BY DEF Inv, TypeOK, OpShape, SnapshotReply
  <2>2. op' \in Operation /\ Expects(op'.pc) = op'.request.kind
    <3>1. CASE op.reply = "ok"
      BY <3>1 DEF Inv, TypeOK, SnapshotReply
    <3>2. CASE op.reply # "ok" /\ op.kind = "join"
      BY <2>1, <3>2, SendType DEF Inv, TypeOK, SnapshotReply, Rollback
    <3>3. CASE op.reply # "ok" /\ op.kind # "join"
      BY <3>3 DEF SnapshotReply
    <3> QED BY <3>1, <3>2, <3>3
  <2> QED BY <2>2 DEF Inv, TypeOK, SnapshotReply
<1>2. OpShape' /\ PlaneOwned' /\ Leaveable'
  BY DEF Inv, OpShape, TypeOK, Leaveable, PlaneOwned,
         SnapshotReply, Rollback, Send
<1>3. Numbered'
  BY DEF Inv, Numbered, TypeOK, OpShape, Leaveable,
         SnapshotReply, Rollback, Send
<1>4. Settled' /\ LeftForGood'
  BY DEF Inv, Settled, TypeOK, OpShape, Numbered, Pending, LeftForGood,
         SnapshotReply, Rollback, Send
<1>5. Accounted'
  BY DEF Inv, Accounted, Counted, Pending, TypeOK, OpShape, Leaveable, Settled,
         SnapshotReply, Rollback, Send
<1> QED BY <1>1, <1>2, <1>3, <1>4, <1>5 DEF Inv

\* Apply succeeds.
LEMMA ApplySucceedsInv == ASSUME Inv, ApplySucceeds PROVE Inv'
<1>1. TypeOK'
  <2>1. op' = Idle /\ plane' \in 0..MaxVersion
    BY DEF Inv, TypeOK, ApplySucceeds, Done
  <2>2. svc' \in [started : BOOLEAN, joined : Session \cup {None},
                 path : {"disconnected", "direct"}]
    <3>1. CASE op.kind = "join"
      BY <3>1 DEF Inv, TypeOK, ApplySucceeds
    <3>2. CASE op.kind # "join"
      BY <3>2 DEF Inv, TypeOK, ApplySucceeds
    <3> QED BY <3>1, <3>2
  <2> QED BY <2>1, <2>2 DEF Inv, TypeOK, ApplySucceeds
<1>2. OpShape' /\ PlaneOwned' /\ Leaveable'
  BY DEF Inv, OpShape, TypeOK, Leaveable, PlaneOwned,
         ApplySucceeds, Done
<1>3. Numbered'
  BY DEF Inv, Numbered, TypeOK, OpShape, Leaveable,
         ApplySucceeds, Done
<1>4. Settled' /\ LeftForGood'
  BY DEF Inv, Settled, TypeOK, OpShape, Numbered, Pending, LeftForGood,
         ApplySucceeds, Done
<1>5. Accounted'
  BY DEF Inv, Accounted, Counted, Pending, TypeOK, OpShape, Leaveable, Settled,
         ApplySucceeds, Done
<1> QED BY <1>1, <1>2, <1>3, <1>4, <1>5 DEF Inv

\* Apply fails.
LEMMA ApplyFailsInv == ASSUME Inv, ApplyFails PROVE Inv'
<1>1. TypeOK'
  <2>1. op' \in Operation /\ Expects(op'.pc) = op'.request.kind
    <3>1. CASE op.kind = "join"
      <4>1. cred.session \in Session
        BY <3>1 DEF Inv, TypeOK, OpShape, ApplyFails
      <4> QED BY <3>1, <4>1, SendType DEF Inv, TypeOK, ApplyFails, Rollback
    <3>2. CASE op.kind # "join"
      BY <3>2 DEF ApplyFails
    <3> QED BY <3>1, <3>2
  <2> QED BY <2>1 DEF Inv, TypeOK, ApplyFails
<1>2. OpShape' /\ PlaneOwned' /\ Leaveable'
  BY DEF Inv, OpShape, TypeOK, Leaveable, PlaneOwned,
         ApplyFails, Rollback, Send
<1>3. Numbered'
  BY DEF Inv, Numbered, TypeOK, OpShape, Leaveable,
         ApplyFails, Rollback, Send
<1>4. Settled' /\ LeftForGood'
  BY DEF Inv, Settled, TypeOK, OpShape, Numbered, Pending, LeftForGood,
         ApplyFails, Rollback, Send
<1>5. Accounted'
  BY DEF Inv, Accounted, Counted, Pending, TypeOK, OpShape, Leaveable, Settled,
         ApplyFails, Rollback, Send
<1> QED BY <1>1, <1>2, <1>3, <1>4, <1>5 DEF Inv

\* The answer to the Leave of a rolled-back join.
LEMMA UndoReplyInv == ASSUME Inv, UndoReply PROVE Inv'
<1>1. TypeOK'
  BY DEF Inv, TypeOK, OpShape, Leaveable,
         UndoReply, Done, Forget
<1>2. OpShape' /\ PlaneOwned' /\ Leaveable'
  BY DEF Inv, OpShape, TypeOK, Leaveable, PlaneOwned,
         UndoReply, Done, Forget
<1>3. Numbered'
  BY DEF Inv, Numbered, TypeOK, OpShape, Leaveable,
         UndoReply, Done, Forget
<1>4. Settled' /\ LeftForGood'
  BY DEF Inv, Settled, TypeOK, OpShape, Numbered, Pending, LeftForGood,
         UndoReply, Done, Forget
<1>5. Accounted'
  BY DEF Inv, Accounted, Counted, Pending, TypeOK, OpShape, Leaveable, Settled,
         UndoReply, Done, Forget
<1> QED BY <1>1, <1>2, <1>3, <1>4, <1>5 DEF Inv

\* connect asks for the snapshot.
LEMMA ConnectBeginInv == ASSUME Inv, ConnectBegin PROVE Inv'
<1>1. TypeOK'
  BY DEF Inv, TypeOK, OpShape, Leaveable,
         ConnectBegin, Send
<1>2. OpShape' /\ PlaneOwned' /\ Leaveable'
  BY DEF Inv, OpShape, TypeOK, Leaveable, PlaneOwned,
         ConnectBegin, Send
<1>3. Numbered'
  BY DEF Inv, Numbered, TypeOK, OpShape, Leaveable,
         ConnectBegin, Send
<1>4. Settled' /\ LeftForGood'
  BY DEF Inv, Settled, TypeOK, OpShape, Numbered, Pending, LeftForGood,
         ConnectBegin, Send
<1>5. Accounted'
  BY DEF Inv, Accounted, Counted, Pending, TypeOK, OpShape, Leaveable, Settled,
         ConnectBegin, Send
<1> QED BY <1>1, <1>2, <1>3, <1>4, <1>5 DEF Inv

\* disconnect goes to Clear.
LEMMA DisconnectBeginInv == ASSUME Inv, DisconnectBegin PROVE Inv'
<1>1. TypeOK'
  BY DEF Inv, TypeOK, OpShape, Leaveable,
         DisconnectBegin, Begin
<1>2. OpShape' /\ PlaneOwned' /\ Leaveable'
  BY DEF Inv, OpShape, TypeOK, Leaveable, PlaneOwned,
         DisconnectBegin, Begin
<1>3. Numbered'
  BY DEF Inv, Numbered, TypeOK, OpShape, Leaveable,
         DisconnectBegin, Begin
<1>4. Settled' /\ LeftForGood'
  BY DEF Inv, Settled, TypeOK, OpShape, Numbered, Pending, LeftForGood,
         DisconnectBegin, Begin
<1>5. Accounted'
  BY DEF Inv, Accounted, Counted, Pending, TypeOK, OpShape, Leaveable, Settled,
         DisconnectBegin, Begin
<1> QED BY <1>1, <1>2, <1>3, <1>4, <1>5 DEF Inv

\* leave goes to Disconnect or Clear.
LEMMA LeaveBeginInv == ASSUME Inv, LeaveBegin PROVE Inv'
<1>1. TypeOK'
  BY DEF Inv, TypeOK, OpShape, Leaveable,
         LeaveBegin, Begin
<1>2. OpShape' /\ PlaneOwned' /\ Leaveable'
  BY DEF Inv, OpShape, TypeOK, Leaveable, PlaneOwned,
         LeaveBegin, Begin
<1>3. Numbered'
  BY DEF Inv, Numbered, TypeOK, OpShape, Leaveable,
         LeaveBegin, Begin
<1>4. Settled' /\ LeftForGood'
  BY DEF Inv, Settled, TypeOK, OpShape, Numbered, Pending, LeftForGood,
         LeaveBegin, Begin
<1>5. Accounted'
  BY DEF Inv, Accounted, Counted, Pending, TypeOK, OpShape, Leaveable, Settled,
         LeaveBegin, Begin
<1> QED BY <1>1, <1>2, <1>3, <1>4, <1>5 DEF Inv

\* Shutdown goes to Clear.
LEMMA ShutdownBeginInv == ASSUME Inv, ShutdownBegin PROVE Inv'
<1>1. TypeOK'
  BY DEF Inv, TypeOK, OpShape, Leaveable,
         ShutdownBegin, Begin
<1>2. OpShape' /\ PlaneOwned' /\ Leaveable'
  BY DEF Inv, OpShape, TypeOK, Leaveable, PlaneOwned,
         ShutdownBegin, Begin
<1>3. Numbered'
  BY DEF Inv, Numbered, TypeOK, OpShape, Leaveable,
         ShutdownBegin, Begin
<1>4. Settled' /\ LeftForGood'
  BY DEF Inv, Settled, TypeOK, OpShape, Numbered, Pending, LeftForGood,
         ShutdownBegin, Begin
<1>5. Accounted'
  BY DEF Inv, Accounted, Counted, Pending, TypeOK, OpShape, Leaveable, Settled,
         ShutdownBegin, Begin
<1> QED BY <1>1, <1>2, <1>3, <1>4, <1>5 DEF Inv

\* leave's Disconnect.
LEMMA LeaveDisconnectsInv == ASSUME Inv, LeaveDisconnects PROVE Inv'
<1>1. TypeOK'
  BY DEF Inv, TypeOK, OpShape, Leaveable,
         LeaveDisconnects, Done
<1>2. OpShape' /\ PlaneOwned' /\ Leaveable'
  BY DEF Inv, OpShape, TypeOK, Leaveable, PlaneOwned,
         LeaveDisconnects, Done
<1>3. Numbered'
  BY DEF Inv, Numbered, TypeOK, OpShape, Leaveable,
         LeaveDisconnects, Done
<1>4. Settled' /\ LeftForGood'
  BY DEF Inv, Settled, TypeOK, OpShape, Numbered, Pending, LeftForGood,
         LeaveDisconnects, Done
<1>5. Accounted'
  BY DEF Inv, Accounted, Counted, Pending, TypeOK, OpShape, Leaveable, Settled,
         LeaveDisconnects, Done
<1> QED BY <1>1, <1>2, <1>3, <1>4, <1>5 DEF Inv

\* Clear succeeds for leave, disconnect or Shutdown.
LEMMA ClearSucceedsInv == ASSUME Inv, ClearSucceeds PROVE Inv'
<1>1. /\ op.pc = "clear" /\ plane' = 0 /\ unsure \subseteq unsure'
      /\ UNCHANGED <<cred, hb, late, srv, joins, left>>
  BY DEF ClearSucceeds, Orphaned
<1>2. /\ unsure' \subseteq Session
      /\ op.kind = "shutdown" /\ cred.session # None => cred.session \in unsure'
  BY DEF Inv, TypeOK, ClearSucceeds, Orphaned
<1>3. CASE op.kind = "leave"
  <2>1. cred.session \in Session
    BY <1>3 DEF Inv, TypeOK, OpShape, Leaveable
  <2>2. op' = [Send(op, "leave") EXCEPT !.pc = "leave"] /\ UNCHANGED svc
    BY <1>3 DEF ClearSucceeds
  <2>3. op' \in Operation
    BY <2>1, <2>2, SendType DEF Inv, TypeOK
  <2>4. /\ op'.kind = "leave" /\ op'.pc = "leave" /\ op'.reply = "none"
        /\ op'.request = [kind |-> "leave", session |-> cred.session]
    BY <1>3, <2>1, <2>2, SendType DEF Inv, TypeOK
  <2>5. TypeOK'
    BY <1>1, <1>2, <2>2, <2>3, <2>4 DEF Inv, TypeOK
  <2>6. OpShape' /\ PlaneOwned' /\ Leaveable'
    BY <1>1, <1>3, <2>2, <2>4 DEF Inv, OpShape, PlaneOwned, Leaveable
  <2>7. Numbered'
    BY <1>1, <2>4 DEF Inv, TypeOK, Numbered
  <2>8. Settled' /\ LeftForGood'
    BY <1>1, <2>4 DEF Inv, Settled, LeftForGood, Pending
  <2>9. Accounted'
    BY <1>1, <1>3, <2>2, <2>4 DEF Inv, OpShape, Accounted, Counted, Pending
  <2> QED BY <2>5, <2>6, <2>7, <2>8, <2>9 DEF Inv
<1>4. CASE op.kind # "leave"
  <2>1. /\ op' = Idle
        /\ \/ op.kind = "shutdown" /\ svc' = Stopped
           \/ op.kind = "disconnect" /\ svc' = [svc EXCEPT !.path = "disconnected"]
    BY <1>4 DEF Inv, TypeOK, ClearSucceeds, Done
  <2>2. TypeOK'
    <3>1. svc' \in [started : BOOLEAN, joined : Session \cup {None},
                    path : {"disconnected", "direct"}]
      <4>1. CASE svc' = Stopped
        BY <4>1
      <4>2. CASE svc' = [svc EXCEPT !.path = "disconnected"]
        BY <4>2 DEF Inv, TypeOK
      <4> QED BY <2>1, <4>1, <4>2
    <3> QED BY <1>1, <1>2, <2>1, <3>1 DEF Inv, TypeOK
  <2>3. OpShape' /\ PlaneOwned' /\ Leaveable'
    BY <1>1, <2>1 DEF Inv, TypeOK, OpShape, PlaneOwned, Leaveable
  <2>4. Numbered'
    BY <1>1, <2>1 DEF Inv, TypeOK, Numbered
  <2>5. Settled' /\ LeftForGood'
    BY <1>1, <2>1 DEF Inv, Settled, LeftForGood, Pending
  <2>6. Accounted'
    BY <1>1, <1>2, <2>1 DEF Inv, TypeOK, OpShape, Leaveable, Accounted, Counted, Pending
  <2> QED BY <2>2, <2>3, <2>4, <2>5, <2>6 DEF Inv
<1> QED BY <1>3, <1>4

\* Clear fails.
LEMMA ClearFailsInv == ASSUME Inv, ClearFails PROVE Inv'
<1>1. TypeOK'
  BY DEF Inv, TypeOK, OpShape, Leaveable,
         ClearFails, Done, Orphaned
<1>2. OpShape' /\ PlaneOwned' /\ Leaveable'
  BY DEF Inv, OpShape, TypeOK, Leaveable, PlaneOwned,
         ClearFails, Done, Orphaned
<1>3. Numbered'
  BY DEF Inv, Numbered, TypeOK, OpShape, Leaveable,
         ClearFails, Done, Orphaned
<1>4. Settled' /\ LeftForGood'
  BY DEF Inv, Settled, TypeOK, OpShape, Numbered, Pending, LeftForGood,
         ClearFails, Done, Orphaned
<1>5. Accounted'
  BY DEF Inv, Accounted, Counted, Pending, TypeOK, OpShape, Leaveable, Settled,
         ClearFails, Done, Orphaned
<1> QED BY <1>1, <1>2, <1>3, <1>4, <1>5 DEF Inv

\* The answer to leave.
LEMMA LeaveReplyInv == ASSUME Inv, LeaveReply PROVE Inv'
<1>1. TypeOK'
  BY DEF Inv, TypeOK, OpShape, Leaveable,
         LeaveReply, Done, Forget
<1>2. OpShape' /\ PlaneOwned' /\ Leaveable'
  BY DEF Inv, OpShape, TypeOK, Leaveable, PlaneOwned,
         LeaveReply, Done, Forget
<1>3. Numbered'
  BY DEF Inv, Numbered, TypeOK, OpShape, Leaveable,
         LeaveReply, Done, Forget
<1>4. Settled' /\ LeftForGood'
  BY DEF Inv, Settled, TypeOK, OpShape, Numbered, Pending, LeftForGood,
         LeaveReply, Done, Forget
<1>5. Accounted'
  BY DEF Inv, Accounted, Counted, Pending, TypeOK, OpShape, Leaveable, Settled,
         LeaveReply, Done, Forget
<1> QED BY <1>1, <1>2, <1>3, <1>4, <1>5 DEF Inv

\* The process dies.
LEMMA CrashInv == ASSUME Inv, Crash PROVE Inv'
<1>1. TypeOK'
  BY DEF Inv, TypeOK, OpShape, Leaveable,
         Crash, Waiting, Orphaned
<1>2. OpShape' /\ PlaneOwned' /\ Leaveable'
  BY DEF Inv, OpShape, TypeOK, Leaveable, PlaneOwned,
         Crash, Waiting, Orphaned
<1>3. Numbered'
  BY DEF Inv, Numbered, TypeOK, OpShape, Leaveable,
         Crash, Waiting, Orphaned
<1>4. Settled' /\ LeftForGood'
  BY DEF Inv, Settled, TypeOK, OpShape, Numbered, Pending, LeftForGood,
         Crash, Waiting, Orphaned
<1>5. Accounted'
  BY DEF Inv, Accounted, Counted, Pending, TypeOK, OpShape, Leaveable, Settled,
         Crash, Waiting, Orphaned
<1> QED BY <1>1, <1>2, <1>3, <1>4, <1>5 DEF Inv

\* A heartbeat leaves.
LEMMA HeartbeatSendInv == ASSUME Inv, HeartbeatSend PROVE Inv'
<1>1. TypeOK'
  BY DEF Inv, TypeOK, OpShape, Leaveable,
         HeartbeatSend
<1>2. OpShape' /\ PlaneOwned' /\ Leaveable'
  BY DEF Inv, OpShape, TypeOK, Leaveable, PlaneOwned,
         HeartbeatSend
<1>3. Numbered'
  BY DEF Inv, Numbered, TypeOK, OpShape, Leaveable,
         HeartbeatSend
<1>4. Settled' /\ LeftForGood'
  BY DEF Inv, Settled, TypeOK, OpShape, Numbered, Pending, LeftForGood,
         HeartbeatSend
<1>5. Accounted'
  BY DEF Inv, Accounted, Counted, Pending, TypeOK, OpShape, Leaveable, Settled,
         HeartbeatSend
<1> QED BY <1>1, <1>2, <1>3, <1>4, <1>5 DEF Inv

\* A heartbeat arrives.
LEMMA HeartbeatServeInv == ASSUME Inv, HeartbeatServe PROVE Inv'
<1>1. TypeOK'
  BY DEF Inv, TypeOK, OpShape, Leaveable,
         HeartbeatServe, Serves
<1>2. OpShape' /\ PlaneOwned' /\ Leaveable'
  BY DEF Inv, OpShape, TypeOK, Leaveable, PlaneOwned,
         HeartbeatServe, Serves
<1>3. Numbered'
  BY DEF Inv, Numbered, TypeOK, OpShape, Leaveable,
         HeartbeatServe, Serves
<1>4. Settled' /\ LeftForGood'
  BY DEF Inv, Settled, TypeOK, OpShape, Numbered, Pending, LeftForGood,
         HeartbeatServe, Serves
<1>5. Accounted'
  BY DEF Inv, Accounted, Counted, Pending, TypeOK, OpShape, Leaveable, Settled,
         HeartbeatServe, Serves
<1> QED BY <1>1, <1>2, <1>3, <1>4, <1>5 DEF Inv

----------------------------------------------------------------------------
\* The initial state: stopped, nothing enrolled, nothing pending.
LEMMA InitInv == Init => Inv
<1> SUFFICES ASSUME Init PROVE Inv
  OBVIOUS
<1>1. TypeOK
  <2>1. srv \in Server
    <3>1. srv = [member |-> None, sessions |-> {}, doubt |-> {}, version |-> 1]
      BY DEF Init
    <3>2. 1 \in 1..MaxVersion
      OBVIOUS
    <3> QED BY <3>1, <3>2
  <2>2. op \in Operation /\ Expects(op.pc) = op.request.kind
    BY DEF Init
  <2>3. svc \in [started : BOOLEAN, joined : Session \cup {None},
                 path : {"disconnected", "direct"}]
    BY StoppedType DEF Init
  <2>4. unsure \subseteq Session
    BY DEF Init
  <2>5. /\ cred \in [node : NodeID \cup {None}, session : Session \cup {None}]
        /\ plane \in 0..MaxVersion /\ joins \in 0..MaxJoins
        /\ hb \in Session \cup {None} /\ late \subseteq Request /\ left \subseteq Session
    BY DEF Init
  <2> HIDE DEF Server, Operation, Session, Request, NodeID
  <2> QED BY <2>1, <2>2, <2>3, <2>4, <2>5 DEF TypeOK
<1>2. OpShape /\ PlaneOwned /\ Leaveable
  BY DEF Init, OpShape, PlaneOwned, Leaveable
<1>3. Numbered /\ Settled /\ LeftForGood
  BY DEF Init, Numbered, Settled, LeftForGood, Pending
<1>4. Accounted
  BY DEF Init, Accounted, Pending
<1> QED BY <1>1, <1>2, <1>3, <1>4 DEF Inv

\* Every step preserves the invariant.
LEMMA NextInv == Inv /\ [Next]_vars => Inv'
<1> SUFFICES ASSUME Inv, [Next]_vars PROVE Inv'
  OBVIOUS
<1>1. CASE Command
  BY <1>1, StartInv, JoinBeginInv, ConnectBeginInv, DisconnectBeginInv, LeaveBeginInv,
     ShutdownBeginInv DEF Command
<1>2. CASE ServiceStep
  BY <1>2, JoinReplyInv, SnapshotReplyInv, ApplySucceedsInv, ApplyFailsInv, UndoReplyInv,
     LeaveDisconnectsInv, ClearSucceedsInv, ClearFailsInv, LeaveReplyInv DEF ServiceStep
<1>3. CASE ServerStep
  BY <1>3, ResolveCommitInv, AdminDeletesInv, SessionsLostInv, ServeInv, ServeLateInv,
     HeartbeatServeInv DEF ServerStep
<1>4. CASE GiveUp
  BY <1>4, GiveUpInv
<1>5. CASE HeartbeatSend
  BY <1>5, HeartbeatSendInv
<1>6. CASE Crash
  BY <1>6, CrashInv
<1>7. CASE UNCHANGED vars
  BY <1>7 DEF vars, Inv, TypeOK, OpShape, PlaneOwned, Leaveable, Numbered, Settled,
              LeftForGood, Accounted, Counted, Pending
<1> QED BY <1>1, <1>2, <1>3, <1>4, <1>5, <1>6, <1>7 DEF Next

\* Whatever is lost, late or in doubt, the service, its client and the server
\* stay in the relation Inv describes.
THEOREM ServiceInvariant == Spec => []Inv
<1> QED BY InitInv, NextInv, PTL DEF Spec

\* The state of service, client, operation and server is well typed.
THEOREM TypeCorrect == Spec => []TypeOK
<1>1. Inv => TypeOK
  BY DEF Inv
<1> QED BY <1>1, ServiceInvariant, PTL

\* No data plane without a membership the service knows of.
THEOREM PlaneOwnedAlways == Spec => []PlaneOwned
<1>1. Inv => PlaneOwned
  BY DEF Inv
<1> QED BY <1>1, ServiceInvariant, PTL

\* While joined, the client holds the credential of that enrollment.
THEOREM LeaveableAlways == Spec => []Leaveable
<1>1. Inv => Leaveable
  BY DEF Inv
<1> QED BY <1>1, ServiceInvariant, PTL

\* An enrollment whose Leave succeeded never returns to the server.
THEOREM LeftForGoodAlways == Spec => []LeftForGood
<1>1. Inv => LeftForGood
  BY DEF Inv
<1> QED BY <1>1, ServiceInvariant, PTL

\* Between operations the server has no enrollment of a service that is not
\* joined, but those that are named in unsure: a failed join is undone.
THEOREM FailedJoinUndoneAlways == Spec => []FailedJoinUndone
<1>1. Inv => FailedJoinUndone
  BY DEF Inv, OpShape, Accounted, Counted, FailedJoinUndone
<1> QED BY <1>1, ServiceInvariant, PTL

=============================================================================
