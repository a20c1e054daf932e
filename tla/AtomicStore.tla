----------------------------- MODULE AtomicStore -----------------------------
(***************************************************************************)
(* What callers of control.Repository may rely on: every method, and the   *)
(* enrollment that enrollControl composes inside WithTransaction, is one   *)
(* indivisible change of the store.  MemoryRepository gives this with one  *)
(* mutex (module Repository); PostgresStore implements it with row locks.  *)
(***************************************************************************)
EXTENDS Repository

CONSTANT Initial   \* the stores explored from

\* AddNode, ConsumeInviteForNode and AddMembership as one change.
Enrolled(r, d, k, i, n, a) ==
    AddMembership(ConsumeInviteForNode(AddNode(r, d, k), i, d), n, d, a, "active")

DoEnroll(d, k, i, t, a) ==
    /\ CanAddNode(db, d, k)
    /\ CanConsumeInvite(AddNode(db, d, k), i, t, i, d)
    /\ LET n == db.invites[i].network
       IN  /\ CanAddMembership(ConsumeInviteForNode(AddNode(db, d, k), i, d), n, d, a)
           /\ Publish(Enrolled(db, d, k, i, n, a))

StoreInit == db \in Initial

StoreNext ==
    \/ Next
    \/ \E d \in Node, k \in Key, i \in Invite, t \in Token, a \in Address :
          DoEnroll(d, k, i, t, a)

StoreSpec == StoreInit /\ [][StoreNext]_db

=============================================================================
