---------------------------- MODULE OrdersProofs ----------------------------
(***************************************************************************)
(* Orders for every number of clients, attempts and operations: a cancelled *)
(* order is never signed for, an order trades once and is announced once.   *)
(***************************************************************************)
EXTENDS Orders, FiniteSetTheorems, TLAPS

Places == {"idle", "quoting", "telling", "pricing", "building", "built", "signing", "sent",
           "cancelling"}

\* The order's lock is held for as long as a call on it lasts.
LeaseInv == \A c \in Clients : pc[c] # "idle" => lease = c

\* What a call that holds the lock knows of the order: nobody cancelled it, the copy knows whether
\* it was announced, and an attempt that was charged is in the copy.
HeldInv == \A c \in Clients :
  /\ pc[c] \notin {"idle", "cancelling"} => order.st # "Cancelled"
  /\ pc[c] = "signing" => order.st = "Waiting"
  /\ pc[c] \in {"quoting", "pricing", "building", "built"} =>
       copy[c].told = order.told /\ copy[c].st # "Cancelled"
  /\ pc[c] \in {"building", "built"} => copy[c].free >= 1 /\ copy[c].st = "Review"
  /\ pc[c] \in {"built", "signing"} => cur[c] \in Ops

\* An order that is being tried, or may be, has not traded.
Traded(o) == Own(o) /\ Sent(o) /\ journal[o].kind = "swap"
SwapSent == \E o \in Ops : Traded(o)
TriedInv ==
  order.st = "Review" \/ (\E c \in Clients : pc[c] \in {"pricing", "building", "built", "signing"})
    => ~SwapSent

\* The stamp comes before the notice.
ToldInv ==
  /\ ~order.told => notices = 0
  /\ \A c \in Clients : pc[c] = "telling" => notices = 0 /\ order.told

\* An order lists what was signed for it, and every operation it lists took an attempt: so does a
\* call's copy of it, until the call signs.
Signed(o)   == Own(o) /\ Sent(o)
Lists(v)    == \A o \in Ops : Signed(o) => o \in v.ops
Budgeted(v) == /\ Cardinality(v.ops) + v.free <= v.tries
               /\ v.tries <= MaxAttempts /\ v.tries <= FeeBudget
BudgetInv ==
  /\ Budgeted(order) /\ Lists(order)
  /\ \A c \in Clients :
       /\ Budgeted(copy[c])
       /\ pc[c] \in {"quoting", "pricing", "building", "built"} => Lists(copy[c])
       /\ pc[c] = "signing" => cur[c] \in order.ops

IInv == /\ TypeOK /\ LeaseInv /\ HeldInv /\ TriedInv /\ OneSwap /\ ToldInv /\ AnnouncedOnce
        /\ BudgetInv

-----------------------------------------------------------------------------
(* Types. *)

\* adopt: what a row lists after it took in its stray operations.
LEMMA AdoptedType ==
  ASSUME journal \in [Ops -> Row], NEW v \in Record, Coherent(v)
  PROVE  /\ Adopted(v) \in Record
         /\ Adopted(v).st = v.st /\ Adopted(v).told = v.told /\ Adopted(v).tries = v.tries
<1>1. Stray(v) \subseteq Ops /\ IsFiniteSet(Ops)
  BY FS_Interval, OrderBounds DEF Stray, Ops
<1>2. Cardinality(Stray(v)) \in Nat
  BY <1>1, FS_Subset, FS_CardinalityType
<1>3. v.free - Cardinality(Stray(v)) \in Nat
  BY <1>2 DEF Coherent, Record
<1> QED BY <1>1, <1>3 DEF Adopted, Record

\* Another status leaves the rest of a row alone.
LEMMA ToType ==
  ASSUME NEW v \in Record, NEW st \in State
  PROVE  To(v, st) \in Record /\ To(v, st).st = st /\ To(v, st).told = v.told
BY DEF To, Record

\* The order as it was created is a row.
LEMMA ArmedType == Armed \in Record
BY DEF Armed, Record, State

\* An attempt is charged with all of it.
LEMMA ChargedType ==
  ASSUME NEW v \in Record
  PROVE  /\ Charged(v) \in Record /\ Charged(v).st = "Review" /\ Charged(v).told = v.told
         /\ Charged(v).free >= 1
<1>1. v.tries + 1 \in Nat /\ v.free + 1 \in Nat /\ v.free + 1 >= 1 /\ "Review" \in State
  BY DEF Record, State
<1> QED BY <1>1 DEF Charged, Record

\* reconcile: an order kept by an operation of its own is waiting, complete or stopped.
LEMMA ReconciledType ==
  ASSUME journal \in [Ops -> Row], NEW v \in Record, Coherent(v), NEW w \in Reconciled(v)
  PROVE  w \in Record /\ w.st \in {"Waiting", "Complete", "Stopped"} /\ w.told = v.told
<1>1. PICK o \in Ops : w = To(Adopted(v), Verdict(o))
  BY DEF Reconciled
<1>2. Verdict(o) \in {"Waiting", "Complete", "Stopped"}
  BY DEF Verdict
<1>3. Verdict(o) \in State
  BY <1>2 DEF State
<1> QED BY <1>1, <1>2, <1>3, AdoptedType, ToType

-----------------------------------------------------------------------------
(* Steps. *)

\* Every call, crash and block keeps every variable in its type.
THEOREM TypeStep == TypeOK /\ HeldInv /\ [Next]_vars => TypeOK'
<1> SUFFICES ASSUME TypeOK, HeldInv, [Next]_vars PROVE TypeOK'
  OBVIOUS
<1> USE DEF TypeOK, bounds, AtOnce, Idle
<1> DEFINE Calls == /\ lease' \in Clients \cup {Nobody}
                    /\ pc' \in [Clients -> Places]
                    /\ copy' \in [Clients -> Record] /\ cur' \in [Clients -> Ops \cup {NoOp}]
<1>end. ASSUME NEW c \in Clients, End(c) PROVE Calls
  BY <1>end, ArmedType DEF End, Places
<1>hold. ASSUME NEW c \in Clients, NEW place \in Places, NEW v \in Record, NEW o \in Ops \cup {NoOp},
                Hold(c, place, v, o)
         PROVE  Calls
  BY <1>hold DEF Hold, Places
<1>1. ASSUME NEW c \in Clients, ObserveExpired(c) PROVE TypeOK'
  BY <1>1, ToType DEF ObserveExpired, State
<1>2. ASSUME NEW c \in Clients, ObserveBlocked(c) \/ PrepareBlocked(c) PROVE TypeOK'
  BY <1>2, ReconciledType DEF ObserveBlocked, PrepareBlocked
<1>3. ASSUME NEW c \in Clients, ObserveAsk(c) \/ PrepareAsk(c) PROVE TypeOK'
  BY <1>3, <1>hold, AdoptedType DEF ObserveAsk, PrepareAsk, Places
<1>4. ASSUME NEW c \in Clients, ObserveQuote(c) PROVE TypeOK'
  <2>1. [copy[c] EXCEPT !.st = "Triggered", !.told = TRUE] \in Record
    BY DEF Record, State
  <2>2. To(copy[c], "Armed") \in Record
    BY ToType DEF State
  <2> QED BY <1>4, <1>end, <1>hold, <2>1, <2>2 DEF ObserveQuote, Places
<1>5. ASSUME NEW c \in Clients, Tell(c) \/ BuildFails(c) \/ CommitDone(c) PROVE TypeOK'
  BY <1>5, <1>end DEF Tell, BuildFails, CommitDone, Places
<1>6. ASSUME NEW c \in Clients, PreparePrice(c) PROVE TypeOK'
  <2>1. To(copy[c], "Armed") \in Record /\ Charged(copy[c]) \in Record
    BY ToType, ChargedType DEF State
  <2> QED BY <1>6, <1>end, <1>hold, <2>1 DEF PreparePrice, Places
<1>7. ASSUME NEW c \in Clients, NEW kind \in {"approve", "swap"}, BuildOk(c, kind) PROVE TypeOK'
  BY <1>7, <1>hold DEF BuildOk, Places, Row
<1>8. ASSUME NEW c \in Clients, Link(c) PROVE TypeOK'
  <2> DEFINE v == copy[c]
             w == [v EXCEPT !.ops = v.ops \cup {cur[c]}, !.free = v.free - 1]
  <2>1. v.free - 1 \in Nat /\ cur[c] \in Ops
    BY <1>8 DEF Link, HeldInv, Record
  <2>2. w \in Record
    BY <2>1 DEF Record
  <2>3. order' = order \/ order' = w
    BY <1>8 DEF Link
  <2>4. journal' \in [Ops -> Row] /\ open' \in [Clients -> SUBSET Ops]
    BY <1>8, <2>1 DEF Link, Discarded, Set, Close, Row
  <2>5. Calls
    BY <1>8, <1>end DEF Link
  <2> HIDE DEF w
  <2> QED BY <1>8, <2>2, <2>3, <2>4, <2>5 DEF Link, Places
<1>9. ASSUME NEW c \in Clients, NEW o \in Ops, Guard(c, o) PROVE TypeOK'
  <2>1. To(order, "Waiting") \in Record
    BY ToType DEF State
  <2> QED BY <1>9, <1>hold, <2>1 DEF Guard, Places
<1>10. ASSUME NEW c \in Clients, CommitRefused(c) PROVE TypeOK'
  BY <1>10, <1>end DEF CommitRefused, Close, Places
<1>11. ASSUME NEW c \in Clients, CommitSign(c) PROVE TypeOK'
  <2>1. cur[c] \in Ops
    BY <1>11 DEF CommitSign, HeldInv
  <2> QED BY <1>11, <1>hold, <2>1 DEF CommitSign, Set, Row, Close, Places
<1>12. ASSUME NEW c \in Clients, Cancel(c) PROVE TypeOK'
  <2>1. To(order, "Cancelled") \in Record
    BY ToType DEF State
  <2> QED BY <1>12, <1>hold, <2>1 DEF Cancel, Places
<1>13. ASSUME NEW c \in Clients, CancelRest(c) PROVE TypeOK'
  BY <1>13, <1>end DEF CancelRest, Row, Places
<1>14. ASSUME NEW c \in Clients, Crash(c) PROVE TypeOK'
  BY <1>14, ArmedType DEF Crash
<1>15. ASSUME NEW c \in Clients, NEW o \in Ops, Discard(c, o) PROVE TypeOK'
  BY <1>15 DEF Discard, Discarded, Set, Row, Close
<1>16. CASE Expire
  BY <1>16 DEF Expire
<1>17. ASSUME NEW o \in Ops, Abandon(o) \/ Undone(o) PROVE TypeOK'
  BY <1>17 DEF Abandon, Undone, Set, Row
<1>18. ASSUME NEW o \in Ops, Reuse(o) PROVE TypeOK'
  BY <1>18 DEF Reuse, Row
<1>19. ASSUME NEW o \in Ops, NEW st \in {"confirmed", "failed"}, Included(o, st) PROVE TypeOK'
  BY <1>19 DEF Included, Set, Row
<1>20. CASE UNCHANGED vars
  BY <1>20 DEF vars
<1> HIDE DEF TypeOK
<1> QED BY <1>1, <1>2, <1>3, <1>4, <1>5, <1>6, <1>7, <1>8, <1>9, <1>10, <1>11, <1>12, <1>13, <1>14,
           <1>15, <1>16, <1>17, <1>18, <1>19, <1>20
        DEF Next, Observe, Prepare, Commit, Stop, Beneath

\* One call at a time: each step of one is made under the lock, and ends or keeps it.
THEOREM LeaseStep == TypeOK /\ LeaseInv /\ [Next]_vars => LeaseInv'
<1> SUFFICES ASSUME TypeOK, LeaseInv, [Next]_vars PROVE LeaseInv'
  OBVIOUS
<1> USE OrderBounds DEF TypeOK, bounds, AtOnce, Idle, LeaseInv
<1>0. Nobody \notin Clients
  OBVIOUS
<1>end. ASSUME NEW c \in Clients, lease \in {c, Nobody}, End(c) PROVE LeaseInv'
  BY <1>0, <1>end DEF End
<1>hold. ASSUME NEW c \in Clients, lease \in {c, Nobody}, NEW place, NEW v, NEW o, Hold(c, place, v, o)
         PROVE  LeaseInv'
  BY <1>0, <1>hold DEF Hold
<1>once. ASSUME AtOnce PROVE LeaseInv'
  BY <1>once
<1>1. ASSUME NEW c \in Clients, Observe(c) PROVE LeaseInv'
  BY <1>1, <1>end, <1>hold, <1>once
     DEF Observe, ObserveExpired, ObserveBlocked, ObserveAsk, ObserveQuote, Tell
<1>2. ASSUME NEW c \in Clients, Prepare(c) PROVE LeaseInv'
  BY <1>2, <1>end, <1>hold, <1>once
     DEF Prepare, PrepareBlocked, PrepareAsk, PreparePrice, BuildOk, BuildFails, Link
<1>3. ASSUME NEW c \in Clients, Commit(c) PROVE LeaseInv'
  BY <1>3, <1>end, <1>hold, <1>once DEF Commit, Guard, CommitRefused, CommitSign, CommitDone
<1>4. ASSUME NEW c \in Clients, Stop(c) PROVE LeaseInv'
  <2>1. ASSUME Crash(c) PROVE LeaseInv'
    BY <1>0, <2>1 DEF Crash
  <2> QED BY <1>4, <1>end, <1>hold, <1>once, <2>1 DEF Stop, Cancel, CancelRest, Discard
<1>5. CASE Beneath
  BY <1>5, <1>once DEF Beneath, Expire, Abandon, Undone, Reuse, Included
<1>6. CASE UNCHANGED vars
  BY <1>6 DEF vars
<1> HIDE DEF LeaseInv
<1> QED BY <1>1, <1>2, <1>3, <1>4, <1>5, <1>6 DEF Next

\* While a call lasts, everybody else is idle; before one starts, everybody is.
LEMMA Alone ==
  ASSUME LeaseInv, NEW c \in Clients, lease = c \/ lease = Nobody
  PROVE  \A d \in Clients \ {c} : pc[d] = "idle"
BY OrderBounds DEF LeaseInv

\* A call leaves behind what it knows of the order, and knows no more than it should.
THEOREM HeldStep == TypeOK /\ LeaseInv /\ HeldInv /\ [Next]_vars => HeldInv'
<1> SUFFICES ASSUME TypeOK, LeaseInv, HeldInv, [Next]_vars PROVE HeldInv'
  OBVIOUS
<1> USE DEF TypeOK, bounds, AtOnce, Idle
<1> DEFINE Quiet == \A d \in Clients : pc'[d] = "idle"
           Only(c) == \A d \in Clients \ {c} : pc'[d] = "idle"
<1>quiet. ASSUME Quiet PROVE HeldInv'
  BY <1>quiet DEF HeldInv
<1>end. ASSUME NEW c \in Clients, lease = c \/ lease = Nobody, End(c) PROVE HeldInv'
  <2>1. Quiet
    BY <1>end, Alone DEF End
  <2> QED BY <2>1, <1>quiet
<1>hold. ASSUME NEW c \in Clients, lease = c \/ lease = Nobody, NEW place, NEW v, NEW o, Hold(c, place, v, o)
         PROVE  /\ Only(c) /\ pc'[c] = place /\ copy'[c] = v /\ cur'[c] = o
  BY <1>hold, Alone DEF Hold
<1>idle. ASSUME lease = Nobody, AtOnce PROVE HeldInv'
  <2>1. Quiet
    BY <1>idle, OrderBounds DEF LeaseInv
  <2> QED BY <2>1, <1>quiet
<1>same. ASSUME AtOnce, order' = order PROVE HeldInv'
  BY <1>same DEF HeldInv
<1>held. ASSUME NEW c \in Clients, pc[c] # "idle" PROVE lease = c
  BY <1>held DEF LeaseInv
<1>1. ASSUME NEW c \in Clients, ObserveExpired(c) \/ ObserveBlocked(c) \/ PrepareBlocked(c) PROVE HeldInv'
  BY <1>1, <1>idle DEF ObserveExpired, ObserveBlocked, PrepareBlocked
<1>2. ASSUME NEW c \in Clients, ObserveAsk(c) \/ PrepareAsk(c) PROVE HeldInv'
  <2>1. order.st # "Cancelled" /\ Coherent(order) /\ order' = order /\ lease = Nobody
    BY <1>2 DEF ObserveAsk, PrepareAsk, Over
  <2>2. Adopted(order).told = order.told /\ Adopted(order).st = order.st
    BY <2>1, AdoptedType
  <2>3. PICK place \in {"quoting", "pricing"} : Hold(c, place, Adopted(order), NoOp)
    BY <1>2 DEF ObserveAsk, PrepareAsk
  <2>4. Only(c) /\ pc'[c] = place /\ copy'[c] = Adopted(order)
    BY <1>hold, <2>1, <2>3
  <2> QED BY <2>1, <2>2, <2>4 DEF HeldInv
<1>3. ASSUME NEW c \in Clients, ObserveQuote(c) PROVE HeldInv'
  <2>1. CASE End(c)
    BY <1>3, <1>held, <1>end, <2>1 DEF ObserveQuote
  <2>2. CASE ~End(c)
    <3>1. order' = [copy[c] EXCEPT !.st = "Triggered", !.told = TRUE] /\ Hold(c, "telling", order', NoOp)
      BY <1>3, <2>2 DEF ObserveQuote
    <3>2. Only(c) /\ pc'[c] = "telling"
      BY <1>3, <1>held, <1>hold, <3>1 DEF ObserveQuote
    <3>3. order'.st = "Triggered"
      BY <3>1 DEF Record
    <3> QED BY <3>2, <3>3 DEF HeldInv
  <2> QED BY <2>1, <2>2
<1>4. ASSUME NEW c \in Clients, Tell(c) \/ BuildFails(c) \/ Link(c) \/ CommitRefused(c) \/ CommitDone(c) \/ CancelRest(c)
      PROVE  HeldInv'
  BY <1>4, <1>held, <1>end DEF Tell, BuildFails, Link, CommitRefused, CommitDone, CancelRest
<1>5. ASSUME NEW c \in Clients, PreparePrice(c) PROVE HeldInv'
  <2>1. CASE End(c)
    BY <1>5, <1>held, <1>end, <2>1 DEF PreparePrice
  <2>2. CASE ~End(c)
    <3>1. order' = Charged(copy[c]) /\ Hold(c, "building", Charged(copy[c]), NoOp)
      BY <1>5, <2>2 DEF PreparePrice
    <3>2. Only(c) /\ pc'[c] = "building" /\ copy'[c] = Charged(copy[c])
      BY <1>5, <1>held, <1>hold, <3>1 DEF PreparePrice
    <3>3. Charged(copy[c]).st = "Review" /\ Charged(copy[c]).free >= 1
      BY ChargedType
    <3> QED BY <3>1, <3>2, <3>3 DEF HeldInv
  <2> QED BY <2>1, <2>2
<1>6. ASSUME NEW c \in Clients, NEW kind \in {"approve", "swap"}, BuildOk(c, kind) PROVE HeldInv'
  <2>1. PICK o \in Ops : Hold(c, "built", copy[c], o)
    BY <1>6 DEF BuildOk
  <2>2. Only(c) /\ pc'[c] = "built" /\ copy'[c] = copy[c] /\ cur'[c] = o /\ order' = order
    BY <1>6, <1>held, <1>hold, <2>1 DEF BuildOk
  <2>3. pc[c] = "building"
    BY <1>6 DEF BuildOk
  <2> QED BY <2>2, <2>3 DEF HeldInv
<1>7. ASSUME NEW c \in Clients, NEW o \in Ops, Guard(c, o) PROVE HeldInv'
  <2>1. Only(c) /\ pc'[c] = "signing" /\ cur'[c] = o /\ order' = To(order, "Waiting")
    BY <1>7, <1>hold DEF Guard
  <2>2. order'.st = "Waiting"
    BY <2>1, ToType DEF State
  <2> QED BY <2>1, <2>2 DEF HeldInv
<1>8. ASSUME NEW c \in Clients, CommitSign(c) PROVE HeldInv'
  <2>1. Only(c) /\ pc'[c] = "sent" /\ order' = order
    BY <1>8, <1>held, <1>hold DEF CommitSign
  <2>2. pc[c] = "signing"
    BY <1>8 DEF CommitSign
  <2> QED BY <2>1, <2>2 DEF HeldInv
<1>9. ASSUME NEW c \in Clients, Cancel(c) PROVE HeldInv'
  <2>1. Only(c) /\ pc'[c] = "cancelling"
    BY <1>9, <1>hold DEF Cancel
  <2> QED BY <2>1 DEF HeldInv
<1>10. ASSUME NEW c \in Clients, Crash(c) PROVE HeldInv'
  BY <1>10 DEF Crash, HeldInv
<1>11. ASSUME NEW c \in Clients, NEW o \in Ops, Discard(c, o) PROVE HeldInv'
  BY <1>11, <1>same DEF Discard
<1>12. CASE Beneath
  BY <1>12, <1>same DEF Beneath, Expire, Abandon, Undone, Reuse, Included
<1>13. CASE UNCHANGED vars
  BY <1>13, <1>same DEF vars
<1> HIDE DEF HeldInv
<1> QED BY <1>1, <1>2, <1>3, <1>4, <1>5, <1>6, <1>7, <1>8, <1>9, <1>10, <1>11, <1>12, <1>13
        DEF Next, Observe, Prepare, Commit, Stop

-----------------------------------------------------------------------------
(* One trade. *)

\* Only a signature makes an operation one that was signed for the order: a review, a rejection, a
\* block, a block undone and a reused nonce do not.
LEMMA SignedFrame ==
  ASSUME TypeOK, HeldInv, [Next]_vars, \A c \in Clients : ~CommitSign(c), NEW o \in Ops, Signed(o)'
  PROVE  Signed(o) /\ journal'[o].kind = journal[o].kind
<1> DEFINE Goal == Signed(o) /\ journal'[o].kind = journal[o].kind
<1> USE DEF TypeOK, Signed, Own, Sent, Row
<1>1. ASSUME NEW c \in Clients, NEW kind, BuildOk(c, kind) PROVE Goal
  BY <1>1 DEF BuildOk
<1>2. ASSUME NEW c \in Clients, Link(c) PROVE Goal
  <2>1. cur[c] \in Ops
    BY <1>2 DEF Link, HeldInv
  <2>2. journal' = journal \/ journal' = Discarded(cur[c])
    BY <1>2 DEF Link
  <2>3. journal'[o] = journal[o] \/ journal'[o].st = "cancelled"
    BY <2>1, <2>2 DEF Discarded, Set, Row
  <2> QED BY <2>3
<1>3. ASSUME NEW c \in Clients, NEW x \in Ops, Discard(c, x) PROVE Goal
  BY <1>3 DEF Discard, Discarded, Set
<1>4. ASSUME NEW c \in Clients, CancelRest(c) PROVE Goal
  <2>1. journal'[o] = journal[o] \/ journal'[o].st = "cancelled"
    BY <1>4 DEF CancelRest, Row
  <2> QED BY <2>1
<1>5. ASSUME NEW x \in Ops, Abandon(x) \/ Undone(x) PROVE Goal
  <2>1. CASE Abandon(x)
    BY <2>1 DEF Abandon, Set
  <2>2. CASE Undone(x)
    BY <2>2 DEF Undone, Set
  <2> QED BY <1>5, <2>1, <2>2
<1>6. ASSUME NEW x \in Ops, Reuse(x) PROVE Goal
  BY <1>6 DEF Reuse
<1>7. ASSUME NEW x \in Ops, NEW st \in {"confirmed", "failed"}, Included(x, st) PROVE Goal
  BY <1>7 DEF Included, Set
<1>8. ASSUME journal' = journal PROVE Goal
  BY <1>8
<1>9. ASSUME NEW c \in Clients, Observe(c) PROVE journal' = journal
  BY <1>9 DEF Observe, ObserveExpired, ObserveBlocked, ObserveAsk, ObserveQuote, Tell
<1>10. ASSUME NEW c \in Clients, PrepareBlocked(c) \/ PrepareAsk(c) \/ PreparePrice(c) \/ BuildFails(c)
       PROVE  journal' = journal
  BY <1>10 DEF PrepareBlocked, PrepareAsk, PreparePrice, BuildFails
<1>11. ASSUME NEW c \in Clients, NEW x \in Ops, Guard(c, x) PROVE journal' = journal
  BY <1>11 DEF Guard
<1>12. ASSUME NEW c \in Clients, CommitRefused(c) \/ CommitDone(c) \/ Cancel(c) \/ Crash(c)
       PROVE  journal' = journal
  BY <1>12 DEF CommitRefused, CommitDone, Cancel, Crash
<1>13. ASSUME Expire \/ UNCHANGED vars PROVE journal' = journal
  BY <1>13 DEF Expire, vars
<1> HIDE DEF Goal, TypeOK, Signed, Own, Sent
<1>14. ASSUME NEW c \in Clients, Prepare(c) \/ Commit(c) PROVE Goal
  BY <1>1, <1>2, <1>8, <1>10, <1>11, <1>12, <1>14 DEF Prepare, Commit
<1>15. ASSUME NEW c \in Clients, Stop(c) PROVE Goal
  BY <1>3, <1>4, <1>8, <1>12, <1>15 DEF Stop
<1>16. ASSUME Beneath PROVE Goal
  BY <1>5, <1>6, <1>7, <1>8, <1>13, <1>16 DEF Beneath
<1> QED BY <1>8, <1>9, <1>13, <1>14, <1>15, <1>16 DEF Next, Goal

\* Nor does anything but a signature trade.
LEMMA TradedFrame ==
  ASSUME TypeOK, HeldInv, [Next]_vars, \A c \in Clients : ~CommitSign(c), NEW o \in Ops, Traded(o)'
  PROVE  Traded(o)
<1>1. Signed(o)'
  BY DEF Traded, Signed
<1>2. Signed(o) /\ journal'[o].kind = journal[o].kind
  BY <1>1, SignedFrame
<1> QED BY <1>2 DEF Traded, Signed

\* The order comes to be tried only from a moment when nothing of its own is under way, and a
\* call that tries it is the only one.
LEMMA TriedFrame ==
  ASSUME TypeOK, LeaseInv, HeldInv, TriedInv, [Next]_vars,
         \/ order'.st = "Review"
         \/ \E c \in Clients : pc'[c] \in {"pricing", "building", "built", "signing"}
  PROVE  ~SwapSent /\ \A c \in Clients : ~CommitSign(c)
<1> DEFINE Trying == {"pricing", "building", "built", "signing"}
           Tried == order.st = "Review" \/ \E c \in Clients : pc[c] \in Trying
           TriedNext == order'.st = "Review" \/ \E c \in Clients : pc'[c] \in Trying
<1>0. TriedNext /\ (Tried => ~SwapSent)
  BY DEF TriedInv
<1> USE DEF TypeOK, bounds, AtOnce, Idle
<1>end. ASSUME NEW c \in Clients, lease = c \/ lease = Nobody, End(c) PROVE \A d \in Clients : pc'[d] = "idle"
  BY <1>end, Alone DEF End
<1>hold. ASSUME NEW c \in Clients, lease = c \/ lease = Nobody, NEW place, NEW v, NEW o, Hold(c, place, v, o)
         PROVE  pc'[c] = place /\ \A d \in Clients \ {c} : pc'[d] = "idle"
  BY <1>hold, Alone DEF Hold
<1>held. ASSUME NEW c \in Clients, pc[c] # "idle" PROVE lease = c
  BY <1>held DEF LeaseInv
<1>1. ASSUME NEW c \in Clients, CommitSign(c) PROVE FALSE
  <2>1. /\ pc'[c] = "sent" /\ \A d \in Clients \ {c} : pc'[d] = "idle"
        /\ order'.st = "Waiting"
    BY <1>1, <1>held, <1>hold DEF CommitSign, HeldInv
  <2> QED BY <1>0, <2>1
<1>2. ASSUME NEW c \in Clients, PrepareAsk(c) PROVE ~SwapSent
  BY <1>2 DEF PrepareAsk, Ready, Blocks, SwapSent, Traded, Sent
<1>3. ASSUME NEW c \in Clients, ObserveExpired(c) \/ ObserveBlocked(c) \/ PrepareBlocked(c) PROVE Tried
  <2>1. order' = To(order, "Expired") \/ (order' \in Reconciled(order) /\ Coherent(order))
    BY <1>3 DEF ObserveExpired, ObserveBlocked, PrepareBlocked
  <2>2. order'.st # "Review"
    BY <2>1, ToType, ReconciledType DEF State
  <2> QED BY <1>0, <1>3, <2>2 DEF ObserveExpired, ObserveBlocked, PrepareBlocked
<1>4. ASSUME NEW c \in Clients, ObserveAsk(c) PROVE Tried
  BY <1>0, <1>4, <1>hold DEF ObserveAsk
<1>5. ASSUME NEW c \in Clients, ObserveQuote(c) PROVE Tried
  <2>1. pc'[c] \in {"idle", "telling"} /\ \A d \in Clients \ {c} : pc'[d] = "idle"
    BY <1>5, <1>held, <1>end, <1>hold DEF ObserveQuote
  <2>2. order' = order \/ order'.st \in {"Triggered", "Armed"}
    <3>1. [copy[c] EXCEPT !.st = "Triggered", !.told = TRUE].st = "Triggered"
      BY DEF Record
    <3>2. To(copy[c], "Armed").st = "Armed"
      BY ToType DEF State
    <3> QED BY <1>5, <3>1, <3>2 DEF ObserveQuote
  <2> QED BY <1>0, <2>1, <2>2
<1>6. ASSUME NEW c \in Clients, Tell(c) \/ BuildFails(c) \/ CommitRefused(c) \/ CommitDone(c) \/ CancelRest(c)
      PROVE  Tried
  BY <1>0, <1>6, <1>held, <1>end DEF Tell, BuildFails, CommitRefused, CommitDone, CancelRest
<1>7. ASSUME NEW c \in Clients, PreparePrice(c) \/ Link(c) \/ \E kind \in {"approve", "swap"} : BuildOk(c, kind)
      PROVE  Tried
  BY <1>7 DEF PreparePrice, Link, BuildOk
<1>8. ASSUME NEW c \in Clients, NEW o \in Ops, Guard(c, o) PROVE Tried
  BY <1>8 DEF Guard
<1>9. ASSUME NEW c \in Clients, Cancel(c) PROVE Tried
  <2>1. pc'[c] = "cancelling" /\ \A d \in Clients \ {c} : pc'[d] = "idle"
    BY <1>9, <1>hold DEF Cancel
  <2>2. order'.st = "Cancelled"
    BY <1>9, ToType DEF Cancel, State
  <2> QED BY <1>0, <2>1, <2>2
<1>10. ASSUME NEW c \in Clients, Crash(c) PROVE Tried
  BY <1>0, <1>10 DEF Crash
<1>11. ASSUME order' = order, pc' = pc PROVE Tried
  BY <1>0, <1>11
<1>12. ASSUME \/ Beneath \/ UNCHANGED vars \/ \E c \in Clients, o \in Ops : Discard(c, o)
       PROVE  order' = order /\ pc' = pc
  BY <1>12 DEF Beneath, Expire, Abandon, Undone, Reuse, Included, vars, Discard
<1> HIDE DEF Tried, TriedNext, Trying
<1> QED BY <1>0, <1>1, <1>2, <1>3, <1>4, <1>5, <1>6, <1>7, <1>8, <1>9, <1>10, <1>11, <1>12
        DEF Next, Observe, Prepare, Commit, Stop

\* An order that is being tried has still not traded.
THEOREM TriedStep == TypeOK /\ LeaseInv /\ HeldInv /\ TriedInv /\ [Next]_vars => TriedInv'
BY TriedFrame, TradedFrame DEF TriedInv, SwapSent

\* The order trades once.
THEOREM OneSwapStep == TypeOK /\ LeaseInv /\ HeldInv /\ TriedInv /\ OneSwap /\ [Next]_vars => OneSwap'
<1> SUFFICES ASSUME TypeOK, LeaseInv, HeldInv, TriedInv, OneSwap, [Next]_vars,
                    NEW o \in Ops, NEW x \in Ops, Traded(o)', Traded(x)'
             PROVE  o = x
  BY DEF OneSwap, Traded
<1>1. CASE \A c \in Clients : ~CommitSign(c)
  <2>1. Traded(o) /\ Traded(x)
    BY <1>1, TradedFrame
  <2> QED BY <2>1 DEF OneSwap, Traded
<1>2. ASSUME NEW c \in Clients, CommitSign(c) PROVE o = x
  <2>1. ~SwapSent
    BY <1>2 DEF CommitSign, TriedInv
  <2>2. \A y \in Ops : Traded(y)' => y = cur[c]
    BY <1>2, <2>1 DEF CommitSign, Set, SwapSent, Traded, Own, Sent, TypeOK
  <2> QED BY <2>2
<1> QED BY <1>1, <1>2

-----------------------------------------------------------------------------
(* One notice. *)

\* Only a quote stamps the order as announced, and nothing takes the stamp off.
LEMMA StampFrame ==
  ASSUME TypeOK, HeldInv, [Next]_vars, \A c \in Clients : ~ObserveQuote(c)
  PROVE  order'.told = order.told
<1> DEFINE Goal == order'.told = order.told
<1> USE DEF TypeOK
<1>1. ASSUME NEW c \in Clients, ObserveExpired(c) PROVE Goal
  BY <1>1, ToType DEF ObserveExpired, State
<1>2. ASSUME NEW c \in Clients, ObserveBlocked(c) \/ PrepareBlocked(c) PROVE Goal
  BY <1>2, ReconciledType DEF ObserveBlocked, PrepareBlocked
<1>3. ASSUME NEW c \in Clients, PreparePrice(c) PROVE Goal
  <2>1. copy[c].told = order.told /\ copy[c] \in Record
    BY <1>3 DEF PreparePrice, HeldInv
  <2>2. order' \in {order, Charged(copy[c]), To(copy[c], "Armed")}
    BY <1>3 DEF PreparePrice
  <2> QED BY <2>1, <2>2, ToType, ChargedType DEF State
<1>4. ASSUME NEW c \in Clients, Link(c) PROVE Goal
  <2>1. copy[c].told = order.told /\ copy[c] \in Record
    BY <1>4 DEF Link, HeldInv
  <2>2. order' = order \/ order' = [copy[c] EXCEPT !.ops = copy[c].ops \cup {cur[c]}, !.free = copy[c].free - 1]
    BY <1>4 DEF Link
  <2> QED BY <2>1, <2>2 DEF Record
<1>5. ASSUME NEW c \in Clients, NEW o \in Ops, Guard(c, o) PROVE Goal
  BY <1>5, ToType DEF Guard, State
<1>6. ASSUME NEW c \in Clients, Cancel(c) PROVE Goal
  BY <1>6, ToType DEF Cancel, State
<1>7. ASSUME order' = order PROVE Goal
  BY <1>7
<1>8. ASSUME NEW c \in Clients,
             \/ ObserveAsk(c) \/ Tell(c) \/ PrepareAsk(c) \/ BuildFails(c)
             \/ \E kind \in {"approve", "swap"} : BuildOk(c, kind)
      PROVE  order' = order
  BY <1>8 DEF ObserveAsk, Tell, PrepareAsk, BuildFails, BuildOk
<1>9. ASSUME NEW c \in Clients,
             \/ CommitRefused(c) \/ CommitSign(c) \/ CommitDone(c) \/ CancelRest(c) \/ Crash(c)
             \/ \E o \in Ops : Discard(c, o)
      PROVE  order' = order
  BY <1>9 DEF CommitRefused, CommitSign, CommitDone, CancelRest, Crash, Discard
<1>10. ASSUME Beneath \/ UNCHANGED vars PROVE order' = order
  BY <1>10 DEF Beneath, Expire, Abandon, Undone, Reuse, Included, vars
<1> HIDE DEF Goal, TypeOK
<1>11. ASSUME NEW c \in Clients, Observe(c) \/ Prepare(c) PROVE Goal
  BY <1>1, <1>2, <1>3, <1>4, <1>7, <1>8, <1>11 DEF Observe, Prepare
<1>12. ASSUME NEW c \in Clients, Commit(c) \/ Stop(c) PROVE Goal
  BY <1>5, <1>6, <1>7, <1>9, <1>12 DEF Commit, Stop
<1> QED BY <1>7, <1>10, <1>11, <1>12 DEF Next, Goal

\* Who says it, and who comes to the point of saying it.
LEMMA NoticeFrame ==
  ASSUME TypeOK, [Next]_vars, \A c \in Clients : ~ObserveQuote(c) /\ ~Tell(c)
  PROVE  notices' = notices /\ \A d \in Clients : pc'[d] = "telling" => pc[d] = "telling"
<1> DEFINE Goal == notices' = notices /\ \A d \in Clients : pc'[d] = "telling" => pc[d] = "telling"
<1> USE DEF TypeOK, AtOnce, bounds
<1>1. ASSUME NEW c \in Clients, End(c) PROVE \A d \in Clients : pc'[d] = "telling" => pc[d] = "telling"
  BY <1>1 DEF End
<1>2. ASSUME NEW c \in Clients, NEW place, NEW v, NEW o, Hold(c, place, v, o), place # "telling"
      PROVE  \A d \in Clients : pc'[d] = "telling" => pc[d] = "telling"
  BY <1>2 DEF Hold
<1>3. ASSUME NEW c \in Clients, ObserveExpired(c) \/ ObserveBlocked(c) \/ ObserveAsk(c) PROVE Goal
  BY <1>2, <1>3 DEF ObserveExpired, ObserveBlocked, ObserveAsk
<1>4. ASSUME NEW c \in Clients, PrepareBlocked(c) \/ PrepareAsk(c) \/ PreparePrice(c) PROVE Goal
  BY <1>1, <1>2, <1>4 DEF PrepareBlocked, PrepareAsk, PreparePrice
<1>5. ASSUME NEW c \in Clients, BuildFails(c) \/ Link(c) \/ \E kind \in {"approve", "swap"} : BuildOk(c, kind)
      PROVE  Goal
  BY <1>1, <1>2, <1>5 DEF BuildFails, Link, BuildOk
<1>6. ASSUME NEW c \in Clients, Commit(c) PROVE Goal
  BY <1>1, <1>2, <1>6 DEF Commit, Guard, CommitRefused, CommitSign, CommitDone
<1>7. ASSUME NEW c \in Clients, Cancel(c) \/ CancelRest(c) \/ (\E o \in Ops : Discard(c, o)) PROVE Goal
  BY <1>1, <1>2, <1>7 DEF Cancel, CancelRest, Discard
<1>8. ASSUME NEW c \in Clients, Crash(c) PROVE Goal
  BY <1>8 DEF Crash
<1>9. CASE Beneath
  BY <1>9 DEF Beneath, Expire, Abandon, Undone, Reuse, Included
<1>10. CASE UNCHANGED vars
  BY <1>10 DEF vars
<1> HIDE DEF Goal, TypeOK
<1> QED BY <1>3, <1>4, <1>5, <1>6, <1>7, <1>8, <1>9, <1>10
        DEF Next, Observe, Prepare, Stop, Goal

\* The stamp is set before the notice is written, and the notice only by who set it.
THEOREM ToldStep ==
  TypeOK /\ LeaseInv /\ HeldInv /\ ToldInv /\ AnnouncedOnce /\ [Next]_vars => ToldInv' /\ AnnouncedOnce'
<1> SUFFICES ASSUME TypeOK, LeaseInv, HeldInv, ToldInv, AnnouncedOnce, [Next]_vars
             PROVE  ToldInv' /\ AnnouncedOnce'
  OBVIOUS
<1> USE DEF TypeOK
<1>1. ASSUME NEW c \in Clients, ObserveQuote(c) PROVE ToldInv' /\ AnnouncedOnce'
  <2>1. /\ lease = c /\ copy[c].told = order.told /\ notices' = notices
        /\ \A d \in Clients \ {c} : pc[d] = "idle"
    BY <1>1, Alone DEF ObserveQuote, LeaseInv, HeldInv
  <2>2. CASE order' = [copy[c] EXCEPT !.st = "Triggered", !.told = TRUE] /\ ~copy[c].told /\ Hold(c, "telling", order', NoOp)
    <3>1. order'.told /\ notices' = 0
      BY <2>1, <2>2 DEF ToldInv, Record
    <3> QED BY <3>1 DEF ToldInv, AnnouncedOnce
  <2>3. CASE End(c) /\ order' \in {order, To(copy[c], "Armed"), [copy[c] EXCEPT !.st = "Triggered", !.told = TRUE]}
    <3>1. \A d \in Clients : pc'[d] = "idle"
      BY <2>1, <2>3 DEF End
    <3>2. copy[c] \in Record /\ To(copy[c], "Armed").told = copy[c].told
      BY ToType DEF State
    <3>3. [copy[c] EXCEPT !.st = "Triggered", !.told = TRUE].told = TRUE
      BY <3>2 DEF Record
    <3>4. order' = order \/ order' = To(copy[c], "Armed")
            \/ order' = [copy[c] EXCEPT !.st = "Triggered", !.told = TRUE]
      BY <2>3
    <3>5. order.told => order'.told
      <4>1. CASE order' = order
        BY <4>1
      <4>2. CASE order' = To(copy[c], "Armed")
        BY <4>2, <3>2, <2>1
      <4>3. CASE order' = [copy[c] EXCEPT !.st = "Triggered", !.told = TRUE]
        BY <4>3, <3>3
      <4> QED BY <3>4, <4>1, <4>2, <4>3
    <3> QED BY <2>1, <3>1, <3>5 DEF ToldInv, AnnouncedOnce
  <2> QED BY <1>1, <2>2, <2>3 DEF ObserveQuote
<1>2. ASSUME NEW c \in Clients, Tell(c) PROVE ToldInv' /\ AnnouncedOnce'
  <2>1. lease = c /\ notices' = 1 /\ order' = order /\ order.told
    BY <1>2 DEF Tell, LeaseInv, ToldInv
  <2>2. \A d \in Clients : pc'[d] = "idle"
    BY <1>2, <2>1, Alone DEF Tell, End
  <2> QED BY <2>1, <2>2 DEF ToldInv, AnnouncedOnce
<1>3. CASE \A c \in Clients : ~ObserveQuote(c) /\ ~Tell(c)
  BY <1>3, StampFrame, NoticeFrame DEF ToldInv, AnnouncedOnce
<1> QED BY <1>1, <1>2, <1>3

-----------------------------------------------------------------------------
(* The budget. *)

\* An order's operations are finitely many.
LEMMA ListIsFinite ==
  ASSUME NEW v \in Record
  PROVE  /\ IsFiniteSet(Ops) /\ IsFiniteSet(v.ops) /\ Cardinality(v.ops) \in Nat
         /\ v.free \in Nat /\ v.tries \in Nat
<1>1. IsFiniteSet(Ops)
  BY FS_Interval, OrderBounds DEF Ops
<1>2. v.ops \subseteq Ops /\ v.free \in Nat /\ v.tries \in Nat
  BY DEF Record
<1>3. IsFiniteSet(v.ops)
  BY <1>1, <1>2, FS_Subset
<1> QED BY <1>1, <1>2, <1>3, FS_CardinalityType

\* Taking in stray operations uses up attempts that have none, and leaves nothing signed unlisted.
LEMMA AdoptedBudget ==
  ASSUME journal \in [Ops -> Row], NEW v \in Record, Coherent(v), Budgeted(v)
  PROVE  Budgeted(Adopted(v)) /\ Lists(Adopted(v))
<1>1. IsFiniteSet(v.ops) /\ IsFiniteSet(Stray(v)) /\ v.ops \cap Stray(v) = {}
  <2>1. Stray(v) \subseteq Ops /\ v.ops \cap Stray(v) = {}
    BY DEF Stray
  <2> QED BY <2>1, ListIsFinite, FS_Subset
<1>2. Cardinality(v.ops \cup Stray(v)) = Cardinality(v.ops) + Cardinality(Stray(v)) - Cardinality({})
  BY <1>1, FS_Union
<1>3. Cardinality({}) = 0 /\ Cardinality(v.ops) \in Nat /\ Cardinality(Stray(v)) \in Nat
  BY <1>1, FS_EmptySet, FS_CardinalityType
<1>4. /\ Adopted(v).ops = v.ops \cup Stray(v) /\ Adopted(v).free = v.free - Cardinality(Stray(v))
      /\ Adopted(v).tries = v.tries
  BY DEF Adopted, Record
<1>5. v.free \in Nat /\ v.tries \in Nat
  BY DEF Record
<1>6. Budgeted(Adopted(v))
  BY <1>2, <1>3, <1>4, <1>5 DEF Budgeted
<1>7. Lists(Adopted(v))
  BY <1>4 DEF Lists, Signed, Sent, Stray
<1> QED BY <1>6, <1>7

\* A status says nothing of the budget.
LEMMA ToBudget ==
  ASSUME NEW v \in Record, NEW st
  PROVE  /\ Budgeted(v) => Budgeted(To(v, st))
         /\ Lists(v) => Lists(To(v, st))
         /\ To(v, st).ops = v.ops
<1>1. To(v, st).ops = v.ops /\ To(v, st).free = v.free /\ To(v, st).tries = v.tries
  BY DEF To, Record
<1> QED BY <1>1 DEF Budgeted, Lists

\* An attempt is charged while there is one left and its fee is.
LEMMA ChargedBudget ==
  ASSUME NEW v \in Record, Budgeted(v), v.tries < MaxAttempts, v.tries < FeeBudget
  PROVE  Budgeted(Charged(v)) /\ (Lists(v) => Lists(Charged(v)))
<1>1. Charged(v).ops = v.ops /\ Charged(v).free = v.free + 1 /\ Charged(v).tries = v.tries + 1
  BY DEF Charged, Record
<1>2. MaxAttempts \in Nat /\ FeeBudget \in Nat
  BY OrderBounds
<1> QED BY <1>1, <1>2, ListIsFinite DEF Budgeted, Lists

\* A review takes the attempt that was charged for it.
LEMMA LinkedBudget ==
  ASSUME NEW v \in Record, Budgeted(v), v.free >= 1, NEW o \in Ops,
         NEW w, w = [v EXCEPT !.ops = v.ops \cup {o}, !.free = v.free - 1]
  PROVE  Budgeted(w) /\ (Lists(v) => Lists(w))
<1>1. w.ops = v.ops \cup {o} /\ w.free = v.free - 1 /\ w.tries = v.tries
  BY DEF Record
<1>2. IsFiniteSet(v.ops) /\ Cardinality(v.ops) \in Nat /\ v.free \in Nat /\ v.tries \in Nat
  BY ListIsFinite
<1>3. Cardinality(v.ops \cup {o}) = IF o \in v.ops THEN Cardinality(v.ops) ELSE Cardinality(v.ops) + 1
  BY <1>2, FS_AddElement
<1>4. Cardinality(v.ops \cup {o}) \in Nat /\ Cardinality(v.ops \cup {o}) <= Cardinality(v.ops) + 1
  BY <1>2, <1>3
<1> QED BY <1>1, <1>2, <1>4 DEF Budgeted, Lists

\* An order as it was created spent nothing.
LEMMA ArmedBudget == Budgeted(Armed)
<1>1. Armed.ops = {} /\ Armed.free = 0 /\ Armed.tries = 0 /\ Cardinality({}) = 0
  BY FS_EmptySet DEF Armed
<1> QED BY <1>1, OrderBounds DEF Budgeted

\* What an order or a copy of it lists grows with what is signed, and takes no more attempts than
\* were charged.
THEOREM BudgetStep == TypeOK /\ LeaseInv /\ HeldInv /\ BudgetInv /\ [Next]_vars => BudgetInv'
<1> SUFFICES ASSUME TypeOK, LeaseInv, HeldInv, BudgetInv, [Next]_vars PROVE BudgetInv'
  OBVIOUS
<1> USE DEF bounds, AtOnce, Idle
<1>t. /\ order \in Record /\ journal \in [Ops -> Row] /\ pc \in [Clients -> Places]
      /\ copy \in [Clients -> Record] /\ cur \in [Clients -> Ops \cup {NoOp}]
  BY DEF TypeOK, Places
<1>b. /\ Budgeted(order) /\ Lists(order)
      /\ \A c \in Clients :
           /\ Budgeted(copy[c])
           /\ pc[c] \in {"quoting", "pricing", "building", "built"} => Lists(copy[c])
           /\ pc[c] = "signing" => cur[c] \in order.ops
  BY DEF BudgetInv
<1>held. ASSUME NEW c \in Clients, pc[c] # "idle" PROVE lease = c
  BY <1>held DEF LeaseInv
<1>one. ASSUME NEW c \in Clients, \A d \in Clients : ~CommitSign(d), Budgeted(order'), Lists(order'),
               Budgeted(copy'[c]),
               pc'[c] \in {"quoting", "pricing", "building", "built"} => Lists(copy'[c]),
               pc'[c] = "signing" => cur'[c] \in order'.ops,
               \A d \in Clients \ {c} : copy'[d] = copy[d] /\ pc'[d] = pc[d] /\ cur'[d] = cur[d],
               order' = order \/ \A d \in Clients \ {c} : pc[d] = "idle"
        PROVE  BudgetInv'
  <2>1. ASSUME NEW v, Lists(v) PROVE \A o \in Ops : Signed(o)' => o \in v.ops
    BY <1>one, <2>1, SignedFrame DEF Lists
  <2>2. ASSUME NEW d \in Clients
        PROVE  /\ Budgeted(copy'[d])
               /\ pc'[d] \in {"quoting", "pricing", "building", "built"} => Lists(copy'[d])
               /\ pc'[d] = "signing" => cur'[d] \in order'.ops
    <3>1. CASE d = c
      BY <1>one, <3>1
    <3>2. CASE d # c
      BY <1>one, <1>b, <3>2
    <3> QED BY <3>1, <3>2
  <2> QED BY <1>one, <2>1, <2>2 DEF BudgetInv, Lists
<1>still. ASSUME \A d \in Clients : ~CommitSign(d), order' = order, pc' = pc, copy' = copy, cur' = cur PROVE BudgetInv'
  <2>1. ASSUME NEW v, Lists(v) PROVE \A o \in Ops : Signed(o)' => o \in v.ops
    BY <1>still, <2>1, SignedFrame DEF Lists
  <2> QED BY <1>still, <1>b, <2>1 DEF BudgetInv, Lists
<1>end. ASSUME NEW c \in Clients, \A d \in Clients : ~CommitSign(d), End(c), Budgeted(order'), Lists(order'),
               lease = c \/ lease = Nobody
        PROVE  BudgetInv'
  <2>1. /\ pc'[c] = "idle" /\ copy'[c] = Armed
        /\ \A d \in Clients \ {c} : copy'[d] = copy[d] /\ pc'[d] = pc[d] /\ cur'[d] = cur[d]
    BY <1>t, <1>end DEF End
  <2>2. \A d \in Clients \ {c} : pc[d] = "idle"
    BY <1>end, Alone
  <2> QED BY <1>end, <1>one, <2>1, <2>2, ArmedBudget
<1>hold. ASSUME NEW c \in Clients, NEW place, NEW v, NEW o, Hold(c, place, v, o), lease = c \/ lease = Nobody
         PROVE  /\ pc'[c] = place /\ copy'[c] = v /\ cur'[c] = o
                /\ \A d \in Clients \ {c} : copy'[d] = copy[d] /\ pc'[d] = pc[d] /\ cur'[d] = cur[d]
                /\ \A d \in Clients \ {c} : pc[d] = "idle"
  BY <1>t, <1>hold, Alone DEF Hold
<1>0. ASSUME NEW c \in Clients, CommitSign(c) PROVE BudgetInv'
  <2>1. pc[c] = "signing" /\ Hold(c, "sent", copy[c], cur[c]) /\ order' = order /\ journal' = Set(cur[c], "signed")
    BY <1>0 DEF CommitSign
  <2>2. /\ cur[c] \in order.ops /\ cur[c] \in Ops
        /\ \A d \in Clients \ {c} : pc'[d] = "idle"
        /\ pc'[c] = "sent" /\ copy' = copy
    BY <1>t, <1>b, <1>held, <1>hold, <2>1 DEF HeldInv, Hold
  <2>3. \A o \in Ops : Signed(o)' => o \in order.ops
    BY <1>t, <1>b, <2>1, <2>2 DEF Lists, Signed, Own, Sent, Set
  <2> QED BY <1>b, <2>1, <2>2, <2>3 DEF BudgetInv, Lists
<1>k. CASE \A d \in Clients : ~CommitSign(d)
  <2>1. ASSUME NEW c \in Clients, ObserveExpired(c) \/ ObserveBlocked(c) \/ PrepareBlocked(c) PROVE BudgetInv'
    <3>1. pc[c] = "idle" /\ lease = Nobody /\ AtOnce
      BY <2>1 DEF ObserveExpired, ObserveBlocked, PrepareBlocked
    <3>2. Budgeted(order') /\ Lists(order')
      <4>1. CASE order' = To(order, "Expired")
        BY <1>t, <1>b, <4>1, ToBudget
      <4>2. CASE order' \in Reconciled(order) /\ Coherent(order)
        <5>1. PICK o \in Ops : order' = To(Adopted(order), Verdict(o))
          BY <4>2 DEF Reconciled
        <5>2. Adopted(order) \in Record /\ Budgeted(Adopted(order)) /\ Lists(Adopted(order))
          BY <1>t, <1>b, <4>2, AdoptedType, AdoptedBudget
        <5> QED BY <5>1, <5>2, ToBudget
      <4> QED BY <2>1, <4>1, <4>2 DEF ObserveExpired, ObserveBlocked, PrepareBlocked
    <3>3. \A d \in Clients \ {c} : pc[d] = "idle"
      BY <3>1, Alone
    <3> QED BY <1>one, <1>k, <1>b, <3>1, <3>2, <3>3
  <2>2. ASSUME NEW c \in Clients, ObserveAsk(c) \/ PrepareAsk(c) PROVE BudgetInv'
    <3>1. PICK place \in {"quoting", "pricing"} :
            Hold(c, place, Adopted(order), NoOp) /\ Coherent(order) /\ order' = order /\ lease = Nobody
      BY <2>2 DEF ObserveAsk, PrepareAsk
    <3>2. Budgeted(Adopted(order)) /\ Lists(Adopted(order))
      BY <1>t, <1>b, <3>1, AdoptedBudget
    <3>3. /\ pc'[c] = place /\ copy'[c] = Adopted(order)
          /\ \A d \in Clients \ {c} : copy'[d] = copy[d] /\ pc'[d] = pc[d] /\ cur'[d] = cur[d]
      BY <1>hold, <3>1
    <3> QED BY <1>one, <1>k, <1>b, <3>1, <3>2, <3>3
  <2>3. ASSUME NEW c \in Clients, ObserveQuote(c) PROVE BudgetInv'
    <3>1. pc[c] = "quoting" /\ lease = c /\ copy[c] \in Record /\ Budgeted(copy[c]) /\ Lists(copy[c])
      BY <1>t, <1>b, <1>held, <2>3 DEF ObserveQuote
    <3>2. PICK told : told = [copy[c] EXCEPT !.st = "Triggered", !.told = TRUE]
      OBVIOUS
    <3>3. Budgeted(told) /\ Lists(told)
      <4>1. told.ops = copy[c].ops /\ told.free = copy[c].free /\ told.tries = copy[c].tries
        BY <3>1, <3>2 DEF Record
      <4> QED BY <3>1, <4>1 DEF Budgeted, Lists
    <3>4. Budgeted(order') /\ Lists(order')
      <4>1. order' = told \/ order' = To(copy[c], "Armed") \/ order' = order
        BY <2>3, <3>2 DEF ObserveQuote
      <4>2. CASE order' = told
        BY <3>3, <4>2
      <4>3. CASE order' = To(copy[c], "Armed")
        BY <3>1, <4>3, ToBudget
      <4>4. CASE order' = order
        BY <1>b, <4>4
      <4> QED BY <4>1, <4>2, <4>3, <4>4
    <3>5. CASE End(c)
      BY <1>end, <1>k, <3>1, <3>4, <3>5
    <3>6. CASE Hold(c, "telling", order', NoOp)
      <4>1. /\ pc'[c] = "telling" /\ copy'[c] = order'
            /\ \A d \in Clients \ {c} : copy'[d] = copy[d] /\ pc'[d] = pc[d] /\ cur'[d] = cur[d]
            /\ \A d \in Clients \ {c} : pc[d] = "idle"
        BY <1>hold, <3>1, <3>6
      <4> QED BY <1>one, <1>k, <3>4, <4>1
    <3> QED BY <2>3, <3>5, <3>6 DEF ObserveQuote
  <2>4. ASSUME NEW c \in Clients, Tell(c) \/ BuildFails(c) \/ CommitRefused(c) \/ CommitDone(c) \/ CancelRest(c)
        PROVE  BudgetInv'
    <3>1. End(c) /\ order' = order /\ pc[c] # "idle"
      BY <2>4 DEF Tell, BuildFails, CommitRefused, CommitDone, CancelRest
    <3>2. lease = c
      BY <3>1, <1>held
    <3> QED BY <1>end, <1>k, <1>b, <3>1, <3>2
  <2>5. ASSUME NEW c \in Clients, PreparePrice(c) PROVE BudgetInv'
    <3>1. pc[c] = "pricing" /\ lease = c /\ copy[c] \in Record /\ Budgeted(copy[c]) /\ Lists(copy[c])
      BY <1>t, <1>b, <1>held, <2>5 DEF PreparePrice
    <3>2. CASE order' = Charged(copy[c]) /\ Hold(c, "building", Charged(copy[c]), NoOp)
               /\ copy[c].tries < MaxAttempts /\ copy[c].tries < FeeBudget
      <4>1. Budgeted(Charged(copy[c])) /\ Lists(Charged(copy[c]))
        BY <3>1, <3>2, ChargedBudget
      <4>2. /\ pc'[c] = "building" /\ copy'[c] = Charged(copy[c])
            /\ \A d \in Clients \ {c} : copy'[d] = copy[d] /\ pc'[d] = pc[d] /\ cur'[d] = cur[d]
            /\ \A d \in Clients \ {c} : pc[d] = "idle"
        BY <1>hold, <3>1, <3>2
      <4> QED BY <1>one, <1>k, <3>2, <4>1, <4>2
    <3>3. CASE order' = To(copy[c], "Armed") /\ End(c)
      <4>1. Budgeted(order') /\ Lists(order')
        BY <3>1, <3>3, ToBudget
      <4> QED BY <1>end, <1>k, <3>1, <3>3, <4>1
    <3>4. CASE order' = order /\ End(c)
      BY <1>end, <1>k, <1>b, <3>1, <3>4
    <3> QED BY <2>5, <3>2, <3>3, <3>4 DEF PreparePrice
  <2>6. ASSUME NEW c \in Clients, NEW kind \in {"approve", "swap"}, BuildOk(c, kind) PROVE BudgetInv'
    <3>1. PICK o \in Ops : Hold(c, "built", copy[c], o)
      BY <2>6 DEF BuildOk
    <3>2. pc[c] = "building" /\ lease = c /\ order' = order /\ Budgeted(copy[c]) /\ Lists(copy[c])
      BY <1>t, <1>b, <1>held, <2>6 DEF BuildOk
    <3>3. /\ pc'[c] = "built" /\ copy'[c] = copy[c]
          /\ \A d \in Clients \ {c} : copy'[d] = copy[d] /\ pc'[d] = pc[d] /\ cur'[d] = cur[d]
      BY <1>hold, <3>1, <3>2
    <3> QED BY <1>one, <1>k, <1>b, <3>2, <3>3
  <2>7. ASSUME NEW c \in Clients, Link(c) PROVE BudgetInv'
    <3>1. /\ pc[c] = "built" /\ lease = c /\ copy[c] \in Record /\ Budgeted(copy[c]) /\ Lists(copy[c]) /\ End(c)
          /\ copy[c].free >= 1 /\ cur[c] \in Ops
      BY <1>t, <1>b, <1>held, <2>7 DEF Link, HeldInv
    <3>2. order' = [copy[c] EXCEPT !.ops = copy[c].ops \cup {cur[c]}, !.free = copy[c].free - 1] \/ order' = order
      BY <2>7 DEF Link
    <3>3. Budgeted(order') /\ Lists(order')
      BY <1>b, <3>1, <3>2, LinkedBudget
    <3> QED BY <1>end, <1>k, <3>1, <3>3
  <2>8. ASSUME NEW c \in Clients, NEW o \in Ops, Guard(c, o) PROVE BudgetInv'
    <3>1. Hold(c, "signing", order', o) /\ order' = To(order, "Waiting") /\ lease = Nobody /\ o \in order.ops
      BY <2>8 DEF Guard
    <3>2. Budgeted(order') /\ Lists(order') /\ o \in order'.ops
      BY <1>t, <1>b, <3>1, ToBudget
    <3>3. /\ pc'[c] = "signing" /\ copy'[c] = order' /\ cur'[c] = o
          /\ \A d \in Clients \ {c} : copy'[d] = copy[d] /\ pc'[d] = pc[d] /\ cur'[d] = cur[d]
          /\ \A d \in Clients \ {c} : pc[d] = "idle"
      BY <1>hold, <3>1
    <3> QED BY <1>one, <1>k, <3>2, <3>3
  <2>9. ASSUME NEW c \in Clients, Cancel(c) PROVE BudgetInv'
    <3>1. Hold(c, "cancelling", order', NoOp) /\ order' = To(order, "Cancelled") /\ lease = Nobody
      BY <2>9 DEF Cancel
    <3>2. Budgeted(order') /\ Lists(order')
      BY <1>t, <1>b, <3>1, ToBudget
    <3>3. /\ pc'[c] = "cancelling" /\ copy'[c] = order'
          /\ \A d \in Clients \ {c} : copy'[d] = copy[d] /\ pc'[d] = pc[d] /\ cur'[d] = cur[d]
          /\ \A d \in Clients \ {c} : pc[d] = "idle"
      BY <1>hold, <3>1
    <3> QED BY <1>one, <1>k, <3>2, <3>3
  <2>10. ASSUME NEW c \in Clients, Crash(c) PROVE BudgetInv'
    <3>1. /\ pc'[c] = "idle" /\ copy'[c] = Armed /\ order' = order
          /\ \A d \in Clients \ {c} : copy'[d] = copy[d] /\ pc'[d] = pc[d] /\ cur'[d] = cur[d]
      BY <1>t, <2>10 DEF Crash
    <3> QED BY <1>one, <1>k, <1>b, <3>1, ArmedBudget
  <2>11. ASSUME \/ Beneath \/ UNCHANGED vars \/ \E c \in Clients, o \in Ops : Discard(c, o) PROVE BudgetInv'
    <3>1. order' = order /\ pc' = pc /\ copy' = copy /\ cur' = cur
      BY <2>11 DEF Beneath, Expire, Abandon, Undone, Reuse, Included, vars, Discard
    <3> QED BY <1>still, <1>k, <3>1
  <2> QED BY <1>k, <2>1, <2>2, <2>3, <2>4, <2>5, <2>6, <2>7, <2>8, <2>9, <2>10, <2>11
          DEF Next, Observe, Prepare, Commit, Stop
<1> QED BY <1>0, <1>k

-----------------------------------------------------------------------------
(* Theorems. *)

\* The order as it was created.
LEMMA Initially == Init => IInv
<1> SUFFICES ASSUME Init PROVE IInv
  OBVIOUS
<1>1. TypeOK
  <2>1. NoRow \in Row
    BY DEF NoRow, Row
  <2>2. order \in Record /\ copy \in [Clients -> Record]
    BY ArmedType DEF Init
  <2>3. journal \in [Ops -> Row]
    BY <2>1 DEF Init
  <2>4. {notices, undone, reused} \subseteq Nat
    BY DEF Init
  <2> QED BY <2>2, <2>3, <2>4 DEF Init, TypeOK
<1>2. LeaseInv /\ HeldInv /\ ToldInv /\ AnnouncedOnce
  BY DEF Init, LeaseInv, HeldInv, ToldInv, AnnouncedOnce
<1>3. \A o \in Ops : ~Traded(o)
  BY DEF Init, Traded, Sent, Own, NoRow
<1>4. TriedInv /\ OneSwap
  BY <1>3 DEF TriedInv, SwapSent, OneSwap, Traded
<1>5. BudgetInv
  <2>1. \A o \in Ops : ~Signed(o)
    BY DEF Init, Signed, Sent, Own, NoRow
  <2>2. order = Armed /\ \A c \in Clients : copy[c] = Armed /\ pc[c] = "idle"
    BY DEF Init
  <2> QED BY <2>1, <2>2, ArmedBudget DEF BudgetInv, Lists
<1> QED BY <1>1, <1>2, <1>4, <1>5 DEF IInv

\* The inductive invariant holds in every reachable state.
THEOREM Invariance == Spec => []IInv
<1>1. Init => IInv
  BY Initially
<1>2. IInv /\ [Next]_vars => IInv'
  BY TypeStep, LeaseStep, HeldStep, TriedStep, OneSwapStep, ToldStep, BudgetStep DEF IInv
<1> QED BY <1>1, <1>2, PTL DEF Spec

\* orders.rs, check before prepare: whatever clients watch, prepare, sign, die or come back, and
\* whatever blocks are undone, one swap at most is ever signed for the order.
THEOREM TradesOnce == Spec => []OneSwap
<1>1. IInv => OneSwap
  BY DEF IInv
<1> QED BY <1>1, Invariance, PTL

\* orders.rs, the stamp saved before the notice: no client announces the order a second time.
THEOREM SaidOnce == Spec => []AnnouncedOnce
<1>1. IInv => AnnouncedOnce
  BY DEF IInv
<1> QED BY <1>1, Invariance, PTL

\* orders.rs, the attempt and its fee saved as spent before anything is built: whatever clients die,
\* every operation signed for the order is one it lists and was charged for, within the attempts
\* and the fees the user allowed.
THEOREM SignsWithinBudget == Spec => []SignedIsBudgeted
<1>1. IInv => SignedIsBudgeted
  <2> SUFFICES ASSUME IInv PROVE SignedIsBudgeted
    OBVIOUS
  <2>1. Lists(order) /\ Budgeted(order) /\ order \in Record
    BY DEF IInv, BudgetInv, TypeOK
  <2>2. PICK S : S = {o \in Ops : Own(o) /\ Sent(o)}
    OBVIOUS
  <2>3. S \subseteq order.ops
    BY <2>1, <2>2 DEF Lists, Signed
  <2>4. IsFiniteSet(order.ops) /\ Cardinality(order.ops) \in Nat /\ order.free \in Nat /\ order.tries \in Nat
    BY <2>1, ListIsFinite
  <2>5. Cardinality(S) <= Cardinality(order.ops) /\ Cardinality(S) \in Nat
    BY <2>3, <2>4, FS_Subset, FS_CardinalityType
  <2>6. Cardinality(S) + order.free <= order.tries
    BY <2>1, <2>4, <2>5 DEF Budgeted
  <2>7. \A o \in Ops : Own(o) /\ Sent(o) => o \in order.ops
    BY <2>1 DEF Lists, Signed
  <2> QED BY <2>1, <2>2, <2>6, <2>7 DEF SignedIsBudgeted, Budgeted
<1> QED BY <1>1, Invariance, PTL

\* The steps that are made of a cancelled order leave it cancelled.
LEMMA CancelledStays ==
  ASSUME IInv, [Next]_vars, order.st = "Cancelled" PROVE order'.st = "Cancelled"
<1> DEFINE Goal == order'.st = "Cancelled"
<1> USE DEF IInv, HeldInv
<1>1. ASSUME NEW c \in Clients, Observe(c) PROVE Goal
  BY <1>1 DEF Observe, ObserveExpired, ObserveBlocked, ObserveAsk, ObserveQuote, Tell
<1>2. ASSUME NEW c \in Clients, Prepare(c) PROVE Goal
  BY <1>2 DEF Prepare, PrepareBlocked, PrepareAsk, PreparePrice, BuildOk, BuildFails, Link, Over
<1>3. ASSUME NEW c \in Clients, Commit(c) PROVE Goal
  BY <1>3 DEF Commit, Guard, CommitRefused, CommitSign, CommitDone
<1>4. ASSUME NEW c \in Clients, Cancel(c) PROVE Goal
  BY <1>4, ToType DEF Cancel, State, TypeOK
<1>5. ASSUME NEW c \in Clients, CancelRest(c) \/ Crash(c) \/ \E o \in Ops : Discard(c, o) PROVE Goal
  BY <1>5 DEF CancelRest, Crash, Discard
<1>6. CASE Beneath \/ UNCHANGED vars
  BY <1>6 DEF Beneath, Expire, Abandon, Undone, Reuse, Included, vars
<1> HIDE DEF Goal
<1> QED BY <1>1, <1>2, <1>3, <1>4, <1>5, <1>6 DEF Next, Stop, Goal

\* A review is signed only by the call that holds the order.
LEMMA SigningHolds ==
  ASSUME IInv, [Next]_vars, NEW o \in Ops, Own(o), journal[o].st = "prepared", journal'[o].st = "signed"
  PROVE  \E c \in Clients : CommitSign(c)
<1> SUFFICES ASSUME \A c \in Clients : ~CommitSign(c) PROVE FALSE
  OBVIOUS
<1> USE DEF IInv, TypeOK
<1>1. ASSUME NEW c \in Clients, NEW kind, BuildOk(c, kind) PROVE FALSE
  BY <1>1 DEF BuildOk
<1>2. ASSUME NEW c \in Clients, Link(c) PROVE FALSE
  <2>1. cur[c] \in Ops
    BY <1>2 DEF Link, HeldInv
  <2>2. journal' = journal \/ journal' = Discarded(cur[c])
    BY <1>2 DEF Link
  <2>3. journal'[o] = journal[o] \/ journal'[o].st = "cancelled"
    BY <2>1, <2>2 DEF Discarded, Set, Row
  <2> QED BY <2>3
<1>3. ASSUME NEW c \in Clients, NEW x \in Ops, Discard(c, x) PROVE FALSE
  BY <1>3 DEF Discard, Discarded, Set
<1>4. ASSUME NEW c \in Clients, CancelRest(c) PROVE FALSE
  <2>1. journal'[o] = journal[o] \/ journal'[o].st = "cancelled"
    BY <1>4 DEF CancelRest, Row
  <2> QED BY <2>1
<1>5. ASSUME NEW x \in Ops, Abandon(x) \/ Undone(x) \/ Reuse(x) PROVE FALSE
  <2>1. ASSUME Abandon(x) PROVE FALSE
    BY <2>1 DEF Abandon, Set, Row
  <2>2. ASSUME Undone(x) PROVE FALSE
    BY <2>2 DEF Undone, Set, Row
  <2>3. ASSUME Reuse(x) PROVE FALSE
    BY <2>3 DEF Reuse, Row
  <2> QED BY <1>5, <2>1, <2>2, <2>3
<1>6. ASSUME NEW x \in Ops, NEW st \in {"confirmed", "failed"}, Included(x, st) PROVE FALSE
  BY <1>6 DEF Included, Set
<1>7. ASSUME journal' = journal PROVE FALSE
  BY <1>7
<1> HIDE DEF IInv, TypeOK
<1>8. ASSUME NEW c \in Clients, Observe(c) PROVE FALSE
  BY <1>7, <1>8 DEF Observe, ObserveExpired, ObserveBlocked, ObserveAsk, ObserveQuote, Tell
<1>9. ASSUME NEW c \in Clients, PrepareBlocked(c) \/ PrepareAsk(c) \/ PreparePrice(c) \/ BuildFails(c)
      PROVE  FALSE
  BY <1>7, <1>9 DEF PrepareBlocked, PrepareAsk, PreparePrice, BuildFails
<1>10. ASSUME NEW c \in Clients, Commit(c) PROVE FALSE
  BY <1>7, <1>10 DEF Commit, Guard, CommitRefused, CommitDone
<1>11. ASSUME NEW c \in Clients, Cancel(c) \/ Crash(c) PROVE FALSE
  BY <1>7, <1>11 DEF Cancel, Crash
<1>12. ASSUME Expire \/ UNCHANGED vars PROVE FALSE
  BY <1>7, <1>12 DEF Expire, vars
<1>13. ASSUME NEW c \in Clients, Prepare(c) PROVE FALSE
  BY <1>1, <1>2, <1>9, <1>13 DEF Prepare
<1>14. ASSUME NEW c \in Clients, Stop(c) PROVE FALSE
  BY <1>3, <1>4, <1>11, <1>14 DEF Stop
<1> QED BY <1>5, <1>6, <1>8, <1>10, <1>12, <1>13, <1>14 DEF Next, Beneath

\* orders.rs, cancel and submission_guard: once a client has cancelled the order no other, with
\* whatever it read before, brings it back or signs for it.
THEOREM CancelledForGood == Spec => CancelIsFinal
<1>1. IInv /\ [Next]_vars =>
        [order.st = "Cancelled" =>
           /\ order'.st = "Cancelled"
           /\ \A o \in Ops : Own(o) /\ journal[o].st = "prepared" => journal'[o].st # "signed"]_vars
  <2> SUFFICES ASSUME IInv, [Next]_vars, order.st = "Cancelled"
               PROVE  /\ order'.st = "Cancelled"
                      /\ \A o \in Ops : Own(o) /\ journal[o].st = "prepared" => journal'[o].st # "signed"
    OBVIOUS
  <2>1. \A c \in Clients : ~CommitSign(c)
    BY DEF IInv, HeldInv, CommitSign
  <2> QED BY <2>1, CancelledStays, SigningHolds
<1> QED BY <1>1, Invariance, PTL DEF Spec, CancelIsFinal
=============================================================================
