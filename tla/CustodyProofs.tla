--------------------------- MODULE CustodyProofs ---------------------------
(***************************************************************************)
(* Custody for every number of wallets, password checks, reviews and       *)
(* switches.                                                               *)
(*                                                                         *)
(* Nothing approved after a lock is signed on a review from before it: in  *)
(* the signing lane's queue the lock the host passed on lies between the   *)
(* two. And a lock takes the keys: wherever a session that acts for the    *)
(* screen may hold them, what takes them is before it in its queue, and    *)
(* nothing that brings them back is behind that. What the other lanes keep *)
(* open the worker has left or is yet to come to, while every wallet opens *)
(* and no check is late.                                                   *)
(***************************************************************************)
EXTENDS Custody, SequenceTheorems, TLAPS

LaneJobs == Jobs({"prepare", "commit", "discard"}, Reviews)
              \cup Jobs({"lock", "shutdown"}, {NoReview}) \cup Jobs({"wallet"}, Wallets)
Events   == Jobs({"unlocked", "failed", "refused", "locked", "review"}, {NoReview} \cup Reviews)
Screens  == [wallet : Wallets, locked : BOOLEAN, unlocking : BOOLEAN, switch : BOOLEAN,
             review : {NoReview} \cup Reviews, since : {"password", "lock", "switch"}]

\* The part of the state the argument is about.
Shape ==
  /\ ui \in Screens /\ signq \in Seq(LaneJobs) /\ evq \in Seq(Events)
  /\ lane \in [wallet : Wallets \cup {NoWallet}, reviews : SUBSET Reviews,
               signing : {NoReview} \cup Reviews]
  /\ left \in [Kinds -> Nat] /\ left["review"] <= Budget["review"]

\* A job of the signing lane's queue, an event of the screen's.
Queued(k, what, r) == k \in 1..Len(signq) /\ signq[k].do = what /\ signq[k].of = r
LockAt(k)          == k \in 1..Len(signq) /\ signq[k].do = "lock"
Coming(k, r)       == k \in 1..Len(evq) /\ evq[k].do = "review" /\ evq[k].of = r

\* Reviews are numbered as they are asked for.
Asked == 1..(Budget["review"] - left["review"])
AskedInv ==
  /\ \A k \in 1..Len(signq) : signq[k].do \in {"prepare", "commit"} => signq[k].of \in Asked
  /\ \A k \in 1..Len(evq) : evq[k].do = "review" => evq[k].of \in Asked
  /\ ui.review \in {NoReview} \cup Asked /\ lane.signing \in {NoReview} \cup Asked
  /\ signed \subseteq Asked /\ barred \subseteq Asked /\ late \subseteq Asked
  /\ lane.reviews \subseteq Asked

\* A review is asked for, comes to the screen and is decided once: before its decision nothing of
\* it is signed or late.
Untouched(r) ==
  /\ \A k \in 1..Len(signq) : ~Queued(k, "commit", r)
  /\ r \notin signed /\ r \notin late /\ lane.signing # r
OnceInv == \A r \in Reviews :
  /\ \A k, j \in 1..Len(signq) : Queued(k, "prepare", r) /\ Queued(j, "prepare", r) => k = j
  /\ \A k, j \in 1..Len(evq) : Coming(k, r) /\ Coming(j, r) => k = j
  /\ (\E k \in 1..Len(signq) : Queued(k, "prepare", r)) =>
       Untouched(r) /\ ui.review # r /\ \A j \in 1..Len(evq) : ~Coming(j, r)
  /\ (\E k \in 1..Len(evq) : Coming(k, r)) => Untouched(r) /\ ui.review # r
  /\ ui.review = r => Untouched(r)

\* The lock that barred a review is behind it in the queue, until the lane has no such review.
BehindInv == \A r \in barred :
  /\ \A k \in 1..Len(signq) : Queued(k, "prepare", r) => \E j \in k+1..Len(signq) : LockAt(j)
  /\ r \in lane.reviews => \E j \in 1..Len(signq) : LockAt(j)

\* And before its late approval.
LateInv == \A r \in late :
  /\ r \notin signed /\ lane.signing # r
  /\ r \in lane.reviews =>
       \A k \in 1..Len(signq) : Queued(k, "commit", r) => \E j \in 1..k-1 : LockAt(j)

KeysInv == Shape /\ AskedInv /\ OnceInv /\ BehindInv /\ LateInv

-----------------------------------------------------------------------------
(* Queues. *)

\* A bound of the instance is used up one at a time; another kind than reviews leaves those alone.
LEMMA SpendType ==
  ASSUME left \in [Kinds -> Nat], NEW kind \in Kinds, Spend(kind)
  PROVE  /\ left' \in [Kinds -> Nat] /\ left'[kind] = left[kind] - 1
         /\ kind # "review" => left'["review"] = left["review"]
BY DEF Spend, Kinds

\* The review's number is a natural number of the instance.
LEMMA BudgetType == Budget \in [Kinds -> Nat] /\ Budget["review"] \in Nat /\ "review" \in Kinds
BY CustodyBounds DEF Kinds

\* The job at the head is gone, the others move up.
LEMMA Popped ==
  ASSUME NEW S, NEW q \in Seq(S), q # <<>>
  PROVE  /\ Len(q) \in Nat /\ Len(q) >= 1 /\ q[1] = Head(q) /\ q[1] \in S
         /\ Tail(q) \in Seq(S) /\ Len(Tail(q)) = Len(q) - 1
         /\ \A k \in 1..Len(q) - 1 : Tail(q)[k] = q[k + 1]
<1>1. Len(q) \in Nat \ {0}
  BY EmptySeq
<1>2. q[1] \in S
  BY <1>1, ElementOfSeq
<1>3. q[1] = Head(q)
  BY <1>1
<1> QED BY <1>1, <1>2, <1>3, HeadTailProperties

-----------------------------------------------------------------------------
(* Steps that leave the lane alone. *)

\* The lane's queue grows, by neither a review nor an approval.
Grows ==
  /\ Len(signq) <= Len(signq')
  /\ \A k \in 1..Len(signq) : signq'[k] = signq[k]
  /\ \A k \in Len(signq) + 1..Len(signq') :
       signq'[k].do \in {"lock", "wallet", "shutdown", "discard"}
\* No review comes to the screen that was not coming.
Fewer == \A r \in {NoReview} \cup Reviews :
  /\ \A k, j \in 1..Len(evq') : Coming(k, r)' /\ Coming(j, r)' => k = j
  /\ (\E k \in 1..Len(evq') : Coming(k, r)') => \E k \in 1..Len(evq) : Coming(k, r)
\* What the host bars it bars with a lock.
Bars ==
  \/ barred' = barred
  \/ barred' = Asked /\ \E j \in Len(signq) + 1..Len(signq') : signq'[j].do = "lock"
Quiet ==
  /\ Grows /\ Fewer /\ Bars /\ ui'.review \in {NoReview, ui.review}
  /\ lane' = lane /\ signed' = signed /\ late' = late /\ left'["review"] = left["review"]

\* A quiet step decides nothing and brings nothing new before the lane.
LEMMA QuietStep == ASSUME KeysInv, Shape', Quiet PROVE KeysInv'
<1> USE DEF KeysInv
<1>len. Len(signq) \in Nat /\ Len(signq') \in Nat /\ Len(evq) \in Nat /\ Len(evq') \in Nat
  BY LenProperties DEF Shape
<1>old. \A r, k : Queued(k, "prepare", r)' => Queued(k, "prepare", r)
  BY <1>len DEF Quiet, Grows, Queued
<1>cmt. \A r, k : Queued(k, "commit", r)' => Queued(k, "commit", r)
  BY <1>len DEF Quiet, Grows, Queued
<1>lck. \A k : LockAt(k) => LockAt(k)'
  BY <1>len DEF Quiet, Grows, LockAt
<1>1. Asked' = Asked
  BY DEF Quiet, Asked
<1>2. AskedInv'
  <2>1. \A k \in 1..Len(signq') : signq'[k].do \in {"prepare", "commit"} => signq'[k].of \in Asked
    BY <1>len DEF Quiet, Grows, AskedInv
  <2>2. \A k \in 1..Len(evq') : evq'[k] \in Events
    BY ElementOfSeq DEF Shape
  <2>3. \A k \in 1..Len(evq') : evq'[k].do = "review" => evq'[k].of \in Asked
    BY <1>len, <2>2 DEF Quiet, Fewer, Coming, AskedInv, Events, Jobs
  <2>4. barred' \subseteq Asked
    BY DEF Quiet, Bars, AskedInv
  <2> QED BY <1>1, <2>1, <2>3, <2>4 DEF Quiet, AskedInv
<1>3. OnceInv'
  <2>1. \A r : Untouched(r) => Untouched(r)'
    BY <1>cmt, <1>len DEF Untouched, Quiet, Queued
  <2> SUFFICES ASSUME NEW r \in Reviews
               PROVE  /\ \A k, j \in 1..Len(signq') :
                           Queued(k, "prepare", r)' /\ Queued(j, "prepare", r)' => k = j
                      /\ \A k, j \in 1..Len(evq') : Coming(k, r)' /\ Coming(j, r)' => k = j
                      /\ (\E k \in 1..Len(signq') : Queued(k, "prepare", r)') =>
                           Untouched(r)' /\ ui'.review # r /\ \A j \in 1..Len(evq') : ~Coming(j, r)'
                      /\ (\E k \in 1..Len(evq') : Coming(k, r)') => Untouched(r)' /\ ui'.review # r
                      /\ ui'.review = r => Untouched(r)'
    BY DEF OnceInv
  <2>2. r # NoReview
    BY DEF Reviews, NoReview
  <2>3. \A k : Queued(k, "prepare", r) => k \in 1..Len(signq)
    BY DEF Queued
  <2>4. \A k, j \in 1..Len(signq') : Queued(k, "prepare", r)' /\ Queued(j, "prepare", r)' => k = j
    BY <1>old, <2>3 DEF OnceInv
  <2>5. (\E k \in 1..Len(signq') : Queued(k, "prepare", r)') =>
           Untouched(r)' /\ ui'.review # r /\ \A j \in 1..Len(evq') : ~Coming(j, r)'
    BY <1>old, <2>1, <2>2, <2>3 DEF OnceInv, Quiet, Fewer
  <2>6. (\E k \in 1..Len(evq') : Coming(k, r)') => Untouched(r)' /\ ui'.review # r
    BY <2>1, <2>2 DEF OnceInv, Quiet, Fewer
  <2>7. ui'.review = r => Untouched(r)'
    BY <2>1, <2>2 DEF OnceInv, Quiet
  <2>8. \A k, j \in 1..Len(evq') : Coming(k, r)' /\ Coming(j, r)' => k = j
    BY DEF Quiet, Fewer
  <2> QED BY <2>4, <2>5, <2>6, <2>7, <2>8
<1>4. BehindInv'
  <2> SUFFICES ASSUME NEW r \in barred'
               PROVE  /\ \A k \in 1..Len(signq') :
                           Queued(k, "prepare", r)' => \E j \in k+1..Len(signq') : LockAt(j)'
                      /\ r \in lane'.reviews => \E j \in 1..Len(signq') : LockAt(j)'
    BY DEF BehindInv
  <2>1. \A k : LockAt(k)' => k \in 1..Len(signq')
    BY DEF LockAt
  <2>2. \A k : Queued(k, "prepare", r)' => k \in 1..Len(signq)
    BY <1>old DEF Queued
  <2>3. CASE r \in barred
    <3>1. \A k \in 1..Len(signq') :
            Queued(k, "prepare", r)' => \E j \in k+1..Len(signq) : LockAt(j)
      BY <1>old, <2>2, <2>3 DEF BehindInv
    <3>2. r \in lane'.reviews => \E j \in 1..Len(signq) : LockAt(j)
      BY <2>3 DEF BehindInv, Quiet
    <3> QED BY <1>lck, <1>len, <3>1, <3>2 DEF Quiet, Grows
  <2>4. CASE r \notin barred
    <3>1. PICK j \in Len(signq) + 1..Len(signq') : signq'[j].do = "lock"
      BY <2>4 DEF Quiet, Bars
    <3>2. j \in 1..Len(signq') /\ LockAt(j)' /\ \A k \in 1..Len(signq) : j \in k+1..Len(signq')
      BY <1>len, <3>1 DEF LockAt
    <3> QED BY <2>2, <3>2
  <2> QED BY <2>3, <2>4
<1>5. LateInv'
  <2> SUFFICES ASSUME NEW r \in late', NEW k, r \in lane'.reviews, Queued(k, "commit", r)'
               PROVE  \E j \in 1..k-1 : LockAt(j)'
    BY DEF LateInv, Quiet
  <2>1. Queued(k, "commit", r) /\ k \in 1..Len(signq)
    BY <1>cmt DEF Queued
  <2> QED BY <1>lck, <2>1 DEF LateInv, Quiet
<1> QED BY <1>2, <1>3, <1>4, <1>5

-----------------------------------------------------------------------------
(* Steps of the lane. *)

\* The lane takes its next job and keeps what it has or drops it; it signs only what it was told
\* to and has.
Takes ==
  /\ signq # <<>> /\ signq' = Tail(signq)
  /\ ui' = ui /\ evq' = evq /\ signed' = signed /\ barred' = barred /\ late' = late
  /\ left'["review"] = left["review"]
  /\ lane'.reviews \subseteq lane.reviews
  /\ signq[1].do = "lock" => lane'.reviews = {}
  /\ \/ lane'.signing \in {NoReview, lane.signing}
     \/ signq[1].do = "commit" /\ lane'.signing = signq[1].of /\ signq[1].of \in lane.reviews

\* A job taken leaves every lock that others wait behind, or was that lock and took the reviews.
LEMMA TakeStep == ASSUME KeysInv, Shape', Takes PROVE KeysInv'
<1> USE DEF KeysInv
<1>len. /\ Len(signq) \in Nat /\ Len(signq) >= 1 /\ Len(signq') = Len(signq) - 1
        /\ \A k \in 1..Len(signq) - 1 : signq'[k] = signq[k + 1]
  BY Popped DEF Shape, Takes
<1>q. \A k, what, r : Queued(k, what, r)' => k \in 1..Len(signq') /\ Queued(k + 1, what, r)
  BY <1>len DEF Queued
<1>l. \A k : LockAt(k) /\ k # 1 => k - 1 \in 1..Len(signq') /\ LockAt(k - 1)'
  BY <1>len DEF LockAt
<1>1. Asked' = Asked
  BY DEF Takes, Asked
<1>2. AskedInv'
  <2>1. \A k \in 1..Len(signq') : signq'[k].do \in {"prepare", "commit"} => signq'[k].of \in Asked
    BY <1>len DEF AskedInv
  <2>2. lane'.signing \in {NoReview} \cup Asked
    BY <1>len DEF AskedInv, Takes
  <2> QED BY <1>1, <2>1, <2>2 DEF Takes, AskedInv
<1>3. OnceInv'
  <2>1. \A r \in Reviews : Untouched(r) => Untouched(r)'
    <3> SUFFICES ASSUME NEW r \in Reviews, Untouched(r) PROVE Untouched(r)'
      OBVIOUS
    <3>1. r # NoReview
      BY DEF Reviews, NoReview
    <3>2. \A k : ~Queued(k, "commit", r)
      BY DEF Untouched, Queued
    <3>3. lane'.signing # r
      BY <1>len, <3>1, <3>2 DEF Takes, Untouched, Queued
    <3> QED BY <1>q, <3>2, <3>3 DEF Untouched, Takes
  <2> SUFFICES ASSUME NEW r \in Reviews
               PROVE  /\ \A k, j \in 1..Len(signq') :
                           Queued(k, "prepare", r)' /\ Queued(j, "prepare", r)' => k = j
                      /\ (\E k \in 1..Len(signq') : Queued(k, "prepare", r)') => Untouched(r)' /\ ui.review # r
                           /\ \A j \in 1..Len(evq) : ~Coming(j, r)
                      /\ (\E k \in 1..Len(evq) : Coming(k, r)) => Untouched(r)'
                      /\ ui.review = r => Untouched(r)'
    BY DEF OnceInv, Takes, Coming
  <2>2. \A k : Queued(k, "prepare", r) => k \in 1..Len(signq)
    BY DEF Queued
  <2>3. \A k, j \in 1..Len(signq') :
          Queued(k, "prepare", r)' /\ Queued(j, "prepare", r)' => k + 1 = j + 1
    BY <1>q, <2>2 DEF OnceInv
  <2>4. (\E k \in 1..Len(signq') : Queued(k, "prepare", r)') => Untouched(r)' /\ ui.review # r
           /\ \A j \in 1..Len(evq) : ~Coming(j, r)
    BY <1>q, <2>1, <2>2 DEF OnceInv
  <2>5. /\ (\E k \in 1..Len(evq) : Coming(k, r)) => Untouched(r)'
        /\ ui.review = r => Untouched(r)'
    BY <2>1 DEF OnceInv
  <2>6. \A k, j \in 1..Len(signq') : Queued(k, "prepare", r)' /\ Queued(j, "prepare", r)' => k = j
    BY <1>len, <2>3
  <2> QED BY <2>4, <2>5, <2>6
<1>4. BehindInv'
  <2> SUFFICES ASSUME NEW r \in barred
               PROVE  /\ \A k \in 1..Len(signq') :
                           Queued(k, "prepare", r)' => \E j \in k+1..Len(signq') : LockAt(j)'
                      /\ r \in lane'.reviews => \E j \in 1..Len(signq') : LockAt(j)'
    BY DEF BehindInv, Takes
  <2>1. ASSUME NEW k \in 1..Len(signq'), Queued(k, "prepare", r)'
        PROVE  \E j \in k+1..Len(signq') : LockAt(j)'
    <3>1. Queued(k + 1, "prepare", r) /\ k + 1 \in 1..Len(signq)
      BY <1>q, <2>1 DEF Queued
    <3>2. PICK j \in k+1+1..Len(signq) : LockAt(j)
      BY <3>1 DEF BehindInv
    <3>3. j # 1 /\ j - 1 \in k+1..Len(signq')
      BY <1>len, <3>2
    <3>4. LockAt(j - 1)'
      BY <1>l, <3>2, <3>3
    <3> QED BY <3>3, <3>4
  <2>2. ASSUME r \in lane'.reviews PROVE \E j \in 1..Len(signq') : LockAt(j)'
    <3>1. PICK j \in 1..Len(signq) : LockAt(j)
      BY <2>2 DEF BehindInv, Takes
    <3>2. j # 1
      BY <2>2, <3>1 DEF Takes, LockAt
    <3> QED BY <1>l, <3>1, <3>2
  <2> QED BY <2>1, <2>2
<1>5. LateInv'
  <2> SUFFICES ASSUME NEW r \in late
               PROVE  /\ lane'.signing # r
                      /\ r \in lane'.reviews =>
                           \A k : Queued(k, "commit", r)' => \E j \in 1..k-1 : LockAt(j)'
    BY DEF LateInv, Takes
  <2>1. r # NoReview
    BY DEF AskedInv, Asked, NoReview
  <2>2. r \in lane.reviews => ~Queued(1, "commit", r)
    BY <1>len DEF LateInv
  <2>3. lane'.signing # r
    BY <1>len, <2>1, <2>2 DEF LateInv, Takes, Queued
  <2>4. ASSUME NEW k, r \in lane'.reviews, Queued(k, "commit", r)' PROVE \E j \in 1..k-1 : LockAt(j)'
    <3>1. k \in 1..Len(signq') /\ Queued(k + 1, "commit", r) /\ k + 1 \in 1..Len(signq)
      BY <1>q, <2>4 DEF Queued
    <3>2. PICK j \in 1..(k+1)-1 : LockAt(j)
      BY <3>1, <2>4 DEF LateInv, Takes
    <3>3. j # 1
      BY <2>4, <3>2 DEF Takes, LockAt
    <3>4. LockAt(j - 1)' /\ j - 1 \in 1..k-1
      BY <1>l, <1>len, <3>1, <3>2, <3>3
    <3> QED BY <3>4
  <2> QED BY <2>3, <2>4
<1> QED BY <1>2, <1>3, <1>4, <1>5

\* The review the lane prepared is on its way to the screen.
LEMMA PreparedStep ==
  ASSUME KeysInv, Shape', LanePrepare, lane.wallet # NoWallet PROVE KeysInv'
<1> USE DEF KeysInv
<1>0. PICK x : x = Head(signq).of
  OBVIOUS
<1> DEFINE e == Job("review", x)
<1>len. /\ Len(signq) \in Nat /\ Len(signq) >= 1 /\ Len(signq') = Len(signq) - 1
        /\ signq[1].do = "prepare" /\ signq[1].of = x
        /\ \A k \in 1..Len(signq) - 1 : signq'[k] = signq[k + 1]
  BY <1>0, Popped DEF Shape, LanePrepare, LaneTaking
<1>x. x \in Asked /\ x \in Reviews /\ x # NoReview /\ Queued(1, "prepare", x)
  BY <1>len, BudgetType DEF AskedInv, Asked, Reviews, NoReview, Shape, Queued
<1>e. e \in Events
  BY <1>x DEF Events, Jobs, Job
<1>evq. /\ evq' = Append(evq, e) /\ Len(evq) \in Nat /\ Len(evq') = Len(evq) + 1
        /\ evq'[Len(evq) + 1] = e /\ \A k \in 1..Len(evq) : evq'[k] = evq[k]
  BY <1>0, <1>e, AppendProperties, LenProperties DEF Shape, LanePrepare
<1>lane. lane'.reviews = lane.reviews \cup {x} /\ lane'.signing = lane.signing
  BY <1>0 DEF LanePrepare, Shape
<1>same. ui' = ui /\ signed' = signed /\ barred' = barred /\ late' = late /\ left' = left
  BY DEF LanePrepare
<1>e2. e.do = "review" /\ e.of = x
  BY DEF Job
<1> HIDE DEF e
<1>q. \A k, what, r : Queued(k, what, r)' => k \in 1..Len(signq') /\ Queued(k + 1, what, r)
  BY <1>len DEF Queued
<1>l. \A k : LockAt(k) /\ k # 1 => k - 1 \in 1..Len(signq') /\ LockAt(k - 1)'
  BY <1>len DEF LockAt
<1>c. \A k, r : Coming(k, r)' => Coming(k, r) \/ (k = Len(evq) + 1 /\ r = x)
  BY <1>evq, <1>e2 DEF Coming
<1>in. \A k, what, r : Queued(k, what, r) => k \in 1..Len(signq)
  BY DEF Queued
<1>un. \A r : Untouched(r) => Untouched(r)'
  BY <1>q, <1>in, <1>lane, <1>same DEF Untouched
<1>ux. Untouched(x) /\ ui.review # x /\ \A j \in 1..Len(evq) : ~Coming(j, x)
  BY <1>x, <1>in DEF OnceInv
<1>gone. \A k : ~Queued(k, "prepare", x)'
  <2> SUFFICES ASSUME NEW k, Queued(k, "prepare", x)' PROVE FALSE
    OBVIOUS
  <2>1. k \in 1..Len(signq') /\ Queued(k + 1, "prepare", x) /\ k + 1 \in 1..Len(signq)
    BY <1>q, <1>in
  <2>2. k + 1 = 1
    BY <2>1, <1>x, <1>in DEF OnceInv
  <2> QED BY <2>1, <2>2, <1>len
<1>1. Asked' = Asked
  BY <1>same DEF Asked
<1>2. AskedInv'
  <2>1. \A k \in 1..Len(signq') : signq'[k].do \in {"prepare", "commit"} => signq'[k].of \in Asked
    BY <1>len DEF AskedInv
  <2>2. \A k \in 1..Len(evq') : evq'[k].do = "review" => evq'[k].of \in Asked
    BY <1>evq, <1>e2, <1>x DEF AskedInv
  <2> QED BY <1>1, <1>x, <1>lane, <1>same, <2>1, <2>2 DEF AskedInv
<1>3. OnceInv'
  <2> SUFFICES ASSUME NEW r \in Reviews
               PROVE  /\ \A k, j \in 1..Len(signq') :
                           Queued(k, "prepare", r)' /\ Queued(j, "prepare", r)' => k = j
                      /\ \A k, j \in 1..Len(evq') : Coming(k, r)' /\ Coming(j, r)' => k = j
                      /\ (\E k \in 1..Len(signq') : Queued(k, "prepare", r)') => Untouched(r)' /\ ui.review # r
                           /\ \A j \in 1..Len(evq') : ~Coming(j, r)'
                      /\ (\E k \in 1..Len(evq') : Coming(k, r)') => Untouched(r)' /\ ui.review # r
                      /\ ui.review = r => Untouched(r)'
    BY <1>same DEF OnceInv
  <2>1. \A k, j \in 1..Len(signq') :
          Queued(k, "prepare", r)' /\ Queued(j, "prepare", r)' => k + 1 = j + 1
    BY <1>q, <1>in DEF OnceInv
  <2>2. \A k, j \in 1..Len(signq') : Queued(k, "prepare", r)' /\ Queued(j, "prepare", r)' => k = j
    BY <1>len, <2>1
  <2>3. \A k : Coming(k, r) => k \in 1..Len(evq)
    BY DEF Coming
  <2>4. \A k, j \in 1..Len(evq') : Coming(k, r)' /\ Coming(j, r)' => k = j
    BY <1>c, <1>ux, <2>3 DEF OnceInv
  <2>5. (\E k \in 1..Len(signq') : Queued(k, "prepare", r)') => Untouched(r)' /\ ui.review # r
           /\ \A j \in 1..Len(evq') : ~Coming(j, r)'
    BY <1>q, <1>in, <1>un, <1>gone, <1>c, <2>3 DEF OnceInv
  <2>6. (\E k \in 1..Len(evq') : Coming(k, r)') => Untouched(r)' /\ ui.review # r
    BY <1>c, <1>un, <1>ux, <2>3 DEF OnceInv
  <2>7. ui.review = r => Untouched(r)'
    BY <1>un DEF OnceInv
  <2> QED BY <2>2, <2>4, <2>5, <2>6, <2>7
<1>4. BehindInv'
  <2> SUFFICES ASSUME NEW r \in barred
               PROVE  /\ \A k \in 1..Len(signq') :
                           Queued(k, "prepare", r)' => \E j \in k+1..Len(signq') : LockAt(j)'
                      /\ r \in lane'.reviews => \E j \in 1..Len(signq') : LockAt(j)'
    BY <1>same DEF BehindInv
  <2>1. ASSUME NEW k \in 1..Len(signq'), Queued(k, "prepare", r)'
        PROVE  \E j \in k+1..Len(signq') : LockAt(j)'
    <3>1. Queued(k + 1, "prepare", r) /\ k + 1 \in 1..Len(signq)
      BY <1>q, <1>in, <2>1
    <3>2. PICK j \in k+1+1..Len(signq) : LockAt(j)
      BY <3>1 DEF BehindInv
    <3>3. j # 1 /\ j - 1 \in k+1..Len(signq')
      BY <1>len, <3>2
    <3>4. LockAt(j - 1)'
      BY <1>l, <3>2, <3>3
    <3> QED BY <3>3, <3>4
  <2>2. ASSUME r \in lane'.reviews PROVE \E j \in 1..Len(signq') : LockAt(j)'
    <3>1. \E j \in 1..Len(signq) : LockAt(j)
      BY <2>2, <1>x, <1>lane, <1>len DEF BehindInv
    <3>2. PICK j \in 1..Len(signq) : LockAt(j)
      BY <3>1
    <3>3. j # 1
      BY <1>len, <3>2 DEF LockAt
    <3> QED BY <1>l, <3>2, <3>3
  <2> QED BY <2>1, <2>2
<1>5. LateInv'
  <2> SUFFICES ASSUME NEW r \in late, r \in lane'.reviews, NEW k, Queued(k, "commit", r)'
               PROVE  \E j \in 1..k-1 : LockAt(j)'
    BY <1>same, <1>lane DEF LateInv
  <2>1. r # x
    BY <1>ux DEF Untouched
  <2>2. k \in 1..Len(signq') /\ Queued(k + 1, "commit", r) /\ k + 1 \in 1..Len(signq)
    BY <1>q, <1>in
  <2>3. PICK j \in 1..(k+1)-1 : LockAt(j)
    BY <2>1, <2>2, <1>lane DEF LateInv
  <2>4. j # 1
    BY <1>len, <2>3 DEF LockAt
  <2>5. LockAt(j - 1)' /\ j - 1 \in 1..k-1
    BY <1>l, <1>len, <2>2, <2>3, <2>4
  <2> QED BY <2>5
<1> QED BY <1>2, <1>3, <1>4, <1>5

\* What the lane was told to sign it signs, or finds the keys gone.
LEMMA SignedStep == ASSUME KeysInv, Shape', LaneSign PROVE KeysInv'
<1> USE DEF KeysInv
<1>1. /\ lane'.signing = NoReview /\ lane'.reviews = lane.reviews
      /\ signed' \subseteq signed \cup {lane.signing} /\ lane.signing # NoReview
      /\ ui' = ui /\ signq' = signq /\ evq' = evq /\ barred' = barred /\ late' = late /\ left' = left
  BY DEF LaneSign, LaneFree, Shape
<1>2. \A k, what, r : /\ Queued(k, what, r)' <=> Queued(k, what, r)
                      /\ LockAt(k)' <=> LockAt(k)
                      /\ Coming(k, r)' <=> Coming(k, r)
  BY <1>1 DEF Queued, LockAt, Coming
<1>3. \A r \in Reviews : Untouched(r) => Untouched(r)'
  BY <1>1, <1>2 DEF Untouched, Reviews, NoReview
<1>4. AskedInv'
  BY <1>1 DEF AskedInv, Asked
<1>5. OnceInv'
  <2> SUFFICES ASSUME NEW r \in Reviews
               PROVE  /\ \A k, j \in 1..Len(signq) :
                           Queued(k, "prepare", r)' /\ Queued(j, "prepare", r)' => k = j
                      /\ \A k, j \in 1..Len(evq) : Coming(k, r)' /\ Coming(j, r)' => k = j
                      /\ (\E k \in 1..Len(signq) : Queued(k, "prepare", r)') => Untouched(r)' /\ ui.review # r
                           /\ \A j \in 1..Len(evq) : ~Coming(j, r)'
                      /\ (\E k \in 1..Len(evq) : Coming(k, r)') => Untouched(r)' /\ ui.review # r
                      /\ ui.review = r => Untouched(r)'
    BY <1>1 DEF OnceInv
  <2> QED BY <1>2, <1>3 DEF OnceInv
<1>6. BehindInv'
  <2> SUFFICES ASSUME NEW r \in barred
               PROVE  /\ \A k \in 1..Len(signq) :
                           Queued(k, "prepare", r)' => \E j \in k+1..Len(signq) : LockAt(j)'
                      /\ r \in lane.reviews => \E j \in 1..Len(signq) : LockAt(j)'
    BY <1>1 DEF BehindInv
  <2> QED BY <1>2 DEF BehindInv
<1>7. LateInv'
  <2> SUFFICES ASSUME NEW r \in late
               PROVE  /\ r \notin signed' /\ lane'.signing # r
                      /\ r \in lane.reviews =>
                           \A k \in 1..Len(signq) :
                             Queued(k, "commit", r)' => \E j \in 1..k-1 : LockAt(j)'
    BY <1>1 DEF LateInv
  <2>1. r # NoReview
    BY DEF AskedInv, Asked, NoReview
  <2> QED BY <1>1, <1>2, <2>1 DEF LateInv
<1> QED BY <1>4, <1>5, <1>6, <1>7

-----------------------------------------------------------------------------
(* Steps of the screen that bring something before the lane. *)

\* A new review has a number nobody has seen.
LEMMA AskedStep == ASSUME KeysInv, Shape', AskReview PROVE KeysInv'
<1> USE DEF KeysInv
<1>0. PICK x : x = Budget["review"] - left["review"] + 1
  OBVIOUS
<1>1. /\ left["review"] > 0 /\ left' \in [Kinds -> Nat] /\ left'["review"] = left["review"] - 1
      /\ left["review"] \in Nat /\ Budget["review"] \in Nat
  BY SpendType, BudgetType DEF AskReview, Spend, Shape
<1>2. x \in Reviews /\ x \notin Asked /\ x # NoReview /\ Asked' = Asked \cup {x}
  <2>1. left["review"] <= Budget["review"]
    BY DEF Shape
  <2>2. x \in Nat \ {0} /\ x \in 1..Budget["review"] /\ x \notin Asked
    BY <1>0, <1>1, <2>1 DEF Asked
  <2>3. Asked' = 1..x
    BY <1>0, <1>1, <2>1 DEF Asked
  <2>4. 1..x = Asked \cup {x}
    BY <1>0, <1>1, <2>1, <2>2 DEF Asked
  <2>5. Reviews = 1..Budget["review"]
    BY DEF Reviews
  <2> QED BY <2>2, <2>3, <2>4, <2>5 DEF NoReview
<1>3. signq' = Append(signq, Job("prepare", x)) /\ Job("prepare", x) \in LaneJobs
  BY <1>0, <1>1, <1>2 DEF AskReview, LaneJobs, Jobs, Job
<1>4. /\ Len(signq) \in Nat /\ Len(signq') = Len(signq) + 1
      /\ \A k \in 1..Len(signq) : signq'[k] = signq[k]
      /\ signq'[Len(signq) + 1].do = "prepare" /\ signq'[Len(signq) + 1].of = x
  BY <1>3, AppendProperties, LenProperties DEF Shape, Job
<1>5. /\ ui' = ui /\ evq' = evq /\ lane' = lane /\ signed' = signed /\ barred' = barred /\ late' = late
  BY DEF AskReview
<1>6. \A r, k : Queued(k, "prepare", r)' =>
        Queued(k, "prepare", r) \/ (r = x /\ k = Len(signq) + 1)
  BY <1>4 DEF Queued
<1>7. \A r, k : Queued(k, "commit", r)' => Queued(k, "commit", r)
  BY <1>4 DEF Queued
<1>8. \A k : LockAt(k) => LockAt(k)'
  BY <1>4 DEF LockAt
<1>9. \A k, r : Coming(k, r)' <=> Coming(k, r)
  BY <1>5 DEF Coming
<1>in. \A k, what, r : Queued(k, what, r) => k \in 1..Len(signq)
  BY DEF Queued
<1>un. \A r : Untouched(r) => Untouched(r)'
  BY <1>5, <1>7, <1>in DEF Untouched
<1>ux. /\ Untouched(x) /\ ui.review # x /\ \A j \in 1..Len(evq) : ~Coming(j, x)
       /\ \A k : ~Queued(k, "prepare", x)
  BY <1>2 DEF AskedInv, Untouched, Queued, Coming
<1>10. AskedInv'
  <2>1. \A k \in 1..Len(signq') : signq'[k].do \in {"prepare", "commit"} => signq'[k].of \in Asked'
    BY <1>2, <1>4 DEF AskedInv
  <2> QED BY <1>2, <1>5, <2>1 DEF AskedInv
<1>11. OnceInv'
  <2> SUFFICES ASSUME NEW r \in Reviews
               PROVE  /\ \A k, j \in 1..Len(signq') :
                           Queued(k, "prepare", r)' /\ Queued(j, "prepare", r)' => k = j
                      /\ \A k, j \in 1..Len(evq) : Coming(k, r) /\ Coming(j, r) => k = j
                      /\ (\E k \in 1..Len(signq') : Queued(k, "prepare", r)') => Untouched(r)' /\ ui.review # r
                           /\ \A j \in 1..Len(evq) : ~Coming(j, r)
                      /\ (\E k \in 1..Len(evq) : Coming(k, r)) => Untouched(r)' /\ ui.review # r
                      /\ ui.review = r => Untouched(r)'
    BY <1>5, <1>9 DEF OnceInv
  <2>1. \A k, j \in 1..Len(signq') : Queued(k, "prepare", r)' /\ Queued(j, "prepare", r)' => k = j
    BY <1>6, <1>in, <1>ux DEF OnceInv
  <2>2. (\E k \in 1..Len(signq') : Queued(k, "prepare", r)') => Untouched(r)' /\ ui.review # r
           /\ \A j \in 1..Len(evq) : ~Coming(j, r)
    BY <1>6, <1>in, <1>un, <1>ux DEF OnceInv
  <2> QED BY <1>un, <2>1, <2>2 DEF OnceInv
<1>12. BehindInv'
  <2> SUFFICES ASSUME NEW r \in barred
               PROVE  /\ \A k \in 1..Len(signq') :
                           Queued(k, "prepare", r)' => \E j \in k+1..Len(signq') : LockAt(j)'
                      /\ r \in lane.reviews => \E j \in 1..Len(signq') : LockAt(j)'
    BY <1>5 DEF BehindInv
  <2>1. r # x
    BY <1>2 DEF AskedInv
  <2>2. \A k \in 1..Len(signq') : Queued(k, "prepare", r)' => \E j \in k+1..Len(signq) : LockAt(j)
    BY <1>6, <1>in, <2>1 DEF BehindInv
  <2>3. r \in lane.reviews => \E j \in 1..Len(signq) : LockAt(j)
    BY DEF BehindInv
  <2> QED BY <1>4, <1>8, <2>2, <2>3
<1>13. LateInv'
  <2> SUFFICES ASSUME NEW r \in late, r \in lane.reviews, NEW k, Queued(k, "commit", r)'
               PROVE  \E j \in 1..k-1 : LockAt(j)'
    BY <1>5 DEF LateInv
  <2> QED BY <1>7, <1>8, <1>in DEF LateInv
<1> QED BY <1>10, <1>11, <1>12, <1>13

\* A decision: if the review was barred, the lock that barred it is in the queue already.
LEMMA DecidedStep == ASSUME KeysInv, Shape', Decide PROVE KeysInv'
<1> USE DEF KeysInv
<1>0. PICK x : x = ui.review
  OBVIOUS
<1>1. PICK what \in {"commit", "discard"} :
        /\ signq' = Append(signq, Job(what, x))
        /\ late' = IF what = "commit" /\ x \in barred THEN late \cup {x} ELSE late
  BY <1>0 DEF Decide
<1>2. x \in Reviews /\ x \in Asked /\ x # NoReview /\ ui'.review = NoReview
  BY <1>0 DEF Decide, Shape, AskedInv, Screens
<1>3. Job(what, x) \in LaneJobs
  BY <1>2 DEF LaneJobs, Jobs, Job
<1>4. /\ Len(signq) \in Nat /\ Len(signq') = Len(signq) + 1
      /\ \A k \in 1..Len(signq) : signq'[k] = signq[k]
      /\ signq'[Len(signq) + 1].do = what /\ signq'[Len(signq) + 1].of = x
  BY <1>1, <1>3, AppendProperties, LenProperties DEF Shape, Job
<1>5. /\ evq' = evq /\ lane' = lane /\ signed' = signed /\ barred' = barred /\ left' = left
  BY DEF Decide
<1>6. \A r, k : Queued(k, "prepare", r)' => Queued(k, "prepare", r)
  BY <1>4 DEF Queued
<1>7. \A r, k : Queued(k, "commit", r)' =>
        Queued(k, "commit", r) \/ (r = x /\ k = Len(signq) + 1)
  BY <1>4 DEF Queued
<1>8. \A k : LockAt(k) => LockAt(k)'
  BY <1>4 DEF LockAt
<1>9. \A k, r : Coming(k, r)' <=> Coming(k, r)
  BY <1>5 DEF Coming
<1>in. \A k, w, r : Queued(k, w, r) => k \in 1..Len(signq)
  BY DEF Queued
<1>ux. Untouched(x) /\ (\A k : ~Queued(k, "prepare", x)) /\ \A j \in 1..Len(evq) : ~Coming(j, x)
  BY <1>0, <1>2, <1>in DEF OnceInv
<1>un. \A r : r # x /\ Untouched(r) => Untouched(r)'
  BY <1>1, <1>5, <1>7, <1>in DEF Untouched
<1>10. AskedInv'
  <2>1. \A k \in 1..Len(signq') : signq'[k].do \in {"prepare", "commit"} => signq'[k].of \in Asked
    BY <1>2, <1>4 DEF AskedInv
  <2>2. Asked' = Asked /\ late' \subseteq Asked
    BY <1>1, <1>2, <1>5 DEF Asked, AskedInv
  <2> QED BY <1>2, <1>5, <2>1, <2>2 DEF AskedInv
<1>11. OnceInv'
  <2> SUFFICES ASSUME NEW r \in Reviews
               PROVE  /\ \A k, j \in 1..Len(signq') :
                           Queued(k, "prepare", r)' /\ Queued(j, "prepare", r)' => k = j
                      /\ \A k, j \in 1..Len(evq) : Coming(k, r) /\ Coming(j, r) => k = j
                      /\ (\E k \in 1..Len(signq') : Queued(k, "prepare", r)') => Untouched(r)'
                           /\ \A j \in 1..Len(evq) : ~Coming(j, r)
                      /\ (\E k \in 1..Len(evq) : Coming(k, r)) => Untouched(r)'
    BY <1>2, <1>5, <1>9 DEF OnceInv, Reviews, NoReview
  <2>1. \A k, j \in 1..Len(signq') : Queued(k, "prepare", r)' /\ Queued(j, "prepare", r)' => k = j
    BY <1>6, <1>in DEF OnceInv
  <2>2. (\E k \in 1..Len(signq') : Queued(k, "prepare", r)') => Untouched(r)'
           /\ \A j \in 1..Len(evq) : ~Coming(j, r)
    BY <1>6, <1>in, <1>un, <1>ux DEF OnceInv
  <2>3. (\E k \in 1..Len(evq) : Coming(k, r)) => Untouched(r)'
    BY <1>un, <1>ux DEF OnceInv
  <2> QED BY <2>1, <2>2, <2>3 DEF OnceInv
<1>12. BehindInv'
  <2> SUFFICES ASSUME NEW r \in barred
               PROVE  /\ \A k \in 1..Len(signq') :
                           Queued(k, "prepare", r)' => \E j \in k+1..Len(signq') : LockAt(j)'
                      /\ r \in lane.reviews => \E j \in 1..Len(signq') : LockAt(j)'
    BY <1>5 DEF BehindInv
  <2>1. \A k \in 1..Len(signq') : Queued(k, "prepare", r)' => \E j \in k+1..Len(signq) : LockAt(j)
    BY <1>6, <1>in DEF BehindInv
  <2>2. r \in lane.reviews => \E j \in 1..Len(signq) : LockAt(j)
    BY DEF BehindInv
  <2> QED BY <1>4, <1>8, <2>1, <2>2
<1>13. LateInv'
  <2> SUFFICES ASSUME NEW r \in late'
               PROVE  /\ r \notin signed /\ lane.signing # r
                      /\ r \in lane.reviews =>
                           \A k : Queued(k, "commit", r)' => \E j \in 1..k-1 : LockAt(j)'
    BY <1>5 DEF LateInv
  <2>1. CASE r = x
    <3>1. r \in barred
      BY <1>1, <1>ux, <2>1 DEF Untouched
    <3>2. r \in lane.reviews => \E j \in 1..Len(signq) : LockAt(j)
      BY <3>1 DEF BehindInv
    <3>3. \A k : Queued(k, "commit", r)' => k = Len(signq) + 1
      BY <1>7, <1>in, <1>ux, <2>1 DEF Untouched
    <3> QED BY <1>4, <1>8, <1>ux, <2>1, <3>2, <3>3 DEF Untouched
  <2>2. CASE r # x
    <3>1. r \in late
      BY <1>1, <2>2
    <3>2. \A k : Queued(k, "commit", r)' => Queued(k, "commit", r) /\ k \in 1..Len(signq)
      BY <1>7, <1>in, <2>2
    <3> QED BY <1>8, <3>1, <3>2 DEF LateInv
  <2> QED BY <2>1, <2>2
<1> QED BY <1>10, <1>11, <1>12, <1>13

\* A review that comes to an open screen is the one on it.
LEMMA ShownStep ==
  ASSUME KeysInv, Shape', Hear, Head(evq).do = "review", ~ui.locked PROVE KeysInv'
<1> USE DEF KeysInv
<1>0. PICK x : x = Head(evq).of
  OBVIOUS
<1>1. /\ Len(evq) \in Nat /\ Len(evq) >= 1 /\ Len(evq') = Len(evq) - 1
      /\ evq[1].do = "review" /\ evq[1].of = x
      /\ \A k \in 1..Len(evq) - 1 : evq'[k] = evq[k + 1]
  BY <1>0, Popped DEF Shape, Hear
<1>2. /\ signq' = signq /\ lane' = lane /\ signed' = signed /\ barred' = barred /\ late' = late
      /\ left' = left
  BY DEF Hear
<1>3. ui'.review = x
  BY <1>0 DEF Hear, Shown, Shape, Screens
<1>4. x \in Asked /\ x \in Reviews /\ x # NoReview /\ Coming(1, x)
  BY <1>1, BudgetType DEF AskedInv, Asked, Reviews, NoReview, Shape, Coming
<1>5. \A k, r : Coming(k, r)' => k \in 1..Len(evq') /\ Coming(k + 1, r)
  BY <1>1 DEF Coming
<1>6. \A k, r : Coming(k, r) => k \in 1..Len(evq)
  BY DEF Coming
<1>7. \A k, w, r : Queued(k, w, r)' <=> Queued(k, w, r)
  BY <1>2 DEF Queued
<1>8. \A k : LockAt(k)' <=> LockAt(k)
  BY <1>2 DEF LockAt
<1>un. \A r : Untouched(r) => Untouched(r)'
  BY <1>2, <1>7 DEF Untouched
<1>ux. Untouched(x) /\ \A k \in 1..Len(signq) : ~Queued(k, "prepare", x)
  BY <1>1, <1>4, <1>6 DEF OnceInv
<1>gone. \A k : ~Coming(k, x)'
  <2> SUFFICES ASSUME NEW k, Coming(k, x)' PROVE FALSE
    OBVIOUS
  <2>1. k \in 1..Len(evq') /\ Coming(k + 1, x) /\ k + 1 \in 1..Len(evq)
    BY <1>5, <1>6
  <2>2. k + 1 = 1
    BY <2>1, <1>4, <1>6 DEF OnceInv
  <2> QED BY <2>1, <2>2, <1>1
<1>9. AskedInv'
  <2>1. \A k \in 1..Len(evq') : evq'[k].do = "review" => evq'[k].of \in Asked
    BY <1>1 DEF AskedInv
  <2>2. Asked' = Asked
    BY <1>2 DEF Asked
  <2> QED BY <1>2, <1>3, <1>4, <2>1, <2>2 DEF AskedInv
<1>10. OnceInv'
  <2> SUFFICES ASSUME NEW r \in Reviews
               PROVE  /\ \A k, j \in 1..Len(signq) :
                           Queued(k, "prepare", r)' /\ Queued(j, "prepare", r)' => k = j
                      /\ \A k, j \in 1..Len(evq') : Coming(k, r)' /\ Coming(j, r)' => k = j
                      /\ (\E k \in 1..Len(signq) : Queued(k, "prepare", r)') => Untouched(r)' /\ x # r
                           /\ \A j \in 1..Len(evq') : ~Coming(j, r)'
                      /\ (\E k \in 1..Len(evq') : Coming(k, r)') => Untouched(r)' /\ x # r
                      /\ x = r => Untouched(r)'
    BY <1>2, <1>3 DEF OnceInv
  <2>1. \A k, j \in 1..Len(evq') : Coming(k, r)' /\ Coming(j, r)' => k + 1 = j + 1
    BY <1>5, <1>6 DEF OnceInv
  <2>2. \A k, j \in 1..Len(evq') : Coming(k, r)' /\ Coming(j, r)' => k = j
    BY <1>1, <2>1
  <2>3. (\E k \in 1..Len(signq) : Queued(k, "prepare", r)') => Untouched(r)' /\ x # r
           /\ \A j \in 1..Len(evq') : ~Coming(j, r)'
    BY <1>5, <1>6, <1>7, <1>un, <1>ux DEF OnceInv
  <2>4. (\E k \in 1..Len(evq') : Coming(k, r)') => Untouched(r)' /\ x # r
    BY <1>5, <1>6, <1>un, <1>gone DEF OnceInv
  <2>5. \A k, j \in 1..Len(signq) :
          Queued(k, "prepare", r)' /\ Queued(j, "prepare", r)' => k = j
    BY <1>7 DEF OnceInv
  <2> QED BY <1>un, <1>ux, <2>2, <2>3, <2>4, <2>5
<1>11. BehindInv'
  <2> SUFFICES ASSUME NEW r \in barred
               PROVE  /\ \A k \in 1..Len(signq) :
                           Queued(k, "prepare", r)' => \E j \in k+1..Len(signq) : LockAt(j)'
                      /\ r \in lane.reviews => \E j \in 1..Len(signq) : LockAt(j)'
    BY <1>2 DEF BehindInv
  <2> QED BY <1>7, <1>8 DEF BehindInv
<1>12. LateInv'
  <2> SUFFICES ASSUME NEW r \in late
               PROVE  /\ r \notin signed /\ lane.signing # r
                      /\ r \in lane.reviews =>
                           \A k \in 1..Len(signq) :
                             Queued(k, "commit", r)' => \E j \in 1..k-1 : LockAt(j)'
    BY <1>2 DEF LateInv
  <2> QED BY <1>7, <1>8 DEF LateInv
<1> QED BY <1>9, <1>10, <1>11, <1>12

-----------------------------------------------------------------------------
(* Which steps are quiet. *)

\* Events that nobody touches bring no review.
LEMMA SameFewer == ASSUME KeysInv, evq' = evq PROVE Fewer
<1>1. \A r, k : Coming(k, r)' <=> Coming(k, r)
  BY DEF Coming
<1>2. \A k : ~Coming(k, NoReview)
  BY DEF KeysInv, AskedInv, Coming, Asked, NoReview
<1> QED BY <1>1, <1>2 DEF Fewer, KeysInv, OnceInv

\* Neither does an event of another kind.
LEMMA ToldFewer ==
  ASSUME KeysInv, NEW e \in Events, e.do # "review", evq' = Append(evq, e)
  PROVE  Fewer
<1>1. /\ Len(evq) \in Nat /\ Len(evq') = Len(evq) + 1 /\ evq'[Len(evq) + 1] = e
      /\ \A k \in 1..Len(evq) : evq'[k] = evq[k]
  BY AppendProperties, LenProperties DEF KeysInv, Shape
<1>2. \A r, k : Coming(k, r)' => k \in 1..Len(evq) /\ Coming(k, r)
  BY <1>1 DEF Coming
<1>3. \A k : ~Coming(k, NoReview)
  BY DEF KeysInv, AskedInv, Coming, Asked, NoReview
<1> QED BY <1>2, <1>3 DEF Fewer, KeysInv, OnceInv

\* Nor an event heard.
LEMMA HeardFewer == ASSUME KeysInv, evq # <<>>, evq' = Tail(evq) PROVE Fewer
<1>1. /\ Len(evq) \in Nat /\ Len(evq') = Len(evq) - 1
      /\ \A k \in 1..Len(evq) - 1 : evq'[k] = evq[k + 1]
  BY Popped DEF KeysInv, Shape
<1>2. \A r, k : Coming(k, r)' =>
        k \in 1..Len(evq') /\ k + 1 \in 1..Len(evq) /\ Coming(k + 1, r)
  BY <1>1 DEF Coming
<1>3. \A k : ~Coming(k, NoReview)
  BY DEF KeysInv, AskedInv, Coming, Asked, NoReview
<1>4. \A r \in Reviews : \A k, j \in 1..Len(evq') : Coming(k, r)' /\ Coming(j, r)' => k + 1 = j + 1
  BY <1>2 DEF KeysInv, OnceInv
<1>5. \A r \in Reviews : \A k, j \in 1..Len(evq') : Coming(k, r)' /\ Coming(j, r)' => k = j
  BY <1>1, <1>4
<1> QED BY <1>2, <1>3, <1>5 DEF Fewer

\* A lane's queue that stays grows by nothing.
LEMMA SameGrows == ASSUME Shape, signq' = signq PROVE Grows
BY LenProperties DEF Shape, Grows

\* One that takes a lock, a switch, an end or a discard grows by that.
LEMMA OneGrows ==
  ASSUME Shape, NEW e \in LaneJobs, e.do \in {"lock", "wallet", "shutdown", "discard"},
         signq' = Append(signq, e)
  PROVE  Grows /\ Len(signq) \in Nat /\ Len(signq') = Len(signq) + 1 /\ signq'[Len(signq) + 1] = e
<1>1. /\ Len(signq) \in Nat /\ Len(signq') = Len(signq) + 1 /\ signq'[Len(signq) + 1] = e
      /\ \A k \in 1..Len(signq) : signq'[k] = signq[k]
  BY AppendProperties, LenProperties DEF Shape
<1> QED BY <1>1 DEF Grows

-----------------------------------------------------------------------------
(* Types. *)

\* The state as the terminal attached has its shape.
LEMMA ShapeInit == CustodyInit => Shape
<1> SUFFICES ASSUME CustodyInit PROVE Shape
  OBVIOUS
<1>1. ui \in Screens
  BY CustodyBounds DEF CustodyInit, Screens
<1>2. signq \in Seq(LaneJobs) /\ evq \in Seq(Events)
  BY EmptySeq DEF CustodyInit
<1>3. lane \in [wallet : Wallets \cup {NoWallet}, reviews : SUBSET Reviews,
                signing : {NoReview} \cup Reviews]
  BY CustodyBounds DEF CustodyInit
<1>4. left \in [Kinds -> Nat] /\ left["review"] <= Budget["review"]
  BY BudgetType DEF CustodyInit
<1> QED BY <1>1, <1>2, <1>3, <1>4 DEF Shape

\* A locked screen is a screen.
LEMMA LockedType ==
  ASSUME NEW u \in Screens PROVE EnterLock(u) \in Screens /\ EnterLock(u).review = NoReview
BY DEF EnterLock, Screens

\* Passing a lock on puts one job before the lane.
LEMMA HostLockType ==
  ASSUME Shape, HostLock
  PROVE  /\ signq' \in Seq(LaneJobs) /\ Grows
         /\ \E j \in Len(signq) + 1..Len(signq') : signq'[j].do = "lock"
<1>1. Job("lock", NoReview) \in LaneJobs /\ Job("lock", NoReview).do = "lock"
  BY DEF Job, LaneJobs, Jobs
<1>2. signq' = Append(signq, Job("lock", NoReview))
  BY DEF HostLock
<1>3. signq' \in Seq(LaneJobs)
  BY <1>1, <1>2, AppendProperties DEF Shape
<1>4. Grows /\ Len(signq) \in Nat /\ Len(signq') = Len(signq) + 1
      /\ signq'[Len(signq) + 1] = Job("lock", NoReview)
  BY <1>1, <1>2, OneGrows
<1> QED BY <1>1, <1>3, <1>4

\* Other kinds of steps than a review leave the number of reviews.
LEMMA SpendShape ==
  ASSUME Shape, NEW kind \in Kinds \ {"review"}, Spend(kind)
  PROVE  /\ left' \in [Kinds -> Nat] /\ left'["review"] <= Budget["review"]
         /\ left'["review"] = left["review"]
<1>1. left' \in [Kinds -> Nat] /\ left'["review"] = left["review"]
  BY SpendType DEF Shape
<1> QED BY <1>1 DEF Shape

-----------------------------------------------------------------------------
(* Every step. *)

\* The engine's event for the screen that is not a review.
LEMMA EventStep ==
  ASSUME KeysInv, NEW e \in Events, e.do # "review", evq' = Append(evq, e) \/ evq' = evq,
         ui' = ui, signq' = signq, lane' = lane, signed' = signed, barred' = barred, late' = late,
         left' \in [Kinds -> Nat], left'["review"] = left["review"]
  PROVE  KeysInv'
<1>1. Shape'
  <2>1. evq \in Seq(Events)
    BY DEF KeysInv, Shape
  <2>2. Append(evq, e) \in Seq(Events)
    BY <2>1, AppendProperties
  <2>3. evq' \in Seq(Events)
    BY <2>1, <2>2
  <2> QED BY <2>3 DEF KeysInv, Shape
<1>2. Quiet
  BY ToldFewer, SameFewer, SameGrows DEF Quiet, Bars, KeysInv
<1> QED BY <1>1, <1>2, QuietStep

\* The screen: locks, switches, password checks and their end.
LEMMA ScreenStep ==
  ASSUME KeysInv,
         LockNow \/ EngineLock \/ GiveUp \/ Leave
         \/ (\E w \in Wallets : Switch(w)) \/ (\E c \in Checks : BeginUnlock(c))
  PROVE  KeysInv'
<1> USE DEF KeysInv
<1>ui. ui \in Screens
  BY DEF Shape
<1>since. \A what \in {"lock", "switch"} : Since(what) \in {"password", "lock", "switch"}
  BY DEF Since
<1>1. ASSUME LockNow PROVE KeysInv'
  <2>1. ui' \in Screens /\ ui'.review = NoReview
    BY <1>1, <1>ui, <1>since, LockedType DEF LockNow, Screens
  <2>2. /\ signq' \in Seq(LaneJobs) /\ Grows /\ barred' = Asked
        /\ \E j \in Len(signq) + 1..Len(signq') : signq'[j].do = "lock"
    BY <1>1, HostLockType DEF LockNow, HostLock, Asked
  <2>3. /\ left' \in [Kinds -> Nat] /\ left'["review"] <= Budget["review"]
        /\ left'["review"] = left["review"]
    BY <1>1, SpendShape DEF LockNow, Kinds
  <2>4. lane' = lane /\ evq' = evq /\ signed' = signed /\ late' = late
    BY <1>1 DEF LockNow
  <2>5. Shape'
    BY <2>1, <2>2, <2>3, <2>4 DEF Shape
  <2>6. Quiet
    BY <2>1, <2>2, <2>3, <2>4, SameFewer DEF Quiet, Bars
  <2> QED BY <2>5, <2>6, QuietStep
<1>2. ASSUME EngineLock PROVE KeysInv'
  <2>2. /\ signq' \in Seq(LaneJobs) /\ Grows /\ barred' = Asked
        /\ \E j \in Len(signq) + 1..Len(signq') : signq'[j].do = "lock"
    BY <1>2, HostLockType DEF EngineLock, HostLock, Asked
  <2>3. /\ left' \in [Kinds -> Nat] /\ left'["review"] <= Budget["review"]
        /\ left'["review"] = left["review"]
    BY <1>2, SpendShape DEF EngineLock, Kinds
  <2>4. ui' = ui /\ lane' = lane /\ evq' = evq /\ signed' = signed /\ late' = late
    BY <1>2 DEF EngineLock
  <2>5. Shape'
    BY <2>2, <2>3, <2>4 DEF Shape
  <2>6. Quiet
    BY <2>2, <2>3, <2>4, SameFewer DEF Quiet, Bars
  <2> QED BY <2>5, <2>6, QuietStep
<1>3. ASSUME GiveUp \/ \E c \in Checks : BeginUnlock(c) PROVE KeysInv'
  <2>1. ui' \in Screens /\ ui'.review = ui.review
    BY <1>3, <1>ui DEF GiveUp, BeginUnlock, Screens
  <2>2. /\ left' \in [Kinds -> Nat] /\ left'["review"] <= Budget["review"]
        /\ left'["review"] = left["review"]
    BY <1>3, SpendShape DEF GiveUp, BeginUnlock, Kinds
  <2>3. /\ signq' = signq /\ lane' = lane /\ evq' = evq /\ signed' = signed /\ late' = late
        /\ barred' = barred
    BY <1>3 DEF GiveUp, BeginUnlock
  <2>4. Shape'
    BY <2>1, <2>2, <2>3 DEF Shape
  <2>5. Quiet
    BY <2>1, <2>2, <2>3, SameFewer, SameGrows DEF Quiet, Bars
  <2> QED BY <2>4, <2>5, QuietStep
<1>4. ASSUME NEW w \in Wallets, Switch(w) PROVE KeysInv'
  <2>1. ui' \in Screens /\ ui'.review = NoReview
    BY <1>4, <1>ui, <1>since, LockedType DEF Switch, Screens
  <2>2. Job("wallet", w) \in LaneJobs /\ Job("wallet", w).do = "wallet"
    BY DEF Job, LaneJobs, Jobs
  <2>3. signq' \in Seq(LaneJobs) /\ Grows
    BY <1>4, <2>2, OneGrows, AppendProperties DEF Switch, Shape
  <2>4. /\ left' \in [Kinds -> Nat] /\ left'["review"] <= Budget["review"]
        /\ left'["review"] = left["review"]
    BY <1>4, SpendShape DEF Switch, Kinds
  <2>5. lane' = lane /\ evq' = evq /\ signed' = signed /\ late' = late /\ barred' = barred
    BY <1>4 DEF Switch
  <2>6. Shape'
    BY <2>1, <2>3, <2>4, <2>5 DEF Shape
  <2>7. Quiet
    BY <2>1, <2>3, <2>4, <2>5, SameFewer DEF Quiet, Bars
  <2> QED BY <2>6, <2>7, QuietStep
<1>5. ASSUME Leave PROVE KeysInv'
  <2> DEFINE last  == <<Job("shutdown", NoReview)>>
             first == <<Job("lock", NoReview)>>
  <2>1. ui' \in Screens /\ ui'.review = NoReview
    BY <1>5, <1>ui, LockedType DEF Leave, Screens
  <2>2. /\ last \in Seq(LaneJobs) /\ Len(last) = 1 /\ last[1].do = "shutdown"
        /\ first \in Seq(LaneJobs) /\ Len(first) = 1 /\ first[1].do = "lock"
    BY DEF Job, LaneJobs, Jobs
  <2>3. signq' = (signq \o first) \o last \/ signq' = (signq \o <<>>) \o last
    BY <1>5 DEF Leave
  <2>4. /\ signq \in Seq(LaneJobs) /\ Len(signq) \in Nat /\ signq \o <<>> = signq
        /\ signq \o first \in Seq(LaneJobs) /\ Len(signq \o first) = Len(signq) + 1
        /\ \A k \in 1..Len(signq) : (signq \o first)[k] = signq[k]
        /\ (signq \o first)[Len(signq) + 1].do = "lock"
    BY <2>2, ConcatProperties, ConcatEmptySeq, LenProperties DEF Shape
  <2>5. /\ \A q \in {signq, signq \o first} :
             /\ q \o last \in Seq(LaneJobs) /\ Len(q \o last) = Len(q) + 1
             /\ \A k \in 1..Len(q) : (q \o last)[k] = q[k]
             /\ (q \o last)[Len(q) + 1].do = "shutdown"
    BY <2>2, <2>4, ConcatProperties
  <2> HIDE DEF last, first
  <2>6. signq' \in Seq(LaneJobs) /\ Grows
    <3>1. CASE signq' = (signq \o first) \o last
      <4>1. /\ signq' \in Seq(LaneJobs) /\ Len(signq') = Len(signq) + 2
            /\ \A k \in 1..Len(signq) + 1 : signq'[k] = (signq \o first)[k]
            /\ signq'[Len(signq) + 2].do = "shutdown"
        BY <2>4, <2>5, <3>1
      <4>2. \A k \in 1..Len(signq) : signq'[k] = signq[k]
        BY <2>4, <4>1
      <4>3. signq'[Len(signq) + 1].do = "lock"
        BY <2>4, <4>1
      <4> QED BY <2>4, <4>1, <4>2, <4>3 DEF Grows
    <3>2. CASE signq' = signq \o last
      BY <2>4, <2>5, <3>2 DEF Grows
    <3> QED BY <2>3, <2>4, <3>1, <3>2
  <2>7. /\ lane' = lane /\ evq' = evq /\ signed' = signed /\ late' = late /\ barred' = barred
        /\ left' = left
    BY <1>5 DEF Leave
  <2>8. Shape'
    BY <2>1, <2>6, <2>7 DEF Shape
  <2>9. Quiet
    BY <2>1, <2>6, <2>7, SameFewer DEF Quiet, Bars
  <2> QED BY <2>8, <2>9, QuietStep
<1> QED BY <1>1, <1>2, <1>3, <1>4, <1>5

\* An event heard that is not a review for an open screen.
LEMMA HeardStep ==
  ASSUME KeysInv, Hear, Head(evq).do # "review" \/ ui.locked PROVE KeysInv'
<1> USE DEF KeysInv
<1> DEFINE e == Head(evq)
<1>1. evq # <<>> /\ evq' = Tail(evq) /\ evq' \in Seq(Events) /\ e \in Events /\ e = evq[1]
      /\ 1 \in 1..Len(evq)
  BY Popped DEF Hear, Shape
<1>2. e.do = "review" => e.of \in Reviews
  BY <1>1, BudgetType DEF AskedInv, Asked, Reviews, Shape
<1>3. e.do \in {"unlocked", "failed", "refused", "locked", "review"}
  BY <1>1 DEF Events, Jobs
<1>4. ui \in Screens
  BY DEF Shape
<1>5. ui' = Shown(ui, e)
  BY DEF Hear
<1>6. signq' = signq \/ (e.do = "review" /\ signq' = Append(signq, Job("discard", e.of)))
  BY DEF Hear
<1>7. /\ lane' = lane /\ signed' = signed /\ late' = late /\ barred' = barred /\ left' = left
  BY DEF Hear
<1> HIDE DEF e
<1>8. ui' \in Screens /\ ui'.review \in {NoReview, ui.review}
  <2>1. CASE e.do = "unlocked"
    BY <1>4, <1>5, <2>1 DEF Shown, Screens
  <2>2. CASE e.do = "failed"
    BY <1>4, <1>5, <2>2 DEF Shown, Screens
  <2>3. [ui EXCEPT !.switch = FALSE] \in Screens /\ [ui EXCEPT !.switch = FALSE].review = ui.review
    BY <1>4 DEF Screens
  <2>4. CASE e.do = "refused"
    BY <1>5, <2>3, <2>4, LockedType DEF Shown
  <2>5. CASE e.do = "locked"
    BY <1>5, <2>3, <2>5, LockedType DEF Shown
  <2>6. CASE e.do = "review"
    BY <1>4, <1>5, <2>6 DEF Shown, e
  <2> QED BY <1>3, <2>1, <2>2, <2>4, <2>5, <2>6
<1>9. signq' \in Seq(LaneJobs) /\ Grows
  <2>1. CASE signq' = signq
    BY <2>1, SameGrows DEF Shape
  <2>2. CASE e.do = "review" /\ signq' = Append(signq, Job("discard", e.of))
    <3>1. Job("discard", e.of) \in LaneJobs /\ Job("discard", e.of).do = "discard"
      BY <1>2, <2>2 DEF Job, LaneJobs, Jobs
    <3> QED BY <2>2, <3>1, OneGrows, AppendProperties DEF Shape
  <2> QED BY <1>6, <2>1, <2>2
<1>10. Shape'
  BY <1>1, <1>7, <1>8, <1>9 DEF Shape
<1>11. Quiet
  BY <1>1, <1>7, <1>8, <1>9, HeardFewer DEF Quiet, Bars
<1> QED BY <1>10, <1>11, QuietStep

\* The password checks and the worker.
LEMMA EngineStep ==
  ASSUME KeysInv,
         \/ \E c \in Checks : \/ CheckPassword(c) \/ CheckShare(c) \/ CheckNote(c)
                             \/ CheckInstall(c) \/ CheckTell(c) \/ CheckSay(c)
         \/ WorkerLock \/ WorkerKeys \/ WorkerSwitch \/ WorkerEnd
         \/ (\E w \in Wallets : SideOpens(w) \/ SideCloses(w)) \/ SideEnds
  PROVE  KeysInv'
<1>1. \A what \in {"unlocked", "failed", "refused", "locked"} :
        Job(what, NoReview) \in Events /\ Job(what, NoReview).do = what
  BY DEF Job, Events, Jobs
<1>2. \E e \in Events : e.do # "review" /\ (evq' = Append(evq, e) \/ evq' = evq)
  BY <1>1 DEF CheckPassword, CheckShare, CheckNote, CheckInstall, CheckTell, CheckSay,
              WorkerLock, WorkerKeys, WorkerSwitch, WorkerEnd, SideOpens, SideCloses, SideEnds
<1>3. /\ ui' = ui /\ signq' = signq /\ lane' = lane /\ signed' = signed /\ barred' = barred
      /\ late' = late
  BY DEF CheckPassword, CheckShare, CheckNote, CheckInstall, CheckTell, CheckSay,
         WorkerLock, WorkerKeys, WorkerSwitch, WorkerEnd, SideOpens, SideCloses, SideEnds
<1>4. left' = left \/ Spend("wrong") \/ Spend("refuse")
  BY DEF CheckPassword, CheckShare, CheckNote, CheckInstall, CheckTell, CheckSay,
         WorkerLock, WorkerKeys, WorkerSwitch, WorkerEnd, SideOpens, SideCloses, SideEnds
<1>5. left' \in [Kinds -> Nat] /\ left'["review"] = left["review"]
  BY <1>4, SpendShape DEF Kinds, KeysInv, Shape
<1> QED BY <1>2, <1>3, <1>5, EventStep

\* The signing lane.
LEMMA LaneStep ==
  ASSUME KeysInv,
         LanePrepare \/ LaneDiscard \/ LaneCommit \/ LaneSign \/ LaneLock \/ LaneSwitch \/ LaneEnd
  PROVE  KeysInv'
<1> USE DEF KeysInv
<1>lane. lane \in [wallet : Wallets \cup {NoWallet}, reviews : SUBSET Reviews,
                  signing : {NoReview} \cup Reviews]
  BY DEF Shape
<1>head. ASSUME signq # <<>>
         PROVE  Head(signq) = signq[1] /\ signq[1] \in LaneJobs /\ Tail(signq) \in Seq(LaneJobs)
  BY <1>head, Popped DEF Shape
<1>1. ASSUME LaneSign PROVE KeysInv'
  <2>1. Shape'
    BY <1>1, <1>lane DEF LaneSign, Shape
  <2> QED BY <1>1, <2>1, SignedStep
<1>2. ASSUME LanePrepare, lane.wallet # NoWallet PROVE KeysInv'
  <2>1. signq # <<>> /\ signq' = Tail(signq) /\ Head(signq).do = "prepare"
    BY <1>2 DEF LanePrepare, LaneTaking
  <2>2. Head(signq).of \in Reviews
    BY <1>head, <2>1 DEF LaneJobs, Jobs
  <2>3. Job("review", Head(signq).of) \in Events
    BY <2>2 DEF Job, Events, Jobs
  <2>4. evq' \in Seq(Events)
    <3>1. evq' = Append(evq, Job("review", Head(signq).of)) /\ evq \in Seq(Events)
      BY <1>2 DEF LanePrepare, Shape
    <3> QED BY <2>3, <3>1, AppendProperties
  <2>5. Shape'
    BY <1>2, <1>lane, <1>head, <2>1, <2>2, <2>4 DEF LanePrepare, Shape
  <2> QED BY <1>2, <2>5, PreparedStep
<1>3. ASSUME Takes, lane' \in [wallet : Wallets \cup {NoWallet}, reviews : SUBSET Reviews,
                             signing : {NoReview} \cup Reviews], left' \in [Kinds -> Nat]
      PROVE  KeysInv'
  <2>1. Shape'
    BY <1>3, <1>head DEF Takes, Shape
  <2> QED BY <1>3, <2>1, TakeStep
<1>4. ASSUME LanePrepare, lane.wallet = NoWallet PROVE KeysInv'
  <2>1. Takes
    BY <1>4, <1>head DEF Takes, LanePrepare, LaneTaking
  <2> QED BY <1>3, <1>4, <1>lane, <2>1 DEF LanePrepare, Shape
<1>5. ASSUME LaneDiscard PROVE KeysInv'
  <2>1. lane' \in [wallet : Wallets \cup {NoWallet}, reviews : SUBSET Reviews,
                  signing : {NoReview} \cup Reviews]
        /\ lane'.reviews \subseteq lane.reviews /\ lane'.signing = lane.signing
    BY <1>5, <1>lane DEF LaneDiscard
  <2>2. Takes
    BY <1>5, <1>head, <2>1 DEF Takes, LaneDiscard, LaneTaking
  <2> QED BY <1>3, <1>5, <2>1, <2>2 DEF LaneDiscard, Shape
<1>6. ASSUME LaneCommit PROVE KeysInv'
  <2> DEFINE r == Head(signq).of
  <2>1. signq # <<>> /\ signq' = Tail(signq) /\ signq[1].do = "commit" /\ signq[1].of = r /\ r \in Reviews
    BY <1>6, <1>head DEF LaneCommit, LaneTaking, LaneJobs, Jobs
  <2>2. lane' = lane \/ (r \in lane.reviews /\ lane' = [lane EXCEPT !.reviews = @ \ {r}, !.signing = r])
    BY <1>6 DEF LaneCommit
  <2> HIDE DEF r
  <2>3. lane' \in [wallet : Wallets \cup {NoWallet}, reviews : SUBSET Reviews,
                  signing : {NoReview} \cup Reviews]
        /\ lane'.reviews \subseteq lane.reviews
        /\ (lane'.signing = lane.signing \/ (lane'.signing = r /\ r \in lane.reviews))
    <3>1. CASE lane' = lane
      BY <1>lane, <3>1
    <3>2. CASE r \in lane.reviews /\ lane' = [lane EXCEPT !.reviews = lane.reviews \ {r}, !.signing = r]
      BY <1>lane, <2>1, <3>2
    <3> QED BY <2>2, <3>1, <3>2
  <2>4. Takes
    BY <1>6, <2>1, <2>3 DEF Takes, LaneCommit
  <2> QED BY <1>3, <1>6, <2>3, <2>4 DEF LaneCommit, Shape
<1>7. ASSUME LaneLock PROVE KeysInv'
  <2>1. lane' \in [wallet : Wallets \cup {NoWallet}, reviews : SUBSET Reviews,
                  signing : {NoReview} \cup Reviews]
        /\ lane'.reviews = {} /\ lane'.signing = lane.signing
    BY <1>7, <1>lane DEF LaneLock
  <2>2. Takes
    BY <1>7, <1>head, <2>1 DEF Takes, LaneLock, LaneTaking
  <2> QED BY <1>3, <1>7, <2>1, <2>2 DEF LaneLock, Shape
<1>8. ASSUME LaneSwitch PROVE KeysInv'
  <2>1. signq # <<>> /\ Head(signq).do = "wallet" /\ signq' = Tail(signq)
    BY <1>8 DEF LaneSwitch, LaneTaking
  <2>2. Head(signq).of \in Wallets
    BY <1>head, <2>1 DEF LaneJobs, Jobs
  <2>3. lane' \in [wallet : Wallets \cup {NoWallet}, reviews : SUBSET Reviews,
                  signing : {NoReview} \cup Reviews]
        /\ lane'.reviews = {} /\ lane'.signing = NoReview
    BY <1>8, <2>2 DEF LaneSwitch
  <2>4. left' \in [Kinds -> Nat] /\ left'["review"] = left["review"]
    BY <1>8, SpendShape DEF LaneSwitch, Kinds, Shape
  <2>5. Takes
    BY <1>8, <2>1, <2>3, <2>4 DEF Takes, LaneSwitch
  <2> QED BY <1>3, <2>3, <2>4, <2>5
<1>9. ASSUME LaneEnd PROVE KeysInv'
  <2>1. lane' \in [wallet : Wallets \cup {NoWallet}, reviews : SUBSET Reviews,
                  signing : {NoReview} \cup Reviews]
        /\ lane'.reviews = {} /\ lane'.signing = NoReview
    BY <1>9 DEF LaneEnd
  <2>2. Takes
    BY <1>9, <1>head, <2>1 DEF Takes, LaneEnd, LaneTaking
  <2> QED BY <1>3, <1>9, <2>1, <2>2 DEF LaneEnd, Shape
<1> QED BY <1>1, <1>2, <1>4, <1>5, <1>6, <1>7, <1>8, <1>9

-----------------------------------------------------------------------------
(* Theorems. *)

\* The terminal as it attached has asked for nothing.
LEMMA KeysInit == CustodyInit => KeysInv
<1> SUFFICES ASSUME CustodyInit PROVE KeysInv
  OBVIOUS
<1>1. Len(signq) = 0 /\ Len(evq) = 0 /\ late = {} /\ barred = {} /\ signed = {}
      /\ ui.review = NoReview /\ lane.signing = NoReview /\ lane.reviews = {}
  BY DEF CustodyInit
<1>2. AskedInv
  BY <1>1 DEF AskedInv
<1>3. OnceInv /\ BehindInv /\ LateInv
  BY <1>1 DEF OnceInv, BehindInv, LateInv, Queued, Coming, Reviews, NoReview
<1> QED BY <1>2, <1>3, ShapeInit DEF KeysInv

\* The inductive invariant holds in every reachable state.
THEOREM KeysInvariance == CustodySpec => []KeysInv
<1>1. KeysInv /\ [CustodyNext]_cvars => KeysInv'
  <2> SUFFICES ASSUME KeysInv, [CustodyNext]_cvars PROVE KeysInv'
    OBVIOUS
  <2>1. CASE UNCHANGED cvars
    <3>1. Shape'
      BY <2>1 DEF cvars, KeysInv, Shape
    <3>2. Quiet
      BY <2>1, SameGrows, SameFewer DEF cvars, KeysInv, Quiet, Bars
    <3> QED BY <3>1, <3>2, QuietStep
  <2>2. CASE AskReview
    <3>1. left' \in [Kinds -> Nat] /\ left["review"] \in Nat /\ left["review"] > 0
          /\ left'["review"] = left["review"] - 1 /\ Budget["review"] \in Nat
          /\ left["review"] <= Budget["review"]
      BY <2>2, SpendType, BudgetType DEF AskReview, Spend, KeysInv, Shape
    <3>2. Budget["review"] - left["review"] + 1 \in Reviews
      BY <3>1 DEF Reviews
    <3>3. Job("prepare", Budget["review"] - left["review"] + 1) \in LaneJobs
      BY <3>2 DEF Job, LaneJobs, Jobs
    <3>4. signq' \in Seq(LaneJobs)
      BY <2>2, <3>3, AppendProperties DEF AskReview, KeysInv, Shape
    <3>5. Shape'
      BY <2>2, <3>1, <3>4 DEF AskReview, KeysInv, Shape
    <3> QED BY <2>2, <3>5, AskedStep
  <2>3. CASE Decide
    <3>1. ui.review \in Reviews /\ ui' \in Screens
      BY <2>3 DEF Decide, KeysInv, Shape, Screens
    <3>2. \A what \in {"commit", "discard"} : Job(what, ui.review) \in LaneJobs
      BY <3>1 DEF Job, LaneJobs, Jobs
    <3>3. signq' \in Seq(LaneJobs)
      BY <2>3, <3>2, AppendProperties DEF Decide, KeysInv, Shape
    <3>4. Shape'
      BY <2>3, <3>1, <3>3 DEF Decide, KeysInv, Shape
    <3> QED BY <2>3, <3>4, DecidedStep
  <2>4. CASE Hear
    <3>1. ASSUME Head(evq).do = "review", ~ui.locked PROVE KeysInv'
      <4>1. evq # <<>> /\ evq' = Tail(evq) /\ evq' \in Seq(Events) /\ Head(evq) = evq[1]
            /\ 1 \in 1..Len(evq)
        BY <2>4, Popped DEF Hear, KeysInv, Shape
      <4>2. Head(evq).of \in Reviews
        BY <3>1, <4>1, BudgetType DEF KeysInv, AskedInv, Asked, Reviews, Shape
      <4>3. ui' \in Screens
        BY <2>4, <3>1, <4>2 DEF Hear, Shown, KeysInv, Shape, Screens
      <4>4. Shape'
        BY <2>4, <3>1, <4>1, <4>3 DEF Hear, KeysInv, Shape
      <4> QED BY <2>4, <3>1, <4>4, ShownStep
    <3> QED BY <2>4, <3>1, HeardStep
  <2> HIDE DEF KeysInv
  <2> QED BY <2>1, <2>2, <2>3, <2>4, ScreenStep, EngineStep, LaneStep DEF CustodyNext
<1> QED BY <1>1, KeysInit, PTL DEF CustodySpec

\* Worker::send ("never after a lock"): whatever the screen has heard and however far behind the
\* threads are, an approval given after a lock signs no review from before it.
THEOREM LocksAreFinal == CustodySpec => []NothingSignedLate
<1>1. KeysInv => NothingSignedLate
  BY DEF KeysInv, LateInv, NothingSignedLate
<1> QED BY <1>1, KeysInvariance, PTL

-----------------------------------------------------------------------------
(* The keys. *)

WorkJobs == Jobs({"lock", "shutdown"}, {NoWallet}) \cup Jobs({"keys", "wallet"}, Wallets)
Sides    == [asked : SUBSET Wallets, open : SUBSET Wallets]
Threads  == [at : {"check", "share", "note", "install", "tell", "say"}, wallet : Wallets]

\* The rest of the state's shape.
HeldShape ==
  /\ host \in [wallet : Wallets, shared : SUBSET Wallets, here : BOOLEAN]
  /\ host.wallet = ui.wallet
  /\ check \in [Checks -> Threads \cup {Idle}]
  /\ slot \in [Wallets -> BOOLEAN] /\ worker \in Wallets \cup {NoWallet} /\ workq \in Seq(WorkJobs)
  /\ side \in Sides
  /\ left["refuse"] <= Budget["refuse"] /\ left["timeout"] <= Budget["timeout"]

\* A queue holds a job of these kinds; each job of a kind has one of these kinds behind it.
Has(q, kinds) == \E k \in 1..Len(q) : q[k].do \in kinds
Before(q, what, kinds) ==
  \A k \in 1..Len(q) : q[k].do = what => \E j \in k+1..Len(q) : q[j].do \in kinds

\* Through the queue a session comes to a wallet; comes to it and leaves it or locks it; ends there.
Leaving == {"lock", "wallet"}
Comes(q, w)  == \E k \in 1..Len(q) : q[k].do = "wallet" /\ q[k].of = w
Passes(q, w) == \E k \in 1..Len(q) : /\ q[k].do = "wallet" /\ q[k].of = w
                                     /\ \E j \in k+1..Len(q) : q[j].do \in Leaving
Ends(q, at, w) ==
  \/ at = w /\ ~Has(q, {"wallet"})
  \/ \E k \in 1..Len(q) : /\ q[k].do = "wallet" /\ q[k].of = w
                          /\ \A j \in k+1..Len(q) : q[j].do # "wallet"

\* What a password check says of the password; no event says it, or one does.
Verdicts      == {"unlocked", "failed"}
OneVerdict(q) == \A k, j \in 1..Len(q) : q[k].do \in Verdicts /\ q[j].do \in Verdicts => k = j

\* Keys are held by a session, and once the terminal left each session comes to its end.
AliveInv == \A w \in Wallets : slot[w] => w = worker \/ w = lane.wallet \/ w \in side.open
HereInv  == host.here => ~Has(workq, {"shutdown"})
GoneInv  == ~host.here =>
  /\ worker # NoWallet => Has(workq, {"shutdown"})
  /\ lane.wallet # NoWallet => Has(signq, {"shutdown"})
  /\ Before(workq, "wallet", {"shutdown"}) /\ Before(signq, "wallet", {"shutdown"})

\* After a lock each session that acts for the screen and may have keys, or comes to a wallet whose
\* keys another lane kept, has a lock before it, and neither a switch nor keys behind that one.
SinceInv == host.here /\ ui.since # "password" => ~Checking
LockInv  == host.here /\ ui.since = "lock" =>
  /\ \A w \in Wallets : slot[w] /\ w = worker => Has(workq, {"lock"})
  /\ \A w \in Wallets : slot[w] /\ w = lane.wallet /\ w # worker => Has(signq, {"lock"})
  /\ Before(workq, "wallet", {"lock"}) /\ Before(workq, "keys", {"lock"})
  /\ Before(signq, "wallet", {"lock"})

\* While no check outlives the screen's patience there is one at a time, for the wallet on screen,
\* and the keyboard waits until its verdict is heard.
OneInv == host.here /\ InTime =>
  /\ ~(ui.unlocking /\ ui.locked) \/ Checking => ~Has(evq, Verdicts)
  /\ Checking => ui.unlocking /\ ui.locked
  /\ OneVerdict(evq)
  /\ \A c \in Checks : check[c] # Idle => check[c].wallet = ui.wallet
  /\ \A c, d \in Checks : check[c] # Idle /\ check[d] # Idle => c = d

\* While every wallet opens as well, the worker follows the screen: wherever keys are it is or comes.
Follows == host.here /\ Opened /\ InTime
PathInv == Follows =>
  /\ Ends(workq, worker, host.wallet)
  /\ \A w \in Wallets : slot[w] /\ w # worker => Comes(workq, w)

\* After a switch it leaves them too.
SwitchInv == Follows /\ ui.since = "switch" =>
  /\ \A w \in Wallets : slot[w] /\ w = worker => Has(workq, Leaving)
  /\ \A w \in Wallets : slot[w] /\ w # worker => Passes(workq, w)
  /\ Before(workq, "keys", Leaving)

HeldInv == /\ HeldShape /\ AliveInv /\ HereInv /\ GoneInv /\ SinceInv /\ LockInv /\ OneInv
           /\ PathInv /\ SwitchInv

-----------------------------------------------------------------------------
(* Queues, again. *)

\* A job queued is behind all the others.
LEMMA QueuedBehind ==
  ASSUME NEW S, NEW q \in Seq(S), NEW e \in S, NEW q2, q2 = Append(q, e)
  PROVE  /\ q2 \in Seq(S)
         /\ \A kinds : Has(q2, kinds) <=> Has(q, kinds) \/ e.do \in kinds
         /\ \A what, kinds : Before(q, what, kinds) /\ e.do # what => Before(q2, what, kinds)
         /\ \A what, kinds : e.do \in kinds /\ e.do # what => Before(q2, what, kinds)
<1>1. /\ Len(q) \in Nat /\ q2 \in Seq(S) /\ Len(q2) = Len(q) + 1 /\ q2[Len(q) + 1] = e
      /\ \A k \in 1..Len(q) : q2[k] = q[k]
  BY AppendProperties, LenProperties
<1>2. \A kinds : Has(q2, kinds) <=> Has(q, kinds) \/ e.do \in kinds
  BY <1>1 DEF Has
<1>3. \A what, kinds : Before(q, what, kinds) /\ e.do # what => Before(q2, what, kinds)
  BY <1>1 DEF Before
<1>4. \A what, kinds : e.do \in kinds /\ e.do # what => Before(q2, what, kinds)
  BY <1>1 DEF Before
<1> QED BY <1>1, <1>2, <1>3, <1>4

\* The way of a session through a queue grows at its end.
LEMMA WayGrows ==
  ASSUME NEW S, NEW q \in Seq(S), NEW e \in S, NEW q2, q2 = Append(q, e)
  PROVE  /\ \A w : Comes(q, w) => Comes(q2, w)
         /\ \A w : Passes(q, w) => Passes(q2, w)
         /\ \A w : Comes(q, w) /\ e.do \in Leaving => Passes(q2, w)
         /\ \A at, w : Ends(q, at, w) /\ e.do # "wallet" => Ends(q2, at, w)
         /\ \A at : e.do = "wallet" => Ends(q2, at, e.of)
<1>1. /\ Len(q) \in Nat /\ q2 \in Seq(S) /\ Len(q2) = Len(q) + 1 /\ q2[Len(q) + 1] = e
      /\ \A k \in 1..Len(q) : q2[k] = q[k]
  BY AppendProperties, LenProperties
<1>2. \A w : Comes(q, w) => Comes(q2, w)
  BY <1>1 DEF Comes
<1>3. \A w : Passes(q, w) => Passes(q2, w)
  BY <1>1 DEF Passes
<1>4. \A w : Comes(q, w) /\ e.do \in Leaving => Passes(q2, w)
  BY <1>1 DEF Comes, Passes
<1>5. \A at, w : Ends(q, at, w) /\ e.do # "wallet" => Ends(q2, at, w)
  BY <1>1 DEF Ends, Has
<1>6. \A at : e.do = "wallet" => Ends(q2, at, e.of)
  BY <1>1 DEF Ends
<1> QED BY <1>2, <1>3, <1>4, <1>5, <1>6

\* A job taken was ahead of all the others.
LEMMA TakenAhead ==
  ASSUME NEW S, NEW q \in Seq(S), q # <<>>, NEW q2, q2 = Tail(q)
  PROVE  /\ q2 \in Seq(S) /\ Head(q) \in S
         /\ \A kinds : Has(q2, kinds) => Has(q, kinds)
         /\ \A kinds : Has(q, kinds) => Has(q2, kinds) \/ Head(q).do \in kinds
         /\ \A kinds : Head(q).do \in kinds => Has(q, kinds)
         /\ \A what, kinds : Before(q, what, kinds) => Before(q2, what, kinds)
         /\ \A what, kinds : Before(q, what, kinds) /\ Head(q).do = what => Has(q2, kinds)
<1>1. /\ Len(q) \in Nat /\ Len(q) >= 1 /\ q2 \in Seq(S) /\ Len(q2) = Len(q) - 1 /\ q[1] = Head(q)
      /\ Head(q) \in S /\ \A k \in 1..Len(q) - 1 : q2[k] = q[k + 1]
  BY Popped
<1>2. \A k \in 2..Len(q) : k - 1 \in 1..Len(q2) /\ q2[k - 1] = q[k]
  BY <1>1
<1>3. \A kinds : Has(q2, kinds) => Has(q, kinds)
  BY <1>1 DEF Has
<1>4. \A kinds : Has(q, kinds) => Has(q2, kinds) \/ Head(q).do \in kinds
  <2> SUFFICES ASSUME NEW kinds, NEW k \in 1..Len(q), q[k].do \in kinds, Head(q).do \notin kinds
               PROVE  Has(q2, kinds)
    BY DEF Has
  <2>1. k \in 2..Len(q)
    BY <1>1
  <2> QED BY <1>2, <2>1 DEF Has
<1>5. \A kinds : Head(q).do \in kinds => Has(q, kinds)
  BY <1>1 DEF Has
<1>6. \A what, kinds : \A k \in 1..Len(q) : Before(q, what, kinds) /\ q[k].do = what =>
        \E j \in k..Len(q2) : q2[j].do \in kinds
  <2> SUFFICES ASSUME NEW what, NEW kinds, NEW k \in 1..Len(q), Before(q, what, kinds), q[k].do = what
               PROVE  \E j \in k..Len(q2) : q2[j].do \in kinds
    OBVIOUS
  <2>1. PICK j \in k+1..Len(q) : q[j].do \in kinds
    BY DEF Before
  <2>2. j \in 2..Len(q) /\ j - 1 \in k..Len(q2)
    BY <1>1, <2>1
  <2> QED BY <1>2, <2>1, <2>2
<1>7. \A what, kinds : Before(q, what, kinds) => Before(q2, what, kinds)
  <2> SUFFICES ASSUME NEW what, NEW kinds, Before(q, what, kinds), NEW k \in 1..Len(q2), q2[k].do = what
               PROVE  \E j \in k+1..Len(q2) : q2[j].do \in kinds
    BY DEF Before
  <2>1. k + 1 \in 1..Len(q) /\ q[k + 1].do = what
    BY <1>1
  <2> QED BY <1>6, <2>1
<1>8. \A what, kinds : Before(q, what, kinds) /\ Head(q).do = what => Has(q2, kinds)
  <2>1. 1 \in 1..Len(q)
    BY <1>1
  <2> QED BY <1>1, <1>6, <2>1 DEF Has
<1> QED BY <1>1, <1>3, <1>4, <1>5, <1>7, <1>8

\* A session that takes a job keeps the way it had before it, or is where the job took it.
LEMMA WayShrinks ==
  ASSUME NEW S, NEW q \in Seq(S), q # <<>>, NEW q2, q2 = Tail(q), NEW e, e = Head(q)
  PROVE  /\ \A w : Comes(q, w) /\ ~(e.do = "wallet" /\ e.of = w) => Comes(q2, w)
         /\ \A w : Passes(q, w) /\ ~(e.do = "wallet" /\ e.of = w) => Passes(q2, w)
         /\ \A w : Passes(q, w) => Has(q2, Leaving)
         /\ \A at, w : Ends(q, at, w) /\ e.do # "wallet" => Ends(q2, at, w)
         /\ \A at, w : Ends(q, at, w) /\ e.do = "wallet" => Ends(q2, e.of, w)
<1>1. /\ Len(q) \in Nat /\ Len(q) >= 1 /\ Len(q2) = Len(q) - 1 /\ q[1] = e
      /\ \A k \in 1..Len(q) - 1 : q2[k] = q[k + 1]
  BY Popped
<1>2. \A k \in 2..Len(q) : k - 1 \in 1..Len(q2) /\ q2[k - 1] = q[k]
  BY <1>1
<1>3. \A w : Comes(q, w) /\ ~(e.do = "wallet" /\ e.of = w) => Comes(q2, w)
  <2> SUFFICES ASSUME NEW w, ~(e.do = "wallet" /\ e.of = w),
                      NEW k \in 1..Len(q), q[k].do = "wallet", q[k].of = w
               PROVE  Comes(q2, w)
    BY DEF Comes
  <2>1. k \in 2..Len(q)
    BY <1>1
  <2> QED BY <1>2, <2>1 DEF Comes
<1>4. ASSUME NEW w, Passes(q, w), ~(e.do = "wallet" /\ e.of = w) PROVE Passes(q2, w)
  <2>1. PICK k \in 1..Len(q), j \in 2..Len(q) :
          q[k].do = "wallet" /\ q[k].of = w /\ j > k /\ q[j].do \in Leaving
    BY <1>1, <1>4 DEF Passes
  <2>2. k \in 2..Len(q)
    BY <1>1, <1>4, <2>1
  <2>3. /\ k - 1 \in 1..Len(q2) /\ q2[k - 1] = q[k] /\ q2[j - 1] = q[j]
        /\ j - 1 \in (k - 1)+1..Len(q2)
    BY <1>1, <1>2, <2>1, <2>2
  <2> QED BY <2>1, <2>3 DEF Passes
<1>5. ASSUME NEW w, Passes(q, w) PROVE Has(q2, Leaving)
  <2>1. PICK j \in 2..Len(q) : q[j].do \in Leaving
    BY <1>1, <1>5 DEF Passes
  <2> QED BY <1>2, <2>1 DEF Has
<1>6. ASSUME NEW at, NEW w, Ends(q, at, w) PROVE Ends(q2, IF e.do = "wallet" THEN e.of ELSE at, w)
  <2>1. CASE at = w /\ ~Has(q, {"wallet"})
    <3>1. e.do # "wallet" /\ ~Has(q2, {"wallet"})
      BY <1>1, <2>1 DEF Has
    <3> QED BY <2>1, <3>1 DEF Ends
  <2>2. ASSUME NEW k \in 1..Len(q), q[k].do = "wallet", q[k].of = w,
               \A j \in k+1..Len(q) : q[j].do # "wallet"
        PROVE  Ends(q2, IF e.do = "wallet" THEN e.of ELSE at, w)
    <3>1. CASE k = 1
      <4>1. e.do = "wallet" /\ e.of = w
        BY <1>1, <2>2, <3>1
      <4>2. ~Has(q2, {"wallet"})
        BY <1>1, <2>2, <3>1 DEF Has
      <4> QED BY <4>1, <4>2 DEF Ends
    <3>2. CASE k # 1
      <4>1. /\ k - 1 \in 1..Len(q2) /\ q2[k - 1] = q[k]
            /\ \A j \in (k - 1)+1..Len(q2) : q2[j] = q[j + 1] /\ j + 1 \in k+1..Len(q)
        BY <1>1, <1>2, <3>2
      <4>2. \A j \in (k - 1)+1..Len(q2) : q2[j].do # "wallet"
        BY <2>2, <4>1
      <4> QED BY <2>2, <4>1, <4>2 DEF Ends
    <3> QED BY <3>1, <3>2
  <2> QED BY <1>6, <2>1, <2>2 DEF Ends
<1> QED BY <1>3, <1>4, <1>5, <1>6

\* One verdict comes at a time.
LEMMA VerdictQueued ==
  ASSUME NEW S, NEW q \in Seq(S), NEW e \in S, NEW q2, q2 = Append(q, e), OneVerdict(q),
         ~Has(q, Verdicts) \/ e.do \notin Verdicts
  PROVE  OneVerdict(q2)
<1>1. /\ Len(q) \in Nat /\ Len(q2) = Len(q) + 1 /\ q2[Len(q) + 1] = e
      /\ \A k \in 1..Len(q) : q2[k] = q[k]
  BY AppendProperties, LenProperties
<1> SUFFICES ASSUME NEW k \in 1..Len(q2), NEW j \in 1..Len(q2), q2[k].do \in Verdicts,
                    q2[j].do \in Verdicts
             PROVE  k = j
  BY DEF OneVerdict
<1>2. (k \in 1..Len(q) \/ k = Len(q) + 1) /\ (j \in 1..Len(q) \/ j = Len(q) + 1)
  BY <1>1
<1>3. CASE e.do \notin Verdicts
  <2>1. k \in 1..Len(q) /\ j \in 1..Len(q)
    BY <1>1, <1>2, <1>3
  <2> QED BY <1>1, <2>1 DEF OneVerdict
<1>4. CASE ~Has(q, Verdicts)
  <2>1. k \notin 1..Len(q) /\ j \notin 1..Len(q)
    BY <1>1, <1>4 DEF Has
  <2> QED BY <1>2, <2>1
<1> QED BY <1>3, <1>4

\* A verdict heard was the only one.
LEMMA VerdictHeard ==
  ASSUME NEW S, NEW q \in Seq(S), q # <<>>, NEW q2, q2 = Tail(q), OneVerdict(q)
  PROVE  OneVerdict(q2) /\ (Head(q).do \in Verdicts => ~Has(q2, Verdicts))
<1>1. /\ Len(q) \in Nat /\ Len(q) >= 1 /\ Len(q2) = Len(q) - 1 /\ q[1] = Head(q)
      /\ \A k \in 1..Len(q) - 1 : q2[k] = q[k + 1]
  BY Popped
<1>2. \A k \in 1..Len(q2) : k + 1 \in 1..Len(q) /\ q2[k] = q[k + 1]
  BY <1>1
<1>3. OneVerdict(q2)
  <2> SUFFICES ASSUME NEW k \in 1..Len(q2), NEW j \in 1..Len(q2), q2[k].do \in Verdicts,
                      q2[j].do \in Verdicts
               PROVE  k = j
    BY DEF OneVerdict
  <2>1. k + 1 = j + 1
    BY <1>2 DEF OneVerdict
  <2> QED BY <1>1, <2>1
<1>4. ASSUME Head(q).do \in Verdicts, NEW k \in 1..Len(q2) PROVE q2[k].do \notin Verdicts
  <2>1. 1 \in 1..Len(q) /\ k + 1 # 1
    BY <1>1
  <2> QED BY <1>1, <1>2, <1>4, <2>1 DEF OneVerdict
<1> QED BY <1>3, <1>4 DEF Has
-----------------------------------------------------------------------------
(* Steps of the lane and of the worker. *)

\* Refusals and answers that came too late are counted, each on its own.
LEMMA PatienceStep ==
  ASSUME Shape, HeldShape, left' = left \/ \E kind \in Kinds : Spend(kind)
  PROVE  /\ left' \in [Kinds -> Nat] /\ left'["refuse"] <= Budget["refuse"]
         /\ left'["timeout"] <= Budget["timeout"]
         /\ (Opened' => Opened) /\ (InTime' => InTime)
<1>1. /\ left \in [Kinds -> Nat] /\ Budget \in [Kinds -> Nat] /\ {"refuse", "timeout"} \subseteq Kinds
      /\ left["refuse"] <= Budget["refuse"] /\ left["timeout"] <= Budget["timeout"]
  BY CustodyBounds DEF Shape, HeldShape, Kinds
<1>2. CASE left' = left
  BY <1>1, <1>2 DEF Opened, InTime
<1>3. ASSUME NEW kind \in Kinds, Spend(kind)
      PROVE  /\ left' \in [Kinds -> Nat] /\ left'["refuse"] <= Budget["refuse"]
             /\ left'["timeout"] <= Budget["timeout"]
             /\ (Opened' => Opened) /\ (InTime' => InTime)
  <2>1. left[kind] \in Nat /\ left[kind] > 0 /\ left' = [left EXCEPT ![kind] = left[kind] - 1]
    BY <1>1, <1>3 DEF Spend
  <2>2. left' \in [Kinds -> Nat]
    BY <1>1, <2>1
  <2>3. \A k \in Kinds : left'[k] = IF k = kind THEN left[k] - 1 ELSE left[k]
    BY <1>1, <2>1
  <2>4. /\ left["refuse"] \in Nat /\ left["timeout"] \in Nat /\ Budget["refuse"] \in Nat
        /\ Budget["timeout"] \in Nat
    BY <1>1
  <2>5. left'["refuse"] \in {left["refuse"], left["refuse"] - 1}
        /\ left'["timeout"] \in {left["timeout"], left["timeout"] - 1}
    BY <1>1, <2>3
  <2> QED BY <1>1, <2>2, <2>4, <2>5 DEF Opened, InTime
<1> QED BY <1>2, <1>3

\* What was refused or came too late stays so.
LEMMA SpentStep ==
  ASSUME Shape, HeldShape
  PROVE  (Spend("refuse") => ~Opened') /\ (Spend("timeout") => ~InTime')
<1>1. /\ left \in [Kinds -> Nat] /\ Budget \in [Kinds -> Nat] /\ {"refuse", "timeout"} \subseteq Kinds
      /\ left["refuse"] <= Budget["refuse"] /\ left["timeout"] <= Budget["timeout"]
  BY CustodyBounds DEF Shape, HeldShape, Kinds
<1>2. \A kind \in Kinds : Spend(kind) => left'[kind] = left[kind] - 1
  BY <1>1 DEF Spend
<1>3. /\ left["refuse"] \in Nat /\ left["timeout"] \in Nat /\ Budget["refuse"] \in Nat
      /\ Budget["timeout"] \in Nat
  BY <1>1
<1> QED BY <1>1, <1>2, <1>3 DEF Opened, InTime

\* An event that is not a verdict brings none.
FewerVerdicts ==
  /\ Has(evq', Verdicts) => Has(evq, Verdicts)
  /\ OneVerdict(evq) => OneVerdict(evq')
LEMMA NoVerdict ==
  ASSUME Shape, evq' = evq \/ \E e \in Events : e.do \notin Verdicts /\ evq' = Append(evq, e)
  PROVE  FewerVerdicts
<1>1. evq \in Seq(Events)
  BY DEF Shape
<1>2. ASSUME NEW e \in Events, e.do \notin Verdicts, evq' = Append(evq, e) PROVE FewerVerdicts
  <2>1. Has(evq', Verdicts) => Has(evq, Verdicts)
    BY <1>1, <1>2, QueuedBehind
  <2>2. OneVerdict(evq) => OneVerdict(evq')
    BY <1>1, <1>2, VerdictQueued
  <2> QED BY <2>1, <2>2 DEF FewerVerdicts
<1> QED BY <1>2 DEF FewerVerdicts

\* The engine's own steps leave the checks alone, and the screen but for the review it shows.
SameScreen ==
  /\ ui'.wallet = ui.wallet /\ ui'.since = ui.since
  /\ ui'.locked = ui.locked /\ ui'.unlocking = ui.unlocking
LEMMA OneKept ==
  ASSUME HeldInv, FewerVerdicts, SameScreen, UNCHANGED <<host, check>>, InTime' => InTime
  PROVE  OneInv' /\ SinceInv'
<1>1. Checking' = Checking
  BY DEF Checking
<1> QED BY <1>1 DEF HeldInv, OneInv, SinceInv, FewerVerdicts, SameScreen

\* What the lane does and what it is sent: keys only go, and with its lock or its wallet.
LEMMA LaneMove ==
  ASSUME HeldInv, FewerVerdicts, SameScreen, UNCHANGED <<host, check, worker, side, workq>>,
         left'["refuse"] <= Budget["refuse"], left'["timeout"] <= Budget["timeout"],
         Opened' => Opened, InTime' => InTime,
         slot' \in [Wallets -> BOOLEAN],
         \A w \in Wallets : slot'[w] => slot[w] /\ (w = worker \/ w = lane'.wallet \/ w \in side.open),
         \A kinds : Before(signq, "wallet", kinds) => Before(signq', "wallet", kinds),
         \/ lane'.wallet = NoWallet
         \/ /\ lane'.wallet = lane.wallet /\ (Has(signq, {"shutdown"}) => Has(signq', {"shutdown"}))
            /\ \A w \in Wallets : slot'[w] /\ w = lane.wallet /\ Has(signq, {"lock"}) => Has(signq', {"lock"})
         \/ \A kinds : Before(signq, "wallet", kinds) => Has(signq', kinds)
  PROVE  HeldInv'
<1>1. HeldShape'
  BY DEF HeldInv, HeldShape, SameScreen
<1>2. AliveInv' /\ HereInv'
  BY DEF HeldInv, AliveInv, HereInv
<1>3. GoneInv'
  BY DEF HeldInv, GoneInv
<1>4. LockInv'
  <2> SUFFICES ASSUME host.here, ui.since = "lock"
               PROVE  LockInv'
    BY DEF LockInv, SameScreen
  <2>1. \A w \in Wallets : slot'[w] /\ w = worker => Has(workq, {"lock"})
    BY DEF HeldInv, LockInv
  <2>2. \A w \in Wallets : slot'[w] /\ w = lane'.wallet /\ w # worker => Has(signq', {"lock"})
    BY CustodyBounds DEF HeldInv, LockInv
  <2>3. Before(signq', "wallet", {"lock"})
    BY DEF HeldInv, LockInv
  <2> QED BY <2>1, <2>2, <2>3 DEF HeldInv, LockInv
<1>5. PathInv'
  BY DEF HeldInv, PathInv, Follows
<1>6. SwitchInv'
  BY DEF HeldInv, SwitchInv, Follows, SameScreen
<1> QED BY <1>1, <1>2, <1>3, <1>4, <1>5, <1>6, OneKept DEF HeldInv

\* Every step of the lane, and what the screen sends to it alone.
LEMMA LaneHeld ==
  ASSUME KeysInv, HeldInv,
         \/ LanePrepare \/ LaneDiscard \/ LaneCommit \/ LaneSign \/ LaneLock \/ LaneSwitch \/ LaneEnd
  PROVE  HeldInv'
<1>t. /\ Shape /\ HeldShape /\ AliveInv /\ signq \in Seq(LaneJobs) /\ evq \in Seq(Events)
      /\ slot \in [Wallets -> BOOLEAN] /\ NoWallet \notin Wallets
      /\ lane \in [wallet : Wallets \cup {NoWallet}, reviews : SUBSET Reviews,
                   signing : {NoReview} \cup Reviews]
  BY CustodyBounds DEF KeysInv, Shape, HeldInv, HeldShape
<1>f. UNCHANGED <<host, ui, check, worker, side, workq>>
  BY DEF LanePrepare, LaneDiscard, LaneCommit, LaneSign, LaneLock, LaneSwitch, LaneEnd
<1>l. left' = left \/ \E kind \in Kinds : Spend(kind)
  BY DEF LanePrepare, LaneDiscard, LaneCommit, LaneSign, LaneLock, LaneSwitch, LaneEnd, Kinds
<1>p. /\ left'["refuse"] <= Budget["refuse"] /\ left'["timeout"] <= Budget["timeout"]
      /\ (Opened' => Opened) /\ (InTime' => InTime)
  BY <1>l, <1>t, PatienceStep
<1>q. ASSUME signq # <<>>, signq' = Tail(signq)
      PROVE  /\ Head(signq) \in LaneJobs
             /\ \A kinds : Has(signq, kinds) => Has(signq', kinds) \/ Head(signq).do \in kinds
             /\ \A what, kinds : Before(signq, what, kinds) => Before(signq', what, kinds)
             /\ \A what, kinds : Before(signq, what, kinds) /\ Head(signq).do = what => Has(signq', kinds)
  BY <1>q, <1>t, TakenAhead
<1>1. ASSUME LanePrepare \/ LaneDiscard \/ LaneCommit \/ LaneSign PROVE HeldInv'
  <2>1. slot' = slot /\ lane'.wallet = lane.wallet
    BY <1>1, <1>t DEF LanePrepare, LaneDiscard, LaneCommit, LaneSign
  <2>2. FewerVerdicts
    <3>1. \A r \in Reviews : Job("review", r) \in Events /\ Job("review", r).do \notin Verdicts
      BY DEF Job, Events, Jobs, Verdicts
    <3>2. CASE LanePrepare
      <4>1. signq # <<>> /\ Head(signq).do = "prepare" /\ signq' = Tail(signq)
        BY <3>2 DEF LanePrepare, LaneTaking
      <4>2. Head(signq).of \in Reviews
        BY <4>1, <1>q DEF LaneJobs, Jobs
      <4> QED BY <3>1, <3>2, <4>2, <1>t, NoVerdict DEF LanePrepare
    <3>3. CASE LaneDiscard \/ LaneCommit \/ LaneSign
      BY <3>3, <1>t, NoVerdict DEF LaneDiscard, LaneCommit, LaneSign
    <3> QED BY <1>1, <3>2, <3>3
  <2>3. /\ \A kinds : kinds \in {{"lock"}, {"shutdown"}} => (Has(signq, kinds) => Has(signq', kinds))
        /\ \A kinds : Before(signq, "wallet", kinds) => Before(signq', "wallet", kinds)
    <3>1. CASE LaneSign
      BY <3>1 DEF LaneSign
    <3>2. CASE LanePrepare \/ LaneDiscard \/ LaneCommit
      <4>1. /\ signq # <<>> /\ Head(signq).do \in {"prepare", "discard", "commit"}
            /\ signq' = Tail(signq)
        BY <3>2 DEF LanePrepare, LaneDiscard, LaneCommit, LaneTaking
      <4> QED BY <4>1, <1>q
    <3> QED BY <1>1, <3>1, <3>2
  <2> QED BY <2>1, <2>2, <2>3, <1>t, <1>f, <1>p, LaneMove DEF AliveInv, SameScreen
<1>2. ASSUME LaneLock PROVE HeldInv'
  <2>1. signq # <<>> /\ signq' = Tail(signq) /\ slot' = Cleared(slot, lane.wallet)
        /\ Head(signq).do = "lock" /\ lane'.wallet = lane.wallet /\ evq' = evq
    BY <1>2, <1>t DEF LaneLock, LaneTaking
  <2>2. /\ slot' \in [Wallets -> BOOLEAN]
        /\ \A w \in Wallets : slot'[w] => slot[w] /\ w # lane.wallet
    BY <2>1, <1>t DEF Cleared
  <2>3. FewerVerdicts
    BY <2>1, <1>t, NoVerdict
  <2>4. Has(signq, {"shutdown"}) => Has(signq', {"shutdown"})
    BY <2>1, <1>q
  <2> QED BY <2>1, <2>2, <2>3, <2>4, <1>t, <1>f, <1>p, <1>q, LaneMove DEF AliveInv, SameScreen
<1>3. ASSUME LaneSwitch PROVE HeldInv'
  <2>1. signq # <<>> /\ signq' = Tail(signq) /\ Head(signq).do = "wallet" /\ evq' = evq
        /\ slot' = Alive(slot, {worker, lane'.wallet} \cup side.open)
    BY <1>3 DEF LaneSwitch, LaneTaking
  <2>2. /\ slot' \in [Wallets -> BOOLEAN]
        /\ \A w \in Wallets : slot'[w] => slot[w] /\ (w = worker \/ w = lane'.wallet \/ w \in side.open)
    BY <2>1, <1>t DEF Alive
  <2>3. FewerVerdicts
    BY <2>1, <1>t, NoVerdict
  <2>4. \A kinds : /\ Before(signq, "wallet", kinds) => Has(signq', kinds)
                   /\ Before(signq, "wallet", kinds) => Before(signq', "wallet", kinds)
    BY <2>1, <1>q
  <2> QED BY <2>1, <2>2, <2>3, <2>4, <1>t, <1>f, <1>p, LaneMove DEF SameScreen
<1>4. ASSUME LaneEnd PROVE HeldInv'
  <2>1. signq # <<>> /\ signq' = Tail(signq) /\ Head(signq).do = "shutdown" /\ evq' = evq
        /\ slot' = Alive(Cleared(slot, lane.wallet), {worker} \cup side.open) /\ lane'.wallet = NoWallet
    BY <1>4 DEF LaneEnd, LaneTaking
  <2>2. /\ slot' \in [Wallets -> BOOLEAN]
        /\ \A w \in Wallets : slot'[w] => slot[w] /\ (w = worker \/ w \in side.open)
    BY <2>1, <1>t DEF Alive, Cleared
  <2>3. FewerVerdicts
    BY <2>1, <1>t, NoVerdict
  <2> QED BY <2>1, <2>2, <2>3, <1>t, <1>f, <1>p, <1>q, LaneMove DEF SameScreen
<1> QED BY <1>1, <1>2, <1>3, <1>4

\* The worker's steps.
LEMMA WorkerHeld ==
  ASSUME KeysInv, HeldInv, WorkerLock \/ WorkerKeys \/ WorkerSwitch \/ WorkerEnd
  PROVE  HeldInv'
<1> DEFINE e == Head(workq)
<1>t. /\ Shape /\ HeldShape /\ AliveInv /\ workq \in Seq(WorkJobs) /\ evq \in Seq(Events)
      /\ slot \in [Wallets -> BOOLEAN] /\ NoWallet \notin Wallets
      /\ worker \in Wallets \cup {NoWallet}
  BY CustodyBounds DEF KeysInv, Shape, HeldInv, HeldShape
<1>f. UNCHANGED <<host, ui, check, lane, side, signq>>
  BY DEF WorkerLock, WorkerKeys, WorkerSwitch, WorkerEnd
<1>l. left' = left \/ \E kind \in Kinds : Spend(kind)
  BY DEF WorkerLock, WorkerKeys, WorkerSwitch, WorkerEnd, Kinds
<1>p. /\ left'["refuse"] <= Budget["refuse"] /\ left'["timeout"] <= Budget["timeout"]
      /\ (Opened' => Opened) /\ (InTime' => InTime)
  BY <1>l, <1>t, PatienceStep
<1>w. workq # <<>> /\ workq' = Tail(workq)
  BY DEF WorkerLock, WorkerKeys, WorkerSwitch, WorkerEnd, Taking
<1>q. /\ workq' \in Seq(WorkJobs) /\ e \in WorkJobs
      /\ \A kinds : Has(workq', kinds) => Has(workq, kinds)
      /\ \A kinds : Has(workq, kinds) => Has(workq', kinds) \/ e.do \in kinds
      /\ \A kinds : e.do \in kinds => Has(workq, kinds)
      /\ \A what, kinds : Before(workq, what, kinds) => Before(workq', what, kinds)
      /\ \A what, kinds : Before(workq, what, kinds) /\ e.do = what => Has(workq', kinds)
  BY <1>t, <1>w, TakenAhead
<1>way. /\ \A w : Comes(workq, w) /\ ~(e.do = "wallet" /\ e.of = w) => Comes(workq', w)
        /\ \A w : Passes(workq, w) /\ ~(e.do = "wallet" /\ e.of = w) => Passes(workq', w)
        /\ \A w : Passes(workq, w) => Has(workq', Leaving)
        /\ \A at, w : Ends(workq, at, w) /\ e.do # "wallet" => Ends(workq', at, w)
        /\ \A at, w : Ends(workq, at, w) /\ e.do = "wallet" => Ends(workq', e.of, w)
  BY <1>t, <1>w, WayShrinks
<1>v. FewerVerdicts
  <2>1. \A what \in {"locked", "refused"} :
          Job(what, NoReview) \in Events /\ Job(what, NoReview).do \notin Verdicts
    BY DEF Job, Events, Jobs, Verdicts
  <2>2. evq' = evq \/ \E ev \in Events : ev.do \notin Verdicts /\ evq' = Append(evq, ev)
    BY <2>1 DEF WorkerLock, WorkerKeys, WorkerSwitch, WorkerEnd
  <2> QED BY <2>2, <1>t, NoVerdict
<1>s. OneInv' /\ SinceInv'
  BY <1>f, <1>p, <1>v, OneKept DEF SameScreen
<1>h. HereInv'
  BY <1>f, <1>q DEF HeldInv, HereInv
<1> HIDE DEF e
<1>1. ASSUME WorkerLock PROVE HeldInv'
  <2>1. /\ e.do = "lock" /\ worker' = worker /\ slot' = Cleared(slot, worker)
    BY <1>1 DEF WorkerLock, Taking, e
  <2>2. /\ slot' \in [Wallets -> BOOLEAN] /\ \A w \in Wallets : slot'[w] => slot[w] /\ w # worker
    BY <2>1, <1>t DEF Cleared
  <2>3. HeldShape' /\ AliveInv'
    BY <2>1, <2>2, <1>f, <1>p, <1>q, <1>t DEF HeldShape, AliveInv
  <2>4. GoneInv'
    BY <2>1, <1>f, <1>q DEF HeldInv, GoneInv
  <2>5. LockInv'
    BY <2>1, <2>2, <1>f, <1>q DEF HeldInv, LockInv
  <2>6. PathInv'
    BY <2>1, <2>2, <1>f, <1>p, <1>way DEF HeldInv, PathInv, Follows
  <2>7. SwitchInv'
    BY <2>1, <2>2, <1>f, <1>p, <1>q, <1>way DEF HeldInv, SwitchInv, Follows
  <2> QED BY <2>3, <2>4, <2>5, <2>6, <2>7, <1>s, <1>h DEF HeldInv
<1>2. ASSUME WorkerKeys PROVE HeldInv'
  <2>1. e.do = "keys" /\ worker' = worker /\ e.of \in Wallets
    BY <1>2, <1>q DEF WorkerKeys, Taking, e, WorkJobs, Jobs
  <2>2. slot' = [slot EXCEPT ![worker] = TRUE] \/ slot' = slot
    BY <1>2 DEF WorkerKeys
  <2>3. /\ slot' \in [Wallets -> BOOLEAN] /\ \A w \in Wallets : slot'[w] /\ w # worker => slot[w]
    BY <2>2, <1>t
  <2>4. HeldShape' /\ AliveInv'
    BY <2>1, <2>3, <1>f, <1>p, <1>q, <1>t DEF HeldShape, AliveInv
  <2>5. GoneInv'
    BY <2>1, <1>f, <1>q DEF HeldInv, GoneInv
  <2>6. LockInv'
    BY <2>1, <2>3, <1>f, <1>q DEF HeldInv, LockInv
  <2>7. PathInv'
    BY <2>1, <2>3, <1>f, <1>p, <1>way DEF HeldInv, PathInv, Follows
  <2>8. SwitchInv'
    BY <2>1, <2>3, <1>f, <1>p, <1>q, <1>way DEF HeldInv, SwitchInv, Follows
  <2> QED BY <2>4, <2>5, <2>6, <2>7, <2>8, <1>s, <1>h DEF HeldInv
<1>3. ASSUME e.do = "wallet", worker' = e.of, slot' = Alive(Cleared(slot, worker), {worker', lane.wallet} \cup side.open)
      PROVE  HeldInv'
  <2>1. worker' \in Wallets
    BY <1>3, <1>q DEF WorkJobs, Jobs
  <2>2. /\ slot' \in [Wallets -> BOOLEAN]
        /\ \A w \in Wallets : slot'[w] => slot[w] /\ w # worker
        /\ \A w \in Wallets : slot'[w] => w = worker' \/ w = lane.wallet \/ w \in side.open
    BY <1>3, <1>t DEF Alive, Cleared
  <2>3. HeldShape' /\ AliveInv'
    BY <2>1, <2>2, <1>f, <1>p, <1>q, <1>t DEF HeldShape, AliveInv
  <2>4. GoneInv'
    BY <1>3, <1>f, <1>q DEF HeldInv, GoneInv
  <2>5. LockInv'
    BY <1>3, <2>2, <1>f, <1>q DEF HeldInv, LockInv
  <2>6. PathInv'
    BY <1>3, <2>2, <1>f, <1>p, <1>way DEF HeldInv, PathInv, Follows
  <2>7. SwitchInv'
    BY <1>3, <2>2, <1>f, <1>p, <1>q, <1>way DEF HeldInv, SwitchInv, Follows
  <2> QED BY <2>3, <2>4, <2>5, <2>6, <2>7, <1>s, <1>h DEF HeldInv
<1>4. ASSUME e.do = "wallet", Spend("refuse"), UNCHANGED <<worker, slot>> PROVE HeldInv'
  <2>1. ~Opened'
    BY <1>4, <1>t, SpentStep
  <2>2. HeldShape' /\ AliveInv'
    BY <1>4, <1>f, <1>p, <1>q, <1>t DEF HeldShape, AliveInv
  <2>3. GoneInv'
    BY <1>4, <1>f, <1>q DEF HeldInv, GoneInv
  <2>4. LockInv'
    BY <1>4, <1>f, <1>q DEF HeldInv, LockInv
  <2>5. PathInv' /\ SwitchInv'
    BY <2>1 DEF PathInv, SwitchInv, Follows
  <2> QED BY <2>2, <2>3, <2>4, <2>5, <1>s, <1>h DEF HeldInv
<1>5. ASSUME WorkerSwitch PROVE HeldInv'
  <2>1. e.do = "wallet"
    BY <1>5 DEF WorkerSwitch, Taking, e
  <2> QED BY <1>3, <1>4, <1>5, <2>1 DEF WorkerSwitch, e
<1>6. ASSUME WorkerEnd PROVE HeldInv'
  <2>1. /\ e.do = "shutdown" /\ worker' = NoWallet
        /\ slot' = Alive(Cleared(slot, worker), {lane.wallet} \cup side.open)
    BY <1>6 DEF WorkerEnd, Taking, e
  <2>2. /\ slot' \in [Wallets -> BOOLEAN]
        /\ \A w \in Wallets : slot'[w] => slot[w] /\ w # worker /\ (w = lane.wallet \/ w \in side.open)
    BY <2>1, <1>t DEF Alive, Cleared
  <2>3. ~host.here
    BY <2>1, <1>q DEF HeldInv, HereInv
  <2>4. HeldShape' /\ AliveInv'
    BY <2>1, <2>2, <1>f, <1>p, <1>q, <1>t DEF HeldShape, AliveInv
  <2>5. GoneInv'
    BY <2>1, <1>f, <1>q DEF HeldInv, GoneInv
  <2>6. LockInv' /\ PathInv' /\ SwitchInv'
    BY <2>3, <1>f DEF LockInv, PathInv, SwitchInv, Follows
  <2> QED BY <2>4, <2>5, <2>6, <1>s, <1>h DEF HeldInv
<1> QED BY <1>1, <1>2, <1>5, <1>6

\* A terminal that leaves puts the end behind all that is queued.
LEMMA LeftBehind ==
  ASSUME NEW S, NEW q \in Seq(S), NEW first \in S, NEW last \in S, last.do = "shutdown",
         NEW open, NEW q2, q2 = q \o (IF open THEN <<first>> ELSE <<>>) \o <<last>>
  PROVE  /\ q2 \in Seq(S) /\ Has(q2, {"shutdown"}) /\ Before(q2, "wallet", {"shutdown"})
<1>1. PICK q1 : q1 = q \o (IF open THEN <<first>> ELSE <<>>)
  OBVIOUS
<1>2. q1 \in Seq(S)
  <2>1. CASE open
    <3>1. q1 = Append(q, first)
      BY <1>1, <2>1, AppendIsConcat
    <3> QED BY <3>1, AppendProperties
  <2>2. CASE ~open
    BY <1>1, <2>2, ConcatEmptySeq
  <2> QED BY <2>1, <2>2
<1>3. q2 = q1 \o <<last>>
  BY <1>1
<1>4. q2 = Append(q1, last)
  BY <1>2, <1>3, AppendIsConcat
<1> QED BY <1>2, <1>4, QueuedBehind

-----------------------------------------------------------------------------
(* Steps of the screen and of the password checks. *)

\* A lock passed on is behind all that is queued.
LEMMA HostLockHeld ==
  ASSUME Shape, HeldShape, HostLock
  PROVE  /\ workq' \in Seq(WorkJobs) /\ host' = [host EXCEPT !.shared = {}]
         /\ Has(workq', {"lock"}) /\ Has(signq', {"lock"}) /\ Has(workq', Leaving)
         /\ Before(signq', "wallet", {"lock"})
         /\ Has(workq', {"shutdown"}) => Has(workq, {"shutdown"})
         /\ \A what : what # "lock" => Before(workq', what, {"lock"}) /\ Before(workq', what, Leaving)
         /\ \A w : Comes(workq, w) => Comes(workq', w)
         /\ \A w : Passes(workq, w) => Passes(workq', w)
         /\ \A at, w : Ends(workq, at, w) => Ends(workq', at, w)
<1>1. /\ signq \in Seq(LaneJobs) /\ workq \in Seq(WorkJobs)
      /\ Job("lock", NoReview) \in LaneJobs /\ Job("lock", NoWallet) \in WorkJobs
      /\ Job("lock", NoReview).do = "lock" /\ Job("lock", NoWallet).do = "lock"
  BY DEF Shape, HeldShape, Job, LaneJobs, WorkJobs, Jobs
<1>2. PICK e : e = Job("lock", NoWallet)
  OBVIOUS
<1>3. e \in WorkJobs /\ e.do = "lock" /\ workq' = Append(workq, e)
      /\ signq' = Append(signq, Job("lock", NoReview)) /\ host' = [host EXCEPT !.shared = {}]
  BY <1>1, <1>2 DEF HostLock
<1>4. Has(signq', {"lock"}) /\ Before(signq', "wallet", {"lock"})
  <2>1. PICK f : f = Job("lock", NoReview)
    OBVIOUS
  <2>2. f \in LaneJobs /\ f.do = "lock" /\ signq' = Append(signq, f)
    BY <1>1, <1>3, <2>1
  <2>3. /\ \A kinds : Has(signq', kinds) <=> Has(signq, kinds) \/ f.do \in kinds
        /\ \A what, kinds : f.do \in kinds /\ f.do # what => Before(signq', what, kinds)
    BY <1>1, <2>2, QueuedBehind
  <2> QED BY <2>2, <2>3
<1>5. /\ workq' \in Seq(WorkJobs)
      /\ \A kinds : Has(workq', kinds) <=> Has(workq, kinds) \/ e.do \in kinds
      /\ \A what, kinds : e.do \in kinds /\ e.do # what => Before(workq', what, kinds)
  BY <1>1, <1>3, QueuedBehind
<1>6. /\ \A w : Comes(workq, w) => Comes(workq', w)
      /\ \A w : Passes(workq, w) => Passes(workq', w)
      /\ \A at, w : Ends(workq, at, w) => Ends(workq', at, w)
  BY <1>1, <1>3, WayGrows
<1>7. /\ Has(workq', {"lock"}) /\ Has(workq', Leaving)
      /\ Has(workq', {"shutdown"}) => Has(workq, {"shutdown"})
  BY <1>3, <1>5 DEF Leaving
<1>8. \A what : what # "lock" => Before(workq', what, {"lock"}) /\ Before(workq', what, Leaving)
  BY <1>3, <1>5 DEF Leaving
<1> QED BY <1>3, <1>4, <1>5, <1>6, <1>7, <1>8

\* The two locks: the screen's, which no check outlives, and the engine's own.
LEMMA LocksHeld == ASSUME KeysInv, HeldInv, LockNow \/ EngineLock PROVE HeldInv'
<1>t. /\ Shape /\ HeldShape /\ AliveInv /\ ui \in Screens /\ HostLock
      /\ host \in [wallet : Wallets, shared : SUBSET Wallets, here : BOOLEAN]
  BY DEF KeysInv, Shape, HeldInv, HeldShape, LockNow, EngineLock
<1>q. /\ workq' \in Seq(WorkJobs) /\ host' = [host EXCEPT !.shared = {}]
      /\ Has(workq', {"lock"}) /\ Has(signq', {"lock"}) /\ Has(workq', Leaving)
      /\ Before(signq', "wallet", {"lock"})
      /\ Has(workq', {"shutdown"}) => Has(workq, {"shutdown"})
      /\ \A what : what # "lock" => Before(workq', what, {"lock"}) /\ Before(workq', what, Leaving)
      /\ \A w : Comes(workq, w) => Comes(workq', w)
      /\ \A w : Passes(workq, w) => Passes(workq', w)
      /\ \A at, w : Ends(workq, at, w) => Ends(workq', at, w)
  BY <1>t, HostLockHeld
<1>h. /\ host.here /\ host'.here = host.here /\ host'.wallet = host.wallet
      /\ host' \in [wallet : Wallets, shared : SUBSET Wallets, here : BOOLEAN]
  BY <1>q, <1>t DEF LockNow, EngineLock
<1>f. UNCHANGED <<check, slot, worker, lane, side, evq>>
  BY DEF LockNow, EngineLock
<1>l. left' = left \/ \E kind \in Kinds : Spend(kind)
  BY DEF LockNow, EngineLock, Kinds
<1>p. /\ left'["refuse"] <= Budget["refuse"] /\ left'["timeout"] <= Budget["timeout"]
      /\ (Opened' => Opened) /\ (InTime' => InTime)
  BY <1>l, <1>t, PatienceStep
<1>c. Checking' = Checking
  BY <1>f DEF Checking
<1>u. /\ ui'.wallet = ui.wallet /\ ui'.unlocking = ui.unlocking
      /\ \/ SameScreen
         \/ ui'.since = Since("lock") /\ ui'.locked /\ ~ui.locked
  <2>1. ASSUME LockNow PROVE ui' = [EnterLock(ui) EXCEPT !.since = Since("lock")] /\ ~ui.locked
    BY <2>1 DEF LockNow
  <2>2. ASSUME EngineLock PROVE ui' = ui
    BY <2>2 DEF EngineLock
  <2> QED BY <2>1, <2>2, <1>t DEF Screens, EnterLock, SameScreen
<1>1. HeldShape' /\ AliveInv' /\ HereInv' /\ GoneInv'
  BY <1>f, <1>h, <1>p, <1>q, <1>t, <1>u DEF HeldInv, HeldShape, AliveInv, HereInv, GoneInv
<1>2. SinceInv'
  BY <1>c, <1>h, <1>u DEF HeldInv, SinceInv, SameScreen, Since
<1>3. LockInv'
  BY <1>q DEF LockInv
<1>4. OneInv'
  <2>1. CASE SameScreen
    BY <1>c, <1>f, <1>h, <1>p, <2>1 DEF HeldInv, OneInv, SameScreen
  <2>2. CASE ui'.locked /\ ~ui.locked
    <3> SUFFICES ASSUME InTime' PROVE OneInv'
      BY DEF OneInv
    <3>1. ~Checking /\ ~Has(evq, Verdicts) /\ OneVerdict(evq)
      BY <1>h, <1>p, <2>2 DEF HeldInv, OneInv
    <3> QED BY <1>c, <1>f, <3>1 DEF OneInv, Checking
  <2> QED BY <1>u, <2>1, <2>2
<1>5. PathInv'
  BY <1>f, <1>h, <1>p, <1>q DEF HeldInv, PathInv, Follows
<1>6. SwitchInv'
  BY <1>f, <1>h, <1>p, <1>q, <1>u DEF HeldInv, SwitchInv, Follows, SameScreen, Since
<1> QED BY <1>1, <1>2, <1>3, <1>4, <1>5, <1>6 DEF HeldInv

\* A switch is behind all that is queued; while a check is in time there is none.
LEMMA SwitchHeld == ASSUME KeysInv, HeldInv, NEW w \in Wallets, Switch(w) PROVE HeldInv'
<1> DEFINE e == Job("wallet", w)
<1>t. /\ Shape /\ HeldShape /\ AliveInv /\ ui \in Screens /\ workq \in Seq(WorkJobs)
      /\ signq \in Seq(LaneJobs) /\ e.do = "wallet" /\ e.of = w /\ e \in WorkJobs /\ e \in LaneJobs
      /\ host \in [wallet : Wallets, shared : SUBSET Wallets, here : BOOLEAN]
  BY DEF KeysInv, Shape, HeldInv, HeldShape, Job, WorkJobs, LaneJobs, Jobs
<1>f. /\ UNCHANGED <<check, slot, worker, lane, evq>> /\ host.here
      /\ side' = [side EXCEPT !.asked = side.asked \cup {w}]
      /\ host' = [host EXCEPT !.wallet = w] /\ workq' = Append(workq, e) /\ signq' = Append(signq, e)
      /\ ~(ui.locked /\ ui.unlocking)
  BY DEF Switch
<1> HIDE DEF e
<1>o. side' \in Sides /\ side'.open = side.open
  BY <1>f, <1>t DEF HeldShape, Sides
<1>h. /\ host'.here /\ host'.wallet = w
      /\ host' \in [wallet : Wallets, shared : SUBSET Wallets, here : BOOLEAN]
  BY <1>f, <1>t
<1>l. left' = left \/ \E kind \in Kinds : Spend(kind)
  BY DEF Switch, Kinds
<1>p. /\ left'["refuse"] <= Budget["refuse"] /\ left'["timeout"] <= Budget["timeout"]
      /\ (Opened' => Opened) /\ (InTime' => InTime)
  BY <1>l, <1>t, PatienceStep
<1>c. Checking' = Checking
  BY <1>f DEF Checking
<1>u. /\ ui'.wallet = w /\ ui'.unlocking = ui.unlocking /\ ui'.locked /\ ui'.since = Since("switch")
  BY <1>t DEF Switch, EnterLock, Screens
<1>q. /\ workq' \in Seq(WorkJobs) /\ Has(workq', Leaving)
      /\ Has(workq', {"shutdown"}) => Has(workq, {"shutdown"})
      /\ Before(workq', "keys", Leaving)
  <2>1. /\ workq' \in Seq(WorkJobs)
        /\ \A kinds : Has(workq', kinds) <=> Has(workq, kinds) \/ e.do \in kinds
        /\ \A what, kinds : e.do \in kinds /\ e.do # what => Before(workq', what, kinds)
    <3>1. workq \in Seq(WorkJobs) /\ e \in WorkJobs /\ workq' = Append(workq, e)
      BY <1>f, <1>t
    <3> QED BY <3>1, QueuedBehind
  <2> QED BY <1>t, <2>1 DEF Leaving
<1>way. /\ \A v : Comes(workq, v) => Comes(workq', v) /\ Passes(workq', v)
        /\ Ends(workq', worker, w)
  BY <1>f, <1>t, WayGrows DEF Leaving
<1>1. HeldShape' /\ AliveInv' /\ HereInv' /\ GoneInv'
  BY <1>f, <1>h, <1>o, <1>p, <1>q, <1>t, <1>u DEF HeldInv, HeldShape, AliveInv, HereInv, GoneInv
<1>2. SinceInv' /\ LockInv'
  BY <1>c, <1>u DEF SinceInv, LockInv, Since
<1>3. OneInv'
  <2> SUFFICES ASSUME InTime' PROVE OneInv'
    BY DEF OneInv
  <2>1. ~Checking /\ ~Has(evq, Verdicts) /\ OneVerdict(evq)
    BY <1>f, <1>p DEF HeldInv, OneInv
  <2> QED BY <1>c, <1>f, <2>1 DEF OneInv, Checking
<1>4. PathInv'
  BY <1>f, <1>h, <1>p, <1>way DEF HeldInv, PathInv, Follows
<1>5. SwitchInv'
  BY <1>f, <1>h, <1>p, <1>q, <1>way DEF HeldInv, PathInv, SwitchInv, Follows
<1> QED BY <1>1, <1>2, <1>3, <1>4, <1>5 DEF HeldInv

\* What the screen sends to the lane alone.
LEMMA AskHeld == ASSUME KeysInv, HeldInv, AskReview \/ Decide PROVE HeldInv'
<1>t. /\ Shape /\ HeldShape /\ AliveInv /\ ui \in Screens /\ signq \in Seq(LaneJobs)
      /\ slot \in [Wallets -> BOOLEAN] /\ left \in [Kinds -> Nat]
  BY DEF KeysInv, Shape, HeldInv, HeldShape
<1>f. UNCHANGED <<host, check, slot, worker, lane, side, workq, evq>>
  BY DEF AskReview, Decide
<1>l. left' = left \/ \E kind \in Kinds : Spend(kind)
  BY DEF AskReview, Decide, Kinds
<1>p. /\ left'["refuse"] <= Budget["refuse"] /\ left'["timeout"] <= Budget["timeout"]
      /\ (Opened' => Opened) /\ (InTime' => InTime)
  BY <1>l, <1>t, PatienceStep
<1>u. SameScreen
  BY <1>t DEF AskReview, Decide, SameScreen, Screens
<1>v. FewerVerdicts
  BY <1>f, <1>t, NoVerdict
<1>1. \E e : e.do \in {"prepare", "commit", "discard"} /\ signq' = Append(signq, e) /\ e \in LaneJobs
  <2>1. CASE AskReview
    <3>1. left["review"] \in Nat /\ left["review"] > 0 /\ Budget["review"] \in Nat
          /\ left["review"] <= Budget["review"]
      BY <2>1, BudgetType DEF AskReview, Spend, KeysInv, Shape
    <3>2. Budget["review"] - left["review"] + 1 \in Reviews
      BY <3>1 DEF Reviews
    <3> QED BY <2>1, <3>2 DEF AskReview, Job, LaneJobs, Jobs
  <2>2. CASE Decide
    <3>1. ui.review \in Reviews
      BY <1>t, <2>2 DEF Decide, Screens
    <3> QED BY <2>2, <3>1 DEF Decide, Job, LaneJobs, Jobs
  <2> QED BY <2>1, <2>2
<1>2. PICK e \in LaneJobs : e.do \in {"prepare", "commit", "discard"} /\ signq' = Append(signq, e)
  BY <1>1
<1>3. /\ \A kinds : Has(signq, kinds) => Has(signq', kinds)
      /\ \A kinds : Before(signq, "wallet", kinds) => Before(signq', "wallet", kinds)
  <2>1. /\ \A kinds : Has(signq', kinds) <=> Has(signq, kinds) \/ e.do \in kinds
        /\ \A what, kinds : Before(signq, what, kinds) /\ e.do # what => Before(signq', what, kinds)
    <3>1. signq \in Seq(LaneJobs) /\ e \in LaneJobs /\ signq' = Append(signq, e)
      BY <1>2, <1>t
    <3> QED BY <3>1, QueuedBehind
  <2> QED BY <1>2, <2>1
<1> QED BY <1>3, <1>f, <1>p, <1>t, <1>u, <1>v, LaneMove DEF AliveInv

\* The screen hears: only a verdict lets the keyboard through, and it was the only one.
LEMMA HearHeld == ASSUME KeysInv, HeldInv, Hear PROVE HeldInv'
<1> DEFINE e == Head(evq)
<1>t. /\ Shape /\ HeldShape /\ AliveInv /\ ui \in Screens /\ signq \in Seq(LaneJobs)
      /\ evq \in Seq(Events) /\ evq # <<>>
  BY DEF KeysInv, Shape, HeldInv, HeldShape, Hear
<1>f. /\ UNCHANGED <<host, check, slot, worker, lane, side, workq, left>> /\ host.here
      /\ evq' = Tail(evq) /\ ui' = Shown(ui, e)
  BY DEF Hear
<1>c. Checking' = Checking
  BY <1>f DEF Checking
<1>e. /\ e \in Events /\ e.do \in {"unlocked", "failed", "refused", "locked", "review"}
      /\ \A kinds : Has(evq', kinds) => Has(evq, kinds)
      /\ \A kinds : e.do \in kinds => Has(evq, kinds)
  <2>1. /\ e \in Events
        /\ \A kinds : Has(evq', kinds) => Has(evq, kinds)
        /\ \A kinds : e.do \in kinds => Has(evq, kinds)
    BY <1>f, <1>t, TakenAhead
  <2> QED BY <2>1 DEF Events, Jobs
<1>v. OneVerdict(evq) => OneVerdict(evq') /\ (e.do \in Verdicts => ~Has(evq', Verdicts))
  BY <1>f, <1>t, VerdictHeard
<1>g. /\ Has(signq, {"lock"}) => Has(signq', {"lock"})
      /\ Before(signq, "wallet", {"lock"}) => Before(signq', "wallet", {"lock"})
  <2>1. ASSUME e.do = "review", signq' = Append(signq, Job("discard", e.of))
        PROVE  /\ Has(signq, {"lock"}) => Has(signq', {"lock"})
               /\ Before(signq, "wallet", {"lock"}) => Before(signq', "wallet", {"lock"})
    <3>1. e.of \in Reviews
      <4>1. e = evq[1] /\ 1 \in 1..Len(evq)
        BY <1>t, Popped
      <4> QED BY <2>1, <4>1, BudgetType DEF KeysInv, AskedInv, Asked, Reviews, Shape
    <3>2. PICK j : j = Job("discard", e.of)
      OBVIOUS
    <3>3. /\ j \in LaneJobs /\ signq' = Append(signq, j) /\ signq \in Seq(LaneJobs)
          /\ j.do = "discard"
      BY <2>1, <3>1, <3>2, <1>t DEF Job, LaneJobs, Jobs
    <3>4. /\ \A kinds : Has(signq', kinds) <=> Has(signq, kinds) \/ j.do \in kinds
          /\ \A what, kinds : Before(signq, what, kinds) /\ j.do # what => Before(signq', what, kinds)
      BY <3>3, QueuedBehind
    <3> QED BY <3>3, <3>4
  <2>2. signq' = signq \/ (e.do = "review" /\ signq' = Append(signq, Job("discard", e.of)))
    BY DEF Hear
  <2> QED BY <2>1, <2>2
<1> HIDE DEF e
<1>u. /\ ui'.wallet = ui.wallet /\ ui'.since = ui.since
      /\ e.do \notin Verdicts => /\ ui'.unlocking = ui.unlocking
                                 /\ (ui.locked => ui'.locked)
  <2>1. CASE e.do = "unlocked"
    BY <1>f, <1>t, <2>1 DEF Shown, Screens, Verdicts
  <2>2. CASE e.do = "failed"
    BY <1>f, <1>t, <2>2 DEF Shown, Screens, Verdicts
  <2>3. CASE e.do = "refused"
    BY <1>f, <1>t, <2>3 DEF Shown, EnterLock, Screens
  <2>4. CASE e.do = "locked"
    BY <1>f, <1>t, <2>4 DEF Shown, EnterLock, Screens
  <2>5. CASE e.do = "review"
    BY <1>f, <1>t, <2>5 DEF Shown, Screens
  <2> QED BY <1>e, <2>1, <2>2, <2>3, <2>4, <2>5
<1>1. HeldShape' /\ AliveInv' /\ HereInv' /\ GoneInv' /\ SinceInv'
  BY <1>c, <1>f, <1>t, <1>u DEF HeldInv, HeldShape, AliveInv, HereInv, GoneInv, SinceInv
<1>2. LockInv'
  BY <1>f, <1>g, <1>u DEF HeldInv, LockInv
<1>3. OneInv'
  <2> SUFFICES ASSUME InTime PROVE OneInv'
    BY <1>f DEF OneInv, InTime
  <2>0. /\ ~(ui.unlocking /\ ui.locked) \/ Checking => ~Has(evq, Verdicts)
        /\ Checking => ui.unlocking /\ ui.locked
        /\ OneVerdict(evq)
        /\ \A c \in Checks : check[c] # Idle => check[c].wallet = ui.wallet
        /\ \A c, d \in Checks : check[c] # Idle /\ check[d] # Idle => c = d
    BY <1>f DEF HeldInv, OneInv
  <2>1. OneVerdict(evq')
    BY <1>v, <2>0
  <2>2. CASE e.do \in Verdicts
    <3>1. ~Has(evq', Verdicts) /\ ~Checking
      BY <1>e, <1>v, <2>0, <2>2
    <3> QED BY <1>c, <1>f, <1>u, <2>0, <2>1, <3>1 DEF OneInv
  <2>3. CASE e.do \notin Verdicts
    <3>1. ~(ui'.unlocking /\ ui'.locked) \/ Checking => ~Has(evq', Verdicts)
      BY <1>e, <1>u, <2>0, <2>3
    <3>2. Checking => ui'.unlocking /\ ui'.locked
      BY <1>u, <2>0, <2>3
    <3> QED BY <1>c, <1>f, <1>u, <2>0, <2>1, <3>1, <3>2 DEF OneInv
  <2> QED BY <2>2, <2>3
<1>4. PathInv' /\ SwitchInv'
  BY <1>f, <1>u DEF HeldInv, PathInv, SwitchInv, Follows, Opened, InTime
<1> QED BY <1>1, <1>2, <1>3, <1>4 DEF HeldInv

\* A password is given, or given up waiting for.
LEMMA UnlockHeld ==
  ASSUME KeysInv, HeldInv, GiveUp \/ \E c \in Checks : BeginUnlock(c) PROVE HeldInv'
<1>t. /\ Shape /\ HeldShape /\ AliveInv /\ ui \in Screens /\ Idle \notin Threads
      /\ check \in [Checks -> Threads \cup {Idle}] /\ NoWallet \notin Wallets
  BY CustodyBounds DEF KeysInv, Shape, HeldInv, HeldShape, Idle, Threads
<1>f. UNCHANGED <<host, slot, worker, lane, side, signq, workq, evq>>
  BY DEF GiveUp, BeginUnlock
<1>l. left' = left \/ \E kind \in Kinds : Spend(kind)
  BY DEF GiveUp, BeginUnlock, Kinds
<1>p. /\ left'["refuse"] <= Budget["refuse"] /\ left'["timeout"] <= Budget["timeout"]
      /\ (Opened' => Opened) /\ (InTime' => InTime)
  BY <1>l, <1>t, PatienceStep
<1>1. ASSUME GiveUp PROVE HeldInv'
  <2>1. ~InTime' /\ check' = check /\ ui' = [ui EXCEPT !.unlocking = FALSE]
    BY <1>1, <1>t, SpentStep DEF GiveUp
  <2>2. ui'.wallet = ui.wallet /\ ui'.since = ui.since
    BY <1>t, <2>1 DEF Screens
  <2>3. HeldShape' /\ AliveInv' /\ HereInv' /\ GoneInv'
    BY <1>f, <1>p, <2>1, <2>2 DEF HeldInv, HeldShape, AliveInv, HereInv, GoneInv
  <2>4. Checking' = Checking
    BY <2>1 DEF Checking
  <2>5. SinceInv' /\ LockInv'
    BY <1>f, <2>2, <2>4 DEF HeldInv, SinceInv, LockInv
  <2>6. OneInv' /\ PathInv' /\ SwitchInv'
    BY <2>1 DEF OneInv, PathInv, SwitchInv, Follows
  <2> QED BY <2>3, <2>5, <2>6 DEF HeldInv
<1>2. ASSUME NEW c \in Checks, BeginUnlock(c) PROVE HeldInv'
  <2> DEFINE n == [at |-> "check", wallet |-> ui.wallet]
  <2>1. /\ n \in Threads /\ n # Idle /\ n.wallet = ui.wallet /\ check' = [check EXCEPT ![c] = n]
        /\ ui' = [ui EXCEPT !.unlocking = TRUE, !.since = "password"]
        /\ ui.locked /\ ~ui.unlocking
    BY <1>2, <1>t DEF BeginUnlock, Threads, Screens, Idle
  <2> HIDE DEF n
  <2>2. /\ ui'.wallet = ui.wallet /\ ui'.since = "password" /\ ui'.unlocking /\ ui'.locked
    BY <1>t, <2>1 DEF Screens
  <2>3. /\ check' \in [Checks -> Threads \cup {Idle}] /\ check'[c] = n
        /\ \A d \in Checks \ {c} : check'[d] = check[d]
    BY <1>t, <2>1
  <2>4. HeldShape' /\ AliveInv' /\ HereInv' /\ GoneInv'
    BY <1>f, <1>p, <2>2, <2>3 DEF HeldInv, HeldShape, AliveInv, HereInv, GoneInv
  <2>5. SinceInv' /\ LockInv' /\ SwitchInv'
    BY <2>2 DEF SinceInv, LockInv, SwitchInv
  <2>6. PathInv'
    BY <1>f, <1>p DEF HeldInv, PathInv, Follows
  <2>7. OneInv'
    <3> SUFFICES ASSUME host.here, InTime PROVE OneInv'
      BY <1>f, <1>p DEF OneInv
    <3>1. ~Has(evq, Verdicts) /\ ~Checking /\ OneVerdict(evq)
      BY <2>1 DEF HeldInv, OneInv
    <3>2. \A d \in Checks : check'[d] # Idle => d = c
      BY <2>3, <3>1 DEF Checking
    <3>3. \A d \in Checks : check'[d] # Idle => check'[d].wallet = ui'.wallet
      BY <2>1, <2>2, <2>3, <3>2
    <3> QED BY <1>f, <2>2, <3>1, <3>2, <3>3 DEF OneInv
  <2> QED BY <2>4, <2>5, <2>6, <2>7 DEF HeldInv
<1> QED BY <1>1, <1>2

\* The terminal goes.
LEMMA LeaveHeld == ASSUME KeysInv, HeldInv, Leave PROVE HeldInv'
<1>t. /\ Shape /\ HeldShape /\ AliveInv /\ ui \in Screens
      /\ signq \in Seq(LaneJobs) /\ workq \in Seq(WorkJobs)
      /\ host \in [wallet : Wallets, shared : SUBSET Wallets, here : BOOLEAN]
  BY DEF KeysInv, Shape, HeldInv, HeldShape
<1>f. /\ UNCHANGED <<check, slot, worker, lane, side, evq, left>>
      /\ host' = [host EXCEPT !.here = FALSE] /\ ui' = [EnterLock(ui) EXCEPT !.unlocking = FALSE]
  BY DEF Leave
<1>1. ~host'.here /\ host'.wallet = host.wallet
      /\ host' \in [wallet : Wallets, shared : SUBSET Wallets, here : BOOLEAN]
  BY <1>f, <1>t
<1>2. ui'.wallet = ui.wallet
  BY <1>f, <1>t DEF EnterLock, Screens
<1>3. PICK open : open = slot[host.wallet]
  OBVIOUS
<1>4. /\ \A what \in {"lock", "shutdown"} :
           /\ Job(what, NoReview) \in LaneJobs /\ Job(what, NoWallet) \in WorkJobs
           /\ Job(what, NoReview).do = what /\ Job(what, NoWallet).do = what
  BY DEF Job, LaneJobs, WorkJobs, Jobs
<1>5. PICK l1, l2, w1, w2 :
        /\ l1 = Job("lock", NoReview) /\ l2 = Job("shutdown", NoReview)
        /\ w1 = Job("lock", NoWallet) /\ w2 = Job("shutdown", NoWallet)
  OBVIOUS
<1>6. /\ signq' = signq \o (IF open THEN <<l1>> ELSE <<>>) \o <<l2>>
      /\ workq' = workq \o (IF open THEN <<w1>> ELSE <<>>) \o <<w2>>
  BY <1>3, <1>5 DEF Leave
<1>7. Has(signq', {"shutdown"}) /\ Before(signq', "wallet", {"shutdown"})
  <2>1. l1 \in LaneJobs /\ l2 \in LaneJobs /\ l2.do = "shutdown"
    BY <1>4, <1>5
  <2> QED BY <1>6, <1>t, <2>1, LeftBehind
<1>8. workq' \in Seq(WorkJobs) /\ Has(workq', {"shutdown"}) /\ Before(workq', "wallet", {"shutdown"})
  <2>1. w1 \in WorkJobs /\ w2 \in WorkJobs /\ w2.do = "shutdown"
    BY <1>4, <1>5
  <2> QED BY <1>6, <1>t, <2>1, LeftBehind
<1>9. HeldShape' /\ AliveInv' /\ GoneInv'
  BY <1>f, <1>t, <1>1, <1>2, <1>7, <1>8 DEF HeldShape, AliveInv, GoneInv
<1>10. HereInv' /\ SinceInv' /\ LockInv' /\ OneInv' /\ PathInv' /\ SwitchInv'
  BY <1>1 DEF HereInv, SinceInv, LockInv, OneInv, PathInv, SwitchInv, Follows
<1> QED BY <1>9, <1>10 DEF HeldInv

\* A check goes on: where it stands changes, whose wallet it is does not.
LEMMA CheckGoesOn ==
  ASSUME Shape, HeldShape, NEW c \in Checks, check[c] # Idle,
         NEW at \in {"share", "note", "install", "tell", "say"}, At(c, at)
  PROVE  /\ check' \in [Checks -> Threads \cup {Idle}] /\ Checking /\ Checking'
         /\ \A d \in Checks : /\ (check'[d] # Idle) <=> (check[d] # Idle)
                              /\ check[d] # Idle => check'[d].wallet = check[d].wallet
<1>1. /\ check \in [Checks -> Threads \cup {Idle}] /\ check[c] \in Threads
      /\ check' = [check EXCEPT ![c] = [check[c] EXCEPT !.at = at]]
  BY DEF HeldShape, At
<1>2. PICK n : n = [check[c] EXCEPT !.at = at]
  OBVIOUS
<1>3. n \in Threads /\ n.wallet = check[c].wallet
  BY <1>1, <1>2 DEF Threads
<1>4. n # Idle
  BY <1>3, CustodyBounds DEF Threads, Idle
<1>5. check' = [check EXCEPT ![c] = n]
  BY <1>1, <1>2
<1>6. /\ check' \in [Checks -> Threads \cup {Idle}] /\ check'[c] = n
      /\ \A d \in Checks \ {c} : check'[d] = check[d]
  BY <1>1, <1>3, <1>5
<1> QED BY <1>3, <1>4, <1>6 DEF Checking

\* While a check is out nothing but the password matters to its screen.
LEMMA WhileChecking ==
  ASSUME HeldInv, Checking, host'.here = host.here, ui'.since = ui.since
  PROVE  SinceInv' /\ LockInv' /\ SwitchInv'
BY DEF HeldInv, SinceInv, LockInv, SwitchInv, Follows

\* A check that goes on is still the only one.
LEMMA OneGoesOn ==
  ASSUME HeldInv, Checking, Checking', evq' = evq, ui' = ui, host'.here = host.here,
         InTime' => InTime,
         \A d \in Checks : /\ (check'[d] # Idle) <=> (check[d] # Idle)
                           /\ check[d] # Idle => check'[d].wallet = check[d].wallet
  PROVE  OneInv'
<1> SUFFICES ASSUME host.here, InTime PROVE OneInv'
  BY DEF OneInv
<1>1. /\ ~(ui.unlocking /\ ui.locked) \/ Checking => ~Has(evq, Verdicts)
      /\ Checking => ui.unlocking /\ ui.locked
      /\ OneVerdict(evq)
      /\ \A d \in Checks : check[d] # Idle => check[d].wallet = ui.wallet
      /\ \A d, e \in Checks : check[d] # Idle /\ check[e] # Idle => d = e
  BY DEF HeldInv, OneInv
<1>2. /\ \A d \in Checks : check'[d] # Idle => check'[d].wallet = ui.wallet
      /\ \A d, e \in Checks : check'[d] # Idle /\ check'[e] # Idle => d = e
  BY <1>1
<1> QED BY <1>1, <1>2 DEF OneInv

\* A check that ends says its verdict, the only one.
LEMMA VerdictSaid ==
  ASSUME KeysInv, HeldInv, NEW c \in Checks, check[c] # Idle, Finished(c),
         NEW what \in Verdicts, evq' = Append(evq, Job(what, NoReview)),
         UNCHANGED <<ui, host, slot, worker, lane, side, signq, workq>>,
         left' = left \/ \E kind \in Kinds : Spend(kind)
  PROVE  HeldInv'
<1>t. /\ Shape /\ HeldShape /\ AliveInv /\ evq \in Seq(Events)
      /\ check \in [Checks -> Threads \cup {Idle}] /\ Checking
  BY DEF KeysInv, Shape, HeldInv, HeldShape, Checking
<1>p. /\ left'["refuse"] <= Budget["refuse"] /\ left'["timeout"] <= Budget["timeout"]
      /\ (Opened' => Opened) /\ (InTime' => InTime)
  BY <1>t, PatienceStep
<1>1. /\ check' \in [Checks -> Threads \cup {Idle}] /\ check'[c] = Idle
      /\ \A d \in Checks \ {c} : check'[d] = check[d]
  BY <1>t DEF Finished
<1>2. HeldShape' /\ AliveInv' /\ HereInv' /\ GoneInv'
  BY <1>1, <1>p DEF HeldInv, HeldShape, AliveInv, HereInv, GoneInv
<1>3. SinceInv' /\ LockInv' /\ SwitchInv'
  BY <1>t, WhileChecking
<1>4. PathInv'
  BY <1>p DEF HeldInv, PathInv, Follows
<1>5. OneInv'
  <2> SUFFICES ASSUME host.here, InTime PROVE OneInv'
    BY <1>p DEF OneInv
  <2>1. /\ ~Has(evq, Verdicts) /\ ui.unlocking /\ ui.locked /\ OneVerdict(evq)
        /\ \A d, e \in Checks : check[d] # Idle /\ check[e] # Idle => d = e
    BY <1>t DEF HeldInv, OneInv
  <2>2. \A d \in Checks : check'[d] = Idle
    BY <1>1, <2>1
  <2>3. PICK e : e = Job(what, NoReview)
    OBVIOUS
  <2>4. e \in Events /\ evq' = Append(evq, e)
    BY <2>3 DEF Job, Events, Jobs, Verdicts
  <2>5. OneVerdict(evq')
    BY <1>t, <2>1, <2>4, VerdictQueued
  <2> QED BY <2>1, <2>2, <2>5 DEF OneInv, Checking
<1> QED BY <1>2, <1>3, <1>4, <1>5 DEF HeldInv

\* Every step of a check.
LEMMA CheckHeld ==
  ASSUME KeysInv, HeldInv, NEW c \in Checks,
         \/ CheckPassword(c) \/ CheckShare(c) \/ CheckNote(c) \/ CheckInstall(c) \/ CheckTell(c) \/ CheckSay(c)
  PROVE  HeldInv'
<1>t. /\ Shape /\ HeldShape /\ AliveInv /\ evq \in Seq(Events) /\ workq \in Seq(WorkJobs)
      /\ check \in [Checks -> Threads \cup {Idle}] /\ slot \in [Wallets -> BOOLEAN]
      /\ host \in [wallet : Wallets, shared : SUBSET Wallets, here : BOOLEAN]
  BY DEF KeysInv, Shape, HeldInv, HeldShape
<1>i. check[c] # Idle
  BY DEF CheckPassword, CheckShare, CheckNote, CheckInstall, CheckTell, CheckSay, Idle
<1>b. check[c] \in Threads /\ check[c].wallet \in Wallets /\ Checking
  BY <1>i, <1>t DEF Threads, Checking
<1>l. left' = left \/ \E kind \in Kinds : Spend(kind)
  BY DEF CheckPassword, CheckShare, CheckNote, CheckInstall, CheckTell, CheckSay, Kinds
<1>p. /\ left'["refuse"] <= Budget["refuse"] /\ left'["timeout"] <= Budget["timeout"]
      /\ (Opened' => Opened) /\ (InTime' => InTime)
  BY <1>l, <1>t, PatienceStep
<1>1. ASSUME CheckPassword(c), Spend("wrong"), Finished(c), evq' = Append(evq, Job("failed", NoReview))
      PROVE  HeldInv'
  BY <1>1, <1>i, VerdictSaid DEF CheckPassword, Verdicts, Kinds
<1>2. ASSUME CheckSay(c) PROVE HeldInv'
  BY <1>2, <1>i, VerdictSaid DEF CheckSay, Verdicts
<1>3. ASSUME NEW at \in {"share", "note", "install", "tell", "say"}, At(c, at), ui' = ui, evq' = evq,
             UNCHANGED <<worker, lane, side, signq>>, host'.here = host.here, host'.wallet = host.wallet,
             host' \in [wallet : Wallets, shared : SUBSET Wallets, here : BOOLEAN],
             slot' \in [Wallets -> BOOLEAN], workq' \in Seq(WorkJobs), AliveInv',
             HereInv', GoneInv', PathInv'
      PROVE  HeldInv'
  <2>1. /\ check' \in [Checks -> Threads \cup {Idle}] /\ Checking /\ Checking'
        /\ \A d \in Checks : /\ (check'[d] # Idle) <=> (check[d] # Idle)
                             /\ check[d] # Idle => check'[d].wallet = check[d].wallet
    BY <1>3, <1>i, <1>t, CheckGoesOn
  <2>2. HeldShape'
    BY <1>3, <1>p, <1>t, <2>1 DEF HeldShape
  <2>3. SinceInv' /\ LockInv' /\ SwitchInv'
    BY <1>3, <2>1, WhileChecking
  <2>4. OneInv'
    BY <1>3, <1>p, <2>1, OneGoesOn
  <2> QED BY <1>3, <2>2, <2>3, <2>4 DEF HeldInv
<1>4. ASSUME NEW at \in {"share", "note", "install", "tell", "say"}, At(c, at),
             (CheckPassword(c) /\ UNCHANGED <<evq, left>>) \/ CheckShare(c) \/ CheckNote(c)
      PROVE  HeldInv'
  <2>1. /\ UNCHANGED <<ui, evq, worker, lane, side, signq, workq, slot>>
        /\ host' = host \/ host' = [host EXCEPT !.shared = host.shared \cup {check[c].wallet}]
    BY <1>4 DEF CheckPassword, CheckShare, CheckNote
  <2>2. /\ host'.here = host.here /\ host'.wallet = host.wallet
        /\ host' \in [wallet : Wallets, shared : SUBSET Wallets, here : BOOLEAN]
    BY <1>b, <1>t, <2>1
  <2>3. AliveInv' /\ HereInv' /\ GoneInv' /\ PathInv'
    BY <1>p, <2>1, <2>2 DEF HeldInv, AliveInv, HereInv, GoneInv, PathInv, Follows
  <2> QED BY <1>3, <1>4, <1>t, <2>1, <2>2, <2>3
<1>5. ASSUME CheckInstall(c) PROVE HeldInv'
  <2> DEFINE w == check[c].wallet
  <2>1. /\ UNCHANGED <<ui, host, evq, worker, lane, side, signq, workq>> /\ At(c, "tell") /\ w \in Wallets
        /\ slot' = [slot EXCEPT ![w] = slot[w] \/ w \in {worker, lane.wallet} \cup side.open]
    BY <1>5, <1>b DEF CheckInstall
  <2>2. host.here /\ InTime => w = host.wallet
    BY <1>i, <1>t DEF HeldInv, OneInv, HeldShape
  <2> HIDE DEF w
  <2>3. /\ slot' \in [Wallets -> BOOLEAN]
        /\ \A v \in Wallets : slot'[v] => slot[v] \/ (v = w /\ v \in {worker, lane.wallet} \cup side.open)
    BY <1>t, <2>1
  <2>4. AliveInv' /\ HereInv' /\ GoneInv'
    BY <2>1, <2>3 DEF HeldInv, AliveInv, HereInv, GoneInv
  <2>5. PathInv'
    <3> SUFFICES ASSUME Follows, NEW v \in Wallets, slot'[v], v # worker
                 PROVE  Comes(workq, v)
      BY <1>p, <2>1 DEF HeldInv, PathInv, Follows
    <3>1. Ends(workq, worker, host.wallet) /\ (slot[v] => Comes(workq, v))
      BY DEF HeldInv, PathInv
    <3>2. CASE ~slot[v]
      <4>1. v = host.wallet
        BY <2>2, <2>3, <3>2 DEF Follows
      <4> QED BY <3>1, <4>1 DEF Ends, Comes
    <3> QED BY <3>1, <3>2
  <2> QED BY <1>3, <1>t, <2>1, <2>3, <2>4, <2>5
<1>6. ASSUME CheckTell(c) PROVE HeldInv'
  <2>1. /\ UNCHANGED <<ui, host, evq, worker, lane, side, signq, slot>> /\ At(c, "say")
        /\ workq' = workq \/ workq' = Append(workq, Job("keys", check[c].wallet))
    BY <1>6 DEF CheckTell
  <2>2. PICK e : e = Job("keys", check[c].wallet)
    OBVIOUS
  <2>3. e \in WorkJobs /\ e.do = "keys" /\ (workq' = workq \/ workq' = Append(workq, e))
    BY <1>b, <2>1, <2>2 DEF Job, WorkJobs, Jobs
  <2>4. /\ workq' \in Seq(WorkJobs)
        /\ \A kinds : Has(workq, kinds) => Has(workq', kinds)
        /\ Has(workq', {"shutdown"}) => Has(workq, {"shutdown"})
        /\ Before(workq, "wallet", {"shutdown"}) => Before(workq', "wallet", {"shutdown"})
    <3>1. CASE workq' = workq
      BY <1>t, <3>1
    <3>2. CASE workq' = Append(workq, e)
      <4>1. /\ workq' \in Seq(WorkJobs)
            /\ \A kinds : Has(workq', kinds) <=> Has(workq, kinds) \/ e.do \in kinds
            /\ \A what, kinds : Before(workq, what, kinds) /\ e.do # what => Before(workq', what, kinds)
        <5>1. workq \in Seq(WorkJobs) /\ e \in WorkJobs
          BY <1>t, <2>3
        <5> QED BY <3>2, <5>1, QueuedBehind
      <4> QED BY <2>3, <4>1
    <3> QED BY <2>3, <3>1, <3>2
  <2>5. /\ \A w : Comes(workq, w) => Comes(workq', w)
        /\ \A at, w : Ends(workq, at, w) => Ends(workq', at, w)
    <3>1. CASE workq' = Append(workq, e)
      BY <1>t, <2>3, <3>1, WayGrows
    <3> QED BY <2>3, <3>1
  <2>6. AliveInv' /\ HereInv' /\ GoneInv'
    BY <2>1, <2>4 DEF HeldInv, AliveInv, HereInv, GoneInv
  <2>7. PathInv'
    BY <1>p, <2>1, <2>5 DEF HeldInv, PathInv, Follows
  <2> QED BY <1>3, <1>t, <2>1, <2>4, <2>6, <2>7
<1>7. ASSUME CheckPassword(c) PROVE HeldInv'
  BY <1>1, <1>4, <1>7 DEF CheckPassword
<1>8. ASSUME CheckShare(c) PROVE HeldInv'
  BY <1>4, <1>8 DEF CheckShare
<1>9. ASSUME CheckNote(c) PROVE HeldInv'
  BY <1>4, <1>9 DEF CheckNote
<1> QED BY <1>2, <1>5, <1>6, <1>7, <1>8, <1>9

\* The other lanes: what they keep open they neither unlock nor lock.
LEMMA SideHeld ==
  ASSUME KeysInv, HeldInv,
         (\E w \in Wallets : SideOpens(w) \/ SideCloses(w)) \/ SideEnds
  PROVE  HeldInv'
<1>t. HeldShape /\ AliveInv /\ slot \in [Wallets -> BOOLEAN] /\ side \in Sides
  BY DEF HeldInv, HeldShape
<1>f. UNCHANGED <<ui, host, check, worker, lane, signq, workq, evq, left>>
  BY DEF SideOpens, SideCloses, SideEnds
<1>1. side' \in Sides
  BY <1>t DEF SideOpens, SideCloses, SideEnds, Sides
<1>s. slot' \in [Wallets -> BOOLEAN] /\ \A w \in Wallets : slot'[w] => slot[w]
  BY <1>t DEF SideOpens, SideCloses, SideEnds, Alive
<1>a. AliveInv'
  <2>1. ASSUME NEW w \in Wallets, SideOpens(w) PROVE AliveInv'
    <3>1. slot' = slot /\ side'.open = side.open \cup {w}
      BY <1>t, <2>1 DEF SideOpens, Sides
    <3> QED BY <1>f, <1>t, <3>1 DEF AliveInv
  <2>2. ASSUME NEW w \in Wallets, SideCloses(w) PROVE AliveInv'
    BY <1>f, <1>t, <2>2 DEF SideCloses, Alive, AliveInv
  <2>3. ASSUME SideEnds PROVE AliveInv'
    <3>1. slot' = slot /\ side'.open = side.open
      BY <1>t, <2>3 DEF SideEnds, Sides
    <3> QED BY <1>f, <1>t, <3>1 DEF AliveInv
  <2> QED BY <2>1, <2>2, <2>3
<1>2. HeldShape'
  BY <1>1, <1>f, <1>s, <1>t DEF HeldShape
<1>3. HereInv' /\ GoneInv' /\ SinceInv' /\ LockInv'
  BY <1>f, <1>s DEF HeldInv, HereInv, GoneInv, SinceInv, LockInv, Checking
<1>4. OneInv'
  BY <1>f DEF HeldInv, OneInv, InTime, Checking
<1>5. PathInv' /\ SwitchInv'
  BY <1>f, <1>s DEF HeldInv, PathInv, SwitchInv, Follows, Opened, InTime
<1> QED BY <1>a, <1>2, <1>3, <1>4, <1>5 DEF HeldInv

\* The terminal as it attached holds no keys.
LEMMA HeldInit == CustodyInit => HeldInv
<1> SUFFICES ASSUME CustodyInit PROVE HeldInv
  OBVIOUS
<1>1. /\ ui.wallet = Home /\ ui.locked /\ ~ui.unlocking /\ ui.since = "lock"
      /\ host.wallet = Home /\ host.here
      /\ \A c \in Checks : check[c] = Idle
      /\ \A w \in Wallets : ~slot[w]
      /\ worker = Home /\ side = [asked |-> {Home}, open |-> {}] /\ signq = <<>> /\ workq = <<>> /\ evq = <<>>
  BY DEF CustodyInit
<1>2. Budget["refuse"] \in Nat /\ Budget["timeout"] \in Nat /\ left = Budget
  BY CustodyBounds DEF CustodyInit, Kinds
<1>3. HeldShape
  <2>1. /\ host \in [wallet : Wallets, shared : SUBSET Wallets, here : BOOLEAN]
        /\ check \in [Checks -> Threads \cup {Idle}] /\ slot \in [Wallets -> BOOLEAN]
    BY CustodyBounds DEF CustodyInit
  <2>2. worker \in Wallets /\ workq \in Seq(WorkJobs)
    BY <1>1, CustodyBounds, EmptySeq
  <2>3. side \in Sides
    BY <1>1, CustodyBounds DEF Sides
  <2> QED BY <1>1, <1>2, <2>1, <2>2, <2>3 DEF HeldShape
<1>4. /\ \A kinds : ~Has(workq, kinds) /\ ~Has(evq, kinds)
      /\ Ends(workq, worker, host.wallet) /\ OneVerdict(evq)
      /\ \A what, kinds : Before(workq, what, kinds) /\ Before(signq, what, kinds)
  BY <1>1 DEF Has, Ends, OneVerdict, Before
<1>5. ~Checking
  BY <1>1 DEF Checking
<1>6. AliveInv /\ HereInv /\ GoneInv /\ SinceInv /\ LockInv
  BY <1>1, <1>4, <1>5 DEF AliveInv, HereInv, GoneInv, SinceInv, LockInv
<1>7. OneInv /\ PathInv /\ SwitchInv
  BY <1>1, <1>4, <1>5 DEF OneInv, PathInv, SwitchInv
<1> QED BY <1>3, <1>6, <1>7 DEF HeldInv

\* Where keys are, and what is queued against them, holds in every reachable state.
THEOREM HeldInvariance == CustodySpec => []HeldInv
<1>1. KeysInv /\ HeldInv /\ [CustodyNext]_cvars => HeldInv'
  <2> SUFFICES ASSUME KeysInv, HeldInv, [CustodyNext]_cvars PROVE HeldInv'
    OBVIOUS
  <2>1. CASE UNCHANGED cvars
    <3>1. /\ UNCHANGED <<ui, host, check, slot, worker, lane, side, signq, workq, evq, left>>
      BY <2>1 DEF cvars
    <3>2. HeldShape' /\ AliveInv' /\ HereInv' /\ GoneInv' /\ SinceInv' /\ LockInv'
      BY <3>1 DEF HeldInv, HeldShape, AliveInv, HereInv, GoneInv, SinceInv, LockInv, Checking
    <3>3. OneInv' /\ PathInv' /\ SwitchInv'
      BY <3>1 DEF HeldInv, OneInv, PathInv, SwitchInv, Follows, Opened, InTime, Checking
    <3> QED BY <3>2, <3>3 DEF HeldInv
  <2> QED BY <2>1, LocksHeld, SwitchHeld, AskHeld, HearHeld, UnlockHeld, LeaveHeld, CheckHeld,
             WorkerHeld, LaneHeld, SideHeld DEF CustodyNext
<1> QED BY <1>1, HeldInit, KeysInvariance, PTL DEF CustodySpec

\* A lock takes the keys (lock_now, Worker::send, Cmd::SwitchWallet, server.rs): once everything is
\* heard neither the worker nor the signing lane has any after a lock that no password follows; the
\* engine has none at all after a terminal left, nor after such a lock or a switch while every
\* wallet opened and no check outlived the screen's patience, whatever the other lanes keep open.
THEOREM LockedAway == CustodySpec => []LockTakesKeys
<1>1. HeldInv => LockTakesKeys
  <2> SUFFICES ASSUME HeldInv, Settled PROVE LockTakesKeys
    BY DEF LockTakesKeys
  <2>1. \A kinds : ~Has(signq, kinds) /\ ~Has(workq, kinds)
    BY DEF Settled, Has
  <2>2. \A w : ~Comes(workq, w) /\ ~Passes(workq, w)
    BY DEF Settled, Comes, Passes
  <2>3. ASSUME ~host.here, NEW w \in Wallets PROVE ~slot[w]
    <3>1. worker = NoWallet /\ lane.wallet = NoWallet
      BY <2>1, <2>3 DEF HeldInv, GoneInv
    <3> QED BY <2>3, <3>1, CustodyBounds DEF HeldInv, AliveInv, Settled
  <2>4. ASSUME host.here, ui.since = "lock", NEW w \in Acting PROVE ~slot[w]
    BY <2>1, <2>4 DEF HeldInv, LockInv, Acting
  <2>5. ASSUME host.here, Opened, InTime, ui.since \in {"lock", "switch"}, NEW w \in Wallets
        PROVE  ~slot[w]
    <3>1. slot[w] => w = worker
      BY <2>2, <2>5 DEF HeldInv, PathInv, Follows
    <3>2. CASE ui.since = "lock"
      BY <2>4, <2>5, <3>1, <3>2 DEF Acting
    <3>3. CASE ui.since = "switch"
      BY <2>1, <2>5, <3>1, <3>3 DEF HeldInv, SwitchInv, Follows
    <3> QED BY <2>5, <3>2, <3>3
  <2> QED BY <2>3, <2>4, <2>5 DEF LockTakesKeys, NoKeys
<1> QED BY <1>1, HeldInvariance, PTL
=============================================================================
