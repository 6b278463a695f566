------------------------------ MODULE QiProofs ------------------------------
(***************************************************************************)
(* What is proved of Qi-ledger spends: wherever sessions stop, a change     *)
(* address is in one place only, every behaviour is one the promise about   *)
(* spends (SpendLife) allows, and each fee bump pays what was asked of it. *)
(***************************************************************************)
EXTENDS QiPipeline, FiniteSetTheorems, SequenceTheorems, WellFoundedInduction, TLAPS

-----------------------------------------------------------------------------
(* The inductive invariant. *)

QiPlaces == {"idle", "p_pool", "p_sweep", "p_sdk", "p_rest", "p_insert", "u_offer", "c_sign", "c_mark",
             "c_send", "c_done", "d_reclaim", "d_cancel", "a_lock", "a_release", "t_apply"}
Preparing == {"p_pool", "p_sweep", "p_sdk", "p_rest", "p_insert"}
Holding   == Preparing \cup {"c_sign", "c_mark", "d_reclaim", "a_release", "d_cancel"}
Claimed   == {"reserved", "signed", "confirmed"}

\* A function on D, whatever its values.
On(f, D) == f = [x \in D |-> f[x]]
JobShape(j, last) ==
  j \in [op : Ops \cup {NoOp}, k : {j.k}, review : {j.review}, pool : SUBSET (1..last), size : Nat,
         from : {j.from}, fee : {j.fee}, listed : {j.listed}, reply : {j.reply}]
IsSeq(q) == q \in Seq({q[n] : n \in DOMAIN q})

StoreShape ==
  /\ resv \in [Ops -> {"none", "reserved", "signed", "released", "confirmed"}]
  /\ issued \in 0..MaxAddress /\ free \subseteq 1..issued
  /\ On(worth, Ops) /\ \A o \in Ops : DOMAIN worth[o] \subseteq 1..issued
  /\ On(family, Ops) /\ \A o \in Ops : IsSeq(family[o])
  /\ On(sent, Ops) /\ On(mined, Ops) /\ On(row, Ops)
DeskShape ==
  /\ opLock \in [Ops -> Sessions \cup {Nobody}] /\ pc \in [Sessions -> QiPlaces]
  /\ On(job, Sessions) /\ \A s \in Sessions : JobShape(job[s], issued)
  /\ On(pending, Sessions)
  /\ \A s \in Sessions : \A p \in pending[s] : p.op \in Ops /\ p = Review(p.op, p.k, p.review)

\* Who prepares, signs or rejects has the operation's lock, and only who prepares has a pool.
QiLocks == \A s \in Sessions :
  /\ pc[s] # "idle" => job[s].op \in Ops
  /\ pc[s] \in Holding => opLock[job[s].op] = s
  /\ pc[s] \notin {"p_sdk", "p_rest"} => job[s].pool = {}

\* The first review of an operation: still to be approved or rejected, or being rejected.
Waits(s, o) == \/ \E p \in pending[s] : p.op = o /\ p.k = 1
               \/ pc[s] = "d_reclaim" /\ job[s].op = o

\* A claim begins with nothing, and is prepared by one session.
ClaimInv ==
  /\ \A o \in Ops : resv[o] = "none" => DOMAIN worth[o] = {} /\ Newest(o) = 0
  /\ \A s \in Sessions : pc[s] \in {"p_pool", "p_sdk", "p_sweep"} => resv[job[s].op] = "none"
  /\ \A s \in Sessions : pc[s] \in {"p_rest", "p_insert"} =>
       resv[job[s].op] = "reserved" /\ job[s].review.kept = DOMAIN worth[job[s].op]

\* The first review is in one place, and its change is its claim's.
ReviewInv ==
  /\ \A o \in Ops : resv[o] = "none" => \A s \in Sessions : ~Waits(s, o)
  /\ \A s, t \in Sessions : pc[s] \in {"p_rest", "p_insert"} => ~Waits(t, job[s].op)
  /\ \A o \in Ops : \A s, t \in Sessions : Waits(s, o) /\ Waits(t, o) => s = t
  /\ \A s \in Sessions : \A p, q \in pending[s] : p.k = 1 /\ q.k = 1 /\ p.op = q.op => p = q
  /\ \A s \in Sessions : \A p \in pending[s] : p.k = 1 =>
       /\ p.review.kept = DOMAIN worth[p.op]
       /\ ~(pc[s] = "d_reclaim" /\ job[s].op = p.op)
  /\ \A s \in Sessions : pc[s] = "d_reclaim" => job[s].review.kept = DOMAIN worth[job[s].op]

\* Whatever speaks of signed bytes speaks of a claim the Qi store has as signed.
SignedInv ==
  /\ \A o \in Ops : Newest(o) # 0 <=> resv[o] \in {"signed", "confirmed"}
  /\ \A o \in Ops : sent[o] # {} \/ mined[o] # 0 \/ row[o].hash # 0 => Newest(o) # 0
  /\ \A s \in Sessions : pc[s] \in {"c_mark", "c_send", "c_done"} => Newest(job[s].op) # 0

\* The addresses of an operation: its claim's, or those of a review that can still hand them back.
Names(o) == IF resv[o] \in Claimed \/ \E s \in Sessions : Waits(s, o) THEN DOMAIN worth[o] ELSE {}

PlaceInv ==
  /\ \A o \in Ops : /\ Names(o) \cap free = {}
                    /\ \A p \in Ops \ {o} : Names(o) \cap Names(p) = {}
                    /\ \A s \in Sessions : Names(o) \cap Pooled(s) = {}
  /\ \A s \in Sessions : /\ Pooled(s) \cap free = {}
                         /\ \A t \in Sessions \ {s} : Pooled(s) \cap Pooled(t) = {}

QiInv == StoreShape /\ DeskShape /\ QiLocks /\ ClaimInv /\ ReviewInv /\ SignedInv /\ PlaceInv

-----------------------------------------------------------------------------
(* Numbers and finite sets. *)

\* A set of naturals that is not empty has a least element, and Min is it.
LEMMA MinIsLeast == ASSUME NEW S \in SUBSET Nat, S # {} PROVE Min(S) \in S /\ \A m \in S : Min(S) <= m
<1>1. PICK R : R = OpToRel(<, Nat)
  OBVIOUS
<1>2. IsWellFoundedOn(R, Nat)
  BY <1>1, NatLessThanWellFounded
<1>3. PICK x \in S : \A y \in S : ~ (<<y, x>> \in R)
  BY <1>2, WFMin
<1>4. \A z, y \in Nat : z < y => <<z, y>> \in R
  BY <1>1 DEF OpToRel
<1>5. \A y \in S : ~(y < x)
  BY <1>3, <1>4
<1>6. \A y \in S : x <= y
  BY <1>5
<1> QED BY <1>6 DEF Min

\* A set of naturals that is bounded has a greatest element.
LEMMA GreatestIn ==
  ASSUME NEW b \in Nat, NEW S \in SUBSET (0..b), S # {}
  PROVE  \E g \in S : \A m \in S : m <= g
<1> DEFINE U == {n \in Nat : \A m \in S : m <= n}
<1>1. PICK n \in U : \A m \in U : n <= m
  <2>1. b \in U
    OBVIOUS
  <2> QED BY <2>1, MinIsLeast
<1>2. CASE n \in S
  BY <1>1, <1>2
<1>3. CASE n \notin S
  <2>1. PICK s \in S : TRUE
    OBVIOUS
  <2>2. s <= n /\ s # n /\ s \in Nat /\ n \in Nat
    BY <2>1, <1>1, <1>3
  <2>3. n - 1 \in Nat /\ \A m \in S : m <= n - 1
    BY <2>2, <1>1, <1>3
  <2> QED BY <2>3, <1>1
<1> QED BY <1>2, <1>3

\* The n lowest of a set are at most n of its elements.
LEMMA LowestFew ==
  ASSUME NEW n \in Nat, NEW b \in Nat, NEW S \in SUBSET (1..b)
  PROVE  /\ Lowest(n, S) \subseteq S
         /\ Cardinality(Lowest(n, S)) \in Nat /\ Cardinality(Lowest(n, S)) <= n
<1>1. PICK L : L = Lowest(n, S)
  OBVIOUS
<1>2. IsFiniteSet(S) /\ L \subseteq S /\ IsFiniteSet(L) /\ Cardinality(L) \in Nat
  <2>1. IsFiniteSet(1..b)
    BY FS_Interval
  <2>2. IsFiniteSet(S)
    BY <2>1, FS_Subset
  <2>3. L \subseteq S
    BY <1>1 DEF Lowest
  <2>4. IsFiniteSet(L)
    BY <2>2, <2>3, FS_Subset
  <2> QED BY <2>2, <2>3, <2>4, FS_CardinalityType
<1>3. CASE L = {}
  BY <1>1, <1>2, <1>3, FS_EmptySet
<1>4. CASE L # {}
  <2>1. PICK g \in L : \A m \in L : m <= g
    <3>1. L \in SUBSET (0..b)
      BY <1>2
    <3> QED BY <3>1, <1>4, GreatestIn
  <2>2. PICK B : B = {c \in S : c < g}
    OBVIOUS
  <2>3. IsFiniteSet(B) /\ Cardinality(B) \in Nat /\ Cardinality(B) < n
    BY <1>1, <1>2, <2>1, <2>2, FS_Subset, FS_CardinalityType DEF Lowest
  <2>4. L \ {g} \subseteq B /\ IsFiniteSet(L \ {g})
    BY <1>2, <2>1, <2>2, FS_Subset
  <2>5. Cardinality(L \ {g}) <= Cardinality(B)
    BY <2>3, <2>4, FS_Subset
  <2>6. Cardinality(L \ {g}) = Cardinality(L) - 1
    BY <1>2, <2>1, FS_RemoveElement
  <2> QED BY <1>1, <1>2, <2>3, <2>5, <2>6
<1> QED BY <1>3, <1>4

\* What a sequence grows by leaves it a sequence, one longer.
LEMMA GrownSeq ==
  ASSUME NEW q, IsSeq(q), NEW e
  PROVE  IsSeq(Append(q, e)) /\ Len(q) \in Nat /\ Len(Append(q, e)) = Len(q) + 1
<1>1. PICK S : S = {q[n] : n \in DOMAIN q} \cup {e}
  OBVIOUS
<1>2. q \in Seq(S) /\ e \in S
  <2>1. PICK R : R = {q[n] : n \in DOMAIN q}
    OBVIOUS
  <2>2. q \in Seq(R) /\ R \subseteq S
    BY <1>1, <2>1 DEF IsSeq
  <2>3. Len(q) \in Nat /\ q \in [1..Len(q) -> R]
    BY <2>2, LenProperties, ElementOfSeq
  <2>4. q \in [1..Len(q) -> S]
    BY <2>2, <2>3
  <2> QED BY <1>1, <2>3, <2>4
<1>3. PICK a : a = Append(q, e)
  OBVIOUS
<1>4. a \in Seq(S) /\ Len(a) = Len(q) + 1 /\ Len(q) \in Nat
  BY <1>2, <1>3
<1>5. Len(a) \in Nat /\ a \in [1..Len(a) -> S]
  BY <1>4
<1>6. a \in [1..Len(a) -> {a[n] : n \in DOMAIN a}]
  BY <1>5
<1>7. IsSeq(a)
  BY <1>5, <1>6 DEF IsSeq
<1> QED BY <1>3, <1>4, <1>7

-----------------------------------------------------------------------------
(* Shapes. *)

\* What a change at one place makes of a function.
LEMMA OnExcept ==
  ASSUME NEW f, NEW D, On(f, D), NEW d \in D, NEW e, NEW g, g = [f EXCEPT ![d] = e]
  PROVE  On(g, D) /\ g[d] = e /\ \A x \in D \ {d} : g[x] = f[x]
BY DEF On

\* The row after a transition, whether it was made or found the row changed.
LEMMA TransitionShape ==
  ASSUME On(row, Ops), NEW o \in Ops, NEW from, NEW new, Transition(o, from, new)
  PROVE  On(row', Ops) /\ row'[o] \in {row[o], new} /\ \A p \in Ops \ {o} : row'[p] = row[p]
<1>1. CASE row[o].st = from
  <2>1. row' = [row EXCEPT ![o] = new]
    BY <1>1 DEF Transition
  <2> QED BY <2>1 DEF On
<1>2. CASE row[o].st # from
  BY <1>2 DEF Transition
<1> QED BY <1>1, <1>2

\* Where a pool can start, and what it takes.
LEMMA PoolTaken ==
  ASSUME StoreShape, DeskShape, NEW s \in Sessions, Allocate(s)
  PROVE  \E old \in SUBSET free : \E start \in issued..MaxAddress :
           /\ issued' \in start..MaxAddress /\ free' = free \ old
           /\ job' = [job EXCEPT ![s].pool = old \cup (start + 1)..issued']
<1>1. PICK n : n = job[s].size
  OBVIOUS
<1>2. n \in Nat /\ MaxAddress \in Nat /\ issued \in Nat /\ free \in SUBSET (1..issued)
  BY <1>1, QiBounds DEF StoreShape, DeskShape, JobShape
<1>3. PICK old : old = Lowest(n, free)
  OBVIOUS
<1>4. /\ old \subseteq free /\ Cardinality(old) \in Nat /\ Cardinality(old) <= n
  BY <1>2, <1>3, LowestFew
<1>5. PICK fresh : fresh = n - Cardinality(old)
  OBVIOUS
<1>6. fresh \in 0..n
  BY <1>2, <1>4, <1>5
<1>7. PICK start : start = Min(Starts(n))
  OBVIOUS
<1>8. Starts(n) \in SUBSET Nat /\ Starts(n) # {} /\ \A c \in Starts(n) : c \in issued..(MaxAddress - n)
  BY <1>1, <1>2 DEF Starts, Allocate
<1>9. start \in issued..(MaxAddress - n)
  BY <1>7, <1>8, MinIsLeast
<1>10. /\ job' = [job EXCEPT ![s].pool = old \cup (start + 1)..(start + fresh)]
       /\ issued' = start + fresh /\ free' = free \ old
  BY <1>1, <1>3, <1>5, <1>7 DEF Allocate
<1>11. start \in issued..MaxAddress /\ issued' \in start..MaxAddress
  BY <1>2, <1>6, <1>9, <1>10
<1> QED BY <1>4, <1>10, <1>11

\* The claim takes its change from the pool.
LEMMA ClaimTakes ==
  ASSUME StoreShape, DeskShape, NEW s \in Sessions, Claim(s), job[s].op \in Ops
  PROVE  \E mine \in SUBSET job[s].pool : \E w, r :
           /\ DOMAIN w = mine /\ r.kept = mine
           /\ worth' = [worth EXCEPT ![job[s].op] = w]
           /\ job' = [job EXCEPT ![s].pool = job[s].pool \ mine, ![s].review = r]
<1>1. PICK q \in Quotes :
       LET mine == Lowest(Len(q), job[s].pool) IN
         /\ worth' = [worth EXCEPT ![job[s].op] = [a \in mine |-> q[Cardinality({b \in mine : b <= a})]]]
         /\ job' = [job EXCEPT ![s].pool = job[s].pool \ mine, ![s].review = Candidate(mine, 0, TRUE)]
  BY DEF Claim
<1>2. PICK mine : mine = Lowest(Len(q), job[s].pool)
  OBVIOUS
<1>3. mine \subseteq job[s].pool
  BY <1>2 DEF Lowest
<1>4. PICK w : w = [a \in mine |-> q[Cardinality({b \in mine : b <= a})]]
  OBVIOUS
<1>5. PICK r : r = Candidate(mine, 0, TRUE)
  OBVIOUS
<1>6. DOMAIN w = mine /\ r.kept = mine
  BY <1>4, <1>5 DEF Candidate
<1>7. worth' = [worth EXCEPT ![job[s].op] = w]
  BY <1>1, <1>2, <1>4
<1>8. job' = [job EXCEPT ![s].pool = job[s].pool \ mine, ![s].review = r]
  BY <1>1, <1>2, <1>5
<1> QED BY <1>3, <1>6, <1>7, <1>8

\* A step of a session changes nothing of another's, and of the locks only its own.
Alone(s) ==
  /\ \A t \in Sessions \ {s} : pc'[t] = pc[t] /\ job'[t] = job[t] /\ pending'[t] = pending[t]
  /\ \A o \in Ops : opLock'[o] # opLock[o] => opLock[o] \in {s, Nobody} /\ opLock'[o] \in {s, Nobody}

\* Starting to do something.
LEMMA BeginAlone ==
  ASSUME DeskShape, NEW s \in Sessions, Begin(s)
  PROVE  Alone(s)
<1>lock. ASSUME NEW o, Lock(s, o) PROVE \A p \in Ops : opLock'[p] # opLock[p] => opLock[p] = Nobody /\ opLock'[p] = s
  BY <1>lock DEF Lock, DeskShape
<1>1. ASSUME NEW o \in Ops, PrepareBegin(s, o) PROVE Alone(s)
  <2>1. pending' = pending /\ Lock(s, o) /\ \E j, p : job' = [job EXCEPT ![s] = j] /\ pc' = [pc EXCEPT ![s] = p]
    BY <1>1 DEF PrepareBegin, Goto
  <2> QED BY <2>1, <1>lock DEF Alone, DeskShape, On
<1>2. ASSUME NEW o \in Ops, SpeedUpBegin(s, o) PROVE Alone(s)
  BY <1>2 DEF Alone, SpeedUpBegin, Goto, DeskShape, On
<1>3. ASSUME NEW o \in Ops, RebroadcastBegin(s, o) PROVE Alone(s)
  BY <1>3 DEF Alone, RebroadcastBegin, Goto, DeskShape, On
<1>4. ASSUME NEW o \in Ops, AbandonBegin(s, o) PROVE Alone(s)
  BY <1>4 DEF Alone, AbandonBegin, Goto, DeskShape, On
<1>5. ASSUME NEW o \in Ops, Reconcile(s, o) PROVE Alone(s)
  BY <1>5 DEF Alone, Reconcile
<1>6. ASSUME NEW o \in Ops, TrackRead(s, o) PROVE Alone(s)
  BY <1>6 DEF Alone, TrackRead, Goto, DeskShape, On
<1>7. ASSUME NEW p \in pending[s], CommitBegin(s, p) PROVE Alone(s)
  <2>1. Lock(s, p.op) /\ \E j, q, r : /\ job' = [job EXCEPT ![s] = j] /\ pc' = [pc EXCEPT ![s] = q]
                                      /\ pending' = [pending EXCEPT ![s] = r]
    BY <1>7 DEF CommitBegin, Goto
  <2> QED BY <2>1, <1>lock DEF Alone, DeskShape, On
<1>8. ASSUME NEW p \in pending[s], DiscardBegin(s, p) PROVE Alone(s)
  <2>1. \E r : pending' = [pending EXCEPT ![s] = r]
    BY <1>8 DEF DiscardBegin
  <2>2. \/ UNCHANGED <<opLock, job, pc>>
        \/ /\ opLock[p.op] = Nobody /\ opLock' = [opLock EXCEPT ![p.op] = s]
           /\ \E j, q : job' = [job EXCEPT ![s] = j] /\ pc' = [pc EXCEPT ![s] = q]
    BY <1>8 DEF DiscardBegin, Goto
  <2> QED BY <2>1, <2>2 DEF Alone, DeskShape, On
<1> QED BY <1>1, <1>2, <1>3, <1>4, <1>5, <1>6, <1>7, <1>8 DEF Begin

\* Going on with it, or dying.
LEMMA ProceedAlone ==
  ASSUME DeskShape, NEW s \in Sessions, Proceed(s) \/ Crash(s)
  PROVE  Alone(s)
<1>return. ASSUME Return(s)
           PROVE  /\ \A t \in Sessions \ {s} : pc'[t] = pc[t] /\ job'[t] = job[t]
                  /\ \A o \in Ops : opLock'[o] # opLock[o] => opLock[o] = s /\ opLock'[o] = Nobody
  BY <1>return DEF Return, Goto, DeskShape, On
<1>goto. ASSUME NEW p, Goto(s, p), UNCHANGED <<opLock, pending>>,
                UNCHANGED job \/ \E j : job' = [job EXCEPT ![s] = j]
         PROVE  Alone(s)
  BY <1>goto DEF Alone, Goto, DeskShape, On
<1>ends. ASSUME Return(s), UNCHANGED pending \/ \E r : pending' = [pending EXCEPT ![s] = r] PROVE Alone(s)
  BY <1>ends, <1>return DEF Alone, DeskShape, On
<1>1. ASSUME Allocate(s) PROVE Alone(s)
  BY <1>1, <1>goto DEF Allocate
<1>2. ASSUME Grow(s) PROVE Alone(s)
  BY <1>2, <1>goto DEF Grow
<1>3. ASSUME Claim(s) PROVE Alone(s)
  BY <1>3, <1>goto DEF Claim
<1>4. ASSUME ClaimSweep(s) PROVE Alone(s)
  BY <1>4, <1>goto DEF ClaimSweep
<1>5. ASSUME HandBack(s) PROVE Alone(s)
  BY <1>5, <1>goto DEF HandBack
<1>6. ASSUME PrepareFails(s) \/ JournalFails(s) \/ SpeedUpFails(s) \/ CommitRefused(s) PROVE Alone(s)
  BY <1>6, <1>ends DEF PrepareFails, JournalFails, SpeedUpFails, CommitRefused
<1>7. ASSUME Journal(s) PROVE Alone(s)
  BY <1>7, <1>ends DEF Journal
<1>8. ASSUME SpeedUpOffer(s) PROVE Alone(s)
  <2>1. Return(s) /\ \E r : pending' = [pending EXCEPT ![s] = r]
    BY <1>8 DEF SpeedUpOffer
  <2> QED BY <2>1, <1>ends
<1>9. ASSUME Sign(s) \/ Mark(s) \/ Record(s) PROVE Alone(s)
  BY <1>9, <1>goto DEF Sign, Mark, Record
<1>10. ASSUME Send(s) PROVE Alone(s)
  BY <1>10, <1>goto DEF Send, Broadcast
<1>11. ASSUME Done(s) \/ DiscardRefused(s) \/ Cancel(s) \/ TrackApply(s) \/ TrackSkip(s) PROVE Alone(s)
  BY <1>11, <1>ends DEF Done, DiscardRefused, Cancel, TrackApply, TrackSkip
<1>12. ASSUME Reclaim(s) \/ AbandonRelease(s) PROVE Alone(s)
  BY <1>12, <1>goto DEF Reclaim, AbandonRelease
<1>13. ASSUME AbandonLock(s) PROVE Alone(s)
  BY <1>13 DEF AbandonLock, Lock, Alone, Goto, DeskShape, On
<1>14. ASSUME Crash(s) PROVE Alone(s)
  BY <1>14, <1>ends DEF Crash
<1> QED BY <1>1, <1>2, <1>3, <1>4, <1>5, <1>6, <1>7, <1>8, <1>9, <1>10, <1>11, <1>12, <1>13, <1>14 DEF Proceed

\* A job that begins has no pool.
LEMMA JobShapes ==
  ASSUME NEW last \in Nat, NEW o \in Ops \cup {NoOp}, NEW k, NEW r
  PROVE  /\ JobShape(JobOf(o, k, r), last) /\ JobOf(o, k, r).pool = {}
         /\ JobOf(o, k, r).op = o /\ JobOf(o, k, r).k = k /\ JobOf(o, k, r).review = r
         /\ JobShape(NoJob, last) /\ NoJob.pool = {} /\ NoJob.op = NoOp
         /\ JobShape(ReadOf(o), last) /\ ReadOf(o).pool = {} /\ ReadOf(o).op = o /\ ReadOf(o).k = row[o].hash
<1>1. \A p \in Ops \cup {NoOp} : \A h, c : /\ JobShape(JobOf(p, h, c), last) /\ JobOf(p, h, c).pool = {}
        /\ JobOf(p, h, c).op = p /\ JobOf(p, h, c).k = h /\ JobOf(p, h, c).review = c
  BY DEF JobOf, JobShape
<1>2. PICK j : j = JobOf(o, row[o].hash, NoCandidate)
  OBVIOUS
<1>3. JobShape(j, last) /\ j.pool = {} /\ j.op = o /\ j.k = row[o].hash
  BY <1>1, <1>2
<1>4. PICK j2 : j2 = ReadOf(o)
  OBVIOUS
<1>5. j2 = [j EXCEPT !.from = row[o].st, !.fee = row[o].fee, !.listed = row[o].listed]
  BY <1>2, <1>4 DEF ReadOf
<1>6. JobShape(j2, last) /\ j2.pool = {} /\ j2.op = o /\ j2.k = row[o].hash
  BY <1>3, <1>5 DEF JobShape
<1> QED BY <1>1, <1>4, <1>6 DEF NoJob

\* A job of its own stays what it was; one that is replaced is one.
LEMMA JobsShape ==
  ASSUME DeskShape, issued \in Nat, issued' \in Nat, issued <= issued', NEW s \in Sessions, NEW j,
         JobShape(j, issued'), job' = [job EXCEPT ![s] = j]
  PROVE  On(job', Sessions) /\ (\A t \in Sessions : JobShape(job'[t], issued')) /\ job'[s] = j
<1>1. ASSUME NEW t \in Sessions PROVE JobShape(job[t], issued')
  <2>1. 1..issued \subseteq 1..issued'
    OBVIOUS
  <2>2. JobShape(job[t], issued)
    BY DEF DeskShape
  <2> QED BY <2>1, <2>2 DEF JobShape
<1> QED BY <1>1 DEF DeskShape, On

\* Whoever begins, the desks are what they should be.
LEMMA DeskBegin ==
  ASSUME StoreShape, DeskShape, NEW s \in Sessions, Begin(s)
  PROVE  DeskShape'
<1> USE QiBounds
<1>i. issued \in Nat /\ issued' = issued
  <2>1. issued' = issued
    BY DEF Begin, PrepareBegin, SpeedUpBegin, RebroadcastBegin, AbandonBegin, Reconcile, TrackRead, CommitBegin,
           DiscardBegin, pools
  <2> QED BY <2>1 DEF StoreShape
<1>goto. ASSUME NEW p \in QiPlaces, Goto(s, p), NEW j, JobShape(j, issued), job' = [job EXCEPT ![s] = j],
                opLock' \in [Ops -> Sessions \cup {Nobody}],
                On(pending', Sessions),
                \A t \in Sessions : \A c \in pending'[t] : c.op \in Ops /\ c = Review(c.op, c.k, c.review)
         PROVE  DeskShape'
  <2>0. issued \in Nat /\ issued' \in Nat /\ issued <= issued' /\ JobShape(j, issued')
    BY <1>goto, <1>i
  <2>1. On(job', Sessions) /\ \A t \in Sessions : JobShape(job'[t], issued')
    BY <1>goto, <2>0, JobsShape
  <2>2. pc' \in [Sessions -> QiPlaces]
    BY <1>goto DEF Goto, DeskShape
  <2> QED BY <1>goto, <2>1, <2>2 DEF DeskShape
<1>pend. ASSUME pending' = pending
         PROVE  /\ On(pending', Sessions)
                /\ \A t \in Sessions : \A c \in pending'[t] : c.op \in Ops /\ c = Review(c.op, c.k, c.review)
  BY <1>pend DEF DeskShape
<1>less. ASSUME NEW p, pending' = [pending EXCEPT ![s] = @ \ {p}]
         PROVE  /\ On(pending', Sessions)
                /\ \A t \in Sessions : \A c \in pending'[t] : c.op \in Ops /\ c = Review(c.op, c.k, c.review)
  <2>1. On(pending', Sessions) /\ \A t \in Sessions : pending'[t] \subseteq pending[t]
    BY <1>less DEF DeskShape, On
  <2> QED BY <2>1 DEF DeskShape
<1>lock. ASSUME NEW o \in Ops, Lock(s, o) PROVE opLock' \in [Ops -> Sessions \cup {Nobody}]
  BY <1>lock DEF Lock, DeskShape
<1>free. opLock \in [Ops -> Sessions \cup {Nobody}]
  BY DEF DeskShape
<1>read. ASSUME NEW o \in Ops PROVE JobShape(ReadOf(o), issued) /\ JobShape(JobOf(o, 1, NoCandidate), issued)
  BY <1>i, JobShapes
<1>1. ASSUME NEW o \in Ops, PrepareBegin(s, o) PROVE DeskShape'
  <2>1. PICK j : j = JobOf(o, 1, NoCandidate)
    OBVIOUS
  <2>2. PICK j2 : j2 = [j EXCEPT !.size = FirstPool]
    OBVIOUS
  <2>3. JobShape(j2, issued)
    BY <2>1, <2>2, <1>read DEF JobShape
  <2>4. job' = [job EXCEPT ![s] = j2]
    BY <1>1, <2>1, <2>2 DEF PrepareBegin
  <2>5. PICK p \in {"p_pool", "p_sweep"} : Goto(s, p)
    BY <1>1 DEF PrepareBegin
  <2>6. p \in QiPlaces
    BY <2>5 DEF QiPlaces
  <2>7. Lock(s, o) /\ pending' = pending
    BY <1>1 DEF PrepareBegin
  <2> QED BY <2>3, <2>4, <2>5, <2>6, <2>7, <1>goto, <1>pend, <1>lock
<1>2. ASSUME NEW o \in Ops, SpeedUpBegin(s, o) PROVE DeskShape'
  <2>1. job' = [job EXCEPT ![s] = ReadOf(o)] /\ Goto(s, "u_offer") /\ opLock' = opLock /\ pending' = pending
    BY <1>2 DEF SpeedUpBegin
  <2>2. "u_offer" \in QiPlaces
    BY DEF QiPlaces
  <2> QED BY <2>1, <2>2, <1>goto, <1>pend, <1>free, <1>read
<1>3. ASSUME NEW o \in Ops, RebroadcastBegin(s, o) PROVE DeskShape'
  <2>1. job' = [job EXCEPT ![s] = ReadOf(o)] /\ Goto(s, "c_send") /\ opLock' = opLock /\ pending' = pending
    BY <1>3 DEF RebroadcastBegin
  <2>2. "c_send" \in QiPlaces
    BY DEF QiPlaces
  <2> QED BY <2>1, <2>2, <1>goto, <1>pend, <1>free, <1>read
<1>4. ASSUME NEW o \in Ops, AbandonBegin(s, o) PROVE DeskShape'
  <2>1. job' = [job EXCEPT ![s] = JobOf(o, 1, NoCandidate)] /\ Goto(s, "a_lock") /\ opLock' = opLock /\ pending' = pending
    BY <1>4 DEF AbandonBegin
  <2>2. "a_lock" \in QiPlaces
    BY DEF QiPlaces
  <2> QED BY <2>1, <2>2, <1>goto, <1>pend, <1>free, <1>read
<1>5. ASSUME NEW o \in Ops, Reconcile(s, o) PROVE DeskShape'
  BY <1>5, <1>i DEF Reconcile, DeskShape
<1>6. ASSUME NEW o \in Ops, TrackRead(s, o) PROVE DeskShape'
  <2>1. job' = [job EXCEPT ![s] = ReadOf(o)] /\ Goto(s, "t_apply") /\ opLock' = opLock /\ pending' = pending
    BY <1>6 DEF TrackRead
  <2>2. "t_apply" \in QiPlaces
    BY DEF QiPlaces
  <2> QED BY <2>1, <2>2, <1>goto, <1>pend, <1>free, <1>read
<1>7. ASSUME NEW p \in pending[s], CommitBegin(s, p) PROVE DeskShape'
  <2>1. p.op \in Ops
    BY DEF DeskShape
  <2>2. PICK j : j = JobOf(p.op, p.k, p.review)
    OBVIOUS
  <2>3. JobShape(j, issued)
    BY <2>1, <2>2, <1>i, JobShapes
  <2>4. job' = [job EXCEPT ![s] = j] /\ Goto(s, "c_sign") /\ Lock(s, p.op) /\ pending' = [pending EXCEPT ![s] = @ \ {p}]
    BY <1>7, <2>2 DEF CommitBegin
  <2>5. "c_sign" \in QiPlaces
    BY DEF QiPlaces
  <2>6. opLock' \in [Ops -> Sessions \cup {Nobody}]
    BY <2>1, <2>4, <1>lock
  <2> QED BY <2>3, <2>4, <2>5, <2>6, <1>goto, <1>less
<1>8. ASSUME NEW p \in pending[s], DiscardBegin(s, p) PROVE DeskShape'
  <2>1. p.op \in Ops
    BY DEF DeskShape
  <2>2. pending' = [pending EXCEPT ![s] = @ \ {p}]
    BY <1>8 DEF DiscardBegin
  <2>3. CASE p.k = 1 /\ opLock[p.op] = Nobody
    <3>1. PICK j : j = JobOf(p.op, 1, p.review)
      OBVIOUS
    <3>2. JobShape(j, issued)
      BY <2>1, <3>1, <1>i, JobShapes
    <3>3. job' = [job EXCEPT ![s] = j] /\ Goto(s, "d_reclaim") /\ opLock' = [opLock EXCEPT ![p.op] = s]
      BY <1>8, <2>3, <3>1 DEF DiscardBegin
    <3>4. "d_reclaim" \in QiPlaces /\ opLock' \in [Ops -> Sessions \cup {Nobody}]
      BY <3>3 DEF QiPlaces, DeskShape
    <3> QED BY <2>2, <3>2, <3>3, <3>4, <1>goto, <1>less
  <2>4. CASE ~(p.k = 1 /\ opLock[p.op] = Nobody)
    <3>1. UNCHANGED <<opLock, job, pc>>
      BY <1>8, <2>4 DEF DiscardBegin
    <3> QED BY <2>2, <3>1, <1>i, <1>less DEF DeskShape
  <2> QED BY <2>3, <2>4
<1> QED BY <1>1, <1>2, <1>3, <1>4, <1>5, <1>6, <1>7, <1>8 DEF Begin

\* Whoever goes on, or dies, the desks are what they should be.
LEMMA DeskProceed ==
  ASSUME StoreShape, DeskShape, QiLocks, NEW s \in Sessions, Proceed(s) \/ Crash(s)
  PROVE  DeskShape'
<1> USE QiBounds
<1>t. /\ issued \in Nat /\ MaxAddress \in Nat /\ JobShape(job[s], issued)
      /\ pc \in [Sessions -> QiPlaces] /\ On(job, Sessions)
      /\ opLock \in [Ops -> Sessions \cup {Nobody}]
  BY DEF StoreShape, DeskShape
<1>pend. ASSUME pending' = pending
         PROVE  /\ On(pending', Sessions)
                /\ \A t \in Sessions : \A c \in pending'[t] : c.op \in Ops /\ c = Review(c.op, c.k, c.review)
  BY <1>pend DEF DeskShape
<1>goto. ASSUME NEW p \in QiPlaces, Goto(s, p), NEW j, JobShape(j, issued'), job' = [job EXCEPT ![s] = j],
                opLock' = opLock, pending' = pending, issued' \in issued..MaxAddress
         PROVE  DeskShape'
  <2>1. issued \in Nat /\ issued' \in Nat /\ issued <= issued'
    BY <1>goto, <1>t
  <2>2. On(job', Sessions) /\ \A t \in Sessions : JobShape(job'[t], issued')
    BY <1>goto, <2>1, JobsShape
  <2>3. pc' \in [Sessions -> QiPlaces]
    BY <1>goto, <1>t DEF Goto
  <2> QED BY <1>goto, <1>t, <1>pend, <2>2, <2>3 DEF DeskShape
<1>keep. ASSUME NEW p \in QiPlaces, Goto(s, p), UNCHANGED <<job, opLock, pending, issued>>
         PROVE  DeskShape'
  <2>1. pc' \in [Sessions -> QiPlaces]
    BY <1>keep, <1>t DEF Goto
  <2> QED BY <1>keep, <2>1 DEF DeskShape
<1>return. ASSUME Return(s), issued' = issued, On(pending', Sessions),
                  \A t \in Sessions : \A c \in pending'[t] : c.op \in Ops /\ c = Review(c.op, c.k, c.review)
           PROVE  DeskShape'
  <2>1. job' = [job EXCEPT ![s] = NoJob] /\ Goto(s, "idle")
    BY <1>return DEF Return
  <2>2. opLock' \in [Ops -> Sessions \cup {Nobody}]
    BY <1>return, <1>t DEF Return
  <2>3. pc' \in [Sessions -> QiPlaces]
    BY <2>1, <1>t DEF Goto, QiPlaces
  <2>4. issued \in Nat /\ issued' \in Nat /\ issued <= issued' /\ JobShape(NoJob, issued')
    <3>1. NoOp \in Ops \cup {NoOp} /\ issued' \in Nat
      BY <1>return, <1>t
    <3> QED BY <3>1, <1>return, <1>t, JobShapes
  <2>5. On(job', Sessions) /\ \A t \in Sessions : JobShape(job'[t], issued')
    BY <2>1, <2>4, JobsShape
  <2> QED BY <1>return, <2>2, <2>3, <2>5 DEF DeskShape
<1>ends. ASSUME Return(s), pending' = pending, issued' = issued PROVE DeskShape'
  BY <1>ends, <1>pend, <1>return
<1>1. ASSUME Allocate(s) PROVE DeskShape'
  <2>1. PICK old \in SUBSET free : \E start \in issued..MaxAddress :
          /\ issued' \in start..MaxAddress /\ free' = free \ old
          /\ job' = [job EXCEPT ![s].pool = old \cup (start + 1)..issued']
    BY <1>1, PoolTaken
  <2>2. PICK start \in issued..MaxAddress :
          /\ issued' \in start..MaxAddress
          /\ job' = [job EXCEPT ![s].pool = old \cup (start + 1)..issued']
    BY <2>1
  <2>3. PICK A : A = old \cup (start + 1)..issued'
    OBVIOUS
  <2>4. A \subseteq 1..issued' /\ issued' \in issued..MaxAddress
    BY <2>1, <2>2, <2>3, <1>t DEF StoreShape
  <2>5. PICK j : j = [job[s] EXCEPT !.pool = A]
    OBVIOUS
  <2>6. JobShape(j, issued')
    BY <2>4, <2>5, <1>t DEF JobShape
  <2>7. job' = [job EXCEPT ![s] = j]
    BY <2>2, <2>3, <2>5
  <2>8. Goto(s, "p_sdk") /\ opLock' = opLock /\ pending' = pending
    BY <1>1 DEF Allocate
  <2>9. "p_sdk" \in QiPlaces
    BY DEF QiPlaces
  <2> QED BY <2>4, <2>6, <2>7, <2>8, <2>9, <1>goto
<1>2. ASSUME Grow(s) PROVE DeskShape'
  <2>1. PICK n : n = Min({2 * job[s].size, MaxPool})
    OBVIOUS
  <2>2. n \in Nat
    <3>1. {2 * job[s].size, MaxPool} \in SUBSET Nat
      BY <1>t DEF JobShape
    <3>2. {2 * job[s].size, MaxPool} # {}
      OBVIOUS
    <3> QED BY <2>1, <3>1, <3>2, MinIsLeast
  <2>3. PICK j : j = [job[s] EXCEPT !.pool = {}]
    OBVIOUS
  <2>4. PICK j2 : j2 = [j EXCEPT !.size = n]
    OBVIOUS
  <2>5. JobShape(j2, issued)
    BY <2>2, <2>3, <2>4, <1>t DEF JobShape
  <2>6. job' = [job EXCEPT ![s].pool = {}, ![s].size = n] /\ Goto(s, "p_pool") /\ UNCHANGED <<opLock, pending, issued>>
    BY <1>2, <2>1, <1>t DEF Grow
  <2>7. job' = [job EXCEPT ![s] = j2]
    BY <2>3, <2>4, <2>6, <1>t DEF On
  <2>8. "p_pool" \in QiPlaces /\ issued' \in issued..MaxAddress /\ JobShape(j2, issued')
    BY <2>5, <2>6, <1>t DEF QiPlaces, StoreShape
  <2> QED BY <2>6, <2>7, <2>8, <1>goto
<1>3. ASSUME Claim(s) PROVE DeskShape'
  <2>0. job[s].op \in Ops
    BY <1>3 DEF Claim, QiLocks
  <2>1. PICK mine \in SUBSET job[s].pool : \E w, r :
          /\ DOMAIN w = mine /\ r.kept = mine
          /\ worth' = [worth EXCEPT ![job[s].op] = w]
          /\ job' = [job EXCEPT ![s].pool = job[s].pool \ mine, ![s].review = r]
    BY <1>3, <2>0, ClaimTakes
  <2>2. PICK w, r : job' = [job EXCEPT ![s].pool = job[s].pool \ mine, ![s].review = r]
    BY <2>1
  <2>3. PICK j : j = [job[s] EXCEPT !.pool = job[s].pool \ mine]
    OBVIOUS
  <2>4. PICK j2 : j2 = [j EXCEPT !.review = r]
    OBVIOUS
  <2>5. JobShape(j2, issued)
    BY <2>3, <2>4, <1>t DEF JobShape
  <2>6. Goto(s, "p_rest") /\ UNCHANGED <<opLock, pending, issued>>
    BY <1>3 DEF Claim, pools
  <2>7. job' = [job EXCEPT ![s] = j2]
    BY <2>2, <2>3, <2>4, <1>t DEF On
  <2>8. "p_rest" \in QiPlaces /\ issued' \in issued..MaxAddress /\ JobShape(j2, issued')
    BY <2>5, <2>6, <1>t DEF QiPlaces, StoreShape
  <2> QED BY <2>6, <2>7, <2>8, <1>goto
<1>4. ASSUME ClaimSweep(s) PROVE DeskShape'
  <2>1. PICK r : r = Candidate({}, 0, TRUE)
    OBVIOUS
  <2>2. PICK j : j = [job[s] EXCEPT !.review = r]
    OBVIOUS
  <2>3. job' = [job EXCEPT ![s] = j] /\ Goto(s, "p_insert") /\ UNCHANGED <<opLock, pending, issued>>
    BY <1>4, <2>1, <2>2 DEF ClaimSweep, pools
  <2>4. "p_insert" \in QiPlaces /\ issued' \in issued..MaxAddress /\ JobShape(j, issued')
    BY <2>2, <2>3, <1>t DEF QiPlaces, StoreShape, JobShape
  <2> QED BY <2>3, <2>4, <1>goto
<1>5. ASSUME HandBack(s) PROVE DeskShape'
  <2>2. PICK j : j = [job[s] EXCEPT !.pool = {}]
    OBVIOUS
  <2>3. job' = [job EXCEPT ![s] = j] /\ Goto(s, "p_insert") /\ UNCHANGED <<opLock, pending, issued>>
    BY <1>5, <2>2 DEF HandBack
  <2>4. "p_insert" \in QiPlaces /\ issued' \in issued..MaxAddress /\ JobShape(j, issued')
    BY <2>2, <2>3, <1>t DEF QiPlaces, StoreShape, JobShape
  <2> QED BY <2>3, <2>4, <1>goto
<1>6. ASSUME PrepareFails(s) \/ JournalFails(s) \/ SpeedUpFails(s) \/ CommitRefused(s) PROVE DeskShape'
  BY <1>6, <1>ends DEF PrepareFails, JournalFails, SpeedUpFails, CommitRefused, pools
<1>7. ASSUME Journal(s) PROVE DeskShape'
  <2>1. job[s].op \in Ops
    BY <1>7 DEF Journal, QiLocks
  <2>2. PICK p : p = Review(job[s].op, 1, job[s].review)
    OBVIOUS
  <2>3. p.op \in Ops /\ p = Review(p.op, p.k, p.review)
    BY <2>1, <2>2 DEF Review
  <2>4. pending' = [pending EXCEPT ![s] = @ \cup {p}] /\ Return(s) /\ issued' = issued
    BY <1>7, <2>2 DEF Journal, pools
  <2>5. /\ On(pending', Sessions)
        /\ \A t \in Sessions : \A c \in pending'[t] : c.op \in Ops /\ c = Review(c.op, c.k, c.review)
    BY <2>3, <2>4 DEF DeskShape, On
  <2> QED BY <2>4, <2>5, <1>return
<1>8. ASSUME SpeedUpOffer(s) PROVE DeskShape'
  <2>1. job[s].op \in Ops
    BY <1>8 DEF SpeedUpOffer, QiLocks
  <2>2. \E k, r : pending' = [pending EXCEPT ![s] = {p \in @ : p.op # job[s].op \/ p.k # k} \cup {Review(job[s].op, k, r)}]
    BY <1>8 DEF SpeedUpOffer
  <2>3. PICK k, r : pending' = [pending EXCEPT ![s] = {p \in @ : p.op # job[s].op \/ p.k # k} \cup {Review(job[s].op, k, r)}]
    BY <2>2
  <2>4. PICK p : p = Review(job[s].op, k, r)
    OBVIOUS
  <2>5. p.op \in Ops /\ p = Review(p.op, p.k, p.review)
    BY <2>1, <2>4 DEF Review
  <2>6. /\ On(pending', Sessions)
        /\ \A t \in Sessions : pending'[t] \subseteq pending[t] \cup {p}
    BY <2>3, <2>4 DEF DeskShape, On
  <2>7. /\ On(pending', Sessions)
        /\ \A t \in Sessions : \A c \in pending'[t] : c.op \in Ops /\ c = Review(c.op, c.k, c.review)
    BY <2>5, <2>6 DEF DeskShape
  <2>8. Return(s) /\ issued' = issued
    BY <1>8 DEF SpeedUpOffer, pools
  <2> QED BY <2>7, <2>8, <1>return
<1>9. ASSUME Sign(s) \/ Mark(s) \/ Record(s) PROVE DeskShape'
  <2>1. \E p \in {"c_mark", "c_send"} : Goto(s, p)
    BY <1>9 DEF Sign, Mark, Record
  <2>2. {"c_mark", "c_send"} \subseteq QiPlaces
    BY DEF QiPlaces
  <2>3. UNCHANGED <<job, opLock, pending, issued>>
    BY <1>9 DEF Sign, Mark, Record, pools
  <2> QED BY <2>1, <2>2, <2>3, <1>keep
<1>10. ASSUME Send(s) PROVE DeskShape'
  <2>1. PICK r : job' = [job EXCEPT ![s].reply = r]
    BY <1>10 DEF Send, Broadcast
  <2>2. PICK j : j = [job[s] EXCEPT !.reply = r]
    OBVIOUS
  <2>3. job' = [job EXCEPT ![s] = j] /\ Goto(s, "c_done") /\ UNCHANGED <<opLock, pending, issued>>
    BY <1>10, <2>1, <2>2 DEF Send, Broadcast, pools
  <2>4. "c_done" \in QiPlaces /\ issued' \in issued..MaxAddress /\ JobShape(j, issued')
    BY <2>2, <2>3, <1>t DEF QiPlaces, StoreShape, JobShape
  <2> QED BY <2>3, <2>4, <1>goto
<1>11. ASSUME Done(s) \/ DiscardRefused(s) \/ Cancel(s) \/ TrackApply(s) \/ TrackSkip(s) PROVE DeskShape'
  BY <1>11, <1>ends DEF Done, DiscardRefused, Cancel, TrackApply, TrackSkip, pools
<1>12. ASSUME Reclaim(s) \/ AbandonRelease(s) PROVE DeskShape'
  BY <1>12, <1>keep DEF Reclaim, AbandonRelease, QiPlaces, pools
<1>13. ASSUME AbandonLock(s) PROVE DeskShape'
  BY <1>13, <1>t DEF AbandonLock, Lock, Goto, DeskShape, QiPlaces, pools
<1>14. ASSUME Crash(s) PROVE DeskShape'
  <2>1. pending' = [pending EXCEPT ![s] = {}] /\ Return(s) /\ issued' = issued
    BY <1>14 DEF Crash, pools
  <2>2. On(pending', Sessions) /\ \A t \in Sessions : pending'[t] \subseteq pending[t]
    BY <2>1 DEF DeskShape, On
  <2>3. \A t \in Sessions : \A c \in pending'[t] : c.op \in Ops /\ c = Review(c.op, c.k, c.review)
    BY <2>2 DEF DeskShape
  <2> QED BY <2>1, <2>2, <2>3, <1>return
<1> QED BY <1>1, <1>2, <1>3, <1>4, <1>5, <1>6, <1>7, <1>8, <1>9, <1>10, <1>11, <1>12, <1>13, <1>14 DEF Proceed

\* Beginning changes no claim and no address.
LEMMA BeginKeeps ==
  ASSUME NEW s \in Sessions, Begin(s)
  PROVE  UNCHANGED <<resv, worth, family, issued, free, sent, mined>>
<1>1. \A o \in Ops : PrepareBegin(s, o) \/ SpeedUpBegin(s, o) \/ RebroadcastBegin(s, o)
        => UNCHANGED <<resv, worth, family, issued, free, sent, mined>>
  BY DEF PrepareBegin, SpeedUpBegin, RebroadcastBegin, claims, pools, node
<1>2. \A o \in Ops : AbandonBegin(s, o) \/ Reconcile(s, o) \/ TrackRead(s, o)
        => UNCHANGED <<resv, worth, family, issued, free, sent, mined>>
  BY DEF AbandonBegin, Reconcile, TrackRead, claims, pools, node
<1>3. \A p \in pending[s] : CommitBegin(s, p) \/ DiscardBegin(s, p)
        => UNCHANGED <<resv, worth, family, issued, free, sent, mined>>
  BY DEF CommitBegin, DiscardBegin, claims, pools, node
<1> QED BY <1>1, <1>2, <1>3 DEF Begin

\* Only an inspection of the custody records changes a row when it begins.
LEMMA BeginRows ==
  ASSUME NEW s \in Sessions, Begin(s)
  PROVE  UNCHANGED row \/ \E o \in Ops : Reconcile(s, o)
<1>1. \A o \in Ops : PrepareBegin(s, o) \/ SpeedUpBegin(s, o) \/ RebroadcastBegin(s, o) \/ AbandonBegin(s, o)
        \/ TrackRead(s, o) => UNCHANGED row
  BY DEF PrepareBegin, SpeedUpBegin, RebroadcastBegin, AbandonBegin, TrackRead, node
<1>2. \A p \in pending[s] : CommitBegin(s, p) \/ DiscardBegin(s, p) => UNCHANGED row
  BY DEF CommitBegin, DiscardBegin, node
<1> QED BY <1>1, <1>2 DEF Begin

\* Every step keeps the stores in their types.
LEMMA StoreStep ==
  ASSUME QiInv, [Next]_vars
  PROVE  StoreShape'
<1> USE DEF QiInv
<1>t. /\ resv \in [Ops -> {"none", "reserved", "signed", "released", "confirmed"}]
      /\ issued \in Nat /\ MaxAddress \in Nat /\ issued \in 0..MaxAddress /\ free \subseteq 1..issued
      /\ On(worth, Ops) /\ On(family, Ops) /\ On(row, Ops) /\ On(sent, Ops) /\ On(mined, Ops)
      /\ (\A o \in Ops : DOMAIN worth[o] \subseteq 1..issued) /\ (\A o \in Ops : IsSeq(family[o]))
  BY QiBounds DEF StoreShape
<1>same. ASSUME UNCHANGED <<resv, worth, family, issued, free, sent, mined>>, On(row', Ops)
         PROVE  StoreShape'
  BY <1>same DEF StoreShape
<1>resv. ASSUME NEW o, NEW st \in {"none", "reserved", "signed", "released", "confirmed"},
                resv' = [resv EXCEPT ![o] = st]
         PROVE  resv' \in [Ops -> {"none", "reserved", "signed", "released", "confirmed"}]
  BY <1>resv, <1>t
<1>row. ASSUME NEW o, NEW w, row' = [row EXCEPT ![o] = w] PROVE On(row', Ops)
  BY <1>row, <1>t DEF On
<1>op. ASSUME NEW s \in Sessions, pc[s] # "idle" PROVE job[s].op \in Ops
  BY <1>op DEF QiLocks
<1>pool. ASSUME NEW s \in Sessions PROVE job[s].pool \subseteq 1..issued
  BY DEF DeskShape, JobShape
<1>1. ASSUME NEW s \in Sessions, Begin(s) PROVE StoreShape'
  <2>1. UNCHANGED <<resv, worth, family, issued, free, sent, mined>>
    BY <1>1, BeginKeeps
  <2>2. On(row', Ops)
    <3>1. CASE UNCHANGED row
      BY <3>1, <1>t
    <3>2. ASSUME NEW o \in Ops, Reconcile(s, o) PROVE On(row', Ops)
      <4>1. \E w : row' = [row EXCEPT ![o] = w]
        BY <3>2 DEF Reconcile
      <4> QED BY <4>1, <1>row
    <3> QED BY <1>1, <3>1, <3>2, BeginRows
  <2> QED BY <2>1, <2>2, <1>same
<1>2. ASSUME NEW s \in Sessions, Allocate(s) PROVE StoreShape'
  <2>1. PICK old \in SUBSET free : \E start \in issued..MaxAddress :
          /\ issued' \in start..MaxAddress /\ free' = free \ old
          /\ job' = [job EXCEPT ![s].pool = old \cup (start + 1)..issued']
    BY <1>2, PoolTaken
  <2>2. issued' \in issued..MaxAddress /\ free' \subseteq free
    BY <2>1, <1>t
  <2>3. UNCHANGED <<resv, worth, family, sent, mined, row>>
    BY <1>2 DEF Allocate, claims, node
  <2>4. issued' \in Nat /\ 1..issued \subseteq 1..issued'
    BY <2>2, <1>t
  <2> QED BY <2>2, <2>3, <2>4, <1>t DEF StoreShape
<1>3. ASSUME NEW s \in Sessions, Grow(s) \/ HandBack(s) \/ PrepareFails(s) PROVE StoreShape'
  <2>1. free' \subseteq 1..issued
    BY <1>3, <1>t, <1>pool DEF Grow, HandBack, PrepareFails
  <2>2. UNCHANGED <<resv, worth, family, issued, sent, mined, row>>
    BY <1>3 DEF Grow, HandBack, PrepareFails, claims, node
  <2> QED BY <2>1, <2>2 DEF StoreShape
<1>4. ASSUME NEW s \in Sessions, Claim(s) PROVE StoreShape'
  <2>1. job[s].op \in Ops
    BY <1>4, <1>op DEF Claim
  <2>2. PICK mine \in SUBSET job[s].pool : \E w, r :
          /\ DOMAIN w = mine /\ r.kept = mine
          /\ worth' = [worth EXCEPT ![job[s].op] = w]
          /\ job' = [job EXCEPT ![s].pool = job[s].pool \ mine, ![s].review = r]
    BY <1>4, <2>1, ClaimTakes
  <2>3. PICK w : DOMAIN w = mine /\ worth' = [worth EXCEPT ![job[s].op] = w]
    BY <2>2
  <2>4. On(worth', Ops) /\ \A o \in Ops : DOMAIN worth'[o] \subseteq 1..issued
    BY <2>1, <2>3, <1>t, <1>pool DEF On
  <2>5. UNCHANGED <<family, issued, free, sent, mined, row>> /\ resv' = [resv EXCEPT ![job[s].op] = "reserved"]
    BY <1>4 DEF Claim, pools, node
  <2>6. resv' \in [Ops -> {"none", "reserved", "signed", "released", "confirmed"}]
    BY <2>5, <1>resv
  <2> QED BY <2>4, <2>5, <2>6, <1>t DEF StoreShape
<1>5. ASSUME NEW s \in Sessions, ClaimSweep(s) \/ AbandonRelease(s) \/ JournalFails(s) PROVE StoreShape'
  <2>1. \E st \in {"reserved", "released"} : resv' = [resv EXCEPT ![job[s].op] = st]
    BY <1>5 DEF ClaimSweep, AbandonRelease, JournalFails
  <2>2. UNCHANGED <<worth, family, issued, free, sent, mined, row>>
    BY <1>5 DEF ClaimSweep, AbandonRelease, JournalFails, pools, node
  <2> QED BY <2>1, <2>2, <1>resv DEF StoreShape
<1>6. ASSUME NEW s \in Sessions, Journal(s) \/ Mark(s) \/ Record(s) PROVE StoreShape'
  <2>1. \E w : row' = [row EXCEPT ![job[s].op] = w]
    BY <1>6 DEF Journal, Mark, Record
  <2>2. UNCHANGED <<resv, worth, family, issued, free, sent, mined>>
    BY <1>6 DEF Journal, Mark, Record, claims, pools, node
  <2> QED BY <2>1, <2>2, <1>row, <1>same
<1>7. ASSUME NEW s \in Sessions, SpeedUpOffer(s) \/ SpeedUpFails(s) \/ CommitRefused(s) \/ AbandonLock(s)
               \/ DiscardRefused(s) \/ TrackSkip(s) \/ Crash(s) PROVE StoreShape'
  <2>1. UNCHANGED <<resv, worth, family, issued, free, sent, mined, row>>
    BY <1>7 DEF SpeedUpOffer, SpeedUpFails, CommitRefused, AbandonLock, DiscardRefused, TrackSkip, Crash, claims,
                pools, node
  <2> QED BY <2>1, <1>t, <1>same
<1>8. ASSUME NEW s \in Sessions, Sign(s) PROVE StoreShape'
  <2>1. /\ UNCHANGED <<worth, issued, free, sent, mined, row>> /\ resv' = [resv EXCEPT ![job[s].op] = "signed"]
        /\ family' = [family EXCEPT ![job[s].op] = Append(@, job[s].review)]
    BY <1>8 DEF Sign, pools, node
  <2>2. job[s].op \in Ops
    BY <1>8, <1>op DEF Sign
  <2>3. PICK q : q = Append(family[job[s].op], job[s].review)
    OBVIOUS
  <2>4. IsSeq(q)
    BY <2>2, <2>3, <1>t, GrownSeq
  <2>5. On(family', Ops) /\ \A o \in Ops : IsSeq(family'[o])
    BY <2>1, <2>2, <2>3, <2>4, <1>t DEF On
  <2>6. resv' \in [Ops -> {"none", "reserved", "signed", "released", "confirmed"}]
    BY <2>1, <1>resv
  <2> QED BY <2>1, <2>5, <2>6, <1>t DEF StoreShape
<1>9. ASSUME NEW s \in Sessions, Send(s) PROVE StoreShape'
  <2>1. UNCHANGED <<resv, worth, family, issued, free, mined, row>>
    BY <1>9 DEF Send, claims, pools
  <2>2. sent' = sent \/ \E A : sent' = [sent EXCEPT ![job[s].op] = A]
    BY <1>9 DEF Send, Broadcast
  <2>3. On(sent', Ops)
    BY <2>2, <1>t DEF On
  <2> QED BY <2>1, <2>3, <1>t DEF StoreShape
<1>10. ASSUME NEW s \in Sessions, Done(s) PROVE StoreShape'
  <2>1. UNCHANGED <<resv, worth, family, issued, free, sent, mined>>
    BY <1>10 DEF Done, claims, pools, node
  <2>2. \E from, w : Transition(job[s].op, from, w)
    BY <1>10 DEF Done
  <2>3. On(row', Ops)
    BY <2>2, <1>t, <1>10, <1>op, TransitionShape DEF Done
  <2> QED BY <2>1, <2>3, <1>same
<1>11. ASSUME NEW s \in Sessions, Cancel(s) PROVE StoreShape'
  <2>1. UNCHANGED <<resv, worth, family, issued, free, sent, mined>>
    BY <1>11 DEF Cancel, claims, pools, node
  <2>2. row' = row \/ \E w : row' = [row EXCEPT ![job[s].op] = w]
    BY <1>11 DEF Cancel
  <2>3. On(row', Ops)
    BY <2>2, <1>t, <1>row
  <2> QED BY <2>1, <2>3, <1>same
<1>12. ASSUME NEW s \in Sessions, Reclaim(s) PROVE StoreShape'
  <2>1. /\ UNCHANGED <<worth, family, issued, sent, mined, row>> /\ resv' = [resv EXCEPT ![job[s].op] = "released"]
        /\ free' \subseteq free \cup job[s].review.kept
    BY <1>12 DEF Reclaim, node
  <2>2. job[s].op \in Ops /\ job[s].review.kept = DOMAIN worth[job[s].op]
    BY <1>12, <1>op DEF Reclaim, ReviewInv
  <2>3. free' \subseteq 1..issued
    BY <2>1, <2>2, <1>t
  <2>4. resv' \in [Ops -> {"none", "reserved", "signed", "released", "confirmed"}]
    BY <2>1, <1>resv
  <2> QED BY <2>1, <2>3, <2>4, <1>t DEF StoreShape
<1>13. ASSUME NEW s \in Sessions, TrackApply(s) PROVE StoreShape'
  <2>1. UNCHANGED <<worth, family, issued, free, sent, mined>>
    BY <1>13 DEF TrackApply, pools, node
  <2>2. resv' = resv \/ resv' = [resv EXCEPT ![job[s].op] = "confirmed"]
    BY <1>13 DEF TrackApply
  <2>3. resv' \in [Ops -> {"none", "reserved", "signed", "released", "confirmed"}]
    BY <2>2, <1>t, <1>resv
  <2>4. \E from, w : Transition(job[s].op, from, w)
    BY <1>13 DEF TrackApply
  <2>5. On(row', Ops)
    BY <2>4, <1>t, <1>13, <1>op, TransitionShape DEF TrackApply
  <2> QED BY <2>1, <2>3, <2>5, <1>t DEF StoreShape
<1>14. ASSUME NEW o \in Ops, NEW k \in sent[o], Mine(o, k) PROVE StoreShape'
  <2>1. UNCHANGED <<resv, worth, family, issued, free, sent, row>> /\ mined' = [mined EXCEPT ![o] = k]
    BY <1>14 DEF Mine, claims, pools
  <2>2. On(mined', Ops)
    BY <2>1, <1>t DEF On
  <2> QED BY <2>1, <2>2, <1>t DEF StoreShape
<1>15. ASSUME UNCHANGED vars PROVE StoreShape'
  BY <1>15, <1>t, <1>same DEF vars
<1>16. ASSUME NEW s \in Sessions, Proceed(s) PROVE StoreShape'
  BY <1>16, <1>2, <1>3, <1>4, <1>5, <1>6, <1>7, <1>8, <1>9, <1>10, <1>11, <1>12, <1>13 DEF Proceed
<1> QED BY <1>1, <1>7, <1>14, <1>15, <1>16 DEF Next

-----------------------------------------------------------------------------
(* What a step makes of the claims. *)

SignedClaim == {"signed", "confirmed"}

\* Which session may change a claim, and which way claims go.
ClaimGoes(s) == \A o \in Ops :
  /\ opLock[o] \notin {s, Nobody} => resv'[o] = resv[o] /\ worth'[o] = worth[o]
  /\ resv[o] # "none" => resv'[o] # "none" /\ worth'[o] = worth[o]
  /\ resv'[o] = "none" => worth'[o] = worth[o]
  /\ resv[o] = "released" => resv'[o] = "released"
  /\ Newest(o) # 0 => Newest(o)' # 0
  /\ Newest(o)' # 0 <=> resv'[o] \in SignedClaim

\* A claim changes under the operation's lock, never goes back to nothing, and keeps its addresses.
LEMMA ClaimsGo ==
  ASSUME QiInv, NEW s \in Sessions, Proceed(s)
  PROVE  ClaimGoes(s)
<1> USE DEF QiInv
<1>t. /\ resv \in [Ops -> {"none", "reserved", "signed", "released", "confirmed"}]
      /\ On(worth, Ops) /\ On(family, Ops) /\ (\A o \in Ops : IsSeq(family[o]))
  BY DEF StoreShape
<1>signed. \A o \in Ops : Newest(o) # 0 <=> resv[o] \in SignedClaim
  BY DEF SignedInv, SignedClaim
<1>op. ASSUME pc[s] # "idle" PROVE job[s].op \in Ops
  BY <1>op DEF QiLocks
<1>lock. ASSUME pc[s] \in Holding PROVE opLock[job[s].op] = s
  BY <1>lock DEF QiLocks
<1>same. ASSUME UNCHANGED <<resv, worth, family>> PROVE ClaimGoes(s)
  BY <1>same, <1>signed DEF ClaimGoes, Newest
<1>to. ASSUME NEW o \in Ops, opLock[o] \in {s, Nobody}, NEW st, st # "none", st \in SignedClaim <=> Newest(o) # 0,
              resv[o] = "released" => st = "released",
              resv' = [resv EXCEPT ![o] = st], worth' = worth, family' = family
       PROVE  ClaimGoes(s)
  BY <1>to, <1>t, <1>signed DEF ClaimGoes, Newest
<1>1. ASSUME Claim(s) PROVE ClaimGoes(s)
  <2>1. /\ job[s].op \in Ops /\ opLock[job[s].op] = s /\ resv[job[s].op] = "none" /\ Newest(job[s].op) = 0
    BY <1>1, <1>op, <1>lock, <1>signed DEF Claim, Holding, Preparing, ClaimInv
  <2>2. PICK mine \in SUBSET job[s].pool : \E w, r :
          /\ DOMAIN w = mine /\ r.kept = mine
          /\ worth' = [worth EXCEPT ![job[s].op] = w]
          /\ job' = [job EXCEPT ![s].pool = job[s].pool \ mine, ![s].review = r]
    BY <1>1, <2>1, ClaimTakes
  <2>3. PICK w : worth' = [worth EXCEPT ![job[s].op] = w]
    BY <2>2
  <2>4. resv' = [resv EXCEPT ![job[s].op] = "reserved"] /\ family' = family
    BY <1>1 DEF Claim
  <2>5. \A o \in Ops : Newest(o)' = Newest(o)
    BY <2>4 DEF Newest
  <2>6. /\ resv'[job[s].op] = "reserved" /\ \A o \in Ops \ {job[s].op} : resv'[o] = resv[o] /\ worth'[o] = worth[o]
    BY <2>1, <2>3, <2>4, <1>t DEF On
  <2> QED BY <2>1, <2>5, <2>6, <1>signed DEF ClaimGoes, SignedClaim
<1>2. ASSUME ClaimSweep(s) PROVE ClaimGoes(s)
  <2>1. /\ job[s].op \in Ops /\ opLock[job[s].op] = s /\ resv[job[s].op] = "none" /\ Newest(job[s].op) = 0
    BY <1>2, <1>op, <1>lock, <1>signed DEF ClaimSweep, Holding, Preparing, ClaimInv
  <2>2. resv' = [resv EXCEPT ![job[s].op] = "reserved"] /\ worth' = worth /\ family' = family
    BY <1>2 DEF ClaimSweep
  <2>3. "reserved" \in SignedClaim <=> Newest(job[s].op) # 0
    BY <2>1 DEF SignedClaim
  <2> QED BY <2>1, <2>2, <2>3, <1>to
<1>3. ASSUME JournalFails(s) PROVE ClaimGoes(s)
  <2>1. /\ job[s].op \in Ops /\ opLock[job[s].op] = s /\ resv[job[s].op] = "reserved" /\ Newest(job[s].op) = 0
    BY <1>3, <1>op, <1>lock, <1>signed DEF JournalFails, Holding, Preparing, ClaimInv, SignedClaim
  <2>2. PICK st \in {"released", "reserved"} : resv' = [resv EXCEPT ![job[s].op] = st]
    BY <1>3 DEF JournalFails
  <2>3. worth' = worth /\ family' = family /\ (st \in SignedClaim <=> Newest(job[s].op) # 0) /\ st # "none"
    BY <1>3, <2>1 DEF JournalFails, SignedClaim
  <2> QED BY <2>1, <2>2, <2>3, <1>to
<1>4. ASSUME Reclaim(s) \/ AbandonRelease(s) PROVE ClaimGoes(s)
  <2>1. job[s].op \in Ops /\ opLock[job[s].op] = s /\ resv[job[s].op] \in {"reserved", "released"}
    BY <1>4, <1>op, <1>lock DEF Reclaim, AbandonRelease, Holding
  <2>2. resv' = [resv EXCEPT ![job[s].op] = "released"] /\ worth' = worth /\ family' = family
    BY <1>4 DEF Reclaim, AbandonRelease
  <2>3. ("released" \in SignedClaim <=> Newest(job[s].op) # 0)
    BY <2>1, <1>signed DEF SignedClaim
  <2> QED BY <2>1, <2>2, <2>3, <1>to
<1>5. ASSUME Sign(s) PROVE ClaimGoes(s)
  <2>1. job[s].op \in Ops /\ opLock[job[s].op] = s
    BY <1>5, <1>op, <1>lock DEF Sign, Holding
  <2>2. /\ resv' = [resv EXCEPT ![job[s].op] = "signed"] /\ worth' = worth
        /\ family' = [family EXCEPT ![job[s].op] = Append(family[job[s].op], job[s].review)]
    BY <1>5 DEF Sign
  <2>3. PICK q : q = Append(family[job[s].op], job[s].review)
    OBVIOUS
  <2>4. Len(family[job[s].op]) \in Nat /\ Len(q) = Len(family[job[s].op]) + 1
    BY <2>1, <2>3, <1>t, GrownSeq
  <2>5. family' = [family EXCEPT ![job[s].op] = q]
    BY <2>2, <2>3
  <2>a. PICK c : c = job[s].op
    OBVIOUS
  <2>6. Newest(c)' # 0 /\ \A o \in Ops \ {c} : Newest(o)' = Newest(o)
    BY <2>1, <2>a, <2>4, <2>5, <1>t DEF On, Newest
  <2>7. resv[job[s].op] \notin {"none", "released"}
    BY <1>5, <2>1, <1>signed DEF Sign, Signable
  <2>8. resv'[job[s].op] = "signed" /\ \A o \in Ops \ {job[s].op} : resv'[o] = resv[o]
    BY <2>1, <2>2, <1>t
  <2> QED BY <2>1, <2>a, <2>2, <2>6, <2>7, <2>8, <1>signed DEF ClaimGoes, SignedClaim
<1>6. ASSUME TrackApply(s) PROVE ClaimGoes(s)
  <2>1. job[s].op \in Ops /\ opLock[job[s].op] = Nobody /\ worth' = worth /\ family' = family
    BY <1>6, <1>op DEF TrackApply
  <2>2. CASE UNCHANGED resv
    BY <2>1, <2>2, <1>same
  <2>3. CASE mined[job[s].op] # 0 /\ resv' = [resv EXCEPT ![job[s].op] = "confirmed"]
    <3>1. ("confirmed" \in SignedClaim <=> Newest(job[s].op) # 0) /\ resv[job[s].op] # "released"
      BY <2>1, <2>3 DEF SignedClaim, SignedInv
    <3> QED BY <2>1, <2>3, <3>1, <1>to
  <2>4. mined[job[s].op] = 1 => mined[job[s].op] # 0
    OBVIOUS
  <2>5. UNCHANGED resv \/ (mined[job[s].op] # 0 /\ resv' = [resv EXCEPT ![job[s].op] = "confirmed"])
    BY <1>6, <2>4 DEF TrackApply
  <2> QED BY <2>2, <2>3, <2>5
<1>7. ASSUME \/ Allocate(s) \/ Grow(s) \/ HandBack(s) \/ PrepareFails(s) \/ Journal(s) \/ SpeedUpOffer(s)
             \/ SpeedUpFails(s) \/ CommitRefused(s) \/ Mark(s) \/ Record(s) \/ Send(s) \/ Done(s)
             \/ AbandonLock(s) \/ DiscardRefused(s) \/ Cancel(s) \/ TrackSkip(s)
      PROVE  ClaimGoes(s)
  <2>1. UNCHANGED <<resv, worth, family>>
    BY <1>7 DEF Allocate, Grow, HandBack, PrepareFails, Journal, SpeedUpOffer, SpeedUpFails, CommitRefused, Mark,
                Record, Send, Done, AbandonLock, DiscardRefused, Cancel, TrackSkip, claims
  <2> QED BY <2>1, <1>same
<1> QED BY <1>1, <1>2, <1>3, <1>4, <1>5, <1>6, <1>7 DEF Proceed

-----------------------------------------------------------------------------
(* Locks. *)

\* What a session keeps to by itself.
Locked(s) == /\ pc[s] # "idle" => job[s].op \in Ops
             /\ pc[s] \in Holding => opLock[job[s].op] = s
             /\ pc[s] \notin {"p_sdk", "p_rest"} => job[s].pool = {}

\* A step of one session leaves the others what they hold.
LEMMA LocksOfOthers ==
  ASSUME QiLocks, NEW s \in Sessions, Alone(s), Locked(s)'
  PROVE  QiLocks'
<1> SUFFICES ASSUME NEW t \in Sessions, t # s PROVE Locked(t)'
  <2>1. (\A t \in Sessions : Locked(t)') => QiLocks'
    BY DEF QiLocks, Locked
  <2> QED BY <2>1
<1>1. pc'[t] = pc[t] /\ job'[t] = job[t]
  BY DEF Alone
<1>2. Locked(t) /\ t # Nobody
  BY QiNames DEF QiLocks, Locked
<1>3. ASSUME pc[t] \in Holding PROVE opLock'[job[t].op] = t
  <2>1. pc[t] # "idle"
    BY <1>3 DEF Holding, Preparing
  <2>2. job[t].op \in Ops /\ opLock[job[t].op] = t
    BY <1>3, <2>1, <1>2 DEF Locked
  <2> QED BY <2>2, <1>2 DEF Alone
<1> QED BY <1>1, <1>2, <1>3 DEF Locked

\* After its return a session holds nothing.
LEMMA ReturnHoldsNothing ==
  ASSUME DeskShape, NEW s \in Sessions, Return(s)
  PROVE  Locked(s)' /\ pc'[s] = "idle" /\ job'[s] = NoJob
<1>1. pc'[s] = "idle" /\ job'[s] = NoJob
  BY DEF Return, Goto, DeskShape, On
<1>2. NoJob.pool = {}
  BY DEF NoJob, JobOf
<1> QED BY <1>1, <1>2 DEF Locked, Holding, Preparing

\* A session that goes somewhere with a job of one operation.
LEMMA GoneTo ==
  ASSUME DeskShape, NEW s \in Sessions, NEW p, Goto(s, p), NEW j, job' = [job EXCEPT ![s] = j]
  PROVE  pc'[s] = p /\ job'[s] = j
BY DEF Goto, DeskShape, On

\* The locks are kept to by whoever begins.
LEMMA LocksBegin ==
  ASSUME QiInv, NEW s \in Sessions, Begin(s)
  PROVE  QiLocks'
<1> USE DEF QiInv
<1>a. Alone(s)
  BY BeginAlone
<1>i. issued \in Nat
  BY QiBounds DEF StoreShape
<1>read. ASSUME NEW o \in Ops PROVE /\ ReadOf(o).op = o /\ ReadOf(o).pool = {}
                                    /\ \A k, r : JobOf(o, k, r).op = o /\ JobOf(o, k, r).pool = {}
  BY <1>i DEF ReadOf, JobOf
<1>lock. ASSUME NEW o \in Ops, Lock(s, o) PROVE opLock'[o] = s
  BY <1>lock DEF Lock, DeskShape
<1>1. ASSUME NEW o \in Ops, PrepareBegin(s, o) PROVE Locked(s)'
  <2>1. PICK j : j = JobOf(o, 1, NoCandidate)
    OBVIOUS
  <2>2. PICK j2 : j2 = [j EXCEPT !.size = FirstPool]
    OBVIOUS
  <2>3. j2.op = o /\ j2.pool = {}
    BY <2>1, <2>2, <1>i, JobShapes DEF JobShape
  <2>4. job' = [job EXCEPT ![s] = j2] /\ Lock(s, o)
    BY <1>1, <2>1, <2>2 DEF PrepareBegin
  <2>5. PICK p \in {"p_pool", "p_sweep"} : Goto(s, p)
    BY <1>1 DEF PrepareBegin
  <2>6. pc'[s] = p /\ job'[s] = j2
    BY <2>4, <2>5, GoneTo
  <2> QED BY <2>3, <2>4, <2>5, <2>6, <1>lock DEF Locked
<1>2. ASSUME NEW o \in Ops, SpeedUpBegin(s, o) \/ RebroadcastBegin(s, o) \/ TrackRead(s, o) PROVE Locked(s)'
  <2>1. \E p \in {"u_offer", "c_send", "t_apply"} : Goto(s, p) /\ job' = [job EXCEPT ![s] = ReadOf(o)]
    BY <1>2 DEF SpeedUpBegin, RebroadcastBegin, TrackRead
  <2>2. PICK p \in {"u_offer", "c_send", "t_apply"} : Goto(s, p) /\ job' = [job EXCEPT ![s] = ReadOf(o)]
    BY <2>1
  <2>3. pc'[s] = p /\ job'[s] = ReadOf(o)
    BY <2>2, GoneTo
  <2> QED BY <2>2, <2>3, <1>read DEF Locked, Holding, Preparing
<1>3. ASSUME NEW o \in Ops, AbandonBegin(s, o) PROVE Locked(s)'
  <2>1. Goto(s, "a_lock") /\ job' = [job EXCEPT ![s] = JobOf(o, 1, NoCandidate)]
    BY <1>3 DEF AbandonBegin
  <2>2. pc'[s] = "a_lock" /\ job'[s] = JobOf(o, 1, NoCandidate)
    BY <2>1, GoneTo
  <2> QED BY <2>2, <1>read DEF Locked, Holding, Preparing
<1>4. ASSUME NEW o \in Ops, Reconcile(s, o) PROVE Locked(s)'
  BY <1>4 DEF Reconcile, QiLocks, Locked
<1>5. ASSUME NEW p \in pending[s], CommitBegin(s, p) PROVE Locked(s)'
  <2>1. p.op \in Ops
    BY DEF DeskShape
  <2>2. Goto(s, "c_sign") /\ job' = [job EXCEPT ![s] = JobOf(p.op, p.k, p.review)] /\ Lock(s, p.op)
    BY <1>5 DEF CommitBegin
  <2>3. pc'[s] = "c_sign" /\ job'[s] = JobOf(p.op, p.k, p.review)
    BY <2>2, GoneTo
  <2> QED BY <2>1, <2>2, <2>3, <1>read, <1>lock DEF Locked
<1>6. ASSUME NEW p \in pending[s], DiscardBegin(s, p) PROVE Locked(s)'
  <2>1. p.op \in Ops
    BY DEF DeskShape
  <2>2. CASE p.k = 1 /\ opLock[p.op] = Nobody
    <3>1. Goto(s, "d_reclaim") /\ job' = [job EXCEPT ![s] = JobOf(p.op, 1, p.review)] /\ opLock' = [opLock EXCEPT ![p.op] = s]
      BY <1>6, <2>2 DEF DiscardBegin
    <3>2. pc'[s] = "d_reclaim" /\ job'[s] = JobOf(p.op, 1, p.review)
      BY <3>1, GoneTo
    <3>3. opLock'[p.op] = s
      BY <2>1, <3>1 DEF DeskShape
    <3> QED BY <2>1, <3>2, <3>3, <1>read DEF Locked
  <2>3. CASE ~(p.k = 1 /\ opLock[p.op] = Nobody)
    <3>1. UNCHANGED <<opLock, job, pc>>
      BY <1>6, <2>3 DEF DiscardBegin
    <3> QED BY <3>1 DEF QiLocks, Locked
  <2> QED BY <2>2, <2>3
<1> QED BY <1>a, <1>1, <1>2, <1>3, <1>4, <1>5, <1>6, LocksOfOthers DEF Begin

\* And by whoever goes on or dies.
LEMMA LocksProceed ==
  ASSUME QiInv, NEW s \in Sessions, Proceed(s) \/ Crash(s)
  PROVE  QiLocks'
<1> USE DEF QiInv
<1>a. Alone(s)
  BY ProceedAlone
<1>l. Locked(s) /\ JobShape(job[s], issued)
  BY DEF QiLocks, Locked, DeskShape
<1>goto. ASSUME NEW p, Goto(s, p), NEW j, job' = [job EXCEPT ![s] = j], opLock' = opLock, j.op = job[s].op,
                pc[s] \in Holding \/ (p \notin Holding /\ pc[s] # "idle"),
                j.pool = {} \/ p \in {"p_sdk", "p_rest"}
         PROVE  Locked(s)'
  <2>1. pc'[s] = p /\ job'[s] = j
    BY <1>goto, GoneTo
  <2>2. pc[s] # "idle"
    BY <1>goto DEF Holding, Preparing
  <2> QED BY <1>goto, <1>l, <2>1, <2>2 DEF Locked
<1>keep. ASSUME NEW p, Goto(s, p), UNCHANGED <<job, opLock>>,
                pc[s] \in Holding \/ (p \notin Holding /\ pc[s] # "idle"),
                pc[s] \notin {"p_sdk", "p_rest"}
         PROVE  Locked(s)'
  <2>1. pc'[s] = p
    BY <1>keep DEF Goto, DeskShape
  <2>2. pc[s] # "idle"
    BY <1>keep DEF Holding, Preparing
  <2> QED BY <1>keep, <1>l, <2>1, <2>2 DEF Locked
<1>ends. ASSUME Return(s) PROVE Locked(s)'
  BY <1>ends, ReturnHoldsNothing
<1>1. ASSUME Allocate(s) PROVE Locked(s)'
  <2>1. PICK A : job' = [job EXCEPT ![s].pool = A]
    BY <1>1 DEF Allocate
  <2>2. PICK j : j = [job[s] EXCEPT !.pool = A]
    OBVIOUS
  <2>3. job' = [job EXCEPT ![s] = j] /\ j.op = job[s].op
    BY <2>1, <2>2, <1>l DEF JobShape
  <2>4. Goto(s, "p_sdk") /\ opLock' = opLock /\ pc[s] \in Holding
    BY <1>1 DEF Allocate, Holding, Preparing
  <2> QED BY <2>3, <2>4, <1>goto
<1>2. ASSUME Grow(s) PROVE Locked(s)'
  <2>1. PICK n : job' = [job EXCEPT ![s].pool = {}, ![s].size = n]
    BY <1>2 DEF Grow
  <2>2. PICK j : j = [job[s] EXCEPT !.pool = {}]
    OBVIOUS
  <2>3. PICK j2 : j2 = [j EXCEPT !.size = n]
    OBVIOUS
  <2>4. job' = [job EXCEPT ![s] = j2]
    BY <2>1, <2>2, <2>3 DEF DeskShape, On
  <2>5. j2.op = job[s].op /\ j2.pool = {}
    BY <2>2, <2>3, <1>l DEF JobShape
  <2>6. Goto(s, "p_pool") /\ opLock' = opLock /\ pc[s] \in Holding
    BY <1>2 DEF Grow, Holding, Preparing
  <2> QED BY <2>4, <2>5, <2>6, <1>goto
<1>3. ASSUME Claim(s) PROVE Locked(s)'
  <2>1. PICK A, r : job' = [job EXCEPT ![s].pool = A, ![s].review = r]
    BY <1>3 DEF Claim
  <2>2. PICK j : j = [job[s] EXCEPT !.pool = A]
    OBVIOUS
  <2>3. PICK j2 : j2 = [j EXCEPT !.review = r]
    OBVIOUS
  <2>4. job' = [job EXCEPT ![s] = j2]
    BY <2>1, <2>2, <2>3 DEF DeskShape, On
  <2>5. j2.op = job[s].op
    BY <2>2, <2>3, <1>l DEF JobShape
  <2>6. Goto(s, "p_rest") /\ opLock' = opLock /\ pc[s] \in Holding
    BY <1>3 DEF Claim, Holding, Preparing
  <2> QED BY <2>4, <2>5, <2>6, <1>goto
<1>4. ASSUME ClaimSweep(s) PROVE Locked(s)'
  <2>1. PICK r : job' = [job EXCEPT ![s].review = r]
    BY <1>4 DEF ClaimSweep
  <2>2. PICK j : j = [job[s] EXCEPT !.review = r]
    OBVIOUS
  <2>3. Goto(s, "p_insert") /\ opLock' = opLock /\ pc[s] = "p_sweep"
    BY <1>4 DEF ClaimSweep
  <2>4. job' = [job EXCEPT ![s] = j] /\ j.op = job[s].op /\ j.pool = {}
    BY <2>1, <2>2, <2>3, <1>l DEF JobShape, Locked
  <2>5. pc[s] \in Holding
    BY <2>3 DEF Holding, Preparing
  <2> QED BY <2>3, <2>4, <2>5, <1>goto
<1>5. ASSUME HandBack(s) PROVE Locked(s)'
  <2>1. PICK j : j = [job[s] EXCEPT !.pool = {}]
    OBVIOUS
  <2>2. job' = [job EXCEPT ![s] = j] /\ j.op = job[s].op /\ j.pool = {}
    BY <1>5, <2>1, <1>l DEF JobShape, HandBack
  <2>3. Goto(s, "p_insert") /\ opLock' = opLock /\ pc[s] \in Holding
    BY <1>5 DEF HandBack, Holding, Preparing
  <2> QED BY <2>2, <2>3, <1>goto
<1>6. ASSUME \/ PrepareFails(s) \/ Journal(s) \/ JournalFails(s) \/ SpeedUpOffer(s) \/ SpeedUpFails(s)
             \/ CommitRefused(s) \/ Done(s) \/ DiscardRefused(s) \/ Cancel(s) \/ TrackApply(s) \/ TrackSkip(s)
             \/ Crash(s)
      PROVE  Locked(s)'
  <2>1. Return(s)
    BY <1>6 DEF PrepareFails, Journal, JournalFails, SpeedUpOffer, SpeedUpFails, CommitRefused, Done, DiscardRefused,
                Cancel, TrackApply, TrackSkip, Crash
  <2> QED BY <2>1, <1>ends
<1>7. ASSUME Sign(s) \/ Mark(s) \/ Record(s) \/ Reclaim(s) \/ AbandonRelease(s) PROVE Locked(s)'
  <2>1. \E p : Goto(s, p)
    BY <1>7 DEF Sign, Mark, Record, Reclaim, AbandonRelease
  <2>2. UNCHANGED <<job, opLock>> /\ pc[s] \in {"c_sign", "c_mark", "d_reclaim", "a_release"}
    BY <1>7 DEF Sign, Mark, Record, Reclaim, AbandonRelease
  <2>3. pc[s] \in Holding /\ pc[s] \notin {"p_sdk", "p_rest"}
    BY <2>2 DEF Holding
  <2> QED BY <2>1, <2>2, <2>3, <1>keep
<1>8. ASSUME Send(s) PROVE Locked(s)'
  <2>1. PICK r : job' = [job EXCEPT ![s].reply = r]
    BY <1>8 DEF Send, Broadcast
  <2>2. PICK j : j = [job[s] EXCEPT !.reply = r]
    OBVIOUS
  <2>3. Goto(s, "c_done") /\ opLock' = opLock /\ pc[s] = "c_send"
    BY <1>8 DEF Send, Broadcast
  <2>4. job' = [job EXCEPT ![s] = j] /\ j.op = job[s].op /\ j.pool = {}
    BY <2>1, <2>2, <2>3, <1>l DEF JobShape, Locked
  <2>5. "c_done" \notin Holding
    BY DEF Holding, Preparing
  <2> QED BY <2>3, <2>4, <2>5, <1>goto
<1>9. ASSUME AbandonLock(s) PROVE Locked(s)'
  <2>1. Goto(s, "a_release") /\ Lock(s, job[s].op) /\ job' = job /\ pc[s] = "a_lock"
    BY <1>9 DEF AbandonLock
  <2>2. job[s].op \in Ops /\ job[s].pool = {}
    BY <2>1, <1>l DEF Locked
  <2>3. pc'[s] = "a_release" /\ opLock'[job[s].op] = s
    BY <2>1, <2>2 DEF Goto, Lock, DeskShape
  <2> QED BY <2>1, <2>2, <2>3 DEF Locked
<1> QED BY <1>a, <1>1, <1>2, <1>3, <1>4, <1>5, <1>6, <1>7, <1>8, <1>9, LocksOfOthers DEF Proceed

-----------------------------------------------------------------------------
(* Signed bytes. *)

\* A row learns of a hash only from signed bytes.
LEMMA RowsKnow ==
  ASSUME QiInv, NEW s \in Sessions, Begin(s) \/ Proceed(s), NEW o \in Ops, row'[o].hash # 0
  PROVE  Newest(o) # 0
<1> USE DEF QiInv
<1>t. On(row, Ops) /\ \A p \in Ops : row[p].hash # 0 => Newest(p) # 0
  BY DEF StoreShape, SignedInv
<1>same. ASSUME UNCHANGED row PROVE Newest(o) # 0
  BY <1>same, <1>t
<1>one. ASSUME NEW p \in Ops, NEW w, row' = [row EXCEPT ![p] = w], w.hash # 0 => Newest(p) # 0
        PROVE  Newest(o) # 0
  BY <1>one, <1>t DEF On
<1>move. ASSUME NEW p \in Ops, NEW from, NEW w, Transition(p, from, w), w.hash # 0 => Newest(p) # 0
         PROVE  Newest(o) # 0
  BY <1>move, <1>t, TransitionShape
<1>op. ASSUME pc[s] # "idle" PROVE job[s].op \in Ops
  BY <1>op DEF QiLocks
<1>1. CASE Begin(s)
  <2>1. ASSUME NEW p \in Ops, Reconcile(s, p) PROVE Newest(o) # 0
    <3>1. PICK w : w = IF row[p].st = "none" THEN Row("prepared", 0, {}, 0, FALSE) ELSE row[p]
      OBVIOUS
    <3>2. w.hash # 0 => row[p].hash # 0
      BY <3>1 DEF Row
    <3>3. PICK v : v = IF Newest(p) = 0 THEN w
                       ELSE LET st == IF w.st = "prepared" THEN "signed" ELSE w.st
                                k  == IF st \in Concluded THEN w.hash ELSE Newest(p)
                            IN Row(st, k, DOMAIN family[p], w.fee, TRUE)
      OBVIOUS
    <3>4. row' = [row EXCEPT ![p] = v]
      BY <2>1, <3>1, <3>3 DEF Reconcile
    <3>5. v.hash # 0 => Newest(p) # 0
      BY <3>2, <3>3, <1>t
    <3> QED BY <3>4, <3>5, <1>one
  <2> QED BY <1>1, <2>1, <1>same, BeginRows
<1>2. CASE Journal(s)
  <2>1. PICK w : w = Row("prepared", 0, {}, QuotedFee, FALSE)
    OBVIOUS
  <2>2. row' = [row EXCEPT ![job[s].op] = w] /\ w.hash = 0 /\ job[s].op \in Ops
    BY <1>2, <2>1, <1>op DEF Journal, Row
  <2> QED BY <2>2, <1>one
<1>3. CASE Mark(s) \/ Record(s)
  <2>1. job[s].op \in Ops /\ Newest(job[s].op) # 0
    BY <1>3, <1>op DEF Mark, Record, SignedInv
  <2>2. \E w : row' = [row EXCEPT ![job[s].op] = w]
    BY <1>3 DEF Mark, Record
  <2> QED BY <2>1, <2>2, <1>one
<1>4. CASE Done(s)
  <2>1. job[s].op \in Ops /\ Newest(job[s].op) # 0
    BY <1>4, <1>op DEF Done, SignedInv
  <2>2. \E from, w : Transition(job[s].op, from, w)
    BY <1>4 DEF Done
  <2> QED BY <2>1, <2>2, <1>move
<1>5. CASE Cancel(s)
  <2>1. job[s].op \in Ops
    BY <1>5, <1>op DEF Cancel
  <2>2. PICK w : w = Moved(row[job[s].op], "cancelled", row[job[s].op].hash)
    OBVIOUS
  <2>3. row' = row \/ row' = [row EXCEPT ![job[s].op] = w]
    BY <1>5, <2>2 DEF Cancel
  <2>4. w.hash = row[job[s].op].hash
    BY <2>2 DEF Moved, Row
  <2> QED BY <2>1, <2>3, <2>4, <1>same, <1>one, <1>t
<1>6. CASE TrackApply(s)
  <2>1. PICK c \in Ops : c = job[s].op
    BY <1>6, <1>op DEF TrackApply
  <2>2. CASE mined[c] # 0 /\ \E from, w : Transition(c, from, w)
    <3>1. Newest(c) # 0
      BY <2>1, <2>2 DEF SignedInv
    <3> QED BY <3>1, <2>2, <1>move
  <2>3. CASE \E from : Transition(c, from, Moved(row[c], "submitted", row[c].hash))
    <3>1. PICK w : w = Moved(row[c], "submitted", row[c].hash)
      OBVIOUS
    <3>2. w.hash = row[c].hash
      BY <3>1 DEF Moved, Row
    <3> QED BY <2>1, <2>3, <3>1, <3>2, <1>move, <1>t
  <2>4. \/ (IF job[s].listed THEN mined[c] # 0 ELSE mined[c] = 1) /\ \E from, w : Transition(c, from, w)
        \/ \E from : Transition(c, from, Moved(row[c], "submitted", row[c].hash))
    BY <1>6, <2>1 DEF TrackApply
  <2>5. (IF job[s].listed THEN mined[c] # 0 ELSE mined[c] = 1) => mined[c] # 0
    OBVIOUS
  <2> QED BY <2>2, <2>3, <2>4, <2>5
<1>7. CASE \/ Allocate(s) \/ Grow(s) \/ Claim(s) \/ ClaimSweep(s) \/ HandBack(s) \/ PrepareFails(s)
           \/ JournalFails(s) \/ SpeedUpOffer(s) \/ SpeedUpFails(s) \/ Sign(s) \/ CommitRefused(s) \/ Send(s)
           \/ Reclaim(s) \/ AbandonLock(s) \/ AbandonRelease(s) \/ DiscardRefused(s) \/ TrackSkip(s)
  <2>1. UNCHANGED row
    BY <1>7 DEF Allocate, Grow, Claim, ClaimSweep, HandBack, PrepareFails, JournalFails, SpeedUpOffer, SpeedUpFails,
                Sign, CommitRefused, Send, Reclaim, AbandonLock, AbandonRelease, DiscardRefused, TrackSkip, node
  <2> QED BY <2>1, <1>same
<1> QED BY <1>1, <1>2, <1>3, <1>4, <1>5, <1>6, <1>7 DEF Proceed

\* Only bytes that are signed are sent.
LEMMA SentIsSigned ==
  ASSUME QiInv, NEW s \in Sessions, Begin(s) \/ Proceed(s), NEW o \in Ops, sent'[o] # {} \/ mined'[o] # 0
  PROVE  Newest(o) # 0
<1> USE DEF QiInv
<1>t. On(sent, Ops) /\ \A p \in Ops : sent[p] # {} \/ mined[p] # 0 => Newest(p) # 0
  BY DEF StoreShape, SignedInv
<1>1. CASE UNCHANGED <<sent, mined>>
  BY <1>1, <1>t
<1>2. CASE Send(s)
  <2>1. job[s].op \in Ops /\ Newest(job[s].op) # 0
    BY <1>2 DEF Send, SignedInv, QiLocks
  <2>2. mined' = mined /\ (sent' = sent \/ \E A : sent' = [sent EXCEPT ![job[s].op] = A])
    BY <1>2 DEF Send, Broadcast
  <2> QED BY <2>1, <2>2, <1>t DEF On
<1>3. CASE Begin(s)
  BY <1>1, <1>3, BeginKeeps
<1>4. CASE Proceed(s) /\ ~Send(s)
  <2>1. UNCHANGED <<sent, mined>>
    BY <1>4 DEF Proceed, Allocate, Grow, Claim, ClaimSweep, HandBack, PrepareFails, JournalFails, SpeedUpOffer,
                SpeedUpFails, Sign, CommitRefused, Reclaim, AbandonLock, AbandonRelease, DiscardRefused, TrackSkip,
                Journal, Mark, Record, Done, Cancel, TrackApply, node
  <2> QED BY <2>1, <1>1
<1> QED BY <1>2, <1>3, <1>4

\* Where a session comes to with bytes to send.
LEMMA SendsSigned ==
  ASSUME QiInv, NEW s \in Sessions, Begin(s) \/ Proceed(s) \/ Crash(s), pc'[s] \in {"c_mark", "c_send", "c_done"},
         \A o \in Ops : Newest(o) # 0 => Newest(o)' # 0
  PROVE  \A o \in Ops : o = job'[s].op => Newest(o)' # 0
<1> USE DEF QiInv
<1>op. ASSUME pc[s] # "idle" PROVE job[s].op \in Ops
  BY <1>op DEF QiLocks
<1>ends. ASSUME Return(s) PROVE FALSE
  BY <1>ends, ReturnHoldsNothing
<1>away. ASSUME NEW p, Goto(s, p) PROVE pc'[s] = p
  BY <1>away DEF Goto, DeskShape
<1>1. ASSUME NEW o \in Ops, PrepareBegin(s, o) \/ SpeedUpBegin(s, o) \/ AbandonBegin(s, o) \/ TrackRead(s, o)
      PROVE  FALSE
  <2>1. \E p \in {"p_pool", "p_sweep", "u_offer", "a_lock", "t_apply"} : Goto(s, p)
    BY <1>1 DEF PrepareBegin, SpeedUpBegin, AbandonBegin, TrackRead
  <2> QED BY <2>1, <1>away
<1>2. ASSUME NEW o \in Ops, Reconcile(s, o) PROVE FALSE
  BY <1>2 DEF Reconcile
<1>3. ASSUME NEW p \in pending[s], CommitBegin(s, p) PROVE FALSE
  BY <1>3, <1>away DEF CommitBegin
<1>4. ASSUME NEW p \in pending[s], DiscardBegin(s, p) PROVE FALSE
  <2>1. Goto(s, "d_reclaim") \/ (pc' = pc /\ pc[s] = "idle")
    BY <1>4 DEF DiscardBegin
  <2> QED BY <2>1, <1>away
<1>5. ASSUME NEW o \in Ops, RebroadcastBegin(s, o) PROVE job'[s].op = o /\ Newest(o) # 0
  <2>1. job' = [job EXCEPT ![s] = ReadOf(o)] /\ row[o].hash # 0 /\ Goto(s, "c_send")
    BY <1>5 DEF RebroadcastBegin
  <2>2. job'[s] = ReadOf(o)
    BY <2>1, GoneTo
  <2>3. ReadOf(o).op = o
    BY DEF ReadOf, JobOf
  <2> QED BY <2>1, <2>2, <2>3 DEF SignedInv
<1>6. CASE Sign(s)
  <2>1. ClaimGoes(s)
    BY <1>6, ClaimsGo DEF Proceed
  <2>2. job' = job /\ job[s].op \in Ops /\ resv' = [resv EXCEPT ![job[s].op] = "signed"]
    BY <1>6, <1>op DEF Sign
  <2>3. resv'[job[s].op] = "signed"
    BY <2>2 DEF StoreShape
  <2> QED BY <2>1, <2>2, <2>3 DEF ClaimGoes, SignedClaim
<1>7. CASE Mark(s) \/ Record(s)
  BY <1>7, <1>op DEF Mark, Record, SignedInv
<1>8. CASE Send(s)
  <2>1. PICK r : job' = [job EXCEPT ![s].reply = r]
    BY <1>8 DEF Send, Broadcast
  <2>2. job'[s].op = job[s].op
    BY <2>1 DEF DeskShape, On, JobShape
  <2>3. Newest(job[s].op) # 0
    BY <1>8 DEF Send, SignedInv
  <2> QED BY <2>2, <2>3
<1>9. ASSUME \/ PrepareFails(s) \/ Journal(s) \/ JournalFails(s) \/ SpeedUpOffer(s) \/ SpeedUpFails(s)
             \/ CommitRefused(s) \/ Done(s) \/ DiscardRefused(s) \/ Cancel(s) \/ TrackApply(s) \/ TrackSkip(s)
             \/ Crash(s)
      PROVE  FALSE
  <2>1. Return(s)
    BY <1>9 DEF PrepareFails, Journal, JournalFails, SpeedUpOffer, SpeedUpFails, CommitRefused, Done, DiscardRefused,
                Cancel, TrackApply, TrackSkip, Crash
  <2> QED BY <2>1, <1>ends
<1>10. ASSUME \/ Allocate(s) \/ Grow(s) \/ Claim(s) \/ ClaimSweep(s) \/ HandBack(s) \/ Reclaim(s)
              \/ AbandonLock(s) \/ AbandonRelease(s)
       PROVE  FALSE
  <2>1. \E p \in {"p_sdk", "p_pool", "p_rest", "p_insert", "d_cancel", "a_release"} : Goto(s, p)
    BY <1>10 DEF Allocate, Grow, Claim, ClaimSweep, HandBack, Reclaim, AbandonLock, AbandonRelease
  <2> QED BY <2>1, <1>away
<1> QED BY <1>1, <1>2, <1>3, <1>4, <1>5, <1>6, <1>7, <1>8, <1>9, <1>10 DEF Begin, Proceed

\* Whatever speaks of signed bytes still speaks of signed ones.
LEMMA SignedStep ==
  ASSUME QiInv, NEW s \in Sessions, Begin(s) \/ Proceed(s) \/ Crash(s)
  PROVE  SignedInv'
<1>k. ASSUME UNCHANGED <<resv, worth, family>> PROVE ClaimGoes(s)
  BY <1>k DEF ClaimGoes, Newest, QiInv, SignedInv, SignedClaim
<1>g. ClaimGoes(s)
  <2>1. Crash(s) => UNCHANGED <<resv, worth, family>>
    BY DEF Crash, claims
  <2> QED BY <2>1, <1>k, ClaimsGo, BeginKeeps
<1>1. \A o \in Ops : Newest(o)' # 0 <=> resv'[o] \in {"signed", "confirmed"}
  BY <1>g DEF ClaimGoes, SignedClaim
<1>2. \A o \in Ops : Newest(o) # 0 => Newest(o)' # 0
  BY <1>g DEF ClaimGoes
<1>3. ASSUME NEW o \in Ops, sent'[o] # {} \/ mined'[o] # 0 \/ row'[o].hash # 0 PROVE Newest(o)' # 0
  <2>1. CASE Begin(s) \/ Proceed(s)
    BY <2>1, <1>2, <1>3, SentIsSigned, RowsKnow
  <2>2. CASE Crash(s)
    <3>1. UNCHANGED <<sent, mined, row>>
      BY <2>2 DEF Crash, node
    <3> QED BY <3>1, <1>2, <1>3 DEF QiInv, SignedInv
  <2> QED BY <2>1, <2>2
<1>4. ASSUME NEW t \in Sessions, pc'[t] \in {"c_mark", "c_send", "c_done"}
      PROVE  \A o \in Ops : o = job'[t].op => Newest(o)' # 0
  <2>1. CASE t = s
    BY <2>1, <1>2, <1>4, SendsSigned
  <2>2. CASE t # s
    <3>1. Alone(s)
      BY BeginAlone, ProceedAlone DEF QiInv
    <3>2. pc[t] \in {"c_mark", "c_send", "c_done"} /\ job'[t] = job[t]
      BY <2>2, <3>1, <1>4 DEF Alone
    <3> QED BY <3>2, <1>2 DEF QiInv, SignedInv
  <2> QED BY <2>1, <2>2
<1>5. \A t \in Sessions : pc'[t] \in {"c_mark", "c_send", "c_done"} => job'[t].op \in Ops
  <2>1. QiLocks'
    BY LocksBegin, LocksProceed
  <2> QED BY <2>1 DEF QiLocks
<1> QED BY <1>1, <1>3, <1>4, <1>5 DEF SignedInv

-----------------------------------------------------------------------------
(* Reviews. *)

\* Every step of a session moves the claims as they go.
LEMMA StepsGo ==
  ASSUME QiInv, NEW s \in Sessions, Begin(s) \/ Proceed(s) \/ Crash(s)
  PROVE  ClaimGoes(s) /\ Alone(s) /\ QiLocks'
<1>1. ASSUME UNCHANGED <<resv, worth, family>> PROVE ClaimGoes(s)
  BY <1>1 DEF ClaimGoes, Newest, QiInv, SignedInv, SignedClaim
<1>2. Crash(s) => UNCHANGED <<resv, worth, family>>
  BY DEF Crash, claims
<1>3. ClaimGoes(s)
  BY <1>1, <1>2, ClaimsGo, BeginKeeps
<1> QED BY <1>3, BeginAlone, ProceedAlone, LocksBegin, LocksProceed DEF QiInv

\* The places a session comes to by itself.
LEMMA ComesTo ==
  ASSUME QiInv, NEW s \in Sessions, Begin(s) \/ Proceed(s) \/ Crash(s)
  PROVE  /\ pc'[s] = "d_reclaim" => \E p \in pending[s] : DiscardBegin(s, p) /\ p.k = 1 /\ opLock[p.op] = Nobody
         /\ pc'[s] \in {"p_rest", "p_insert"} => Claim(s) \/ ClaimSweep(s) \/ HandBack(s)
         /\ pc'[s] \in {"p_pool", "p_sdk", "p_sweep"} =>
              Allocate(s) \/ Grow(s) \/ \E o \in Ops : PrepareBegin(s, o)
         /\ pc'[s] = "c_sign" => \E p \in pending[s] : CommitBegin(s, p)
         /\ pc'[s] = "c_mark" => Sign(s)
         /\ pc'[s] = "c_send" => Mark(s) \/ Record(s) \/ \E o \in Ops : RebroadcastBegin(s, o)
         /\ pc'[s] = "c_done" => Send(s)
         /\ pc'[s] = "t_apply" => \E o \in Ops : TrackRead(s, o)
         /\ pc'[s] = "d_cancel" => Reclaim(s) \/ AbandonRelease(s)
         /\ pc'[s] = "u_offer" => \E o \in Ops : SpeedUpBegin(s, o)
<1> USE DEF QiInv
<1>away. ASSUME NEW p, Goto(s, p) PROVE pc'[s] = p
  BY <1>away DEF Goto, DeskShape
<1>1. ASSUME \/ PrepareFails(s) \/ Journal(s) \/ JournalFails(s) \/ SpeedUpOffer(s) \/ SpeedUpFails(s)
             \/ CommitRefused(s) \/ Done(s) \/ DiscardRefused(s) \/ Cancel(s) \/ TrackApply(s) \/ TrackSkip(s)
             \/ Crash(s)
      PROVE  pc'[s] = "idle"
  <2>1. Return(s)
    BY <1>1 DEF PrepareFails, Journal, JournalFails, SpeedUpOffer, SpeedUpFails, CommitRefused, Done, DiscardRefused,
                Cancel, TrackApply, TrackSkip, Crash
  <2> QED BY <2>1, ReturnHoldsNothing
<1>2. /\ Sign(s) => pc'[s] = "c_mark"
      /\ Mark(s) \/ Record(s) => pc'[s] = "c_send"
      /\ Send(s) => pc'[s] = "c_done"
      /\ Reclaim(s) \/ AbandonRelease(s) => pc'[s] = "d_cancel"
      /\ AbandonLock(s) => pc'[s] = "a_release"
  BY <1>away DEF Sign, Mark, Record, Send, Broadcast, Reclaim, AbandonLock, AbandonRelease
<1>3. ASSUME NEW o \in Ops
      PROVE  /\ SpeedUpBegin(s, o) => pc'[s] = "u_offer"
             /\ RebroadcastBegin(s, o) => pc'[s] = "c_send"
             /\ AbandonBegin(s, o) => pc'[s] = "a_lock"
             /\ TrackRead(s, o) => pc'[s] = "t_apply"
  BY <1>away DEF SpeedUpBegin, RebroadcastBegin, AbandonBegin, TrackRead
<1>4. ASSUME NEW o \in Ops, Reconcile(s, o) PROVE pc'[s] = "idle"
  BY <1>4 DEF Reconcile
<1>5. ASSUME NEW o \in Ops, PrepareBegin(s, o) PROVE pc'[s] \in {"p_pool", "p_sweep"}
  BY <1>5, <1>away DEF PrepareBegin
<1>6. ASSUME NEW p \in pending[s], CommitBegin(s, p) PROVE pc'[s] = "c_sign"
  BY <1>6, <1>away DEF CommitBegin
<1>7. ASSUME NEW p \in pending[s], DiscardBegin(s, p)
      PROVE  pc'[s] = "idle" \/ (pc'[s] = "d_reclaim" /\ p.k = 1 /\ opLock[p.op] = Nobody)
  <2>1. CASE p.k = 1 /\ opLock[p.op] = Nobody
    <3>1. Goto(s, "d_reclaim")
      BY <1>7, <2>1 DEF DiscardBegin
    <3> QED BY <2>1, <3>1, <1>away
  <2>2. CASE ~(p.k = 1 /\ opLock[p.op] = Nobody)
    BY <1>7, <2>2 DEF DiscardBegin
  <2> QED BY <2>1, <2>2
<1>8. /\ Allocate(s) => pc'[s] = "p_sdk" /\ (Grow(s) => pc'[s] = "p_pool")
      /\ Grow(s) => pc'[s] = "p_pool"
      /\ Claim(s) => pc'[s] = "p_rest"
      /\ ClaimSweep(s) \/ HandBack(s) => pc'[s] = "p_insert"
  BY <1>away DEF Allocate, Grow, Claim, ClaimSweep, HandBack
<1> QED BY <1>1, <1>2, <1>3, <1>4, <1>5, <1>6, <1>7, <1>8 DEF Begin, Proceed

\* A review is new in a session's memory when it has just been journalled, or replaces what the
\* newest candidate pays.
LEMMA NewReview ==
  ASSUME QiInv, NEW s \in Sessions, Begin(s) \/ Proceed(s) \/ Crash(s), NEW p \in pending'[s], p \notin pending[s]
  PROVE  \/ /\ Journal(s) /\ p.op = job[s].op /\ p.review = job[s].review /\ p.k = 1
            /\ \A q \in pending'[s] : q \in pending[s] \/ q = p
         \/ SpeedUpOffer(s) /\ p.op = job[s].op /\ p.k \in Nat \ {0, 1}
<1> USE DEF QiInv
<1>w. On(pending, Sessions)
  BY DEF DeskShape
<1>less. ASSUME \/ pending' = pending \/ \E A : pending' = [pending EXCEPT ![s] = @ \ A]
                \/ pending' = [pending EXCEPT ![s] = {}]
         PROVE  FALSE
  BY <1>less, <1>w DEF On
<1>1. ASSUME NEW o \in Ops, \/ PrepareBegin(s, o) \/ SpeedUpBegin(s, o) \/ RebroadcastBegin(s, o)
                            \/ AbandonBegin(s, o) \/ TrackRead(s, o) \/ Reconcile(s, o)
      PROVE  FALSE
  <2>1. pending' = pending
    BY <1>1 DEF PrepareBegin, SpeedUpBegin, RebroadcastBegin, AbandonBegin, TrackRead, Reconcile
  <2> QED BY <2>1, <1>less
<1>2. ASSUME NEW q \in pending[s], CommitBegin(s, q) \/ DiscardBegin(s, q) PROVE FALSE
  <2>1. pending' = [pending EXCEPT ![s] = @ \ {q}]
    BY <1>2 DEF CommitBegin, DiscardBegin
  <2> QED BY <2>1, <1>less
<1>3. ASSUME \/ Allocate(s) \/ Grow(s) \/ Claim(s) \/ ClaimSweep(s) \/ HandBack(s) \/ PrepareFails(s)
             \/ JournalFails(s) \/ SpeedUpFails(s) \/ Sign(s) \/ CommitRefused(s) \/ Mark(s) \/ Record(s) \/ Send(s)
             \/ Done(s) \/ Reclaim(s) \/ AbandonLock(s) \/ AbandonRelease(s) \/ DiscardRefused(s) \/ Cancel(s)
             \/ TrackApply(s) \/ TrackSkip(s)
      PROVE  FALSE
  <2>1. pending' = pending
    BY <1>3 DEF Allocate, Grow, Claim, ClaimSweep, HandBack, PrepareFails, JournalFails, SpeedUpFails, Sign,
                CommitRefused, Mark, Record, Send, Done, Reclaim, AbandonLock, AbandonRelease, DiscardRefused,
                Cancel, TrackApply, TrackSkip
  <2> QED BY <2>1, <1>less
<1>4. ASSUME Crash(s) PROVE FALSE
  BY <1>4, <1>less DEF Crash
<1>5. ASSUME SpeedUpOffer(s) PROVE p.op = job[s].op /\ p.k \in Nat \ {0, 1}
  <2>1. job[s].op \in Ops /\ resv[job[s].op] = "signed"
    BY <1>5 DEF SpeedUpOffer, QiLocks
  <2>2. Newest(job[s].op) # 0 /\ Newest(job[s].op) \in Nat
    <3>1. IsSeq(family[job[s].op])
      BY <2>1 DEF StoreShape
    <3> QED BY <2>1, <3>1, GrownSeq DEF SignedInv, Newest
  <2>3. PICK n : n = Parent(job[s].op) + 1
    OBVIOUS
  <2>4. n \in Nat \ {0, 1}
    BY <2>2, <2>3 DEF Parent
  <2>a. \E r : pending' = [pending EXCEPT ![s] = {q \in @ : q.op # job[s].op \/ q.k # Parent(job[s].op) + 1}
                                                   \cup {Review(job[s].op, Parent(job[s].op) + 1, r)}]
    BY <1>5 DEF SpeedUpOffer
  <2>5. PICK r : pending' = [pending EXCEPT ![s] = {q \in @ : q.op # job[s].op \/ q.k # n} \cup {Review(job[s].op, n, r)}]
    BY <2>3, <2>a
  <2>6. pending'[s] \subseteq pending[s] \cup {Review(job[s].op, n, r)}
    BY <2>5, <1>w DEF On
  <2>7. p = Review(job[s].op, n, r)
    BY <2>6
  <2> QED BY <2>4, <2>7 DEF Review
<1>6. ASSUME Journal(s)
      PROVE  /\ p.op = job[s].op /\ p.review = job[s].review /\ p.k = 1
             /\ \A q \in pending'[s] : q \in pending[s] \/ q = p
  <2>1. PICK r : r = Review(job[s].op, 1, job[s].review)
    OBVIOUS
  <2>2. pending' = [pending EXCEPT ![s] = @ \cup {r}]
    BY <1>6, <2>1 DEF Journal
  <2>3. pending'[s] = pending[s] \cup {r}
    BY <2>2, <1>w DEF On
  <2>4. p = r
    BY <2>3
  <2> QED BY <2>1, <2>3, <2>4 DEF Review
<1> QED BY <1>1, <1>2, <1>3, <1>4, <1>5, <1>6 DEF Begin, Proceed

\* The first review of an operation is new only when it has just been journalled.
LEMMA ReviewsLeft ==
  ASSUME QiInv, NEW s \in Sessions, Begin(s) \/ Proceed(s) \/ Crash(s), NEW p \in pending'[s], p \notin pending[s],
         p.k = 1
  PROVE  /\ Journal(s) /\ p.op = job[s].op /\ p.review = job[s].review
         /\ \A q \in pending'[s] : q \in pending[s] \/ q = p
BY NewReview

\* Who waits after a step waited before it, or has just journalled the review.
LEMMA WaitsWere ==
  ASSUME QiInv, NEW s \in Sessions, Begin(s) \/ Proceed(s) \/ Crash(s), NEW t \in Sessions, NEW o \in Ops,
         Waits(t, o)'
  PROVE  Waits(t, o) \/ (t = s /\ Journal(s) /\ o = job[s].op)
<1> USE DEF QiInv
<1>a. Alone(s)
  BY StepsGo
<1>1. CASE t # s
  BY <1>1, <1>a DEF Alone, Waits
<1>2. ASSUME t = s, NEW p \in pending'[t], p.op = o, p.k = 1
      PROVE  Waits(t, o) \/ (t = s /\ Journal(s) /\ o = job[s].op)
  <2>1. CASE p \in pending[s]
    BY <1>2, <2>1 DEF Waits
  <2>2. CASE p \notin pending[s]
    BY <1>2, <2>2, ReviewsLeft
  <2> QED BY <2>1, <2>2
<1>3. CASE t = s /\ pc'[t] = "d_reclaim" /\ job'[t].op = o
  <2>1. PICK p \in pending[s] : DiscardBegin(s, p) /\ p.k = 1 /\ opLock[p.op] = Nobody
    BY <1>3, ComesTo
  <2>2. job' = [job EXCEPT ![s] = JobOf(p.op, 1, p.review)]
    BY <2>1 DEF DiscardBegin
  <2>3. job'[s].op = p.op
    BY <2>2 DEF DeskShape, On, JobOf
  <2> QED BY <1>3, <2>1, <2>3 DEF Waits
<1> QED BY <1>1, <1>2, <1>3 DEF Waits

\* What Journal journals: a claim that is held, of which no review is known yet.
LEMMA JournalsOnce ==
  ASSUME QiInv, NEW s \in Sessions, Journal(s)
  PROVE  /\ job[s].op \in Ops /\ opLock[job[s].op] = s /\ resv[job[s].op] = "reserved"
         /\ job[s].review.kept = DOMAIN worth[job[s].op]
         /\ \A t \in Sessions : ~Waits(t, job[s].op)
<1>1. pc[s] = "p_insert"
  BY DEF Journal
<1> QED BY <1>1 DEF QiInv, QiLocks, ClaimInv, ReviewInv, Holding, Preparing

\* Claims are prepared one at a time.
LEMMA ClaimStep ==
  ASSUME QiInv, NEW s \in Sessions, Begin(s) \/ Proceed(s) \/ Crash(s)
  PROVE  ClaimInv'
<1> USE DEF QiInv
<1>g. ClaimGoes(s) /\ Alone(s) /\ QiLocks'
  BY StepsGo
<1>t. /\ resv \in [Ops -> {"none", "reserved", "signed", "released", "confirmed"}] /\ On(worth, Ops)
      /\ On(job, Sessions) /\ \A t \in Sessions : JobShape(job[t], issued)
  BY DEF StoreShape, DeskShape
<1>1. \A o \in Ops : resv'[o] = "none" => DOMAIN worth'[o] = {} /\ Newest(o)' = 0
  BY <1>g DEF ClaimGoes, ClaimInv, SignedClaim
<1>op. ASSUME pc[s] # "idle" PROVE job[s].op \in Ops
  BY <1>op DEF QiLocks
<1>2. ASSUME NEW t \in Sessions, t # s, pc[t] \in Preparing
      PROVE  resv'[job[t].op] = resv[job[t].op] /\ worth'[job[t].op] = worth[job[t].op]
  <2>1. job[t].op \in Ops /\ opLock[job[t].op] = t
    BY <1>2 DEF QiLocks, Holding, Preparing
  <2>2. t # Nobody
    BY QiNames
  <2> QED BY <1>2, <2>1, <2>2, <1>g DEF ClaimGoes
<1>3. ASSUME pc'[s] \in {"p_pool", "p_sdk", "p_sweep"} PROVE resv'[job'[s].op] = "none"
  <2>1. CASE Allocate(s) \/ Grow(s)
    <3>1. resv' = resv /\ pc[s] \in {"p_pool", "p_sdk"}
      BY <2>1 DEF Allocate, Grow, claims
    <3>2. job'[s].op = job[s].op
      <4>1. CASE Allocate(s)
        <5>1. \E A : job' = [job EXCEPT ![s].pool = A]
          BY <4>1 DEF Allocate
        <5> QED BY <5>1, <1>t DEF On, JobShape
      <4>2. CASE Grow(s)
        <5>1. \E A, n : job' = [job EXCEPT ![s].pool = A, ![s].size = n]
          BY <4>2 DEF Grow
        <5> QED BY <5>1, <1>t DEF On, JobShape
      <4> QED BY <2>1, <4>1, <4>2
    <3> QED BY <3>1, <3>2 DEF ClaimInv
  <2>2. ASSUME NEW o \in Ops, PrepareBegin(s, o) PROVE resv'[job'[s].op] = "none"
    <3>1. PICK j : j = JobOf(o, 1, NoCandidate)
      OBVIOUS
    <3>2. job' = [job EXCEPT ![s] = [j EXCEPT !.size = FirstPool]] /\ resv[o] = "none" /\ resv' = resv
      BY <2>2, <3>1 DEF PrepareBegin, claims
    <3>3. [j EXCEPT !.size = FirstPool].op = o
      BY <3>1 DEF JobOf
    <3> QED BY <3>2, <3>3, <1>t DEF On
  <2> QED BY <1>3, <2>1, <2>2, ComesTo
<1>4. ASSUME pc'[s] \in {"p_rest", "p_insert"}
      PROVE  resv'[job'[s].op] = "reserved" /\ job'[s].review.kept = DOMAIN worth'[job'[s].op]
  <2>1. CASE Claim(s)
    <3>1. PICK o \in Ops : o = job[s].op
      BY <2>1, <1>op DEF Claim
    <3>2. PICK mine \in SUBSET job[s].pool : \E w, r :
            /\ DOMAIN w = mine /\ r.kept = mine
            /\ worth' = [worth EXCEPT ![job[s].op] = w]
            /\ job' = [job EXCEPT ![s].pool = job[s].pool \ mine, ![s].review = r]
      BY <2>1, <3>1, ClaimTakes
    <3>3. PICK w, r :
            /\ DOMAIN w = mine /\ r.kept = mine
            /\ worth' = [worth EXCEPT ![job[s].op] = w]
            /\ job' = [job EXCEPT ![s].pool = job[s].pool \ mine, ![s].review = r]
      BY <3>2
    <3>4. resv' = [resv EXCEPT ![o] = "reserved"]
      BY <2>1, <3>1 DEF Claim
    <3>5. job'[s].op = o /\ job'[s].review = r
      BY <3>1, <3>3, <1>t DEF On, JobShape
    <3>6. worth'[o] = w /\ resv'[o] = "reserved"
      BY <3>1, <3>3, <3>4, <1>t DEF On
    <3> QED BY <3>3, <3>5, <3>6
  <2>2. CASE ClaimSweep(s)
    <3>1. PICK o \in Ops : o = job[s].op
      BY <2>2, <1>op DEF ClaimSweep
    <3>2. PICK r : r = Candidate({}, 0, TRUE)
      OBVIOUS
    <3>3. job' = [job EXCEPT ![s].review = r] /\ r.kept = {} /\ resv' = [resv EXCEPT ![o] = "reserved"] /\ worth' = worth
      BY <2>2, <3>1, <3>2 DEF ClaimSweep, Candidate
    <3>4. job'[s].op = o /\ job'[s].review = r /\ resv'[o] = "reserved"
      BY <3>1, <3>3, <1>t DEF On, JobShape
    <3>5. DOMAIN worth[o] = {}
      BY <2>2, <3>1 DEF ClaimSweep, ClaimInv
    <3> QED BY <3>3, <3>4, <3>5
  <2>3. CASE HandBack(s)
    <3>1. job' = [job EXCEPT ![s].pool = {}] /\ UNCHANGED <<resv, worth>> /\ pc[s] = "p_rest"
      BY <2>3 DEF HandBack, claims
    <3>2. job'[s].op = job[s].op /\ job'[s].review = job[s].review
      BY <3>1, <1>t DEF On, JobShape
    <3> QED BY <3>1, <3>2 DEF ClaimInv
  <2> QED BY <1>4, <2>1, <2>2, <2>3, ComesTo
<1>5. ASSUME NEW t \in Sessions, t # s
      PROVE  /\ pc'[t] \in {"p_pool", "p_sdk", "p_sweep"} => resv'[job'[t].op] = "none"
             /\ pc'[t] \in {"p_rest", "p_insert"} =>
                  resv'[job'[t].op] = "reserved" /\ job'[t].review.kept = DOMAIN worth'[job'[t].op]
  <2>1. pc'[t] = pc[t] /\ job'[t] = job[t]
    BY <1>5, <1>g DEF Alone
  <2> QED BY <2>1, <1>2, <1>5 DEF ClaimInv, Preparing
<1> QED BY <1>1, <1>3, <1>4, <1>5 DEF ClaimInv

\* The first review stays in one place.
LEMMA ReviewStep ==
  ASSUME QiInv, NEW s \in Sessions, Begin(s) \/ Proceed(s) \/ Crash(s)
  PROVE  ReviewInv'
<1> USE DEF QiInv
<1>g. ClaimGoes(s) /\ Alone(s) /\ QiLocks'
  BY StepsGo
<1>were. \A t \in Sessions : \A o \in Ops : Waits(t, o)' => Waits(t, o) \/ (t = s /\ Journal(s) /\ o = job[s].op)
  BY WaitsWere
<1>once. Journal(s) => /\ job[s].op \in Ops /\ opLock[job[s].op] = s /\ resv[job[s].op] = "reserved"
                       /\ job[s].review.kept = DOMAIN worth[job[s].op]
                       /\ \A t \in Sessions : ~Waits(t, job[s].op)
  BY JournalsOnce
<1>held. ASSUME NEW t \in Sessions, NEW o \in Ops, Waits(t, o) PROVE worth'[o] = worth[o]
  <2>1. resv[o] # "none"
    BY <1>held DEF ReviewInv
  <2> QED BY <2>1, <1>g DEF ClaimGoes
<1>1. ASSUME NEW o \in Ops, resv'[o] = "none", NEW t \in Sessions PROVE ~Waits(t, o)'
  <2>1. resv[o] = "none"
    BY <1>1, <1>g DEF ClaimGoes
  <2> QED BY <2>1, <1>were, <1>once DEF ReviewInv
<1>2. ASSUME NEW u \in Sessions, NEW t \in Sessions, pc'[u] \in {"p_rest", "p_insert"}, NEW o \in Ops, o = job'[u].op
      PROVE  ~Waits(t, o)'
  <2>1. CASE u # s
    <3>1. pc[u] \in {"p_rest", "p_insert"} /\ job[u].op = o
      BY <2>1, <1>2, <1>g DEF Alone
    <3>2. ~Waits(t, o) /\ opLock[o] = u
      BY <3>1 DEF ReviewInv, QiLocks, Holding, Preparing
    <3> QED BY <2>1, <3>2, <1>were, <1>once
  <2>2. CASE u = s
    <3>1. Claim(s) \/ ClaimSweep(s) \/ HandBack(s)
      BY <1>2, <2>2, ComesTo
    <3>2. pc[s] \in {"p_sdk", "p_sweep", "p_rest"}
      BY <3>1 DEF Claim, ClaimSweep, HandBack
    <3>3. job'[s].op = job[s].op
      <4>1. \E A, r : job' = [job EXCEPT ![s].pool = A, ![s].review = r] \/ job' = [job EXCEPT ![s].review = r]
                      \/ job' = [job EXCEPT ![s].pool = A]
        BY <3>1 DEF Claim, ClaimSweep, HandBack
      <4> QED BY <4>1 DEF DeskShape, On, JobShape
    <3>4. ~Waits(t, o)
      BY <3>2, <3>3, <1>2, <2>2 DEF ClaimInv, ReviewInv
    <3>5. ~Journal(s)
      BY <3>2 DEF Journal
    <3> QED BY <3>4, <3>5, <1>were
  <2> QED BY <2>1, <2>2
<1>3. ASSUME NEW o \in Ops, NEW t \in Sessions, NEW u \in Sessions, Waits(t, o)', Waits(u, o)' PROVE t = u
  <2>1. CASE Journal(s) /\ o = job[s].op
    BY <2>1, <1>3, <1>were, <1>once
  <2>2. CASE ~(Journal(s) /\ o = job[s].op)
    BY <2>2, <1>3, <1>were DEF ReviewInv
  <2> QED BY <2>1, <2>2
<1>left. ASSUME NEW p \in pending'[s], p \notin pending[s], p.k = 1
         PROVE  /\ Journal(s) /\ p.op = job[s].op /\ p.review = job[s].review
                /\ \A q \in pending'[s] : q \in pending[s] \/ q = p
  BY <1>left, ReviewsLeft
<1>op. ASSUME NEW t \in Sessions, NEW p \in pending[t] PROVE p.op \in Ops
  BY DEF DeskShape
<1>4. ASSUME NEW t \in Sessions, NEW p \in pending'[t], NEW q \in pending'[t], p.k = 1, q.k = 1, p.op = q.op PROVE p = q
  <2>1. CASE t # s
    <3>1. p \in pending[t] /\ q \in pending[t]
      BY <2>1, <1>g DEF Alone
    <3> QED BY <3>1, <1>4 DEF ReviewInv
  <2>2. CASE t = s /\ p \in pending[s] /\ q \in pending[s]
    BY <2>2, <1>4 DEF ReviewInv
  <2>3. ASSUME t = s, NEW a \in pending'[s], NEW b \in pending'[s], a \notin pending[s], a.k = 1, b.k = 1, a.op = b.op
        PROVE  a = b
    <3>1. Journal(s) /\ a.op = job[s].op /\ (b \in pending[s] \/ b = a)
      BY <2>3, <1>left
    <3>2. b \notin pending[s]
      BY <2>3, <3>1, <1>once DEF Waits
    <3> QED BY <3>1, <3>2
  <2> QED BY <2>1, <2>2, <2>3, <1>4
<1>5. ASSUME NEW t \in Sessions, NEW p \in pending'[t], p.k = 1
      PROVE  p.review.kept = DOMAIN worth'[p.op] /\ ~(pc'[t] = "d_reclaim" /\ job'[t].op = p.op)
  <2>1. CASE p \in pending[t]
    <3>1. p.op \in Ops /\ Waits(t, p.op) /\ p.review.kept = DOMAIN worth[p.op]
      BY <2>1, <1>5, <1>op DEF Waits, ReviewInv
    <3>2. worth'[p.op] = worth[p.op]
      BY <3>1, <1>held
    <3>3. CASE t # s
      <4>1. pc'[t] = pc[t] /\ job'[t] = job[t]
        BY <3>3, <1>g DEF Alone
      <4> QED BY <2>1, <3>1, <3>2, <4>1, <1>5 DEF ReviewInv
    <3>4. ASSUME t = s, pc'[s] = "d_reclaim", job'[s].op = p.op PROVE FALSE
      <4>1. PICK q \in pending[s] : DiscardBegin(s, q) /\ q.k = 1 /\ opLock[q.op] = Nobody
        BY <3>4, ComesTo
      <4>2. job' = [job EXCEPT ![s] = JobOf(q.op, 1, q.review)] /\ pending' = [pending EXCEPT ![s] = @ \ {q}]
        BY <4>1 DEF DiscardBegin
      <4>3. job'[s].op = q.op /\ pending'[s] = pending[s] \ {q}
        BY <4>2 DEF DeskShape, On, JobOf
      <4>4. p = q
        BY <3>4, <4>1, <4>3, <2>1, <1>5 DEF ReviewInv
      <4> QED BY <3>4, <4>3, <4>4, <1>5
    <3> QED BY <3>1, <3>2, <3>3, <3>4
  <2>2. CASE p \notin pending[t]
    <3>1. t = s
      BY <2>2, <1>g, <1>5 DEF Alone
    <3>2. Journal(s) /\ p.op = job[s].op /\ p.review = job[s].review
      BY <2>2, <3>1, <1>5, <1>left
    <3>3. worth'[p.op] = worth[p.op]
      BY <3>2 DEF Journal, claims
    <3>4. pc'[s] = "idle"
      <4>1. Return(s)
        BY <3>2 DEF Journal
      <4> QED BY <4>1, ReturnHoldsNothing
    <3> QED BY <3>1, <3>2, <3>3, <3>4, <1>once
  <2> QED BY <2>1, <2>2
<1>6. ASSUME NEW t \in Sessions, pc'[t] = "d_reclaim" PROVE job'[t].review.kept = DOMAIN worth'[job'[t].op]
  <2>1. CASE t # s
    <3>1. pc[t] = "d_reclaim" /\ job'[t] = job[t]
      BY <2>1, <1>6, <1>g DEF Alone
    <3>2. job[t].op \in Ops /\ Waits(t, job[t].op)
      BY <3>1 DEF Waits, QiLocks
    <3> QED BY <3>1, <3>2, <1>held DEF ReviewInv
  <2>2. CASE t = s
    <3>1. PICK q \in pending[s] : DiscardBegin(s, q) /\ q.k = 1 /\ opLock[q.op] = Nobody
      BY <1>6, <2>2, ComesTo
    <3>2. job' = [job EXCEPT ![s] = JobOf(q.op, 1, q.review)]
      BY <3>1 DEF DiscardBegin
    <3>3. job'[s].op = q.op /\ job'[s].review = q.review
      BY <3>2 DEF DeskShape, On, JobOf
    <3>4. q.op \in Ops /\ Waits(s, q.op) /\ q.review.kept = DOMAIN worth[q.op]
      BY <3>1, <1>op DEF Waits, ReviewInv
    <3> QED BY <2>2, <3>3, <3>4, <1>held
  <2> QED BY <2>1, <2>2
<1>7. \A u \in Sessions : pc'[u] \in {"p_rest", "p_insert"} => job'[u].op \in Ops
  BY <1>g DEF QiLocks
<1>8. ASSUME NEW u \in Sessions, NEW t \in Sessions, pc'[u] \in {"p_rest", "p_insert"} PROVE ~Waits(t, job[u].op)'
  <2>1. PICK o \in Ops : o = job'[u].op
    BY <1>7, <1>8
  <2>2. ~Waits(t, o)'
    BY <2>1, <1>2, <1>8
  <2> QED BY <2>1, <2>2 DEF Waits
<1> QED BY <1>1, <1>3, <1>4, <1>5, <1>6, <1>8 DEF ReviewInv

-----------------------------------------------------------------------------
(* One place for every address. *)

\* The addresses of an operation come from its pool, and otherwise only grow fewer.
LEMMA NamesFewer ==
  ASSUME QiInv, NEW s \in Sessions, Begin(s) \/ Proceed(s) \/ Crash(s), NEW o \in Ops, ~(Claim(s) /\ o = job[s].op)
  PROVE  Names(o)' \subseteq Names(o)
<1> USE DEF QiInv
<1>g. ClaimGoes(s)
  BY StepsGo

<1>r. resv[o] \in {"none", "reserved", "signed", "released", "confirmed"}
  BY DEF StoreShape
<1>1. CASE resv[o] = "none"
  <2>1. \A t \in Sessions : ~Waits(t, o)'
    <3>1. \A t \in Sessions : ~Waits(t, o)
      BY <1>1 DEF ReviewInv
    <3> QED BY <1>1, <3>1, WaitsWere, JournalsOnce
  <2>2. DOMAIN worth[o] = {}
    BY <1>1 DEF ClaimInv
  <2>3. worth'[o] = worth[o]
    <3>1. CASE Claim(s)
      <4>1. job[s].op \in Ops /\ job[s].op # o
        BY <3>1 DEF Claim, QiLocks
      <4>2. PICK mine \in SUBSET job[s].pool : \E w, r :
              /\ DOMAIN w = mine /\ r.kept = mine
              /\ worth' = [worth EXCEPT ![job[s].op] = w]
              /\ job' = [job EXCEPT ![s].pool = job[s].pool \ mine, ![s].review = r]
        BY <3>1, <4>1, ClaimTakes
      <4>3. PICK w : worth' = [worth EXCEPT ![job[s].op] = w]
        BY <4>2
      <4> QED BY <4>1, <4>3 DEF StoreShape, On
    <3>2. CASE ~Claim(s)
      <4>1. Begin(s) => UNCHANGED worth
        BY BeginKeeps
      <4>2. Proceed(s) \/ Crash(s) => UNCHANGED worth
        BY <3>2 DEF Proceed, Crash, Allocate, Grow, ClaimSweep, HandBack, PrepareFails, Journal, JournalFails,
                    SpeedUpOffer, SpeedUpFails, Sign, CommitRefused, Mark, Record, Send, Done, Reclaim, AbandonLock,
                    AbandonRelease, DiscardRefused, Cancel, TrackApply, TrackSkip, claims
      <4> QED BY <4>1, <4>2
    <3> QED BY <3>1, <3>2
  <2> QED BY <2>1, <2>2, <2>3 DEF Names
<1>2. CASE resv[o] # "none"
  <2>1. worth'[o] = worth[o]
    BY <1>2, <1>g DEF ClaimGoes
  <2>2. ASSUME NEW t \in Sessions, Waits(t, o)' PROVE resv[o] \in Claimed \/ \E u \in Sessions : Waits(u, o)
    BY <2>2, WaitsWere, JournalsOnce DEF Claimed
  <2>3. resv'[o] \in Claimed => resv[o] \in Claimed
    BY <1>2, <1>r, <1>g DEF ClaimGoes, Claimed
  <2> QED BY <2>1, <2>2, <2>3 DEF Names
<1> QED BY <1>1, <1>2

\* The pool of a session changes only while it prepares.
LEMMA PoolsStay ==
  ASSUME QiInv, NEW s \in Sessions, Begin(s) \/ Proceed(s) \/ Crash(s), ~Allocate(s)
  PROVE  \A t \in Sessions : Pooled(t)' \subseteq Pooled(t)
<1> USE DEF QiInv
<1>a. Alone(s) /\ QiLocks'
  BY StepsGo
<1>1. Pooled(s)' \subseteq Pooled(s)
  <2>1. CASE pc'[s] \notin {"p_sdk", "p_rest"}
    BY <2>1, <1>a DEF QiLocks, Pooled
  <2>2. ASSUME pc'[s] = "p_sdk" PROVE FALSE
    <3>1. Grow(s) \/ \E o \in Ops : PrepareBegin(s, o)
      BY <2>2, ComesTo
    <3>2. Goto(s, "p_pool") \/ \E p \in {"p_pool", "p_sweep"} : Goto(s, p)
      BY <3>1 DEF Grow, PrepareBegin
    <3> QED BY <2>2, <3>2 DEF Goto, DeskShape
  <2>3. CASE pc'[s] = "p_rest"
    <3>1. Claim(s) \/ ClaimSweep(s) \/ HandBack(s)
      BY <2>3, ComesTo
    <3>2. Claim(s)
      BY <2>3, <3>1 DEF ClaimSweep, HandBack, Goto, DeskShape
    <3>3. job[s].op \in Ops
      BY <3>2 DEF Claim, QiLocks
    <3>4. PICK mine \in SUBSET job[s].pool : \E w, r :
            /\ DOMAIN w = mine /\ r.kept = mine
            /\ worth' = [worth EXCEPT ![job[s].op] = w]
            /\ job' = [job EXCEPT ![s].pool = job[s].pool \ mine, ![s].review = r]
      BY <3>2, <3>3, ClaimTakes
    <3>5. PICK r : job' = [job EXCEPT ![s].pool = job[s].pool \ mine, ![s].review = r]
      BY <3>4
    <3>6. job'[s].pool = job[s].pool \ mine
      BY <3>5 DEF DeskShape, On, JobShape
    <3> QED BY <3>6 DEF Pooled
  <2> QED BY <2>1, <2>2, <2>3
<1>2. \A t \in Sessions \ {s} : Pooled(t)' = Pooled(t)
  BY <1>a DEF Alone, Pooled
<1> QED BY <1>1, <1>2

\* Nothing gains an address: every address stays where it is, or is nowhere.
LEMMA PlaceFewer ==
  ASSUME PlaceInv, \A o \in Ops : Names(o)' \subseteq Names(o), \A s \in Sessions : Pooled(s)' \subseteq Pooled(s),
         free' \subseteq free
  PROVE  PlaceInv'
<1>1. \A o \in Ops : /\ Names(o)' \cap free' = {}
                     /\ \A p \in Ops \ {o} : Names(o)' \cap Names(p)' = {}
                     /\ \A s \in Sessions : Names(o)' \cap Pooled(s)' = {}
  BY DEF PlaceInv
<1>2. \A s \in Sessions : /\ Pooled(s)' \cap free' = {}
                          /\ \A t \in Sessions \ {s} : Pooled(s)' \cap Pooled(t)' = {}
  BY DEF PlaceInv
<1> QED BY <1>1, <1>2 DEF PlaceInv

\* Whatever a session does, each address stays in one place.
LEMMA PlaceStep ==
  ASSUME QiInv, NEW s \in Sessions, Begin(s) \/ Proceed(s) \/ Crash(s)
  PROVE  PlaceInv'
<1> USE DEF QiInv
<1>a. Alone(s) /\ QiLocks'
  BY StepsGo
<1>op. ASSUME pc[s] # "idle" PROVE job[s].op \in Ops
  BY <1>op DEF QiLocks
<1>low. /\ \A o \in Ops : Names(o) \subseteq 1..issued
        /\ \A t \in Sessions : Pooled(t) \subseteq 1..issued
        /\ free \subseteq 1..issued /\ issued \in Nat
  BY QiBounds DEF StoreShape, DeskShape, JobShape, Names, Pooled
<1>1. CASE Allocate(s)
  <2>1. PICK old \in SUBSET free : \E start \in issued..MaxAddress :
          /\ issued' \in start..MaxAddress /\ free' = free \ old
          /\ job' = [job EXCEPT ![s].pool = old \cup (start + 1)..issued']
    BY <1>1, PoolTaken
  <2>2. PICK start \in issued..MaxAddress : job' = [job EXCEPT ![s].pool = old \cup (start + 1)..issued']
    BY <2>1
  <2>3. PICK new : new = (start + 1)..issued'
    OBVIOUS
  <2>4. new \cap 1..issued = {}
    BY <2>2, <2>3, <1>low
  <2>5. Pooled(s)' = old \cup new
    BY <2>2, <2>3 DEF DeskShape, On, JobShape, Pooled
  <2>6. \A t \in Sessions \ {s} : Pooled(t)' = Pooled(t)
    BY <1>a DEF Alone, Pooled
  <2>7. \A o \in Ops : Names(o)' \subseteq Names(o)
    <3>1. pc[s] # "p_sdk"
      BY <1>1 DEF Allocate
    <3>2. ~Claim(s)
      BY <3>1 DEF Claim
    <3> QED BY <3>2, NamesFewer
  <2>8. \A o \in Ops : /\ Names(o)' \cap free' = {}
                       /\ \A p \in Ops \ {o} : Names(o)' \cap Names(p)' = {}
                       /\ \A t \in Sessions \ {s} : Names(o)' \cap Pooled(t)' = {}
    BY <2>1, <2>6, <2>7 DEF PlaceInv
  <2>9. \A o \in Ops : Names(o)' \cap Pooled(s)' = {}
    BY <2>1, <2>4, <2>5, <2>7, <1>low DEF PlaceInv
  <2>10. /\ Pooled(s)' \cap free' = {}
         /\ \A t \in Sessions \ {s} : Pooled(s)' \cap Pooled(t)' = {} /\ Pooled(t)' \cap free' = {}
    BY <2>1, <2>4, <2>5, <2>6, <1>low DEF PlaceInv
  <2>11. \A t \in Sessions \ {s} : \A u \in Sessions \ {s, t} : Pooled(t)' \cap Pooled(u)' = {}
    BY <2>6 DEF PlaceInv
  <2> QED BY <2>8, <2>9, <2>10, <2>11 DEF PlaceInv
<1>2. CASE Grow(s) \/ HandBack(s) \/ PrepareFails(s)
  <2>1. free' \subseteq free \cup Pooled(s)
    BY <1>2 DEF Grow, HandBack, PrepareFails, Pooled
  <2>2. Pooled(s)' = {}
    <3>1. CASE Grow(s) \/ HandBack(s)
      <4>1. Goto(s, "p_pool") \/ Goto(s, "p_insert")
        BY <3>1 DEF Grow, HandBack
      <4>2. pc'[s] \notin {"p_sdk", "p_rest"}
        BY <4>1 DEF Goto, DeskShape
      <4> QED BY <4>2, <1>a DEF QiLocks, Pooled
    <3>2. CASE PrepareFails(s)
      <4>1. Return(s)
        BY <3>2 DEF PrepareFails
      <4>2. pc'[s] \notin {"p_sdk", "p_rest"}
        BY <4>1, ReturnHoldsNothing
      <4> QED BY <4>2, <1>a DEF QiLocks, Pooled
    <3> QED BY <1>2, <3>1, <3>2
  <2>3. \A t \in Sessions \ {s} : Pooled(t)' = Pooled(t)
    BY <1>a DEF Alone, Pooled
  <2>4. \A o \in Ops : Names(o)' \subseteq Names(o)
    <3>1. UNCHANGED worth /\ UNCHANGED resv /\ UNCHANGED pending /\ ~Journal(s)
      BY <1>2 DEF Grow, HandBack, PrepareFails, Journal, claims
    <3>2. \A o \in Ops : \A t \in Sessions : Waits(t, o)' => Waits(t, o)
      BY <3>1, WaitsWere
    <3> QED BY <3>1, <3>2 DEF Names
  <2>5. \A o \in Ops : /\ Names(o)' \cap free' = {}
                       /\ \A p \in Ops \ {o} : Names(o)' \cap Names(p)' = {}
                       /\ \A t \in Sessions : Names(o)' \cap Pooled(t)' = {}
    BY <2>1, <2>2, <2>3, <2>4 DEF PlaceInv
  <2>6. \A t \in Sessions : /\ Pooled(t)' \cap free' = {}
                            /\ \A u \in Sessions \ {t} : Pooled(t)' \cap Pooled(u)' = {}
    BY <2>1, <2>2, <2>3 DEF PlaceInv
  <2> QED BY <2>5, <2>6 DEF PlaceInv
<1>3. CASE Claim(s)
  <2>1. PICK o \in Ops : o = job[s].op
    BY <1>3, <1>op DEF Claim
  <2>2. PICK mine \in SUBSET job[s].pool : \E w, r :
          /\ DOMAIN w = mine /\ r.kept = mine
          /\ worth' = [worth EXCEPT ![job[s].op] = w]
          /\ job' = [job EXCEPT ![s].pool = job[s].pool \ mine, ![s].review = r]
    BY <1>3, <2>1, ClaimTakes
  <2>3. PICK w, r :
          /\ DOMAIN w = mine /\ r.kept = mine
          /\ worth' = [worth EXCEPT ![job[s].op] = w]
          /\ job' = [job EXCEPT ![s].pool = job[s].pool \ mine, ![s].review = r]
    BY <2>2
  <2>4. Names(o)' \subseteq mine
    BY <2>1, <2>3 DEF Names, StoreShape, On
  <2>5. \A p \in Ops \ {o} : Names(p)' \subseteq Names(p)
    BY <2>1, NamesFewer
  <2>6. Pooled(s)' = Pooled(s) \ mine /\ mine \subseteq Pooled(s)
    BY <2>3 DEF DeskShape, On, JobShape, Pooled
  <2>7. free' = free /\ \A t \in Sessions \ {s} : Pooled(t)' = Pooled(t)
    BY <1>3, <1>a DEF Alone, Pooled, Claim, pools
  <2>8. \A p \in Ops : /\ Names(p)' \cap free' = {}
                       /\ \A q \in Ops \ {p} : Names(p)' \cap Names(q)' = {}
                       /\ \A t \in Sessions : Names(p)' \cap Pooled(t)' = {}
    <3>1. /\ Names(o)' \cap free' = {}
          /\ \A q \in Ops \ {o} : Names(o)' \cap Names(q)' = {}
          /\ \A t \in Sessions : Names(o)' \cap Pooled(t)' = {}
      BY <2>4, <2>5, <2>6, <2>7 DEF PlaceInv
    <3>2. \A p \in Ops \ {o} : /\ Names(p)' \cap free' = {}
                               /\ \A q \in Ops \ {o, p} : Names(p)' \cap Names(q)' = {}
                               /\ \A t \in Sessions : Names(p)' \cap Pooled(t)' = {}
      BY <2>5, <2>6, <2>7 DEF PlaceInv
    <3> QED BY <3>1, <3>2
  <2>9. \A t \in Sessions : /\ Pooled(t)' \cap free' = {}
                            /\ \A u \in Sessions \ {t} : Pooled(t)' \cap Pooled(u)' = {}
    BY <2>6, <2>7 DEF PlaceInv
  <2> QED BY <2>8, <2>9 DEF PlaceInv
<1>4. CASE Reclaim(s)
  <2>1. PICK o \in Ops : o = job[s].op
    BY <1>4, <1>op DEF Reclaim
  <2>2. /\ pc[s] = "d_reclaim" /\ free' \subseteq free \cup job[s].review.kept
        /\ resv' = [resv EXCEPT ![o] = "released"] /\ worth' = worth /\ Goto(s, "d_cancel") /\ pending' = pending
    BY <1>4, <2>1 DEF Reclaim
  <2>3. Waits(s, o) /\ free' \subseteq free \cup Names(o)
    <3>1. Waits(s, o) /\ job[s].review.kept = DOMAIN worth[o]
      BY <2>1, <2>2 DEF Waits, ReviewInv
    <3> QED BY <2>2, <3>1 DEF Names
  <2>4. \A t \in Sessions : ~Waits(t, o)'
    <3>1. ASSUME NEW t \in Sessions, Waits(t, o)' PROVE FALSE
      <4>1. ~Journal(s)
        BY <2>2 DEF Journal
      <4>2. t = s
        BY <2>3, <3>1, <4>1, WaitsWere DEF ReviewInv
      <4>3. pc'[s] # "d_reclaim"
        BY <2>2 DEF Goto, DeskShape
      <4>4. PICK p \in pending[s] : p.op = o /\ p.k = 1
        BY <3>1, <4>2, <4>3, <2>2 DEF Waits
      <4> QED BY <4>4, <2>1, <2>2 DEF ReviewInv
    <3> QED BY <3>1
  <2>5. Names(o)' = {}
    BY <2>2, <2>4 DEF Names, StoreShape, Claimed
  <2>6. /\ \A p \in Ops : Names(p)' \subseteq Names(p)
        /\ \A t \in Sessions : Pooled(t)' \subseteq Pooled(t)
    <3>1. ~Claim(s) /\ ~Allocate(s)
      BY <2>2 DEF Claim, Allocate
    <3> QED BY <3>1, NamesFewer, PoolsStay
  <2>7. \A p \in Ops : /\ Names(p)' \cap free' = {}
                       /\ \A q \in Ops \ {p} : Names(p)' \cap Names(q)' = {}
                       /\ \A t \in Sessions : Names(p)' \cap Pooled(t)' = {}
    BY <2>3, <2>5, <2>6 DEF PlaceInv
  <2>8. \A t \in Sessions : /\ Pooled(t)' \cap free' = {}
                            /\ \A u \in Sessions \ {t} : Pooled(t)' \cap Pooled(u)' = {}
    BY <2>3, <2>6 DEF PlaceInv
  <2> QED BY <2>7, <2>8 DEF PlaceInv
<1>5. CASE ~(Allocate(s) \/ Grow(s) \/ HandBack(s) \/ PrepareFails(s) \/ Claim(s) \/ Reclaim(s))
  <2>1. free' = free
    <3>1. Begin(s) => free' = free
      BY BeginKeeps
    <3>2. Proceed(s) \/ Crash(s) => free' = free
      BY <1>5 DEF Proceed, Crash, ClaimSweep, Journal, JournalFails, SpeedUpOffer, SpeedUpFails, Sign, CommitRefused,
                  Mark, Record, Send, Done, AbandonLock, AbandonRelease, DiscardRefused, Cancel, TrackApply,
                  TrackSkip, pools
    <3> QED BY <3>1, <3>2
  <2>2. \A o \in Ops : Names(o)' \subseteq Names(o)
    BY <1>5, NamesFewer
  <2>3. \A t \in Sessions : Pooled(t)' \subseteq Pooled(t)
    BY <1>5, PoolsStay
  <2> QED BY <2>1, <2>2, <2>3, PlaceFewer
<1> QED BY <1>1, <1>2, <1>3, <1>4, <1>5

-----------------------------------------------------------------------------
(* The theorem. *)

\* The invariant holds at the start.
LEMMA QiInitially == Init => QiInv
<1> SUFFICES ASSUME Init PROVE QiInv
  OBVIOUS
<1> USE QiBounds
<1>1. StoreShape
  <2>1. IsSeq(<<>>)
    BY DEF IsSeq
  <2>2. On(worth, Ops) /\ On(family, Ops) /\ On(sent, Ops) /\ On(mined, Ops) /\ On(row, Ops)
    BY DEF Init, On
  <2>3. \A o \in Ops : DOMAIN worth[o] = {} /\ family[o] = <<>>
    BY DEF Init
  <2>4. /\ resv \in [Ops -> {"none", "reserved", "signed", "released", "confirmed"}]
        /\ issued \in 0..MaxAddress /\ free \subseteq 1..issued
    BY DEF Init
  <2> QED BY <2>1, <2>2, <2>3, <2>4 DEF StoreShape
<1>2. DeskShape
  <2>1. JobShape(NoJob, 0)
    <3>1. NoOp \in Ops \cup {NoOp} /\ 0 \in Nat
      OBVIOUS
    <3> QED BY <3>1, JobShapes
  <2>2. \A s \in Sessions : JobShape(job[s], issued)
    BY <2>1 DEF Init
  <2>3. /\ opLock \in [Ops -> Sessions \cup {Nobody}] /\ pc \in [Sessions -> QiPlaces]
        /\ On(job, Sessions) /\ On(pending, Sessions) /\ \A s \in Sessions : pending[s] = {}
    BY DEF Init, On, QiPlaces
  <2> QED BY <2>2, <2>3 DEF DeskShape
<1>3. QiLocks
  BY DEF Init, QiLocks, NoJob, JobOf, Holding, Preparing
<1>4. \A o \in Ops : Newest(o) = 0
  BY DEF Init, Newest
<1>5. ClaimInv
  BY <1>4 DEF Init, ClaimInv
<1>6. \A s \in Sessions : \A o \in Ops : ~Waits(s, o)
  BY DEF Init, Waits
<1>7. ReviewInv
  BY <1>6 DEF Init, ReviewInv
<1>8. SignedInv
  BY <1>4 DEF Init, SignedInv, NoRow, Row
<1>9. PlaceInv
  <2>1. \A o \in Ops : Names(o) = {}
    BY <1>6 DEF Init, Names, Claimed
  <2>2. \A s \in Sessions : Pooled(s) = {}
    BY DEF Init, Pooled, NoJob, JobOf
  <2> QED BY <2>1, <2>2 DEF PlaceInv
<1> QED BY <1>1, <1>2, <1>3, <1>5, <1>7, <1>8, <1>9 DEF QiInv

\* Every step keeps it.
LEMMA QiStep == QiInv /\ [Next]_vars => QiInv'
<1> SUFFICES ASSUME QiInv, [Next]_vars PROVE QiInv'
  OBVIOUS
<1>1. StoreShape'
  BY StoreStep
<1>2. ASSUME NEW s \in Sessions, Begin(s) \/ Proceed(s) \/ Crash(s) PROVE QiInv'
  <2>1. DeskShape' /\ QiLocks'
    BY <1>2, DeskBegin, DeskProceed, LocksBegin, LocksProceed DEF QiInv
  <2>2. ClaimInv' /\ ReviewInv' /\ SignedInv' /\ PlaceInv'
    BY <1>2, ClaimStep, ReviewStep, SignedStep, PlaceStep
  <2> QED BY <1>1, <2>1, <2>2 DEF QiInv
<1>same. ASSUME UNCHANGED <<resv, worth, family, issued, free, sent, row, opLock, pc, job, pending>>,
                \A o \in Ops : mined'[o] # 0 => Newest(o) # 0
         PROVE  QiInv'
  <2>1. DeskShape' /\ QiLocks'
    BY <1>same DEF QiInv, DeskShape, QiLocks
  <2>2. ClaimInv' /\ ReviewInv'
    BY <1>same DEF QiInv, ClaimInv, ReviewInv, Waits, Newest
  <2>3. \A o \in Ops : Names(o)' = Names(o)
    BY <1>same DEF Names, Waits
  <2>4. PlaceInv'
    BY <1>same, <2>3 DEF QiInv, PlaceInv, Pooled
  <2>5. SignedInv'
    BY <1>same DEF QiInv, SignedInv, Newest
  <2> QED BY <1>1, <2>1, <2>2, <2>4, <2>5 DEF QiInv
<1>3. ASSUME NEW o \in Ops, NEW k \in sent[o], Mine(o, k) PROVE QiInv'
  <2>1. UNCHANGED <<resv, worth, family, issued, free, sent, row, opLock, pc, job, pending>>
    BY <1>3 DEF Mine, claims, pools
  <2>2. mined' = [mined EXCEPT ![o] = k] /\ On(mined, Ops) /\ Newest(o) # 0
    BY <1>3 DEF Mine, QiInv, StoreShape, SignedInv
  <2>3. \A p \in Ops : mined'[p] # 0 => Newest(p) # 0
    BY <2>2 DEF On, QiInv, SignedInv
  <2> QED BY <2>1, <2>3, <1>same
<1>4. ASSUME UNCHANGED vars PROVE QiInv'
  <2>1. \A p \in Ops : mined'[p] # 0 => Newest(p) # 0
    BY <1>4 DEF vars, QiInv, SignedInv
  <2> QED BY <1>4, <2>1, <1>same DEF vars
<1> QED BY <1>2, <1>3, <1>4 DEF Next

\* The invariant holds of every behaviour, however many sessions, operations and addresses there are.
THEOREM QiInvariance == Spec => []QiInv
<1> QED BY QiInitially, QiStep, PTL DEF Spec

\* ops.rs, release_pool: an address is handed back, in one session's pool, or named by one
\* operation's claim, and never two of these; whichever sessions prepare, grow, reject or die.
THEOREM OneChangeAddress == Spec => []NoAddressTwice
<1>1. QiInv => NoAddressTwice
  <2> SUFFICES ASSUME QiInv PROVE NoAddressTwice
    OBVIOUS
  <2>1. \A o \in Ops : Reviewed(o) \subseteq Names(o)
    BY DEF Reviewed, Names, Claimed
  <2> QED BY <2>1 DEF QiInv, PlaceInv, NoAddressTwice
<1> QED BY <1>1, QiInvariance, PTL

-----------------------------------------------------------------------------
(* What the journal says. *)

QiStatuses == {"none", "prepared", "cancelled", "signed", "submitted", "unknown", "settling", "confirmed", "failed"}
\* The journal knows of signed bytes.
Told(o) == row[o].st \notin {"none", "prepared", "cancelled"}

\* What a row says is true of its claim.
RowWord(o) ==
  /\ row[o].st \in QiStatuses
  /\ Told(o) => Newest(o) # 0
  /\ Newest(o) # 0 => row[o].st # "none"
  /\ row[o].st = "cancelled" => resv[o] = "released"
  /\ row[o].st \in {"confirmed", "failed"} => mined[o] # 0
  /\ row[o].hash # 0 => Told(o)
  /\ 0 \notin sent[o] /\ (mined[o] # 0 => sent[o] # {})
\* What a session is about to sign has a row, what it is about to send is told, what it is
\* about to cancel is released.
DeskWord(s) ==
  /\ \A p \in pending[s] : row[p.op].st # "none" /\ p.k # 0
  /\ pc[s] = "c_sign" => row[job[s].op].st # "none" /\ job[s].from = "none"
  /\ pc[s] \in {"c_sign", "c_mark", "c_send"} => job[s].k # 0
  /\ pc[s] \in {"c_send", "c_done"} => Told(job[s].op)
  /\ pc[s] \in {"c_mark", "c_send", "c_done"} => job[s].from \in {"none", "settling"} \cup Awaiting
  /\ pc[s] = "t_apply" => job[s].from \in Awaiting
  /\ pc[s] = "d_cancel" => resv[job[s].op] = "released"

WordInv == (\A o \in Ops : RowWord(o)) /\ (\A s \in Sessions : DeskWord(s))

\* A row that is written: what it may say of a claim as it stands.
Rises(o, w) ==
  /\ w.st \in QiStatuses \ {"none"}
  /\ w.st \notin {"prepared", "cancelled"} => Newest(o) # 0
  /\ w.st = "cancelled" => resv[o] = "released"
  /\ w.st = "prepared" => resv[o] = "reserved"
  /\ w.st \in {"confirmed", "failed"} => mined[o] # 0 /\ Told(o)
  /\ w.hash # 0 \/ Told(o) => w.st \notin {"prepared", "cancelled"}
  /\ row[o].st \in {"confirmed", "failed"} => w.st = row[o].st

\* Every row that is written says so.
LEMMA RowsRise ==
  ASSUME QiInv, WordInv, NEW s \in Sessions, Begin(s) \/ Proceed(s) \/ Crash(s), NEW o \in Ops
  PROVE  row'[o] = row[o] \/ Rises(o, row'[o])
<1> USE DEF QiInv
<1>t. On(row, Ops)
  BY DEF StoreShape
<1>w. /\ row[o].st \in QiStatuses /\ (Told(o) => Newest(o) # 0) /\ (Newest(o) # 0 => row[o].st # "none")
      /\ (row[o].st = "cancelled" => resv[o] = "released")
      /\ (row[o].st \in {"confirmed", "failed"} => mined[o] # 0) /\ (row[o].hash # 0 => Told(o))
  BY DEF WordInv, RowWord, DeskWord
<1>n. Newest(o) # 0 <=> resv[o] \in {"signed", "confirmed"}
  BY DEF SignedInv
<1>m. mined[o] # 0 \/ sent[o] # {} => Newest(o) # 0
  BY DEF SignedInv
<1>op. ASSUME pc[s] # "idle" PROVE job[s].op \in Ops
  BY <1>op DEF QiLocks
<1>same. ASSUME UNCHANGED row PROVE row'[o] = row[o]
  BY <1>same
<1>one. ASSUME NEW p \in Ops, NEW w, row' = [row EXCEPT ![p] = w], p = o => w = row[o] \/ Rises(o, w)
        PROVE  row'[o] = row[o] \/ Rises(o, row'[o])
  <2>1. CASE p = o
    <3>1. row'[o] = w
      BY <2>1, <1>one, <1>t DEF On
    <3> QED BY <2>1, <3>1, <1>one
  <2>2. CASE p # o
    BY <2>2, <1>one, <1>t DEF On
  <2> QED BY <2>1, <2>2
<1>move. ASSUME NEW p \in Ops, NEW from, NEW w, Transition(p, from, w),
                p = o /\ row[o].st = from => w = row[o] \/ Rises(o, w)
         PROVE  row'[o] = row[o] \/ Rises(o, row'[o])
  <2>1. row'[p] \in {row[p], w} /\ \A q \in Ops \ {p} : row'[q] = row[q]
    BY <1>move, <1>t, TransitionShape
  <2>2. CASE p = o
    <3>1. CASE row[o].st = from
      <4>1. row'[o] = row[o] \/ row'[o] = w
        BY <2>1, <2>2
      <4> QED BY <2>2, <3>1, <4>1, <1>move
    <3>2. CASE row[o].st # from
      BY <2>2, <3>2, <1>move DEF Transition
    <3> QED BY <3>1, <3>2
  <2>3. CASE p # o
    BY <2>1, <2>3
  <2> QED BY <2>2, <2>3
<1>told. ASSUME NEW w, w.st \in {"signed", "submitted", "unknown", "settling"}, Newest(o) # 0,
                row[o].st \notin {"confirmed", "failed"}
         PROVE  Rises(o, w)
  BY <1>told, <1>n DEF Rises, QiStatuses
<1>1. CASE Begin(s)
  <2>1. ASSUME NEW p \in Ops, Reconcile(s, p) PROVE row'[o] = row[o] \/ Rises(o, row'[o])
    <3>1. PICK w : w = IF row[p].st = "none" THEN Row("prepared", 0, {}, 0, FALSE) ELSE row[p]
      OBVIOUS
    <3>2. PICK st : st = IF w.st = "prepared" THEN "signed" ELSE w.st
      OBVIOUS
    <3>3. PICK k : k = IF st \in Concluded THEN w.hash ELSE Newest(p)
      OBVIOUS
    <3>4. PICK v : v = IF Newest(p) = 0 THEN w ELSE Row(st, k, DOMAIN family[p], w.fee, TRUE)
      OBVIOUS
    <3>5. row' = [row EXCEPT ![p] = v]
      BY <2>1, <3>1, <3>2, <3>3, <3>4 DEF Reconcile
    <3>6. ASSUME p = o, Newest(o) = 0 PROVE v = row[o] \/ Rises(o, v)
      <4>1. CASE row[o].st = "none"
        <5>1. v.st = "prepared" /\ v.hash = 0
          BY <3>1, <3>4, <3>6, <4>1 DEF Row
        <5>2. resv[o] = "reserved"
          BY <2>1, <3>6, <4>1, <1>n DEF Reconcile
        <5> QED BY <4>1, <5>1, <5>2 DEF Rises, QiStatuses, Told
      <4>2. CASE row[o].st # "none"
        BY <3>1, <3>4, <3>6, <4>2
      <4> QED BY <4>1, <4>2
    <3>7. ASSUME p = o, Newest(o) # 0 PROVE Rises(o, v)
      <4>1. row[o].st \notin {"none", "cancelled"} /\ resv[o] # "released"
        BY <3>7, <1>w, <1>n
      <4>2. v.st = st /\ w = row[o]
        BY <3>1, <3>4, <3>7, <4>1 DEF Row
      <4>3. st \in QiStatuses \ {"none", "prepared", "cancelled"} /\ (st \in {"confirmed", "failed"} => row[o].st = st)
        BY <3>2, <4>1, <4>2, <1>w DEF QiStatuses
      <4>4. row[o].st \in {"confirmed", "failed"} => st = row[o].st
        BY <3>2, <4>2
      <4>5. st \in {"confirmed", "failed"} => Told(o)
        BY <4>3 DEF Told
      <4> QED BY <3>7, <4>2, <4>3, <4>4, <4>5, <1>w DEF Rises
    <3> QED BY <3>5, <3>6, <3>7, <1>one
  <2> QED BY <1>1, <2>1, <1>same, BeginRows
<1>2. CASE Journal(s)
  <2>1. PICK w : w = Row("prepared", 0, {}, QuotedFee, FALSE)
    OBVIOUS
  <2>2. row' = [row EXCEPT ![job[s].op] = w] /\ job[s].op \in Ops /\ resv[job[s].op] = "reserved"
    BY <1>2, <2>1, JournalsOnce DEF Journal
  <2>3. w.st = "prepared" /\ w.hash = 0
    BY <2>1 DEF Row
  <2>4. job[s].op = o => ~Told(o)
    BY <2>2, <1>n, <1>w
  <2>5. job[s].op = o => Rises(o, w)
    BY <2>2, <2>3, <2>4 DEF Rises, QiStatuses, Told
  <2> QED BY <2>2, <2>5, <1>one
<1>3. CASE Mark(s)
  <2>1. job[s].op \in Ops /\ Newest(job[s].op) # 0
    BY <1>3, <1>op DEF Mark, SignedInv
  <2>2. PICK w : w = Row("signed", 1, row[job[s].op].known, FeeOf(job[s].op, job[s].review), row[job[s].op].listed)
    OBVIOUS
  <2>3. row' = [row EXCEPT ![job[s].op] = w] /\ w.st = "signed" /\ row[job[s].op].st = "prepared"
    BY <1>3, <2>2 DEF Mark, Row
  <2>4. job[s].op = o => Rises(o, w)
    BY <2>1, <2>3, <1>told
  <2> QED BY <2>1, <2>3, <2>4, <1>one
<1>4. CASE Record(s)
  <2>1. job[s].op \in Ops /\ Newest(job[s].op) # 0
    BY <1>4, <1>op DEF Record, SignedInv
  <2>2. PICK w : /\ row' = [row EXCEPT ![job[s].op] = w]
                 /\ \/ w.st = row[job[s].op].st /\ w.st \in Concluded
                    \/ w.st = "submitted" /\ row[job[s].op].st \notin Concluded
    <3>1. PICK r : r = row[job[s].op]
      OBVIOUS
    <3>2. CASE r.st \in Concluded
      <4>1. PICK w : w = Row(r.st, r.hash, r.known \cup ({r.hash, job[s].k} \ {0}), r.fee, TRUE)
        OBVIOUS
      <4>2. row' = [row EXCEPT ![job[s].op] = w]
        BY <1>4, <3>1, <3>2, <4>1 DEF Record
      <4>3. w.st = r.st
        BY <4>1 DEF Row
      <4> QED BY <3>1, <3>2, <4>2, <4>3
    <3>3. CASE r.st \notin Concluded
      <4>1. PICK w : w = Row("submitted", job[s].k, r.known \cup ({r.hash, job[s].k} \ {0}),
                             FeeOf(job[s].op, job[s].review), TRUE)
        OBVIOUS
      <4>2. row' = [row EXCEPT ![job[s].op] = w]
        BY <1>4, <3>1, <3>3, <4>1 DEF Record
      <4>3. w.st = "submitted"
        BY <4>1 DEF Row
      <4> QED BY <3>1, <3>3, <4>2, <4>3
    <3> QED BY <3>2, <3>3
  <2>3. ASSUME job[s].op = o, w.st = row[o].st, w.st \in Concluded PROVE Rises(o, w)
    <3>1. Newest(o) # 0 /\ resv[o] # "released"
      BY <2>1, <2>3, <1>n
    <3>2. w.st \notin {"none", "prepared", "cancelled"}
      BY <2>3, <3>1, <1>w DEF Concluded, Terminal
    <3> QED BY <2>3, <3>1, <3>2, <1>w DEF Rises, Told
  <2>4. ASSUME job[s].op = o, w.st = "submitted", row[o].st \notin Concluded PROVE Rises(o, w)
    BY <2>1, <2>4, <1>told DEF Concluded, Terminal
  <2> QED BY <2>1, <2>2, <2>3, <2>4, <1>one
<1>5. CASE Done(s)
  <2>1. job[s].op \in Ops /\ Newest(job[s].op) # 0
    BY <1>5, <1>op DEF Done, SignedInv
  <2>2. PICK w : w = Moved(row[job[s].op], AfterReply(job[s].reply), job[s].k)
    OBVIOUS
  <2>3. w.st \in {"signed", "submitted", "unknown"}
    BY <2>2 DEF Moved, Row, AfterReply
  <2>4. PICK from \in {"signed", "submitted", "settling"} \cup Awaiting : Transition(job[s].op, from, w)
    <3>1. job[s].from \in {"none", "settling"} \cup Awaiting
      BY <1>5 DEF Done, WordInv, RowWord, DeskWord
    <3> QED BY <1>5, <2>2, <3>1 DEF Done
  <2>5. job[s].op = o /\ row[o].st = from => Rises(o, w)
    BY <2>1, <2>3, <2>4, <1>told DEF Awaiting
  <2> QED BY <2>1, <2>4, <2>5, <1>move
<1>6. CASE Cancel(s)
  <2>1. job[s].op \in Ops /\ resv[job[s].op] = "released"
    BY <1>6, <1>op DEF Cancel, WordInv, RowWord, DeskWord
  <2>2. PICK w : w = Moved(row[job[s].op], "cancelled", row[job[s].op].hash)
    OBVIOUS
  <2>3. row' = row \/ row' = [row EXCEPT ![job[s].op] = w]
    BY <1>6, <2>2 DEF Cancel
  <2>4. w.st = "cancelled" /\ w.hash = row[job[s].op].hash
    BY <2>2 DEF Moved, Row
  <2>5. job[s].op = o => Rises(o, w)
    <3>1. ASSUME job[s].op = o PROVE Rises(o, w)
      <4>1. resv[o] = "released" /\ ~Told(o)
        BY <2>1, <3>1, <1>w, <1>n
      <4>2. w.st = "cancelled" /\ w.hash = 0
        BY <2>4, <3>1, <4>1, <1>w
      <4> QED BY <4>1, <4>2 DEF Rises, QiStatuses, Told
    <3> QED BY <3>1
  <2> QED BY <2>1, <2>3, <2>5, <1>same, <1>one
<1>7. CASE TrackApply(s)
  <2>1. PICK c \in Ops : c = job[s].op
    BY <1>7, <1>op DEF TrackApply
  <2>0. job[s].from \in Awaiting
    BY <1>7 DEF TrackApply, WordInv, RowWord, DeskWord
  <2>2. \/ \E st \in IncludedAs : \E k : Transition(c, job[s].from, Moved(row[c], st, k)) /\ mined[c] # 0
        \/ Transition(c, job[s].from, Moved(row[c], "submitted", row[c].hash)) /\ 1 \in sent[c]
    <3>1. PICK j : j = job[s]
      OBVIOUS
    <3>2. \/ (IF j.listed THEN mined[c] # 0 ELSE mined[c] = 1)
             /\ \E st \in IncludedAs : Transition(c, j.from, Moved(row[c], st, IF j.listed THEN mined[c] ELSE j.k))
          \/ Transition(c, j.from, Moved(row[c], "submitted", row[c].hash)) /\ 1 \in sent[c]
      BY <1>7, <2>1, <3>1 DEF TrackApply
    <3>3. (IF j.listed THEN mined[c] # 0 ELSE mined[c] = 1) => mined[c] # 0
      OBVIOUS
    <3> QED BY <3>1, <3>2, <3>3
  <2>3. ASSUME NEW st \in IncludedAs, NEW k, Transition(c, job[s].from, Moved(row[c], st, k)), mined[c] # 0
        PROVE  row'[o] = row[o] \/ Rises(o, row'[o])
    <3>1. PICK w : w = Moved(row[c], st, k)
      OBVIOUS
    <3>2. w.st \in {"confirmed", "failed", "settling"}
      BY <3>1, QiOutcomes DEF Moved, Row
    <3>3. c = o /\ row[o].st = job[s].from => Rises(o, w)
      BY <2>0, <2>3, <3>2, <1>m, <1>n DEF Rises, QiStatuses, Told, Awaiting
    <3> QED BY <2>3, <3>1, <3>3, <1>move
  <2>4. ASSUME Transition(c, job[s].from, Moved(row[c], "submitted", row[c].hash)), 1 \in sent[c]
        PROVE  row'[o] = row[o] \/ Rises(o, row'[o])
    <3>1. PICK w : w = Moved(row[c], "submitted", row[c].hash)
      OBVIOUS
    <3>2. w.st = "submitted"
      BY <3>1 DEF Moved, Row
    <3>3. c = o /\ row[o].st = job[s].from => Rises(o, w)
      BY <2>0, <2>4, <3>2, <1>m, <1>told DEF Awaiting
    <3> QED BY <2>4, <3>1, <3>3, <1>move
  <2> QED BY <2>2, <2>3, <2>4
<1>8. CASE \/ Allocate(s) \/ Grow(s) \/ Claim(s) \/ ClaimSweep(s) \/ HandBack(s) \/ PrepareFails(s)
           \/ JournalFails(s) \/ SpeedUpOffer(s) \/ SpeedUpFails(s) \/ Sign(s) \/ CommitRefused(s) \/ Send(s)
           \/ Reclaim(s) \/ AbandonLock(s) \/ AbandonRelease(s) \/ DiscardRefused(s) \/ TrackSkip(s) \/ Crash(s)
  <2>1. UNCHANGED row
    BY <1>8 DEF Allocate, Grow, Claim, ClaimSweep, HandBack, PrepareFails, JournalFails, SpeedUpOffer, SpeedUpFails,
                Sign, CommitRefused, Send, Reclaim, AbandonLock, AbandonRelease, DiscardRefused, TrackSkip, Crash, node
  <2> QED BY <2>1, <1>same
<1> QED BY <1>1, <1>2, <1>3, <1>4, <1>5, <1>6, <1>7, <1>8 DEF Proceed

\* Only a signature adds a candidate, only a broadcast sends one.
LEMMA OnlySignAndSend ==
  ASSUME NEW s \in Sessions, Begin(s) \/ Proceed(s) \/ Crash(s)
  PROVE  /\ mined' = mined
         /\ Sign(s) \/ UNCHANGED family
         /\ Send(s) \/ UNCHANGED sent
<1>1. CASE Begin(s)
  BY <1>1, BeginKeeps
<1>2. CASE Sign(s)
  BY <1>2 DEF Sign, node
<1>3. CASE Send(s)
  BY <1>3 DEF Send, claims
<1>4. CASE \/ Allocate(s) \/ Grow(s) \/ Claim(s) \/ ClaimSweep(s) \/ HandBack(s) \/ PrepareFails(s)
           \/ Journal(s) \/ JournalFails(s) \/ SpeedUpOffer(s) \/ SpeedUpFails(s) \/ CommitRefused(s)
  BY <1>4 DEF Allocate, Grow, Claim, ClaimSweep, HandBack, PrepareFails, Journal, JournalFails, SpeedUpOffer,
              SpeedUpFails, CommitRefused, claims, node
<1>5. CASE \/ Mark(s) \/ Record(s) \/ Done(s) \/ Reclaim(s) \/ AbandonLock(s) \/ AbandonRelease(s)
           \/ DiscardRefused(s) \/ Cancel(s) \/ TrackApply(s) \/ TrackSkip(s) \/ Crash(s)
  BY <1>5 DEF Mark, Record, Done, Reclaim, AbandonLock, AbandonRelease, DiscardRefused, Cancel, TrackApply, TrackSkip,
              Crash, claims, node
<1> QED BY <1>1, <1>2, <1>3, <1>4, <1>5 DEF Proceed

\* What is signed and sent, and by whom.
LEMMA SignedOrSent ==
  ASSUME QiInv, NEW s \in Sessions, Begin(s) \/ Proceed(s) \/ Crash(s), NEW o \in Ops
  PROVE  /\ Newest(o)' # Newest(o) => Sign(s) /\ job[s].op = o
         /\ sent'[o] # sent[o] => /\ Send(s) /\ job[s].op = o
                                  /\ sent'[o] = sent[o] \cup {job[s].k}
<1>1. On(family, Ops) /\ On(sent, Ops)
  BY DEF QiInv, StoreShape
<1>2. CASE Sign(s)
  <2>1. \E q : family' = [family EXCEPT ![job[s].op] = q]
    BY <1>2 DEF Sign
  <2>2. job[s].op # o => family'[o] = family[o]
    BY <1>1, <2>1 DEF On
  <2>3. Newest(o)' # Newest(o) => job[s].op = o
    BY <2>2 DEF Newest
  <2>4. UNCHANGED sent
    BY <1>2 DEF Sign, node
  <2> QED BY <1>2, <2>3, <2>4
<1>3. CASE ~Sign(s)
  <2>1. Newest(o)' = Newest(o)
    BY <1>3, OnlySignAndSend DEF Newest
  <2>2. CASE ~Send(s)
    BY <2>1, <2>2, OnlySignAndSend
  <2>3. CASE Send(s)
    <3>1. sent' = sent \/ sent' = [sent EXCEPT ![job[s].op] = @ \cup {job[s].k}]
      BY <2>3 DEF Send, Broadcast
    <3>2. sent'[o] # sent[o] => job[s].op = o /\ sent'[o] = sent[o] \cup {job[s].k}
      BY <1>1, <3>1 DEF On
    <3> QED BY <2>1, <2>3, <3>2
  <2> QED BY <2>2, <2>3
<1> QED BY <1>2, <1>3

\* What a row says of its claim, it still says.
LEMMA RowsStay ==
  ASSUME QiInv, WordInv, NEW s \in Sessions, Begin(s) \/ Proceed(s) \/ Crash(s), NEW o \in Ops
  PROVE  /\ row'[o].st \in QiStatuses
         /\ Told(o)' => Newest(o)' # 0
         /\ Newest(o)' # 0 => row'[o].st # "none"
         /\ row'[o].st = "cancelled" => resv'[o] = "released"
         /\ row'[o].st \in {"confirmed", "failed"} => mined'[o] # 0
         /\ row'[o].hash # 0 => Told(o)'
         /\ 0 \notin sent'[o] /\ (mined'[o] # 0 => sent'[o] # {})
         /\ Told(o) => Told(o)'
         /\ row[o].st # "none" => row'[o].st # "none"
<1>w. /\ row[o].st \in QiStatuses /\ (Told(o) => Newest(o) # 0) /\ (Newest(o) # 0 => row[o].st # "none")
      /\ (row[o].st = "cancelled" => resv[o] = "released")
      /\ (row[o].st \in {"confirmed", "failed"} => mined[o] # 0) /\ (row[o].hash # 0 => Told(o))
      /\ 0 \notin sent[o] /\ (mined[o] # 0 => sent[o] # {})
  BY DEF WordInv, RowWord, DeskWord
<1>g. /\ resv[o] = "released" => resv'[o] = "released"
      /\ Newest(o) # 0 => Newest(o)' # 0
      /\ mined' = mined
  BY StepsGo, OnlySignAndSend DEF ClaimGoes
<1>r. row'[o] = row[o] \/ Rises(o, row'[o])
  BY RowsRise
<1>told. Told(o)' <=> row'[o].st \notin {"none", "prepared", "cancelled"}
  BY DEF Told
<1>1. Newest(o)' # 0 => row'[o].st # "none"
  <2>1. CASE Newest(o)' = Newest(o)
    BY <2>1, <1>w, <1>r DEF Rises
  <2>2. CASE Newest(o)' # Newest(o)
    <3>1. Sign(s) /\ job[s].op = o
      BY <2>2, SignedOrSent
    <3>2. row[o].st # "none"
      BY <3>1 DEF Sign, WordInv, RowWord, DeskWord
    <3> QED BY <3>2, <1>r DEF Rises
  <2> QED BY <2>1, <2>2
<1>2. 0 \notin sent'[o] /\ (mined'[o] # 0 => sent'[o] # {})
  <2>1. CASE sent'[o] = sent[o]
    BY <2>1, <1>w, <1>g
  <2>2. CASE sent'[o] # sent[o]
    <3>1. Send(s) /\ sent'[o] = sent[o] \cup {job[s].k}
      BY <2>2, SignedOrSent
    <3>2. job[s].k # 0
      BY <3>1 DEF Send, WordInv, RowWord, DeskWord
    <3> QED BY <3>1, <3>2, <1>w
  <2> QED BY <2>1, <2>2
<1>3. CASE row'[o] = row[o]
  <2>1. Told(o)' <=> Told(o)
    BY <1>3 DEF Told
  <2> QED BY <1>1, <1>2, <1>3, <2>1, <1>w, <1>g
<1>4. CASE Rises(o, row'[o])
  <2>1. Told(o) => Told(o)'
    BY <1>4, <1>told DEF Rises
  <2>2. /\ row'[o].st \in QiStatuses /\ (Told(o)' => Newest(o)' # 0)
        /\ row'[o].st = "cancelled" => resv'[o] = "released"
    BY <1>4, <1>g, <1>told DEF Rises
  <2>3. row'[o].st \in {"confirmed", "failed"} => mined'[o] # 0
    BY <1>4, <1>g DEF Rises
  <2>4. row'[o].hash # 0 => Told(o)'
    BY <1>4, <1>told DEF Rises
  <2>5. row'[o].st # "none"
    BY <1>4 DEF Rises
  <2> QED BY <1>1, <1>2, <2>1, <2>2, <2>3, <2>4, <2>5
<1> QED BY <1>r, <1>3, <1>4

\* What a session is about to do still agrees with the journal.
LEMMA DeskWordStep ==
  ASSUME QiInv, WordInv, NEW s \in Sessions, Begin(s) \/ Proceed(s) \/ Crash(s)
  PROVE  DeskWord(s)'
<1>s. DeskWord(s) /\ \A o \in Ops : RowWord(o)
  BY DEF WordInv
<1>r. \A o \in Ops : /\ row[o].st # "none" => row'[o].st # "none"
                     /\ Told(o) => Told(o)'
  BY RowsStay
<1>op. ASSUME pc[s] # "idle" PROVE job[s].op \in Ops
  BY <1>op DEF QiInv, QiLocks
<1>j. On(job, Sessions) /\ On(row, Ops) /\ \A p \in pending[s] : p.op \in Ops
  BY DEF QiInv, DeskShape, StoreShape
<1>n. \A o \in Ops : Newest(o) # 0 <=> resv[o] \in {"signed", "confirmed"}
  BY DEF QiInv, SignedInv
<1>t. /\ resv \in [Ops -> {"none", "reserved", "signed", "released", "confirmed"}]
  BY DEF QiInv, StoreShape
<1>1. ASSUME NEW p \in pending'[s] PROVE row'[p.op].st # "none" /\ p.k # 0
  <2>1. CASE p \in pending[s]
    BY <2>1, <1>j, <1>r, <1>s DEF DeskWord
  <2>2. CASE p \notin pending[s]
    <3>1. \/ Journal(s) /\ p.op = job[s].op /\ p.k = 1
          \/ SpeedUpOffer(s) /\ p.op = job[s].op /\ p.k \in Nat \ {0, 1}
      BY <1>1, <2>2, NewReview
    <3>2. CASE Journal(s) /\ p.op = job[s].op /\ p.k = 1
      <4>1. PICK w : w = Row("prepared", 0, {}, QuotedFee, FALSE)
        OBVIOUS
      <4>2. row' = [row EXCEPT ![p.op] = w] /\ p.op \in Ops
        BY <3>2, <4>1, <1>op DEF Journal
      <4>3. row'[p.op] = w
        BY <4>2, <1>j DEF On
      <4>4. w.st = "prepared"
        BY <4>1 DEF Row
      <4> QED BY <3>2, <4>3, <4>4
    <3>3. CASE SpeedUpOffer(s) /\ p.op = job[s].op /\ p.k \in Nat \ {0, 1}
      <4>1. p.op \in Ops /\ resv[p.op] = "signed"
        BY <3>3, <1>op DEF SpeedUpOffer
      <4>2. row[p.op].st # "none"
        BY <4>1, <1>n, <1>s DEF RowWord
      <4> QED BY <3>3, <4>1, <4>2, <1>r
    <3> QED BY <3>1, <3>2, <3>3
  <2> QED BY <2>1, <2>2
<1>2. ASSUME pc'[s] = "c_sign"
      PROVE  row'[job'[s].op].st # "none" /\ job'[s].from = "none" /\ job'[s].k # 0
  <2>1. PICK p \in pending[s] : CommitBegin(s, p)
    BY <1>2, ComesTo
  <2>2. job' = [job EXCEPT ![s] = JobOf(p.op, p.k, p.review)]
    BY <2>1 DEF CommitBegin
  <2>3. job'[s].op = p.op /\ job'[s].k = p.k /\ job'[s].from = "none"
    BY <2>2, <1>j DEF On, JobOf
  <2>4. row[p.op].st # "none" /\ p.k # 0 /\ p.op \in Ops
    BY <2>1, <1>j, <1>s DEF DeskWord
  <2> QED BY <2>3, <2>4, <1>r
<1>3. ASSUME pc'[s] = "c_mark"
      PROVE  job'[s].k # 0 /\ job'[s].from \in {"none", "settling"} \cup Awaiting
  <2>1. Sign(s)
    BY <1>3, ComesTo
  <2>2. job' = job /\ pc[s] = "c_sign"
    BY <2>1 DEF Sign
  <2> QED BY <2>2, <1>s DEF DeskWord
<1>4. ASSUME pc'[s] = "c_send"
      PROVE  /\ job'[s].k # 0 /\ job'[s].from \in {"none", "settling"} \cup Awaiting
             /\ \A o \in Ops : o = job'[s].op => Told(o)'
  <2>0. Mark(s) \/ Record(s) \/ \E o \in Ops : RebroadcastBegin(s, o)
    BY <1>4, ComesTo
  <2>1. CASE Mark(s)
    <3>1. PICK o \in Ops : o = job[s].op
      BY <2>1, <1>op DEF Mark
    <3>2. PICK w : w = Row("signed", 1, row[o].known, FeeOf(o, job[s].review), row[o].listed)
      OBVIOUS
    <3>5. job' = job /\ pc[s] = "c_mark" /\ row' = [row EXCEPT ![o] = w]
      BY <2>1, <3>1, <3>2 DEF Mark
    <3>3. row'[o].st = "signed"
      BY <3>2, <3>5, <1>j DEF On, Row
    <3>4. Told(o)'
      BY <3>3 DEF Told
    <3> QED BY <3>1, <3>4, <3>5, <1>s DEF DeskWord
  <2>2. CASE Record(s)
    <3>1. PICK o \in Ops : o = job[s].op
      BY <2>2, <1>op DEF Record
    <3>2. job' = job /\ pc[s] = "c_mark" /\ Newest(o) # 0
      BY <2>2, <3>1 DEF Record, QiInv, SignedInv
    <3>3. PICK v : v = row[o]
      OBVIOUS
    <3>4. PICK w : w = IF v.st \in Concluded
                       THEN Row(v.st, v.hash, v.known \cup ({v.hash, job[s].k} \ {0}), v.fee, TRUE)
                       ELSE Row("submitted", job[s].k, v.known \cup ({v.hash, job[s].k} \ {0}), FeeOf(o, job[s].review), TRUE)
      OBVIOUS
    <3>8. row' = [row EXCEPT ![o] = w]
      BY <2>2, <3>1, <3>3, <3>4 DEF Record
    <3>5. row'[o].st = IF v.st \in Concluded THEN v.st ELSE "submitted"
      BY <3>4, <3>8, <1>j DEF On, Row
    <3>6. v.st # "cancelled"
      BY <3>2, <3>3, <1>n, <1>s DEF RowWord
    <3>7. Told(o)'
      BY <3>5, <3>6 DEF Told, Concluded, Terminal
    <3> QED BY <3>1, <3>2, <3>7, <1>s DEF DeskWord
  <2>3. ASSUME NEW o \in Ops, RebroadcastBegin(s, o)
        PROVE  /\ job'[s].k # 0 /\ job'[s].from \in {"none", "settling"} \cup Awaiting
               /\ \A q \in Ops : q = job'[s].op => Told(q)'
    <3>1. row[o].st \notin Terminal \cup {"none"} /\ row[o].hash # 0 /\ job' = [job EXCEPT ![s] = ReadOf(o)]
      BY <2>3 DEF RebroadcastBegin
    <3>2. job'[s].op = o /\ job'[s].k = row[o].hash /\ job'[s].from = row[o].st
      BY <3>1, <1>j DEF On, ReadOf, JobOf
    <3>3. Told(o) /\ row[o].st \in QiStatuses
      BY <3>1, <1>s DEF RowWord
    <3>4. row[o].st \in {"none", "settling"} \cup Awaiting
      BY <3>1, <3>3 DEF Told, QiStatuses, Terminal, Awaiting
    <3> QED BY <3>1, <3>2, <3>3, <3>4, <1>r
  <2> QED BY <2>0, <2>1, <2>2, <2>3

<1>5. ASSUME pc'[s] = "c_done"
      PROVE  /\ job'[s].from \in {"none", "settling"} \cup Awaiting
             /\ \A o \in Ops : o = job'[s].op => Told(o)'
  <2>1. Send(s)
    BY <1>5, ComesTo
  <2>2. pc[s] = "c_send" /\ \E r : job' = [job EXCEPT ![s].reply = r]
    BY <2>1 DEF Send, Broadcast
  <2>3. job'[s].op = job[s].op /\ job'[s].from = job[s].from
    <3>1. JobShape(job[s], issued)
      BY DEF QiInv, DeskShape
    <3> QED BY <2>2, <3>1, <1>j DEF On, JobShape
  <2>4. job[s].op \in Ops /\ Told(job[s].op) /\ job[s].from \in {"none", "settling"} \cup Awaiting
    BY <2>2, <1>op, <1>s DEF DeskWord
  <2> QED BY <2>3, <2>4, <1>r
<1>6. ASSUME pc'[s] = "t_apply" PROVE job'[s].from \in Awaiting
  <2>1. PICK o \in Ops : TrackRead(s, o)
    BY <1>6, ComesTo
  <2>2. row[o].st \in Awaiting /\ job' = [job EXCEPT ![s] = ReadOf(o)]
    BY <2>1 DEF TrackRead
  <2>3. job'[s].from = row[o].st
    BY <2>2, <1>j DEF On, ReadOf, JobOf
  <2> QED BY <2>2, <2>3
<1>7. ASSUME pc'[s] = "d_cancel" PROVE resv'[job'[s].op] = "released"
  <2>1. Reclaim(s) \/ AbandonRelease(s)
    BY <1>7, ComesTo
  <2>2. PICK o \in Ops : o = job[s].op
    BY <2>1, <1>op DEF Reclaim, AbandonRelease
  <2>3. job' = job /\ resv' = [resv EXCEPT ![o] = "released"]
    BY <2>1, <2>2 DEF Reclaim, AbandonRelease
  <2> QED BY <2>2, <2>3, <1>t
<1>8. pc'[s] \in {"c_send", "c_done"} => job'[s].op \in Ops
  <2>1. pc'[s] # "idle" => job'[s].op \in Ops
    BY StepsGo DEF QiLocks
  <2> QED BY <2>1
<1>9. pc'[s] \in {"c_send", "c_done"} => \A o \in Ops : o = job'[s].op => Told(o)'
  BY <1>4, <1>5
<1>10. pc'[s] \in {"c_send", "c_done"} => row'[job'[s].op].st \notin {"none", "prepared", "cancelled"}
  BY <1>8, <1>9 DEF Told
<1> QED BY <1>1, <1>2, <1>3, <1>4, <1>5, <1>6, <1>7, <1>10 DEF DeskWord, Told

\* Every step of a session keeps the journal true.
LEMMA WordStep ==
  ASSUME QiInv, WordInv, NEW s \in Sessions, Begin(s) \/ Proceed(s) \/ Crash(s)
  PROVE  WordInv'
<1>1. \A o \in Ops : RowWord(o)'
  BY RowsStay DEF RowWord
<1>2. ASSUME NEW t \in Sessions, t # s PROVE DeskWord(t)'
  <2>1. pc'[t] = pc[t] /\ job'[t] = job[t] /\ pending'[t] = pending[t]
    BY <1>2, StepsGo DEF Alone
  <2>2. DeskWord(t) /\ (pc[t] # "idle" => job[t].op \in Ops) /\ \A p \in pending[t] : p.op \in Ops
    BY DEF WordInv, QiInv, QiLocks, DeskShape
  <2>3. \A o \in Ops : /\ row[o].st # "none" => row'[o].st # "none"
                       /\ Told(o) => Told(o)'
                       /\ resv[o] = "released" => resv'[o] = "released"
    BY RowsStay, StepsGo DEF ClaimGoes
  <2>4. \A p \in pending'[t] : row'[p.op].st # "none" /\ p.k # 0
    BY <2>1, <2>2, <2>3 DEF DeskWord
  <2>5. CASE pc[t] = "idle"
    BY <2>1, <2>4, <2>5 DEF DeskWord
  <2>6. CASE pc[t] # "idle"
    <3>1. PICK o \in Ops : o = job[t].op
      BY <2>2, <2>6
    <3>2. Told(job[t].op)' <=> row'[job'[t].op].st \notin {"none", "prepared", "cancelled"}
      BY DEF Told
    <3>3. Told(o)' <=> row'[o].st \notin {"none", "prepared", "cancelled"}
      BY DEF Told
    <3>4. job'[t].op = o /\ Told(o) = Told(job[t].op)
      BY <2>1, <3>1
    <3> QED BY <2>1, <2>2, <2>3, <2>4, <3>1, <3>2, <3>3, <3>4 DEF DeskWord
  <2> QED BY <2>5, <2>6
<1>3. DeskWord(s)'
  BY DeskWordStep
<1> QED BY <1>1, <1>2, <1>3 DEF WordInv


-----------------------------------------------------------------------------
(* The promise: what a step makes of a spend's life and of the journal's word. *)

Promised == \/ Promise!Next
            \/ UNCHANGED <<[o \in Ops |-> Life(o)], [o \in Ops |-> Word(o)]>>

LifeFacts == \A o \in Ops :
  /\ Life(o) = IF mined[o] # 0 THEN "included" ELSE IF sent[o] # {} THEN "sent"
               ELSE IF Newest(o) # 0 THEN "signed" ELSE IF resv[o] = "reserved" THEN "review" ELSE "free"
  /\ mined[o] # 0 => sent[o] # {}
  /\ sent[o] # {} => Newest(o) # 0
  /\ Newest(o) # 0 <=> resv[o] \in {"signed", "confirmed"}

\* A spend is where the furthest of its candidates is.
LEMMA LifeIs == QiInv /\ WordInv => LifeFacts
<1> SUFFICES ASSUME QiInv, WordInv, NEW o \in Ops
             PROVE  /\ Life(o) = IF mined[o] # 0 THEN "included" ELSE IF sent[o] # {} THEN "sent"
                                 ELSE IF Newest(o) # 0 THEN "signed"
                                 ELSE IF resv[o] = "reserved" THEN "review" ELSE "free"
                    /\ mined[o] # 0 => sent[o] # {}
                    /\ sent[o] # {} => Newest(o) # 0
                    /\ Newest(o) # 0 <=> resv[o] \in {"signed", "confirmed"}
  BY DEF LifeFacts
<1>1. mined[o] # 0 => sent[o] # {}
  BY DEF WordInv, RowWord
<1>2. (sent[o] # {} => Newest(o) # 0) /\ (Newest(o) # 0 <=> resv[o] \in {"signed", "confirmed"})
  BY DEF QiInv, SignedInv
<1>3. Newest(o) \in Nat
  <2>1. IsSeq(family[o])
    BY DEF QiInv, StoreShape
  <2> QED BY <2>1, GrownSeq DEF Newest
<1>4. Newest(o) > 0 <=> Newest(o) # 0
  BY <1>3
<1>5. CASE mined[o] # 0
  BY <1>1, <1>2, <1>5 DEF Life
<1>6. CASE mined[o] = 0 /\ sent[o] # {}
  BY <1>2, <1>4, <1>6 DEF Life
<1>7. CASE mined[o] = 0 /\ sent[o] = {} /\ Newest(o) # 0
  BY <1>2, <1>4, <1>7 DEF Life
<1>8. CASE mined[o] = 0 /\ sent[o] = {} /\ Newest(o) = 0
  BY <1>2, <1>4, <1>8 DEF Life
<1> QED BY <1>1, <1>2, <1>5, <1>6, <1>7, <1>8

\* The same of the next state.
LEMMA LifeIsNext == (QiInv /\ WordInv)' => LifeFacts'
BY LifeIs, PTL

\* What a row's status says.
LEMMA WordIs ==
  ASSUME NEW o \in Ops, row[o].st \in QiStatuses
  PROVE  /\ row[o].st = "none" => Word(o) = "nothing"
         /\ row[o].st = "prepared" => Word(o) = "waiting"
         /\ row[o].st = "cancelled" => Word(o) = "cancelled"
         /\ row[o].st \in {"signed", "submitted", "unknown", "settling"} => Word(o) = "signed"
         /\ row[o].st \in {"confirmed", "failed"} => Word(o) = "concluded"
BY DEF Word, QiStatuses, Awaiting

\* The same of the next state's.
LEMMA WordIsNext ==
  ASSUME NEW o \in Ops, row'[o].st \in QiStatuses
  PROVE  /\ row'[o].st = "none" => Word(o)' = "nothing"
         /\ row'[o].st = "prepared" => Word(o)' = "waiting"
         /\ row'[o].st = "cancelled" => Word(o)' = "cancelled"
         /\ row'[o].st \in {"signed", "submitted", "unknown", "settling"} => Word(o)' = "signed"
         /\ row'[o].st \in {"confirmed", "failed"} => Word(o)' = "concluded"
BY DEF Word, QiStatuses, Awaiting

\* One spend moves on: the others keep their stage and the journal its words.
LEMMA Moves ==
  ASSUME UNCHANGED row, NEW o \in Ops, NEW l, Life(o)' = l, \A i \in Ops \ {o} : Life(i)' = Life(i)
  PROVE  Promise!Becomes(o, l)
<1>1. \A i \in Ops : Word(i)' = Word(i)
  BY DEF Word
<1> QED BY <1>1 DEF Promise!Becomes

\* The journal says something else of one spend: all keep their stage.
LEMMA Reports ==
  ASSUME NEW o \in Ops, NEW w, Word(o)' = w, \A i \in Ops \ {o} : row'[i] = row[i],
         \A i \in Ops : Life(i)' = Life(i)
  PROVE  Promise!Says(o, w)
<1>1. \A i \in Ops \ {o} : Word(i)' = Word(i)
  BY DEF Word
<1> QED BY <1>1 DEF Promise!Says

\* Nothing said and nothing done.
LEMMA NothingSeen ==
  ASSUME \A i \in Ops : Life(i)' = Life(i) /\ Word(i)' = Word(i)
  PROVE  Promised
BY DEF Promised

\* A step that changes one row, and no stage: the promise allows what the row now says.
LEMMA RowsPromised ==
  ASSUME QiInv, WordInv, WordInv', NEW s \in Sessions, Begin(s) \/ Proceed(s) \/ Crash(s),
         \A i \in Ops : Life(i)' = Life(i), NEW o \in Ops, \A i \in Ops \ {o} : row'[i] = row[i]
  PROVE  Promised
<1>r. row'[o] = row[o] \/ Rises(o, row'[o])
  BY RowsRise
<1>l. LifeFacts
  BY LifeIs
<1>w. /\ row[o].st \in QiStatuses /\ row'[o].st \in QiStatuses /\ (Newest(o) # 0 => row[o].st # "none")
      /\ row[o].st = "cancelled" => resv[o] = "released"
  BY DEF WordInv, RowWord
<1>same. ASSUME Word(o)' = Word(o) PROVE Promised
  <2>1. \A i \in Ops : Life(i)' = Life(i) /\ Word(i)' = Word(i)
    BY <1>same DEF Word
  <2> QED BY <2>1, NothingSeen
<1>1. CASE row'[o] = row[o]
  <2>1. Word(o)' = Word(o)
    BY <1>1 DEF Word
  <2> QED BY <2>1, <1>same
<1>2. CASE Rises(o, row'[o]) /\ row'[o].st \in {"prepared", "cancelled"}
  <2>1. row[o].st \in {"none", "prepared", "cancelled"}
    BY <1>2 DEF Rises, Told
  <2>2. Word(o) \in Promise!Unsaid
    BY <2>1, <1>w, WordIs DEF Promise!Unsaid
  <2>3. CASE row'[o].st = "prepared"
    <3>1. resv[o] = "reserved" /\ Word(o)' = "waiting"
      BY <1>2, <2>3, <1>w, WordIsNext DEF Rises
    <3>2. Life(o) = "review"
      BY <3>1, <1>l DEF LifeFacts
    <3>3. Promise!Journal(o)
      BY <2>2, <3>1, <3>2, Reports DEF Promise!Journal
    <3> QED BY <3>3 DEF Promised, Promise!Next
  <2>4. CASE row'[o].st = "cancelled"
    <3>1. resv[o] = "released" /\ Word(o)' = "cancelled"
      BY <1>2, <2>4, <1>w, WordIsNext DEF Rises
    <3>2. Life(o) = "free"
      BY <3>1, <1>l DEF LifeFacts
    <3>3. Promise!Cancel(o)
      BY <2>2, <3>1, <3>2, Reports DEF Promise!Cancel
    <3> QED BY <3>3 DEF Promised, Promise!Next
  <2> QED BY <1>2, <2>3, <2>4
<1>3. CASE Rises(o, row'[o]) /\ row'[o].st \in {"signed", "submitted", "unknown", "settling"}
  <2>1. Newest(o) # 0 /\ Word(o)' = "signed" /\ row[o].st \notin {"confirmed", "failed"}
    BY <1>3, <1>w, WordIsNext DEF Rises
  <2>2. row[o].st \notin {"none", "cancelled"}
    BY <2>1, <1>w, <1>l DEF LifeFacts
  <2>3. CASE row[o].st = "prepared"
    <3>1. Word(o) = "waiting" /\ Life(o) \in {"signed", "sent", "included"}
      BY <2>1, <2>3, <1>w, <1>l, WordIs DEF LifeFacts
    <3>2. Promise!Notice(o)
      BY <2>1, <3>1, Reports DEF Promise!Notice
    <3> QED BY <3>2 DEF Promised, Promise!Next
  <2>4. CASE row[o].st # "prepared"
    <3>1. row[o].st \in {"signed", "submitted", "unknown", "settling"}
      BY <2>1, <2>2, <2>4, <1>w DEF QiStatuses
    <3>2. Word(o) = "signed"
      BY <3>1, <1>w, WordIs
    <3> QED BY <2>1, <3>2, <1>same
  <2> QED BY <2>3, <2>4
<1>4. CASE Rises(o, row'[o]) /\ row'[o].st \in {"confirmed", "failed"}
  <2>1. mined[o] # 0 /\ Told(o) /\ Word(o)' = "concluded"
    BY <1>4, <1>w, WordIsNext DEF Rises
  <2>2. Life(o) = "included"
    BY <2>1, <1>l DEF LifeFacts
  <2>3. CASE row[o].st \in {"confirmed", "failed"}
    <3>1. Word(o) = "concluded"
      BY <2>3, <1>w, WordIs
    <3> QED BY <2>1, <3>1, <1>same
  <2>4. CASE row[o].st \notin {"confirmed", "failed"}
    <3>1. row[o].st \in {"signed", "submitted", "unknown", "settling"}
      BY <2>1, <2>4, <1>w DEF QiStatuses, Told
    <3>2. Word(o) = "signed"
      BY <3>1, <1>w, WordIs
    <3>3. Promise!Conclude(o)
      BY <2>1, <2>2, <3>2, Reports DEF Promise!Conclude
    <3> QED BY <3>3 DEF Promised, Promise!Next
  <2> QED BY <2>3, <2>4
<1>5. Rises(o, row'[o]) => row'[o].st # "none"
  BY DEF Rises
<1> QED BY <1>r, <1>w, <1>1, <1>2, <1>3, <1>4, <1>5 DEF QiStatuses


\* A claim that stays, unsigned or signed, keeps its spend's stage.
LEMMA StageStays ==
  ASSUME LifeFacts, LifeFacts', NEW o \in Ops, mined'[o] = mined[o], sent'[o] = sent[o],
         Newest(o)' # 0 <=> Newest(o) # 0,
         Newest(o) # 0 \/ (resv'[o] = "reserved" <=> resv[o] = "reserved")
  PROVE  Life(o)' = Life(o)
<1>1. Life(o) = IF mined[o] # 0 THEN "included" ELSE IF sent[o] # {} THEN "sent"
                ELSE IF Newest(o) # 0 THEN "signed" ELSE IF resv[o] = "reserved" THEN "review" ELSE "free"
  BY DEF LifeFacts
<1>2. Life(o)' = IF mined'[o] # 0 THEN "included" ELSE IF sent'[o] # {} THEN "sent"
                 ELSE IF Newest(o)' # 0 THEN "signed" ELSE IF resv'[o] = "reserved" THEN "review" ELSE "free"
  BY DEF LifeFacts
<1>3. CASE Newest(o) # 0
  BY <1>1, <1>2, <1>3
<1>4. CASE Newest(o) = 0
  BY <1>1, <1>2, <1>4
<1> QED BY <1>3, <1>4

\* The steps that write a row write one, and move no spend on.
LEMMA RowSteps ==
  ASSUME QiInv, WordInv, LifeFacts, LifeFacts', NEW s \in Sessions,
         \/ \E o \in Ops : Reconcile(s, o)
         \/ Journal(s) \/ Mark(s) \/ Record(s) \/ Done(s) \/ Cancel(s) \/ TrackApply(s)
  PROVE  /\ \A i \in Ops : Life(i)' = Life(i)
         /\ \E o \in Ops : \A i \in Ops \ {o} : row'[i] = row[i]
<1>r. On(row, Ops)
  BY DEF QiInv, StoreShape
<1>op. ASSUME pc[s] # "idle" PROVE job[s].op \in Ops
  BY <1>op DEF QiInv, QiLocks
<1>keep. ASSUME UNCHANGED <<resv, family, sent, mined>>, NEW i \in Ops PROVE Life(i)' = Life(i)
  <2>1. Newest(i)' = Newest(i)
    BY <1>keep DEF Newest
  <2> QED BY <1>keep, <2>1, StageStays
<1>one. ASSUME NEW o \in Ops, NEW w, row' = row \/ row' = [row EXCEPT ![o] = w]
        PROVE  \A i \in Ops \ {o} : row'[i] = row[i]
  BY <1>one, <1>r DEF On
<1>1. ASSUME NEW o \in Ops, Reconcile(s, o)
      PROVE  /\ \A i \in Ops : Life(i)' = Life(i)
             /\ \A i \in Ops \ {o} : row'[i] = row[i]
  <2>1. UNCHANGED <<resv, family, sent, mined>> /\ \E w : row' = [row EXCEPT ![o] = w]
    BY <1>1 DEF Reconcile, claims, node
  <2> QED BY <2>1, <1>keep, <1>one
<1>2. CASE Journal(s) \/ Mark(s) \/ Record(s) \/ Cancel(s)
  <2>0. PICK o \in Ops : o = job[s].op
    BY <1>2, <1>op DEF Journal, Mark, Record, Cancel
  <2>1. UNCHANGED <<resv, family, sent, mined>> /\ (row' = row \/ \E w : row' = [row EXCEPT ![o] = w])
    <3>1. CASE Journal(s)
      BY <2>0, <3>1 DEF Journal, claims, node
    <3>2. CASE Mark(s)
      BY <2>0, <3>2 DEF Mark, claims, node
    <3>3. CASE Record(s)
      BY <2>0, <3>3 DEF Record, claims, node
    <3>4. CASE Cancel(s)
      BY <2>0, <3>4 DEF Cancel, claims, node
    <3> QED BY <1>2, <3>1, <3>2, <3>3, <3>4
  <2>2. \A i \in Ops \ {o} : row'[i] = row[i]
    BY <2>1, <1>one
  <2> QED BY <2>1, <2>2, <1>keep
<1>3. CASE Done(s)
  <2>0. PICK o \in Ops : o = job[s].op
    BY <1>3, <1>op DEF Done
  <2>1. UNCHANGED <<resv, family, sent, mined>> /\ \E from, w : Transition(o, from, w)
    BY <1>3, <2>0 DEF Done, claims, node
  <2>2. \A i \in Ops \ {o} : row'[i] = row[i]
    BY <2>1, <1>r, TransitionShape
  <2> QED BY <2>1, <2>2, <1>keep
<1>4. CASE TrackApply(s)
  <2>0. PICK o \in Ops : o = job[s].op
    BY <1>4, <1>op DEF TrackApply
  <2>1. UNCHANGED <<family, sent, mined>> /\ \E from, w : Transition(o, from, w)
    BY <1>4, <2>0 DEF TrackApply, node
  <2>2. \A i \in Ops \ {o} : row'[i] = row[i]
    BY <2>1, <1>r, TransitionShape
  <2>3. resv' = resv \/ (mined[o] # 0 /\ resv' = [resv EXCEPT ![o] = "confirmed"])
    BY <1>4, <2>0 DEF TrackApply
  <2>4. ASSUME NEW i \in Ops PROVE Life(i)' = Life(i)
    <3>1. Newest(i)' = Newest(i)
      BY <2>1 DEF Newest
    <3>2. resv'[i] = resv[i] \/ Newest(i) # 0
      <4>1. mined[o] # 0 => Newest(o) # 0
        BY DEF LifeFacts
      <4> QED BY <2>3, <4>1 DEF QiInv, StoreShape
    <3> QED BY <2>1, <3>1, <3>2, StageStays
  <2> QED BY <2>2, <2>4
<1> QED BY <1>1, <1>2, <1>3, <1>4

\* A claim is made or given up: the spend goes to review, or back.
LEMMA ClaimMoves ==
  ASSUME QiInv, WordInv, LifeFacts, LifeFacts', NEW s \in Sessions,
         Claim(s) \/ ClaimSweep(s) \/ JournalFails(s) \/ Reclaim(s) \/ AbandonRelease(s)
  PROVE  Promised
<1>0. PICK o \in Ops : o = job[s].op
  BY DEF Claim, ClaimSweep, JournalFails, Reclaim, AbandonRelease, QiInv, QiLocks
<1>1. UNCHANGED <<family, sent, mined, row>>
  BY DEF Claim, ClaimSweep, JournalFails, Reclaim, AbandonRelease, node
<1>n. \A i \in Ops : Newest(i)' = Newest(i)
  BY <1>1 DEF Newest
<1>t. resv \in [Ops -> {"none", "reserved", "signed", "released", "confirmed"}]
  BY DEF QiInv, StoreShape
<1>2. /\ \A i \in Ops \ {o} : resv'[i] = resv[i]
      /\ \/ resv'[o] = resv[o]
         \/ resv[o] = "none" /\ resv'[o] = "reserved"
         \/ resv[o] = "reserved" /\ resv'[o] = "released"
  <2>1. CASE Claim(s) \/ ClaimSweep(s)
    <3>1. resv[o] = "none" /\ resv' = [resv EXCEPT ![o] = "reserved"]
      BY <1>0, <2>1 DEF Claim, ClaimSweep, QiInv, ClaimInv
    <3> QED BY <3>1, <1>t
  <2>2. CASE JournalFails(s)
    <3>1. resv[o] = "reserved" /\ \E st \in {"released", "reserved"} : resv' = [resv EXCEPT ![o] = st]
      BY <1>0, <2>2 DEF JournalFails, QiInv, ClaimInv
    <3> QED BY <3>1, <1>t
  <2>3. CASE Reclaim(s) \/ AbandonRelease(s)
    <3>1. resv[o] \in {"reserved", "released"} /\ resv' = [resv EXCEPT ![o] = "released"]
      BY <1>0, <2>3 DEF Reclaim, AbandonRelease
    <3> QED BY <3>1, <1>t
  <2> QED BY <2>1, <2>2, <2>3
<1>3. \A i \in Ops \ {o} : Life(i)' = Life(i)
  BY <1>1, <1>n, <1>2, StageStays
<1>4. CASE resv'[o] = resv[o]
  <2>1. Life(o)' = Life(o)
    BY <1>1, <1>n, <1>4, StageStays
  <2>2. \A i \in Ops : Life(i)' = Life(i) /\ Word(i)' = Word(i)
    BY <1>1, <1>3, <2>1 DEF Word
  <2> QED BY <2>2, NothingSeen
<1>5. CASE resv[o] = "none" /\ resv'[o] = "reserved"
  <2>1. Life(o) = "free" /\ Life(o)' = "review"
    <3>1. Newest(o) = 0 /\ sent[o] = {} /\ mined[o] = 0 /\ Newest(o)' = 0
      BY <1>5, <1>n DEF LifeFacts
    <3> QED BY <1>1, <1>5, <3>1 DEF LifeFacts
  <2>2. Promise!Claim(o)
    BY <1>1, <1>3, <2>1, Moves DEF Promise!Claim
  <2> QED BY <2>2 DEF Promised, Promise!Next
<1>6. CASE resv[o] = "reserved" /\ resv'[o] = "released"
  <2>1. Life(o) = "review" /\ Life(o)' = "free"
    <3>1. Newest(o) = 0 /\ sent[o] = {} /\ mined[o] = 0 /\ Newest(o)' = 0
      BY <1>6, <1>n DEF LifeFacts
    <3> QED BY <1>1, <1>6, <3>1 DEF LifeFacts
  <2>2. Promise!Release(o)
    BY <1>1, <1>3, <2>1, Moves DEF Promise!Release
  <2> QED BY <2>2 DEF Promised, Promise!Next
<1> QED BY <1>2, <1>4, <1>5, <1>6


\* Signing: the first signature moves the spend on, over a row that waits; a replacement's, no.
LEMMA SignMoves ==
  ASSUME QiInv, WordInv, LifeFacts, LifeFacts', NEW s \in Sessions, Sign(s)
  PROVE  Promised
<1>0. PICK o \in Ops : o = job[s].op
  BY DEF Sign, QiInv, QiLocks
<1>1. UNCHANGED <<sent, mined, row>> /\ resv' = [resv EXCEPT ![o] = "signed"]
  BY <1>0 DEF Sign, node
<1>t. resv \in [Ops -> {"none", "reserved", "signed", "released", "confirmed"}]
  BY DEF QiInv, StoreShape
<1>2. resv'[o] = "signed" /\ \A i \in Ops \ {o} : resv'[i] = resv[i]
  BY <1>1, <1>t
<1>3. Newest(o)' # 0
  BY <1>2 DEF LifeFacts
<1>4. ASSUME NEW i \in Ops, i # o PROVE Life(i)' = Life(i)
  <2>1. Newest(i)' = Newest(i)
    BY <1>0, <1>4, SignedOrSent DEF Proceed
  <2> QED BY <1>1, <1>2, <1>4, <2>1, StageStays
<1>5. CASE Newest(o) # 0
  <2>1. Life(o)' = Life(o)
    BY <1>1, <1>3, <1>5, StageStays
  <2>2. \A i \in Ops : Life(i)' = Life(i) /\ Word(i)' = Word(i)
    BY <1>1, <1>4, <2>1 DEF Word
  <2> QED BY <2>2, NothingSeen
<1>6. CASE Newest(o) = 0
  <2>1. resv[o] = "reserved"
    <3>1. Signable(job[s])
      BY DEF Sign
    <3>2. resv[o] # "signed"
      BY <1>6 DEF LifeFacts
    <3> QED BY <1>0, <3>1, <3>2 DEF Signable
  <2>2. Life(o) = "review" /\ Life(o)' = "signed"
    <3>1. mined[o] = 0 /\ sent[o] = {}
      BY <1>6 DEF LifeFacts
    <3> QED BY <1>1, <1>3, <1>6, <2>1, <3>1 DEF LifeFacts
  <2>3. Word(o) = "waiting"
    <3>1. /\ row[o].st \in QiStatuses /\ (Told(o) => Newest(o) # 0)
          /\ row[o].st = "cancelled" => resv[o] = "released"
      BY DEF WordInv, RowWord
    <3>2. row[o].st # "none"
      BY <1>0 DEF Sign, WordInv, DeskWord
    <3>3. row[o].st = "prepared"
      BY <1>6, <2>1, <3>1, <3>2 DEF Told
    <3> QED BY <3>1, <3>3, WordIs
  <2>4. Promise!Sign(o)
    BY <1>1, <1>4, <2>2, <2>3, Moves DEF Promise!Sign
  <2> QED BY <2>4 DEF Promised, Promise!Next
<1> QED BY <1>5, <1>6

\* Broadcasting: what a node accepts for the first time, the journal already calls signed.
LEMMA SendMoves ==
  ASSUME QiInv, WordInv, LifeFacts, LifeFacts', NEW s \in Sessions, Send(s)
  PROVE  Promised
<1>0. PICK o \in Ops : o = job[s].op
  BY DEF Send, QiInv, QiLocks
<1>1. UNCHANGED <<resv, family, mined, row>>
  BY DEF Send, claims
<1>n. \A i \in Ops : Newest(i)' = Newest(i)
  BY <1>1 DEF Newest
<1>2. /\ \A i \in Ops \ {o} : sent'[i] = sent[i]
      /\ sent'[o] = sent[o] \/ sent'[o] = sent[o] \cup {job[s].k}
  BY <1>0, SignedOrSent DEF Proceed
<1>3. \A i \in Ops \ {o} : Life(i)' = Life(i)
  BY <1>1, <1>n, <1>2, StageStays
<1>4. CASE Life(o)' = Life(o)
  <2>1. \A i \in Ops : Life(i)' = Life(i) /\ Word(i)' = Word(i)
    BY <1>1, <1>3, <1>4 DEF Word
  <2> QED BY <2>1, NothingSeen
<1>5. CASE Life(o)' # Life(o)
  <2>1. mined[o] = 0 /\ sent[o] = {} /\ sent'[o] # {}
    <3>1. sent'[o] # sent[o]
      BY <1>1, <1>n, <1>5, StageStays
    <3>2. sent'[o] # {}
      BY <1>2, <3>1
    <3>3. Life(o)' = IF mined[o] # 0 THEN "included" ELSE "sent"
      BY <1>1, <3>2 DEF LifeFacts
    <3> QED BY <1>5, <3>2, <3>3 DEF LifeFacts
  <2>2. Told(o) /\ Newest(o) # 0
    BY <1>0 DEF Send, WordInv, DeskWord, RowWord
  <2>3. Life(o) = "signed" /\ Life(o)' = "sent"
    BY <1>1, <2>1, <2>2 DEF LifeFacts
  <2>4. Word(o) = "signed"
    <3>1. row[o].st \in QiStatuses /\ (row[o].st \in {"confirmed", "failed"} => mined[o] # 0)
      BY DEF WordInv, RowWord
    <3>2. row[o].st \in {"signed", "submitted", "unknown", "settling"}
      BY <2>1, <2>2, <3>1 DEF Told, QiStatuses
    <3> QED BY <3>1, <3>2, WordIs
  <2>5. Promise!Send(o)
    BY <1>1, <1>3, <2>3, <2>4, Moves DEF Promise!Send
  <2> QED BY <2>5 DEF Promised, Promise!Next
<1> QED BY <1>4, <1>5

\* A block takes what a node was sent.
LEMMA MineMoves ==
  ASSUME QiInv, WordInv, LifeFacts, LifeFacts', NEW o \in Ops, NEW k \in sent[o], Mine(o, k)
  PROVE  Promised
<1>1. UNCHANGED <<resv, family, sent, row>> /\ mined' = [mined EXCEPT ![o] = k] /\ mined[o] = 0
  BY DEF Mine, claims
<1>2. On(mined, Ops) /\ k # 0
  BY DEF QiInv, StoreShape, WordInv, RowWord
<1>3. mined'[o] # 0 /\ \A i \in Ops \ {o} : mined'[i] = mined[i]
  BY <1>1, <1>2 DEF On
<1>4. \A i \in Ops : Newest(i)' = Newest(i)
  BY <1>1 DEF Newest
<1>5. \A i \in Ops \ {o} : Life(i)' = Life(i)
  BY <1>1, <1>3, <1>4, StageStays
<1>6. Life(o) = "sent" /\ Life(o)' = "included"
  BY <1>1, <1>3 DEF LifeFacts
<1>7. Promise!Include(o)
  BY <1>1, <1>5, <1>6, Moves DEF Promise!Include
<1> QED BY <1>7 DEF Promised, Promise!Next

\* Every step keeps the journal true and is one the promise allows, or one it does not see.
LEMMA PromiseStep == QiInv /\ WordInv /\ QiInv' /\ [Next]_vars => WordInv' /\ Promised
<1> SUFFICES ASSUME QiInv, WordInv, QiInv', [Next]_vars PROVE WordInv' /\ Promised
  OBVIOUS
<1>l. LifeFacts
  BY LifeIs
<1>1. ASSUME NEW s \in Sessions, Begin(s) \/ Proceed(s) \/ Crash(s) PROVE WordInv' /\ Promised
  <2>1. WordInv'
    BY <1>1, WordStep
  <2>2. LifeFacts'
    BY <2>1, LifeIsNext
  <2>3. CASE \/ \E o \in Ops : Reconcile(s, o)
             \/ Journal(s) \/ Mark(s) \/ Record(s) \/ Done(s) \/ Cancel(s) \/ TrackApply(s)
    <3>1. /\ \A i \in Ops : Life(i)' = Life(i)
          /\ \E o \in Ops : \A i \in Ops \ {o} : row'[i] = row[i]
      BY <1>l, <2>2, <2>3, RowSteps
    <3>2. PICK o \in Ops : \A i \in Ops \ {o} : row'[i] = row[i]
      BY <3>1
    <3> QED BY <1>1, <2>1, <3>1, <3>2, RowsPromised
  <2>4. CASE Claim(s) \/ ClaimSweep(s) \/ JournalFails(s) \/ Reclaim(s) \/ AbandonRelease(s)
    BY <1>l, <2>1, <2>2, <2>4, ClaimMoves
  <2>5. CASE Sign(s)
    BY <1>l, <2>1, <2>2, <2>5, SignMoves
  <2>6. CASE Send(s)
    BY <1>l, <2>1, <2>2, <2>6, SendMoves
  <2>7. ASSUME UNCHANGED <<resv, family, sent, mined, row>> PROVE Promised
    <3>1. ASSUME NEW i \in Ops PROVE Life(i)' = Life(i) /\ Word(i)' = Word(i)
      <4>1. Newest(i)' = Newest(i)
        BY <2>7 DEF Newest
      <4>2. Life(i)' = Life(i)
        BY <1>l, <2>2, <2>7, <4>1, StageStays
      <4>3. Word(i)' = Word(i)
        BY <2>7 DEF Word
      <4> QED BY <4>2, <4>3
    <3> QED BY <3>1, NothingSeen
  <2>8. CASE Begin(s) /\ ~\E o \in Ops : Reconcile(s, o)
    <3>1. UNCHANGED <<resv, family, sent, mined, row>>
      BY <2>8, BeginKeeps, BeginRows
    <3> QED BY <2>1, <3>1, <2>7
  <2>9. CASE \/ Allocate(s) \/ Grow(s) \/ HandBack(s) \/ PrepareFails(s) \/ SpeedUpOffer(s) \/ SpeedUpFails(s)
             \/ CommitRefused(s) \/ AbandonLock(s) \/ DiscardRefused(s) \/ TrackSkip(s) \/ Crash(s)
    <3>1. UNCHANGED <<resv, family, sent, mined, row>>
      BY <2>9 DEF Allocate, Grow, HandBack, PrepareFails, SpeedUpOffer, SpeedUpFails, CommitRefused, AbandonLock,
                  DiscardRefused, TrackSkip, Crash, claims, node
    <3> QED BY <2>1, <3>1, <2>7
  <2> QED BY <1>1, <2>3, <2>4, <2>5, <2>6, <2>8, <2>9 DEF Proceed
<1>2. ASSUME NEW o \in Ops, NEW k \in sent[o], Mine(o, k) PROVE WordInv' /\ Promised
  <2>1. /\ UNCHANGED <<resv, family, sent, row, pc, job, pending>>
        /\ mined' = [mined EXCEPT ![o] = k] /\ On(mined, Ops) /\ k # 0
    BY <1>2 DEF Mine, claims, QiInv, StoreShape, WordInv, RowWord
  <2>2. ASSUME NEW i \in Ops PROVE RowWord(i)'
    <3>1. Newest(i)' = Newest(i) /\ (Told(i)' <=> Told(i))
      BY <2>1 DEF Newest, Told
    <3>2. mined'[i] = mined[i] \/ (mined'[i] # 0 /\ sent[i] # {})
      BY <1>2, <2>1 DEF On
    <3>3. RowWord(i)
      BY DEF WordInv
    <3> QED BY <2>1, <3>1, <3>2, <3>3 DEF RowWord
  <2>3. ASSUME NEW t \in Sessions PROVE DeskWord(t)'
    <3>1. DeskWord(t)
      BY DEF WordInv
    <3> QED BY <2>1, <3>1 DEF DeskWord, Told
  <2>4. WordInv'
    BY <2>2, <2>3 DEF WordInv
  <2>5. LifeFacts'
    BY <2>4, LifeIsNext
  <2> QED BY <1>2, <1>l, <2>4, <2>5, MineMoves
<1>3. ASSUME UNCHANGED vars PROVE WordInv' /\ Promised
  <2>1. UNCHANGED <<resv, family, sent, mined, row, pc, job, pending>>
    BY <1>3 DEF vars
  <2>2. WordInv'
    BY <2>1 DEF WordInv, RowWord, DeskWord, Told, Newest
  <2>3. \A i \in Ops : Life(i)' = Life(i) /\ Word(i)' = Word(i)
    BY <2>1 DEF Life, Word, Newest
  <2> QED BY <2>2, <2>3, NothingSeen
<1> QED BY <1>1, <1>2, <1>3 DEF Next

\* A Qi-ledger spend keeps the promise a Quai-ledger spend keeps: tx.rs, recovery.rs and track.rs
\* cancel nothing signed, send nothing the journal does not know, and take no word about a
\* signature or a block back; for any number of sessions, operations, addresses and fee bumps.
THEOREM QiPromiseKept == Spec => QiKeepsThePromise
<1>1. Init => WordInv /\ Promise!Init
  <2> SUFFICES ASSUME Init PROVE WordInv /\ Promise!Init
    OBVIOUS
  <2>1. QiInv
    BY QiInitially
  <2>2. WordInv
    BY DEF Init, WordInv, RowWord, DeskWord, Told, Newest, NoRow, Row, QiStatuses
  <2>3. \A i \in Ops : Life(i) = "free"
    BY <2>1, <2>2, LifeIs DEF LifeFacts, Init, Newest
  <2>4. \A i \in Ops : Word(i) = "nothing"
    BY DEF Init, NoRow, Row, Word, Awaiting
  <2> QED BY <2>2, <2>3, <2>4 DEF Promise!Init
<1>2. Promised => [Promise!Next]_<<[o \in Ops |-> Life(o)], [o \in Ops |-> Word(o)]>>
  BY DEF Promised
<1> QED BY <1>1, <1>2, QiInitially, QiStep, PromiseStep, PTL DEF Spec, QiKeepsThePromise, Promise!Spec

-----------------------------------------------------------------------------
(* Folds. The library's are a recursive function over the subsets of a set; here its step is a
   function too. *)

\* g computes, of every part of S, the fold of step in which pick says what is taken last.
Folding(g, S, pick, base, step) ==
  g = [s \in SUBSET S |-> IF s = {} THEN base ELSE step[pick[s]][g[s \ {pick[s]}]]]
Picks(pick, S) == IsFiniteSet(S) /\ \A s \in SUBSET S : s # {} => pick[s] \in s

\* Of some finite sets one is smallest: without any one of its elements it is none of them.
LEMMA SmallestSet ==
  ASSUME NEW Bad, Bad # {}, \A t \in Bad : IsFiniteSet(t)
  PROVE  \E t \in Bad : \A x \in t : t \ {x} \notin Bad
<1>1. PICK N : N = {Cardinality(t) : t \in Bad}
  OBVIOUS
<1>2. N \in SUBSET Nat /\ N # {}
  BY <1>1, FS_CardinalityType
<1>3. PICK n \in N : \A m \in N : n <= m
  BY <1>2, MinIsLeast
<1>4. PICK t \in Bad : Cardinality(t) = n
  BY <1>1, <1>3
<1>5. ASSUME NEW x \in t PROVE t \ {x} \notin Bad
  <2>1. Cardinality(t \ {x}) = Cardinality(t) - 1
    BY <1>4, <1>5, FS_RemoveElement
  <2> SUFFICES ASSUME t \ {x} \in Bad PROVE FALSE
    OBVIOUS
  <2>2. n <= n - 1 /\ n \in Nat
    BY <1>1, <1>2, <1>3, <1>4, <2>1
  <2> QED BY <2>2
<1> QED BY <1>4, <1>5

\* Two ways to compute a fold agree wherever both apply.
LEMMA FoldsAgree ==
  ASSUME NEW S, NEW T, NEW pick, Picks(pick, S), NEW base, NEW step, NEW g, NEW h,
         Folding(g, S, pick, base, step), Folding(h, T, pick, base, step), NEW s \in SUBSET S, s \in SUBSET T
  PROVE  g[s] = h[s]
<1> SUFFICES ASSUME g[s] # h[s] PROVE FALSE
  OBVIOUS
<1>1. PICK Bad : Bad = {t \in SUBSET s : g[t] # h[t]}
  OBVIOUS
<1>2. Bad # {} /\ \A t \in Bad : IsFiniteSet(t)
  BY <1>1, FS_Subset DEF Picks
<1>3. PICK t \in Bad : \A x \in t : t \ {x} \notin Bad
  BY <1>2, SmallestSet
<1>4. /\ g[t] = IF t = {} THEN base ELSE step[pick[t]][g[t \ {pick[t]}]]
      /\ h[t] = IF t = {} THEN base ELSE step[pick[t]][h[t \ {pick[t]}]]
      /\ t \in SUBSET S
  <2>1. t \in SUBSET S /\ t \in SUBSET T
    BY <1>1, <1>3
  <2> QED BY <2>1 DEF Folding
<1>5. CASE t = {}
  BY <1>1, <1>3, <1>4, <1>5
<1>6. CASE t # {}
  <2>1. pick[t] \in t
    BY <1>4, <1>6 DEF Picks
  <2>2. t \ {pick[t]} \notin Bad /\ t \ {pick[t]} \in SUBSET s
    BY <1>1, <1>3, <2>1
  <2>3. g[t \ {pick[t]}] = h[t \ {pick[t]}]
    BY <1>1, <2>2
  <2> QED BY <1>1, <1>3, <1>4, <1>6, <2>3
<1> QED BY <1>5, <1>6

\* What computes the fold over a set computes that over its parts.
LEMMA FoldOfPart ==
  ASSUME NEW S, NEW pick, NEW base, NEW step, NEW g, Folding(g, S, pick, base, step), NEW t \in SUBSET S
  PROVE  Folding([u \in SUBSET t |-> g[u]], t, pick, base, step)
<1>1. ASSUME NEW u \in SUBSET t
      PROVE  g[u] = IF u = {} THEN base ELSE step[pick[u]][[v \in SUBSET t |-> g[v]][u \ {pick[u]}]]
  <2>1. g[u] = IF u = {} THEN base ELSE step[pick[u]][g[u \ {pick[u]}]]
    <3>1. u \in SUBSET S
      OBVIOUS
    <3> QED BY <3>1 DEF Folding
  <2>2. u \ {pick[u]} \in SUBSET t
    OBVIOUS
  <2> QED BY <2>1, <2>2
<1> QED BY <1>1 DEF Folding

\* Every finite set has its fold.
LEMMA FoldExists ==
  ASSUME NEW S, NEW pick, Picks(pick, S), NEW base, NEW step
  PROVE  \E g : Folding(g, S, pick, base, step)
<1> DEFINE Has(T) == \E g : Folding(g, T, pick, base, step)
<1> SUFFICES ASSUME ~Has(S) PROVE FALSE
  OBVIOUS
<1>1. PICK Bad : Bad = {T \in SUBSET S : ~Has(T)}
  OBVIOUS
<1>2. Bad # {} /\ \A T \in Bad : IsFiniteSet(T)
  <2> HIDE DEF Has
  <2> QED BY <1>1, FS_Subset DEF Picks
<1>3. PICK T \in Bad : \A x \in T : T \ {x} \notin Bad
  <2> HIDE DEF Has
  <2> QED BY <1>2, SmallestSet
<1>4. T \in SUBSET S /\ ~Has(T)
  BY <1>1, <1>3
<1> DEFINE At(t) == CHOOSE g : Folding(g, t, pick, base, step)
           Less(t) == t \ {pick[t]}
           G == [t \in SUBSET T |-> IF t = {} THEN base ELSE step[pick[t]][At(Less(t))[Less(t)]]]
<1>5. ASSUME NEW x \in T, NEW t \in SUBSET (T \ {x}) PROVE Folding(At(t), t, pick, base, step)
  <2>1. T \ {x} \in SUBSET S /\ T \ {x} \notin Bad
    BY <1>3, <1>4
  <2>2. Has(T \ {x})
    <3> HIDE DEF Has
    <3> QED BY <1>1, <2>1
  <2>3. PICK g : Folding(g, T \ {x}, pick, base, step)
    BY <2>2
  <2>4. \E h : Folding(h, t, pick, base, step)
    BY <2>3, FoldOfPart
  <2> QED BY <2>4
<1>6. ASSUME NEW t \in SUBSET T, t # {} PROVE G[Less(t)] = At(Less(t))[Less(t)]
  <2>1. PICK u : u = Less(t)
    OBVIOUS
  <2>2. pick[t] \in T /\ u \in SUBSET (T \ {pick[t]}) /\ u \in SUBSET T /\ u \in SUBSET u
    BY <1>4, <1>6, <2>1 DEF Picks
  <2>3. Folding(At(u), u, pick, base, step)
    BY <1>5, <2>2
  <2>4. At(u)[u] = IF u = {} THEN base ELSE step[pick[u]][At(u)[Less(u)]]
    <3>1. PICK k : k = At(u)
      OBVIOUS
    <3>2. Folding(k, u, pick, base, step)
      BY <2>3, <3>1
    <3>3. k[u] = IF u = {} THEN base ELSE step[pick[u]][k[u \ {pick[u]}]]
      BY <2>2, <3>2 DEF Folding
    <3> HIDE DEF At
    <3> QED BY <3>1, <3>3
  <2>5. G[u] = IF u = {} THEN base ELSE step[pick[u]][At(Less(u))[Less(u)]]
    BY <2>2
  <2>6. CASE u # {}
    <3>1. PICK v : v = Less(u)
      OBVIOUS
    <3>2. v \in SUBSET (T \ {pick[t]}) /\ v \in SUBSET u /\ v \in SUBSET v
      BY <2>2, <3>1
    <3>3. Folding(At(v), v, pick, base, step)
      BY <1>5, <2>2, <3>2
    <3>4. Picks(pick, u)
      BY <1>4, <2>2, FS_Subset DEF Picks
    <3>5. At(u)[v] = At(v)[v]
      <4> HIDE DEF At, Less, G
      <4> QED BY <2>3, <3>2, <3>3, <3>4, FoldsAgree
    <3> HIDE DEF At, Less, G
    <3> QED BY <2>1, <2>4, <2>5, <3>1, <3>5
  <2> HIDE DEF At, G, Less
  <2> QED BY <2>1, <2>4, <2>5, <2>6
<1>7. Folding(G, T, pick, base, step)
  <2>1. ASSUME NEW t \in SUBSET T
        PROVE  G[t] = IF t = {} THEN base ELSE step[pick[t]][G[t \ {pick[t]}]]
    <3>1. G[t] = IF t = {} THEN base ELSE step[pick[t]][At(Less(t))[Less(t)]]
      OBVIOUS
    <3>2. t # {} => G[Less(t)] = At(Less(t))[Less(t)]
      BY <1>6
    <3> HIDE DEF G, At
    <3> QED BY <3>1, <3>2
  <2>2. G = [t \in SUBSET T |-> G[t]]
    OBVIOUS
  <2> HIDE DEF G
  <2>3. [t \in SUBSET T |-> G[t]] = [t \in SUBSET T |-> IF t = {} THEN base ELSE step[pick[t]][G[t \ {pick[t]}]]]
    BY <2>1
  <2> QED BY <2>2, <2>3 DEF Folding
<1> HIDE DEF G
<1> QED BY <1>4, <1>7

\* A fold stays where its step stays.
LEMMA FoldType ==
  ASSUME NEW S, NEW pick, Picks(pick, S), NEW V, NEW base \in V, NEW step \in [S -> [V -> V]],
         NEW g, Folding(g, S, pick, base, step)
  PROVE  \A s \in SUBSET S : g[s] \in V
<1> SUFFICES ASSUME NEW s \in SUBSET S, g[s] \notin V PROVE FALSE
  OBVIOUS
<1>1. PICK Bad : Bad = {t \in SUBSET S : g[t] \notin V}
  OBVIOUS
<1>2. Bad # {} /\ \A t \in Bad : IsFiniteSet(t)
  BY <1>1, FS_Subset DEF Picks
<1>3. PICK t \in Bad : \A x \in t : t \ {x} \notin Bad
  BY <1>2, SmallestSet
<1>4. t \in SUBSET S /\ g[t] = IF t = {} THEN base ELSE step[pick[t]][g[t \ {pick[t]}]]
  BY <1>1, <1>3 DEF Folding
<1>5. t # {} /\ pick[t] \in t
  BY <1>1, <1>3, <1>4 DEF Picks
<1>6. t \ {pick[t]} \in SUBSET S /\ t \ {pick[t]} \notin Bad
  BY <1>3, <1>4, <1>5
<1>7. g[t \ {pick[t]}] \in V /\ step[pick[t]] \in [V -> V]
  BY <1>1, <1>4, <1>5, <1>6
<1> QED BY <1>1, <1>3, <1>4, <1>5, <1>7

-----------------------------------------------------------------------------
(* Sums of coins. *)

Coins(w, A) == IsFiniteSet(A) /\ \A a \in A : w[a] \in Nat
Any(s) == CHOOSE x \in s : TRUE
AddsUp(h, w, A) == h = [s \in SUBSET A |-> IF s = {} THEN 0 ELSE w[Any(s)] + h[s \ {Any(s)}]]

\* Some of the coins are coins.
LEMMA SomeCoins == ASSUME NEW w, NEW A, Coins(w, A), NEW B \in SUBSET A PROVE Coins(w, B)
BY FS_Subset DEF Coins

\* Coins add up, and what they add up to is an amount.
LEMMA SumExists == ASSUME NEW w, NEW A, Coins(w, A) PROVE \E h : AddsUp(h, w, A) /\ \A s \in SUBSET A : h[s] \in Nat
<1>1. PICK pick : pick = [s \in SUBSET A |-> Any(s)]
  OBVIOUS
<1>2. PICK step : step = [x \in A |-> [n \in Nat |-> w[x] + n]]
  OBVIOUS
<1>3. Picks(pick, A)
  BY <1>1 DEF Picks, Coins, Any
<1>4. step \in [A -> [Nat -> Nat]]
  BY <1>2 DEF Coins
<1>5. PICK h : Folding(h, A, pick, 0, step)
  BY <1>3, FoldExists
<1>6. \A s \in SUBSET A : h[s] \in Nat
  BY <1>3, <1>4, <1>5, FoldType
<1>7. ASSUME NEW s \in SUBSET A
      PROVE  h[s] = IF s = {} THEN 0 ELSE w[Any(s)] + h[s \ {Any(s)}]
  <2>1. h[s] = IF s = {} THEN 0 ELSE step[pick[s]][h[s \ {pick[s]}]]
    BY <1>5 DEF Folding
  <2>2. s # {} => Any(s) \in A
    BY DEF Any
  <2>3. h[s \ {Any(s)}] \in Nat
    BY <1>6
  <2> QED BY <1>1, <1>2, <2>1, <2>2, <2>3
<1>8. h = [s \in SUBSET A |-> h[s]]
  BY <1>5 DEF Folding
<1>9. AddsUp(h, w, A)
  BY <1>7, <1>8 DEF AddsUp
<1> QED BY <1>6, <1>9

\* Two ways to add coins up agree.
LEMMA SumsAgree ==
  ASSUME NEW w, NEW S, NEW T, IsFiniteSet(S), NEW g, NEW h, AddsUp(g, w, S), AddsUp(h, w, T),
         NEW s \in SUBSET S, s \in SUBSET T
  PROVE  g[s] = h[s]
<1> SUFFICES ASSUME g[s] # h[s] PROVE FALSE
  OBVIOUS
<1>1. PICK Bad : Bad = {t \in SUBSET s : g[t] # h[t]}
  OBVIOUS
<1>2. Bad # {} /\ \A t \in Bad : IsFiniteSet(t)
  BY <1>1, FS_Subset
<1>3. PICK t \in Bad : \A x \in t : t \ {x} \notin Bad
  BY <1>2, SmallestSet
<1>4. /\ g[t] = IF t = {} THEN 0 ELSE w[Any(t)] + g[t \ {Any(t)}]
      /\ h[t] = IF t = {} THEN 0 ELSE w[Any(t)] + h[t \ {Any(t)}]
  <2>1. t \in SUBSET S /\ t \in SUBSET T
    BY <1>1, <1>3
  <2> QED BY <2>1 DEF AddsUp
<1>5. t # {} /\ Any(t) \in t
  BY <1>1, <1>3, <1>4 DEF Any
<1>6. t \ {Any(t)} \in SUBSET s /\ t \ {Any(t)} \notin Bad
  BY <1>1, <1>3, <1>5
<1> QED BY <1>1, <1>3, <1>4, <1>5, <1>6

\* The library's sum of an operator is one.
LEMMA TotalIsSum ==
  ASSUME NEW w, NEW A, Coins(w, A)
  PROVE  \E h : AddsUp(h, w, A) /\ h[A] = Total(w, A)
<1> DEFINE E(h) == h = [s \in SUBSET A |-> IF s = {} THEN 0 ELSE w[Any(s)] + h[s \ {Any(s)}]]
<1>1. \A h : AddsUp(h, w, A) <=> E(h)
  BY DEF AddsUp
<1>2. E(CHOOSE h : E(h))
  BY <1>1, SumExists
<1>3. Total(w, A) = (CHOOSE h : E(h))[A]
  BY DEF Total, MapThenSumSet, MapThenFoldSet, Any
<1> HIDE DEF E
<1> QED BY <1>1, <1>2, <1>3

\* The total of no coins is nothing, that of some is one of them and the total of the others.
LEMMA TotalIs ==
  ASSUME NEW w, NEW A, Coins(w, A)
  PROVE  /\ Total(w, A) \in Nat
         /\ A = {} => Total(w, A) = 0
         /\ A # {} => Any(A) \in A /\ Total(w, A) = w[Any(A)] + Total(w, A \ {Any(A)})
<1>1. PICK h : AddsUp(h, w, A) /\ h[A] = Total(w, A)
  BY TotalIsSum
<1>2. PICK g : AddsUp(g, w, A) /\ \A s \in SUBSET A : g[s] \in Nat
  BY SumExists
<1>3. A \in SUBSET A /\ IsFiniteSet(A)
  BY DEF Coins
<1>4. h[A] = g[A]
  BY <1>1, <1>2, <1>3, SumsAgree
<1>5. h[A] = IF A = {} THEN 0 ELSE w[Any(A)] + h[A \ {Any(A)}]
  BY <1>1, <1>3 DEF AddsUp
<1>6. PICK B : B = A \ {Any(A)}
  OBVIOUS
<1>7. B \in SUBSET A /\ B \in SUBSET B /\ Coins(w, B)
  BY <1>6, SomeCoins
<1>8. PICK k : AddsUp(k, w, B) /\ k[B] = Total(w, B)
  BY <1>7, TotalIsSum
<1>9. h[B] = k[B]
  <2>1. /\ IsFiniteSet(A) /\ AddsUp(h, w, A) /\ AddsUp(k, w, B)
        /\ B \in SUBSET A /\ B \in SUBSET B
    BY <1>1, <1>3, <1>7, <1>8
  <2> QED BY <2>1, SumsAgree
<1> QED BY <1>1, <1>2, <1>3, <1>4, <1>5, <1>6, <1>8, <1>9 DEF Any

\* Any one coin can be taken out of the total.
LEMMA TotalSplit ==
  ASSUME NEW w, NEW A, Coins(w, A), NEW x \in A
  PROVE  Total(w, A) = w[x] + Total(w, A \ {x})
<1> DEFINE Splits(T) == \A y \in T : Total(w, T) = w[y] + Total(w, T \ {y})
<1> SUFFICES ASSUME ~Splits(A) PROVE FALSE
  OBVIOUS
<1>1. PICK Bad : Bad = {T \in SUBSET A : ~Splits(T)}
  OBVIOUS
<1> HIDE DEF Splits
<1>2. Bad # {} /\ \A T \in Bad : IsFiniteSet(T)
  BY <1>1, FS_Subset DEF Coins
<1>3. PICK T \in Bad : \A y \in T : T \ {y} \notin Bad
  BY <1>2, SmallestSet
<1>4. T \in SUBSET A /\ \A y \in T : Splits(T \ {y})
  BY <1>1, <1>3
<1>5. PICK y \in T : Total(w, T) # w[y] + Total(w, T \ {y})
  BY <1>1, <1>3 DEF Splits
<1>6. PICK a : a = Any(T)
  OBVIOUS
<1>7. a \in T /\ Total(w, T) = w[a] + Total(w, T \ {a})
  <2>1. Coins(w, T)
    BY <1>4, SomeCoins
  <2> QED BY <1>5, <1>6, <2>1, TotalIs
<1>8. a # y
  BY <1>5, <1>7
<1>9. Total(w, T \ {a}) = w[y] + Total(w, (T \ {a}) \ {y}) /\ Total(w, T \ {y}) = w[a] + Total(w, (T \ {y}) \ {a})
  BY <1>4, <1>5, <1>7, <1>8 DEF Splits
<1>10. PICK R : R = (T \ {a}) \ {y}
  OBVIOUS
<1>11. R = (T \ {y}) \ {a} /\ R \in SUBSET A
  BY <1>4, <1>10
<1>12. w[a] \in Nat /\ w[y] \in Nat /\ Total(w, R) \in Nat
  <2>1. Coins(w, R)
    BY <1>11, SomeCoins
  <2> QED BY <1>4, <1>5, <1>7, <2>1, TotalIs DEF Coins
<1>13. PICK p, q, r : p = w[a] /\ q = w[y] /\ r = Total(w, R)
  OBVIOUS
<1>14. /\ Total(w, T) = p + (q + r) /\ w[y] + Total(w, T \ {y}) = q + (p + r)
       /\ p \in Nat /\ q \in Nat /\ r \in Nat
  BY <1>7, <1>9, <1>10, <1>11, <1>12, <1>13
<1> QED BY <1>5, <1>14

\* One more coin: no more than its worth, and nothing when it was there.
LEMMA TotalGrows ==
  ASSUME NEW w, NEW A, NEW x, Coins(w, A \cup {x})
  PROVE  Total(w, A \cup {x}) <= Total(w, A) + w[x] /\ Total(w, A) \in Nat /\ Total(w, A \cup {x}) \in Nat
<1>1. Coins(w, A) /\ w[x] \in Nat
  BY SomeCoins DEF Coins
<1>2. Total(w, A) \in Nat /\ Total(w, A \cup {x}) \in Nat
  BY <1>1, TotalIs
<1>3. CASE x \in A
  <2>1. PICK B : B = A \cup {x}
    OBVIOUS
  <2>2. B = A
    BY <1>3, <2>1
  <2>3. PICK p, q : p = Total(w, A) /\ q = w[x]
    OBVIOUS
  <2>4. Total(w, B) = p
    BY <2>2, <2>3
  <2>5. p \in Nat /\ q \in Nat /\ p <= p + q
    BY <1>1, <1>2, <2>3
  <2> QED BY <1>2, <2>1, <2>3, <2>4, <2>5
<1>4. CASE x \notin A
  <2>1. (A \cup {x}) \ {x} = A /\ x \in A \cup {x}
    BY <1>4
  <2>2. Total(w, A \cup {x}) = w[x] + Total(w, A)
    BY <2>1, TotalSplit
  <2> QED BY <1>1, <1>2, <2>2
<1> QED BY <1>3, <1>4

-----------------------------------------------------------------------------
(* What a fee bump keeps. *)

\* Of coins that are left one is tried last.
LEMMA OneIsLast ==
  ASSUME NEW last \in Nat, NEW S \in SUBSET (1..last), S # {}, NEW w, \A a \in S : w[a] \in Nat
  PROVE  TriedLast(w, S) \in S
<1>1. PICK V : V = {w[a] : a \in S}
  OBVIOUS
<1>2. V \in SUBSET Nat /\ V # {}
  BY <1>1
<1>3. PICK m \in V : \A n \in V : m <= n
  BY <1>2, MinIsLeast
<1>4. PICK T : T = {a \in S : w[a] = m}
  OBVIOUS
<1>5. T # {} /\ T \in SUBSET (0..last)
  <2>1. PICK a \in S : w[a] = m
    BY <1>1, <1>3
  <2>2. 1..last \subseteq 0..last
    OBVIOUS
  <2> QED BY <1>4, <2>1, <2>2
<1>6. PICK a \in T : \A b \in T : b <= a
  BY <1>5, GreatestIn
<1>7. ASSUME NEW b \in S \ {a} PROVE w[b] > w[a] \/ (w[b] = w[a] /\ b < a)
  <2>1. w[b] \in Nat /\ m \in Nat /\ w[a] = m /\ m <= w[b]
    BY <1>1, <1>2, <1>3, <1>4, <1>6
  <2>2. CASE w[b] = m
    <3>1. b \in T /\ b <= a /\ b # a /\ b \in Nat /\ a \in Nat
      BY <1>4, <1>5, <1>6, <1>7, <2>2
    <3> QED BY <2>1, <2>2, <3>1
  <2>3. CASE w[b] # m
    BY <2>1, <2>3
  <2> QED BY <2>2, <2>3
<1>8. a \in S
  BY <1>4, <1>6
<1> QED BY <1>7, <1>8 DEF TriedLast

\* tx.rs, kept_change: what is kept is some of the change, worth no more than the budget.
LEMMA KeptFits ==
  ASSUME NEW last \in Nat, NEW change \in SUBSET (1..last), NEW w, Coins(w, change), NEW budget \in Nat
  PROVE  Kept(w, change, budget) \subseteq change /\ Total(w, Kept(w, change, budget)) <= budget
<1> DEFINE E(h) == h = [s \in SUBSET change |-> IF s = {} THEN {}
                          ELSE IF Total(w, h[s \ {TriedLast(w, s)}]) + w[TriedLast(w, s)] <= budget
                               THEN h[s \ {TriedLast(w, s)}] \cup {TriedLast(w, s)}
                               ELSE h[s \ {TriedLast(w, s)}]]
           V == {A \in SUBSET change : Total(w, A) <= budget}
<1>1. PICK pick : pick = [s \in SUBSET change |-> TriedLast(w, s)]
  OBVIOUS
<1>2. PICK step : step = [a \in change |-> [A \in V |-> IF Total(w, A) + w[a] <= budget THEN A \cup {a} ELSE A]]
  OBVIOUS
<1>3. \A s \in SUBSET change : s # {} => TriedLast(w, s) \in s
  BY OneIsLast DEF Coins
<1>4. Picks(pick, change)
  BY <1>1, <1>3 DEF Picks, Coins
<1>5. {} \in V
  <2>1. Coins(w, {})
    BY FS_EmptySet DEF Coins
  <2>2. Total(w, {}) = 0
    BY <2>1, TotalIs
  <2> QED BY <2>2
<1>6. step \in [change -> [V -> V]]
  <2>1. ASSUME NEW a \in change, NEW A \in V, Total(w, A) + w[a] <= budget PROVE A \cup {a} \in V
    <3>0. A \cup {a} \in SUBSET change
      OBVIOUS
    <3>1. Coins(w, A \cup {a})
      BY <3>0, SomeCoins
    <3>2. Total(w, A \cup {a}) <= Total(w, A) + w[a] /\ Total(w, A) \in Nat /\ Total(w, A \cup {a}) \in Nat
      BY <3>1, TotalGrows
    <3>3. w[a] \in Nat
      BY DEF Coins
    <3>4. PICK p, q, r : p = Total(w, A \cup {a}) /\ q = Total(w, A) /\ r = w[a]
      OBVIOUS
    <3>5. p <= budget
      BY <2>1, <3>2, <3>3, <3>4
    <3>6. Total(w, A \cup {a}) <= budget
      BY <3>4, <3>5
    <3> QED BY <3>0, <3>6
  <2>2. \A a \in change, A \in V : (IF Total(w, A) + w[a] <= budget THEN A \cup {a} ELSE A) \in V
    <3> HIDE DEF V
    <3> QED BY <2>1
  <2> HIDE DEF V
  <2> QED BY <1>2, <2>2
<1> HIDE DEF V
<1>7. \E g : E(g)
  <2>1. PICK g : Folding(g, change, pick, {}, step)
    BY <1>4, FoldExists
  <2>2. \A s \in SUBSET change : g[s] \in V
    BY <1>4, <1>5, <1>6, <2>1, FoldType
  <2>3. ASSUME NEW s \in SUBSET change, s # {}
        PROVE  g[s] = IF Total(w, g[s \ {TriedLast(w, s)}]) + w[TriedLast(w, s)] <= budget
                      THEN g[s \ {TriedLast(w, s)}] \cup {TriedLast(w, s)}
                      ELSE g[s \ {TriedLast(w, s)}]
    <3>1. PICK a : a = TriedLast(w, s)
      OBVIOUS
    <3>2. a \in s /\ pick[s] = a
      BY <1>1, <1>3, <2>3, <3>1
    <3>3. g[s] = step[a][g[s \ {a}]]
      BY <2>1, <2>3, <3>2 DEF Folding
    <3>4. g[s \ {a}] \in V /\ a \in change
      BY <2>2, <3>2
    <3>5. g[s] = IF Total(w, g[s \ {a}]) + w[a] <= budget THEN g[s \ {a}] \cup {a} ELSE g[s \ {a}]
      BY <1>2, <3>3, <3>4
    <3> QED BY <3>1, <3>5
  <2>4. g[{}] = {} /\ g = [s \in SUBSET change |-> g[s]]
    BY <2>1 DEF Folding
  <2>5. ASSUME NEW s \in SUBSET change
        PROVE  g[s] = IF s = {} THEN {}
                      ELSE IF Total(w, g[s \ {TriedLast(w, s)}]) + w[TriedLast(w, s)] <= budget
                           THEN g[s \ {TriedLast(w, s)}] \cup {TriedLast(w, s)}
                           ELSE g[s \ {TriedLast(w, s)}]
    BY <2>3, <2>4
  <2>6. [s \in SUBSET change |-> g[s]] = [s \in SUBSET change |-> IF s = {} THEN {}
                      ELSE IF Total(w, g[s \ {TriedLast(w, s)}]) + w[TriedLast(w, s)] <= budget
                           THEN g[s \ {TriedLast(w, s)}] \cup {TriedLast(w, s)}
                           ELSE g[s \ {TriedLast(w, s)}]]
    BY <2>5
  <2>7. E(g)
    BY <2>4, <2>6
  <2> HIDE DEF E
  <2> QED BY <2>7
<1>8. PICK h : h = CHOOSE g : E(g)
  OBVIOUS
<1>9. E(h)
  BY <1>7, <1>8
<1>10. Kept(w, change, budget) = h[change]
  BY <1>8 DEF Kept, MapThenFoldSet
<1> HIDE DEF E
<1>11. \A s \in SUBSET change : h[s] \in V
  <2> SUFFICES ASSUME NEW s \in SUBSET change, h[s] \notin V PROVE FALSE
    OBVIOUS
  <2>1. PICK Bad : Bad = {t \in SUBSET change : h[t] \notin V}
    OBVIOUS
  <2>2. Bad # {} /\ \A t \in Bad : IsFiniteSet(t)
    BY <2>1, FS_Subset DEF Coins
  <2>3. PICK t \in Bad : \A x \in t : t \ {x} \notin Bad
    BY <2>2, SmallestSet
  <2>4. PICK a : a = TriedLast(w, t)
    OBVIOUS
  <2>5. t \in SUBSET change /\ h[t] = IF t = {} THEN {}
                  ELSE IF Total(w, h[t \ {a}]) + w[a] <= budget THEN h[t \ {a}] \cup {a} ELSE h[t \ {a}]
    BY <1>9, <2>1, <2>3, <2>4 DEF E
  <2>6. t # {}
    BY <1>5, <2>1, <2>3, <2>5
  <2>7. a \in t
    BY <1>3, <2>4, <2>5, <2>6
  <2>8. h[t \ {a}] \in V
    BY <2>1, <2>3, <2>5, <2>7
  <2>9. step[a][h[t \ {a}]] \in V
    BY <1>6, <2>5, <2>7, <2>8
  <2>10. step[a][h[t \ {a}]] = h[t]
    BY <1>2, <2>5, <2>6, <2>7, <2>8
  <2> QED BY <2>1, <2>3, <2>9, <2>10
<1>12. h[change] \in V
  BY <1>11
<1> QED BY <1>10, <1>12 DEF V

\* tx.rs, fee_increase: at least one qit, at most all the change, and between them no less than
\* was asked, but for what rounding leaves.
LEMMA BumpIs ==
  ASSUME NEW fee \in Int, NEW change \in Nat \ {0}, NEW pct \in Nat
  PROVE  /\ FeeIncrease(fee, change, pct) \in 1..change
         /\ \/ FeeIncrease(fee, change, pct) = change
            \/ 100 * (fee + FeeIncrease(fee, change, pct)) > fee * (100 + pct) - 100
<1>1. PICK p : p = fee * (100 + pct)
  OBVIOUS
<1>2. PICK d : d = p \div 100
  OBVIOUS
<1>3. p \in Int /\ d \in Int /\ 100 * d > p - 100
  BY <1>1, <1>2
<1>4. PICK x : x = Max({d, fee + 1})
  OBVIOUS
<1>5. x \in Int /\ x >= d /\ x >= fee + 1
  <2>1. \E y \in {d, fee + 1} : \A z \in {d, fee + 1} : z <= y
    BY <1>3
  <2>2. x \in {d, fee + 1} /\ \A z \in {d, fee + 1} : z <= x
    BY <1>4, <2>1 DEF Max
  <2> QED BY <1>3, <2>2
<1>6. PICK y : y = Min({x, fee + change})
  OBVIOUS
<1>7. y \in {x, fee + change} /\ y <= x /\ y <= fee + change
  <2>1. \E z \in {x, fee + change} : \A v \in {x, fee + change} : z <= v
    BY <1>5
  <2>2. y \in {x, fee + change} /\ \A v \in {x, fee + change} : y <= v
    BY <1>6, <2>1 DEF Min
  <2> QED BY <2>2
<1>8. FeeIncrease(fee, change, pct) = y - fee
  BY <1>1, <1>2, <1>4, <1>6 DEF FeeIncrease
<1>9. y \in Int /\ y - fee \in 1..change /\ (y - fee = change \/ 100 * (fee + (y - fee)) > p - 100)
  BY <1>3, <1>5, <1>7
<1> QED BY <1>1, <1>8, <1>9

-----------------------------------------------------------------------------
(* What the candidates of a spend pay. *)

\* A candidate against the one before it.
PaysMore(o, old, c) ==
  /\ c.kept \subseteq old.kept /\ FeeOf(o, c) > FeeOf(o, old)
  /\ c.priced /\ c.kept # {} => 100 * FeeOf(o, c) > FeeOf(o, old) * (100 + c.pct) - 100
\* A candidate for the k-th place: it keeps change of its claim, and pays more than the one before.
Offered(o, k, c) ==
  /\ k \in Nat \ {0} /\ c.kept \subseteq DOMAIN worth[o]
  /\ k # 1 => k - 1 \in 1..Newest(o) /\ PaysMore(o, family[o][k - 1], c)

\* Whatever is signed, about to be, or waits for an approval pays more than what it replaces.
FeeInv ==
  /\ \A o \in Ops : \A a \in DOMAIN worth[o] : worth[o][a] \in Nat \ {0}
  /\ \A o \in Ops : \A k \in 1..Newest(o) : Offered(o, k, family[o][k])
  /\ \A s \in Sessions : \A p \in pending[s] : Offered(p.op, p.k, p.review)
  /\ \A s \in Sessions : pc[s] \in {"c_sign", "c_mark"} => Offered(job[s].op, job[s].k, job[s].review)
  /\ \A o \in Ops : row[o].fee \in Int
  /\ \A s \in Sessions : pc[s] = "u_offer" => job[s].fee \in Int

\* The change of a claim is coins.
LEMMA ChangeIs ==
  ASSUME StoreShape, FeeInv, NEW o \in Ops
  PROVE  /\ Coins(worth[o], DOMAIN worth[o]) /\ DOMAIN worth[o] \in SUBSET (1..issued) /\ issued \in Nat
         /\ Total(worth[o], DOMAIN worth[o]) \in Nat
<1>1. issued \in Nat /\ DOMAIN worth[o] \subseteq 1..issued
  BY QiBounds DEF StoreShape
<1>2. IsFiniteSet(1..issued)
  BY <1>1, FS_Interval
<1>3. IsFiniteSet(DOMAIN worth[o])
  BY <1>1, <1>2, FS_Subset
<1>4. Coins(worth[o], DOMAIN worth[o])
  BY <1>3 DEF Coins, FeeInv
<1> QED BY <1>1, <1>4, TotalIs

\* Whichever of it is kept, and a fee is a number.
LEMMA FeeIs ==
  ASSUME StoreShape, FeeInv, NEW o \in Ops, NEW A \in SUBSET DOMAIN worth[o], NEW c, c.kept = A
  PROVE  /\ Coins(worth[o], A) /\ A \in SUBSET (1..issued) /\ issued \in Nat
         /\ FeeOf(o, c) = QuotedFee + Total(worth[o], DOMAIN worth[o]) - Total(worth[o], A)
         /\ FeeOf(o, c) \in Int
<1>1. /\ issued \in Nat /\ DOMAIN worth[o] \in SUBSET (1..issued) /\ QuotedFee \in Nat
      /\ Coins(worth[o], DOMAIN worth[o]) /\ Total(worth[o], DOMAIN worth[o]) \in Nat
  BY QiBounds, ChangeIs
<1>4. Coins(worth[o], A)
  BY <1>1, SomeCoins
<1>5. Total(worth[o], DOMAIN worth[o]) \in Nat /\ Total(worth[o], A) \in Nat
  BY <1>1, <1>4, TotalIs
<1>6. FeeOf(o, c) = QuotedFee + Total(worth[o], DOMAIN worth[o]) - Total(worth[o], A)
  BY DEF FeeOf
<1> QED BY <1>1, <1>4, <1>5, <1>6

\* tx.rs, kept_change: what is left of the change when more of it is to be paid pays it.
LEMMA KeepingPays ==
  ASSUME StoreShape, FeeInv, NEW o \in Ops, NEW old, old.kept \subseteq DOMAIN worth[o], old.kept # {},
         NEW had, had = Total(worth[o], old.kept), NEW more \in 1..had,
         NEW c, c.kept = Kept(worth[o], old.kept, had - more)
  PROVE  /\ c.kept \subseteq old.kept /\ FeeOf(o, old) \in Int /\ FeeOf(o, c) \in Int
         /\ FeeOf(o, c) >= FeeOf(o, old) + more
         /\ c.kept # {} => more # had
<1>1. PICK w, A, kept : w = worth[o] /\ A = old.kept /\ kept = c.kept
  OBVIOUS
<1>2. /\ Coins(w, A) /\ A \in SUBSET (1..issued) /\ issued \in Nat /\ FeeOf(o, old) \in Int
      /\ FeeOf(o, old) = QuotedFee + Total(w, DOMAIN w) - Total(w, A)
  BY <1>1, FeeIs
<1>3. ASSUME NEW B \in SUBSET A, B # {} PROVE Total(w, B) \in Nat \ {0}
  <2>1. Coins(w, B)
    BY <1>2, SomeCoins
  <2>2. Any(B) \in B /\ Total(w, B) = w[Any(B)] + Total(w, B \ {Any(B)})
    BY <1>3, <2>1, TotalIs
  <2>3. PICK x : x = Any(B)
    OBVIOUS
  <2>4. Coins(w, B \ {x})
    BY <2>1, SomeCoins
  <2>5. Total(w, B \ {x}) \in Nat
    BY <2>4, TotalIs
  <2>6. w[x] \in Nat \ {0}
    BY <1>1, <1>3, <2>2, <2>3 DEF FeeInv
  <2> QED BY <2>2, <2>3, <2>5, <2>6
<1>4. had \in Nat \ {0} /\ had = Total(w, A)
  BY <1>1, <1>3
<1>5. PICK budget : budget = had - more
  OBVIOUS
<1>6. budget \in Nat
  BY <1>4, <1>5
<1>7. kept \subseteq A /\ Total(w, kept) <= budget
  <2>1. kept = Kept(w, A, budget)
    BY <1>1, <1>5
  <2>2. Kept(w, A, budget) \subseteq A /\ Total(w, Kept(w, A, budget)) <= budget
    BY <1>2, <1>6, KeptFits
  <2> QED BY <2>1, <2>2
<1>8. kept \in SUBSET DOMAIN worth[o]
  BY <1>1, <1>7
<1>9. FeeOf(o, c) = QuotedFee + Total(w, DOMAIN w) - Total(w, kept) /\ FeeOf(o, c) \in Int /\ Coins(w, kept)
  BY <1>1, <1>8, FeeIs
<1>10. Total(w, kept) \in Nat /\ Total(w, DOMAIN w) \in Nat /\ QuotedFee \in Nat
  BY <1>1, <1>9, TotalIs, ChangeIs, QiBounds
<1>11. PICK p, q, r, whole : p = FeeOf(o, old) /\ q = FeeOf(o, c) /\ r = Total(w, kept)
                             /\ whole = QuotedFee + Total(w, DOMAIN w)
  OBVIOUS
<1>12. r \in Nat /\ whole \in Int /\ p = whole - had /\ q = whole - r /\ r <= had - more
  BY <1>2, <1>4, <1>5, <1>7, <1>9, <1>10, <1>11
<1>13. q >= p + more
  BY <1>4, <1>12
<1>14. ASSUME kept # {} PROVE more # had
  <2>1. r \in Nat \ {0}
    BY <1>3, <1>7, <1>11, <1>14
  <2> QED BY <1>4, <1>12, <2>1
<1> QED BY <1>1, <1>2, <1>7, <1>9, <1>11, <1>13, <1>14

\* tx.rs, fee_increase and kept_change together: however the bump is priced and whatever is asked,
\* what is kept of the newest candidate's change makes a candidate that pays more.
LEMMA OfferPays ==
  ASSUME StoreShape, FeeInv, NEW o \in Ops, NEW old, old.kept \subseteq DOMAIN worth[o], old.kept # {},
         NEW pct \in Percents, NEW priced \in BOOLEAN, NEW paid \in Int, priced = TRUE => paid = FeeOf(o, old),
         NEW had, had = Total(worth[o], old.kept),
         NEW more \in {had, FeeIncrease(paid, had, pct)},
         NEW c, c = Candidate(Kept(worth[o], old.kept, had - more), pct, priced)
  PROVE  c.kept \subseteq DOMAIN worth[o] /\ PaysMore(o, old, c)
<1>1. had \in Nat \ {0}
  <2>1. PICK B : B = old.kept
    OBVIOUS
  <2>2. Coins(worth[o], B)
    BY <2>1, FeeIs
  <2>3. PICK x : x = Any(B)
    OBVIOUS
  <2>4. x \in B /\ Total(worth[o], B) = worth[o][x] + Total(worth[o], B \ {x})
    BY <2>1, <2>2, <2>3, TotalIs
  <2>5. Coins(worth[o], B \ {x})
    BY <2>2, SomeCoins
  <2>6. Total(worth[o], B \ {x}) \in Nat
    BY <2>5, TotalIs
  <2>7. worth[o][x] \in Nat \ {0}
    BY <2>1, <2>4 DEF FeeInv
  <2> QED BY <2>1, <2>4, <2>6, <2>7
<1>2. pct \in Nat
  BY QiBounds
<1>3. PICK inc : inc = FeeIncrease(paid, had, pct)
  OBVIOUS
<1>4. inc \in 1..had /\ (inc = had \/ 100 * (paid + inc) > paid * (100 + pct) - 100)
  BY <1>1, <1>2, <1>3, BumpIs
<1>5. more \in 1..had /\ (more = had \/ 100 * (paid + more) > paid * (100 + pct) - 100)
  <2>1. more = had \/ more = inc
    BY <1>3
  <2>2. had \in 1..had
    BY <1>1
  <2> QED BY <1>4, <2>1, <2>2
<1>6. c.kept = Kept(worth[o], old.kept, had - more) /\ c.pct = pct /\ c.priced = priced
  BY DEF Candidate
<1>7. /\ c.kept \subseteq old.kept /\ FeeOf(o, old) \in Int /\ FeeOf(o, c) \in Int
      /\ FeeOf(o, c) >= FeeOf(o, old) + more
      /\ c.kept # {} => more # had
  BY <1>5, <1>6, KeepingPays
<1>8. PICK p, q : p = FeeOf(o, old) /\ q = FeeOf(o, c)
  OBVIOUS
<1>9. q > p
  BY <1>1, <1>5, <1>7, <1>8
<1>10. ASSUME priced = TRUE, c.kept # {} PROVE 100 * q > p * (100 + pct) - 100
  <2>1. PICK x : x = p * (100 + pct) - 100
    OBVIOUS
  <2>2. 100 * (p + more) > x
    BY <1>5, <1>7, <1>8, <1>10, <2>1
  <2>3. x \in Int
    BY <1>2, <1>7, <1>8, <2>1
  <2>4. 100 * q > x
    BY <1>1, <1>5, <1>7, <1>8, <2>2, <2>3
  <2> QED BY <2>1, <2>4
<1>11. ASSUME c.priced = TRUE, c.kept # {} PROVE 100 * FeeOf(o, c) > FeeOf(o, old) * (100 + c.pct) - 100
  BY <1>6, <1>8, <1>10, <1>11
<1> QED BY <1>6, <1>7, <1>8, <1>9, <1>11 DEF PaysMore

\* Only the claim of its coins gives an operation change, and only a signature a candidate.
LEMMA OnlyClaim ==
  ASSUME NEW s \in Sessions, Begin(s) \/ Proceed(s) \/ Crash(s)
  PROVE  Claim(s) \/ UNCHANGED worth
<1>1. CASE Begin(s)
  BY <1>1, BeginKeeps
<1>2. CASE \/ Allocate(s) \/ Grow(s) \/ ClaimSweep(s) \/ HandBack(s) \/ PrepareFails(s) \/ Journal(s)
           \/ JournalFails(s) \/ SpeedUpOffer(s) \/ SpeedUpFails(s) \/ CommitRefused(s) \/ Sign(s) \/ Send(s)
  BY <1>2 DEF Allocate, Grow, ClaimSweep, HandBack, PrepareFails, Journal, JournalFails, SpeedUpOffer,
              SpeedUpFails, CommitRefused, Sign, Send, claims
<1>3. CASE \/ Mark(s) \/ Record(s) \/ Done(s) \/ Reclaim(s) \/ AbandonLock(s) \/ AbandonRelease(s)
           \/ DiscardRefused(s) \/ Cancel(s) \/ TrackApply(s) \/ TrackSkip(s) \/ Crash(s)
  BY <1>3 DEF Mark, Record, Done, Reclaim, AbandonLock, AbandonRelease, DiscardRefused, Cancel, TrackApply, TrackSkip,
              Crash, claims
<1> QED BY <1>1, <1>2, <1>3 DEF Proceed

\* A candidate stays where it was signed; one that is added is the review that was approved.
LEMMA FamilyGrows ==
  ASSUME QiInv, NEW s \in Sessions, Begin(s) \/ Proceed(s) \/ Crash(s), NEW o \in Ops
  PROVE  /\ Newest(o) \in Nat /\ \A i \in 1..Newest(o) : family'[o][i] = family[o][i]
         /\ \/ Newest(o)' = Newest(o)
            \/ /\ Newest(o)' = Newest(o) + 1 /\ Sign(s) /\ job[s].op = o
               /\ family'[o][Newest(o) + 1] = job[s].review
<1>1. PICK q : q = family[o]
  OBVIOUS
<1>2. IsSeq(q) /\ On(family, Ops) /\ Newest(o) = Len(q) /\ Newest(o)' = Len(family'[o])
  BY <1>1 DEF QiInv, StoreShape, Newest
<1>3. Len(q) \in Nat
  BY <1>2, GrownSeq
<1>4. CASE family'[o] = family[o]
  BY <1>1, <1>2, <1>3, <1>4
<1>5. CASE family'[o] # family[o]
  <2>1. Sign(s)
    BY <1>5, OnlySignAndSend
  <2>2. PICK r : r = job[s].review
    OBVIOUS
  <2>3. family' = [family EXCEPT ![job[s].op] = Append(@, r)]
    BY <2>1, <2>2 DEF Sign
  <2>4. job[s].op = o
    BY <1>2, <1>5, <2>3 DEF On
  <2>5. family'[o] = Append(q, r)
    BY <1>1, <1>2, <2>3, <2>4 DEF On
  <2>6. Len(Append(q, r)) = Len(q) + 1
    BY <1>2, GrownSeq
  <2>7. /\ \A i \in 1..Len(q) : Append(q, r)[i] = q[i]
        /\ Append(q, r)[Len(q) + 1] = r
    BY <1>3, <1>2, AppendProperties DEF IsSeq
  <2> QED BY <1>1, <1>2, <1>3, <2>1, <2>2, <2>4, <2>5, <2>6, <2>7
<1> QED BY <1>4, <1>5

\* What was offered for an operation whose change stays is offered still.
LEMMA StillOffered ==
  ASSUME QiInv, NEW s \in Sessions, Begin(s) \/ Proceed(s) \/ Crash(s), NEW o \in Ops, NEW k, NEW c,
         Offered(o, k, c), worth'[o] = worth[o]
  PROVE  Offered(o, k, c)'
<1>1. \A e : FeeOf(o, e)' = FeeOf(o, e)
  BY DEF FeeOf
<1>2. ASSUME k # 1 PROVE k - 1 \in 1..Newest(o)' /\ family'[o][k - 1] = family[o][k - 1]
  <2>1. k - 1 \in 1..Newest(o)
    BY <1>2 DEF Offered
  <2>2. Newest(o) \in Nat /\ (Newest(o)' = Newest(o) \/ Newest(o)' = Newest(o) + 1)
    BY FamilyGrows
  <2>3. family'[o][k - 1] = family[o][k - 1]
    BY <2>1, FamilyGrows
  <2> QED BY <2>1, <2>2, <2>3
<1>3. ASSUME k # 1 PROVE PaysMore(o, family[o][k - 1], c)'
  <2>1. PICK e : e = family[o][k - 1]
    OBVIOUS
  <2>2. family'[o][k - 1] = e
    BY <1>2, <1>3, <2>1
  <2>3. PaysMore(o, e, c)
    BY <1>3, <2>1 DEF Offered
  <2>4. FeeOf(o, e)' = FeeOf(o, e) /\ FeeOf(o, c)' = FeeOf(o, c)
    BY <1>1
  <2>5. PaysMore(o, e, c)'
    BY <2>3, <2>4 DEF PaysMore
  <2> QED BY <2>2, <2>5 DEF PaysMore, FeeOf
<1> QED BY <1>2, <1>3 DEF Offered

\* When an operation gets its change, nothing was offered for it.
LEMMA NothingOffered ==
  ASSUME QiInv, FeeInv, NEW s \in Sessions, Claim(s), NEW o \in Ops, o = job[s].op
  PROVE  /\ Newest(o) = 0
         /\ \A t \in Sessions : \A p \in pending[t] : p.op # o
         /\ \A t \in Sessions : pc[t] \in {"c_sign", "c_mark"} => job[t].op # o
<1>1. resv[o] = "none" /\ opLock[o] = s /\ pc[s] = "p_sdk"
  BY DEF Claim, QiInv, ClaimInv, QiLocks, Holding, Preparing
<1>2. Newest(o) = 0
  BY <1>1 DEF QiInv, ClaimInv
<1>3. ASSUME NEW t \in Sessions, NEW p \in pending[t], p.op = o PROVE FALSE
  <2>1. Offered(o, p.k, p.review)
    BY <1>3 DEF FeeInv
  <2>2. p.k = 1
    BY <1>2, <2>1 DEF Offered
  <2>3. Waits(t, o)
    BY <1>3, <2>2 DEF Waits
  <2> QED BY <1>1, <2>3 DEF QiInv, ReviewInv
<1>4. ASSUME NEW t \in Sessions, pc[t] \in {"c_sign", "c_mark"}, job[t].op = o PROVE FALSE
  <2>1. CASE pc[t] = "c_mark"
    BY <1>2, <1>4, <2>1 DEF QiInv, SignedInv
  <2>2. CASE pc[t] = "c_sign"
    BY <1>1, <1>4, <2>2 DEF QiInv, QiLocks, Holding
  <2> QED BY <1>4, <2>1, <2>2
<1> QED BY <1>2, <1>3, <1>4

\* The SDK gives each change output a denomination.
LEMMA WorthStep ==
  ASSUME QiInv, FeeInv, NEW s \in Sessions, Begin(s) \/ Proceed(s) \/ Crash(s), NEW o \in Ops
  PROVE  /\ \A a \in DOMAIN worth'[o] : worth'[o][a] \in Nat \ {0}
         /\ worth'[o] # worth[o] => Claim(s) /\ job[s].op = o
<1>1. CASE worth'[o] = worth[o]
  <2>1. PICK w : w = worth[o]
    OBVIOUS
  <2>2. \A a \in DOMAIN w : w[a] \in Nat \ {0}
    BY <2>1 DEF FeeInv
  <2>3. worth'[o] = w
    BY <1>1, <2>1
  <2>4. \A a \in DOMAIN worth'[o] : worth'[o][a] \in Nat \ {0}
    BY <2>2, <2>3
  <2> QED BY <1>1, <2>4
<1>2. CASE worth'[o] # worth[o]
  <2>1. Claim(s)
    BY <1>2, OnlyClaim
  <2>2. PICK q \in Quotes :
          LET mine == Lowest(Len(q), job[s].pool) IN
            worth' = [worth EXCEPT ![job[s].op] = [a \in mine |-> q[Cardinality({b \in mine : b <= a})]]]
    BY <2>1 DEF Claim
  <2>3. PICK mine : mine = Lowest(Len(q), job[s].pool)
    OBVIOUS
  <2>4. PICK w : w = [a \in mine |-> q[Cardinality({b \in mine : b <= a})]]
    OBVIOUS
  <2>5. worth' = [worth EXCEPT ![job[s].op] = w] /\ On(worth, Ops)
    BY <2>2, <2>3, <2>4 DEF QiInv, StoreShape
  <2>6. job[s].op = o /\ worth'[o] = w
    BY <1>2, <2>5 DEF On
  <2>7. q \in Seq(Nat \ {0}) /\ Len(q) \in Nat /\ issued \in Nat /\ job[s].pool \in SUBSET (1..issued)
    BY QiQuotes, QiBounds DEF QiInv, StoreShape, DeskShape, JobShape
  <2>8. mine \subseteq job[s].pool /\ Cardinality(mine) \in Nat /\ Cardinality(mine) <= Len(q)
    BY <2>3, <2>7, LowestFew
  <2>9. ASSUME NEW a \in mine PROVE w[a] \in Nat \ {0}
    <3>1. PICK B : B = {b \in mine : b <= a}
      OBVIOUS
    <3>0. 1 \in Int /\ issued \in Int
      BY <2>7
    <3>2. mine \in SUBSET (1..issued) /\ IsFiniteSet(1..issued)
      BY <3>0, <2>7, <2>8, FS_Interval
    <3>3. IsFiniteSet(mine)
      BY <3>2, FS_Subset
    <3>4. B \in SUBSET mine /\ a \in B
      BY <3>1, <3>2
    <3>5. IsFiniteSet(B) /\ Cardinality(B) <= Cardinality(mine)
      BY <3>3, <3>4, FS_Subset
    <3>6. Cardinality(B) \in Nat /\ Cardinality(B) # 0
      BY <3>4, <3>5, FS_CardinalityType, FS_EmptySet
    <3>7. Cardinality(B) \in 1..Len(q)
      BY <2>7, <2>8, <3>5, <3>6
    <3>8. q[Cardinality(B)] \in Nat \ {0}
      BY <2>7, <3>7, ElementOfSeq
    <3> QED BY <2>4, <3>1, <3>8
  <2>10. DOMAIN w = mine
    BY <2>4
  <2> QED BY <2>1, <2>6, <2>9, <2>10
<1> QED BY <1>1, <1>2

\* What a row says of its fee is a number, whichever step writes it.
LEMMA RowFees ==
  ASSUME QiInv, FeeInv, NEW s \in Sessions, Begin(s) \/ Proceed(s) \/ Crash(s), NEW o \in Ops
  PROVE  row'[o].fee \in Int
<1>t. On(row, Ops) /\ \A p \in Ops : row[p].fee \in Int
  BY DEF QiInv, StoreShape, FeeInv
<1>op. ASSUME pc[s] # "idle" PROVE job[s].op \in Ops
  BY <1>op DEF QiInv, QiLocks
<1>same. ASSUME UNCHANGED row PROVE row'[o].fee \in Int
  BY <1>same, <1>t
<1>one. ASSUME NEW p \in Ops, NEW w, row' = [row EXCEPT ![p] = w], w.fee \in Int PROVE row'[o].fee \in Int
  BY <1>one, <1>t DEF On
<1>move. ASSUME NEW p \in Ops, NEW from, NEW st, NEW k, Transition(p, from, Moved(row[p], st, k))
         PROVE  row'[o].fee \in Int
  <2>1. PICK w : w = Moved(row[p], st, k)
    OBVIOUS
  <2>2. w.fee \in Int
    BY <2>1, <1>t DEF Moved, Row
  <2>3. row'[p] \in {row[p], w} /\ \A q \in Ops \ {p} : row'[q] = row[q]
    BY <1>move, <2>1, <1>t, TransitionShape
  <2> QED BY <2>2, <2>3, <1>t
<1>fee. ASSUME pc[s] = "c_mark" PROVE FeeOf(job[s].op, job[s].review) \in Int
  <2>1. job[s].op \in Ops
    BY <1>fee, <1>op
  <2>2. Offered(job[s].op, job[s].k, job[s].review)
    BY <1>fee DEF FeeInv
  <2>3. job[s].review.kept \in SUBSET DOMAIN worth[job[s].op]
    BY <2>2 DEF Offered
  <2> QED BY <2>1, <2>3, FeeIs DEF QiInv
<1>1. CASE Begin(s)
  <2>1. ASSUME NEW p \in Ops, Reconcile(s, p) PROVE row'[o].fee \in Int
    <3>1. PICK w : w = IF row[p].st = "none" THEN Row("prepared", 0, {}, 0, FALSE) ELSE row[p]
      OBVIOUS
    <3>2. PICK st : st = IF w.st = "prepared" THEN "signed" ELSE w.st
      OBVIOUS
    <3>3. PICK k : k = IF st \in Concluded THEN w.hash ELSE Newest(p)
      OBVIOUS
    <3>4. PICK v : v = IF Newest(p) = 0 THEN w ELSE Row(st, k, DOMAIN family[p], w.fee, TRUE)
      OBVIOUS
    <3>5. row' = [row EXCEPT ![p] = v]
      BY <2>1, <3>1, <3>2, <3>3, <3>4 DEF Reconcile
    <3>6. w.fee \in Int
      BY <3>1, <1>t DEF Row
    <3>7. v.fee \in Int
      BY <3>4, <3>6 DEF Row
    <3> QED BY <3>5, <3>7, <1>one
  <2> QED BY <1>1, <2>1, <1>same, BeginRows
<1>2. CASE Journal(s)
  <2>1. PICK w : w = Row("prepared", 0, {}, QuotedFee, FALSE)
    OBVIOUS
  <2>2. row' = [row EXCEPT ![job[s].op] = w] /\ job[s].op \in Ops
    BY <1>2, <2>1, JournalsOnce DEF Journal
  <2>3. w.fee \in Int
    BY <2>1, QiBounds DEF Row
  <2> QED BY <2>2, <2>3, <1>one
<1>3. CASE Mark(s)
  <2>1. PICK w : w = Row("signed", 1, row[job[s].op].known, FeeOf(job[s].op, job[s].review), row[job[s].op].listed)
    OBVIOUS
  <2>2. row' = [row EXCEPT ![job[s].op] = w] /\ job[s].op \in Ops /\ pc[s] = "c_mark"
    BY <1>3, <2>1, <1>op DEF Mark
  <2>3. w.fee \in Int
    BY <2>1, <2>2, <1>fee DEF Row
  <2> QED BY <2>2, <2>3, <1>one
<1>4. CASE Record(s)
  <2>1. PICK r : r = row[job[s].op]
    OBVIOUS
  <2>2. PICK w : w = IF r.st \in Concluded
                     THEN Row(r.st, r.hash, r.known \cup ({r.hash, job[s].k} \ {0}), r.fee, TRUE)
                     ELSE Row("submitted", job[s].k, r.known \cup ({r.hash, job[s].k} \ {0}),
                              FeeOf(job[s].op, job[s].review), TRUE)
    OBVIOUS
  <2>3. row' = [row EXCEPT ![job[s].op] = w] /\ job[s].op \in Ops /\ pc[s] = "c_mark"
    BY <1>4, <2>1, <2>2, <1>op DEF Record
  <2>4. w.fee \in Int
    BY <2>1, <2>2, <2>3, <1>fee, <1>t DEF Row
  <2> QED BY <2>3, <2>4, <1>one
<1>5. CASE Done(s)
  <2>1. job[s].op \in Ops /\ \E from, st, k : Transition(job[s].op, from, Moved(row[job[s].op], st, k))
    BY <1>5, <1>op DEF Done
  <2> QED BY <2>1, <1>move
<1>6. CASE Cancel(s)
  <2>1. job[s].op \in Ops
    BY <1>6, <1>op DEF Cancel
  <2>2. PICK w : w = Moved(row[job[s].op], "cancelled", row[job[s].op].hash)
    OBVIOUS
  <2>3. row' = row \/ row' = [row EXCEPT ![job[s].op] = w]
    BY <1>6, <2>2 DEF Cancel
  <2>4. w.fee \in Int
    BY <2>1, <2>2, <1>t DEF Moved, Row
  <2> QED BY <2>1, <2>3, <2>4, <1>same, <1>one
<1>7. CASE TrackApply(s)
  <2>1. job[s].op \in Ops /\ \E from, st, k : Transition(job[s].op, from, Moved(row[job[s].op], st, k))
    BY <1>7, <1>op DEF TrackApply
  <2> QED BY <2>1, <1>move
<1>8. CASE \/ Allocate(s) \/ Grow(s) \/ Claim(s) \/ ClaimSweep(s) \/ HandBack(s) \/ PrepareFails(s)
           \/ JournalFails(s) \/ SpeedUpOffer(s) \/ SpeedUpFails(s) \/ Sign(s) \/ CommitRefused(s) \/ Send(s)
           \/ Reclaim(s) \/ AbandonLock(s) \/ AbandonRelease(s) \/ DiscardRefused(s) \/ TrackSkip(s) \/ Crash(s)
  <2>1. UNCHANGED row
    BY <1>8 DEF Allocate, Grow, Claim, ClaimSweep, HandBack, PrepareFails, JournalFails, SpeedUpOffer, SpeedUpFails,
                Sign, CommitRefused, Send, Reclaim, AbandonLock, AbandonRelease, DiscardRefused, TrackSkip, Crash, node
  <2> QED BY <2>1, <1>same
<1> QED BY <1>1, <1>2, <1>3, <1>4, <1>5, <1>6, <1>7, <1>8 DEF Proceed

\* A review that is new in a session's memory is of the claim's change, or pays more than the
\* newest candidate.
LEMMA NewOffer ==
  ASSUME QiInv, FeeInv, NEW s \in Sessions, Begin(s) \/ Proceed(s) \/ Crash(s),
         NEW p \in pending'[s], p \notin pending[s]
  PROVE  p.op \in Ops /\ Offered(p.op, p.k, p.review)
<1>1. CASE Journal(s) /\ p.op = job[s].op /\ p.review = job[s].review /\ p.k = 1
  BY <1>1, JournalsOnce DEF Offered
<1>2. CASE SpeedUpOffer(s) /\ p.op = job[s].op
  <2>1. PICK o, old : o = job[s].op /\ old = family[o][Parent(o)]
    OBVIOUS
  <2>2. o \in Ops /\ resv[o] = "signed" /\ old.kept # {} /\ pc[s] = "u_offer" /\ On(pending, Sessions)
    BY <1>2, <2>1 DEF SpeedUpOffer, QiInv, QiLocks, DeskShape
  <2>3. PICK pct \in Percents, priced \in BOOLEAN, all \in BOOLEAN :
          LET change == family[job[s].op][Parent(job[s].op)].kept
              had  == Total(worth[job[s].op], change)
              paid == IF priced THEN FeeOf(job[s].op, family[job[s].op][Parent(job[s].op)]) ELSE job[s].fee
              more == IF all THEN had ELSE FeeIncrease(paid, had, pct)
          IN  pending' = [pending EXCEPT ![s] = {q \in @ : q.op # job[s].op \/ q.k # Parent(job[s].op) + 1}
                \cup {Review(job[s].op, Parent(job[s].op) + 1,
                             Candidate(Kept(worth[job[s].op], change, had - more), pct, priced))}]
    BY <1>2, Zenon DEF SpeedUpOffer
  <2>4. PICK had : had = Total(worth[o], old.kept)
    OBVIOUS
  <2>5. PICK paid : paid = IF priced THEN FeeOf(o, old) ELSE job[s].fee
    OBVIOUS
  <2>6. PICK more : more = IF all THEN had ELSE FeeIncrease(paid, had, pct)
    OBVIOUS
  <2>7. PICK c : c = Candidate(Kept(worth[o], old.kept, had - more), pct, priced)
    OBVIOUS
  <2>8. PICK n : n = Parent(o)
    OBVIOUS
  <2>9. pending' = [pending EXCEPT ![s] = {q \in @ : q.op # o \/ q.k # n + 1} \cup {Review(o, n + 1, c)}]
    <3>1. Total(worth[job[s].op], family[job[s].op][Parent(job[s].op)].kept) = had
      BY <2>1, <2>4
    <3>2. (IF priced THEN FeeOf(job[s].op, family[job[s].op][Parent(job[s].op)]) ELSE job[s].fee) = paid
      BY <2>1, <2>5
    <3>3. (IF all THEN had ELSE FeeIncrease(paid, had, pct)) = more
      BY <2>6
    <3>4. Candidate(Kept(worth[job[s].op], family[job[s].op][Parent(job[s].op)].kept, had - more), pct, priced) = c
      BY <2>1, <2>7
    <3>5. pending' = [pending EXCEPT ![s] = {q \in @ : q.op # job[s].op \/ q.k # Parent(job[s].op) + 1}
            \cup {Review(job[s].op, Parent(job[s].op) + 1, c)}]
      BY <2>3, <3>1, <3>2, <3>3, <3>4
    <3> QED BY <3>5, <2>1, <2>8
  <2>10. p = Review(o, n + 1, c)
    BY <2>2, <2>9 DEF On
  <2>11. n \in Nat \ {0} /\ n = Newest(o)
    <3>1. Newest(o) \in Nat
      BY <2>2, FamilyGrows
    <3> QED BY <2>2, <2>8, <3>1 DEF Parent, QiInv, SignedInv
  <2>12. n \in 1..Newest(o) /\ family[o][n] = old
    BY <2>1, <2>8, <2>11
  <2>13. Offered(o, n, old)
    BY <2>2, <2>12 DEF FeeInv
  <2>14. old.kept \in SUBSET DOMAIN worth[o]
    BY <2>13 DEF Offered
  <2>15. StoreShape /\ FeeOf(o, old) \in Int /\ job[s].fee \in Int
    <3>1. StoreShape
      BY DEF QiInv
    <3>2. job[s].fee \in Int
      BY <2>2 DEF FeeInv
    <3> QED BY <2>2, <2>14, <3>1, <3>2, FeeIs
  <2>16. paid \in Int /\ (priced = TRUE => paid = FeeOf(o, old))
    BY <2>5, <2>15
  <2>17. more \in {had, FeeIncrease(paid, had, pct)}
    BY <2>6
  <2>18. c.kept \subseteq DOMAIN worth[o] /\ PaysMore(o, old, c)
    BY <2>2, <2>4, <2>7, <2>14, <2>15, <2>16, <2>17, OfferPays
  <2>19. n + 1 # 1 /\ (n + 1) - 1 = n /\ n + 1 \in Nat \ {0}
    BY <2>11
  <2>20. PICK k : k = n + 1
    OBVIOUS
  <2>21. k # 1 /\ k - 1 = n /\ k \in Nat \ {0}
    BY <2>19, <2>20
  <2>22. Offered(o, k, c)
    BY <2>12, <2>18, <2>21 DEF Offered
  <2> QED BY <2>2, <2>10, <2>20, <2>22 DEF Review
<1> QED BY <1>1, <1>2, NewReview

\* A step leaves every offer what it was, but for the claim that gives an operation its change.
LEMMA OffersStay ==
  ASSUME QiInv, FeeInv, NEW s \in Sessions, Begin(s) \/ Proceed(s) \/ Crash(s), NEW o \in Ops, NEW k, NEW c,
         Offered(o, k, c), Claim(s) => job[s].op # o
  PROVE  Offered(o, k, c)'
<1>1. worth'[o] = worth[o]
  BY WorthStep
<1> QED BY <1>1, StillOffered

\* The candidates of a spend, the one that was just signed included, pay more and more.
LEMMA SignedPays ==
  ASSUME QiInv, FeeInv, NEW s \in Sessions, Begin(s) \/ Proceed(s) \/ Crash(s), NEW o \in Ops,
         NEW k \in 1..Newest(o)'
  PROVE  Offered(o, k, family[o][k])'
<1>1. PICK c : c = family'[o][k]
  OBVIOUS
<1>2. Newest(o) \in Nat /\ k \in Nat \ {0} /\ (Newest(o)' = Newest(o) \/ Newest(o)' = Newest(o) + 1)
  BY FamilyGrows
<1>3. Offered(o, k, c) /\ (Claim(s) => job[s].op # o)
  <2>1. CASE k <= Newest(o)
    <3>1. k \in 1..Newest(o)
      BY <1>2, <2>1
    <3>2. family'[o][k] = family[o][k]
      BY <3>1, FamilyGrows
    <3>3. Offered(o, k, c)
      BY <1>1, <3>1, <3>2 DEF FeeInv
    <3>4. Newest(o) # 0
      BY <1>2, <2>1
    <3> QED BY <3>3, <3>4, NothingOffered
  <2>2. CASE ~(k <= Newest(o))
    <3>1. k = Newest(o) + 1 /\ Newest(o)' # Newest(o)
      BY <1>2, <2>2
    <3>2. Sign(s) /\ job[s].op = o /\ family'[o][Newest(o) + 1] = job[s].review
      BY <3>1, FamilyGrows
    <3>3. PICK n : n = job[s].k
      OBVIOUS
    <3>4. c = job[s].review /\ pc[s] = "c_sign" /\ Signable(job[s])
      BY <1>1, <3>1, <3>2 DEF Sign
    <3>5. Offered(o, n, c)
      BY <3>2, <3>3, <3>4 DEF FeeInv
    <3>6. n \in Nat \ {0}
      BY <3>5 DEF Offered
    <3>7. n = Newest(o) + 1
      <4>1. CASE n = 1
        <5>1. resv[o] = "reserved"
          BY <3>2, <3>3, <3>4, <4>1 DEF Signable
        <5>2. Newest(o) = 0
          BY <5>1 DEF QiInv, SignedInv
        <5> QED BY <4>1, <5>2
      <4>2. CASE n # 1
        <5>1. Newest(o) = n - 1
          BY <3>2, <3>3, <3>4, <4>2 DEF Signable
        <5> QED BY <3>6, <5>1
      <4> QED BY <4>1, <4>2
    <3>8. ~Claim(s)
      BY <3>4 DEF Claim
    <3> QED BY <3>1, <3>5, <3>7, <3>8
  <2> QED BY <2>1, <2>2
<1>4. Offered(o, k, c)'
  BY <1>3, OffersStay
<1> QED BY <1>1, <1>4

\* Whatever waits for an approval still pays more than what it replaces, or is new and does.
LEMMA PendingPays ==
  ASSUME QiInv, FeeInv, NEW s \in Sessions, Begin(s) \/ Proceed(s) \/ Crash(s), NEW t \in Sessions,
         NEW p \in pending'[t]
  PROVE  Offered(p.op, p.k, p.review)'
<1>1. CASE p \in pending[t]
  <2>1. p.op \in Ops /\ Offered(p.op, p.k, p.review)
    BY <1>1 DEF FeeInv, QiInv, DeskShape
  <2>2. Claim(s) => job[s].op # p.op
    <3> SUFFICES ASSUME Claim(s), job[s].op = p.op PROVE FALSE
      OBVIOUS
    <3>1. PICK o : o = p.op
      OBVIOUS
    <3>2. \A q \in pending[t] : q.op # o
      BY <2>1, <3>1, NothingOffered
    <3> QED BY <1>1, <3>1, <3>2
  <2> QED BY <2>1, <2>2, OffersStay
<1>2. CASE p \notin pending[t]
  <2>1. t = s
    BY <1>2, StepsGo DEF Alone
  <2>2. p.op \in Ops /\ Offered(p.op, p.k, p.review)
    BY <1>2, <2>1, NewOffer
  <2>3. Journal(s) \/ SpeedUpOffer(s)
    BY <1>2, <2>1, NewReview
  <2>4. ~Claim(s)
    BY <2>3 DEF Journal, SpeedUpOffer, Claim
  <2> QED BY <2>2, <2>4, OffersStay
<1> QED BY <1>1, <1>2

\* So does what is being signed, or was signed and is being journalled.
LEMMA ApprovedPays ==
  ASSUME QiInv, FeeInv, NEW s \in Sessions, Begin(s) \/ Proceed(s) \/ Crash(s), NEW t \in Sessions,
         pc'[t] \in {"c_sign", "c_mark"}
  PROVE  Offered(job[t].op, job[t].k, job[t].review)'
<1>1. PICK o, k, c : o = job'[t].op /\ k = job'[t].k /\ c = job'[t].review
  OBVIOUS
<1>2. o \in Ops /\ Offered(o, k, c) /\ (Claim(s) => job[s].op # o)
  <2>1. CASE t # s
    <3>1. job'[t] = job[t] /\ pc[t] \in {"c_sign", "c_mark"}
      BY <2>1, StepsGo DEF Alone
    <3>2. o \in Ops /\ Offered(o, k, c)
      BY <1>1, <3>1 DEF FeeInv, QiInv, QiLocks
    <3>3. Claim(s) => job[s].op # o
      BY <1>1, <3>1, <3>2, NothingOffered
    <3> QED BY <3>2, <3>3
  <2>2. CASE t = s /\ pc'[s] = "c_sign"
    <3>1. PICK p \in pending[s] : CommitBegin(s, p)
      BY <2>2, ComesTo
    <3>2. job' = [job EXCEPT ![s] = JobOf(p.op, p.k, p.review)] /\ On(job, Sessions) /\ pc[s] = "idle"
      BY <3>1 DEF CommitBegin, QiInv, DeskShape
    <3>3. o = p.op /\ k = p.k /\ c = p.review
      BY <1>1, <2>2, <3>2 DEF On, JobOf
    <3>4. o \in Ops /\ Offered(o, k, c)
      BY <3>3 DEF FeeInv, QiInv, DeskShape
    <3>5. ~Claim(s)
      BY <3>2 DEF Claim
    <3> QED BY <3>4, <3>5
  <2>3. CASE t = s /\ pc'[s] = "c_mark"
    <3>1. Sign(s)
      BY <2>3, ComesTo
    <3>2. job' = job /\ pc[s] = "c_sign"
      BY <3>1 DEF Sign
    <3>3. o \in Ops /\ Offered(o, k, c)
      BY <1>1, <2>3, <3>2 DEF FeeInv, QiInv, QiLocks
    <3>4. ~Claim(s)
      BY <3>2 DEF Claim
    <3> QED BY <3>3, <3>4
  <2> QED BY <2>1, <2>2, <2>3
<1>3. Offered(o, k, c)'
  BY <1>2, OffersStay
<1> QED BY <1>1, <1>3

\* Every step of a session keeps it.
LEMMA FeeSession ==
  ASSUME QiInv, FeeInv, NEW s \in Sessions, Begin(s) \/ Proceed(s) \/ Crash(s)
  PROVE  FeeInv'
<1>1. \A o \in Ops : \A a \in DOMAIN worth'[o] : worth'[o][a] \in Nat \ {0}
  BY WorthStep
<1>2. \A o \in Ops : \A k \in 1..Newest(o)' : Offered(o, k, family[o][k])'
  BY SignedPays
<1>3. \A t \in Sessions : \A p \in pending'[t] : Offered(p.op, p.k, p.review)'
  BY PendingPays
<1>4. \A t \in Sessions : pc'[t] \in {"c_sign", "c_mark"} => Offered(job[t].op, job[t].k, job[t].review)'
  BY ApprovedPays
<1>5. \A o \in Ops : row'[o].fee \in Int
  BY RowFees
<1>6. ASSUME NEW t \in Sessions, pc'[t] = "u_offer" PROVE job'[t].fee \in Int
  <2>1. CASE t # s
    BY <1>6, <2>1, StepsGo DEF Alone, FeeInv
  <2>2. CASE t = s
    <3>1. PICK o \in Ops : SpeedUpBegin(s, o)
      BY <1>6, <2>2, ComesTo
    <3>2. PICK j : j = ReadOf(o)
      OBVIOUS
    <3>3. job' = [job EXCEPT ![s] = j] /\ On(job, Sessions)
      BY <3>1, <3>2 DEF SpeedUpBegin, QiInv, DeskShape
    <3>4. j.fee = row[o].fee
      BY <3>2 DEF ReadOf, JobOf
    <3>5. row[o].fee \in Int
      BY DEF FeeInv
    <3> QED BY <2>2, <3>3, <3>4, <3>5 DEF On
  <2> QED BY <2>1, <2>2
<1> QED BY <1>1, <1>2, <1>3, <1>4, <1>5, <1>6 DEF FeeInv

\* Nothing is offered at first.
LEMMA FeeInitially == Init => FeeInv
<1> SUFFICES ASSUME Init PROVE FeeInv
  OBVIOUS
<1>1. \A o \in Ops : DOMAIN worth[o] = {} /\ Newest(o) = 0 /\ row[o].fee = 0
  BY DEF Init, Newest, NoRow, Row
<1>2. \A s \in Sessions : pending[s] = {} /\ pc[s] = "idle"
  BY DEF Init
<1>3. 1..0 = {}
  OBVIOUS
<1> QED BY <1>1, <1>2, <1>3 DEF FeeInv

\* Every step keeps it.
LEMMA FeeStep == QiInv /\ FeeInv /\ [Next]_vars => FeeInv'
<1> SUFFICES ASSUME QiInv, FeeInv, [Next]_vars PROVE FeeInv'
  OBVIOUS
<1>1. ASSUME UNCHANGED <<worth, family, row, pc, job, pending>> PROVE FeeInv'
  BY <1>1 DEF FeeInv, Offered, PaysMore, FeeOf, Newest
<1>2. ASSUME NEW o \in Ops, NEW k \in sent[o], Mine(o, k) PROVE FeeInv'
  <2>1. UNCHANGED <<worth, family, row, pc, job, pending>>
    BY <1>2 DEF Mine, claims
  <2> QED BY <1>1, <2>1
<1>3. CASE UNCHANGED vars
  BY <1>1, <1>3 DEF vars
<1> QED BY <1>2, <1>3, FeeSession DEF Next

\* tx.rs, fee_increase and kept_change: each signed replacement keeps less of the change than the
\* one before it, and pays at least the bump that was asked or all the change there is; whichever
\* change is worth what, however it is priced, and whatever was signed, tracked or lost in between.
THEOREM BumpsPay == Spec => []BumpPaysWhatItSays
<1>1. QiInv /\ FeeInv => BumpPaysWhatItSays
  <2> SUFFICES ASSUME QiInv, FeeInv, NEW o \in Ops, NEW k \in 2..Newest(o)
               PROVE  PaysMore(o, family[o][k - 1], family[o][k])
    BY DEF BumpPaysWhatItSays, PaysMore
  <2>1. Newest(o) \in Nat
    <3>1. IsSeq(family[o])
      BY DEF QiInv, StoreShape
    <3> QED BY <3>1, GrownSeq DEF Newest
  <2>2. k \in 1..Newest(o) /\ k # 1
    BY <2>1
  <2> QED BY <2>2 DEF FeeInv, Offered
<1>2. Init => QiInv /\ FeeInv
  BY QiInitially, FeeInitially
<1>3. QiInv /\ FeeInv /\ [Next]_vars => (QiInv /\ FeeInv)'
  BY QiStep, FeeStep
<1> QED BY <1>1, <1>2, <1>3, PTL DEF Spec
=============================================================================
