---------------------------- MODULE PlanProofs ----------------------------
(***************************************************************************)
(* TradePlan for every number of clients, stages and operations: one       *)
(* client walks the plan at a time with the stored revision in hand, every *)
(* operation signed for the plan is one its checkpoint lists, at most one  *)
(* is under way, no stage is traded twice, and a cancelled plan stops.     *)
(***************************************************************************)
EXTENDS TradePlan, TLAPS

\* A call on the plan belongs to a client that walks it.
CallInv == \A c \in Clients :
  /\ pc[c] \in {"advanced", "building", "built"} => Walks(c)
  /\ pc[c] = "built" => cur[c] \in Ops

\* What a walker has in hand lists at least what is stored.
CopyInv == \A c \in Clients : Walks(c) => stored.ops \subseteq Copy(c).ops

\* A review that can be signed is listed, or its checkpoint is what happens next.
OpenInv == \A c \in Clients, o \in Ops :
  o \in open[c] /\ journal[o].own /\ journal[o].st = "prepared"
    => o \in stored.ops \/ (pc[c] = "built" /\ cur[c] = o)

WalkInv == TypeOK /\ OneWalker /\ CallInv
ListInv == CopyInv /\ OpenInv /\ SignedIsListed

-----------------------------------------------------------------------------
(* Checkpoints. *)

\* Another status leaves the rest of a plan alone.
LEMMA ToType ==
  ASSUME NEW p \in Plans, NEW st \in PlanState
  PROVE  To(p, st) \in Plans /\ To(p, st).ops = p.ops /\ To(p, st).st = st
BY DEF To, Plan, Plans

\* A runner that has a plan has the stored revision of it.
LEMMA RunnerType ==
  ASSUME NEW phase \in {"preparing", "reviewing", "waiting", "ready"}, NEW o \in Ops \cup {NoOp},
         NEW last \in BOOLEAN, NEW p \in Plans
  PROVE  /\ Runner(phase, o, last, p) \in Runners
         /\ Runner(phase, o, last, p).phase = phase /\ Runner(phase, o, last, p).phase # "none"
         /\ Runner(phase, o, last, p).current /\ Runner(phase, o, last, p).plan = p
BY DEF Runner, Runners

\* No runner, and no plan.
LEMMA NoRunType == NoRun \in Runners /\ NoRun.phase = "none" /\ NoPlan \in Plans /\ NoPlan.ops = {}
BY DEF NoRun, Runners, NoPlan, Plan, Plans

\* What a walker's step leaves: types, and nobody else who walks.
Typed ==
  /\ stored' \in Plans /\ lease' \in Clients \cup {Nobody}
  /\ run' \in [Clients -> Runners] /\ faults' \in Nat
Kept(c) ==
  /\ \A d \in Clients \ {c} : run'[d].phase = "none"
  /\ run'[c].phase = "none" \/ (lease' = c /\ run'[c].current)

\* A checkpoint that is written.
LEMMA SavedKeeps ==
  ASSUME TypeOK, OneWalker, NEW c \in Clients, Walks(c), NEW p \in Plans, NEW r \in Runners, Saved(c, p, r),
         (r.current /\ lease' = lease) \/ (r.phase = "none" /\ Drop(c))
  PROVE  Typed /\ Kept(c) /\ stored' = p /\ run'[c] = r
<1>1. lease = c /\ \A d \in Clients \ {c} : run[d].phase = "none"
  BY DEF OneWalker, Walks
<1>2. \A d \in Clients : [run[d] EXCEPT !.current = FALSE] \in Runners
                        /\ [run[d] EXCEPT !.current = FALSE].phase = run[d].phase
  BY DEF TypeOK, Runners
<1>3. run' \in [Clients -> Runners] /\ run'[c] = r
      /\ \A d \in Clients \ {c} : run'[d].phase = "none"
  BY <1>1, <1>2 DEF Saved
<1>4. stored' = p /\ faults' \in Nat
  BY DEF Saved, TypeOK
<1>5. lease' \in Clients \cup {Nobody}
  BY DEF TypeOK, Drop
<1> QED BY <1>1, <1>3, <1>4, <1>5 DEF Typed, Kept

\* One that is not.
LEMMA UnsavedKeeps ==
  ASSUME TypeOK, OneWalker, NEW c \in Clients, Walks(c), NEW r \in Runners, Unsaved(c, r),
         (r.current /\ lease' = lease) \/ (r.phase = "none" /\ Drop(c))
  PROVE  Typed /\ Kept(c) /\ stored' = stored /\ run'[c] = r
<1>1. lease = c /\ \A d \in Clients \ {c} : run[d].phase = "none"
  BY DEF OneWalker, Walks
<1>2. run' \in [Clients -> Runners] /\ run'[c] = r
      /\ \A d \in Clients \ {c} : run'[d].phase = "none"
  BY <1>1 DEF Unsaved, TypeOK
<1>3. stored' = stored /\ faults' \in Nat
  BY DEF Unsaved, TypeOK
<1>4. lease' \in Clients \cup {Nobody}
  BY DEF TypeOK, Drop
<1> QED BY <1>1, <1>2, <1>3, <1>4 DEF Typed, Kept, TypeOK

\* The runner's last words, written or not.
LEMMA LastWordsKeeps ==
  ASSUME TypeOK, OneWalker, NEW c \in Clients, Walks(c), NEW p \in Plans, LastWords(c, p)
  PROVE  Typed /\ Kept(c) /\ stored' \in {stored, p} /\ run'[c] = NoRun
BY SavedKeeps, UnsavedKeeps, NoRunType DEF LastWords

\* What a refusal leaves of the runner.
LEMMA LeftType ==
  ASSUME TypeOK, NEW c \in Clients, NEW p \in Plans, NEW o \in LastOf(p.ops)
  PROVE  /\ Left(c, p, o) \in Runners
         /\ Stopped(p) => Left(c, p, o).phase = "none"
         /\ ~Stopped(p) => Left(c, p, o).plan = p /\ Left(c, p, o).current = run[c].current
<1>1. o \in Ops \cup {NoOp}
  BY DEF LastOf, Newest, Plans
<1>2. run[c].last \in BOOLEAN /\ run[c].current \in BOOLEAN
  BY DEF TypeOK, Runners
<1> QED BY <1>1, <1>2, NoRunType DEF Left, Runners

\* A refusal whose pause or cancellation could not be written.
LEMMA RefusedUnsavedKeeps ==
  ASSUME TypeOK, OneWalker, NEW c \in Clients, Walks(c), NEW p \in Plans, RefusedUnsaved(c, p)
  PROVE  Typed /\ Kept(c) /\ stored' = stored /\ (run'[c].phase = "none" \/ run'[c].plan = p)
<1>1. PICK o \in LastOf(p.ops) : Unsaved(c, Left(c, p, o))
  BY DEF RefusedUnsaved
<1>2. run[c].current
  BY DEF OneWalker
<1>3. LeaseLeft(c, p)
  BY DEF RefusedUnsaved
<1>4. /\ Left(c, p, o) \in Runners
      /\ Stopped(p) => Left(c, p, o).phase = "none"
      /\ ~Stopped(p) => Left(c, p, o).plan = p /\ Left(c, p, o).current
  BY <1>1, <1>2, LeftType
<1>5. \/ Left(c, p, o).current /\ lease' = lease
      \/ Left(c, p, o).phase = "none" /\ Drop(c)
  <2>1. CASE Stopped(p)
    BY <1>3, <1>4, <2>1 DEF LeaseLeft
  <2>2. CASE ~Stopped(p)
    <3>1. lease' = lease
      BY <1>3, <2>2 DEF LeaseLeft
    <3>2. Left(c, p, o).current
      BY <1>4, <2>2
    <3> QED BY <3>1, <3>2
  <2> QED BY <2>1, <2>2
<1>6. Typed /\ Kept(c) /\ stored' = stored /\ run'[c] = Left(c, p, o)
  BY <1>1, <1>4, <1>5, UnsavedKeeps
<1> QED BY <1>4, <1>6

\* A refusal that leaves the plan as it is.
LEMMA RefusedAsIsKeeps ==
  ASSUME TypeOK, OneWalker, NEW c \in Clients, Walks(c), RefusedAsIs(c)
  PROVE  /\ Typed /\ Kept(c) /\ stored' = stored
         /\ run'[c].phase = "none" \/ run'[c].plan = Copy(c)
<1>0. Copy(c) \in Plans
  BY DEF Copy, TypeOK, Runners
<1>1. PICK o \in LastOf(Copy(c).ops) : run' = [run EXCEPT ![c] = Left(c, Copy(c), o)]
  BY DEF RefusedAsIs
<1>2. run[c].current /\ lease = c /\ \A d \in Clients \ {c} : run[d].phase = "none"
  BY DEF OneWalker, Walks
<1>3. LeaseLeft(c, Copy(c)) /\ stored' = stored /\ faults' = faults
  BY DEF RefusedAsIs
<1>4. /\ Left(c, Copy(c), o) \in Runners
      /\ Stopped(Copy(c)) => Left(c, Copy(c), o).phase = "none"
      /\ ~Stopped(Copy(c)) => Left(c, Copy(c), o).plan = Copy(c) /\ Left(c, Copy(c), o).current
  BY <1>0, <1>1, <1>2, LeftType
<1>5. /\ run' \in [Clients -> Runners] /\ run'[c] = Left(c, Copy(c), o)
      /\ \A d \in Clients \ {c} : run'[d].phase = "none"
  BY <1>1, <1>2, <1>4 DEF TypeOK
<1>6. lease' \in Clients \cup {Nobody} /\ (~Stopped(Copy(c)) => lease' = c)
  BY <1>2, <1>3 DEF LeaseLeft, Drop, TypeOK
<1> QED BY <1>3, <1>4, <1>5, <1>6 DEF Typed, Kept, TypeOK

-----------------------------------------------------------------------------
(* One walker. *)

\* What is left of the types once the walker's part is known.
LEMMA KeptType ==
  ASSUME WalkInv, NEW c \in Clients, Typed, Kept(c),
         journal' \in [Ops -> Journal], open' \in [Clients -> SUBSET Ops],
         NEW place \in {"idle", "advanced", "building", "built", "sent"}, NEW o \in Ops \cup {NoOp},
         Goto(c, place, o) \/ (UNCHANGED <<pc, cur>> /\ pc[c] \in {"idle", "sent"} /\ place = "idle"),
         place \in {"advanced", "building", "built"} => run'[c].phase # "none",
         place = "built" => o \in Ops,
         \A d \in Clients \ {c} : ~Walks(d)
  PROVE  WalkInv'
<1>1. TypeOK'
  BY DEF WalkInv, TypeOK, Typed, Goto
<1>2. OneWalker'
  BY DEF Kept, OneWalker, Walks
<1>3. CallInv'
  BY DEF WalkInv, CallInv, Goto, TypeOK, Walks
<1> QED BY <1>1, <1>2, <1>3 DEF WalkInv

\* Rows of the journal keep their shape.
LEMMA RowTypes ==
  ASSUME TypeOK
  PROVE  /\ \A o \in Ops, st \in Status : Set(o, st) \in [Ops -> Journal]
         /\ \A S : Abandoned(S) \in [Ops -> Journal]
<1>1. \A o \in Ops, st \in Status : [journal[o] EXCEPT !.st = st] \in Journal
  BY DEF TypeOK, Journal
<1>2. "cancelled" \in Status
  BY DEF Status
<1> QED BY <1>1, <1>2 DEF Set, Abandoned, TypeOK

\* Fewer open reviews are open reviews.
LEMMA CloseType == ASSUME TypeOK, NEW c, NEW S, Close(c, S) PROVE open' \in [Clients -> SUBSET Ops]
BY DEF Close, TypeOK

\* A review's row, and a rejected one's when it is used again.
LEMMA ReviewType ==
  ASSUME NEW kind \in {"step", "final"}, NEW stage \in Nat, NEW own \in BOOLEAN, NEW turn \in Nat
  PROVE  Review(kind, stage, own, turn) \in Journal
BY DEF Review, Journal, Status

\* A listed review.
LEMMA ListedType ==
  ASSUME NEW p \in Plans, NEW o \in Ops
  PROVE  Listed(p, o) \in Plans /\ Listed(p, o).ops = p.ops \cup {o}
BY DEF Listed, Plan, Plans

\* Whoever walks is alone.
LEMMA Alone ==
  ASSUME OneWalker, NEW c \in Clients, Walks(c) \/ lease = Nobody
  PROVE  \A d \in Clients \ {c} : ~Walks(d)
BY PlanNames DEF OneWalker

\* A walker's plan is a plan.
LEMMA CopyType == ASSUME TypeOK, NEW c \in Clients PROVE Copy(c) \in Plans
BY DEF Copy, TypeOK, Runners

\* The plan starts under its lease.
LEMMA StartWalk == ASSUME WalkInv, NEW c \in Clients, Start(c) PROVE WalkInv'
<1> DEFINE p == Plan("Review", 0, {}, NoOp)
<1>1. p \in Plans
  BY DEF Plan, Plans, PlanState
<1>2. /\ stored' = p /\ lease' = c /\ run' = [run EXCEPT ![c] = Runner("preparing", NoOp, FALSE, p)]
      /\ UNCHANGED <<journal, pc, cur, open, faults>> /\ pc[c] = "idle" /\ lease = Nobody
  BY DEF Start
<1>3. \A d \in Clients \ {c} : ~Walks(d)
  BY <1>2, Alone DEF WalkInv
<1> HIDE DEF p
<1>4. /\ Runner("preparing", NoOp, FALSE, p) \in Runners
      /\ Runner("preparing", NoOp, FALSE, p).current
  BY <1>1, RunnerType
<1>5. run' \in [Clients -> Runners] /\ run'[c].current /\ \A d \in Clients \ {c} : run'[d].phase = "none"
  BY <1>2, <1>3, <1>4 DEF WalkInv, TypeOK, Walks
<1>6. Typed /\ Kept(c)
  BY <1>1, <1>2, <1>5 DEF Typed, Kept, WalkInv, TypeOK
<1> QED BY <1>2, <1>3, <1>6, KeptType DEF WalkInv, TypeOK

\* What resuming adopts, and what it lets go.
LEMMA ResumeTypes ==
  ASSUME TypeOK, stored # NoPlan, NEW final \in Ops \cup {NoOp}
  PROVE  /\ Adopted(final) \in Plans /\ Adopted(final).ops = stored.ops \cup Unlisted
         /\ \A p \in Plans : /\ Unreviewed(p) \in Plans
                            /\ Unreviewed(p).ops = {o \in p.ops : ~Unsigned(o)}
<1>1. Unlisted \subseteq Ops
  BY DEF Unlisted
<1>2. Adopted(final) \in Plans /\ Adopted(final).ops = stored.ops \cup Unlisted
  BY <1>1 DEF TypeOK, Adopted, Plan, Plans
<1>3. ASSUME NEW p \in Plans
      PROVE  /\ Unreviewed(p) \in Plans /\ Unreviewed(p).ops = {o \in p.ops : ~Unsigned(o)}
  BY DEF Unreviewed, Plan, Plans
<1> QED BY <1>2, <1>3

\* The runner that resumes has the stored revision.
LEMMA ResumedType ==
  ASSUME TypeOK, NEW c \in Clients, NEW p \in Plans, NEW r \in Resumed(c, p)
  PROVE  r \in Runners /\ r.phase # "none" /\ r.current /\ r.plan = p
<1> DEFINE sent == {o \in p.ops : Sent(o)}
<1>1. CASE sent = {}
  <2>1. r = Runner("ready", NoOp, FALSE, p)
    BY <1>1 DEF Resumed
  <2>2. /\ Runner("ready", NoOp, FALSE, p) \in Runners /\ Runner("ready", NoOp, FALSE, p).phase # "none"
        /\ Runner("ready", NoOp, FALSE, p).current /\ Runner("ready", NoOp, FALSE, p).plan = p
    BY DEF Runner, Runners
  <2> QED BY <2>1, <2>2
<1>2. CASE sent # {}
  <2>1. PICK o \in Newest(sent), last \in BOOLEAN : r = Runner("waiting", o, last, p)
    BY <1>2 DEF Resumed
  <2>2. o \in Ops
    BY DEF Newest, Plans
  <2>3. /\ Runner("waiting", o, last, p) \in Runners /\ Runner("waiting", o, last, p).phase # "none"
        /\ Runner("waiting", o, last, p).current /\ Runner("waiting", o, last, p).plan = p
    BY <2>2, RunnerType
  <2> QED BY <2>1, <2>3
<1> QED BY <1>1, <1>2

\* Resuming takes the lease, or nothing.
LEMMA ResumeWalk == ASSUME WalkInv, NEW c \in Clients, NEW d \in BOOLEAN, Resume(c, d) PROVE WalkInv'
<1> USE DEF WalkInv
<1>1. PICK final \in Ops \cup {NoOp} :
        LET p == Adopted(final)
            q == IF d THEN Unreviewed(p) ELSE p
        IN /\ journal' = IF d THEN Abandoned(p.ops) ELSE journal
           /\ IF d THEN Close(c, p.ops) ELSE UNCHANGED open
           /\ \/ /\ stored' = q /\ lease' = c /\ faults' = faults
                 /\ \E r \in Resumed(c, q) :
                      run' = [x \in Clients |-> IF x = c THEN r ELSE [run[x] EXCEPT !.current = FALSE]]
              \/ /\ faults < MaxFaults /\ faults' = faults + 1 /\ q # stored
                 /\ UNCHANGED <<stored, lease, run>>
  BY DEF Resume
<1>2. stored # NoPlan /\ lease = Nobody /\ pc[c] = "idle" /\ UNCHANGED <<pc, cur>>
  BY DEF Resume
<1> DEFINE p == Adopted(final)
           q == IF d THEN Unreviewed(p) ELSE p
<1>3. p \in Plans /\ q \in Plans
  BY <1>2, ResumeTypes
<1>4. \A x \in Clients : ~Walks(x)
  BY <1>2, Alone, PlanNames DEF OneWalker
<1>5. journal' \in [Ops -> Journal] /\ open' \in [Clients -> SUBSET Ops]
  BY <1>1, RowTypes, CloseType DEF TypeOK
<1>6. CASE stored' = q /\ lease' = c /\ faults' = faults /\ \E r \in Resumed(c, q) :
             run' = [x \in Clients |-> IF x = c THEN r ELSE [run[x] EXCEPT !.current = FALSE]]
  <2> HIDE DEF q
  <2>1. PICK r \in Resumed(c, q) :
          run' = [x \in Clients |-> IF x = c THEN r ELSE [run[x] EXCEPT !.current = FALSE]]
    BY <1>6
  <2>2. r \in Runners /\ r.current
    BY <1>3, <2>1, ResumedType
  <2>3. \A x \in Clients : [run[x] EXCEPT !.current = FALSE] \in Runners
                        /\ [run[x] EXCEPT !.current = FALSE].phase = run[x].phase
    BY DEF TypeOK, Runners
  <2>4. run' \in [Clients -> Runners] /\ run'[c].current /\ \A x \in Clients \ {c} : run'[x].phase = "none"
    BY <1>4, <2>1, <2>2, <2>3 DEF Walks
  <2>5. Typed /\ Kept(c)
    BY <1>3, <1>6, <2>4 DEF Typed, Kept, TypeOK
  <2> QED BY <1>2, <1>4, <1>5, <2>5, KeptType DEF TypeOK
<1>7. CASE faults' = faults + 1 /\ UNCHANGED <<stored, lease, run>>
  <2>1. Typed /\ Kept(c)
    BY <1>4, <1>7 DEF Typed, Kept, Walks, TypeOK
  <2> QED BY <1>2, <1>4, <1>5, <2>1, KeptType DEF TypeOK
<1> QED BY <1>1, <1>6, <1>7

\* Steps that touch neither the checkpoint nor the runners.
LEMMA StillWalk ==
  ASSUME WalkInv, UNCHANGED <<stored, lease, run>>, faults' \in Nat,
         journal' \in [Ops -> Journal], open' \in [Clients -> SUBSET Ops],
         UNCHANGED <<pc, cur>>
           \/ \E c \in Clients, place \in {"idle", "sent"}, o \in Ops \cup {NoOp} : Goto(c, place, o)
  PROVE  WalkInv'
<1>1. TypeOK'
  BY DEF WalkInv, TypeOK, Goto
<1>2. OneWalker'
  BY DEF WalkInv, OneWalker, Walks
<1>3. CallInv'
  BY DEF WalkInv, CallInv, Goto, TypeOK, Walks
<1> QED BY <1>1, <1>2, <1>3 DEF WalkInv

\* A walker's call that leaves the checkpoint.
LEMMA StillKeeps ==
  ASSUME TypeOK, OneWalker, NEW c \in Clients, Walks(c), UNCHANGED <<stored, lease, run, faults>>
  PROVE  Typed /\ Kept(c)
BY Alone DEF Typed, Kept, OneWalker, TypeOK, Walks

\* A runner that goes on with the plan it has.
LEMMA PhaseKeeps ==
  ASSUME TypeOK, OneWalker, NEW c \in Clients, Walks(c), UNCHANGED <<stored, lease, faults>>,
         NEW r \in Runners, r.current = run[c].current, run' = [run EXCEPT ![c] = r]
  PROVE  Typed /\ Kept(c)
<1>1. lease = c /\ run[c].current /\ \A d \in Clients \ {c} : run[d].phase = "none"
  BY DEF OneWalker, Walks
<1> QED BY <1>1 DEF Typed, Kept, TypeOK

\* Preparing: the runner decides what comes next.
LEMMA NextWalk ==
  ASSUME WalkInv, NEW c \in Clients,
         NextRefused(c) \/ NextAdvance(c) \/ NextComplete(c) \/ NextReview(c)
  PROVE  WalkInv'
<1> USE DEF WalkInv
<1> DEFINE p == Copy(c)
           q == Plan(p.st, p.stage + 1, p.ops, NoOp)
<1>p. p \in Plans
  BY CopyType
<1>w. Walks(c) /\ pc[c] \in {"idle", "advanced"}
  BY DEF NextRefused, NextAdvance, NextComplete, NextReview, Asks, Walks, CallInv
<1>a. \A d \in Clients \ {c} : ~Walks(d)
  BY <1>w, Alone
<1>j. journal' \in [Ops -> Journal] /\ open' \in [Clients -> SUBSET Ops] /\ NoOp \in Ops \cup {NoOp}
  BY DEF NextRefused, NextAdvance, NextComplete, NextReview, TypeOK
<1>n. NoRun \in Runners /\ NoRun.phase = "none"
  BY NoRunType
<1>t. /\ To(p, "Complete") \in Plans /\ To(p, "Paused") \in Plans /\ To(p, "Review") \in Plans
  BY <1>p, ToType DEF PlanState
<1>q. q \in Plans
  BY <1>p DEF Plan, Plans
<1>r. \A v \in Plans : LET r == [run[c] EXCEPT !.phase = "preparing", !.plan = v] IN
        r \in Runners /\ r.phase = "preparing" /\ (run[c].current => r.current)
  BY DEF TypeOK, Runners
<1>c. run[c].current
  BY <1>w DEF OneWalker
<1>v. \A v \in Plans : LET r == [run[c] EXCEPT !.phase = "preparing", !.plan = v] IN
        Saved(c, v, r) /\ lease' = lease => Typed /\ Kept(c) /\ run'[c].phase = "preparing"
  BY <1>r, <1>c, <1>w, SavedKeeps
<1>x. RefusedAsIs(c) => Typed /\ Kept(c)
  BY <1>w, RefusedAsIsKeeps
<1>y. \A v \in Plans : RefusedUnsaved(c, v) => Typed /\ Kept(c)
  BY <1>w, RefusedUnsavedKeeps
<1>z. \A v \in Plans : Saved(c, v, NoRun) /\ Drop(c) => Typed /\ Kept(c)
  BY <1>w, <1>n, SavedKeeps
<1>u. \A v \in Plans : LastWords(c, v) => Typed /\ Kept(c)
  BY <1>w, LastWordsKeeps
<1> HIDE DEF p, q, WalkInv
<1>idle. ASSUME Typed, Kept(c), UNCHANGED <<pc, cur>>, pc[c] = "idle" PROVE WalkInv'
  BY <1>idle, <1>a, <1>j, KeptType
<1>goto. ASSUME NEW place \in {"idle", "advanced", "building"}, Typed, Kept(c), Goto(c, place, NoOp),
                place # "idle" => run'[c].phase = "preparing"
         PROVE  WalkInv'
  BY <1>goto, <1>a, <1>j, KeptType
<1>1. ASSUME NextRefused(c) PROVE WalkInv'
  BY <1>1, <1>x, <1>idle DEF NextRefused, Asks
<1>2. ASSUME NextAdvance(c) PROVE WalkInv'
  <2>1. \/ /\ Saved(c, q, [run[c] EXCEPT !.phase = "preparing", !.plan = q])
           /\ Goto(c, "advanced", NoOp) /\ lease' = lease
        \/ /\ RefusedUnsaved(c, q) \/ RefusedAsIs(c)
           /\ UNCHANGED <<pc, cur>> /\ pc[c] = "idle"
    BY <1>2 DEF NextAdvance, Asks, p, q
  <2> QED BY <2>1, <1>q, <1>v, <1>x, <1>y, <1>idle, <1>goto
<1>3. ASSUME NextComplete(c) PROVE WalkInv'
  <2>1. /\ (Saved(c, To(p, "Complete"), NoRun) /\ Drop(c)) \/ RefusedUnsaved(c, To(p, "Complete"))
        /\ UNCHANGED <<pc, cur>> /\ pc[c] = "idle"
    BY <1>3 DEF NextComplete, Asks, p
  <2> QED BY <2>1, <1>t, <1>y, <1>z, <1>idle
<1>4. ASSUME NextReview(c) PROVE WalkInv'
  <2>1. \/ LastWords(c, To(p, "Paused")) /\ Goto(c, "idle", NoOp)
        \/ /\ Saved(c, To(p, "Review"), [run[c] EXCEPT !.phase = "preparing", !.plan = To(p, "Review")])
           /\ Goto(c, "building", NoOp) /\ lease' = lease
        \/ RefusedUnsaved(c, To(p, "Review")) /\ Goto(c, "idle", NoOp)
    BY <1>4 DEF NextReview, p
  <2> QED BY <2>1, <1>t, <1>u, <1>v, <1>y, <1>goto
<1> QED BY <1>1, <1>2, <1>3, <1>4

\* Building a review and listing it.
LEMMA BuildWalk ==
  ASSUME WalkInv, NEW c \in Clients,
         (\E kind \in {"step", "final"} : BuildOk(c, kind)) \/ BuildFails(c) \/ Checkpoint(c)
  PROVE  WalkInv'
<1> USE DEF WalkInv
<1>p. Copy(c) \in Plans
  BY CopyType
<1>w. Walks(c)
  BY DEF BuildOk, BuildFails, Checkpoint, CallInv
<1>a. \A d \in Clients \ {c} : ~Walks(d)
  BY <1>w, Alone
<1>1. ASSUME NEW kind \in {"step", "final"}, BuildOk(c, kind) PROVE WalkInv'
  <2>1. PICK o \in Ops : /\ \E turn \in NextTurn :
                             journal' = [journal EXCEPT ![o] = Review(kind, Copy(c).stage, TRUE, turn)]
                         /\ open' = [d \in Clients |-> IF d = c THEN open[d] \cup {o} ELSE open[d] \ {o}]
                         /\ Goto(c, "built", o)
    BY <1>1 DEF BuildOk
  <2>2. Copy(c).stage \in Nat /\ NextTurn \subseteq Nat
    BY <1>p DEF Plans, NextTurn
  <2>3. journal' \in [Ops -> Journal]
    <3>1. PICK turn \in NextTurn :
            journal' = [journal EXCEPT ![o] = Review(kind, Copy(c).stage, TRUE, turn)]
      BY <2>1
    <3>2. Review(kind, Copy(c).stage, TRUE, turn) \in Journal
      BY <2>2, ReviewType
    <3> QED BY <3>1, <3>2 DEF TypeOK
  <2>4. open' \in [Clients -> SUBSET Ops]
    BY <2>1 DEF TypeOK
  <2>5. Typed /\ Kept(c) /\ run' = run
    BY <1>1, <1>w, StillKeeps DEF BuildOk
  <2> QED BY <1>a, <1>w, <2>1, <2>3, <2>4, <2>5, KeptType DEF Walks
<1>2. ASSUME BuildFails(c) PROVE WalkInv'
  <2>1. PICK st \in {"Cancelled", "Paused"} : LastWords(c, To(Copy(c), st))
    BY <1>2 DEF BuildFails
  <2>2. Typed /\ Kept(c)
    BY <1>p, <1>w, <2>1, ToType, LastWordsKeeps DEF PlanState
  <2>3. journal' \in [Ops -> Journal] /\ open' \in [Clients -> SUBSET Ops] /\ Goto(c, "idle", NoOp)
    BY <1>2 DEF BuildFails, TypeOK
  <2> QED BY <1>a, <2>2, <2>3, KeptType
<1>3. ASSUME Checkpoint(c) PROVE WalkInv'
  <2>1. PICK o : o = cur[c]
    OBVIOUS
  <2> DEFINE p == Listed(Copy(c), o)
  <2>2. o \in Ops /\ p \in Plans
    BY <1>3, <1>p, <2>1, ListedType DEF Checkpoint, CallInv
  <2>3. run[c].last \in BOOLEAN /\ run[c].current
    BY <1>w DEF TypeOK, Runners, OneWalker
  <2>4. /\ Goto(c, "idle", NoOp)
        /\ \/ /\ Saved(c, p, Runner("reviewing", o, run[c].last, p))
              /\ UNCHANGED <<journal, open, lease>>
           \/ RefusedUnsaved(c, p) /\ journal' = Set(o, "cancelled") /\ Close(c, {o})
    BY <1>3, <2>1 DEF Checkpoint
  <2> HIDE DEF p
  <2>5. Runner("reviewing", o, run[c].last, p) \in Runners /\ Runner("reviewing", o, run[c].last, p).current
    BY <2>2, <2>3 DEF Runner, Runners
  <2>6. Typed /\ Kept(c)
    BY <1>w, <2>2, <2>4, <2>5, SavedKeeps, RefusedUnsavedKeeps
  <2>7. journal' \in [Ops -> Journal] /\ open' \in [Clients -> SUBSET Ops]
    BY <2>2, <2>4, RowTypes, CloseType DEF TypeOK, Status
  <2> QED BY <1>a, <2>4, <2>6, <2>7, KeptType
<1> QED BY <1>1, <1>2, <1>3

\* The user's answer, and the step that is waited on.
LEMMA AnswerWalk ==
  ASSUME WalkInv, NEW c \in Clients,
         Answered(c) \/ AnswerLost(c) \/ AnsweredAlone(c) \/ PollIn(c) \/ PollOut(c) \/ GiveUp(c)
  PROVE  WalkInv'
<1> USE DEF WalkInv
<1>p. Copy(c) \in Plans /\ To(Copy(c), "Waiting") \in Plans /\ To(Copy(c), "Paused") \in Plans
  BY CopyType, ToType DEF PlanState
<1>j. journal' \in [Ops -> Journal] /\ open' \in [Clients -> SUBSET Ops] /\ NoOp \in Ops \cup {NoOp}
  BY DEF Answered, AnswerLost, AnsweredAlone, PollIn, PollOut, GiveUp, TypeOK
<1>r. run[c] \in Runners /\ run[c].current \in BOOLEAN
  BY DEF TypeOK, Runners
<1>1. ASSUME Answered(c) PROVE WalkInv'
  <2>1. PICK o \in Ops \cup {NoOp}, last \in BOOLEAN :
          o = cur[c] /\ last = (journal[o].kind = "final" /\ Copy(c).stage = LastStage)
    BY DEF TypeOK
  <2> DEFINE p == To(Copy(c), "Waiting")
             r == Runner("waiting", o, last, p)
             w == [run[c] EXCEPT !.plan = p]
  <2>2. /\ Walks(c) /\ Goto(c, "idle", NoOp) /\ pc[c] = "sent"
    BY <1>1 DEF Answered, Reviews, Walks
  <2>3. \/ Saved(c, p, r) /\ lease' = lease
        \/ (Saved(c, p, NoRun) \/ Unsaved(c, NoRun)) /\ Drop(c)
        \/ Unsaved(c, w) /\ lease' = lease
    BY <1>1, <2>1 DEF Answered
  <2>4. r \in Runners /\ r.current
    BY <1>p, <2>1 DEF Runner, Runners
  <2>5. w \in Runners /\ w.current
    BY <1>p, <1>r, <2>2 DEF Runners, OneWalker
  <2> HIDE DEF p, r, w
  <2>6. Typed /\ Kept(c)
    BY <1>p, <2>2, <2>3, <2>4, <2>5, NoRunType, SavedKeeps, UnsavedKeeps DEF p
  <2> QED BY <1>j, <2>2, <2>6, Alone, KeptType
<1>2. ASSUME AnswerLost(c) PROVE WalkInv'
  <2>1. Walks(c) /\ Goto(c, "idle", NoOp)
    BY <1>2 DEF AnswerLost, Reviews, Walks
  <2>2. CASE LastWords(c, To(Copy(c), "Paused"))
    BY <1>j, <1>p, <2>1, <2>2, LastWordsKeeps, Alone, KeptType
  <2>3. CASE run' = [run EXCEPT ![c].phase = "waiting"] /\ UNCHANGED <<stored, lease, faults>>
    <3>1. [run[c] EXCEPT !.phase = "waiting"] \in Runners
          /\ [run[c] EXCEPT !.phase = "waiting"].current = run[c].current
      BY <1>r DEF Runners
    <3>2. Typed /\ Kept(c)
      BY <2>1, <2>3, <3>1, PhaseKeeps
    <3> QED BY <1>j, <2>1, <3>2, Alone, KeptType
  <2> QED BY <1>2, <2>2, <2>3 DEF AnswerLost
<1>3. ASSUME AnsweredAlone(c) PROVE WalkInv'
  BY <1>3, <1>j, StillWalk DEF AnsweredAlone, TypeOK
<1>4. ASSUME PollIn(c) PROVE WalkInv'
  <2>1. [run[c] EXCEPT !.phase = "ready"] \in Runners
        /\ [run[c] EXCEPT !.phase = "ready"].current = run[c].current
    BY <1>r DEF Runners
  <2>2. Walks(c) /\ pc[c] = "idle" /\ UNCHANGED <<pc, cur>>
    BY <1>4 DEF PollIn, Walks
  <2>3. Typed /\ Kept(c)
    BY <1>4, <2>1, <2>2, PhaseKeeps DEF PollIn
  <2> QED BY <1>j, <2>2, <2>3, Alone, KeptType
<1>5. ASSUME PollOut(c) \/ GiveUp(c) PROVE WalkInv'
  <2>1. Walks(c) /\ pc[c] = "idle" /\ UNCHANGED <<pc, cur>> /\ LastWords(c, To(Copy(c), "Paused"))
    BY <1>5 DEF PollOut, GiveUp, Walks
  <2> QED BY <1>j, <1>p, <2>1, LastWordsKeeps, Alone, KeptType
<1> QED BY <1>1, <1>2, <1>3, <1>4, <1>5

\* What the user asks: to sign, to reject, to cancel, to lock.
LEMMA AskWalk ==
  ASSUME WalkInv, NEW c \in Clients,
         Cancel(c) \/ Lock(c) \/ \E o \in Ops : Sign(c, o) \/ SignRefused(c, o) \/ Reject(c, o)
  PROVE  WalkInv'
<1> USE DEF WalkInv
<1>p. \A st \in PlanState : To(Copy(c), st) \in Plans
  BY CopyType, ToType
<1>s. "Paused" \in PlanState /\ "Cancelled" \in PlanState /\ "signed" \in Status /\ "cancelled" \in Status
  BY DEF PlanState, Status
<1>1. ASSUME Cancel(c) PROVE WalkInv'
  <2>1. /\ Walks(c) /\ pc[c] = "idle" /\ UNCHANGED <<pc, cur>> /\ LastWords(c, To(Copy(c), "Cancelled"))
        /\ journal' = Abandoned(Copy(c).ops) /\ Close(c, Copy(c).ops)
    BY <1>1 DEF Cancel
  <2>2. journal' \in [Ops -> Journal] /\ open' \in [Clients -> SUBSET Ops]
    BY <2>1, RowTypes, CloseType
  <2> QED BY <1>p, <1>s, <2>1, <2>2, LastWordsKeeps, Alone, KeptType
<1>2. ASSUME Lock(c) PROVE WalkInv'
  <2>1. journal' \in [Ops -> Journal] /\ open' \in [Clients -> SUBSET Ops]
    BY <1>2, RowTypes DEF Lock, TypeOK
  <2>2. CASE run' = run
    BY <1>2, <2>1, <2>2, StillWalk DEF Lock, TypeOK
  <2>3. CASE run' # run
    <3>1. Walks(c) /\ pc[c] = "idle" /\ UNCHANGED <<stored, lease, pc, cur, faults>>
          /\ run' = [run EXCEPT ![c].phase = "ready", ![c].on = NoOp]
      BY <1>2, <2>3 DEF Lock, Walks
    <3> DEFINE r == [run[c] EXCEPT !.phase = "ready", !.on = NoOp]
    <3>2. run[c] \in Runners /\ run \in [Clients -> Runners]
      BY DEF TypeOK
    <3>3. r \in Runners /\ r.current = run[c].current
      BY <3>2 DEF Runners
    <3>4. run' = [run EXCEPT ![c] = r]
      <4>1. \A d \in Clients \ {c} : run'[d] = run[d]
        BY <3>1, <3>2
      <4>2. run'[c] = r
        BY <3>1, <3>2
      <4> QED BY <3>1, <3>2, <4>1, <4>2
    <3> HIDE DEF r
    <3>5. Typed /\ Kept(c)
      BY <3>1, <3>3, <3>4, PhaseKeeps
    <3> QED BY <2>1, <3>1, <3>5, Alone, KeptType
  <2> QED BY <2>2, <2>3
<1>3. ASSUME NEW o \in Ops, Sign(c, o) PROVE WalkInv'
  <2>1. journal' \in [Ops -> Journal] /\ open' \in [Clients -> SUBSET Ops]
    BY <1>3, <1>s, RowTypes, CloseType DEF Sign
  <2> QED BY <1>3, <2>1, StillWalk DEF Sign, TypeOK
<1>4. ASSUME NEW o \in Ops, SignRefused(c, o) \/ Reject(c, o) PROVE WalkInv'
  <2>1. journal' \in [Ops -> Journal] /\ open' \in [Clients -> SUBSET Ops]
    BY <1>4, <1>s, RowTypes, CloseType DEF SignRefused, Reject, TypeOK
  <2>2. pc[c] = "idle" /\ UNCHANGED <<pc, cur>>
    BY <1>4 DEF SignRefused, Reject
  <2>3. CASE Reviews(c, o)
    <3>1. Walks(c) /\ LastWords(c, To(Copy(c), "Paused"))
      BY <1>4, <2>3 DEF SignRefused, Reject, Reviews, Walks
    <3> QED BY <1>p, <1>s, <2>1, <2>2, <3>1, LastWordsKeeps, Alone, KeptType
  <2>4. CASE ~Reviews(c, o)
    BY <1>4, <2>1, <2>2, <2>4, StillWalk DEF SignRefused, Reject, TypeOK
  <2> QED BY <2>3, <2>4
<1> QED BY <1>1, <1>2, <1>3, <1>4

\* A client that turns away, or dies.
LEMMA DropWalk == ASSUME WalkInv, NEW c \in Clients, Switch(c) \/ Crash(c) PROVE WalkInv'
<1> USE DEF WalkInv
<1>1. /\ run' = [run EXCEPT ![c] = NoRun] /\ Drop(c) /\ UNCHANGED <<stored, faults>>
      /\ \A d \in Clients : pc'[d] = "idle" \/ (d # c /\ pc'[d] = pc[d] /\ cur'[d] = cur[d])
  BY DEF Switch, Crash, Goto, TypeOK
<1>2. journal' \in [Ops -> Journal] /\ open' \in [Clients -> SUBSET Ops]
  BY RowTypes DEF Switch, Crash, TypeOK
<1>3. pc' \in [Clients -> {"idle", "advanced", "building", "built", "sent"}]
      /\ cur' \in [Clients -> Ops \cup {NoOp}]
  BY DEF Switch, Crash, Goto, TypeOK
<1>4. TypeOK'
  BY <1>1, <1>2, <1>3, NoRunType DEF TypeOK, Drop
<1>5. OneWalker'
  BY <1>1, NoRunType DEF OneWalker, Walks, Drop, TypeOK
<1>6. CallInv'
  BY <1>1 DEF CallInv, Walks, TypeOK
<1> QED BY <1>4, <1>5, <1>6

\* The chain, `tx abandon`, and other spends of the account.
LEMMA ChainWalk == ASSUME WalkInv, Chain PROVE WalkInv'
<1> USE DEF WalkInv
<1>1. PICK o \in Ops :
        \/ Included(o, "confirmed") \/ Included(o, "failed") \/ Receipt(o) \/ Undone(o) \/ Abandon(o)
        \/ OtherSigned(o) \/ \E kind \in {"step", "final"} : Reuse(o, kind)
  BY DEF Chain
<1>2. /\ UNCHANGED <<stored, lease, run, pc, cur>> /\ faults' \in Nat
      /\ open' \in [Clients -> SUBSET Ops]
  <2>1. /\ UNCHANGED <<stored, lease, run, pc, cur>> /\ faults' \in {faults, faults + 1}
        /\ open' = open \/ open' = [c \in Clients |-> open[c] \ {o}]
    BY <1>1 DEF Included, Receipt, Undone, Abandon, OtherSigned, Reuse
  <2> QED BY <2>1 DEF TypeOK
<1>o. journal[o] \in Journal /\ journal \in [Ops -> Journal]
  BY DEF TypeOK
<1>3. journal' \in [Ops -> Journal]
  <2>1. ASSUME NEW st \in {"confirmed", "failed"}, Included(o, st) PROVE journal' \in [Ops -> Journal]
    <3>1. [journal[o] EXCEPT !.st = st, !.was = journal[o].was \/ st = "confirmed", !.paid = FALSE] \in Journal
      BY <1>o DEF Journal, Status
    <3> QED BY <1>o, <2>1, <3>1 DEF Included
  <2>2. CASE Receipt(o)
    <3>1. [journal[o] EXCEPT !.paid = TRUE] \in Journal
      BY <1>o DEF Journal
    <3> QED BY <1>o, <2>2, <3>1 DEF Receipt
  <2>3. CASE Undone(o)
    <3>1. [journal[o] EXCEPT !.st = "signed", !.paid = FALSE] \in Journal
      BY <1>o DEF Journal, Status
    <3> QED BY <1>o, <2>3, <3>1 DEF Undone
  <2>4. CASE Abandon(o) \/ OtherSigned(o)
    BY <2>4, RowTypes DEF Abandon, OtherSigned, Status
  <2>5. ASSUME NEW kind \in {"step", "final"}, Reuse(o, kind) PROVE journal' \in [Ops -> Journal]
    <3>1. Review(kind, 0, FALSE, journal[o].turn) \in Journal
      BY <1>o, ReviewType DEF Journal
    <3> QED BY <1>o, <2>5, <3>1 DEF Reuse
  <2> QED BY <1>1, <2>1, <2>2, <2>3, <2>4, <2>5
<1> QED BY <1>2, <1>3, StillWalk

\* Every step keeps the types, and one walker.
THEOREM WalkStep == WalkInv /\ [Next]_vars => WalkInv'
<1> SUFFICES ASSUME WalkInv, [Next]_vars PROVE WalkInv'
  OBVIOUS
<1>1. ASSUME NEW c \in Clients, Walk(c) PROVE WalkInv'
  BY <1>1, NextWalk, BuildWalk, AnswerWalk DEF Walk
<1>2. ASSUME NEW c \in Clients, Ask(c) PROVE WalkInv'
  BY <1>2, StartWalk, ResumeWalk, AnswerWalk, AskWalk, DropWalk DEF Ask
<1>3. CASE UNCHANGED vars
  BY <1>3, StillWalk DEF vars, WalkInv, TypeOK
<1> QED BY <1>1, <1>2, <1>3, ChainWalk DEF Next

-----------------------------------------------------------------------------
(* What is listed. *)

\* Rows and reviews that only go on or go away.
CalmRows ==
  /\ \A o \in Ops : journal'[o].own /\ journal'[o].st \in {"signed", "confirmed", "failed"} =>
       journal[o].own /\ Sent(o)
  /\ \A o \in Ops : journal'[o].own /\ journal'[o].st = "prepared" =>
       journal[o].own /\ journal[o].st = "prepared"
  /\ \A c \in Clients : open'[c] \subseteq open[c]
\* A checkpoint that lists what the last one did, and a runner that knows it.
Lists(c) ==
  /\ stored.ops \subseteq stored'.ops
  /\ run'[c].phase = "none" \/ stored'.ops \subseteq run'[c].plan.ops

\* A walker's step with both keeps every signed operation listed.
LEMMA CalmList ==
  ASSUME WalkInv, ListInv, NEW c \in Clients, Kept(c), Lists(c), CalmRows,
         UNCHANGED <<pc, cur>>
           \/ (pc[c] # "built" /\ \A d \in Clients \ {c} : pc'[d] = pc[d] /\ cur'[d] = cur[d])
  PROVE  ListInv'
<1> USE DEF ListInv
<1>1. CopyInv'
  BY DEF CopyInv, Kept, Lists, Walks, Copy
<1>2. OpenInv'
  <2> SUFFICES ASSUME NEW d \in Clients, NEW o \in Ops, o \in open'[d], journal'[o].own,
                      journal'[o].st = "prepared"
               PROVE  o \in stored'.ops \/ (pc'[d] = "built" /\ cur'[d] = o)
    BY DEF OpenInv
  <2> QED BY DEF OpenInv, CalmRows, Lists
<1>3. SignedIsListed'
  <2> SUFFICES ASSUME NEW o \in Ops, journal'[o].own, journal'[o].st \in {"signed", "confirmed", "failed"}
               PROVE  o \in stored'.ops
    BY DEF SignedIsListed, Sent
  <2> QED BY DEF SignedIsListed, CalmRows, Lists
<1> QED BY <1>1, <1>2, <1>3

\* The same when no checkpoint or runner changes.
LEMMA StillList ==
  ASSUME WalkInv, ListInv, UNCHANGED <<stored, run>>, CalmRows,
         \A d \in Clients : pc[d] = "built" => pc'[d] = "built" /\ cur'[d] = cur[d]
  PROVE  ListInv'
<1> USE DEF ListInv
<1>1. CopyInv'
  BY DEF CopyInv, Walks, Copy
<1>2. OpenInv'
  <2> SUFFICES ASSUME NEW d \in Clients, NEW o \in Ops, o \in open'[d], journal'[o].own,
                      journal'[o].st = "prepared"
               PROVE  o \in stored'.ops \/ (pc'[d] = "built" /\ cur'[d] = o)
    BY DEF OpenInv
  <2> QED BY DEF OpenInv, CalmRows
<1>3. SignedIsListed'
  <2> SUFFICES ASSUME NEW o \in Ops, journal'[o].own, journal'[o].st \in {"signed", "confirmed", "failed"}
               PROVE  o \in stored'.ops
    BY DEF SignedIsListed, Sent
  <2> QED BY DEF SignedIsListed, CalmRows
<1> QED BY <1>1, <1>2, <1>3

\* Rows that are let go, and rows that nobody touches, are calm.
LEMMA LetGo ==
  ASSUME TypeOK
  PROVE  /\ \A S : journal' = Abandoned(S) /\ (\A c \in Clients : open'[c] \subseteq open[c]) => CalmRows
         /\ \A o \in Ops : journal' = Set(o, "cancelled") /\ (\A c \in Clients : open'[c] \subseteq open[c])
              => CalmRows /\ journal'[o].st = "cancelled"
         /\ journal' = journal /\ (\A c \in Clients : open'[c] \subseteq open[c]) => CalmRows
<1>o. journal \in [Ops -> Journal]
  BY DEF TypeOK
<1>1. ASSUME NEW S, journal' = Abandoned(S), \A c \in Clients : open'[c] \subseteq open[c] PROVE CalmRows
  <2>1. \A o \in Ops : journal'[o] = journal[o] \/ journal'[o].st = "cancelled"
    BY <1>o, <1>1 DEF Abandoned, Journal
  <2> QED BY <1>1, <2>1 DEF CalmRows, Sent
<1>2. ASSUME NEW o \in Ops, journal' = Set(o, "cancelled"), \A c \in Clients : open'[c] \subseteq open[c]
      PROVE  CalmRows /\ journal'[o].st = "cancelled"
  <2>1. \A x \in Ops : journal'[x] = journal[x] \/ journal'[x].st = "cancelled"
    BY <1>o, <1>2 DEF Set, Journal
  <2>2. journal'[o].st = "cancelled"
    BY <1>o, <1>2 DEF Set, Journal
  <2> QED BY <1>2, <2>1, <2>2 DEF CalmRows, Sent
<1>3. journal' = journal /\ (\A c \in Clients : open'[c] \subseteq open[c]) => CalmRows
  BY DEF CalmRows, Sent
<1> QED BY <1>1, <1>2, <1>3

\* Closing reviews opens none.
LEMMA Closed == ASSUME TypeOK, NEW x, NEW S, Close(x, S) PROVE \A c \in Clients : open'[c] \subseteq open[c]
BY DEF Close, TypeOK

\* Each way a checkpoint is written, or not, lists what was listed.
LEMMA ListedBy ==
  ASSUME WalkInv, ListInv, NEW c \in Clients, Walks(c), NEW p \in Plans, Copy(c).ops \subseteq p.ops
  PROVE  /\ \A r \in Runners : /\ Saved(c, p, r) \/ Unsaved(c, r)
                               /\ (r.current /\ lease' = lease) \/ (r.phase = "none" /\ Drop(c))
                               /\ r.phase = "none" \/ r.plan = p
              => Kept(c) /\ Lists(c)
         /\ Saved(c, p, NoRun) /\ Drop(c) => Kept(c) /\ Lists(c)
         /\ LastWords(c, p) => Kept(c) /\ Lists(c)
         /\ RefusedUnsaved(c, p) => Kept(c) /\ Lists(c)
         /\ RefusedAsIs(c) => Kept(c) /\ Lists(c)
<1> USE DEF WalkInv
<1>1. stored.ops \subseteq Copy(c).ops
  BY DEF ListInv, CopyInv
<1>2. ASSUME NEW r \in Runners, Saved(c, p, r) \/ Unsaved(c, r),
             (r.current /\ lease' = lease) \/ (r.phase = "none" /\ Drop(c)),
             r.phase = "none" \/ r.plan = p
      PROVE  Kept(c) /\ Lists(c)
  <2>1. Kept(c) /\ (stored' = p \/ stored' = stored) /\ run'[c] = r
    BY <1>2, SavedKeeps, UnsavedKeeps
  <2> QED BY <1>1, <1>2, <2>1 DEF Lists
<1>3. ASSUME Saved(c, p, NoRun), Drop(c) PROVE Kept(c) /\ Lists(c)
  BY <1>2, <1>3, NoRunType
<1>4. ASSUME LastWords(c, p) PROVE Kept(c) /\ Lists(c)
  <2>1. Kept(c) /\ (stored' = p \/ stored' = stored) /\ run'[c] = NoRun
    BY <1>4, LastWordsKeeps
  <2> QED BY <1>1, <2>1, NoRunType DEF Lists
<1>5. ASSUME RefusedUnsaved(c, p) PROVE Kept(c) /\ Lists(c)
  <2>1. Kept(c) /\ stored' = stored /\ (run'[c].phase = "none" \/ run'[c].plan = p)
    BY <1>5, RefusedUnsavedKeeps
  <2> QED BY <1>1, <2>1 DEF Lists
<1>6. ASSUME RefusedAsIs(c) PROVE Kept(c) /\ Lists(c)
  <2>1. Kept(c) /\ stored' = stored /\ (run'[c].phase = "none" \/ run'[c].plan = Copy(c))
    BY <1>6, RefusedAsIsKeeps
  <2> QED BY <1>1, <2>1 DEF Lists
<1> QED BY <1>2, <1>3, <1>4, <1>5, <1>6

\* A call that writes, or fails to write, the checkpoint, and touches no row.
LEMMA QuietList ==
  ASSUME WalkInv, ListInv, NEW c \in Clients, Kept(c), Lists(c), UNCHANGED <<journal, open>>,
         UNCHANGED <<pc, cur>> \/ (pc[c] # "built" /\ \E place, o : Goto(c, place, o))
  PROVE  ListInv'
<1>1. CalmRows
  BY LetGo DEF WalkInv
<1>2. \/ UNCHANGED <<pc, cur>>
      \/ pc[c] # "built" /\ \A d \in Clients \ {c} : pc'[d] = pc[d] /\ cur'[d] = cur[d]
  BY DEF Goto, WalkInv, TypeOK
<1> QED BY <1>1, <1>2, CalmList

\* A runner that goes on with the plan it has, when nothing is written.
LEMMA SamePlanLists ==
  ASSUME WalkInv, ListInv, NEW c \in Clients, Walks(c), UNCHANGED <<stored, lease, faults>>,
         NEW r \in Runners, r.current = run[c].current, r.plan = run[c].plan, run' = [run EXCEPT ![c] = r]
  PROVE  Kept(c) /\ Lists(c)
<1>1. Kept(c) /\ run'[c] = r
  BY PhaseKeeps DEF WalkInv, TypeOK
<1> QED BY <1>1 DEF Lists, ListInv, CopyInv, Copy

\* Preparing lists what was listed.
LEMMA NextList ==
  ASSUME WalkInv, ListInv, NEW c \in Clients,
         NextRefused(c) \/ NextAdvance(c) \/ NextComplete(c) \/ NextReview(c)
  PROVE  ListInv'
<1> DEFINE p == Copy(c)
           q == Plan(p.st, p.stage + 1, p.ops, NoOp)
<1>p. p \in Plans
  BY CopyType DEF WalkInv
<1>w. Walks(c) /\ pc[c] \in {"idle", "advanced"}
  BY DEF NextRefused, NextAdvance, NextComplete, NextReview, Asks, Walks, CallInv, WalkInv
<1>j. UNCHANGED <<journal, open>>
  BY DEF NextRefused, NextAdvance, NextComplete, NextReview
<1>t. \A st \in {"Complete", "Paused", "Review"} : To(p, st) \in Plans /\ To(p, st).ops = p.ops
  BY <1>p, ToType DEF PlanState
<1>q. q \in Plans /\ q.ops = p.ops
  BY <1>p DEF Plan, Plans
<1>r. \A v \in Plans : LET r == [run[c] EXCEPT !.phase = "preparing", !.plan = v] IN
        r \in Runners /\ r.plan = v /\ r.current = run[c].current
  BY DEF WalkInv, TypeOK, Runners
<1>c. run[c].current
  BY <1>w DEF OneWalker, WalkInv
<1> HIDE DEF p, q
<1>v. \A v \in Plans : v.ops = p.ops =>
        LET r == [run[c] EXCEPT !.phase = "preparing", !.plan = v] IN
        Saved(c, v, r) /\ lease' = lease => Kept(c) /\ Lists(c)
  BY <1>r, <1>c, <1>w, ListedBy DEF p
<1>x. RefusedAsIs(c) => Kept(c) /\ Lists(c)
  BY <1>w, <1>p, ListedBy DEF p
<1>y. \A v \in Plans : v.ops = p.ops /\ RefusedUnsaved(c, v) => Kept(c) /\ Lists(c)
  BY <1>w, ListedBy DEF p
<1>z. \A v \in Plans : v.ops = p.ops /\ Saved(c, v, NoRun) /\ Drop(c) => Kept(c) /\ Lists(c)
  BY <1>w, ListedBy DEF p
<1>u. \A v \in Plans : v.ops = p.ops /\ LastWords(c, v) => Kept(c) /\ Lists(c)
  BY <1>w, ListedBy DEF p
<1>k. Kept(c) /\ Lists(c)
  <2>1. CASE NextRefused(c)
    BY <2>1, <1>x DEF NextRefused
  <2>2. CASE NextAdvance(c)
    <3>1. \/ Saved(c, q, [run[c] EXCEPT !.phase = "preparing", !.plan = q]) /\ lease' = lease
          \/ RefusedUnsaved(c, q)
          \/ RefusedAsIs(c)
      BY <2>2 DEF NextAdvance, p, q
    <3> QED BY <3>1, <1>q, <1>v, <1>x, <1>y
  <2>3. CASE NextComplete(c)
    <3>1. (Saved(c, To(p, "Complete"), NoRun) /\ Drop(c)) \/ RefusedUnsaved(c, To(p, "Complete"))
      BY <2>3 DEF NextComplete, p
    <3> QED BY <3>1, <1>t, <1>y, <1>z
  <2>4. CASE NextReview(c)
    <3>1. \/ LastWords(c, To(p, "Paused"))
          \/ /\ Saved(c, To(p, "Review"), [run[c] EXCEPT !.phase = "preparing", !.plan = To(p, "Review")])
             /\ lease' = lease
          \/ RefusedUnsaved(c, To(p, "Review"))
      BY <2>4 DEF NextReview, p
    <3> QED BY <3>1, <1>t, <1>u, <1>v, <1>y
  <2> QED BY <2>1, <2>2, <2>3, <2>4
<1>g. UNCHANGED <<pc, cur>> \/ (pc[c] # "built" /\ \E place, o : Goto(c, place, o))
  BY <1>w DEF NextRefused, NextAdvance, NextComplete, NextReview
<1> QED BY <1>j, <1>k, <1>g, QuietList

\* A review is in the journal before it is listed, and listed before it is signed.
LEMMA BuildList ==
  ASSUME WalkInv, ListInv, NEW c \in Clients,
         (\E kind \in {"step", "final"} : BuildOk(c, kind)) \/ BuildFails(c) \/ Checkpoint(c)
  PROVE  ListInv'
<1>p. Copy(c) \in Plans
  BY CopyType DEF WalkInv
<1>w. Walks(c)
  BY DEF BuildOk, BuildFails, Checkpoint, CallInv, WalkInv
<1>a. \A d \in Clients \ {c} : ~Walks(d)
  BY <1>w, Alone DEF WalkInv
<1>s. stored.ops \subseteq Copy(c).ops
  BY <1>w DEF ListInv, CopyInv
<1>t. journal \in [Ops -> Journal] /\ pc \in [Clients -> {"idle", "advanced", "building", "built", "sent"}]
      /\ cur \in [Clients -> Ops \cup {NoOp}] /\ open \in [Clients -> SUBSET Ops]
  BY DEF WalkInv, TypeOK
<1>1. ASSUME NEW kind \in {"step", "final"}, BuildOk(c, kind) PROVE ListInv'
  <2>1. PICK o \in Ops, turn \in NextTurn :
          /\ journal' = [journal EXCEPT ![o] = Review(kind, Copy(c).stage, TRUE, turn)]
          /\ open' = [d \in Clients |-> IF d = c THEN open[d] \cup {o} ELSE open[d] \ {o}]
          /\ Goto(c, "built", o)
    BY <1>1 DEF BuildOk
  <2>2. pc[c] = "building" /\ UNCHANGED <<stored, run>>
    BY <1>1 DEF BuildOk
  <2>3. journal'[o].st = "prepared" /\ \A x \in Ops \ {o} : journal'[x] = journal[x]
    BY <1>t, <2>1 DEF Review
  <2>4. /\ pc'[c] = "built" /\ cur'[c] = o
        /\ \A d \in Clients \ {c} : pc'[d] = pc[d] /\ cur'[d] = cur[d]
    BY <1>t, <2>1 DEF Goto
  <2>5. CopyInv'
    BY <2>2 DEF ListInv, CopyInv, Walks, Copy
  <2>6. OpenInv'
    <3> SUFFICES ASSUME NEW d \in Clients, NEW x \in Ops, x \in open'[d], journal'[x].own,
                        journal'[x].st = "prepared"
                 PROVE  x \in stored'.ops \/ (pc'[d] = "built" /\ cur'[d] = x)
      BY DEF OpenInv
    <3>1. CASE x = o
      BY <2>1, <2>4, <3>1
    <3>2. CASE x # o
      BY <2>1, <2>2, <2>3, <2>4, <3>2 DEF ListInv, OpenInv
    <3> QED BY <3>1, <3>2
  <2>7. SignedIsListed'
    <3> SUFFICES ASSUME NEW x \in Ops, journal'[x].own, journal'[x].st \in {"signed", "confirmed", "failed"}
                 PROVE  x \in stored'.ops
      BY DEF SignedIsListed, Sent
    <3> QED BY <2>2, <2>3 DEF ListInv, SignedIsListed, Sent
  <2> QED BY <2>5, <2>6, <2>7 DEF ListInv
<1>2. ASSUME BuildFails(c) PROVE ListInv'
  <2>1. PICK st \in {"Cancelled", "Paused"} : LastWords(c, To(Copy(c), st))
    BY <1>2 DEF BuildFails
  <2>2. To(Copy(c), st) \in Plans /\ To(Copy(c), st).ops = Copy(c).ops
    BY <1>p, ToType DEF PlanState
  <2>3. Kept(c) /\ Lists(c)
    BY <1>w, <2>1, <2>2, ListedBy
  <2>4. UNCHANGED <<journal, open>> /\ pc[c] # "built" /\ Goto(c, "idle", NoOp)
    BY <1>2 DEF BuildFails
  <2> QED BY <2>3, <2>4, QuietList
<1>3. ASSUME Checkpoint(c) PROVE ListInv'
  <2>1. PICK o : o = cur[c]
    OBVIOUS
  <2> DEFINE p == Listed(Copy(c), o)
  <2>2. o \in Ops /\ p \in Plans /\ p.ops = Copy(c).ops \cup {o}
    BY <1>3, <1>p, <2>1, ListedType DEF Checkpoint, CallInv, WalkInv
  <2>3. run[c].last \in BOOLEAN /\ run[c].current
    BY <1>w DEF WalkInv, TypeOK, Runners, OneWalker
  <2>4. /\ pc[c] = "built" /\ Goto(c, "idle", NoOp)
        /\ \/ /\ Saved(c, p, Runner("reviewing", o, run[c].last, p))
              /\ UNCHANGED <<journal, open, lease>>
           \/ RefusedUnsaved(c, p) /\ journal' = Set(o, "cancelled") /\ Close(c, {o})
    BY <1>3, <2>1 DEF Checkpoint
  <2> HIDE DEF p
  <2>5. LET r == Runner("reviewing", o, run[c].last, p) IN r \in Runners /\ r.current /\ r.plan = p
    BY <2>2, <2>3 DEF Runner, Runners
  <2>6. Kept(c) /\ Lists(c)
    BY <1>w, <2>2, <2>4, <2>5, ListedBy
  <2>7. CalmRows /\ (journal'[o].st = "cancelled" \/ o \in stored'.ops)
    <3>1. CASE Saved(c, p, Runner("reviewing", o, run[c].last, p)) /\ UNCHANGED <<journal, open, lease>>
      BY <2>2, <3>1, LetGo DEF Saved, WalkInv
    <3>2. CASE journal' = Set(o, "cancelled") /\ Close(c, {o})
      BY <2>2, <3>2, LetGo, Closed DEF WalkInv
    <3> QED BY <2>4, <3>1, <3>2
  <2>8. CopyInv'
    BY <2>6 DEF CopyInv, Kept, Lists, Walks, Copy
  <2>9. OpenInv'
    <3> SUFFICES ASSUME NEW d \in Clients, NEW x \in Ops, x \in open'[d], journal'[x].own,
                        journal'[x].st = "prepared"
                 PROVE  x \in stored'.ops
      BY DEF OpenInv
    <3>1. x \in stored.ops \/ (pc[d] = "built" /\ cur[d] = x)
      BY <2>7 DEF CalmRows, ListInv, OpenInv
    <3>2. pc[d] = "built" => d = c
      BY <1>a DEF WalkInv, CallInv
    <3> QED BY <2>1, <2>6, <2>7, <3>1, <3>2 DEF Lists
  <2>10. SignedIsListed'
    <3> SUFFICES ASSUME NEW x \in Ops, journal'[x].own, journal'[x].st \in {"signed", "confirmed", "failed"}
                 PROVE  x \in stored'.ops
      BY DEF SignedIsListed, Sent
    <3> QED BY <2>6, <2>7 DEF CalmRows, Lists, ListInv, SignedIsListed, Sent
  <2> QED BY <2>8, <2>9, <2>10 DEF ListInv
<1> QED BY <1>1, <1>2, <1>3

\* The user's answer, and the step that is waited on, list what was listed.
LEMMA AnswerList ==
  ASSUME WalkInv, ListInv, NEW c \in Clients,
         Answered(c) \/ AnswerLost(c) \/ AnsweredAlone(c) \/ PollIn(c) \/ PollOut(c) \/ GiveUp(c)
  PROVE  ListInv'
<1>p. Copy(c) \in Plans
  BY CopyType DEF WalkInv
<1>t. \A st \in {"Waiting", "Paused"} : To(Copy(c), st) \in Plans /\ To(Copy(c), st).ops = Copy(c).ops
  BY <1>p, ToType DEF PlanState
<1>j. UNCHANGED <<journal, open>>
  BY DEF Answered, AnswerLost, AnsweredAlone, PollIn, PollOut, GiveUp
<1>g. UNCHANGED <<pc, cur>> \/ (pc[c] # "built" /\ \E place, o : Goto(c, place, o))
  BY DEF Answered, AnswerLost, AnsweredAlone, PollIn, PollOut, GiveUp
<1>r. run[c] \in Runners
  BY DEF WalkInv, TypeOK
<1>u. LastWords(c, To(Copy(c), "Paused")) /\ Walks(c) => Kept(c) /\ Lists(c)
  BY <1>t, ListedBy
<1>1. ASSUME Answered(c) PROVE Kept(c) /\ Lists(c)
  <2>1. PICK o \in Ops \cup {NoOp}, last \in BOOLEAN :
          o = cur[c] /\ last = (journal[o].kind = "final" /\ Copy(c).stage = LastStage)
    BY DEF WalkInv, TypeOK
  <2> DEFINE p == To(Copy(c), "Waiting")
             r == Runner("waiting", o, last, p)
             w == [run[c] EXCEPT !.plan = p]
  <2>2. Walks(c)
    BY <1>1 DEF Answered, Reviews, Walks
  <2>3. \/ Saved(c, p, r) /\ lease' = lease
        \/ (Saved(c, p, NoRun) \/ Unsaved(c, NoRun)) /\ Drop(c)
        \/ Unsaved(c, w) /\ lease' = lease
    BY <1>1, <2>1 DEF Answered
  <2>4. r \in Runners /\ r.current /\ r.plan = p
    BY <1>t, <2>1 DEF Runner, Runners
  <2>5. w \in Runners /\ w.current /\ w.plan = p
    BY <1>t, <1>r, <2>2 DEF Runners, OneWalker, WalkInv
  <2>6. p \in Plans /\ p.ops = Copy(c).ops
    BY <1>t
  <2> HIDE DEF p, r, w
  <2> QED BY <2>2, <2>3, <2>4, <2>5, <2>6, NoRunType, ListedBy
<1>2. ASSUME AnswerLost(c) PROVE Kept(c) /\ Lists(c)
  <2>1. Walks(c)
    BY <1>2 DEF AnswerLost, Reviews, Walks
  <2>2. [run[c] EXCEPT !.phase = "waiting"] \in Runners
        /\ [run[c] EXCEPT !.phase = "waiting"].current = run[c].current
        /\ [run[c] EXCEPT !.phase = "waiting"].plan = run[c].plan
    BY <1>r DEF Runners
  <2>3. \/ LastWords(c, To(Copy(c), "Paused"))
        \/ run' = [run EXCEPT ![c].phase = "waiting"] /\ UNCHANGED <<stored, lease, faults>>
    BY <1>2 DEF AnswerLost
  <2> QED BY <1>u, <2>1, <2>2, <2>3, SamePlanLists
<1>3. ASSUME AnsweredAlone(c) PROVE ListInv'
  <2>1. CalmRows
    BY <1>j, LetGo DEF WalkInv
  <2>2. \A d \in Clients : pc[d] = "built" => pc'[d] = "built" /\ cur'[d] = cur[d]
    BY <1>3 DEF AnsweredAlone, Goto, WalkInv, TypeOK
  <2> QED BY <1>3, <2>1, <2>2, StillList DEF AnsweredAlone
<1>4. ASSUME PollIn(c) PROVE Kept(c) /\ Lists(c)
  <2>1. [run[c] EXCEPT !.phase = "ready"] \in Runners
        /\ [run[c] EXCEPT !.phase = "ready"].current = run[c].current
        /\ [run[c] EXCEPT !.phase = "ready"].plan = run[c].plan
    BY <1>r DEF Runners
  <2> QED BY <1>4, <2>1, SamePlanLists DEF PollIn, Walks
<1>5. ASSUME PollOut(c) \/ GiveUp(c) PROVE Kept(c) /\ Lists(c)
  BY <1>5, <1>u DEF PollOut, GiveUp, Walks
<1> QED BY <1>1, <1>2, <1>3, <1>4, <1>5, <1>j, <1>g, QuietList

\* What the user asks: only a listed review is signed.
LEMMA AskList ==
  ASSUME WalkInv, ListInv, NEW c \in Clients,
         Cancel(c) \/ Lock(c) \/ \E o \in Ops : Sign(c, o) \/ SignRefused(c, o) \/ Reject(c, o)
  PROVE  ListInv'
<1>p. Copy(c) \in Plans
  BY CopyType DEF WalkInv
<1>t. \A st \in {"Cancelled", "Paused"} : To(Copy(c), st) \in Plans /\ To(Copy(c), st).ops = Copy(c).ops
  BY <1>p, ToType DEF PlanState
<1>u. \A st \in {"Cancelled", "Paused"} : LastWords(c, To(Copy(c), st)) /\ Walks(c) => Kept(c) /\ Lists(c)
  BY <1>t, ListedBy
<1>y. TypeOK
  BY DEF WalkInv
<1>1. ASSUME Cancel(c) PROVE ListInv'
  <2>1. CalmRows
    BY <1>1, <1>y, LetGo, Closed DEF Cancel
  <2> QED BY <1>1, <1>u, <2>1, CalmList DEF Cancel
<1>2. ASSUME Lock(c) PROVE ListInv'
  <2>1. CalmRows /\ UNCHANGED <<stored, lease, pc, cur, faults>>
    <3>1. \A d \in Clients : open'[d] \subseteq open[d]
      BY <1>2, <1>y DEF Lock, TypeOK
    <3> QED BY <1>2, <1>y, <3>1, LetGo DEF Lock
  <2>2. CASE run' = run
    BY <2>1, <2>2, StillList
  <2>3. CASE run' # run
    <3>1. Walks(c) /\ run' = [run EXCEPT ![c].phase = "ready", ![c].on = NoOp]
      BY <1>2, <2>3 DEF Lock, Walks
    <3> DEFINE r == [run[c] EXCEPT !.phase = "ready", !.on = NoOp]
    <3>2. run[c] \in Runners /\ run \in [Clients -> Runners]
      BY <1>y DEF TypeOK
    <3>3. r \in Runners /\ r.current = run[c].current /\ r.plan = run[c].plan
      BY <3>2 DEF Runners
    <3>4. run' = [run EXCEPT ![c] = r]
      <4>1. \A d \in Clients \ {c} : run'[d] = run[d]
        BY <3>1, <3>2
      <4>2. run'[c] = r
        BY <3>1, <3>2
      <4> QED BY <3>1, <3>2, <4>1, <4>2
    <3> HIDE DEF r
    <3>5. Kept(c) /\ Lists(c)
      BY <2>1, <3>1, <3>3, <3>4, SamePlanLists
    <3> QED BY <2>1, <3>5, CalmList
  <2> QED BY <2>2, <2>3
<1>3. ASSUME NEW o \in Ops, Sign(c, o) PROVE ListInv'
  <2>1. /\ pc[c] = "idle" /\ o \in open[c] /\ journal[o].st = "prepared"
        /\ journal' = Set(o, "signed") /\ Close(c, {o}) /\ Goto(c, "sent", o)
        /\ UNCHANGED <<stored, lease, run, faults>>
    BY <1>3 DEF Sign
  <2>2. /\ \A x \in Ops \ {o} : journal'[x] = journal[x]
        /\ journal'[o].st = "signed" /\ journal'[o].own = journal[o].own
    BY <2>1, <1>y DEF Set, TypeOK, Journal
  <2>3. journal[o].own => o \in stored.ops
    BY <2>1 DEF ListInv, OpenInv
  <2>4. /\ \A d \in Clients : open'[d] \subseteq open[d]
        /\ \A d \in Clients : pc[d] = "built" => pc'[d] = "built" /\ cur'[d] = cur[d]
    BY <2>1, <1>y, Closed DEF Goto, TypeOK
  <2>5. CopyInv'
    BY <2>1 DEF ListInv, CopyInv, Walks, Copy
  <2>6. OpenInv'
    <3> SUFFICES ASSUME NEW d \in Clients, NEW x \in Ops, x \in open'[d], journal'[x].own,
                        journal'[x].st = "prepared"
                 PROVE  x \in stored'.ops \/ (pc'[d] = "built" /\ cur'[d] = x)
      BY DEF OpenInv
    <3> QED BY <2>1, <2>2, <2>4 DEF ListInv, OpenInv
  <2>7. SignedIsListed'
    <3> SUFFICES ASSUME NEW x \in Ops, journal'[x].own, journal'[x].st \in {"signed", "confirmed", "failed"}
                 PROVE  x \in stored'.ops
      BY DEF SignedIsListed, Sent
    <3> QED BY <2>1, <2>2, <2>3 DEF ListInv, SignedIsListed, Sent
  <2> QED BY <2>5, <2>6, <2>7 DEF ListInv
<1>4. ASSUME NEW o \in Ops, SignRefused(c, o) \/ Reject(c, o) PROVE ListInv'
  <2>1. UNCHANGED <<pc, cur>>
    BY <1>4 DEF SignRefused, Reject
  <2>2. \A d \in Clients : open'[d] \subseteq open[d]
    BY <1>4, <1>y, Closed DEF SignRefused, Reject
  <2>3. CalmRows
    BY <1>4, <1>y, <2>2, LetGo DEF SignRefused, Reject
  <2>4. CASE Reviews(c, o)
    <3>1. Walks(c) /\ LastWords(c, To(Copy(c), "Paused"))
      BY <1>4, <2>4 DEF SignRefused, Reject, Reviews, Walks
    <3> QED BY <1>u, <2>1, <2>3, <3>1, CalmList
  <2>5. CASE ~Reviews(c, o)
    <3>1. UNCHANGED <<stored, run>>
      BY <1>4, <2>5 DEF SignRefused, Reject
    <3> QED BY <2>1, <2>3, <3>1, StillList
  <2> QED BY <2>4, <2>5
<1> QED BY <1>1, <1>2, <1>3, <1>4

\* A client that turns away, or dies, leaves what is listed listed.
LEMMA DropList == ASSUME WalkInv, ListInv, NEW c \in Clients, Switch(c) \/ Crash(c) PROVE ListInv'
<1>y. TypeOK
  BY DEF WalkInv
<1>1. /\ run' = [run EXCEPT ![c] = NoRun] /\ UNCHANGED stored /\ open' = [open EXCEPT ![c] = {}]
      /\ \A d \in Clients \ {c} : pc'[d] = pc[d] /\ cur'[d] = cur[d]
  BY <1>y DEF Switch, Crash, Goto, TypeOK
<1>2. CalmRows
  <2>1. \A d \in Clients : open'[d] \subseteq open[d]
    BY <1>1, <1>y DEF TypeOK
  <2> QED BY <1>y, <2>1, LetGo DEF Switch, Crash
<1>3. CopyInv'
  BY <1>1, <1>y, NoRunType DEF ListInv, CopyInv, Walks, Copy, TypeOK
<1>4. OpenInv'
  <2> SUFFICES ASSUME NEW d \in Clients, NEW x \in Ops, x \in open'[d], journal'[x].own,
                      journal'[x].st = "prepared"
               PROVE  x \in stored'.ops \/ (pc'[d] = "built" /\ cur'[d] = x)
    BY DEF OpenInv
  <2>1. d # c
    BY <1>1, <1>y DEF TypeOK
  <2> QED BY <1>1, <1>2, <2>1 DEF CalmRows, ListInv, OpenInv
<1>5. SignedIsListed'
  <2> SUFFICES ASSUME NEW x \in Ops, journal'[x].own, journal'[x].st \in {"signed", "confirmed", "failed"}
               PROVE  x \in stored'.ops
    BY DEF SignedIsListed, Sent
  <2> QED BY <1>1, <1>2 DEF CalmRows, ListInv, SignedIsListed, Sent
<1> QED BY <1>3, <1>4, <1>5 DEF ListInv

\* The plan starts with nothing signed.
LEMMA StartList == ASSUME WalkInv, ListInv, NEW c \in Clients, Start(c) PROVE ListInv'
<1> DEFINE p == Plan("Review", 0, {}, NoOp)
<1>1. /\ stored' = p /\ lease' = c /\ run' = [run EXCEPT ![c] = Runner("preparing", NoOp, FALSE, p)]
      /\ UNCHANGED <<journal, pc, cur, open, faults>> /\ lease = Nobody /\ stored = NoPlan
  BY DEF Start
<1>2. \A d \in Clients \ {c} : ~Walks(d)
  BY <1>1, Alone DEF WalkInv
<1>3. p \in Plans /\ p.ops = {} /\ stored.ops = {}
  BY <1>1, NoRunType DEF Plan, Plans, PlanState
<1> HIDE DEF p
<1>4. run'[c].current /\ run'[c].plan = p /\ \A d \in Clients \ {c} : run'[d].phase = "none"
  BY <1>1, <1>2, <1>3 DEF WalkInv, TypeOK, Walks, Runner
<1>5. Kept(c) /\ Lists(c)
  BY <1>1, <1>3, <1>4 DEF Kept, Lists
<1>6. CalmRows
  BY <1>1, LetGo DEF WalkInv
<1> QED BY <1>1, <1>5, <1>6, CalmList

\* Resuming lists what the journal links to the plan, and lets go only what nobody signed.
LEMMA ResumeList == ASSUME WalkInv, ListInv, NEW c \in Clients, NEW d \in BOOLEAN, Resume(c, d) PROVE ListInv'
<1>y. TypeOK /\ journal \in [Ops -> Journal]
  BY DEF WalkInv, TypeOK
<1>1. PICK final \in Ops \cup {NoOp} :
        LET p == Adopted(final)
            q == IF d THEN Unreviewed(p) ELSE p
        IN /\ journal' = IF d THEN Abandoned(p.ops) ELSE journal
           /\ IF d THEN Close(c, p.ops) ELSE UNCHANGED open
           /\ \/ /\ stored' = q /\ lease' = c /\ faults' = faults
                 /\ \E r \in Resumed(c, q) :
                      run' = [x \in Clients |-> IF x = c THEN r ELSE [run[x] EXCEPT !.current = FALSE]]
              \/ /\ faults < MaxFaults /\ faults' = faults + 1 /\ q # stored
                 /\ UNCHANGED <<stored, lease, run>>
  BY DEF Resume
<1>2. stored # NoPlan /\ lease = Nobody /\ UNCHANGED <<pc, cur>>
  BY DEF Resume
<1> DEFINE p == Adopted(final)
           q == IF d THEN Unreviewed(p) ELSE p
<1>3. p \in Plans /\ q \in Plans /\ p.ops = stored.ops \cup Unlisted
      /\ q.ops = IF d THEN {o \in p.ops : ~Unsigned(o)} ELSE p.ops
  BY <1>y, <1>2, ResumeTypes
<1>4. \A x \in Clients : ~Walks(x)
  BY <1>2, Alone, PlanNames DEF WalkInv, OneWalker
<1>5. CalmRows
  <2>1. \A x \in Clients : open'[x] \subseteq open[x]
    BY <1>1, <1>y, Closed
  <2>2. CASE d
    BY <1>1, <1>y, <2>1, <2>2, LetGo
  <2>3. CASE ~d
    BY <1>1, <1>y, <2>1, <2>3, LetGo
  <2> QED BY <2>2, <2>3
<1>6. \A x \in Ops : journal[x].own /\ Sent(x) => x \in q.ops
  <2>1. \A x \in Ops : journal[x].own /\ Sent(x) => x \in p.ops
    BY <1>3 DEF ListInv, SignedIsListed
  <2>2. \A x \in Ops : Sent(x) => ~Unsigned(x)
    BY DEF Sent, Unsigned
  <2> QED BY <1>3, <2>1, <2>2
<1>7. \A x \in Ops : journal'[x].own /\ journal'[x].st = "prepared" => x \in q.ops
  <2> SUFFICES ASSUME NEW x \in Ops, journal'[x].own, journal'[x].st = "prepared" PROVE x \in q.ops
    OBVIOUS
  <2>1. journal[x].own /\ journal[x].st = "prepared"
    BY <1>5 DEF CalmRows
  <2>2. x \in p.ops
    BY <1>3, <2>1 DEF Unlisted
  <2>3. ~d
    <3>1. d => journal'[x].st = "cancelled"
      BY <1>1, <1>y, <2>1, <2>2 DEF Abandoned, Journal
    <3> QED BY <3>1
  <2> QED BY <1>3, <2>2, <2>3
<1>8. CASE UNCHANGED <<stored, run>>
  BY <1>2, <1>5, <1>8, StillList
<1>9. CASE stored' = q /\ \E r \in Resumed(c, q) :
             run' = [x \in Clients |-> IF x = c THEN r ELSE [run[x] EXCEPT !.current = FALSE]]
  <2> HIDE DEF p, q
  <2>1. PICK r \in Resumed(c, q) :
          run' = [x \in Clients |-> IF x = c THEN r ELSE [run[x] EXCEPT !.current = FALSE]]
    BY <1>9
  <2>2. r.plan = q
    BY <1>3, <1>y, <2>1, ResumedType
  <2>3. \A x \in Clients : [run[x] EXCEPT !.current = FALSE].phase = run[x].phase
    BY <1>y DEF TypeOK, Runners
  <2>4. run'[c].plan = q /\ \A x \in Clients \ {c} : run'[x].phase = "none"
    BY <1>4, <2>1, <2>2, <2>3 DEF Walks
  <2>5. CopyInv'
    BY <1>9, <2>4 DEF CopyInv, Walks, Copy
  <2>6. OpenInv'
    BY <1>7, <1>9 DEF OpenInv
  <2>7. SignedIsListed'
    <3> SUFFICES ASSUME NEW x \in Ops, journal'[x].own, journal'[x].st \in {"signed", "confirmed", "failed"}
                 PROVE  x \in stored'.ops
      BY DEF SignedIsListed, Sent
    <3> QED BY <1>5, <1>6, <1>9 DEF CalmRows
  <2> QED BY <2>5, <2>6, <2>7 DEF ListInv
<1> QED BY <1>1, <1>8, <1>9

\* The chain takes what was signed further, and signs for nobody.
LEMMA ChainList == ASSUME WalkInv, ListInv, Chain PROVE ListInv'
<1>y. TypeOK /\ journal \in [Ops -> Journal]
  BY DEF WalkInv, TypeOK
<1>1. PICK o \in Ops :
        \/ Included(o, "confirmed") \/ Included(o, "failed") \/ Receipt(o) \/ Undone(o) \/ Abandon(o)
        \/ OtherSigned(o) \/ \E kind \in {"step", "final"} : Reuse(o, kind)
  BY DEF Chain
<1>2. UNCHANGED <<stored, run, pc, cur>>
  BY <1>1 DEF Included, Receipt, Undone, Abandon, OtherSigned, Reuse
<1>3. \A c \in Clients : open'[c] \subseteq open[c]
  BY <1>1 DEF Included, Receipt, Undone, Abandon, OtherSigned, Reuse
<1>4. CalmRows
  <2>1. CASE Abandon(o)
    BY <2>1, <1>y, <1>3, LetGo DEF Abandon
  <2>2. CASE Included(o, "confirmed") \/ Included(o, "failed") \/ Receipt(o) \/ Undone(o)
    <3>1. /\ Sent(o) /\ journal'[o].own = journal[o].own /\ journal'[o].st # "prepared"
          /\ \A x \in Ops \ {o} : journal'[x] = journal[x]
      BY <2>2, <1>y DEF Included, Receipt, Undone, Sent, Journal
    <3> QED BY <1>3, <3>1 DEF CalmRows, Sent
  <2>3. CASE OtherSigned(o) \/ \E kind \in {"step", "final"} : Reuse(o, kind)
    <3>1. ~journal'[o].own /\ \A x \in Ops \ {o} : journal'[x] = journal[x]
      BY <2>3, <1>y DEF OtherSigned, Set, Reuse, Review, Journal
    <3> QED BY <1>3, <3>1 DEF CalmRows, Sent
  <2> QED BY <1>1, <2>1, <2>2, <2>3
<1> QED BY <1>2, <1>4, StillList

\* Every step keeps what is signed listed.
THEOREM ListStep == WalkInv /\ ListInv /\ [Next]_vars => ListInv'
<1> SUFFICES ASSUME WalkInv, ListInv, [Next]_vars PROVE ListInv'
  OBVIOUS
<1>1. ASSUME NEW c \in Clients, Walk(c) PROVE ListInv'
  BY <1>1, NextList, BuildList, AnswerList DEF Walk
<1>2. ASSUME NEW c \in Clients, Ask(c) PROVE ListInv'
  BY <1>2, StartList, ResumeList, AnswerList, AskList, DropList DEF Ask
<1>3. CASE UNCHANGED vars
  <2>1. CalmRows
    BY <1>3, LetGo DEF vars, WalkInv
  <2> QED BY <1>3, <2>1, StillList DEF vars
<1> QED BY <1>1, <1>2, <1>3, ChainList DEF Next

-----------------------------------------------------------------------------
(* One step at a time, and no stage twice. *)

\* A row of the plan that somebody may still sign, or signed; a review that is built and not listed.
InHand(o) == journal[o].own /\ journal[o].st \notin {"none", "cancelled"}
Built(c, o) == pc[c] = "built" /\ cur[c] = o
\* An action that is signed, or can be.
Live(o) ==
  /\ journal[o].own /\ journal[o].kind = "final"
  /\ Sent(o) \/ (journal[o].st = "prepared" /\ \E c \in Clients : o \in open[c])

\* What is in was included.
WasInv == \A o \in Ops : journal[o].st = "confirmed" => journal[o].was

\* What a walker has in hand lists every row of the plan, but the review it is about to list.
HandInv == \A c \in Clients, o \in Ops : Walks(c) /\ InHand(o) => o \in Copy(c).ops \/ Built(c, o)

\* A call that prepares a review starts from the stored checkpoint, of a stage without an action.
BuildInv == \A c \in Clients :
  pc[c] \in {"advanced", "building", "built"} => Copy(c) = stored /\ stored.final = NoOp

\* Nothing is under way when it starts.
QuietInv == \A c \in Clients : pc[c] \in {"advanced", "building"} => \A o \in Ops : ~UnderWay(o)

\* What it built is of the stored stage, and nobody signs it before it is listed.
BuiltInv == \A c \in Clients : pc[c] = "built" =>
  /\ journal[cur[c]].own => ~Sent(cur[c]) /\ journal[cur[c]].stage = stored.stage
  /\ \A d \in Clients \ {c} : cur[c] \notin open[d]

\* An action that no checkpoint lists was prepared when the stored one named none.
FreshInv == \A o \in Ops :
  InHand(o) /\ o \notin stored.ops /\ journal[o].kind = "final" => stored.final = NoOp

\* The actions a plan has are those of the stages it left, and the one it names.
Covers(p) == \A o \in Ops : Live(o) =>
  \/ journal[o].stage < p.stage
  \/ journal[o].stage = p.stage /\ (p.final = o \/ \E c \in Clients : Built(c, o))
StageInv == Covers(stored) /\ \A c \in Clients : Walks(c) => Covers(Copy(c))

\* One action a stage.
UniqueInv == \A o, x \in Ops : Live(o) /\ Live(x) /\ journal[o].stage = journal[x].stage => o = x

\* Who walks a cancelled plan resumed it, and waits on what was sent.
StopInv == \A c \in Clients : Walks(c) /\ stored.st = "Cancelled" =>
  /\ Copy(c).st = "Cancelled" /\ run[c].phase \in {"waiting", "ready"}
  /\ pc[c] \notin {"advanced", "building", "built"}

\* Before the plan is started it has no rows, and nobody walks it.
NewInv ==
  /\ stored.st = "none" => stored = NoPlan /\ \A o \in Ops : ~InHand(o)
  /\ \A c \in Clients : Walks(c) => stored.st # "none" /\ Copy(c).st # "none"

StepInv ==
  /\ WasInv /\ HandInv /\ BuildInv /\ QuietInv /\ BuiltInv /\ FreshInv
  /\ StageInv /\ UniqueInv /\ OneStepAtATime /\ StopInv /\ NewInv

\* Rows and reviews that go on or go away: none of the plan's is opened or replaced.
Goes ==
  /\ \A o \in Ops : journal'[o].own =>
       /\ journal[o].own
       /\ journal'[o].kind = journal[o].kind /\ journal'[o].stage = journal[o].stage
       /\ InHand(o)' => InHand(o)
       /\ UnderWay(o)' => UnderWay(o)
       /\ journal'[o].st = "prepared" => journal[o].st = "prepared"
       /\ Sent(o)' => \/ Sent(o)
                      \/ journal[o].st = "prepared"
                           /\ \E d \in Clients : pc[d] = "idle" /\ o \in open[d]
  /\ \A c \in Clients : open'[c] \subseteq open[c]
  /\ WasInv'

\* Rows that are let go, and rows that nobody touches, go.
LEMMA LetGoes ==
  ASSUME TypeOK, WasInv, \A c \in Clients : open'[c] \subseteq open[c]
  PROVE  /\ \A S : journal' = Abandoned(S) => Goes
         /\ \A o \in Ops : journal' = Set(o, "cancelled") => Goes
         /\ journal' = journal => Goes
<1>o. journal \in [Ops -> Journal]
  BY DEF TypeOK
<1>1. ASSUME \A o \in Ops : journal'[o] = journal[o] \/ journal'[o] = [journal[o] EXCEPT !.st = "cancelled"]
      PROVE  Goes
  <2>1. ASSUME NEW o \in Ops
        PROVE  /\ journal'[o].own = journal[o].own /\ journal'[o].kind = journal[o].kind
               /\ journal'[o].stage = journal[o].stage /\ journal'[o].was = journal[o].was
               /\ journal'[o].st \in {journal[o].st, "cancelled"}
    <3>1. journal[o] \in Journal
      BY <1>o
    <3>2. journal'[o] = journal[o] \/ journal'[o] = [journal[o] EXCEPT !.st = "cancelled"]
      BY <1>1
    <3> QED BY <3>1, <3>2 DEF Journal
  <2>2. WasInv'
    BY <2>1 DEF WasInv
  <2> QED BY <2>1, <2>2 DEF Goes, InHand, UnderWay, Sent
<1>2. ASSUME NEW S, journal' = Abandoned(S) PROVE Goes
  <2>1. \A o \in Ops : journal'[o] = journal[o] \/ journal'[o] = [journal[o] EXCEPT !.st = "cancelled"]
    BY <1>2 DEF Abandoned
  <2> QED BY <1>1, <2>1
<1>3. ASSUME NEW o \in Ops, journal' = Set(o, "cancelled") PROVE Goes
  <2>1. \A x \in Ops : journal'[x] = journal[x] \/ journal'[x] = [journal[x] EXCEPT !.st = "cancelled"]
    BY <1>3, <1>o DEF Set
  <2> QED BY <1>1, <2>1
<1> QED BY <1>1, <1>2, <1>3

\* An action that can be signed could be.
LEMMA LiveGoes ==
  ASSUME Goes, NEW o \in Ops, Live(o)'
  PROVE  Live(o) /\ journal'[o].stage = journal[o].stage /\ InHand(o)
<1>1. /\ journal'[o].own /\ journal'[o].kind = "final"
      /\ Sent(o)' \/ (journal'[o].st = "prepared" /\ \E c \in Clients : o \in open'[c])
  BY DEF Live
<1>2. journal[o].own /\ journal'[o].kind = journal[o].kind /\ journal'[o].stage = journal[o].stage
  BY <1>1 DEF Goes
<1>3. Sent(o) \/ (journal[o].st = "prepared" /\ \E c \in Clients : o \in open[c])
  BY <1>1 DEF Goes
<1> QED BY <1>1, <1>2, <1>3 DEF Live, InHand, Sent

\* One step at a time, and one action a stage, when rows only go.
LEMMA RowsOnce ==
  ASSUME StepInv, Goes PROVE WasInv' /\ UniqueInv' /\ OneStepAtATime'
<1>1. UniqueInv'
  BY LiveGoes DEF UniqueInv, StepInv
<1>2. \A o \in Ops : UnderWay(o)' => UnderWay(o)
  BY DEF Goes, UnderWay
<1>3. OneStepAtATime'
  BY <1>2 DEF OneStepAtATime, StepInv
<1> QED BY <1>1, <1>3 DEF Goes

\* A step that writes no checkpoint, and leaves every walker the plan it has.
LEMMA GoesOn ==
  ASSUME WalkInv, StepInv, WalkInv', Goes, stored' = stored,
         \A c \in Clients : Walks(c)' => Walks(c) /\ run'[c].plan = run[c].plan,
         \A c \in Clients : Walks(c)' => run'[c].phase \in {run[c].phase, "ready", "waiting"},
         \A c \in Clients :
           \/ pc'[c] = pc[c] /\ cur'[c] = cur[c]
           \/ pc[c] # "built" /\ pc'[c] \in {"idle", "sent"}
           \/ /\ pc'[c] \in {"idle", "sent"} /\ ~Walks(c)'
              /\ \A o \in Ops : pc[c] = "built" /\ cur[c] = o => ~Live(o)'
  PROVE  StepInv'
<1>1. WasInv' /\ UniqueInv' /\ OneStepAtATime'
  BY RowsOnce
<1>2. \A c \in Clients : pc'[c] \in {"advanced", "building", "built"} => pc'[c] = pc[c] /\ cur'[c] = cur[c]
  OBVIOUS
<1>i. \A o \in Ops : InHand(o)' => InHand(o) /\ journal'[o].kind = journal[o].kind
  BY DEF Goes, InHand
<1>3. HandInv'
  <2> SUFFICES ASSUME NEW c \in Clients, NEW o \in Ops, Walks(c)', InHand(o)'
               PROVE  o \in run'[c].plan.ops \/ (pc'[c] = "built" /\ cur'[c] = o)
    BY DEF HandInv, Copy, Built
  <2>1. o \in Copy(c).ops \/ (pc[c] = "built" /\ cur[c] = o)
    BY <1>i DEF StepInv, HandInv, Built
  <2> QED BY <2>1 DEF Copy
<1>4. BuildInv'
  <2> SUFFICES ASSUME NEW c \in Clients, pc'[c] \in {"advanced", "building", "built"}
               PROVE  run'[c].plan = stored' /\ stored'.final = NoOp
    BY DEF BuildInv, Copy
  <2>1. Walks(c)'
    BY DEF WalkInv, CallInv
  <2> QED BY <1>2, <2>1 DEF StepInv, BuildInv, Copy
<1>5. QuietInv'
  <2> SUFFICES ASSUME NEW c \in Clients, pc'[c] \in {"advanced", "building"}, NEW o \in Ops
               PROVE  ~UnderWay(o)'
    BY DEF QuietInv
  <2>1. ~UnderWay(o)
    BY <1>2 DEF StepInv, QuietInv
  <2>2. UnderWay(o)' => UnderWay(o)
    BY DEF Goes, UnderWay
  <2> QED BY <2>1, <2>2
<1>6. BuiltInv'
  <2> SUFFICES ASSUME NEW c \in Clients, pc'[c] = "built"
               PROVE  /\ journal'[cur'[c]].own => ~Sent(cur[c])' /\ journal'[cur[c]].stage = stored'.stage
                      /\ \A d \in Clients \ {c} : cur'[c] \notin open'[d]
    <3>1. \A c \in Clients : pc'[c] = "built" => cur'[c] = cur[c]
      BY <1>2
    <3> QED BY <3>1 DEF BuiltInv, Sent
  <2>1. pc[c] = "built" /\ cur'[c] = cur[c]
    BY <1>2
  <2>2. cur[c] \in Ops
    BY <2>1 DEF WalkInv, CallInv
  <2>3. /\ journal[cur[c]].own => ~Sent(cur[c]) /\ journal[cur[c]].stage = stored.stage
        /\ \A d \in Clients \ {c} : cur[c] \notin open[d]
    BY <2>1 DEF StepInv, BuiltInv
  <2>4. \A d \in Clients : pc[d] = "idle" => d # c
    BY <2>1
  <2>5. \A d \in Clients \ {c} : cur'[c] \notin open'[d]
    BY <2>1, <2>3 DEF Goes
  <2>6. ASSUME journal'[cur'[c]].own PROVE ~Sent(cur[c])' /\ journal'[cur[c]].stage = stored'.stage
    <3>1. PICK o \in Ops : o = cur[c] /\ o = cur'[c]
      BY <2>1, <2>2
    <3>2. /\ journal[o].own /\ journal'[o].stage = journal[o].stage
          /\ Sent(o)' => Sent(o) \/ \E d \in Clients : pc[d] = "idle" /\ o \in open[d]
      BY <2>6, <3>1 DEF Goes
    <3>3. ~Sent(o)'
      BY <2>3, <2>4, <3>1, <3>2
    <3>4. ~Sent(cur[c])'
      BY <3>1, <3>3 DEF Sent
    <3> QED BY <2>3, <3>1, <3>2, <3>4
  <2> QED BY <2>5, <2>6
<1>7. FreshInv'
  BY <1>i DEF StepInv, FreshInv
<1>8. StageInv'
  <2>1. ASSUME NEW o \in Ops, Live(o)'
        PROVE  /\ Live(o) /\ journal'[o].stage = journal[o].stage
               /\ (\E c \in Clients : Built(c, o)) => \E c \in Clients : pc'[c] = "built" /\ cur'[c] = o
    <3>1. ASSUME NEW c \in Clients, Built(c, o) PROVE pc'[c] = "built" /\ cur'[c] = o
      <4>1. pc[c] = "built" /\ cur[c] = o
        BY <3>1 DEF Built
      <4> QED BY <2>1, <4>1
    <3> QED BY <2>1, <3>1, LiveGoes
  <2>2. Covers(stored)'
    <3> SUFFICES ASSUME NEW o \in Ops, Live(o)'
                 PROVE  \/ journal'[o].stage < stored'.stage
                        \/ /\ journal'[o].stage = stored'.stage
                           /\ stored'.final = o \/ \E c \in Clients : pc'[c] = "built" /\ cur'[c] = o
      BY DEF Covers, Built
    <3> QED BY <2>1 DEF StepInv, StageInv, Covers
  <2>3. ASSUME NEW c \in Clients, Walks(c)' PROVE Covers(Copy(c))'
    <3> SUFFICES ASSUME NEW o \in Ops, Live(o)'
                 PROVE  \/ journal'[o].stage < run'[c].plan.stage
                        \/ /\ journal'[o].stage = run'[c].plan.stage
                           /\ run'[c].plan.final = o \/ \E d \in Clients : pc'[d] = "built" /\ cur'[d] = o
      BY DEF Covers, Built, Copy
    <3>1. Covers(Copy(c)) /\ run'[c].plan = Copy(c)
      BY <2>3 DEF StepInv, StageInv, Copy
    <3> QED BY <2>1, <3>1 DEF Covers
  <2> QED BY <2>2, <2>3 DEF StageInv
<1>9. StopInv'
  <2> SUFFICES ASSUME NEW c \in Clients, Walks(c)', stored'.st = "Cancelled"
               PROVE  /\ run'[c].plan.st = "Cancelled" /\ run'[c].phase \in {"waiting", "ready"}
                      /\ pc'[c] \notin {"advanced", "building", "built"}
    BY DEF StopInv, Copy
  <2>1. /\ Copy(c).st = "Cancelled" /\ run[c].phase \in {"waiting", "ready"}
        /\ pc[c] \notin {"advanced", "building", "built"}
    BY DEF StepInv, StopInv
  <2> QED BY <1>2, <2>1 DEF Copy
<1>10. NewInv'
  <2>1. \A c \in Clients : Walks(c)' => stored'.st # "none" /\ run'[c].plan.st # "none"
    BY DEF StepInv, NewInv, Copy
  <2> QED BY <1>i, <2>1 DEF StepInv, NewInv, Copy
<1> QED BY <1>1, <1>3, <1>4, <1>5, <1>6, <1>7, <1>8, <1>9, <1>10 DEF StepInv

\* A walker's call that writes p, or fails to, and goes on with p, or not at all.
LEMMA WalkerStep ==
  ASSUME WalkInv, StepInv, WalkInv', Goes, NEW c \in Clients, Walks(c), pc[c] # "built", Kept(c),
         NEW p \in Plans, p.st # "none", stored' \in {stored, p}, run'[c].phase = "none" \/ run'[c].plan = p,
         Copy(c).ops \subseteq p.ops, Covers(p),
         \A d \in Clients \ {c} : pc'[d] = pc[d] /\ cur'[d] = cur[d],
         \/ pc'[c] \in {"idle", "sent"}
         \/ /\ pc'[c] \in {"advanced", "building"} /\ stored' = p /\ p.final = NoOp
            /\ \A o \in Ops : ~UnderWay(o),
         \/ run'[c].phase = "none" \/ stored'.st # "Cancelled"
         \/ /\ run'[c].plan.st = "Cancelled" /\ run'[c].phase \in {"waiting", "ready"}
            /\ pc'[c] \notin {"advanced", "building", "built"}
  PROVE  StepInv'
<1>1. WasInv' /\ UniqueInv' /\ OneStepAtATime'
  BY RowsOnce
<1>2. \A d \in Clients \ {c} : ~Walks(d) /\ ~Walks(d)' /\ pc[d] # "built"
  BY DEF Kept, Walks, WalkInv, OneWalker, CallInv
<1>3. \A d \in Clients : pc'[d] \in {"advanced", "building", "built"} => d = c
  BY <1>2 DEF WalkInv, CallInv
<1>4. \A d \in Clients : pc[d] # "built" /\ pc'[d] # "built"
  BY <1>2, <1>3
<1>i. \A o \in Ops : InHand(o)' => InHand(o) /\ journal'[o].kind = journal[o].kind
  BY DEF Goes, InHand
<1>5. HandInv'
  <2> SUFFICES ASSUME NEW d \in Clients, NEW o \in Ops, Walks(d)', InHand(o)'
               PROVE  o \in run'[d].plan.ops
    BY DEF HandInv, Copy, Built
  <2>1. d = c /\ run'[c].plan = p
    BY <1>2 DEF Walks
  <2>2. o \in Copy(c).ops
    BY <1>i, <1>4 DEF StepInv, HandInv, Built
  <2> QED BY <2>1, <2>2
<1>6. BuildInv'
  <2> SUFFICES ASSUME NEW d \in Clients, pc'[d] \in {"advanced", "building", "built"}
               PROVE  run'[d].plan = stored' /\ stored'.final = NoOp
    BY DEF BuildInv, Copy
  <2>1. d = c /\ Walks(d)'
    BY <1>3 DEF WalkInv, CallInv
  <2> QED BY <1>4, <2>1 DEF Walks
<1>7. QuietInv'
  <2> SUFFICES ASSUME NEW d \in Clients, pc'[d] \in {"advanced", "building"}, NEW o \in Ops
               PROVE  ~UnderWay(o)'
    BY DEF QuietInv
  <2>1. d = c
    BY <1>3
  <2>2. UnderWay(o)' => UnderWay(o)
    BY DEF Goes, UnderWay
  <2> QED BY <2>1, <2>2
<1>8. BuiltInv'
  BY <1>4 DEF BuiltInv
<1>9. FreshInv'
  <2> SUFFICES ASSUME NEW o \in Ops, InHand(o)', o \notin stored'.ops, journal'[o].kind = "final"
               PROVE  stored'.final = NoOp
    BY DEF FreshInv
  <2>1. o \in Copy(c).ops
    BY <1>i, <1>4 DEF StepInv, HandInv, Built
  <2>2. stored' = stored
    BY <2>1
  <2> QED BY <1>i, <2>2 DEF StepInv, FreshInv
<1>10. StageInv'
  <2>1. ASSUME NEW v, Covers(v), NEW o \in Ops, Live(o)'
        PROVE  journal'[o].stage < v.stage \/ (journal'[o].stage = v.stage /\ v.final = o)
    <3>1. Live(o) /\ journal'[o].stage = journal[o].stage
      BY <2>1, LiveGoes
    <3> QED BY <1>4, <2>1, <3>1 DEF Covers, Built
  <2>2. Covers(stored)'
    <3> SUFFICES ASSUME NEW o \in Ops, Live(o)'
                 PROVE  \/ journal'[o].stage < stored'.stage
                        \/ journal'[o].stage = stored'.stage /\ stored'.final = o
      BY DEF Covers
    <3> QED BY <2>1 DEF StepInv, StageInv
  <2>3. ASSUME NEW d \in Clients, Walks(d)' PROVE Covers(Copy(d))'
    <3> SUFFICES ASSUME NEW o \in Ops, Live(o)'
                 PROVE  \/ journal'[o].stage < run'[d].plan.stage
                        \/ journal'[o].stage = run'[d].plan.stage /\ run'[d].plan.final = o
      BY DEF Covers, Copy
    <3>1. run'[d].plan = p
      BY <1>2, <2>3 DEF Walks
    <3> QED BY <2>1, <3>1
  <2> QED BY <2>2, <2>3 DEF StageInv
<1>11. StopInv'
  BY <1>2 DEF StopInv, Copy, Walks
<1>12. NewInv'
  <2>1. stored'.st # "none"
    BY DEF StepInv, NewInv
  <2>2. \A d \in Clients : Walks(d)' => run'[d].plan.st # "none"
    BY <1>2 DEF Walks
  <2> QED BY <2>1, <2>2 DEF NewInv, Copy
<1> QED BY <1>1, <1>5, <1>6, <1>7, <1>8, <1>9, <1>10, <1>11, <1>12 DEF StepInv

\* A checkpoint of a cancelled plan cancels or pauses it.
Halts == stored.st = "Cancelled" => stored'.st \in {"Cancelled", "Paused"}

\* Another status covers the same actions.
LEMMA CoversTo ==
  ASSUME NEW p \in Plans, NEW st \in PlanState, Covers(p)
  PROVE  Covers(To(p, st))
<1>1. To(p, st).stage = p.stage /\ To(p, st).final = p.final
  BY DEF To, Plan
<1> QED BY <1>1 DEF Covers

\* So does the next stage, and it has no action yet.
LEMMA CoversNext ==
  ASSUME TypeOK, NEW p \in Plans, Covers(p), \A c \in Clients : pc[c] # "built"
  PROVE  Covers(Plan(p.st, p.stage + 1, p.ops, NoOp))
<1> SUFFICES ASSUME NEW o \in Ops, Live(o) PROVE journal[o].stage < p.stage + 1
  BY DEF Covers, Plan
<1>1. journal[o].stage \in Nat /\ p.stage \in Nat
  BY DEF TypeOK, Journal, Plans
<1>2. journal[o].stage < p.stage \/ journal[o].stage = p.stage
  BY DEF Covers, Built
<1> QED BY <1>1, <1>2

\* A call that changes no row of the journal.
LEMMA StillGoes == ASSUME WalkInv, StepInv, UNCHANGED <<journal, open>> PROVE Goes
BY LetGoes DEF WalkInv, StepInv

\* A plan paused or cancelled leaves no runner behind.
LEMMA RefusedStops ==
  ASSUME TypeOK, NEW c \in Clients, RefusedAsIs(c), Stopped(Copy(c))
  PROVE  run'[c].phase = "none"
<1>1. PICK o \in LastOf(Copy(c).ops) : run' = [run EXCEPT ![c] = Left(c, Copy(c), o)]
  BY DEF RefusedAsIs
<1> QED BY <1>1, NoRunType DEF Left, TypeOK

\* Whoever walks is alone, and a plan that may go on is not cancelled.
LEMMA WalkerFacts ==
  ASSUME WalkInv, StepInv, NEW c \in Clients, Walks(c)
  PROVE  /\ Copy(c) \in Plans /\ Covers(Copy(c)) /\ Copy(c).st # "none" /\ stored.st # "none"
         /\ \A d \in Clients \ {c} : ~Walks(d) /\ pc[d] # "built"
         /\ Ready(Copy(c)) \/ pc[c] \in {"advanced", "building", "built"}
              \/ run[c].phase \in {"preparing", "reviewing"} => stored.st # "Cancelled"
<1>1. Copy(c) \in Plans
  BY CopyType DEF WalkInv
<1>2. \A d \in Clients \ {c} : ~Walks(d)
  BY Alone DEF WalkInv
<1>3. \A d \in Clients \ {c} : pc[d] # "built"
  BY <1>2 DEF WalkInv, CallInv
<1>4. Covers(Copy(c))
  BY DEF StepInv, StageInv
<1>5. ASSUME stored.st = "Cancelled"
      PROVE  /\ ~Ready(Copy(c)) /\ pc[c] \notin {"advanced", "building", "built"}
             /\ run[c].phase \notin {"preparing", "reviewing"}
  BY <1>5 DEF StepInv, StopInv, Ready
<1>6. Copy(c).st # "none" /\ stored.st # "none"
  BY DEF StepInv, NewInv
<1> QED BY <1>1, <1>2, <1>3, <1>4, <1>5, <1>6

\* Preparing: nothing is under way when a review is announced.
LEMMA NextStep ==
  ASSUME WalkInv, StepInv, WalkInv', NEW c \in Clients,
         NextRefused(c) \/ NextAdvance(c) \/ NextComplete(c) \/ NextReview(c)
  PROVE  StepInv' /\ Halts
<1> DEFINE p == Copy(c)
           q == Plan(p.st, p.stage + 1, p.ops, NoOp)
<1>y. TypeOK /\ OneWalker
  BY DEF WalkInv
<1>w. Walks(c) /\ pc[c] \in {"idle", "advanced"}
  BY DEF NextRefused, NextAdvance, NextComplete, NextReview, Asks, Walks, CallInv, WalkInv
<1>j. Goes
  BY StillGoes DEF NextRefused, NextAdvance, NextComplete, NextReview
<1>p. /\ p \in Plans /\ Covers(p) /\ p.st # "none" /\ \A d \in Clients : pc[d] # "built"
      /\ Ready(p) \/ pc[c] = "advanced" => stored.st # "Cancelled"
  BY <1>w, WalkerFacts
<1>t. \A st \in {"Complete", "Paused", "Review"} :
        To(p, st) \in Plans /\ To(p, st).ops = p.ops /\ To(p, st).st = st /\ Covers(To(p, st))
  <2> SUFFICES ASSUME NEW st \in {"Complete", "Paused", "Review"}
               PROVE  To(p, st) \in Plans /\ To(p, st).ops = p.ops /\ To(p, st).st = st /\ Covers(To(p, st))
    OBVIOUS
  <2>1. st \in PlanState
    BY DEF PlanState
  <2>2. To(p, st) \in Plans /\ To(p, st).ops = p.ops /\ To(p, st).st = st
    BY <1>p, <2>1, ToType
  <2>3. Covers(To(p, st))
    BY <1>p, <2>1, CoversTo
  <2> QED BY <2>2, <2>3
<1>q. q \in Plans /\ q.ops = p.ops /\ q.final = NoOp /\ q.st = p.st /\ Covers(q)
  BY <1>p, <1>y, CoversNext DEF Plan, Plans
<1>r. \A v \in Plans : LET r == [run[c] EXCEPT !.phase = "preparing", !.plan = v] IN
        r \in Runners /\ r.plan = v /\ r.current = run[c].current
  BY <1>y DEF TypeOK, Runners
<1>c. run[c].current /\ pc \in [Clients -> {"idle", "advanced", "building", "built", "sent"}]
      /\ cur \in [Clients -> Ops \cup {NoOp}]
  BY <1>w, <1>y DEF OneWalker, TypeOK
<1>e. p.ops = Copy(c).ops
  OBVIOUS
<1> HIDE DEF q
<1>v. \A v \in Plans : LET r == [run[c] EXCEPT !.phase = "preparing", !.plan = v] IN
        Saved(c, v, r) /\ lease' = lease => Kept(c) /\ stored' = v /\ run'[c].plan = v
  <2> SUFFICES ASSUME NEW v \in Plans,
                      Saved(c, v, [run[c] EXCEPT !.phase = "preparing", !.plan = v]), lease' = lease
               PROVE  Kept(c) /\ stored' = v /\ run'[c].plan = v
    OBVIOUS
  <2> DEFINE r == [run[c] EXCEPT !.phase = "preparing", !.plan = v]
  <2>1. r \in Runners /\ r.plan = v /\ r.current = run[c].current /\ Saved(c, v, r)
    BY <1>r
  <2> HIDE DEF r
  <2>2. Kept(c) /\ stored' = v /\ run'[c] = r
    BY <1>c, <1>w, <1>y, <2>1, SavedKeeps
  <2> QED BY <2>1, <2>2
<1>g. ASSUME UNCHANGED <<pc, cur>> \/ \E place \in {"idle", "advanced", "building"} : Goto(c, place, NoOp)
      PROVE  \A d \in Clients \ {c} : pc'[d] = pc[d] /\ cur'[d] = cur[d]
  BY <1>g, <1>c DEF Goto
<1>u. ASSUME NEW v \in Plans, v.ops = p.ops, v.st # "none", Covers(v), stored.st # "Cancelled", Kept(c),
             stored' \in {stored, v}, run'[c].phase = "none" \/ run'[c].plan = v,
             v.st # "Cancelled" \/ run'[c].phase = "none" \/ stored' = stored,
             \/ UNCHANGED <<pc, cur>> /\ pc[c] = "idle"
             \/ Goto(c, "idle", NoOp)
             \/ /\ \E place \in {"advanced", "building"} : Goto(c, place, NoOp)
                /\ stored' = v /\ v.final = NoOp /\ \A o \in Ops : ~UnderWay(o)
      PROVE  StepInv' /\ Halts
  <2>1. \A d \in Clients \ {c} : pc'[d] = pc[d] /\ cur'[d] = cur[d]
    BY <1>u, <1>g
  <2>2. \/ pc'[c] \in {"idle", "sent"}
        \/ /\ pc'[c] \in {"advanced", "building"} /\ stored' = v /\ v.final = NoOp
           /\ \A o \in Ops : ~UnderWay(o)
    BY <1>u, <1>c DEF Goto
  <2>3. run'[c].phase = "none" \/ stored'.st # "Cancelled"
    BY <1>u
  <2>4. Halts
    BY <1>u DEF Halts
  <2> QED BY <1>u, <1>w, <1>j, <1>p, <2>1, <2>2, <2>3, <2>4, WalkerStep
<1>o. ASSUME pc[c] = "idle", Ready(p) PROVE \A o \in Ops : ~UnderWay(o)
  <2>1. \A o \in Ops : InHand(o) => o \in p.ops
    BY <1>o, <1>w DEF StepInv, HandInv, Built
  <2> QED BY <1>o, <2>1 DEF UnderWay, InHand, Ready
<1>1. ASSUME NextRefused(c) PROVE StepInv' /\ Halts
  <2>1. RefusedAsIs(c) /\ UNCHANGED <<pc, cur>> /\ pc[c] = "idle"
    BY <1>1 DEF NextRefused, Asks
  <2>2. Kept(c) /\ stored' = stored /\ (run'[c].phase = "none" \/ run'[c].plan = p)
    BY <1>w, <1>y, <2>1, RefusedAsIsKeeps
  <2>3. CASE stored.st # "Cancelled"
    BY <1>p, <1>u, <2>1, <2>2, <2>3
  <2>4. CASE stored.st = "Cancelled"
    <3>1. Copy(c).st = "Cancelled"
      BY <1>w, <2>4 DEF StepInv, StopInv
    <3>2. run'[c].phase = "none"
      BY <1>y, <2>1, <3>1, RefusedStops DEF Stopped
    <3>3. Halts
      BY <2>2 DEF Halts
    <3> QED BY <1>w, <1>j, <1>p, <2>1, <2>2, <3>2, <3>3, WalkerStep
  <2> QED BY <2>3, <2>4
<1>2. ASSUME NextAdvance(c) PROVE StepInv' /\ Halts
  <2>1. pc[c] = "idle" /\ Ready(p) /\ stored.st # "Cancelled" /\ p.st # "Cancelled"
    BY <1>2, <1>p DEF NextAdvance, Asks, Ready
  <2>2. \/ /\ Saved(c, q, [run[c] EXCEPT !.phase = "preparing", !.plan = q])
           /\ Goto(c, "advanced", NoOp) /\ lease' = lease
        \/ RefusedUnsaved(c, q) /\ UNCHANGED <<pc, cur>>
        \/ RefusedAsIs(c) /\ UNCHANGED <<pc, cur>>
    BY <1>2 DEF NextAdvance, q
  <2>3. CASE Saved(c, q, [run[c] EXCEPT !.phase = "preparing", !.plan = q])
             /\ Goto(c, "advanced", NoOp) /\ lease' = lease
    <3>1. Kept(c) /\ stored' = q /\ run'[c].plan = q
      BY <1>q, <1>v, <2>3
    <3>2. \A o \in Ops : ~UnderWay(o)
      BY <1>o, <2>1
    <3> QED BY <1>p, <1>q, <1>u, <2>1, <2>3, <3>1, <3>2
  <2>4. CASE RefusedUnsaved(c, q) /\ UNCHANGED <<pc, cur>>
    <3>1. Kept(c) /\ stored' = stored /\ (run'[c].phase = "none" \/ run'[c].plan = q)
      BY <1>q, <1>w, <1>y, <2>4, RefusedUnsavedKeeps
    <3> QED BY <1>p, <1>q, <1>u, <2>1, <2>4, <3>1
  <2>5. CASE RefusedAsIs(c) /\ UNCHANGED <<pc, cur>>
    <3>1. Kept(c) /\ stored' = stored /\ (run'[c].phase = "none" \/ run'[c].plan = p)
      BY <1>w, <1>y, <2>5, RefusedAsIsKeeps
    <3> QED BY <1>p, <1>u, <2>1, <2>5, <3>1
  <2> QED BY <2>2, <2>3, <2>4, <2>5
<1>3. ASSUME NextComplete(c) PROVE StepInv' /\ Halts
  <2>1. pc[c] = "idle" /\ stored.st # "Cancelled" /\ UNCHANGED <<pc, cur>>
    BY <1>3, <1>p DEF NextComplete, Asks
  <2>2. (Saved(c, To(p, "Complete"), NoRun) /\ Drop(c)) \/ RefusedUnsaved(c, To(p, "Complete"))
    BY <1>3 DEF NextComplete
  <2>3. /\ Kept(c) /\ stored' \in {stored, To(p, "Complete")}
        /\ run'[c].phase = "none" \/ run'[c].plan = To(p, "Complete")
    BY <1>t, <1>w, <1>y, <2>2, NoRunType, SavedKeeps, RefusedUnsavedKeeps
  <2> QED BY <1>t, <1>u, <2>1, <2>3
<1>4. ASSUME NextReview(c) PROVE StepInv' /\ Halts
  <2>1. /\ stored.st # "Cancelled" /\ p.final = NoOp /\ \A o \in Ops : ~UnderWay(o)
    <3>1. CASE pc[c] = "advanced"
      BY <1>p, <3>1 DEF StepInv, BuildInv, QuietInv
    <3>2. CASE Asks(c) /\ Ready(p) /\ p.final = NoOp
      BY <1>p, <1>o, <3>2 DEF Asks
    <3> QED BY <1>4, <3>1, <3>2 DEF NextReview
  <2>2. \/ LastWords(c, To(p, "Paused")) /\ Goto(c, "idle", NoOp)
        \/ /\ Saved(c, To(p, "Review"), [run[c] EXCEPT !.phase = "preparing", !.plan = To(p, "Review")])
           /\ Goto(c, "building", NoOp) /\ lease' = lease
        \/ RefusedUnsaved(c, To(p, "Review")) /\ Goto(c, "idle", NoOp)
    BY <1>4 DEF NextReview
  <2>3. CASE LastWords(c, To(p, "Paused")) /\ Goto(c, "idle", NoOp)
    <3>1. Kept(c) /\ stored' \in {stored, To(p, "Paused")} /\ run'[c].phase = "none"
      BY <1>t, <1>w, <1>y, <2>3, NoRunType, LastWordsKeeps
    <3> QED BY <1>t, <1>u, <2>1, <2>3, <3>1
  <2>4. CASE /\ Saved(c, To(p, "Review"), [run[c] EXCEPT !.phase = "preparing", !.plan = To(p, "Review")])
             /\ Goto(c, "building", NoOp) /\ lease' = lease
    <3>1. Kept(c) /\ stored' = To(p, "Review") /\ run'[c].plan = To(p, "Review")
      BY <1>t, <1>v, <2>4
    <3>2. To(p, "Review").final = NoOp
      BY <2>1 DEF To, Plan
    <3> QED BY <1>t, <1>u, <2>1, <2>4, <3>1, <3>2
  <2>5. CASE RefusedUnsaved(c, To(p, "Review")) /\ Goto(c, "idle", NoOp)
    <3>1. /\ Kept(c) /\ stored' = stored
          /\ run'[c].phase = "none" \/ run'[c].plan = To(p, "Review")
      BY <1>t, <1>w, <1>y, <2>5, RefusedUnsavedKeeps
    <3> QED BY <1>t, <1>u, <2>1, <2>5, <3>1
  <2> QED BY <2>2, <2>3, <2>4, <2>5
<1> QED BY <1>1, <1>2, <1>3, <1>4

\* A review is built when nothing else is under way, of a stage that has no action.
LEMMA BuildOkStep ==
  ASSUME WalkInv, StepInv, WalkInv', NEW c \in Clients, NEW kind \in {"step", "final"}, BuildOk(c, kind)
  PROVE  StepInv' /\ Halts
<1>1. PICK o \in Ops, turn \in NextTurn :
        /\ Free(o) /\ journal' = [journal EXCEPT ![o] = Review(kind, Copy(c).stage, TRUE, turn)]
        /\ open' = [d \in Clients |-> IF d = c THEN open[d] \cup {o} ELSE open[d] \ {o}]
        /\ Goto(c, "built", o)
  BY DEF BuildOk
<1>2. pc[c] = "building" /\ UNCHANGED <<stored, run>> /\ Walks(c)
  BY DEF BuildOk, WalkInv, CallInv
<1>y. /\ journal \in [Ops -> Journal] /\ open \in [Clients -> SUBSET Ops]
      /\ pc \in [Clients -> {"idle", "advanced", "building", "built", "sent"}]
      /\ cur \in [Clients -> Ops \cup {NoOp}]
  BY DEF WalkInv, TypeOK
<1>3. /\ Copy(c) = stored /\ stored.final = NoOp /\ (\A x \in Ops : ~UnderWay(x))
      /\ stored.st # "Cancelled"
  BY <1>2 DEF StepInv, BuildInv, QuietInv, StopInv
<1>4. /\ \A d \in Clients \ {c} : ~Walks(d) /\ pc[d] # "built"
      /\ \A d \in Clients : pc[d] # "built"
      /\ stored.st # "none"
  BY <1>2, WalkerFacts
<1>5. /\ journal'[o].st = "prepared" /\ journal'[o].own /\ ~journal'[o].was
      /\ journal'[o].kind = kind /\ journal'[o].stage = stored.stage
      /\ \A x \in Ops \ {o} : journal'[x] = journal[x]
  BY <1>1, <1>3, <1>y DEF Review
<1>6. /\ pc'[c] = "built" /\ cur'[c] = o
      /\ \A d \in Clients \ {c} : pc'[d] = pc[d] /\ cur'[d] = cur[d]
  BY <1>1, <1>y DEF Goto
<1>7. \A d \in Clients : pc'[d] \in {"advanced", "building", "built"} => d = c
  BY <1>4, <1>6 DEF WalkInv, CallInv
<1>8. /\ \A x \in Ops \ {o}, d \in Clients : x \in open'[d] <=> x \in open[d]
      /\ \A d \in Clients \ {c} : o \notin open'[d]
  BY <1>1, <1>y
<1>9. NoOp \notin Ops /\ stored.stage \in Nat
  BY DEF NoOp, Ops, WalkInv, TypeOK, Plans
<1>l. ASSUME NEW x \in Ops \ {o}, Live(x)' PROVE Live(x) /\ journal'[x].stage < stored.stage
  <2>1. Live(x)
    BY <1>l, <1>5, <1>8 DEF Live, Sent
  <2>2. journal[x].stage < stored.stage
    BY <1>3, <1>4, <1>9, <2>1 DEF StepInv, StageInv, Covers, Built
  <2> QED BY <1>5, <2>1, <2>2
<1>10. WasInv'
  BY <1>5 DEF StepInv, WasInv
<1>11. HandInv'
  <2> SUFFICES ASSUME NEW d \in Clients, NEW x \in Ops, Walks(d)', InHand(x)'
               PROVE  x \in run'[d].plan.ops \/ (pc'[d] = "built" /\ cur'[d] = x)
    BY DEF HandInv, Copy, Built
  <2>1. d = c
    BY <1>2, <1>4 DEF Walks
  <2>2. CASE x # o
    <3>1. InHand(x)
      BY <1>5, <2>2 DEF InHand
    <3> QED BY <1>2, <1>4, <2>1, <3>1 DEF StepInv, HandInv, Built, Copy
  <2> QED BY <1>6, <2>1, <2>2
<1>12. BuildInv'
  <2> SUFFICES ASSUME NEW d \in Clients, pc'[d] \in {"advanced", "building", "built"}
               PROVE  run'[d].plan = stored' /\ stored'.final = NoOp
    BY DEF BuildInv, Copy
  <2> QED BY <1>2, <1>3, <1>7 DEF Copy
<1>13. QuietInv'
  BY <1>6, <1>7 DEF QuietInv
<1>14. BuiltInv'
  <2>1. \A d \in Clients : pc'[d] = "built" => d = c /\ cur'[d] = o
    BY <1>6, <1>7
  <2>2. ~Sent(o)' /\ journal'[o].stage = stored'.stage
    BY <1>2, <1>5 DEF Sent
  <2> QED BY <1>8, <2>1, <2>2 DEF BuiltInv, Sent
<1>15. FreshInv'
  BY <1>2, <1>3 DEF FreshInv
<1>16. StageInv'
  <2>1. ASSUME NEW x \in Ops, Live(x)'
        PROVE  \/ journal'[x].stage < stored.stage
               \/ journal'[x].stage = stored.stage /\ pc'[c] = "built" /\ cur'[c] = x
    BY <1>5, <1>6, <1>l, <2>1
  <2>2. Covers(stored)'
    BY <1>2, <2>1 DEF Covers, Built
  <2>3. ASSUME NEW d \in Clients, Walks(d)' PROVE Covers(Copy(d))'
    <3>1. run'[d].plan = stored
      BY <1>2, <1>3, <1>4, <2>3 DEF Walks, Copy
    <3> QED BY <2>1, <3>1 DEF Covers, Built, Copy
  <2> QED BY <2>2, <2>3 DEF StageInv
<1>17. UniqueInv'
  <2> SUFFICES ASSUME NEW x \in Ops, NEW z \in Ops, Live(x)', Live(z)', journal'[x].stage = journal'[z].stage
               PROVE  x = z
    BY DEF UniqueInv
  <2>1. CASE x # o /\ z # o
    BY <1>5, <1>l, <2>1 DEF StepInv, UniqueInv
  <2>2. CASE x = o /\ z # o
    <3>1. journal'[z].stage < stored.stage
      BY <1>l, <2>2
    <3> QED BY <1>5, <1>9, <2>2, <3>1
  <2>3. CASE x # o /\ z = o
    <3>1. journal'[x].stage < stored.stage
      BY <1>l, <2>3
    <3> QED BY <1>5, <1>9, <2>3, <3>1
  <2> QED BY <2>1, <2>2, <2>3
<1>18. OneStepAtATime'
  <2>1. \A x \in Ops : UnderWay(x)' => x = o
    BY <1>3, <1>5 DEF UnderWay
  <2> QED BY <2>1 DEF OneStepAtATime
<1>19. StopInv' /\ NewInv' /\ Halts
  <2>1. \A d \in Clients : Walks(d)' => run'[d].plan = stored
    BY <1>2, <1>3, <1>4 DEF Walks, Copy
  <2> QED BY <1>2, <1>3, <1>4, <2>1 DEF StopInv, NewInv, Halts, Copy
<1> QED BY <1>10, <1>11, <1>12, <1>13, <1>14, <1>15, <1>16, <1>17, <1>18, <1>19 DEF StepInv

\* The review is listed, as the action of its stage if it is one, or it is gone.
LEMMA CheckpointStep ==
  ASSUME WalkInv, StepInv, WalkInv', NEW c \in Clients, Checkpoint(c)
  PROVE  StepInv' /\ Halts
<1>1. PICK o : o = cur[c]
  OBVIOUS
<1> DEFINE p == Listed(Copy(c), o)
<1>2. /\ pc[c] = "built" /\ Walks(c) /\ o \in Ops /\ Goto(c, "idle", NoOp)
      /\ \/ /\ Saved(c, p, Runner("reviewing", o, run[c].last, p))
            /\ UNCHANGED <<journal, open, lease>>
         \/ RefusedUnsaved(c, p) /\ journal' = Set(o, "cancelled") /\ Close(c, {o})
  BY <1>1 DEF Checkpoint, WalkInv, CallInv
<1>y. TypeOK /\ OneWalker /\ WasInv
  BY DEF WalkInv, StepInv
<1>3. /\ Copy(c) = stored /\ stored.final = NoOp /\ stored.st # "Cancelled"
  BY <1>2 DEF StepInv, BuildInv, StopInv
<1>4. stored.st # "none" /\ \A d \in Clients \ {c} : ~Walks(d) /\ pc[d] # "built"
  BY <1>2, WalkerFacts
<1>5. p \in Plans /\ p.ops = stored.ops \cup {o} /\ p.st = stored.st /\ p.stage = stored.stage
      /\ (journal[o].kind = "final" => p.final = o)
  <2>1. stored \in Plans
    BY <1>y DEF TypeOK
  <2> QED BY <1>2, <1>3, <2>1, ListedType DEF Listed, Plan
<1>6. run[c].last \in BOOLEAN /\ run[c].current
  BY <1>2, <1>y DEF TypeOK, Runners, OneWalker
<1> HIDE DEF p
<1>7. LET r == Runner("reviewing", o, run[c].last, p) IN r \in Runners /\ r.current /\ r.plan = p
  BY <1>2, <1>5, <1>6 DEF Runner, Runners
<1>8. \/ Kept(c) /\ stored' = p /\ run'[c].plan = p /\ UNCHANGED <<journal, open>>
      \/ /\ Kept(c) /\ stored' = stored /\ (run'[c].phase = "none" \/ run'[c].plan = p)
         /\ journal' = Set(o, "cancelled") /\ Close(c, {o})
  BY <1>2, <1>5, <1>7, <1>y, SavedKeeps, RefusedUnsavedKeeps
<1>9. Goes
  <2>1. \A d \in Clients : open'[d] \subseteq open[d]
    BY <1>8, <1>y, Closed
  <2> QED BY <1>2, <1>8, <1>y, <2>1, LetGoes
<1>10. /\ \A d \in Clients \ {c} : ~Walks(d)'
       /\ \A d \in Clients : Walks(d)' => d = c /\ run'[d].plan = p
  BY <1>8 DEF Kept, Walks
<1>11. \A d \in Clients : pc'[d] \notin {"advanced", "building", "built"}
  <2>1. pc'[c] = "idle"
    BY <1>2, <1>y DEF Goto, TypeOK
  <2> QED BY <1>10, <2>1 DEF WalkInv, CallInv
<1>12. NoOp \notin Ops
  BY DEF NoOp, Ops
<1>13. WasInv' /\ UniqueInv' /\ OneStepAtATime'
  BY <1>9, RowsOnce
<1>14. \A x \in Ops : InHand(x)' => x \in p.ops
  <2> SUFFICES ASSUME NEW x \in Ops, InHand(x)' PROVE x \in p.ops
    OBVIOUS
  <2>1. InHand(x)
    BY <1>9 DEF Goes, InHand
  <2>2. x \in Copy(c).ops \/ Built(c, x)
    BY <1>2, <2>1 DEF StepInv, HandInv
  <2> QED BY <1>1, <1>3, <1>5, <2>2 DEF Built
<1>15. HandInv'
  <2> SUFFICES ASSUME NEW d \in Clients, NEW x \in Ops, Walks(d)', InHand(x)'
               PROVE  x \in run'[d].plan.ops
    BY DEF HandInv, Copy, Built
  <2> QED BY <1>10, <1>14
<1>16. BuildInv' /\ QuietInv' /\ BuiltInv'
  BY <1>11 DEF BuildInv, QuietInv, BuiltInv
<1>17. FreshInv'
  <2> SUFFICES ASSUME NEW x \in Ops, InHand(x)', x \notin stored'.ops, journal'[x].kind = "final"
               PROVE  stored'.final = NoOp
    BY DEF FreshInv
  <2> QED BY <1>3, <1>8, <1>14
<1>18. StageInv'
  <2>1. ASSUME NEW x \in Ops, Live(x)'
        PROVE  \/ journal'[x].stage < stored.stage
               \/ journal'[x].stage = stored.stage /\ stored' = p /\ p.final = x
    <3>1. Live(x) /\ journal'[x].stage = journal[x].stage /\ InHand(x)
      BY <1>9, <2>1, LiveGoes
    <3>2. \/ journal[x].stage < stored.stage
          \/ journal[x].stage = stored.stage /\ \E d \in Clients : Built(d, x)
      BY <1>3, <1>12, <3>1 DEF StepInv, StageInv, Covers
    <3>3. CASE journal[x].stage = stored.stage /\ \E d \in Clients : Built(d, x)
      <4>1. x = o
        BY <1>1, <1>4, <3>3 DEF Built
      <4>2. journal[x].kind = "final"
        BY <3>1 DEF Live
      <4>3. journal'[x].st # "cancelled"
        BY <2>1 DEF Live, Sent
      <4>4. journal' = Set(o, "cancelled") => journal'[x].st = "cancelled"
        BY <1>y, <4>1 DEF Set, TypeOK, Journal
      <4> QED BY <1>5, <1>8, <3>1, <3>3, <4>1, <4>2, <4>3, <4>4
    <3> QED BY <3>1, <3>2, <3>3
  <2>2. Covers(stored)'
    BY <1>5, <1>8, <2>1 DEF Covers
  <2>3. ASSUME NEW d \in Clients, Walks(d)' PROVE Covers(Copy(d))'
    <3>1. run'[d].plan = p
      BY <1>10, <2>3
    <3> QED BY <1>5, <2>1, <3>1 DEF Covers, Copy
  <2> QED BY <2>2, <2>3 DEF StageInv
<1>19. StopInv' /\ NewInv' /\ Halts
  <2>1. stored'.st # "Cancelled" /\ stored'.st # "none"
    BY <1>3, <1>4, <1>5, <1>8
  <2>2. \A d \in Clients : Walks(d)' => run'[d].plan.st # "none"
    BY <1>4, <1>5, <1>10
  <2> QED BY <1>3, <2>1, <2>2 DEF StopInv, NewInv, Halts, Copy
<1> QED BY <1>13, <1>15, <1>16, <1>17, <1>18, <1>19 DEF StepInv

\* A review that could not be prepared: the plan stops.
LEMMA BuildFailsStep ==
  ASSUME WalkInv, StepInv, WalkInv', NEW c \in Clients, BuildFails(c)
  PROVE  StepInv' /\ Halts
<1>1. /\ pc[c] = "building" /\ Walks(c) /\ UNCHANGED <<journal, open>> /\ Goto(c, "idle", NoOp)
  BY DEF BuildFails, WalkInv, CallInv
<1>2. PICK st \in {"Cancelled", "Paused"} : LastWords(c, To(Copy(c), st))
  BY DEF BuildFails
<1>3. Copy(c) \in Plans /\ Covers(Copy(c)) /\ stored.st # "Cancelled"
  BY <1>1, WalkerFacts
<1> DEFINE p == To(Copy(c), st)
<1>4. st \in PlanState
  BY DEF PlanState
<1>5. p \in Plans /\ p.ops = Copy(c).ops /\ p.st # "none"
  BY <1>3, <1>4, ToType DEF PlanState
<1>6. Covers(p)
  BY <1>3, <1>4, CoversTo
<1>7. Goes
  BY <1>1, StillGoes
<1> HIDE DEF p
<1>8. Kept(c) /\ stored' \in {stored, p} /\ run'[c].phase = "none"
  BY <1>1, <1>2, <1>5, LastWordsKeeps, NoRunType DEF WalkInv, p
<1>9. pc'[c] = "idle" /\ \A d \in Clients \ {c} : pc'[d] = pc[d] /\ cur'[d] = cur[d]
  BY <1>1 DEF Goto, WalkInv, TypeOK
<1>10. Halts
  BY <1>3 DEF Halts
<1> QED BY <1>1, <1>5, <1>6, <1>7, <1>8, <1>9, <1>10, WalkerStep

\* A walker's last words, when the plan pauses or is cancelled.
LEMMA LastStep ==
  ASSUME WalkInv, StepInv, WalkInv', Goes, NEW c \in Clients, Walks(c), pc[c] \in {"idle", "sent"},
         NEW st \in {"Paused", "Cancelled"}, LastWords(c, To(Copy(c), st)),
         UNCHANGED <<pc, cur>> \/ Goto(c, "idle", NoOp)
  PROVE  StepInv' /\ Halts
<1> DEFINE p == To(Copy(c), st)
<1>1. Copy(c) \in Plans /\ Covers(Copy(c)) /\ st \in PlanState
  BY WalkerFacts DEF PlanState
<1>2. p \in Plans /\ p.ops = Copy(c).ops /\ p.st = st
  BY <1>1, ToType
<1>3. Covers(p)
  BY <1>1, CoversTo
<1> HIDE DEF p
<1>4. Kept(c) /\ stored' \in {stored, p} /\ run'[c].phase = "none"
  BY <1>2, LastWordsKeeps, NoRunType DEF WalkInv, p
<1>5. pc'[c] \in {"idle", "sent"} /\ \A d \in Clients \ {c} : pc'[d] = pc[d] /\ cur'[d] = cur[d]
  BY DEF Goto, WalkInv, TypeOK
<1>6. Halts
  BY <1>2, <1>4 DEF Halts
<1> QED BY <1>2, <1>3, <1>4, <1>5, <1>6, WalkerStep

\* The same when the client walks nothing, or what it walks goes on as it is.
LEMMA SameStep ==
  ASSUME WalkInv, StepInv, WalkInv', Goes, NEW c \in Clients, stored' = stored,
         \/ run' = run
         \/ run' = [run EXCEPT ![c].phase = "waiting"] /\ Walks(c)
         \/ run' = [run EXCEPT ![c].phase = "ready"] /\ Walks(c)
         \/ run' = [run EXCEPT ![c].phase = "ready", ![c].on = NoOp] /\ Walks(c)
         \/ run' = [run EXCEPT ![c] = NoRun],
         \/ UNCHANGED <<pc, cur>>
         \/ pc[c] # "built" /\ \E place \in {"idle", "sent"}, o \in Ops \cup {NoOp} : Goto(c, place, o)
  PROVE  StepInv' /\ Halts
<1>y. run \in [Clients -> Runners] /\ pc \in [Clients -> {"idle", "advanced", "building", "built", "sent"}]
      /\ cur \in [Clients -> Ops \cup {NoOp}]
  BY DEF WalkInv, TypeOK
<1>1. ASSUME NEW d \in Clients, Walks(d)'
      PROVE  Walks(d) /\ run'[d].plan = run[d].plan /\ run'[d].phase \in {run[d].phase, "ready", "waiting"}
  <2>1. CASE run' = run
    BY <1>1, <2>1 DEF Walks
  <2>2. CASE run' = [run EXCEPT ![c].phase = "waiting"] /\ Walks(c)
    BY <1>1, <1>y, <2>2 DEF Walks, Runners
  <2>3. CASE run' = [run EXCEPT ![c].phase = "ready"] /\ Walks(c)
    BY <1>1, <1>y, <2>3 DEF Walks, Runners
  <2>4. CASE run' = [run EXCEPT ![c].phase = "ready", ![c].on = NoOp] /\ Walks(c)
    <3>1. d = c => run'[d].plan = run[d].plan /\ run'[d].phase = "ready"
      BY <1>y, <2>4 DEF Runners
    <3>2. d # c => run'[d] = run[d]
      BY <1>y, <2>4
    <3> QED BY <1>1, <2>4, <3>1, <3>2 DEF Walks
  <2>5. CASE run' = [run EXCEPT ![c] = NoRun]
    BY <1>1, <1>y, <2>5, NoRunType DEF Walks
  <2> QED BY <2>1, <2>2, <2>3, <2>4, <2>5
<1>2. \A d \in Clients : \/ pc'[d] = pc[d] /\ cur'[d] = cur[d]
                         \/ pc[d] # "built" /\ pc'[d] \in {"idle", "sent"}
  BY <1>y DEF Goto
<1>3. Halts
  BY DEF Halts
<1> QED BY <1>1, <1>2, <1>3, GoesOn

\* The user's answer, and the step that is waited on.
LEMMA AnswerStep ==
  ASSUME WalkInv, StepInv, WalkInv', NEW c \in Clients,
         Answered(c) \/ AnswerLost(c) \/ AnsweredAlone(c) \/ PollIn(c) \/ PollOut(c) \/ GiveUp(c)
  PROVE  StepInv' /\ Halts
<1>j. Goes
  BY StillGoes DEF Answered, AnswerLost, AnsweredAlone, PollIn, PollOut, GiveUp
<1>o. NoOp \in Ops \cup {NoOp}
  OBVIOUS
<1>y. TypeOK /\ OneWalker
  BY DEF WalkInv
<1>1. ASSUME Answered(c) PROVE StepInv' /\ Halts
  <2>1. PICK o \in Ops \cup {NoOp}, last \in BOOLEAN :
          o = cur[c] /\ last = (journal[o].kind = "final" /\ Copy(c).stage = LastStage)
    BY <1>y DEF TypeOK
  <2> DEFINE p == To(Copy(c), "Waiting")
             r == Runner("waiting", o, last, p)
             w == [run[c] EXCEPT !.plan = p]
  <2>2. Walks(c) /\ pc[c] = "sent" /\ Goto(c, "idle", NoOp) /\ run[c].phase = "reviewing"
    BY <1>1 DEF Answered, Reviews, Walks
  <2>3. \/ Saved(c, p, r) /\ lease' = lease
        \/ (Saved(c, p, NoRun) \/ Unsaved(c, NoRun)) /\ Drop(c)
        \/ Unsaved(c, w) /\ lease' = lease
    BY <1>1, <2>1 DEF Answered
  <2>4. Copy(c) \in Plans /\ Covers(Copy(c)) /\ stored.st # "Cancelled" /\ "Waiting" \in PlanState
    BY <2>2, WalkerFacts DEF PlanState
  <2>5. p \in Plans /\ p.ops = Copy(c).ops /\ p.st = "Waiting"
    BY <2>4, ToType
  <2>6. Covers(p)
    BY <2>4, CoversTo
  <2>7. r \in Runners /\ r.current /\ r.plan = p
    BY <2>1, <2>5 DEF Runner, Runners
  <2>8. w \in Runners /\ w.current /\ w.plan = p
    <3>1. run[c] \in Runners /\ run[c].current
      BY <1>y, <2>2 DEF TypeOK, OneWalker
    <3> QED BY <2>5, <3>1 DEF Runners
  <2> HIDE DEF p, r, w
  <2>9. Kept(c) /\ stored' \in {stored, p} /\ (run'[c].phase = "none" \/ run'[c].plan = p)
    <3>1. CASE Saved(c, p, r) /\ lease' = lease
      BY <1>y, <2>2, <2>5, <2>7, <3>1, SavedKeeps
    <3>2. CASE Saved(c, p, NoRun) /\ Drop(c)
      BY <1>y, <2>2, <2>5, <3>2, NoRunType, SavedKeeps
    <3>3. CASE Unsaved(c, NoRun) /\ Drop(c)
      BY <1>y, <2>2, <3>3, NoRunType, UnsavedKeeps
    <3>4. CASE Unsaved(c, w) /\ lease' = lease
      BY <1>y, <2>2, <2>8, <3>4, UnsavedKeeps
    <3> QED BY <2>3, <3>1, <3>2, <3>3, <3>4
  <2>10. pc'[c] = "idle" /\ \A d \in Clients \ {c} : pc'[d] = pc[d] /\ cur'[d] = cur[d]
    BY <1>y, <2>2 DEF Goto, TypeOK
  <2>11. stored'.st # "Cancelled"
    BY <2>4, <2>5, <2>9
  <2>12. Halts
    BY <2>4 DEF Halts
  <2> QED BY <1>j, <2>2, <2>5, <2>6, <2>9, <2>10, <2>11, <2>12, WalkerStep
<1>2. ASSUME AnswerLost(c) PROVE StepInv' /\ Halts
  <2>1. Walks(c) /\ pc[c] = "sent" /\ Goto(c, "idle", NoOp)
    BY <1>2 DEF AnswerLost, Reviews, Walks
  <2>2. CASE LastWords(c, To(Copy(c), "Paused"))
    BY <1>j, <2>1, <2>2, LastStep
  <2>3. CASE run' = [run EXCEPT ![c].phase = "waiting"] /\ UNCHANGED <<stored, lease, faults>>
    BY <1>j, <1>o, <2>1, <2>3, SameStep
  <2> QED BY <1>2, <2>2, <2>3 DEF AnswerLost
<1>3. ASSUME AnsweredAlone(c) PROVE StepInv' /\ Halts
  BY <1>3, <1>j, <1>o, SameStep DEF AnsweredAlone
<1>4. ASSUME PollIn(c) PROVE StepInv' /\ Halts
  BY <1>4, <1>j, SameStep DEF PollIn, Walks
<1>5. ASSUME PollOut(c) \/ GiveUp(c) PROVE StepInv' /\ Halts
  <2>1. Walks(c) /\ pc[c] = "idle" /\ UNCHANGED <<pc, cur>> /\ LastWords(c, To(Copy(c), "Paused"))
    BY <1>5 DEF PollOut, GiveUp, Walks
  <2> QED BY <1>j, <2>1, LastStep
<1> QED BY <1>1, <1>2, <1>3, <1>4, <1>5

\* Rows that a user lets go, or signs.
LEMMA SignGoes == ASSUME WalkInv, StepInv, NEW c \in Clients, NEW o \in Ops, Sign(c, o) PROVE Goes
<1>y. TypeOK /\ WasInv /\ journal \in [Ops -> Journal]
  BY DEF WalkInv, StepInv, TypeOK
<1>1. /\ pc[c] = "idle" /\ o \in open[c] /\ journal[o].st = "prepared"
      /\ journal' = Set(o, "signed") /\ Close(c, {o})
  BY DEF Sign
<1>2. /\ journal'[o].st = "signed" /\ \A x \in Ops \ {o} : journal'[x] = journal[x]
      /\ journal'[o].own = journal[o].own /\ journal'[o].kind = journal[o].kind
      /\ journal'[o].stage = journal[o].stage /\ journal'[o].was = journal[o].was
  BY <1>1, <1>y DEF Set, Journal
<1>3. \A d \in Clients : open'[d] \subseteq open[d]
  BY <1>1, <1>y, Closed
<1>4. WasInv'
  BY <1>2, <1>y DEF WasInv
<1> QED BY <1>1, <1>2, <1>3, <1>4 DEF Goes, InHand, UnderWay, Sent

\* What the user asks: to sign, to reject, to cancel, to lock.
LEMMA AskStep ==
  ASSUME WalkInv, StepInv, WalkInv', NEW c \in Clients,
         Cancel(c) \/ Lock(c) \/ \E o \in Ops : Sign(c, o) \/ SignRefused(c, o) \/ Reject(c, o)
  PROVE  StepInv' /\ Halts
<1>y. TypeOK /\ WasInv
  BY DEF WalkInv, StepInv
<1>1. ASSUME Cancel(c) PROVE StepInv' /\ Halts
  <2>1. \A d \in Clients : open'[d] \subseteq open[d]
    BY <1>1, <1>y, Closed DEF Cancel
  <2>2. Goes
    BY <1>1, <1>y, <2>1, LetGoes DEF Cancel
  <2> QED BY <1>1, <2>2, LastStep DEF Cancel
<1>2. ASSUME Lock(c) PROVE StepInv' /\ Halts
  <2>1. \A d \in Clients : open'[d] \subseteq open[d]
    BY <1>2, <1>y DEF Lock, TypeOK
  <2>2. Goes
    BY <1>2, <1>y, <2>1, LetGoes DEF Lock
  <2>3. \/ run' = run
        \/ run' = [run EXCEPT ![c].phase = "ready", ![c].on = NoOp] /\ Walks(c)
    BY <1>2 DEF Lock, Walks
  <2>4. UNCHANGED <<pc, cur>> /\ stored' = stored
    BY <1>2 DEF Lock
  <2> QED BY <2>2, <2>3, <2>4, SameStep
<1>3. ASSUME NEW o \in Ops, Sign(c, o) PROVE StepInv' /\ Halts
  <2>1. Goes
    BY <1>3, SignGoes
  <2>2. pc[c] # "built" /\ Goto(c, "sent", o) /\ stored' = stored /\ run' = run
    BY <1>3 DEF Sign
  <2> QED BY <2>1, <2>2, SameStep
<1>4. ASSUME NEW o \in Ops, SignRefused(c, o) \/ Reject(c, o) PROVE StepInv' /\ Halts
  <2>1. \A d \in Clients : open'[d] \subseteq open[d]
    BY <1>4, <1>y, Closed DEF SignRefused, Reject
  <2>2. Goes
    BY <1>4, <1>y, <2>1, LetGoes DEF SignRefused, Reject
  <2>3. pc[c] = "idle" /\ UNCHANGED <<pc, cur>>
    BY <1>4 DEF SignRefused, Reject
  <2>4. CASE Reviews(c, o)
    <3>1. Walks(c) /\ LastWords(c, To(Copy(c), "Paused"))
      BY <1>4, <2>4 DEF SignRefused, Reject, Reviews, Walks
    <3> QED BY <2>2, <2>3, <3>1, LastStep
  <2>5. CASE ~Reviews(c, o)
    <3>1. stored' = stored /\ run' = run
      BY <1>4, <2>5 DEF SignRefused, Reject
    <3> QED BY <2>2, <2>3, <3>1, SameStep
  <2> QED BY <2>4, <2>5
<1> QED BY <1>1, <1>2, <1>3, <1>4

\* A client that turns away, or dies: a review it built and had not listed is signed by nobody.
LEMMA DropStep ==
  ASSUME WalkInv, StepInv, WalkInv', NEW c \in Clients, Switch(c) \/ Crash(c)
  PROVE  StepInv' /\ Halts
<1>y. TypeOK /\ WasInv
  BY DEF WalkInv, StepInv
<1>1. /\ run' = [run EXCEPT ![c] = NoRun] /\ stored' = stored /\ open' = [open EXCEPT ![c] = {}]
      /\ \A d \in Clients \ {c} : pc'[d] = pc[d] /\ cur'[d] = cur[d]
      /\ pc'[c] = "idle"
  BY <1>y DEF Switch, Crash, Goto, TypeOK
<1>2. \A d \in Clients : open'[d] \subseteq open[d]
  BY <1>1, <1>y DEF TypeOK
<1>3. Goes
  BY <1>2, <1>y, LetGoes DEF Switch, Crash
<1>4. \A d \in Clients : Walks(d)' => d # c /\ run'[d] = run[d]
  BY <1>1, <1>y, NoRunType DEF Walks, TypeOK
<1>5. ASSUME NEW o \in Ops, pc[c] = "built", cur[c] = o PROVE ~Live(o)'
  <2>1. /\ journal[o].own => ~Sent(o)
        /\ \A d \in Clients \ {c} : o \notin open[d]
    BY <1>5 DEF StepInv, BuiltInv
  <2>2. \A d \in Clients : o \notin open'[d]
    BY <1>1, <1>y, <2>1 DEF TypeOK
  <2>3. journal' = journal
    BY <1>5 DEF Switch, Crash
  <2> QED BY <2>1, <2>2, <2>3 DEF Live, Sent
<1>6. \A d \in Clients :
        \/ pc'[d] = pc[d] /\ cur'[d] = cur[d]
        \/ /\ pc'[d] \in {"idle", "sent"} /\ ~Walks(d)'
           /\ \A o \in Ops : pc[d] = "built" /\ cur[d] = o => ~Live(o)'
  BY <1>1, <1>4, <1>5
<1>7. \A d \in Clients : Walks(d)' => Walks(d) /\ run'[d].plan = run[d].plan /\ run'[d].phase = run[d].phase
  BY <1>4 DEF Walks
<1>8. Halts
  BY <1>1 DEF Halts
<1> QED BY <1>1, <1>3, <1>6, <1>7, <1>8, GoesOn

\* The plan starts with no rows.
LEMMA StartStep == ASSUME WalkInv, StepInv, WalkInv', NEW c \in Clients, Start(c) PROVE StepInv' /\ Halts
<1> DEFINE p == Plan("Review", 0, {}, NoOp)
<1>1. /\ stored' = p /\ lease' = c /\ run' = [run EXCEPT ![c] = Runner("preparing", NoOp, FALSE, p)]
      /\ UNCHANGED <<journal, pc, cur, open, faults>> /\ lease = Nobody /\ stored = NoPlan
  BY DEF Start
<1>2. p.st = "Review" /\ stored.st = "none"
  BY <1>1 DEF Plan, NoPlan
<1>3. \A d \in Clients : ~Walks(d)
  BY <1>1, PlanNames DEF WalkInv, OneWalker
<1>4. \A d \in Clients : pc'[d] \notin {"advanced", "building", "built"}
  BY <1>1, <1>3 DEF WalkInv, CallInv
<1> HIDE DEF p
<1>5. \A d \in Clients : Walks(d)' => run'[d].plan = p
  <2>1. \A d \in Clients \ {c} : ~Walks(d)'
    BY <1>1, <1>3 DEF Walks, WalkInv, TypeOK
  <2>2. run'[c].plan = p
    BY <1>1 DEF WalkInv, TypeOK, Runner
  <2> QED BY <2>1, <2>2
<1>6. \A o \in Ops : ~InHand(o) /\ ~InHand(o)' /\ ~Live(o)'
  BY <1>1, <1>2 DEF StepInv, NewInv, InHand, Live, Sent
<1>7. Goes
  BY <1>1, StillGoes
<1>8. WasInv' /\ UniqueInv' /\ OneStepAtATime'
  BY <1>7, RowsOnce
<1>9. HandInv' /\ FreshInv'
  BY <1>6 DEF HandInv, FreshInv
<1>10. BuildInv' /\ QuietInv' /\ BuiltInv'
  BY <1>4 DEF BuildInv, QuietInv, BuiltInv
<1>11. StageInv'
  BY <1>6 DEF StageInv, Covers
<1>12. StopInv' /\ NewInv' /\ Halts
  BY <1>1, <1>2, <1>5 DEF StopInv, NewInv, Halts, Copy
<1> QED BY <1>8, <1>9, <1>10, <1>11, <1>12 DEF StepInv

\* Resuming adopts what no checkpoint lists: an action it finds takes the place of none.
LEMMA ResumeStep ==
  ASSUME WalkInv, StepInv, WalkInv', NEW c \in Clients, NEW d \in BOOLEAN, Resume(c, d)
  PROVE  StepInv' /\ Halts
<1>y. TypeOK /\ WasInv /\ journal \in [Ops -> Journal]
  BY DEF WalkInv, StepInv, TypeOK
<1>1. PICK final \in Ops \cup {NoOp} :
        /\ AdoptedFinal(final)
        /\ LET p == Adopted(final)
               q == IF d THEN Unreviewed(p) ELSE p
           IN /\ journal' = IF d THEN Abandoned(p.ops) ELSE journal
              /\ IF d THEN Close(c, p.ops) ELSE UNCHANGED open
              /\ \/ /\ stored' = q /\ lease' = c /\ faults' = faults
                    /\ \E r \in Resumed(c, q) :
                         run' = [x \in Clients |-> IF x = c THEN r ELSE [run[x] EXCEPT !.current = FALSE]]
                 \/ /\ faults < MaxFaults /\ faults' = faults + 1 /\ q # stored
                    /\ UNCHANGED <<stored, lease, run>>
  BY DEF Resume
<1>2. stored # NoPlan /\ lease = Nobody /\ UNCHANGED <<pc, cur>>
  BY DEF Resume
<1> DEFINE p == Adopted(final)
           q == IF d THEN Unreviewed(p) ELSE p
<1>3. p \in Plans /\ q \in Plans /\ p.ops = stored.ops \cup Unlisted
      /\ q.ops = IF d THEN {o \in p.ops : ~Unsigned(o)} ELSE p.ops
  BY <1>y, <1>2, ResumeTypes
<1>4. p.st = stored.st /\ p.stage = stored.stage /\ p.final = final /\ q.st = stored.st /\ q.stage = stored.stage
      /\ q.final \in {final, NoOp}
      /\ (q.final # final => d /\ final \in p.ops /\ Unsigned(final))
  <2>1. p.st = stored.st /\ p.stage = stored.stage /\ p.final = final
    BY DEF Adopted, Plan
  <2> HIDE DEF p
  <2>2. /\ Unreviewed(p).st = p.st /\ Unreviewed(p).stage = p.stage
        /\ Unreviewed(p).final = IF p.final # NoOp /\ p.final \in p.ops /\ Unsigned(p.final) THEN NoOp ELSE p.final
    BY DEF Unreviewed, Plan
  <2> QED BY <2>1, <2>2
<1>5. \A x \in Clients : ~Walks(x) /\ pc[x] \notin {"advanced", "building", "built"}
  BY <1>2, PlanNames DEF WalkInv, OneWalker, CallInv
<1>6. Goes
  <2>1. \A x \in Clients : open'[x] \subseteq open[x]
    BY <1>1, <1>y, Closed
  <2>2. CASE d
    BY <1>1, <1>y, <2>1, <2>2, LetGoes
  <2>3. CASE ~d
    BY <1>1, <1>y, <2>1, <2>3, LetGoes
  <2> QED BY <2>2, <2>3
<1>7. CASE UNCHANGED <<stored, run>>
  BY <1>2, <1>6, <1>7, SameStep
<1>8. CASE stored' = q /\ \E r \in Resumed(c, q) :
             run' = [x \in Clients |-> IF x = c THEN r ELSE [run[x] EXCEPT !.current = FALSE]]
  <2>1. ASSUME NEW x \in Ops, x \in p.ops, d, journal'[x].st # "cancelled" PROVE journal[x].st # "prepared"
    BY <1>1, <1>y, <2>1 DEF Abandoned, Journal
  <2>2. ASSUME NEW x \in Ops, InHand(x)' PROVE x \in q.ops
    <3>1. InHand(x)
      BY <1>6, <2>2 DEF Goes, InHand
    <3>2. x \in p.ops
      BY <1>3, <3>1 DEF Unlisted, InHand
    <3>3. d => journal[x].st # "prepared"
      BY <2>1, <2>2, <3>2 DEF InHand
    <3> QED BY <1>3, <3>1, <3>2, <3>3 DEF Unsigned, InHand
  <2>3. ASSUME NEW x \in Ops, Live(x)'
        PROVE  \/ journal'[x].stage < stored.stage
               \/ journal'[x].stage = stored.stage /\ q.final = x
    <3>1. Live(x) /\ journal'[x].stage = journal[x].stage
      BY <1>6, <2>3, LiveGoes
    <3>2. \/ journal[x].stage < stored.stage
          \/ journal[x].stage = stored.stage /\ stored.final = x
      BY <1>5, <3>1 DEF StepInv, StageInv, Covers, Built
    <3>3. ASSUME stored.final = x PROVE q.final = x
      <4>1. NoOp \notin Ops
        BY DEF NoOp, Ops
      <4>2. \A o \in Unlisted : journal[o].kind # "final"
        BY <3>3, <4>1 DEF StepInv, FreshInv, Unlisted, InHand
      <4>3. final = x
        BY <1>1, <3>3, <4>2 DEF AdoptedFinal
      <4>4. Unsigned(x) => journal[x].st = "prepared"
        BY <3>1 DEF Unsigned, Live, Sent
      <4>5. journal'[x].st # "cancelled"
        BY <2>3 DEF Live, Sent
      <4> HIDE DEF p, q
      <4> QED BY <1>4, <2>1, <4>3, <4>4, <4>5
    <3> QED BY <3>1, <3>2, <3>3
  <2> HIDE DEF p, q
  <2>4. PICK r \in Resumed(c, q) :
          run' = [x \in Clients |-> IF x = c THEN r ELSE [run[x] EXCEPT !.current = FALSE]]
    BY <1>8
  <2>5. r.plan = q
    BY <1>3, <1>y, <2>4, ResumedType
  <2>6. r.phase \in {"waiting", "ready"}
    <3> DEFINE sent == {o \in q.ops : Sent(o)}
    <3>1. CASE sent = {}
      <4>1. r = Runner("ready", NoOp, FALSE, q)
        BY <2>4, <3>1 DEF Resumed
      <4> QED BY <4>1 DEF Runner
    <3>2. CASE sent # {}
      <4>1. PICK o \in Newest(sent), last \in BOOLEAN : r = Runner("waiting", o, last, q)
        BY <2>4, <3>2 DEF Resumed
      <4> QED BY <4>1 DEF Runner
    <3> QED BY <3>1, <3>2
  <2>7. \A x \in Clients : [run[x] EXCEPT !.current = FALSE].phase = run[x].phase
    BY <1>y DEF TypeOK, Runners
  <2>8. \A x \in Clients : Walks(x)' => run'[x].plan = q /\ run'[x].phase \in {"waiting", "ready"}
    BY <1>5, <2>4, <2>5, <2>6, <2>7 DEF Walks
  <2>9. WasInv' /\ UniqueInv' /\ OneStepAtATime'
    BY <1>6, RowsOnce
  <2>10. HandInv'
    <3> SUFFICES ASSUME NEW x \in Clients, NEW o \in Ops, Walks(x)', InHand(o)'
                 PROVE  o \in run'[x].plan.ops
      BY DEF HandInv, Copy, Built
    <3> QED BY <2>2, <2>8
  <2>11. FreshInv'
    BY <1>8, <2>2 DEF FreshInv
  <2>12. \A x \in Clients : pc'[x] \notin {"advanced", "building", "built"}
    BY <1>2, <1>5
  <2>13. BuildInv' /\ QuietInv' /\ BuiltInv'
    BY <2>12 DEF BuildInv, QuietInv, BuiltInv
  <2>14. StageInv'
    <3>1. Covers(stored)'
      BY <1>4, <1>8, <2>3 DEF Covers
    <3>2. ASSUME NEW x \in Clients, Walks(x)' PROVE Covers(Copy(x))'
      <4>1. run'[x].plan = q
        BY <2>8, <3>2
      <4> QED BY <1>4, <2>3, <4>1 DEF Covers, Copy
    <3> QED BY <3>1, <3>2 DEF StageInv
  <2>15. stored.st # "none"
    BY <1>2 DEF StepInv, NewInv
  <2>16. StopInv' /\ NewInv' /\ Halts
    BY <1>4, <1>8, <2>8, <2>12, <2>15 DEF StopInv, NewInv, Halts, Copy
  <2> QED BY <2>9, <2>10, <2>11, <2>13, <2>14, <2>16 DEF StepInv
<1> QED BY <1>1, <1>7, <1>8

\* The chain and other spends of the account take rows further, or away.
LEMMA ChainStep == ASSUME WalkInv, StepInv, WalkInv', Chain PROVE StepInv' /\ Halts
<1>y. TypeOK /\ WasInv /\ journal \in [Ops -> Journal]
  BY DEF WalkInv, StepInv, TypeOK
<1>1. PICK o \in Ops :
        \/ Included(o, "confirmed") \/ Included(o, "failed") \/ Receipt(o) \/ Undone(o) \/ Abandon(o)
        \/ OtherSigned(o) \/ \E kind \in {"step", "final"} : Reuse(o, kind)
  BY DEF Chain
<1>2. UNCHANGED <<stored, run, pc, cur>>
  BY <1>1 DEF Included, Receipt, Undone, Abandon, OtherSigned, Reuse
<1>3. \A c \in Clients : open'[c] \subseteq open[c]
  BY <1>1 DEF Included, Receipt, Undone, Abandon, OtherSigned, Reuse
<1>o. journal[o] \in Journal /\ (journal[o].st = "confirmed" => journal[o].was)
  BY <1>y DEF WasInv
<1>4. Goes
  <2>1. CASE Abandon(o)
    BY <2>1, <1>y, <1>3, LetGoes DEF Abandon
  <2>2. ASSUME \A x \in Ops \ {o} : journal'[x] = journal[x],
               ~journal'[o].own
                 \/ /\ journal'[o].own = journal[o].own /\ journal'[o].kind = journal[o].kind
                    /\ journal'[o].stage = journal[o].stage /\ Sent(o)
                    /\ journal'[o].st \in {"signed", "confirmed", "failed"}
                    /\ journal'[o].st = "signed" => journal'[o].was,
               journal'[o].st = "confirmed" => journal'[o].was
        PROVE  Goes
    <3>1. WasInv'
      BY <1>y, <2>2 DEF WasInv
    <3> QED BY <1>3, <2>2, <3>1 DEF Goes, InHand, UnderWay, Sent
  <2>3. ASSUME NEW st \in {"confirmed", "failed"}, Included(o, st) PROVE Goes
    <3>1. /\ journal' = [journal EXCEPT ![o].st = st, ![o].was = @ \/ st = "confirmed", ![o].paid = FALSE]
          /\ journal[o].st = "signed"
      BY <2>3 DEF Included
    <3>2. PICK j : j = [journal[o] EXCEPT !.st = st, !.was = @ \/ st = "confirmed", !.paid = FALSE]
      OBVIOUS
    <3>3. /\ j.st = st /\ j.was = (journal[o].was \/ st = "confirmed") /\ j.own = journal[o].own
          /\ j.kind = journal[o].kind /\ j.stage = journal[o].stage
      BY <1>o, <3>2 DEF Journal
    <3>4. journal'[o] = j /\ \A x \in Ops \ {o} : journal'[x] = journal[x]
      BY <1>y, <3>1, <3>2
    <3> QED BY <2>2, <3>1, <3>3, <3>4 DEF Sent
  <2>4. CASE Receipt(o)
    <3>1. /\ journal'[o].st = journal[o].st /\ journal'[o].was = journal[o].was
          /\ journal'[o].own = journal[o].own /\ journal'[o].kind = journal[o].kind
          /\ journal'[o].stage = journal[o].stage /\ journal[o].st = "confirmed"
          /\ \A x \in Ops \ {o} : journal'[x] = journal[x]
      BY <1>o, <1>y, <2>4 DEF Receipt, Journal
    <3> QED BY <1>o, <2>2, <3>1 DEF Sent
  <2>5. CASE Undone(o)
    <3>1. /\ journal'[o].st = "signed" /\ journal'[o].was = journal[o].was
          /\ journal'[o].own = journal[o].own /\ journal'[o].kind = journal[o].kind
          /\ journal'[o].stage = journal[o].stage /\ journal[o].st = "confirmed"
          /\ \A x \in Ops \ {o} : journal'[x] = journal[x]
      BY <1>o, <1>y, <2>5 DEF Undone, Journal
    <3> QED BY <1>o, <2>2, <3>1 DEF Sent
  <2>6. CASE OtherSigned(o) \/ \E kind \in {"step", "final"} : Reuse(o, kind)
    <3>1. /\ ~journal'[o].own /\ journal'[o].st # "confirmed"
          /\ \A x \in Ops \ {o} : journal'[x] = journal[x]
      BY <2>6, <1>y DEF OtherSigned, Set, Reuse, Review, Journal
    <3> QED BY <2>2, <3>1
  <2> QED BY <1>1, <2>1, <2>3, <2>4, <2>5, <2>6
<1> QED
  <2>1. \A c \in Clients : Walks(c)' => Walks(c) /\ run'[c].plan = run[c].plan /\ run'[c].phase = run[c].phase
    BY <1>2 DEF Walks
  <2>2. Halts
    BY <1>2 DEF Halts
  <2> QED BY <1>2, <1>4, <2>1, <2>2, GoesOn

\* Every step keeps one step at a time, and leaves a cancelled plan cancelled or paused.
THEOREM OneStepKept == WalkInv /\ StepInv /\ [Next]_vars => StepInv' /\ Halts
<1> SUFFICES ASSUME WalkInv, StepInv, [Next]_vars PROVE StepInv' /\ Halts
  OBVIOUS
<1>w. WalkInv'
  BY WalkStep
<1>1. ASSUME NEW c \in Clients, Walk(c) PROVE StepInv' /\ Halts
  <2>1. CASE NextRefused(c) \/ NextAdvance(c) \/ NextComplete(c) \/ NextReview(c)
    BY <1>w, <2>1, NextStep
  <2>2. CASE \E kind \in {"step", "final"} : BuildOk(c, kind)
    BY <1>w, <2>2, BuildOkStep
  <2>3. CASE BuildFails(c)
    BY <1>w, <2>3, BuildFailsStep
  <2>4. CASE Checkpoint(c)
    BY <1>w, <2>4, CheckpointStep
  <2>5. CASE Answered(c) \/ AnswerLost(c) \/ AnsweredAlone(c) \/ PollIn(c) \/ PollOut(c)
    BY <1>w, <2>5, AnswerStep
  <2> QED BY <1>1, <2>1, <2>2, <2>3, <2>4, <2>5 DEF Walk
<1>2. ASSUME NEW c \in Clients, Ask(c) PROVE StepInv' /\ Halts
  <2>1. CASE Start(c)
    BY <1>w, <2>1, StartStep
  <2>2. CASE \E d \in BOOLEAN : Resume(c, d)
    BY <1>w, <2>2, ResumeStep
  <2>3. CASE GiveUp(c)
    BY <1>w, <2>3, AnswerStep
  <2>4. CASE Switch(c) \/ Crash(c)
    BY <1>w, <2>4, DropStep
  <2>5. CASE Cancel(c) \/ Lock(c) \/ \E o \in Ops : Sign(c, o) \/ SignRefused(c, o) \/ Reject(c, o)
    BY <1>w, <2>5, AskStep
  <2> QED BY <1>2, <2>1, <2>2, <2>3, <2>4, <2>5 DEF Ask
<1>3. ASSUME UNCHANGED vars PROVE StepInv' /\ Halts
  <2>1. Goes
    BY <1>3, StillGoes DEF vars
  <2>2. \A c \in Clients : Walks(c)' => Walks(c) /\ run'[c].plan = run[c].plan /\ run'[c].phase = run[c].phase
    BY <1>3 DEF vars, Walks
  <2>3. stored' = stored /\ pc' = pc /\ cur' = cur /\ Halts
    BY <1>3 DEF vars, Halts
  <2> QED BY <1>w, <2>1, <2>2, <2>3, GoesOn
<1> QED BY <1>1, <1>2, <1>3, <1>w, ChainStep DEF Next

-----------------------------------------------------------------------------
(* The theorems. *)

PlanInv == WalkInv /\ ListInv /\ StepInv

\* Nothing walks, and nothing is signed, before the plan is started.
LEMMA PlanInit == Init => PlanInv
<1> SUFFICES ASSUME Init PROVE PlanInv
  OBVIOUS
<1>1. NoRow \in Journal /\ NoRow.st = "none"
  BY DEF NoRow, Review, Journal, Status
<1>2. TypeOK
  BY <1>1, NoRunType DEF Init, TypeOK
<1>3. OneWalker /\ CallInv /\ CopyInv /\ OpenInv
  BY NoRunType DEF Init, OneWalker, CallInv, CopyInv, OpenInv, Walks
<1>4. SignedIsListed
  BY <1>1 DEF Init, SignedIsListed, Sent
<1>5. \A o \in Ops : ~InHand(o) /\ ~Live(o) /\ ~UnderWay(o) /\ journal[o].st # "confirmed"
  BY <1>1 DEF Init, InHand, Live, UnderWay, Sent
<1>6. /\ \A c \in Clients : ~Walks(c) /\ pc[c] = "idle"
      /\ stored = NoPlan
  BY NoRunType DEF Init, Walks
<1>7. WasInv /\ HandInv /\ BuildInv /\ QuietInv /\ BuiltInv /\ FreshInv
  BY <1>5, <1>6 DEF WasInv, HandInv, BuildInv, QuietInv, BuiltInv, FreshInv
<1>8. StageInv /\ UniqueInv /\ OneStepAtATime /\ StopInv /\ NewInv
  BY <1>5, <1>6 DEF StageInv, Covers, UniqueInv, OneStepAtATime, StopInv, NewInv
<1> QED BY <1>2, <1>3, <1>4, <1>7, <1>8 DEF PlanInv, WalkInv, ListInv, StepInv

\* The invariant the theorems below read.
THEOREM PlanInvariance == Spec => []PlanInv
<1>1. PlanInv /\ [Next]_vars => PlanInv'
  BY WalkStep, ListStep, OneStepKept DEF PlanInv
<1> QED BY <1>1, PlanInit, PTL DEF Spec

\* However many engines and command lines continue a plan, one at a time walks it, and with the
\* stored revision: no checkpoint is lost under another client's.
THEOREM OneClientWalks == Spec => []OneWalker
<1>1. PlanInv => OneWalker
  BY DEF PlanInv, WalkInv
<1> QED BY <1>1, PlanInvariance, PTL

\* Whatever crashes, failed writes, undone blocks and other spends come between, an operation of
\* the plan that was signed is one its checkpoint lists.
THEOREM NothingUnlisted == Spec => []SignedIsListed
<1>1. PlanInv => SignedIsListed
  BY DEF PlanInv, ListInv
<1> QED BY <1>1, PlanInvariance, PTL

\* However often a plan is resumed, and whoever built the review, at most one of its operations is under
\* way.
THEOREM OneUnderWay == Spec => []OneStepAtATime
<1>1. PlanInv => OneStepAtATime
  BY DEF PlanInv, StepInv
<1> QED BY <1>1, PlanInvariance, PTL

\* No stage of a plan is traded twice, whatever was adopted, let go, or lost before it was listed.
THEOREM StagesTradeOnce == Spec => []NoStageTwice
<1>1. PlanInv => NoStageTwice
  BY DEF PlanInv, StepInv, UniqueInv, NoStageTwice, Traded, Live
<1> QED BY <1>1, PlanInvariance, PTL

\* A cancelled plan prepares, sends and completes nothing: the most that is written is a pause.
THEOREM CancelledIsOver == Spec => CancelledStops
<1>1. PlanInv /\ [Next]_vars => (stored.st = "Cancelled" => stored'.st \in {"Cancelled", "Paused"})
  BY OneStepKept DEF PlanInv, Halts
<1>2. PlanInv /\ [Next]_vars => [stored.st = "Cancelled" => stored'.st \in {"Cancelled", "Paused"}]_vars
  BY <1>1
<1> QED BY <1>2, PlanInvariance, PTL DEF Spec, CancelledStops

=============================================================================
