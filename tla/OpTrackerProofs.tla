--------------------------- MODULE OpTrackerProofs ---------------------------
(***************************************************************************)
(* OpTracker for every number of trackers, operations, blocks and           *)
(* reorganisations: what is concluded can be audited, and without a          *)
(* reorganisation no tracker takes an operation back.                       *)
(***************************************************************************)
EXTENDS OpTracker, TLAPS

\* A row that is in a block names it; one that waits for a block rests on no destination.
Anchored(w) == /\ w.st \notin Awaiting => w.src # NoBlock
               /\ w.st \in Awaiting => w.dst = NoBlock
\* The rows as they are, and as the trackers read them, however long ago.
AnchoredInv == retries = 0 =>
  /\ \A i \in Ops : Anchored(row[i])
  /\ \A t \in Trackers : pc[t] # "idle" => Anchored(job[t].was)

\* What a tracker is about to write follows from what it read.
FoundInv == \A t \in Trackers : LET was == job[t].was  f == job[t].found IN pc[t] = "write" =>
  /\ was.st \notin Audited
  /\ was.st \in Awaiting => f.dst = NoBlock /\ (f.st \notin Awaiting => f.src # NoBlock)
  /\ was.st \notin Awaiting => f.st \notin Awaiting

\* While the chain has not reorganised, it only grows, and every anchor, read or written, is where
\* the chain says.
On(w, f) == w.src \in {NoBlock, f.src} /\ w.dst \in {NoBlock, f.dst}
QuietInv == reorgs = 0 =>
  /\ \A i \in Ops : fork[i].src = NoBlock => fork[i].dst = NoBlock
  /\ \A i \in Ops : On(row[i], fork[i])
  /\ \A t \in Trackers : pc[t] # "idle" =>
       On(job[t].was, fork[job[t].op]) /\ On(job[t].found, fork[job[t].op])

WorkInv == \A t \in Trackers : pc[t] # "idle" => job[t].op \in Ops

IInv == TypeOK /\ WorkInv /\ FoundInv /\ AnchoredInv /\ QuietInv

-----------------------------------------------------------------------------
(* Types. *)

\* Rows, pieces of work and places on the chain are built from well-typed parts.
LEMMA Types ==
  /\ \A st \in Statuses, s, d \in Blocks : RowOf(st, s, d) \in Rows
  /\ \A s, d \in Blocks : At(s, d) \in Forks
  /\ \A i \in Ops \cup {0}, a \in BOOLEAN, w, f \in Rows : JobOf(i, a, w, f) \in Jobs
  /\ NoRow \in Rows /\ NoJob \in Jobs /\ NoBlock \in Blocks
<1>1. NoBlock \in Blocks
  BY BoundsAssumption DEF NoBlock, Blocks
<1>2. /\ \A st \in Statuses, s, d \in Blocks : RowOf(st, s, d) \in Rows
      /\ \A s, d \in Blocks : At(s, d) \in Forks
      /\ \A i \in Ops \cup {0}, a \in BOOLEAN, w, f \in Rows : JobOf(i, a, w, f) \in Jobs
  BY DEF RowOf, At, JobOf, Rows, Forks, Jobs
<1>3. NoRow \in Rows
  BY <1>1, <1>2 DEF NoRow, Statuses, Awaiting
<1> QED BY <1>1, <1>2, <1>3 DEF NoJob

\* transition_operation writes well-typed rows into a well-typed table.
LEMMA TransitionType ==
  ASSUME row \in [Ops -> Rows], NEW i \in Ops, NEW from, NEW new \in Rows, Transition(i, from, new)
  PROVE  row' \in [Ops -> Rows]
BY DEF Transition

\* The end of a pass leaves the tracker's place, work, lock and cursor well typed.
LEMMA DoneType ==
  ASSUME TypeOK, NEW t \in Trackers, Done(t)
  PROVE  /\ pc' \in [Trackers -> Places] /\ job' \in [Trackers -> Jobs]
         /\ opLock' \in [Ops -> Trackers \cup {Nobody}] /\ cursor' \in Ops \cup {0}
<1>1. job[t] \in Jobs /\ job[t].op \in Ops \cup {0}
  BY DEF TypeOK, Jobs
<1> QED BY <1>1, Types DEF TypeOK, Done, Goto, Places

\* A settling row read with its anchors gives a well-typed verdict.
LEMMA VerdictType ==
  ASSUME TypeOK, NEW i \in Ops, NEW st, NEW f \in Verdicts(i, st)
  PROVE  f \in Rows
<1>1. fork[i].src \in Blocks /\ fork[i].dst \in Blocks
  BY DEF TypeOK, Forks
<1>2. CASE f \in Inclusions(i)
  <2>1. PICK s \in {"settling", "locked", "failed", "unknown", "confirmed"} :
          f = RowOf(s, fork[i].src, NoBlock)
    BY <1>2 DEF Inclusions
  <2> QED BY <2>1, <1>1, Types DEF Statuses, Awaiting, Settling, Audited
<1>3. CASE f \in Settlements(i)
  <2>1. PICK s \in {"settling", "locked", "settled", "failed", "refunded"}, d \in Blocks :
          f = RowOf(s, NoBlock, d)
    BY <1>3, <1>1, Types DEF Settlements, Settling
  <2> QED BY <2>1, <1>1, Types DEF Statuses, Awaiting, Settling, Audited
<1>4. CASE f = RowOf("submitted", NoBlock, NoBlock)
  BY <1>4, Types DEF Statuses, Awaiting
<1> QED BY <1>2, <1>3, <1>4 DEF Verdicts

\* A patched row is well typed.
LEMMA PatchedType == ASSUME NEW w \in Rows, NEW f \in Rows PROVE Patched(w, f) \in Rows
BY DEF Patched, RowOf, Rows

\* Session::open on an account with sent operations: the initial state is well typed.
LEMMA TypeInit == Init => TypeOK
<1> SUFFICES ASSUME Init PROVE TypeOK
  OBVIOUS
<1>1. row \in [Ops -> Rows]
  BY Types DEF Init, Statuses, Awaiting
<1>2. fork \in [Ops -> Forks] /\ seen \in [Ops -> SUBSET Forks]
  BY Types DEF Init
<1>3. /\ born \in Blocks /\ reorgs \in 0..MaxReorgs /\ retries \in 0..MaxRetries
      /\ failures \in 0..MaxFailures
  BY BoundsAssumption DEF Init, Blocks
<1> QED BY <1>1, <1>2, <1>3, Types DEF Init, TypeOK, Places

\* Every step keeps every variable in its type.
THEOREM TypeStep == TypeOK /\ WorkInv /\ [Next]_vars => TypeOK'
<1> SUFFICES ASSUME TypeOK, WorkInv, [Next]_vars PROVE TypeOK'
  OBVIOUS
<1> DEFINE Chain == /\ fork \in [Ops -> Forks] /\ seen \in [Ops -> SUBSET Forks]
                    /\ born \in Blocks /\ reorgs \in 0..MaxReorgs
           Calls == /\ opLock \in [Ops -> Trackers \cup {Nobody}]
                    /\ pc \in [Trackers -> Places] /\ job \in [Trackers -> Jobs]
           Counts == retries \in 0..MaxRetries /\ failures \in 0..MaxFailures
           Journal == row \in [Ops -> Rows] /\ cursor \in Ops \cup {0}
<1>a. Chain /\ Calls /\ Counts /\ Journal
  BY DEF TypeOK
<1>b. ASSUME Chain', Calls', Counts', Journal' PROVE TypeOK'
  BY <1>b DEF TypeOK
<1> HIDE DEF Chain, Calls, Counts, Journal
<1>c. ASSUME UNCHANGED chain PROVE Chain'
  BY <1>a, <1>c DEF Chain, chain
<1>d. ASSUME UNCHANGED calls PROVE Calls'
  BY <1>a, <1>d DEF Calls, calls
<1>e. ASSUME UNCHANGED <<retries, failures>> PROVE Counts'
  BY <1>a, <1>e DEF Counts
<1>f. ASSUME NEW t \in Trackers, NEW p \in Places, pc' = [pc EXCEPT ![t] = p], UNCHANGED job,
             opLock' \in [Ops -> Trackers \cup {Nobody}]
      PROVE  Calls'
  BY <1>a, <1>f DEF Calls
<1>g. ASSUME NEW t \in Trackers, Done(t) PROVE Calls' /\ cursor' \in Ops \cup {0}
  BY <1>g, DoneType DEF Calls
<1>h. ASSUME failures' = failures + 1, failures < MaxFailures, UNCHANGED retries PROVE Counts'
  BY <1>a, <1>h, BoundsAssumption DEF Counts
<1>1. ASSUME NEW i \in Ops, NEW f \in Forks, Becomes(i, f), born' \in Blocks, reorgs' \in 0..MaxReorgs
      PROVE  TypeOK'
  <2>1. Chain'
    BY <1>a, <1>1 DEF Becomes, Chain
  <2> QED BY <2>1, <1>1, <1>a, <1>b, <1>d, <1>e DEF Becomes, Journal
<1>2. CASE \E i \in Ops : Include(i) \/ Execute(i)
  <2>1. PICK i \in Ops : Include(i) \/ Execute(i)
    BY <1>2
  <2>2. fork[i].src \in Blocks /\ born + 1 \in Blocks /\ born' = born + 1 /\ reorgs' \in 0..MaxReorgs
    BY <2>1, <1>a, BoundsAssumption DEF Include, Execute, Blocks, Chain, Forks
  <2>3. PICK f \in Forks : Becomes(i, f)
    BY <2>1, <2>2, Types DEF Include, Execute
  <2> QED BY <2>2, <2>3, <1>1
<1>3. ASSUME NEW i \in Ops, Reorg(i) PROVE TypeOK'
  <2>1. PICK f \in seen[i] : Becomes(i, f)
    BY <1>3 DEF Reorg
  <2>2. f \in Forks /\ born' \in Blocks /\ reorgs' \in 0..MaxReorgs
    BY <1>3, <1>a, BoundsAssumption DEF Reorg, Chain
  <2> QED BY <2>1, <2>2, <1>1
<1>4. ASSUME NEW i \in Ops, NEW st \in Awaiting, Rebroadcast(i, st) PROVE TypeOK'
  <2>1. row[i].src \in Blocks /\ row[i].dst \in Blocks /\ st \in Statuses
    BY <1>a DEF Journal, Rows, Statuses
  <2>2. Journal'
    BY <1>4, <2>1, <1>a, Types DEF Rebroadcast, Journal
  <2>3. Counts'
    BY <1>4, <1>a, BoundsAssumption DEF Rebroadcast, Counts
  <2> QED BY <1>4, <2>2, <2>3, <1>b, <1>c, <1>d DEF Rebroadcast
<1>5. ASSUME NEW t \in Trackers,
             (\E i \in Ops : TrackRead(t, i)) \/ AuditRead(t)
      PROVE  TypeOK'
  <2>1. PICK i \in Ops, a \in BOOLEAN : job' = [job EXCEPT ![t] = JobOf(i, a, row[i], NoRow)]
    BY <1>5 DEF TrackRead, AuditRead, Page, Auditable
  <2>2. row[i] \in Rows
    BY <1>a DEF Journal
  <2>3. Calls'
    BY <1>5, <2>1, <2>2, <1>a, Types DEF TrackRead, AuditRead, Calls, Goto, Places
  <2> QED BY <1>5, <2>3, <1>a, <1>b, <1>c, <1>e DEF TrackRead, AuditRead, Working, Journal
<1>6. ASSUME NEW t \in Trackers, Lock(t) PROVE TypeOK'
  <2>1. Calls'
    BY <1>6, <1>a DEF Lock, Goto, Calls, Places
  <2> QED BY <1>6, <2>1, <1>a, <1>b, <1>c, <1>e DEF Lock, Working, Journal
<1>7. ASSUME NEW t \in Trackers, Busy(t) \/ NoVerdict(t) PROVE TypeOK'
  BY <1>7, <1>a, <1>b, <1>c, <1>e, <1>g DEF Busy, NoVerdict, Working, Journal
<1>8. ASSUME NEW t \in Trackers, NoAnswer(t) PROVE TypeOK'
  BY <1>8, <1>a, <1>b, <1>c, <1>g, <1>h DEF NoAnswer, Journal
<1>9. ASSUME NEW t \in Trackers, NEW i, i = job[t].op, i \in Ops, NEW new \in Rows, NEW from,
             Transition(i, from, new), Done(t), UNCHANGED <<chain, retries, failures>>
      PROVE  TypeOK'
  <2>1. row' \in [Ops -> Rows]
    BY <1>9, <1>a, TransitionType DEF Journal
  <2> QED BY <1>9, <2>1, <1>b, <1>c, <1>e, <1>g DEF Journal
<1>j. ASSUME NEW t \in Trackers, pc[t] # "idle"
      PROVE  /\ job[t].op \in Ops /\ row[job[t].op] \in Rows
             /\ job[t].was \in Rows /\ job[t].found \in Rows /\ job[t].audit \in BOOLEAN
             /\ row[job[t].op].src \in Blocks
  BY <1>j, <1>a DEF WorkInv, Calls, Journal, Jobs, Rows
<1>k. ASSUME NEW t \in Trackers, pc[t] # "idle", Reorganized(t), UNCHANGED <<chain, retries, failures>>
      PROVE  TypeOK'
  BY <1>k, <1>j, <1>9, Types DEF Reorganized, Statuses, Awaiting
<1>l. ASSUME NEW t \in Trackers, NEW p \in Places, Goto(t, p),
             UNCHANGED <<row, cursor, opLock, job, chain, retries, failures>>
      PROVE  TypeOK'
  BY <1>l, <1>a, <1>b, <1>c, <1>e, <1>f DEF Goto, Journal, Calls
<1>m. ASSUME NEW t \in Trackers, Checked(t), UNCHANGED <<chain, retries, failures>>
      PROVE  TypeOK'
  <2>1. CASE Done(t) /\ UNCHANGED row
    BY <2>1, <1>m, <1>a, <1>b, <1>c, <1>e, <1>g DEF Journal
  <2>2. CASE Goto(t, "observe") /\ UNCHANGED <<row, cursor, opLock, job>>
    BY <2>2, <1>m, <1>l DEF Places
  <2> QED BY <1>m, <2>1, <2>2 DEF Checked
<1>10. ASSUME NEW t \in Trackers, CheckSource(t) PROVE TypeOK'
  <2>1. pc[t] # "idle" /\ UNCHANGED <<chain, retries, failures>>
    BY <1>10 DEF CheckSource, Working
  <2>2. \/ Goto(t, "dest") /\ UNCHANGED <<row, cursor, opLock, job>>
        \/ Reorganized(t)
    BY <1>10 DEF CheckSource
  <2> QED BY <2>1, <2>2, <1>k, <1>l DEF Places
<1>11. ASSUME NEW t \in Trackers, CheckAgain(t) PROVE TypeOK'
  <2>1. pc[t] # "idle" /\ UNCHANGED <<chain, retries, failures>>
    BY <1>11 DEF CheckAgain, Working
  <2>2. Checked(t) \/ Reorganized(t)
    BY <1>11 DEF CheckAgain
  <2> QED BY <2>1, <2>2, <1>k, <1>m
<1>12. ASSUME NEW t \in Trackers, CheckDest(t) PROVE TypeOK'
  <2>1. pc[t] # "idle" /\ UNCHANGED <<chain, retries, failures>>
    BY <1>12 DEF CheckDest, Working
  <2>2. \/ Checked(t)
        \/ Goto(t, "again") /\ UNCHANGED <<row, cursor, opLock, job>>
        \/ /\ Transition(job[t].op, job[t].was.st,
                         RowOf("settling", row[job[t].op].src, NoBlock))
           /\ Done(t)
    BY <1>12 DEF CheckDest
  <2>3. RowOf("settling", row[job[t].op].src, NoBlock) \in Rows
    BY <2>1, <1>j, Types DEF Statuses, Settling
  <2> QED BY <2>1, <2>2, <2>3, <1>j, <1>l, <1>m, <1>9 DEF Places
<1>13. ASSUME NEW t \in Trackers, NEW f \in Rows, Observe(t, f) PROVE TypeOK'
  <2>1. JobOf(job[t].op, FALSE, job[t].was, f) \in Jobs
    BY <1>13, <1>j, Types DEF Observe, Working
  <2>2. Calls'
    BY <1>13, <2>1, <1>a DEF Observe, Working, Calls, Goto, Places
  <2> QED BY <1>13, <2>2, <1>a, <1>b, <1>c, <1>e DEF Observe, Working, Journal
<1>14. ASSUME NEW t \in Trackers, Write(t) PROVE TypeOK'
  <2>1. pc[t] # "idle" /\ UNCHANGED <<chain, retries, failures>>
    BY <1>14 DEF Write, Working
  <2>2. Patched(row[job[t].op], job[t].found) \in Rows
    BY <2>1, <1>j, PatchedType
  <2> QED BY <1>14, <2>1, <2>2, <1>j, <1>9 DEF Write
<1>15. ASSUME NEW t \in Trackers, Crash(t) PROVE TypeOK'
  <2>1. Calls'
    BY <1>15, <1>a, Types DEF Crash, Goto, Calls, Places
  <2> QED BY <1>15, <2>1, <1>a, <1>b, <1>c, <1>h DEF Crash, Journal
<1>16. CASE UNCHANGED vars
  BY <1>16, <1>a, <1>b, <1>c, <1>d, <1>e DEF vars, chain, calls, Journal
<1> QED BY <1>2, <1>3, <1>4, <1>5, <1>6, <1>7, <1>8, <1>10, <1>11, <1>12, <1>13, <1>14, <1>15, <1>16
        DEF Next, Proceed
-----------------------------------------------------------------------------
(* What a step can do to a tracker, to a row, to the chain. *)

\* A tracker stays as it is, ends its pass, reads a row, goes on to its next question, or notes
\* the node's answer.
LEMMA TrackerMoves ==
  ASSUME TypeOK, [Next]_vars, NEW t \in Trackers
  PROVE  \/ pc'[t] = pc[t] /\ job'[t] = job[t]
         \/ pc'[t] = "idle"
         \/ /\ pc'[t] = "lock" /\ UNCHANGED <<row, chain, retries>>
            /\ \E i \in Ops, a \in BOOLEAN : job'[t] = JobOf(i, a, row[i], NoRow)
         \/ /\ pc[t] # "idle" /\ job'[t] = job[t]
            /\ pc'[t] \in {"lock", "source", "dest", "again", "observe"}
         \/ \E f \in Rows : Observe(t, f)
<1> DEFINE Goal == \/ pc'[t] = pc[t] /\ job'[t] = job[t]
                   \/ pc'[t] = "idle"
                   \/ /\ pc'[t] = "lock" /\ UNCHANGED <<row, chain, retries>>
                      /\ \E i \in Ops, a \in BOOLEAN : job'[t] = JobOf(i, a, row[i], NoRow)
                   \/ /\ pc[t] # "idle" /\ job'[t] = job[t]
                      /\ pc'[t] \in {"lock", "source", "dest", "again", "observe"}
                   \/ \E f \in Rows : Observe(t, f)
<1> SUFFICES Goal
  OBVIOUS
<1>0. pc \in [Trackers -> Places] /\ job \in [Trackers -> Jobs]
  BY DEF TypeOK
<1>1. CASE UNCHANGED <<pc, job>>
  BY <1>1
<1>2. ASSUME NEW u \in Trackers, Done(u) \/ Crash(u) PROVE Goal
  BY <1>2, <1>0 DEF Done, Crash, Goto
<1>3. ASSUME NEW u \in Trackers, NEW q \in {"lock", "source", "dest", "again", "observe"},
             pc[u] # "idle", Goto(u, q), UNCHANGED job
      PROVE  Goal
  BY <1>3, <1>0 DEF Goto
<1>4. ASSUME NEW u \in Trackers, (\E i \in Ops : TrackRead(u, i)) \/ AuditRead(u) PROVE Goal
  <2>1. PICK i \in Ops, a \in BOOLEAN : job' = [job EXCEPT ![u] = JobOf(i, a, row[i], NoRow)]
    BY <1>4 DEF TrackRead, AuditRead, Page, Auditable
  <2>2. pc' = [pc EXCEPT ![u] = "lock"] /\ UNCHANGED <<row, chain, retries>>
    BY <1>4 DEF TrackRead, AuditRead, Goto, Working
  <2> QED BY <2>1, <2>2, <1>0
<1>5. ASSUME NEW u \in Trackers, NEW f \in Rows, Observe(u, f) PROVE Goal
  BY <1>5, <1>0 DEF Observe, Working, Goto
<1>6. ASSUME NEW u \in Trackers, Lock(u) PROVE Goal
  BY <1>6, <1>3 DEF Lock, Working
<1>7. ASSUME NEW u \in Trackers, CheckSource(u) \/ CheckAgain(u) PROVE Goal
  <2>1. pc[u] # "idle"
    BY <1>7 DEF CheckSource, CheckAgain, Working
  <2> QED BY <1>7, <2>1, <1>2, <1>3 DEF CheckSource, CheckAgain, Checked, Reorganized
<1>8. ASSUME NEW u \in Trackers, CheckDest(u) PROVE Goal
  <2>1. pc[u] # "idle"
    BY <1>8 DEF CheckDest, Working
  <2>2. \/ Checked(u) \/ Done(u)
        \/ Goto(u, "again") /\ UNCHANGED <<row, cursor, opLock, job>>
    BY <1>8 DEF CheckDest
  <2>3. CASE Checked(u)
    BY <2>1, <2>3, <1>2, <1>3 DEF Checked
  <2> QED BY <2>1, <2>2, <2>3, <1>2, <1>3
<1>9. ASSUME NEW u \in Trackers, Busy(u) \/ NoAnswer(u) \/ NoVerdict(u) \/ Write(u) PROVE Goal
  BY <1>9, <1>2 DEF Busy, NoAnswer, NoVerdict, Write
<1>10. ASSUME NEW i \in Ops,
              Include(i) \/ Execute(i) \/ Reorg(i) \/ (\E st \in Awaiting : Rebroadcast(i, st))
       PROVE  Goal
  BY <1>10, <1>1 DEF Include, Execute, Reorg, Becomes, Rebroadcast, calls
<1>11. CASE UNCHANGED vars
  BY <1>11, <1>1 DEF vars
<1> HIDE DEF Goal
<1>12. ASSUME NEW u \in Trackers, Proceed(u) PROVE Goal
  BY <1>12, <1>5, <1>6, <1>7, <1>8, <1>9 DEF Proceed
<1> QED BY <1>2, <1>4, <1>9, <1>10, <1>11, <1>12 DEF Next

\* A row is rebroadcast, found reorganised at its source or its destination, or patched with what
\* a tracker found: and the last three only if its status is what that tracker read.
LEMMA RowMoves ==
  ASSUME TypeOK, WorkInv, [Next]_vars, NEW i \in Ops
  PROVE  \/ row'[i] = row[i]
         \/ /\ retries' > retries
            /\ row'[i].src = row[i].src /\ row'[i].dst = row[i].dst
         \/ \E t \in Trackers :
              /\ pc[t] \in {"source", "again"} /\ job[t].op = i /\ row[i].st = job[t].was.st
              /\ job[t].was.src \notin {NoBlock, fork[i].src}
              /\ row'[i] = RowOf("submitted", NoBlock, NoBlock)
         \/ \E t \in Trackers :
              /\ pc[t] = "dest" /\ job[t].op = i /\ row[i].st = job[t].was.st
              /\ job[t].was.dst \notin {NoBlock, fork[i].dst}
              /\ row'[i] = RowOf("settling", row[i].src, NoBlock)
         \/ \E t \in Trackers :
              /\ pc[t] = "write" /\ job[t].op = i /\ row[i].st = job[t].was.st
              /\ row'[i] = Patched(row[i], job[t].found)
<1> DEFINE Goal ==
         \/ row'[i] = row[i]
         \/ /\ retries' > retries
            /\ row'[i].src = row[i].src /\ row'[i].dst = row[i].dst
         \/ \E t \in Trackers :
              /\ pc[t] \in {"source", "again"} /\ job[t].op = i /\ row[i].st = job[t].was.st
              /\ job[t].was.src \notin {NoBlock, fork[i].src}
              /\ row'[i] = RowOf("submitted", NoBlock, NoBlock)
         \/ \E t \in Trackers :
              /\ pc[t] = "dest" /\ job[t].op = i /\ row[i].st = job[t].was.st
              /\ job[t].was.dst \notin {NoBlock, fork[i].dst}
              /\ row'[i] = RowOf("settling", row[i].src, NoBlock)
         \/ \E t \in Trackers :
              /\ pc[t] = "write" /\ job[t].op = i /\ row[i].st = job[t].was.st
              /\ row'[i] = Patched(row[i], job[t].found)
<1> SUFFICES Goal
  OBVIOUS
<1>0. row \in [Ops -> Rows] /\ retries \in Nat
  BY BoundsAssumption DEF TypeOK
<1>1. CASE UNCHANGED row
  BY <1>1
<1>2. ASSUME NEW j, NEW from, NEW new, Transition(j, from, new)
      PROVE  row'[i] = row[i] \/ (j = i /\ row[i].st = from /\ row'[i] = new)
  BY <1>2, <1>0 DEF Transition
<1>3. ASSUME NEW t \in Trackers, CheckSource(t) \/ CheckAgain(t) PROVE Goal
  <2>1. CASE UNCHANGED row
    BY <2>1, <1>1
  <2>2. CASE Reorganized(t) /\ job[t].was.src \notin {NoBlock, fork[job[t].op].src}
    <3>1. pc[t] \in {"source", "again"}
      BY <1>3 DEF CheckSource, CheckAgain, Working
    <3>2. \/ row'[i] = row[i]
          \/ /\ job[t].op = i /\ row[i].st = job[t].was.st
             /\ row'[i] = RowOf("submitted", NoBlock, NoBlock)
      BY <2>2, <1>2 DEF Reorganized
    <3> QED BY <3>1, <3>2, <2>2
  <2> QED BY <1>3, <2>1, <2>2 DEF CheckSource, CheckAgain, Checked
<1>4. ASSUME NEW t \in Trackers, CheckDest(t) PROVE Goal
  <2>1. CASE UNCHANGED row
    BY <2>1, <1>1
  <2>2. CASE /\ Transition(job[t].op, job[t].was.st, RowOf("settling", row[job[t].op].src, NoBlock))
             /\ job[t].was.dst \notin {NoBlock, fork[job[t].op].dst}
    <3>1. pc[t] = "dest"
      BY <1>4 DEF CheckDest, Working
    <3>2. \/ row'[i] = row[i]
          \/ /\ job[t].op = i /\ row[i].st = job[t].was.st
             /\ row'[i] = RowOf("settling", row[i].src, NoBlock)
      BY <2>2, <1>2
    <3> QED BY <3>1, <3>2, <2>2
  <2>3. \/ Checked(t) \/ UNCHANGED row
        \/ /\ Transition(job[t].op, job[t].was.st, RowOf("settling", row[job[t].op].src, NoBlock))
           /\ job[t].was.dst \notin {NoBlock, fork[job[t].op].dst}
    BY <1>4 DEF CheckDest
  <2> QED BY <2>1, <2>2, <2>3 DEF Checked
<1>5. ASSUME NEW t \in Trackers, Write(t) PROVE Goal
  <2>1. pc[t] = "write"
    BY <1>5 DEF Write, Working
  <2>2. \/ row'[i] = row[i]
        \/ /\ job[t].op = i /\ row[i].st = job[t].was.st
           /\ row'[i] = Patched(row[i], job[t].found)
    BY <1>5, <1>2 DEF Write
  <2> QED BY <2>1, <2>2
<1>6. ASSUME NEW j \in Ops, NEW st \in Awaiting, Rebroadcast(j, st) PROVE Goal
  <2>1. CASE i = j
    <3>1. row'[i].src = row[i].src /\ row'[i].dst = row[i].dst
      BY <1>6, <2>1, <1>0 DEF Rebroadcast, RowOf
    <3> QED BY <3>1, <1>6, <1>0 DEF Rebroadcast
  <2>2. CASE i # j
    BY <1>6, <2>2, <1>0 DEF Rebroadcast
  <2> QED BY <2>1, <2>2
<1>7. ASSUME NEW t \in Trackers,
             \/ (\E j \in Ops : TrackRead(t, j)) \/ AuditRead(t) \/ Lock(t) \/ Busy(t)
             \/ NoAnswer(t) \/ (\E f \in Rows : Observe(t, f)) \/ NoVerdict(t) \/ Crash(t)
      PROVE  Goal
  BY <1>7, <1>1 DEF TrackRead, AuditRead, Lock, Busy, NoAnswer, Observe, NoVerdict, Working, Crash
<1>8. ASSUME NEW j \in Ops, Include(j) \/ Execute(j) \/ Reorg(j) PROVE Goal
  BY <1>8, <1>1 DEF Include, Execute, Reorg, Becomes
<1>9. CASE UNCHANGED vars
  BY <1>9, <1>1 DEF vars
<1> QED BY <1>3, <1>4, <1>5, <1>6, <1>7, <1>8, <1>9 DEF Next, Proceed

\* The counters only grow, and the chain moves while nobody else does.
LEMMA ChainMoves ==
  ASSUME TypeOK, [Next]_vars
  PROVE  /\ retries' >= retries /\ reorgs' >= reorgs
         /\ \/ UNCHANGED chain
            \/ /\ UNCHANGED <<row, pc, job>>
               /\ \/ reorgs' > reorgs
                  \/ \E i \in Ops, b \in Blocks :
                       \/ fork[i].src = NoBlock /\ fork' = [fork EXCEPT ![i] = At(b, NoBlock)]
                       \/ /\ fork[i].src # NoBlock /\ fork[i].dst = NoBlock
                          /\ fork' = [fork EXCEPT ![i] = At(fork[i].src, b)]
<1>0. retries \in Nat /\ reorgs \in Nat /\ born \in Nat
  BY BoundsAssumption DEF TypeOK, Blocks
<1>1. ASSUME NEW i \in Ops, Include(i) \/ Execute(i)
      PROVE  /\ UNCHANGED <<row, pc, job, retries, reorgs>>
             /\ \E b \in Blocks :
                  \/ fork[i].src = NoBlock /\ fork' = [fork EXCEPT ![i] = At(b, NoBlock)]
                  \/ /\ fork[i].src # NoBlock /\ fork[i].dst = NoBlock
                     /\ fork' = [fork EXCEPT ![i] = At(fork[i].src, b)]
  <2>1. born + 1 \in Blocks
    BY <1>1, <1>0, BoundsAssumption DEF Include, Execute, Blocks
  <2> QED BY <1>1, <2>1 DEF Include, Execute, Becomes, calls
<1>2. ASSUME NEW i \in Ops, Reorg(i)
      PROVE  UNCHANGED <<row, pc, job, retries>> /\ reorgs' = reorgs + 1
  BY <1>2, <1>0 DEF Reorg, Becomes, calls
<1>3. ASSUME NEW i \in Ops, NEW st \in Awaiting, Rebroadcast(i, st)
      PROVE  UNCHANGED chain /\ retries' = retries + 1
  BY <1>3, <1>0 DEF Rebroadcast
<1>4. ASSUME NEW t \in Trackers,
             \/ (\E i \in Ops : TrackRead(t, i)) \/ AuditRead(t) \/ Proceed(t)
             \/ NoAnswer(t) \/ Crash(t)
      PROVE  UNCHANGED chain /\ UNCHANGED retries
  BY <1>4 DEF Proceed, TrackRead, AuditRead, Lock, Busy, NoAnswer, Observe, NoVerdict, Crash,
              CheckSource, CheckDest, CheckAgain, Write, Working
<1>5. CASE UNCHANGED vars
  BY <1>5, <1>0 DEF vars, chain
<1>6. CASE \E i \in Ops : Include(i) \/ Execute(i)
  BY <1>6, <1>1, <1>0
<1>7. CASE \E i \in Ops : Reorg(i)
  BY <1>7, <1>2, <1>0
<1>8. CASE \E i \in Ops, st \in Awaiting : Rebroadcast(i, st)
  BY <1>8, <1>3, <1>0 DEF chain
<1>9. CASE \E t \in Trackers :
             \/ (\E i \in Ops : TrackRead(t, i)) \/ AuditRead(t) \/ Proceed(t)
             \/ NoAnswer(t) \/ Crash(t)
  BY <1>9, <1>4, <1>0 DEF chain
<1> QED BY <1>5, <1>6, <1>7, <1>8, <1>9, <1>0 DEF Next

\* What the node says of an operation follows its journal status: never of a concluded one, no
\* destination before the block, no way back from one; and it says where the operation is.
LEMMA VerdictFacts ==
  ASSUME TypeOK, NEW i \in Ops, NEW st \in Statuses, NEW f \in Verdicts(i, st)
  PROVE  /\ st \notin Audited
         /\ st \in Awaiting => f.dst = NoBlock /\ (f.st \notin Awaiting => f.src # NoBlock)
         /\ st \notin Awaiting => f.st \notin Awaiting
         /\ On(f, fork[i])
<1>1. CASE st \in Awaiting /\ fork[i].src # NoBlock
  <2>1. fork[i].src # NoBlock /\ st \notin Audited
    BY <1>1 DEF Awaiting, Audited
  <2>2. f \in Inclusions(i)
    BY <1>1 DEF Verdicts, Awaiting, Settling
  <2>3. PICK s \in {"settling", "locked", "failed", "unknown", "confirmed"} :
          f = RowOf(s, fork[i].src, NoBlock)
    BY <2>2 DEF Inclusions
  <2> QED BY <2>1, <2>3, <1>1 DEF RowOf, On, Awaiting, Audited
<1>2. CASE st = "unknown" /\ fork[i].src = NoBlock
  <2>1. f = RowOf("submitted", NoBlock, NoBlock)
    BY <1>2 DEF Verdicts, Awaiting, Settling
  <2> QED BY <2>1, <1>2 DEF RowOf, On, Awaiting, Audited
<1>3. CASE st \in Settling
  <2>1. st \notin Awaiting /\ st \notin Audited /\ st # "unknown"
    BY <1>3 DEF Settling, Awaiting, Audited
  <2>2. f \in Settlements(i)
    BY <2>1, <1>3 DEF Verdicts
  <2>3. PICK s \in {"settling", "locked", "settled", "failed", "refunded"},
             d \in {NoBlock, fork[i].dst} : f = RowOf(s, NoBlock, d)
    BY <2>2 DEF Settlements, Settling
  <2> QED BY <2>1, <2>3 DEF RowOf, On, Awaiting
<1> QED BY <1>1, <1>2, <1>3 DEF Verdicts

\* The operation under a tracker's hands is one of the journal's.
LEMMA WorkStep == TypeOK /\ WorkInv /\ [Next]_vars => WorkInv'
<1> SUFFICES ASSUME TypeOK, WorkInv, [Next]_vars, NEW t \in Trackers, pc'[t] # "idle"
             PROVE  job'[t].op \in Ops
  BY DEF WorkInv
<1>1. ASSUME NEW f \in Rows, Observe(t, f) PROVE job'[t].op = job[t].op /\ pc[t] # "idle"
  BY <1>1 DEF Observe, Working, JobOf, TypeOK
<1>2. ASSUME NEW i \in Ops, NEW a \in BOOLEAN, job'[t] = JobOf(i, a, row[i], NoRow)
      PROVE  job'[t].op = i
  BY <1>2 DEF JobOf
<1> QED BY <1>1, <1>2, TrackerMoves DEF WorkInv

\* Asked of it, the node is asked about the row the tracker read.
LEMMA ObserveFacts ==
  ASSUME TypeOK, WorkInv, NEW t \in Trackers, NEW f \in Rows, Observe(t, f)
  PROVE  /\ pc[t] = "observe" /\ UNCHANGED <<chain, row, retries>> /\ job[t].op \in Ops
         /\ job'[t].op = job[t].op /\ job'[t].was = job[t].was /\ job'[t].found = f
         /\ job[t].was.st \in Statuses /\ f \in Verdicts(job[t].op, job[t].was.st)
<1>1. job \in [Trackers -> Jobs] /\ job[t].op \in Ops
  BY DEF TypeOK, WorkInv, Observe, Working
<1>2. job'[t] = JobOf(job[t].op, FALSE, job[t].was, f)
  BY <1>1 DEF Observe, Working
<1>3. job[t].was.st \in Statuses
  BY <1>1 DEF Jobs, Rows
<1> QED BY <1>1, <1>2, <1>3 DEF Observe, Working, JobOf

\* reconcile_ops writes only what follows from the row it read.
LEMMA FoundStep == TypeOK /\ WorkInv /\ FoundInv /\ [Next]_vars => FoundInv'
<1> DEFINE Follows(was, f) ==
      /\ was.st \notin Audited
      /\ was.st \in Awaiting => f.dst = NoBlock /\ (f.st \notin Awaiting => f.src # NoBlock)
      /\ was.st \notin Awaiting => f.st \notin Awaiting
<1> SUFFICES ASSUME TypeOK, WorkInv, FoundInv, [Next]_vars, NEW t \in Trackers, pc'[t] = "write"
             PROVE  Follows(job'[t].was, job'[t].found)
  BY DEF FoundInv
<1>1. CASE pc'[t] = pc[t] /\ job'[t] = job[t]
  BY <1>1 DEF FoundInv
<1>2. ASSUME NEW f \in Rows, Observe(t, f) PROVE Follows(job'[t].was, job'[t].found)
  BY <1>2, ObserveFacts, VerdictFacts
<1> HIDE DEF Follows
<1> QED BY <1>1, <1>2, TrackerMoves

\* No tracker, however old what it read, unhooks a row from its block: the row keeps the anchors
\* it has, and a reorganised source takes the status with it.
LEMMA AnchoredStep == TypeOK /\ WorkInv /\ FoundInv /\ AnchoredInv /\ [Next]_vars => AnchoredInv'
<1> SUFFICES ASSUME TypeOK, WorkInv, FoundInv, AnchoredInv, [Next]_vars, retries' = 0
             PROVE  /\ \A i \in Ops : Anchored(row'[i])
                    /\ \A t \in Trackers : pc'[t] # "idle" => Anchored(job'[t].was)
  BY DEF AnchoredInv, Anchored
<1>1. retries = 0
  BY ChainMoves, BoundsAssumption DEF TypeOK
<1>2. /\ \A i \in Ops : Anchored(row[i])
      /\ \A t \in Trackers : pc[t] # "idle" => Anchored(job[t].was)
  BY <1>1 DEF AnchoredInv
<1>3. ASSUME NEW i \in Ops PROVE Anchored(row'[i])
  <2>1. CASE row'[i] = row[i]
    BY <2>1, <1>2
  <2>2. CASE row'[i] = RowOf("submitted", NoBlock, NoBlock)
    BY <2>2 DEF RowOf, Anchored, Awaiting
  <2>3. ASSUME NEW t \in Trackers, pc[t] = "dest", row[i].st = job[t].was.st,
               job[t].was.dst # NoBlock, row'[i] = RowOf("settling", row[i].src, NoBlock)
        PROVE  Anchored(row'[i])
    <3>1. row[i].src # NoBlock
      BY <2>3, <1>2 DEF Anchored
    <3> QED BY <2>3, <3>1 DEF RowOf, Anchored
  <2>4. ASSUME NEW t \in Trackers, pc[t] = "write", row[i].st = job[t].was.st,
               row'[i] = Patched(row[i], job[t].found)
        PROVE  Anchored(row'[i])
    <3>1. /\ row'[i].st = job[t].found.st
          /\ row'[i].src = IF job[t].found.src # NoBlock THEN job[t].found.src ELSE row[i].src
          /\ row'[i].dst = IF job[t].found.dst # NoBlock THEN job[t].found.dst ELSE row[i].dst
      BY <2>4 DEF Patched, RowOf
    <3>2. CASE row[i].st \in Awaiting
      BY <3>1, <3>2, <2>4, <1>2 DEF Anchored, FoundInv
    <3>3. CASE row[i].st \notin Awaiting
      BY <3>1, <3>3, <2>4, <1>2 DEF Anchored, FoundInv
    <3> QED BY <3>2, <3>3
  <2> QED BY <2>1, <2>2, <2>3, <2>4, <1>1, RowMoves
<1>4. ASSUME NEW t \in Trackers, pc'[t] # "idle" PROVE Anchored(job'[t].was)
  <2>1. ASSUME NEW i \in Ops, NEW a \in BOOLEAN, job'[t] = JobOf(i, a, row[i], NoRow)
        PROVE  Anchored(job'[t].was)
    BY <2>1, <1>2 DEF JobOf
  <2>2. ASSUME NEW f \in Rows, Observe(t, f) PROVE Anchored(job'[t].was)
    BY <2>2, <1>2, ObserveFacts
  <2> QED BY <2>1, <2>2, <1>2, <1>4, TrackerMoves
<1> QED BY <1>3, <1>4

\* As long as the chain only grows, nothing a tracker reads or writes names a block that is not
\* there: no check of an anchor fails.
LEMMA QuietStep == TypeOK /\ WorkInv /\ QuietInv /\ [Next]_vars => QuietInv'
<1> DEFINE Right(t) == pc[t] # "idle" =>
                         On(job[t].was, fork[job[t].op]) /\ On(job[t].found, fork[job[t].op])
<1> SUFFICES ASSUME TypeOK, WorkInv, QuietInv, [Next]_vars, reorgs' = 0
             PROVE  /\ \A i \in Ops : fork'[i].src = NoBlock => fork'[i].dst = NoBlock
                    /\ \A i \in Ops : On(row'[i], fork'[i])
                    /\ \A t \in Trackers : Right(t)'
  BY DEF QuietInv, On
<1>1. reorgs = 0 /\ ~(reorgs' > reorgs)
  BY ChainMoves, BoundsAssumption DEF TypeOK
<1>2. /\ \A i \in Ops : fork[i].src = NoBlock => fork[i].dst = NoBlock
      /\ \A i \in Ops : On(row[i], fork[i])
      /\ \A t \in Trackers : Right(t)
  BY <1>1 DEF QuietInv
<1>3. CASE UNCHANGED chain
  <2>1. fork' = fork
    BY <1>3 DEF chain
  <2>2. ASSUME NEW i \in Ops PROVE On(row'[i], fork[i])
    <3>1. CASE row'[i].src = row[i].src /\ row'[i].dst = row[i].dst
      BY <3>1, <1>2 DEF On
    <3>2. ASSUME NEW t \in Trackers, pc[t] \in {"source", "again", "dest"}, job[t].op = i
          PROVE  job[t].was.src \in {NoBlock, fork[i].src} /\ job[t].was.dst \in {NoBlock, fork[i].dst}
      BY <3>2, <1>2 DEF On
    <3>3. ASSUME NEW t \in Trackers, pc[t] = "write", job[t].op = i,
                 row'[i] = Patched(row[i], job[t].found)
          PROVE  On(row'[i], fork[i])
      <4>1. On(job[t].found, fork[i]) /\ On(row[i], fork[i])
        BY <3>3, <1>2
      <4> QED BY <4>1, <3>3 DEF Patched, RowOf, On
    <3> QED BY <3>1, <3>2, <3>3, RowMoves
  <2>3. ASSUME NEW t \in Trackers, pc'[t] # "idle"
        PROVE  On(job'[t].was, fork[job'[t].op]) /\ On(job'[t].found, fork[job'[t].op])
    <3>1. ASSUME NEW i \in Ops, NEW a \in BOOLEAN, job'[t] = JobOf(i, a, row[i], NoRow)
          PROVE  On(job'[t].was, fork[job'[t].op]) /\ On(job'[t].found, fork[job'[t].op])
      BY <3>1, <1>2 DEF JobOf, On, NoRow, RowOf
    <3>2. ASSUME NEW f \in Rows, Observe(t, f)
          PROVE  On(job'[t].was, fork[job'[t].op]) /\ On(job'[t].found, fork[job'[t].op])
      <4>1. On(f, fork[job[t].op])
        BY <3>2, ObserveFacts, VerdictFacts
      <4> QED BY <4>1, <3>2, <1>2, ObserveFacts
    <3>3. CASE job'[t] = job[t] /\ pc[t] # "idle"
      BY <3>3, <1>2
    <3> QED BY <3>1, <3>2, <3>3, <2>3, TrackerMoves
  <2> QED BY <2>1, <2>2, <2>3, <1>2
<1>4. ASSUME UNCHANGED <<row, pc, job>>, NEW i \in Ops, NEW f \in Forks,
             fork' = [fork EXCEPT ![i] = f],
             fork[i].src \in {NoBlock, f.src}, fork[i].dst \in {NoBlock, f.dst},
             f.src = NoBlock => f.dst = NoBlock
      PROVE  /\ \A k \in Ops : fork'[k].src = NoBlock => fork'[k].dst = NoBlock
             /\ \A k \in Ops : On(row'[k], fork'[k])
             /\ \A t \in Trackers : Right(t)'
  <2>1. \A k \in Ops : fork'[k] = IF k = i THEN f ELSE fork[k]
    BY <1>4 DEF TypeOK
  <2>2. ASSUME NEW k \in Ops, NEW w, On(w, fork[k]) PROVE On(w, fork'[k])
    BY <2>1, <2>2, <1>4 DEF On
  <2>3. ASSUME NEW t \in Trackers PROVE Right(t)'
    BY <2>2, <1>2, <1>4 DEF WorkInv
  <2> QED BY <2>1, <2>2, <2>3, <1>2, <1>4
<1>5. ASSUME NEW i \in Ops, NEW b \in Blocks, UNCHANGED <<row, pc, job>>,
             \/ fork[i].src = NoBlock /\ fork' = [fork EXCEPT ![i] = At(b, NoBlock)]
             \/ /\ fork[i].src # NoBlock /\ fork[i].dst = NoBlock
                /\ fork' = [fork EXCEPT ![i] = At(fork[i].src, b)]
      PROVE  \E f \in Forks :
               /\ fork' = [fork EXCEPT ![i] = f]
               /\ fork[i].src \in {NoBlock, f.src} /\ fork[i].dst \in {NoBlock, f.dst}
               /\ f.src = NoBlock => f.dst = NoBlock
  <2>1. fork[i].src \in Blocks
    BY DEF TypeOK, Forks
  <2>2. CASE fork[i].src = NoBlock
    <3>1. At(b, NoBlock) \in Forks /\ At(b, NoBlock).dst = NoBlock
      BY Types DEF At
    <3> QED BY <3>1, <2>2, <1>5, <1>2
  <2>3. CASE fork[i].src # NoBlock
    <3>1. At(fork[i].src, b) \in Forks /\ At(fork[i].src, b).src = fork[i].src
      BY <2>1, Types DEF At
    <3> QED BY <3>1, <2>3, <1>5
  <2> QED BY <2>2, <2>3
<1> HIDE DEF Right
<1> QED BY <1>1, <1>3, <1>4, <1>5, ChainMoves

-----------------------------------------------------------------------------
(* The theorems. *)

\* The journal of an account whose operations were just sent satisfies the inductive invariant.
LEMMA Initially == Init => IInv
<1> SUFFICES ASSUME Init PROVE IInv
  OBVIOUS
<1>1. \A i \in Ops : \E st \in Awaiting : row[i] = RowOf(st, NoBlock, NoBlock)
  BY DEF Init
<1>2. \A i \in Ops : Anchored(row[i]) /\ row[i].src = NoBlock /\ row[i].dst = NoBlock
  <2> TAKE i \in Ops
  <2>1. PICK st \in Awaiting : row[i] = RowOf(st, NoBlock, NoBlock)
    BY <1>1
  <2>2. row[i].st = st /\ row[i].src = NoBlock /\ row[i].dst = NoBlock
    BY <2>1 DEF RowOf
  <2> QED BY <2>2 DEF Anchored
<1>3. \A t \in Trackers : pc[t] = "idle"
  BY DEF Init
<1>4. \A i \in Ops : fork[i].src = NoBlock => fork[i].dst = NoBlock
  BY DEF Init, At
<1> QED BY <1>2, <1>3, <1>4, TypeInit DEF IInv, WorkInv, FoundInv, AnchoredInv, QuietInv, On

\* The inductive invariant holds in every reachable state.
THEOREM Invariance == Spec => []IInv
<1>1. IInv /\ [Next]_vars => IInv'
  BY TypeStep, WorkStep, FoundStep, AnchoredStep, QuietStep DEF IInv
<1> QED BY Initially, <1>1, PTL DEF Spec

\* Every variable keeps its type, for any number of trackers, operations, blocks and failures.
THEOREM TypeCorrectness == Spec => []TypeOK
BY Invariance, PTL DEF IInv

\* Whatever trackers read and however often the chain changes under them, an operation the journal
\* calls done, or in a block, names that block, so canonical_audit_page can find it again.
THEOREM ConcludedStaysAuditable == Spec => []ConcludedIsAuditable
<1>1. IInv => ConcludedIsAuditable
  <2>1. \A st \in Settling \cup Audited : st \notin Awaiting
    BY DEF Settling, Audited, Awaiting
  <2> QED BY <2>1 DEF IInv, AnchoredInv, Anchored, ConcludedIsAuditable
<1> QED BY <1>1, Invariance, PTL

\* On a chain that only grows no tracker takes an operation back, however many of them work on it
\* with whatever they read before: transition_operation's comparison is enough for that.
THEOREM NoTrackerTakesBack == Spec => OnlyReorgsTakeBack
<1> DEFINE Onward == \A i \in Ops : reorgs = 0 /\ retries' = 0 => Rank(row[i].st) <= Rank(row'[i].st)
<1>1. ASSUME IInv, [Next]_vars, NEW i \in Ops, reorgs = 0, retries' = 0
      PROVE  Rank(row[i].st) <= Rank(row'[i].st)
  <2>1. /\ TypeOK /\ WorkInv /\ FoundInv /\ retries \in Nat
        /\ \A t \in Trackers : pc[t] # "idle" =>
             /\ job[t].was.src \in {NoBlock, fork[job[t].op].src}
             /\ job[t].was.dst \in {NoBlock, fork[job[t].op].dst}
    BY <1>1, BoundsAssumption DEF IInv, TypeOK, QuietInv, On
  <2>2. ~(retries' > retries)
    BY <1>1, <2>1
  <2>3. ASSUME NEW st
        PROVE  /\ Rank(st) \in 0..2
               /\ st \in Awaiting => Rank(st) = 0
               /\ st \notin Awaiting => Rank(st) \in 1..2
               /\ st \in Settling => Rank(st) \in 0..1
    <3>1. CASE st \in Awaiting
      BY <3>1 DEF Rank, Awaiting, Settling
    <3>2. CASE st \in Settling
      BY <3>2 DEF Rank, Awaiting, Settling
    <3>3. CASE st \notin Awaiting /\ st \notin Settling
      BY <3>3 DEF Rank
    <3> QED BY <3>1, <3>2, <3>3
  <2>4. CASE row'[i] = row[i]
    BY <2>4, <2>3
  <2>5. ASSUME NEW t \in Trackers, pc[t] = "write", row[i].st = job[t].was.st,
               row'[i] = Patched(row[i], job[t].found)
        PROVE  Rank(row[i].st) <= Rank(row'[i].st)
    <3>1. /\ row'[i].st = job[t].found.st /\ row[i].st \in Statuses \ Audited
          /\ row[i].st \notin Awaiting => row'[i].st \notin Awaiting
      BY <2>1, <2>5 DEF Patched, RowOf, FoundInv, TypeOK, Rows
    <3>2. CASE row[i].st \in Awaiting
      <4>1. Rank(row[i].st) = 0 /\ Rank(row'[i].st) \in 0..2
        BY <3>2, <2>3
      <4> QED BY <4>1
    <3>3. CASE row[i].st \notin Awaiting
      <4>1. Rank(row[i].st) \in 0..1 /\ Rank(row'[i].st) \in 1..2
        BY <3>1, <3>3, <2>3 DEF Statuses
      <4> QED BY <4>1
    <3> QED BY <3>2, <3>3
  <2> QED BY <1>1, <2>1, <2>2, <2>4, <2>5, RowMoves
<1>2. IInv /\ [Next]_vars => [Onward]_vars
  BY <1>1
<1> QED BY <1>2, Invariance, PTL DEF Spec, OnlyReorgsTakeBack
=============================================================================
