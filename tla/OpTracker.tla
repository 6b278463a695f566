------------------------------ MODULE OpTracker ------------------------------
(***************************************************************************)
(* Following sent operations on a chain that reorganises.                  *)
(*                                                                         *)
(* Trackers (the terminal's lanes, the daemon) read the journal, lock one   *)
(* operation at a time, check that the blocks its row is anchored to are    *)
(* still on the chain, ask the node what became of it, and write the answer *)
(* if the status is still the one they read. Concluded operations are       *)
(* audited in rotation, since inclusion is not finality. Every question to  *)
(* the node is an await: the chain, and rebroadcast, may move meanwhile.    *)
(*                                                                         *)
(* wallet-core/src: track.rs (reconcile_ops, recheck_operation_anchors,     *)
(* audit_canonical_operations, track_account_op, settle_result), appdb.rs.  *)
(* The node and the SDK's settlement scan are external.                    *)
(***************************************************************************)
EXTENDS Integers

CONSTANTS
  Trackers,      \* sessions that track
  Ops,           \* operations sent, in the order of their ids
  Conversions,   \* those that also need a destination (conversions, wraps, redemptions)
  MaxBlocks,     \* bound: blocks that matter to them
  MaxReorgs,     \* bound: reorganisations
  MaxRetries,    \* bound: rebroadcasts of an operation already in a block
  MaxFailures    \* bound: processes that die, questions the node does not answer, and those rebroadcasts

ASSUME OpsAssumption == Ops \subseteq Nat \ {0} /\ Conversions \subseteq Ops
ASSUME BoundsAssumption == MaxBlocks \in Nat /\ MaxReorgs \in Nat /\ MaxRetries \in Nat /\ MaxFailures \in Nat

Nobody   == "nobody"
ASSUME TrackersAssumption == Nobody \notin Trackers

NoBlock  == 0
Blocks   == 0..MaxBlocks
Awaiting == {"signed", "submitted", "unknown"}
Settling == {"settling", "locked"}
Audited  == {"confirmed", "failed", "settled", "refunded"}
Statuses == Awaiting \cup Settling \cup Audited

VARIABLES
  fork,      \* chain: the block that includes each operation, the one that executes it
  seen,      \* chain: what it has been so far, for each operation
  born,      \* blocks so far
  row,       \* journal: each operation's status and anchors
  cursor,    \* journal: where the audit's rotation stands
  opLock,    \* holder of each operation lock
  pc, job,   \* where each tracker is, and what it works on
  reorgs, retries, failures

chain == <<fork, seen, born, reorgs>>
calls == <<opLock, pc, job>>
vars  == <<fork, seen, born, row, cursor, opLock, pc, job, reorgs, retries, failures>>

Places == {"idle", "lock", "source", "dest", "again", "observe", "write"}
Forks  == [src : Blocks, dst : Blocks]
Rows   == [st : Statuses, src : Blocks, dst : Blocks]
Jobs   == [op : Ops \cup {0}, audit : BOOLEAN, was : Rows, found : Rows]

At(s, d)       == [src |-> s, dst |-> d]
RowOf(st, s, d) == [st |-> st, src |-> s, dst |-> d]
NoRow          == RowOf("signed", NoBlock, NoBlock)
\* The operation, whether it is audited only, its row as read, and what the node says of it.
JobOf(i, a, w, f) == [op |-> i, audit |-> a, was |-> w, found |-> f]
NoJob             == JobOf(0, FALSE, NoRow, NoRow)

TypeOK ==
  /\ fork \in [Ops -> Forks] /\ seen \in [Ops -> SUBSET Forks]
  /\ born \in Blocks /\ reorgs \in 0..MaxReorgs /\ retries \in 0..MaxRetries
  /\ failures \in 0..MaxFailures
  /\ row \in [Ops -> Rows] /\ cursor \in Ops \cup {0}
  /\ opLock \in [Ops -> Trackers \cup {Nobody}]
  /\ pc \in [Trackers -> Places] /\ job \in [Trackers -> Jobs]

Init ==
  /\ fork = [i \in Ops |-> At(NoBlock, NoBlock)] /\ seen = [i \in Ops |-> {At(NoBlock, NoBlock)}]
  /\ born = 0 /\ reorgs = 0 /\ retries = 0 /\ failures = 0 /\ cursor = 0
  /\ row \in [Ops -> {RowOf(st, NoBlock, NoBlock) : st \in Awaiting}]
  /\ opLock = [i \in Ops |-> Nobody]
  /\ pc = [t \in Trackers |-> "idle"] /\ job = [t \in Trackers |-> NoJob]

-----------------------------------------------------------------------------
(* The chain. A block that left it may come back with everything on it. *)

Becomes(i, f) ==
  /\ fork' = [fork EXCEPT ![i] = f]
  /\ seen' = [seen EXCEPT ![i] = @ \cup {f}]
  /\ UNCHANGED <<row, cursor, calls, retries, failures>>

Include(i) ==
  /\ fork[i].src = NoBlock /\ born < MaxBlocks
  /\ born' = born + 1 /\ UNCHANGED reorgs
  /\ Becomes(i, At(born + 1, NoBlock))

Execute(i) ==
  /\ i \in Conversions /\ fork[i].src # NoBlock /\ fork[i].dst = NoBlock /\ born < MaxBlocks
  /\ born' = born + 1 /\ UNCHANGED reorgs
  /\ Becomes(i, At(fork[i].src, born + 1))

Reorg(i) ==
  /\ reorgs < MaxReorgs /\ reorgs' = reorgs + 1 /\ UNCHANGED born
  /\ \E f \in seen[i] \ {fork[i]} : Becomes(i, f)

-----------------------------------------------------------------------------
(* The journal. *)

\* Faulty variant: writes over whatever another tracker has recorded since.
Overwrite(i, from, new) == row' = [row EXCEPT ![i] = new]
\* transition_operation: compares the status alone.
Transition(i, from, new) == row' = IF row[i].st = from THEN [row EXCEPT ![i] = new] ELSE row

\* A patch merges into the row as it is by now: anchors it does not name are kept.
Patched(w, f) == RowOf(f.st, IF f.src # NoBlock THEN f.src ELSE w.src,
                             IF f.dst # NoBlock THEN f.dst ELSE w.dst)

\* canonical_audit_page: the next concluded operation with a block, from the start again at the
\* end. (A page of one stands for the code's eight.)
\* Faulty variant: a refund is not looked at again.
AuditableUnrefunded == {i \in Ops : row[i].st \in Audited \ {"refunded"} /\ row[i].src # NoBlock}
Auditable == {i \in Ops : row[i].st \in Audited /\ row[i].src # NoBlock}
\* Faulty variant: stays at the end.
PageStuck(c) == {i \in Auditable : i > c}
Page(c) == LET rest == {i \in Auditable : i > c} IN IF rest = {} THEN Auditable ELSE rest

-----------------------------------------------------------------------------
(* A tracker's pass over one operation. *)

Goto(t, p) == pc' = [pc EXCEPT ![t] = p]
Working(t, p) == pc[t] = p /\ UNCHANGED <<chain, retries, failures>>

\* Faulty variant: notes one further than it came.
DonePast(t) ==
  /\ Goto(t, "idle") /\ job' = [job EXCEPT ![t] = NoJob]
  /\ opLock' = [i \in Ops |-> IF opLock[i] = t THEN Nobody ELSE opLock[i]]
  /\ cursor' = IF job[t].audit THEN job[t].op + 1 ELSE cursor
\* The guard is dropped at the end of the pass; the audit then notes how far it came.
Done(t) ==
  /\ Goto(t, "idle") /\ job' = [job EXCEPT ![t] = NoJob]
  /\ opLock' = [i \in Ops |-> IF opLock[i] = t THEN Nobody ELSE opLock[i]]
  /\ cursor' = IF job[t].audit THEN job[t].op ELSE cursor

\* track_scoped, track_inclusion: the rows are read first, each is locked later.
TrackRead(t, i) ==
  /\ Working(t, "idle") /\ row[i].st \in Awaiting \cup Settling
  /\ job' = [job EXCEPT ![t] = JobOf(i, FALSE, row[i], NoRow)]
  /\ Goto(t, "lock") /\ UNCHANGED <<row, cursor, opLock>>

AuditRead(t) ==
  /\ Working(t, "idle")
  /\ \E i \in Page(cursor) :
       /\ \A k \in Page(cursor) : i <= k
       /\ job' = [job EXCEPT ![t] = JobOf(i, TRUE, row[i], NoRow)]
  /\ Goto(t, "lock") /\ UNCHANGED <<row, cursor, opLock>>

Lock(t) == LET i == job[t].op IN
  /\ Working(t, "lock") /\ opLock[i] = Nobody
  /\ opLock' = [opLock EXCEPT ![i] = t]
  /\ Goto(t, "source") /\ UNCHANGED <<row, cursor, job>>

\* try_operation_lock: another tracker, or a call of the user, has it.
Busy(t) ==
  /\ Working(t, "lock") /\ opLock[job[t].op] # Nobody
  /\ Done(t) /\ UNCHANGED row

\* The node does not answer, or not yet: the pass ends and changes nothing.
NoAnswer(t) ==
  /\ pc[t] \in {"source", "dest", "again", "observe"} /\ failures < MaxFailures
  /\ failures' = failures + 1
  /\ Done(t) /\ UNCHANGED <<chain, row, retries>>

\* Faulty variant: forgets the block but not the verdict.
ReorganizedQuietly(t) == LET i == job[t].op  was == job[t].was IN
  /\ Transition(i, was.st, RowOf(was.st, NoBlock, NoBlock)) /\ Done(t)
\* The source block is gone: everything that rested on it is forgotten, the operation is sent again.
Reorganized(t) == LET i == job[t].op  was == job[t].was IN
  /\ Transition(i, was.st, RowOf("submitted", NoBlock, NoBlock)) /\ Done(t)

CheckSource(t) == LET i == job[t].op  was == job[t].was IN
  /\ Working(t, "source")
  /\ IF was.src \in {NoBlock, fork[i].src}
     THEN Goto(t, "dest") /\ UNCHANGED <<row, cursor, opLock, job>>
     ELSE Reorganized(t)

\* What follows a row whose anchors hold: an audit ends there.
Checked(t) == IF job[t].audit THEN Done(t) /\ UNCHANGED row
                              ELSE Goto(t, "observe") /\ UNCHANGED <<row, cursor, opLock, job>>

CheckDest(t) == LET i == job[t].op  was == job[t].was IN
  /\ Working(t, "dest")
  /\ CASE was.dst = NoBlock -> Checked(t)
       [] was.dst # NoBlock /\ was.dst = fork[i].dst ->
            Goto(t, "again") /\ UNCHANGED <<row, cursor, opLock, job>>
       [] OTHER -> Transition(i, was.st, RowOf("settling", row[i].src, NoBlock)) /\ Done(t)

\* The source once more, behind the destination it was read before.
CheckAgain(t) == LET i == job[t].op  was == job[t].was IN
  /\ Working(t, "again")
  /\ IF was.src \in {NoBlock, fork[i].src} THEN Checked(t) ELSE Reorganized(t)

\* Of an operation that waits for a block: where it is, and how it ended there.
Inclusions(i) == {RowOf(st, fork[i].src, NoBlock) :
                    st \in IF i \in Conversions THEN {"settling", "locked", "failed", "unknown"}
                                                ELSE {"confirmed", "locked", "failed", "unknown"}}
\* Of one that waits for its destination: nothing, or what its execution came to. The execution
\* need not decide it: an account conversion rests locked, a credit spent or not indexed settling.
Settlements(i) == {RowOf("settling", NoBlock, NoBlock)} \cup
  IF fork[i].dst = NoBlock THEN {}
  ELSE {RowOf(st, NoBlock, fork[i].dst) : st \in Settling \cup {"settled", "failed", "refunded"}}
Verdicts(i, st) ==
  CASE st \in Awaiting /\ fork[i].src # NoBlock -> Inclusions(i)
    [] st = "unknown" /\ fork[i].src = NoBlock -> {RowOf("submitted", NoBlock, NoBlock)}
    [] st \in Settling /\ i \in Conversions -> Settlements(i)
    [] OTHER -> {}

Observe(t, f) == LET i == job[t].op IN
  /\ Working(t, "observe") /\ f \in Verdicts(i, job[t].was.st)
  /\ job' = [job EXCEPT ![t] = JobOf(i, FALSE, job[t].was, f)]
  /\ Goto(t, "write") /\ UNCHANGED <<row, cursor, opLock>>

\* Nothing to say of it yet.
NoVerdict(t) ==
  /\ Working(t, "observe") /\ Verdicts(job[t].op, job[t].was.st) = {}
  /\ Done(t) /\ UNCHANGED row

Write(t) == LET i == job[t].op IN
  /\ Working(t, "write")
  /\ Transition(i, job[t].was.st, Patched(row[i], job[t].found)) /\ Done(t)

-----------------------------------------------------------------------------
(* A process dies; rebroadcast, which takes no lock, finishes. *)

Crash(t) ==
  /\ pc[t] # "idle" /\ failures < MaxFailures
  /\ failures' = failures + 1
  /\ Goto(t, "idle") /\ job' = [job EXCEPT ![t] = NoJob]
  /\ opLock' = [i \in Ops |-> IF opLock[i] = t THEN Nobody ELSE opLock[i]]
  /\ UNCHANGED <<chain, row, cursor, retries>>

Rebroadcast(i, st) ==
  /\ retries < MaxRetries /\ retries' = retries + 1
  /\ failures < MaxFailures /\ failures' = failures + 1
  /\ row[i].st \in Settling
  /\ row' = [row EXCEPT ![i] = RowOf(st, row[i].src, row[i].dst)]
  /\ UNCHANGED <<chain, cursor, calls>>

\* The steps of a pass under way.
Proceed(t) ==
  \/ Lock(t) \/ Busy(t) \/ CheckSource(t) \/ CheckDest(t) \/ CheckAgain(t)
  \/ (\E f \in Rows : Observe(t, f)) \/ NoVerdict(t) \/ Write(t)

Next ==
  \/ \E i \in Ops : Include(i) \/ Execute(i) \/ Reorg(i)
                    \/ \E st \in Awaiting : Rebroadcast(i, st)
  \/ \E t \in Trackers :
       AuditRead(t) \/ Proceed(t) \/ NoAnswer(t) \/ Crash(t) \/ \E i \in Ops : TrackRead(t, i)

Spec == Init /\ [][Next]_vars

\* A pass under way goes on; some process tracks and audits every few seconds; the node answers
\* at last (MaxFailures), though it may never decide what became of an operation.
Tracked(i) == \E t \in Trackers : TrackRead(t, i)
Audit      == \E t \in Trackers : AuditRead(t)
Fairness ==
  /\ \A t \in Trackers : WF_vars(Proceed(t))
  /\ SF_vars(Audit) /\ \A i \in Ops : SF_vars(Tracked(i))

FairSpec == Spec /\ Fairness

-----------------------------------------------------------------------------
(* Properties. *)

\* canonical_audit_page selects rows with an included_hash: an operation the journal calls done
\* (or in a block) without naming the block would never be looked at again, whatever happens to
\* the chain. A stale tracker must not leave one, however often the chain changes under it (as long
\* as nobody rebroadcasts an operation already in a block: see InclusionIsReported).
ConcludedIsAuditable == retries = 0 => \A i \in Ops : row[i].st \in Settling \cup Audited => row[i].src # NoBlock

Rank(st) == CASE st \in Awaiting -> 0 [] st \in Settling -> 1 [] OTHER -> 2

\* reconcile_ops: "Only if nobody moved it meanwhile". On a chain that has not reorganised no
\* tracker, however old what it read, takes an operation back.
OnlyReorgsTakeBack == [][\A i \in Ops :
  reorgs = 0 /\ retries' = 0 => Rank(row[i].st) <= Rank(row'[i].st)]_vars

\* appdb.rs, transition_operation: "one that read it earlier cannot put it back". What the journal
\* says of an operation that is where its row says is not taken back by a tracker.
StaleReadTakesNothingBack == [][\A i \in Ops :
  row[i].st \in Audited /\ row[i].src = fork[i].src /\ row[i].dst \in {NoBlock, fork[i].dst}
    => row'[i].st = row[i].st]_vars

Landed(i) == fork[i].src # NoBlock /\ (i \in Conversions => fork[i].dst # NoBlock)
Placed(i) == /\ row[i].st \notin {"signed", "submitted"} /\ row[i].src = fork[i].src
             /\ row[i].dst \in {NoBlock, fork[i].dst}
\* Nothing settles a locked receipt of anything but a conversion.
Ended(i)  == row[i].st \in Audited \/ (row[i].st = "locked" /\ i \notin Conversions)

\* An answer that leaves open what is already on the chain: a receipt without an outcome, a credit
\* that is locked or unverified.
Inconclusive(i, st, f) == IF st \in Awaiting THEN f.st = "unknown"
                          ELSE f.st \in Settling /\ fork[i].dst # NoBlock
Conclusive(i) == \A t \in Trackers :
  pc[t] = "observe" /\ pc'[t] = "write" /\ job[t].op = i => ~Inconclusive(i, job[t].was.st, job'[t].found)

\* recheck_operation_anchors and the rotating audit: once the chain settles, the journal comes to
\* say of every operation where the chain has it, also of those it had concluded; those thrown off
\* it are followed again. One on the chain is concluded if the node at last says how it ended, and
\* may else rest locked, settling or unknown for good (settle_result: "whose maturity this
\* operation cannot observe").
TruthPrevails == \A i \in Ops :
  /\ <>[]Landed(i) => <>[]Placed(i)
  /\ <>[]Landed(i) /\ <>[][Conclusive(i)]_vars => <>[]Ended(i)
  /\ <>[](fork[i].src = NoBlock) => <>[](row[i].src = NoBlock /\ row[i].st \in Awaiting)

=============================================================================
