------------------------ MODULE AccountPipelineProofs ------------------------
(***************************************************************************)
(* AccountPipeline for every number of sessions, reservations, reviews and  *)
(* fee bumps: the locks exclude, and nothing signed is cancelled, forgotten *)
(* or sent before the journal knows it; it implements SpendLife: whatever   *)
(* the sessions do and wherever one dies, each spend lives the life the     *)
(* wallet promises and the journal says no more of it than is true; and     *)
(* what is signed and not yet mined never exceeds what the account holds.   *)
(***************************************************************************)
EXTENDS AccountPipeline, FiniteSetTheorems, WellFoundedInduction, TLAPS

(* The inductive invariant, by the piece of state each part is about. *)

\* Where a session holds the owner's commitment lock, and the lock of its operation.
HoldsCommit == {"p_lock", "p_sdk", "p_check", "p_insert", "u_check",
                "c_check", "c_sign", "c_mark", "c_send", "c_done"}
HoldsOp     == {"p_sdk", "p_check", "p_insert", "u_check", "c_sign", "c_mark", "c_send", "c_done",
                "d_release", "d_cancel"}
Preparing   == {"p_check", "p_insert"}

\* A lock is held from the step that takes it to the return: two sessions are never both
\* inside the commitment lock, nor both at work on one operation.
LockInv == \A s \in Sessions :
  /\ pc[s] \in HoldsCommit => commitLock = s
  /\ pc[s] \in HoldsOp => opLock[job[s].id] = s
  /\ pc[s] # "idle" => job[s].id \in Ids

\* The custody store: signed bytes are there exactly for what is signed, and belong to it.
ClaimInv == \A i \in Ids :
  /\ payload[i] # {} => resv[i] \in {"signed", "confirmed"}
  /\ resv[i] = "signed" => payload[i] # {}
  /\ \A c \in payload[i] : c.id = i

\* What a session knows of its own operation at each place.
JobAt(s) == LET j == job[s]  i == j.id IN
  /\ pc[s] = "p_sdk" => resv[i] \in {"none", "reserved"}
  /\ pc[s] \in Preparing => resv[i] = "reserved" /\ bound[i] = j.rev
  /\ pc[s] = "d_cancel" => resv[i] = "released"
  /\ pc[s] \in {"p_check", "p_insert", "u_check", "c_check", "c_sign", "c_mark", "c_send", "c_done",
                "r_send", "r_done"} => j.rev \in Reviews
  /\ pc[s] = "u_check" => j.k > 0
  /\ pc[s] = "c_mark" => Cand(i, j.rev, j.k) \in payload[i]
  /\ pc[s] \in {"c_send", "c_done", "r_send", "r_done"} => Cand(i, j.rev, j.k) \in row[i].known
  /\ pc[s] \in {"r_send", "r_done", "t_apply"} => j.from \in Open \ {"prepared"}
  /\ pc[s] \in {"c_done", "r_done"} => j.reply \in Replies
JobInv == \A s \in Sessions : JobAt(s)

\* Reviews are numbered as they are prepared: the one being prepared is nobody's yet.
FreshInv ==
  /\ \A s \in Sessions : \A p \in pending[s] : p.k = 0 => p.rev <= nrev
  /\ \A s \in Sessions :
       pc[s] \in Preparing \/ (pc[s] \in {"c_check", "c_sign"} /\ job[s].k = 0) => job[s].rev <= nrev
  /\ \A s, t \in Sessions : \A p \in pending[t] :
       pc[s] \in Preparing /\ p.k = 0 => p.rev # job[s].rev

\* A first candidate the SDK would sign has its review waiting in the journal, described there
\* or (recovered after a crash) of unknown content.
Waiting(i, r) == resv[i] = "reserved" /\ bound[i] = r
                   => row[i].st = "prepared" /\ row[i].rev \in {NoReview, r}
WaitingInv ==
  /\ \A s \in Sessions : \A p \in pending[s] : p.k = 0 => Waiting(p.id, p.rev)
  /\ \A s \in Sessions :
       pc[s] \in {"c_check", "c_sign"} /\ job[s].k = 0 => Waiting(job[s].id, job[s].rev)

\* The journal knows only what is signed, and names only what it knows.
RowInv == \A i \in Ids :
  /\ row[i].st = "prepared" => row[i].hash = NoHash
  /\ row[i].st \notin {"none", "prepared", "cancelled"} => payload[i] # {}
  /\ row[i].known \subseteq payload[i]
  /\ row[i].hash # NoHash => row[i].hash \in row[i].known

\* What is mined was sent.
MinedInv == \A n \in 1..Len(mined) : mined[n] \in sent

IInv == /\ TypeOK /\ LockInv /\ ClaimInv /\ JobInv /\ FreshInv /\ WaitingInv /\ RowInv
        /\ MinedInv /\ SentIsJournalled

\* One review per family: all its candidates, a replacement on its way to be one, and the row
\* that describes it agree on the review they carry out. (Only if SignBindsReview.)
Carries(i, r) == payload[i] # {} /\ \A c \in payload[i] : c.rev = r
FamilyInv ==
  /\ \A i \in Ids : /\ \A c, d \in payload[i] : c.rev = d.rev
                    /\ row[i].rev # NoReview => \A c \in payload[i] : c.rev = row[i].rev
  /\ \A s \in Sessions : \A p \in pending[s] : p.k > 0 => Carries(p.id, p.rev)
  /\ \A s \in Sessions :
       pc[s] = "u_check" \/ (pc[s] \in {"c_check", "c_sign"} /\ job[s].k > 0)
         => Carries(job[s].id, job[s].rev)

-----------------------------------------------------------------------------
(* Types. *)

\* RowOf builds a row of the operations table from well-typed parts.
LEMMA RowOfType ==
  ASSUME NEW st \in Statuses \cup {"none"}, NEW r \in 0..MaxReviews,
         NEW h \in Candidates \cup {NoHash}, NEW known \in SUBSET Candidates, NEW f \in Bumps
  PROVE  RowOf(st, r, h, known, f) \in Rows
BY DEF RowOf, Rows

\* The absent row has the type of a row.
LEMMA NoRowType == NoRow \in Rows
<1>1. 0 \in 0..MaxReviews /\ 0 \in Bumps
  BY BoundsAssumption DEF Bumps
<1> QED BY <1>1, RowOfType DEF NoRow, NoReview

\* JobOf builds a piece of work from well-typed parts.
LEMMA JobOfType ==
  ASSUME NEW i \in Ids \cup {NoId}, NEW r \in 0..MaxReviews, NEW k \in Bumps, NEW n \in Nat,
         NEW from \in Statuses \cup {"none"}
  PROVE  JobOf(i, r, k, n, from) \in Jobs
BY DEF JobOf, Jobs

\* The idle session's piece of work has the type of one.
LEMMA NoJobType == NoJob \in Jobs
<1>1. 0 \in 0..MaxReviews /\ 0 \in Bumps /\ 0 \in Nat
  BY BoundsAssumption DEF Bumps
<1> QED BY <1>1, JobOfType DEF NoJob, NoReview

\* A broadcast's answer keeps the piece of work well typed.
LEMMA AnsweredType == ASSUME NEW j \in Jobs, NEW r \in Replies PROVE Answered(j, r) \in Jobs
BY DEF Answered, Jobs

\* Cand names a signed transaction by well-typed parts.
LEMMA CandType ==
  ASSUME NEW i \in Ids, NEW r \in Reviews, NEW k \in Bumps PROVE Cand(i, r, k) \in Candidates
BY DEF Cand, Candidates

\* The types of a row's columns.
LEMMA RowFields == ASSUME NEW w \in Rows
  PROVE /\ w.st \in Statuses \cup {"none"} /\ w.rev \in 0..MaxReviews
        /\ w.hash \in Candidates \cup {NoHash} /\ w.known \in SUBSET Candidates /\ w.fee \in Bumps
BY DEF Rows

\* The types of what a call remembers.
LEMMA JobFields == ASSUME NEW j \in Jobs
  PROVE /\ j.id \in Ids \cup {NoId} /\ j.rev \in 0..MaxReviews /\ j.k \in Bumps /\ j.seen \in Nat
        /\ j.from \in Statuses \cup {"none"} /\ j.reply \in Replies \cup {"none"}
BY DEF Jobs

\* The types of what names a signed transaction.
LEMMA CandFields == ASSUME NEW c \in Candidates PROVE c.id \in Ids /\ c.rev \in Reviews /\ c.k \in Bumps
BY DEF Candidates

\* What a call's return leaves of the session and its locks.
LEMMA Returns ==
  ASSUME TypeOK, NEW s \in Sessions, Return(s)
  PROVE  /\ pc' \in [Sessions -> Places] /\ job' \in [Sessions -> Jobs]
         /\ commitLock' \in Sessions \cup {Nobody}
         /\ opLock' \in [Ids -> Sessions \cup {Nobody}]
BY NoJobType DEF TypeOK, Return, CommitLockDropped, OpLocksDropped, Places

\* transition_operation writes well-typed rows into a well-typed table.
LEMMA TransitionType ==
  ASSUME row \in [Ids -> Rows], NEW i \in Ids, NEW from, NEW new \in Rows, Transition(i, from, new)
  PROVE  row' \in [Ids -> Rows]
BY DEF Transition

\* finish_broadcast leaves an operation waiting for a block, whatever the answer.
LEMMA AfterReplyType == \A r : AfterReply(r) \in Awaiting
BY DEF AfterReply, Awaiting

\* reconcile_custody writes well-typed rows.
LEMMA ReconciledType == ASSUME TypeOK, NEW i \in Ids, NEW r \in Reconciled(i) PROVE r \in Rows
<1> DEFINE w == IF HasRow(i) THEN row[i] ELSE RowOf("prepared", NoReview, NoHash, {}, 0)
           st == IF w.st = "prepared" THEN "signed" ELSE w.st
<1>1. w \in Rows
  <2>1. 0 \in 0..MaxReviews /\ 0 \in Bumps
    BY BoundsAssumption DEF Bumps
  <2> QED BY <2>1, RowOfType DEF TypeOK, NoReview, Statuses, Open
<1>2. st \in Statuses \cup {"none"}
  BY <1>1, RowFields DEF Statuses, Open
<1>3. payload[i] \in SUBSET Candidates /\ Latest(i) \subseteq Candidates
  BY DEF TypeOK, Latest
<1>4. r = w \/ \E h \in Candidates \cup {NoHash} : r = RowOf(st, w.rev, h, payload[i], w.fee)
  BY <1>1, <1>3, RowFields DEF Reconciled
<1> HIDE DEF w, st
<1> QED BY <1>1, <1>2, <1>3, <1>4, RowFields, RowOfType

\* Session::open on an account without operations: the initial state is well typed.
THEOREM TypeInit == Init => TypeOK
<1>1. 0 \in 0..MaxReviews /\ 0 \in Nat
  BY BoundsAssumption
<1> QED BY <1>1, NoRowType, NoJobType
        DEF Init, TypeOK, ReservationStates, Places, NoReview

\* Every action keeps every variable in its type.
THEOREM TypeStep == TypeOK /\ LockInv /\ JobInv /\ [Next]_vars => TypeOK'
<1> SUFFICES ASSUME TypeOK, LockInv, JobInv, [Next]_vars PROVE TypeOK'
  OBVIOUS
<1> USE BoundsAssumption DEF TypeOK, Goto, Places, ReservationStates, sdk, node, locks, bounds
<1> DEFINE Zero == 0 \in 0..MaxReviews /\ 0 \in Bumps
<1>0. Zero /\ NoReview = 0
  BY DEF Bumps, NoReview
<1> HIDE DEF Zero
<1>PrepareBegin. ASSUME NEW s \in Sessions, PrepareBegin(s) PROVE TypeOK'
  <2>1. PICK i \in Ids : job' = [job EXCEPT ![s] = JobOf(i, NoReview, 0, 0, "none")]
    BY <1>PrepareBegin DEF PrepareBegin
  <2>2. JobOf(i, NoReview, 0, 0, "none") \in Jobs
    BY <1>0, JobOfType DEF Zero
  <2> QED BY <1>PrepareBegin, <2>1, <2>2 DEF PrepareBegin
<1>PrepareLock. ASSUME NEW s \in Sessions, PrepareLock(s) PROVE TypeOK'
  BY <1>PrepareLock, <1>0 DEF PrepareLock, Zero
<1>PrepareReserve. ASSUME NEW s \in Sessions, PrepareReserve(s) PROVE TypeOK'
  <2>1. PICK n \in Observable : job' = [job EXCEPT ![s] = JobOf(job[s].id, nrev + 1, 0, n, "none")]
    BY <1>PrepareReserve DEF PrepareReserve
  <2>2. /\ n \in Nat
        /\ nrev + 1 \in 0..MaxReviews
    <3>1. n \in Nat
      BY DEF Observable
    <3>2. nrev + 1 \in 0..MaxReviews
      BY <1>PrepareReserve DEF PrepareReserve
    <3> QED BY <3>1, <3>2
  <2>3. JobOf(job[s].id, nrev + 1, 0, n, "none") \in Jobs
    BY <1>0, <2>2, JobOfType, JobFields DEF Zero
  <2>4. job' \in [Sessions -> Jobs]
    BY <2>1, <2>3
  <2>5. bound' \in [Ids -> 0..MaxReviews] /\ nrev' \in 0..MaxReviews
    BY <1>PrepareReserve, <2>2 DEF PrepareReserve
  <2>6. nonceOf' \in [Ids -> Nat] /\ cursor' \in Nat
    <3>1. job[s].id \in Ids
      BY <1>PrepareReserve DEF PrepareReserve, LockInv
    <3> QED BY <1>PrepareReserve, <3>1 DEF PrepareReserve
  <2> QED BY <1>PrepareReserve, <2>4, <2>5, <2>6 DEF PrepareReserve
<1>PrepareClear. ASSUME NEW s \in Sessions, PrepareClear(s) PROVE TypeOK'
  BY <1>PrepareClear, NoRowType DEF PrepareClear
<1>PrepareFinish. ASSUME NEW s \in Sessions, PrepareFinish(s) PROVE TypeOK'
  <2> DEFINE j == job[s]
             w == RowOf("prepared", j.rev, NoHash, {}, 0)
  <2>1. j.id \in Ids /\ j.rev \in Reviews /\ j.rev \in 0..MaxReviews
    BY <1>PrepareFinish, JobFields DEF PrepareFinish, LockInv, JobInv, JobAt
  <2>2. w \in Rows
    BY <1>0, <2>1, RowOfType DEF Zero, Statuses, Open
  <2>3. [id |-> j.id, rev |-> j.rev, k |-> 0] \in Pendings
    BY <1>0, <2>1 DEF Pendings, Zero
  <2>4. pending' \in [Sessions -> SUBSET Pendings]
    BY <1>PrepareFinish, <2>3 DEF PrepareFinish
  <2> HIDE DEF w
  <2> QED BY <1>PrepareFinish, <2>2, <2>4, Returns DEF PrepareFinish, w
<1>PrepareReject. ASSUME NEW s \in Sessions, PrepareReject(s) PROVE TypeOK'
  BY <1>PrepareReject, Returns DEF PrepareReject
<1>SpeedUpBegin. ASSUME NEW s \in Sessions, NEW i \in Ids, SpeedUpBegin(s, i) PROVE TypeOK'
  <2>1. PICK n \in Observable, c \in Latest(i) :
          c.k < MaxBump /\ job' = [job EXCEPT ![s] = JobOf(i, c.rev, c.k + 1, n, row[i].st)]
    BY <1>SpeedUpBegin DEF SpeedUpBegin
  <2>2. n \in Nat /\ c \in Candidates
    BY DEF Observable, Latest
  <2>3. c.rev \in 0..MaxReviews /\ c.k + 1 \in Bumps
    BY <2>1, <2>2, CandFields DEF Reviews, Bumps
  <2>4. JobOf(i, c.rev, c.k + 1, n, row[i].st) \in Jobs
    BY <2>2, <2>3, JobOfType, RowFields
  <2> QED BY <1>SpeedUpBegin, <2>1, <2>4 DEF SpeedUpBegin
<1>SpeedUpFinish. ASSUME NEW s \in Sessions, SpeedUpFinish(s) PROVE TypeOK'
  <2> DEFINE j == job[s]
             w == row[j.id]
             f == IF w.fee > j.k THEN w.fee ELSE j.k
  <2>1. /\ j \in Jobs /\ j.id \in Ids /\ w \in Rows /\ j.rev \in Reviews
    BY <1>SpeedUpFinish DEF SpeedUpFinish, LockInv, JobInv, JobAt
  <2>2. f \in Bumps /\ j.k \in Bumps
    BY <2>1, RowFields, JobFields
  <2>3. RowOf(w.st, w.rev, w.hash, w.known, f) \in Rows
    BY <2>1, <2>2, RowFields, RowOfType
  <2>4. [id |-> j.id, rev |-> j.rev, k |-> j.k] \in Pendings
    BY <2>1, <2>2 DEF Pendings
  <2> QED BY <1>SpeedUpFinish, <2>3, <2>4, Returns DEF SpeedUpFinish
<1>SpeedUpReject. ASSUME NEW s \in Sessions, SpeedUpReject(s) PROVE TypeOK'
  BY <1>SpeedUpReject, Returns DEF SpeedUpReject
<1>CommitBegin. ASSUME NEW s \in Sessions, NEW p \in pending[s], CommitBegin(s, p) PROVE TypeOK'
  <2>1. PICK n \in Observable : job' = [job EXCEPT ![s] = JobOf(p.id, p.rev, p.k, n, "none")]
    BY <1>CommitBegin DEF CommitBegin
  <2>2. p.id \in Ids /\ p.rev \in 0..MaxReviews /\ p.k \in Bumps /\ n \in Nat
    BY DEF Pendings, Reviews, Observable
  <2>3. JobOf(p.id, p.rev, p.k, n, "none") \in Jobs
    BY <2>2, JobOfType
  <2> QED BY <1>CommitBegin, <2>1, <2>3 DEF CommitBegin
<1>CommitRefuse. ASSUME NEW s \in Sessions, CommitRefuse(s) PROVE TypeOK'
  BY <1>CommitRefuse, Returns DEF CommitRefuse
<1>CommitAdmit. ASSUME NEW s \in Sessions, CommitAdmit(s) PROVE TypeOK'
  BY <1>CommitAdmit DEF CommitAdmit
<1>CommitSign. ASSUME NEW s \in Sessions, CommitSign(s) PROVE TypeOK'
  <2>1. Cand(job[s].id, job[s].rev, job[s].k) \in Candidates
    BY <1>CommitSign, JobFields, CandType DEF CommitSign, LockInv, JobInv, JobAt
  <2> QED BY <1>CommitSign, <2>1 DEF CommitSign
<1>CommitSignFails. ASSUME NEW s \in Sessions, CommitSignFails(s) PROVE TypeOK'
  BY <1>CommitSignFails, Returns DEF CommitSignFails
<1>CommitMark. ASSUME NEW s \in Sessions, CommitMark(s) PROVE TypeOK'
  <2> DEFINE j == job[s]
             c == Cand(j.id, j.rev, j.k)
  <2>1. j.id \in Ids /\ row[j.id] \in Rows /\ c \in Candidates
    BY <1>CommitMark, JobFields, CandType DEF CommitMark, LockInv, JobInv, JobAt
  <2>2. Marked(row[j.id], "signed", c) \in Rows
    BY <2>1, RowFields, RowOfType DEF Marked, Statuses, Open
  <2> QED BY <1>CommitMark, <2>1, <2>2, TransitionType DEF CommitMark
<1>CommitMarkRefused. ASSUME NEW s \in Sessions, CommitMarkRefused(s) PROVE TypeOK'
  BY <1>CommitMarkRefused, Returns DEF CommitMarkRefused
<1>CommitRecord. ASSUME NEW s \in Sessions, CommitRecord(s) PROVE TypeOK'
  <2> DEFINE j == job[s]
             w == row[j.id]
             c == Cand(j.id, j.rev, j.k)
  <2>1. j.id \in Ids /\ w \in Rows /\ c \in Candidates
    BY <1>CommitRecord, JobFields, CandType DEF CommitRecord, LockInv, JobInv, JobAt
  <2>2. Marked(w, "submitted", c) \in Rows
    BY <2>1, RowFields, RowOfType DEF Marked, Statuses, Open
  <2>3. RowOf(w.st, w.rev, w.hash, w.known \cup {c}, w.fee) \in Rows
    BY <2>1, RowFields, RowOfType
  <2> QED BY <1>CommitRecord, <2>2, <2>3 DEF CommitRecord
<1>CommitSend. ASSUME NEW s \in Sessions, CommitSend(s) PROVE TypeOK'
  <2> DEFINE j == job[s]
             c == Cand(j.id, j.rev, j.k)
  <2>1. c \in Candidates
    BY <1>CommitSend, JobFields, CandType DEF CommitSend, LockInv, JobInv, JobAt
  <2>2. PICK r \in Replies : Broadcast(c, r) /\ job' = [job EXCEPT ![s] = Answered(j, r)]
    BY <1>CommitSend DEF CommitSend
  <2>3. sent' \subseteq Candidates /\ job' \in [Sessions -> Jobs]
    BY <2>1, <2>2, AnsweredType DEF Broadcast
  <2> QED BY <1>CommitSend, <2>3 DEF CommitSend
<1>CommitDone. ASSUME NEW s \in Sessions, CommitDone(s) PROVE TypeOK'
  <2> DEFINE j == job[s]
             c == Cand(j.id, j.rev, j.k)
  <2>1. j.id \in Ids /\ row[j.id] \in Rows /\ c \in Candidates
    BY <1>CommitDone, JobFields, CandType DEF CommitDone, LockInv, JobInv, JobAt
  <2>2. Moved(row[j.id], AfterReply(j.reply), c) \in Rows
    BY <2>1, RowFields, RowOfType, AfterReplyType DEF Moved, Statuses, Awaiting, Open
  <2>3. row' \in [Ids -> Rows]
    BY <1>CommitDone, <2>1, <2>2, TransitionType DEF CommitDone, FinishBroadcast
  <2> QED BY <1>CommitDone, <2>3, Returns DEF CommitDone
<1>DiscardBegin. ASSUME NEW s \in Sessions, NEW p \in pending[s], DiscardBegin(s, p) PROVE TypeOK'
  <2>1. p.id \in Ids /\ p.rev \in 0..MaxReviews
    BY DEF Pendings, Reviews
  <2>2. JobOf(p.id, p.rev, 0, 0, "none") \in Jobs
    BY <1>0, <2>1, JobOfType DEF Zero
  <2> QED BY <1>DiscardBegin, <2>2 DEF DiscardBegin
<1>AbandonBegin. ASSUME NEW s \in Sessions, NEW i \in Ids, AbandonBegin(s, i) PROVE TypeOK'
  BY <1>AbandonBegin, <1>0, JobOfType DEF AbandonBegin, Zero
<1>AbandonLock. ASSUME NEW s \in Sessions, AbandonLock(s) PROVE TypeOK'
  BY <1>AbandonLock DEF AbandonLock
<1>DiscardRelease. ASSUME NEW s \in Sessions, DiscardRelease(s) PROVE TypeOK'
  BY <1>DiscardRelease DEF DiscardRelease
<1>DiscardRefused. ASSUME NEW s \in Sessions, DiscardRefused(s) PROVE TypeOK'
  BY <1>DiscardRefused, Returns DEF DiscardRefused
<1>DiscardCancel. ASSUME NEW s \in Sessions, DiscardCancel(s) PROVE TypeOK'
  <2> DEFINE i == job[s].id
  <2>1. i \in Ids /\ row[i] \in Rows
    BY <1>DiscardCancel DEF DiscardCancel, LockInv
  <2>2. Moved(row[i], "cancelled", row[i].hash) \in Rows
    BY <2>1, RowFields, RowOfType DEF Moved, Statuses, Terminal
  <2> QED BY <1>DiscardCancel, <2>2, Returns DEF DiscardCancel
<1>RebroadcastBegin. ASSUME NEW s \in Sessions, NEW i \in Ids, RebroadcastBegin(s, i) PROVE TypeOK'
  <2>1. row[i].hash \in Candidates /\ row[i].st \in Statuses
    BY <1>RebroadcastBegin, RowFields DEF RebroadcastBegin, Statuses
  <2>2. row[i].hash.rev \in 0..MaxReviews /\ row[i].hash.k \in Bumps
    BY <2>1, CandFields DEF Reviews
  <2>3. JobOf(i, row[i].hash.rev, row[i].hash.k, 0, row[i].st) \in Jobs
    BY <2>1, <2>2, JobOfType
  <2> QED BY <1>RebroadcastBegin, <2>3 DEF RebroadcastBegin
<1>RebroadcastSend. ASSUME NEW s \in Sessions, RebroadcastSend(s) PROVE TypeOK'
  <2> DEFINE j == job[s]
             c == Cand(j.id, j.rev, j.k)
  <2>1. c \in Candidates
    BY <1>RebroadcastSend, JobFields, CandType DEF RebroadcastSend, LockInv, JobInv, JobAt
  <2>2. PICK r \in Replies : Broadcast(c, r) /\ job' = [job EXCEPT ![s] = Answered(j, r)]
    BY <1>RebroadcastSend DEF RebroadcastSend
  <2>3. sent' \subseteq Candidates /\ job' \in [Sessions -> Jobs]
    BY <2>1, <2>2, AnsweredType DEF Broadcast
  <2> QED BY <1>RebroadcastSend, <2>3 DEF RebroadcastSend
<1>RebroadcastDone. ASSUME NEW s \in Sessions, RebroadcastDone(s) PROVE TypeOK'
  <2> DEFINE j == job[s]
             c == Cand(j.id, j.rev, j.k)
  <2>1. j.id \in Ids /\ row[j.id] \in Rows /\ c \in Candidates
    BY <1>RebroadcastDone, JobFields, CandType DEF RebroadcastDone, LockInv, JobInv, JobAt
  <2>2. Moved(row[j.id], AfterReply(j.reply), c) \in Rows
    BY <2>1, RowFields, RowOfType, AfterReplyType DEF Moved, Statuses, Awaiting, Open
  <2>3. row' \in [Ids -> Rows]
    BY <1>RebroadcastDone, <2>1, <2>2, TransitionType DEF RebroadcastDone, FinishBroadcast
  <2> QED BY <1>RebroadcastDone, <2>3, Returns DEF RebroadcastDone
<1>Reconcile. ASSUME NEW s \in Sessions, NEW i \in Ids, Reconcile(s, i) PROVE TypeOK'
  <2>1. PICK r \in Reconciled(i) : row' = [row EXCEPT ![i] = r]
    BY <1>Reconcile DEF Reconcile
  <2>2. r \in Rows
    BY <2>1, ReconciledType
  <2> QED BY <1>Reconcile, <2>1, <2>2 DEF Reconcile
<1>TrackRead. ASSUME NEW s \in Sessions, NEW i \in Ids, TrackRead(s, i) PROVE TypeOK'
  <2>1. JobOf(i, NoReview, 0, 0, row[i].st) \in Jobs
    BY <1>0, JobOfType, RowFields DEF Zero
  <2> QED BY <1>TrackRead, <2>1 DEF TrackRead
<1>TrackAdvance. ASSUME NEW s \in Sessions, TrackAdvance(s) PROVE TypeOK'
  <2> DEFINE i == job[s].id
             from == job[s].from
  <2>1. i \in Ids /\ row[i] \in Rows
    BY <1>TrackAdvance DEF TrackAdvance, LockInv
  <2>2. \A st \in Statuses, h \in Candidates \cup {NoHash} : Moved(row[i], st, h) \in Rows
    BY <2>1, RowFields, RowOfType DEF Moved
  <2>3. \/ \E c \in Included(i), st \in IncludedAs : Transition(i, from, Moved(row[i], st, c))
        \/ Transition(i, from, Moved(row[i], "submitted", row[i].hash))
        \/ Transition(i, from, Moved(row[i], "settled", row[i].hash))
    BY <1>TrackAdvance DEF TrackAdvance
  <2>4. Included(i) \subseteq Candidates
    BY DEF Included
  <2>5. IncludedAs \subseteq Statuses /\ "submitted" \in Statuses /\ "settled" \in Statuses
    BY OutcomesAssumption DEF Statuses, Open, Terminal
  <2>6. row' \in [Ids -> Rows]
    BY <2>1, <2>2, <2>3, <2>4, <2>5, RowFields, TransitionType
  <2> QED BY <1>TrackAdvance, <2>6, Returns DEF TrackAdvance
<1>TrackSkip. ASSUME NEW s \in Sessions, TrackSkip(s) PROVE TypeOK'
  BY <1>TrackSkip, Returns DEF TrackSkip
<1>Crash. ASSUME NEW s \in Sessions, Crash(s) PROVE TypeOK'
  BY <1>Crash, Returns DEF Crash
<1>Mine. ASSUME NEW c \in sent, Mine(c) PROVE TypeOK'
  <2>1. Append(mined, c) \in Seq(Candidates)
    BY DEF Mine
  <2> QED BY <1>Mine, <2>1 DEF Mine
<1>Stutter. CASE UNCHANGED vars
  BY <1>Stutter DEF vars
<1> QED
  BY <1>PrepareBegin, <1>PrepareLock, <1>PrepareReserve, <1>PrepareClear, <1>PrepareFinish,
     <1>PrepareReject, <1>SpeedUpBegin, <1>SpeedUpFinish, <1>SpeedUpReject, <1>CommitBegin,
     <1>CommitRefuse, <1>CommitAdmit, <1>CommitSign, <1>CommitSignFails, <1>CommitMark,
     <1>CommitMarkRefused, <1>CommitRecord, <1>CommitSend, <1>CommitDone, <1>DiscardBegin,
     <1>AbandonBegin, <1>AbandonLock, <1>DiscardRelease, <1>DiscardRefused, <1>DiscardCancel,
     <1>RebroadcastBegin, <1>RebroadcastSend, <1>RebroadcastDone, <1>Reconcile, <1>TrackRead,
     <1>TrackAdvance, <1>TrackSkip, <1>Crash, <1>Mine, <1>Stutter
     DEF Next, Begin, Proceed

-----------------------------------------------------------------------------
(* What moves each part of the state. *)

\* The custody store.
LEMMA CustodyFrame ==
  ASSUME [Next]_vars
  PROVE  \/ UNCHANGED <<resv, nonceOf, bound, payload, cursor>>
         \/ \E s \in Sessions : PrepareLock(s) \/ PrepareReserve(s) \/ PrepareReject(s) \/
                              CommitSign(s) \/ DiscardRelease(s) \/ TrackAdvance(s)
<1> DEFINE Same == UNCHANGED <<resv, nonceOf, bound, payload, cursor>>
<1> USE DEF sdk, node, locks, bounds
<1>1. ASSUME NEW s \in Sessions, PrepareBegin(s) \/ PrepareClear(s) \/ PrepareFinish(s) \/
       SpeedUpFinish(s) \/ SpeedUpReject(s) \/ CommitRefuse(s)
     PROVE  Same
  BY <1>1 DEF PrepareBegin, PrepareClear, PrepareFinish, SpeedUpFinish, SpeedUpReject,
     CommitRefuse
<1>2. ASSUME NEW s \in Sessions, CommitAdmit(s) \/ CommitSignFails(s) \/ CommitMark(s) \/
       CommitMarkRefused(s) \/ CommitRecord(s) \/ CommitSend(s)
     PROVE  Same
  BY <1>2 DEF CommitAdmit, CommitSignFails, CommitMark, CommitMarkRefused, CommitRecord,
     CommitSend
<1>3. ASSUME NEW s \in Sessions, CommitDone(s) \/ AbandonLock(s) \/ DiscardRefused(s) \/
       DiscardCancel(s) \/ RebroadcastSend(s) \/ RebroadcastDone(s)
     PROVE  Same
  BY <1>3 DEF CommitDone, AbandonLock, DiscardRefused, DiscardCancel, RebroadcastSend,
     RebroadcastDone
<1>4. ASSUME NEW s \in Sessions, TrackSkip(s) \/ Crash(s)
     PROVE  Same
  BY <1>4 DEF TrackSkip, Crash
<1>5. ASSUME NEW s \in Sessions, NEW i \in Ids, SpeedUpBegin(s, i) \/ AbandonBegin(s, i) \/
       RebroadcastBegin(s, i) \/ Reconcile(s, i) \/ TrackRead(s, i)
     PROVE  Same
  BY <1>5 DEF SpeedUpBegin, AbandonBegin, RebroadcastBegin, Reconcile, TrackRead
<1>6. ASSUME NEW s \in Sessions, NEW p \in pending[s], CommitBegin(s, p) \/ DiscardBegin(s, p)
     PROVE  Same
  BY <1>6 DEF CommitBegin, DiscardBegin
<1>7. ASSUME NEW c \in sent, Mine(c) PROVE Same
  BY <1>7 DEF Mine
<1>8. CASE UNCHANGED vars
  BY <1>8 DEF vars
<1> HIDE DEF Same
<1> QED BY <1>1, <1>2, <1>3, <1>4, <1>5, <1>6, <1>7, <1>8 DEF Next, Begin, Proceed, Same

\* The journal.
LEMMA RowFrame ==
  ASSUME [Next]_vars
  PROVE  \/ UNCHANGED row
         \/ \E s \in Sessions : PrepareClear(s) \/ PrepareFinish(s) \/ SpeedUpFinish(s) \/
                              CommitMark(s) \/ CommitRecord(s) \/ CommitDone(s) \/
                              DiscardCancel(s) \/ RebroadcastDone(s) \/ TrackAdvance(s) \/ (\E i
                              \in Ids : Reconcile(s, i))
<1> DEFINE Same == UNCHANGED row
<1> USE DEF sdk, node, locks, bounds
<1>1. ASSUME NEW s \in Sessions, PrepareBegin(s) \/ PrepareLock(s) \/ PrepareReserve(s) \/
       PrepareReject(s) \/ SpeedUpReject(s) \/ CommitRefuse(s)
     PROVE  Same
  BY <1>1 DEF PrepareBegin, PrepareLock, PrepareReserve, PrepareReject, SpeedUpReject,
     CommitRefuse
<1>2. ASSUME NEW s \in Sessions, CommitAdmit(s) \/ CommitSign(s) \/ CommitSignFails(s) \/
       CommitMarkRefused(s) \/ CommitSend(s) \/ AbandonLock(s)
     PROVE  Same
  BY <1>2 DEF CommitAdmit, CommitSign, CommitSignFails, CommitMarkRefused, CommitSend,
     AbandonLock
<1>3. ASSUME NEW s \in Sessions, DiscardRelease(s) \/ DiscardRefused(s) \/ RebroadcastSend(s)
       \/ TrackSkip(s) \/ Crash(s)
     PROVE  Same
  BY <1>3 DEF DiscardRelease, DiscardRefused, RebroadcastSend, TrackSkip, Crash
<1>4. ASSUME NEW s \in Sessions, NEW i \in Ids, SpeedUpBegin(s, i) \/ AbandonBegin(s, i) \/
       RebroadcastBegin(s, i) \/ TrackRead(s, i)
     PROVE  Same
  BY <1>4 DEF SpeedUpBegin, AbandonBegin, RebroadcastBegin, TrackRead
<1>5. ASSUME NEW s \in Sessions, NEW p \in pending[s], CommitBegin(s, p) \/ DiscardBegin(s, p)
     PROVE  Same
  BY <1>5 DEF CommitBegin, DiscardBegin
<1>6. ASSUME NEW c \in sent, Mine(c) PROVE Same
  BY <1>6 DEF Mine
<1>7. CASE UNCHANGED vars
  BY <1>7 DEF vars
<1> HIDE DEF Same
<1> QED BY <1>1, <1>2, <1>3, <1>4, <1>5, <1>6, <1>7 DEF Next, Begin, Proceed, Same

\* What the node has accepted, and the chain.
LEMMA NodeFrame ==
  ASSUME [Next]_vars
  PROVE  \/ UNCHANGED <<sent, mined>>
         \/ \E s \in Sessions : CommitSend(s) \/ RebroadcastSend(s)
         \/ \E c \in sent : Mine(c)
<1> DEFINE Same == UNCHANGED <<sent, mined>>
<1> USE DEF sdk, node, locks, bounds
<1>1. ASSUME NEW s \in Sessions, PrepareBegin(s) \/ PrepareLock(s) \/ PrepareReserve(s) \/
       PrepareClear(s) \/ PrepareFinish(s) \/ PrepareReject(s)
     PROVE  Same
  BY <1>1 DEF PrepareBegin, PrepareLock, PrepareReserve, PrepareClear, PrepareFinish,
     PrepareReject
<1>2. ASSUME NEW s \in Sessions, SpeedUpFinish(s) \/ SpeedUpReject(s) \/ CommitRefuse(s) \/
       CommitAdmit(s) \/ CommitSign(s) \/ CommitSignFails(s)
     PROVE  Same
  BY <1>2 DEF SpeedUpFinish, SpeedUpReject, CommitRefuse, CommitAdmit, CommitSign,
     CommitSignFails
<1>3. ASSUME NEW s \in Sessions, CommitMark(s) \/ CommitMarkRefused(s) \/ CommitRecord(s) \/
       CommitDone(s) \/ AbandonLock(s) \/ DiscardRelease(s)
     PROVE  Same
  BY <1>3 DEF CommitMark, CommitMarkRefused, CommitRecord, CommitDone, AbandonLock,
     DiscardRelease
<1>4. ASSUME NEW s \in Sessions, DiscardRefused(s) \/ DiscardCancel(s) \/ RebroadcastDone(s)
       \/ TrackAdvance(s) \/ TrackSkip(s) \/ Crash(s)
     PROVE  Same
  BY <1>4 DEF DiscardRefused, DiscardCancel, RebroadcastDone, TrackAdvance, TrackSkip, Crash
<1>5. ASSUME NEW s \in Sessions, NEW i \in Ids, SpeedUpBegin(s, i) \/ AbandonBegin(s, i) \/
       RebroadcastBegin(s, i) \/ Reconcile(s, i) \/ TrackRead(s, i)
     PROVE  Same
  BY <1>5 DEF SpeedUpBegin, AbandonBegin, RebroadcastBegin, Reconcile, TrackRead
<1>6. ASSUME NEW s \in Sessions, NEW p \in pending[s], CommitBegin(s, p) \/ DiscardBegin(s, p)
     PROVE  Same
  BY <1>6 DEF CommitBegin, DiscardBegin
<1>7. CASE UNCHANGED vars
  BY <1>7 DEF vars
<1> HIDE DEF Same
<1> QED BY <1>1, <1>2, <1>3, <1>4, <1>5, <1>6, <1>7 DEF Next, Begin, Proceed, Same

-----------------------------------------------------------------------------
(* Mutual exclusion. *)

\* A return touches nobody else's place, work or locks.
LEMMA ReturnKeeps ==
  ASSUME TypeOK, NEW s \in Sessions, Return(s)
  PROVE  /\ pc'[s] = "idle"
         /\ \A t \in Sessions \ {s} :
              /\ pc'[t] = pc[t] /\ job'[t] = job[t]
              /\ commitLock = t => commitLock' = t
              /\ \A i \in Ids : opLock[i] = t => opLock'[i] = t
BY DEF TypeOK, Return, CommitLockDropped, OpLocksDropped

\* The places where a call returns.
Returning(s) ==
  \/ PrepareFinish(s) \/ PrepareReject(s) \/ SpeedUpFinish(s) \/ SpeedUpReject(s) \/
     CommitRefuse(s) \/ CommitSignFails(s) \/ CommitMarkRefused(s) \/ CommitDone(s) \/
     DiscardRefused(s) \/ DiscardCancel(s) \/ RebroadcastDone(s) \/ TrackAdvance(s) \/
     TrackSkip(s) \/ Crash(s)

\* The steps that end a call drop its locks and forget its work.
LEMMA ReturningReturns == \A s : Returning(s) => Return(s)
BY DEF Returning, PrepareFinish, PrepareReject, SpeedUpFinish, SpeedUpReject, CommitRefuse,
       CommitSignFails, CommitMarkRefused, CommitDone, DiscardRefused, DiscardCancel,
       RebroadcastDone, TrackAdvance, TrackSkip, Crash

\* commitment_lock and operation_lock: every step keeps the locks exclusive, returns and crashes included.
THEOREM LockStep == TypeOK /\ LockInv /\ [Next]_vars => LockInv'
<1> SUFFICES ASSUME TypeOK, LockInv, [Next]_vars PROVE LockInv'
  OBVIOUS
<1> USE NamesAssumption
<1>Returning. ASSUME NEW s \in Sessions, Returning(s) PROVE LockInv'
  BY <1>Returning, ReturningReturns, ReturnKeeps DEF LockInv, HoldsCommit, HoldsOp
<1> USE DEF TypeOK, LockInv, HoldsCommit, HoldsOp, Goto, JobOf, Answered, sdk, node, locks, bounds
<1>PrepareBegin. ASSUME NEW s \in Sessions, PrepareBegin(s) PROVE LockInv'
  BY <1>PrepareBegin DEF PrepareBegin
<1>PrepareLock. ASSUME NEW s \in Sessions, PrepareLock(s) PROVE LockInv'
  BY <1>PrepareLock DEF PrepareLock
<1>PrepareReserve. ASSUME NEW s \in Sessions, PrepareReserve(s) PROVE LockInv'
  BY <1>PrepareReserve DEF PrepareReserve
<1>PrepareClear. ASSUME NEW s \in Sessions, PrepareClear(s) PROVE LockInv'
  BY <1>PrepareClear DEF PrepareClear
<1>CommitAdmit. ASSUME NEW s \in Sessions, CommitAdmit(s) PROVE LockInv'
  BY <1>CommitAdmit DEF CommitAdmit
<1>CommitSign. ASSUME NEW s \in Sessions, CommitSign(s) PROVE LockInv'
  BY <1>CommitSign DEF CommitSign
<1>CommitMark. ASSUME NEW s \in Sessions, CommitMark(s) PROVE LockInv'
  BY <1>CommitMark DEF CommitMark
<1>CommitRecord. ASSUME NEW s \in Sessions, CommitRecord(s) PROVE LockInv'
  BY <1>CommitRecord DEF CommitRecord
<1>CommitSend. ASSUME NEW s \in Sessions, CommitSend(s) PROVE LockInv'
  BY <1>CommitSend DEF CommitSend
<1>AbandonLock. ASSUME NEW s \in Sessions, AbandonLock(s) PROVE LockInv'
  BY <1>AbandonLock DEF AbandonLock
<1>DiscardRelease. ASSUME NEW s \in Sessions, DiscardRelease(s) PROVE LockInv'
  BY <1>DiscardRelease DEF DiscardRelease
<1>RebroadcastSend. ASSUME NEW s \in Sessions, RebroadcastSend(s) PROVE LockInv'
  BY <1>RebroadcastSend DEF RebroadcastSend
<1>SpeedUpBegin. ASSUME NEW s \in Sessions, NEW i \in Ids, SpeedUpBegin(s, i) PROVE LockInv'
  BY <1>SpeedUpBegin DEF SpeedUpBegin
<1>AbandonBegin. ASSUME NEW s \in Sessions, NEW i \in Ids, AbandonBegin(s, i) PROVE LockInv'
  BY <1>AbandonBegin DEF AbandonBegin
<1>RebroadcastBegin. ASSUME NEW s \in Sessions, NEW i \in Ids, RebroadcastBegin(s, i) PROVE LockInv'
  BY <1>RebroadcastBegin DEF RebroadcastBegin
<1>Reconcile. ASSUME NEW s \in Sessions, NEW i \in Ids, Reconcile(s, i) PROVE LockInv'
  BY <1>Reconcile DEF Reconcile
<1>TrackRead. ASSUME NEW s \in Sessions, NEW i \in Ids, TrackRead(s, i) PROVE LockInv'
  BY <1>TrackRead DEF TrackRead
<1>CommitBegin. ASSUME NEW s \in Sessions, NEW p \in pending[s], CommitBegin(s, p) PROVE LockInv'
  BY <1>CommitBegin DEF CommitBegin, Pendings
<1>DiscardBegin. ASSUME NEW s \in Sessions, NEW p \in pending[s], DiscardBegin(s, p) PROVE LockInv'
  BY <1>DiscardBegin DEF DiscardBegin, Pendings
<1>Mine. ASSUME NEW c \in sent, Mine(c) PROVE LockInv'
  BY <1>Mine DEF Mine
<1>Stutter. CASE UNCHANGED vars
  BY <1>Stutter DEF vars
<1> HIDE DEF LockInv
<1> QED
  BY <1>Returning, <1>PrepareBegin, <1>PrepareLock, <1>PrepareReserve, <1>PrepareClear,
     <1>CommitAdmit, <1>CommitSign, <1>CommitMark, <1>CommitRecord, <1>CommitSend,
     <1>AbandonLock, <1>DiscardRelease, <1>RebroadcastSend, <1>SpeedUpBegin, <1>AbandonBegin,
     <1>RebroadcastBegin, <1>Reconcile, <1>TrackRead, <1>CommitBegin, <1>DiscardBegin,
     <1>Mine, <1>Stutter
     DEF Next, Begin, Proceed, Returning

-----------------------------------------------------------------------------
(* Custody. *)

\* What is signed stays signed, and is never held as a mere claim again.
THEOREM ClaimStep == TypeOK /\ LockInv /\ JobInv /\ ClaimInv /\ [Next]_vars => ClaimInv'
<1> SUFFICES ASSUME TypeOK, LockInv, JobInv, ClaimInv, [Next]_vars PROVE ClaimInv'
  OBVIOUS
<1> USE DEF TypeOK, ClaimInv
<1>1. ASSUME NEW s \in Sessions, PrepareLock(s) PROVE ClaimInv'
  BY <1>1 DEF PrepareLock
<1>2. ASSUME NEW s \in Sessions, PrepareReserve(s) PROVE ClaimInv'
  BY <1>2 DEF PrepareReserve, JobInv, JobAt
<1>3. ASSUME NEW s \in Sessions, PrepareReject(s) PROVE ClaimInv'
  BY <1>3 DEF PrepareReject
<1>4. ASSUME NEW s \in Sessions, CommitSign(s) PROVE ClaimInv'
  <2> DEFINE c == Cand(job[s].id, job[s].rev, job[s].k)
  <2>1. c.id = job[s].id /\ job[s].id \in Ids
    BY <1>4 DEF CommitSign, Cand, LockInv
  <2> HIDE DEF c
  <2> QED BY <1>4, <2>1 DEF CommitSign, c
<1>5. ASSUME NEW s \in Sessions, DiscardRelease(s) PROVE ClaimInv'
  BY <1>5 DEF DiscardRelease
<1>6. ASSUME NEW s \in Sessions, TrackAdvance(s) PROVE ClaimInv'
  BY <1>6 DEF TrackAdvance
<1>7. CASE UNCHANGED <<resv, nonceOf, bound, payload, cursor>>
  BY <1>7
<1> QED BY <1>1, <1>2, <1>3, <1>4, <1>5, <1>6, <1>7, CustodyFrame

\* Signed bytes are never deleted.
LEMMA PayloadGrows ==
  ASSUME TypeOK, LockInv, [Next]_vars, NEW i \in Ids PROVE payload[i] \subseteq payload'[i]
<1>1. ASSUME NEW s \in Sessions, CommitSign(s) PROVE payload[i] \subseteq payload'[i]
  BY <1>1 DEF CommitSign, TypeOK
<1>2. ASSUME NEW s \in Sessions,
             PrepareLock(s) \/ PrepareReserve(s) \/ PrepareReject(s) \/ DiscardRelease(s) \/ TrackAdvance(s)
      PROVE  payload' = payload
  BY <1>2 DEF PrepareLock, PrepareReserve, PrepareReject, DiscardRelease, TrackAdvance
<1> QED BY <1>1, <1>2, CustodyFrame

\* While a session holds an operation's lock and stays where it is, nobody touches the claim.
LEMMA HeldClaim ==
  ASSUME TypeOK, LockInv, [Next]_vars, NEW t \in Sessions, pc[t] \in HoldsOp, pc'[t] = pc[t]
  PROVE  LET i == job[t].id IN resv'[i] = resv[i] /\ bound'[i] = bound[i]
<1> DEFINE i == job[t].id
           Same == resv'[i] = resv[i] /\ bound'[i] = bound[i]
<1> USE NamesAssumption DEF TypeOK, LockInv, HoldsOp, Goto
<1>0. i \in Ids /\ opLock[i] = t /\ t # Nobody
  OBVIOUS
<1>1. ASSUME NEW s \in Sessions, PrepareLock(s) PROVE Same
  BY <1>0, <1>1 DEF PrepareLock
<1>2. ASSUME NEW s \in Sessions, PrepareReserve(s) PROVE Same
  BY <1>0, <1>2 DEF PrepareReserve
<1>3. ASSUME NEW s \in Sessions, PrepareReject(s) PROVE Same
  <2>1. s # t
    BY <1>3, ReturnKeeps DEF PrepareReject
  <2> QED BY <1>0, <1>3, <2>1 DEF PrepareReject
<1>4. ASSUME NEW s \in Sessions, CommitSign(s) PROVE Same
  BY <1>0, <1>4 DEF CommitSign
<1>5. ASSUME NEW s \in Sessions, DiscardRelease(s) PROVE Same
  BY <1>0, <1>5 DEF DiscardRelease
<1>6. ASSUME NEW s \in Sessions, TrackAdvance(s) PROVE Same
  BY <1>0, <1>6 DEF TrackAdvance
<1>7. CASE UNCHANGED <<resv, nonceOf, bound, payload, cursor>>
  BY <1>7
<1> HIDE DEF Same
<1> QED BY <1>1, <1>2, <1>3, <1>4, <1>5, <1>6, <1>7, CustodyFrame DEF Same

-----------------------------------------------------------------------------
(* The journal. *)

\* Every step keeps the journal's rows consistent with the custody store (RowInv).
THEOREM RowStep ==
  TypeOK /\ LockInv /\ ClaimInv /\ JobInv /\ RowInv /\ MinedInv /\ SentIsJournalled /\ [Next]_vars
    => RowInv'
<1> SUFFICES ASSUME TypeOK, LockInv, ClaimInv, JobInv, RowInv, MinedInv, SentIsJournalled, [Next]_vars
             PROVE  RowInv'
  OBVIOUS
<1> DEFINE At(w, i) == /\ w.st = "prepared" => w.hash = NoHash
                       /\ w.st \notin {"none", "prepared", "cancelled"} => payload[i] # {}
                       /\ w.known \subseteq payload[i]
                       /\ w.hash # NoHash => w.hash \in w.known
<1>0. \A i \in Ids : At(row[i], i)
  BY DEF RowInv
<1>q. ASSUME \A i \in Ids : At(row'[i], i) PROVE RowInv'
  BY <1>q, PayloadGrows DEF RowInv
<1> DEFINE Goal == \A i \in Ids : At(row'[i], i)
<1> USE DEF TypeOK
<1>1. ASSUME NEW s \in Sessions, PrepareClear(s) PROVE Goal
  BY <1>0, <1>1 DEF PrepareClear, NoRow, RowOf
<1>2. ASSUME NEW s \in Sessions, PrepareFinish(s) PROVE Goal
  BY <1>0, <1>2 DEF PrepareFinish, RowOf
<1>3. ASSUME NEW s \in Sessions, SpeedUpFinish(s) PROVE Goal
  BY <1>0, <1>3 DEF SpeedUpFinish, RowOf
<1>4. ASSUME NEW s \in Sessions, CommitMark(s) PROVE Goal
  BY <1>0, <1>4 DEF CommitMark, Transition, Marked, RowOf, JobInv, JobAt
<1>5. ASSUME NEW s \in Sessions, CommitRecord(s) PROVE Goal
  BY <1>0, <1>5 DEF CommitRecord, Marked, RowOf, JobInv, JobAt
<1>6. ASSUME NEW s \in Sessions, CommitDone(s) PROVE Goal
  BY <1>0, <1>6, AfterReplyType
     DEF CommitDone, FinishBroadcast, Transition, Moved, RowOf, JobInv, JobAt, Awaiting
<1>7. ASSUME NEW s \in Sessions, DiscardCancel(s) PROVE Goal
  BY <1>0, <1>7 DEF DiscardCancel, Moved, RowOf
<1>8. ASSUME NEW s \in Sessions, RebroadcastDone(s) PROVE Goal
  BY <1>0, <1>8, AfterReplyType
     DEF RebroadcastDone, FinishBroadcast, Transition, Moved, RowOf, JobInv, JobAt, Awaiting
<1>9. ASSUME NEW s \in Sessions, TrackAdvance(s) PROVE Goal
  <2> DEFINE j == job[s]
  <2>1. \A c \in Included(j.id) : c \in row[j.id].known
    BY DEF Included, MinedInv, SentIsJournalled
  <2>2. "prepared" \notin IncludedAs
    BY OutcomesAssumption
  <2>3. j.id \in Ids /\ j.from \notin {"none", "prepared", "cancelled"}
    BY <1>9 DEF TrackAdvance, LockInv, JobInv, JobAt, Open
  <2> DEFINE w == row[j.id]
  <2>4. /\ \A c \in Included(j.id), st \in IncludedAs : At(Moved(w, st, c), j.id)
        /\ w.st = j.from => At(Moved(w, "submitted", w.hash), j.id) /\ At(Moved(w, "settled", w.hash), j.id)
    BY <1>0, <2>1, <2>2, <2>3 DEF Moved, RowOf
  <2>5. \/ \E c \in Included(j.id), st \in IncludedAs : Transition(j.id, j.from, Moved(w, st, c))
        \/ Transition(j.id, j.from, Moved(w, "submitted", w.hash))
        \/ Transition(j.id, j.from, Moved(w, "settled", w.hash))
    BY <1>9 DEF TrackAdvance
  <2> HIDE DEF At
  <2> QED BY <1>0, <2>3, <2>4, <2>5 DEF Transition
<1>10. ASSUME NEW s \in Sessions, NEW i \in Ids, Reconcile(s, i) PROVE Goal
  <2>1. PICK w \in Reconciled(i) : row' = [row EXCEPT ![i] = w]
    BY <1>10 DEF Reconcile
  <2>2. At(w, i)
    BY <1>0, <2>1 DEF Reconciled, RowOf, HasRow, Latest, Terminal
  <2> QED BY <1>0, <2>1, <2>2
<1>11. ASSUME row' = row PROVE Goal
  <2> HIDE DEF At
  <2> QED BY <1>0, <1>11
<1> HIDE DEF Goal
<1> QED BY <1>q, <1>1, <1>2, <1>3, <1>4, <1>5, <1>6, <1>7, <1>8, <1>9, <1>10, <1>11, RowFrame
     DEF Goal

\* Over a signature, the journal never forgets a candidate.
LEMMA KnownGrows ==
  ASSUME TypeOK, LockInv, ClaimInv, JobInv, RowInv, [Next]_vars,
         NEW i \in Ids, NEW c \in row[i].known
  PROVE  c \in row'[i].known
<1>0. c \in payload[i] /\ resv[i] \notin {"none", "reserved", "released"}
  BY DEF RowInv, ClaimInv
<1> DEFINE Goal == c \in row'[i].known
<1> USE DEF TypeOK
<1>1. ASSUME NEW s \in Sessions, PrepareClear(s) PROVE Goal
  BY <1>0, <1>1 DEF PrepareClear, JobInv, JobAt, Preparing
<1>2. ASSUME NEW s \in Sessions, PrepareFinish(s) PROVE Goal
  BY <1>0, <1>2 DEF PrepareFinish, JobInv, JobAt, Preparing
<1>3. ASSUME NEW s \in Sessions, SpeedUpFinish(s) PROVE Goal
  BY <1>3 DEF SpeedUpFinish, RowOf
<1>4. ASSUME NEW s \in Sessions, CommitMark(s) PROVE Goal
  BY <1>4 DEF CommitMark, Transition, Marked, RowOf
<1>5. ASSUME NEW s \in Sessions, CommitRecord(s) PROVE Goal
  BY <1>5 DEF CommitRecord, Marked, RowOf
<1>6. ASSUME NEW s \in Sessions, CommitDone(s) PROVE Goal
  BY <1>6 DEF CommitDone, FinishBroadcast, Transition, Moved, RowOf
<1>7. ASSUME NEW s \in Sessions, DiscardCancel(s) PROVE Goal
  BY <1>7 DEF DiscardCancel, Moved, RowOf
<1>8. ASSUME NEW s \in Sessions, RebroadcastDone(s) PROVE Goal
  BY <1>8 DEF RebroadcastDone, FinishBroadcast, Transition, Moved, RowOf
<1>9. ASSUME NEW s \in Sessions, TrackAdvance(s) PROVE Goal
  <2> DEFINE j == job[s]
             w == row[j.id]
  <2>1. \E st, h : Transition(j.id, j.from, Moved(w, st, h))
    BY <1>9 DEF TrackAdvance
  <2>2. PICK st, h : Transition(j.id, j.from, Moved(w, st, h))
    BY <2>1
  <2>3. Moved(w, st, h).known = w.known
    BY DEF Moved, RowOf
  <2> HIDE DEF w
  <2> QED BY <2>2, <2>3 DEF Transition, w
<1>10. ASSUME NEW s \in Sessions, NEW o \in Ids, Reconcile(s, o) PROVE Goal
  <2>1. PICK w \in Reconciled(o) : row' = [row EXCEPT ![o] = w]
    BY <1>10 DEF Reconcile
  <2>2. o = i => w.known = payload[i]
    BY <1>0, <2>1 DEF Reconciled, RowOf
  <2> QED BY <1>0, <2>1, <2>2
<1>11. ASSUME row' = row PROVE Goal
  BY <1>11
<1> HIDE DEF Goal
<1> QED BY <1>1, <1>2, <1>3, <1>4, <1>5, <1>6, <1>7, <1>8, <1>9, <1>10, <1>11, RowFrame DEF Goal

\* What a node accepts was recorded before it was sent.
THEOREM SentStep ==
  TypeOK /\ LockInv /\ ClaimInv /\ JobInv /\ RowInv /\ SentIsJournalled /\ [Next]_vars
    => SentIsJournalled'
<1> SUFFICES ASSUME TypeOK, LockInv, ClaimInv, JobInv, RowInv, SentIsJournalled, [Next]_vars,
                    NEW c \in sent'
             PROVE  c \in row'[c.id].known
  BY DEF SentIsJournalled
<1>1. CASE c \in sent
  <2>1. c.id \in Ids /\ c \in row[c.id].known
    BY <1>1, CandFields DEF SentIsJournalled, TypeOK
  <2> QED BY <2>1, KnownGrows
<1>2. ASSUME NEW s \in Sessions, CommitSend(s) \/ RebroadcastSend(s), c \notin sent
      PROVE  c \in row'[c.id].known
  <2> DEFINE d == Cand(job[s].id, job[s].rev, job[s].k)
  <2>1. row' = row /\ d \in row[job[s].id].known
    BY <1>2 DEF CommitSend, RebroadcastSend, JobInv, JobAt
  <2>2. c = d
    BY <1>2 DEF CommitSend, RebroadcastSend, Broadcast
  <2>3. d.id = job[s].id
    BY DEF Cand
  <2> HIDE DEF d
  <2> QED BY <2>1, <2>2, <2>3
<1>3. ASSUME NEW d \in sent, Mine(d) PROVE sent' = sent
  BY <1>3 DEF Mine
<1> QED BY <1>1, <1>2, <1>3, NodeFrame

\* A block holds only what was sent.
THEOREM MinedStep == TypeOK /\ MinedInv /\ [Next]_vars => MinedInv'
<1> SUFFICES ASSUME TypeOK, MinedInv, [Next]_vars PROVE MinedInv'
  OBVIOUS
<1>1. ASSUME NEW s \in Sessions, CommitSend(s) \/ RebroadcastSend(s) PROVE MinedInv'
  <2>1. mined' = mined /\ sent \subseteq sent'
    BY <1>1 DEF CommitSend, RebroadcastSend, Broadcast
  <2> QED BY <2>1 DEF MinedInv
<1>2. ASSUME NEW c \in sent, Mine(c) PROVE MinedInv'
  <2>1. mined' = Append(mined, c) /\ sent' = sent /\ mined \in Seq(Candidates) /\ c \in Candidates
    BY <1>2 DEF Mine, TypeOK
  <2>2. /\ Len(mined') = Len(mined) + 1 /\ Len(mined) \in Nat
        /\ mined'[Len(mined) + 1] = c
        /\ \A n \in 1..Len(mined) : mined'[n] = mined[n]
    BY <2>1
  <2> QED BY <2>1, <2>2 DEF MinedInv
<1>3. CASE UNCHANGED <<sent, mined>>
  BY <1>3 DEF MinedInv
<1> QED BY <1>1, <1>2, <1>3, NodeFrame

-----------------------------------------------------------------------------
(* What each session knows. *)

\* What a session knows of its operation stays true while others work.
LEMMA JobKept ==
  ASSUME TypeOK, LockInv, ClaimInv, JobInv, RowInv, [Next]_vars,
         NEW t \in Sessions, pc'[t] = pc[t], job'[t] = job[t]
  PROVE  JobAt(t)'
<1> DEFINE j == job[t]
           c == Cand(j.id, j.rev, j.k)
<1>1. CASE pc[t] = "idle"
  BY <1>1 DEF JobAt, Preparing
<1>2. CASE pc[t] # "idle"
  <2>1. j.id \in Ids
    BY <1>2 DEF LockInv
  <2>2. pc[t] \in HoldsOp => resv'[j.id] = resv[j.id] /\ bound'[j.id] = bound[j.id]
    BY HeldClaim
  <2>3. c \in payload[j.id] => c \in payload'[j.id]
    BY <2>1, PayloadGrows
  <2>4. c \in row[j.id].known => c \in row'[j.id].known
    BY <2>1, KnownGrows
  <2>5. JobAt(t)
    BY DEF JobInv
  <2> QED BY <2>2, <2>3, <2>4, <2>5 DEF JobAt, HoldsOp, Preparing
<1> QED BY <1>1, <1>2

\* Every step keeps what a session remembers of its operation true (JobInv).
THEOREM JobStep ==
  TypeOK /\ LockInv /\ ClaimInv /\ JobInv /\ RowInv /\ [Next]_vars => JobInv'
<1> SUFFICES ASSUME TypeOK, LockInv, ClaimInv, JobInv, RowInv, [Next]_vars PROVE JobInv'
  OBVIOUS
<1> DEFINE Others(s) == \A t \in Sessions \ {s} : pc'[t] = pc[t] /\ job'[t] = job[t]
           Moves(s) == Others(s) /\ JobAt(s)'
<1>q. ASSUME NEW s \in Sessions, Moves(s) PROVE JobInv'
  BY <1>q, JobKept DEF JobInv
<1>r. ASSUME UNCHANGED <<pc, job>> PROVE JobInv'
  BY <1>r, JobKept DEF JobInv
<1>Returning. ASSUME NEW s \in Sessions, Returning(s) PROVE Moves(s)
  <2>1. Others(s) /\ pc'[s] = "idle"
    BY <1>Returning, ReturningReturns, ReturnKeeps
  <2> QED BY <2>1 DEF JobAt, Preparing
<1> USE DEF TypeOK, Goto, JobAt, Preparing, sdk, node, locks, bounds
<1>PrepareBegin. ASSUME NEW s \in Sessions, PrepareBegin(s) PROVE Moves(s)
  BY <1>PrepareBegin DEF PrepareBegin
<1>PrepareLock. ASSUME NEW s \in Sessions, PrepareLock(s) PROVE Moves(s)
  BY <1>PrepareLock DEF PrepareLock, LockInv
<1>PrepareReserve. ASSUME NEW s \in Sessions, PrepareReserve(s) PROVE Moves(s)
  <2>1. nrev + 1 \in Reviews
    BY <1>PrepareReserve, BoundsAssumption DEF PrepareReserve, Reviews
  <2> QED BY <1>PrepareReserve, <2>1 DEF PrepareReserve, LockInv, JobOf
<1>PrepareClear. ASSUME NEW s \in Sessions, PrepareClear(s) PROVE Moves(s)
  BY <1>PrepareClear DEF PrepareClear, JobInv
<1>SpeedUpBegin. ASSUME NEW s \in Sessions, NEW i \in Ids, SpeedUpBegin(s, i) PROVE Moves(s)
  <2>1. PICK n \in Observable, c \in Latest(i) :
          job' = [job EXCEPT ![s] = JobOf(i, c.rev, c.k + 1, n, row[i].st)]
    BY <1>SpeedUpBegin DEF SpeedUpBegin
  <2>2. c \in Candidates
    BY DEF Latest
  <2>3. c.rev \in Reviews /\ c.k + 1 > 0
    BY <2>2, CandFields, BoundsAssumption DEF Bumps
  <2> QED BY <1>SpeedUpBegin, <2>1, <2>3 DEF SpeedUpBegin, JobOf
<1>CommitBegin. ASSUME NEW s \in Sessions, NEW p \in pending[s], CommitBegin(s, p) PROVE Moves(s)
  BY <1>CommitBegin DEF CommitBegin, JobOf, Pendings
<1>CommitAdmit. ASSUME NEW s \in Sessions, CommitAdmit(s) PROVE Moves(s)
  BY <1>CommitAdmit DEF CommitAdmit, JobInv
<1>CommitSign. ASSUME NEW s \in Sessions, CommitSign(s) PROVE Moves(s)
  BY <1>CommitSign DEF CommitSign, JobInv, LockInv
<1>CommitMark. ASSUME NEW s \in Sessions, CommitMark(s) PROVE Moves(s)
  BY <1>CommitMark DEF CommitMark, Transition, Marked, RowOf, JobInv, LockInv
<1>CommitRecord. ASSUME NEW s \in Sessions, CommitRecord(s) PROVE Moves(s)
  BY <1>CommitRecord DEF CommitRecord, Marked, RowOf, JobInv, LockInv
<1>CommitSend. ASSUME NEW s \in Sessions, CommitSend(s) PROVE Moves(s)
  BY <1>CommitSend DEF CommitSend, Answered, JobInv
<1>AbandonBegin. ASSUME NEW s \in Sessions, NEW i \in Ids, AbandonBegin(s, i) PROVE Moves(s)
  BY <1>AbandonBegin DEF AbandonBegin
<1>AbandonLock. ASSUME NEW s \in Sessions, AbandonLock(s) PROVE Moves(s)
  BY <1>AbandonLock DEF AbandonLock
<1>DiscardBegin. ASSUME NEW s \in Sessions, NEW p \in pending[s], DiscardBegin(s, p)
                 PROVE JobInv'
  <2>1. CASE UNCHANGED <<pc, job>>
    BY <2>1, <1>r
  <2>2. CASE Goto(s, "d_release") /\ job' = [job EXCEPT ![s] = JobOf(p.id, p.rev, 0, 0, "none")]
    <3>1. Moves(s)
      BY <2>2
    <3> QED BY <3>1, <1>q
  <2> QED BY <1>DiscardBegin, <2>1, <2>2 DEF DiscardBegin
<1>DiscardRelease. ASSUME NEW s \in Sessions, DiscardRelease(s) PROVE Moves(s)
  BY <1>DiscardRelease DEF DiscardRelease, LockInv
<1>RebroadcastBegin. ASSUME NEW s \in Sessions, NEW i \in Ids, RebroadcastBegin(s, i)
                     PROVE Moves(s)
  <2> DEFINE h == row[i].hash
  <2>1. h \in row[i].known /\ h \in payload[i] /\ h.id = i /\ row[i].st \in Open \ {"prepared"}
    BY <1>RebroadcastBegin DEF RebroadcastBegin, RowInv, ClaimInv
  <2>2. h \in Candidates
    BY <2>1
  <2>3. h = Cand(i, h.rev, h.k) /\ h.rev \in Reviews
    BY <2>1, <2>2 DEF Candidates, Cand
  <2>4. row' = row /\ pc' = [pc EXCEPT ![s] = "r_send"]
        /\ job' = [job EXCEPT ![s] = JobOf(i, h.rev, h.k, 0, row[i].st)]
    BY <1>RebroadcastBegin DEF RebroadcastBegin
  <2> HIDE DEF h
  <2> QED BY <2>1, <2>3, <2>4 DEF JobOf
<1>RebroadcastSend. ASSUME NEW s \in Sessions, RebroadcastSend(s) PROVE Moves(s)
  BY <1>RebroadcastSend DEF RebroadcastSend, Answered, JobInv
<1>Reconcile. ASSUME NEW s \in Sessions, NEW i \in Ids, Reconcile(s, i) PROVE UNCHANGED <<pc, job>>
  BY <1>Reconcile DEF Reconcile
<1>TrackRead. ASSUME NEW s \in Sessions, NEW i \in Ids, TrackRead(s, i) PROVE Moves(s)
  BY <1>TrackRead DEF TrackRead, JobOf
<1>Mine. ASSUME NEW c \in sent, Mine(c) PROVE UNCHANGED <<pc, job>>
  BY <1>Mine DEF Mine
<1>Stutter. CASE UNCHANGED vars
  BY <1>Stutter, <1>r DEF vars
<1> HIDE DEF Moves
<1> QED
  BY <1>q, <1>r, <1>Returning, <1>PrepareBegin, <1>PrepareLock, <1>PrepareReserve,
     <1>PrepareClear,
     <1>CommitAdmit, <1>CommitSign, <1>CommitMark, <1>CommitRecord, <1>CommitSend,
     <1>AbandonLock, <1>DiscardRelease, <1>RebroadcastSend, <1>SpeedUpBegin, <1>AbandonBegin,
     <1>RebroadcastBegin, <1>Reconcile, <1>TrackRead, <1>CommitBegin, <1>DiscardBegin,
     <1>Mine, <1>Stutter
     DEF Next, Begin, Proceed, Returning

-----------------------------------------------------------------------------
(* Which reviews are open, and which are at work. *)

\* A session's open reviews only grow when it finishes one.
LEMMA PendingFrame ==
  ASSUME TypeOK, [Next]_vars, NEW t \in Sessions, NEW p \in pending'[t]
  PROVE  \/ p \in pending[t]
         \/ PrepareFinish(t) /\ p = [id |-> job[t].id, rev |-> job[t].rev, k |-> 0]
         \/ SpeedUpFinish(t) /\ p = [id |-> job[t].id, rev |-> job[t].rev, k |-> job[t].k]
<1> DEFINE Same == \A u \in Sessions : pending'[u] \subseteq pending[u]
<1> USE DEF TypeOK, sdk, node, locks, bounds
<1>1. ASSUME NEW s \in Sessions,
              PrepareBegin(s) \/ PrepareLock(s) \/ PrepareReserve(s) \/ PrepareClear(s)
     PROVE  Same
  BY <1>1 DEF PrepareBegin, PrepareLock, PrepareReserve, PrepareClear
<1>2. ASSUME NEW s \in Sessions,
              PrepareReject(s) \/ SpeedUpReject(s) \/ CommitRefuse(s) \/ CommitAdmit(s)
     PROVE  Same
  <2>1. CASE PrepareReject(s)
    BY <2>1 DEF PrepareReject
  <2>2. CASE SpeedUpReject(s) \/ CommitRefuse(s)
    BY <2>2 DEF SpeedUpReject, CommitRefuse
  <2>3. CASE CommitAdmit(s)
    BY <2>3 DEF CommitAdmit
  <2> QED BY <1>2, <2>1, <2>2, <2>3
<1>3. ASSUME NEW s \in Sessions,
              CommitSign(s) \/ CommitSignFails(s) \/ CommitMark(s) \/ CommitMarkRefused(s)
     PROVE  Same
  BY <1>3 DEF CommitSign, CommitSignFails, CommitMark, CommitMarkRefused
<1>4. ASSUME NEW s \in Sessions,
              CommitRecord(s) \/ CommitSend(s) \/ CommitDone(s) \/ AbandonLock(s)
     PROVE  Same
  BY <1>4 DEF CommitRecord, CommitSend, CommitDone, AbandonLock
<1>5. ASSUME NEW s \in Sessions,
              DiscardRelease(s) \/ DiscardRefused(s) \/ DiscardCancel(s) \/ RebroadcastSend(s)
     PROVE  Same
  BY <1>5 DEF DiscardRelease, DiscardRefused, DiscardCancel, RebroadcastSend
<1>6. ASSUME NEW s \in Sessions,
              RebroadcastDone(s) \/ TrackAdvance(s) \/ TrackSkip(s) \/ Crash(s)
     PROVE  Same
  BY <1>6 DEF RebroadcastDone, TrackAdvance, TrackSkip, Crash
<1>7. ASSUME NEW s \in Sessions, NEW i \in Ids,
              SpeedUpBegin(s, i) \/ AbandonBegin(s, i) \/ RebroadcastBegin(s, i) \/
             Reconcile(s, i) \/ TrackRead(s, i)
     PROVE  Same
  BY <1>7 DEF SpeedUpBegin, AbandonBegin, RebroadcastBegin, Reconcile, TrackRead
<1>8. ASSUME NEW s \in Sessions, NEW q \in pending[s], CommitBegin(s, q) \/ DiscardBegin(s, q)
     PROVE  Same
  BY <1>8 DEF CommitBegin, DiscardBegin
<1>9. ASSUME NEW c \in sent, Mine(c) PROVE Same
  BY <1>9 DEF Mine
<1>10. CASE UNCHANGED vars
  BY <1>10 DEF vars
<1>11. ASSUME NEW s \in Sessions, PrepareFinish(s), p \notin pending[t]
     PROVE  s = t /\ p = [id |-> job[t].id, rev |-> job[t].rev, k |-> 0]
  BY <1>11 DEF PrepareFinish
<1>12. ASSUME NEW s \in Sessions, SpeedUpFinish(s), p \notin pending[t]
     PROVE  s = t /\ p = [id |-> job[t].id, rev |-> job[t].rev, k |-> job[t].k]
  BY <1>12 DEF SpeedUpFinish
<1> HIDE DEF Same
<1>13. Same => p \in pending[t]
  BY DEF Same
<1> QED BY <1>1, <1>2, <1>3, <1>4, <1>5, <1>6, <1>7, <1>8, <1>9, <1>10, <1>11, <1>12, <1>13 DEF
     Next, Begin, Proceed

\* First reviews open in memory come from pending alone.
LEMMA FirstsFrame ==
  ASSUME TypeOK, JobInv, [Next]_vars, NEW t \in Sessions, NEW p \in pending'[t], p.k = 0
  PROVE  \/ p \in pending[t]
         \/ PrepareFinish(t) /\ p = [id |-> job[t].id, rev |-> job[t].rev, k |-> 0]
BY PendingFrame DEF SpeedUpFinish, JobInv, JobAt

\* Reviews are only ever numbered upwards.
LEMMA ReviewsGrow == ASSUME TypeOK, [Next]_vars PROVE nrev <= nrev'
<1> DEFINE Same == nrev' = nrev
<1> USE DEF TypeOK, sdk, node, locks, bounds
<1>1. ASSUME NEW s \in Sessions,
              PrepareBegin(s) \/ PrepareLock(s) \/ PrepareClear(s) \/ PrepareFinish(s)
     PROVE  Same
  BY <1>1 DEF PrepareBegin, PrepareLock, PrepareClear, PrepareFinish
<1>2. ASSUME NEW s \in Sessions,
              PrepareReject(s) \/ SpeedUpFinish(s) \/ SpeedUpReject(s) \/ CommitRefuse(s)
     PROVE  Same
  BY <1>2 DEF PrepareReject, SpeedUpFinish, SpeedUpReject, CommitRefuse
<1>3. ASSUME NEW s \in Sessions,
              CommitAdmit(s) \/ CommitSign(s) \/ CommitSignFails(s) \/ CommitMark(s)
     PROVE  Same
  BY <1>3 DEF CommitAdmit, CommitSign, CommitSignFails, CommitMark
<1>4. ASSUME NEW s \in Sessions,
              CommitMarkRefused(s) \/ CommitRecord(s) \/ CommitSend(s) \/ CommitDone(s)
     PROVE  Same
  BY <1>4 DEF CommitMarkRefused, CommitRecord, CommitSend, CommitDone
<1>5. ASSUME NEW s \in Sessions,
              AbandonLock(s) \/ DiscardRelease(s) \/ DiscardRefused(s) \/ DiscardCancel(s)
     PROVE  Same
  BY <1>5 DEF AbandonLock, DiscardRelease, DiscardRefused, DiscardCancel
<1>6. ASSUME NEW s \in Sessions,
              RebroadcastSend(s) \/ RebroadcastDone(s) \/ TrackAdvance(s) \/ TrackSkip(s)
     PROVE  Same
  BY <1>6 DEF RebroadcastSend, RebroadcastDone, TrackAdvance, TrackSkip
<1>7. ASSUME NEW s \in Sessions,
              Crash(s)
     PROVE  Same
  BY <1>7 DEF Crash
<1>8. ASSUME NEW s \in Sessions, NEW i \in Ids,
              SpeedUpBegin(s, i) \/ AbandonBegin(s, i) \/ RebroadcastBegin(s, i) \/
             Reconcile(s, i) \/ TrackRead(s, i)
     PROVE  Same
  BY <1>8 DEF SpeedUpBegin, AbandonBegin, RebroadcastBegin, Reconcile, TrackRead
<1>9. ASSUME NEW s \in Sessions, NEW q \in pending[s], CommitBegin(s, q) \/ DiscardBegin(s, q)
     PROVE  Same
  BY <1>9 DEF CommitBegin, DiscardBegin
<1>10. ASSUME NEW c \in sent, Mine(c) PROVE Same
  BY <1>10 DEF Mine
<1>11. CASE UNCHANGED vars
  BY <1>11 DEF vars
<1>12. ASSUME NEW s \in Sessions, PrepareReserve(s) PROVE nrev <= nrev'
  BY <1>12 DEF PrepareReserve
<1>13. Same => nrev <= nrev'
  OBVIOUS
<1> HIDE DEF Same
<1> QED BY <1>1, <1>2, <1>3, <1>4, <1>5, <1>6, <1>7, <1>8, <1>9, <1>10, <1>11, <1>12, <1>13 DEF
     Next, Begin, Proceed

\* The places from which a candidate may still be signed.
Choosing == Preparing \cup {"u_check", "c_check", "c_sign"}

\* What brings a session to one of them.
LEMMA WorkFrame ==
  ASSUME TypeOK, [Next]_vars, NEW t \in Sessions, pc'[t] \in Choosing
  PROVE  \/ pc'[t] = pc[t] /\ job'[t] = job[t]
         \/ PrepareReserve(t) \/ PrepareClear(t) \/ CommitAdmit(t)
         \/ \E p \in pending[t] : CommitBegin(t, p)
         \/ \E i \in Ids : SpeedUpBegin(t, i)
<1> DEFINE Same == pc'[t] = pc[t] /\ job'[t] = job[t]
<1> USE DEF TypeOK, Goto, Choosing, Preparing, sdk, node, locks, bounds
<1>1. ASSUME NEW s \in Sessions,
              PrepareBegin(s) \/ PrepareLock(s) \/ CommitSign(s) \/ CommitMark(s)
     PROVE  Same
  BY <1>1 DEF PrepareBegin, PrepareLock, CommitSign, CommitMark
<1>2. ASSUME NEW s \in Sessions,
              CommitRecord(s) \/ CommitSend(s) \/ AbandonLock(s) \/ DiscardRelease(s)
     PROVE  Same
  BY <1>2 DEF CommitRecord, CommitSend, AbandonLock, DiscardRelease
<1>3. ASSUME NEW s \in Sessions,
              RebroadcastSend(s)
     PROVE  Same
  BY <1>3 DEF RebroadcastSend
<1>4. ASSUME NEW s \in Sessions, NEW i \in Ids,
              AbandonBegin(s, i) \/ RebroadcastBegin(s, i) \/ Reconcile(s, i) \/ TrackRead(s, i)
     PROVE  Same
  BY <1>4 DEF AbandonBegin, RebroadcastBegin, Reconcile, TrackRead
<1>5. ASSUME NEW s \in Sessions, NEW p \in pending[s], DiscardBegin(s, p) PROVE Same
  BY <1>5 DEF DiscardBegin
<1>6. ASSUME NEW c \in sent, Mine(c) PROVE Same
  BY <1>6 DEF Mine
<1>7. CASE UNCHANGED vars
  BY <1>7 DEF vars
<1>8. ASSUME NEW s \in Sessions, Returning(s) PROVE Same
  BY <1>8, ReturningReturns, ReturnKeeps
<1>9. ASSUME NEW s \in Sessions, PrepareReserve(s) \/ PrepareClear(s) \/ CommitAdmit(s), s # t
     PROVE  Same
  BY <1>9 DEF PrepareReserve, PrepareClear, CommitAdmit
<1>10. ASSUME NEW s \in Sessions, NEW p \in pending[s], CommitBegin(s, p), s # t PROVE Same
  BY <1>10 DEF CommitBegin
<1>11. ASSUME NEW s \in Sessions, NEW i \in Ids, SpeedUpBegin(s, i), s # t PROVE Same
  BY <1>11 DEF SpeedUpBegin
<1> HIDE DEF Same
<1> QED
  BY <1>1, <1>2, <1>3, <1>4, <1>5, <1>6, <1>7, <1>8, <1>9, <1>10, <1>11
     DEF Next, Begin, Proceed, Returning, Same

\* Every step keeps first reviews distinct and no older than the last number given (FreshInv).
THEOREM FreshStep ==
  TypeOK /\ LockInv /\ JobInv /\ FreshInv /\ [Next]_vars => FreshInv'
<1> SUFFICES ASSUME TypeOK, LockInv, JobInv, FreshInv, [Next]_vars PROVE FreshInv'
  OBVIOUS
<1>0. nrev <= nrev' /\ nrev \in Nat /\ nrev' \in Nat
  BY ReviewsGrow, TypeStep, BoundsAssumption DEF TypeOK
<1>1. ASSUME NEW t \in Sessions, NEW p \in pending'[t], p.k = 0 PROVE p.rev <= nrev'
  <2>1. p.rev <= nrev /\ p.rev \in Nat
    <3>1. CASE p \in pending[t]
      BY <1>1, <3>1 DEF FreshInv, TypeOK, Pendings, Reviews
    <3>2. CASE PrepareFinish(t) /\ p = [id |-> job[t].id, rev |-> job[t].rev, k |-> 0]
      BY <3>2 DEF PrepareFinish, FreshInv, Preparing, JobInv, JobAt, Reviews
    <3> QED BY <1>1, <3>1, <3>2, FirstsFrame
  <2> QED BY <1>0, <2>1
<1>2. ASSUME NEW s \in Sessions, pc'[s] \in Preparing \/ (pc'[s] \in {"c_check", "c_sign"} /\ job'[s].k = 0)
      PROVE  job'[s].rev <= nrev'
  <2> USE DEF TypeOK, Goto, JobOf
  <2>1. CASE pc'[s] = pc[s] /\ job'[s] = job[s]
    <3>1. job[s].rev <= nrev /\ job[s].rev \in Nat
      BY <1>2, <2>1, JobFields DEF FreshInv
    <3> QED BY <1>0, <2>1, <3>1
  <2>2. CASE PrepareReserve(s)
    <3>1. job'[s].rev = nrev'
      BY <2>2 DEF PrepareReserve
    <3> QED BY <1>0, <3>1
  <2>3. CASE PrepareClear(s) \/ CommitAdmit(s)
    <3>1. job'[s] = job[s] /\ nrev' = nrev /\ (pc[s] \in Preparing \/ (pc[s] = "c_check" /\ pc'[s] = "c_sign"))
      BY <2>3 DEF PrepareClear, CommitAdmit, Preparing, bounds
    <3> QED BY <1>2, <3>1 DEF FreshInv, Preparing
  <2>4. ASSUME NEW p \in pending[s], CommitBegin(s, p) PROVE job'[s].rev <= nrev'
    <3>1. job'[s].rev = p.rev /\ job'[s].k = p.k /\ nrev' = nrev /\ pc'[s] = "c_check"
      BY <2>4 DEF CommitBegin, bounds
    <3> QED BY <1>2, <3>1 DEF FreshInv, Preparing
  <2>5. CASE \E o \in Ids : SpeedUpBegin(s, o)
    BY <1>2, <2>5 DEF SpeedUpBegin, Preparing
  <2> QED BY <1>2, <2>1, <2>2, <2>3, <2>4, <2>5, WorkFrame DEF Choosing
<1>3. ASSUME NEW s \in Sessions, NEW t \in Sessions, NEW p \in pending'[t],
             pc'[s] \in Preparing, p.k = 0
      PROVE  p.rev # job'[s].rev
  <2> USE DEF TypeOK, Goto, JobOf
  <2>1. CASE pc'[s] = pc[s] /\ job'[s] = job[s]
    <3>1. CASE p \in pending[t]
      BY <1>3, <2>1, <3>1 DEF FreshInv
    <3>2. CASE PrepareFinish(t)
      <4>1. s = t
        BY <1>3, <2>1, <3>2 DEF PrepareFinish, LockInv, HoldsCommit, Preparing
      <4>2. pc'[t] = "idle"
        BY <3>2 DEF PrepareFinish, Return
      <4> QED BY <1>3, <4>1, <4>2 DEF Preparing
    <3> QED BY <1>3, <3>1, <3>2, FirstsFrame
  <2>2. CASE PrepareReserve(s)
    <3>1. job'[s].rev = nrev + 1 /\ p \in pending[t]
      BY <2>2 DEF PrepareReserve
    <3>2. p.rev <= nrev /\ p.rev \in Nat
      BY <1>3, <3>1 DEF FreshInv, Pendings, Reviews
    <3> QED BY <1>0, <3>1, <3>2
  <2>3. CASE PrepareClear(s)
    BY <1>3, <2>3 DEF PrepareClear, FreshInv, Preparing
  <2>4. CASE CommitAdmit(s) \/ (\E q \in pending[s] : CommitBegin(s, q))
             \/ \E i \in Ids : SpeedUpBegin(s, i)
    BY <1>3, <2>4 DEF CommitAdmit, CommitBegin, SpeedUpBegin, Preparing
  <2> QED BY <1>3, <2>1, <2>2, <2>3, <2>4, WorkFrame DEF Choosing
<1> QED BY <1>1, <1>2, <1>3 DEF FreshInv

\* A review that waits for its signature goes on waiting: nobody but the session that prepares
\* the next one may take its row away.
LEMMA WaitingKept ==
  ASSUME TypeOK, LockInv, ClaimInv, JobInv, RowInv, [Next]_vars,
         NEW i \in Ids, NEW r \in Reviews, r <= nrev, Waiting(i, r),
         \A s \in Sessions : pc[s] \in Preparing => job[s].rev # r
  PROVE  Waiting(i, r)'
<1> SUFFICES ASSUME resv'[i] = "reserved", bound'[i] = r
             PROVE  row'[i].st = "prepared" /\ row'[i].rev \in {NoReview, r}
  BY DEF Waiting
<1> USE DEF TypeOK
<1>1. resv[i] = "reserved" /\ bound[i] = r
  <2> DEFINE Goal == resv[i] = "reserved" /\ bound[i] = r
  <2>0. r # NoReview /\ r # nrev + 1
    BY BoundsAssumption DEF Reviews, NoReview
  <2>1. ASSUME NEW s \in Sessions, PrepareLock(s) PROVE Goal
    BY <2>0, <2>1 DEF PrepareLock
  <2>2. ASSUME NEW s \in Sessions, PrepareReserve(s) PROVE Goal
    BY <2>0, <2>2 DEF PrepareReserve
  <2>3. ASSUME NEW s \in Sessions, PrepareReject(s) PROVE Goal
    BY <2>3 DEF PrepareReject
  <2>4. ASSUME NEW s \in Sessions, CommitSign(s) PROVE Goal
    BY <2>4 DEF CommitSign
  <2>5. ASSUME NEW s \in Sessions, DiscardRelease(s) PROVE Goal
    BY <2>5 DEF DiscardRelease
  <2>6. ASSUME NEW s \in Sessions, TrackAdvance(s) PROVE Goal
    BY <2>6 DEF TrackAdvance
  <2>7. CASE UNCHANGED <<resv, nonceOf, bound, payload, cursor>>
    BY <2>7
  <2> HIDE DEF Goal
  <2> QED BY <2>1, <2>2, <2>3, <2>4, <2>5, <2>6, <2>7, CustodyFrame DEF Goal
<1>2. /\ row[i].st = "prepared" /\ row[i].rev \in {NoReview, r}
      /\ payload[i] = {} /\ row[i].known = {}
  BY <1>1 DEF Waiting, ClaimInv, RowInv
<1> DEFINE Goal == row'[i].st = "prepared" /\ row'[i].rev \in {NoReview, r}
<1>3. ASSUME NEW s \in Sessions, PrepareClear(s) PROVE Goal
  BY <1>1, <1>2, <1>3 DEF PrepareClear, JobInv, JobAt, Preparing
<1>4. ASSUME NEW s \in Sessions, PrepareFinish(s) PROVE Goal
  BY <1>1, <1>2, <1>4 DEF PrepareFinish, JobInv, JobAt, Preparing
<1>5. ASSUME NEW s \in Sessions, SpeedUpFinish(s) PROVE Goal
  BY <1>2, <1>5 DEF SpeedUpFinish, RowOf
<1>6. ASSUME NEW s \in Sessions, CommitMark(s) \/ CommitRecord(s) PROVE Goal
  <2>1. job[s].id # i
    BY <1>2, <1>6 DEF CommitMark, CommitRecord, JobInv, JobAt
  <2> QED BY <1>2, <1>6, <2>1 DEF CommitMark, CommitRecord, Transition
<1>7. ASSUME NEW s \in Sessions, CommitDone(s) PROVE Goal
  BY <1>2, <1>7 DEF CommitDone, FinishBroadcast, Transition
<1>8. ASSUME NEW s \in Sessions, DiscardCancel(s) PROVE Goal
  BY <1>1, <1>2, <1>8 DEF DiscardCancel, JobInv, JobAt
<1>9. ASSUME NEW s \in Sessions, RebroadcastDone(s) PROVE Goal
  BY <1>2, <1>9 DEF RebroadcastDone, FinishBroadcast, Transition, JobInv, JobAt
<1>10. ASSUME NEW s \in Sessions, TrackAdvance(s) PROVE Goal
  <2>1. \E new : Transition(job[s].id, job[s].from, new)
    BY <1>10 DEF TrackAdvance
  <2>2. job[s].from # "prepared"
    BY <1>10 DEF TrackAdvance, JobInv, JobAt
  <2> QED BY <1>2, <2>1, <2>2 DEF Transition
<1>11. ASSUME NEW s \in Sessions, NEW o \in Ids, Reconcile(s, o) PROVE Goal
  <2>1. PICK w \in Reconciled(o) : row' = [row EXCEPT ![o] = w]
    BY <1>11 DEF Reconcile
  <2>2. o = i => w = row[i]
    BY <1>2, <2>1 DEF Reconciled, HasRow
  <2> QED BY <1>2, <2>1, <2>2
<1>12. ASSUME row' = row PROVE Goal
  BY <1>2, <1>12
<1> HIDE DEF Goal
<1> QED BY <1>3, <1>4, <1>5, <1>6, <1>7, <1>8, <1>9, <1>10, <1>11, <1>12, RowFrame DEF Goal

\* Every step keeps a review about to be signed waiting in the journal (WaitingInv).
THEOREM WaitingStep ==
  TypeOK /\ LockInv /\ ClaimInv /\ JobInv /\ RowInv /\ FreshInv /\ WaitingInv /\ [Next]_vars
    => WaitingInv'
<1> SUFFICES ASSUME TypeOK, LockInv, ClaimInv, JobInv, RowInv, FreshInv, WaitingInv, [Next]_vars
             PROVE  WaitingInv'
  OBVIOUS
<1>1. ASSUME NEW t \in Sessions, NEW p \in pending'[t], p.k = 0 PROVE Waiting(p.id, p.rev)'
  <2>1. CASE p \in pending[t]
    <3>1. p.id \in Ids /\ p.rev \in Reviews
      BY <2>1 DEF TypeOK, Pendings
    <3>2. p.rev <= nrev /\ Waiting(p.id, p.rev)
          /\ \A s \in Sessions : pc[s] \in Preparing => job[s].rev # p.rev
      BY <1>1, <2>1 DEF FreshInv, WaitingInv
    <3> QED BY <3>1, <3>2, WaitingKept
  <2>2. CASE PrepareFinish(t) /\ p = [id |-> job[t].id, rev |-> job[t].rev, k |-> 0]
    <3>1. p.id \in Ids /\ row' = [row EXCEPT ![p.id] = RowOf("prepared", job[t].rev, NoHash, {}, 0)]
      BY <2>2 DEF PrepareFinish, LockInv
    <3>2. row'[p.id].st = "prepared" /\ row'[p.id].rev = p.rev
      BY <2>2, <3>1 DEF TypeOK, RowOf
    <3> QED BY <3>2 DEF Waiting
  <2> QED BY <1>1, <2>1, <2>2, FirstsFrame
<1>2. ASSUME NEW s \in Sessions, pc'[s] \in {"c_check", "c_sign"}, job'[s].k = 0
      PROVE  resv'[job'[s].id] = "reserved" /\ bound'[job'[s].id] = job'[s].rev
               => /\ row'[job'[s].id].st = "prepared"
                  /\ row'[job'[s].id].rev \in {NoReview, job'[s].rev}
  <2> DEFINE i == job'[s].id
             r == job'[s].rev
  <2> USE DEF TypeOK, Goto, JobOf
  <2>1. CASE pc'[s] = pc[s] /\ job'[s] = job[s]
    <3>1. PICK a \in Ids, b \in Reviews : a = job[s].id /\ b = job[s].rev
      BY <1>2, <2>1 DEF LockInv, JobInv, JobAt
    <3>2. b <= nrev /\ Waiting(a, b)
      BY <1>2, <2>1, <3>1 DEF FreshInv, WaitingInv
    <3>3. \A t \in Sessions : pc[t] \notin Preparing
      BY <1>2, <2>1, NamesAssumption DEF LockInv, HoldsCommit, Preparing
    <3>4. Waiting(a, b)'
      BY <3>2, <3>3, WaitingKept
    <3> QED BY <2>1, <3>1, <3>4 DEF Waiting
  <2>2. CASE CommitAdmit(s)
    <3>1. /\ job' = job /\ row' = row /\ resv' = resv /\ bound' = bound /\ pc[s] = "c_check"
      BY <2>2 DEF CommitAdmit, sdk
    <3> QED BY <1>2, <3>1 DEF WaitingInv, Waiting
  <2>3. ASSUME NEW p \in pending[s], CommitBegin(s, p)
        PROVE  resv'[i] = "reserved" /\ bound'[i] = r
                 => row'[i].st = "prepared" /\ row'[i].rev \in {NoReview, r}
    <3>1. /\ i = p.id /\ r = p.rev /\ p.k = 0
          /\ row' = row /\ resv' = resv /\ bound' = bound
      BY <1>2, <2>3 DEF CommitBegin, sdk
    <3> HIDE DEF i, r
    <3> QED BY <3>1 DEF WaitingInv, Waiting
  <2>4. CASE PrepareReserve(s) \/ PrepareClear(s) \/ \E o \in Ids : SpeedUpBegin(s, o)
    BY <1>2, <2>4 DEF PrepareReserve, PrepareClear, SpeedUpBegin
  <2> QED BY <1>2, <2>1, <2>2, <2>3, <2>4, WorkFrame DEF Choosing
<1> QED BY <1>1, <1>2 DEF WaitingInv, Waiting

-----------------------------------------------------------------------------
(* Conclusions. *)

\* The inductive invariant holds when the account has no operation yet.
THEOREM Initially == Init => IInv
<1> SUFFICES ASSUME Init PROVE IInv
  OBVIOUS
<1>1. TypeOK
  BY TypeInit
<1>2. LockInv /\ ClaimInv /\ JobInv /\ FreshInv /\ WaitingInv /\ RowInv /\ SentIsJournalled
  BY DEF Init, LockInv, ClaimInv, JobInv, JobAt, FreshInv, WaitingInv, RowInv, SentIsJournalled,
         HoldsCommit, HoldsOp, Preparing, NoRow, RowOf
<1>3. MinedInv
  BY DEF Init, MinedInv
<1> QED BY <1>1, <1>2, <1>3 DEF IInv

\* Every step of every call keeps the inductive invariant.
THEOREM Inductively == IInv /\ [Next]_vars => IInv'
BY TypeStep, LockStep, ClaimStep, JobStep, FreshStep, WaitingStep, RowStep, MinedStep, SentStep
   DEF IInv

\* The inductive invariant holds in every reachable state.
THEOREM Invariance == Spec => []IInv
<1>1. Init => IInv
  BY Initially
<1>2. IInv /\ [Next]_vars => IInv'
  BY Inductively
<1> QED BY <1>1, <1>2, PTL DEF Spec

\* Every variable keeps its type, for any number of sessions, operations and reviews.
THEOREM TypeCorrectness == Spec => []TypeOK
<1>1. IInv => TypeOK
  BY DEF IInv
<1> QED BY <1>1, Invariance, PTL

\* The owner's commitment lock and the operation locks exclude, whatever crashes or returns early.
THEOREM MutualExclusion == Spec => []LockInv
<1>1. IInv => LockInv
  BY DEF IInv
<1> QED BY <1>1, Invariance, PTL

\* tx.rs, commit and rebroadcast: a crash at any point of any call loses no spend a node has
\* accepted, because the journal knew it first.
THEOREM NothingSentIsLost == Spec => []SentIsJournalled
<1>1. IInv => SentIsJournalled
  BY DEF IInv
<1> QED BY <1>1, Invariance, PTL

\* A row over signed bytes stays one: it is neither cancelled nor removed.
LEMMA SignedRowStep ==
  ASSUME TypeOK, LockInv, ClaimInv, JobInv, [Next]_vars,
         NEW i \in Ids, payload[i] # {}, row[i].st \notin {"none", "cancelled"}
  PROVE  row'[i].st \notin {"none", "cancelled"}
<1> DEFINE Goal == row'[i].st \notin {"none", "cancelled"}
<1> USE DEF TypeOK
<1>0. resv[i] \in {"signed", "confirmed"}
  BY DEF ClaimInv
<1>1. ASSUME NEW s \in Sessions, PrepareClear(s) \/ PrepareFinish(s) \/ DiscardCancel(s) PROVE Goal
  <2>1. job[s].id # i
    BY <1>0, <1>1 DEF PrepareClear, PrepareFinish, DiscardCancel, JobInv, JobAt, Preparing
  <2> QED BY <1>1, <2>1 DEF PrepareClear, PrepareFinish, DiscardCancel
<1>2. ASSUME NEW s \in Sessions, SpeedUpFinish(s) PROVE Goal
  BY <1>2 DEF SpeedUpFinish, RowOf
<1>3. ASSUME NEW s \in Sessions, CommitMark(s) PROVE Goal
  BY <1>3 DEF CommitMark, Transition, Marked, RowOf
<1>4. ASSUME NEW s \in Sessions, CommitRecord(s) PROVE Goal
  BY <1>4 DEF CommitRecord, Marked, RowOf
<1>5. ASSUME NEW s \in Sessions, CommitDone(s) PROVE Goal
  BY <1>5, AfterReplyType DEF CommitDone, FinishBroadcast, Transition, Moved, RowOf, Awaiting
<1>6. ASSUME NEW s \in Sessions, RebroadcastDone(s) PROVE Goal
  BY <1>6, AfterReplyType DEF RebroadcastDone, FinishBroadcast, Transition, Moved, RowOf, Awaiting
<1>7. ASSUME NEW s \in Sessions, TrackAdvance(s) PROVE Goal
  <2>1. PICK st, h : /\ st \in IncludedAs \cup {"submitted", "settled"}
                     /\ Transition(job[s].id, job[s].from, Moved(row[job[s].id], st, h))
    BY <1>7 DEF TrackAdvance
  <2>2. Moved(row[job[s].id], st, h).st \notin {"none", "cancelled"}
    BY <2>1, OutcomesAssumption DEF Moved, RowOf
  <2> HIDE DEF TypeOK
  <2>3. row \in [Ids -> Rows]
    BY DEF TypeOK
  <2> QED BY <2>1, <2>2, <2>3 DEF Transition
<1>8. ASSUME NEW s \in Sessions, NEW o \in Ids, Reconcile(s, o) PROVE Goal
  <2>1. PICK w \in Reconciled(o) : row' = [row EXCEPT ![o] = w]
    BY <1>8 DEF Reconcile
  <2>2. o = i => w.st \notin {"none", "cancelled"}
    BY <2>1 DEF Reconciled, HasRow, RowOf
  <2> QED BY <2>1, <2>2
<1>9. ASSUME row' = row PROVE Goal
  BY <1>9
<1> HIDE DEF Goal
<1> QED BY <1>1, <1>2, <1>3, <1>4, <1>5, <1>6, <1>7, <1>8, <1>9, RowFrame DEF Goal

\* The first signature over an operation finds its review waiting in the journal.
LEMMA FirstSignature ==
  ASSUME SignBindsReview, TypeOK, LockInv, ClaimInv, WaitingInv, JobInv, [Next]_vars,
         NEW i \in Ids, payload[i] = {}, payload'[i] # {}
  PROVE  \E s \in Sessions : /\ CommitSign(s) /\ job[s].id = i /\ job[s].k = 0
                              /\ row'[i].st = "prepared" /\ row'[i].rev \in {NoReview, job[s].rev}
<1>1. PICK s \in Sessions : CommitSign(s)
  <2>1. ASSUME NEW s \in Sessions, PrepareLock(s) \/ PrepareReserve(s) \/ PrepareReject(s) \/
                DiscardRelease(s) \/ TrackAdvance(s)
        PROVE  payload' = payload
    BY <2>1 DEF PrepareLock, PrepareReserve, PrepareReject, DiscardRelease, TrackAdvance
  <2> QED BY <2>1, CustodyFrame
<1>2. job[s].id = i /\ row' = row /\ Signable(job[s]) /\ pc[s] = "c_sign"
  BY <1>1 DEF CommitSign, TypeOK, node
<1>3. resv[i] # "signed"
  BY DEF ClaimInv
<1>4. job[s].k = 0 /\ Waiting(i, job[s].rev)
  BY <1>2, <1>3 DEF Signable, WaitingInv
<1>5. resv[i] = "reserved" /\ bound[i] = job[s].rev
  BY <1>2, <1>4 DEF Signable
<1> QED BY <1>1, <1>2, <1>4, <1>5 DEF Waiting

\* release_unsigned before update_operation: when the SDK signs for a reservation only what it
\* was last prepared for, no session ever cancels, replaces or forgets a signed spend.
THEOREM NoSignedSpendIsCancelled == SignBindsReview => (Spec => []SignedNeverCancelled)
<1> SUFFICES ASSUME SignBindsReview PROVE Spec => []SignedNeverCancelled
  OBVIOUS
<1>1. Init => SignedNeverCancelled
  BY DEF Init, SignedNeverCancelled, Signed
<1>2. IInv /\ SignedNeverCancelled /\ [Next]_vars => SignedNeverCancelled'
  <2> SUFFICES ASSUME IInv, SignedNeverCancelled, [Next]_vars, NEW i \in Ids, payload'[i] # {}
               PROVE  row'[i].st \notin {"none", "cancelled"}
    BY DEF SignedNeverCancelled, Signed
  <2>1. CASE payload[i] # {}
    BY <2>1, SignedRowStep DEF IInv, SignedNeverCancelled, Signed
  <2>2. CASE payload[i] = {}
    <3>1. row'[i].st = "prepared"
      BY <2>2, FirstSignature DEF IInv
    <3> QED BY <3>1
  <2> QED BY <2>1, <2>2
<1> QED BY <1>1, <1>2, Invariance, PTL DEF Spec

\* A concluded row keeps its status, or makes room for a new review.
Concluded(i) == \/ row'[i].st = row[i].st
                \/ row[i].st = "cancelled" /\ row'[i].st = "none" /\ ~Signed(i)

\* What the journal has concluded stays concluded through every step.
LEMMA Concludes ==
  ASSUME IInv, [Next]_vars, NEW i \in Ids, row[i].st \in Terminal PROVE Concluded(i)
<1> USE DEF TypeOK, Concluded
<1>0. /\ TypeOK /\ LockInv /\ ClaimInv /\ JobInv
      /\ row[i].st \notin Open \cup {"none"}
      /\ resv[i] = "released" => row[i].st = "cancelled"
  BY DEF IInv, RowInv, ClaimInv, Open, Terminal
<1>1. ASSUME NEW s \in Sessions, PrepareClear(s) PROVE Concluded(i)
  <2>1. job[s].id \in Ids /\ resv[job[s].id] = "reserved" /\ ~Signed(job[s].id)
    BY <1>0, <1>1 DEF PrepareClear, LockInv, JobInv, JobAt, Preparing, Signed, ClaimInv
  <2> QED BY <1>0, <1>1, <2>1 DEF PrepareClear, NoRow, RowOf, Open
<1>2. ASSUME NEW s \in Sessions, PrepareFinish(s) PROVE Concluded(i)
  BY <1>0, <1>2 DEF PrepareFinish, HasRow
<1>3. ASSUME NEW s \in Sessions, SpeedUpFinish(s) PROVE Concluded(i)
  BY <1>0, <1>3 DEF SpeedUpFinish, RowOf
<1>4. ASSUME NEW s \in Sessions, CommitMark(s) PROVE Concluded(i)
  BY <1>0, <1>4 DEF CommitMark, Transition, Open
<1>5. ASSUME NEW s \in Sessions, CommitRecord(s) PROVE Concluded(i)
  BY <1>0, <1>5 DEF CommitRecord, RowOf
<1>6. ASSUME NEW s \in Sessions, CommitDone(s) PROVE Concluded(i)
  BY <1>0, <1>6 DEF CommitDone, FinishBroadcast, Transition, Open
<1>7. ASSUME NEW s \in Sessions, DiscardCancel(s) PROVE Concluded(i)
  BY <1>0, <1>7 DEF DiscardCancel, Moved, RowOf, JobInv, JobAt
<1>8. ASSUME NEW s \in Sessions, RebroadcastDone(s) PROVE Concluded(i)
  BY <1>0, <1>8 DEF RebroadcastDone, FinishBroadcast, Transition, JobInv, JobAt
<1>9. ASSUME NEW s \in Sessions, TrackAdvance(s) PROVE Concluded(i)
  <2>1. \E new : Transition(job[s].id, job[s].from, new)
    BY <1>9 DEF TrackAdvance
  <2>2. job[s].from \in Open
    BY <1>0, <1>9 DEF TrackAdvance, JobInv, JobAt
  <2> QED BY <1>0, <2>1, <2>2 DEF Transition
<1>10. ASSUME NEW s \in Sessions, NEW o \in Ids, Reconcile(s, o) PROVE Concluded(i)
  <2>1. PICK w \in Reconciled(o) : row' = [row EXCEPT ![o] = w]
    BY <1>10 DEF Reconcile
  <2>2. o = i => w.st = row[i].st
    BY <1>0, <2>1 DEF Reconciled, HasRow, RowOf, Open
  <2> QED BY <1>0, <2>1, <2>2
<1>11. ASSUME row' = row PROVE Concluded(i)
  BY <1>11
<1> HIDE DEF Concluded
<1> QED BY <1>1, <1>2, <1>3, <1>4, <1>5, <1>6, <1>7, <1>8, <1>9, <1>10, <1>11, RowFrame

\* transition_operation: what the journal has concluded stays concluded, whoever returns late
\* with an older answer; a cancelled row gives way only to a new review of its nonce.
THEOREM ConcludedStaysConcluded == Spec => TerminalIsFinal
<1>1. IInv /\ [Next]_vars => [\A i \in Ids : row[i].st \in Terminal => Concluded(i)]_vars
  BY Concludes
<1> QED BY <1>1, Invariance, PTL DEF Spec, TerminalIsFinal, Concluded

-----------------------------------------------------------------------------
(* One review per family. *)

\* What moves the review a row describes.
LEMMA RowReview ==
  ASSUME TypeOK, LockInv, JobInv, [Next]_vars, NEW i \in Ids
  PROVE  \/ row'[i].rev \in {row[i].rev, NoReview}
         \/ \E s \in Sessions : PrepareFinish(s) /\ job[s].id = i
<1> DEFINE Goal == row'[i].rev \in {row[i].rev, NoReview}
<1> USE DEF TypeOK
<1>1. ASSUME NEW s \in Sessions, PrepareClear(s) PROVE Goal
  BY <1>1 DEF PrepareClear, NoRow, RowOf
<1>2. ASSUME NEW s \in Sessions, PrepareFinish(s), job[s].id # i PROVE Goal
  BY <1>2 DEF PrepareFinish
<1>3. ASSUME NEW s \in Sessions, SpeedUpFinish(s) PROVE Goal
  BY <1>3 DEF SpeedUpFinish, RowOf
<1>4. ASSUME NEW s \in Sessions, CommitMark(s) PROVE Goal
  BY <1>4 DEF CommitMark, Transition, Marked, RowOf
<1>5. ASSUME NEW s \in Sessions, CommitRecord(s) PROVE Goal
  BY <1>5 DEF CommitRecord, Marked, RowOf
<1>6. ASSUME NEW s \in Sessions, CommitDone(s) PROVE Goal
  BY <1>6 DEF CommitDone, FinishBroadcast, Transition, Moved, RowOf
<1>7. ASSUME NEW s \in Sessions, DiscardCancel(s) PROVE Goal
  BY <1>7 DEF DiscardCancel, Moved, RowOf
<1>8. ASSUME NEW s \in Sessions, RebroadcastDone(s) PROVE Goal
  BY <1>8 DEF RebroadcastDone, FinishBroadcast, Transition, Moved, RowOf
<1>9. ASSUME NEW s \in Sessions, TrackAdvance(s) PROVE Goal
  <2> DEFINE w == row[job[s].id]
  <2>1. PICK st, h : Transition(job[s].id, job[s].from, Moved(w, st, h))
    BY <1>9 DEF TrackAdvance
  <2>2. Moved(w, st, h).rev = w.rev
    BY DEF Moved, RowOf
  <2> HIDE DEF w
  <2> QED BY <2>1, <2>2 DEF Transition, w
<1>10. ASSUME NEW s \in Sessions, NEW o \in Ids, Reconcile(s, o) PROVE Goal
  <2>1. PICK w \in Reconciled(o) : row' = [row EXCEPT ![o] = w]
    BY <1>10 DEF Reconcile
  <2>2. o = i => w.rev \in {row[i].rev, NoReview}
    BY <2>1 DEF Reconciled, RowOf
  <2> QED BY <2>1, <2>2
<1>11. ASSUME row' = row PROVE Goal
  BY <1>11
<1> HIDE DEF Goal
<1> QED BY <1>1, <1>2, <1>3, <1>4, <1>5, <1>6, <1>7, <1>8, <1>9, <1>10, <1>11, RowFrame DEF Goal

\* Only a signature adds to the signed candidates of the custody store.
LEMMA PayloadFrame ==
  ASSUME [Next]_vars PROVE payload' = payload \/ \E s \in Sessions : CommitSign(s)
<1>1. ASSUME NEW s \in Sessions, PrepareLock(s) \/ PrepareReserve(s) \/ PrepareReject(s) \/
              DiscardRelease(s) \/ TrackAdvance(s)
      PROVE  payload' = payload
  BY <1>1 DEF PrepareLock, PrepareReserve, PrepareReject, DiscardRelease, TrackAdvance
<1> QED BY <1>1, CustodyFrame

\* A step that signs nothing keeps families in one piece.
LEMMA FamilyKept ==
  ASSUME IInv, FamilyInv, [Next]_vars, payload' = payload
  PROVE  FamilyInv'
<1> USE DEF IInv
<1>1. ASSUME NEW i \in Ids, row'[i].rev # NoReview, NEW c \in payload[i] PROVE c.rev = row'[i].rev
  <2>1. ASSUME NEW s \in Sessions, PrepareFinish(s), job[s].id = i PROVE FALSE
    BY <1>1, <2>1 DEF PrepareFinish, JobInv, JobAt, Preparing, ClaimInv
  <2> QED BY <1>1, <2>1, RowReview DEF FamilyInv
<1>2. ASSUME NEW t \in Sessions, NEW p \in pending'[t], p.k > 0 PROVE Carries(p.id, p.rev)
  <2>1. CASE p \in pending[t]
    BY <1>2, <2>1 DEF FamilyInv
  <2>2. CASE PrepareFinish(t) /\ p = [id |-> job[t].id, rev |-> job[t].rev, k |-> 0]
    BY <1>2, <2>2
  <2>3. CASE SpeedUpFinish(t) /\ p = [id |-> job[t].id, rev |-> job[t].rev, k |-> job[t].k]
    BY <1>2, <2>3 DEF SpeedUpFinish, FamilyInv
  <2> QED BY <2>1, <2>2, <2>3, PendingFrame
<1>3. ASSUME NEW s \in Sessions,
             pc'[s] = "u_check" \/ (pc'[s] \in {"c_check", "c_sign"} /\ job'[s].k > 0)
      PROVE  Carries(job'[s].id, job'[s].rev)
  <2> USE DEF TypeOK, Goto, JobOf
  <2>1. CASE pc'[s] = pc[s] /\ job'[s] = job[s]
    <3> HIDE DEF TypeOK
    <3> QED BY <1>3, <2>1 DEF FamilyInv
  <2>2. CASE CommitAdmit(s)
    <3>1. job' = job /\ pc[s] = "c_check" /\ pc'[s] = "c_sign"
      BY <2>2 DEF CommitAdmit
    <3> QED BY <1>3, <3>1 DEF FamilyInv
  <2>3. ASSUME NEW p \in pending[s], CommitBegin(s, p) PROVE Carries(job'[s].id, job'[s].rev)
    <3>1. job'[s].id = p.id /\ job'[s].rev = p.rev /\ job'[s].k = p.k /\ pc'[s] = "c_check"
      BY <2>3 DEF CommitBegin
    <3> QED BY <1>3, <3>1 DEF FamilyInv
  <2>4. ASSUME NEW i \in Ids, SpeedUpBegin(s, i) PROVE Carries(job'[s].id, job'[s].rev)
    <3>1. PICK n \in Observable, c \in Latest(i) :
            job' = [job EXCEPT ![s] = JobOf(i, c.rev, c.k + 1, n, row[i].st)]
      BY <2>4 DEF SpeedUpBegin
    <3>2. c \in payload[i] /\ job'[s].id = i /\ job'[s].rev = c.rev
      BY <3>1 DEF Latest
    <3> QED BY <3>2 DEF FamilyInv, Carries
  <2>5. CASE PrepareReserve(s) \/ PrepareClear(s)
    BY <1>3, <2>5 DEF PrepareReserve, PrepareClear
  <2> QED BY <1>3, <2>1, <2>2, <2>3, <2>4, <2>5, WorkFrame DEF Choosing
<1> QED BY <1>1, <1>2, <1>3 DEF FamilyInv, Carries

\* A step that signs adds to a family a candidate of its own review.
LEMMA FamilySigned ==
  ASSUME SignBindsReview, IInv, FamilyInv, [Next]_vars, NEW s \in Sessions, CommitSign(s)
  PROVE  FamilyInv'
<1> DEFINE j == job[s]
           c == Cand(j.id, j.rev, j.k)
<1> USE DEF IInv, TypeOK, Goto
<1>1. /\ j.id \in Ids /\ pc[s] = "c_sign" /\ Signable(j) /\ j.k \in Nat
      /\ payload' = [payload EXCEPT ![j.id] = payload[j.id] \cup {c}]
      /\ row' = row /\ pending' = pending /\ job' = job
      /\ pc' = [pc EXCEPT ![s] = "c_mark"]
  BY JobFields, BoundsAssumption DEF CommitSign, LockInv, node, bounds, Bumps
<1>2. c.rev = j.rev
  BY DEF Cand
<1> HIDE DEF c
<1>3. /\ \A d \in payload[j.id] : d.rev = j.rev
      /\ row[j.id].rev \in {NoReview, j.rev}
  <2>1. CASE j.k = 0
    BY <1>1, <2>1 DEF Signable, WaitingInv, Waiting, ClaimInv
  <2>2. CASE j.k # 0
    <3>1. j.k > 0
      BY <1>1, <2>2
    <3>2. Carries(j.id, j.rev)
      BY <1>1, <3>1 DEF FamilyInv
    <3> QED BY <1>1, <3>2 DEF FamilyInv, Carries
  <2> QED BY <2>1, <2>2
<1>4. ASSUME NEW i \in Ids, NEW r, Carries(i, r) PROVE Carries(i, r)'
  <2>1. CASE i = j.id
    <3>1. r = j.rev
      BY <1>3, <1>4, <2>1 DEF Carries
    <3> QED BY <1>1, <1>2, <1>3, <2>1, <3>1 DEF Carries
  <2>2. CASE i # j.id
    BY <1>1, <1>4, <2>2 DEF Carries
  <2> QED BY <2>1, <2>2
<1>5. ASSUME NEW i \in Ids
      PROVE  /\ \A d, e \in payload'[i] : d.rev = e.rev
             /\ row[i].rev # NoReview => \A d \in payload'[i] : d.rev = row[i].rev
  BY <1>1, <1>2, <1>3 DEF FamilyInv
<1>6. ASSUME NEW t \in Sessions, NEW p \in pending[t], p.k > 0
      PROVE  payload'[p.id] # {} /\ \A d \in payload'[p.id] : d.rev = p.rev
  <2>1. p.id \in Ids /\ Carries(p.id, p.rev)
    BY <1>6 DEF FamilyInv, Pendings
  <2> QED BY <1>4, <2>1 DEF Carries
<1>7. ASSUME NEW t \in Sessions,
             pc'[t] = "u_check" \/ (pc'[t] \in {"c_check", "c_sign"} /\ job[t].k > 0)
      PROVE  payload'[job[t].id] # {} /\ \A d \in payload'[job[t].id] : d.rev = job[t].rev
  <2>1. job[t].id \in Ids /\ Carries(job[t].id, job[t].rev)
    BY <1>1, <1>7 DEF FamilyInv, LockInv
  <2> QED BY <1>4, <2>1 DEF Carries
<1> QED BY <1>1, <1>5, <1>6, <1>7 DEF FamilyInv, Carries

\* mark_signed and record_signed_candidate: the signature a row names was made over the review
\* the row describes, when the SDK signs only what a reservation was last prepared for.
THEOREM JournalDescribesItsSignature == SignBindsReview => (Spec => []JournalNamesItsSignature)
<1> SUFFICES ASSUME SignBindsReview PROVE Spec => []JournalNamesItsSignature
  OBVIOUS
<1>1. Init => FamilyInv
  BY DEF Init, FamilyInv
<1>2. IInv /\ FamilyInv /\ [Next]_vars => FamilyInv'
  BY FamilyKept, FamilySigned, PayloadFrame
<1>3. IInv /\ FamilyInv => JournalNamesItsSignature
  BY DEF IInv, RowInv, FamilyInv, JournalNamesItsSignature
<1> QED BY <1>1, <1>2, <1>3, Invariance, PTL DEF Spec

-----------------------------------------------------------------------------
(* The promise. *)

\* The journal calls an operation included only when a block has it, and a review that waits
\* has never been signed as far as the journal knows.
InBlock == {"settling", "confirmed", "failed", "settled"}
OutcomeInv == \A i \in Ids :
  /\ row[i].st \in InBlock => Included(i) # {}
  /\ row[i].st = "prepared" => row[i].known = {}

PromiseInv == IInv /\ SignedNeverCancelled /\ OutcomeInv

-----------------------------------------------------------------------------
(* The invariant. *)

\* A block keeps what it has: an included operation stays included.
LEMMA IncludedGrows ==
  ASSUME TypeOK, [Next]_vars, NEW i \in Ids PROVE Included(i) \subseteq Included(i)'
<1>1. ASSUME NEW c \in sent, Mine(c) PROVE Included(i) \subseteq Included(i)'
  <2>1. mined' = Append(mined, c) /\ mined \in Seq(Candidates) /\ c \in Candidates
    BY <1>1 DEF Mine, TypeOK
  <2>2. Len(mined') = Len(mined) + 1 /\ \A n \in 1..Len(mined) : mined'[n] = mined[n]
    BY <2>1
  <2> QED BY <2>1, <2>2 DEF Included
<1>2. ASSUME mined' = mined PROVE Included(i) \subseteq Included(i)'
  BY <1>2 DEF Included
<1>3. ASSUME NEW s \in Sessions, CommitSend(s) \/ RebroadcastSend(s) PROVE mined' = mined
  BY <1>3 DEF CommitSend, RebroadcastSend
<1> QED BY <1>1, <1>2, <1>3, NodeFrame

\* Every step keeps the journal's word about blocks and reviews true (OutcomeInv).
THEOREM OutcomeStep == IInv /\ OutcomeInv /\ [Next]_vars => OutcomeInv'
<1> SUFFICES ASSUME IInv, OutcomeInv, [Next]_vars PROVE OutcomeInv'
  OBVIOUS
<1> USE DEF IInv
<1> DEFINE At(w, i) == /\ w.st \in InBlock => Included(i) # {}
                       /\ w.st = "prepared" => w.known = {}
           Goal == \A i \in Ids : At(row'[i], i)
<1>0. \A i \in Ids : At(row[i], i)
  BY DEF OutcomeInv
<1>q. ASSUME Goal PROVE OutcomeInv'
  BY <1>q, IncludedGrows DEF OutcomeInv
<1>r. row \in [Ids -> Rows]
  BY DEF TypeOK
<1> USE DEF InBlock
<1>1. ASSUME NEW s \in Sessions, PrepareClear(s) \/ PrepareFinish(s) PROVE Goal
  BY <1>0, <1>1, <1>r DEF PrepareClear, PrepareFinish, NoRow, RowOf
<1>2. ASSUME NEW s \in Sessions, SpeedUpFinish(s) PROVE Goal
  BY <1>0, <1>2, <1>r DEF SpeedUpFinish, RowOf
<1>3. ASSUME NEW s \in Sessions, CommitMark(s) PROVE Goal
  BY <1>0, <1>3, <1>r DEF CommitMark, Transition, Marked, RowOf
<1>4. ASSUME NEW s \in Sessions, CommitRecord(s) PROVE Goal
  BY <1>0, <1>4, <1>r DEF CommitRecord, Marked, RowOf, Terminal
<1>5. ASSUME NEW s \in Sessions, CommitDone(s) \/ RebroadcastDone(s) PROVE Goal
  BY <1>0, <1>5, <1>r, AfterReplyType
     DEF CommitDone, RebroadcastDone, FinishBroadcast, Transition, Moved, RowOf, Awaiting
<1>6. ASSUME NEW s \in Sessions, DiscardCancel(s) PROVE Goal
  BY <1>0, <1>6, <1>r DEF DiscardCancel, Moved, RowOf
<1>7. ASSUME NEW s \in Sessions, TrackAdvance(s) PROVE Goal
  <2> DEFINE o == job[s].id  from == job[s].from
  <2>1. o \in Ids
    BY <1>7 DEF TrackAdvance, LockInv
  <2>2. PICK st, hash : /\ Transition(o, from, Moved(row[o], st, hash))
                        /\ \/ Included(o) # {} /\ st \in IncludedAs
                           \/ st = "submitted"
                           \/ from = "settling" /\ st = "settled"
    BY <1>7 DEF TrackAdvance
  <2>3. row[o].st = from => At(Moved(row[o], st, hash), o)
    BY <1>0, <2>1, <2>2, OutcomesAssumption DEF Moved, RowOf
  <2> HIDE DEF At
  <2> QED BY <1>0, <1>r, <2>1, <2>2, <2>3 DEF Transition
<1>8. ASSUME NEW s \in Sessions, NEW i \in Ids, Reconcile(s, i) PROVE Goal
  <2>1. PICK w \in Reconciled(i) : row' = [row EXCEPT ![i] = w]
    BY <1>8 DEF Reconcile
  <2>2. At(w, i)
    BY <1>0, <2>1 DEF Reconciled, RowOf, HasRow
  <2> QED BY <1>0, <1>r, <2>1, <2>2
<1>9. ASSUME row' = row PROVE Goal
  BY <1>0, <1>9
<1> HIDE DEF Goal
<1> QED BY <1>q, <1>1, <1>2, <1>3, <1>4, <1>5, <1>6, <1>7, <1>8, <1>9, RowFrame DEF Goal

\* No step cancels or forgets a signed spend (NoSignedSpendIsCancelled, step by step).
LEMMA SignedStays ==
  ASSUME SignBindsReview, IInv, SignedNeverCancelled, [Next]_vars PROVE SignedNeverCancelled'
<1> SUFFICES ASSUME NEW i \in Ids, payload'[i] # {} PROVE row'[i].st \notin {"none", "cancelled"}
  BY DEF SignedNeverCancelled, Signed
<1>1. CASE payload[i] # {}
  BY <1>1, SignedRowStep DEF IInv, SignedNeverCancelled, Signed
<1>2. CASE payload[i] = {}
  <2>1. row'[i].st = "prepared"
    BY <1>2, FirstSignature DEF IInv
  <2> QED BY <2>1
<1> QED BY <1>1, <1>2

-----------------------------------------------------------------------------
(* The step. *)

\* Each stage of a spend's life, by what the stores, the node and the chain hold of it.
Sent(i) == \E c \in sent : c.id = i
LifeFacts == \A i \in Ids :
  /\ Included(i) # {} => Sent(i) /\ Life(i) = "included"
  /\ Included(i) = {} /\ Sent(i) => Life(i) = "sent"
  /\ Sent(i) => Signed(i)
  /\ ~Sent(i) /\ Signed(i) => Life(i) = "signed"
  /\ ~Signed(i) /\ resv[i] = "reserved" => Life(i) = "review"
  /\ ~Signed(i) /\ resv[i] # "reserved" => Life(i) = "free"

\* The stages follow one another: nothing is sent unsigned, nor included unsent.
LEMMA LifeIs == IInv => LifeFacts
<1> SUFFICES ASSUME IInv PROVE LifeFacts
  OBVIOUS
<1>1. \A i \in Ids : Included(i) # {} => Sent(i)
  BY DEF IInv, MinedInv, Included, Sent
<1>2. \A i \in Ids : Sent(i) => Signed(i)
  BY DEF IInv, SentIsJournalled, RowInv, Signed, Sent
<1> QED BY <1>1, <1>2 DEF LifeFacts, Life, Sent

\* The same of the next state.
LEMMA LifeIsNext == IInv' => LifeFacts'
BY LifeIs, PTL

\* What the journal's status says of it.
LEMMA WordIs ==
  \A i \in Ids : row[i].st \in Statuses \cup {"none"} =>
    /\ row[i].st = "none" => Word(i) = "nothing"
    /\ row[i].st = "prepared" => Word(i) = "waiting"
    /\ row[i].st = "cancelled" => Word(i) = "cancelled"
    /\ row[i].st \in Awaiting \cup {"settling"} => Word(i) = "signed"
    /\ row[i].st \in {"confirmed", "failed", "settled"} => Word(i) = "concluded"
BY DEF Word, Statuses, Open, Terminal, Awaiting

\* A signed spend that is neither sent nor mined any further keeps its stage.
LEMMA StageKept ==
  ASSUME LifeFacts, LifeFacts', NEW o \in Ids, Signed(o), Signed(o)',
         Sent(o)' <=> Sent(o), Included(o)' = Included(o)
  PROVE  Life(o)' = Life(o)
<1>1. CASE ~Sent(o)
  BY <1>1 DEF LifeFacts
<1>2. CASE Sent(o) /\ Included(o) # {}
  BY <1>2 DEF LifeFacts
<1>3. CASE Sent(o) /\ Included(o) = {}
  <2>1. Sent(o)' /\ Included(o)' = {}
    BY <1>3
  <2>2. Life(o)' = "sent"
    BY <2>1 DEF LifeFacts
  <2> QED BY <1>3, <2>2 DEF LifeFacts
<1> QED BY <1>1, <1>2, <1>3

\* One spend moves on: the others keep their stage and the journal its words.
LEMMA Moves ==
  ASSUME row' = row, NEW o \in Ids, NEW l, Life(o)' = l, \A i \in Ids \ {o} : Life(i)' = Life(i)
  PROVE  Promise!Becomes(o, l)
<1>1. \A i \in Ids : Word(i)' = Word(i)
  BY DEF Word
<1> QED BY <1>1 DEF Promise!Becomes

\* The journal says something else of one spend: all keep their stage.
LEMMA Reports ==
  ASSUME row \in [Ids -> Rows], row' \in [Ids -> Rows], NEW o \in Ids, NEW w, Word(o)' = w,
         \A i \in Ids \ {o} : row'[i] = row[i], \A i \in Ids : Life(i)' = Life(i)
  PROVE  Promise!Says(o, w)
<1>1. \A i \in Ids \ {o} : Word(i)' = Word(i)
  BY DEF Word
<1> QED BY <1>1 DEF Promise!Says

\* A step that touches neither store, nor node, nor chain keeps every spend's stage.
LEMMA LifeKept ==
  ASSUME resv' = resv, payload' = payload, sent' = sent, mined' = mined
  PROVE  \A i \in Ids : Life(i)' = Life(i)
BY DEF Life, Included, Signed

\* What the promise sees of a step.
Promised == Promise!Next \/ UNCHANGED <<[i \in Ids |-> Life(i)], [i \in Ids |-> Word(i)]>>

\* Reopening, reserving, rejecting, discarding: a spend is claimed or released, or nothing.
LEMMA ClaimMoves ==
  ASSUME PromiseInv, IInv', NEW s \in Sessions,
         PrepareLock(s) \/ PrepareReserve(s) \/ PrepareReject(s) \/ DiscardRelease(s)
  PROVE  Promised
<1> USE DEF PromiseInv, IInv, TypeOK
<1>0. PICK o \in Ids : o = job[s].id
  BY DEF PrepareLock, PrepareReserve, PrepareReject, DiscardRelease, LockInv
<1>1. /\ payload' = payload /\ sent' = sent /\ mined' = mined /\ row' = row
      /\ \A i \in Ids \ {o} : resv'[i] = resv[i]
  BY <1>0 DEF PrepareLock, PrepareReserve, PrepareReject, DiscardRelease, node
<1>2. \A i \in Ids \ {o} : Life(i)' = Life(i)
  BY <1>1 DEF Life, Included, Signed
<1>3. CASE resv'[o] = resv[o]
  <2>1. \A i \in Ids : Life(i)' = Life(i) /\ Word(i)' = Word(i)
    BY <1>1, <1>3 DEF Life, Included, Signed, Word
  <2> QED BY <2>1 DEF Promised
<1>4. \/ resv'[o] = resv[o]
      \/ resv[o] \in {"none", "released"} /\ resv'[o] = "reserved"
      \/ resv[o] = "reserved" /\ resv'[o] = "released"
  <2>1. CASE PrepareLock(s)
    BY <1>0, <1>1, <2>1 DEF PrepareLock
  <2>2. CASE PrepareReserve(s)
    BY <1>0, <1>1, <2>2 DEF PrepareReserve, JobInv, JobAt
  <2>3. CASE PrepareReject(s)
    BY <1>0, <1>1, <2>3 DEF PrepareReject
  <2>4. CASE DiscardRelease(s)
    BY <1>0, <1>1, <2>4 DEF DiscardRelease
  <2> QED BY <2>1, <2>2, <2>3, <2>4
<1>5. LifeFacts /\ LifeFacts'
  BY LifeIs, LifeIsNext
<1>6. CASE resv[o] \in {"none", "released"} /\ resv'[o] = "reserved"
  <2>1. ~Signed(o) /\ Signed(o)' = Signed(o)
    BY <1>1, <1>6 DEF ClaimInv, Signed
  <2>2. Life(o) = "free" /\ Life(o)' = "review"
    BY <1>1, <1>5, <1>6, <2>1 DEF LifeFacts
  <2>3. Promise!Claim(o)
    BY <1>1, <1>2, <2>2, Moves DEF Promise!Claim
  <2> QED BY <1>1, <2>3 DEF Promised, Promise!Next
<1>7. CASE resv[o] = "reserved" /\ resv'[o] = "released"
  <2>1. ~Signed(o) /\ Signed(o)' = Signed(o)
    BY <1>1, <1>7 DEF ClaimInv, Signed
  <2>2. Life(o) = "review" /\ Life(o)' = "free"
    BY <1>1, <1>5, <1>7, <2>1 DEF LifeFacts
  <2>3. Promise!Release(o)
    BY <1>1, <1>2, <2>2, Moves DEF Promise!Release
  <2> QED BY <1>1, <2>3 DEF Promised, Promise!Next
<1> QED BY <1>3, <1>4, <1>6, <1>7

\* Signing: the first signature moves the spend on, over a row that waits; a replacement's, no.
LEMMA SignMoves ==
  ASSUME SignBindsReview, PromiseInv, IInv', [Next]_vars, NEW s \in Sessions, CommitSign(s)
  PROVE  Promised
<1> USE DEF PromiseInv, IInv, TypeOK
<1>0. PICK o \in Ids : o = job[s].id
  BY DEF CommitSign, LockInv
<1>1. /\ sent' = sent /\ mined' = mined /\ row' = row /\ payload'[o] # {} /\ Signable(job[s])
      /\ \A i \in Ids \ {o} : payload'[i] = payload[i] /\ resv'[i] = resv[i]
  BY <1>0 DEF CommitSign, node
<1>2. \A i \in Ids \ {o} : Life(i)' = Life(i)
  BY <1>1 DEF Life, Included, Signed
<1>3. LifeFacts /\ LifeFacts'
  BY LifeIs, LifeIsNext
<1>4. (Sent(o)' <=> Sent(o)) /\ Included(o)' = Included(o) /\ Signed(o)'
  BY <1>1 DEF Sent, Included, Signed
<1>5. CASE payload[o] # {}
  <2>1. Signed(o)
    BY <1>5 DEF Signed
  <2>2. Life(o)' = Life(o)
    BY <1>3, <1>4, <2>1, StageKept
  <2>3. \A i \in Ids : Life(i)' = Life(i) /\ Word(i)' = Word(i)
    BY <1>1, <1>2, <2>2 DEF Word
  <2> QED BY <2>3 DEF Promised
<1>6. CASE payload[o] = {}
  <2>1. row[o].st = "prepared" /\ job[s].k = 0
    <3>1. PICK t \in Sessions : CommitSign(t) /\ job[t].id = o /\ job[t].k = 0 /\ row'[o].st = "prepared"
      BY <1>1, <1>6, FirstSignature
    <3>2. s = t
      BY <1>0, <3>1 DEF CommitSign, LockInv, HoldsOp
    <3> QED BY <1>1, <3>1, <3>2
  <2>2. resv[o] = "reserved" /\ ~Signed(o)
    BY <1>0, <1>1, <1>6, <2>1 DEF Signable, Signed
  <2>3. Life(o) = "review" /\ Life(o)' = "signed"
    BY <1>3, <1>4, <2>2 DEF LifeFacts
  <2>4. Word(o) = "waiting"
    BY <2>1, WordIs DEF Statuses, Open
  <2>5. Promise!Sign(o)
    BY <1>1, <1>2, <2>3, <2>4, Moves DEF Promise!Sign
  <2> QED BY <2>5 DEF Promised, Promise!Next
<1> QED BY <1>5, <1>6

\* Broadcasting: what a node accepts for the first time, the journal already calls signed.
LEMMA SendMoves ==
  ASSUME PromiseInv, IInv', NEW s \in Sessions, CommitSend(s) \/ RebroadcastSend(s)
  PROVE  Promised
<1> USE DEF PromiseInv, IInv
<1>0. PICK o \in Ids : o = job[s].id
  BY DEF CommitSend, RebroadcastSend, LockInv
<1> DEFINE c == Cand(o, job[s].rev, job[s].k)
<1>1. /\ resv' = resv /\ payload' = payload /\ mined' = mined /\ row' = row
      /\ sent' = sent \/ sent' = sent \cup {c}
  BY <1>0 DEF CommitSend, RebroadcastSend, Broadcast, sdk
<1>2. c \in row[o].known /\ c.id = o
  BY <1>0 DEF CommitSend, RebroadcastSend, JobInv, JobAt, Cand
<1> HIDE DEF c
<1>3. LifeFacts /\ LifeFacts'
  BY LifeIs, LifeIsNext
<1>4. Signed(o) /\ row[o].st \notin {"none", "cancelled", "prepared"}
  BY <1>2 DEF RowInv, SignedNeverCancelled, Signed, OutcomeInv
<1>5. \A i \in Ids : /\ Signed(i)' = Signed(i) /\ Included(i)' = Included(i) /\ Word(i)' = Word(i)
                     /\ i # o => Life(i)' = Life(i)
  BY <1>1, <1>2 DEF Life, Signed, Included, Word
<1>6. CASE ~Sent(o) /\ sent' # sent
  <2>1. Included(o) = {} /\ Sent(o)'
    BY <1>1, <1>2, <1>3, <1>6 DEF LifeFacts, Sent
  <2>2. Life(o) = "signed" /\ Life(o)' = "sent"
    BY <1>3, <1>4, <1>5, <1>6, <2>1 DEF LifeFacts
  <2>3. row[o].st \in Awaiting
    <3>1. row[o].st \in Statuses \cup {"none"} /\ row[o].st \notin InBlock
      BY <2>1, RowFields DEF TypeOK, OutcomeInv
    <3> QED BY <1>4, <3>1 DEF Statuses, Open, Terminal, Awaiting, InBlock
  <2>4. Word(o) = "signed"
    BY <2>3, WordIs DEF Awaiting, Statuses, Open
  <2>5. Promise!Send(o)
    BY <1>1, <1>5, <2>2, <2>4, Moves DEF Promise!Send
  <2> QED BY <2>5 DEF Promised, Promise!Next
<1>7. CASE Sent(o) \/ sent' = sent
  <2>1. Sent(o)' = Sent(o)
    BY <1>1, <1>2, <1>7 DEF Sent
  <2>2. Life(o)' = Life(o)
    BY <1>3, <1>4, <1>5, <2>1 DEF LifeFacts
  <2>3. \A i \in Ids : Life(i)' = Life(i)
    BY <1>5, <2>2
  <2> QED BY <1>5, <2>3 DEF Promised
<1> QED BY <1>6, <1>7

\* A block takes what was sent.
LEMMA MineMoves ==
  ASSUME PromiseInv, IInv', [Next]_vars, NEW c \in sent, Mine(c) PROVE Promised
<1> USE DEF PromiseInv, IInv
<1>0. PICK o \in Ids : o = c.id
  BY CandFields DEF TypeOK
<1>1. /\ resv' = resv /\ payload' = payload /\ row' = row /\ sent' = sent
      /\ mined' = Append(mined, c) /\ mined \in Seq(Candidates) /\ c \in Candidates
  BY DEF Mine, sdk, TypeOK
<1>2. Len(mined') = Len(mined) + 1 /\ mined'[Len(mined) + 1] = c
      /\ \A n \in 1..Len(mined) : mined'[n] = mined[n]
  BY <1>1
<1>3. /\ \A i \in Ids \ {o} : Included(i)' = Included(i)
      /\ Included(o)' # {}
  BY <1>0, <1>1, <1>2 DEF Included
<1>4. LifeFacts /\ LifeFacts'
  BY LifeIs, LifeIsNext
<1>5. \A i \in Ids \ {o} : Life(i)' = Life(i)
  BY <1>1, <1>3 DEF Life, Signed
<1>6. Sent(o) /\ Life(o)' = "included"
  BY <1>0, <1>3, <1>4 DEF LifeFacts, Sent
<1>7. CASE Included(o) = {}
  <2>1. Life(o) = "sent"
    BY <1>4, <1>6, <1>7 DEF LifeFacts
  <2>2. Promise!Include(o)
    BY <1>1, <1>5, <1>6, <2>1, Moves DEF Promise!Include
  <2> QED BY <2>2 DEF Promised, Promise!Next
<1>8. CASE Included(o) # {}
  <2>1. \A i \in Ids : Life(i)' = Life(i) /\ Word(i)' = Word(i)
    BY <1>1, <1>4, <1>5, <1>6, <1>8 DEF LifeFacts, Word
  <2> QED BY <2>1 DEF Promised
<1> QED BY <1>7, <1>8

-----------------------------------------------------------------------------
(* The journal's steps. *)

\* A step of one row, by what it makes of it.
RowMoves(o, w) == /\ row' = [row EXCEPT ![o] = w]
                  /\ \A i \in Ids : Life(i)' = Life(i)

\* A row that says the same in other words.
LEMMA SaysTheSame ==
  ASSUME row \in [Ids -> Rows], NEW o \in Ids, NEW w, RowMoves(o, w),
         \/ w.st = row[o].st
         \/ w.st \in Awaiting \cup {"settling"} /\ row[o].st \in Awaiting \cup {"settling"}
  PROVE  Promised
<1>1. \A i \in Ids \ {o} : Word(i)' = Word(i)
  BY DEF RowMoves, Word
<1>2. row'[o].st = w.st
  BY DEF RowMoves
<1>3. Word(o)' = Word(o)
  <2>1. CASE w.st = row[o].st
    BY <1>2, <2>1 DEF Word
  <2>2. CASE w.st \in Awaiting \cup {"settling"} /\ row[o].st \in Awaiting \cup {"settling"}
    BY <1>2, <2>2 DEF Word, Awaiting
  <2> QED BY <2>1, <2>2
<1>4. \A i \in Ids : Life(i)' = Life(i) /\ Word(i)' = Word(i)
  BY <1>1, <1>3 DEF RowMoves
<1> QED BY <1>4 DEF Promised

\* A review is journalled, makes room for another, or is cancelled, while nothing is signed.
LEMMA UnsignedSays ==
  ASSUME IInv, NEW o \in Ids, NEW w, RowMoves(o, w), ~Signed(o),
         w.st \in {"none", "prepared"} => resv[o] = "reserved",
         w.st \in {"none", "prepared", "cancelled"}
  PROVE  Promised
<1>1. row \in [Ids -> Rows] /\ row'[o].st = w.st /\ \A i \in Ids \ {o} : row'[i] = row[i]
  BY DEF IInv, TypeOK, RowMoves
<1>2. row[o].st \in {"none", "prepared", "cancelled"}
  BY DEF IInv, RowInv, Signed
<1>3. Word(o) \in Promise!Unsaid
  BY <1>2, WordIs DEF Statuses, Open, Terminal, Promise!Unsaid
<1>4. Life(o) = IF resv[o] = "reserved" THEN "review" ELSE "free"
  BY LifeIs DEF LifeFacts
<1>5. /\ w.st = "none" => Word(o)' = "nothing"
      /\ w.st = "prepared" => Word(o)' = "waiting"
      /\ w.st = "cancelled" => Word(o)' = "cancelled"
  BY <1>1 DEF Word, Awaiting
<1>6. ASSUME NEW v, Word(o)' = v PROVE Promise!Says(o, v)
  <2>1. \A i \in Ids \ {o} : Word(i)' = Word(i)
    BY <1>1 DEF Word
  <2> QED BY <1>6, <2>1 DEF RowMoves, Promise!Says
<1>7. Promise!Erase(o) \/ Promise!Journal(o) \/ Promise!Cancel(o)
  BY <1>3, <1>4, <1>5, <1>6 DEF Promise!Erase, Promise!Journal, Promise!Cancel
<1> QED BY <1>7 DEF Promised, Promise!Next

\* A signature reaches the journal, or a block does.
LEMMA SignedSays ==
  ASSUME IInv, NEW o \in Ids, NEW w, RowMoves(o, w), Signed(o),
         \/ row[o].st = "prepared" /\ w.st \in Awaiting
         \/ /\ row[o].st \in Awaiting \cup {"settling"} /\ Included(o) # {}
            /\ w.st \in {"confirmed", "failed", "settled"}
  PROVE  Promised
<1>1. row \in [Ids -> Rows] /\ row'[o].st = w.st /\ \A i \in Ids \ {o} : row'[i] = row[i]
  BY DEF IInv, TypeOK, RowMoves
<1>2. ASSUME NEW v, Word(o)' = v PROVE Promise!Says(o, v)
  <2>1. \A i \in Ids \ {o} : Word(i)' = Word(i)
    BY <1>1 DEF Word
  <2> QED BY <1>2, <2>1 DEF RowMoves, Promise!Says
<1>3. LifeFacts
  BY LifeIs
<1>4. CASE row[o].st = "prepared" /\ w.st \in Awaiting
  <2>1. Word(o) = "waiting" /\ Word(o)' = "signed"
    BY <1>1, <1>4 DEF Word, Awaiting
  <2>2. Life(o) \in {"signed", "sent", "included"}
    BY <1>3 DEF LifeFacts
  <2>3. Promise!Notice(o)
    BY <1>2, <2>1, <2>2 DEF Promise!Notice
  <2> QED BY <2>3 DEF Promised, Promise!Next
<1>5. CASE /\ row[o].st \in Awaiting \cup {"settling"} /\ Included(o) # {}
           /\ w.st \in {"confirmed", "failed", "settled"}
  <2>1. Word(o) = "signed" /\ Word(o)' = "concluded"
    BY <1>1, <1>5 DEF Word, Awaiting
  <2>2. Life(o) = "included"
    BY <1>3, <1>5 DEF LifeFacts
  <2>3. Promise!Conclude(o)
    BY <1>2, <2>1, <2>2 DEF Promise!Conclude
  <2> QED BY <2>3 DEF Promised, Promise!Next
<1> QED BY <1>4, <1>5

\* Preparing and rejecting: the row of an unsigned reservation comes, goes or is cancelled.
LEMMA ReviewRows ==
  ASSUME PromiseInv, NEW s \in Sessions, PrepareClear(s) \/ PrepareFinish(s) \/ DiscardCancel(s)
  PROVE  Promised
<1> USE DEF PromiseInv, IInv
<1>0. PICK o \in Ids : o = job[s].id
  BY DEF PrepareClear, PrepareFinish, DiscardCancel, LockInv
<1>1. /\ ~Signed(o) /\ row \in [Ids -> Rows]
      /\ ~DiscardCancel(s) => resv[o] = "reserved"
  BY <1>0 DEF PrepareClear, PrepareFinish, DiscardCancel, JobInv, JobAt, Preparing, ClaimInv,
     Signed, TypeOK
<1>2. \A i \in Ids : Life(i)' = Life(i)
  BY LifeKept DEF PrepareClear, PrepareFinish, DiscardCancel, sdk, node
<1>3. ASSUME row' = row PROVE Promised
  BY <1>2, <1>3 DEF Promised, Word
<1>4. CASE PrepareClear(s)
  <2>1. row' = row \/ RowMoves(o, NoRow)
    BY <1>0, <1>2, <1>4 DEF PrepareClear, RowMoves
  <2>2. NoRow.st = "none" /\ resv[o] = "reserved"
    BY <1>0, <1>4 DEF NoRow, RowOf, PrepareClear, JobInv, JobAt, Preparing
  <2> QED BY <1>1, <1>3, <2>1, <2>2, UnsignedSays
<1>5. CASE PrepareFinish(s)
  <2> DEFINE w == RowOf("prepared", job[s].rev, NoHash, {}, 0)
  <2>1. RowMoves(o, w) /\ w.st = "prepared" /\ resv[o] = "reserved"
    BY <1>0, <1>2, <1>5 DEF PrepareFinish, RowMoves, RowOf, JobInv, JobAt, Preparing
  <2> QED BY <1>1, <2>1, UnsignedSays
<1>6. CASE DiscardCancel(s)
  <2> DEFINE w == Moved(row[o], "cancelled", row[o].hash)
  <2>1. row' = row \/ RowMoves(o, w)
    BY <1>0, <1>2, <1>6 DEF DiscardCancel, RowMoves
  <2>2. w.st = "cancelled"
    BY DEF Moved, RowOf
  <2> QED BY <1>1, <1>3, <2>1, <2>2, UnsignedSays
<1> QED BY <1>4, <1>5, <1>6

\* Approving and replacing: a fee, a signature, an answer.
LEMMA SpendRows ==
  ASSUME PromiseInv, NEW s \in Sessions,
         \/ SpeedUpFinish(s) \/ CommitMark(s) \/ CommitRecord(s)
         \/ CommitDone(s) \/ RebroadcastDone(s)
  PROVE  Promised
<1> USE DEF PromiseInv, IInv
<1>0. PICK o \in Ids : o = job[s].id
  BY DEF SpeedUpFinish, CommitMark, CommitRecord, CommitDone, RebroadcastDone, LockInv
<1>1. row \in [Ids -> Rows]
  BY DEF TypeOK
<1>2. \A i \in Ids : Life(i)' = Life(i)
  BY LifeKept DEF SpeedUpFinish, CommitMark, CommitRecord, CommitDone, RebroadcastDone, sdk, node
<1>3. ASSUME row' = row PROVE Promised
  BY <1>2, <1>3 DEF Promised, Word
<1>4. CASE SpeedUpFinish(s)
  <2> DEFINE fee == IF row[o].fee > job[s].k THEN row[o].fee ELSE job[s].k
             w == RowOf(row[o].st, row[o].rev, row[o].hash, row[o].known, fee)
  <2>1. row' = [row EXCEPT ![o] = w] /\ w.st = row[o].st
    BY <1>0, <1>4 DEF SpeedUpFinish, RowOf
  <2> HIDE DEF w
  <2> QED BY <1>1, <1>2, <2>1, SaysTheSame DEF RowMoves
<1>5. CASE CommitMark(s)
  <2> DEFINE w == Marked(row[o], "signed", Cand(o, job[s].rev, job[s].k))
  <2>1. RowMoves(o, w) /\ w.st = "signed" /\ row[o].st = "prepared"
    BY <1>0, <1>2, <1>5 DEF CommitMark, Transition, Marked, RowOf, RowMoves
  <2>2. Signed(o)
    BY <1>0, <1>5 DEF CommitMark, JobInv, JobAt, Signed
  <2> QED BY <2>1, <2>2, SignedSays DEF Awaiting
<1>6. CASE CommitRecord(s)
  <2> DEFINE c == Cand(o, job[s].rev, job[s].k)
             v == RowOf(row[o].st, row[o].rev, row[o].hash, row[o].known \cup {c}, row[o].fee)
             u == Marked(row[o], "submitted", c)
  <2>0. /\ \/ row' = [row EXCEPT ![o] = v]
           \/ row[o].st \notin Terminal \cup {"settling"} /\ row' = [row EXCEPT ![o] = u]
        /\ v.st = row[o].st /\ u.st = "submitted"
    BY <1>0, <1>6 DEF CommitRecord, Marked, RowOf
  <2> HIDE DEF u, v
  <2>1. PICK w : /\ row' = [row EXCEPT ![o] = w]
                 /\ \/ w.st = row[o].st
                    \/ w.st = "submitted" /\ row[o].st \notin Terminal \cup {"settling"}
    BY <2>0
  <2>2. Signed(o) /\ row[o].st \in Statuses
    BY <1>0, <1>1, <1>6, RowFields DEF CommitRecord, JobInv, JobAt, Signed, HasRow
  <2>3. CASE row[o].st = "prepared" /\ w.st = "submitted"
    BY <1>2, <2>1, <2>2, <2>3, SignedSays DEF RowMoves, Awaiting
  <2>4. CASE row[o].st # "prepared" \/ w.st # "submitted"
    <3>1. \/ w.st = row[o].st
          \/ w.st \in Awaiting /\ row[o].st \in Awaiting
      BY <2>1, <2>2, <2>4 DEF Statuses, Open, Awaiting
    <3> QED BY <1>1, <1>2, <2>1, <3>1, SaysTheSame DEF RowMoves
  <2> QED BY <2>3, <2>4
<1>7. CASE CommitDone(s) \/ RebroadcastDone(s)
  <2>1. PICK from, w :
           from \in Awaiting \cup {"settling"} /\ Transition(o, from, w) /\ w.st \in Awaiting
    BY <1>0, <1>7, AfterReplyType
       DEF CommitDone, RebroadcastDone, FinishBroadcast, Moved, RowOf, JobInv, JobAt, Awaiting, Open
  <2>2. row' = row \/ (row[o].st = from /\ RowMoves(o, w))
    BY <1>2, <2>1 DEF Transition, RowMoves
  <2> QED BY <1>1, <1>3, <2>1, <2>2, SaysTheSame
<1> QED BY <1>4, <1>5, <1>6, <1>7

\* reconcile_custody: a claim without a row waits again, a signature the journal missed is noticed.
LEMMA RecoveredRows ==
  ASSUME PromiseInv, NEW s \in Sessions, NEW o \in Ids, Reconcile(s, o) PROVE Promised
<1> USE DEF PromiseInv, IInv
<1>1. row \in [Ids -> Rows]
  BY DEF TypeOK
<1>2. \A i \in Ids : Life(i)' = Life(i)
  BY LifeKept DEF Reconcile, sdk, node
<1>3. PICK w \in Reconciled(o) : RowMoves(o, w)
  BY <1>2 DEF Reconcile, RowMoves
<1>4. CASE payload[o] = {}
  <2>1. w = row[o] \/ (w.st = "prepared" /\ ~HasRow(o))
    BY <1>3, <1>4 DEF Reconciled, RowOf
  <2>2. CASE w = row[o]
    BY <1>1, <1>3, <2>2, SaysTheSame
  <2>3. CASE w.st = "prepared" /\ ~HasRow(o)
    <3>1. resv[o] = "reserved" /\ ~Signed(o)
      BY <1>4, <2>3 DEF Reconcile, ClaimInv, Signed
    <3> QED BY <1>3, <2>3, <3>1, UnsignedSays
  <2> QED BY <2>1, <2>2, <2>3
<1>5. CASE payload[o] # {}
  <2>1. Signed(o) /\ HasRow(o)
    BY <1>5 DEF SignedNeverCancelled, Signed, HasRow
  <2>2. w.st = IF row[o].st = "prepared" THEN "signed" ELSE row[o].st
    BY <1>3, <1>5, <2>1 DEF Reconciled, RowOf
  <2>3. CASE row[o].st = "prepared"
    BY <1>3, <2>1, <2>2, <2>3, SignedSays DEF Awaiting
  <2>4. CASE row[o].st # "prepared"
    BY <1>1, <1>3, <2>2, <2>4, SaysTheSame
  <2> QED BY <2>3, <2>4
<1> QED BY <1>4, <1>5

\* reconcile_ops: the tracker concludes what a block has, or learns that a node has it.
LEMMA TrackedRows ==
  ASSUME PromiseInv, IInv', NEW s \in Sessions, TrackAdvance(s) PROVE Promised
<1> USE DEF PromiseInv, IInv
<1>0. PICK o \in Ids : o = job[s].id
  BY DEF TrackAdvance, LockInv
<1>1. row \in [Ids -> Rows] /\ job[s].from \in Awaiting \cup {"settling"}
  BY DEF TypeOK, TrackAdvance, JobInv, JobAt, Open, Awaiting
<1>2. \A i \in Ids : Life(i)' = Life(i)
  <2>1. /\ payload' = payload /\ sent' = sent /\ mined' = mined
        /\ \/ resv' = resv
           \/ Included(o) # {} /\ resv' = [resv EXCEPT ![o] = "confirmed"]
    BY <1>0 DEF TrackAdvance, node
  <2>2. ASSUME NEW i \in Ids, i # o \/ resv' = resv PROVE Life(i)' = Life(i)
    BY <2>1, <2>2 DEF Life, Included, Signed, TypeOK
  <2>3. ASSUME Included(o) # {} PROVE Life(o)' = Life(o)
    <3>1. Included(o)' # {}
      BY <2>1, <2>3 DEF Included
    <3>2. Life(o) = "included" /\ Life(o)' = "included"
      BY <2>3, <3>1, LifeIs, LifeIsNext DEF LifeFacts
    <3> QED BY <3>2
  <2> QED BY <2>1, <2>2, <2>3
<1>3. PICK st, hash : /\ Transition(o, job[s].from, Moved(row[o], st, hash))
                      /\ \/ Included(o) # {} /\ st \in IncludedAs
                         \/ st = "submitted"
                         \/ job[s].from = "settling" /\ st = "settled"
  BY <1>0 DEF TrackAdvance
<1>4. CASE row[o].st # job[s].from
  BY <1>2, <1>3, <1>4 DEF Transition, Promised, Word
<1>5. CASE row[o].st = job[s].from
  <2> DEFINE w == Moved(row[o], st, hash)
  <2>1. RowMoves(o, w) /\ w.st = st /\ row[o].st \in Awaiting \cup {"settling"}
    BY <1>1, <1>2, <1>3, <1>5 DEF Transition, RowMoves, Moved, RowOf
  <2>2. Signed(o)
    BY <2>1 DEF RowInv, Signed, Awaiting
  <2>3. CASE st \in Awaiting \cup {"settling"}
    BY <1>1, <2>1, <2>3, SaysTheSame
  <2>4. CASE st \notin Awaiting \cup {"settling"}
    <3>1. Included(o) # {} /\ st \in {"confirmed", "failed", "settled"}
      BY <1>3, <1>5, <2>4, OutcomesAssumption DEF Awaiting, OutcomeInv, InBlock
    <3> QED BY <2>1, <2>2, <3>1, SignedSays
  <2> QED BY <2>3, <2>4
<1> QED BY <1>4, <1>5

-----------------------------------------------------------------------------
(* The theorem. *)

\* Every step of every call, crash and block is a step the promise allows, or none it sees.
THEOREM PromiseStep == SignBindsReview /\ PromiseInv /\ IInv' /\ [Next]_vars => Promised
<1> SUFFICES ASSUME SignBindsReview, PromiseInv, IInv', [Next]_vars PROVE Promised
  OBVIOUS
<1>1. ASSUME UNCHANGED <<resv, payload, sent, mined, row>> PROVE Promised
  <2>1. \A i \in Ids : Life(i)' = Life(i) /\ Word(i)' = Word(i)
    BY <1>1, LifeKept DEF Word
  <2> QED BY <2>1 DEF Promised
<1> QED BY <1>1, CustodyFrame, RowFrame, NodeFrame, ClaimMoves, SignMoves, SendMoves, MineMoves,
           ReviewRows, SpendRows, RecoveredRows, TrackedRows

\* tx.rs, commitments.rs, recovery.rs, track.rs together keep what a spend is promised, for
\* any number of sessions, reservations, reviews and fee bumps, when the SDK signs for a
\* reservation only what it was last prepared for.
THEOREM PromiseKept == SignBindsReview => (Spec => KeepsThePromise)
<1> SUFFICES ASSUME SignBindsReview PROVE Spec => KeepsThePromise
  OBVIOUS
<1>1. Init => PromiseInv /\ Promise!Init
  <2> SUFFICES ASSUME Init PROVE PromiseInv /\ Promise!Init
    OBVIOUS
  <2>1. IInv
    BY Initially
  <2>2. SignedNeverCancelled /\ OutcomeInv
    BY DEF Init, SignedNeverCancelled, Signed, OutcomeInv, InBlock, NoRow, RowOf
  <2>3. \A i \in Ids : Life(i) = "free"
    BY <2>1, LifeIs DEF LifeFacts, Init, Signed
  <2>4. \A i \in Ids : Word(i) = "nothing"
    BY DEF Init, NoRow, RowOf, Word, Awaiting
  <2> QED BY <2>1, <2>2, <2>3, <2>4 DEF PromiseInv, Promise!Init
<1>2. PromiseInv /\ [Next]_vars => PromiseInv' /\ Promised
  <2> SUFFICES ASSUME PromiseInv, [Next]_vars PROVE PromiseInv' /\ Promised
    OBVIOUS
  <2>1. IInv' /\ OutcomeInv'
    BY Inductively, OutcomeStep DEF PromiseInv
  <2>2. SignedNeverCancelled'
    BY SignedStays DEF PromiseInv
  <2> QED BY <2>1, <2>2, PromiseStep DEF PromiseInv
<1>3. Promised => [Promise!Next]_<<[i \in Ids |-> Life(i)], [i \in Ids |-> Word(i)]>>
  BY DEF Promised
<1> QED BY <1>1, <1>2, <1>3, PTL DEF Spec, KeepsThePromise, Promise!Spec

-----------------------------------------------------------------------------
(* Sums over finite sets. *)

\* How a sum over S is computed: g is the sum of f over every subset of S.
Picked(s) == CHOOSE x \in s : TRUE
AddsUp(g, f, S) == g = [s \in SUBSET S |-> IF s = {} THEN 0 ELSE f[Picked(s)] + g[s \ {Picked(s)}]]
Total(f, S) == (CHOOSE g : AddsUp(g, f, S))[S]
Amounts(f, S) == IsFiniteSet(S) /\ \A x \in S : f[x] \in Nat

\* A set that has an element has the one chosen.
LEMMA AnyIn == ASSUME NEW s, s # {} PROVE Picked(s) \in s
BY DEF Picked

\* A set of naturals that is not empty has a least element.
LEMMA LeastOf == ASSUME NEW S \in SUBSET Nat, S # {} PROVE \E n \in S : \A m \in S : n <= m
<1>1. PICK R : R = OpToRel(<, Nat)
  OBVIOUS
<1>2. IsWellFoundedOn(R, Nat)
  BY <1>1, NatLessThanWellFounded
<1>3. PICK x \in S : \A y \in S : ~ (<<y, x>> \in R)
  BY <1>2, WFMin
<1>4. \A z, y \in Nat : z < y => <<z, y>> \in R
  BY <1>1 DEF OpToRel
<1>5. \A y \in S : ~(y < x)
  BY <1>3, <1>4
<1>6. \A y \in S : x <= y
  BY <1>5
<1> QED BY <1>6

\* Of some finite sets one is smallest: without any one of its elements it is none of them.
LEMMA Smallest ==
  ASSUME NEW Bad, Bad # {}, \A t \in Bad : IsFiniteSet(t)
  PROVE  \E t \in Bad : \A x \in t : t \ {x} \notin Bad
<1>1. PICK N : N = {Cardinality(t) : t \in Bad}
  OBVIOUS
<1>2. N \in SUBSET Nat /\ N # {}
  BY <1>1, FS_CardinalityType
<1>3. PICK n \in N : \A m \in N : n <= m
  BY <1>2, LeastOf
<1>4. PICK t \in Bad : Cardinality(t) = n
  BY <1>1, <1>3
<1>5. ASSUME NEW x \in t PROVE t \ {x} \notin Bad
  <2>1. IsFiniteSet(t)
    BY <1>4
  <2>2. Cardinality(t \ {x}) = Cardinality(t) - 1
    BY <2>1, <1>5, FS_RemoveElement
  <2>3. SUFFICES ASSUME t \ {x} \in Bad PROVE FALSE
    OBVIOUS
  <2>4. n <= n - 1 /\ n \in Nat
    BY <1>1, <1>2, <1>3, <1>4, <2>2, <2>3
  <2> QED BY <2>4
<1> QED BY <1>4, <1>5

\* Two ways to compute a sum agree wherever both apply.
LEMMA Agree ==
  ASSUME NEW f, NEW S, NEW T, NEW g, NEW h, AddsUp(g, f, S), AddsUp(h, f, T),
         NEW s \in SUBSET S, s \in SUBSET T, IsFiniteSet(s)
  PROVE  g[s] = h[s]
<1> SUFFICES ASSUME g[s] # h[s] PROVE FALSE
  OBVIOUS
<1>1. PICK Bad : Bad = {t \in SUBSET s : g[t] # h[t]}
  OBVIOUS
<1>2. Bad # {} /\ \A t \in Bad : IsFiniteSet(t)
  BY <1>1, FS_Subset
<1>3. PICK t \in Bad : \A x \in t : t \ {x} \notin Bad
  BY <1>2, Smallest
<1>4. /\ g[t] = IF t = {} THEN 0 ELSE f[Picked(t)] + g[t \ {Picked(t)}]
      /\ h[t] = IF t = {} THEN 0 ELSE f[Picked(t)] + h[t \ {Picked(t)}]
  <2>1. t \in SUBSET S /\ t \in SUBSET T
    BY <1>1, <1>3
  <2> QED BY <2>1 DEF AddsUp
<1>5. CASE t = {}
  BY <1>1, <1>3, <1>4, <1>5
<1>6. CASE t # {}
  <2>1. Picked(t) \in t
    BY <1>6, AnyIn
  <2>2. t \ {Picked(t)} \notin Bad /\ t \ {Picked(t)} \in SUBSET s
    BY <1>1, <1>3, <2>1
  <2>3. g[t \ {Picked(t)}] = h[t \ {Picked(t)}]
    BY <1>1, <2>2
  <2> QED BY <1>1, <1>3, <1>4, <1>6, <2>3
<1> QED BY <1>5, <1>6

\* Every finite set has a sum.
LEMMA SumExists == ASSUME NEW f, NEW S, IsFiniteSet(S) PROVE \E g : AddsUp(g, f, S)
<1> SUFFICES ASSUME ~ \E g : AddsUp(g, f, S) PROVE FALSE
  OBVIOUS
<1>1. PICK Bad : Bad = {T \in SUBSET S : ~ \E g : AddsUp(g, f, T)}
  OBVIOUS
<1>2. Bad # {} /\ \A T \in Bad : IsFiniteSet(T)
  BY <1>1, FS_Subset
<1>3. PICK T \in Bad : \A x \in T : T \ {x} \notin Bad
  BY <1>2, Smallest
<1> DEFINE At(t) == CHOOSE g : AddsUp(g, f, t)
           Less(t) == t \ {Picked(t)}
           G == [t \in SUBSET T |-> IF t = {} THEN 0 ELSE f[Picked(t)] + At(Less(t))[Less(t)]]
<1>4. ASSUME NEW x \in T, NEW t \in SUBSET (T \ {x}) PROVE AddsUp(At(t), f, t)
  <2>1. PICK g : AddsUp(g, f, T \ {x})
    BY <1>1, <1>3
  <2>2. AddsUp([u \in SUBSET t |-> g[u]], f, t)
    <3>1. ASSUME NEW u \in SUBSET t, u # {} PROVE g[u] = f[Picked(u)] + g[u \ {Picked(u)}]
      BY <2>1, <3>1, <1>4 DEF AddsUp
    <3>2. g[{}] = 0
      BY <2>1 DEF AddsUp
    <3>3. \A u \in SUBSET t : u \ {Picked(u)} \in SUBSET t
      OBVIOUS
    <3> QED BY <3>1, <3>2, <3>3 DEF AddsUp
  <2> QED BY <2>2
<1>5. ASSUME NEW t \in SUBSET T, t # {} PROVE G[Less(t)] = At(Less(t))[Less(t)]
  <2>1. PICK u : u = Less(t)
    OBVIOUS
  <2>2. Picked(t) \in t /\ Picked(t) \in T /\ u \in SUBSET (T \ {Picked(t)}) /\ u \in SUBSET T
    BY <1>5, <2>1, AnyIn
  <2>3. AddsUp(At(u), f, u)
    BY <1>4, <2>2
  <2>4. At(u)[u] = IF u = {} THEN 0 ELSE f[Picked(u)] + At(u)[Less(u)]
    BY <2>3 DEF AddsUp
  <2>5. G[u] = IF u = {} THEN 0 ELSE f[Picked(u)] + At(Less(u))[Less(u)]
    BY <2>2
  <2>6. CASE u # {}
    <3>1. Less(u) \in SUBSET (T \ {Picked(t)}) /\ Less(u) \in SUBSET u
      BY <2>2
    <3>2. AddsUp(At(Less(u)), f, Less(u))
      BY <1>4, <2>2, <3>1
    <3>3. IsFiniteSet(Less(u))
      BY <1>1, <1>3, <1>2, <3>1, <2>2, FS_Subset
    <3>4. PICK v : v = Less(u)
      OBVIOUS
    <3>5. At(u)[v] = At(v)[v]
      <4> HIDE DEF At, Less, G
      <4>1. AddsUp(At(u), f, u) /\ AddsUp(At(v), f, v) /\ v \in SUBSET u /\ v \in SUBSET v /\ IsFiniteSet(v)
        BY <2>3, <3>1, <3>2, <3>3, <3>4
      <4> QED BY <4>1, Agree
    <3> HIDE DEF At, Less, G
    <3> QED BY <2>1, <2>4, <2>5, <3>4, <3>5
  <2> HIDE DEF At, G, Less
  <2> QED BY <2>1, <2>4, <2>5, <2>6
<1>6. AddsUp(G, f, T)
  <2>1. ASSUME NEW t \in SUBSET T
        PROVE  G[t] = IF t = {} THEN 0 ELSE f[Picked(t)] + G[t \ {Picked(t)}]
    <3>1. G[t] = IF t = {} THEN 0 ELSE f[Picked(t)] + At(Less(t))[Less(t)]
      OBVIOUS
    <3>2. t # {} => G[Less(t)] = At(Less(t))[Less(t)]
      BY <1>5
    <3> HIDE DEF G, At
    <3> QED BY <3>1, <3>2
  <2>2. G = [t \in SUBSET T |-> G[t]]
    OBVIOUS
  <2> HIDE DEF G
  <2>3. [t \in SUBSET T |-> G[t]] = [t \in SUBSET T |-> IF t = {} THEN 0 ELSE f[Picked(t)] + G[t \ {Picked(t)}]]
    BY <2>1
  <2> QED BY <2>2, <2>3 DEF AddsUp
<1> HIDE DEF G
<1> QED BY <1>1, <1>3, <1>6

\* A sum is that of any one way to compute it; nothing sums up to zero.
LEMMA TotalIs ==
  ASSUME NEW f, NEW S, IsFiniteSet(S)
  PROVE  /\ \A g : AddsUp(g, f, S) => g[S] = Total(f, S)
         /\ S = {} => Total(f, S) = 0
         /\ S # {} => Total(f, S) = f[Picked(S)] + Total(f, S \ {Picked(S)})
<1>1. PICK h : h = CHOOSE g : AddsUp(g, f, S)
  OBVIOUS
<1>2. AddsUp(h, f, S) /\ Total(f, S) = h[S]
  BY <1>1, SumExists DEF Total
<1>3. ASSUME NEW g, AddsUp(g, f, S) PROVE g[S] = Total(f, S)
  <2>1. S \in SUBSET S
    OBVIOUS
  <2> QED BY <1>2, <1>3, <2>1, Agree
<1>4. h[S] = IF S = {} THEN 0 ELSE f[Picked(S)] + h[S \ {Picked(S)}]
  BY <1>2 DEF AddsUp
<1>5. ASSUME S # {} PROVE h[S \ {Picked(S)}] = Total(f, S \ {Picked(S)})
  <2>1. PICK T : T = S \ {Picked(S)}
    OBVIOUS
  <2>2. IsFiniteSet(T) /\ T \in SUBSET S /\ T \in SUBSET T
    BY <2>1, FS_Subset
  <2>3. PICK k : AddsUp(k, f, T) /\ Total(f, T) = k[T]
    BY <2>2, SumExists DEF Total
  <2>4. h[T] = k[T]
    BY <1>2, <2>2, <2>3, Agree
  <2> QED BY <2>1, <2>3, <2>4
<1> QED BY <1>2, <1>3, <1>4, <1>5

\* Amounts sum up to an amount.
LEMMA TotalType == ASSUME NEW f, NEW S, Amounts(f, S) PROVE Total(f, S) \in Nat
<1> SUFFICES ASSUME Total(f, S) \notin Nat PROVE FALSE
  OBVIOUS
<1>1. PICK Bad : Bad = {T \in SUBSET S : Total(f, T) \notin Nat}
  OBVIOUS
<1>2. Bad # {} /\ \A T \in Bad : IsFiniteSet(T)
  BY <1>1, FS_Subset DEF Amounts
<1>3. PICK T \in Bad : \A x \in T : T \ {x} \notin Bad
  BY <1>2, Smallest
<1>4. T # {}
  <2>1. T = {} => Total(f, T) = 0
    BY <1>2, <1>3, TotalIs
  <2> QED BY <1>1, <1>3, <2>1
<1>5. Picked(T) \in T /\ Total(f, T) = f[Picked(T)] + Total(f, T \ {Picked(T)})
  BY <1>2, <1>3, <1>4, TotalIs, AnyIn
<1>6. T \ {Picked(T)} \notin Bad /\ f[Picked(T)] \in Nat
  BY <1>1, <1>3, <1>5 DEF Amounts
<1>7. Total(f, T \ {Picked(T)}) \in Nat
  BY <1>1, <1>6
<1> QED BY <1>1, <1>3, <1>5, <1>6, <1>7

\* Part of the amounts are amounts.
LEMMA SomeAmounts == ASSUME NEW f, NEW S, Amounts(f, S), NEW T \in SUBSET S PROVE Amounts(f, T)
BY FS_Subset DEF Amounts

\* Picked one of them can be taken out of the sum.
LEMMA TotalSplit ==
  ASSUME NEW f, NEW S, Amounts(f, S), NEW x \in S
  PROVE  Total(f, S) = f[x] + Total(f, S \ {x})
<1> SUFFICES ASSUME Total(f, S) # f[x] + Total(f, S \ {x}) PROVE FALSE
  OBVIOUS
<1>1. PICK Bad : Bad = {T \in SUBSET S : \E y \in T : Total(f, T) # f[y] + Total(f, T \ {y})}
  OBVIOUS
<1>2. Bad # {} /\ \A T \in Bad : IsFiniteSet(T)
  BY <1>1, FS_Subset DEF Amounts
<1>3. PICK T \in Bad : \A y \in T : T \ {y} \notin Bad
  BY <1>2, Smallest
<1>4. PICK y \in T : Total(f, T) # f[y] + Total(f, T \ {y})
  BY <1>1, <1>3
<1>5. PICK a : a = Picked(T)
  OBVIOUS
<1>6. a \in T /\ Total(f, T) = f[a] + Total(f, T \ {a})
  BY <1>2, <1>3, <1>4, <1>5, TotalIs, AnyIn
<1>7. a # y
  BY <1>4, <1>6
<1>8. T \in SUBSET S
  BY <1>1, <1>3
<1>9. /\ T \ {a} \in SUBSET S /\ T \ {a} \notin Bad /\ y \in T \ {a}
      /\ T \ {y} \in SUBSET S /\ T \ {y} \notin Bad /\ a \in T \ {y}
  BY <1>3, <1>4, <1>6, <1>7, <1>8
<1>10. Total(f, T \ {a}) = f[y] + Total(f, (T \ {a}) \ {y})
  BY <1>1, <1>9
<1>11. Total(f, T \ {y}) = f[a] + Total(f, (T \ {y}) \ {a})
  BY <1>1, <1>9
<1>12. (T \ {a}) \ {y} = (T \ {y}) \ {a}
  OBVIOUS
<1>13. f[a] \in Nat /\ f[y] \in Nat /\ Total(f, (T \ {a}) \ {y}) \in Nat
  <2>1. Amounts(f, (T \ {a}) \ {y})
    BY <1>8, SomeAmounts
  <2> QED BY <2>1, <1>4, <1>6, <1>8, TotalType DEF Amounts
<1>14. PICK p, q, r : p = f[a] /\ q = f[y] /\ r = Total(f, (T \ {a}) \ {y})
  OBVIOUS
<1>15. /\ Total(f, T) = p + (q + r) /\ f[y] + Total(f, T \ {y}) = q + (p + r)
       /\ p \in Nat /\ q \in Nat /\ r \in Nat
  BY <1>6, <1>10, <1>11, <1>12, <1>13, <1>14
<1> QED BY <1>4, <1>15

\* If every amount of one sum is covered by an amount of its own of another, so is the sum.
LEMMA TotalCovered ==
  ASSUME NEW f, NEW M, Amounts(f, M), NEW g, NEW S, Amounts(g, S), NEW h,
         \A m \in M : h[m] \in S /\ f[m] <= g[h[m]],
         \A m, n \in M : h[m] = h[n] => m = n
  PROVE  Total(f, M) <= Total(g, S)
<1> DEFINE Fits(A, B) == \A m \in A : h[m] \in B
           Covers(A) == \A B \in SUBSET S : Fits(A, B) => Total(f, A) <= Total(g, B)
<1> SUFFICES ASSUME ~Covers(M) PROVE FALSE
  OBVIOUS
<1>1. PICK Bad : Bad = {A \in SUBSET M : ~Covers(A)}
  OBVIOUS
<1>2. Bad # {} /\ \A A \in Bad : IsFiniteSet(A)
  <2> HIDE DEF Covers
  <2> QED BY <1>1, FS_Subset DEF Amounts
<1>3. PICK A \in Bad : \A m \in A : A \ {m} \notin Bad
  <2> HIDE DEF Covers
  <2> QED BY <1>2, Smallest
<1>4. A \in SUBSET M /\ ~Covers(A)
  BY <1>1, <1>3
<1>5. PICK B \in SUBSET S : Fits(A, B) /\ ~(Total(f, A) <= Total(g, B))
  BY <1>4
<1>6. Amounts(f, A) /\ Amounts(g, B)
  BY <1>4, SomeAmounts
<1>7. A # {}
  <2>1. A = {} => Total(f, A) = 0
    BY <1>6, TotalIs DEF Amounts
  <2>2. Total(g, B) \in Nat
    BY <1>6, TotalType
  <2> QED BY <1>5, <2>1, <2>2
<1>8. PICK m \in A : TRUE
  BY <1>7
<1>9. h[m] \in B /\ f[m] <= g[h[m]] /\ f[m] \in Nat /\ g[h[m]] \in Nat
  BY <1>4, <1>5, <1>6, <1>8 DEF Amounts
<1>10. Total(f, A) = f[m] + Total(f, A \ {m})
  BY <1>6, <1>8, TotalSplit
<1>11. Total(g, B) = g[h[m]] + Total(g, B \ {h[m]})
  BY <1>6, <1>9, TotalSplit
<1>12. Covers(A \ {m})
  <2> HIDE DEF Covers
  <2> QED BY <1>1, <1>3, <1>4, <1>8
<1>13. Fits(A \ {m}, B \ {h[m]}) /\ B \ {h[m]} \in SUBSET S
  BY <1>4, <1>5, <1>8
<1>14. Total(f, A \ {m}) <= Total(g, B \ {h[m]})
  BY <1>12, <1>13
<1>15. Total(f, A \ {m}) \in Nat /\ Total(g, B \ {h[m]}) \in Nat
  <2>1. Amounts(f, A \ {m}) /\ Amounts(g, B \ {h[m]})
    BY <1>6, SomeAmounts
  <2> QED BY <2>1, TotalType
<1> HIDE DEF Fits, Covers
<1> QED BY <1>5, <1>9, <1>10, <1>11, <1>14, <1>15

\* More amounts, and larger ones, sum up to no less.
LEMMA TotalGrows ==
  ASSUME NEW f, NEW S, Amounts(f, S), NEW g, NEW T, Amounts(g, T), S \subseteq T,
         \A x \in S : f[x] <= g[x]
  PROVE  Total(f, S) <= Total(g, T)
<1>1. PICK h : h = [x \in S |-> x]
  OBVIOUS
<1>2. /\ \A m \in S : h[m] \in T /\ f[m] <= g[h[m]]
      /\ \A m, n \in S : h[m] = h[n] => m = n
  BY <1>1
<1> QED BY <1>2, TotalCovered

\* The same amounts sum up to the same.
LEMMA TotalSame ==
  ASSUME NEW f, NEW S, Amounts(f, S), NEW g, \A x \in S : f[x] = g[x]
  PROVE  Total(f, S) = Total(g, S)
<1>1. Amounts(g, S) /\ \A x \in S : f[x] \in Nat /\ f[x] <= g[x] /\ g[x] <= f[x]
  BY DEF Amounts
<1>2. Total(f, S) <= Total(g, S) /\ Total(g, S) <= Total(f, S)
  BY <1>1, TotalGrows
<1>3. Total(f, S) \in Nat /\ Total(g, S) \in Nat
  BY <1>1, TotalType
<1> QED BY <1>2, <1>3

\* The sum over two sets that share nothing.
LEMMA TotalUnion ==
  ASSUME NEW f, NEW S, NEW T, Amounts(f, S \cup T), S \cap T = {}
  PROVE  Total(f, S \cup T) = Total(f, S) + Total(f, T)
<1> DEFINE Adds(A) == Total(f, A \cup T) = Total(f, A) + Total(f, T)
<1> SUFFICES ASSUME ~Adds(S) PROVE FALSE
  OBVIOUS
<1>0. Amounts(f, S) /\ Amounts(f, T)
  BY SomeAmounts
<1>1. PICK Bad : Bad = {A \in SUBSET S : ~Adds(A)}
  OBVIOUS
<1>2. Bad # {} /\ \A A \in Bad : IsFiniteSet(A)
  <2> HIDE DEF Adds
  <2> QED BY <1>0, <1>1, FS_Subset DEF Amounts
<1>3. PICK A \in Bad : \A m \in A : A \ {m} \notin Bad
  <2> HIDE DEF Adds
  <2> QED BY <1>2, Smallest
<1>4. A \in SUBSET S /\ ~Adds(A)
  BY <1>1, <1>3
<1>5. Total(f, T) \in Nat
  BY <1>0, TotalType
<1>6. A # {}
  <2>1. A = {} => Total(f, A) = 0 /\ A \cup T = T
    BY <1>0, <1>2, <1>3, TotalIs
  <2> QED BY <1>4, <1>5, <2>1
<1>7. PICK m \in A : TRUE
  BY <1>6
<1>8. Amounts(f, A) /\ Amounts(f, A \cup T) /\ Amounts(f, A \ {m})
  BY <1>4, SomeAmounts
<1>9. Total(f, A) = f[m] + Total(f, A \ {m})
  BY <1>7, <1>8, TotalSplit
<1>10. Total(f, A \cup T) = f[m] + Total(f, (A \cup T) \ {m})
  <2>1. m \in A \cup T
    BY <1>7
  <2> QED BY <2>1, <1>8, TotalSplit
<1>11. (A \cup T) \ {m} = (A \ {m}) \cup T
  BY <1>4, <1>7
<1>12. Adds(A \ {m})
  <2> HIDE DEF Adds
  <2> QED BY <1>1, <1>3, <1>4, <1>7
<1>13. f[m] \in Nat /\ Total(f, A \ {m}) \in Nat
  BY <1>7, <1>8, TotalType DEF Amounts
<1>14. Total(f, (A \ {m}) \cup T) = Total(f, A \ {m}) + Total(f, T)
  BY <1>12
<1>15. Total(f, A \cup T) # Total(f, A) + Total(f, T)
  BY <1>4
<1>16. PICK p, q, r : p = f[m] /\ q = Total(f, A \ {m}) /\ r = Total(f, T)
  OBVIOUS
<1>17. Total(f, A) = p + q /\ Total(f, A \cup T) = p + (q + r) /\ p \in Nat /\ q \in Nat /\ r \in Nat
  BY <1>5, <1>9, <1>10, <1>11, <1>13, <1>14, <1>16
<1> HIDE DEF Adds
<1> QED BY <1>15, <1>16, <1>17

-----------------------------------------------------------------------------
(* The sums of AccountPipeline. *)

\* What a family may cost, what a row claims, what a mined transaction cost.
Costs  == [i \in Ids |-> FamilyDebit(i)]
Claims == [i \in Ids |-> Claim(i)]
Debits == [n \in 1..Len(mined) |-> Debit(mined[n])]

\* The library computes the sum of an operator as AddsUp does that of a function.
LEMMA CostsSum == ASSUME NEW S \in SUBSET Ids, IsFiniteSet(S)
  PROVE MapThenSumSet(FamilyDebit, S) = Total(Costs, S)
<1> DEFINE E(h) == h = [s \in SUBSET S |-> IF s = {} THEN 0 ELSE FamilyDebit(Picked(s)) + h[s \ {Picked(s)}]]
<1>1. ASSUME NEW h PROVE AddsUp(h, Costs, S) <=> E(h)
  <2>1. ASSUME NEW s \in SUBSET S, s # {} PROVE Costs[Picked(s)] = FamilyDebit(Picked(s))
    BY <2>1, AnyIn DEF Costs
  <2> QED BY <2>1 DEF AddsUp
<1>2. E(CHOOSE h : E(h))
  BY <1>1, SumExists
<1>3. MapThenSumSet(FamilyDebit, S) = (CHOOSE h : E(h))[S]
  BY DEF MapThenSumSet, MapThenFoldSet, Picked
<1> HIDE DEF E
<1> QED BY <1>1, <1>2, <1>3, TotalIs

\* What a check adds up of the others' claims, likewise.
LEMMA ClaimsSum == ASSUME NEW S \in SUBSET Ids, IsFiniteSet(S)
  PROVE MapThenSumSet(Claim, S) = Total(Claims, S)
<1> DEFINE E(h) == h = [s \in SUBSET S |-> IF s = {} THEN 0 ELSE Claim(Picked(s)) + h[s \ {Picked(s)}]]
<1>1. ASSUME NEW h PROVE AddsUp(h, Claims, S) <=> E(h)
  <2>1. ASSUME NEW s \in SUBSET S, s # {} PROVE Claims[Picked(s)] = Claim(Picked(s))
    BY <2>1, AnyIn DEF Claims
  <2> QED BY <2>1 DEF AddsUp
<1>2. E(CHOOSE h : E(h))
  BY <1>1, SumExists
<1>3. MapThenSumSet(Claim, S) = (CHOOSE h : E(h))[S]
  BY DEF MapThenSumSet, MapThenFoldSet, Picked
<1> HIDE DEF E
<1> QED BY <1>1, <1>2, <1>3, TotalIs

\* What mined transactions cost, likewise.
LEMMA DebitsSum == ASSUME NEW S \in SUBSET (1..Len(mined)), IsFiniteSet(S)
  PROVE MapThenSumSet(LAMBDA n : Debit(mined[n]), S) = Total(Debits, S)
<1> DEFINE E(h) == h = [s \in SUBSET S |-> IF s = {} THEN 0 ELSE Debit(mined[Picked(s)]) + h[s \ {Picked(s)}]]
<1>1. ASSUME NEW h PROVE AddsUp(h, Debits, S) <=> E(h)
  <2>1. ASSUME NEW s \in SUBSET S, s # {} PROVE Debits[Picked(s)] = Debit(mined[Picked(s)])
    BY <2>1, AnyIn DEF Debits
  <2> QED BY <2>1 DEF AddsUp
<1>2. E(CHOOSE h : E(h))
  BY <1>1, SumExists
<1>3. MapThenSumSet(LAMBDA n : Debit(mined[n]), S) = (CHOOSE h : E(h))[S]
  BY DEF MapThenSumSet, MapThenFoldSet, Picked
<1> HIDE DEF E
<1> QED BY <1>1, <1>2, <1>3, TotalIs

\* The balance at a block is what the transactions up to it left of the funds.
LEMMA BalanceSum == ASSUME NEW n \in 0..Len(mined), Len(mined) \in Nat
  PROVE BalanceAt(n) = Funds - Total(Debits, 1..n)
<1>1. 1..n \in SUBSET (1..Len(mined)) /\ IsFiniteSet(1..n)
  BY FS_Interval
<1> QED BY <1>1, DebitsSum DEF BalanceAt

-----------------------------------------------------------------------------
(* Claims and fees. *)

\* Every claim has a nonce of its own, every row a claim, and a transaction is mined at the nonce of
\* its claim.
Claimed == {i \in Ids : resv[i] # "none"}
NonceInv ==
  /\ IsFiniteSet(Claimed)
  /\ \A i, o \in Claimed : nonceOf[i] = nonceOf[o] => i = o
  /\ \A i \in Claimed : nonceOf[i] < cursor
  /\ \A i \in Ids : HasRow(i) => i \in Claimed
  /\ \A n \in 1..Len(mined) : nonceOf[mined[n].id] = n - 1

\* A row reserves the largest fee of its family, and of a replacement that may still join it.
FeeInv ==
  /\ \A i \in Ids : \A c \in payload[i] : c.k <= row[i].fee
  /\ \A s \in Sessions : \A p \in pending[s] : p.k > 0 => p.k <= row[p.id].fee
  /\ \A s \in Sessions : pc[s] \in {"c_check", "c_sign"} /\ job[s].k > 0
                           => job[s].k <= row[job[s].id].fee

\* The block a check looked at is one of the chain's.
SeenInv == \A s \in Sessions : pc[s] = "c_check" => job[s].seen <= Len(mined)

\* What moves a nonce.
LEMMA NonceFrame ==
  ASSUME [Next]_vars PROVE UNCHANGED <<nonceOf, cursor>> \/ \E s \in Sessions : PrepareReserve(s)
<1>1. ASSUME NEW s \in Sessions,
             PrepareLock(s) \/ PrepareReject(s) \/ CommitSign(s) \/ DiscardRelease(s) \/ TrackAdvance(s)
      PROVE  UNCHANGED <<nonceOf, cursor>>
  BY <1>1 DEF PrepareLock, PrepareReject, CommitSign, DiscardRelease, TrackAdvance
<1> QED BY <1>1, CustodyFrame

\* A claim is made once; a step that makes one makes no other.
LEMMA ClaimsStay ==
  ASSUME IInv, [Next]_vars
  PROVE  /\ Claimed \subseteq Claimed'
         /\ \/ Claimed' = Claimed
            \/ \E s \in Sessions : PrepareReserve(s) /\ Claimed' = Claimed \cup {job[s].id}
<1> USE DEF IInv, TypeOK, Claimed
<1>1. ASSUME NEW s \in Sessions, PrepareLock(s) PROVE Claimed' = Claimed
  BY <1>1 DEF PrepareLock
<1>2. ASSUME NEW s \in Sessions, PrepareReserve(s) PROVE Claimed' = Claimed \cup {job[s].id}
  BY <1>2 DEF PrepareReserve, LockInv
<1>3. ASSUME NEW s \in Sessions, PrepareReject(s) PROVE Claimed' = Claimed
  BY <1>3 DEF PrepareReject
<1>4. ASSUME NEW s \in Sessions, CommitSign(s) PROVE Claimed' = Claimed
  BY <1>4 DEF CommitSign, Signable
<1>5. ASSUME NEW s \in Sessions, DiscardRelease(s) PROVE Claimed' = Claimed
  BY <1>5 DEF DiscardRelease
<1>6. ASSUME NEW s \in Sessions, TrackAdvance(s) PROVE Claimed' = Claimed
  <2>1. PICK i \in Ids : i = job[s].id
    BY <1>6 DEF TrackAdvance, LockInv
  <2>2. Included(i) # {} => resv[i] # "none"
    BY LifeIs DEF LifeFacts, ClaimInv, Signed
  <2>3. resv' = resv \/ (Included(i) # {} /\ resv' = [resv EXCEPT ![i] = "confirmed"])
    BY <1>6, <2>1 DEF TrackAdvance
  <2> QED BY <2>2, <2>3
<1> HIDE DEF Claimed
<1> QED BY <1>1, <1>2, <1>3, <1>4, <1>5, <1>6, CustodyFrame DEF Claimed

\* A row is journalled only over a claim.
LEMMA RowsClaimed ==
  ASSUME IInv, [Next]_vars, NEW i \in Ids, HasRow(i)' PROVE HasRow(i) \/ i \in Claimed
<1> DEFINE Goal == HasRow(i) \/ i \in Claimed
<1> USE DEF IInv, TypeOK, HasRow, Claimed
<1>1. ASSUME NEW s \in Sessions, PrepareClear(s) PROVE Goal
  BY <1>1 DEF PrepareClear, NoRow, RowOf
<1>2. ASSUME NEW s \in Sessions, PrepareFinish(s) PROVE Goal
  BY <1>2 DEF PrepareFinish, JobInv, JobAt, Preparing
<1>3. ASSUME NEW s \in Sessions, SpeedUpFinish(s) PROVE Goal
  BY <1>3 DEF SpeedUpFinish, RowOf
<1>4. ASSUME NEW s \in Sessions, CommitMark(s) \/ CommitRecord(s) PROVE Goal
  BY <1>4 DEF CommitMark, CommitRecord, Transition
<1>5. ASSUME NEW s \in Sessions, CommitDone(s) PROVE Goal
  BY <1>5 DEF CommitDone, FinishBroadcast, Transition
<1>6. ASSUME NEW s \in Sessions, DiscardCancel(s) PROVE Goal
  BY <1>6 DEF DiscardCancel
<1>7. ASSUME NEW s \in Sessions, RebroadcastDone(s) \/ TrackAdvance(s) PROVE Goal
  <2>1. \E new : Transition(job[s].id, job[s].from, new)
    BY <1>7 DEF RebroadcastDone, FinishBroadcast, TrackAdvance
  <2>2. job[s].from # "none"
    BY <1>7 DEF RebroadcastDone, TrackAdvance, JobInv, JobAt, Open
  <2> QED BY <2>1, <2>2 DEF Transition
<1>8. ASSUME NEW s \in Sessions, NEW o \in Ids, Reconcile(s, o) PROVE Goal
  BY <1>8 DEF Reconcile
<1>9. ASSUME row' = row PROVE Goal
  BY <1>9
<1> HIDE DEF Goal
<1> QED BY <1>1, <1>2, <1>3, <1>4, <1>5, <1>6, <1>7, <1>8, <1>9, RowFrame DEF Goal

\* What is signed, and what is mined, has a claim.
LEMMA SignedClaimed ==
  ASSUME IInv
  PROVE  /\ \A i \in Ids : Signed(i) => i \in Claimed
         /\ \A n \in 1..Len(mined) : mined[n].id \in Ids /\ mined[n] \in payload[mined[n].id]
<1>1. ASSUME NEW n \in 1..Len(mined)
      PROVE  mined[n].id \in Ids /\ mined[n] \in payload[mined[n].id]
  <2>1. mined[n] \in sent /\ mined[n] \in Candidates
    BY DEF IInv, MinedInv, TypeOK
  <2> QED BY <2>1, CandFields DEF IInv, SentIsJournalled, RowInv
<1> QED BY <1>1 DEF IInv, ClaimInv, Signed, Claimed

\* The chain grows by one block at a time, of what was sent.
LEMMA ChainGrows ==
  ASSUME IInv, [Next]_vars
  PROVE  /\ Len(mined) \in Nat
         /\ \/ mined' = mined
            \/ \E c \in sent : /\ Mine(c) /\ c.id \in Ids /\ c \in payload[c.id]
                               /\ mined' = Append(mined, c) /\ Len(mined') = Len(mined) + 1
                               /\ mined'[Len(mined) + 1] = c
                               /\ \A n \in 1..Len(mined) : mined'[n] = mined[n]
<1>1. ASSUME NEW c \in sent, Mine(c)
      PROVE  /\ c.id \in Ids /\ c \in payload[c.id]
             /\ mined' = Append(mined, c) /\ Len(mined') = Len(mined) + 1
             /\ mined'[Len(mined) + 1] = c
             /\ \A n \in 1..Len(mined) : mined'[n] = mined[n]
  <2>1. c \in Candidates /\ mined \in Seq(Candidates) /\ mined' = Append(mined, c)
    BY <1>1 DEF IInv, TypeOK, Mine
  <2>2. c.id \in Ids /\ c \in payload[c.id]
    BY <2>1, CandFields DEF IInv, SentIsJournalled, RowInv
  <2> QED BY <2>1, <2>2
<1>2. ASSUME NEW s \in Sessions, CommitSend(s) \/ RebroadcastSend(s) PROVE mined' = mined
  BY <1>2 DEF CommitSend, RebroadcastSend
<1>3. Len(mined) \in Nat
  BY DEF IInv, TypeOK
<1> QED BY <1>1, <1>2, <1>3, NodeFrame

\* Every step keeps nonces apart and on the chain in order.
LEMMA NonceStep == ASSUME IInv, NonceInv, [Next]_vars PROVE NonceInv'
<1>1. CASE \E s \in Sessions : PrepareReserve(s) /\ Claimed' = Claimed \cup {job[s].id}
  <2>1. PICK s \in Sessions : PrepareReserve(s) /\ Claimed' = Claimed \cup {job[s].id}
    BY <1>1
  <2>2. PICK i \in Ids : i = job[s].id
    BY <2>1 DEF IInv, LockInv, PrepareReserve
  <2>3. /\ row' = row /\ mined' = mined /\ cursor \in Nat
        /\ nonceOf' = [nonceOf EXCEPT ![i] = IF i \in Claimed THEN nonceOf[i] ELSE cursor]
        /\ cursor' = IF i \in Claimed THEN cursor ELSE cursor + 1
    BY <2>1, <2>2 DEF PrepareReserve, IInv, TypeOK, Claimed, node
  <2>4. nonceOf \in [Ids -> Nat] /\ Claimed \subseteq Ids
    BY DEF IInv, TypeOK, Claimed
  <2>5. \A n \in 1..Len(mined) : mined[n].id \in Claimed
    BY SignedClaimed DEF Signed
  <2>6. IsFiniteSet(Claimed')
    BY <2>1, FS_AddElement DEF NonceInv
  <2>7. \A o, x \in Claimed' : nonceOf'[o] = nonceOf'[x] => o = x
    BY <2>1, <2>2, <2>3, <2>4 DEF NonceInv
  <2>8. \A o \in Claimed' : nonceOf'[o] < cursor'
    BY <2>1, <2>2, <2>3, <2>4 DEF NonceInv
  <2>9. \A o \in Ids : HasRow(o)' => o \in Claimed'
    BY <2>1, <2>3 DEF NonceInv, HasRow
  <2>10. \A n \in 1..Len(mined') : nonceOf'[mined'[n].id] = n - 1
    BY <2>3, <2>4, <2>5 DEF NonceInv
  <2> QED BY <2>6, <2>7, <2>8, <2>9, <2>10 DEF NonceInv
<1>2. CASE Claimed' = Claimed /\ UNCHANGED <<nonceOf, cursor>>
  <2>1. \A i \in Ids : HasRow(i)' => i \in Claimed
    BY RowsClaimed DEF NonceInv
  <2>2. \A n \in 1..Len(mined') : nonceOf[mined'[n].id] = n - 1
    <3>1. CASE mined' = mined
      BY <3>1 DEF NonceInv
    <3>2. ASSUME NEW c \in sent, Mine(c), Len(mined') = Len(mined) + 1, mined'[Len(mined) + 1] = c,
                 \A n \in 1..Len(mined) : mined'[n] = mined[n]
          PROVE  \A n \in 1..Len(mined') : nonceOf[mined'[n].id] = n - 1
      <4>1. nonceOf[c.id] = Len(mined) /\ Len(mined) \in Nat
        BY <3>2, ChainGrows DEF Mine, ConfirmedNonce
      <4>2. ASSUME NEW n \in 1..(Len(mined) + 1) PROVE nonceOf[mined'[n].id] = n - 1
        <5>1. CASE n = Len(mined) + 1
          BY <3>2, <4>1, <5>1
        <5>2. CASE n # Len(mined) + 1
          <6>1. n \in 1..Len(mined)
            BY <4>1, <5>2
          <6> QED BY <3>2, <6>1 DEF NonceInv
        <5> QED BY <5>1, <5>2
      <4> QED BY <3>2, <4>2
    <3> QED BY <3>1, <3>2, ChainGrows
  <2> QED BY <1>2, <2>1, <2>2 DEF NonceInv
<1>3. ASSUME NEW s \in Sessions, PrepareReserve(s), Claimed' = Claimed
      PROVE  Claimed' = Claimed \cup {job[s].id}
  BY <1>3 DEF PrepareReserve, IInv, TypeOK, LockInv, Claimed
<1> QED BY <1>1, <1>2, <1>3, ClaimsStay, NonceFrame

\* What a row reserves for its family it still reserves, while something of it is signed; it reserves
\* more only for a replacement that is being prepared.
LEMMA FeesStay ==
  ASSUME IInv, SignedNeverCancelled, [Next]_vars, NEW i \in Ids, Signed(i)
  PROVE  /\ row[i].fee <= row'[i].fee
         /\ (\A s \in Sessions : ~SpeedUpFinish(s)) => row'[i].fee = row[i].fee
<1> DEFINE Same == row'[i].fee = row[i].fee
<1> USE DEF IInv, TypeOK
<1>0. row[i] \in Rows /\ row[i].fee \in Nat /\ HasRow(i) /\ resv[i] \in {"signed", "confirmed"}
  BY RowFields, BoundsAssumption DEF Bumps, SignedNeverCancelled, Signed, HasRow, ClaimInv
<1>1. ASSUME NEW s \in Sessions, PrepareClear(s) \/ PrepareFinish(s) PROVE Same
  <2>1. job[s].id # i
    BY <1>0, <1>1 DEF PrepareClear, PrepareFinish, JobInv, JobAt, Preparing
  <2> QED BY <1>1, <2>1 DEF PrepareClear, PrepareFinish
<1>2. ASSUME NEW s \in Sessions, SpeedUpFinish(s) PROVE row[i].fee <= row'[i].fee
  <2>1. PICK o, k : o = job[s].id /\ k = job[s].k
    OBVIOUS
  <2>2. o \in Ids /\ k \in Nat
    BY <1>2, <2>1, JobFields, BoundsAssumption DEF SpeedUpFinish, LockInv, Bumps
  <2>3. row'[o].fee = (IF row[o].fee > k THEN row[o].fee ELSE k) /\ (o # i => row'[i] = row[i])
    BY <1>2, <2>1, <2>2 DEF SpeedUpFinish, RowOf
  <2> QED BY <1>0, <2>2, <2>3
<1>3. ASSUME NEW s \in Sessions, CommitMark(s) PROVE Same
  BY <1>3 DEF CommitMark, Transition, Marked, RowOf
<1>4. ASSUME NEW s \in Sessions, CommitRecord(s) PROVE Same
  BY <1>4 DEF CommitRecord, Marked, RowOf
<1>5. ASSUME NEW s \in Sessions, CommitDone(s) PROVE Same
  BY <1>5 DEF CommitDone, FinishBroadcast, Transition, Moved, RowOf
<1>6. ASSUME NEW s \in Sessions, DiscardCancel(s) PROVE Same
  BY <1>6 DEF DiscardCancel, Moved, RowOf
<1>7. ASSUME NEW s \in Sessions, RebroadcastDone(s) PROVE Same
  BY <1>7 DEF RebroadcastDone, FinishBroadcast, Transition, Moved, RowOf
<1>8. ASSUME NEW s \in Sessions, TrackAdvance(s) PROVE Same
  <2> DEFINE w == row[job[s].id]
  <2>1. PICK st, h : Transition(job[s].id, job[s].from, Moved(w, st, h))
    BY <1>8 DEF TrackAdvance
  <2>2. Moved(w, st, h).fee = w.fee
    BY DEF Moved, RowOf
  <2> HIDE DEF w
  <2> QED BY <2>1, <2>2 DEF Transition, w
<1>9. ASSUME NEW s \in Sessions, NEW o \in Ids, Reconcile(s, o) PROVE Same
  <2>1. PICK w \in Reconciled(o) : row' = [row EXCEPT ![o] = w]
    BY <1>9 DEF Reconcile
  <2>2. o = i => w.fee = row[i].fee
    BY <1>0, <2>1 DEF Reconciled, RowOf
  <2> QED BY <2>1, <2>2
<1>10. ASSUME row' = row PROVE Same
  BY <1>10
<1>11. Same => row[i].fee <= row'[i].fee
  BY <1>0
<1> HIDE DEF Same
<1>12. Same \/ \E s \in Sessions : SpeedUpFinish(s)
  BY <1>1, <1>3, <1>4, <1>5, <1>6, <1>7, <1>8, <1>9, <1>10, RowFrame
<1> QED BY <1>2, <1>11, <1>12 DEF Same

\* Every step keeps fees reserved.
LEMMA FeeStep == ASSUME IInv, SignedNeverCancelled, FamilyInv, FeeInv, [Next]_vars PROVE FeeInv'
<1>0. IInv'
  BY Inductively
<1>1. \A i \in Ids : row[i].fee \in Nat /\ row'[i].fee \in Nat
  BY <1>0, RowFields, BoundsAssumption DEF IInv, TypeOK, Bumps
<1>2. \A i \in Ids : Signed(i) => row[i].fee <= row'[i].fee
  BY FeesStay
<1>3. \A s \in Sessions : job[s].k \in Nat /\ job'[s].k \in Nat
  BY <1>0, JobFields, BoundsAssumption DEF IInv, TypeOK, Bumps
<1>4. \A s \in Sessions : \A p \in pending[s] : p.id \in Ids /\ p.k \in Nat
  BY BoundsAssumption DEF IInv, TypeOK, Pendings, Bumps
<1>5. ASSUME NEW i \in Ids, NEW c \in payload'[i] PROVE c.k <= row'[i].fee
  <2>1. CASE c \in payload[i]
    <3>1. c.k <= row[i].fee /\ Signed(i) /\ c.k \in Nat
      BY <2>1, CandFields, BoundsAssumption DEF FeeInv, Signed, IInv, TypeOK, Bumps
    <3> QED BY <1>1, <1>2, <3>1
  <2>2. ASSUME NEW s \in Sessions, CommitSign(s), c \notin payload[i] PROVE c.k <= row'[i].fee
    <3>1. row' = row /\ i = job[s].id /\ c = Cand(i, job[s].rev, job[s].k) /\ pc[s] = "c_sign"
      BY <2>2 DEF CommitSign, IInv, TypeOK, node
    <3>2. c.k = job[s].k
      BY <3>1 DEF Cand
    <3> QED BY <1>1, <1>3, <3>1, <3>2 DEF FeeInv
  <2> QED BY <2>1, <2>2, PayloadFrame
<1>6. ASSUME NEW s \in Sessions, NEW p \in pending'[s], p.k > 0 PROVE p.k <= row'[p.id].fee
  <2>1. CASE p \in pending[s]
    <3>1. p.k <= row[p.id].fee /\ Signed(p.id)
      BY <1>6, <2>1 DEF FeeInv, FamilyInv, Carries, Signed
    <3> QED BY <1>1, <1>2, <1>4, <2>1, <3>1
  <2>2. CASE SpeedUpFinish(s) /\ p = [id |-> job[s].id, rev |-> job[s].rev, k |-> job[s].k]
    <3>1. PICK o, k : o = job[s].id /\ k = job[s].k
      OBVIOUS
    <3>2. o \in Ids /\ k \in Nat /\ row[o].fee \in Nat
      BY <1>1, <1>3, <2>2, <3>1 DEF SpeedUpFinish, IInv, LockInv
    <3>3. row'[o].fee = (IF row[o].fee > k THEN row[o].fee ELSE k)
      BY <2>2, <3>1, <3>2 DEF SpeedUpFinish, RowOf, IInv, TypeOK
    <3> QED BY <2>2, <3>1, <3>2, <3>3
  <2> QED BY <1>6, <2>1, <2>2, PendingFrame DEF IInv
<1>7. ASSUME NEW s \in Sessions, pc'[s] \in {"c_check", "c_sign"}, job'[s].k > 0
      PROVE  job'[s].k <= row'[job'[s].id].fee
  <2>1. CASE pc'[s] = pc[s] /\ job'[s] = job[s]
    <3>1. job[s].k <= row[job[s].id].fee /\ Signed(job[s].id) /\ job[s].id \in Ids
      BY <1>7, <2>1 DEF FeeInv, FamilyInv, Carries, Signed, IInv, LockInv
    <3> QED BY <1>1, <1>2, <1>3, <2>1, <3>1
  <2>2. CASE CommitAdmit(s)
    <3>1. job' = job /\ row' = row /\ pc[s] = "c_check"
      BY <2>2 DEF CommitAdmit
    <3> QED BY <1>7, <3>1 DEF FeeInv
  <2>3. ASSUME NEW p \in pending[s], CommitBegin(s, p) PROVE job'[s].k <= row'[job'[s].id].fee
    <3>1. job'[s].id = p.id /\ job'[s].k = p.k /\ row' = row
      BY <2>3 DEF CommitBegin, IInv, TypeOK, JobOf
    <3> QED BY <1>7, <3>1 DEF FeeInv
  <2>4. ASSUME NEW i \in Ids, SpeedUpBegin(s, i) PROVE FALSE
    BY <1>7, <2>4 DEF SpeedUpBegin, Goto, IInv, TypeOK
  <2>5. CASE PrepareReserve(s) \/ PrepareClear(s)
    BY <1>7, <2>5 DEF PrepareReserve, PrepareClear, Goto, IInv, TypeOK
  <2> QED BY <1>7, <2>1, <2>2, <2>3, <2>4, <2>5, WorkFrame DEF Choosing, IInv
<1> QED BY <1>5, <1>6, <1>7 DEF FeeInv

\* Every step keeps a check's block on the chain.
LEMMA SeenStep == ASSUME IInv, SeenInv, [Next]_vars PROVE SeenInv'
<1>0. Len(mined) \in Nat /\ Len(mined') \in Nat /\ Len(mined) <= Len(mined')
  BY ChainGrows
<1>1. ASSUME NEW s \in Sessions, pc'[s] = "c_check" PROVE job'[s].seen <= Len(mined')
  <2>1. CASE pc'[s] = pc[s] /\ job'[s] = job[s]
    <3>1. job[s].seen <= Len(mined) /\ job[s].seen \in Nat
      BY <1>1, <2>1, JobFields DEF SeenInv, IInv, TypeOK
    <3> QED BY <1>0, <2>1, <3>1
  <2>2. ASSUME NEW p \in pending[s], CommitBegin(s, p) PROVE job'[s].seen <= Len(mined')
    <3>1. job'[s].seen \in 0..Len(mined)
      BY <2>2 DEF CommitBegin, IInv, TypeOK, JobOf, Observable
    <3> QED BY <1>0, <3>1
  <2>3. ASSUME NEW i \in Ids, SpeedUpBegin(s, i) PROVE FALSE
    BY <1>1, <2>3 DEF SpeedUpBegin, Goto, IInv, TypeOK
  <2>4. CASE PrepareReserve(s) \/ PrepareClear(s) \/ CommitAdmit(s)
    BY <1>1, <2>4 DEF PrepareReserve, PrepareClear, CommitAdmit, Goto, IInv, TypeOK
  <2> QED BY <1>1, <2>1, <2>2, <2>3, <2>4, WorkFrame DEF Choosing, IInv
<1> QED BY <1>1 DEF SeenInv

-----------------------------------------------------------------------------
(* What is signed, and what it costs. *)

\* What is mined and not yet closed in the journal.
MinedOpen == (1..Len(mined)) \ Closed
\* Besides what is mined and not yet closed, x and the families in S can be paid.
Covered(x, S) == x + Total(Costs, S) + Total(Debits, MinedOpen) <= Funds

\* What is admitted is covered, with all that others signed.
AdmitInv == \A s \in Sessions : pc[s] = "c_sign" /\ Included(job[s].id) = {}
              => Covered(Wanted(job[s]), Unmined \ {job[s].id})
CoverInv == Covered(0, Unmined)

\* What is claimed, reserved, admitted and signed stays within the funds.
SpendInv == PromiseInv /\ FamilyInv /\ NonceInv /\ FeeInv /\ SeenInv /\ AdmitInv /\ CoverInv

\* A set of naturals with a bound has a greatest element.
LEMMA GreatestOf ==
  ASSUME NEW b \in Nat, NEW S \in SUBSET (0..b), S # {}
  PROVE  Max(S) \in S /\ \A m \in S : m <= Max(S)
<1> DEFINE U == {n \in Nat : \A m \in S : m <= n}
<1>1. PICK n \in U : \A m \in U : n <= m
  <2>1. b \in U
    OBVIOUS
  <2> QED BY <2>1, LeastOf
<1>2. n \in S
  <2> SUFFICES ASSUME n \notin S PROVE FALSE
    OBVIOUS
  <2>1. PICK s \in S : TRUE
    OBVIOUS
  <2>2. s <= n /\ s # n /\ s \in Nat /\ n \in Nat
    BY <2>1, <1>1
  <2>3. n - 1 \in Nat /\ \A m \in S : m <= n - 1
    BY <2>2, <1>1
  <2>4. n - 1 \in U
    BY <2>3
  <2> QED BY <2>4, <1>1, <2>2
<1>3. \E x \in S : \A y \in S : x >= y
  BY <1>1, <1>2
<1> QED BY <1>3 DEF Max

\* What a transaction costs is an amount.
LEMMA DebitType == ASSUME NEW c \in Candidates PROVE Debit(c) = Value[c.rev] + (1 + c.k) /\ Debit(c) \in Nat
<1>1. c.rev \in Reviews /\ c.k \in Nat
  BY CandFields, BoundsAssumption DEF Bumps
<1>2. Value[c.rev] \in Nat
  BY <1>1, ValueAssumption
<1> QED BY <1>1, <1>2 DEF Debit, Fee

\* A family of one review may cost what one of its candidates costs, and no less than any.
LEMMA CostOf ==
  ASSUME NEW P \in SUBSET Candidates, P # {}, \A c, d \in P : c.rev = d.rev
  PROVE  LET m == Max({Debit(c) : c \in P}) IN
         m \in Nat /\ (\E c \in P : m = Debit(c)) /\ \A c \in P : Debit(c) <= m
<1>1. PICK a \in P : TRUE
  OBVIOUS
<1>2. PICK b : b = Value[a.rev] + (1 + MaxBump)
  OBVIOUS
<1>3. Value[a.rev] \in Nat /\ MaxBump \in Nat /\ b \in Nat
  BY <1>1, <1>2, CandFields, ValueAssumption, BoundsAssumption
<1>4. ASSUME NEW c \in P PROVE Debit(c) \in 0..b
  <2>1. Debit(c) = Value[a.rev] + (1 + c.k) /\ c.k \in 0..MaxBump
    BY <1>1, DebitType, CandFields DEF Bumps
  <2> QED BY <1>2, <1>3, <2>1
<1>5. PICK S : S = {Debit(c) : c \in P}
  OBVIOUS
<1>6. S \in SUBSET (0..b) /\ S # {}
  BY <1>1, <1>4, <1>5
<1>7. Max(S) \in S /\ \A m \in S : m <= Max(S)
  BY <1>3, <1>6, GreatestOf
<1>8. Max(S) \in Nat
  <2>1. \A m \in 0..b : m \in Nat
    BY <1>3
  <2>2. PICK m : m = Max(S)
    OBVIOUS
  <2>3. m \in 0..b
    BY <1>6, <1>7, <2>2
  <2> QED BY <2>1, <2>2, <2>3
<1> QED BY <1>5, <1>7, <1>8

\* What each family may cost.
LEMMA CostIs ==
  ASSUME IInv, FamilyInv, NEW i \in Ids, Signed(i)
  PROVE  /\ Costs[i] = FamilyDebit(i) /\ Costs[i] \in Nat
         /\ \E c \in payload[i] : Costs[i] = Debit(c)
         /\ \A c \in payload[i] : Debit(c) <= Costs[i]
<1>1. payload[i] \in SUBSET Candidates /\ payload[i] # {} /\ \A c, d \in payload[i] : c.rev = d.rev
  BY DEF IInv, TypeOK, Signed, FamilyInv
<1> QED BY <1>1, CostOf DEF Costs, FamilyDebit

\* The sums of the account are sums of amounts.
SumsInv ==
  /\ Amounts(Costs, Unmined)
  /\ Amounts(Debits, 1..Len(mined))
  /\ Unmined \subseteq Claimed /\ MinedOpen \subseteq 1..Len(mined) /\ Closed \subseteq 1..Len(mined)
  /\ \A i \in Unmined : Signed(i)
  /\ \A n \in 1..Len(mined) : Debits[n] = Debit(mined[n])
LEMMA SumsOf == ASSUME IInv, FamilyInv, NonceInv PROVE SumsInv
<1>1. Unmined \subseteq Claimed /\ \A i \in Unmined : Signed(i)
  BY SignedClaimed DEF Unmined
<1>2. Amounts(Costs, Unmined)
  BY <1>1, CostIs, FS_Subset DEF NonceInv, Amounts, Unmined
<1>3. \A n \in 1..Len(mined) : Debits[n] = Debit(mined[n]) /\ Debits[n] \in Nat
  <2>1. \A n \in 1..Len(mined) : mined[n] \in Candidates
    BY DEF IInv, TypeOK
  <2> QED BY <2>1, DebitType DEF Debits
<1>4. IsFiniteSet(1..Len(mined))
  BY FS_Interval DEF IInv, TypeOK
<1> QED BY <1>1, <1>2, <1>3, <1>4 DEF SumsInv, Amounts, MinedOpen, Closed

\* What is covered is what never goes overcommitted.
LEMMA CoverSays == ASSUME IInv, FamilyInv, NonceInv PROVE CoverInv <=> NeverOvercommitted
<1>1. SumsInv
  BY SumsOf
<1>2. Amounts(Debits, Closed) /\ Amounts(Debits, MinedOpen)
  BY <1>1, SomeAmounts DEF SumsInv
<1>3. IsFiniteSet(Unmined) /\ IsFiniteSet(Closed) /\ Unmined \in SUBSET Ids /\ Closed \in SUBSET (1..Len(mined))
  BY <1>1, <1>2 DEF SumsInv, Amounts, Claimed
<1>4. Len(mined) \in Nat
  BY DEF IInv, TypeOK
<1>5. BalanceAt(Len(mined)) = Funds - Total(Debits, 1..Len(mined))
  BY <1>4, BalanceSum
<1>6. Total(Debits, 1..Len(mined)) = Total(Debits, MinedOpen) + Total(Debits, Closed)
  <2>1. MinedOpen \cup Closed = 1..Len(mined) /\ MinedOpen \cap Closed = {}
    BY <1>3 DEF MinedOpen
  <2>2. Amounts(Debits, MinedOpen \cup Closed)
    BY <1>1, <2>1 DEF SumsInv
  <2> QED BY <2>1, <2>2, TotalUnion
<1>7. NeverOvercommitted <=>
        Total(Costs, Unmined) <= BalanceAt(Len(mined)) + Total(Debits, Closed)
  BY <1>3, DebitsSum, CostsSum DEF NeverOvercommitted
<1>8. PICK a, b, d : a = Total(Costs, Unmined) /\ b = Total(Debits, MinedOpen) /\ d = Total(Debits, Closed)
  OBVIOUS
<1>9. a \in Nat /\ b \in Nat /\ d \in Nat /\ Funds \in Nat
  BY <1>1, <1>2, <1>8, TotalType, BoundsAssumption DEF SumsInv
<1>10. (a <= (Funds - (b + d)) + d) <=> (0 + a + b <= Funds)
  BY <1>9
<1> QED BY <1>5, <1>6, <1>7, <1>8, <1>10 DEF CoverInv, Covered

\* What a row claims of an amount known covers each of its family.
LEMMA ClaimCovers ==
  ASSUME IInv, FamilyInv, FeeInv, NEW i \in Ids, row[i].rev # NoReview
  PROVE  Claims[i] \in Nat /\ \A c \in payload[i] : Debit(c) <= Claims[i]
<1>1. row[i].rev \in Reviews /\ row[i].fee \in Nat
  BY RowFields, BoundsAssumption DEF IInv, TypeOK, Reviews, NoReview, Bumps
<1>2. Value[row[i].rev] \in Nat
  BY <1>1, ValueAssumption
<1>3. Claims[i] = Value[row[i].rev] + (1 + row[i].fee)
  BY DEF Claims, Claim, Fee
<1>4. ASSUME NEW c \in payload[i] PROVE Debit(c) <= Claims[i]
  <2>1. c \in Candidates /\ c.rev = row[i].rev /\ c.k <= row[i].fee
    BY <1>4 DEF IInv, TypeOK, FamilyInv, FeeInv
  <2>2. c.k \in Nat /\ Debit(c) = Value[row[i].rev] + (1 + c.k)
    BY <2>1, DebitType, CandFields, BoundsAssumption DEF Bumps
  <2> QED BY <1>1, <1>2, <1>3, <2>1, <2>2
<1> QED BY <1>1, <1>2, <1>3, <1>4

\* What is mined at a nonce is of the claim that has it.
LEMMA MinedAt ==
  ASSUME IInv, NonceInv, NEW i \in Claimed, nonceOf[i] < Len(mined)
  PROVE  Included(i) # {}
<1>1. nonceOf[i] \in Nat /\ Len(mined) \in Nat /\ i \in Ids
  BY DEF IInv, TypeOK, Claimed
<1>2. PICK n \in 1..Len(mined) : n = nonceOf[i] + 1
  BY <1>1
<1>3. mined[n].id \in Claimed /\ nonceOf[mined[n].id] = nonceOf[i]
  BY <1>1, <1>2, SignedClaimed DEF NonceInv, Signed
<1>4. mined[n].id = i
  BY <1>3 DEF NonceInv
<1> QED BY <1>4 DEF Included

\* Of what is signed, the row is open until it is in a block.
LEMMA OpenUntilMined ==
  ASSUME IInv, SignedNeverCancelled, OutcomeInv, NEW i \in Ids, Signed(i)
  PROVE  /\ Included(i) = {} => row[i].st \in Open
         /\ row[i].st \notin Terminal => row[i].st \in Open
<1>1. row[i].st \in Statuses \cup {"none"} /\ row[i].st \notin {"none", "cancelled"}
  BY RowFields DEF IInv, TypeOK, SignedNeverCancelled
<1>2. Included(i) = {} => row[i].st \notin InBlock
  BY DEF OutcomeInv
<1> QED BY <1>1, <1>2 DEF Statuses, Terminal, InBlock, Open

\* A step that neither signs nor mines closes what it closes.
LEMMA StillCovered ==
  ASSUME IInv, FamilyInv, NonceInv, SignedNeverCancelled, [Next]_vars, payload' = payload, mined' = mined
  PROVE  /\ Costs' = Costs /\ Debits' = Debits /\ Unmined' = Unmined
         /\ Total(Debits, MinedOpen') <= Total(Debits, MinedOpen)
<1>1. Costs' = Costs /\ Debits' = Debits /\ Unmined' = Unmined
  BY DEF Costs, FamilyDebit, Debits, Unmined, Signed, Included
<1>2. ASSUME NEW n \in Closed PROVE n \in Closed'
  <2>1. PICK i : i = mined[n].id
    OBVIOUS
  <2>2. n \in 1..Len(mined) /\ i \in Ids /\ Signed(i) /\ row[i].st \in Terminal
    BY <2>1, SignedClaimed DEF Closed, Signed
  <2>3. row[i].st # "cancelled"
    BY <2>2 DEF SignedNeverCancelled
  <2>4. row'[i].st \in Terminal
    BY <2>2, <2>3, Concludes DEF Concluded
  <2> QED BY <2>1, <2>2, <2>4 DEF Closed
<1>3. MinedOpen' \subseteq MinedOpen
  BY <1>2 DEF MinedOpen
<1>4. SumsInv
  BY SumsOf
<1>5. Amounts(Debits, MinedOpen) /\ Amounts(Debits, MinedOpen')
  BY <1>3, <1>4, SomeAmounts DEF SumsInv
<1>6. \A n \in MinedOpen' : Debits[n] <= Debits[n]
  BY <1>5 DEF Amounts
<1>7. Total(Debits, MinedOpen') <= Total(Debits, MinedOpen)
  BY <1>3, <1>5, <1>6, TotalGrows
<1> QED BY <1>1, <1>7

\* A block takes from the sums what its transaction cost at most.
LEMMA MineCovers ==
  ASSUME IInv, FamilyInv, NonceInv, NEW c \in sent, Mine(c), [Next]_vars
  PROVE  /\ c.id \in Unmined /\ Unmined' = Unmined \ {c.id} /\ Costs' = Costs
         /\ \A S \in SUBSET Unmined : c.id \in S =>
              Total(Costs, S \ {c.id}) + Total(Debits', MinedOpen') <= Total(Costs, S) + Total(Debits, MinedOpen)
<1>1. PICK L : L = Len(mined)
  OBVIOUS
<1>2. /\ L \in Nat /\ c.id \in Ids /\ c \in payload[c.id] /\ Len(mined') = L + 1 /\ mined'[L + 1] = c
      /\ \A n \in 1..L : mined'[n] = mined[n]
  <2>1. /\ mined' = Append(mined, c) /\ mined \in Seq(Candidates) /\ c \in Candidates
    BY DEF Mine, IInv, TypeOK
  <2>2. c.id \in Ids /\ c \in payload[c.id]
    BY <2>1, CandFields DEF IInv, SentIsJournalled, RowInv
  <2> QED BY <1>1, <2>1, <2>2
<1>3. row' = row /\ payload' = payload /\ nonceOf[c.id] = L
  BY <1>1 DEF Mine, sdk, ConfirmedNonce
<1>4. Included(c.id) = {}
  <2>1. ASSUME NEW n \in 1..L, mined[n].id = c.id PROVE FALSE
    <3>1. nonceOf[c.id] = n - 1
      BY <1>1, <2>1 DEF NonceInv
    <3> QED BY <1>2, <1>3, <3>1
  <2> QED BY <1>1, <2>1 DEF Included
<1>5. c.id \in Unmined
  BY <1>2, <1>4 DEF Unmined, Signed
<1>6. Costs' = Costs
  BY <1>3 DEF Costs, FamilyDebit
<1>7. Unmined' = Unmined \ {c.id}
  <2>1. ASSUME NEW i \in Ids PROVE Included(i)' = IF i = c.id THEN Included(i) \cup {c} ELSE Included(i)
    <3>1. 1..(L + 1) = (1..L) \cup {L + 1}
      BY <1>2
    <3>2. {mined'[n] : n \in 1..(L + 1)} = {mined[n] : n \in 1..L} \cup {c}
      BY <1>2, <3>1
    <3>3. {mined'[n] : n \in 1..Len(mined')} = {mined[n] : n \in 1..Len(mined)} \cup {c}
      BY <1>1, <1>2, <3>2
    <3> QED BY <3>3 DEF Included
  <2> QED BY <1>3, <2>1 DEF Unmined, Signed
<1>8. SumsInv /\ SumsInv'
  <2>1. IInv' /\ FamilyInv' /\ NonceInv'
    BY Inductively, NonceStep, FamilyKept, <1>3
  <2>2. SumsInv'
    BY <2>1, SumsOf, PTL
  <2> QED BY <2>2, SumsOf
<1>9. MinedOpen' \subseteq MinedOpen \cup {L + 1}
  <2>1. ASSUME NEW n \in 1..(L + 1), n # L + 1 PROVE n \in 1..L
    BY <1>2, <2>1
  <2> QED BY <1>1, <1>2, <1>3, <2>1 DEF MinedOpen, Closed
<1>10. MinedOpen \subseteq 1..L /\ 1..L \subseteq 1..(L + 1) /\ L + 1 \in 1..(L + 1) /\ L + 1 \notin 1..L
  BY <1>1, <1>2, <1>8 DEF SumsInv
<1>11. Amounts(Debits', MinedOpen \cup {L + 1}) /\ Amounts(Debits', MinedOpen')
  <2>1. Amounts(Debits', 1..(L + 1))
    BY <1>2, <1>8 DEF SumsInv
  <2>2. MinedOpen \cup {L + 1} \in SUBSET (1..(L + 1))
    BY <1>10
  <2> QED BY <1>9, <2>1, <2>2, SomeAmounts
<1>12. Amounts(Debits, MinedOpen) /\ \A n \in MinedOpen : Debits[n] = Debits'[n]
  <2>1. Amounts(Debits, MinedOpen)
    BY <1>8, SomeAmounts DEF SumsInv
  <2>2. \A n \in 1..L : Debits[n] = Debits'[n]
    BY <1>1, <1>2, <1>8, <1>10 DEF SumsInv
  <2> QED BY <1>10, <2>1, <2>2
<1>13. Total(Debits', MinedOpen') <= Total(Debits', MinedOpen \cup {L + 1})
  <2>1. \A n \in MinedOpen' : Debits'[n] <= Debits'[n]
    BY <1>11 DEF Amounts
  <2> QED BY <1>9, <1>11, <2>1, TotalGrows
<1>14. Total(Debits', MinedOpen \cup {L + 1}) = Debit(c) + Total(Debits, MinedOpen)
  <2>1. Total(Debits', MinedOpen \cup {L + 1}) = Debits'[L + 1] + Total(Debits', (MinedOpen \cup {L + 1}) \ {L + 1})
    BY <1>11, TotalSplit
  <2>2. (MinedOpen \cup {L + 1}) \ {L + 1} = MinedOpen
    BY <1>10
  <2>3. Debits'[L + 1] = Debit(c)
    BY <1>2, <1>8, <1>10 DEF SumsInv
  <2>4. Total(Debits, MinedOpen) = Total(Debits', MinedOpen)
    BY <1>12, TotalSame
  <2> QED BY <2>1, <2>2, <2>3, <2>4
<1>15. ASSUME NEW S \in SUBSET Unmined, c.id \in S
       PROVE Total(Costs, S \ {c.id}) + Total(Debits', MinedOpen') <= Total(Costs, S) + Total(Debits, MinedOpen)
  <2>1. Amounts(Costs, S) /\ Amounts(Costs, S \ {c.id})
    BY <1>8, <1>15, SomeAmounts DEF SumsInv
  <2>2. Total(Costs, S) = Costs[c.id] + Total(Costs, S \ {c.id})
    BY <1>15, <2>1, TotalSplit
  <2>3. Debit(c) <= Costs[c.id] /\ Costs[c.id] \in Nat /\ Debit(c) \in Nat
    <3>1. c \in Candidates /\ Signed(c.id)
      BY <1>2 DEF IInv, TypeOK, Signed
    <3> QED BY <1>2, <3>1, CostIs, DebitType
  <2>4. PICK a, b, d, e : /\ a = Total(Costs, S \ {c.id}) /\ b = Total(Debits', MinedOpen')
                          /\ d = Total(Debits, MinedOpen) /\ e = Total(Debits', MinedOpen \cup {L + 1})
    OBVIOUS
  <2>5. a \in Nat /\ b \in Nat /\ d \in Nat /\ e \in Nat
    BY <1>11, <1>12, <2>1, <2>4, TotalType
  <2>6. b <= e /\ e = Debit(c) + d
    BY <1>13, <1>14, <2>4
  <2>7. a + b <= (Costs[c.id] + a) + d
    BY <2>3, <2>5, <2>6
  <2> QED BY <2>2, <2>4, <2>7
<1> QED BY <1>5, <1>6, <1>7, <1>15

-----------------------------------------------------------------------------
(* A check admits, a signature spends. *)

\* What an admitted family may cost.
LEMMA WantedIs ==
  ASSUME IInv, NEW s \in Sessions, pc[s] \in {"c_check", "c_sign"}
  PROVE  LET j == job[s]  f == row[j.id].fee IN
         /\ j.id \in Ids /\ j.rev \in Reviews /\ j.k \in Bumps /\ j.k \in Nat /\ j.seen \in Nat
         /\ f \in Nat /\ Value[j.rev] \in Nat
         /\ Wanted(j) = Value[j.rev] + (1 + (IF f > j.k THEN f ELSE j.k)) /\ Wanted(j) \in Nat
<1>1. PICK j, f : j = job[s] /\ f = row[j.id].fee
  OBVIOUS
<1>2. j.id \in Ids /\ j.rev \in Reviews /\ j.k \in Bumps /\ j.k \in Nat /\ j.seen \in Nat
  BY <1>1, JobFields, BoundsAssumption DEF IInv, TypeOK, LockInv, JobInv, JobAt, Bumps
<1>3. f \in Nat
  BY <1>1, <1>2, RowFields, BoundsAssumption DEF IInv, TypeOK, Bumps
<1>4. Value[j.rev] \in Nat
  BY <1>2, ValueAssumption
<1>5. Wanted(j) = Value[j.rev] + (1 + (IF f > j.k THEN f ELSE j.k))
  BY <1>1 DEF Wanted, Fee
<1> QED BY <1>1, <1>2, <1>3, <1>4, <1>5

\* A family costs what one of its candidates does.
CostInv == \A i \in Ids : payload[i] # {} => /\ Costs[i] \in Nat
                                             /\ \E c \in payload[i] : Costs[i] = Debit(c)
LEMMA CostInvOf == ASSUME IInv, FamilyInv PROVE CostInv
BY CostIs DEF CostInv, Signed

\* What a session may sign costs no more than what it was admitted for.
LEMMA SignedCost ==
  ASSUME SignBindsReview, IInv, FamilyInv, NonceInv, FeeInv, [Next]_vars, NEW s \in Sessions, CommitSign(s)
  PROVE  LET i == job[s].id IN
         /\ i \in Ids /\ mined' = mined /\ row' = row
         /\ payload' = [payload EXCEPT ![i] = payload[i] \cup {Cand(i, job[s].rev, job[s].k)}]
         /\ payload'[i] # {} /\ Costs'[i] \in Nat /\ Costs'[i] <= Wanted(job[s])
         /\ \A o \in Ids : o # i => Costs'[o] = Costs[o]
<1> DEFINE j == job[s]
           f == row[j.id].fee
           w == IF f > j.k THEN f ELSE j.k
           c == Cand(j.id, j.rev, j.k)
<1>1. pc[s] = "c_sign" /\ Signable(j) /\ mined' = mined /\ row' = row /\ payload \in [Ids -> SUBSET Candidates]
      /\ payload' = [payload EXCEPT ![j.id] = payload[j.id] \cup {c}]
  BY DEF CommitSign, node, IInv, TypeOK
<1>2. /\ j.id \in Ids /\ j.rev \in Reviews /\ j.k \in Bumps /\ j.k \in Nat
      /\ f \in Nat /\ Value[j.rev] \in Nat /\ Wanted(j) = Value[j.rev] + (1 + w)
  BY <1>1, WantedIs
<1>3. w \in Nat /\ f <= w /\ j.k <= w
  BY <1>2
<1>4. IInv' /\ FamilyInv'
  BY Inductively, FamilySigned
<1>5. payload'[j.id] # {}
  BY <1>1, <1>2
<1>6. PICK i : i = j.id
  OBVIOUS
<1>7. Costs'[i] \in Nat /\ \E d \in payload'[i] : Costs'[i] = Debit(d)
  <2>1. i \in Ids /\ payload'[i] # {}
    BY <1>1, <1>2, <1>6
  <2>2. CostInv'
    BY <1>4, CostInvOf, PTL
  <2> QED BY <2>1, <2>2 DEF CostInv
<1>8. PICK d \in payload'[i] : Costs'[i] = Debit(d)
  BY <1>7
<1>9. d \in Candidates /\ d.k \in Nat /\ Debit(d) = Value[d.rev] + (1 + d.k)
  <2>1. d \in Candidates
    BY <1>2, <1>4, <1>6, <1>8 DEF IInv, TypeOK
  <2> QED BY <2>1, DebitType, CandFields, BoundsAssumption DEF Bumps
<1>10. d.rev = j.rev
  <2>1. c \in payload'[i] /\ c.rev = j.rev
    BY <1>1, <1>2, <1>6 DEF Cand
  <2>2. \A e, g \in payload'[i] : e.rev = g.rev
    BY <1>2, <1>4, <1>6 DEF FamilyInv
  <2> HIDE DEF c
  <2> QED BY <2>1, <2>2, <1>8
<1>11. d.k <= w
  <2>1. CASE d = c
    BY <2>1, <1>3 DEF Cand
  <2>2. CASE d # c
    <3>1. d \in payload[i]
      BY <1>1, <1>2, <1>6, <1>8, <2>2
    <3>2. d.k <= f
      BY <1>2, <1>6, <3>1 DEF FeeInv
    <3> HIDE DEF f, w
    <3> QED BY <1>2, <1>3, <1>9, <3>2
  <2> QED BY <2>1, <2>2
<1>12. Costs'[i] <= Wanted(j)
  <2> HIDE DEF w
  <2> QED BY <1>2, <1>3, <1>8, <1>9, <1>10, <1>11
<1>13. ASSUME NEW o \in Ids, o # j.id PROVE Costs'[o] = Costs[o]
  <2>1. payload'[o] = payload[o]
    BY <1>1, <1>13
  <2> QED BY <2>1 DEF Costs, FamilyDebit
<1> QED BY <1>1, <1>2, <1>5, <1>6, <1>7, <1>12, <1>13

\* A signature costs what it was admitted for: what is signed stays covered.
LEMMA SignCovers ==
  ASSUME SignBindsReview, IInv, FamilyInv, NonceInv, FeeInv, AdmitInv, CoverInv, [Next]_vars,
         NEW s \in Sessions, CommitSign(s)
  PROVE  CoverInv'
<1>1. PICK i, x : i = job[s].id /\ x = Wanted(job[s])
  OBVIOUS
<1>2. /\ i \in Ids /\ mined' = mined /\ row' = row /\ payload'[i] # {}
      /\ \A o \in Ids : o # i => payload'[o] = payload[o]
      /\ Costs'[i] \in Nat /\ Costs'[i] <= x
      /\ \A o \in Ids : o # i => Costs'[o] = Costs[o]
  <2>1. payload \in [Ids -> SUBSET Candidates]
    BY DEF IInv, TypeOK
  <2> QED BY <1>1, <2>1, SignedCost
<1>3. x \in Nat /\ pc[s] = "c_sign"
  BY <1>1, WantedIs DEF CommitSign
<1>4. Debits' = Debits /\ MinedOpen' = MinedOpen
  BY <1>2 DEF Debits, MinedOpen, Closed
<1>5. SumsInv /\ SumsInv'
  <2>1. IInv' /\ FamilyInv' /\ NonceInv'
    BY Inductively, NonceStep, FamilySigned
  <2>2. SumsInv'
    BY <2>1, SumsOf, PTL
  <2> QED BY <2>2, SumsOf
<1>6. PICK U, V, D : U = Unmined /\ V = Unmined' /\ D = Total(Debits, MinedOpen)
  OBVIOUS
<1>7. Amounts(Costs, U) /\ Amounts(Costs', V) /\ D \in Nat /\ Funds \in Nat
  <2>1. Amounts(Debits, MinedOpen)
    BY <1>5, SomeAmounts DEF SumsInv
  <2> QED BY <1>5, <1>6, <2>1, TotalType, BoundsAssumption DEF SumsInv
<1>8. (i \in V => Included(i) = {}) /\ U \ {i} = V \ {i} /\ (Included(i) = {} => i \in V)
  <2>1. \A o : Included(o)' = Included(o)
    BY <1>2 DEF Included
  <2>2. U = {o \in Ids : payload[o] # {} /\ Included(o) = {}}
    BY <1>6 DEF Unmined, Signed
  <2>3. V = {o \in Ids : payload'[o] # {} /\ Included(o) = {}}
    BY <1>6, <2>1 DEF Unmined, Signed
  <2> QED BY <1>2, <2>2, <2>3
<1>9. \A o \in V \ {i} : Costs[o] = Costs'[o]
  BY <1>2, <1>6 DEF Unmined
<1>10. Amounts(Costs, V \ {i}) /\ Amounts(Costs', V \ {i})
  <2>1. V \ {i} \in SUBSET U /\ V \ {i} \in SUBSET V
    BY <1>8
  <2> QED BY <1>7, <2>1, SomeAmounts
<1>11. Total(Costs, V \ {i}) = Total(Costs', V \ {i}) /\ Total(Costs, V \ {i}) \in Nat
  BY <1>9, <1>10, TotalSame, TotalType
<1>12. CASE Included(i) = {}
  <2>1. Total(Costs', V) = Costs'[i] + Total(Costs', V \ {i})
    BY <1>7, <1>8, <1>12, TotalSplit
  <2>2. x + Total(Costs, V \ {i}) + D <= Funds
    BY <1>1, <1>3, <1>6, <1>8, <1>12 DEF AdmitInv, Covered
  <2>3. PICK a, b : a = Total(Costs, V \ {i}) /\ b = Costs'[i]
    OBVIOUS
  <2>4. 0 + (b + a) + D <= Funds
    BY <1>2, <1>3, <1>7, <1>11, <2>2, <2>3
  <2>5. Total(Costs', V) = b + a
    BY <1>11, <2>1, <2>3
  <2> QED BY <1>4, <1>6, <2>4, <2>5 DEF CoverInv, Covered
<1>13. CASE Included(i) # {}
  <2>1. V \ {i} = V
    BY <1>8, <1>13
  <2>2. Total(Costs, V) <= Total(Costs, U)
    <3>1. V \subseteq U /\ Amounts(Costs, V)
      BY <1>8, <1>10, <2>1
    <3>2. \A o \in V : Costs[o] <= Costs[o]
      BY <3>1 DEF Amounts
    <3> QED BY <1>7, <3>1, <3>2, TotalGrows
  <2>3. PICK a, b : a = Total(Costs, V) /\ b = Total(Costs, U)
    OBVIOUS
  <2>4. a \in Nat /\ b \in Nat /\ a <= b /\ 0 + b + D <= Funds
    BY <1>6, <1>7, <1>11, <2>1, <2>2, <2>3, TotalType DEF CoverInv, Covered
  <2>5. 0 + a + D <= Funds
    BY <1>7, <2>4
  <2>6. Total(Costs', V) = a
    BY <1>11, <2>1, <2>3
  <2> QED BY <1>4, <1>6, <2>5, <2>6 DEF CoverInv, Covered
<1> QED BY <1>12, <1>13

\* Where a check adds up the others' claims: what is signed and not mined is one of them, and so is
\* what was mined since the block it looked at and is not closed.
LEMMA ChecksAll ==
  ASSUME IInv, FamilyInv, NonceInv, FeeInv, SignedNeverCancelled, OutcomeInv,
         NEW own \in Ids, Included(own) = {}, NEW n \in 0..Len(mined),
         \A i \in Counted(own, n) : row[i].rev # NoReview
  PROVE  /\ Amounts(Claims, Counted(own, n))
         /\ Unmined \ {own} \subseteq Counted(own, n)
         /\ \A i \in Unmined \ {own} : Costs[i] <= Claims[i]
         /\ \A m \in MinedOpen : m > n =>
              /\ mined[m].id \in Counted(own, n) \ (Unmined \ {own})
              /\ Debits[m] <= Claims[mined[m].id]
<1>1. PICK O, L : O = Counted(own, n) /\ L = Len(mined)
  OBVIOUS
<1>2. O = {i \in Ids \ {own} : row[i].st \in Open /\ nonceOf[i] >= n}
  BY <1>1 DEF Counted
<1>3. L \in Nat /\ n \in Nat /\ n <= L /\ nonceOf \in [Ids -> Nat]
  BY <1>1 DEF IInv, TypeOK
<1>4. \A i \in O : Claims[i] \in Nat /\ \A c \in payload[i] : Debit(c) <= Claims[i]
  BY <1>1, <1>2, ClaimCovers
<1>5. O \subseteq Claimed
  BY <1>2 DEF NonceInv, HasRow, Open
<1>6. Amounts(Claims, O)
  BY <1>4, <1>5, FS_Subset DEF NonceInv, Amounts
<1>7. ASSUME NEW i \in Unmined \ {own} PROVE i \in O /\ Costs[i] <= Claims[i]
  <2>1. i \in Ids /\ Signed(i) /\ Included(i) = {} /\ i # own
    BY <1>7 DEF Unmined
  <2>2. row[i].st \in Open
    BY <2>1, OpenUntilMined
  <2>3. i \in Claimed
    BY <2>1, SignedClaimed
  <2>4. ~(nonceOf[i] < L)
    BY <1>1, <2>1, <2>3, MinedAt
  <2>5. i \in O
    BY <1>2, <1>3, <2>1, <2>2, <2>4
  <2>6. \E c \in payload[i] : Costs[i] = Debit(c)
    BY <2>1, CostIs
  <2> QED BY <1>4, <2>5, <2>6
<1>8. ASSUME NEW m \in MinedOpen, m > n
      PROVE  mined[m].id \in O \ (Unmined \ {own}) /\ Debits[m] <= Claims[mined[m].id]
  <2>1. PICK i : i = mined[m].id
    OBVIOUS
  <2>2. m \in 1..Len(mined) /\ row[i].st \notin Terminal /\ Debits[m] = Debit(mined[m])
    <3>1. SumsInv
      BY SumsOf
    <3> QED BY <2>1, <3>1 DEF MinedOpen, Closed, SumsInv
  <2>3. i \in Ids /\ mined[m] \in payload[i] /\ nonceOf[i] = m - 1 /\ mined[m] \in Included(i)
    BY <2>1, <2>2, SignedClaimed DEF NonceInv, Included
  <2>4. row[i].st \in Open
    BY <2>2, <2>3, OpenUntilMined DEF Signed
  <2>5. i \in O
    BY <1>2, <1>3, <1>8, <2>2, <2>3, <2>4
  <2>6. i \notin Unmined
    BY <2>3 DEF Unmined
  <2> QED BY <1>4, <2>1, <2>2, <2>3, <2>5, <2>6
<1> QED BY <1>1, <1>6, <1>7, <1>8

\* What a check admits is covered, whatever was mined since the block it looked at.
LEMMA AdmitCovers ==
  ASSUME IInv, FamilyInv, NonceInv, FeeInv, SeenInv, SignedNeverCancelled, OutcomeInv,
         NEW s \in Sessions, pc[s] = "c_check", CommitmentsHold(job[s]), Included(job[s].id) = {}
  PROVE  Covered(Wanted(job[s]), Unmined \ {job[s].id})
<1>1. PICK own, n, x, L : own = job[s].id /\ n = job[s].seen /\ x = Wanted(job[s]) /\ L = Len(mined)
  OBVIOUS
<1>2. own \in Ids /\ x \in Nat /\ L \in Nat /\ n \in 0..L /\ Funds \in Nat
  <2>1. own \in Ids /\ x \in Nat /\ n \in Nat
    BY <1>1, WantedIs
  <2>2. n <= L /\ L \in Nat
    BY <1>1 DEF SeenInv, IInv, TypeOK
  <2> QED BY <2>1, <2>2, BoundsAssumption
<1>3. PICK O, U, M, Late, Early :
        /\ O = Counted(own, n) /\ U = Unmined \ {own} /\ M = MinedOpen
        /\ Late = {m \in M : m > n} /\ Early = M \ Late
  OBVIOUS
<1>4. (\A i \in O : row[i].rev # NoReview) /\ x + MapThenSumSet(Claim, O) <= BalanceAt(n)
  BY <1>1, <1>3 DEF CommitmentsHold
<1>5. /\ Amounts(Claims, O) /\ U \subseteq O
      /\ \A i \in U : Costs[i] <= Claims[i]
      /\ \A m \in Late : mined[m].id \in O \ U /\ Debits[m] <= Claims[mined[m].id]
  BY <1>1, <1>2, <1>3, <1>4, ChecksAll
<1>6. SumsInv
  BY SumsOf
<1>7. /\ Amounts(Costs, U) /\ Amounts(Debits, M) /\ Amounts(Debits, Late) /\ Amounts(Debits, Early)
      /\ Amounts(Debits, 1..n) /\ Amounts(Claims, U) /\ Amounts(Claims, O \ U)
      /\ Early \subseteq 1..n /\ Late \subseteq 1..L
  <2>1. Amounts(Costs, Unmined) /\ Amounts(Debits, 1..L) /\ M \subseteq 1..L
    BY <1>1, <1>3, <1>6 DEF SumsInv
  <2>2. U \in SUBSET Unmined /\ Late \in SUBSET (1..L) /\ Early \in SUBSET (1..L) /\ M \in SUBSET (1..L)
    BY <1>3, <2>1
  <2>3. 1..n \in SUBSET (1..L) /\ Early \subseteq 1..n
    <3>1. n \in Int /\ L \in Int /\ n <= L
      BY <1>2
    <3>2. ASSUME NEW m \in Early PROVE m \in 1..n
      <4>1. m \in 1..L /\ ~(m > n)
        BY <1>3, <2>1, <3>2
      <4> QED BY <3>1, <4>1
    <3> QED BY <3>1, <3>2
  <2>4. U \in SUBSET O /\ O \ U \in SUBSET O
    BY <1>5
  <2>5. Amounts(Claims, U) /\ Amounts(Claims, O \ U)
    BY <1>5, <2>4, SomeAmounts
  <2> QED BY <2>1, <2>2, <2>3, <2>5, SomeAmounts
<1>8. Total(Debits, Late) <= Total(Claims, O \ U)
  <2>1. PICK h : h = [m \in Late |-> mined[m].id]
    OBVIOUS
  <2>2. \A m \in Late : h[m] \in O \ U /\ Debits[m] <= Claims[h[m]]
    BY <1>5, <2>1
  <2>3. ASSUME NEW m \in Late, NEW k \in Late, h[m] = h[k] PROVE m = k
    <3>1. nonceOf[h[m]] = m - 1 /\ nonceOf[h[k]] = k - 1
      BY <1>1, <1>7, <2>1 DEF NonceInv
    <3>2. m \in Int /\ k \in Int
      BY <1>7
    <3> QED BY <2>3, <3>1, <3>2
  <2> QED BY <1>7, <2>2, <2>3, TotalCovered
<1>9. Total(Costs, U) <= Total(Claims, U)
  BY <1>5, <1>7, TotalGrows
<1>10. Total(Claims, O) = Total(Claims, U) + Total(Claims, O \ U)
  <2>1. O = U \cup (O \ U) /\ U \cap (O \ U) = {}
    BY <1>5
  <2>2. Amounts(Claims, U \cup (O \ U))
    BY <1>5, <2>1
  <2> QED BY <2>1, <2>2, TotalUnion
<1>11. Total(Debits, M) = Total(Debits, Early) + Total(Debits, Late)
  <2>1. M = Early \cup Late /\ Early \cap Late = {}
    BY <1>3
  <2>2. Amounts(Debits, Early \cup Late)
    BY <1>7, <2>1
  <2> QED BY <2>1, <2>2, TotalUnion
<1>12. Total(Debits, Early) <= Total(Debits, 1..n)
  <2>1. \A m \in Early : Debits[m] <= Debits[m]
    BY <1>7 DEF Amounts
  <2> QED BY <1>7, <2>1, TotalGrows
<1>13. x + Total(Claims, O) <= Funds - Total(Debits, 1..n)
  <2>1. O \in SUBSET Ids /\ IsFiniteSet(O)
    BY <1>3, <1>5 DEF Counted, Amounts
  <2> QED BY <1>1, <1>2, <1>4, <2>1, ClaimsSum, BalanceSum
<1>14. PICK a, b, d, e, f, g :
         /\ a = Total(Costs, U) /\ b = Total(Claims, U) /\ d = Total(Claims, O \ U)
         /\ e = Total(Debits, Early) /\ f = Total(Debits, Late) /\ g = Total(Debits, 1..n)
  OBVIOUS
<1>15. a \in Nat /\ b \in Nat /\ d \in Nat /\ e \in Nat /\ f \in Nat /\ g \in Nat
  BY <1>7, <1>14, TotalType
<1>16. a <= b /\ f <= d /\ e <= g /\ x + (b + d) <= Funds - g
  BY <1>8, <1>9, <1>10, <1>12, <1>13, <1>14
<1>17. x + a + (e + f) <= Funds
  BY <1>2, <1>15, <1>16
<1> QED BY <1>1, <1>3, <1>11, <1>14, <1>17 DEF Covered

\* The fee reserved for an operation does not move while a session is about to sign it.
LEMMA FeeHeld ==
  ASSUME IInv, [Next]_vars, NEW t \in Sessions, pc[t] = "c_sign"
  PROVE  row'[job[t].id].fee = row[job[t].id].fee
<1> DEFINE Same == row'[job[t].id].fee = row[job[t].id].fee
<1>1. /\ commitLock = t /\ job[t].id \in Ids /\ opLock[job[t].id] # Nobody /\ row \in [Ids -> Rows]
      /\ \A s \in Sessions : pc[s] \in HoldsCommit => s = t
  BY NamesAssumption DEF IInv, TypeOK, LockInv, HoldsCommit, HoldsOp
<1>2. ASSUME NEW s \in Sessions,
             PrepareClear(s) \/ PrepareFinish(s) \/ SpeedUpFinish(s) \/ CommitMark(s) \/ CommitRecord(s)
             \/ CommitDone(s)
      PROVE  FALSE
  <2>1. pc[s] \in HoldsCommit \ {"c_sign"}
    BY <1>2 DEF PrepareClear, PrepareFinish, SpeedUpFinish, CommitMark, CommitRecord, CommitDone, HoldsCommit
  <2> QED BY <1>1, <2>1
<1>3. ASSUME NEW s \in Sessions, DiscardCancel(s) PROVE Same
  BY <1>1, <1>3 DEF DiscardCancel, Moved, RowOf
<1>4. ASSUME NEW s \in Sessions, RebroadcastDone(s) PROVE Same
  BY <1>1, <1>4 DEF RebroadcastDone, FinishBroadcast, Transition, Moved, RowOf
<1>5. ASSUME NEW s \in Sessions, TrackAdvance(s) PROVE Same
  <2> DEFINE w == row[job[s].id]
  <2>1. PICK st, h : Transition(job[s].id, job[s].from, Moved(w, st, h))
    BY <1>5 DEF TrackAdvance
  <2>2. Moved(w, st, h).fee = w.fee
    BY DEF Moved, RowOf
  <2> HIDE DEF w
  <2> QED BY <1>1, <2>1, <2>2 DEF Transition, w
<1>6. ASSUME NEW s \in Sessions, NEW o \in Ids, Reconcile(s, o) PROVE Same
  BY <1>1, <1>6 DEF Reconcile
<1>7. ASSUME row' = row PROVE Same
  BY <1>7
<1> HIDE DEF Same
<1> QED BY <1>2, <1>3, <1>4, <1>5, <1>6, <1>7, RowFrame DEF Same

\* What is covered stays covered through a step that signs nothing.
LEMMA CoveredStays ==
  ASSUME IInv, FamilyInv, NonceInv, SignedNeverCancelled, [Next]_vars, payload' = payload,
         NEW x \in Nat, NEW own, Included(own)' = {} \/ own \notin Unmined,
         Covered(x, Unmined \ {own})
  PROVE  x + Total(Costs', Unmined' \ {own}) + Total(Debits', MinedOpen') <= Funds
<1>1. PICK U, D, E : U = Unmined \ {own} /\ D = Total(Debits, MinedOpen) /\ E = Total(Debits', MinedOpen')
  OBVIOUS
<1>2. SumsInv /\ SumsInv'
  <2>1. IInv' /\ FamilyInv' /\ NonceInv'
    BY Inductively, NonceStep, FamilyKept
  <2>2. SumsInv'
    BY <2>1, SumsOf, PTL
  <2> QED BY <2>2, SumsOf
<1>3. Amounts(Costs, U) /\ D \in Nat /\ E \in Nat /\ Funds \in Nat
  <2>1. Amounts(Debits, MinedOpen) /\ Amounts(Debits', MinedOpen')
    <3>1. MinedOpen' \in SUBSET (1..Len(mined')) /\ Amounts(Debits', 1..Len(mined'))
      BY <1>2 DEF SumsInv
    <3> QED BY <1>2, <3>1, SomeAmounts DEF SumsInv
  <2>2. Amounts(Costs, Unmined) /\ U \in SUBSET Unmined
    BY <1>1, <1>2 DEF SumsInv
  <2> QED BY <1>1, <2>1, <2>2, SomeAmounts, TotalType, BoundsAssumption
<1>4. x + Total(Costs, U) + D <= Funds /\ Total(Costs, U) \in Nat
  BY <1>1, <1>3, TotalType DEF Covered
<1>5. CASE mined' = mined
  <2>1. Costs' = Costs /\ Unmined' = Unmined /\ E <= D
    BY <1>1, <1>5, StillCovered
  <2>2. PICK a : a = Total(Costs, U)
    OBVIOUS
  <2>3. x + a + E <= Funds
    BY <1>3, <1>4, <2>1, <2>2
  <2> QED BY <1>1, <2>1, <2>2, <2>3
<1>6. ASSUME NEW c \in sent, Mine(c) PROVE x + Total(Costs', Unmined' \ {own}) + E <= Funds
  <2>1. /\ c.id \in Unmined /\ Unmined' = Unmined \ {c.id} /\ Costs' = Costs
        /\ c.id \in U => Total(Costs, U \ {c.id}) + E <= Total(Costs, U) + D
    <3>1. U \in SUBSET Unmined
      BY <1>1
    <3> QED BY <1>1, <1>6, <3>1, MineCovers
  <2>2. c.id # own
    <3>1. Len(mined') = Len(mined) + 1 /\ Len(mined) \in Nat /\ mined'[Len(mined) + 1] = c
      <4>1. mined' = Append(mined, c) /\ mined \in Seq(Candidates) /\ c \in Candidates
        BY <1>6 DEF Mine, IInv, TypeOK
      <4> QED BY <4>1
    <3>2. ASSUME c.id = own PROVE c \in Included(own)'
      BY <3>1, <3>2 DEF Included
    <3> QED BY <2>1, <3>2
  <2>3. c.id \in U /\ Unmined' \ {own} = U \ {c.id}
    BY <1>1, <2>1, <2>2
  <2>4. PICK a, b : a = Total(Costs, U) /\ b = Total(Costs, U \ {c.id})
    OBVIOUS
  <2>5. b \in Nat
    <3>1. Amounts(Costs, U \ {c.id})
      BY <1>3, SomeAmounts
    <3> QED BY <2>4, <3>1, TotalType
  <2>6. x + b + E <= Funds
    BY <1>3, <1>4, <2>1, <2>3, <2>4, <2>5
  <2> QED BY <2>1, <2>3, <2>4, <2>6
<1> QED BY <1>1, <1>5, <1>6, ChainGrows

-----------------------------------------------------------------------------
(* The invariant of what is spent. *)

\* Every step keeps what is admitted covered.
LEMMA AdmitStep ==
  ASSUME SignBindsReview, SpendInv, [Next]_vars PROVE AdmitInv'
<1>0. IInv /\ FamilyInv /\ NonceInv /\ FeeInv /\ SeenInv /\ SignedNeverCancelled /\ OutcomeInv /\ AdmitInv
      /\ TypeOK /\ LockInv
  BY DEF SpendInv, PromiseInv, IInv
<1> SUFFICES ASSUME NEW t \in Sessions, pc'[t] = "c_sign", NEW own, own = job'[t].id, Included(own)' = {}
             PROVE  Wanted(job[t])' + Total(Costs', Unmined' \ {own}) + Total(Debits', MinedOpen') <= Funds
  BY DEF AdmitInv, Covered, Included
<1>1. CASE pc'[t] = pc[t] /\ job'[t] = job[t]
  <2>1. /\ pc[t] = "c_sign" /\ own = job[t].id
        /\ \A s \in Sessions : pc[s] \in HoldsCommit => s = t
    BY <1>0, <1>1 DEF LockInv, HoldsCommit
  <2>2. Wanted(job[t])' = Wanted(job[t]) /\ Wanted(job[t]) \in Nat
    <3>1. row'[own].fee = row[own].fee
      BY <1>0, <2>1, FeeHeld
    <3>2. Wanted(job[t]) \in Nat
      BY <1>0, <2>1, WantedIs
    <3> QED BY <1>1, <2>1, <3>1, <3>2 DEF Wanted
  <2>3. payload' = payload
    <3>1. ASSUME NEW s \in Sessions, CommitSign(s) PROVE FALSE
      <4>1. s = t
        BY <2>1, <3>1 DEF CommitSign, HoldsCommit
      <4> QED BY <1>0, <1>1, <2>1, <3>1, <4>1 DEF CommitSign, Goto, TypeOK
    <3> QED BY <3>1, PayloadFrame
  <2>4. Included(own) = {}
    <3>1. own \in Ids
      BY <1>0, <2>1 DEF LockInv
    <3> QED BY <1>0, <3>1, IncludedGrows
  <2>5. Covered(Wanted(job[t]), Unmined \ {own})
    BY <1>0, <2>1, <2>4 DEF AdmitInv
  <2>6. PICK x : x = Wanted(job[t])
    OBVIOUS
  <2>7. x + Total(Costs', Unmined' \ {own}) + Total(Debits', MinedOpen') <= Funds
    BY <1>0, <2>2, <2>3, <2>5, <2>6, CoveredStays
  <2> QED BY <2>2, <2>6, <2>7
<1>2. CASE CommitAdmit(t)
  <2>1. /\ pc[t] = "c_check" /\ CommitmentsHold(job[t]) /\ job' = job
        /\ payload' = payload /\ mined' = mined /\ row' = row /\ own = job[t].id
    BY <1>2 DEF CommitAdmit, sdk, node
  <2>2. Included(own) = {}
    BY <2>1 DEF Included
  <2>3. Covered(Wanted(job[t]), Unmined \ {own})
    BY <1>0, <2>1, <2>2, AdmitCovers
  <2>4. Wanted(job[t])' = Wanted(job[t])
    BY <2>1 DEF Wanted
  <2>5. Costs' = Costs /\ Debits' = Debits /\ Unmined' = Unmined /\ MinedOpen' = MinedOpen
    BY <2>1 DEF Costs, FamilyDebit, Debits, Unmined, Signed, Included, MinedOpen, Closed
  <2> QED BY <2>3, <2>4, <2>5 DEF Covered
<1>3. CASE PrepareReserve(t) \/ PrepareClear(t)
  BY <1>0, <1>3 DEF PrepareReserve, PrepareClear, Goto, TypeOK
<1>4. ASSUME NEW p \in pending[t], CommitBegin(t, p) PROVE FALSE
  BY <1>0, <1>4 DEF CommitBegin, Goto, TypeOK
<1>5. ASSUME NEW i \in Ids, SpeedUpBegin(t, i) PROVE FALSE
  BY <1>0, <1>5 DEF SpeedUpBegin, Goto, TypeOK
<1>6. pc'[t] \in Choosing
  BY DEF Choosing
<1> QED BY <1>0, <1>1, <1>2, <1>3, <1>4, <1>5, <1>6, WorkFrame

\* Every step keeps what is signed covered.
LEMMA CoverStep ==
  ASSUME SignBindsReview, SpendInv, [Next]_vars PROVE CoverInv'
<1>0. IInv /\ FamilyInv /\ NonceInv /\ FeeInv /\ SignedNeverCancelled /\ AdmitInv /\ CoverInv
  BY DEF SpendInv, PromiseInv
<1>1. ASSUME payload' = payload PROVE CoverInv'
  <2>1. NoId \notin Unmined /\ Unmined \ {NoId} = Unmined /\ Unmined' \ {NoId} = Unmined'
    BY NamesAssumption DEF Unmined
  <2>2. Covered(0, Unmined \ {NoId})
    BY <1>0, <2>1 DEF CoverInv
  <2>3. 0 + Total(Costs', Unmined' \ {NoId}) + Total(Debits', MinedOpen') <= Funds
    BY <1>0, <1>1, <2>1, <2>2, CoveredStays
  <2> QED BY <2>1, <2>3 DEF CoverInv, Covered
<1>2. ASSUME NEW s \in Sessions, CommitSign(s) PROVE CoverInv'
  BY <1>0, <1>2, SignCovers
<1> QED BY <1>1, <1>2, PayloadFrame

\* Every step keeps what is claimed, reserved, admitted and signed within the funds.
THEOREM SpendStep == SignBindsReview /\ SpendInv /\ [Next]_vars => SpendInv'
<1> SUFFICES ASSUME SignBindsReview, SpendInv, [Next]_vars PROVE SpendInv'
  OBVIOUS
<1>0. PromiseInv /\ FamilyInv /\ NonceInv /\ FeeInv /\ SeenInv /\ IInv /\ SignedNeverCancelled /\ OutcomeInv
  BY DEF SpendInv, PromiseInv
<1>1. PromiseInv'
  <2>1. IInv' /\ OutcomeInv'
    BY <1>0, Inductively, OutcomeStep
  <2>2. SignedNeverCancelled'
    BY <1>0, SignedStays
  <2> QED BY <2>1, <2>2 DEF PromiseInv
<1>2. FamilyInv'
  BY <1>0, FamilyKept, FamilySigned, PayloadFrame
<1>3. NonceInv' /\ FeeInv' /\ SeenInv'
  BY <1>0, NonceStep, FeeStep, SeenStep
<1> QED BY <1>1, <1>2, <1>3, AdmitStep, CoverStep DEF SpendInv

\* Nothing is claimed, signed or mined at first.
LEMMA SpendFirst == Init => SpendInv
<1> SUFFICES ASSUME Init PROVE SpendInv
  OBVIOUS
<1>1. IInv
  BY Initially
<1>2. SignedNeverCancelled /\ OutcomeInv /\ FamilyInv /\ FeeInv /\ SeenInv /\ AdmitInv
  BY DEF Init, SignedNeverCancelled, Signed, OutcomeInv, InBlock, NoRow, RowOf, FamilyInv, FeeInv, SeenInv,
     AdmitInv
<1>3. NonceInv
  <2>1. Claimed = {} /\ Len(mined) = 0 /\ \A i \in Ids : ~HasRow(i)
    BY DEF Init, Claimed, HasRow, NoRow, RowOf
  <2> QED BY <2>1, FS_EmptySet DEF NonceInv
<1>4. CoverInv
  <2>1. Unmined = {} /\ MinedOpen = {}
    BY DEF Init, Unmined, Signed, MinedOpen
  <2>2. Total(Costs, {}) = 0 /\ Total(Debits, {}) = 0
    BY FS_EmptySet, TotalIs
  <2> QED BY <2>1, <2>2, BoundsAssumption DEF CoverInv, Covered
<1> QED BY <1>1, <1>2, <1>3, <1>4 DEF SpendInv, PromiseInv

\* check_commitments under the commitment lock: for any number of sessions, reservations, reviews
\* and fee bumps, any values, any lag of the observed block and wherever a session dies, what is
\* signed and not yet mined never exceeds what the account still holds, when the SDK signs for a
\* reservation only what it was last prepared for.
THEOREM NothingIsOvercommitted == SignBindsReview => (Spec => []NeverOvercommitted)
<1> SUFFICES ASSUME SignBindsReview PROVE Spec => []NeverOvercommitted
  OBVIOUS
<1>1. Init => SpendInv
  BY SpendFirst
<1>2. SpendInv /\ [Next]_vars => SpendInv'
  BY SpendStep
<1>3. SpendInv => NeverOvercommitted
  BY CoverSays DEF SpendInv, PromiseInv
<1> QED BY <1>1, <1>2, <1>3, PTL DEF Spec
=============================================================================
