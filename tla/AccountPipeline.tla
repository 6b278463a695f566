--------------------------- MODULE AccountPipeline ---------------------------
(***************************************************************************)
(* The life of a Quai-ledger spend, from the review to the block.          *)
(*                                                                         *)
(* Several sessions (the terminal's lanes, the daemon, a command line) are  *)
(* open on one wallet account. They share, through files, the SDK's        *)
(* custody store (nonce reservations and signed payloads), the journal     *)
(* (app.sqlite) and two families of kernel file locks; each keeps its own  *)
(* pending reviews in memory and loses them when its process dies.         *)
(*                                                                         *)
(* wallet-core/src: tx.rs (prepare_account .. mark_signed), commitments.rs, *)
(* recovery.rs, appdb.rs (operations), track.rs (inclusion only).          *)
(* The custody store and the node are external: quai-sdk is not in the     *)
(* repository, and is modelled from the calls made to it.                  *)
(***************************************************************************)
EXTENDS Integers, Sequences, FiniteSets, FiniteSetsExt

CONSTANTS
  Sessions,          \* sessions open on the account
  Ids,               \* reservation ids (= journal row ids)
  MaxReviews,        \* bound: reviews prepared in one behaviour
  MaxBump,           \* bound: fee bumps per operation
  MaxRetries,        \* bound: rebroadcasts in one behaviour
  Value,             \* Value[r]: native value review r spends
  Funds,             \* the account's balance before any of it
  AnchorLag,         \* blocks an observation of the balance may lie behind the head
  IncludedAs,        \* statuses an included transaction may be given
  SignBindsReview    \* does the SDK refuse to sign for a reservation reopened since?

Reviews   == 1..MaxReviews
NoReview  == 0                    \* a row whose spend is unknown ("recovered")
Bumps     == 0..MaxBump           \* 0 is the original, k the k-th replacement
Nobody    == "nobody"
NoId      == "no id"
NoHash    == [id |-> NoId, rev |-> 0, k |-> 0]
Open      == {"prepared", "signed", "submitted", "unknown", "settling"}
Terminal  == {"confirmed", "failed", "settled", "cancelled"}
Statuses  == Open \cup Terminal
\* Faulty variant: an operation of unknown outcome is not followed.
AwaitingKnown == {"signed", "submitted"}
Awaiting  == {"signed", "submitted", "unknown"}

ASSUME BoundsAssumption ==
  /\ MaxReviews \in Nat /\ MaxBump \in Nat /\ MaxRetries \in Nat
  /\ Funds \in Nat /\ AnchorLag \in Nat
ASSUME ValueAssumption == Value \in [Reviews -> Nat]
ASSUME NamesAssumption == Nobody \notin Sessions /\ NoId \notin Ids
ASSUME OutcomesAssumption ==
  /\ IncludedAs \subseteq {"confirmed", "failed", "settling"} /\ IncludedAs # {}
  /\ SignBindsReview \in BOOLEAN

\* A signed transaction, named by what it carries.
Candidates == [id : Ids, rev : Reviews, k : Bumps]
Cand(i, r, b) == [id |-> i, rev |-> r, k |-> b]
Fee(b)   == 1 + b
Debit(c) == Value[c.rev] + Fee(c.k)

VARIABLES
  resv,        \* SDK: state of each reservation
  nonceOf,     \* SDK: the nonce it claims
  bound,       \* SDK: the review it was last prepared for
  payload,     \* SDK: its signed candidates
  cursor,      \* SDK: the next nonce never handed out
  sent,        \* candidates some node has accepted
  mined,       \* the account's transactions on the chain, in nonce order
  row,         \* journal: the operations table
  commitLock,  \* holder of the owner's commitment lock
  opLock,      \* holder of each operation lock
  pc,          \* where each session is
  job,         \* what it is working on
  pending,     \* reviews open in its memory
  nrev,        \* reviews prepared so far
  retries      \* rebroadcasts so far

sdk   == <<resv, nonceOf, bound, payload, cursor>>
node  == <<sent, mined>>
locks == <<commitLock, opLock>>
bounds == <<nrev, retries>>
vars  == <<resv, nonceOf, bound, payload, cursor, sent, mined, row, commitLock, opLock,
           pc, job, pending, nrev, retries>>

\* A row of the operations table: its status, the review it describes, the hash it names, the
\* candidates it has recorded, the largest fee it reserves.
RowOf(st, r, h, known, f) == [st |-> st, rev |-> r, hash |-> h, known |-> known, fee |-> f]
NoRow == RowOf("none", NoReview, NoHash, {}, 0)
Moved(w, st, h)  == RowOf(st, w.rev, h, w.known, w.fee)
Marked(w, st, c) == RowOf(st, w.rev, c, w.known \cup {c}, w.fee)

\* What a call works on: an operation, a candidate of it, the block it observed the owner at,
\* the status it read, and the answer to its broadcast.
JobOf(i, r, k, n, from) ==
  [id |-> i, rev |-> r, k |-> k, seen |-> n, from |-> from, reply |-> "none"]
NoJob == JobOf(NoId, NoReview, 0, 0, "none")
Answered(j, r) ==
  [id |-> j.id, rev |-> j.rev, k |-> j.k, seen |-> j.seen, from |-> j.from, reply |-> r]
Replies == {"ok", "ambiguous", "refused"}

Rows == [st : Statuses \cup {"none"}, rev : 0..MaxReviews,
         hash : Candidates \cup {NoHash}, known : SUBSET Candidates, fee : Bumps]
Jobs == [id : Ids \cup {NoId}, rev : 0..MaxReviews, k : Bumps, seen : Nat,
         from : Statuses \cup {"none"}, reply : Replies \cup {"none"}]
Pendings == [id : Ids, rev : Reviews, k : Bumps]
Places == {"idle", "p_lock", "p_sdk", "p_check", "p_insert", "u_check",
           "c_check", "c_sign", "c_mark", "c_send", "c_done",
           "a_lock", "d_release", "d_cancel", "r_send", "r_done", "t_apply"}
ReservationStates == {"none", "reserved", "signed", "released", "confirmed"}

TypeOK ==
  /\ resv \in [Ids -> ReservationStates]
  /\ nonceOf \in [Ids -> Nat] /\ cursor \in Nat
  /\ bound \in [Ids -> 0..MaxReviews]
  /\ payload \in [Ids -> SUBSET Candidates]
  /\ sent \subseteq Candidates /\ mined \in Seq(Candidates)
  /\ row \in [Ids -> Rows]
  /\ commitLock \in Sessions \cup {Nobody}
  /\ opLock \in [Ids -> Sessions \cup {Nobody}]
  /\ pc \in [Sessions -> Places] /\ job \in [Sessions -> Jobs]
  /\ pending \in [Sessions -> SUBSET Pendings]
  /\ nrev \in 0..MaxReviews /\ retries \in Nat

Init ==
  /\ resv = [i \in Ids |-> "none"] /\ nonceOf = [i \in Ids |-> 0] /\ cursor = 0
  /\ bound = [i \in Ids |-> NoReview] /\ payload = [i \in Ids |-> {}]
  /\ sent = {} /\ mined = <<>>
  /\ row = [i \in Ids |-> NoRow]
  /\ commitLock = Nobody /\ opLock = [i \in Ids |-> Nobody]
  /\ pc = [s \in Sessions |-> "idle"] /\ job = [s \in Sessions |-> NoJob]
  /\ pending = [s \in Sessions |-> {}]
  /\ nrev = 0 /\ retries = 0

-----------------------------------------------------------------------------
(* Helpers. *)

ConfirmedNonce == Len(mined)
BalanceAt(n) == Funds - MapThenSumSet(LAMBDA i : Debit(mined[i]), 1..n)
\* The nonce and the balance come from one block; here a block is named by its nonce.
Observable == {n \in 0..Len(mined) : n + AnchorLag >= Len(mined)}

\* The last signed candidate of a family: each replacement raises the fee.
Latest(i) == {c \in payload[i] : \A d \in payload[i] : d.k <= c.k}
HasRow(i) == row[i].st # "none"
Released == {i \in Ids : resv[i] = "released" /\ nonceOf[i] >= ConfirmedNonce}

\* Faulty variant: forgets the reviews of other sessions that are not signed yet.
CountedOnceSigned(own, n) == {i \in Ids \ {own} : row[i].st \in Awaiting /\ nonceOf[i] >= n}
\* Another claim on the owner's funds that a check made at nonce n must add up.
Counted(own, n) == {i \in Ids \ {own} : row[i].st \in Open /\ nonceOf[i] >= n}
Claim(i) == Value[row[i].rev] + Fee(row[i].fee)
\* Fee replacement candidates are mutually exclusive: one family reserves the largest fee.
Wanted(j) == Value[j.rev] + Fee(IF row[j.id].fee > j.k THEN row[j.id].fee ELSE j.k)

CommitmentsHold(j) ==
  LET others == Counted(j.id, j.seen) IN
  /\ \A i \in Ids \ {j.id} : resv[i] \in {"reserved", "signed"} => HasRow(i)
  /\ \A i \in others : row[i].rev # NoReview
  /\ others # {} /\ HasRow(j.id) /\ j.k > 0 => row[j.id].rev # NoReview
  /\ Wanted(j) + MapThenSumSet(Claim, others) <= BalanceAt(j.seen)

\* Both file locks are dropped when the call returns.
CommitLockDropped(s) == commitLock' = IF commitLock = s THEN Nobody ELSE commitLock
OpLocksDropped(s) == opLock' = [i \in Ids |-> IF opLock[i] = s THEN Nobody ELSE opLock[i]]
Return(s) ==
  /\ pc' = [pc EXCEPT ![s] = "idle"] /\ job' = [job EXCEPT ![s] = NoJob]
  /\ CommitLockDropped(s) /\ OpLocksDropped(s)
Goto(s, p) == pc' = [pc EXCEPT ![s] = p]

\* Faulty variant: writes without comparing, as update_operation does.
Overwrite(i, from, new) == row' = [row EXCEPT ![i] = new]
\* transition_operation: a compare-and-set on the status alone.
Transition(i, from, new) ==
  row' = IF row[i].st = from THEN [row EXCEPT ![i] = new] ELSE row

-----------------------------------------------------------------------------
(* Preparing a review: Session::prepare_account. *)

\* Under the commitment lock: the lowest nonce a rejected review left unused, otherwise a
\* reservation id nobody has.
PrepareBegin(s) ==
  /\ pc[s] = "idle" /\ commitLock = Nobody /\ nrev < MaxReviews
  /\ commitLock' = s
  /\ \E i \in Ids :
       /\ IF Released = {} THEN resv[i] = "none" /\ row[i].st = "none"
          ELSE i \in Released /\ \A o \in Released : nonceOf[i] <= nonceOf[o]
       /\ job' = [job EXCEPT ![s] = JobOf(i, NoReview, 0, 0, "none")]
  /\ Goto(s, "p_lock")
  /\ UNCHANGED <<sdk, node, row, opLock, pending, bounds>>

PrepareLock(s) == LET i == job[s].id IN
  /\ pc[s] = "p_lock" /\ opLock[i] = Nobody /\ resv[i] \in {"none", "released"}
  /\ opLock' = [opLock EXCEPT ![i] = s]
  /\ resv' = [resv EXCEPT ![i] = IF @ = "released" THEN "reserved" ELSE @]
  /\ bound' = [bound EXCEPT ![i] = NoReview]
  /\ Goto(s, "p_sdk")
  /\ UNCHANGED <<nonceOf, payload, cursor, node, row, commitLock, job, pending, bounds>>

\* The SDK claims the next nonce (or keeps the reopened one), and the owner is observed.
PrepareReserve(s) == LET i == job[s].id IN
  /\ pc[s] = "p_sdk" /\ nrev < MaxReviews
  /\ resv' = [resv EXCEPT ![i] = "reserved"]
  /\ nonceOf' = [nonceOf EXCEPT ![i] = IF resv[i] = "none" THEN cursor ELSE @]
  /\ cursor' = IF resv[i] = "none" THEN cursor + 1 ELSE cursor
  /\ nrev' = nrev + 1
  /\ bound' = [bound EXCEPT ![i] = nrev + 1]
  /\ \E n \in Observable : job' = [job EXCEPT ![s] = JobOf(i, nrev + 1, 0, n, "none")]
  /\ Goto(s, "p_check")
  /\ UNCHANGED <<payload, node, row, locks, pending, retries>>

\* Faulty variant: revives the row that is there, as it is.
PrepareClearRevive(s) == LET i == job[s].id IN
  /\ pc[s] = "p_check" /\ CommitmentsHold(job[s])
  /\ \/ /\ HasRow(i) /\ row' = [row EXCEPT ![i] = Moved(@, "prepared", NoHash)]
        /\ pending' = [pending EXCEPT ![s] = @ \cup {[id |-> i, rev |-> job[s].rev, k |-> 0]}]
        /\ Return(s)
     \/ ~HasRow(i) /\ Goto(s, "p_insert") /\ UNCHANGED <<row, locks, job, pending>>
  /\ UNCHANGED <<sdk, node, bounds>>
\* finish_account_review, then journal: a row that cannot have been signed makes room ...
PrepareClear(s) == LET i == job[s].id IN
  /\ pc[s] = "p_check" /\ CommitmentsHold(job[s])
  /\ row' = IF row[i].st \in {"cancelled", "prepared"} /\ row[i].hash = NoHash
            THEN [row EXCEPT ![i] = NoRow] ELSE row
  /\ Goto(s, "p_insert")
  /\ UNCHANGED <<sdk, node, locks, job, pending, bounds>>

\* ... for this one, in a statement of its own.
PrepareFinish(s) == LET i == job[s].id IN
  /\ pc[s] = "p_insert" /\ ~HasRow(i)
  /\ row' = [row EXCEPT ![i] = RowOf("prepared", job[s].rev, NoHash, {}, 0)]
  /\ pending' = [pending EXCEPT ![s] = {p \in @ : p.id # i \/ p.k > 0}
                                        \cup {[id |-> i, rev |-> job[s].rev, k |-> 0]}]
  /\ Return(s)
  /\ UNCHANGED <<sdk, node, bounds>>

\* Contention, locked keys, a node error, bytes that do not decode, a balance that cannot
\* cover it, a row that is in the way: what was reserved is released, unless it was the limits
\* or the SDK's store that refused, and both locks with it.
PrepareReject(s) == LET i == job[s].id IN
  /\ pc[s] \in {"p_lock", "p_sdk", "p_check", "p_insert"}
  /\ \/ resv' = resv
     \/ /\ pc[s] # "p_lock" /\ resv[i] = "reserved"
        /\ resv' = [resv EXCEPT ![i] = "released"]
  /\ Return(s)
  /\ UNCHANGED <<nonceOf, bound, payload, cursor, node, row, pending, bounds>>

-----------------------------------------------------------------------------
(* A fee-only replacement: Session::prepare_speed_up. *)

SpeedUpBegin(s, i) ==
  /\ pc[s] = "idle" /\ commitLock = Nobody /\ opLock[i] = Nobody
  /\ row[i].st \in Open /\ resv[i] = "signed"
  /\ commitLock' = s /\ opLock' = [opLock EXCEPT ![i] = s]
  /\ \E n \in Observable, c \in Latest(i) :
       /\ c.k < MaxBump
       /\ job' = [job EXCEPT ![s] = JobOf(i, c.rev, c.k + 1, n, row[i].st)]
  /\ Goto(s, "u_check")
  /\ UNCHANGED <<sdk, node, row, pending, bounds>>

\* The larger fee is reserved in the row before the review is shown.
SpeedUpFinish(s) == LET j == job[s]  w == row[j.id] IN
  /\ pc[s] = "u_check" /\ CommitmentsHold(j) /\ w.st = j.from
  /\ row' = [row EXCEPT ![j.id] =
                RowOf(w.st, w.rev, w.hash, w.known, IF w.fee > j.k THEN w.fee ELSE j.k)]
  /\ pending' = [pending EXCEPT ![s] = @ \cup {[id |-> j.id, rev |-> j.rev, k |-> j.k]}]
  /\ Return(s)
  /\ UNCHANGED <<sdk, node, bounds>>

SpeedUpReject(s) ==
  /\ pc[s] = "u_check"
  /\ Return(s)
  /\ UNCHANGED <<sdk, node, row, pending, bounds>>

-----------------------------------------------------------------------------
(* Approving a review: Session::commit_with. *)

CommitBegin(s, p) ==
  /\ pc[s] = "idle" /\ p \in pending[s] /\ commitLock = Nobody
  /\ p.k > 0 => HasRow(p.id)
  /\ commitLock' = s
  /\ \E n \in Observable :
       job' = [job EXCEPT ![s] = JobOf(p.id, p.rev, p.k, n, "none")]
  /\ Goto(s, "c_check")
  /\ UNCHANGED <<sdk, node, row, opLock, pending, bounds>>

\* Refused before the review is taken out: it stays open.
CommitRefuse(s) ==
  /\ pc[s] = "c_check"
  /\ Return(s)
  /\ UNCHANGED <<sdk, node, row, pending, bounds>>

CommitAdmit(s) == LET j == job[s] IN
  /\ pc[s] = "c_check" /\ CommitmentsHold(j) /\ opLock[j.id] = Nobody
  /\ opLock' = [opLock EXCEPT ![j.id] = s]
  /\ pending' = [pending EXCEPT ![s] = @ \ {[id |-> j.id, rev |-> j.rev, k |-> j.k]}]
  /\ Goto(s, "c_sign")
  /\ UNCHANGED <<sdk, node, row, commitLock, job, bounds>>

\* The SDK signs a first candidate only for a claim still unsigned and held, a replacement
\* only over the latest candidate of a family it has not seen included.
Signable(j) ==
  IF j.k = 0 THEN resv[j.id] = "reserved" /\ (SignBindsReview => bound[j.id] = j.rev)
  ELSE resv[j.id] = "signed" /\ \E c \in Latest(j.id) : c.k = j.k - 1

\* Faulty variant: broadcasts before the journal is told.
CommitSignAndSend(s) == LET j == job[s] IN
  /\ pc[s] = "c_sign" /\ Signable(j)
  /\ resv' = [resv EXCEPT ![j.id] = "signed"]
  /\ payload' = [payload EXCEPT ![j.id] = @ \cup {Cand(j.id, j.rev, j.k)}]
  /\ Goto(s, "c_send")
  /\ UNCHANGED <<nonceOf, bound, cursor, node, row, locks, job, pending, bounds>>

\* Signed bytes are persisted by the SDK before the journal hears of them.
CommitSign(s) == LET j == job[s] IN
  /\ pc[s] = "c_sign" /\ Signable(j)
  /\ resv' = [resv EXCEPT ![j.id] = "signed"]
  /\ payload' = [payload EXCEPT ![j.id] = @ \cup {Cand(j.id, j.rev, j.k)}]
  /\ Goto(s, "c_mark")
  /\ UNCHANGED <<nonceOf, bound, cursor, node, row, locks, job, pending, bounds>>

\* The SDK refused, the keys are gone, or the disk failed: nothing is signed.
CommitSignFails(s) ==
  /\ pc[s] = "c_sign"
  /\ Return(s)
  /\ UNCHANGED <<sdk, node, row, pending, bounds>>

\* mark_signed: only over a review still waiting.
CommitMark(s) == LET j == job[s]  c == Cand(j.id, j.rev, j.k) IN
  /\ pc[s] = "c_mark" /\ j.k = 0 /\ row[j.id].st = "prepared"
  /\ Transition(j.id, "prepared", Marked(row[j.id], "signed", c))
  /\ Goto(s, "c_send")
  /\ UNCHANGED <<sdk, node, locks, job, pending, bounds>>

\* "this review is cancelled now; nothing was broadcast"
CommitMarkRefused(s) ==
  /\ pc[s] = "c_mark" /\ job[s].k = 0 /\ row[job[s].id].st # "prepared"
  /\ Return(s)
  /\ UNCHANGED <<sdk, node, row, pending, bounds>>

\* record_signed_candidate: the family grows; a canonical inclusion keeps its word.
CommitRecord(s) == LET j == job[s]  i == j.id  w == row[i]  c == Cand(i, j.rev, j.k) IN
  /\ pc[s] = "c_mark" /\ j.k > 0 /\ HasRow(i)
  /\ row' = [row EXCEPT ![i] =
       IF w.st \in Terminal \cup {"settling"}
       THEN RowOf(w.st, w.rev, w.hash, w.known \cup {c}, w.fee)
       ELSE Marked(w, "submitted", c)]
  /\ Goto(s, "c_send")
  /\ UNCHANGED <<sdk, node, locks, job, pending, bounds>>

\* What a broadcast can come to: accepted and said so, accepted or not with the answer
\* lost, refused. The caller only learns the reply.
Broadcast(c, r) ==
  \/ r \in {"ok", "ambiguous"} /\ sent' = sent \cup {c}
  \/ r \in {"ambiguous", "refused"} /\ sent' = sent

CommitSend(s) == LET j == job[s] IN
  /\ pc[s] = "c_send"
  /\ \E r \in Replies : /\ Broadcast(Cand(j.id, j.rev, j.k), r)
                        /\ job' = [job EXCEPT ![s] = Answered(j, r)]
  /\ Goto(s, "c_done")
  /\ UNCHANGED <<sdk, mined, row, locks, pending, bounds>>

\* Faulty variant: stores the reply itself as the status.
AfterReplyVerbatim(r) == IF r = "ok" THEN "submitted" ELSE r
\* finish_broadcast, from the status the operation had when the broadcast started.
AfterReply(r) == CASE r = "ok" -> "submitted" [] r = "ambiguous" -> "unknown" [] OTHER -> "signed"
FinishBroadcast(j, c, from) ==
  Transition(j.id, from, Moved(row[j.id], AfterReply(j.reply), c))

CommitDone(s) == LET j == job[s] IN
  /\ pc[s] = "c_done"
  /\ FinishBroadcast(j, Cand(j.id, j.rev, j.k), IF j.k = 0 THEN "signed" ELSE "submitted")
  /\ Return(s)
  /\ UNCHANGED <<sdk, node, pending, bounds>>

-----------------------------------------------------------------------------
(* Rejecting a review: Session::discard, and Session::abandon for a review whose *)
(* process is gone.                                                              *)

\* The review leaves memory first; if another session holds the operation, only that.
DiscardBegin(s, p) ==
  /\ pc[s] = "idle" /\ p \in pending[s]
  /\ pending' = [pending EXCEPT ![s] = @ \ {p}]
  /\ IF p.k = 0 /\ opLock[p.id] = Nobody
     THEN /\ opLock' = [opLock EXCEPT ![p.id] = s]
          /\ job' = [job EXCEPT ![s] = JobOf(p.id, p.rev, 0, 0, "none")]
          /\ Goto(s, "d_release")
     ELSE UNCHANGED <<opLock, job, pc>>
  /\ UNCHANGED <<sdk, node, row, commitLock, bounds>>

AbandonBegin(s, i) ==
  /\ pc[s] = "idle" /\ row[i].st = "prepared"
  /\ \A p \in pending[s] : p.id = i => p.k > 0
  /\ job' = [job EXCEPT ![s] = JobOf(i, NoReview, 0, 0, "none")]
  /\ Goto(s, "a_lock")
  /\ UNCHANGED <<sdk, node, row, locks, pending, bounds>>

\* Faulty variant: trusts that the review's process is gone.
AbandonLockless(s) ==
  /\ pc[s] = "a_lock"
  /\ Goto(s, "d_release")
  /\ UNCHANGED <<sdk, node, row, locks, job, pending, bounds>>

AbandonLock(s) == LET i == job[s].id IN
  /\ pc[s] = "a_lock" /\ opLock[i] = Nobody
  /\ opLock' = [opLock EXCEPT ![i] = s]
  /\ Goto(s, "d_release")
  /\ UNCHANGED <<sdk, node, row, commitLock, job, pending, bounds>>

\* Faulty variant: cancels even when the release was refused.
DiscardReleaseOrNot(s) == LET i == job[s].id IN
  /\ pc[s] = "d_release"
  /\ resv' = [resv EXCEPT ![i] = IF @ = "reserved" THEN "released" ELSE @]
  /\ Goto(s, "d_cancel")
  /\ UNCHANGED <<nonceOf, bound, payload, cursor, node, row, locks, job, pending, bounds>>

\* release_unsigned; what the SDK answers for a claim already released is left open.
DiscardRelease(s) == LET i == job[s].id IN
  /\ pc[s] = "d_release" /\ resv[i] \in {"reserved", "released"}
  /\ resv' = [resv EXCEPT ![i] = "released"]
  /\ Goto(s, "d_cancel")
  /\ UNCHANGED <<nonceOf, bound, payload, cursor, node, row, locks, job, pending, bounds>>

DiscardRefused(s) ==
  /\ \/ pc[s] = "a_lock"
     \/ pc[s] = "d_release" /\ resv[job[s].id] # "reserved"
  /\ Return(s)
  /\ UNCHANGED <<sdk, node, row, pending, bounds>>

\* update_operation: whatever the row says by now, it is cancelled.
DiscardCancel(s) == LET i == job[s].id IN
  /\ pc[s] = "d_cancel"
  /\ row' = IF HasRow(i) THEN [row EXCEPT ![i] = Moved(@, "cancelled", @.hash)] ELSE row
  /\ Return(s)
  /\ UNCHANGED <<sdk, node, pending, bounds>>

-----------------------------------------------------------------------------
(* Session::rebroadcast takes no lock: it reads the row, sends, then finishes. *)

RebroadcastBegin(s, i) ==
  /\ pc[s] = "idle" /\ retries < MaxRetries
  /\ row[i].st \in Open /\ row[i].hash # NoHash
  /\ job' = [job EXCEPT ![s] = JobOf(i, row[i].hash.rev, row[i].hash.k, 0, row[i].st)]
  /\ retries' = retries + 1
  /\ Goto(s, "r_send")
  /\ UNCHANGED <<sdk, node, row, locks, pending, nrev>>

RebroadcastSend(s) == LET j == job[s] IN
  /\ pc[s] = "r_send"
  /\ \E r \in Replies : /\ Broadcast(Cand(j.id, j.rev, j.k), r)
                        /\ job' = [job EXCEPT ![s] = Answered(j, r)]
  /\ Goto(s, "r_done")
  /\ UNCHANGED <<sdk, mined, row, locks, pending, bounds>>

RebroadcastDone(s) == LET j == job[s] IN
  /\ pc[s] = "r_done"
  /\ FinishBroadcast(j, Cand(j.id, j.rev, j.k), j.from)
  /\ Return(s)
  /\ UNCHANGED <<sdk, node, pending, bounds>>

-----------------------------------------------------------------------------
(* Recovery and tracking. *)

\* Faulty variant: exposes orphans but leaves an existing row alone.
ReconciledOrphan(i) ==
  {IF HasRow(i) THEN row[i] ELSE RowOf("prepared", NoReview, NoHash, {}, 0)}
\* reconcile_custody, for one reservation: an orphan claim becomes a recovered row, and
\* signed bytes the journal missed become the row's hash. Nothing is sent or released.
Reconciled(i) ==
  LET w == IF HasRow(i) THEN row[i] ELSE RowOf("prepared", NoReview, NoHash, {}, 0)
      st == IF w.st = "prepared" THEN "signed" ELSE w.st
  IN  IF payload[i] = {} THEN {w}
      ELSE {RowOf(st, w.rev, h, payload[i], w.fee) :
              h \in IF st \in Terminal \cup {"settling"} THEN {w.hash} ELSE Latest(i)}

Reconcile(s, i) ==
  /\ pc[s] = "idle" /\ opLock[i] = Nobody
  /\ \/ resv[i] \in {"reserved", "signed"}
     \/ resv[i] = "confirmed" /\ HasRow(i)
  /\ \E r \in Reconciled(i) : row' = [row EXCEPT ![i] = r]
  /\ UNCHANGED <<sdk, node, locks, pc, job, pending, bounds>>

\* reconcile_ops reads the rows first and locks each operation later.
TrackRead(s, i) ==
  /\ pc[s] = "idle" /\ row[i].st \in Open \ {"prepared"}
  /\ job' = [job EXCEPT ![s] = JobOf(i, NoReview, 0, 0, row[i].st)]
  /\ Goto(s, "t_apply")
  /\ UNCHANGED <<sdk, node, row, locks, pending, bounds>>

Included(i) == {c \in {mined[n] : n \in 1..Len(mined)} : c.id = i}

\* The family's canonical candidate decides; without one, only "unknown" can still move.
TrackAdvance(s) == LET i == job[s].id  from == job[s].from IN
  /\ pc[s] = "t_apply" /\ opLock[i] = Nobody
  /\ \/ /\ from \in Awaiting
        /\ \E c \in Included(i), st \in IncludedAs :
             Transition(i, from, Moved(row[i], st, c))
        /\ resv' = [resv EXCEPT ![i] = "confirmed"]
     \/ /\ from = "unknown" /\ Included(i) = {}
        /\ \E c \in sent : c.id = i
        /\ Transition(i, from, Moved(row[i], "submitted", row[i].hash))
        /\ UNCHANGED resv
     \/ /\ from = "settling"
        /\ Transition(i, from, Moved(row[i], "settled", row[i].hash))
        /\ UNCHANGED resv
  /\ Return(s)
  /\ UNCHANGED <<nonceOf, bound, payload, cursor, node, pending, bounds>>

\* The operation is busy in another session, nothing is known yet, or the node failed.
TrackSkip(s) ==
  /\ pc[s] = "t_apply"
  /\ Return(s)
  /\ UNCHANGED <<sdk, node, row, pending, bounds>>

-----------------------------------------------------------------------------
(* The world: a process dies, a block is mined. *)

\* Kernel locks go with the process; so does everything it had not written.
Crash(s) ==
  /\ pc[s] # "idle" \/ pending[s] # {}
  /\ pending' = [pending EXCEPT ![s] = {}]
  /\ Return(s)
  /\ UNCHANGED <<sdk, node, row, bounds>>

Mine(c) ==
  /\ nonceOf[c.id] = ConfirmedNonce
  /\ Debit(c) <= BalanceAt(ConfirmedNonce)
  /\ mined' = Append(mined, c)
  /\ UNCHANGED <<sdk, sent, row, locks, pc, job, pending, bounds>>

\* The steps of a call under way, up to its return.
Proceed(s) ==
  \/ PrepareLock(s) \/ PrepareReserve(s) \/ PrepareClear(s) \/ PrepareFinish(s) \/ PrepareReject(s)
  \/ SpeedUpFinish(s) \/ SpeedUpReject(s)
  \/ CommitRefuse(s) \/ CommitAdmit(s) \/ CommitSign(s) \/ CommitSignFails(s)
  \/ CommitMark(s) \/ CommitMarkRefused(s) \/ CommitRecord(s) \/ CommitSend(s) \/ CommitDone(s)
  \/ AbandonLock(s) \/ DiscardRelease(s) \/ DiscardRefused(s) \/ DiscardCancel(s)
  \/ RebroadcastSend(s) \/ RebroadcastDone(s)
  \/ TrackAdvance(s) \/ TrackSkip(s)

\* The calls a user, the terminal or the daemon may start.
Begin(s) ==
  \/ PrepareBegin(s)
  \/ \E p \in pending[s] : CommitBegin(s, p) \/ DiscardBegin(s, p)
  \/ \E i \in Ids : SpeedUpBegin(s, i) \/ AbandonBegin(s, i) \/ RebroadcastBegin(s, i)
                    \/ Reconcile(s, i) \/ TrackRead(s, i)

Next ==
  \/ \E s \in Sessions : Begin(s) \/ Proceed(s) \/ Crash(s)
  \/ \E c \in sent : Mine(c)

Spec == Init /\ [][Next]_vars

\* A call under way returns. Tracking runs every few seconds for as long as an operation is
\* open and tries each one again whatever happened the last time: an operation that can be
\* reconciled, or has an answer to be recorded, again and again is so at last.
Fairness == \A s \in Sessions :
  /\ WF_vars(Proceed(s)) /\ SF_vars(TrackAdvance(s))
  /\ \A i \in Ids : SF_vars(Reconcile(s, i)) /\ SF_vars(TrackRead(s, i))

FairSpec == Spec /\ Fairness

-----------------------------------------------------------------------------
(* Properties. *)

Signed(i) == payload[i] # {}
Unmined == {i \in Ids : Signed(i) /\ Included(i) = {}}
FamilyDebit(i) == Max({Debit(c) : c \in payload[i]})
\* Mined spends whose row the tracker has already closed.
Closed == {n \in 1..Len(mined) : row[mined[n].id].st \in Terminal}

\* check_commitments under the commitment lock: whatever the sessions do, what is signed and
\* not yet mined never exceeds what the account still holds, the debits of operations the
\* journal closed apart (an observation may predate those: see BalanceCoversUnmined).
NeverOvercommitted ==
  MapThenSumSet(FamilyDebit, Unmined)
    <= BalanceAt(Len(mined)) + MapThenSumSet(LAMBDA n : Debit(mined[n]), Closed)

\* mark_signed and record_signed_candidate come before the broadcast: nothing a node has
\* accepted is unknown to the journal, so a crash at any point cannot lose a sent spend.
SentIsJournalled == \A c \in sent : c \in row[c.id].known

\* release_unsigned before update_operation: a row is never cancelled (or removed) over
\* signed bytes, whichever session discards, abandons or reuses the reservation.
SignedNeverCancelled == \A i \in Ids : Signed(i) => row[i].st \notin {"none", "cancelled"}

\* mark_signed: the signature a row records was made over the review the row describes, even
\* when the reservation was abandoned and reopened by another session in between.
JournalNamesItsSignature ==
  \A i \in Ids : row[i].hash # NoHash /\ row[i].rev # NoReview => row[i].hash.rev = row[i].rev

\* transition_operation: a broadcast, a rebroadcast or a tracker that returns late never
\* undoes an operation that is done, and a cancelled row only gives way to a new review.
TerminalIsFinal == [][\A i \in Ids :
  row[i].st \in Terminal =>
    \/ row'[i].st = row[i].st
    \/ row[i].st = "cancelled" /\ row'[i].st = "none" /\ ~Signed(i)]_vars

\* commitments.rs: "Only a same-block observed consumed nonce proves this debit is already
\* reflected by the observed balance; cached receipt status is insufficient."
BalanceCoversUnmined == MapThenSumSet(FamilyDebit, Unmined) <= BalanceAt(Len(mined))

\* tx.rs, finish_broadcast: "its real status is reported, not overwritten with "unknown" or
\* "not submitted"". An operation the journal knows to be in a block stays known to be.
InclusionIsReported == [][\A i \in Ids :
  row[i].st = "settling" => row'[i].st \notin Awaiting]_vars

\* tx.rs, abandon and recovery.rs: a claim left by a process that died is exposed as a
\* prepared row, and abandoning that row is the way to release its nonce.
OrphanClaimIsExposed == \A i \in Ids :
  resv[i] = "reserved" /\ opLock[i] = Nobody => row[i].st \in {"none", "prepared"}

\* tx.rs, discard: "Reject a reviewed operation and release its unsigned reservation."
DiscardCancelsItsReview == \A s \in Sessions :
  pc[s] = "d_cancel" /\ job[s].rev # NoReview /\ HasRow(job[s].id)
    => row[job[s].id].rev = job[s].rev

\* reconcile_custody: a signature persisted just before a crash reaches the journal.
SignedIsNoticed == \A i \in Ids : Signed(i) ~> row[i].hash # NoHash

\* reconcile_ops: an included spend is concluded in the journal, through crashes, lost replies
\* and rebroadcasts.
IncludedIsConcluded == \A i \in Ids : Included(i) # {} ~> row[i].st \in Terminal

-----------------------------------------------------------------------------
(* The promise it implements. *)

Life(i) == CASE Included(i) # {} -> "included"
             [] Included(i) = {} /\ (\E c \in sent : c.id = i) -> "sent"
             [] (\A c \in sent : c.id # i) /\ Signed(i) -> "signed"
             [] ~Signed(i) /\ resv[i] = "reserved" -> "review"
             [] OTHER -> "free"
Word(i) == CASE row[i].st = "none" -> "nothing"
             [] row[i].st = "prepared" -> "waiting"
             [] row[i].st = "cancelled" -> "cancelled"
             [] row[i].st \in Awaiting \cup {"settling"} -> "signed"
             [] OTHER -> "concluded"

Promise == INSTANCE SpendLife WITH
  life <- [i \in Ids |-> Life(i)], says <- [i \in Ids |-> Word(i)]

\* Every behaviour of the pipeline is one SpendLife allows.
KeepsThePromise == Promise!Spec

=============================================================================
