----------------------------- MODULE QiPipeline -----------------------------
(***************************************************************************)
(* The life of a Qi-ledger spend: coins instead of a nonce, change          *)
(* addresses instead of a balance.                                         *)
(*                                                                         *)
(* A review claims coins in the SDK's Qi store and takes fresh change       *)
(* addresses from a pool held in memory; what the pool does not use, and    *)
(* the change of a rejected review, is handed back so that later change     *)
(* stays inside the window a restore from the seed scans. A fee bump can    *)
(* only give up some of the transaction's own change outputs.               *)
(*                                                                         *)
(* wallet-core/src: ops.rs (change_pool .. prepare_qi_special), tx.rs       *)
(* (commit_with, discard, abandon, prepare_qi_speed_up), recovery.rs,       *)
(* track.rs (track_qi_op, track_qi_family). The Qi store and the node are   *)
(* external: quai-sdk is modelled from the calls made to it.                *)
(***************************************************************************)
EXTENDS Integers, Sequences, FiniteSets, FiniteSetsExt, Folds

CONSTANTS
  Sessions,      \* sessions open on the wallet
  Ops,           \* operation ids
  MaxAddress,    \* bound: change addresses the account can derive here
  WideGaps,      \* addresses so far behind the previous one that a pool cannot reach them
  FirstPool,     \* the pool size estimate_change asks for
  MaxPool,       \* the largest pool a review grows to
  Quotes,        \* the change a spend may need: sequences of denominations
  QuotedFee,     \* the fee the node quotes for it
  Percents,      \* the bumps a user may ask for, in percent
  MaxEffort,     \* bound: calls started in one behaviour, a preparation counting for two
  IncludedAs     \* statuses an included transaction may be given

Nobody    == "nobody"
NoOp      == "no operation"
Addresses == 1..MaxAddress
Terminal  == {"confirmed", "failed", "settled", "cancelled"}
Awaiting  == {"signed", "submitted", "unknown"}
Concluded == Terminal \cup {"settling"}

ASSUME QiBounds ==
  /\ MaxAddress \in Nat /\ WideGaps \subseteq Addresses
  /\ FirstPool \in Nat \ {0} /\ MaxPool \in Nat /\ FirstPool <= MaxPool
  /\ QuotedFee \in Nat /\ Percents \subseteq Nat /\ MaxEffort \in Nat
ASSUME QiQuotes == Quotes \subseteq Seq(Nat \ {0})
ASSUME QiNames == Nobody \notin Sessions /\ NoOp \notin Ops
ASSUME QiOutcomes == IncludedAs \subseteq {"confirmed", "failed", "settling"}

VARIABLES
  resv,      \* Qi store: state of each claim on coins
  worth,     \* Qi store: the change outputs of the claim's transaction, address -> denomination
  family,    \* Qi store: its signed candidates, each by the change it keeps
  issued,    \* Qi store: the last change address derived
  free,      \* Qi store: change addresses handed back
  sent,      \* candidates some node has accepted
  mined,     \* the candidate a block holds, 0 while there is none
  row,       \* journal: the operations table
  opLock,    \* holder of each operation lock
  pc,        \* where each session is
  job,       \* what it is working on
  pending,   \* reviews open in its memory
  effort     \* calls started so far

claims == <<resv, worth, family>>
pools  == <<issued, free>>
node   == <<sent, mined>>
vars   == <<resv, worth, family, issued, free, sent, mined, row, opLock, pc, job, pending, effort>>

-----------------------------------------------------------------------------
(* Change and fees. *)

Total(w, A) == MapThenSumSet(LAMBDA a : w[a], A)
Lowest(n, S) == {a \in S : Cardinality({b \in S : b < a}) < n}

\* A signed candidate: the change it keeps and the bump that was asked of it.
Candidate(kept, pct, priced) == [kept |-> kept, pct |-> pct, priced |-> priced]
FeeOf(o, c) == QuotedFee + Total(worth[o], DOMAIN worth[o]) - Total(worth[o], c.kept)
Newest(o) == Len(family[o])

\* Faulty variant: a bump of zero percent raises nothing.
FeeIncreaseBare(fee, change, pct) == Min({(fee * (100 + pct)) \div 100, fee + change}) - fee
\* fee_increase: at least one qit, at most all the change.
FeeIncrease(fee, change, pct) ==
  Min({Max({(fee * (100 + pct)) \div 100, fee + 1}), fee + change}) - fee

\* Of the change that is left, the one tried last: the smallest, of equals the latest.
TriedLast(w, change) == CHOOSE a \in change :
  \A b \in change \ {a} : w[b] > w[a] \/ (w[b] = w[a] /\ b < a)

\* Faulty variant: keeps the coin that crosses the budget as well.
KeptOver(w, change, budget) ==
  MapThenFoldSet(LAMBDA a, kept : IF Total(w, kept) < budget THEN kept \cup {a} ELSE kept,
                 {}, LAMBDA a : a, LAMBDA left : TriedLast(w, left), change)
\* kept_change: largest first, each one that still fits.
Kept(w, change, budget) ==
  MapThenFoldSet(LAMBDA a, kept : IF Total(w, kept) + w[a] <= budget THEN kept \cup {a} ELSE kept,
                 {}, LAMBDA a : a, LAMBDA left : TriedLast(w, left), change)

-----------------------------------------------------------------------------
(* Rows, calls, locks. *)

\* fee: what the row says the transaction pays; listed: the detail names candidates.
Row(st, hash, known, fee, listed) ==
  [st |-> st, hash |-> hash, known |-> known, fee |-> fee, listed |-> listed]
NoRow == Row("none", 0, {}, 0, FALSE)
Moved(w, st, k) == Row(st, k, w.known, w.fee, w.listed)

\* review: the candidate to be signed (k is its place in the family). pool, size: the change pool
\* of a preparation. from, fee, listed: what was read of the row.
JobOf(o, k, review) == [op |-> o, k |-> k, review |-> review, pool |-> {}, size |-> 0,
                        from |-> "none", fee |-> 0, listed |-> FALSE, reply |-> "none"]
NoCandidate == Candidate({}, 0, FALSE)
NoJob == JobOf(NoOp, 0, NoCandidate)
ReadOf(o) == [JobOf(o, row[o].hash, NoCandidate) EXCEPT
                !.from = row[o].st, !.fee = row[o].fee, !.listed = row[o].listed]
Review(o, k, c) == [op |-> o, k |-> k, review |-> c]

Goto(s, p) == pc' = [pc EXCEPT ![s] = p]
Return(s) ==
  /\ Goto(s, "idle") /\ job' = [job EXCEPT ![s] = NoJob]
  /\ opLock' = [o \in Ops |-> IF opLock[o] = s THEN Nobody ELSE opLock[o]]
Lock(s, o) == opLock[o] = Nobody /\ opLock' = [opLock EXCEPT ![o] = s]
Transition(o, from, new) == row' = IF row[o].st = from THEN [row EXCEPT ![o] = new] ELSE row

\* A call to a bounded number of which the model looks.
Costs(n) == effort + n <= MaxEffort /\ effort' = effort + n

QiTypeOK ==
  /\ resv \in [Ops -> {"none", "reserved", "signed", "released", "confirmed"}]
  /\ \A o \in Ops : DOMAIN worth[o] \subseteq 1..issued
  /\ \A o \in Ops : \A k \in DOMAIN family[o] : family[o][k].kept \subseteq DOMAIN worth[o]
  /\ issued \in 0..MaxAddress /\ free \subseteq 1..issued
  /\ \A o \in Ops : sent[o] \subseteq DOMAIN family[o] /\ mined[o] \in sent[o] \cup {0}
  /\ \A o \in Ops : row[o].known \subseteq DOMAIN family[o] /\ row[o].hash \in 0..Newest(o)
  /\ opLock \in [Ops -> Sessions \cup {Nobody}]
  /\ \A s \in Sessions : job[s].op \in Ops \cup {NoOp} /\ (pc[s] = "idle" => job[s] = NoJob)
  /\ \A s \in Sessions : \A p \in pending[s] : p.op \in Ops /\ p.k \in 1..MaxEffort

Init ==
  /\ resv = [o \in Ops |-> "none"] /\ worth = [o \in Ops |-> <<>>]
  /\ family = [o \in Ops |-> <<>>] /\ issued = 0 /\ free = {}
  /\ sent = [o \in Ops |-> {}] /\ mined = [o \in Ops |-> 0]
  /\ row = [o \in Ops |-> NoRow] /\ opLock = [o \in Ops |-> Nobody]
  /\ pc = [s \in Sessions |-> "idle"] /\ job = [s \in Sessions |-> NoJob]
  /\ pending = [s \in Sessions |-> {}] /\ effort = 0

-----------------------------------------------------------------------------
(* Preparing: review_send_qi, review_consolidate, prepare_qi_special; review_sweep_qi has no *)
(* change and no pool.                                                                       *)

PrepareBegin(s, o) ==
  /\ pc[s] = "idle" /\ resv[o] = "none" /\ row[o].st = "none" /\ Lock(s, o)
  /\ Costs(2)
  /\ job' = [job EXCEPT ![s] = [JobOf(o, 1, NoCandidate) EXCEPT !.size = FirstPool]]
  /\ \E p \in {"p_pool", "p_sweep"} : Goto(s, p)
  /\ UNCHANGED <<claims, pools, node, row, pending>>

\* The first place from which the pool meets no wide gap: what lies before it is burned.
Starts(n) == {c \in issued..MaxAddress - n : (c + 1)..(c + n) \cap WideGaps = {}}

\* Faulty variant: takes released addresses without taking them off the list.
AllocateCopies(s) == LET n == job[s].size  old == Lowest(n, free)  fresh == n - Cardinality(old) IN
  /\ pc[s] = "p_pool" /\ Starts(n) # {}
  /\ LET start == Min(Starts(n)) IN
       /\ job' = [job EXCEPT ![s].pool = old \cup (start + 1)..(start + fresh)]
       /\ issued' = start + fresh
  /\ Goto(s, "p_sdk")
  /\ UNCHANGED <<claims, free, node, row, opLock, pending, effort>>

\* change_pool: released addresses come first.
Allocate(s) == LET n == job[s].size  old == Lowest(n, free)  fresh == n - Cardinality(old) IN
  /\ pc[s] = "p_pool" /\ Starts(n) # {}
  /\ LET start == Min(Starts(n)) IN
       /\ job' = [job EXCEPT ![s].pool = old \cup (start + 1)..(start + fresh)]
       /\ issued' = start + fresh
  /\ free' = free \ old
  /\ Goto(s, "p_sdk")
  /\ UNCHANGED <<claims, node, row, opLock, pending, effort>>

\* InsufficientChange: the small pool is handed back (a failure is only traced) before a
\* bigger one is asked for.
Grow(s) ==
  /\ pc[s] = "p_sdk" /\ job[s].size < MaxPool
  /\ free' \in {free, free \cup job[s].pool}
  /\ job' = [job EXCEPT ![s].pool = {}, ![s].size = Min({2 * @, MaxPool})]
  /\ Goto(s, "p_pool")
  /\ UNCHANGED <<claims, issued, node, row, opLock, pending, effort>>

\* The SDK claims the coins and gives each change output an address of the pool.
Claim(s) == LET o == job[s].op  pool == job[s].pool IN
  /\ pc[s] = "p_sdk"
  /\ \E q \in Quotes :
       /\ Len(q) <= Cardinality(pool)
       /\ LET mine == Lowest(Len(q), pool) IN
            /\ worth' = [worth EXCEPT ![o] = [a \in mine |-> q[Cardinality({b \in mine : b <= a})]]]
            /\ job' = [job EXCEPT ![s].pool = pool \ mine, ![s].review = Candidate(mine, 0, TRUE)]
  /\ resv' = [resv EXCEPT ![o] = "reserved"]
  /\ Goto(s, "p_rest")
  /\ UNCHANGED <<family, pools, node, row, opLock, pending, effort>>

ClaimSweep(s) ==
  /\ pc[s] = "p_sweep"
  /\ resv' = [resv EXCEPT ![job[s].op] = "reserved"]
  /\ job' = [job EXCEPT ![s].review = Candidate({}, 0, TRUE)]
  /\ Goto(s, "p_insert")
  /\ UNCHANGED <<worth, family, pools, node, row, opLock, pending, effort>>

\* Faulty variant: gives back all that was allocated.
HandBackAll(s) ==
  /\ pc[s] = "p_rest"
  /\ free' = free \cup job[s].pool \cup job[s].review.kept
  /\ job' = [job EXCEPT ![s].pool = {}]
  /\ Goto(s, "p_insert")
  /\ UNCHANGED <<claims, issued, node, row, opLock, pending, effort>>

\* release_pool; a failure is only traced.
HandBack(s) ==
  /\ pc[s] = "p_rest"
  /\ free' \in {free, free \cup job[s].pool}
  /\ job' = [job EXCEPT ![s].pool = {}]
  /\ Goto(s, "p_insert")
  /\ UNCHANGED <<claims, issued, node, row, opLock, pending, effort>>

\* The spend was refused: the pool goes back, unless it was a refresh or the keyring that
\* failed, which return at once.
PrepareFails(s) ==
  /\ pc[s] \in {"p_pool", "p_sweep", "p_sdk"}
  /\ free' \in {free, free \cup job[s].pool}
  /\ Return(s)
  /\ UNCHANGED <<claims, issued, node, row, pending, effort>>

Journal(s) == LET o == job[s].op IN
  /\ pc[s] = "p_insert"
  /\ row' = [row EXCEPT ![o] = Row("prepared", 0, {}, QuotedFee, FALSE)]
  /\ pending' = [pending EXCEPT ![s] = @ \cup {Review(o, 1, job[s].review)}]
  /\ Return(s)
  /\ UNCHANGED <<claims, pools, node, effort>>

\* release_unsigned when the journal refuses; a review that cannot be built keeps its claim.
JournalFails(s) ==
  /\ pc[s] = "p_insert"
  /\ \E st \in {"released", "reserved"} : resv' = [resv EXCEPT ![job[s].op] = st]
  /\ Return(s)
  /\ UNCHANGED <<worth, family, pools, node, row, pending, effort>>

-----------------------------------------------------------------------------
(* prepare_qi_speed_up: holds no lock; reads the row, waits for the node, then the family. *)

SpeedUpBegin(s, o) ==
  /\ pc[s] = "idle" /\ row[o].st \notin Terminal \cup {"none"} /\ Costs(1)
  /\ job' = [job EXCEPT ![s] = ReadOf(o)]
  /\ Goto(s, "u_offer")
  /\ UNCHANGED <<claims, pools, node, row, opLock, pending>>

\* The newest candidate is the one to beat.
Parent(o) == Newest(o)

\* Priced from the coins, or from the row when a coin is gone. FeeBudgetExceeded leaves one more
\* offer: all the change. The review replaces an earlier one over the same parent.
SpeedUpOffer(s) == LET o == job[s].op  change == family[o][Parent(o)].kept IN
  /\ pc[s] = "u_offer" /\ resv[o] = "signed" /\ change # {}
  /\ \E pct \in Percents, priced \in BOOLEAN, all \in BOOLEAN :
       LET had  == Total(worth[o], change)
           paid == IF priced THEN FeeOf(o, family[o][Parent(o)]) ELSE job[s].fee
           more == IF all THEN had ELSE FeeIncrease(paid, had, pct)
           kept == Kept(worth[o], change, had - more)
       IN  pending' = [pending EXCEPT ![s] = {p \in @ : p.op # o \/ p.k # Parent(o) + 1}
                         \cup {Review(o, Parent(o) + 1, Candidate(kept, pct, priced))}]
  /\ Return(s)
  /\ UNCHANGED <<claims, pools, node, row, effort>>

SpeedUpFails(s) ==
  /\ pc[s] = "u_offer"
  /\ Return(s)
  /\ UNCHANGED <<claims, pools, node, row, pending, effort>>

-----------------------------------------------------------------------------
(* Approving: the Qi branches of commit_with. *)

CommitBegin(s, p) ==
  /\ pc[s] = "idle" /\ p \in pending[s] /\ Lock(s, p.op)
  /\ pending' = [pending EXCEPT ![s] = @ \ {p}]
  /\ job' = [job EXCEPT ![s] = JobOf(p.op, p.k, p.review)]
  /\ Goto(s, "c_sign")
  /\ UNCHANGED <<claims, pools, node, row, effort>>

\* sign: only a claim still held and unsigned; sign_replacement: only over the newest candidate.
Signable(j) == IF j.k = 1 THEN resv[j.op] = "reserved"
               ELSE resv[j.op] = "signed" /\ Newest(j.op) = j.k - 1

\* Faulty variant: broadcasts before the journal is told.
SignAndSend(s) == LET j == job[s] IN
  /\ pc[s] = "c_sign" /\ Signable(j)
  /\ resv' = [resv EXCEPT ![j.op] = "signed"]
  /\ family' = [family EXCEPT ![j.op] = Append(@, j.review)]
  /\ Goto(s, "c_send")
  /\ UNCHANGED <<worth, pools, node, row, opLock, job, pending, effort>>

Sign(s) == LET j == job[s] IN
  /\ pc[s] = "c_sign" /\ Signable(j)
  /\ resv' = [resv EXCEPT ![j.op] = "signed"]
  /\ family' = [family EXCEPT ![j.op] = Append(@, j.review)]
  /\ Goto(s, "c_mark")
  /\ UNCHANGED <<worth, pools, node, row, opLock, job, pending, effort>>

\* The SDK or the keyring refused, or the row is not what it was: nothing goes out.
CommitRefused(s) ==
  /\ \/ pc[s] = "c_sign"
     \/ pc[s] = "c_mark" /\ job[s].k = 1 /\ row[job[s].op].st # "prepared"
  /\ Return(s)
  /\ UNCHANGED <<claims, pools, node, row, pending, effort>>

\* mark_signed
Mark(s) == LET j == job[s] IN
  /\ pc[s] = "c_mark" /\ j.k = 1 /\ row[j.op].st = "prepared"
  /\ row' = [row EXCEPT ![j.op] = Row("signed", 1, @.known, FeeOf(j.op, j.review), @.listed)]
  /\ Goto(s, "c_send")
  /\ UNCHANGED <<claims, pools, node, opLock, job, pending, effort>>

\* record_signed_candidate: a canonical inclusion keeps its word, and its fee.
Record(s) == LET j == job[s]  w == row[j.op]  known == w.known \cup ({w.hash, j.k} \ {0}) IN
  /\ pc[s] = "c_mark" /\ j.k > 1
  /\ row' = [row EXCEPT ![j.op] =
       IF w.st \in Concluded THEN Row(w.st, w.hash, known, w.fee, TRUE)
       ELSE Row("submitted", j.k, known, FeeOf(j.op, j.review), TRUE)]
  /\ Goto(s, "c_send")
  /\ UNCHANGED <<claims, pools, node, opLock, job, pending, effort>>

\* What a broadcast can come to: accepted and said so, the answer lost, refused.
Broadcast(s, back) == LET j == job[s] IN
  /\ \E r \in {"ok", "ambiguous", "refused"} :
       /\ sent' \in (IF r = "refused" THEN {} ELSE {[sent EXCEPT ![j.op] = @ \cup {j.k}]})
                    \cup (IF r = "ok" THEN {} ELSE {sent})
       /\ job' = [job EXCEPT ![s].reply = r]
  /\ Goto(s, back)

AfterReply(r) == CASE r = "ok" -> "submitted" [] r = "ambiguous" -> "unknown" [] OTHER -> "signed"

Send(s) ==
  /\ pc[s] = "c_send" /\ Broadcast(s, "c_done")
  /\ UNCHANGED <<claims, pools, mined, row, opLock, pending, effort>>

\* finish_broadcast
Done(s) == LET j == job[s]  o == j.op IN
  /\ pc[s] = "c_done"
  /\ Transition(o, IF j.from # "none" THEN j.from ELSE IF j.k = 1 THEN "signed" ELSE "submitted",
                Moved(row[o], AfterReply(j.reply), j.k))
  /\ Return(s)
  /\ UNCHANGED <<claims, pools, node, pending, effort>>

\* rebroadcast takes no lock: the row is read, then sent.
RebroadcastBegin(s, o) ==
  /\ pc[s] = "idle" /\ Costs(1)
  /\ row[o].st \notin Terminal \cup {"none"} /\ row[o].hash # 0
  /\ job' = [job EXCEPT ![s] = ReadOf(o)]
  /\ Goto(s, "c_send")
  /\ UNCHANGED <<claims, pools, node, row, opLock, pending>>

-----------------------------------------------------------------------------
(* Rejecting: discard, and abandon for a review whose process is gone. *)

\* The review leaves memory first. A replacement has nothing to release; if another session
\* holds the operation, the review is gone and nothing else happens.
DiscardBegin(s, p) ==
  /\ pc[s] = "idle" /\ p \in pending[s]
  /\ pending' = [pending EXCEPT ![s] = @ \ {p}]
  /\ IF p.k = 1 /\ opLock[p.op] = Nobody
     THEN /\ opLock' = [opLock EXCEPT ![p.op] = s]
          /\ job' = [job EXCEPT ![s] = JobOf(p.op, 1, p.review)]
          /\ Goto(s, "d_reclaim")
     ELSE UNCHANGED <<opLock, job, pc>>
  /\ UNCHANGED <<claims, pools, node, row, effort>>

\* reclaim_change: the claim is released and its change handed back; or that failed, and
\* release_unsigned leaves the addresses burned.
Reclaim(s) == LET o == job[s].op IN
  /\ pc[s] = "d_reclaim" /\ resv[o] \in {"reserved", "released"}
  /\ resv' = [resv EXCEPT ![o] = "released"]
  /\ free' \in {free, free \cup job[s].review.kept}
  /\ Goto(s, "d_cancel")
  /\ UNCHANGED <<worth, family, issued, node, row, opLock, job, pending, effort>>

AbandonBegin(s, o) ==
  /\ pc[s] = "idle" /\ row[o].st = "prepared"
  /\ \A p \in pending[s] : p.op = o => p.k > 1
  /\ job' = [job EXCEPT ![s] = JobOf(o, 1, NoCandidate)]
  /\ Goto(s, "a_lock")
  /\ UNCHANGED <<claims, pools, node, row, opLock, pending, effort>>

AbandonLock(s) ==
  /\ pc[s] = "a_lock" /\ Lock(s, job[s].op)
  /\ Goto(s, "a_release")
  /\ UNCHANGED <<claims, pools, node, row, job, pending, effort>>

\* Faulty variant: cancels whatever the store answered.
AbandonAnyway(s) == LET o == job[s].op IN
  /\ pc[s] = "a_release"
  /\ resv' = [resv EXCEPT ![o] = IF @ = "reserved" THEN "released" ELSE @]
  /\ Goto(s, "d_cancel")
  /\ UNCHANGED <<worth, family, pools, node, row, opLock, job, pending, effort>>

AbandonRelease(s) == LET o == job[s].op IN
  /\ pc[s] = "a_release" /\ resv[o] \in {"reserved", "released"}
  /\ resv' = [resv EXCEPT ![o] = "released"]
  /\ Goto(s, "d_cancel")
  /\ UNCHANGED <<worth, family, pools, node, row, opLock, job, pending, effort>>

\* The lock is taken, or the store will not release: the row stays.
DiscardRefused(s) ==
  /\ \/ pc[s] = "a_lock"
     \/ pc[s] \in {"d_reclaim", "a_release"} /\ resv[job[s].op] # "reserved"
  /\ Return(s)
  /\ UNCHANGED <<claims, pools, node, row, pending, effort>>

Cancel(s) == LET o == job[s].op IN
  /\ pc[s] = "d_cancel"
  /\ row' = IF row[o].st = "none" THEN row ELSE [row EXCEPT ![o] = Moved(@, "cancelled", @.hash)]
  /\ Return(s)
  /\ UNCHANGED <<claims, pools, node, pending, effort>>

-----------------------------------------------------------------------------
(* Recovery and tracking. *)

\* reconcile_custody: an orphan claim becomes a row, signed bytes the journal missed become its
\* hash and its candidates. The fee stays what the row said.
Reconcile(s, o) ==
  LET w  == IF row[o].st = "none" THEN Row("prepared", 0, {}, 0, FALSE) ELSE row[o]
      st == IF w.st = "prepared" THEN "signed" ELSE w.st
      k  == IF st \in Concluded THEN w.hash ELSE Newest(o)
  IN
  /\ pc[s] = "idle" /\ opLock[o] = Nobody
  /\ \/ resv[o] \in {"reserved", "signed"}
     \/ resv[o] = "confirmed" /\ row[o].st # "none"
  /\ row' = [row EXCEPT ![o] =
       IF Newest(o) = 0 THEN w ELSE Row(st, k, DOMAIN family[o], w.fee, TRUE)]
  /\ UNCHANGED <<claims, pools, node, opLock, pc, job, pending, effort>>

TrackRead(s, o) ==
  /\ pc[s] = "idle" /\ row[o].st \in Awaiting
  /\ job' = [job EXCEPT ![s] = ReadOf(o)]
  /\ Goto(s, "t_apply")
  /\ UNCHANGED <<claims, pools, node, row, opLock, pending, effort>>

\* With candidates on the row the family decides, without them the root. The fee stays.
TrackApply(s) == LET j == job[s]  o == j.op IN
  /\ pc[s] = "t_apply" /\ opLock[o] = Nobody
  /\ \/ /\ IF j.listed THEN mined[o] # 0 ELSE mined[o] = 1
        /\ \E st \in IncludedAs :
             Transition(o, j.from, Moved(row[o], st, IF j.listed THEN mined[o] ELSE j.k))
        /\ resv' = [resv EXCEPT ![o] = "confirmed"]
     \/ /\ j.from = "unknown" /\ ~j.listed /\ mined[o] = 0 /\ 1 \in sent[o]
        /\ Transition(o, j.from, Moved(row[o], "submitted", row[o].hash))
        /\ UNCHANGED resv
  /\ Return(s)
  /\ UNCHANGED <<worth, family, pools, node, pending, effort>>

\* Busy elsewhere, nothing known yet, or the node failed.
TrackSkip(s) ==
  /\ pc[s] = "t_apply"
  /\ Return(s)
  /\ UNCHANGED <<claims, pools, node, row, pending, effort>>

-----------------------------------------------------------------------------
(* The world. *)

\* The pool, the reviews and the locks go with the process.
Crash(s) ==
  /\ pc[s] # "idle" \/ pending[s] # {}
  /\ pending' = [pending EXCEPT ![s] = {}]
  /\ Return(s)
  /\ UNCHANGED <<claims, pools, node, row, effort>>

\* The candidates of a family spend the same coins: a block takes one of them.
Mine(o, k) ==
  /\ k \in sent[o] /\ mined[o] = 0
  /\ mined' = [mined EXCEPT ![o] = k]
  /\ UNCHANGED <<claims, pools, sent, row, opLock, pc, job, pending, effort>>

Begin(s) ==
  \/ \E o \in Ops : \/ PrepareBegin(s, o) \/ SpeedUpBegin(s, o) \/ RebroadcastBegin(s, o)
                    \/ AbandonBegin(s, o) \/ Reconcile(s, o) \/ TrackRead(s, o)
  \/ \E p \in pending[s] : CommitBegin(s, p) \/ DiscardBegin(s, p)

Proceed(s) ==
  \/ Allocate(s) \/ Grow(s) \/ Claim(s) \/ ClaimSweep(s) \/ HandBack(s) \/ PrepareFails(s)
  \/ Journal(s) \/ JournalFails(s) \/ SpeedUpOffer(s) \/ SpeedUpFails(s)
  \/ Sign(s) \/ CommitRefused(s) \/ Mark(s) \/ Record(s) \/ Send(s) \/ Done(s)
  \/ Reclaim(s) \/ AbandonLock(s) \/ AbandonRelease(s) \/ DiscardRefused(s) \/ Cancel(s)
  \/ TrackApply(s) \/ TrackSkip(s)

Next ==
  \/ \E s \in Sessions : Begin(s) \/ Proceed(s) \/ Crash(s)
  \/ \E o \in Ops : \E k \in sent[o] : Mine(o, k)

Spec == Init /\ [][Next]_vars

-----------------------------------------------------------------------------
(* Properties. *)

\* Where a change address can be: handed back, in a pool, in a review, on signed bytes.
Pooled(s) == job[s].pool
Reviewed(o) == IF resv[o] \in {"reserved", "signed", "confirmed"} THEN DOMAIN worth[o] ELSE {}

\* ops.rs, release_pool: "Change that never reached a signed payload is safe to reuse". Whichever
\* sessions prepare, grow, reject, abandon or die, an address is in one place only: never two
\* transactions pay their change to it, and no pool hands out one that signed bytes name.
NoAddressTwice ==
  /\ \A o \in Ops : /\ Reviewed(o) \cap free = {}
                    /\ \A p \in Ops \ {o} : Reviewed(o) \cap Reviewed(p) = {}
                    /\ \A s \in Sessions : Reviewed(o) \cap Pooled(s) = {}
  /\ \A s \in Sessions : /\ Pooled(s) \cap free = {}
                         /\ \A t \in Sessions \ {s} : Pooled(s) \cap Pooled(t) = {}

\* fee_increase, kept_change: each signed replacement keeps less of the change than the one
\* before it, and pays at least the bump that was asked or all the change there is.
BumpPaysWhatItSays == \A o \in Ops : \A k \in 2..Newest(o) :
  LET old == FeeOf(o, family[o][k - 1])  c == family[o][k] IN
  /\ c.kept \subseteq family[o][k - 1].kept /\ FeeOf(o, c) > old
  /\ c.priced /\ c.kept # {} => 100 * FeeOf(o, c) > old * (100 + c.pct) - 100

\* track.rs, TxCost: "The fee: paid when fee_final", and for Qi "fixed by its inputs and outputs
\* the moment it is signed": the fee of an included operation is that of the one a block has.
FeeIsPaid == \A o \in Ops :
  row[o].st \in {"confirmed", "settling"} => row[o].fee = FeeOf(o, family[o][mined[o]])

\* ops.rs, review_send_qi: "Whatever was not used goes back, whether or not the prepare worked."
PoolGoesBack == [][\A s \in Sessions :
  PrepareFails(s) => job[s].pool \subseteq free']_vars

-----------------------------------------------------------------------------
(* The promise it implements, the same as the Quai ledger's. *)

Life(o) == CASE mined[o] # 0 -> "included"
             [] mined[o] = 0 /\ sent[o] # {} -> "sent"
             [] sent[o] = {} /\ Newest(o) > 0 -> "signed"
             [] Newest(o) = 0 /\ resv[o] = "reserved" -> "review"
             [] OTHER -> "free"
Word(o) == CASE row[o].st = "none" -> "nothing"
             [] row[o].st = "prepared" -> "waiting"
             [] row[o].st = "cancelled" -> "cancelled"
             [] row[o].st \in Awaiting \cup {"settling"} -> "signed"
             [] OTHER -> "concluded"

Promise == INSTANCE SpendLife WITH
  Ids <- Ops, life <- [o \in Ops |-> Life(o)], says <- [o \in Ops |-> Word(o)]

\* Nothing signed is cancelled, nothing is sent the journal does not know, no word about a
\* signature or a block is taken back: every behaviour is one SpendLife allows.
QiKeepsThePromise == Promise!Spec
=============================================================================
