# A verification of quai-terminal

`quai-terminal` is a Rust wallet and trading terminal for the Quai network: eight crates, about
119 000 lines. Its hard part is not drawing or quoting but doing things once: several processes (the
terminal's lanes, the daemon, command lines) are open on one wallet and share it through files; a
spend is prepared, shown, approved, signed, broadcast and followed to a block; any process may die,
stall or be late in between, and money moves by the end. This directory models that part in TLA+,
checks it with TLC on small instances and proves its central safety properties with TLAPS for
every instance.

## 1. Inventory

Paths are below `src/crates/`. No part is modelled to the last operation, so none is called more
than partly modelled; section 8 says what is left of each.

| Part | State it keeps | Operations | What makes it hard | What makes it correct | Status |
|---|---|---|---|---|---|
| Quai-ledger spends: `wallet-core/tx.rs`, `session.rs` | reviews open in memory (`pending`) | `prepare_account`, `prepare_speed_up`, `commit_with`, `discard`, `abandon`, `rebroadcast` | two sessions on one nonce, stale reviews, a crash between any two writes, ambiguous broadcasts | nothing signed is cancelled or forgotten; the journal knows a transaction before a node does | partly: `AccountPipeline` |
| Commitments: `wallet-core/commitments.rs` | one lock file per owner; sums over the journal | `commitment_lock`, `observe_holdings`, `check_commitments` | journal and balance are read at different moments | signed spends never exceed what the owner holds | partly: `AccountPipeline` |
| Recovery: `wallet-core/recovery.rs` | one lock file per operation | `operation_lock`, `reconcile_custody` | it runs beside the calls it repairs | signatures reach the journal, nothing is undone | partly: `AccountPipeline`, `QiPipeline` |
| Journal: `wallet-core/appdb.rs`, `quai-model/journal.rs` | the `operations` table | insert, update, `transition_operation`, `record_signed_candidate` | one row, many writers, a compare-and-set on one column | a terminal status is final | partly: `AccountPipeline` |
| Operation tracker: `wallet-core/track.rs`, `anchor.rs` | anchors and scan cursors in the rows | `track_inclusion`, `reconcile_ops`, `audit_canonical_operations`, settlement | reorganisations, trackers with readings of different age | a claim about the chain names a block that was on it; the truth prevails | partly: `OpTracker` |
| Qi ledger: `wallet-core/ops.rs`, `tx.rs` | claimed coins, the pool of change addresses | the Qi branches of the same calls, `change_pool`, `release_pool`, sweep, bump | change addresses move between a shared store, memory, reviews and signed bytes | no address in two payments; a bump pays what it says | partly: `QiPipeline` |
| Trade plans: `wallet-core/plans.rs`, `execution.rs`, `quai-engine/plans.rs` | checkpoints with a revision, a lease | start, resume, prepare, sign, poll, cancel | a crash between a review and its checkpoint, two clients, a lock | one client walks; a stage is traded once; nothing signed is off the books | partly: `TradePlan` |
| Standing orders: `wallet-core/orders.rs` | state, attempts, fee budget, a lease | create, observe, prepare, guard, cancel | cancellation against approval, restart against budget | one swap, each signature budgeted, a cancelled order is not signed | partly: `Orders` |
| Engine: `quai-engine` worker, client, resources | queues, refresh stages, lanes, connection | commands, events, refreshes, reconnects | two threads on one channel, a refresh cut short, an engine replaced | what was read is shown in order, balances catch up, a new engine hears what it must | partly: `EngineWorker`, `EngineLink`, `SharedFeed` |
| Custody of keys: `wallet-core/custody.rs`, `quai-engine/host.rs` | unlocked keys per (scope, wallet) | unlock, lock, auto-lock, switch, leave | two queues, a password check on a thread of its own, five sessions that share one slot for a wallet | a lock takes the keys from whatever acts for the screen; nothing is signed after it | partly: `Custody` |
| Fetch leases and caches: `wallet-core/appdb.rs`, `data.rs`, `quai-engine/resource.rs` | `fetch_leases`, `cache`, each screen's resource | claim, take over, wait, release | the holder is slow, not dead; a view is asked for again while it is being read | one fetch at a time, nothing goes back | partly: `SharedFeed` |
| Alerts: `wallet-core/alerts.rs` | one row per wallet, loaded and saved whole | add, remove, check | two checkers and an editor on one row, a load that fails and reads as empty | fires once for each crossing, edits survive | partly: `Alerts` |
| Messaging: `wallet-core/messaging` | messages, peers, weekly keys, a scan cursor | sync, accept, block, read, news | a sync that stops, a chain that reorganises and comes back, headers that are not served, a user in between | the inbox holds the chain's messages | partly: `Inbox` |
| Swaps, liquidity, gauges, routes, curves, launches | none of their own | quoting, calldata | 256-bit arithmetic | bounds on slippage | not modelled |
| Review decoder, recipient checks | none | pure functions of calldata | | | not modelled |
| Registry, configuration, contacts, portfolio, profit and loss | settings, summaries | read, write | | | not modelled |
| Feeds: HTTP budgets, explorer, IPFS, media | request budgets | input and output | | | not modelled |
| Venues and shared model types | none | tables, formatting | | | not modelled |
| Terminal interface, command line, daemon | screens | callers of the above | | | not modelled; the models leave the callers free, except where a screen's own state matters (`Custody`, `EngineWorker`) |

The `quai-sdk` crate (custody stores, account and Qi sessions, node provider) is not in the
repository. It is modelled from the calls made to it and marked external.

How the parts interact. A `Session` holds the keys, its SDK stores and an `AppDb`. Every spending
call takes the owner's commitment lock (`flock` on a file named for the owner), then the operation's
lock, then writes first to the SDK store and then to the journal, each in a transaction of its own.
There is no transaction over both, so a crash can fall between any two writes; this is what
`reconcile_custody` is for. `rebroadcast` takes no lock. The tracker takes the operation's lock
without waiting and compares the status when it writes. Trade plans and orders sit on top: they hold
a lease of their own, ask the pipeline for reviews and read the journal rows those leave. The engine
runs all of it in threads (worker, signing lane, pending lane, Qi lane) that hear the screen through
queues and answer it through one channel. The lock files go with the process; the stores stay.

## 2. The modules, and how they correspond to the code

| Module | What it is |
|---|---|
| `SpendLife` | the abstract promise: the life of one spend and what the journal may say of it at each stage |
| `AccountPipeline` | the Quai-ledger pipeline in detail; it implements `SpendLife` (`KeepsThePromise`) |
| `QiPipeline` | the Qi-ledger pipeline in detail; it implements `SpendLife` too (`QiKeepsThePromise`) |
| `OpTracker` | what follows a sent operation on a chain that reorganises |
| `TradePlan` | one multi-step trade, its checkpoint and the clients that walk it |
| `Orders` | one limit order, those that watch it and those that sign for it |
| `Custody` | the keys of unlocked wallets, the two lanes' queues and the screen |
| `EngineWorker` | the wallet worker, its lanes and the screen's part of it |
| `EngineLink` | a terminal's connection to an engine in the daemon |
| `SharedFeed` | a cached feed, its lease, its lookups and the resources that show it |
| `Alerts` | alerts on one row that several processes load and save whole |
| `Inbox` | private messages read from the chain into one store |
| `…Proofs` (eight modules) | theorems: section 5 |
| `MC…` | instances for TLC: section 3. `MCServices` puts `SharedFeed`, `Alerts`, `EngineLink` and `Inbox`, which share no state, side by side |

A step ends where the code awaits, where it writes to a store or a queue, or where it takes a lock:
there, and only there, another process or thread can see or change something in between. Definitions
marked "Faulty variant" stand beside some actions: what the code would be with a plausible mistake.
No specification uses them; each property was seen to fail with the variant that belongs to it.
`PROJECT.json` (`map`) names the lines every definition stands for.

### AccountPipeline

State: `resv`, `nonceOf`, `bound`, `payload`, `cursor` are the SDK's custody store (reservation
state, claimed nonce, the review it was last prepared for, signed candidates, next nonce); `row` is
the `operations` table (status, what it describes, the hash it names, the candidates it recorded,
the largest fee it reserves); `commitLock` and `opLock` are the kernel file locks; `sent` and
`mined` belong to the network; `pending` is each session's memory of open reviews; `pc` and `job`
say where each session is in its call and what it has read so far.

| Code | Actions |
|---|---|
| `prepare_account`, `finish_account_review`, `journal` | `PrepareBegin` (owner's lock, nonce to reuse), `PrepareLock` (operation's lock, reopen), `PrepareReserve` (SDK claims the nonce, owner observed), `PrepareClear` and `PrepareFinish` (delete and insert are two statements), `PrepareReject` (every error path, those that return without releasing the nonce included) |
| `prepare_speed_up` | `SpeedUpBegin`, `SpeedUpFinish`, `SpeedUpReject` |
| `commit_with` | `CommitBegin`, `CommitRefuse`, `CommitAdmit`, `CommitSign`, `CommitSignFails`, `CommitMark` or `CommitMarkRefused` (`mark_signed`), `CommitRecord` (`record_signed_candidate`), `CommitSend`, `CommitDone` (`finish_broadcast`) |
| `discard`, `abandon` | `DiscardBegin`, `AbandonBegin`, `AbandonLock`, `DiscardRelease`, `DiscardRefused`, `DiscardCancel` |
| `rebroadcast` | `RebroadcastBegin`, `RebroadcastSend`, `RebroadcastDone` |
| `reconcile_custody` | `Reconcile`, one reservation at a time |
| `track_inclusion`, `reconcile_ops` | `TrackRead`, `TrackAdvance`, `TrackSkip` |
| a process dies; the network includes a transaction | `Crash`, `Mine` |

### OpTracker

`AccountPipeline` has tracking only as far as the calls of a session race with it, on a chain that
only grows. `OpTracker` has none of those calls but `rebroadcast`, and a chain that drops blocks.

State: `fork` and `seen` are the chain's present and past views of each operation (the block that
includes it, the block that executes it at its destination); `row` is the journal's status and
anchors; `cursor` is the audit's place in its rotation (`canonical_audit:<network>`); `opLock`, `pc`
and `job` as above, `job` holding the row as it was read.

| Code | Actions |
|---|---|
| `track_scoped`, `track_inclusion` (the read of open rows) | `TrackRead` |
| `audit_canonical_operations` | `AuditRead`, and the cursor in `Done` |
| `try_operation_lock` | `Lock`, `Busy` |
| `recheck_operation_anchors` | `CheckSource`, `CheckDest`, `CheckAgain`, with `Reorganized` when the source is gone |
| `track_account_op`, `settle_result` | `Observe`, `NoVerdict`; what they may answer is `Inclusions` and `Settlements`, an answer that leaves the outcome open included |
| `transition_operation` in `reconcile_ops` | `Write` |
| errors on the way; a process dies | `NoAnswer`, `Crash` |
| `rebroadcast` of a row already in a block | `Rebroadcast` |
| the network | `Include`, `Execute`, `Reorg` |

### QiPipeline

State: the SDK's Qi store (claims by operation, the change addresses derived so far), the pool of
change addresses each session holds in memory while it prepares, the row with its family of
candidates (what change each keeps, what fee it says), the locks, the network's inclusion.

| Code | Actions |
|---|---|
| `review_send_qi`, `review_consolidate`, `prepare_qi_special` | `PrepareBegin`, `Allocate` (`change_pool`, with its wide gaps), `Grow` (a review that needs more change; handing the small pool back may fail), `Claim`, `HandBack` (`release_pool`), `Journal`, `JournalFails`, `PrepareFails` |
| `review_sweep_qi` | `ClaimSweep` |
| `prepare_qi_speed_up` | `SpeedUpBegin`, `SpeedUpOffer` (`fee_increase`, `kept_change`), `SpeedUpFails` |
| `commit_with` | `CommitBegin`, `Sign`, `CommitRefused`, `Mark`, `Record`, `Send`, `Done` |
| `discard`, `reclaim_change`, `abandon` | `DiscardBegin`, `AbandonBegin`, `AbandonLock`, `AbandonRelease`, `Reclaim`, `DiscardRefused`, `Cancel` |
| `rebroadcast`, `reconcile_custody`, tracking | `RebroadcastBegin`, `Reconcile`, `TrackRead`, `TrackApply`, `TrackSkip` |
| a process dies; a block takes one of a family | `Crash`, `Mine` |

`FeeIncrease` and `Kept` are the code's arithmetic (the bumped fee rounded down, at least one qit
more, at most all the change; coins kept largest first while they fit), so that `BumpPaysWhatItSays`
is about numbers and not about names. `TriedLast` is the code's order, read from its end.

### TradePlan

State: `stored` is the plan's row (state, stage, operations, final operation), `journal` the rows of
the operations table that belong to it, `lease` its kernel file lock, `run` each client's runner with
its copy of the plan and whether that copy has the stored revision, `pc` and `cur` where a client is
inside one call, `open` the reviews its session can sign.

| Code | Actions |
|---|---|
| `Coordinator::create`, `resume`, `discard_unsigned` | `Start`, `Resume` |
| `Coordinator::prepare`: readiness, `advance_allocation`, the announcement | `NextRefused`, `NextAdvance`, `NextComplete`, `NextReview` |
| the review and its checkpoint | `BuildOk`, `BuildFails`, `Checkpoint` |
| `commit_with`, its answer, `discard` | `Sign`, `SignRefused`, `Answered`, `AnswerLost`, `AnsweredAlone`, `Reject` |
| `Runner::poll`; the command line's `wait_confirmed` | `PollIn`, `PollOut`, `GiveUp` |
| cancel; lock; another wallet or network; a process dies | `Cancel`, `Lock`, `Switch`, `Crash` |
| the tracker; `tx abandon`; another spend on a rejected nonce | `Included`, `Receipt`, `Undone`, `Abandon`, `Reuse`, `OtherSigned` |

A checkpoint is `Saved` (the compare-and-set on the revision went through) or `Unsaved` (another
revision is stored, or the write failed), and every call has both outcomes.

### Orders

State: the order's record (state, attempts, committed fees, stamps), its lock, the journal rows of
its operations, each client's call, the reviews open in signing sessions. `ObserveAsk`,
`ObserveQuote`, `ObserveBlocked`, `ObserveExpired`, `Tell` are a check; `PrepareAsk`, `PreparePrice`
(which charges), `BuildOk`, `BuildFails`, `Link` a preparation; `CommitRefused`, `CommitSign`,
`CommitDone` a signature under `submission_guard` (`Guard`); `Cancel` and `CancelRest` a
cancellation; `Reconciled` is what every call does first (adopting operations the record lacks). The
price, the clock and the chain are free.

### Custody

State: keys per (scope, wallet), the two queues (`workq`, `signq`), the threads that check passwords,
the screen's state and the events on their way to it, reviews open in the lane's session, what was
signed and when. `ui.since` is the last of a password, a lock and a switch, the moments that settle
who is to have keys: it lets `LockTakesKeys` say what each of them leaves behind. The host's calls
(`BeginUnlock`, `LockNow`, `EngineLock`, `Switch`, `Leave`, `AskReview`, `Decide`), the unlock thread
step by step (`CheckPassword`, `CheckShare`, `CheckNote`, `CheckInstall`, `CheckTell`, `CheckSay`), the
worker (`Worker…`) and the signing lane (`Lane…`) are each an action, since each is a thread of its
own. The Qi, messages and pending lanes neither sign nor lock, but each has a session that keeps its
wallet's custody reachable (`Alive`), for as long as no job of another wallet comes. `side` is what
they were asked for and what they have open; their queues are not modelled, so `SideOpens` opens a
wallet they were ever asked for at any time later, and `SideCloses` closes one at any time.

### EngineWorker, EngineLink, SharedFeed, Alerts, Inbox

`EngineWorker`: the command queue with its merging of refreshes, the stages of a refresh and
`unless_urgent`, which cuts one short (`CutShort`); `Heads::latest` (`Polled`, `Told`); the pending
lane's look, stamp, read and send (`LaneTracks`, `LaneStamps`, `LaneReads`, `LaneSends`,
`LaneNotifies`); the Qi lane's count of passes; and what the screen keeps of what it hears (`Hear`).
`EngineLink`: dial, attach, replay, relay, drain, pause. `SharedFeed`: `DataCtx::cached` and
`await_leader` step by step, the lease's rules, and the screen's side: `Ask` puts a view's command in
its process's queue whenever somebody wants it, a read under way or not (`due`, `begin`, `invalidate`,
and commands sent without either); `Start` takes it when no command of that view is running
(`flight_key`); the cached row is shown first (`Pass`), then the answer, each by a `settle`. `Alerts`:
load, decide, load again, merge, save, notify, with editors in between, and every load may fail and
read as empty (`EditsBlindly`, `ReloadsBlindly`, `FindsNone`).
`Inbox`: `messaging_sync` await by await, the page's transaction, the
rewind, the keys' grace, `messaging_news` and the user's answers, over a chain whose dropped blocks
may come back (`Return`) and whose headers may not be served (`Compare`, `Match`, `Hash`). `stood` and
`course` are kept for its properties: the block that was at the cursor when it was written, and
whether a rewind was cut short since.

## 3. The runs

Every run is small because its question is about two actors and one or two operations; which
constants are large is chosen by what the question needs. Symmetry is used on safety runs only.
`CHECK_DEADLOCK` is off everywhere: the bounds on reviews, retries, blocks and failures let a
behaviour come to its end, and a wallet with nothing to do does stop.

| Run | Instance | What it shows |
|---|---|---|
| `pipeline_safe` | 2 sessions, 2 reservations, 2 reviews, 1 bump, funds for one spend of two, balance a block late | whatever is rejected, abandoned, reopened or crashes, nothing signed is cancelled, every signature is the row's own, what is signed is covered; the proofs' invariant holds where TLC can look |
| `answers_race` | 2 sessions, 1 reservation, 2 reviews, 1 bump, 2 rebroadcasts, every outcome | late answers undo nothing; nothing is sent before it is journalled, even with an SDK that signs a stale review (`SignBindsReview = FALSE`, where `mark_signed` has something to refuse) |
| `follow_up` | 2 sessions, 1 reservation, 2 reviews, a rebroadcast, under fairness | an orphaned signature reaches the journal, an included spend is concluded; the pipeline refines `SpendLife` |
| `tracker` | 2 trackers, 1 conversion, 3 blocks, 1 reorganisation, 1 failure or rebroadcast, any number of answers that decide nothing, under fairness | a verdict names its block, only a reorganisation takes it back, the chain's truth prevails, and what the node decides is concluded; the proofs' invariant holds |
| `plan` | an engine, a command line, 2 stages, 3 reviews, 1 fault, under fairness | one walker; what is signed is listed; one step under way; no stage traded twice; a cancelled plan does nothing; a last step that is in completes the plan |
| `orders` | 2 signing sessions, a watcher, 3 attempts and operations, 1 undone block, 1 reused nonce | every signature is budgeted, one swap at most, one announcement, nothing signed once cancelled |
| `custody` | 1 terminal, 2 wallets, 2 password checks, one of each kind of lock, 1 review, the other lanes' sessions | a lock takes the keys of what acts for the screen, and all keys unless a wallet did not open or a check was late; nothing is signed after it |
| `services` | 2 processes, 3 views and 4 lookups on one feed; 2 checkers, 1 editor, 2 alerts, 2 faults; 2 wallets, 3 engines; 1 reader, 1 message, 2 keys, 3 blocks, 2 reorganisations, 1 header not served or sync stopped | fetches do not overlap and answers do not go back; alerts fire once per crossing and survive edits; a new engine hears what it must and nothing meant for the one before; the inbox holds the chain's messages |
| `worker` | 2 wallets, 2 networks, notices, a send, a switch, Qi passes | a notice comes after what it is about is shown, Qi passes are counted back |
| `worker_catch_up` | the same with blocks, a conversation polled without end, a failure, under fairness | the screen comes to show the newest block's balances for good |
| `qi` | 2 sessions, 2 spends, 5 change addresses with a wide gap, a 5 % bump | no change address in two places, a bump pays what it says, `SpendLife` is kept |
| `block_undone` | 1 reader, 1 message, 1 answer of the user | the disagreement of section 7: the user's answer is undone by a sync |

Why the bounds are enough: a hazard here needs one actor with an old reading and one that moved
since, so two sessions, trackers or clients are the case of interest; a nonce's history that matters
is "rejected, reused, signed or rejected again", so two reviews for one of two nonces; a family
matters once it has two members, so one bump; a plan whose stages matter has a first and a last, and
an operation between them that was let go, so three reviews. Bounds named `Max…` or `…Budget` cap
counters only; each is a guard of the action it caps. Two runs have a state constraint as well.
`custody` follows a terminal that left only if at most four things had happened before (`LeavesSoon`;
nothing new is asked for afterwards), and takes its password threads, which are alike, in order.
`services` stops following the alerts once a save has raced and the inbox once reading went on from a
torn cursor (`StillAsked`): the properties ask nothing of either from then on.
The theorems of section 5 remove the bounds
from the safety properties they cover.

## 4. Fairness

* `AccountPipeline`: `WF_vars(Proceed(s))`, a call under way goes on. Each step of a call is a
  database statement, a lock that is tried once and never waited for, or a request with a timeout.
  `SF_vars(TrackRead)`, `SF_vars(Reconcile)`, `SF_vars(TrackAdvance)`: the terminal and the daemon
  track every few seconds for as long as an operation is open, whatever the last pass came to, so an
  operation that can be tracked again and again is tracked. Strong fairness is what "again and
  again" means when another session may hold the lock at the moment of a pass. `SF` on
  `TrackAdvance` says that a node with an answer to give does not refuse it for ever. A user who
  starts one fee bump after another on an included operation, each at the moment a tracker comes by,
  keeps the lock from it for ever: nothing in the code prevents that, and `follow_up` has no bumps.
* `OpTracker`: the same for `Tracked(i)` and for the audit (`track_scoped` runs it each time). The
  number of failures (no answer, a crash) is bounded by `MaxFailures`: the node answers at last.
  Without that nothing could be promised. An answer that leaves the outcome open is none of these: the
  code takes it and rests there (`settle_result` leaves an account conversion locked, "whose maturity
  this operation cannot observe", and a credit that was spent or not indexed settling). So
  `TruthPrevails` promises a conclusion only where such answers stop (`Conclusive`), and otherwise
  only that the journal comes to name the block.
* `TradePlan`: `WF_vars(Walk(c))` for lanes only. The lane looks at its plans every second and each
  of its calls returns. Command lines die, and nothing is promised of them. `LastStepCompletes`
  excuses a checkpoint that could not be written, an undone block and a lost lane by name.
* `EngineWorker`: weak fairness for the worker's turns (`WorkerSteps`), for what a lane has begun to
  say (`LaneSends`, `LaneNotifies`, `QiPass`) and for the screen's `Hear`, which are threads that run;
  for time passing between refreshes (`Elapse`); and strong fairness for a head poll that answers
  (`SeesNewest`): the node answers again and again.
* No fairness anywhere for the network, the user's calls, or crashes.

## 5. What is proved

In every case the argument is one of an inductive invariant: a base case, one lemma for each action
or family of actions, and a temporal step. The assumptions are those on the constants, named in the
modules that declare them.

**`AccountPipelineProofs`** (every set of sessions and reservations, every bound, every assignment of
values): `TypeCorrectness`, `MutualExclusion`, `NothingSentIsLost` (`SentIsJournalled`),
`ConcludedStaysConcluded` (`TerminalIsFinal`), and under `SignBindsReview` `NoSignedSpendIsCancelled`
and `JournalDescribesItsSignature`. `SignBindsReview` says that the SDK signs for a reservation only
the review it was last prepared for; the SDK is not in the repository, so this is an assumption about
it, named as a constant. `SentIsJournalled` alone is not inductive: that the row knows the candidate
about to be sent depends on the lock keeping other sessions out (`LockInv`), on the session knowing
which candidate it is sending (`JobInv`), on the store holding bytes exactly for what is signed
(`ClaimInv`), and on a known candidate never being forgotten while its row lives (`RowInv`).
`SignedNeverCancelled` needs also that the review about to be signed is the one waiting in the
journal (`WaitingInv`), which needs that reviews are numbered afresh (`FreshInv`);
`JournalNamesItsSignature` needs `FamilyInv`: all candidates of a family carry out one review.

`PromiseKept`: `AccountPipeline` implements `SpendLife` for every value of the constants, under
`SignBindsReview`. Every action is mapped to a step of `SpendLife` or to a
stutter, from the invariant above and one addition (`OutcomeInv`: a row that is in a block has a
candidate in it, and one that waits for approval has none). The lemmas are split by what moves: the spend
(`ClaimMoves`, `SignMoves`, `SendMoves`, `MineMoves`) or what the journal says of it (`ReviewRows`,
`SpendRows`, `RecoveredRows`, `TrackedRows`).

`NothingIsOvercommitted` (`NeverOvercommitted`), also under `SignBindsReview`, compares sums: what
the signed and unmined families may cost at most, and what the account still holds. Its invariant is
`SpendInv`. Its core is `CoverInv`, the inequality itself, and `AdmitInv`: what a session was admitted
to sign, together with what all others signed, is covered, until it signs. Three things make a check
enough. The block it looked at may be old, but what was mined since and is still open in the journal is
counted as a claim of its row, so nothing falls between the two (`ChecksAll`, `AdmitCovers`): claims
are matched with transactions by their nonces, which needs that no nonce is claimed twice and that
the chain takes them in order (`NonceInv`). A row claims no less than its family may come to cost
(`FeeInv`), and the fee it reserves does not move between the check and the signature (`FeeHeld`,
from the locks). And a block takes away from the signed families at least what it takes from the balance
(`MineCovers`), while a row that is closed stays closed (`StillCovered`). The lemmas on sums
(`TotalSplit`, `TotalUnion`, `TotalGrows`, `TotalCovered`) hold of every finite set. The library
computes a sum with a recursive function over subsets, which is unfolded once (`CostsSum`,
`ClaimsSum`, `DebitsSum`); that such a function exists and is unique, and each lemma after it, is
shown with a smallest set that would refute it (`Smallest`).

**`OpTrackerProofs`** (every number of trackers, operations, blocks, reorganisations, failures):
`TypeCorrectness`, `Invariance`, `ConcludedStaysAuditable`, and `NoTrackerTakesBack` on a chain that
only grows. Inductively this takes `AnchoredInv` (true of the rows and of every snapshot a tracker
holds, however old: the compare-and-set matches the status of the snapshot, so what held of the
snapshot's status holds of the row), `FoundInv` (a verdict about to be written names the block if it
concludes a row that waited for one) and `QuietInv` (on a growing chain no anchor is wrong).

**`PlanProofs`** (every set of lanes and command lines, every number of stages, operations and
faults): `OneClientWalks` (`OneWalker`) and `NothingUnlisted` (`SignedIsListed`). The first stands on
`CallInv` (a call on the plan belongs to a client that walks it). The second is not inductive alone:
between the review's journal row and its checkpoint the review is open and unlisted, and what keeps
it from being signed there is that its client is inside the call (`OpenInv`); and no checkpoint ever
drops an operation because a walker's copy lists at least what is stored (`CopyInv`), which is where
the first theorem is needed: with two walkers a stale copy could be saved.

`OneUnderWay` (`OneStepAtATime`), `StagesTradeOnce` (`NoStageTwice`) and `CancelledIsOver`
(`CancelledStops`) are about the order in which a plan's reviews come, and take one invariant more,
`StepInv`. A call that prepares a review starts from the stored checkpoint (`BuildInv`) with nothing
under way (`QuietInv`); its walker's copy lists every row of the plan but the one being built
(`HandInv`), and nobody signs that one before it is listed (`BuiltInv`). The actions that were or can be
signed are those of the stages the plan left and the one it names (`StageInv`), one for each stage
(`UniqueInv`). Who walks a cancelled plan resumed it, and only waits on what was sent (`StopInv`).

**`OrdersProofs`** (every number of clients, attempts and operations): `TradesOnce` (`OneSwap`),
`SaidOnce` (`AnnouncedOnce`), `CancelledForGood` (`CancelIsFinal`) and `SignsWithinBudget`
(`SignedIsBudgeted`). They stand on `LeaseInv` (a
client inside a call holds the order), `HeldInv` (while it does nobody cancels the order, and its copy
knows whether the order was announced and what was charged), `TriedInv` (an order that is being
tried, or may be, has not traded) and `ToldInv` (the stamp comes before the notice). The budget is
an inequality between sizes: an order lists every operation signed for it, and lists no more
operations, with those free for the next attempt, than it was charged attempts (`BudgetInv`, of the
stored order and of every copy a call holds).

**`CustodyProofs`** (every number of wallets, password checks, reviews and switches): `LocksAreFinal`
(`NothingSignedLate`) and `LockedAway` (`LockTakesKeys`). `LocksAreFinal` says that an approval given
after a lock signs no review from before it, however far behind the threads are.
The argument is about what is where in the signing lane's queue. A review
barred by a lock has that lock behind it, until the lane holds no such review (`BehindInv`), and
the lock lies before any late approval of it (`LateInv`), so the lane reaches the lock, and drops
the review, first. Both need that a review is asked for, shown and decided once (`OnceInv`), and
that reviews are numbered as they are asked for (`AskedInv`). `LockedAway` is about the other queue,
the worker's (`HeldInv`): keys that must go have what takes them on its way. After a lock, each session
that may hold keys has a lock in its queue, and behind that neither a switch nor keys (`LockInv`).
While every wallet opens and no check outlives the screen's patience, there is one check, of the
wallet on screen (`OneInv`), and the worker is where the screen is or on its way there, past every
wallet that still has keys (`PathInv`); after a switch what makes it leave is behind every keys in the
queue (`SwitchInv`). After a terminal left, each session comes to its end (`GoneInv`). The other lanes
take no part in any of these but the first, `AliveInv`, which says where keys can be: in a wallet the
worker, the signing lane or one of the other lanes has. What they open and close is arbitrary
(`SideHeld`).

**`ServicesProofs`** has four parts. *The feed* (every number of lookups, answers, takeovers and
faults): `FeedAsksOnce` (`OneFetcher`), `FeedRowMovesForward` and `FeedScreensMoveForward`. `FeedInv`
counts: who holds the lease is asking (`LeaderInv`), so those who ask are one more than the
takeovers from the living; and as long as there is none of those, what a lookup has in hand is in
order with the row (`AnswersInv`). A screen does not go back because a process reads a view once at a
time (`SingleFlight`), however often it is asked for meanwhile, because no view is ahead of the row,
and because what its read found there is no older than what it shows (`ScreenInv`); an answer that
could not be written breaks the second of these, and so is an exception. It is assumed that there
are finitely many lookups, since they are counted. *The link*
(every number of wallets, engines and messages): `LinkFollowsScreen`, `LinkReadsAreConfigured`,
`LinkCommandsDieWithTheEngine`. `LinkInv` reads the outbox as a trail from what the client saw last to
what the screens show: the wallet changes only at a switch, the configuration only at a
configuration and upwards (`WalletTrail`, `ConfTrail`); an engine that has heard the replay is where
the client is (`EngineInv`), and what waits between engines was asked of none (`GenInv`). *The alerts*
(every number of checkers, editors and alerts): `AlertsFireOnce`, `AlertsKeepEdits`. `AlertsInv`
holds an account for each alert of crossings and notices (`CrossedInv`), which comes out even because
an id names one alert in every row that is stored or in somebody's hands (`RowsInv`), and because
what is about to be written, while nothing raced, is what is stored (`QuietInv`, `SinceInv`), or
nothing at all if its load failed. *The inbox* (every number of messages, keys, blocks,
reorganisations, returns, unserved headers, stops and answers, any page and any rewind):
`InboxFollowsTheChain` (`InboxInStep`), for one reader (`Readers` has one member) and a chain that
settles while it reads (`Settled`). That the store is right when the cursor's block is on the chain is
not inductive: that block may be gone now and be back later, and between a rewind and the page after it
messages are being deleted one by one, and the sync may stop. What holds is that, while no rewind was
cut short, the store is right for *every* chain there ever was with the cursor's block on it
(`ExactInv`), because two such chains have all blocks up to it in common (`ForksInv`, `ChainsCome`); and
that, cut short or not, it is right a whole rewind below the cursor (`DeepInv`), because no block goes
that ever had that many after it (`ChainInv`). What a sync has in hand is the rest (`SyncInv`): it
deletes exactly what is above where it reads on from (`Rewinding`), so the first page after that makes
good a rewind an earlier sync left undone; a page it is about to write leaves nothing out
(`WholePage`, `Taken`), and the keys it read are all there are for the blocks up to its head
(`KeysRead`, from `KeysInv`: a key was made before anything was sealed to it).

**`QiProofs`** (every number of sessions, operations, addresses and bumps): `OneChangeAddress`
(`NoAddressTwice`) and `QiPromiseKept`, that `QiPipeline` implements `SpendLife`. That an address is in
one session's pool, or belongs to one operation, and never to two (`PlaceInv`), needs to know whose it
is while a rejected review is taken apart: the first review of an operation is in one place only
(`ReviewInv`), its change is its claim's, and claims are prepared by one session (`ClaimInv`) under
the lock (`QiLocks`). The refinement adds `WordInv`: what a row says is true of its claim (`RowWord`),
and so is what a session is about to write (`DeskWord`). Every step that writes a row is then seen to
write only what the claim bears out (`RowsRise`), and every step that moves a claim to move it one
stage of `SpendLife` (`ClaimMoves`, `SignMoves`, `SendMoves`, `MineMoves`). It needs no assumption about
the SDK like `SignBindsReview`: a Qi claim's coins are fixed when it is made.

`BumpsPay` (`BumpPaysWhatItSays`, also for any change, any denominations and any percent) speaks of
candidates that are signed; what keeps it is known when they are offered, and other sessions sign,
track, reject or stop before it is used. So `FeeInv` says the same of every offer (`Offered`): of what
is signed, of what a session is signing or has signed and not journalled, and of every review that
waits in some session's memory, which is compared with the candidate it was made over. `NewOffer`
brings a new one in, `FamilyGrows` and `OffersStay` keep the old ones (a candidate is never changed, and
a claim gets its change before anything is offered for it, `NothingOffered`), and `SignedPays` turns an
offer into a candidate: the SDK signs it over the newest one only, the one it was compared with
(`Signable`). The arithmetic is apart. `Total` and `Kept` are the library's folds, recursive functions
over the subsets of a set; `FoldsAgree` and `FoldExists` show by the smallest subset that would refute it
(`SmallestSet`) that there is one such function and that it does not depend on the set it was
computed for. From them, a sum is the first coin and the sum of the rest (`TotalIs`) and grows by what
is added (`TotalGrows`), what is kept fits the budget (`KeptFits`), and `fee_increase` is a number
between one and all the change (`BumpIs`). A bump of zero percent pays more too, by the one
qit. Of the change a claim may get it assumes only that a coin is worth something (`QiQuotes`).

**`WorkerProofs`** (every number of places, commands, events, stages and blocks): `PassesAreCounted`
(`QiPassesCounted`) and `NothingAnnouncedEarly` (`NoticeAfterShown`). The first needs of the queue that
taking the first urgent command, or merging the refreshes, loses no answer of a pass (`OthersKeep`,
`RemovedKeep`; the function that `Others` is computed with is shown to exist and to be unique with a
shortest prefix that would refute it, `LeastIs`). The second is about two writers and one reader. A
notice carries the seat it was found in: which switch of the user's was the last, if worker, lane and
screen were in one place then (`SeatInv`: they still are while that switch is the last). For such a
notice, what follows holds whichever thread found it: no read of the journal stamped as late as the
one it is behind is older than what it tells of (`NoOlder`), and one of those reads is on the screen
or in the channel before it (`ShownBy`). The lane comes to that by stamping after the write and
reading after the stamp (`LaneInv`), a refresh by keeping the notice until its dashboard has been
said (`WaitInv`); the channel keeps it (`SaidInv`), and the screen, which takes the later of two stamps,
does not lose it. Stamps are distinct up to `MaxStamp` (`StampInv`); no transaction is mined after it,
which is the one bound the theorem leans on: the code's counter has 64 bits.

## 6. What is only model-checked

Every safety property and every action property the runs check is stated by a theorem. What is left:

* Liveness (`SignedIsNoticed`, `IncludedIsConcluded`, `TruthPrevails`, `LastStepCompletes`,
  `BalancesCatchUp`): fairness and `ENABLED` are out of TLAPS's reach.

## 7. Findings and abstractions

Where a comment of the code, or what a call says of itself, is not what the code does, `PROJECT.json`
(`findings`) quotes the line. Each was met while modelling. The property it names is stated in
the module, where the module has the state to say it, and can be given to TLC with the module's
instance; one has a run of its own (`block_undone`). In short:

* *Spends.* `BalanceCoversUnmined`: a debit whose row is already closed, but which the older observed
  balance still holds, is counted nowhere. `InclusionIsReported`: a rebroadcast of a settling row
  puts it back among those waiting for a block. `OrphanClaimIsExposed`: a process that dies between
  reopening a nonce and journalling its review leaves a claim that neither `reconcile_custody` nor
  `abandon` reaches. `DiscardCancelsItsReview`: discarding a review whose nonce another session reused
  cancels the newer review. `StaleReadTakesNothingBack`: a tracker with an old reading clears the
  re-inclusion another one recorded. `FeeIsPaid`, `PoolGoesBack`: a Qi row may show a replacement's
  fee for the original, and a failing preparation burns its pool of addresses.
* *Plans and orders.* `CompleteIsIncluded`: a plan whose last review a lock cancelled is recorded
  complete. `CompletedByItsOwn`, `RejectionIsHarmless`: another spend that takes a rejected review's
  nonce is taken for the plan's step, or leaves the order for ever refused. `CancelledStays`: a
  cancelled plan can be called paused. `WatchingLeavesReviews`: a background check of an order
  whose review is open for signing makes the signature be refused.
* *Keys and screens.* `SwitchDropsKeys`: a switch to a wallet that does not open leaves the keys of the
  one before with the worker. `LockEmptiesAll`: a password check that answers after the screen gave
  up on it and switched puts its keys where only another lane's session still holds them, and the
  next lock does not reach them. `LockedHasNoKeys`, `OpenHasKeys`, `LockedHasNoReviews`: the screen and the
  engine can end up disagreeing about a lock. `ShowsItsPlace`, `OpsMoveForward`, `NoticeAfterShown`,
  `NewBlocksAreHeard`: what the screen hears after a switch, or from two threads.
* *Services.* `EditsSurviveErrors`: a load of the alerts that fails reads as no alerts, and the next
  save deletes them all. `AlwaysInStep`: a header the node does not serve, or a block that comes
  back, leaves the inbox without messages its cursor is past. `TurnedAwayOnlyBySlow`,
  `NeverFiresTwice`, `ActiveWasTold`, `EditsSurviveChecks`, `NotKeptForTheNext`,
  `HeldReadsReachAnEngine`, `AnswerIsKept`, `SaidOnce`, `InboxInStep`, `MailOpens`, `PassedIsTold`,
  `KeysAsAnnounced`.

Some checked properties are therefore stated with the exception the code makes:
`LockTakesKeys` says of a lock that the worker and the signing lane have no keys, and that no session
has any only for wallets that open and password checks that end within the screen's patience
(30 seconds; a later one gives its keys to whichever session still has its wallet); so too of a
switch. `ConcludedIsAuditable` is for operations nobody rebroadcasts once they are in a block.
`TruthPrevails` promises a conclusion where the node's answers come to decide one.
`EditsSurviveChecks` is for edits that do not fall between the two statements of a save, and until a
row is saved over alerts whose load failed; `FiresOncePerCrossing` for checks that do not overlap;
`ScreenMovesForward` while no lease was taken over alive and every answer could be saved.
`InboxInStep` is for one reader and a chain that is settled while it syncs (`Settled = TRUE`) and
undoes no block that ever had a rewind (64 blocks) of others after it; it does not hold between a
rewind that was cut short and the sync that makes it good, nor ever again once reading went on from
where one was cut short, or from a block that was not served and is gone.

Abstractions, by what they leave out:

* *Values.* Native value and fees only; token amounts add up by the same loop. Fees of a family are
  1, 2, ... in `AccountPipeline` and real sums in `QiPipeline`.
* One account of one wallet on one network per spend. The code refuses other claimants of the owner.
* A `Locked` row is a `settling` one in `AccountPipeline` (same guards everywhere); a legacy receipt
  (`PostState`) appears in `OpTracker` only. A review recovered after a crash has unknown content.
* `CommitRefuse` stands for every refusal before the review is taken: confirmation, expiry, lease,
  contention, locked keys, a failed observation, funds. Expiry clocks are such a refusal.
* The tracker's fee and status updates are one step: both compare the same status.
  `reconcile_custody` is atomic per reservation: it writes under the operation's lock.
* `OpTracker`: the audit's page is one row where the code takes eight, and a cursor with nothing left
  to audit is kept where the code clears it (both start over). Canonicality flags, receipts' amounts,
  the scan's cursor and the maturity countdown are left out. A reorganisation changes one operation's
  view at a time and may bring a dropped block back.
* `TradePlan`, `Orders`: what a stage asks for (quote, approval, wrap) is free, and a review is a row
  that is signed once; how is `AccountPipeline`'s matter. A row is named by its reservation, so a
  rejected one is used again, by the plan or by another spend.
* `Custody`, `EngineWorker`: one terminal; token, price and node detail are only time that passes.
* `SharedFeed`, `Alerts`, `EngineLink`, `Inbox`: one key, one pair, one terminal, one peer: the code
  treats each on its own.
* Timelines, formatting, wording and logging.

## 8. Not modelled, and why

The modules map about 5 400 lines, one in twenty of the implementation, and
little more of it is worth a model at this level: half of the 119 000 lines are the terminal's drawing,
input and command line (`quai-terminal`), and some 22 000 more are quoting, calldata, market tables,
summaries and feeds, which keep no state that two actors share.
What is left out:

* Swaps, liquidity, gauges, routes, curves, launches: arithmetic over 256-bit amounts, where property
  tests of the functions themselves say more than a model of them. The refusals they add to a
  preparation are in `PrepareReject`, `BuildFails` and `PrepareFails`.
* Review decoder and recipient checks: pure functions of calldata.
* Token amounts in `check_commitments`, other wallets of one owner, the tracker's activity and
  listings, the maturity countdown.
* The request budgets of the feeds (`quai-feeds/http.rs`), the daemon's sockets and its single
  instance, the scan for Qi coins after a restore.
* Messaging's identities, key search and public channels; encryption, here and in the vault, is out
  of a model checker's reach.
* Registry, configuration, contacts, portfolio, profit and loss: settings and summaries.
* The watch list, which loads and saves as alerts do.
