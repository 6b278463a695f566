------------------------------- MODULE Custody -------------------------------
(***************************************************************************)
(* The keys of an unlocked wallet, and the screen that shows it locked.    *)
(*                                                                         *)
(* One terminal and its engine. The screen sends commands to the host,     *)
(* which queues them for the signing lane and for the worker: two threads, *)
(* two queues, two sessions. A password is checked by a thread of its own, *)
(* which puts the keys in the wallet's custody and then tells the worker   *)
(* and the screen. Any session of a wallet clears the one custody they     *)
(* share. Events come back in one queue. Three more lanes, for Qi, for     *)
(* messages and for pending transactions, keep sessions of their own.      *)
(*                                                                         *)
(* wallet-core/src/custody.rs; quai-engine/src: host.rs, worker.rs,        *)
(* server.rs; quai-terminal/src/tui: app/events.rs, eco/data_events.rs.    *)
(***************************************************************************)
EXTENDS Naturals, Sequences, FiniteSets, Functions

CONSTANTS
  Wallets,   \* wallets with keys on this computer
  Home,      \* the one the terminal attached with
  Budget     \* bound: how often each kind of thing happens, a record

NoWallet == "none"
Kinds    == {"unlock", "wrong", "timeout", "lock", "autolock", "switch", "refuse", "review"}
Checks   == 1..Budget.unlock   \* the threads that check passwords
Reviews  == 1..Budget.review
NoReview == 0

ASSUME CustodyBounds ==
  /\ Home \in Wallets /\ NoWallet \notin Wallets
  /\ Budget \in [Kinds -> Nat]

VARIABLES
  ui,      \* the screen
  host,    \* the wallet it believes open, the wallets it shared, whether the client is here
  check,   \* what each password-checking thread does next, for which wallet
  slot,    \* custody in this client's scope: does it hold the wallet's keys
  own,     \* custody in the process's own scope: the daemon's watcher
  worker,  \* the wallet of the worker's session
  lane,    \* the signing lane's: wallet, its open reviews, the one it is signing
  side,    \* the other lanes: the wallets they were asked for, those they have open
  signq, workq, evq,
  signed,  \* reviews signed
  barred,  \* reviews asked for before a lock the host has passed on
  late,    \* reviews approved after one
  left     \* what is left of Budget

cvars == <<ui, host, check, slot, own, worker, lane, side, signq, workq, evq, signed, barred, late,
           left>>

Job(what, arg) == [do |-> what, of |-> arg]
Idle == [at |-> "idle", wallet |-> NoWallet]
Spend(kind) == left[kind] > 0 /\ left' = [left EXCEPT ![kind] = @ - 1]

CustodyInit ==
  /\ ui = [wallet |-> Home, locked |-> TRUE, unlocking |-> FALSE, switch |-> FALSE,
           review |-> NoReview, since |-> "lock"]
  /\ host = [wallet |-> Home, shared |-> {}, here |-> TRUE]
  /\ check = [c \in Checks |-> Idle]
  /\ slot = [w \in Wallets |-> FALSE] /\ own = [w \in Wallets |-> FALSE]
  /\ worker = Home /\ lane = [wallet |-> Home, reviews |-> {}, signing |-> NoReview]
  /\ side = [asked |-> {Home}, open |-> {}]
  /\ signq = <<>> /\ workq = <<>> /\ evq = <<>>
  /\ signed = {} /\ barred = {} /\ late = {}
  /\ left = Budget

\* A custody lives while a session of the worker or of any lane holds it; a later session starts
\* with an empty one.
Alive(s, held) == [w \in Wallets |-> s[w] /\ w \in held]
Cleared(s, w) == IF w \in Wallets THEN [s EXCEPT ![w] = FALSE] ELSE s

----------------------------------------------------------------------------
(* The screen. *)

\* ui.since is the last of what a lock must outlive: a password given or still being checked, a
\* lock, a switch. The screen locks: the review that was open is dropped with it.
EnterLock(u) == [u EXCEPT !.locked = TRUE, !.review = NoReview]

Checking == \E c \in Checks : check[c] # Idle
Since(what) == IF Checking THEN "password" ELSE what
\* Host.send(Lock): keys shared with the process's own scope go, then both queues hear.
LockShared == own' = [w \in Wallets |-> own[w] /\ w \notin host.shared]
\* Faulty: only one of the queues hears.
HostLockLane ==
  /\ LockShared /\ host' = [host EXCEPT !.shared = {}]
  /\ signq' = Append(signq, Job("lock", NoReview)) /\ UNCHANGED workq
  /\ barred' = 1..(Budget.review - left.review)

HostLockWorker ==
  /\ LockShared /\ host' = [host EXCEPT !.shared = {}]
  /\ workq' = Append(workq, Job("lock", NoWallet)) /\ UNCHANGED signq
  /\ barred' = 1..(Budget.review - left.review)

HostLock ==
  /\ LockShared
  /\ host' = [host EXCEPT !.shared = {}]
  /\ signq' = Append(signq, Job("lock", NoReview)) /\ workq' = Append(workq, Job("lock", NoWallet))
  /\ barred' = 1..(Budget.review - left.review)

LockNow ==
  /\ host.here /\ ~ui.locked /\ Spend("lock")
  /\ HostLock
  /\ ui' = [EnterLock(ui) EXCEPT !.since = Since("lock")]
  /\ UNCHANGED <<check, slot, worker, lane, side, evq, signed, late>>

\* The engine's own auto-lock: no activity for the configured time, and the wallet it believes
\* open has keys. A password being checked counts as activity.
EngineLock ==
  /\ host.here /\ slot[host.wallet] /\ ~Checking
  /\ Spend("autolock")
  /\ HostLock
  /\ UNCHANGED <<ui, check, slot, worker, lane, side, evq, signed, late>>

\* While a password is checked the keyboard is ignored.
BeginUnlock(c) ==
  /\ host.here /\ ui.locked /\ ~ui.unlocking /\ check[c] = Idle
  /\ Spend("unlock")
  /\ ui' = [ui EXCEPT !.unlocking = TRUE, !.since = "password"]
  /\ check' = [check EXCEPT ![c] = [at |-> "check", wallet |-> ui.wallet]]
  /\ UNCHANGED <<host, slot, own, worker, lane, side, signq, workq, evq, signed, barred, late>>

\* After 30 s without an answer it is not.
GiveUp ==
  /\ ui.unlocking /\ Spend("timeout")
  /\ ui' = [ui EXCEPT !.unlocking = FALSE]
  /\ UNCHANGED <<host, check, slot, own, worker, lane, side, signq, workq, evq, signed, barred,
                 late>>

\* The lane for pending transactions is told as well.
Switch(w) ==
  /\ host.here /\ w # ui.wallet /\ ~(ui.locked /\ ui.unlocking)
  /\ Spend("switch")
  /\ ui' = [EnterLock(ui) EXCEPT !.wallet = w, !.switch = TRUE, !.since = Since("switch")]
  /\ host' = [host EXCEPT !.wallet = w]
  /\ signq' = Append(signq, Job("wallet", w)) /\ workq' = Append(workq, Job("wallet", w))
  /\ side' = [side EXCEPT !.asked = @ \cup {w}]
  /\ UNCHANGED <<check, slot, own, worker, lane, evq, signed, barred, late>>

AskReview ==
  /\ host.here /\ ~ui.locked /\ ui.review = NoReview
  /\ Spend("review")
  /\ signq' = Append(signq, Job("prepare", Budget.review - left.review + 1))
  /\ UNCHANGED <<ui, host, check, slot, own, worker, lane, side, workq, evq, signed, barred, late>>

Decide ==
  /\ host.here /\ ui.review # NoReview
  /\ ui' = [ui EXCEPT !.review = NoReview]
  /\ \E what \in {"commit", "discard"} :
       /\ signq' = Append(signq, Job(what, ui.review))
       /\ late' = IF what = "commit" /\ ui.review \in barred THEN late \cup {ui.review} ELSE late
  /\ UNCHANGED <<host, check, slot, own, worker, lane, side, workq, evq, signed, barred, left>>

\* The terminal goes: the server locks a wallet left open, keeping what the daemon was given, and
\* both threads end after what is queued.
Leave ==
  /\ host.here
  /\ host' = [host EXCEPT !.here = FALSE]
  /\ ui' = [EnterLock(ui) EXCEPT !.unlocking = FALSE]
  /\ LET locks(arg) == IF slot[host.wallet] THEN <<Job("lock", arg)>> ELSE <<>>
         both(q, arg) == q \o locks(arg) \o <<Job("shutdown", arg)>>
     IN  signq' = both(signq, NoReview) /\ workq' = both(workq, NoWallet)
  /\ UNCHANGED <<check, slot, own, worker, lane, side, evq, signed, barred, late, left>>

\* One event reaches the screen.
Shown(u, e) ==
  CASE e.do = "unlocked" -> [u EXCEPT !.locked = FALSE, !.unlocking = FALSE]
    [] e.do = "failed"   -> [u EXCEPT !.unlocking = FALSE]
    [] e.do = "refused"  -> EnterLock([u EXCEPT !.switch = FALSE])
    \* The confirmation of a switch this screen already locked for.
    [] e.do = "locked"   -> IF u.switch /\ ~u.locked THEN [u EXCEPT !.switch = FALSE]
                            ELSE EnterLock([u EXCEPT !.switch = FALSE])
    [] e.do = "review"   -> IF u.locked THEN u ELSE [u EXCEPT !.review = e.of]

\* Faulty: whatever comes to a locked screen is taken for a review.
HearDiscardsAny ==
  /\ host.here /\ evq # <<>>
  /\ evq' = Tail(evq)
  /\ ui' = Shown(ui, Head(evq))
  /\ signq' = IF ui.locked THEN Append(signq, Job("discard", Head(evq).of)) ELSE signq
  /\ UNCHANGED <<host, check, slot, own, worker, lane, side, workq, signed, barred, late, left>>

Hear ==
  /\ host.here /\ evq # <<>>
  /\ evq' = Tail(evq)
  /\ ui' = Shown(ui, Head(evq))
  /\ signq' = IF Head(evq).do = "review" /\ ui.locked
              THEN Append(signq, Job("discard", Head(evq).of)) ELSE signq
  /\ UNCHANGED <<host, check, slot, own, worker, lane, side, workq, signed, barred, late, left>>

----------------------------------------------------------------------------
(* A thread that checks a password (Host.unlock). *)

At(c, at) == check' = [check EXCEPT ![c].at = at]
Finished(c) == check' = [check EXCEPT ![c] = Idle]

CheckPassword(c) ==
  /\ check[c].at = "check"
  /\ \/ /\ At(c, "share") /\ UNCHANGED <<evq, left>>
     \/ /\ Spend("wrong")
        /\ Finished(c) /\ evq' = Append(evq, Job("failed", NoReview))
  /\ UNCHANGED <<ui, host, slot, own, worker, lane, side, signq, workq, signed, barred, late>>

\* The daemon watches every wallet: it always has a session to share with.
CheckShare(c) ==
  /\ check[c].at = "share"
  /\ \/ own' = [own EXCEPT ![check[c].wallet] = TRUE] /\ At(c, "note")
     \/ At(c, "install") /\ UNCHANGED own   \* the user does not share unlocks
  /\ UNCHANGED <<ui, host, slot, worker, lane, side, signq, workq, evq, signed, barred, late, left>>

CheckNote(c) ==
  /\ check[c].at = "note"
  /\ host' = [host EXCEPT !.shared = @ \cup {check[c].wallet}]
  /\ At(c, "install")
  /\ UNCHANGED <<ui, slot, own, worker, lane, side, signq, workq, evq, signed, barred, late, left>>

\* Into whatever session has the wallet open, if one has.
CheckInstall(c) ==
  /\ check[c].at = "install"
  /\ LET w == check[c].wallet
     IN  slot' = [slot EXCEPT ![w] = @ \/ w \in {worker, lane.wallet} \cup side.open]
  /\ At(c, "tell")
  /\ UNCHANGED <<ui, host, own, worker, lane, side, signq, workq, evq, signed, barred, late, left>>

CheckTell(c) ==
  /\ check[c].at = "tell"
  /\ workq' = IF worker = NoWallet THEN workq ELSE Append(workq, Job("keys", check[c].wallet))
  /\ At(c, "say")
  /\ UNCHANGED <<ui, host, slot, own, worker, lane, side, signq, evq, signed, barred, late, left>>

CheckSay(c) ==
  /\ check[c].at = "say"
  /\ evq' = Append(evq, Job("unlocked", NoReview))
  /\ Finished(c)
  /\ UNCHANGED <<ui, host, slot, own, worker, lane, side, signq, workq, signed, barred, late, left>>

----------------------------------------------------------------------------
(* The worker. *)

Taking(what) == workq # <<>> /\ Head(workq).do = what /\ workq' = Tail(workq)

WorkerLock ==
  /\ Taking("lock")
  /\ slot' = Cleared(slot, worker)
  /\ evq' = Append(evq, Job("locked", NoReview))
  /\ UNCHANGED <<ui, host, check, own, worker, lane, side, signq, signed, barred, late, left>>

\* Keys for another wallet than the one open: its switch failed.
WorkerKeys ==
  /\ Taking("keys")
  /\ IF Head(workq).of = worker
     THEN slot' = [slot EXCEPT ![worker] = TRUE] /\ UNCHANGED evq
     ELSE evq' = Append(evq, Job("refused", NoReview)) /\ UNCHANGED slot
  /\ UNCHANGED <<ui, host, check, own, worker, lane, side, signq, signed, barred, late, left>>

WorkerSwitch ==
  /\ Taking("wallet")
  /\ \/ /\ worker' = Head(workq).of
        /\ slot' = Alive(Cleared(slot, worker), {worker', lane.wallet} \cup side.open)
        /\ evq' = Append(evq, Job("locked", NoReview))
        /\ UNCHANGED left
     \/ Spend("refuse") /\ UNCHANGED <<worker, slot, evq>>
  /\ UNCHANGED <<ui, host, check, own, lane, side, signq, signed, barred, late>>

WorkerEnd ==
  /\ Taking("shutdown")
  /\ worker' = NoWallet
  /\ slot' = Alive(Cleared(slot, worker), {lane.wallet} \cup side.open)
  /\ UNCHANGED <<ui, host, check, own, lane, side, signq, evq, signed, barred, late, left>>

----------------------------------------------------------------------------
(* The signing lane. *)

LaneFree == lane.signing = NoReview
LaneTaking(what) == LaneFree /\ signq # <<>> /\ Head(signq).do = what /\ signq' = Tail(signq)

LanePrepare ==
  /\ LaneTaking("prepare")
  /\ IF lane.wallet = NoWallet THEN UNCHANGED <<lane, evq>>
     ELSE /\ lane' = [lane EXCEPT !.reviews = @ \cup {Head(signq).of}]
          /\ evq' = Append(evq, Job("review", Head(signq).of))
  /\ UNCHANGED <<ui, host, check, slot, own, worker, side, workq, signed, barred, late, left>>

LaneDiscard ==
  /\ LaneTaking("discard")
  /\ lane' = [lane EXCEPT !.reviews = @ \ {Head(signq).of}]
  /\ UNCHANGED <<ui, host, check, slot, own, worker, side, workq, evq, signed, barred, late, left>>

\* The keys are asked for before the review is taken, and taken again to sign.
LaneCommit ==
  /\ LaneTaking("commit")
  /\ LET r == Head(signq).of
     IN  lane' = IF r \in lane.reviews /\ slot[lane.wallet]
                 THEN [lane EXCEPT !.reviews = @ \ {r}, !.signing = r] ELSE lane
  /\ UNCHANGED <<ui, host, check, slot, own, worker, side, workq, evq, signed, barred, late, left>>

LaneSign ==
  /\ ~LaneFree
  /\ lane' = [lane EXCEPT !.signing = NoReview]
  /\ signed' = IF slot[lane.wallet] THEN signed \cup {lane.signing} ELSE signed
  /\ UNCHANGED <<ui, host, check, slot, own, worker, side, signq, workq, evq, barred, late, left>>

LaneLock ==
  /\ LaneTaking("lock")
  /\ slot' = Cleared(slot, lane.wallet)
  /\ lane' = [lane EXCEPT !.reviews = {}]
  /\ UNCHANGED <<ui, host, check, own, worker, side, workq, evq, signed, barred, late, left>>

\* Only the reviews go: the worker locks the wallet that is left.
LaneSwitch ==
  /\ LaneTaking("wallet")
  /\ \/ lane' = [wallet |-> Head(signq).of, reviews |-> {}, signing |-> NoReview] /\ UNCHANGED left
     \/ Spend("refuse") /\ lane' = [wallet |-> NoWallet, reviews |-> {}, signing |-> NoReview]
  /\ slot' = Alive(slot, {worker, lane'.wallet} \cup side.open)
  /\ UNCHANGED <<ui, host, check, own, worker, side, workq, evq, signed, barred, late>>

LaneEnd ==
  /\ LaneTaking("shutdown")
  /\ lane' = [wallet |-> NoWallet, reviews |-> {}, signing |-> NoReview]
  /\ slot' = Alive(Cleared(slot, lane.wallet), {worker} \cup side.open)
  /\ UNCHANGED <<ui, host, check, own, worker, side, workq, evq, signed, barred, late, left>>

----------------------------------------------------------------------------
(* The other lanes. The worker asks two of them for the wallet it has, the   *)
(* host the third for the one it switches to. Their jobs wait in queues of   *)
(* their own: a wallet asked for once may be opened any time later.          *)

SideOpens(w) ==
  /\ w \in side.asked /\ side' = [side EXCEPT !.open = @ \cup {w}]
  /\ UNCHANGED <<ui, host, check, slot, own, worker, lane, signq, workq, evq, signed, barred, late,
                 left>>

\* For another wallet or network, or because the lane ends. None of them locks.
SideCloses(w) ==
  /\ w \in side.open /\ side' = [side EXCEPT !.open = @ \ {w}]
  /\ slot' = Alive(slot, {worker, lane.wallet} \cup side'.open)
  /\ UNCHANGED <<ui, host, check, own, worker, lane, signq, workq, evq, signed, barred, late, left>>

\* Nobody is left to ask them, and what they were asked for is done.
SideEnds ==
  /\ ~host.here /\ worker = NoWallet /\ side.asked # {}
  /\ side' = [side EXCEPT !.asked = {}]
  /\ UNCHANGED <<ui, host, check, slot, own, worker, lane, signq, workq, evq, signed, barred, late,
                 left>>

----------------------------------------------------------------------------
CustodyNext ==
  \/ LockNow \/ EngineLock \/ GiveUp \/ AskReview \/ Decide \/ Leave \/ Hear
  \/ \E w \in Wallets : Switch(w) \/ SideOpens(w) \/ SideCloses(w)
  \/ \E c \in Checks :
       \/ BeginUnlock(c) \/ CheckPassword(c) \/ CheckShare(c) \/ CheckNote(c)
       \/ CheckInstall(c) \/ CheckTell(c) \/ CheckSay(c)
  \/ WorkerLock \/ WorkerKeys \/ WorkerSwitch \/ WorkerEnd
  \/ LanePrepare \/ LaneDiscard \/ LaneCommit \/ LaneSign \/ LaneLock \/ LaneSwitch \/ LaneEnd
  \/ SideEnds

CustodySpec == CustodyInit /\ [][CustodyNext]_cvars

----------------------------------------------------------------------------
(* Properties. *)

Settled == /\ signq = <<>> /\ workq = <<>> /\ LaneFree
           /\ host.here => evq = <<>>
           /\ ~host.here => side.open = {}
           /\ ~Checking

Jobs(kinds, args) == [do : kinds, of : args]

\* The state has its shape: one wallet a session, and the queues hold the jobs each side knows.
CustodyTypeOK ==
  /\ ui \in [wallet : Wallets, locked : BOOLEAN, unlocking : BOOLEAN, switch : BOOLEAN,
             review : {NoReview} \cup Reviews, since : {"password", "lock", "switch"}]
  /\ host \in [wallet : Wallets, shared : SUBSET Wallets, here : BOOLEAN]
  /\ check \in [Checks -> [at : {"idle", "check", "share", "note", "install", "tell", "say"},
                           wallet : Wallets \cup {NoWallet}]]
  /\ slot \in [Wallets -> BOOLEAN] /\ own \in [Wallets -> BOOLEAN]
  /\ worker \in Wallets \cup {NoWallet}
  /\ lane \in [wallet : Wallets \cup {NoWallet}, reviews : SUBSET Reviews,
               signing : {NoReview} \cup Reviews]
  /\ side \in [asked : SUBSET Wallets, open : SUBSET Wallets]
  /\ \A k \in DOMAIN signq :
       signq[k] \in Jobs({"prepare", "commit", "discard"}, Reviews)
                      \cup Jobs({"lock", "shutdown"}, {NoReview}) \cup Jobs({"wallet"}, Wallets)
  /\ \A k \in DOMAIN workq :
       workq[k] \in Jobs({"lock", "shutdown"}, {NoWallet}) \cup Jobs({"keys", "wallet"}, Wallets)
  /\ signed \subseteq Reviews /\ barred \subseteq Reviews /\ late \subseteq Reviews
  /\ left \in [Kinds -> Nat]

\* A lock takes the keys, once everything is heard. The sessions that act for the screen, the
\* worker's and the signing lane's, have none after a lock with no password being checked then and
\* none given since (lock_now, Worker::send). The engine has none at all after a terminal left
\* (server.rs), and none after such a lock or a switch if every wallet opened, for one that does
\* not leaves the worker the one before, keys and all, and if no check outlived the screen's
\* patience, for it gives its keys to whichever session still has its wallet (Cmd::SwitchWallet).
Opened == left["refuse"] = Budget["refuse"]
InTime == left["timeout"] = Budget["timeout"]
Acting == {worker, lane.wallet} \cap Wallets
NoKeys(wallets) == \A w \in wallets : ~slot[w]
LockTakesKeys == Settled =>
  /\ ~host.here => NoKeys(Wallets)
  /\ host.here /\ ui.since = "lock" => NoKeys(Acting)
  /\ host.here /\ ui.since \in {"lock", "switch"} /\ Opened /\ InTime => NoKeys(Wallets)

\* Nothing approved after a lock is signed on a review from before it, though the screen may not
\* have heard of the lock and the worker may be long in reaching it (Worker::send: "never after a
\* lock").
NothingSignedLate == signed \cap late = {}

\* "The session follows, the keys of the old one are dropped" (tui/eco/data_events.rs:67): after a
\* switch that no password follows, once everything is heard, there are no keys.
SwitchDropsKeys == Settled /\ host.here /\ ui.since = "switch" => NoKeys(Wallets)

\* "Nothing is left to chase through the lanes" (custody.rs:8): after a lock that no password
\* follows, once everything is heard, no lane's session has keys.
LockEmptiesAll == Settled /\ host.here /\ ui.since = "lock" => NoKeys(Wallets)

\* A screen that shows a wallet open has its keys, once everything is heard.
OpenHasKeys == Settled /\ host.here /\ ~ui.locked => slot[ui.wallet]

\* "Locking empties the slot for every session at once" (custody.rs:8): once everything is heard, a
\* locked screen on the worker's own wallet leaves no keys.
LockedHasNoKeys == Settled /\ ui.locked /\ ui.wallet = worker => ~slot[worker]

\* A review the screen dropped when it locked is gone from the lane too ("it was discarded and
\* nothing was signed", tui/app/events.rs:934).
LockedHasNoReviews == Settled /\ ui.locked => lane.reviews = {}

=============================================================================
