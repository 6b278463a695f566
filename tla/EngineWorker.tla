---------------------------- MODULE EngineWorker ----------------------------
(***************************************************************************)
(* The engine of one terminal: the wallet worker and its command queue,    *)
(* the refresh it runs step by step and cuts short for the user, the lane  *)
(* that watches sent transactions, the Qi lane, and the screen that hears  *)
(* them all through one channel of events.                                 *)
(*                                                                         *)
(* Block heights, what the journal says and how recent a balance is are    *)
(* what the screen is judged by: tokens, prices, node detail and messages  *)
(* carry none of them and appear only as time the worker is busy. Custody  *)
(* of keys is the module Custody's, reviews and sending AccountPipeline's. *)
(*                                                                         *)
(* quai-engine/src/worker.rs; quai-terminal/src tui/app/events.rs.         *)
(***************************************************************************)
EXTENDS Naturals, Sequences, FiniteSets, SequencesExt, FiniteSetsExt

CONSTANTS
  Places,        \* pairs of a wallet and a network the user moves between
  FirstPlace,    \* where the terminal starts
  FirstHeight,   \* each network's height at the start
  MaxJournal,    \* bound: changes of a journal
  MaxEvents,     \* bound: events the screen has not heard yet
  MaxQi,         \* bound: Qi passes asked for and not answered
  WorkBudgets    \* bound: how often each kind of thing happens, one record per scenario

Wallet(p) == p[1]
Net(p) == p[2]
Nets == {Net(p) : p \in Places}
WorkKinds == {"switch", "edit", "scan", "fail", "block", "mined", "commit", "due", "poll", "stamp"}

ASSUME WorkBounds ==
  /\ FirstPlace \in Places /\ FirstHeight \in [Nets -> Nat \ {0}]
  /\ {MaxJournal, MaxEvents, MaxQi} \subseteq Nat
  /\ WorkBudgets \subseteq [WorkKinds -> Nat]

VARIABLES
  height,     \* each network's newest block
  journal,    \* each place's journal: how often it has changed
  session,    \* the place the worker has open
  step,       \* where the worker is: its turn, or a step of a refresh
  job,        \* the refresh under way: what asked for it, forced, the block it reads at, its notices
  dash,       \* the worker's dashboard: place, journal read and its stamp, block of the balances
  heads,      \* seen, announced_head, refreshed_head
  since,      \* time since the last refresh: 0, at least a block's gap, at least IDLE_REFRESH
  due,        \* the stages that are due
  inbox,      \* the worker's queue of commands
  lull,       \* an empty turn has passed since the last poll of a conversation
  stamp,      \* ops_stamp: the next journal read's place in order
  pending,    \* the pending lane: where it is, its place, what it tracked and read
  qi,         \* the Qi lane: passes counted as out, and those waiting or running
  events,     \* what was sent to the screen and not heard yet
  screen,     \* what the screen shows
  switches,   \* how often the user switched, for telling which notice is whose
  heard,      \* the newest height the screen was told since it came to this network
  early,      \* a notice was heard of something the screen did not show yet
  wleft       \* what is left of the scenario's budget

wvars == <<height, journal, session, step, job, dash, heads, since, due, inbox, lull, stamp,
           pending, qi, events, screen, switches, heard, early, wleft>>

WSpend(kind) == wleft[kind] > 0 /\ wleft' = [wleft EXCEPT ![kind] = @ - 1]

Stages == {"track", "qi"}
Empty(p) == [place |-> p, ops |-> 0, at |-> 0, bal |-> 0]
NoWork == [kind |-> "none", force |-> FALSE, read |-> 0, notes |-> <<>>]
Fresh == [seen |-> 0, announced |-> 0, refreshed |-> 0]
Watching(p) == [pc |-> "idle", place |-> p, ver |-> 0, at |-> 0, ops |-> 0, sw |-> 0, next |-> <<>>]

WorkerInit ==
  /\ height = FirstHeight /\ journal = [p \in Places |-> 0]
  /\ session = FirstPlace /\ step = "turn" /\ job = NoWork
  /\ dash = Empty(FirstPlace) /\ heads = Fresh /\ since = 2 /\ due = Stages
  /\ inbox = <<>> /\ lull = TRUE /\ stamp = 1
  /\ pending = Watching(FirstPlace) /\ qi = [out |-> 0, jobs |-> <<>>]
  /\ events = <<>> /\ screen = Empty(FirstPlace)
  /\ switches = 0 /\ heard = 0 /\ early = FALSE /\ wleft \in WorkBudgets

Cmd(kind, place, force) == [kind |-> kind, place |-> place, force |-> force]
Dashboard(d) == [kind |-> "dash", place |-> d.place, ops |-> d.ops, at |-> d.at, bal |-> d.bal]
Ops(place, ops, at) == [kind |-> "ops", place |-> place, ops |-> ops, at |-> at]
Notify(place, ver, sw) == [kind |-> "notify", place |-> place, ver |-> ver, sw |-> sw]
Room(n) == Len(events) + n <= MaxEvents
Says(s) == Room(Len(s)) /\ events' = events \o s

\* The user, the worker, the lane and the screen are in one place, and nothing is on its way that is not.
Settled ==
  /\ screen.place = session /\ pending.place = session /\ pending.next = <<>> /\ job.kind # "switch"
  /\ \A i \in 1..Len(inbox) : inbox[i].kind # "switch"
  /\ \A i \in 1..Len(events) : events[i].place = session

\* What a notice remembers of the moment its change was found: how often the user had switched,
\* counted from 1, or 0: that not everyone had followed yet.
Seat == IF Settled THEN switches + 1 ELSE 0

----------------------------------------------------------------------------
(* The queue (Inbox) and the pieces of the dashboard. *)

\* Faulty: everything is urgent.
AllUrgent(c) == TRUE

\* The work that repeats on its own is not.
Urgent(c) == c.kind \notin {"refresh", "qisynced", "poll"}
UserWaits == \E i \in 1..Len(inbox) : Urgent(inbox[i])

\* Inbox::next: the first urgent command, else the first; queued refreshes merge into one.
At == IF UserWaits THEN Min({i \in 1..Len(inbox) : Urgent(inbox[i])}) ELSE 1
Merged(c) == IF c.kind = "refresh"
            THEN Cmd("refresh", c.place, \E i \in 1..Len(inbox) : inbox[i].kind = "refresh" /\ inbox[i].force)
            ELSE c
Others(s) ==
  LET upto[n \in 0..Len(s)] == IF n = 0 THEN <<>>
                               ELSE IF s[n].kind = "refresh" THEN upto[n - 1] ELSE Append(upto[n - 1], s[n])
  IN upto[Len(s)]
Rest(c) == IF c.kind = "refresh" THEN Others(inbox) ELSE RemoveAt(inbox, At)

\* bound: journal reads are told apart up to this stamp; no transaction is mined after it.
MaxStamp == wleft.stamp

\* refresh_local, read_local: the stamp is taken, then the journal read.
Stamped == IF stamp < MaxStamp THEN stamp + 1 ELSE stamp
ReadLocal(d) == [d EXCEPT !.place = session, !.ops = journal[session], !.at = stamp]

\* Faulty: passes are asked for while others are out.
StacksUp(q) == [out |-> q.out + 1, jobs |-> Append(q.jobs, session)]

\* QiLane::ask.
Asked(q) == [out |-> q.out + 1, jobs |-> Append(q.jobs, session)]
\* QiLane::refresh: the periodic pass, unless one is already out.
Periodic(q) == IF q.out > 0 THEN q ELSE Asked(q)

----------------------------------------------------------------------------
(* A turn of the worker: the newest head is looked at and announced, then  *)
(* a command is taken, or the wait of 250 ms ended with nothing.           *)

Peak(a, b) == IF a > b THEN a ELSE b

\* Heads::latest: polled at most every 2 s, so a turn may know no more than the one before.
Polled(h) == h \in {heads.seen, Peak(heads.seen, height[Net(session)])}
Hears(h) ==
  /\ Polled(h)
  /\ heard' = IF h > heads.announced THEN h ELSE heard

Told(h) == [heads EXCEPT !.seen = h, !.announced = Peak(@, h)]

\* refresh begins with what costs nothing.
Starts(kind, force, read) ==
  /\ step' = "check"
  /\ job' = [kind |-> kind, force |-> force, read |-> read, notes |-> <<>>]
  /\ dash' = ReadLocal(dash) /\ stamp' = Stamped

Idle(h) ==
  /\ step = "turn" /\ inbox = <<>>
  /\ Hears(h) /\ lull' = TRUE
  /\ \/ /\ since = 2 /\ heads' = Told(h)
        /\ Starts("refresh", FALSE, heads'.announced)
     \/ /\ since = 1 /\ h > heads.refreshed /\ heads' = [Told(h) EXCEPT !.refreshed = h]
        /\ Starts("refresh", FALSE, heads'.announced)
     \/ /\ since = 0 \/ (since = 1 /\ h <= heads.refreshed)
        /\ heads' = Told(h)
        /\ UNCHANGED <<step, job, dash, stamp>>
  /\ UNCHANGED <<height, journal, session, since, due, inbox, pending, qi, events, screen, switches, early, wleft>>

\* A command is picked: what every one of them does to the queue and the heads.
Picks(h, kind) ==
  /\ step = "turn" /\ inbox # <<>> /\ inbox[At].kind = kind
  /\ Hears(h)
  /\ inbox' = Rest(inbox[At])
  /\ UNCHANGED <<height, journal, pending, screen, switches, early>>

\* Cmd::Refresh and Cmd::Committed: a transaction went out, read now, past every stage's timer.
TakeRefresh(h) ==
  /\ Picks(h, "refresh") /\ heads' = Told(h)
  /\ Starts("refresh", Merged(inbox[At]).force, heads'.announced)
  /\ UNCHANGED <<session, since, due, lull, qi, events, wleft>>

TakeCommitted(h) ==
  /\ Picks(h, "committed") /\ heads' = Told(h)
  /\ Starts("committed", TRUE, 0)
  /\ UNCHANGED <<session, since, due, lull, qi, events, wleft>>

\* An edit of the wallet's own data shows at once; a new account is read on the next idle turn.
TakeEdit(h) ==
  /\ Picks(h, "edit") /\ heads' = Told(h)
  /\ dash' = ReadLocal(dash) /\ stamp' = Stamped
  /\ Says(<<Dashboard(dash')>>)
  /\ since' = IF inbox[At].force THEN 2 ELSE since
  /\ UNCHANGED <<session, step, job, due, lull, qi, wleft>>

\* Cmd::ScanQi: in the Qi lane, and the local data read again.
TakeScan(h) ==
  /\ Picks(h, "scan") /\ heads' = Told(h)
  /\ qi.out < MaxQi /\ qi' = Asked(qi)
  /\ dash' = ReadLocal(dash) /\ stamp' = Stamped
  /\ Says(<<Dashboard(dash')>>)
  /\ UNCHANGED <<session, step, job, since, due, lull, wleft>>

\* Faulty: a pass for a place the user has left is not counted back.
CountedHere(place) == IF place = session THEN [qi EXCEPT !.out = @ - 1] ELSE qi

\* A pass is over, whoever it was for.
Counted(place) == [qi EXCEPT !.out = IF @ = 0 THEN 0 ELSE @ - 1]

\* Cmd::QiSynced: shown unless it is for a wallet or network the user has since left.
TakeQiSynced(h) ==
  /\ Picks(h, "qisynced") /\ heads' = Told(h)
  /\ qi' = Counted(inbox[At].place)
  /\ IF inbox[At].place = session THEN Says(<<Dashboard(dash)>>) ELSE UNCHANGED events
  /\ UNCHANGED <<session, step, job, dash, since, due, lull, stamp, wleft>>

\* An open conversation is read again: the messaging lane's work.
TakePoll(h) ==
  /\ Picks(h, "poll") /\ heads' = Told(h)
  /\ lull' = FALSE
  /\ UNCHANGED <<session, step, job, dash, since, due, qi, stamp, events, wleft>>

\* Cmd::SwitchWallet, Cmd::SwitchNetwork: another session, empty numbers, every stage due, the
\* heads watched anew and read at once. The heights told so far are kept.
TakeSwitch(h) ==
  /\ step = "turn" /\ inbox # <<>> /\ inbox[At].kind = "switch" /\ Polled(h)
  /\ inbox' = Rest(inbox[At])
  /\ session' = inbox[At].place
  /\ heard' = IF Net(session') # Net(session) THEN 0 ELSE Peak(heard, h)
  /\ due' = Stages
  /\ heads' = [Told(h) EXCEPT !.seen = 0]
  /\ Says(<<Dashboard(Empty(session'))>>)
  /\ step' = "check"
  /\ job' = [kind |-> "switch", force |-> TRUE, read |-> 0, notes |-> <<>>]
  /\ dash' = [place |-> session', ops |-> journal[session'], at |-> stamp, bal |-> 0] /\ stamp' = Stamped
  /\ UNCHANGED <<height, journal, since, lull, pending, qi, screen, switches, early, wleft>>

\* The other session does not open: this one stays.
SwitchFails(h) ==
  /\ Picks(h, "switch") /\ heads' = Told(h) /\ WSpend("fail")
  /\ UNCHANGED <<session, step, job, dash, since, due, lull, qi, stamp, events>>

----------------------------------------------------------------------------
(* The steps of a refresh. *)

Refreshing == step \in {"check", "balances", "track", "tokens", "price"}
Rests == <<height, journal, session, heads, since, due, inbox, lull, stamp, pending, qi, screen, switches, heard, early>>

\* network::check_node_detail: the node answers, and what is known so far is published.
NodeAnswers ==
  /\ step = "check"
  /\ Says(<<Dashboard(dash)>>)
  /\ step' = "balances"
  /\ UNCHANGED <<Rests, job, dash, wleft>>

\* quai_balances_with, at the announced block when the node has it, else at its latest.
BlockRead == IF job.read = 0 \/ job.read > height[Net(session)] THEN height[Net(session)] ELSE job.read

Balances ==
  /\ step = "balances"
  /\ \/ dash' = [dash EXCEPT !.bal = BlockRead] /\ UNCHANGED wleft
     \/ WSpend("fail") /\ UNCHANGED dash
  /\ Says(<<Dashboard(dash')>>)
  /\ step' = "track"
  /\ UNCHANGED <<Rests, job>>

\* A tracking pass finds that something changed, and writes it.
Finds(found, p) ==
  /\ found => journal[p] < MaxJournal /\ wleft.mined > 0 /\ stamp < MaxStamp
  /\ journal' = IF found THEN [journal EXCEPT ![p] = @ + 1] ELSE journal

\* reconcile: what tracking found changes the journal and is kept to be said after the dashboard,
\* where somebody keeps it; a payment channel may want another Qi pass. The journal is read again.
Track ==
  /\ step = "track" /\ (job.force \/ "track" \in due) /\ ~UserWaits
  /\ due' = due \ {"track"}
  /\ \E found \in BOOLEAN, more \in BOOLEAN :
       /\ wleft' = [wleft EXCEPT !.mined = IF found THEN @ - 1 ELSE @, !.scan = IF more THEN @ - 1 ELSE @]
       /\ Finds(found, session)
       /\ job' = IF found /\ job.kind = "refresh"
                 THEN [job EXCEPT !.notes = Append(@, Notify(session, journal'[session], Seat))] ELSE job
       /\ more => qi.out < MaxQi /\ wleft.scan > 0
       /\ qi' = IF more THEN Asked(qi) ELSE qi
  /\ dash' = [dash EXCEPT !.ops = journal'[session], !.at = stamp] /\ stamp' = Stamped
  /\ step' = "tokens"
  /\ UNCHANGED <<height, session, heads, since, inbox, lull, pending, events, screen, switches, heard, early>>

\* Not due, or the user came first: perhaps in the middle, after a row was written and before it
\* was reported.
TrackSkipped ==
  /\ step = "track" /\ (UserWaits \/ ~(job.force \/ "track" \in due))
  /\ \E found \in BOOLEAN :
       /\ found => UserWaits /\ (job.force \/ "track" \in due)
       /\ Finds(found, session)
       /\ wleft' = [wleft EXCEPT !.mined = IF found THEN @ - 1 ELSE @]
  /\ dash' = [dash EXCEPT !.ops = journal'[session], !.at = stamp] /\ stamp' = Stamped
  /\ step' = "tokens"
  /\ UNCHANGED <<height, session, job, heads, since, due, inbox, lull, pending, qi, events, screen, switches, heard, early>>

\* Token balances, published when they were due; then a Qi pass is asked for.
TokensAndQi ==
  /\ step = "tokens"
  /\ Says(<<Dashboard(dash)>>) \/ (~job.force /\ UNCHANGED events)
  /\ IF job.force \/ "qi" \in due
     THEN qi' = Periodic(qi) /\ due' = due \ {"qi"} ELSE UNCHANGED <<qi, due>>
  /\ step' = "price"
  /\ UNCHANGED <<height, journal, session, job, dash, heads, since, inbox, lull, stamp, pending, screen, switches, heard, early, wleft>>

\* A refresh ends: the dashboard, then the notices. One that was cut short is due again at once.
Ends(whole) ==
  /\ Says(<<Dashboard(dash)>> \o job.notes)
  /\ since' = CASE job.kind = "refresh" -> IF whole THEN 0 ELSE 2
                [] job.kind = "switch"  -> 0
                [] OTHER                -> since
  /\ step' = "turn" /\ job' = NoWork
  /\ UNCHANGED <<height, journal, session, dash, heads, due, inbox, lull, stamp, pending, qi, screen, switches, heard, early>>

Completes  == step = "price" /\ Ends(TRUE) /\ UNCHANGED wleft
NodeFails  == step = "check" /\ WSpend("fail") /\ Ends(TRUE)
CutShort   == Refreshing /\ step # "track" /\ UserWaits /\ Ends(FALSE) /\ UNCHANGED wleft

Heights == 0..Max({height[n] : n \in Nets})

WorkerSteps ==
  \/ \E h \in Heights :
       \/ Idle(h) \/ TakeRefresh(h) \/ TakeCommitted(h) \/ TakeEdit(h) \/ TakeScan(h)
       \/ TakeQiSynced(h) \/ TakePoll(h) \/ TakeSwitch(h)
  \/ NodeAnswers \/ Balances \/ Track \/ TrackSkipped \/ TokensAndQi \/ Completes \/ CutShort

----------------------------------------------------------------------------
(* The pending lane: sent transactions, watched until they are mined. *)

Lane == <<session, step, job, dash, heads, since, due, lull, qi, screen, switches, heard, early, height>>

\* It moves to the wallet or network on screen between two looks.
LaneMoves ==
  /\ pending.pc = "idle" /\ pending.next # <<>>
  /\ pending' = [Watching(Head(pending.next)) EXCEPT !.next = Tail(pending.next)]
  /\ UNCHANGED <<Lane, wleft, journal, inbox, stamp, events>>

\* track_inclusion: a transaction was mined, and the journal says so.
LaneTracks ==
  /\ pending.pc = "idle"
  /\ Finds(TRUE, pending.place) /\ WSpend("mined")
  /\ pending' = [pending EXCEPT !.pc = "stamp", !.ver = journal'[pending.place], !.sw = Seat]
  /\ UNCHANGED <<Lane, inbox, stamp, events>>

\* Faulty: the notice is said as soon as the change is known.
LaneSaysFirst ==
  /\ pending.pc = "stamp" /\ stamp < MaxStamp
  /\ pending' = [pending EXCEPT !.pc = "read", !.at = stamp] /\ stamp' = Stamped
  /\ Says(<<Notify(pending.place, pending.ver, pending.sw)>>)
  /\ UNCHANGED <<Lane, wleft, journal, inbox>>

LaneStamps ==
  /\ pending.pc = "stamp" /\ stamp < MaxStamp
  /\ pending' = [pending EXCEPT !.pc = "read", !.at = stamp] /\ stamp' = Stamped
  /\ UNCHANGED <<Lane, wleft, journal, inbox, events>>

LaneReads ==
  /\ pending.pc = "read"
  /\ pending' = [pending EXCEPT !.pc = "send", !.ops = journal[pending.place]]
  /\ UNCHANGED <<Lane, wleft, journal, inbox, stamp, events>>

LaneSends ==
  /\ pending.pc = "send"
  /\ Says(<<Ops(pending.place, pending.ops, pending.at)>>)
  /\ pending' = [pending EXCEPT !.pc = "notify"]
  /\ UNCHANGED <<Lane, wleft, journal, inbox, stamp>>

\* The notice, and a refresh: balances moved with it.
LaneNotifies ==
  /\ pending.pc = "notify"
  /\ Says(<<Notify(pending.place, pending.ver, pending.sw)>>)
  /\ pending' = [Watching(pending.place) EXCEPT !.next = pending.next]
  /\ inbox' = Append(inbox, Cmd("refresh", pending.place, FALSE))
  /\ UNCHANGED <<Lane, wleft, journal, stamp>>

\* The Qi lane answers a pass: refreshed, scanned, or failed.
QiPass ==
  /\ qi.jobs # <<>>
  /\ qi' = [qi EXCEPT !.jobs = Tail(@)]
  /\ inbox' = Append(inbox, Cmd("qisynced", Head(qi.jobs), FALSE))
  /\ UNCHANGED <<height, journal, session, step, job, dash, heads, since, due, lull, stamp, pending,
                 events, screen, switches, heard, early, wleft>>

----------------------------------------------------------------------------
(* The screen. *)

\* A dashboard replaces what is shown, but for a later read of the journal of the same place.
Shown(d) ==
  IF d.at < screen.at /\ d.place = screen.place
  THEN [place |-> d.place, ops |-> screen.ops, at |-> screen.at, bal |-> d.bal]
  ELSE [place |-> d.place, ops |-> d.ops, at |-> d.at, bal |-> d.bal]

Hear ==
  /\ events # <<>>
  /\ LET e == Head(events) IN
     /\ screen' = CASE e.kind = "dash" -> Shown(e)
                    [] e.kind = "ops" /\ e.at > screen.at /\ e.place = screen.place ->
                         [screen EXCEPT !.ops = e.ops, !.at = e.at]
                    [] OTHER -> screen
     /\ early' = (early \/ (e.kind = "notify" /\ e.sw = switches + 1 /\ screen.ops < e.ver))
  /\ events' = Tail(events)
  /\ UNCHANGED <<height, journal, session, step, job, dash, heads, since, due, inbox, lull, stamp,
                 pending, qi, switches, heard, wleft>>

\* switch_wallet, switch_network: the new place, empty, before any lane hears of it.
Switch(p) ==
  /\ p # screen.place /\ (Wallet(p) = Wallet(screen.place) \/ Net(p) = Net(screen.place))
  /\ WSpend("switch")
  /\ screen' = Empty(p) /\ switches' = switches + 1
  /\ pending' = [pending EXCEPT !.next = Append(@, p)]
  /\ inbox' = Append(inbox, Cmd("switch", p, FALSE))
  /\ UNCHANGED <<height, journal, session, step, job, dash, heads, since, due, lull, stamp, qi, events, heard, early>>

Sends(c) ==
  /\ inbox' = Append(inbox, c)
  /\ UNCHANGED <<height, session, step, job, dash, heads, since, due, lull, stamp,
                 pending, qi, events, screen, switches, heard, early>>

Edit == WSpend("edit") /\ (\E adds \in BOOLEAN : Sends(Cmd("edit", session, adds))) /\ UNCHANGED journal
Scan == WSpend("scan") /\ Sends(Cmd("scan", session, FALSE)) /\ UNCHANGED journal
FullRefresh == WSpend("edit") /\ Sends(Cmd("refresh", session, TRUE)) /\ UNCHANGED journal

\* The signing lane sent something: the journal says so, and the worker is told.
Commit ==
  /\ journal[session] < MaxJournal /\ WSpend("commit")
  /\ journal' = [journal EXCEPT ![session] = @ + 1]
  /\ Sends(Cmd("committed", session, FALSE))

\* The Board re-reads an open conversation every few seconds: never twice without an empty turn
\* of 250 ms in between, but any number of times while a refresh runs.
Poll ==
  /\ \A i \in 1..Len(inbox) : inbox[i].kind # "poll"
  /\ step # "turn" \/ lull
  /\ wleft.poll > 0   \* bound: a scenario polls without end, or not at all
  /\ Sends(Cmd("poll", session, FALSE)) /\ UNCHANGED <<journal, wleft>>

----------------------------------------------------------------------------
(* Blocks and time. *)

Block(n) ==
  /\ WSpend("block")
  /\ height' = [height EXCEPT ![n] = @ + 1]
  /\ UNCHANGED <<journal, session, step, job, dash, heads, since, due, inbox, lull, stamp,
                 pending, qi, events, screen, switches, heard, early>>

Elapse ==
  /\ step = "turn" /\ since < 2
  /\ since' = since + 1
  /\ UNCHANGED <<height, journal, session, step, job, dash, heads, due, inbox, lull, stamp,
                 pending, qi, events, screen, switches, heard, early, wleft>>

StageDue(s) ==
  /\ s \notin due /\ WSpend("due") /\ due' = due \cup {s}
  /\ UNCHANGED <<height, journal, session, step, job, dash, heads, since, inbox, lull, stamp,
                 pending, qi, events, screen, switches, heard, early>>

WorkerNext ==
  \/ WorkerSteps
  \/ NodeFails \/ \E h \in Heights : SwitchFails(h)
  \/ LaneMoves \/ LaneTracks \/ LaneStamps \/ LaneReads \/ LaneSends \/ LaneNotifies \/ QiPass
  \/ Hear \/ Edit \/ Scan \/ FullRefresh \/ Commit \/ Poll \/ Elapse
  \/ \E p \in Places : Switch(p)
  \/ \E n \in Nets : Block(n)
  \/ \E s \in Stages : StageDue(s)

WorkerSpec == WorkerInit /\ [][WorkerNext]_wvars

\* The worker and the lanes are threads that run; time passes; the screen is drawn; and the
\* polling of the head is not put off for ever.
SeesNewest == Idle(Peak(heads.seen, height[Net(session)]))
WorkerFair ==
  /\ WF_wvars(WorkerSteps) /\ WF_wvars(Hear) /\ WF_wvars(Elapse) /\ WF_wvars(QiPass)
  /\ WF_wvars(LaneSends) /\ WF_wvars(LaneNotifies)
  /\ SF_wvars(SeesNewest)
WorkerFairSpec == WorkerSpec /\ WorkerFair

----------------------------------------------------------------------------
(* Properties. *)

Top == Max({FirstHeight[n] : n \in Nets}) + Max({w.block : w \in WorkBudgets})
Commands == {"refresh", "committed", "edit", "scan", "qisynced", "poll", "switch"}
Known == [place : Places, ops : 0..MaxJournal, at : Nat, bal : 0..Top]

WorkerTypeOK ==
  /\ height \in [Nets -> 1..Top] /\ journal \in [Places -> 0..MaxJournal]
  /\ session \in Places /\ step \in {"turn", "check", "balances", "track", "tokens", "price"}
  /\ job.kind \in {"none", "refresh", "committed", "switch"} /\ (step = "turn" <=> job.kind = "none")
  /\ dash \in Known /\ screen \in Known /\ dash.place = session
  /\ heads \in [seen : 0..Top, announced : 0..Top, refreshed : 0..Top]
  /\ since \in 0..2 /\ due \in SUBSET Stages /\ lull \in BOOLEAN /\ stamp \in Nat
  /\ \A i \in 1..Len(inbox) : inbox[i] \in [kind : Commands, place : Places, force : BOOLEAN]
  /\ pending.pc \in {"idle", "stamp", "read", "send", "notify"} /\ pending.place \in Places
  /\ qi.out \in 0..MaxQi /\ Len(events) <= MaxEvents
  /\ switches \in Nat /\ heard \in 0..Top /\ early \in BOOLEAN /\ wleft \in [WorkKinds -> Nat]

\* "A notice never announces something the screen does not show yet" (worker.rs:1886-1887): for a
\* change found while user, worker and lane were in one place, and heard there.
NoticeAfterShown == ~early

\* The periodic Qi pass waits while one is out, so every pass asked for is counted back, or Qi is
\* never read again: those counted are those waiting, running, or answered and not yet taken.
QiPassesCounted ==
  qi.out = Len(qi.jobs) + Cardinality({i \in 1..Len(inbox) : inbox[i].kind = "qisynced"})

\* Once blocks and the user pause, the screen comes to show the newest block's balances of its
\* place, for good, however often an open conversation is polled: a poll that cut refreshes "would cut every refresh short before it could finish" (worker.rs:1428-1430).
BalancesCatchUp == <>[](screen.place = session /\ screen.bal = height[Net(session)])

\* Screens hear about a new block "the moment it is seen" (worker.rs:1819).
NewBlocksAreHeard == heads.seen <= heard

\* "A read stamped later saw the journal no earlier than one stamped before it" (worker.rs:781).
OpsMoveForward == [][screen'.place = screen.place /\ switches' = switches => screen'.ops >= screen.ops]_wvars
=============================================================================
