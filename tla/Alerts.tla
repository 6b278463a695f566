------------------------------- MODULE Alerts -------------------------------
(***************************************************************************)
(* One wallet's alerts on one pair: whoever checks them (the daemon, and a *)
(* terminal when the daemon's heartbeat is not fresh and clean) and        *)
(* whoever edits them, over one row of the wallet's database that every    *)
(* one of them loads whole and saves whole.                                *)
(*                                                                         *)
(* A check loads the alerts, asks the market and the node, decides what    *)
(* fires, loads again, writes the new state onto what is stored now, and   *)
(* notifies. The market's answer may be too old to decide anything. A load *)
(* that fails reads as a row without alerts.                               *)
(*                                                                         *)
(* wallet-core/src: alerts.rs (add, remove, check, run); quai-terminal/src *)
(* daemon.rs (AlertWorker); quai-engine/src data.rs (AlertOp).             *)
(***************************************************************************)
EXTENDS Naturals, FiniteSets, FiniteSetsExt

CONSTANTS
  Checkers,      \* processes that check alerts
  Daemon,        \* the one that is not gated by the heartbeat
  Editors,       \* processes that add and remove alerts
  MaxAlerts,     \* bound: alerts ever added
  AlertBudget    \* bound: how often each kind of thing happens, a record

AlertKinds == {"flip", "check", "remove", "fault"}
ASSUME AlertBounds ==
  /\ Daemon \in Checkers /\ Checkers \cap Editors = {}
  /\ MaxAlerts \in Nat /\ AlertBudget \in [AlertKinds -> Nat]

VARIABLES
  line,     \* the rule holds on the market now
  stored,   \* the saved alerts: who each one is, its id, whether it held at the last check
  doing,    \* each process: where it is, and what it loaded
  beat,     \* the daemon's heartbeat: old, or fresh and clean, or fresh and failed
  wanted,   \* the alerts added and not removed since
  added,    \* alerts ever added
  rises,    \* per alert: how often its line has been crossed since it was added
  told,     \* per alert: how often it has been notified
  raced,    \* two checks were under way at once, or a row was saved over another's save
  wiped,    \* a row was saved over alerts whose load had failed
  aleft     \* what is left of AlertBudget

avars == <<line, stored, doing, beat, wanted, added, rises, told, raced, wiped, aleft>>

ASpend(kind) == aleft[kind] > 0 /\ aleft' = [aleft EXCEPT ![kind] = @ - 1]
Everyone == Checkers \cup Editors
Alert == 1..MaxAlerts
Beats == {"old", "clean", "failed"}
Rests == [pc |-> "idle", row |-> {}, fired |-> {}]

AlertsInit ==
  /\ line \in BOOLEAN /\ stored = {}
  /\ doing = [p \in Everyone |-> Rests]
  /\ beat \in {"old", "clean"} /\ wanted = {} /\ added = 0
  /\ rises = [a \in Alert |-> 0] /\ told = [a \in Alert |-> 0]
  /\ raced = FALSE /\ wiped = FALSE /\ aleft = AlertBudget

\* set_kv: the row is replaced, whoever else is between loading it and saving it.
Save(p, row) ==
  /\ stored' = row
  /\ raced' = (raced \/ \E q \in Everyone \ {p} : doing[q].pc \in {"save", "add", "remove"})
  /\ wiped' = (wiped \/ (doing[p].row = {} /\ stored # {}))

At(p, pc) == doing' = [doing EXCEPT ![p].pc = pc]
Leaves(p) == doing' = [doing EXCEPT ![p] = Rests]
Loads(p, pc) == doing' = [doing EXCEPT ![p] = [@ EXCEPT !.pc = pc, !.row = stored]]
\* load: an error of the database, or of the text in it, is an empty list.
Misreads(p, pc) == ASpend("fault") /\ doing' = [doing EXCEPT ![p] = [@ EXCEPT !.pc = pc, !.row = {}]]

----------------------------------------------------------------------------
(* Editing: load, change, save. *)

NewId(row) == Max({a.id : a \in row} \cup {0}) + 1

AddLoads(e) ==
  /\ doing[e].pc = "idle" /\ added < MaxAlerts
  /\ Loads(e, "add")
  /\ UNCHANGED <<line, stored, beat, wanted, added, rises, told, raced, wiped, aleft>>

AddSaves(e) ==
  /\ doing[e].pc = "add" /\ added < MaxAlerts
  /\ added' = added + 1
  /\ Save(e, doing[e].row \cup {[uid |-> added', id |-> NewId(doing[e].row), active |-> FALSE]})
  /\ wanted' = wanted \cup {added'}
  /\ rises' = [rises EXCEPT ![added'] = IF line THEN 1 ELSE 0]
  /\ Leaves(e)
  /\ UNCHANGED <<line, beat, told, aleft>>

RemoveLoads(e) ==
  /\ doing[e].pc = "idle" /\ ASpend("remove")
  /\ Loads(e, "remove")
  /\ UNCHANGED <<line, stored, beat, wanted, added, rises, told, raced, wiped>>

\* The row is saved, whether it had the alert or not.
RemoveSaves(e) ==
  /\ doing[e].pc = "remove"
  /\ \E id \in Alert :
       /\ Save(e, {b \in doing[e].row : b.id # id})
       /\ wanted' = wanted \ {b.uid : b \in {c \in doing[e].row : c.id = id}}
  /\ Leaves(e)
  /\ UNCHANGED <<line, beat, added, rises, told, aleft>>

EditsBlindly(e) ==
  /\ doing[e].pc = "idle" /\ stored # {}
  /\ \E pc \in {"add", "remove"} : Misreads(e, pc)
  /\ UNCHANGED <<line, stored, beat, wanted, added, rises, told, raced, wiped>>

----------------------------------------------------------------------------
(* A check. *)

Checking == {c \in Checkers : doing[c].pc # "idle"}

\* A terminal leaves alerts to a daemon whose last check is recent and ended well; the daemon
\* checks, and its attempt takes the error of the last check out of the heartbeat. Nothing to
\* check, nothing asked.
Begin(c) ==
  /\ doing[c].pc = "idle" /\ stored # {} /\ ASpend("check")
  /\ c # Daemon => beat # "clean"
  /\ beat' = IF c = Daemon /\ beat = "failed" THEN "clean" ELSE beat
  /\ raced' = (raced \/ Checking # {})
  /\ Loads(c, "asked")
  /\ UNCHANGED <<line, stored, wanted, added, rises, told, wiped>>

\* Nothing stored, or nothing read: the daemon's check ends at once, and well.
FindsNone ==
  /\ doing[Daemon].pc = "idle" /\ beat' = "clean"
  /\ \/ stored = {} /\ UNCHANGED aleft
     \/ stored # {} /\ ASpend("fault")
  /\ UNCHANGED <<line, stored, doing, wanted, added, rises, told, raced, wiped>>

\* Faulty: an observation too old to decide counts as one below the line.
StaleRearms(c) ==
  /\ doing[c].pc = "asked" /\ ASpend("fault")
  /\ doing' = [doing EXCEPT ![c] = [pc |-> "decided", row |-> {[a EXCEPT !.active = FALSE] : a \in @.row}, fired |-> {}]]
  /\ UNCHANGED <<line, stored, beat, wanted, added, rises, told, raced, wiped>>

\* fresh_pools leaves nothing of a stale source: every alert is left as it was.
Undecided(c) ==
  /\ doing[c].pc = "asked" /\ ASpend("fault")
  /\ At(c, "decided")
  /\ UNCHANGED <<line, stored, beat, wanted, added, rises, told, raced, wiped>>

\* check: an alert fires when its rule has come to hold since the last check.
Decide(c) ==
  /\ doing[c].pc = "asked"
  /\ doing' = [doing EXCEPT ![c] =
       [pc |-> "decided",
        row |-> {[a EXCEPT !.active = line] : a \in @.row},
        fired |-> IF line THEN {a.uid : a \in {b \in @.row : ~b.active}} ELSE {}]]
  /\ UNCHANGED <<line, stored, beat, wanted, added, rises, told, raced, wiped, aleft>>

\* The daemon gives a check ten seconds: only what still waits for the network is cut.
TimedOut(c) ==
  /\ c = Daemon /\ doing[c].pc = "asked" /\ ASpend("fault")
  /\ Leaves(c) /\ beat' = "failed"
  /\ UNCHANGED <<line, stored, wanted, added, rises, told, raced, wiped>>

\* The checked state, onto what is stored now (row: the alerts as checked). Alerts are matched by
\* their id and their rule, which is one here.
Merged(now, row) ==
  {[a EXCEPT !.active = IF \E b \in row : b.id = a.id THEN (CHOOSE b \in row : b.id = a.id).active ELSE @] : a \in now}

\* Faulty: what was read before the network calls is written back.
KeepsWhatItRead(c) ==
  /\ doing[c].pc = "decided"
  /\ At(c, "save")
  /\ UNCHANGED <<line, stored, beat, wanted, added, rises, told, raced, wiped, aleft>>

Reload(c) ==
  /\ doing[c].pc = "decided"
  /\ doing' = [doing EXCEPT ![c].pc = "save", ![c].row = Merged(stored, doing[c].row)]
  /\ UNCHANGED <<line, stored, beat, wanted, added, rises, told, raced, wiped, aleft>>

ReloadsBlindly(c) ==
  /\ doing[c].pc = "decided" /\ stored # {} /\ Misreads(c, "save")
  /\ UNCHANGED <<line, stored, beat, wanted, added, rises, told, raced, wiped>>

WriteBack(c) ==
  /\ doing[c].pc = "save"
  /\ Save(c, doing[c].row)
  /\ At(c, "notify")
  /\ UNCHANGED <<line, beat, wanted, added, rises, told, aleft>>

Tell(c) ==
  /\ doing[c].pc = "notify"
  /\ told' = [a \in Alert |-> IF a \in doing[c].fired THEN told[a] + 1 ELSE told[a]]
  /\ beat' = IF c = Daemon THEN "clean" ELSE beat
  /\ Leaves(c)
  /\ UNCHANGED <<line, stored, wanted, added, rises, raced, wiped, aleft>>

----------------------------------------------------------------------------
(* The market, time and the processes. *)

\* The price crosses the line, up or down.
Flip ==
  /\ ASpend("flip")
  /\ line' = ~line
  /\ rises' = [a \in Alert |-> IF line' /\ a <= added THEN rises[a] + 1 ELSE rises[a]]
  /\ UNCHANGED <<stored, doing, beat, wanted, added, told, raced, wiped>>

\* Three minutes pass without a check of the daemon's.
BeatEnds == /\ beat # "old" /\ beat' = "old"
            /\ UNCHANGED <<line, stored, doing, wanted, added, rises, told, raced, wiped, aleft>>

\* A process dies, or its save fails.
Crash(p) ==
  /\ doing[p].pc # "idle" /\ ASpend("fault")
  /\ Leaves(p)
  /\ UNCHANGED <<line, stored, beat, wanted, added, rises, told, raced, wiped>>

AlertsNext ==
  \/ \E e \in Editors : AddLoads(e) \/ AddSaves(e) \/ RemoveLoads(e) \/ RemoveSaves(e) \/ EditsBlindly(e)
  \/ \E c \in Checkers : \/ Begin(c) \/ Undecided(c) \/ Decide(c) \/ TimedOut(c)
                          \/ Reload(c) \/ ReloadsBlindly(c) \/ WriteBack(c) \/ Tell(c)
  \/ \E p \in Everyone : Crash(p)
  \/ FindsNone \/ Flip \/ BeatEnds

AlertsSpec == AlertsInit /\ [][AlertsNext]_avars

----------------------------------------------------------------------------
(* Properties. *)

Row == SUBSET [uid : Alert, id : Alert, active : BOOLEAN]

AlertsTypeOK ==
  /\ line \in BOOLEAN /\ beat \in Beats /\ raced \in BOOLEAN /\ wiped \in BOOLEAN
  /\ stored \in Row /\ wanted \in SUBSET Alert /\ added \in 0..MaxAlerts
  /\ doing \in [Everyone -> [pc : {"idle", "add", "remove", "asked", "decided", "save", "notify"},
                             row : Row, fired : SUBSET Alert]]
  /\ rises \in [Alert -> Nat] /\ told \in [Alert -> Nat]
  /\ aleft \in [AlertKinds -> Nat]

\* An alert fires on the edge (alerts.rs:4): never more often than its line was crossed, while
\* checks and saves do not overlap, whatever is stale, cut short, edited or lost in a crash.
FiresOncePerCrossing == \A a \in Alert : told[a] <= rises[a] \/ raced

\* "An alert added or removed meanwhile must survive" (alerts.rs:239): until a row is saved over
\* another's save, or over alerts whose load failed, what is stored is what was added and not
\* removed, however edits and the two loads of a check fall, and whatever is cut short.
EditsSurviveChecks == raced \/ wiped \/ {a.uid : a \in stored} = wanted

\* The same, of a single edit or check at a time whose load fails.
EditsSurviveErrors == raced \/ {a.uid : a \in stored} = wanted

\* "So an alert never fires twice" (alerts.rs:8), the races included.
NeverFiresTwice == \A a \in Alert : told[a] <= rises[a]

\* An alert that is down as holding was notified, or its process died before it could be.
ActiveWasTold == \A a \in stored : \/ ~a.active \/ told[a.uid] > 0 \/ aleft.fault < AlertBudget.fault
                                   \/ \E c \in Checkers : a.uid \in doing[c].fired
=============================================================================
