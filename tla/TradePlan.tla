------------------------------ MODULE TradePlan ------------------------------
(***************************************************************************)
(* One multi-step trade: its durable checkpoint, and the clients that walk  *)
(* it.                                                                     *)
(*                                                                         *)
(* A plan is a row of trade_plans written by compare-and-set on a revision. *)
(* A client (the engine's signing lane, a command line) walks it while it   *)
(* holds the plan's kernel lock: it prepares one review, the user signs it, *)
(* its receipt moves the plan to the next stage. Clients die, the wallet    *)
(* locks, checkpoints fail to be written, blocks are undone.               *)
(*                                                                         *)
(* wallet-core/src: plans.rs, execution.rs (Coordinator), appdb.rs          *)
(* (save_trade_plan, operations_for_plan); quai-engine/src: plans.rs        *)
(* (Runner), worker.rs (the lane's plan jobs); quai-terminal/src/eco.rs     *)
(* (continue_plan). What a review costs and how it is signed is             *)
(* AccountPipeline; here a review is an operation of the journal that is    *)
(* prepared, signed once, and then included or not.                        *)
(***************************************************************************)
EXTENDS Integers, FiniteSets

CONSTANTS
  Lanes,       \* engines: their signing lanes
  Clis,        \* command lines
  MaxReviews,  \* bound: reviews prepared in one behaviour
  LastStage,   \* the plan's stages are 0..LastStage (a swap, then a redemption: 1)
  StepBudget,  \* operations a plan may have (8 in the code)
  MaxFaults    \* bound: checkpoints that fail to be written, blocks that are undone, and other
               \* spends that take the nonce, and so the row, of a rejected review

Clients == Lanes \cup Clis
Ops     == 1..MaxReviews
NoOp    == 0
Nobody  == "nobody"
Stages  == 0..LastStage

ASSUME PlanBounds ==
  /\ MaxReviews \in Nat /\ LastStage \in Nat /\ StepBudget \in Nat
  /\ MaxFaults \in Nat
ASSUME PlanNames == Nobody \notin Clients

VARIABLES
  stored,   \* the plan's row: NoPlan, or its state, stage, operations and final operation
  journal,  \* the plan's rows of the operations table
  lease,    \* who holds the plan's file lock
  run,      \* each client's runner, with its copy of the plan
  pc,       \* where the client is inside one call
  cur,      \* the operation that call is about
  open,     \* reviews open for signing in the client's session
  faults    \* how much of MaxFaults is used up

vars == <<stored, journal, lease, run, pc, cur, open, faults>>

PlanState == {"Review", "Waiting", "Paused", "Complete", "Cancelled"}
Plan(st, stage, ops, final) == [st |-> st, stage |-> stage, ops |-> ops, final |-> final]
NoPlan == Plan("none", 0, {}, NoOp)
Plans  == [st : PlanState \cup {"none"}, stage : Nat, ops : SUBSET Ops, final : Ops \cup {NoOp}]
To(p, st) == Plan(st, p.stage, p.ops, p.final)

\* A row of the journal: its status ("signed" until the chain has an answer), whether it is a step
\* before the action or the action, the stage it was reviewed for, whether it names this plan,
\* whether it was ever included, and whether its receipt is complete (its output attributed, a Qi
\* wrap settled). A row is named by its reservation, and a rejected reservation is used again; turn
\* says which of the plan's reviews was its last, and so where the plan lists it.
Review(kind, stage, own, turn) ==
  [st |-> "prepared", kind |-> kind, stage |-> stage, own |-> own, was |-> FALSE, paid |-> FALSE,
   turn |-> turn]
NoRow   == [Review("step", 0, FALSE, 0) EXCEPT !.st = "none"]
Status  == {"none", "prepared", "signed", "confirmed", "failed", "cancelled"}
Journal == [st : Status, kind : {"step", "final"}, stage : Nat, own : BOOLEAN, was : BOOLEAN,
            paid : BOOLEAN, turn : Nat]
Set(o, st)  == [journal EXCEPT ![o].st = st]
Sent(o)     == journal[o].st \in {"signed", "confirmed", "failed"}
Unsigned(o) == journal[o].st \in {"prepared", "cancelled"}
Newest(S)   == {o \in S : \A x \in S : journal[x].turn <= journal[o].turn}

\* A runner: its phase, the operation it reviews or waits on, whether the last step was sent, its
\* copy of the plan, and whether that copy has the stored revision.
Runner(phase, on, last, plan) ==
  [phase |-> phase, on |-> on, last |-> last, plan |-> plan, current |-> TRUE]
NoRun  == [phase |-> "none", on |-> NoOp, last |-> FALSE, plan |-> NoPlan, current |-> FALSE]
Runners == [phase : {"none", "preparing", "reviewing", "waiting", "ready"}, on : Ops \cup {NoOp},
            last : BOOLEAN, plan : Plans, current : BOOLEAN]
Walks(c) == run[c].phase # "none"
Copy(c)  == run[c].plan
Reviews(c, o) == run[c].phase = "reviewing" /\ run[c].on = o

TypeOK ==
  /\ stored \in Plans /\ journal \in [Ops -> Journal]
  /\ lease \in Clients \cup {Nobody}
  /\ run \in [Clients -> Runners]
  /\ pc \in [Clients -> {"idle", "advanced", "building", "built", "sent"}]
  /\ cur \in [Clients -> Ops \cup {NoOp}]
  /\ open \in [Clients -> SUBSET Ops]
  /\ faults \in Nat

Init ==
  /\ stored = NoPlan /\ journal = [o \in Ops |-> NoRow]
  /\ lease = Nobody /\ run = [c \in Clients |-> NoRun]
  /\ pc = [c \in Clients |-> "idle"] /\ cur = [c \in Clients |-> NoOp]
  /\ open = [c \in Clients |-> {}] /\ faults = 0

-----------------------------------------------------------------------------
(* Checkpoints *)

\* The compare-and-set went through: c's runner becomes r, every other copy is behind.
Saved(c, p, r) ==
  /\ run[c].current /\ stored' = p /\ faults' = faults
  /\ run' = [d \in Clients |-> IF d = c THEN r ELSE [run[d] EXCEPT !.current = FALSE]]

\* It did not: another revision is stored, or the write failed.
Unsaved(c, r) ==
  /\ stored' = stored /\ run' = [run EXCEPT ![c] = r]
  /\ \/ ~run[c].current /\ faults' = faults
     \/ faults < MaxFaults /\ faults' = faults + 1

\* The runner is dropped, and its lease with it, whether or not its last words were written.
Drop(c) == lease' = IF lease = c THEN Nobody ELSE lease
LastWords(c, p) == (Saved(c, p, NoRun) \/ Unsaved(c, NoRun)) /\ Drop(c)

\* What a failed preparation leaves of the runner, whose copy is now p: a plan paused or cancelled
\* has stopped, any other waits on the last operation it lists.
LastOf(S)  == IF S = {} THEN {NoOp} ELSE Newest(S)
Stopped(p) == p.st \in {"Paused", "Cancelled"}
Left(c, p, o) ==
  IF Stopped(p) THEN NoRun
  ELSE [phase |-> "waiting", on |-> o, last |-> run[c].last, plan |-> p, current |-> run[c].current]
LeaseLeft(c, p) == IF Stopped(p) THEN Drop(c) ELSE lease' = lease
RefusedUnsaved(c, p) ==
  /\ \E o \in LastOf(p.ops) : Unsaved(c, Left(c, p, o))
  /\ LeaseLeft(c, p)
RefusedAsIs(c) ==
  /\ \E o \in LastOf(Copy(c).ops) : run' = [run EXCEPT ![c] = Left(c, Copy(c), o)]
  /\ LeaseLeft(c, Copy(c)) /\ UNCHANGED <<stored, faults>>

Goto(c, place, o) == pc' = [pc EXCEPT ![c] = place] /\ cur' = [cur EXCEPT ![c] = o]
Close(c, S) == open' = [open EXCEPT ![c] = @ \ S]

-----------------------------------------------------------------------------
(* Starting and resuming *)

\* The plan is saved, under its lease, before anything is prepared.
Start(c) ==
  LET p == Plan("Review", 0, {}, NoOp) IN
  /\ stored = NoPlan /\ lease = Nobody /\ ~Walks(c) /\ pc[c] = "idle"
  /\ stored' = p /\ lease' = c /\ run' = [run EXCEPT ![c] = Runner("preparing", NoOp, FALSE, p)]
  /\ UNCHANGED <<journal, pc, cur, open, faults>>

\* The stored plan with the operations the journal links to it and no checkpoint has.
Unlisted == {o \in Ops : /\ journal[o].own /\ o \notin stored.ops
                         /\ journal[o].st \notin {"none", "cancelled"}}
Adopted(final) == Plan(stored.st, stored.stage, stored.ops \cup Unlisted, final)
AdoptedFinal(final) ==
  LET actions == {o \in Unlisted : journal[o].kind = "final"} IN
  IF actions = {} THEN final = stored.final ELSE final \in Newest(actions)

\* The plan without the reviews nobody signed; a prepared one is abandoned.
Unreviewed(p) ==
  Plan(p.st, p.stage, {o \in p.ops : ~Unsigned(o)},
       IF p.final # NoOp /\ p.final \in p.ops /\ Unsigned(p.final) THEN NoOp ELSE p.final)
Abandoned(S) ==
  [o \in Ops |-> IF o \in S /\ journal[o].st = "prepared"
                 THEN [journal[o] EXCEPT !.st = "cancelled"] ELSE journal[o]]

\* Faulty variant: takes a plan that sent its last step for done, a phase no runner handles.
ResumedDone(c, p) ==
  {Runner(IF \E o \in p.ops : Sent(o) /\ journal[o].kind = "final" THEN "done" ELSE "ready",
          NoOp, FALSE, p)}
\* What it sent before counts as done, and the newest of it is what it waits on.
Resumed(c, p) ==
  LET sent == {o \in p.ops : Sent(o)} IN
  IF sent = {} THEN {Runner("ready", NoOp, FALSE, p)}
  ELSE {Runner("waiting", o, journal[o].kind = "final" /\ p.stage = LastStage, p) : o \in Newest(sent)}

\* Faulty variant: the plan's lock file is not taken.
ResumeLeaseless(c, discard) ==
  /\ stored # NoPlan /\ ~Walks(c) /\ pc[c] = "idle"
  /\ \E final \in Ops \cup {NoOp} :
       /\ AdoptedFinal(final)
       /\ stored' = Adopted(final) /\ lease' = c
       /\ \E r \in Resumed(c, Adopted(final)) :
            run' = [d \in Clients |-> IF d = c THEN r ELSE [run[d] EXCEPT !.current = FALSE]]
  /\ UNCHANGED <<journal, pc, cur, open, faults>>

\* Lane: reviews never signed are let go. Command line: only with --discard-unsigned.
Resume(c, discard) ==
  /\ stored # NoPlan /\ lease = Nobody /\ ~Walks(c) /\ pc[c] = "idle"
  /\ c \in Lanes => discard
  /\ \E final \in Ops \cup {NoOp} :
       /\ AdoptedFinal(final)
       /\ LET p == Adopted(final)
              q == IF discard THEN Unreviewed(p) ELSE p
          IN /\ journal' = IF discard THEN Abandoned(p.ops) ELSE journal
             /\ IF discard THEN Close(c, p.ops) ELSE UNCHANGED open
             /\ \/ /\ stored' = q /\ lease' = c /\ faults' = faults
                   /\ \E r \in Resumed(c, q) :
                        run' = [d \in Clients |-> IF d = c THEN r
                                                  ELSE [run[d] EXCEPT !.current = FALSE]]
                \/ /\ faults < MaxFaults /\ faults' = faults + 1 /\ q # stored
                   /\ UNCHANGED <<stored, lease, run>>
  /\ UNCHANGED <<pc, cur>>

-----------------------------------------------------------------------------
(* Preparing the next review *)

Asks(c) == pc[c] = "idle" /\ run[c].phase \in {"preparing", "ready"}

\* Faulty variants: the plan's state, or its operations, are not looked at.
ReadyAnyState(p) == \A o \in p.ops : journal[o].st \in {"confirmed", "cancelled"}
ReadyUnreconciled(p) == p.st \notin {"Complete", "Cancelled"}

\* Every operation of the plan is in, or was never signed.
Ready(p) ==
  /\ p.st \notin {"Complete", "Cancelled"}
  /\ \A o \in p.ops : journal[o].st \in {"confirmed", "cancelled"}

NextRefused(c) ==
  /\ Asks(c) /\ ~Ready(Copy(c)) /\ RefusedAsIs(c)
  /\ UNCHANGED <<journal, pc, cur, open>>

\* Faulty variant: the final operation is cleared, the stage stays.
NextAdvanceInPlace(c) ==
  LET q == Plan(Copy(c).st, Copy(c).stage, Copy(c).ops, NoOp) IN
  /\ Asks(c) /\ Ready(Copy(c)) /\ Copy(c).final # NoOp /\ Copy(c).stage < LastStage
  /\ journal[Copy(c).final].paid
  /\ Saved(c, q, [run[c] EXCEPT !.phase = "preparing", !.plan = q])
  /\ Goto(c, "advanced", NoOp) /\ UNCHANGED <<journal, open, lease>>

\* A stage is left on the typed receipt of its final operation.
NextAdvance(c) ==
  LET p == Copy(c)
      q == Plan(p.st, p.stage + 1, p.ops, NoOp)
  IN
  /\ Asks(c) /\ Ready(p) /\ p.final # NoOp /\ p.stage < LastStage
  /\ \/ /\ journal[p.final].paid /\ Saved(c, q, [run[c] EXCEPT !.phase = "preparing", !.plan = q])
        /\ Goto(c, "advanced", NoOp) /\ UNCHANGED lease
     \/ (journal[p.final].paid /\ RefusedUnsaved(c, q)) /\ UNCHANGED <<pc, cur>>
     \/ (~journal[p.final].paid /\ RefusedAsIs(c)) /\ UNCHANGED <<pc, cur>>
  /\ UNCHANGED <<journal, open>>

\* Faulty variant: the last stage waits for a receipt, as the others do.
NextCompleteOnReceipt(c) ==
  LET p == To(Copy(c), "Complete") IN
  /\ Asks(c) /\ Ready(Copy(c)) /\ Copy(c).final # NoOp /\ Copy(c).stage = LastStage
  /\ IF journal[Copy(c).final].paid THEN Saved(c, p, NoRun) /\ Drop(c) ELSE RefusedAsIs(c)
  /\ UNCHANGED <<journal, pc, cur, open>>

\* At the last stage no receipt is asked for: the plan is complete.
NextComplete(c) ==
  LET p == To(Copy(c), "Complete") IN
  /\ Asks(c) /\ Ready(Copy(c)) /\ Copy(c).final # NoOp /\ Copy(c).stage = LastStage
  /\ (Saved(c, p, NoRun) /\ Drop(c)) \/ RefusedUnsaved(c, p)
  /\ UNCHANGED <<journal, pc, cur, open>>

\* The review is announced in the checkpoint before the network is asked anything.
NextReview(c) ==
  LET p == Copy(c) IN
  /\ pc[c] = "advanced" \/ (Asks(c) /\ Ready(p) /\ p.final = NoOp)
  /\ IF Cardinality(p.ops) >= StepBudget
     THEN LastWords(c, To(p, "Paused")) /\ Goto(c, "idle", NoOp)
     ELSE \/ /\ Saved(c, To(p, "Review"),
                      [run[c] EXCEPT !.phase = "preparing", !.plan = To(p, "Review")])
             /\ Goto(c, "building", NoOp) /\ UNCHANGED lease
          \/ RefusedUnsaved(c, To(p, "Review")) /\ Goto(c, "idle", NoOp)
  /\ UNCHANGED <<journal, open>>

Free(o) ==
  \/ journal[o].st = "cancelled"
  \/ journal[o].st = "none" /\ \A x \in Ops : x < o => journal[x].st # "none"

NextTurn == {n \in 1..MaxReviews : /\ \A x \in Ops : journal[x].turn < n
                                   /\ n > 1 => \E x \in Ops : journal[x].turn = n - 1}

\* The chain says what comes next: an approval or a wrap first, or the action of the stage. The
\* review is in the journal, linked to the plan, before the plan lists it. Its reservation is a new
\* one, or that of a rejected review, whose row it replaces.
BuildOk(c, kind) ==
  /\ pc[c] = "building"
  /\ \E o \in Ops :
       /\ Free(o)
       /\ \E turn \in NextTurn : journal' = [journal EXCEPT ![o] = Review(kind, Copy(c).stage, TRUE, turn)]
       /\ open' = [d \in Clients |-> IF d = c THEN open[d] \cup {o} ELSE open[d] \ {o}]
       /\ Goto(c, "built", o)
  /\ UNCHANGED <<stored, lease, run, faults>>

\* No quote, no route, not enough to pay: nothing prepared ever ends the plan, else it pauses.
BuildFails(c) ==
  /\ pc[c] = "building"
  /\ LastWords(c, To(Copy(c), IF Copy(c).ops = {} THEN "Cancelled" ELSE "Paused"))
  /\ Goto(c, "idle", NoOp) /\ UNCHANGED <<journal, open>>

Listed(p, o) ==
  Plan(p.st, p.stage, p.ops \cup {o}, IF journal[o].kind = "final" THEN o ELSE p.final)

\* Faulty variant: a checkpoint that fails leaves the review open.
CheckpointKeepsReview(c) ==
  LET o == cur[c]
      p == Listed(Copy(c), o)
  IN
  /\ pc[c] = "built" /\ Goto(c, "idle", NoOp) /\ UNCHANGED <<journal, open>>
  /\ \/ Saved(c, p, Runner("reviewing", o, run[c].last, p)) /\ UNCHANGED lease
     \/ RefusedUnsaved(c, p)

\* The plan lists the review before anybody may sign it; if it cannot, the review is discarded.
Checkpoint(c) ==
  LET o == cur[c]
      p == Listed(Copy(c), o)
  IN
  /\ pc[c] = "built" /\ Goto(c, "idle", NoOp)
  /\ \/ /\ Saved(c, p, Runner("reviewing", o, run[c].last, p))
        /\ UNCHANGED <<journal, open, lease>>
     \/ RefusedUnsaved(c, p) /\ journal' = Set(o, "cancelled") /\ Close(c, {o})

-----------------------------------------------------------------------------
(* The user's answer *)

\* Signing: the review is open here and nobody released it.
Sign(c, o) ==
  /\ pc[c] = "idle" /\ o \in open[c] /\ journal[o].st = "prepared"
  /\ journal' = Set(o, "signed") /\ Close(c, {o}) /\ Goto(c, "sent", o)
  /\ UNCHANGED <<stored, lease, run, faults>>

\* Nothing was signed: locked, expired, refused, or abandoned elsewhere, its nonce used for another
\* review since. The review may stay open.
SignRefused(c, o) ==
  /\ pc[c] = "idle" /\ (o \in open[c] \/ Reviews(c, o))
  /\ Close(c, {o}) \/ UNCHANGED open
  /\ IF Reviews(c, o) THEN LastWords(c, To(Copy(c), "Paused"))
     ELSE UNCHANGED <<stored, lease, run, faults>>
  /\ UNCHANGED <<journal, pc, cur>>

\* The step was sent. The last step of a command line's plan ends it there.
Answered(c) ==
  LET o == cur[c]
      p == To(Copy(c), "Waiting")
      last == journal[o].kind = "final" /\ Copy(c).stage = LastStage
  IN
  /\ pc[c] = "sent" /\ Reviews(c, o) /\ Goto(c, "idle", NoOp)
  /\ \/ /\ ~(last /\ c \in Clis) /\ UNCHANGED lease
        /\ Saved(c, p, Runner("waiting", o, last, p))
     \/ last /\ c \in Clis /\ Saved(c, p, NoRun) /\ Drop(c)
     \/ c \in Clis /\ Unsaved(c, NoRun) /\ Drop(c)
     \/ c \in Lanes /\ Unsaved(c, [run[c] EXCEPT !.plan = p]) /\ UNCHANGED lease
  /\ UNCHANGED <<journal, open>>

\* No clear answer: a lane waits on the step, a command line pauses the plan and ends.
AnswerLost(c) ==
  /\ pc[c] = "sent" /\ Reviews(c, cur[c]) /\ Goto(c, "idle", NoOp)
  /\ \/ /\ c \in Lanes /\ run' = [run EXCEPT ![c].phase = "waiting"]
        /\ UNCHANGED <<stored, lease, faults>>
     \/ LastWords(c, To(Copy(c), "Paused"))
  /\ UNCHANGED <<journal, open>>

\* A review of a plan this client no longer walks.
AnsweredAlone(c) ==
  /\ pc[c] = "sent" /\ ~Reviews(c, cur[c]) /\ Goto(c, "idle", NoOp)
  /\ UNCHANGED <<stored, journal, lease, run, open, faults>>

\* The user rejects the review: the plan pauses, the review is released.
Reject(c, o) ==
  /\ pc[c] = "idle" /\ o \in open[c] /\ Close(c, {o})
  /\ journal' = IF journal[o].st = "prepared" THEN Set(o, "cancelled") ELSE journal
  /\ IF Reviews(c, o) THEN LastWords(c, To(Copy(c), "Paused"))
     ELSE UNCHANGED <<stored, lease, run, faults>>
  /\ UNCHANGED <<pc, cur>>

-----------------------------------------------------------------------------
(* Waiting, stopping, dying *)

\* The journal row of the step waited on.
PollIn(c) ==
  /\ pc[c] = "idle" /\ run[c].phase = "waiting" /\ run[c].on # NoOp
  /\ journal[run[c].on].st = "confirmed"
  /\ run' = [run EXCEPT ![c].phase = "ready"]
  /\ UNCHANGED <<stored, journal, lease, pc, cur, open, faults>>

PollOut(c) ==
  /\ pc[c] = "idle" /\ run[c].phase = "waiting" /\ run[c].on # NoOp
  /\ journal[run[c].on].st \in {"failed", "cancelled"}
  /\ LastWords(c, To(Copy(c), "Paused"))
  /\ UNCHANGED <<journal, pc, cur, open>>

\* A command line waits five minutes for a step.
GiveUp(c) ==
  /\ c \in Clis /\ pc[c] = "idle" /\ run[c].phase = "waiting" /\ Copy(c).ops # {}
  /\ LastWords(c, To(Copy(c), "Paused"))
  /\ UNCHANGED <<journal, pc, cur, open>>

\* Future steps are cancelled; a prepared review is abandoned. A lane forgets the plan whose last
\* step was sent, so cannot cancel it.
Cancel(c) ==
  /\ pc[c] = "idle" /\ Walks(c) /\ ~(c \in Lanes /\ run[c].last)
  /\ journal' = Abandoned(Copy(c).ops) /\ Close(c, Copy(c).ops)
  /\ LastWords(c, To(Copy(c), "Cancelled"))
  /\ UNCHANGED <<pc, cur>>

\* The wallet locks: every open review is discarded, and the step is asked for again.
Lock(c) ==
  /\ c \in Lanes /\ pc[c] = "idle"
  /\ journal' = Abandoned(open[c]) /\ open' = [open EXCEPT ![c] = {}]
  /\ run' = IF run[c].phase \in {"reviewing", "preparing"} /\ ~run[c].last
            THEN [run EXCEPT ![c].phase = "ready", ![c].on = NoOp] ELSE run
  /\ UNCHANGED <<stored, lease, pc, cur, faults>>

\* The lane turns to another wallet or network: its reviews and its plan's lease go.
Switch(c) ==
  /\ c \in Lanes /\ pc[c] = "idle"
  /\ journal' = Abandoned(open[c]) /\ open' = [open EXCEPT ![c] = {}]
  /\ run' = [run EXCEPT ![c] = NoRun] /\ Drop(c)
  /\ UNCHANGED <<stored, pc, cur, faults>>

Crash(c) ==
  /\ Walks(c) \/ open[c] # {} \/ pc[c] # "idle"
  /\ open' = [open EXCEPT ![c] = {}] /\ run' = [run EXCEPT ![c] = NoRun] /\ Drop(c)
  /\ Goto(c, "idle", NoOp) /\ UNCHANGED <<stored, journal, faults>>

-----------------------------------------------------------------------------
(* The journal under everyone: the tracker, and `tx abandon` *)

Included(o, st) ==
  /\ journal[o].st = "signed"
  /\ journal' = [journal EXCEPT ![o].st = st, ![o].was = @ \/ st = "confirmed", ![o].paid = FALSE]
  /\ UNCHANGED <<stored, lease, run, pc, cur, open, faults>>

Receipt(o) ==
  /\ journal[o].st = "confirmed" /\ ~journal[o].paid
  /\ journal' = [journal EXCEPT ![o].paid = TRUE]
  /\ UNCHANGED <<stored, lease, run, pc, cur, open, faults>>

Undone(o) ==
  /\ journal[o].st = "confirmed" /\ faults < MaxFaults /\ faults' = faults + 1
  /\ journal' = [journal EXCEPT ![o].st = "signed", ![o].paid = FALSE]
  /\ UNCHANGED <<stored, lease, run, pc, cur, open>>

Abandon(o) ==
  /\ journal[o].st = "prepared" /\ journal' = Set(o, "cancelled")
  /\ UNCHANGED <<stored, lease, run, pc, cur, open, faults>>

\* Another spend of the account takes the nonce of a rejected review, and with it a row the plan
\* lists; it is signed or rejected like any other.
Reuse(o, kind) ==
  /\ journal[o].st = "cancelled" /\ o \in stored.ops
  /\ faults < MaxFaults /\ faults' = faults + 1
  /\ journal' = [journal EXCEPT ![o] = Review(kind, 0, FALSE, @.turn)]
  /\ open' = [c \in Clients |-> open[c] \ {o}]
  /\ UNCHANGED <<stored, lease, run, pc, cur>>
OtherSigned(o) ==
  /\ journal[o].st = "prepared" /\ ~journal[o].own /\ journal' = Set(o, "signed")
  /\ UNCHANGED <<stored, lease, run, pc, cur, open, faults>>

-----------------------------------------------------------------------------
Walk(c) ==
  \/ NextRefused(c) \/ NextAdvance(c) \/ NextComplete(c) \/ NextReview(c)
  \/ (\E kind \in {"step", "final"} : BuildOk(c, kind)) \/ BuildFails(c) \/ Checkpoint(c)
  \/ Answered(c) \/ AnswerLost(c) \/ AnsweredAlone(c) \/ PollIn(c) \/ PollOut(c)
Ask(c) ==
  \/ Start(c) \/ (\E d \in BOOLEAN : Resume(c, d)) \/ GiveUp(c) \/ Cancel(c)
  \/ Lock(c) \/ Switch(c) \/ Crash(c)
  \/ \E o \in Ops : Sign(c, o) \/ SignRefused(c, o) \/ Reject(c, o)
Chain == \E o \in Ops :
  \/ Included(o, "confirmed") \/ Included(o, "failed") \/ Receipt(o) \/ Undone(o) \/ Abandon(o)
  \/ OtherSigned(o) \/ \E kind \in {"step", "final"} : Reuse(o, kind)
Next == (\E c \in Clients : Walk(c) \/ Ask(c)) \/ Chain
Spec == Init /\ [][Next]_vars

\* The lane looks at its plans every second, and each of its calls returns. Command lines die.
FairSpec == Spec /\ \A c \in Lanes : WF_vars(Walk(c))

-----------------------------------------------------------------------------
(* Properties *)

\* One client walks the plan, and what it holds is what is stored: no checkpoint is ever refused
\* for being behind, so none is lost under another's.
OneWalker ==
  \A c \in Clients : Walks(c) => lease = c /\ run[c].current

\* Money that left is never off the books: whatever the plan's clients, crashes and failed writes,
\* an operation of the plan that was signed is one its checkpoint lists.
SignedIsListed == \A o \in Ops : journal[o].own /\ Sent(o) => o \in stored.ops

\* At most one operation of the plan is under way (reviewed or signed, and never yet included).
UnderWay(o) == journal[o].own /\ journal[o].st \in {"prepared", "signed"} /\ ~journal[o].was
OneStepAtATime == \A o, x \in Ops : UnderWay(o) /\ UnderWay(x) => o = x

\* No stage is traded twice: its action is signed at most once, ever.
Traded(o) == journal[o].own /\ Sent(o) /\ journal[o].kind = "final"
NoStageTwice ==
  \A o, x \in Ops : Traded(o) /\ Traded(x) /\ journal[o].stage = journal[x].stage => o = x

\* What the plan says when it is complete: its final operation was included.
CompleteIsIncluded ==
  stored.st = "Complete" => stored.final # NoOp /\ journal[stored.final].was

\* And an included operation that completes a plan is the plan's own, not another spend that took
\* the nonce of a rejected review.
CompletedByItsOwn ==
  [][stored.st # "Complete" /\ stored'.st = "Complete" /\ journal[stored'.final].was
     => journal[stored'.final].own]_vars

\* Nothing is prepared, sent or completed for a cancelled plan: the most a client that resumes it
\* does, if a step it waits on does not come, is to call it paused.
CancelledStops ==
  [][stored.st = "Cancelled" => stored'.st \in {"Cancelled", "Paused"}]_vars

\* What cancelling says: future steps are cancelled. A cancelled plan stays cancelled.
CancelledStays == [][stored.st = "Cancelled" => stored'.st = "Cancelled"]_vars

\* A plan whose last step is in is recorded complete, unless its lane lost it (a switch, a death),
\* a block was undone, a checkpoint could not be written, or another spend took a row it lists.
LastStepCompletes ==
  \A c \in Lanes, o \in Ops :
    (run[c].last /\ run[c].on = o /\ journal[o].st = "confirmed")
    ~> (stored.st = "Complete" \/ run[c].on # o \/ faults > 0)

=============================================================================
