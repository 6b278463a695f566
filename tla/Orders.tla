------------------------------- MODULE Orders -------------------------------
(***************************************************************************)
(* One limit order, the clients that watch it and the clients that sign    *)
(* for it.                                                                 *)
(*                                                                         *)
(* An order is a row of trade_plans with a budget: attempts, each with its *)
(* largest fee. Every call on it holds the order's file lock while it      *)
(* lasts, and fails if another client has it. Watching reads a quote and   *)
(* says once that the limit is reached; preparing charges an attempt before*)
(* anything is built; signing holds the lock from the last check to the    *)
(* broadcast.                                                              *)
(*                                                                         *)
(* wallet-core/src: orders.rs, tx.rs (commit_with); quai-engine/src:       *)
(* orders.rs, worker.rs; quai-terminal/src: orders.rs, daemon.rs,          *)
(* tui/order_ui.rs. The price, the clock and the chain are free.           *)
(***************************************************************************)
EXTENDS Integers, FiniteSets

CONSTANTS
  Signers,      \* sessions with keys: an engine's signing lane, a command line
  Watchers,     \* sessions without: an engine's worker, the daemon
  MaxOps,       \* bound: reservations the order's reviews take
  MaxAttempts,  \* attempts the user allowed (at most 8 in the code)
  FeeBudget,    \* the whole fee budget, in largest fees of one attempt
  MaxUndone,    \* bound: blocks that are undone
  MaxReuse      \* bound: other spends that take the nonce of a rejected review

Clients == Signers \cup Watchers
Ops     == 1..MaxOps
NoOp    == 0
Nobody  == "nobody"

ASSUME OrderBounds ==
  /\ {MaxOps, MaxAttempts, FeeBudget, MaxUndone, MaxReuse} \subseteq Nat
  /\ Nobody \notin Clients

VARIABLES
  order,    \* the order's row
  journal,  \* the operations that name it, or named it
  lease,    \* who holds its file lock
  pc,       \* where each client is inside one call
  copy,     \* that call's copy of the order
  cur,      \* the operation it is about
  open,     \* reviews open for signing in each session
  expired,  \* the order's time is over
  notices,  \* how often it was announced as reachable
  undone, reused

vars == <<order, journal, lease, pc, copy, cur, open, expired, notices, undone, reused>>
bounds == <<undone, reused>>

State == {"Armed", "Triggered", "Review", "Waiting", "Complete", "Cancelled", "Expired", "Stopped"}
Over  == {"Complete", "Cancelled", "Expired", "Stopped"}
\* The attempts charged, those of them without an operation, the operations, and whether the order
\* was found reachable before.
Record == [st : State, tries : Nat, free : Nat, ops : SUBSET Ops, told : BOOLEAN]
Armed  == [st |-> "Armed", tries |-> 0, free |-> 0, ops |-> {}, told |-> FALSE]
To(v, st) == [v EXCEPT !.st = st]

\* A row of the journal; own while it names this order.
Row     == [st : {"none", "prepared", "signed", "confirmed", "failed", "cancelled"},
            kind : {"approve", "swap"}, own : BOOLEAN]
NoRow   == [st |-> "none", kind |-> "swap", own |-> FALSE]
Set(o, st) == [journal EXCEPT ![o].st = st]
Own(o)  == journal[o].own
Sent(o) == journal[o].st \in {"signed", "confirmed", "failed"}

TypeOK ==
  /\ order \in Record /\ journal \in [Ops -> Row]
  /\ lease \in Clients \cup {Nobody}
  /\ pc \in [Clients -> {"idle", "quoting", "telling", "pricing", "building", "built", "signing",
                         "sent", "cancelling"}]
  /\ copy \in [Clients -> Record] /\ cur \in [Clients -> Ops \cup {NoOp}]
  /\ open \in [Clients -> SUBSET Ops] /\ expired \in BOOLEAN
  /\ {notices, undone, reused} \subseteq Nat

\* The order as it was created.
Init ==
  /\ order = Armed /\ journal = [o \in Ops |-> NoRow] /\ lease = Nobody
  /\ pc = [c \in Clients |-> "idle"] /\ copy = [c \in Clients |-> Armed]
  /\ cur = [c \in Clients |-> NoOp] /\ open = [c \in Clients |-> {}]
  /\ expired = FALSE /\ notices = 0 /\ undone = 0 /\ reused = 0

-----------------------------------------------------------------------------
(* Calls *)

Idle(c) == pc[c] = "idle" /\ lease = Nobody
\* The call goes on, with the lock, or ends, and drops it.
Hold(c, place, v, o) ==
  /\ lease' = c /\ pc' = [pc EXCEPT ![c] = place]
  /\ copy' = [copy EXCEPT ![c] = v] /\ cur' = [cur EXCEPT ![c] = o]
End(c) ==
  /\ lease' = Nobody /\ pc' = [pc EXCEPT ![c] = "idle"]
  /\ copy' = [copy EXCEPT ![c] = Armed] /\ cur' = [cur EXCEPT ![c] = NoOp]
AtOnce == UNCHANGED <<lease, pc, copy, cur>>
Close(c, S) == open' = [open EXCEPT ![c] = @ \ S]
Discarded(o) == IF journal[o].st = "prepared" THEN Set(o, "cancelled") ELSE journal

\* The operations that name the order and that its row does not list: each takes an attempt that
\* has none. A listed one must still name the order.
Stray(v)    == {o \in Ops : Own(o) /\ journal[o].st # "none" /\ o \notin v.ops}
Coherent(v) == (\A o \in v.ops : Own(o)) /\ Cardinality(Stray(v)) <= v.free
Adopted(v)  == [v EXCEPT !.ops = @ \cup Stray(v), !.free = @ - Cardinality(Stray(v))]

\* An operation that keeps the order from another attempt, and what the order is then.
Blocks(o) ==
  /\ Own(o) /\ journal[o].st \notin {"none", "cancelled"}
  /\ ~(journal[o].st = "confirmed" /\ journal[o].kind = "approve")
Ready == \A o \in Ops : ~Blocks(o)
\* Faulty variant: the operation's status becomes the order's.
VerdictVerbatim(o) == journal[o].st
Verdict(o) == CASE journal[o].st = "confirmed" -> "Complete"
                [] journal[o].st = "failed"    -> "Stopped"
                [] OTHER                       -> "Waiting"
Reconciled(v) == {To(Adopted(v), Verdict(o)) : o \in {x \in Ops : Blocks(x)}}

-----------------------------------------------------------------------------
(* Watching *)

ObserveExpired(c) ==
  /\ Idle(c) /\ order.st # "Cancelled" /\ expired /\ order' = To(order, "Expired")
  /\ AtOnce /\ UNCHANGED <<journal, open, expired, notices, bounds>>

ObserveBlocked(c) ==
  /\ Idle(c) /\ order.st # "Cancelled" /\ ~expired /\ Coherent(order) /\ ~Ready
  /\ order' \in Reconciled(order)
  /\ AtOnce /\ UNCHANGED <<journal, open, expired, notices, bounds>>

ObserveAsk(c) ==
  /\ Idle(c) /\ order.st \notin {"Cancelled", "Stopped", "Complete"} /\ ~expired
  /\ Coherent(order) /\ Ready /\ Hold(c, "quoting", Adopted(order), NoOp)
  /\ UNCHANGED <<order, journal, open, expired, notices, bounds>>

\* Faulty variant: the stamp is not kept.
ObserveQuoteUnstamped(c) ==
  /\ pc[c] = "quoting"
  /\ \/ order' = To(copy[c], "Triggered") /\ Hold(c, "telling", copy[c], NoOp)
     \/ order' = To(copy[c], "Armed") /\ End(c)
  /\ UNCHANGED <<journal, open, expired, notices, bounds>>
\* The quote says whether the limit is reached; the stamp is saved before the notice is written.
ObserveQuote(c) ==
  /\ pc[c] = "quoting"
  /\ \/ /\ order' = [copy[c] EXCEPT !.st = "Triggered", !.told = TRUE]
        /\ IF copy[c].told THEN End(c) ELSE Hold(c, "telling", order', NoOp)
     \/ order' = To(copy[c], "Armed") /\ End(c)
     \/ order' = order /\ End(c)          \* no quote, or it could not be saved
  /\ UNCHANGED <<journal, open, expired, notices, bounds>>

Tell(c) ==
  /\ pc[c] = "telling" /\ notices' = notices + 1 /\ End(c)
  /\ UNCHANGED <<order, journal, open, expired, bounds>>

-----------------------------------------------------------------------------
(* Preparing *)

PrepareBlocked(c) ==
  /\ c \in Signers /\ Idle(c) /\ order.st \notin Over /\ Coherent(order) /\ ~Ready
  /\ order' \in Reconciled(order)
  /\ AtOnce /\ UNCHANGED <<journal, open, expired, notices, bounds>>

\* Faulty variant: an operation already under way is no reason not to prepare.
PrepareAskUnready(c) ==
  /\ c \in Signers /\ Idle(c) /\ order.st \notin Over /\ Coherent(order)
  /\ Hold(c, "pricing", Adopted(order), NoOp)
  /\ UNCHANGED <<order, journal, open, expired, notices, bounds>>
PrepareAsk(c) ==
  /\ c \in Signers /\ Idle(c) /\ order.st \notin Over /\ Coherent(order) /\ Ready
  /\ Hold(c, "pricing", Adopted(order), NoOp)
  /\ UNCHANGED <<order, journal, open, expired, notices, bounds>>

\* The attempt and its fee are saved as spent before anything is built.
Charged(v) == [v EXCEPT !.st = "Review", !.tries = @ + 1, !.free = @ + 1]
PreparePrice(c) ==
  LET v == copy[c] IN
  /\ pc[c] = "pricing"
  /\ \/ /\ ~expired /\ v.tries < MaxAttempts /\ v.tries < FeeBudget
        /\ order' = Charged(v) /\ Hold(c, "building", Charged(v), NoOp)
     \/ order' = To(v, "Armed") /\ End(c)
     \/ order' = order /\ End(c)          \* no quote, budget or time left, or not saved
  /\ UNCHANGED <<journal, open, expired, notices, bounds>>

\* A new reservation, or that of a rejected review, whose row it replaces.
Free(o) ==
  \/ journal[o].st = "cancelled"
  \/ journal[o].st = "none" /\ \A x \in Ops : x < o => journal[x].st # "none"
BuildOk(c, kind) ==
  /\ pc[c] = "building"
  /\ \E o \in Ops :
       /\ Free(o)
       /\ journal' = [journal EXCEPT ![o] = [st |-> "prepared", kind |-> kind, own |-> TRUE]]
       /\ open' = [d \in Clients |-> IF d = c THEN open[d] \cup {o} ELSE open[d] \ {o}]
       /\ Hold(c, "built", copy[c], o)
  /\ UNCHANGED <<order, expired, notices, bounds>>
BuildFails(c) ==
  /\ pc[c] = "building" /\ End(c)
  /\ UNCHANGED <<order, journal, open, expired, notices, bounds>>

\* Faulty variant: a review that is not linked stays open.
LinkKeeps(c) ==
  LET v == copy[c] IN
  /\ pc[c] = "built" /\ End(c) /\ UNCHANGED <<journal, open, expired, notices, bounds>>
  /\ order' \in {order, [v EXCEPT !.ops = @ \cup {cur[c]}]}
\* The review is checked against the order and linked to its attempt, or it is discarded.
Link(c) ==
  LET v == copy[c]  o == cur[c] IN
  /\ pc[c] = "built" /\ End(c)
  /\ \/ /\ ~expired /\ Own(o) /\ order' = [v EXCEPT !.ops = @ \cup {o}, !.free = @ - 1]
        /\ UNCHANGED <<journal, open>>
     \/ order' = order /\ journal' = Discarded(o) /\ Close(c, {o})
  /\ UNCHANGED <<expired, notices, bounds>>

-----------------------------------------------------------------------------
(* Signing *)

\* Faulty variant: the guard looks at the operation and not at the order.
GuardBlind(c, o) ==
  /\ c \in Signers /\ Idle(c) /\ o \in open[c] /\ Own(o) /\ journal[o].st = "prepared" /\ ~expired
  /\ order' = To(order, "Waiting") /\ Hold(c, "signing", order', o)
  /\ UNCHANGED <<journal, open, expired, notices, bounds>>
Guard(c, o) ==
  /\ c \in Signers /\ Idle(c) /\ o \in open[c] /\ Own(o) /\ journal[o].st = "prepared" /\ ~expired
  /\ order.st = "Review" /\ o \in order.ops
  /\ order' = To(order, "Waiting") /\ Hold(c, "signing", order', o)
  /\ UNCHANGED <<journal, open, expired, notices, bounds>>

\* The commitment does not hold, the signer refuses: the order stays as the guard left it.
CommitRefused(c) ==
  /\ pc[c] = "signing" /\ End(c) /\ (Close(c, {cur[c]}) \/ UNCHANGED open)
  /\ UNCHANGED <<order, journal, expired, notices, bounds>>
CommitSign(c) ==
  /\ pc[c] = "signing" /\ journal[cur[c]].st = "prepared" /\ Own(cur[c])
  /\ journal' = Set(cur[c], "signed") /\ Close(c, {cur[c]}) /\ Hold(c, "sent", copy[c], cur[c])
  /\ UNCHANGED <<order, expired, notices, bounds>>
CommitDone(c) ==
  /\ pc[c] = "sent" /\ End(c) /\ UNCHANGED <<order, journal, open, expired, notices, bounds>>

\* The user rejects a review, or the session locks or closes.
Discard(c, o) ==
  /\ pc[c] = "idle" /\ o \in open[c] /\ journal' = Discarded(o) /\ Close(c, {o})
  /\ AtOnce /\ UNCHANGED <<order, expired, notices, bounds>>

-----------------------------------------------------------------------------
(* Cancelling, dying, and what goes on underneath *)

\* Faulty variant: without the order's lock.
CancelUnlocked(c) ==
  /\ pc[c] = "idle" /\ order' = To(order, "Cancelled") /\ AtOnce
  /\ UNCHANGED <<journal, open, expired, notices, bounds>>
\* The order is cancelled first; then its unsigned reviews are abandoned, as far as that goes.
Cancel(c) ==
  /\ Idle(c) /\ order' = To(order, "Cancelled") /\ Hold(c, "cancelling", order', NoOp)
  /\ UNCHANGED <<journal, open, expired, notices, bounds>>
CancelRest(c) ==
  /\ pc[c] = "cancelling" /\ End(c)
  /\ \E S \in SUBSET {o \in Ops : Own(o) /\ journal[o].st = "prepared"} :
       journal' = [o \in Ops |-> IF o \in S THEN [journal[o] EXCEPT !.st = "cancelled"]
                                 ELSE journal[o]]
  /\ UNCHANGED <<order, open, expired, notices, bounds>>

Crash(c) ==
  /\ pc[c] # "idle" \/ open[c] # {}
  /\ open' = [open EXCEPT ![c] = {}] /\ pc' = [pc EXCEPT ![c] = "idle"]
  /\ copy' = [copy EXCEPT ![c] = Armed] /\ cur' = [cur EXCEPT ![c] = NoOp]
  /\ lease' = IF lease = c THEN Nobody ELSE lease
  /\ UNCHANGED <<order, journal, expired, notices, bounds>>

Abandon(o) ==
  /\ journal[o].st = "prepared" /\ journal' = Set(o, "cancelled")
  /\ AtOnce /\ UNCHANGED <<order, open, expired, notices, bounds>>
Expire ==
  /\ ~expired /\ expired' = TRUE /\ AtOnce /\ UNCHANGED <<order, journal, open, notices, bounds>>
Included(o, st) ==
  /\ journal[o].st = "signed" /\ journal' = Set(o, st)
  /\ AtOnce /\ UNCHANGED <<order, open, expired, notices, bounds>>
Undone(o) ==
  /\ journal[o].st \in {"confirmed", "failed"} /\ undone < MaxUndone /\ undone' = undone + 1
  /\ journal' = Set(o, "signed") /\ AtOnce /\ UNCHANGED <<order, open, expired, notices, reused>>
\* Another spend of the account takes the nonce of a rejected review, and with it the row.
Reuse(o) ==
  /\ journal[o].st = "cancelled" /\ reused < MaxReuse /\ reused' = reused + 1
  /\ journal' = [journal EXCEPT ![o] = [st |-> "signed", kind |-> "swap", own |-> FALSE]]
  /\ open' = [c \in Clients |-> open[c] \ {o}]
  /\ AtOnce /\ UNCHANGED <<order, expired, notices, undone>>

-----------------------------------------------------------------------------
Observe(c) == ObserveExpired(c) \/ ObserveBlocked(c) \/ ObserveAsk(c) \/ ObserveQuote(c) \/ Tell(c)
Prepare(c) ==
  \/ PrepareBlocked(c) \/ PrepareAsk(c) \/ PreparePrice(c)
  \/ (\E kind \in {"approve", "swap"} : BuildOk(c, kind)) \/ BuildFails(c) \/ Link(c)
Commit(c) == (\E o \in Ops : Guard(c, o)) \/ CommitRefused(c) \/ CommitSign(c) \/ CommitDone(c)
Stop(c) == Cancel(c) \/ CancelRest(c) \/ Crash(c) \/ \E o \in Ops : Discard(c, o)
Beneath ==
  \/ Expire
  \/ \E o \in Ops : \/ Abandon(o) \/ Undone(o) \/ Reuse(o)
                    \/ \E st \in {"confirmed", "failed"} : Included(o, st)
Next == (\E c \in Clients : Observe(c) \/ Prepare(c) \/ Commit(c) \/ Stop(c)) \/ Beneath
Spec == Init /\ [][Next]_vars

-----------------------------------------------------------------------------
(* Properties *)

\* Whatever clients die, every operation signed for the order is one of its charged attempts, and
\* attempts never exceed what the user allowed, in number or in fees.
SignedIsBudgeted ==
  /\ \A o \in Ops : Own(o) /\ Sent(o) => o \in order.ops
  /\ Cardinality({o \in Ops : Own(o) /\ Sent(o)}) + order.free <= order.tries
  /\ order.tries <= MaxAttempts /\ order.tries <= FeeBudget

\* The order trades once: one swap at most is ever signed for it.
OneSwap ==
  \A o, x \in Ops :
    /\ Own(o) /\ Sent(o) /\ journal[o].kind = "swap"
    /\ Own(x) /\ Sent(x) /\ journal[x].kind = "swap"
    => o = x

\* What is said once is not said again, by any client, after any crash.
AnnouncedOnce == notices <= 1

\* A cancelled order stays cancelled, and nothing is signed for it.
CancelIsFinal ==
  [][order.st = "Cancelled" =>
       /\ order'.st = "Cancelled"
       /\ \A o \in Ops : Own(o) /\ journal[o].st = "prepared" => journal'[o].st # "signed"]_vars

\* Observation is read-only: an order under review becomes one that waits for its transaction
\* only because somebody signs, not because somebody looks.
WatchingLeavesReviews ==
  [][order.st = "Review" /\ order'.st = "Waiting" => \E c \in Signers : pc'[c] = "signing"]_vars

\* A rejected review costs the order one attempt and nothing else: what it lists remains its own,
\* so that it can be watched and tried again.
RejectionIsHarmless == \A o \in order.ops : Own(o)

=============================================================================
