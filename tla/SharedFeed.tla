----------------------------- MODULE SharedFeed -----------------------------
(***************************************************************************)
(* One feed's key in the cache every wallet on this computer shares: the   *)
(* lookups that read it, the lease that keeps them from all asking at      *)
(* once, and the views (resources) that show what they were answered.      *)
(*                                                                         *)
(* A view is asked for whenever the screen likes, a read of it under way    *)
(* or not; its process reads it once at a time, showing the cached row     *)
(* first. A lookup answers from a fresh row; else it claims the key's      *)
(* lease and asks the source; else it serves the row it has, or waits for  *)
(* whoever leads. A lease is taken over when it is 20 s old or its process *)
(* is gone.                                                                *)
(*                                                                         *)
(* wallet-core/src: data.rs (cached, await_leader), appdb.rs (claim_fetch, *)
(* release_fetch); quai-engine/src: resource.rs, data.rs (flight_key, run, *)
(* cache_pass).                                                            *)
(***************************************************************************)
EXTENDS Naturals, FiniteSets

CONSTANTS
  Procs,        \* processes: terminals, the daemon
  Views,        \* what a process shows of the feed, each read by a command of its own
  Lookups,      \* lookups that can be under way at once
  ViewOf,       \* the view each is of
  ProcOf,       \* the process of each view
  FeedBudget    \* bound: how often each kind of thing happens, a record

FeedKinds == {"change", "expire", "slow", "crash", "ask", "locked"}
NoLookup  == "nobody"
Nothing   == 0          \* no version of the feed

ASSUME FeedBounds ==
  /\ IsFiniteSet(Lookups) /\ NoLookup \notin Lookups
  /\ ViewOf \in [Lookups -> Views] /\ ProcOf \in [Views -> Procs]
  /\ FeedBudget \in [FeedKinds -> Nat]

VARIABLES
  source,   \* the version the source would answer
  cache,    \* the row: its version, and whether it is fresh
  lease,    \* the row of fetch_leases: who, older than 20 s, its process gone
  look,     \* each lookup: where it is, the row it found, what it fetched
  queued,    \* the views asked for and not begun
  screen,   \* the version each view shows
  extra,    \* leases taken over for their age, and fetches without one
  unsaved,  \* an answer was shown that could not be written to the row
  hasty,    \* a lookup was turned away although it did not wait for a slow leader
  fleft     \* what is left of FeedBudget

fvars == <<source, cache, lease, look, queued, screen, extra, unsaved, hasty, fleft>>

FSpend(kind) == fleft[kind] > 0 /\ fleft' = [fleft EXCEPT ![kind] = @ - 1]
Resting == [pc |-> "idle", prev |-> Nothing, got |-> Nothing]
NoLease == [by |-> NoLookup, old |-> FALSE, gone |-> FALSE]
Home(l) == ProcOf[ViewOf[l]]

FeedInit ==
  /\ source = 1
  /\ cache = [ver |-> Nothing, fresh |-> FALSE]
  /\ lease = NoLease
  /\ look = [l \in Lookups |-> Resting]
  /\ queued = {} /\ screen = [v \in Views |-> Nothing]
  /\ extra = 0 /\ unsaved = FALSE /\ hasty = FALSE /\ fleft = FeedBudget

\* Faulty: the row is replaced whoever holds it.
ClaimableAlways == TRUE

\* Faulty: the process is written where its lookup belongs.
TakesAsProcess(l) ==
  /\ lease' = [by |-> Home(l), old |-> FALSE, gone |-> FALSE]
  /\ UNCHANGED extra

\* claim_fetch: the row goes if it is old or its process is gone; whoever inserts leads.
Claimable == lease.by = NoLookup \/ lease.old \/ lease.gone
Takes(l) ==
  /\ lease' = [by |-> l, old |-> FALSE, gone |-> FALSE]
  /\ extra' = IF lease.old /\ ~lease.gone THEN extra + 1 ELSE extra

\* release_fetch: the row goes if this process wrote it, whichever of its lookups did.
Released(l) == IF lease.by # NoLookup /\ ~lease.gone /\ Home(lease.by) = Home(l)
               THEN NoLease ELSE lease

Ends(l) == look' = [look EXCEPT ![l] = Resting]
Goes(l, pc) == look' = [look EXCEPT ![l].pc = pc]

\* Resource::settle: a failure keeps the value read before.
Settle(l, ver) == screen' = [screen EXCEPT ![ViewOf[l]] = IF ver = Nothing THEN @ ELSE ver]

----------------------------------------------------------------------------
(* The screen. *)

\* A view is due, or the user wants it: the command waits, and collapses with one that waited before
\* (begin, invalidate, and commands sent without either, whatever is in flight).
Ask(v) ==
  /\ v \notin queued /\ FSpend("ask")
  /\ queued' = queued \cup {v}
  /\ UNCHANGED <<source, cache, lease, look, screen, extra, unsaved, hasty>>

\* Faulty: a command runs whatever is flying.
StartsAnyway(l) ==
  /\ ViewOf[l] \in queued /\ look[l].pc = "idle"
  /\ queued' = queued \ {ViewOf[l]}
  /\ \E pc \in {"pass", "look"} : Goes(l, pc)
  /\ UNCHANGED <<source, cache, lease, screen, extra, unsaved, hasty, fleft>>

\* A command waits while one with its flight key is running. Most show the cached row first.
Start(l) ==
  /\ ViewOf[l] \in queued /\ \A m \in Lookups : ViewOf[m] = ViewOf[l] => look[m].pc = "idle"
  /\ queued' = queued \ {ViewOf[l]}
  /\ \E pc \in {"pass", "look"} : Goes(l, pc)
  /\ UNCHANGED <<source, cache, lease, screen, extra, unsaved, hasty, fleft>>

\* cache_pass: the row, whatever its age; none, or one that cannot be read, is not shown.
Pass(l) ==
  /\ look[l].pc = "pass"
  /\ Goes(l, "look") /\ Settle(l, cache.ver)
  /\ UNCHANGED <<source, cache, lease, queued, extra, unsaved, hasty, fleft>>

----------------------------------------------------------------------------
(* A lookup (DataCtx::cached). *)

Look(l) ==
  /\ look[l].pc = "look"
  /\ IF cache.fresh
     THEN Ends(l) /\ Settle(l, cache.ver)
     ELSE /\ look' = [look EXCEPT ![l] = [pc |-> "claim", prev |-> cache.ver, got |-> Nothing]]
          /\ UNCHANGED screen
  /\ UNCHANGED <<source, cache, lease, queued, extra, unsaved, hasty, fleft>>

\* The row cannot be read: an error for the view.
Unread(l) ==
  /\ look[l].pc = "look" /\ FSpend("locked")
  /\ Ends(l) /\ Settle(l, Nothing)
  /\ UNCHANGED <<source, cache, lease, queued, extra, unsaved, hasty>>

\* Leads; or a database that will not answer is no reason not to ask.
Lead(l) ==
  /\ look[l].pc = "claim"
  /\ \/ Claimable /\ Takes(l) /\ UNCHANGED fleft
     \/ FSpend("locked") /\ extra' = extra + 1 /\ UNCHANGED lease
  /\ Goes(l, "fetch")
  /\ UNCHANGED <<source, cache, queued, screen, unsaved, hasty>>

\* Somebody else leads: what there is, or wait.
Follow(l) ==
  /\ look[l].pc = "claim" /\ ~Claimable
  /\ IF look[l].prev # Nothing THEN Ends(l) /\ Settle(l, look[l].prev)
     ELSE Goes(l, "wait") /\ UNCHANGED screen
  /\ UNCHANGED <<source, cache, lease, queued, extra, unsaved, hasty, fleft>>

WaitSees(l) ==
  /\ look[l].pc = "wait" /\ cache.ver # Nothing
  /\ Ends(l) /\ Settle(l, cache.ver)
  /\ UNCHANGED <<source, cache, lease, queued, extra, unsaved, hasty, fleft>>

\* The leader is gone without writing: the lease is tried, and let go again.
WaitFreed(l) ==
  /\ look[l].pc = "wait" /\ cache.ver = Nothing /\ Claimable
  /\ lease' = NoLease
  /\ extra' = IF lease.old /\ ~lease.gone THEN extra + 1 ELSE extra
  /\ Goes(l, "freed")
  /\ UNCHANGED <<source, cache, queued, screen, unsaved, hasty, fleft>>

\* The leader is slow: 4 s are over.
WaitEnds(l) ==
  /\ look[l].pc = "wait" /\ cache.ver = Nothing /\ ~Claimable
  /\ Goes(l, "waited")
  /\ UNCHANGED <<source, cache, lease, queued, screen, extra, unsaved, hasty, fleft>>

Reclaim(l) ==
  /\ look[l].pc \in {"freed", "waited"}
  /\ IF Claimable
     THEN Takes(l) /\ Goes(l, "fetch") /\ UNCHANGED <<screen, hasty>>
     ELSE /\ Ends(l) /\ Settle(l, Nothing)
          /\ hasty' = (hasty \/ look[l].pc = "freed")
          /\ UNCHANGED <<lease, extra>>
  /\ UNCHANGED <<source, cache, queued, unsaved, fleft>>

\* Faulty: the guard is dropped as soon as the source has answered.
AnsweredReleases(l) ==
  /\ look[l].pc = "fetch"
  /\ look' = [look EXCEPT ![l].pc = "put", ![l].got = source]
  /\ lease' = Released(l)
  /\ UNCHANGED <<source, cache, queued, screen, extra, unsaved, hasty, fleft>>

Answered(l) ==
  /\ look[l].pc = "fetch"
  /\ look' = [look EXCEPT ![l].pc = "put", ![l].got = source]
  /\ UNCHANGED <<source, cache, lease, queued, screen, extra, unsaved, hasty, fleft>>

\* The row is written, then the lease goes with the guard. A row that cannot be written is not.
Put(l) ==
  /\ look[l].pc = "put"
  /\ \/ cache' = [ver |-> look[l].got, fresh |-> TRUE] /\ UNCHANGED <<unsaved, fleft>>
     \/ FSpend("locked") /\ unsaved' = TRUE /\ UNCHANGED cache
  /\ lease' = Released(l)
  /\ Ends(l) /\ Settle(l, look[l].got)
  /\ UNCHANGED <<source, queued, extra, hasty>>

\* The source failed: the row found before, or the error.
Fail(l) ==
  /\ look[l].pc = "fetch"
  /\ lease' = Released(l)
  /\ Ends(l) /\ Settle(l, look[l].prev)
  /\ UNCHANGED <<source, cache, queued, extra, unsaved, hasty, fleft>>

----------------------------------------------------------------------------
(* Time, the source and the processes. *)

Change == /\ FSpend("change") /\ source' = source + 1
          /\ UNCHANGED <<cache, lease, look, queued, screen, extra, unsaved, hasty>>
Expire == /\ cache.fresh /\ FSpend("expire") /\ cache' = [cache EXCEPT !.fresh = FALSE]
          /\ UNCHANGED <<source, lease, look, queued, screen, extra, unsaved, hasty>>
Slow   == /\ lease.by # NoLookup /\ ~lease.old /\ FSpend("slow") /\ lease' = [lease EXCEPT !.old = TRUE]
          /\ UNCHANGED <<source, cache, look, queued, screen, extra, unsaved, hasty>>

\* A process dies and starts again: its lookups and its screen go, its lease stays.
Die(p) ==
  /\ FSpend("crash")
  /\ look' = [l \in Lookups |-> IF Home(l) = p THEN Resting ELSE look[l]]
  /\ queued' = {v \in queued : ProcOf[v] # p}
  /\ screen' = [v \in Views |-> IF ProcOf[v] = p THEN Nothing ELSE screen[v]]
  /\ lease' = IF lease.by # NoLookup /\ Home(lease.by) = p THEN [lease EXCEPT !.gone = TRUE] ELSE lease
  /\ UNCHANGED <<source, cache, extra, unsaved, hasty>>

FeedNext ==
  \/ \E v \in Views : Ask(v)
  \/ \E l \in Lookups : \/ Start(l) \/ Pass(l) \/ Look(l) \/ Unread(l) \/ Lead(l) \/ Follow(l) \/ WaitSees(l)
                         \/ WaitFreed(l) \/ WaitEnds(l) \/ Reclaim(l) \/ Answered(l) \/ Put(l) \/ Fail(l)
  \/ \E p \in Procs : Die(p)
  \/ Change \/ Expire \/ Slow

FeedSpec == FeedInit /\ [][FeedNext]_fvars

----------------------------------------------------------------------------
(* Properties. *)

FeedTypeOK ==
  /\ source \in Nat \ {Nothing} /\ cache \in [ver : 0..source, fresh : BOOLEAN]
  /\ lease \in [by : Lookups \cup {NoLookup}, old : BOOLEAN, gone : BOOLEAN]
  /\ look \in [Lookups -> [pc : {"idle", "pass", "look", "claim", "wait", "freed", "waited", "fetch", "put"},
                           prev : 0..source, got : 0..source]]
  /\ queued \in SUBSET Views /\ screen \in [Views -> 0..source]
  /\ extra \in Nat /\ unsaved \in BOOLEAN /\ hasty \in BOOLEAN
  /\ fleft \in [FeedKinds -> Nat]

\* Terminals that need the same feed at the same moment ask for it once: beyond one, a request is
\* under way only for a lease that was taken over alive, or a database that would not answer
\* (claim_fetch, DataCtx::cached).
OneFetcher == Cardinality({l \in Lookups : look[l].pc \in {"fetch", "put"}}) <= 1 + extra

\* The shared row never goes back to an older answer while no lease was taken over alive.
CacheMovesForward == [][cache'.ver >= cache.ver \/ extra > 0]_fvars

\* What a view shows never goes back to an older answer while its process lives, however often it is
\* asked for meanwhile, whoever else reads the feed, and though the cached row is shown first; unless a
\* lease was taken over alive or an answer could not be saved (run's flying, cache_pass, settle).
ScreenMovesForward ==
  [][\A v \in Views : screen'[v] >= screen[v] \/ screen'[v] = Nothing \/ extra > 0 \/ unsaved]_fvars

\* "Its holder crashing costs the others one refresh interval of staleness, never an error"
\* (appdb.rs:251): a lookup is turned away only after it waited for a leader that is slow.
TurnedAwayOnlyBySlow == ~hasty
=============================================================================
