----------------------------- MODULE MCServices -----------------------------
(***************************************************************************)
(* Instances of the four services beside the wallet worker, for TLC: the   *)
(* shared feed, the alerts, the client's link to an engine, the inbox.     *)
(* They share no state: a behaviour moves one of them and leaves the       *)
(* others alone.                                                           *)
(***************************************************************************)
EXTENDS SharedFeed, Alerts, EngineLink, Inbox, TLC

CONSTANTS p1, p2, x, y, z, l1, l2, l3, l4
MCViewOf == (l1 :> x) @@ (l2 :> x) @@ (l3 :> y) @@ (l4 :> z)
MCProcOf == (x :> p1) @@ (y :> p1) @@ (z :> p2)
MCFeedBudget == [change |-> 1, expire |-> 1, slow |-> 1, crash |-> 1, ask |-> 3, locked |-> 1]
MCAlertBudget == [flip |-> 2, check |-> 3, remove |-> 1, fault |-> 2]
MCInboxBudget == [reorg |-> 2, fault |-> 1, grace |-> 1, user |-> 2]

\* Nothing is asked of the alerts once a save has raced, nor of the inbox once reading is lost, and
\* both are for good: not followed.
StillAsked == ~raced /\ course # "lost"

VARIABLE service
svars == <<service, fvars, avars, lvars, ivars>>

ServicesInit == /\ service \in {"feed", "alerts", "link", "inbox"}
                /\ FeedInit /\ AlertsInit /\ LinkInit /\ InboxInit
                /\ (line \/ beat # "old") => service = "alerts"
ServicesNext ==
  /\ \/ service = "feed" /\ FeedNext /\ UNCHANGED <<avars, lvars, ivars>>
     \/ service = "alerts" /\ AlertsNext /\ UNCHANGED <<fvars, lvars, ivars>>
     \/ service = "link" /\ LinkNext /\ UNCHANGED <<fvars, avars, ivars>>
     \/ service = "inbox" /\ InboxNext /\ UNCHANGED <<fvars, avars, lvars>>
  /\ UNCHANGED service
ServicesSpec == ServicesInit /\ [][ServicesNext]_svars
=============================================================================
