--------------------------- MODULE ServicesProofs ---------------------------
(***************************************************************************)
(* What is proved of the shared feed, of the link to an engine, of the     *)
(* alerts and of the inbox, each from an inductive invariant of its own.   *)
(***************************************************************************)
EXTENDS SharedFeed, EngineLink, Alerts, Inbox, FiniteSetTheorems, SequenceTheorems, WellFoundedInduction, TLAPS

-----------------------------------------------------------------------------
(* The shared feed: types. *)

LookPlaces == {"idle", "pass", "look", "claim", "wait", "freed", "waited", "fetch", "put"}
Reading == [pc : LookPlaces, prev : 0..source, got : 0..source]

\* What a lookup is answered is a version its view can show.
LEMMA SettleType ==
  ASSUME FeedTypeOK, NEW l \in Lookups, NEW ver \in 0..source, Settle(l, ver)
  PROVE  screen' \in [Views -> 0..source]
<1>1. screen \in [Views -> 0..source] /\ ViewOf[l] \in Views
  BY FeedBounds DEF FeedTypeOK
<1>2. (IF ver = Nothing THEN screen[ViewOf[l]] ELSE ver) \in 0..source
  BY <1>1
<1> QED BY <1>1, <1>2 DEF Settle

\* Every lookup, screen and fault keeps the feed's variables in their types.
LEMMA FeedTypeStep == FeedTypeOK /\ [FeedNext]_fvars => FeedTypeOK'
<1> SUFFICES ASSUME FeedTypeOK, [FeedNext]_fvars PROVE FeedTypeOK'
  OBVIOUS
<1> USE FeedBounds DEF FeedTypeOK
<1>t. /\ look \in [Lookups -> Reading] /\ screen \in [Views -> 0..source] /\ source \in Nat
      /\ 0 \in 0..source /\ cache.ver \in 0..source
      /\ \A l \in Lookups : ViewOf[l] \in Views /\ look[l].prev \in 0..source /\ look[l].got \in 0..source
  BY DEF Reading, LookPlaces
<1>same. ASSUME source' = source, look' \in [Lookups -> Reading], screen' \in [Views -> 0..source],
                cache' \in [ver : 0..source, fresh : BOOLEAN],
                lease' \in [by : Lookups \cup {NoLookup}, old : BOOLEAN, gone : BOOLEAN],
                queued' \in SUBSET Views, extra' \in Nat, unsaved' \in BOOLEAN, hasty' \in BOOLEAN,
                fleft' \in [FeedKinds -> Nat]
         PROVE  FeedTypeOK'
  BY <1>same DEF Reading, LookPlaces
<1>spend. ASSUME NEW kind \in FeedKinds, FSpend(kind) PROVE fleft' \in [FeedKinds -> Nat]
  <2>1. fleft[kind] \in Nat /\ fleft[kind] > 0
    BY <1>spend DEF FSpend
  <2>2. fleft[kind] - 1 \in Nat
    BY <2>1
  <2> QED BY <1>spend, <2>2 DEF FSpend
<1>ends. ASSUME NEW l \in Lookups, Ends(l) PROVE look' \in [Lookups -> Reading]
  <2>1. Resting \in Reading
    BY <1>t DEF Resting, Reading, LookPlaces, Nothing
  <2> QED BY <1>ends, <1>t, <2>1 DEF Ends
<1>goes. ASSUME NEW l \in Lookups, NEW pc \in LookPlaces, Goes(l, pc) PROVE look' \in [Lookups -> Reading]
  BY <1>goes, <1>t DEF Goes, Reading
<1>takes. ASSUME NEW l \in Lookups, Takes(l)
          PROVE  lease' \in [by : Lookups \cup {NoLookup}, old : BOOLEAN, gone : BOOLEAN] /\ extra' \in Nat
  BY <1>takes DEF Takes
<1>released. ASSUME NEW l \in Lookups
             PROVE  Released(l) \in [by : Lookups \cup {NoLookup}, old : BOOLEAN, gone : BOOLEAN]
  BY DEF Released, NoLease
<1>settles. ASSUME NEW l \in Lookups, NEW ver \in 0..source, Settle(l, ver)
            PROVE  screen' \in [Views -> 0..source]
  BY <1>settles, <1>t, SettleType
<1>1. ASSUME NEW v \in Views, Ask(v) PROVE FeedTypeOK'
  BY <1>1, <1>t, <1>spend, <1>same DEF Ask, FeedKinds
<1>17. ASSUME NEW l \in Lookups, Start(l) PROVE FeedTypeOK'
  <2>1. look' \in [Lookups -> Reading]
    BY <1>17, <1>goes DEF Start, LookPlaces
  <2> QED BY <1>17, <1>t, <2>1, <1>same DEF Start
<1>18. ASSUME NEW l \in Lookups, Pass(l) PROVE FeedTypeOK'
  <2>1. look' \in [Lookups -> Reading] /\ screen' \in [Views -> 0..source]
    BY <1>18, <1>t, <1>goes, <1>settles DEF Pass, LookPlaces
  <2> QED BY <1>18, <2>1, <1>same DEF Pass
<1>19. ASSUME NEW l \in Lookups, Unread(l) PROVE FeedTypeOK'
  <2>1. look' \in [Lookups -> Reading] /\ screen' \in [Views -> 0..source]
    BY <1>19, <1>t, <1>ends, <1>settles DEF Unread, Nothing
  <2>2. fleft' \in [FeedKinds -> Nat]
    BY <1>19, <1>spend DEF Unread, FeedKinds
  <2> QED BY <1>19, <2>1, <2>2, <1>same DEF Unread
<1>2. ASSUME NEW l \in Lookups, Look(l) PROVE FeedTypeOK'
  <2>1. [pc |-> "claim", prev |-> cache.ver, got |-> Nothing] \in Reading
    BY <1>t DEF Reading, LookPlaces, Nothing
  <2>2. look' \in [Lookups -> Reading]
    BY <1>2, <1>t, <2>1, <1>ends DEF Look
  <2>3. screen' \in [Views -> 0..source]
    BY <1>2, <1>t, <1>settles DEF Look
  <2> QED BY <1>2, <2>2, <2>3, <1>same DEF Look
<1>3. ASSUME NEW l \in Lookups, Lead(l) PROVE FeedTypeOK'
  <2>1. look' \in [Lookups -> Reading]
    BY <1>3, <1>goes DEF Lead, LookPlaces
  <2>2. /\ lease' \in [by : Lookups \cup {NoLookup}, old : BOOLEAN, gone : BOOLEAN] /\ extra' \in Nat
        /\ fleft' \in [FeedKinds -> Nat]
    BY <1>3, <1>takes, <1>spend DEF Lead, FeedKinds
  <2> QED BY <1>3, <1>t, <2>1, <2>2, <1>same DEF Lead
<1>4. ASSUME NEW l \in Lookups, Follow(l) PROVE FeedTypeOK'
  <2>1. look' \in [Lookups -> Reading]
    BY <1>4, <1>goes, <1>ends DEF Follow, LookPlaces
  <2>2. screen' \in [Views -> 0..source]
    BY <1>4, <1>t, <1>settles DEF Follow
  <2> QED BY <1>4, <2>1, <2>2, <1>same DEF Follow
<1>5. ASSUME NEW l \in Lookups, WaitSees(l) PROVE FeedTypeOK'
  BY <1>5, <1>t, <1>ends, <1>settles, <1>same DEF WaitSees
<1>6. ASSUME NEW l \in Lookups, WaitFreed(l) PROVE FeedTypeOK'
  BY <1>6, <1>t, <1>goes, <1>same DEF WaitFreed, NoLease, LookPlaces
<1>7. ASSUME NEW l \in Lookups, WaitEnds(l) PROVE FeedTypeOK'
  BY <1>7, <1>t, <1>goes, <1>same DEF WaitEnds, LookPlaces
<1>8. ASSUME NEW l \in Lookups, Reclaim(l) PROVE FeedTypeOK'
  <2>1. CASE Claimable
    BY <1>8, <1>t, <2>1, <1>takes, <1>goes, <1>same DEF Reclaim, LookPlaces
  <2>2. CASE ~Claimable
    BY <1>8, <1>t, <2>2, <1>ends, <1>settles, <1>same DEF Reclaim, Nothing
  <2> QED BY <2>1, <2>2
<1>9. ASSUME NEW l \in Lookups, Answered(l) PROVE FeedTypeOK'
  <2>1. PICK f : f = [look EXCEPT ![l].pc = "put"]
    OBVIOUS
  <2>2. f \in [Lookups -> Reading] /\ look' = [f EXCEPT ![l].got = source]
    BY <1>9, <1>t, <2>1 DEF Answered, Reading, LookPlaces
  <2>3. look' \in [Lookups -> Reading]
    BY <1>t, <2>2 DEF Reading
  <2> QED BY <1>9, <1>t, <2>3, <1>same DEF Answered
<1>10. ASSUME NEW l \in Lookups, Put(l) PROVE FeedTypeOK'
  <2>1. look' \in [Lookups -> Reading] /\ screen' \in [Views -> 0..source]
    BY <1>10, <1>t, <1>ends, <1>settles DEF Put
  <2>2. lease' \in [by : Lookups \cup {NoLookup}, old : BOOLEAN, gone : BOOLEAN]
    BY <1>10, <1>released DEF Put
  <2>3. cache' \in [ver : 0..source, fresh : BOOLEAN]
    <3>1. \/ cache' = [ver |-> look[l].got, fresh |-> TRUE] \/ cache' = cache
      BY <1>10 DEF Put
    <3>2. cache \in [ver : 0..source, fresh : BOOLEAN] /\ look[l].got \in 0..source
      BY <1>t
    <3>3. CASE cache' = cache
      BY <3>2, <3>3
    <3>4. CASE cache' = [ver |-> look[l].got, fresh |-> TRUE]
      BY <3>2, <3>4
    <3> QED BY <3>1, <3>3, <3>4
  <2>4. unsaved' \in BOOLEAN /\ fleft' \in [FeedKinds -> Nat]
    BY <1>10, <1>spend DEF Put, FeedKinds
  <2> QED BY <1>10, <2>1, <2>2, <2>3, <2>4, <1>same DEF Put
<1>11. ASSUME NEW l \in Lookups, Fail(l) PROVE FeedTypeOK'
  <2>1. look' \in [Lookups -> Reading] /\ screen' \in [Views -> 0..source]
    BY <1>11, <1>t, <1>ends, <1>settles DEF Fail
  <2>2. lease' \in [by : Lookups \cup {NoLookup}, old : BOOLEAN, gone : BOOLEAN]
    BY <1>11, <1>released DEF Fail
  <2> QED BY <1>11, <2>1, <2>2, <1>same DEF Fail
<1>13. ASSUME NEW p \in Procs, Die(p) PROVE FeedTypeOK'
  <2>1. Resting \in Reading /\ Nothing \in 0..source
    BY <1>t DEF Resting, Reading, LookPlaces, Nothing
  <2>2. look' \in [Lookups -> Reading] /\ screen' \in [Views -> 0..source]
    BY <1>13, <1>t, <2>1 DEF Die
  <2>3. lease' \in [by : Lookups \cup {NoLookup}, old : BOOLEAN, gone : BOOLEAN]
    BY <1>13 DEF Die
  <2>4. queued' \in SUBSET Views
    BY <1>13 DEF Die
  <2> QED BY <1>13, <2>2, <2>3, <2>4, <1>spend, <1>same DEF Die, FeedKinds
<1>14. ASSUME Change PROVE FeedTypeOK'
  <2>1. source' \in Nat \ {Nothing} /\ 0..source \subseteq 0..source'
    BY <1>14 DEF Change, Nothing
  <2>2. /\ look' \in [Lookups -> [pc : LookPlaces, prev : 0..source', got : 0..source']]
        /\ screen' \in [Views -> 0..source'] /\ cache' \in [ver : 0..source', fresh : BOOLEAN]
    BY <1>14, <1>t, <2>1 DEF Change, Reading
  <2> QED BY <1>14, <2>1, <2>2, <1>spend DEF Change, FeedKinds, LookPlaces
<1>15. ASSUME Expire \/ Slow PROVE FeedTypeOK'
  BY <1>15, <1>t, <1>spend, <1>same DEF Expire, Slow, FeedKinds
<1>16. CASE UNCHANGED fvars
  BY <1>16, <1>t, <1>same DEF fvars
<1> QED
  BY <1>1, <1>2, <1>3, <1>4, <1>5, <1>6, <1>7, <1>8, <1>9, <1>10, <1>11, <1>13, <1>14, <1>15,
     <1>16, <1>17, <1>18, <1>19 DEF FeedNext

-----------------------------------------------------------------------------
(* Who asks the source. *)

Fetchers == {l \in Lookups : look[l].pc \in {"fetch", "put"}}
Led == lease.by # NoLookup /\ ~lease.gone

\* Whoever holds the lease of a living process is asking; and while no lease was taken over alive,
\* nobody else is.
LeaderInv == Led => lease.by \in Fetchers
OnlyLeader == extra = 0 => \A l \in Fetchers : Led /\ l = lease.by

\* One fetch belongs to the lease, every other one to a takeover or a locked database.
FetchersInv == Cardinality(Fetchers) <= IF Led THEN extra + 1 ELSE extra

\* What the source answered while nobody else could write is no older than the row.
AnswersInv ==
  extra = 0 => \A l \in Lookups : /\ look[l].prev <= cache.ver
                                  /\ look[l].pc = "put" => look[l].got >= cache.ver

\* A process reads a view once at a time.
SingleFlight == \A l \in Lookups : \A m \in Lookups :
  look[l].pc # "idle" /\ look[m].pc # "idle" /\ ViewOf[m] = ViewOf[l] => m = l

\* No view is ahead of the row, and what a lookup found there is no older than what its view shows.
Undisturbed == extra = 0 /\ ~unsaved
ScreenInv ==
  /\ SingleFlight
  /\ Undisturbed =>
       /\ \A v \in Views : screen[v] <= cache.ver
       /\ \A l \in Lookups : look[l].pc \notin {"idle", "pass", "look"} =>
            look[l].prev = Nothing \/ look[l].prev >= screen[ViewOf[l]]

FeedInv == FeedTypeOK /\ LeaderInv /\ OnlyLeader /\ FetchersInv /\ AnswersInv /\ ScreenInv

\* Sets of lookups: one more, one less.
LEMMA FetchersCount ==
  ASSUME NEW S \in SUBSET Lookups, NEW l \in Lookups
  PROVE  /\ Cardinality(S) \in Nat
         /\ l \notin S => Cardinality(S \cup {l}) = Cardinality(S) + 1
         /\ l \in S => Cardinality(S \ {l}) = Cardinality(S) - 1
         /\ \A T \in SUBSET S : Cardinality(T) <= Cardinality(S)
<1>1. IsFiniteSet(S)
  BY FeedBounds, FS_Subset
<1> QED BY <1>1, FS_CardinalityType, FS_AddElement, FS_RemoveElement, FS_Subset

\* Whoever asks the source does so for the lease, for one taken over alive, or without one.
LEMMA FetchersStep ==
  FeedTypeOK /\ LeaderInv /\ OnlyLeader /\ FetchersInv /\ [FeedNext]_fvars
    => LeaderInv' /\ OnlyLeader' /\ FetchersInv'
<1> SUFFICES ASSUME FeedTypeOK, LeaderInv, OnlyLeader, FetchersInv, [FeedNext]_fvars
             PROVE  LeaderInv' /\ OnlyLeader' /\ FetchersInv'
  OBVIOUS
<1> USE FeedBounds DEF FeedTypeOK
<1>t. /\ lease.by \in Lookups \cup {NoLookup} /\ extra \in Nat /\ Fetchers \in SUBSET Lookups
      /\ Led \in BOOLEAN /\ Cardinality(Fetchers) \in Nat
  BY FetchersCount, FS_Subset, FS_CardinalityType DEF Fetchers, Led
<1>same. ASSUME Fetchers' = Fetchers, Led' = Led, lease'.by = lease.by, extra' = extra
         PROVE  LeaderInv' /\ OnlyLeader' /\ FetchersInv'
  BY <1>same, <1>t DEF LeaderInv, OnlyLeader, FetchersInv
<1>enters. ASSUME NEW l \in Lookups, look[l].pc \notin {"fetch", "put"}, Goes(l, "fetch")
           PROVE  Fetchers' = Fetchers \cup {l} /\ Cardinality(Fetchers') = Cardinality(Fetchers) + 1
  <2>1. Fetchers' = Fetchers \cup {l}
    BY <1>enters DEF Goes, Fetchers
  <2>2. l \notin Fetchers
    BY <1>enters DEF Fetchers
  <2> QED BY <2>1, <2>2, <1>t, FetchersCount
<1>leads. ASSUME NEW l \in Lookups, look[l].pc \notin {"fetch", "put"}, Goes(l, "fetch"), Claimable, Takes(l)
          PROVE  LeaderInv' /\ OnlyLeader' /\ FetchersInv'
  <2>1. Led' /\ lease'.by = l
    BY <1>leads DEF Takes, Led
  <2>2. Led => lease.old /\ ~lease.gone /\ extra' = extra + 1
    BY <1>leads DEF Claimable, Led, Takes
  <2>3. extra' \in {extra, extra + 1}
    BY <1>leads DEF Takes
  <2>4. LeaderInv'
    BY <2>1, <1>leads, <1>enters DEF LeaderInv
  <2>5. OnlyLeader'
    BY <2>1, <2>2, <2>3, <1>leads, <1>enters, <1>t DEF OnlyLeader
  <2>6. FetchersInv'
    BY <2>1, <2>2, <2>3, <1>leads, <1>enters, <1>t DEF FetchersInv
  <2> QED BY <2>4, <2>5, <2>6
<1>leaves. ASSUME NEW l \in Lookups, look[l].pc \in {"fetch", "put"}, Ends(l), lease' = Released(l), extra' = extra
           PROVE  LeaderInv' /\ OnlyLeader' /\ FetchersInv'
  <2>1. Fetchers' = Fetchers \ {l} /\ l \in Fetchers
    BY <1>leaves DEF Ends, Resting, Fetchers
  <2>2. Cardinality(Fetchers') = Cardinality(Fetchers) - 1
    BY <2>1, <1>t, FetchersCount
  <2>3. CASE Led /\ Home(lease.by) = Home(l)
    <3>1. ~Led' /\ Led
      BY <1>leaves, <2>3 DEF Released, NoLease, Led
    <3>2. extra = 0 => Fetchers' = {}
      BY <2>1 DEF OnlyLeader
    <3> QED BY <1>leaves, <1>t, <2>2, <3>1, <3>2 DEF LeaderInv, OnlyLeader, FetchersInv
  <2>4. CASE ~(Led /\ Home(lease.by) = Home(l))
    <3>1. lease' = lease
      BY <1>leaves, <2>4 DEF Released, Led
    <3>2. Led' = Led /\ (Led => lease.by # l)
      BY <3>1, <2>4 DEF Led
    <3> QED BY <1>leaves, <1>t, <2>1, <2>2, <3>1, <3>2 DEF LeaderInv, OnlyLeader, FetchersInv
  <2> QED BY <2>3, <2>4
<1>rests. ASSUME NEW l \in Lookups, look[l].pc \notin {"fetch", "put"}, Ends(l)
          PROVE  Fetchers' = Fetchers
  BY <1>rests DEF Ends, Resting, Fetchers
<1>1. ASSUME NEW l \in Lookups,
             \/ Start(l) \/ Pass(l) \/ Look(l) \/ Unread(l) \/ Follow(l) \/ WaitSees(l) \/ WaitEnds(l)
             \/ Answered(l)
      PROVE  LeaderInv' /\ OnlyLeader' /\ FetchersInv'
  <2>1. lease' = lease /\ extra' = extra
    BY <1>1 DEF Start, Pass, Look, Unread, Follow, WaitSees, WaitEnds, Answered
  <2>2. CASE Start(l) \/ Pass(l)
    <3>1. /\ look[l].pc \notin {"fetch", "put"}
          /\ Goes(l, "pass") \/ Goes(l, "look")
      BY <2>2 DEF Start, Pass
    <3>2. Fetchers' = Fetchers
      BY <3>1 DEF Goes, Fetchers
    <3> QED BY <2>1, <3>2, <1>same DEF Led
  <2>7. CASE Unread(l)
    <3>1. Fetchers' = Fetchers
      BY <2>7, <1>rests DEF Unread
    <3> QED BY <2>1, <3>1, <1>same DEF Led
  <2>3. CASE Look(l)
    <3>1. Fetchers' = Fetchers
      <4>1. CASE cache.fresh
        BY <2>3, <4>1, <1>rests DEF Look
      <4>2. CASE ~cache.fresh
        <5>1. PICK r : r = [pc |-> "claim", prev |-> cache.ver, got |-> Nothing]
          OBVIOUS
        <5>2. look' = [look EXCEPT ![l] = r] /\ r.pc = "claim" /\ look[l].pc = "look"
          BY <2>3, <4>2, <5>1 DEF Look
        <5>3. \A m \in Lookups : look'[m] = IF m = l THEN r ELSE look[m]
          BY <5>2
        <5> QED BY <5>2, <5>3 DEF Fetchers
      <4> QED BY <4>1, <4>2
    <3> QED BY <2>1, <3>1, <1>same DEF Led
  <2>4. CASE Follow(l)
    <3>1. Fetchers' = Fetchers
      <4>1. CASE look[l].prev # Nothing
        BY <2>4, <4>1, <1>rests DEF Follow
      <4>2. CASE look[l].prev = Nothing
        BY <2>4, <4>2 DEF Follow, Goes, Fetchers
      <4> QED BY <4>1, <4>2
    <3> QED BY <2>1, <3>1, <1>same DEF Led
  <2>5. CASE WaitSees(l) \/ WaitEnds(l)
    <3>1. Fetchers' = Fetchers
      BY <2>5 DEF WaitSees, WaitEnds, Ends, Goes, Resting, Fetchers
    <3> QED BY <2>1, <3>1, <1>same DEF Led
  <2>6. CASE Answered(l)
    <3>1. Fetchers' = Fetchers
      BY <2>6 DEF Answered, Fetchers
    <3> QED BY <2>1, <3>1, <1>same DEF Led
  <2> QED BY <1>1, <2>2, <2>3, <2>4, <2>5, <2>6, <2>7
<1>2. ASSUME NEW l \in Lookups, Lead(l) PROVE LeaderInv' /\ OnlyLeader' /\ FetchersInv'
  <2>1. CASE Claimable /\ Takes(l)
    BY <1>2, <2>1, <1>leads DEF Lead
  <2>2. CASE extra' = extra + 1 /\ lease' = lease
    BY <1>2, <2>2, <1>enters, <1>t DEF Lead, LeaderInv, OnlyLeader, FetchersInv, Led
  <2> QED BY <1>2, <2>1, <2>2 DEF Lead
<1>3. ASSUME NEW l \in Lookups, WaitFreed(l) PROVE LeaderInv' /\ OnlyLeader' /\ FetchersInv'
  <2>1. Fetchers' = Fetchers /\ ~Led'
    BY <1>3 DEF WaitFreed, Goes, Fetchers, NoLease, Led
  <2>2. Led => extra' = extra + 1
    BY <1>3 DEF WaitFreed, Claimable, Led
  <2>3. extra' \in {extra, extra + 1}
    BY <1>3 DEF WaitFreed
  <2> QED BY <2>1, <2>2, <2>3, <1>t DEF LeaderInv, OnlyLeader, FetchersInv
<1>4. ASSUME NEW l \in Lookups, Reclaim(l) PROVE LeaderInv' /\ OnlyLeader' /\ FetchersInv'
  <2>1. CASE Claimable
    BY <1>4, <2>1, <1>leads DEF Reclaim
  <2>2. CASE ~Claimable
    <3>1. Fetchers' = Fetchers /\ lease' = lease /\ extra' = extra
      BY <1>4, <2>2, <1>rests DEF Reclaim
    <3> QED BY <3>1, <1>same DEF Led
  <2> QED BY <2>1, <2>2
<1>5. ASSUME NEW l \in Lookups, Put(l) PROVE LeaderInv' /\ OnlyLeader' /\ FetchersInv'
  BY <1>5, <1>leaves DEF Put
<1>6. ASSUME NEW l \in Lookups, Fail(l) PROVE LeaderInv' /\ OnlyLeader' /\ FetchersInv'
  BY <1>6, <1>leaves DEF Fail
<1>7. ASSUME NEW p \in Procs, Die(p) PROVE LeaderInv' /\ OnlyLeader' /\ FetchersInv'
  <2>1. Fetchers' = {l \in Fetchers : Home(l) # p}
    BY <1>7 DEF Die, Fetchers, Resting
  <2>2. Fetchers' \in SUBSET Fetchers
    BY <2>1
  <2>3. Cardinality(Fetchers') \in Nat /\ Cardinality(Fetchers') <= Cardinality(Fetchers)
    BY <2>2, <1>t, FetchersCount, FS_Subset, FS_CardinalityType
  <2>4. CASE Led /\ Home(lease.by) = p
    <3>1. ~Led' /\ extra' = extra
      BY <1>7, <2>4 DEF Die, Led
    <3>2. lease.by \in Fetchers /\ lease.by \notin Fetchers'
      BY <2>1, <2>4 DEF LeaderInv
    <3>3. Fetchers' \in SUBSET (Fetchers \ {lease.by}) /\ Fetchers \ {lease.by} \in SUBSET Lookups
      BY <2>2, <3>2, <1>t
    <3>4. Cardinality(Fetchers') <= Cardinality(Fetchers) - 1
      <4>1. Cardinality(Fetchers \ {lease.by}) = Cardinality(Fetchers) - 1
        BY <3>2, <1>t, FetchersCount
      <4>2. Cardinality(Fetchers') <= Cardinality(Fetchers \ {lease.by})
        BY <3>3, FeedBounds, FS_Subset
      <4> QED BY <4>1, <4>2
    <3>5. extra = 0 => Fetchers' = {}
      BY <3>3 DEF OnlyLeader
    <3> QED BY <2>3, <2>4, <3>1, <3>4, <3>5, <1>t DEF LeaderInv, OnlyLeader, FetchersInv
  <2>5. CASE Led /\ Home(lease.by) # p
    <3>1. Led' /\ lease'.by = lease.by /\ extra' = extra
      BY <1>7, <2>5 DEF Die, Led
    <3>2. lease.by \in Fetchers'
      BY <2>1, <2>5 DEF LeaderInv
    <3> QED BY <2>1, <2>3, <2>5, <3>1, <3>2, <1>t DEF LeaderInv, OnlyLeader, FetchersInv
  <2>6. CASE ~Led
    <3>1. ~Led' /\ extra' = extra
      BY <1>7, <2>6 DEF Die, Led
    <3> QED BY <2>1, <2>3, <2>6, <3>1, <1>t DEF LeaderInv, OnlyLeader, FetchersInv
  <2> QED BY <2>4, <2>5, <2>6
<1>8. ASSUME Change \/ Expire \/ Slow \/ (\E v \in Views : Ask(v)) \/ UNCHANGED fvars
      PROVE  LeaderInv' /\ OnlyLeader' /\ FetchersInv'
  <2>1. look' = look /\ extra' = extra /\ lease'.by = lease.by /\ lease'.gone = lease.gone
    BY <1>8 DEF Change, Expire, Slow, Ask, fvars
  <2> QED BY <2>1, <1>same DEF Fetchers, Led
<1> QED BY <1>1, <1>2, <1>3, <1>4, <1>5, <1>6, <1>7, <1>8 DEF FeedNext

\* Nothing is taken back: takeovers are counted, an answer that was not saved stays so.
LEMMA FeedCounts ==
  FeedTypeOK /\ [FeedNext]_fvars => extra' >= extra /\ (unsaved => unsaved')
<1> SUFFICES ASSUME FeedTypeOK, [FeedNext]_fvars PROVE extra' >= extra /\ (unsaved => unsaved')
  OBVIOUS
<1>t. extra \in Nat
  BY DEF FeedTypeOK
<1>1. extra' \in {extra, extra + 1}
  <2>1. ASSUME NEW l \in Lookups, Lead(l) \/ WaitFreed(l) \/ Reclaim(l) PROVE extra' \in {extra, extra + 1}
    BY <2>1 DEF Lead, WaitFreed, Reclaim, Takes
  <2>2. ASSUME NEW l \in Lookups,
               \/ Start(l) \/ Pass(l) \/ Look(l) \/ Unread(l) \/ Follow(l) \/ WaitSees(l) \/ WaitEnds(l)
               \/ Answered(l) \/ Put(l) \/ Fail(l)
        PROVE  extra' = extra
    BY <2>2 DEF Start, Pass, Look, Unread, Follow, WaitSees, WaitEnds, Answered, Put, Fail
  <2>3. ASSUME NEW p \in Procs, Die(p) PROVE extra' = extra
    BY <2>3 DEF Die
  <2>4. ASSUME Change \/ Expire \/ Slow \/ (\E v \in Views : Ask(v)) \/ UNCHANGED fvars PROVE extra' = extra
    BY <2>4 DEF Change, Expire, Slow, Ask, fvars
  <2> QED BY <2>1, <2>2, <2>3, <2>4 DEF FeedNext
<1>2. unsaved' = unsaved \/ unsaved' = TRUE
  BY DEF FeedNext, fvars, Ask, Start, Pass, Look, Unread, Lead, Follow, WaitSees, WaitFreed, WaitEnds, Reclaim,
     Answered, Put, Fail, Die, Change, Expire, Slow
<1> QED BY <1>t, <1>1, <1>2

\* While no lease was taken over alive, what a lookup holds is in order with the row: what it found
\* there is no newer, what the source answered it no older; and the row moves forward.
LEMMA AnswersStep ==
  FeedTypeOK /\ OnlyLeader /\ AnswersInv /\ [FeedNext]_fvars
    => AnswersInv' /\ (cache'.ver >= cache.ver \/ extra > 0)
<1> SUFFICES ASSUME FeedTypeOK, OnlyLeader, AnswersInv, [FeedNext]_fvars
             PROVE  AnswersInv' /\ (cache'.ver >= cache.ver \/ extra > 0)
  OBVIOUS
<1> USE FeedBounds
<1>t. /\ look \in [Lookups -> Reading] /\ source \in Nat /\ cache.ver \in 0..source /\ extra \in Nat
      /\ extra' >= extra
      /\ \A l \in Lookups : look[l].prev \in 0..source /\ look[l].got \in 0..source
  BY FeedCounts DEF FeedTypeOK, Reading, LookPlaces
<1>0. extra' \in Nat
  BY FeedTypeStep DEF FeedTypeOK
<1>same. ASSUME cache'.ver = cache.ver,
                \A l \in Lookups : \/ look'[l] = look[l] \/ look'[l] = Resting
                                   \/ look'[l].prev = look[l].prev /\ look'[l].pc # "put"
         PROVE  AnswersInv' /\ (cache'.ver >= cache.ver \/ extra > 0)
  BY <1>same, <1>t, <1>0 DEF AnswersInv, Resting, Nothing
<1>goes. ASSUME NEW l \in Lookups, NEW pc \in LookPlaces \ {"put"}, Goes(l, pc)
         PROVE  \A m \in Lookups : look'[m] = look[m] \/ (look'[m].prev = look[m].prev /\ look'[m].pc # "put")
  BY <1>goes, <1>t DEF Goes, Reading
<1>ends. ASSUME NEW l \in Lookups, Ends(l)
         PROVE  \A m \in Lookups : look'[m] = look[m] \/ look'[m] = Resting
  BY <1>ends, <1>t DEF Ends
<1>1. ASSUME NEW l \in Lookups, Look(l) PROVE AnswersInv' /\ (cache'.ver >= cache.ver \/ extra > 0)
  <2>1. CASE cache.fresh
    BY <1>1, <2>1, <1>ends, <1>same DEF Look
  <2>2. CASE ~cache.fresh
    <3>1. PICK r : r = [pc |-> "claim", prev |-> cache.ver, got |-> Nothing]
      OBVIOUS
    <3>2. look' = [look EXCEPT ![l] = r] /\ r.pc = "claim" /\ r.prev = cache.ver /\ cache' = cache
      BY <1>1, <2>2, <3>1 DEF Look
    <3>3. \A m \in Lookups : look'[m] = IF m = l THEN r ELSE look[m]
      BY <3>2, <1>t
    <3> QED BY <3>2, <3>3, <1>t, <1>0 DEF AnswersInv
  <2> QED BY <2>1, <2>2
<1>2. ASSUME NEW l \in Lookups,
             Pass(l) \/ Unread(l) \/ Lead(l) \/ WaitFreed(l) \/ WaitEnds(l) \/ WaitSees(l) \/ Fail(l)
      PROVE  AnswersInv' /\ (cache'.ver >= cache.ver \/ extra > 0)
  BY <1>2, <1>goes, <1>ends, <1>same DEF Pass, Unread, Lead, WaitFreed, WaitEnds, WaitSees, Fail, LookPlaces
<1>8. ASSUME NEW l \in Lookups, Start(l) PROVE AnswersInv' /\ (cache'.ver >= cache.ver \/ extra > 0)
  <2>1. (Goes(l, "pass") \/ Goes(l, "look")) /\ cache' = cache
    BY <1>8 DEF Start
  <2> QED BY <2>1, <1>goes, <1>same DEF LookPlaces
<1>3. ASSUME NEW l \in Lookups, Follow(l) \/ Reclaim(l)
      PROVE  AnswersInv' /\ (cache'.ver >= cache.ver \/ extra > 0)
  <2>1. Ends(l) \/ Goes(l, "wait") \/ Goes(l, "fetch")
    BY <1>3 DEF Follow, Reclaim
  <2>2. cache' = cache
    BY <1>3 DEF Follow, Reclaim
  <2> QED BY <2>1, <2>2, <1>goes, <1>ends, <1>same DEF LookPlaces
<1>4. ASSUME NEW l \in Lookups, Answered(l) PROVE AnswersInv' /\ (cache'.ver >= cache.ver \/ extra > 0)
  <2>1. cache' = cache /\ look'[l].got = source /\ look'[l].prev = look[l].prev
    BY <1>4, <1>t DEF Answered, Reading
  <2>2. \A m \in Lookups \ {l} : look'[m] = look[m]
    BY <1>4, <1>t DEF Answered
  <2> QED BY <2>1, <2>2, <1>t, <1>0 DEF AnswersInv
<1>5. ASSUME NEW l \in Lookups, Put(l) PROVE AnswersInv' /\ (cache'.ver >= cache.ver \/ extra > 0)
  <2>0. CASE cache' = cache
    BY <1>5, <2>0, <1>ends, <1>same DEF Put
  <2> SUFFICES ASSUME cache' # cache PROVE AnswersInv' /\ (cache'.ver >= cache.ver \/ extra > 0)
    BY <2>0
  <2>1. cache'.ver = look[l].got /\ look[l].pc = "put" /\ extra' = extra /\ look'[l] = Resting
    BY <1>5, <1>t DEF Put, Ends
  <2>2. \A m \in Lookups \ {l} : look'[m] = look[m]
    BY <1>5, <1>t DEF Put, Ends
  <2>3. extra = 0 => \A m \in Lookups \ {l} : look[m].pc # "put"
    BY <2>1 DEF OnlyLeader, Fetchers
  <2>4. extra = 0 => cache'.ver >= cache.ver
    BY <2>1 DEF AnswersInv
  <2>5. cache'.ver \in 0..source /\ Resting.prev = 0 /\ Resting.pc # "put"
    BY <2>1, <1>t DEF Resting, Nothing
  <2> QED BY <2>1, <2>2, <2>3, <2>4, <2>5, <1>t DEF AnswersInv
<1>6. ASSUME NEW p \in Procs, Die(p) PROVE AnswersInv' /\ (cache'.ver >= cache.ver \/ extra > 0)
  BY <1>6, <1>t, <1>same DEF Die
<1>7. ASSUME Change \/ Expire \/ Slow \/ (\E v \in Views : Ask(v)) \/ UNCHANGED fvars
      PROVE  AnswersInv' /\ (cache'.ver >= cache.ver \/ extra > 0)
  <2>1. cache'.ver = cache.ver /\ look' = look
    BY <1>7 DEF Change, Expire, Slow, Ask, fvars, FeedTypeOK
  <2> QED BY <2>1, <1>same
<1> QED BY <1>1, <1>2, <1>3, <1>4, <1>5, <1>6, <1>7, <1>8 DEF FeedNext

\* What a view shows once it was answered: the answer, or what it showed if there was none.
LEMMA SettledStep ==
  ASSUME FeedTypeOK, NEW l \in Lookups, NEW ver \in 0..source, Settle(l, ver)
  PROVE  /\ \A v \in Views \ {ViewOf[l]} : screen'[v] = screen[v]
         /\ screen'[ViewOf[l]] = IF ver = Nothing THEN screen[ViewOf[l]] ELSE ver
BY FeedBounds DEF FeedTypeOK, Settle

\* A view is read once at a time, and every answer a read can come to is no older than what its view shows.
LEMMA ScreenStep ==
  FeedTypeOK /\ AnswersInv /\ AnswersInv' /\ ScreenInv /\ [FeedNext]_fvars
    /\ (cache'.ver >= cache.ver \/ extra > 0)
    => /\ ScreenInv'
       /\ \A v \in Views : screen'[v] >= screen[v] \/ screen'[v] = Nothing \/ extra > 0 \/ unsaved
<1> DEFINE Forward == \A v \in Views : screen'[v] >= screen[v] \/ screen'[v] = Nothing \/ extra > 0 \/ unsaved
           Found(l) == look[l].prev = Nothing \/ look[l].prev >= screen[ViewOf[l]]
           Early == {"idle", "pass", "look"}
<1> SUFFICES ASSUME FeedTypeOK, AnswersInv, AnswersInv', ScreenInv, [FeedNext]_fvars,
                    cache'.ver >= cache.ver \/ extra > 0
             PROVE  ScreenInv' /\ Forward
  OBVIOUS
<1> USE FeedBounds
<1>t. /\ look \in [Lookups -> Reading] /\ source \in Nat /\ cache.ver \in 0..source /\ extra \in Nat
      /\ extra' >= extra /\ (unsaved => unsaved')
      /\ \A l \in Lookups : /\ look[l].prev \in 0..source /\ look[l].got \in 0..source
                            /\ ViewOf[l] \in Views
      /\ screen \in [Views -> 0..source] /\ \A v \in Views : screen[v] \in 0..source
  BY FeedCounts DEF FeedTypeOK, Reading, LookPlaces
<1>0. extra' \in Nat /\ cache'.ver \in Nat /\ \A v \in Views : screen'[v] \in Nat
  BY FeedTypeStep DEF FeedTypeOK
\* One flight at a time: only a start can break it.
<1>1. SingleFlight'
  <2> DEFINE Alone(l) == \A m \in Lookups : ViewOf[m] = ViewOf[l] => look[m].pc = "idle" /\ (m # l => look'[m] = look[m])
             Flies == \A l \in Lookups : look'[l].pc # "idle" => look[l].pc # "idle" \/ Alone(l)
  <2>1. Flies
    <3>goes. ASSUME NEW l \in Lookups, NEW pc, Goes(l, pc) PROVE \A m \in Lookups \ {l} : look'[m] = look[m]
      BY <3>goes, <1>t DEF Goes
    <3>ends. ASSUME NEW l \in Lookups, Ends(l) PROVE \A m \in Lookups : look'[m] = look[m] \/ look'[m].pc = "idle"
      BY <3>ends, <1>t DEF Ends, Resting
    <3>1. ASSUME NEW l \in Lookups, Start(l) PROVE Flies
      <4>1. Goes(l, "pass") \/ Goes(l, "look")
        BY <3>1 DEF Start
      <4>2. \A m \in Lookups \ {l} : look'[m] = look[m]
        BY <4>1, <3>goes
      <4> QED BY <3>1, <4>2 DEF Start
    <3>2. ASSUME NEW l \in Lookups, look[l].pc # "idle", \A m \in Lookups \ {l} : look'[m] = look[m] PROVE Flies
      BY <3>2
    <3>3. ASSUME NEW l \in Lookups, Pass(l) \/ Lead(l) \/ WaitFreed(l) \/ WaitEnds(l) PROVE Flies
      <4>1. look[l].pc # "idle" /\ \E pc : Goes(l, pc)
        BY <3>3 DEF Pass, Lead, WaitFreed, WaitEnds
      <4>2. \A m \in Lookups \ {l} : look'[m] = look[m]
        BY <4>1, <3>goes
      <4> QED BY <4>1, <4>2, <3>2
    <3>4. ASSUME NEW l \in Lookups, Look(l) \/ Answered(l) PROVE Flies
      <4>1. look[l].pc # "idle"
        BY <3>4 DEF Look, Answered
      <4>2. \A m \in Lookups \ {l} : look'[m] = look[m]
        BY <3>4, <1>t DEF Look, Answered, Ends
      <4> QED BY <4>1, <4>2, <3>2
    <3>5. ASSUME NEW l \in Lookups, Unread(l) \/ WaitSees(l) \/ Put(l) \/ Fail(l) PROVE Flies
      BY <3>5, <3>ends DEF Unread, WaitSees, Put, Fail
    <3>6. ASSUME NEW l \in Lookups, Follow(l) \/ Reclaim(l) PROVE Flies
      <4>1. look[l].pc # "idle" /\ (Ends(l) \/ Goes(l, "wait") \/ Goes(l, "fetch"))
        BY <3>6 DEF Follow, Reclaim
      <4>2. CASE Ends(l)
        BY <4>2, <3>ends
      <4>3. CASE Goes(l, "wait") \/ Goes(l, "fetch")
        BY <4>1, <4>3, <3>goes, <3>2
      <4> QED BY <4>1, <4>2, <4>3
    <3>7. ASSUME NEW p \in Procs, Die(p) PROVE Flies
      BY <3>7, <1>t DEF Die, Resting
    <3>8. ASSUME Change \/ Expire \/ Slow \/ (\E v \in Views : Ask(v)) \/ UNCHANGED fvars PROVE Flies
      BY <3>8 DEF Change, Expire, Slow, Ask, fvars
    <3> QED BY <3>1, <3>3, <3>4, <3>5, <3>6, <3>7, <3>8 DEF FeedNext
  <2> QED BY <2>1 DEF ScreenInv, SingleFlight
<1>2. ~Undisturbed => ScreenInv' /\ Forward
  BY <1>1, <1>t, <1>0 DEF Undisturbed, ScreenInv
<1> SUFFICES ASSUME Undisturbed PROVE ScreenInv' /\ Forward
  BY <1>2
<1>3. cache'.ver >= cache.ver
  BY DEF Undisturbed
<1>i. /\ \A v \in Views : screen[v] <= cache.ver
      /\ \A l \in Lookups : look[l].pc \notin Early => Found(l)
      /\ \A l \in Lookups : \A m \in Lookups :
           look[l].pc # "idle" /\ look[m].pc # "idle" /\ ViewOf[m] = ViewOf[l] => m = l
  BY DEF ScreenInv, SingleFlight
\* A step that leaves the views alone.
<1>same. ASSUME screen' = screen,
                \A l \in Lookups : \/ look'[l] = look[l] \/ look'[l].pc \in Early
                                   \/ look'[l].prev >= screen[ViewOf[l]]
                                   \/ look[l].pc \notin Early /\ look'[l].prev = look[l].prev
         PROVE  ScreenInv' /\ Forward
  <2>1. Forward
    BY <1>same, <1>t
  <2>2. \A v \in Views : screen'[v] <= cache'.ver
    BY <1>same, <1>i, <1>3, <1>t, <1>0
  <2>3. \A l \in Lookups : look'[l].pc \notin Early =>
          look'[l].prev = Nothing \/ look'[l].prev >= screen'[ViewOf[l]]
    BY <1>same, <1>i
  <2> QED BY <1>1, <2>1, <2>2, <2>3 DEF ScreenInv
\* An answer: the read is over, or has not looked yet.
<1>settled. ASSUME NEW l \in Lookups, NEW ver \in 0..source, look[l].pc # "idle", look'[l].pc \in Early,
                   \A m \in Lookups \ {l} : look'[m] = look[m], Settle(l, ver),
                   ver = Nothing \/ ver >= screen[ViewOf[l]], unsaved' \/ ver <= cache'.ver
            PROVE  ScreenInv' /\ Forward
  <2>1. /\ \A v \in Views \ {ViewOf[l]} : screen'[v] = screen[v]
        /\ screen'[ViewOf[l]] = IF ver = Nothing THEN screen[ViewOf[l]] ELSE ver
    BY <1>settled, <1>t, SettledStep
  <2>2. /\ screen'[ViewOf[l]] >= screen[ViewOf[l]]
        /\ unsaved' \/ screen'[ViewOf[l]] <= cache'.ver
    BY <2>1, <1>settled, <1>t, <1>0, <1>i, <1>3
  <2>3. Forward
    BY <2>1, <2>2, <1>t
  <2>4. ASSUME NEW m \in Lookups, look'[m].pc \notin Early
        PROVE  look'[m].prev = Nothing \/ look'[m].prev >= screen'[ViewOf[m]]
    <3>1. m # l /\ look'[m] = look[m] /\ look[m].pc # "idle"
      BY <1>settled, <2>4
    <3>2. ViewOf[m] # ViewOf[l] /\ ViewOf[m] \in Views
      BY <3>1, <1>i, <1>settled, <1>t
    <3> QED BY <3>1, <3>2, <2>1, <2>4, <1>i
  <2>5. unsaved' \/ \A v \in Views : screen'[v] <= cache'.ver
    BY <2>1, <2>2, <1>i, <1>t, <1>0, <1>3
  <2> HIDE DEF Forward
  <2> QED BY <1>1, <2>3, <2>4, <2>5 DEF ScreenInv, Undisturbed
<1>ends. ASSUME NEW l \in Lookups, Ends(l)
         PROVE  look'[l].pc \in Early /\ \A m \in Lookups \ {l} : look'[m] = look[m]
  BY <1>ends, <1>t DEF Ends, Resting
<1>goes. ASSUME NEW l \in Lookups, NEW pc, Goes(l, pc)
         PROVE  /\ look'[l].pc = pc /\ look'[l].prev = look[l].prev
                /\ \A m \in Lookups \ {l} : look'[m] = look[m]
  BY <1>goes, <1>t DEF Goes, Reading
<1> HIDE DEF Forward
<1>4. ASSUME NEW l \in Lookups, Start(l) PROVE ScreenInv' /\ Forward
  <2>1. (Goes(l, "pass") \/ Goes(l, "look")) /\ screen' = screen
    BY <1>4 DEF Start
  <2>2. look'[l].pc \in Early /\ \A m \in Lookups \ {l} : look'[m] = look[m]
    BY <2>1, <1>goes
  <2> QED BY <2>1, <2>2, <1>same
<1>13. ASSUME NEW l \in Lookups, Pass(l) PROVE ScreenInv' /\ Forward
  <2>1. look[l].pc = "pass" /\ Goes(l, "look") /\ Settle(l, cache.ver) /\ cache' = cache
    BY <1>13 DEF Pass
  <2>2. look'[l].pc \in Early /\ \A m \in Lookups \ {l} : look'[m] = look[m]
    BY <2>1, <1>goes
  <2>3. cache.ver >= screen[ViewOf[l]] /\ cache.ver <= cache'.ver
    BY <1>i, <1>t, <2>1
  <2> QED BY <2>1, <2>2, <2>3, <1>t, <1>settled
<1>5. ASSUME NEW l \in Lookups, Look(l) PROVE ScreenInv' /\ Forward
  <2>1. CASE cache.fresh
    <3>1. look[l].pc = "look" /\ Ends(l) /\ Settle(l, cache.ver) /\ cache' = cache
      BY <1>5, <2>1 DEF Look
    <3>2. cache.ver >= screen[ViewOf[l]] /\ cache.ver <= cache'.ver
      BY <1>i, <1>t, <3>1
    <3> QED BY <3>1, <3>2, <1>ends, <1>t, <1>settled
  <2>2. CASE ~cache.fresh
    <3>1. PICK r : r = [pc |-> "claim", prev |-> cache.ver, got |-> Nothing]
      OBVIOUS
    <3>2. look' = [look EXCEPT ![l] = r] /\ r.prev = cache.ver /\ screen' = screen
      BY <1>5, <2>2, <3>1 DEF Look
    <3>3. \A m \in Lookups : look'[m] = IF m = l THEN r ELSE look[m]
      BY <3>2, <1>t
    <3>4. r.prev >= screen[ViewOf[l]]
      BY <3>2, <1>i, <1>t
    <3> QED BY <3>2, <3>3, <3>4, <1>same
  <2> QED BY <2>1, <2>2
<1>6. ASSUME NEW l \in Lookups, Lead(l) \/ WaitFreed(l) \/ WaitEnds(l) PROVE ScreenInv' /\ Forward
  <2>1. \E pc : Goes(l, pc)
    BY <1>6 DEF Lead, WaitFreed, WaitEnds
  <2>2. screen' = screen /\ look[l].pc \notin Early
    BY <1>6 DEF Lead, WaitFreed, WaitEnds
  <2> QED BY <2>1, <2>2, <1>goes, <1>same
<1>7. ASSUME NEW l \in Lookups, Follow(l) PROVE ScreenInv' /\ Forward
  <2>0. look[l].pc = "claim" /\ look[l].prev <= cache.ver /\ Found(l)
    BY <1>7, <1>i DEF Follow, AnswersInv, Undisturbed
  <2>1. CASE look[l].prev # Nothing
    <3>1. Ends(l) /\ Settle(l, look[l].prev)
      BY <1>7, <2>1 DEF Follow
    <3>2. look[l].prev <= cache'.ver /\ look[l].prev >= screen[ViewOf[l]]
      BY <2>0, <2>1, <1>t, <1>0, <1>3
    <3> QED BY <2>0, <3>1, <3>2, <1>t, <1>ends, <1>settled
  <2>2. CASE look[l].prev = Nothing
    BY <1>7, <2>0, <2>2, <1>goes, <1>same DEF Follow
  <2> QED BY <2>1, <2>2
<1>8. ASSUME NEW l \in Lookups, WaitSees(l) PROVE ScreenInv' /\ Forward
  <2>1. look[l].pc = "wait" /\ Ends(l) /\ Settle(l, cache.ver) /\ cache' = cache
    BY <1>8 DEF WaitSees
  <2>2. cache.ver >= screen[ViewOf[l]] /\ cache.ver <= cache'.ver
    BY <1>i, <1>t, <2>1
  <2> QED BY <2>1, <2>2, <1>ends, <1>t, <1>settled
<1>9. ASSUME NEW l \in Lookups, Reclaim(l) \/ Unread(l) PROVE ScreenInv' /\ Forward
  <2>1. CASE Goes(l, "fetch") /\ screen' = screen /\ look[l].pc \notin Early
    BY <2>1, <1>goes, <1>same
  <2>2. CASE look[l].pc # "idle" /\ Ends(l) /\ Settle(l, Nothing)
    <3>1. Nothing \in 0..source /\ Nothing <= cache'.ver
      BY <1>t, <1>0 DEF Nothing
    <3> QED BY <2>2, <3>1, <1>ends, <1>settled
  <2> QED BY <1>9, <2>1, <2>2 DEF Reclaim, Unread
<1>10. ASSUME NEW l \in Lookups, Answered(l) PROVE ScreenInv' /\ Forward
  <2>1. look'[l].prev = look[l].prev /\ look[l].pc = "fetch" /\ screen' = screen
    BY <1>10, <1>t DEF Answered, Reading
  <2>2. \A m \in Lookups \ {l} : look'[m] = look[m]
    BY <1>10, <1>t DEF Answered
  <2> QED BY <2>1, <2>2, <1>same
<1>11. ASSUME NEW l \in Lookups, Put(l) PROVE ScreenInv' /\ Forward
  <2>1. look[l].pc = "put" /\ Ends(l) /\ Settle(l, look[l].got) /\ (unsaved' \/ cache'.ver = look[l].got)
    BY <1>11 DEF Put
  <2>2. look[l].got >= cache.ver
    BY <2>1 DEF AnswersInv, Undisturbed
  <2>3. look[l].got >= screen[ViewOf[l]] /\ (unsaved' \/ look[l].got <= cache'.ver)
    BY <2>1, <2>2, <1>i, <1>t, <1>0
  <2> QED BY <2>1, <2>3, <1>t, <1>ends, <1>settled
<1>12. ASSUME NEW l \in Lookups, Fail(l) PROVE ScreenInv' /\ Forward
  <2>1. look[l].pc = "fetch" /\ Ends(l) /\ Settle(l, look[l].prev)
    BY <1>12 DEF Fail
  <2>2. look[l].prev <= cache'.ver
    BY <1>3, <1>t, <1>0 DEF AnswersInv, Undisturbed
  <2> QED BY <2>1, <2>2, <1>i, <1>t, <1>ends, <1>settled
<1>14. ASSUME NEW p \in Procs, Die(p) PROVE ScreenInv' /\ Forward
  <2>1. /\ \A v \in Views : screen'[v] = IF ProcOf[v] = p THEN Nothing ELSE screen[v]
        /\ \A l \in Lookups : look'[l] = IF Home(l) = p THEN Resting ELSE look[l]
    BY <1>14, <1>t DEF Die
  <2>2. Resting.pc = "idle" /\ Nothing = 0
    BY DEF Resting, Nothing
  <2>3. Forward
    BY <2>1, <1>t DEF Forward
  <2>4. \A v \in Views : screen'[v] <= cache'.ver
    BY <2>1, <2>2, <1>i, <1>t, <1>0, <1>3
  <2>5. \A l \in Lookups : look'[l].pc # "idle" => look'[l] = look[l] /\ screen'[ViewOf[l]] = screen[ViewOf[l]]
    BY <2>1, <2>2, <1>t DEF Home
  <2>6. \A l \in Lookups : look'[l].pc \notin Early =>
          look'[l].prev = Nothing \/ look'[l].prev >= screen'[ViewOf[l]]
    BY <2>5, <1>i
  <2> QED BY <1>1, <2>3, <2>4, <2>6 DEF ScreenInv
<1>15. ASSUME Change \/ Expire \/ Slow \/ (\E v \in Views : Ask(v)) \/ UNCHANGED fvars PROVE ScreenInv' /\ Forward
  <2>1. screen' = screen /\ look' = look
    BY <1>15 DEF Change, Expire, Slow, Ask, fvars
  <2> QED BY <2>1, <1>same
<1> QED BY <1>4, <1>5, <1>6, <1>7, <1>8, <1>9, <1>10, <1>11, <1>12, <1>13, <1>14, <1>15 DEF FeedNext

\* The inductive invariant of the feed.
THEOREM FeedInvariant == FeedSpec => []FeedInv
<1>1. FeedInit => FeedInv
  <2> SUFFICES ASSUME FeedInit PROVE FeedInv
    OBVIOUS
  <2> USE FeedBounds DEF FeedInit, Resting, NoLease, Nothing
  <2>1. FeedTypeOK
    <3>1. source = 1 /\ 0 \in 0..source /\ source \in Nat \ {0}
      OBVIOUS
    <3>2. /\ look \in [Lookups -> Reading] /\ screen \in [Views -> 0..source]
          /\ cache \in [ver : 0..source, fresh : BOOLEAN]
      BY <3>1 DEF Reading, LookPlaces
    <3>3. lease \in [by : Lookups \cup {NoLookup}, old : BOOLEAN, gone : BOOLEAN]
      OBVIOUS
    <3> QED BY <3>1, <3>2, <3>3 DEF FeedTypeOK, Reading, LookPlaces
  <2>2. Fetchers = {} /\ ~Led
    BY DEF Fetchers, Led
  <2>3. LeaderInv /\ OnlyLeader /\ FetchersInv
    BY <2>2, FS_EmptySet DEF LeaderInv, OnlyLeader, FetchersInv
  <2>4. AnswersInv /\ ScreenInv
    BY DEF AnswersInv, ScreenInv, SingleFlight
  <2> QED BY <2>1, <2>3, <2>4 DEF FeedInv
<1>2. FeedInv /\ [FeedNext]_fvars => FeedInv'
  BY FeedTypeStep, FetchersStep, AnswersStep, ScreenStep DEF FeedInv
<1> QED BY <1>1, <1>2, PTL DEF FeedSpec

\* Terminals that need a feed at the same moment ask for it once, however many there are: beyond one,
\* a request is under way only for a lease taken over alive or a database that would not answer
\* (claim_fetch, DataCtx::cached).
THEOREM FeedAsksOnce == FeedSpec => []OneFetcher
<1>1. FeedInv => OneFetcher
  <2> SUFFICES ASSUME FeedInv PROVE OneFetcher
    OBVIOUS
  <2>1. extra \in Nat /\ Cardinality(Fetchers) \in Nat
    BY FeedBounds, FS_Subset, FS_CardinalityType DEF FeedInv, FeedTypeOK, Fetchers
  <2>2. Cardinality(Fetchers) <= 1 + extra
    BY <2>1 DEF FeedInv, FetchersInv
  <2> QED BY <2>2 DEF OneFetcher, Fetchers
<1> QED BY <1>1, FeedInvariant, PTL

\* The shared row never goes back to an older answer while no lease was taken over alive.
THEOREM FeedRowMovesForward == FeedSpec => CacheMovesForward
<1>1. FeedInv /\ [FeedNext]_fvars => [cache'.ver >= cache.ver \/ extra > 0]_fvars
  BY AnswersStep DEF FeedInv
<1> QED BY <1>1, FeedInvariant, PTL DEF FeedSpec, CacheMovesForward

\* What a view shows never goes back to an older answer while its process lives, however often it is
\* asked for meanwhile and whoever else reads the feed; unless a lease was taken over alive or an answer
\* could not be saved (run's flying, cache_pass, settle).
THEOREM FeedScreensMoveForward == FeedSpec => ScreenMovesForward
<1>1. FeedInv /\ [FeedNext]_fvars
        => [\A v \in Views : screen'[v] >= screen[v] \/ screen'[v] = Nothing \/ extra > 0 \/ unsaved]_fvars
  BY AnswersStep, ScreenStep DEF FeedInv
<1> QED BY <1>1, FeedInvariant, PTL DEF FeedSpec, ScreenMovesForward

-----------------------------------------------------------------------------
(* The link to an engine. *)

\* Configurations are counted by what was asked; an engine that lives has a number.
LinkCounts == shown.conf <= asked /\ (engine.up => engine.gen # NoEngine)

\* Along the outbox, from what the client saw last to what the screens show: only a switch changes
\* the wallet, only a configuration the configuration, and that one grows.
WalletTrail ==
  /\ Switches = {} => shown.wallet = at
  /\ \A i \in Switches : (\A j \in Switches : j <= i) => outbox[i].wallet = shown.wallet
Before(c, box, i) == IF i = 1 THEN c ELSE box[i - 1].conf
ConfTrail ==
  /\ \A i \in 1..Len(outbox) : /\ outbox[i].conf >= Before(configured, outbox, i)
                               /\ outbox[i].kind # "configure" => outbox[i].conf = Before(configured, outbox, i)
  /\ shown.conf = Before(configured, outbox, Len(outbox) + 1)

\* Only requests are kept, and none asked under a configuration the client has not seen.
Kept(s) == \A i \in 1..Len(s) : s[i].kind = "read" /\ s[i].conf <= configured
HeldInv == Kept(held)

\* An engine is on the wallet the client tracks, and in the configuration the client saw once it
\* heard the replay, which starts with it.
ReplayInv ==
  link = "replay" => \A i \in 1..Len(replaying) :
    \/ replaying[i].kind = "read" /\ replaying[i].conf <= configured
    \/ i = 1 /\ replaying[i].kind = "configure" /\ replaying[i].conf = configured
EngineInv ==
  Attached /\ engine.up =>
    /\ engine.wallet = at
    /\ \/ engine.conf = configured
       \/ link = "replay" /\ replaying # <<>> /\ replaying[1].kind = "configure"

\* What waits was asked of this engine or of none; between engines, of none.
GenInv ==
  /\ Attached => \A i \in 1..Len(outbox) : outbox[i].gen \in {NoEngine, engine.gen}
  /\ link \in {"pause", "dial"} => \A i \in 1..Len(outbox) : outbox[i].gen = NoEngine

LinkInv == /\ LinkTypeOK /\ LinkCounts /\ WalletTrail /\ ConfTrail /\ HeldInv /\ ReplayInv /\ EngineInv
           /\ GenInv /\ ReadsAreConfigured /\ NothingOutlivesItsEngine

Kinds == {"switch", "command", "unlock", "read", "configure"}
EngineState == [gen : 0..MaxEngines, up : BOOLEAN, wallet : Wallets, conf : 0..MaxAsked]
Hearing == [msg : Msg, by : 1..MaxEngines, conf : 0..MaxAsked]

\* What becomes of an outbox, message by message.
LEMMA TailOf ==
  ASSUME NEW S, NEW s \in Seq(S), s # <<>>
  PROVE  /\ Tail(s) \in Seq(S) /\ Head(s) = s[1] /\ Head(s) \in S
         /\ Len(s) \in Nat /\ Len(s) >= 1 /\ Len(Tail(s)) = Len(s) - 1
         /\ \A i \in 1..(Len(s) - 1) : Tail(s)[i] = s[i + 1]
BY HeadTailProperties, LenProperties, EmptySeq

\* A message is one of the kinds told apart, from a screen, for a wallet, under a configuration.
LEMMA MessageType ==
  ASSUME LinkTypeOK, NEW kind \in Kinds, NEW wallet \in Wallets, NEW conf \in 0..MaxAsked
  PROVE  /\ Message(kind, wallet, conf) \in Msg
         /\ Message(kind, wallet, conf).kind = kind /\ Message(kind, wallet, conf).conf = conf
         /\ Message(kind, wallet, conf).wallet = wallet
         /\ Message(kind, wallet, conf).gen = IF Attached THEN engine.gen ELSE NoEngine
<1>1. engine.gen \in 0..MaxEngines /\ NoEngine \in 0..MaxEngines
  BY LinkBounds DEF LinkTypeOK, NoEngine
<1> QED BY <1>1 DEF Message, Msg, Kinds, Commands

\* What an engine takes leaves it, and what was heard, in type.
LEMMA TakesType ==
  ASSUME LinkTypeOK, LinkCounts, NEW m \in Msg, EngineTakes(m)
  PROVE  engine' \in EngineState /\ heard' \in SUBSET Hearing
<1>1. engine \in EngineState /\ heard \in SUBSET Hearing
  BY DEF LinkTypeOK, EngineState, Hearing
<1>2. m.wallet \in Wallets /\ m.conf \in 0..MaxAsked
  BY DEF Msg
<1>3. CASE ~engine.up
  BY <1>1, <1>3 DEF EngineTakes
<1>4. CASE engine.up
  <2>1. engine.gen \in 1..MaxEngines
    BY <1>1, <1>4, LinkBounds DEF LinkCounts, EngineState, NoEngine
  <2>2. [msg |-> m, by |-> engine.gen, conf |-> engine.conf] \in Hearing
    BY <1>1, <2>1 DEF Hearing, EngineState
  <2>3. engine' \in {[engine EXCEPT !.wallet = m.wallet], [engine EXCEPT !.conf = m.conf], engine}
    BY <1>4 DEF EngineTakes
  <2>4. [engine EXCEPT !.wallet = m.wallet] \in EngineState /\ [engine EXCEPT !.conf = m.conf] \in EngineState
    BY <1>1, <1>2 DEF EngineState
  <2> QED BY <1>1, <1>4, <2>2, <2>3, <2>4 DEF EngineTakes
<1> QED BY <1>3, <1>4

\* What is kept is bounded and of messages.
LEMMA HoldType ==
  ASSUME LinkTypeOK, NEW m \in Msg, Hold(m)
  PROVE  held' \in Seq(Msg) /\ Len(held') <= DataHeld
<1>1. held \in Seq(Msg) /\ Len(held) <= DataHeld /\ Len(held) \in Nat /\ DataHeld \in Nat \ {0}
  BY LinkBounds, LenProperties DEF LinkTypeOK
<1>2. Append(held, m) \in Seq(Msg) /\ Len(Append(held, m)) = Len(held) + 1
  BY <1>1, AppendProperties
<1>3. Append(held, m) # <<>>
  BY <1>1, <1>2
<1>4. Tail(Append(held, m)) \in Seq(Msg) /\ Len(Tail(Append(held, m))) = Len(held)
  BY <1>1, <1>2, <1>3, TailOf
<1> QED BY <1>1, <1>2, <1>4 DEF Hold, Newest

\* Every message, connection and death keeps the link's variables in their types.
LEMMA LinkTypeStep == LinkTypeOK /\ LinkCounts /\ [LinkNext]_lvars => LinkTypeOK' /\ LinkCounts'
<1> SUFFICES ASSUME LinkTypeOK, LinkCounts, [LinkNext]_lvars PROVE LinkTypeOK' /\ LinkCounts'
  OBVIOUS
<1> USE LinkBounds
<1>t. /\ shown \in [wallet : Wallets, conf : 0..MaxAsked] /\ asked \in 0..MaxAsked /\ shown.conf <= asked
      /\ outbox \in Seq(Msg) /\ held \in Seq(Msg) /\ replaying \in Seq(Msg) /\ Len(held) <= DataHeld
      /\ link \in {"dial", "replay", "relay", "drain", "pause", "closed"} /\ at \in Wallets
      /\ configured \in 0..MaxAsked /\ engine \in EngineState /\ heard \in SUBSET Hearing
      /\ (engine.up => engine.gen # NoEngine)
  BY DEF LinkTypeOK, LinkCounts, EngineState, Hearing
<1>end. ASSUME shown' \in [wallet : Wallets, conf : 0..MaxAsked], asked' \in 0..MaxAsked, shown'.conf <= asked',
               outbox' \in Seq(Msg), held' \in Seq(Msg), replaying' \in Seq(Msg), Len(held') <= DataHeld,
               link' \in {"dial", "replay", "relay", "drain", "pause", "closed"}, at' \in Wallets,
               configured' \in 0..MaxAsked, engine' \in EngineState, heard' \in SUBSET Hearing,
               engine'.up => engine'.gen # NoEngine
        PROVE  LinkTypeOK' /\ LinkCounts'
  BY <1>end DEF LinkTypeOK, LinkCounts, EngineState, Hearing
<1>track. ASSUME NEW m \in Msg, Track(m) PROVE at' \in Wallets
  BY <1>track, <1>t DEF Track, Msg
<1>saw. ASSUME NEW m \in Msg, Saw(m) PROVE configured' \in 0..MaxAsked
  BY <1>saw, <1>t DEF Saw, Msg
<1>up. ASSUME NEW m \in Msg, EngineTakes(m)
       PROVE  engine' \in EngineState /\ heard' \in SUBSET Hearing /\ (engine'.up => engine'.gen # NoEngine)
  <2>1. engine' \in EngineState /\ heard' \in SUBSET Hearing
    BY <1>up, TakesType
  <2>2. engine'.up = engine.up /\ engine'.gen = engine.gen
    BY <1>up, <1>t DEF EngineTakes, EngineState
  <2> QED BY <2>1, <2>2, <1>t
<1>1. ASSUME NEW kind \in Kinds, NEW wallet \in Wallets, NEW conf \in {shown.conf, shown.conf + 1},
             Asks(kind, wallet, conf)
      PROVE  LinkTypeOK' /\ LinkCounts'
  <2>1. asked' = asked + 1 /\ asked' \in 0..MaxAsked /\ conf \in 0..MaxAsked /\ conf <= asked'
    BY <1>1, <1>t DEF Asks
  <2>2. outbox' \in Seq(Msg)
    BY <1>1, <2>1, <1>t, MessageType, AppendProperties DEF Asks
  <2> QED BY <1>1, <1>t, <2>1, <2>2, <1>end DEF Asks
<1>2. ASSUME Dial PROVE LinkTypeOK' /\ LinkCounts'
  <2>1. engine' \in EngineState /\ engine'.gen # NoEngine
    BY <1>2, <1>t DEF Dial, EngineState, NoEngine
  <2>2. <<Message("configure", at, configured)>> \in Seq(Msg) /\ <<>> \in Seq(Msg)
    <3>1. Message("configure", at, configured) \in Msg
      BY <1>t, MessageType DEF Kinds
    <3> QED BY <3>1
  <2>3. replaying' \in Seq(Msg)
    BY <1>2, <1>t, <2>2, ConcatProperties DEF Dial, Replay
  <2> QED BY <1>2, <1>t, <2>1, <2>2, <2>3, <1>end DEF Dial
<1>3. ASSUME DialFails \/ ReplayDone \/ EngineLost \/ Drained \/ Close \/ UNCHANGED lvars
      PROVE  LinkTypeOK' /\ LinkCounts'
  BY <1>3, <1>t, <1>end DEF DialFails, ReplayDone, EngineLost, Drained, Close, lvars
<1>4. ASSUME ReplayOne PROVE LinkTypeOK' /\ LinkCounts'
  BY <1>4, <1>t, <1>up, <1>end, TailOf DEF ReplayOne
<1>5. ASSUME ReplayFails PROVE LinkTypeOK' /\ LinkCounts'
  BY <1>5, <1>t, <1>end DEF ReplayFails
<1>6. ASSUME Relay PROVE LinkTypeOK' /\ LinkCounts'
  BY <1>6, <1>t, <1>up, <1>track, <1>saw, <1>end, TailOf DEF Relay
<1>7. ASSUME RelayFails \/ Drain PROVE LinkTypeOK' /\ LinkCounts'
  BY <1>7, <1>t, <1>track, <1>saw, <1>end, TailOf, HoldType DEF RelayFails, Drain, TurnAway
<1>8. ASSUME Pause PROVE LinkTypeOK' /\ LinkCounts'
  BY <1>8, <1>t, <1>track, <1>saw, <1>end, TailOf, HoldType DEF Pause, TurnAway
<1>9. ASSUME EngineDies PROVE LinkTypeOK' /\ LinkCounts'
  <2>1. engine' \in EngineState /\ ~engine'.up
    BY <1>9, <1>t DEF EngineDies, EngineState
  <2> QED BY <1>9, <1>t, <2>1, <1>end DEF EngineDies
<1>10. ASSUME NEW kind \in {"command", "unlock", "read"}, Sends(kind) PROVE LinkTypeOK' /\ LinkCounts'
  BY <1>10, <1>t, <1>1 DEF Sends, Kinds
<1>11. ASSUME NEW w \in Wallets, SwitchWallet(w) PROVE LinkTypeOK' /\ LinkCounts'
  BY <1>11, <1>t, <1>1 DEF SwitchWallet, Kinds
<1>12. ASSUME Configure PROVE LinkTypeOK' /\ LinkCounts'
  BY <1>12, <1>t, <1>1 DEF Configure, Kinds
<1> QED
  BY <1>2, <1>3, <1>4, <1>5, <1>6, <1>7, <1>8, <1>9, <1>10, <1>11, <1>12 DEF LinkNext

\* What a screen asks continues the trail of what it shows; what the client takes shortens it.
LEMMA TrailAsks ==
  ASSUME LinkTypeOK, WalletTrail, ConfTrail, NEW kind \in Kinds, NEW wallet \in Wallets, NEW conf \in 0..MaxAsked,
         Asks(kind, wallet, conf), kind # "switch" => wallet = shown.wallet,
         conf = IF kind = "configure" THEN shown.conf + 1 ELSE shown.conf
  PROVE  WalletTrail' /\ ConfTrail'
<1>0. PICK n : n = Len(outbox)
  OBVIOUS
<1>1. PICK m : m = Message(kind, wallet, conf)
  OBVIOUS
<1>2. m.kind = kind /\ m.wallet = wallet /\ m.conf = conf /\ m \in Msg
  BY <1>1, MessageType
<1>3. /\ outbox' = Append(outbox, m) /\ shown' = [wallet |-> wallet, conf |-> conf]
      /\ at' = at /\ configured' = configured
  BY <1>1 DEF Asks
<1>4. /\ outbox \in Seq(Msg) /\ n \in Nat /\ shown.conf \in 0..MaxAsked /\ shown.wallet \in Wallets
      /\ configured \in 0..MaxAsked
  BY <1>0, LenProperties DEF LinkTypeOK
<1>5. /\ Len(outbox') = n + 1 /\ outbox'[n + 1] = m /\ \A i \in 1..n : outbox'[i] = outbox[i]
  BY <1>0, <1>2, <1>3, <1>4, AppendProperties
<1>6. \A i \in 1..(n + 1) : Before(configured', outbox', i) = Before(configured, outbox, i)
  BY <1>3, <1>4, <1>5 DEF Before
<1>7. ConfTrail'
  <2>1. /\ shown.conf = Before(configured, outbox, n + 1)
        /\ \A i \in 1..n : /\ outbox[i].conf >= Before(configured, outbox, i)
                           /\ outbox[i].kind # "configure" => outbox[i].conf = Before(configured, outbox, i)
    BY <1>0 DEF ConfTrail
  <2>2. /\ m.conf >= Before(configured, outbox, n + 1)
        /\ (m.kind # "configure" => m.conf = Before(configured, outbox, n + 1))
    BY <1>2, <1>4, <2>1
  <2>3. Before(configured', outbox', n + 2) = conf
    BY <1>2, <1>4, <1>5 DEF Before
  <2>4. shown'.conf = Before(configured', outbox', Len(outbox') + 1)
    BY <1>3, <1>4, <1>5, <2>3
  <2>5. \A i \in 1..(n + 1) : /\ outbox'[i].conf >= Before(configured', outbox', i)
                              /\ outbox'[i].kind # "configure" => outbox'[i].conf = Before(configured', outbox', i)
    <3>1. ASSUME NEW i \in 1..n
          PROVE  /\ outbox'[i].conf >= Before(configured', outbox', i)
                 /\ outbox'[i].kind # "configure" => outbox'[i].conf = Before(configured', outbox', i)
      <4>1. /\ i \in 1..(n + 1) /\ outbox'[i] = outbox[i]
            /\ Before(configured', outbox', i) = Before(configured, outbox, i)
        BY <1>4, <1>5, <1>6
      <4>2. outbox[i].conf >= Before(configured, outbox, i)
        BY <2>1
      <4>3. outbox[i].kind # "configure" => outbox[i].conf = Before(configured, outbox, i)
        BY <2>1
      <4> QED BY <4>1, <4>2, <4>3
    <3>2. /\ outbox'[n + 1].conf >= Before(configured', outbox', n + 1)
          /\ outbox'[n + 1].kind # "configure" => outbox'[n + 1].conf = Before(configured', outbox', n + 1)
      BY <1>4, <1>5, <1>6, <2>2
    <3>3. \A i \in 1..(n + 1) : i \in 1..n \/ i = n + 1
      BY <1>4
    <3> QED BY <3>1, <3>2, <3>3
  <2>6. 1..Len(outbox') = 1..(n + 1)
    BY <1>5
  <2> QED BY <1>4, <1>5, <2>4, <2>5, <2>6 DEF ConfTrail
<1>8. WalletTrail'
  <2>1. Switches' = IF kind = "switch" THEN Switches \cup {n + 1} ELSE Switches
    BY <1>0, <1>2, <1>4, <1>5 DEF Switches
  <2>2. \A i \in Switches : i \in 1..n /\ outbox'[i] = outbox[i]
    BY <1>0, <1>5 DEF Switches
  <2>3. CASE kind = "switch"
    <3>1. ASSUME NEW i \in Switches', \A j \in Switches' : j <= i PROVE i = n + 1
      <4>1. n + 1 <= i /\ (i \in 1..n \/ i = n + 1)
        BY <2>1, <2>2, <2>3, <3>1
      <4> QED BY <1>4, <4>1
    <3> QED BY <1>2, <1>3, <1>5, <2>1, <2>3, <3>1 DEF WalletTrail
  <2>4. CASE kind # "switch"
    <3>1. shown'.wallet = shown.wallet /\ Switches' = Switches /\ at' = at
      BY <1>3, <2>1, <2>4
    <3> QED BY <2>2, <3>1 DEF WalletTrail
  <2> QED BY <2>3, <2>4
<1> QED BY <1>7, <1>8

\* See TrailAsks.
LEMMA TrailTakes ==
  ASSUME LinkTypeOK, WalletTrail, ConfTrail, outbox # <<>>, outbox' = Tail(outbox), Track(Head(outbox)),
         Saw(Head(outbox)), shown' = shown
  PROVE  WalletTrail' /\ ConfTrail' /\ configured' >= configured /\ configured' = Head(outbox).conf
<1>0. PICK n, m : n = Len(outbox) /\ m = outbox[1]
  OBVIOUS
<1>1. /\ Head(outbox) = m /\ m \in Msg /\ n \in Nat /\ n >= 1 /\ Len(outbox') = n - 1
      /\ \A i \in 1..(n - 1) : outbox'[i] = outbox[i + 1]
  BY <1>0, TailOf DEF LinkTypeOK
<1>2. /\ m.conf >= configured /\ (m.kind # "configure" => m.conf = configured)
      /\ configured \in 0..MaxAsked /\ m.conf \in 0..MaxAsked /\ shown.conf = Before(configured, outbox, n + 1)
  BY <1>0, <1>1 DEF ConfTrail, Before, LinkTypeOK, Msg
<1>3. configured' = m.conf
  BY <1>1, <1>2 DEF Saw
<1>4. \A i \in 1..n : outbox[i] \in Msg
  BY <1>0, ElementOfSeq DEF LinkTypeOK
<1>5. \A i \in 1..n : Before(configured', outbox', i) = Before(configured, outbox, i + 1)
  BY <1>1, <1>3 DEF Before
<1>6. ConfTrail'
  <2>1. \A i \in 1..n : /\ outbox[i].conf >= Before(configured, outbox, i)
                        /\ outbox[i].kind # "configure" => outbox[i].conf = Before(configured, outbox, i)
    BY <1>0 DEF ConfTrail
  <2>2. shown'.conf = Before(configured', outbox', n)
    BY <1>1, <1>2, <1>5
  <2>3. \A i \in 1..(n - 1) : i \in 1..n /\ i + 1 \in 1..n
    BY <1>1
  <2>4. \A i \in 1..(n - 1) : /\ outbox'[i].conf >= Before(configured', outbox', i)
                              /\ outbox'[i].kind # "configure" => outbox'[i].conf = Before(configured', outbox', i)
    BY <1>1, <1>5, <2>1, <2>3
  <2>5. (Len(outbox) + 1)' = n
    BY <1>1
  <2>6. 1..Len(outbox') = 1..(n - 1) /\ shown'.conf = Before(configured', outbox', Len(outbox') + 1)
    BY <1>1, <2>2, <2>5
  <2> QED BY <1>1, <2>4, <2>6 DEF ConfTrail
<1>7. WalletTrail'
  <2>1. \A i \in 1..(n - 1) : i \in Switches' <=> i + 1 \in Switches
    BY <1>0, <1>1 DEF Switches
  <2>2. Switches' \subseteq 1..(n - 1) /\ Switches \subseteq 1..n /\ (1 \in Switches <=> m.kind = "switch")
    BY <1>0, <1>1 DEF Switches
  <2>3. at' = IF m.kind = "switch" THEN m.wallet ELSE at
    BY <1>1 DEF Track
  <2>4. Switches' = {} => shown'.wallet = at'
    <3>1. CASE Switches = {}
      BY <2>2, <2>3, <3>1 DEF WalletTrail
    <3>2. CASE Switches # {} /\ Switches' = {}
      <4>1. Switches = {1}
        <5>1. \A j \in Switches : j = 1
          <6> SUFFICES ASSUME NEW j \in Switches, j # 1 PROVE FALSE
            OBVIOUS
          <6>1. j - 1 \in 1..(n - 1) /\ (j - 1) + 1 = j
            BY <1>1, <2>2
          <6> QED BY <2>1, <3>2, <6>1
        <5> QED BY <3>2, <5>1
      <4>2. shown.wallet = m.wallet
        BY <1>0, <4>1 DEF WalletTrail
      <4> QED BY <2>2, <2>3, <4>1, <4>2
    <3> QED BY <3>1, <3>2
  <2>5. ASSUME NEW i \in Switches', \A j \in Switches' : j <= i PROVE outbox'[i].wallet = shown'.wallet
    <3>1. i \in 1..(n - 1) /\ i + 1 \in Switches /\ outbox'[i] = outbox[i + 1]
      BY <1>1, <2>1, <2>2
    <3>2. ASSUME NEW j \in Switches PROVE j <= i + 1
      <4>1. CASE j = 1
        BY <3>1, <4>1
      <4>2. CASE j # 1
        <5>1. j - 1 \in 1..(n - 1) /\ (j - 1) + 1 = j
          BY <1>1, <2>2, <4>2
        <5>2. j - 1 \in Switches'
          BY <2>1, <5>1
        <5> QED BY <2>5, <3>1, <5>1, <5>2
      <4> QED BY <4>1, <4>2
    <3> QED BY <3>1, <3>2 DEF WalletTrail
  <2> QED BY <2>4, <2>5 DEF WalletTrail
<1> QED BY <1>1, <1>2, <1>3, <1>6, <1>7

\* What is kept between engines is requests the client knows the configuration of.
LEMMA HoldsReads ==
  ASSUME LinkTypeOK, HeldInv, NEW m \in Msg, Hold(m), configured' \in Nat, configured' >= configured,
         m.conf <= configured'
  PROVE  HeldInv'
<1>1. /\ held \in Seq(Msg) /\ Len(held) \in Nat /\ configured \in Nat
      /\ \A i \in 1..Len(held) : held[i] \in Msg /\ held[i].kind = "read" /\ held[i].conf <= configured
  BY LinkBounds, LenProperties, ElementOfSeq DEF LinkTypeOK, HeldInv, Kept
<1>2. \A i \in 1..Len(held) : held[i].kind = "read" /\ held[i].conf <= configured'
  BY <1>1 DEF Msg
<1>3. CASE m.kind # "read"
  <2>1. held' = held
    BY <1>3 DEF Hold
  <2> QED BY <1>2, <2>1 DEF HeldInv, Kept
<1>4. CASE m.kind = "read"
  <2>1. PICK s : s = Append(held, m)
    OBVIOUS
  <2>2. /\ s \in Seq(Msg) /\ Len(s) = Len(held) + 1 /\ s # <<>>
        /\ \A i \in 1..Len(held) : s[i] = held[i]
        /\ s[Len(held) + 1] = m
    BY <1>1, <2>1, AppendProperties
  <2>3. \A i \in 1..Len(s) : s[i].kind = "read" /\ s[i].conf <= configured'
    BY <1>1, <1>2, <1>4, <2>2
  <2>4. \A i \in 1..Len(Tail(s)) : Tail(s)[i].kind = "read" /\ Tail(s)[i].conf <= configured'
    <3>1. Len(Tail(s)) = Len(s) - 1 /\ \A i \in 1..(Len(s) - 1) : Tail(s)[i] = s[i + 1]
      BY <2>2, TailOf
    <3>2. \A i \in 1..(Len(s) - 1) : i + 1 \in 1..Len(s)
      BY <1>1, <2>2
    <3> QED BY <2>3, <3>1, <3>2
  <2>5. held' = s \/ held' = Tail(s)
    BY <1>4, <2>1 DEF Hold, Newest
  <2> QED BY <2>3, <2>4, <2>5 DEF HeldInv, Kept
<1> QED BY <1>3, <1>4

\* The first of a list taken: what holds of every message holds of the rest.
LEMMA RestOf ==
  ASSUME NEW S, NEW s \in Seq(S), s # <<>>
  PROVE  \A i \in 1..Len(Tail(s)) : i + 1 \in 1..Len(s) /\ Tail(s)[i] = s[i + 1]
<1>1. /\ Len(s) \in Nat /\ Len(s) >= 1 /\ Len(Tail(s)) = Len(s) - 1
      /\ \A i \in 1..(Len(s) - 1) : Tail(s)[i] = s[i + 1]
  BY TailOf
<1> QED BY <1>1

\* The client's view of an engine, and what waits for it, through every step.
LEMMA EngineStep ==
  /\ LinkTypeOK /\ LinkCounts /\ WalletTrail /\ ConfTrail /\ HeldInv /\ ReplayInv /\ EngineInv /\ GenInv
  /\ ReadsAreConfigured /\ NothingOutlivesItsEngine /\ [LinkNext]_lvars
  => /\ WalletTrail' /\ ConfTrail' /\ HeldInv' /\ ReplayInv' /\ EngineInv' /\ GenInv'
     /\ ReadsAreConfigured' /\ NothingOutlivesItsEngine'
<1> DEFINE Rest == /\ WalletTrail' /\ ConfTrail' /\ HeldInv' /\ ReplayInv' /\ EngineInv' /\ GenInv'
                   /\ ReadsAreConfigured' /\ NothingOutlivesItsEngine'
<1> SUFFICES ASSUME LinkTypeOK, LinkCounts, WalletTrail, ConfTrail, HeldInv, ReplayInv, EngineInv, GenInv,
                    ReadsAreConfigured, NothingOutlivesItsEngine, [LinkNext]_lvars
             PROVE  Rest
  OBVIOUS
<1> USE LinkBounds
<1>t. /\ outbox \in Seq(Msg) /\ held \in Seq(Msg) /\ replaying \in Seq(Msg) /\ at \in Wallets
      /\ configured \in 0..MaxAsked /\ engine \in EngineState /\ heard \in SUBSET Hearing
      /\ engine.gen \in Nat /\ shown.conf \in 0..MaxAsked /\ shown.wallet \in Wallets
  BY DEF LinkTypeOK, EngineState, Hearing
<1>0. configured' \in Nat
  BY LinkTypeStep DEF LinkTypeOK
\* A step of the client that leaves the messages alone.
<1>quiet. ASSUME outbox' = outbox, shown' = shown, at' = at, configured' = configured, held' = held,
                 heard' = heard
          PROVE  WalletTrail' /\ ConfTrail' /\ HeldInv' /\ ReadsAreConfigured' /\ NothingOutlivesItsEngine'
  <2>1. Switches' = Switches
    BY <1>quiet DEF Switches
  <2> QED BY <1>quiet, <2>1 DEF WalletTrail, ConfTrail, HeldInv, Kept, ReadsAreConfigured,
                                NothingOutlivesItsEngine
<1>asks. ASSUME NEW kind \in Kinds, NEW wallet \in Wallets, NEW conf \in 0..MaxAsked,
                Asks(kind, wallet, conf), kind # "switch" => wallet = shown.wallet,
                conf = IF kind = "configure" THEN shown.conf + 1 ELSE shown.conf
         PROVE  Rest
  <2>1. WalletTrail' /\ ConfTrail'
    BY <1>asks, TrailAsks
  <2>2. /\ link' = link /\ at' = at /\ configured' = configured /\ held' = held /\ replaying' = replaying
        /\ engine' = engine /\ heard' = heard
    BY <1>asks DEF Asks
  <2>3. HeldInv' /\ ReplayInv' /\ EngineInv' /\ ReadsAreConfigured' /\ NothingOutlivesItsEngine'
    BY <2>2 DEF HeldInv, Kept, ReplayInv, EngineInv, Attached, ReadsAreConfigured, NothingOutlivesItsEngine
  <2>4. GenInv'
    <3>1. PICK m : m = Message(kind, wallet, conf)
      OBVIOUS
    <3>2. m \in Msg /\ m.gen = IF Attached THEN engine.gen ELSE NoEngine
      BY <3>1, MessageType
    <3>3. outbox' = Append(outbox, m)
      BY <1>asks, <3>1 DEF Asks
    <3>4. /\ Len(outbox) \in Nat /\ Len(outbox') = Len(outbox) + 1 /\ outbox'[Len(outbox) + 1] = m
          /\ \A i \in 1..Len(outbox) : outbox'[i] = outbox[i]
      BY <1>t, <3>2, <3>3, AppendProperties, LenProperties
    <3>5. \A i \in 1..Len(outbox') : i \in 1..Len(outbox) \/ outbox'[i] = m
      BY <3>4
    <3> QED BY <2>2, <3>2, <3>4, <3>5 DEF GenInv, Attached
  <2> QED BY <2>1, <2>3, <2>4
\* The client takes a message from the outbox.
<1>taken. ASSUME outbox # <<>>, outbox' = Tail(outbox), Track(Head(outbox)), Saw(Head(outbox)), shown' = shown
          PROVE  /\ WalletTrail' /\ ConfTrail' /\ configured' >= configured
                 /\ Head(outbox) \in Msg /\ configured' = Head(outbox).conf
                 /\ Head(outbox) = outbox[1] /\ 1 \in 1..Len(outbox)
                 /\ \A i \in 1..Len(outbox') : i + 1 \in 1..Len(outbox) /\ outbox'[i] = outbox[i + 1]
  BY <1>taken, <1>t, TrailTakes, TailOf, RestOf
\* The client takes a message while no engine is attached, or the one that was is lost.
<1>away. ASSUME outbox # <<>>, outbox' = Tail(outbox), TurnAway(Head(outbox)), shown' = shown, heard' = heard,
                ~Attached', link' \in {"pause", "dial"} => link \in {"pause", "dial"}
         PROVE  Rest
  <2>1. Track(Head(outbox)) /\ Saw(Head(outbox)) /\ Hold(Head(outbox))
    BY <1>away DEF TurnAway
  <2>2. WalletTrail' /\ ConfTrail'
    BY <1>away, <1>taken, <2>1
  <2>3. HeldInv'
    <3>1. /\ Head(outbox) \in Msg /\ configured' >= configured /\ configured' = Head(outbox).conf
          /\ Head(outbox).conf <= configured'
      BY <1>away, <1>taken, <1>0, <2>1
    <3> QED BY <2>1, <3>1, <1>0, HoldsReads
  <2>4. ReplayInv' /\ EngineInv'
    BY <1>away DEF ReplayInv, EngineInv, Attached
  <2>5. GenInv'
    <3>1. \A i \in 1..Len(outbox') : i + 1 \in 1..Len(outbox) /\ outbox'[i] = outbox[i + 1]
      BY <1>away, <1>taken, <2>1
    <3> QED BY <1>away, <3>1 DEF GenInv, Attached
  <2>6. ReadsAreConfigured' /\ NothingOutlivesItsEngine'
    BY <1>away DEF ReadsAreConfigured, NothingOutlivesItsEngine
  <2> QED BY <2>2, <2>3, <2>4, <2>5, <2>6
\* What an engine hears of a message that is in place.
<1>hears. ASSUME NEW m \in Msg, EngineTakes(m),
                 engine.up /\ m.kind = "read" => engine.conf >= m.conf,
                 m.kind \in Commands => m.gen \in {NoEngine, engine.gen}
          PROVE  ReadsAreConfigured' /\ NothingOutlivesItsEngine'
  <2>1. CASE heard' = heard
    BY <2>1 DEF ReadsAreConfigured, NothingOutlivesItsEngine
  <2>2. CASE heard' # heard
    <3>1. PICK h : h = [msg |-> m, by |-> engine.gen, conf |-> engine.conf]
      OBVIOUS
    <3>2. engine.up /\ heard' = heard \cup {h}
      BY <1>hears, <2>2, <3>1 DEF EngineTakes
    <3>3. h.msg = m /\ h.by = engine.gen /\ h.conf = engine.conf
      BY <3>1
    <3>4. h.msg.kind = "read" => h.conf >= h.msg.conf
      BY <1>hears, <3>2, <3>3
    <3>5. h.msg.kind \in Commands => h.msg.gen \in {NoEngine, h.by}
      BY <1>hears, <3>3
    <3>6. ReadsAreConfigured'
      BY <3>2, <3>4 DEF ReadsAreConfigured
    <3>7. NothingOutlivesItsEngine'
      BY <3>2, <3>5 DEF NothingOutlivesItsEngine
    <3> QED BY <3>6, <3>7
  <2> QED BY <2>1, <2>2
<1>takes. ASSUME NEW m \in Msg, EngineTakes(m)
          PROVE  /\ engine'.up = engine.up /\ engine'.gen = engine.gen
                 /\ engine'.up => engine'.wallet = IF m.kind = "switch" THEN m.wallet ELSE engine.wallet
                 /\ engine'.up => engine'.conf = IF m.kind = "configure" THEN m.conf ELSE engine.conf
  BY <1>takes, <1>t DEF EngineTakes, EngineState
<1>1. ASSUME Dial PROVE Rest
  <2>1. /\ link = "dial" /\ link' = "replay" /\ outbox' = outbox /\ shown' = shown /\ at' = at
        /\ configured' = configured /\ heard' = heard /\ held' = <<>> /\ replaying' = Replay
        /\ engine' = [gen |-> engine.gen + 1, up |-> TRUE, wallet |-> at, conf |-> 0]
    BY <1>1 DEF Dial
  <2>2. Switches' = Switches
    BY <2>1 DEF Switches
  <2>3. WalletTrail' /\ ConfTrail' /\ ReadsAreConfigured' /\ NothingOutlivesItsEngine'
    BY <2>1, <2>2 DEF WalletTrail, ConfTrail, ReadsAreConfigured, NothingOutlivesItsEngine
  <2>4. HeldInv'
    BY <2>1 DEF HeldInv, Kept
  <2>5. GenInv'
    BY <2>1 DEF GenInv, Attached
  <2>6. engine'.wallet = at /\ engine'.conf = 0
    BY <2>1
  <2>7. CASE configured = 0
    <3>1. replaying' = held
      BY <2>1, <2>7, <1>t, ConcatEmptySeq DEF Replay
    <3>2. ReplayInv' /\ EngineInv'
      BY <2>1, <2>6, <2>7, <3>1 DEF ReplayInv, EngineInv, HeldInv, Kept
    <3> QED BY <2>3, <2>4, <2>5, <3>2
  <2>8. CASE configured # 0
    <3>1. PICK m : m = Message("configure", at, configured)
      OBVIOUS
    <3>2. m \in Msg /\ m.kind = "configure" /\ m.conf = configured
      BY <3>1, <1>t, MessageType DEF Kinds
    <3>3. replaying' = <<m>> \o held /\ <<m>> \in Seq(Msg) /\ Len(<<m>>) = 1 /\ <<m>>[1] = m
      BY <2>1, <2>8, <3>1, <3>2 DEF Replay
    <3>4. /\ Len(held) \in Nat /\ Len(replaying') = 1 + Len(held) /\ replaying'[1] = m
          /\ \A i \in 2..(1 + Len(held)) : replaying'[i] = held[i - 1] /\ i - 1 \in 1..Len(held)
      BY <3>3, <1>t, ConcatProperties, LenProperties
    <3>5. \A i \in 1..Len(replaying') : i = 1 \/ i \in 2..(1 + Len(held))
      BY <3>4
    <3>6. ReplayInv'
      BY <2>1, <3>2, <3>4, <3>5 DEF ReplayInv, HeldInv, Kept
    <3>7. replaying' # <<>>
      BY <3>4
    <3>8. EngineInv'
      BY <2>1, <2>6, <3>2, <3>4, <3>7 DEF EngineInv
    <3> QED BY <2>3, <2>4, <2>5, <3>6, <3>8
  <2> QED BY <2>7, <2>8
<1>2. ASSUME DialFails \/ EngineLost \/ Drained \/ Close PROVE Rest
  <2>1. /\ outbox' = outbox /\ shown' = shown /\ at' = at /\ configured' = configured /\ held' = held
        /\ heard' = heard /\ link' \in {"drain", "pause", "closed"} /\ (link' = "pause" => outbox = <<>>)
    BY <1>2 DEF DialFails, EngineLost, Drained, Close
  <2>2. ReplayInv' /\ EngineInv' /\ GenInv'
    BY <2>1 DEF ReplayInv, EngineInv, GenInv, Attached
  <2> QED BY <1>quiet, <2>1, <2>2
<1>3. ASSUME ReplayDone PROVE Rest
  <2>1. /\ outbox' = outbox /\ shown' = shown /\ at' = at /\ configured' = configured /\ held' = held
        /\ heard' = heard /\ link = "replay" /\ link' = "relay" /\ replaying = <<>> /\ engine' = engine
    BY <1>3 DEF ReplayDone
  <2>2. ReplayInv' /\ EngineInv' /\ GenInv'
    BY <2>1 DEF ReplayInv, EngineInv, GenInv, Attached
  <2> QED BY <1>quiet, <2>1, <2>2
<1>4. ASSUME ReplayFails PROVE Rest
  <2>1. /\ outbox' = outbox /\ shown' = shown /\ at' = at /\ configured' = configured /\ held' = held
        /\ heard' = heard /\ link' = "drain"
    BY <1>4 DEF ReplayFails
  <2>2. ReplayInv' /\ EngineInv' /\ GenInv'
    BY <2>1 DEF ReplayInv, EngineInv, GenInv, Attached
  <2> QED BY <1>quiet, <2>1, <2>2
<1>5. ASSUME EngineDies PROVE Rest
  <2>1. /\ outbox' = outbox /\ shown' = shown /\ at' = at /\ configured' = configured /\ held' = held
        /\ heard' = heard /\ link' = link /\ replaying' = replaying /\ ~engine'.up /\ engine'.gen = engine.gen
    BY <1>5, <1>t DEF EngineDies, EngineState
  <2>2. ReplayInv' /\ EngineInv' /\ GenInv'
    BY <2>1 DEF ReplayInv, EngineInv, GenInv, Attached
  <2> QED BY <1>quiet, <2>1, <2>2
<1>6. ASSUME ReplayOne PROVE Rest
  <2>1. /\ outbox' = outbox /\ shown' = shown /\ at' = at /\ configured' = configured /\ held' = held
        /\ link = "replay" /\ link' = "replay" /\ replaying # <<>> /\ replaying' = Tail(replaying)
        /\ EngineTakes(Head(replaying))
    BY <1>6 DEF ReplayOne
  <2>2. PICK m : m = replaying[1]
    OBVIOUS
  <2>3. m \in Msg /\ Head(replaying) = m /\ 1 \in 1..Len(replaying)
    BY <1>t, <2>1, <2>2, TailOf
  <2>4. \/ m.kind = "read" /\ m.conf <= configured
        \/ m.kind = "configure" /\ m.conf = configured
    <3>1. \/ replaying[1].kind = "read" /\ replaying[1].conf <= configured
          \/ 1 = 1 /\ replaying[1].kind = "configure" /\ replaying[1].conf = configured
      BY <2>1, <2>3 DEF ReplayInv
    <3> QED BY <2>2, <3>1
  <2>5. engine.up => engine.wallet = at /\ (engine.conf = configured \/ m.kind = "configure")
    BY <2>1, <2>2 DEF EngineInv, Attached
  <2>6. ReadsAreConfigured' /\ NothingOutlivesItsEngine'
    <3>1. m.kind \notin Commands /\ m.conf \in Nat
      BY <2>3, <2>4 DEF Commands, Msg
    <3>2. engine.up /\ m.kind = "read" => engine.conf >= m.conf
      BY <1>t, <2>4, <2>5, <3>1
    <3> QED BY <1>hears, <2>1, <2>3, <3>1, <3>2
  <2>7. engine'.up => engine.up /\ engine'.wallet = at /\ engine'.conf = configured
    <3>1. EngineTakes(m)
      BY <2>1, <2>3
    <3>2. /\ engine'.up = engine.up
          /\ engine'.up => engine'.wallet = IF m.kind = "switch" THEN m.wallet ELSE engine.wallet
          /\ engine'.up => engine'.conf = IF m.kind = "configure" THEN m.conf ELSE engine.conf
      BY <1>takes, <2>3, <3>1
    <3> QED BY <2>4, <2>5, <3>2
  <2>8. ReplayInv'
    <3>1. \A i \in 1..Len(replaying') : i + 1 \in 1..Len(replaying) /\ replaying'[i] = replaying[i + 1] /\ i + 1 # 1
      BY <1>t, <2>1, RestOf
    <3> QED BY <2>1, <3>1 DEF ReplayInv
  <2>9. EngineInv' /\ GenInv'
    BY <1>takes, <2>1, <2>3, <2>7 DEF EngineInv, GenInv, Attached
  <2>10. Switches' = Switches
    BY <2>1 DEF Switches
  <2>11. WalletTrail' /\ ConfTrail' /\ HeldInv'
    BY <2>1, <2>10 DEF WalletTrail, ConfTrail, HeldInv, Kept
  <2> QED BY <2>6, <2>8, <2>9, <2>11
<1>7. ASSUME Relay PROVE Rest
  <2>1. /\ link = "relay" /\ link' = "relay" /\ outbox # <<>> /\ outbox' = Tail(outbox) /\ shown' = shown
        /\ Track(Head(outbox)) /\ Saw(Head(outbox)) /\ EngineTakes(Head(outbox))
        /\ held' = held
    BY <1>7 DEF Relay
  <2>2. PICK m : m = Head(outbox)
    OBVIOUS
  <2>3. /\ WalletTrail' /\ ConfTrail' /\ configured' >= configured /\ m \in Msg /\ configured' = m.conf
        /\ m = outbox[1] /\ 1 \in 1..Len(outbox)
        /\ \A i \in 1..Len(outbox') : i + 1 \in 1..Len(outbox) /\ outbox'[i] = outbox[i + 1]
    BY <1>taken, <2>1, <2>2
  <2>4. engine.up => engine.wallet = at /\ engine.conf = configured
    BY <2>1 DEF EngineInv, Attached
  <2>5. m.kind # "configure" => m.conf = configured
    BY <2>2, <2>3 DEF ConfTrail, Before
  <2>6. m.gen \in {NoEngine, engine.gen}
    BY <2>1, <2>3 DEF GenInv, Attached
  <2>7. ReadsAreConfigured' /\ NothingOutlivesItsEngine'
    <3>1. engine.up /\ m.kind = "read" => engine.conf >= m.conf
      BY <1>t, <2>4, <2>5
    <3> QED BY <1>hears, <2>1, <2>2, <2>3, <2>6, <3>1
  <2>8. EngineInv'
    <3>1. at' = IF m.kind = "switch" THEN m.wallet ELSE at
      BY <2>1, <2>2 DEF Track
    <3>2. engine'.up => engine.up /\ engine'.wallet = at' /\ engine'.conf = configured'
      BY <1>takes, <2>1, <2>2, <2>3, <2>4, <2>5, <3>1
    <3> QED BY <2>1, <3>2 DEF EngineInv
  <2>9. GenInv'
    <3>1. engine'.gen = engine.gen
      BY <1>takes, <2>1, <2>2, <2>3
    <3> QED BY <2>1, <2>3, <3>1 DEF GenInv, Attached
  <2>10. HeldInv' /\ ReplayInv'
    <3>1. \A i \in 1..Len(held) : held[i] \in Msg
      BY <1>t, ElementOfSeq
    <3>2. \A i \in 1..Len(held) : held[i].conf \in Nat /\ held[i].kind = "read" /\ held[i].conf <= configured
      BY <3>1 DEF HeldInv, Kept, Msg
    <3>3. configured' >= configured /\ configured \in Nat
      BY <1>t, <2>3
    <3>4. \A i \in 1..Len(held) : held[i].kind = "read" /\ held[i].conf <= configured'
      BY <1>0, <3>2, <3>3
    <3> QED BY <2>1, <3>4 DEF HeldInv, Kept, ReplayInv
  <2> QED BY <2>3, <2>7, <2>8, <2>9, <2>10
<1>8. ASSUME RelayFails \/ Drain PROVE Rest
  <2>1. /\ outbox # <<>> /\ outbox' = Tail(outbox) /\ TurnAway(Head(outbox)) /\ shown' = shown
        /\ heard' = heard /\ link' = "drain"
    BY <1>8 DEF RelayFails, Drain
  <2> QED BY <1>away, <2>1 DEF Attached
<1>9. ASSUME Pause PROVE Rest
  <2>1. link = "pause" /\ link' = "dial" /\ shown' = shown /\ heard' = heard /\ replaying' = replaying
    BY <1>9 DEF Pause
  <2>2. CASE outbox # <<>> /\ outbox' = Tail(outbox) /\ TurnAway(Head(outbox))
    BY <1>away, <2>1, <2>2 DEF Attached
  <2>3. CASE UNCHANGED <<outbox, at, configured, held>>
    <3>1. ReplayInv' /\ EngineInv' /\ GenInv'
      BY <2>1, <2>3 DEF ReplayInv, EngineInv, GenInv, Attached
    <3> QED BY <1>quiet, <2>1, <2>3, <3>1
  <2> QED BY <1>9, <2>2, <2>3 DEF Pause
<1>10. ASSUME NEW kind \in {"command", "unlock", "read"}, Sends(kind) PROVE Rest
  BY <1>10, <1>t, <1>asks DEF Sends, Kinds
<1>11. ASSUME NEW w \in Wallets, SwitchWallet(w) PROVE Rest
  BY <1>11, <1>t, <1>asks DEF SwitchWallet, Kinds
<1>12. ASSUME Configure PROVE Rest
  <2>1. shown.conf + 1 \in 0..MaxAsked
    BY <1>12, <1>t DEF Configure, Asks, LinkCounts, LinkTypeOK
  <2> QED BY <1>12, <1>t, <2>1, <1>asks DEF Configure, Kinds
<1>13. CASE UNCHANGED lvars
  <2>1. ReplayInv' /\ EngineInv' /\ GenInv'
    BY <1>13 DEF lvars, ReplayInv, EngineInv, GenInv, Attached
  <2> QED BY <1>13, <1>quiet, <2>1 DEF lvars
<1> HIDE DEF Rest
<1> QED
  BY <1>1, <1>2, <1>3, <1>4, <1>5, <1>6, <1>7, <1>8, <1>9, <1>10, <1>11, <1>12, <1>13 DEF LinkNext

\* The inductive invariant of the link.
THEOREM LinkInvariant == LinkSpec => []LinkInv
<1>1. LinkInit => LinkInv
  <2> SUFFICES ASSUME LinkInit PROVE LinkInv
    OBVIOUS
  <2> USE LinkBounds
  <2>1. outbox = <<>> /\ held = <<>> /\ replaying = <<>> /\ <<>> \in Seq(Msg) /\ Len(<<>>) = 0 /\ heard = {}
    BY DEF LinkInit
  <2>2. /\ shown = [wallet |-> FirstWallet, conf |-> 0] /\ asked = 0 /\ link = "dial" /\ at = FirstWallet
        /\ configured = 0 /\ engine = [gen |-> NoEngine, up |-> FALSE, wallet |-> FirstWallet, conf |-> 0]
    BY DEF LinkInit
  <2>3. 0 \in 0..MaxAsked /\ 0 \in 0..MaxEngines /\ 0 <= DataHeld
    OBVIOUS
  <2>4. LinkTypeOK /\ LinkCounts
    BY <2>1, <2>2, <2>3 DEF LinkTypeOK, LinkCounts, NoEngine
  <2>5. WalletTrail /\ ConfTrail
    BY <2>1, <2>2 DEF WalletTrail, ConfTrail, Switches, Before
  <2>6. HeldInv /\ ReplayInv /\ EngineInv /\ GenInv
    BY <2>1, <2>2 DEF HeldInv, Kept, ReplayInv, EngineInv, GenInv, Attached
  <2>7. ReadsAreConfigured /\ NothingOutlivesItsEngine
    BY <2>1 DEF ReadsAreConfigured, NothingOutlivesItsEngine
  <2> QED BY <2>4, <2>5, <2>6, <2>7 DEF LinkInv
<1>2. LinkInv /\ [LinkNext]_lvars => LinkInv'
  BY LinkTypeStep, EngineStep DEF LinkInv
<1> QED BY <1>1, <1>2, PTL DEF LinkSpec

\* A living engine ends up on the wallet on screen: its own, or that of the last switch still on its
\* way to it, through every loss, death and reattachment (track, Attach).
THEOREM LinkFollowsScreen == LinkSpec => []EngineFollowsScreen
<1>1. LinkInv => EngineFollowsScreen
  BY DEF LinkInv, WalletTrail, EngineInv, EngineFollowsScreen
<1> QED BY <1>1, LinkInvariant, PTL

\* No read is taken under a configuration older than the one it was asked under, however often the
\* engine was replaced since (DataReplay::replay).
THEOREM LinkReadsAreConfigured == LinkSpec => []ReadsAreConfigured
<1>1. LinkInv => ReadsAreConfigured
  BY DEF LinkInv
<1> QED BY <1>1, LinkInvariant, PTL

\* No command asked of one engine is heard by a later one ("a review belongs to the engine that built
\* it").
THEOREM LinkCommandsDieWithTheEngine == LinkSpec => []NothingOutlivesItsEngine
<1>1. LinkInv => NothingOutlivesItsEngine
  BY DEF LinkInv
<1> QED BY <1>1, LinkInvariant, PTL

-----------------------------------------------------------------------------
(* The alerts. *)

\* Every process does its own part; what was loaded names alerts that were added, each once, under
\* an id of its own.
Known(row, n) == \A a \in row : a.uid <= n /\ a.id <= n
OneEach(row) == \A a, b \in row : a.uid = b.uid \/ a.id = b.id => a = b
RowsInv ==
  /\ Known(stored, added) /\ OneEach(stored) /\ \A a \in wanted : a <= added
  /\ \A p \in Everyone : /\ Known(doing[p].row, added) /\ OneEach(doing[p].row)
                         /\ \A a \in doing[p].fired : a <= added
  /\ \A a \in Alert : a > added => told[a] = 0 /\ rises[a] = 0
RolesInv ==
  /\ \A e \in Editors : doing[e].pc \in {"idle", "add", "remove"}
  /\ \A c \in Checkers : doing[c].pc \in {"idle", "asked", "decided", "save", "notify"}
  /\ \A p \in Everyone : doing[p].pc \in {"idle", "add", "remove", "asked"} => doing[p].fired = {}
\* While nothing raced: one check at a time, and what is about to be saved is what is stored, but
\* for the state a check found.
SameAlerts(row, now) ==
  /\ \A a \in row : \E b \in now : a.uid = b.uid /\ a.id = b.id
  /\ \A b \in now : \E a \in row : a.uid = b.uid /\ a.id = b.id
QuietInv ==
  ~raced =>
    /\ \A c, d \in Checkers : doing[c].pc # "idle" /\ doing[d].pc # "idle" => c = d
    /\ \A e \in Editors : doing[e].pc \in {"add", "remove"} => doing[e].row \in {stored, {}}
    /\ \A c \in Checkers : doing[c].pc = "save" => SameAlerts(doing[c].row, stored) \/ doing[c].row = {}

\* An alert was crossed once for every notice of it, one more for a notice on its way, and one more
\* while its line is crossed and nobody noticed.
Covered(r, fired, on, t, n) ==
  t[r.uid] + (IF r.uid \in fired THEN 1 ELSE 0) + (IF on /\ ~r.active THEN 1 ELSE 0) <= n[r.uid]
CoveredBy(d, now, on, t, n) ==
  /\ d.pc \in {"decided", "save", "notify"} => \A a \in d.fired : t[a] + 1 <= n[a]
  /\ d.pc \in {"asked", "decided", "save"} => \A r \in d.row : Covered(r, d.fired, on, t, n)
  /\ d.pc = "notify" => \A s \in now : Covered(s, d.fired, on, t, n)
CrossedInv ==
  ~raced =>
    /\ \A a \in Alert : told[a] <= rises[a]
    /\ \A s \in stored : Covered(s, {}, line, told, rises)
    /\ \A c \in Checkers : CoveredBy(doing[c], stored, line, told, rises)

\* What a check loaded is stored still, or was removed; what is stored besides was added since.
Since(d, now) ==
  d.pc \in {"asked", "decided"} =>
    \A s \in now : \/ \E r \in d.row : r.uid = s.uid /\ r.id = s.id
                   \/ /\ ~s.active /\ s.uid \notin d.fired
                      /\ \A r \in d.row : r.uid # s.uid
SinceInv == ~raced => \A c \in Checkers : Since(doing[c], stored)

AlertsInv == /\ AlertsTypeOK /\ RowsInv /\ RolesInv /\ QuietInv /\ CrossedInv /\ SinceInv /\ EditsSurviveChecks

\* A set of naturals that is not empty has a least element, and a greatest one if it is bounded.
LEMMA LeastOf == ASSUME NEW S \in SUBSET Nat, S # {} PROVE \E n \in S : \A m \in S : n <= m
<1>1. PICK R : R = OpToRel(<, Nat)
  OBVIOUS
<1>2. IsWellFoundedOn(R, Nat)
  BY <1>1, NatLessThanWellFounded
<1>3. PICK x \in S : \A y \in S : ~ (<<y, x>> \in R)
  BY <1>2, WFMin
<1>4. \A z, y \in Nat : z < y => <<z, y>> \in R
  BY <1>1 DEF OpToRel
<1>5. \A y \in S : ~(y < x)
  BY <1>3, <1>4
<1>6. \A y \in S : x <= y
  BY <1>5
<1> QED BY <1>6

\* See LeastOf.
LEMMA GreatestOf ==
  ASSUME NEW b \in Nat, NEW S \in SUBSET (0..b), S # {}
  PROVE  Max(S) \in S /\ \A m \in S : m <= Max(S)
<1> DEFINE U == {n \in Nat : \A m \in S : m <= n}
<1>1. PICK n \in U : \A m \in U : n <= m
  <2>1. b \in U
    OBVIOUS
  <2> QED BY <2>1, LeastOf
<1>2. n \in S
  <2> SUFFICES ASSUME n \notin S PROVE FALSE
    OBVIOUS
  <2>1. PICK s \in S : TRUE
    OBVIOUS
  <2>2. s <= n /\ s # n /\ s \in Nat /\ n \in Nat
    BY <2>1, <1>1
  <2>3. n - 1 \in Nat /\ \A m \in S : m <= n - 1
    BY <2>2, <1>1
  <2>4. n - 1 \in U
    BY <2>3
  <2> QED BY <2>4, <1>1, <2>2
<1>3. \E x \in S : \A y \in S : x >= y
  BY <1>1, <1>2
<1> QED BY <1>3 DEF Max

Told == [uid : Alert, id : Alert, active : BOOLEAN]
AlertPlaces == {"idle", "add", "remove", "asked", "decided", "save", "notify"}
Doing == [pc : AlertPlaces, row : Row, fired : SUBSET Alert]

\* A new alert's id is none that the loaded ones have.
LEMMA NewIdIsNew ==
  ASSUME NEW row \in Row, Known(row, added), added \in Nat
  PROVE  NewId(row) \in 1..(added + 1) /\ \A a \in row : a.id < NewId(row)
<1> DEFINE S == {a.id : a \in row} \cup {0}
<1>1. S \in SUBSET (0..added) /\ S # {}
  BY AlertBounds DEF Row, Alert, Known
<1>2. Max(S) \in S /\ \A m \in S : m <= Max(S)
  BY <1>1, GreatestOf
<1>3. \A a \in row : a.id \in S
  OBVIOUS
<1>4. NewId(row) = Max(S) + 1
  BY DEF NewId
<1>5. Max(S) \in 0..added
  BY <1>1, <1>2
<1>6. \A a \in row : a.id \in Nat /\ a.id <= Max(S)
  BY <1>2, <1>3, AlertBounds DEF Row, Alert
<1> HIDE DEF S
<1>7. NewId(row) \in 1..(added + 1)
  BY <1>4, <1>5
<1>8. \A a \in row : a.id < NewId(row)
  BY <1>4, <1>5, <1>6
<1> QED BY <1>7, <1>8

\* The alerts written back are those stored, each once, with the state that was checked for its id.
LEMMA MergedIs ==
  ASSUME NEW now \in Row, NEW row \in Row
  PROVE  /\ Merged(now, row) \in Row
         /\ \A x \in Merged(now, row) : \E a \in now :
              /\ x.uid = a.uid /\ x.id = a.id
              /\ \/ \E b \in row : b.id = a.id /\ x.active = b.active
                 \/ x.active = a.active /\ \A b \in row : b.id # a.id
         /\ \A a \in now : \E x \in Merged(now, row) : x.uid = a.uid /\ x.id = a.id
         /\ OneEach(now) => OneEach(Merged(now, row))
<1> DEFINE State(a) == IF \E b \in row : b.id = a.id THEN (CHOOSE b \in row : b.id = a.id).active ELSE a.active
           Marked(a) == [a EXCEPT !.active = State(a)]
<1>1. Merged(now, row) = {Marked(a) : a \in now}
  BY DEF Merged
<1>2. ASSUME NEW a \in now
      PROVE  /\ Marked(a) \in Told /\ Marked(a).uid = a.uid /\ Marked(a).id = a.id /\ Marked(a).active = State(a)
             /\ \/ \E b \in row : b.id = a.id /\ State(a) = b.active
                \/ State(a) = a.active /\ \A b \in row : b.id # a.id
  <2>0. a \in Told /\ \A b \in row : b \in Told
    BY DEF Row, Told
  <2>1. CASE \E b \in row : b.id = a.id
    <3>1. PICK c : c = CHOOSE b \in row : b.id = a.id
      OBVIOUS
    <3>2. c \in row /\ c.id = a.id
      BY <2>1, <3>1
    <3>3. State(a) = c.active
      BY <2>1, <3>1
    <3>4. State(a) \in BOOLEAN
      BY <2>0, <3>2, <3>3 DEF Told
    <3> QED BY <2>0, <3>2, <3>3, <3>4 DEF Told
  <2>2. CASE ~ \E b \in row : b.id = a.id
    <3>1. State(a) = a.active
      BY <2>2
    <3> QED BY <2>0, <2>2, <3>1 DEF Told
  <2> QED BY <2>1, <2>2
<1> HIDE DEF Marked, State
<1>3. Merged(now, row) \in Row
  BY <1>1, <1>2 DEF Row, Told
<1>4. \A x \in Merged(now, row) : \E a \in now :
        /\ x.uid = a.uid /\ x.id = a.id
        /\ \/ \E b \in row : b.id = a.id /\ x.active = b.active
           \/ x.active = a.active /\ \A b \in row : b.id # a.id
  BY <1>1, <1>2
<1>5. \A a \in now : \E x \in Merged(now, row) : x.uid = a.uid /\ x.id = a.id
  BY <1>1, <1>2
<1>6. OneEach(now) => OneEach(Merged(now, row))
  BY <1>1, <1>2 DEF OneEach
<1> QED BY <1>3, <1>4, <1>5, <1>6

\* Where a step takes one process, and nobody else.
LEMMA DoingIs ==
  ASSUME doing \in [Everyone -> Doing], NEW p \in Everyone
  PROVE  /\ Leaves(p) => doing'[p] = Rests /\ \A q \in Everyone \ {p} : doing'[q] = doing[q]
         /\ \A pc : At(p, pc) =>
              /\ doing'[p].pc = pc /\ doing'[p].row = doing[p].row /\ doing'[p].fired = doing[p].fired
              /\ \A q \in Everyone \ {p} : doing'[q] = doing[q]
         /\ \A pc : Loads(p, pc) =>
              /\ doing'[p].pc = pc /\ doing'[p].row = stored /\ doing'[p].fired = doing[p].fired
              /\ \A q \in Everyone \ {p} : doing'[q] = doing[q]
         /\ \A pc : Misreads(p, pc) =>
              /\ doing'[p].pc = pc /\ doing'[p].row = {} /\ doing'[p].fired = doing[p].fired
              /\ \A q \in Everyone \ {p} : doing'[q] = doing[q]
         /\ Reload(p) =>
              /\ doing'[p].pc = "save" /\ doing'[p].row = Merged(stored, doing[p].row)
              /\ doing'[p].fired = doing[p].fired
              /\ \A q \in Everyone \ {p} : doing'[q] = doing[q]
         /\ Decide(p) =>
              /\ doing'[p].pc = "decided" /\ doing'[p].row = {[a EXCEPT !.active = line] : a \in doing[p].row}
              /\ doing'[p].fired = IF line THEN {a.uid : a \in {b \in doing[p].row : ~b.active}} ELSE {}
              /\ \A q \in Everyone \ {p} : doing'[q] = doing[q]
<1>1. Leaves(p) => doing'[p] = Rests /\ \A q \in Everyone \ {p} : doing'[q] = doing[q]
  BY DEF Leaves
<1>2. ASSUME NEW pc, At(p, pc)
      PROVE  /\ doing'[p].pc = pc /\ doing'[p].row = doing[p].row /\ doing'[p].fired = doing[p].fired
             /\ \A q \in Everyone \ {p} : doing'[q] = doing[q]
  BY <1>2 DEF At, Doing
<1>3. ASSUME NEW pc, Loads(p, pc)
      PROVE  /\ doing'[p].pc = pc /\ doing'[p].row = stored /\ doing'[p].fired = doing[p].fired
             /\ \A q \in Everyone \ {p} : doing'[q] = doing[q]
  <2>1. PICK j : j = [doing[p] EXCEPT !.pc = pc, !.row = stored]
    OBVIOUS
  <2>2. j.pc = pc /\ j.row = stored /\ j.fired = doing[p].fired
    BY <2>1 DEF Doing
  <2>3. \A q \in Everyone : doing'[q] = IF q = p THEN j ELSE doing[q]
    BY <1>3, <2>1 DEF Loads
  <2> QED BY <2>2, <2>3
<1>6. ASSUME NEW pc, Misreads(p, pc)
      PROVE  /\ doing'[p].pc = pc /\ doing'[p].row = {} /\ doing'[p].fired = doing[p].fired
             /\ \A q \in Everyone \ {p} : doing'[q] = doing[q]
  <2>1. PICK j : j = [doing[p] EXCEPT !.pc = pc, !.row = {}]
    OBVIOUS
  <2>2. j.pc = pc /\ j.row = {} /\ j.fired = doing[p].fired
    BY <2>1 DEF Doing
  <2>3. \A q \in Everyone : doing'[q] = IF q = p THEN j ELSE doing[q]
    BY <1>6, <2>1 DEF Misreads
  <2> QED BY <2>2, <2>3
<1>4. ASSUME Reload(p)
      PROVE  /\ doing'[p].pc = "save" /\ doing'[p].row = Merged(stored, doing[p].row)
             /\ doing'[p].fired = doing[p].fired
             /\ \A q \in Everyone \ {p} : doing'[q] = doing[q]
  <2>1. PICK m : m = Merged(stored, doing[p].row)
    OBVIOUS
  <2>2. PICK f : f = [doing[p] EXCEPT !.pc = "save"]
    OBVIOUS
  <2>3. PICK j : j = [f EXCEPT !.row = m]
    OBVIOUS
  <2>4. j.pc = "save" /\ j.row = m /\ j.fired = doing[p].fired
    BY <2>2, <2>3 DEF Doing
  <2>5. \A q \in Everyone : doing'[q] = IF q = p THEN j ELSE doing[q]
    BY <1>4, <2>1, <2>2, <2>3 DEF Reload, Doing
  <2> QED BY <2>1, <2>4, <2>5
<1>5. ASSUME Decide(p)
      PROVE  /\ doing'[p].pc = "decided" /\ doing'[p].row = {[a EXCEPT !.active = line] : a \in doing[p].row}
             /\ doing'[p].fired = IF line THEN {a.uid : a \in {b \in doing[p].row : ~b.active}} ELSE {}
             /\ \A q \in Everyone \ {p} : doing'[q] = doing[q]
  <2>1. PICK row, fired : /\ row = {[a EXCEPT !.active = line] : a \in doing[p].row}
                          /\ fired = IF line THEN {a.uid : a \in {b \in doing[p].row : ~b.active}} ELSE {}
    OBVIOUS
  <2>2. doing' = [doing EXCEPT ![p] = [pc |-> "decided", row |-> row, fired |-> fired]]
    BY <1>5, <2>1 DEF Decide
  <2> QED BY <2>1, <2>2
<1> QED BY <1>1, <1>2, <1>3, <1>4, <1>5, <1>6

\* Every edit, check, crash and crossing keeps the alerts' variables in their types.
LEMMA AlertsTypeStep == AlertsTypeOK /\ RowsInv /\ [AlertsNext]_avars => AlertsTypeOK'
<1> SUFFICES ASSUME AlertsTypeOK, RowsInv, [AlertsNext]_avars PROVE AlertsTypeOK'
  OBVIOUS
<1> USE AlertBounds
<1>t. /\ line \in BOOLEAN /\ beat \in Beats /\ raced \in BOOLEAN /\ wiped \in BOOLEAN /\ stored \in Row /\ wanted \in SUBSET Alert
      /\ added \in 0..MaxAlerts /\ doing \in [Everyone -> Doing] /\ rises \in [Alert -> Nat]
      /\ told \in [Alert -> Nat] /\ aleft \in [AlertKinds -> Nat]
      /\ \A p \in Everyone : doing[p].row \in Row /\ doing[p].fired \in SUBSET Alert
  BY DEF AlertsTypeOK, Doing, AlertPlaces
<1>end. ASSUME line' \in BOOLEAN, beat' \in Beats, raced' \in BOOLEAN, wiped' \in BOOLEAN, stored' \in Row, wanted' \in SUBSET Alert,
               added' \in 0..MaxAlerts, doing' \in [Everyone -> Doing], rises' \in [Alert -> Nat],
               told' \in [Alert -> Nat], aleft' \in [AlertKinds -> Nat]
        PROVE  AlertsTypeOK'
  BY <1>end DEF AlertsTypeOK, Doing, AlertPlaces
<1>spend. ASSUME NEW kind \in AlertKinds, ASpend(kind) PROVE aleft' \in [AlertKinds -> Nat]
  <2>1. aleft[kind] \in Nat /\ aleft[kind] > 0
    BY <1>spend, <1>t DEF ASpend
  <2>2. aleft[kind] - 1 \in Nat
    BY <2>1
  <2> QED BY <1>spend, <1>t, <2>2 DEF ASpend
<1>leaves. ASSUME NEW p \in Everyone, Leaves(p) PROVE doing' \in [Everyone -> Doing]
  <2>1. Rests \in Doing
    BY DEF Rests, Doing, AlertPlaces, Row
  <2> QED BY <1>leaves, <1>t, <2>1 DEF Leaves
<1>at. ASSUME NEW p \in Everyone, NEW pc \in AlertPlaces, At(p, pc) PROVE doing' \in [Everyone -> Doing]
  BY <1>at, <1>t DEF At, Doing
<1>loads. ASSUME NEW p \in Everyone, NEW pc \in AlertPlaces, Loads(p, pc) PROVE doing' \in [Everyone -> Doing]
  <2>1. PICK f : f = [doing[p] EXCEPT !.pc = pc]
    OBVIOUS
  <2>2. f \in Doing
    BY <1>t, <2>1 DEF Doing
  <2>3. PICK j : j = [f EXCEPT !.row = stored]
    OBVIOUS
  <2>4. j \in Doing
    BY <1>t, <2>2, <2>3 DEF Doing
  <2>5. \A q \in Everyone : doing'[q] = IF q = p THEN j ELSE doing[q]
    BY <1>loads, <1>t, <2>1, <2>3 DEF Loads
  <2>6. doing' = [q \in Everyone |-> doing'[q]]
    BY <1>loads, <1>t DEF Loads
  <2> QED BY <1>t, <2>4, <2>5, <2>6
<1>mis. ASSUME NEW p \in Everyone, NEW pc \in AlertPlaces, Misreads(p, pc) PROVE doing' \in [Everyone -> Doing]
  <2>1. PICK f : f = [doing[p] EXCEPT !.pc = pc]
    OBVIOUS
  <2>2. f \in Doing
    BY <1>t, <2>1 DEF Doing
  <2>3. PICK j : j = [f EXCEPT !.row = {}]
    OBVIOUS
  <2>4. j \in Doing
    BY <1>t, <2>2, <2>3 DEF Doing, Row
  <2>5. \A q \in Everyone : doing'[q] = IF q = p THEN j ELSE doing[q]
    BY <1>mis, <1>t, <2>1, <2>3 DEF Misreads
  <2>6. doing' = [q \in Everyone |-> doing'[q]]
    BY <1>mis, <1>t DEF Misreads
  <2> QED BY <1>t, <2>4, <2>5, <2>6
<1>save. ASSUME NEW p \in Everyone, NEW row \in Row, Save(p, row)
         PROVE  stored' \in Row /\ raced' \in BOOLEAN /\ wiped' \in BOOLEAN
  BY <1>save, <1>t DEF Save
<1>1. ASSUME NEW e \in Editors, AddLoads(e) \/ RemoveLoads(e) PROVE AlertsTypeOK'
  BY <1>1, <1>t, <1>loads, <1>spend, <1>end DEF AddLoads, RemoveLoads, AlertPlaces, AlertKinds, Everyone
<1>2. ASSUME NEW e \in Editors, AddSaves(e) PROVE AlertsTypeOK'
  <2>1. added' = added + 1 /\ added' \in Alert /\ added' \in 0..MaxAlerts
    BY <1>2, <1>t DEF AddSaves, Alert
  <2>2. e \in Everyone /\ doing[e].row \in Row /\ Known(doing[e].row, added)
    BY <1>t DEF Everyone, RowsInv
  <2>3. NewId(doing[e].row) \in Alert
    BY <1>t, <2>1, <2>2, NewIdIsNew DEF Alert
  <2>4. PICK a : a = [uid |-> added', id |-> NewId(doing[e].row), active |-> FALSE]
    OBVIOUS
  <2>a. a \in Told
    BY <2>1, <2>3, <2>4 DEF Told
  <2>5. doing[e].row \cup {a} \in Row
    BY <2>a, <2>2 DEF Row, Told
  <2>6. stored' \in Row /\ raced' \in BOOLEAN /\ wiped' \in BOOLEAN
    BY <1>2, <1>save, <2>2, <2>4, <2>5 DEF AddSaves
  <2>7. wanted' \in SUBSET Alert /\ rises' \in [Alert -> Nat]
    BY <1>2, <1>t, <2>1 DEF AddSaves
  <2>8. doing' \in [Everyone -> Doing]
    BY <1>2, <1>leaves, <2>2 DEF AddSaves
  <2> QED BY <1>2, <1>t, <1>end, <2>1, <2>6, <2>7, <2>8 DEF AddSaves
<1>3. ASSUME NEW e \in Editors, RemoveSaves(e) PROVE AlertsTypeOK'
  <2>1. PICK id \in Alert :
          /\ Save(e, {b \in doing[e].row : b.id # id})
          /\ wanted' = wanted \ {b.uid : b \in {c \in doing[e].row : c.id = id}}
    BY <1>3 DEF RemoveSaves
  <2>2. e \in Everyone /\ {b \in doing[e].row : b.id # id} \in Row
    BY <1>t DEF Everyone, Row
  <2>3. stored' \in Row /\ raced' \in BOOLEAN /\ wiped' \in BOOLEAN
    BY <1>save, <2>1, <2>2
  <2>4. doing' \in [Everyone -> Doing]
    BY <1>3, <1>leaves, <2>2 DEF RemoveSaves
  <2> QED BY <1>3, <1>t, <1>end, <2>1, <2>3, <2>4 DEF RemoveSaves
<1>4. ASSUME NEW c \in Checkers, Begin(c) PROVE AlertsTypeOK'
  BY <1>4, <1>t, <1>loads, <1>spend, <1>end DEF Begin, AlertPlaces, AlertKinds, Everyone, Beats
<1>5. ASSUME NEW c \in Checkers, Undecided(c) PROVE AlertsTypeOK'
  BY <1>5, <1>t, <1>at, <1>spend, <1>end DEF Undecided, AlertPlaces, AlertKinds, Everyone
<1>6. ASSUME NEW c \in Checkers, Decide(c) PROVE AlertsTypeOK'
  <2>1. PICK row, fired : /\ row = {[a EXCEPT !.active = line] : a \in doing[c].row}
                          /\ fired = IF line THEN {a.uid : a \in {b \in doing[c].row : ~b.active}} ELSE {}
    OBVIOUS
  <2>2. c \in Everyone
    BY DEF Everyone
  <2>3. row \in Row /\ fired \in SUBSET Alert
    BY <1>t, <2>1, <2>2 DEF Row
  <2>4. [pc |-> "decided", row |-> row, fired |-> fired] \in Doing
    BY <2>3 DEF Doing, AlertPlaces
  <2>5. doing' = [doing EXCEPT ![c] = [pc |-> "decided", row |-> row, fired |-> fired]]
    BY <1>6, <2>1 DEF Decide
  <2> QED BY <1>6, <1>t, <1>end, <2>2, <2>4, <2>5 DEF Decide
<1>7. ASSUME NEW c \in Checkers, TimedOut(c) PROVE AlertsTypeOK'
  BY <1>7, <1>t, <1>leaves, <1>spend, <1>end DEF TimedOut, AlertKinds, Everyone, Beats
<1>8. ASSUME NEW c \in Checkers, Reload(c) PROVE AlertsTypeOK'
  <2>1. c \in Everyone /\ doing[c].row \in Row
    BY <1>t DEF Everyone
  <2>2. Merged(stored, doing[c].row) \in Row
    BY <1>t, <2>1, MergedIs
  <2>3. PICK f : f = [doing[c] EXCEPT !.pc = "save"]
    OBVIOUS
  <2>4. f \in Doing /\ f.row = doing[c].row
    BY <1>t, <2>1, <2>3 DEF Doing, AlertPlaces
  <2>5. PICK j : j = [f EXCEPT !.row = Merged(stored, doing[c].row)]
    OBVIOUS
  <2>6. j \in Doing
    BY <1>t, <2>2, <2>4, <2>5 DEF Doing
  <2>g. PICK m : m = Merged(stored, doing[c].row)
    OBVIOUS
  <2>7. \A q \in Everyone : doing'[q] = IF q = c THEN j ELSE doing[q]
    BY <1>8, <1>t, <2>3, <2>4, <2>5, <2>g DEF Reload, Doing
  <2>8. doing' = [q \in Everyone |-> doing'[q]]
    BY <1>8, <1>t DEF Reload
  <2>9. doing' \in [Everyone -> Doing]
    BY <1>t, <2>6, <2>7, <2>8
  <2> QED BY <1>8, <1>t, <1>end, <2>9 DEF Reload
<1>9. ASSUME NEW c \in Checkers, WriteBack(c) PROVE AlertsTypeOK'
  BY <1>9, <1>t, <1>at, <1>save, <1>end DEF WriteBack, AlertPlaces, Everyone
<1>10. ASSUME NEW c \in Checkers, Tell(c) PROVE AlertsTypeOK'
  <2>1. told' \in [Alert -> Nat]
    BY <1>10, <1>t DEF Tell
  <2> QED BY <1>10, <1>t, <1>leaves, <1>end, <2>1 DEF Tell, Everyone, Beats
<1>11. ASSUME NEW p \in Everyone, Crash(p) PROVE AlertsTypeOK'
  BY <1>11, <1>t, <1>leaves, <1>spend, <1>end DEF Crash, AlertKinds
<1>12. ASSUME Flip PROVE AlertsTypeOK'
  <2>1. rises' \in [Alert -> Nat]
    BY <1>12, <1>t DEF Flip
  <2> QED BY <1>12, <1>t, <1>spend, <1>end, <2>1 DEF Flip, AlertKinds
<1>14. ASSUME FindsNone PROVE AlertsTypeOK'
  <2>1. aleft' \in [AlertKinds -> Nat]
    BY <1>14, <1>t, <1>spend DEF FindsNone, AlertKinds
  <2> QED BY <1>14, <1>t, <1>end, <2>1 DEF FindsNone, Beats
<1>15. ASSUME NEW p \in Everyone, EditsBlindly(p) \/ ReloadsBlindly(p) PROVE AlertsTypeOK'
  <2>1. \E pc \in AlertPlaces : Misreads(p, pc)
    BY <1>15 DEF EditsBlindly, ReloadsBlindly, AlertPlaces
  <2>2. aleft' \in [AlertKinds -> Nat]
    BY <1>spend, <2>1 DEF Misreads, AlertKinds
  <2>3. doing' \in [Everyone -> Doing]
    BY <1>mis, <2>1
  <2> QED BY <1>15, <1>t, <1>end, <2>2, <2>3 DEF EditsBlindly, ReloadsBlindly
<1>13. ASSUME BeatEnds \/ UNCHANGED avars PROVE AlertsTypeOK'
  BY <1>13, <1>t, <1>end DEF BeatEnds, avars, Beats
<1> QED
  BY <1>1, <1>2, <1>3, <1>4, <1>5, <1>6, <1>7, <1>8, <1>9, <1>10, <1>11, <1>12, <1>13, <1>14, <1>15
  DEF AlertsNext, Everyone


\* Rows keep naming added alerts, each once and under its own id, through every step.
LEMMA RowsStep == AlertsTypeOK /\ RowsInv /\ RolesInv /\ [AlertsNext]_avars => RowsInv' /\ RolesInv'
<1> SUFFICES ASSUME AlertsTypeOK, RowsInv, RolesInv, [AlertsNext]_avars PROVE RowsInv' /\ RolesInv'
  OBVIOUS
<1> USE AlertBounds
<1>t. /\ line \in BOOLEAN /\ stored \in Row /\ wanted \in SUBSET Alert /\ added \in Nat
      /\ doing \in [Everyone -> Doing] /\ rises \in [Alert -> Nat] /\ told \in [Alert -> Nat]
      /\ \A p \in Everyone : doing[p].row \in Row /\ doing[p].fired \in SUBSET Alert
      /\ \A a \in Alert : a \in Nat
  BY DEF AlertsTypeOK, Doing, AlertPlaces, Alert
<1>r. /\ Known(stored, added) /\ OneEach(stored) /\ \A a \in wanted : a <= added
      /\ \A p \in Everyone : /\ Known(doing[p].row, added) /\ OneEach(doing[p].row)
                             /\ \A a \in doing[p].fired : a <= added
      /\ \A a \in Alert : a > added => told[a] = 0 /\ rises[a] = 0
  BY DEF RowsInv
<1>more. ASSUME NEW row \in Row, NEW n \in Nat, Known(row, added), added <= n PROVE Known(row, n)
  <2>1. \A a \in row : a.uid \in Nat /\ a.id \in Nat
    BY DEF Row, Alert
  <2> QED BY <1>more, <1>t, <2>1 DEF Known
<1>end. ASSUME NEW p \in Everyone, added' \in Nat, added <= added',
               Known(stored', added'), OneEach(stored'), \A a \in wanted' : a <= added',
               \A q \in Everyone \ {p} : doing'[q] = doing[q],
               Known(doing'[p].row, added'), OneEach(doing'[p].row), \A a \in doing'[p].fired : a <= added',
               \A a \in Alert : a > added' => told'[a] = 0 /\ rises'[a] = 0,
               p \in Editors => doing'[p].pc \in {"idle", "add", "remove"},
               p \in Checkers => doing'[p].pc \in {"idle", "asked", "decided", "save", "notify"},
               doing'[p].pc \in {"idle", "add", "remove", "asked"} => doing'[p].fired = {}
        PROVE  RowsInv' /\ RolesInv'
  <2>1. ASSUME NEW q \in Everyone
        PROVE  /\ Known(doing'[q].row, added') /\ OneEach(doing'[q].row)
               /\ \A a \in doing'[q].fired : a <= added'
    <3>1. CASE q = p
      BY <1>end, <3>1
    <3>2. CASE q # p
      <4>1. doing'[q] = doing[q]
        BY <1>end, <3>2
      <4>2. Known(doing[q].row, added') /\ OneEach(doing[q].row)
        BY <1>t, <1>r, <1>more, <1>end
      <4>3. \A a \in doing[q].fired : a <= added'
        BY <1>t, <1>r, <1>end
      <4> QED BY <4>1, <4>2, <4>3
    <3> QED BY <3>1, <3>2
  <2>2. RowsInv'
    BY <1>end, <2>1 DEF RowsInv, Everyone
  <2>3. RolesInv'
    BY <1>end DEF RolesInv, Everyone
  <2> QED BY <2>2, <2>3
<1>empty. Known({}, added) /\ OneEach({})
  BY DEF Known, OneEach
<1>rest. ASSUME NEW p \in Everyone, Leaves(p), UNCHANGED <<added>>, Known(stored', added), OneEach(stored'),
                \A a \in wanted' : a <= added, \A a \in Alert : a > added => told'[a] = 0 /\ rises'[a] = 0
         PROVE  RowsInv' /\ RolesInv'
  <2>0. Leaves(p)
    BY <1>rest
  <2>1. doing'[p] = Rests /\ \A q \in Everyone \ {p} : doing'[q] = doing[q]
    BY <1>t, <1>rest, DoingIs
  <2>2. doing'[p].pc = "idle" /\ doing'[p].row = {} /\ doing'[p].fired = {}
    BY <2>1 DEF Rests
  <2>3. added' = added /\ added' \in Nat /\ added <= added'
    BY <1>rest, <1>t
  <2>4. Known(doing'[p].row, added') /\ OneEach(doing'[p].row) /\ \A a \in doing'[p].fired : a <= added'
    BY <2>2, <2>3, <1>empty
  <2>5. /\ Known(stored', added') /\ OneEach(stored') /\ \A a \in wanted' : a <= added'
        /\ \A a \in Alert : a > added' => told'[a] = 0 /\ rises'[a] = 0
    BY <1>rest, <2>3
  <2> HIDE <1>rest
  <2> QED BY <1>end, <2>1, <2>2, <2>3, <2>4, <2>5
<1>load. ASSUME NEW p \in Everyone, NEW pc, Loads(p, pc), UNCHANGED <<added, stored, wanted, told, rises>>,
                doing[p].fired = {}, p \in Editors => pc \in {"add", "remove"}, p \in Checkers => pc = "asked"
         PROVE  RowsInv' /\ RolesInv'
  <2>1. /\ doing'[p].pc = pc /\ doing'[p].row = stored /\ doing'[p].fired = {}
        /\ \A q \in Everyone \ {p} : doing'[q] = doing[q]
    BY <1>t, <1>load, DoingIs
  <2> QED BY <1>t, <1>r, <1>load, <1>end, <2>1
<1>1. ASSUME NEW e \in Editors, AddLoads(e) \/ RemoveLoads(e) PROVE RowsInv' /\ RolesInv'
  <2>1. e \in Everyone /\ doing[e].pc = "idle" /\ UNCHANGED <<added, stored, wanted, told, rises>> /\ e \notin Checkers
    BY <1>1 DEF AddLoads, RemoveLoads, Everyone
  <2>2. doing[e].fired = {}
    BY <2>1 DEF RolesInv
  <2>3. Loads(e, "add") \/ Loads(e, "remove")
    BY <1>1 DEF AddLoads, RemoveLoads
  <2> QED BY <2>1, <2>2, <2>3, <1>load
<1>2. ASSUME NEW e \in Editors, AddSaves(e) PROVE RowsInv' /\ RolesInv'
  <2>1. PICK a : a = [uid |-> added', id |-> NewId(doing[e].row), active |-> FALSE]
    OBVIOUS
  <2>2. e \in Everyone /\ Leaves(e) /\ stored' = doing[e].row \cup {a} /\ wanted' = wanted \cup {added'} /\ added' = added + 1
    BY <1>2, <2>1 DEF AddSaves, Save, Everyone
  <2>3. /\ a.uid = added + 1 /\ a.id \in 1..(added + 1) /\ \A b \in doing[e].row : b.id < a.id
    BY <2>1, <2>2, <1>t, <1>r, NewIdIsNew
  <2>4. \A b \in doing[e].row : b.uid \in Nat /\ b.id \in Nat /\ b.uid <= added /\ b.id <= added
    BY <1>t, <1>r, <2>2 DEF Row, Alert, Known
  <2>5. Known(stored', added')
    BY <1>t, <2>2, <2>3, <2>4 DEF Known
  <2>6. OneEach(stored')
    <3>1. \A b \in doing[e].row : b.uid # a.uid /\ b.id # a.id
      BY <1>t, <2>3, <2>4
    <3>2. OneEach(doing[e].row)
      BY <1>r, <2>2
    <3> QED BY <2>2, <3>1, <3>2 DEF OneEach
  <2>7. \A b \in wanted' : b <= added'
    BY <1>t, <1>r, <2>2
  <2>8. \A b \in Alert : b > added' => told'[b] = 0 /\ rises'[b] = 0
    BY <1>2, <1>t, <1>r, <2>2 DEF AddSaves
  <2>9. doing'[e] = Rests /\ \A q \in Everyone \ {e} : doing'[q] = doing[q]
    BY <1>t, <2>2, DoingIs
  <2>10. doing'[e].pc = "idle" /\ doing'[e].row = {} /\ doing'[e].fired = {}
    BY <2>9 DEF Rests
  <2>11. Known(doing'[e].row, added') /\ OneEach(doing'[e].row) /\ \A b \in doing'[e].fired : b <= added'
    BY <2>10 DEF Known, OneEach
  <2>12. added' \in Nat /\ added <= added'
    BY <1>t, <2>2
  <2> QED BY <1>end, <2>2, <2>5, <2>6, <2>7, <2>8, <2>9, <2>10, <2>11, <2>12
<1>3. ASSUME NEW e \in Editors, RemoveSaves(e) PROVE RowsInv' /\ RolesInv'
  <2>1. /\ stored' \subseteq doing[e].row /\ wanted' \subseteq wanted /\ UNCHANGED <<added, told, rises>>
        /\ Leaves(e) /\ e \in Everyone
    BY <1>3 DEF RemoveSaves, Save, Everyone
  <2>2. Known(stored', added) /\ OneEach(stored')
    BY <1>r, <2>1 DEF Known, OneEach
  <2> QED BY <1>r, <1>rest, <2>1, <2>2
<1>4. ASSUME NEW c \in Checkers, Begin(c) PROVE RowsInv' /\ RolesInv'
  <2>1. c \in Everyone /\ doing[c].pc = "idle" /\ UNCHANGED <<added, stored, wanted, told, rises>> /\ c \notin Editors
    BY <1>4 DEF Begin, Everyone
  <2>2. doing[c].fired = {}
    BY <2>1 DEF RolesInv
  <2> QED BY <1>4, <2>1, <2>2, <1>load DEF Begin
<1>5. ASSUME NEW c \in Checkers, Undecided(c) PROVE RowsInv' /\ RolesInv'
  <2>1. c \in Everyone /\ UNCHANGED <<added, stored, wanted, told, rises>> /\ c \notin Editors /\ At(c, "decided")
    BY <1>5 DEF Undecided, Everyone
  <2>2. /\ doing'[c].pc = "decided" /\ doing'[c].row = doing[c].row /\ doing'[c].fired = doing[c].fired
        /\ \A q \in Everyone \ {c} : doing'[q] = doing[q]
    BY <1>t, <2>1, DoingIs
  <2> QED BY <1>t, <1>r, <1>end, <2>1, <2>2
<1>6. ASSUME NEW c \in Checkers, Decide(c) PROVE RowsInv' /\ RolesInv'
  <2>1. c \in Everyone /\ UNCHANGED <<added, stored, wanted, told, rises>> /\ c \notin Editors
    BY <1>6 DEF Decide, Everyone
  <2>2. /\ doing'[c].pc = "decided" /\ doing'[c].row = {[a EXCEPT !.active = line] : a \in doing[c].row}
        /\ doing'[c].fired = IF line THEN {a.uid : a \in {b \in doing[c].row : ~b.active}} ELSE {}
        /\ \A q \in Everyone \ {c} : doing'[q] = doing[q]
    BY <1>t, <1>6, <2>1, DoingIs
  <2>f. \A n \in doing'[c].fired : \E a \in doing[c].row : n = a.uid
    BY <2>2
  <2>3. \A x \in doing'[c].row : \E a \in doing[c].row : x.uid = a.uid /\ x.id = a.id /\ x.active = line /\ x = [a EXCEPT !.active = line]
    BY <1>t, <2>1, <2>2 DEF Row
  <2>4. Known(doing[c].row, added) /\ OneEach(doing[c].row)
    BY <1>r, <2>1
  <2>5. Known(doing'[c].row, added) /\ OneEach(doing'[c].row) /\ \A a \in doing'[c].fired : a <= added
    BY <2>f, <2>3, <2>4 DEF Known, OneEach
  <2>6. added' = added /\ added' \in Nat /\ added <= added'
    BY <2>1, <1>t
  <2>7. /\ Known(stored', added') /\ OneEach(stored') /\ (\A a \in wanted' : a <= added')
        /\ \A a \in Alert : a > added' => told'[a] = 0 /\ rises'[a] = 0
    BY <1>r, <2>1, <2>6
  <2>8. Known(doing'[c].row, added') /\ OneEach(doing'[c].row) /\ \A a \in doing'[c].fired : a <= added'
    BY <2>5, <2>6
  <2> QED BY <1>end, <2>1, <2>2, <2>6, <2>7, <2>8
<1>7. ASSUME NEW c \in Checkers, TimedOut(c) PROVE RowsInv' /\ RolesInv'
  BY <1>7, <1>r, <1>rest DEF TimedOut, Everyone
<1>8. ASSUME NEW c \in Checkers, Reload(c) PROVE RowsInv' /\ RolesInv'
  <2>1. c \in Everyone /\ UNCHANGED <<added, stored, wanted, told, rises>> /\ c \notin Editors
    BY <1>8 DEF Reload, Everyone
  <2>2. /\ doing'[c].pc = "save" /\ doing'[c].row = Merged(stored, doing[c].row) /\ doing'[c].fired = doing[c].fired
        /\ \A q \in Everyone \ {c} : doing'[q] = doing[q]
    BY <1>t, <1>8, <2>1, DoingIs
  <2>3. /\ \A x \in doing'[c].row : \E a \in stored : x.uid = a.uid /\ x.id = a.id
        /\ OneEach(doing'[c].row)
    BY <1>t, <1>r, <2>1, <2>2, MergedIs
  <2>4. Known(doing'[c].row, added)
    BY <1>r, <2>3 DEF Known
  <2> QED BY <1>t, <1>r, <1>end, <2>1, <2>2, <2>3, <2>4
<1>9. ASSUME NEW c \in Checkers, WriteBack(c) PROVE RowsInv' /\ RolesInv'
  <2>1. c \in Everyone /\ UNCHANGED <<added, wanted, told, rises>> /\ c \notin Editors /\ At(c, "notify") /\ stored' = doing[c].row
    BY <1>9 DEF WriteBack, Save, Everyone
  <2>2. /\ doing'[c].pc = "notify" /\ doing'[c].row = doing[c].row /\ doing'[c].fired = doing[c].fired
        /\ \A q \in Everyone \ {c} : doing'[q] = doing[q]
    BY <1>t, <2>1, DoingIs
  <2> QED BY <1>t, <1>r, <1>end, <2>1, <2>2
<1>10. ASSUME NEW c \in Checkers, Tell(c) PROVE RowsInv' /\ RolesInv'
  <2>1. c \in Everyone /\ UNCHANGED <<added, stored, wanted, rises>> /\ Leaves(c)
    BY <1>10 DEF Tell, Everyone
  <2>2. \A a \in Alert : a > added => told'[a] = 0
    BY <1>10, <1>t, <1>r, <2>1 DEF Tell
  <2> QED BY <1>r, <1>rest, <2>1, <2>2
<1>11. ASSUME NEW p \in Everyone, Crash(p) PROVE RowsInv' /\ RolesInv'
  BY <1>11, <1>r, <1>rest DEF Crash
<1>12. ASSUME Flip PROVE RowsInv' /\ RolesInv'
  <2>1. \A a \in Alert : a > added => rises'[a] = 0
    BY <1>12, <1>t, <1>r DEF Flip
  <2> QED BY <1>12, <2>1 DEF Flip, RowsInv, RolesInv
<1>13. ASSUME BeatEnds \/ UNCHANGED avars PROVE RowsInv' /\ RolesInv'
  BY <1>13 DEF BeatEnds, avars, RowsInv, RolesInv
<1>14. ASSUME FindsNone PROVE RowsInv' /\ RolesInv'
  BY <1>14 DEF FindsNone, RowsInv, RolesInv
<1>15. ASSUME NEW p \in Everyone, (p \in Editors /\ EditsBlindly(p)) \/ (p \in Checkers /\ ReloadsBlindly(p))
       PROVE  RowsInv' /\ RolesInv'
  <2>1. PICK pc : /\ Misreads(p, pc) /\ UNCHANGED <<added, stored, wanted, told, rises>>
                  /\ (p \in Editors => pc \in {"add", "remove"}) /\ (p \in Checkers => pc = "save")
                  /\ (pc # "save" => doing[p].fired = {})
    BY <1>15 DEF EditsBlindly, ReloadsBlindly, RolesInv
  <2>2. /\ doing'[p].pc = pc /\ doing'[p].row = {} /\ doing'[p].fired = doing[p].fired
        /\ \A q \in Everyone \ {p} : doing'[q] = doing[q]
    BY <1>t, <2>1, DoingIs
  <2>3. p \in Everyone /\ added' = added /\ added' \in Nat /\ added <= added'
    BY <1>t, <2>1
  <2>4. /\ Known(stored', added') /\ OneEach(stored') /\ (\A a \in wanted' : a <= added')
        /\ \A a \in Alert : a > added' => told'[a] = 0 /\ rises'[a] = 0
    BY <1>r, <2>1, <2>3
  <2>5. Known(doing'[p].row, added') /\ OneEach(doing'[p].row)
    BY <1>empty, <2>2, <2>3
  <2>6. \A a \in doing'[p].fired : a <= added'
    BY <1>r, <2>2, <2>3
  <2>7. /\ p \in Editors => doing'[p].pc \in {"idle", "add", "remove"}
        /\ p \in Checkers => doing'[p].pc \in {"idle", "asked", "decided", "save", "notify"}
        /\ doing'[p].pc \in {"idle", "add", "remove", "asked"} => doing'[p].fired = {}
    BY <2>1, <2>2, <2>3 DEF Everyone
  <2> HIDE <2>1
  <2> QED BY <1>end, <2>2, <2>3, <2>4, <2>5, <2>6, <2>7
<1> QED
  BY <1>1, <1>2, <1>3, <1>4, <1>5, <1>6, <1>7, <1>8, <1>9, <1>10, <1>11, <1>12, <1>13, <1>14, <1>15
  DEF AlertsNext, Everyone


\* While nothing raced, checks stay one at a time, what is about to be saved is what is stored, and
\* no edit is lost.
LEMMA QuietStep ==
  AlertsTypeOK /\ RowsInv /\ RolesInv /\ QuietInv /\ EditsSurviveChecks /\ [AlertsNext]_avars
    => QuietInv' /\ EditsSurviveChecks'
<1> SUFFICES ASSUME AlertsTypeOK, RowsInv, RolesInv, QuietInv, EditsSurviveChecks, [AlertsNext]_avars
             PROVE  QuietInv' /\ EditsSurviveChecks'
  OBVIOUS
<1> USE AlertBounds
<1>t. /\ raced \in BOOLEAN /\ stored \in Row /\ doing \in [Everyone -> Doing]
      /\ Checkers \subseteq Everyone /\ Editors \subseteq Everyone /\ Checkers \cap Editors = {}
      /\ \A p \in Everyone : doing[p].row \in Row
  BY DEF AlertsTypeOK, Doing, AlertPlaces, Everyone
<1>q. ~raced =>
      /\ \A c, d \in Checkers : doing[c].pc # "idle" /\ doing[d].pc # "idle" => c = d
      /\ \A e \in Editors : doing[e].pc \in {"add", "remove"} => doing[e].row \in {stored, {}}
      /\ \A c \in Checkers : doing[c].pc = "save" => SameAlerts(doing[c].row, stored) \/ doing[c].row = {}
      /\ wiped \/ {a.uid : a \in stored} = wanted
  BY DEF QuietInv, EditsSurviveChecks
<1>end. ASSUME ~raced' =>
                 /\ \A c, d \in Checkers : doing'[c].pc # "idle" /\ doing'[d].pc # "idle" => c = d
                 /\ \A e \in Editors : doing'[e].pc \in {"add", "remove"} => doing'[e].row \in {stored', {}}
                 /\ \A c \in Checkers : doing'[c].pc = "save" => SameAlerts(doing'[c].row, stored') \/ doing'[c].row = {}
                 /\ wiped' \/ {a.uid : a \in stored'} = wanted'
        PROVE  QuietInv' /\ EditsSurviveChecks'
  BY <1>end DEF QuietInv, EditsSurviveChecks
<1>same. ASSUME NEW p \in Everyone, ~raced' => ~raced, UNCHANGED <<stored, wanted, wiped>>,
                \A q \in Everyone \ {p} : doing'[q] = doing[q],
                ~raced' /\ p \in Checkers /\ doing'[p].pc # "idle"
                  => doing[p].pc # "idle" \/ \A c \in Checkers : doing[c].pc = "idle",
                p \in Editors /\ doing'[p].pc \in {"add", "remove"} => doing'[p].row \in {stored, {}},
                p \in Checkers /\ doing'[p].pc = "save" => SameAlerts(doing'[p].row, stored) \/ doing'[p].row = {}
         PROVE  QuietInv' /\ EditsSurviveChecks'
  <2> SUFFICES ASSUME ~raced'
               PROVE  /\ \A c, d \in Checkers : doing'[c].pc # "idle" /\ doing'[d].pc # "idle" => c = d
                      /\ \A e \in Editors : doing'[e].pc \in {"add", "remove"} => doing'[e].row \in {stored', {}}
                      /\ \A c \in Checkers : doing'[c].pc = "save" => SameAlerts(doing'[c].row, stored') \/ doing'[c].row = {}
                      /\ wiped' \/ {a.uid : a \in stored'} = wanted'
    BY <1>end
  <2>1. stored' = stored /\ wanted' = wanted /\ wiped' = wiped /\ ~raced
    BY <1>same
  <2>2. \A c, d \in Checkers : doing'[c].pc # "idle" /\ doing'[d].pc # "idle" => c = d
    BY <1>t, <1>q, <1>same, <2>1
  <2>3. \A e \in Editors : doing'[e].pc \in {"add", "remove"} => doing'[e].row \in {stored', {}}
    BY <1>t, <1>q, <1>same, <2>1
  <2>4. \A c \in Checkers : doing'[c].pc = "save" => SameAlerts(doing'[c].row, stored') \/ doing'[c].row = {}
    BY <1>t, <1>q, <1>same, <2>1
  <2> QED BY <1>q, <2>1, <2>2, <2>3, <2>4
<1>saved. ASSUME NEW p \in Everyone, NEW row, Save(p, row),
                 \A q \in Everyone \ {p} : doing'[q] = doing[q],
                 doing'[p].pc \in {"idle", "notify"}, doing'[p].pc # "idle" => doing[p].pc # "idle",
                 ~raced' => wiped' \/ {a.uid : a \in row} = wanted'
          PROVE  QuietInv' /\ EditsSurviveChecks'
  <2> SUFFICES ASSUME ~raced'
               PROVE  /\ \A c, d \in Checkers : doing'[c].pc # "idle" /\ doing'[d].pc # "idle" => c = d
                      /\ \A e \in Editors : doing'[e].pc \in {"add", "remove"} => doing'[e].row \in {stored', {}}
                      /\ \A c \in Checkers : doing'[c].pc = "save" => SameAlerts(doing'[c].row, stored') \/ doing'[c].row = {}
                      /\ wiped' \/ {a.uid : a \in stored'} = wanted'
    BY <1>end
  <2>1. stored' = row /\ ~raced /\ \A q \in Everyone \ {p} : doing[q].pc \notin {"save", "add", "remove"}
    BY <1>saved DEF Save
  <2>2. \A q \in Everyone : doing'[q].pc \notin {"save", "add", "remove"}
    BY <1>saved, <2>1
  <2>3. \A c, d \in Checkers : doing'[c].pc # "idle" /\ doing'[d].pc # "idle" => c = d
    BY <1>t, <1>q, <1>saved, <2>1
  <2> QED BY <1>t, <1>saved, <2>1, <2>2, <2>3
<1>rest. ASSUME NEW p \in Everyone, Leaves(p), ~raced' => ~raced, UNCHANGED <<stored, wanted, wiped>>
         PROVE  QuietInv' /\ EditsSurviveChecks'
  <2>0. Leaves(p)
    BY <1>rest
  <2>1. doing'[p] = Rests /\ \A q \in Everyone \ {p} : doing'[q] = doing[q]
    BY <1>t, <2>0, DoingIs
  <2>2. doing'[p].pc = "idle"
    BY <2>1 DEF Rests
  <2> QED BY <1>rest, <1>same, <2>1, <2>2
<1>1. ASSUME NEW e \in Editors, AddLoads(e) \/ RemoveLoads(e) PROVE QuietInv' /\ EditsSurviveChecks'
  <2>1. e \in Everyone /\ UNCHANGED <<stored, wanted, raced, wiped>> /\ e \notin Checkers
    BY <1>1, <1>t DEF AddLoads, RemoveLoads
  <2>2. Loads(e, "add") \/ Loads(e, "remove")
    BY <1>1 DEF AddLoads, RemoveLoads
  <2>3. doing'[e].row = stored /\ \A q \in Everyone \ {e} : doing'[q] = doing[q]
    BY <1>t, <2>1, <2>2, DoingIs
  <2> QED BY <1>same, <2>1, <2>3
<1>2. ASSUME NEW e \in Editors, AddSaves(e) PROVE QuietInv' /\ EditsSurviveChecks'
  <2>1. PICK a : a = [uid |-> added', id |-> NewId(doing[e].row), active |-> FALSE]
    OBVIOUS
  <2>2. PICK row : row = doing[e].row \cup {a}
    OBVIOUS
  <2>3. e \in Everyone /\ Leaves(e) /\ Save(e, row) /\ wanted' = wanted \cup {added'} /\ doing[e].pc = "add"
    BY <1>2, <1>t, <2>1, <2>2 DEF AddSaves
  <2>4. doing'[e] = Rests /\ \A q \in Everyone \ {e} : doing'[q] = doing[q]
    BY <1>t, <2>3, DoingIs
  <2>5. doing'[e].pc = "idle"
    BY <2>4 DEF Rests
  <2>6. ASSUME ~raced', ~wiped' PROVE {b.uid : b \in row} = wanted'
    <3>1. ~raced /\ ~wiped /\ (doing[e].row = {} => stored = {})
      BY <2>3, <2>6 DEF Save
    <3>2. doing[e].row = stored /\ {b.uid : b \in stored} = wanted
      BY <1>q, <2>3, <3>1
    <3>3. a.uid = added'
      BY <2>1
    <3> QED BY <2>2, <2>3, <3>2, <3>3
  <2> QED BY <1>saved, <2>3, <2>4, <2>5, <2>6
<1>3. ASSUME NEW e \in Editors, RemoveSaves(e) PROVE QuietInv' /\ EditsSurviveChecks'
  <2>1. PICK id \in Alert :
          /\ Save(e, {b \in doing[e].row : b.id # id})
          /\ wanted' = wanted \ {b.uid : b \in {c \in doing[e].row : c.id = id}}
    BY <1>3 DEF RemoveSaves
  <2>2. PICK row : row = {b \in doing[e].row : b.id # id}
    OBVIOUS
  <2>3. e \in Everyone /\ Leaves(e) /\ Save(e, row) /\ doing[e].pc = "remove"
    BY <1>3, <1>t, <2>1, <2>2 DEF RemoveSaves
  <2>4. doing'[e] = Rests /\ \A q \in Everyone \ {e} : doing'[q] = doing[q]
    BY <1>t, <2>3, DoingIs
  <2>5. doing'[e].pc = "idle"
    BY <2>4 DEF Rests
  <2>6. ASSUME ~raced', ~wiped' PROVE {b.uid : b \in row} = wanted'
    <3>1. ~raced /\ ~wiped /\ (doing[e].row = {} => stored = {})
      BY <2>3, <2>6 DEF Save
    <3>2. doing[e].row = stored /\ {b.uid : b \in stored} = wanted
      BY <1>q, <2>3, <3>1
    <3>3. \A b, c \in stored : b.uid = c.uid => b = c
      BY DEF RowsInv, OneEach
    <3>4. wanted' = wanted \ {b.uid : b \in {c \in stored : c.id = id}} /\ row = {b \in stored : b.id # id}
      BY <2>1, <2>2, <3>2
    <3> QED BY <3>2, <3>3, <3>4
  <2> QED BY <1>saved, <2>3, <2>4, <2>5, <2>6
<1>4. ASSUME NEW c \in Checkers, Begin(c) PROVE QuietInv' /\ EditsSurviveChecks'
  <2>1. c \in Everyone /\ UNCHANGED <<stored, wanted, wiped>> /\ c \notin Editors /\ Loads(c, "asked")
        /\ raced' = (raced \/ Checking # {})
    BY <1>4, <1>t DEF Begin
  <2>2. doing'[c].pc = "asked" /\ \A q \in Everyone \ {c} : doing'[q] = doing[q]
    BY <1>t, <2>1, DoingIs
  <2>3. ~raced' => ~raced /\ \A d \in Checkers : doing[d].pc = "idle"
    BY <2>1 DEF Checking
  <2> QED BY <1>same, <2>1, <2>2, <2>3
<1>5. ASSUME NEW c \in Checkers, Undecided(c) \/ Decide(c) PROVE QuietInv' /\ EditsSurviveChecks'
  <2>1. c \in Everyone /\ UNCHANGED <<stored, wanted, raced, wiped>> /\ c \notin Editors /\ doing[c].pc = "asked"
    BY <1>5, <1>t DEF Undecided, Decide
  <2>2. At(c, "decided") \/ Decide(c)
    BY <1>5 DEF Undecided
  <2>3. doing'[c].pc = "decided" /\ \A q \in Everyone \ {c} : doing'[q] = doing[q]
    BY <1>t, <2>1, <2>2, DoingIs
  <2> QED BY <1>same, <2>1, <2>3
<1>7. ASSUME NEW c \in Checkers, TimedOut(c) \/ Tell(c) PROVE QuietInv' /\ EditsSurviveChecks'
  BY <1>7, <1>t, <1>rest DEF TimedOut, Tell
<1>8. ASSUME NEW c \in Checkers, Reload(c) PROVE QuietInv' /\ EditsSurviveChecks'
  <2>1. c \in Everyone /\ UNCHANGED <<stored, wanted, raced, wiped>> /\ c \notin Editors /\ doing[c].pc = "decided"
    BY <1>8, <1>t DEF Reload
  <2>2. /\ doing'[c].pc = "save" /\ doing'[c].row = Merged(stored, doing[c].row)
        /\ \A q \in Everyone \ {c} : doing'[q] = doing[q]
    BY <1>t, <1>8, <2>1, DoingIs
  <2>3. /\ \A x \in doing'[c].row : \E a \in stored : x.uid = a.uid /\ x.id = a.id
        /\ \A a \in stored : \E x \in doing'[c].row : x.uid = a.uid /\ x.id = a.id
    BY <1>t, <2>1, <2>2, MergedIs
  <2>4. SameAlerts(doing'[c].row, stored)
    BY <2>3 DEF SameAlerts
  <2> QED BY <1>same, <2>1, <2>2, <2>4
<1>9. ASSUME NEW c \in Checkers, WriteBack(c) PROVE QuietInv' /\ EditsSurviveChecks'
  <2>1. c \in Everyone /\ wanted' = wanted /\ At(c, "notify") /\ Save(c, doing[c].row) /\ doing[c].pc = "save"
    BY <1>9, <1>t DEF WriteBack
  <2>2. doing'[c].pc = "notify" /\ \A q \in Everyone \ {c} : doing'[q] = doing[q]
    BY <1>t, <2>1, DoingIs
  <2>3. ASSUME ~raced', ~wiped' PROVE {a.uid : a \in doing[c].row} = wanted'
    <3>1. ~raced /\ ~wiped /\ (doing[c].row = {} => stored = {})
      BY <2>1, <2>3 DEF Save
    <3>2. (SameAlerts(doing[c].row, stored) \/ doing[c].row = {}) /\ {a.uid : a \in stored} = wanted
      BY <1>q, <2>1, <3>1
    <3> QED BY <2>1, <3>1, <3>2 DEF SameAlerts
  <2> QED BY <1>saved, <2>1, <2>2, <2>3
<1>11. ASSUME NEW p \in Everyone, Crash(p) PROVE QuietInv' /\ EditsSurviveChecks'
  BY <1>11, <1>rest DEF Crash
<1>12. ASSUME Flip \/ BeatEnds \/ FindsNone \/ UNCHANGED avars PROVE QuietInv' /\ EditsSurviveChecks'
  BY <1>12 DEF Flip, BeatEnds, FindsNone, avars, QuietInv, EditsSurviveChecks
<1>13. ASSUME NEW p \in Everyone, (p \in Editors /\ EditsBlindly(p)) \/ (p \in Checkers /\ ReloadsBlindly(p))
       PROVE  QuietInv' /\ EditsSurviveChecks'
  <2>1. PICK pc : /\ Misreads(p, pc) /\ UNCHANGED <<stored, wanted, raced, wiped>>
                  /\ (p \in Checkers => doing[p].pc # "idle")
    BY <1>13, <1>t DEF EditsBlindly, ReloadsBlindly
  <2>2. doing'[p].row = {} /\ \A q \in Everyone \ {p} : doing'[q] = doing[q]
    BY <1>t, <2>1, DoingIs
  <2> QED BY <1>same, <2>1, <2>2
<1> QED
  BY <1>1, <1>2, <1>3, <1>4, <1>5, <1>7, <1>8, <1>9, <1>11, <1>12, <1>13 DEF AlertsNext, Everyone


\* While nothing raced, every notice given or on its way, and every crossing nobody noticed yet, is
\* one of the crossings counted; a check keeps what it loaded apart from what was added since.
LEMMA CrossedStep ==
  /\ AlertsTypeOK /\ RowsInv /\ RolesInv /\ QuietInv /\ CrossedInv /\ SinceInv
  /\ [AlertsNext]_avars
  => CrossedInv' /\ SinceInv'
<1> SUFFICES ASSUME AlertsTypeOK, RowsInv, RolesInv, QuietInv, CrossedInv, SinceInv, [AlertsNext]_avars
             PROVE  CrossedInv' /\ SinceInv'
  OBVIOUS
<1> USE AlertBounds
<1> DEFINE Good(d, now, on, t, n) == CoveredBy(d, now, on, t, n) /\ Since(d, now)
<1>t. /\ raced \in BOOLEAN /\ stored \in Row /\ doing \in [Everyone -> Doing] /\ line \in BOOLEAN
      /\ Checkers \subseteq Everyone /\ Editors \subseteq Everyone /\ Checkers \cap Editors = {}
      /\ \A p \in Everyone : doing[p].row \in Row /\ doing[p].fired \in SUBSET Alert
      /\ added \in Nat /\ rises \in [Alert -> Nat] /\ told \in [Alert -> Nat]
      /\ \A a \in Alert : a \in Nat /\ rises[a] \in Nat /\ told[a] \in Nat
  BY DEF AlertsTypeOK, Doing, AlertPlaces, Everyone, Alert
<1>el. \A row \in Row : \A r \in row : r.uid \in Alert /\ r.id \in Alert /\ r.active \in BOOLEAN
  BY DEF Row
<1>q. ~raced =>
      /\ \A c, d \in Checkers : doing[c].pc # "idle" /\ doing[d].pc # "idle" => c = d
      /\ \A e \in Editors : doing[e].pc \in {"add", "remove"} => doing[e].row \in {stored, {}}
  BY DEF QuietInv
<1>c. ~raced => /\ \A a \in Alert : told[a] <= rises[a]
                /\ \A s \in stored : Covered(s, {}, line, told, rises)
                /\ \A c \in Checkers : Good(doing[c], stored, line, told, rises)
  BY DEF CrossedInv, SinceInv
<1>end. ASSUME ~raced' => /\ \A a \in Alert : told'[a] <= rises'[a]
                          /\ \A s \in stored' : Covered(s, {}, line', told', rises')
                          /\ \A c \in Checkers : Good(doing'[c], stored', line', told', rises')
        PROVE  CrossedInv' /\ SinceInv'
  BY <1>end DEF CrossedInv, SinceInv
<1>idle. ASSUME NEW d, NEW now, NEW on, NEW t, NEW n, d.pc = "idle" PROVE Good(d, now, on, t, n)
  BY <1>idle DEF CoveredBy, Since
<1>same. ASSUME NEW p \in Everyone, ~raced' => ~raced, UNCHANGED <<line, stored, told, rises>>,
                \A q \in Everyone \ {p} : doing'[q] = doing[q],
                ~raced /\ p \in Checkers => Good(doing'[p], stored, line, told, rises)
         PROVE  CrossedInv' /\ SinceInv'
  <2> HIDE DEF Good
  <2>1. line' = line /\ stored' = stored /\ told' = told /\ rises' = rises
    BY <1>same
  <2>2. ~raced' => /\ \A a \in Alert : told'[a] <= rises'[a]
                   /\ \A s \in stored' : Covered(s, {}, line', told', rises')
    BY <1>c, <1>same, <2>1
  <2>3. ~raced' => \A c \in Checkers : Good(doing'[c], stored', line', told', rises')
    BY <1>c, <1>t, <1>same, <2>1
  <2> QED BY <1>end, <2>2, <2>3
<1>rest. ASSUME NEW p \in Everyone, Leaves(p), ~raced' => ~raced, UNCHANGED <<line, stored, told, rises>>
         PROVE  CrossedInv' /\ SinceInv'
  <2>0. Leaves(p)
    BY <1>rest
  <2>1. doing'[p] = Rests /\ \A q \in Everyone \ {p} : doing'[q] = doing[q]
    BY <1>t, <2>0, DoingIs
  <2>2. doing'[p].pc = "idle"
    BY <2>1 DEF Rests
  <2>3. Good(doing'[p], stored, line, told, rises)
    BY <2>2, <1>idle
  <2> HIDE DEF Good
  <2> QED BY <1>rest, <1>same, <2>1, <2>3
<1>1. ASSUME NEW e \in Editors, AddLoads(e) \/ RemoveLoads(e) PROVE CrossedInv' /\ SinceInv'
  <2>1. e \in Everyone /\ UNCHANGED <<line, stored, told, rises, raced>> /\ e \notin Checkers
    BY <1>1, <1>t DEF AddLoads, RemoveLoads
  <2>2. Loads(e, "add") \/ Loads(e, "remove")
    BY <1>1 DEF AddLoads, RemoveLoads
  <2>3. \A q \in Everyone \ {e} : doing'[q] = doing[q]
    BY <1>t, <2>1, <2>2, DoingIs
  <2> HIDE DEF Good
  <2> QED BY <1>same, <2>1, <2>3
<1>4. ASSUME NEW c \in Checkers, Begin(c) PROVE CrossedInv' /\ SinceInv'
  <2>1. c \in Everyone /\ UNCHANGED <<line, stored, told, rises>> /\ Loads(c, "asked") /\ doing[c].pc = "idle"
        /\ (~raced' => ~raced)
    BY <1>4, <1>t DEF Begin
  <2>2. /\ doing'[c].pc = "asked" /\ doing'[c].row = stored /\ doing'[c].fired = doing[c].fired
        /\ \A q \in Everyone \ {c} : doing'[q] = doing[q]
    BY <1>t, <2>1, DoingIs
  <2>3. doing'[c].fired = {}
    BY <2>1, <2>2 DEF RolesInv
  <2>4. ~raced => Good(doing'[c], stored, line, told, rises)
    BY <1>c, <2>2, <2>3 DEF CoveredBy, Since
  <2> HIDE DEF Good
  <2> QED BY <1>same, <2>1, <2>2, <2>4
<1>5. ASSUME NEW c \in Checkers, Undecided(c) PROVE CrossedInv' /\ SinceInv'
  <2>1. c \in Everyone /\ UNCHANGED <<line, stored, told, rises, raced>> /\ At(c, "decided") /\ doing[c].pc = "asked"
    BY <1>5, <1>t DEF Undecided
  <2>2. /\ doing'[c].pc = "decided" /\ doing'[c].row = doing[c].row /\ doing'[c].fired = doing[c].fired
        /\ \A q \in Everyone \ {c} : doing'[q] = doing[q]
    BY <1>t, <2>1, DoingIs
  <2>3. doing'[c].fired = {}
    BY <2>1, <2>2 DEF RolesInv
  <2>4. ~raced => Good(doing'[c], stored, line, told, rises)
    BY <1>c, <2>1, <2>2, <2>3 DEF CoveredBy, Since
  <2> HIDE DEF Good
  <2> QED BY <1>same, <2>1, <2>2, <2>4
<1>7. ASSUME NEW c \in Checkers, TimedOut(c) PROVE CrossedInv' /\ SinceInv'
  BY <1>7, <1>t, <1>rest DEF TimedOut
<1>2. ASSUME NEW e \in Editors, AddSaves(e) PROVE CrossedInv' /\ SinceInv'
  <2>1. PICK a : a = [uid |-> added', id |-> NewId(doing[e].row), active |-> FALSE]
    OBVIOUS
  <2>2. /\ e \in Everyone /\ Leaves(e) /\ stored' = doing[e].row \cup {a} /\ added' = added + 1 /\ (~raced' => ~raced)
        /\ line' = line /\ told' = told /\ rises' = [rises EXCEPT ![added'] = IF line THEN 1 ELSE 0]
        /\ doing[e].pc = "add" /\ added < MaxAlerts
    BY <1>2, <1>t, <2>1 DEF AddSaves, Save
  <2>3. added' \in Alert /\ added' > added
    BY <1>t, <2>2 DEF Alert
  <2>4. a.uid = added' /\ a.active = FALSE /\ told[added'] = 0 /\ rises'[added'] = IF line THEN 1 ELSE 0
    BY <1>t, <2>1, <2>2, <2>3 DEF RowsInv
  <2>5. \A n \in Alert : n <= added => n # added' /\ rises'[n] = rises[n]
    BY <1>t, <2>2, <2>3
  <2>6. \A q \in Everyone : /\ \A r \in doing[q].row : r.uid \in Alert /\ r.uid <= added
                            /\ \A n \in doing[q].fired : n \in Alert /\ n <= added
    BY <1>t, <1>el DEF RowsInv, Known
  <2>7. \A s \in stored : s.uid \in Alert /\ s.uid <= added
    BY <1>t, <1>el DEF RowsInv, Known
  <2>8. doing'[e] = Rests /\ \A q \in Everyone \ {e} : doing'[q] = doing[q]
    BY <1>t, <2>2, DoingIs
  <2> SUFFICES ASSUME ~raced'
               PROVE  /\ \A n \in Alert : told'[n] <= rises'[n]
                      /\ \A s \in stored' : Covered(s, {}, line', told', rises')
                      /\ \A c \in Checkers : Good(doing'[c], stored', line', told', rises')
    BY <1>end
  <2>9. ~raced /\ a \in stored' /\ stored' \subseteq stored \cup {a}
    BY <1>q, <2>2
  <2>10. \A n \in Alert : told'[n] <= rises'[n]
    <3>1. \A n \in Alert : n # added' => rises'[n] = rises[n]
      BY <1>t, <2>2
    <3> QED BY <1>t, <1>c, <2>2, <2>4, <2>9, <3>1
  <2>11. ASSUME NEW r, NEW fired, r.uid \in Alert, r.uid <= added, Covered(r, fired, line, told, rises)
         PROVE  Covered(r, fired, line', told', rises')
    BY <2>2, <2>5, <2>11 DEF Covered
  <2>12. ASSUME NEW fired, added' \notin fired PROVE Covered(a, fired, line', told', rises')
    BY <2>2, <2>4, <2>12 DEF Covered
  <2>13. \A s \in stored' : Covered(s, {}, line', told', rises')
    BY <1>c, <2>7, <2>9, <2>11, <2>12
  <2>14. ASSUME NEW c \in Checkers PROVE Good(doing'[c], stored', line', told', rises')
    <3>1. doing'[c] = doing[c]
      BY <1>t, <2>2, <2>8
    <3>2. CoveredBy(doing[c], stored, line, told, rises) /\ Since(doing[c], stored)
      BY <1>c, <2>9
    <3>3. added' \notin doing[c].fired /\ \A r \in doing[c].row : r.uid # a.uid
      BY <1>t, <2>3, <2>4, <2>6
    <3>4. doing[c].pc \in {"decided", "save", "notify"} => \A n \in doing[c].fired : told'[n] + 1 <= rises'[n]
      BY <1>t, <2>2, <2>5, <2>6, <3>2 DEF CoveredBy
    <3>5. doing[c].pc \in {"asked", "decided", "save"} =>
            \A r \in doing[c].row : Covered(r, doing[c].fired, line', told', rises')
      BY <1>t, <2>6, <2>11, <3>2 DEF CoveredBy
    <3>6. doing[c].pc = "notify" => \A s \in stored' : Covered(s, doing[c].fired, line', told', rises')
      BY <2>7, <2>9, <2>11, <2>12, <3>2, <3>3 DEF CoveredBy
    <3>7. Since(doing[c], stored')
      BY <2>4, <2>9, <3>2, <3>3 DEF Since
    <3> QED BY <3>1, <3>4, <3>5, <3>6, <3>7 DEF CoveredBy
  <2> QED BY <2>10, <2>13, <2>14
<1>3. ASSUME NEW e \in Editors, RemoveSaves(e) PROVE CrossedInv' /\ SinceInv'
  <2>1. /\ e \in Everyone /\ Leaves(e) /\ stored' \subseteq doing[e].row /\ (~raced' => ~raced)
        /\ line' = line /\ told' = told /\ rises' = rises /\ doing[e].pc = "remove"
    BY <1>3, <1>t DEF RemoveSaves, Save
  <2>2. \A q \in Everyone \ {e} : doing'[q] = doing[q]
    BY <1>t, <2>1, DoingIs
  <2> SUFFICES ASSUME ~raced'
               PROVE  /\ \A n \in Alert : told'[n] <= rises'[n]
                      /\ \A s \in stored' : Covered(s, {}, line', told', rises')
                      /\ \A c \in Checkers : Good(doing'[c], stored', line', told', rises')
    BY <1>end
  <2>3. ~raced /\ stored' \subseteq stored
    BY <1>q, <2>1
  <2>4. \A c \in Checkers : Good(doing[c], stored, line, told, rises) => Good(doing[c], stored', line, told, rises)
    BY <2>3 DEF CoveredBy, Since
  <2>5. \A c \in Checkers : doing'[c] = doing[c]
    BY <1>t, <2>1, <2>2
  <2> HIDE DEF Good
  <2> QED BY <1>c, <2>1, <2>3, <2>4, <2>5
<1>6. ASSUME NEW c \in Checkers, Decide(c) PROVE CrossedInv' /\ SinceInv'
  <2>1. c \in Everyone /\ UNCHANGED <<line, stored, told, rises, raced>> /\ doing[c].pc = "asked"
    BY <1>6, <1>t DEF Decide
  <2>2. /\ doing'[c].pc = "decided" /\ doing'[c].row = {[a EXCEPT !.active = line] : a \in doing[c].row}
        /\ doing'[c].fired = IF line THEN {a.uid : a \in {b \in doing[c].row : ~b.active}} ELSE {}
        /\ \A q \in Everyone \ {c} : doing'[q] = doing[q]
    BY <1>t, <1>6, <2>1, DoingIs
  <2>3. /\ \A x \in doing'[c].row : \E a \in doing[c].row : x.uid = a.uid /\ x.id = a.id /\ x.active = line
        /\ \A a \in doing[c].row : \E x \in doing'[c].row : x.uid = a.uid /\ x.id = a.id
    <3>1. ASSUME NEW a \in doing[c].row
          PROVE  [a EXCEPT !.active = line].uid = a.uid /\ [a EXCEPT !.active = line].id = a.id /\ [a EXCEPT !.active = line].active = line
      <4>1. a \in Told
        BY <1>t, <2>1 DEF Row, Told
      <4> QED BY <4>1 DEF Told
    <3> QED BY <2>2, <3>1
  <2>4. doing[c].fired = {}
    BY <2>1 DEF RolesInv
  <2>5. ASSUME ~raced PROVE Good(doing'[c], stored, line, told, rises)
    <3>1. /\ \A a \in Alert : told[a] <= rises[a]
          /\ \A r \in doing[c].row : Covered(r, {}, line, told, rises)
          /\ \A s \in stored : \/ \E r \in doing[c].row : r.uid = s.uid /\ r.id = s.id
                               \/ ~s.active /\ \A r \in doing[c].row : r.uid # s.uid
      BY <1>c, <2>1, <2>4, <2>5 DEF CoveredBy, Since
    <3>2. ASSUME NEW n \in doing'[c].fired PROVE n \in Alert /\ told[n] + 1 <= rises[n] /\ line
      <4>1. line
        BY <2>2, <3>2
      <4>2. PICK b \in doing[c].row : ~b.active /\ b.uid = n
        BY <2>2, <3>2, <4>1
      <4>3. Covered(b, {}, line, told, rises) /\ b.uid \in Alert
        BY <1>t, <1>el, <2>1, <3>1
      <4> QED BY <1>t, <4>1, <4>2, <4>3 DEF Covered
    <3>3. ASSUME NEW x \in doing'[c].row PROVE Covered(x, doing'[c].fired, line, told, rises)
      <4>1. PICK a \in doing[c].row : x.uid = a.uid /\ x.active = line
        BY <2>3
      <4>2. x.uid \in Alert
        BY <1>t, <1>el, <2>1, <4>1
      <4>3. told[x.uid] \in Nat /\ rises[x.uid] \in Nat /\ told[x.uid] <= rises[x.uid]
        BY <1>t, <3>1, <4>2
      <4>4. CASE x.uid \in doing'[c].fired
        BY <3>2, <4>1, <4>3, <4>4 DEF Covered
      <4>5. CASE x.uid \notin doing'[c].fired
        BY <4>1, <4>3, <4>5 DEF Covered
      <4> QED BY <4>4, <4>5
    <3>4. \A n \in doing'[c].fired : \E r \in doing[c].row : r.uid = n
      BY <2>2
    <3>5. Since(doing'[c], stored)
      <4> SUFFICES ASSUME NEW s \in stored
                   PROVE  \/ \E r \in doing'[c].row : r.uid = s.uid /\ r.id = s.id
                          \/ /\ ~s.active /\ s.uid \notin doing'[c].fired
                             /\ \A r \in doing'[c].row : r.uid # s.uid
        BY DEF Since
      <4>1. CASE \E r \in doing[c].row : r.uid = s.uid /\ r.id = s.id
        BY <2>3, <4>1
      <4>2. CASE ~s.active /\ \A r \in doing[c].row : r.uid # s.uid
        BY <2>3, <3>4, <4>2
      <4> QED BY <3>1, <4>1, <4>2
    <3> QED BY <2>2, <3>2, <3>3, <3>5 DEF CoveredBy
  <2> HIDE DEF Good
  <2> QED BY <1>same, <2>1, <2>2, <2>5
<1>8. ASSUME NEW c \in Checkers, Reload(c) PROVE CrossedInv' /\ SinceInv'
  <2>1. c \in Everyone /\ UNCHANGED <<line, stored, told, rises, raced>> /\ doing[c].pc = "decided"
    BY <1>8, <1>t DEF Reload
  <2>2. /\ doing'[c].pc = "save" /\ doing'[c].row = Merged(stored, doing[c].row) /\ doing'[c].fired = doing[c].fired
        /\ \A q \in Everyone \ {c} : doing'[q] = doing[q]
    BY <1>t, <1>8, <2>1, DoingIs
  <2>3. \A x \in doing'[c].row : \E s \in stored :
          /\ x.uid = s.uid /\ x.id = s.id
          /\ \/ \E b \in doing[c].row : b.id = s.id /\ x.active = b.active
             \/ x.active = s.active /\ \A b \in doing[c].row : b.id # s.id
    BY <1>t, <2>1, <2>2, MergedIs
  <2>4. \A b, r \in doing[c].row : b.id = r.id => b = r
    BY <2>1 DEF RowsInv, OneEach
  <2>5. ASSUME ~raced PROVE Good(doing'[c], stored, line, told, rises)
    <3>1. /\ \A n \in doing[c].fired : told[n] + 1 <= rises[n]
          /\ \A r \in doing[c].row : Covered(r, doing[c].fired, line, told, rises)
          /\ \A s \in stored : Covered(s, {}, line, told, rises)
          /\ \A s \in stored : \/ \E r \in doing[c].row : r.uid = s.uid /\ r.id = s.id
                               \/ ~s.active /\ s.uid \notin doing[c].fired
      BY <1>c, <2>1, <2>5 DEF CoveredBy, Since
    <3>2. ASSUME NEW x \in doing'[c].row PROVE Covered(x, doing'[c].fired, line, told, rises)
      <4>1. PICK s \in stored :
              /\ x.uid = s.uid /\ x.id = s.id
              /\ \/ \E b \in doing[c].row : b.id = s.id /\ x.active = b.active
                 \/ x.active = s.active /\ \A b \in doing[c].row : b.id # s.id
        BY <2>3
      <4>2. CASE \E r \in doing[c].row : r.uid = s.uid /\ r.id = s.id
        <5>1. PICK r \in doing[c].row : r.uid = s.uid /\ r.id = s.id
          BY <4>2
        <5>2. x.uid = r.uid /\ x.active = r.active
          BY <2>4, <4>1, <5>1
        <5> QED BY <2>2, <3>1, <5>2 DEF Covered
      <4>3. CASE ~s.active /\ s.uid \notin doing[c].fired
        <5>1. told[x.uid] \in Nat /\ rises[x.uid] \in Nat
          BY <1>t, <1>el, <4>1
        <5>2. told[x.uid] + (IF line THEN 1 ELSE 0) <= rises[x.uid]
          BY <1>t, <3>1, <4>1, <4>3, <5>1 DEF Covered
        <5> QED BY <1>t, <2>2, <4>1, <4>3, <5>1, <5>2 DEF Covered
      <4> QED BY <3>1, <4>2, <4>3
    <3> QED BY <2>2, <3>1, <3>2 DEF CoveredBy, Since
  <2> HIDE DEF Good
  <2> QED BY <1>same, <2>1, <2>2, <2>5
<1>9. ASSUME NEW c \in Checkers, WriteBack(c) PROVE CrossedInv' /\ SinceInv'
  <2>1. /\ c \in Everyone /\ line' = line /\ told' = told /\ rises' = rises /\ At(c, "notify")
        /\ stored' = doing[c].row /\ (~raced' => ~raced) /\ doing[c].pc = "save"
    BY <1>9, <1>t DEF WriteBack, Save
  <2>2. /\ doing'[c].pc = "notify" /\ doing'[c].fired = doing[c].fired
        /\ \A q \in Everyone \ {c} : doing'[q] = doing[q]
    BY <1>t, <2>1, DoingIs
  <2> SUFFICES ASSUME ~raced'
               PROVE  /\ \A n \in Alert : told'[n] <= rises'[n]
                      /\ \A s \in stored' : Covered(s, {}, line', told', rises')
                      /\ \A d \in Checkers : Good(doing'[d], stored', line', told', rises')
    BY <1>end
  <2>3. ~raced /\ \A d \in Checkers \ {c} : doing'[d].pc = "idle"
    BY <1>q, <1>t, <2>1, <2>2
  <2>4. /\ \A n \in doing[c].fired : told[n] + 1 <= rises[n]
        /\ \A s \in stored' : Covered(s, doing[c].fired, line, told, rises)
    BY <1>c, <2>1, <2>3 DEF CoveredBy
  <2>5. \A s \in stored' : Covered(s, {}, line, told, rises)
    <3> SUFFICES ASSUME NEW s \in stored' PROVE Covered(s, {}, line, told, rises)
      OBVIOUS
    <3>1. told[s.uid] \in Nat /\ rises[s.uid] \in Nat
      BY <1>t, <1>el, <2>1
    <3> QED BY <2>4, <3>1 DEF Covered
  <2>6. Good(doing'[c], stored', line, told, rises)
    BY <2>2, <2>4 DEF CoveredBy, Since
  <2>7. \A d \in Checkers \ {c} : Good(doing'[d], stored', line, told, rises)
    BY <2>3, <1>idle
  <2> HIDE DEF Good
  <2> QED BY <1>c, <2>1, <2>3, <2>5, <2>6, <2>7
<1>10. ASSUME NEW c \in Checkers, Tell(c) PROVE CrossedInv' /\ SinceInv'
  <2>1. /\ c \in Everyone /\ line' = line /\ stored' = stored /\ rises' = rises /\ Leaves(c)
        /\ (~raced' => ~raced) /\ doing[c].pc = "notify"
        /\ told' = [a \in Alert |-> IF a \in doing[c].fired THEN told[a] + 1 ELSE told[a]]
    BY <1>10, <1>t DEF Tell
  <2>2. doing'[c] = Rests /\ \A q \in Everyone \ {c} : doing'[q] = doing[q]
    BY <1>t, <2>1, DoingIs
  <2> SUFFICES ASSUME ~raced'
               PROVE  /\ \A n \in Alert : told'[n] <= rises'[n]
                      /\ \A s \in stored' : Covered(s, {}, line', told', rises')
                      /\ \A d \in Checkers : Good(doing'[d], stored', line', told', rises')
    BY <1>end
  <2>3. ~raced /\ \A d \in Checkers : doing'[d].pc = "idle"
    BY <1>q, <1>t, <2>1, <2>2 DEF Rests
  <2>4. /\ \A n \in doing[c].fired : told[n] + 1 <= rises[n]
        /\ \A s \in stored : Covered(s, doing[c].fired, line, told, rises)
    BY <1>c, <2>1, <2>3 DEF CoveredBy
  <2>5. \A n \in Alert : told'[n] <= rises'[n]
    BY <1>c, <1>t, <2>1, <2>3, <2>4
  <2>6. ASSUME NEW s \in stored PROVE Covered(s, {}, line, told', rises)
    <3>1. s.uid \in Alert /\ told[s.uid] \in Nat /\ rises[s.uid] \in Nat
      BY <1>t, <1>el
    <3>2. told'[s.uid] = told[s.uid] + (IF s.uid \in doing[c].fired THEN 1 ELSE 0)
      BY <2>1, <3>1
    <3> QED BY <2>4, <3>1, <3>2 DEF Covered
  <2>7. \A d \in Checkers : Good(doing'[d], stored', line', told', rises')
    BY <2>3, <1>idle
  <2> HIDE DEF Good
  <2> QED BY <2>1, <2>5, <2>6, <2>7
<1>11. ASSUME NEW p \in Everyone, Crash(p) PROVE CrossedInv' /\ SinceInv'
  BY <1>11, <1>rest DEF Crash
<1>13. ASSUME BeatEnds \/ UNCHANGED avars PROVE CrossedInv' /\ SinceInv'
  BY <1>13 DEF BeatEnds, avars, CrossedInv, SinceInv
<1>14. ASSUME FindsNone PROVE CrossedInv' /\ SinceInv'
  BY <1>14 DEF FindsNone, CrossedInv, SinceInv
<1>15. ASSUME NEW p \in Everyone, (p \in Editors /\ EditsBlindly(p)) \/ (p \in Checkers /\ ReloadsBlindly(p))
       PROVE  CrossedInv' /\ SinceInv'
  <2>1. PICK pc : /\ Misreads(p, pc) /\ UNCHANGED <<line, stored, told, rises, raced>>
                  /\ (p \in Checkers => pc = "save" /\ doing[p].pc = "decided")
    BY <1>15, <1>t DEF EditsBlindly, ReloadsBlindly
  <2>2. /\ doing'[p].pc = pc /\ doing'[p].row = {} /\ doing'[p].fired = doing[p].fired
        /\ \A q \in Everyone \ {p} : doing'[q] = doing[q]
    BY <1>t, <2>1, DoingIs
  <2>3. ~raced /\ p \in Checkers => Good(doing'[p], stored, line, told, rises)
    BY <1>c, <2>1, <2>2 DEF CoveredBy, Since
  <2> HIDE DEF Good
  <2> QED BY <1>same, <2>1, <2>2, <2>3
<1>12. ASSUME Flip PROVE CrossedInv' /\ SinceInv'
  <2>1. /\ UNCHANGED <<stored, doing, told, raced>> /\ line' = ~line
        /\ rises' = [a \in Alert |-> IF line' /\ a <= added THEN rises[a] + 1 ELSE rises[a]]
    BY <1>12 DEF Flip
  <2>2. \A n \in Alert : rises'[n] \in Nat /\ rises[n] <= rises'[n] /\ (n <= added /\ ~line => rises'[n] = rises[n] + 1)
    <3> SUFFICES ASSUME NEW n \in Alert
                 PROVE  rises'[n] \in Nat /\ rises[n] <= rises'[n] /\ (n <= added /\ ~line => rises'[n] = rises[n] + 1)
      OBVIOUS
    <3>1. rises[n] \in Nat /\ rises'[n] = IF line' /\ n <= added THEN rises[n] + 1 ELSE rises[n]
      BY <1>t, <2>1
    <3>2. CASE line' /\ n <= added
      BY <3>1, <3>2
    <3>3. CASE ~(line' /\ n <= added)
      <4>1. rises'[n] = rises[n]
        BY <3>1, <3>3
      <4>2. ~(n <= added /\ ~line)
        BY <2>1, <3>3
      <4> QED BY <3>1, <4>1, <4>2
    <3> QED BY <3>2, <3>3
  <2>3. ASSUME NEW r, NEW fired, r.uid \in Alert, r.uid <= added, Covered(r, fired, line, told, rises)
        PROVE  Covered(r, fired, line', told', rises')
    <3>1. /\ told[r.uid] \in Nat /\ rises[r.uid] \in Nat /\ rises'[r.uid] \in Nat
          /\ rises[r.uid] <= rises'[r.uid] /\ (~line => rises'[r.uid] = rises[r.uid] + 1)
          /\ told' = told /\ line' = ~line
      BY <1>t, <2>1, <2>2, <2>3
    <3>2. told[r.uid] + (IF r.uid \in fired THEN 1 ELSE 0) + (IF line /\ ~r.active THEN 1 ELSE 0) <= rises[r.uid]
      BY <2>3 DEF Covered
    <3>3. CASE line
      BY <3>1, <3>2, <3>3 DEF Covered
    <3>4. CASE ~line
      BY <3>1, <3>2, <3>4 DEF Covered
    <3> QED BY <3>3, <3>4
  <2>4. \A q \in Everyone : /\ \A r \in doing[q].row : r.uid \in Alert /\ r.uid <= added
                            /\ \A n \in doing[q].fired : n \in Alert
    BY <1>t, <1>el DEF RowsInv, Known
  <2>5. \A s \in stored : s.uid \in Alert /\ s.uid <= added
    BY <1>t, <1>el DEF RowsInv, Known
  <2> SUFFICES ASSUME ~raced'
               PROVE  /\ \A n \in Alert : told'[n] <= rises'[n]
                      /\ \A s \in stored' : Covered(s, {}, line', told', rises')
                      /\ \A d \in Checkers : Good(doing'[d], stored', line', told', rises')
    BY <1>end
  <2>6. ~raced /\ stored' = stored /\ doing' = doing /\ told' = told
    BY <2>1
  <2>7. \A n \in Alert : told'[n] <= rises'[n]
    BY <1>c, <1>t, <2>2, <2>6
  <2>8. \A s \in stored' : Covered(s, {}, line', told', rises')
    BY <1>c, <2>3, <2>5, <2>6
  <2>9. ASSUME NEW d \in Checkers PROVE Good(doing'[d], stored', line', told', rises')
    <3>1. CoveredBy(doing[d], stored, line, told, rises) /\ Since(doing[d], stored)
      BY <1>c, <2>6
    <3>2. doing[d].pc \in {"decided", "save", "notify"} => \A n \in doing[d].fired : told'[n] + 1 <= rises'[n]
      BY <1>t, <2>2, <2>4, <2>6, <3>1 DEF CoveredBy
    <3>3. doing[d].pc \in {"asked", "decided", "save"} =>
            \A r \in doing[d].row : Covered(r, doing[d].fired, line', told', rises')
      BY <1>t, <2>3, <2>4, <3>1 DEF CoveredBy
    <3>4. doing[d].pc = "notify" => \A s \in stored : Covered(s, doing[d].fired, line', told', rises')
      BY <2>3, <2>5, <3>1 DEF CoveredBy
    <3> QED BY <2>6, <3>1, <3>2, <3>3, <3>4 DEF CoveredBy
  <2> QED BY <2>7, <2>8, <2>9
<1> QED
  BY <1>1, <1>2, <1>3, <1>4, <1>5, <1>6, <1>7, <1>8, <1>9, <1>10, <1>11, <1>12, <1>13, <1>14, <1>15
  DEF AlertsNext, Everyone

\* Whoever checks and whoever edits, however their loads and saves meet.
THEOREM AlertsInvariant == AlertsSpec => []AlertsInv
<1>1. AlertsInit => AlertsInv
  <2> SUFFICES ASSUME AlertsInit PROVE AlertsInv
    OBVIOUS
  <2> USE AlertBounds
  <2>1. \A p \in Everyone : doing[p].pc = "idle" /\ doing[p].row = {} /\ doing[p].fired = {}
    BY DEF AlertsInit, Rests
  <2>2. Rests \in Doing
    BY DEF Rests, Doing, AlertPlaces, Row
  <2>3. AlertsTypeOK
    <3>1. /\ line \in BOOLEAN /\ beat \in Beats /\ raced \in BOOLEAN /\ wiped \in BOOLEAN /\ stored \in Row /\ wanted \in SUBSET Alert
          /\ added \in 0..MaxAlerts /\ aleft \in [AlertKinds -> Nat]
      <4>1. line \in BOOLEAN /\ beat \in Beats /\ stored \in Row
        BY DEF AlertsInit, Beats, Row
      <4>2. raced \in BOOLEAN /\ wiped \in BOOLEAN /\ wanted \in SUBSET Alert
        BY DEF AlertsInit
      <4>3. added = 0 /\ aleft \in [AlertKinds -> Nat]
        BY DEF AlertsInit
      <4> QED BY <4>1, <4>2, <4>3
    <3>2. doing \in [Everyone -> Doing]
      BY <2>2 DEF AlertsInit
    <3>3. rises \in [Alert -> Nat] /\ told \in [Alert -> Nat]
      BY DEF AlertsInit
    <3> QED BY <3>1, <3>2, <3>3 DEF AlertsTypeOK, Doing, AlertPlaces
  <2>4. RowsInv /\ RolesInv
    BY <2>1 DEF AlertsInit, RowsInv, RolesInv, Known, OneEach, Everyone
  <2>5. QuietInv /\ EditsSurviveChecks
    BY <2>1 DEF AlertsInit, QuietInv, EditsSurviveChecks, Everyone
  <2>6. CrossedInv /\ SinceInv
    BY <2>1 DEF AlertsInit, CrossedInv, SinceInv, CoveredBy, Since, Everyone
  <2> QED BY <2>3, <2>4, <2>5, <2>6 DEF AlertsInv
<1>2. AlertsInv /\ [AlertsNext]_avars => AlertsInv'
  BY AlertsTypeStep, RowsStep, QuietStep, CrossedStep DEF AlertsInv
<1> QED BY <1>1, <1>2, PTL DEF AlertsSpec

\* An alert is notified no more often than its line was crossed since it was added, while no check
\* ran into another check and no row was saved over another's save (alerts.rs:4).
THEOREM AlertsFireOnce == AlertsSpec => []FiresOncePerCrossing
<1>1. AlertsInv => FiresOncePerCrossing
  BY DEF AlertsInv, CrossedInv, FiresOncePerCrossing
<1> QED BY <1>1, AlertsInvariant, PTL

\* An alert added or removed while a check waits for the network is neither lost nor brought back,
\* until a row is saved over another's save, or over alerts whose load failed (alerts.rs:239).
THEOREM AlertsKeepEdits == AlertsSpec => []EditsSurviveChecks
<1>1. AlertsInv => EditsSurviveChecks
  BY DEF AlertsInv
<1> QED BY <1>1, AlertsInvariant, PTL

-----------------------------------------------------------------------------
(* The inbox: types. *)

KeyStates == {"none", "live", "superseded", "expired", "deleted"}
SyncPlaces == {"idle", "anchor", "compare", "drop", "page", "match", "hash", "write", "news"}
MinedBlock == [v : Nat \ {0}, mail : SUBSET Mails, key : {0} \cup Key]
Item == [m : Mails, h : Nat \ {0}, at : Nat]

\* What a sync knows; of the peer's record, which it hands on, nothing is said.
Syncing(t) ==
  t \in [pc : SyncPlaces, head : Nat, at : [h : Nat, v : Nat], live : SUBSET Key, stale : SUBSET Mails,
         logs : SUBSET Item, got : SUBSET Item, peer : {t.peer}, hash : Nat, news : BOOLEAN]

InboxTypes ==
  /\ chain \in Seq(MinedBlock) /\ born \in Nat /\ peak \in Nat /\ sealed \in [Mails -> {0} \cup Key]
  /\ forks \in SUBSET Seq(MinedBlock) /\ stood \in Nat /\ course \in {"kept", "torn", "lost"}
  /\ weekly \in [Key -> KeyStates] /\ cursor \in [h : Nat, v : Nat]
  /\ inbox \in SUBSET Item /\ unwanted \in SUBSET Mails
  /\ task \in [Readers -> {task[r] : r \in Readers}] /\ \A r \in Readers : Syncing(task[r])

\* The greater and the lesser of two numbers.
LEMMA OfTwo ==
  ASSUME NEW a \in Int, NEW b \in Int
  PROVE  Max({a, b}) = (IF a <= b THEN b ELSE a) /\ Min({a, b}) = (IF a <= b THEN a ELSE b)
<1>1. \E x \in {a, b} : \A y \in {a, b} : x >= y
  OBVIOUS
<1>2. \E x \in {a, b} : \A y \in {a, b} : x <= y
  OBVIOUS
<1> QED BY <1>1, <1>2 DEF Max, Min

\* One reader goes on; the others stay where they are.
LEMMA StepTask ==
  ASSUME InboxTypes, NEW r \in Readers, NEW from, NEW job, Step(r, from, job), Syncing(job)
  PROVE  /\ task' \in [Readers -> {task'[q] : q \in Readers}] /\ \A q \in Readers : Syncing(task'[q])
         /\ task'[r] = job /\ task[r].pc = from
<1>1. task' = [task EXCEPT ![r] = job] /\ task[r].pc = from
  BY DEF Step
<1>2. task'[r] = job /\ \A q \in Readers \ {r} : task'[q] = task[q]
  BY <1>1 DEF InboxTypes
<1>3. DOMAIN task' = Readers /\ task' = [q \in Readers |-> task'[q]]
  BY <1>1 DEF InboxTypes
<1>4. task' \in [Readers -> {task'[q] : q \in Readers}]
  BY <1>3
<1>5. ASSUME NEW q \in Readers PROVE Syncing(task'[q])
  <2>1. CASE q = r
    BY <2>1, <1>2
  <2>2. CASE q # r
    BY <2>2, <1>2 DEF InboxTypes
  <2> QED BY <2>1, <2>2
<1> QED BY <1>1, <1>2, <1>4, <1>5

\* What the page's messages are, and where it ends.
LEMMA LogsType ==
  ASSUME InboxTypes, NEW a \in Nat, NEW e \in Nat
  PROVE  UNION {{[m |-> m, h |-> h, at |-> chain[h].v] : m \in chain[h].mail} : h \in (a + 1)..Min({e, Height})}
           \in SUBSET Item
<1>1. Height \in Nat
  BY DEF InboxTypes, Height
<1> DEFINE H == Height
<1>2. Min({e, H}) <= H /\ Min({e, H}) \in Nat
  <2> HIDE DEF H
  <2>1. Min({e, H}) = IF e <= H THEN e ELSE H
    BY <1>1, OfTwo DEF H
  <2> QED BY <1>1, <2>1 DEF H
<1>3. ASSUME NEW h \in (a + 1)..Min({e, Height}) PROVE {[m |-> m, h |-> h, at |-> chain[h].v] : m \in chain[h].mail} \in SUBSET Item
  <2>1. h \in 1..Len(chain) /\ h \in Nat \ {0}
    BY <1>1, <1>2, <1>3 DEF Height
  <2>2. chain[h] \in MinedBlock
    BY <2>1 DEF InboxTypes
  <2> QED BY <2>1, <2>2 DEF MinedBlock, Item
<1> QED BY <1>3

\* The block at a height, if there is one, is not nothing.
LEMMA HashIs ==
  ASSUME InboxTypes, NEW h \in Int
  PROVE  /\ HashAt(h) \in Nat
         /\ h \in 1..Height => HashAt(h) = chain[h].v /\ chain[h] \in MinedBlock /\ HashAt(h) # 0
         /\ h \notin 1..Height => HashAt(h) = 0
<1>1. h \in 1..Height => chain[h] \in MinedBlock
  BY DEF InboxTypes, Height
<1> QED BY <1>1 DEF HashAt, MinedBlock

\* The end of a reader's page.
LEMMA PageEndIs ==
  ASSUME InboxTypes, NEW r \in Readers
  PROVE  /\ PageEnd(r) \in Nat /\ PageEnd(r) <= task[r].head
         /\ PageEnd(r) <= task[r].at.h + Page
         /\ task[r].at.h < task[r].head => task[r].at.h < PageEnd(r)
<1>1. task[r].head \in Nat /\ task[r].at.h \in Nat /\ Page \in Nat \ {0}
  BY InboxBounds DEF InboxTypes, Syncing
<1> DEFINE a == task[r].head
           b == task[r].at.h + Page
<1>2. a \in Int /\ b \in Int
  BY <1>1
<1>3. Min({a, b}) = IF a <= b THEN a ELSE b
  <2> HIDE DEF a, b
  <2> QED BY <1>2, OfTwo
<1> QED BY <1>1, <1>3 DEF PageEnd

\* What becomes of a key when its grace is over, or another is announced.
LEMMA PrunedIs ==
  ASSUME InboxTypes, NEW seen
  PROVE  /\ Pruned(seen) \in [Key -> KeyStates]
         /\ \A k \in Key : /\ weekly[k] = "deleted" => Pruned(seen)[k] = "deleted"
                           /\ weekly[k] # "none" => Pruned(seen)[k] \in {"live", "superseded", "deleted"}
<1> DEFINE newest == LET had == {k \in Key : weekly[k] \in {"live", "superseded", "expired"}}
                     IN IF had \cap seen = {} THEN 0 ELSE Max(had \cap seen)
<1>1. Pruned(seen) = [k \in Key |-> CASE weekly[k] = "expired" -> "deleted"
                                      [] weekly[k] = "live" /\ k < newest -> "superseded"
                                      [] OTHER -> weekly[k]]
  BY DEF Pruned
<1> HIDE DEF newest
<1>2. ASSUME NEW k \in Key
      PROVE /\ Pruned(seen)[k] \in KeyStates
            /\ weekly[k] = "deleted" => Pruned(seen)[k] = "deleted"
            /\ weekly[k] # "none" => Pruned(seen)[k] \in {"live", "superseded", "deleted"}
  <2>1. weekly[k] \in KeyStates
    BY DEF InboxTypes
  <2>2. Pruned(seen)[k] \in {weekly[k], "deleted", "superseded"} /\ (weekly[k] = "expired" => Pruned(seen)[k] = "deleted")
    BY <1>1
  <2>3. weekly[k] = "deleted" => Pruned(seen)[k] = "deleted"
    BY <1>1
  <2> QED BY <2>1, <2>2, <2>3 DEF KeyStates
<1>3. Pruned(seen) \in [Key -> KeyStates]
  BY <1>1, <1>2
<1> QED BY <1>2, <1>3

\* The network, the other processes and the user keep the types.
LEMMA AroundTypes ==
  ASSUME InboxTypes,
         (\E m \in Mails : Seal(m)) \/ Mine \/ Return \/ Reorg \/ GraceEnds \/ EnsureWeek \/ Accept \/ Block \/ Unblock
           \/ Read
  PROVE  InboxTypes'
<1> USE DEF node, store, ghost, way
<1>1. CASE \E m \in Mails : Seal(m)
  <2>1. PICK m \in Mails : Seal(m)
    BY <1>1
  <2>2. Announced \in SUBSET (0..MaxKey) /\ 0 \notin Announced /\ Announced # {}
    <3>1. \A h \in 1..Height : chain[h].key \in {0} \cup Key
      <4>1. \A h \in 1..Height : chain[h] \in MinedBlock
        BY DEF InboxTypes, Height
      <4> QED BY <4>1 DEF MinedBlock
    <3>2. {0} \cup Key \in SUBSET (0..MaxKey) /\ 0 \notin Announced
      BY InboxBounds DEF Key, Announced
    <3> QED BY <2>1, <3>1, <3>2 DEF Seal, Announced
  <2>3. Max(Announced) \in Announced
    BY <2>2, GreatestOf, InboxBounds
  <2>4. Max(Announced) \in Key
    <3>1. \A x \in 0..MaxKey : x # 0 => x \in Key
      BY InboxBounds DEF Key
    <3> QED BY <2>2, <2>3, <3>1
  <2> QED BY <2>1, <2>4 DEF Seal, InboxTypes
<1>2. CASE Mine
  <2>1. PICK mail \in SUBSET {m \in Mails \ OnChain : sealed[m] # 0}, k \in {0} \cup {k \in Key \ Announced : weekly[k] # "none"} :
          chain' = Append(chain, [v |-> born + 1, mail |-> mail, key |-> k])
    BY <1>2 DEF Mine
  <2>2. [v |-> born + 1, mail |-> mail, key |-> k] \in MinedBlock
    BY DEF InboxTypes, MinedBlock
  <2>3. chain' \in Seq(MinedBlock) /\ born' \in Nat
    BY <1>2, <2>1, <2>2 DEF Mine, InboxTypes
  <2>4. peak \in Int /\ Height + 1 \in Int /\ peak \in Nat /\ Height + 1 \in Nat
    BY DEF InboxTypes, Height
  <2>5. peak' \in Nat
    <3> DEFINE H == Height + 1
    <3>1. peak' = Max({peak, H})
      BY <1>2 DEF Mine
    <3>2. H \in Int /\ peak \in Int
      BY <2>4
    <3> HIDE DEF H
    <3>3. Max({peak, H}) = IF peak <= H THEN H ELSE peak
      BY <3>2, OfTwo
    <3> QED BY <2>4, <3>1, <3>3 DEF H
  <2> QED BY <1>2, <2>3, <2>5 DEF Mine, InboxTypes
<1>3. CASE Reorg
  <2>1. PICK h \in 1..(Height - 1) : chain' = SubSeq(chain, 1, h)
    BY <1>3 DEF Reorg
  <2>2. chain' \in Seq(MinedBlock)
    BY <2>1 DEF InboxTypes, Height
  <2>3. forks' \in SUBSET Seq(MinedBlock)
    BY <1>3 DEF Reorg, InboxTypes
  <2> QED BY <1>3, <2>2, <2>3 DEF Reorg, InboxTypes
<1>7. CASE Return
  <2>1. PICK c \in forks : Height < Len(c) /\ chain' = SubSeq(c, 1, Height + 1)
    BY <1>7 DEF Return
  <2>2. c \in Seq(MinedBlock) /\ Height \in Nat /\ peak \in Nat
    BY DEF InboxTypes, Height
  <2>3. chain' \in Seq(MinedBlock)
    BY <2>1, <2>2
  <2>4. peak' \in Nat
    <3> DEFINE H == Height + 1
    <3>1. peak' = Max({peak, H}) /\ H \in Nat
      BY <1>7, <2>2 DEF Return
    <3> HIDE DEF H
    <3>2. Max({peak, H}) = IF peak <= H THEN H ELSE peak
      BY <2>2, <3>1, OfTwo
    <3> QED BY <2>2, <3>1, <3>2
  <2> QED BY <1>7, <2>3, <2>4 DEF Return, InboxTypes
<1>4. CASE GraceEnds
  <2>1. weekly' \in [Key -> KeyStates]
    BY <1>4 DEF GraceEnds, InboxTypes, KeyStates
  <2> QED BY <1>4, <2>1 DEF GraceEnds, InboxTypes
<1>5. CASE EnsureWeek
  <2>1. weekly' \in [Key -> KeyStates]
    BY <1>5 DEF EnsureWeek, InboxTypes, KeyStates
  <2> QED BY <1>5, <2>1 DEF EnsureWeek, InboxTypes
<1>6. CASE Accept \/ Block \/ Unblock \/ Read
  <2>1. UNCHANGED <<chain, born, forks, peak, sealed, weekly, cursor, inbox, unwanted, task, stood, course>>
    BY <1>6 DEF Accept, Block, Unblock, Read, Stands, Update
  <2> QED BY <2>1 DEF InboxTypes
<1> QED BY <1>1, <1>2, <1>3, <1>4, <1>5, <1>6, <1>7

\* A sync keeps the types.
LEMMA SyncTypes ==
  ASSUME InboxTypes, NEW r \in Readers, Sync(r) \/ Stop(r) \/ \E news \in BOOLEAN : SyncBegin(r, news)
  PROVE  InboxTypes'
<1> USE DEF node, store, ghost, way
<1>0. Syncing(task[r])
  BY DEF InboxTypes
<1>1. CASE Anchor(r)
  <2>1. Syncing([task[r] EXCEPT !.pc = "compare", !.at = cursor])
    BY <1>0 DEF Syncing, InboxTypes, SyncPlaces
  <2> QED BY <1>1, <2>1, StepTask DEF Anchor, InboxTypes
<1>2. CASE Compare(r)
  <2> DEFINE back == Max({0, task[r].at.h - Rewind})
             gone == {i.m : i \in {j \in inbox : j.h > back}}
  <2>1. back \in Nat
    <3> DEFINE d == task[r].at.h - Rewind
    <3>1. d \in Int
      BY <1>0, InboxBounds DEF Syncing
    <3> HIDE DEF d
    <3>2. Max({0, d}) = IF 0 <= d THEN d ELSE 0
      BY <3>1, OfTwo
    <3> QED BY <3>1, <3>2 DEF d
  <2>2. gone \in SUBSET Mails
    BY DEF InboxTypes, Item
  <2> HIDE DEF back, gone
  <2>3. Syncing([task[r] EXCEPT !.pc = "page"]) /\ Syncing([task[r] EXCEPT !.pc = "drop", !.at.h = back, !.stale = gone])
    BY <1>0, <2>1, <2>2 DEF Syncing, SyncPlaces
  <2>4. \/ Step(r, "compare", [task[r] EXCEPT !.pc = "page"])
        \/ Step(r, "compare", [task[r] EXCEPT !.pc = "drop", !.at.h = back, !.stale = gone])
    BY <1>2 DEF Compare, back, gone
  <2>5. UNCHANGED <<chain, born, forks, peak, sealed, weekly, cursor, inbox, unwanted, stood>>
        /\ course' \in {course, "lost"}
    BY <1>2 DEF Compare
  <2> QED BY <2>3, <2>4, <2>5, StepTask DEF InboxTypes
<1>3. CASE Drop(r)
  <2>1. \A m : Syncing([task[r] EXCEPT !.stale = @ \ {m}])
    BY <1>0 DEF Syncing, SyncPlaces
  <2>2. Syncing([task[r] EXCEPT !.pc = "page"])
    BY <1>0 DEF Syncing, SyncPlaces
  <2>3. \/ \E m \in task[r].stale : Step(r, "drop", [task[r] EXCEPT !.stale = @ \ {m}])
        \/ Step(r, "drop", [task[r] EXCEPT !.pc = "page"])
    BY <1>3 DEF Drop
  <2>4. UNCHANGED <<chain, born, forks, peak, sealed, weekly, cursor, unwanted, stood>> /\ inbox' \in SUBSET inbox
        /\ course' \in {course, "lost", "torn"}
    BY <1>3 DEF Drop
  <2> QED BY <2>1, <2>2, <2>3, <2>4, StepTask DEF InboxTypes
<1>4. CASE Logs(r)
  <2> DEFINE logs == UNION {{[m |-> m, h |-> h, at |-> chain[h].v] : m \in chain[h].mail} :
                            h \in (task[r].at.h + 1)..Min({PageEnd(r), Height})}
  <2>1. logs \in SUBSET Item
    <3>1. task[r].at.h \in Nat /\ PageEnd(r) \in Nat
      BY <1>0, PageEndIs DEF Syncing
    <3> QED BY <3>1, LogsType
  <2> HIDE DEF logs
  <2>2. Syncing([task[r] EXCEPT !.pc = "match", !.logs = logs])
    BY <1>0, <2>1 DEF Syncing, SyncPlaces
  <2>3. Step(r, "page", [task[r] EXCEPT !.pc = "match", !.logs = logs]) /\ UNCHANGED <<chain, born, forks, peak, sealed, weekly, cursor, inbox, unwanted, way>>
    BY <1>4 DEF Logs, logs
  <2> QED BY <2>2, <2>3, StepTask DEF InboxTypes
<1>5. CASE Match(r)
  <2> DEFINE new == {l \in task[r].logs : sealed[l.m] \in task[r].live /\ \A i \in inbox : i.m # l.m}
             unseen == {[l EXCEPT !.at = 0] : l \in new}
  <2>1. new \in SUBSET Item
    BY <1>0 DEF Syncing
  <2>2. unseen \in SUBSET Item
    BY <2>1 DEF Item
  <2>3. {l.m : l \in new} \in SUBSET Mails
    BY <2>1 DEF Item
  <2> HIDE DEF new, unseen
  <2>4. PICK found \in {{}, new, unseen} : Step(r, "match", [task[r] EXCEPT !.pc = "hash", !.got = found, !.peer = peer])
    BY <1>5 DEF Match, new, unseen
  <2>5. Syncing([task[r] EXCEPT !.pc = "hash", !.got = found, !.peer = peer])
    BY <1>0, <2>1, <2>2, <2>4 DEF Syncing, SyncPlaces
  <2>6. UNCHANGED <<chain, born, forks, peak, sealed, weekly, cursor, inbox, way>> /\ unwanted' \in {unwanted, unwanted \cup {l.m : l \in new}}
    BY <1>5 DEF Match, new
  <2> QED BY <2>3, <2>4, <2>5, <2>6, StepTask DEF InboxTypes
<1>6. CASE Hash(r)
  <2>1. HashAt(PageEnd(r)) \in Nat
    BY HashIs, PageEndIs
  <2>2. ASSUME NEW v \in {0, HashAt(PageEnd(r))} PROVE Syncing([task[r] EXCEPT !.pc = "write", !.hash = v])
    <3>1. v \in Nat
      BY <2>1
    <3> QED BY <1>0, <3>1 DEF Syncing, SyncPlaces
  <2>3. PICK v \in {0, HashAt(PageEnd(r))} : Step(r, "hash", [task[r] EXCEPT !.pc = "write", !.hash = v])
    BY <1>6 DEF Hash
  <2>4. UNCHANGED <<chain, born, forks, peak, sealed, weekly, cursor, inbox, unwanted, way>>
    BY <1>6 DEF Hash
  <2> QED BY <2>2, <2>3, <2>4, StepTask DEF InboxTypes
<1>7. CASE PageWrite(r)
  <2>1. cursor' = [h |-> PageEnd(r), v |-> task[r].hash] /\ cursor' \in [h : Nat, v : Nat]
    BY <1>0, <1>7, PageEndIs DEF PageWrite, Syncing
  <2>2. Syncing([task[r] EXCEPT !.pc = "page", !.at = cursor'])
    BY <1>0, <2>1 DEF Syncing, SyncPlaces
  <2>3. inbox' \in SUBSET Item
    BY <1>0, <1>7 DEF PageWrite, Syncing, InboxTypes
  <2>4. Step(r, "write", [task[r] EXCEPT !.pc = "page", !.at = cursor']) /\ UNCHANGED <<chain, born, forks, peak, sealed, weekly, unwanted>>
    BY <1>7 DEF PageWrite
  <2>5. stood' \in Nat /\ course' \in {course, "kept"}
    <3>1. stood' = HashAt(PageEnd(r)) /\ course' \in {course, "kept"}
      BY <1>7 DEF PageWrite, Comes
    <3> QED BY <3>1, HashIs, PageEndIs
  <2> QED BY <2>1, <2>2, <2>3, <2>4, <2>5, StepTask DEF InboxTypes
<1>8. Syncing(Away) /\ Syncing([Away EXCEPT !.pc = "news"])
  BY DEF Away, Syncing, SyncPlaces
<1>9. CASE Finish(r)
  <2>1. Step(r, "page", Away) \/ Step(r, "page", [Away EXCEPT !.pc = "news"])
    BY <1>9 DEF Finish
  <2> QED BY <1>8, <1>9, <2>1, StepTask DEF Finish, InboxTypes
<1>10. CASE News(r)
  <2>1. Step(r, "news", Away) /\ UNCHANGED <<chain, born, forks, peak, sealed, weekly, cursor, inbox, unwanted, way>>
    BY <1>10 DEF News
  <2> QED BY <1>8, <2>1, StepTask DEF InboxTypes
<1>11. CASE Stop(r)
  <2>1. Step(r, task[r].pc, Away) /\ UNCHANGED <<chain, born, forks, peak, sealed, weekly, cursor, inbox, unwanted, way>>
    BY <1>11 DEF Stop, Step
  <2> QED BY <1>8, <2>1, StepTask DEF InboxTypes
<1>12. CASE \E news \in BOOLEAN : SyncBegin(r, news)
  <2>1. PICK news \in BOOLEAN : SyncBegin(r, news)
    BY <1>12
  <2> DEFINE L == {k \in Key : weekly'[k] \in {"live", "superseded"}}
             job == [Away EXCEPT !.pc = "anchor", !.head = Height, !.news = news, !.live = L]
  <2>2. Syncing(job)
    <3>1. L \in SUBSET Key /\ Height \in Nat
      BY DEF InboxTypes, Height
    <3> HIDE DEF L
    <3> DEFINE begun == [Away EXCEPT !.pc = "anchor", !.head = Height]
    <3>2. Syncing(begun)
      BY <1>8, <3>1 DEF Syncing, SyncPlaces
    <3> HIDE DEF begun
    <3>3. Syncing([begun EXCEPT !.news = TRUE]) /\ Syncing([begun EXCEPT !.news = FALSE])
      BY <3>2 DEF Syncing
    <3>4. Syncing([begun EXCEPT !.news = news])
      BY <3>3
    <3>5. Syncing([[begun EXCEPT !.news = news] EXCEPT !.live = L])
      BY <3>1, <3>4 DEF Syncing
    <3> QED BY <3>5 DEF begun
  <2>3. Step(r, "idle", job) /\ UNCHANGED <<chain, born, forks, peak, sealed, cursor, inbox, unwanted, way>>
    BY <2>1 DEF SyncBegin
  <2>4. weekly' \in [Key -> KeyStates]
    BY <2>1, PrunedIs DEF SyncBegin
  <2> HIDE DEF job
  <2> QED BY <2>2, <2>3, <2>4, StepTask DEF InboxTypes
<1> QED BY <1>1, <1>2, <1>3, <1>4, <1>5, <1>6, <1>7, <1>9, <1>10, <1>11, <1>12 DEF Sync

\* Every step keeps the types.
LEMMA InboxTypeStep == InboxTypes /\ [InboxNext]_ivars => InboxTypes'
<1>1. ASSUME InboxTypes, UNCHANGED ivars PROVE InboxTypes'
  BY <1>1 DEF InboxTypes, ivars, node, store, ghost, way
<1> QED BY <1>1, AroundTypes, SyncTypes DEF InboxNext

-----------------------------------------------------------------------------
(* The chain and the keys. *)

\* The chain is a rewind from its peak at most; its blocks were mined, each with messages of its own, sealed.
ChainInv ==
  /\ Height >= 1 /\ Height <= peak /\ peak <= Height + Rewind
  /\ \A h \in 1..Height : chain[h].v <= born /\ \A m \in chain[h].mail : sealed[m] # 0
  /\ \A g, h \in 1..Height : \A m \in chain[g].mail : m \in chain[h].mail => g = h

\* So were those of the chains that were given up; and two chains with a block in common have the
\* blocks before it in common.
Chains == forks \cup {chain}
Mined(c) ==
  /\ \A h \in 1..Len(c) : /\ c[h].v <= born /\ (c[h].key # 0 => weekly[c[h].key] # "none")
                          /\ \A m \in c[h].mail : sealed[m] # 0
  /\ \A g, h \in 1..Len(c) : \A m \in c[g].mail : m \in c[h].mail => g = h
ForksInv ==
  /\ \A c \in Chains : Mined(c)
  /\ \A c, d \in Chains : \A h \in 1..Len(c) : h <= Len(d) /\ c[h].v = d[h].v => \A g \in 1..h : c[g] = d[g]

\* A key that is on the chain, or that something is sealed to, was made.
KeysInv ==
  /\ \A k \in Announced : weekly[k] # "none"
  /\ \A m \in Mails : sealed[m] # 0 => weekly[sealed[m]] # "none"

\* What no step undoes.
Forward ==
  /\ \A k \in Key : (weekly[k] = "deleted" => weekly'[k] = "deleted") /\ (weekly[k] # "none" => weekly'[k] # "none")
  /\ \A m \in Mails : sealed[m] # 0 => sealed'[m] = sealed[m]
  /\ unwanted \subseteq unwanted' /\ born <= born' /\ peak <= peak' /\ (course = "lost" => course' = "lost")

\* A block is added with what is new, or returns, or the last blocks go.
Grown(b) ==
  /\ b \in MinedBlock /\ chain' = Append(chain, b) /\ b.v = born + 1 /\ born' = born + 1
  /\ \A m \in b.mail : sealed[m] # 0 /\ m \notin OnChain
  /\ b.key # 0 => weekly[b.key] # "none"
  /\ peak' = IF peak <= Height + 1 THEN Height + 1 ELSE peak
Returned(c) ==
  /\ c \in forks /\ Height < Len(c) /\ chain = SubSeq(c, 1, Height) /\ chain' = SubSeq(c, 1, Height + 1)
  /\ peak' = IF peak <= Height + 1 THEN Height + 1 ELSE peak
Cut(h) == h \in 1..(Height - 1) /\ chain' = SubSeq(chain, 1, h) /\ h + Rewind >= peak /\ forks' = forks \cup {chain}
ChainMoves ==
  \/ UNCHANGED <<chain, born, forks, peak>>
  \/ (\E b \in MinedBlock : Grown(b)) /\ UNCHANGED <<forks, sealed>>
  \/ (\E c \in forks : Returned(c)) /\ UNCHANGED <<born, forks, sealed>>
  \/ (\E h \in 1..(Height - 1) : Cut(h)) /\ UNCHANGED <<born, peak, sealed>>

\* See Forward and ChainMoves.
LEMMA WorldMoves == ASSUME InboxTypes, KeysInv, [InboxNext]_ivars PROVE Forward /\ ChainMoves
<1> USE DEF node, store, ghost, way
<1>0. born <= born /\ peak <= peak /\ Height \in Nat /\ peak \in Nat
  BY DEF InboxTypes, Height
<1>1. CASE \E m \in Mails : Seal(m)
  BY <1>0, <1>1 DEF Seal, Forward, ChainMoves, InboxTypes
<1>10. Max({peak, Height + 1}) = (IF peak <= Height + 1 THEN Height + 1 ELSE peak)
  <2> DEFINE H == Height + 1
  <2>1. H \in Int /\ peak \in Int
    BY <1>0
  <2> HIDE DEF H
  <2>2. Max({peak, H}) = IF peak <= H THEN H ELSE peak
    BY <2>1, OfTwo
  <2> QED BY <2>2 DEF H
<1>11. peak <= (IF peak <= Height + 1 THEN Height + 1 ELSE peak)
  BY <1>0
<1>2. CASE Mine
  <2>1. PICK mail \in SUBSET {m \in Mails \ OnChain : sealed[m] # 0}, k \in {0} \cup {k \in Key \ Announced : weekly[k] # "none"} :
          chain' = Append(chain, [v |-> born + 1, mail |-> mail, key |-> k])
    BY <1>2 DEF Mine
  <2> DEFINE b == [v |-> born + 1, mail |-> mail, key |-> k]
  <2>2. b \in MinedBlock /\ b.v = born + 1 /\ b.mail = mail /\ b.key = k
    BY DEF InboxTypes, MinedBlock
  <2>3. chain' = Append(chain, b)
    BY <2>1
  <2> HIDE DEF b
  <2>5. peak' = IF peak <= Height + 1 THEN Height + 1 ELSE peak
    BY <1>2, <1>10 DEF Mine
  <2>6. Grown(b)
    BY <1>2, <2>2, <2>3, <2>5 DEF Grown, Mine
  <2>7. peak <= peak' /\ born <= born'
    BY <1>2, <1>11, <2>5 DEF Mine, InboxTypes
  <2> QED BY <1>2, <2>2, <2>6, <2>7 DEF Mine, Forward, ChainMoves
<1>12. CASE Return
  <2>1. PICK c \in forks : Height < Len(c) /\ chain = SubSeq(c, 1, Height) /\ chain' = SubSeq(c, 1, Height + 1)
    BY <1>12 DEF Return
  <2>2. peak' = IF peak <= Height + 1 THEN Height + 1 ELSE peak
    BY <1>12, <1>10 DEF Return
  <2>3. Returned(c)
    BY <2>1, <2>2 DEF Returned
  <2>4. UNCHANGED <<born, forks, sealed, weekly, unwanted, course>>
    BY <1>12 DEF Return
  <2>5. peak <= peak'
    BY <1>11, <2>2
  <2> QED BY <1>0, <2>3, <2>4, <2>5 DEF Forward, ChainMoves
<1>3. CASE Reorg
  BY <1>0, <1>3 DEF Reorg, Forward, ChainMoves, Cut
<1>4. CASE GraceEnds
  BY <1>0, <1>4 DEF GraceEnds, Forward, ChainMoves
<1>5. CASE EnsureWeek
  BY <1>0, <1>5 DEF EnsureWeek, Forward, ChainMoves, InboxTypes
<1>6. CASE Accept \/ Block \/ Unblock \/ Read
  BY <1>0, <1>6 DEF Accept, Block, Unblock, Read, Stands, Update, Forward, ChainMoves
<1>7. ASSUME NEW r \in Readers, NEW news \in BOOLEAN, SyncBegin(r, news) PROVE Forward /\ ChainMoves
  <2>1. PICK seen : weekly' = Pruned(seen)
    BY <1>7 DEF SyncBegin
  <2>2. \A k \in Key : (weekly[k] = "deleted" => weekly'[k] = "deleted") /\ (weekly[k] # "none" => weekly'[k] # "none")
    BY <2>1, PrunedIs
  <2>3. UNCHANGED <<chain, born, forks, peak, sealed, unwanted, course>>
    BY <1>7 DEF SyncBegin
  <2> QED BY <1>0, <2>2, <2>3 DEF Forward, ChainMoves
<1>8. ASSUME NEW r \in Readers, Sync(r) \/ Stop(r) PROVE Forward /\ ChainMoves
  <2>1. UNCHANGED <<chain, born, forks, peak, sealed, weekly>>
    BY <1>8 DEF Sync, Stop, Anchor, Compare, Drop, Logs, Match, Hash, PageWrite, Finish, News
  <2>2. unwanted \subseteq unwanted'
    BY <1>8 DEF Sync, Stop, Anchor, Compare, Drop, Logs, Match, Hash, PageWrite, Finish, News
  <2>3. course = "lost" => course' = "lost"
    BY <1>8 DEF Sync, Stop, Anchor, Compare, Drop, Logs, Match, Hash, PageWrite, Comes, Finish, News
  <2> QED BY <1>0, <2>1, <2>2, <2>3 DEF Forward, ChainMoves
<1>9. CASE UNCHANGED ivars
  BY <1>0, <1>9 DEF ivars, Forward, ChainMoves
<1> QED BY <1>1, <1>2, <1>3, <1>4, <1>5, <1>6, <1>7, <1>8, <1>9, <1>12 DEF InboxNext

\* What a chain that grew, was taken up again, or lost its end, has at each height.
LEMMA GrownIs ==
  ASSUME InboxTypes, NEW b \in MinedBlock, Grown(b)
  PROVE  /\ Height' = Height + 1 /\ chain'[Height + 1] = b
         /\ \A h \in 1..Height : chain'[h] = chain[h]
BY DEF Grown, InboxTypes, Height

\* See GrownIs.
LEMMA ReturnedIs ==
  ASSUME InboxTypes, NEW c \in forks, Returned(c)
  PROVE  /\ Height' = Height + 1 /\ Height + 1 <= Len(c) /\ \A h \in 1..(Height + 1) : chain'[h] = c[h]
         /\ \A h \in 1..Height : chain'[h] = chain[h]
<1>1. c \in Seq(MinedBlock) /\ Height \in Nat /\ Len(c) \in Nat
  BY DEF InboxTypes, Height
<1>2. Height + 1 <= Len(c) /\ chain' = SubSeq(c, 1, Height + 1) /\ chain = SubSeq(c, 1, Height)
  BY <1>1 DEF Returned
<1>3. Len(SubSeq(c, 1, Height + 1)) = Height + 1 /\ \A h \in 1..(Height + 1) : SubSeq(c, 1, Height + 1)[h] = c[h]
  BY <1>1, <1>2
<1>4. \A h \in 1..Height : SubSeq(c, 1, Height)[h] = c[h] /\ h \in 1..(Height + 1)
  BY <1>1, <1>2
<1> QED BY <1>2, <1>3, <1>4 DEF Height

\* See GrownIs.
LEMMA CutIs ==
  ASSUME InboxTypes, NEW n \in 1..(Height - 1), Cut(n)
  PROVE  /\ Height' = n /\ n \in Nat /\ n < Height
         /\ \A h \in 1..n : chain'[h] = chain[h]
BY DEF Cut, InboxTypes, Height

\* Every chain there is after a step begins one there was, but for a block that was mined.
Begins(c, d) == Len(c) <= Len(d) /\ \A h \in 1..Len(c) : c[h] = d[h]
LEMMA ChainsCome ==
  ASSUME InboxTypes, ChainMoves
  PROVE  \/ \A c \in Chains' : \E d \in Chains : Begins(c, d)
         \/ /\ \A c \in forks' : \E d \in Chains : Begins(c, d)
            /\ \E b \in MinedBlock : Grown(b)
<1>0. \A c \in Chains : Begins(c, c)
  <2>1. \A c \in Chains : Len(c) \in Nat
    BY DEF Chains, InboxTypes
  <2> QED BY <2>1 DEF Begins
<1>1. CASE UNCHANGED <<chain, born, forks, peak>>
  BY <1>0, <1>1 DEF Chains
<1>2. CASE (\E b \in MinedBlock : Grown(b)) /\ UNCHANGED <<forks, sealed>>
  BY <1>0, <1>2 DEF Chains
<1>3. CASE (\E c \in forks : Returned(c)) /\ UNCHANGED <<born, forks, sealed>>
  <2>1. PICK c \in forks : Returned(c)
    BY <1>3
  <2>2. Begins(chain', c)
    BY <2>1, ReturnedIs DEF Begins, Height
  <2> QED BY <1>0, <1>3, <2>2 DEF Chains
<1>4. CASE (\E h \in 1..(Height - 1) : Cut(h)) /\ UNCHANGED <<born, peak, sealed>>
  <2>1. PICK n \in 1..(Height - 1) : Cut(n)
    BY <1>4
  <2>2. Begins(chain', chain)
    <3>1. Len(chain') = n /\ n <= Len(chain) /\ \A h \in 1..n : chain'[h] = chain[h]
      <4>1. Height \in Nat /\ Height' = n /\ n \in Nat /\ n < Height /\ \A h \in 1..n : chain'[h] = chain[h]
        BY <2>1, CutIs DEF InboxTypes, Height
      <4> QED BY <4>1 DEF Height
    <3> QED BY <3>1 DEF Begins
  <2>3. forks' = forks \cup {chain}
    BY <2>1 DEF Cut
  <2> QED BY <1>0, <2>2, <2>3 DEF Chains
<1> QED BY <1>1, <1>2, <1>3, <1>4 DEF ChainMoves

\* The beginning of a chain is of mined blocks.
LEMMA BeginningIs ==
  ASSUME InboxTypes, InboxTypes', Forward, NEW d \in Chains, Mined(d), NEW c \in Seq(MinedBlock), Begins(c, d)
  PROVE  Mined(c)'
<1>1. d \in Seq(MinedBlock) /\ Len(c) \in Nat /\ Len(d) \in Nat
  BY DEF Chains, InboxTypes
<1>2. \A h \in 1..Len(c) : h \in 1..Len(d) /\ c[h] = d[h] /\ d[h] \in MinedBlock
  BY <1>1 DEF Begins
<1>3. ASSUME NEW h \in 1..Len(c) PROVE /\ c[h].v <= born' /\ (c[h].key # 0 => weekly'[c[h].key] # "none")
                                         /\ \A m \in c[h].mail : sealed'[m] # 0
  <2>1. c[h] = d[h] /\ d[h].v \in Nat /\ d[h].mail \subseteq Mails /\ d[h].key \in {0} \cup Key
    BY <1>2 DEF MinedBlock
  <2>2. d[h].v <= born /\ (d[h].key # 0 => weekly[d[h].key] # "none") /\ \A m \in d[h].mail : sealed[m] # 0
    BY <1>2 DEF Mined
  <2>3. born \in Nat /\ born' \in Nat /\ born <= born'
    BY DEF InboxTypes, Forward
  <2>4. c[h].v <= born'
    BY <2>1, <2>2, <2>3
  <2> QED BY <2>1, <2>2, <2>4 DEF Forward
<1>4. ASSUME NEW g \in 1..Len(c), NEW h \in 1..Len(c), NEW m \in c[g].mail, m \in c[h].mail PROVE g = h
  BY <1>2, <1>4 DEF Mined
<1> QED BY <1>3, <1>4 DEF Mined

\* A block mined on the chain.
LEMMA MinedOn ==
  ASSUME InboxTypes, InboxTypes', Forward, Mined(chain), NEW b \in MinedBlock, Grown(b)
  PROVE  Mined(chain)'
<1>1. Height' = Height + 1 /\ chain'[Height + 1] = b /\ (\A h \in 1..Height : chain'[h] = chain[h]) /\ Height \in Nat
  BY GrownIs DEF InboxTypes, Height
<1>2. \A h \in 1..Height' : h \in 1..Height \/ h = Height + 1
  BY <1>1
<1>3. \A h \in 1..Height : chain[h] \in MinedBlock
  BY DEF InboxTypes, Height
<1>4. born \in Nat /\ born' \in Nat /\ born <= born' /\ b.v = born'
  BY DEF InboxTypes, Forward, Grown
<1>5. ASSUME NEW h \in 1..Height'
      PROVE /\ chain'[h].v <= born' /\ (chain'[h].key # 0 => weekly'[chain'[h].key] # "none")
            /\ \A m \in chain'[h].mail : sealed'[m] # 0
  <2>1. CASE h \in 1..Height
    <3>1. chain'[h] = chain[h] /\ chain[h].v \in Nat /\ chain[h].mail \subseteq Mails /\ chain[h].key \in {0} \cup Key
      BY <1>1, <1>3, <2>1 DEF MinedBlock
    <3>2. chain[h].v <= born /\ (chain[h].key # 0 => weekly[chain[h].key] # "none") /\ \A m \in chain[h].mail : sealed[m] # 0
      BY <2>1 DEF Mined, Height
    <3>3. chain[h].v <= born'
      BY <1>4, <3>1, <3>2
    <3> QED BY <3>1, <3>2, <3>3 DEF Forward
  <2>2. CASE h = Height + 1
    <3>1. chain'[h] = b /\ b.mail \subseteq Mails /\ b.key \in {0} \cup Key
      BY <1>1, <2>2 DEF MinedBlock
    <3>2. (b.key # 0 => weekly[b.key] # "none") /\ \A m \in b.mail : sealed[m] # 0
      BY DEF Grown
    <3>3. b.v <= born'
      BY <1>4
    <3> QED BY <3>1, <3>2, <3>3 DEF Forward
  <2> QED BY <1>2, <2>1, <2>2
<1>6. \A h \in 1..Height : chain[h].mail \cap b.mail = {}
  BY DEF Grown, OnChain
<1>7. ASSUME NEW g \in 1..Height', NEW h \in 1..Height', NEW m \in chain'[g].mail, m \in chain'[h].mail PROVE g = h
  BY <1>1, <1>2, <1>6, <1>7 DEF Mined, Height
<1> QED BY <1>5, <1>7 DEF Mined, Height

\* Chains come and go as they do.
LEMMA ForksStep == ASSUME InboxTypes, InboxTypes', ForksInv, Forward, ChainMoves PROVE ForksInv'
<1>0. \A c \in Chains : c \in Seq(MinedBlock) /\ Len(c) \in Nat
  BY DEF Chains, InboxTypes
<1>1. \A c \in Chains' : c \in Seq(MinedBlock) /\ Len(c) \in Nat
  BY DEF Chains, InboxTypes
<1>2. ASSUME NEW c \in Chains', NEW d \in Chains, Begins(c, d) PROVE Mined(c)'
  <2>1. PICK e : e = c
    OBVIOUS
  <2>2. e \in Seq(MinedBlock) /\ Begins(e, d) /\ Mined(d)
    BY <1>1, <1>2, <2>1 DEF ForksInv
  <2>3. Mined(e)'
    BY <2>2, BeginningIs
  <2> QED BY <2>1, <2>3
<1>3. ASSUME NEW c, NEW d, NEW e \in Chains, NEW f \in Chains, Begins(c, e), Begins(d, f), Len(c) \in Nat, Len(d) \in Nat,
             NEW h \in 1..Len(c), h <= Len(d), c[h].v = d[h].v
      PROVE \A g \in 1..h : c[g] = d[g]
  <2>1. h \in 1..Len(e) /\ h <= Len(f) /\ h \in 1..Len(d)
    BY <1>0, <1>3 DEF Begins
  <2>2. c[h] = e[h] /\ d[h] = f[h]
    BY <1>3, <2>1 DEF Begins
  <2>3. \A g \in 1..h : e[g] = f[g]
    BY <1>3, <2>1, <2>2 DEF ForksInv
  <2>4. \A g \in 1..h : g \in 1..Len(c) /\ g \in 1..Len(d)
    BY <1>3
  <2> QED BY <1>3, <2>3, <2>4 DEF Begins
<1>4. CASE \A c \in Chains' : \E d \in Chains : Begins(c, d)
  <2>1. \A c \in Chains' : Mined(c)'
    BY <1>2, <1>4
  <2>2. ASSUME NEW c \in Chains', NEW d \in Chains', NEW h \in 1..Len(c), h <= Len(d), c[h].v = d[h].v
        PROVE \A g \in 1..h : c[g] = d[g]
    <3>1. PICK e \in Chains, f \in Chains : Begins(c, e) /\ Begins(d, f)
      BY <1>4
    <3> QED BY <1>1, <1>3, <2>2, <3>1
  <2> QED BY <2>1, <2>2 DEF ForksInv
<1>5. ASSUME \A c \in forks' : \E d \in Chains : Begins(c, d), NEW b \in MinedBlock, Grown(b) PROVE ForksInv'
  <2>0. chain \in Chains /\ Begins(chain, chain)
    <3>1. Len(chain) \in Nat
      BY DEF InboxTypes
    <3> QED BY <3>1 DEF Chains, Begins
  <2>1. \A c \in Chains' : Mined(c)'
    <3>1. Mined(chain)'
      BY <1>5, <2>0, MinedOn DEF ForksInv
    <3> QED BY <1>2, <1>5, <3>1 DEF Chains
  <2>2. Len(chain') = Len(chain) + 1 /\ chain'[Len(chain) + 1] = b /\ (\A h \in 1..Len(chain) : chain'[h] = chain[h])
        /\ Len(chain) \in Nat /\ b.v = born + 1 /\ born \in Nat
    BY <1>5, GrownIs DEF Height, InboxTypes, Grown
  <2>3. ASSUME NEW c \in forks', NEW h \in 1..Len(c), h <= Len(chain'), c[h].v = chain'[h].v
        PROVE \A g \in 1..h : c[g] = chain'[g]
    <3>1. PICK e \in Chains : Begins(c, e)
      BY <1>5
    <3>2. Len(c) \in Nat /\ h \in Nat /\ h >= 1
      BY <1>1 DEF Chains
    <3>3. c[h].v <= born
      <4>1. h \in 1..Len(e) /\ c[h] = e[h] /\ Mined(e)
        BY <1>0, <3>1, <3>2 DEF Begins, ForksInv
      <4> QED BY <4>1 DEF Mined
    <3>4. h # Len(chain) + 1
      BY <2>2, <2>3, <3>3
    <3>5. h <= Len(chain)
      BY <2>2, <2>3, <3>2, <3>4
    <3>6. c[h].v = chain[h].v /\ h \in 1..Len(chain)
      BY <2>2, <2>3, <3>2, <3>5
    <3>7. \A g \in 1..h : c[g] = chain[g]
      BY <1>3, <2>0, <2>2, <3>1, <3>2, <3>5, <3>6
    <3>8. \A g \in 1..h : g \in 1..Len(chain)
      BY <2>2, <3>2, <3>5
    <3> QED BY <2>2, <3>7, <3>8
  <2>4. ASSUME NEW c \in Chains', NEW d \in Chains', NEW h \in 1..Len(c), h <= Len(d), c[h].v = d[h].v
        PROVE \A g \in 1..h : c[g] = d[g]
    <3>1. CASE c \in forks' /\ d \in forks'
      <4>1. PICK e \in Chains, f \in Chains : Begins(c, e) /\ Begins(d, f)
        BY <1>5, <3>1
      <4> QED BY <1>1, <1>3, <2>4, <4>1
    <3>2. CASE c \in forks' /\ d = chain'
      BY <2>3, <2>4, <3>2
    <3>3. CASE c = chain' /\ d \in forks'
      <4>1. h \in 1..Len(d) /\ h <= Len(chain')
        BY <1>1, <2>4, <3>3
      <4>2. \A g \in 1..h : d[g] = chain'[g]
        BY <2>3, <2>4, <3>3, <4>1
      <4> QED BY <3>3, <4>2
    <3>4. CASE c = chain' /\ d = chain'
      BY <3>4
    <3> QED BY <3>1, <3>2, <3>3, <3>4 DEF Chains
  <2> QED BY <2>1, <2>4 DEF ForksInv
<1> QED BY <1>4, <1>5, ChainsCome

\* Blocks come and go as they do, and keys are made before they are announced.
LEMMA ChainStep == ASSUME InboxTypes, ChainInv, ForksInv, KeysInv, [InboxNext]_ivars PROVE ChainInv' /\ ForksInv' /\ KeysInv'
<1>1. Forward /\ ChainMoves /\ InboxTypes'
  BY WorldMoves, InboxTypeStep
<1>2. ASSUME NEW m \in Mails, sealed[m] # 0 PROVE sealed'[m] = sealed[m] /\ sealed[m] \in Key /\ sealed'[m] # 0
  BY <1>1, <1>2 DEF Forward, InboxTypes
<1>3. \A h \in 1..Height : chain[h] \in MinedBlock
  BY DEF InboxTypes, Height
<1>4. Height \in Nat /\ Rewind \in Nat \ {0} /\ born \in Nat /\ peak \in Nat /\ born' \in Nat
  BY <1>1, InboxBounds DEF InboxTypes, Height
<1>5. ForksInv' /\ Mined(chain)'
  <2>1. ForksInv'
    BY <1>1, ForksStep
  <2> QED BY <2>1 DEF ForksInv, Chains
<1>9. Height' >= 1 /\ Height' <= peak' /\ peak' <= Height' + Rewind
  <2>1. CASE UNCHANGED <<chain, born, forks, peak>>
    BY <2>1 DEF Height, ChainInv
  <2>2. CASE \E b \in MinedBlock : Grown(b)
    <3>1. PICK b \in MinedBlock : Grown(b)
      BY <2>2
    <3>2. Height' = Height + 1
      BY <3>1, GrownIs
    <3> QED BY <1>4, <3>1, <3>2 DEF Grown, ChainInv
  <2>3. CASE \E c \in forks : Returned(c)
    <3>1. PICK c \in forks : Returned(c)
      BY <2>3
    <3>2. Height' = Height + 1
      BY <3>1, ReturnedIs
    <3> QED BY <1>4, <3>1, <3>2 DEF Returned, ChainInv
  <2>4. CASE (\E n \in 1..(Height - 1) : Cut(n)) /\ UNCHANGED <<born, peak, sealed>>
    <3>1. PICK n \in 1..(Height - 1) : Cut(n)
      BY <2>4
    <3>2. Height' = n /\ n \in Nat /\ n < Height
      BY <3>1, CutIs
    <3> QED BY <1>4, <2>4, <3>1, <3>2 DEF Cut, ChainInv
  <2> QED BY <1>1, <2>1, <2>2, <2>3, <2>4 DEF ChainMoves
<1>10. ChainInv'
  BY <1>5, <1>9 DEF ChainInv, Mined, Height
<1>6. Announced \subseteq Key
  BY <1>3 DEF Announced, MinedBlock
<1>7. \A k \in Announced' : weekly'[k] # "none"
  BY <1>5 DEF Announced, Mined, Height
<1>8. ASSUME NEW m \in Mails, sealed'[m] # 0 PROVE weekly'[sealed'[m]] # "none"
  <2>1. CASE sealed[m] # 0
    BY <1>1, <1>2, <2>1 DEF KeysInv, Forward
  <2>2. CASE sealed[m] = 0
    <3>1. Seal(m)
      <4>1. ASSUME NEW n \in Mails, n # m, Seal(n) PROVE FALSE
        BY <1>8, <2>2, <4>1 DEF Seal, InboxTypes
      <4>2. ASSUME UNCHANGED sealed PROVE FALSE
        BY <1>8, <2>2, <4>2
      <4>3. \/ \E n \in Mails : Seal(n)
            \/ UNCHANGED sealed
        BY DEF InboxNext, ivars, node, store, ghost, way, Mine, Return, Reorg, GraceEnds, EnsureWeek, Accept, Block, Unblock, Read, Stands, Update, Sync, Stop, SyncBegin,
               Anchor, Compare, Drop, Logs, Match, Hash, PageWrite, Finish, News
      <4> QED BY <4>1, <4>2, <4>3
    <3>2. sealed'[m] = Max(Announced) /\ Announced # {} /\ UNCHANGED weekly
      BY <3>1 DEF Seal, InboxTypes, store
    <3>3. Announced \in SUBSET (0..MaxKey) /\ MaxKey \in Nat
      BY <1>6, InboxBounds DEF Key
    <3>4. Max(Announced) \in Announced
      BY <3>2, <3>3, GreatestOf
    <3> QED BY <3>2, <3>4 DEF KeysInv
  <2> QED BY <2>1, <2>2
<1> QED BY <1>5, <1>7, <1>8, <1>10 DEF KeysInv

-----------------------------------------------------------------------------
(* What is in the store, beside the chain. *)

\* Each message of the chain's first n blocks is in the store, was dropped, or has a key long gone.
Accounted(m, h) == (\E i \in inbox : i.m = m /\ i.h = h) \/ m \in unwanted \/ weekly[sealed[m]] = "deleted"
ReadTo(n) == \A h \in 1..n : \A m \in chain[h].mail : Accounted(m, h)

\* What the store has of those blocks is theirs; what it has is of those blocks.
TrueTo(n) == \A i \in inbox : i.h <= n => i.m \in chain[i.h].mail
UpTo(n) == \A i \in inbox : i.h <= n
Exact(n) == n <= Height /\ ReadTo(n) /\ TrueTo(n) /\ UpTo(n)

\* A message is in the store once.
OnceInv == \A i, j \in inbox : i.m = j.m => i.h = j.h

\* Reading stopped at a block there was, and nothing has changed since a rewind below it; if it was
\* not cut short, the store is that of every chain that block is on, whether or not it is the chain.
CursorInv == stood >= 1 /\ stood <= born /\ cursor.h >= 1 /\ cursor.h <= peak
DeepInv == ReadTo(cursor.h - Rewind) /\ TrueTo(cursor.h - Rewind)
HeldOf(c) ==
  /\ \A h \in 1..cursor.h : \A m \in c[h].mail : Accounted(m, h)
  /\ \A i \in inbox : i.h <= cursor.h /\ i.m \in c[i.h].mail
ExactInv ==
  course = "kept" => \A c \in Chains : cursor.h <= Len(c) /\ c[cursor.h].v = stood => HeldOf(c)
StoreInv == CursorInv /\ (course # "lost" => OnceInv /\ DeepInv /\ ExactInv)

\* The page a sync is at: what its reading of the logs, and of the keys, leaves of it.
EndOf(t) == Min({t.head, t.at.h + Page})
OfPage(t, ls) == \A l \in ls : l.h \in (t.at.h + 1)..EndOf(t) /\ l.m \in chain[l.h].mail
WholePage(t) == \A h \in (t.at.h + 1)..EndOf(t) : \A m \in chain[h].mail : \E l \in t.logs : l.m = m /\ l.h = h
Taken(t) ==
  /\ \A h \in (t.at.h + 1)..EndOf(t) : \A m \in chain[h].mail :
       (\E g \in t.got : g.m = m /\ g.h = h) \/ m \in unwanted \/ weekly[sealed[m]] = "deleted"
  /\ \A g \in t.got : \A i \in inbox : i.m # g.m

\* The keys a sync opens messages with are all there are for what it will read.
KeysRead(t) ==
  /\ t.head >= 1 /\ t.head <= Height
  /\ \A h \in 1..t.head : \A m \in chain[h].mail : sealed[m] \in t.live \/ weekly[sealed[m]] = "deleted"

\* A sync that found its block gone, or not served, deletes what it read since a rewind before it,
\* and nothing else.
Rewinding(t) ==
  /\ cursor.h - Rewind <= t.at.h /\ t.at.h < cursor.h /\ t.at.h <= Height /\ ReadTo(t.at.h) /\ TrueTo(t.at.h)
  /\ \A i \in inbox : i.h > t.at.h <=> i.m \in t.stale

SyncKept(t) ==
  /\ t.pc = "drop" => Rewinding(t)
  /\ t.pc \in {"page", "match", "hash", "write"} => Exact(t.at.h) /\ (course = "torn" => t.at.h < cursor.h)
  /\ t.pc = "match" => OfPage(t, t.logs) /\ WholePage(t)
  /\ t.pc \in {"hash", "write"} => OfPage(t, t.got) /\ Taken(t)

SyncInv(t) ==
  /\ t.pc \notin {"idle", "news"} => KeysRead(t)
  /\ t.pc = "compare" => t.at = cursor
  /\ t.pc \in {"match", "hash", "write"} => t.at.h < t.head
  /\ course # "lost" => SyncKept(t)

InboxInv ==
  /\ InboxTypes /\ ChainInv /\ ForksInv /\ KeysInv /\ StoreInv
  /\ \A t \in {task[r] : r \in Readers} : SyncInv(t)

\* What stays so of the first n blocks when they stay, and the store does.
LEMMA KeptTo ==
  ASSUME InboxTypes, InboxTypes', ChainInv, Forward, NEW n \in Int, n <= Height, n <= Height', UNCHANGED inbox,
         \A h \in 1..n : chain'[h] = chain[h]
  PROVE  /\ ReadTo(n) => ReadTo(n)'
         /\ TrueTo(n) => TrueTo(n)'
         /\ UpTo(n) => UpTo(n)'
<1>1. Height \in Nat
  BY DEF InboxTypes, Height
<1>2. ASSUME NEW h \in 1..n PROVE h \in 1..Height /\ chain[h].mail \subseteq Mails /\ \A m \in chain[h].mail : sealed[m] # 0
  <2>1. h \in 1..Height
    BY <1>1
  <2>2. chain[h] \in MinedBlock
    BY <2>1 DEF InboxTypes, Height
  <2> QED BY <2>1, <2>2 DEF ChainInv, MinedBlock
<1>3. ASSUME ReadTo(n), NEW h \in 1..n, NEW m \in chain'[h].mail PROVE Accounted(m, h)'
  <2>1. m \in chain[h].mail /\ m \in Mails /\ sealed[m] # 0
    BY <1>2, <1>3
  <2>2. Accounted(m, h)
    BY <1>3, <2>1 DEF ReadTo
  <2>3. sealed'[m] = sealed[m] /\ sealed[m] \in Key
    BY <2>1 DEF Forward, InboxTypes
  <2>4. weekly[sealed[m]] = "deleted" => weekly'[sealed'[m]] = "deleted"
    BY <2>3 DEF Forward
  <2> QED BY <2>2, <2>4 DEF Accounted, Forward
<1>4. ASSUME TrueTo(n), NEW i \in inbox, i.h <= n PROVE i.m \in chain'[i.h].mail
  <2>1. i.h \in 1..n
    BY <1>4 DEF InboxTypes, Item
  <2> QED BY <1>4, <2>1 DEF TrueTo
<1> QED BY <1>3, <1>4 DEF ReadTo, TrueTo, UpTo

\* The chain's first blocks when it grows or stays.
Grows == UNCHANGED chain \/ (\E b \in MinedBlock : Grown(b)) \/ \E c \in forks : Returned(c)
LEMMA GrowsOn ==
  ASSUME InboxTypes, Grows
  PROVE  Height <= Height' /\ \A h \in 1..Height : chain'[h] = chain[h] /\ chain[h] \in MinedBlock
<1>1. \A h \in 1..Height : chain[h] \in MinedBlock
  BY DEF InboxTypes, Height
<1>2. Height \in Nat
  BY DEF InboxTypes, Height
<1>3. CASE UNCHANGED chain
  BY <1>1, <1>2, <1>3 DEF Height
<1>4. CASE \E b \in MinedBlock : Grown(b)
  <2>1. PICK b \in MinedBlock : Grown(b)
    BY <1>4
  <2>2. Height' = Height + 1 /\ \A h \in 1..Height : chain'[h] = chain[h]
    BY <2>1, GrownIs
  <2> QED BY <1>1, <1>2, <2>2
<1>5. CASE \E c \in forks : Returned(c)
  <2>1. PICK c \in forks : Returned(c)
    BY <1>5
  <2>2. Height' = Height + 1 /\ \A h \in 1..Height : chain'[h] = chain[h]
    BY <2>1, ReturnedIs
  <2> QED BY <1>1, <1>2, <2>2
<1> QED BY <1>3, <1>4, <1>5 DEF Grows

\* What the store holds of a chain it holds of the same blocks later.
LEMMA HeldOn ==
  ASSUME InboxTypes, InboxTypes', Forward, UNCHANGED <<cursor, inbox>>,
         NEW d \in Seq(MinedBlock), Mined(d), cursor.h <= Len(d), HeldOf(d), NEW c, \A h \in 1..cursor.h : c[h] = d[h]
  PROVE  HeldOf(c)'
<1>1. cursor.h \in Nat /\ Len(d) \in Nat
  BY DEF InboxTypes
<1>2. ASSUME NEW h \in 1..cursor.h, NEW m \in c[h].mail PROVE Accounted(m, h)'
  <2>1. h \in 1..Len(d)
    BY <1>1
  <2>2. d[h] \in MinedBlock /\ c[h] = d[h] /\ m \in d[h].mail
    BY <1>2, <2>1
  <2>3. m \in Mails /\ sealed[m] # 0
    BY <2>1, <2>2 DEF Mined, MinedBlock
  <2>4. Accounted(m, h)
    BY <1>2, <2>2 DEF HeldOf
  <2>5. sealed'[m] = sealed[m] /\ sealed[m] \in Key
    BY <2>3 DEF Forward, InboxTypes
  <2>6. weekly[sealed[m]] = "deleted" => weekly'[sealed'[m]] = "deleted"
    BY <2>5 DEF Forward
  <2> QED BY <2>4, <2>6 DEF Accounted, Forward
<1>3. ASSUME NEW i \in inbox PROVE i.h <= cursor.h /\ i.m \in c[i.h].mail
  <2>1. i.h \in Nat \ {0} /\ i.h <= cursor.h /\ i.m \in d[i.h].mail
    BY DEF HeldOf, InboxTypes, Item
  <2>2. i.h \in 1..cursor.h
    BY <1>1, <2>1
  <2> QED BY <2>1, <2>2
<1> QED BY <1>2, <1>3 DEF HeldOf

\* The store is still that of every chain its last block is on: a new block is not that block.
LEMMA ExactStays ==
  ASSUME InboxTypes, InboxTypes', ForksInv, CursorInv, ExactInv, Forward, ChainMoves,
         UNCHANGED <<cursor, inbox, stood, course>>
  PROVE  ExactInv'
<1> SUFFICES ASSUME course = "kept", NEW c \in Chains', cursor.h <= Len(c), c[cursor.h].v = stood PROVE HeldOf(c)'
  BY DEF ExactInv
<1>1. cursor.h \in Nat /\ cursor.h >= 1 /\ born \in Nat /\ stood \in Nat /\ stood <= born /\ Height \in Nat
  BY DEF InboxTypes, CursorInv, Height
<1>2. \A d \in Chains : d \in Seq(MinedBlock) /\ Mined(d) /\ Len(d) \in Nat
  BY DEF ForksInv, Chains, InboxTypes
<1>3. Len(c) \in Nat
  BY DEF Chains, InboxTypes
<1>4. ASSUME NEW d \in Chains, cursor.h <= Len(d), \A h \in 1..cursor.h : c[h] = d[h] PROVE HeldOf(c)'
  <2>1. d[cursor.h].v = stood
    BY <1>1, <1>4
  <2>2. HeldOf(d)
    BY <1>4, <2>1 DEF ExactInv
  <2>3. PICK k : k = c
    OBVIOUS
  <2>4. PICK e : e = d
    OBVIOUS
  <2>5. e \in Seq(MinedBlock) /\ Mined(e) /\ cursor.h <= Len(e) /\ HeldOf(e) /\ \A h \in 1..cursor.h : k[h] = e[h]
    BY <1>2, <1>4, <2>2, <2>3, <2>4
  <2>6. HeldOf(k)'
    BY <2>5, HeldOn
  <2> QED BY <2>3, <2>6
<1>5. CASE \E d \in Chains : Begins(c, d)
  <2>1. PICK d \in Chains : Begins(c, d)
    BY <1>5
  <2>2. Len(c) <= Len(d) /\ \A h \in 1..Len(c) : c[h] = d[h]
    BY <2>1 DEF Begins
  <2>3. cursor.h <= Len(d) /\ \A h \in 1..cursor.h : c[h] = d[h]
    BY <1>1, <1>2, <1>3, <2>2
  <2> QED BY <1>4, <2>3
<1>6. CASE c = chain' /\ \E b \in MinedBlock : Grown(b)
  <2>1. PICK b \in MinedBlock : Grown(b)
    BY <1>6
  <2>2. Len(c) = Height + 1 /\ c[Height + 1] = b /\ (\A h \in 1..Height : c[h] = chain[h]) /\ b.v = born + 1
    BY <1>6, <2>1, GrownIs DEF Height, Grown
  <2>3. cursor.h # Height + 1
    BY <1>1, <2>2
  <2>4. cursor.h <= Len(chain) /\ (\A h \in 1..cursor.h : c[h] = chain[h]) /\ chain \in Chains
    BY <1>1, <2>2, <2>3 DEF Height, Chains
  <2> QED BY <1>4, <2>4
<1> QED BY <1>5, <1>6, ChainsCome DEF Chains

\* The store's own promises hold on while only the chain, the keys and the peer move.
LEMMA StoreStays ==
  ASSUME InboxTypes, InboxTypes', ChainInv, ChainInv', ForksInv, StoreInv, Forward, ChainMoves,
         UNCHANGED <<cursor, inbox, stood>>, course' \in {course, "lost"}
  PROVE  StoreInv'
<1>1. cursor.h \in Nat /\ stood \in Nat /\ born \in Nat /\ peak \in Nat /\ born' \in Nat /\ peak' \in Nat
      /\ Height \in Nat /\ Height' \in Nat /\ Rewind \in Nat
  BY InboxBounds DEF InboxTypes, Height
<1>2. CursorInv'
  BY <1>1 DEF StoreInv, CursorInv, Forward
<1>3. ASSUME course # "lost" PROVE OnceInv' /\ DeepInv'
  <2> DEFINE n == cursor.h - Rewind
  <2>1. n <= Height /\ n <= Height' /\ n \in Int
    <3>1. cursor.h <= peak /\ peak <= peak' /\ peak <= Height + Rewind /\ peak' <= Height' + Rewind
      <4>1. cursor.h <= peak
        BY DEF StoreInv, CursorInv
      <4>2. peak <= peak'
        BY DEF Forward
      <4>3. peak <= Height + Rewind
        BY DEF ChainInv
      <4>4. peak' <= Height' + Rewind
        BY DEF ChainInv
      <4> QED BY <4>1, <4>2, <4>3, <4>4
    <3>2. n \in Int
      BY <1>1
    <3>3. n <= Height
      BY <1>1, <3>1
    <3>4. n <= Height'
      <4> DEFINE c == cursor.h
                 p == peak'
                 H == Height'
      <4>1. c \in Nat /\ peak \in Nat /\ p \in Nat /\ H \in Nat /\ Rewind \in Nat
        BY <1>1
      <4>2. c <= peak /\ peak <= p /\ p <= H + Rewind
        BY <3>1
      <4> HIDE DEF c, p, H
      <4>3. c - Rewind <= H
        BY <4>1, <4>2
      <4> QED BY <4>3 DEF c, H
    <3> QED BY <3>2, <3>3, <3>4
  <2>2. \A h \in 1..n : chain'[h] = chain[h]
    <3>1. CASE Grows
      <4>1. \A h \in 1..Height : chain'[h] = chain[h]
        BY <3>1, GrowsOn
      <4> QED BY <1>1, <2>1, <4>1
    <3>2. CASE \E m \in 1..(Height - 1) : Cut(m)
      <4>1. PICK m \in 1..(Height - 1) : Cut(m)
        BY <3>2
      <4>2. Height' = m /\ \A h \in 1..m : chain'[h] = chain[h]
        BY <4>1, CutIs
      <4> QED BY <1>1, <2>1, <4>2
    <3> QED BY <3>1, <3>2 DEF ChainMoves, Grows
  <2>3. ReadTo(n) /\ TrueTo(n)
    BY <1>3 DEF StoreInv, DeepInv
  <2>4. n' = n
    OBVIOUS
  <2> HIDE DEF n
  <2>5. ReadTo(n)' /\ TrueTo(n)'
    BY <2>1, <2>2, <2>3, <2>4, KeptTo
  <2>6. OnceInv'
    BY <1>3 DEF StoreInv, OnceInv
  <2> QED BY <2>5, <2>6 DEF DeepInv, n
<1>4. ASSUME course' # "lost" PROVE ExactInv'
  BY <1>4, ExactStays DEF StoreInv
<1>5. course' # "lost" => course # "lost"
  BY DEF Forward
<1> QED BY <1>2, <1>3, <1>4, <1>5 DEF StoreInv

\* Where a sync's page ends.
LEMMA EndIs ==
  ASSUME NEW t, Syncing(t)
  PROVE  /\ t.head \in Nat /\ t.at.h \in Nat /\ t.at.v \in Nat /\ EndOf(t) \in Nat /\ EndOf(t) <= t.head
         /\ t.at.h < t.head => t.at.h < EndOf(t)
<1>1. t.head \in Nat /\ t.at.h \in Nat /\ t.at.v \in Nat /\ Page \in Nat \ {0}
  BY InboxBounds DEF Syncing
<1> DEFINE a == t.head
           b == t.at.h + Page
<1>2. a \in Int /\ b \in Int
  BY <1>1
<1>3. Min({a, b}) = IF a <= b THEN a ELSE b
  <2> HIDE DEF a, b
  <2> QED BY <1>2, OfTwo
<1> QED BY <1>1, <1>3 DEF EndOf

\* A sync's own promises hold on while only the keys and the peer move, and the chain grows.
LEMMA SyncStays ==
  ASSUME InboxTypes, InboxTypes', ChainInv, Forward, UNCHANGED <<cursor, inbox, course>>, Grows,
         NEW t, Syncing(t), SyncInv(t)
  PROVE  SyncInv(t)'
<1>1. Height <= Height' /\ \A h \in 1..Height : chain'[h] = chain[h] /\ chain[h] \in MinedBlock
  BY GrowsOn
<1>2. Height \in Nat /\ Height' \in Nat
  BY DEF InboxTypes, Height
<1>3. t.head \in Nat /\ t.at.h \in Nat /\ EndOf(t) \in Nat /\ EndOf(t) <= t.head
  BY EndIs
<1>5. ASSUME NEW h \in 1..Height, NEW m \in chain'[h].mail
      PROVE /\ m \in chain[h].mail
            /\ sealed'[m] = sealed[m] /\ (weekly[sealed[m]] = "deleted" => weekly'[sealed'[m]] = "deleted")
  <2>1. m \in chain[h].mail /\ m \in Mails
    BY <1>1, <1>5 DEF MinedBlock
  <2>2. sealed[m] # 0
    BY <2>1 DEF ChainInv
  <2>3. sealed'[m] = sealed[m] /\ sealed[m] \in Key
    BY <2>1, <2>2 DEF Forward, InboxTypes
  <2> QED BY <2>1, <2>3 DEF Forward
<1>6. KeysRead(t) => KeysRead(t)' /\ t.head <= Height
  <2> SUFFICES ASSUME KeysRead(t) PROVE KeysRead(t)' /\ t.head <= Height
    OBVIOUS
  <2>1. t.head >= 1 /\ t.head <= Height /\ t.head <= Height'
    BY <1>1, <1>2, <1>3 DEF KeysRead
  <2>2. ASSUME NEW h \in 1..t.head, NEW m \in chain'[h].mail PROVE sealed'[m] \in t.live \/ weekly'[sealed'[m]] = "deleted"
    <3>1. h \in 1..Height
      BY <1>2, <1>3, <2>1
    <3>2. m \in chain[h].mail /\ sealed'[m] = sealed[m] /\ (weekly[sealed[m]] = "deleted" => weekly'[sealed'[m]] = "deleted")
      BY <2>2, <3>1, <1>5
    <3> QED BY <3>2 DEF KeysRead
  <2> QED BY <2>1, <2>2 DEF KeysRead
<1>7. ASSUME NEW n \in Nat, n <= Height
      PROVE (ReadTo(n) => ReadTo(n)') /\ (TrueTo(n) => TrueTo(n)') /\ (UpTo(n) => UpTo(n)')
  <2>1. n <= Height' /\ \A h \in 1..n : chain'[h] = chain[h]
    BY <1>1, <1>2, <1>7
  <2> QED BY <1>7, <2>1, KeptTo
<1> DEFINE kept == course # "lost"
<1>16. kept => SyncKept(t)
  BY DEF SyncInv
<1> HIDE DEF kept
<1>8. kept /\ t.pc = "drop" => Rewinding(t)'
  <2> SUFFICES ASSUME kept, t.pc = "drop" PROVE Rewinding(t)'
    OBVIOUS
  <2>1. Rewinding(t)
    BY <1>16 DEF SyncKept
  <2>2. t.at.h <= Height' /\ ReadTo(t.at.h)' /\ TrueTo(t.at.h)'
    BY <1>1, <1>2, <1>3, <1>7, <2>1 DEF Rewinding
  <2> QED BY <2>1, <2>2 DEF Rewinding
<1>9. kept /\ t.pc \in {"page", "match", "hash", "write"} => Exact(t.at.h)' /\ (course' = "torn" => t.at.h < cursor'.h)
  <2> SUFFICES ASSUME kept, t.pc \in {"page", "match", "hash", "write"}
               PROVE Exact(t.at.h)' /\ (course' = "torn" => t.at.h < cursor'.h)
    OBVIOUS
  <2>1. Exact(t.at.h) /\ (course = "torn" => t.at.h < cursor.h)
    BY <1>16 DEF SyncKept
  <2>2. t.at.h <= Height' /\ ReadTo(t.at.h)' /\ TrueTo(t.at.h)' /\ UpTo(t.at.h)'
    BY <1>1, <1>2, <1>3, <1>7, <2>1 DEF Exact
  <2> QED BY <2>1, <2>2 DEF Exact
<1>10. t.pc \in {"match", "hash", "write"} => \A h \in (t.at.h + 1)..EndOf(t) : h \in 1..Height /\ h \in Nat
  BY <1>2, <1>3, <1>6 DEF SyncInv
<1>11. ASSUME NEW ls, ls \in SUBSET Item, t.pc \in {"match", "hash", "write"}, OfPage(t, ls) PROVE OfPage(t, ls)'
  BY <1>1, <1>10, <1>11 DEF OfPage
<1>12. kept /\ t.pc = "match" => OfPage(t, t.logs)' /\ WholePage(t)'
  <2>1. t.logs \in SUBSET Item
    BY DEF Syncing
  <2>2. kept /\ t.pc = "match" => WholePage(t)'
    BY <1>5, <1>10, <1>16 DEF SyncKept, WholePage
  <2> QED BY <1>11, <1>16, <2>1, <2>2 DEF SyncKept
<1>13. kept /\ t.pc \in {"hash", "write"} => OfPage(t, t.got)' /\ Taken(t)'
  <2> SUFFICES ASSUME kept, t.pc \in {"hash", "write"} PROVE OfPage(t, t.got)' /\ Taken(t)'
    OBVIOUS
  <2>1. t.got \in SUBSET Item /\ OfPage(t, t.got) /\ Taken(t)
    BY <1>16 DEF Syncing, SyncKept
  <2>2. OfPage(t, t.got)'
    BY <1>11, <2>1
  <2>3. ASSUME NEW h \in (t.at.h + 1)..EndOf(t), NEW m \in chain'[h].mail
        PROVE (\E g \in t.got : g.m = m /\ g.h = h) \/ m \in unwanted' \/ weekly'[sealed'[m]] = "deleted"
    <3>1. h \in 1..Height
      BY <1>10
    <3>2. m \in chain[h].mail /\ (weekly[sealed[m]] = "deleted" => weekly'[sealed'[m]] = "deleted")
      BY <1>5, <2>3, <3>1
    <3>3. (\E g \in t.got : g.m = m /\ g.h = h) \/ m \in unwanted \/ weekly[sealed[m]] = "deleted"
      BY <2>1, <3>2 DEF Taken
    <3> QED BY <3>2, <3>3 DEF Forward
  <2>4. \A g \in t.got : \A i \in inbox' : i.m # g.m
    BY <2>1 DEF Taken
  <2> QED BY <2>2, <2>3, <2>4 DEF Taken
<1>15. EndOf(t)' = EndOf(t) /\ cursor' = cursor
  BY DEF EndOf
<1>17. kept => SyncKept(t)'
  BY <1>8, <1>9, <1>12, <1>13 DEF SyncKept
<1>18. course' # "lost" => kept
  BY DEF kept
<1> QED BY <1>6, <1>15, <1>17, <1>18 DEF SyncInv

-----------------------------------------------------------------------------
(* A sync, step by step. *)

\* What every step of a reader starts from, and what it leaves of the store when it writes nothing.
LEMMA StepKeeps ==
  ASSUME InboxInv, [InboxNext]_ivars, UNCHANGED <<cursor, inbox, stood>>, course' \in {course, "lost"}
  PROVE  InboxTypes' /\ ChainInv' /\ ForksInv' /\ KeysInv' /\ StoreInv' /\ Forward /\ ChainMoves
<1>1. InboxTypes' /\ ChainInv' /\ ForksInv' /\ KeysInv' /\ Forward /\ ChainMoves
  BY InboxTypeStep, ChainStep, WorldMoves DEF InboxInv
<1> QED BY <1>1, StoreStays DEF InboxInv

\* A sync's promises hold on through a step that leaves the chain and the store alone.
LEMMA SyncKeeps ==
  ASSUME InboxInv, [InboxNext]_ivars, UNCHANGED <<chain, cursor, inbox, stood, course>>, NEW t, Syncing(t), SyncInv(t)
  PROVE  SyncInv(t)'
<1>1. InboxTypes' /\ Forward /\ Grows
  BY StepKeeps DEF Grows
<1> QED BY <1>1, SyncStays DEF InboxInv

\* messaging_sync begins: the keys it opens messages with are all there are.
LEMMA BeginStep ==
  ASSUME NEW r \in Readers, NEW news \in BOOLEAN, InboxInv, [InboxNext]_ivars, SyncBegin(r, news)
  PROVE  \E j : j = task'[r] /\ SyncInv(j)'
<1>0. PICK L : L = {k \in Key : weekly'[k] \in {"live", "superseded"}}
  OBVIOUS
<1>9. PICK job : job = [Away EXCEPT !.pc = "anchor", !.head = Height, !.news = news, !.live = L]
  OBVIOUS
<1>1. Step(r, "idle", job) /\ UNCHANGED <<chain, born, peak, sealed, cursor, inbox, unwanted>>
  BY <1>0, <1>9 DEF SyncBegin, node, store, ghost
<1>2. PICK seen : weekly' = Pruned(seen)
  BY DEF SyncBegin
<1>3. job.pc = "anchor" /\ job.head = Height /\ job.live = L
  BY <1>9 DEF Away
<1>4. task'[r] = job
  BY <1>1 DEF Step, InboxInv, InboxTypes
<1>5. Height >= 1 /\ Height' = Height
  BY <1>1 DEF InboxInv, ChainInv, Height
<1>6. ASSUME NEW h \in 1..Height, NEW m \in chain[h].mail PROVE sealed[m] \in L \/ weekly'[sealed[m]] = "deleted"
  <2>1. chain[h] \in MinedBlock
    BY DEF InboxInv, InboxTypes, Height
  <2>2. m \in Mails /\ sealed[m] # 0
    BY <2>1 DEF InboxInv, ChainInv, MinedBlock
  <2>3. sealed[m] \in Key /\ weekly[sealed[m]] # "none"
    BY <2>2 DEF InboxInv, InboxTypes, KeysInv
  <2>4. weekly'[sealed[m]] \in {"live", "superseded", "deleted"}
    BY <1>2, <2>3, PrunedIs DEF InboxInv
  <2> QED BY <1>0, <2>3, <2>4
<1>7. KeysRead(job)'
  <2>1. chain' = chain /\ sealed' = sealed
    BY <1>1
  <2>2. job.head >= 1 /\ job.head <= Height'
    BY <1>3, <1>5 DEF InboxInv, InboxTypes, Height
  <2>3. ASSUME NEW h \in 1..job.head, NEW m \in chain'[h].mail
        PROVE sealed'[m] \in job.live \/ weekly'[sealed'[m]] = "deleted"
    BY <1>3, <1>6, <2>1
  <2> QED BY <2>2, <2>3 DEF KeysRead
<1> QED BY <1>3, <1>4, <1>7 DEF SyncInv, SyncKept

\* scanned: where reading stopped.
LEMMA AnchorStep ==
  ASSUME NEW r \in Readers, InboxInv, [InboxNext]_ivars, Anchor(r)
  PROVE  \E j : j = task'[r] /\ SyncInv(j)'
<1>1. PICK t : t = task[r]
  OBVIOUS
<1>2. Syncing(t) /\ SyncInv(t) /\ t.pc = "anchor"
  BY <1>1 DEF InboxInv, InboxTypes, Anchor, Step
<1>3. PICK j : j = [t EXCEPT !.pc = "compare", !.at = cursor]
  OBVIOUS
<1>4. task'[r] = j /\ UNCHANGED <<chain, cursor, inbox, stood, course>>
  BY <1>1, <1>3 DEF Anchor, Step, InboxInv, InboxTypes, node, store, ghost, way
<1>5. j.pc = "compare" /\ j.at = cursor /\ j.head = t.head /\ j.live = t.live /\ Syncing(j)
  BY <1>2, <1>3 DEF Syncing, SyncPlaces, InboxInv, InboxTypes
<1>6. SyncInv(j)
  BY <1>2, <1>5 DEF SyncInv, SyncKept, KeysRead
<1> QED BY <1>4, <1>5, <1>6, SyncKeeps

\* The block there is still on the chain, or reading goes back to where nothing has changed.
LEMMA CompareStep ==
  ASSUME NEW r \in Readers, InboxInv, [InboxNext]_ivars, Compare(r)
  PROVE  \E j : j = task'[r] /\ SyncInv(j)'
<1>1. PICK t : t = task[r]
  OBVIOUS
<1>2. Syncing(t) /\ SyncInv(t) /\ t.pc = "compare" /\ t.at = cursor /\ KeysRead(t)
  <2>1. t.pc = "compare"
    BY <1>1 DEF Compare, Step
  <2> QED BY <1>1, <2>1 DEF InboxInv, InboxTypes, SyncInv
<1>3. UNCHANGED <<chain, sealed, weekly, unwanted, cursor, inbox, stood>> /\ course' \in {course, "lost"}
  BY DEF Compare, node, store, ghost, way
<1>4. cursor.h \in Nat /\ cursor.h >= 1 /\ Rewind \in Nat \ {0} /\ Height \in Nat /\ peak \in Nat
      /\ cursor.h <= peak /\ peak <= Height + Rewind /\ stood >= 1 /\ stood \in Nat
  BY InboxBounds DEF InboxInv, InboxTypes, StoreInv, CursorInv, ChainInv, Height
<1>5. CASE Step(r, "compare", [t EXCEPT !.pc = "page"]) /\ course' = (IF course = "torn" \/ stood # HashAt(cursor.h) THEN "lost" ELSE course)
  <2>1. PICK j : j = [t EXCEPT !.pc = "page"]
    OBVIOUS
  <2>2. task'[r] = j
    BY <1>5, <2>1 DEF Step, InboxInv, InboxTypes
  <2>3. j.pc = "page" /\ j.at = cursor /\ j.head = t.head /\ j.live = t.live
    BY <1>2, <2>1 DEF Syncing
  <2>4. KeysRead(j)'
    BY <1>2, <1>3, <2>3 DEF KeysRead, Height
  <2>5. ASSUME course' # "lost" PROVE SyncKept(j)'
    <3>1. stood = HashAt(cursor.h) /\ course = "kept" /\ course' = "kept"
      BY <1>5, <2>5 DEF InboxInv, InboxTypes
    <3>2. cursor.h \in 1..Height /\ chain[cursor.h].v = stood
      BY <1>4, <3>1, HashIs DEF InboxInv
    <3>3. HeldOf(chain)
      BY <1>4, <3>1, <3>2 DEF InboxInv, StoreInv, ExactInv, Chains, Height
    <3>4. Exact(cursor.h)
      BY <1>4, <3>2, <3>3 DEF HeldOf, Exact, ReadTo, TrueTo, UpTo
    <3>5. Exact(cursor.h)'
      BY <1>3, <3>4 DEF Exact, ReadTo, TrueTo, UpTo, Accounted, Height
    <3>6. Exact(j.at.h)'
      BY <1>3, <2>3, <3>5 DEF Exact, ReadTo, TrueTo, UpTo
    <3> QED BY <2>3, <3>1, <3>6 DEF SyncKept
  <2> QED BY <2>2, <2>3, <2>4, <2>5 DEF SyncInv
<1>6. ASSUME NEW back, back = Max({0, cursor.h - Rewind}), NEW gone, gone = {i.m : i \in {j \in inbox : j.h > back}},
             Step(r, "compare", [t EXCEPT !.pc = "drop", !.at.h = back, !.stale = gone]), UNCHANGED course
      PROVE \E j : j = task'[r] /\ SyncInv(j)'
  <2> DEFINE d == cursor.h - Rewind
  <2>0. d \in Int /\ d <= Height
    BY <1>4
  <2>2. back = IF 0 <= d THEN d ELSE 0
    <3>1. back = Max({0, d})
      BY <1>6
    <3> HIDE DEF d
    <3> QED BY <2>0, <3>1, OfTwo
  <2>3. back \in Nat /\ back <= Height /\ d <= back /\ back < cursor.h /\ (back = 0 \/ back = d)
    BY <1>4, <2>0, <2>2
  <2>5. PICK j : j = [t EXCEPT !.pc = "drop", !.at.h = back, !.stale = gone]
    OBVIOUS
  <2>6. task'[r] = j
    BY <1>6, <2>5 DEF Step, InboxInv, InboxTypes
  <2>7. gone \in SUBSET Mails
    BY <1>6 DEF InboxInv, InboxTypes, Item
  <2>8. j.pc = "drop" /\ j.at.h = back /\ j.stale = gone /\ j.head = t.head /\ j.live = t.live /\ Syncing(j)
    BY <1>2, <2>3, <2>5, <2>7 DEF Syncing, SyncPlaces
  <2>9. course # "lost" => ReadTo(back)
    <3>1. CASE back = 0
      BY <3>1 DEF ReadTo
    <3>2. CASE back = d
      BY <3>2 DEF InboxInv, StoreInv, DeepInv
    <3> QED BY <2>3, <3>1, <3>2
  <2>10. course # "lost" => TrueTo(back)
    <3>1. CASE back = 0
      BY <3>1 DEF TrueTo, InboxInv, InboxTypes, Item
    <3>2. CASE back = d
      BY <3>2 DEF InboxInv, StoreInv, DeepInv
    <3> QED BY <2>3, <3>1, <3>2
  <2>11. course # "lost" => \A i \in inbox : i.h > back <=> i.m \in gone
    BY <1>6 DEF InboxInv, StoreInv, OnceInv
  <2>13. course # "lost" => Rewinding(j)
    BY <2>3, <2>8, <2>9, <2>10, <2>11 DEF Rewinding
  <2>14. SyncInv(j)
    BY <1>2, <2>8, <2>13 DEF SyncInv, SyncKept, KeysRead
  <2>15. SyncInv(j)'
    BY <1>3, <1>6, <2>8, <2>14, SyncKeeps
  <2> QED BY <2>6, <2>15
<1>7. ASSUME ~(Step(r, "compare", [t EXCEPT !.pc = "page"]) /\ course' = (IF course = "torn" \/ stood # HashAt(cursor.h) THEN "lost" ELSE course))
      PROVE \E back, gone : /\ back = Max({0, cursor.h - Rewind}) /\ gone = {i.m : i \in {j \in inbox : j.h > back}}
                            /\ Step(r, "compare", [t EXCEPT !.pc = "drop", !.at.h = back, !.stale = gone]) /\ UNCHANGED course
  <2> DEFINE B == Max({0, cursor.h - Rewind})
             G == {i.m : i \in {j \in inbox : j.h > B}}
  <2>1. Step(r, "compare", [t EXCEPT !.pc = "drop", !.at.h = B, !.stale = G]) /\ UNCHANGED course
    BY <1>1, <1>2, <1>7 DEF Compare, ghost, way
  <2> QED BY <2>1
<1> QED BY <1>5, <1>6, <1>7

\* delete_message: what goes is above where reading goes on from.
LEMMA DropStep ==
  ASSUME NEW r \in Readers, InboxInv, [InboxNext]_ivars, Drop(r)
  PROVE  (\E j : j = task'[r] /\ SyncInv(j)') /\ StoreInv'
<1>1. PICK t : t = task[r]
  OBVIOUS
<1>2. Syncing(t) /\ SyncInv(t) /\ t.pc = "drop" /\ KeysRead(t) /\ (course # "lost" => Rewinding(t))
  <2>1. t.pc = "drop"
    BY <1>1 DEF Drop, Step
  <2> QED BY <1>1, <2>1 DEF InboxInv, InboxTypes, SyncInv, SyncKept
<1>3. UNCHANGED <<chain, born, forks, peak, sealed, weekly, cursor, unwanted, stood>> /\ Height' = Height
  BY DEF Drop, node, store, ghost, way, Height
<1>4. CASE \E m \in t.stale : /\ task' = [task EXCEPT ![r] = [t EXCEPT !.stale = @ \ {m}]] /\ inbox' = {i \in inbox : i.m # m}
                              /\ course' = IF course = "lost" THEN "lost" ELSE "torn"
  <2>1. PICK m \in t.stale : /\ task' = [task EXCEPT ![r] = [t EXCEPT !.stale = @ \ {m}]] /\ inbox' = {i \in inbox : i.m # m}
                             /\ course' = IF course = "lost" THEN "lost" ELSE "torn"
    BY <1>4
  <2>2. PICK j : j = [t EXCEPT !.stale = @ \ {m}]
    OBVIOUS
  <2>3. task'[r] = j
    BY <2>1, <2>2 DEF InboxInv, InboxTypes
  <2>4. j.pc = "drop" /\ j.at = t.at /\ j.stale = t.stale \ {m} /\ j.head = t.head /\ j.live = t.live
    BY <1>2, <2>2 DEF Syncing
  <2>14. KeysRead(j)'
    BY <1>2, <1>3, <2>4 DEF KeysRead
  <2>16. CursorInv'
    BY <1>3 DEF InboxInv, StoreInv, CursorInv
  <2>17. CASE course = "lost"
    <3>1. course' = "lost"
      BY <2>1, <2>17
    <3> QED BY <2>3, <2>4, <2>14, <2>16, <3>1 DEF SyncInv, StoreInv
  <2>18. CASE course # "lost"
    <3>0. Rewinding(t) /\ course' = "torn"
      BY <1>2, <2>1, <2>18
    <3>5. \A i \in inbox : i.h <= t.at.h => i \in inbox'
      <4>1. \A i \in inbox : i.h \in Nat /\ t.at.h \in Nat
        BY <1>2, EndIs DEF InboxInv, InboxTypes, Item
      <4> QED BY <3>0, <2>1, <4>1 DEF Rewinding
    <3>6. ASSUME NEW n \in Int, n <= t.at.h PROVE (ReadTo(n) => ReadTo(n)') /\ (TrueTo(n) => TrueTo(n)')
      <4>1. ASSUME ReadTo(n), NEW h \in 1..n, NEW x \in chain[h].mail PROVE Accounted(x, h)'
        <5>1. h <= t.at.h
          <6>1. t.at.h \in Nat
            BY <1>2, EndIs
          <6> QED BY <3>6, <6>1
        <5>2. Accounted(x, h)
          BY <4>1 DEF ReadTo
        <5> QED BY <1>3, <3>5, <5>1, <5>2 DEF Accounted
      <4>2. TrueTo(n) => TrueTo(n)'
        BY <1>3, <2>1 DEF TrueTo
      <4> QED BY <1>3, <4>1, <4>2 DEF ReadTo
    <3>7. t.at.h \in Nat /\ cursor.h - Rewind \in Int /\ cursor.h - Rewind <= t.at.h
      BY <1>2, <3>0, EndIs, InboxBounds DEF Rewinding, InboxInv, InboxTypes
    <3>8. ReadTo(t.at.h)' /\ TrueTo(t.at.h)'
      BY <3>0, <3>6, <3>7 DEF Rewinding
    <3>9. DeepInv'
      <4> DEFINE n == cursor.h - Rewind
      <4>1. ReadTo(n) /\ TrueTo(n)
        BY <2>18 DEF InboxInv, StoreInv, DeepInv
      <4>2. n' = n
        BY <1>3
      <4> HIDE DEF n
      <4>3. ReadTo(n)' /\ TrueTo(n)'
        BY <3>6, <3>7, <4>1, <4>2 DEF n
      <4> QED BY <4>3 DEF DeepInv, n
    <3>11. OnceInv' /\ ExactInv'
      BY <2>1, <2>18, <3>0 DEF InboxInv, StoreInv, OnceInv, ExactInv
    <3>12. \A i \in inbox' : i.h > t.at.h <=> i.m \in j.stale
      BY <3>0, <2>1, <2>4 DEF Rewinding
    <3>13. Rewinding(j)'
      BY <1>3, <2>4, <3>0, <3>8, <3>12 DEF Rewinding
    <3>15. SyncInv(j)'
      BY <2>4, <2>14, <3>13 DEF SyncInv, SyncKept
    <3> QED BY <2>3, <2>16, <3>9, <3>11, <3>15 DEF StoreInv
  <2> QED BY <2>17, <2>18
<1>5. CASE t.stale = {} /\ task' = [task EXCEPT ![r] = [t EXCEPT !.pc = "page"]] /\ UNCHANGED <<inbox, course>>
  <2>1. PICK j : j = [t EXCEPT !.pc = "page"]
    OBVIOUS
  <2>2. task'[r] = j
    BY <1>5, <2>1 DEF InboxInv, InboxTypes
  <2>3. j.pc = "page" /\ j.at = t.at /\ j.head = t.head /\ j.live = t.live /\ Syncing(j)
    BY <1>2, <2>1 DEF Syncing, SyncPlaces
  <2>4. course # "lost" => UpTo(t.at.h)
    <3>1. \A i \in inbox : i.h \in Nat /\ t.at.h \in Nat
      BY <1>2, EndIs DEF InboxInv, InboxTypes, Item
    <3> QED BY <1>2, <1>5, <3>1 DEF Rewinding, UpTo
  <2>5. SyncInv(j)
    BY <1>2, <2>3, <2>4 DEF SyncInv, SyncKept, KeysRead, Rewinding, Exact
  <2>6. SyncInv(j)'
    BY <1>3, <1>5, <2>3, <2>5, SyncKeeps
  <2> QED BY <1>3, <1>5, <2>2, <2>6, StepKeeps
<1>6. CASE \E m \in t.stale : /\ Step(r, "drop", [t EXCEPT !.stale = @ \ {m}]) /\ inbox' = {i \in inbox : i.m # m}
                              /\ course' = IF course = "lost" THEN "lost" ELSE "torn"
  BY <1>1, <1>4, <1>6 DEF Step
<1>7. CASE t.stale = {} /\ Step(r, "drop", [t EXCEPT !.pc = "page"]) /\ UNCHANGED <<inbox, course>>
  BY <1>1, <1>5, <1>7 DEF Step
<1> QED BY <1>1, <1>6, <1>7 DEF Drop, store, ghost, way

\* board_logs of the next page, all of it.
LEMMA LogsStep ==
  ASSUME NEW r \in Readers, InboxInv, [InboxNext]_ivars, Logs(r)
  PROVE  \E j : j = task'[r] /\ SyncInv(j)'
<1>1. PICK t : t = task[r]
  OBVIOUS
<1>2. Syncing(t) /\ SyncInv(t) /\ t.pc = "page" /\ KeysRead(t) /\ t.at.h < t.head
  <2>1. t.pc = "page" /\ t.at.h < t.head
    BY <1>1 DEF Logs, Step
  <2> QED BY <1>1, <2>1 DEF InboxInv, InboxTypes, SyncInv
<1>3. PICK logs : logs = UNION {{[m |-> m, h |-> h, at |-> chain[h].v] : m \in chain[h].mail} : h \in (t.at.h + 1)..EndOf(t)}
  OBVIOUS
<1>4. PICK j : j = [t EXCEPT !.pc = "match", !.logs = logs]
  OBVIOUS
<1>5. EndOf(t) \in Nat /\ EndOf(t) <= t.head /\ t.head \in Nat /\ Height \in Nat /\ t.head <= Height /\ t.at.h \in Nat
  BY <1>2, EndIs DEF KeysRead, InboxInv, InboxTypes, Height
<1>6. PageEnd(r) = EndOf(t)
  BY <1>1 DEF PageEnd, EndOf
<1>7. Min({EndOf(t), Height}) = EndOf(t)
  <2> DEFINE e == EndOf(t)
             H == Height
  <2>1. e \in Int /\ H \in Int /\ e <= H
    BY <1>5
  <2> HIDE DEF e, H
  <2>2. Min({e, H}) = e
    BY <2>1, OfTwo
  <2> QED BY <2>2 DEF e, H
<1>8. task' = [task EXCEPT ![r] = j] /\ UNCHANGED <<chain, cursor, inbox, stood, course>>
  BY <1>1, <1>3, <1>4, <1>6, <1>7 DEF Logs, Step, node, store, ghost, way
<1>9. task'[r] = j
  BY <1>8 DEF InboxInv, InboxTypes
<1>10. logs \in SUBSET Item
  <2>1. logs = UNION {{[m |-> m, h |-> h, at |-> chain[h].v] : m \in chain[h].mail} : h \in (t.at.h + 1)..Min({EndOf(t), Height})}
    BY <1>3, <1>7
  <2> QED BY <1>5, <2>1, LogsType DEF InboxInv
<1>11. j.pc = "match" /\ j.at = t.at /\ j.head = t.head /\ j.live = t.live /\ j.logs = logs /\ Syncing(j)
  BY <1>2, <1>4, <1>10 DEF Syncing, SyncPlaces
<1>12. EndOf(j) = EndOf(t)
  BY <1>11 DEF EndOf
<1>13. OfPage(j, logs) /\ WholePage(j)
  <2>1. OfPage(j, logs)
    BY <1>3, <1>11, <1>12 DEF OfPage
  <2>2. ASSUME NEW h \in (t.at.h + 1)..EndOf(t), NEW m \in chain[h].mail PROVE \E l \in logs : l.m = m /\ l.h = h
    <3>1. [m |-> m, h |-> h, at |-> chain[h].v] \in logs
      BY <1>3, <2>2
    <3> QED BY <3>1
  <2> QED BY <1>11, <1>12, <2>1, <2>2 DEF WholePage
<1>14. SyncInv(j)
  BY <1>2, <1>11, <1>13 DEF SyncInv, SyncKept, KeysRead
<1> QED BY <1>8, <1>9, <1>11, <1>14, SyncKeeps

\* has_message, open: what is new is taken, or was meant for nobody.
LEMMA MatchStep ==
  ASSUME NEW r \in Readers, InboxInv, [InboxNext]_ivars, Match(r)
  PROVE  \E j : j = task'[r] /\ SyncInv(j)'
<1>1. PICK t : t = task[r]
  OBVIOUS
<1>2. Syncing(t) /\ SyncInv(t) /\ t.pc = "match" /\ KeysRead(t) /\ t.at.h < t.head
  <2>1. t.pc = "match"
    BY <1>1 DEF Match, Step
  <2> QED BY <1>1, <2>1 DEF InboxInv, InboxTypes, SyncInv
<1>3. UNCHANGED <<chain, sealed, weekly, cursor, inbox, stood, course>>
  BY DEF Match, node, store, ghost, way
<1>4. PICK new : new = {l \in t.logs : sealed[l.m] \in t.live /\ \A i \in inbox : i.m # l.m}
  OBVIOUS
<1>20. PICK kept : kept = (course # "lost")
  OBVIOUS
<1>21. kept => Exact(t.at.h) /\ (course = "torn" => t.at.h < cursor.h) /\ OfPage(t, t.logs) /\ WholePage(t)
  BY <1>2, <1>20 DEF SyncInv, SyncKept
<1>5. new \in SUBSET Item /\ (kept => OfPage(t, new))
  BY <1>2, <1>4, <1>21 DEF Syncing, OfPage
<1>6. PICK unseen : unseen = {[l EXCEPT !.at = 0] : l \in new}
  OBVIOUS
<1>7. \A l \in new : [l EXCEPT !.at = 0] \in Item /\ [l EXCEPT !.at = 0].m = l.m /\ [l EXCEPT !.at = 0].h = l.h
  BY <1>5 DEF Item
<1>8. PICK found : /\ (found = {} /\ unwanted' = unwanted \cup {l.m : l \in new}) \/ found \in {new, unseen}
                   /\ task' = [task EXCEPT ![r] = [t EXCEPT !.pc = "hash", !.got = found, !.peer = peer]]
  BY <1>1, <1>4, <1>6 DEF Match, Step
<1>9. (kept => OfPage(t, found)) /\ \A g \in found : \A i \in inbox : i.m # g.m
  <2>1. CASE found = {}
    BY <2>1 DEF OfPage
  <2>2. CASE found = new
    BY <1>4, <1>5, <2>2
  <2>3. CASE found = unseen
    <3>1. ASSUME NEW g \in found PROVE \E l \in new : g \in Item /\ g.m = l.m /\ g.h = l.h
      <4>1. PICK l \in new : g = [l EXCEPT !.at = 0]
        BY <1>6, <2>3
      <4> QED BY <1>7, <4>1
    <3>2. \A l \in new : \A i \in inbox : i.m # l.m
      BY <1>4
    <3>3. kept => \A l \in new : l.h \in (t.at.h + 1)..EndOf(t) /\ l.m \in chain[l.h].mail
      BY <1>5 DEF OfPage
    <3>4. kept => OfPage(t, found)
      BY <3>1, <3>3 DEF OfPage
    <3> QED BY <3>1, <3>2, <3>4
  <2> QED BY <1>8, <2>1, <2>2, <2>3
<1>10. PICK j : j = [t EXCEPT !.pc = "hash", !.got = found, !.peer = peer]
  OBVIOUS
<1>11. task'[r] = j
  BY <1>8, <1>10 DEF InboxInv, InboxTypes
<1>12. j.pc = "hash" /\ j.at = t.at /\ j.head = t.head /\ j.live = t.live /\ j.got = found
  BY <1>2, <1>10 DEF Syncing
<1>13. EndOf(j) = EndOf(t)
  BY <1>12 DEF EndOf
<1>14. ASSUME kept, NEW h \in (t.at.h + 1)..EndOf(t), NEW m \in chain[h].mail
       PROVE (\E g \in found : g.m = m /\ g.h = h) \/ m \in unwanted' \/ weekly[sealed[m]] = "deleted"
  <2>1. PICK l \in t.logs : l.m = m /\ l.h = h
    BY <1>14, <1>21 DEF WholePage
  <2>2. h \in 1..t.head /\ h \in 1..Height /\ h > t.at.h /\ h \in Nat
    BY <1>2, EndIs DEF KeysRead, InboxInv, InboxTypes, Height
  <2>3. CASE l \in new
    <3>1. CASE found = {} /\ unwanted' = unwanted \cup {x.m : x \in new}
      BY <2>1, <2>3, <3>1
    <3>2. CASE found = new
      BY <2>1, <2>3, <3>2
    <3>3. CASE found = unseen
      BY <1>6, <1>7, <2>1, <2>3, <3>3
    <3> QED BY <1>8, <3>1, <3>2, <3>3
  <2>4. CASE sealed[m] \notin t.live
    BY <1>2, <2>2, <2>4 DEF KeysRead
  <2>5. CASE \E i \in inbox : i.m = m
    <3>1. PICK i \in inbox : i.m = m
      BY <2>5
    <3>2. i.h <= t.at.h /\ m \in chain[i.h].mail /\ i.h \in Nat \ {0} /\ t.at.h \in Nat /\ t.at.h <= Height /\ Height \in Nat
      BY <1>2, <1>14, <1>21, <3>1, EndIs DEF Exact, UpTo, TrueTo, InboxInv, InboxTypes, Item, Height
    <3>3. i.h \in 1..Height
      BY <3>2
    <3>4. i.h = h
      BY <1>14, <2>2, <3>2, <3>3 DEF InboxInv, ChainInv
    <3> QED BY <2>2, <3>2, <3>4
  <2> QED BY <1>4, <2>1, <2>3, <2>4, <2>5
<1>15. SyncInv(t)'
  BY <1>2, <1>3, SyncKeeps
<1>16. KeysRead(t)' /\ (kept => Exact(t.at.h)' /\ (course = "torn" => t.at.h < cursor.h))
  BY <1>2, <1>3, <1>15, <1>20 DEF SyncInv, SyncKept
<1>17. kept => OfPage(j, found)' /\ Taken(j)'
  <2>1. kept => OfPage(j, found)'
    BY <1>3, <1>9, <1>12, <1>13 DEF OfPage
  <2>2. kept => \A h \in (j.at.h + 1)..EndOf(j) : \A m \in chain'[h].mail :
          (\E g \in j.got : g.m = m /\ g.h = h) \/ m \in unwanted' \/ weekly'[sealed'[m]] = "deleted"
    BY <1>3, <1>12, <1>13, <1>14
  <2>3. \A g \in j.got : \A i \in inbox' : i.m # g.m
    BY <1>3, <1>9, <1>12
  <2> QED BY <2>1, <2>2, <2>3 DEF Taken
<1>18. KeysRead(j)' /\ (kept => Exact(j.at.h)' /\ (course' = "torn" => j.at.h < cursor'.h))
  <2>1. KeysRead(j)'
    BY <1>12, <1>16 DEF KeysRead
  <2>2. kept => Exact(j.at.h)'
    BY <1>12, <1>16
  <2> QED BY <1>3, <1>12, <1>16, <2>1, <2>2
<1>19. kept => SyncKept(j)'
  BY <1>12, <1>17, <1>18 DEF SyncKept
<1>22. SyncInv(j)'
  BY <1>2, <1>3, <1>12, <1>18, <1>19, <1>20 DEF SyncInv
<1> QED BY <1>11, <1>22

\* block_hash of the page's end.
LEMMA HashStep ==
  ASSUME NEW r \in Readers, InboxInv, [InboxNext]_ivars, Hash(r)
  PROVE  \E j : j = task'[r] /\ SyncInv(j)'
<1>1. PICK t : t = task[r]
  OBVIOUS
<1>2. Syncing(t) /\ SyncInv(t) /\ t.pc = "hash" /\ KeysRead(t) /\ t.at.h < t.head
  <2>1. t.pc = "hash"
    BY <1>1 DEF Hash, Step
  <2> QED BY <1>1, <2>1 DEF InboxInv, InboxTypes, SyncInv
<1>3. UNCHANGED <<chain, cursor, inbox, stood, course>>
  BY DEF Hash, node, store, ghost, way
<1>4. PICK v \in {0, HashAt(PageEnd(r))} : task' = [task EXCEPT ![r] = [t EXCEPT !.pc = "write", !.hash = v]]
  BY <1>1 DEF Hash, Step
<1>5. PICK j : j = [t EXCEPT !.pc = "write", !.hash = v]
  OBVIOUS
<1>6. task'[r] = j
  BY <1>4, <1>5 DEF InboxInv, InboxTypes
<1>9. v \in Nat
  BY <1>4, HashIs, PageEndIs DEF InboxInv
<1>10. j.pc = "write" /\ j.at = t.at /\ j.head = t.head /\ j.live = t.live /\ j.got = t.got /\ Syncing(j)
  BY <1>2, <1>5, <1>9 DEF Syncing, SyncPlaces
<1>11. EndOf(j) = EndOf(t)
  BY <1>10 DEF EndOf
<1>12. SyncInv(j)
  BY <1>2, <1>10, <1>11 DEF SyncInv, SyncKept, KeysRead, OfPage, Taken
<1> QED BY <1>3, <1>6, <1>10, <1>12, SyncKeeps

\* One transaction: the page's messages, and that reading came to its end.
LEMMA WriteStep ==
  ASSUME NEW r \in Readers, InboxInv, [InboxNext]_ivars, PageWrite(r)
  PROVE  (\E j : j = task'[r] /\ SyncInv(j)') /\ StoreInv'
<1>1. PICK t : t = task[r]
  OBVIOUS
<1>2. Syncing(t) /\ SyncInv(t) /\ t.pc = "write" /\ KeysRead(t) /\ t.at.h < t.head
      /\ (course # "lost" => SyncKept(t))
  <2>1. t.pc = "write"
    BY <1>1 DEF PageWrite, Step
  <2> QED BY <1>1, <2>1 DEF InboxInv, InboxTypes, SyncInv
<1>3. UNCHANGED <<chain, born, forks, peak, sealed, weekly, unwanted>> /\ Height' = Height
  BY DEF PageWrite, node, ghost, Height
<1>4. PICK e : e = EndOf(t)
  OBVIOUS
<1>5. /\ e \in Nat /\ e <= t.head /\ t.at.h < e /\ t.at.h \in Nat /\ Height \in Nat /\ t.head <= Height /\ Rewind \in Nat
      /\ e \in 1..Height
  BY <1>2, <1>4, EndIs, InboxBounds DEF KeysRead, InboxInv, InboxTypes, Height
<1>6. PageEnd(r) = e
  BY <1>1, <1>4 DEF PageEnd, EndOf
<1>7. /\ cursor' = [h |-> e, v |-> t.hash] /\ task' = [task EXCEPT ![r] = [t EXCEPT !.pc = "page", !.at = cursor']]
      /\ stood' = HashAt(e) /\ course' = IF course = "torn" /\ t.at.h < cursor.h THEN "kept" ELSE course
  BY <1>1, <1>6 DEF PageWrite, Step, Comes
<1>9. PICK j : j = [t EXCEPT !.pc = "page", !.at = [h |-> e, v |-> t.hash]]
  OBVIOUS
<1>10. task'[r] = j
  BY <1>7, <1>9 DEF InboxInv, InboxTypes
<1>11. j.pc = "page" /\ j.at.h = e /\ j.head = t.head /\ j.live = t.live
  BY <1>2, <1>9 DEF Syncing
<1>17. CursorInv' /\ stood' = chain[e].v
  <2>1. chain[e] \in MinedBlock /\ chain[e].v <= born /\ Height <= peak
    BY <1>5 DEF InboxInv, InboxTypes, ChainInv, Height
  <2>2. stood' = chain[e].v /\ chain[e].v \in Nat \ {0} /\ peak \in Nat
    <3>1. HashAt(e) = chain[e].v
      BY <1>5 DEF HashAt
    <3>2. chain[e].v \in Nat \ {0} /\ peak \in Nat
      BY <2>1 DEF MinedBlock, InboxInv, InboxTypes
    <3> QED BY <1>7, <3>1, <3>2
  <2>3. cursor'.h = e
    BY <1>7
  <2>4. e >= 1 /\ e <= peak
    BY <1>5, <2>1, <2>2
  <2>5. chain[e].v >= 1 /\ chain[e].v <= born
    BY <2>1, <2>2
  <2> QED BY <1>3, <2>2, <2>3, <2>4, <2>5 DEF CursorInv
<1>21. KeysRead(j)'
  BY <1>2, <1>3, <1>11 DEF KeysRead
<1>22. ASSUME course' # "lost" PROVE SyncKept(j)' /\ OnceInv' /\ DeepInv' /\ ExactInv'
  <2>1. course # "lost" /\ course' = "kept"
    <3>1. course # "lost"
      BY <1>7, <1>22
    <3>2. course = "torn" => t.at.h < cursor.h
      BY <1>2, <3>1 DEF SyncKept
    <3> QED BY <1>7, <3>1, <3>2 DEF InboxInv, InboxTypes
  <2>2. Exact(t.at.h) /\ OfPage(t, t.got) /\ Taken(t)
    BY <1>2, <2>1 DEF SyncKept
  <2>8. inbox' = inbox \cup t.got
    BY <1>1, <2>2 DEF PageWrite, Taken
  <2>12. \A g \in t.got : g.h \in (t.at.h + 1)..e /\ g.m \in chain[g.h].mail /\ g.h \in Nat /\ g.h \in 1..Height
    BY <1>4, <1>5, <2>2 DEF OfPage
  <2>13. \A i \in inbox : i.h <= t.at.h /\ i.m \in chain[i.h].mail /\ i.h \in Nat \ {0}
    BY <2>2 DEF Exact, UpTo, TrueTo, InboxInv, InboxTypes, Item
  <2>14. \A h \in 1..e : \A m \in chain[h].mail : Accounted(m, h)'
    <3> SUFFICES ASSUME NEW h \in 1..e, NEW m \in chain[h].mail PROVE Accounted(m, h)'
      OBVIOUS
    <3>1. CASE h <= t.at.h
      <4>1. h \in 1..t.at.h
        BY <1>5, <3>1
      <4>2. Accounted(m, h)
        BY <2>2, <4>1 DEF Exact, ReadTo
      <4> QED BY <1>3, <2>8, <4>2 DEF Accounted
    <3>2. CASE ~(h <= t.at.h)
      <4>1. h \in (t.at.h + 1)..EndOf(t)
        BY <1>4, <1>5, <3>2
      <4>2. (\E g \in t.got : g.m = m /\ g.h = h) \/ m \in unwanted \/ weekly[sealed[m]] = "deleted"
        BY <2>2, <4>1 DEF Taken
      <4> QED BY <1>3, <2>8, <4>2 DEF Accounted
    <3> QED BY <3>1, <3>2
  <2>15. \A i \in inbox' : i.h <= e /\ i.m \in chain[i.h].mail
    BY <1>5, <2>8, <2>12, <2>13
  <2>16. Exact(e)'
    BY <1>3, <1>5, <2>14, <2>15 DEF Exact, ReadTo, TrueTo, UpTo
  <2>18. OnceInv'
    <3> SUFFICES ASSUME NEW i \in inbox', NEW k \in inbox', i.m = k.m PROVE i.h = k.h
      BY DEF OnceInv
    <3>1. CASE i \in inbox /\ k \in inbox
      BY <2>1, <3>1 DEF InboxInv, StoreInv, OnceInv
    <3>2. CASE i \in t.got /\ k \in t.got
      BY <2>12, <3>2 DEF InboxInv, ChainInv
    <3>3. CASE (i \in inbox /\ k \in t.got) \/ (i \in t.got /\ k \in inbox)
      BY <2>2, <3>3 DEF Taken
    <3> QED BY <2>8, <3>1, <3>2, <3>3
  <2>19. ExactInv' /\ cursor'.h = e
    <3>1. cursor'.h = e /\ Chains' = Chains
      BY <1>3, <1>7 DEF Chains
    <3>2. ASSUME NEW c \in Chains, e <= Len(c), c[e].v = stood' PROVE HeldOf(c)'
      <4>1. chain \in Chains /\ Len(chain) = Height /\ Len(c) \in Nat
        BY DEF Chains, Height, InboxInv, InboxTypes
      <4>2. e \in 1..Len(c) /\ e <= Len(chain) /\ c[e].v = chain[e].v
        BY <1>5, <1>17, <3>2, <4>1
      <4>3. \A g \in 1..e : c[g] = chain[g]
        BY <4>1, <4>2 DEF InboxInv, ForksInv
      <4>4. \A h \in 1..e : \A m \in c[h].mail : Accounted(m, h)'
        BY <2>14, <4>3
      <4>5. \A i \in inbox' : i.h \in 1..e
        BY <1>5, <2>8, <2>12, <2>13, <2>15
      <4>6. \A i \in inbox' : i.h <= e /\ i.m \in c[i.h].mail
        BY <2>15, <4>3, <4>5
      <4> QED BY <3>1, <4>4, <4>6 DEF HeldOf
    <3> QED BY <3>1, <3>2 DEF ExactInv
  <2>20. DeepInv'
    <3>1. \A h \in 1..(e - Rewind) : h \in 1..e
      BY <1>5
    <3>3. (e - Rewind) = cursor'.h - Rewind
      BY <2>19
    <3>4. ReadTo(e - Rewind)'
      BY <1>3, <2>14, <3>1 DEF ReadTo
    <3>5. TrueTo(e - Rewind)'
      BY <1>3, <2>15 DEF TrueTo
    <3>6. ReadTo(cursor.h - Rewind)' /\ TrueTo(cursor.h - Rewind)'
      BY <3>3, <3>4, <3>5 DEF ReadTo, TrueTo
    <3> QED BY <3>6 DEF DeepInv
  <2>21. SyncKept(j)'
    BY <1>11, <2>1, <2>16 DEF SyncKept
  <2> QED BY <2>18, <2>19, <2>20, <2>21
<1>23. SyncInv(j)'
  BY <1>11, <1>21, <1>22 DEF SyncInv
<1> QED BY <1>10, <1>17, <1>22, <1>23 DEF StoreInv

\* What nobody is syncing, and what only tells of news, promises nothing.
LEMMA RestStep ==
  ASSUME NEW r \in Readers, InboxInv, [InboxNext]_ivars, Finish(r) \/ News(r) \/ Stop(r)
  PROVE  (\E j : j = task'[r] /\ SyncInv(j)') /\ UNCHANGED <<cursor, inbox, stood, course>>
<1>1. task'[r] \in {Away, [Away EXCEPT !.pc = "news"]}
  BY DEF Finish, News, Stop, Step, InboxInv, InboxTypes
<1>2. PICK j : j = task'[r]
  OBVIOUS
<1>3. j.pc \in {"idle", "news"}
  BY <1>1, <1>2 DEF Away
<1>4. UNCHANGED <<cursor, inbox, stood, course>>
  BY DEF Finish, News, Stop, store, ghost, way
<1> QED BY <1>2, <1>3, <1>4 DEF SyncInv, SyncKept

\* What happens around a sync leaves what it relies on.
LEMMA AroundStep ==
  ASSUME Settled, InboxInv, [InboxNext]_ivars,
         (\E m \in Mails : Seal(m)) \/ Mine \/ Return \/ Reorg \/ GraceEnds \/ EnsureWeek \/ Accept \/ Block \/ Unblock
           \/ Read \/ UNCHANGED ivars
  PROVE  UNCHANGED <<task, cursor, inbox, stood, course>> /\ \A t \in {task[r] : r \in Readers} : SyncInv(t)'
<1> USE DEF node, store, ghost, way
<1>1. UNCHANGED <<task, cursor, inbox, stood, course>>
  BY DEF Seal, Mine, Return, Reorg, GraceEnds, EnsureWeek, Accept, Block, Unblock, Read, Stands, Update, ivars
<1>2. InboxTypes' /\ Forward /\ ChainMoves
  BY <1>1, StepKeeps
<1>3. CASE Reorg
  <2>1. \A t \in {task[r] : r \in Readers} : t.pc = "idle"
    BY <1>3 DEF Reorg
  <2> QED BY <1>1, <2>1 DEF SyncInv, SyncKept
<1>4. CASE ~Reorg
  <2>1. Grows
    <3>1. CASE Mine \/ Return
      <4>1. ASSUME NEW n \in 1..(Height - 1), Cut(n) PROVE FALSE
        <5>0. Height \in Nat
          BY DEF InboxInv, InboxTypes, Height
        <5>1. InboxTypes /\ Height' = n /\ n < Height
          BY <4>1, CutIs DEF InboxInv
        <5>2. CASE Mine
          <6>1. Len(chain') = Len(chain) + 1
            BY <5>2 DEF Mine, InboxInv, InboxTypes
          <6> QED BY <5>0, <5>1, <6>1 DEF Height
        <5>3. CASE Return
          <6>1. PICK c \in forks : Height < Len(c) /\ chain' = SubSeq(c, 1, Height + 1)
            BY <5>3 DEF Return
          <6>2. c \in Seq(MinedBlock)
            BY DEF InboxInv, InboxTypes
          <6>3. Len(chain') = Height + 1
            BY <5>0, <6>1, <6>2
          <6> QED BY <5>0, <5>1, <6>3 DEF Height
        <5> QED BY <3>1, <5>2, <5>3
      <4> QED BY <1>2, <4>1 DEF ChainMoves, Grows
    <3>2. CASE ~Mine /\ ~Return
      BY <1>4, <3>2 DEF Seal, GraceEnds, EnsureWeek, Accept, Block, Unblock, Read, Stands, Update, ivars, Grows
    <3> QED BY <3>1, <3>2
  <2>2. ASSUME NEW t \in {task[r] : r \in Readers} PROVE SyncInv(t)'
    <3>1. PICK u : u = t
      OBVIOUS
    <3>2. Syncing(u) /\ SyncInv(u)
      BY <3>1 DEF InboxInv, InboxTypes
    <3>3. SyncInv(u)'
      BY <1>1, <1>2, <2>1, <3>2, SyncStays DEF InboxInv
    <3> QED BY <3>1, <3>3
  <2> QED BY <1>1, <2>2
<1> QED BY <1>3, <1>4

\* One reader's step, when there is no other.
LEMMA ReaderStep ==
  ASSUME \A q, s \in Readers : q = s, NEW r \in Readers, InboxInv, [InboxNext]_ivars,
         Sync(r) \/ Stop(r) \/ \E news \in BOOLEAN : SyncBegin(r, news)
  PROVE  InboxInv'
<1>1. InboxTypes' /\ ChainInv' /\ ForksInv' /\ KeysInv'
  BY InboxTypeStep, ChainStep DEF InboxInv
<1>2. (\E j : j = task'[r] /\ SyncInv(j)') /\ StoreInv'
  <2>1. CASE \E news \in BOOLEAN : SyncBegin(r, news)
    <3>1. PICK news \in BOOLEAN : SyncBegin(r, news)
      BY <2>1
    <3>2. UNCHANGED <<cursor, inbox, stood, course>>
      BY <3>1 DEF SyncBegin, ghost, way
    <3> QED BY <3>1, <3>2, BeginStep, StepKeeps
  <2>2. CASE Anchor(r) \/ Compare(r) \/ Logs(r) \/ Match(r) \/ Hash(r)
    <3>1. UNCHANGED <<cursor, inbox, stood>> /\ course' \in {course, "lost"}
      BY <2>2 DEF Anchor, Compare, Logs, Match, Hash, store, ghost, way
    <3> QED BY <2>2, <3>1, AnchorStep, CompareStep, LogsStep, MatchStep, HashStep, StepKeeps
  <2>3. CASE Drop(r)
    BY <2>3, DropStep
  <2>4. CASE PageWrite(r)
    BY <2>4, WriteStep
  <2>5. CASE Finish(r) \/ News(r) \/ Stop(r)
    BY <2>5, RestStep, StepKeeps
  <2> QED BY <2>1, <2>2, <2>3, <2>4, <2>5 DEF Sync
<1>3. \A t \in {task'[q] : q \in Readers} : SyncInv(t)'
  BY <1>2
<1> QED BY <1>1, <1>2, <1>3 DEF InboxInv

\* messaging_sync: "a reorg behind it rewinds and drops what was read from the blocks that are
\* gone". For every number of messages, keys, blocks, pages, reorganisations, returns of blocks,
\* headers that are not served, crashes and answers of the user: while the block where reading stopped
\* is on the chain, the store holds the messages of the chain up to there, at their blocks, and none
\* besides; but for a rewind that was cut short, until it is made good, and from where reading
\* went on from one, or from a block that was not served and is gone. For one reader, when the chain
\* settles while it reads.
THEOREM InboxFollowsTheChain ==
  Settled /\ (\A q, s \in Readers : q = s) => (InboxSpec => []InboxInStep)
<1> SUFFICES ASSUME Settled, \A q, s \in Readers : q = s PROVE InboxSpec => []InboxInStep
  OBVIOUS
<1>1. InboxInit => InboxInv
  <2> SUFFICES ASSUME InboxInit PROVE InboxInv
    OBVIOUS
  <2> DEFINE first == [v |-> 1, mail |-> {}, key |-> 1]
  <2>1. chain = <<first>> /\ Height = 1 /\ chain[1] = first /\ chain \in Seq(MinedBlock)
    <3>1. first \in MinedBlock
      BY InboxBounds DEF MinedBlock, Key
    <3> QED BY <3>1 DEF InboxInit, Height
  <2>2. Syncing(Away)
    BY DEF Away, Syncing, SyncPlaces
  <2>3. InboxTypes
    <3>1. sealed \in [Mails -> {0} \cup Key] /\ weekly \in [Key -> KeyStates] /\ cursor \in [h : Nat, v : Nat]
      BY DEF InboxInit, KeyStates
    <3>2. task = [r \in Readers |-> Away]
      BY DEF InboxInit
    <3> QED BY <2>1, <2>2, <3>1, <3>2 DEF InboxInit, InboxTypes
  <2>4. \A h \in 1..Height : h = 1 /\ chain[h].v = 1 /\ chain[h].mail = {} /\ chain[h].key = 1
    BY <2>1
  <2>11. Chains = {chain} /\ Len(chain) = 1 /\ born = 1 /\ weekly[1] # "none"
    <3>1. 1 \in Key
      BY InboxBounds DEF Key
    <3> QED BY <2>1, <3>1 DEF InboxInit, Chains, Height
  <2>5. ChainInv /\ KeysInv
    <3>1. ChainInv
      BY <2>1, <2>4, InboxBounds DEF ChainInv, InboxInit
    <3>2. Announced \subseteq {1} /\ 1 \in Key
      BY <2>4, InboxBounds DEF Announced, Key
    <3>3. weekly[1] # "none" /\ \A m \in Mails : sealed[m] = 0
      BY <3>2 DEF InboxInit
    <3> QED BY <3>1, <3>2, <3>3 DEF KeysInv
  <2>12. ForksInv
    <3>1. Mined(chain)
      BY <2>4, <2>11 DEF Mined, Height
    <3> QED BY <2>11, <3>1 DEF ForksInv
  <2>6. inbox = {} /\ cursor.h = 1 /\ stood = 1 /\ born = 1 /\ peak = 1
    BY DEF InboxInit
  <2>7. \A n \in Int : n <= 1 => ReadTo(n) /\ TrueTo(n) /\ UpTo(n)
    BY <2>1, <2>4, <2>6 DEF ReadTo, TrueTo, UpTo
  <2>8. 1 - Rewind \in Int /\ 1 - Rewind <= 1
    BY InboxBounds
  <2>9. StoreInv
    <3>1. OnceInv /\ CursorInv /\ DeepInv
      BY <2>6, <2>7, <2>8 DEF OnceInv, CursorInv, DeepInv
    <3>2. HeldOf(chain)
      BY <2>1, <2>4, <2>6 DEF HeldOf
    <3>3. ExactInv
      BY <2>11, <3>2 DEF ExactInv
    <3> QED BY <3>1, <3>3 DEF StoreInv
  <2>10. \A t \in {task[r] : r \in Readers} : t.pc = "idle"
    BY DEF InboxInit, Away
  <2> QED BY <2>3, <2>5, <2>9, <2>10, <2>12 DEF InboxInv, SyncInv, SyncKept
<1>2. InboxInv /\ [InboxNext]_ivars => InboxInv'
  <2> SUFFICES ASSUME InboxInv, [InboxNext]_ivars PROVE InboxInv'
    OBVIOUS
  <2>1. CASE \E r \in Readers : Sync(r) \/ Stop(r) \/ \E news \in BOOLEAN : SyncBegin(r, news)
    BY <2>1, ReaderStep
  <2>2. CASE (\E m \in Mails : Seal(m)) \/ Mine \/ Return \/ Reorg \/ GraceEnds \/ EnsureWeek \/ Accept \/ Block
             \/ Unblock \/ Read \/ UNCHANGED ivars
    <3>1. UNCHANGED <<task, cursor, inbox, stood, course>> /\ \A t \in {task[r] : r \in Readers} : SyncInv(t)'
      BY <2>2, AroundStep
    <3>2. {task'[r] : r \in Readers} = {task[r] : r \in Readers}
      BY <3>1
    <3> QED BY <3>1, <3>2, StepKeeps DEF InboxInv
  <2> QED BY <2>1, <2>2 DEF InboxNext
<1>3. InboxInv => InboxInStep
  <2> SUFFICES ASSUME InboxInv, InStep, course = "kept" PROVE HoldsTheChain
    BY DEF InboxInStep
  <2>1. cursor.h <= Len(chain) /\ chain[cursor.h].v = stood /\ chain \in Chains
    BY DEF InStep, HashAt, Height, Chains, InboxInv, StoreInv, CursorInv
  <2>2. HeldOf(chain)
    BY <2>1 DEF InboxInv, StoreInv, ExactInv
  <2> QED BY <2>2 DEF HoldsTheChain, HeldOf, Accounted, Held
<1> QED BY <1>1, <1>2, <1>3, PTL DEF InboxSpec
=============================================================================
