-------------------------------- MODULE Inbox --------------------------------
(***************************************************************************)
(* Private messages of one account with one peer: the chain they are on,   *)
(* the store they are read into, the weekly keys they are sealed to, and    *)
(* the processes (the daemon, a terminal's message lane, a command line)   *)
(* that read the chain into the one store.                                 *)
(*                                                                         *)
(* A sync notes its own announcements, deletes keys whose grace is over,    *)
(* checks the block where reading stopped, rewinds if it is gone, and reads *)
(* a page of blocks at a time; a page is written in one transaction. Every  *)
(* question to the node is an await; users change the peer meanwhile. The   *)
(* node may not serve a header, and a block that was thrown out may return. *)
(*                                                                         *)
(* wallet-core/src/messaging: service.rs (messaging_sync, messaging_news,   *)
(* messaging_read, update_peer), store.rs, keys.rs. The chain is external.  *)
(***************************************************************************)
EXTENDS Integers, Sequences, FiniteSetsExt

CONSTANTS
  Readers,       \* processes that read the chain
  Mails,         \* messages the peer may send
  MaxKey,        \* bound: weekly keys ever made
  MaxBlock,      \* bound: blocks ever mined, on any fork
  Page,          \* LOG_PAGE
  Rewind,        \* REORG_REWIND: a block that has had this many after it stays
  Settled,       \* the chain reorganises only while nobody syncs
  InboxBudget    \* bound: how often each kind of thing happens, a record

InboxKinds == {"reorg", "fault", "grace", "user"}
ASSUME InboxBounds ==
  /\ MaxKey \in Nat \ {0} /\ MaxBlock \in Nat \ {0} /\ Page \in Nat \ {0} /\ Rewind \in Nat \ {0}
  /\ Settled \in BOOLEAN /\ InboxBudget \in [InboxKinds -> Nat]

VARIABLES
  chain, born,   \* blocks: hash and time, mail, announced key; how many were ever mined
  forks,         \* the chains that were given up
  peak,          \* how high the chain has been
  sealed,        \* the key each message is sealed to, 0 before it is written
  weekly,        \* key file: what has become of each weekly key
  own,           \* store: keys seen announced on the chain, and up to where that was read
  cursor,        \* store: where reading stopped, height and hash
  inbox,         \* store: the messages
  peer,          \* store: the peer's record
  task,          \* each reader: where it is and what it has read
  answer,        \* what the user last said of the peer
  said,          \* how often each message has been announced
  unwanted,      \* messages dropped because the peer was blocked
  stood,         \* the block that was at the cursor when it was written, its hash served or not
  course,        \* what became of reading: "kept"; "torn" while messages up to the cursor are deleted
                 \* and not read again; "lost" once reading went on from a cursor that is torn or gone
  ileft          \* what is left of InboxBudget

node  == <<chain, born, forks, peak, sealed>>
store == <<weekly, own, cursor, inbox, peer>>
way == <<stood, course>>
ghost == <<answer, said, unwanted, way>>
ivars == <<node, store, task, ghost, ileft>>

Key == 1..MaxKey
ISpend(kind) == ileft[kind] > 0 /\ ileft' = [ileft EXCEPT ![kind] = @ - 1]
Height == Len(chain)
HashAt(h) == IF h \in 1..Height THEN chain[h].v ELSE 0
OnChain == UNION {chain[h].mail : h \in 1..Height}
Announced == {chain[h].key : h \in 1..Height} \ {0}
Stranger == [state |-> "request", read |-> 0, told |-> 0]
Away == [pc |-> "idle", head |-> 0, at |-> [h |-> 0, v |-> 0], live |-> {}, stale |-> {},
         logs |-> {}, got |-> {}, peer |-> Stranger, hash |-> 0, news |-> FALSE]

\* ensure_key_file, and the first key published: nothing can have been sealed before.
InboxInit ==
  /\ chain = <<[v |-> 1, mail |-> {}, key |-> 1]>> /\ born = 1 /\ forks = {} /\ peak = 1
  /\ sealed = [m \in Mails |-> 0]
  /\ weekly = [k \in Key |-> IF k = 1 THEN "live" ELSE "none"]
  /\ own = [keys |-> {}, to |-> 0] /\ cursor = [h |-> 1, v |-> 1]
  /\ inbox = {} /\ peer = Stranger /\ task = [r \in Readers |-> Away]
  /\ answer = "request" /\ said = [m \in Mails |-> 0] /\ unwanted = {}
  /\ stood = 1 /\ course = "kept"
  /\ ileft = InboxBudget

-----------------------------------------------------------------------------
(* The chain, the peer and the passing of time. *)

\* The peer seals a message to the newest key on the chain.
Seal(m) ==
  /\ sealed[m] = 0 /\ Announced # {}
  /\ sealed' = [sealed EXCEPT ![m] = Max(Announced)]
  /\ UNCHANGED <<chain, born, forks, peak, store, task, ghost, ileft>>

Mine ==
  /\ born < MaxBlock /\ born' = born + 1 /\ peak' = Max({peak, Height + 1})
  /\ \E mail \in SUBSET {m \in Mails \ OnChain : sealed[m] # 0},
        k \in {0} \cup {k \in Key \ Announced : weekly[k] # "none"} :
       chain' = Append(chain, [v |-> born + 1, mail |-> mail, key |-> k])
  /\ UNCHANGED <<forks, sealed, store, task, ghost, ileft>>

\* A chain given up is taken up again, a block at a time.
Return ==
  /\ \E c \in forks : /\ Height < Len(c) /\ chain = SubSeq(c, 1, Height)
                       /\ chain' = SubSeq(c, 1, Height + 1)
  /\ peak' = Max({peak, Height + 1})
  /\ UNCHANGED <<born, forks, sealed, store, task, ghost, ileft>>

\* The last blocks go, never deeper than a rewind below the highest; what was on them waits to be
\* mined again, or returns with them.
Reorg ==
  /\ ISpend("reorg") /\ (Settled => \A r \in Readers : task[r].pc = "idle")
  /\ \E h \in 1..(Height - 1) : h + Rewind >= peak /\ chain' = SubSeq(chain, 1, h)
  /\ forks' = forks \cup {chain}
  /\ UNCHANGED <<born, peak, sealed, store, task, ghost>>

\* GRACE_SECS: two weeks after it was seen to be replaced, a key's grace is over. Messages sealed
\* to it have landed long before.
GraceEnds ==
  /\ ISpend("grace") /\ \A r \in Readers : task[r].pc = "idle"
  /\ \A m \in Mails : sealed[m] # 0 /\ weekly[sealed[m]] = "superseded" => m \in OnChain
  /\ weekly' = [k \in Key |-> IF weekly[k] = "superseded" THEN "expired" ELSE weekly[k]]
  /\ UNCHANGED <<node, own, cursor, inbox, peer, task, ghost>>

\* review_messaging_keys: a new week's key is made; Mine announces it.
EnsureWeek ==
  /\ \E k \in Key : /\ weekly[k] = "none" /\ \A j \in 1..(k - 1) : weekly[j] # "none"
                    /\ weekly' = [weekly EXCEPT ![k] = "live"]
  /\ UNCHANGED <<node, own, cursor, inbox, peer, task, ghost, ileft>>

-----------------------------------------------------------------------------
(* The user, from any process: each change is one transaction on the record as it is. *)

Update(record, said_of) ==
  /\ ISpend("user")
  /\ peer' = record /\ answer' = said_of
  /\ UNCHANGED <<node, weekly, own, cursor, inbox, task, said, unwanted, way>>
Stands(state) == Update([peer EXCEPT !.state = state], state)

Accept  == peer.state # "accepted" /\ Stands("accepted")
Block   == peer.state # "blocked" /\ Stands("blocked")
Unblock == peer.state = "blocked" /\ Stands("request")
\* messaging_read: the newest message looked at.
Read ==
  /\ inbox # {}
  /\ LET newest == Max({i.at : i \in inbox})
     IN newest > peer.read /\ Update([peer EXCEPT !.read = newest], answer)

-----------------------------------------------------------------------------
(* A sync. *)

Step(r, from, job) == task[r].pc = from /\ task' = [task EXCEPT ![r] = job]

\* KeyFile::announced, KeyFile::prune: what is newer on the chain replaces, what expired goes.
Pruned(seen) ==
  LET held == {k \in Key : weekly[k] \in {"live", "superseded", "expired"}}
      newest == IF held \cap seen = {} THEN 0 ELSE Max(held \cap seen)
  IN [k \in Key |-> CASE weekly[k] = "expired" -> "deleted"
                      [] weekly[k] = "live" /\ k < newest -> "superseded"
                      [] OTHER -> weekly[k]]

\* messaging_sync up to its keys: the head, this account's own announcements since the last read.
\* (The record is saved, and the file changed under its lock, before anything else is read.)
SyncBegin(r, news) ==
  LET seen == own.keys \cup ({chain[h].key : h \in (own.to + 1)..Height} \ {0})
  IN /\ own' = [keys |-> seen, to |-> Max({own.to, Height})]
     /\ weekly' = Pruned(seen)
     /\ Step(r, "idle", [Away EXCEPT !.pc = "anchor", !.head = Height, !.news = news,
                                     !.live = {k \in Key : weekly'[k] \in {"live", "superseded"}}])
     /\ UNCHANGED <<node, cursor, inbox, peer, ghost, ileft>>

\* scanned: where reading stopped.
Anchor(r) ==
  /\ Step(r, "anchor", [task[r] EXCEPT !.pc = "compare", !.at = cursor])
  /\ UNCHANGED <<node, store, ghost, ileft>>

\* The block there is still on the chain, or its hash was never known: go on. A node that does not
\* serve it, or serves another: back, and list what was read since.
Compare(r) ==
  LET at == task[r].at  back == Max({0, at.h - Rewind})
  IN \/ /\ at.v \in {0, HashAt(at.h)} /\ Step(r, "compare", [task[r] EXCEPT !.pc = "page"])
        /\ course' = IF course = "torn" \/ stood # HashAt(at.h) THEN "lost" ELSE course
        /\ UNCHANGED <<node, store, answer, said, unwanted, stood, ileft>>
     \/ /\ at.v # 0
        /\ (at.v # HashAt(at.h) /\ UNCHANGED ileft) \/ ISpend("fault")
        /\ Step(r, "compare", [task[r] EXCEPT !.pc = "drop", !.at.h = back,
                                              !.stale = {i.m : i \in {j \in inbox : j.h > back}}])
        /\ UNCHANGED <<node, store, ghost>>

\* delete_message, one statement each.
Drop(r) ==
  \/ \E m \in task[r].stale :
       /\ Step(r, "drop", [task[r] EXCEPT !.stale = @ \ {m}])
       /\ inbox' = {i \in inbox : i.m # m}
       /\ course' = IF course = "lost" THEN "lost" ELSE "torn"
       /\ UNCHANGED <<node, weekly, own, cursor, peer, answer, said, unwanted, stood, ileft>>
  \/ /\ task[r].stale = {} /\ Step(r, "drop", [task[r] EXCEPT !.pc = "page"])
     /\ UNCHANGED <<node, store, ghost, ileft>>

PageEnd(r) == Min({task[r].head, task[r].at.h + Page})

\* board_logs of the next page.
Logs(r) ==
  /\ task[r].at.h < task[r].head
  /\ Step(r, "page", [task[r] EXCEPT !.pc = "match", !.logs =
       UNION {{[m |-> m, h |-> h, at |-> chain[h].v] : m \in chain[h].mail} :
              h \in (task[r].at.h + 1)..Min({PageEnd(r), Height})}])
  /\ UNCHANGED <<node, store, ghost, ileft>>

\* has_message, open, peer: what is new and opens, and the peer's record as it is now.
\* block_time: 0 when the header is not served.
Match(r) ==
  LET new == {l \in task[r].logs : sealed[l.m] \in task[r].live /\ \A i \in inbox : i.m # l.m}
      keeps(found) == Step(r, "match", [task[r] EXCEPT !.pc = "hash", !.got = found, !.peer = peer])
  IN /\ IF peer.state = "blocked"
        THEN keeps({}) /\ unwanted' = unwanted \cup {l.m : l \in new} /\ UNCHANGED ileft
        ELSE /\ UNCHANGED unwanted
             /\ \/ keeps(new) /\ UNCHANGED ileft
                \/ new # {} /\ ISpend("fault") /\ keeps({[l EXCEPT !.at = 0] : l \in new})
     /\ UNCHANGED <<node, store, answer, said, way>>

\* block_hash of the page's end; one that is not served is kept as an empty one.
Hash(r) ==
  /\ \/ Step(r, "hash", [task[r] EXCEPT !.pc = "write", !.hash = HashAt(PageEnd(r))]) /\ UNCHANGED ileft
     \/ Step(r, "hash", [task[r] EXCEPT !.pc = "write", !.hash = 0]) /\ ISpend("fault")
  /\ UNCHANGED <<node, store, ghost>>

\* What is kept for the properties: the block reading now stops at; the first page written after a
\* rewind makes it good.
Comes(r, h) ==
  /\ stood' = HashAt(h)
  /\ course' = IF course = "torn" /\ task[r].at.h < cursor.h THEN "kept" ELSE course

\* Faulty variant: reading is said to have come to the head.
PageWriteHead(r) ==
  LET got == task[r].got
  IN /\ inbox' = {i \in inbox : \A g \in got : g.m # i.m} \cup got
     /\ peer' = IF got = {} THEN peer ELSE task[r].peer
     /\ cursor' = [h |-> task[r].head, v |-> HashAt(task[r].head)] /\ Comes(r, task[r].head)
     /\ Step(r, "write", [task[r] EXCEPT !.pc = "page", !.at = [h |-> PageEnd(r), v |-> task[r].hash]])
     /\ UNCHANGED <<node, weekly, own, answer, said, unwanted, ileft>>
\* One transaction: the messages, the peer as it was read, and how far reading came.
PageWrite(r) ==
  LET got == task[r].got
  IN /\ inbox' = {i \in inbox : \A g \in got : g.m # i.m} \cup got
     /\ peer' = IF got = {} THEN peer ELSE task[r].peer
     /\ cursor' = [h |-> PageEnd(r), v |-> task[r].hash] /\ Comes(r, PageEnd(r))
     /\ Step(r, "write", [task[r] EXCEPT !.pc = "page", !.at = cursor'])
     /\ UNCHANGED <<node, weekly, own, answer, said, unwanted, ileft>>

Finish(r) ==
  /\ task[r].at.h >= task[r].head
  /\ Step(r, "page", IF task[r].news THEN [Away EXCEPT !.pc = "news"] ELSE Away)
  /\ UNCHANGED <<node, store, ghost, ileft>>

\* messaging_news, one transaction: what is newer than anything read or told is told.
News(r) ==
  LET fresh == {i \in inbox : i.at > Max({peer.read, peer.told})}
  IN /\ Step(r, "news", Away)
     /\ IF peer.state = "accepted" /\ fresh # {}
        THEN /\ peer' = [peer EXCEPT !.told = Max({i.at : i \in fresh})]
             /\ said' = [m \in Mails |-> Min({2, said[m] + IF \E i \in fresh : i.m = m THEN 1 ELSE 0})]
        ELSE UNCHANGED <<peer, said>>
     /\ UNCHANGED <<node, weekly, own, cursor, inbox, answer, unwanted, way, ileft>>

\* The node does not answer, the wallet locks, or the process dies.
Stop(r) ==
  /\ task[r].pc # "idle" /\ ISpend("fault") /\ task' = [task EXCEPT ![r] = Away]
  /\ UNCHANGED <<node, store, ghost>>

Sync(r) == Anchor(r) \/ Compare(r) \/ Drop(r) \/ Logs(r) \/ Match(r) \/ Hash(r) \/ PageWrite(r)
           \/ Finish(r) \/ News(r)
InboxNext ==
  \/ (\E m \in Mails : Seal(m)) \/ Mine \/ Return \/ Reorg \/ GraceEnds \/ EnsureWeek
  \/ Accept \/ Block \/ Unblock \/ Read
  \/ \E r \in Readers : Sync(r) \/ Stop(r) \/ \E news \in BOOLEAN : SyncBegin(r, news)

InboxSpec == InboxInit /\ [][InboxNext]_ivars

-----------------------------------------------------------------------------
(* Properties. *)

Held(k) == k \in Key /\ weekly[k] \in {"live", "superseded", "expired"}
\* The block reading stopped at is on the chain.
InStep == stood # 0 /\ stood = HashAt(cursor.h)

\* The store holds the messages of the chain up to the cursor, at their blocks, and none besides.
HoldsTheChain ==
  /\ \A h \in 1..cursor.h : \A m \in chain[h].mail :
       \/ \E i \in inbox : i.m = m /\ i.h = h
       \/ m \in unwanted \/ ~Held(sealed[m])
  /\ \A i \in inbox : i.h <= cursor.h /\ i.m \in chain[i.h].mail

\* messaging_sync: "a reorg behind it rewinds and drops what was read from the blocks that are
\* gone". While the block reading stopped at is on the chain, the store is the chain's up to there,
\* whatever page, rewind, deletion or transaction a sync stopped at, whether or not the node
\* served a header, and though blocks come back; but for a rewind that was cut short, until it is
\* made good, and for good once reading went on from one, or from a block that was not served and is
\* gone.
InboxInStep == InStep /\ course = "kept" => HoldsTheChain

\* The same, a rewind cut short or a header that was not served included.
AlwaysInStep == InStep /\ (\A r \in Readers : task[r].pc = "idle") => HoldsTheChain

\* keys.rs: a superseded key is kept "long enough for messages already sent to the old key to land
\* and be read". A message that landed within the grace is read.
MailOpens == InStep =>
  \A h \in 1..cursor.h : \A m \in chain[h].mail \ unwanted : \E i \in inbox : i.m = m

\* messaging_block: "its messages are dropped unread from now on". A peer stays what the user
\* last made of them.
AnswerIsKept == peer.state = answer

\* messaging_news: "Each is said once, whichever process reads first".
SaidOnce == \A m \in Mails : said[m] <= 1

\* messaging_news tells "messages nobody has read or been told about": the mark passes none
\* that was neither told nor looked at.
PassedIsTold == \A i \in inbox : i.at <= peer.told => said[i.m] > 0 \/ i.at \in 1..peer.read

\* key_need: "Whether this week's key is published, reading this account's own announcements".
\* Up to where they were read, the record knows the announcements of the chain, and no others.
KeysAsAnnounced ==
  /\ \A h \in 1..Min({own.to, Height}) : chain[h].key \in own.keys \cup {0}
  /\ own.to <= Height => own.keys \subseteq Announced
=============================================================================
