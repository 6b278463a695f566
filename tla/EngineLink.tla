----------------------------- MODULE EngineLink -----------------------------
(***************************************************************************)
(* The terminal's connection to an engine in the daemon: what the screens  *)
(* ask waits in an outbox; a client dials, attaches to the wallet on       *)
(* screen, replays the data requests it kept, and relays the outbox until  *)
(* the engine goes away. Then commands are refused and data requests kept. *)
(*                                                                         *)
(* A socket takes a message before its engine does: one written to an      *)
(* engine that has just died may be swallowed. Replacing a daemon of       *)
(* another build, and a refused handshake, only dial again and are part of *)
(* waiting in "dial".                                                      *)
(*                                                                         *)
(* quai-engine/src: client.rs.                                             *)
(***************************************************************************)
EXTENDS Naturals, Sequences

CONSTANTS
  Wallets,      \* wallets the screens can switch to
  FirstWallet,  \* the one on screen at the start
  DataHeld,     \* DATA_HELD: requests kept while disconnected, the newest
  MaxAsked,     \* bound: messages the screens send
  MaxEngines    \* bound: engines that ever serve this terminal

NoEngine == 0

ASSUME LinkBounds == FirstWallet \in Wallets /\ DataHeld \in Nat \ {0} /\ MaxAsked \in Nat /\ MaxEngines \in Nat

VARIABLES
  shown,       \* the wallet the screens last switched to, and their configurations so far
  asked,       \* messages sent by the screens so far
  outbox,      \* what the screens sent and the client has not taken
  link,        \* where the client is: dial, replay, relay, drain, pause, closed
  at,          \* Attached: the wallet a new engine is attached to
  configured,  \* the latest configuration the client saw
  held,        \* data requests kept for the next engine
  replaying,   \* what a new engine hears first, still to be written
  engine,      \* the engine: which one, whether it lives, its wallet and configuration
  heard        \* every command and read an engine took, and by which one in which configuration

lvars == <<shown, asked, outbox, link, at, configured, held, replaying, engine, heard>>

\* The message kinds that are told apart: SwitchWallet (and SwitchNetwork, the same), a command
\* that is answered, the password, a data request, and the data service's configuration.
Commands == {"switch", "command", "unlock"}
Attached == link \in {"replay", "relay"}

LinkInit ==
  /\ shown = [wallet |-> FirstWallet, conf |-> 0]
  /\ asked = 0 /\ outbox = <<>> /\ link = "dial" /\ at = FirstWallet
  /\ configured = 0 /\ held = <<>> /\ replaying = <<>>
  /\ engine = [gen |-> NoEngine, up |-> FALSE, wallet |-> FirstWallet, conf |-> 0]
  /\ heard = {}

Message(kind, wallet, conf) ==
  [kind |-> kind, wallet |-> wallet, conf |-> conf, gen |-> IF Attached THEN engine.gen ELSE NoEngine]

\* A screen sends something: what it carries is what the screen shows by then.
Asks(kind, wallet, conf) ==
  /\ asked < MaxAsked /\ link # "closed"
  /\ asked' = asked + 1
  /\ outbox' = Append(outbox, Message(kind, wallet, conf))
  /\ shown' = [wallet |-> wallet, conf |-> conf]
  /\ UNCHANGED <<link, at, configured, held, replaying, engine, heard>>

Sends(kind) == Asks(kind, shown.wallet, shown.conf)
SwitchWallet(w) == w # shown.wallet /\ Asks("switch", w, shown.conf)
Configure == Asks("configure", shown.wallet, shown.conf + 1)

----------------------------------------------------------------------------
(* What becomes of a message. *)

\* Faulty: the wallet on screen is only noted once an engine took the switch.
TracksNothing(m) == UNCHANGED at

\* track: the wallet on screen, whether or not an engine hears of it.
Track(m) == at' = IF m.kind = "switch" THEN m.wallet ELSE at

\* DataReplay::saw.
Saw(m) == configured' = IF m.kind = "configure" THEN m.conf ELSE configured

Newest(s) == IF Len(s) > DataHeld THEN Tail(s) ELSE s

\* DataReplay::hold.
Hold(m) == held' = IF m.kind = "read" THEN Newest(Append(held, m)) ELSE held

\* Said or kept: a command is refused, a password is told to try again, a request is kept.
TurnAway(m) == Track(m) /\ Saw(m) /\ Hold(m)

\* The engine takes a message in turn, if it still lives.
EngineTakes(m) ==
  IF ~engine.up THEN UNCHANGED <<engine, heard>>
  ELSE /\ engine' = CASE m.kind = "switch"    -> [engine EXCEPT !.wallet = m.wallet]
                      [] m.kind = "configure" -> [engine EXCEPT !.conf = m.conf]
                      [] OTHER                -> engine
       /\ heard' = IF m.kind = "configure" THEN heard
                   ELSE heard \cup {[msg |-> m, by |-> engine.gen, conf |-> engine.conf]}

----------------------------------------------------------------------------
(* The client. *)

\* Faulty: what was kept goes first.
ReplaysHeldFirst == held \o (IF configured = 0 THEN <<>> ELSE <<Message("configure", at, configured)>>)

\* DataReplay::replay: the configuration, then what was kept.
Replay == (IF configured = 0 THEN <<>> ELSE <<Message("configure", at, configured)>>) \o held

\* dial: connected, shaken hands, attached.
Dial ==
  /\ link = "dial" /\ engine.gen < MaxEngines
  /\ engine' = [gen |-> engine.gen + 1, up |-> TRUE, wallet |-> at, conf |-> 0]
  /\ replaying' = Replay /\ held' = <<>>
  /\ link' = "replay"
  /\ UNCHANGED <<shown, asked, outbox, at, configured, heard>>

DialFails ==
  /\ link = "dial"
  /\ link' = "drain"
  /\ UNCHANGED <<shown, asked, outbox, at, configured, held, replaying, engine, heard>>

ReplayOne ==
  /\ link = "replay" /\ replaying # <<>>
  /\ EngineTakes(Head(replaying))
  /\ replaying' = Tail(replaying)
  /\ UNCHANGED <<shown, asked, outbox, link, at, configured, held>>

ReplayDone ==
  /\ link = "replay" /\ replaying = <<>>
  /\ link' = "relay"
  /\ UNCHANGED <<shown, asked, outbox, at, configured, held, replaying, engine, heard>>

\* A write fails: what had been taken out for the replay goes with it.
ReplayFails ==
  /\ link = "replay" /\ replaying # <<>> /\ ~engine.up
  /\ replaying' = <<>> /\ link' = "drain"
  /\ UNCHANGED <<shown, asked, outbox, at, configured, held, engine, heard>>

Relay ==
  /\ link = "relay" /\ outbox # <<>>
  /\ outbox' = Tail(outbox)
  /\ Track(Head(outbox)) /\ Saw(Head(outbox)) /\ EngineTakes(Head(outbox))
  /\ UNCHANGED <<shown, asked, link, held, replaying>>

RelayFails ==
  /\ link = "relay" /\ outbox # <<>> /\ ~engine.up
  /\ outbox' = Tail(outbox)
  /\ TurnAway(Head(outbox))
  /\ link' = "drain"
  /\ UNCHANGED <<shown, asked, replaying, engine, heard>>

\* The reader sees the connection end: the screens are told, and lock.
EngineLost ==
  /\ link = "relay" /\ ~engine.up
  /\ link' = "drain"
  /\ UNCHANGED <<shown, asked, outbox, at, configured, held, replaying, engine, heard>>

\* Whatever was asked while there was no engine is answered, not kept for the next one.
Drain ==
  /\ link = "drain" /\ outbox # <<>>
  /\ outbox' = Tail(outbox)
  /\ TurnAway(Head(outbox))
  /\ UNCHANGED <<shown, asked, link, replaying, engine, heard>>

\* Faulty: the client pauses, and dials, over what was asked of the engine that went.
PausesAtOnce ==
  /\ link = "drain"
  /\ link' = "pause"
  /\ UNCHANGED <<shown, asked, outbox, at, configured, held, replaying, engine, heard>>

Drained ==
  /\ link = "drain" /\ outbox = <<>>
  /\ link' = "pause"
  /\ UNCHANGED <<shown, asked, outbox, at, configured, held, replaying, engine, heard>>

\* The pause ends with its time, or with one message, turned away too.
Pause ==
  /\ link = "pause" /\ link' = "dial"
  /\ \/ UNCHANGED <<outbox, at, configured, held>>
     \/ outbox # <<>> /\ outbox' = Tail(outbox) /\ TurnAway(Head(outbox))
  /\ UNCHANGED <<shown, asked, replaying, engine, heard>>

\* The terminal closes: nothing more is relayed.
Close ==
  /\ link \in {"relay", "drain", "pause"}
  /\ link' = "closed"
  /\ UNCHANGED <<shown, asked, outbox, at, configured, held, replaying, engine, heard>>

EngineDies ==
  /\ engine.up
  /\ engine' = [engine EXCEPT !.up = FALSE]
  /\ UNCHANGED <<shown, asked, outbox, link, at, configured, held, replaying, heard>>

LinkNext ==
  \/ \E kind \in {"command", "unlock", "read"} : Sends(kind)
  \/ \E w \in Wallets : SwitchWallet(w)
  \/ Configure
  \/ Dial \/ DialFails \/ ReplayOne \/ ReplayDone \/ ReplayFails
  \/ Relay \/ RelayFails \/ EngineLost \/ Drain \/ Drained \/ Pause \/ Close \/ EngineDies

LinkSpec == LinkInit /\ [][LinkNext]_lvars

----------------------------------------------------------------------------
(* Properties. *)

Msg == [kind : Commands \cup {"read", "configure"}, wallet : Wallets, conf : 0..MaxAsked, gen : 0..MaxEngines]

LinkTypeOK ==
  /\ shown \in [wallet : Wallets, conf : 0..MaxAsked] /\ asked \in 0..MaxAsked
  /\ outbox \in Seq(Msg) /\ held \in Seq(Msg) /\ replaying \in Seq(Msg) /\ Len(held) <= DataHeld
  /\ link \in {"dial", "replay", "relay", "drain", "pause", "closed"} /\ at \in Wallets
  /\ configured \in 0..MaxAsked
  /\ engine \in [gen : 0..MaxEngines, up : BOOLEAN, wallet : Wallets, conf : 0..MaxAsked]
  /\ heard \in SUBSET [msg : Msg, by : 1..MaxEngines, conf : 0..MaxAsked]

\* Where the switches are that are still on their way.
Switches == {i \in 1..Len(outbox) : outbox[i].kind = "switch"}

\* A living engine ends up on the wallet on screen: its own, once it has heard the switches still
\* on their way, through every loss and reattachment (track, Attach).
EngineFollowsScreen ==
  Attached /\ engine.up =>
    /\ Switches = {} => engine.wallet = shown.wallet
    /\ \A i \in Switches : (\A j \in Switches : j <= i) => outbox[i].wallet = shown.wallet

\* "A daemon's new data worker hears the configuration again first" (client.rs:146): no read is
\* taken under a configuration older than the one it was asked under.
ReadsAreConfigured == \A h \in heard : h.msg.kind = "read" => h.conf >= h.msg.conf

\* Nothing asked of one engine is heard by a later one, data requests apart: "a review belongs to
\* the engine that built it" (client.rs:254). What was asked while dialling is let through here.
NothingOutlivesItsEngine ==
  \A h \in heard : h.msg.kind \in Commands => h.msg.gen \in {NoEngine, h.by}

\* "Whatever was asked while there was no engine is answered, not kept for the next one"
\* (client.rs:254), what was asked while dialling included.
NotKeptForTheNext == \A h \in heard : h.msg.kind \in Commands => h.msg.gen = h.by
=============================================================================
