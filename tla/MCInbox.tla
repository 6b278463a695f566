------------------------------- MODULE MCInbox -------------------------------
(* An instance of Inbox of its own for TLC: one reader, one message, a user. *)
EXTENDS Inbox

MCInboxBudget == [reorg |-> 0, fault |-> 0, grace |-> 0, user |-> 1]
=============================================================================
