------------------------------ MODULE MCCustody ------------------------------
(* Instances of Custody for TLC. *)
EXTENDS Custody

MCBudget == [unlock |-> 2, wrong |-> 1, timeout |-> 1, lock |-> 1, autolock |-> 1,
             switch |-> 1, refuse |-> 1, review |-> 1]

\* Bounds of the instance: the terminal leaves before many things have happened, for afterwards
\* nothing new does. The threads, which are alike, are taken in order.
Happened(kind) == MCBudget[kind] - left[kind]
LeavesSoon == ~host.here =>
  Happened("unlock") + Happened("wrong") + Happened("timeout") + Happened("lock")
    + Happened("autolock") + Happened("switch") + Happened("refuse") + Happened("review") <= 4
ThreadsInOrder == Happened("unlock") = 1 => check[2] = Idle
=============================================================================
