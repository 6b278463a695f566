------------------------------ MODULE MCWorker ------------------------------
(* Instances of EngineWorker for TLC. *)
EXTENDS EngineWorker, TLC

CONSTANTS w1, w2, main, test
\* One wallet on a network far ahead and on one behind it, another wallet on the first.
MCPlaces == {<<w1, main>>, <<w1, test>>, <<w2, main>>}
MCFirst == <<w1, main>>
MCHeights == (main :> 2) @@ (test :> 1)
Nothing == [switch |-> 0, edit |-> 0, scan |-> 0, fail |-> 0,
            block |-> 0, mined |-> 0, commit |-> 0, due |-> 0, poll |-> 0, stamp |-> 1]
\* Notices beside a switch, notices beside the user's own sends, and Qi passes.
MCBudgets == {
  [Nothing EXCEPT !.stamp = 4, !.mined = 1, !.switch = 1],
  [Nothing EXCEPT !.stamp = 5, !.mined = 2, !.commit = 1],
  [Nothing EXCEPT !.scan = 1, !.switch = 1, !.due = 1, !.fail = 1]}
\* Blocks beside a conversation that is polled without end, and beside a switch of networks.
MCPolled == {[Nothing EXCEPT !.block = 1, !.poll = 1, !.fail = 1, !.edit = 1],
             [Nothing EXCEPT !.block = 1, !.switch = 1]}
=============================================================================
