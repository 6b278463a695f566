------------------------------- MODULE MCQi -------------------------------
(* Instances of QiPipeline for TLC. *)
EXTENDS QiPipeline, TLC

\* Change of six qits in two coins: more than the first pool holds.
MCQuotes == {<<5, 1>>}
Symmetric == Permutations(Sessions) \cup Permutations(Ops)
=============================================================================
