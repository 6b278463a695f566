----------------------------- MODULE MCPipeline -----------------------------
(* Instances of AccountPipeline for TLC. *)
EXTENDS AccountPipelineProofs, TLC

\* Each spend costs 3 with its fee; the account can pay for one, not two.
MCValue == [r \in Reviews |-> 2]
Symmetric == Permutations(Sessions) \cup Permutations(Ids)
=============================================================================
