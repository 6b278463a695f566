------------------------------- MODULE MCPlan -------------------------------
\* Instances of TradePlan: one engine, one command line, two stages.
EXTENDS TradePlan
=============================================================================
