---------------------------- MODULE MCAgentTurn ----------------------------
(* Instances of AgentTurn for TLC.                                          *)
EXTENDS AgentTurn, TLC

\* Messages and clients are interchangeable; used by the runs without liveness.
Interchangeable == Permutations(Messages) \cup Permutations(Clients)
=============================================================================
