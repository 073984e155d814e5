---------------------------- MODULE MCAgentQueue ----------------------------
(* Small instances of AgentQueue for TLC.                                  *)
EXTENDS AgentQueueRefinement, TLC

\* Workers and producers are interchangeable.
MCSymmetry == Permutations(Workers) \cup Permutations(Producers)
=============================================================================
