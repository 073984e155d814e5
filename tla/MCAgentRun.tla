----------------------------- MODULE MCAgentRun -----------------------------
(* Small instances of AgentRun for TLC.                                    *)
EXTENDS AgentRun, TLC

\* Workers are interchangeable; runs and tasks are ordered by their ids.
MCSymmetry == Permutations(Workers)
=============================================================================
