------------------------------ MODULE MCAgentLoop ------------------------------
(***************************************************************************)
(* A small budget for AgentLoop: two requests of the model, three calls,   *)
(* two of which have effects, and once the time of the run.                *)
(***************************************************************************)
EXTENDS AgentLoop

Limits == [k \in Kinds |-> CASE k = "model" -> 2 [] k = "tools" -> 3
                             [] k = "effects" -> 2 [] k = "duration" -> 1]
=============================================================================
