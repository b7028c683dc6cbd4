----------------------------- MODULE RunAgents -----------------------------
(***************************************************************************)
(* The agents of a run: the main loop of agent/agent-runner.ts and its     *)
(* sub-agents.  The modules of what they wait for extend this one.         *)
(***************************************************************************)
EXTENDS FiniteSets

CONSTANT Agents

ASSUME AgentsAssumption == IsFiniteSet(Agents)
=============================================================================
