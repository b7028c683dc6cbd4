------------------------------- MODULE MCTurn -------------------------------
(***************************************************************************)
(* The main agent and two sub-agents; see the configurations for the       *)
(* bounds.                                                                 *)
(***************************************************************************)
EXTENDS Turn, TLC

CONSTANTS a1, a2, a3

MCToolsOf == (a1 :> {"question"}) @@ (a2 :> {"outside"}) @@ (a3 :> {"edit"})
=============================================================================
