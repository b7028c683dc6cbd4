---------------------------- MODULE MCSessionLog ----------------------------
(***************************************************************************)
(* Three messages; see the configurations for the bounds.                  *)
(***************************************************************************)
EXTENDS SessionLog

\* Constraint: two truncations, or one and the rest.
Few == counts.truncates = 2 => counts.edits + counts.fails + counts.crashes = 0
=============================================================================
