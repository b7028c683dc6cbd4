------------------------- MODULE MCPersistentShell -------------------------
(***************************************************************************)
(* Three calls, and a terminal for each of them and each fault.            *)
(***************************************************************************)
EXTENDS PersistentShell
=============================================================================
