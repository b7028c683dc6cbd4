---------------------------- MODULE MCCoreRouter ----------------------------
(***************************************************************************)
(* CoreRouter, CoreClient and ExecPool on small instances.                 *)
(***************************************************************************)
EXTENDS CoreRouter

\* Every call, and the client itself, may send requests.
MCCallers == Calls \cup {Client}

\* All commands belong to one session.
OneSession == [c \in Commands |-> AnySession]
=============================================================================
