---------------------------- MODULE MCWorkspace ----------------------------
(***************************************************************************)
(* Any few requests, of any kinds.                                         *)
(***************************************************************************)
EXTENDS Workspace, TLC

MCSymmetry == Permutations(Requests)
=============================================================================
