---------------------------- MODULE MCRunControl ----------------------------
(***************************************************************************)
(* RunControl on small instances.  The clients are interchangeable, which  *)
(* the safety runs use.                                                    *)
(***************************************************************************)
EXTENDS RunControl, TLC

Symmetry == Permutations(Clients)
=============================================================================
