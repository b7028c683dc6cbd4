-------------------------- MODULE MCJobCollectors --------------------------
(***************************************************************************)
(* One job of each kind that matters: more jobs than slots, and outputs    *)
(* that are longer than the ring.                                          *)
(***************************************************************************)
EXTENDS JobCollectors, TLC

CONSTANTS j1, j2, j3

MCJobs == {j1, j2, j3}
MCKinds == (j1 :> "search") @@ (j2 :> "bash") @@ (j3 :> "test")
MCTotal == (j1 :> 3) @@ (j2 :> 3) @@ (j3 :> 1)
MCSearches == {j1}

\* For TestRunHasResult alone.
MCTest == {j3}
MCTestKind == j3 :> "test"
MCTestTotal == j3 :> 3

=============================================================================
