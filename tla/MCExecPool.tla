----------------------------- MODULE MCExecPool -----------------------------
(***************************************************************************)
(* ExecPool alone, with any client and more than one worker thread.        *)
(***************************************************************************)
EXTENDS ExecPool

\* Every command has a session of its own.
OwnSession == [c \in Commands |-> CHOOSE s \in Sessions : TRUE]

\* Bounds: the frames on their way.
MCFrames == Len(inbox) <= 1 /\ Len(outbox) <= 1

MCSymmetry == Permutations(Commands) \cup Permutations(Workers)
=============================================================================
