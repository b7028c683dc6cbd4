--------------------------- MODULE MCEventStream ---------------------------
(***************************************************************************)
(* EventStream on small instances: all streams are of one session.         *)
(***************************************************************************)
EXTENDS EventStream

MCSessionOf == [stream \in Streams |-> CHOOSE s \in Sessions : TRUE]
=============================================================================
