SPECIFICATION Spec
CONSTANTS
  Requests = {r1, r2, r3}
  Nobody = Nobody
SYMMETRY MCSymmetry
INVARIANT LeasesExclude
INVARIANT CheckpointsKept
INVARIANT RestoreIsAlone
CHECK_DEADLOCK FALSE
