CONSTANTS
  Checkpoint = {c1, c2, c3}
  Genuine = {c1, c2}
  NoCheckpoint = NoCheckpoint
SPECIFICATION Spec
INVARIANT AppliedMeansStored
