CONSTANTS
  GPULocals <- TwoLocals
  NoRecord = NoRecord
SPECIFICATION Spec
CHECK_DEADLOCK FALSE
INVARIANTS
  LocalsAnnounced
  EndsClean
  LocalsListedFirst
