\* Four runs of the script in any order, with reboots and aborted runs.
SPECIFICATION Spec
CONSTANTS
  Cores = {k1, k2}
  MaxRuns = 4
INVARIANT Recoverable
PROPERTIES UndoRestores CancelledChangesNothing
CHECK_DEADLOCK FALSE
