\* Immediate and delayed work, lost hints, restarts, a run that throws, dispose.
SPECIFICATION FairSpec
CONSTANTS
  None = None
  Items = {i1, i2}
  Delays = {0, 1, 3}
  RetryDelay = 2
  LeaseLen = 2
  MaxDisposals = 1
  Recovery = 3
  MaxPasses = 2
  MaxAttempts = 2
  RunLen = 1
  Late = 8
  MaxFaults = 1
  MaxCrashes = 1
CHECK_DEADLOCK FALSE
INVARIANTS WakeInvariant OverdueBound
PROPERTIES NoRunAfterDispose EventuallyDone
