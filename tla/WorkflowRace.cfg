\* Two runtimes and a feature work on one instance.
SPECIFICATION Spec
CONSTANTS
  None = None
  Instances = {i1}
  Effects = {e1}
  InstanceOf <- EffectHome
  Handled = {e1}
  External = {x1}
  TargetOf <- Targets
  Runtimes = {r1, r2}
  Features = {f1}
  Delays = {0, 1}
  Batch = 2
  LeaseLen = 1
  RetryDelay = 1
  MaxAttempts = 2
  Horizon = 1
  MaxAge = 1
  MaxOverruns = 1
  MaxFaults = 0
  MaxCrashes = 0
  MaxRejects = 0
  MaxClaims = 7
INVARIANTS WorkflowInvariant OneVerdictUndisturbed
PROPERTIES CommitByClaimant
