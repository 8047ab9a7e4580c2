\* One runtime, an effect without a handler beside one with, faults, refusals and a crash.
SPECIFICATION FairSpec
CONSTANTS
  None = None
  Instances = {i1}
  Effects = {e1, e2}
  InstanceOf <- EffectHome
  Handled = {e1}
  External = {}
  TargetOf <- Targets
  Runtimes = {r1}
  Features = {}
  Delays = {0, 1}
  Batch = 1
  LeaseLen = 1
  RetryDelay = 1
  MaxAttempts = 2
  Horizon = 1
  MaxAge = 1
  MaxOverruns = 0
  MaxFaults = 1
  MaxCrashes = 1
  MaxRejects = 1
  MaxClaims = 5
INVARIANTS DeliveryReported AttemptsCapped
PROPERTIES EffectsSettled TimersServed
