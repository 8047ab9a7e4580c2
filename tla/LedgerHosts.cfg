\* Two processes compete for an action: lost leases, faults, a crash; and what is settled in the end.
SPECIFICATION FairSpec
CONSTANTS
  a1 = a1
  a2 = a2
  r1 = r1
  r2 = r2
  r3 = r3
  h1 = h1
  h2 = h2
  w1 = w1
  w2 = w2
  None = None
  Actions = {a1}
  ReadOnly = {a1}
  Runs = {r1, r2}
  Hosts = {h1, h2}
  Workspaces = {w1}
  HostOf <- TwoHostsHostOf
  WorkspaceOf <- TwoHostsWorkspaceOf
  Home <- FirstHome
  ConfiguredId <- TwoHostsId
  LeaseLen = 1
  RetryDelay = 1
  MaxAttempts = 3
  RouteLen = 1
  Past = 0
  MaxOverruns = 1
  MaxCrashes = 1
  MaxFaults = 1
INVARIANTS LedgerInvariant RetryWithinCap
PROPERTIES CommitByClaimant ImplementsDurableJob EventuallySettled
