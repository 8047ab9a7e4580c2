\* One process whose pass was rejected: two runs of the same worker overlap.
SPECIFICATION Spec
CONSTANTS
  a1 = a1
  a2 = a2
  r1 = r1
  r2 = r2
  r3 = r3
  h1 = h1
  h2 = h2
  w1 = w1
  w2 = w2
  None = None
  Actions = {a1, a2}
  ReadOnly = {a1}
  Runs = {r1, r2, r3}
  Hosts = {h1}
  Workspaces = {w1, w2}
  HostOf <- OneHostHostOf
  WorkspaceOf <- OneHostWorkspaceOf
  Home <- FirstHome
  ConfiguredId <- OneHostId
  LeaseLen = 1
  RetryDelay = 1
  MaxAttempts = 2
  RouteLen = 2
  Past = 0
  MaxOverruns = 1
  MaxCrashes = 0
  MaxFaults = 1
INVARIANTS GateRespected KeysAreFresh OneExecutorPerHost
PROPERTIES AuditTrail SettledForGood
