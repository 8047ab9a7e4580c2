\* A message and a card form, or one message twice; faults, a failed spawn and a crash.
SPECIFICATION FairSpec
CONSTANTS
  d1 = d1
  d2 = d2
  w1 = w1
  w2 = w2
  m1 = m1
  c1 = c1
  None = None
  Deliveries = {d1, d2}
  Messages = {m1}
  Cards = {c1}
  Drains = {w1, w2}
  Requested = {"codex"}
  Fallbacks = {"claude", "dsh-native"}
  MaxFaults = 2
  MaxSpawns = 1
  MaxCrashes = 1
CHECK_DEADLOCK FALSE
INVARIANTS BridgeInvariant AcceptedIsDurable NoExecutionAfterResult
PROPERTIES LeavesWithOutcome RequestsSettle
