\* An activation that was interrupted
SPECIFICATION AssistantSpec
SYMMETRY Symmetry
CONSTANTS
  Parts = {"activation"}
  None = None
  Keep = Keep
  c1 = c1
  c2 = c2
  t1 = t1
  p1 = p1
  p2 = p2
  x1 = x1
  x2 = x2
  r1 = r1
  n1 = n1
  a1 = a1
  k1 = k1
  k2 = k2
  s1 = s1
  w1 = w1
  w2 = w2
  h1 = h1
  e1 = e1
  e2 = e2
  Flows = {"outreach", "review", "intake-message", "intake-command", "intake-card", "discovery", "session", "research", "research-untracked", "overdue", "cleanup", "brief", "policy"}
  Together <- Singly
  Contacts = {c1, c2}
  Tasks = {t1}
  Prints = {p1, p2}
  RetryBase = 1
  RetryMax = 2
  NotifyAfter = 1
  ReviewPoll = 1
  DayOf <- Day
  WorkHours <- Morning
  DiscoveryInterval = 2
  DiscoveryOverlap = 1
  DiscoveryRetry = 1
  SessionPoll = 1
  SessionRetryBase = 1
  SessionRetryMax = 2
  DeleteAfter = 2
  MinArchived = 1
  SessionNotifyAfter = 1
  SessionCooldown = 2
  ResearchRetryBase = 1
  ResearchRetryMax = 2
  ResearchNotifyAfter = 2
  OverdueInterval = 1
  OverdueRetry = 1
  OverdueNotifyAfter = 2
  ReminderInterval = 2
  RemindersKept = 9
  CleanupPoll = 1
  CleanupNotifyAfter = 2
  LocalDay <- Day
  CleanupDue <- Morning
  ReminderWindow <- Always
  SameDue <- NeverSame
  EvaluationInterval = 2
  FlowHorizon <- HorizonOf
  MaxAnswers <- AnswersOf
  MaxFlowFailures <- FailuresOf
  MaxFaults = 1
  MaxTouches = 1
  FrozenAt = 1
INVARIANT InterruptedReconciles
CHECK_DEADLOCK FALSE
