\* Two tasks, two executors, two faults, an expiry of everything that can expire.
SPECIFICATION FairSpec
CONSTANTS
  None = None
  Tasks = {1, 2}
  Executors = {1, 2}
  Outcomes = {"succeeded"}
  MaxFaults = 2
  MaxLapses = 1
  MaxExpiries = 1
  MaxOutages = 1
INVARIANTS DeviceInvariant ExecutionIsAcknowledged OneOpenRun ResultsAgree
PROPERTIES CompletedRunsStay AcknowledgedLeaseIsFinal DispatchedTasksSettle
