SPECIFICATION Spec
CONSTANTS
  r1 = r1
  r2 = r2
  r3 = r3
  r4 = r4
  None = None
  Missing = Missing
  Torn = Torn
  Requests = {r1, r2, r3, r4}
  Workloads <- SerialAndRacing
SYMMETRY Symmetry
INVARIANTS TypeOK HistoryKeepsAnswers RememberedWhenAlone ApprovedRunsOnce WaitingIsPending
PROPERTY TornCheckpointKept
CHECK_DEADLOCK FALSE
