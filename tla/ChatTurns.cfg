SPECIFICATION FairSpec
CONSTANTS
  t1 = t1
  t2 = t2
  Tools = {t1, t2}
  Workloads <- LongOrTwo
INVARIANTS TypeOK EndsOnce PageAgreesWithHistory SettledSteps InterruptsSurface FormsAreAnswerable NoFalseSuccess AgentReleased
PROPERTY EndReachesPage
CHECK_DEADLOCK FALSE
