SPECIFICATION Spec
CONSTANTS
  t1 = t1
  t2 = t2
  Tools = {t1}
  Workloads <- OneShort
INVARIANT InterruptsSurviveReload
CHECK_DEADLOCK FALSE
