SPECIFICATION Spec
CONSTANTS
  ExecId = {e1, e2}
  Manual = {m1, m2}
  Scheduler = scheduler
  SchedulerEnabled = TRUE
  None = none
  Requests <- MCRequests
  MaxLong = 100
  MaxTime = 3
  MaxRestarts = 0
SYMMETRY Symmetry
PROPERTY SucceededIsFinal
CHECK_DEADLOCK FALSE
