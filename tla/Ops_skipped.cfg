SPECIFICATION Spec
CONSTANTS
  r1 = r1
  r2 = r2
  Request = {r1, r2}
  InstructionsOf <- MCInstructions
  ExecutorEnabled = TRUE
  None = None
  MaxFaults = 1
  MaxCrashes = 1
INVARIANT SkippedMeansUntouched
CHECK_DEADLOCK FALSE
