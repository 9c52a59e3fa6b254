SPECIFICATION FairSpec
CONSTANTS
  Runs = {r1, r2}
  Supervisor = r1
  Unsteady = {r2}
  Children = {c1, c2}
  c1 = c1
  c2 = c2
  Workflow <- Pipeline
  MaxParallelism = 2
  None = None
CHECK_DEADLOCK FALSE
INVARIANTS CompletedIsComplete RootStaysSettled
PROPERTIES OwnChildrenSettled LateForkIsLast RunsEnd
