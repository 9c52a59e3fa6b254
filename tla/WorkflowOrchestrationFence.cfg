SPECIFICATION Spec
CONSTANTS
  Runs = {r1, r2}
  Supervisor = r1
  Unsteady = {r2}
  Children = {c1, c2}
  c1 = c1
  c2 = c2
  Workflow <- OnePhase
  MaxParallelism = 2
  None = None
CHECK_DEADLOCK FALSE
PROPERTY SpawnFenced
