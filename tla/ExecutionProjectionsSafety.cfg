\* Two workers, two generations, three events in batches of two.
SPECIFICATION Spec
CONSTANTS
  o1 = o1  other = other  w1 = w1  w2 = w2
  None = None
  Executions = {o1}
  Foreign = {other}
  EventTypes = {"ExecutionStarted", "ExecutionSucceeded"}
  Workers = {w1, w2}
  BatchSize = 2
  MaxRounds = 2
  MaxEvents = 3
  MaxGeneration = 2
CHECK_DEADLOCK FALSE
SYMMETRY WorkerSymmetry
INVARIANTS TypeOK ProjectsAPrefix AtMostOneActive
PROPERTIES ViewNeverRegresses WorkDiminishes
