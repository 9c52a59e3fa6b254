SPECIFICATION FairSpec
CONSTANTS
  Runtimes = {r1, r2}
  Unequipped = {r2}
  Calls = {c1, c2}
  c1 = c1
  c2 = c2
  CallLists <- TwoCalls
  MaxTurns = 2
  MaxToolCalls = 2
  MaxSteps = 2
  MaxEvents = 1
  MaxCrashes = 1
  None = None
CHECK_DEADLOCK FALSE
INVARIANTS IntentBeforeDispatch
PROPERTIES UnansweredToolFailsSession CancellationIsFinal DriveEndsUnlessAbandoned CancellationSettles
