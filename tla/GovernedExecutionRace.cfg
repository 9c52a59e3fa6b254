\* Three calls race for one operation: executions, retries and cancellations of it.
SPECIFICATION Spec
CONSTANTS
  c1 = c1  c2 = c2  c3 = c3
  lookup = lookup  publish = publish  patch = patch
  s1 = s1  s2 = s2  t1 = t1  a1 = a1
  None = None  NoTrace = NoTrace
  Calls = {c1, c2, c3}
  Ops = {lookup, publish, patch}
  Contract <- MCContract
  Scopes = {s1, s2}
  Resource <- MCResource
  Traces = {t1}
  Approvals = {}
  Requests <- RaceRequests
  ApprovalRows <- MixedRows
CHECK_DEADLOCK FALSE
SYMMETRY CallSymmetry
INVARIANTS TypeOK AtMostOneDispatch ReplyAgreesWithLedger DefiniteOutcomeIsTrue
PROPERTIES HistoryImmutable ImplementsOperation
