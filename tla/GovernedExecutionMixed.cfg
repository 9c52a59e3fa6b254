\* Two calls over every contract with approvals, under fairness of the runtime.
SPECIFICATION FairSpec
CONSTANTS
  c1 = c1  c2 = c2  c3 = c3
  lookup = lookup  publish = publish  patch = patch
  s1 = s1  s2 = s2  t1 = t1  a1 = a1
  None = None  NoTrace = NoTrace
  Calls = {c1, c2}
  Ops = {lookup, publish, patch}
  Contract <- MCContract
  Scopes = {s1, s2}
  Resource <- MCResource
  Traces = {t1}
  Approvals = {a1}
  Requests <- MixedRequests
  ApprovalRows <- MixedRows
CHECK_DEADLOCK FALSE
INVARIANTS DispatchAfterDurableStart ApprovalBinding
PROPERTIES EveryCallSettles
