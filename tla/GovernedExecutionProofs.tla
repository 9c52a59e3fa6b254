----------------------- MODULE GovernedExecutionProofs -----------------------
(***************************************************************************)
(* Proofs about GovernedExecution for every set of calls, operations,      *)
(* contracts, scopes and approvals that satisfies ConstantsAssumption.     *)
(***************************************************************************)
EXTENDS GovernedExecution, TLAPS

-----------------------------------------------------------------------------
(* What a request and a fact are made of.                                  *)

LEMMA RequestFields ==
  ASSUME NEW c \in Calls, request[c] \in Requests
  PROVE  /\ OpOf(c) \in Ops
         /\ request[c].kind \in Kinds
         /\ request[c].scope \in Scopes
         /\ request[c].trace \in Traces \cup {NoTrace}
         /\ request[c] # None
  BY ConstantsAssumption DEF OpOf

LEMMA FactType ==
  ASSUME NEW c \in Calls, request[c] \in Requests,
         approval[c] \in Approvals \cup {None}, NEW type \in EventTypes
  PROVE  Fact(c, type) \in Facts
  BY RequestFields DEF Fact, Facts, TraceOf

\* Conclude appends one terminal fact at version 2, or nothing.
LEMMA ConcludeType ==
  ASSUME TypeOK, NEW c \in Calls, pc[c] # "idle", NEW type \in TerminalEvents,
         NEW r \in Replies, Conclude(c, type, r)
  PROVE  /\ stream' \in [Ops -> Seq(Facts)]
         /\ pc' = [pc EXCEPT ![c] = "done"]
         /\ reply' \in [Calls -> Replies \cup {None}]
<1>1. request[c] \in Requests /\ approval[c] \in Approvals \cup {None}
  BY DEF TypeOK
<1>2. Fact(c, type) \in Facts
  BY <1>1, FactType DEF EventTypes
<1>3. OpOf(c) \in Ops
  BY <1>1, RequestFields
<1>4. CASE /\ AtVersion(OpOf(c), 2)
           /\ stream' = [stream EXCEPT ![OpOf(c)] = Append(@, Fact(c, type))]
           /\ Answer(c, r)
  <2>1. Append(stream[OpOf(c)], Fact(c, type)) \in Seq(Facts)
    BY <1>2, <1>3 DEF TypeOK
  <2> QED
    BY <1>4, <2>1 DEF TypeOK, Answer
<1>5. CASE Answer(c, "in_doubt") /\ UNCHANGED stream
  BY <1>5 DEF TypeOK, Answer, Replies
<1> QED
  BY <1>4, <1>5 DEF Conclude

LEMMA OutcomeTypes ==
  /\ \A k : UnprovenOutcome(k) \in TerminalEvents
  /\ \A type \in TerminalEvents : ReplyOf(type) \in Replies
  BY DEF UnprovenOutcome, TerminalEvents, ReplyOf, Replies

-----------------------------------------------------------------------------
(* Type correctness.                                                       *)

LEMMA InitType == Init => TypeOK
  BY DEF Init, TypeOK, Running

LEMMA StoreStepType ==
  ASSUME TypeOK, StoreStep
  PROVE  TypeOK'
<1>1. ASSUME NEW a \in Approvals, NEW row \in ApprovalRows, IssueApproval(a, row)
      PROVE  TypeOK'
  BY <1>1 DEF TypeOK, IssueApproval, callVars
<1>2. ASSUME NEW a \in Approvals, ActivateApproval(a) \/ ExpireApproval(a)
      PROVE  TypeOK'
  BY <1>2 DEF TypeOK, ActivateApproval, ExpireApproval, callVars
<1> QED
  BY <1>1, <1>2 DEF StoreStep

LEMMA CallerStepType ==
  ASSUME TypeOK, NEW c \in Calls, CallerStep(c) \/ DeadlinePasses(c) \/ Crash(c)
  PROVE  TypeOK'
<1>1. ASSUME NEW r \in Requests, Submit(c, r)
      PROVE  TypeOK'
  <2>1. request' = [request EXCEPT ![c] = r] /\ r # None
    BY <1>1, ConstantsAssumption DEF Submit
  <2>2. /\ pc' \in [Calls -> Running \cup {"idle", "done", "crashed"}]
        /\ reply' \in [Calls -> Replies \cup {None}]
        /\ \A d \in Calls : d # c => pc'[d] = pc[d]
    <3>1. CASE Answer(c, "refused")
      BY <3>1 DEF TypeOK, Answer, Replies
    <3>2. CASE Goto(c, "idle", "govern") /\ UNCHANGED reply
      BY <3>2 DEF TypeOK, Goto, Running
    <3> QED
      BY <1>1, <3>1, <3>2 DEF Submit
  <2>3. UNCHANGED <<stores, approval, aborted, lapsed, provider>>
    BY <1>1 DEF Submit
  <2> QED
    BY <2>1, <2>2, <2>3 DEF TypeOK, stores
<1>2. CASE AbortSignal(c)
  BY <1>2 DEF TypeOK, AbortSignal, stores
<1>3. CASE DeadlinePasses(c)
  BY <1>3 DEF TypeOK, DeadlinePasses, stores
<1>4. CASE Crash(c)
  BY <1>4 DEF TypeOK, Crash, stores, Running
<1> QED
  BY <1>1, <1>2, <1>3, <1>4 DEF CallerStep

LEMMA RuntimeStepType ==
  ASSUME TypeOK, NEW c \in Calls, RuntimeStep(c)
  PROVE  TypeOK'
<1> USE DEF TypeOK
<1>0. pc[c] # "idle" => request[c] \in Requests /\ OpOf(c) \in Ops
  BY RequestFields
<1>1. CASE Deny(c)
  BY <1>1 DEF Deny, Answer, stores, Replies
<1>2. CASE ReadExisting(c)
  <2>1. ReplayReply(c) \in Replies
    BY DEF ReplayReply, Replies
  <2>2. CASE Answer(c, ReplayReply(c))
    BY <1>2, <2>1, <2>2 DEF ReadExisting, Answer, stores
  <2>3. CASE /\ \E to \in {"record", "resolve", "authorize"} : Goto(c, "govern", to)
             /\ UNCHANGED reply
    BY <1>2, <2>3 DEF ReadExisting, Goto, stores, Running
  <2> QED
    BY <1>2, <2>2, <2>3 DEF ReadExisting
<1>3. CASE ResolveApproval(c)
  BY <1>3 DEF ResolveApproval, Answer, Goto, stores, Running, Replies
<1>4. CASE AppendStart(c)
  <2>1. request[c] \in Requests /\ OpOf(c) \in Ops
    BY <1>0, <1>4 DEF AppendStart, Goto
  <2>2. StartFacts(c) \in Seq(Facts)
    BY <2>1, FactType DEF StartFacts, EventTypes
  <2>3. stream' \in [Ops -> Seq(Facts)]
    BY <1>4, <2>1, <2>2 DEF AppendStart
  <2>4. used' \in [Approvals -> Ops \cup {None}]
    BY <1>4, <2>1 DEF AppendStart
  <2>5. /\ pc[c] = "authorize" /\ pc' = [pc EXCEPT ![c] = "started"]
        /\ UNCHANGED <<approvals, window, request, approval, aborted, lapsed, provider, reply>>
    BY <1>4 DEF AppendStart, Goto
  <2> QED
    BY <2>1, <2>3, <2>4, <2>5 DEF Running
<1>5. CASE StartFails(c) \/ CancellationFails(c)
  BY <1>5 DEF StartFails, CancellationFails, Answer, stores, Replies
<1>6. CASE CancelBeforeDispatch(c)
  <2>1. PICK r \in Replies : Conclude(c, "ExecutionCancelled", r)
    BY <1>6 DEF CancelBeforeDispatch, Replies
  <2>2. /\ pc[c] = "started"
        /\ UNCHANGED <<approvals, window, used, request, approval, aborted, lapsed, provider>>
    BY <1>6 DEF CancelBeforeDispatch
  <2>3. "ExecutionCancelled" \in TerminalEvents
    BY DEF TerminalEvents
  <2> QED
    BY <2>1, <2>2, <2>3, ConcludeType
<1>7. CASE Dispatch(c)
  BY <1>7 DEF Dispatch, Goto, stores, Running
<1>8. CASE DeadlineFires(c)
  BY <1>8, ConcludeType DEF DeadlineFires, TerminalEvents, Replies
<1>9. CASE RecordCancellation(c)
  <2>1. request[c] \in Requests /\ OpOf(c) \in Ops
    BY <1>0, <1>9 DEF RecordCancellation
  <2>2. StartFacts(c) \in Seq(Facts) /\ Fact(c, "ExecutionCancelled") \in Facts
    BY <2>1, FactType DEF StartFacts, EventTypes, TerminalEvents
  <2> QED
    BY <1>9, <2>1, <2>2 DEF RecordCancellation, Answer, Replies
<1> QED
  BY <1>1, <1>2, <1>3, <1>4, <1>5, <1>6, <1>7, <1>8, <1>9 DEF RuntimeStep

LEMMA ProviderStepType ==
  ASSUME TypeOK, NEW c \in Calls, ProviderStep(c)
  PROVE  TypeOK'
<1>1. CASE ProviderReturns(c) \/ ProviderThrows(c)
  <2>1. PICK type \in TerminalEvents, r \in Replies : Conclude(c, type, r)
    BY <1>1, OutcomeTypes DEF ProviderReturns, ProviderThrows, TerminalEvents, Replies
  <2>2. provider' \in [Calls -> {"idle", "running", "performed", "stopped"}]
    BY <1>1 DEF TypeOK, ProviderReturns, ProviderThrows
  <2>3. pc[c] = "dispatched" /\ UNCHANGED <<approvals, window, used, request, approval, aborted, lapsed>>
    BY <1>1 DEF ProviderReturns, ProviderThrows
  <2> QED
    BY <2>1, <2>2, <2>3, ConcludeType DEF TypeOK
<1>2. CASE ProviderPerforms(c)
  BY <1>2 DEF TypeOK, ProviderPerforms, stores, callVars
<1> QED
  BY <1>1, <1>2 DEF ProviderStep

\* The type invariant, for every instance: every step leaves well-formed
\* streams, approvals and call records.
THEOREM TypeCorrect == Spec => []TypeOK
<1>1. TypeOK /\ [Next]_vars => TypeOK'
  <2>1. ASSUME TypeOK, UNCHANGED vars PROVE TypeOK'
    BY <2>1 DEF TypeOK, vars
  <2> QED
    BY <2>1, StoreStepType, CallerStepType, RuntimeStepType, ProviderStepType DEF Next
<1> QED
  BY InitType, <1>1, PTL DEF Spec

-----------------------------------------------------------------------------
(* What a step may do to a call and to the ledger.                         *)

\* A call records a terminal fact after its own start facts.
ConcludeStep(c, type) ==
  /\ pc[c] \in {"started", "dispatched"}
  /\ Len(stream[OpOf(c)]) = 2
  /\ stream' = [stream EXCEPT ![OpOf(c)] = Append(@, Fact(c, type))]
  /\ pc' = [pc EXCEPT ![c] = "done"]
  /\ UNCHANGED <<approvals, used, request, approval>>

\* The ledger and the uses of approvals change in three ways only.
LedgerStep ==
  \/ UNCHANGED <<stream, used>>
  \/ \E c \in Calls : AppendStart(c)
  \/ \E c \in Calls : RecordCancellation(c)
  \/ \E c \in Calls, type \in TerminalEvents : ConcludeStep(c, type)

LEMMA ConcludeLedger ==
  ASSUME NEW c \in Calls, pc[c] \in {"started", "dispatched"}, NEW type \in TerminalEvents,
         NEW r, Conclude(c, type, r), UNCHANGED <<approvals, used, request, approval>>
  PROVE  UNCHANGED <<stream, used>> \/ ConcludeStep(c, type)
  BY DEF Conclude, ConcludeStep, AtVersion, Answer

LEMMA LedgerSteps ==
  ASSUME [Next]_vars
  PROVE  LedgerStep
<1>1. CASE UNCHANGED vars
  BY <1>1 DEF vars, LedgerStep
<1>2. CASE StoreStep
  BY <1>2 DEF StoreStep, IssueApproval, ActivateApproval, ExpireApproval, LedgerStep
<1>3. ASSUME NEW c \in Calls, CallerStep(c) \/ DeadlinePasses(c) \/ Crash(c)
      PROVE  LedgerStep
  BY <1>3 DEF CallerStep, Submit, AbortSignal, DeadlinePasses, Crash, stores, LedgerStep
<1>4. ASSUME NEW c \in Calls, RuntimeStep(c)
      PROVE  LedgerStep
  <2>1. CASE \/ Deny(c) \/ ReadExisting(c) \/ ResolveApproval(c) \/ StartFails(c)
             \/ Dispatch(c) \/ CancellationFails(c)
    BY <2>1 DEF Deny, ReadExisting, ResolveApproval, StartFails, Dispatch, CancellationFails,
                stores, LedgerStep
  <2>2. CASE AppendStart(c) \/ RecordCancellation(c)
    BY <2>2 DEF LedgerStep
  <2>3. CASE CancelBeforeDispatch(c) \/ DeadlineFires(c)
    <3>1. PICK type \in TerminalEvents : \E r : Conclude(c, type, r)
      BY <2>3 DEF CancelBeforeDispatch, DeadlineFires, TerminalEvents
    <3>2. /\ pc[c] \in {"started", "dispatched"}
          /\ UNCHANGED <<approvals, used, request, approval>>
      BY <2>3 DEF CancelBeforeDispatch, DeadlineFires
    <3> QED
      BY <3>1, <3>2, ConcludeLedger DEF LedgerStep
  <2> QED
    BY <1>4, <2>1, <2>2, <2>3 DEF RuntimeStep
<1>5. ASSUME NEW c \in Calls, ProviderStep(c)
      PROVE  LedgerStep
  <2>1. CASE ProviderReturns(c) \/ ProviderThrows(c)
    <3>1. PICK type \in TerminalEvents : \E r : Conclude(c, type, r)
      BY <2>1, OutcomeTypes DEF ProviderReturns, ProviderThrows, TerminalEvents
    <3>2. pc[c] = "dispatched" /\ UNCHANGED <<approvals, used, request, approval>>
      BY <2>1 DEF ProviderReturns, ProviderThrows
    <3> QED
      BY <3>1, <3>2, ConcludeLedger DEF LedgerStep
  <2>2. CASE ProviderPerforms(c)
    BY <2>2 DEF ProviderPerforms, stores, LedgerStep
  <2> QED
    BY <1>5, <2>1, <2>2 DEF ProviderStep
<1> QED
  BY <1>1, <1>2, <1>3, <1>4, <1>5 DEF Next

\* How one call moves, whoever takes the step.
CallMoves(d) ==
  /\ pc[d] # "idle" => request'[d] = request[d]
  /\ pc[d] # "resolve" => approval'[d] = approval[d]
  /\ pc'[d] # "authorize" => approval'[d] = approval[d]
  /\ pc'[d] = "idle" => pc[d] = "idle"
  /\ pc'[d] = "govern" => pc[d] \in {"idle", "govern"}
  /\ pc'[d] = "resolve" => pc[d] \in {"govern", "resolve"}
  /\ pc'[d] = "record" => pc[d] \in {"govern", "record"}
  /\ pc'[d] = "authorize" => \/ pc[d] = "authorize"
                             \/ pc[d] = "resolve" /\ approval'[d] # None
                             \/ pc[d] = "govern" /\ ~NeedsApproval(ContractOf(d), FALSE)
  /\ pc'[d] = "started" => pc[d] = "started" \/ AppendStart(d)
  /\ pc'[d] = "dispatched" => pc[d] = "dispatched" \/ Dispatch(d)
  /\ pc[d] \in {"dispatched", "done", "crashed"} => pc'[d] \in {"dispatched", "done", "crashed"}
  /\ pc[d] = "done" => pc'[d] = "done"
  /\ provider'[d] # "idle" => provider[d] # "idle" \/ Dispatch(d)

LEMMA ConcludeMoves ==
  ASSUME TypeOK, NEW c \in Calls, NEW type, NEW r, Conclude(c, type, r)
  PROVE  pc' = [pc EXCEPT ![c] = "done"]
  BY DEF Conclude, Answer

LEMMA CallSteps ==
  ASSUME TypeOK, [Next]_vars, NEW d \in Calls
  PROVE  CallMoves(d)
<1> USE DEF TypeOK, CallMoves
<1>1. CASE UNCHANGED vars
  BY <1>1 DEF vars
<1>2. CASE StoreStep
  BY <1>2 DEF StoreStep, IssueApproval, ActivateApproval, ExpireApproval, callVars
<1>3. ASSUME NEW c \in Calls, CallerStep(c) \/ DeadlinePasses(c) \/ Crash(c)
      PROVE  CallMoves(d)
  <2>1. ASSUME NEW r \in Requests, Submit(c, r) PROVE CallMoves(d)
    BY <2>1 DEF Submit, Answer, Goto
  <2>2. CASE AbortSignal(c) \/ DeadlinePasses(c)
    BY <2>2 DEF AbortSignal, DeadlinePasses, stores
  <2>3. CASE Crash(c)
    BY <2>3 DEF Crash, stores, Running
  <2> QED
    BY <1>3, <2>1, <2>2, <2>3 DEF CallerStep
<1>4. ASSUME NEW c \in Calls, RuntimeStep(c)
      PROVE  CallMoves(d)
  <2>1. CASE Deny(c) \/ StartFails(c) \/ CancellationFails(c) \/ RecordCancellation(c)
    BY <2>1 DEF Deny, StartFails, CancellationFails, RecordCancellation, Answer
  <2>2. CASE ReadExisting(c)
    <3>1. ASSUME NEW policyAsks \in BOOLEAN, ~NeedsApproval(ContractOf(c), policyAsks)
          PROVE  ~NeedsApproval(ContractOf(c), FALSE)
      BY <3>1 DEF NeedsApproval
    <3>2. /\ pc[c] = "govern"
          /\ UNCHANGED <<request, approval, provider>>
          /\ \/ pc' = [pc EXCEPT ![c] = "done"]
             \/ pc' = [pc EXCEPT ![c] = "record"]
             \/ pc' = [pc EXCEPT ![c] = "resolve"]
             \/ /\ pc' = [pc EXCEPT ![c] = "authorize"]
                /\ ~NeedsApproval(ContractOf(c), FALSE)
      BY <2>2, <3>1 DEF ReadExisting, Answer, Goto
    <3> QED
      BY <3>2
  <2>3. CASE ResolveApproval(c)
    <3>1. None \notin Approvals
      BY ConstantsAssumption
    <3> QED
      BY <2>3, <3>1 DEF ResolveApproval, Answer, Goto
  <2>4. CASE AppendStart(c)
    BY <2>4 DEF AppendStart, Goto
  <2>5. CASE CancelBeforeDispatch(c) \/ DeadlineFires(c)
    <3>1. /\ pc[c] \in {"started", "dispatched"}
          /\ pc' = [pc EXCEPT ![c] = "done"]
          /\ UNCHANGED <<request, approval, provider>>
      BY <2>5, ConcludeMoves DEF CancelBeforeDispatch, DeadlineFires
    <3> QED
      BY <3>1
  <2>6. CASE Dispatch(c)
    BY <2>6 DEF Dispatch, Goto
  <2> QED
    BY <1>4, <2>1, <2>2, <2>3, <2>4, <2>5, <2>6 DEF RuntimeStep
<1>5. ASSUME NEW c \in Calls, ProviderStep(c)
      PROVE  CallMoves(d)
  <2>1. CASE ProviderReturns(c) \/ ProviderThrows(c)
    <3>1. /\ pc[c] = "dispatched"
          /\ pc' = [pc EXCEPT ![c] = "done"]
          /\ UNCHANGED <<request, approval>>
      BY <2>1, ConcludeMoves DEF ProviderReturns, ProviderThrows
    <3>2. \/ UNCHANGED provider
          \/ provider[c] = "running" /\ provider' = [provider EXCEPT ![c] = "stopped"]
      BY <2>1 DEF ProviderReturns, ProviderThrows
    <3> QED
      BY <3>1, <3>2
  <2>2. CASE ProviderPerforms(c)
    BY <2>2 DEF ProviderPerforms, stores, callVars
  <2> QED
    BY <1>5, <2>1, <2>2 DEF ProviderStep
<1> QED
  BY <1>1, <1>2, <1>3, <1>4, <1>5 DEF Next

-----------------------------------------------------------------------------
(* At most one dispatch.  The version-0 append makes the call that started *)
(* an operation unique; the invariant says that a dispatched call, and one *)
(* about to be dispatched or concluded, is that call.                      *)

Started(c) ==
  /\ Len(stream[OpOf(c)]) >= 2
  /\ stream[OpOf(c)][1] = Fact(c, "ExecutionAuthorized")
  /\ stream[OpOf(c)][2] = Fact(c, "ExecutionStarted")

StartInv ==
  \A c \in Calls :
    /\ pc[c] \in {"started", "dispatched"} => Started(c) /\ Len(stream[OpOf(c)]) = 2
    /\ Dispatched(c) => pc[c] \in {"dispatched", "done", "crashed"} /\ Started(c)

LEMMA StartedOnce ==
  ASSUME NEW c, NEW d, Started(c), Started(d), OpOf(c) = OpOf(d)
  PROVE  c = d
<1>1. Fact(c, "ExecutionAuthorized").by = Fact(d, "ExecutionAuthorized").by
  BY DEF Started
<1> QED
  BY <1>1 DEF Fact

LEMMA AppendStartLedger ==
  ASSUME TypeOK, NEW c \in Calls, AppendStart(c)
  PROVE  /\ OpOf(c) \in Ops
         /\ stream[OpOf(c)] = <<>>
         /\ stream' = [stream EXCEPT ![OpOf(c)] = StartFacts(c)]
         /\ UNCHANGED <<approvals, request, approval>>
<1>1. pc[c] = "authorize"
  BY DEF AppendStart, Goto
<1>2. request[c] \in Requests
  BY <1>1 DEF TypeOK
<1>3. OpOf(c) \in Ops
  BY <1>2, RequestFields
<1>4. stream[OpOf(c)] \in Seq(Facts) /\ Len(stream[OpOf(c)]) = 0
  BY <1>3 DEF TypeOK, AppendStart, AtVersion
<1> QED
  BY <1>3, <1>4 DEF AppendStart

LEMMA RecordCancellationLedger ==
  ASSUME TypeOK, NEW c \in Calls, RecordCancellation(c)
  PROVE  /\ pc[c] = "record"
         /\ OpOf(c) \in Ops
         /\ stream[OpOf(c)] = <<>>
         /\ stream' = [stream EXCEPT ![OpOf(c)] = Append(StartFacts(c), Fact(c, "ExecutionCancelled"))]
         /\ UNCHANGED <<approvals, used, request, approval>>
<1>1. pc[c] = "record" /\ AtVersion(OpOf(c), 0)
  BY DEF RecordCancellation
<1>2. request[c] \in Requests
  BY <1>1 DEF TypeOK
<1>3. OpOf(c) \in Ops
  BY <1>2, RequestFields
<1>4. stream[OpOf(c)] \in Seq(Facts) /\ Len(stream[OpOf(c)]) = 0
  BY <1>1, <1>3 DEF TypeOK, AtVersion
<1> QED
  BY <1>1, <1>3, <1>4 DEF RecordCancellation

LEMMA ConcludeStepLedger ==
  ASSUME TypeOK, NEW c \in Calls, NEW type \in TerminalEvents, ConcludeStep(c, type)
  PROVE  /\ OpOf(c) \in Ops
         /\ Fact(c, type) \in Facts
         /\ stream'[OpOf(c)] = Append(stream[OpOf(c)], Fact(c, type))
         /\ Len(stream'[OpOf(c)]) = 3
         /\ stream'[OpOf(c)][1] = stream[OpOf(c)][1]
         /\ stream'[OpOf(c)][2] = stream[OpOf(c)][2]
         /\ stream'[OpOf(c)][3] = Fact(c, type)
         /\ \A o \in Ops : o # OpOf(c) => stream'[o] = stream[o]
<1>1. pc[c] # "idle"
  BY DEF ConcludeStep
<1>2. request[c] \in Requests /\ approval[c] \in Approvals \cup {None}
  BY <1>1 DEF TypeOK
<1>3. OpOf(c) \in Ops /\ Fact(c, type) \in Facts
  BY <1>2, RequestFields, FactType DEF EventTypes
<1>4. stream[OpOf(c)] \in Seq(Facts) /\ Len(stream[OpOf(c)]) = 2
  BY <1>3 DEF TypeOK, ConcludeStep
<1>5. stream'[OpOf(c)] = Append(stream[OpOf(c)], Fact(c, type))
  BY <1>3 DEF TypeOK, ConcludeStep
<1>6. \A o \in Ops : o # OpOf(c) => stream'[o] = stream[o]
  BY DEF TypeOK, ConcludeStep
<1> QED
  BY <1>3, <1>4, <1>5, <1>6

\* A started call stays the author of its operation; only it appends to it.
LEMMA StartedKept ==
  ASSUME TypeOK, StartInv, [Next]_vars, NEW d \in Calls, Started(d),
         pc[d] \notin {"idle", "resolve"}
  PROVE  /\ Started(d)'
         /\ \/ stream'[OpOf(d)] = stream[OpOf(d)]
            \/ \E type \in TerminalEvents : ConcludeStep(d, type)
<1>1. request'[d] = request[d] /\ approval'[d] = approval[d]
  BY CallSteps DEF CallMoves
<1>2. OpOf(d)' = OpOf(d) /\ \A type : Fact(d, type)' = Fact(d, type)
  BY <1>1 DEF OpOf, Fact, TraceOf
<1>3. OpOf(d) \in Ops
  BY RequestFields DEF TypeOK
<1>4. stream[OpOf(d)] # <<>>
  BY DEF Started
<1>5. CASE stream'[OpOf(d)] = stream[OpOf(d)]
  BY <1>2, <1>5 DEF Started
<1>6. ASSUME NEW c \in Calls, AppendStart(c) \/ RecordCancellation(c)
      PROVE  stream'[OpOf(d)] = stream[OpOf(d)]
  BY <1>3, <1>4, <1>6, AppendStartLedger, RecordCancellationLedger DEF TypeOK
<1>7. ASSUME NEW c \in Calls, NEW type \in TerminalEvents, ConcludeStep(c, type)
      PROVE  \/ stream'[OpOf(d)] = stream[OpOf(d)]
             \/ c = d /\ Started(d)'
  <2>1. Started(c)
    BY <1>7 DEF StartInv, ConcludeStep
  <2>2. CASE OpOf(c) = OpOf(d)
    <3>1. c = d
      BY <2>1, <2>2, StartedOnce
    <3>2. /\ Len(stream'[OpOf(d)]) = 3
          /\ stream'[OpOf(d)][1] = stream[OpOf(d)][1]
          /\ stream'[OpOf(d)][2] = stream[OpOf(d)][2]
      BY <1>7, <2>2, ConcludeStepLedger
    <3> QED
      BY <1>2, <3>1, <3>2 DEF Started
  <2> QED
    BY <1>3, <1>7, <2>2, ConcludeStepLedger
<1> QED
  BY <1>5, <1>6, <1>7, LedgerSteps DEF LedgerStep

LEMMA StartInvStep == TypeOK /\ StartInv /\ [Next]_vars => StartInv'
<1> SUFFICES ASSUME TypeOK, StartInv, [Next]_vars, NEW d \in Calls
             PROVE  /\ pc'[d] \in {"started", "dispatched"} =>
                         Started(d)' /\ Len(stream[OpOf(d)])' = 2
                    /\ Dispatched(d)' => /\ pc'[d] \in {"dispatched", "done", "crashed"}
                                         /\ Started(d)'
  BY DEF StartInv
<1>1. CallMoves(d)
  BY CallSteps
<1>2. ASSUME AppendStart(d)
      PROVE  Started(d)' /\ Len(stream[OpOf(d)])' = 2
  <2>1. OpOf(d)' = OpOf(d) /\ \A type : Fact(d, type)' = Fact(d, type)
    BY <1>2, AppendStartLedger DEF OpOf, Fact, TraceOf
  <2>2. stream'[OpOf(d)] = <<Fact(d, "ExecutionAuthorized"), Fact(d, "ExecutionStarted")>>
    BY <1>2, AppendStartLedger DEF TypeOK, StartFacts
  <2> QED
    BY <2>1, <2>2 DEF Started
<1>3. ASSUME pc[d] \in {"started", "dispatched"}, pc'[d] \in {"started", "dispatched"}
      PROVE  Started(d)' /\ Len(stream[OpOf(d)])' = 2
  <2>1. Started(d) /\ Len(stream[OpOf(d)]) = 2
    BY <1>3 DEF StartInv
  <2>2. OpOf(d)' = OpOf(d)
    BY <1>1, <1>3 DEF CallMoves, OpOf
  <2>3. \A type : ~ConcludeStep(d, type)
    BY <1>3 DEF ConcludeStep, TypeOK
  <2> QED
    BY <1>3, <2>1, <2>2, <2>3, StartedKept
<1>4. pc'[d] \in {"started", "dispatched"} => Started(d)' /\ Len(stream[OpOf(d)])' = 2
  BY <1>1, <1>2, <1>3 DEF CallMoves, Dispatch, Goto
<1>5. ASSUME Dispatched(d)
      PROVE  pc'[d] \in {"dispatched", "done", "crashed"} /\ Started(d)'
  <2>1. pc[d] \in {"dispatched", "done", "crashed"} /\ Started(d)
    BY <1>5 DEF StartInv
  <2> QED
    BY <1>1, <2>1, StartedKept DEF CallMoves
<1>6. ASSUME Dispatch(d)
      PROVE  pc'[d] \in {"dispatched", "done", "crashed"} /\ Started(d)'
  <2>1. pc'[d] = "dispatched"
    BY <1>6 DEF Dispatch, Goto, TypeOK
  <2> QED
    BY <1>4, <2>1
<1>7. Dispatched(d)' => Dispatched(d) \/ Dispatch(d)
  BY <1>1 DEF Dispatched, CallMoves
<1> QED
  BY <1>4, <1>5, <1>6, <1>7

LEMMA StartInvariant == Spec => [](TypeOK /\ StartInv)
<1>1. Init => StartInv
  BY DEF Init, StartInv, Dispatched
<1> QED
  BY <1>1, TypeCorrect, StartInvStep, PTL DEF Spec

\* The provider is dispatched at most once for an operation, whatever calls
\* race, retry, cancel or crash.
THEOREM DispatchedAtMostOnce == Spec => []AtMostOneDispatch
<1>1. StartInv => AtMostOneDispatch
  BY StartedOnce DEF StartInv, AtMostOneDispatch
<1> QED
  BY <1>1, StartInvariant, PTL

-----------------------------------------------------------------------------
(* The ledger is never rewritten.                                          *)

LEMMA HistorySteps == TypeOK /\ StartInv /\ [Next]_vars => HistoryStep
<1> SUFFICES ASSUME TypeOK, StartInv, [Next]_vars, NEW o \in Ops,
                    stream'[o] # stream[o], stream[o] # <<>>
             PROVE  /\ ~HasTerminal(o)
                    /\ \E c \in Calls, type \in TerminalEvents :
                         /\ stream[o][1].by = c
                         /\ pc[c] \in {"started", "dispatched"}
                         /\ stream'[o] = Append(stream[o], Fact(c, type))
  BY DEF HistoryStep
<1>1. ASSUME NEW c \in Calls, AppendStart(c) \/ RecordCancellation(c)
      PROVE  FALSE
  BY <1>1, AppendStartLedger, RecordCancellationLedger DEF TypeOK
<1>2. PICK c \in Calls, type \in TerminalEvents : ConcludeStep(c, type)
  BY <1>1, LedgerSteps DEF LedgerStep
<1>3. o = OpOf(c) /\ stream'[o] = Append(stream[o], Fact(c, type))
  BY <1>2, ConcludeStepLedger
<1>4. Started(c) /\ Len(stream[o]) = 2 /\ pc[c] \in {"started", "dispatched"}
  BY <1>2, <1>3 DEF StartInv, ConcludeStep
<1>5. stream[o][1].by = c /\ stream[o][1].type = "ExecutionAuthorized"
  BY <1>3, <1>4 DEF Started, Fact
<1>6. stream[o][2].type = "ExecutionStarted"
  BY <1>3, <1>4 DEF Started, Fact
<1>7. ~HasTerminal(o)
  BY <1>4, <1>5, <1>6 DEF HasTerminal, TerminalEvents
<1> QED
  BY <1>3, <1>4, <1>5, <1>7

\* Streams only grow, nothing follows a terminal fact, and only the call that
\* started an operation concludes it.
THEOREM LedgerNeverRewritten == Spec => HistoryImmutable
  BY HistorySteps, StartInvariant, PTL DEF Spec, HistoryImmutable, vars

-----------------------------------------------------------------------------
(* Approvals.                                                              *)

\* A call has an approval only after the resolver gave it one, and has one
\* whenever its contract calls for it and it is past the resolver.
ApprovalInv ==
  \A c \in Calls :
    /\ pc[c] \in {"idle", "govern", "resolve", "record"} => approval[c] = None
    /\ (pc[c] \in {"authorize", "started"} \/ Dispatched(c)) /\ NeedsApproval(ContractOf(c), FALSE)
         => approval[c] # None

LEMMA ApprovalInvStep == TypeOK /\ StartInv /\ ApprovalInv /\ [Next]_vars => ApprovalInv'
<1> SUFFICES ASSUME TypeOK, StartInv, ApprovalInv, [Next]_vars, NEW d \in Calls
             PROVE  /\ pc'[d] \in {"idle", "govern", "resolve", "record"} => approval'[d] = None
                    /\ /\ pc'[d] \in {"authorize", "started"} \/ Dispatched(d)'
                       /\ NeedsApproval(ContractOf(d), FALSE)'
                       => approval'[d] # None
  BY DEF ApprovalInv
<1>1. CallMoves(d)
  BY CallSteps
<1>2. pc'[d] \in {"idle", "govern", "resolve", "record"} => approval'[d] = None
  <2>1. ASSUME pc'[d] \in {"idle", "govern", "resolve", "record"}
        PROVE  pc[d] \in {"idle", "govern", "resolve", "record"} /\ approval'[d] = approval[d]
    BY <1>1, <2>1 DEF CallMoves
  <2> QED
    BY <2>1 DEF ApprovalInv
<1>3. ASSUME pc[d] # "idle", NeedsApproval(ContractOf(d), FALSE)'
      PROVE  NeedsApproval(ContractOf(d), FALSE)
  BY <1>1, <1>3 DEF CallMoves, NeedsApproval, ContractOf, OpOf
<1>4. ASSUME NeedsApproval(ContractOf(d), FALSE)', pc'[d] = "authorize"
      PROVE  approval'[d] # None
  <2>1. pc[d] \in {"authorize", "resolve", "govern"}
    BY <1>1, <1>4 DEF CallMoves
  <2>2. NeedsApproval(ContractOf(d), FALSE)
    BY <1>3, <1>4, <2>1
  <2> QED
    BY <1>1, <1>4, <2>2 DEF CallMoves, ApprovalInv
<1>5. ASSUME NeedsApproval(ContractOf(d), FALSE)', pc'[d] = "started" \/ Dispatched(d)'
      PROVE  approval'[d] # None
  <2>1. pc[d] \in {"authorize", "started"} \/ Dispatched(d)
    BY <1>1, <1>5 DEF CallMoves, Dispatched, AppendStart, Dispatch, Goto
  <2>2. pc[d] \notin {"idle", "resolve"}
    BY <2>1 DEF StartInv
  <2> QED
    BY <1>1, <1>3, <1>5, <2>1, <2>2 DEF CallMoves, ApprovalInv
<1> QED
  BY <1>2, <1>4, <1>5

\* Rows are never changed (the immutability triggers of migration 007).
LEMMA RowsImmutable ==
  ASSUME TypeOK, [Next]_vars, NEW a \in Approvals, approvals[a] # None
  PROVE  approvals'[a] = approvals[a]
<1>1. CASE UNCHANGED vars
  BY <1>1 DEF vars
<1>2. CASE StoreStep
  BY <1>2 DEF StoreStep, IssueApproval, ActivateApproval, ExpireApproval, TypeOK
<1>3. ASSUME NEW c \in Calls, CallerStep(c) \/ DeadlinePasses(c) \/ Crash(c)
      PROVE  UNCHANGED approvals
  BY <1>3 DEF CallerStep, Submit, AbortSignal, DeadlinePasses, Crash, stores
<1>4. ASSUME NEW c \in Calls, RuntimeStep(c)
      PROVE  UNCHANGED approvals
  BY <1>4 DEF RuntimeStep, Deny, ReadExisting, ResolveApproval, AppendStart, StartFails,
              CancelBeforeDispatch, Dispatch, DeadlineFires, RecordCancellation,
              CancellationFails, stores
<1>5. ASSUME NEW c \in Calls, ProviderStep(c)
      PROVE  UNCHANGED approvals
  BY <1>5 DEF ProviderStep, ProviderReturns, ProviderThrows, ProviderPerforms, stores
<1> QED
  BY <1>1, <1>2, <1>3, <1>4, <1>5 DEF Next

\* The two parts of ApprovalBinding that are inductive; the third follows.
Cited(a, o) == stream[o] # <<>> /\ stream[o][1].approval = a

Granted(a) ==
  /\ approvals[a] # None
  /\ approvals[a].decision = "approved"
  /\ approvals[a].op = used[a]
  /\ approvals[a].resource = Resource[stream[used[a]][1].scope]

BindingInv ==
  \A a \in Approvals :
    /\ \A o \in Ops : used[a] = o <=> Cited(a, o)
    /\ used[a] # None => Granted(a)

LEMMA FirstFact ==
  ASSUME TypeOK, StartInv, [Next]_vars, NEW o \in Ops, stream[o] # <<>>
  PROVE  stream'[o] # <<>> /\ stream'[o][1] = stream[o][1]
<1>1. ASSUME NEW c \in Calls, AppendStart(c) \/ RecordCancellation(c)
      PROVE  stream'[o] = stream[o]
  BY <1>1, AppendStartLedger, RecordCancellationLedger DEF TypeOK
<1>2. ASSUME NEW c \in Calls, NEW type \in TerminalEvents, ConcludeStep(c, type)
      PROVE  stream'[o] # <<>> /\ stream'[o][1] = stream[o][1]
  <2>1. CASE o = OpOf(c)
    BY <1>2, <2>1, ConcludeStepLedger
  <2>2. CASE o # OpOf(c)
    BY <1>2, <2>2, ConcludeStepLedger
  <2> QED
    BY <2>1, <2>2
<1> QED
  BY <1>1, <1>2, LedgerSteps DEF LedgerStep

\* One approval is consumed together with the facts that cite it, or none.
LEMMA NewUse ==
  ASSUME TypeOK, BindingInv, NEW c \in Calls, AppendStart(c)
  PROVE  BindingInv'
<1> DEFINE op == OpOf(c)
<1>1. /\ op \in Ops /\ stream[op] = <<>> /\ op # None
      /\ stream' = [stream EXCEPT ![op] = StartFacts(c)]
      /\ UNCHANGED approvals
  BY AppendStartLedger, ConstantsAssumption
<1>2. /\ stream'[op] # <<>>
      /\ stream'[op][1].approval = approval[c] /\ stream'[op][1].scope = request[c].scope
  BY <1>1 DEF TypeOK, StartFacts, Fact
<1>3. \A o \in Ops : o # op => stream'[o] = stream[o]
  BY <1>1 DEF TypeOK
<1>4. \A a \in Approvals : used[a] # op
  BY <1>1 DEF BindingInv, Cited
<1>5. CASE approval[c] = None
  <2>1. used' = used /\ None \notin Approvals
    BY <1>5, ConstantsAssumption DEF AppendStart
  <2>2. ASSUME NEW a \in Approvals, NEW o \in Ops
        PROVE  used'[a] = o <=> Cited(a, o)'
    <3>1. CASE o = op
      BY <1>2, <1>4, <1>5, <2>1, <3>1 DEF Cited
    <3>2. CASE o # op
      BY <1>3, <2>1, <3>2 DEF BindingInv, Cited
    <3> QED
      BY <3>1, <3>2
  <2>3. ASSUME NEW a \in Approvals, used'[a] # None
        PROVE  Granted(a)'
    <3>1. used[a] \in Ops /\ used[a] # op /\ Granted(a)
      BY <1>4, <2>1, <2>3 DEF TypeOK, BindingInv
    <3> QED
      BY <1>1, <1>3, <2>1, <3>1 DEF Granted
  <2> QED
    BY <2>2, <2>3 DEF BindingInv
<1>6. CASE approval[c] # None
  <2>1. /\ approval[c] \in Approvals
        /\ Consumable(approval[c], c)
        /\ used' = [used EXCEPT ![approval[c]] = op]
    BY <1>6 DEF AppendStart, TypeOK
  <2>2. used[approval[c]] = None /\ used'[approval[c]] = op
    BY <2>1 DEF Consumable, TypeOK
  <2>3. \A a \in Approvals : a # approval[c] => used'[a] = used[a]
    BY <2>1 DEF TypeOK
  <2>4. ASSUME NEW a \in Approvals, NEW o \in Ops
        PROVE  used'[a] = o <=> Cited(a, o)'
    <3>1. CASE o = op
      BY <1>2, <1>4, <2>2, <2>3, <3>1 DEF Cited
    <3>2. CASE o # op /\ a = approval[c]
      <4>1. o # None
        BY ConstantsAssumption
      <4>2. ~Cited(a, o)
        BY <2>2, <3>2, <4>1 DEF BindingInv
      <4> QED
        BY <1>3, <2>2, <3>2, <4>2 DEF Cited
    <3>3. CASE o # op /\ a # approval[c]
      BY <1>3, <2>3, <3>3 DEF BindingInv, Cited
    <3> QED
      BY <3>1, <3>2, <3>3
  <2>5. ASSUME NEW a \in Approvals, used'[a] # None
        PROVE  Granted(a)'
    <3>1. CASE a = approval[c]
      BY <1>1, <1>2, <2>1, <2>2, <3>1 DEF Consumable, Granted
    <3>2. CASE a # approval[c]
      <4>1. used[a] \in Ops /\ used[a] # op /\ Granted(a)
        BY <1>4, <2>3, <2>5, <3>2 DEF TypeOK, BindingInv
      <4> QED
        BY <1>1, <1>3, <2>3, <3>2, <4>1 DEF Granted
    <3> QED
      BY <3>1, <3>2
  <2> QED
    BY <2>4, <2>5 DEF BindingInv
<1> QED
  BY <1>5, <1>6

\* A step that consumes no approval keeps the binding when every stream it
\* begins cites none.
LEMMA OldUses ==
  ASSUME TypeOK, StartInv, BindingInv, [Next]_vars, used' = used,
         \A o \in Ops : stream[o] = <<>> /\ stream'[o] # <<>> => stream'[o][1].approval = None
  PROVE  BindingInv'
<1>1. ASSUME NEW a \in Approvals, NEW o \in Ops
      PROVE  used'[a] = o <=> Cited(a, o)'
  <2>1. CASE stream[o] # <<>>
    BY <2>1, FirstFact DEF BindingInv, Cited
  <2>2. CASE stream[o] = <<>>
    <3>1. a # None
      BY ConstantsAssumption
    <3> QED
      BY <2>2, <3>1 DEF BindingInv, Cited
  <2> QED
    BY <2>1, <2>2
<1>2. ASSUME NEW a \in Approvals, used'[a] # None
      PROVE  Granted(a)'
  <2>1. used[a] \in Ops /\ Granted(a) /\ Cited(a, used[a])
    BY <1>2 DEF TypeOK, BindingInv
  <2>2. approvals'[a] = approvals[a]
    BY <2>1, RowsImmutable DEF Granted
  <2>3. stream'[used[a]][1] = stream[used[a]][1]
    BY <2>1, FirstFact DEF Cited
  <2> QED
    BY <2>1, <2>2, <2>3 DEF Granted
<1> QED
  BY <1>1, <1>2 DEF BindingInv

LEMMA BindingInvStep ==
  TypeOK /\ StartInv /\ ApprovalInv /\ BindingInv /\ [Next]_vars => BindingInv'
<1> SUFFICES ASSUME TypeOK, StartInv, ApprovalInv, BindingInv, [Next]_vars
             PROVE  BindingInv'
  OBVIOUS
<1>1. ASSUME NEW c \in Calls, AppendStart(c)
      PROVE  BindingInv'
  BY <1>1, NewUse
<1>2. CASE UNCHANGED <<stream, used>>
  BY <1>2, OldUses
<1>3. ASSUME NEW c \in Calls, RecordCancellation(c)
      PROVE  BindingInv'
  <2>1. /\ OpOf(c) \in Ops /\ UNCHANGED used /\ pc[c] = "record"
        /\ stream' = [stream EXCEPT ![OpOf(c)] =
                        Append(StartFacts(c), Fact(c, "ExecutionCancelled"))]
    BY <1>3, RecordCancellationLedger
  <2>2. Append(StartFacts(c), Fact(c, "ExecutionCancelled"))[1] = Fact(c, "ExecutionAuthorized")
    BY DEF StartFacts
  <2>3. Fact(c, "ExecutionAuthorized").approval = None
    BY <2>1 DEF ApprovalInv, Fact
  <2> QED
    BY <2>1, <2>2, <2>3, OldUses DEF TypeOK
<1>4. ASSUME NEW c \in Calls, NEW type \in TerminalEvents, ConcludeStep(c, type)
      PROVE  BindingInv'
  <2>1. used' = used /\ stream[OpOf(c)] # <<>>
    BY <1>4 DEF ConcludeStep
  <2> QED
    BY <1>4, <2>1, OldUses, ConcludeStepLedger
<1> QED
  BY <1>1, <1>2, <1>3, <1>4, LedgerSteps DEF LedgerStep

LEMMA ApprovalInvariant == Spec => [](TypeOK /\ StartInv /\ ApprovalInv /\ BindingInv)
<1>1. Init => ApprovalInv /\ BindingInv
  <2>1. None \notin Ops
    BY ConstantsAssumption
  <2> QED
    BY <2>1 DEF Init, ApprovalInv, BindingInv, Dispatched, Cited
<1> QED
  BY <1>1, StartInvariant, ApprovalInvStep, BindingInvStep, PTL DEF Spec

\* The ledger and the approval store agree at every moment: an approval is
\* used by exactly the operation that cites it, within what it was granted for.
THEOREM ApprovalsBound == Spec => []ApprovalBinding
<1>1. TypeOK /\ BindingInv => ApprovalBinding
  <2> SUFFICES ASSUME TypeOK, BindingInv, NEW a \in Approvals
               PROVE  /\ \A o \in Ops : used[a] = o <=> stream[o] # <<>> /\ stream[o][1].approval = a
                      /\ used[a] # None => Granted(a)
                      /\ \A b \in Approvals : used[a] # None /\ used[a] = used[b] => a = b
    BY DEF ApprovalBinding, Granted
  <2>1. ASSUME NEW b \in Approvals, used[a] # None, used[a] = used[b]
        PROVE  a = b
    <3>1. used[a] \in Ops
      BY <2>1 DEF TypeOK
    <3>2. Cited(a, used[a]) /\ Cited(b, used[a])
      BY <2>1, <3>1 DEF BindingInv
    <3> QED
      BY <3>2 DEF Cited
  <2> QED
    BY <2>1 DEF BindingInv, Cited
<1> QED
  BY <1>1, ApprovalInvariant, PTL

\* Nothing is dispatched before its own start facts, and its approval when it
\* needs one, are durable.
THEOREM DispatchIsAuthorized == Spec => []DispatchAfterDurableStart
<1>1. TypeOK /\ StartInv /\ ApprovalInv /\ BindingInv => DispatchAfterDurableStart
  <2> SUFFICES ASSUME TypeOK, StartInv, ApprovalInv, BindingInv, NEW c \in Calls, Dispatched(c)
               PROVE  /\ Len(stream[OpOf(c)]) >= 2
                      /\ \A i \in 1..2 : stream[OpOf(c)][i] = StartFacts(c)[i]
                      /\ NeedsApproval(ContractOf(c), FALSE) =>
                           \E a \in Approvals :
                             /\ used[a] = OpOf(c)
                             /\ approvals[a] = [op |-> OpOf(c), decision |-> "approved",
                                                resource |-> Resource[request[c].scope]]
    BY DEF DispatchAfterDurableStart
  <2>1. Started(c) /\ pc[c] # "idle"
    BY DEF StartInv
  <2>2. OpOf(c) \in Ops /\ stream[OpOf(c)] \in Seq(Facts)
    BY <2>1, RequestFields DEF TypeOK
  <2>3. \A i \in 1..2 : stream[OpOf(c)][i] = StartFacts(c)[i]
    BY <2>1 DEF Started, StartFacts
  <2>4. ASSUME NeedsApproval(ContractOf(c), FALSE)
        PROVE  \E a \in Approvals :
                 /\ used[a] = OpOf(c)
                 /\ approvals[a] = [op |-> OpOf(c), decision |-> "approved",
                                    resource |-> Resource[request[c].scope]]
    <3>1. approval[c] \in Approvals
      BY <2>4 DEF ApprovalInv, TypeOK
    <3>2. /\ stream[OpOf(c)] # <<>> /\ stream[OpOf(c)][1].approval = approval[c]
          /\ stream[OpOf(c)][1].scope = request[c].scope
      BY <2>1 DEF Started, Fact
    <3>3. used[approval[c]] = OpOf(c) /\ OpOf(c) # None
      BY <2>2, <3>1, <3>2, ConstantsAssumption DEF BindingInv, Cited
    <3>4. /\ approvals[approval[c]] \in ApprovalRows
          /\ approvals[approval[c]].decision = "approved"
          /\ approvals[approval[c]].op = OpOf(c)
          /\ approvals[approval[c]].resource = Resource[request[c].scope]
      BY <3>1, <3>2, <3>3 DEF BindingInv, Granted, TypeOK
    <3> QED
      BY <3>1, <3>3, <3>4, ConstantsAssumption
  <2> QED
    BY <2>1, <2>3, <2>4 DEF Started
<1> QED
  BY <1>1, ApprovalInvariant, PTL
=============================================================================
