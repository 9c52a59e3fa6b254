------------------------ MODULE GovernedOutcomeProofs ------------------------
(***************************************************************************)
(* Proofs about what GovernedExecution records and answers: a definite     *)
(* terminal fact is true of the provider, a caller's answer is what the    *)
(* ledger holds, and the whole implements AtMostOnceOperation.             *)
(***************************************************************************)
EXTENDS GovernedExecutionProofs

-----------------------------------------------------------------------------
(* What a step may do to the ledger and the provider together.             *)

\* The runtime is done with a call it had started: it recorded an outcome that
\* it had grounds for, or nothing; the provider may have declared that it
\* stopped before its effect.
Proven(c, type) ==
  /\ type = "ExecutionSucceeded" => provider[c] = "performed" /\ UNCHANGED provider
  /\ type = "ExecutionFailed" => provider'[c] = "stopped" \/ ~Mutating(OpOf(c))
  /\ type = "ExecutionCancelled" => provider'[c] = "stopped" \/ pc[c] = "started"
  /\ type = "ExecutionOutcomeUncertain" => pc[c] = "dispatched" /\ UNCHANGED provider

Settles(c) ==
  /\ pc[c] \in {"started", "dispatched"}
  /\ pc' = [pc EXCEPT ![c] = "done"]
  /\ UNCHANGED request
  /\ \/ UNCHANGED provider
     \/ provider[c] = "running" /\ provider' = [provider EXCEPT ![c] = "stopped"]
  /\ \/ UNCHANGED stream
     \/ \E type \in TerminalEvents : ConcludeStep(c, type) /\ Proven(c, type)

WorldStep ==
  \/ UNCHANGED <<stream, provider>>
  \/ \E c \in Calls : \/ AppendStart(c) \/ RecordCancellation(c) \/ Dispatch(c)
                      \/ Settles(c) \/ ProviderPerforms(c)

\* The outcome assumed of a provider that left it open says nothing of a
\* mutation: only a read may be recorded as failed.
LEMMA UnprovenIsHonest ==
  ASSUME NEW c
  PROVE  /\ UnprovenOutcome(ContractOf(c)) \in {"ExecutionFailed", "ExecutionOutcomeUncertain"}
         /\ UnprovenOutcome(ContractOf(c)) = "ExecutionFailed" => ~Mutating(OpOf(c))
  BY DEF UnprovenOutcome, ContractOf, Mutating

LEMMA ConcludeSettles ==
  ASSUME NEW c \in Calls, NEW type \in TerminalEvents, NEW r, Conclude(c, type, r),
         pc[c] \in {"started", "dispatched"},
         UNCHANGED <<approvals, used, request, approval>>, Proven(c, type),
         \/ UNCHANGED provider
         \/ provider[c] = "running" /\ provider' = [provider EXCEPT ![c] = "stopped"]
  PROVE  Settles(c)
<1>1. pc' = [pc EXCEPT ![c] = "done"]
  BY DEF Conclude, Answer
<1> QED
  BY <1>1, ConcludeLedger DEF Settles

LEMMA WorldSteps ==
  ASSUME TypeOK, [Next]_vars
  PROVE  WorldStep
<1>1. CASE UNCHANGED vars
  BY <1>1 DEF vars, WorldStep
<1>2. CASE StoreStep
  BY <1>2 DEF StoreStep, IssueApproval, ActivateApproval, ExpireApproval, WorldStep
<1>3. ASSUME NEW c \in Calls, CallerStep(c) \/ DeadlinePasses(c) \/ Crash(c)
      PROVE  WorldStep
  BY <1>3 DEF CallerStep, Submit, AbortSignal, DeadlinePasses, Crash, stores, WorldStep
<1>4. ASSUME NEW c \in Calls, RuntimeStep(c)
      PROVE  WorldStep
  <2>1. CASE \/ Deny(c) \/ ReadExisting(c) \/ ResolveApproval(c) \/ StartFails(c)
             \/ CancellationFails(c)
    BY <2>1 DEF Deny, ReadExisting, ResolveApproval, StartFails, CancellationFails,
                stores, WorldStep
  <2>2. CASE AppendStart(c) \/ RecordCancellation(c) \/ Dispatch(c)
    BY <2>2 DEF WorldStep
  <2>3. CASE CancelBeforeDispatch(c)
    <3>1. PICK r : Conclude(c, "ExecutionCancelled", r)
      BY <2>3 DEF CancelBeforeDispatch
    <3>2. /\ pc[c] = "started"
          /\ UNCHANGED <<approvals, used, request, approval, provider>>
      BY <2>3 DEF CancelBeforeDispatch
    <3>3. Proven(c, "ExecutionCancelled") /\ "ExecutionCancelled" \in TerminalEvents
      BY <3>2 DEF Proven, TerminalEvents
    <3> QED
      BY <3>1, <3>2, <3>3, ConcludeSettles DEF WorldStep
  <2>4. CASE DeadlineFires(c)
    <3>1. /\ pc[c] = "dispatched"
          /\ Conclude(c, "ExecutionOutcomeUncertain", "in_doubt")
          /\ UNCHANGED <<approvals, used, request, approval, provider>>
      BY <2>4 DEF DeadlineFires
    <3>2. Proven(c, "ExecutionOutcomeUncertain") /\ "ExecutionOutcomeUncertain" \in TerminalEvents
      BY <3>1 DEF Proven, TerminalEvents
    <3> QED
      BY <3>1, <3>2, ConcludeSettles DEF WorldStep
  <2> QED
    BY <1>4, <2>1, <2>2, <2>3, <2>4 DEF RuntimeStep
<1>5. ASSUME NEW c \in Calls, ProviderStep(c)
      PROVE  WorldStep
  <2> DEFINE unproven == UnprovenOutcome(ContractOf(c))
  <2>1. unproven \in TerminalEvents /\ (unproven = "ExecutionFailed" => ~Mutating(OpOf(c)))
        /\ unproven \notin {"ExecutionSucceeded", "ExecutionCancelled"}
    BY UnprovenIsHonest DEF TerminalEvents
  <2>2. ASSUME pc[c] = "dispatched", UNCHANGED provider
        PROVE  Proven(c, unproven) /\ Proven(c, "ExecutionOutcomeUncertain")
    BY <2>1, <2>2 DEF Proven
  <2>3. "ExecutionOutcomeUncertain" \in TerminalEvents /\ "ExecutionSucceeded" \in TerminalEvents
    BY DEF TerminalEvents
  <2> HIDE DEF unproven
  <2>4. CASE ProviderReturns(c)
    <3>1. /\ pc[c] = "dispatched"
          /\ UNCHANGED <<approvals, used, request, approval, provider>>
      BY <2>4 DEF ProviderReturns
    <3>2. CASE provider[c] = "performed" /\ Conclude(c, "ExecutionSucceeded", "succeeded")
      <4>1. Proven(c, "ExecutionSucceeded")
        BY <3>1, <3>2 DEF Proven
      <4> QED
        BY <2>3, <3>1, <3>2, <4>1, ConcludeSettles DEF WorldStep
    <3>3. CASE Conclude(c, unproven, ReplyOf(unproven))
      BY <2>1, <2>2, <3>1, <3>3, ConcludeSettles DEF WorldStep
    <3> QED
      BY <2>4, <3>2, <3>3 DEF ProviderReturns, unproven
  <2>5. CASE ProviderThrows(c)
    <3>1. pc[c] = "dispatched" /\ UNCHANGED <<approvals, used, request, approval>>
      BY <2>5 DEF ProviderThrows
    <3>2. ASSUME NEW type \in {"ExecutionFailed", "ExecutionCancelled"},
                 provider[c] = "running",
                 provider' = [provider EXCEPT ![c] = "stopped"],
                 Conclude(c, type, ReplyOf(type))
          PROVE  WorldStep
      <4>1. provider'[c] = "stopped"
        BY <3>2 DEF TypeOK
      <4>2. Proven(c, type) /\ type \in TerminalEvents
        BY <4>1 DEF Proven, TerminalEvents
      <4> QED
        BY <3>1, <3>2, <4>2, ConcludeSettles DEF WorldStep
    <3>3. ASSUME NEW type \in {"ExecutionOutcomeUncertain", unproven},
                 Conclude(c, type, ReplyOf(type)), UNCHANGED provider
          PROVE  WorldStep
      <4>1. Proven(c, type) /\ type \in TerminalEvents
        BY <2>1, <2>2, <2>3, <3>1, <3>3
      <4> QED
        BY <3>1, <3>3, <4>1, ConcludeSettles DEF WorldStep
    <3> QED
      BY <2>5, <3>2, <3>3 DEF ProviderThrows, unproven
  <2>6. CASE ProviderPerforms(c)
    BY <2>6 DEF WorldStep
  <2> QED
    BY <1>5, <2>4, <2>5, <2>6 DEF ProviderStep
<1> QED
  BY <1>1, <1>2, <1>3, <1>4, <1>5 DEF Next

\* Performed and stopped are final, and a dispatched call keeps its operation.
LEMMA ProviderSteps ==
  ASSUME TypeOK, StartInv, [Next]_vars, NEW d \in Calls
  PROVE  /\ Dispatched(d) => Dispatched(d)' /\ OpOf(d)' = OpOf(d)
         /\ Dispatched(d)' => (Dispatched(d) \/ Dispatch(d)) /\ OpOf(d)' = OpOf(d)
         /\ provider[d] \in {"performed", "stopped"} => provider'[d] = provider[d]
<1>1. CallMoves(d)
  BY CallSteps
<1>2. Dispatched(d) \/ Dispatch(d) => pc[d] # "idle" /\ OpOf(d)' = OpOf(d)
  BY <1>1 DEF CallMoves, StartInv, Dispatch, Goto, OpOf
<1>3. Dispatched(d)' => Dispatched(d) \/ Dispatch(d)
  BY <1>1 DEF CallMoves, Dispatched
<1>4. provider[d] \in {"performed", "stopped"} => provider'[d] = provider[d]
  <2>1. CASE UNCHANGED provider
    BY <2>1
  <2>2. ASSUME NEW c \in Calls, Dispatch(c)
        PROVE  provider[d] \in {"performed", "stopped"} => provider'[d] = provider[d]
    BY <2>2 DEF Dispatch, Goto, StartInv, Dispatched, TypeOK
  <2>3. ASSUME NEW c \in Calls, provider[c] = "running",
               \E p : provider' = [provider EXCEPT ![c] = p]
        PROVE  provider[d] \in {"performed", "stopped"} => provider'[d] = provider[d]
    BY <2>3 DEF TypeOK
  <2> QED
    BY <2>1, <2>2, <2>3, WorldSteps
       DEF WorldStep, AppendStart, RecordCancellation, Settles, ProviderPerforms
<1>5. Dispatched(d) => Dispatched(d)'
  <2>1. CASE UNCHANGED provider
    BY <2>1 DEF Dispatched
  <2>2. ASSUME NEW c \in Calls, NEW p \in {"running", "performed", "stopped"},
               provider' = [provider EXCEPT ![c] = p]
        PROVE  Dispatched(d) => Dispatched(d)'
    BY <2>2 DEF TypeOK, Dispatched
  <2> QED
    BY <2>1, <2>2, WorldSteps
       DEF WorldStep, AppendStart, RecordCancellation, Settles, ProviderPerforms, Dispatch
<1> QED
  BY <1>2, <1>3, <1>4, <1>5

-----------------------------------------------------------------------------
(* The shape of a stream: authorized and started together, then at most one*)
(* terminal fact.                                                          *)

WellShaped(s) ==
  /\ s[1].type = "ExecutionAuthorized"
  /\ s[2].type = "ExecutionStarted"
  /\ \/ Len(s) = 2
     \/ Len(s) = 3 /\ s[3].type \in TerminalEvents

ShapeInv == \A o \in Ops : stream[o] # <<>> => WellShaped(stream[o])

LEMMA ShapeFacts ==
  ASSUME TypeOK, ShapeInv, NEW o \in Ops
  PROVE  /\ HasTerminal(o) <=> Len(stream[o]) = 3
         /\ HasTerminal(o) => /\ stream[o] # <<>>
                              /\ LastType(o) = stream[o][3].type
                              /\ LastType(o) \in TerminalEvents
         /\ stream[o] # <<>> => Len(stream[o]) \in {2, 3}
         /\ stream[o] = <<>> <=> Len(stream[o]) = 0
<1>1. stream[o] \in Seq(Facts)
  BY DEF TypeOK
<1>2. CASE stream[o] = <<>>
  BY <1>2 DEF HasTerminal
<1>3. CASE stream[o] # <<>>
  <2>1. WellShaped(stream[o])
    BY <1>3 DEF ShapeInv
  <2> QED
    BY <1>1, <1>3, <2>1 DEF WellShaped, HasTerminal, LastType, TerminalEvents
<1> QED
  BY <1>2, <1>3

LEMMA ShapeInvStep == TypeOK /\ StartInv /\ ShapeInv /\ [Next]_vars => ShapeInv'
<1> SUFFICES ASSUME TypeOK, StartInv, ShapeInv, [Next]_vars,
                    NEW o \in Ops, stream'[o] # stream[o]
             PROVE  WellShaped(stream'[o])
  BY DEF ShapeInv
<1>1. ASSUME NEW c \in Calls, AppendStart(c)
      PROVE  WellShaped(stream'[o])
  <2>1. stream'[o] = StartFacts(c)
    BY <1>1, AppendStartLedger DEF TypeOK
  <2> QED
    BY <2>1 DEF WellShaped, StartFacts, Fact
<1>2. ASSUME NEW c \in Calls, RecordCancellation(c)
      PROVE  WellShaped(stream'[o])
  <2>1. stream'[o] = Append(StartFacts(c), Fact(c, "ExecutionCancelled"))
    BY <1>2, RecordCancellationLedger DEF TypeOK
  <2> QED
    BY <2>1 DEF WellShaped, StartFacts, Fact, TerminalEvents
<1>3. ASSUME NEW c \in Calls, NEW type \in TerminalEvents, ConcludeStep(c, type)
      PROVE  WellShaped(stream'[o])
  <2>1. /\ o = OpOf(c) /\ Len(stream'[o]) = 3
        /\ stream'[o][1] = stream[o][1] /\ stream'[o][2] = stream[o][2]
        /\ stream'[o][3] = Fact(c, type)
    BY <1>3, ConcludeStepLedger
  <2>2. WellShaped(stream[o])
    BY <1>3, <2>1 DEF ConcludeStep, ShapeInv
  <2> QED
    BY <2>1, <2>2 DEF WellShaped, Fact
<1> QED
  BY <1>1, <1>2, <1>3, LedgerSteps DEF LedgerStep

LEMMA ShapeInvariant == Spec => [](TypeOK /\ StartInv /\ ShapeInv)
<1>1. Init => ShapeInv
  BY DEF Init, ShapeInv
<1> QED
  BY <1>1, StartInvariant, ShapeInvStep, PTL DEF Spec

\* How an operation comes to be concluded, and that it stays so.
LEMMA TerminalKept ==
  ASSUME TypeOK, StartInv, ShapeInv, [Next]_vars, NEW o \in Ops, HasTerminal(o)
  PROVE  stream'[o] = stream[o] /\ HasTerminal(o)' /\ LastType(o)' = LastType(o)
<1>1. stream'[o] = stream[o]
  BY HistorySteps, ShapeFacts DEF HistoryStep
<1> QED
  BY <1>1 DEF HasTerminal, LastType

LEMMA Concluded ==
  ASSUME TypeOK, StartInv, ShapeInv, [Next]_vars, NEW o \in Ops,
         ~HasTerminal(o), HasTerminal(o)'
  PROVE  \/ \E c \in Calls : /\ OpOf(c) = o /\ RecordCancellation(c) /\ stream[o] = <<>>
                             /\ LastType(o)' = "ExecutionCancelled"
         \/ \E c \in Calls, type \in TerminalEvents :
              /\ OpOf(c) = o /\ Settles(c) /\ ConcludeStep(c, type) /\ Proven(c, type)
              /\ LastType(o)' = type
<1>1. stream'[o] # stream[o]
  BY DEF HasTerminal
<1>2. ASSUME NEW c \in Calls, AppendStart(c)
      PROVE  FALSE
  <2>1. stream'[o] = StartFacts(c)
    BY <1>1, <1>2, AppendStartLedger DEF TypeOK
  <2> QED
    BY <2>1 DEF HasTerminal, StartFacts, Fact, TerminalEvents
<1>3. ASSUME NEW c \in Calls, RecordCancellation(c)
      PROVE  /\ OpOf(c) = o /\ stream[o] = <<>>
             /\ LastType(o)' = "ExecutionCancelled"
  <2>1. /\ stream'[o] = Append(StartFacts(c), Fact(c, "ExecutionCancelled"))
        /\ OpOf(c) = o /\ stream[o] = <<>>
    BY <1>1, <1>3, RecordCancellationLedger DEF TypeOK
  <2> QED
    BY <2>1 DEF LastType, StartFacts, Fact
<1>4. ASSUME NEW c \in Calls, NEW type \in TerminalEvents, ConcludeStep(c, type)
      PROVE  OpOf(c) = o /\ LastType(o)' = type
  <2>1. OpOf(c) = o /\ Len(stream'[o]) = 3 /\ stream'[o][3] = Fact(c, type)
    BY <1>1, <1>4, ConcludeStepLedger
  <2> QED
    BY <2>1 DEF LastType, Fact
<1> QED
  BY <1>1, <1>2, <1>3, <1>4, WorldSteps DEF WorldStep, Settles, Dispatch, stores, ProviderPerforms

-----------------------------------------------------------------------------
(* Definite outcomes.                                                      *)

Definite(o) ==
  /\ LastType(o) = "ExecutionSucceeded" =>
       \E c \in Calls : provider[c] = "performed" /\ OpOf(c) = o
  /\ Mutating(o) /\ LastType(o) \in {"ExecutionFailed", "ExecutionCancelled"} =>
       \A c \in Calls : Dispatched(c) /\ OpOf(c) = o => provider[c] = "stopped"

\* A concluded operation is never dispatched again, and the provider's final
\* states stay what they are.
LEMMA DefiniteKept ==
  ASSUME TypeOK, StartInv, ShapeInv, [Next]_vars, NEW o \in Ops, HasTerminal(o), Definite(o)
  PROVE  Definite(o)'
<1>1. LastType(o)' = LastType(o) /\ Len(stream[o]) = 3
  BY TerminalKept, ShapeFacts
<1>2. ASSUME NEW c \in Calls, provider[c] = "performed", OpOf(c) = o
      PROVE  provider'[c] = "performed" /\ OpOf(c)' = o
  BY <1>2, ProviderSteps DEF Dispatched
<1>3. ASSUME NEW c \in Calls, Dispatched(c)', OpOf(c)' = o,
             \A d \in Calls : Dispatched(d) /\ OpOf(d) = o => provider[d] = "stopped"
      PROVE  provider'[c] = "stopped"
  <2>1. OpOf(c) = o /\ (Dispatched(c) \/ Dispatch(c))
    BY <1>3, ProviderSteps
  <2>2. ~Dispatch(c)
    BY <1>1, <2>1 DEF Dispatch, Goto, StartInv
  <2> QED
    BY <1>3, <2>1, <2>2, ProviderSteps
<1> QED
  BY <1>1, <1>2, <1>3 DEF Definite, Mutating

LEMMA DefiniteMade ==
  ASSUME TypeOK, StartInv, ShapeInv, [Next]_vars, NEW o \in Ops,
         ~HasTerminal(o), HasTerminal(o)'
  PROVE  Definite(o)'
<1>1. ASSUME NEW c \in Calls, OpOf(c) = o, RecordCancellation(c), stream[o] = <<>>,
             LastType(o)' = "ExecutionCancelled"
      PROVE  Definite(o)'
  <2>1. ASSUME NEW d \in Calls, OpOf(d)' = o
        PROVE  ~Dispatched(d)'
    <3>1. OpOf(d) = o /\ provider' = provider
      BY <1>1, <2>1 DEF RecordCancellation, OpOf
    <3>2. ~Dispatched(d)
      BY <1>1, <3>1 DEF StartInv, Started
    <3> QED
      BY <3>1, <3>2 DEF Dispatched
  <2> QED
    BY <1>1, <2>1 DEF Definite
<1>2. ASSUME NEW c \in Calls, NEW type \in TerminalEvents, OpOf(c) = o, Settles(c),
             ConcludeStep(c, type), Proven(c, type), LastType(o)' = type
      PROVE  Definite(o)'
  <2>1. Started(c) /\ OpOf(c)' = o /\ UNCHANGED request
    BY <1>2 DEF Settles, StartInv, OpOf
  <2>2. ASSUME NEW d \in Calls, Dispatched(d)', OpOf(d)' = o
        PROVE  d = c
    <3>1. OpOf(d) = o /\ ~Dispatch(d)
      BY <1>2, <2>1, <2>2 DEF OpOf, Dispatch, Goto, ConcludeStep, TypeOK
    <3>2. Started(d)
      BY <2>2, <3>1, ProviderSteps DEF StartInv
    <3> QED
      BY <1>2, <2>1, <3>1, <3>2, StartedOnce
  <2>3. CASE type = "ExecutionSucceeded"
    BY <1>2, <2>1, <2>3 DEF Proven, Definite
  <2>4. CASE type = "ExecutionFailed"
    BY <1>2, <2>2, <2>4 DEF Proven, Definite, Mutating
  <2>5. CASE type = "ExecutionCancelled"
    <3>1. CASE pc[c] = "started"
      <4>1. provider[c] = "idle" /\ provider' = provider
        BY <1>2, <3>1 DEF StartInv, Dispatched, Settles
      <4> QED
        BY <1>2, <2>2, <2>5, <4>1 DEF Definite, Dispatched
    <3>2. CASE provider'[c] = "stopped"
      BY <1>2, <2>2, <2>5, <3>2 DEF Definite
    <3> QED
      BY <1>2, <2>5, <3>1, <3>2 DEF Proven
  <2>6. CASE type = "ExecutionOutcomeUncertain"
    BY <1>2, <2>6 DEF Definite
  <2> QED
    BY <2>3, <2>4, <2>5, <2>6 DEF TerminalEvents
<1> QED
  BY <1>1, <1>2, Concluded

\* A definite terminal fact is true of the world, now and ever after: success
\* of an effect that happened, failure and cancellation of a mutation of an
\* effect that no dispatch of it can have any more.
THEOREM OutcomesAreTrue == Spec => []DefiniteOutcomeIsTrue
<1>1. Init => DefiniteOutcomeIsTrue
  BY DEF Init, DefiniteOutcomeIsTrue, HasTerminal
<1>2. TypeOK /\ StartInv /\ ShapeInv /\ DefiniteOutcomeIsTrue /\ [Next]_vars
        => DefiniteOutcomeIsTrue'
  <2> SUFFICES ASSUME TypeOK, StartInv, ShapeInv, DefiniteOutcomeIsTrue, [Next]_vars,
                      NEW o \in Ops, HasTerminal(o)'
               PROVE  Definite(o)'
    BY DEF DefiniteOutcomeIsTrue, Definite
  <2>1. CASE HasTerminal(o)
    <3>1. Definite(o)
      BY <2>1 DEF DefiniteOutcomeIsTrue, Definite
    <3> QED
      BY <2>1, <3>1, DefiniteKept
  <2>2. CASE ~HasTerminal(o)
    BY <2>2, DefiniteMade
  <2> QED
    BY <2>1, <2>2
<1> QED
  BY <1>1, <1>2, ShapeInvariant, PTL DEF Spec

-----------------------------------------------------------------------------
(* Answers.                                                                *)

\* Facts are written by calls that got past their start; nobody writes one
\* after it was answered.
AuthorInv ==
  \A o \in Ops : \A i \in 1..Len(stream[o]) :
    stream[o][i].by \in {c \in Calls : pc[c] \in {"started", "dispatched", "done", "crashed"}}

LEMMA NewFacts ==
  ASSUME TypeOK, [Next]_vars, NEW o \in Ops, NEW i \in 1..Len(stream'[o])
  PROVE  \/ i \in 1..Len(stream[o]) /\ stream'[o][i] = stream[o][i]
         \/ \E c \in Calls : /\ stream'[o][i].by = c
                             /\ pc[c] \in {"authorize", "record", "started", "dispatched"}
                             /\ pc'[c] \in {"started", "done"}
<1>1. CASE stream'[o] = stream[o]
  BY <1>1
<1>2. ASSUME NEW c \in Calls, stream'[o] # stream[o], AppendStart(c)
      PROVE  /\ stream'[o][i].by = c
             /\ pc[c] = "authorize" /\ pc'[c] = "started"
  <2>1. stream'[o] = StartFacts(c)
    BY <1>2, AppendStartLedger DEF TypeOK
  <2>2. stream'[o][i].by = c
    BY <2>1 DEF StartFacts, Fact
  <2> QED
    BY <1>2, <2>2 DEF AppendStart, Goto, TypeOK
<1>3. ASSUME NEW c \in Calls, stream'[o] # stream[o], RecordCancellation(c)
      PROVE  /\ stream'[o][i].by = c
             /\ pc[c] = "record" /\ pc'[c] = "done"
  <2>1. stream'[o] = Append(StartFacts(c), Fact(c, "ExecutionCancelled"))
    BY <1>3, RecordCancellationLedger DEF TypeOK
  <2>2. stream'[o][i].by = c
    BY <2>1 DEF StartFacts, Fact
  <2> QED
    BY <1>3, <2>2 DEF RecordCancellation, Answer, TypeOK
<1>4. ASSUME NEW c \in Calls, NEW type \in TerminalEvents, ConcludeStep(c, type),
             stream'[o] # stream[o]
      PROVE  \/ i \in 1..Len(stream[o]) /\ stream'[o][i] = stream[o][i]
             \/ /\ stream'[o][i].by = c
                /\ pc[c] \in {"started", "dispatched"} /\ pc'[c] = "done"
  <2>1. /\ OpOf(c) = o /\ Len(stream[o]) = 2 /\ Len(stream'[o]) = 3
        /\ stream'[o][1] = stream[o][1] /\ stream'[o][2] = stream[o][2]
        /\ stream'[o][3] = Fact(c, type)
    BY <1>4, ConcludeStepLedger DEF ConcludeStep
  <2>2. CASE i = 3
    BY <1>4, <2>1, <2>2 DEF ConcludeStep, Fact, TypeOK
  <2>3. CASE i # 3
    BY <2>1, <2>3
  <2> QED
    BY <2>2, <2>3
<1> QED
  BY <1>1, <1>2, <1>3, <1>4, LedgerSteps DEF LedgerStep

LEMMA AuthorInvStep == TypeOK /\ TypeOK' /\ AuthorInv /\ [Next]_vars => AuthorInv'
<1> SUFFICES ASSUME TypeOK, TypeOK', AuthorInv, [Next]_vars, NEW o \in Ops,
                    NEW i \in 1..Len(stream'[o])
             PROVE  stream'[o][i].by \in
                      {c \in Calls : pc'[c] \in {"started", "dispatched", "done", "crashed"}}
  BY DEF AuthorInv
<1>1. ASSUME NEW c \in Calls, pc[c] \in {"started", "dispatched", "done", "crashed"}
      PROVE  pc'[c] \in {"started", "dispatched", "done", "crashed"}
  <2>1. CallMoves(c) /\ pc'[c] \in Running \cup {"idle", "done", "crashed"}
    BY CallSteps DEF TypeOK
  <2> QED
    BY <1>1, <2>1 DEF CallMoves, Running, Dispatch, Goto
<1> QED
  BY <1>1, NewFacts DEF AuthorInv

\* The answers that go with a terminal fact.
Answers(r, type) ==
  \/ r = ReplyOf(type)
  \/ r = "deadline" /\ type = "ExecutionCancelled"

\* How a call comes by its answer.
AnswerMoves(d) ==
  \/ reply'[d] = reply[d]
  \/ /\ reply'[d] \in {"rejected", "refused"}
     /\ pc[d] \in {"idle", "govern", "resolve", "authorize", "record"}
     /\ pc'[d] = "done" /\ UNCHANGED <<stream, provider>>
  \/ /\ reply'[d] = ReplayReply(d)
     /\ pc[d] = "govern" /\ pc'[d] = "done" /\ stream[OpOf(d)] # <<>>
     /\ UNCHANGED <<stream, provider>>
  \/ /\ reply'[d] = "in_doubt"
     /\ pc[d] \in {"started", "dispatched"} /\ pc'[d] = "done"
     /\ UNCHANGED stream
  \/ reply'[d] = "cancelled" /\ RecordCancellation(d) /\ pc'[d] = "done"
  \/ \E type \in TerminalEvents :
       ConcludeStep(d, type) /\ pc'[d] = "done" /\ Answers(reply'[d], type)

LEMMA ConcludeAnswers ==
  ASSUME TypeOK, NEW c \in Calls, pc[c] \in {"started", "dispatched"},
         UNCHANGED <<approvals, used, request, approval>>,
         NEW type \in TerminalEvents, NEW r, Conclude(c, type, r),
         Answers(r, type),
         NEW d \in Calls
  PROVE  AnswerMoves(d)
<1>1. pc' = [pc EXCEPT ![c] = "done"]
  BY DEF Conclude, Answer
<1>2. CASE d # c
  BY <1>2 DEF Conclude, Answer, AnswerMoves, TypeOK
<1>3. CASE d = c
  <2>1. CASE Answer(c, "in_doubt") /\ UNCHANGED stream
    BY <1>3, <2>1 DEF Answer, AnswerMoves, TypeOK
  <2>2. CASE /\ AtVersion(OpOf(c), 2)
             /\ stream' = [stream EXCEPT ![OpOf(c)] = Append(@, Fact(c, type))]
             /\ Answer(c, r)
    <3>1. ConcludeStep(c, type)
      BY <2>2 DEF AtVersion, Answer, ConcludeStep
    <3>2. reply'[c] = r /\ pc'[c] = "done"
      BY <2>2 DEF Answer, TypeOK
    <3> QED
      BY <1>3, <3>1, <3>2 DEF AnswerMoves
  <2> QED
    BY <2>1, <2>2 DEF Conclude
<1> QED
  BY <1>2, <1>3

LEMMA AnswerSteps ==
  ASSUME TypeOK, [Next]_vars, NEW d \in Calls
  PROVE  AnswerMoves(d)
<1>1. CASE UNCHANGED reply
  BY <1>1 DEF AnswerMoves
<1>2. CASE StoreStep
  BY <1>1, <1>2 DEF StoreStep, IssueApproval, ActivateApproval, ExpireApproval, callVars
<1>3. ASSUME NEW c \in Calls, CallerStep(c) \/ DeadlinePasses(c) \/ Crash(c)
      PROVE  AnswerMoves(d)
  <2>1. ASSUME NEW r \in Requests, Submit(c, r) PROVE AnswerMoves(d)
    <3>1. pc[c] = "idle" /\ UNCHANGED <<stream, provider>>
      BY <2>1 DEF Submit, stores
    <3>2. CASE Answer(c, "refused")
      BY <3>1, <3>2 DEF Answer, AnswerMoves, TypeOK
    <3> QED
      BY <1>1, <2>1, <3>2 DEF Submit
  <2> QED
    BY <1>1, <1>3, <2>1 DEF CallerStep, AbortSignal, DeadlinePasses, Crash
<1>4. ASSUME NEW c \in Calls, RuntimeStep(c)
      PROVE  AnswerMoves(d)
  <2>1. CASE Deny(c) \/ StartFails(c) \/ CancellationFails(c)
    BY <2>1 DEF Deny, StartFails, CancellationFails, Answer, AnswerMoves, TypeOK, stores
  <2>2. CASE ReadExisting(c)
    <3>1. CASE stream[OpOf(c)] # <<>> /\ Answer(c, ReplayReply(c))
      BY <2>2, <3>1 DEF ReadExisting, Answer, AnswerMoves, TypeOK, stores
    <3> QED
      BY <1>1, <2>2, <3>1 DEF ReadExisting
  <2>3. CASE ResolveApproval(c)
    <3>1. CASE Answer(c, "rejected")
      BY <2>3, <3>1 DEF ResolveApproval, Answer, AnswerMoves, TypeOK, stores
    <3> QED
      BY <1>1, <2>3, <3>1 DEF ResolveApproval
  <2>4. CASE AppendStart(c) \/ Dispatch(c)
    BY <1>1, <2>4 DEF AppendStart, Dispatch
  <2>5. CASE CancelBeforeDispatch(c) \/ DeadlineFires(c)
    <3>1. PICK type, r :
            /\ type \in TerminalEvents
            /\ Conclude(c, type, r)
            /\ Answers(r, type)
      BY <2>5 DEF CancelBeforeDispatch, DeadlineFires, Answers, ReplyOf, TerminalEvents
    <3>2. /\ pc[c] \in {"started", "dispatched"}
          /\ UNCHANGED <<approvals, used, request, approval>>
      BY <2>5 DEF CancelBeforeDispatch, DeadlineFires
    <3> QED
      BY <3>1, <3>2, ConcludeAnswers
  <2>6. CASE RecordCancellation(c)
    BY <2>6 DEF RecordCancellation, Answer, AnswerMoves, TypeOK
  <2> QED
    BY <1>4, <2>1, <2>2, <2>3, <2>4, <2>5, <2>6 DEF RuntimeStep
<1>5. ASSUME NEW c \in Calls, ProviderStep(c)
      PROVE  AnswerMoves(d)
  <2>1. CASE ProviderReturns(c) \/ ProviderThrows(c)
    <3>1. PICK type \in TerminalEvents : Conclude(c, type, ReplyOf(type))
      BY <2>1, OutcomeTypes DEF ProviderReturns, ProviderThrows, TerminalEvents, ReplyOf
    <3>2. pc[c] = "dispatched" /\ UNCHANGED <<approvals, used, request, approval>>
      BY <2>1 DEF ProviderReturns, ProviderThrows
    <3> QED
      BY <3>1, <3>2, ConcludeAnswers DEF Answers
  <2> QED
    BY <1>1, <1>5, <2>1 DEF ProviderStep, ProviderPerforms, callVars
<1> QED
  BY <1>1, <1>2, <1>3, <1>4, <1>5 DEF Next, vars

\* What ReplyAgreesWithLedger says of one call; a call is answered when it is
\* done with, and a definite answer comes from a stream that is closed.
AgreesWithLedger(c) ==
  /\ reply[c] = "succeeded" => LastType(OpOf(c)) = "ExecutionSucceeded"
  /\ reply[c] = "failed" => LastType(OpOf(c)) = "ExecutionFailed"
  /\ reply[c] \in {"cancelled", "deadline"} => LastType(OpOf(c)) = "ExecutionCancelled"
  /\ reply[c] \in {"in_doubt", "conflict"} => stream[OpOf(c)] # <<>>
  /\ reply[c] \in {"rejected", "refused", "conflict"} =>
       /\ ~Dispatched(c)
       /\ \A i \in 1..Len(stream[OpOf(c)]) : stream[OpOf(c)][i].by # c

DefiniteReplies == {"succeeded", "failed", "cancelled", "deadline"}

Settled(c) ==
  /\ reply[c] # None => pc[c] = "done"
  /\ reply[c] \in DefiniteReplies => HasTerminal(OpOf(c))
  /\ AgreesWithLedger(c)

\* An answer that was given stays right: the stream of a definite answer is
\* closed, and nobody writes or dispatches in the name of a rejected call.
LEMMA SettledKept ==
  ASSUME TypeOK, StartInv, ShapeInv, [Next]_vars, NEW d \in Calls,
         Settled(d), reply'[d] = reply[d]
  PROVE  Settled(d)'
<1>1. CASE reply[d] = None
  BY <1>1, NoReplyAssumption DEF Settled, AgreesWithLedger, DefiniteReplies, Replies
<1>2. CASE reply[d] # None
  <2>1. /\ pc[d] = "done" /\ pc'[d] = "done"
        /\ OpOf(d) \in Ops /\ OpOf(d)' = OpOf(d)
    <3>1. pc[d] = "done" /\ CallMoves(d)
      BY <1>2, CallSteps DEF Settled
    <3> QED
      BY <3>1, RequestFields DEF CallMoves, OpOf, TypeOK
  <2>2. reply[d] \in DefiniteReplies => /\ HasTerminal(OpOf(d))'
                                        /\ LastType(OpOf(d))' = LastType(OpOf(d))
    <3>1. ASSUME NEW o \in Ops, HasTerminal(o)
          PROVE  HasTerminal(o)' /\ LastType(o)' = LastType(o)
      BY <3>1, TerminalKept
    <3> QED
      BY <2>1, <3>1 DEF Settled, HasTerminal, LastType
  <2>3. stream[OpOf(d)] # <<>> => stream'[OpOf(d)] # <<>>
    BY <2>1, FirstFact
  <2>4. ~Dispatched(d) => ~Dispatched(d)'
    BY <2>1, ProviderSteps DEF Dispatch, Goto
  <2>5. ASSUME NEW i \in 1..Len(stream'[OpOf(d)]), stream'[OpOf(d)][i].by = d
        PROVE  i \in 1..Len(stream[OpOf(d)]) /\ stream[OpOf(d)][i].by = d
    BY <2>1, <2>5, NewFacts
  <2> QED
    BY <2>1, <2>2, <2>3, <2>4, <2>5 DEF Settled, AgreesWithLedger, DefiniteReplies
<1> QED
  BY <1>1, <1>2

\* The answer read from the ledger by a call that finds its operation there.
LEMMA ReplayIsTrue ==
  ASSUME TypeOK, ShapeInv, NEW d \in Calls, OpOf(d) \in Ops, stream[OpOf(d)] # <<>>
  PROVE  /\ ReplayReply(d) \in DefiniteReplies \cup {"in_doubt", "conflict"}
         /\ ReplayReply(d) \in DefiniteReplies => HasTerminal(OpOf(d))
         /\ ReplayReply(d) = "succeeded" => LastType(OpOf(d)) = "ExecutionSucceeded"
         /\ ReplayReply(d) = "failed" => LastType(OpOf(d)) = "ExecutionFailed"
         /\ ReplayReply(d) = "cancelled" => LastType(OpOf(d)) = "ExecutionCancelled"
         /\ ReplayReply(d) # "deadline"
<1>1. HasTerminal(OpOf(d)) => LastType(OpOf(d)) \in TerminalEvents
  BY ShapeFacts
<1> QED
  BY <1>1 DEF ReplayReply, DefiniteReplies, TerminalEvents

LEMMA SettledMade ==
  ASSUME TypeOK, StartInv, ShapeInv, AuthorInv, [Next]_vars, NEW d \in Calls,
         reply'[d] # reply[d], AnswerMoves(d)
  PROVE  Settled(d)'
<1>1. CASE /\ reply'[d] \in {"rejected", "refused"}
           /\ pc[d] \in {"idle", "govern", "resolve", "authorize", "record"}
           /\ pc'[d] = "done" /\ UNCHANGED <<stream, provider>>
  <2>1. ~Dispatched(d)'
    BY <1>1 DEF StartInv, Dispatched
  <2>2. OpOf(d)' \in Ops => \A i \in 1..Len(stream'[OpOf(d)']) : stream'[OpOf(d)'][i].by # d
    BY <1>1 DEF AuthorInv
  <2>3. OpOf(d)' \in Ops
    <3>1. TypeOK'
      BY StoreStepType, CallerStepType, RuntimeStepType, ProviderStepType DEF Next, vars, TypeOK
    <3>2. request'[d] \in Requests
      BY <1>1, <3>1 DEF TypeOK
    <3> QED
      BY <3>2, ConstantsAssumption DEF OpOf
  <2> QED
    BY <1>1, <2>1, <2>2, <2>3 DEF Settled, AgreesWithLedger, DefiniteReplies
<1>2. CASE /\ reply'[d] = ReplayReply(d)
           /\ pc[d] = "govern" /\ pc'[d] = "done" /\ stream[OpOf(d)] # <<>>
           /\ UNCHANGED <<stream, provider>>
  <2>1. OpOf(d) \in Ops /\ OpOf(d)' = OpOf(d)
    <3>1. CallMoves(d)
      BY CallSteps
    <3> QED
      BY <1>2, <3>1, RequestFields DEF CallMoves, OpOf, TypeOK
  <2>2. ~Dispatched(d)'
    BY <1>2 DEF StartInv, Dispatched
  <2>3. \A i \in 1..Len(stream[OpOf(d)]) : stream[OpOf(d)][i].by # d
    BY <1>2, <2>1 DEF AuthorInv
  <2>4. /\ HasTerminal(OpOf(d))' <=> HasTerminal(OpOf(d))
        /\ LastType(OpOf(d))' = LastType(OpOf(d))
    BY <1>2, <2>1 DEF HasTerminal, LastType
  <2> QED
    BY <1>2, <2>1, <2>2, <2>3, <2>4, ReplayIsTrue DEF Settled, AgreesWithLedger, DefiniteReplies
<1>3. CASE /\ reply'[d] = "in_doubt"
           /\ pc[d] \in {"started", "dispatched"} /\ pc'[d] = "done"
           /\ UNCHANGED stream
  <2>1. OpOf(d)' = OpOf(d)
    <3>1. CallMoves(d)
      BY CallSteps
    <3> QED
      BY <1>3, <3>1 DEF CallMoves, OpOf
  <2>2. stream[OpOf(d)] # <<>>
    BY <1>3 DEF StartInv, Started
  <2> QED
    BY <1>3, <2>1, <2>2 DEF Settled, AgreesWithLedger, DefiniteReplies
<1>4. CASE reply'[d] = "cancelled" /\ RecordCancellation(d) /\ pc'[d] = "done"
  <2>1. /\ OpOf(d)' = OpOf(d)
        /\ stream'[OpOf(d)] = Append(StartFacts(d), Fact(d, "ExecutionCancelled"))
    BY <1>4, RecordCancellationLedger DEF OpOf, TypeOK
  <2>2. HasTerminal(OpOf(d))' /\ LastType(OpOf(d))' = "ExecutionCancelled"
    <3>1. /\ Len(stream'[OpOf(d)]) = 3
          /\ stream'[OpOf(d)][3].type = "ExecutionCancelled"
      BY <2>1 DEF StartFacts, Fact
    <3> QED
      BY <2>1, <3>1 DEF HasTerminal, LastType, TerminalEvents
  <2> QED
    BY <1>4, <2>2 DEF Settled, AgreesWithLedger, DefiniteReplies
<1>5. ASSUME NEW type \in TerminalEvents, ConcludeStep(d, type), pc'[d] = "done",
             Answers(reply'[d], type)
      PROVE  Settled(d)'
  <2>1. OpOf(d)' = OpOf(d) /\ Len(stream'[OpOf(d)]) = 3 /\ stream'[OpOf(d)][3] = Fact(d, type)
    BY <1>5, ConcludeStepLedger DEF ConcludeStep, OpOf
  <2>2. HasTerminal(OpOf(d))' /\ LastType(OpOf(d))' = type /\ stream'[OpOf(d)] # <<>>
    BY <2>1 DEF HasTerminal, LastType, Fact
  <2>3. /\ reply'[d] = "succeeded" => type = "ExecutionSucceeded"
        /\ reply'[d] = "failed" => type = "ExecutionFailed"
        /\ reply'[d] \in {"cancelled", "deadline"} => type = "ExecutionCancelled"
        /\ reply'[d] \in DefiniteReplies \cup {"in_doubt"}
    BY <1>5 DEF Answers, ReplyOf, TerminalEvents, DefiniteReplies
  <2>4. AgreesWithLedger(d)'
    BY <2>1, <2>2, <2>3 DEF AgreesWithLedger, DefiniteReplies
  <2> QED
    BY <1>5, <2>2, <2>4 DEF Settled
<1> QED
  BY <1>1, <1>2, <1>3, <1>4, <1>5 DEF AnswerMoves

\* Whatever a caller is told of an outcome is, then and at every later
\* moment, what the ledger holds; a rejected call left no fact and dispatched
\* nothing.
THEOREM RepliesAreTrue == Spec => []ReplyAgreesWithLedger
<1> DEFINE SettledInv == \A c \in Calls : Settled(c)
<1>1. Init => AuthorInv /\ SettledInv
  BY NoReplyAssumption
     DEF Init, AuthorInv, Settled, AgreesWithLedger, DefiniteReplies, Replies
<1>2. /\ TypeOK /\ StartInv /\ ShapeInv /\ AuthorInv /\ SettledInv
      /\ [Next]_vars
      => SettledInv'
  BY AnswerSteps, SettledKept, SettledMade
<1>3. SettledInv => ReplyAgreesWithLedger
  BY DEF Settled, AgreesWithLedger, ReplyAgreesWithLedger
<1> HIDE DEF SettledInv
<1> QED
  BY <1>1, <1>2, <1>3, ShapeInvariant, AuthorInvStep, PTL DEF Spec

-----------------------------------------------------------------------------
(* The refinement of AtMostOnceOperation.                                  *)

\* Between dispatch and its outcome the provider runs or has had its effect.
ProviderInv ==
  \A c \in Calls : pc[c] = "dispatched" => provider[c] \in {"running", "performed"}

LEMMA ProviderInvStep ==
  TypeOK /\ StartInv /\ ProviderInv /\ [Next]_vars => ProviderInv'
<1> SUFFICES ASSUME TypeOK, StartInv, ProviderInv, [Next]_vars,
                    NEW d \in Calls, pc'[d] = "dispatched"
             PROVE  provider'[d] \in {"running", "performed"}
  BY DEF ProviderInv
<1>1. ASSUME Dispatch(d)
      PROVE  provider'[d] \in {"running", "performed"}
  BY <1>1 DEF Dispatch, TypeOK
<1>2. ASSUME pc[d] = "dispatched"
      PROVE  provider'[d] \in {"running", "performed"}
  <2>1. provider[d] \in {"running", "performed"}
    BY <1>2 DEF ProviderInv
  <2>2. ASSUME NEW c \in Calls, Dispatch(c) PROVE provider'[d] = provider[d]
    BY <1>2, <2>2 DEF Dispatch, Goto, TypeOK
  <2>3. ASSUME NEW c \in Calls, Settles(c) PROVE provider'[d] = provider[d]
    BY <2>3 DEF Settles, TypeOK
  <2>4. ASSUME NEW c \in Calls, ProviderPerforms(c)
        PROVE  provider'[d] \in {provider[d], "performed"}
    BY <2>4 DEF ProviderPerforms, TypeOK
  <2> QED
    BY <2>1, <2>2, <2>3, <2>4, WorldSteps DEF WorldStep, AppendStart, RecordCancellation
<1>3. Dispatch(d) \/ pc[d] = "dispatched"
  BY CallSteps DEF CallMoves
<1> QED
  BY <1>1, <1>2, <1>3

\* The refinement mapping of ImplementsOperation.
AbstractStatus == [o \in Ops |-> Status(o)]
AbstractEffect == [o \in Ops |-> Effect(o)]

LEMMA OneDispatch ==
  /\ StartInv => AtMostOneDispatch
  /\ StartInv' => AtMostOneDispatch'
<1>1. StartInv => AtMostOneDispatch
  BY StartedOnce DEF StartInv, AtMostOneDispatch
<1>2. ASSUME StartInv' PROVE AtMostOneDispatch'
  <2> SUFFICES ASSUME NEW c \in Calls, NEW d \in Calls,
                      Dispatched(c)', Dispatched(d)', OpOf(c)' = OpOf(d)'
               PROVE  c = d
    BY DEF AtMostOneDispatch
  <2>1. Started(c)' /\ Started(d)'
    BY <1>2 DEF StartInv
  <2>2. Fact(c, "ExecutionAuthorized")'.by = Fact(d, "ExecutionAuthorized")'.by
    BY <2>1 DEF Started
  <2> QED
    BY <2>2 DEF Fact
<1> QED
  BY <1>1, <1>2

\* How the provider's side of the one dispatch of an operation is seen.
EffectOf(p) ==
  CASE p = "performed" -> "performed"
    [] p = "running"   -> "possible"
    [] p = "stopped"   -> "prevented"
    [] OTHER           -> "none"

LEMMA EffectOfDispatched ==
  ASSUME TypeOK, AtMostOneDispatch, NEW c \in Calls, Dispatched(c)
  PROVE  Effect(OpOf(c)) = EffectOf(provider[c])
<1>1. \A d \in Calls : Dispatched(d) /\ OpOf(d) = OpOf(c) => d = c
  BY DEF AtMostOneDispatch
<1> QED
  BY <1>1 DEF Effect, EffectOf, Dispatched, TypeOK

LEMMA EffectOfDispatchedNext ==
  ASSUME TypeOK', AtMostOneDispatch', NEW c \in Calls, Dispatched(c)'
  PROVE  Effect(OpOf(c))' = EffectOf(provider'[c])
<1>1. \A d \in Calls : Dispatched(d)' /\ OpOf(d)' = OpOf(c)' => d = c
  BY DEF AtMostOneDispatch
<1> QED
  BY <1>1 DEF Effect, EffectOf, Dispatched, TypeOK

LEMMA EffectOfUndispatched ==
  ASSUME NEW o, \A c \in Calls : OpOf(c) = o => ~Dispatched(c)
  PROVE  Effect(o) = "none"
  BY DEF Effect, Dispatched

\* Only the dispatched calls of an operation bear on its effect.
LEMMA EffectKept ==
  ASSUME TypeOK, StartInv, [Next]_vars, NEW o \in Ops,
         \A c \in Calls : OpOf(c)' = o => provider'[c] = provider[c]
  PROVE  Effect(o)' = Effect(o)
<1>1. ASSUME NEW c \in Calls, NEW p \in {"running", "performed", "stopped"}
      PROVE  (provider[c] = p /\ OpOf(c) = o) <=> (provider'[c] = p /\ OpOf(c)' = o)
  BY <1>1, ProviderSteps DEF Dispatched
<1> QED
  BY <1>1 DEF Effect

LEMMA StatusFacts ==
  ASSUME TypeOK, ShapeInv, NEW o \in Ops
  PROVE  /\ stream[o] = <<>> => Status(o) = "absent"
         /\ Len(stream[o]) = 2 => Status(o) = "begun"
         /\ HasTerminal(o) => Status(o) = LastType(o)
  BY ShapeFacts DEF Status

LEMMA StatusFactsNext ==
  ASSUME NEW o \in Ops
  PROVE  /\ stream'[o] = stream[o] => Status(o)' = Status(o)
         /\ HasTerminal(o)' => Status(o)' = LastType(o)'
         /\ \A c : stream'[o] = StartFacts(c) => Status(o)' = "begun"
  BY DEF Status, HasTerminal, LastType, StartFacts, Fact, TerminalEvents

RefinementInv == TypeOK /\ StartInv /\ ShapeInv /\ ProviderInv

\* A step that leaves an operation's stream and its dispatch alone is none of
\* its business.
LEMMA OthersKept ==
  ASSUME TypeOK, StartInv, [Next]_vars, NEW o \in Ops,
         \A p \in Ops : p # o => stream'[p] = stream[p],
         \A c \in Calls : OpOf(c)' # o => provider'[c] = provider[c]
  PROVE  \A p \in Ops : p # o => Status(p)' = Status(p) /\ Effect(p)' = Effect(p)
BY EffectKept, StatusFactsNext

LEMMA BeginStep ==
  ASSUME RefinementInv, [Next]_vars, NEW o \in Ops,
         NEW c \in Calls, OpOf(c) = o, AppendStart(c)
  PROVE  Operation!Begin(o)
<1> USE DEF RefinementInv
<1>1. /\ stream[o] = <<>> /\ UNCHANGED provider
      /\ stream' = [stream EXCEPT ![o] = StartFacts(c)]
  BY AppendStartLedger DEF AppendStart
<1>2. /\ stream'[o] = StartFacts(c)
      /\ \A p \in Ops : p # o => stream'[p] = stream[p]
  BY <1>1 DEF TypeOK
<1>3. Status(o) = "absent" /\ Status(o)' = "begun"
  BY <1>1, <1>2, StatusFacts, StatusFactsNext
<1>4. \A p \in Ops : (p # o => Status(p)' = Status(p)) /\ Effect(p)' = Effect(p)
  BY <1>1, <1>2, OthersKept, EffectKept
<1> QED
  BY <1>3, <1>4 DEF Operation!Begin

LEMMA AbandonStep ==
  ASSUME RefinementInv, [Next]_vars, NEW o \in Ops,
         NEW c \in Calls, OpOf(c) = o, RecordCancellation(c)
  PROVE  Operation!Abandon(o)
<1> USE DEF RefinementInv
<1>1. /\ stream[o] = <<>> /\ UNCHANGED provider
      /\ stream' = [stream EXCEPT ![o] = Append(StartFacts(c), Fact(c, "ExecutionCancelled"))]
  BY RecordCancellationLedger DEF RecordCancellation
<1>2. /\ stream'[o] = Append(StartFacts(c), Fact(c, "ExecutionCancelled"))
      /\ \A p \in Ops : p # o => stream'[p] = stream[p]
  BY <1>1 DEF TypeOK
<1>3. HasTerminal(o)' /\ LastType(o)' = "ExecutionCancelled"
  BY <1>2 DEF HasTerminal, LastType, StartFacts, Fact, TerminalEvents
<1>4. Status(o) = "absent" /\ Status(o)' = "ExecutionCancelled"
  BY <1>1, <1>3, StatusFacts, StatusFactsNext
<1>5. \A p \in Ops : (p # o => Status(p)' = Status(p)) /\ Effect(p)' = Effect(p)
  BY <1>1, <1>2, OthersKept, EffectKept
<1> QED
  BY <1>4, <1>5 DEF Operation!Abandon

LEMMA ReleaseStep ==
  ASSUME RefinementInv, RefinementInv', [Next]_vars, NEW o \in Ops,
         NEW c \in Calls, OpOf(c) = o, Dispatch(c)
  PROVE  Operation!Release(o)
<1> USE DEF RefinementInv
<1>1. /\ pc[c] = "started" /\ UNCHANGED <<stream, request>>
      /\ provider' = [provider EXCEPT ![c] = "running"]
  BY DEF Dispatch, Goto, stores
<1>2. Started(c) /\ Len(stream[o]) = 2 /\ ~Dispatched(c)
  BY <1>1 DEF StartInv
<1>3. Status(o) = "begun" /\ \A p \in Ops : Status(p)' = Status(p)
  BY <1>1, <1>2, StatusFacts, StatusFactsNext
<1>4. Effect(o) = "none"
  BY <1>2, StartedOnce, EffectOfUndispatched DEF StartInv
<1>5. Effect(o)' = "possible"
  <2>1. provider'[c] = "running" /\ OpOf(c)' = o
    BY <1>1 DEF OpOf, TypeOK
  <2>2. Dispatched(c)' /\ AtMostOneDispatch'
    BY <2>1, OneDispatch DEF Dispatched
  <2>3. Effect(OpOf(c))' = EffectOf(provider'[c])
    BY <2>2, EffectOfDispatchedNext
  <2> QED
    BY <2>1, <2>3 DEF EffectOf, Effect
<1>6. \A p \in Ops : p # o => Effect(p)' = Effect(p)
  BY <1>1, OthersKept DEF OpOf, TypeOK
<1> QED
  BY <1>3, <1>4, <1>5, <1>6 DEF Operation!Release

LEMMA PerformStep ==
  ASSUME RefinementInv, RefinementInv', [Next]_vars, NEW o \in Ops,
         NEW c \in Calls, OpOf(c) = o, ProviderPerforms(c)
  PROVE  Operation!Perform(o)
<1> USE DEF RefinementInv
<1>1. /\ provider[c] = "running" /\ UNCHANGED <<stream, request>>
      /\ provider' = [provider EXCEPT ![c] = "performed"]
  BY DEF ProviderPerforms, stores, callVars
<1>2. provider'[c] = "performed" /\ OpOf(c)' = o
  BY <1>1 DEF OpOf, TypeOK
<1>3. Effect(o) = "possible"
  BY <1>1, OneDispatch, EffectOfDispatched DEF EffectOf, Dispatched
<1>4. Effect(o)' = "performed"
  <2>1. Effect(OpOf(c))' = EffectOf(provider'[c])
    BY <1>2, OneDispatch, EffectOfDispatchedNext DEF Dispatched
  <2> QED
    BY <1>2, <2>1 DEF EffectOf, Effect
<1>5. \A p \in Ops : Status(p)' = Status(p) /\ (p # o => Effect(p)' = Effect(p))
  BY <1>1, OthersKept, StatusFactsNext DEF OpOf, TypeOK
<1> QED
  BY <1>3, <1>4, <1>5 DEF Operation!Perform

LEMMA PreventStep ==
  ASSUME RefinementInv, RefinementInv', [Next]_vars, NEW o \in Ops,
         NEW c \in Calls, OpOf(c) = o, Settles(c), UNCHANGED stream, provider' # provider
  PROVE  Operation!Prevent(o)
<1> USE DEF RefinementInv
<1>1. /\ pc[c] \in {"started", "dispatched"} /\ UNCHANGED request
      /\ provider[c] = "running" /\ provider' = [provider EXCEPT ![c] = "stopped"]
  BY DEF Settles
<1>2. provider'[c] = "stopped" /\ OpOf(c)' = o
  BY <1>1 DEF OpOf, TypeOK
<1>3. Effect(o) = "possible"
  BY <1>1, OneDispatch, EffectOfDispatched DEF EffectOf, Dispatched
<1>4. Effect(o)' = "prevented"
  <2>1. Effect(OpOf(c))' = EffectOf(provider'[c])
    BY <1>2, OneDispatch, EffectOfDispatchedNext DEF Dispatched
  <2> QED
    BY <1>2, <2>1 DEF EffectOf, Effect
<1>5. Status(o) = "begun"
  BY <1>1, StatusFacts DEF StartInv
<1>6. \A p \in Ops : Status(p)' = Status(p) /\ (p # o => Effect(p)' = Effect(p))
  BY <1>1, OthersKept, StatusFactsNext DEF OpOf, TypeOK
<1> QED
  BY <1>3, <1>4, <1>5, <1>6 DEF Operation!Prevent

\* The terminal fact fits the effect the provider is left with.
LEMMA ConcludeOperation ==
  ASSUME RefinementInv, RefinementInv', [Next]_vars, NEW o \in Ops,
         NEW c \in Calls, OpOf(c) = o, Settles(c),
         NEW type \in TerminalEvents, ConcludeStep(c, type), Proven(c, type)
  PROVE  Operation!Conclude(o)
<1> USE DEF RefinementInv
<1> DEFINE e == Effect(o)'
           readOnly == o \in {p \in Ops : ~Mutating(p)}
<1>1. /\ pc[c] \in {"started", "dispatched"} /\ UNCHANGED request /\ OpOf(c)' = o
      /\ \/ UNCHANGED provider
         \/ provider[c] = "running" /\ provider' = [provider EXCEPT ![c] = "stopped"]
  BY DEF Settles, OpOf
<1>2. /\ Len(stream[o]) = 2 /\ Len(stream'[o]) = 3 /\ stream'[o][3] = Fact(c, type)
      /\ \A p \in Ops : p # o => stream'[p] = stream[p]
  BY ConcludeStepLedger DEF ConcludeStep
<1>3. Status(o) = "begun" /\ Status(o)' = type
  <2>1. HasTerminal(o)' /\ LastType(o)' = type
    BY <1>2 DEF HasTerminal, LastType, Fact
  <2> QED
    BY <1>2, <2>1, StatusFacts, StatusFactsNext
<1>4. \A p \in Ops : p # o => Status(p)' = Status(p) /\ Effect(p)' = Effect(p)
  <2>1. \A d \in Calls : OpOf(d)' # o => provider'[d] = provider[d]
    BY <1>1 DEF TypeOK
  <2> HIDE DEF RefinementInv
  <2> QED
    BY <1>2, <2>1, OthersKept DEF RefinementInv
<1>5. /\ e \in {Effect(o), "prevented"}
      /\ e # Effect(o) => Effect(o) = "possible"
      /\ type \in Operation!Truthful(o, e) \/ (readOnly /\ type = "ExecutionFailed")
  <2>1. CASE pc[c] = "started"
    <3>1. ~Dispatched(c) /\ UNCHANGED provider
      BY <1>1, <2>1 DEF StartInv, Dispatched
    <3>2. Effect(o) = "none"
      BY <1>1, <3>1, StartedOnce, EffectOfUndispatched DEF StartInv
    <3>3. e = "none"
      BY <1>1, <3>1, <3>2, EffectKept
    <3>4. type = "ExecutionCancelled" \/ (readOnly /\ type = "ExecutionFailed")
      BY <2>1, <3>1 DEF Proven, Dispatched, TerminalEvents
    <3> HIDE DEF e, readOnly
    <3> QED
      BY <3>2, <3>3, <3>4 DEF Operation!Truthful
  <2>2. CASE pc[c] = "dispatched"
    <3>1. provider[c] \in {"running", "performed"}
      BY <2>2 DEF ProviderInv
    <3>2. Effect(o) = EffectOf(provider[c])
      BY <3>1, OneDispatch, EffectOfDispatched DEF Dispatched
    <3>3. provider'[c] \in {provider[c], "stopped"} /\ Dispatched(c)'
      BY <1>1, <3>1 DEF TypeOK, Dispatched
    <3>4. e = EffectOf(provider'[c])
      <4>1. Effect(OpOf(c))' = EffectOf(provider'[c])
        BY <3>3, OneDispatch, EffectOfDispatchedNext
      <4> QED
        BY <1>1, <4>1 DEF Effect
    <3>5. provider'[c] # provider[c] => provider[c] = "running" /\ provider'[c] = "stopped"
      BY <1>1, <3>1 DEF TypeOK
    <3>6. /\ type = "ExecutionSucceeded" => provider'[c] = "performed"
          /\ type = "ExecutionFailed" => provider'[c] = "stopped" \/ readOnly
          /\ type = "ExecutionCancelled" => provider'[c] = "stopped"
          /\ type = "ExecutionOutcomeUncertain" => provider'[c] = provider[c]
      BY <2>2 DEF Proven
    <3> HIDE DEF e, readOnly
    <3> QED
      BY <3>1, <3>2, <3>3, <3>4, <3>5, <3>6 DEF EffectOf, Operation!Truthful, TerminalEvents
  <2> QED
    BY <1>1, <2>1, <2>2
<1> QED
  BY <1>3, <1>4, <1>5 DEF Operation!Conclude, Operation!Outcomes, TerminalEvents

LEMMA StepRefines ==
  ASSUME RefinementInv, RefinementInv', [Next]_vars
  PROVE  Operation!Next \/ UNCHANGED <<AbstractStatus, AbstractEffect>>
<1> USE DEF RefinementInv
<1>1. CASE UNCHANGED <<stream, provider>>
  <2>1. \A o \in Ops : Status(o)' = Status(o) /\ Effect(o)' = Effect(o)
    BY <1>1, EffectKept, StatusFactsNext
  <2> QED
    BY <2>1 DEF AbstractStatus, AbstractEffect
<1>2. ASSUME NEW c \in Calls,
             \/ AppendStart(c) \/ RecordCancellation(c) \/ Dispatch(c)
             \/ Settles(c) \/ ProviderPerforms(c)
      PROVE  Operation!Next \/ UNCHANGED <<AbstractStatus, AbstractEffect>>
  <2>1. OpOf(c) \in Ops
    <3>1. pc[c] # "idle"
      BY <1>2 DEF AppendStart, RecordCancellation, Dispatch, Settles, ProviderPerforms, Goto,
                  StartInv, Dispatched
    <3> QED
      BY <3>1, RequestFields DEF TypeOK
  <2>2. CASE AppendStart(c) \/ RecordCancellation(c) \/ Dispatch(c) \/ ProviderPerforms(c)
    BY <2>1, <2>2, BeginStep, AbandonStep, ReleaseStep, PerformStep DEF Operation!Next
  <2>3. CASE Settles(c)
    <3>1. CASE UNCHANGED stream
      BY <1>1, <2>1, <2>3, <3>1, PreventStep DEF Operation!Next
    <3>2. CASE \E type \in TerminalEvents : ConcludeStep(c, type) /\ Proven(c, type)
      BY <2>1, <2>3, <3>2, ConcludeOperation DEF Operation!Next
    <3> QED
      BY <2>3, <3>1, <3>2 DEF Settles
  <2> QED
    BY <1>2, <2>2, <2>3
<1> QED
  BY <1>1, <1>2, WorldSteps DEF WorldStep

\* Concurrent, crashing and retried calls together implement, for each
\* operation, the one attempt of AtMostOnceOperation: begun once, with its
\* effect at most once, and concluded at most once by a fact that is true.
THEOREM ImplementsAtMostOnce == Spec => ImplementsOperation
<1>1. Init => Operation!Init
  BY EffectOfUndispatched DEF Init, Operation!Init, Status, Dispatched
<1>2. Init => ProviderInv
  BY DEF Init, ProviderInv
<1>3. Spec => []RefinementInv
  BY <1>2, ShapeInvariant, ProviderInvStep, PTL DEF Spec, RefinementInv
<1>4. RefinementInv /\ RefinementInv' /\ [Next]_vars
        => [Operation!Next]_<<[o \in Ops |-> Status(o)], [o \in Ops |-> Effect(o)]>>
  BY StepRefines DEF AbstractStatus, AbstractEffect
<1> QED
  BY <1>1, <1>3, <1>4, PTL DEF Spec, ImplementsOperation, Operation!Spec
=============================================================================
