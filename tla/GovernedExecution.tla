-------------------------- MODULE GovernedExecution --------------------------
(***************************************************************************)
(* The governed execution boundary (packages/governed-execution/runtime.js)*)
(* over its two stores: the append-only execution ledger and the approval  *)
(* store, which share one SQLite database.  A call is one invocation of    *)
(* execute() or cancelQueued(); calls run concurrently, in one process or  *)
(* in several that open the same database, so they interleave at every     *)
(* await and at every transaction.                                         *)
(*                                                                         *)
(* Time is abstracted to the two facts the code derives from it: whether a *)
(* call's absolute deadline has passed (lapsed) and where an approval is   *)
(* in its validity window (window).                                        *)
(***************************************************************************)
EXTENDS Naturals, Sequences, FiniteSets

CONSTANTS
  Calls,          (* invocations of execute() and cancelQueued()           *)
  Ops,            (* operation ids: hash of the tool and idempotency key   *)
  Contract,       (* the sealed tool contract each operation resolves to   *)
  Scopes,         (* actor, resource scope, input digest and versions      *)
  Resource,       (* the part of a scope that an approval is bound to      *)
  Traces,         (* causation ids a caller may supply                     *)
  NoTrace,        (* the caller supplied none: the runtime makes one up    *)
  Requests,       (* what callers may ask                                  *)
  Approvals,      (* approval ids                                          *)
  ApprovalRows,   (* the approval records an authorizer may issue          *)
  None            (* an absent row, approval or request                    *)

Kinds == {"execute", "cancelQueued"}

Reversibility == {"read_only", "idempotent_mutation",
                  "compensatable_mutation", "irreversible_mutation"}

ToolContract == [reversibility : Reversibility, cooperative : BOOLEAN,
                 requires_approval : BOOLEAN, accepts_idempotency : BOOLEAN]

TerminalEvents == {"ExecutionSucceeded", "ExecutionFailed",
                   "ExecutionCancelled", "ExecutionOutcomeUncertain"}

EventTypes == {"ExecutionAuthorized", "ExecutionStarted"} \cup TerminalEvents

ASSUME ConstantsAssumption ==
  /\ Contract \in [Ops -> ToolContract]
  /\ Resource \in [Scopes -> {Resource[s] : s \in Scopes}]
  /\ Requests \subseteq [kind : Kinds, op : Ops, scope : Scopes,
                         trace : Traces \cup {NoTrace}]
  /\ ApprovalRows \subseteq [op : Ops, resource : {Resource[s] : s \in Scopes},
                             decision : {"approved", "denied"}]
  /\ NoTrace \notin Traces
  /\ Traces \cap Kinds = {} /\ NoTrace \notin Kinds
  /\ None \notin Calls \cup Ops \cup Approvals \cup ApprovalRows \cup Requests

VARIABLES
  stream,     (* the execution aggregate of each operation, in the ledger  *)
  approvals,  (* the immutable approval rows                               *)
  window,     (* where an approval is in [issued_at, expires_at)           *)
  used,       (* execution_approval_uses: the operation an approval paid   *)
  pc,         (* where each call is suspended                              *)
  request,    (* what each call was asked                                  *)
  approval,   (* the approval id the resolver gave the call                *)
  aborted,    (* the caller's AbortSignal                                  *)
  lapsed,     (* the call's absolute deadline has passed                   *)
  provider,   (* the provider's side of a dispatch                         *)
  reply       (* the envelope each call returned                           *)

stores   == <<stream, approvals, window, used>>
callVars == <<pc, request, approval, aborted, lapsed, reply>>
vars     == <<stream, approvals, window, used, pc, request, approval,
              aborted, lapsed, provider, reply>>

Running == {"govern", "resolve", "authorize", "record", "started", "dispatched"}

-----------------------------------------------------------------------------
OpOf(c) == request[c].op

ContractOf(c) == Contract[OpOf(c)]

\* Mutant: the default causation id is forgotten.
TraceOfGiven(c) == request[c].trace

\* The causation id of a call: the caller's, or one derived from the method.
TraceOf(c) == IF request[c].trace = NoTrace THEN request[c].kind ELSE request[c].trace

\* A ledger fact; by is the call whose transaction committed it.
Fact(c, type) == [type |-> type, scope |-> request[c].scope, trace |-> TraceOf(c),
                  approval |-> approval[c], by |-> c]

StartFacts(c) == <<Fact(c, "ExecutionAuthorized"), Fact(c, "ExecutionStarted")>>

\* Mutant: appends without comparing the version.
AtVersionUnchecked(o, expected) == TRUE

\* The compare half of compare-and-append.
AtVersion(o, expected) == Len(stream[o]) = expected

HasTerminal(o) == \E i \in 1..Len(stream[o]) : stream[o][i].type \in TerminalEvents

LastType(o) == stream[o][Len(stream[o])].type

NeedsApproval(k, policyAsks) ==
  \/ k.requires_approval
  \/ k.reversibility = "irreversible_mutation"
  \/ k.reversibility # "read_only" /\ ~k.accepts_idempotency
  \/ policyAsks

\* The stored facts bind the idempotency key to one scope and one trace.
SameOperation(c) ==
  \A i \in 1..Len(stream[OpOf(c)]) :
    /\ stream[OpOf(c)][i].trace = TraceOf(c)
    /\ stream[OpOf(c)][1].scope = request[c].scope

\* What a call answers when the ledger already knows its operation.
ReplayReply(c) ==
  IF ~SameOperation(c) THEN "conflict"
  ELSE IF ~HasTerminal(OpOf(c)) THEN "in_doubt"
  ELSE CASE LastType(OpOf(c)) = "ExecutionSucceeded"        -> "succeeded"
         [] LastType(OpOf(c)) = "ExecutionCancelled"        -> "cancelled"
         [] LastType(OpOf(c)) = "ExecutionOutcomeUncertain" -> "in_doubt"
         [] OTHER                                           -> "failed"

\* Mutant: a provider that left the outcome open is taken to have failed.
UnprovenAsFailed(k) == "ExecutionFailed"

\* The fact recorded when the provider leaves the outcome open.
UnprovenOutcome(k) ==
  IF k.reversibility = "read_only" THEN "ExecutionFailed" ELSE "ExecutionOutcomeUncertain"

ReplyOf(type) ==
  CASE type = "ExecutionSucceeded"        -> "succeeded"
    [] type = "ExecutionFailed"           -> "failed"
    [] type = "ExecutionCancelled"        -> "cancelled"
    [] type = "ExecutionOutcomeUncertain" -> "in_doubt"

\* Mutant: a denied approval is as good as an approved one.
ConsumableDenied(a, c) ==
  /\ approvals[a] # None
  /\ used[a] = None
  /\ \A b \in Approvals : used[b] # OpOf(c)
  /\ approvals[a].op = OpOf(c)
  /\ approvals[a].resource = Resource[request[c].scope]
  /\ window[a] = "active"

\* Every condition of the approval store's consume transaction.
Consumable(a, c) ==
  /\ approvals[a] # None
  /\ used[a] = None
  /\ \A b \in Approvals : used[b] # OpOf(c)
  /\ approvals[a].decision = "approved"
  /\ approvals[a].op = OpOf(c)
  /\ approvals[a].resource = Resource[request[c].scope]
  /\ window[a] = "active"

Goto(c, from, to) == pc[c] = from /\ pc' = [pc EXCEPT ![c] = to]

Answer(c, r) ==
  /\ pc' = [pc EXCEPT ![c] = "done"]
  /\ reply' = [reply EXCEPT ![c] = r]

\* Mutant: the answer is given although the append failed.
ConcludeRegardless(c, type, r) ==
  /\ Answer(c, r)
  /\ \/ /\ AtVersion(OpOf(c), 2)
        /\ stream' = [stream EXCEPT ![OpOf(c)] = Append(@, Fact(c, type))]
     \/ UNCHANGED stream

\* _persistOutcome: append the terminal fact at version 2 and answer, or,
\* when the append fails for whatever reason, answer that it is in doubt.
Conclude(c, type, r) ==
  \/ /\ AtVersion(OpOf(c), 2)
     /\ stream' = [stream EXCEPT ![OpOf(c)] = Append(@, Fact(c, type))]
     /\ Answer(c, r)
  \/ /\ Answer(c, "in_doubt")
     /\ UNCHANGED stream

-----------------------------------------------------------------------------
(* The approval store and the passing of time.                             *)

\* issue: rows are inserted once and never updated; issued_at may lie ahead.
IssueApproval(a, row) ==
  /\ approvals[a] = None
  /\ approvals' = [approvals EXCEPT ![a] = row]
  /\ UNCHANGED <<stream, window, used, callVars, provider>>

ActivateApproval(a) ==
  /\ approvals[a] # None /\ window[a] = "pending"
  /\ window' = [window EXCEPT ![a] = "active"]
  /\ UNCHANGED <<stream, approvals, used, callVars, provider>>

ExpireApproval(a) ==
  /\ window[a] = "active"
  /\ window' = [window EXCEPT ![a] = "expired"]
  /\ UNCHANGED <<stream, approvals, used, callVars, provider>>

DeadlinePasses(c) ==
  /\ pc[c] \in {"resolve", "authorize", "started", "dispatched"}
  /\ ~lapsed[c]
  /\ lapsed' = [lapsed EXCEPT ![c] = TRUE]
  /\ UNCHANGED <<stores, pc, request, approval, aborted, provider, reply>>

-----------------------------------------------------------------------------
(* The calls.                                                              *)

\* A caller invokes the port.  A contract that is not cooperative refuses a
\* queued cancellation before anything else is evaluated.
Submit(c, r) ==
  /\ pc[c] = "idle"
  /\ request' = [request EXCEPT ![c] = r]
  /\ IF r.kind = "cancelQueued" /\ ~Contract[r.op].cooperative
     THEN Answer(c, "refused")
     ELSE Goto(c, "idle", "govern") /\ UNCHANGED reply
  /\ UNCHANGED <<stores, approval, aborted, lapsed, provider>>

\* The caller aborts its signal while the call is suspended.
AbortSignal(c) ==
  /\ pc[c] \in {"govern", "resolve"}
  /\ ~aborted[c]
  /\ aborted' = [aborted EXCEPT ![c] = TRUE]
  /\ UNCHANGED <<stores, pc, request, approval, lapsed, provider, reply>>

\* Validation, authority or policy refuses: nothing has been recorded.
Deny(c) ==
  /\ pc[c] = "govern"
  /\ Answer(c, "rejected")
  /\ UNCHANGED <<stores, request, approval, aborted, lapsed, provider>>

\* Authority and policy allow; _readExisting decides between answering from
\* the ledger and going on.
ReadExisting(c) ==
  /\ pc[c] = "govern"
  /\ IF stream[OpOf(c)] # <<>>
     THEN Answer(c, ReplayReply(c))
     ELSE /\ IF request[c].kind = "cancelQueued"
             THEN Goto(c, "govern", "record")
             ELSE \E policyAsks \in BOOLEAN :
                    Goto(c, "govern", IF NeedsApproval(ContractOf(c), policyAsks)
                                      THEN "resolve" ELSE "authorize")
          /\ UNCHANGED reply
  /\ UNCHANGED <<stores, request, approval, aborted, lapsed, provider>>

\* The approval resolver answers with an approval id, or with none.
ResolveApproval(c) ==
  /\ pc[c] = "resolve"
  /\ \/ \E a \in Approvals : approval' = [approval EXCEPT ![c] = a]
                             /\ Goto(c, "resolve", "authorize") /\ UNCHANGED reply
     \/ Answer(c, "rejected") /\ UNCHANGED approval
  /\ UNCHANGED <<stores, request, aborted, lapsed, provider>>

\* One transaction: consume the approval, when there is one, and append the
\* authorized and started facts at version 0.
AppendStart(c) ==
  /\ Goto(c, "authorize", "started")
  /\ AtVersion(OpOf(c), 0)
  /\ stream' = [stream EXCEPT ![OpOf(c)] = StartFacts(c)]
  /\ IF approval[c] = None
     THEN UNCHANGED used
     ELSE /\ Consumable(approval[c], c)
          /\ used' = [used EXCEPT ![approval[c]] = OpOf(c)]
  /\ UNCHANGED <<approvals, window, request, approval, aborted, lapsed, provider, reply>>

\* Mutant: the approval is consumed outside the transaction that appends.
StartFailsSpent(c) ==
  /\ pc[c] = "authorize"
  /\ Answer(c, "rejected")
  /\ IF approval[c] # None /\ Consumable(approval[c], c)
     THEN used' = [used EXCEPT ![approval[c]] = OpOf(c)]
     ELSE UNCHANGED used
  /\ UNCHANGED <<stream, approvals, window, request, approval, aborted, lapsed, provider>>

\* The transaction rolled back: a version conflict, an approval that cannot
\* be consumed, or a database error.
StartFails(c) ==
  /\ pc[c] = "authorize"
  /\ Answer(c, "rejected")
  /\ UNCHANGED <<stores, request, approval, aborted, lapsed, provider>>

CancelRequested(c) == aborted[c] /\ ContractOf(c).cooperative

\* Cancelled or out of time after the start facts, before dispatch.
CancelBeforeDispatch(c) ==
  /\ pc[c] = "started"
  /\ CancelRequested(c) \/ lapsed[c]
  /\ Conclude(c, "ExecutionCancelled",
              IF CancelRequested(c) THEN "cancelled" ELSE "deadline")
  /\ UNCHANGED <<approvals, window, used, request, approval, aborted, lapsed, provider>>

Dispatch(c) ==
  /\ ~CancelRequested(c) /\ ~lapsed[c]
  /\ Goto(c, "started", "dispatched")
  /\ provider' = [provider EXCEPT ![c] = "running"]
  /\ UNCHANGED <<stores, request, approval, aborted, lapsed, reply>>

\* The provider answers before the deadline timer fires; the outcome is
\* recorded in the same turn of the event loop.
ProviderReturns(c) ==
  /\ pc[c] = "dispatched"
  /\ \/ /\ provider[c] = "performed"
        /\ Conclude(c, "ExecutionSucceeded", "succeeded")
     \/ Conclude(c, UnprovenOutcome(ContractOf(c)), ReplyOf(UnprovenOutcome(ContractOf(c))))
  /\ UNCHANGED <<approvals, window, used, request, approval, aborted, lapsed, provider>>

\* The provider throws; an outcome it declares is believed, and it declares
\* failed or cancelled only of an effect it has not had and will not have.
ProviderThrows(c) ==
  /\ pc[c] = "dispatched"
  /\ \/ \E type \in {"ExecutionFailed", "ExecutionCancelled"} :
          /\ provider[c] = "running"
          /\ provider' = [provider EXCEPT ![c] = "stopped"]
          /\ Conclude(c, type, ReplyOf(type))
     \/ \E type \in {"ExecutionOutcomeUncertain", UnprovenOutcome(ContractOf(c))} :
          Conclude(c, type, ReplyOf(type)) /\ UNCHANGED provider
  /\ UNCHANGED <<approvals, window, used, request, approval, aborted, lapsed>>

\* Mutant: an overdue provider is recorded as failed.
DeadlineFiresAsFailed(c) ==
  /\ pc[c] = "dispatched"
  /\ lapsed[c]
  /\ Conclude(c, "ExecutionFailed", "failed")
  /\ UNCHANGED <<approvals, window, used, request, approval, aborted, lapsed, provider>>

\* Mutant: at the deadline the runtime aborts the provider and awaits it.
DeadlineFiresAwaiting(c) ==
  /\ pc[c] = "dispatched"
  /\ lapsed[c] /\ provider[c] # "running"
  /\ Conclude(c, "ExecutionOutcomeUncertain", "in_doubt")
  /\ UNCHANGED <<approvals, window, used, request, approval, aborted, lapsed, provider>>

\* The deadline timer wins the race; the provider is told to abort but may
\* still be at work.
DeadlineFires(c) ==
  /\ pc[c] = "dispatched"
  /\ lapsed[c]
  /\ Conclude(c, "ExecutionOutcomeUncertain", "in_doubt")
  /\ UNCHANGED <<approvals, window, used, request, approval, aborted, lapsed, provider>>

\* cancelQueued appends all three facts in one transaction at version 0.
RecordCancellation(c) ==
  /\ pc[c] = "record"
  /\ AtVersion(OpOf(c), 0)
  /\ stream' = [stream EXCEPT ![OpOf(c)] = Append(StartFacts(c), Fact(c, "ExecutionCancelled"))]
  /\ Answer(c, "cancelled")
  /\ UNCHANGED <<approvals, window, used, request, approval, aborted, lapsed, provider>>

CancellationFails(c) ==
  /\ pc[c] = "record"
  /\ Answer(c, "rejected")
  /\ UNCHANGED <<stores, request, approval, aborted, lapsed, provider>>

-----------------------------------------------------------------------------
(* The environment.                                                        *)

\* A dispatched provider has its effect, at any time, whatever became of the
\* call that dispatched it.
ProviderPerforms(c) ==
  /\ provider[c] = "running"
  /\ provider' = [provider EXCEPT ![c] = "performed"]
  /\ UNCHANGED <<stores, callVars>>

\* The process running the call dies; the database and the provider remain.
Crash(c) ==
  /\ pc[c] \in Running
  /\ pc' = [pc EXCEPT ![c] = "crashed"]
  /\ UNCHANGED <<stores, request, approval, aborted, lapsed, provider, reply>>

-----------------------------------------------------------------------------
Init ==
  /\ stream    = [o \in Ops |-> <<>>]
  /\ approvals = [a \in Approvals |-> None]
  /\ window    = [a \in Approvals |-> "pending"]
  /\ used      = [a \in Approvals |-> None]
  /\ pc        = [c \in Calls |-> "idle"]
  /\ request   = [c \in Calls |-> None]
  /\ approval  = [c \in Calls |-> None]
  /\ aborted   = [c \in Calls |-> FALSE]
  /\ lapsed    = [c \in Calls |-> FALSE]
  /\ provider  = [c \in Calls |-> "idle"]
  /\ reply     = [c \in Calls |-> None]

StoreStep ==
  \E a \in Approvals :
    \/ \E row \in ApprovalRows : IssueApproval(a, row)
    \/ ActivateApproval(a)
    \/ ExpireApproval(a)

\* What the runtime itself does with a call it has accepted.
RuntimeStep(c) ==
  \/ Deny(c) \/ ReadExisting(c) \/ ResolveApproval(c)
  \/ AppendStart(c) \/ StartFails(c)
  \/ CancelBeforeDispatch(c) \/ Dispatch(c) \/ DeadlineFires(c)
  \/ RecordCancellation(c) \/ CancellationFails(c)

ProviderStep(c) == ProviderReturns(c) \/ ProviderThrows(c) \/ ProviderPerforms(c)

CallerStep(c) == (\E r \in Requests : Submit(c, r)) \/ AbortSignal(c)

Next ==
  \/ StoreStep
  \/ \E c \in Calls : \/ CallerStep(c) \/ RuntimeStep(c) \/ ProviderStep(c)
                      \/ DeadlinePasses(c) \/ Crash(c)

Spec == Init /\ [][Next]_vars

\* The event loop runs what is ready, promises outside the provider settle
\* and clocks advance.  Nothing is assumed of callers or of the provider.
Fairness == \A c \in Calls : WF_vars(RuntimeStep(c)) /\ WF_vars(DeadlinePasses(c))

FairSpec == Spec /\ Fairness

-----------------------------------------------------------------------------
(* Properties.                                                             *)

Facts == [type : EventTypes, scope : Scopes, trace : Traces \cup Kinds,
          approval : Approvals \cup {None}, by : Calls]

Replies == {"succeeded", "failed", "cancelled", "deadline", "in_doubt",
            "conflict", "refused", "rejected"}

ASSUME NoReplyAssumption == None \notin Replies

\* Every variable has its type: ledger streams hold well-formed facts, a call
\* that is not idle carries a request (runtime.js constructor and _fact).
TypeOK ==
  /\ stream \in [Ops -> Seq(Facts)]
  /\ approvals \in [Approvals -> ApprovalRows \cup {None}]
  /\ window \in [Approvals -> {"pending", "active", "expired"}]
  /\ used \in [Approvals -> Ops \cup {None}]
  /\ pc \in [Calls -> Running \cup {"idle", "done", "crashed"}]
  /\ request \in [Calls -> Requests \cup {None}]
  /\ \A c \in Calls : pc[c] # "idle" => request[c] # None
  /\ approval \in [Calls -> Approvals \cup {None}]
  /\ aborted \in [Calls -> BOOLEAN]
  /\ lapsed \in [Calls -> BOOLEAN]
  /\ provider \in [Calls -> {"idle", "running", "performed", "stopped"}]
  /\ reply \in [Calls -> Replies \cup {None}]

Dispatched(c) == provider[c] # "idle"

\* However many calls, retries and processes carry the same idempotency key,
\* and whichever of them crash, the provider is dispatched at most once for
\* an operation ("exactly one provider outcome", the version-0 append).
AtMostOneDispatch ==
  \A c, d \in Calls : Dispatched(c) /\ Dispatched(d) /\ OpOf(c) = OpOf(d) => c = d

\* Nothing reaches a provider unless the same call has already made durable
\* that it was authorized and started; when its contract calls for approval,
\* an approval of exactly this operation and resource has been spent on it.
DispatchAfterDurableStart ==
  \A c \in Calls : Dispatched(c) =>
    /\ Len(stream[OpOf(c)]) >= 2
    /\ \A i \in 1..2 : stream[OpOf(c)][i] = StartFacts(c)[i]
    /\ NeedsApproval(ContractOf(c), FALSE) =>
         \E a \in Approvals : /\ used[a] = OpOf(c)
                               /\ approvals[a] = [op |-> OpOf(c), decision |-> "approved",
                                                  resource |-> Resource[request[c].scope]]

\* The ledger and the approval store never disagree: an approval is marked
\* used by an operation exactly when the operation's first fact cites it, it
\* was granted for that operation and that resource, and no two approvals pay
\* for one operation.  A crash or a conflict never leaves one without the other.
ApprovalBinding ==
  \A a \in Approvals :
    /\ \A o \in Ops : used[a] = o <=> stream[o] # <<>> /\ stream[o][1].approval = a
    /\ used[a] # None =>
         /\ approvals[a] # None
         /\ approvals[a].decision = "approved"
         /\ approvals[a].op = used[a]
         /\ approvals[a].resource = Resource[stream[used[a]][1].scope]
    /\ \A b \in Approvals : used[a] # None /\ used[a] = used[b] => a = b

\* What a caller is told of an outcome is what the ledger holds, now and for
\* every later reader; a call answered with a rejection has left no fact
\* behind and has dispatched nothing, so it may safely be repeated.
ReplyAgreesWithLedger ==
  \A c \in Calls :
    /\ reply[c] = "succeeded" => LastType(OpOf(c)) = "ExecutionSucceeded"
    /\ reply[c] = "failed" => LastType(OpOf(c)) = "ExecutionFailed"
    /\ reply[c] \in {"cancelled", "deadline"} => LastType(OpOf(c)) = "ExecutionCancelled"
    /\ reply[c] \in {"in_doubt", "conflict"} => stream[OpOf(c)] # <<>>
    /\ reply[c] \in {"rejected", "refused", "conflict"} =>
         /\ ~Dispatched(c)
         /\ \A i \in 1..Len(stream[OpOf(c)]) : stream[OpOf(c)][i].by # c

Mutating(o) == Contract[o].reversibility # "read_only"

\* A definite terminal fact is true of the world: success means some provider
\* had its effect, and a mutation recorded as failed or cancelled has had none
\* and never will, whichever call dispatched or cancelled it.
DefiniteOutcomeIsTrue ==
  \A o \in Ops : HasTerminal(o) =>
    /\ LastType(o) = "ExecutionSucceeded" =>
         \E c \in Calls : provider[c] = "performed" /\ OpOf(c) = o
    /\ Mutating(o) /\ LastType(o) \in {"ExecutionFailed", "ExecutionCancelled"} =>
         \A c \in Calls : Dispatched(c) /\ OpOf(c) = o => provider[c] = "stopped"

\* The ledger only grows, a terminal fact is the last fact of its operation,
\* and only the call that started an operation ever concludes it: a retry, a
\* replay or another process never completes what a crashed call left open.
HistoryStep ==
  \A o \in Ops :
    \/ stream'[o] = stream[o]
    \/ stream[o] = <<>>
    \/ /\ ~HasTerminal(o)
       /\ \E c \in Calls, type \in TerminalEvents :
            /\ stream[o][1].by = c
            /\ pc[c] \in {"started", "dispatched"}
            /\ stream'[o] = Append(stream[o], Fact(c, type))

HistoryImmutable == [][HistoryStep]_stream

\* Every call the runtime accepts comes to an answer, even when the provider
\* never answers and never stops (the deadline timer, runtime.js:576-582),
\* unless its process dies.
EveryCallSettles == \A c \in Calls : pc[c] \in Running ~> pc[c] \in {"done", "crashed"}

-----------------------------------------------------------------------------
(* What the boundary promises of an operation.                             *)

Status(o) ==
  IF stream[o] = <<>> THEN "absent" ELSE IF HasTerminal(o) THEN LastType(o) ELSE "begun"

Effect(o) ==
  LET Has(p) == \E c \in Calls : provider[c] = p /\ OpOf(c) = o
  IN  CASE Has("performed") -> "performed"
        [] Has("running") /\ ~Has("performed") -> "possible"
        [] Has("stopped") /\ ~Has("running") /\ ~Has("performed") -> "prevented"
        [] OTHER -> "none"

Operation == INSTANCE AtMostOnceOperation WITH
  ReadOnly <- {o \in Ops : ~Mutating(o)},
  status   <- [o \in Ops |-> Status(o)],
  effect   <- [o \in Ops |-> Effect(o)]

\* Concurrent, crashing and retried calls together behave, for each operation,
\* like one attempt that is begun once, has its effect at most once, and is
\* concluded at most once by a fact that is true (AtMostOnceOperation).
ImplementsOperation == Operation!Spec
=============================================================================
