------------------------ MODULE ExecutionProjections ------------------------
(***************************************************************************)
(* The read side of the execution ledger                                   *)
(* (tools/mcp-project-state/lib/execution-projections.js): generations of a *)
(* projection, each with a checkpoint and one row per execution, built from *)
(* the global stream in batches.  Workers are invocations of rebuild() and *)
(* reconcileGeneration() on connections to one SQLite database; each action *)
(* is one statement or one IMMEDIATE transaction.                          *)
(***************************************************************************)
EXTENDS Naturals, Sequences, FiniteSets, SequencesExt

CONSTANTS
  Executions,    (* aggregates of type execution                           *)
  Foreign,       (* aggregates of the other families sharing the ledger    *)
  EventTypes,
  Workers,
  BatchSize,
  MaxRounds,     (* max_rounds of rebuild()                                *)
  MaxEvents,     (* bound: length of the ledger                            *)
  MaxGeneration, (* bound: generations ever created                        *)
  None

ASSUME ConstantsAssumption ==
  /\ Executions \cap Foreign = {}
  /\ {BatchSize, MaxRounds, MaxEvents, MaxGeneration} \subseteq Nat \ {0}
  /\ None \notin {"building", "active", "retired", "failed"}

Generations == 1..MaxGeneration

VARIABLES
  ledger,      (* execution_events in the order of their positions         *)
  status,      (* execution_projection_generations                         *)
  checkpoint,  (* last_position of a generation                            *)
  lastError,   (* whether last_error of a generation is set                *)
  rows,        (* execution_run_projection                                 *)
  worker       (* locals of each invocation                                *)

vars   == <<ledger, status, checkpoint, lastError, rows, worker>>
tables == <<ledger, status, checkpoint, lastError, rows>>

IdleWorker == [pc |-> "idle", task |-> None, generation |-> 0, building |-> FALSE,
               from |-> 0, upto |-> 0, round |-> 0]

-----------------------------------------------------------------------------
HighWater == Len(ledger)

\* stream_sequence of the event at a position.
StreamSequence(p) == Cardinality({q \in 1..p : ledger[q].aggregate = ledger[p].aggregate})

RunAt(p) == [version |-> StreamSequence(p), type |-> ledger[p].type, position |-> p]

\* applyExecutionRun and the guarded upsert of its result: events of other
\* families are skipped, and so is an event the row already covers.
ApplyEvent(projected, p) ==
  LET o == ledger[p].aggregate
  IN  IF \/ o \in Foreign
         \/ projected[o] # None /\ StreamSequence(p) <= projected[o].version
      THEN projected
      ELSE [projected EXCEPT ![o] = RunAt(p)]

ApplyBatch(projected, from, upto) ==
  FoldLeft(ApplyEvent, projected, [i \in 1..(upto - from) |-> from + i])

\* The latest event of an execution among the first n of the ledger, or None.
LatestRun(o, n) ==
  LET positions == {p \in 1..n : ledger[p].aggregate = o}
  IN  IF positions = {} THEN None
      ELSE RunAt(CHOOSE p \in positions : \A q \in positions : q <= p)

\* _integrity: the comparison activation and health make with the ledger.
IntegrityHolds(g) == \A o \in Executions : rows[g][o] = LatestRun(o, HighWater)

IsActive(g) == status[g] = "active"

-----------------------------------------------------------------------------
Stop(w) == worker' = [worker EXCEPT ![w] = IdleWorker]

Goto(w, pc) == worker' = [worker EXCEPT ![w].pc = pc]

\* A ledger transaction appends an event.
AppendEvent(a, type) ==
  /\ HighWater < MaxEvents
  /\ ledger' = Append(ledger, [aggregate |-> a, type |-> type])
  /\ UNCHANGED <<status, checkpoint, lastError, rows, worker>>

\* rebuild creates its generation in a transaction of its own.
CreateGeneration(w) ==
  /\ worker[w].pc = "idle"
  /\ \E g \in Generations :
       /\ status[g] = None /\ \A h \in 1..(g - 1) : status[h] # None
       /\ status' = [status EXCEPT ![g] = "building"]
       /\ worker' = [worker EXCEPT ![w] = [IdleWorker EXCEPT !.pc = "open", !.task = "rebuild",
                                                            !.generation = g]]
  /\ UNCHANGED <<ledger, checkpoint, lastError, rows>>

\* reconcileActive looks the active generation up; reconcileGeneration is also
\* called for a generation by number.
BeginReconcile(w, g) ==
  /\ worker[w].pc = "idle"
  /\ status[g] # None
  /\ worker' = [worker EXCEPT ![w] = [IdleWorker EXCEPT !.pc = "open", !.task = "reconcile",
                                                       !.generation = g]]
  /\ UNCHANGED tables

\* reconcileGeneration checks that the generation may be reconciled, or throws.
OpenGeneration(w) ==
  LET g == worker[w].generation
  IN  /\ worker[w].pc = "open"
      /\ IF status[g] \in {"building", "active"}
         THEN worker' = [worker EXCEPT ![w].pc = "read", ![w].building = (status[g] = "building")]
         ELSE Stop(w)
      /\ UNCHANGED tables

\* The last batch was short or empty: reconcileGeneration returns.
Returned(w) == IF worker[w].task = "rebuild" THEN Goto(w, "activate") ELSE Stop(w)

\* The checkpoint, then the next events after it.
ReadBatch(w) ==
  LET from == checkpoint[worker[w].generation]
      upto == IF HighWater < from + BatchSize THEN HighWater ELSE from + BatchSize
  IN  /\ worker[w].pc = "read"
      /\ IF upto = from THEN Returned(w)
         ELSE worker' = [worker EXCEPT ![w].pc = "apply", ![w].from = from, ![w].upto = upto]
      /\ UNCHANGED tables

\* Mutant: the checkpoint is written without comparing it.
CommitBatchBlindly(w) ==
  LET g == worker[w].generation
      from == worker[w].from
      upto == worker[w].upto
  IN  /\ worker[w].pc = "apply"
      /\ rows' = [rows EXCEPT ![g] = ApplyBatch(@, from, upto)]
      /\ checkpoint' = [checkpoint EXCEPT ![g] = upto]
      /\ lastError' = [lastError EXCEPT ![g] = FALSE]
      /\ IF upto - from < BatchSize THEN Returned(w) ELSE Goto(w, "read")
      /\ UNCHANGED <<ledger, status>>

\* Mutant: a short batch is read again when the ledger has moved since.
CommitBatchUnlessMoved(w) ==
  LET g == worker[w].generation
      from == worker[w].from
      upto == worker[w].upto
  IN  /\ worker[w].pc = "apply"
      /\ IF checkpoint[g] = from /\ (upto - from = BatchSize \/ upto = HighWater)
         THEN /\ rows' = [rows EXCEPT ![g] = ApplyBatch(@, from, upto)]
              /\ checkpoint' = [checkpoint EXCEPT ![g] = upto]
              /\ lastError' = [lastError EXCEPT ![g] = FALSE]
              /\ IF upto - from < BatchSize THEN Returned(w) ELSE Goto(w, "read")
         ELSE /\ Goto(w, "read")
              /\ UNCHANGED <<rows, checkpoint, lastError>>
      /\ UNCHANGED <<ledger, status>>

\* One transaction applies the batch and moves the checkpoint, provided it is
\* where the batch began; otherwise all of it rolls back and is read again.
CommitBatch(w) ==
  LET g == worker[w].generation
      from == worker[w].from
      upto == worker[w].upto
  IN  /\ worker[w].pc = "apply"
      /\ IF checkpoint[g] = from
         THEN /\ rows' = [rows EXCEPT ![g] = ApplyBatch(@, from, upto)]
              /\ checkpoint' = [checkpoint EXCEPT ![g] = upto]
              /\ lastError' = [lastError EXCEPT ![g] = FALSE]
              /\ IF upto - from < BatchSize THEN Returned(w) ELSE Goto(w, "read")
         ELSE /\ Goto(w, "read")
              /\ UNCHANGED <<rows, checkpoint, lastError>>
      /\ UNCHANGED <<ledger, status>>

MarkFailed(g) ==
  status' = IF status[g] = "building" THEN [status EXCEPT ![g] = "failed"] ELSE status

\* Reading or applying the batch threw (an event that cannot be read or
\* applied, or the database) and the batch rolled back.  The error is recorded,
\* and a generation that was building when this worker opened it is given up.
BatchFails(w) ==
  LET g == worker[w].generation
  IN  /\ worker[w].pc \in {"read", "apply"}
      /\ lastError' = [lastError EXCEPT ![g] = TRUE]
      /\ IF worker[w].building THEN MarkFailed(g) ELSE UNCHANGED status
      /\ Stop(w)
      /\ UNCHANGED <<ledger, checkpoint, rows>>

Promote(g) ==
  status' = [h \in Generations |-> IF h = g THEN "active"
                                   ELSE IF IsActive(h) THEN "retired" ELSE status[h]]

\* Mutant: activation trusts the reconcile that preceded it.
ActivateUnchecked(w) ==
  LET g == worker[w].generation
  IN  /\ worker[w].pc = "activate"
      /\ status[g] = "building"
      /\ Promote(g)
      /\ Stop(w)
      /\ UNCHANGED <<ledger, checkpoint, lastError, rows>>

\* Mutant: the generation it replaces stays active.
ActivateBeside(w) ==
  LET g == worker[w].generation
  IN  /\ worker[w].pc = "activate"
      /\ status[g] = "building" /\ checkpoint[g] = HighWater /\ IntegrityHolds(g)
      /\ status' = [status EXCEPT ![g] = "active"]
      /\ Stop(w)
      /\ UNCHANGED <<ledger, checkpoint, lastError, rows>>

\* One transaction compares the checkpoint with the high-water mark and the
\* rows with the ledger, retires the active generation and promotes this one.
Activate(w) ==
  LET g == worker[w].generation
  IN  /\ worker[w].pc = "activate"
      /\ status[g] = "building" /\ checkpoint[g] = HighWater /\ IntegrityHolds(g)
      /\ Promote(g)
      /\ Stop(w)
      /\ UNCHANGED <<ledger, checkpoint, lastError, rows>>

\* Mutant: a rebuild chases the ledger for ever.
NextRoundUnbounded(w) ==
  LET g == worker[w].generation
  IN  /\ worker[w].pc = "activate"
      /\ status[g] = "building" /\ checkpoint[g] # HighWater
      /\ worker' = [worker EXCEPT ![w].pc = "open", ![w].round = @ + 1]
      /\ UNCHANGED tables

\* The ledger moved on: another round of reconciling, up to max_rounds.
NextRound(w) ==
  LET g == worker[w].generation
  IN  /\ worker[w].pc = "activate"
      /\ status[g] = "building" /\ checkpoint[g] # HighWater
      /\ worker[w].round + 1 < MaxRounds
      /\ worker' = [worker EXCEPT ![w].pc = "open", ![w].round = @ + 1]
      /\ UNCHANGED tables

\* The rebuild is given up: somebody else failed the generation, its rows do
\* not match the ledger, or the rounds are exhausted.
ActivationFails(w) ==
  LET g == worker[w].generation
  IN  /\ worker[w].pc = "activate"
      /\ \/ status[g] # "building"
         \/ checkpoint[g] = HighWater /\ ~IntegrityHolds(g)
         \/ checkpoint[g] # HighWater /\ worker[w].round + 1 = MaxRounds
      /\ lastError' = [lastError EXCEPT ![g] = TRUE]
      /\ MarkFailed(g)
      /\ Stop(w)
      /\ UNCHANGED <<ledger, checkpoint, rows>>

\* The process of a worker dies between two statements.
Crash(w) ==
  /\ worker[w].pc # "idle"
  /\ Stop(w)
  /\ UNCHANGED tables

-----------------------------------------------------------------------------
Init ==
  /\ ledger = <<>>
  /\ status = [g \in Generations |-> None]
  /\ checkpoint = [g \in Generations |-> 0]
  /\ lastError = [g \in Generations |-> FALSE]
  /\ rows = [g \in Generations |-> [o \in Executions |-> None]]
  /\ worker = [w \in Workers |-> IdleWorker]

WorkerStep(w) ==
  \/ OpenGeneration(w) \/ ReadBatch(w) \/ CommitBatch(w)
  \/ Activate(w) \/ NextRound(w) \/ ActivationFails(w)

CallerStep(w) == CreateGeneration(w) \/ \E g \in Generations : BeginReconcile(w, g)

Next ==
  \/ \E o \in Executions, type \in EventTypes : AppendEvent(o, type)
  \/ \E a \in Foreign : AppendEvent(a, None)
  \/ \E w \in Workers : WorkerStep(w) \/ BatchFails(w) \/ CallerStep(w) \/ Crash(w)

Spec == Init /\ [][Next]_vars

-----------------------------------------------------------------------------
(* Properties.                                                             *)

Runs == [version : 1..MaxEvents, type : EventTypes, position : 1..MaxEvents]

\* Every variable has its type (migration 006).
TypeOK ==
  /\ ledger \in Seq([aggregate : Executions \cup Foreign,
                     type : EventTypes \cup {None}])
  /\ status \in [Generations -> {None, "building", "active", "retired", "failed"}]
  /\ checkpoint \in [Generations -> 0..MaxEvents]
  /\ lastError \in [Generations -> BOOLEAN]
  /\ rows \in [Generations -> [Executions -> Runs \cup {None}]]
  /\ worker \in [Workers -> [pc : {"idle", "open", "read", "apply", "activate"},
                             task : {None, "rebuild", "reconcile"},
                             generation : {0} \cup Generations, building : BOOLEAN,
                             from : 0..MaxEvents, upto : 0..MaxEvents, round : 0..(MaxRounds - 1)]]

\* Every generation, whatever became of it, is exactly the ledger up to its
\* checkpoint: no event is lost or applied twice by overlapping workers,
\* conflicts, failed batches or crashes ("recovered exactly once").
ProjectsAPrefix ==
  \A g \in Generations :
    /\ checkpoint[g] <= HighWater
    /\ \A o \in Executions : rows[g][o] = LatestRun(o, checkpoint[g])

\* There is never a second active generation for listRuns to choose from.
AtMostOneActive == \A g, h \in Generations : IsActive(g) /\ IsActive(h) => g = h

\* A reader of the active projection never loses it again and never sees it go
\* back in time, not even when one generation replaces another under it.
ViewStep ==
  \A g \in Generations : IsActive(g) =>
    \E h \in Generations : status'[h] = "active" /\ checkpoint'[h] >= checkpoint[g]

ViewNeverRegresses == [][ViewStep]_vars

\* What a worker has still to do in its round: the events after the batch at
\* hand, or after the checkpoint, then the statements up to the next batch.
EventsLeft(w) ==
  HighWater - IF worker[w].pc = "apply" THEN worker[w].from
              ELSE checkpoint[worker[w].generation]

StepsLeft(w) == [open |-> 3, read |-> 2, apply |-> 1, activate |-> 0][worker[w].pc]

AtWork(w) == worker[w].pc # "idle"

\* A worker that takes a step and goes on begins its next round, of which there
\* are max_rounds, or has less to do: a conflict costs it nothing that another
\* worker has not done for it, and a batch never has to be read again only
\* because the ledger grew (execution-projections.js:288-303 and 314-326).  What
\* others do meanwhile never gives it more work, unless they append.
WorkStep ==
  \A w \in Workers : AtWork(w) /\ AtWork(w)' /\ UNCHANGED ledger =>
    IF worker'[w] = worker[w] THEN EventsLeft(w)' <= EventsLeft(w)
    ELSE \/ worker'[w].round = worker[w].round + 1
         \/ /\ worker'[w].round = worker[w].round
            /\ \/ EventsLeft(w)' < EventsLeft(w)
               \/ EventsLeft(w)' = EventsLeft(w) /\ StepsLeft(w)' < StepsLeft(w)

WorkDiminishes == [][WorkStep]_vars
=============================================================================
