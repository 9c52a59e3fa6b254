--------------------- MODULE ExecutionProjectionsProofs ---------------------
(***************************************************************************)
(* What a reader of the projections may rely on, for any number of workers, *)
(* generations and events and any batch size: there is one active          *)
(* generation at the most, what it shows never goes back in time, and the  *)
(* rows of each generation are what a prefix of the ledger makes of them.  *)
(***************************************************************************)
EXTENDS ExecutionProjections, FiniteSetTheorems, WellFoundedInduction, TLAPS

Events == [aggregate : Executions \cup Foreign, type : EventTypes \cup {None}]

Statuses == {None, "building", "active", "retired", "failed"}

WorkerStates ==
  [pc : {"idle", "open", "read", "apply", "activate"}, task : {None, "rebuild", "reconcile"},
   generation : {0} \cup Generations, building : BOOLEAN, from : Nat, upto : Nat, round : Nat]

\* The types the argument needs; what the rows hold does not matter to it.
Types ==
  /\ ledger \in Seq(Events)
  /\ status \in [Generations -> Statuses]
  /\ checkpoint \in [Generations -> Nat]
  /\ worker \in [Workers -> WorkerStates]

\* Checkpoints and batches that were read stay within the ledger.
Bounded ==
  /\ \A g \in Generations : checkpoint[g] <= HighWater
  /\ \A w \in Workers : worker[w].pc # "idle" => worker[w].generation \in Generations
  /\ \A w \in Workers : worker[w].pc = "apply" =>
       worker[w].from <= worker[w].upto /\ worker[w].upto <= HighWater

ViewInv == Types /\ Bounded /\ AtMostOneActive

\* The generations keep their status, or one that was being built, or that was
\* not there, gets another one than active.
Demoted ==
  /\ status' \in [Generations -> Statuses]
  /\ \A g \in Generations : \/ status'[g] = status[g]
                            \/ ~IsActive(g) /\ status'[g] # "active"

\* Checkpoints move forward within the ledger.
Advanced ==
  /\ checkpoint' \in [Generations -> Nat]
  /\ \A g \in Generations : checkpoint[g] <= checkpoint'[g] /\ checkpoint'[g] <= HighWater'

LEMMA StatusNames == None # "active" /\ None # "building"
BY ConstantsAssumption DEF ConstantsAssumption

LEMMA HighWaterIsNat == ASSUME Types PROVE HighWater \in Nat
BY DEF Types, HighWater

LEMMA Stopped ==
  ASSUME Types, NEW w \in Workers, Stop(w)
  PROVE  /\ worker' \in [Workers -> WorkerStates]
         /\ worker'[w].pc = "idle" /\ \A v \in Workers \ {w} : worker'[v] = worker[v]
BY DEF Types, Stop, IdleWorker, WorkerStates

LEMMA Moved ==
  ASSUME Types, NEW w \in Workers, NEW pc \in {"open", "read", "activate"}, Goto(w, pc)
  PROVE  /\ worker' \in [Workers -> WorkerStates]
         /\ worker'[w].pc = pc /\ worker'[w].generation = worker[w].generation
         /\ \A v \in Workers \ {w} : worker'[v] = worker[v]
BY DEF Types, Goto, WorkerStates

\* A worker goes on, or not, without a batch at hand.
Unloaded(w) ==
  /\ worker' \in [Workers -> WorkerStates]
  /\ worker'[w].pc # "apply"
  /\ worker'[w].pc # "idle" => worker'[w].generation \in Generations
  /\ \A v \in Workers \ {w} : worker'[v] = worker[v]

LEMMA Returning ==
  ASSUME Types, NEW w \in Workers, worker[w].generation \in Generations, Returned(w)
  PROVE  Unloaded(w)
BY Stopped, Moved DEF Returned, Unloaded

\* A step that leaves the ledger alone, promotes nobody and unloads its worker.
LEMMA Undisturbed ==
  ASSUME ViewInv, UNCHANGED ledger, Demoted, Advanced, NEW w \in Workers, Unloaded(w)
  PROVE  ViewInv' /\ ViewStep
<1>1. HighWater' = HighWater
  BY DEF HighWater
<1>2. Types'
  BY <1>1 DEF ViewInv, Types, Demoted, Advanced, Unloaded
<1>3. Bounded'
  BY <1>1 DEF ViewInv, Bounded, Advanced, Unloaded
<1>4. AtMostOneActive'
  BY DEF ViewInv, AtMostOneActive, Demoted, IsActive
<1>5. ViewStep
  BY DEF ViewStep, Demoted, Advanced, IsActive
<1> QED BY <1>2, <1>3, <1>4, <1>5 DEF ViewInv

\* What a step leaves alone.
LEMMA SameStatus == ASSUME ViewInv, UNCHANGED status PROVE Demoted
BY DEF ViewInv, Types, Demoted

LEMMA SameCheckpoint == ASSUME ViewInv, UNCHANGED <<ledger, checkpoint>> PROVE Advanced
BY DEF ViewInv, Types, Bounded, Advanced, HighWater

LEMMA FailedIsDemoted == ASSUME ViewInv, NEW g \in Generations, MarkFailed(g) PROVE Demoted
BY StatusNames DEF ViewInv, Types, Demoted, MarkFailed, IsActive, Statuses

LEMMA AppendKeepsView ==
  ASSUME ViewInv, NEW a \in Executions \cup Foreign, NEW type \in EventTypes \cup {None},
         AppendEvent(a, type)
  PROVE  ViewInv' /\ ViewStep
<1>1. ledger' \in Seq(Events) /\ HighWater' = HighWater + 1 /\ HighWater \in Nat
  <2>1. [aggregate |-> a, type |-> type] \in Events
    BY DEF Events
  <2> QED BY <2>1 DEF ViewInv, Types, AppendEvent, HighWater
<1>2. UNCHANGED <<status, checkpoint, worker>>
  BY DEF AppendEvent
<1>3. Types' /\ Bounded'
  <2>1. Types'
    BY <1>1, <1>2 DEF ViewInv, Types
  <2>2. \A g \in Generations : checkpoint[g] <= HighWater + 1
    BY <1>1 DEF ViewInv, Types, Bounded
  <2>3. \A w \in Workers : worker[w].pc = "apply" =>
          worker[w].from <= worker[w].upto /\ worker[w].upto <= HighWater + 1
    BY <1>1 DEF ViewInv, Types, Bounded, WorkerStates
  <2> QED BY <1>1, <1>2, <2>1, <2>2, <2>3 DEF ViewInv, Bounded
<1>4. AtMostOneActive' /\ ViewStep
  BY <1>2 DEF ViewInv, Types, AtMostOneActive, ViewStep, IsActive
<1> QED BY <1>3, <1>4 DEF ViewInv

\* One worker's step that leaves the statuses and checkpoints alone.
LEMMA ViewUntouched ==
  ASSUME ViewInv, UNCHANGED <<ledger, status, checkpoint>>, NEW w \in Workers, Unloaded(w)
  PROVE  ViewInv' /\ ViewStep
BY SameStatus, SameCheckpoint, Undisturbed

\* The worker that left a generation behind it.
LEMMA StoppedUnloaded ==
  ASSUME ViewInv, NEW w \in Workers, Stop(w) PROVE Unloaded(w)
BY Stopped DEF ViewInv, Unloaded

LEMMA MovedUnloaded ==
  ASSUME ViewInv, NEW w \in Workers, worker[w].pc # "idle",
         NEW pc \in {"open", "read", "activate"}, Goto(w, pc)
  PROVE  Unloaded(w)
BY Moved DEF ViewInv, Bounded, Unloaded

LEMMA ReturnedUnloaded ==
  ASSUME ViewInv, NEW w \in Workers, worker[w].pc # "idle", Returned(w)
  PROVE  Unloaded(w)
BY Returning DEF ViewInv, Bounded

LEMMA CreateKeepsView ==
  ASSUME ViewInv, NEW w \in Workers, CreateGeneration(w) PROVE ViewInv' /\ ViewStep
<1>1. PICK g \in Generations :
        /\ status[g] = None /\ status' = [status EXCEPT ![g] = "building"]
        /\ worker' = [worker EXCEPT ![w] = [IdleWorker EXCEPT !.pc = "open", !.task = "rebuild",
                                                             !.generation = g]]
  BY DEF CreateGeneration
<1>2. Demoted
  BY <1>1, StatusNames DEF ViewInv, Types, Demoted, Statuses, IsActive
<1>3. Unloaded(w)
  BY <1>1 DEF ViewInv, Types, WorkerStates, IdleWorker, Unloaded
<1>4. Advanced /\ UNCHANGED ledger
  BY SameCheckpoint DEF CreateGeneration
<1> QED BY <1>2, <1>3, <1>4, Undisturbed

LEMMA BeginKeepsView ==
  ASSUME ViewInv, NEW w \in Workers, NEW g \in Generations, BeginReconcile(w, g)
  PROVE  ViewInv' /\ ViewStep
<1>1. Unloaded(w)
  BY DEF BeginReconcile, ViewInv, Types, WorkerStates, IdleWorker, Unloaded
<1> QED BY <1>1, ViewUntouched DEF BeginReconcile, tables

LEMMA OpenKeepsView ==
  ASSUME ViewInv, NEW w \in Workers, OpenGeneration(w) PROVE ViewInv' /\ ViewStep
<1>1. Unloaded(w)
  <2>1. CASE status[worker[w].generation] \in {"building", "active"}
    <3>1. /\ worker[w].pc = "open"
          /\ worker' = [worker EXCEPT ![w].pc = "read",
                         ![w].building = (status[worker[w].generation] = "building")]
      BY <2>1 DEF OpenGeneration
    <3>2. worker \in [Workers -> WorkerStates] /\ worker[w].generation \in Generations
      BY <3>1 DEF ViewInv, Types, Bounded
    <3> DEFINE b == status[worker[w].generation] = "building"
    <3>3. b \in BOOLEAN
      OBVIOUS
    <3> HIDE DEF b
    <3>4. [worker[w] EXCEPT !.pc = "read", !.building = b] \in WorkerStates
      BY <3>2, <3>3 DEF WorkerStates
    <3>5. worker' = [worker EXCEPT ![w] = [worker[w] EXCEPT !.pc = "read", !.building = b]]
      BY <3>1, <3>2 DEF b
    <3>6. worker'[w].pc = "read" /\ worker'[w].generation = worker[w].generation
      BY <3>2, <3>5 DEF WorkerStates
    <3> QED BY <3>2, <3>4, <3>5, <3>6 DEF Unloaded
  <2>2. CASE status[worker[w].generation] \notin {"building", "active"}
    BY <2>2, StoppedUnloaded DEF OpenGeneration
  <2> QED BY <2>1, <2>2
<1> QED BY <1>1, ViewUntouched DEF OpenGeneration, tables

LEMMA ReadKeepsView ==
  ASSUME ViewInv, NEW w \in Workers, ReadBatch(w) PROVE ViewInv' /\ ViewStep
<1> DEFINE g == worker[w].generation
           from == checkpoint[g]
           upto == IF HighWater < from + BatchSize THEN HighWater ELSE from + BatchSize
<1>1. worker[w].pc = "read" /\ UNCHANGED <<ledger, status, checkpoint>>
  BY DEF ReadBatch, tables
<1>2. CASE upto = from
  <2>1. Returned(w)
    BY <1>2 DEF ReadBatch
  <2> QED BY <1>1, <2>1, ReturnedUnloaded, ViewUntouched
<1>3. CASE upto # from
  <2>1. worker' = [worker EXCEPT ![w].pc = "apply", ![w].from = from, ![w].upto = upto]
    BY <1>3 DEF ReadBatch
  <2>2. g \in Generations /\ from \in Nat /\ HighWater \in Nat /\ from <= HighWater
    BY <1>1, HighWaterIsNat DEF ViewInv, Types, Bounded
  <2>3. upto \in Nat /\ from <= upto /\ upto <= HighWater
    BY <2>2, ConstantsAssumption DEF ConstantsAssumption
  <2> HIDE DEF from, upto
  <2>4. worker' \in [Workers -> WorkerStates]
    <3>1. worker \in [Workers -> WorkerStates]
      BY DEF ViewInv, Types
    <3>2. [worker[w] EXCEPT !.pc = "apply", !.from = from, !.upto = upto] \in WorkerStates
      BY <2>2, <2>3, <3>1 DEF WorkerStates
    <3> QED BY <2>1, <3>1, <3>2
  <2>5. Types' /\ HighWater' = HighWater
    BY <1>1, <2>4 DEF ViewInv, Types, HighWater
  <2>6. /\ worker'[w].from = from /\ worker'[w].upto = upto /\ worker'[w].generation = g
        /\ \A v \in Workers \ {w} : worker'[v] = worker[v]
    BY <2>1 DEF ViewInv, Types, WorkerStates
  <2>7. Bounded'
    BY <1>1, <2>2, <2>3, <2>5, <2>6 DEF ViewInv, Types, Bounded
  <2>8. AtMostOneActive' /\ ViewStep
    BY <1>1 DEF ViewInv, Types, AtMostOneActive, ViewStep, IsActive
  <2> QED BY <2>5, <2>7, <2>8 DEF ViewInv
<1> QED BY <1>2, <1>3

LEMMA CommitKeepsView ==
  ASSUME ViewInv, NEW w \in Workers, CommitBatch(w) PROVE ViewInv' /\ ViewStep
<1> DEFINE g == worker[w].generation
           from == worker[w].from
           upto == worker[w].upto
<1>1. worker[w].pc = "apply" /\ UNCHANGED <<ledger, status>>
  BY DEF CommitBatch
<1>2. CASE checkpoint[g] = from
  <2>1. checkpoint' = [checkpoint EXCEPT ![g] = upto]
    BY <1>2 DEF CommitBatch
  <2>2. Advanced
    BY <1>1, <1>2, <2>1 DEF ViewInv, Types, Bounded, Advanced, HighWater, WorkerStates
  <2>3. Returned(w) \/ Goto(w, "read")
    BY <1>2 DEF CommitBatch
  <2>4. Unloaded(w)
    BY <1>1, <2>3, ReturnedUnloaded, MovedUnloaded
  <2> QED BY <1>1, <2>2, <2>4, SameStatus, Undisturbed
<1>3. CASE checkpoint[g] # from
  <2>1. Goto(w, "read") /\ UNCHANGED checkpoint
    BY <1>3 DEF CommitBatch
  <2> QED BY <1>1, <2>1, MovedUnloaded, ViewUntouched
<1> QED BY <1>2, <1>3

LEMMA BatchFailureKeepsView ==
  ASSUME ViewInv, NEW w \in Workers, BatchFails(w) PROVE ViewInv' /\ ViewStep
<1>1. Unloaded(w)
  BY StoppedUnloaded DEF BatchFails
<1>2. worker[w].generation \in Generations
  BY DEF BatchFails, ViewInv, Bounded
<1>3. Demoted
  BY <1>2, FailedIsDemoted, SameStatus DEF BatchFails
<1> QED BY <1>1, <1>3, SameCheckpoint, Undisturbed DEF BatchFails

LEMMA GivingUpKeepsView ==
  ASSUME ViewInv, NEW w \in Workers, ActivationFails(w) PROVE ViewInv' /\ ViewStep
<1>1. Unloaded(w)
  BY StoppedUnloaded DEF ActivationFails
<1>2. worker[w].generation \in Generations
  BY DEF ActivationFails, ViewInv, Bounded
<1>3. Demoted
  BY <1>2, FailedIsDemoted DEF ActivationFails
<1> QED BY <1>1, <1>3, SameCheckpoint, Undisturbed DEF ActivationFails

LEMMA NextRoundKeepsView ==
  ASSUME ViewInv, NEW w \in Workers, NextRound(w) PROVE ViewInv' /\ ViewStep
<1>1. Unloaded(w)
  BY DEF NextRound, ViewInv, Types, Bounded, WorkerStates, Unloaded
<1> QED BY <1>1, ViewUntouched DEF NextRound, tables

\* The generation that takes over has seen all of the ledger.
LEMMA ActivationKeepsView ==
  ASSUME ViewInv, NEW w \in Workers, Activate(w) PROVE ViewInv' /\ ViewStep
<1> DEFINE g == worker[w].generation
<1>1. g \in Generations /\ checkpoint[g] = HighWater /\ UNCHANGED <<ledger, checkpoint>>
  BY DEF Activate, ViewInv, Bounded
<1>2. status' = [h \in Generations |-> IF h = g THEN "active"
                                       ELSE IF IsActive(h) THEN "retired" ELSE status[h]]
  BY DEF Activate, Promote
<1>3. Unloaded(w)
  BY StoppedUnloaded DEF Activate
<1>4. status' \in [Generations -> Statuses]
  BY <1>2 DEF ViewInv, Types, Statuses
<1>5. Types' /\ HighWater' = HighWater
  BY <1>1, <1>3, <1>4 DEF ViewInv, Types, Unloaded, HighWater
<1>6. Bounded'
  BY <1>1, <1>3, <1>5 DEF ViewInv, Bounded, Unloaded
<1>7. \A h \in Generations : status'[h] = "active" <=> h = g
  BY <1>1, <1>2 DEF IsActive
<1>8. AtMostOneActive'
  BY <1>7 DEF AtMostOneActive, IsActive
<1>9. ViewStep
  BY <1>1, <1>7 DEF ViewInv, Bounded, ViewStep
<1> QED BY <1>5, <1>6, <1>8, <1>9 DEF ViewInv

LEMMA CrashKeepsView ==
  ASSUME ViewInv, NEW w \in Workers, Crash(w) PROVE ViewInv' /\ ViewStep
BY StoppedUnloaded, ViewUntouched DEF Crash, tables

LEMMA InitIsView == Init => ViewInv
<1> SUFFICES ASSUME Init PROVE ViewInv
  OBVIOUS
<1>1. Types
  BY DEF Init, Types, Statuses, WorkerStates, IdleWorker, HighWater
<1>2. Bounded
  BY DEF Init, Bounded, IdleWorker, HighWater
<1>3. AtMostOneActive
  BY StatusNames DEF Init, AtMostOneActive, IsActive
<1> QED BY <1>1, <1>2, <1>3 DEF ViewInv

LEMMA NextKeepsView == ViewInv /\ [Next]_vars => ViewInv' /\ [ViewStep]_vars
<1> SUFFICES ASSUME ViewInv, [Next]_vars PROVE ViewInv' /\ [ViewStep]_vars
  OBVIOUS
<1>1. ASSUME NEW a \in Executions \cup Foreign, NEW type \in EventTypes \cup {None},
             AppendEvent(a, type)
      PROVE  ViewInv' /\ ViewStep
  BY <1>1, AppendKeepsView
<1>2. ASSUME NEW w \in Workers, CallerStep(w) PROVE ViewInv' /\ ViewStep
  BY <1>2, CreateKeepsView, BeginKeepsView DEF CallerStep
<1>3. ASSUME NEW w \in Workers, WorkerStep(w) PROVE ViewInv' /\ ViewStep
  BY <1>3, OpenKeepsView, ReadKeepsView, CommitKeepsView, ActivationKeepsView,
     NextRoundKeepsView, GivingUpKeepsView DEF WorkerStep
<1>4. ASSUME NEW w \in Workers, BatchFails(w) \/ Crash(w) PROVE ViewInv' /\ ViewStep
  BY <1>4, BatchFailureKeepsView, CrashKeepsView
<1>5. CASE UNCHANGED vars
  BY <1>5 DEF vars, ViewInv, Types, Bounded, AtMostOneActive, IsActive, HighWater
<1> QED BY <1>1, <1>2, <1>3, <1>4, <1>5 DEF Next

LEMMA ViewStands == Spec => []ViewInv
BY InitIsView, NextKeepsView, PTL DEF Spec

\* listRuns never has two generations to choose from: activation is one
\* transaction that retires the active generation (execution-projections.js).
THEOREM OneActiveGeneration == Spec => []AtMostOneActive
<1>1. ViewInv => AtMostOneActive
  BY DEF ViewInv
<1> QED BY <1>1, ViewStands, PTL

\* What readers of the active projection have seen stays seen: checkpoints only
\* move forward, and a generation that takes over has reached the high-water mark.
THEOREM ReadersNeverGoBack == Spec => ViewNeverRegresses
BY ViewStands, NextKeepsView, PTL DEF Spec, ViewNeverRegresses

-----------------------------------------------------------------------------
(* The work of a round runs out.                                           *)

\* A batch at hand holds events, and begins where the checkpoint was.
Loaded(w) ==
  worker[w].pc = "apply" =>
    worker[w].from < worker[w].upto /\ worker[w].from <= checkpoint[worker[w].generation]

WorkInv == \A w \in Workers : Loaded(w)

\* What WorkStep asks of the worker that takes the step.
LessWork(w) ==
  AtWork(w) /\ AtWork(w)' =>
    \/ worker'[w].round = worker[w].round + 1
    \/ /\ worker'[w].round = worker[w].round
       /\ \/ EventsLeft(w)' < EventsLeft(w)
          \/ EventsLeft(w)' = EventsLeft(w) /\ StepsLeft(w)' < StepsLeft(w)

\* A worker that stands still keeps its batch, and others only lessen its work.
LEMMA OthersLessenWork ==
  ASSUME ViewInv, WorkInv, UNCHANGED ledger, Advanced, NEW v \in Workers, worker'[v] = worker[v]
  PROVE  Loaded(v)' /\ (AtWork(v) => EventsLeft(v)' <= EventsLeft(v))
<1>1. CASE worker[v].pc = "idle"
  BY <1>1 DEF Loaded, AtWork
<1>2. CASE worker[v].pc # "idle"
  <2>1. /\ worker[v].generation \in Generations /\ worker[v] \in WorkerStates
        /\ HighWater \in Nat /\ HighWater' = HighWater
    BY <1>2, HighWaterIsNat DEF ViewInv, Types, Bounded, HighWater
  <2>2. /\ checkpoint[worker[v].generation] \in Nat
        /\ checkpoint'[worker[v].generation] \in Nat
        /\ checkpoint[worker[v].generation] <= checkpoint'[worker[v].generation]
    BY <2>1 DEF ViewInv, Types, Advanced
  <2>3. worker[v].from \in Nat /\ worker[v].upto \in Nat
    BY <2>1 DEF WorkerStates
  <2>4. Loaded(v)'
    BY <2>2, <2>3 DEF WorkInv, Loaded
  <2>5. EventsLeft(v)' <= EventsLeft(v)
    BY <2>1, <2>2, <2>3 DEF EventsLeft
  <2> QED BY <2>4, <2>5
<1> QED BY <1>1, <1>2

\* One worker's step, its own part of it given.
LEMMA OneWorks ==
  ASSUME ViewInv, WorkInv, UNCHANGED ledger, Advanced, NEW w \in Workers,
         \A v \in Workers \ {w} : worker'[v] = worker[v], Loaded(w)', LessWork(w)
  PROVE  WorkInv' /\ WorkStep
<1>1. WorkInv'
  BY OthersLessenWork DEF WorkInv
<1>2. ASSUME NEW v \in Workers, AtWork(v), AtWork(v)', worker'[v] = worker[v]
      PROVE  EventsLeft(v)' <= EventsLeft(v)
  BY <1>2, OthersLessenWork
<1>3. ASSUME NEW v \in Workers, AtWork(v), AtWork(v)', worker'[v] # worker[v]
      PROVE  \/ worker'[v].round = worker[v].round + 1
             \/ /\ worker'[v].round = worker[v].round
                /\ \/ EventsLeft(v)' < EventsLeft(v)
                   \/ EventsLeft(v)' = EventsLeft(v) /\ StepsLeft(v)' < StepsLeft(v)
  BY <1>3 DEF LessWork
<1> QED BY <1>1, <1>2, <1>3 DEF WorkStep

LEMMA StoppingWorks ==
  ASSUME ViewInv, WorkInv, UNCHANGED <<ledger, checkpoint>>, NEW w \in Workers, Stop(w)
  PROVE  WorkInv' /\ WorkStep
<1>1. worker'[w].pc = "idle" /\ \A v \in Workers \ {w} : worker'[v] = worker[v]
  BY Stopped DEF ViewInv
<1>2. Loaded(w)' /\ LessWork(w)
  BY <1>1 DEF Loaded, LessWork, AtWork
<1> QED BY <1>1, <1>2, SameCheckpoint, OneWorks

\* A worker goes on to a statement before its next batch, with fewer left.
LEMMA GoingWorks ==
  ASSUME ViewInv, WorkInv, UNCHANGED <<ledger, checkpoint>>, NEW w \in Workers,
         NEW pc \in {"read", "activate"}, NEW b \in BOOLEAN,
         \/ worker[w].pc = "open" /\ pc = "read"
         \/ worker[w].pc = "read" /\ pc = "activate"
         \/ worker[w].pc = "apply" /\ pc = "read"
            /\ checkpoint[worker[w].generation] # worker[w].from,
         worker' = [worker EXCEPT ![w].pc = pc, ![w].building = b]
  PROVE  WorkInv' /\ WorkStep
<1>1. /\ worker \in [Workers -> WorkerStates] /\ worker[w].generation \in Generations
      /\ HighWater \in Nat /\ HighWater' = HighWater
  BY HighWaterIsNat DEF ViewInv, Types, Bounded, HighWater
<1>2. /\ worker'[w].pc = pc /\ worker'[w].round = worker[w].round
      /\ worker'[w].generation = worker[w].generation
      /\ \A v \in Workers \ {w} : worker'[v] = worker[v]
  BY <1>1 DEF WorkerStates
<1>3. checkpoint[worker[w].generation] \in Nat /\ worker[w].from \in Nat /\ worker[w].upto \in Nat
  BY <1>1 DEF ViewInv, Types, WorkerStates
<1>4. Loaded(w)'
  BY <1>2 DEF Loaded
<1>5. EventsLeft(w)' = HighWater - checkpoint[worker[w].generation]
  BY <1>1, <1>2 DEF EventsLeft
<1>6. CASE worker[w].pc = "apply"
  <2>1. worker[w].from < checkpoint[worker[w].generation]
    BY <1>3, <1>6 DEF WorkInv, Loaded
  <2>2. EventsLeft(w) = HighWater - worker[w].from
    BY <1>6 DEF EventsLeft
  <2>3. LessWork(w)
    BY <1>1, <1>2, <1>3, <1>5, <2>1, <2>2 DEF LessWork
  <2> QED BY <1>2, <1>4, <2>3, SameCheckpoint, OneWorks
<1>7. CASE worker[w].pc # "apply"
  <2>1. EventsLeft(w)' = EventsLeft(w)
    BY <1>5, <1>7 DEF EventsLeft
  <2>2. StepsLeft(w)' < StepsLeft(w)
    BY <1>2, <1>7 DEF StepsLeft
  <2>3. LessWork(w)
    BY <1>2, <2>1, <2>2 DEF LessWork
  <2> QED BY <1>2, <1>4, <2>3, SameCheckpoint, OneWorks
<1> QED BY <1>6, <1>7

LEMMA GotoIsGoing ==
  ASSUME ViewInv, NEW w \in Workers, NEW pc, Goto(w, pc)
  PROVE  /\ worker[w].building \in BOOLEAN
         /\ worker' = [worker EXCEPT ![w].pc = pc, ![w].building = worker[w].building]
<1>1. worker \in [Workers -> WorkerStates]
  BY DEF ViewInv, Types
<1>2. worker[w].building \in BOOLEAN
  BY <1>1 DEF WorkerStates
<1>3. [worker[w] EXCEPT !.pc = pc] = [worker[w] EXCEPT !.pc = pc, !.building = worker[w].building]
  BY <1>1 DEF WorkerStates
<1>4. worker' = [worker EXCEPT ![w] = [worker[w] EXCEPT !.pc = pc]]
  BY <1>1 DEF Goto
<1> QED BY <1>2, <1>3, <1>4

LEMMA CallersWork ==
  ASSUME ViewInv, WorkInv, NEW w \in Workers, CallerStep(w) PROVE WorkInv' /\ WorkStep
<1>1. UNCHANGED <<ledger, checkpoint>> /\ worker[w].pc = "idle"
  BY DEF CallerStep, CreateGeneration, BeginReconcile, tables
<1>2. worker'[w].pc = "open" /\ \A v \in Workers \ {w} : worker'[v] = worker[v]
  BY DEF CallerStep, CreateGeneration, BeginReconcile, IdleWorker, ViewInv, Types
<1>3. Loaded(w)' /\ LessWork(w)
  BY <1>1, <1>2 DEF Loaded, LessWork, AtWork
<1> QED BY <1>1, <1>2, <1>3, SameCheckpoint, OneWorks

LEMMA OpeningWorks ==
  ASSUME ViewInv, WorkInv, NEW w \in Workers, OpenGeneration(w) PROVE WorkInv' /\ WorkStep
<1>1. UNCHANGED <<ledger, checkpoint>> /\ worker[w].pc = "open"
  BY DEF OpenGeneration, tables
<1>2. CASE status[worker[w].generation] \in {"building", "active"}
  <2> DEFINE b == status[worker[w].generation] = "building"
  <2>1. b \in BOOLEAN /\ worker' = [worker EXCEPT ![w].pc = "read", ![w].building = b]
    BY <1>2 DEF OpenGeneration
  <2> HIDE DEF b
  <2> QED BY <1>1, <2>1, GoingWorks
<1>3. CASE status[worker[w].generation] \notin {"building", "active"}
  BY <1>1, <1>3, StoppingWorks DEF OpenGeneration
<1> QED BY <1>2, <1>3

LEMMA ReadingWorks ==
  ASSUME ViewInv, WorkInv, NEW w \in Workers, ReadBatch(w) PROVE WorkInv' /\ WorkStep
<1> DEFINE g == worker[w].generation
           from == checkpoint[g]
           upto == IF HighWater < from + BatchSize THEN HighWater ELSE from + BatchSize
<1>1. worker[w].pc = "read" /\ UNCHANGED <<ledger, checkpoint>>
  BY DEF ReadBatch, tables
<1>2. CASE upto = from
  <2>1. Returned(w)
    BY <1>2 DEF ReadBatch
  <2>2. CASE Stop(w)
    BY <1>1, <2>2, StoppingWorks
  <2>3. CASE Goto(w, "activate")
    <3> DEFINE b == worker[w].building
    <3>1. b \in BOOLEAN /\ worker' = [worker EXCEPT ![w].pc = "activate", ![w].building = b]
      BY <2>3, GotoIsGoing
    <3> HIDE DEF b
    <3> QED BY <1>1, <3>1, GoingWorks
  <2> QED BY <2>1, <2>2, <2>3 DEF Returned
<1>3. CASE upto # from
  <2>1. worker' = [worker EXCEPT ![w].pc = "apply", ![w].from = from, ![w].upto = upto]
    BY <1>3 DEF ReadBatch
  <2>2. /\ g \in Generations /\ from \in Nat /\ HighWater \in Nat /\ from <= HighWater
        /\ HighWater' = HighWater
    BY <1>1, HighWaterIsNat DEF ViewInv, Types, Bounded, HighWater
  <2>3. from < upto
    BY <1>3, <2>2, ConstantsAssumption DEF ConstantsAssumption
  <2> HIDE DEF upto
  <2>4. /\ worker'[w].pc = "apply" /\ worker'[w].from = from /\ worker'[w].upto = upto
        /\ worker'[w].generation = g /\ worker'[w].round = worker[w].round
        /\ \A v \in Workers \ {w} : worker'[v] = worker[v]
    BY <2>1 DEF ViewInv, Types, WorkerStates
  <2>5. Loaded(w)'
    BY <1>1, <2>2, <2>3, <2>4 DEF Loaded
  <2>6. EventsLeft(w)' = EventsLeft(w)
    BY <1>1, <2>2, <2>4 DEF EventsLeft
  <2>7. StepsLeft(w)' < StepsLeft(w)
    BY <1>1, <2>4 DEF StepsLeft
  <2>8. LessWork(w)
    BY <2>4, <2>6, <2>7 DEF LessWork
  <2> QED BY <1>1, <2>4, <2>5, <2>8, SameCheckpoint, OneWorks
<1> QED BY <1>2, <1>3

LEMMA CommittingWorks ==
  ASSUME ViewInv, WorkInv, NEW w \in Workers, CommitBatch(w) PROVE WorkInv' /\ WorkStep
<1> DEFINE g == worker[w].generation
           from == worker[w].from
           upto == worker[w].upto
<1>1. worker[w].pc = "apply" /\ UNCHANGED <<ledger, status>>
  BY DEF CommitBatch
<1>2. CASE checkpoint[g] = from
  <2>1. /\ checkpoint' = [checkpoint EXCEPT ![g] = upto]
        /\ Stop(w) \/ Goto(w, "activate") \/ Goto(w, "read")
    BY <1>2 DEF CommitBatch, Returned
  <2>2. /\ g \in Generations /\ worker[w] \in WorkerStates /\ from \in Nat /\ upto \in Nat
        /\ HighWater \in Nat /\ HighWater' = HighWater /\ from < upto
    BY <1>1, HighWaterIsNat DEF ViewInv, Types, Bounded, WorkerStates, WorkInv, Loaded, HighWater
  <2>3. Advanced /\ checkpoint'[g] = upto
    BY <1>1, <1>2, <2>1, <2>2 DEF ViewInv, Types, Bounded, Advanced
  <2>4. CASE Stop(w)
    <3>1. worker'[w].pc = "idle" /\ \A v \in Workers \ {w} : worker'[v] = worker[v]
      BY <2>4, Stopped DEF ViewInv
    <3>2. Loaded(w)' /\ LessWork(w)
      BY <3>1 DEF Loaded, LessWork, AtWork
    <3> QED BY <1>1, <2>3, <3>1, <3>2, OneWorks
  <2>5. ASSUME NEW pc \in {"read", "activate"}, Goto(w, pc) PROVE WorkInv' /\ WorkStep
    <3>1. /\ worker'[w].pc = pc /\ worker'[w].generation = g
          /\ worker'[w].round = worker[w].round
          /\ \A v \in Workers \ {w} : worker'[v] = worker[v]
      BY <2>5 DEF Goto, ViewInv, Types, WorkerStates
    <3>2. Loaded(w)'
      BY <3>1 DEF Loaded
    <3>3. EventsLeft(w) = HighWater - from /\ EventsLeft(w)' = HighWater - upto
      BY <1>1, <2>2, <2>3, <3>1 DEF EventsLeft
    <3>4. LessWork(w)
      BY <2>2, <3>1, <3>3 DEF LessWork
    <3> QED BY <1>1, <2>3, <3>1, <3>2, <3>4, OneWorks
  <2> QED BY <2>1, <2>4, <2>5
<1>3. CASE checkpoint[g] # from
  <2>1. Goto(w, "read") /\ UNCHANGED checkpoint
    BY <1>3 DEF CommitBatch
  <2> QED BY <1>1, <1>3, <2>1, GotoIsGoing, GoingWorks
<1> QED BY <1>2, <1>3

LEMMA NextRoundWorks ==
  ASSUME ViewInv, WorkInv, NEW w \in Workers, NextRound(w) PROVE WorkInv' /\ WorkStep
<1>1. UNCHANGED <<ledger, checkpoint>>
  BY DEF NextRound, tables
<1>2. /\ worker'[w].pc = "open" /\ worker'[w].round = worker[w].round + 1
      /\ \A v \in Workers \ {w} : worker'[v] = worker[v]
  BY DEF NextRound, ViewInv, Types, WorkerStates
<1>3. Loaded(w)' /\ LessWork(w)
  BY <1>2 DEF Loaded, LessWork
<1> QED BY <1>1, <1>2, <1>3, SameCheckpoint, OneWorks

LEMMA AppendingWorks ==
  ASSUME ViewInv, WorkInv, NEW a \in Executions \cup Foreign, NEW type \in EventTypes \cup {None},
         AppendEvent(a, type)
  PROVE  WorkInv' /\ WorkStep
<1>1. UNCHANGED <<checkpoint, worker>>
  BY DEF AppendEvent
<1>2. WorkInv'
  BY <1>1 DEF WorkInv, Loaded
<1>3. ledger' # ledger
  <2>1. HighWater \in Nat /\ HighWater' = HighWater + 1
    <3>1. [aggregate |-> a, type |-> type] \in Events
      BY DEF Events
    <3> QED BY <3>1 DEF ViewInv, Types, AppendEvent, HighWater
  <2> QED BY <2>1 DEF HighWater
<1> QED BY <1>2, <1>3 DEF WorkStep

LEMMA NextWorks == ViewInv /\ WorkInv /\ [Next]_vars => WorkInv' /\ [WorkStep]_vars
<1> SUFFICES ASSUME ViewInv, WorkInv, [Next]_vars PROVE WorkInv' /\ [WorkStep]_vars
  OBVIOUS
<1>1. ASSUME NEW a \in Executions \cup Foreign, NEW type \in EventTypes \cup {None},
             AppendEvent(a, type)
      PROVE  WorkInv' /\ WorkStep
  BY <1>1, AppendingWorks
<1>2. ASSUME NEW w \in Workers, CallerStep(w) PROVE WorkInv' /\ WorkStep
  BY <1>2, CallersWork
<1>3. ASSUME NEW w \in Workers, WorkerStep(w) PROVE WorkInv' /\ WorkStep
  <2>1. CASE Activate(w) \/ ActivationFails(w)
    BY <2>1, StoppingWorks DEF Activate, ActivationFails
  <2> QED BY <1>3, <2>1, OpeningWorks, ReadingWorks, CommittingWorks, NextRoundWorks DEF WorkerStep
<1>4. ASSUME NEW w \in Workers, BatchFails(w) \/ Crash(w) PROVE WorkInv' /\ WorkStep
  BY <1>4, StoppingWorks DEF BatchFails, Crash, tables
<1>5. CASE UNCHANGED vars
  BY <1>5 DEF vars, WorkInv, Loaded
<1> QED BY <1>1, <1>2, <1>3, <1>4, <1>5 DEF Next

\* A worker that goes on begins its next round or has less to do in this one,
\* whatever others commit and however the ledger grew (the loop of
\* reconcileGeneration and the rounds of rebuild, execution-projections.js):
\* between two appends a worker takes finitely many steps.
THEOREM WorkRunsOut == Spec => WorkDiminishes
<1>1. Init => WorkInv
  BY DEF Init, WorkInv, Loaded, IdleWorker
<1>2. ViewInv /\ WorkInv /\ [Next]_vars => WorkInv' /\ [WorkStep]_vars
  BY NextWorks
<1> QED BY <1>1, <1>2, ViewStands, PTL DEF Spec, WorkDiminishes
-----------------------------------------------------------------------------
(* A generation is a prefix of the ledger.                                 *)

LEMMA LeastNatural ==
  ASSUME NEW T, T \subseteq Nat, T # {}
  PROVE  \E m \in T : \A n \in T : m <= n
<1>1. IsWellFoundedOn(OpToRel(<, Nat), Nat)
  BY NatLessThanWellFounded
<1>2. PICK m \in T : \A n \in T : ~(<<n, m>> \in OpToRel(<, Nat))
  BY <1>1, WFMin
<1>3. \A n \in T : ~(n < m)
  BY <1>2 DEF OpToRel
<1> QED
  BY <1>3

\* A set of naturals that is closed under successors from 0 on has them all.
LEMMA EveryNatural ==
  ASSUME NEW T, T \subseteq Nat, 0 \in T, \A k \in T : k + 1 \in T
  PROVE  T = Nat
<1> SUFFICES ASSUME Nat \ T # {} PROVE FALSE
  OBVIOUS
<1>1. PICK m \in Nat \ T : \A n \in Nat \ T : m <= n
  BY LeastNatural
<1>2. m - 1 \in Nat /\ m - 1 \in T
  BY <1>1
<1> QED
  BY <1>1, <1>2

LEMMA GreatestOf ==
  ASSUME NEW n \in Nat, NEW S \in SUBSET (1..n), S # {}
  PROVE  \E p \in S : \A q \in S : q <= p
<1> DEFINE T == {b \in Nat : \A q \in S : q <= b}
<1>1. n \in T
  OBVIOUS
<1>2. PICK b \in T : \A c \in T : b <= c
  BY <1>1, LeastNatural
<1>3. b \in S
  <2> SUFFICES ASSUME b \notin S PROVE FALSE
    OBVIOUS
  <2>1. \A q \in S : q <= b - 1
    BY <1>2
  <2>2. b - 1 \in Nat
    <3>1. PICK q \in S : TRUE
      OBVIOUS
    <3>2. q \in 1..n /\ q <= b - 1 /\ b \in Nat
      BY <2>1, <3>1
    <3> QED
      BY <3>2
  <2> QED
    BY <1>2, <2>1, <2>2
<1> QED
  BY <1>2, <1>3

\* The function a fold of ApplyEvent over the positions of a batch stands for.
Folds(f, projected, from, n) ==
  f = [s \in SUBSET (1..n) |->
         IF s = {} THEN projected ELSE ApplyEvent(f[s \ {Max(s)}], from + Max(s))]

LEMMA MaxFacts ==
  ASSUME NEW n \in Nat, NEW s \in SUBSET (1..n), NEW m \in s, \A k \in s : k <= m
  PROVE  Max(s) = m
<1> DEFINE Greatest(x) == x \in s /\ \A y \in s : x >= y
<1>1. Greatest(m)
  OBVIOUS
<1>2. ASSUME NEW x, Greatest(x) PROVE x = m
  <2>1. x \in Nat /\ m \in Nat /\ x >= m /\ x <= m
    BY <1>2
  <2> QED
    BY <2>1
<1>3. Max(s) = CHOOSE x : Greatest(x)
  BY Zenon DEF Max
<1> HIDE DEF Greatest
<1> QED
  BY <1>1, <1>2, <1>3

\* Such a function exists for every length.
LEMMA FoldExists ==
  ASSUME NEW projected, NEW from \in Nat, NEW n \in Nat
  PROVE  \E f : Folds(f, projected, from, n)
<1> DEFINE T == {k \in Nat : \E f : Folds(f, projected, from, k)}
<1>1. 0 \in T
  <2> DEFINE f == [s \in SUBSET (1..0) |-> projected]
  <2>1. \A s \in SUBSET (1..0) : s = {}
    OBVIOUS
  <2>2. Folds(f, projected, from, 0)
    BY <2>1 DEF Folds
  <2> QED
    BY <2>2
<1>2. ASSUME NEW k \in T
      PROVE  k + 1 \in T
  <2>1. PICK f : Folds(f, projected, from, k)
    OBVIOUS
  <2> DEFINE g == [s \in SUBSET (1..(k + 1)) |->
                     IF k + 1 \in s THEN ApplyEvent(f[s \ {k + 1}], from + (k + 1)) ELSE f[s]]
  <2>2. \A s \in SUBSET (1..(k + 1)) : k + 1 \in s => Max(s) = k + 1
    BY MaxFacts
  <2>3. \A s \in SUBSET (1..(k + 1)) : s \ {k + 1} \in SUBSET (1..k)
    OBVIOUS
  <2>4. \A s \in SUBSET (1..k) : k + 1 \notin s /\ s \in SUBSET (1..(k + 1))
    OBVIOUS
  <2>5. \A s \in SUBSET (1..k) : g[s] = f[s]
    BY <2>4
  <2>6. ASSUME NEW s \in SUBSET (1..(k + 1))
        PROVE  g[s] = IF s = {} THEN projected ELSE ApplyEvent(g[s \ {Max(s)}], from + Max(s))
    <3>1. CASE k + 1 \in s
      <4>1. g[s] = ApplyEvent(f[s \ {k + 1}], from + (k + 1)) /\ s # {}
        BY <3>1
      <4>2. f[s \ {k + 1}] = g[s \ {k + 1}] /\ Max(s) = k + 1
        BY <2>2, <2>3, <2>5, <3>1
      <4> QED
        BY <4>1, <4>2
    <3>2. CASE k + 1 \notin s
      <4>1. s \in SUBSET (1..k) /\ g[s] = f[s]
        BY <2>3, <3>2
      <4>2. f[s] = IF s = {} THEN projected ELSE ApplyEvent(f[s \ {Max(s)}], from + Max(s))
        BY <2>1, <4>1 DEF Folds
      <4>3. s \ {Max(s)} \in SUBSET (1..k)
        BY <4>1
      <4> QED
        BY <2>5, <4>1, <4>2, <4>3
    <3> QED
      BY <3>1, <3>2
  <2>7. g = [s \in SUBSET (1..(k + 1)) |-> g[s]]
    OBVIOUS
  <2> HIDE DEF g
  <2>8. Folds(g, projected, from, k + 1)
    BY <2>6, <2>7 DEF Folds
  <2>9. k + 1 \in Nat
    OBVIOUS
  <2> QED
    BY <2>8, <2>9
<1> HIDE DEF T
<1>3. T \subseteq Nat
  BY DEF T
<1>4. T = Nat
  BY <1>1, <1>2, <1>3, EveryNatural
<1> QED
  BY <1>4 DEF T

LEMMA BatchIsFold ==
  ASSUME NEW projected, NEW from \in Nat, NEW upto \in Nat, from <= upto
  PROVE  \E f : /\ Folds(f, projected, from, upto - from)
                /\ ApplyBatch(projected, from, upto) = f[1..(upto - from)]
<1> DEFINE n == upto - from
           q == [i \in 1..n |-> from + i]
           IsFold(f) == f = [s \in SUBSET (DOMAIN q) |->
                               IF s = {} THEN projected
                               ELSE LET m == Max(s) IN ApplyEvent(f[s \ {m}], q[m])]
           f == CHOOSE f : IsFold(f)
<1>1. n \in Nat /\ DOMAIN q = 1..n
  OBVIOUS
<1>2. ApplyBatch(projected, from, upto) = f[DOMAIN q]
  BY Zenon DEF ApplyBatch, FoldLeft, MapThenFoldSet
<1>3. ASSUME NEW g
      PROVE  Folds(g, projected, from, n) <=> IsFold(g)
  <2>1. \A s \in SUBSET (1..n) : s # {} => Max(s) \in 1..n
    <3> SUFFICES ASSUME NEW s \in SUBSET (1..n), s # {} PROVE Max(s) \in 1..n
      OBVIOUS
    <3>1. PICK m \in s : \A k \in s : k <= m
      BY <1>1, GreatestOf
    <3> QED
      BY <1>1, <3>1, MaxFacts
  <2>2. \A s \in SUBSET (1..n) : s # {} => q[Max(s)] = from + Max(s)
    BY <2>1
  <2> DEFINE A == [s \in SUBSET (1..n) |->
                     IF s = {} THEN projected ELSE ApplyEvent(g[s \ {Max(s)}], from + Max(s))]
             B == [s \in SUBSET (DOMAIN q) |->
                     IF s = {} THEN projected
                     ELSE LET m == Max(s) IN ApplyEvent(g[s \ {m}], q[m])]
  <2>3. A = B
    BY <1>1, <2>2
  <2> QED
    BY <2>3 DEF Folds
<1>4. \E g : IsFold(g)
  <2>1. PICK g : Folds(g, projected, from, n)
    <3> HIDE DEF n
    <3> QED
      BY <1>1, FoldExists
  <2>2. IsFold(g)
    BY <1>3, <2>1
  <2> HIDE DEF IsFold
  <2> QED
    BY <2>2
<1>5. IsFold(f)
  <2> HIDE DEF IsFold
  <2> QED
    BY <1>4
<1> HIDE DEF f, IsFold, q
<1> QED
  BY <1>1, <1>2, <1>3, <1>5
\* What the rows of a generation at a checkpoint are.
Prefix(n) == [o \in Executions |-> LatestRun(o, n)]

LEMMA LatestIs ==
  ASSUME NEW o, NEW n \in Nat, NEW p \in 1..n, ledger[p].aggregate = o,
         \A q \in 1..n : ledger[q].aggregate = o => q <= p
  PROVE  LatestRun(o, n) = RunAt(p)
<1> DEFINE S == {q \in 1..n : ledger[q].aggregate = o}
           Latest(m) == m \in S /\ \A q \in S : q <= m
<1>1. Latest(p)
  OBVIOUS
<1>2. ASSUME NEW m, Latest(m) PROVE m = p
  <2>1. m \in Nat /\ p \in Nat /\ m <= p /\ p <= m
    BY <1>1, <1>2
  <2> QED
    BY <2>1
<1>3. LatestRun(o, n) = RunAt(CHOOSE m : Latest(m))
  BY <1>1, Zenon DEF LatestRun
<1> HIDE DEF Latest
<1> QED
  BY <1>1, <1>2, <1>3

LEMMA NoLatest ==
  ASSUME NEW o, NEW n \in Nat, \A q \in 1..n : ledger[q].aggregate # o
  PROVE  LatestRun(o, n) = None
<1>1. {q \in 1..n : ledger[q].aggregate = o} = {}
  OBVIOUS
<1> QED
  BY <1>1 DEF LatestRun

\* An execution either has no event among the first n or a last one.
LEMMA LatestCases ==
  ASSUME NEW o, NEW n \in Nat
  PROVE  \/ \A q \in 1..n : ledger[q].aggregate # o
         \/ \E p \in 1..n : /\ ledger[p].aggregate = o
                            /\ \A q \in 1..n : ledger[q].aggregate = o => q <= p
<1> DEFINE S == {q \in 1..n : ledger[q].aggregate = o}
<1>1. CASE S = {}
  BY <1>1
<1>2. CASE S # {}
  <2>1. PICK p \in S : \A q \in S : q <= p
    BY <1>2, GreatestOf
  <2> QED
    BY <2>1
<1> QED
  BY <1>1, <1>2

LEMMA SequencesAreSmall ==
  ASSUME NEW p \in Nat \ {0}
  PROVE  StreamSequence(p) \in 1..p
<1> DEFINE S == {q \in 1..p : ledger[q].aggregate = ledger[p].aggregate}
<1>1. IsFiniteSet(1..p) /\ Cardinality(1..p) = p
  BY FS_Interval
<1>2. IsFiniteSet(S) /\ Cardinality(S) <= p
  BY <1>1, FS_Subset
<1>3. p \in S
  OBVIOUS
<1>4. Cardinality(S) \in Nat /\ Cardinality(S) # 0
  BY <1>2, <1>3, FS_CardinalityType, FS_EmptySet
<1> QED
  BY <1>2, <1>4 DEF StreamSequence

\* stream_sequence grows along the events of an aggregate.
LEMMA SequencesGrow ==
  ASSUME NEW p \in Nat \ {0}, NEW m \in 1..(p - 1), ledger[m].aggregate = ledger[p].aggregate
  PROVE  StreamSequence(m) < StreamSequence(p)
<1> DEFINE A == {q \in 1..m : ledger[q].aggregate = ledger[m].aggregate}
           B == {q \in 1..p : ledger[q].aggregate = ledger[p].aggregate}
<1>1. IsFiniteSet(1..p)
  BY FS_Interval
<1>2. IsFiniteSet(B)
  BY <1>1, FS_Subset
<1>3. A \in SUBSET B /\ p \in B /\ p \notin A
  OBVIOUS
<1>4. IsFiniteSet(A) /\ Cardinality(A) <= Cardinality(B) /\ Cardinality(A) # Cardinality(B)
  BY <1>2, <1>3, FS_Subset
<1>5. Cardinality(A) \in Nat /\ Cardinality(B) \in Nat
  BY <1>2, <1>4, FS_CardinalityType
<1> QED
  BY <1>4, <1>5 DEF StreamSequence

\* Applying the event after a prefix gives the next prefix: the event of an
\* execution is never mistaken for one its row already covers.
LEMMA ApplyExtends ==
  ASSUME ledger \in Seq(Events), NEW p \in 1..HighWater
  PROVE  ApplyEvent(Prefix(p - 1), p) = Prefix(p)
<1> DEFINE a == ledger[p].aggregate
<1>1. p \in Nat \ {0} /\ p - 1 \in Nat /\ a \in Executions \cup Foreign
  <2>1. p \in 1..Len(ledger) /\ Len(ledger) \in Nat
    BY DEF HighWater
  <2>2. p \in Nat \ {0} /\ p - 1 \in Nat
    BY <2>1
  <2>3. ledger[p] \in Events
    BY <2>1
  <2> QED
    BY <2>2, <2>3 DEF Events
<1>2. ASSUME NEW o \in Executions, o # a
      PROVE  LatestRun(o, p) = LatestRun(o, p - 1)
  <2>1. CASE \A q \in 1..(p - 1) : ledger[q].aggregate # o
    <3>1. \A q \in 1..p : ledger[q].aggregate # o
      BY <1>1, <1>2, <2>1
    <3> QED
      BY <1>1, <2>1, <3>1, NoLatest
  <2>2. ASSUME NEW m \in 1..(p - 1), ledger[m].aggregate = o,
               \A q \in 1..(p - 1) : ledger[q].aggregate = o => q <= m
        PROVE  LatestRun(o, p) = LatestRun(o, p - 1)
    <3>1. m \in 1..p /\ \A q \in 1..p : ledger[q].aggregate = o => q <= m
      BY <1>1, <1>2, <2>2
    <3>2. LatestRun(o, p) = RunAt(m)
      BY <1>1, <2>2, <3>1, LatestIs
    <3>3. LatestRun(o, p - 1) = RunAt(m)
      BY <1>1, <2>2, LatestIs
    <3> QED
      BY <3>2, <3>3
  <2> QED
    BY <1>1, <2>1, <2>2, LatestCases
<1>3. CASE a \in Foreign
  <2>1. ApplyEvent(Prefix(p - 1), p) = Prefix(p - 1)
    BY <1>3 DEF ApplyEvent
  <2>2. \A o \in Executions : o # a
    BY <1>3, ConstantsAssumption DEF ConstantsAssumption
  <2> QED
    BY <1>2, <2>1, <2>2 DEF Prefix
<1>4. CASE a \notin Foreign
  <2>1. a \in Executions /\ Prefix(p - 1)[a] = LatestRun(a, p - 1)
    BY <1>1, <1>4 DEF Prefix
  <2>2. ~(Prefix(p - 1)[a] # None /\ StreamSequence(p) <= Prefix(p - 1)[a].version)
    <3>1. CASE \A q \in 1..(p - 1) : ledger[q].aggregate # a
      BY <1>1, <2>1, <3>1, NoLatest
    <3>2. ASSUME NEW m \in 1..(p - 1), ledger[m].aggregate = a,
                 \A q \in 1..(p - 1) : ledger[q].aggregate = a => q <= m
          PROVE  ~(StreamSequence(p) <= Prefix(p - 1)[a].version)
      <4>1. Prefix(p - 1)[a] = RunAt(m)
        BY <1>1, <2>1, <3>2, LatestIs
      <4>2. Prefix(p - 1)[a].version = StreamSequence(m)
        BY <4>1 DEF RunAt
      <4>3. StreamSequence(m) < StreamSequence(p)
        BY <1>1, <3>2, SequencesGrow
      <4>4. StreamSequence(m) \in Nat /\ StreamSequence(p) \in Nat
        BY <1>1, SequencesAreSmall
      <4> QED
        BY <4>2, <4>3, <4>4
    <3> QED
      BY <1>1, <3>1, <3>2, LatestCases
  <2>3. ApplyEvent(Prefix(p - 1), p) = [Prefix(p - 1) EXCEPT ![a] = RunAt(p)]
    BY <1>4, <2>2 DEF ApplyEvent
  <2>4. LatestRun(a, p) = RunAt(p)
    BY <1>1, LatestIs
  <2> HIDE DEF a
  <2> QED
    BY <1>2, <2>1, <2>3, <2>4 DEF Prefix
<1> QED
  BY <1>3, <1>4
\* A batch takes a prefix to the prefix that ends where the batch does.
LEMMA BatchExtends ==
  ASSUME ledger \in Seq(Events), NEW from \in Nat, NEW upto \in Nat,
         from <= upto, upto <= HighWater
  PROVE  ApplyBatch(Prefix(from), from, upto) = Prefix(upto)
<1> DEFINE n == upto - from
<1>1. n \in Nat /\ HighWater \in Nat
  BY DEF HighWater
<1>2. PICK f : /\ Folds(f, Prefix(from), from, n)
               /\ ApplyBatch(Prefix(from), from, upto) = f[1..n]
  BY BatchIsFold
<1> DEFINE T == {k \in Nat : k <= n => f[1..k] = Prefix(from + k)}
<1>3. 0 \in T
  <2>1. {} \in SUBSET (1..n) /\ 1..0 = {}
    OBVIOUS
  <2>2. f[{}] = Prefix(from)
    BY <1>2, <2>1 DEF Folds
  <2> QED
    BY <2>1, <2>2
<1>4. ASSUME NEW k \in T
      PROVE  k + 1 \in T
  <2> SUFFICES ASSUME k + 1 <= n PROVE f[1..(k + 1)] = Prefix(from + (k + 1))
    OBVIOUS
  <2>1. k \in Nat /\ k <= n /\ f[1..k] = Prefix(from + k)
    BY <1>1
  <2>2. Max(1..(k + 1)) = k + 1
    <3> DEFINE s == 1..(k + 1)
    <3>1. k + 1 \in Nat /\ s \in SUBSET (1..(k + 1)) /\ k + 1 \in s /\ \A j \in s : j <= k + 1
      BY <2>1
    <3> HIDE DEF s
    <3>2. Max(s) = k + 1
      BY <3>1, MaxFacts
    <3> QED
      BY <3>2 DEF s
  <2>3. 1..(k + 1) \in SUBSET (1..n) /\ 1..(k + 1) # {} /\ (1..(k + 1)) \ {k + 1} = 1..k
    <3>1. n \in Nat /\ k \in Nat /\ k + 1 <= n
      BY <1>1, <2>1
    <3> HIDE DEF n
    <3>2. \A j \in 1..(k + 1) : j \in 1..n
      BY <3>1
    <3>3. k + 1 \in 1..(k + 1)
      BY <3>1
    <3>4. \A j : j \in (1..(k + 1)) \ {k + 1} <=> j \in 1..k
      BY <3>1
    <3> QED
      BY <3>2, <3>3, <3>4
  <2>4. f[1..(k + 1)] = ApplyEvent(f[(1..(k + 1)) \ {Max(1..(k + 1))}], from + Max(1..(k + 1)))
    <3> HIDE DEF n
    <3> QED
      BY <1>2, <2>3 DEF Folds
  <2>5. f[1..(k + 1)] = ApplyEvent(Prefix(from + k), from + (k + 1))
    BY <2>1, <2>2, <2>3, <2>4
  <2>6. /\ from + (k + 1) \in 1..HighWater
        /\ (from + (k + 1)) - 1 = from + k
    BY <1>1, <2>1
  <2> QED
    BY <2>5, <2>6, ApplyExtends
<1> HIDE DEF T
<1>5. T \subseteq Nat
  BY DEF T
<1>6. n \in T
  BY <1>1, <1>3, <1>4, <1>5, EveryNatural
<1>7. f[1..n] = Prefix(from + n) /\ from + n = upto
  BY <1>1, <1>6 DEF T
<1> QED
  BY <1>2, <1>7

\* Events that are appended change no prefix that was there before.
LEMMA PrefixKept ==
  ASSUME ledger \in Seq(Events), NEW e \in Events, ledger' = Append(ledger, e),
         NEW n \in Nat, n <= HighWater
  PROVE  Prefix(n)' = Prefix(n)
<1>1. \A q \in 1..n : ledger'[q] = ledger[q]
  <2>1. n <= Len(ledger) /\ Len(ledger) \in Nat
    BY DEF HighWater
  <2>2. \A q \in 1..n : q \in 1..Len(ledger)
    BY <2>1
  <2> QED
    BY <2>2
<1> DEFINE NewRun(p) ==
             [version |-> Cardinality({q \in 1..p : ledger'[q].aggregate = ledger'[p].aggregate}),
              type |-> ledger'[p].type, position |-> p]
           Top(S) == CHOOSE p \in S : \A q \in S : q <= p
<1>2. ASSUME NEW p \in 1..n PROVE NewRun(p) = RunAt(p)
  <2>1. \A q \in 1..p : q \in 1..n
    OBVIOUS
  <2>2. \A q \in 1..p : ledger'[q] = ledger[q]
    BY <1>1, <2>1
  <2>3. {q \in 1..p : ledger'[q].aggregate = ledger'[p].aggregate}
          = {q \in 1..p : ledger[q].aggregate = ledger[p].aggregate}
    BY <1>1, <2>2
  <2> QED
    BY <1>1, <2>3 DEF RunAt, StreamSequence
<1>3. ASSUME NEW o PROVE LatestRun(o, n)' = LatestRun(o, n)
  <2> DEFINE A == {q \in 1..n : ledger[q].aggregate = o}
             B == {q \in 1..n : ledger'[q].aggregate = o}
  <2>1. A = B
    BY <1>1
  <2>2. LatestRun(o, n)' = IF B = {} THEN None ELSE NewRun(Top(B))
    BY Zenon DEF LatestRun, RunAt, StreamSequence
  <2>3. LatestRun(o, n) = IF A = {} THEN None ELSE RunAt(Top(A))
    BY Zenon DEF LatestRun
  <2>4. A # {} => Top(A) \in 1..n
    BY GreatestOf
  <2> HIDE DEF A, B, Top, NewRun
  <2> QED
    BY <1>2, <2>1, <2>2, <2>3, <2>4
<1> QED
  BY <1>3 DEF Prefix
\* The rows of every generation are the prefix that ends at its checkpoint.
RowsInv ==
  /\ rows = [g \in Generations |-> rows[g]]
  /\ \A g \in Generations, n \in Nat : checkpoint[g] = n => rows[g] = Prefix(n)

LEMMA SamePrefix ==
  ASSUME UNCHANGED ledger, NEW n PROVE Prefix(n)' = Prefix(n)
BY DEF Prefix, LatestRun, RunAt, StreamSequence

LEMMA InitIsRows == Init => RowsInv
<1> SUFFICES ASSUME Init PROVE RowsInv
  OBVIOUS
<1>1. \A o : LatestRun(o, 0) = None
  BY NoLatest
<1>2. Prefix(0) = [o \in Executions |-> None]
  BY <1>1 DEF Prefix
<1> QED
  BY <1>2 DEF Init, RowsInv

LEMMA AppendKeepsRows ==
  ASSUME ViewInv, RowsInv, NEW a \in Executions \cup Foreign, NEW type \in EventTypes \cup {None},
         AppendEvent(a, type)
  PROVE  RowsInv'
<1>1. UNCHANGED <<rows, checkpoint>> /\ ledger' = Append(ledger, [aggregate |-> a, type |-> type])
  BY DEF AppendEvent
<1>2. [aggregate |-> a, type |-> type] \in Events /\ ledger \in Seq(Events)
  BY DEF Events, ViewInv, Types
<1>3. ASSUME NEW g \in Generations, NEW n \in Nat, checkpoint'[g] = n
      PROVE  rows'[g] = Prefix(n)'
  <2>1. checkpoint[g] = n /\ n <= HighWater
    BY <1>1, <1>3 DEF ViewInv, Bounded
  <2>2. Prefix(n)' = Prefix(n)
    BY <1>1, <1>2, <2>1, PrefixKept
  <2> QED
    BY <1>1, <2>1, <2>2 DEF RowsInv
<1> QED
  BY <1>1, <1>3 DEF RowsInv

LEMMA CommitKeepsRows ==
  ASSUME ViewInv, RowsInv, NEW w \in Workers, CommitBatch(w)
  PROVE  RowsInv'
<1> DEFINE g == worker[w].generation
           from == worker[w].from
           upto == worker[w].upto
<1>1. worker[w].pc = "apply" /\ UNCHANGED ledger
  BY DEF CommitBatch
<1>2. /\ g \in Generations /\ from \in Nat /\ upto \in Nat
      /\ from <= upto /\ upto <= HighWater /\ ledger \in Seq(Events)
      /\ checkpoint \in [Generations -> Nat]
  BY <1>1 DEF ViewInv, Types, Bounded, WorkerStates
<1>3. CASE checkpoint[g] = from
  <2>1. /\ rows' = [rows EXCEPT ![g] = ApplyBatch(rows[g], from, upto)]
        /\ checkpoint' = [checkpoint EXCEPT ![g] = upto]
    BY <1>3 DEF CommitBatch
  <2> HIDE DEF g, from, upto
  <2>2. rows[g] = Prefix(from)
    BY <1>2, <1>3 DEF RowsInv
  <2>3. ApplyBatch(rows[g], from, upto) = Prefix(upto)
    BY <1>2, <2>2, BatchExtends
  <2>4. rows' = [rows EXCEPT ![g] = Prefix(upto)]
    BY <2>1, <2>3
  <2>5. rows' = [h \in Generations |-> rows'[h]]
    BY <2>4 DEF RowsInv
  <2>6. ASSUME NEW h \in Generations, NEW n \in Nat, checkpoint'[h] = n
        PROVE  rows'[h] = Prefix(n)'
    <3>1. CASE h = g
      <4>1. n = upto /\ rows'[h] = Prefix(upto)
        BY <1>2, <2>1, <2>4, <2>6, <3>1 DEF RowsInv
      <4> QED
        BY <1>1, <4>1, SamePrefix
    <3>2. CASE h # g
      <4>1. checkpoint[h] = n /\ rows'[h] = rows[h]
        BY <1>2, <2>1, <2>4, <2>6, <3>2 DEF RowsInv
      <4> QED
        BY <1>1, <4>1, SamePrefix DEF RowsInv
    <3> QED
      BY <3>1, <3>2
  <2> QED
    BY <2>5, <2>6 DEF RowsInv
<1>4. CASE checkpoint[g] # from
  <2>1. UNCHANGED <<rows, checkpoint>>
    BY <1>4 DEF CommitBatch
  <2> QED
    BY <1>1, <2>1, SamePrefix DEF RowsInv
<1> QED
  BY <1>3, <1>4

LEMMA NextKeepsRows == ViewInv /\ RowsInv /\ [Next]_vars => RowsInv'
<1> SUFFICES ASSUME ViewInv, RowsInv, [Next]_vars PROVE RowsInv'
  OBVIOUS
<1>1. ASSUME UNCHANGED <<ledger, checkpoint, rows>> PROVE RowsInv'
  BY <1>1, SamePrefix DEF RowsInv
<1>2. ASSUME NEW a \in Executions \cup Foreign, NEW type \in EventTypes \cup {None},
             AppendEvent(a, type)
      PROVE  RowsInv'
  BY <1>2, AppendKeepsRows
<1>3. ASSUME NEW w \in Workers, WorkerStep(w) PROVE RowsInv'
  <2>1. CASE CommitBatch(w)
    BY <2>1, CommitKeepsRows
  <2>2. CASE OpenGeneration(w) \/ ReadBatch(w) \/ Activate(w) \/ NextRound(w) \/ ActivationFails(w)
    BY <1>1, <2>2 DEF OpenGeneration, ReadBatch, Activate, NextRound, ActivationFails, tables
  <2> QED
    BY <1>3, <2>1, <2>2 DEF WorkerStep
<1>4. ASSUME NEW w \in Workers, BatchFails(w) \/ CallerStep(w) \/ Crash(w) PROVE RowsInv'
  BY <1>1, <1>4 DEF BatchFails, CallerStep, CreateGeneration, BeginReconcile, Crash, tables
<1>5. CASE UNCHANGED vars
  BY <1>1, <1>5 DEF vars
<1> QED
  BY <1>2, <1>3, <1>4, <1>5 DEF Next

LEMMA RowsStand == Spec => [](ViewInv /\ RowsInv)
<1>1. Init => ViewInv /\ RowsInv
  BY InitIsView, InitIsRows
<1>2. (ViewInv /\ RowsInv) /\ [Next]_vars => (ViewInv /\ RowsInv)'
  BY NextKeepsView, NextKeepsRows
<1> QED
  BY <1>1, <1>2, PTL DEF Spec

\* Whatever overlapping workers, conflicts, failed batches and crashes do to a
\* generation, its rows are the ledger up to its checkpoint (_applyBatch and
\* the comparison of checkpoints in execution-projections.js).
THEOREM PrefixesOnly == Spec => []ProjectsAPrefix
<1>1. ViewInv /\ RowsInv => ProjectsAPrefix
  <2> SUFFICES ASSUME ViewInv, RowsInv, NEW g \in Generations
               PROVE  /\ checkpoint[g] <= HighWater
                      /\ \A o \in Executions : rows[g][o] = LatestRun(o, checkpoint[g])
    BY DEF ProjectsAPrefix
  <2>1. checkpoint[g] \in Nat /\ checkpoint[g] <= HighWater
    BY DEF ViewInv, Types, Bounded
  <2>2. rows[g] = Prefix(checkpoint[g])
    BY <2>1 DEF RowsInv
  <2> QED
    BY <2>1, <2>2 DEF Prefix
<1> QED
  BY <1>1, RowsStand, PTL
-----------------------------------------------------------------------------
(* Types, with the bounds of the model.                                    *)

Within(r) == r.from <= MaxEvents /\ r.upto <= MaxEvents /\ r.round < MaxRounds

SizesInv ==
  /\ HighWater <= MaxEvents
  /\ \A p \in 1..HighWater : ledger[p].aggregate \in Executions => ledger[p].type \in EventTypes
  /\ lastError \in [Generations -> BOOLEAN]
  /\ \A w \in Workers : Within(worker[w])

LEMMA BoundsAreNaturals == MaxEvents \in Nat /\ MaxRounds \in Nat \ {0} /\ BatchSize \in Nat \ {0}
BY ConstantsAssumption DEF ConstantsAssumption

LEMMA IdleIsWithin == Within(IdleWorker)
BY BoundsAreNaturals DEF Within, IdleWorker

LEMMA InitIsSized == Init => SizesInv
BY BoundsAreNaturals, IdleIsWithin DEF Init, SizesInv, HighWater

\* A step of a worker that leaves the ledger alone.
LEMMA WorkerKeepsSizes ==
  ASSUME ViewInv, SizesInv, UNCHANGED ledger, lastError' \in [Generations -> BOOLEAN],
         NEW w \in Workers, NEW r, Within(r), worker' = [worker EXCEPT ![w] = r]
  PROVE  SizesInv'
<1>1. HighWater' = HighWater
  BY DEF HighWater
<1>2. \A v \in Workers : worker'[v] = worker[v] \/ worker'[v] = r
  BY DEF ViewInv, Types
<1>3. \A v \in Workers : Within(worker'[v])
  BY <1>2 DEF SizesInv
<1> QED
  BY <1>1, <1>3 DEF SizesInv, Within

LEMMA StopKeepsSizes ==
  ASSUME ViewInv, SizesInv, UNCHANGED ledger, lastError' \in [Generations -> BOOLEAN],
         NEW w \in Workers, Stop(w)
  PROVE  SizesInv'
BY IdleIsWithin, WorkerKeepsSizes DEF Stop

LEMMA GotoKeepsSizes ==
  ASSUME ViewInv, SizesInv, UNCHANGED ledger, lastError' \in [Generations -> BOOLEAN],
         NEW w \in Workers, NEW pc, Goto(w, pc)
  PROVE  SizesInv'
<1> DEFINE r == [worker[w] EXCEPT !.pc = pc]
<1>1. worker[w] \in WorkerStates /\ Within(worker[w])
  BY DEF ViewInv, Types, SizesInv
<1>2. Within(r)
  BY <1>1 DEF Within, WorkerStates
<1>3. worker' = [worker EXCEPT ![w] = r]
  BY DEF Goto
<1> HIDE DEF r
<1> QED
  BY <1>2, <1>3, WorkerKeepsSizes

LEMMA ReturnKeepsSizes ==
  ASSUME ViewInv, SizesInv, UNCHANGED ledger, lastError' \in [Generations -> BOOLEAN],
         NEW w \in Workers, Returned(w)
  PROVE  SizesInv'
BY StopKeepsSizes, GotoKeepsSizes DEF Returned

LEMMA AppendKeepsSizes ==
  ASSUME ViewInv, SizesInv, NEW a \in Executions \cup Foreign, NEW type \in EventTypes \cup {None},
         a \in Executions => type \in EventTypes, AppendEvent(a, type)
  PROVE  SizesInv'
<1> DEFINE e == [aggregate |-> a, type |-> type]
<1>1. /\ ledger \in Seq(Events) /\ HighWater < MaxEvents /\ ledger' = Append(ledger, e)
      /\ UNCHANGED <<lastError, worker>>
  BY DEF AppendEvent, ViewInv, Types
<1>2. e.aggregate = a /\ e.type = type
  OBVIOUS
<1> HIDE DEF e
<1>3. HighWater \in Nat /\ HighWater' = HighWater + 1
  BY <1>1 DEF HighWater
<1>4. HighWater' <= MaxEvents
  BY <1>1, <1>3, BoundsAreNaturals
<1>5. \A p \in 1..HighWater : ledger'[p] = ledger[p]
  BY <1>1 DEF HighWater
<1>6. ledger'[HighWater + 1] = e
  BY <1>1 DEF HighWater
<1>7. \A p \in 1..HighWater' : p \in 1..HighWater \/ p = HighWater + 1
  BY <1>3
<1>8. \A p \in 1..HighWater' : ledger'[p].aggregate \in Executions => ledger'[p].type \in EventTypes
  BY <1>2, <1>5, <1>6, <1>7 DEF SizesInv
<1> QED
  BY <1>1, <1>4, <1>8 DEF SizesInv, Within

LEMMA CreateKeepsSizes ==
  ASSUME ViewInv, SizesInv, NEW w \in Workers, CreateGeneration(w) PROVE SizesInv'
<1>1. PICK g \in Generations :
        worker' = [worker EXCEPT ![w] = [IdleWorker EXCEPT !.pc = "open", !.task = "rebuild",
                                                             !.generation = g]]
  BY DEF CreateGeneration
<1> DEFINE r == [IdleWorker EXCEPT !.pc = "open", !.task = "rebuild", !.generation = g]
<1>2. Within(r)
  BY BoundsAreNaturals DEF Within, IdleWorker
<1>3. UNCHANGED ledger /\ lastError' \in [Generations -> BOOLEAN]
  BY DEF CreateGeneration, SizesInv
<1> HIDE DEF r
<1> QED
  BY <1>1, <1>2, <1>3, WorkerKeepsSizes DEF r

LEMMA BeginKeepsSizes ==
  ASSUME ViewInv, SizesInv, NEW w \in Workers, NEW g \in Generations, BeginReconcile(w, g)
  PROVE  SizesInv'
<1> DEFINE r == [IdleWorker EXCEPT !.pc = "open", !.task = "reconcile", !.generation = g]
<1>1. worker' = [worker EXCEPT ![w] = r] /\ UNCHANGED tables
  BY DEF BeginReconcile
<1>2. Within(r)
  BY BoundsAreNaturals DEF Within, IdleWorker
<1> HIDE DEF r
<1>3. UNCHANGED ledger /\ lastError' \in [Generations -> BOOLEAN]
  BY <1>1 DEF tables, SizesInv
<1> QED
  BY <1>1, <1>2, <1>3, WorkerKeepsSizes

LEMMA OpenKeepsSizes ==
  ASSUME ViewInv, SizesInv, NEW w \in Workers, OpenGeneration(w) PROVE SizesInv'
<1>1. UNCHANGED ledger /\ lastError' \in [Generations -> BOOLEAN]
  BY DEF OpenGeneration, tables, SizesInv
<1>2. CASE status[worker[w].generation] \in {"building", "active"}
  <2> DEFINE b == status[worker[w].generation] = "building"
             r == [worker[w] EXCEPT !.pc = "read", !.building = b]
  <2>1. worker' = [worker EXCEPT ![w].pc = "read", ![w].building = b]
    BY <1>2 DEF OpenGeneration
  <2> HIDE DEF b
  <2>2. worker \in [Workers -> WorkerStates] /\ Within(worker[w])
    BY DEF ViewInv, Types, SizesInv
  <2>3. worker' = [worker EXCEPT ![w] = r]
    BY <2>1, <2>2
  <2>4. Within(r)
    BY <2>2 DEF Within, WorkerStates
  <2> HIDE DEF r
  <2> QED
    BY <1>1, <2>3, <2>4, WorkerKeepsSizes
<1>3. CASE status[worker[w].generation] \notin {"building", "active"}
  BY <1>1, <1>3, StopKeepsSizes DEF OpenGeneration
<1> QED
  BY <1>2, <1>3

LEMMA ReadKeepsSizes ==
  ASSUME ViewInv, SizesInv, NEW w \in Workers, ReadBatch(w) PROVE SizesInv'
<1> DEFINE from == checkpoint[worker[w].generation]
           upto == IF HighWater < from + BatchSize THEN HighWater ELSE from + BatchSize
<1>1. UNCHANGED ledger /\ lastError' \in [Generations -> BOOLEAN] /\ worker[w].pc = "read"
  BY DEF ReadBatch, tables, SizesInv
<1>2. CASE upto = from
  <2>1. Returned(w)
    BY <1>2 DEF ReadBatch
  <2> QED
    BY <1>1, <2>1, ReturnKeepsSizes
<1>3. CASE upto # from
  <2> DEFINE r == [worker[w] EXCEPT !.pc = "apply", !.from = from, !.upto = upto]
  <2>1. worker' = [worker EXCEPT ![w].pc = "apply", ![w].from = from, ![w].upto = upto]
    BY <1>3 DEF ReadBatch
  <2>2. /\ from \in Nat /\ from <= HighWater /\ HighWater \in Nat /\ HighWater <= MaxEvents
        /\ worker \in [Workers -> WorkerStates] /\ Within(worker[w])
    BY <1>1, HighWaterIsNat DEF ViewInv, Types, Bounded, SizesInv
  <2>3. from <= MaxEvents /\ upto <= MaxEvents
    BY <2>2, BoundsAreNaturals
  <2> HIDE DEF from, upto
  <2>4. worker' = [worker EXCEPT ![w] = r]
    BY <2>1, <2>2
  <2>5. Within(r)
    BY <2>2, <2>3 DEF Within, WorkerStates
  <2> HIDE DEF r
  <2> QED
    BY <1>1, <2>4, <2>5, WorkerKeepsSizes
<1> QED
  BY <1>2, <1>3

LEMMA CommitKeepsSizes ==
  ASSUME ViewInv, SizesInv, NEW w \in Workers, CommitBatch(w) PROVE SizesInv'
<1>1. UNCHANGED ledger /\ lastError' \in [Generations -> BOOLEAN]
  BY DEF CommitBatch, SizesInv
<1>2. Returned(w) \/ Goto(w, "read")
  BY DEF CommitBatch
<1> QED
  BY <1>1, <1>2, ReturnKeepsSizes, GotoKeepsSizes

LEMMA NextRoundKeepsSizes ==
  ASSUME ViewInv, SizesInv, NEW w \in Workers, NextRound(w) PROVE SizesInv'
<1> DEFINE r == [worker[w] EXCEPT !.pc = "open", !.round = worker[w].round + 1]
<1>1. UNCHANGED ledger /\ lastError' \in [Generations -> BOOLEAN]
  BY DEF NextRound, tables, SizesInv
<1>2. /\ worker' = [worker EXCEPT ![w].pc = "open", ![w].round = worker[w].round + 1]
      /\ worker[w].round + 1 < MaxRounds
  BY DEF NextRound
<1>3. worker \in [Workers -> WorkerStates] /\ Within(worker[w])
  BY DEF ViewInv, Types, SizesInv
<1>4. worker' = [worker EXCEPT ![w] = r]
  BY <1>2, <1>3
<1>5. Within(r)
  BY <1>2, <1>3 DEF Within, WorkerStates
<1> HIDE DEF r
<1> QED
  BY <1>1, <1>4, <1>5, WorkerKeepsSizes

LEMMA NextKeepsSizes == ViewInv /\ SizesInv /\ [Next]_vars => SizesInv'
<1> SUFFICES ASSUME ViewInv, SizesInv, [Next]_vars PROVE SizesInv'
  OBVIOUS
<1>1. CASE \E o \in Executions, type \in EventTypes : AppendEvent(o, type)
  BY <1>1, AppendKeepsSizes
<1>2. CASE \E a \in Foreign : AppendEvent(a, None)
  BY <1>2, AppendKeepsSizes, ConstantsAssumption DEF ConstantsAssumption
<1>3. ASSUME NEW w \in Workers, WorkerStep(w) PROVE SizesInv'
  <2>1. CASE Activate(w) \/ ActivationFails(w)
    <3>1. Stop(w) /\ UNCHANGED ledger /\ lastError' \in [Generations -> BOOLEAN]
      BY <2>1 DEF Activate, ActivationFails, SizesInv
    <3> QED
      BY <3>1, StopKeepsSizes
  <2> QED
    BY <1>3, <2>1, OpenKeepsSizes, ReadKeepsSizes, CommitKeepsSizes, NextRoundKeepsSizes
    DEF WorkerStep
<1>4. ASSUME NEW w \in Workers, BatchFails(w) \/ Crash(w) PROVE SizesInv'
  <2>1. Stop(w) /\ UNCHANGED ledger /\ lastError' \in [Generations -> BOOLEAN]
    BY <1>4 DEF BatchFails, Crash, tables, SizesInv
  <2> QED
    BY <2>1, StopKeepsSizes
<1>5. ASSUME NEW w \in Workers, CallerStep(w) PROVE SizesInv'
  BY <1>5, CreateKeepsSizes, BeginKeepsSizes DEF CallerStep
<1>6. CASE UNCHANGED vars
  BY <1>6 DEF vars, SizesInv, HighWater, Within
<1> QED
  BY <1>1, <1>2, <1>3, <1>4, <1>5, <1>6 DEF Next

\* The row of an execution holds one of its events.
LEMMA LatestIsRun ==
  ASSUME ViewInv, SizesInv, NEW o \in Executions, NEW n \in Nat, n <= HighWater
  PROVE  LatestRun(o, n) \in Runs \cup {None}
<1>1. HighWater \in Nat /\ HighWater <= MaxEvents
  BY HighWaterIsNat DEF ViewInv, SizesInv
<1>2. CASE \A q \in 1..n : ledger[q].aggregate # o
  BY <1>2, NoLatest
<1>3. ASSUME NEW p \in 1..n, ledger[p].aggregate = o,
             \A q \in 1..n : ledger[q].aggregate = o => q <= p
      PROVE  LatestRun(o, n) \in Runs \cup {None}
  <2>1. p \in 1..HighWater /\ p \in Nat \ {0} /\ p \in 1..MaxEvents
    BY <1>1, BoundsAreNaturals
  <2>2. StreamSequence(p) \in 1..MaxEvents
    <3>1. StreamSequence(p) \in 1..p
      BY <2>1, SequencesAreSmall
    <3> QED
      BY <2>1, <3>1, BoundsAreNaturals
  <2>3. ledger[p].type \in EventTypes
    BY <1>3, <2>1 DEF SizesInv
  <2>4. RunAt(p) \in Runs
    BY <2>1, <2>2, <2>3 DEF RunAt, Runs
  <2> QED
    BY <1>3, <2>4, LatestIs
<1> QED
  BY <1>2, <1>3, LatestCases

\* The records of the ledger, its generations, rows and workers keep their
\* types and stay within the bounds (migration 006, execution-projections.js).
THEOREM ProjectionsAreTyped == Spec => []TypeOK
<1>1. Init => SizesInv
  BY InitIsSized
<1>2. (ViewInv /\ SizesInv) /\ [Next]_vars => SizesInv'
  BY NextKeepsSizes
<1>3. Spec => []SizesInv
  BY <1>1, <1>2, ViewStands, PTL DEF Spec
<1>4. ViewInv /\ RowsInv /\ SizesInv => TypeOK
  <2> SUFFICES ASSUME ViewInv, RowsInv, SizesInv PROVE TypeOK
    OBVIOUS
  <2>1. HighWater \in Nat /\ HighWater <= MaxEvents
    BY HighWaterIsNat DEF ViewInv, SizesInv
  <2>2. checkpoint \in [Generations -> 0..MaxEvents]
    BY <2>1, BoundsAreNaturals DEF ViewInv, Types, Bounded
  <2>3. rows \in [Generations -> [Executions -> Runs \cup {None}]]
    <3>1. ASSUME NEW g \in Generations PROVE rows[g] \in [Executions -> Runs \cup {None}]
      <4>1. checkpoint[g] \in Nat /\ checkpoint[g] <= HighWater
        BY DEF ViewInv, Types, Bounded
      <4>2. rows[g] = Prefix(checkpoint[g])
        BY <4>1 DEF RowsInv
      <4>3. \A o \in Executions : LatestRun(o, checkpoint[g]) \in Runs \cup {None}
        BY <4>1, LatestIsRun
      <4> QED
        BY <4>2, <4>3 DEF Prefix
    <3> QED
      BY <3>1 DEF RowsInv
  <2>4. worker \in [Workers -> [pc : {"idle", "open", "read", "apply", "activate"},
                                task : {None, "rebuild", "reconcile"},
                                generation : {0} \cup Generations, building : BOOLEAN,
                                from : 0..MaxEvents, upto : 0..MaxEvents,
                                round : 0..(MaxRounds - 1)]]
    <3>1. ASSUME NEW w \in Workers
          PROVE  /\ worker[w] \in WorkerStates /\ worker[w].from \in 0..MaxEvents
                 /\ worker[w].upto \in 0..MaxEvents /\ worker[w].round \in 0..(MaxRounds - 1)
      <4>1. worker[w] \in WorkerStates /\ Within(worker[w])
        BY DEF ViewInv, Types, SizesInv
      <4>2. worker[w].from \in Nat /\ worker[w].upto \in Nat /\ worker[w].round \in Nat
        BY <4>1 DEF WorkerStates
      <4> QED
        BY <4>1, <4>2, BoundsAreNaturals DEF Within
    <3>2. worker \in [Workers -> WorkerStates]
      BY DEF ViewInv, Types
    <3> QED
      BY <3>1, <3>2 DEF WorkerStates
  <2> QED
    BY <2>2, <2>3, <2>4 DEF ViewInv, Types, SizesInv, TypeOK, Events, Statuses
<1> QED
  BY <1>3, <1>4, RowsStand, PTL
=============================================================================
