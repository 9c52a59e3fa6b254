--------------------- MODULE WorkflowOrchestrationProofs ---------------------
(***************************************************************************)
(* Proofs about WorkflowOrchestration for any workflow, any number of runs *)
(* and children, and any process that is disposed or dies.                 *)
(***************************************************************************)
EXTENDS WorkflowOrchestration, TLAPS

\* The groups of a phase are a non-empty sequence of sets of children.
LEMMA GroupsFacts ==
  ASSUME NEW p \in DOMAIN Workflow
  PROVE  /\ Len(Groups(p)) \in Nat /\ Len(Groups(p)) >= 1
         /\ DOMAIN Groups(p) = 1..Len(Groups(p))
         /\ \A g \in DOMAIN Groups(p) : Groups(p)[g] \subseteq Children
<1> DEFINE steps == Workflow[p].steps
           width == IF Workflow[p].mode = "pipeline" THEN 1 ELSE MaxParallelism
           size == (Len(steps) + width - 1) \div width
           members(g) == {steps[n] : n \in {m \in DOMAIN steps : (m - 1) \div width = g - 1}}
<1>1. Workflow[p] \in [mode : {"pipeline", "parallel"}, steps : Seq(Children) \ {<<>>}]
  <2> DEFINE Phases == [mode : {"pipeline", "parallel"}, steps : Seq(Children) \ {<<>>}]
  <2>1. Workflow \in Seq(Phases)
    BY WorkflowAssumption
  <2> HIDE DEF Phases
  <2>2. Workflow[p] \in Phases
    BY <2>1
  <2> QED
    BY <2>2 DEF Phases
<1>2. steps \in Seq(Children) /\ steps # <<>>
  BY <1>1
<1>3. Len(steps) \in Nat /\ Len(steps) >= 1 /\ \A n \in DOMAIN steps : steps[n] \in Children
  BY <1>2
<1>4. width \in Nat /\ width >= 1
  BY WorkflowAssumption
<1>5. size \in Nat /\ size >= 1
  <2> HIDE DEF steps, width
  <2> QED
    BY <1>3, <1>4
<1>6. Groups(p) = [g \in 1..size |-> members(g)]
  BY DEF Groups
<1>7. \A g \in 1..size : members(g) \in SUBSET Children
  BY <1>3
<1> HIDE DEF size, members
<1>8. DOMAIN Groups(p) = 1..size /\ \A g \in 1..size : Groups(p)[g] \in SUBSET Children
  BY <1>6, <1>7
<1>9. Groups(p) \in [1..size -> SUBSET Children]
  BY <1>6, <1>7
<1>10. Groups(p) \in Seq(SUBSET Children) /\ Len(Groups(p)) = size
  BY <1>5, <1>9
<1> QED
  BY <1>5, <1>8, <1>10

LEMMA WorkflowFacts ==
  /\ Len(Workflow) \in Nat /\ DOMAIN Workflow = 1..Len(Workflow)
  /\ Supervisor \in Runs /\ Unsteady \subseteq Runs
BY WorkflowAssumption

-----------------------------------------------------------------------------
(* The inductive invariant.                                                *)

Places == {"idle", "next", "checked", "spawned", "joining", "cancelling", "catch", "done", "dead"}
Joins == {"joining", "cancelling"}
ChildStates == {"none", "running", "stopping", "completed", "ended"}

StreamType ==
  /\ claim \in Runs \cup {None} /\ expired \in BOOLEAN
  /\ released \in {None, "completed", "failed", "cancelled"}
  /\ claim = None => released = None
  /\ checkpoints \subseteq DOMAIN Workflow
  /\ root \in {"active", "stopping", "cancelled", "ended"}
  /\ child \in [Children -> ChildStates]
  /\ task \in [Runs -> [Children -> {"none", "active", "rejected"}]]
  /\ \A r \in Runs, c \in Children : task[r][c] = "active" => child[c] # "none"

MemoryType ==
  /\ pc \in [Runs -> Places]
  /\ phase \in [Runs -> 1..(Len(Workflow) + 1)] /\ group \in [Runs -> Nat]
  /\ spawned \in [Runs -> SUBSET Children] /\ kids \in [Runs -> SUBSET Children]
  /\ cancelled \in [Runs -> BOOLEAN]
  /\ result \in [Runs -> {None, "error", "completed", "failed", "cancelled"}]

\* Where a run is.
PlaceOK(r) ==
  /\ phase[r] \in DOMAIN Workflow => group[r] \in DOMAIN Groups(phase[r])
  /\ pc[r] \in Joins \cup {"checked", "spawned"} => phase[r] \in DOMAIN Workflow
  /\ pc[r] \in {"idle", "done", "dead"} => phase[r] = 1 /\ group[r] = 1

\* The run that holds the claim has held it from the start: the phases before
\* its own have their checkpoint, the one it is in has none, and it was
\* cancelled if the workflow was released under it.
ClaimOK(r) ==
  claim = r =>
    /\ pc[r] # "idle"
    /\ \A p \in 1..(phase[r] - 1) : p \in checkpoints
    /\ group[r] > 1 \/ pc[r] \in Joins \cup {"checked", "spawned"} => phase[r] \notin checkpoints
    /\ released # None /\ AtWork(r) => cancelled[r]

\* The groups before the one a run is in have completed.
DoneOK(r) ==
  phase[r] \in DOMAIN Workflow =>
    \A g \in DOMAIN Groups(phase[r]) : g < group[r] =>
      \A c \in Groups(phase[r])[g] : child[c] = "completed"

\* The children of a run have completed, but for those of the group it is at.
KidsOK(r) ==
  /\ kids[r] \subseteq Attached /\ spawned[r] \subseteq Attached
  /\ pc[r] = "idle" => kids[r] = {}
  /\ pc[r] \in {"next", "checked", "spawned"} => \A c \in kids[r] : child[c] = "completed"
  /\ pc[r] \in Joins =>
       /\ Group(r) \subseteq Attached
       /\ \A c \in kids[r] : child[c] = "completed" \/ c \in Group(r)

RunInv(r) == PlaceOK(r) /\ ClaimOK(r) /\ DoneOK(r) /\ KidsOK(r)

CheckpointsInv ==
  /\ \A p \in checkpoints : \A g \in DOMAIN Groups(p) : \A c \in Groups(p)[g] :
       child[c] = "completed"
  /\ released = "completed" => checkpoints = DOMAIN Workflow

RootInv ==
  sup.at = "cancelled" =>
    root = "cancelled" /\ ~rootTask /\ \A c \in Children : child[c] = "none" \/ Terminal(c)

Inv ==
  /\ StreamType /\ MemoryType /\ \A r \in Runs : RunInv(r)
  /\ CheckpointsInv /\ RootInv

\* What a step may do to the children: none is forgotten, one that ended stays
\* as it ended, and none is attached to a parent that ended or otherwise than
\* by a fork that was under way.
Grows ==
  /\ child' \in [Children -> ChildStates]
  /\ \A c \in Children : /\ Terminal(c) => child'[c] = child[c]
                         /\ child[c] # "none" => child'[c] # "none"
                         /\ child[c] = "none" /\ child'[c] # "none" => Alive /\ InFork' # InFork
\* Only a child that is attached gets a task.
TasksStep ==
  /\ task' \in [Runs -> [Children -> {"none", "active", "rejected"}]]
  /\ \A r \in Runs, c \in Children :
       task'[r][c] = "active" => task[r][c] = "active" \/ child'[c] # "none"

\* What every step keeps.
Kept == Inv' /\ Grows /\ SettledStep

-----------------------------------------------------------------------------
(* What a step that is not about a run keeps of it.                        *)

Untouched(q) ==
  /\ pc'[q] = pc[q] /\ phase'[q] = phase[q] /\ group'[q] = group[q]
  /\ spawned'[q] = spawned[q] /\ kids'[q] = kids[q] /\ cancelled'[q] = cancelled[q]

\* The claim of a run and the rows that depend on it are its own.
NotItsClaim(q) ==
  claim' = q => claim = q /\ checkpoints' = checkpoints /\ released' = released

LEMMA AttachedGrows == ASSUME Grows PROVE Attached \subseteq Attached'
BY DEF Grows, Attached

LEMMA CompletedGrows ==
  ASSUME Grows, NEW c \in Children, child[c] = "completed"
  PROVE  child'[c] = "completed"
BY DEF Grows, Terminal

LEMMA UntouchedKeeps ==
  ASSUME Inv, Grows, NEW q \in Runs, Untouched(q), NotItsClaim(q)
  PROVE  RunInv(q)'
<1> USE DEF Untouched
<1>1. RunInv(q)
  BY DEF Inv
<1>2. PlaceOK(q)'
  BY <1>1 DEF RunInv, PlaceOK
<1>3. ClaimOK(q)'
  BY <1>1 DEF RunInv, ClaimOK, NotItsClaim, AtWork
<1>4. DoneOK(q)'
  <2>1. phase[q] \in DOMAIN Workflow =>
          \A g \in DOMAIN Groups(phase[q]) : Groups(phase[q])[g] \subseteq Children
    BY GroupsFacts
  <2> QED
    BY <1>1, <2>1, CompletedGrows DEF RunInv, DoneOK
<1>5. KidsOK(q)'
  <2>1. kids[q] \subseteq Children
    BY DEF Inv, MemoryType
  <2>2. Group(q)' = Group(q)
    BY DEF Group
  <2> QED
    BY <1>1, <2>1, <2>2, CompletedGrows, AttachedGrows DEF RunInv, KidsOK
<1> QED
  BY <1>2, <1>3, <1>4, <1>5 DEF RunInv

\* The checkpoints stand, and nothing is released as completed.
LEMMA CheckpointsKept ==
  ASSUME Inv, Grows, checkpoints' = checkpoints,
         released' = released \/ released' \in {"failed", "cancelled"}
  PROVE  CheckpointsInv'
<1>1. \A p \in checkpoints : \A g \in DOMAIN Groups(p) : Groups(p)[g] \subseteq Children
  BY GroupsFacts DEF Inv, StreamType
<1> QED
  BY <1>1, CompletedGrows DEF Inv, CheckpointsInv

LEMMA RootKept ==
  ASSUME Inv, Grows, sup'.at = "cancelled" => sup.at = "cancelled",
         root = "cancelled" => root' = "cancelled",
         ~rootTask => ~rootTask'
  PROVE  RootInv'
<1>1. SUFFICES ASSUME sup.at = "cancelled"
               PROVE  root' = "cancelled" /\ ~rootTask'
                      /\ \A c \in Children : child'[c] = "none" \/ child'[c] \in {"completed", "ended"}
  BY DEF RootInv, Terminal
<1>2. root = "cancelled" /\ ~rootTask /\ \A c \in Children : child[c] = "none" \/ Terminal(c)
  BY <1>1 DEF Inv, RootInv
<1> QED
  BY <1>2 DEF Grows, Alive, Terminal

\* A step of the run r that neither checkpoints nor completes.
LEMMA RunStep ==
  ASSUME Inv, NEW r \in Runs, Grows, StreamType', MemoryType', RunInv(r)',
         \A q \in Runs : q # r => Untouched(q) /\ NotItsClaim(q),
         checkpoints' = checkpoints, released' = released \/ released' \in {"failed", "cancelled"},
         UNCHANGED rootVars, UNCHANGED sup, SettledStep
  PROVE  Kept
<1>1. \A q \in Runs : RunInv(q)'
  BY UntouchedKeeps
<1>2. CheckpointsInv'
  BY CheckpointsKept
<1>3. RootInv'
  BY RootKept DEF rootVars
<1> QED
  BY <1>1, <1>2, <1>3 DEF Kept, Inv
-----------------------------------------------------------------------------
(* A run that goes on.                                                     *)

LEMMA GrowsSame == ASSUME Inv, child' = child PROVE Grows
BY DEF Inv, StreamType, Grows

LEMMA TasksSame == ASSUME Inv, task' = task PROVE TasksStep
BY DEF Inv, StreamType, TasksStep

LEMMA TasksOf ==
  ASSUME Inv, NEW r \in Runs, NEW f, task' = [task EXCEPT ![r] = f],
         f \in [Children -> {"none", "active", "rejected"}],
         \A c \in Children : f[c] = "active" => task[r][c] = "active" \/ child'[c] # "none"
  PROVE  TasksStep
BY DEF Inv, StreamType, TasksStep

LEMMA SettledSame == ASSUME result' = result PROVE SettledStep
BY DEF SettledStep

\* The streams, but for the children, as they were.
LEMMA StreamsSame ==
  ASSUME Inv, Grows, UNCHANGED parentVars, UNCHANGED root,
         TasksStep
  PROVE  StreamType'
BY DEF Inv, StreamType, Grows, parentVars, TasksStep

\* A run that begins.
LEMMA BeginKeeps ==
  ASSUME Inv, NEW r \in Runs, pc[r] = "idle", claim' = r, Goto(r, "next"), released = None,
         expired' \in BOOLEAN,
         UNCHANGED <<released, checkpoints, rootVars, childVars, place, spawned, kids,
                     cancelled, result, sup>>
  PROVE  Kept
<1>1. /\ UNCHANGED rootVars /\ UNCHANGED sup /\ child' = child /\ task' = task
      /\ result' = result /\ phase' = phase /\ group' = group /\ spawned' = spawned
      /\ kids' = kids /\ cancelled' = cancelled /\ checkpoints' = checkpoints
      /\ released' = released
  BY DEF childVars, place
<1>2. Grows /\ SettledStep
  BY <1>1, GrowsSame, SettledSame
<1>3. StreamType'
  BY <1>1, NullAssumption DEF Inv, StreamType, rootVars
<1>4. MemoryType' /\ pc'[r] = "next"
  BY <1>1 DEF Inv, MemoryType, Goto, Places
<1>5. \A q \in Runs : q # r => Untouched(q) /\ NotItsClaim(q)
  BY <1>1 DEF Inv, MemoryType, Goto, Untouched, NotItsClaim
<1>6. RunInv(r)
  BY DEF Inv
<1>7. phase[r] = 1 /\ group[r] = 1 /\ kids[r] = {}
  BY <1>6 DEF RunInv, PlaceOK, KidsOK
<1>8. PlaceOK(r)' /\ DoneOK(r)' /\ KidsOK(r)'
  BY <1>1, <1>4, <1>6, <1>7 DEF RunInv, PlaceOK, DoneOK, KidsOK, Attached, Joins
<1>9. ClaimOK(r)'
  BY <1>1, <1>4, <1>7 DEF ClaimOK, Joins
<1> QED
  BY <1>1, <1>2, <1>3, <1>4, <1>5, <1>8, <1>9, RunStep DEF RunInv

LEMMA ReserveKeeps == ASSUME Inv, NEW r \in Runs, Reserve(r) PROVE Kept
<1>1. released = None /\ expired' \in BOOLEAN
  BY DEF Inv, StreamType, Reserve
<1> QED
  BY <1>1, BeginKeeps DEF Reserve

LEMMA ReclaimKeeps == ASSUME Inv, NEW r \in Runs, Reclaim(r) PROVE Kept
BY BeginKeeps DEF Reclaim

LEMMA SkipPhaseKeeps == ASSUME Inv, NEW r \in Runs, SkipPhase(r) PROVE Kept
<1>1. /\ pc[r] = "next" /\ claim = r /\ phase[r] \in checkpoints
      /\ phase' = [phase EXCEPT ![r] = @ + 1]
      /\ UNCHANGED rootVars /\ UNCHANGED sup /\ child' = child /\ task' = task
      /\ UNCHANGED parentVars /\ pc' = pc
      /\ result' = result /\ group' = group /\ spawned' = spawned
      /\ kids' = kids /\ cancelled' = cancelled
  BY DEF SkipPhase, Skips, childVars
<1>2. Grows /\ SettledStep
  BY <1>1, GrowsSame, SettledSame
<1>3. StreamType'
  BY <1>1, <1>2, StreamsSame, TasksSame DEF rootVars
<1>4. RunInv(r) /\ phase[r] \in 1..Len(Workflow) /\ phase[r] \in DOMAIN Workflow
  BY <1>1, WorkflowFacts DEF Inv, StreamType
<1>5. group[r] = 1
  <2>1. group[r] \in Nat /\ group[r] >= 1 /\ ~(group[r] > 1)
    <3>1. group[r] \in DOMAIN Groups(phase[r]) /\ ~(group[r] > 1)
      BY <1>1, <1>4 DEF RunInv, PlaceOK, ClaimOK
    <3> QED
      BY <1>4, <3>1, GroupsFacts
  <2> QED
    BY <2>1
<1>6. phase'[r] = phase[r] + 1 /\ phase'[r] \in 1..(Len(Workflow) + 1)
  BY <1>1, <1>4, WorkflowFacts DEF Inv, MemoryType
<1>7. MemoryType'
  BY <1>1, <1>6 DEF Inv, MemoryType
<1>8. \A q \in Runs : q # r => Untouched(q) /\ NotItsClaim(q)
  BY <1>1 DEF Inv, MemoryType, Untouched, NotItsClaim, parentVars
<1>9. phase'[r] \in DOMAIN Workflow => 1 \in DOMAIN Groups(phase'[r])
  BY GroupsFacts
<1>10. PlaceOK(r)'
  BY <1>1, <1>5, <1>9 DEF PlaceOK, Joins
<1>11. DoneOK(r)'
  <2>1. phase'[r] \in DOMAIN Workflow => \A g \in DOMAIN Groups(phase'[r]) : ~(g < 1)
    BY GroupsFacts
  <2> QED
    BY <1>1, <1>5, <2>1 DEF DoneOK
<1>12. KidsOK(r)'
  BY <1>1, <1>4 DEF RunInv, KidsOK, Attached, Joins
<1>13. ClaimOK(r)'
  <2>1. \A p \in 1..(phase'[r] - 1) : p \in checkpoints
    <3>1. \A p \in 1..(phase[r] - 1) : p \in checkpoints
      BY <1>1, <1>4 DEF RunInv, ClaimOK
    <3>2. \A p \in 1..(phase'[r] - 1) : p \in 1..(phase[r] - 1) \/ p = phase[r]
      BY <1>4, <1>6, WorkflowFacts
    <3> QED
      BY <1>1, <3>1, <3>2
  <2> QED
    BY <1>1, <1>4, <1>5, <2>1 DEF RunInv, ClaimOK, AtWork, Joins, parentVars
<1>14. checkpoints' = checkpoints /\ released' = released
  BY <1>1 DEF parentVars
<1> QED
  BY <1>1, <1>2, <1>3, <1>7, <1>8, <1>10, <1>11, <1>12, <1>13, <1>14, RunStep DEF RunInv
-----------------------------------------------------------------------------
(* A run that returns, or goes to its catch.                               *)

Outcomes == {"error", "completed", "failed", "cancelled"}

\* Whatever it returns, a run is back at its beginning.
LEMMA ReturnFacts ==
  ASSUME Inv, Grows, NEW r \in Runs, NEW how \in Outcomes, Return(r, how), claim' = claim
  PROVE  /\ MemoryType' /\ RunInv(r)'
         /\ \A q \in Runs : q # r => Untouched(q)
         /\ (how = "error" \/ \A c \in kids[r] : Terminal(c)) => SettledStep
<1>1. /\ pc' = [pc EXCEPT ![r] = "done"] /\ phase' = [phase EXCEPT ![r] = 1]
      /\ group' = [group EXCEPT ![r] = 1] /\ cancelled' = [cancelled EXCEPT ![r] = FALSE]
      /\ spawned' = [spawned EXCEPT ![r] = {}]
      /\ kids' = [kids EXCEPT ![r] = IF teardown[r] = "begun" THEN @ ELSE {}]
      /\ result' = [result EXCEPT ![r] = how]
  BY DEF Return, Goto
<1>2. MemoryType
  BY DEF Inv
<1>3. MemoryType'
  <2>1. 1 \in 1..(Len(Workflow) + 1)
    BY WorkflowFacts
  <2>2. pc' \in [Runs -> Places] /\ cancelled' \in [Runs -> BOOLEAN]
        /\ result' \in [Runs -> {None, "error", "completed", "failed", "cancelled"}]
    BY <1>1, <1>2 DEF MemoryType, Places, Outcomes
  <2>3. phase' \in [Runs -> 1..(Len(Workflow) + 1)] /\ group' \in [Runs -> Nat]
    BY <1>1, <1>2, <2>1 DEF MemoryType
  <2>4. kids' \in [Runs -> SUBSET Children] /\ spawned' \in [Runs -> SUBSET Children]
    BY <1>1, <1>2 DEF MemoryType
  <2> QED
    BY <1>2, <2>2, <2>3, <2>4 DEF MemoryType
<1>4. /\ pc'[r] = "done" /\ phase'[r] = 1 /\ group'[r] = 1
      /\ kids'[r] \subseteq kids[r] /\ spawned'[r] = {}
  BY <1>1, <1>2 DEF MemoryType
<1>5. 1 \in DOMAIN Workflow => /\ 1 \in DOMAIN Groups(1)
                               /\ \A g \in DOMAIN Groups(1) : ~(g < 1)
  BY GroupsFacts
<1>6. PlaceOK(r)' /\ DoneOK(r)'
  BY <1>4, <1>5 DEF PlaceOK, DoneOK, Joins
<1>7. ClaimOK(r)'
  BY <1>4 DEF ClaimOK, AtWork, Joins
<1>8. KidsOK(r)'
  BY <1>4, AttachedGrows DEF Inv, RunInv, KidsOK, Joins
<1>9. \A q \in Runs : q # r => Untouched(q)
  BY <1>1, <1>2 DEF MemoryType, Untouched
<1>10. (how = "error" \/ \A c \in kids[r] : Terminal(c)) => SettledStep
  BY <1>1, <1>2 DEF MemoryType, SettledStep
<1> QED
  BY <1>3, <1>6, <1>7, <1>8, <1>9, <1>10 DEF RunInv

\* A run that ends with an error and leaves the streams alone.
LEMMA ErrorKeeps ==
  ASSUME Inv, NEW r \in Runs, Return(r, "error"),
         UNCHANGED <<parentVars, rootVars, childVars, sup>>
  PROVE  Kept
<1>1. /\ UNCHANGED rootVars /\ UNCHANGED sup /\ child' = child /\ task' = task
      /\ UNCHANGED parentVars /\ claim' = claim
      /\ checkpoints' = checkpoints /\ released' = released
  BY DEF childVars, parentVars
<1>2. Grows
  BY <1>1, GrowsSame
<1>3. StreamType'
  BY <1>1, <1>2, StreamsSame, TasksSame DEF rootVars
<1>4. /\ MemoryType' /\ RunInv(r)' /\ SettledStep /\ \A q \in Runs : q # r => Untouched(q)
  BY <1>1, <1>2, ReturnFacts DEF Outcomes
<1> QED
  BY <1>1, <1>2, <1>3, <1>4, RunStep DEF NotItsClaim

\* A run that goes to its catch.
LEMMA ThrowKeeps ==
  ASSUME Inv, Grows, NEW r \in Runs, AtWork(r), Throw(r),
         UNCHANGED <<parentVars, rootVars, place, cancelled, result, sup>>,
         TasksStep,
         spawned' \in [Runs -> SUBSET Children], kids' \in [Runs -> SUBSET Children],
         \A q \in Runs : q # r => spawned'[q] = spawned[q] /\ kids'[q] = kids[q],
         spawned'[r] \cup kids'[r] \subseteq Attached
  PROVE  Kept
<1>1. /\ UNCHANGED rootVars /\ UNCHANGED sup /\ root' = root
      /\ UNCHANGED parentVars /\ claim' = claim /\ result' = result
      /\ checkpoints' = checkpoints /\ released' = released
      /\ phase' = phase /\ group' = group /\ cancelled' = cancelled
      /\ pc' = [pc EXCEPT ![r] = "catch"]
  BY DEF parentVars, rootVars, place, Throw, Goto
<1>2. SettledStep /\ StreamType'
  BY <1>1, SettledSame, StreamsSame
<1>3. MemoryType' /\ pc'[r] = "catch"
  BY <1>1 DEF Inv, MemoryType, Places
<1>4. \A q \in Runs : q # r => Untouched(q) /\ NotItsClaim(q)
  BY <1>1 DEF Inv, MemoryType, Untouched, NotItsClaim
<1>5. RunInv(r)
  BY DEF Inv
<1>6. PlaceOK(r)'
  BY <1>1, <1>3, <1>5 DEF RunInv, PlaceOK, Joins
<1>7. ClaimOK(r)'
  BY <1>1, <1>3, <1>5 DEF RunInv, ClaimOK, Joins
<1>8. DoneOK(r)'
  <2>1. phase[r] \in DOMAIN Workflow =>
          \A g \in DOMAIN Groups(phase[r]) : Groups(phase[r])[g] \subseteq Children
    BY GroupsFacts
  <2> QED
    BY <1>1, <1>5, <2>1, CompletedGrows DEF RunInv, DoneOK
<1>9. KidsOK(r)'
  BY <1>3, AttachedGrows DEF KidsOK, Joins
<1> QED
  BY <1>1, <1>2, <1>3, <1>4, <1>6, <1>7, <1>8, <1>9, RunStep DEF RunInv

LEMMA SpawnCancelledKeeps == ASSUME Inv, NEW r \in Runs, SpawnCancelled(r) PROVE Kept
<1>1. child' = child /\ task' = task /\ spawned' = spawned /\ kids' = kids /\ AtWork(r)
  BY DEF SpawnCancelled, childVars, Due, AtWork
<1>2. spawned[r] \cup kids[r] \subseteq Attached
  BY DEF Inv, RunInv, KidsOK
<1>3. Grows
  BY <1>1, GrowsSame
<1> QED
  BY <1>1, <1>2, <1>3, ThrowKeeps, TasksSame DEF SpawnCancelled, Inv, MemoryType

LEMMA SpawnLostKeeps == ASSUME Inv, NEW r \in Runs, SpawnLost(r) PROVE Kept
BY ErrorKeeps DEF SpawnLost

LEMMA JoinFailsKeeps == ASSUME Inv, NEW r \in Runs, JoinFails(r) PROVE Kept
<1>1. child' = child /\ spawned' = spawned /\ kids' = kids /\ AtWork(r)
  BY DEF JoinFails, Joined, AtWork
<1>2. spawned[r] \cup kids[r] \subseteq Attached
  BY DEF Inv, RunInv, KidsOK
<1>3. Grows
  BY <1>1, GrowsSame
<1>4. TasksStep
  <2> DEFINE f == [c \in Children |-> IF c \in Group(r) THEN "none" ELSE task[r][c]]
  <2>1. task' = [task EXCEPT ![r] = f]
    BY DEF JoinFails
  <2>2. f \in [Children -> {"none", "active", "rejected"}]
    BY DEF Inv, StreamType
  <2> QED
    BY <2>1, <2>2, TasksOf
<1> QED
  BY <1>1, <1>2, <1>3, <1>4, ThrowKeeps DEF JoinFails, Inv, MemoryType

-----------------------------------------------------------------------------
(* A run that spawns and joins.                                            *)

LEMMA GroupFacts ==
  ASSUME Inv, NEW r \in Runs, phase[r] \in DOMAIN Workflow
  PROVE  Group(r) \subseteq Children
BY GroupsFacts DEF Inv, RunInv, PlaceOK, Group

\* Sessions that are attached are cancelled.
LEMMA CancelFacts ==
  ASSUME Inv, NEW r \in Runs, NEW S, S \subseteq Attached, CancelSessions(r, S)
  PROVE  Grows /\ task' = task
<1>1. /\ task' = task
      /\ child' = [c \in Children |->
                    IF c \notin S \/ Terminal(c) THEN child[c]
                    ELSE IF task[r][c] = "active" THEN "stopping" ELSE "ended"]
  BY DEF CancelSessions
<1>2. child \in [Children -> ChildStates] /\ \A c \in S : child[c] # "none"
  BY DEF Inv, StreamType, Attached
<1>3. child' \in [Children -> ChildStates]
  BY <1>1, <1>2 DEF ChildStates
<1>4. \A c \in Children : child'[c] = child[c] \/ (c \in S /\ ~Terminal(c) /\ child'[c] # "none")
  BY <1>1
<1> QED
  BY <1>1, <1>2, <1>3, <1>4 DEF Grows

\* The claim is looked at: the phase has no checkpoint yet.
LEMMA SpawnChecksKeeps == ASSUME Inv, NEW r \in Runs, SpawnChecks(r) PROVE Kept
<1>1. /\ Due(r) /\ claim = r /\ pc' = [pc EXCEPT ![r] = "checked"]
      /\ UNCHANGED rootVars /\ UNCHANGED sup /\ root' = root /\ result' = result
      /\ UNCHANGED parentVars /\ checkpoints' = checkpoints /\ released' = released
      /\ claim' = claim /\ phase' = phase /\ group' = group /\ kids' = kids
      /\ cancelled' = cancelled /\ spawned' = spawned /\ child' = child /\ task' = task
  BY DEF SpawnChecks, Goto, parentVars, rootVars, childVars, place
<1>2. RunInv(r) /\ pc[r] = "next" /\ phase[r] \in DOMAIN Workflow /\ phase[r] \notin checkpoints
  BY <1>1 DEF Inv, Due, Skips
<1>3. Grows /\ SettledStep
  BY <1>1, GrowsSame, SettledSame
<1>4. StreamType'
  BY <1>1, <1>3, StreamsSame, TasksSame
<1>5. MemoryType' /\ pc'[r] = "checked"
  BY <1>1 DEF Inv, MemoryType, Places
<1>6. \A q \in Runs : q # r => Untouched(q) /\ NotItsClaim(q)
  BY <1>1 DEF Inv, MemoryType, Untouched, NotItsClaim
<1>7. PlaceOK(r)' /\ DoneOK(r)'
  BY <1>1, <1>2, <1>5 DEF RunInv, PlaceOK, DoneOK, Joins
<1>8. ClaimOK(r)'
  BY <1>1, <1>2, <1>5 DEF RunInv, ClaimOK, AtWork, Joins
<1>9. KidsOK(r)'
  BY <1>1, <1>2, <1>5 DEF RunInv, KidsOK, Attached, Joins
<1> QED
  BY <1>1, <1>3, <1>4, <1>5, <1>6, <1>7, <1>8, <1>9, RunStep DEF RunInv

\* What the fork of a child, or its refusal, does to the children.
LEMMA ForkFacts ==
  ASSUME Inv, NEW r \in Runs, NEW c \in Children, pc[r] = "checked",
         pc' = [pc EXCEPT ![r] = "spawned"] \/ pc' = [pc EXCEPT ![r] = "next"],
         Forks(r, c) \/ Refused
  PROVE  /\ Grows /\ TasksStep /\ spawned' \in [Runs -> SUBSET Children]
         /\ spawned'[r] \subseteq Attached'
         /\ \A q \in Runs : q # r => spawned'[q] = spawned[q]
<1>1. InFork' # InFork
  BY DEF Inv, MemoryType, InFork
<1>2. spawned[r] \subseteq Attached
  BY DEF Inv, RunInv, KidsOK
<1>3. CASE Refused
  <2>1. child' = child /\ task' = task /\ spawned' = spawned
    BY <1>3 DEF Refused, childVars
  <2> QED
    BY <1>2, <2>1, GrowsSame, TasksSame DEF Inv, MemoryType, Attached
<1>4. CASE Forks(r, c)
  <2>1. /\ Alive \/ child[c] # "none"
        /\ child' = [child EXCEPT ![c] = IF @ = "none" THEN "running" ELSE @]
        /\ task' = [task EXCEPT ![r][c] = IF Terminal(c) THEN @ ELSE "active"]
        /\ spawned' = [spawned EXCEPT ![r] = @ \cup {c}]
    BY <1>4 DEF Forks, Attached
  <2>2. child \in [Children -> ChildStates] /\ spawned \in [Runs -> SUBSET Children]
    BY DEF Inv, StreamType, MemoryType
  <2>3. child' \in [Children -> ChildStates]
    BY <2>1, <2>2 DEF ChildStates
  <2>4. \A d \in Children : \/ child'[d] = child[d]
                            \/ child[d] = "none" /\ child'[d] = "running" /\ Alive
    BY <2>1, <2>2
  <2>5. Grows
    BY <1>1, <2>3, <2>4 DEF Grows, Terminal
  <2>6. child'[c] # "none"
    BY <2>1, <2>2
  <2>7. TasksStep
    <3> DEFINE f == [task[r] EXCEPT ![c] = IF Terminal(c) THEN @ ELSE "active"]
    <3>1. task[r] \in [Children -> {"none", "active", "rejected"}]
      BY DEF Inv, StreamType
    <3>2. task' = [task EXCEPT ![r] = f] /\ f \in [Children -> {"none", "active", "rejected"}]
      BY <2>1, <3>1
    <3>3. \A d \in Children : f[d] = "active" => task[r][d] = "active" \/ child'[d] # "none"
      BY <2>6, <3>1
    <3> HIDE DEF f
    <3> QED
      BY <3>2, <3>3, TasksOf
  <2>8. /\ spawned' \in [Runs -> SUBSET Children] /\ spawned'[r] = spawned[r] \cup {c}
        /\ \A q \in Runs : q # r => spawned'[q] = spawned[q]
    BY <2>1, <2>2
  <2>9. Attached \subseteq Attached' /\ c \in Attached'
    BY <2>5, <2>6, AttachedGrows DEF Attached
  <2> QED
    BY <1>2, <2>5, <2>7, <2>8, <2>9
<1> QED
  BY <1>3, <1>4

LEMMA SpawnForksKeeps == ASSUME Inv, NEW r \in Runs, SpawnForks(r) PROVE Kept
<1>1. /\ pc[r] = "checked"
      /\ UNCHANGED rootVars /\ UNCHANGED sup /\ root' = root /\ result' = result
      /\ UNCHANGED parentVars /\ checkpoints' = checkpoints /\ released' = released
      /\ claim' = claim /\ phase' = phase /\ group' = group /\ kids' = kids
      /\ cancelled' = cancelled
  BY DEF SpawnForks, parentVars, rootVars
<1>2. RunInv(r) /\ phase[r] \in DOMAIN Workflow
  BY <1>1 DEF Inv, RunInv, PlaceOK
<1>3. PICK c \in Group(r) : Forks(r, c) \/ Refused
  BY DEF SpawnForks
<1>4. pc' = [pc EXCEPT ![r] = "spawned"] \/ pc' = [pc EXCEPT ![r] = "next"]
  BY DEF SpawnForks, Goto
<1>5. c \in Children
  BY <1>2, GroupFacts
<1>6. /\ Grows /\ TasksStep /\ spawned' \in [Runs -> SUBSET Children]
      /\ spawned'[r] \subseteq Attached'
      /\ \A q \in Runs : q # r => spawned'[q] = spawned[q]
  BY <1>1, <1>3, <1>4, <1>5, ForkFacts
<1>7. SettledStep /\ StreamType'
  BY <1>1, <1>6, SettledSame, StreamsSame
<1>8. MemoryType' /\ pc'[r] \in {"next", "spawned"}
  BY <1>1, <1>4, <1>6 DEF Inv, MemoryType, Places
<1>9. \A q \in Runs : q # r => Untouched(q) /\ NotItsClaim(q)
  BY <1>1, <1>4, <1>6 DEF Inv, MemoryType, Untouched, NotItsClaim
<1>10. PlaceOK(r)'
  BY <1>1, <1>2, <1>8 DEF RunInv, PlaceOK, Joins
<1>11. ClaimOK(r)'
  BY <1>1, <1>2, <1>8 DEF RunInv, ClaimOK, AtWork, Joins
<1>12. DoneOK(r)'
  <2>1. \A g \in DOMAIN Groups(phase[r]) : Groups(phase[r])[g] \subseteq Children
    BY <1>2, GroupsFacts
  <2> QED
    BY <1>1, <1>2, <1>6, <2>1, CompletedGrows DEF RunInv, DoneOK
<1>13. KidsOK(r)'
  <2>1. kids[r] \subseteq Attached' /\ kids[r] \subseteq Children
    BY <1>2, <1>6, AttachedGrows DEF RunInv, KidsOK, Inv, MemoryType
  <2> QED
    BY <1>1, <1>2, <1>6, <1>8, <2>1, CompletedGrows DEF RunInv, KidsOK, Joins
<1> QED
  BY <1>1, <1>6, <1>7, <1>8, <1>9, <1>10, <1>11, <1>12, <1>13, RunStep DEF RunInv

LEMMA SpawnReturnsKeeps == ASSUME Inv, NEW r \in Runs, SpawnReturns(r) PROVE Kept
<1>1. /\ pc[r] = "spawned" /\ kids' = [kids EXCEPT ![r] = @ \cup spawned[r]]
      /\ spawned' = [spawned EXCEPT ![r] = {}]
      /\ UNCHANGED rootVars /\ UNCHANGED sup /\ root' = root /\ result' = result
      /\ UNCHANGED parentVars /\ checkpoints' = checkpoints /\ released' = released
      /\ claim' = claim /\ phase' = phase /\ group' = group
      /\ cancelled' = cancelled /\ child' = child /\ task' = task
  BY DEF SpawnReturns, parentVars, rootVars, childVars, place
<1>2. Grows
  BY <1>1, GrowsSame
<1>3. RunInv(r) /\ phase[r] \in DOMAIN Workflow
  BY <1>1 DEF Inv, RunInv, PlaceOK
<1>4. /\ kids' \in [Runs -> SUBSET Children] /\ spawned' \in [Runs -> SUBSET Children]
      /\ kids'[r] = kids[r] \cup spawned[r] /\ spawned'[r] = {}
      /\ \A q \in Runs : q # r => spawned'[q] = spawned[q] /\ kids'[q] = kids[q]
  BY <1>1 DEF Inv, MemoryType
<1>5. kids'[r] \subseteq Attached
  BY <1>3, <1>4 DEF RunInv, KidsOK
<1>6. CASE cancelled[r] \/ spawned[r] # Group(r)
  <2>1. Throw(r) /\ AtWork(r) /\ UNCHANGED place
    BY <1>1, <1>6 DEF SpawnReturns, AtWork
  <2> QED
    BY <1>1, <1>2, <1>4, <1>5, <2>1, ThrowKeeps, TasksSame
<1>7. CASE ~cancelled[r] /\ spawned[r] = Group(r)
  <2>1. pc' = [pc EXCEPT ![r] = "joining"]
    BY <1>7 DEF SpawnReturns, Goto
  <2>2. SettledStep /\ StreamType'
    BY <1>1, <1>2, SettledSame, StreamsSame, TasksSame
  <2>3. MemoryType' /\ pc'[r] = "joining"
    BY <1>1, <1>4, <2>1 DEF Inv, MemoryType, Places
  <2>4. \A q \in Runs : q # r => Untouched(q) /\ NotItsClaim(q)
    BY <1>1, <1>4, <2>1 DEF Inv, MemoryType, Untouched, NotItsClaim
  <2>5. PlaceOK(r)'
    BY <1>1, <1>3, <2>3 DEF RunInv, PlaceOK, Joins
  <2>6. ClaimOK(r)'
    BY <1>1, <1>3, <2>3 DEF RunInv, ClaimOK, AtWork, Joins
  <2>7. DoneOK(r)'
    BY <1>1, <1>3 DEF RunInv, DoneOK
  <2>8. Group(r)' = Group(r) /\ Attached' = Attached
    BY <1>1 DEF Group, Attached
  <2>9. KidsOK(r)'
    BY <1>1, <1>3, <1>4, <1>5, <1>7, <2>3, <2>8 DEF RunInv, KidsOK, Joins
  <2> QED
    BY <1>1, <1>2, <2>2, <2>3, <2>4, <2>5, <2>6, <2>7, <2>9, RunStep DEF RunInv
<1> QED
  BY <1>6, <1>7

LEMMA JoinTimesOutKeeps == ASSUME Inv, NEW r \in Runs, JoinTimesOut(r) PROVE Kept
<1>1. /\ pc[r] = "joining" /\ pc' = [pc EXCEPT ![r] = "cancelling"]
      /\ CancelSessions(r, Group(r))
      /\ UNCHANGED rootVars /\ UNCHANGED sup /\ root' = root /\ result' = result
      /\ UNCHANGED parentVars /\ checkpoints' = checkpoints /\ released' = released
      /\ claim' = claim /\ phase' = phase /\ group' = group
      /\ cancelled' = cancelled /\ kids' = kids /\ spawned' = spawned
  BY DEF JoinTimesOut, Goto, parentVars, rootVars, place
<1>2. RunInv(r) /\ Group(r) \subseteq Attached /\ phase[r] \in DOMAIN Workflow
  BY <1>1 DEF Inv, RunInv, KidsOK, PlaceOK, Joins
<1>3. Grows /\ task' = task
  BY <1>1, <1>2, CancelFacts
<1>4. SettledStep /\ StreamType'
  BY <1>1, <1>3, SettledSame, StreamsSame, TasksSame
<1>5. MemoryType' /\ pc'[r] = "cancelling"
  BY <1>1 DEF Inv, MemoryType, Places
<1>6. \A q \in Runs : q # r => Untouched(q) /\ NotItsClaim(q)
  BY <1>1 DEF Inv, MemoryType, Untouched, NotItsClaim
<1>7. PlaceOK(r)'
  BY <1>1, <1>2, <1>5 DEF RunInv, PlaceOK, Joins
<1>8. ClaimOK(r)'
  BY <1>1, <1>2, <1>5 DEF RunInv, ClaimOK, AtWork, Joins
<1>9. DoneOK(r)'
  <2>1. \A g \in DOMAIN Groups(phase[r]) : Groups(phase[r])[g] \subseteq Children
    BY <1>2, GroupsFacts
  <2> QED
    BY <1>1, <1>2, <1>3, <2>1, CompletedGrows DEF RunInv, DoneOK
<1>10. KidsOK(r)'
  <2>1. Group(r)' = Group(r) /\ Attached \subseteq Attached' /\ kids[r] \subseteq Children
    BY <1>1, <1>3, AttachedGrows DEF Group, Inv, MemoryType
  <2> QED
    BY <1>1, <1>2, <1>3, <1>5, <2>1, CompletedGrows DEF RunInv, KidsOK, Joins
<1> QED
  BY <1>1, <1>3, <1>4, <1>5, <1>6, <1>7, <1>8, <1>9, <1>10, RunStep DEF RunInv

-----------------------------------------------------------------------------
(* A group, a phase and the workflow that are complete.                    *)

\* Joined and found completed: the group, and with it all children of the run.
LEMMA JoinedFacts ==
  ASSUME Inv, NEW r \in Runs, Joined(r), JoinOk(r)
  PROVE  /\ AtWork(r) /\ pc[r] \in Joins /\ phase[r] \in DOMAIN Workflow
         /\ group[r] \in DOMAIN Groups(phase[r])
         /\ \A c \in kids[r] : child[c] = "completed"
         /\ \A g \in DOMAIN Groups(phase[r]) : g <= group[r] =>
              \A c \in Groups(phase[r])[g] : child[c] = "completed"
<1>1. RunInv(r) /\ pc[r] \in Joins
  BY DEF Inv, Joined, Joins
<1>2. phase[r] \in DOMAIN Workflow /\ group[r] \in DOMAIN Groups(phase[r])
  BY <1>1 DEF RunInv, PlaceOK
<1>3. \A c \in Group(r) : child[c] = "completed"
  BY DEF JoinOk
<1>4. \A c \in kids[r] : child[c] = "completed"
  BY <1>1, <1>3 DEF RunInv, KidsOK
<1>5. ASSUME NEW g \in DOMAIN Groups(phase[r]), g <= group[r]
      PROVE  \A c \in Groups(phase[r])[g] : child[c] = "completed"
  <2>1. g = group[r] \/ g < group[r]
    BY <1>2, <1>5, GroupsFacts
  <2> QED
    BY <1>1, <1>2, <1>3, <2>1 DEF RunInv, DoneOK, Group
<1> QED
  BY <1>1, <1>2, <1>4, <1>5 DEF AtWork, Joins

LEMMA JoinReturnsKeeps == ASSUME Inv, NEW r \in Runs, JoinReturns(r) PROVE Kept
<1>1. /\ Joined(r) /\ JoinOk(r) /\ group[r] < Len(Groups(phase[r]))
      /\ group' = [group EXCEPT ![r] = @ + 1] /\ pc' = [pc EXCEPT ![r] = "next"]
      /\ UNCHANGED rootVars /\ UNCHANGED sup /\ root' = root /\ result' = result
      /\ UNCHANGED parentVars /\ checkpoints' = checkpoints /\ released' = released
      /\ claim' = claim /\ phase' = phase /\ child' = child /\ task' = task
      /\ cancelled' = cancelled /\ kids' = kids /\ spawned' = spawned
  BY DEF JoinReturns, Goto, parentVars, rootVars, childVars
<1>2. /\ AtWork(r) /\ pc[r] \in Joins /\ phase[r] \in DOMAIN Workflow
      /\ group[r] \in DOMAIN Groups(phase[r])
      /\ \A c \in kids[r] : child[c] = "completed"
      /\ \A g \in DOMAIN Groups(phase[r]) : g <= group[r] =>
           \A c \in Groups(phase[r])[g] : child[c] = "completed"
  BY <1>1, JoinedFacts
<1>3. RunInv(r)
  BY DEF Inv
<1>4. Grows /\ SettledStep
  BY <1>1, GrowsSame, SettledSame
<1>5. StreamType'
  BY <1>1, <1>4, StreamsSame, TasksSame
<1>6. /\ group[r] \in Nat /\ group[r] + 1 \in DOMAIN Groups(phase[r]) /\ group[r] + 1 \in Nat
      /\ \A g \in DOMAIN Groups(phase[r]) : g < group[r] + 1 => g <= group[r]
  BY <1>1, <1>2, GroupsFacts
<1>7. MemoryType' /\ pc'[r] = "next" /\ group'[r] = group[r] + 1
  BY <1>1, <1>6 DEF Inv, MemoryType, Places
<1>8. \A q \in Runs : q # r => Untouched(q) /\ NotItsClaim(q)
  BY <1>1 DEF Inv, MemoryType, Untouched, NotItsClaim
<1>9. PlaceOK(r)'
  BY <1>1, <1>6, <1>7 DEF PlaceOK, Joins
<1>10. ClaimOK(r)'
  BY <1>1, <1>2, <1>3, <1>7 DEF RunInv, ClaimOK, AtWork, Joins
<1>11. DoneOK(r)'
  BY <1>1, <1>2, <1>6, <1>7 DEF DoneOK
<1>12. KidsOK(r)'
  BY <1>1, <1>2, <1>3, <1>7 DEF RunInv, KidsOK, Attached, Joins
<1> QED
  BY <1>1, <1>4, <1>5, <1>7, <1>8, <1>9, <1>10, <1>11, <1>12, RunStep DEF RunInv

\* The checkpoint of a phase.
LEMMA CheckpointRecorded ==
  ASSUME Inv, NEW r \in Runs, Checkpoint(r), claim = r, Alive
  PROVE  Kept
<1>1. /\ Joined(r) /\ JoinOk(r) /\ group[r] = Len(Groups(phase[r]))
      /\ checkpoints' = checkpoints \cup {phase[r]}
      /\ phase' = [phase EXCEPT ![r] = @ + 1]
      /\ group' = [group EXCEPT ![r] = 1] /\ pc' = [pc EXCEPT ![r] = "next"]
      /\ UNCHANGED rootVars /\ UNCHANGED sup /\ root' = root /\ result' = result
      /\ released' = released /\ claim' = claim /\ expired' = expired
      /\ child' = child /\ task' = task
      /\ cancelled' = cancelled /\ kids' = kids /\ spawned' = spawned
  BY DEF Checkpoint, Goto, rootVars, childVars
<1>2. /\ AtWork(r) /\ pc[r] \in Joins /\ phase[r] \in DOMAIN Workflow
      /\ \A c \in kids[r] : child[c] = "completed"
      /\ \A g \in DOMAIN Groups(phase[r]) : g <= group[r] =>
           \A c \in Groups(phase[r])[g] : child[c] = "completed"
  BY <1>1, JoinedFacts
<1>3. RunInv(r) /\ phase[r] \in 1..Len(Workflow)
  BY <1>2, WorkflowFacts DEF Inv
<1>4. Grows /\ SettledStep
  BY <1>1, GrowsSame, SettledSame
<1>5. StreamType'
  BY <1>1, <1>2 DEF Inv, StreamType
<1>6. phase[r] + 1 \in 1..(Len(Workflow) + 1)
  BY <1>3, WorkflowFacts
<1>7. MemoryType' /\ pc'[r] = "next" /\ group'[r] = 1 /\ phase'[r] = phase[r] + 1
  BY <1>1, <1>6 DEF Inv, MemoryType, Places
<1>8. \A q \in Runs : q # r => Untouched(q) /\ NotItsClaim(q)
  BY <1>1 DEF Inv, MemoryType, Untouched, NotItsClaim
<1>9. phase'[r] \in DOMAIN Workflow => /\ 1 \in DOMAIN Groups(phase'[r])
                                       /\ \A g \in DOMAIN Groups(phase'[r]) : ~(g < 1)
  BY GroupsFacts
<1>10. PlaceOK(r)' /\ DoneOK(r)'
  BY <1>7, <1>9 DEF PlaceOK, DoneOK, Joins
<1>11. KidsOK(r)'
  BY <1>1, <1>2, <1>3, <1>7 DEF RunInv, KidsOK, Attached, Joins
<1>12. ClaimOK(r)'
  <2>1. \A p \in 1..(phase'[r] - 1) : p \in checkpoints'
    <3>1. \A p \in 1..(phase[r] - 1) : p \in checkpoints
      BY <1>3 DEF RunInv, ClaimOK
    <3>2. \A p \in 1..(phase'[r] - 1) : p \in 1..(phase[r] - 1) \/ p = phase[r]
      BY <1>3, <1>7, WorkflowFacts
    <3> QED
      BY <1>1, <3>1, <3>2
  <2> QED
    BY <1>1, <1>2, <1>3, <1>7, <2>1 DEF RunInv, ClaimOK, AtWork, Joins
<1>13. \A q \in Runs : RunInv(q)'
  BY <1>4, <1>8, <1>10, <1>11, <1>12, UntouchedKeeps DEF RunInv
<1>14. CheckpointsInv'
  <2>1. \A g \in DOMAIN Groups(phase[r]) : g <= group[r]
    BY <1>1, <1>2, GroupsFacts
  <2>2. \A p \in checkpoints' : \A g \in DOMAIN Groups(p) : \A c \in Groups(p)[g] :
          child[c] = "completed"
    BY <1>1, <1>2, <2>1 DEF Inv, CheckpointsInv
  <2>3. released = "completed" => checkpoints' = DOMAIN Workflow
    BY <1>1, <1>2 DEF Inv, CheckpointsInv
  <2> QED
    BY <1>1, <2>2, <2>3 DEF CheckpointsInv
<1>15. RootInv'
  BY <1>1, <1>4, RootKept DEF rootVars
<1> QED
  BY <1>4, <1>5, <1>7, <1>13, <1>14, <1>15 DEF Kept, Inv

LEMMA CheckpointKeeps == ASSUME Inv, NEW r \in Runs, Checkpoint(r) PROVE Kept
<1>1. CASE claim = r /\ Alive
  BY <1>1, CheckpointRecorded
<1>2. CASE claim # r
  <2>1. Return(r, "error") /\ UNCHANGED <<parentVars, rootVars, childVars, sup>>
    BY <1>2 DEF Checkpoint, parentVars
  <2> QED
    BY <2>1, ErrorKeeps
<1>3. CASE claim = r /\ ~Alive
  <2>1. /\ Throw(r) /\ Joined(r) /\ child' = child /\ task' = task
        /\ spawned' = spawned /\ kids' = kids
        /\ UNCHANGED <<parentVars, rootVars, place, cancelled, result, sup>>
    BY <1>3 DEF Checkpoint, parentVars, childVars
  <2>2. AtWork(r) /\ Grows
    BY <2>1, GrowsSame DEF AtWork, Joined
  <2>3. spawned[r] \cup kids[r] \subseteq Attached
    BY DEF Inv, RunInv, KidsOK
  <2> QED
    BY <2>1, <2>2, <2>3, ThrowKeeps, TasksSame DEF Inv, MemoryType
<1> QED
  BY <1>1, <1>2, <1>3

\* The release of a workflow whose phases have all been executed.
LEMMA CompletionKept ==
  ASSUME Inv, NEW r \in Runs, Finish(r), claim = r, Releasable("completed")
  PROVE  Kept
<1>1. /\ pc[r] = "next" /\ phase[r] \notin DOMAIN Workflow
      /\ released' = "completed" /\ Return(r, "completed")
      /\ UNCHANGED rootVars /\ UNCHANGED sup /\ checkpoints' = checkpoints
      /\ claim' = claim /\ expired' = expired /\ root' = root
      /\ child' = child /\ task' = task
  BY DEF Finish, rootVars, childVars
<1>2. Grows
  BY <1>1, GrowsSame
<1>3. RunInv(r)
  BY DEF Inv
<1>4. \A c \in kids[r] : Terminal(c)
  BY <1>1, <1>3 DEF RunInv, KidsOK, Terminal
<1>5. /\ MemoryType' /\ RunInv(r)' /\ SettledStep /\ \A q \in Runs : q # r => Untouched(q)
  BY <1>1, <1>2, <1>4, ReturnFacts DEF Outcomes
<1>6. StreamType'
  BY <1>1, NullAssumption DEF Inv, StreamType
<1>7. \A q \in Runs : q # r => NotItsClaim(q)
  BY <1>1 DEF NotItsClaim
<1>8. \A q \in Runs : RunInv(q)'
  BY <1>2, <1>5, <1>7, UntouchedKeeps
<1>9. checkpoints = DOMAIN Workflow
  <2>1. phase[r] \in 1..(Len(Workflow) + 1)
    BY DEF Inv, MemoryType
  <2>2. phase[r] = Len(Workflow) + 1
    BY <1>1, <2>1, WorkflowFacts
  <2>3. \A p \in 1..Len(Workflow) : p \in checkpoints
    <3>1. \A p \in 1..(phase[r] - 1) : p \in checkpoints
      BY <1>3 DEF RunInv, ClaimOK
    <3>2. phase[r] - 1 = Len(Workflow)
      BY <2>2, WorkflowFacts
    <3> QED
      BY <3>1, <3>2
  <2> QED
    BY <2>3, WorkflowFacts DEF Inv, StreamType
<1>10. CheckpointsInv'
  BY <1>1, <1>9 DEF Inv, CheckpointsInv
<1>11. RootInv'
  BY <1>1, <1>2, RootKept DEF rootVars
<1> QED
  BY <1>2, <1>5, <1>6, <1>8, <1>10, <1>11 DEF Kept, Inv

LEMMA FinishKeeps == ASSUME Inv, NEW r \in Runs, Finish(r) PROVE Kept
<1>1. CASE claim = r /\ Releasable("completed")
  BY <1>1, CompletionKept
<1>2. CASE claim # r
  <2>1. Return(r, "error") /\ UNCHANGED <<parentVars, rootVars, childVars, sup>>
    BY <1>2 DEF Finish, parentVars
  <2> QED
    BY <2>1, ErrorKeeps
<1>3. CASE claim = r /\ ~Releasable("completed")
  <2>1. /\ Throw(r) /\ pc[r] = "next" /\ child' = child /\ task' = task
        /\ spawned' = spawned /\ kids' = kids
        /\ UNCHANGED <<parentVars, rootVars, place, cancelled, result, sup>>
    BY <1>3 DEF Finish, parentVars, childVars
  <2>2. AtWork(r) /\ Grows
    BY <2>1, GrowsSame DEF AtWork
  <2>3. spawned[r] \cup kids[r] \subseteq Attached
    BY DEF Inv, RunInv, KidsOK
  <2> QED
    BY <2>1, <2>2, <2>3, ThrowKeeps, TasksSame DEF Inv, MemoryType
<1> QED
  BY <1>1, <1>2, <1>3

-----------------------------------------------------------------------------
(* Teardown, cancellation and the end of a run.                            *)

\* A step that is of no run.
LEMMA MemorySame ==
  ASSUME Inv, Grows,
         UNCHANGED <<pc, place, spawned, kids, cancelled, result>>,
         UNCHANGED <<claim, released, checkpoints>>, StreamType', RootInv'
  PROVE  Kept
<1>1. /\ pc' = pc /\ phase' = phase /\ group' = group /\ spawned' = spawned /\ kids' = kids
      /\ cancelled' = cancelled /\ result' = result
      /\ claim' = claim /\ released' = released /\ checkpoints' = checkpoints
  BY DEF place
<1>2. \A q \in Runs : Untouched(q) /\ NotItsClaim(q)
  BY <1>1 DEF Untouched, NotItsClaim
<1>3. \A q \in Runs : RunInv(q)'
  BY <1>2, UntouchedKeeps
<1>4. MemoryType' /\ SettledStep
  BY <1>1, SettledSame DEF Inv, MemoryType
<1>5. CheckpointsInv'
  BY <1>1, CheckpointsKept
<1> QED
  BY <1>3, <1>4, <1>5 DEF Kept, Inv

LEMMA TeardownAsksKeeps == ASSUME Inv, NEW r \in Runs, TeardownAsks(r) PROVE Kept
<1>1. /\ CancelSessions(r, kids[r]) /\ kids[r] \subseteq Attached
      /\ UNCHANGED <<pc, place, spawned, kids, cancelled, result>>
      /\ UNCHANGED <<claim, released, checkpoints>> /\ UNCHANGED parentVars
      /\ UNCHANGED rootVars /\ UNCHANGED root /\ UNCHANGED rootTask /\ UNCHANGED sup
  BY DEF TeardownAsks, parentVars, rootVars, Inv, RunInv, KidsOK
<1>2. Grows /\ task' = task
  BY <1>1, CancelFacts
<1>3. StreamType'
  BY <1>1, <1>2, StreamsSame, TasksSame
<1>4. RootInv'
  BY <1>1, <1>2, RootKept
<1> QED
  BY <1>1, <1>2, <1>3, <1>4, MemorySame

LEMMA TeardownEndsKeeps == ASSUME Inv, NEW r \in Runs, TeardownEnds(r) PROVE Kept
<1>1. /\ kids' = [kids EXCEPT ![r] = IF pc[r] = "done" THEN {} ELSE @]
      /\ task' = [task EXCEPT ![r] = [c \in Children |-> IF c \in doomed[r] THEN "none" ELSE @[c]]]
      /\ UNCHANGED rootVars /\ UNCHANGED sup /\ root' = root /\ result' = result
      /\ UNCHANGED parentVars /\ checkpoints' = checkpoints /\ released' = released
      /\ claim' = claim /\ pc' = pc /\ phase' = phase /\ group' = group /\ child' = child
      /\ cancelled' = cancelled /\ spawned' = spawned
  BY DEF TeardownEnds, parentVars, rootVars, place
<1>2. Grows /\ SettledStep
  BY <1>1, GrowsSame, SettledSame
<1>3. TasksStep
  <2>1. task \in [Runs -> [Children -> {"none", "active", "rejected"}]]
    BY DEF Inv, StreamType
  <2>2. [c \in Children |-> IF c \in doomed[r] THEN "none" ELSE task[r][c]]
          \in [Children -> {"none", "active", "rejected"}]
    BY <2>1
  <2> QED
    BY <1>1, <2>2, TasksOf
<1>4. StreamType'
  BY <1>1, <1>2, <1>3, StreamsSame
<1>5. MemoryType' /\ (kids'[r] = kids[r] \/ kids'[r] = {})
  BY <1>1 DEF Inv, MemoryType
<1>6. \A q \in Runs : q # r => Untouched(q) /\ NotItsClaim(q)
  BY <1>1 DEF Inv, MemoryType, Untouched, NotItsClaim
<1>7. RunInv(r)
  BY DEF Inv
<1>8. PlaceOK(r)' /\ ClaimOK(r)' /\ DoneOK(r)'
  BY <1>1, <1>7 DEF RunInv, PlaceOK, ClaimOK, AtWork, DoneOK
<1>9. KidsOK(r)'
  <2>1. Group(r)' = Group(r) /\ Attached' = Attached
    BY <1>1 DEF Group, Attached
  <2> QED
    BY <1>1, <1>5, <1>7, <2>1 DEF RunInv, KidsOK
<1> QED
  BY <1>1, <1>2, <1>4, <1>5, <1>6, <1>8, <1>9, RunStep DEF RunInv

LEMMA CatchReturnsKeeps == ASSUME Inv, NEW r \in Runs, CatchReturns(r) PROVE Kept
<1>1. /\ pc[r] = "catch" /\ child' = child /\ task' = task
      /\ UNCHANGED rootVars /\ UNCHANGED sup /\ root' = root
      /\ claim' = claim /\ expired' = expired /\ checkpoints' = checkpoints
  BY DEF CatchReturns, rootVars, childVars
<1>2. Grows
  BY <1>1, GrowsSame
<1> DEFINE status == IF cancelled[r] THEN "cancelled" ELSE "failed"
<1>3. \/ Return(r, "error") /\ UNCHANGED released
      \/ /\ ~\E c \in kids[r] : ~Terminal(c)
         /\ claim = r /\ released' = status /\ Return(r, status)
  BY DEF CatchReturns, CatchReleases
<1>4. CASE Return(r, "error") /\ UNCHANGED released
  BY <1>1, <1>4, ErrorKeeps DEF parentVars, childVars
<1>5. CASE /\ ~\E c \in kids[r] : ~Terminal(c)
           /\ claim = r /\ released' = status /\ Return(r, status)
  <2>1. status \in {"failed", "cancelled"} /\ status \in Outcomes
    BY DEF Outcomes
  <2> HIDE DEF status
  <2>2. /\ MemoryType' /\ RunInv(r)' /\ SettledStep /\ \A q \in Runs : q # r => Untouched(q)
    BY <1>1, <1>2, <1>5, <2>1, ReturnFacts
  <2>3. StreamType'
    BY <1>1, <1>5, <2>1, NullAssumption DEF Inv, StreamType
  <2>4. \A q \in Runs : q # r => NotItsClaim(q)
    BY <1>1, <1>5 DEF NotItsClaim
  <2> QED
    BY <1>1, <1>2, <1>5, <2>1, <2>2, <2>3, <2>4, RunStep
<1> QED
  BY <1>3, <1>4, <1>5

\* The cancellation of a run, by itself or with its root.
LEMMA CancelRunFacts ==
  ASSUME Inv, NEW r \in Runs, CancelRun(r), AtWork(r),
         UNCHANGED <<claim, expired, checkpoints, childVars, pc, place, spawned, kids, result>>,
         root' \in {"active", "stopping", "cancelled", "ended"}, RootInv'
  PROVE  Kept
<1>1. /\ cancelled' = [cancelled EXCEPT ![r] = TRUE]
      /\ released' = released \/ (released' = "cancelled" /\ claim = r)
      /\ claim' = claim /\ expired' = expired /\ checkpoints' = checkpoints
      /\ pc' = pc /\ phase' = phase /\ group' = group /\ child' = child /\ task' = task
      /\ kids' = kids /\ spawned' = spawned /\ result' = result
  BY DEF CancelRun, childVars, place
<1>2. Grows /\ SettledStep
  BY <1>1, GrowsSame, SettledSame
<1>3. StreamType'
  BY <1>1, NullAssumption DEF Inv, StreamType
<1>4. MemoryType' /\ cancelled'[r] = TRUE
  BY <1>1 DEF Inv, MemoryType
<1>5. \A q \in Runs : q # r => Untouched(q) /\ NotItsClaim(q)
  BY <1>1 DEF Inv, MemoryType, Untouched, NotItsClaim
<1>6. RunInv(r)
  BY DEF Inv
<1>7. PlaceOK(r)' /\ ClaimOK(r)' /\ DoneOK(r)'
  BY <1>1, <1>4, <1>6 DEF RunInv, PlaceOK, ClaimOK, AtWork, DoneOK
<1>8. KidsOK(r)'
  <2>1. Group(r)' = Group(r) /\ Attached' = Attached
    BY <1>1 DEF Group, Attached
  <2> QED
    BY <1>1, <1>6, <2>1 DEF RunInv, KidsOK
<1>9. \A q \in Runs : RunInv(q)'
  BY <1>2, <1>5, <1>7, <1>8, UntouchedKeeps DEF RunInv
<1>10. CheckpointsInv'
  BY <1>1, <1>2, CheckpointsKept
<1> QED
  BY <1>2, <1>3, <1>4, <1>9, <1>10 DEF Kept, Inv

LEMMA CancelKeeps == ASSUME Inv, NEW r \in Runs, Cancel(r) PROVE Kept
<1>1. /\ CancelRun(r) /\ AtWork(r) /\ UNCHANGED rootVars /\ UNCHANGED sup /\ root' = root
      /\ UNCHANGED <<claim, expired, checkpoints, childVars, pc, place, spawned, kids, result>>
  BY DEF Cancel, rootVars
<1>2. RootInv'
  BY <1>1 DEF Inv, RootInv, rootVars, childVars, Terminal
<1> QED
  BY <1>1, <1>2, CancelRunFacts DEF Inv, StreamType

LEMMA DisposeKeeps == ASSUME Inv, NEW r \in Runs, Dispose(r) PROVE Kept
<1>1. /\ AtWork(r) /\ cancelled' = [cancelled EXCEPT ![r] = TRUE]
      /\ UNCHANGED rootVars /\ UNCHANGED sup /\ root' = root /\ result' = result
      /\ UNCHANGED parentVars /\ checkpoints' = checkpoints /\ released' = released
      /\ claim' = claim /\ pc' = pc /\ phase' = phase /\ group' = group
      /\ child' = child /\ task' = task /\ kids' = kids /\ spawned' = spawned
  BY DEF Dispose, parentVars, rootVars, childVars, place
<1>2. Grows /\ SettledStep
  BY <1>1, GrowsSame, SettledSame
<1>3. StreamType'
  BY <1>1, <1>2, StreamsSame, TasksSame
<1>4. MemoryType' /\ cancelled'[r] = TRUE
  BY <1>1 DEF Inv, MemoryType
<1>5. \A q \in Runs : q # r => Untouched(q) /\ NotItsClaim(q)
  BY <1>1 DEF Inv, MemoryType, Untouched, NotItsClaim
<1>6. RunInv(r)
  BY DEF Inv
<1>7. PlaceOK(r)' /\ ClaimOK(r)' /\ DoneOK(r)'
  BY <1>1, <1>4, <1>6 DEF RunInv, PlaceOK, ClaimOK, AtWork, DoneOK
<1>8. KidsOK(r)'
  <2>1. Group(r)' = Group(r) /\ Attached' = Attached
    BY <1>1 DEF Group, Attached
  <2> QED
    BY <1>1, <1>6, <2>1 DEF RunInv, KidsOK
<1> QED
  BY <1>1, <1>2, <1>3, <1>4, <1>5, <1>7, <1>8, RunStep DEF RunInv

\* A process that dies takes the memory of its run with it.
LEMMA CrashKeeps == ASSUME Inv, NEW r \in Runs, Crash(r) PROVE Kept
<1>1. /\ pc' = [pc EXCEPT ![r] = "dead"]
      /\ task' = [task EXCEPT ![r] = [c \in Children |-> "none"]]
      /\ spawned' = [spawned EXCEPT ![r] = {}] /\ kids' = [kids EXCEPT ![r] = {}]
      /\ phase' = [phase EXCEPT ![r] = 1] /\ group' = [group EXCEPT ![r] = 1]
      /\ cancelled' = [cancelled EXCEPT ![r] = FALSE]
      /\ root' = root /\ result' = result /\ child' = child
      /\ UNCHANGED parentVars /\ checkpoints' = checkpoints /\ released' = released
      /\ claim' = claim
  BY DEF Crash, Goto, parentVars
<1>2. Grows /\ SettledStep
  BY <1>1, GrowsSame, SettledSame
<1>3. TasksStep
  <2> DEFINE f == [c \in Children |-> "none"]
  <2>1. task' = [task EXCEPT ![r] = f] /\ f \in [Children -> {"none", "active", "rejected"}]
    BY <1>1
  <2> QED
    BY <2>1, TasksOf
<1>4. StreamType'
  BY <1>1, <1>2, <1>3, StreamsSame
<1>5. 1 \in 1..(Len(Workflow) + 1)
  BY WorkflowFacts
<1>6. MemoryType'
  <2>1. pc' \in [Runs -> Places] /\ cancelled' \in [Runs -> BOOLEAN]
    BY <1>1 DEF Inv, MemoryType, Places
  <2>2. phase' \in [Runs -> 1..(Len(Workflow) + 1)] /\ group' \in [Runs -> Nat]
    BY <1>1, <1>5 DEF Inv, MemoryType
  <2>3. spawned' \in [Runs -> SUBSET Children] /\ kids' \in [Runs -> SUBSET Children]
    BY <1>1 DEF Inv, MemoryType
  <2> QED
    BY <1>1, <2>1, <2>2, <2>3 DEF Inv, MemoryType
<1>7. /\ pc'[r] = "dead" /\ phase'[r] = 1 /\ group'[r] = 1 /\ kids'[r] = {} /\ spawned'[r] = {}
  BY <1>1 DEF Inv, MemoryType
<1>8. 1 \in DOMAIN Workflow => 1 \in DOMAIN Groups(1) /\ \A g \in DOMAIN Groups(1) : ~(g < 1)
  BY GroupsFacts
<1>9. RunInv(r)'
  BY <1>7, <1>8 DEF RunInv, PlaceOK, ClaimOK, AtWork, DoneOK, KidsOK, Joins
<1>10. \A q \in Runs : q # r => Untouched(q) /\ NotItsClaim(q)
  BY <1>1 DEF Inv, MemoryType, Untouched, NotItsClaim
<1>11. \A q \in Runs : RunInv(q)'
  BY <1>2, <1>9, <1>10, UntouchedKeeps
<1>12. CheckpointsInv'
  BY <1>1, <1>2, CheckpointsKept
<1>13. RootInv'
  <2>1. (sup'.at = "cancelled" => sup.at = "cancelled") /\ (~rootTask => ~rootTask')
    BY DEF Crash
  <2> QED
    BY <1>1, <1>2, <2>1, RootKept
<1> QED
  BY <1>2, <1>4, <1>6, <1>11, <1>12, <1>13 DEF Kept, Inv

-----------------------------------------------------------------------------
(* The supervisor, the drives and the clock.                               *)

LEMMA CancelRootKeeps == ASSUME Inv, CancelRoot PROVE Kept
<1>1. /\ UNCHANGED <<claim, expired, checkpoints, childVars, pc, place, spawned, kids, result>>
      /\ sup'.at = "waiting" /\ rootTask' = rootTask
      /\ root' = IF ~Alive THEN root ELSE IF rootTask THEN "stopping" ELSE "cancelled"
  BY DEF CancelRoot
<1>2. root' \in {"active", "stopping", "cancelled", "ended"}
  BY <1>1 DEF Inv, StreamType
<1>3. RootInv'
  BY <1>1 DEF RootInv
<1>4. CASE AtWork(Supervisor)
  <2>1. CancelRun(Supervisor)
    BY <1>4 DEF CancelRoot
  <2> QED
    BY <1>1, <1>2, <1>3, <1>4, <2>1, WorkflowFacts, CancelRunFacts
<1>5. CASE ~AtWork(Supervisor)
  <2>1. UNCHANGED <<released, cancelled>> /\ child' = child /\ task' = task
    BY <1>1, <1>5 DEF CancelRoot, childVars
  <2>2. Grows
    BY <2>1, GrowsSame
  <2>3. StreamType'
    BY <1>1, <1>2, <2>1 DEF Inv, StreamType
  <2> QED
    BY <1>1, <1>3, <2>1, <2>2, <2>3, MemorySame
<1> QED
  BY <1>4, <1>5

\* An answer that the state bears out.
LEMMA AnswerFacts ==
  ASSUME Inv, NEW how, Answer(how),
         how = "cancelled" => root = "cancelled" /\ ~rootTask /\ \A c \in Attached : Terminal(c)
  PROVE  Kept
<1>1. /\ UNCHANGED <<pc, place, spawned, kids, cancelled, result>>
      /\ UNCHANGED <<claim, released, checkpoints>> /\ UNCHANGED parentVars
      /\ root' = root /\ rootTask' = rootTask /\ child' = child /\ task' = task
      /\ sup'.at = how
  BY DEF Answer, parentVars, rootVars, childVars
<1>2. Grows
  BY <1>1, GrowsSame
<1>3. StreamType'
  BY <1>1, <1>2, StreamsSame, TasksSame
<1>4. RootInv'
  BY <1>1 DEF RootInv, Attached, Terminal
<1> QED
  BY <1>1, <1>2, <1>3, <1>4, MemorySame

LEMMA CancelRootReturnsKeeps == ASSUME Inv, CancelRootReturns PROVE Kept
<1> DEFINE how == IF root = "cancelled" /\ Faultless /\ \A c \in Attached : Terminal(c)
                  THEN "cancelled" ELSE "idle"
<1>1. Answer(how) /\ ~rootTask
  BY DEF CancelRootReturns, SupervisorSettled
<1>2. how = "cancelled" => root = "cancelled" /\ \A c \in Attached : Terminal(c)
  OBVIOUS
<1> HIDE DEF how
<1> QED
  BY <1>1, <1>2, AnswerFacts

LEMMA CancelRootTimesOutKeeps == ASSUME Inv, CancelRootTimesOut PROVE Kept
<1>1. Answer("idle")
  BY DEF CancelRootTimesOut
<1> QED
  BY <1>1, AnswerFacts

\* A drive ends, and its child with it if it had not ended before.
LEMMA DriveFacts ==
  ASSUME Inv, NEW r \in Runs, NEW c \in Children, task[r][c] = "active",
         NEW to \in {"none", "rejected"}, task' = [task EXCEPT ![r][c] = to],
         child' = child \/ (~Terminal(c) /\ \E how \in {"completed", "ended"} :
                                               child' = [child EXCEPT ![c] = how]),
         UNCHANGED <<parentVars, rootVars, pc, place, spawned, kids, cancelled, result, sup>>
  PROVE  Kept
<1>1. /\ UNCHANGED <<pc, place, spawned, kids, cancelled, result>>
      /\ UNCHANGED <<claim, released, checkpoints>> /\ UNCHANGED parentVars
      /\ root' = root /\ rootTask' = rootTask /\ sup' = sup
  BY DEF parentVars, rootVars
<1>2. child[c] # "none" /\ child \in [Children -> ChildStates]
  BY DEF Inv, StreamType
<1>3. Grows
  <2>1. CASE child' = child
    BY <2>1, GrowsSame
  <2>2. CASE child' # child
    <3>1. PICK how \in {"completed", "ended"} : ~Terminal(c) /\ child' = [child EXCEPT ![c] = how]
      BY <2>2
    <3>2. child' \in [Children -> ChildStates]
      BY <1>2, <3>1 DEF ChildStates
    <3> QED
      BY <1>2, <3>1, <3>2 DEF Grows
  <2> QED
    BY <2>1, <2>2
<1>4. TasksStep
  <2> DEFINE f == [task[r] EXCEPT ![c] = to]
  <2>1. task[r] \in [Children -> {"none", "active", "rejected"}]
    BY DEF Inv, StreamType
  <2>2. task' = [task EXCEPT ![r] = f] /\ f \in [Children -> {"none", "active", "rejected"}]
        /\ \A d \in Children : f[d] = "active" => task[r][d] = "active"
    BY <2>1
  <2> HIDE DEF f
  <2> QED
    BY <2>2, TasksOf
<1>5. StreamType'
  BY <1>1, <1>3, <1>4, StreamsSame
<1>6. RootInv'
  BY <1>1, <1>3, RootKept
<1> QED
  BY <1>1, <1>3, <1>5, <1>6, MemorySame

LEMMA TaskEndsKeeps ==
  ASSUME Inv, NEW r \in Runs, NEW c \in Children, TaskEnds(r, c)
  PROVE  Kept
<1>1. /\ task[r][c] = "active" /\ task' = [task EXCEPT ![r][c] = "none"]
      /\ UNCHANGED <<parentVars, rootVars, pc, place, spawned, kids, cancelled, result, sup>>
  BY DEF TaskEnds
<1>2. child' = child \/ (~Terminal(c) /\ \E how \in {"completed", "ended"} :
                                            child' = [child EXCEPT ![c] = how])
  BY DEF TaskEnds
<1> QED
  BY <1>1, <1>2, DriveFacts

LEMMA TaskThrowsKeeps ==
  ASSUME Inv, NEW r \in Runs, NEW c \in Children, TaskThrows(r, c)
  PROVE  Kept
<1>1. /\ task[r][c] = "active" /\ task' = [task EXCEPT ![r][c] = "rejected"]
      /\ child' = [child EXCEPT ![c] = IF Terminal(c) THEN @ ELSE "ended"]
      /\ UNCHANGED <<parentVars, rootVars, pc, place, spawned, kids, cancelled, result, sup>>
  BY DEF TaskThrows
<1>2. child \in [Children -> ChildStates]
  BY DEF Inv, StreamType
<1>3. CASE Terminal(c)
  <2>1. child' = child
    BY <1>1, <1>2, <1>3
  <2> QED
    BY <1>1, <2>1, DriveFacts
<1>4. CASE ~Terminal(c)
  <2>1. child' = [child EXCEPT ![c] = "ended"]
    BY <1>1, <1>4
  <2> QED
    BY <1>1, <1>4, <2>1, DriveFacts
<1> QED
  BY <1>3, <1>4

LEMMA RootEndsKeeps == ASSUME Inv, RootEnds PROVE Kept
<1>1. /\ UNCHANGED <<pc, place, spawned, kids, cancelled, result>>
      /\ UNCHANGED <<claim, released, checkpoints>> /\ expired' = expired
      /\ child' = child /\ task' = task /\ sup' = sup /\ rootTask
      /\ root' \in {"cancelled", "ended"}
  BY DEF RootEnds, parentVars, childVars
<1>2. Grows
  BY <1>1, GrowsSame
<1>3. StreamType'
  BY <1>1 DEF Inv, StreamType
<1>4. RootInv'
  BY <1>1 DEF Inv, RootInv
<1> QED
  BY <1>1, <1>2, <1>3, <1>4, MemorySame

LEMMA ClaimExpiresKeeps == ASSUME Inv, ClaimExpires PROVE Kept
<1>1. /\ UNCHANGED <<pc, place, spawned, kids, cancelled, result>>
      /\ UNCHANGED <<claim, released, checkpoints>> /\ expired' = TRUE
      /\ child' = child /\ task' = task /\ sup' = sup /\ root' = root /\ rootTask' = rootTask
  BY DEF ClaimExpires, rootVars, childVars
<1>2. Grows
  BY <1>1, GrowsSame
<1>3. StreamType'
  BY <1>1 DEF Inv, StreamType
<1>4. RootInv'
  BY <1>1, <1>2, RootKept
<1> QED
  BY <1>1, <1>2, <1>3, <1>4, MemorySame

LEMMA StutterKeeps == ASSUME Inv, UNCHANGED vars PROVE Inv'
<1>1. /\ UNCHANGED <<pc, place, spawned, kids, cancelled, result>>
      /\ UNCHANGED <<claim, released, checkpoints>> /\ expired' = expired
      /\ child' = child /\ task' = task /\ sup' = sup /\ root' = root /\ rootTask' = rootTask
  BY DEF vars, parentVars, rootVars, childVars
<1>2. Grows
  BY <1>1, GrowsSame
<1>3. StreamType'
  BY <1>1 DEF Inv, StreamType
<1>4. RootInv'
  BY <1>1, <1>2, RootKept
<1> QED
  BY <1>1, <1>2, <1>3, <1>4, MemorySame DEF Kept

-----------------------------------------------------------------------------
(* Every step.                                                             *)

LEMMA ExecuteKeeps == ASSUME Inv, NEW r \in Runs, Execute(r) PROVE Kept
BY SkipPhaseKeeps, SpawnCancelledKeeps, SpawnLostKeeps, SpawnChecksKeeps, SpawnForksKeeps,
   SpawnReturnsKeeps, JoinFailsKeeps, JoinReturnsKeeps, CheckpointKeeps, FinishKeeps, TeardownAsksKeeps,
   TeardownEndsKeeps, CatchReturnsKeeps DEF Execute

LEMMA StepKeeps == ASSUME Inv, Next PROVE Kept
BY ReserveKeeps, ReclaimKeeps, ExecuteKeeps, JoinTimesOutKeeps, CancelKeeps, DisposeKeeps,
   CrashKeeps, CancelRootKeeps, CancelRootReturnsKeeps, CancelRootTimesOutKeeps,
   TaskEndsKeeps, TaskThrowsKeeps, RootEndsKeeps, ClaimExpiresKeeps DEF Next, Drives

LEMMA InitInv == Init => Inv
<1> SUFFICES ASSUME Init PROVE Inv
  OBVIOUS
<1>1. StreamType
  <2>1. child \in [Children -> ChildStates]
    BY DEF Init, ChildStates
  <2>2. /\ task \in [Runs -> [Children -> {"none", "active", "rejected"}]]
        /\ \A r \in Runs, c \in Children : task[r][c] # "active"
    BY DEF Init
  <2> QED
    BY <2>1, <2>2 DEF Init, StreamType
<1>2. MemoryType
  <2>1. 1 \in 1..(Len(Workflow) + 1)
    BY WorkflowFacts
  <2>2. phase \in [Runs -> 1..(Len(Workflow) + 1)] /\ group \in [Runs -> Nat]
    BY <2>1 DEF Init
  <2>3. pc \in [Runs -> Places] /\ cancelled \in [Runs -> BOOLEAN]
    BY DEF Init, Places
  <2>4. spawned \in [Runs -> SUBSET Children] /\ kids \in [Runs -> SUBSET Children]
    BY DEF Init
  <2>5. result \in [Runs -> {None, "error", "completed", "failed", "cancelled"}]
    BY DEF Init
  <2> QED
    BY <2>2, <2>3, <2>4, <2>5 DEF MemoryType
<1>3. ASSUME NEW r \in Runs
      PROVE  RunInv(r)
  <2>1. 1 \in DOMAIN Workflow => 1 \in DOMAIN Groups(1) /\ \A g \in DOMAIN Groups(1) : ~(g < 1)
    BY GroupsFacts
  <2>2. /\ pc[r] = "idle" /\ phase[r] = 1 /\ group[r] = 1 /\ spawned[r] = {} /\ kids[r] = {}
        /\ claim # r
    BY NullAssumption DEF Init
  <2> QED
    BY <2>1, <2>2 DEF RunInv, PlaceOK, ClaimOK, DoneOK, KidsOK, Joins
<1>4. CheckpointsInv /\ RootInv
  BY NullAssumption DEF Init, CheckpointsInv, RootInv
<1> QED
  BY <1>1, <1>2, <1>3, <1>4 DEF Inv

-----------------------------------------------------------------------------
(* The spawns that are under way.                                          *)

CalledType == called \in [Runs -> SUBSET Children]

\* What every step keeps of them: no spawn begins once the workflow is released.
CallsKept == CalledType' /\ (released # None => InFork' \subseteq InFork)

LEMMA CallsSame ==
  ASSUME CalledType, pc' = pc, called' = called
  PROVE  CallsKept
BY DEF CalledType, CallsKept, InFork

LEMMA CallsLeft ==
  ASSUME Inv, CalledType, NEW r \in Runs, NEW where, Goto(r, where), where # "checked",
         called' = called \/ called' = [called EXCEPT ![r] = {}]
  PROVE  CallsKept
BY DEF Inv, MemoryType, CalledType, CallsKept, Goto, InFork

LEMMA SpawnCalls ==
  ASSUME Inv, CalledType, NEW r \in Runs, SpawnChecks(r) \/ SpawnForks(r)
  PROVE  CallsKept
<1>1. CASE SpawnChecks(r)
  <2>1. claim = r /\ AtWork(r) /\ ~cancelled[r] /\ called' = called
    BY <1>1 DEF SpawnChecks, Due, AtWork, place
  <2>2. released = None
    BY <2>1 DEF Inv, RunInv, ClaimOK
  <2> QED
    BY <2>1, <2>2 DEF CalledType, CallsKept
<1>2. CASE SpawnForks(r)
  <2>1. phase[r] \in DOMAIN Workflow
    BY <1>2 DEF SpawnForks, Inv, RunInv, PlaceOK
  <2>2. PICK c \in Group(r) :
          \/ called' = [called EXCEPT ![r] = {}] /\ Goto(r, "spawned")
          \/ called' = [called EXCEPT ![r] = @ \cup {c}] /\ Goto(r, "next")
    BY <1>2 DEF SpawnForks
  <2>3. c \in Children
    BY <2>1, GroupFacts
  <2>4. CalledType'
    BY <2>2, <2>3 DEF CalledType
  <2>5. InFork' \subseteq InFork
    BY <2>2 DEF Inv, MemoryType, Goto, InFork
  <2> QED
    BY <2>4, <2>5 DEF CallsKept
<1> QED
  BY <1>1, <1>2

LEMMA ExecuteCalls ==
  ASSUME Inv, CalledType, NEW r \in Runs, Execute(r)
  PROVE  CallsKept
<1>1. CASE SkipPhase(r) \/ TeardownAsks(r) \/ TeardownEnds(r)
  BY <1>1, CallsSame DEF SkipPhase, TeardownAsks, TeardownEnds, place
<1>2. CASE SpawnCancelled(r) \/ SpawnLost(r)
  BY <1>2, CallsLeft DEF SpawnCancelled, SpawnLost, Throw, Return, place
<1>3. CASE SpawnChecks(r) \/ SpawnForks(r)
  BY <1>3, SpawnCalls
<1>4. CASE SpawnReturns(r)
  BY <1>4, CallsLeft DEF SpawnReturns, Throw, place
<1>5. CASE JoinFails(r) \/ JoinReturns(r)
  BY <1>5, CallsLeft DEF JoinFails, JoinReturns, Throw, place
<1>6. CASE Checkpoint(r)
  BY <1>6, CallsLeft DEF Checkpoint, Throw, Return, place
<1>7. CASE Finish(r)
  BY <1>7, CallsLeft DEF Finish, Throw, Return, place
<1>8. CASE CatchReturns(r)
  BY <1>8, CallsLeft DEF CatchReturns, CatchReleases, Return
<1> QED
  BY <1>1, <1>2, <1>3, <1>4, <1>5, <1>6, <1>7, <1>8 DEF Execute

LEMMA StepCalls == ASSUME Inv, CalledType, Next PROVE CallsKept
<1>1. ASSUME NEW r \in Runs, Reserve(r) \/ Reclaim(r) \/ JoinTimesOut(r) \/ Crash(r)
      PROVE  CallsKept
  BY <1>1, CallsLeft DEF Reserve, Reclaim, JoinTimesOut, Crash, place
<1>2. ASSUME NEW r \in Runs, Cancel(r) \/ Dispose(r)
      PROVE  CallsKept
  BY <1>2, CallsSame DEF Cancel, Dispose, place
<1>3. CASE CancelRoot \/ CancelRootReturns \/ CancelRootTimesOut
  BY <1>3, CallsSame DEF CancelRoot, CancelRootReturns, CancelRootTimesOut, Answer, place
<1>4. CASE Drives
  BY <1>4, CallsSame DEF Drives, TaskEnds, TaskThrows, place
<1>5. CASE RootEnds \/ ClaimExpires
  BY <1>5, CallsSame DEF RootEnds, ClaimExpires, place
<1> QED
  BY <1>1, <1>2, <1>3, <1>4, <1>5, ExecuteCalls DEF Next

-----------------------------------------------------------------------------
LEMMA Invariance == Spec => [](Inv /\ CalledType)
<1>1. Init => Inv /\ CalledType
  BY InitInv DEF Init, CalledType
<1>2. Inv /\ CalledType /\ [Next]_vars => (Inv /\ CalledType)'
  <2>1. ASSUME Inv, CalledType, Next
        PROVE  (Inv /\ CalledType)'
    BY <2>1, StepKeeps, StepCalls DEF Kept, CallsKept
  <2>2. ASSUME Inv, CalledType, UNCHANGED vars
        PROVE  (Inv /\ CalledType)'
    BY <2>2, StutterKeeps DEF CalledType, vars, place
  <2> QED
    BY <2>1, <2>2
<1> QED
  BY <1>1, <1>2, PTL DEF Spec

-----------------------------------------------------------------------------
(* The theorems.                                                           *)

\* The state has its type, a durable checkpoint stands for children that all
\* completed, and a workflow released as completed for all of its phases.
THEOREM CompletionIsReal == Spec => []CompletedIsComplete
<1>1. Inv /\ CalledType => CompletedIsComplete
  <2> SUFFICES ASSUME Inv, CalledType PROVE CompletedIsComplete
    OBVIOUS
  <2>1. \A r \in Runs : /\ kids[r] \cup spawned[r] \subseteq Attached
                         /\ called[r] \subseteq Children
    BY DEF Inv, RunInv, KidsOK, CalledType
  <2>2. TypeOK
    BY <2>1 DEF Inv, StreamType, MemoryType, RunInv, PlaceOK, TypeOK, ChildStates
  <2> QED
    BY <2>2 DEF Inv, CheckpointsInv, CompletedIsComplete
<1> QED
  BY <1>1, Invariance, PTL

\* What cancelRoot has answered stays true: the root is cancelled and no child
\* is attached or alive.
THEOREM CancelledStaysSettled == Spec => []RootStaysSettled
<1>1. Inv => RootStaysSettled
  BY DEF Inv, RootInv, RootStaysSettled, Attached
<1> QED
  BY <1>1, Invariance, PTL

\* A run that returned left none of the children it spawned alive.
THEOREM ReturnsSettled == Spec => OwnChildrenSettled
<1>1. Inv /\ [Next]_vars => [SettledStep]_vars
  BY StepKeeps DEF Kept
<1> QED
  BY <1>1, Invariance, PTL DEF Spec, OwnChildrenSettled

\* Once the workflow is released no run begins another spawn: a child is still
\* attached only by the fork of a run that had looked at the claim before.
THEOREM ReleaseIsTheEnd == Spec => LateForkIsLast
<1>1. Inv /\ CalledType /\ [Next]_vars => [ReleasedStep]_vars
  <2>1. ASSUME Inv, CalledType, Next
        PROVE  ReleasedStep
    <3>1. Grows /\ (released # None => InFork' \subseteq InFork)
      BY <2>1, StepKeeps, StepCalls DEF Kept, CallsKept
    <3>2. Attached' # Attached => InFork' # InFork
      BY <3>1 DEF Grows, Attached
    <3> QED
      BY <3>1, <3>2 DEF ReleasedStep
  <2> QED
    BY <2>1
<1> QED
  BY <1>1, Invariance, PTL DEF Spec, LateForkIsLast
=============================================================================
