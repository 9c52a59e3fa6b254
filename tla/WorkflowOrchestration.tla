----------------------- MODULE WorkflowOrchestration -----------------------
(***************************************************************************)
(* One durable workflow under a parent session: the runs that execute it   *)
(* (packages/agent-orchestration/workflow-engine.js), the subagents they   *)
(* spawn, join and cancel (local-subagent-provider.js) and the supervisor  *)
(* that cancels the parent with all that hangs on it                       *)
(* (execution-supervisor.js).                                              *)
(*                                                                         *)
(* Each run is the call of one process with its own engine, provider and   *)
(* agent runtime; the processes share the session store only.  An action   *)
(* is what a process does between two awaits, except for the spawns of a   *)
(* group: these look at the claim and fork in transactions of their own,   *)
(* and other processes come between them.  The child sessions are          *)
(* AgentSession seen from outside: they are driven, cancelled and end.     *)
(***************************************************************************)
EXTENDS Naturals, Sequences, FiniteSets

CONSTANTS
  Runs,            (* request identifiers, each a process of its own        *)
  Supervisor,      (* the one whose process holds the parent's supervisor   *)
  Unsteady,        (* those whose process may be disposed or die (a bound)  *)
  Children,        (* child sessions                                        *)
  Workflow,        (* the phases: their mode and their steps' children      *)
  MaxParallelism,  (* workflow.max_parallelism                              *)
  None

ASSUME WorkflowAssumption ==
  /\ Supervisor \in Runs /\ Unsteady \subseteq Runs
  /\ MaxParallelism \in Nat \ {0}
  /\ Workflow \in Seq([mode : {"pipeline", "parallel"}, steps : Seq(Children) \ {<<>>}])

ASSUME NullAssumption == None \notin Runs \cup {"completed", "failed", "cancelled"}

VARIABLES
  (* the parent's stream *)
  claim,        (* run that holds the claim, or None                        *)
  expired,      (* now > claim_expires_at                                   *)
  released,     (* status of workflow.released, or None                     *)
  checkpoints,  (* phases with a workflow.phase.checkpointed                *)
  root,         (* the parent session: active, stopping once its            *)
                (* cancellation is requested, cancelled, or ended otherwise *)
  rootTask,     (* a supervised agent task drives it                        *)
  (* the children's streams *)
  child,        (* none, running, stopping, completed or ended otherwise    *)
  (* the memory of each process *)
  pc, phase, group,
  called,       (* the children of the group #spawn was called for, while   *)
                (* the process is in the middle of these calls              *)
  spawned,      (* the children of active.pending                           *)
  kids,         (* active.children                                          *)
  cancelled,    (* active.cancelled                                         *)
  teardown,     (* active.teardown                                          *)
  doomed,       (* the children it waits for                                *)
  task,         (* the provider's tasks                                     *)
  result,       (* what run() returned or threw                             *)
  sup           (* cancelRoot: how far it is, whether it waits for a        *)
                (* workflow and whether cancelling that workflow failed     *)

parentVars == <<claim, expired, released, checkpoints>>
rootVars == <<root, rootTask>>
childVars == <<child, task>>
place == <<phase, group, called>>
tearVars == <<teardown, doomed>>
vars == <<parentVars, rootVars, childVars, pc, place, spawned, kids, cancelled, tearVars, result, sup>>

-----------------------------------------------------------------------------
\* The groups of a phase that are spawned and joined together.
Groups(p) ==
  LET steps == Workflow[p].steps
      width == IF Workflow[p].mode = "pipeline" THEN 1 ELSE MaxParallelism
  IN  [g \in 1..((Len(steps) + width - 1) \div width) |->
         {steps[n] : n \in {m \in DOMAIN steps : (m - 1) \div width = g - 1}}]

Group(r) == Groups(phase[r])[group[r]]
Terminal(c) == child[c] \in {"completed", "ended"}
Attached == {c \in Children : child[c] # "none"}
Alive == root \in {"active", "stopping"}
Goto(r, where) == pc' = [pc EXCEPT ![r] = where]
AtWork(r) == pc[r] \in {"next", "checked", "spawned", "joining", "cancelling", "catch"}

\* The runs between their look at the claim and the fork that follows it.
InFork == {r \in Runs : pc[r] = "checked"}

\* The process is in the middle of the spawns of a group: nothing else of it
\* runs before the last one has been called.
MidTurn(r) == r \in InFork \/ called[r] # {}

\* run() returns or throws: what it remembered is forgotten, but for a teardown
\* that is on its way; the tasks of the provider are left running.
Return(r, how) ==
  /\ Goto(r, "done")
  /\ phase' = [phase EXCEPT ![r] = 1] /\ group' = [group EXCEPT ![r] = 1]
  /\ called' = [called EXCEPT ![r] = {}] /\ spawned' = [spawned EXCEPT ![r] = {}]
  /\ cancelled' = [cancelled EXCEPT ![r] = FALSE]
  /\ kids' = [kids EXCEPT ![r] = IF teardown[r] = "begun" THEN @ ELSE {}]
  /\ teardown' = [teardown EXCEPT ![r] = IF @ \in {"begun", "asked"} THEN @ ELSE "no"]
  /\ result' = [result EXCEPT ![r] = how]

\* Mutant: an error does not start the teardown.
ThrowOnly(r) ==
  /\ Goto(r, "catch")
  /\ UNCHANGED teardown

\* The catch of #execute: the teardown starts unless it was started before.
Throw(r) ==
  /\ Goto(r, "catch")
  /\ teardown' = [teardown EXCEPT ![r] = IF @ = "no" THEN "begun" ELSE @]

\* AgentRuntime.cancel for each live child: one that this process drives is
\* asked and ends with its drive, any other one is settled at once.
CancelSessions(r, S) ==
  /\ child' = [c \in Children |->
                 IF c \notin S \/ Terminal(c) THEN child[c]
                 ELSE IF task[r][c] = "active" THEN "stopping" ELSE "ended"]
  /\ UNCHANGED task

\* Whether #release, by the run that holds the claim, appends or finds status.
Releasable(status) == released = status \/ (released = None /\ Alive)

-----------------------------------------------------------------------------
\* run: the first reservation.
Reserve(r) ==
  /\ pc[r] = "idle" /\ claim = None /\ Alive
  /\ claim' = r
  /\ Goto(r, "next")
  /\ UNCHANGED <<expired, released, checkpoints, rootVars, childVars, place, spawned, kids,
                 cancelled, tearVars, result, sup>>

\* run with resume_from_ref: the claim is taken over once it has expired.
Reclaim(r) ==
  /\ pc[r] = "idle" /\ claim # None /\ released = None /\ expired /\ Alive
  /\ claim' = r
  /\ expired' = FALSE
  /\ Goto(r, "next")
  /\ UNCHANGED <<released, checkpoints, rootVars, childVars, place, spawned, kids,
                 cancelled, tearVars, result, sup>>

\* A phase that had a durable checkpoint when the run began is not executed
\* again.  While the run holds the claim no other one adds any, and the children
\* of the phase have ended (CompletedIsComplete), so none is joined again.
Skips(r) == claim = r /\ phase[r] \in checkpoints

SkipPhase(r) ==
  /\ pc[r] = "next" /\ Skips(r)
  /\ phase' = [phase EXCEPT ![r] = @ + 1]
  /\ UNCHANGED <<parentVars, rootVars, childVars, pc, group, called, spawned, kids, cancelled,
                 tearVars, result, sup>>

\* Whether the next group is due: every step of a phase before the next phase.
Due(r) == pc[r] = "next" /\ phase[r] \in DOMAIN Workflow /\ ~Skips(r)

\* active.cancelled is looked at first, and does not change in the calls of a
\* group.
SpawnCancelled(r) ==
  /\ Due(r) /\ cancelled[r]
  /\ Throw(r)
  /\ UNCHANGED <<parentVars, rootVars, childVars, place, spawned, kids, cancelled, doomed, result, sup>>

\* A claim that was lost ends the run without a teardown; the children that
\* were forked before go on.
SpawnLost(r) ==
  /\ Due(r) /\ ~cancelled[r] /\ claim # r
  /\ Return(r, "error")
  /\ UNCHANGED <<parentVars, rootVars, childVars, doomed, sup>>

\* Mutant: the spawn does not look at the claim.
SpawnUnclaimed(r) ==
  /\ Due(r) /\ ~cancelled[r]
  /\ Goto(r, "checked")
  /\ UNCHANGED <<parentVars, rootVars, childVars, place, spawned, kids, cancelled, tearVars,
                 result, sup>>

\* #assertClaim of the next spawn of the group.
SpawnChecks(r) ==
  /\ Due(r) /\ ~cancelled[r] /\ claim = r
  /\ Goto(r, "checked")
  /\ UNCHANGED <<parentVars, rootVars, childVars, place, spawned, kids, cancelled, tearVars,
                 result, sup>>

\* The child is forked from the parent as the store holds it now, whoever holds
\* the claim, or found; and it is sent its turn.
Forks(r, c) ==
  /\ Alive \/ c \in Attached
  /\ child' = [child EXCEPT ![c] = IF @ = "none" THEN "running" ELSE @]
  /\ task' = [task EXCEPT ![r][c] = IF Terminal(c) THEN @ ELSE "active"]
  /\ spawned' = [spawned EXCEPT ![r] = @ \cup {c}]

\* The provider is full, or another process appended to the parent meanwhile.
Refused == UNCHANGED <<childVars, spawned>>

\* The provider's spawn, for one child after the other; after the last of the
\* group the calls are awaited.
SpawnForks(r) ==
  /\ pc[r] = "checked"
  /\ \E c \in Group(r) \ called[r] :
       /\ Forks(r, c) \/ Refused
       /\ IF called[r] \cup {c} = Group(r)
          THEN called' = [called EXCEPT ![r] = {}] /\ Goto(r, "spawned")
          ELSE called' = [called EXCEPT ![r] = @ \cup {c}] /\ Goto(r, "next")
  /\ UNCHANGED <<parentVars, rootVars, phase, group, kids, cancelled, tearVars, result, sup>>

\* The awaits of the spawns return.
SpawnReturns(r) ==
  /\ pc[r] = "spawned"
  /\ kids' = [kids EXCEPT ![r] = @ \cup spawned[r]]
  /\ spawned' = [spawned EXCEPT ![r] = {}]
  /\ IF cancelled[r] \/ spawned[r] # Group(r)
     THEN Throw(r)
     ELSE Goto(r, "joining") /\ UNCHANGED teardown
  /\ UNCHANGED <<parentVars, rootVars, childVars, place, cancelled, doomed, result, sup>>

\* join_timeout_ms passes: the group is cancelled and then waited for again,
\* this time without a deadline.
JoinTimesOut(r) ==
  /\ pc[r] = "joining"
  /\ \E c \in Group(r) : task[r][c] = "active"
  /\ CancelSessions(r, Group(r))
  /\ Goto(r, "cancelling")
  /\ UNCHANGED <<parentVars, rootVars, place, spawned, kids, cancelled, tearVars, result, sup>>

\* Mutant: a child that ended in any way counts as done.
JoinOkOnceTerminal(r) ==
  \A c \in Group(r) : Terminal(c) /\ task[r][c] # "rejected"

\* What the join and the check behind it ask of every child.
JoinOk(r) == \A c \in Group(r) : child[c] = "completed" /\ task[r][c] # "rejected"

Joined(r) ==
  /\ pc[r] \in {"joining", "cancelling"}
  /\ \A c \in Group(r) : task[r][c] # "active"

JoinFails(r) ==
  /\ Joined(r) /\ ~JoinOk(r)
  /\ Throw(r)
  /\ task' = [task EXCEPT ![r] = [c \in Children |-> IF c \in Group(r) THEN "none" ELSE @[c]]]
  /\ UNCHANGED <<parentVars, rootVars, child, place, spawned, kids, cancelled, doomed, result, sup>>

\* The next group of the phase.
JoinReturns(r) ==
  /\ Joined(r) /\ JoinOk(r)
  /\ group[r] < Len(Groups(phase[r]))
  /\ group' = [group EXCEPT ![r] = @ + 1]
  /\ Goto(r, "next")
  /\ UNCHANGED <<parentVars, rootVars, childVars, phase, called, spawned, kids, cancelled,
                 tearVars, result, sup>>

\* The last group of a phase: the checkpoint is fenced by the claim.
Checkpoint(r) ==
  /\ Joined(r) /\ JoinOk(r)
  /\ group[r] = Len(Groups(phase[r]))
  /\ IF claim # r
     THEN Return(r, "error") /\ UNCHANGED checkpoints
     ELSE IF ~Alive
     THEN Throw(r) /\ UNCHANGED <<checkpoints, place, spawned, cancelled, kids, result>>
     ELSE /\ checkpoints' = checkpoints \cup {phase[r]}
          /\ phase' = [phase EXCEPT ![r] = @ + 1]
          /\ group' = [group EXCEPT ![r] = 1]
          /\ Goto(r, "next")
          /\ UNCHANGED <<called, spawned, cancelled, teardown, kids, result>>
  /\ UNCHANGED <<claim, expired, released, rootVars, childVars, doomed, sup>>

\* After the last phase.
Finish(r) ==
  /\ pc[r] = "next" /\ phase[r] \notin DOMAIN Workflow
  /\ IF claim # r
     THEN Return(r, "error") /\ UNCHANGED released
     ELSE IF Releasable("completed")
     THEN released' = "completed" /\ Return(r, "completed")
     ELSE Throw(r) /\ UNCHANGED <<released, place, spawned, cancelled, kids, result>>
  /\ UNCHANGED <<claim, expired, checkpoints, rootVars, childVars, doomed, sup>>

-----------------------------------------------------------------------------
\* #cancelChildren, once: it waits for the pending spawns and cancels the
\* children of this run that are still alive.
TeardownAsks(r) ==
  /\ teardown[r] = "begun" /\ spawned[r] = {}
  /\ doomed' = [doomed EXCEPT ![r] = {c \in kids[r] : ~Terminal(c)}]
  /\ CancelSessions(r, kids[r])
  /\ teardown' = [teardown EXCEPT ![r] = "asked"]
  /\ UNCHANGED <<parentVars, rootVars, pc, place, spawned, kids, cancelled, result, sup>>

\* The tasks of those children have settled; one that rejected fails it.
TeardownEnds(r) ==
  /\ teardown[r] = "asked"
  /\ \A c \in doomed[r] : task[r][c] # "active"
  /\ teardown' = [teardown EXCEPT ![r] =
                    IF pc[r] = "done" THEN "no"
                    ELSE IF \A c \in doomed[r] : Terminal(c) /\ task[r][c] # "rejected"
                    THEN "done" ELSE "failed"]
  /\ kids' = [kids EXCEPT ![r] = IF pc[r] = "done" THEN {} ELSE @]
  /\ task' = [task EXCEPT ![r] = [c \in Children |-> IF c \in doomed[r] THEN "none" ELSE @[c]]]
  /\ doomed' = [doomed EXCEPT ![r] = {}]
  /\ UNCHANGED <<parentVars, rootVars, child, pc, place, spawned, cancelled, result, sup>>

\* What the catch does in the end: a claim that was lost is an error, and the
\* workflow is released otherwise.
CatchReleases(r) ==
  LET status == IF cancelled[r] THEN "cancelled" ELSE "failed"
  IN  IF claim = r /\ Releasable(status)
      THEN released' = status /\ Return(r, status)
      ELSE Return(r, "error") /\ UNCHANGED released

\* Mutant: the catch does not wait for the teardown.
CatchReturnsAtOnce(r) ==
  /\ pc[r] = "catch"
  /\ CatchReleases(r)
  /\ UNCHANGED <<claim, expired, checkpoints, rootVars, childVars, doomed, sup>>

\* The end of the catch: a teardown that failed or left a child of this run
\* alive is an error too.
CatchReturns(r) ==
  /\ pc[r] = "catch" /\ teardown[r] \in {"done", "failed"}
  /\ IF teardown[r] = "failed" \/ \E c \in kids[r] : ~Terminal(c)
     THEN Return(r, "error") /\ UNCHANGED released
     ELSE CatchReleases(r)
  /\ UNCHANGED <<claim, expired, checkpoints, rootVars, childVars, doomed, sup>>

-----------------------------------------------------------------------------
\* WorkflowEngine.cancel: the claim is released first, and the teardown starts
\* only if that succeeds.
CancelRun(r) ==
  /\ cancelled' = [cancelled EXCEPT ![r] = TRUE]
  /\ IF claim = r /\ Releasable("cancelled")
     THEN /\ released' = "cancelled"
          /\ teardown' = [teardown EXCEPT ![r] = IF @ = "no" THEN "begun" ELSE @]
     ELSE UNCHANGED <<released, teardown>>

Cancel(r) ==
  /\ AtWork(r) /\ ~MidTurn(r) /\ ~cancelled[r]
  /\ CancelRun(r)
  /\ UNCHANGED <<claim, expired, checkpoints, rootVars, childVars, pc, place, spawned, kids,
                 doomed, result, sup>>

\* WorkflowEngine.dispose tears down without releasing.
Dispose(r) ==
  /\ r \in Unsteady /\ AtWork(r) /\ ~MidTurn(r) /\ ~cancelled[r]
  /\ cancelled' = [cancelled EXCEPT ![r] = TRUE]
  /\ teardown' = [teardown EXCEPT ![r] = IF @ = "no" THEN "begun" ELSE @]
  /\ UNCHANGED <<parentVars, rootVars, childVars, pc, place, spawned, kids, doomed, result, sup>>

-----------------------------------------------------------------------------
\* cancelRoot: the workflow that runs in this process is cancelled first, then
\* the root session; one that a task drives ends with its drive.
CancelRoot ==
  /\ sup.at = "idle" /\ pc[Supervisor] # "dead" /\ ~MidTurn(Supervisor)
  /\ LET tracked == AtWork(Supervisor)
     IN  /\ sup' = [at |-> "waiting", tracked |-> tracked,
                    fault |-> tracked /\ ~(claim = Supervisor /\ Releasable("cancelled"))]
         /\ IF tracked THEN CancelRun(Supervisor) ELSE UNCHANGED <<released, cancelled, teardown>>
  /\ root' = IF ~Alive THEN root ELSE IF rootTask THEN "stopping" ELSE "cancelled"
  /\ UNCHANGED <<claim, expired, checkpoints, rootTask, childVars, pc, place, spawned, kids,
                 doomed, result>>

\* Everything that was started has settled within the deadline.
SupervisorSettled ==
  /\ sup.at = "waiting" /\ ~rootTask /\ ~MidTurn(Supervisor)
  /\ sup.tracked => pc[Supervisor] = "done" /\ teardown[Supervisor] \notin {"begun", "asked"}

Faultless ==
  ~sup.fault /\ (sup.tracked => result[Supervisor] # "error")

Answer(how) ==
  /\ sup' = [at |-> how, tracked |-> FALSE, fault |-> FALSE]
  /\ UNCHANGED <<parentVars, rootVars, childVars, pc, place, spawned, kids, cancelled, tearVars, result>>

\* Mutant: the descendants are not looked at, only the root and the calls.
CancelRootReturnsRootOnly ==
  /\ SupervisorSettled
  /\ Answer(IF root = "cancelled" /\ Faultless THEN "cancelled" ELSE "idle")

\* The root, every descendant and every call are looked at again.
CancelRootReturns ==
  /\ SupervisorSettled
  /\ Answer(IF root = "cancelled" /\ Faultless /\ \A c \in Attached : Terminal(c)
            THEN "cancelled" ELSE "idle")

CancelRootTimesOut ==
  /\ sup.at = "waiting" /\ ~MidTurn(Supervisor) /\ ~SupervisorSettled
  /\ Answer("idle")

-----------------------------------------------------------------------------
\* The drive of a child ends: one that was asked to stop does not complete.
TaskEnds(r, c) ==
  /\ task[r][c] = "active" /\ ~MidTurn(r)
  /\ IF Terminal(c)
     THEN UNCHANGED child
     ELSE \E how \in IF child[c] = "stopping" THEN {"ended"} ELSE {"completed", "ended"} :
            child' = [child EXCEPT ![c] = how]
  /\ task' = [task EXCEPT ![r][c] = "none"]
  /\ UNCHANGED <<parentVars, rootVars, pc, place, spawned, kids, cancelled, tearVars, result, sup>>

\* The drive throws: its runtime lacks the provider of the session, or another
\* process drives or ended the session too.  The provider's catch cancels it.
TaskThrows(r, c) ==
  /\ task[r][c] = "active" /\ ~MidTurn(r)
  /\ child' = [child EXCEPT ![c] = IF Terminal(c) THEN @ ELSE "ended"]
  /\ task' = [task EXCEPT ![r][c] = "rejected"]
  /\ UNCHANGED <<parentVars, rootVars, pc, place, spawned, kids, cancelled, tearVars, result, sup>>

\* The root's own drive ends.
RootEnds ==
  /\ rootTask /\ ~MidTurn(Supervisor)
  /\ rootTask' = FALSE
  /\ root' \in IF root = "stopping" THEN {"cancelled", "ended"} ELSE {"ended"}
  /\ UNCHANGED <<parentVars, childVars, pc, place, spawned, kids, cancelled, tearVars, result, sup>>

\* Seen only by a run that is still to begin.
ClaimExpires ==
  /\ claim # None /\ released = None /\ ~expired
  /\ \E r \in Runs : pc[r] = "idle"
  /\ expired' = TRUE
  /\ UNCHANGED <<claim, released, checkpoints, rootVars, childVars, pc, place, spawned, kids,
                 cancelled, tearVars, result, sup>>

\* The process dies with its run, its tasks and its supervisor.
Crash(r) ==
  /\ r \in Unsteady /\ AtWork(r)
  /\ Goto(r, "dead")
  /\ task' = [task EXCEPT ![r] = [c \in Children |-> "none"]]
  /\ called' = [called EXCEPT ![r] = {}]
  /\ spawned' = [spawned EXCEPT ![r] = {}] /\ kids' = [kids EXCEPT ![r] = {}]
  /\ phase' = [phase EXCEPT ![r] = 1] /\ group' = [group EXCEPT ![r] = 1]
  /\ cancelled' = [cancelled EXCEPT ![r] = FALSE]
  /\ teardown' = [teardown EXCEPT ![r] = "no"] /\ doomed' = [doomed EXCEPT ![r] = {}]
  /\ sup' = IF r = Supervisor /\ sup.at = "waiting"
            THEN [at |-> "idle", tracked |-> FALSE, fault |-> FALSE] ELSE sup
  /\ rootTask' = (r # Supervisor /\ rootTask)
  /\ UNCHANGED <<parentVars, root, child, result>>

Init ==
  /\ claim = None /\ expired = FALSE /\ released = None /\ checkpoints = {}
  /\ root = "active" /\ rootTask \in BOOLEAN
  /\ child = [c \in Children |-> "none"]
  /\ pc = [r \in Runs |-> "idle"]
  /\ phase = [r \in Runs |-> 1] /\ group = [r \in Runs |-> 1]
  /\ called = [r \in Runs |-> {}] /\ spawned = [r \in Runs |-> {}]
  /\ kids = [r \in Runs |-> {}]
  /\ cancelled = [r \in Runs |-> FALSE]
  /\ teardown = [r \in Runs |-> "no"] /\ doomed = [r \in Runs |-> {}]
  /\ task = [r \in Runs |-> [c \in Children |-> "none"]]
  /\ result = [r \in Runs |-> None]
  /\ sup = [at |-> "idle", tracked |-> FALSE, fault |-> FALSE]

Execute(r) ==
  \/ SkipPhase(r) \/ SpawnCancelled(r) \/ SpawnLost(r) \/ SpawnChecks(r) \/ SpawnForks(r)
  \/ SpawnReturns(r) \/ JoinFails(r) \/ JoinReturns(r) \/ Checkpoint(r) \/ Finish(r)
  \/ TeardownAsks(r) \/ TeardownEnds(r) \/ CatchReturns(r)

Drives == \E r \in Runs, c \in Children : TaskEnds(r, c) \/ TaskThrows(r, c)

Next ==
  \/ \E r \in Runs : Reserve(r) \/ Reclaim(r) \/ Execute(r) \/ JoinTimesOut(r)
                     \/ Cancel(r) \/ Dispose(r) \/ Crash(r)
  \/ CancelRoot \/ CancelRootReturns \/ CancelRootTimesOut
  \/ Drives \/ RootEnds \/ ClaimExpires

Spec == Init /\ [][Next]_vars

\* The engine goes on whenever it can, and its timers fire.
EngineFairSpec ==
  /\ Spec
  /\ \A r \in Runs : WF_vars(Execute(r)) /\ WF_vars(JoinTimesOut(r))

\* In addition every drive of a child ends, an assumption about the runtimes: the
\* wait after a cancellation has no deadline (local-subagent-provider.js:212).
FairSpec ==
  /\ EngineFairSpec
  /\ \A r \in Runs, c \in Children : WF_vars(TaskEnds(r, c))

-----------------------------------------------------------------------------
\* Type invariant of the streams and of the memory of the processes; a part of
\* CompletedIsComplete.
TypeOK ==
  /\ claim \in Runs \cup {None} /\ expired \in BOOLEAN
  /\ released \in {None, "completed", "failed", "cancelled"}
  /\ checkpoints \subseteq DOMAIN Workflow
  /\ root \in {"active", "stopping", "cancelled", "ended"}
  /\ child \in [Children -> {"none", "running", "stopping", "completed", "ended"}]
  /\ \A r \in Runs : /\ phase[r] \in 1..(Len(Workflow) + 1)
                      /\ phase[r] \in DOMAIN Workflow => group[r] \in DOMAIN Groups(phase[r])
                      /\ kids[r] \cup spawned[r] \subseteq Attached
                      /\ called[r] \subseteq Children
  /\ task \in [Runs -> [Children -> {"none", "active", "rejected"}]]

\* Whoever wrote it, and however many runs and drives competed, a durable
\* checkpoint stands for children that all completed, and a workflow released
\* as completed for phases that all were (workflow-engine.js:378-409).
CompletedIsComplete ==
  /\ TypeOK
  /\ \A p \in checkpoints : \A g \in DOMAIN Groups(p) : \A c \in Groups(p)[g] :
       child[c] = "completed"
  /\ released = "completed" => checkpoints = DOMAIN Workflow

\* A run that returned left none of the children it spawned alive, whether its
\* join timed out, a spawn was refused or it was cancelled
\* (workflow-engine.js:412-423).
SettledStep ==
  \A r \in Runs : result'[r] # result[r] /\ result'[r] # "error" =>
     \A c \in kids[r] : Terminal(c)

OwnChildrenSettled == [][SettledStep]_vars

\* When cancelRoot has answered that all is cancelled, it stays so: no run of
\* any process attaches or revives a child afterwards
\* (execution-supervisor.js:188-197).
RootStaysSettled ==
  sup.at = "cancelled" => root = "cancelled" /\ \A c \in Attached : Terminal(c)

\* Once a workflow is released no run begins another spawn of it, neither the
\* one that was cancelled nor one whose claim was taken over: a child is still
\* attached only by a run that was between its look at the claim and the fork,
\* and only that one (workflow-engine.js:249-265).
ReleasedStep ==
  released # None =>
    /\ InFork' \subseteq InFork
    /\ Attached' # Attached => InFork' # InFork

LateForkIsLast == [][ReleasedStep]_vars

\* Whoever attaches a child holds the claim: "spawn, checkpoint and release
\* remain fenced by the captured claim" (README.md of packages/
\* agent-orchestration, line 9).
FencedStep ==
  \A r \in Runs : Attached' # Attached /\ r \in InFork \ InFork' => claim = r

SpawnFenced == [][FencedStep]_vars

\* In the end no run is at work: each has returned, thrown or died with its
\* process, whatever failed under it and whoever waits for whom
\* (workflow-engine.js:412-427, local-subagent-provider.js:202-212).
RunsEnd == <>[](\A r \in Runs : ~AtWork(r))

\* A run that returned failed or cancelled, when no other run is left, has left
\* no child alive that nobody drives: "returning with an active orphan is
\* forbidden" (README.md of packages/agent-orchestration, line 7).
NoOrphanLeft ==
  (\E r \in Runs : result[r] \in {"failed", "cancelled"}) /\ (\A r \in Runs : ~AtWork(r)) =>
    \A c \in Attached : Terminal(c) \/ \E r \in Runs : task[r][c] = "active"
=============================================================================
