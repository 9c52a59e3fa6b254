---------------------------- MODULE AgentSession ----------------------------
(***************************************************************************)
(* One agent session: the durable event stream with the rules its replay   *)
(* enforces (packages/agent-session-store/replay.js) and the AgentRuntime  *)
(* objects that drive it (packages/agent-runtime/runtime.js).              *)
(*                                                                         *)
(* An action is one synchronous turn of a runtime: it replays the stream,  *)
(* appends, and goes on to its next await - the model stream, the governed *)
(* tool, or the end of the drive.  Every append replays the whole stream,  *)
(* so one that breaks a rule throws; the actions say what the throw does.  *)
(* The runtimes belong to one process at a time, so no other runtime comes *)
(* in between the appends of a turn.  A death does: every append is its    *)
(* own transaction, and a runtime may die at any await or between two      *)
(* appends of a turn.  Another one, of the same process or of the next,    *)
(* may be called for the same session at any time.                         *)
(***************************************************************************)
EXTENDS Naturals, Sequences, FiniteSets, SequencesExt

CONSTANTS
  Runtimes,      (* AgentRuntime objects over one store                    *)
  Unequipped,    (* those whose registry may lack the session's provider   *)
  Calls,         (* tool_call identifiers                                  *)
  CallLists,     (* the lists of calls a model reply may ask for           *)
  MaxTurns,      (* spec.limits.max_turns                                  *)
  MaxToolCalls,  (* spec.limits.max_tool_calls                             *)
  MaxSteps,      (* bound: model steps of a turn, for the token budget     *)
  MaxEvents,     (* bound: content events of a model step                  *)
  MaxCrashes,    (* bound: runtimes that die                               *)
  None

ASSUME SessionAssumption ==
  /\ IsFiniteSet(Calls) /\ Unequipped \subseteq Runtimes
  /\ CallLists \subseteq Seq(Calls)
  /\ {MaxTurns, MaxToolCalls, MaxSteps, MaxEvents, MaxCrashes} \subseteq Nat

ASSUME NullAssumption == None \notin {"completed", "failed", "cancelled", "user", "deadline"}

VARIABLES
  turns,         (* turn_order: turns are named by their place in it       *)
  requests,      (* the turns whose context was assembled                  *)
  steps,         (* model_steps of each turn                               *)
  exec,          (* tool_executions of each turn                           *)
  cancellation,  (* source of the cancellation_request, or None; "user"    *)
                 (* stands for "dispose" too                              *)
  terminal,      (* the terminal event, or None                            *)
  pc,            (* of each runtime: where its drive waits                 *)
  at,            (* the turn, step, events delivered and call it is at     *)
  dispatched,    (* calls handed to the tool runtime (observed only)       *)
  alone,         (* the runtime that had the session to itself since it    *)
                 (* began its drive (observed only)                        *)
  crashes

durable == <<turns, requests, steps, exec, cancellation, terminal>>
vars == <<durable, pc, at, dispatched, alone, crashes>>

Turns == 1..MaxTurns
(* "failed" stands for a reply cut at its length too: both fail the session. *)
Replies == {"stop", "tools", "cancelled", "failed"}
Nowhere == [turn |-> None, step |-> 0, sent |-> 0, call |-> None]
OpenStep == [reply |-> "open", events |-> 0, calls |-> <<>>]

-----------------------------------------------------------------------------
\* assertStartedWorkSettled: the reason a terminal event is refused.
OpenWork(s, e) ==
  \/ \E t \in Turns : \E n \in DOMAIN s[t] : s[t][n].reply = "open"
  \/ \E t \in Turns, c \in Calls : e[t][c] = "started"

CloseStep(s, t, n, reply) ==
  IF s[t][n].reply = "open" THEN [s EXCEPT ![t][n].reply = reply] ELSE s

\* Mutant: an execution without an outcome does not fail the session.
SettleAsAsked(s, e, source) ==
  /\ steps' = [t \in Turns |-> [n \in DOMAIN s[t] |->
                 CloseStep(s, t, n, "cancelled")[t][n]]]
  /\ exec' = [t \in Turns |-> [c \in Calls |->
                IF e[t][c] = "started" THEN "unanswered" ELSE e[t][c]]]
  /\ terminal' = IF source = "deadline" THEN "failed" ELSE "cancelled"

\* _settleCancellation: it closes every model step, records what is not known
\* of every execution, and appends the terminal event that this leaves.
Settle(s, e, source) ==
  /\ steps' = [t \in Turns |-> [n \in DOMAIN s[t] |->
                 CloseStep(s, t, n, "cancelled")[t][n]]]
  /\ exec' = [t \in Turns |-> [c \in Calls |->
                IF e[t][c] = "started" THEN "unanswered" ELSE e[t][c]]]
  /\ terminal' = IF \/ \E t \in Turns, c \in Calls : e[t][c] = "started"
                    \/ source = "deadline"
                 THEN "failed" ELSE "cancelled"

\* #fail inside a drive.  When replay refuses the terminal event the drive's
\* catch settles a requested cancellation, or fails again and is refused again.
Fail(s, e) ==
  IF terminal = None /\ cancellation # None /\ OpenWork(s, e)
  THEN Settle(s, e, cancellation)
  ELSE /\ steps' = s /\ exec' = e
       /\ terminal' = IF terminal = None /\ ~OpenWork(s, e) THEN "failed" ELSE terminal

\* The catch of #drive, after anything else threw.
DriveCatch ==
  IF terminal = None /\ cancellation # None
  THEN Settle(steps, exec, cancellation)
  ELSE Fail(steps, exec)

Goto(r, where) == pc' = [pc EXCEPT ![r] = where]
Leave(r) ==
  /\ Goto(r, "idle")
  /\ at' = [at EXCEPT ![r] = Nowhere]
  /\ alone' = alone \ {r}

\* #run refuses a session that this runtime drives already; it knows of no other.
Enter(r) ==
  /\ pc[r] = "idle"
  /\ Goto(r, "setup")
  /\ alone' = IF \A q \in Runtimes : pc[q] = "idle" THEN {r} ELSE {}

-----------------------------------------------------------------------------
\* send of one more turn than max_turns: the session fails, or, with work open,
\* the refusal of that throws.
SendBeyondLimit ==
  /\ terminal = None /\ turns >= MaxTurns
  /\ ~OpenWork(steps, exec)
  /\ terminal' = "failed"
  /\ UNCHANGED <<turns, requests, steps, exec, cancellation, pc, at, dispatched, alone, crashes>>

\* send of a new turn.
Send(r) ==
  /\ Enter(r) /\ terminal = None /\ turns < MaxTurns
  /\ turns' = turns + 1
  /\ UNCHANGED <<requests, steps, exec, cancellation, terminal, at, dispatched, crashes>>

\* resume, by a caller that gives the current sequence, or send of a turn that
\* is there already.
Resume(r) ==
  /\ Enter(r) /\ terminal = None
  /\ UNCHANGED <<durable, at, dispatched, crashes>>

\* #drive arms the deadline, and requests cancellation when it is past already.
BeginDrive(r) ==
  /\ pc[r] = "setup"
  /\ Goto(r, "ready")
  /\ \/ cancellation' = cancellation
     \/ cancellation = None /\ terminal = None /\ cancellation' = "deadline"
  /\ UNCHANGED <<turns, requests, steps, exec, terminal, at, dispatched, alone, crashes>>

\* The loop finds the session ended, or without a turn.
DriveStops(r) ==
  /\ pc[r] \in {"ready", "calls"}
  /\ terminal # None \/ (turns = 0 /\ cancellation = None)
  /\ Leave(r)
  /\ UNCHANGED <<durable, dispatched, crashes>>

DriveSettles(r) ==
  /\ pc[r] \in {"ready", "calls"} /\ terminal = None /\ cancellation # None
  /\ Settle(steps, exec, cancellation)
  /\ Leave(r)
  /\ UNCHANGED <<turns, requests, cancellation, dispatched, crashes>>

-----------------------------------------------------------------------------
\* Mutant: the loop does not look at the cancellation request.
WorkingRegardless(r) ==
  /\ pc[r] \in {"ready", "calls"} /\ terminal = None
  /\ turns > 0

\* What the loop goes on with otherwise: the last turn and its last step, or,
\* inside #executeTools, the turn and the step whose calls it goes through.
Working(r) ==
  /\ pc[r] \in {"ready", "calls"} /\ terminal = None /\ cancellation = None
  /\ turns > 0
Turn(r) == IF pc[r] = "calls" THEN at[r].turn ELSE turns
StepIndex(r) == IF pc[r] = "calls" THEN at[r].step ELSE Len(steps[Turn(r)])
HasStep(r) == StepIndex(r) > 0
Step(r) == steps[Turn(r)][StepIndex(r)]
Outcomes(r) == exec[Turn(r)]
Pending(r) == {n \in DOMAIN Step(r).calls : Outcomes(r)[Step(r).calls[n]] \in {"none", "started"}}
NextCall(r) == Step(r).calls[CHOOSE n \in Pending(r) : \A m \in Pending(r) : n <= m]
Invocations == {tc \in Turns \X Calls : exec[tc[1]][tc[2]] # "none"}
Calling(r) == [turn |-> Turn(r), step |-> StepIndex(r), sent |-> 0, call |-> NextCall(r)]

\* Assembly fails, a budget is spent, a reply asks for no call at all, or the
\* provider of a continuation is missing: found before a call is started, never
\* between its start and its outcome.  A context assembled just before stays.
DriveFails(r) ==
  /\ Working(r)
  /\ HasStep(r) => \/ Step(r).reply = "stop"
                \/ /\ Step(r).reply = "tools"
                   /\ Pending(r) # {} => Outcomes(r)[NextCall(r)] = "none"
  /\ \/ requests' = requests
     \/ ~HasStep(r) /\ requests' = requests \cup {Turn(r)}
  /\ Fail(steps, exec)
  /\ Leave(r)
  /\ UNCHANGED <<turns, cancellation, dispatched, crashes>>

\* The context and the request of the first step are durable before its stream
\* is opened.
StartStep(r) ==
  /\ Working(r) /\ ~HasStep(r)
  /\ requests' = requests \cup {Turn(r)}
  /\ steps' = [steps EXCEPT ![Turn(r)] = <<OpenStep>>]
  /\ Goto(r, "streaming")
  /\ at' = [at EXCEPT ![r] = [Nowhere EXCEPT !.turn = Turn(r), !.step = 1]]
  /\ UNCHANGED <<turns, exec, cancellation, terminal, dispatched, alone, crashes>>

\* A started step with no event yet: its stream is opened, or opened again.
OpenStream(r) ==
  /\ Working(r) /\ HasStep(r) /\ Step(r).reply = "open" /\ Step(r).events = 0
  /\ Goto(r, "streaming")
  /\ at' = [at EXCEPT ![r] = [Nowhere EXCEPT !.turn = Turn(r), !.step = Len(steps[Turn(r)])]]
  /\ UNCHANGED <<durable, dispatched, alone, crashes>>

\* The provider of a step is looked up outside the try that closes the step.
\* Without it the drive throws with the step open, one that it found or one that
\* it started from a context another runtime assembled, and the failure of the
\* session is refused.
ProviderMissing(r) ==
  /\ Working(r) /\ r \in Unequipped
  /\ \/ /\ ~HasStep(r) /\ Turn(r) \in requests
        /\ steps' = [steps EXCEPT ![Turn(r)] = <<OpenStep>>]
     \/ /\ HasStep(r) /\ Step(r).reply = "open" /\ Step(r).events = 0
        /\ steps' = steps
  /\ Leave(r)
  /\ UNCHANGED <<turns, requests, exec, cancellation, terminal, dispatched, crashes>>

\* A step cut short by a crash is failed, and the session with it.
FailInterrupted(r) ==
  /\ Working(r) /\ HasStep(r) /\ Step(r).reply = "open" /\ Step(r).events > 0
  /\ Fail(CloseStep(steps, Turn(r), StepIndex(r), "failed"), exec)
  /\ Leave(r)
  /\ UNCHANGED <<turns, requests, cancellation, dispatched, crashes>>

\* The model stopped, ran out, or failed.
ConcludeTurn(r) ==
  /\ Working(r) /\ HasStep(r) /\ Step(r).reply \in {"stop", "failed"}
  /\ IF Step(r).reply = "stop" /\ ~OpenWork(steps, exec)
     THEN terminal' = "completed" /\ UNCHANGED <<steps, exec>>
     ELSE Fail(steps, exec)
  /\ Leave(r)
  /\ UNCHANGED <<turns, requests, cancellation, dispatched, crashes>>

\* The provider cancelled of its own accord.
ConcludeCancelled(r) ==
  /\ Working(r) /\ HasStep(r) /\ Step(r).reply = "cancelled"
  /\ cancellation' = "user"
  /\ Settle(steps, exec, "user")
  /\ Leave(r)
  /\ UNCHANGED <<turns, requests, dispatched, crashes>>

\* Mutant: the start of the execution is not appended before the dispatch.
DispatchToolFirst(r) ==
  /\ Working(r) /\ HasStep(r) /\ Step(r).reply = "tools" /\ Pending(r) # {}
  /\ Outcomes(r)[NextCall(r)] = "started" \/ Cardinality(Invocations) < MaxToolCalls
  /\ dispatched' = dispatched \cup {<<Turn(r), NextCall(r)>>}
  /\ Goto(r, "tool")
  /\ at' = [at EXCEPT ![r] = Calling(r)]
  /\ UNCHANGED <<durable, alone, crashes>>

\* #executeTools: the next call without an outcome is recorded, unless a dead
\* runtime recorded it, and handed to the tool runtime under its one identity.
DispatchTool(r) ==
  /\ Working(r) /\ HasStep(r) /\ Step(r).reply = "tools" /\ Pending(r) # {}
  /\ Outcomes(r)[NextCall(r)] = "started" \/ Cardinality(Invocations) < MaxToolCalls
  /\ exec' = [exec EXCEPT ![Turn(r)][NextCall(r)] = "started"]
  /\ dispatched' = dispatched \cup {<<Turn(r), NextCall(r)>>}
  /\ Goto(r, "tool")
  /\ at' = [at EXCEPT ![r] = Calling(r)]
  /\ UNCHANGED <<turns, requests, steps, cancellation, terminal, alone, crashes>>

\* Every call has its outcome: the continuation becomes the next step, unless
\* another runtime went on from this step meanwhile.
ContinueTurn(r) ==
  /\ Working(r) /\ HasStep(r) /\ Step(r).reply = "tools" /\ Step(r).calls # <<>>
  /\ Pending(r) = {}
  /\ IF StepIndex(r) = Len(steps[Turn(r)])
     THEN /\ StepIndex(r) < MaxSteps
          /\ steps' = [steps EXCEPT ![Turn(r)] = Append(@, OpenStep)]
          /\ Goto(r, "ready") /\ at' = [at EXCEPT ![r] = Nowhere]
          /\ UNCHANGED <<exec, terminal, alone>>
     ELSE DriveCatch /\ Leave(r)
  /\ UNCHANGED <<turns, requests, cancellation, dispatched, crashes>>

Drive(r) ==
  \/ BeginDrive(r) \/ DriveStops(r) \/ DriveSettles(r) \/ DriveFails(r)
  \/ StartStep(r) \/ OpenStream(r) \/ ProviderMissing(r) \/ FailInterrupted(r)
  \/ ConcludeTurn(r) \/ ConcludeCancelled(r) \/ DispatchTool(r) \/ ContinueTurn(r)

-----------------------------------------------------------------------------
\* Whether replay takes the next event of the stream that r consumes.
Accepts(r) ==
  LET step == steps[at[r].turn][at[r].step]
  IN  terminal = None /\ step.reply = "open" /\ step.events = at[r].sent

StreamDelta(r) ==
  /\ pc[r] = "streaming" /\ Accepts(r)
  /\ at[r].sent < MaxEvents
  /\ steps' = [steps EXCEPT ![at[r].turn][at[r].step].events = @ + 1]
  /\ at' = [at EXCEPT ![r].sent = @ + 1]
  /\ UNCHANGED <<turns, requests, exec, cancellation, terminal, pc, dispatched, alone, crashes>>

StreamConcludes(r) ==
  /\ pc[r] = "streaming" /\ Accepts(r)
  /\ \E reply \in Replies, calls \in CallLists \cup {<<>>} :
       /\ reply # "tools" => calls = <<>>
       /\ steps' = [steps EXCEPT ![at[r].turn][at[r].step] =
                      [reply |-> reply, events |-> @.events + 1, calls |-> calls]]
  /\ Goto(r, "ready")
  /\ at' = [at EXCEPT ![r] = Nowhere]
  /\ UNCHANGED <<turns, requests, exec, cancellation, terminal, dispatched, alone, crashes>>

\* The stream ends without a terminal event: a failure, cancelled or not.
StreamEnds(r) ==
  /\ pc[r] = "streaming"
  /\ Fail(CloseStep(steps, at[r].turn, at[r].step, "failed"), exec)
  /\ Leave(r)
  /\ UNCHANGED <<turns, requests, cancellation, dispatched, crashes>>

\* The provider throws, or replay refuses an event it delivers.
StreamBreaks(r) ==
  /\ pc[r] = "streaming"
  /\ IF terminal = None /\ cancellation # None
     THEN Settle(steps, exec, cancellation)
     ELSE Fail(CloseStep(steps, at[r].turn, at[r].step, "failed"), exec)
  /\ Leave(r)
  /\ UNCHANGED <<turns, requests, cancellation, dispatched, crashes>>

\* Whether replay takes an outcome for the call that r waits for.
Awaited(r) == terminal = None /\ exec[at[r].turn][at[r].call] = "started"

ToolReturns(r) ==
  /\ pc[r] = "tool"
  /\ IF Awaited(r)
     THEN /\ exec' = [exec EXCEPT ![at[r].turn][at[r].call] = "answered"]
          /\ Goto(r, "calls") /\ at' = [at EXCEPT ![r].call = None]
          /\ UNCHANGED <<steps, terminal, alone>>
     ELSE DriveCatch /\ Leave(r)
  /\ UNCHANGED <<turns, requests, cancellation, dispatched, crashes>>

\* Mutant: a call that threw is left for the next resume to try again.
ToolThrowsQuietly(r) ==
  /\ pc[r] = "tool"
  /\ Leave(r)
  /\ UNCHANGED <<durable, dispatched, crashes>>

\* The tool runtime threw: the outcome is in doubt and the session fails.
ToolThrows(r) ==
  /\ pc[r] = "tool"
  /\ IF Awaited(r)
     THEN Fail(steps, [exec EXCEPT ![at[r].turn][at[r].call] = "unanswered"])
     ELSE DriveCatch
  /\ Leave(r)
  /\ UNCHANGED <<turns, requests, cancellation, dispatched, crashes>>

Answer(r) ==
  \/ StreamDelta(r) \/ StreamConcludes(r) \/ StreamEnds(r) \/ StreamBreaks(r)
  \/ ToolReturns(r) \/ ToolThrows(r)

-----------------------------------------------------------------------------
\* Mutant: the request is recorded but a session nobody drives is left as is.
CancelWithoutSettling(r, source) ==
  /\ terminal = None /\ cancellation = None
  /\ cancellation' = source
  /\ UNCHANGED <<turns, requests, steps, exec, terminal, pc, at, dispatched, alone, crashes>>

\* cancel and dispose, which differ in the wording only: the request is durable
\* first; a runtime that drives the session tells its provider or tool and leaves
\* the rest to the drive.
Cancel(r, source) ==
  /\ terminal = None
  /\ pc[r] = "idle" \/ cancellation = None
  /\ cancellation' = IF cancellation = None THEN source ELSE cancellation
  /\ IF pc[r] = "idle"
     THEN Settle(steps, exec, cancellation')
     ELSE UNCHANGED <<steps, exec, terminal>>
  /\ UNCHANGED <<turns, requests, pc, at, dispatched, alone, crashes>>

\* The timer of a drive under way: max_duration_ms since the session's creation.
DeadlineFires(r) ==
  /\ pc[r] \in {"ready", "streaming", "tool", "calls"}
  /\ terminal = None /\ cancellation = None
  /\ cancellation' = "deadline"
  /\ UNCHANGED <<turns, requests, steps, exec, terminal, pc, at, dispatched, alone, crashes>>

\* The runtime dies with what it held in memory; the stream stays.
Crash(r) ==
  /\ pc[r] # "idle" /\ crashes < MaxCrashes
  /\ crashes' = crashes + 1
  /\ Leave(r)
  /\ UNCHANGED <<durable, dispatched>>

\* As far as a settlement comes that is cut short: the turns it has closed, in
\* their order, and after all of them the executions it has marked.
SettlePart(s, e, source) ==
  \E n \in 0..MaxTurns, marked \in SUBSET (Turns \X Calls) :
    /\ n > 0 => source # None
    /\ marked # {} => source # None /\ n = MaxTurns
    /\ steps' = [t \in Turns |-> [m \in DOMAIN s[t] |->
                   IF t <= n THEN CloseStep(s, t, m, "cancelled")[t][m] ELSE s[t][m]]]
    /\ exec' = [t \in Turns |-> [c \in Calls |->
                  IF <<t, c>> \in marked /\ e[t][c] = "started"
                  THEN "unanswered" ELSE e[t][c]]]

\* The runtime dies between two appends of one turn, before the terminal event.
Dies(r) ==
  /\ terminal = None /\ crashes < MaxCrashes
  /\ crashes' = crashes + 1
  /\ Leave(r)
  /\ UNCHANGED <<turns, terminal, dispatched>>

DiesSettling(r) ==
  /\ \/ pc[r] \in {"ready", "calls"}
     \/ pc[r] = "tool" /\ ~Awaited(r)
  /\ Dies(r)
  /\ SettlePart(steps, exec, cancellation)
  /\ UNCHANGED <<requests, cancellation>>

\* The step is closed, as failed or as cancelled, and the session is not.
DiesClosing(r) ==
  /\ Dies(r)
  /\ \/ /\ pc[r] = "streaming"
        /\ \E reply \in {"failed", "cancelled"} :
             /\ reply = "cancelled" => cancellation # None
             /\ SettlePart(CloseStep(steps, at[r].turn, at[r].step, reply), exec, cancellation)
     \/ /\ Working(r) /\ HasStep(r) /\ Step(r).reply = "open" /\ Step(r).events > 0
        /\ SettlePart(CloseStep(steps, Turn(r), StepIndex(r), "failed"), exec, None)
  /\ UNCHANGED <<requests, cancellation>>

\* The outcome of a call that threw is recorded as in doubt, and the session has
\* not failed: the next drive takes the call for one that has its outcome.
DiesDoubting(r) ==
  /\ pc[r] = "tool" /\ Awaited(r)
  /\ Dies(r)
  /\ SettlePart(steps, [exec EXCEPT ![at[r].turn][at[r].call] = "unanswered"], cancellation)
  /\ UNCHANGED <<requests, cancellation>>

\* The context is assembled and the step is not started.
DiesAssembled(r) ==
  /\ Working(r) /\ ~HasStep(r)
  /\ Dies(r)
  /\ requests' = requests \cup {Turn(r)}
  /\ UNCHANGED <<steps, exec, cancellation>>

\* The start of a call is recorded and the tool runtime does not have it.
DiesDispatching(r) ==
  /\ Working(r) /\ HasStep(r) /\ Step(r).reply = "tools" /\ Pending(r) # {}
  /\ Cardinality(Invocations) < MaxToolCalls
  /\ Dies(r)
  /\ exec' = [exec EXCEPT ![Turn(r)][NextCall(r)] = "started"]
  /\ UNCHANGED <<requests, steps, cancellation>>

\* The cancellation that a provider or a caller asks for is recorded, and its
\* settlement is cut short.
DiesCancelling(r) ==
  /\ \/ Working(r) /\ HasStep(r) /\ Step(r).reply = "cancelled"
     \/ pc[r] = "idle"
  /\ Dies(r)
  /\ cancellation' = IF cancellation = None THEN "user" ELSE cancellation
  /\ SettlePart(steps, exec, cancellation')
  /\ UNCHANGED requests

Death(r) ==
  \/ Crash(r) \/ DiesSettling(r) \/ DiesClosing(r) \/ DiesDoubting(r)
  \/ DiesAssembled(r) \/ DiesDispatching(r) \/ DiesCancelling(r)

-----------------------------------------------------------------------------
Init ==
  /\ turns = 0 /\ requests = {}
  /\ steps = [t \in Turns |-> <<>>]
  /\ exec = [t \in Turns |-> [c \in Calls |-> "none"]]
  /\ cancellation = None /\ terminal = None
  /\ pc = [r \in Runtimes |-> "idle"]
  /\ at = [r \in Runtimes |-> Nowhere]
  /\ dispatched = {} /\ alone = {} /\ crashes = 0

Caller ==
  \/ SendBeyondLimit
  \/ \E r \in Runtimes : Send(r) \/ Resume(r) \/ Cancel(r, "user")

Next ==
  \/ Caller
  \/ \E r \in Runtimes : Drive(r) \/ Answer(r) \/ DeadlineFires(r) \/ Death(r)

Spec == Init /\ [][Next]_vars

\* A runtime goes on whenever it can; a provider and a tool answer in the end.
FairSpec ==
  /\ Spec
  /\ \A r \in Runtimes : WF_vars(Drive(r)) /\ WF_vars(Answer(r))

-----------------------------------------------------------------------------
\* Type invariant of the stream and of the runtimes' memory; a part of
\* IntentBeforeDispatch.
TypeOK ==
  /\ turns \in 0..MaxTurns /\ requests \subseteq Turns
  /\ \A t \in Turns : \A n \in DOMAIN steps[t] :
       steps[t][n] \in [reply : Replies \cup {"open"}, events : 0..(MaxEvents + 1),
                        calls : CallLists \cup {<<>>}]
  /\ exec \in [Turns -> [Calls -> {"none", "started", "answered", "unanswered"}]]
  /\ cancellation \in {None, "user", "deadline"}
  /\ terminal \in {None, "completed", "failed", "cancelled"}
  /\ pc \in [Runtimes -> {"idle", "setup", "ready", "streaming", "tool", "calls"}]

\* A tool is never handed a call before the stream says that it was started
\* (runtime.js:668-699), whatever dies or is resumed in between.
IntentBeforeDispatch ==
  /\ TypeOK
  /\ \A tc \in dispatched : exec[tc[1]][tc[2]] # "none"

\* A turn that was left with work under way when a later one was sent.
Abandoned ==
  \E n \in 1..(turns - 1) :
    \/ \E m \in DOMAIN steps[n] : steps[n][m].reply = "open"
    \/ \E c \in Calls : exec[n][c] = "started"

\* A session never completes, and is never cleanly cancelled, over a tool whose
\* outcome was not returned: the step that finds it so ends it as failed
\* (runtime.js:414).  The one thing that lets it through is an outcome recorded as
\* in doubt by a runtime that died before it recorded the failure (between
\* runtime.js:383 and 415, or 720 and 727).  That is so while the session has one
\* turn: with work open in another one, the failure of the tool cannot end the
\* session and a later cancellation may.
AnsweredStep ==
  terminal = None /\ terminal' \in {"completed", "cancelled"} /\ turns = 1 =>
    \A tc \in dispatched :
      \/ exec'[tc[1]][tc[2]] = "answered"
      \/ exec[tc[1]][tc[2]] = "unanswered" /\ crashes > 0

UnansweredToolFailsSession == [][AnsweredStep]_vars

\* Once a cancellation is durable nothing is started any more, it keeps its
\* source, and the session does not complete; a deadline ends it as failed and
\* not as cancelled (replay.js:741-760, runtime.js:659).
FinalStep ==
  cancellation # None =>
    /\ cancellation' = cancellation
    /\ dispatched' = dispatched
    /\ \A t \in Turns : Len(steps'[t]) = Len(steps[t])
    /\ terminal' = "completed" => terminal = "completed"
    /\ terminal' = "cancelled" /\ terminal = None => cancellation # "deadline"

CancellationIsFinal == [][FinalStep]_vars

\* A drive that had the session to itself and was not cut by a crash returns.
ReturnsAlone(r) ==
  /\ r \in alone /\ pc[r] \notin {"idle", "setup"} /\ pc'[r] = "idle"
  /\ crashes' = crashes /\ turns > 0

\* The last turn has a step that waits for its stream to be opened.
Unopened ==
  /\ turns > 0 /\ steps[turns] # <<>>
  /\ Last(steps[turns]).reply = "open" /\ Last(steps[turns]).events = 0

\* What a restart finds is replayed, resumed, continued or failed closed: a
\* drive that has the session to itself never leaves it without its terminal
\* outcome (README of packages/agent-runtime, line 10), but in two cases.  A turn
\* was left with work under way before a later one was sent: the drive of the
\* later turn settles its own work only, and every terminal event is refused
\* (replay.js:134).  Or the runtime lacks the provider of a step that was never
\* opened, and leaves it so for a runtime that has it (runtime.js:573).
EndedStep ==
  \A r \in Runtimes : ReturnsAlone(r) /\ ~Abandoned =>
    terminal' # None \/ (r \in Unequipped /\ Unopened')

DriveEndsUnlessAbandoned == [][EndedStep]_vars

\* A durable cancellation ends the session if no runtime dies, whoever recorded
\* it and whatever the provider, the tool and the other runtimes do.
CancellationSettles ==
  cancellation # None ~> (terminal # None \/ crashes > 0)
=============================================================================
