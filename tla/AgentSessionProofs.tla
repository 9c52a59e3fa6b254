-------------------------- MODULE AgentSessionProofs --------------------------
(***************************************************************************)
(* Proofs about AgentSession for any number of runtimes, calls, turns and  *)
(* crashes.                                                                *)
(***************************************************************************)
EXTENDS AgentSession, SequenceTheorems, WellFoundedInduction, TLAPS

-----------------------------------------------------------------------------
(* The types of the stream and of what a runtime remembers.                *)

StepRecords == [reply : Replies \cup {"open"}, events : 0..(MaxEvents + 1),
                calls : CallLists \cup {<<>>}]

Streams == [Turns -> Seq(StepRecords)]

CallStates == {"none", "started", "answered", "unanswered"}

Executions == [Turns -> [Calls -> CallStates]]

StreamType ==
  /\ turns \in 0..MaxTurns
  /\ steps \in Streams
  /\ exec \in Executions
  /\ cancellation \in {None, "user", "deadline"}
  /\ terminal \in {None, "completed", "failed", "cancelled"}

Places == [turn : Turns \cup {None}, step : Nat, sent : 0..MaxEvents, call : Calls \cup {None}]

\* A runtime that waits for a stream or a tool, or goes through the calls of a
\* step, is at a step of the stream.
MemoryType ==
  /\ pc \in [Runtimes -> {"idle", "setup", "ready", "streaming", "tool", "calls"}]
  /\ at \in [Runtimes -> Places]
  /\ \A r \in Runtimes : pc[r] \in {"streaming", "tool", "calls"} =>
       at[r].turn \in Turns /\ at[r].step \in 1..Len(steps[at[r].turn])
  /\ \A r \in Runtimes : pc[r] = "tool" => at[r].call \in Calls

DispatchInv ==
  /\ dispatched \subseteq Turns \X Calls
  /\ \A tc \in dispatched : exec[tc[1]][tc[2]] # "none"

Inv == StreamType /\ MemoryType /\ DispatchInv

-----------------------------------------------------------------------------
(* What the helpers do to the stream.                                      *)

LEMMA Bounds == /\ {MaxTurns, MaxToolCalls, MaxSteps, MaxEvents} \subseteq Nat
                /\ OpenStep \in StepRecords /\ Nowhere \in Places
BY SessionAssumption DEF OpenStep, StepRecords, Nowhere, Places

LEMMA ReplaceInSeq ==
  ASSUME NEW S, NEW s \in Seq(S), NEW n \in 1..Len(s), NEW x \in S
  PROVE  [s EXCEPT ![n] = x] \in Seq(S) /\ Len([s EXCEPT ![n] = x]) = Len(s)
BY ExceptSeq

\* The streams have the types and the lengths of s and e, and an execution that
\* was started stays started.
Keeps(s, e) ==
  /\ steps' \in Streams /\ \A t \in Turns : Len(steps'[t]) = Len(s[t])
  /\ exec' \in Executions
  /\ \A t \in Turns, c \in Calls : e[t][c] # "none" => exec'[t][c] # "none"

LEMMA ReplaceStep ==
  ASSUME NEW s \in Streams, NEW t \in Turns, NEW n \in 1..Len(s[t]), NEW x \in StepRecords
  PROVE  /\ [s EXCEPT ![t][n] = x] \in Streams
         /\ \A u \in Turns : Len([s EXCEPT ![t][n] = x][u]) = Len(s[u])
<1> DEFINE q == [s[t] EXCEPT ![n] = x]
<1>1. s[t] \in Seq(StepRecords)
  BY DEF Streams
<1>2. q \in Seq(StepRecords) /\ Len(q) = Len(s[t])
  BY <1>1, ReplaceInSeq
<1>3. [s EXCEPT ![t][n] = x] = [s EXCEPT ![t] = q]
  OBVIOUS
<1> HIDE DEF q
<1> QED
  BY <1>2, <1>3 DEF Streams

LEMMA CloseStepKeeps ==
  ASSUME NEW s \in Streams, NEW t \in Turns, NEW n \in 1..Len(s[t]), NEW reply \in Replies
  PROVE  /\ CloseStep(s, t, n, reply) \in Streams
         /\ \A u \in Turns : Len(CloseStep(s, t, n, reply)[u]) = Len(s[u])
<1> DEFINE x == [s[t][n] EXCEPT !.reply = reply]
<1>1. s[t] \in Seq(StepRecords)
  BY DEF Streams
<1>2. s[t][n] \in StepRecords
  BY <1>1
<1>3. x \in StepRecords
  BY <1>2 DEF StepRecords
<1>4. [s EXCEPT ![t][n].reply = reply] = [s EXCEPT ![t][n] = x]
  OBVIOUS
<1> HIDE DEF x
<1> QED
  BY <1>3, <1>4, ReplaceStep DEF CloseStep

LEMMA SettleKeeps ==
  ASSUME NEW s \in Streams, NEW e \in Executions, NEW source, Settle(s, e, source)
  PROVE  /\ Keeps(s, e)
         /\ terminal' \in {"failed", "cancelled"}
         /\ source = "deadline" => terminal' = "failed"
<1> DEFINE close(t, n) == CloseStep(s, t, n, "cancelled")[t][n]
<1>1. ASSUME NEW t \in Turns
      PROVE  steps'[t] \in Seq(StepRecords) /\ Len(steps'[t]) = Len(s[t])
  <2>1. s[t] \in Seq(StepRecords)
    BY DEF Streams
  <2>2. \A n \in 1..Len(s[t]) : close(t, n) \in StepRecords
    <3> SUFFICES ASSUME NEW n \in 1..Len(s[t]) PROVE close(t, n) \in StepRecords
      OBVIOUS
    <3>1. CloseStep(s, t, n, "cancelled") \in Streams
          /\ Len(CloseStep(s, t, n, "cancelled")[t]) = Len(s[t])
      BY CloseStepKeeps DEF Replies
    <3>2. CloseStep(s, t, n, "cancelled")[t] \in Seq(StepRecords)
      BY <3>1 DEF Streams
    <3> QED
      BY <3>1, <3>2
  <2>3. DOMAIN s[t] = 1..Len(s[t]) /\ Len(s[t]) \in Nat
    BY <2>1
  <2>4. steps'[t] = [n \in 1..Len(s[t]) |-> close(t, n)]
    BY <2>3 DEF Settle
  <2> HIDE DEF close
  <2>5. steps'[t] \in [1..Len(s[t]) -> StepRecords]
    BY <2>2, <2>4
  <2> QED
    BY <2>3, <2>5
<1>2. steps' \in Streams
  <2>1. steps' = [t \in Turns |-> [n \in DOMAIN s[t] |-> close(t, n)]]
    BY DEF Settle
  <2> HIDE DEF close
  <2> QED
    BY <1>1, <2>1 DEF Streams
<1>3. /\ exec' \in Executions
      /\ \A t \in Turns, c \in Calls : e[t][c] # "none" => exec'[t][c] # "none"
  BY DEF Settle, Executions, CallStates
<1>4. /\ terminal' \in {"failed", "cancelled"}
      /\ source = "deadline" => terminal' = "failed"
  BY DEF Settle
<1> QED
  BY <1>1, <1>2, <1>3, <1>4 DEF Keeps

LEMMA ClosedRecord ==
  ASSUME NEW s \in Streams, NEW t \in Turns, NEW n \in 1..Len(s[t]), NEW reply \in Replies
  PROVE  LET x == CloseStep(s, t, n, reply)[t][n]
         IN  /\ x \in StepRecords /\ x.calls = s[t][n].calls
             /\ x.reply = s[t][n].reply \/ s[t][n].reply = "open"
<1>1. s[t] \in Seq(StepRecords)
  BY DEF Streams
<1>2. s[t][n] \in StepRecords
  BY <1>1
<1>3. CASE s[t][n].reply = "open"
  <2> DEFINE y == [s[t][n] EXCEPT !.reply = reply]
             q == [s[t] EXCEPT ![n] = y]
  <2>1. y \in StepRecords /\ y.calls = s[t][n].calls
    BY <1>2 DEF StepRecords
  <2>2. CloseStep(s, t, n, reply) = [s EXCEPT ![t] = q]
    BY <1>3 DEF CloseStep
  <2> HIDE DEF y
  <2>3. q[n] = y
    BY <1>1
  <2> HIDE DEF q
  <2>4. CloseStep(s, t, n, reply)[t] = q
    BY <2>2 DEF Streams
  <2> QED
    BY <1>3, <2>1, <2>3, <2>4
<1>4. CASE s[t][n].reply # "open"
  BY <1>2, <1>4 DEF CloseStep
<1> QED
  BY <1>3, <1>4

\* Open steps may have been closed and started calls marked unanswered.
Eases(s, e, s2, e2) ==
  \A t \in Turns :
    /\ Len(s2[t]) = Len(s[t])
    /\ \A n \in 1..Len(s[t]) :
         /\ s2[t][n].calls = s[t][n].calls
         /\ s2[t][n].reply = s[t][n].reply \/ s[t][n].reply = "open"
    /\ \A c \in Calls :
         \/ e2[t][c] = e[t][c]
         \/ e[t][c] = "started" /\ e2[t][c] = "unanswered"

LEMMA SettlePartKeeps ==
  ASSUME NEW s \in Streams, NEW e \in Executions, NEW source, SettlePart(s, e, source)
  PROVE  Keeps(s, e) /\ Eases(s, e, steps', exec')
<1>1. PICK k \in 0..MaxTurns, marked \in SUBSET (Turns \X Calls) :
        /\ steps' = [t \in Turns |-> [m \in DOMAIN s[t] |->
                       IF t <= k THEN CloseStep(s, t, m, "cancelled")[t][m] ELSE s[t][m]]]
        /\ exec' = [t \in Turns |-> [c \in Calls |->
                      IF <<t, c>> \in marked /\ e[t][c] = "started"
                      THEN "unanswered" ELSE e[t][c]]]
  BY DEF SettlePart
<1> DEFINE close(t, n) == IF t <= k THEN CloseStep(s, t, n, "cancelled")[t][n] ELSE s[t][n]
<1>2. ASSUME NEW t \in Turns
      PROVE  /\ steps'[t] \in Seq(StepRecords) /\ Len(steps'[t]) = Len(s[t])
             /\ \A n \in 1..Len(s[t]) :
                  /\ steps'[t][n].calls = s[t][n].calls
                  /\ steps'[t][n].reply = s[t][n].reply \/ s[t][n].reply = "open"
  <2>1. s[t] \in Seq(StepRecords)
    BY DEF Streams
  <2>2. \A n \in 1..Len(s[t]) :
          /\ close(t, n) \in StepRecords
          /\ close(t, n).calls = s[t][n].calls
          /\ close(t, n).reply = s[t][n].reply \/ s[t][n].reply = "open"
    <3> SUFFICES ASSUME NEW n \in 1..Len(s[t])
                 PROVE  /\ close(t, n) \in StepRecords
                        /\ close(t, n).calls = s[t][n].calls
                        /\ close(t, n).reply = s[t][n].reply \/ s[t][n].reply = "open"
      OBVIOUS
    <3>1. s[t][n] \in StepRecords
      BY <2>1
    <3> QED
      BY <3>1, ClosedRecord DEF Replies
  <2>3. DOMAIN s[t] = 1..Len(s[t]) /\ Len(s[t]) \in Nat
    BY <2>1
  <2>4. steps'[t] = [n \in 1..Len(s[t]) |-> close(t, n)]
    BY <1>1, <2>3
  <2> HIDE DEF close
  <2>5. steps'[t] \in [1..Len(s[t]) -> StepRecords]
    BY <2>2, <2>4
  <2> QED
    BY <2>2, <2>3, <2>4, <2>5
<1>3. steps' \in Streams
  <2>1. steps' = [t \in Turns |-> [n \in DOMAIN s[t] |-> close(t, n)]]
    BY <1>1
  <2> HIDE DEF close
  <2> QED
    BY <1>2, <2>1 DEF Streams
<1>4. /\ exec' \in Executions
      /\ \A t \in Turns, c \in Calls :
           \/ exec'[t][c] = e[t][c]
           \/ e[t][c] = "started" /\ exec'[t][c] = "unanswered"
  BY <1>1 DEF Executions, CallStates
<1>5. \A t \in Turns, c \in Calls : e[t][c] # "none" => exec'[t][c] # "none"
  BY <1>4
<1>6. Keeps(s, e)
  BY <1>2, <1>3, <1>4, <1>5 DEF Keeps
<1>7. Eases(s, e, steps', exec')
  <2>1. ASSUME NEW t \in Turns
        PROVE  \A c \in Calls :
                 \/ exec'[t][c] = e[t][c]
                 \/ e[t][c] = "started" /\ exec'[t][c] = "unanswered"
    BY <1>4
  <2> QED
    BY <1>2, <2>1, Zenon DEF Eases
<1> QED
  BY <1>6, <1>7

\* How the session can end in an action that fails or settles.
EndsWell ==
  /\ terminal' \in {terminal, "failed", "cancelled"}
  /\ terminal' = "cancelled" /\ terminal = None => cancellation \notin {None, "deadline"}

LEMMA FailKeeps ==
  ASSUME NEW s \in Streams, NEW e \in Executions, Fail(s, e)
  PROVE  Keeps(s, e) /\ EndsWell
<1>1. CASE terminal = None /\ cancellation # None /\ OpenWork(s, e)
  <2>1. Settle(s, e, cancellation)
    BY <1>1 DEF Fail
  <2> QED
    BY <1>1, <2>1, SettleKeeps DEF EndsWell
<1>2. CASE ~(terminal = None /\ cancellation # None /\ OpenWork(s, e))
  <2>1. /\ steps' = s /\ exec' = e
        /\ terminal' = IF terminal = None /\ ~OpenWork(s, e) THEN "failed" ELSE terminal
    BY <1>2 DEF Fail
  <2>2. Keeps(s, e)
    BY <2>1 DEF Keeps
  <2>3. terminal' = "failed" \/ terminal' = terminal
    BY <2>1
  <2>4. EndsWell
    BY <2>3, NullAssumption DEF EndsWell
  <2> QED
    BY <2>2, <2>4
<1> QED
  BY <1>1, <1>2
LEMMA DriveCatchKeeps ==
  ASSUME steps \in Streams, exec \in Executions, DriveCatch
  PROVE  Keeps(steps, exec) /\ EndsWell
<1>1. CASE terminal = None /\ cancellation # None
  <2>1. Settle(steps, exec, cancellation)
    BY <1>1 DEF DriveCatch
  <2> QED
    BY <1>1, <2>1, SettleKeeps DEF EndsWell
<1>2. CASE ~(terminal = None /\ cancellation # None)
  <2>1. Fail(steps, exec)
    BY <1>2 DEF DriveCatch
  <2> QED
    BY <2>1, FailKeeps
<1> QED
  BY <1>1, <1>2

-----------------------------------------------------------------------------
(* What a step does to the stream, and to the memory of one runtime.       *)

\* The stream grows, and a call is dispatched with its start on the stream.
Advances ==
  /\ StreamType'
  /\ \A t \in Turns : Len(steps'[t]) >= Len(steps[t])
  /\ \A t \in Turns, c \in Calls : exec[t][c] # "none" => exec'[t][c] # "none"
  /\ \/ dispatched' = dispatched
     \/ \E tc \in Turns \X Calls :
          dispatched' = dispatched \cup {tc} /\ exec'[tc[1]][tc[2]] # "none"

\* The stream keeps its steps and the session ends as a cancelled one may.
Concludes ==
  /\ Keeps(steps, exec)
  /\ terminal' \in {None, "completed", "failed", "cancelled"}
  /\ UNCHANGED <<turns, dispatched>>
  /\ cancellation' \in {None, "user", "deadline"}
  /\ cancellation # None => cancellation' = cancellation /\ EndsWell

\* Only r goes on, to where its memory has what it needs there.
Moves(r) ==
  /\ pc' = [pc EXCEPT ![r] = pc'[r]] /\ at' = [at EXCEPT ![r] = at'[r]]
  /\ pc'[r] \in {"idle", "setup", "ready", "streaming", "tool", "calls"}
  /\ at'[r] \in Places
  /\ pc'[r] \in {"streaming", "tool", "calls"} =>
       at'[r].turn \in Turns /\ at'[r].step \in 1..Len(steps'[at'[r].turn])
  /\ pc'[r] = "tool" => at'[r].call \in Calls

LEMMA ConcludesAdvances ==
  ASSUME Inv, Concludes
  PROVE  Advances /\ FinalStep
<1>1. steps \in Streams /\ \A t \in Turns : Len(steps[t]) \in Nat
  BY DEF Inv, StreamType, Streams
<1>2. Advances
  BY <1>1 DEF Concludes, Keeps, Advances, Inv, StreamType
<1>3. FinalStep
  BY NullAssumption DEF Concludes, Keeps, FinalStep, EndsWell, Inv, StreamType
<1> QED
  BY <1>2, <1>3

LEMMA LeaveMoves ==
  ASSUME Inv, NEW r \in Runtimes, Leave(r)
  PROVE  Moves(r)
BY Bounds DEF Leave, Goto, Moves, Inv, MemoryType

LEMMA AdvancesInv ==
  ASSUME Inv, Advances,
         \/ UNCHANGED <<pc, at>>
         \/ \E r \in Runtimes : Moves(r)
  PROVE  Inv'
<1>1. steps \in Streams /\ steps' \in Streams
  BY DEF Inv, Advances, StreamType
<1>2. \A t \in Turns : Len(steps[t]) \in Nat /\ Len(steps'[t]) \in Nat
                       /\ Len(steps'[t]) >= Len(steps[t])
  BY <1>1 DEF Streams, Advances
<1>3. \A t \in Turns : \A n \in 1..Len(steps[t]) : n \in 1..Len(steps'[t])
  BY <1>2
<1>4. DispatchInv'
  <2>1. dispatched' \subseteq Turns \X Calls
    BY DEF Inv, DispatchInv, Advances
  <2>2. ASSUME NEW tc \in dispatched'
        PROVE  exec'[tc[1]][tc[2]] # "none"
    <3>1. CASE tc \in dispatched
      BY <2>1, <3>1 DEF Inv, DispatchInv, Advances
    <3>2. CASE tc \notin dispatched
      BY <2>2, <3>2 DEF Advances
    <3> QED
      BY <3>1, <3>2
  <2> QED
    BY <2>1, <2>2 DEF DispatchInv
<1>5. CASE UNCHANGED <<pc, at>>
  <2>1. MemoryType'
    BY <1>3, <1>5 DEF Inv, MemoryType
  <2> QED
    BY <1>4, <2>1 DEF Inv, Advances
<1>6. ASSUME NEW r \in Runtimes, Moves(r)
      PROVE  Inv'
  <2>1. /\ pc' \in [Runtimes -> {"idle", "setup", "ready", "streaming", "tool", "calls"}]
        /\ at' \in [Runtimes -> Places]
    BY <1>6 DEF Moves, Inv, MemoryType
  <2>2. ASSUME NEW q \in Runtimes, pc'[q] \in {"streaming", "tool", "calls"}
        PROVE  at'[q].turn \in Turns /\ at'[q].step \in 1..Len(steps'[at'[q].turn])
    <3>1. CASE q = r
      BY <1>6, <2>2, <3>1 DEF Moves
    <3>2. CASE q # r
      <4>1. pc'[q] = pc[q] /\ at'[q] = at[q]
        BY <1>6, <3>2 DEF Moves, Inv, MemoryType
      <4> QED
        BY <1>3, <2>2, <4>1 DEF Inv, MemoryType
    <3> QED
      BY <3>1, <3>2
  <2>3. ASSUME NEW q \in Runtimes, pc'[q] = "tool"
        PROVE  at'[q].call \in Calls
    BY <1>6, <2>3 DEF Moves, Inv, MemoryType
  <2> QED
    BY <1>4, <2>1, <2>2, <2>3 DEF Inv, MemoryType, Advances
<1> QED
  BY <1>5, <1>6

-----------------------------------------------------------------------------
(* What a drive works on.                                                  *)

LEMMA LeastNatural ==
  ASSUME NEW T, T \subseteq Nat, T # {}
  PROVE  \E m \in T : \A n \in T : m <= n
<1>1. IsWellFoundedOn(OpToRel(<, Nat), Nat)
  BY NatLessThanWellFounded
<1>2. PICK x \in T : \A y \in T : ~(<<y, x>> \in OpToRel(<, Nat))
  BY <1>1, WFMin
<1>3. \A y \in T : ~(y < x)
  BY <1>2 DEF OpToRel
<1> QED
  BY <1>3

LEMMA WorkFacts ==
  ASSUME Inv, NEW r \in Runtimes, Working(r)
  PROVE  /\ Turn(r) \in Turns
         /\ StepIndex(r) \in 0..Len(steps[Turn(r)])
         /\ steps[Turn(r)] \in Seq(StepRecords)
         /\ HasStep(r) => StepIndex(r) \in 1..Len(steps[Turn(r)]) /\ Step(r) \in StepRecords
<1>1. Turn(r) \in Turns
  BY SessionAssumption DEF Working, Turn, Inv, StreamType, MemoryType, Turns
<1>2. steps[Turn(r)] \in Seq(StepRecords) /\ Len(steps[Turn(r)]) \in Nat
  BY <1>1 DEF Inv, StreamType, Streams
<1>3. StepIndex(r) \in 0..Len(steps[Turn(r)])
  <2>1. CASE pc[r] = "calls"
    <3>1. at[r].step \in 1..Len(steps[at[r].turn])
      BY <2>1 DEF Inv, MemoryType
    <3> QED
      BY <1>2, <2>1, <3>1 DEF StepIndex, Turn
  <2>2. CASE pc[r] # "calls"
    BY <1>2, <2>2 DEF StepIndex
  <2> QED
    BY <2>1, <2>2
<1>4. HasStep(r) => StepIndex(r) \in 1..Len(steps[Turn(r)])
  BY <1>2, <1>3 DEF HasStep
<1>5. HasStep(r) => Step(r) \in StepRecords
  BY <1>2, <1>4 DEF Step
<1> QED
  BY <1>1, <1>2, <1>3, <1>4, <1>5

\* The call that comes next is the first of the step without an outcome.
LEMMA NextCallFacts ==
  ASSUME Inv, NEW r \in Runtimes, Working(r), HasStep(r), Pending(r) # {}
  PROVE  \E n \in Pending(r) :
           /\ \A m \in Pending(r) : n <= m
           /\ n \in DOMAIN Step(r).calls
           /\ NextCall(r) = Step(r).calls[n]
           /\ NextCall(r) \in Calls
           /\ Outcomes(r)[NextCall(r)] \in {"none", "started"}
<1>1. Step(r).calls \in Seq(Calls)
  <2>1. Step(r) \in StepRecords
    BY WorkFacts
  <2>2. Step(r).calls \in CallLists \cup {<<>>}
    BY <2>1 DEF StepRecords
  <2>3. CallLists \subseteq Seq(Calls) /\ <<>> \in Seq(Calls)
    BY SessionAssumption
  <2> QED
    BY <2>2, <2>3
<1>2. Pending(r) \subseteq DOMAIN Step(r).calls /\ Pending(r) \subseteq Nat
  BY <1>1 DEF Pending
<1>3. \E n \in Pending(r) : \A m \in Pending(r) : n <= m
  BY <1>2, LeastNatural
<1> DEFINE n == CHOOSE k \in Pending(r) : \A m \in Pending(r) : k <= m
<1>4. n \in Pending(r) /\ \A m \in Pending(r) : n <= m
  BY <1>3
<1>5. NextCall(r) = Step(r).calls[n]
  BY DEF NextCall
<1> HIDE DEF n
<1> QED
  BY <1>1, <1>2, <1>4, <1>5 DEF Pending

-----------------------------------------------------------------------------
(* The steps after which a drive is over.                                  *)

LEMMA KeepsConcludes ==
  ASSUME Inv, Keeps(steps, exec), EndsWell, UNCHANGED <<turns, cancellation, dispatched>>
  PROVE  Concludes
BY DEF Concludes, EndsWell, Inv, StreamType

\* Failing, after the open step was closed or the call marked unanswered.
LEMMA FailConcludes ==
  ASSUME Inv, UNCHANGED <<turns, cancellation, dispatched>>,
         NEW s \in Streams, NEW e \in Executions, Fail(s, e),
         \A t \in Turns : Len(s[t]) = Len(steps[t]),
         \A t \in Turns, c \in Calls : exec[t][c] # "none" => e[t][c] # "none"
  PROVE  Concludes
<1>1. Keeps(s, e) /\ EndsWell
  BY FailKeeps
<1>2. Keeps(steps, exec)
  BY <1>1 DEF Keeps
<1> QED
  BY <1>1, <1>2, KeepsConcludes

LEMMA SettleConcludes ==
  ASSUME Inv, UNCHANGED <<turns, cancellation, dispatched>>,
         terminal = None, cancellation # None, Settle(steps, exec, cancellation)
  PROVE  Concludes
<1>1. Keeps(steps, exec) /\ EndsWell
  BY SettleKeeps DEF EndsWell, Inv, StreamType
<1> QED
  BY <1>1, KeepsConcludes

LEMMA CatchConcludes ==
  ASSUME Inv, UNCHANGED <<turns, cancellation, dispatched>>, DriveCatch
  PROVE  Concludes
BY DriveCatchKeeps, KeepsConcludes DEF Inv, StreamType

LEMMA LeavingSteps ==
  ASSUME Inv, NEW r \in Runtimes,
         \/ DriveStops(r) \/ DriveSettles(r) \/ DriveFails(r) \/ FailInterrupted(r)
         \/ ConcludeTurn(r) \/ ConcludeCancelled(r) \/ StreamEnds(r) \/ StreamBreaks(r)
         \/ ToolThrows(r) \/ Crash(r)
  PROVE  Concludes /\ Leave(r)
<1>0. steps \in Streams /\ exec \in Executions
  BY DEF Inv, StreamType
<1>1. CASE DriveStops(r) \/ Crash(r)
  <2>1. Leave(r) /\ UNCHANGED <<durable, dispatched>>
    BY <1>1 DEF DriveStops, Crash
  <2>2. UNCHANGED <<turns, steps, exec, cancellation, terminal, dispatched>>
    BY <2>1 DEF durable
  <2>3. Keeps(steps, exec) /\ EndsWell
    BY <1>0, <2>2, NullAssumption DEF Keeps, EndsWell
  <2> QED
    BY <2>1, <2>2, <2>3, KeepsConcludes
<1>2. CASE DriveSettles(r)
  BY <1>2, SettleConcludes DEF DriveSettles
<1>3. CASE DriveFails(r)
  BY <1>0, <1>3, FailConcludes DEF DriveFails
<1>4. CASE FailInterrupted(r)
  <2>1. Working(r) /\ HasStep(r)
    BY <1>4 DEF FailInterrupted
  <2>2. Turn(r) \in Turns /\ StepIndex(r) \in 1..Len(steps[Turn(r)])
    BY <2>1, WorkFacts
  <2>3. /\ CloseStep(steps, Turn(r), StepIndex(r), "failed") \in Streams
        /\ \A u \in Turns :
             Len(CloseStep(steps, Turn(r), StepIndex(r), "failed")[u]) = Len(steps[u])
    BY <1>0, <2>2, CloseStepKeeps DEF Replies
  <2> QED
    BY <1>0, <1>4, <2>3, FailConcludes DEF FailInterrupted
<1>5. CASE ConcludeTurn(r)
  <2>1. CASE Step(r).reply = "stop" /\ ~OpenWork(steps, exec)
    <3>1. /\ cancellation = None /\ terminal' = "completed"
          /\ UNCHANGED <<steps, exec, turns, cancellation, dispatched>> /\ Leave(r)
      BY <1>5, <2>1 DEF ConcludeTurn, Working
    <3> QED
      BY <1>0, <3>1 DEF Concludes, Keeps, Inv, StreamType
  <2>2. CASE ~(Step(r).reply = "stop" /\ ~OpenWork(steps, exec))
    BY <1>0, <1>5, <2>2, FailConcludes DEF ConcludeTurn
  <2> QED
    BY <2>1, <2>2
<1>6. CASE ConcludeCancelled(r)
  <2>1. /\ cancellation = None /\ cancellation' = "user" /\ Settle(steps, exec, "user")
        /\ UNCHANGED <<turns, dispatched>> /\ Leave(r)
    BY <1>6 DEF ConcludeCancelled, Working
  <2>2. Keeps(steps, exec) /\ terminal' \in {"failed", "cancelled"}
    BY <1>0, <2>1, SettleKeeps
  <2> QED
    BY <2>1, <2>2 DEF Concludes
<1>7. CASE StreamEnds(r) \/ StreamBreaks(r)
  <2>1. at[r].turn \in Turns /\ at[r].step \in 1..Len(steps[at[r].turn])
    BY <1>7 DEF StreamEnds, StreamBreaks, Inv, MemoryType
  <2>2. /\ CloseStep(steps, at[r].turn, at[r].step, "failed") \in Streams
        /\ \A u \in Turns :
             Len(CloseStep(steps, at[r].turn, at[r].step, "failed")[u]) = Len(steps[u])
    BY <1>0, <2>1, CloseStepKeeps DEF Replies
  <2>3. Leave(r) /\ UNCHANGED <<turns, cancellation, dispatched>>
    BY <1>7 DEF StreamEnds, StreamBreaks
  <2>4. \/ Fail(CloseStep(steps, at[r].turn, at[r].step, "failed"), exec)
        \/ terminal = None /\ cancellation # None /\ Settle(steps, exec, cancellation)
    BY <1>7 DEF StreamEnds, StreamBreaks
  <2> QED
    BY <1>0, <2>2, <2>3, <2>4, FailConcludes, SettleConcludes
<1>8. CASE ToolThrows(r)
  <2>1. Leave(r) /\ UNCHANGED <<turns, cancellation, dispatched>>
    BY <1>8 DEF ToolThrows
  <2>2. CASE Awaited(r)
    <3> DEFINE e == [exec EXCEPT ![at[r].turn][at[r].call] = "unanswered"]
    <3>1. Fail(steps, e)
      BY <1>8, <2>2 DEF ToolThrows
    <3>2. /\ e \in Executions
          /\ \A t \in Turns, c \in Calls : exec[t][c] # "none" => e[t][c] # "none"
      BY <1>0 DEF Executions, CallStates
    <3> HIDE DEF e
    <3> QED
      BY <1>0, <2>1, <3>1, <3>2, FailConcludes
  <2>3. CASE ~Awaited(r)
    BY <1>8, <2>1, <2>3, CatchConcludes DEF ToolThrows
  <2> QED
    BY <2>1, <2>2, <2>3
<1> QED
  BY <1>1, <1>2, <1>3, <1>4, <1>5, <1>6, <1>7, <1>8

\* A settlement that is cut short, after what the runtime itself recorded.
LEMMA PartConcludes ==
  ASSUME Inv, NEW r \in Runtimes, Dies(r),
         NEW s \in Streams, NEW e \in Executions, NEW source, SettlePart(s, e, source),
         \A t \in Turns : Len(s[t]) = Len(steps[t]),
         \A t \in Turns, c \in Calls : exec[t][c] # "none" => e[t][c] # "none",
         cancellation' \in {None, "user", "deadline"},
         cancellation # None => cancellation' = cancellation
  PROVE  Concludes /\ Leave(r)
<1>1. Keeps(s, e)
  BY SettlePartKeeps
<1>2. Keeps(steps, exec)
  BY <1>1 DEF Keeps
<1>3. Leave(r) /\ UNCHANGED <<turns, terminal, dispatched>> /\ terminal = None
  BY DEF Dies
<1>4. EndsWell
  BY <1>3, NullAssumption DEF EndsWell
<1> QED
  BY <1>2, <1>3, <1>4 DEF Concludes

LEMMA DeathSteps ==
  ASSUME Inv, NEW r \in Runtimes,
         \/ DiesSettling(r) \/ DiesClosing(r) \/ DiesDoubting(r)
         \/ DiesAssembled(r) \/ DiesDispatching(r) \/ DiesCancelling(r)
  PROVE  Concludes /\ Leave(r)
<1>0. /\ steps \in Streams /\ exec \in Executions
      /\ cancellation \in {None, "user", "deadline"}
  BY DEF Inv, StreamType
<1>1. CASE DiesSettling(r)
  BY <1>0, <1>1, PartConcludes DEF DiesSettling
<1>2. CASE DiesClosing(r)
  <2>1. PICK t, n, reply, source :
          /\ reply \in {"failed", "cancelled"}
          /\ t \in Turns /\ n \in 1..Len(steps[t])
          /\ SettlePart(CloseStep(steps, t, n, reply), exec, source)
    <3>1. CASE pc[r] = "streaming"
      <4>1. at[r].turn \in Turns /\ at[r].step \in 1..Len(steps[at[r].turn])
        BY <3>1 DEF Inv, MemoryType
      <4> QED
        BY <1>2, <3>1, <4>1 DEF DiesClosing, Working
    <3>2. CASE pc[r] # "streaming"
      <4>1. /\ Working(r) /\ HasStep(r)
            /\ SettlePart(CloseStep(steps, Turn(r), StepIndex(r), "failed"), exec, None)
        BY <1>2, <3>2 DEF DiesClosing
      <4>2. Turn(r) \in Turns /\ StepIndex(r) \in 1..Len(steps[Turn(r)])
        BY <4>1, WorkFacts
      <4> QED
        BY <4>1, <4>2
    <3> QED
      BY <3>1, <3>2
  <2>2. /\ CloseStep(steps, t, n, reply) \in Streams
        /\ \A u \in Turns : Len(CloseStep(steps, t, n, reply)[u]) = Len(steps[u])
    BY <1>0, <2>1, CloseStepKeeps DEF Replies
  <2>3. Dies(r) /\ UNCHANGED cancellation
    BY <1>2 DEF DiesClosing
  <2> QED
    BY <1>0, <2>1, <2>2, <2>3, PartConcludes
<1>3. CASE DiesDoubting(r)
  <2> DEFINE e == [exec EXCEPT ![at[r].turn][at[r].call] = "unanswered"]
  <2>1. Dies(r) /\ UNCHANGED cancellation /\ SettlePart(steps, e, cancellation)
    BY <1>3 DEF DiesDoubting
  <2>2. /\ e \in Executions
        /\ \A t \in Turns, c \in Calls : exec[t][c] # "none" => e[t][c] # "none"
    BY <1>0 DEF Executions, CallStates
  <2> HIDE DEF e
  <2> QED
    BY <1>0, <2>1, <2>2, PartConcludes
<1>4. CASE DiesAssembled(r) \/ DiesDispatching(r)
  <2>1. /\ Leave(r) /\ terminal = None
        /\ UNCHANGED <<turns, steps, cancellation, terminal, dispatched>>
    BY <1>4 DEF DiesAssembled, DiesDispatching, Dies
  <2>2. EndsWell
    BY <2>1, NullAssumption DEF EndsWell
  <2>3. /\ exec' \in Executions
        /\ \A t \in Turns, c \in Calls : exec[t][c] # "none" => exec'[t][c] # "none"
    <3>1. exec' = exec \/ exec' = [exec EXCEPT ![Turn(r)][NextCall(r)] = "started"]
      BY <1>4 DEF DiesAssembled, DiesDispatching
    <3> QED
      BY <1>0, <3>1 DEF Executions, CallStates
  <2>4. Keeps(steps, exec)
    BY <1>0, <2>1, <2>3 DEF Keeps
  <2> QED
    BY <2>1, <2>2, <2>4, KeepsConcludes
<1>5. CASE DiesCancelling(r)
  <2>1. /\ Dies(r) /\ SettlePart(steps, exec, cancellation')
        /\ cancellation' = IF cancellation = None THEN "user" ELSE cancellation
    BY <1>5 DEF DiesCancelling
  <2> QED
    BY <1>0, <2>1, PartConcludes
<1> QED
  BY <1>1, <1>2, <1>3, <1>4, <1>5

-----------------------------------------------------------------------------
(* The other steps.                                                        *)

\* A runtime goes on without an event.
LEMMA IdleSteps ==
  ASSUME Inv, NEW r \in Runtimes,
         Send(r) \/ Resume(r) \/ BeginDrive(r) \/ DeadlineFires(r)
  PROVE  Advances /\ FinalStep /\ (Moves(r) \/ UNCHANGED <<pc, at>>)
<1>1. /\ UNCHANGED <<steps, exec, terminal, dispatched>>
      /\ turns' \in 0..MaxTurns
      /\ cancellation' \in {None, "user", "deadline"}
      /\ cancellation # None => cancellation' = cancellation
  <2>1. turns \in 0..MaxTurns /\ cancellation \in {None, "user", "deadline"} /\ MaxTurns \in Nat
    BY SessionAssumption DEF Inv, StreamType
  <2>2. CASE Send(r)
    BY <2>1, <2>2 DEF Send
  <2>3. CASE Resume(r)
    BY <2>1, <2>3 DEF Resume, durable
  <2>4. CASE BeginDrive(r) \/ DeadlineFires(r)
    BY <2>1, <2>4 DEF BeginDrive, DeadlineFires
  <2> QED
    BY <2>2, <2>3, <2>4
<1>2. steps \in Streams /\ \A t \in Turns : Len(steps[t]) \in Nat
  BY DEF Inv, StreamType, Streams
<1>3. Advances
  BY <1>1, <1>2 DEF Inv, StreamType, Advances
<1>4. FinalStep
  BY <1>1, NullAssumption DEF FinalStep
<1>5. Moves(r) \/ UNCHANGED <<pc, at>>
  <2>1. CASE Send(r) \/ Resume(r) \/ BeginDrive(r)
    <3>1. pc' = [pc EXCEPT ![r] = "setup"] \/ pc' = [pc EXCEPT ![r] = "ready"]
      BY <2>1 DEF Send, Resume, BeginDrive, Enter, Goto
    <3>2. at' = at
      BY <2>1 DEF Send, Resume, BeginDrive
    <3> QED
      BY <3>1, <3>2 DEF Moves, Inv, MemoryType
  <2>2. CASE DeadlineFires(r)
    BY <2>2 DEF DeadlineFires
  <2> QED
    BY <2>1, <2>2
<1> QED
  BY <1>3, <1>4, <1>5

\* SendBeyondLimit and Cancel end the session, or ask for it, from outside.
LEMMA OutsideSteps ==
  ASSUME Inv, SendBeyondLimit \/ \E r \in Runtimes : Cancel(r, "user")
  PROVE  Advances /\ FinalStep /\ UNCHANGED <<pc, at>>
<1>0. steps \in Streams /\ exec \in Executions
  BY DEF Inv, StreamType
<1>1. CASE SendBeyondLimit
  <2>1. Concludes
    BY <1>0, <1>1, NullAssumption
       DEF SendBeyondLimit, Concludes, Keeps, EndsWell, Inv, StreamType
  <2> QED
    BY <1>1, <2>1, ConcludesAdvances DEF SendBeyondLimit
<1>2. ASSUME NEW r \in Runtimes, Cancel(r, "user")
      PROVE  Concludes /\ UNCHANGED <<pc, at>>
  <2>1. /\ terminal = None
        /\ cancellation' = IF cancellation = None THEN "user" ELSE cancellation
        /\ UNCHANGED <<turns, pc, at, dispatched>>
    BY <1>2 DEF Cancel
  <2>2. CASE pc[r] = "idle"
    <3>1. Settle(steps, exec, cancellation')
      BY <1>2, <2>2 DEF Cancel
    <3>2. /\ Keeps(steps, exec) /\ terminal' \in {"failed", "cancelled"}
          /\ cancellation' = "deadline" => terminal' = "failed"
      BY <1>0, <3>1, SettleKeeps
    <3>3. /\ cancellation' \in {None, "user", "deadline"}
          /\ cancellation # None => cancellation' = cancellation
      BY <2>1 DEF Inv, StreamType
    <3> QED
      BY <2>1, <3>2, <3>3 DEF Concludes, EndsWell
  <2>3. CASE pc[r] # "idle"
    <3>1. UNCHANGED <<steps, exec, terminal>>
      BY <1>2, <2>3 DEF Cancel
    <3>2. Keeps(steps, exec) /\ EndsWell
      BY <1>0, <2>1, <3>1, NullAssumption DEF Keeps, EndsWell
    <3>3. /\ cancellation' \in {None, "user", "deadline"}
          /\ cancellation # None => cancellation' = cancellation
      BY <2>1 DEF Inv, StreamType
    <3> QED
      BY <2>1, <3>1, <3>2, <3>3 DEF Concludes, Inv, StreamType
  <2> QED
    BY <2>1, <2>2, <2>3
<1> QED
  BY <1>1, <1>2, ConcludesAdvances

\* The stream of a turn changes and the drive goes on.
LEMMA SteppingFacts ==
  ASSUME Inv, NEW t \in Turns, NEW q \in Seq(StepRecords), Len(q) >= Len(steps[t]),
         steps' = [steps EXCEPT ![t] = q],
         UNCHANGED <<turns, exec, cancellation, terminal, dispatched>>
  PROVE  /\ Advances
         /\ Len(q) = Len(steps[t]) \/ cancellation = None => FinalStep
<1>1. steps \in Streams /\ steps' \in Streams
  BY DEF Inv, StreamType, Streams
<1>2. \A u \in Turns : /\ Len(steps[u]) \in Nat
                       /\ Len(steps'[u]) >= Len(steps[u])
                       /\ u # t \/ Len(q) = Len(steps[t]) => Len(steps'[u]) = Len(steps[u])
  BY <1>1 DEF Streams
<1>3. Advances
  BY <1>1, <1>2 DEF Inv, StreamType, Advances
<1>4. Len(q) = Len(steps[t]) \/ cancellation = None => FinalStep
  BY <1>2, NullAssumption DEF FinalStep
<1> QED
  BY <1>3, <1>4

\* The first step of a turn is on the stream.
LEMMA StartedStep ==
  ASSUME Inv, NEW r \in Runtimes, Working(r), ~HasStep(r),
         steps' = [steps EXCEPT ![Turn(r)] = <<OpenStep>>],
         UNCHANGED <<turns, exec, cancellation, terminal, dispatched>>
  PROVE  Advances /\ FinalStep /\ Turn(r) \in Turns /\ Len(steps'[Turn(r)]) = 1
<1> DEFINE t == Turn(r)
           q == <<OpenStep>>
<1>2. t \in Turns /\ steps[t] \in Seq(StepRecords) /\ cancellation = None
  BY WorkFacts DEF Working
<1>3. Len(steps[t]) = 0
  <2>1. pc[r] # "calls"
    <3>1. CASE pc[r] = "calls"
      <4>1. at[r].step \in 1..Len(steps[at[r].turn])
        BY <3>1 DEF Inv, MemoryType
      <4>2. HasStep(r)
        BY <1>2, <3>1, <4>1 DEF HasStep, StepIndex, Turn
      <4> QED
        BY <4>2
    <3> QED
      BY <3>1
  <2> QED
    BY <1>2, <2>1 DEF HasStep, StepIndex
<1>4. q \in Seq(StepRecords) /\ Len(q) = 1
  BY Bounds
<1>5. steps' = [steps EXCEPT ![t] = q]
  OBVIOUS
<1>6. Len(steps'[t]) = 1
  BY <1>2, <1>4, <1>5 DEF Inv, StreamType, Streams
<1> HIDE DEF t, q
<1>7. Len(q) >= Len(steps[t])
  BY <1>3, <1>4
<1>8. Advances /\ (Len(q) = Len(steps[t]) \/ cancellation = None => FinalStep)
  BY <1>2, <1>4, <1>5, <1>7, SteppingFacts
<1> QED
  BY <1>2, <1>6, <1>8 DEF t

LEMMA StartStepFacts ==
  ASSUME Inv, NEW r \in Runtimes, StartStep(r)
  PROVE  Advances /\ FinalStep /\ Moves(r)
<1> DEFINE t == Turn(r)
           place == [Nowhere EXCEPT !.turn = t, !.step = 1]
<1>1. /\ Working(r) /\ ~HasStep(r)
      /\ steps' = [steps EXCEPT ![t] = <<OpenStep>>]
      /\ pc' = [pc EXCEPT ![r] = "streaming"]
      /\ at' = [at EXCEPT ![r] = place]
      /\ UNCHANGED <<turns, exec, cancellation, terminal, dispatched>>
  BY DEF StartStep, Goto
<1>2. Advances /\ FinalStep /\ t \in Turns /\ Len(steps'[t]) = 1
  BY <1>1, StartedStep
<1>3. place \in Places /\ place.turn = t /\ place.step = 1
  BY <1>2, Bounds DEF Places, Nowhere
<1>4. pc'[r] = "streaming" /\ at'[r] = place
  BY <1>1 DEF Inv, MemoryType
<1>6. 1 \in 1..Len(steps'[t])
  BY <1>2
<1> HIDE DEF t, place
<1>5. Moves(r)
  BY <1>1, <1>2, <1>3, <1>4, <1>6 DEF Moves
<1> QED
  BY <1>2, <1>5

\* A drive without the provider leaves, with or without a step of its own.
LEMMA ProviderMissingFacts ==
  ASSUME Inv, NEW r \in Runtimes, ProviderMissing(r)
  PROVE  Advances /\ FinalStep /\ Moves(r)
<1>1. /\ Working(r) /\ Leave(r)
      /\ UNCHANGED <<turns, exec, cancellation, terminal, dispatched>>
  BY DEF ProviderMissing
<1>2. CASE ~HasStep(r) /\ steps' = [steps EXCEPT ![Turn(r)] = <<OpenStep>>]
  BY <1>1, <1>2, StartedStep, LeaveMoves
<1>3. CASE steps' = steps
  <2>1. Keeps(steps, exec) /\ EndsWell
    BY <1>1, <1>3, NullAssumption DEF Keeps, EndsWell, Inv, StreamType
  <2> QED
    BY <1>1, <2>1, KeepsConcludes, ConcludesAdvances, LeaveMoves
<1> QED
  BY <1>2, <1>3 DEF ProviderMissing

LEMMA OpenStreamFacts ==
  ASSUME Inv, NEW r \in Runtimes, OpenStream(r)
  PROVE  Advances /\ FinalStep /\ Moves(r)
<1>1. /\ Working(r) /\ HasStep(r)
      /\ UNCHANGED <<turns, steps, exec, cancellation, terminal, dispatched>>
      /\ pc' = [pc EXCEPT ![r] = "streaming"]
      /\ at' = [at EXCEPT ![r] = [Nowhere EXCEPT !.turn = Turn(r), !.step = Len(steps[Turn(r)])]]
  BY DEF OpenStream, Goto, durable
<1>2. /\ Turn(r) \in Turns /\ steps[Turn(r)] \in Seq(StepRecords)
      /\ StepIndex(r) \in 1..Len(steps[Turn(r)])
  BY <1>1, WorkFacts
<1>3. Len(steps[Turn(r)]) \in 1..Len(steps[Turn(r)]) /\ Len(steps[Turn(r)]) \in Nat
  BY <1>2
<1>4. Advances /\ FinalStep
  <2>1. \A u \in Turns : Len(steps[u]) \in Nat
    BY DEF Inv, StreamType, Streams
  <2>2. Advances
    BY <1>1, <2>1 DEF Advances, Inv, StreamType
  <2>3. FinalStep
    BY <1>1, NullAssumption DEF FinalStep
  <2> QED
    BY <2>2, <2>3
<1>5. Moves(r)
  <2> DEFINE t == Turn(r)
             n == Len(steps[t])
             place == [Nowhere EXCEPT !.turn = t, !.step = n]
  <2>1. place \in Places /\ place.turn = t /\ place.step = n
    BY <1>2, <1>3, Bounds DEF Places, Nowhere
  <2>2. pc'[r] = "streaming" /\ at'[r] = place
    BY <1>1 DEF Inv, MemoryType
  <2>3. t \in Turns /\ n \in 1..Len(steps'[t])
    BY <1>1, <1>2, <1>3
  <2>4. at' = [at EXCEPT ![r] = place]
    BY <1>1
  <2> HIDE DEF t, n, place
  <2> QED
    BY <1>1, <2>1, <2>2, <2>3, <2>4 DEF Moves
<1> QED
  BY <1>4, <1>5

\* The start of a call is on the stream before the call is handed over.
LEMMA DispatchToolFacts ==
  ASSUME Inv, NEW r \in Runtimes, DispatchTool(r)
  PROVE  Advances /\ FinalStep /\ Moves(r)
<1> DEFINE t == Turn(r)
           c == NextCall(r)
<1>1. /\ Working(r) /\ HasStep(r) /\ Pending(r) # {} /\ cancellation = None
      /\ exec' = [exec EXCEPT ![t][c] = "started"]
      /\ dispatched' = dispatched \cup {<<t, c>>}
      /\ pc' = [pc EXCEPT ![r] = "tool"]
      /\ at' = [at EXCEPT ![r] = Calling(r)]
      /\ UNCHANGED <<turns, steps, cancellation, terminal>>
  BY DEF DispatchTool, Goto, Working
<1>2. /\ t \in Turns /\ StepIndex(r) \in 1..Len(steps[t]) /\ steps[t] \in Seq(StepRecords)
  BY <1>1, WorkFacts
<1>3. c \in Calls
  BY <1>1, NextCallFacts
<1>4. Calling(r) \in Places /\ Calling(r).turn = t /\ Calling(r).step = StepIndex(r)
      /\ Calling(r).call = c
  BY <1>2, <1>3, SessionAssumption DEF Calling, Places
<1> HIDE DEF t, c
<1>5. /\ exec' \in Executions /\ exec'[t][c] = "started"
      /\ \A u \in Turns, d \in Calls : exec[u][d] # "none" => exec'[u][d] # "none"
  BY <1>1, <1>2, <1>3 DEF Inv, StreamType, Executions, CallStates
<1>6. \E tc \in Turns \X Calls :
        dispatched' = dispatched \cup {tc} /\ exec'[tc[1]][tc[2]] # "none"
  <2> DEFINE tc == <<t, c>>
  <2>1. tc \in Turns \X Calls /\ exec'[tc[1]][tc[2]] # "none"
    BY <1>2, <1>3, <1>5
  <2> QED
    BY <1>1, <2>1
<1>7. Advances /\ FinalStep
  <2>1. steps' = steps /\ \A u \in Turns : Len(steps[u]) \in Nat
    BY <1>1 DEF Inv, StreamType, Streams
  <2>2. Advances
    BY <1>1, <1>5, <1>6, <2>1 DEF Advances, Inv, StreamType
  <2>3. FinalStep
    BY <1>1 DEF FinalStep
  <2> QED
    BY <2>2, <2>3
<1>8. Moves(r)
  <2>1. pc'[r] = "tool" /\ at'[r] = Calling(r) /\ steps' = steps
    BY <1>1 DEF Inv, MemoryType
  <2> QED
    BY <1>1, <1>2, <1>3, <1>4, <2>1 DEF Moves
<1> QED
  BY <1>7, <1>8

LEMMA ContinueTurnFacts ==
  ASSUME Inv, NEW r \in Runtimes, ContinueTurn(r)
  PROVE  Advances /\ FinalStep /\ Moves(r)
<1> DEFINE t == Turn(r)
           q == Append(steps[t], OpenStep)
<1>1. /\ Working(r) /\ cancellation = None
      /\ UNCHANGED <<turns, cancellation, dispatched>>
  BY DEF ContinueTurn, Working
<1>2. t \in Turns /\ steps[t] \in Seq(StepRecords)
  BY <1>1, WorkFacts
<1>3. CASE StepIndex(r) = Len(steps[t])
  <2>1. /\ steps' = [steps EXCEPT ![t] = q]
        /\ pc' = [pc EXCEPT ![r] = "ready"]
        /\ at' = [at EXCEPT ![r] = Nowhere]
        /\ UNCHANGED <<exec, terminal>>
    BY <1>3 DEF ContinueTurn, Goto
  <2>2. q \in Seq(StepRecords) /\ Len(q) >= Len(steps[t])
    BY <1>2, Bounds
  <2> HIDE DEF t, q
  <2>3. Advances /\ FinalStep
    BY <1>1, <1>2, <2>1, <2>2, SteppingFacts
  <2>4. Moves(r)
    BY <2>1, Bounds DEF Moves, Inv, MemoryType
  <2> QED
    BY <2>3, <2>4
<1>4. CASE StepIndex(r) # Len(steps[t])
  <2>1. DriveCatch /\ Leave(r)
    BY <1>4 DEF ContinueTurn
  <2> QED
    BY <1>1, <2>1, CatchConcludes, ConcludesAdvances, LeaveMoves
<1> QED
  BY <1>3, <1>4

\* What the stream that r consumes delivers next is an event of its step.
LEMMA AcceptsFacts ==
  ASSUME Inv, NEW r \in Runtimes, pc[r] = "streaming", Accepts(r)
  PROVE  /\ at[r].turn \in Turns /\ at[r].step \in 1..Len(steps[at[r].turn])
         /\ at[r].sent \in 0..MaxEvents
         /\ steps[at[r].turn] \in Seq(StepRecords)
         /\ steps[at[r].turn][at[r].step] \in StepRecords
         /\ steps[at[r].turn][at[r].step].events = at[r].sent
<1>1. at[r].turn \in Turns /\ at[r].step \in 1..Len(steps[at[r].turn]) /\ at[r] \in Places
  BY DEF Inv, MemoryType
<1>2. steps[at[r].turn] \in Seq(StepRecords)
  BY <1>1 DEF Inv, StreamType, Streams
<1>3. steps[at[r].turn][at[r].step] \in StepRecords
  BY <1>1, <1>2
<1>4. at[r].sent \in 0..MaxEvents
  BY <1>1 DEF Places
<1> QED
  BY <1>1, <1>2, <1>3, <1>4 DEF Accepts

LEMMA StreamDeltaFacts ==
  ASSUME Inv, NEW r \in Runtimes, StreamDelta(r)
  PROVE  Advances /\ FinalStep /\ Moves(r)
<1> DEFINE t == at[r].turn
           n == at[r].step
           x == [steps[t][n] EXCEPT !.events = @ + 1]
           q == [steps[t] EXCEPT ![n] = x]
           place == [at[r] EXCEPT !.sent = @ + 1]
<1>1. /\ pc[r] = "streaming" /\ Accepts(r) /\ at[r].sent < MaxEvents
      /\ steps' = [steps EXCEPT ![at[r].turn][at[r].step].events = @ + 1]
      /\ at' = [at EXCEPT ![r].sent = @ + 1]
      /\ UNCHANGED <<turns, exec, cancellation, terminal, pc, dispatched>>
  BY DEF StreamDelta
<1>2. /\ t \in Turns /\ n \in 1..Len(steps[t]) /\ at[r].sent \in 0..MaxEvents
      /\ steps[t] \in Seq(StepRecords) /\ steps[t][n] \in StepRecords
      /\ steps[t][n].events = at[r].sent
  BY <1>1, AcceptsFacts
<1>3. steps' = [steps EXCEPT ![t] = q]
  BY <1>1
<1>4. x \in StepRecords
  <2>1. steps[t][n].events + 1 \in 0..(MaxEvents + 1)
    BY <1>2, Bounds
  <2> QED
    BY <1>2, <2>1 DEF StepRecords
<1>5. q \in Seq(StepRecords) /\ Len(q) = Len(steps[t])
  BY <1>2, <1>4, ReplaceInSeq
<1>6. at' = [at EXCEPT ![r] = place]
  BY <1>1
<1>7. place \in Places /\ place.turn = t /\ place.step = n
  <2>1. at[r] \in Places
    BY DEF Inv, MemoryType
  <2>2. at[r].sent + 1 \in 0..MaxEvents
    BY <1>1, <1>2, Bounds
  <2> QED
    BY <2>1, <2>2 DEF Places
<1>8. Len(q) >= Len(steps[t])
  BY <1>2, <1>5
<1> HIDE DEF t, n, x, q, place
<1>9. Advances /\ FinalStep
  BY <1>1, <1>2, <1>3, <1>5, <1>8, SteppingFacts
<1>10. Len(steps'[t]) = Len(steps[t])
  BY <1>2, <1>3, <1>5 DEF Inv, StreamType, Streams
<1>11. Moves(r)
  <2>1. pc'[r] = "streaming" /\ at'[r] = place /\ pc' = [pc EXCEPT ![r] = pc'[r]]
    BY <1>1, <1>6 DEF Inv, MemoryType
  <2> QED
    BY <1>2, <1>6, <1>7, <1>10, <2>1 DEF Moves
<1> QED
  BY <1>9, <1>11

LEMMA StreamConcludesFacts ==
  ASSUME Inv, NEW r \in Runtimes, StreamConcludes(r)
  PROVE  Advances /\ FinalStep /\ Moves(r)
<1> DEFINE t == at[r].turn
           n == at[r].step
<1>1. /\ pc[r] = "streaming" /\ Accepts(r)
      /\ pc' = [pc EXCEPT ![r] = "ready"] /\ at' = [at EXCEPT ![r] = Nowhere]
      /\ UNCHANGED <<turns, exec, cancellation, terminal, dispatched>>
  BY DEF StreamConcludes, Goto
<1>2. /\ t \in Turns /\ n \in 1..Len(steps[t]) /\ at[r].sent \in 0..MaxEvents
      /\ steps[t] \in Seq(StepRecords)
      /\ steps[t][n].events = at[r].sent
  BY <1>1, AcceptsFacts
<1>3. PICK reply \in Replies, calls \in CallLists \cup {<<>>} :
        steps' = [steps EXCEPT ![t][n] =
                    [reply |-> reply, events |-> @.events + 1, calls |-> calls]]
  BY DEF StreamConcludes
<1> DEFINE x == [reply |-> reply, events |-> steps[t][n].events + 1, calls |-> calls]
           q == [steps[t] EXCEPT ![n] = x]
<1>4. steps' = [steps EXCEPT ![t] = q]
  BY <1>3
<1>5. x \in StepRecords
  <2>1. steps[t][n].events + 1 \in 0..(MaxEvents + 1)
    BY <1>2, Bounds
  <2> QED
    BY <2>1 DEF StepRecords
<1>6. q \in Seq(StepRecords) /\ Len(q) = Len(steps[t])
  BY <1>2, <1>5, ReplaceInSeq
<1>7. Len(q) >= Len(steps[t])
  BY <1>2, <1>6
<1> HIDE DEF t, n, x, q
<1>8. Advances /\ FinalStep
  BY <1>1, <1>2, <1>4, <1>6, <1>7, SteppingFacts
<1>9. Moves(r)
  BY <1>1, Bounds DEF Moves, Inv, MemoryType
<1> QED
  BY <1>8, <1>9

LEMMA ToolReturnsFacts ==
  ASSUME Inv, NEW r \in Runtimes, ToolReturns(r)
  PROVE  Advances /\ FinalStep /\ Moves(r)
<1>1. pc[r] = "tool" /\ UNCHANGED <<turns, cancellation, dispatched>>
  BY DEF ToolReturns
<1>2. CASE Awaited(r)
  <2> DEFINE t == at[r].turn
             c == at[r].call
             place == [at[r] EXCEPT !.call = None]
  <2>1. /\ exec' = [exec EXCEPT ![t][c] = "answered"]
        /\ pc' = [pc EXCEPT ![r] = "calls"] /\ at' = [at EXCEPT ![r].call = None]
        /\ UNCHANGED <<steps, terminal>>
    BY <1>2 DEF ToolReturns, Goto
  <2>2. at[r] \in Places /\ t \in Turns /\ at[r].step \in 1..Len(steps[t])
    BY <1>1 DEF Inv, MemoryType
  <2>3. at' = [at EXCEPT ![r] = place]
    BY <2>1
  <2>4. place \in Places /\ place.turn = t /\ place.step = at[r].step
    BY <2>2 DEF Places
  <2> HIDE DEF t, c, place
  <2>5. /\ exec' \in Executions
        /\ \A u \in Turns, d \in Calls : exec[u][d] # "none" => exec'[u][d] # "none"
    BY <2>1 DEF Inv, StreamType, Executions, CallStates
  <2>6. \A u \in Turns : Len(steps[u]) \in Nat
    BY DEF Inv, StreamType, Streams
  <2>7. Advances /\ FinalStep
    BY <1>1, <2>1, <2>5, <2>6, NullAssumption DEF Advances, FinalStep, Inv, StreamType
  <2>8. Moves(r)
    <3>1. pc'[r] = "calls" /\ at'[r] = place
      BY <2>1, <2>3 DEF Inv, MemoryType
    <3> QED
      BY <2>1, <2>2, <2>3, <2>4, <3>1 DEF Moves
  <2> QED
    BY <2>7, <2>8
<1>3. CASE ~Awaited(r)
  <2>1. DriveCatch /\ Leave(r)
    BY <1>3 DEF ToolReturns
  <2> QED
    BY <1>1, <2>1, CatchConcludes, ConcludesAdvances, LeaveMoves
<1> QED
  BY <1>2, <1>3

-----------------------------------------------------------------------------
LEMMA InitInv == Init => Inv
<1> SUFFICES ASSUME Init PROVE Inv
  OBVIOUS
<1>1. StreamType
  BY SessionAssumption DEF Init, StreamType, Streams, Executions, CallStates
<1>2. MemoryType
  BY Bounds DEF Init, MemoryType
<1>3. DispatchInv
  BY DEF Init, DispatchInv
<1> QED
  BY <1>1, <1>2, <1>3 DEF Inv

LEMMA EveryStep ==
  ASSUME Inv, [Next]_vars
  PROVE  Inv' /\ Advances /\ FinalStep
<1>1. CASE SendBeyondLimit \/ \E r \in Runtimes : Cancel(r, "user")
  BY <1>1, OutsideSteps, AdvancesInv
<1>2. ASSUME NEW r \in Runtimes,
             Send(r) \/ Resume(r) \/ BeginDrive(r) \/ DeadlineFires(r)
      PROVE  Inv' /\ Advances /\ FinalStep
  BY <1>2, IdleSteps, AdvancesInv
<1>3. ASSUME NEW r \in Runtimes,
             \/ DriveStops(r) \/ DriveSettles(r) \/ DriveFails(r) \/ FailInterrupted(r)
             \/ ConcludeTurn(r) \/ ConcludeCancelled(r) \/ StreamEnds(r) \/ StreamBreaks(r)
             \/ ToolThrows(r) \/ Crash(r)
      PROVE  Inv' /\ Advances /\ FinalStep
  BY <1>3, LeavingSteps, ConcludesAdvances, LeaveMoves, AdvancesInv
<1>6. ASSUME NEW r \in Runtimes,
             \/ DiesSettling(r) \/ DiesClosing(r) \/ DiesDoubting(r)
             \/ DiesAssembled(r) \/ DiesDispatching(r) \/ DiesCancelling(r)
      PROVE  Inv' /\ Advances /\ FinalStep
  BY <1>6, DeathSteps, ConcludesAdvances, LeaveMoves, AdvancesInv
<1>4. ASSUME NEW r \in Runtimes,
             \/ StartStep(r) \/ OpenStream(r) \/ ProviderMissing(r)
             \/ DispatchTool(r) \/ ContinueTurn(r)
             \/ StreamDelta(r) \/ StreamConcludes(r) \/ ToolReturns(r)
      PROVE  Inv' /\ Advances /\ FinalStep
  BY <1>4, StartStepFacts, OpenStreamFacts, ProviderMissingFacts, DispatchToolFacts,
     ContinueTurnFacts, StreamDeltaFacts, StreamConcludesFacts, ToolReturnsFacts, AdvancesInv
<1>5. CASE UNCHANGED vars
  <2>1. UNCHANGED <<turns, steps, exec, cancellation, terminal, pc, at, dispatched>>
    BY <1>5 DEF vars, durable
  <2>2. \A u \in Turns : Len(steps[u]) \in Nat
    BY DEF Inv, StreamType, Streams
  <2>3. Advances /\ FinalStep
    BY <2>1, <2>2, NullAssumption DEF Advances, FinalStep, Inv, StreamType
  <2> QED
    BY <2>1, <2>3, AdvancesInv
<1> QED
  BY <1>1, <1>2, <1>3, <1>4, <1>5, <1>6 DEF Next, Caller, Drive, Answer, Death

LEMMA Invariant == Spec => []Inv
<1>1. Inv /\ [Next]_vars => Inv'
  BY EveryStep
<1> QED
  BY <1>1, InitInv, PTL DEF Spec

\* A context is assembled for a turn that was sent.
RequestsType == requests \subseteq Turns

LEMMA RequestsTyped == Spec => []RequestsType
<1>1. Init => RequestsType
  BY DEF Init, RequestsType
<1>2. Inv /\ RequestsType /\ [Next]_vars => RequestsType'
  <2> SUFFICES ASSUME Inv, RequestsType, [Next]_vars PROVE RequestsType'
    OBVIOUS
  <2>1. ASSUME NEW r \in Runtimes, Working(r), requests' = requests \cup {Turn(r)}
        PROVE  RequestsType'
    BY <2>1, WorkFacts DEF RequestsType
  <2>2. CASE UNCHANGED requests
    BY <2>2 DEF RequestsType
  <2>3. ASSUME NEW r \in Runtimes, Drive(r)
        PROVE  requests' = requests \/ (Working(r) /\ requests' = requests \cup {Turn(r)})
    BY <2>3 DEF Drive, BeginDrive, DriveStops, DriveSettles, DriveFails, StartStep, OpenStream,
         ProviderMissing, FailInterrupted, ConcludeTurn, ConcludeCancelled, DispatchTool,
         ContinueTurn, durable
  <2>4. ASSUME NEW r \in Runtimes, Answer(r) \/ DeadlineFires(r) \/ Send(r) \/ Resume(r)
                                  \/ Cancel(r, "user") \/ SendBeyondLimit
        PROVE  requests' = requests
    BY <2>4 DEF Answer, StreamDelta, StreamConcludes, StreamEnds, StreamBreaks, ToolReturns,
         ToolThrows, DeadlineFires, Send, Resume, Cancel, SendBeyondLimit, durable
  <2>5. ASSUME NEW r \in Runtimes, Death(r)
        PROVE  requests' = requests \/ (Working(r) /\ requests' = requests \cup {Turn(r)})
    BY <2>5 DEF Death, Crash, DiesSettling, DiesClosing, DiesDoubting, DiesAssembled,
         DiesDispatching, DiesCancelling, durable
  <2>6. CASE SendBeyondLimit
    BY <2>2, <2>6 DEF SendBeyondLimit
  <2>7. CASE UNCHANGED vars
    BY <2>2, <2>7 DEF vars, durable
  <2> QED
    BY <2>1, <2>2, <2>3, <2>4, <2>5, <2>6, <2>7 DEF Next, Caller
<1> QED
  BY <1>1, <1>2, Invariant, PTL DEF Spec

-----------------------------------------------------------------------------
(* What the session promises.                                              *)

\* No tool is handed a call whose start is not on the stream, and stream and
\* memory keep their types.
THEOREM IntentIsDurable == Spec => []IntentBeforeDispatch
<1>1. ASSUME Inv, RequestsType PROVE IntentBeforeDispatch
  <2>1. \A t \in Turns : \A n \in DOMAIN steps[t] : steps[t][n] \in StepRecords
    <3> SUFFICES ASSUME NEW t \in Turns, NEW n \in DOMAIN steps[t]
                 PROVE  steps[t][n] \in StepRecords
      OBVIOUS
    <3>1. steps[t] \in Seq(StepRecords)
      BY <1>1 DEF Inv, StreamType, Streams
    <3> QED
      BY <3>1
  <2>2. TypeOK
    BY <1>1, <2>1 DEF Inv, StreamType, MemoryType, StepRecords, Executions, CallStates, TypeOK,
         RequestsType
  <2> QED
    BY <1>1, <2>2 DEF Inv, DispatchInv, IntentBeforeDispatch
<1> QED
  BY <1>1, Invariant, RequestsTyped, PTL

\* After a durable cancellation nothing starts, its source stays, and the
\* session ends as its source says.
THEOREM CancellationHolds == Spec => CancellationIsFinal
<1>1. Inv /\ [Next]_vars => FinalStep
  BY EveryStep
<1> QED
  BY <1>1, Invariant, PTL DEF Spec, CancellationIsFinal

-----------------------------------------------------------------------------
(* The order of work within a turn.                                        *)

Settled == {"answered", "unanswered"}

\* Only the last step of a turn has work under way: it is open, or one of its
\* calls, the first without an outcome, was started.
Ordered(s, e, t) ==
  /\ \A n \in 1..(Len(s[t]) - 1) :
       /\ s[t][n].reply # "open"
       /\ \A k \in DOMAIN s[t][n].calls : e[t][s[t][n].calls[k]] \in Settled
  /\ \A c \in Calls : e[t][c] = "started" =>
       /\ Len(s[t]) > 0 /\ s[t][Len(s[t])].reply = "tools"
       /\ \E k \in DOMAIN s[t][Len(s[t])].calls :
            /\ s[t][Len(s[t])].calls[k] = c
            /\ \A j \in DOMAIN s[t][Len(s[t])].calls :
                 j < k => e[t][s[t][Len(s[t])].calls[j]] \in Settled

Fresh(s, e, t) == s[t] = <<>> /\ \A c \in Calls : e[t][c] = "none"

\* What stands on the stream while the session goes on.
WorkInv ==
  /\ \A t \in Turns : Ordered(steps, exec, t)
  /\ \A t \in Turns : t > turns => Fresh(steps, exec, t)
  /\ turns = 1 /\ crashes = 0 => \A c \in Calls : exec[1][c] # "unanswered"

LEMMA StepTyped ==
  ASSUME NEW s \in Streams, NEW t \in Turns
  PROVE  /\ s[t] \in Seq(StepRecords) /\ Len(s[t]) \in Nat
         /\ \A n \in 1..Len(s[t]) : /\ s[t][n] \in StepRecords
                                    /\ s[t][n].calls \in Seq(Calls)
<1>1. s[t] \in Seq(StepRecords) /\ Len(s[t]) \in Nat
  BY DEF Streams
<1>2. ASSUME NEW n \in 1..Len(s[t])
      PROVE  s[t][n] \in StepRecords /\ s[t][n].calls \in Seq(Calls)
  <2>1. s[t][n] \in StepRecords
    BY <1>1
  <2>2. s[t][n].calls \in CallLists \cup {<<>>}
    BY <2>1 DEF StepRecords
  <2>3. CallLists \subseteq Seq(Calls) /\ <<>> \in Seq(Calls)
    BY SessionAssumption
  <2> QED
    BY <2>1, <2>2, <2>3
<1> QED
  BY <1>1, <1>2

\* An open step is the last one, and nothing was started beside it.
LEMMA OpenIsLast ==
  ASSUME NEW s \in Streams, NEW e, NEW t \in Turns, Ordered(s, e, t),
         NEW n \in 1..Len(s[t]), s[t][n].reply = "open"
  PROVE  n = Len(s[t]) /\ \A c \in Calls : e[t][c] # "started"
<1>1. Len(s[t]) \in Nat
  BY StepTyped
<1>2. n = Len(s[t])
  <2>1. n \notin 1..(Len(s[t]) - 1)
    BY DEF Ordered
  <2> QED
    BY <1>1, <2>1
<1> QED
  BY <1>2 DEF Ordered

LEMMA OneStarted ==
  ASSUME NEW s \in Streams, NEW e, NEW t \in Turns, Ordered(s, e, t),
         NEW c \in Calls, NEW d \in Calls, e[t][c] = "started", e[t][d] = "started"
  PROVE  c = d
<1> DEFINE last == s[t][Len(s[t])]
<1>1. Len(s[t]) \in 1..Len(s[t]) /\ last.calls \in Seq(Calls)
  <2>1. Len(s[t]) \in Nat /\ Len(s[t]) > 0
    BY StepTyped DEF Ordered
  <2>2. Len(s[t]) \in 1..Len(s[t])
    BY <2>1
  <2> QED
    BY <2>2, StepTyped
<1>2. PICK k \in DOMAIN last.calls :
        /\ last.calls[k] = c
        /\ \A j \in DOMAIN last.calls : j < k => e[t][last.calls[j]] \in Settled
  BY DEF Ordered
<1>3. PICK l \in DOMAIN last.calls :
        /\ last.calls[l] = d
        /\ \A j \in DOMAIN last.calls : j < l => e[t][last.calls[j]] \in Settled
  BY DEF Ordered
<1> HIDE DEF last
<1>4. k \in Nat /\ l \in Nat
  BY <1>1
<1>5. ~(k < l) /\ ~(l < k)
  BY <1>2, <1>3 DEF Settled
<1> QED
  BY <1>2, <1>3, <1>4, <1>5

\* Closing a step, or marking the outcome of a call, keeps the order.
LEMMA ClosedOrdered ==
  ASSUME NEW s \in Streams, NEW e, NEW t \in Turns, Ordered(s, e, t),
         NEW u \in Turns, NEW n \in 1..Len(s[u])
  PROVE  Ordered(CloseStep(s, u, n, "failed"), e, t)
<1> DEFINE s2 == CloseStep(s, u, n, "failed")
<1>1. CASE s[u][n].reply # "open"
  BY <1>1 DEF CloseStep
<1>2. CASE s[u][n].reply = "open" /\ u # t
  <2>1. s2[t] = s[t]
    BY <1>2 DEF CloseStep, Streams
  <2> HIDE DEF s2
  <2> QED
    BY <2>1 DEF Ordered, s2
<1>3. CASE s[u][n].reply = "open" /\ u = t
  <2>1. n = Len(s[t]) /\ \A c \in Calls : e[t][c] # "started"
    BY <1>3, OpenIsLast
  <2>2. s2 = [s EXCEPT ![t] = [s[t] EXCEPT ![n] = [s[t][n] EXCEPT !.reply = "failed"]]]
    BY <1>3 DEF CloseStep
  <2>3. s2[t] = [s[t] EXCEPT ![n] = [s[t][n] EXCEPT !.reply = "failed"]]
    BY <2>2 DEF Streams
  <2>4. /\ Len(s2[t]) = Len(s[t]) /\ Len(s[t]) \in Nat
        /\ \A m \in 1..(Len(s[t]) - 1) : s2[t][m] = s[t][m]
    BY <2>1, <2>3, StepTyped
  <2> HIDE DEF s2
  <2> QED
    BY <2>1, <2>4 DEF Ordered, s2
<1> QED
  BY <1>1, <1>2, <1>3

LEMMA MarkedOrdered ==
  ASSUME NEW s \in Streams, NEW e \in Executions, NEW t \in Turns, Ordered(s, e, t),
         NEW u \in Turns, NEW d \in Calls, NEW v \in Settled
  PROVE  Ordered(s, [e EXCEPT ![u][d] = v], t)
<1> DEFINE f == [e EXCEPT ![u][d] = v]
<1>1. ASSUME NEW c \in Calls
      PROVE  /\ f[t][c] = e[t][c] \/ f[t][c] \in Settled
             /\ f[t][c] = "started" => e[t][c] = "started"
  BY DEF Executions, Settled
<1> HIDE DEF f
<1>2. ASSUME NEW n \in 1..Len(s[t]), NEW k \in DOMAIN s[t][n].calls
      PROVE  s[t][n].calls[k] \in Calls
  BY StepTyped
<1>3. Len(s[t]) \in Nat /\ \A n \in 1..(Len(s[t]) - 1) : n \in 1..Len(s[t])
  BY StepTyped
<1>4. Len(s[t]) > 0 => Len(s[t]) \in 1..Len(s[t])
  BY <1>3
<1>5. ASSUME NEW n \in 1..(Len(s[t]) - 1)
      PROVE  /\ s[t][n].reply # "open"
             /\ \A k \in DOMAIN s[t][n].calls : f[t][s[t][n].calls[k]] \in Settled
  BY <1>1, <1>2, <1>3 DEF Ordered
<1>6. ASSUME NEW c \in Calls, f[t][c] = "started"
      PROVE  /\ Len(s[t]) > 0 /\ s[t][Len(s[t])].reply = "tools"
             /\ \E k \in DOMAIN s[t][Len(s[t])].calls :
                  /\ s[t][Len(s[t])].calls[k] = c
                  /\ \A j \in DOMAIN s[t][Len(s[t])].calls :
                       j < k => f[t][s[t][Len(s[t])].calls[j]] \in Settled
  <2>1. e[t][c] = "started"
    BY <1>1, <1>6
  <2>2. Len(s[t]) > 0 /\ s[t][Len(s[t])].reply = "tools"
    BY <2>1 DEF Ordered
  <2>3. PICK k \in DOMAIN s[t][Len(s[t])].calls :
          /\ s[t][Len(s[t])].calls[k] = c
          /\ \A j \in DOMAIN s[t][Len(s[t])].calls :
               j < k => e[t][s[t][Len(s[t])].calls[j]] \in Settled
    BY <2>1 DEF Ordered
  <2> QED
    BY <1>1, <1>2, <1>4, <2>2, <2>3
<1>7. Ordered(s, f, t)
  BY <1>5, <1>6 DEF Ordered
<1> QED
  BY <1>7 DEF f

\* So does a settlement that stops half-way.
LEMMA EasedOrdered ==
  ASSUME NEW s \in Streams, NEW e, NEW s2 \in Streams, NEW e2, Eases(s, e, s2, e2),
         NEW t \in Turns
  PROVE  /\ Ordered(s, e, t) => Ordered(s2, e2, t)
         /\ Fresh(s, e, t) => Fresh(s2, e2, t)
<1>1. /\ Len(s2[t]) = Len(s[t]) /\ Len(s[t]) \in Nat
      /\ \A n \in 1..Len(s[t]) :
           /\ s2[t][n].calls = s[t][n].calls /\ s[t][n].calls \in Seq(Calls)
           /\ s2[t][n].reply = s[t][n].reply \/ s[t][n].reply = "open"
      /\ \A c \in Calls :
           \/ e2[t][c] = e[t][c]
           \/ e[t][c] = "started" /\ e2[t][c] = "unanswered"
  BY StepTyped DEF Eases
<1>2. \A c \in Calls :
        /\ e[t][c] \in Settled => e2[t][c] \in Settled
        /\ e2[t][c] = "started" => e[t][c] = "started"
  BY <1>1 DEF Settled
<1>3. ASSUME Ordered(s, e, t) PROVE Ordered(s2, e2, t)
  <2>1. ASSUME NEW n \in 1..(Len(s2[t]) - 1)
        PROVE  /\ s2[t][n].reply # "open"
               /\ \A k \in DOMAIN s2[t][n].calls : e2[t][s2[t][n].calls[k]] \in Settled
    <3>1. n \in 1..(Len(s[t]) - 1) /\ n \in 1..Len(s[t])
      BY <1>1, <2>1
    <3>2. /\ s[t][n].reply # "open"
          /\ \A k \in DOMAIN s[t][n].calls : e[t][s[t][n].calls[k]] \in Settled
      BY <1>3, <3>1 DEF Ordered
    <3>3. \A k \in DOMAIN s[t][n].calls : s[t][n].calls[k] \in Calls
      BY <1>1, <3>1
    <3> QED
      BY <1>1, <1>2, <3>1, <3>2, <3>3
  <2>2. ASSUME NEW c \in Calls, e2[t][c] = "started"
        PROVE  /\ Len(s2[t]) > 0 /\ s2[t][Len(s2[t])].reply = "tools"
               /\ \E k \in DOMAIN s2[t][Len(s2[t])].calls :
                    /\ s2[t][Len(s2[t])].calls[k] = c
                    /\ \A j \in DOMAIN s2[t][Len(s2[t])].calls :
                         j < k => e2[t][s2[t][Len(s2[t])].calls[j]] \in Settled
    <3> DEFINE last == s[t][Len(s[t])]
               last2 == s2[t][Len(s2[t])]
    <3>1. /\ Len(s[t]) > 0 /\ last.reply = "tools"
          /\ \E k \in DOMAIN last.calls :
               /\ last.calls[k] = c
               /\ \A j \in DOMAIN last.calls : j < k => e[t][last.calls[j]] \in Settled
      BY <1>2, <1>3, <2>2 DEF Ordered
    <3>2. Len(s[t]) \in 1..Len(s[t])
      BY <1>1, <3>1
    <3>3. /\ last2.calls = last.calls /\ last.calls \in Seq(Calls)
          /\ last2.reply = last.reply \/ last.reply = "open"
      BY <1>1, <3>2
    <3>4. Len(s2[t]) > 0
      BY <1>1, <3>1
    <3> HIDE DEF last, last2
    <3>5. \A j \in DOMAIN last.calls : last.calls[j] \in Calls
      BY <3>3
    <3>6. last2.reply = "tools"
      BY <3>1, <3>3
    <3>7. \E k \in DOMAIN last2.calls :
            /\ last2.calls[k] = c
            /\ \A j \in DOMAIN last2.calls : j < k => e2[t][last2.calls[j]] \in Settled
      BY <1>2, <3>1, <3>3, <3>5
    <3> QED
      BY <3>4, <3>6, <3>7 DEF last2
  <2> QED
    BY <2>1, <2>2 DEF Ordered
<1>4. ASSUME Fresh(s, e, t) PROVE Fresh(s2, e2, t)
  <2>1. Len(s2[t]) = 0 /\ s2[t] \in Seq(StepRecords)
    BY <1>1, <1>4 DEF Fresh, Streams
  <2>2. s2[t] = <<>>
    BY <2>1
  <2>3. \A c \in Calls : e2[t][c] = "none"
    BY <1>1, <1>4 DEF Fresh
  <2> QED
    BY <2>2, <2>3 DEF Fresh
<1> QED
  BY <1>3, <1>4

LEMMA CloseEases ==
  ASSUME NEW s \in Streams, NEW e, NEW u \in Turns, NEW n \in 1..Len(s[u]),
         NEW reply \in Replies
  PROVE  Eases(s, e, CloseStep(s, u, n, reply), e)
<1> DEFINE s2 == CloseStep(s, u, n, reply)
<1>1. \A t \in Turns : Len(s2[t]) = Len(s[t])
  BY CloseStepKeeps
<1>2. ASSUME NEW t \in Turns, NEW m \in 1..Len(s[t]), t # u \/ m # n
      PROVE  s2[t][m] = s[t][m]
  <2>1. s[t] \in Seq(StepRecords)
    BY DEF Streams
  <2>2. s2 = s \/ s2 = [s EXCEPT ![u] = [s[u] EXCEPT ![n] = [s[u][n] EXCEPT !.reply = reply]]]
    BY DEF CloseStep
  <2> HIDE DEF s2
  <2> QED
    BY <1>2, <2>1, <2>2 DEF Streams
<1>3. /\ s2[u][n].calls = s[u][n].calls
      /\ s2[u][n].reply = s[u][n].reply \/ s[u][n].reply = "open"
  BY ClosedRecord
<1> HIDE DEF s2
<1>4. ASSUME NEW t \in Turns, NEW m \in 1..Len(s[t])
      PROVE  /\ s2[t][m].calls = s[t][m].calls
             /\ s2[t][m].reply = s[t][m].reply \/ s[t][m].reply = "open"
  BY <1>2, <1>3
<1>5. Eases(s, e, s2, e)
  BY <1>1, <1>4 DEF Eases
<1> QED
  BY <1>5 DEF s2

LEMMA MarkEases ==
  ASSUME NEW s, NEW e \in Executions, NEW u \in Turns, NEW d \in Calls, e[u][d] = "started"
  PROVE  Eases(s, e, s, [e EXCEPT ![u][d] = "unanswered"])
<1> DEFINE e2 == [e EXCEPT ![u][d] = "unanswered"]
<1>1. \A t \in Turns, c \in Calls :
        \/ e2[t][c] = e[t][c]
        \/ e[t][c] = "started" /\ e2[t][c] = "unanswered"
  BY DEF Executions
<1> HIDE DEF e2
<1>2. Eases(s, e, s, e2)
  BY <1>1 DEF Eases
<1> QED
  BY <1>2 DEF e2

\* The places at which a drive is in the middle of a turn.
AtWork == {"streaming", "tool", "calls"}

\* A drive that has the session to itself is at the last step of the last turn,
\* and what it waits for is open unless somebody began to settle a cancellation.
AtLast(r) ==
  pc[r] \in AtWork =>
    /\ at[r].turn = turns /\ at[r].step = Len(steps[turns])
    /\ cancellation = None =>
         /\ pc[r] = "streaming" => steps[turns][at[r].step].reply = "open"
         /\ pc[r] = "tool" => exec[turns][at[r].call] = "started"

\* A drive is at a turn that was sent.
TurnsInv == \A r \in Runtimes : pc[r] \in AtWork => at[r].turn <= turns

\* Beside the runtime that has the session to itself all others are idle.
AloneInv ==
  /\ alone \subseteq Runtimes
  /\ \A r \in alone : pc[r] # "idle" /\ \A q \in Runtimes \ {r} : pc[q] = "idle"

\* While the session goes on, its work is in order and the drives are where it is.
OrderInv ==
  /\ crashes \in Nat /\ AloneInv
  /\ terminal = None => WorkInv /\ TurnsInv /\ \A r \in alone : AtLast(r)

LEMMA LocalOrder ==
  ASSUME NEW s, NEW e, NEW s2, NEW e2, NEW t, s2[t] = s[t], e2[t] = e[t]
  PROVE  /\ Ordered(s, e, t) <=> Ordered(s2, e2, t)
         /\ Fresh(s, e, t) <=> Fresh(s2, e2, t)
BY DEF Ordered, Fresh

\* Work that is done on one turn only.
LEMMA WorkAt ==
  ASSUME Inv, WorkInv, NEW u \in Turns, u <= turns, UNCHANGED turns,
         \A t \in Turns \ {u} : steps'[t] = steps[t] /\ exec'[t] = exec[t],
         Ordered(steps', exec', u),
         turns = 1 /\ crashes' = 0 => \A c \in Calls : exec'[1][c] # "unanswered"
  PROVE  WorkInv'
<1> DEFINE s2 == steps'
           e2 == exec'
<1>1. \A t \in Turns : Ordered(s2, e2, t)
  <2> SUFFICES ASSUME NEW t \in Turns PROVE Ordered(s2, e2, t)
    OBVIOUS
  <2>1. CASE t # u
    <3>1. s2[t] = steps[t] /\ e2[t] = exec[t] /\ Ordered(steps, exec, t)
      BY <2>1 DEF WorkInv
    <3> HIDE DEF s2, e2
    <3> QED
      BY <3>1, LocalOrder
  <2> QED
    BY <2>1
<1>2. \A t \in Turns : t > turns => Fresh(s2, e2, t)
  <2> SUFFICES ASSUME NEW t \in Turns, t > turns PROVE Fresh(s2, e2, t)
    OBVIOUS
  <2>0. t # u
    BY SessionAssumption DEF Turns, Inv, StreamType
  <2>1. s2[t] = steps[t] /\ e2[t] = exec[t] /\ Fresh(steps, exec, t)
    BY <2>0 DEF WorkInv
  <2> HIDE DEF s2, e2
  <2> QED
    BY <2>1, LocalOrder
<1> QED
  BY <1>1, <1>2 DEF WorkInv, Ordered, Fresh

\* r goes on beside runtimes that do not move.
LEMMA GoesOn ==
  ASSUME Inv, OrderInv, terminal = None, NEW r \in Runtimes, pc[r] # "idle", pc'[r] # "idle",
         pc' = [pc EXCEPT ![r] = pc'[r]], at' = [at EXCEPT ![r] = at'[r]],
         UNCHANGED <<turns, alone, crashes>>, WorkInv',
         pc'[r] \in AtWork => at'[r].turn <= turns,
         r \in alone => AtLast(r)'
  PROVE  OrderInv'
<1>1. ASSUME NEW q \in Runtimes, q # r PROVE pc'[q] = pc[q] /\ at'[q] = at[q]
  BY <1>1 DEF Inv, MemoryType
<1>2. AloneInv'
  BY <1>1 DEF OrderInv, AloneInv
<1>3. TurnsInv'
  BY <1>1 DEF OrderInv, TurnsInv
<1>4. \A q \in alone' : AtLast(q)'
  <2> SUFFICES ASSUME NEW q \in alone PROVE AtLast(q)'
    OBVIOUS
  <2>1. q = r
    BY DEF OrderInv, AloneInv
  <2> QED
    BY <2>1
<1> QED
  BY <1>2, <1>3, <1>4 DEF OrderInv

\* r leaves, and nobody had the session to himself but r.
LEMMA Leaves ==
  ASSUME Inv, OrderInv, NEW r \in Runtimes, pc[r] # "idle", Leave(r),
         UNCHANGED turns, crashes' \in Nat,
         terminal' = None => terminal = None /\ WorkInv'
  PROVE  OrderInv'
<1>1. ASSUME NEW q \in Runtimes, q # r PROVE pc'[q] = pc[q] /\ at'[q] = at[q]
  BY <1>1 DEF Leave, Goto, Inv, MemoryType
<1>2. alone' = {}
  BY DEF OrderInv, AloneInv, Leave
<1>3. pc'[r] = "idle"
  BY DEF Leave, Goto, Inv, MemoryType
<1>4. terminal' = None => TurnsInv'
  BY <1>1, <1>3 DEF OrderInv, TurnsInv, AtWork
<1> QED
  BY <1>2, <1>4 DEF OrderInv, AloneInv

-----------------------------------------------------------------------------
(* How a session ends.                                                     *)

\* No turn before the last one has work under way.
Clear(s, e) ==
  \A t \in Turns : t < turns =>
    /\ \A n \in 1..Len(s[t]) : s[t][n].reply # "open"
    /\ \A c \in Calls : e[t][c] # "started"

LEMMA ClearIsNotAbandoned ==
  ASSUME Inv
  PROVE  /\ ~Abandoned => Clear(steps, exec)
         /\ turns = 1 => Clear(steps, exec)
<1>1. ASSUME ~Abandoned PROVE Clear(steps, exec)
  <2> SUFFICES ASSUME NEW t \in Turns, t < turns
               PROVE  /\ \A n \in 1..Len(steps[t]) : steps[t][n].reply # "open"
                      /\ \A c \in Calls : exec[t][c] # "started"
    BY DEF Clear
  <2>1. t \in 1..(turns - 1)
    BY SessionAssumption DEF Inv, StreamType, Turns
  <2>2. DOMAIN steps[t] = 1..Len(steps[t])
    BY DEF Inv, StreamType, Streams
  <2> QED
    BY <1>1, <2>1, <2>2 DEF Abandoned
<1>2. ASSUME turns = 1 PROVE Clear(steps, exec)
  BY <1>2, SessionAssumption DEF Clear, Turns
<1> QED
  BY <1>1, <1>2

\* Nothing stands in the way of a terminal event once the last step of the last
\* turn is closed and no call of that turn is started.
LEMMA NothingOpen ==
  ASSUME Inv, NEW s \in Streams, NEW e, Clear(s, e), turns \in Turns,
         Ordered(s, e, turns), \A c \in Calls : e[turns][c] # "started",
         Len(s[turns]) > 0 => s[turns][Len(s[turns])].reply # "open",
         \A t \in Turns : t > turns => Fresh(s, e, t)
  PROVE  ~OpenWork(s, e)
<1>1. ASSUME NEW t \in Turns
      PROVE  /\ \A n \in DOMAIN s[t] : s[t][n].reply # "open"
             /\ \A c \in Calls : e[t][c] # "started"
  <2>0. s[t] \in Seq(StepRecords) /\ Len(s[t]) \in Nat /\ DOMAIN s[t] = 1..Len(s[t])
    BY StepTyped
  <2>1. CASE t < turns
    BY <2>0, <2>1 DEF Clear
  <2>2. CASE t > turns
    <3>1. s[t] = <<>> /\ \A c \in Calls : e[t][c] = "none"
      BY <2>2 DEF Fresh
    <3> QED
      BY <3>1
  <2>3. CASE t = turns
    <3>1. ASSUME NEW n \in 1..Len(s[t]) PROVE s[t][n].reply # "open"
      <4>1. n \in 1..(Len(s[t]) - 1) \/ (n = Len(s[t]) /\ Len(s[t]) > 0)
        BY <2>0
      <4> QED
        BY <2>3, <4>1 DEF Ordered
    <3> QED
      BY <2>0, <2>3, <3>1
  <2>4. t < turns \/ t > turns \/ t = turns
    BY SessionAssumption DEF Inv, StreamType, Turns
  <2> QED
    BY <2>1, <2>2, <2>3, <2>4
<1> QED
  BY <1>1 DEF OpenWork

\* What is left of a failure that replay refuses.
LEMMA FailsOn ==
  ASSUME Inv, NEW s, NEW e, Fail(s, e), terminal' = None
  PROVE  /\ terminal = None /\ cancellation = None /\ OpenWork(s, e)
         /\ steps' = s /\ exec' = e
BY NullAssumption DEF Fail, Settle

\* A failure ends the session as cancelled only if one was asked for and
\* nothing was started.
LEMMA FailsAsCancelled ==
  ASSUME Inv, NEW s, NEW e, Fail(s, e), terminal = None, terminal' \in {"completed", "cancelled"}
  PROVE  /\ cancellation # None /\ exec' = [t \in Turns |-> [c \in Calls |-> e[t][c]]]
         /\ OpenWork(s, e) /\ \A t \in Turns, c \in Calls : e[t][c] # "started"
<1>1. CASE cancellation # None /\ OpenWork(s, e)
  <2>1. Settle(s, e, cancellation)
    BY <1>1 DEF Fail
  <2>2. \A t \in Turns, c \in Calls : e[t][c] # "started"
    BY <2>1 DEF Settle
  <2>3. exec' = [t \in Turns |-> [c \in Calls |-> e[t][c]]]
    BY <2>1, <2>2 DEF Settle
  <2> QED
    BY <1>1, <2>2, <2>3
<1>2. CASE ~(cancellation # None /\ OpenWork(s, e))
  BY <1>2, NullAssumption DEF Fail
<1> QED
  BY <1>1, <1>2

LEMMA ExecIsTable ==
  ASSUME NEW e \in Executions PROVE e = [t \in Turns |-> [c \in Calls |-> e[t][c]]]
<1>1. \A t \in Turns : e[t] = [c \in Calls |-> e[t][c]]
  BY DEF Executions
<1> QED
  BY <1>1 DEF Executions

\* The outcome was recorded as in doubt by a runtime that then died.
InDoubt(tc) == exec[tc[1]][tc[2]] = "unanswered" /\ crashes > 0

\* While the first turn is the only one, what was dispatched and is not under
\* way was answered, or left in doubt.
LEMMA FinishedIsAnswered ==
  ASSUME Inv, WorkInv, crashes \in Nat, turns = 1,
         \A t \in Turns, c \in Calls : exec[t][c] # "started"
  PROVE  \A tc \in dispatched : exec[tc[1]][tc[2]] = "answered" \/ InDoubt(tc)
<1> SUFFICES ASSUME NEW tc \in dispatched
             PROVE  exec[tc[1]][tc[2]] = "answered" \/ InDoubt(tc)
  OBVIOUS
<1> DEFINE t == tc[1]
           c == tc[2]
<1>1. t \in Turns /\ c \in Calls /\ exec[t][c] # "none"
  BY DEF Inv, DispatchInv
<1> HIDE DEF t, c
<1>2. exec[t][c] \in CallStates
  BY <1>1 DEF Inv, StreamType, Executions
<1>3. t = 1
  <2>1. t > 1 => FALSE
    BY <1>1 DEF WorkInv, Fresh
  <2> QED
    BY <1>1, <2>1, SessionAssumption DEF Turns
<1>4. exec[t][c] = "answered" \/ (exec[t][c] = "unanswered" /\ crashes > 0)
  BY <1>1, <1>2, <1>3 DEF WorkInv, CallStates
<1> QED
  BY <1>4 DEF t, c, InDoubt

\* Settling ends the session, as cancelled only if all that was dispatched was
\* answered.
LEMMA SettleAnswers ==
  ASSUME Inv, OrderInv, terminal = None, NEW source, Settle(steps, exec, source)
  PROVE  terminal' # None /\ AnsweredStep
<1>1. terminal' \in {"failed", "cancelled"}
  BY DEF Settle
<1>2. terminal' # None
  BY <1>1, NullAssumption
<1>3. ASSUME turns = 1, terminal' \in {"completed", "cancelled"}
      PROVE  \A tc \in dispatched : exec'[tc[1]][tc[2]] = "answered" \/ InDoubt(tc)
  <2>1. \A t \in Turns, c \in Calls : exec[t][c] # "started"
    BY <1>3 DEF Settle
  <2>2. exec' = [t \in Turns |-> [c \in Calls |-> exec[t][c]]]
    BY <2>1 DEF Settle
  <2>3. exec' = exec
    BY <2>2, ExecIsTable DEF Inv, StreamType
  <2> QED
    BY <1>3, <2>1, <2>3, FinishedIsAnswered DEF OrderInv
<1> QED
  BY <1>2, <1>3 DEF AnsweredStep, InDoubt

\* Failing on the work as it stands, but for a step that was closed.
LEMMA FailAnswers ==
  ASSUME Inv, OrderInv, terminal = None, NEW s, Fail(s, exec)
  PROVE  AnsweredStep
<1> SUFFICES ASSUME turns = 1, terminal' \in {"completed", "cancelled"}
             PROVE  \A tc \in dispatched : exec'[tc[1]][tc[2]] = "answered" \/ InDoubt(tc)
  BY DEF AnsweredStep, InDoubt
<1>1. /\ exec' = [t \in Turns |-> [c \in Calls |-> exec[t][c]]]
      /\ \A t \in Turns, c \in Calls : exec[t][c] # "started"
  BY FailsAsCancelled
<1>2. exec' = exec
  BY <1>1, ExecIsTable DEF Inv, StreamType
<1> QED
  BY <1>1, <1>2, FinishedIsAnswered DEF OrderInv, InDoubt

LEMMA EndedStays ==
  ASSUME Inv, terminal # None, \/ DriveCatch \/ \E s, e : Fail(s, e)
  PROVE  terminal' = terminal
BY DEF DriveCatch, Fail

-----------------------------------------------------------------------------
(* The ends of a drive.                                                    *)

LEMMA EndsAlone ==
  ASSUME Inv, NEW r \in Runtimes, pc' = [pc EXCEPT ![r] = pc'[r]],
         r \in alone /\ turns > 0 /\ crashes' = crashes /\ Clear(steps, exec) => terminal' # None
  PROVE  EndedStep
<1> SUFFICES ASSUME NEW q \in Runtimes, ReturnsAlone(q), ~Abandoned
             PROVE  terminal' # None
  BY DEF EndedStep
<1>1. q = r
  BY DEF ReturnsAlone, Inv, MemoryType
<1>2. Clear(steps, exec)
  BY ClearIsNotAbandoned
<1> QED
  BY <1>1, <1>2 DEF ReturnsAlone

LEMMA WorkUnchanged ==
  ASSUME WorkInv, UNCHANGED <<turns, steps, exec>>, crashes' = 0 => crashes = 0
  PROVE  WorkInv'
BY DEF WorkInv, Ordered, Fresh

LEMMA LeaveOnly ==
  ASSUME Inv, NEW r \in Runtimes, Leave(r)
  PROVE  pc' = [pc EXCEPT ![r] = pc'[r]] /\ pc'[r] = "idle"
BY DEF Leave, Goto, Inv, MemoryType

\* The session has ended before.
LEMMA LeavesEnded ==
  ASSUME Inv, OrderInv, NEW r \in Runtimes, pc[r] # "idle", Leave(r),
         UNCHANGED <<turns, terminal>>, crashes' \in Nat, terminal # None
  PROVE  OrderInv' /\ AnsweredStep /\ EndedStep
<1>1. OrderInv'
  BY Leaves
<1>2. EndedStep
  <2>1. pc' = [pc EXCEPT ![r] = pc'[r]]
    BY LeaveOnly
  <2>2. r \in alone /\ turns > 0 /\ crashes' = crashes /\ Clear(steps, exec) => terminal' # None
    OBVIOUS
  <2> QED
    BY <2>1, <2>2, EndsAlone
<1> QED
  BY <1>1, <1>2 DEF AnsweredStep

LEMMA LeavesSettled ==
  ASSUME Inv, OrderInv, NEW r \in Runtimes, pc[r] # "idle", Leave(r),
         UNCHANGED <<turns, crashes>>, terminal = None,
         NEW source, Settle(steps, exec, source)
  PROVE  OrderInv' /\ AnsweredStep /\ EndedStep
<1>1. terminal' # None /\ AnsweredStep
  BY SettleAnswers
<1>2. crashes' \in Nat
  BY DEF OrderInv
<1>3. OrderInv'
  BY <1>1, <1>2, Leaves
<1>4. EndedStep
  <2>1. pc' = [pc EXCEPT ![r] = pc'[r]]
    BY LeaveOnly
  <2>2. r \in alone /\ turns > 0 /\ crashes' = crashes /\ Clear(steps, exec) => terminal' # None
    BY <1>1
  <2> QED
    BY <2>1, <2>2, EndsAlone
<1> QED
  BY <1>1, <1>3, <1>4

LEMMA LeavesFailed ==
  ASSUME Inv, OrderInv, NEW r \in Runtimes, pc[r] # "idle", Leave(r),
         UNCHANGED <<turns, crashes>>, terminal = None,
         NEW s \in Streams, Fail(s, exec),
         \A t \in Turns : Ordered(s, exec, t),
         \A t \in Turns : t > turns => Fresh(s, exec, t),
         r \in alone /\ cancellation = None /\ turns > 0 /\ Clear(steps, exec) =>
           ~OpenWork(s, exec)
  PROVE  OrderInv' /\ AnsweredStep /\ EndedStep
<1>1. AnsweredStep
  BY FailAnswers
<1>2. ASSUME terminal' = None
      PROVE  /\ WorkInv' /\ OpenWork(s, exec) /\ cancellation = None
  <2>1. steps' = s /\ exec' = exec /\ OpenWork(s, exec) /\ cancellation = None
    BY <1>2, FailsOn
  <2>2. WorkInv'
    BY <2>1 DEF OrderInv, WorkInv, Ordered, Fresh
  <2> QED
    BY <2>1, <2>2
<1>3. crashes' \in Nat
  BY DEF OrderInv
<1>4. OrderInv'
  BY <1>2, <1>3, Leaves
<1>5. EndedStep
  <2>1. pc' = [pc EXCEPT ![r] = pc'[r]]
    BY LeaveOnly
  <2>2. r \in alone /\ turns > 0 /\ crashes' = crashes /\ Clear(steps, exec) => terminal' # None
    BY <1>2
  <2> QED
    BY <2>1, <2>2, EndsAlone
<1> QED
  BY <1>1, <1>4, <1>5

\* Where a drive that works is, and what is under way there.
LEMMA AloneIsLast ==
  ASSUME Inv, OrderInv, NEW r \in alone, Working(r)
  PROVE  Turn(r) = turns /\ StepIndex(r) = Len(steps[turns])
BY DEF OrderInv, AtLast, AtWork, Working, Turn, StepIndex

LEMMA TurnIsThere ==
  ASSUME Inv, OrderInv, NEW r \in Runtimes, Working(r)
  PROVE  /\ Turn(r) \in Turns /\ Turn(r) <= turns /\ turns \in Turns
         /\ Ordered(steps, exec, Turn(r))
<1>1. Turn(r) \in Turns
  BY WorkFacts
<1>2. Turn(r) <= turns /\ turns \in Turns
  BY SessionAssumption
     DEF OrderInv, TurnsInv, AtWork, Working, Turn, Inv, StreamType, Turns
<1> QED
  BY <1>1, <1>2 DEF OrderInv, WorkInv, Working

LEMMA TurnsTyped ==
  ASSUME Inv, turns > 0
  PROVE  turns \in Turns
BY SessionAssumption DEF Inv, StreamType, Turns

LEMMA ClosedFacts ==
  ASSUME NEW s \in Streams, NEW u \in Turns, NEW n \in 1..Len(s[u])
  PROVE  LET s2 == CloseStep(s, u, n, "failed")
         IN  /\ s2 \in Streams /\ Len(s2[u]) = Len(s[u])
             /\ s2[u][n].reply # "open"
             /\ \A t \in Turns : t # u => s2[t] = s[t]
<1> DEFINE s2 == CloseStep(s, u, n, "failed")
           x == [s[u][n] EXCEPT !.reply = "failed"]
<1>1. s2 \in Streams /\ Len(s2[u]) = Len(s[u])
  BY CloseStepKeeps DEF Replies
<1>2. CASE s[u][n].reply = "open"
  <2>0. s[u] \in Seq(StepRecords) /\ s[u][n] \in StepRecords
    BY StepTyped
  <2>1. s2 = [s EXCEPT ![u] = [s[u] EXCEPT ![n] = x]]
    BY <1>2 DEF CloseStep
  <2>2. x.reply = "failed"
    BY <2>0 DEF StepRecords
  <2> HIDE DEF s2, x
  <2>3. s2[u] = [s[u] EXCEPT ![n] = x] /\ \A t \in Turns : t # u => s2[t] = s[t]
    BY <2>1 DEF Streams
  <2>4. s2[u][n] = x
    BY <2>0, <2>3
  <2> QED
    BY <1>1, <2>2, <2>3, <2>4 DEF s2
<1>3. CASE s[u][n].reply # "open"
  BY <1>1, <1>3 DEF CloseStep
<1> QED
  BY <1>2, <1>3

\* Failing after the last step of a turn was closed.
LEMMA LeavesClosed ==
  ASSUME Inv, OrderInv, NEW r \in Runtimes, pc[r] # "idle", Leave(r),
         UNCHANGED <<turns, crashes>>, terminal = None,
         NEW u \in Turns, u <= turns, NEW n \in 1..Len(steps[u]),
         Fail(CloseStep(steps, u, n, "failed"), exec),
         r \in alone /\ cancellation = None =>
           u = turns /\ n = Len(steps[u]) /\ \A c \in Calls : exec[u][c] # "started"
  PROVE  OrderInv' /\ AnsweredStep /\ EndedStep
<1> DEFINE s2 == CloseStep(steps, u, n, "failed")
<1>0. steps \in Streams /\ WorkInv
  BY DEF Inv, StreamType, OrderInv
<1>1. /\ s2 \in Streams /\ Len(s2[u]) = Len(steps[u])
      /\ s2[u][n].reply # "open"
      /\ \A t \in Turns : t # u => s2[t] = steps[t]
  BY <1>0, ClosedFacts
<1>2. \A t \in Turns : Ordered(s2, exec, t)
  BY <1>0, ClosedOrdered DEF WorkInv
<1> HIDE DEF s2
<1>3. \A t \in Turns : t > turns => Fresh(s2, exec, t)
  <2> SUFFICES ASSUME NEW t \in Turns, t > turns PROVE Fresh(s2, exec, t)
    OBVIOUS
  <2>1. t # u
    BY SessionAssumption DEF Turns, Inv, StreamType
  <2>2. s2[t] = steps[t] /\ Fresh(steps, exec, t)
    BY <1>0, <1>1, <2>1 DEF WorkInv
  <2> QED
    BY <2>2 DEF Fresh
<1>4. ASSUME r \in alone, cancellation = None, turns > 0, Clear(steps, exec)
      PROVE  ~OpenWork(s2, exec)
  <2>1. Clear(s2, exec)
    <3> SUFFICES ASSUME NEW t \in Turns, t < turns
                 PROVE  /\ \A m \in 1..Len(s2[t]) : s2[t][m].reply # "open"
                        /\ \A c \in Calls : exec[t][c] # "started"
      BY DEF Clear
    <3>1. t # u
      BY <1>4, SessionAssumption DEF Turns, Inv, StreamType
    <3>2. s2[t] = steps[t]
      BY <1>1, <3>1
    <3> QED
      BY <1>4, <3>2 DEF Clear
  <2>2. u = turns /\ n = Len(steps[u]) /\ \A c \in Calls : exec[u][c] # "started"
    BY <1>4
  <2> QED
    BY <1>1, <1>2, <1>3, <2>1, <2>2, NothingOpen
<1>5. Fail(s2, exec)
  BY DEF s2
<1> QED
  BY <1>1, <1>2, <1>3, <1>4, <1>5, LeavesFailed

-----------------------------------------------------------------------------
(* The steps that leave, one by one.                                       *)

LEMMA StartedIsNext ==
  ASSUME Inv, OrderInv, NEW r \in Runtimes, Working(r), HasStep(r),
         StepIndex(r) = Len(steps[Turn(r)]), NEW c \in Calls, exec[Turn(r)][c] = "started"
  PROVE  Step(r).reply = "tools" /\ Pending(r) # {} /\ NextCall(r) = c
<1> DEFINE t == Turn(r)
           last == steps[t][Len(steps[t])]
<1>1. Ordered(steps, exec, t) /\ Step(r) = last /\ Outcomes(r) = exec[t]
  BY TurnIsThere DEF Step, Outcomes
<1>2. PICK k \in DOMAIN last.calls :
        /\ last.calls[k] = c
        /\ \A j \in DOMAIN last.calls : j < k => exec[t][last.calls[j]] \in Settled
  BY <1>1 DEF Ordered
<1>3. Step(r).reply = "tools"
  BY <1>1 DEF Ordered
<1> HIDE DEF t, last
<1>4. k \in Pending(r)
  BY <1>1, <1>2 DEF Pending, t
<1>5. PICK n \in Pending(r) :
        /\ \A m \in Pending(r) : n <= m
        /\ n \in DOMAIN Step(r).calls
        /\ NextCall(r) = Step(r).calls[n]
        /\ Outcomes(r)[NextCall(r)] \in {"none", "started"}
  BY <1>4, NextCallFacts
<1>6. n <= k /\ ~(n < k)
  BY <1>1, <1>2, <1>4, <1>5 DEF Settled
<1>7. n \in Nat /\ k \in Nat
  <2>1. Step(r).calls \in Seq(Calls)
    BY WorkFacts, StepTyped DEF Inv, StreamType, Step
  <2> QED
    BY <1>1, <1>2, <1>5, <2>1
<1>8. n = k
  BY <1>6, <1>7
<1> QED
  BY <1>1, <1>2, <1>3, <1>4, <1>5, <1>8

LEMMA StopsOrder ==
  ASSUME Inv, OrderInv, NEW r \in Runtimes, DriveStops(r) \/ Crash(r)
  PROVE  OrderInv' /\ AnsweredStep /\ EndedStep
<1>1. /\ pc[r] # "idle" /\ Leave(r) /\ UNCHANGED <<turns, steps, exec, terminal>>
      /\ crashes' \in Nat /\ (crashes' = 0 => crashes = 0)
  BY DEF DriveStops, Crash, durable, OrderInv
<1>2. OrderInv'
  <2>1. terminal' = None => terminal = None /\ WorkInv'
    BY <1>1, WorkUnchanged DEF OrderInv
  <2> QED
    BY <1>1, <2>1, Leaves
<1>3. AnsweredStep
  BY <1>1, NullAssumption DEF AnsweredStep
<1>4. EndedStep
  <2>1. pc' = [pc EXCEPT ![r] = pc'[r]]
    BY <1>1, LeaveOnly
  <2>2. ASSUME turns > 0, crashes' = crashes PROVE terminal' # None
    <3>1. CASE DriveStops(r)
      BY <1>1, <2>2, <3>1 DEF DriveStops, Inv, StreamType
    <3>2. CASE Crash(r)
      <4>1. crashes' = crashes + 1 /\ crashes \in Nat
        BY <3>2 DEF Crash, OrderInv
      <4> QED
        BY <2>2, <4>1
    <3> QED
      BY <3>1, <3>2
  <2> QED
    BY <2>1, <2>2, EndsAlone
<1> QED
  BY <1>2, <1>3, <1>4

LEMMA DriveFailsOrder ==
  ASSUME Inv, OrderInv, NEW r \in Runtimes, DriveFails(r)
  PROVE  OrderInv' /\ AnsweredStep /\ EndedStep
<1>1. /\ Working(r) /\ pc[r] # "idle" /\ terminal = None /\ Leave(r)
      /\ Fail(steps, exec) /\ UNCHANGED <<turns, crashes>>
  BY DEF DriveFails, Working
<1>2. steps \in Streams /\ WorkInv
  BY <1>1 DEF Inv, StreamType, OrderInv
<1>3. ASSUME r \in alone, Clear(steps, exec) PROVE ~OpenWork(steps, exec)
  <2>1. Turn(r) = turns /\ StepIndex(r) = Len(steps[turns]) /\ turns \in Turns
    BY <1>1, <1>3, AloneIsLast, TurnIsThere
  <2>2. Ordered(steps, exec, turns)
    BY <1>2, <2>1 DEF WorkInv
  <2>3. Len(steps[turns]) \in Nat
    BY <1>2, <2>1, StepTyped
  <2>4. HasStep(r) <=> Len(steps[turns]) > 0
    BY <2>1 DEF HasStep
  <2>5. HasStep(r) => Step(r) = steps[turns][Len(steps[turns])]
    BY <2>1 DEF Step
  <2>6. Len(steps[turns]) > 0 => steps[turns][Len(steps[turns])].reply \in {"stop", "tools"}
    BY <2>4, <2>5 DEF DriveFails
  <2>7. ASSUME NEW c \in Calls, exec[turns][c] = "started" PROVE FALSE
    <3>1. Len(steps[turns]) > 0
      BY <2>2, <2>7 DEF Ordered
    <3>2. Step(r).reply = "tools" /\ Pending(r) # {} /\ NextCall(r) = c
      BY <1>1, <2>1, <2>4, <2>7, <3>1, StartedIsNext
    <3>3. Outcomes(r)[NextCall(r)] = "none"
      BY <2>4, <3>1, <3>2 DEF DriveFails
    <3> QED
      BY <2>1, <2>7, <3>2, <3>3 DEF Outcomes
  <2> QED
    BY <1>2, <1>3, <2>1, <2>2, <2>6, <2>7, NothingOpen DEF WorkInv
<1> QED
  BY <1>1, <1>2, <1>3, LeavesFailed DEF WorkInv

\* Closing or concluding the step a drive is at.
LEMMA ConcludesOrder ==
  ASSUME Inv, OrderInv, NEW r \in Runtimes, FailInterrupted(r) \/ ConcludeTurn(r)
  PROVE  OrderInv' /\ AnsweredStep /\ EndedStep
<1>1. /\ Working(r) /\ HasStep(r) /\ pc[r] # "idle" /\ terminal = None /\ Leave(r)
      /\ UNCHANGED <<turns, crashes>>
  BY DEF FailInterrupted, ConcludeTurn, Working
<1>2. steps \in Streams /\ exec \in Executions /\ WorkInv
  BY <1>1 DEF Inv, StreamType, OrderInv
<1>3. /\ Turn(r) \in Turns /\ Turn(r) <= turns /\ turns \in Turns
      /\ StepIndex(r) \in 1..Len(steps[Turn(r)])
      /\ Ordered(steps, exec, Turn(r))
  BY <1>1, TurnIsThere, WorkFacts
<1>4. r \in alone => Turn(r) = turns /\ StepIndex(r) = Len(steps[turns])
  BY <1>1, AloneIsLast
<1>5. CASE FailInterrupted(r)
  <2>1. /\ steps[Turn(r)][StepIndex(r)].reply = "open"
        /\ Fail(CloseStep(steps, Turn(r), StepIndex(r), "failed"), exec)
    BY <1>5 DEF FailInterrupted, Step
  <2>2. \A c \in Calls : exec[Turn(r)][c] # "started"
    BY <1>2, <1>3, <2>1, OpenIsLast
  <2> QED
    BY <1>1, <1>3, <1>4, <2>1, <2>2, LeavesClosed
<1>6. CASE ConcludeTurn(r)
  <2>1. Step(r).reply \in {"stop", "failed"}
    BY <1>6 DEF ConcludeTurn
  <2>2. ASSUME r \in alone, Clear(steps, exec) PROVE ~OpenWork(steps, exec)
    <3>1. Step(r) = steps[turns][Len(steps[turns])] /\ Ordered(steps, exec, turns)
      BY <1>3, <1>4, <2>2 DEF Step
    <3>2. \A c \in Calls : exec[turns][c] # "started"
      BY <2>1, <3>1 DEF Ordered
    <3> QED
      BY <1>2, <1>3, <2>1, <2>2, <3>1, <3>2, NothingOpen DEF WorkInv
  <2>3. CASE Fail(steps, exec)
    BY <1>1, <1>2, <2>2, <2>3, LeavesFailed DEF WorkInv
  <2>4. CASE terminal' = "completed" /\ UNCHANGED <<steps, exec>> /\ ~OpenWork(steps, exec)
    <3>1. terminal' # None
      BY <2>4, NullAssumption
    <3>2. OrderInv'
      BY <1>1, <3>1, Leaves DEF OrderInv
    <3>3. EndedStep
      BY <1>1, <3>1, LeaveOnly, EndsAlone
    <3>4. \A t \in Turns, c \in Calls : exec[t][c] # "started"
      BY <2>4 DEF OpenWork
    <3>5. AnsweredStep
      BY <1>2, <2>4, <3>4, FinishedIsAnswered DEF AnsweredStep, InDoubt, OrderInv
    <3> QED
      BY <3>2, <3>3, <3>5
  <2> QED
    BY <1>6, <2>3, <2>4 DEF ConcludeTurn
<1> QED
  BY <1>5, <1>6

LEMMA SettlesOrder ==
  ASSUME Inv, OrderInv, NEW r \in Runtimes, DriveSettles(r) \/ ConcludeCancelled(r)
  PROVE  OrderInv' /\ AnsweredStep /\ EndedStep
<1>1. /\ pc[r] # "idle" /\ terminal = None /\ Leave(r) /\ UNCHANGED <<turns, crashes>>
      /\ \E source : Settle(steps, exec, source)
  BY DEF DriveSettles, ConcludeCancelled, Working
<1> QED
  BY <1>1, LeavesSettled

LEMMA StreamsOrder ==
  ASSUME Inv, OrderInv, NEW r \in Runtimes, StreamEnds(r) \/ StreamBreaks(r)
  PROVE  OrderInv' /\ AnsweredStep /\ EndedStep
<1> DEFINE u == at[r].turn
           n == at[r].step
<1>1. /\ pc[r] = "streaming" /\ Leave(r) /\ UNCHANGED <<turns, crashes>>
      /\ \/ Fail(CloseStep(steps, u, n, "failed"), exec)
         \/ terminal = None /\ Settle(steps, exec, cancellation)
  BY DEF StreamEnds, StreamBreaks
<1>2. u \in Turns /\ n \in 1..Len(steps[u]) /\ pc[r] # "idle"
  BY <1>1 DEF Inv, MemoryType
<1>3. CASE terminal # None
  <2>1. terminal' = terminal
    BY <1>1, <1>3, EndedStays
  <2>2. crashes' \in Nat
    BY <1>1 DEF OrderInv
  <2> QED
    BY <1>1, <1>2, <1>3, <2>1, <2>2, LeavesEnded
<1>4. CASE terminal = None /\ Settle(steps, exec, cancellation)
  BY <1>1, <1>2, <1>4, LeavesSettled
<1>5. CASE terminal = None /\ Fail(CloseStep(steps, u, n, "failed"), exec)
  <2>1. u <= turns /\ WorkInv
    BY <1>1, <1>5 DEF OrderInv, TurnsInv, AtWork
  <2>2. ASSUME r \in alone, cancellation = None
        PROVE  u = turns /\ n = Len(steps[u]) /\ \A c \in Calls : exec[u][c] # "started"
    <3>1. u = turns /\ n = Len(steps[turns]) /\ steps[turns][n].reply = "open"
      BY <1>1, <1>5, <2>2 DEF OrderInv, AtLast, AtWork
    <3>2. steps \in Streams /\ Ordered(steps, exec, u)
      BY <1>2, <2>1 DEF Inv, StreamType, WorkInv
    <3> HIDE DEF u, n
    <3> QED
      BY <1>2, <3>1, <3>2, OpenIsLast
  <2> HIDE DEF u, n
  <2> QED
    BY <1>1, <1>2, <1>5, <2>1, <2>2, LeavesClosed
<1> QED
  BY <1>1, <1>3, <1>4, <1>5

\* The catch of a drive that does not have the session to itself.
LEMMA CatchOrder ==
  ASSUME Inv, OrderInv, NEW r \in Runtimes, pc[r] # "idle", Leave(r),
         UNCHANGED <<turns, crashes>>, DriveCatch,
         terminal = None /\ cancellation = None => r \notin alone
  PROVE  OrderInv' /\ AnsweredStep /\ EndedStep
<1>1. CASE terminal # None
  <2>1. terminal' = terminal
    BY <1>1, EndedStays
  <2>2. crashes' \in Nat
    BY DEF OrderInv
  <2> QED
    BY <1>1, <2>1, <2>2, LeavesEnded
<1>2. CASE terminal = None /\ cancellation # None
  BY <1>2, LeavesSettled DEF DriveCatch
<1>3. CASE terminal = None /\ cancellation = None
  BY <1>3, LeavesFailed DEF DriveCatch, OrderInv, WorkInv, Inv, StreamType
<1> QED
  BY <1>1, <1>2, <1>3

\* The call that failed was the only work under way, unless an older turn was
\* left with some.
LEMMA MarkedClear ==
  ASSUME Inv, OrderInv, NEW r \in Runtimes, pc[r] = "tool", Awaited(r),
         at[r].turn = turns, Clear(steps, exec)
  PROVE  ~OpenWork(steps, [exec EXCEPT ![at[r].turn][at[r].call] = "unanswered"])
<1> DEFINE t == at[r].turn
           c == at[r].call
           e == [exec EXCEPT ![t][c] = "unanswered"]
<1>1. /\ t \in Turns /\ c \in Calls /\ exec[t][c] = "started" /\ t = turns
      /\ steps \in Streams /\ exec \in Executions
  BY DEF Awaited, Inv, MemoryType, StreamType
<1>2. WorkInv /\ Ordered(steps, exec, t)
  BY <1>1 DEF Awaited, OrderInv, WorkInv
<1>3. Len(steps[t]) > 0 /\ steps[t][Len(steps[t])].reply = "tools"
  BY <1>1, <1>2 DEF Ordered
<1> HIDE DEF t, c
<1>4. /\ \A d \in Calls : e[t][d] # "started"
      /\ \A u \in Turns : u # t => e[u] = exec[u]
  <2>1. \A d \in Calls : e[t][d] = IF d = c THEN "unanswered" ELSE exec[t][d]
    BY <1>1 DEF Executions
  <2>2. \A u \in Turns : u # t => e[u] = exec[u]
    BY <1>1 DEF Executions
  <2> HIDE DEF e
  <2> QED
    BY <1>1, <1>2, <2>1, <2>2, OneStarted
<1>5. Ordered(steps, e, t)
  BY <1>1, <1>2, MarkedOrdered DEF Settled
<1> HIDE DEF e
<1>6. Clear(steps, e)
  BY <1>1, <1>4, SessionAssumption DEF Clear, Turns
<1>7. \A u \in Turns : u > turns => Fresh(steps, e, u)
  <2> SUFFICES ASSUME NEW u \in Turns, u > turns PROVE Fresh(steps, e, u)
    OBVIOUS
  <2>1. u # t
    BY <1>1, SessionAssumption DEF Turns
  <2> QED
    BY <1>2, <1>4, <2>1 DEF WorkInv, Fresh
<1>8. ~OpenWork(steps, e)
  BY <1>1, <1>3, <1>4, <1>5, <1>6, <1>7, NothingOpen
<1> QED
  BY <1>8 DEF e, t, c

LEMMA ToolThrowsOrder ==
  ASSUME Inv, OrderInv, NEW r \in Runtimes, ToolThrows(r)
  PROVE  OrderInv' /\ AnsweredStep /\ EndedStep
<1>1. pc[r] = "tool" /\ pc[r] # "idle" /\ Leave(r) /\ UNCHANGED <<turns, crashes>>
  BY DEF ToolThrows
<1>2. CASE ~Awaited(r)
  <2>1. DriveCatch
    BY <1>2 DEF ToolThrows
  <2>2. terminal = None /\ cancellation = None => r \notin alone
    BY <1>1, <1>2 DEF Awaited, OrderInv, AtLast, AtWork
  <2> QED
    BY <1>1, <2>1, <2>2, CatchOrder
<1>3. CASE Awaited(r)
  <2> DEFINE t == at[r].turn
             c == at[r].call
             e == [exec EXCEPT ![t][c] = "unanswered"]
  <2>1. Fail(steps, e) /\ terminal = None
    BY <1>3 DEF ToolThrows, Awaited
  <2>2. /\ t \in Turns /\ c \in Calls /\ t <= turns /\ WorkInv
        /\ steps \in Streams /\ exec \in Executions
    BY <1>1, <2>1 DEF Inv, MemoryType, StreamType, OrderInv, TurnsInv, AtWork
  <2>3. t = turns /\ Clear(steps, exec) => ~OpenWork(steps, e)
    BY <1>1, <1>3, MarkedClear
  <2>4. turns = 1 => ~OpenWork(steps, e)
    <3>1. turns = 1 => t = turns
      BY <2>2, SessionAssumption DEF Turns
    <3> QED
      BY <2>3, <3>1, ClearIsNotAbandoned
  <2>5. Ordered(steps, e, t)
    BY <2>2, MarkedOrdered DEF Settled, WorkInv
  <2>6. \A u \in Turns \ {t} : e[u] = exec[u]
    BY <2>2 DEF Executions
  <2> HIDE DEF t, c, e
  <2>7. ASSUME terminal' = None PROVE WorkInv' /\ OpenWork(steps, e)
    <3>1. steps' = steps /\ exec' = e /\ OpenWork(steps, e)
      BY <2>1, <2>7, FailsOn
    <3>2. WorkInv'
      BY <1>1, <2>2, <2>4, <2>5, <2>6, <3>1, WorkAt
    <3> QED
      BY <3>1, <3>2
  <2>8. OrderInv'
    <3>1. crashes' \in Nat
      BY <1>1 DEF OrderInv
    <3> QED
      BY <1>1, <2>1, <2>7, <3>1, Leaves
  <2>9. AnsweredStep
    BY <2>1, <2>4, FailsAsCancelled DEF AnsweredStep
  <2>10. EndedStep
    <3>1. r \in alone => t = turns
      BY <1>1, <2>1 DEF OrderInv, AtLast, AtWork, t
    <3>2. pc' = [pc EXCEPT ![r] = pc'[r]]
      BY <1>1, LeaveOnly
    <3> QED
      BY <2>3, <2>7, <3>1, <3>2, EndsAlone
  <2> QED
    BY <2>8, <2>9, <2>10
<1> QED
  BY <1>2, <1>3

-----------------------------------------------------------------------------
(* The steps that go on, one by one.                                       *)

\* A step of the drive that leaves neither the session nor the drive.
LEMMA GoingOn ==
  ASSUME Inv, OrderInv, terminal = None, NEW r \in Runtimes, pc[r] # "idle", pc'[r] # "idle",
         Moves(r), UNCHANGED <<turns, alone, crashes, terminal>>, WorkInv',
         pc'[r] \in AtWork => at'[r].turn <= turns,
         r \in alone => AtLast(r)'
  PROVE  OrderInv' /\ AnsweredStep /\ EndedStep
<1>1. OrderInv'
  BY GoesOn DEF Moves
<1>2. EndedStep
  <2>1. ASSUME NEW q \in Runtimes, pc'[q] = "idle" PROVE pc[q] = "idle"
    BY <2>1 DEF Moves, Inv, MemoryType
  <2> QED
    BY <2>1 DEF EndedStep, ReturnsAlone
<1>3. AnsweredStep
  BY NullAssumption DEF AnsweredStep
<1> QED
  BY <1>1, <1>2, <1>3

\* A call waits for its outcome at the last step of its turn only.
LEMMA PendingIsLast ==
  ASSUME Inv, OrderInv, NEW r \in Runtimes, Working(r), HasStep(r), Pending(r) # {}
  PROVE  StepIndex(r) = Len(steps[Turn(r)])
<1>1. /\ Ordered(steps, exec, Turn(r)) /\ StepIndex(r) \in 1..Len(steps[Turn(r)])
      /\ steps[Turn(r)] \in Seq(StepRecords)
  BY TurnIsThere, WorkFacts
<1>2. ASSUME StepIndex(r) \in 1..(Len(steps[Turn(r)]) - 1) PROVE FALSE
  <2>1. \A k \in DOMAIN Step(r).calls : Outcomes(r)[Step(r).calls[k]] \in Settled
    BY <1>1, <1>2 DEF Ordered, Step, Outcomes
  <2> QED
    BY <2>1 DEF Pending, Settled
<1> QED
  BY <1>1, <1>2

\* The first step of a turn is all the work that is under way in it.
LEMMA StartedWork ==
  ASSUME Inv, OrderInv, NEW r \in Runtimes, Working(r), ~HasStep(r),
         steps' = [steps EXCEPT ![Turn(r)] = <<OpenStep>>],
         UNCHANGED <<turns, exec, crashes>>
  PROVE  /\ WorkInv' /\ Turn(r) = turns /\ turns \in Turns
         /\ steps'[turns] = <<OpenStep>>
<1> DEFINE u == Turn(r)
<1>2. /\ u \in Turns /\ u <= turns /\ turns \in Turns /\ Ordered(steps, exec, u)
      /\ steps \in Streams /\ WorkInv
  BY TurnIsThere DEF OrderInv, Inv, StreamType, Working
<1>3. pc[r] = "ready" /\ u = turns
  <2>1. CASE pc[r] = "calls"
    <3>1. at[r].step \in 1..Len(steps[at[r].turn])
      BY <2>1 DEF Inv, MemoryType
    <3>2. Len(steps[at[r].turn]) \in Nat
      BY <1>2, <2>1, StepTyped DEF Turn
    <3>3. HasStep(r)
      BY <2>1, <3>1, <3>2 DEF HasStep, StepIndex
    <3> QED
      BY <3>3
  <2> QED
    BY <2>1 DEF Working, Turn
<1>4. Len(steps[u]) = 0
  <2>1. Len(steps[u]) \in Nat
    BY <1>2, StepTyped
  <2> QED
    BY <1>3, <2>1 DEF HasStep, StepIndex
<1>5. \A c \in Calls : exec[u][c] # "started"
  BY <1>2, <1>4 DEF Ordered
<1>6. steps' = [steps EXCEPT ![u] = <<OpenStep>>]
  OBVIOUS
<1> HIDE DEF u
<1>8. steps'[u] = <<OpenStep>> /\ \A t \in Turns \ {u} : steps'[t] = steps[t]
  BY <1>2, <1>6 DEF Streams
<1>9. Len(steps'[u]) = 1
  BY <1>8
<1>10. WorkInv'
  <2>1. Ordered(steps', exec', u)
    <3>1. \A n \in 1..(Len(steps'[u]) - 1) : FALSE
      <4> DEFINE len == Len(steps'[u])
      <4>1. len = 1
        BY <1>9
      <4> HIDE DEF len
      <4>2. \A n \in 1..(len - 1) : FALSE
        BY <4>1
      <4> QED
        BY <4>2 DEF len
    <3>2. \A c \in Calls : exec'[u][c] # "started"
      BY <1>5
    <3> QED
      BY <3>1, <3>2 DEF Ordered
  <2> QED
    BY <1>2, <1>8, <2>1, WorkAt DEF WorkInv
<1> QED
  BY <1>2, <1>3, <1>8, <1>10 DEF u

LEMMA StartStepOrder ==
  ASSUME Inv, OrderInv, NEW r \in Runtimes, StartStep(r)
  PROVE  OrderInv' /\ AnsweredStep /\ EndedStep
<1> DEFINE u == Turn(r)
<1>1. /\ Working(r) /\ ~HasStep(r) /\ terminal = None /\ pc[r] # "idle"
      /\ steps' = [steps EXCEPT ![u] = <<OpenStep>>]
      /\ pc' = [pc EXCEPT ![r] = "streaming"]
      /\ at' = [at EXCEPT ![r] = [Nowhere EXCEPT !.turn = u, !.step = 1]]
      /\ UNCHANGED <<turns, exec, terminal, alone, crashes>>
  BY DEF StartStep, Working, Goto
<1>2. WorkInv' /\ u = turns /\ turns \in Turns /\ steps'[turns] = <<OpenStep>>
  BY <1>1, StartedWork
<1>3. turns <= turns
  BY SessionAssumption DEF Inv, StreamType
<1>6. /\ pc'[r] = "streaming" /\ at'[r] = [Nowhere EXCEPT !.turn = u, !.step = 1]
  BY <1>1 DEF Inv, MemoryType
<1>7. at'[r].turn = u /\ at'[r].step = 1
  BY <1>6 DEF Nowhere
<1>9. Len(steps'[turns]) = 1 /\ steps'[turns][1].reply = "open"
  BY <1>2 DEF OpenStep
<1> HIDE DEF u
<1>11. AtLast(r)'
  BY <1>1, <1>2, <1>6, <1>7, <1>9 DEF AtLast
<1> QED
  BY <1>1, <1>2, <1>3, <1>6, <1>7, <1>11, StartStepFacts, GoingOn

\* A drive without the provider leaves its step unopened.
LEMMA ProviderMissingOrder ==
  ASSUME Inv, OrderInv, NEW r \in Runtimes, ProviderMissing(r)
  PROVE  OrderInv' /\ AnsweredStep /\ EndedStep
<1>1. /\ Working(r) /\ r \in Unequipped /\ pc[r] # "idle" /\ terminal = None /\ Leave(r)
      /\ UNCHANGED <<turns, exec, terminal, crashes>>
  BY DEF ProviderMissing, Working
<1>2. crashes' \in Nat
  BY <1>1 DEF OrderInv
<1>3. AnsweredStep
  BY <1>1, NullAssumption DEF AnsweredStep
<1>4. WorkInv' /\ (r \in alone => Unopened')
  <2>1. CASE ~HasStep(r) /\ steps' = [steps EXCEPT ![Turn(r)] = <<OpenStep>>]
    <3>1. WorkInv' /\ turns \in Turns /\ steps'[turns] = <<OpenStep>>
      BY <1>1, <2>1, StartedWork
    <3>2. turns > 0 /\ turns' = turns
      BY <1>1 DEF Working
    <3>3. Unopened'
      <4> DEFINE q == steps'[turns]
      <4>1. q = <<OpenStep>>
        BY <3>1
      <4> HIDE DEF q
      <4>2. /\ q # <<>> /\ q[Len(q)] = OpenStep
        BY <4>1
      <4>3. OpenStep.reply = "open" /\ OpenStep.events = 0
        BY DEF OpenStep
      <4> HIDE DEF OpenStep
      <4> QED
        BY <3>2, <4>2, <4>3 DEF Unopened, Last, q
    <3> QED
      BY <3>1, <3>3
  <2>2. CASE /\ HasStep(r) /\ Step(r).reply = "open" /\ Step(r).events = 0
             /\ steps' = steps
    <3>1. WorkInv'
      BY <1>1, <2>2, WorkUnchanged DEF OrderInv
    <3>2. ASSUME r \in alone PROVE Unopened'
      <4>1. Turn(r) = turns /\ StepIndex(r) = Len(steps[turns]) /\ turns > 0
        BY <1>1, <3>2, AloneIsLast DEF Working
      <4>2. Len(steps[turns]) > 0
        BY <2>2, <4>1 DEF HasStep
      <4>3. Last(steps[turns]) = Step(r) /\ steps[turns] # <<>>
        BY <4>1, <4>2 DEF Last, Step
      <4> QED
        BY <1>1, <2>2, <4>1, <4>3 DEF Unopened
    <3> QED
      BY <3>1, <3>2
  <2> QED
    BY <2>1, <2>2 DEF ProviderMissing
<1>5. OrderInv'
  BY <1>1, <1>2, <1>4, Leaves
<1>6. EndedStep
  <2>1. \A q \in Runtimes : ReturnsAlone(q) => q = r
    BY <1>1, LeaveOnly DEF ReturnsAlone, Inv, MemoryType
  <2> QED
    BY <1>1, <1>4, <2>1 DEF EndedStep, ReturnsAlone
<1> QED
  BY <1>3, <1>5, <1>6

LEMMA OpenStreamOrder ==
  ASSUME Inv, OrderInv, NEW r \in Runtimes, OpenStream(r)
  PROVE  OrderInv' /\ AnsweredStep /\ EndedStep
<1>1. /\ Working(r) /\ HasStep(r) /\ Step(r).reply = "open" /\ terminal = None /\ pc[r] # "idle"
      /\ pc' = [pc EXCEPT ![r] = "streaming"]
      /\ at' = [at EXCEPT ![r] = [Nowhere EXCEPT !.turn = Turn(r), !.step = Len(steps[Turn(r)])]]
      /\ UNCHANGED <<turns, steps, exec, terminal, alone, crashes>>
  BY DEF OpenStream, Working, Goto, durable
<1>2. pc'[r] = "streaming" /\ at'[r].turn = Turn(r) /\ at'[r].step = Len(steps[Turn(r)])
  <2>1. at'[r] = [Nowhere EXCEPT !.turn = Turn(r), !.step = Len(steps[Turn(r)])]
    BY <1>1 DEF Inv, MemoryType
  <2> QED
    BY <1>1, <2>1 DEF Nowhere, Inv, MemoryType
<1>3. Turn(r) <= turns
  BY <1>1, TurnIsThere
<1>4. WorkInv'
  BY <1>1, WorkUnchanged DEF OrderInv
<1>5. r \in alone => AtLast(r)'
  <2>1. r \in alone => Turn(r) = turns /\ StepIndex(r) = Len(steps[turns])
    BY <1>1, AloneIsLast
  <2> QED
    BY <1>1, <1>2, <2>1 DEF AtLast, Step
<1> QED
  BY <1>1, <1>2, <1>3, <1>4, <1>5, OpenStreamFacts, GoingOn

\* A call that is started is the first of its step without an outcome.
LEMMA DispatchedWork ==
  ASSUME Inv, OrderInv, NEW r \in Runtimes, Working(r), HasStep(r), Step(r).reply = "tools",
         Pending(r) # {}, exec' = [exec EXCEPT ![Turn(r)][NextCall(r)] = "started"],
         UNCHANGED <<turns, steps>>, crashes' = 0 => crashes = 0
  PROVE  WorkInv' /\ NextCall(r) \in Calls /\ exec'[Turn(r)][NextCall(r)] = "started"
<1> DEFINE t == Turn(r)
           d == NextCall(r)
           last == steps[t][Len(steps[t])]
<1>1. /\ Working(r) /\ HasStep(r) /\ Step(r).reply = "tools" /\ Pending(r) # {}
      /\ terminal = None /\ exec' = [exec EXCEPT ![t][d] = "started"]
      /\ UNCHANGED <<turns, steps>>
  BY DEF Working
<1>2. /\ t \in Turns /\ t <= turns /\ turns \in Turns /\ Ordered(steps, exec, t)
      /\ steps \in Streams /\ exec \in Executions /\ WorkInv
  BY <1>1, TurnIsThere DEF OrderInv, Inv, StreamType
<1>3. StepIndex(r) = Len(steps[t]) /\ Len(steps[t]) > 0 /\ Step(r) = last
  BY <1>1, PendingIsLast DEF HasStep, Step
<1>4. PICK n \in Pending(r) :
        /\ \A m \in Pending(r) : n <= m
        /\ n \in DOMAIN Step(r).calls
        /\ d = Step(r).calls[n]
        /\ d \in Calls
  BY <1>1, NextCallFacts
<1>5. \A c \in Calls : exec[t][c] = "started" => c = d
  BY <1>1, <1>3, StartedIsNext
<1>6. last.calls \in Seq(Calls) /\ Len(steps[t]) \in Nat
  <2>1. Len(steps[t]) \in Nat
    BY <1>2, StepTyped
  <2>2. Len(steps[t]) \in 1..Len(steps[t])
    BY <1>3, <2>1
  <2> QED
    BY <1>2, <2>1, <2>2, StepTyped
<1>7. \A j \in DOMAIN last.calls : j < n => exec[t][last.calls[j]] \in Settled
  <2> SUFFICES ASSUME NEW j \in DOMAIN last.calls, j < n
               PROVE  exec[t][last.calls[j]] \in Settled
    OBVIOUS
  <2>1. j \notin Pending(r)
    BY <1>3, <1>4, <1>6
  <2>2. exec[t][last.calls[j]] \in CallStates
    BY <1>2, <1>6 DEF Executions
  <2> QED
    BY <1>3, <2>1, <2>2 DEF Pending, Outcomes, CallStates, Settled
<1> HIDE DEF t, d
<1>10. /\ \A u \in Turns \ {t} : exec'[u] = exec[u]
       /\ \A c \in Calls : exec'[t][c] = IF c = d THEN "started" ELSE exec[t][c]
  BY <1>1, <1>2 DEF Executions
<1>11. /\ \A j \in DOMAIN last.calls : j < n => exec'[t][last.calls[j]] \in Settled
       /\ \A m \in 1..(Len(steps[t]) - 1) : \A k \in DOMAIN steps[t][m].calls :
            exec'[t][steps[t][m].calls[k]] \in Settled
  <2>1. exec[t][d] \notin Settled
    <3>1. Outcomes(r)[d] \in {"none", "started"}
      BY <1>4 DEF Pending
    <3> QED
      BY <3>1 DEF Outcomes, Settled, t
  <2>2. \A c \in Calls : exec[t][c] \in Settled => exec'[t][c] \in Settled
    BY <1>10, <2>1
  <2>3. \A m \in 1..(Len(steps[t]) - 1) : \A k \in DOMAIN steps[t][m].calls :
          steps[t][m].calls[k] \in Calls /\ exec[t][steps[t][m].calls[k]] \in Settled
    <3> SUFFICES ASSUME NEW m \in 1..(Len(steps[t]) - 1), NEW k \in DOMAIN steps[t][m].calls
                 PROVE  steps[t][m].calls[k] \in Calls /\ exec[t][steps[t][m].calls[k]] \in Settled
      OBVIOUS
    <3>1. m \in 1..Len(steps[t])
      BY <1>6
    <3>2. steps[t][m].calls \in Seq(Calls)
      BY <1>2, <3>1, StepTyped
    <3> QED
      BY <1>2, <3>2 DEF Ordered
  <2> QED
    BY <1>6, <1>7, <2>2, <2>3
<1>12. WorkInv'
  <2>1. \A m \in 1..(Len(steps[t]) - 1) : steps[t][m].reply # "open"
    BY <1>2 DEF Ordered
  <2>2. ASSUME NEW c \in Calls, exec'[t][c] = "started"
        PROVE  /\ Len(steps[t]) > 0 /\ last.reply = "tools"
               /\ \E k \in DOMAIN last.calls :
                    /\ last.calls[k] = c
                    /\ \A j \in DOMAIN last.calls : j < k => exec'[t][last.calls[j]] \in Settled
    <3>1. c = d
      BY <1>5, <1>10, <2>2
    <3> QED
      BY <1>1, <1>3, <1>4, <1>11, <3>1
  <2>3. Ordered(steps', exec', t)
    BY <1>1, <1>11, <2>1, <2>2 DEF Ordered
  <2>4. turns = 1 /\ crashes' = 0 => \A c \in Calls : exec'[1][c] # "unanswered"
    <3>1. turns = 1 => t = 1
      BY <1>2, SessionAssumption DEF Turns
    <3> QED
      BY <1>2, <1>10, <3>1 DEF WorkInv
  <2> QED
    BY <1>1, <1>2, <1>10, <2>3, <2>4, WorkAt
<1> QED
  BY <1>4, <1>10, <1>12 DEF t, d

LEMMA DispatchToolOrder ==
  ASSUME Inv, OrderInv, NEW r \in Runtimes, DispatchTool(r)
  PROVE  OrderInv' /\ AnsweredStep /\ EndedStep
<1> DEFINE t == Turn(r)
           d == NextCall(r)
<1>1. /\ Working(r) /\ HasStep(r) /\ Step(r).reply = "tools" /\ Pending(r) # {}
      /\ terminal = None /\ pc[r] # "idle"
      /\ exec' = [exec EXCEPT ![t][d] = "started"]
      /\ pc' = [pc EXCEPT ![r] = "tool"]
      /\ at' = [at EXCEPT ![r] = Calling(r)]
      /\ UNCHANGED <<turns, steps, terminal, alone, crashes>>
  BY DEF DispatchTool, Working, Goto
<1>2. t \in Turns /\ t <= turns
  BY <1>1, TurnIsThere
<1>3. WorkInv' /\ exec'[t][d] = "started"
  BY <1>1, DispatchedWork
<1>8. pc'[r] = "tool" /\ at'[r].turn = t /\ at'[r].step = StepIndex(r) /\ at'[r].call = d
  <2>1. pc'[r] = "tool" /\ at'[r] = Calling(r)
    BY <1>1 DEF Inv, MemoryType
  <2> QED
    BY <2>1 DEF Calling
<1>9. r \in alone => t = turns /\ StepIndex(r) = Len(steps[turns])
  BY <1>1, AloneIsLast
<1> HIDE DEF t, d
<1>13. r \in alone => AtLast(r)'
  BY <1>1, <1>3, <1>8, <1>9 DEF AtLast
<1> QED
  BY <1>1, <1>2, <1>3, <1>8, <1>13, DispatchToolFacts, GoingOn

LEMMA ContinueTurnOrder ==
  ASSUME Inv, OrderInv, NEW r \in Runtimes, ContinueTurn(r)
  PROVE  OrderInv' /\ AnsweredStep /\ EndedStep
<1> DEFINE u == Turn(r)
           last == steps[u][Len(steps[u])]
           q == Append(steps[u], OpenStep)
<1>1. /\ Working(r) /\ HasStep(r) /\ Step(r).reply = "tools" /\ Pending(r) = {}
      /\ terminal = None /\ pc[r] # "idle" /\ UNCHANGED <<turns, crashes>>
  BY DEF ContinueTurn, Working
<1>2. /\ u \in Turns /\ u <= turns /\ turns \in Turns /\ Ordered(steps, exec, u)
      /\ steps \in Streams /\ exec \in Executions /\ WorkInv
  BY <1>1, TurnIsThere DEF OrderInv, Inv, StreamType
<1>3. CASE StepIndex(r) = Len(steps[u])
  <2>1. /\ steps' = [steps EXCEPT ![u] = q]
        /\ pc' = [pc EXCEPT ![r] = "ready"]
        /\ UNCHANGED <<exec, terminal, alone>>
    BY <1>3 DEF ContinueTurn, Goto
  <2>2. /\ steps[u] \in Seq(StepRecords) /\ Len(steps[u]) \in Nat
        /\ Len(steps[u]) \in 1..Len(steps[u]) /\ last.calls \in Seq(Calls)
        /\ Step(r) = last
    BY <1>1, <1>2, <1>3, StepTyped, WorkFacts DEF Step
  <2>3. \A k \in DOMAIN last.calls : exec[u][last.calls[k]] \in Settled
    <3> SUFFICES ASSUME NEW k \in DOMAIN last.calls PROVE exec[u][last.calls[k]] \in Settled
      OBVIOUS
    <3>1. exec[u][last.calls[k]] \in CallStates
      BY <1>2, <2>2 DEF Executions
    <3> QED
      BY <1>1, <2>2, <3>1 DEF Pending, Outcomes, CallStates, Settled
  <2>4. \A c \in Calls : exec[u][c] # "started"
    BY <1>2, <2>3 DEF Ordered, Settled
  <2>5. last.reply # "open"
    BY <1>1, <2>2
  <2>6. /\ Len(q) = Len(steps[u]) + 1
        /\ \A m \in 1..Len(steps[u]) : q[m] = steps[u][m]
    BY <2>2
  <2> HIDE DEF q, u
  <2>7. steps'[u] = q /\ \A t \in Turns \ {u} : steps'[t] = steps[t]
    BY <1>2, <2>1 DEF Streams
  <2>8. ASSUME NEW m \in 1..(Len(q) - 1)
        PROVE  /\ q[m].reply # "open"
               /\ \A k \in DOMAIN q[m].calls : exec[u][q[m].calls[k]] \in Settled
    <3>1. m \in 1..(Len(steps[u]) - 1) \/ m = Len(steps[u])
      BY <2>2, <2>6
    <3>2. q[m] = steps[u][m]
      BY <2>2, <2>6
    <3> QED
      BY <1>2, <2>3, <2>5, <3>1, <3>2 DEF Ordered
  <2>9. Ordered(steps', exec', u)
    BY <2>1, <2>4, <2>7, <2>8 DEF Ordered
  <2>10. WorkInv'
    BY <1>1, <1>2, <2>1, <2>7, <2>9, WorkAt DEF WorkInv
  <2>11. pc'[r] = "ready"
    BY <2>1 DEF Inv, MemoryType
  <2> QED
    BY <1>1, <2>1, <2>10, <2>11, ContinueTurnFacts, GoingOn DEF AtLast, AtWork
<1>4. CASE StepIndex(r) # Len(steps[u])
  <2>1. DriveCatch /\ Leave(r)
    BY <1>4 DEF ContinueTurn
  <2>2. r \notin alone
    BY <1>1, <1>4, AloneIsLast
  <2> QED
    BY <1>1, <2>1, <2>2, CatchOrder
<1> QED
  BY <1>3, <1>4

\* An event of the open step.
LEMMA ReplacedOrder ==
  ASSUME Inv, OrderInv, terminal = None, NEW u \in Turns, u <= turns,
         NEW n \in 1..Len(steps[u]), steps[u][n].reply = "open", NEW x,
         steps' = [steps EXCEPT ![u] = [steps[u] EXCEPT ![n] = x]],
         UNCHANGED <<turns, exec, crashes>>
  PROVE  /\ WorkInv' /\ n = Len(steps[u])
         /\ steps'[u][n] = x /\ Len(steps'[u]) = Len(steps[u])
<1>1. steps \in Streams /\ WorkInv /\ Ordered(steps, exec, u)
  BY DEF Inv, StreamType, OrderInv, WorkInv
<1>2. n = Len(steps[u]) /\ \A c \in Calls : exec[u][c] # "started"
  BY <1>1, OpenIsLast
<1>3. steps[u] \in Seq(StepRecords) /\ Len(steps[u]) \in Nat
  BY <1>1, StepTyped
<1>4. steps'[u] = [steps[u] EXCEPT ![n] = x] /\ \A t \in Turns \ {u} : steps'[t] = steps[t]
  BY <1>1 DEF Streams
<1>5. /\ steps'[u][n] = x /\ Len(steps'[u]) = Len(steps[u])
      /\ \A m \in 1..(Len(steps[u]) - 1) : steps'[u][m] = steps[u][m]
  BY <1>2, <1>3, <1>4
<1>6. Ordered(steps', exec', u)
  BY <1>1, <1>2, <1>5 DEF Ordered
<1>7. WorkInv'
  BY <1>1, <1>4, <1>6, WorkAt DEF WorkInv
<1> QED
  BY <1>2, <1>5, <1>7

LEMMA StreamDeltaOrder ==
  ASSUME Inv, OrderInv, NEW r \in Runtimes, StreamDelta(r)
  PROVE  OrderInv' /\ AnsweredStep /\ EndedStep
<1> DEFINE u == at[r].turn
           n == at[r].step
           x == [steps[u][n] EXCEPT !.events = @ + 1]
<1>1. /\ pc[r] = "streaming" /\ Accepts(r) /\ terminal = None /\ steps[u][n].reply = "open"
      /\ steps' = [steps EXCEPT ![u][n].events = @ + 1]
      /\ at' = [at EXCEPT ![r].sent = @ + 1]
      /\ UNCHANGED <<turns, exec, terminal, pc, alone, crashes>>
  BY DEF StreamDelta, Accepts
<1>2. /\ u \in Turns /\ n \in 1..Len(steps[u]) /\ u <= turns
      /\ steps[u][n] \in StepRecords
  BY <1>1, AcceptsFacts DEF OrderInv, TurnsInv, AtWork
<1>3. steps' = [steps EXCEPT ![u] = [steps[u] EXCEPT ![n] = x]]
  BY <1>1
<1>4. x.reply = "open"
  BY <1>1, <1>2 DEF StepRecords
<1>5. at'[r].turn = u /\ at'[r].step = n
  BY <1>1 DEF Inv, MemoryType, Places
<1> HIDE DEF u, n, x
<1>6. /\ WorkInv' /\ n = Len(steps[u])
      /\ steps'[u][n] = x /\ Len(steps'[u]) = Len(steps[u])
  BY <1>1, <1>2, <1>3, ReplacedOrder
<1>7. r \in alone => AtLast(r)'
  <2>1. r \in alone => u = turns
    BY <1>1 DEF OrderInv, AtLast, AtWork, u
  <2> QED
    BY <1>1, <1>4, <1>5, <1>6, <2>1 DEF AtLast
<1> QED
  BY <1>1, <1>2, <1>5, <1>6, <1>7, StreamDeltaFacts, GoingOn

LEMMA StreamConcludesOrder ==
  ASSUME Inv, OrderInv, NEW r \in Runtimes, StreamConcludes(r)
  PROVE  OrderInv' /\ AnsweredStep /\ EndedStep
<1> DEFINE u == at[r].turn
           n == at[r].step
<1>1. /\ pc[r] = "streaming" /\ Accepts(r) /\ terminal = None /\ steps[u][n].reply = "open"
      /\ pc' = [pc EXCEPT ![r] = "ready"]
      /\ UNCHANGED <<turns, exec, terminal, alone, crashes>>
  BY DEF StreamConcludes, Accepts, Goto
<1>2. u \in Turns /\ n \in 1..Len(steps[u]) /\ u <= turns
  BY <1>1, AcceptsFacts DEF OrderInv, TurnsInv, AtWork
<1>3. PICK reply \in Replies, calls \in CallLists \cup {<<>>} :
        steps' = [steps EXCEPT ![u][n] =
                    [reply |-> reply, events |-> @.events + 1, calls |-> calls]]
  BY DEF StreamConcludes
<1> DEFINE x == [reply |-> reply, events |-> steps[u][n].events + 1, calls |-> calls]
<1>4. steps' = [steps EXCEPT ![u] = [steps[u] EXCEPT ![n] = x]]
  BY <1>3
<1>5. pc'[r] = "ready"
  BY <1>1 DEF Inv, MemoryType
<1> HIDE DEF u, n, x
<1>6. WorkInv'
  BY <1>1, <1>2, <1>4, ReplacedOrder
<1> QED
  BY <1>1, <1>5, <1>6, StreamConcludesFacts, GoingOn DEF AtLast, AtWork

LEMMA ToolReturnsOrder ==
  ASSUME Inv, OrderInv, NEW r \in Runtimes, ToolReturns(r)
  PROVE  OrderInv' /\ AnsweredStep /\ EndedStep
<1>1. pc[r] = "tool" /\ pc[r] # "idle" /\ UNCHANGED <<turns, crashes>>
  BY DEF ToolReturns
<1>2. CASE Awaited(r)
  <2> DEFINE u == at[r].turn
             c == at[r].call
             e == [exec EXCEPT ![u][c] = "answered"]
  <2>1. /\ terminal = None /\ exec' = e
        /\ pc' = [pc EXCEPT ![r] = "calls"] /\ at' = [at EXCEPT ![r].call = None]
        /\ UNCHANGED <<steps, terminal, alone>>
    BY <1>2 DEF ToolReturns, Goto, Awaited
  <2>2. /\ u \in Turns /\ c \in Calls /\ u <= turns /\ WorkInv
        /\ steps \in Streams /\ exec \in Executions
    BY <1>1, <2>1 DEF Inv, MemoryType, StreamType, OrderInv, TurnsInv, AtWork
  <2>3. /\ pc'[r] = "calls" /\ at'[r].turn = u /\ at'[r].step = at[r].step
    BY <2>1 DEF Inv, MemoryType, Places
  <2>4. r \in alone => u = turns /\ at[r].step = Len(steps[turns])
    BY <1>1, <2>1 DEF OrderInv, AtLast, AtWork
  <2>5. Ordered(steps, e, u)
    BY <2>2, MarkedOrdered DEF Settled, WorkInv
  <2> HIDE DEF u, c
  <2>6. /\ \A t \in Turns \ {u} : e[t] = exec[t]
        /\ turns = 1 /\ crashes = 0 => \A d \in Calls : e[1][d] # "unanswered"
    <3>1. \A t \in Turns, d \in Calls : e[t][d] = exec[t][d] \/ e[t][d] = "answered"
      BY <2>2 DEF Executions
    <3>2. turns = 1 => 1 \in Turns
      BY <2>2, SessionAssumption DEF Turns
    <3> QED
      BY <2>2, <3>1, <3>2 DEF Executions, WorkInv
  <2> HIDE DEF e
  <2>7. WorkInv'
    BY <1>1, <2>1, <2>2, <2>5, <2>6, WorkAt
  <2>8. r \in alone => AtLast(r)'
    BY <1>1, <2>1, <2>3, <2>4 DEF AtLast
  <2> QED
    BY <1>1, <2>1, <2>2, <2>3, <2>7, <2>8, ToolReturnsFacts, GoingOn
<1>3. CASE ~Awaited(r)
  <2>1. DriveCatch /\ Leave(r)
    BY <1>3 DEF ToolReturns
  <2>2. terminal = None /\ cancellation = None => r \notin alone
    BY <1>1, <1>3 DEF Awaited, OrderInv, AtLast, AtWork
  <2> QED
    BY <1>1, <2>1, <2>2, CatchOrder
<1> QED
  BY <1>2, <1>3

-----------------------------------------------------------------------------
(* What comes from outside the drives.                                     *)

\* A runtime is called for the session, or goes on without an event.
LEMMA EntersOrder ==
  ASSUME Inv, OrderInv, NEW r \in Runtimes, Send(r) \/ Resume(r)
  PROVE  OrderInv' /\ AnsweredStep /\ EndedStep
<1>1. /\ pc[r] = "idle" /\ pc' = [pc EXCEPT ![r] = "setup"] /\ terminal = None
      /\ alone' = IF \A q \in Runtimes : pc[q] = "idle" THEN {r} ELSE {}
      /\ turns' \in {turns, turns + 1} /\ turns' <= MaxTurns
      /\ UNCHANGED <<steps, exec, terminal, at, crashes>>
  BY SessionAssumption DEF Send, Resume, Enter, Goto, durable, Inv, StreamType
<1>2. pc'[r] = "setup" /\ \A q \in Runtimes : q # r => pc'[q] = pc[q]
  BY <1>1 DEF Inv, MemoryType
<1>3. AloneInv'
  BY <1>1, <1>2 DEF AloneInv
<1>4. WorkInv'
  <2>1. WorkInv /\ turns \in Nat
    BY <1>1 DEF OrderInv, Inv, StreamType
  <2>2. \A t \in Turns : t > turns' => t > turns
    BY <1>1, <2>1, SessionAssumption DEF Turns
  <2>3. turns' = 1 /\ crashes = 0 => \A c \in Calls : exec[1][c] # "unanswered"
    <3>1. CASE turns = 1
      BY <2>1, <3>1 DEF WorkInv
    <3>2. CASE turns = 0
      <4>1. turns' = 1 => 1 \in Turns
        BY <1>1, SessionAssumption DEF Turns
      <4> QED
        BY <2>1, <3>2, <4>1 DEF WorkInv, Fresh
    <3> QED
      BY <1>1, <2>1, <3>1, <3>2
  <2> QED
    BY <1>1, <2>1, <2>2, <2>3 DEF WorkInv, Ordered, Fresh
<1>5. TurnsInv'
  <2> SUFFICES ASSUME NEW q \in Runtimes, pc'[q] \in AtWork PROVE at'[q].turn <= turns'
    BY DEF TurnsInv
  <2>1. pc[q] \in AtWork
    BY <1>2 DEF AtWork
  <2>2. at[q].turn <= turns /\ at[q].turn \in Turns
    BY <1>1, <2>1 DEF OrderInv, TurnsInv, Inv, MemoryType, AtWork
  <2> QED
    BY <1>1, <2>2, SessionAssumption DEF Turns, Inv, StreamType
<1>6. \A q \in alone' : AtLast(q)'
  BY <1>1, <1>2 DEF AtLast, AtWork
<1>7. EndedStep
  BY <1>2 DEF EndedStep, ReturnsAlone
<1>8. AnsweredStep
  BY <1>1, NullAssumption DEF AnsweredStep
<1> QED
  BY <1>1, <1>3, <1>4, <1>5, <1>6, <1>7, <1>8 DEF OrderInv

\* Nothing happens to the work.
LEMMA WaitsOrder ==
  ASSUME Inv, OrderInv, UNCHANGED <<turns, steps, exec, terminal, at, alone, crashes>>,
         cancellation' = None => cancellation = None,
         \A q \in Runtimes : pc'[q] # pc[q] => pc[q] # "idle" /\ pc'[q] = "ready"
  PROVE  OrderInv' /\ AnsweredStep /\ EndedStep
<1>1. AloneInv'
  BY DEF OrderInv, AloneInv
<1>2. ASSUME terminal = None PROVE WorkInv' /\ TurnsInv' /\ \A q \in alone' : AtLast(q)'
  <2>1. WorkInv'
    BY <1>2, WorkUnchanged DEF OrderInv
  <2>2. TurnsInv'
    BY <1>2 DEF OrderInv, TurnsInv, AtWork
  <2>3. \A q \in alone' : AtLast(q)'
    BY <1>2 DEF OrderInv, AloneInv, AtLast, AtWork
  <2> QED
    BY <2>1, <2>2, <2>3
<1>3. EndedStep
  BY DEF EndedStep, ReturnsAlone
<1>4. AnsweredStep
  BY NullAssumption DEF AnsweredStep
<1> QED
  BY <1>1, <1>2, <1>3, <1>4 DEF OrderInv

LEMMA WaitingSteps ==
  ASSUME Inv, OrderInv, NEW r \in Runtimes, BeginDrive(r) \/ DeadlineFires(r)
  PROVE  OrderInv' /\ AnsweredStep /\ EndedStep
<1>1. UNCHANGED <<turns, steps, exec, terminal, at, alone, crashes>>
  BY DEF BeginDrive, DeadlineFires
<1>2. \A q \in Runtimes : pc'[q] # pc[q] => pc[q] # "idle" /\ pc'[q] = "ready"
  BY DEF BeginDrive, DeadlineFires, Goto, Inv, MemoryType
<1>3. cancellation' = None => cancellation = None
  BY NullAssumption DEF BeginDrive, DeadlineFires
<1> QED
  BY <1>1, <1>2, <1>3, WaitsOrder

\* The session ends while nobody drives it.
LEMMA OutsideOrder ==
  ASSUME Inv, OrderInv, SendBeyondLimit \/ \E r \in Runtimes : Cancel(r, "user")
  PROVE  OrderInv' /\ AnsweredStep /\ EndedStep
<1>1. UNCHANGED <<turns, pc, at, alone, crashes>>
  BY DEF SendBeyondLimit, Cancel
<1>2. EndedStep
  BY <1>1 DEF EndedStep, ReturnsAlone
<1>3. AloneInv' /\ crashes' \in Nat
  BY <1>1 DEF OrderInv, AloneInv
<1>4. CASE SendBeyondLimit
  BY <1>2, <1>3, <1>4, NullAssumption DEF SendBeyondLimit, OrderInv, AnsweredStep
<1>5. ASSUME NEW r \in Runtimes, Cancel(r, "user")
      PROVE  OrderInv' /\ AnsweredStep
  <2>1. CASE pc[r] = "idle"
    <3>1. terminal = None /\ \E source : Settle(steps, exec, source)
      BY <1>5, <2>1 DEF Cancel
    <3>2. terminal' # None /\ AnsweredStep
      BY <3>1, SettleAnswers
    <3> QED
      BY <1>3, <3>2 DEF OrderInv
  <2>2. CASE pc[r] # "idle"
    <3>1. UNCHANGED <<turns, steps, exec, terminal, at, alone, crashes, pc>>
      BY <1>1, <1>5, <2>2 DEF Cancel
    <3>2. cancellation' = None => cancellation = None
      BY <1>5 DEF Cancel
    <3> QED
      BY <3>1, <3>2, WaitsOrder
  <2> QED
    BY <2>1, <2>2
<1> QED
  BY <1>2, <1>4, <1>5

-----------------------------------------------------------------------------
(* Deaths between two appends.                                             *)

\* A settlement that is cut short leaves the work in order.
LEMMA PartWork ==
  ASSUME Inv, OrderInv, NEW r \in Runtimes, Dies(r),
         NEW s \in Streams, NEW e \in Executions, Eases(steps, exec, s, e),
         NEW source, SettlePart(s, e, source)
  PROVE  WorkInv' /\ \A t \in Turns : Len(steps'[t]) = Len(steps[t])
<1> DEFINE s2 == steps'
           e2 == exec'
<1>1. /\ WorkInv /\ steps \in Streams /\ turns' = turns
      /\ crashes' = crashes + 1 /\ crashes \in Nat
  BY DEF Dies, OrderInv, Inv, StreamType
<1>2. Keeps(s, e) /\ Eases(s, e, s2, e2)
  BY SettlePartKeeps
<1>3. s2 \in Streams
  BY <1>2 DEF Keeps
<1> HIDE DEF s2, e2
<1>4. ASSUME NEW t \in Turns
      PROVE  /\ Ordered(steps, exec, t) => Ordered(s2, e2, t)
             /\ Fresh(steps, exec, t) => Fresh(s2, e2, t)
  <2>1. /\ Ordered(steps, exec, t) => Ordered(s, e, t)
        /\ Fresh(steps, exec, t) => Fresh(s, e, t)
    BY <1>1, EasedOrdered
  <2>2. /\ Ordered(s, e, t) => Ordered(s2, e2, t)
        /\ Fresh(s, e, t) => Fresh(s2, e2, t)
    BY <1>2, <1>3, EasedOrdered
  <2> QED
    BY <2>1, <2>2
<1>5. /\ \A t \in Turns : Ordered(s2, e2, t)
      /\ \A t \in Turns : t > turns => Fresh(s2, e2, t)
  BY <1>1, <1>4 DEF WorkInv
<1>6. WorkInv'
  BY <1>1, <1>5 DEF WorkInv, Ordered, Fresh, s2, e2
<1>7. \A t \in Turns : Len(s2[t]) = Len(steps[t])
  BY <1>2 DEF Eases
<1> QED
  BY <1>6, <1>7 DEF s2

LEMMA DyingOrder ==
  ASSUME Inv, OrderInv, NEW r \in Runtimes, pc[r] # "idle", Dies(r), WorkInv'
  PROVE  OrderInv' /\ AnsweredStep /\ EndedStep
<1>1. /\ terminal = None /\ Leave(r) /\ UNCHANGED <<turns, terminal>>
      /\ crashes' \in Nat /\ crashes' # crashes
  BY DEF Dies, OrderInv
<1>2. OrderInv'
  BY <1>1, Leaves
<1>3. AnsweredStep
  BY <1>1, NullAssumption DEF AnsweredStep
<1>4. EndedStep
  BY <1>1 DEF EndedStep, ReturnsAlone
<1> QED
  BY <1>2, <1>3, <1>4

\* A runtime dies that settled a session it did not drive.
LEMMA IdleDies ==
  ASSUME Inv, OrderInv, NEW r \in Runtimes, pc[r] = "idle", Dies(r), WorkInv',
         cancellation' # None, \A t \in Turns : Len(steps'[t]) = Len(steps[t])
  PROVE  OrderInv' /\ AnsweredStep /\ EndedStep
<1>1. /\ terminal = None /\ terminal' = None /\ turns' = turns
      /\ crashes' \in Nat /\ crashes' # crashes
  BY DEF Dies, OrderInv
<1>2. /\ pc' = pc /\ alone' = alone
      /\ \A q \in Runtimes : q # r => at'[q] = at[q]
  BY DEF Dies, Leave, Goto, Inv, MemoryType, OrderInv, AloneInv
<1>3. AloneInv'
  BY <1>2 DEF OrderInv, AloneInv
<1>4. TurnsInv'
  BY <1>1, <1>2 DEF OrderInv, TurnsInv, AtWork
<1>5. \A q \in alone' : AtLast(q)'
  <2> SUFFICES ASSUME NEW q \in alone PROVE AtLast(q)'
    BY <1>2
  <2>1. q \in Runtimes /\ q # r
    BY DEF OrderInv, AloneInv
  <2>2. CASE pc[q] \in AtWork
    <3>1. at[q].turn = turns /\ at[q].step = Len(steps[turns]) /\ at[q].turn \in Turns
      BY <1>1, <2>1, <2>2 DEF OrderInv, AtLast, AtWork, Inv, MemoryType
    <3> QED
      BY <1>1, <1>2, <2>1, <3>1 DEF AtLast
  <2>3. CASE pc[q] \notin AtWork
    BY <1>2, <2>3 DEF AtLast
  <2> QED
    BY <2>2, <2>3
<1>6. AnsweredStep
  BY <1>1, NullAssumption DEF AnsweredStep
<1>7. EndedStep
  BY <1>1 DEF EndedStep, ReturnsAlone
<1> QED
  BY <1>1, <1>3, <1>4, <1>5, <1>6, <1>7 DEF OrderInv

LEMMA EasesSelf == Eases(steps, exec, steps, exec)
BY DEF Eases

LEMMA DeathOrder ==
  ASSUME Inv, OrderInv, NEW r \in Runtimes,
         \/ DiesSettling(r) \/ DiesClosing(r) \/ DiesDoubting(r)
         \/ DiesAssembled(r) \/ DiesDispatching(r) \/ DiesCancelling(r)
  PROVE  OrderInv' /\ AnsweredStep /\ EndedStep
<1>0. steps \in Streams /\ exec \in Executions
  BY DEF Inv, StreamType
<1>1. CASE DiesSettling(r)
  <2>1. pc[r] # "idle" /\ Dies(r) /\ SettlePart(steps, exec, cancellation)
    BY <1>1 DEF DiesSettling
  <2>2. WorkInv'
    BY <1>0, <2>1, EasesSelf, PartWork
  <2> QED
    BY <2>1, <2>2, DyingOrder
<1>2. CASE DiesClosing(r)
  <2>1. PICK t, n, reply, source :
          /\ reply \in {"failed", "cancelled"}
          /\ t \in Turns /\ n \in 1..Len(steps[t])
          /\ SettlePart(CloseStep(steps, t, n, reply), exec, source)
    <3>1. CASE pc[r] = "streaming"
      <4>1. at[r].turn \in Turns /\ at[r].step \in 1..Len(steps[at[r].turn])
        BY <3>1 DEF Inv, MemoryType
      <4> QED
        BY <1>2, <3>1, <4>1 DEF DiesClosing, Working
    <3>2. CASE pc[r] # "streaming"
      <4>1. /\ Working(r) /\ HasStep(r)
            /\ SettlePart(CloseStep(steps, Turn(r), StepIndex(r), "failed"), exec, None)
        BY <1>2, <3>2 DEF DiesClosing
      <4>2. Turn(r) \in Turns /\ StepIndex(r) \in 1..Len(steps[Turn(r)])
        BY <4>1, WorkFacts
      <4> QED
        BY <4>1, <4>2
    <3> QED
      BY <3>1, <3>2
  <2>2. /\ CloseStep(steps, t, n, reply) \in Streams
        /\ Eases(steps, exec, CloseStep(steps, t, n, reply), exec)
    BY <1>0, <2>1, CloseStepKeeps, CloseEases DEF Replies
  <2>3. Dies(r) /\ pc[r] # "idle"
    BY <1>2 DEF DiesClosing, Working
  <2>4. WorkInv'
    BY <1>0, <2>1, <2>2, <2>3, PartWork
  <2> QED
    BY <2>3, <2>4, DyingOrder
<1>3. CASE DiesDoubting(r)
  <2> DEFINE e == [exec EXCEPT ![at[r].turn][at[r].call] = "unanswered"]
  <2>1. /\ pc[r] = "tool" /\ pc[r] # "idle" /\ Dies(r) /\ SettlePart(steps, e, cancellation)
        /\ exec[at[r].turn][at[r].call] = "started"
    BY <1>3 DEF DiesDoubting, Awaited
  <2>2. at[r].turn \in Turns /\ at[r].call \in Calls
    BY <2>1 DEF Inv, MemoryType
  <2>3. e \in Executions /\ Eases(steps, exec, steps, e)
    <3>1. e \in Executions
      BY <1>0 DEF Executions, CallStates
    <3>2. Eases(steps, exec, steps, e)
      BY <1>0, <2>1, <2>2, MarkEases
    <3> QED
      BY <3>1, <3>2
  <2> HIDE DEF e
  <2>4. WorkInv'
    BY <1>0, <2>1, <2>3, PartWork
  <2> QED
    BY <2>1, <2>4, DyingOrder
<1>4. CASE DiesAssembled(r)
  <2>1. pc[r] # "idle" /\ Dies(r) /\ terminal = None /\ UNCHANGED <<turns, steps, exec>>
    BY <1>4 DEF DiesAssembled, Dies, Working
  <2>2. crashes' = 0 => crashes = 0
    BY <2>1 DEF Dies, OrderInv
  <2>3. WorkInv'
    BY <2>1, <2>2, WorkUnchanged DEF OrderInv
  <2> QED
    BY <2>1, <2>3, DyingOrder
<1>5. CASE DiesDispatching(r)
  <2>1. /\ Working(r) /\ HasStep(r) /\ Step(r).reply = "tools" /\ Pending(r) # {}
        /\ pc[r] # "idle" /\ Dies(r) /\ UNCHANGED <<turns, steps>>
        /\ exec' = [exec EXCEPT ![Turn(r)][NextCall(r)] = "started"]
    BY <1>5 DEF DiesDispatching, Dies, Working
  <2>2. crashes' = 0 => crashes = 0
    BY <2>1 DEF Dies, OrderInv
  <2>3. WorkInv'
    BY <2>1, <2>2, DispatchedWork
  <2> QED
    BY <2>1, <2>3, DyingOrder
<1>6. CASE DiesCancelling(r)
  <2>1. Dies(r) /\ SettlePart(steps, exec, cancellation') /\ cancellation' # None
    BY <1>6, NullAssumption DEF DiesCancelling
  <2>2. WorkInv' /\ \A t \in Turns : Len(steps'[t]) = Len(steps[t])
    BY <1>0, <2>1, EasesSelf, PartWork
  <2> QED
    BY <2>1, <2>2, DyingOrder, IdleDies
<1> QED
  BY <1>1, <1>2, <1>3, <1>4, <1>5, <1>6

-----------------------------------------------------------------------------
(* What the session promises of its end.                                   *)

LEMMA InitOrder == Init => OrderInv
<1> SUFFICES ASSUME Init PROVE OrderInv
  OBVIOUS
<1>1. WorkInv
  BY DEF Init, WorkInv, Ordered, Fresh
<1> QED
  BY <1>1 DEF Init, OrderInv, AloneInv, TurnsInv, AtWork

LEMMA EveryOrder ==
  ASSUME Inv, OrderInv, [Next]_vars
  PROVE  OrderInv' /\ AnsweredStep /\ EndedStep
<1>1. CASE SendBeyondLimit \/ \E r \in Runtimes : Cancel(r, "user")
  BY <1>1, OutsideOrder
<1>2. ASSUME NEW r \in Runtimes,
             Send(r) \/ Resume(r) \/ BeginDrive(r) \/ DeadlineFires(r)
      PROVE  OrderInv' /\ AnsweredStep /\ EndedStep
  BY <1>2, EntersOrder, WaitingSteps
<1>3. ASSUME NEW r \in Runtimes,
             \/ DriveStops(r) \/ DriveSettles(r) \/ DriveFails(r) \/ FailInterrupted(r)
             \/ ConcludeTurn(r) \/ ConcludeCancelled(r) \/ StreamEnds(r) \/ StreamBreaks(r)
             \/ ToolThrows(r) \/ Crash(r)
      PROVE  OrderInv' /\ AnsweredStep /\ EndedStep
  BY <1>3, StopsOrder, SettlesOrder, DriveFailsOrder, ConcludesOrder, StreamsOrder,
     ToolThrowsOrder
<1>6. ASSUME NEW r \in Runtimes,
             \/ DiesSettling(r) \/ DiesClosing(r) \/ DiesDoubting(r)
             \/ DiesAssembled(r) \/ DiesDispatching(r) \/ DiesCancelling(r)
      PROVE  OrderInv' /\ AnsweredStep /\ EndedStep
  BY <1>6, DeathOrder
<1>4. ASSUME NEW r \in Runtimes,
             \/ StartStep(r) \/ OpenStream(r) \/ ProviderMissing(r)
             \/ DispatchTool(r) \/ ContinueTurn(r)
             \/ StreamDelta(r) \/ StreamConcludes(r) \/ ToolReturns(r)
      PROVE  OrderInv' /\ AnsweredStep /\ EndedStep
  BY <1>4, StartStepOrder, OpenStreamOrder, ProviderMissingOrder, DispatchToolOrder,
     ContinueTurnOrder, StreamDeltaOrder, StreamConcludesOrder, ToolReturnsOrder
<1>5. CASE UNCHANGED vars
  <2>1. UNCHANGED <<turns, steps, exec, cancellation, terminal, at, alone, crashes, pc>>
    BY <1>5 DEF vars, durable
  <2> QED
    BY <2>1, WaitsOrder
<1> QED
  BY <1>1, <1>2, <1>3, <1>4, <1>5, <1>6 DEF Next, Caller, Drive, Answer, Death

LEMMA OrderStands == Spec => [](Inv /\ OrderInv)
<1>1. Inv /\ OrderInv /\ [Next]_vars => OrderInv'
  BY EveryOrder
<1> QED
  BY <1>1, InitOrder, Invariant, PTL DEF Spec

\* A session that ends while a tool may have acted unseen ends as failed.
THEOREM UnansweredFails == Spec => UnansweredToolFailsSession
<1>1. Inv /\ OrderInv /\ [Next]_vars => AnsweredStep
  BY EveryOrder
<1> QED
  BY <1>1, OrderStands, PTL DEF Spec, UnansweredToolFailsSession

\* A drive that has the session to itself leaves it with its outcome, if no
\* older turn was left with work under way.
THEOREM DrivesEnd == Spec => DriveEndsUnlessAbandoned
<1>1. Inv /\ OrderInv /\ [Next]_vars => EndedStep
  BY EveryOrder
<1> QED
  BY <1>1, OrderStands, PTL DEF Spec, DriveEndsUnlessAbandoned
=============================================================================
