-------------------------- MODULE GovernedScheduler --------------------------
(***************************************************************************)
(* The scheduler in front of the governed execution port                   *)
(* (packages/governed-execution/scheduler.js).  It runs in one process, so *)
(* each action is one synchronous turn of the event loop: a public method, *)
(* an abort listener, or the continuation of a port promise.  The port     *)
(* itself answers at any time; GovernedExecution models what it does.      *)
(***************************************************************************)
EXTENDS Naturals, Sequences, FiniteSets, SequencesExt

CONSTANTS
  Items,           (* requests that may be enqueued                        *)
  Exclusive,       (* items whose contract is exclusive, or cannot be      *)
                   (* resolved                                             *)
  NonCancellable,  (* items whose contract forbids cancellation            *)
  MaxConcurrency,
  MaxQueue,
  Closers,         (* callers of close()                                   *)
  CloseModes,      (* the options they may give it                         *)
  None

ASSUME ConstantsAssumption ==
  /\ IsFiniteSet(Items)
  /\ Exclusive \subseteq Items /\ NonCancellable \subseteq Items
  /\ MaxConcurrency \in Nat \ {0} /\ MaxQueue \in Nat \ {0}
  /\ CloseModes \subseteq [cancelQueued : BOOLEAN, cancelRunning : BOOLEAN]

VARIABLES
  queue,                 (* items waiting, oldest first                    *)
  state,                 (* of each item                                   *)
  activeItems,           (* running items and those being cancelled        *)
  exclusiveRunning,
  cancellationBarriers,  (* cancellations not yet released                 *)
  accepting,
  cancelled,             (* items somebody cancelled                       *)
  reply,                 (* what the promise of an item's handle gave      *)
  closing                (* where each closer is                           *)

vars == <<queue, state, activeItems, exclusiveRunning, cancellationBarriers,
          accepting, cancelled, reply, closing>>

-----------------------------------------------------------------------------
Queued(q) == {q[n] : n \in 1..Len(q)}

\* Mutant: the pump looks past an exclusive item that must wait.
StartCountLimitOnly(q, active, exclusive, barriers) ==
  IF exclusive \/ barriers > 0 \/ Cardinality(active) >= MaxConcurrency THEN 0
  ELSE IF Len(q) < MaxConcurrency - Cardinality(active) THEN Len(q)
  ELSE MaxConcurrency - Cardinality(active)

\* How many items at the head of q the loop of _pump starts: an exclusive one
\* alone, or others up to the next exclusive one or the concurrency limit.
StartCount(q, active, exclusive, barriers) ==
  IF exclusive \/ barriers > 0 \/ q = <<>> THEN 0
  ELSE IF Head(q) \in Exclusive THEN IF active = {} THEN 1 ELSE 0
  ELSE CHOOSE n \in 0..Len(q) :
         LET Startable(m) == /\ \A i \in 1..m : q[i] \notin Exclusive
                             /\ m = 0 \/ Cardinality(active) + m <= MaxConcurrency
         IN  Startable(n) /\ \A m \in 0..Len(q) : Startable(m) => m <= n

\* _resolveDrain: every waiting closer is told when nothing is left.
ResolveDrain(q, active, waiting) ==
  IF q = <<>> /\ active = {}
  THEN [k \in Closers |-> IF waiting[k] = "draining" THEN "closed" ELSE waiting[k]]
  ELSE waiting

\* _pump from the given queue, active set, flags and item states.
Pump(q, active, exclusive, barriers, st) ==
  LET n       == StartCount(q, active, exclusive, barriers)
      started == {q[i] : i \in 1..n}
  IN  /\ queue' = SubSeq(q, n + 1, Len(q))
      /\ activeItems' = active \cup started
      /\ exclusiveRunning' = (exclusive \/ started \cap Exclusive # {})
      /\ state' = [i \in Items |-> IF i \in started THEN "running" ELSE st[i]]

\* Mutant: the last waiting item fills the gap a withdrawn one leaves.
WithdrawSwapping(items, q) ==
  LET kept == SelectSeq(q, LAMBDA i : i \notin items)
  IN  IF Len(kept) < 2 THEN kept ELSE <<Last(kept)>> \o Front(kept)

\* The queue without the items that _cancelQueued splices out of it.
Withdraw(items, q) ==
  LET kept == {n \in 1..Len(q) : q[n] \notin items}
      Rank(n) == Cardinality({m \in kept : m <= n})
  IN  [r \in 1..Cardinality(kept) |-> q[CHOOSE n \in kept : Rank(n) = r]]

-----------------------------------------------------------------------------
\* enqueue of a closed scheduler, or of one whose queue is full.
Reject(i) ==
  /\ state[i] = "new"
  /\ ~accepting \/ Len(queue) >= MaxQueue
  /\ state' = [state EXCEPT ![i] = "settled"]
  /\ reply' = [reply EXCEPT ![i] = IF accepting THEN "capacity" ELSE "closed"]
  /\ UNCHANGED <<queue, activeItems, exclusiveRunning, cancellationBarriers,
                 accepting, cancelled, closing>>

\* Mutant: the capacity of the queue is not looked at.
EnqueueUnbounded(i) ==
  /\ state[i] = "new"
  /\ accepting
  /\ Pump(Append(queue, i), activeItems, exclusiveRunning, cancellationBarriers,
          [state EXCEPT ![i] = "queued"])
  /\ UNCHANGED <<cancellationBarriers, accepting, cancelled, reply, closing>>

\* The item joins the queue and the queue is pumped.
Enqueue(i) ==
  /\ state[i] = "new"
  /\ accepting /\ Len(queue) < MaxQueue
  /\ Pump(Append(queue, i), activeItems, exclusiveRunning, cancellationBarriers,
          [state EXCEPT ![i] = "queued"])
  /\ UNCHANGED <<cancellationBarriers, accepting, cancelled, reply, closing>>

\* Its signal is aborted already: the item is cancelled before it is pumped.
EnqueueAborted(i) ==
  /\ state[i] = "new" /\ i \notin NonCancellable
  /\ accepting /\ Len(queue) < MaxQueue
  /\ state' = [state EXCEPT ![i] = "cancelling"]
  /\ activeItems' = activeItems \cup {i}
  /\ cancellationBarriers' = cancellationBarriers + 1
  /\ cancelled' = cancelled \cup {i}
  /\ UNCHANGED <<queue, exclusiveRunning, accepting, reply, closing>>

\* handle.cancel, or the caller's signal, for an item still in the queue; the
\* pump that ends _cancelQueued finds the barrier and starts nothing.
CancelQueued(i) ==
  /\ state[i] = "queued" /\ i \notin NonCancellable
  /\ queue' = Withdraw({i}, queue)
  /\ state' = [state EXCEPT ![i] = "cancelling"]
  /\ activeItems' = activeItems \cup {i}
  /\ cancellationBarriers' = cancellationBarriers + 1
  /\ cancelled' = cancelled \cup {i}
  /\ UNCHANGED <<exclusiveRunning, accepting, reply, closing>>

\* handle.cancel of a running item only aborts the signal the port was given.
CancelRunning(i) ==
  /\ state[i] = "running" /\ i \notin NonCancellable \cup cancelled
  /\ cancelled' = cancelled \cup {i}
  /\ UNCHANGED <<queue, state, activeItems, exclusiveRunning, cancellationBarriers,
                 accepting, reply, closing>>

\* The port answered or threw: either way the handle's promise resolves.
PortAnswers(i) ==
  /\ state[i] = "running" /\ reply[i] = None
  /\ reply' = [reply EXCEPT ![i] = "outcome"]
  /\ UNCHANGED <<queue, state, activeItems, exclusiveRunning, cancellationBarriers,
                 accepting, cancelled, closing>>

\* Mutant: the exclusive flag outlives the exclusive item.
ReleaseStillExclusive(i) ==
  /\ state[i] = "running" /\ reply[i] # None
  /\ Pump(queue, activeItems \ {i}, exclusiveRunning, cancellationBarriers,
          [state EXCEPT ![i] = "settled"])
  /\ UNCHANGED <<cancellationBarriers, accepting, cancelled, reply, closing>>

\* The finally of _start.
Release(i) ==
  /\ state[i] = "running" /\ reply[i] # None
  /\ LET exclusive == exclusiveRunning /\ i \notin Exclusive
     IN  /\ Pump(queue, activeItems \ {i}, exclusive, cancellationBarriers,
                 [state EXCEPT ![i] = "settled"])
         /\ closing' = IF exclusive \/ cancellationBarriers > 0 THEN closing
                       ELSE ResolveDrain(queue', activeItems', closing)
  /\ UNCHANGED <<cancellationBarriers, accepting, cancelled, reply>>

\* The port made the cancellation durable.
CancellationPersisted(i) ==
  /\ state[i] = "cancelling" /\ reply[i] = None
  /\ reply' = [reply EXCEPT ![i] = "cancelled"]
  /\ UNCHANGED <<queue, state, activeItems, exclusiveRunning, cancellationBarriers,
                 accepting, cancelled, closing>>

\* Mutant: a failed cancellation halts nothing.
CancellationFailsOpen(i) ==
  /\ state[i] = "cancelling" /\ reply[i] = None
  /\ reply' = [reply EXCEPT ![i] = "failed"]
  /\ UNCHANGED <<queue, state, activeItems, exclusiveRunning, cancellationBarriers,
                 accepting, cancelled, closing>>

\* Mutant: halting forgets the promises of the items it drops.
CancellationFailsUnanswered(i) ==
  /\ state[i] = "cancelling" /\ reply[i] = None
  /\ accepting' = FALSE
  /\ queue' = <<>>
  /\ state' = [j \in Items |-> IF j \in Queued(queue) THEN "settled" ELSE state[j]]
  /\ reply' = [reply EXCEPT ![i] = "failed"]
  /\ UNCHANGED <<activeItems, exclusiveRunning, cancellationBarriers, cancelled, closing>>

\* The port threw, or answered anything but EXECUTION_CANCELLED: _halt empties
\* the queue and answers what was in it.
CancellationFails(i) ==
  /\ state[i] = "cancelling" /\ reply[i] = None
  /\ accepting' = FALSE
  /\ queue' = <<>>
  /\ state' = [j \in Items |-> IF j \in Queued(queue) THEN "settled" ELSE state[j]]
  /\ reply' = [j \in Items |-> IF j = i THEN "failed"
                               ELSE IF j \in Queued(queue) THEN "halted" ELSE reply[j]]
  /\ UNCHANGED <<activeItems, exclusiveRunning, cancellationBarriers, cancelled, closing>>

\* Mutant: the finally of a cancellation forgets to pump.
CancellationReleasedSilently(i) ==
  /\ state[i] = "cancelling" /\ reply[i] # None
  /\ state' = [state EXCEPT ![i] = "settled"]
  /\ activeItems' = activeItems \ {i}
  /\ cancellationBarriers' = cancellationBarriers - 1
  /\ closing' = ResolveDrain(queue, activeItems', closing)
  /\ UNCHANGED <<queue, exclusiveRunning, accepting, cancelled, reply>>

\* Mutant: a cancellation released after close() resolves no closer.
CancellationReleasedUndrained(i) ==
  /\ state[i] = "cancelling" /\ reply[i] # None
  /\ cancellationBarriers' = cancellationBarriers - 1
  /\ IF accepting
     THEN Pump(queue, activeItems \ {i}, exclusiveRunning, cancellationBarriers',
               [state EXCEPT ![i] = "settled"])
     ELSE /\ state' = [state EXCEPT ![i] = "settled"]
          /\ activeItems' = activeItems \ {i}
          /\ UNCHANGED <<queue, exclusiveRunning>>
  /\ UNCHANGED <<accepting, cancelled, reply, closing>>

\* The finally of _cancelQueued: it pumps only while requests are accepted.
CancellationReleased(i) ==
  /\ state[i] = "cancelling" /\ reply[i] # None
  /\ cancellationBarriers' = cancellationBarriers - 1
  /\ IF accepting
     THEN /\ Pump(queue, activeItems \ {i}, exclusiveRunning, cancellationBarriers',
                  [state EXCEPT ![i] = "settled"])
          /\ UNCHANGED closing
     ELSE /\ state' = [state EXCEPT ![i] = "settled"]
          /\ activeItems' = activeItems \ {i}
          /\ closing' = ResolveDrain(queue, activeItems', closing)
          /\ UNCHANGED <<queue, exclusiveRunning>>
  /\ UNCHANGED <<accepting, cancelled, reply>>

\* Mutant: close resolves without waiting for the active items.
CloseUndrained(k) ==
  \E mode \in CloseModes :
    /\ closing[k] = "open"
    /\ accepting' = FALSE
    /\ closing' = [closing EXCEPT ![k] = IF queue = <<>> THEN "closed" ELSE "draining"]
    /\ UNCHANGED <<queue, state, activeItems, exclusiveRunning, cancellationBarriers,
                   cancelled, reply>>

\* close: stop accepting, withdraw what may be cancelled, pump when asked to
\* cancel the queue, abort what runs, and wait for the drain.
Close(k) ==
  \E mode \in CloseModes :
    LET withdrawn == IF mode.cancelQueued THEN Queued(queue) \ NonCancellable ELSE {}
        left      == Withdraw(withdrawn, queue)
        active    == activeItems \cup withdrawn
        barriers  == cancellationBarriers + Cardinality(withdrawn)
        marked    == [i \in Items |-> IF i \in withdrawn THEN "cancelling" ELSE state[i]]
    IN  /\ closing[k] = "open"
        /\ accepting' = FALSE
        /\ cancellationBarriers' = barriers
        /\ IF mode.cancelQueued
           THEN Pump(left, active, exclusiveRunning, barriers, marked)
           ELSE UNCHANGED <<queue, activeItems, exclusiveRunning, state>>
        /\ cancelled' = cancelled \cup withdrawn \cup
                          (IF mode.cancelRunning THEN activeItems' \ NonCancellable ELSE {})
        /\ closing' = [closing EXCEPT ![k] =
                         IF queue' = <<>> /\ activeItems' = {} THEN "closed" ELSE "draining"]
        /\ UNCHANGED reply

-----------------------------------------------------------------------------
Init ==
  /\ queue = <<>>
  /\ state = [i \in Items |-> "new"]
  /\ activeItems = {}
  /\ exclusiveRunning = FALSE
  /\ cancellationBarriers = 0
  /\ accepting = TRUE
  /\ cancelled = {}
  /\ reply = [i \in Items |-> None]
  /\ closing = [k \in Closers |-> "open"]

CallerStep(i) ==
  Enqueue(i) \/ EnqueueAborted(i) \/ Reject(i) \/ CancelQueued(i) \/ CancelRunning(i)

Continuation(i) ==
  \/ PortAnswers(i) \/ Release(i)
  \/ CancellationPersisted(i) \/ CancellationFails(i) \/ CancellationReleased(i)

Next == \/ \E i \in Items : CallerStep(i) \/ Continuation(i)
        \/ \E k \in Closers : Close(k)

Spec == Init /\ [][Next]_vars

\* The port answers every call (GovernedExecution!EveryCallSettles) and the
\* event loop runs the continuations of settled promises.
FairSpec == Spec /\ \A i \in Items : WF_vars(Continuation(i))

-----------------------------------------------------------------------------
(* Properties.                                                             *)

States == {"new", "queued", "running", "cancelling", "settled"}

Replies == {"outcome", "cancelled", "failed", "halted", "closed", "capacity"}

ASSUME NoReplyAssumption == None \notin Replies

\* Every variable has its type (scheduler.js constructor, item literal).
TypeOK ==
  /\ queue \in Seq(Items) /\ Len(queue) <= MaxQueue
  /\ state \in [Items -> States]
  /\ activeItems \subseteq Items
  /\ exclusiveRunning \in BOOLEAN
  /\ cancellationBarriers \in 0..Cardinality(Items)
  /\ accepting \in BOOLEAN
  /\ cancelled \subseteq Items \ NonCancellable
  /\ reply \in [Items -> Replies \cup {None}]
  /\ closing \in [Closers -> {"open", "draining", "closed"}]

Running == {i \in Items : state[i] = "running"}

\* Exclusive tools never overlap other work and at most maxConcurrency items
\* run (ADR-0022 failure policy), however starts, completions, cancellations
\* of queued items and close() interleave.
ExclusiveIsolation ==
  /\ Cardinality(Running) <= MaxConcurrency
  /\ \A i \in Running : i \in Exclusive => Running = {i}

\* The counters agree with the items: the queue holds exactly the queued items,
\* once each, and barriers, flags and the active set are never left behind by
\* a settled item nor dropped while an item still needs them.
Bookkeeping ==
  /\ \A i \in Items : state[i] = "queued" <=> i \in Queued(queue)
  /\ Cardinality(Queued(queue)) = Len(queue)
  /\ activeItems = {i \in Items : state[i] \in {"running", "cancelling"}}
  /\ cancellationBarriers = Cardinality({i \in Items : state[i] = "cancelling"})
  /\ exclusiveRunning <=> Running \cap Exclusive # {}
  /\ \A i \in Items : state[i] = "settled" => reply[i] # None

\* While the scheduler accepts requests no start is lost: an item waits only
\* behind a cancellation, an exclusive item, a full complement of active
\* items, or, when it is exclusive itself, behind any active item.
NoLostWakeup ==
  accepting /\ queue # <<>> /\ cancellationBarriers = 0 =>
    \/ exclusiveRunning
    \/ Cardinality(activeItems) >= MaxConcurrency
    \/ Head(queue) \in Exclusive /\ activeItems # {}

\* A closer is told that the scheduler drained only when nothing is queued,
\* running or being cancelled, and from then on nothing ever is.
DrainIsHonest ==
  (\E k \in Closers : closing[k] = "closed") => queue = <<>> /\ activeItems = {} /\ ~accepting

\* A queued cancellation is a durability barrier: between asking the port to
\* record it and its durable answer nothing starts, and once a cancellation
\* has failed nothing starts ever again.
BarrierStep ==
  (\E i \in Items : \/ state[i] = "cancelling" /\ reply[i] = None
                    \/ reply[i] = "failed")
    => \A j \in Items : state[j] # "running" => state'[j] # "running"

CancellationIsBarrier == [][BarrierStep]_vars

\* Nothing overtakes: what starts is taken from the head of the queue, so an
\* item never starts while an older one stays queued, and what stays queued
\* keeps its order.
FifoStep ==
  \A m, n \in 1..Len(queue) : m < n =>
    /\ state'[queue[n]] = "running" => state'[queue[m]] # "queued"
    /\ {queue[m], queue[n]} \subseteq Queued(queue') =>
         \E x, y \in 1..Len(queue') : x < y /\ queue'[x] = queue[m] /\ queue'[y] = queue[n]

NothingOvertakes == [][FifoStep]_vars

\* Every accepted request gets an answer: its handle's promise resolves ("the
\* source of the eventual durable terminal outcome").
EveryHandleSettles == \A i \in Items : state[i] # "new" ~> reply[i] # None

\* As long as nobody closes the scheduler every request gets an answer; those
\* that may be cancelled get one even then, when close() cancels the queue.
HandlesSettle ==
  \A i \in Items :
    state[i] # "new" ~> reply[i] # None \/ (i \in NonCancellable /\ ~accepting)

\* close() returns, unless an item it could not cancel is left in the queue.
CloseReturns ==
  \A k \in Closers : closing[k] = "draining" ~>
    closing[k] = "closed" \/ Queued(queue) \cap NonCancellable # {}
=============================================================================
