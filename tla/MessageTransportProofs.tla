------------------------ MODULE MessageTransportProofs ------------------------
(***************************************************************************)
(* Proofs about MessageTransport for any number of agents, messages and    *)
(* subscriptions, and any capacity, lifetime and rate.                     *)
(***************************************************************************)
EXTENDS MessageTransport, FiniteSetTheorems, TLAPS

LEMMA Parameters ==
  /\ Ttl \in Nat /\ Ttl > 0 /\ MaxInbox \in Nat /\ MaxTime \in Nat
  /\ \A m \in Messages : From[m] \in Agents /\ To[m] \in Agents
  /\ Times \subseteq Nat /\ 0 \in Times
<1>1. /\ Ttl \in Nat \ {0} /\ MaxInbox \in Nat \ {0} /\ MaxTime \in Nat
      /\ From \in [Messages -> Agents] /\ To \in [Messages -> Agents]
  BY TransportAssumption
<1> QED
  BY <1>1 DEF Times

-----------------------------------------------------------------------------
(* Rows.                                                                   *)

Inbox(s, a) == {m \in Open(s) : To[m] = a}

Bounded(s) ==
  /\ IsFiniteSet(Open(s))
  /\ \A a \in Agents : Cardinality(Inbox(s, a)) <= MaxInbox

\* Nothing that is open was overdue at that time.
Fresh(s, at) == \A m \in Open(s) : s.created[m] + Ttl > at

Good(s) == s \in Rows /\ Bounded(s) /\ Fresh(s, s.latest)

\* t is what an operation at that time may make of s.
Result(s, t, at) ==
  /\ Good(t) /\ Forward(s, t)
  /\ \A b \in Nat : b <= at /\ Fresh(s, b) => Fresh(t, b)

\* t is s with a row for each of the messages.
Written(s, ms, status, at, t) ==
  /\ t \in Rows
  /\ \A m \in Messages : t.status[m] = IF m \in ms THEN status ELSE s.status[m]
  /\ t.created = s.created
  /\ t.latest = IF ms = {} THEN s.latest ELSE at

LEMMA PutFacts ==
  ASSUME NEW s \in Rows, NEW ms \in SUBSET Messages, NEW status \in Statuses, NEW at \in Times
  PROVE  Written(s, ms, status, at, Put(s, ms, status, at))
BY DEF Put, Rows, Written

\* With no message opened the bounds stay, and so does the freshness.
LEMMA ShrinkFacts ==
  ASSUME NEW s \in Rows, NEW t \in Rows, Bounded(s),
         Open(t) \subseteq Open(s), t.created = s.created
  PROVE  /\ Bounded(t)
         /\ \A b \in Nat : Fresh(s, b) => Fresh(t, b)
<1>1. IsFiniteSet(Open(t))
  BY FS_Subset DEF Bounded
<1>2. ASSUME NEW a \in Agents
      PROVE  Cardinality(Inbox(t, a)) <= MaxInbox
  <2>1. Inbox(t, a) \in SUBSET Inbox(s, a) /\ Inbox(s, a) \in SUBSET Open(s)
    BY DEF Inbox
  <2>2. IsFiniteSet(Inbox(s, a)) /\ Cardinality(Inbox(s, a)) \in Nat
    BY <2>1, FS_Subset, FS_CardinalityType DEF Bounded
  <2>3. /\ Cardinality(Inbox(t, a)) \in Nat
        /\ Cardinality(Inbox(t, a)) <= Cardinality(Inbox(s, a))
    BY <2>1, <2>2, FS_Subset, FS_CardinalityType
  <2> QED
    BY <2>2, <2>3, Parameters DEF Bounded
<1>3. \A b \in Nat : Fresh(s, b) => Fresh(t, b)
  BY DEF Fresh
<1> QED
  BY <1>1, <1>2, <1>3 DEF Bounded

LEMMA CreatedFacts ==
  ASSUME NEW s \in Rows
  PROVE  /\ s.latest \in Nat
         /\ \A m \in Messages : s.created[m] + Ttl \in Nat
         /\ \A m \in Open(s) : m \in Messages
<1>1. s.latest \in Times /\ \A m \in Messages : s.created[m] \in Times
  BY DEF Rows
<1>2. s.latest \in Nat /\ \A m \in Messages : s.created[m] \in Nat
  BY <1>1, Parameters
<1>3. \A m \in Messages : s.created[m] + Ttl \in Nat
  BY <1>2, Parameters
<1>4. \A m \in Open(s) : m \in Messages
  BY DEF Open
<1> QED
  BY <1>2, <1>3, <1>4

\* What is fresh at a time was fresh before.
LEMMA FreshEarlier ==
  ASSUME NEW s \in Rows, NEW b \in Nat, NEW c \in Nat, b <= c, Fresh(s, c)
  PROVE  Fresh(s, b)
<1>1. \A m \in Open(s) : m \in Messages /\ s.created[m] + Ttl \in Nat
  BY CreatedFacts
<1> QED
  BY <1>1 DEF Fresh

LEMMA ExpireFacts ==
  ASSUME NEW s, Good(s), NEW at \in Times
  PROVE  /\ Result(s, Expire(s, at), at)
         /\ Fresh(Expire(s, at), at)
         /\ Open(Expire(s, at)) \subseteq Open(s)
         /\ Expire(s, at).created = s.created
         /\ \A m \in Messages :
              \/ Expire(s, at).status[m] = s.status[m]
              \/ Expire(s, at).status[m] = "expired" /\ s.status[m] \in {"held", "delivered"}
<1> DEFINE ms == {m \in Open(s) : s.created[m] + Ttl <= at}
           e == Put(s, ms, "expired", at)
<1>1. s \in Rows /\ ms \in SUBSET Messages /\ Expire(s, at) = e /\ "expired" \in Statuses
  BY DEF Good, Open, Expire, Statuses
<1>2. Written(s, ms, "expired", at, e)
  BY <1>1, PutFacts
<1>3. \A m \in Messages : m \in ms => s.status[m] \in {"held", "delivered"}
  BY DEF Open
<1>4. \A m \in Open(s) : m \notin ms => s.created[m] + Ttl > at
  <2>1. \A m \in Open(s) : s.created[m] + Ttl \in Nat
    BY <1>1, CreatedFacts DEF Open
  <2> QED
    BY <2>1, Parameters
<1> HIDE DEF ms, e
<1> USE DEF Written
<1>5. Open(e) = Open(s) \ ms
  BY <1>2, <1>3 DEF Open
<1>6. Fresh(e, at)
  BY <1>2, <1>4, <1>5 DEF Fresh
<1>7. Bounded(e) /\ \A b \in Nat : Fresh(s, b) => Fresh(e, b)
  BY <1>1, <1>2, <1>5, ShrinkFacts DEF Good
<1>8. Fresh(e, e.latest)
  <2>1. s.latest \in Nat
    BY <1>1, Parameters, CreatedFacts
  <2> QED
    BY <1>2, <1>6, <1>7, <2>1 DEF Good
<1>9. Forward(s, e)
  BY <1>2, <1>3 DEF Forward
<1> QED
  BY <1>1, <1>2, <1>3, <1>5, <1>6, <1>7, <1>8, <1>9 DEF Result, Good

\* A row for messages that are open already, after the expiries of its time.
LEMMA DecideFacts ==
  ASSUME NEW s, Good(s), NEW at \in Times, Fresh(s, at),
         NEW ms \in SUBSET Open(s), NEW status \in Statuses
  PROVE  /\ Good(Put(s, ms, status, at))
         /\ \A b \in Nat : Fresh(s, b) => Fresh(Put(s, ms, status, at), b)
         /\ Open(Put(s, ms, status, at)) \subseteq Open(s)
<1> DEFINE t == Put(s, ms, status, at)
<1>1. s \in Rows /\ ms \in SUBSET Messages
  BY DEF Good, Open
<1>2. Written(s, ms, status, at, t)
  BY <1>1, PutFacts
<1> HIDE DEF t
<1> USE DEF Written
<1>3. Open(t) \subseteq Open(s)
  BY <1>2 DEF Open
<1>4. Bounded(t) /\ \A b \in Nat : Fresh(s, b) => Fresh(t, b)
  BY <1>1, <1>2, <1>3, ShrinkFacts DEF Good
<1>5. Fresh(t, t.latest)
  <2>1. s.latest \in Nat /\ at \in Nat
    BY <1>1, Parameters, CreatedFacts
  <2> QED
    BY <1>2, <1>4, <2>1 DEF Good
<1> QED
  BY <1>2, <1>3, <1>4, <1>5 DEF t, Good

\* A new message, when there is room for it.
LEMMA EnqueueFacts ==
  ASSUME NEW s, Good(s), NEW at \in Times, Fresh(s, at),
         NEW m \in Messages, NEW d \in Decisions, Admitted(s, m, at)
  PROVE  Result(s, Enqueue(s, m, d, at), at)
<1> DEFINE p == Put(s, {m}, d, at)
           t == Enqueue(s, m, d, at)
<1>1. s \in Rows /\ d \in Statuses /\ at \in Nat
  BY Parameters DEF Good, Decisions, Statuses
<1>2. Written(s, {m}, d, at, p)
  BY <1>1, PutFacts
<1>3. t = [p EXCEPT !.created[m] = at]
  BY DEF Enqueue
<1> HIDE DEF p, t
<1> USE DEF Written
<1>4. /\ t \in Rows /\ t.latest = at
      /\ \A n \in Messages : t.status[n] = IF n = m THEN d ELSE s.status[n]
      /\ \A n \in Messages : t.created[n] = IF n = m THEN at ELSE s.created[n]
  BY <1>2, <1>3 DEF Rows
<1>5. s.status[m] = "none" /\ m \notin Open(s)
  BY DEF Admitted, SameKey, Open
<1>6. Open(t) \subseteq Open(s) \cup {m}
  BY <1>4 DEF Open
<1>7. IsFiniteSet(Open(s)) /\ IsFiniteSet(Open(t))
  <2>1. IsFiniteSet(Open(s))
    BY DEF Good, Bounded
  <2>2. IsFiniteSet(Open(s) \cup {m})
    BY <2>1, FS_AddElement
  <2> QED
    BY <1>6, <2>1, <2>2, FS_Subset
<1>8. ASSUME NEW a \in Agents
      PROVE  Cardinality(Inbox(t, a)) <= MaxInbox
  <2>1. Inbox(s, a) \in SUBSET Open(s)
    BY DEF Inbox
  <2>2. IsFiniteSet(Inbox(s, a)) /\ Cardinality(Inbox(s, a)) \in Nat
    BY <1>7, <2>1, FS_Subset, FS_CardinalityType
  <2>3. CASE a = To[m]
    <3>1. Cardinality(Inbox(s, a)) < MaxInbox
      BY <2>3 DEF Admitted, Fits, Inbox
    <3>2. Inbox(t, a) \in SUBSET (Inbox(s, a) \cup {m}) /\ m \notin Inbox(s, a)
      BY <1>5, <1>6 DEF Inbox
    <3>3. /\ IsFiniteSet(Inbox(s, a) \cup {m})
          /\ Cardinality(Inbox(s, a) \cup {m}) = Cardinality(Inbox(s, a)) + 1
      BY <2>2, <3>2, FS_AddElement
    <3>4. /\ Cardinality(Inbox(t, a)) \in Nat
          /\ Cardinality(Inbox(t, a)) <= Cardinality(Inbox(s, a) \cup {m})
      BY <3>2, <3>3, FS_Subset, FS_CardinalityType
    <3> QED
      BY <2>2, <3>1, <3>3, <3>4, Parameters
  <2>4. CASE a # To[m]
    <3>1. Inbox(t, a) \in SUBSET Inbox(s, a)
      BY <1>6, <2>4 DEF Inbox
    <3>2. /\ Cardinality(Inbox(t, a)) \in Nat
          /\ Cardinality(Inbox(t, a)) <= Cardinality(Inbox(s, a))
      BY <2>2, <3>1, FS_Subset, FS_CardinalityType
    <3> QED
      BY <2>2, <3>2, Parameters DEF Good, Bounded
  <2> QED
    BY <2>3, <2>4
<1>9. ASSUME NEW b \in Nat, b <= at, Fresh(s, b)
      PROVE  Fresh(t, b)
  <2>1. at + Ttl > b
    BY <1>1, <1>9, Parameters
  <2> QED
    BY <1>4, <1>6, <1>9, <2>1 DEF Fresh, Open
<1>10. Fresh(t, t.latest)
  <2>1. Fresh(t, at)
    BY <1>1, <1>9
  <2> QED
    BY <1>4, <2>1
<1>11. Forward(s, t)
  BY <1>4, <1>5 DEF Forward
<1> QED
  BY <1>4, <1>7, <1>8, <1>9, <1>10, <1>11 DEF t, Result, Good, Bounded
-----------------------------------------------------------------------------
(* The operations.                                                         *)

LEMMA SameResult == ASSUME NEW s, Good(s), NEW at PROVE Result(s, s, at)
BY DEF Result, Forward

\* Every operation expires before it does anything else.
LEMMA AfterExpire ==
  ASSUME NEW s, Good(s), NEW at \in Times, NEW t, Result(Expire(s, at), t, at)
  PROVE  Result(s, t, at)
<1> DEFINE e == Expire(s, at)
<1>1. /\ Result(s, e, at) /\ Result(e, t, at)
      /\ \A m \in Messages :
           \/ e.status[m] = s.status[m]
           \/ e.status[m] = "expired" /\ s.status[m] \in {"held", "delivered"}
  BY ExpireFacts
<1> HIDE DEF e
<1>2. Forward(s, e) /\ Forward(e, t)
  BY <1>1 DEF Result
<1>3. Forward(s, t)
  <2> SUFFICES ASSUME NEW m \in Messages, s.status[m] # t.status[m]
               PROVE  \/ s.status[m] = "none"
                      \/ s.status[m] = "held" /\ t.status[m] \in {"delivered", "refused", "expired"}
                      \/ s.status[m] = "delivered" /\ t.status[m] \in {"expired", "acknowledged"}
    BY DEF Forward
  <2>1. CASE e.status[m] = s.status[m]
    BY <1>2, <2>1 DEF Forward
  <2>2. CASE e.status[m] = "expired" /\ s.status[m] \in {"held", "delivered"}
    BY <1>2, <2>2 DEF Forward
  <2> QED
    BY <1>1, <2>1, <2>2
<1> QED
  BY <1>1, <1>3 DEF Result

LEMMA ReceivedResult ==
  ASSUME NEW s, Good(s), NEW at \in Times
  PROVE  Result(s, Received(s, at), at)
BY ExpireFacts, SameResult DEF Received

LEMMA AcknowledgedResult ==
  ASSUME NEW s, Good(s), NEW at \in Times, NEW a \in Agents, NEW m \in Messages
  PROVE  Result(s, Acknowledged(s, a, m, at), at)
<1> DEFINE e == Expire(s, at)
           t == Put(e, {m}, "acknowledged", at)
<1>1. Result(s, e, at) /\ Fresh(e, at)
  BY ExpireFacts
<1>2. Acknowledged(s, a, m, at) \in {s, e, t}
      /\ (Acknowledged(s, a, m, at) \notin {s, e} => e.status[m] = "delivered")
  BY DEF Acknowledged
<1>3. ASSUME e.status[m] = "delivered"
      PROVE  Result(s, t, at)
  <2> HIDE DEF e
  <2>1. Good(e) /\ {m} \in SUBSET Open(e) /\ "acknowledged" \in Statuses /\ e \in Rows
    BY <1>1, <1>3 DEF Result, Open, Statuses, Good
  <2>2. Good(t) /\ \A b \in Nat : Fresh(e, b) => Fresh(t, b)
    BY <1>1, <2>1, DecideFacts
  <2>3. Written(e, {m}, "acknowledged", at, t)
    BY <2>1, PutFacts
  <2> HIDE DEF t
  <2>4. Forward(e, t)
    BY <1>3, <2>3 DEF Forward, Written
  <2>5. Result(e, t, at)
    BY <2>2, <2>4 DEF Result
  <2> QED
    BY <2>5, AfterExpire DEF e
<1> QED
  BY <1>1, <1>2, <1>3, SameResult

LEMMA SentResult ==
  ASSUME NEW s, Good(s), NEW at \in Times, NEW m \in Messages, NEW d \in Decisions
  PROVE  Result(s, Sent(s, m, d, at), at)
<1> DEFINE e == Expire(s, at)
<1>1. Result(s, e, at) /\ Fresh(e, at)
  BY ExpireFacts
<1>2. \/ Sent(s, m, d, at) \in {s, e}
      \/ Sent(s, m, d, at) = Enqueue(e, m, d, at) /\ Admitted(e, m, at)
  BY DEF Sent, Sendable
<1>3. ASSUME Admitted(e, m, at)
      PROVE  Result(s, Enqueue(e, m, d, at), at)
  <2>1. Good(e)
    BY <1>1 DEF Result
  <2>2. Result(e, Enqueue(e, m, d, at), at)
    BY <1>1, <1>3, <2>1, EnqueueFacts
  <2> QED
    BY <2>2, AfterExpire
<1> QED
  BY <1>1, <1>2, <1>3, SameResult

LEMMA FlushedResult ==
  ASSUME NEW s, Good(s), NEW at \in Times, NEW a \in Agents,
         NEW x \in SUBSET HeldFor(Expire(s, at), a),
         NEW y \in SUBSET HeldFor(Expire(s, at), a), x \cap y = {}
  PROVE  Result(s, Flushed(s, x, y, at), at)
<1> DEFINE e == Expire(s, at)
           u == Put(e, x, "delivered", at)
           t == Put(u, y, "refused", at)
<1>1. Result(s, e, at) /\ Fresh(e, at)
  BY ExpireFacts
<1>2. /\ x \in SUBSET Open(e) /\ y \in SUBSET Open(e)
      /\ \A m \in x \cup y : e.status[m] = "held"
  BY DEF HeldFor
<1>3. Flushed(s, x, y, at) = t
  BY DEF Flushed
<1>4. Good(e) /\ e \in Rows /\ x \in SUBSET Messages /\ y \in SUBSET Messages
      /\ {"delivered", "refused"} \subseteq Statuses /\ at \in Nat
  BY <1>1, <1>2, Parameters DEF Result, Good, Open, Statuses
<1> HIDE DEF e
<1>5. Good(u) /\ \A b \in Nat : Fresh(e, b) => Fresh(u, b)
  BY <1>1, <1>2, <1>4, DecideFacts
<1>6. Written(e, x, "delivered", at, u)
  BY <1>4, PutFacts
<1> HIDE DEF u
<1>7. y \in SUBSET Open(u) /\ Fresh(u, at) /\ u \in Rows
  BY <1>1, <1>2, <1>4, <1>5, <1>6 DEF Written, Open
<1>8. Good(t) /\ \A b \in Nat : Fresh(u, b) => Fresh(t, b)
  BY <1>4, <1>5, <1>7, DecideFacts
<1>9. Written(u, y, "refused", at, t)
  BY <1>4, <1>7, PutFacts
<1> HIDE DEF t
<1>10. Forward(e, t)
  BY <1>2, <1>6, <1>9 DEF Forward, Written
<1>11. Result(e, t, at)
  BY <1>5, <1>8, <1>10 DEF Result
<1> QED
  BY <1>3, <1>11, AfterExpire DEF e

\* Whatever the policy calls.
LEMMA NestedResult ==
  ASSUME NEW s, Good(s), NEW at \in Times, NEW a \in Agents, NEW t \in Nested(s, a, at)
  PROVE  Result(s, t, at)
<1> DEFINE held == {m \in HeldFor(Expire(s, at), a) : Admits(s, at) /\ s.stamp[m] <= at}
<1>1. \/ t = Received(s, at)
      \/ \E m \in Messages : t = Acknowledged(s, a, m, at)
      \/ \E m \in Messages, d \in Decisions : t = Sent(s, m, d, at)
      \/ \E x \in SUBSET held, y \in SUBSET held : x \cap y = {} /\ t = Flushed(s, x, y, at)
  BY DEF Nested
<1>2. \A x \in SUBSET held : x \in SUBSET HeldFor(Expire(s, at), a)
  OBVIOUS
<1> HIDE DEF held
<1> QED
  BY <1>1, <1>2, ReceivedResult, AcknowledgedResult, SentResult, FlushedResult

-----------------------------------------------------------------------------
(* The inductive invariant.                                                *)

\* What has ended in the committed rows has ended in the rows the open
\* transaction sees, and these are fresh at the time of the transaction.
RowsInv ==
  /\ Good(store) /\ Good(work)
  /\ tx = None => work = store
  /\ tx # None => tx \in Transactions /\ Fresh(work, tx.at)
  /\ \A m \in Messages : store.status[m] \in {"refused", "expired", "acknowledged"} =>
       work.status[m] = store.status[m]

\* A subscription that was answered is claimed, and waits no more.
PresenceInv ==
  /\ idle \in BOOLEAN /\ waiting \subseteq claimed /\ claimed \subseteq Subscriptions
  /\ answers \in [Subscriptions -> Nat]
  /\ \A i \in Subscriptions : answers[i] <= 1
  /\ \A i \in Subscriptions : answers[i] # 0 => i \in claimed /\ i \notin waiting

Inv == RowsInv /\ lastNow \in [Agents -> Times] /\ PresenceInv

\* Committing what an operation makes of the rows it sees.
LEMMA CommitStep ==
  ASSUME RowsInv, NEW at, NEW t, Result(work, t, at), Commit(t)
  PROVE  RowsInv' /\ ForwardStep
<1>1. store' = t /\ work' = t /\ tx' = None
  BY DEF Commit
<1>2. Good(t) /\ Forward(work, t)
  BY DEF Result
<1>3. Good(store)' /\ Good(work)'
  BY <1>1, <1>2 DEF Good, Bounded, Fresh, Open, Inbox
<1>4. RowsInv'
  BY <1>1, <1>3 DEF RowsInv
<1>5. ForwardStep
  BY <1>1, <1>2 DEF RowsInv, ForwardStep, Forward
<1> QED
  BY <1>4, <1>5

\* Giving the open transaction up.
LEMMA UndoStep ==
  ASSUME RowsInv, Commit(store)
  PROVE  RowsInv' /\ ForwardStep
<1>1. store' = store /\ work' = store /\ tx' = None
  BY DEF Commit
<1>2. Good(store)' /\ Good(work)'
  BY <1>1 DEF RowsInv, Good, Bounded, Fresh, Open, Inbox
<1> QED
  BY <1>1, <1>2 DEF RowsInv, ForwardStep

\* Going on inside a transaction.
LEMMA OpenStep ==
  ASSUME RowsInv, NEW at, Result(work, work', at), UNCHANGED store,
         tx' \in Transactions, Fresh(work', tx'.at)
  PROVE  RowsInv' /\ ForwardStep
<1>1. Good(work') /\ Forward(work, work')
  BY DEF Result
<1>2. Good(store)' /\ Good(work)' /\ Fresh(work, tx.at)'
  BY <1>1 DEF RowsInv, Good, Bounded, Fresh, Open, Inbox
<1>3. tx' # None
  BY NoTransactionAssumption
<1> QED
  BY <1>1, <1>2, <1>3 DEF RowsInv, ForwardStep, Forward
-----------------------------------------------------------------------------
(* The actions.                                                            *)

Clocks == lastNow \in [Agents -> Times]

LEMMA ReadsFacts ==
  ASSUME Clocks, NEW a, NEW at \in Times, Reads(a, at)
  PROVE  Clocks'
BY DEF Clocks, Reads

\* Presence leaves the rows alone.
LEMMA RowsKept ==
  ASSUME RowsInv, UNCHANGED rows
  PROVE  RowsInv' /\ ForwardStep
<1>1. store' = store /\ work' = work /\ tx' = tx
  BY DEF rows
<1> QED
  BY <1>1 DEF RowsInv, Good, Bounded, Fresh, Open, Inbox, ForwardStep, Forward

LEMMA PresenceKept == ASSUME PresenceInv, UNCHANGED presence PROVE PresenceInv'
BY DEF presence, PresenceInv

\* Outside a transaction the committed rows are the rows.
LEMMA ClosedFacts == ASSUME RowsInv, tx = None PROVE work = store /\ Good(store)
BY DEF RowsInv

\* What an action has to keep.
Kept == RowsInv' /\ ForwardStep /\ Clocks' /\ PresenceInv'

LEMMA ReceiveKeeps ==
  ASSUME Inv, NEW a \in Agents, NEW at \in Times, Receive(a, at)
  PROVE  Kept
<1>1. Reads(a, at) /\ Commit(Received(store, at)) /\ work = store /\ Good(work)
  BY ClosedFacts DEF Inv, Receive
<1>2. Result(work, Received(work, at), at)
  BY <1>1, ReceivedResult
<1>3. Clocks' /\ PresenceInv'
  BY <1>1, ReadsFacts, PresenceKept DEF Inv, Clocks, Receive
<1> QED
  BY <1>1, <1>2, <1>3, CommitStep DEF Inv, Kept

LEMMA AcknowledgeKeeps ==
  ASSUME Inv, NEW a \in Agents, NEW m \in Messages, NEW at \in Times, Acknowledge(a, m, at)
  PROVE  Kept
<1>1. Reads(a, at) /\ Commit(Acknowledged(store, a, m, at)) /\ work = store /\ Good(work)
  BY ClosedFacts DEF Inv, Acknowledge
<1>2. Result(work, Acknowledged(work, a, m, at), at)
  BY <1>1, AcknowledgedResult
<1>3. Clocks' /\ PresenceInv'
  BY <1>1, ReadsFacts, PresenceKept DEF Inv, Clocks, Acknowledge
<1> QED
  BY <1>1, <1>2, <1>3, CommitStep DEF Inv, Kept

LEMMA SendEndsKeeps ==
  ASSUME Inv, NEW m \in Messages, NEW at \in Times, SendEnds(m, at)
  PROVE  Kept
<1>1. Reads(From[m], at) /\ Commit(Sent(store, m, "held", at)) /\ work = store /\ Good(work)
  BY ClosedFacts DEF Inv, SendEnds
<1>2. "held" \in Decisions
  BY DEF Decisions
<1>3. Result(work, Sent(work, m, "held", at), at)
  BY <1>1, <1>2, SentResult
<1>4. Clocks' /\ PresenceInv'
  BY <1>1, ReadsFacts, PresenceKept DEF Inv, Clocks, SendEnds
<1> QED
  BY <1>1, <1>3, <1>4, CommitStep DEF Inv, Kept

LEMMA SendKeeps ==
  ASSUME Inv, NEW m \in Messages, NEW at \in Times, Send(m, at)
  PROVE  Kept
<1>1. /\ Reads(From[m], at) /\ work = store /\ Good(work)
      /\ Admits(store, at) /\ work' = Sendable(store, m, at)
      /\ tx' = [relay |-> From[m], op |-> "send", at |-> at, todo |-> {m}]
      /\ UNCHANGED store
  BY ClosedFacts DEF Inv, Send
<1>2. work' = Expire(work, at)
  BY <1>1 DEF Sendable
<1>3. Result(work, work', at) /\ Fresh(work', at)
  BY <1>1, <1>2, ExpireFacts
<1>4. tx' \in Transactions /\ tx'.at = at
  BY <1>1, Parameters DEF Transactions
<1>5. Clocks' /\ PresenceInv'
  BY <1>1, ReadsFacts, PresenceKept DEF Inv, Clocks, Send
<1> QED
  BY <1>1, <1>3, <1>4, <1>5, OpenStep DEF Inv, Kept

LEMMA FlushHeldKeeps ==
  ASSUME Inv, NEW a \in Agents, NEW at \in Times, FlushHeld(a, at)
  PROVE  Kept
<1>1. Reads(a, at) /\ work = store /\ Good(work)
  BY ClosedFacts DEF Inv, FlushHeld
<1>2. Clocks' /\ PresenceInv'
  BY <1>1, ReadsFacts, PresenceKept DEF Inv, Clocks, FlushHeld
<1>3. CASE Admits(store, at)
  <2>1. /\ work' = Expire(work, at) /\ UNCHANGED store
        /\ tx' = [relay |-> a, op |-> "flush", at |-> at, todo |-> HeldFor(work', a)]
    BY <1>1, <1>3 DEF FlushHeld
  <2>2. Result(work, work', at) /\ Fresh(work', at)
    BY <1>1, <2>1, ExpireFacts
  <2>3. HeldFor(work', a) \in SUBSET Messages
    BY DEF HeldFor, Open
  <2>4. tx' \in Transactions /\ tx'.at = at
    BY <2>1, <2>3 DEF Transactions
  <2> QED
    BY <1>2, <2>1, <2>2, <2>4, OpenStep DEF Inv, Kept
<1>4. CASE ~Admits(store, at)
  <2>1. Commit(store)
    BY <1>4 DEF FlushHeld
  <2> QED
    BY <1>2, <2>1, UndoStep DEF Inv, Kept
<1> QED
  BY <1>3, <1>4

LEMMA PolicyCallsKeeps ==
  ASSUME Inv, NEW a \in Agents, NEW at \in Times, PolicyCalls(a, at)
  PROVE  Kept
<1>1. /\ tx # None /\ Reads(a, at) /\ at >= tx.at /\ work' \in Nested(work, a, at)
      /\ UNCHANGED <<store, tx>> /\ UNCHANGED presence
  BY DEF PolicyCalls
<1>2. Good(work) /\ tx \in Transactions /\ Fresh(work, tx.at)
  BY <1>1 DEF Inv, RowsInv
<1>3. tx.at \in Nat /\ tx.at <= at
  BY <1>1, <1>2, Parameters DEF Transactions
<1>4. Result(work, work', at)
  BY <1>1, <1>2, NestedResult
<1>5. Fresh(work', tx'.at)
  BY <1>1, <1>2, <1>3, <1>4 DEF Result
<1>6. Clocks' /\ PresenceInv'
  BY <1>1, ReadsFacts, PresenceKept DEF Inv, Clocks
<1> QED
  BY <1>1, <1>2, <1>4, <1>5, <1>6, OpenStep DEF Inv, Kept

\* The clocks and the presence stay.
LEMMA OthersKept ==
  ASSUME Inv, UNCHANGED <<lastNow, presence>>
  PROVE  Clocks' /\ PresenceInv'
BY PresenceKept DEF Inv, Clocks

LEMMA PolicyFailsKeeps == ASSUME Inv, PolicyFails PROVE Kept
BY UndoStep, OthersKept DEF Inv, PolicyFails, Kept

LEMMA SendDecidedKeeps ==
  ASSUME Inv, NEW m \in Messages, NEW d \in Decisions, SendDecided(m, d)
  PROVE  Kept
<1>1. Clocks' /\ PresenceInv'
  BY OthersKept DEF SendDecided
<1>2. Good(work) /\ Fresh(work, tx.at) /\ tx.at \in Times
  BY DEF Inv, RowsInv, SendDecided, Transactions
<1>3. CASE Admitted(work, m, tx.at)
  <2>1. Commit(Enqueue(work, m, d, tx.at))
    BY <1>3 DEF SendDecided
  <2>2. Result(work, Enqueue(work, m, d, tx.at), tx.at)
    BY <1>2, <1>3, EnqueueFacts
  <2> QED
    BY <1>1, <2>1, <2>2, CommitStep DEF Inv, Kept
<1>4. CASE ~Admitted(work, m, tx.at)
  <2>1. Commit(store)
    BY <1>4 DEF SendDecided
  <2> QED
    BY <1>1, <2>1, UndoStep DEF Inv, Kept
<1> QED
  BY <1>3, <1>4

LEMMA FlushDecidedKeeps ==
  ASSUME Inv, NEW m \in Messages, NEW d \in Decisions, FlushDecided(m, d)
  PROVE  Kept
<1>1. Clocks' /\ PresenceInv'
  BY OthersKept DEF FlushDecided
<1>2. Good(work) /\ Fresh(work, tx.at) /\ tx \in Transactions /\ tx.at \in Times
  BY DEF Inv, RowsInv, FlushDecided, Transactions
<1> DEFINE rest == [tx EXCEPT !.todo = @ \ {m}]
<1>3. rest \in Transactions /\ rest.at = tx.at
  BY <1>2 DEF Transactions
<1> HIDE DEF rest
<1>4. CASE d = "held"
  <2>1. tx' = rest /\ UNCHANGED <<store, work>>
    BY <1>4 DEF FlushDecided, rest
  <2>2. Result(work, work', tx.at)
    BY <1>2, <2>1, SameResult
  <2> QED
    BY <1>1, <1>2, <1>3, <2>1, <2>2, OpenStep DEF Inv, Kept
<1>5. CASE d # "held" /\ work.status[m] = "held" /\ work.stamp[m] <= tx.at
  <2> DEFINE t == Put(work, {m}, d, tx.at)
  <2>1. tx' = rest /\ work' = t /\ UNCHANGED store
    BY <1>5 DEF FlushDecided, rest
  <2>2. {m} \in SUBSET Open(work) /\ d \in Statuses /\ d \in {"delivered", "refused"}
        /\ work \in Rows
    BY <1>2, <1>5 DEF Open, Decisions, Statuses, Good
  <2>3. Good(t) /\ \A b \in Nat : Fresh(work, b) => Fresh(t, b)
    BY <1>2, <2>2, DecideFacts
  <2>4. Written(work, {m}, d, tx.at, t)
    BY <1>2, <2>2, PutFacts
  <2> HIDE DEF t
  <2>5. Forward(work, t)
    BY <1>5, <2>2, <2>4 DEF Forward, Written
  <2>6. Result(work, work', tx.at)
    BY <2>1, <2>3, <2>5 DEF Result
  <2>7. Fresh(work', tx'.at)
    BY <1>2, <1>3, <2>1, <2>3, Parameters
  <2> QED
    BY <1>1, <1>3, <2>1, <2>6, <2>7, OpenStep DEF Inv, Kept
<1>6. CASE d # "held" /\ ~(work.status[m] = "held" /\ work.stamp[m] <= tx.at)
  <2>1. Commit(store)
    BY <1>6 DEF FlushDecided
  <2> QED
    BY <1>1, <2>1, UndoStep DEF Inv, Kept
<1> QED
  BY <1>4, <1>5, <1>6

LEMMA FlushEndsKeeps == ASSUME Inv, FlushEnds PROVE Kept
<1>1. Commit(work) /\ Good(work) /\ Clocks' /\ PresenceInv'
  BY OthersKept DEF Inv, RowsInv, FlushEnds
<1>2. Result(work, work, tx.at)
  BY <1>1, SameResult
<1> QED
  BY <1>1, <1>2, CommitStep DEF Inv, Kept

LEMMA NotifyWhenIdleKeeps ==
  ASSUME Inv, NEW i \in Subscriptions, NEW a \in Agents, NEW at \in Times,
         NotifyWhenIdle(i, a, at)
  PROVE  Kept
<1>1. RowsInv' /\ ForwardStep /\ Clocks'
  BY RowsKept, ReadsFacts DEF Inv, Clocks, NotifyWhenIdle
<1>2. CASE Claimable(i) /\ Admits(store, at)
  <2>1. answers[i] = 0
    BY <1>2 DEF Claimable, Inv, PresenceInv
  <2>2. claimed' = claimed \cup {i} /\ idle' = idle
    BY <1>2 DEF NotifyWhenIdle
  <2>3. CASE idle
    <3>1. Answer({i}) /\ waiting' = waiting
      BY <1>2, <2>3 DEF NotifyWhenIdle
    <3>2. i \notin waiting
      BY <1>2 DEF Claimable, Inv, PresenceInv
    <3> QED
      BY <1>1, <2>1, <2>2, <3>1, <3>2 DEF Inv, PresenceInv, Answer, Kept
  <2>4. CASE ~idle
    <3>1. waiting' = waiting \cup {i} /\ answers' = answers
      BY <1>2, <2>4 DEF NotifyWhenIdle
    <3> QED
      BY <1>1, <2>1, <2>2, <3>1 DEF Inv, PresenceInv, Kept
  <2> QED
    BY <2>3, <2>4
<1>3. CASE ~(Claimable(i) /\ Admits(store, at))
  <2>1. UNCHANGED presence
    BY <1>3 DEF NotifyWhenIdle, presence
  <2> QED
    BY <1>1, <2>1, PresenceKept DEF Inv, Kept
<1> QED
  BY <1>2, <1>3

\* Answering those who wait, who wait no more.
LEMMA AnswerFacts ==
  ASSUME PresenceInv, NEW S \in SUBSET waiting, Answer(S), waiting' = waiting \ S,
         claimed' = claimed, idle' \in BOOLEAN
  PROVE  PresenceInv'
<1>1. \A i \in S : answers[i] = 0 /\ i \in claimed /\ i \in Subscriptions
  BY DEF PresenceInv
<1>2. \A i \in Subscriptions : answers'[i] = IF i \in S THEN answers[i] + 1 ELSE answers[i]
  BY DEF Answer
<1>3. answers' \in [Subscriptions -> Nat]
  BY DEF Answer, PresenceInv
<1> QED
  BY <1>1, <1>2, <1>3 DEF PresenceInv

LEMMA SetIdleKeeps == ASSUME Inv, NEW value \in BOOLEAN, SetIdle(value) PROVE Kept
<1>1. RowsInv' /\ ForwardStep /\ Clocks'
  BY RowsKept DEF Inv, Clocks, SetIdle
<1>2. CASE value
  BY <1>1, <1>2, AnswerFacts DEF Inv, SetIdle, Kept
<1>3. CASE ~value
  BY <1>1, <1>3 DEF Inv, SetIdle, Kept, PresenceInv
<1> QED
  BY <1>2, <1>3

LEMMA SubscriptionTimesOutKeeps ==
  ASSUME Inv, NEW i \in Subscriptions, SubscriptionTimesOut(i)
  PROVE  Kept
<1>1. RowsInv' /\ ForwardStep /\ Clocks'
  BY RowsKept DEF Inv, Clocks, SubscriptionTimesOut
<1>2. /\ {i} \in SUBSET waiting /\ Answer({i}) /\ waiting' = waiting \ {i}
      /\ claimed' = claimed /\ idle' \in BOOLEAN
  BY DEF Inv, PresenceInv, SubscriptionTimesOut
<1> QED
  BY <1>1, <1>2, AnswerFacts DEF Inv, Kept

LEMMA CrashKeeps == ASSUME Inv, Crash PROVE Kept
<1>1. RowsInv' /\ ForwardStep
  BY UndoStep DEF Inv, Crash
<1>2. Clocks'
  BY Parameters DEF Clocks, Crash
<1>3. PresenceInv'
  BY DEF Inv, PresenceInv, Crash
<1> QED
  BY <1>1, <1>2, <1>3 DEF Kept

LEMMA StepKeeps == ASSUME Inv, [Next]_vars PROVE Inv' /\ (Next => ForwardStep)
<1>1. CASE Operation
  BY <1>1, ReceiveKeeps, FlushHeldKeeps, PolicyCallsKeeps, AcknowledgeKeeps, SendKeeps,
     SendEndsKeeps DEF Operation, Kept, Inv, Clocks
<1>2. CASE Policy
  BY <1>2, PolicyFailsKeeps, SendDecidedKeeps, FlushDecidedKeeps, FlushEndsKeeps
     DEF Policy, Kept, Inv, Clocks
<1>3. CASE Presence
  BY <1>3, NotifyWhenIdleKeeps, SetIdleKeeps, SubscriptionTimesOutKeeps
     DEF Presence, Kept, Inv, Clocks
<1>4. CASE Crash
  BY <1>4, CrashKeeps DEF Kept, Inv, Clocks
<1>5. CASE UNCHANGED vars
  <2>1. UNCHANGED rows /\ UNCHANGED lastNow /\ UNCHANGED presence
    BY <1>5 DEF vars
  <2> QED
    BY <2>1, RowsKept, PresenceKept DEF Inv
<1> QED
  BY <1>1, <1>2, <1>3, <1>4, <1>5 DEF Next

LEMMA InitInv == Init => Inv
<1> SUFFICES ASSUME Init PROVE Inv
  OBVIOUS
<1>1. store \in Rows /\ store.latest = 0 /\ \A m \in Messages : store.status[m] = "none"
  BY Parameters DEF Init, Rows, Statuses
<1>2. Open(store) = {}
  BY <1>1 DEF Open
<1>3. \A a \in Agents : Inbox(store, a) = {}
  BY <1>2 DEF Inbox
<1>4. Good(store)
  BY <1>1, <1>2, <1>3, FS_EmptySet, Parameters DEF Good, Bounded, Fresh
<1>5. RowsInv
  BY <1>4 DEF RowsInv, Init
<1>6. lastNow \in [Agents -> Times] /\ answers \in [Subscriptions -> Nat]
  BY Parameters DEF Init
<1>7. /\ idle \in BOOLEAN /\ claimed = {} /\ waiting = {}
      /\ \A i \in Subscriptions : answers[i] = 0
  BY Zenon DEF Init
<1>8. PresenceInv
  BY <1>6, <1>7 DEF PresenceInv
<1> QED
  BY <1>5, <1>6, <1>8 DEF Inv

LEMMA Invariance == Spec => []Inv
<1>1. Inv /\ [Next]_vars => Inv'
  BY StepKeeps
<1> QED
  BY <1>1, InitInv, PTL DEF Spec

-----------------------------------------------------------------------------
(* The theorems.                                                           *)

\* The state has its type, and no inbox holds more than its capacity, whatever
\* the policy does to it between the two looks of a send.
THEOREM InboxesBounded == Spec => []InboxBounded
<1>1. Inv => InboxBounded
  <2> SUFFICES ASSUME Inv PROVE InboxBounded
    OBVIOUS
  <2>1. TypeOK
    BY DEF Inv, RowsInv, PresenceInv, Good, TypeOK
  <2>2. \A a \in Agents : Cardinality({m \in Open(store) : To[m] = a}) <= MaxInbox
    BY DEF Inv, RowsInv, Good, Bounded, Inbox
  <2> QED
    BY <2>1, <2>2 DEF InboxBounded
<1> QED
  BY <1>1, Invariance, PTL

\* No message that may still be delivered was overdue when the latest row was
\* written.
THEOREM NothingOverdue == Spec => []NoneOverdue
<1>1. Inv => NoneOverdue
  BY DEF Inv, RowsInv, Good, Fresh, NoneOverdue
<1> QED
  BY <1>1, Invariance, PTL

\* A subscription is answered at most once, crashes and reused identifiers
\* included.
THEOREM AnsweredOnce == Spec => []OneShot
<1>1. Inv => OneShot
  BY DEF Inv, PresenceInv, OneShot
<1> QED
  BY <1>1, Invariance, PTL

\* A message goes forward only, and what has ended in the committed rows stays
\* as it ended.
THEOREM StatusGoesForward == Spec => NeverUndone
<1>1. Inv /\ [Next]_vars => [ForwardStep]_vars
  BY StepKeeps
<1> QED
  BY <1>1, Invariance, PTL DEF Spec, NeverUndone
=============================================================================
