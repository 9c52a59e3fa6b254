-------------------------- MODULE MessageTransport --------------------------
(***************************************************************************)
(* The agent message transport (packages/agent-message-transport): local   *)
(* relays, one for each agent, over one SQLite store.                      *)
(*                                                                         *)
(* Every operation is an immediate transaction, so two of them interleave  *)
(* in one way only: the inbound policy is called inside the transaction of *)
(* send and flushHeld, and may call the relays of its process again.  Such *)
(* a call is a savepoint of the open transaction and goes with it when it  *)
(* is rolled back.                                                         *)
(*                                                                         *)
(* A time is what a relay read from its clock.  The clocks of different    *)
(* processes are unrelated but for what the relays and the store check.    *)
(***************************************************************************)
EXTENDS Naturals, FiniteSets

CONSTANTS
  Agents,          (* the principals, each with a relay                     *)
  Messages,        (* the messages that may be sent                         *)
  From, To, Key,   (* sender, recipient and idempotency key of a message    *)
  Ttl,             (* ttl_ms                                                *)
  MaxInbox, RateLimit, RateWindow,
  Subscriptions,   (* subscription ids                                      *)
  MaxTime,         (* the clocks end here (a bound)                         *)
  None

ASSUME TransportAssumption ==
  /\ From \in [Messages -> Agents] /\ To \in [Messages -> Agents]
  /\ {Ttl, MaxInbox, RateLimit, RateWindow} \subseteq Nat \ {0}
  /\ MaxTime \in Nat

VARIABLES
  store,     (* the committed rows: of each message its status, when it was *)
             (* created and last changed, and the time of the latest row    *)
  work,      (* the rows as the open transaction sees them                  *)
  tx,        (* the open transaction that has called the policy, or None    *)
  lastNow,   (* of each relay: the last time it read                        *)
  idle,      (* whether the agent that is waited for is idle                *)
  claimed,   (* rows of agent_message_subscriptions                         *)
  waiting,   (* subscriptions with a waiter                                 *)
  answers    (* how often each subscription was answered                    *)

rows == <<store, work, tx>>
presence == <<idle, claimed, waiting, answers>>
vars == <<rows, lastNow, presence>>

Times == 0..MaxTime
Statuses == {"none", "delivered", "held", "refused", "expired", "acknowledged"}
Decisions == {"delivered", "held", "refused"}   \* accept, hold, refuse
Transactions == [relay : Agents, op : {"send", "flush"}, at : Times, todo : SUBSET Messages]

ASSUME NoTransactionAssumption == None \notin Transactions

-----------------------------------------------------------------------------
\* Messages that take room in an inbox, and may expire.
Open(s) == {m \in Messages : s.status[m] \in {"held", "delivered"}}

\* A row for each of the messages, at a time.
Put(s, ms, status, at) ==
  IF ms = {} THEN s
  ELSE [s EXCEPT !.status = [m \in Messages |-> IF m \in ms THEN status ELSE @[m]],
                 !.stamp = [m \in Messages |-> IF m \in ms THEN at ELSE @[m]],
                 !.latest = at]

\* #expireUnsafe
Expire(s, at) == Put(s, {m \in Open(s) : s.created[m] + Ttl <= at}, "expired", at)

\* The message already sent under the key of m.
SameKey(s, m) ==
  {n \in Messages : s.status[n] # "none" /\ From[n] = From[m] /\ Key[n] = Key[m]}

\* enforceBounds
Fits(s, m, at) ==
  /\ Cardinality({n \in Messages : /\ s.status[n] # "none" /\ From[n] = From[m]
                                   /\ s.created[n] + RateWindow >= at}) < RateLimit
  /\ Cardinality({n \in Open(s) : To[n] = To[m]}) < MaxInbox

\* The enqueue and the row of the decision.
Enqueue(s, m, decision, at) ==
  LET t == Put(s, {m}, decision, at) IN [t EXCEPT !.created[m] = at]

-----------------------------------------------------------------------------
(* What an operation makes of the rows.                                    *)

\* assertStoreTime: the latest row is not in the future of the relay.
Admits(s, at) == s.latest <= at

\* receive expires before it reads.
Received(s, at) == IF Admits(s, at) THEN Expire(s, at) ELSE s

\* acknowledgeAtomic.  The expiries stay when the message is not delivered (any
\* more), and go when its last row is later than the acknowledgement.
Acknowledged(s, a, m, at) ==
  LET e == Expire(s, at)
  IN  IF ~Admits(s, at) THEN s
      ELSE IF To[m] # a \/ e.status[m] # "delivered" THEN e
      ELSE IF e.stamp[m] > at THEN s ELSE Put(e, {m}, "acknowledged", at)

\* atomicSend looks for room before and after the policy.
Admitted(s, m, at) == SameKey(s, m) = {} /\ Fits(s, m, at)

\* Mutant: nothing expires before a send.
SendableUnexpired(s, m, at) == IF Admits(s, at) THEN s ELSE s

\* atomicSend up to the policy.
Sendable(s, m, at) == IF Admits(s, at) THEN Expire(s, at) ELSE s

\* A whole send: a replay of the same message keeps the expiries, an error does
\* not.
Sent(s, m, decision, at) ==
  LET e == Sendable(s, m, at)
  IN  IF ~Admits(s, at) THEN s
      ELSE IF m \in SameKey(e, m) THEN e
      ELSE IF Admitted(e, m, at) THEN Enqueue(e, m, decision, at) ELSE s

\* The messages flushHeld puts to the policy.
HeldFor(s, a) == {m \in Open(s) : To[m] = a /\ s.status[m] = "held"}

\* A whole flush, with the messages that are accepted and refused.
Flushed(s, accepted, refused, at) ==
  Put(Put(Expire(s, at), accepted, "delivered", at), refused, "refused", at)

\* What a call of the relay of a can make of the rows, when the policy makes it
\* (and calls nothing in turn).  A relay that is sending does not send.
Nested(s, a, at) ==
  LET mine == IF tx.op = "send" /\ tx.relay = a THEN {} ELSE {m \in Messages : From[m] = a}
      held == {m \in HeldFor(Expire(s, at), a) : Admits(s, at) /\ s.stamp[m] <= at}
  IN  {Received(s, at)}
      \cup {Acknowledged(s, a, m, at) : m \in Messages}
      \cup {Sent(s, m, d, at) : m \in mine, d \in Decisions}
      \cup {Flushed(s, xy[1], xy[2], at) : xy \in {z \in (SUBSET held) \X (SUBSET held) : z[1] \cap z[2] = {}}}

-----------------------------------------------------------------------------
\* #now: the clock of a relay does not go back.
Reads(a, at) ==
  /\ at >= lastNow[a]
  /\ lastNow' = [lastNow EXCEPT ![a] = at]

Commit(s) == store' = s /\ work' = s /\ tx' = None

\* The operations that do not call the policy.
Receive(a, at) ==
  /\ tx = None /\ Reads(a, at)
  /\ Commit(Received(store, at))
  /\ UNCHANGED presence

Acknowledge(a, m, at) ==
  /\ tx = None /\ Reads(a, at)
  /\ Commit(Acknowledged(store, a, m, at))
  /\ UNCHANGED presence

\* A send that ends before the policy is asked: the clock, a replay, a conflict
\* or a bound.
SendEnds(m, at) ==
  /\ tx = None /\ Reads(From[m], at)
  /\ ~(Admits(store, at) /\ Admitted(Sendable(store, m, at), m, at))
  /\ Commit(Sent(store, m, "held", at))
  /\ UNCHANGED presence

Send(m, at) ==
  /\ tx = None /\ Reads(From[m], at)
  /\ Admits(store, at) /\ Admitted(Sendable(store, m, at), m, at)
  /\ work' = Sendable(store, m, at)
  /\ tx' = [relay |-> From[m], op |-> "send", at |-> at, todo |-> {m}]
  /\ UNCHANGED <<store, presence>>

FlushHeld(a, at) ==
  /\ tx = None /\ Reads(a, at)
  /\ IF Admits(store, at)
     THEN /\ work' = Expire(store, at)
          /\ tx' = [relay |-> a, op |-> "flush", at |-> at, todo |-> HeldFor(work', a)]
          /\ UNCHANGED store
     ELSE Commit(store)
  /\ UNCHANGED presence

\* The policy calls a relay of its process.  The relays of a process read one
\* clock.
PolicyCalls(a, at) ==
  /\ tx # None /\ tx.todo # {} /\ Reads(a, at) /\ at >= tx.at
  /\ work' \in Nested(work, a, at)
  /\ UNCHANGED <<store, tx, presence>>

\* The policy throws, or answers something else than a decision.
PolicyFails ==
  /\ tx # None /\ tx.todo # {}
  /\ Commit(store)
  /\ UNCHANGED <<lastNow, presence>>

\* Mutant: what the policy did is not looked at.
SendDecidedUnseen(m, decision) ==
  /\ tx # None /\ tx.op = "send" /\ m \in tx.todo
  /\ Commit(Enqueue(work, m, decision, tx.at))
  /\ UNCHANGED <<lastNow, presence>>

\* The policy has decided on the message that is sent; the key and the bounds
\* are looked at again.
SendDecided(m, decision) ==
  /\ tx # None /\ tx.op = "send" /\ m \in tx.todo
  /\ Commit(IF Admitted(work, m, tx.at) THEN Enqueue(work, m, decision, tx.at) ELSE store)
  /\ UNCHANGED <<lastNow, presence>>

\* Mutant: the row is written over whatever the message has become.
FlushDecidedBlindly(m, decision) ==
  /\ tx # None /\ tx.op = "flush" /\ m \in tx.todo
  /\ IF decision = "held" THEN work' = work ELSE work' = Put(work, {m}, decision, tx.at)
  /\ tx' = [tx EXCEPT !.todo = @ \ {m}]
  /\ UNCHANGED <<store, lastNow, presence>>

\* The policy has decided on a held message.  The next row of a message that
\* has got one since is a conflict, and undoes the whole flush.
FlushDecided(m, decision) ==
  /\ tx # None /\ tx.op = "flush" /\ m \in tx.todo
  /\ IF decision = "held"
     THEN tx' = [tx EXCEPT !.todo = @ \ {m}] /\ UNCHANGED <<store, work>>
     ELSE IF work.status[m] = "held" /\ work.stamp[m] <= tx.at
     THEN /\ work' = Put(work, {m}, decision, tx.at)
          /\ tx' = [tx EXCEPT !.todo = @ \ {m}]
          /\ UNCHANGED store
     ELSE Commit(store)
  /\ UNCHANGED <<lastNow, presence>>

FlushEnds ==
  /\ tx # None /\ tx.op = "flush" /\ tx.todo = {}
  /\ Commit(work)
  /\ UNCHANGED <<lastNow, presence>>

-----------------------------------------------------------------------------
\* A subscription is answered: resolved or rejected.
Answer(S) == answers' = [i \in Subscriptions |-> IF i \in S THEN answers[i] + 1 ELSE answers[i]]

\* Mutant: an identifier without a waiter may be claimed again.
ClaimableOnceMore(i) == i \notin waiting

\* claimSubscription finds no row of this identifier.
Claimable(i) == i \notin claimed

\* notifyWhenIdle: claimed first, then answered at once or left waiting.
NotifyWhenIdle(i, a, at) ==
  /\ tx = None /\ Reads(a, at)
  /\ IF Claimable(i) /\ Admits(store, at)
     THEN /\ claimed' = claimed \cup {i}
          /\ IF idle THEN Answer({i}) /\ UNCHANGED waiting
             ELSE waiting' = waiting \cup {i} /\ UNCHANGED answers
     ELSE UNCHANGED <<claimed, waiting, answers>>
  /\ UNCHANGED <<rows, idle>>

SetIdle(value) ==
  /\ tx = None
  /\ idle' = value
  /\ IF value THEN Answer(waiting) /\ waiting' = {} ELSE UNCHANGED <<waiting, answers>>
  /\ UNCHANGED <<rows, lastNow, claimed>>

SubscriptionTimesOut(i) ==
  /\ tx = None /\ i \in waiting
  /\ Answer({i}) /\ waiting' = waiting \ {i}
  /\ UNCHANGED <<rows, lastNow, idle, claimed>>

\* The process dies: the open transaction is undone, the relays start again.
Crash ==
  /\ Commit(store)
  /\ lastNow' = [a \in Agents |-> 0]
  /\ idle' = FALSE /\ waiting' = {}
  /\ UNCHANGED <<claimed, answers>>

Init ==
  /\ store = [status |-> [m \in Messages |-> "none"], created |-> [m \in Messages |-> 0],
              stamp |-> [m \in Messages |-> 0], latest |-> 0]
  /\ work = store /\ tx = None
  /\ lastNow = [a \in Agents |-> 0]
  /\ idle = FALSE /\ claimed = {} /\ waiting = {}
  /\ answers = [i \in Subscriptions |-> 0]

Operation ==
  \E at \in Times :
    \/ \E a \in Agents : Receive(a, at) \/ FlushHeld(a, at) \/ PolicyCalls(a, at)
    \/ \E a \in Agents, m \in Messages : Acknowledge(a, m, at)
    \/ \E m \in Messages : Send(m, at) \/ SendEnds(m, at)

Policy ==
  \/ PolicyFails
  \/ \E m \in Messages, d \in Decisions : SendDecided(m, d) \/ FlushDecided(m, d)
  \/ FlushEnds

Presence ==
  \/ \E i \in Subscriptions, a \in Agents, at \in Times : NotifyWhenIdle(i, a, at)
  \/ \E value \in BOOLEAN : SetIdle(value)
  \/ \E i \in Subscriptions : SubscriptionTimesOut(i)

Next == Operation \/ Policy \/ Presence \/ Crash

Spec == Init /\ [][Next]_vars

-----------------------------------------------------------------------------
Rows == [status : [Messages -> Statuses], created : [Messages -> Times],
         stamp : [Messages -> Times], latest : Times]

\* Type invariant, a part of InboxBounded; outside a transaction every reader
\* sees the committed rows.
TypeOK ==
  /\ store \in Rows /\ work \in Rows
  /\ tx = None \/ tx \in Transactions
  /\ tx = None => work = store
  /\ lastNow \in [Agents -> Times]
  /\ idle \in BOOLEAN /\ waiting \subseteq claimed /\ claimed \subseteq Subscriptions
  /\ answers \in [Subscriptions -> Nat]

\* No inbox holds more than it may, although the policy can fill it between the
\* two looks a send takes at it (index.js:510-531).
InboxBounded ==
  /\ TypeOK
  /\ \A a \in Agents : Cardinality({m \in Open(store) : To[m] = a}) <= MaxInbox

\* No message is left deliverable past its time by an operation that could see
\* that: at the time of the latest row none is overdue, whichever operation
\* wrote that row, and at whatever time the policy acted within it
\* (index.js:474-491).
NoneOverdue == \A m \in Open(store) : store.created[m] + Ttl > store.latest

\* Row by row a message goes forward only.
Forward(s, t) ==
  \A m \in Messages : s.status[m] # t.status[m] =>
    \/ s.status[m] = "none"
    \/ s.status[m] = "held" /\ t.status[m] \in {"delivered", "refused", "expired"}
    \/ s.status[m] = "delivered" /\ t.status[m] \in {"expired", "acknowledged"}

\* A message never returns to an earlier status, and refused, expired and
\* acknowledged are its end, although flushHeld decides on messages it has read
\* before the policy acted; only an undone transaction takes rows back, and
\* never one that is committed (index.js:578-595).
ForwardStep ==
  /\ Forward(work, work') \/ work' = store
  /\ \A m \in Messages : store.status[m] \in {"refused", "expired", "acknowledged"} =>
       store'.status[m] = store.status[m]

NeverUndone == [][ForwardStep]_vars

\* A subscription is answered once at the most, although the waiter lives in
\* the process and the identifier outlives it (index.js:762-773).
OneShot == \A i \in Subscriptions : answers[i] <= 1
=============================================================================
