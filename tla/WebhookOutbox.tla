----------------------------- MODULE WebhookOutbox -----------------------------
(***************************************************************************)
(* The webhook outbox of a gateway (python/seller/gateway.py) and the      *)
(* worker that posts its events (python/seller/webhooks.py).  Both live in *)
(* the memory of the gateway's process.                                    *)
(***************************************************************************)
EXTENDS Integers, Sequences, FiniteSets, SequencesExt

CONSTANTS
  Payment,     \* payment ids
  Target,      \* GatewayConfig.webhook_urls
  Kept,        \* how many events the outbox keeps; 1000 in the code
  Limit,       \* how many events deliver_pending looks at; 100 by default
  MaxEvents,   \* bound: events recorded
  MaxOutages   \* bound: posts that fail

ASSUME OutboxAssumption ==
  /\ IsFiniteSet(Target)
  /\ Kept \in Nat \ {0} /\ Limit \in Nat \ {0}
  /\ MaxEvents \in Nat /\ MaxOutages \in Nat

VARIABLES
  outbox,    \* gateway.webhook_outbox
  recorded,  \* how many events were recorded
  posting,   \* the posts deliver_pending still has to make in this call
  outages,   \* how many posts have failed
  inbox,     \* the events each target has answered 2xx
  lost       \* history: events recorded before the process died last

outboxVars == <<outbox, recorded, posting, outages, inbox, lost>>
delivery == <<posting, outages, inbox, lost>>

\* An event: its place in the order of recording, and what it tells of whom.
Event(Says) == [n : 1 .. MaxEvents, of : Payment, says : Says]

OutboxOK(Says) ==
  /\ outbox \in Seq(Event(Says)) /\ Len(outbox) <= Kept
  /\ recorded \in 0 .. MaxEvents
  /\ posting \in Seq((1 .. MaxEvents) \X Target)
  /\ outages \in 0 .. MaxOutages
  /\ inbox \in [Target -> SUBSET (1 .. MaxEvents)]
  /\ lost \in 0 .. recorded

OutboxInit ==
  /\ outbox = <<>> /\ recorded = 0 /\ posting = <<>> /\ outages = 0
  /\ inbox = [t \in Target |-> {}] /\ lost = 0

Untrimmed(events) == events

\* The last of the sequence, so many that the outbox keeps.
Trimmed(events) ==
  SubSeq(events, IF Len(events) > Kept THEN Len(events) - Kept + 1 ELSE 1, Len(events))

RecordEvent(p, says) ==
  /\ recorded < MaxEvents
  /\ recorded' = recorded + 1
  /\ outbox' = Trimmed(Append(outbox, [n |-> recorded + 1, of |-> p, says |-> says]))
  /\ UNCHANGED delivery

\* The events one call of deliver_pending takes: always the oldest ones, for
\* nothing is removed when it was delivered.
Batch == SubSeq(outbox, 1, IF Len(outbox) < Limit THEN Len(outbox) ELSE Limit)

Posts(events) == LET order == SetToSeq(Target) IN
  FlattenSeq([i \in 1 .. Len(events) |-> [j \in 1 .. Len(order) |-> <<events[i].n, order[j]>>]])

\* A call that forgets the events it has posted.
DeliverAndClear ==
  /\ posting = <<>> /\ outbox # <<>>
  /\ posting' = Posts(Batch)
  /\ outbox' = SubSeq(outbox, Len(Batch) + 1, Len(outbox))
  /\ UNCHANGED <<recorded, outages, inbox, lost>>

DeliverPending ==
  /\ posting = <<>> /\ outbox # <<>>
  /\ posting' = Posts(Batch)
  /\ UNCHANGED <<outbox, recorded, outages, inbox, lost>>

\* The next post of the call.  Whatever comes of it, the worker goes on; what
\* it writes into the event, nobody reads.
Post ==
  /\ posting # <<>>
  /\ LET n == Head(posting)[1]  t == Head(posting)[2] IN
       inbox' = [inbox EXCEPT ![t] = @ \cup {n}]
  /\ posting' = Tail(posting)
  /\ UNCHANGED <<outbox, recorded, outages, lost>>

PostFails ==
  /\ posting # <<>> /\ outages < MaxOutages
  /\ outages' = outages + 1
  /\ posting' = Tail(posting)
  /\ UNCHANGED <<outbox, recorded, inbox, lost>>

\* Events and the calls under way are lost with the process.
OutboxLost ==
  /\ outbox' = <<>> /\ posting' = <<>> /\ lost' = recorded
  /\ UNCHANGED <<recorded, outages, inbox>>

OutboxNext == DeliverPending \/ Post \/ PostFails

OutboxFairness == WF_outboxVars(DeliverPending) /\ WF_outboxVars(Post)
-------------------------------------------------------------------------------
Waiting(n) == \E i \in 1 .. Len(Batch) : Batch[i].n = n

\* While somebody calls deliver_pending again and again, every event that
\* comes among the first Limit of the outbox reaches every target, although
\* posts fail, unless it is trimmed or lost with the process first
\* (webhooks.py:21-45).  An event that stays further back is never posted.
EventsAreDelivered ==
  \A n \in 1 .. MaxEvents, t \in Target :
    Waiting(n) ~> (n \in inbox[t] \/ recorded - n >= Kept \/ n <= lost)
===============================================================================
