-------------------------- MODULE PaidEndpointsProofs --------------------------
(***************************************************************************)
(* Proofs about PaidEndpoints, for any payments, paths, prices, clients,   *)
(* targets and sizes of the outbox, whoever settles and whatever fails.    *)
(***************************************************************************)
EXTENDS PaidEndpoints, SequenceTheorems, SetSums, TLAPS

\* What the proofs need of types; the posts under way do not matter here.
Shape ==
  /\ record \in [Payment -> Payable \cup {None}]
  /\ serving \in [Client -> {None} \cup Payment \X Path]
  /\ outbox \in Seq(Event(Status)) /\ recorded \in 0 .. MaxEvents

\* Events of known payments that tell the course of the records r, but for the
\* payments that an operator has changed.
EventsFit(events, r, excused) ==
  \A i, j \in 1 .. Len(events) :
    LET e == events[i]  f == events[j] IN
    /\ r[e.of] # None
    /\ e.of \notin excused =>
         /\ i < j /\ f.of = e.of => Order[e.says] <= Order[f.says]
         /\ Order[e.says] = 2 => r[e.of].status = e.says
         /\ Order[e.says] <= Order[r[e.of].status]

\* A request that is served names a payment the store has.
ServedIsKnown == \A c \in Client : serving[c] # None => serving[c][1] \in Known

\* The statement that is being made holds copies of records.  A copy of what is
\* served is settled, and no event is ahead of a copy, so that writing the copies
\* back, as the line items are made, takes nothing back.
CopiesFit ==
  statement.at = "listed" =>
    /\ DOMAIN statement.records \subseteq Known
    /\ \A p \in DOMAIN statement.records : statement.records[p] \in Payable
    /\ \A c \in Client :
         serving[c] # None /\ serving[c][1] \in DOMAIN statement.records \ overridden
           => statement.records[serving[c][1]].status = "settled"
    /\ \A i \in 1 .. Len(outbox) :
         outbox[i].of \in DOMAIN statement.records \ overridden
           => Order[outbox[i].says] <= Order[statement.records[outbox[i].of].status]

IInv ==
  /\ Shape
  /\ ServedIsKnown /\ ServedIsPaid
  /\ EventsFit(outbox, record, overridden)
  /\ CopiesFit

-----------------------------------------------------------------------------
(* How a record may change.                                                *)

\* The amount and the resource stay, the status goes on, and its end is final.
Advances(r, t) ==
  /\ t \in Payable /\ t.amount = r.amount /\ t.asked = r.asked
  /\ Order[r.status] <= Order[t.status]
  /\ Order[r.status] = 2 => t.status = r.status

LEMMA OrderTypes == \A s \in Status : Order[s] \in 0 .. 2 /\ (Order[s] = 0 <=> s = "authorized")
BY DEF Status, Order

LEMMA StaysAdvances ==
  ASSUME NEW r \in Payable
  PROVE  Advances(r, r) /\ r # None /\ r.status \in Status
<1>1. r.status \in Status /\ r # None
  BY EndpointAssumption DEF Payable
<1> QED
  BY <1>1, OrderTypes DEF Advances

LEMMA TouchAdvances ==
  ASSUME NEW r \in Payable, NEW p \in Payment
  PROVE  /\ Advances(r, Touched(r, p))
         /\ Touched(r, p) = r
              \/ (r.status = "authorized" /\ Touched(r, p).status = "expired")
<1>1. CASE r.status = "authorized" /\ Deadline[p] < now
  <2> DEFINE t == [r EXCEPT !.status = "expired"]
  <2>1. Touched(r, p) = t
    BY <1>1 DEF Touched
  <2>2. t \in Payable /\ t.amount = r.amount /\ t.asked = r.asked /\ t.status = "expired"
    BY DEF Payable, Status
  <2> HIDE DEF t
  <2> QED
    BY <1>1, <2>1, <2>2 DEF Advances, Order
<1>2. CASE ~(r.status = "authorized" /\ Deadline[p] < now)
  BY <1>2, StaysAdvances DEF Touched
<1> QED
  BY <1>1, <1>2

LEMMA SettlementAdvances ==
  ASSUME NEW r \in Payable, NEW p \in Payment, NEW s \in Executed(r, p) \cup Reconciled(r)
  PROVE  s \in Status /\ Advances(r, [r EXCEPT !.status = s])
<1>1. r.status \in Status
  BY DEF Payable
<1>2. /\ s \in Status
      /\ \/ s = r.status
         \/ r.status = "authorized"
         \/ r.status = "submitted" /\ s \in {"settled", "failed"}
  BY <1>1 DEF Executed, Reconciled, Status
<1> DEFINE t == [r EXCEPT !.status = s]
<1>3. t \in Payable /\ t.amount = r.amount /\ t.asked = r.asked /\ t.status = s
  BY <1>2 DEF Payable
<1> HIDE DEF t
<1>4. Order[r.status] <= Order[s] /\ (Order[r.status] = 2 => s = r.status)
  BY <1>1, <1>2 DEF Order, Status
<1> QED
  BY <1>2, <1>3, <1>4 DEF Advances, t

-----------------------------------------------------------------------------
(* The outbox.                                                             *)

\* Trimming drops events from the front.
LEMMA TrimmedIsTail ==
  ASSUME NEW S, NEW events \in Seq(S)
  PROVE  /\ Trimmed(events) \in Seq(S)
         /\ \E k \in Nat : /\ Len(Trimmed(events)) + k = Len(events)
                           /\ \A i \in 1 .. Len(Trimmed(events)) :
                                i + k \in 1 .. Len(events) /\ Trimmed(events)[i] = events[i + k]
<1> DEFINE k == IF Len(events) > Kept THEN Len(events) - Kept ELSE 0
<1>1. k \in Nat /\ Len(events) \in Nat /\ Kept \in Nat \ {0} /\ k <= Len(events)
  BY OutboxAssumption
<1>2. Trimmed(events) = SubSeq(events, k + 1, Len(events))
  <2>1. k + 1 = IF Len(events) > Kept THEN Len(events) - Kept + 1 ELSE 1
    BY <1>1
  <2> QED
    BY <2>1 DEF Trimmed
<1> HIDE DEF k
<1>3. \A i \in k + 1 .. Len(events) : i \in 1 .. Len(events)
  BY <1>1
<1>4. /\ Trimmed(events) \in Seq(S)
      /\ Len(Trimmed(events)) = IF k + 1 <= Len(events) THEN Len(events) - (k + 1) + 1 ELSE 0
      /\ \A i \in 1 .. Len(events) - (k + 1) + 1 : Trimmed(events)[i] = events[(k + 1) + i - 1]
  <2>1. k + 1 \in 1 .. Len(events) + 1 /\ Len(events) \in (k + 1) - 1 .. Len(events)
    BY <1>1
  <2> QED
    BY <1>1, <1>2, <2>1, SubSeqProperties
<1>5. Len(Trimmed(events)) + k = Len(events)
  BY <1>1, <1>4
<1>6. \A i \in 1 .. Len(Trimmed(events)) :
        i + k \in 1 .. Len(events) /\ Trimmed(events)[i] = events[i + k]
  BY <1>1, <1>4, <1>5
<1> QED
  BY <1>1, <1>4, <1>5, <1>6

\* An event that tells what the record says now goes behind the others.
LEMMA EventRecorded ==
  ASSUME outbox \in Seq(Event(Status)), recorded \in 0 .. MaxEvents,
         NEW p \in Payment, NEW r, NEW excused, r[p] \in Payable,
         RecordEvent(p, r[p].status), EventsFit(outbox, r, excused)
  PROVE  /\ outbox' \in Seq(Event(Status)) /\ recorded' \in 0 .. MaxEvents
         /\ EventsFit(outbox', r, excused)
<1> DEFINE new == [n |-> recorded + 1, of |-> p, says |-> r[p].status]
           all == Append(outbox, new)
<1>1. /\ recorded < MaxEvents /\ recorded' = recorded + 1 /\ outbox' = Trimmed(all)
      /\ MaxEvents \in Nat
  BY OutboxAssumption DEF RecordEvent
<1>2. new \in Event(Status) /\ r[p].status \in Status /\ r[p] # None
  BY <1>1, StaysAdvances DEF Event, Payable
<1>3. new.of = p /\ new.says = r[p].status
  OBVIOUS
<1> HIDE DEF new
<1>4. /\ all \in Seq(Event(Status)) /\ Len(all) = Len(outbox) + 1 /\ Len(outbox) \in Nat
      /\ all[Len(all)] = new
      /\ \A i \in 1 .. Len(outbox) : all[i] = outbox[i] /\ outbox[i].says \in Status
  <2>1. /\ all \in Seq(Event(Status)) /\ Len(all) = Len(outbox) + 1 /\ Len(outbox) \in Nat
        /\ all[Len(all)] = new
        /\ \A i \in 1 .. Len(outbox) : all[i] = outbox[i] /\ outbox[i] \in Event(Status)
    BY <1>2
  <2> QED
    BY <2>1 DEF Event
<1> HIDE DEF all
<1>5. EventsFit(all, r, excused)
  <2> SUFFICES ASSUME NEW i \in 1 .. Len(all), NEW j \in 1 .. Len(all)
               PROVE  /\ r[all[i].of] # None
                      /\ all[i].of \notin excused =>
                           /\ i < j /\ all[j].of = all[i].of
                                => Order[all[i].says] <= Order[all[j].says]
                           /\ Order[all[i].says] = 2 => r[all[i].of].status = all[i].says
                           /\ Order[all[i].says] <= Order[r[all[i].of].status]
    BY DEF EventsFit
  <2>1. CASE i = Len(all)
    BY <1>2, <1>3, <1>4, <2>1, OrderTypes
  <2>2. CASE i # Len(all)
    <3>1. i \in 1 .. Len(outbox) /\ all[i] = outbox[i]
      BY <1>4, <2>2
    <3>2. CASE j = Len(all)
      <4>1. all[j] = new
        BY <1>4, <3>2
      <4> QED
        BY <1>3, <3>1, <4>1 DEF EventsFit
    <3>3. CASE j # Len(all)
      <4>1. j \in 1 .. Len(outbox) /\ all[j] = outbox[j]
        BY <1>4, <3>3
      <4> QED
        BY <3>1, <4>1 DEF EventsFit
    <3> QED
      BY <3>2, <3>3
  <2> QED
    BY <2>1, <2>2
<1>6. PICK k \in Nat :
        \A i \in 1 .. Len(Trimmed(all)) :
          i + k \in 1 .. Len(all) /\ Trimmed(all)[i] = all[i + k]
  BY <1>4, TrimmedIsTail
<1>7. Trimmed(all) \in Seq(Event(Status))
  BY <1>4, TrimmedIsTail
<1>8. EventsFit(Trimmed(all), r, excused)
  <2> DEFINE kept == Trimmed(all)
  <2> SUFFICES ASSUME NEW i \in 1 .. Len(kept), NEW j \in 1 .. Len(kept)
               PROVE  /\ r[kept[i].of] # None
                      /\ kept[i].of \notin excused =>
                           /\ i < j /\ kept[j].of = kept[i].of
                                => Order[kept[i].says] <= Order[kept[j].says]
                           /\ Order[kept[i].says] = 2 => r[kept[i].of].status = kept[i].says
                           /\ Order[kept[i].says] <= Order[r[kept[i].of].status]
    BY DEF EventsFit
  <2>1. /\ i + k \in 1 .. Len(all) /\ kept[i] = all[i + k]
        /\ j + k \in 1 .. Len(all) /\ kept[j] = all[j + k]
    BY <1>6
  <2>2. i < j => i + k < j + k
    OBVIOUS
  <2> HIDE DEF kept
  <2> QED
    BY <1>5, <2>1, <2>2 DEF EventsFit
<1> QED
  BY <1>1, <1>7, <1>8

\* Events fit records that went on.
LEMMA EventsAdvance ==
  ASSUME NEW events \in Seq(Event(Status)), EventsFit(events, record, overridden),
         record \in [Payment -> Payable \cup {None}], overridden \subseteq overridden',
         \A p \in Known : \/ Advances(record[p], record'[p])
                          \/ p \in overridden' /\ record'[p] \in Payable
  PROVE  EventsFit(events, record', overridden')
<1> SUFFICES ASSUME NEW i \in 1 .. Len(events), NEW j \in 1 .. Len(events)
             PROVE  /\ record'[events[i].of] # None
                    /\ events[i].of \notin overridden' =>
                         /\ i < j /\ events[j].of = events[i].of
                              => Order[events[i].says] <= Order[events[j].says]
                         /\ Order[events[i].says] = 2
                              => record'[events[i].of].status = events[i].says
                         /\ Order[events[i].says] <= Order[record'[events[i].of].status]
  BY DEF EventsFit
<1> DEFINE p == events[i].of  says == events[i].says
<1>1. p \in Payment /\ says \in Status
  <2>1. events[i] \in Event(Status)
    OBVIOUS
  <2> QED
    BY <2>1 DEF Event
<1>2. p \in Known /\ record[p] \in Payable
  BY <1>1 DEF EventsFit, Known
<1>3. p \notin overridden =>
        /\ i < j /\ events[j].of = p => Order[says] <= Order[events[j].says]
        /\ Order[says] = 2 => record[p].status = says
        /\ Order[says] <= Order[record[p].status]
  BY DEF EventsFit
<1> HIDE DEF p, says
<1>4. CASE p \in overridden'
  <2>1. record'[p] \in Payable
    BY <1>2, <1>4 DEF Advances
  <2>2. record'[p] # None
    BY <2>1, EndpointAssumption
  <2> QED
    BY <1>4, <2>2 DEF p
<1>5. CASE p \notin overridden'
  <2>1. Advances(record[p], record'[p]) /\ p \notin overridden
    BY <1>2, <1>5
  <2>2. /\ Order[record[p].status] <= Order[record'[p].status]
        /\ Order[record[p].status] = 2 => record'[p].status = record[p].status
        /\ record'[p] \in Payable
    BY <2>1 DEF Advances
  <2>3. /\ Order[says] \in 0 .. 2 /\ Order[record[p].status] \in 0 .. 2
        /\ Order[record'[p].status] \in 0 .. 2 /\ record'[p] # None
    BY <1>1, <1>2, <2>2, OrderTypes, StaysAdvances
  <2>4. Order[says] = 2 => record'[p].status = says
    BY <1>3, <2>1, <2>2
  <2>5. Order[says] <= Order[record'[p].status]
    BY <1>3, <2>1, <2>2, <2>3
  <2> QED
    BY <1>3, <2>1, <2>3, <2>4, <2>5 DEF p, says
<1> QED
  BY <1>4, <1>5

-----------------------------------------------------------------------------
(* Requests that are served.                                               *)

LEMMA ServedAdvance ==
  ASSUME Shape, ServedIsKnown, ServedIsPaid, overridden \subseteq overridden',
         UNCHANGED serving,
         \A p \in Known : \/ Advances(record[p], record'[p])
                          \/ p \in overridden' /\ record'[p] \in Payable
  PROVE  ServedIsKnown' /\ ServedIsPaid'
<1>1. ASSUME NEW c \in Client, serving[c] # None
      PROVE  /\ serving[c][1] \in Known'
             /\ serving[c][1] \notin overridden' =>
                  /\ record'[serving[c][1]].status = "settled"
                  /\ record'[serving[c][1]].amount >= Price[serving[c][2]]
                  /\ record'[serving[c][1]].asked = serving[c][2]
  <2> DEFINE p == serving[c][1]  x == serving[c][2]
  <2>1. p \in Known /\ p \in Payment
    BY <1>1 DEF ServedIsKnown, Known
  <2>2. record'[p] \in Payable
    BY <2>1 DEF Advances
  <2>3. record'[p] # None
    BY <2>2, EndpointAssumption
  <2>4. p \notin overridden => /\ record[p].status = "settled"
                               /\ record[p].amount >= Price[x] /\ record[p].asked = x
    BY <1>1 DEF ServedIsPaid
  <2> HIDE DEF p, x
  <2>5. p \notin overridden' => /\ record'[p].status = "settled"
                                /\ record'[p].amount >= Price[x] /\ record'[p].asked = x
    BY <2>1, <2>4 DEF Advances, Order
  <2> QED
    BY <2>1, <2>3, <2>5 DEF p, x, Known
<1> QED
  BY <1>1 DEF ServedIsKnown, ServedIsPaid

\* A handler, between two awaits, moves records on and appends events that fit.
LEMMA HandlerKeeps ==
  ASSUME IInv, Idle, UNCHANGED <<statement, serving>>, Shape',
         overridden \subseteq overridden',
         \A p \in Known : \/ Advances(record[p], record'[p])
                          \/ p \in overridden' /\ record'[p] \in Payable,
         EventsFit(outbox', record', overridden')
  PROVE  IInv'
<1>1. ServedIsKnown' /\ ServedIsPaid'
  BY ServedAdvance DEF IInv
<1>2. CopiesFit'
  BY DEF Idle, CopiesFit
<1> QED
  BY <1>1, <1>2 DEF IInv

\* A handler that changes one record and tells of it.
LEMMA OneRecordKeeps ==
  ASSUME IInv, Idle, UNCHANGED <<statement, serving>>, overridden \subseteq overridden',
         NEW p \in Payment, NEW t \in Payable, record' = [record EXCEPT ![p] = t],
         p \in Known => Advances(record[p], t) \/ p \in overridden',
         RecordEvent(p, t.status) \/ UNCHANGED <<outbox, recorded>>
  PROVE  IInv'
<1>1. Shape /\ EventsFit(outbox, record, overridden)
  BY DEF IInv
<1>2. /\ record' \in [Payment -> Payable \cup {None}] /\ record'[p] = t
      /\ \A w \in Payment : w # p => record'[w] = record[w]
  BY <1>1 DEF Shape
<1>3. \A w \in Known : \/ Advances(record[w], record'[w])
                       \/ w \in overridden' /\ record'[w] \in Payable
  <2> SUFFICES ASSUME NEW w \in Known
               PROVE  \/ Advances(record[w], record'[w])
                      \/ w \in overridden' /\ record'[w] \in Payable
    OBVIOUS
  <2>1. w \in Payment /\ record[w] \in Payable
    BY <1>1 DEF Shape, Known
  <2> QED
    BY <1>2, <2>1, StaysAdvances
<1>4. EventsFit(outbox, record', overridden')
  BY <1>1, <1>3, EventsAdvance DEF Shape
<1>5. /\ outbox' \in Seq(Event(Status)) /\ recorded' \in 0 .. MaxEvents
      /\ EventsFit(outbox', record', overridden')
  <2>1. CASE RecordEvent(p, t.status)
    <3>1. RecordEvent(p, record'[p].status) /\ record'[p] \in Payable
      BY <1>2, <2>1
    <3> QED
      BY <1>1, <1>4, <3>1, EventRecorded DEF Shape
  <2>2. CASE UNCHANGED <<outbox, recorded>>
    BY <1>1, <1>4, <2>2 DEF Shape
  <2> QED
    BY <2>1, <2>2
<1>6. Shape'
  BY <1>1, <1>2, <1>5 DEF Shape
<1> QED
  BY <1>3, <1>5, <1>6, HandlerKeeps

-----------------------------------------------------------------------------
(* The steps of the process.                                               *)

LEMMA CreateKeeps ==
  ASSUME IInv, NEW p \in Payment, CreatePaymentIntent(p)
  PROVE  IInv'
<1>1. PICK i \in Intents[p] :
        /\ AmountOf(i) # None
        /\ record' = [record EXCEPT ![p] =
             [route |-> i.route, asked |-> IF i.asked = None THEN i.route ELSE i.asked,
              amount |-> AmountOf(i), status |-> "authorized"]]
  BY DEF CreatePaymentIntent
<1> DEFINE t == [route |-> i.route, asked |-> IF i.asked = None THEN i.route ELSE i.asked,
                 amount |-> AmountOf(i), status |-> "authorized"]
<1>2. i \in Intent
  BY EndpointAssumption
<1>3. AmountOf(i) \in Nat
  <2>1. i.amount \in Nat \cup {None} /\ i.route \in Path \cup {None}
    BY <1>2 DEF Intent
  <2> QED
    BY <1>1, <2>1, EndpointAssumption DEF AmountOf
<1>4. t \in Payable /\ t.status = "authorized"
  BY <1>2, <1>3 DEF Intent, Payable, Status
<1>5. record' = [record EXCEPT ![p] = t]
  BY <1>1
<1> HIDE DEF t
<1>6. /\ Idle /\ p \notin Known /\ RecordEvent(p, "authorized")
      /\ UNCHANGED <<overridden, serving, statement>>
  BY DEF CreatePaymentIntent, reportVars
<1> QED
  BY <1>4, <1>5, <1>6, OneRecordKeeps

LEMMA ReplayKeeps ==
  ASSUME IInv, NEW p \in Payment, ReplayPaymentIntent(p) \/ Verify(p)
  PROVE  IInv'
<1> DEFINE t == Touched(record[p], p)
<1>1. /\ Idle /\ p \in Known /\ record' = [record EXCEPT ![p] = t]
      /\ RecordEvent(p, t.status) \/ UNCHANGED <<outbox, recorded>>
      /\ UNCHANGED <<overridden, serving, statement>>
  BY DEF ReplayPaymentIntent, Verify, Touch, ReplayedSays, reportVars, outboxVars
<1>2. record[p] \in Payable
  BY <1>1 DEF IInv, Shape, Known
<1>3. Advances(record[p], t)
  BY <1>2, TouchAdvances
<1>4. t \in Payable
  BY <1>3 DEF Advances
<1> HIDE DEF t
<1> QED
  BY <1>1, <1>3, <1>4, OneRecordKeeps

LEMMA SettlementKeeps ==
  ASSUME IInv, NEW p \in Payment, Settlement(p)
  PROVE  IInv'
<1>1. PICK s \in Executed(record[p], p) \cup Reconciled(record[p]) :
        record' = [record EXCEPT ![p].status = s] /\ RecordEvent(p, s)
  BY DEF Settlement
<1>2. Idle /\ p \in Known /\ UNCHANGED <<overridden, serving, statement>>
  BY DEF Settlement, reportVars
<1>3. record[p] \in Payable
  BY <1>2 DEF IInv, Shape, Known
<1> DEFINE t == [record[p] EXCEPT !.status = s]
<1>4. Advances(record[p], t)
  BY <1>3, SettlementAdvances
<1>5. t \in Payable /\ t.status = s /\ record' = [record EXCEPT ![p] = t]
  BY <1>1, <1>3, <1>4 DEF Advances, Payable
<1> HIDE DEF t
<1> QED
  BY <1>1, <1>2, <1>4, <1>5, OneRecordKeeps

LEMMA OperatorKeeps ==
  ASSUME IInv, NEW p \in Payment, ApplyOperatorAction(p)
  PROVE  IInv'
<1>1. PICK s \in {"settled", "failed"} :
        record' = [record EXCEPT ![p].status = s] /\ RecordEvent(p, s)
  BY DEF ApplyOperatorAction
<1>2. /\ Idle /\ p \in Known /\ UNCHANGED <<serving, statement>>
      /\ overridden \subseteq overridden' /\ p \in overridden'
  BY DEF ApplyOperatorAction
<1>3. record[p] \in Payable
  BY <1>2 DEF IInv, Shape, Known
<1> DEFINE t == [record[p] EXCEPT !.status = s]
<1>4. t \in Payable /\ t.status = s /\ record' = [record EXCEPT ![p] = t]
  BY <1>1, <1>3 DEF Payable, Status
<1> HIDE DEF t
<1> QED
  BY <1>1, <1>2, <1>4, OneRecordKeeps

\* A request that is let through is of a settled payment for what it asks.
LEMMA PaidRequestKeeps ==
  ASSUME IInv, NEW c \in Client, NEW p \in Payment, NEW x \in Path, PaidRequest(c, p, x)
  PROVE  IInv'
<1> DEFINE t == Touched(record[p], p)
<1>1. /\ Idle /\ p \in Known /\ record' = [record EXCEPT ![p] = t]
      /\ IF Refusal(t, x) = None THEN serving' = [serving EXCEPT ![c] = <<p, x>>]
                                 ELSE UNCHANGED serving
      /\ UNCHANGED <<outbox, recorded, overridden, statement>>
  BY DEF PaidRequest, Touch, reportVars, outboxVars
<1>2. Shape /\ record[p] \in Payable
  BY <1>1 DEF IInv, Shape, Known
<1>3. Advances(record[p], t)
  BY <1>2, TouchAdvances
<1>4. t \in Payable /\ t # None
  BY <1>3, EndpointAssumption DEF Advances
<1> HIDE DEF t
<1>5. /\ record' \in [Payment -> Payable \cup {None}] /\ record'[p] = t
      /\ \A w \in Payment : w # p => record'[w] = record[w]
  BY <1>1, <1>2, <1>4 DEF Shape
<1>6. \A w \in Known : Advances(record[w], record'[w])
  <2> SUFFICES ASSUME NEW w \in Known PROVE Advances(record[w], record'[w])
    OBVIOUS
  <2>1. w \in Payment /\ record[w] \in Payable
    BY <1>2 DEF Shape, Known
  <2> QED
    BY <1>3, <1>5, <2>1, StaysAdvances
<1>7. EventsFit(outbox', record', overridden')
  BY <1>1, <1>2, <1>6, EventsAdvance DEF IInv, Shape
<1>8. CASE UNCHANGED serving
  <2>1. Shape'
    BY <1>1, <1>2, <1>5, <1>8 DEF Shape
  <2> QED
    BY <1>1, <1>6, <1>7, <1>8, <2>1, HandlerKeeps
<1>9. CASE Refusal(t, x) = None /\ serving' = [serving EXCEPT ![c] = <<p, x>>]
  <2>1. t.asked = x /\ t.amount >= Price[x] /\ t.status = "settled"
    <3>1. t.amount \in Nat /\ Price[x] \in Nat
      BY <1>4, EndpointAssumption DEF Payable
    <3> QED
      BY <1>9, <3>1, EndpointAssumption DEF Refusal, ResourceMismatch, Reason
  <2>2. /\ serving' \in [Client -> {None} \cup Payment \X Path] /\ serving'[c] = <<p, x>>
        /\ \A d \in Client : d # c => serving'[d] = serving[d]
    BY <1>2, <1>9 DEF Shape
  <2>3. Shape'
    BY <1>1, <1>2, <1>5, <2>2 DEF Shape
  <2>4. ASSUME NEW d \in Client, serving'[d] # None
        PROVE  /\ serving'[d][1] \in Known'
               /\ serving'[d][1] \notin overridden =>
                    /\ record'[serving'[d][1]].status = "settled"
                    /\ record'[serving'[d][1]].amount >= Price[serving'[d][2]]
                    /\ record'[serving'[d][1]].asked = serving'[d][2]
    <3>1. CASE d = c
      <4>1. serving'[d][1] = p /\ serving'[d][2] = x
        BY <2>2, <3>1
      <4> QED
        BY <1>4, <1>5, <2>1, <4>1 DEF Known
    <3>2. CASE d # c
      <4> DEFINE w == serving[d][1]  y == serving[d][2]
      <4>1. serving'[d] = serving[d] /\ w \in Known /\ w \in Payment
        BY <2>2, <2>4, <3>2 DEF IInv, ServedIsKnown, Known
      <4>2. Advances(record[w], record'[w])
        BY <1>6, <4>1
      <4>3. record'[w] # None
        BY <4>2, EndpointAssumption DEF Advances
      <4>4. w \notin overridden => /\ record[w].status = "settled"
                                   /\ record[w].amount >= Price[y] /\ record[w].asked = y
        BY <2>4, <4>1 DEF IInv, ServedIsPaid
      <4> HIDE DEF w, y
      <4>5. w \notin overridden => /\ record'[w].status = "settled"
                                   /\ record'[w].amount >= Price[y] /\ record'[w].asked = y
        BY <4>2, <4>4 DEF Advances, Order
      <4> QED
        BY <4>1, <4>3, <4>5 DEF w, y, Known
    <3> QED
      BY <3>1, <3>2
  <2>5. ServedIsKnown' /\ ServedIsPaid'
    BY <1>1, <2>4 DEF ServedIsKnown, ServedIsPaid
  <2>6. CopiesFit'
    BY <1>1 DEF Idle, CopiesFit
  <2> QED
    BY <1>7, <2>3, <2>5, <2>6 DEF IInv
<1> QED
  BY <1>1, <1>8, <1>9

-----------------------------------------------------------------------------
(* Reports.                                                                *)

LEMMA TouchAllAdvances ==
  ASSUME Shape
  PROVE  /\ TouchAll \in [Payment -> Payable \cup {None}]
         /\ \A p \in Payment : TouchAll[p] # None <=> p \in Known
         /\ \A p \in Known : TouchAll[p] \in Payable /\ Advances(record[p], TouchAll[p])
<1>1. \A p \in Known : p \in Payment /\ record[p] \in Payable
  BY DEF Shape, Known
<1>2. \A p \in Known : Advances(record[p], Touched(record[p], p))
  BY <1>1, TouchAdvances
<1>3. \A p \in Known : Touched(record[p], p) \in Payable
  BY <1>2 DEF Advances
<1>4. \A p \in Known : Touched(record[p], p) # None
  BY <1>3, EndpointAssumption
<1> QED
  BY <1>1, <1>2, <1>3, <1>4 DEF TouchAll

LEMMA ReportKeeps ==
  ASSUME IInv, ReadAll
  PROVE  IInv'
<1>1. /\ Idle /\ record' = TouchAll
      /\ UNCHANGED <<outbox, recorded, overridden, serving, statement>>
  BY DEF ReadAll, reportVars, outboxVars
<1>2. Shape' /\ \A p \in Known : Advances(record[p], record'[p])
  BY <1>1, TouchAllAdvances DEF IInv, Shape
<1>3. EventsFit(outbox', record', overridden')
  BY <1>1, <1>2, EventsAdvance DEF IInv, Shape
<1> QED
  BY <1>1, <1>2, <1>3, HandlerKeeps

\* The copies of a statement are what the store holds when they are made.
LEMMA ListStatementKeeps ==
  ASSUME IInv, ListStatement
  PROVE  IInv'
<1>1. /\ record' = TouchAll /\ statement'.records = [p \in Known |-> TouchAll[p]]
      /\ UNCHANGED <<outbox, recorded, overridden, serving>>
  BY DEF ListStatement, outboxVars
<1>2. /\ Shape' /\ \A p \in Known : Advances(record[p], record'[p])
      /\ Known' = Known /\ \A p \in Known : record'[p] \in Payable
  BY <1>1, TouchAllAdvances DEF IInv, Shape, Known
<1>3. EventsFit(outbox, record', overridden')
  BY <1>1, <1>2, EventsAdvance DEF IInv, Shape
<1>4. ServedIsKnown' /\ ServedIsPaid'
  BY <1>1, <1>2, ServedAdvance DEF IInv
<1>5. CopiesFit'
  <2>1. /\ DOMAIN statement'.records = Known
        /\ \A p \in Known : statement'.records[p] = record'[p]
    BY <1>1
  <2>2. \A c \in Client : serving'[c] # None /\ serving'[c][1] \in Known \ overridden'
          => statement'.records[serving'[c][1]].status = "settled"
    BY <1>4, <2>1 DEF ServedIsPaid
  <2>3. \A i \in 1 .. Len(outbox') : outbox'[i].of \in Known \ overridden'
          => Order[outbox'[i].says] <= Order[statement'.records[outbox'[i].of].status]
    BY <1>1, <1>3, <2>1 DEF EventsFit
  <2> QED
    BY <1>2, <2>1, <2>2, <2>3 DEF CopiesFit
<1> QED
  BY <1>1, <1>2, <1>3, <1>4, <1>5 DEF IInv

\* What is written back was authorized when it was copied: nobody is served for
\* it, and its events tell no more than that.
LEMMA ItemiseKeeps ==
  ASSUME IInv, ItemiseStatement
  PROVE  IInv'
<1> DEFINE copy == statement.records  listed == DOMAIN statement.records
<1>1. /\ statement.at = "listed" /\ statement'.at = "done"
      /\ record' = [p \in Payment |->
           IF p \in listed /\ LineItem(p) # copy[p] THEN LineItem(p) ELSE record[p]]
      /\ UNCHANGED <<outbox, recorded, overridden, serving>>
  BY DEF ItemiseStatement, outboxVars
<1>2. /\ Shape /\ ServedIsKnown /\ ServedIsPaid /\ EventsFit(outbox, record, overridden)
      /\ listed \subseteq Known /\ \A p \in listed : copy[p] \in Payable
      /\ \A c \in Client : serving[c] # None /\ serving[c][1] \in listed \ overridden
           => copy[serving[c][1]].status = "settled"
      /\ \A i \in 1 .. Len(outbox) : outbox[i].of \in listed \ overridden
           => Order[outbox[i].says] <= Order[copy[outbox[i].of].status]
  BY <1>1 DEF IInv, CopiesFit
<1>3. \A p \in listed : p \in Payment /\ LineItem(p) = Touched(copy[p], p)
  BY <1>2 DEF LineItem, Known
<1> HIDE DEF copy, listed
<1>4. \A p \in listed :
        \/ LineItem(p) = copy[p]
        \/ /\ copy[p].status = "authorized" /\ LineItem(p).status = "expired"
           /\ LineItem(p) \in Payable
  BY <1>2, <1>3, TouchAdvances DEF Advances
<1>5. \A p \in Payment :
        \/ record'[p] = record[p]
        \/ /\ p \in listed /\ copy[p].status = "authorized"
           /\ record'[p].status = "expired" /\ record'[p] \in Payable
  BY <1>1, <1>4
<1>6. Shape' /\ Known \subseteq Known'
  <2>1. \A p \in Payment : record'[p] \in Payable => record'[p] # None
    BY EndpointAssumption
  <2>2. record' \in [Payment -> Payable \cup {None}]
    BY <1>1, <1>2, <1>5 DEF Shape
  <2> QED
    BY <1>1, <1>2, <1>5, <2>1, <2>2 DEF Shape, Known
<1>7. ServedIsKnown'
  BY <1>1, <1>2, <1>6 DEF ServedIsKnown
<1>8. ServedIsPaid'
  <2> SUFFICES ASSUME NEW c \in Client, serving[c] # None, serving[c][1] \notin overridden
               PROVE  record'[serving[c][1]] = record[serving[c][1]]
    BY <1>1, <1>2 DEF ServedIsPaid
  <2>1. serving[c][1] \in Payment
    BY <1>2 DEF ServedIsKnown, Known
  <2> QED
    BY <1>2, <1>5, <2>1
<1>9. EventsFit(outbox, record', overridden)
  <2> SUFFICES ASSUME NEW i \in 1 .. Len(outbox), NEW j \in 1 .. Len(outbox)
               PROVE  /\ record'[outbox[i].of] # None
                      /\ outbox[i].of \notin overridden =>
                           /\ i < j /\ outbox[j].of = outbox[i].of
                                => Order[outbox[i].says] <= Order[outbox[j].says]
                           /\ Order[outbox[i].says] = 2
                                => record'[outbox[i].of].status = outbox[i].says
                           /\ Order[outbox[i].says] <= Order[record'[outbox[i].of].status]
    BY DEF EventsFit
  <2> DEFINE p == outbox[i].of  says == outbox[i].says
  <2>1. p \in Payment /\ says \in Status
    <3>1. outbox[i] \in Event(Status)
      BY <1>2 DEF Shape
    <3> QED
      BY <3>1 DEF Event
  <2>2. /\ record[p] # None
        /\ p \notin overridden =>
             /\ i < j /\ outbox[j].of = p => Order[says] <= Order[outbox[j].says]
             /\ Order[says] = 2 => record[p].status = says
             /\ Order[says] <= Order[record[p].status]
        /\ p \in listed \ overridden => Order[says] <= Order[copy[p].status]
    BY <1>2 DEF EventsFit
  <2>3. record'[p] # None
    BY <1>6, <2>1, <2>2 DEF Known
  <2> HIDE DEF p, says
  <2>4. CASE record'[p] = record[p]
    BY <2>2, <2>3, <2>4 DEF p, says
  <2>5. CASE /\ p \in listed /\ copy[p].status = "authorized"
             /\ record'[p].status = "expired"
    <3>1. p \notin overridden => Order[says] = 0
      <4>1. Order["authorized"] = 0
        BY DEF Order
      <4> QED
        BY <2>1, <2>2, <2>5, <4>1, OrderTypes
    <3>2. Order["expired"] = 2
      BY DEF Order
    <3> QED
      BY <2>2, <2>3, <2>5, <3>1, <3>2 DEF p, says
  <2> QED
    BY <1>5, <2>1, <2>4, <2>5
<1>10. CopiesFit'
  BY <1>1 DEF CopiesFit
<1> QED
  BY <1>1, <1>6, <1>7, <1>8, <1>9, <1>10 DEF IInv

-----------------------------------------------------------------------------
(* The worker beside the process, and the end of a request.                *)

\* The worker moves records on while a statement is made.
LEMMA WorkerKeeps ==
  ASSUME IInv, NEW p \in Payment, WorkerSettles(p)
  PROVE  IInv'
<1>1. PICK s \in Executed(record[p], p) \cup Reconciled(record[p]) :
        record' = [record EXCEPT ![p].status = s]
  BY DEF WorkerSettles
<1>2. p \in Known /\ UNCHANGED <<outbox, recorded, overridden, serving, statement>>
  BY DEF WorkerSettles, reportVars, outboxVars
<1>3. Shape /\ record[p] \in Payable
  BY <1>2 DEF IInv, Shape, Known
<1> DEFINE t == [record[p] EXCEPT !.status = s]
<1>4. Advances(record[p], t) /\ record' = [record EXCEPT ![p] = t]
  BY <1>1, <1>3, SettlementAdvances
<1> HIDE DEF t
<1>5. t \in Payable /\ t # None
  BY <1>4, EndpointAssumption DEF Advances
<1>6. /\ Shape' /\ record'[p] = t /\ \A w \in Payment : w # p => record'[w] = record[w]
  BY <1>2, <1>3, <1>4, <1>5 DEF Shape
<1>7. \A w \in Known : Advances(record[w], record'[w])
  <2> SUFFICES ASSUME NEW w \in Known PROVE Advances(record[w], record'[w])
    OBVIOUS
  <2>1. w \in Payment /\ record[w] \in Payable
    BY <1>3 DEF Shape, Known
  <2> QED
    BY <1>4, <1>6, <2>1, StaysAdvances
<1>8. ServedIsKnown' /\ ServedIsPaid'
  BY <1>2, <1>7, ServedAdvance DEF IInv
<1>9. EventsFit(outbox', record', overridden')
  BY <1>2, <1>7, EventsAdvance DEF IInv, Shape
<1>10. Known' = Known
  BY <1>2, <1>5, <1>6 DEF Known
<1>11. CopiesFit'
  BY <1>2, <1>10 DEF IInv, CopiesFit
<1> QED
  BY <1>6, <1>8, <1>9, <1>11 DEF IInv

\* Requests that end, events that are posted, time that passes.
LEMMA QuietKeeps ==
  ASSUME IInv, UNCHANGED <<record, overridden, statement>>,
         \/ UNCHANGED serving
         \/ \E c \in Client : serving' = [serving EXCEPT ![c] = None],
         UNCHANGED <<outbox, recorded>>
  PROVE  IInv'
<1>1. /\ serving' \in [Client -> {None} \cup Payment \X Path]
      /\ \A c \in Client : serving'[c] # None => serving'[c] = serving[c]
  BY DEF IInv, Shape
<1>2. Shape'
  BY <1>1 DEF IInv, Shape
<1>3. ServedIsKnown' /\ ServedIsPaid'
  BY <1>1 DEF IInv, ServedIsKnown, ServedIsPaid, Known
<1>4. EventsFit(outbox, record, overridden)'
  BY DEF IInv, EventsFit
<1>5. CopiesFit'
  BY <1>1 DEF IInv, CopiesFit, Known
<1> QED
  BY <1>2, <1>3, <1>4, <1>5 DEF IInv

LEMMA CrashKeeps ==
  ASSUME IInv, Crash
  PROVE  IInv'
<1>1. /\ UNCHANGED <<record, overridden, recorded>> /\ outbox' = <<>>
      /\ serving' = [c \in Client |-> None] /\ statement'.at # "listed"
  BY DEF Crash, OutboxLost, storeVars, NoStatement
<1>2. Shape'
  BY <1>1 DEF IInv, Shape
<1>3. ServedIsKnown' /\ ServedIsPaid'
  BY <1>1 DEF ServedIsKnown, ServedIsPaid
<1>4. EventsFit(outbox', record', overridden')
  BY <1>1 DEF EventsFit
<1>5. CopiesFit'
  BY <1>1 DEF CopiesFit
<1> QED
  BY <1>2, <1>3, <1>4, <1>5 DEF IInv

-----------------------------------------------------------------------------
(* The invariant, and what follows from it.                                *)

LEMMA InitEstablishes == Init => IInv
<1> SUFFICES ASSUME Init PROVE IInv
  OBVIOUS
<1>1. Shape
  BY OutboxAssumption DEF Init, OutboxInit, Shape
<1>2. ServedIsKnown /\ ServedIsPaid /\ CopiesFit
  BY DEF Init, ServedIsKnown, ServedIsPaid, CopiesFit, NoStatement
<1>3. EventsFit(outbox, record, overridden)
  BY DEF Init, OutboxInit, EventsFit
<1> QED
  BY <1>1, <1>2, <1>3 DEF IInv

LEMMA StepKeeps == IInv /\ [Next]_vars => IInv'
<1> SUFFICES ASSUME IInv, [Next]_vars PROVE IInv'
  OBVIOUS
<1>1. ASSUME NEW p \in Payment,
             \/ CreatePaymentIntent(p) \/ ReplayPaymentIntent(p) \/ Settlement(p)
             \/ WorkerSettles(p) \/ ApplyOperatorAction(p) \/ Verify(p)
      PROVE  IInv'
  BY <1>1, CreateKeeps, ReplayKeeps, SettlementKeeps, WorkerKeeps, OperatorKeeps
<1>2. ASSUME NEW c \in Client, NEW p \in Payment, NEW x \in Path, PaidRequest(c, p, x)
      PROVE  IInv'
  BY <1>2, PaidRequestKeeps
<1>3. CASE BillingSummary \/ ListReceipts \/ ListStatement \/ ItemiseStatement \/ Crash
  BY <1>3, ReportKeeps, ListStatementKeeps, ItemiseKeeps, CrashKeeps
     DEF BillingSummary, ListReceipts
<1>4. ASSUME NEW c \in Client, HandlerReturns(c) PROVE IInv'
  BY <1>4, QuietKeeps DEF HandlerReturns, storeVars, reportVars, outboxVars
<1>5. CASE Tick \/ UNCHANGED vars
  BY <1>5, QuietKeeps DEF Tick, vars, storeVars, reportVars, outboxVars
<1>6. CASE OutboxNext /\ UNCHANGED <<now, storeVars, serving, reportVars, crashes>>
  BY <1>6, QuietKeeps DEF OutboxNext, DeliverPending, Post, PostFails, storeVars, reportVars
<1> QED
  BY <1>1, <1>2, <1>3, <1>4, <1>5, <1>6 DEF Next

LEMMA Invariance == Spec => []IInv
BY InitEstablishes, StepKeeps, PTL DEF Spec

\* While a paid handler runs its payment stays settled, of the resource asked for
\* and of its price, whatever statements, workers and deadlines do meanwhile
\* (runtime.py:114-154).
THEOREM ServedRequestsArePaid == Spec => []ServedIsPaid
<1>1. IInv => ServedIsPaid
  BY DEF IInv
<1> QED
  BY <1>1, Invariance, PTL

\* The outbox tells the course of each payment in order and never more than its
\* record, however often requests are repeated and events are trimmed
\* (gateway.py:880-901).
THEOREM EventsAreInOrder == Spec => []EventsFollowTheRecord
<1>1. IInv => EventsFollowTheRecord
  BY DEF IInv, EventsFit, EventsFollowTheRecord
<1> QED
  BY <1>1, Invariance, PTL

-----------------------------------------------------------------------------
(* Billing statements.                                                     *)

\* The settled ones among the copies of a statement, and their sum.
SettledCopies == {p \in DOMAIN statement.records : statement.records[p].status = "settled"}

CopiedAmount == [p \in SettledCopies |-> statement.records[p].amount]

GrossIsCopied ==
  statement.at = "listed" => statement.gross = SumFunctionOnSet(CopiedAmount, SettledCopies)

\* The gross amount is taken of the copies that the line items are made of.
LEMMA ListStatementGross ==
  ASSUME IInv, ListStatement
  PROVE  GrossIsCopied'
<1> DEFINE settled == {p \in Known : TouchAll[p].status = "settled"}
<1>1. statement' = [at |-> "listed", records |-> [p \in Known |-> TouchAll[p]],
                    gross |-> SumFunction([p \in settled |-> TouchAll[p].amount])]
  BY DEF ListStatement
<1>2. DOMAIN statement'.records = Known
      /\ \A p \in Known : statement'.records[p] = TouchAll[p]
  BY <1>1
<1>3. SettledCopies' = settled
  BY <1>2 DEF SettledCopies
<1>4. CopiedAmount' = [p \in settled |-> TouchAll[p].amount]
  BY <1>2, <1>3 DEF CopiedAmount
<1>5. statement'.gross = SumFunction([p \in settled |-> TouchAll[p].amount])
  BY <1>1
<1> HIDE DEF settled
<1>6. statement'.gross = SumFunctionOnSet([p \in settled |-> TouchAll[p].amount], settled)
  BY <1>5 DEF SumFunction
<1> QED
  BY <1>3, <1>4, <1>6 DEF GrossIsCopied

\* A line item is settled exactly when its copy is, with the same amount: the
\* clock, read again, only takes away what was still authorized.
LEMMA ItemiseGross ==
  ASSUME IInv, GrossIsCopied, ItemiseStatement
  PROVE  GrossIsItemised'
<1> DEFINE copy == statement.records
           listed == DOMAIN statement.records
           items == [p \in listed |->
                       IF LineItem(p).status = "settled" THEN LineItem(p).amount ELSE 0]
<1>1. /\ statement.at = "listed"
      /\ statement' = [at |-> "done", gross |-> statement.gross, items |-> items]
  BY DEF ItemiseStatement
<1>2. /\ listed \subseteq Payment /\ \A p \in listed : copy[p] \in Payable
  BY <1>1 DEF IInv, CopiesFit, Known
<1>3. IsFiniteSet(listed)
  BY <1>2, EndpointAssumption, FS_Subset
<1>4. \A p \in listed :
        /\ LineItem(p).amount = copy[p].amount /\ copy[p].amount \in Nat
        /\ LineItem(p).status = "settled" <=> copy[p].status = "settled"
  <2> SUFFICES ASSUME NEW p \in listed
               PROVE  /\ LineItem(p).amount = copy[p].amount /\ copy[p].amount \in Nat
                      /\ LineItem(p).status = "settled" <=> copy[p].status = "settled"
    OBVIOUS
  <2> DEFINE r == copy[p]
  <2>1. r \in Payable /\ p \in Payment /\ LineItem(p) = Touched(r, p)
    BY <1>2 DEF LineItem
  <2> HIDE DEF r, listed
  <2>2. Advances(r, Touched(r, p))
        /\ (Touched(r, p) = r
              \/ (r.status = "authorized" /\ Touched(r, p).status = "expired"))
    BY <2>1, TouchAdvances
  <2>3. Touched(r, p).amount = r.amount /\ r.amount \in Nat
    BY <2>1, <2>2 DEF Advances, Payable
  <2> QED
    BY <2>1, <2>2, <2>3 DEF r
<1>5. /\ SettledCopies \subseteq listed
      /\ \A p \in SettledCopies : CopiedAmount[p] = items[p] /\ items[p] \in Nat
      /\ \A p \in listed \ SettledCopies : items[p] = 0
  BY <1>4 DEF SettledCopies, CopiedAmount
<1>6. SumFunctionOnSet(CopiedAmount, SettledCopies) = SumFunctionOnSet(items, listed)
  <2> HIDE DEF items, listed
  <2> QED
    BY <1>3, <1>5, SumOfPart
<1>7. DOMAIN items = listed
  OBVIOUS
<1>8. statement'.gross = statement.gross /\ statement'.items = items
  BY <1>1
<1> HIDE DEF items, listed, copy
<1>9. statement'.gross = SumFunction(statement'.items)
  BY <1>1, <1>6, <1>7, <1>8 DEF GrossIsCopied, SumFunction
<1> QED
  BY <1>9 DEF GrossIsItemised, NetPayout

\* No other step touches a statement, except that a crash may take one away.
LEMMA GrossStep ==
  ASSUME IInv, GrossIsCopied, GrossIsItemised, [Next]_vars
  PROVE  GrossIsCopied' /\ GrossIsItemised'
<1>1. CASE UNCHANGED statement
  BY <1>1 DEF GrossIsCopied, GrossIsItemised, NetPayout, SettledCopies, CopiedAmount
<1>2. CASE ListStatement
  <2>1. statement'.at = "listed"
    BY <1>2 DEF ListStatement
  <2> QED
    BY <1>2, <2>1, ListStatementGross DEF GrossIsItemised
<1>3. CASE ItemiseStatement
  <2>1. statement'.at = "done"
    BY <1>3 DEF ItemiseStatement
  <2> QED
    BY <1>3, <2>1, ItemiseGross DEF GrossIsCopied
<1>4. CASE Crash
  <2>1. UNCHANGED statement \/ statement'.at = "none"
    BY <1>4 DEF Crash, NoStatement
  <2> QED
    BY <1>1, <2>1 DEF GrossIsCopied, GrossIsItemised
<1>5. ASSUME NEW p \in Payment,
             \/ CreatePaymentIntent(p) \/ ReplayPaymentIntent(p) \/ Settlement(p)
             \/ WorkerSettles(p) \/ ApplyOperatorAction(p) \/ Verify(p)
      PROVE  UNCHANGED statement
  BY <1>5 DEF CreatePaymentIntent, ReplayPaymentIntent, Settlement, WorkerSettles,
              ApplyOperatorAction, Verify, reportVars
<1>6. ASSUME \/ \E c \in Client, p \in Payment, x \in Path : PaidRequest(c, p, x)
             \/ \E c \in Client : HandlerReturns(c)
             \/ BillingSummary \/ ListReceipts \/ Tick
             \/ OutboxNext /\ UNCHANGED <<now, storeVars, serving, reportVars, crashes>>
             \/ UNCHANGED vars
      PROVE  UNCHANGED statement
  BY <1>6 DEF PaidRequest, HandlerReturns, BillingSummary, ListReceipts, ReadAll, Tick,
              reportVars, vars
<1> QED
  BY <1>1, <1>2, <1>3, <1>4, <1>5, <1>6 DEF Next

\* What a statement has paid out is the sum of its settled line items, although
\* the clock is read again for each item and the worker moves payments on while
\* it is made (gateway.py:512-567).
THEOREM StatementsAddUp == Spec => []GrossIsItemised
<1>1. Init => GrossIsCopied /\ GrossIsItemised
  BY DEF Init, NoStatement, GrossIsCopied, GrossIsItemised
<1>2. IInv /\ GrossIsCopied /\ GrossIsItemised /\ [Next]_vars
        => GrossIsCopied' /\ GrossIsItemised'
  BY GrossStep
<1>3. Spec => [](GrossIsCopied /\ GrossIsItemised)
  BY <1>1, <1>2, Invariance, PTL DEF Spec
<1> QED
  BY <1>3, PTL

-----------------------------------------------------------------------------
(* Types.  The posts of a call are made by flattening, a recursion over a   *)
(* sequence; that it has a solution is shown for ever longer parts of it.   *)

\* g gives the first sequences of seqs, put together, up to the n-th.
Joins(seqs, n, g) ==
  /\ g = [i \in 1 .. n |-> IF i = 1 THEN seqs[i] ELSE g[i - 1] \o seqs[i]]

LEMMA JoinsExist ==
  ASSUME NEW seqs, NEW n \in Nat
  PROVE  \E g : Joins(seqs, n, g)
<1> DEFINE N == {m \in 0 .. n : \E g : Joins(seqs, m, g)}
<1>1. 0 \in N
  <2>1. Joins(seqs, 0, [i \in 1 .. 0 |-> {}])
    BY DEF Joins
  <2> QED
    BY <2>1
<1>2. ASSUME NEW m \in 1 .. n, m - 1 \in N PROVE m \in N
  <2>1. PICK g : Joins(seqs, m - 1, g)
    BY <1>2
  <2> DEFINE last == IF m = 1 THEN seqs[m] ELSE g[m - 1] \o seqs[m]
             h == [i \in 1 .. m |-> IF i = m THEN last ELSE g[i]]
  <2>2. \A i \in 1 .. m - 1 :
          h[i] = g[i] /\ g[i] = IF i = 1 THEN seqs[i] ELSE g[i - 1] \o seqs[i]
    <3> SUFFICES ASSUME NEW i \in 1 .. m - 1
                 PROVE  h[i] = g[i] /\ g[i] = IF i = 1 THEN seqs[i] ELSE g[i - 1] \o seqs[i]
      OBVIOUS
    <3>1. i \in 1 .. m /\ i # m
      OBVIOUS
    <3>2. h[i] = g[i]
      BY <3>1
    <3> HIDE DEF h
    <3> QED
      BY <2>1, <3>2 DEF Joins
  <2>3. \A i \in 1 .. m : h[i] = IF i = 1 THEN seqs[i] ELSE h[i - 1] \o seqs[i]
    <3> SUFFICES ASSUME NEW i \in 1 .. m
                 PROVE  h[i] = IF i = 1 THEN seqs[i] ELSE h[i - 1] \o seqs[i]
      OBVIOUS
    <3>1. CASE i = m
      <4>1. h[i] = last
        BY <3>1
      <4>2. CASE m = 1
        BY <3>1, <4>1, <4>2
      <4>3. CASE m # 1
        <5>1. m - 1 \in 1 .. m - 1
          BY <4>3
        <5>2. h[m - 1] = g[m - 1]
          BY <2>2, <5>1
        <5> QED
          BY <3>1, <4>1, <4>3, <5>2
      <4> QED
        BY <4>2, <4>3
    <3>2. CASE i # m
      <4>1. i \in 1 .. m - 1
        BY <3>2
      <4>2. h[i] = IF i = 1 THEN seqs[i] ELSE g[i - 1] \o seqs[i]
        BY <2>2, <4>1
      <4>3. i # 1 => h[i - 1] = g[i - 1]
        <5>1. i # 1 => i - 1 \in 1 .. m - 1
          BY <4>1
        <5> QED
          BY <2>2, <5>1
      <4> QED
        BY <4>2, <4>3
    <3> QED
      BY <3>1, <3>2
  <2>4. DOMAIN h = 1 .. m /\ h = [i \in 1 .. m |-> h[i]]
    OBVIOUS
  <2> HIDE DEF h
  <2>5. h = [i \in 1 .. m |-> IF i = 1 THEN seqs[i] ELSE h[i - 1] \o seqs[i]]
    BY <2>3, <2>4
  <2>6. Joins(seqs, m, h)
    BY <2>5 DEF Joins
  <2> QED
    BY <2>6
<1>3. \A m \in 0 .. n : m \in N
  <2> HIDE DEF N
  <2> QED
    BY <1>1, <1>2, UpToInduction
<1> QED
  BY <1>3

LEMMA FlattenType ==
  ASSUME NEW X, NEW seqs \in Seq(Seq(X))
  PROVE  FlattenSeq(seqs) \in Seq(X)
<1>1. CASE Len(seqs) = 0
  <2>1. FlattenSeq(seqs) = seqs
    BY <1>1 DEF FlattenSeq
  <2>2. seqs = <<>>
    BY <1>1
  <2> QED
    BY <2>1, <2>2
<1>2. CASE Len(seqs) # 0
  <2> DEFINE n == Len(seqs)
             g == CHOOSE h : Joins(seqs, n, h)
  <2>1. n \in Nat /\ n # 0
    BY <1>2
  <2>2. Joins(seqs, n, g)
    <3> HIDE DEF n
    <3> QED
      BY <2>1, JoinsExist
  <2>3. FlattenSeq(seqs) = g[n]
    BY <1>2 DEF FlattenSeq, Joins
  <2>4. \A i \in 1 .. n : seqs[i] \in Seq(X)
    OBVIOUS
  <2> DEFINE N == {m \in 0 .. n : m = 0 \/ g[m] \in Seq(X)}
  <2> HIDE DEF g, n
  <2>5. ASSUME NEW m \in 1 .. n, m - 1 \in N PROVE m \in N
    <3>1. g[m] = IF m = 1 THEN seqs[m] ELSE g[m - 1] \o seqs[m]
      BY <2>1, <2>2 DEF Joins
    <3>2. CASE m = 1
      BY <2>4, <3>1, <3>2
    <3>3. CASE m # 1
      <4>1. g[m - 1] \in Seq(X) /\ seqs[m] \in Seq(X)
        BY <2>1, <2>4, <2>5, <3>3
      <4>2. g[m - 1] \o seqs[m] \in Seq(X)
        BY <4>1
      <4>3. g[m] \in Seq(X) /\ m \in 0 .. n
        BY <2>1, <3>1, <3>3, <4>2
      <4> QED
        BY <4>3
    <3> QED
      BY <3>2, <3>3
  <2>6. 0 \in N
    BY <2>1
  <2>7. \A m \in 0 .. n : m \in N
    <3> HIDE DEF N
    <3> QED
      BY <2>1, <2>5, <2>6, UpToInduction
  <2> QED
    BY <2>1, <2>3, <2>7
<1> QED
  BY <1>1, <1>2

\* The targets of a post in some order.
LEMMA TargetsType == SetToSeq(Target) \in Seq(Target)
<1> DEFINE n == Cardinality(Target)
<1>1. n \in Nat /\ ExistsBijection(1 .. n, Target)
  BY OutboxAssumption, FS_CardinalityType
<1>2. \E f \in [1 .. n -> Target] : IsInjective(f)
  BY <1>1 DEF ExistsBijection, Bijection, Injection
<1>3. SetToSeq(Target) \in [1 .. n -> Target]
  BY <1>2 DEF SetToSeq
<1> HIDE DEF n
<1> QED
  BY <1>1, <1>3

LEMMA PostsType ==
  ASSUME outbox \in Seq(Event(Status))
  PROVE  Posts(Batch) \in Seq((1 .. MaxEvents) \X Target)
<1> DEFINE order == SetToSeq(Target)
           n == IF Len(outbox) < Limit THEN Len(outbox) ELSE Limit
           P == (1 .. MaxEvents) \X Target
           line(i) == [j \in 1 .. Len(order) |-> <<Batch[i].n, order[j]>>]
           lines == [i \in 1 .. Len(Batch) |-> line(i)]
<1>1. n \in 0 .. Len(outbox) /\ Len(outbox) \in Nat
  BY OutboxAssumption
<1>2. Batch \in Seq(Event(Status))
  <2>1. Batch = SubSeq(outbox, 1, n)
    BY DEF Batch
  <2>2. \A i \in 1 .. n : outbox[i] \in Event(Status)
    BY <1>1
  <2> HIDE DEF n
  <2> QED
    BY <1>1, <2>1, <2>2
<1>3. \A i \in 1 .. Len(Batch) : Batch[i].n \in 1 .. MaxEvents
  <2>1. \A i \in 1 .. Len(Batch) : Batch[i] \in Event(Status)
    BY <1>2
  <2> QED
    BY <2>1 DEF Event
<1>4. order \in Seq(Target)
  BY TargetsType
<1>5. \A i \in 1 .. Len(Batch) : line(i) \in Seq(P)
  <2> HIDE DEF order
  <2>1. Len(order) \in Nat /\ \A j \in 1 .. Len(order) : order[j] \in Target
    BY <1>4
  <2> QED
    BY <1>3, <2>1
<1>6. lines \in Seq(Seq(P))
  <2>1. Len(Batch) \in Nat
    BY <1>2
  <2> HIDE DEF line, P
  <2> QED
    BY <1>5, <2>1
<1>7. Posts(Batch) = FlattenSeq(lines)
  BY DEF Posts
<1> HIDE DEF lines, P
<1> QED
  BY <1>6, <1>7, FlattenType DEF P

\* The outbox keeps what it may; the other variables of the delivery have types
\* that the invariant above says nothing of.
DeliveryTypes ==
  /\ Len(outbox) <= Kept
  /\ posting \in Seq((1 .. MaxEvents) \X Target)
  /\ outages \in 0 .. MaxOutages
  /\ inbox \in [Target -> SUBSET (1 .. MaxEvents)]
  /\ lost \in 0 .. recorded

RestTypes ==
  /\ now \in 0 .. MaxTime
  /\ overridden \subseteq Payment
  /\ statement.at \in {"none", "listed", "done"}
  /\ ops \in 0 .. MaxOps /\ crashes \in 0 .. MaxCrashes

LEMMA TrimmedIsKept ==
  ASSUME NEW S, NEW events \in Seq(S)
  PROVE  Len(Trimmed(events)) <= Kept
<1> DEFINE k == IF Len(events) > Kept THEN Len(events) - Kept + 1 ELSE 1
<1>1. Kept \in Nat \ {0} /\ Len(events) \in Nat
  BY OutboxAssumption
<1>2. k \in 1 .. Len(events) + 1 /\ Len(events) \in k - 1 .. Len(events)
  BY <1>1
<1>3. Len(events) - k + 1 <= Kept
  BY <1>1
<1>4. Trimmed(events) = SubSeq(events, k, Len(events))
  BY DEF Trimmed
<1> HIDE DEF k
<1>5. Len(SubSeq(events, k, Len(events))) =
        IF k <= Len(events) THEN Len(events) - k + 1 ELSE 0
  BY <1>1, <1>2, SubSeqProperties
<1> QED
  BY <1>1, <1>2, <1>3, <1>4, <1>5

LEMMA RecordedTypes ==
  ASSUME Shape, DeliveryTypes, NEW p \in Payment, NEW s, RecordEvent(p, s)
  PROVE  DeliveryTypes'
<1>1. /\ recorded' = recorded + 1 /\ recorded \in Nat
      /\ outbox' = Trimmed(Append(outbox, [n |-> recorded + 1, of |-> p, says |-> s]))
      /\ UNCHANGED <<posting, outages, inbox, lost>>
  BY OutboxAssumption DEF RecordEvent, delivery, Shape
<1>2. Len(outbox') <= Kept
  <2> DEFINE A == Event(Status) \cup {[n |-> recorded + 1, of |-> p, says |-> s]}
             e == [n |-> recorded + 1, of |-> p, says |-> s]
  <2>1. outbox \in Seq(A) /\ e \in A
    <3>1. outbox \in Seq(Event(Status))
      BY DEF Shape
    <3>2. Event(Status) \subseteq A
      OBVIOUS
    <3> HIDE DEF A
    <3>3. outbox \in Seq(A)
      BY <3>1, <3>2
    <3> QED
      BY <3>3 DEF A
  <2> HIDE DEF A, e
  <2>2. Append(outbox, e) \in Seq(A)
    BY <2>1
  <2>3. Len(Trimmed(Append(outbox, e))) <= Kept
    BY <2>2, TrimmedIsKept
  <2> QED
    BY <1>1, <2>3 DEF e
<1>3. lost \in 0 .. recorded + 1
  BY <1>1 DEF DeliveryTypes
<1> QED
  BY <1>1, <1>2, <1>3 DEF DeliveryTypes

LEMMA OutboxTypes ==
  ASSUME Shape, DeliveryTypes, OutboxNext
  PROVE  DeliveryTypes'
<1> DEFINE P == (1 .. MaxEvents) \X Target
<1>1. CASE DeliverPending
  BY <1>1, PostsType DEF DeliverPending, DeliveryTypes, Shape
<1>2. ASSUME posting # <<>> PROVE Tail(posting) \in Seq(P) /\ Head(posting) \in P
  <2>1. posting \in Seq(P)
    BY DEF DeliveryTypes
  <2> HIDE DEF P
  <2> QED
    BY <1>2, <2>1
<1>3. CASE Post
  <2> DEFINE n == Head(posting)[1]  t == Head(posting)[2]
  <2>1. /\ posting # <<>> /\ inbox' = [inbox EXCEPT ![t] = @ \cup {n}]
        /\ posting' = Tail(posting) /\ UNCHANGED <<outbox, recorded, outages, lost>>
    BY <1>3 DEF Post
  <2>2. n \in 1 .. MaxEvents /\ t \in Target
    BY <1>2, <2>1
  <2>3. inbox' \in [Target -> SUBSET (1 .. MaxEvents)]
    BY <2>1, <2>2 DEF DeliveryTypes
  <2> QED
    BY <1>2, <2>1, <2>3 DEF DeliveryTypes
<1>4. CASE PostFails
  <2>1. outages' \in 0 .. MaxOutages
    BY <1>4, OutboxAssumption DEF PostFails, DeliveryTypes
  <2> QED
    BY <1>2, <1>4, <2>1 DEF PostFails, DeliveryTypes
<1> QED
  BY <1>1, <1>3, <1>4 DEF OutboxNext

LEMMA TypesStep ==
  ASSUME IInv, DeliveryTypes, RestTypes, [Next]_vars
  PROVE  DeliveryTypes' /\ RestTypes'
<1>0. Shape
  BY DEF IInv
<1>1. ASSUME UNCHANGED outboxVars PROVE DeliveryTypes'
  BY <1>1 DEF DeliveryTypes, outboxVars
<1>2. ASSUME NEW p \in Payment,
             CreatePaymentIntent(p) \/ ReplayPaymentIntent(p) \/ Settlement(p)
      PROVE  DeliveryTypes' /\ RestTypes'
  <2>1. \E s : RecordEvent(p, s)
    BY <1>2 DEF CreatePaymentIntent, ReplayPaymentIntent, Settlement
  <2>2. DeliveryTypes'
    BY <1>0, <2>1, RecordedTypes
  <2>3. RestTypes'
    BY <1>2 DEF CreatePaymentIntent, ReplayPaymentIntent, Settlement, reportVars, RestTypes
  <2> QED
    BY <2>2, <2>3
<1>3. ASSUME NEW p \in Payment, ApplyOperatorAction(p)
      PROVE  DeliveryTypes' /\ RestTypes'
  <2>1. \E s : RecordEvent(p, s)
    BY <1>3 DEF ApplyOperatorAction
  <2>2. DeliveryTypes'
    BY <1>0, <2>1, RecordedTypes
  <2>3. ops' \in 0 .. MaxOps /\ overridden' \subseteq Payment
    BY <1>3, EndpointAssumption DEF ApplyOperatorAction, RestTypes
  <2> QED
    BY <1>3, <2>2, <2>3 DEF ApplyOperatorAction, RestTypes
<1>4. ASSUME NEW p \in Payment, WorkerSettles(p) \/ Verify(p)
      PROVE  DeliveryTypes' /\ RestTypes'
  BY <1>1, <1>4 DEF WorkerSettles, Verify, reportVars, RestTypes
<1>5. ASSUME NEW c \in Client, NEW p \in Payment, NEW x \in Path, PaidRequest(c, p, x)
      PROVE  DeliveryTypes' /\ RestTypes'
  BY <1>1, <1>5 DEF PaidRequest, reportVars, RestTypes
<1>6. ASSUME NEW c \in Client, HandlerReturns(c)
      PROVE  DeliveryTypes' /\ RestTypes'
  BY <1>1, <1>6 DEF HandlerReturns, reportVars, storeVars, RestTypes
<1>7. CASE BillingSummary \/ ListReceipts
  BY <1>1, <1>7 DEF BillingSummary, ListReceipts, ReadAll, reportVars, RestTypes
<1>8. CASE ListStatement
  <2>1. ops' \in 0 .. MaxOps
    BY <1>8, EndpointAssumption DEF ListStatement, RestTypes
  <2>2. statement'.at = "listed"
    BY <1>8 DEF ListStatement
  <2> QED
    BY <1>1, <1>8, <2>1, <2>2 DEF ListStatement, RestTypes
<1>9. CASE ItemiseStatement
  <2>1. statement'.at = "done"
    BY <1>9 DEF ItemiseStatement
  <2> QED
    BY <1>1, <1>9, <2>1 DEF ItemiseStatement, RestTypes
<1>10. CASE Tick
  <2>1. now' \in 0 .. MaxTime
    BY <1>10, EndpointAssumption DEF Tick, RestTypes
  <2> QED
    BY <1>1, <1>10, <2>1 DEF Tick, storeVars, reportVars, RestTypes
<1>11. CASE Crash
  <2>1. crashes' \in 0 .. MaxCrashes
    BY <1>11, EndpointAssumption DEF Crash, RestTypes
  <2>2. statement'.at \in {"none", "listed", "done"}
    BY <1>11 DEF Crash, NoStatement, RestTypes
  <2>3. RestTypes'
    BY <1>11, <2>1, <2>2 DEF Crash, storeVars, RestTypes
  <2>4. /\ outbox' = <<>> /\ posting' = <<>> /\ lost' = recorded
        /\ UNCHANGED <<recorded, outages, inbox>>
    BY <1>11 DEF Crash, OutboxLost
  <2>5. recorded \in Nat /\ Kept \in Nat
    BY <1>0, OutboxAssumption DEF Shape
  <2>6. posting' \in Seq((1 .. MaxEvents) \X Target) /\ Len(outbox') = 0
    BY <2>4
  <2>7. DeliveryTypes'
    BY <2>4, <2>5, <2>6 DEF DeliveryTypes
  <2> QED
    BY <2>3, <2>7
<1>12. CASE OutboxNext /\ UNCHANGED <<now, storeVars, serving, reportVars, crashes>>
  BY <1>0, <1>12, OutboxTypes DEF storeVars, reportVars, RestTypes
<1>13. CASE UNCHANGED vars
  BY <1>1, <1>13 DEF vars, storeVars, reportVars, RestTypes
<1> QED
  BY <1>2, <1>3, <1>4, <1>5, <1>6, <1>7, <1>8, <1>9, <1>10, <1>11, <1>12, <1>13 DEF Next

\* Everything the process and its outbox hold stays well typed, and the outbox
\* never keeps more events than it may, for any number of payments, targets,
\* clients and events (gateway.py:880-901, webhooks.py:21-45).
THEOREM TypeCorrect == Spec => []TypeOK
<1>1. Init => DeliveryTypes /\ RestTypes
  <2>1. Init => DeliveryTypes
    BY OutboxAssumption DEF Init, OutboxInit, DeliveryTypes
  <2>2. Init => RestTypes
    BY EndpointAssumption DEF Init, NoStatement, RestTypes
  <2> QED
    BY <2>1, <2>2
<1>2. IInv /\ DeliveryTypes /\ RestTypes /\ [Next]_vars => DeliveryTypes' /\ RestTypes'
  BY TypesStep
<1>3. IInv /\ DeliveryTypes /\ RestTypes => TypeOK
  BY DEF IInv, Shape, DeliveryTypes, RestTypes, TypeOK, OutboxOK
<1> QED
  BY <1>1, <1>2, <1>3, Invariance, PTL DEF Spec
=============================================================================
