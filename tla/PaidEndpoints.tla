----------------------------- MODULE PaidEndpoints -----------------------------
(***************************************************************************)
(* A merchant's process that sells HTTP resources: paid endpoints behind a *)
(* 402 handshake, the facilitator, the operator's actions and reports, the *)
(* webhook events.  The code is python/seller/runtime.py, facilitator.py   *)
(* and gateway.py.                                                         *)
(*                                                                         *)
(* A handler of the process runs from one await to the next without being  *)
(* interrupted; only the protected handlers await.  The recovery worker is *)
(* another process on the same store.                                      *)
(***************************************************************************)
EXTENDS WebhookOutbox, FiniteSets, Functions

CONSTANTS
  Path,       \* paths of the paid routes
  Price,      \* price_atomic of each
  Intents,    \* the intents that may be asked for under each payment id, see Intent
  Deadline,   \* request_deadline of each payment
  Client,     \* requests to paid endpoints that are served at a time
  MaxTime,    \* bound: the clock
  MaxOps,     \* bound: operator actions and statements
  MaxCrashes, \* bound: restarts of the process
  None

\* route_path, request_path, and an amount the buyer names or leaves to the
\* merchant.
Intent == [route : Path \cup {None}, asked : Path \cup {None}, amount : Nat \cup {None}]

Status == {"authorized", "submitted", "settled", "failed", "expired"}

\* What the gateway keeps of a payment.
Payable == [route : Path \cup {None}, asked : Path \cup {None}, amount : Nat,
            status : Status]

\* Why a request that brings a payment is refused.
Reason == {"payment_resource_mismatch", "payment_amount_insufficient", "payment_not_settled"}

ASSUME EndpointAssumption ==
  /\ IsFiniteSet(Payment)
  /\ Price \in [Path -> Nat] /\ Intents \in [Payment -> SUBSET Intent]
  /\ Deadline \in [Payment -> Nat] /\ MaxTime \in Nat
  /\ MaxOps \in Nat /\ MaxCrashes \in Nat
  /\ None \notin Nat \cup Path \cup Payment \cup Payable \cup Payment \X Path \cup Reason

VARIABLES
  now,        \* the clock
  record,     \* the payment store
  serving,    \* what each client's request runs: a paid handler, or nothing
  overridden, \* history: payments changed by an operator
  statement,  \* the billing statement that is made, or was made last
  ops, crashes

storeVars == <<record, overridden>>
reportVars == <<statement, ops>>
vars == <<now, storeVars, serving, reportVars, crashes, outboxVars>>

NoStatement == [at |-> "none"]

TypeOK ==
  /\ OutboxOK(Status)
  /\ now \in 0 .. MaxTime
  /\ record \in [Payment -> Payable \cup {None}]
  /\ serving \in [Client -> {None} \cup Payment \X Path]
  /\ overridden \subseteq Payment
  /\ statement.at \in {"none", "listed", "done"}
  /\ ops \in 0 .. MaxOps /\ crashes \in 0 .. MaxCrashes

Init ==
  /\ OutboxInit
  /\ now = 0 /\ record = [p \in Payment |-> None]
  /\ serving = [c \in Client |-> None] /\ overridden = {}
  /\ statement = NoStatement
  /\ ops = 0 /\ crashes = 0

Known == {p \in Payment : record[p] # None}

\* No handler of the process is half way.
Idle == statement.at # "listed"
-------------------------------------------------------------------------------
(***************************************************************************)
(* Payments.                                                               *)
(***************************************************************************)
\* _touch_payment: what a read makes of a record.
Touched(r, p) ==
  IF r.status = "authorized" /\ Deadline[p] < now THEN [r EXCEPT !.status = "expired"] ELSE r

Touch(p) == [record EXCEPT ![p] = Touched(@, p)]

\* The price is looked up for a route that is given; without one the buyer
\* has to name the amount.
AmountOf(i) ==
  IF i.amount # None THEN i.amount ELSE IF i.route = None THEN None ELSE Price[i.route]

CreatePaymentIntent(p) ==
  /\ Idle /\ p \notin Known /\ now < Deadline[p]
  /\ \E i \in Intents[p] :
       /\ AmountOf(i) # None
       /\ record' = [record EXCEPT ![p] =
            [route |-> i.route, asked |-> IF i.asked = None THEN i.route ELSE i.asked,
             amount |-> AmountOf(i), status |-> "authorized"]]
  /\ RecordEvent(p, "authorized")
  /\ UNCHANGED <<now, overridden, serving, reportVars, crashes>>

ReplayedSaysAuthorized(p) == "authorized"

\* The request is made again under its idempotency key.
ReplayedSays(p) == Touched(record[p], p).status

ReplayPaymentIntent(p) ==
  /\ Idle /\ p \in Known /\ now < Deadline[p]
  /\ record' = Touch(p)
  /\ RecordEvent(p, ReplayedSays(p))
  /\ UNCHANGED <<now, overridden, serving, reportVars, crashes>>

\* What the settlement service makes of a record.
Executed(r, p) ==
  CASE r.status = "authorized" /\ Deadline[p] < now -> {"expired"}
    [] r.status = "authorized" -> {"submitted", "failed"}
    [] OTHER -> {r.status}

Reconciled(r) ==
  IF r.status = "submitted" THEN {"submitted", "settled", "failed"} ELSE {r.status}

\* Settlement over the gateway's endpoints records an event, also when
\* nothing changed; the facilitator's settle is an execution.
Settlement(p) ==
  /\ Idle /\ p \in Known
  /\ \E s \in Executed(record[p], p) \cup Reconciled(record[p]) :
       /\ record' = [record EXCEPT ![p].status = s]
       /\ RecordEvent(p, s)
  /\ UNCHANGED <<now, overridden, serving, reportVars, crashes>>

\* The recovery worker settles beside the gateway, which records nothing.
WorkerSettles(p) ==
  /\ p \in Known
  /\ \E s \in Executed(record[p], p) \cup Reconciled(record[p]) :
       record' = [record EXCEPT ![p].status = s]
  /\ UNCHANGED <<now, overridden, serving, reportVars, crashes, outboxVars>>

\* apply_operator_action: whatever the record was.
ApplyOperatorAction(p) ==
  /\ Idle /\ p \in Known /\ ops < MaxOps
  /\ \E s \in {"settled", "failed"} :
       /\ record' = [record EXCEPT ![p].status = s]
       /\ RecordEvent(p, s)
  /\ overridden' = overridden \cup {p}
  /\ ops' = ops + 1
  /\ UNCHANGED <<now, serving, statement, crashes>>
-------------------------------------------------------------------------------
(***************************************************************************)
(* Paid endpoints and the facilitator.                                     *)
(***************************************************************************)
\* A payment without route_path is bound by its request_path, "/" for none.
ResourceMismatch(r, x) == (r.route # None /\ r.route # x) \/ r.asked # x

RefusalUnlessSubmitted(r, x) ==
  CASE ResourceMismatch(r, x) -> "payment_resource_mismatch"
    [] r.amount < Price[x] -> "payment_amount_insufficient"
    [] r.status \notin {"submitted", "settled"} -> "payment_not_settled"
    [] OTHER -> None

\* Why a request with a payment is answered 402, if it is.
Refusal(r, x) ==
  CASE ResourceMismatch(r, x) -> "payment_resource_mismatch"
    [] r.amount < Price[x] -> "payment_amount_insufficient"
    [] r.status # "settled" -> "payment_not_settled"
    [] OTHER -> None

\* paid_api's endpoint, up to the protected handler.  A 402 changes nothing
\* but what reading the payment changes.
PaidRequest(c, p, x) ==
  /\ Idle /\ serving[c] = None /\ p \in Known
  /\ record' = Touch(p)
  /\ IF Refusal(Touched(record[p], p), x) = None
       THEN serving' = [serving EXCEPT ![c] = <<p, x>>]
       ELSE UNCHANGED serving
  /\ UNCHANGED <<now, overridden, reportVars, crashes, outboxVars>>

\* The handler returns, or raises, and the receipt tells the record as it was.
HandlerReturns(c) ==
  /\ Idle /\ serving[c] # None
  /\ serving' = [serving EXCEPT ![c] = None]
  /\ UNCHANGED <<now, storeVars, reportVars, crashes, outboxVars>>

\* The facilitator's verify, or a query of the payment, reads it.
Verify(p) ==
  /\ p \in Known /\ Idle
  /\ record' = Touch(p)
  /\ UNCHANGED <<now, overridden, serving, reportVars, crashes, outboxVars>>
-------------------------------------------------------------------------------
(***************************************************************************)
(* Reports.                                                                *)
(***************************************************************************)
TouchAll == [p \in Payment |-> IF p \in Known THEN Touched(record[p], p) ELSE None]

\* A summary, or a list of receipts, reads every payment.
ReadAll ==
  /\ Idle
  /\ record' = TouchAll
  /\ UNCHANGED <<now, overridden, serving, reportVars, crashes, outboxVars>>

BillingSummary == ReadAll

ListReceipts == ReadAll

\* billing_statement lists the payments and counts them ...
ListStatement ==
  /\ Idle /\ ops < MaxOps
  /\ LET settled == {p \in Known : TouchAll[p].status = "settled"}
     IN statement' = [at |-> "listed", records |-> [p \in Known |-> TouchAll[p]],
                      gross |-> SumFunction([p \in settled |-> TouchAll[p].amount])]
  /\ record' = TouchAll
  /\ ops' = ops + 1
  /\ UNCHANGED <<now, overridden, serving, crashes, outboxVars>>

LineItemNow(p) == record[p]

\* ... and makes the line items, reading the clock again for each of them.
LineItem(p) == Touched(statement.records[p], p)

ItemiseStatement ==
  /\ statement.at = "listed"
  /\ LET listed == DOMAIN statement.records IN
     /\ statement' = [at |-> "done", gross |-> statement.gross,
                      items |-> [p \in listed |->
                        IF LineItem(p).status = "settled" THEN LineItem(p).amount ELSE 0]]
     /\ record' = [p \in Payment |->
          IF p \in listed /\ LineItem(p) # statement.records[p] THEN LineItem(p) ELSE record[p]]
  /\ UNCHANGED <<now, overridden, serving, ops, crashes, outboxVars>>

\* payout_report: no fee is kept from the statement's gross amount.
NetPayout == statement.gross

Tick ==
  /\ now < MaxTime /\ now' = now + 1
  /\ UNCHANGED <<storeVars, serving, reportVars, crashes, outboxVars>>

\* The process dies: its outbox and the requests it serves are gone.
Crash ==
  /\ crashes < MaxCrashes /\ crashes' = crashes + 1
  /\ serving' = [c \in Client |-> None]
  /\ statement' = IF statement.at = "listed" THEN NoStatement ELSE statement
  /\ OutboxLost
  /\ UNCHANGED <<now, storeVars, ops>>
-------------------------------------------------------------------------------
Next ==
  \/ \E p \in Payment :
       \/ CreatePaymentIntent(p) \/ ReplayPaymentIntent(p) \/ Settlement(p)
       \/ WorkerSettles(p) \/ ApplyOperatorAction(p) \/ Verify(p)
  \/ \E c \in Client, p \in Payment, x \in Path : PaidRequest(c, p, x)
  \/ \E c \in Client : HandlerReturns(c)
  \/ BillingSummary \/ ListReceipts \/ ListStatement \/ ItemiseStatement
  \/ Tick \/ Crash
  \/ OutboxNext /\ UNCHANGED <<now, storeVars, serving, reportVars, crashes>>

Spec == Init /\ [][Next]_vars

\* Somebody calls deliver_pending again and again, and a call goes on.
FairSpec == Spec /\ OutboxFairness
-------------------------------------------------------------------------------
(***************************************************************************)
(* Properties.                                                             *)
(***************************************************************************)
\* While a paid handler runs, its payment is settled, is of the resource asked
\* for and of its price at least, so that the receipt made from the record read
\* before is true at the end: no deadline, report or settlement step takes it
\* back, unless an operator changes it (runtime.py:114-154,
\* spec/HTTP402_ADAPTER.md:82-106).
ServedIsPaid ==
  \A c \in Client :
    serving[c] # None => LET p == serving[c][1]  x == serving[c][2] IN
      p \notin overridden =>
        /\ record[p].status = "settled"
        /\ record[p].amount >= Price[x] /\ record[p].asked = x

Order == [authorized |-> 0, submitted |-> 1, settled |-> 2, failed |-> 2, expired |-> 2]

\* The events of a payment tell its course in order, and none is ahead of the
\* record, whoever settles it and however often a request is repeated.
EventsFollowTheRecord ==
  \A i, j \in 1 .. Len(outbox) :
    LET e == outbox[i]  f == outbox[j] IN
    e.of \notin overridden =>
      /\ i < j /\ f.of = e.of => Order[e.says] <= Order[f.says]
      /\ Order[e.says] = 2 => record[e.of].status = e.says
      /\ Order[e.says] <= Order[record[e.of].status]

\* What a billing statement has paid out to the merchant is the sum of its
\* settled line items, although time passes and payments move on while it is
\* made (gateway.py:512-567).
GrossIsItemised ==
  statement.at = "done" => NetPayout = SumFunction(statement.items)
===============================================================================
