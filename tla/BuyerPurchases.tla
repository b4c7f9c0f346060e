---------------------------- MODULE BuyerPurchases ----------------------------
(***************************************************************************)
(* The buyer's side: agents that share one wallet choose an offer under a  *)
(* budget, open a payment channel on chain (approve, wait, initialize,     *)
(* wait), create a payment intent, drive it to its end and, for HTTP 402   *)
(* resources, present it.  The code is python/buyer/client.py, market.py,  *)
(* runtime.py, provisioner.py and scripts/open_channel_exec.js, and the    *)
(* tool hints of python/shared/protocol.py that agent hosts follow.        *)
(*                                                                         *)
(* The gateway's payment record moves as PaymentLifecycle lets it; the     *)
(* races behind it are the subject of SettlementService.                   *)
(***************************************************************************)
EXTENDS Integers, FiniteSets

CONSTANTS
  Agent,        \* tasks that buy, each through client objects of its own
  Seller,       \* merchants
  Offer,        \* paid routes
  SellerOf,     \* the merchant of each offer
  Prices,       \* what an offer may cost per unit
  Listed,       \* what each offer costs at first
  NeedsHuman,   \* offers marked requires_human_approval or not auto-purchasable
  TypicalUnits, \* an offer's budget_hint.typical_units
  Suggested,    \* an offer's suggested_prepaid_atomic, or None
  Bonus,        \* an offer's score apart from its price
  DefaultDeposit, \* a merchant's default_deposit_atomic
  Requests,     \* the calls each agent makes, see Request
  Policy,       \* the BuyerBudgetPolicy of clients that were given one
  Funds,        \* the wallet's tokens
  Faults,       \* subset of {"http", "slow", "revert", "executor_error"}
  MaxAttempts,  \* finalize_payment's max_attempts
  MaxTries,     \* bound: purchases each agent begins
  MaxChanges,   \* bound: changes of prices and of the auto purchase switch
  MaxFailures,  \* bound: calls to a merchant that fail or whose answer is lost
  None

\* A call: the way in, the flow (buy_capability with pay_route,
\* prepare_purchase, or request_paid_resource), the offers its selector matches, its
\* arguments, and who drives the payment on.
Request ==
  [via : {"client", "runtime", "market"}, how : {"buy", "prepare", "resource"},
   wanted : SUBSET Offer \ {{}}, units : Nat \cup {None},
   budget : Nat \cup {None}, allowed : BOOLEAN, execute : BOOLEAN,
   drive : {"none", "finalize", "hints"}]

Status == {"authorized", "submitted", "settled", "failed", "retryable", "expired"}

\* What the merchant keeps of a payment.
Payment == [amount : Nat, offer : Offer, status : Status]

ASSUME PurchaseAssumption ==
  /\ SellerOf \in [Offer -> Seller] /\ NeedsHuman \subseteq Offer
  /\ Prices \subseteq Nat /\ Listed \in [Offer -> Prices]
  /\ TypicalUnits \in [Offer -> Nat] /\ Bonus \in [Offer -> Nat]
  /\ Suggested \in [Offer -> Nat \cup {None}]
  /\ DefaultDeposit \in Nat \ {0}
  /\ Requests \in [Agent -> SUBSET Request]
  /\ Funds \in Nat /\ MaxAttempts \in Nat \ {0}
  /\ MaxTries \in [Agent -> Nat] /\ MaxChanges \in Nat /\ MaxFailures \in Nat
  /\ None \notin Nat \cup Offer \cup Payment

\* One purchase of an agent; it names the channel too, whose salt is random.
Purchase == UNION {{a} \X (1 .. MaxTries[a]) : a \in Agent}

VARIABLES
  price,      \* what each offer costs now, at its merchant
  changes,    \* how often a price or the switch was changed
  failures,   \* how many calls to merchants have failed
  autoPurchase, \* runtime.auto_purchase_enabled
  seen,       \* the price of each offer in the manifest an agent's client cached
  job,        \* what each agent is doing
  tries,      \* purchases begun by each agent
  plan,       \* each purchase's request and the deposit it provisions
  tx,         \* status of each purchase's two transactions
  allowance,  \* what the channel contract may take from the wallet
  purse,      \* tokens in the wallet
  channels,   \* purchases whose channel is open on chain
  payment,    \* the merchant's record of each purchase's payment
  outcome     \* what the caller of each purchase was told

vars == <<price, changes, autoPurchase, failures, seen, job, tries, plan, tx, allowance,
          purse, channels, payment, outcome>>

chain == <<tx, allowance, purse, channels>>
merchant == <<price, changes, autoPurchase>>

Action == {"buy_now", "needs_approval", "skip", "blocked"}

Terminal == {"settled", "failed", "retryable", "expired"}

Step ==
  {"idle", "fetch", "rebuy", "decide", "open", "approve", "approving", "init",
   "initializing", "session", "create", "lost", "execute", "status",
   "finalize", "hints", "present"}

\* What the agents ask for.
Asked == UNION {Requests[a] : a \in Agent}

Job ==
  [at : Step, req : Asked, offer : Offer \cup {None}, action : Action,
   amount : Nat, deposit : Nat, status : Status \cup {None},
   attempts : 0 .. MaxAttempts]

Idle == [at |-> "idle"]

TxKind == {"approve", "init"}

Outcome ==
  {None, "skipped", "error", "unfinished", "served"} \cup Terminal

TypeOK ==
  /\ price \in [Offer -> Prices] /\ changes \in 0 .. MaxChanges
  /\ failures \in 0 .. MaxFailures
  /\ autoPurchase \in BOOLEAN
  /\ seen \in [Agent -> [Offer -> Prices \cup {None}]]
  /\ job \in [Agent -> Job \cup {Idle}]
  /\ tries \in [Agent -> Nat] /\ \A a \in Agent : tries[a] <= MaxTries[a]
  /\ plan \in [Purchase -> [deposit : Nat, req : Asked \cup {None}]]
  /\ tx \in [Purchase -> [TxKind -> {"none", "sent", "ok", "reverted"}]]
  /\ allowance \in Nat /\ purse \in 0 .. Funds
  /\ channels \subseteq Purchase
  /\ payment \in [Purchase -> Payment \cup {None}]
  /\ outcome \in [Purchase -> Outcome]

Init ==
  /\ price = Listed /\ changes = 0 /\ failures = 0
  /\ autoPurchase = TRUE
  /\ seen = [a \in Agent |-> [o \in Offer |-> None]]
  /\ job = [a \in Agent |-> Idle]
  /\ tries = [a \in Agent |-> 0]
  /\ plan = [p \in Purchase |-> [deposit |-> 0, req |-> None]]
  /\ tx = [p \in Purchase |-> [k \in TxKind |-> "none"]]
  /\ allowance = 0 /\ purse = Funds /\ channels = {}
  /\ payment = [p \in Purchase |-> None]
  /\ outcome = [p \in Purchase |-> None]

Current(a) == <<a, tries[a]>>
-------------------------------------------------------------------------------
(***************************************************************************)
(* Estimates and the choice of an offer.                                   *)
(***************************************************************************)
\* BuyerBudgetPolicy's count of the day; no purchase ever raises the field.
SpentToday == 0

Units(q, o) == IF q.units = None THEN TypicalUnits[o] ELSE q.units

\* The decision before the buyer's policy is asked.
BudgetAction(q, o, total) ==
  IF (q.budget # None /\ total > q.budget) \/ o \in NeedsHuman
    THEN "needs_approval"
    ELSE IF total = 0 THEN "skip" ELSE "buy_now"

\* Violations that ask for approval.
NeedsApproval(s, total) ==
  \/ Policy.approveUntrusted /\ Policy.trusted # {} /\ s \notin Policy.trusted
  \/ Policy.perPurchase # None /\ total > Policy.perPurchase
  \/ Policy.approveAbove # None /\ total > Policy.approveAbove
  \/ Policy.daily # None /\ SpentToday + total > Policy.daily

EvaluateBudgetPolicy(s, total, action) ==
  IF s \in Policy.blocked THEN "blocked"
  ELSE IF action = "buy_now" /\ NeedsApproval(s, total) THEN "needs_approval"
  ELSE action

\* The market's and the runtime's clients are built without a policy.
Estimate(a, q, o) ==
  LET total == seen[a][o] * Units(q, o)
      asked == BudgetAction(q, o, total)
  IN [offer |-> o, total |-> total,
      prepaid |-> IF Suggested[o] = None THEN total ELSE Suggested[o],
      action |-> IF q.via = "client"
                   THEN EvaluateBudgetPolicy(SellerOf[o], total, asked)
                   ELSE asked]

DecisionRank(action) ==
  CASE action = "buy_now" -> 0 [] action = "needs_approval" -> 1
    [] action = "skip" -> 2 [] OTHER -> 99

\* Price counts against an offer in the market's score.
Score(e) == 1000000 \div (IF e.total > 1 THEN e.total ELSE 1) + Bonus[e.offer]

Before(q, e, f) ==
  LET better == IF q.via = "market" /\ Score(e) # Score(f)
                  THEN Score(e) > Score(f) ELSE e.total < f.total
  IN \/ DecisionRank(e.action) < DecisionRank(f.action)
     \/ DecisionRank(e.action) = DecisionRank(f.action) /\ better

\* The capability that was chosen, or else whatever the selector matches.
Wanted(a) == IF job[a].offer = None THEN job[a].req.wanted ELSE {job[a].offer}

\* The offers that can come first when the candidates are sorted.
Selected(a, q) ==
  LET candidates == {Estimate(a, q, o) : o \in Wanted(a)}
  IN {e \in candidates : \A f \in candidates : ~Before(q, f, e)}
-------------------------------------------------------------------------------
(***************************************************************************)
(* Steps of a purchase.                                                    *)
(***************************************************************************)
Go(a, step) == job' = [job EXCEPT ![a].at = step]

\* The call returns, or raises, and the caller learns how it went.
Tell(a, told) ==
  /\ job' = [job EXCEPT ![a] = Idle]
  /\ outcome' = [outcome EXCEPT ![Current(a)] = told]

\* A task is done when it was paid for, and buys once more when it was not.
MayBuyAgain(a) ==
  tries[a] > 0 => outcome[Current(a)] \in {"skipped", "error", "failed", "expired"}

\* runtime.pay_for_task is refused while auto purchase is off; the flows over
\* connect_merchant are not.  request_paid_resource has met its first 402.
Begin(a) ==
  /\ job[a].at = "idle" /\ tries[a] < MaxTries[a] /\ MayBuyAgain(a)
  /\ \E q \in Requests[a] :
       /\ q.via # "client" /\ q.how = "buy" => autoPurchase
       /\ job' = [job EXCEPT ![a] =
            [at |-> "fetch", req |-> q, offer |-> None, action |-> "skip", amount |-> 0,
             deposit |-> 0, status |-> None, attempts |-> 0]]
       /\ seen' = IF q.via = "client" THEN seen
                  ELSE [seen EXCEPT ![a] = [o \in Offer |-> None]]
  /\ tries' = [tries EXCEPT ![a] = @ + 1]
  /\ UNCHANGED <<merchant, failures, plan, chain, payment, outcome>>

\* fetch_manifest asks once; afterwards the client answers from its cache.
\* What verifying its signatures yields is reported and decides nothing.
FetchManifest(a) ==
  /\ job[a].at \in {"fetch", "rebuy"}
  /\ \E s \in Seller :
       /\ \E o \in Wanted(a) : SellerOf[o] = s /\ seen[a][o] = None
       /\ seen' = [seen EXCEPT ![a] =
            [o \in Offer |-> IF SellerOf[o] = s THEN price[o] ELSE @[o]]]
  /\ UNCHANGED <<merchant, failures, job, tries, plan, chain, payment, outcome>>

\* The requirement in a 402 names the one capability to buy.
HasManifests(a) == \A o \in Wanted(a) : seen[a][o] # None

\* What the flows do with a decision.  prepare_purchase has no case for
\* "blocked"; buy_capability raises.
Decide(a, q, e) ==
  \/ /\ e.action = "skip"
     /\ Tell(a, IF q.how = "resource" THEN "error" ELSE "skipped")
  \/ /\ \/ e.action = "needs_approval" /\ ~q.allowed
        \/ e.action = "blocked" /\ q.how = "buy"
     /\ Tell(a, "error")
  \/ /\ \/ e.action = "buy_now"
        \/ e.action = "needs_approval" /\ q.allowed
        \/ e.action = "blocked" /\ q.how # "buy"
     /\ job' = [job EXCEPT ![a] =
          [@ EXCEPT !.at = "open", !.offer = e.offer, !.action = e.action,
                    !.amount = e.total, !.deposit = e.prepaid]]
     /\ UNCHANGED outcome

\* The market chooses with one set of manifests and then buys from a client
\* of its own, which fetches again and decides again.
Select(a) ==
  LET q == job[a].req IN
  /\ job[a].at = "fetch" /\ HasManifests(a)
  /\ \E e \in Selected(a, q) :
       IF q.via = "market"
         THEN /\ job' = [job EXCEPT ![a].at = "rebuy", ![a].offer = e.offer]
              /\ seen' = [seen EXCEPT ![a] = [o \in Offer |-> None]]
              /\ UNCHANGED outcome
         ELSE Decide(a, q, e) /\ UNCHANGED seen
  /\ UNCHANGED <<merchant, failures, tries, plan, chain, payment>>

BuyCapability(a) ==
  /\ job[a].at = "rebuy" /\ HasManifests(a)
  /\ \E e \in Selected(a, job[a].req) : Decide(a, job[a].req, e)
  /\ UNCHANGED <<merchant, failures, seen, tries, plan, chain, payment>>

\* The gateway's terms: a deposit that is missing or zero becomes the default.
Deposit(a) == IF job[a].deposit = 0 THEN DefaultDeposit ELSE job[a].deposit

OpenChannel(a) ==
  /\ job[a].at = "open"
  /\ job' = [job EXCEPT ![a].at = "approve", ![a].deposit = Deposit(a)]
  /\ plan' = [plan EXCEPT ![Current(a)] = [deposit |-> Deposit(a), req |-> job[a].req]]
  /\ UNCHANGED <<merchant, failures, seen, tries, chain, payment, outcome>>

Send(a, from, kind, to) ==
  /\ job[a].at = from
  /\ tx' = [tx EXCEPT ![Current(a)][kind] = "sent"]
  /\ Go(a, to)
  /\ UNCHANGED <<merchant, failures, seen, tries, plan, allowance, purse,
                 channels, payment, outcome>>

Approve(a) == Send(a, "approve", "approve", "approving")

InitializeChannel(a) == Send(a, "init", "init", "initializing")

\* waitForConfirmedTransaction returns on success only.
Confirmed(a, at, kind, to) ==
  /\ job[a].at = at
  /\ tx[Current(a)][kind] = "ok"
  /\ Go(a, to)
  /\ UNCHANGED <<merchant, failures, seen, tries, plan, chain, payment, outcome>>

InitConfirmedUnseen(a) ==
  \/ Confirmed(a, "initializing", "init", "session")
  \/ /\ job[a].at = "initializing"
     /\ tx[Current(a)]["init"] = "sent"
     /\ Go(a, "session")
     /\ UNCHANGED <<merchant, failures, seen, tries, plan, chain, payment, outcome>>

ApproveConfirmed(a) == Confirmed(a, "approving", "approve", "init")

InitConfirmed(a) == Confirmed(a, "initializing", "init", "session")

\* It raises when the transaction reverted, and when its attempts run out,
\* whatever becomes of the transaction later.
ConfirmationFails(a) ==
  /\ \E k \in TxKind :
       /\ job[a].at = (IF k = "approve" THEN "approving" ELSE "initializing")
       /\ \/ tx[Current(a)][k] = "reverted"
          \/ "slow" \in Faults /\ tx[Current(a)][k] = "sent"
  /\ Tell(a, "error")
  /\ UNCHANGED <<merchant, failures, seen, tries, plan, chain, payment>>

Fails ==
  /\ "http" \in Faults /\ failures < MaxFailures
  /\ failures' = failures + 1

CallFailsForgets(a) ==
  /\ Fails
  /\ job[a].at \in {"open", "execute", "finalize", "present"}
  /\ Tell(a, "error")
  /\ UNCHANGED <<merchant, seen, tries, plan, chain, payment>>

\* Any answer of a merchant may be an error or get lost.  Who prepared the
\* purchase knows its channel and recovers; the other flows raise.
CallFails(a) ==
  /\ Fails
  /\ \/ job[a].at \in {"open", "execute", "finalize", "present"}
     \/ job[a].at \in {"fetch", "rebuy"} /\ ~HasManifests(a)
  /\ IF job[a].req.how = "prepare" /\ payment[Current(a)] # None
       THEN Go(a, "lost") /\ UNCHANGED outcome
       ELSE Tell(a, "error")
  /\ UNCHANGED <<merchant, seen, tries, plan, chain, payment>>
-------------------------------------------------------------------------------
(***************************************************************************)
(* Payment: the intent, its execution, and who drives it on.               *)
(***************************************************************************)
\* The amount that was decided on, whatever the price is now.
IntentAmountNow(a) == price[job[a].offer] * Units(job[a].req, job[a].offer)

IntentAmount(a) == job[a].amount

NewPayment(a) ==
  [amount |-> IntentAmount(a), offer |-> job[a].offer, status |-> "authorized"]

CreatePaymentIntent(a) ==
  /\ job[a].at \in {"session", "create"}
  /\ payment' = [payment EXCEPT ![Current(a)] = NewPayment(a)]
  /\ job' = [job EXCEPT ![a].status = "authorized",
       ![a].at = IF job[a].req.execute \/ job[a].req.how = "resource"
                   THEN "execute" ELSE "status"]
  /\ UNCHANGED <<merchant, failures, seen, tries, plan, chain, outcome>>

\* The answer, or the request, is lost.  Who prepared the purchase still has
\* its session; the other flows raise and forget it.
CreateFails(a) ==
  /\ Fails /\ job[a].at \in {"session", "create"}
  /\ \/ UNCHANGED payment
     \/ payment' = [payment EXCEPT ![Current(a)] = NewPayment(a)]
  /\ IF job[a].req.how = "prepare" THEN Go(a, "lost") /\ UNCHANGED outcome
                                   ELSE Tell(a, "error")
  /\ UNCHANGED <<merchant, seen, tries, plan, chain>>

\* recover_payment by the session's channel: only without an intent the
\* purchase is submitted again.
RecoverPayment(a) ==
  /\ job[a].at = "lost"
  /\ IF payment[Current(a)] = None
       THEN Go(a, "create")
       ELSE job' = [job EXCEPT ![a].at = "status",
                               ![a].status = payment[Current(a)].status]
  /\ UNCHANGED <<merchant, failures, seen, tries, plan, chain, payment, outcome>>

\* What an execution, a confirmation or the clock makes of a record.
Executed(s) ==
  IF s \in {"authorized", "retryable"}
    THEN {"submitted"} \cup (IF "executor_error" \in Faults THEN {"retryable"} ELSE {})
    ELSE {s}

Reconciled(s) == IF s = "submitted" THEN {"submitted", "settled", "failed"} ELSE {s}

\* A call that names a payment answers with its record as it is afterwards.
Call(a, results) ==
  \E s \in results :
    /\ payment' = [payment EXCEPT ![Current(a)].status = s]
    /\ job' = [job EXCEPT ![a].status = s,
         ![a].at = IF job[a].at = "execute" THEN "status" ELSE @,
         ![a].attempts = IF job[a].at = "finalize" THEN @ - 1 ELSE 0]
    /\ UNCHANGED <<merchant, failures, seen, tries, plan, chain, outcome>>

ExecutePayment(a) ==
  /\ job[a].at = "execute"
  /\ Call(a, Executed(payment[Current(a)].status))

\* The flow is over for callers who asked for no more than this.
Return(a) ==
  /\ job[a].at = "status"
  /\ job[a].req.drive = "none" /\ job[a].req.how # "resource"
  /\ Tell(a, IF job[a].status \in Terminal THEN job[a].status ELSE "unfinished")
  /\ UNCHANGED <<merchant, failures, seen, tries, plan, chain, payment>>

\* The tools that payment_state_payload, recovery_payload and
\* ERROR_RECOVERY_ACTIONS name for a payment in a status.
Hints(s) ==
  CASE s = "authorized" -> {"execute_payment", "finalize_payment"}
    [] s = "submitted" -> {"reconcile_payment", "finalize_payment"}
    [] s = "retryable" -> {"recover_payment", "finalize_payment"}
    [] s = "failed" -> {"recover_payment"}
    [] s = "expired" -> {"recover_payment", "prepare_purchase"}
    [] OTHER -> {}

\* A host that follows the hints, one tool after the other.
StartHints(a) ==
  /\ job[a].at = "status" /\ job[a].req.drive = "hints"
  /\ job[a].req.how # "resource"
  /\ Go(a, "hints")
  /\ UNCHANGED <<merchant, failures, seen, tries, plan, chain, payment, outcome>>

HintedExecute(a) ==
  /\ job[a].at = "hints" /\ "execute_payment" \in Hints(job[a].status)
  /\ Call(a, Executed(payment[Current(a)].status))

HintedReconcile(a) ==
  /\ job[a].at = "hints" /\ "reconcile_payment" \in Hints(job[a].status)
  /\ Call(a, Reconciled(payment[Current(a)].status))

\* recover_payment only reads.
HintedRecover(a) ==
  /\ job[a].at = "hints" /\ "recover_payment" \in Hints(job[a].status)
  /\ Call(a, {payment[Current(a)].status})

\* The host stops where the hints end: paid, to be replaced by a new purchase,
\* or a failure that is not safe to retry.
HintsEnd(a) ==
  /\ job[a].at = "hints" /\ job[a].status \in {"settled", "failed", "expired"}
  /\ Tell(a, job[a].status)
  /\ UNCHANGED <<merchant, failures, seen, tries, plan, chain, payment>>

\* finalize_payment starts with the payment's status, and all its attempts.
BeginFinalize(a) ==
  /\ \/ /\ job[a].at = "status"
        /\ job[a].req.drive = "finalize" \/ job[a].req.how = "resource"
     \/ job[a].at = "hints" /\ "finalize_payment" \in Hints(job[a].status)
  /\ job' = [job EXCEPT ![a].at = "finalize", ![a].attempts = MaxAttempts,
                        ![a].status = payment[Current(a)].status]
  /\ UNCHANGED <<merchant, failures, seen, tries, plan, chain, payment, outcome>>

FinalizeExecutesOnce(a) ==
  /\ job[a].at = "finalize"
  /\ job[a].status = "authorized" \/ job[a].attempts = 0
  /\ Call(a, Executed(payment[Current(a)].status))

FinalizeExecutes(a) ==
  /\ job[a].at = "finalize" /\ job[a].attempts > 0
  /\ job[a].status = "authorized"
  /\ Call(a, Executed(payment[Current(a)].status))

FinalizeReconcilesOn(a) ==
  /\ job[a].at = "finalize" /\ job[a].status = "submitted"
  /\ \E s \in Reconciled(payment[Current(a)].status) :
       /\ payment' = [payment EXCEPT ![Current(a)].status = s]
       /\ job' = [job EXCEPT ![a].status = s,
                             ![a].attempts = IF @ > 1 THEN @ - 1 ELSE MaxAttempts]
  /\ UNCHANGED <<merchant, failures, seen, tries, plan, chain, outcome>>

FinalizeReconciles(a) ==
  /\ job[a].at = "finalize" /\ job[a].attempts > 0
  /\ job[a].status = "submitted"
  /\ Call(a, Reconciled(payment[Current(a)].status))

\* Every failure counts as an end here, the retryable ones too.
FinalizeReturns(a) ==
  /\ job[a].at = "finalize"
  /\ job[a].attempts = 0 \/ job[a].status \in Terminal
  /\ CASE job[a].req.drive = "hints" -> Go(a, "hints") /\ UNCHANGED outcome
       [] job[a].req.how = "resource" -> Go(a, "present") /\ UNCHANGED outcome
       [] OTHER -> Tell(a, IF job[a].status \in Terminal THEN job[a].status
                           ELSE "unfinished")
  /\ UNCHANGED <<merchant, failures, seen, tries, plan, chain, payment>>

\* request_paid_resource presents whatever finalize returned, and raises on
\* a second 402.
Present(a) ==
  /\ job[a].at = "present"
  /\ Tell(a, IF /\ payment[Current(a)].status = "settled"
                /\ payment[Current(a)].amount >= price[job[a].offer]
               THEN "served" ELSE "error")
  /\ UNCHANGED <<merchant, failures, seen, tries, plan, chain, payment>>
-------------------------------------------------------------------------------
(***************************************************************************)
(* The chain, the merchants, and the switch of the runtime.                *)
(***************************************************************************)
ApprovedMore(p) == plan[p].deposit + DefaultDeposit

Approved(p) == plan[p].deposit

\* A transaction is included.  approve replaces the allowance; initializeChannel
\* pulls the deposit, and reverts without allowance or funds.
Mine(p, k) ==
  /\ tx[p][k] = "sent"
  /\ LET d == plan[p].deposit
         works == k = "init" => allowance >= d /\ purse >= d
     IN \/ /\ works
           /\ tx' = [tx EXCEPT ![p][k] = "ok"]
           /\ IF k = "approve"
                THEN allowance' = Approved(p) /\ UNCHANGED <<purse, channels>>
                ELSE /\ allowance' = allowance - d
                     /\ purse' = purse - d
                     /\ channels' = channels \cup {p}
        \/ /\ ~works \/ "revert" \in Faults
           /\ tx' = [tx EXCEPT ![p][k] = "reverted"]
           /\ UNCHANGED <<allowance, purse, channels>>
  /\ UNCHANGED <<merchant, failures, seen, job, tries, plan, payment, outcome>>

\* The merchant's worker, and deadlines that pass.
MerchantMoves(p) ==
  /\ payment[p] # None
  /\ \E s \in Executed(payment[p].status) \cup Reconciled(payment[p].status)
             \cup (IF payment[p].status \in {"authorized", "retryable"}
                   THEN {"expired"} ELSE {}) :
       payment' = [payment EXCEPT ![p].status = s]
  /\ UNCHANGED <<merchant, failures, seen, job, tries, plan, chain, outcome>>

ChangePrice(o) ==
  /\ changes < MaxChanges
  /\ changes' = changes + 1
  /\ \E c \in Prices : price' = [price EXCEPT ![o] = c]
  /\ UNCHANGED <<failures, autoPurchase, seen, job, tries, plan, chain, payment, outcome>>

ToggleAutoPurchase ==
  /\ changes < MaxChanges
  /\ changes' = changes + 1
  /\ autoPurchase' = ~autoPurchase
  /\ UNCHANGED <<price, failures, seen, job, tries, plan, chain, payment, outcome>>
-------------------------------------------------------------------------------
AgentStep(a) ==
  \/ FetchManifest(a) \/ Select(a) \/ BuyCapability(a) \/ OpenChannel(a)
  \/ Approve(a) \/ ApproveConfirmed(a) \/ InitializeChannel(a)
  \/ InitConfirmed(a) \/ ConfirmationFails(a) \/ CallFails(a)
  \/ CreatePaymentIntent(a) \/ CreateFails(a) \/ RecoverPayment(a)
  \/ ExecutePayment(a) \/ Return(a) \/ StartHints(a) \/ HintedExecute(a)
  \/ HintedReconcile(a) \/ HintedRecover(a) \/ HintsEnd(a)
  \/ BeginFinalize(a) \/ FinalizeExecutes(a) \/ FinalizeReconciles(a)
  \/ FinalizeReturns(a) \/ Present(a)

Next ==
  \/ \E a \in Agent : Begin(a) \/ AgentStep(a)
  \/ \E p \in Purchase, k \in TxKind : Mine(p, k)
  \/ \E p \in Purchase : MerchantMoves(p)
  \/ \E o \in Offer : ChangePrice(o)
  \/ ToggleAutoPurchase

Spec == Init /\ [][Next]_vars

\* An agent's call goes on; the chain includes what is sent to it.
FairSpec ==
  /\ Spec
  /\ \A a \in Agent : WF_vars(AgentStep(a))
  /\ \A p \in Purchase, k \in TxKind : WF_vars(Mine(p, k))
-------------------------------------------------------------------------------
(***************************************************************************)
(* Properties.                                                             *)
(***************************************************************************)
\* A purchase that goes on with a session has an open channel with the
\* deposit it asked for, whoever else uses the wallet and its allowance
\* (open_channel_exec.js waits for both transactions).
SessionIsFunded ==
  \A a \in Agent :
    job[a].at \in {"session", "create", "lost", "execute", "status", "finalize",
                  "hints", "present"} =>
      /\ Current(a) \in channels
      /\ plan[Current(a)].deposit = job[a].deposit

\* The contract may take no more from the wallet than the deposit of one
\* opening that was approved and is not done: openings that race replace
\* each other's allowance, they never add up (open_channel_exec.js:21-28).
AllowanceIsPending ==
  allowance > 0 =>
    \E p \in Purchase :
      /\ tx[p]["approve"] = "ok" /\ tx[p]["init"] # "ok"
      /\ allowance <= plan[p].deposit

\* The merchants a client's policy blocks and its prepare_purchase and
\* request_paid_resource go on with, whatever the estimate.
Passed(q, s) == q.via = "client" /\ q.how # "buy" /\ s \in Policy.blocked

\* What nobody approved is within the budget of its request and, for a client
\* with a policy, within the policy, although prices change between the
\* manifest, the market's choice and the intent.
WithinLimits(q, o, amount) ==
  LET s == SellerOf[o] IN
  ~q.allowed /\ ~Passed(q, s) =>
    /\ q.budget # None => amount <= q.budget
    /\ o \notin NeedsHuman
    /\ q.via = "client" => s \notin Policy.blocked /\ ~NeedsApproval(s, amount)

UnapprovedWithinLimits ==
  \A p \in Purchase :
    payment[p] # None => WithinLimits(plan[p].req, payment[p].offer, payment[p].amount)

\* Who prepares a purchase and recovers by its channel after an error
\* (spec/AGENT_INTEGRATION_GUIDE.md:120-129) is told how its payment stands:
\* no payment of such a purchase is given up with an error, whatever is lost.
PreparedPaymentKnown ==
  \A p \in Purchase :
    payment[p] # None /\ plan[p].req.how = "prepare"
      => outcome[p] \in {None, "unfinished"} \cup Terminal

\* Every call of an agent comes back, whatever fails: waits for transactions
\* and finalize_payment are bounded (client.py:622-652).
PurchaseEnds ==
  \A a \in Agent : (job[a].at \notin {"idle", "hints"}) ~> (job[a].at \in {"idle", "hints"})
===============================================================================
