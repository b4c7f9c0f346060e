-------------------------- MODULE BuyerPurchasesProofs --------------------------
(***************************************************************************)
(* Proofs about BuyerPurchases, for any agents, merchants, offers, prices, *)
(* requests and policy, whatever fails and in whatever order transactions  *)
(* are included.                                                           *)
(***************************************************************************)
EXTENDS BuyerPurchases, TLAPS

-----------------------------------------------------------------------------
(* The choice of an offer.                                                 *)

\* An estimate is of a known offer, and its sums are numbers.
LEMMA EstimateTypes ==
  ASSUME TypeOK, NEW a \in Agent, job[a].at # "idle", HasManifests(a),
         NEW q \in Request, NEW e \in Selected(a, q)
  PROVE  /\ e.offer \in Offer /\ e.total \in Nat /\ e.prepaid \in Nat /\ e.action \in Action
         /\ LET asked == BudgetAction(q, e.offer, e.total)
            IN  e.action = IF q.via = "client"
                             THEN EvaluateBudgetPolicy(SellerOf[e.offer], e.total, asked)
                             ELSE asked
<1>1. PICK o \in Wanted(a) : e = Estimate(a, q, o)
  BY DEF Selected
<1>2. o \in Offer
  <2>1. job[a] \in Job
    BY DEF TypeOK, Idle
  <2>2. job[a].req.wanted \subseteq Offer /\ job[a].offer \in Offer \cup {None}
    BY <2>1, PurchaseAssumption DEF Job, Asked, Request
  <2> QED
    BY <1>1, <2>2 DEF Wanted
<1>3. seen[a][o] \in Nat
  <2>1. seen[a][o] # None
    BY <1>1 DEF HasManifests
  <2>2. seen[a][o] \in Prices \cup {None}
    BY <1>2 DEF TypeOK
  <2> QED
    BY <2>1, <2>2, PurchaseAssumption
<1>4. Units(q, o) \in Nat
  BY <1>2, PurchaseAssumption DEF Units, Request
<1> DEFINE total == seen[a][o] * Units(q, o)
<1>5. total \in Nat
  BY <1>3, <1>4
<1>6. BudgetAction(q, o, total) \in Action
  BY DEF BudgetAction, Action
<1>7. \A action \in Action : EvaluateBudgetPolicy(SellerOf[o], total, action) \in Action
  BY DEF EvaluateBudgetPolicy, Action
<1>8. Suggested[o] \in Nat \cup {None}
  BY <1>2, PurchaseAssumption
<1>9. /\ e.offer = o /\ e.total = total
      /\ e.prepaid = IF Suggested[o] = None THEN total ELSE Suggested[o]
      /\ e.action = IF q.via = "client"
                      THEN EvaluateBudgetPolicy(SellerOf[o], total, BudgetAction(q, o, total))
                      ELSE BudgetAction(q, o, total)
  BY <1>1 DEF Estimate
<1> HIDE DEF total
<1> QED
  BY <1>2, <1>5, <1>6, <1>7, <1>8, <1>9

\* What a flow goes on with is within the limits, unless it was approved or the
\* flow passes over a blocked merchant.
LEMMA DecisionWithinLimits ==
  ASSUME NEW q \in Request, NEW o \in Offer, NEW total \in Nat, NEW action,
         action = IF q.via = "client"
                    THEN EvaluateBudgetPolicy(SellerOf[o], total, BudgetAction(q, o, total))
                    ELSE BudgetAction(q, o, total),
         \/ action = "buy_now"
         \/ action = "needs_approval" /\ q.allowed
         \/ action = "blocked" /\ q.how # "buy"
  PROVE  WithinLimits(q, o, total)
<1> SUFFICES ASSUME ~q.allowed, ~Passed(q, SellerOf[o])
             PROVE  /\ q.budget # None => total <= q.budget
                    /\ o \notin NeedsHuman
                    /\ q.via = "client" =>
                         SellerOf[o] \notin Policy.blocked /\ ~NeedsApproval(SellerOf[o], total)
  BY DEF WithinLimits
<1>1. BudgetAction(q, o, total) \in {"needs_approval", "skip", "buy_now"}
  BY DEF BudgetAction
<1>2. action = "buy_now"
  <2>1. CASE action = "blocked" /\ q.how # "buy"
    <3>1. q.via = "client" /\ SellerOf[o] \in Policy.blocked
      BY <1>1, <2>1 DEF EvaluateBudgetPolicy
    <3> QED
      BY <2>1, <3>1 DEF Passed
  <2> QED
    BY <2>1
<1>3. BudgetAction(q, o, total) = "buy_now"
  BY <1>1, <1>2 DEF EvaluateBudgetPolicy
<1>4. ~(q.budget # None /\ total > q.budget) /\ o \notin NeedsHuman
  BY <1>3 DEF BudgetAction
<1>5. q.budget \in Nat \cup {None}
  BY DEF Request
<1>6. q.via = "client" =>
        SellerOf[o] \notin Policy.blocked /\ ~NeedsApproval(SellerOf[o], total)
  BY <1>2, <1>3 DEF EvaluateBudgetPolicy
<1> QED
  BY <1>4, <1>5, <1>6

-----------------------------------------------------------------------------
(* The inductive invariant.                                                *)

Choosing == {"fetch", "rebuy", "decide"}
Unsent == Choosing \cup {"open", "approve"}
Unpaid == Unsent \cup {"approving", "init", "initializing"}
Paying == {"execute", "status", "finalize", "hints", "present"}
Session == {"session", "create", "lost"} \cup Paying

\* What a call of an agent may rely on at its step: transactions that are not
\* sent, a channel that is open, terms that were decided on.
JobHolds(a) ==
  job[a].at # "idle" =>
    /\ tries[a] > 0
    /\ outcome[Current(a)] = None
    /\ job[a].at \in Unpaid => payment[Current(a)] = None
    /\ job[a].at \in Paying => payment[Current(a)] \in Payment
    /\ job[a].at \in Unsent => tx[Current(a)]["approve"] = "none"
    /\ job[a].at \in {"approving", "init"} => tx[Current(a)]["init"] = "none"
    /\ job[a].at = "init" => tx[Current(a)]["approve"] = "ok"
    /\ job[a].at \in Session => Current(a) \in channels
    /\ job[a].at \notin Choosing =>
         /\ job[a].offer \in Offer
         /\ WithinLimits(job[a].req, job[a].offer, job[a].amount)
    /\ job[a].at \notin Choosing \cup {"open"} =>
         plan[Current(a)].deposit = job[a].deposit /\ plan[Current(a)].req = job[a].req
    /\ job[a].at = "present" => job[a].req.how = "resource"

Known == {None, "unfinished"} \cup Terminal

\* What is true of a purchase, whoever works on it.
PurchaseHolds(p) ==
  /\ tx[p]["init"] # "none" => tx[p]["approve"] = "ok"
  /\ tx[p]["init"] = "ok" => p \in channels
  /\ payment[p] # None =>
       /\ WithinLimits(plan[p].req, payment[p].offer, payment[p].amount)
       /\ plan[p].req.how = "prepare" => outcome[p] \in Known

\* Purchases that have not begun have left nothing.
FutureHolds ==
  \A p \in Purchase : p[2] > tries[p[1]] =>
    tx[p]["approve"] = "none" /\ payment[p] = None /\ outcome[p] = None

IInv ==
  /\ TypeOK
  /\ \A a \in Agent : JobHolds(a)
  /\ \A p \in Purchase : PurchaseHolds(p)
  /\ FutureHolds
  /\ AllowanceIsPending

-----------------------------------------------------------------------------
(* What every step of one agent leaves alone.                              *)

LEMMA PurchaseForm ==
  ASSUME NEW p \in Purchase
  PROVE  p[1] \in Agent /\ p[2] \in Nat \ {0} /\ p = <<p[1], p[2]>> /\ p[2] <= MaxTries[p[1]]
<1>1. PICK a \in Agent : p \in {a} \X (1 .. MaxTries[a])
  BY DEF Purchase
<1>2. MaxTries[a] \in Nat
  BY PurchaseAssumption
<1> QED
  BY <1>1, <1>2

LEMMA CurrentForm ==
  ASSUME TypeOK, NEW a \in Agent, tries[a] > 0
  PROVE  /\ Current(a) \in Purchase /\ Current(a)[1] = a /\ Current(a)[2] = tries[a]
         /\ \A b \in Agent : b # a => Current(b) # Current(a)
<1>1. tries[a] \in 1 .. MaxTries[a]
  BY PurchaseAssumption DEF TypeOK
<1>2. Current(a) \in {a} \X (1 .. MaxTries[a])
  BY <1>1 DEF Current
<1> QED
  BY <1>2 DEF Current, Purchase

\* The variables about which IInv says only their types.
OthersOK ==
  /\ price \in [Offer -> Prices] /\ changes \in 0 .. MaxChanges
  /\ failures \in 0 .. MaxFailures
  /\ autoPurchase \in BOOLEAN
  /\ seen \in [Agent -> [Offer -> Prices \cup {None}]]
  /\ purse \in 0 .. Funds

\* A step of a's call, on a's current purchase.
OnlyOf(a) ==
  /\ \A b \in Agent : b # a => job'[b] = job[b]
  /\ tries' = tries /\ channels' = channels /\ allowance' = allowance
  /\ \A p \in Purchase : p # Current(a) =>
       /\ tx'[p] = tx[p] /\ plan'[p] = plan[p]
       /\ payment'[p] = payment[p] /\ outcome'[p] = outcome[p]
  /\ tx[Current(a)]["approve"] = "ok" /\ tx[Current(a)]["init"] # "ok" =>
       /\ tx'[Current(a)]["approve"] = "ok" /\ tx'[Current(a)]["init"] # "ok"
       /\ plan'[Current(a)] = plan[Current(a)]

LEMMA AgentKeeps ==
  ASSUME IInv, NEW a \in Agent, job[a].at # "idle",
         OnlyOf(a), TypeOK', JobHolds(a)', PurchaseHolds(Current(a))'
  PROVE  IInv'
<1>1. tries[a] > 0 /\ TypeOK
  BY DEF IInv, JobHolds
<1>2. /\ Current(a) \in Purchase /\ Current(a)[1] = a /\ Current(a)[2] = tries[a]
      /\ \A b \in Agent : b # a => Current(b) # Current(a)
  BY <1>1, CurrentForm
<1>3. \A b \in Agent : Current(b)' = Current(b)
  BY DEF OnlyOf, Current
<1>4. ASSUME NEW b \in Agent PROVE JobHolds(b)'
  <2>1. CASE b = a
    BY <2>1
  <2>2. CASE b # a
    <3>1. CASE job[b].at = "idle"
      BY <2>2, <3>1 DEF OnlyOf, JobHolds
    <3>2. CASE job[b].at # "idle"
      <4>1. tries[b] > 0 /\ JobHolds(b)
        BY <3>2 DEF IInv, JobHolds
      <4>2. Current(b) \in Purchase /\ Current(b) # Current(a)
        BY <1>1, <1>2, <2>2, <4>1, CurrentForm
      <4>3. /\ job'[b] = job[b] /\ tries' = tries /\ channels' = channels
            /\ tx'[Current(b)] = tx[Current(b)] /\ plan'[Current(b)] = plan[Current(b)]
            /\ payment'[Current(b)] = payment[Current(b)]
            /\ outcome'[Current(b)] = outcome[Current(b)]
        BY <2>2, <4>2 DEF OnlyOf
      <4> QED
        BY <1>3, <4>1, <4>3 DEF JobHolds
    <3> QED
      BY <3>1, <3>2
  <2> QED
    BY <2>1, <2>2
<1>5. ASSUME NEW p \in Purchase PROVE PurchaseHolds(p)'
  <2>1. CASE p = Current(a)
    BY <1>3, <2>1
  <2>2. CASE p # Current(a)
    <3>1. PurchaseHolds(p)
      BY DEF IInv
    <3> QED
      BY <2>2, <3>1 DEF OnlyOf, PurchaseHolds
  <2> QED
    BY <2>1, <2>2
<1>6. FutureHolds'
  <2> SUFFICES ASSUME NEW p \in Purchase, p[2] > tries[p[1]]
               PROVE  tx'[p]["approve"] = "none" /\ payment'[p] = None /\ outcome'[p] = None
    BY DEF FutureHolds, OnlyOf
  <2>1. p # Current(a)
    BY <1>1, <1>2 DEF TypeOK
  <2> QED
    BY <2>1 DEF IInv, FutureHolds, OnlyOf
<1>7. AllowanceIsPending'
  <2> SUFFICES ASSUME allowance > 0
               PROVE  \E p \in Purchase :
                        /\ tx'[p]["approve"] = "ok" /\ tx'[p]["init"] # "ok"
                        /\ allowance <= plan'[p].deposit
    BY DEF AllowanceIsPending, OnlyOf
  <2>1. PICK p \in Purchase : /\ tx[p]["approve"] = "ok" /\ tx[p]["init"] # "ok"
                              /\ allowance <= plan[p].deposit
    BY DEF IInv, AllowanceIsPending
  <2>2. CASE p = Current(a)
    BY <2>1, <2>2 DEF OnlyOf
  <2>3. CASE p # Current(a)
    BY <2>1, <2>3 DEF OnlyOf
  <2> QED
    BY <2>2, <2>3
<1> QED
  BY <1>4, <1>5, <1>6, <1>7 DEF IInv

\* A call comes back.
LEMMA TellKeeps ==
  ASSUME IInv, NEW a \in Agent, job[a].at # "idle",
         NEW told \in Outcome, Tell(a, told), OthersOK',
         UNCHANGED <<tries, plan, chain, payment>>,
         payment[Current(a)] # None /\ plan[Current(a)].req.how = "prepare" => told \in Known
  PROVE  IInv'
<1>1. TypeOK /\ tries[a] > 0 /\ PurchaseHolds(Current(a))
  BY CurrentForm DEF IInv, JobHolds
<1>2. Current(a) \in Purchase
  BY <1>1, CurrentForm
<1>3. /\ job' \in [Agent -> Job \cup {Idle}] /\ job'[a] = Idle
      /\ \A b \in Agent : b # a => job'[b] = job[b]
  BY <1>1 DEF Tell, TypeOK
<1>4. /\ outcome' \in [Purchase -> Outcome] /\ outcome'[Current(a)] = told
      /\ \A p \in Purchase : p # Current(a) => outcome'[p] = outcome[p]
  BY <1>1, <1>2 DEF Tell, TypeOK
<1>5. TypeOK'
  BY <1>1, <1>3, <1>4 DEF TypeOK, OthersOK, chain
<1>6. OnlyOf(a)
  BY <1>3, <1>4 DEF OnlyOf, chain
<1>7. JobHolds(a)'
  BY <1>3 DEF JobHolds, Idle
<1>8. PurchaseHolds(Current(a))'
  BY <1>1, <1>4 DEF PurchaseHolds, Current, chain
<1> QED
  BY <1>5, <1>6, <1>7, <1>8, AgentKeeps

\* A call goes on, and nothing but its job changes.
LEMMA GoKeeps ==
  ASSUME IInv, NEW a \in Agent, job[a].at # "idle",
         NEW j \in Job, job' = [job EXCEPT ![a] = j], OthersOK',
         UNCHANGED <<tries, plan, chain, payment, outcome>>,
         JobHolds(a)'
  PROVE  IInv'
<1>1. TypeOK /\ tries[a] > 0 /\ PurchaseHolds(Current(a))
  BY CurrentForm DEF IInv, JobHolds
<1>2. /\ job' \in [Agent -> Job \cup {Idle}]
      /\ \A b \in Agent : b # a => job'[b] = job[b]
  BY <1>1 DEF TypeOK
<1>3. TypeOK'
  BY <1>1, <1>2 DEF TypeOK, OthersOK, chain
<1>4. OnlyOf(a)
  BY <1>2 DEF OnlyOf, chain
<1>5. PurchaseHolds(Current(a))'
  BY <1>1 DEF PurchaseHolds, Current, chain
<1> QED
  BY <1>3, <1>4, <1>5, AgentKeeps

-----------------------------------------------------------------------------
(* The steps of an agent's call.                                           *)

LEMMA JobFields ==
  ASSUME TypeOK, NEW a \in Agent, job[a].at # "idle"
  PROVE  /\ job[a] \in Job /\ job[a].req \in Request
         /\ job[a].deposit \in Nat /\ job[a].amount \in Nat
         /\ job[a].attempts \in 0 .. MaxAttempts
<1>1. job[a] \in Job
  BY DEF TypeOK, Idle
<1> QED
  BY <1>1, PurchaseAssumption DEF Job, Asked

LEMMA GoForm ==
  ASSUME TypeOK, NEW a \in Agent, job[a].at # "idle", NEW step \in Step, Go(a, step)
  PROVE  \E j \in Job :
           /\ job' = [job EXCEPT ![a] = j]
           /\ j = [job[a] EXCEPT !.at = step]
<1> DEFINE j == [job[a] EXCEPT !.at = step]
<1>1. job' = [job EXCEPT ![a] = j]
  BY DEF Go
<1>2. j \in Job
  BY JobFields DEF Job
<1> QED
  BY <1>1, <1>2

LEMMA CallForm ==
  ASSUME TypeOK, NEW a \in Agent, job[a].at \in {"execute", "finalize", "hints"},
         job[a].at = "finalize" => job[a].attempts > 0,
         payment[Current(a)] \in Payment, Current(a) \in Purchase,
         NEW results \in SUBSET Status, Call(a, results)
  PROVE  \E s \in results, j \in Job, r \in Payment :
           /\ job' = [job EXCEPT ![a] = j]
           /\ j.req = job[a].req /\ j.offer = job[a].offer
           /\ j.amount = job[a].amount /\ j.deposit = job[a].deposit
           /\ j.status = s
           /\ j.at \in {"status", "finalize", "hints"}
           /\ payment' = [payment EXCEPT ![Current(a)] = r]
           /\ r.offer = payment[Current(a)].offer /\ r.amount = payment[Current(a)].amount
<1>1. PICK s \in results :
        /\ payment' = [payment EXCEPT ![Current(a)].status = s]
        /\ job' = [job EXCEPT ![a].status = s,
             ![a].at = IF job[a].at = "execute" THEN "status" ELSE @,
             ![a].attempts = IF job[a].at = "finalize" THEN @ - 1 ELSE 0]
  BY DEF Call
<1> DEFINE at == IF job[a].at = "execute" THEN "status" ELSE job[a].at
           attempts == IF job[a].at = "finalize" THEN job[a].attempts - 1 ELSE 0
           j == [job[a] EXCEPT !.status = s, !.at = at, !.attempts = attempts]
           r == [payment[Current(a)] EXCEPT !.status = s]
<1>2. job[a] \in Job /\ job[a].attempts \in 0 .. MaxAttempts
  BY JobFields
<1>3. j \in Job
  <2>1. at \in Step /\ attempts \in 0 .. MaxAttempts
    BY <1>2, PurchaseAssumption DEF Step
  <2>2. s \in Status \cup {None}
    OBVIOUS
  <2> HIDE DEF at, attempts
  <2> QED
    BY <1>2, <2>1, <2>2 DEF Job
<1>4. r \in Payment
  BY DEF Payment
<1>5. job' = [job EXCEPT ![a] = j]
  BY <1>1, <1>2 DEF Job, TypeOK
<1>6. payment' = [payment EXCEPT ![Current(a)] = r]
  BY <1>1
<1>7. /\ j.req = job[a].req /\ j.offer = job[a].offer
      /\ j.amount = job[a].amount /\ j.deposit = job[a].deposit
      /\ j.status = s
      /\ j.at \in {"status", "finalize", "hints"}
      /\ r.offer = payment[Current(a)].offer /\ r.amount = payment[Current(a)].amount
  BY <1>2 DEF Job, Payment
<1> QED
  BY <1>3, <1>4, <1>5, <1>6, <1>7

\* A call that has a session goes on with it, on the terms that were decided.
LEMMA SessionKeeps ==
  ASSUME IInv, NEW a \in Agent, job[a].at \notin Choosing \cup {"idle", "open"},
         Current(a) \in channels,
         NEW j \in Job, job' = [job EXCEPT ![a] = j], j.at \in Session,
         j.req = job[a].req, j.offer = job[a].offer,
         j.amount = job[a].amount, j.deposit = job[a].deposit,
         j.at = "present" => j.req.how = "resource",
         NEW r \in Payment \cup {None}, payment' = [payment EXCEPT ![Current(a)] = r],
         j.at \in Paying => r \in Payment,
         r # None => WithinLimits(job[a].req, r.offer, r.amount),
         OthersOK', UNCHANGED <<tries, plan, chain, outcome>>
  PROVE  IInv'
<1>1. TypeOK /\ tries[a] > 0 /\ JobHolds(a) /\ Current(a) \in Purchase
  BY CurrentForm DEF IInv, JobHolds
<1>2. PurchaseHolds(Current(a)) /\ outcome[Current(a)] = None
  BY <1>1 DEF IInv, JobHolds
<1>3. /\ job' \in [Agent -> Job \cup {Idle}] /\ job'[a] = j
      /\ \A b \in Agent : b # a => job'[b] = job[b]
  BY <1>1 DEF TypeOK
<1>4. /\ payment' \in [Purchase -> Payment \cup {None}] /\ payment'[Current(a)] = r
      /\ \A p \in Purchase : p # Current(a) => payment'[p] = payment[p]
  BY <1>1 DEF TypeOK
<1>5. TypeOK'
  BY <1>1, <1>3, <1>4 DEF TypeOK, OthersOK, chain
<1>6. OnlyOf(a)
  BY <1>3, <1>4 DEF OnlyOf, chain
<1>7. Current(a)' = Current(a)
  BY DEF Current
<1>8. JobHolds(a)'
  <2>1. j.at \notin Unpaid /\ j.at # "idle"
    BY DEF Session, Paying, Unpaid, Unsent, Choosing
  <2>2. j.offer \in Offer /\ WithinLimits(j.req, j.offer, j.amount)
    BY <1>1 DEF JobHolds
  <2>3. plan[Current(a)].deposit = j.deposit /\ plan[Current(a)].req = j.req
    BY <1>1 DEF JobHolds
  <2> QED
    BY <1>1, <1>2, <1>3, <1>4, <1>7, <2>1, <2>2, <2>3
       DEF JobHolds, chain, Unpaid, Unsent
<1>9. PurchaseHolds(Current(a))'
  <2>1. plan[Current(a)].req = job[a].req
    BY <1>1 DEF JobHolds
  <2> QED
    BY <1>2, <1>4, <1>7, <2>1 DEF PurchaseHolds, chain, Known
<1> QED
  BY <1>5, <1>6, <1>8, <1>9, AgentKeeps

\* The same, where the payment stays as it is.
LEMMA SessionGoes ==
  ASSUME IInv, NEW a \in Agent, job[a].at \notin Choosing \cup {"idle", "open"},
         Current(a) \in channels,
         NEW step \in Session, Go(a, step),
         step = "present" => job[a].req.how = "resource",
         step \in Paying => payment[Current(a)] \in Payment,
         OthersOK', UNCHANGED <<tries, plan, chain, payment, outcome>>
  PROVE  IInv'
<1>1. TypeOK /\ JobHolds(a) /\ Current(a) \in Purchase
  BY CurrentForm DEF IInv, JobHolds
<1>2. step \in Step
  BY DEF Session, Paying, Step
<1>3. PICK j \in Job : job' = [job EXCEPT ![a] = j] /\ j = [job[a] EXCEPT !.at = step]
  BY <1>1, <1>2, GoForm
<1>4. /\ j.at = step /\ j.req = job[a].req /\ j.offer = job[a].offer
      /\ j.amount = job[a].amount /\ j.deposit = job[a].deposit
  BY <1>1, <1>3, JobFields DEF Job
<1> DEFINE r == payment[Current(a)]
<1>5. r \in Payment \cup {None} /\ payment' = [payment EXCEPT ![Current(a)] = r]
  BY <1>1 DEF TypeOK
<1>6. r # None => WithinLimits(job[a].req, r.offer, r.amount)
  BY <1>1 DEF IInv, JobHolds, PurchaseHolds
<1> HIDE DEF r, IInv
<1>7. step \in Paying => r \in Payment
  BY DEF r
<1> QED
  BY <1>3, <1>4, <1>5, <1>6, <1>7, SessionKeeps

LEMMA OthersStay ==
  ASSUME IInv, UNCHANGED <<merchant, failures, seen, purse>>
  PROVE  OthersOK'
BY DEF IInv, TypeOK, OthersOK, merchant

LEMMA OthersFail ==
  ASSUME IInv, Fails, UNCHANGED <<merchant, seen, purse>>
  PROVE  OthersOK'
<1>1. failures' \in 0 .. MaxFailures
  BY PurchaseAssumption DEF IInv, TypeOK, Fails
<1> QED
  BY <1>1 DEF IInv, TypeOK, OthersOK, merchant

\* Steps that answer with the payment's record as it is afterwards.
LEMMA CallKeeps ==
  ASSUME IInv, NEW a \in Agent, job[a].at \in {"execute", "finalize", "hints"},
         job[a].at = "finalize" => job[a].attempts > 0,
         NEW results \in SUBSET Status, Call(a, results)
  PROVE  IInv'
<1>1. /\ TypeOK /\ JobHolds(a) /\ job[a].at # "idle" /\ job[a].at \in Paying
      /\ job[a].at \notin Choosing \cup {"idle", "open"}
  BY DEF IInv, Paying, Choosing
<1>2. /\ Current(a) \in Purchase /\ Current(a) \in channels
      /\ payment[Current(a)] \in Payment
  BY <1>1, CurrentForm DEF JobHolds, Session
<1>3. PICK s \in results, j \in Job, r \in Payment :
           /\ job' = [job EXCEPT ![a] = j]
           /\ j.req = job[a].req /\ j.offer = job[a].offer
           /\ j.amount = job[a].amount /\ j.deposit = job[a].deposit
           /\ j.status = s
           /\ j.at \in {"status", "finalize", "hints"}
           /\ payment' = [payment EXCEPT ![Current(a)] = r]
           /\ r.offer = payment[Current(a)].offer /\ r.amount = payment[Current(a)].amount
  BY <1>1, <1>2, CallForm
<1>4. /\ UNCHANGED <<merchant, failures, seen, tries, plan, chain, outcome>>
      /\ UNCHANGED purse
  BY DEF Call, chain
<1>5. OthersOK'
  BY <1>4, OthersStay
<1>6. j.at \in Session /\ j.at # "present"
  BY <1>3 DEF Session, Paying
<1>7. payment[Current(a)] # None => WithinLimits(job[a].req, r.offer, r.amount)
  BY <1>1, <1>2, <1>3 DEF IInv, JobHolds, PurchaseHolds, Choosing
<1>8. payment[Current(a)] # None
  BY <1>2, PurchaseAssumption
<1> QED
  BY <1>1, <1>2, <1>3, <1>4, <1>5, <1>6, <1>7, <1>8, SessionKeeps

LEMMA StatusMoves ==
  ASSUME NEW s \in Status
  PROVE  Executed(s) \in SUBSET Status /\ Reconciled(s) \in SUBSET Status
BY DEF Executed, Reconciled, Status

\* What a call finds at its step.
LEMMA CallContext ==
  ASSUME IInv, NEW a \in Agent, job[a].at # "idle"
  PROVE  /\ TypeOK /\ JobHolds(a) /\ PurchaseHolds(Current(a))
         /\ tries[a] > 0 /\ Current(a) \in Purchase /\ outcome[Current(a)] = None
         /\ job[a] \in Job /\ job[a].req \in Request
         /\ job[a].at \in Unpaid => payment[Current(a)] = None
         /\ job[a].at \in Session => Current(a) \in channels
         /\ job[a].at \in Paying => payment[Current(a)] \in Payment
         /\ job[a].at \notin Choosing \cup {"open"} => plan[Current(a)].req = job[a].req
<1>1. TypeOK /\ JobHolds(a) /\ tries[a] > 0 /\ outcome[Current(a)] = None
  BY DEF IInv, JobHolds
<1>2. Current(a) \in Purchase
  BY <1>1, CurrentForm
<1> QED
  BY <1>1, <1>2, JobFields DEF IInv, JobHolds

LEMMA FetchKeeps ==
  ASSUME IInv, NEW a \in Agent, FetchManifest(a)
  PROVE  IInv'
<1>1. job[a].at # "idle" /\ TypeOK
  BY DEF FetchManifest, IInv
<1>2. PICK s \in Seller :
        seen' = [seen EXCEPT ![a] = [o \in Offer |-> IF SellerOf[o] = s THEN price[o] ELSE @[o]]]
  BY DEF FetchManifest
<1>3. [o \in Offer |-> IF SellerOf[o] = s THEN price[o] ELSE seen[a][o]]
        \in [Offer -> Prices \cup {None}]
  BY <1>1 DEF TypeOK
<1>4. seen' \in [Agent -> [Offer -> Prices \cup {None}]]
  BY <1>1, <1>2, <1>3 DEF TypeOK
<1>5. OthersOK'
  BY <1>1, <1>4 DEF OthersOK, TypeOK, FetchManifest, merchant, chain
<1>6. job' = [job EXCEPT ![a] = job[a]] /\ job[a] \in Job
  BY <1>1, JobFields DEF FetchManifest, TypeOK
<1>7. UNCHANGED <<tries, plan, chain, payment, outcome, job>>
  BY DEF FetchManifest
<1>8. JobHolds(a)'
  BY <1>7 DEF IInv, JobHolds, Current, chain
<1> QED
  BY <1>1, <1>5, <1>6, <1>7, <1>8, GoKeeps

LEMMA DecideKeeps ==
  ASSUME IInv, NEW a \in Agent, job[a].at \in {"fetch", "rebuy"}, HasManifests(a),
         NEW e \in Selected(a, job[a].req), Decide(a, job[a].req, e),
         OthersOK', UNCHANGED <<tries, plan, chain, payment>>
  PROVE  IInv'
<1> DEFINE q == job[a].req
<1>1. /\ TypeOK /\ JobHolds(a) /\ job[a] \in Job /\ q \in Request
      /\ payment[Current(a)] = None /\ job[a].at # "idle"
  BY CallContext DEF Unpaid, Unsent, Choosing
<1>2. /\ e.offer \in Offer /\ e.total \in Nat /\ e.prepaid \in Nat /\ e.action \in Action
      /\ e.action = IF q.via = "client"
                      THEN EvaluateBudgetPolicy(SellerOf[e.offer], e.total,
                                                BudgetAction(q, e.offer, e.total))
                      ELSE BudgetAction(q, e.offer, e.total)
  BY <1>1, EstimateTypes
<1>3. CASE \E told \in {"error", "skipped"} : Tell(a, told)
  <2>1. PICK told \in {"error", "skipped"} : Tell(a, told)
    BY <1>3
  <2>2. told \in Outcome
    BY DEF Outcome
  <2> QED
    BY <1>1, <2>1, <2>2, TellKeeps
<1>4. CASE /\ \/ e.action = "buy_now"
              \/ e.action = "needs_approval" /\ q.allowed
              \/ e.action = "blocked" /\ q.how # "buy"
           /\ job' = [job EXCEPT ![a] =
                [@ EXCEPT !.at = "open", !.offer = e.offer, !.action = e.action,
                          !.amount = e.total, !.deposit = e.prepaid]]
           /\ UNCHANGED outcome
  <2> DEFINE j == [job[a] EXCEPT !.at = "open", !.offer = e.offer, !.action = e.action,
                                 !.amount = e.total, !.deposit = e.prepaid]
  <2>1. j \in Job
    BY <1>1, <1>2 DEF Job, Step
  <2>2. job' = [job EXCEPT ![a] = j]
    BY <1>4
  <2>3. j.at = "open" /\ j.offer = e.offer /\ j.amount = e.total /\ j.req = q
    BY <1>1 DEF Job
  <2> HIDE DEF j
  <2>4. WithinLimits(q, e.offer, e.total)
    BY <1>1, <1>2, <1>4, DecisionWithinLimits
  <2>5. job'[a] = j /\ Current(a)' = Current(a)
    BY <1>1, <2>2 DEF TypeOK, Current
  <2>6. JobHolds(a)'
    BY <1>1, <1>2, <1>4, <2>3, <2>4, <2>5
       DEF JobHolds, chain, Unpaid, Unsent, Choosing, Session, Paying
  <2> QED
    BY <1>1, <1>4, <2>1, <2>2, <2>6, GoKeeps
<1> QED
  BY <1>3, <1>4 DEF Decide

LEMMA SelectKeeps ==
  ASSUME IInv, NEW a \in Agent, Select(a) \/ BuyCapability(a)
  PROVE  IInv'
<1>0. /\ job[a].at \in {"fetch", "rebuy"} /\ job[a].at # "idle" /\ HasManifests(a)
      /\ UNCHANGED <<merchant, failures, tries, plan, chain, payment>> /\ purse' = purse
  BY DEF Select, BuyCapability, chain
<1>1. /\ TypeOK /\ JobHolds(a) /\ job[a] \in Job /\ job[a].req \in Request
  BY <1>0, CallContext
<1>2. CASE \E e \in Selected(a, job[a].req) : Decide(a, job[a].req, e) /\ UNCHANGED seen
  BY <1>0, <1>2, OthersStay, DecideKeeps
<1>3. CASE \E e \in Selected(a, job[a].req) :
             /\ job' = [job EXCEPT ![a].at = "rebuy", ![a].offer = e.offer]
             /\ seen' = [seen EXCEPT ![a] = [o \in Offer |-> None]]
             /\ UNCHANGED outcome
  <2>1. PICK e \in Selected(a, job[a].req) :
             /\ job' = [job EXCEPT ![a].at = "rebuy", ![a].offer = e.offer]
             /\ seen' = [seen EXCEPT ![a] = [o \in Offer |-> None]]
             /\ UNCHANGED outcome
    BY <1>3
  <2> DEFINE j == [job[a] EXCEPT !.at = "rebuy", !.offer = e.offer]
  <2>2. e.offer \in Offer
    BY <1>0, <1>1, EstimateTypes
  <2>3. j \in Job /\ j.at = "rebuy"
    BY <1>1, <2>2 DEF Job, Step
  <2>4. job' = [job EXCEPT ![a] = j]
    BY <2>1
  <2> HIDE DEF j
  <2>5. seen' \in [Agent -> [Offer -> Prices \cup {None}]]
    BY <1>1, <2>1 DEF TypeOK
  <2>6. OthersOK'
    BY <1>0, <1>1, <2>5 DEF OthersOK, TypeOK, merchant
  <2>7. job'[a] = j /\ Current(a)' = Current(a)
    BY <1>0, <1>1, <2>4 DEF TypeOK, Current
  <2>8. JobHolds(a)'
    BY <1>0, <1>1, <2>1, <2>3, <2>7
       DEF JobHolds, chain, Unpaid, Unsent, Choosing, Session, Paying
  <2> QED
    BY <1>0, <2>1, <2>3, <2>4, <2>6, <2>8, GoKeeps
<1> QED
  BY <1>2, <1>3 DEF Select, BuyCapability

\* The channel's terms are fixed before anything is sent.
LEMMA OpenKeeps ==
  ASSUME IInv, NEW a \in Agent, OpenChannel(a)
  PROVE  IInv'
<1>1. /\ job[a].at = "open" /\ job[a].at # "idle"
      /\ UNCHANGED <<merchant, failures, seen, tries, chain, payment, outcome>>
      /\ purse' = purse
  BY DEF OpenChannel, chain
<1>2. /\ TypeOK /\ JobHolds(a) /\ PurchaseHolds(Current(a)) /\ Current(a) \in Purchase
      /\ job[a] \in Job /\ payment[Current(a)] = None
  BY <1>1, CallContext DEF Unpaid, Unsent, Choosing
<1>3. Deposit(a) \in Nat
  BY <1>1, <1>2, JobFields, PurchaseAssumption DEF Deposit
<1> DEFINE j == [job[a] EXCEPT !.at = "approve", !.deposit = Deposit(a)]
           terms == [deposit |-> Deposit(a), req |-> job[a].req]
<1>4. /\ j \in Job /\ j.at = "approve" /\ j.deposit = Deposit(a) /\ j.req = job[a].req
      /\ j.offer = job[a].offer /\ j.amount = job[a].amount
  BY <1>2, <1>3 DEF Job, Step
<1>5. job' = [job EXCEPT ![a] = j] /\ plan' = [plan EXCEPT ![Current(a)] = terms]
  BY DEF OpenChannel
<1>6. /\ terms \in [deposit : Nat, req : Asked \cup {None}]
      /\ terms.deposit = Deposit(a) /\ terms.req = job[a].req
  BY <1>2, <1>3 DEF Job
<1> HIDE DEF j, terms
<1>7. /\ job' \in [Agent -> Job \cup {Idle}] /\ job'[a] = j
      /\ \A b \in Agent : b # a => job'[b] = job[b]
      /\ plan' \in [Purchase -> [deposit : Nat, req : Asked \cup {None}]]
      /\ plan'[Current(a)] = terms
      /\ \A p \in Purchase : p # Current(a) => plan'[p] = plan[p]
      /\ Current(a)' = Current(a)
  BY <1>1, <1>2, <1>4, <1>5, <1>6 DEF TypeOK, Current
<1>8. TypeOK'
  BY <1>1, <1>2, <1>7 DEF TypeOK, chain, merchant
<1>9. tx[Current(a)]["approve"] = "none"
  BY <1>1, <1>2 DEF JobHolds, Unsent
<1>10. OnlyOf(a)
  BY <1>1, <1>7, <1>9 DEF OnlyOf, chain
<1>11. JobHolds(a)'
  BY <1>1, <1>2, <1>4, <1>6, <1>7
     DEF JobHolds, chain, Unpaid, Unsent, Choosing, Session, Paying
<1>12. PurchaseHolds(Current(a))'
  BY <1>1, <1>2, <1>7 DEF PurchaseHolds, chain
<1> QED
  BY <1>1, <1>8, <1>10, <1>11, <1>12, AgentKeeps

\* A transaction is sent.
LEMMA SendKeeps ==
  ASSUME IInv, NEW a \in Agent, Approve(a) \/ InitializeChannel(a)
  PROVE  IInv'
<1>1. PICK from \in {"approve", "init"}, kind \in TxKind, to \in {"approving", "initializing"} :
        /\ Send(a, from, kind, to) /\ job[a].at = from
        /\ kind = "approve" => from = "approve" /\ to = "approving"
        /\ kind = "init" => from = "init" /\ to = "initializing"
  BY DEF Approve, InitializeChannel, Send, TxKind
<1>2. /\ job[a].at # "idle" /\ Go(a, to) /\ tx' = [tx EXCEPT ![Current(a)][kind] = "sent"]
      /\ UNCHANGED <<merchant, failures, seen, tries, plan, allowance, purse, channels,
                     payment, outcome>>
      /\ Current(a)' = Current(a)
  BY <1>1 DEF Send, Current
<1>3. /\ TypeOK /\ JobHolds(a) /\ PurchaseHolds(Current(a)) /\ Current(a) \in Purchase
      /\ job[a] \in Job /\ payment[Current(a)] = None
  BY <1>1, <1>2, CallContext DEF Unpaid, Unsent, Choosing
<1>4. /\ tx' \in [Purchase -> [TxKind -> {"none", "sent", "ok", "reverted"}]]
      /\ \A p \in Purchase : p # Current(a) => tx'[p] = tx[p]
      /\ \A k \in TxKind : tx'[Current(a)][k] = IF k = kind THEN "sent" ELSE tx[Current(a)][k]
  BY <1>2, <1>3 DEF TypeOK
<1>5. to \in Step
  BY DEF Step
<1>6. PICK j \in Job : job' = [job EXCEPT ![a] = j] /\ j = [job[a] EXCEPT !.at = to]
  BY <1>2, <1>3, <1>5, GoForm
<1>7. /\ job' \in [Agent -> Job \cup {Idle}] /\ job'[a] = j
      /\ \A b \in Agent : b # a => job'[b] = job[b]
      /\ j.at = to /\ j.req = job[a].req /\ j.offer = job[a].offer
      /\ j.amount = job[a].amount /\ j.deposit = job[a].deposit
  BY <1>3, <1>6 DEF TypeOK, Job
<1>8. TypeOK'
  BY <1>2, <1>3, <1>4, <1>7 DEF TypeOK, merchant
<1>9. /\ tx[Current(a)]["init"] = "none"
      /\ tx[Current(a)]["approve"] = IF kind = "approve" THEN "none" ELSE "ok"
  BY <1>1, <1>3 DEF JobHolds, PurchaseHolds, Unsent, TxKind
<1>10. "approve" \in TxKind /\ "init" \in TxKind
  BY DEF TxKind
<1>11. /\ tx'[Current(a)]["approve"] = IF kind = "approve" THEN "sent" ELSE "ok"
       /\ tx'[Current(a)]["init"] = IF kind = "approve" THEN "none" ELSE "sent"
  BY <1>4, <1>9, <1>10 DEF TxKind
<1>12. OnlyOf(a)
  BY <1>2, <1>4, <1>7, <1>9, <1>11 DEF OnlyOf, TxKind
<1>13. JobHolds(a)'
  BY <1>1, <1>2, <1>3, <1>7, <1>11
     DEF JobHolds, TxKind, Unpaid, Unsent, Choosing, Session, Paying
<1>14. PurchaseHolds(Current(a))'
  BY <1>2, <1>3, <1>11 DEF PurchaseHolds, TxKind
<1> QED
  BY <1>2, <1>8, <1>12, <1>13, <1>14, AgentKeeps

\* A transaction is confirmed.
LEMMA ConfirmedKeeps ==
  ASSUME IInv, NEW a \in Agent, ApproveConfirmed(a) \/ InitConfirmed(a)
  PROVE  IInv'
<1>0. /\ job[a].at \in {"approving", "initializing"} /\ job[a].at # "idle"
      /\ UNCHANGED <<merchant, failures, seen, tries, plan, chain, payment, outcome>>
      /\ purse' = purse
  BY DEF ApproveConfirmed, InitConfirmed, Confirmed, chain
<1>1. /\ TypeOK /\ JobHolds(a) /\ PurchaseHolds(Current(a)) /\ Current(a) \in Purchase
      /\ job[a] \in Job /\ payment[Current(a)] = None
  BY <1>0, CallContext DEF Unpaid, Unsent, Choosing
<1>2. OthersOK'
  BY <1>0, OthersStay
<1>3. CASE ApproveConfirmed(a)
  <2>1. /\ job[a].at = "approving" /\ tx[Current(a)]["approve"] = "ok" /\ Go(a, "init")
        /\ "init" \in Step
    BY <1>3 DEF ApproveConfirmed, Confirmed, Step
  <2>2. PICK j \in Job : job' = [job EXCEPT ![a] = j] /\ j = [job[a] EXCEPT !.at = "init"]
    BY <1>0, <1>1, <2>1, GoForm
  <2>3. /\ j.at = "init" /\ j.req = job[a].req /\ j.offer = job[a].offer
        /\ j.amount = job[a].amount /\ j.deposit = job[a].deposit
        /\ job'[a] = j /\ Current(a)' = Current(a)
    BY <1>0, <1>1, <2>2 DEF TypeOK, Job, Current
  <2>4. JobHolds(a)'
    BY <1>0, <1>1, <2>1, <2>3
       DEF JobHolds, chain, Unpaid, Unsent, Choosing, Session, Paying
  <2> QED
    BY <1>0, <1>2, <2>2, <2>4, GoKeeps
<1>4. CASE InitConfirmed(a)
  <2>1. /\ job[a].at = "initializing" /\ tx[Current(a)]["init"] = "ok" /\ Go(a, "session")
        /\ "session" \in Session /\ "session" \notin Paying
    BY <1>4 DEF InitConfirmed, Confirmed, Session, Paying
  <2>2. Current(a) \in channels
    BY <1>1, <2>1 DEF PurchaseHolds
  <2>3. job[a].at \notin Choosing \cup {"idle", "open"}
    BY <2>1 DEF Choosing
  <2> QED
    BY <1>0, <1>2, <2>1, <2>2, <2>3, SessionGoes
<1> QED
  BY <1>3, <1>4

LEMMA ConfirmationFailsKeeps ==
  ASSUME IInv, NEW a \in Agent, ConfirmationFails(a)
  PROVE  IInv'
<1>1. /\ job[a].at \in {"approving", "initializing"} /\ job[a].at # "idle"
      /\ UNCHANGED <<merchant, failures, seen, tries, plan, chain, payment>>
      /\ purse' = purse /\ Tell(a, "error")
  BY DEF ConfirmationFails, chain
<1>2. payment[Current(a)] = None /\ "error" \in Outcome
  BY <1>1, CallContext DEF Unpaid, Outcome
<1> QED
  BY <1>1, <1>2, OthersStay, TellKeeps

LEMMA CallFailsKeeps ==
  ASSUME IInv, NEW a \in Agent, CallFails(a)
  PROVE  IInv'
<1>1. /\ job[a].at \in {"open", "execute", "finalize", "present", "fetch", "rebuy"}
      /\ job[a].at # "idle" /\ Fails /\ purse' = purse
      /\ UNCHANGED <<merchant, seen, tries, plan, chain, payment>>
  BY DEF CallFails, chain
<1>2. /\ job[a].at \in Unpaid => payment[Current(a)] = None
      /\ job[a].at \notin Unpaid =>
           job[a].at \notin Choosing \cup {"idle", "open"} /\ Current(a) \in channels
      /\ job[a].at \notin Choosing \cup {"open"} => plan[Current(a)].req = job[a].req
  BY <1>1, CallContext DEF Unpaid, Unsent, Choosing, Session, Paying
<1>3. OthersOK'
  BY <1>1, OthersFail
<1>4. CASE job[a].req.how = "prepare" /\ payment[Current(a)] # None
  <2>1. Go(a, "lost") /\ UNCHANGED outcome /\ job[a].at \notin Unpaid
    BY <1>2, <1>4 DEF CallFails
  <2>2. "lost" \in Session /\ "lost" \notin Paying
    BY DEF Session, Paying
  <2> QED
    BY <1>1, <1>2, <1>3, <2>1, <2>2, SessionGoes
<1>5. CASE ~(job[a].req.how = "prepare" /\ payment[Current(a)] # None)
  <2>1. Tell(a, "error") /\ "error" \in Outcome
    BY <1>5 DEF CallFails, Outcome
  <2>2. ~(payment[Current(a)] # None /\ plan[Current(a)].req.how = "prepare")
    BY <1>2, <1>5 DEF Unpaid, Unsent
  <2> QED
    BY <1>1, <1>3, <2>1, <2>2, TellKeeps
<1> QED
  BY <1>4, <1>5

\* The intent: its amount is the one that was decided on.
LEMMA CreateKeeps ==
  ASSUME IInv, NEW a \in Agent, CreatePaymentIntent(a) \/ CreateFails(a)
  PROVE  IInv'
<1> DEFINE r == NewPayment(a)
<1>1. /\ job[a].at \in {"session", "create"} /\ purse' = purse
      /\ UNCHANGED <<merchant, seen, tries, plan, chain>>
  BY DEF CreatePaymentIntent, CreateFails, chain
<1>2. /\ job[a].at # "idle" /\ job[a].at \notin Choosing \cup {"idle", "open"}
      /\ job[a].at \in Session
  BY <1>1 DEF Choosing, Session
<1>3. /\ TypeOK /\ JobHolds(a) /\ PurchaseHolds(Current(a)) /\ Current(a) \in Purchase
      /\ Current(a) \in channels /\ job[a] \in Job /\ plan[Current(a)].req = job[a].req
  BY <1>2, CallContext
<1>4. /\ r \in Payment /\ r.offer = job[a].offer /\ r.amount = job[a].amount
      /\ WithinLimits(job[a].req, r.offer, r.amount)
  <2>1. job[a].offer \in Offer /\ WithinLimits(job[a].req, job[a].offer, job[a].amount)
    BY <1>2, <1>3 DEF JobHolds
  <2>2. job[a].amount \in Nat /\ "authorized" \in Status
    BY <1>2, <1>3, JobFields DEF Status
  <2>3. r = [amount |-> job[a].amount, offer |-> job[a].offer, status |-> "authorized"]
    BY DEF NewPayment, IntentAmount
  <2> QED
    BY <2>1, <2>2, <2>3 DEF Payment
<1> HIDE DEF r
<1>5. CASE CreatePaymentIntent(a)
  <2> DEFINE at == IF job[a].req.execute \/ job[a].req.how = "resource"
                     THEN "execute" ELSE "status"
             j == [job[a] EXCEPT !.status = "authorized", !.at = at]
  <2>1. /\ payment' = [payment EXCEPT ![Current(a)] = r]
        /\ job' = [job EXCEPT ![a].status = "authorized", ![a].at = at]
        /\ UNCHANGED failures /\ UNCHANGED outcome
    BY <1>5 DEF CreatePaymentIntent, r
  <2>2. at \in {"execute", "status"}
    OBVIOUS
  <2> HIDE DEF at
  <2>3. j \in Job
    BY <1>3, <2>2 DEF Job, Step, Status
  <2>4. /\ j.at = at /\ j.req = job[a].req /\ j.offer = job[a].offer
        /\ j.amount = job[a].amount /\ j.deposit = job[a].deposit
    BY <1>3 DEF Job
  <2>5. job' = [job EXCEPT ![a] = j]
    BY <1>3, <2>1 DEF Job, TypeOK
  <2> HIDE DEF j
  <2>6. j.at \in Session /\ j.at # "present"
    BY <2>2, <2>4 DEF Session, Paying
  <2>7. OthersOK'
    BY <1>1, <2>1, OthersStay
  <2> QED
    BY <1>1, <1>2, <1>3, <1>4, <2>1, <2>3, <2>4, <2>5, <2>6, <2>7, SessionKeeps
<1>6. CASE CreateFails(a)
  <2>1. OthersOK'
    BY <1>1, <1>6, OthersFail DEF CreateFails
  <2>2. PICK s \in {payment[Current(a)], r} : payment' = [payment EXCEPT ![Current(a)] = s]
    <3>1. payment = [payment EXCEPT ![Current(a)] = payment[Current(a)]]
      BY <1>3 DEF TypeOK
    <3> QED
      BY <1>6, <3>1 DEF CreateFails, r
  <2>3. /\ s \in Payment \cup {None}
        /\ s # None => WithinLimits(job[a].req, s.offer, s.amount)
    BY <1>3, <1>4 DEF TypeOK, PurchaseHolds
  <2>4. CASE job[a].req.how = "prepare"
    <3>1. Go(a, "lost") /\ UNCHANGED outcome /\ "lost" \in Step
      BY <1>6, <2>4 DEF CreateFails, Step
    <3>2. PICK j \in Job : job' = [job EXCEPT ![a] = j] /\ j = [job[a] EXCEPT !.at = "lost"]
      BY <1>2, <1>3, <3>1, GoForm
    <3>3. /\ j.at = "lost" /\ j.req = job[a].req /\ j.offer = job[a].offer
          /\ j.amount = job[a].amount /\ j.deposit = job[a].deposit
      BY <1>3, <3>2 DEF Job
    <3>4. j.at \in Session /\ j.at # "present" /\ j.at \notin Paying
      BY <3>3 DEF Session, Paying
    <3> QED
      BY <1>1, <1>2, <1>3, <2>1, <2>2, <2>3, <3>1, <3>2, <3>3, <3>4, SessionKeeps
  <2>5. CASE job[a].req.how # "prepare"
    <3>1. Tell(a, "error")
      BY <1>6, <2>5 DEF CreateFails
    <3>2. /\ job' \in [Agent -> Job \cup {Idle}] /\ job'[a] = Idle
          /\ \A b \in Agent : b # a => job'[b] = job[b]
          /\ outcome' \in [Purchase -> Outcome] /\ outcome'[Current(a)] = "error"
          /\ \A p \in Purchase : p # Current(a) => outcome'[p] = outcome[p]
      BY <1>3, <3>1 DEF Tell, TypeOK, Outcome
    <3>3. /\ payment' \in [Purchase -> Payment \cup {None}] /\ payment'[Current(a)] = s
          /\ \A p \in Purchase : p # Current(a) => payment'[p] = payment[p]
      BY <1>3, <2>2, <2>3 DEF TypeOK
    <3>4. TypeOK'
      BY <1>1, <1>3, <2>1, <3>2, <3>3 DEF TypeOK, OthersOK, chain
    <3>5. OnlyOf(a)
      BY <1>1, <3>2, <3>3 DEF OnlyOf, chain
    <3>6. JobHolds(a)'
      BY <3>2 DEF JobHolds, Idle
    <3>7. PurchaseHolds(Current(a))'
      BY <1>1, <1>3, <2>3, <2>5, <3>3 DEF PurchaseHolds, Current, chain
    <3> QED
      BY <1>2, <3>4, <3>5, <3>6, <3>7, AgentKeeps
  <2> QED
    BY <2>4, <2>5
<1> QED
  BY <1>5, <1>6

LEMMA RecoverKeeps ==
  ASSUME IInv, NEW a \in Agent, RecoverPayment(a)
  PROVE  IInv'
<1>1. /\ job[a].at = "lost" /\ job[a].at # "idle" /\ purse' = purse
      /\ job[a].at \notin Choosing \cup {"idle", "open"}
      /\ UNCHANGED <<merchant, failures, seen, tries, plan, chain, payment, outcome>>
  BY DEF RecoverPayment, chain, Choosing
<1>2. /\ TypeOK /\ JobHolds(a) /\ PurchaseHolds(Current(a)) /\ Current(a) \in Purchase
      /\ Current(a) \in channels /\ job[a] \in Job /\ plan[Current(a)].req = job[a].req
  BY <1>1, CallContext DEF Session, Choosing
<1>3. OthersOK'
  BY <1>1, OthersStay
<1>4. CASE payment[Current(a)] = None
  <2>1. Go(a, "create") /\ "create" \in Session /\ "create" \notin Paying
    BY <1>4 DEF RecoverPayment, Session, Paying
  <2> QED
    BY <1>1, <1>2, <1>3, <2>1, SessionGoes
<1>5. CASE payment[Current(a)] # None
  <2> DEFINE s == payment[Current(a)].status
             j == [job[a] EXCEPT !.at = "status", !.status = s]
  <2>1. payment[Current(a)] \in Payment /\ s \in Status \cup {None}
    BY <1>2, <1>5 DEF TypeOK, Payment
  <2>2. job' = [job EXCEPT ![a] = j]
    BY <1>2, <1>5 DEF RecoverPayment, TypeOK, Job
  <2> HIDE DEF s
  <2>3. j \in Job
    BY <1>2, <2>1 DEF Job, Step
  <2>4. /\ j.at = "status" /\ j.req = job[a].req /\ j.offer = job[a].offer
        /\ j.amount = job[a].amount /\ j.deposit = job[a].deposit
    BY <1>2 DEF Job
  <2> HIDE DEF j
  <2>5. j.at \in Session /\ j.at # "present"
    BY <2>4 DEF Session, Paying
  <2>6. /\ payment' = [payment EXCEPT ![Current(a)] = payment[Current(a)]]
        /\ WithinLimits(job[a].req, payment[Current(a)].offer, payment[Current(a)].amount)
    BY <1>1, <1>2, <1>5 DEF TypeOK, PurchaseHolds
  <2> QED
    BY <1>1, <1>2, <1>3, <2>1, <2>2, <2>3, <2>4, <2>5, <2>6, SessionKeeps
<1> QED
  BY <1>4, <1>5

\* Tools and attempts that execute, reconcile or read a payment.
LEMMA DriveKeeps ==
  ASSUME IInv, NEW a \in Agent,
         \/ ExecutePayment(a) \/ HintedExecute(a) \/ HintedReconcile(a) \/ HintedRecover(a)
         \/ FinalizeExecutes(a) \/ FinalizeReconciles(a)
  PROVE  IInv'
<1>1. /\ job[a].at \in {"execute", "finalize", "hints"} /\ job[a].at # "idle"
      /\ job[a].at = "finalize" => job[a].attempts > 0
  BY DEF ExecutePayment, HintedExecute, HintedReconcile, HintedRecover, FinalizeExecutes,
         FinalizeReconciles
<1>2. payment[Current(a)] \in Payment
  BY <1>1, CallContext DEF Paying
<1> DEFINE s == payment[Current(a)].status
<1>3. s \in Status
  BY <1>2 DEF Payment
<1>4. PICK results \in {Executed(s), Reconciled(s), {s}} : Call(a, results)
  BY DEF ExecutePayment, HintedExecute, HintedReconcile, HintedRecover, FinalizeExecutes,
         FinalizeReconciles
<1> HIDE DEF s
<1>5. results \in SUBSET Status
  BY <1>3, <1>4, StatusMoves
<1> QED
  BY <1>1, <1>4, <1>5, CallKeeps

LEMMA ReturnKeeps ==
  ASSUME IInv, NEW a \in Agent, Return(a) \/ HintsEnd(a) \/ Present(a)
  PROVE  IInv'
<1>1. /\ job[a].at \in {"status", "hints", "present"} /\ job[a].at # "idle"
      /\ UNCHANGED <<merchant, failures, seen, tries, plan, chain, payment>>
      /\ purse' = purse
  BY DEF Return, HintsEnd, Present, chain
<1>2. /\ TypeOK /\ JobHolds(a) /\ job[a] \in Job /\ plan[Current(a)].req = job[a].req
  BY <1>1, CallContext DEF Choosing
<1>3. OthersOK'
  BY <1>1, OthersStay
<1>4. CASE Return(a) \/ HintsEnd(a)
  <2>1. PICK told \in {"unfinished"} \cup Terminal : Tell(a, told)
    BY <1>4 DEF Return, HintsEnd, Terminal
  <2>2. told \in Outcome /\ told \in Known
    BY DEF Outcome, Known
  <2> QED
    BY <1>1, <1>3, <2>1, <2>2, TellKeeps
<1>5. CASE Present(a)
  <2>1. PICK told \in {"served", "error"} : Tell(a, told)
    BY <1>5 DEF Present
  <2>2. told \in Outcome
    BY DEF Outcome
  <2>3. plan[Current(a)].req.how = "resource"
    BY <1>1, <1>2, <1>5 DEF Present, JobHolds
  <2> QED
    BY <1>1, <1>3, <2>1, <2>2, <2>3, TellKeeps
<1> QED
  BY <1>4, <1>5

LEMMA FinalizeKeeps ==
  ASSUME IInv, NEW a \in Agent, StartHints(a) \/ BeginFinalize(a) \/ FinalizeReturns(a)
  PROVE  IInv'
<1>1. /\ job[a].at \in {"status", "hints", "finalize"} /\ job[a].at # "idle"
      /\ UNCHANGED <<merchant, failures, seen, tries, plan, chain, payment>>
      /\ purse' = purse
  BY DEF StartHints, BeginFinalize, FinalizeReturns, chain
<1>2. /\ TypeOK /\ JobHolds(a) /\ PurchaseHolds(Current(a)) /\ Current(a) \in Purchase
      /\ Current(a) \in channels /\ job[a] \in Job
      /\ payment[Current(a)] \in Payment /\ payment[Current(a)] # None
      /\ plan[Current(a)].req = job[a].req
      /\ job[a].at \notin Choosing \cup {"idle", "open"}
  BY <1>1, CallContext, PurchaseAssumption DEF Choosing, Session, Paying
<1>3. OthersOK'
  BY <1>1, OthersStay
<1>4. CASE StartHints(a)
  <2>1. Go(a, "hints") /\ "hints" \in Session /\ UNCHANGED outcome
    BY <1>4 DEF StartHints, Session, Paying
  <2> QED
    BY <1>1, <1>2, <1>3, <2>1, SessionGoes
<1>5. CASE BeginFinalize(a)
  <2> DEFINE s == payment[Current(a)].status
             j == [job[a] EXCEPT !.at = "finalize", !.attempts = MaxAttempts, !.status = s]
  <2>1. s \in Status \cup {None} /\ MaxAttempts \in 0 .. MaxAttempts
    BY <1>2, PurchaseAssumption DEF Payment
  <2>2. job' = [job EXCEPT ![a] = j] /\ UNCHANGED outcome
    BY <1>2, <1>5 DEF BeginFinalize, TypeOK, Job
  <2> HIDE DEF s
  <2>3. j \in Job
    BY <1>2, <2>1 DEF Job, Step
  <2>4. /\ j.at = "finalize" /\ j.req = job[a].req /\ j.offer = job[a].offer
        /\ j.amount = job[a].amount /\ j.deposit = job[a].deposit
    BY <1>2 DEF Job
  <2> HIDE DEF j
  <2>5. j.at \in Session /\ j.at # "present"
    BY <2>4 DEF Session, Paying
  <2>6. /\ payment' = [payment EXCEPT ![Current(a)] = payment[Current(a)]]
        /\ WithinLimits(job[a].req, payment[Current(a)].offer, payment[Current(a)].amount)
    BY <1>1, <1>2 DEF TypeOK, PurchaseHolds
  <2> QED
    BY <1>1, <1>2, <1>3, <2>2, <2>3, <2>4, <2>5, <2>6, SessionKeeps
<1>6. CASE FinalizeReturns(a)
  <2>1. \/ Go(a, "hints") /\ UNCHANGED outcome
        \/ Go(a, "present") /\ job[a].req.how = "resource" /\ UNCHANGED outcome
        \/ \E told \in {"unfinished"} \cup Terminal : Tell(a, told)
    BY <1>6 DEF FinalizeReturns, Terminal
  <2>2. {"hints", "present"} \subseteq Session
    BY DEF Session, Paying
  <2>3. CASE Go(a, "hints") /\ UNCHANGED outcome
    BY <1>1, <1>2, <1>3, <2>2, <2>3, SessionGoes
  <2>4. CASE Go(a, "present") /\ job[a].req.how = "resource" /\ UNCHANGED outcome
    BY <1>1, <1>2, <1>3, <2>2, <2>4, SessionGoes
  <2>5. CASE \E told \in {"unfinished"} \cup Terminal : Tell(a, told)
    <3>1. PICK told \in {"unfinished"} \cup Terminal : Tell(a, told)
      BY <2>5
    <3>2. told \in Outcome /\ told \in Known
      BY DEF Outcome, Known
    <3> QED
      BY <1>1, <1>3, <3>1, <3>2, TellKeeps
  <2> QED
    BY <2>1, <2>3, <2>4, <2>5
<1> QED
  BY <1>4, <1>5, <1>6

-----------------------------------------------------------------------------
(* The beginning, the chain and the merchants.                             *)

LEMMA InitEstablishes == Init => IInv
<1> SUFFICES ASSUME Init PROVE IInv
  OBVIOUS
<1>1. TypeOK
  <2>1. \A a \in Agent : 0 <= MaxTries[a]
    BY PurchaseAssumption
  <2>2. /\ price \in [Offer -> Prices] /\ changes \in 0 .. MaxChanges
        /\ failures \in 0 .. MaxFailures /\ autoPurchase \in BOOLEAN
        /\ allowance \in Nat /\ purse \in 0 .. Funds /\ channels \subseteq Purchase
    BY PurchaseAssumption DEF Init
  <2>3. seen \in [Agent -> [Offer -> Prices \cup {None}]] /\ job \in [Agent -> Job \cup {Idle}]
    BY DEF Init
  <2>4. tries \in [Agent -> Nat] /\ \A a \in Agent : tries[a] <= MaxTries[a]
    BY <2>1 DEF Init
  <2>5. plan \in [Purchase -> [deposit : Nat, req : Asked \cup {None}]]
    BY DEF Init
  <2>6. tx \in [Purchase -> [TxKind -> {"none", "sent", "ok", "reverted"}]]
    BY DEF Init
  <2>7. payment \in [Purchase -> Payment \cup {None}] /\ outcome \in [Purchase -> Outcome]
    BY DEF Init, Outcome
  <2> QED
    BY <2>2, <2>3, <2>4, <2>5, <2>6, <2>7 DEF TypeOK
<1>2. \A a \in Agent : JobHolds(a)
  BY DEF Init, JobHolds, Idle
<1>3. \A p \in Purchase : PurchaseHolds(p)
  BY DEF Init, PurchaseHolds, TxKind
<1>4. FutureHolds
  BY DEF Init, FutureHolds, TxKind
<1>5. AllowanceIsPending
  BY DEF Init, AllowanceIsPending
<1> QED
  BY <1>1, <1>2, <1>3, <1>4, <1>5 DEF IInv

\* A new purchase has left nothing yet.
LEMMA BeginKeeps ==
  ASSUME IInv, NEW a \in Agent, Begin(a)
  PROVE  IInv'
<1>1. PICK q \in Requests[a] :
        /\ job' = [job EXCEPT ![a] =
             [at |-> "fetch", req |-> q, offer |-> None, action |-> "skip", amount |-> 0,
              deposit |-> 0, status |-> None, attempts |-> 0]]
        /\ seen' = IF q.via = "client" THEN seen
                   ELSE [seen EXCEPT ![a] = [o \in Offer |-> None]]
  BY DEF Begin
<1>2. /\ tries[a] < MaxTries[a] /\ tries' = [tries EXCEPT ![a] = @ + 1]
      /\ UNCHANGED <<merchant, failures, plan, tx, allowance, purse, channels, payment, outcome>>
  BY DEF Begin, chain
<1>3. TypeOK
  BY DEF IInv
<1> DEFINE n == tries[a] + 1
<1>4. /\ n \in 1 .. MaxTries[a] /\ n > 0 /\ tries[a] \in Nat
      /\ tries'[a] = n /\ \A b \in Agent : b # a => tries'[b] = tries[b]
      /\ tries' \in [Agent -> Nat] /\ \A b \in Agent : tries'[b] <= MaxTries[b]
  <2>1. tries[a] \in Nat /\ MaxTries[a] \in Nat
    BY <1>3, PurchaseAssumption DEF TypeOK
  <2> QED
    BY <1>2, <1>3, <2>1 DEF TypeOK
<1>5. /\ job'[a].at = "fetch" /\ \A b \in Agent : b # a => job'[b] = job[b]
      /\ job' \in [Agent -> Job \cup {Idle}]
  BY <1>1, <1>3, PurchaseAssumption DEF TypeOK, Job, Asked, Step, Action
<1>6. seen' \in [Agent -> [Offer -> Prices \cup {None}]]
  BY <1>1, <1>3 DEF TypeOK
<1>7. TypeOK'
  BY <1>2, <1>3, <1>4, <1>5, <1>6 DEF TypeOK, merchant
<1>8. <<a, n>> \in Purchase /\ <<a, n>>[1] = a /\ <<a, n>>[2] > tries[a] /\ Current(a)' = <<a, n>>
  <2>1. <<a, n>> \in {a} \X (1 .. MaxTries[a])
    BY <1>4
  <2> QED
    BY <1>4, <2>1 DEF Purchase, Current
<1>9. /\ tx[<<a, n>>]["approve"] = "none" /\ payment[<<a, n>>] = None
      /\ outcome[<<a, n>>] = None
  BY <1>8 DEF IInv, FutureHolds
<1>10. ASSUME NEW b \in Agent PROVE JobHolds(b)'
  <2>1. CASE b = a
    <3>1. "fetch" \in Choosing /\ "fetch" \in Unsent /\ "fetch" \in Unpaid
          /\ "fetch" \notin Paying /\ "fetch" \notin Session
      BY DEF Choosing, Unsent, Unpaid, Paying, Session
    <3> QED
      BY <1>2, <1>4, <1>5, <1>8, <1>9, <2>1, <3>1 DEF JobHolds
  <2>2. CASE b # a
    <3>1. JobHolds(b) /\ Current(b)' = Current(b) /\ tries'[b] = tries[b] /\ job'[b] = job[b]
      BY <1>4, <1>5, <2>2 DEF IInv, Current
    <3> QED
      BY <1>2, <3>1 DEF JobHolds
  <2> QED
    BY <2>1, <2>2
<1>11. \A p \in Purchase : PurchaseHolds(p)'
  BY <1>2 DEF IInv, PurchaseHolds
<1>12. FutureHolds'
  <2> SUFFICES ASSUME NEW p \in Purchase, p[2] > tries'[p[1]]
               PROVE  tx[p]["approve"] = "none" /\ payment[p] = None /\ outcome[p] = None
    BY <1>2 DEF FutureHolds
  <2>1. p[1] \in Agent /\ p[2] \in Nat
    BY PurchaseForm
  <2>2. p[2] > tries[p[1]]
    <3>1. tries[p[1]] \in Nat /\ tries'[p[1]] \in Nat
      BY <1>3, <1>4, <2>1 DEF TypeOK
    <3>2. tries[p[1]] <= tries'[p[1]]
      BY <1>4, <2>1, <3>1
    <3> QED
      BY <2>1, <3>1, <3>2
  <2> QED
    BY <2>2 DEF IInv, FutureHolds
<1>13. AllowanceIsPending'
  BY <1>2 DEF IInv, AllowanceIsPending
<1> QED
  BY <1>7, <1>10, <1>11, <1>12, <1>13 DEF IInv

\* Whatever is included, and in whatever order, the allowance stays that of one
\* approval, and the channels that calls rely on stay open.
LEMMA MineKeeps ==
  ASSUME IInv, NEW p \in Purchase, NEW k \in TxKind, Mine(p, k)
  PROVE  IInv'
<1> DEFINE d == plan[p].deposit
<1>1. /\ tx[p][k] = "sent"
      /\ UNCHANGED <<merchant, failures, seen, job, tries, plan, payment, outcome>>
  BY DEF Mine
<1>2. TypeOK /\ d \in Nat /\ allowance \in Nat /\ purse \in 0 .. Funds /\ Funds \in Nat
  BY PurchaseAssumption DEF IInv, TypeOK
<1>3. PICK r \in {"ok", "reverted"} :
        /\ tx' = [tx EXCEPT ![p][k] = r]
        /\ \/ /\ r = "ok" /\ k = "approve" /\ allowance' = d
              /\ UNCHANGED <<purse, channels>>
           \/ /\ r = "ok" /\ k = "init" /\ allowance >= d /\ purse >= d
              /\ allowance' = allowance - d /\ purse' = purse - d
              /\ channels' = channels \cup {p}
           \/ r = "reverted" /\ UNCHANGED <<allowance, purse, channels>>
  BY DEF Mine, TxKind, Approved
<1>4. /\ tx' \in [Purchase -> [TxKind -> {"none", "sent", "ok", "reverted"}]]
      /\ tx'[p][k] = r
      /\ \A w \in Purchase, kind \in TxKind :
           tx[w][kind] # "sent" => tx'[w][kind] = tx[w][kind]
      /\ \A w \in Purchase : w # p => tx'[w] = tx[w]
  BY <1>1, <1>2, <1>3 DEF TypeOK
<1>5. allowance' \in Nat /\ purse' \in 0 .. Funds /\ channels' \subseteq Purchase
  BY <1>2, <1>3 DEF TypeOK
<1>6. channels \subseteq channels'
  BY <1>3
<1>7. TypeOK'
  BY <1>1, <1>2, <1>4, <1>5 DEF TypeOK, merchant
<1>8. "approve" \in TxKind /\ "init" \in TxKind
  BY DEF TxKind
<1>9. ASSUME NEW b \in Agent PROVE JobHolds(b)'
  <2>1. CASE job[b].at = "idle"
    BY <1>1, <2>1 DEF JobHolds
  <2>2. CASE job[b].at # "idle"
    <3>1. JobHolds(b) /\ Current(b) \in Purchase /\ Current(b)' = Current(b)
      BY <1>1, <2>2, CallContext DEF Current
    <3> QED
      BY <1>1, <1>4, <1>6, <1>8, <2>2, <3>1 DEF JobHolds
  <2> QED
    BY <2>1, <2>2
<1>10. ASSUME NEW w \in Purchase PROVE PurchaseHolds(w)'
  <2>1. PurchaseHolds(w)
    BY DEF IInv
  <2>2. tx'[w]["init"] # "none" => tx'[w]["approve"] = "ok"
    BY <1>4, <1>8, <2>1 DEF PurchaseHolds
  <2>3. tx'[w]["init"] = "ok" => w \in channels'
    <3>1. CASE w = p /\ k = "init"
      BY <1>3, <1>4, <3>1
    <3>2. CASE ~(w = p /\ k = "init")
      <4>1. tx'[w]["init"] = tx[w]["init"]
        BY <1>2, <1>3, <1>8, <3>2 DEF TypeOK, TxKind
      <4> QED
        BY <1>6, <2>1, <4>1 DEF PurchaseHolds
    <3> QED
      BY <3>1, <3>2
  <2> QED
    BY <1>1, <2>1, <2>2, <2>3 DEF PurchaseHolds
<1>11. FutureHolds'
  BY <1>1, <1>4, <1>8 DEF IInv, FutureHolds
<1>12. AllowanceIsPending'
  <2> SUFFICES ASSUME allowance' > 0
               PROVE  \E w \in Purchase :
                        /\ tx'[w]["approve"] = "ok" /\ tx'[w]["init"] # "ok"
                        /\ allowance' <= plan[w].deposit
    BY <1>1 DEF AllowanceIsPending
  <2>1. CASE r = "ok" /\ k = "approve" /\ allowance' = d
    <3>1. tx[p]["init"] = "none"
      BY <1>1, <2>1 DEF IInv, PurchaseHolds
    <3>2. tx'[p]["approve"] = "ok" /\ tx'[p]["init"] # "ok"
      BY <1>4, <1>8, <2>1, <3>1
    <3> QED
      BY <1>2, <2>1, <3>2
  <2>2. CASE k = "init" /\ allowance >= d /\ allowance' = allowance - d
    <3>1. allowance > 0
      BY <1>2, <2>2
    <3>2. PICK w \in Purchase : /\ tx[w]["approve"] = "ok" /\ tx[w]["init"] # "ok"
                                /\ allowance <= plan[w].deposit
      BY <3>1 DEF IInv, AllowanceIsPending
    <3>3. plan[w].deposit \in Nat
      BY <1>2 DEF TypeOK
    <3>4. w # p
      BY <1>2, <2>2, <3>2, <3>3
    <3> QED
      BY <1>2, <1>4, <2>2, <3>2, <3>3, <3>4
  <2>3. CASE r = "reverted" /\ allowance' = allowance
    <3>1. PICK w \in Purchase : /\ tx[w]["approve"] = "ok" /\ tx[w]["init"] # "ok"
                                /\ allowance <= plan[w].deposit
      BY <2>3 DEF IInv, AllowanceIsPending
    <3>2. tx'[w]["approve"] = "ok"
      BY <1>4, <1>8, <3>1
    <3>3. tx'[w]["init"] # "ok"
      <4>1. tx'[w]["init"] \in {tx[w]["init"], r}
        BY <1>2, <1>3, <1>8 DEF TypeOK
      <4> QED
        BY <2>3, <3>1, <4>1
    <3> QED
      BY <2>3, <3>1, <3>2, <3>3
  <2> QED
    BY <1>3, <2>1, <2>2, <2>3
<1> QED
  BY <1>7, <1>9, <1>10, <1>11, <1>12 DEF IInv

LEMMA MerchantMovesKeeps ==
  ASSUME IInv, NEW p \in Purchase, MerchantMoves(p)
  PROVE  IInv'
<1>1. /\ payment[p] # None
      /\ UNCHANGED <<merchant, failures, seen, job, tries, plan, tx, allowance, purse, channels,
                     outcome>>
  BY DEF MerchantMoves, chain
<1>2. TypeOK /\ payment[p] \in Payment /\ payment[p].status \in Status
  BY <1>1 DEF IInv, TypeOK, Payment
<1>3. PICK s \in Status : payment' = [payment EXCEPT ![p].status = s]
  BY <1>2, StatusMoves DEF MerchantMoves, Status
<1> DEFINE r == [payment[p] EXCEPT !.status = s]
<1>4. /\ r \in Payment /\ r # None
      /\ r.amount = payment[p].amount /\ r.offer = payment[p].offer
  BY <1>2, PurchaseAssumption DEF Payment
<1>5. payment' = [payment EXCEPT ![p] = r]
  BY <1>3
<1> HIDE DEF r
<1>6. /\ payment' \in [Purchase -> Payment \cup {None}] /\ payment'[p] = r
      /\ \A w \in Purchase : w # p => payment'[w] = payment[w]
  BY <1>2, <1>4, <1>5 DEF TypeOK
<1>7. TypeOK'
  BY <1>1, <1>2, <1>6 DEF TypeOK, merchant
<1>8. \A w \in Purchase : /\ payment'[w] = None <=> payment[w] = None
                          /\ payment[w] \in Payment => payment'[w] \in Payment
                          /\ payment[w] # None =>
                               /\ payment'[w].offer = payment[w].offer
                               /\ payment'[w].amount = payment[w].amount
  BY <1>1, <1>4, <1>6
<1>9. ASSUME NEW b \in Agent PROVE JobHolds(b)'
  <2>1. CASE job[b].at = "idle"
    BY <1>1, <2>1 DEF JobHolds
  <2>2. CASE job[b].at # "idle"
    <3>1. JobHolds(b) /\ Current(b) \in Purchase /\ Current(b)' = Current(b)
      BY <1>1, <2>2, CallContext DEF Current
    <3> QED
      BY <1>1, <1>8, <2>2, <3>1 DEF JobHolds
  <2> QED
    BY <2>1, <2>2
<1>10. ASSUME NEW w \in Purchase PROVE PurchaseHolds(w)'
  <2>1. PurchaseHolds(w)
    BY DEF IInv
  <2> QED
    BY <1>1, <1>8, <2>1 DEF PurchaseHolds
<1>11. FutureHolds'
  BY <1>1, <1>8 DEF IInv, FutureHolds
<1>12. AllowanceIsPending'
  BY <1>1 DEF IInv, AllowanceIsPending
<1> QED
  BY <1>7, <1>9, <1>10, <1>11, <1>12 DEF IInv

\* Prices, the switch and the stuttering step.
LEMMA SameKeeps ==
  ASSUME IInv, OthersOK',
         UNCHANGED <<job, tries, plan, tx, allowance, channels, payment, outcome>>
  PROVE  IInv'
<1>1. TypeOK'
  BY DEF IInv, TypeOK, OthersOK
<1>2. \A b \in Agent : JobHolds(b)'
  BY DEF IInv, JobHolds, Current
<1>3. \A p \in Purchase : PurchaseHolds(p)'
  BY DEF IInv, PurchaseHolds
<1> QED
  BY <1>1, <1>2, <1>3 DEF IInv, FutureHolds, AllowanceIsPending

LEMMA ChangeKeeps ==
  ASSUME IInv, (\E o \in Offer : ChangePrice(o)) \/ ToggleAutoPurchase
  PROVE  IInv'
<1>1. /\ changes' = changes + 1 /\ changes < MaxChanges
      /\ UNCHANGED <<failures, seen, job, tries, plan, tx, allowance, purse, channels, payment,
                     outcome>>
  BY DEF ChangePrice, ToggleAutoPurchase, chain
<1>2. TypeOK /\ changes' \in 0 .. MaxChanges
  BY <1>1, PurchaseAssumption DEF IInv, TypeOK
<1>3. price' \in [Offer -> Prices] /\ autoPurchase' \in BOOLEAN
  BY <1>2 DEF ChangePrice, ToggleAutoPurchase, TypeOK
<1>4. OthersOK'
  BY <1>1, <1>2, <1>3 DEF OthersOK, TypeOK
<1> QED
  BY <1>1, <1>4, SameKeeps

-----------------------------------------------------------------------------
(* The invariant, and what follows from it.                                *)

LEMMA StepKeeps == IInv /\ [Next]_vars => IInv'
<1> SUFFICES ASSUME IInv, [Next]_vars PROVE IInv'
  OBVIOUS
<1>1. ASSUME NEW a \in Agent, AgentStep(a) PROVE IInv'
  BY <1>1, FetchKeeps, SelectKeeps, OpenKeeps, SendKeeps, ConfirmedKeeps,
     ConfirmationFailsKeeps, CallFailsKeeps, CreateKeeps, RecoverKeeps, DriveKeeps,
     ReturnKeeps, FinalizeKeeps DEF AgentStep
<1>2. ASSUME NEW a \in Agent, Begin(a) PROVE IInv'
  BY <1>2, BeginKeeps
<1>3. ASSUME NEW p \in Purchase, NEW k \in TxKind, Mine(p, k) PROVE IInv'
  BY <1>3, MineKeeps
<1>4. ASSUME NEW p \in Purchase, MerchantMoves(p) PROVE IInv'
  BY <1>4, MerchantMovesKeeps
<1>5. CASE (\E o \in Offer : ChangePrice(o)) \/ ToggleAutoPurchase
  BY <1>5, ChangeKeeps
<1>6. CASE UNCHANGED vars
  <2>1. UNCHANGED <<price, changes, failures, autoPurchase, seen, job, tries, plan, tx,
                    allowance, purse, channels, payment, outcome>>
    BY <1>6 DEF vars
  <2>2. OthersOK'
    BY <2>1 DEF IInv, TypeOK, OthersOK
  <2> QED
    BY <2>1, <2>2, SameKeeps
<1> QED
  BY <1>1, <1>2, <1>3, <1>4, <1>5, <1>6 DEF Next

LEMMA Invariance == Spec => []IInv
BY InitEstablishes, StepKeeps, PTL DEF Spec

\* The state of the buyers, the chain and the merchants is well typed.
THEOREM TypeCorrect == Spec => []TypeOK
<1>1. IInv => TypeOK
  BY DEF IInv
<1> QED
  BY <1>1, Invariance, PTL

\* A purchase that goes on with a session has an open channel with the deposit it
\* asked for, however many agents open channels from one wallet
\* (open_channel_exec.js:21-56).
THEOREM SessionsAreFunded == Spec => []SessionIsFunded
<1>1. IInv => SessionIsFunded
  <2> SUFFICES ASSUME IInv, NEW a \in Agent, job[a].at \in Session
               PROVE  Current(a) \in channels /\ plan[Current(a)].deposit = job[a].deposit
    BY DEF SessionIsFunded, Session, Paying
  <2>1. job[a].at # "idle" /\ job[a].at \notin Choosing \cup {"open"}
    BY DEF Session, Paying, Choosing
  <2> QED
    BY <2>1 DEF IInv, JobHolds
<1> QED
  BY <1>1, Invariance, PTL

\* Openings that race replace each other's allowance, they never add up: the
\* contract may take no more than the deposit of one opening that is under way
\* (open_channel_exec.js:21-28).
THEOREM AllowanceIsOfOneOpening == Spec => []AllowanceIsPending
<1>1. IInv => AllowanceIsPending
  BY DEF IInv
<1> QED
  BY <1>1, Invariance, PTL

\* What nobody approved is within the budget and the policy it was decided under,
\* although prices change between the manifest and the intent (client.py:313-420).
THEOREM SpendingWithinLimits == Spec => []UnapprovedWithinLimits
<1>1. IInv => UnapprovedWithinLimits
  BY DEF IInv, PurchaseHolds, UnapprovedWithinLimits
<1> QED
  BY <1>1, Invariance, PTL

\* Who prepares a purchase and recovers after an error is told how its payment
\* stands, whatever call fails or is lost (client.py:489-560).
THEOREM PreparedIsKnown == Spec => []PreparedPaymentKnown
<1>1. IInv => PreparedPaymentKnown
  BY DEF IInv, PurchaseHolds, PreparedPaymentKnown, Known
<1> QED
  BY <1>1, Invariance, PTL
===============================================================================
