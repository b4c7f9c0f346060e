-------------------------- MODULE SettlementService --------------------------
(***************************************************************************)
(* How the seller turns authorized payments into settled ones: the payment *)
(* records shared by every process (shared/payments.py), the settlement    *)
(* service that submits and confirms claims under advisory processing      *)
(* locks (seller/settlement.py), the gateway calls that expire or override *)
(* records (seller/gateway.py) and the recovery workers                    *)
(* (seller/worker.py), above a chain that includes, reverts or loses       *)
(* transactions.                                                           *)
(*                                                                         *)
(* A store call is one step: SQLite runs each in a transaction.  Between   *)
(* two store calls any other process may run, and a process goes on with   *)
(* the copy of the record it read: upsert writes the whole copy back.      *)
(***************************************************************************)
EXTENDS Integers, FiniteSets

CONSTANTS
  Payment,      \* payment ids
  Channel,      \* channel ids
  ChannelOf,    \* the channel each payment draws on
  Deadline,     \* request_deadline of each payment
  Expiry,       \* expires_at of each channel
  Worker,       \* recovery workers, each looping over run_once
  Handler,      \* threads or processes that serve gateway requests
  Requests,     \* the kinds of request that arrive
  Faults,       \* what may go wrong
  TTL,          \* processing_lock_ttl_s
  MaxAttempts,  \* max_confirmation_attempts
  MaxRetryable, \* max_retryable_failures
  MaxTx,        \* bound: claims broadcast per payment; then the node refuses
  MaxTime,      \* bound: the clock stops here
  Nobody        \* no process, no payment

Process == Worker \cup Handler

RequestKinds == {"get", "execute", "reconcile", "operator", "record"}

\* executor_error: the executor raises before it sends the transaction.
\* answer_lost:    the executor raises although the transaction was sent.
\* confirm_error:  the confirmer raises.
\* tx_dropped:     a broadcast transaction never gets into a block.
\* crash:          a process dies and starts again.
\* slow:           a process may hold a lock for longer than TTL.
FaultKinds == {"executor_error", "answer_lost", "confirm_error", "tx_dropped",
               "crash", "slow"}

ASSUME SettlementAssumption ==
  /\ ChannelOf \in [Payment -> Channel]
  /\ Deadline \in [Payment -> Nat]
  /\ Expiry \in [Channel -> Nat]
  /\ Requests \subseteq RequestKinds
  /\ Faults \subseteq FaultKinds
  /\ TTL \in Nat /\ MaxAttempts \in Nat /\ MaxRetryable \in Nat
  /\ MaxTx \in Nat /\ MaxTime \in Nat
  /\ Nobody \notin Process /\ Nobody \notin Payment

VARIABLES
  now,     \* the wall clock and the block clock
  phase,   \* each channel on chain
  txs,     \* each payment's claim transactions, in the order they were sent
  sent,    \* how many of them have been sent
  store,   \* the payment records
  job,     \* what each process is in the middle of
  turn,    \* the call of run_once each worker makes next
  queue    \* the failed payments retry_failed_payments has still to try

chainVars == <<phase, txs, sent>>
loopVars == <<turn, queue>>
vars == <<now, phase, txs, sent, store, job, turn, queue>>

Time == 0 .. MaxTime
TxNumber == 0 .. MaxTx    \* 0 stands for no transaction

\* "pending" is a status no seller code path writes; every reader treats it
\* like "authorized".
Statuses == {"absent", "authorized", "submitted", "settled", "failed", "expired"}

PaymentRecord ==
  [status : Statuses, retryable : BOOLEAN, tx : TxNumber,
   confirmation : {"none", "pending", "confirmed", "failed", "manual"},
   attempts : 0 .. MaxAttempts,
   stage : {"none", "execution", "confirmation"}, startedAt : Time]

Blank ==
  [status |-> "absent", retryable |-> FALSE, tx |-> 0, confirmation |-> "none",
   attempts |-> 0, stage |-> "none", startedAt |-> 0]

Steps == {"idle", "touch", "lockExecution", "execute", "executed",
          "lockConfirmation", "confirm", "operate"}

\* A job keeps a copy of each record it has still to deal with.  "current" and
\* "tx" hold the executor's answer until it is written back.
Job ==
  [step : Steps, todo : SUBSET Payment, copies : [Payment -> PaymentRecord],
   current : Payment \cup {Nobody}, tx : TxNumber]

NoCopies == [p \in Payment |-> Blank]

Idle == [step |-> "idle", todo |-> {}, copies |-> NoCopies,
         current |-> Nobody, tx |-> 0]

\* The job of doing "step" to each record of S.
Begin(step, S, records) ==
  IF S = {} THEN Idle
  ELSE [step |-> step, todo |-> S,
        copies |-> [p \in Payment |-> IF p \in S THEN records[p] ELSE Blank],
        current |-> Nobody, tx |-> 0]

\* What is left of a process's job when p is done.
Rest(x, step, p) == Begin(step, job[x].todo \ {p}, job[x].copies)

Turns == {"unfinished", "execute", "retry", "retrying", "reconcile"}

TxStates == {"none", "mempool", "confirmed", "reverted", "dropped"}

-----------------------------------------------------------------------------

Init ==
  /\ now = 0
  /\ phase = [c \in Channel |-> "open"]
  /\ txs = [p \in Payment |-> [n \in 1 .. MaxTx |-> "none"]]
  /\ sent = [p \in Payment |-> 0]
  /\ store = [p \in Payment |-> Blank]
  /\ job = [x \in Process |-> Idle]
  /\ turn = [w \in Worker |-> "unfinished"]
  /\ queue = [w \in Worker |-> {}]

-----------------------------------------------------------------------------
(* The chain.                                                              *)

\* Without the fault "slow" a process finishes with a record it has locked
\* before the lock expires.
LeasesKept ==
  \A x \in Process :
    job[x].step \in {"execute", "executed", "confirm"} =>
      \A p \in job[x].todo : job[x].copies[p].startedAt + TTL > now + 1

Tick ==
  /\ now < MaxTime
  /\ "slow" \in Faults \/ LeasesKept
  /\ now' = now + 1
  /\ UNCHANGED <<chainVars, store, job, loopVars>>

\* Mutation of Claimable: a claim does not close the channel.
ClaimableAgain(p) ==
  /\ phase[ChannelOf[p]] # "refunded"
  /\ now <= Deadline[p]
  /\ now <= Expiry[ChannelOf[p]]

\* claimPayment succeeds on an open channel up to the voucher's deadline and
\* the channel's expiry, and reverts otherwise.
Claimable(p) ==
  /\ phase[ChannelOf[p]] = "open"
  /\ now <= Deadline[p]
  /\ now <= Expiry[ChannelOf[p]]

Mine(p, n) ==
  /\ txs[p][n] = "mempool"
  /\ txs' = [txs EXCEPT ![p][n] = IF Claimable(p) THEN "confirmed" ELSE "reverted"]
  /\ phase' = [phase EXCEPT ![ChannelOf[p]] = IF Claimable(p) THEN "claimed" ELSE @]
  /\ UNCHANGED <<now, sent, store, job, loopVars>>

DropTransaction(p, n) ==
  /\ "tx_dropped" \in Faults
  /\ txs[p][n] = "mempool"
  /\ txs' = [txs EXCEPT ![p][n] = "dropped"]
  /\ UNCHANGED <<now, phase, sent, store, job, loopVars>>

\* The buyer takes back the deposit of an expired channel.
CloseChannel(c) ==
  /\ phase[c] = "open"
  /\ now >= Expiry[c]
  /\ phase' = [phase EXCEPT ![c] = "refunded"]
  /\ UNCHANGED <<now, txs, sent, store, job, loopVars>>

-----------------------------------------------------------------------------
(* Payment records.                                                        *)

\* Mutation of Locked: the lock expires one unit of time early.
LockedTooShort(record) == record.stage # "none" /\ record.startedAt + TTL > now + 1

\* A lock is advisory and timed.  Its token is a fresh uuid, so no caller ever
\* meets its own token in a record: whether the lock is in the way depends on
\* its age alone.
Locked(record) == record.stage # "none" /\ record.startedAt + TTL > now

WithLock(record, stage) == [record EXCEPT !.stage = stage, !.startedAt = now]

Unlocked(record) == [record EXCEPT !.stage = "none", !.startedAt = 0]

\* claim_for_processing: lock every record of the status that is not locked,
\* and start on the locked copies.
ClaimForProcessing(x, status, stage, step) ==
  LET S == {p \in Payment : store[p].status = status /\ ~Locked(store[p])}
      locked == [p \in Payment |-> IF p \in S THEN WithLock(store[p], stage)
                                   ELSE store[p]]
  IN  /\ store' = locked
      /\ job' = [job EXCEPT ![x] = Begin(step, S, locked)]

CreateIntent(p) ==
  /\ store[p].status = "absent"
  /\ now < Deadline[p]
  /\ store' = [store EXCEPT ![p] = [Blank EXCEPT !.status = "authorized"]]
  /\ UNCHANGED <<now, chainVars, job, loopVars>>

\* record_payment: the seller's own code stores a payment it knows of, either
\* one to settle or one it submitted without keeping the transaction id.
RecordPayment(p) ==
  /\ "record" \in Requests
  /\ store[p].status = "absent"
  /\ \E status \in {"authorized", "submitted"} :
       store' = [store EXCEPT ![p] = [Blank EXCEPT !.status = status]]
  /\ UNCHANGED <<now, chainVars, job, loopVars>>

-----------------------------------------------------------------------------
(* Gateway: _touch_payment on records read earlier.                        *)

Overdue(p, record) ==
  /\ record.status = "authorized"
  /\ Deadline[p] < now \/ Expiry[ChannelOf[p]] < now

Expired(record) == [record EXCEPT !.status = "expired", !.retryable = FALSE]

\* Only authorized copies can be changed by the touch that follows.
ReadForTouch(x, S) ==
  job' = [job EXCEPT ![x] =
            Begin("touch", {p \in S : store[p].status = "authorized"}, store)]

TouchPayment(x, p) ==
  LET record == job[x].copies[p] IN
  /\ job[x].step = "touch"
  /\ p \in job[x].todo
  /\ store' = [store EXCEPT ![p] = IF Overdue(p, record) THEN Expired(record) ELSE @]
  /\ job' = [job EXCEPT ![x] = Rest(x, "touch", p)]
  /\ UNCHANGED <<now, chainVars, loopVars>>

-----------------------------------------------------------------------------
(* Settlement execution.                                                   *)

\* Mutation of Executable: failed payments are not executed again.
ExecutableOnce(record) == record.status = "authorized"

Executable(record) ==
  \/ record.status = "authorized"
  \/ record.status = "failed" /\ record.retryable

\* execute_payment has read an executable record and goes for its lock.
BeginExecutePayment(x, p) ==
  job' = [job EXCEPT ![x] =
            IF Executable(store[p]) THEN Begin("lockExecution", {p}, NoCopies)
            ELSE Idle]

\* The lock is taken whatever the record's status has become since.  When it is
\* refused, the current record is returned to the gateway, which touches it.
LockExecution(x, p) ==
  /\ job[x].step = "lockExecution"
  /\ p \in job[x].todo
  /\ \/ /\ Locked(store[p])
        /\ ReadForTouch(x, {p})
        /\ UNCHANGED store
     \/ /\ ~Locked(store[p])
        /\ store' = [store EXCEPT ![p] = WithLock(@, "execution")]
        /\ job' = [job EXCEPT ![x] = Begin("execute", {p}, store')]
  /\ UNCHANGED <<now, chainVars, loopVars>>

\* _execute_record, first part: a voucher past its deadline is not submitted.
ExecuteTooLate(x, p) ==
  /\ job[x].step = "execute"
  /\ p \in job[x].todo
  /\ Deadline[p] < now
  /\ store' = [store EXCEPT ![p] = Unlocked(Expired(job[x].copies[p]))]
  /\ job' = [job EXCEPT ![x] = Rest(x, "execute", p)]
  /\ UNCHANGED <<now, chainVars, loopVars>>

\* _execute_record: the executor runs.  It may send a claim transaction, and
\* it returns the transaction's id (answer # 0) or raises (answer = 0).
Execute(x, p, isSent, answer) ==
  /\ job[x].step = "execute"
  /\ p \in job[x].todo
  /\ Deadline[p] >= now
  /\ \/ /\ isSent
        /\ sent[p] < MaxTx
        /\ sent' = [sent EXCEPT ![p] = @ + 1]
        /\ txs' = [txs EXCEPT ![p][sent[p] + 1] = "mempool"]
        /\ \/ answer = sent[p] + 1
           \/ answer = 0 /\ "answer_lost" \in Faults
     \/ /\ ~isSent
        /\ "executor_error" \in Faults \/ sent[p] = MaxTx
        /\ answer = 0
        /\ UNCHANGED <<sent, txs>>
  /\ job' = [job EXCEPT ![x] = [@ EXCEPT !.step = "executed", !.current = p,
                                         !.tx = answer]]
  /\ UNCHANGED <<now, phase, store, loopVars>>

\* Mutation of Submitted: the transaction id is not kept.
SubmittedWithoutTx(record, n) ==
  Unlocked([record EXCEPT !.status = "submitted", !.retryable = FALSE])

\* _execute_record, last part: the copy goes back as submitted or failed.
Submitted(record, n) ==
  Unlocked([record EXCEPT !.status = "submitted", !.retryable = FALSE, !.tx = n])

ExecutionFailed(record) ==
  Unlocked([record EXCEPT !.status = "failed", !.retryable = TRUE])

RecordExecution(x, p) ==
  LET record == job[x].copies[p] IN
  /\ job[x].step = "executed"
  /\ job[x].current = p
  /\ store' = [store EXCEPT ![p] = IF job[x].tx # 0 THEN Submitted(record, job[x].tx)
                                   ELSE ExecutionFailed(record)]
  /\ job' = [job EXCEPT ![x] = Rest(x, "execute", p)]
  /\ UNCHANGED <<now, chainVars, loopVars>>

-----------------------------------------------------------------------------
(* Settlement confirmation.                                                *)

\* reconcile_payment has read a submitted record and goes for its lock; any other
\* record is returned to the gateway, which touches it.
BeginReconcilePayment(x, p) ==
  \/ /\ store[p].status = "submitted"
     /\ job' = [job EXCEPT ![x] = Begin("lockConfirmation", {p}, NoCopies)]
  \/ /\ store[p].status # "submitted"
     /\ ReadForTouch(x, {p})

\* Mutation of LockConfirmation: the locked record's status is not checked.
LockConfirmationOfAny(x, p) ==
  /\ job[x].step = "lockConfirmation"
  /\ p \in job[x].todo
  /\ \/ /\ Locked(store[p])
        /\ ReadForTouch(x, {p})
        /\ UNCHANGED store
     \/ /\ ~Locked(store[p])
        /\ store' = [store EXCEPT ![p] = WithLock(@, "confirmation")]
        /\ job' = [job EXCEPT ![x] = Begin("confirm", {p}, store')]
  /\ UNCHANGED <<now, chainVars, loopVars>>

\* A record that is no longer submitted is returned as it is, and the lock just
\* taken stays in it.
LockConfirmation(x, p) ==
  /\ job[x].step = "lockConfirmation"
  /\ p \in job[x].todo
  /\ \/ /\ Locked(store[p])
        /\ ReadForTouch(x, {p})
        /\ UNCHANGED store
     \/ /\ ~Locked(store[p])
        /\ store' = [store EXCEPT ![p] = WithLock(@, "confirmation")]
        /\ job' = [job EXCEPT ![x] =
             IF store[p].status = "submitted" THEN Begin("confirm", {p}, store')
             ELSE Idle]
  /\ UNCHANGED <<now, chainVars, loopVars>>

Attempted(record) ==
  Unlocked([record EXCEPT !.attempts = IF @ < MaxAttempts THEN @ + 1 ELSE @])

\* _reconcile_record, once for each outcome it distinguishes.
ConfirmWith(x, p, record) ==
  /\ job[x].step = "confirm"
  /\ p \in job[x].todo
  /\ store' = [store EXCEPT ![p] = record]
  /\ job' = [job EXCEPT ![x] = Rest(x, "confirm", p)]
  /\ UNCHANGED <<now, chainVars, loopVars>>

\* Mutation of ConfirmFinal: a transaction in a block counts as confirmed.
ConfirmIncluded(x, p) ==
  LET record == job[x].copies[p] IN
  /\ record.tx # 0
  /\ txs[p][record.tx] \in {"confirmed", "reverted"}
  /\ ConfirmWith(x, p, [Attempted(record) EXCEPT
       !.status = "settled", !.retryable = FALSE, !.confirmation = "confirmed"])

\* The chain knows the outcome of the transaction and the node reports it.
ConfirmFinal(x, p) ==
  LET record == job[x].copies[p] IN
  \/ /\ record.tx # 0
     /\ txs[p][record.tx] = "confirmed"
     /\ ConfirmWith(x, p, [Attempted(record) EXCEPT
          !.status = "settled", !.retryable = FALSE, !.confirmation = "confirmed"])
  \/ /\ record.tx # 0
     /\ txs[p][record.tx] = "reverted"
     /\ ConfirmWith(x, p, [Attempted(record) EXCEPT
          !.status = "failed", !.retryable = FALSE, !.confirmation = "failed"])

\* The node does not know the outcome, or not yet.
ConfirmPending(x, p) ==
  LET record == job[x].copies[p] IN
  /\ record.tx # 0
  /\ ConfirmWith(x, p, [Attempted(record) EXCEPT !.confirmation = "pending"])

\* Mutation of ConfirmError: the payment is given back for execution.
ConfirmErrorFails(x, p) ==
  LET record == job[x].copies[p] IN
  /\ "confirm_error" \in Faults
  /\ record.tx # 0
  /\ ConfirmWith(x, p, [Attempted(record) EXCEPT
       !.status = "failed", !.retryable = TRUE, !.confirmation = "failed"])

\* The confirmer raises; the attempt that reaches the limit is the last.
ConfirmError(x, p) ==
  LET record == job[x].copies[p]
      exhausted == Attempted(record).attempts >= MaxAttempts IN
  /\ "confirm_error" \in Faults
  /\ record.tx # 0
  /\ ConfirmWith(x, p, [Attempted(record) EXCEPT
       !.status = IF exhausted THEN "failed" ELSE "submitted",
       !.retryable = ~exhausted, !.confirmation = "failed"])

\* A submitted record without a transaction id cannot be confirmed.
ConfirmWithoutTx(x, p) ==
  LET record == job[x].copies[p] IN
  /\ record.tx = 0
  /\ ConfirmWith(x, p, [Attempted(record) EXCEPT
       !.status = "failed", !.retryable = FALSE, !.confirmation = "failed"])

Confirm(x, p) ==
  \/ ConfirmFinal(x, p)
  \/ ConfirmPending(x, p)
  \/ ConfirmError(x, p)
  \/ ConfirmWithoutTx(x, p)

-----------------------------------------------------------------------------
(* Operator actions: mark_settled, mark_failed and mark_compensated.       *)

\* Mutation of MarkSettled: the confirmation's word is written as the status.
MarkConfirmed(record) ==
  Unlocked([record EXCEPT !.status = "confirmed", !.retryable = FALSE])

MarkSettled(record) ==
  Unlocked([record EXCEPT !.status = "settled", !.retryable = FALSE,
                          !.confirmation = "manual"])

MarkFailed(record) ==
  Unlocked([record EXCEPT !.status = "failed", !.retryable = FALSE])

ApplyOperatorAction(x, p) ==
  LET record == job[x].copies[p] IN
  /\ job[x].step = "operate"
  /\ p \in job[x].todo
  /\ \E marked \in {MarkSettled(record), MarkFailed(record)} :
       store' = [store EXCEPT ![p] = marked]
  /\ job' = [job EXCEPT ![x] = Idle]
  /\ UNCHANGED <<now, chainVars, loopVars>>

-----------------------------------------------------------------------------
(* Requests to the gateway, on existing payments.                          *)

IsIdle(x) == job[x].step = "idle"

GetPayment(h, p) ==
  /\ "get" \in Requests
  /\ IsIdle(h)
  /\ ReadForTouch(h, {p})
  /\ UNCHANGED <<now, chainVars, store, loopVars>>

\* list_pending_payments and recover_payments read once and touch each record.
RecoverPayments(h) ==
  /\ "get" \in Requests
  /\ IsIdle(h)
  /\ ReadForTouch(h, Payment)
  /\ UNCHANGED <<now, chainVars, store, loopVars>>

ExecutePayment(h, p) ==
  /\ "execute" \in Requests
  /\ IsIdle(h)
  /\ BeginExecutePayment(h, p)
  /\ UNCHANGED <<now, chainVars, store, loopVars>>

ExecutePending(h) ==
  /\ "execute" \in Requests
  /\ IsIdle(h)
  /\ ClaimForProcessing(h, "authorized", "execution", "execute")
  /\ UNCHANGED <<now, chainVars, loopVars>>

ReconcilePayment(h, p) ==
  /\ "reconcile" \in Requests
  /\ IsIdle(h)
  /\ BeginReconcilePayment(h, p)
  /\ UNCHANGED <<now, chainVars, store, loopVars>>

ReconcileSubmitted(h) ==
  /\ "reconcile" \in Requests
  /\ IsIdle(h)
  /\ ClaimForProcessing(h, "submitted", "confirmation", "confirm")
  /\ UNCHANGED <<now, chainVars, loopVars>>

ReadForOperator(h, p) ==
  /\ "operator" \in Requests
  /\ IsIdle(h)
  /\ store[p].status # "absent"
  /\ job' = [job EXCEPT ![h] = Begin("operate", {p}, store)]
  /\ UNCHANGED <<now, chainVars, store, loopVars>>

Request(h) ==
  \/ RecoverPayments(h) \/ ExecutePending(h) \/ ReconcileSubmitted(h)
  \/ \E p \in Payment :
       \/ GetPayment(h, p) \/ ExecutePayment(h, p)
       \/ ReconcilePayment(h, p) \/ ReadForOperator(h, p)

-----------------------------------------------------------------------------
(* Recovery workers: run_once, call by call.                               *)

NextTurn(w, from, to) ==
  /\ IsIdle(w)
  /\ turn[w] = from
  /\ turn' = [turn EXCEPT ![w] = to]

ListUnfinished(w) ==
  /\ NextTurn(w, "unfinished", "execute")
  /\ ReadForTouch(w, Payment)
  /\ UNCHANGED <<now, chainVars, store, queue>>

WorkerExecutePending(w) ==
  /\ NextTurn(w, "execute", "retry")
  /\ ClaimForProcessing(w, "authorized", "execution", "execute")
  /\ UNCHANGED <<now, chainVars, queue>>

\* retry_failed_payments lists the failed payments it will try once ...
ListFailed(w) ==
  /\ NextTurn(w, "retry", "retrying")
  /\ queue' = [queue EXCEPT ![w] =
       {p \in Payment : /\ store[p].status = "failed"
                        /\ store[p].retryable
                        /\ store[p].attempts < MaxRetryable}]
  /\ UNCHANGED <<now, chainVars, store, job>>

\* ... and executes them one by one.
RetryFailed(w, p) ==
  /\ IsIdle(w)
  /\ turn[w] = "retrying"
  /\ p \in queue[w]
  /\ queue' = [queue EXCEPT ![w] = @ \ {p}]
  /\ BeginExecutePayment(w, p)
  /\ UNCHANGED <<now, chainVars, store, turn>>

WorkerReconcileSubmitted(w) ==
  /\ queue[w] = {}
  /\ NextTurn(w, "retrying", "unfinished")
  /\ ClaimForProcessing(w, "submitted", "confirmation", "confirm")
  /\ UNCHANGED <<now, chainVars, queue>>

RunOnce(w) ==
  \/ ListUnfinished(w) \/ WorkerExecutePending(w) \/ ListFailed(w)
  \/ \E p \in Payment : RetryFailed(w, p)
  \/ WorkerReconcileSubmitted(w)

-----------------------------------------------------------------------------

\* A process dies; what it held in memory is gone and its locks stay.  Crashes
\* stop while the clock can still outlast a lock: MaxTime ends the model's time,
\* not the system's.
Crash(x) ==
  /\ "crash" \in Faults
  /\ ~IsIdle(x)
  /\ now + TTL <= MaxTime
  /\ job' = [job EXCEPT ![x] = Idle]
  /\ turn' = [w \in Worker |-> IF w = x THEN "unfinished" ELSE turn[w]]
  /\ queue' = [w \in Worker |-> IF w = x THEN {} ELSE queue[w]]
  /\ UNCHANGED <<now, chainVars, store>>

\* The next step of the call a process is in.
Continue(x) ==
  \E p \in Payment :
    \/ TouchPayment(x, p)
    \/ LockExecution(x, p)
    \/ ExecuteTooLate(x, p)
    \/ \E isSent \in BOOLEAN, answer \in TxNumber : Execute(x, p, isSent, answer)
    \/ RecordExecution(x, p)
    \/ LockConfirmation(x, p)
    \/ Confirm(x, p)
    \/ ApplyOperatorAction(x, p)

ChainStep ==
  \/ Tick
  \/ \E p \in Payment, n \in 1 .. MaxTx : Mine(p, n) \/ DropTransaction(p, n)
  \/ \E c \in Channel : CloseChannel(c)

Next ==
  \/ ChainStep
  \/ \E p \in Payment : CreateIntent(p) \/ RecordPayment(p)
  \/ \E h \in Handler : Request(h)
  \/ \E w \in Worker : RunOnce(w)
  \/ \E x \in Process : Continue(x) \/ Crash(x)

Spec == Init /\ [][Next]_vars
-----------------------------------------------------------------------------
(* Fairness.                                                               *)

\* The worker loop and the calls it makes go on, time passes, blocks are made,
\* and a node asked for a final outcome again and again reports it once.
Fairness ==
  /\ WF_vars(Tick)
  /\ \A p \in Payment, n \in 1 .. MaxTx : WF_vars(Mine(p, n))
  /\ \A w \in Worker :
       /\ WF_vars(RunOnce(w) \/ Continue(w))
       /\ \A p \in Payment : SF_vars(ConfirmFinal(w, p))

FairSpec == Spec /\ Fairness

-----------------------------------------------------------------------------
(* Properties.                                                             *)

\* Every variable stays in its set.
TypeOK ==
  /\ now \in Time
  /\ phase \in [Channel -> {"open", "claimed", "refunded"}]
  /\ txs \in [Payment -> [1 .. MaxTx -> TxStates]]
  /\ sent \in [Payment -> TxNumber]
  /\ store \in [Payment -> PaymentRecord]
  /\ job \in [Process -> Job]
  /\ turn \in [Worker -> Turns]
  /\ queue \in [Worker -> SUBSET Payment]

Paid == {p \in Payment : \E n \in 1 .. MaxTx : txs[p][n] = "confirmed"}

SettledByChain(p) ==
  store[p].status = "settled" /\ store[p].confirmation = "confirmed"

\* A record the service settled is backed by the very transaction it names: that
\* transaction claimed the payment's channel.  Whatever the processes do to each
\* other's records, and whatever fails (_reconcile_record).
SettledIsClaimed ==
  \A p \in Payment : SettledByChain(p) =>
    /\ store[p].tx # 0
    /\ txs[p][store[p].tx] = "confirmed"
    /\ phase[ChannelOf[p]] = "claimed"

\* Of the payments that draw on one channel, at most one is ever settled by the
\* service, although all of them are submitted: the first claim closes the
\* channel (claimPayment, _reconcile_record).
ChannelSettlesOnce ==
  \A p, q \in Payment :
    /\ SettledByChain(p) /\ SettledByChain(q)
    /\ ChannelOf[p] = ChannelOf[q]
    => p = q

Holds(x, p) ==
  /\ job[x].step \in {"execute", "executed", "confirm"}
  /\ p \in job[x].todo

\* No deadline has passed that lets _touch_payment write back a copy.
InTime(p) == now <= Deadline[p] /\ now <= Expiry[ChannelOf[p]]

\* The processing locks do their work: until a payment's deadline has passed, two
\* processes never execute or confirm it at the same time, even when one of them
\* died with the lock (acquire_processing_lock, claim_for_processing).
OneProcessPerPayment ==
  \A p \in Payment : InTime(p) =>
    \A x, y \in Process : Holds(x, p) /\ Holds(y, p) => x = y

\* What was settled stays settled until the payment's deadline has passed,
\* whatever copies of it the processes still hold and go on working with
\* (execute_payment, reconcile_payment, _touch_payment).
SettledIsKept ==
  [][\A p \in Payment :
       InTime(p) /\ store[p].status = "settled" => store'[p].status = "settled"]_vars

\* A payment the chain has paid is not written off as finally failed, whichever
\* of several confirmations and retries of it comes last (_reconcile_record,
\* _execute_record).
PaidIsNotFailed ==
  \A p \in Paid : ~(store[p].status = "failed" /\ ~store[p].retryable)

\* What the status flow calls the state of a record.
StateOf(record) ==
  IF record.status = "failed" /\ record.retryable THEN "retryable" ELSE record.status

Lifecycle == INSTANCE PaymentLifecycle WITH
  status <- [p \in Payment |-> StateOf(store[p])], paid <- Paid

\* The records and the chain follow the status flow that the protocol reference
\* documents.
FollowsLifecycle == Lifecycle!Spec

Final(p) ==
  \/ store[p].status \in {"settled", "expired"}
  \/ store[p].status = "failed" /\ ~store[p].retryable

\* The recovery worker brings every authorized payment to a final status,
\* across crashes, failing executors and lost answers (run_once).
EveryPaymentEnds ==
  \A p \in Payment : store[p].status = "authorized" ~> Final(p)

-----------------------------------------------------------------------------
(* Statements of the documents.                                            *)

\* "settled: terminal success state" (spec/PROTOCOL_REFERENCE.md:90).
SettledIsTerminal ==
  [][\A p \in Payment : store[p].status = "settled" => store'[p].status = "settled"]_vars
=============================================================================
