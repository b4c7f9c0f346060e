----------------------- MODULE SettlementServiceProofs -----------------------
(***************************************************************************)
(* Proofs about SettlementService, for any number of payments, channels,   *)
(* workers and handlers.  First what holds whatever requests arrive and    *)
(* whatever faults occur: types, and that settlements are backed by the    *)
(* chain.  Then what the processing locks achieve, while a process         *)
(* finishes with a record before its lock expires and no copy without the  *)
(* lock is written over it.  At last what becomes of payments: a settled   *)
(* payment stays settled, a paid one is not written off, and the records   *)
(* follow the status flow, where the system keeps that.                    *)
(***************************************************************************)
EXTENDS SettlementService, TLAPS

-----------------------------------------------------------------------------
(* The operators that build records and jobs keep their types.             *)

\* Taking and dropping a lock leave the rest of the record alone.
LEMMA LockTypes ==
  ASSUME now \in Time, NEW record \in PaymentRecord
  PROVE  /\ Unlocked(record) \in PaymentRecord
         /\ \A stage \in {"execution", "confirmation"} :
              WithLock(record, stage) \in PaymentRecord
<1>0. 0 \in Time
  BY SettlementAssumption DEF Time
<1>1. [record EXCEPT !.stage = "none", !.startedAt = 0] \in PaymentRecord
  BY <1>0 DEF PaymentRecord
<1>2. ASSUME NEW stage \in {"execution", "confirmation"}
      PROVE  [record EXCEPT !.stage = stage, !.startedAt = now] \in PaymentRecord
  BY DEF PaymentRecord
<1> QED
  BY <1>1, <1>2 DEF Unlocked, WithLock

\* Every way the code rewrites a record gives a record.
LEMMA RecordTypes ==
  ASSUME now \in Time, NEW record \in PaymentRecord
  PROVE  /\ Expired(record) \in PaymentRecord
         /\ Unlocked(Expired(record)) \in PaymentRecord
         /\ \A n \in TxNumber : Submitted(record, n) \in PaymentRecord
         /\ ExecutionFailed(record) \in PaymentRecord
         /\ Attempted(record) \in PaymentRecord
         /\ MarkSettled(record) \in PaymentRecord
         /\ MarkFailed(record) \in PaymentRecord
<1>2. Expired(record) \in PaymentRecord
  BY DEF PaymentRecord, Expired, Statuses
<1>3. \A n \in TxNumber :
        [record EXCEPT !.status = "submitted", !.retryable = FALSE, !.tx = n]
          \in PaymentRecord
  BY DEF PaymentRecord, Statuses
<1>4. [record EXCEPT !.status = "failed", !.retryable = TRUE] \in PaymentRecord
  BY DEF PaymentRecord, Statuses
<1>5. [record EXCEPT !.status = "settled", !.retryable = FALSE,
                     !.confirmation = "manual"] \in PaymentRecord
  BY DEF PaymentRecord, Statuses
<1>6. [record EXCEPT !.status = "failed", !.retryable = FALSE] \in PaymentRecord
  BY DEF PaymentRecord, Statuses
<1>7. [record EXCEPT !.attempts = IF @ < MaxAttempts THEN @ + 1 ELSE @]
        \in PaymentRecord
  BY SettlementAssumption DEF PaymentRecord
<1>8. Unlocked(Expired(record)) \in PaymentRecord
  BY <1>2, LockTypes
<1>9. \A n \in TxNumber : Submitted(record, n) \in PaymentRecord
  BY <1>3, LockTypes DEF Submitted
<1>10. ExecutionFailed(record) \in PaymentRecord
  BY <1>4, LockTypes DEF ExecutionFailed
<1>11. Attempted(record) \in PaymentRecord
  BY <1>7, LockTypes DEF Attempted
<1>12. MarkSettled(record) \in PaymentRecord
  BY <1>5, LockTypes DEF MarkSettled
<1>13. MarkFailed(record) \in PaymentRecord
  BY <1>6, LockTypes DEF MarkFailed
<1> QED
  BY <1>2, <1>8, <1>9, <1>10, <1>11, <1>12, <1>13

LEMMA BlankType == Blank \in PaymentRecord
BY SettlementAssumption DEF Blank, PaymentRecord, Statuses, Time, TxNumber

LEMMA IdleType == Idle \in Job
BY BlankType, SettlementAssumption DEF Idle, Job, NoCopies, Steps, TxNumber

LEMMA BeginType ==
  ASSUME NEW step \in Steps, NEW S \in SUBSET Payment,
         NEW records \in [Payment -> PaymentRecord]
  PROVE  /\ Begin(step, S, records) \in Job
         /\ Begin(step, S, records).step \in {step, "idle"}
         /\ Begin(step, S, records).step = step =>
              \/ step = "idle"
              \/ /\ Begin(step, S, records).todo = S
                 /\ \A p \in S : Begin(step, S, records).copies[p] = records[p]
BY IdleType, BlankType, SettlementAssumption
DEF Begin, Job, Idle, TxNumber

\* What is known of a job and of its copies, and of what is left of the job.
LEMMA JobFacts ==
  ASSUME TypeOK, NEW x \in Process
  PROVE  /\ job[x] \in Job
         /\ job[x].todo \in SUBSET Payment
         /\ \A p \in Payment : job[x].copies[p] \in PaymentRecord
         /\ job[x].tx \in TxNumber
BY DEF TypeOK, Job

LEMMA RestType ==
  ASSUME TypeOK, NEW x \in Process, NEW p \in Payment, NEW step \in Steps
  PROVE  /\ Rest(x, step, p) \in Job
         /\ Rest(x, step, p).step \in {step, "idle"}
         /\ Rest(x, step, p).step = step =>
              \/ step = "idle"
              \/ /\ Rest(x, step, p).todo = job[x].todo \ {p}
                 /\ \A q \in job[x].todo \ {p} :
                      Rest(x, step, p).copies[q] = job[x].copies[q]
<1>1. job[x].todo \ {p} \in SUBSET Payment
  BY JobFacts
<1>2. job[x].copies \in [Payment -> PaymentRecord]
  BY DEF TypeOK, Job
<1> QED
  BY <1>1, <1>2, BeginType DEF Rest

-----------------------------------------------------------------------------
(* The inductive invariant.                                                *)

\* A transaction number that has not been used stands for nothing; a confirmed
\* transaction has claimed its channel, and it is the only one that has.
ClaimsMatchChannels ==
  /\ \A p \in Payment, n \in 1 .. MaxTx : n > sent[p] => txs[p][n] = "none"
  /\ \A p \in Payment, n \in 1 .. MaxTx :
       txs[p][n] = "confirmed" => phase[ChannelOf[p]] = "claimed"
  /\ \A p, q \in Payment, m, n \in 1 .. MaxTx :
       /\ txs[p][m] = "confirmed" /\ txs[q][n] = "confirmed"
       /\ ChannelOf[p] = ChannelOf[q]
       => p = q

\* A process confirms only copies that are submitted.
ConfirmsSubmitted ==
  \A x \in Process :
    job[x].step = "confirm" =>
      \A p \in job[x].todo : job[x].copies[p].status = "submitted"

IInv ==
  /\ TypeOK
  /\ SettledIsClaimed
  /\ ClaimsMatchChannels
  /\ ConfirmsSubmitted

\* Nothing becomes settled by the chain, and what is keeps its transaction.
NothingSettles ==
  \A p \in Payment :
    SettledByChain(p)' => SettledByChain(p) /\ store'[p].tx = store[p].tx

\* One process moves on to the job j.
LEMMA JobStep ==
  ASSUME TypeOK, ConfirmsSubmitted, NEW x \in Process, NEW j \in Job,
         job' = [job EXCEPT ![x] = j],
         j.step = "confirm" => \A p \in j.todo : j.copies[p].status = "submitted"
  PROVE  job' \in [Process -> Job] /\ ConfirmsSubmitted'
BY DEF TypeOK, ConfirmsSubmitted

\* The same after one record of a list has been dealt with.
LEMMA RestStep ==
  ASSUME TypeOK, ConfirmsSubmitted, NEW x \in Process, NEW p \in Payment,
         NEW step \in {"touch", "execute", "confirm"},
         job[x].step = "confirm" \/ step # "confirm",
         job' = [job EXCEPT ![x] = Rest(x, step, p)]
  PROVE  job' \in [Process -> Job] /\ ConfirmsSubmitted'
<1>1. step \in Steps
  BY DEF Steps
<1>2. /\ Rest(x, step, p) \in Job
      /\ Rest(x, step, p).step = "confirm" =>
           \A q \in Rest(x, step, p).todo :
             Rest(x, step, p).copies[q].status = "submitted"
  BY <1>1, RestType DEF ConfirmsSubmitted
<1> QED
  BY <1>2, JobStep

\* The record of p is replaced by one the service has not settled.
LEMMA WriteStep ==
  ASSUME TypeOK, NEW p \in Payment, NEW record \in PaymentRecord,
         store' = [store EXCEPT ![p] = record],
         \/ record.status # "settled"
         \/ record.confirmation # "confirmed"
         \/ /\ record.status = store[p].status
            /\ record.confirmation = store[p].confirmation
            /\ record.tx = store[p].tx
  PROVE  store' \in [Payment -> PaymentRecord] /\ NothingSettles
BY DEF TypeOK, NothingSettles, SettledByChain

\* With the chain at rest, such steps keep the invariant.
LEMMA QuietStep ==
  ASSUME IInv, TypeOK', NothingSettles, ConfirmsSubmitted', UNCHANGED chainVars
  PROVE  IInv'
BY DEF IInv, NothingSettles, SettledIsClaimed, SettledByChain, ClaimsMatchChannels,
       chainVars

-----------------------------------------------------------------------------
(* What each part of an action does to records and jobs.                   *)

\* Reading records into a job, for any step but the confirmation.
LEMMA ReadStep ==
  ASSUME TypeOK, ConfirmsSubmitted, NEW x \in Process,
         NEW step \in Steps \ {"confirm"}, NEW S \in SUBSET Payment,
         NEW records \in [Payment -> PaymentRecord],
         job' = [job EXCEPT ![x] = Begin(step, S, records)]
  PROVE  job' \in [Process -> Job] /\ ConfirmsSubmitted'
<1>1. step \in Steps
  OBVIOUS
<1>2. /\ Begin(step, S, records) \in Job
      /\ Begin(step, S, records).step # "confirm"
  BY <1>1, BeginType
<1> QED
  BY <1>2, JobStep

LEMMA IdleStep ==
  ASSUME TypeOK, ConfirmsSubmitted, NEW x \in Process,
         job' = [job EXCEPT ![x] = Idle]
  PROVE  job' \in [Process -> Job] /\ ConfirmsSubmitted'
BY IdleType, JobStep DEF Idle

LEMMA ReadForTouchStep ==
  ASSUME TypeOK, ConfirmsSubmitted, NEW x \in Process, NEW S \in SUBSET Payment,
         ReadForTouch(x, S)
  PROVE  job' \in [Process -> Job] /\ ConfirmsSubmitted'
<1>1. "touch" \in Steps \ {"confirm"}
  BY DEF Steps
<1>2. {p \in S : store[p].status = "authorized"} \in SUBSET Payment
  OBVIOUS
<1>3. store \in [Payment -> PaymentRecord]
  BY DEF TypeOK
<1> QED
  BY <1>1, <1>2, <1>3, ReadStep DEF ReadForTouch

LEMMA NoCopiesType == NoCopies \in [Payment -> PaymentRecord]
BY BlankType DEF NoCopies

LEMMA BeginExecuteStep ==
  ASSUME TypeOK, ConfirmsSubmitted, NEW x \in Process, NEW p \in Payment,
         BeginExecutePayment(x, p)
  PROVE  job' \in [Process -> Job] /\ ConfirmsSubmitted'
<1>1. "lockExecution" \in Steps \ {"confirm"}
  BY DEF Steps
<1>2. CASE Executable(store[p])
  BY <1>1, <1>2, NoCopiesType, ReadStep DEF BeginExecutePayment
<1>3. CASE ~Executable(store[p])
  BY <1>3, IdleStep DEF BeginExecutePayment
<1> QED
  BY <1>2, <1>3

LEMMA BeginReconcileStep ==
  ASSUME TypeOK, ConfirmsSubmitted, NEW x \in Process, NEW p \in Payment,
         BeginReconcilePayment(x, p)
  PROVE  job' \in [Process -> Job] /\ ConfirmsSubmitted'
<1>1. "lockConfirmation" \in Steps \ {"confirm"}
  BY DEF Steps
<1>2. CASE store[p].status = "submitted"
  BY <1>1, <1>2, NoCopiesType, ReadStep DEF BeginReconcilePayment
<1>3. CASE store[p].status # "submitted"
  BY <1>3, ReadForTouchStep DEF BeginReconcilePayment
<1> QED
  BY <1>2, <1>3

\* Locking a batch changes no status, and the confirmation locks only submitted
\* records.
LEMMA ClaimForProcessingStep ==
  ASSUME TypeOK, ConfirmsSubmitted, NEW x \in Process,
         NEW status \in {"authorized", "submitted"},
         NEW stage \in {"execution", "confirmation"},
         NEW step \in {"execute", "confirm"},
         step = "confirm" => status = "submitted",
         ClaimForProcessing(x, status, stage, step)
  PROVE  /\ store' \in [Payment -> PaymentRecord]
         /\ job' \in [Process -> Job]
         /\ NothingSettles
         /\ ConfirmsSubmitted'
<1> DEFINE S == {p \in Payment : store[p].status = status /\ ~Locked(store[p])}
           locked == [p \in Payment |-> IF p \in S THEN WithLock(store[p], stage)
                                        ELSE store[p]]
<1>1. store' = locked /\ job' = [job EXCEPT ![x] = Begin(step, S, locked)]
  BY DEF ClaimForProcessing
<1>2. S \in SUBSET Payment
  OBVIOUS
<1>3. \A p \in Payment : store[p] \in PaymentRecord /\ now \in Time
  BY DEF TypeOK
<1>4. \A p \in Payment : locked[p] \in PaymentRecord
  BY <1>3, LockTypes
<1>5. locked \in [Payment -> PaymentRecord]
  BY <1>4
<1>6. \A p \in Payment : /\ WithLock(store[p], stage).status = store[p].status
                         /\ WithLock(store[p], stage).confirmation = store[p].confirmation
                         /\ WithLock(store[p], stage).tx = store[p].tx
  BY <1>3 DEF WithLock, PaymentRecord
<1>7. \A p \in Payment : /\ locked[p].status = store[p].status
                         /\ locked[p].confirmation = store[p].confirmation
                         /\ locked[p].tx = store[p].tx
  BY <1>6
<1>8. \A p \in S : locked[p].status = status
  BY <1>2, <1>7
<1>9. step \in Steps
  BY DEF Steps
<1> HIDE DEF S, locked
<1>10. /\ Begin(step, S, locked) \in Job
       /\ Begin(step, S, locked).step = "confirm" =>
            \A p \in Begin(step, S, locked).todo :
              Begin(step, S, locked).copies[p].status = "submitted"
  BY <1>2, <1>5, <1>8, <1>9, BeginType
<1>11. job' \in [Process -> Job] /\ ConfirmsSubmitted'
  BY <1>1, <1>10, JobStep
<1>12. NothingSettles
  BY <1>1, <1>7 DEF NothingSettles, SettledByChain
<1> QED
  BY <1>1, <1>5, <1>11, <1>12

-----------------------------------------------------------------------------
(* The steps that touch neither the chain nor a settlement.                *)

\* What an action without effect on the chain has to show.
LEMMA FrameStep ==
  ASSUME IInv, UNCHANGED <<now, chainVars>>,
         store' \in [Payment -> PaymentRecord], job' \in [Process -> Job],
         turn' \in [Worker -> Turns], queue' \in [Worker -> SUBSET Payment],
         NothingSettles, ConfirmsSubmitted'
  PROVE  IInv'
<1>1. TypeOK'
  BY DEF IInv, TypeOK, chainVars
<1> QED
  BY <1>1, QuietStep

\* An action that leaves the records alone settles nothing.
LEMMA SameStore ==
  ASSUME TypeOK, UNCHANGED store
  PROVE  store' \in [Payment -> PaymentRecord] /\ NothingSettles
BY DEF TypeOK, NothingSettles, SettledByChain

\* A payment enters the store.
LEMMA EntryStep ==
  ASSUME IInv, NEW p \in Payment, CreateIntent(p) \/ RecordPayment(p)
  PROVE  IInv'
<1>1. PICK status \in {"authorized", "submitted"} :
        store' = [store EXCEPT ![p] = [Blank EXCEPT !.status = status]]
  BY DEF CreateIntent, RecordPayment
<1>2. /\ [Blank EXCEPT !.status = status] \in PaymentRecord
      /\ [Blank EXCEPT !.status = status].status # "settled"
  BY BlankType DEF PaymentRecord, Statuses
<1>3. store' \in [Payment -> PaymentRecord] /\ NothingSettles
  BY <1>1, <1>2, WriteStep DEF IInv
<1>4. UNCHANGED <<now, chainVars, job, loopVars>>
  BY DEF CreateIntent, RecordPayment
<1>5. /\ job' \in [Process -> Job] /\ turn' \in [Worker -> Turns]
      /\ queue' \in [Worker -> SUBSET Payment] /\ ConfirmsSubmitted'
  BY <1>4 DEF IInv, TypeOK, ConfirmsSubmitted, loopVars
<1> QED
  BY <1>3, <1>4, <1>5, FrameStep

\* A process deals with the record of p and goes on with its list.
LEMMA WriteAndGoOn ==
  ASSUME IInv, NEW x \in Process, NEW p \in Payment,
         NEW record \in PaymentRecord,
         NEW step \in {"touch", "execute", "confirm"},
         job[x].step = "confirm" \/ step # "confirm",
         record.status # "settled",
         store' = [store EXCEPT ![p] = record] \/ UNCHANGED store,
         job' = [job EXCEPT ![x] = Rest(x, step, p)],
         UNCHANGED <<now, chainVars, loopVars>>
  PROVE  IInv'
<1>1. store' \in [Payment -> PaymentRecord] /\ NothingSettles
  BY WriteStep, SameStore DEF IInv
<1>2. job' \in [Process -> Job] /\ ConfirmsSubmitted'
  BY RestStep DEF IInv
<1> QED
  BY <1>1, <1>2, FrameStep DEF IInv, TypeOK, loopVars

LEMMA TouchStep ==
  ASSUME IInv, NEW x \in Process, NEW p \in Payment, TouchPayment(x, p)
  PROVE  IInv'
<1> DEFINE record == Expired(job[x].copies[p])
<1>1. job[x].copies[p] \in PaymentRecord /\ now \in Time
  BY JobFacts DEF IInv, TypeOK
<1>2. record \in PaymentRecord /\ record.status # "settled"
  BY <1>1, RecordTypes DEF Expired, PaymentRecord
<1>3. store' = [store EXCEPT ![p] = record] \/ UNCHANGED store
  BY DEF TouchPayment, IInv, TypeOK
<1> QED
  BY <1>2, <1>3, WriteAndGoOn DEF TouchPayment

LEMMA ExecuteTooLateStep ==
  ASSUME IInv, NEW x \in Process, NEW p \in Payment, ExecuteTooLate(x, p)
  PROVE  IInv'
<1> DEFINE record == Unlocked(Expired(job[x].copies[p]))
<1>1. job[x].copies[p] \in PaymentRecord /\ now \in Time
  BY JobFacts DEF IInv, TypeOK
<1>2. record \in PaymentRecord
  BY <1>1, RecordTypes
<1>3. record.status # "settled"
  BY <1>1 DEF Expired, Unlocked, PaymentRecord
<1> QED
  BY <1>2, <1>3, WriteAndGoOn DEF ExecuteTooLate

LEMMA RecordExecutionStep ==
  ASSUME IInv, NEW x \in Process, NEW p \in Payment, RecordExecution(x, p)
  PROVE  IInv'
<1> DEFINE copy == job[x].copies[p]
           record == IF job[x].tx # 0 THEN Submitted(copy, job[x].tx)
                     ELSE ExecutionFailed(copy)
<1>1. copy \in PaymentRecord /\ job[x].tx \in TxNumber /\ now \in Time
  BY JobFacts DEF IInv, TypeOK
<1>2. /\ Submitted(copy, job[x].tx) \in PaymentRecord
      /\ ExecutionFailed(copy) \in PaymentRecord
  BY <1>1, RecordTypes
<1>3. /\ Submitted(copy, job[x].tx).status = "submitted"
      /\ ExecutionFailed(copy).status = "failed"
  BY <1>1 DEF Submitted, ExecutionFailed, Unlocked, PaymentRecord
<1>4. record \in PaymentRecord /\ record.status # "settled"
  BY <1>2, <1>3
<1> QED
  BY <1>4, WriteAndGoOn DEF RecordExecution

\* Locking one record: its status, confirmation and transaction stay.
LEMMA LockOne ==
  ASSUME TypeOK, NEW p \in Payment, NEW stage \in {"execution", "confirmation"},
         store' = [store EXCEPT ![p] = WithLock(@, stage)]
  PROVE  /\ store' \in [Payment -> PaymentRecord]
         /\ NothingSettles
         /\ store'[p].status = store[p].status
<1> DEFINE record == WithLock(store[p], stage)
<1>1. store[p] \in PaymentRecord /\ now \in Time
  BY DEF TypeOK
<1>2. record \in PaymentRecord
  BY <1>1, LockTypes
<1>3. /\ record.status = store[p].status
      /\ record.confirmation = store[p].confirmation
      /\ record.tx = store[p].tx
  BY <1>1 DEF WithLock, PaymentRecord
<1>4. store' = [store EXCEPT ![p] = record]
  OBVIOUS
<1>5. store'[p] = record
  BY <1>4 DEF TypeOK
<1> HIDE DEF record
<1> QED
  BY <1>2, <1>3, <1>4, <1>5, WriteStep

LEMMA LockExecutionStep ==
  ASSUME IInv, NEW x \in Process, NEW p \in Payment, LockExecution(x, p)
  PROVE  IInv'
<1>0. TypeOK /\ ConfirmsSubmitted /\ {p} \in SUBSET Payment
  BY DEF IInv
<1>1. CASE ReadForTouch(x, {p}) /\ UNCHANGED store
  BY <1>0, <1>1, ReadForTouchStep, SameStore, FrameStep
  DEF LockExecution, TypeOK, loopVars
<1>2. CASE /\ store' = [store EXCEPT ![p] = WithLock(@, "execution")]
           /\ job' = [job EXCEPT ![x] = Begin("execute", {p}, store')]
  <2>1. store' \in [Payment -> PaymentRecord] /\ NothingSettles
    BY <1>0, <1>2, LockOne
  <2>2. "execute" \in Steps \ {"confirm"}
    BY DEF Steps
  <2>3. job' \in [Process -> Job] /\ ConfirmsSubmitted'
    BY <1>0, <1>2, <2>1, <2>2, ReadStep
  <2> QED
    BY <1>0, <2>1, <2>3, FrameStep DEF LockExecution, TypeOK, loopVars
<1> QED
  BY <1>1, <1>2 DEF LockExecution

LEMMA BeginConfirm ==
  ASSUME NEW p \in Payment, NEW records \in [Payment -> PaymentRecord],
         records[p].status = "submitted"
  PROVE  /\ Begin("confirm", {p}, records) \in Job
         /\ Begin("confirm", {p}, records).step = "confirm" =>
              \A q \in Begin("confirm", {p}, records).todo :
                Begin("confirm", {p}, records).copies[q].status = "submitted"
<1> DEFINE begun == Begin("confirm", {p}, records)
<1>1. "confirm" \in Steps /\ {p} \in SUBSET Payment
  BY DEF Steps
<1>2. begun \in Job
  BY <1>1, BeginType
<1>3. begun = [step |-> "confirm", todo |-> {p},
               copies |-> [q \in Payment |-> IF q \in {p} THEN records[q] ELSE Blank],
               current |-> Nobody, tx |-> 0]
  BY DEF Begin
<1>4. \A q \in begun.todo : begun.copies[q].status = "submitted"
  BY <1>3
<1> QED
  BY <1>2, <1>4

LEMMA LockConfirmationStep ==
  ASSUME IInv, NEW x \in Process, NEW p \in Payment, LockConfirmation(x, p)
  PROVE  IInv'
<1>0. TypeOK /\ ConfirmsSubmitted /\ {p} \in SUBSET Payment
  BY DEF IInv
<1>1. CASE ReadForTouch(x, {p}) /\ UNCHANGED store
  BY <1>0, <1>1, ReadForTouchStep, SameStore, FrameStep
  DEF LockConfirmation, TypeOK, loopVars
<1>2. CASE /\ store' = [store EXCEPT ![p] = WithLock(@, "confirmation")]
           /\ job' = [job EXCEPT ![x] =
                IF store[p].status = "submitted" THEN Begin("confirm", {p}, store')
                ELSE Idle]
  <2>1. /\ store' \in [Payment -> PaymentRecord]
        /\ NothingSettles
        /\ store'[p].status = store[p].status
    BY <1>0, <1>2, LockOne
  <2>3. CASE store[p].status = "submitted"
    <3>1. /\ Begin("confirm", {p}, store') \in Job
          /\ Begin("confirm", {p}, store').step = "confirm" =>
               \A q \in Begin("confirm", {p}, store').todo :
                 Begin("confirm", {p}, store').copies[q].status = "submitted"
      BY <2>1, <2>3, BeginConfirm
    <3> QED
      BY <1>0, <1>2, <2>1, <2>3, <3>1, JobStep, FrameStep
      DEF LockConfirmation, TypeOK, loopVars
  <2>4. CASE store[p].status # "submitted"
    BY <1>0, <1>2, <2>1, <2>4, IdleStep, FrameStep
    DEF LockConfirmation, TypeOK, loopVars
  <2> QED
    BY <2>3, <2>4
<1> QED
  BY <1>1, <1>2 DEF LockConfirmation

\* The copy a process confirms, and what an attempt leaves of it.
LEMMA ConfirmedCopy ==
  ASSUME IInv, NEW x \in Process, NEW p \in Payment,
         job[x].step = "confirm", p \in job[x].todo
  PROVE  /\ Attempted(job[x].copies[p]) \in PaymentRecord
         /\ Attempted(job[x].copies[p]).status = "submitted"
         /\ Attempted(job[x].copies[p]).tx = job[x].copies[p].tx
<1>1. /\ job[x].copies[p] \in PaymentRecord /\ now \in Time
      /\ job[x].copies[p].status = "submitted"
  BY JobFacts DEF IInv, TypeOK, ConfirmsSubmitted
<1>2. Attempted(job[x].copies[p]) \in PaymentRecord
  BY <1>1, RecordTypes
<1>3. /\ Attempted(job[x].copies[p]).status = "submitted"
      /\ Attempted(job[x].copies[p]).tx = job[x].copies[p].tx
  BY <1>1 DEF Attempted, Unlocked, PaymentRecord
<1> QED
  BY <1>2, <1>3

\* A confirmation that does not settle.
LEMMA UnsettledConfirm ==
  ASSUME IInv, NEW x \in Process, NEW p \in Payment,
         NEW status \in {"submitted", "failed"}, NEW retryable \in BOOLEAN,
         NEW confirmation \in {"pending", "failed"},
         ConfirmWith(x, p, [Attempted(job[x].copies[p]) EXCEPT
           !.status = status, !.retryable = retryable,
           !.confirmation = confirmation])
  PROVE  IInv'
<1> DEFINE attempted == Attempted(job[x].copies[p])
           record == [attempted EXCEPT !.status = status, !.retryable = retryable,
                                       !.confirmation = confirmation]
<1>1. job[x].step = "confirm" /\ p \in job[x].todo
  BY DEF ConfirmWith
<1>2. record \in PaymentRecord /\ record.status # "settled"
  <2>1. attempted \in PaymentRecord
    BY <1>1, ConfirmedCopy
  <2>2. status \in {"submitted", "settled", "failed"} /\ status # "settled"
    OBVIOUS
  <2>3. confirmation \in {"confirmed", "pending", "failed"}
    OBVIOUS
  <2> HIDE DEF attempted
  <2>4. record \in PaymentRecord /\ record.status = status
    BY <2>1, <2>2, <2>3 DEF PaymentRecord, Statuses
  <2> QED
    BY <2>2, <2>4
<1>3. /\ store' = [store EXCEPT ![p] = record]
      /\ job' = [job EXCEPT ![x] = Rest(x, "confirm", p)]
      /\ UNCHANGED <<now, chainVars, loopVars>>
  BY DEF ConfirmWith
<1> HIDE DEF record
<1> QED
  BY <1>1, <1>2, <1>3, WriteAndGoOn

\* A confirmation that settles: the copy's transaction is confirmed, so it has
\* claimed the channel.
LEMMA SettlingConfirm ==
  ASSUME IInv, NEW x \in Process, NEW p \in Payment,
         job[x].copies[p].tx # 0,
         txs[p][job[x].copies[p].tx] = "confirmed",
         ConfirmWith(x, p, [Attempted(job[x].copies[p]) EXCEPT
           !.status = "settled", !.retryable = FALSE, !.confirmation = "confirmed"])
  PROVE  IInv'
<1> DEFINE copy == job[x].copies[p]
           attempted == Attempted(copy)
           record == [attempted EXCEPT !.status = "settled", !.retryable = FALSE,
                                       !.confirmation = "confirmed"]
<1>1. job[x].step = "confirm" /\ p \in job[x].todo
  BY DEF ConfirmWith
<1>2. record \in PaymentRecord /\ record.tx = copy.tx
  <2>1. attempted \in PaymentRecord /\ attempted.tx = copy.tx
    BY <1>1, ConfirmedCopy
  <2> HIDE DEF attempted
  <2> QED
    BY <2>1 DEF PaymentRecord, Statuses
<1>3. /\ store' = [store EXCEPT ![p] = record]
      /\ job' = [job EXCEPT ![x] = Rest(x, "confirm", p)]
      /\ UNCHANGED <<now, chainVars, loopVars>>
  BY DEF ConfirmWith
<1>4. copy.tx \in 1 .. MaxTx
  <2>1. copy \in PaymentRecord /\ copy.tx # 0
    BY JobFacts DEF IInv
  <2>2. copy.tx \in 0 .. MaxTx
    BY <2>1 DEF PaymentRecord, TxNumber
  <2> QED
    BY <2>1, <2>2, SettlementAssumption
<1>5. txs[p][copy.tx] = "confirmed" /\ phase[ChannelOf[p]] = "claimed"
  BY <1>4 DEF IInv, ClaimsMatchChannels
<1>6. store' \in [Payment -> PaymentRecord]
  BY <1>2, <1>3 DEF IInv, TypeOK
<1>7. job' \in [Process -> Job] /\ ConfirmsSubmitted'
  BY <1>1, <1>3, RestStep DEF IInv
<1>8. TypeOK'
  BY <1>3, <1>6, <1>7 DEF IInv, TypeOK, chainVars, loopVars
<1>9. ClaimsMatchChannels'
  BY <1>3 DEF IInv, ClaimsMatchChannels, chainVars
<1>10. SettledIsClaimed'
  <2> SUFFICES ASSUME NEW q \in Payment, SettledByChain(q)'
               PROVE  /\ store'[q].tx # 0
                      /\ txs'[q][store'[q].tx] = "confirmed"
                      /\ phase'[ChannelOf[q]] = "claimed"
    BY DEF SettledIsClaimed
  <2>1. CASE q = p
    <3>1. store'[p].tx = copy.tx
      BY <1>2, <1>3 DEF IInv, TypeOK
    <3>2. txs' = txs /\ phase' = phase
      BY <1>3 DEF chainVars
    <3> QED
      BY <2>1, <3>1, <3>2, <1>5
  <2>2. CASE q # p
    <3>1. store'[q] = store[q]
      BY <1>3, <2>2 DEF IInv, TypeOK
    <3> QED
      BY <3>1, <1>3 DEF IInv, SettledIsClaimed, SettledByChain, chainVars
  <2> QED
    BY <2>1, <2>2
<1> QED
  BY <1>7, <1>8, <1>9, <1>10 DEF IInv

LEMMA ConfirmStep ==
  ASSUME IInv, NEW x \in Process, NEW p \in Payment, Confirm(x, p)
  PROVE  IInv'
<1> DEFINE copy == job[x].copies[p]
           exhausted == Attempted(copy).attempts >= MaxAttempts
<1>1. CASE ConfirmFinal(x, p)
  <2>1. CASE /\ copy.tx # 0
             /\ txs[p][copy.tx] = "confirmed"
             /\ ConfirmWith(x, p, [Attempted(copy) EXCEPT
                  !.status = "settled", !.retryable = FALSE, !.confirmation = "confirmed"])
    BY <2>1, SettlingConfirm
  <2>2. CASE ConfirmWith(x, p, [Attempted(copy) EXCEPT
                  !.status = "failed", !.retryable = FALSE, !.confirmation = "failed"])
    BY <2>2, UnsettledConfirm
  <2> QED
    BY <1>1, <2>1, <2>2 DEF ConfirmFinal
<1>2. CASE ConfirmPending(x, p)
  <2> DEFINE attempted == Attempted(copy)
             record == [attempted EXCEPT !.confirmation = "pending"]
  <2>1. /\ job[x].step = "confirm" /\ p \in job[x].todo
        /\ store' = [store EXCEPT ![p] = record]
        /\ job' = [job EXCEPT ![x] = Rest(x, "confirm", p)]
        /\ UNCHANGED <<now, chainVars, loopVars>>
    BY <1>2 DEF ConfirmPending, ConfirmWith
  <2>2. attempted \in PaymentRecord /\ attempted.status = "submitted"
    BY <2>1, ConfirmedCopy
  <2> HIDE DEF attempted
  <2>3. record \in PaymentRecord /\ record.status # "settled"
    BY <2>2 DEF PaymentRecord
  <2> HIDE DEF record
  <2> QED
    BY <2>1, <2>3, WriteAndGoOn
<1>3. CASE ConfirmError(x, p)
  <2>1. CASE exhausted
    <3>1. ConfirmWith(x, p, [Attempted(copy) EXCEPT
                  !.status = "failed", !.retryable = FALSE, !.confirmation = "failed"])
      BY <1>3, <2>1 DEF ConfirmError
    <3> QED
      BY <3>1, UnsettledConfirm
  <2>2. CASE ~exhausted
    <3>1. ConfirmWith(x, p, [Attempted(copy) EXCEPT
                  !.status = "submitted", !.retryable = TRUE, !.confirmation = "failed"])
      BY <1>3, <2>2 DEF ConfirmError
    <3> QED
      BY <3>1, UnsettledConfirm
  <2> QED
    BY <2>1, <2>2
<1>4. CASE ConfirmWithoutTx(x, p)
  BY <1>4, UnsettledConfirm DEF ConfirmWithoutTx
<1> QED
  BY <1>1, <1>2, <1>3, <1>4 DEF Confirm

\* An operator's settlement is marked "manual", never "confirmed".
LEMMA OperatorStep ==
  ASSUME IInv, NEW x \in Process, NEW p \in Payment, ApplyOperatorAction(x, p)
  PROVE  IInv'
<1> DEFINE copy == job[x].copies[p]
<1>1. copy \in PaymentRecord /\ now \in Time
  BY JobFacts DEF IInv, TypeOK
<1>2. PICK record \in {MarkSettled(copy), MarkFailed(copy)} :
        store' = [store EXCEPT ![p] = record]
  BY DEF ApplyOperatorAction
<1>3. MarkSettled(copy) \in PaymentRecord /\ MarkFailed(copy) \in PaymentRecord
  BY <1>1, RecordTypes
<1>4. MarkSettled(copy).confirmation = "manual" /\ MarkFailed(copy).status = "failed"
  BY <1>1 DEF MarkSettled, MarkFailed, Unlocked, PaymentRecord
<1>5. /\ record \in PaymentRecord
      /\ record.status # "settled" \/ record.confirmation # "confirmed"
  BY <1>2, <1>3, <1>4
<1>6. store' \in [Payment -> PaymentRecord] /\ NothingSettles
  BY <1>2, <1>5, WriteStep DEF IInv
<1>7. job' \in [Process -> Job] /\ ConfirmsSubmitted'
  BY IdleStep DEF ApplyOperatorAction, IInv
<1> QED
  BY <1>6, <1>7, FrameStep DEF ApplyOperatorAction, IInv, TypeOK, loopVars

\* Requests begin by reading records or by locking a batch of them.
LEMMA RequestStep ==
  ASSUME IInv, NEW h \in Handler, Request(h)
  PROVE  IInv'
<1>0. /\ TypeOK /\ ConfirmsSubmitted /\ h \in Process
      /\ Payment \in SUBSET Payment /\ store \in [Payment -> PaymentRecord]
  BY DEF IInv, Process, TypeOK
<1>1. CASE RecoverPayments(h)
  BY <1>0, <1>1, ReadForTouchStep, SameStore, FrameStep
  DEF RecoverPayments, TypeOK, loopVars
<1>2. CASE ExecutePending(h)
  BY <1>0, <1>2, ClaimForProcessingStep, FrameStep
  DEF ExecutePending, TypeOK, loopVars
<1>3. CASE ReconcileSubmitted(h)
  BY <1>0, <1>3, ClaimForProcessingStep, FrameStep
  DEF ReconcileSubmitted, TypeOK, loopVars
<1>4. ASSUME NEW p \in Payment, GetPayment(h, p)
      PROVE  IInv'
  <2>1. {p} \in SUBSET Payment
    OBVIOUS
  <2> QED
    BY <1>0, <1>4, <2>1, ReadForTouchStep, SameStore, FrameStep
    DEF GetPayment, TypeOK, loopVars
<1>5. ASSUME NEW p \in Payment, ExecutePayment(h, p)
      PROVE  IInv'
  BY <1>0, <1>5, BeginExecuteStep, SameStore, FrameStep
  DEF ExecutePayment, TypeOK, loopVars
<1>6. ASSUME NEW p \in Payment, ReconcilePayment(h, p)
      PROVE  IInv'
  BY <1>0, <1>6, BeginReconcileStep, SameStore, FrameStep
  DEF ReconcilePayment, TypeOK, loopVars
<1>7. ASSUME NEW p \in Payment, ReadForOperator(h, p)
      PROVE  IInv'
  <2>1. {p} \in SUBSET Payment /\ "operate" \in Steps \ {"confirm"}
    BY DEF Steps
  <2>2. job' \in [Process -> Job] /\ ConfirmsSubmitted'
    BY <1>0, <1>7, <2>1, ReadStep DEF ReadForOperator
  <2> QED
    BY <1>0, <1>7, <2>2, SameStore, FrameStep DEF ReadForOperator, TypeOK, loopVars
<1> QED
  BY <1>1, <1>2, <1>3, <1>4, <1>5, <1>6, <1>7 DEF Request

\* A worker begins the next call of run_once.
LEMMA RunOnceStep ==
  ASSUME IInv, NEW w \in Worker, RunOnce(w)
  PROVE  IInv'
<1>0. /\ TypeOK /\ ConfirmsSubmitted /\ w \in Process
      /\ Payment \in SUBSET Payment /\ store \in [Payment -> PaymentRecord]
  BY DEF IInv, Process, TypeOK
<1>1. CASE ListUnfinished(w)
  BY <1>0, <1>1, ReadForTouchStep, SameStore, FrameStep
  DEF ListUnfinished, NextTurn, TypeOK, Turns
<1>2. CASE WorkerExecutePending(w)
  BY <1>0, <1>2, ClaimForProcessingStep, FrameStep
  DEF WorkerExecutePending, NextTurn, TypeOK, Turns
<1>3. CASE ListFailed(w)
  <2>1. job' \in [Process -> Job] /\ ConfirmsSubmitted'
    BY <1>0, <1>3 DEF ListFailed, TypeOK, ConfirmsSubmitted
  <2>2. turn' \in [Worker -> Turns] /\ queue' \in [Worker -> SUBSET Payment]
    BY <1>0, <1>3 DEF ListFailed, NextTurn, TypeOK, Turns
  <2> QED
    BY <1>0, <1>3, <2>1, <2>2, SameStore, FrameStep DEF ListFailed
<1>4. ASSUME NEW p \in Payment, RetryFailed(w, p)
      PROVE  IInv'
  <2>1. turn' \in [Worker -> Turns] /\ queue' \in [Worker -> SUBSET Payment]
    BY <1>0, <1>4 DEF RetryFailed, TypeOK
  <2> QED
    BY <1>0, <1>4, <2>1, BeginExecuteStep, SameStore, FrameStep DEF RetryFailed
<1>5. CASE WorkerReconcileSubmitted(w)
  BY <1>0, <1>5, ClaimForProcessingStep, FrameStep
  DEF WorkerReconcileSubmitted, NextTurn, TypeOK, Turns
<1> QED
  BY <1>1, <1>2, <1>3, <1>4, <1>5 DEF RunOnce

LEMMA CrashStep ==
  ASSUME IInv, NEW x \in Process, Crash(x)
  PROVE  IInv'
<1>1. job' \in [Process -> Job] /\ ConfirmsSubmitted'
  BY IdleStep DEF Crash, IInv
<1>2. turn' \in [Worker -> Turns] /\ queue' \in [Worker -> SUBSET Payment]
  BY DEF Crash, IInv, TypeOK, Turns
<1> QED
  BY <1>1, <1>2, SameStore, FrameStep DEF Crash, IInv

-----------------------------------------------------------------------------
(* The steps of the chain and of the executor.                             *)

LEMMA ExecuteStep ==
  ASSUME IInv, NEW x \in Process, NEW p \in Payment, NEW isSent \in BOOLEAN,
         NEW answer \in TxNumber, Execute(x, p, isSent, answer)
  PROVE  IInv'
<1> DEFINE j == [job[x] EXCEPT !.step = "executed", !.current = p, !.tx = answer]
<1>1. j \in Job /\ j.step # "confirm"
  BY JobFacts DEF IInv, Job, Steps
<1>2. job' = [job EXCEPT ![x] = j] /\ UNCHANGED <<now, phase, store, loopVars>>
  BY DEF Execute
<1> HIDE DEF j
<1>3. job' \in [Process -> Job] /\ ConfirmsSubmitted'
  BY <1>1, <1>2, JobStep DEF IInv
<1>5. CASE UNCHANGED <<sent, txs>>
  <2>1. TypeOK'
    BY <1>2, <1>3, <1>5 DEF IInv, TypeOK, loopVars
  <2>2. NothingSettles /\ UNCHANGED chainVars
    BY <1>2, <1>5, SameStore DEF IInv, chainVars
  <2> QED
    BY <1>3, <2>1, <2>2, QuietStep
<1>6. CASE /\ sent[p] < MaxTx
           /\ sent' = [sent EXCEPT ![p] = @ + 1]
           /\ txs' = [txs EXCEPT ![p][sent[p] + 1] = "mempool"]
  <2> DEFINE n == sent[p] + 1
  <2>1. sent[p] \in 0 .. MaxTx /\ MaxTx \in Nat
    BY SettlementAssumption DEF IInv, TypeOK, TxNumber
  <2>2. n \in 1 .. MaxTx
    BY <1>6, <2>1
  <2>3. txs' = [txs EXCEPT ![p] = [txs[p] EXCEPT ![n] = "mempool"]]
    BY <1>6
  <2>4. /\ sent' \in [Payment -> TxNumber]
        /\ sent'[p] = n
        /\ \A q \in Payment \ {p} : sent'[q] = sent[q]
    BY <1>6, <2>1, <2>2 DEF IInv, TypeOK, TxNumber
  <2>5. /\ txs' \in [Payment -> [1 .. MaxTx -> TxStates]]
        /\ \A q \in Payment, m \in 1 .. MaxTx :
             txs'[q][m] = IF q = p /\ m = n THEN "mempool" ELSE txs[q][m]
    BY <2>2, <2>3 DEF IInv, TypeOK, TxStates
  <2>6. txs[p][n] = "none"
    BY <2>1, <2>2 DEF IInv, ClaimsMatchChannels
  <2> HIDE DEF n
  <2>7. TypeOK'
    BY <1>2, <1>3, <2>4, <2>5 DEF IInv, TypeOK, loopVars
  <2>8. ClaimsMatchChannels'
    <3>1. ASSUME NEW q \in Payment, NEW m \in 1 .. MaxTx, m > sent'[q]
          PROVE  txs'[q][m] = "none"
      BY <2>1, <2>4, <2>5, <3>1 DEF IInv, ClaimsMatchChannels, n
    <3>2. \A q \in Payment, m \in 1 .. MaxTx :
            txs'[q][m] = "confirmed" => txs[q][m] = "confirmed"
      BY <2>5
    <3>3. phase' = phase
      BY <1>2
    <3> QED
      BY <3>1, <3>2, <3>3 DEF IInv, ClaimsMatchChannels
  <2>9. SettledIsClaimed'
    <3>1. \A q \in Payment, m \in 1 .. MaxTx :
            txs[q][m] = "confirmed" => txs'[q][m] = "confirmed"
      BY <2>5, <2>6
    <3>2. \A q \in Payment : store[q].tx # 0 => store[q].tx \in 1 .. MaxTx
      BY SettlementAssumption DEF IInv, TypeOK, PaymentRecord, TxNumber
    <3> QED
      BY <1>2, <3>1, <3>2 DEF IInv, SettledIsClaimed, SettledByChain
  <2> QED
    BY <1>3, <2>7, <2>8, <2>9 DEF IInv
<1> QED
  BY <1>5, <1>6 DEF Execute

LEMMA TickStep ==
  ASSUME IInv, Tick
  PROVE  IInv'
<1>1. now' \in Time
  BY SettlementAssumption DEF Tick, IInv, TypeOK, Time
<1>2. TypeOK'
  BY <1>1 DEF Tick, IInv, TypeOK, chainVars, loopVars
<1>3. NothingSettles /\ ConfirmsSubmitted' /\ UNCHANGED chainVars
  BY SameStore DEF Tick, IInv, ConfirmsSubmitted
<1> QED
  BY <1>2, <1>3, QuietStep

\* A step that changes only the chain, and leaves confirmed transactions and
\* claimed channels as they are.
LEMMA ChainFrame ==
  ASSUME IInv, UNCHANGED <<now, sent, store, job, loopVars>>,
         txs' \in [Payment -> [1 .. MaxTx -> TxStates]],
         phase' \in [Channel -> {"open", "claimed", "refunded"}],
         \A p \in Payment, n \in 1 .. MaxTx :
           txs[p][n] = "confirmed" => txs'[p][n] = "confirmed",
         \A c \in Channel : phase[c] = "claimed" => phase'[c] = "claimed",
         ClaimsMatchChannels'
  PROVE  IInv'
<1>1. TypeOK'
  BY DEF IInv, TypeOK, loopVars
<1>2. ConfirmsSubmitted'
  BY DEF IInv, ConfirmsSubmitted
<1>3. \A p \in Payment : store[p].tx # 0 => store[p].tx \in 1 .. MaxTx
  BY SettlementAssumption DEF IInv, TypeOK, PaymentRecord, TxNumber
<1>4. SettledIsClaimed'
  BY <1>3, SettlementAssumption DEF IInv, SettledIsClaimed, SettledByChain
<1> QED
  BY <1>1, <1>2, <1>4 DEF IInv

LEMMA MineStep ==
  ASSUME IInv, NEW p \in Payment, NEW n \in 1 .. MaxTx, Mine(p, n)
  PROVE  IInv'
<1> DEFINE outcome == IF Claimable(p) THEN "confirmed" ELSE "reverted"
           c == ChannelOf[p]
           next == IF Claimable(p) THEN "claimed" ELSE phase[c]
<1>1. /\ txs[p][n] = "mempool"
      /\ txs' = [txs EXCEPT ![p] = [txs[p] EXCEPT ![n] = outcome]]
      /\ phase' = [phase EXCEPT ![c] = next]
      /\ UNCHANGED <<now, sent, store, job, loopVars>>
  BY DEF Mine
<1>2. c \in Channel
  BY SettlementAssumption
<1>3. /\ outcome \in {"confirmed", "reverted"}
      /\ outcome = "confirmed" => phase[c] = "open" /\ next = "claimed"
      /\ outcome = "reverted" => next = phase[c]
      /\ phase[c] = "claimed" => next = "claimed"
      /\ next \in {"open", "claimed", "refunded"}
  BY <1>2 DEF Claimable, IInv, TypeOK
<1> HIDE DEF outcome, c, next
<1>4. /\ txs' \in [Payment -> [1 .. MaxTx -> TxStates]]
      /\ \A q \in Payment, m \in 1 .. MaxTx :
           txs'[q][m] = IF q = p /\ m = n THEN outcome ELSE txs[q][m]
  BY <1>1, <1>3 DEF IInv, TypeOK, TxStates
<1>5. /\ phase' \in [Channel -> {"open", "claimed", "refunded"}]
      /\ \A d \in Channel : phase'[d] = IF d = c THEN next ELSE phase[d]
  BY <1>1, <1>2, <1>3 DEF IInv, TypeOK
<1>6. \A q \in Payment, m \in 1 .. MaxTx :
        txs[q][m] = "confirmed" => txs'[q][m] = "confirmed"
  BY <1>1, <1>4
<1>7. \A d \in Channel : phase[d] = "claimed" => phase'[d] = "claimed"
  BY <1>3, <1>5
<1>8. \A q \in Payment : ChannelOf[q] \in Channel
  BY SettlementAssumption
<1>9. ClaimsMatchChannels'
  <2>1. ASSUME NEW q \in Payment, NEW m \in 1 .. MaxTx, m > sent'[q]
        PROVE  txs'[q][m] = "none"
    <3>1. sent' = sent
      BY <1>1
    <3>2. txs[q][m] = "none"
      BY <2>1, <3>1 DEF IInv, ClaimsMatchChannels
    <3> QED
      BY <1>1, <1>4, <3>2
  <2>2. ASSUME NEW q \in Payment, NEW m \in 1 .. MaxTx, txs'[q][m] = "confirmed"
        PROVE  phase'[ChannelOf[q]] = "claimed"
    <3>1. CASE q = p /\ m = n
      BY <1>2, <1>3, <1>4, <1>5, <2>2, <3>1 DEF c
    <3>2. CASE ~(q = p /\ m = n)
      BY <1>4, <1>7, <1>8, <2>2, <3>2 DEF IInv, ClaimsMatchChannels
    <3> QED
      BY <3>1, <3>2
  <2>3. ASSUME NEW q \in Payment, NEW r \in Payment,
               NEW m \in 1 .. MaxTx, NEW k \in 1 .. MaxTx,
               txs'[q][m] = "confirmed", txs'[r][k] = "confirmed",
               ChannelOf[q] = ChannelOf[r]
        PROVE  q = r
    <3>1. CASE q = p \/ r = p
      <4>1. ASSUME NEW s \in Payment, NEW i \in 1 .. MaxTx, s # p,
                   txs'[s][i] = "confirmed", ChannelOf[s] = c,
                   NEW j \in 1 .. MaxTx, txs'[p][j] = "confirmed"
            PROVE  FALSE
        <5>1. txs[s][i] = "confirmed"
          BY <1>4, <4>1
        <5>2. phase[c] = "claimed"
          BY <4>1, <5>1 DEF IInv, ClaimsMatchChannels
        <5>3. txs[p][j] = "confirmed"
          BY <1>3, <1>4, <4>1, <5>2
        <5> QED
          BY <4>1, <5>1, <5>3 DEF IInv, ClaimsMatchChannels, c
      <4> QED
        BY <2>3, <3>1, <4>1 DEF c
    <3>2. CASE q # p /\ r # p
      BY <1>4, <2>3, <3>2 DEF IInv, ClaimsMatchChannels
    <3> QED
      BY <3>1, <3>2
  <2> QED
    BY <2>1, <2>2, <2>3 DEF ClaimsMatchChannels
<1> QED
  BY <1>1, <1>4, <1>5, <1>6, <1>7, <1>9, ChainFrame

LEMMA DropStep ==
  ASSUME IInv, NEW p \in Payment, NEW n \in 1 .. MaxTx, DropTransaction(p, n)
  PROVE  IInv'
<1>1. /\ txs[p][n] = "mempool"
      /\ txs' = [txs EXCEPT ![p] = [txs[p] EXCEPT ![n] = "dropped"]]
      /\ UNCHANGED <<now, phase, sent, store, job, loopVars>>
  BY DEF DropTransaction
<1>2. /\ txs' \in [Payment -> [1 .. MaxTx -> TxStates]]
      /\ \A q \in Payment, m \in 1 .. MaxTx :
           txs'[q][m] = IF q = p /\ m = n THEN "dropped" ELSE txs[q][m]
  BY <1>1 DEF IInv, TypeOK, TxStates
<1>3. ClaimsMatchChannels'
  <2>1. ASSUME NEW q \in Payment, NEW m \in 1 .. MaxTx, m > sent'[q]
        PROVE  txs'[q][m] = "none"
    <3>1. sent' = sent
      BY <1>1
    <3>2. txs[q][m] = "none"
      BY <2>1, <3>1 DEF IInv, ClaimsMatchChannels
    <3> QED
      BY <1>1, <1>2, <3>2
  <2>2. \A q \in Payment, m \in 1 .. MaxTx :
          txs'[q][m] = "confirmed" => txs[q][m] = "confirmed"
    BY <1>2
  <2> QED
    BY <1>1, <2>1, <2>2 DEF IInv, ClaimsMatchChannels
<1>4. \A q \in Payment, m \in 1 .. MaxTx :
        txs[q][m] = "confirmed" => txs'[q][m] = "confirmed"
  BY <1>1, <1>2
<1>5. phase' = phase /\ phase' \in [Channel -> {"open", "claimed", "refunded"}]
  BY <1>1 DEF IInv, TypeOK
<1> QED
  BY <1>1, <1>2, <1>3, <1>4, <1>5, ChainFrame

LEMMA CloseStep ==
  ASSUME IInv, NEW c \in Channel, CloseChannel(c)
  PROVE  IInv'
<1>1. /\ phase[c] = "open"
      /\ phase' = [phase EXCEPT ![c] = "refunded"]
      /\ UNCHANGED <<now, txs, sent, store, job, loopVars>>
  BY DEF CloseChannel
<1>2. /\ phase' \in [Channel -> {"open", "claimed", "refunded"}]
      /\ \A d \in Channel : phase[d] = "claimed" => phase'[d] = "claimed"
  BY <1>1 DEF IInv, TypeOK
<1>3. txs' \in [Payment -> [1 .. MaxTx -> TxStates]]
  BY <1>1 DEF IInv, TypeOK
<1>4. \A q \in Payment : ChannelOf[q] \in Channel
  BY SettlementAssumption
<1>5. ClaimsMatchChannels'
  BY <1>1, <1>2, <1>4 DEF IInv, ClaimsMatchChannels
<1> QED
  BY <1>1, <1>2, <1>3, <1>5, ChainFrame

-----------------------------------------------------------------------------
(* The theorems.                                                           *)

LEMMA InitIInv == Init => IInv
<1> SUFFICES ASSUME Init PROVE IInv
  OBVIOUS
<1>1. /\ now \in Time /\ 0 \in TxNumber
  BY SettlementAssumption DEF Init, Time, TxNumber
<1>2. TypeOK
  BY <1>1, BlankType, IdleType DEF Init, TypeOK, TxStates, Turns
<1>3. SettledIsClaimed
  BY DEF Init, SettledIsClaimed, SettledByChain, Blank
<1>4. ClaimsMatchChannels
  BY DEF Init, ClaimsMatchChannels
<1>5. ConfirmsSubmitted
  BY DEF Init, ConfirmsSubmitted, Idle
<1> QED
  BY <1>2, <1>3, <1>4, <1>5 DEF IInv

LEMMA NextStep == IInv /\ [Next]_vars => IInv'
<1> SUFFICES ASSUME IInv, [Next]_vars PROVE IInv'
  OBVIOUS
<1>1. CASE ChainStep
  BY <1>1, TickStep, MineStep, DropStep, CloseStep DEF ChainStep
<1>2. ASSUME NEW p \in Payment, CreateIntent(p) \/ RecordPayment(p) PROVE IInv'
  BY <1>2, EntryStep
<1>3. ASSUME NEW h \in Handler, Request(h) PROVE IInv'
  BY <1>3, RequestStep
<1>4. ASSUME NEW w \in Worker, RunOnce(w) PROVE IInv'
  BY <1>4, RunOnceStep
<1>5. ASSUME NEW x \in Process, Continue(x) PROVE IInv'
  <2> PICK p \in Payment :
        \/ TouchPayment(x, p)
        \/ LockExecution(x, p)
        \/ ExecuteTooLate(x, p)
        \/ \E isSent \in BOOLEAN, answer \in TxNumber : Execute(x, p, isSent, answer)
        \/ RecordExecution(x, p)
        \/ LockConfirmation(x, p)
        \/ Confirm(x, p)
        \/ ApplyOperatorAction(x, p)
    BY <1>5 DEF Continue
  <2> QED
    BY TouchStep, LockExecutionStep, ExecuteTooLateStep, ExecuteStep,
       RecordExecutionStep, LockConfirmationStep, ConfirmStep, OperatorStep
<1>6. ASSUME NEW x \in Process, Crash(x) PROVE IInv'
  BY <1>6, CrashStep
<1>7. CASE UNCHANGED vars
  <2>1. TypeOK'
    BY <1>7 DEF IInv, TypeOK, vars, chainVars, loopVars
  <2>2. NothingSettles /\ ConfirmsSubmitted' /\ UNCHANGED chainVars
    BY <1>7, SameStore DEF IInv, ConfirmsSubmitted, vars, chainVars
  <2> QED
    BY <2>1, <2>2, QuietStep
<1> QED
  BY <1>1, <1>2, <1>3, <1>4, <1>5, <1>6, <1>7 DEF Next

LEMMA Invariance == Spec => []IInv
BY InitIInv, NextStep, PTL DEF Spec

\* Records, jobs, transactions and the workers' positions stay in their sets,
\* whatever the processes do to each other.
THEOREM TypeCorrect == Spec => []TypeOK
<1>1. IInv => TypeOK
  BY DEF IInv
<1> QED
  BY <1>1, Invariance, PTL

\* A payment the service settled was paid on chain by the transaction it names,
\* under any interleaving, expired locks, crashes and lost answers included
\* (_reconcile_record).
THEOREM SettlementIsBacked == Spec => []SettledIsClaimed
<1>1. IInv => SettledIsClaimed
  BY DEF IInv
<1> QED
  BY <1>1, Invariance, PTL

\* Of the payments that share a channel the service settles at most one
\* (claimPayment, _reconcile_record).
THEOREM OneSettlementPerChannel == Spec => []ChannelSettlesOnce
<1>1. IInv => ChannelSettlesOnce
  <2> SUFFICES ASSUME IInv, NEW p \in Payment, NEW q \in Payment,
                      SettledByChain(p), SettledByChain(q),
                      ChannelOf[p] = ChannelOf[q]
               PROVE  p = q
    BY DEF ChannelSettlesOnce
  <2>1. \A r \in Payment : store[r].tx # 0 => store[r].tx \in 1 .. MaxTx
    BY SettlementAssumption DEF IInv, TypeOK, PaymentRecord, TxNumber
  <2>2. /\ store[p].tx \in 1 .. MaxTx /\ txs[p][store[p].tx] = "confirmed"
        /\ store[q].tx \in 1 .. MaxTx /\ txs[q][store[q].tx] = "confirmed"
    BY <2>1 DEF IInv, SettledIsClaimed
  <2> QED
    BY <2>2 DEF IInv, ClaimsMatchChannels
<1> QED
  BY <1>1, Invariance, PTL

-----------------------------------------------------------------------------
(* The processing locks.                                                   *)

\* When the locks can do their work.  A lock lasts, and nobody holds it for longer;
\* operators, who write back copies that know nothing of it, keep away.  So does
\* _touch_payment, but only until the payment's deadline.
LocksHold == TTL > 0 /\ "slow" \notin Faults /\ "operator" \notin Requests

-----------------------------------------------------------------------------
(* The invariant of the locks.                                             *)

\* Until its deadline, a record that is worked on is the copy its holder has, the
\* holder's lock in it, and the lock has not expired.
LocksInPlace ==
  \A x \in Process, p \in Payment : Holds(x, p) /\ InTime(p) =>
    /\ store[p] = job[x].copies[p]
    /\ store[p].status # "absent" /\ store[p].stage # "none"
    /\ store[p].startedAt + TTL > now

\* Locks are asked for on records that exist, an executor's answer belongs to a
\* record in hand, and nobody waits to override a record.
JobOK(j, records) ==
  /\ j.step # "operate"
  /\ j.step \in {"lockExecution", "lockConfirmation"} =>
       \A p \in j.todo : InTime(p) => records[p].status # "absent"
  /\ j.step = "executed" => j.current \in j.todo

LInv ==
  /\ TypeOK
  /\ LocksInPlace
  /\ \A x \in Process : JobOK(job[x], store)
  /\ OneProcessPerPayment

\* Records in time stay, and the locks that others than the processes of S hold.
RecordsStay(S) ==
  \A p \in Payment : InTime(p) =>
    /\ store[p].status # "absent" => store'[p].status # "absent"
    /\ \A y \in Process \ S : Holds(y, p) => store'[p] = store[p]

-----------------------------------------------------------------------------
(* What keeps the locks in place.                                          *)

\* Nothing is done about jobs.
LEMMA NoJobKeeps ==
  ASSUME LInv, TypeOK', job' = job, now' = now, RecordsStay({})
  PROVE  LInv'
<1>0. \A p \in Payment : InTime(p)' <=> InTime(p)
  BY DEF InTime
<1>1. \A x \in Process, p \in Payment : Holds(x, p)' <=> Holds(x, p)
  BY DEF Holds
<1>2. LocksInPlace'
  BY <1>0, <1>1 DEF LInv, LocksInPlace, RecordsStay
<1>3. ASSUME NEW x \in Process PROVE JobOK(job[x], store)'
  <2>1. job[x].todo \subseteq Payment
    BY JobFacts DEF LInv
  <2> QED
    BY <1>0, <2>1 DEF LInv, JobOK, RecordsStay
<1>4. OneProcessPerPayment'
  BY <1>0, <1>1 DEF LInv, OneProcessPerPayment
<1> QED
  BY <1>2, <1>3, <1>4 DEF LInv

\* What x has in hand after a step it had before, or nobody had.
Owns(x, p) ==
  /\ store'[p] = job'[x].copies[p]
  /\ store'[p].status # "absent" /\ store'[p].stage # "none"
  /\ store'[p].startedAt + TTL > now
  /\ Holds(x, p) \/ \A y \in Process : ~Holds(y, p)

LEMMA JobKeeps ==
  ASSUME LInv, TypeOK', now' = now, NEW x \in Process, NEW j,
         job' = [job EXCEPT ![x] = j], RecordsStay({x}), JobOK(j, store'),
         \A p \in Payment : Holds(x, p)' /\ InTime(p) => Owns(x, p)
  PROVE  LInv'
<1>0. job'[x] = j /\ \A y \in Process \ {x} : job'[y] = job[y]
  BY DEF LInv, TypeOK
<1>8. \A p \in Payment : InTime(p)' <=> InTime(p)
  BY DEF InTime
<1>1. \A y \in Process \ {x}, p \in Payment : Holds(y, p)' <=> Holds(y, p)
  BY <1>0 DEF Holds
<1>2. ASSUME NEW y \in Process, NEW p \in Payment, Holds(y, p)', InTime(p)
      PROVE  /\ store'[p] = job'[y].copies[p]
             /\ store'[p].status # "absent" /\ store'[p].stage # "none"
             /\ store'[p].startedAt + TTL > now'
  <2>1. CASE y = x
    BY <1>2, <2>1 DEF Owns
  <2>2. CASE y # x
    <3>1. Holds(y, p) /\ store'[p] = store[p] /\ job'[y] = job[y]
      BY <1>0, <1>1, <1>2, <2>2 DEF RecordsStay
    <3> QED
      BY <1>2, <3>1 DEF LInv, LocksInPlace
  <2> QED
    BY <2>1, <2>2
<1>3. LocksInPlace'
  BY <1>2, <1>8 DEF LocksInPlace
<1>4. ASSUME NEW y \in Process PROVE JobOK(job'[y], store')
  <2>1. CASE y = x
    BY <1>0, <2>1
  <2>2. CASE y # x
    <3>1. job[y].todo \subseteq Payment
      BY JobFacts DEF LInv
    <3> QED
      BY <1>0, <2>2, <3>1 DEF LInv, JobOK, RecordsStay
  <2> QED
    BY <2>1, <2>2
<1>5. ASSUME NEW y \in Process, NEW z \in Process, NEW p \in Payment,
             Holds(y, p)', Holds(z, p)', InTime(p)
      PROVE  y = z
  <2>1. Holds(x, p)' => \A w \in Process : Holds(w, p) => w = x
    BY <1>5 DEF Owns, LInv, OneProcessPerPayment
  <2> QED
    BY <1>1, <1>5, <2>1 DEF LInv, OneProcessPerPayment
<1>6. OneProcessPerPayment'
  BY <1>5, <1>8 DEF OneProcessPerPayment
<1>7. (\A y \in Process : JobOK(job[y], store))'
  <2>1. \A y \in Process : job'[y].todo \subseteq Payment
    BY DEF TypeOK, Job
  <2> QED
    BY <1>4, <1>8, <2>1 DEF JobOK
<1> QED
  BY <1>3, <1>6, <1>7 DEF LInv

\* The new job of "step" over S.
LEMMA BeginFacts ==
  ASSUME NEW step, NEW S, S \subseteq Payment, NEW records
  PROVE  LET j == Begin(step, S, records) IN
         /\ j.step \in {step, "idle"} /\ j.todo = S /\ j.current = Nobody
         /\ \A p \in S : j.copies[p] = records[p]
BY DEF Begin, Idle

\* A job that holds nothing keeps everything that the records allow.
LEMMA QuietStays == store' = store => RecordsStay({})
BY DEF RecordsStay

LEMMA EmptyHandsKeep ==
  ASSUME LInv, TypeOK', now' = now, NEW x \in Process, NEW j,
         job' = [job EXCEPT ![x] = j], RecordsStay({}),
         j.step \in {"idle", "touch", "lockExecution", "lockConfirmation"},
         j.step \in {"lockExecution", "lockConfirmation"} =>
           \A p \in j.todo : InTime(p) => store'[p].status # "absent"
  PROVE  LInv'
<1>1. job'[x] = j
  BY DEF LInv, TypeOK
<1>2. RecordsStay({x}) /\ JobOK(j, store')
  BY DEF RecordsStay, JobOK
<1>3. \A p \in Payment : ~Holds(x, p)'
  BY <1>1 DEF Holds
<1> QED
  BY <1>2, <1>3, JobKeeps

LEMMA ReadKeeps ==
  ASSUME LInv, TypeOK', now' = now, store' = store, NEW x \in Process,
         NEW S \in SUBSET Payment, ReadForTouch(x, S)
  PROVE  LInv'
<1> DEFINE T == {p \in S : store[p].status = "authorized"}
<1>1. Begin("touch", T, store).step \in {"touch", "idle"}
  BY BeginFacts
<1>2. job' = [job EXCEPT ![x] = Begin("touch", T, store)]
  BY DEF ReadForTouch
<1> QED
  BY <1>1, <1>2, QuietStays, EmptyHandsKeep

LEMMA BeginExecuteKeeps ==
  ASSUME LInv, TypeOK', now' = now, store' = store, NEW x \in Process,
         NEW p \in Payment, BeginExecutePayment(x, p)
  PROVE  LInv'
<1>1. CASE Executable(store[p])
  <2> DEFINE j == Begin("lockExecution", {p}, NoCopies)
  <2>0. {p} # {}
    OBVIOUS
  <2>1. j.step \in {"lockExecution", "idle"} /\ j.todo = {p}
    BY <2>0 DEF Begin, Idle
  <2>2. job' = [job EXCEPT ![x] = j] /\ store[p].status # "absent"
    BY <1>1 DEF BeginExecutePayment, Executable
  <2> QED
    BY <2>1, <2>2, QuietStays, EmptyHandsKeep
<1>2. CASE ~Executable(store[p])
  <2>1. job' = [job EXCEPT ![x] = Idle] /\ Idle.step = "idle"
    BY <1>2 DEF BeginExecutePayment, Idle
  <2> QED
    BY <2>1, QuietStays, EmptyHandsKeep
<1> QED
  BY <1>1, <1>2

LEMMA BeginReconcileKeeps ==
  ASSUME LInv, TypeOK', now' = now, store' = store, NEW x \in Process,
         NEW p \in Payment, BeginReconcilePayment(x, p)
  PROVE  LInv'
<1>1. CASE store[p].status = "submitted"
  <2> DEFINE j == Begin("lockConfirmation", {p}, NoCopies)
  <2>0. {p} # {}
    OBVIOUS
  <2>1. j.step \in {"lockConfirmation", "idle"} /\ j.todo = {p}
    BY <2>0 DEF Begin, Idle
  <2>2. job' = [job EXCEPT ![x] = j]
    BY <1>1 DEF BeginReconcilePayment
  <2> QED
    BY <1>1, <2>1, <2>2, QuietStays, EmptyHandsKeep
<1>2. CASE store[p].status # "submitted"
  BY <1>2, ReadKeeps DEF BeginReconcilePayment
<1> QED
  BY <1>1, <1>2

-----------------------------------------------------------------------------
(* Taking locks.                                                           *)

\* Nobody works on a record whose lock is not in the way.
LEMMA UnlockedIsFree ==
  ASSUME LInv, NEW p \in Payment, InTime(p), ~Locked(store[p]), NEW y \in Process
  PROVE  ~Holds(y, p)
BY DEF LInv, LocksInPlace, Locked

\* Locks are taken on free records, and with the copies work begins, or not.
LEMMA TakeKeeps ==
  ASSUME LInv, TypeOK', now' = now, TTL > 0, NEW x \in Process, NEW S \in SUBSET Payment,
         NEW stage \in {"execution", "confirmation"}, NEW step \in {"execute", "confirm"},
         \A p \in S : ~Locked(store[p]) /\ (InTime(p) => store[p].status # "absent"),
         store' = [p \in Payment |-> IF p \in S THEN WithLock(store[p], stage) ELSE store[p]],
         NEW j, j = Begin(step, S, store') \/ j = Idle,
         job' = [job EXCEPT ![x] = j]
  PROVE  LInv'
<1>1. job'[x] = j
  BY DEF LInv, TypeOK
<1>2. ASSUME NEW p \in S
      PROVE  /\ store'[p].status = store[p].status /\ store'[p].stage = stage
             /\ store'[p].startedAt = now
  <2>1. store[p] \in PaymentRecord
    BY DEF LInv, TypeOK
  <2>2. /\ WithLock(store[p], stage).status = store[p].status
        /\ WithLock(store[p], stage).stage = stage
        /\ WithLock(store[p], stage).startedAt = now
    BY <2>1 DEF WithLock, PaymentRecord
  <2> QED
    BY <2>2
<1>3. \A p \in Payment \ S : store'[p] = store[p]
  OBVIOUS
<1>4. \A p \in S, y \in Process : InTime(p) => ~Holds(y, p)
  BY UnlockedIsFree
<1>5. RecordsStay({x})
  BY <1>2, <1>3, <1>4 DEF RecordsStay
<1>6. /\ j.step \in {step, "idle"}
      /\ j.step # "idle" => j.todo = S /\ \A p \in S : j.copies[p] = store'[p]
  <2>1. CASE j = Begin(step, S, store')
    <3> QED
      BY <2>1 DEF Begin, Idle
  <2>2. CASE j = Idle
    BY <2>2 DEF Idle
  <2> QED
    BY <2>1, <2>2
<1>7. JobOK(j, store')
  BY <1>2, <1>6 DEF JobOK
<1>8. now \in Nat /\ TTL \in Nat
  BY SettlementAssumption DEF LInv, TypeOK, Time
<1>9. ASSUME NEW p \in Payment, Holds(x, p)', InTime(p) PROVE Owns(x, p)
  <2>1. p \in S /\ j.copies[p] = store'[p]
    BY <1>1, <1>6, <1>9 DEF Holds
  <2>2. /\ store'[p].status = store[p].status /\ store'[p].stage = stage
        /\ store'[p].startedAt = now /\ store[p].status # "absent"
    BY <1>2, <1>9, <2>1
  <2>3. store'[p].startedAt + TTL > now
    BY <1>8, <2>2
  <2> QED
    BY <1>1, <1>4, <1>9, <2>1, <2>2, <2>3 DEF Owns
<1> QED
  BY <1>5, <1>7, <1>9, JobKeeps

LEMMA ClaimKeeps ==
  ASSUME LInv, TypeOK', now' = now, TTL > 0, NEW x \in Process,
         NEW status \in {"authorized", "submitted"},
         NEW stage \in {"execution", "confirmation"}, NEW step \in {"execute", "confirm"},
         ClaimForProcessing(x, status, stage, step)
  PROVE  LInv'
<1> DEFINE S == {p \in Payment : store[p].status = status /\ ~Locked(store[p])}
           locked == [p \in Payment |-> IF p \in S THEN WithLock(store[p], stage)
                                        ELSE store[p]]
<1>1. store' = locked /\ job' = [job EXCEPT ![x] = Begin(step, S, locked)]
  BY DEF ClaimForProcessing
<1>2. S \in SUBSET Payment /\ \A p \in S : ~Locked(store[p]) /\ store[p].status # "absent"
  OBVIOUS
<1>3. store' = [p \in Payment |-> IF p \in S THEN WithLock(store[p], stage) ELSE store[p]]
  BY <1>1
<1>4. job' = [job EXCEPT ![x] = Begin(step, S, store')]
  BY <1>1
<1> HIDE DEF S, locked
<1> QED
  BY <1>2, <1>3, <1>4, TakeKeeps

LEMMA LockKeeps ==
  ASSUME LInv, TypeOK', TTL > 0, NEW x \in Process, NEW p \in Payment,
         LockExecution(x, p) \/ LockConfirmation(x, p)
  PROVE  LInv'
<1>1. now' = now /\ p \in job[x].todo /\ job[x].step \in {"lockExecution", "lockConfirmation"}
  BY DEF LockExecution, LockConfirmation
<1>2. InTime(p) => store[p].status # "absent"
  BY <1>1 DEF LInv, JobOK
<1>3. CASE Locked(store[p])
  <2>1. ReadForTouch(x, {p}) /\ store' = store
    BY <1>3 DEF LockExecution, LockConfirmation
  <2> QED
    BY <1>1, <2>1, ReadKeeps
<1>4. CASE ~Locked(store[p])
  <2>1. PICK stage \in {"execution", "confirmation"}, step \in {"execute", "confirm"} :
          /\ store' = [store EXCEPT ![p] = WithLock(@, stage)]
          /\ \/ job' = [job EXCEPT ![x] = Begin(step, {p}, store')]
             \/ job' = [job EXCEPT ![x] = Idle]
    BY <1>4 DEF LockExecution, LockConfirmation
  <2>2. store' = [q \in Payment |-> IF q \in {p} THEN WithLock(store[q], stage) ELSE store[q]]
    BY <2>1 DEF LInv, TypeOK
  <2>3. /\ {p} \in SUBSET Payment
        /\ \A q \in {p} : ~Locked(store[q]) /\ (InTime(q) => store[q].status # "absent")
    BY <1>2, <1>4
  <2>4. CASE job' = [job EXCEPT ![x] = Begin(step, {p}, store')]
    BY <1>1, <2>2, <2>3, <2>4, TakeKeeps
  <2>5. CASE job' = [job EXCEPT ![x] = Idle]
    BY <1>1, <2>2, <2>3, <2>5, TakeKeeps
  <2> QED
    BY <2>1, <2>4, <2>5
<1> QED
  BY <1>3, <1>4

-----------------------------------------------------------------------------
(* Working on records in hand, and letting go of them.                     *)

\* A process writes a record it works on, and is done with it.
LEMMA LetGoKeeps ==
  ASSUME LInv, TypeOK', now' = now, NEW x \in Process, NEW p \in Payment, Holds(x, p),
         NEW step \in {"execute", "confirm"}, NEW record, InTime(p) => record.status # "absent",
         store' = [store EXCEPT ![p] = record],
         job' = [job EXCEPT ![x] = Rest(x, step, p)]
  PROVE  LInv'
<1> DEFINE j == Rest(x, step, p)
<1>1. job'[x] = j /\ job[x].todo \subseteq Payment
  BY JobFacts DEF LInv, TypeOK
<1>2. /\ j.step \in {step, "idle"} /\ j.todo = job[x].todo \ {p}
      /\ \A q \in job[x].todo \ {p} : j.copies[q] = job[x].copies[q]
  <2> DEFINE T == job[x].todo \ {p}
  <2>1. T \subseteq Payment
    BY <1>1
  <2>2. j = Begin(step, T, job[x].copies)
    BY DEF Rest
  <2> HIDE DEF T, j
  <2>3. /\ j.step \in {step, "idle"} /\ j.todo = T
        /\ \A q \in T : j.copies[q] = job[x].copies[q]
    BY <2>1, <2>2, BeginFacts
  <2> QED
    BY <2>3 DEF T
<1> HIDE DEF j
<1>3. /\ InTime(p) => store'[p].status # "absent"
      /\ \A q \in Payment \ {p} : store'[q] = store[q]
  BY DEF LInv, TypeOK
<1>4. RecordsStay({x})
  BY <1>3 DEF RecordsStay, LInv, OneProcessPerPayment
<1>5. JobOK(j, store')
  BY <1>2 DEF JobOK
<1>6. ASSUME NEW q \in Payment, Holds(x, q)', InTime(q) PROVE Owns(x, q)
  <2>1. q \in job[x].todo \ {p} /\ Holds(x, q)
    BY <1>1, <1>2, <1>6 DEF Holds
  <2> QED
    BY <1>1, <1>2, <1>3, <1>6, <2>1 DEF Owns, LInv, LocksInPlace
<1> QED
  BY <1>4, <1>5, <1>6, JobKeeps DEF j

\* What is written back is a record with a status.
LEMMA WrittenStatus ==
  ASSUME NEW record \in PaymentRecord, now \in Time
  PROVE  /\ \A n \in TxNumber : Submitted(record, n).status # "absent"
         /\ ExecutionFailed(record).status # "absent"
         /\ Unlocked(Expired(record)).status # "absent"
         /\ Attempted(record).status = record.status
         /\ \A s, r, c : [Attempted(record) EXCEPT !.status = s, !.retryable = r,
                                                   !.confirmation = c].status = s
         /\ \A c : [Attempted(record) EXCEPT !.confirmation = c].status = record.status
<1>1. Attempted(record) \in PaymentRecord /\ Expired(record) \in PaymentRecord
  BY RecordTypes
<1>3. /\ \A n \in TxNumber : Submitted(record, n).status = "submitted"
      /\ ExecutionFailed(record).status = "failed"
      /\ Unlocked(Expired(record)).status = "expired"
      /\ Attempted(record).status = record.status
  BY DEF Submitted, ExecutionFailed, Unlocked, Expired, Attempted, PaymentRecord
<1>4. /\ \A s, r, c : [Attempted(record) EXCEPT !.status = s, !.retryable = r,
                                                !.confirmation = c].status = s
      /\ \A c : [Attempted(record) EXCEPT !.confirmation = c].status = Attempted(record).status
  BY <1>1 DEF PaymentRecord
<1> QED
  BY <1>3, <1>4

LEMMA ExecuteTooLateKeeps ==
  ASSUME LInv, TypeOK', NEW x \in Process, NEW p \in Payment, ExecuteTooLate(x, p)
  PROVE  LInv'
<1>1. Holds(x, p) /\ now' = now
  BY DEF ExecuteTooLate, Holds
<1>2. job[x].copies[p] \in PaymentRecord /\ now \in Time
  BY JobFacts DEF LInv, TypeOK
<1> DEFINE record == Unlocked(Expired(job[x].copies[p]))
<1>3. record.status # "absent"
  BY <1>2, WrittenStatus
<1>4. store' = [store EXCEPT ![p] = record] /\ job' = [job EXCEPT ![x] = Rest(x, "execute", p)]
  BY DEF ExecuteTooLate
<1> HIDE DEF record
<1> QED
  BY <1>1, <1>3, <1>4, LetGoKeeps

LEMMA RecordExecutionKeeps ==
  ASSUME LInv, TypeOK', NEW x \in Process, NEW p \in Payment, RecordExecution(x, p)
  PROVE  LInv'
<1>1. Holds(x, p) /\ now' = now
  BY DEF RecordExecution, Holds, LInv, JobOK
<1>2. job[x].copies[p] \in PaymentRecord /\ now \in Time /\ job[x].tx \in TxNumber
  BY JobFacts DEF LInv, TypeOK
<1> DEFINE record == IF job[x].tx # 0 THEN Submitted(job[x].copies[p], job[x].tx)
                     ELSE ExecutionFailed(job[x].copies[p])
<1>3. record.status # "absent"
  BY <1>2, WrittenStatus
<1>4. store' = [store EXCEPT ![p] = record] /\ job' = [job EXCEPT ![x] = Rest(x, "execute", p)]
  BY DEF RecordExecution
<1> HIDE DEF record
<1> QED
  BY <1>1, <1>3, <1>4, LetGoKeeps

LEMMA ConfirmKeeps ==
  ASSUME LInv, TypeOK', NEW x \in Process, NEW p \in Payment, Confirm(x, p)
  PROVE  LInv'
<1> DEFINE copy == job[x].copies[p]
<1>1. copy \in PaymentRecord /\ now \in Time
  BY JobFacts DEF LInv, TypeOK
<1>2. /\ \A s, r, c : [Attempted(copy) EXCEPT !.status = s, !.retryable = r,
                                              !.confirmation = c].status = s
      /\ \A c : [Attempted(copy) EXCEPT !.confirmation = c].status = copy.status
  BY <1>1, WrittenStatus
<1> DEFINE exhausted == Attempted(copy).attempts >= MaxAttempts
           settled == [Attempted(copy) EXCEPT !.status = "settled", !.retryable = FALSE,
                                              !.confirmation = "confirmed"]
           failed == [Attempted(copy) EXCEPT !.status = "failed", !.retryable = FALSE,
                                             !.confirmation = "failed"]
           raised == [Attempted(copy) EXCEPT
                        !.status = IF exhausted THEN "failed" ELSE "submitted",
                        !.retryable = ~exhausted, !.confirmation = "failed"]
           pending == [Attempted(copy) EXCEPT !.confirmation = "pending"]
<1>3. \/ ConfirmWith(x, p, settled) \/ ConfirmWith(x, p, failed)
      \/ ConfirmWith(x, p, raised) \/ ConfirmWith(x, p, pending)
  BY DEF Confirm, ConfirmFinal, ConfirmPending, ConfirmError, ConfirmWithoutTx
<1>4. /\ settled.status = "settled" /\ failed.status = "failed"
      /\ pending.status = copy.status
  BY <1>2
<1>5. raised.status \in {"failed", "submitted"}
  BY <1>2
<1> HIDE DEF settled, failed, raised, pending
<1>6. PICK record :
        /\ ConfirmWith(x, p, record)
        /\ \/ record.status \in {"settled", "failed", "submitted"}
           \/ record.status = copy.status
  BY <1>3, <1>4, <1>5
<1>7. /\ Holds(x, p) /\ now' = now /\ store' = [store EXCEPT ![p] = record]
      /\ job' = [job EXCEPT ![x] = Rest(x, "confirm", p)]
  BY <1>6 DEF ConfirmWith, Holds
<1>8. InTime(p) => record.status # "absent"
  BY <1>6, <1>7 DEF LInv, LocksInPlace
<1> QED
  BY <1>7, <1>8, LetGoKeeps

\* The executor's run leaves records and what is in hand as they are.
LEMMA ExecuteKeeps ==
  ASSUME LInv, TypeOK', NEW x \in Process, NEW p \in Payment, NEW isSent \in BOOLEAN,
         NEW answer \in TxNumber, Execute(x, p, isSent, answer)
  PROVE  LInv'
<1> DEFINE j == [job[x] EXCEPT !.step = "executed", !.current = p, !.tx = answer]
<1>1. job' = [job EXCEPT ![x] = j] /\ store' = store /\ now' = now
      /\ job[x].step = "execute" /\ p \in job[x].todo
  BY DEF Execute
<1>2. job[x] \in Job /\ job'[x] = j
  BY <1>1, JobFacts DEF LInv, TypeOK
<1>3. j.step = "executed" /\ j.current = p /\ j.todo = job[x].todo /\ j.copies = job[x].copies
  BY <1>2 DEF Job
<1> HIDE DEF j
<1>4. RecordsStay({x}) /\ JobOK(j, store')
  BY <1>1, <1>3 DEF RecordsStay, JobOK
<1>5. ASSUME NEW q \in Payment, Holds(x, q)', InTime(q) PROVE Owns(x, q)
  <2>1. Holds(x, q)
    BY <1>1, <1>2, <1>3, <1>5 DEF Holds
  <2> QED
    BY <1>1, <1>2, <1>3, <1>5, <2>1 DEF Owns, LInv, LocksInPlace
<1> QED
  BY <1>1, <1>4, <1>5, JobKeeps

\* Before its deadline _touch_payment leaves a record as it is, whatever its copy
\* says, and it takes nothing in hand.
LEMMA TouchLeaves ==
  ASSUME LInv, NEW x \in Process, NEW p \in Payment, TouchPayment(x, p)
  PROVE  /\ \A q \in Payment : q # p \/ InTime(p) => store'[q] = store[q]
         /\ now' = now /\ job' = [job EXCEPT ![x] = Rest(x, "touch", p)]
         /\ Rest(x, "touch", p).step \in {"touch", "idle"}
<1>1. now \in Nat /\ Deadline[p] \in Nat /\ Expiry[ChannelOf[p]] \in Nat
  BY SettlementAssumption DEF LInv, TypeOK, Time
<1>2. InTime(p) => ~Overdue(p, job[x].copies[p])
  BY <1>1 DEF Overdue, InTime
<1>3. \A q \in Payment : q # p \/ InTime(p) => store'[q] = store[q]
  BY <1>2 DEF TouchPayment, LInv, TypeOK
<1>4. now' = now /\ job' = [job EXCEPT ![x] = Rest(x, "touch", p)]
  BY DEF TouchPayment
<1>5. Rest(x, "touch", p).step \in {"touch", "idle"}
  <2>1. job[x].todo \ {p} \in SUBSET Payment
    BY JobFacts DEF LInv
  <2> QED
    BY <2>1, BeginFacts DEF Rest
<1> QED
  BY <1>3, <1>4, <1>5

LEMMA TouchKeeps ==
  ASSUME LInv, TypeOK', NEW x \in Process, NEW p \in Payment, TouchPayment(x, p)
  PROVE  LInv'
<1>1. RecordsStay({})
  BY TouchLeaves DEF RecordsStay
<1> QED
  BY <1>1, TouchLeaves, EmptyHandsKeep

-----------------------------------------------------------------------------
(* The other steps.                                                        *)

LEMMA EntryKeeps ==
  ASSUME LInv, TypeOK', NEW p \in Payment, CreateIntent(p) \/ RecordPayment(p)
  PROVE  LInv'
<1>1. PICK record :
        store[p].status = "absent" /\ store' = [store EXCEPT ![p] = record]
        /\ job' = job /\ now' = now
  BY DEF CreateIntent, RecordPayment
<1>2. InTime(p) => \A y \in Process : ~Holds(y, p)
  BY <1>1 DEF LInv, LocksInPlace
<1>3. \A q \in Payment \ {p} : store'[q] = store[q]
  BY <1>1 DEF LInv, TypeOK
<1>4. RecordsStay({})
  BY <1>1, <1>2, <1>3 DEF RecordsStay
<1> QED
  BY <1>1, <1>4, NoJobKeeps

LEMMA ChainKeeps ==
  ASSUME LInv, TypeOK', LocksHold, ChainStep
  PROVE  LInv'
<1>1. CASE Tick
  <2>1. /\ now' = now + 1 /\ store' = store /\ job' = job /\ LeasesKept
    BY <1>1 DEF Tick, LocksHold
  <2>2. \A x \in Process, p \in Payment : Holds(x, p)' <=> Holds(x, p)
    BY <2>1 DEF Holds
  <2>0. now \in Nat /\ \A p \in Payment : Deadline[p] \in Nat /\ Expiry[ChannelOf[p]] \in Nat
    BY SettlementAssumption DEF LInv, TypeOK, Time
  <2>6. \A p \in Payment : InTime(p)' => InTime(p)
    BY <2>0, <2>1 DEF InTime
  <2>3. ASSUME NEW x \in Process, NEW p \in Payment, Holds(x, p), InTime(p)
        PROVE  store[p].startedAt + TTL > now'
    BY <2>1, <2>3 DEF LeasesKept, Holds, LInv, LocksInPlace
  <2>4. LocksInPlace'
    BY <2>1, <2>2, <2>3, <2>6 DEF LInv, LocksInPlace
  <2>7. \A x \in Process : job[x].todo \subseteq Payment
    BY JobFacts DEF LInv
  <2>5. (\A x \in Process : JobOK(job[x], store))' /\ OneProcessPerPayment'
    BY <2>1, <2>2, <2>6, <2>7 DEF LInv, OneProcessPerPayment, JobOK
  <2> QED
    BY <2>4, <2>5 DEF LInv
<1>2. CASE ~Tick
  <2>1. now' = now /\ store' = store /\ job' = job
    BY <1>2 DEF ChainStep, Mine, DropTransaction, CloseChannel
  <2>2. RecordsStay({})
    BY <2>1 DEF RecordsStay
  <2> QED
    BY <2>1, <2>2, NoJobKeeps
<1> QED
  BY <1>1, <1>2

LEMMA RequestKeeps ==
  ASSUME LInv, TypeOK', LocksHold, NEW h \in Handler, Request(h)
  PROVE  LInv'
<1>0. h \in Process
  BY DEF Process
<1>1. CASE RecoverPayments(h)
  BY <1>0, <1>1, ReadKeeps DEF RecoverPayments
<1>2. CASE ExecutePending(h)
  BY <1>0, <1>2, ClaimKeeps DEF ExecutePending, LocksHold
<1>3. CASE ReconcileSubmitted(h)
  BY <1>0, <1>3, ClaimKeeps DEF ReconcileSubmitted, LocksHold
<1>4. ASSUME NEW p \in Payment, GetPayment(h, p) PROVE LInv'
  BY <1>0, <1>4, ReadKeeps DEF GetPayment
<1>5. ASSUME NEW p \in Payment, ExecutePayment(h, p) PROVE LInv'
  BY <1>0, <1>5, BeginExecuteKeeps DEF ExecutePayment
<1>6. ASSUME NEW p \in Payment, ReconcilePayment(h, p) PROVE LInv'
  BY <1>0, <1>6, BeginReconcileKeeps DEF ReconcilePayment
<1>7. \A p \in Payment : ~ReadForOperator(h, p)
  BY DEF ReadForOperator, LocksHold
<1> QED
  BY <1>1, <1>2, <1>3, <1>4, <1>5, <1>6, <1>7 DEF Request

LEMMA RunOnceKeeps ==
  ASSUME LInv, TypeOK', LocksHold, NEW w \in Worker, RunOnce(w)
  PROVE  LInv'
<1>0. w \in Process
  BY DEF Process
<1>1. CASE ListUnfinished(w)
  BY <1>0, <1>1, ReadKeeps DEF ListUnfinished
<1>2. CASE WorkerExecutePending(w)
  BY <1>0, <1>2, ClaimKeeps DEF WorkerExecutePending, LocksHold
<1>3. CASE ListFailed(w)
  <2>1. now' = now /\ store' = store /\ job' = job
    BY <1>3 DEF ListFailed, chainVars
  <2> QED
    BY <2>1, NoJobKeeps DEF RecordsStay
<1>4. ASSUME NEW p \in Payment, RetryFailed(w, p) PROVE LInv'
  BY <1>0, <1>4, BeginExecuteKeeps DEF RetryFailed
<1>5. CASE WorkerReconcileSubmitted(w)
  BY <1>0, <1>5, ClaimKeeps DEF WorkerReconcileSubmitted, LocksHold
<1> QED
  BY <1>1, <1>2, <1>3, <1>4, <1>5 DEF RunOnce

LEMMA ContinueKeeps ==
  ASSUME LInv, TypeOK', LocksHold, NEW x \in Process, Continue(x)
  PROVE  LInv'
<1>1. ~\E p \in Payment : ApplyOperatorAction(x, p)
  BY DEF ApplyOperatorAction, LInv, JobOK
<1> PICK p \in Payment :
      \/ TouchPayment(x, p)
      \/ LockExecution(x, p)
      \/ ExecuteTooLate(x, p)
      \/ \E isSent \in BOOLEAN, answer \in TxNumber : Execute(x, p, isSent, answer)
      \/ RecordExecution(x, p)
      \/ LockConfirmation(x, p)
      \/ Confirm(x, p)
  BY <1>1 DEF Continue
<1> QED
  BY TouchKeeps, LockKeeps, ExecuteTooLateKeeps, ExecuteKeeps, RecordExecutionKeeps,
     ConfirmKeeps DEF LocksHold

\* What a process held is free when it dies; the lock stays in the record.
LEMMA CrashKeeps ==
  ASSUME LInv, TypeOK', NEW x \in Process, Crash(x)
  PROVE  LInv'
<1>1. /\ now' = now /\ store' = store /\ job' = [job EXCEPT ![x] = Idle]
      /\ Idle.step = "idle"
  BY DEF Crash, Idle
<1> QED
  BY <1>1, QuietStays, EmptyHandsKeep

LEMMA LocksEstablished == Init => LInv
<1> SUFFICES ASSUME Init PROVE LInv
  OBVIOUS
<1>1. TypeOK
  BY InitIInv DEF IInv
<1>2. \A x \in Process : job[x].step = "idle"
  BY DEF Init, Idle
<1>3. LocksInPlace /\ OneProcessPerPayment
  BY <1>2 DEF LocksInPlace, OneProcessPerPayment, Holds
<1>4. \A x \in Process : JobOK(job[x], store)
  BY <1>2 DEF JobOK
<1> QED
  BY <1>1, <1>3, <1>4 DEF LInv

LEMMA StepKeepsLocks == LocksHold /\ LInv /\ TypeOK' /\ [Next]_vars => LInv'
<1> SUFFICES ASSUME LocksHold, LInv, TypeOK', [Next]_vars PROVE LInv'
  OBVIOUS
<1>1. CASE UNCHANGED vars
  <2>1. now' = now /\ store' = store /\ job' = job
    BY <1>1 DEF vars
  <2> QED
    BY <2>1, NoJobKeeps DEF RecordsStay
<1> QED
  BY <1>1, ChainKeeps, EntryKeeps, RequestKeeps, RunOnceKeeps, ContinueKeeps, CrashKeeps
  DEF Next

LEMMA LockInvariance == LocksHold => (Spec => []LInv)
<1> SUFFICES ASSUME LocksHold PROVE Spec => []LInv
  OBVIOUS
<1> QED
  BY TypeCorrect, LocksEstablished, StepKeepsLocks, PTL DEF Spec

\* While a lock outlasts the work done under it and operators keep away, two
\* processes never execute or confirm one payment at the same time before its
\* deadline, whoever crashes with a lock in place (acquire_processing_lock,
\* claim_for_processing).
THEOREM LocksExclude == LocksHold => (Spec => []OneProcessPerPayment)
<1> SUFFICES ASSUME LocksHold PROVE Spec => []OneProcessPerPayment
  OBVIOUS
<1>1. Spec => []LInv
  BY LockInvariance
<1>2. LInv => OneProcessPerPayment
  BY DEF LInv
<1> QED
  BY <1>1, <1>2, PTL

-----------------------------------------------------------------------------
(* Settled is terminal where one worker executes.                          *)

\* execute_payment looks at a status before it takes the lock.  With one worker
\* and no request to execute, nobody can have changed it in between.
OneExecutes == "execute" \notin Requests /\ \A v, w \in Worker : v = w

\* Until its deadline, what is executed or waits for its lock is executable still,
\* by the worker alone, and what is confirmed is submitted still.
Fit(x, j, records) ==
  /\ j.step \in {"lockExecution", "execute", "executed"} =>
       x \in Worker /\ \A p \in j.todo : InTime(p) => Executable(records[p])
  /\ j.step = "confirm" =>
       \A p \in j.todo : InTime(p) => records[p].status = "submitted"

AllFit == \A x \in Process : Fit(x, job[x], store)

SInv == LInv /\ AllFit

SettledStays ==
  \A p \in Payment :
    InTime(p) /\ store[p].status = "settled" => store'[p].status = "settled"

\* A step of x that changes no status another process relies on.
LEMMA FitKeeps ==
  ASSUME SInv, now' = now, NEW x \in Process, NEW j, job' = [job EXCEPT ![x] = j],
         Fit(x, j, store'),
         \A y \in Process \ {x}, p \in Payment :
           /\ job[y].step \in {"lockExecution", "execute", "executed", "confirm"}
           /\ p \in job[y].todo /\ InTime(p)
           => /\ store'[p].status = store[p].status
              /\ store'[p].retryable = store[p].retryable
  PROVE  AllFit'
<1> SUFFICES ASSUME NEW y \in Process PROVE Fit(y, job'[y], store')
  BY DEF AllFit, Fit, InTime
<1>1. CASE y = x
  BY <1>1 DEF SInv, LInv, TypeOK
<1>2. CASE y # x
  <2>1. job'[y] = job[y] /\ job[y].todo \subseteq Payment
    BY <1>2, JobFacts DEF SInv, LInv, TypeOK
  <2>2. Fit(y, job[y], store)
    BY DEF SInv, AllFit
  <2> QED
    BY <1>2, <2>1, <2>2 DEF Fit, Executable
<1> QED
  BY <1>1, <1>2

\* Nothing is written.
LEMMA QuietFits ==
  ASSUME SInv, now' = now, NEW x \in Process, NEW j, job' = [job EXCEPT ![x] = j], store' = store,
         Fit(x, j, store)
  PROVE  AllFit' /\ SettledStays
BY FitKeeps DEF SettledStays

\* Locks are taken, which changes no status.
LEMMA TakeFits ==
  ASSUME SInv, now' = now, NEW x \in Process, NEW S \in SUBSET Payment,
         NEW stage \in {"execution", "confirmation"}, NEW step \in {"execute", "confirm"},
         store' = [p \in Payment |-> IF p \in S THEN WithLock(store[p], stage) ELSE store[p]],
         step = "execute" =>
           x \in Worker /\ \A p \in S : InTime(p) => Executable(store[p]),
         step = "confirm" => \A p \in S : InTime(p) => store[p].status = "submitted",
         NEW j, j = Begin(step, S, store') \/ j = Idle,
         job' = [job EXCEPT ![x] = j]
  PROVE  AllFit' /\ SettledStays
<1>1. ASSUME NEW p \in Payment
      PROVE  store'[p].status = store[p].status /\ store'[p].retryable = store[p].retryable
  <2>1. store[p] \in PaymentRecord
    BY DEF SInv, LInv, TypeOK
  <2>2. /\ WithLock(store[p], stage).status = store[p].status
        /\ WithLock(store[p], stage).retryable = store[p].retryable
    BY <2>1 DEF WithLock, PaymentRecord
  <2> QED
    BY <2>2
<1>2. j.step \in {step, "idle"} /\ (j.step # "idle" => j.todo = S)
  <2>1. CASE j = Begin(step, S, store')
    <3> QED
      BY <2>1 DEF Begin, Idle
  <2>2. CASE j = Idle
    BY <2>2 DEF Idle
  <2> QED
    BY <2>1, <2>2
<1>3. Fit(x, j, store')
  BY <1>1, <1>2 DEF Fit, Executable
<1> QED
  BY <1>1, <1>3, FitKeeps DEF SettledStays

LEMMA ClaimFits ==
  ASSUME SInv, now' = now, NEW x \in Process,
         NEW status \in {"authorized", "submitted"},
         NEW stage \in {"execution", "confirmation"}, NEW step \in {"execute", "confirm"},
         step = "execute" => x \in Worker /\ status = "authorized",
         step = "confirm" => status = "submitted",
         ClaimForProcessing(x, status, stage, step)
  PROVE  AllFit' /\ SettledStays
<1> DEFINE S == {p \in Payment : store[p].status = status /\ ~Locked(store[p])}
           locked == [p \in Payment |-> IF p \in S THEN WithLock(store[p], stage)
                                        ELSE store[p]]
<1>1. store' = locked /\ job' = [job EXCEPT ![x] = Begin(step, S, locked)]
  BY DEF ClaimForProcessing
<1>2. /\ S \in SUBSET Payment
      /\ step = "execute" => x \in Worker /\ \A p \in S : Executable(store[p])
      /\ step = "confirm" => \A p \in S : store[p].status = "submitted"
  BY DEF Executable
<1>3. store' = [p \in Payment |-> IF p \in S THEN WithLock(store[p], stage) ELSE store[p]]
  BY <1>1
<1>4. job' = [job EXCEPT ![x] = Begin(step, S, store')]
  BY <1>1
<1> HIDE DEF S, locked
<1> QED
  BY <1>2, <1>3, <1>4, TakeFits

LEMMA ReadFits ==
  ASSUME SInv, now' = now, NEW x \in Process, NEW S \in SUBSET Payment, ReadForTouch(x, S),
         store' = store
  PROVE  AllFit' /\ SettledStays
<1> DEFINE T == {p \in S : store[p].status = "authorized"}
           j == Begin("touch", T, store)
<1>1. j.step \in {"touch", "idle"}
  BY BeginFacts
<1>2. job' = [job EXCEPT ![x] = j]
  BY DEF ReadForTouch
<1>3. Fit(x, j, store)
  BY <1>1 DEF Fit
<1> HIDE DEF j
<1> QED
  BY <1>2, <1>3, QuietFits

LEMMA IdleFits ==
  ASSUME SInv, now' = now, NEW x \in Process, job' = [job EXCEPT ![x] = Idle], store' = store
  PROVE  AllFit' /\ SettledStays
<1>1. Fit(x, Idle, store)
  BY DEF Fit, Idle
<1> QED
  BY <1>1, QuietFits

LEMMA LockFits ==
  ASSUME SInv, NEW x \in Process, NEW p \in Payment,
         LockExecution(x, p) \/ LockConfirmation(x, p)
  PROVE  AllFit' /\ SettledStays
<1>0. now' = now
  BY DEF LockExecution, LockConfirmation
<1>1. CASE Locked(store[p])
  <2>1. ReadForTouch(x, {p}) /\ store' = store
    BY <1>1 DEF LockExecution, LockConfirmation
  <2> QED
    BY <1>0, <2>1, ReadFits
<1>2. CASE ~Locked(store[p]) /\ LockExecution(x, p)
  <2>1. /\ store' = [store EXCEPT ![p] = WithLock(@, "execution")]
        /\ job' = [job EXCEPT ![x] = Begin("execute", {p}, store')]
        /\ job[x].step = "lockExecution" /\ p \in job[x].todo
    BY <1>2 DEF LockExecution
  <2>2. x \in Worker /\ \A q \in {p} : InTime(q) => Executable(store[q])
    BY <2>1 DEF SInv, AllFit, Fit
  <2>3. store' = [q \in Payment |-> IF q \in {p} THEN WithLock(store[q], "execution")
                                    ELSE store[q]]
    BY <2>1 DEF SInv, LInv, TypeOK
  <2>4. {p} \in SUBSET Payment
    OBVIOUS
  <2> QED
    BY <1>0, <2>1, <2>2, <2>3, <2>4, TakeFits
<1>3. CASE ~Locked(store[p]) /\ LockConfirmation(x, p)
  <2> DEFINE j == IF store[p].status = "submitted" THEN Begin("confirm", {p}, store') ELSE Idle
  <2>1. /\ store' = [store EXCEPT ![p] = WithLock(@, "confirmation")]
        /\ job' = [job EXCEPT ![x] = j]
    BY <1>3 DEF LockConfirmation
  <2>3. store' = [q \in Payment |-> IF q \in {p} THEN WithLock(store[q], "confirmation")
                                    ELSE store[q]]
    BY <2>1 DEF SInv, LInv, TypeOK
  <2>4. {p} \in SUBSET Payment
    OBVIOUS
  <2>5. CASE store[p].status = "submitted"
    <3>1. job' = [job EXCEPT ![x] = Begin("confirm", {p}, store')]
      BY <2>1, <2>5
    <3>2. \A q \in {p} : store[q].status = "submitted"
      BY <2>5
    <3> QED
      BY <1>0, <2>3, <2>4, <3>1, <3>2, TakeFits
  <2>6. CASE store[p].status # "submitted"
    <3>1. job' = [job EXCEPT ![x] = Idle]
      BY <2>1, <2>6
    <3>2. \A q \in Payment : store'[q].status = store[q].status
                             /\ store'[q].retryable = store[q].retryable
      <4>1. \A q \in Payment : store[q] \in PaymentRecord
        BY DEF SInv, LInv, TypeOK
      <4> QED
        BY <2>3, <4>1 DEF WithLock, PaymentRecord
    <3>3. Fit(x, Idle, store')
      BY DEF Fit, Idle
    <3> QED
      BY <1>0, <3>1, <3>2, <3>3, FitKeeps DEF SettledStays
  <2> QED
    BY <2>5, <2>6
<1> QED
  BY <1>1, <1>2, <1>3

\* A record that is let go of was in nobody else's hands, and it was not settled.
LEMMA LetGoFits ==
  ASSUME SInv, OneExecutes, now' = now, NEW x \in Process, NEW p \in Payment, Holds(x, p),
         NEW record,
         NEW step \in {"execute", "confirm"}, step = "confirm" <=> job[x].step = "confirm",
         store' = [store EXCEPT ![p] = record], job' = [job EXCEPT ![x] = Rest(x, step, p)]
  PROVE  AllFit' /\ SettledStays
<1> DEFINE j == Rest(x, step, p)
<1>0. Fit(x, job[x], store) /\ job[x].todo \subseteq Payment
  BY JobFacts DEF SInv, AllFit, LInv
<1>1. j.step \in {step, "idle"} /\ j.todo = job[x].todo \ {p}
  <2> DEFINE T == job[x].todo \ {p}
  <2>1. T \subseteq Payment
    BY <1>0
  <2>2. j = Begin(step, T, job[x].copies)
    BY DEF Rest
  <2> HIDE DEF T, j
  <2>3. j.step \in {step, "idle"} /\ j.todo = T
    BY <2>1, <2>2, BeginFacts
  <2> QED
    BY <2>3 DEF T
<1>2. \A q \in Payment \ {p} : store'[q] = store[q]
  BY DEF SInv, LInv, TypeOK
<1>3. /\ job[x].step # "confirm" => x \in Worker
      /\ InTime(p) => IF job[x].step = "confirm" THEN store[p].status = "submitted"
                                                 ELSE Executable(store[p])
  BY <1>0 DEF Fit, Holds
<1> HIDE DEF j
<1>4. Fit(x, j, store')
  BY <1>0, <1>1, <1>2 DEF Fit, Holds
<1>5. ASSUME NEW y \in Process \ {x}, p \in job[y].todo, InTime(p),
             job[y].step \in {"lockExecution", "execute", "executed", "confirm"}
      PROVE  FALSE
  <2>1. ~Holds(y, p)
    BY <1>5 DEF SInv, LInv, OneProcessPerPayment
  <2>2. job[y].step = "lockExecution"
    BY <1>5, <2>1 DEF Holds
  <2>3. y \in Worker /\ Executable(store[p])
    BY <1>5, <2>2 DEF SInv, AllFit, Fit
  <2> QED
    BY <1>3, <1>5, <2>3 DEF OneExecutes, Executable
<1>6. AllFit'
  <2>1. \A y \in Process \ {x}, q \in Payment :
          /\ job[y].step \in {"lockExecution", "execute", "executed", "confirm"}
          /\ q \in job[y].todo /\ InTime(q)
          => store'[q] = store[q]
    BY <1>2, <1>5
  <2> QED
    BY <1>4, <2>1, FitKeeps DEF j
<1>7. SettledStays
  BY <1>2, <1>3 DEF SettledStays, Executable
<1> QED
  BY <1>6, <1>7

LEMMA WriteFits ==
  ASSUME SInv, OneExecutes, NEW x \in Process, NEW p \in Payment,
         ExecuteTooLate(x, p) \/ RecordExecution(x, p) \/ Confirm(x, p)
  PROVE  AllFit' /\ SettledStays
<1>1. CASE ExecuteTooLate(x, p)
  BY <1>1, LetGoFits DEF ExecuteTooLate, Holds
<1>2. CASE RecordExecution(x, p)
  <2>1. p \in job[x].todo
    BY <1>2 DEF RecordExecution, SInv, LInv, JobOK
  <2> QED
    BY <1>2, <2>1, LetGoFits DEF RecordExecution, Holds
<1>3. CASE Confirm(x, p)
  <2>1. \E record : ConfirmWith(x, p, record)
    BY <1>3 DEF Confirm, ConfirmFinal, ConfirmPending, ConfirmError, ConfirmWithoutTx
  <2> QED
    BY <2>1, LetGoFits DEF ConfirmWith, Holds
<1> QED
  BY <1>1, <1>2, <1>3

LEMMA ExecuteFits ==
  ASSUME SInv, NEW x \in Process, NEW p \in Payment, NEW isSent \in BOOLEAN,
         NEW answer \in TxNumber, Execute(x, p, isSent, answer)
  PROVE  AllFit' /\ SettledStays
<1> DEFINE j == [job[x] EXCEPT !.step = "executed", !.current = p, !.tx = answer]
<1>1. /\ job' = [job EXCEPT ![x] = j] /\ store' = store /\ now' = now
      /\ job[x].step = "execute"
  BY DEF Execute
<1>2. job[x] \in Job /\ Fit(x, job[x], store)
  BY JobFacts DEF SInv, AllFit, LInv
<1>3. j.step = "executed" /\ j.todo = job[x].todo
  BY <1>2 DEF Job
<1> HIDE DEF j
<1>4. Fit(x, j, store)
  BY <1>1, <1>2, <1>3 DEF Fit
<1> QED
  BY <1>1, <1>4, QuietFits

LEMMA ContinueFits ==
  ASSUME SInv, LocksHold, OneExecutes, NEW x \in Process, Continue(x)
  PROVE  AllFit' /\ SettledStays
<1>1. ~\E p \in Payment : ApplyOperatorAction(x, p)
  BY DEF ApplyOperatorAction, SInv, LInv, JobOK
<1> PICK p \in Payment :
      \/ TouchPayment(x, p)
      \/ LockExecution(x, p)
      \/ ExecuteTooLate(x, p)
      \/ \E isSent \in BOOLEAN, answer \in TxNumber : Execute(x, p, isSent, answer)
      \/ RecordExecution(x, p)
      \/ LockConfirmation(x, p)
      \/ Confirm(x, p)
  BY <1>1 DEF Continue
<1>2. CASE TouchPayment(x, p)
  <2> DEFINE j == Rest(x, "touch", p)
  <2>1. /\ now' = now /\ job' = [job EXCEPT ![x] = j] /\ j.step \in {"touch", "idle"}
        /\ \A q \in Payment : InTime(q) => store'[q] = store[q]
    BY <1>2, TouchLeaves DEF SInv
  <2>2. Fit(x, j, store')
    BY <2>1 DEF Fit
  <2> HIDE DEF j
  <2> QED
    BY <2>1, <2>2, FitKeeps DEF SettledStays
<1> QED
  BY <1>2, LockFits, WriteFits, ExecuteFits

LEMMA BeginFits ==
  ASSUME SInv, now' = now, NEW x \in Process, NEW p \in Payment, store' = store,
         BeginReconcilePayment(x, p) \/ (x \in Worker /\ BeginExecutePayment(x, p))
  PROVE  AllFit' /\ SettledStays
<1>1. CASE BeginReconcilePayment(x, p) /\ store[p].status # "submitted"
  BY <1>1, ReadFits DEF BeginReconcilePayment
<1>2. CASE BeginReconcilePayment(x, p) /\ store[p].status = "submitted"
  <2> DEFINE j == Begin("lockConfirmation", {p}, NoCopies)
  <2>1. job' = [job EXCEPT ![x] = j]
    BY <1>2 DEF BeginReconcilePayment
  <2>2. {p} # {}
    OBVIOUS
  <2>3. j.step = "lockConfirmation"
    BY <2>2 DEF Begin
  <2> HIDE DEF j
  <2>4. Fit(x, j, store)
    BY <2>3 DEF Fit
  <2> QED
    BY <2>1, <2>4, QuietFits
<1>3. CASE x \in Worker /\ BeginExecutePayment(x, p) /\ Executable(store[p])
  <2> DEFINE j == Begin("lockExecution", {p}, NoCopies)
  <2>1. job' = [job EXCEPT ![x] = j]
    BY <1>3 DEF BeginExecutePayment
  <2>2. {p} # {}
    OBVIOUS
  <2>3. j.step = "lockExecution" /\ j.todo = {p}
    BY <2>2 DEF Begin
  <2> HIDE DEF j
  <2>4. Fit(x, j, store)
    BY <1>3, <2>3 DEF Fit
  <2> QED
    BY <2>1, <2>4, QuietFits
<1>4. CASE BeginExecutePayment(x, p) /\ ~Executable(store[p])
  BY <1>4, IdleFits DEF BeginExecutePayment
<1> QED
  BY <1>1, <1>2, <1>3, <1>4

LEMMA RequestFits ==
  ASSUME SInv, LocksHold, OneExecutes, NEW h \in Handler, Request(h)
  PROVE  AllFit' /\ SettledStays
<1>0. h \in Process
  BY DEF Process
<1>1. CASE RecoverPayments(h)
  BY <1>0, <1>1, ReadFits DEF RecoverPayments
<1>2. CASE ReconcileSubmitted(h)
  BY <1>0, <1>2, ClaimFits DEF ReconcileSubmitted
<1>3. ASSUME NEW p \in Payment, GetPayment(h, p) PROVE AllFit' /\ SettledStays
  BY <1>0, <1>3, ReadFits DEF GetPayment
<1>4. ASSUME NEW p \in Payment, ReconcilePayment(h, p) PROVE AllFit' /\ SettledStays
  BY <1>0, <1>4, BeginFits DEF ReconcilePayment
<1>5. /\ ~ExecutePending(h)
      /\ \A p \in Payment : ~ExecutePayment(h, p) /\ ~ReadForOperator(h, p)
  BY DEF ExecutePending, ExecutePayment, ReadForOperator, LocksHold, OneExecutes
<1> QED
  BY <1>1, <1>2, <1>3, <1>4, <1>5 DEF Request

LEMMA RunOnceFits ==
  ASSUME SInv, NEW w \in Worker, RunOnce(w)
  PROVE  AllFit' /\ SettledStays
<1>0. w \in Process
  BY DEF Process
<1>1. CASE ListUnfinished(w)
  BY <1>0, <1>1, ReadFits DEF ListUnfinished
<1>2. CASE WorkerExecutePending(w)
  BY <1>0, <1>2, ClaimFits DEF WorkerExecutePending
<1>3. CASE ListFailed(w)
  BY <1>3 DEF ListFailed, SInv, AllFit, Fit, InTime, SettledStays, chainVars
<1>4. ASSUME NEW p \in Payment, RetryFailed(w, p) PROVE AllFit' /\ SettledStays
  BY <1>0, <1>4, BeginFits DEF RetryFailed
<1>5. CASE WorkerReconcileSubmitted(w)
  BY <1>0, <1>5, ClaimFits DEF WorkerReconcileSubmitted
<1> QED
  BY <1>1, <1>2, <1>3, <1>4, <1>5 DEF RunOnce

\* A new record is nobody's business yet.
LEMMA EntryFits ==
  ASSUME SInv, NEW p \in Payment, CreateIntent(p) \/ RecordPayment(p)
  PROVE  AllFit' /\ SettledStays
<1>1. PICK record :
        /\ store[p].status = "absent" /\ store' = [store EXCEPT ![p] = record]
        /\ job' = job /\ now' = now
  BY DEF CreateIntent, RecordPayment
<1>2. \A q \in Payment \ {p} : store'[q] = store[q]
  BY <1>1 DEF SInv, LInv, TypeOK
<1>3. ASSUME NEW y \in Process PROVE Fit(y, job[y], store')
  <2>1. Fit(y, job[y], store) /\ job[y].todo \subseteq Payment
    BY JobFacts DEF SInv, AllFit, LInv
  <2> QED
    BY <1>1, <1>2, <2>1 DEF Fit, Executable
<1>4. AllFit'
  BY <1>1, <1>3 DEF AllFit, Fit, InTime
<1>5. SettledStays
  BY <1>1, <1>2 DEF SettledStays
<1> QED
  BY <1>4, <1>5

LEMMA StepFits ==
  ASSUME SInv, LocksHold, OneExecutes, [Next]_vars
  PROVE  AllFit' /\ SettledStays
<1>1. CASE ChainStep \/ UNCHANGED vars
  <2>1. store' = store /\ job' = job /\ (now' = now \/ now' = now + 1)
    BY <1>1 DEF ChainStep, Tick, Mine, DropTransaction, CloseChannel, vars
  <2>2. now \in Nat /\ \A p \in Payment : Deadline[p] \in Nat /\ Expiry[ChannelOf[p]] \in Nat
    BY SettlementAssumption DEF SInv, LInv, TypeOK, Time
  <2>3. \A p \in Payment : InTime(p)' => InTime(p)
    BY <2>1, <2>2 DEF InTime
  <2>4. \A x \in Process : job[x].todo \subseteq Payment
    BY JobFacts DEF SInv, LInv
  <2> QED
    BY <2>1, <2>3, <2>4 DEF SInv, AllFit, Fit, SettledStays
<1>2. ASSUME NEW x \in Process, Crash(x) PROVE AllFit' /\ SettledStays
  BY <1>2, IdleFits DEF Crash
<1> QED
  BY <1>1, <1>2, EntryFits, RequestFits, RunOnceFits, ContinueFits DEF Next

\* Where the locks do their work and one worker executes, what is settled stays
\* settled until the payment's deadline, whoever reconciles beside it and whatever
\* fails (spec/PROTOCOL_REFERENCE.md:90; settlement.py:247-270,
\* python/seller/worker.py:62-120).
THEOREM SettledStaysSettled == LocksHold /\ OneExecutes => (Spec => SettledIsKept)
<1> SUFFICES ASSUME LocksHold, OneExecutes PROVE Spec => SettledIsKept
  OBVIOUS
<1>1. Init => SInv
  BY LocksEstablished DEF SInv, AllFit, Fit, Init, Idle
<1>2. SInv /\ TypeOK' /\ [Next]_vars =>
        /\ SInv'
        /\ [\A p \in Payment :
              InTime(p) /\ store[p].status = "settled" => store'[p].status = "settled"]_vars
  BY StepFits, StepKeepsLocks DEF SInv, SettledStays
<1> QED
  BY <1>1, <1>2, TypeCorrect, PTL DEF Spec, SettledIsKept

-----------------------------------------------------------------------------
(* A paid payment never fails for good, where each execution is answered.  *)

\* An executor that has sent a transaction gives its id to a process that lives to
\* write it down, the confirmer does not raise, and operators keep away.
ExecutionsAnswered ==
  Faults \cap {"answer_lost", "confirm_error", "crash"} = {} /\ "operator" \notin Requests

Executing(x, p) ==
  job[x].step \in {"lockExecution", "execute", "executed"} /\ p \in job[x].todo

Answered(x, p) == job[x].step = "executed" /\ job[x].current = p

Confirming(x, p) == job[x].step = "confirm" /\ p \in job[x].todo

\* Nobody executes p, and nobody will.
Past(p) ==
  /\ store[p].status # "absent" /\ ~Executable(store[p])
  /\ \A x \in Process : ~Executing(x, p)

\* No transaction of p pays it, or will.
Unpaid(p) == \A n \in 1 .. MaxTx : txs[p][n] \notin {"mempool", "confirmed"}

\* What is executed is the worker's, and was not sent before.
ExecutedFirst ==
  \A x \in Process, p \in Payment : Executing(x, p) =>
    /\ x \in Worker /\ store[p].status # "absent"
    /\ sent[p] = IF Answered(x, p) THEN job[x].tx ELSE 0

\* A payment is sent once, and then it is in hand or past.
SentOnce ==
  /\ \A x \in Process : job[x].step = "executed" => job[x].current \in job[x].todo
  /\ \A p \in Payment : sent[p] \in {0, 1}
  /\ \A p \in Payment :
       sent[p] # 0 /\ (\A x \in Process : ~Executing(x, p)) => Past(p)

\* Who waits for a confirmation is past, and without a transaction was not sent.
ConfirmedPast ==
  /\ \A p \in Payment : store[p].status = "submitted" =>
       Past(p) /\ (store[p].tx = 0 => sent[p] = 0)
  /\ \A x \in Process, p \in Payment : Confirming(x, p) =>
       Past(p) /\ (job[x].copies[p].tx = 0 => sent[p] = 0)

FailedUnpaid ==
  \A p \in Payment : store[p].status = "failed" /\ ~store[p].retryable =>
    Past(p) /\ Unpaid(p)

PInv ==
  /\ \A x \in Process : job[x].step # "operate"
  /\ ExecutedFirst
  /\ SentOnce
  /\ ConfirmedPast
  /\ FailedUnpaid

\* One worker executes at a time, and nobody executes what is past.
LEMMA ExecutorIsAlone ==
  ASSUME PInv, OneExecutes, NEW p \in Payment, NEW x \in Process, Executing(x, p)
  PROVE  /\ \A y \in Process : Executing(y, p) => y = x
         /\ ~Past(p)
BY DEF PInv, ExecutedFirst, OneExecutes, Past

\* The records keep what the invariant reads of them.
SameRecords ==
  \A p \in Payment :
    /\ store'[p].status = store[p].status /\ store'[p].retryable = store[p].retryable
    /\ store'[p].tx = store[p].tx

\* A step of x that writes nothing but locks and sends nothing.
LEMMA JobKeepsPast ==
  ASSUME PInv, OneExecutes, TypeOK, UNCHANGED <<sent, txs>>, SameRecords,
         NEW x \in Process, NEW j, job' = [job EXCEPT ![x] = j],
         \A p \in Payment : Executing(x, p)' =>
           \/ Executing(x, p)
           \/ /\ x \in Worker /\ Executable(store[p])
              /\ \A y \in Process : ~Executing(y, p),
         job[x].step # "executed", j.step \notin {"executed", "operate"},
         \A p \in Payment : Confirming(x, p)' =>
           \/ Confirming(x, p) /\ j.copies[p].tx = job[x].copies[p].tx
           \/ store[p].status = "submitted" /\ j.copies[p].tx = store[p].tx
  PROVE  PInv'
<1>0. job'[x] = j /\ \A y \in Process \ {x} : job'[y] = job[y]
  BY DEF TypeOK
<1>1. \A y \in Process \ {x}, p \in Payment :
        /\ Executing(y, p)' <=> Executing(y, p)
        /\ Confirming(y, p)' <=> Confirming(y, p)
        /\ Answered(y, p)' <=> Answered(y, p)
  BY <1>0 DEF Executing, Confirming, Answered
<1>2. \A p \in Payment : Executable(store'[p]) <=> Executable(store[p])
  BY DEF SameRecords, Executable
<1>3. \A p \in Payment : Past(p) => Past(p)'
  BY <1>1, <1>2 DEF Past, SameRecords
<1>4. ASSUME NEW y \in Process, NEW p \in Payment, Executing(y, p)'
      PROVE  /\ y \in Worker /\ store'[p].status # "absent"
             /\ sent'[p] = IF Answered(y, p)' THEN job'[y].tx ELSE 0
  <2>1. CASE y # x
    BY <1>0, <1>1, <1>4, <2>1 DEF PInv, ExecutedFirst, SameRecords
  <2>2. CASE y = x /\ Executing(x, p)
    BY <1>0, <2>2 DEF PInv, ExecutedFirst, SameRecords, Answered
  <2>3. CASE /\ y = x /\ x \in Worker /\ Executable(store[p])
             /\ \A z \in Process : ~Executing(z, p)
    <3>1. sent[p] = 0
      BY <2>3 DEF PInv, SentOnce, Past
    <3> QED
      BY <1>0, <2>3, <3>1 DEF SameRecords, Executable, Answered
  <2> QED
    BY <1>4, <2>1, <2>2, <2>3
<1>5. ExecutedFirst'
  BY <1>4 DEF ExecutedFirst
<1>6. ASSUME NEW p \in Payment, sent[p] # 0, \A y \in Process : ~Executing(y, p)'
      PROVE  Past(p)'
  <2>1. CASE \A y \in Process : ~Executing(y, p)
    BY <1>3, <1>6, <2>1 DEF PInv, SentOnce
  <2>2. CASE Executing(x, p)
    BY <1>6, <2>2 DEF PInv, ExecutedFirst, Answered
  <2> QED
    BY <1>1, <1>6, <2>1, <2>2
<1>7. \A y \in Process : job'[y].step = "executed" => job'[y].current \in job'[y].todo
  BY <1>0 DEF PInv, SentOnce
<1>8. SentOnce'
  BY <1>6, <1>7 DEF PInv, SentOnce
<1>9. ASSUME NEW y \in Process, NEW p \in Payment, Confirming(y, p)'
      PROVE  Past(p)' /\ (job'[y].copies[p].tx = 0 => sent'[p] = 0)
  BY <1>0, <1>1, <1>3, <1>9 DEF PInv, ConfirmedPast
<1>10. ConfirmedPast'
  BY <1>3, <1>9 DEF PInv, ConfirmedPast, SameRecords
<1>11. FailedUnpaid'
  BY <1>3 DEF PInv, FailedUnpaid, SameRecords, Unpaid
<1> QED
  BY <1>0, <1>5, <1>8, <1>10, <1>11 DEF PInv

\* What is left of a job.
LEMMA RestFacts ==
  ASSUME TypeOK, NEW x \in Process, NEW p \in Payment, NEW step
  PROVE  /\ Rest(x, step, p).step \in {step, "idle"} /\ Rest(x, step, p).todo = job[x].todo \ {p}
         /\ \A q \in job[x].todo \ {p} : Rest(x, step, p).copies[q] = job[x].copies[q]
<1> DEFINE T == job[x].todo \ {p}
<1>1. T \subseteq Payment
  BY JobFacts
<1> HIDE DEF T
<1>2. LET j == Begin(step, T, job[x].copies) IN
      /\ j.step \in {step, "idle"} /\ j.todo = T
      /\ \A q \in T : j.copies[q] = job[x].copies[q]
  BY <1>1, BeginFacts
<1> QED
  BY <1>2 DEF Rest, T

\* A step in which x writes the record of p and lets go of it.
LEMMA WriteKeepsPast ==
  ASSUME PInv, OneExecutes, TypeOK, UNCHANGED <<sent, txs>>,
         NEW x \in Process, NEW p \in Payment, p \in job[x].todo,
         NEW step \in {"touch", "execute", "confirm"}, NEW record,
         step = "execute" => Executing(x, p) /\ job[x].step \in {"execute", "executed"},
         step = "execute" /\ job[x].step = "executed" => job[x].current = p,
         step # "execute" => job[x].step = step,
         store' = [store EXCEPT ![p] = record],
         job' = [job EXCEPT ![x] = Rest(x, step, p)],
         record.status # "absent",
         Executable(record) => Executing(x, p) /\ sent[p] = 0,
         record.status = "submitted" =>
           (Past(p) \/ Executing(x, p)) /\ (record.tx = 0 => sent[p] = 0),
         record.status = "failed" /\ ~record.retryable => Past(p) /\ Unpaid(p)
  PROVE  PInv'
<1> DEFINE j == Rest(x, step, p)
<1>0. job'[x] = j /\ (\A y \in Process \ {x} : job'[y] = job[y]) /\ job[x].todo \subseteq Payment
  BY JobFacts DEF TypeOK
<1>1. /\ j.step \in {step, "idle"} /\ j.todo = job[x].todo \ {p}
      /\ \A q \in job[x].todo \ {p} : j.copies[q] = job[x].copies[q]
  BY RestFacts
<1> HIDE DEF j
<1>2. \A y \in Process \ {x}, q \in Payment :
        /\ Executing(y, q)' <=> Executing(y, q)
        /\ Confirming(y, q)' <=> Confirming(y, q)
        /\ Answered(y, q)' <=> Answered(y, q)
  BY <1>0 DEF Executing, Confirming, Answered
<1>3. store'[p] = record /\ \A q \in Payment \ {p} : store'[q] = store[q]
  BY DEF TypeOK
<1>4. \A q \in Payment :
        /\ Executing(x, q)' => Executing(x, q) /\ q # p /\ ~Answered(x, q)' /\ ~Answered(x, q)
        /\ Executing(x, q) /\ q # p => ~Answered(x, q) /\ sent[q] = 0
  <2>1. \A q \in Payment : Executing(x, q)' => Executing(x, q) /\ q # p /\ ~Answered(x, q)'
    BY <1>0, <1>1 DEF Executing, Answered
  <2>2. \A q \in Payment : Executing(x, q) /\ q # p => ~Answered(x, q)
    BY DEF Executing, Answered
  <2> QED
    BY <2>1, <2>2 DEF PInv, ExecutedFirst
<1>5. \A q \in Payment : Confirming(x, q)' =>
        Confirming(x, q) /\ j.copies[q].tx = job[x].copies[q].tx
  BY <1>0, <1>1 DEF Confirming
<1>6. \A q \in Payment \ {p} : Past(q) => Past(q)'
  BY <1>2, <1>3, <1>4 DEF Past
<1>7. ~Executable(record) /\ (Past(p) \/ Executing(x, p)) => Past(p)'
  BY <1>2, <1>3, <1>4, ExecutorIsAlone DEF Past
<1>8. Past(p) => ~Executable(record) /\ Past(p)'
  BY <1>7 DEF Past
<1>9. ASSUME NEW y \in Process, NEW q \in Payment, Executing(y, q)'
      PROVE  /\ y \in Worker /\ store'[q].status # "absent"
             /\ sent'[q] = IF Answered(y, q)' THEN job'[y].tx ELSE 0
  <2>1. Executing(y, q) /\ store'[q].status # "absent"
    BY <1>2, <1>3, <1>4, <1>9 DEF PInv, ExecutedFirst
  <2>2. CASE y = x
    BY <1>4, <1>9, <2>1, <2>2 DEF PInv, ExecutedFirst
  <2>3. CASE y # x
    BY <1>0, <1>2, <2>1, <2>3 DEF PInv, ExecutedFirst
  <2> QED
    BY <2>2, <2>3
<1>10. ExecutedFirst'
  BY <1>9 DEF ExecutedFirst
<1>11. ASSUME NEW q \in Payment, sent[q] # 0, \A y \in Process : ~Executing(y, q)'
       PROVE  Past(q)'
  <2>1. CASE q = p
    BY <1>2, <1>7, <1>11, <2>1 DEF PInv, SentOnce
  <2>2. CASE q # p
    BY <1>2, <1>4, <1>6, <1>11, <2>2 DEF PInv, SentOnce
  <2> QED
    BY <2>1, <2>2
<1>12. \A y \in Process : job'[y].step = "executed" => job'[y].current \in job'[y].todo
  BY <1>0, <1>1 DEF PInv, SentOnce
<1>13. SentOnce'
  BY <1>11, <1>12 DEF PInv, SentOnce
<1>14. ASSUME NEW q \in Payment, store'[q].status = "submitted"
       PROVE  Past(q)' /\ (store'[q].tx = 0 => sent'[q] = 0)
  <2>1. CASE q = p
    BY <1>3, <1>7, <1>14, <2>1 DEF Executable
  <2>2. CASE q # p
    BY <1>3, <1>6, <1>14, <2>2 DEF PInv, ConfirmedPast
  <2> QED
    BY <2>1, <2>2
<1>15. ASSUME NEW y \in Process, NEW q \in Payment, Confirming(y, q)'
       PROVE  Past(q)' /\ (job'[y].copies[q].tx = 0 => sent'[q] = 0)
  <2>1. Confirming(y, q) /\ job'[y].copies[q].tx = job[y].copies[q].tx
    BY <1>0, <1>2, <1>5, <1>15
  <2> QED
    BY <1>6, <1>8, <2>1 DEF PInv, ConfirmedPast
<1>16. ConfirmedPast'
  BY <1>14, <1>15 DEF ConfirmedPast
<1>17. ASSUME NEW q \in Payment, store'[q].status = "failed", ~store'[q].retryable
       PROVE  Past(q)' /\ Unpaid(q)'
  <2>1. CASE q = p
    BY <1>3, <1>8, <1>17, <2>1 DEF Unpaid
  <2>2. CASE q # p
    BY <1>3, <1>6, <1>17, <2>2 DEF PInv, FailedUnpaid, Unpaid
  <2> QED
    BY <2>1, <2>2
<1> QED
  BY <1>0, <1>1, <1>10, <1>13, <1>16, <1>17 DEF PInv, FailedUnpaid

-----------------------------------------------------------------------------
(* The steps that write no outcome.                                        *)

LEMMA LocksKeepRecords ==
  ASSUME TypeOK, NEW S \in SUBSET Payment, NEW stage \in {"execution", "confirmation"},
         store' = [p \in Payment |-> IF p \in S THEN WithLock(store[p], stage) ELSE store[p]]
  PROVE  SameRecords
<1>1. ASSUME NEW p \in Payment
      PROVE  /\ WithLock(store[p], stage).status = store[p].status
             /\ WithLock(store[p], stage).retryable = store[p].retryable
             /\ WithLock(store[p], stage).tx = store[p].tx
  <2>1. store[p] \in PaymentRecord
    BY DEF TypeOK
  <2> QED
    BY <2>1 DEF WithLock, PaymentRecord
<1> QED
  BY <1>1 DEF SameRecords

\* x turns to something that neither executes nor confirms.
LEMMA AsideKeepsPast ==
  ASSUME PInv, OneExecutes, TypeOK, UNCHANGED <<sent, txs>>, SameRecords,
         NEW x \in Process, NEW j, job' = [job EXCEPT ![x] = j],
         job[x].step # "executed", j.step \in {"idle", "touch", "lockConfirmation"}
  PROVE  PInv'
<1>1. job'[x] = j
  BY DEF TypeOK
<1>2. \A p \in Payment : ~Executing(x, p)' /\ ~Confirming(x, p)'
  BY <1>1 DEF Executing, Confirming
<1> QED
  BY <1>2, JobKeepsPast

LEMMA ReadKeepsPast ==
  ASSUME PInv, OneExecutes, TypeOK, UNCHANGED <<sent, txs>>, SameRecords,
         NEW x \in Process, job[x].step # "executed", NEW S \in SUBSET Payment,
         ReadForTouch(x, S)
  PROVE  PInv'
<1> DEFINE T == {p \in S : store[p].status = "authorized"}
           j == Begin("touch", T, store)
<1>1. j.step \in {"touch", "idle"}
  BY BeginFacts
<1>2. job' = [job EXCEPT ![x] = j]
  BY DEF ReadForTouch
<1> HIDE DEF j
<1> QED
  BY <1>1, <1>2, AsideKeepsPast

LEMMA IdleKeepsPast ==
  ASSUME PInv, OneExecutes, TypeOK, UNCHANGED <<sent, txs>>, SameRecords,
         NEW x \in Process, job[x].step # "executed", job' = [job EXCEPT ![x] = Idle]
  PROVE  PInv'
BY AsideKeepsPast DEF Idle

\* The only worker, when it is idle, leaves everything to be executed by nobody.
LEMMA IdleWorker ==
  ASSUME PInv, OneExecutes, NEW w \in Worker, IsIdle(w), NEW p \in Payment, NEW y \in Process
  PROVE  ~Executing(y, p)
BY DEF PInv, ExecutedFirst, OneExecutes, IsIdle, Executing

LEMMA BeginExecuteKeepsPast ==
  ASSUME PInv, OneExecutes, TypeOK, UNCHANGED <<sent, txs, store>>,
         NEW w \in Worker, IsIdle(w), NEW p \in Payment, BeginExecutePayment(w, p)
  PROVE  PInv'
<1>0. w \in Process /\ SameRecords /\ job[w].step # "executed"
  BY DEF Process, SameRecords, IsIdle
<1>1. CASE Executable(store[p])
  <2> DEFINE j == Begin("lockExecution", {p}, NoCopies)
  <2>1. job' = [job EXCEPT ![w] = j]
    BY <1>1 DEF BeginExecutePayment
  <2>2. {p} # {}
    OBVIOUS
  <2>3. j.step = "lockExecution" /\ j.todo = {p}
    BY <2>2 DEF Begin
  <2> HIDE DEF j
  <2>4. job'[w] = j
    BY <1>0, <2>1 DEF TypeOK
  <2>5. \A q \in Payment : (Executing(w, q)' => q = p) /\ ~Confirming(w, q)'
    BY <2>3, <2>4 DEF Executing, Confirming
  <2>6. \A y \in Process : ~Executing(y, p)
    BY IdleWorker
  <2> QED
    BY <1>0, <1>1, <2>1, <2>3, <2>5, <2>6, JobKeepsPast
<1>2. CASE ~Executable(store[p])
  BY <1>0, <1>2, IdleKeepsPast DEF BeginExecutePayment
<1> QED
  BY <1>1, <1>2

LEMMA ClaimKeepsPast ==
  ASSUME PInv, OneExecutes, TypeOK, UNCHANGED <<sent, txs>>, NEW x \in Process, IsIdle(x),
         NEW status \in {"authorized", "submitted"},
         NEW stage \in {"execution", "confirmation"}, NEW step \in {"execute", "confirm"},
         step = "execute" => x \in Worker /\ status = "authorized",
         step = "confirm" => status = "submitted",
         ClaimForProcessing(x, status, stage, step)
  PROVE  PInv'
<1> DEFINE S == {p \in Payment : store[p].status = status /\ ~Locked(store[p])}
           locked == [p \in Payment |-> IF p \in S THEN WithLock(store[p], stage)
                                        ELSE store[p]]
           j == Begin(step, S, locked)
<1>1. store' = locked /\ job' = [job EXCEPT ![x] = j]
  BY DEF ClaimForProcessing
<1>2. S \in SUBSET Payment /\ \A p \in S : store[p].status = status
  OBVIOUS
<1>3. store' = [p \in Payment |-> IF p \in S THEN WithLock(store[p], stage) ELSE store[p]]
  BY <1>1
<1> HIDE DEF S, locked
<1>4. j.step \in {step, "idle"} /\ j.todo = S /\ \A p \in S : j.copies[p] = locked[p]
  <2>1. S \subseteq Payment
    BY <1>2
  <2> QED
    BY <2>1, BeginFacts
<1> HIDE DEF j
<1>5. SameRecords
  BY <1>2, <1>3, LocksKeepRecords
<1>6. job'[x] = j
  BY <1>1 DEF TypeOK
<1>7. ASSUME NEW p \in Payment, Executing(x, p)'
      PROVE  /\ x \in Worker /\ Executable(store[p])
             /\ \A y \in Process : ~Executing(y, p)
  <2>1. step = "execute" /\ p \in S
    BY <1>4, <1>6, <1>7 DEF Executing
  <2> QED
    BY <1>2, <2>1, IdleWorker DEF Executable
<1>8. ASSUME NEW p \in Payment, Confirming(x, p)'
      PROVE  store[p].status = "submitted" /\ j.copies[p].tx = store[p].tx
  <2>1. step = "confirm" /\ p \in S
    BY <1>4, <1>6, <1>8 DEF Confirming
  <2> QED
    BY <1>1, <1>2, <1>4, <1>5, <2>1 DEF SameRecords
<1>9. job[x].step # "executed" /\ j.step \notin {"executed", "operate"}
  BY <1>4 DEF IsIdle
<1>10. job' = [job EXCEPT ![x] = j]
  BY <1>1
<1>11. \A p \in Payment : Executing(x, p)' =>
         \/ Executing(x, p)
         \/ /\ x \in Worker /\ Executable(store[p])
            /\ \A y \in Process : ~Executing(y, p)
  BY <1>7
<1>12. \A p \in Payment : Confirming(x, p)' =>
         \/ Confirming(x, p) /\ j.copies[p].tx = job[x].copies[p].tx
         \/ store[p].status = "submitted" /\ j.copies[p].tx = store[p].tx
  BY <1>8
<1> QED
  BY <1>5, <1>9, <1>10, <1>11, <1>12, JobKeepsPast

LEMMA BeginReconcileKeepsPast ==
  ASSUME PInv, OneExecutes, TypeOK, UNCHANGED <<sent, txs, store>>,
         NEW x \in Process, IsIdle(x), NEW p \in Payment, BeginReconcilePayment(x, p)
  PROVE  PInv'
<1>0. SameRecords /\ job[x].step # "executed"
  BY DEF SameRecords, IsIdle
<1>1. CASE store[p].status = "submitted"
  <2> DEFINE j == Begin("lockConfirmation", {p}, NoCopies)
  <2>1. job' = [job EXCEPT ![x] = j]
    BY <1>1 DEF BeginReconcilePayment
  <2>2. {p} # {}
    OBVIOUS
  <2>3. j.step = "lockConfirmation"
    BY <2>2 DEF Begin
  <2> HIDE DEF j
  <2> QED
    BY <1>0, <2>1, <2>3, AsideKeepsPast
<1>2. CASE store[p].status # "submitted"
  BY <1>0, <1>2, ReadKeepsPast DEF BeginReconcilePayment
<1> QED
  BY <1>1, <1>2

LEMMA LockKeepsPast ==
  ASSUME PInv, OneExecutes, TypeOK, NEW x \in Process, NEW p \in Payment,
         LockExecution(x, p) \/ LockConfirmation(x, p)
  PROVE  PInv'
<1>0. /\ UNCHANGED <<sent, txs>> /\ p \in job[x].todo
      /\ job[x].step \in {"lockExecution", "lockConfirmation"}
      /\ {p} \in SUBSET Payment /\ {p} \subseteq Payment
  BY DEF LockExecution, LockConfirmation, chainVars
<1>1. CASE ReadForTouch(x, {p}) /\ UNCHANGED store
  BY <1>0, <1>1, ReadKeepsPast DEF SameRecords
<1>2. CASE LockExecution(x, p) /\ ~Locked(store[p])
  <2> DEFINE j == Begin("execute", {p}, store')
  <2>1. /\ job' = [job EXCEPT ![x] = j] /\ job[x].step = "lockExecution"
        /\ store' = [store EXCEPT ![p] = WithLock(@, "execution")]
    BY <1>2 DEF LockExecution
  <2>2. j.step \in {"execute", "idle"} /\ j.todo = {p}
    BY <1>0, BeginFacts
  <2> HIDE DEF j
  <2>3. job'[x] = j
    BY <2>1 DEF TypeOK
  <2>4. SameRecords
    BY <1>0, <2>1, LocksKeepRecords DEF TypeOK
  <2>5. \A q \in Payment : (Executing(x, q)' => Executing(x, q)) /\ ~Confirming(x, q)'
    BY <1>0, <2>1, <2>2, <2>3 DEF Executing, Confirming
  <2> QED
    BY <1>0, <2>1, <2>2, <2>4, <2>5, JobKeepsPast
<1>3. CASE LockConfirmation(x, p) /\ ~Locked(store[p])
  <2>1. store' = [store EXCEPT ![p] = WithLock(@, "confirmation")]
    BY <1>3 DEF LockConfirmation
  <2>2. SameRecords
    BY <1>0, <2>1, LocksKeepRecords DEF TypeOK
  <2>3. CASE store[p].status = "submitted"
    <3> DEFINE j == Begin("confirm", {p}, store')
    <3>1. job' = [job EXCEPT ![x] = j]
      BY <1>3, <2>3 DEF LockConfirmation
    <3>2. {p} # {}
      OBVIOUS
    <3>3. j = [step |-> "confirm", todo |-> {p},
               copies |-> [q \in Payment |-> IF q \in {p} THEN store'[q] ELSE Blank],
               current |-> Nobody, tx |-> 0]
      BY <3>2 DEF Begin
    <3>4. j.step = "confirm" /\ j.todo = {p} /\ j.copies[p] = store'[p]
      BY <3>3
    <3> HIDE DEF j
    <3>5. job'[x] = j
      BY <3>1 DEF TypeOK
    <3>6. \A q \in Payment : (Confirming(x, q)' => q = p) /\ ~Executing(x, q)'
      BY <3>4, <3>5 DEF Executing, Confirming
    <3>7. j.copies[p].tx = store[p].tx
      BY <2>2, <3>4 DEF SameRecords
    <3> QED
      BY <1>0, <2>2, <2>3, <3>1, <3>4, <3>6, <3>7, JobKeepsPast
  <2>4. CASE store[p].status # "submitted"
    <3>1. job' = [job EXCEPT ![x] = Idle]
      BY <1>3, <2>4 DEF LockConfirmation
    <3> QED
      BY <1>0, <2>2, <3>1, IdleKeepsPast
  <2> QED
    BY <2>3, <2>4
<1> QED
  BY <1>1, <1>2, <1>3 DEF LockExecution, LockConfirmation

-----------------------------------------------------------------------------
(* The steps that write an outcome.                                        *)

LEMMA TouchKeepsPast ==
  ASSUME PInv, OneExecutes, TypeOK, NEW x \in Process, NEW p \in Payment, TouchPayment(x, p)
  PROVE  PInv'
<1> DEFINE record == Expired(job[x].copies[p])
           j == Rest(x, "touch", p)
<1>0. /\ UNCHANGED <<sent, txs>> /\ p \in job[x].todo /\ job[x].step = "touch"
      /\ job' = [job EXCEPT ![x] = j]
  BY DEF TouchPayment, chainVars
<1>1. CASE Overdue(p, job[x].copies[p])
  <2>1. store' = [store EXCEPT ![p] = record]
    BY <1>1 DEF TouchPayment
  <2>2. record.status = "expired"
    BY JobFacts DEF Expired, PaymentRecord
  <2> HIDE DEF record
  <2> QED
    BY <1>0, <2>1, <2>2, WriteKeepsPast DEF Executable
<1>2. CASE ~Overdue(p, job[x].copies[p])
  <2>1. SameRecords
    BY <1>2 DEF TouchPayment, SameRecords, TypeOK
  <2>2. j.step \in {"touch", "idle"}
    BY RestFacts
  <2> HIDE DEF j
  <2> QED
    BY <1>0, <2>1, <2>2, AsideKeepsPast
<1> QED
  BY <1>1, <1>2

LEMMA TooLateKeepsPast ==
  ASSUME PInv, OneExecutes, TypeOK, NEW x \in Process, NEW p \in Payment, ExecuteTooLate(x, p)
  PROVE  PInv'
<1> DEFINE record == Unlocked(Expired(job[x].copies[p]))
<1>1. /\ UNCHANGED <<sent, txs>> /\ p \in job[x].todo /\ job[x].step = "execute"
      /\ job' = [job EXCEPT ![x] = Rest(x, "execute", p)]
      /\ store' = [store EXCEPT ![p] = record]
  BY DEF ExecuteTooLate, chainVars
<1>2. record.status = "expired"
  BY JobFacts DEF Expired, Unlocked, PaymentRecord
<1> HIDE DEF record
<1> QED
  BY <1>1, <1>2, WriteKeepsPast DEF Executable, Executing

\* A transaction's id is written down; a failure means that none was sent.
LEMMA RecordKeepsPast ==
  ASSUME PInv, OneExecutes, TypeOK, NEW x \in Process, NEW p \in Payment, RecordExecution(x, p)
  PROVE  PInv'
<1> DEFINE copy == job[x].copies[p]
           record == IF job[x].tx # 0 THEN Submitted(copy, job[x].tx)
                     ELSE ExecutionFailed(copy)
<1>1. /\ UNCHANGED <<sent, txs>> /\ job[x].step = "executed" /\ job[x].current = p
      /\ job' = [job EXCEPT ![x] = Rest(x, "execute", p)]
      /\ store' = [store EXCEPT ![p] = record]
  BY DEF RecordExecution, chainVars
<1>2. p \in job[x].todo /\ Executing(x, p) /\ Answered(x, p)
  BY <1>1 DEF PInv, SentOnce, Executing, Answered
<1>3. sent[p] = job[x].tx
  BY <1>2 DEF PInv, ExecutedFirst
<1>4. IF job[x].tx # 0 THEN record.status = "submitted" /\ record.tx = job[x].tx
                       ELSE record.status = "failed" /\ record.retryable
  BY JobFacts DEF Submitted, ExecutionFailed, Unlocked, PaymentRecord
<1> HIDE DEF record
<1> QED
  BY <1>1, <1>2, <1>3, <1>4, WriteKeepsPast DEF Executable

\* The one transaction that was sent is the one that reverted.
LEMMA ConfirmKeepsPast ==
  ASSUME PInv, OneExecutes, IInv, ExecutionsAnswered,
         NEW x \in Process, NEW p \in Payment, Confirm(x, p)
  PROVE  PInv'
<1> DEFINE copy == job[x].copies[p]
           attempted == Attempted(copy)
           settled == [attempted EXCEPT !.status = "settled", !.retryable = FALSE,
                                        !.confirmation = "confirmed"]
           failed == [attempted EXCEPT !.status = "failed", !.retryable = FALSE,
                                       !.confirmation = "failed"]
           pending == [attempted EXCEPT !.confirmation = "pending"]
<1>1. \/ copy.tx # 0 /\ ConfirmWith(x, p, settled)
      \/ /\ copy.tx # 0 /\ txs[p][copy.tx] = "reverted"
         /\ ConfirmWith(x, p, failed)
      \/ copy.tx # 0 /\ ConfirmWith(x, p, pending)
      \/ copy.tx = 0 /\ ConfirmWith(x, p, failed)
  BY DEF Confirm, ConfirmFinal, ConfirmPending, ConfirmError, ConfirmWithoutTx,
         ExecutionsAnswered
<1>2. /\ job[x].step = "confirm" /\ p \in job[x].todo /\ UNCHANGED <<sent, txs>>
      /\ job' = [job EXCEPT ![x] = Rest(x, "confirm", p)]
  BY <1>1 DEF ConfirmWith, chainVars
<1>3. TypeOK /\ Past(p) /\ (copy.tx = 0 => sent[p] = 0)
  BY <1>2 DEF IInv, PInv, ConfirmedPast, Confirming
<1>4. attempted \in PaymentRecord /\ attempted.status = "submitted" /\ attempted.tx = copy.tx
  BY <1>2, ConfirmedCopy
<1>5. copy.tx \in 0 .. MaxTx /\ MaxTx \in Nat /\ sent[p] \in {0, 1}
  BY <1>3, JobFacts, SettlementAssumption DEF PaymentRecord, TxNumber, PInv, SentOnce
<1> HIDE DEF attempted
<1>6. /\ settled.status = "settled"
      /\ failed.status = "failed" /\ ~failed.retryable
      /\ pending.status = "submitted" /\ pending.tx = copy.tx
  BY <1>4 DEF PaymentRecord
<1>7. copy.tx = 0 \/ txs[p][copy.tx] = "reverted" => Unpaid(p)
  <2> SUFFICES ASSUME copy.tx = 0 \/ txs[p][copy.tx] = "reverted", NEW n \in 1 .. MaxTx
               PROVE  txs[p][n] \notin {"mempool", "confirmed"}
    BY DEF Unpaid
  <2>1. \A m \in 1 .. MaxTx : m > sent[p] => txs[p][m] = "none"
    BY DEF IInv, ClaimsMatchChannels
  <2> HIDE DEF copy
  <2>2. n > sent[p] \/ (n = 1 /\ sent[p] = 1 /\ copy.tx # 0)
    BY <1>3, <1>5
  <2>3. copy.tx # 0 => copy.tx \in 1 .. MaxTx
    BY <1>5
  <2>4. copy.tx # 0 /\ sent[p] = 1 => copy.tx = 1
    BY <1>5, <2>1, <2>3
  <2> QED
    BY <2>1, <2>2, <2>4
<1> HIDE DEF settled, failed, pending, copy
<1>8. PICK record :
        /\ store' = [store EXCEPT ![p] = record]
        /\ \/ record.status = "settled"
           \/ record.status = "failed" /\ Unpaid(p)
           \/ record.status = "submitted" /\ record.tx # 0
        /\ record.status = "failed" => ~record.retryable
  BY <1>1, <1>6, <1>7 DEF ConfirmWith
<1> QED
  BY <1>2, <1>3, <1>8, WriteKeepsPast DEF Executable

-----------------------------------------------------------------------------
(* The steps of the executor, the chain and the buyers.                    *)

\* What is executed was not sent before, and it is neither past nor confirmed.
LEMMA ExecuteKeepsPast ==
  ASSUME PInv, OneExecutes, IInv, ExecutionsAnswered, NEW x \in Process, NEW p \in Payment,
         NEW isSent \in BOOLEAN, NEW answer \in TxNumber, Execute(x, p, isSent, answer)
  PROVE  PInv'
<1> DEFINE j == [job[x] EXCEPT !.step = "executed", !.current = p, !.tx = answer]
<1>1. /\ job' = [job EXCEPT ![x] = j] /\ UNCHANGED store
      /\ job[x].step = "execute" /\ p \in job[x].todo
  BY DEF Execute
<1>2. job[x] \in Job /\ TypeOK
  BY JobFacts DEF IInv
<1>3. /\ j.step = "executed" /\ j.current = p /\ j.tx = answer
      /\ j.todo = job[x].todo
  BY <1>2 DEF Job
<1> HIDE DEF j
<1>4. job'[x] = j /\ \A y \in Process \ {x} : job'[y] = job[y]
  BY <1>1, <1>2 DEF TypeOK
<1>5. Executing(x, p) /\ ~Answered(x, p) /\ sent[p] = 0
  BY <1>1 DEF Executing, Answered, PInv, ExecutedFirst
<1>6. /\ sent'[p] = answer /\ answer \in {0, 1}
      /\ \A q \in Payment \ {p} : sent'[q] = sent[q] /\ txs'[q] = txs[q]
  BY <1>2, <1>5 DEF Execute, ExecutionsAnswered, TypeOK
<1>7. \A y \in Process, q \in Payment :
        /\ Executing(y, q)' <=> Executing(y, q)
        /\ Confirming(y, q)' => Confirming(y, q) /\ job'[y] = job[y]
        /\ Answered(y, q)' <=> IF y = x THEN q = p ELSE Answered(y, q)
  BY <1>1, <1>3, <1>4 DEF Executing, Confirming, Answered
<1>8. \A q \in Payment : (Past(q)' <=> Past(q)) /\ (Past(q) => q # p)
  BY <1>1, <1>5, <1>7 DEF Past
<1>9. ASSUME NEW y \in Process, NEW q \in Payment, Executing(y, q)'
      PROVE  /\ y \in Worker /\ store'[q].status # "absent"
             /\ sent'[q] = IF Answered(y, q)' THEN job'[y].tx ELSE 0
  <2>1. Executing(y, q) /\ y \in Worker /\ store'[q].status # "absent"
    BY <1>1, <1>7, <1>9 DEF PInv, ExecutedFirst
  <2>2. x = y
    BY <1>5, <2>1 DEF PInv, ExecutedFirst, OneExecutes
  <2>3. CASE q = p
    <3>1. Answered(x, p)' /\ job'[x].tx = answer
      BY <1>3, <1>4, <1>7
    <3> QED
      BY <1>6, <2>1, <2>2, <2>3, <3>1
  <2>4. CASE q # p
    BY <1>1, <1>6, <1>7, <2>1, <2>2, <2>4 DEF PInv, ExecutedFirst, Answered
  <2> QED
    BY <2>1, <2>3, <2>4
<1>10. ExecutedFirst'
  BY <1>9 DEF ExecutedFirst
<1>11. SentOnce'
  <2>1. \A y \in Process : job'[y].step = "executed" => job'[y].current \in job'[y].todo
    BY <1>1, <1>3, <1>4 DEF PInv, SentOnce
  <2>2. \A q \in Payment : sent'[q] \in {0, 1}
    BY <1>6 DEF PInv, SentOnce
  <2>3. ASSUME NEW q \in Payment, sent'[q] # 0, \A y \in Process : ~Executing(y, q)'
        PROVE  Past(q)'
    <3>1. q # p
      BY <1>5, <1>7, <2>3
    <3> QED
      BY <1>6, <1>7, <1>8, <2>3, <3>1 DEF PInv, SentOnce
  <2> QED
    BY <2>1, <2>2, <2>3 DEF SentOnce
<1>12. ConfirmedPast'
  BY <1>1, <1>6, <1>7, <1>8 DEF PInv, ConfirmedPast
<1>13. FailedUnpaid'
  BY <1>1, <1>6, <1>8 DEF PInv, FailedUnpaid, Unpaid
<1>14. \A y \in Process : job'[y].step # "operate"
  BY <1>3, <1>4 DEF PInv
<1> QED
  BY <1>10, <1>11, <1>12, <1>13, <1>14 DEF PInv

\* The chain finishes with transactions that are on their way.
LEMMA ChainKeepsPast ==
  ASSUME PInv, TypeOK, ChainStep
  PROVE  PInv'
<1>1. store' = store /\ job' = job /\ sent' = sent
  BY DEF ChainStep, Tick, Mine, DropTransaction, CloseChannel, chainVars
<1>2. \A p \in Payment : Unpaid(p) => Unpaid(p)'
  <2>1. CASE UNCHANGED txs
    BY <2>1 DEF Unpaid
  <2>2. ASSUME NEW q \in Payment, NEW m \in 1 .. MaxTx, Mine(q, m) \/ DropTransaction(q, m)
        PROVE  \A p \in Payment : Unpaid(p) => Unpaid(p)'
    <3>1. txs[q][m] = "mempool" /\ \A p \in Payment \ {q} : txs'[p] = txs[p]
      BY <2>2 DEF Mine, DropTransaction, TypeOK
    <3>2. ~Unpaid(q)
      BY <3>1 DEF Unpaid
    <3> QED
      BY <3>1, <3>2 DEF Unpaid
  <2> QED
    BY <2>1, <2>2 DEF ChainStep, Tick, CloseChannel, chainVars
<1>3. /\ \A p \in Payment : Past(p)' <=> Past(p)
      /\ \A x \in Process, p \in Payment :
           /\ Executing(x, p)' <=> Executing(x, p)
           /\ Confirming(x, p)' <=> Confirming(x, p)
           /\ Answered(x, p)' <=> Answered(x, p)
  BY <1>1 DEF Past, Executing, Confirming, Answered
<1>4. ExecutedFirst' /\ SentOnce' /\ ConfirmedPast'
  BY <1>1, <1>3 DEF PInv, ExecutedFirst, SentOnce, ConfirmedPast
<1>6. ASSUME NEW p \in Payment, store'[p].status = "failed" /\ ~store'[p].retryable
      PROVE  Past(p)' /\ Unpaid(p)'
  <2>1. Past(p) /\ Unpaid(p)
    BY <1>1, <1>6 DEF PInv, FailedUnpaid
  <2> QED
    BY <1>1, <1>2, <2>1 DEF Past, Executing
<1>7. FailedUnpaid'
  BY <1>6 DEF FailedUnpaid
<1> QED
  BY <1>1, <1>4, <1>7 DEF PInv

\* Nothing that the invariant reads changes.
LEMMA SamePast ==
  ASSUME PInv, store' = store, job' = job, sent' = sent, txs' = txs
  PROVE  PInv'
<1>1. /\ \A p \in Payment : Past(p)' <=> Past(p)
      /\ \A x \in Process, p \in Payment :
           /\ Executing(x, p)' <=> Executing(x, p)
           /\ Confirming(x, p)' <=> Confirming(x, p)
           /\ Answered(x, p)' <=> Answered(x, p)
  BY DEF Past, Executing, Confirming, Answered
<1> QED
  BY <1>1 DEF PInv, ExecutedFirst, SentOnce, ConfirmedPast, FailedUnpaid, Unpaid

\* A payment that enters the records was neither sent nor is it in hand.
LEMMA EntryKeepsPast ==
  ASSUME PInv, TypeOK, NEW p \in Payment, CreateIntent(p) \/ RecordPayment(p)
  PROVE  PInv'
<1>1. PICK status \in {"authorized", "submitted"} :
        store' = [store EXCEPT ![p] = [Blank EXCEPT !.status = status]]
  BY DEF CreateIntent, RecordPayment
<1>2. UNCHANGED <<job, sent, txs>> /\ store[p].status = "absent"
  BY DEF CreateIntent, RecordPayment, chainVars
<1>3. /\ store'[p].status = status /\ store'[p].tx = 0 /\ ~store'[p].retryable
      /\ \A q \in Payment \ {p} : store'[q] = store[q]
  BY <1>1 DEF TypeOK, Blank
<1>4. /\ \A x \in Process : ~Executing(x, p) /\ ~Confirming(x, p)
      /\ sent[p] = 0
  BY <1>2 DEF PInv, ExecutedFirst, SentOnce, ConfirmedPast, Past
<1>5. \A x \in Process, q \in Payment :
        /\ Executing(x, q)' <=> Executing(x, q)
        /\ Confirming(x, q)' <=> Confirming(x, q)
        /\ Answered(x, q)' <=> Answered(x, q)
  BY <1>2 DEF Executing, Confirming, Answered
<1>6. \A q \in Payment : q # p => (Past(q)' <=> Past(q))
  BY <1>3, <1>5 DEF Past
<1>7. status = "submitted" => Past(p)'
  BY <1>3, <1>4, <1>5 DEF Past, Executable
<1>8. ExecutedFirst'
  BY <1>2, <1>3, <1>4, <1>5 DEF PInv, ExecutedFirst
<1>9. SentOnce'
  BY <1>2, <1>4, <1>5, <1>6 DEF PInv, SentOnce
<1>10. ConfirmedPast'
  BY <1>2, <1>3, <1>4, <1>5, <1>6, <1>7 DEF PInv, ConfirmedPast
<1>11. FailedUnpaid'
  <2> SUFFICES ASSUME NEW q \in Payment, store'[q].status = "failed" /\ ~store'[q].retryable
               PROVE  Past(q)' /\ Unpaid(q)'
    BY DEF FailedUnpaid
  <2>1. q # p
    BY <1>3
  <2> QED
    BY <1>2, <1>3, <1>6, <2>1 DEF PInv, FailedUnpaid, Unpaid
<1> QED
  BY <1>2, <1>8, <1>9, <1>10, <1>11 DEF PInv

-----------------------------------------------------------------------------
(* What begins a call.                                                     *)

LEMMA RequestKeepsPast ==
  ASSUME PInv, OneExecutes, TypeOK, ExecutionsAnswered, NEW h \in Handler, Request(h)
  PROVE  PInv'
<1>0. h \in Process /\ (IsIdle(h) => job[h].step # "executed") /\ Payment \in SUBSET Payment
  BY DEF Process, IsIdle
<1>1. CASE RecoverPayments(h)
  BY <1>0, <1>1, ReadKeepsPast DEF RecoverPayments, SameRecords, chainVars
<1>2. CASE ReconcileSubmitted(h)
  BY <1>0, <1>2, ClaimKeepsPast DEF ReconcileSubmitted, chainVars
<1>3. ASSUME NEW p \in Payment, GetPayment(h, p) PROVE PInv'
  BY <1>0, <1>3, ReadKeepsPast DEF GetPayment, SameRecords, chainVars
<1>4. ASSUME NEW p \in Payment, ReconcilePayment(h, p) PROVE PInv'
  BY <1>0, <1>4, BeginReconcileKeepsPast DEF ReconcilePayment, chainVars
<1>5. /\ ~ExecutePending(h)
      /\ \A p \in Payment : ~ExecutePayment(h, p) /\ ~ReadForOperator(h, p)
  BY DEF ExecutePending, ExecutePayment, ReadForOperator, ExecutionsAnswered, OneExecutes
<1> QED
  BY <1>1, <1>2, <1>3, <1>4, <1>5 DEF Request

LEMMA RunOnceKeepsPast ==
  ASSUME PInv, OneExecutes, TypeOK, NEW w \in Worker, RunOnce(w)
  PROVE  PInv'
<1>0. w \in Process /\ (IsIdle(w) => job[w].step # "executed") /\ Payment \in SUBSET Payment
  BY DEF Process, IsIdle
<1>1. CASE ListUnfinished(w)
  BY <1>0, <1>1, ReadKeepsPast DEF ListUnfinished, NextTurn, SameRecords, chainVars
<1>2. CASE WorkerExecutePending(w)
  BY <1>0, <1>2, ClaimKeepsPast DEF WorkerExecutePending, NextTurn, chainVars
<1>3. CASE ListFailed(w)
  BY <1>3, SamePast DEF ListFailed, chainVars
<1>4. ASSUME NEW p \in Payment, RetryFailed(w, p) PROVE PInv'
  BY <1>0, <1>4, BeginExecuteKeepsPast DEF RetryFailed, chainVars
<1>5. CASE WorkerReconcileSubmitted(w)
  BY <1>0, <1>5, ClaimKeepsPast DEF WorkerReconcileSubmitted, NextTurn, chainVars
<1> QED
  BY <1>1, <1>2, <1>3, <1>4, <1>5 DEF RunOnce

LEMMA ContinueKeepsPast ==
  ASSUME PInv, OneExecutes, IInv, ExecutionsAnswered, NEW x \in Process, Continue(x)
  PROVE  PInv'
<1>1. ~\E p \in Payment : ApplyOperatorAction(x, p)
  BY DEF ApplyOperatorAction, PInv
<1> PICK p \in Payment :
      \/ TouchPayment(x, p)
      \/ LockExecution(x, p)
      \/ ExecuteTooLate(x, p)
      \/ \E isSent \in BOOLEAN, answer \in TxNumber : Execute(x, p, isSent, answer)
      \/ RecordExecution(x, p)
      \/ LockConfirmation(x, p)
      \/ Confirm(x, p)
  BY <1>1 DEF Continue
<1>2. TypeOK
  BY DEF IInv
<1> QED
  BY <1>2, TouchKeepsPast, LockKeepsPast, TooLateKeepsPast, ExecuteKeepsPast, RecordKeepsPast,
     ConfirmKeepsPast

LEMMA StepKeepsPast ==
  OneExecutes /\ ExecutionsAnswered /\ IInv /\ PInv /\ [Next]_vars => PInv'
<1> SUFFICES ASSUME OneExecutes, ExecutionsAnswered, IInv, PInv, [Next]_vars PROVE PInv'
  OBVIOUS
<1>0. TypeOK
  BY DEF IInv
<1>1. CASE UNCHANGED vars
  BY <1>1, SamePast DEF vars
<1>2. \A x \in Process : ~Crash(x)
  BY DEF Crash, ExecutionsAnswered
<1> QED
  BY <1>0, <1>1, <1>2, ChainKeepsPast, EntryKeepsPast, RequestKeepsPast, RunOnceKeepsPast,
     ContinueKeepsPast DEF Next

\* A payment the chain has paid is never written off as finally failed, where one
\* worker executes and each transaction it sends is written down with its id:
\* whoever reconciles beside it, with the locks expired or not, and whatever the
\* executor and the chain do (settlement.py:108-178, 247-332).
THEOREM PaidNeverFails ==
  OneExecutes /\ ExecutionsAnswered => (Spec => []PaidIsNotFailed)
<1> SUFFICES ASSUME OneExecutes, ExecutionsAnswered PROVE Spec => []PaidIsNotFailed
  OBVIOUS
<1>1. Init => PInv
  <2> SUFFICES ASSUME Init PROVE PInv
    OBVIOUS
  <2>1. \A x \in Process : job[x].step = "idle"
    BY DEF Init, Idle
  <2>2. \A p \in Payment : store[p].status = "absent" /\ sent[p] = 0
    BY DEF Init, Blank
  <2>3. \A x \in Process, p \in Payment : ~Executing(x, p) /\ ~Confirming(x, p)
    BY <2>1 DEF Executing, Confirming
  <2> QED
    BY <2>1, <2>2, <2>3 DEF PInv, ExecutedFirst, SentOnce, ConfirmedPast, FailedUnpaid
<1>2. PInv => PaidIsNotFailed
  BY DEF PInv, FailedUnpaid, Unpaid, PaidIsNotFailed, Paid
<1> QED
  BY <1>1, <1>2, Invariance, StepKeepsPast, PTL DEF Spec

-----------------------------------------------------------------------------
(* The records and the chain follow the status flow.                       *)

\* What a job deals with is as far in the flow as the job takes it to be.
Fits(j, records) ==
  /\ j.step # "operate"
  /\ j.step = "executed" => j.current \in j.todo
  /\ \A p \in j.todo :
       /\ j.step \in {"lockExecution", "execute", "executed"} => Executable(records[p])
       /\ j.step = "confirm" => records[p].status = "submitted"

InHand ==
  /\ \A x \in Process : Fits(job[x], store)
  /\ \A x \in Process : \A p \in job[x].todo :
       job[x].step = "touch" /\ Overdue(p, job[x].copies[p]) => store[p].status = "authorized"

\* Only what is in the records is sent.
SentKnown == \A p \in Payment : sent[p] # 0 => store[p].status # "absent"

flowVars == <<[p \in Payment |-> StateOf(store[p])], Paid>>

LEMMA StayInFlow ==
  ASSUME \A p \in Payment : StateOf(store'[p]) = StateOf(store[p]), Paid' = Paid
  PROVE  UNCHANGED flowVars
BY DEF flowVars

LEMMA MoveInFlow ==
  ASSUME TypeOK, UNCHANGED txs, NEW p \in Payment, NEW record,
         store' = [store EXCEPT ![p] = record],
         NEW from, StateOf(store[p]) \in from
  PROVE  Lifecycle!Move(p, from, StateOf(record))
<1>1. store'[p] = record /\ \A q \in Payment \ {p} : store'[q] = store[q]
  BY DEF TypeOK
<1>2. Paid' = Paid
  BY DEF Paid
<1> HIDE DEF Paid
<1>3. [q \in Payment |-> StateOf(store'[q])]
        = [[q \in Payment |-> StateOf(store[q])] EXCEPT ![p] = StateOf(record)]
  <2>1. \A q \in Payment :
          StateOf(store'[q]) = IF q = p THEN StateOf(record) ELSE StateOf(store[q])
    BY <1>1
  <2> QED
    BY <2>1
<1> QED
  BY <1>2, <1>3 DEF Lifecycle!Move

\* Locks and confirmations without an outcome leave the flow where it is.
LEMMA LockInFlow ==
  ASSUME SameRecords, UNCHANGED txs
  PROVE  UNCHANGED flowVars
BY StayInFlow DEF SameRecords, StateOf, Paid

LEMMA TouchInFlow ==
  ASSUME TypeOK, InHand, NEW x \in Process, NEW p \in Payment, TouchPayment(x, p)
  PROVE  [Lifecycle!Next]_flowVars
<1> DEFINE record == Expired(job[x].copies[p])
<1>0. UNCHANGED txs /\ p \in job[x].todo /\ job[x].step = "touch"
  BY DEF TouchPayment, chainVars
<1>1. CASE Overdue(p, job[x].copies[p])
  <2>1. store' = [store EXCEPT ![p] = record]
    BY <1>1 DEF TouchPayment
  <2>2. record.status = "expired"
    BY JobFacts DEF Expired, PaymentRecord
  <2>3. store[p].status = "authorized"
    BY <1>0, <1>1 DEF InHand
  <2> HIDE DEF record
  <2>4. StateOf(record) = "expired" /\ StateOf(store[p]) \in {"authorized", "retryable"}
    BY <2>2, <2>3 DEF StateOf
  <2>5. Lifecycle!Expire(p)
    BY <1>0, <2>1, <2>4, MoveInFlow DEF Lifecycle!Expire, Lifecycle!Unsettled
  <2> QED
    BY <2>5 DEF Lifecycle!Next
<1>2. CASE ~Overdue(p, job[x].copies[p])
  <2>1. SameRecords
    BY <1>2 DEF TouchPayment, SameRecords, TypeOK
  <2> QED
    BY <1>0, <2>1, LockInFlow
<1> QED
  BY <1>1, <1>2

LEMMA ExecutionInFlow ==
  ASSUME TypeOK, InHand, NEW x \in Process, NEW p \in Payment,
         ExecuteTooLate(x, p) \/ RecordExecution(x, p)
  PROVE  [Lifecycle!Next]_flowVars
<1> DEFINE copy == job[x].copies[p]
<1>1. UNCHANGED txs /\ p \in job[x].todo /\ job[x].step \in {"execute", "executed"}
  BY DEF ExecuteTooLate, RecordExecution, chainVars, InHand, Fits
<1>2. Executable(store[p])
  BY <1>1 DEF InHand, Fits
<1>3. StateOf(store[p]) \in {"authorized", "retryable"}
  BY <1>2 DEF Executable, StateOf
<1>4. /\ StateOf(Unlocked(Expired(copy))) = "expired"
      /\ StateOf(Submitted(copy, job[x].tx)) = "submitted"
      /\ StateOf(ExecutionFailed(copy)) = "retryable"
  BY JobFacts DEF Submitted, ExecutionFailed, Unlocked, Expired, StateOf, PaymentRecord
<1>5. PICK record \in {Unlocked(Expired(copy)), Submitted(copy, job[x].tx),
                       ExecutionFailed(copy)} : store' = [store EXCEPT ![p] = record]
  BY DEF ExecuteTooLate, RecordExecution
<1>6. Lifecycle!Move(p, {"authorized", "retryable"}, StateOf(record))
  BY <1>1, <1>3, <1>5, MoveInFlow
<1>7. Lifecycle!Expire(p) \/ Lifecycle!Submit(p) \/ Lifecycle!SubmissionFails(p)
  BY <1>4, <1>6 DEF Lifecycle!Expire, Lifecycle!Submit, Lifecycle!SubmissionFails,
                    Lifecycle!Unsettled
<1> QED
  BY <1>7 DEF Lifecycle!Next

\* A confirmation settles only what the chain has paid.
LEMMA ConfirmInFlow ==
  ASSUME IInv, InHand, NEW x \in Process, NEW p \in Payment, Confirm(x, p)
  PROVE  [Lifecycle!Next]_flowVars
<1> DEFINE copy == job[x].copies[p]
           attempted == Attempted(copy)
           exhausted == attempted.attempts >= MaxAttempts
           settled == [attempted EXCEPT !.status = "settled", !.retryable = FALSE,
                                        !.confirmation = "confirmed"]
           failed == [attempted EXCEPT !.status = "failed", !.retryable = FALSE,
                                       !.confirmation = "failed"]
           raised == [attempted EXCEPT
                        !.status = IF exhausted THEN "failed" ELSE "submitted",
                        !.retryable = ~exhausted, !.confirmation = "failed"]
           pending == [attempted EXCEPT !.confirmation = "pending"]
<1>1. \/ /\ copy.tx # 0 /\ txs[p][copy.tx] = "confirmed"
         /\ ConfirmWith(x, p, settled)
      \/ ConfirmWith(x, p, failed) \/ ConfirmWith(x, p, raised)
      \/ ConfirmWith(x, p, pending)
  BY DEF Confirm, ConfirmFinal, ConfirmPending, ConfirmError, ConfirmWithoutTx
<1>2. job[x].step = "confirm" /\ p \in job[x].todo /\ UNCHANGED txs /\ TypeOK
  BY <1>1 DEF ConfirmWith, chainVars, IInv
<1>3. StateOf(store[p]) = "submitted"
  BY <1>2 DEF InHand, Fits, StateOf
<1>4. attempted \in PaymentRecord /\ attempted.status = "submitted"
  BY <1>2, ConfirmedCopy
<1>5. copy.tx # 0 /\ txs[p][copy.tx] = "confirmed" => p \in Paid
  <2>1. copy.tx \in 0 .. MaxTx /\ MaxTx \in Nat
    BY <1>2, JobFacts, SettlementAssumption DEF PaymentRecord, TxNumber
  <2> HIDE DEF copy
  <2>2. copy.tx # 0 => copy.tx \in 1 .. MaxTx
    BY <2>1
  <2> QED
    BY <2>2 DEF Paid
<1> HIDE DEF attempted, exhausted
<1>6. /\ StateOf(settled) = "settled" /\ StateOf(failed) = "failed"
      /\ StateOf(raised) \in {"failed", "submitted"} /\ StateOf(pending) = "submitted"
  BY <1>4 DEF StateOf, PaymentRecord
<1> HIDE DEF settled, failed, raised, pending, copy
<1>7. PICK record :
        /\ store' = [store EXCEPT ![p] = record]
        /\ StateOf(record) \in {"settled", "failed", "submitted"}
        /\ StateOf(record) = "settled" => p \in Paid
  BY <1>1, <1>5, <1>6 DEF ConfirmWith
<1>8. Lifecycle!Move(p, {"submitted"}, StateOf(record))
  BY <1>2, <1>3, <1>7, MoveInFlow
<1>9. CASE StateOf(record) = "submitted"
  <2>1. \A q \in Payment : StateOf(store'[q]) = StateOf(store[q])
    BY <1>2, <1>3, <1>7, <1>9 DEF TypeOK
  <2> QED
    BY <1>2, <2>1, StayInFlow DEF Paid
<1>10. CASE StateOf(record) \in {"settled", "failed"}
  <2>1. Lifecycle!Settle(p) \/ Lifecycle!Fail(p)
    BY <1>7, <1>8, <1>10 DEF Lifecycle!Settle, Lifecycle!Fail
  <2> QED
    BY <2>1 DEF Lifecycle!Next
<1> QED
  BY <1>7, <1>9, <1>10

LEMMA EntryInFlow ==
  ASSUME TypeOK, NEW p \in Payment, CreateIntent(p) \/ RecordPayment(p)
  PROVE  Lifecycle!Next
<1>1. PICK status \in {"authorized", "submitted"} :
        store' = [store EXCEPT ![p] = [Blank EXCEPT !.status = status]]
  BY DEF CreateIntent, RecordPayment
<1>2. UNCHANGED txs /\ StateOf(store[p]) \in {"absent"}
  BY DEF CreateIntent, RecordPayment, chainVars, StateOf
<1>3. StateOf([Blank EXCEPT !.status = status]) = status
  BY DEF Blank, StateOf
<1>4. Lifecycle!Move(p, {"absent"}, status)
  BY <1>1, <1>2, <1>3, MoveInFlow
<1>5. Lifecycle!Create(p)
  BY <1>4 DEF Lifecycle!Create
<1> QED
  BY <1>5 DEF Lifecycle!Next

\* The executor's transaction pays nothing before it is in a block.
LEMMA ExecuteInFlow ==
  ASSUME IInv, NEW x \in Process, NEW p \in Payment, NEW isSent \in BOOLEAN,
         NEW answer \in TxNumber, Execute(x, p, isSent, answer)
  PROVE  UNCHANGED flowVars
<1>1. store' = store
  BY DEF Execute
<1>2. \A q \in Payment, n \in 1 .. MaxTx :
        txs'[q][n] = "confirmed" <=> txs[q][n] = "confirmed"
  <2>1. CASE UNCHANGED txs
    BY <2>1
  <2>2. CASE sent[p] < MaxTx /\ txs' = [txs EXCEPT ![p][sent[p] + 1] = "mempool"]
    <3> DEFINE m == sent[p] + 1
    <3>1. sent[p] \in 0 .. MaxTx /\ MaxTx \in Nat
      BY SettlementAssumption DEF IInv, TypeOK, TxNumber
    <3>2. m \in 1 .. MaxTx /\ m > sent[p]
      BY <2>2, <3>1
    <3>3. txs' = [txs EXCEPT ![p] = [txs[p] EXCEPT ![m] = "mempool"]]
      BY <2>2
    <3>4. txs[p][m] = "none"
      BY <3>2 DEF IInv, ClaimsMatchChannels
    <3> HIDE DEF m
    <3> QED
      BY <3>2, <3>3, <3>4 DEF IInv, TypeOK
  <2> QED
    BY <2>1, <2>2 DEF Execute
<1> QED
  BY <1>1, <1>2, StayInFlow DEF Paid

\* What the chain pays is in the records, and no other payment of its channel is
\* paid: the claim closed the channel.
LEMMA MineInFlow ==
  ASSUME IInv, SentKnown, NEW p \in Payment, NEW n \in 1 .. MaxTx, Mine(p, n)
  PROVE  [Lifecycle!Next]_flowVars
<1>1. /\ txs[p][n] = "mempool" /\ store' = store
      /\ txs' = [txs EXCEPT ![p] = [txs[p] EXCEPT ![n] =
                   IF Claimable(p) THEN "confirmed" ELSE "reverted"]]
  BY DEF Mine
<1>2. \A q \in Payment, m \in 1 .. MaxTx :
        txs'[q][m] = IF q = p /\ m = n THEN IF Claimable(p) THEN "confirmed" ELSE "reverted"
                     ELSE txs[q][m]
  BY <1>1 DEF IInv, TypeOK
<1>3. CASE Claimable(p)
  <2>1. Paid' = Paid \cup {p}
    BY <1>1, <1>2, <1>3 DEF Paid
  <2>2. sent[p] # 0
    <3>1. n > 0
      BY SettlementAssumption
    <3> QED
      BY <1>1, <3>1 DEF IInv, ClaimsMatchChannels
  <2>3. StateOf(store[p]) # "absent"
    BY <2>2 DEF SentKnown, StateOf
  <2>4. \A q \in Paid : ChannelOf[q] # ChannelOf[p]
    BY <1>3 DEF Paid, Claimable, IInv, ClaimsMatchChannels
  <2> HIDE DEF Paid
  <2>5. Lifecycle!Pay(p)
    BY <1>1, <2>1, <2>3, <2>4 DEF Lifecycle!Pay
  <2> QED
    BY <2>5 DEF Lifecycle!Next
<1>4. CASE ~Claimable(p)
  <2>1. Paid' = Paid
    BY <1>1, <1>2, <1>4 DEF Paid
  <2> QED
    BY <1>1, <2>1, StayInFlow
<1> QED
  BY <1>3, <1>4

\* Steps that only lock records, or read them.
LEMMA BatchInFlow ==
  ASSUME TypeOK, UNCHANGED txs, NEW x \in Process,
         \/ UNCHANGED store
         \/ ClaimForProcessing(x, "authorized", "execution", "execute")
         \/ ClaimForProcessing(x, "submitted", "confirmation", "confirm")
  PROVE  UNCHANGED flowVars
<1>1. ASSUME NEW status, NEW stage \in {"execution", "confirmation"}, NEW step,
             ClaimForProcessing(x, status, stage, step)
      PROVE  SameRecords
  <2> DEFINE S == {p \in Payment : store[p].status = status /\ ~Locked(store[p])}
  <2>1. store' = [p \in Payment |-> IF p \in S THEN WithLock(store[p], stage) ELSE store[p]]
    BY <1>1 DEF ClaimForProcessing
  <2>2. S \in SUBSET Payment
    OBVIOUS
  <2> HIDE DEF S
  <2> QED
    BY <2>1, <2>2, LocksKeepRecords
<1>2. UNCHANGED store => SameRecords
  BY DEF SameRecords
<1> QED
  BY <1>1, <1>2, LockInFlow

LEMMA LockOneInFlow ==
  ASSUME TypeOK, NEW x \in Process, NEW p \in Payment,
         LockExecution(x, p) \/ LockConfirmation(x, p)
  PROVE  UNCHANGED flowVars
<1>1. UNCHANGED txs /\ {p} \in SUBSET Payment
  BY DEF LockExecution, LockConfirmation, chainVars
<1>2. PICK stage \in {"execution", "confirmation"} :
        UNCHANGED store \/ store' = [store EXCEPT ![p] = WithLock(@, stage)]
  BY DEF LockExecution, LockConfirmation
<1>3. CASE UNCHANGED store
  BY <1>1, <1>3, BatchInFlow
<1>4. CASE store' = [store EXCEPT ![p] = WithLock(@, stage)]
  <2>1. store' = [q \in Payment |-> IF q \in {p} THEN WithLock(store[q], stage) ELSE store[q]]
    BY <1>4 DEF TypeOK
  <2> QED
    BY <1>1, <2>1, LocksKeepRecords, LockInFlow
<1> QED
  BY <1>2, <1>3, <1>4

LEMMA ContinueInFlow ==
  ASSUME IInv, InHand, NEW x \in Process, Continue(x)
  PROVE  [Lifecycle!Next]_flowVars
<1>1. ~\E p \in Payment : ApplyOperatorAction(x, p)
  BY DEF ApplyOperatorAction, InHand, Fits
<1> PICK p \in Payment :
      \/ TouchPayment(x, p)
      \/ LockExecution(x, p)
      \/ ExecuteTooLate(x, p)
      \/ \E isSent \in BOOLEAN, answer \in TxNumber : Execute(x, p, isSent, answer)
      \/ RecordExecution(x, p)
      \/ LockConfirmation(x, p)
      \/ Confirm(x, p)
  BY <1>1 DEF Continue
<1>2. TypeOK
  BY DEF IInv
<1> QED
  BY <1>2, TouchInFlow, LockOneInFlow, ExecutionInFlow, ExecuteInFlow, ConfirmInFlow

LEMMA ChainInFlow ==
  ASSUME IInv, SentKnown, ChainStep
  PROVE  [Lifecycle!Next]_flowVars
<1>1. CASE UNCHANGED <<store, txs>>
  BY <1>1, StayInFlow DEF Paid
<1>2. ASSUME NEW p \in Payment, NEW n \in 1 .. MaxTx, DropTransaction(p, n)
      PROVE  UNCHANGED flowVars
  <2>1. /\ store' = store /\ txs[p][n] = "mempool"
        /\ txs' = [txs EXCEPT ![p] = [txs[p] EXCEPT ![n] = "dropped"]]
    BY <1>2 DEF DropTransaction
  <2>2. \A q \in Payment, m \in 1 .. MaxTx :
          txs'[q][m] = "confirmed" <=> txs[q][m] = "confirmed"
    BY <2>1 DEF IInv, TypeOK
  <2> QED
    BY <2>1, <2>2, StayInFlow DEF Paid
<1> QED
  BY <1>1, <1>2, MineInFlow DEF ChainStep, Tick, CloseChannel, chainVars

LEMMA CallInFlow ==
  ASSUME TypeOK, (\E h \in Handler : Request(h)) \/ (\E w \in Worker : RunOnce(w))
  PROVE  UNCHANGED flowVars
<1>1. ASSUME NEW h \in Handler, Request(h) PROVE UNCHANGED flowVars
  <2>1. h \in Process
    BY DEF Process
  <2>2. /\ UNCHANGED txs
        /\ \/ UNCHANGED store
           \/ ClaimForProcessing(h, "authorized", "execution", "execute")
           \/ ClaimForProcessing(h, "submitted", "confirmation", "confirm")
    BY <1>1 DEF Request, RecoverPayments, ExecutePending, ReconcileSubmitted, GetPayment,
                ExecutePayment, ReconcilePayment, ReadForOperator, chainVars
  <2> QED
    BY <2>1, <2>2, BatchInFlow
<1>2. ASSUME NEW w \in Worker, RunOnce(w) PROVE UNCHANGED flowVars
  <2>1. w \in Process
    BY DEF Process
  <2>2. /\ UNCHANGED txs
        /\ \/ UNCHANGED store
           \/ ClaimForProcessing(w, "authorized", "execution", "execute")
           \/ ClaimForProcessing(w, "submitted", "confirmation", "confirm")
    BY <1>2 DEF RunOnce, ListUnfinished, WorkerExecutePending, ListFailed, RetryFailed,
                WorkerReconcileSubmitted, chainVars
  <2> QED
    BY <2>1, <2>2, BatchInFlow
<1> QED
  BY <1>1, <1>2

\* No step of the flow takes a payment back out of it.
LEMMA NeverForgotten ==
  ASSUME [Lifecycle!Next]_flowVars, NEW p \in Payment, store[p].status # "absent"
  PROVE  store'[p].status # "absent"
<1> DEFINE status == [q \in Payment |-> StateOf(store[q])]
<1>1. status[p] # "absent" /\ status[p] = StateOf(store[p])
  BY DEF StateOf
<1>2. status'[p] = StateOf(store'[p])
  OBVIOUS
<1>3. CASE UNCHANGED flowVars
  BY <1>1, <1>2, <1>3 DEF flowVars, StateOf
<1>4. ASSUME NEW q \in Payment, NEW from, NEW to, to # "absent", Lifecycle!Move(q, from, to)
      PROVE  store'[p].status # "absent"
  <2>1. status' = [status EXCEPT ![q] = to]
    BY <1>4 DEF Lifecycle!Move
  <2>2. status'[p] # "absent"
    BY <1>1, <1>4, <2>1
  <2> QED
    BY <1>2, <2>2 DEF StateOf
<1>5. ASSUME NEW q \in Payment, Lifecycle!Pay(q) PROVE store'[p].status # "absent"
  <2>1. status' = status
    BY <1>5 DEF Lifecycle!Pay
  <2> QED
    BY <1>1, <1>2, <2>1 DEF StateOf
<1> QED
  BY <1>3, <1>4, <1>5
  DEF Lifecycle!Next, Lifecycle!Create, Lifecycle!Submit, Lifecycle!SubmissionFails,
      Lifecycle!Expire, Lifecycle!Fail, Lifecycle!Settle

\* Only the executor sends.
LEMMA SentOnlyByExecute ==
  ASSUME [Next]_vars
  PROVE  \/ sent' = sent
         \/ \E x \in Process, p \in Payment, isSent \in BOOLEAN, answer \in TxNumber :
              Execute(x, p, isSent, answer)
<1>1. ChainStep => sent' = sent
  BY DEF ChainStep, Tick, Mine, DropTransaction, CloseChannel, chainVars
<1>2. \A p \in Payment : CreateIntent(p) \/ RecordPayment(p) => sent' = sent
  BY DEF CreateIntent, RecordPayment, chainVars
<1>3. \A h \in Handler : Request(h) => sent' = sent
  BY DEF Request, RecoverPayments, ExecutePending, ReconcileSubmitted, GetPayment,
         ExecutePayment, ReconcilePayment, ReadForOperator, chainVars
<1>4. \A w \in Worker : RunOnce(w) => sent' = sent
  BY DEF RunOnce, ListUnfinished, WorkerExecutePending, ListFailed, RetryFailed,
         WorkerReconcileSubmitted, chainVars
<1>5. \A x \in Process : Crash(x) => sent' = sent
  BY DEF Crash, chainVars
<1>6. ASSUME NEW x \in Process, NEW p \in Payment, Confirm(x, p) PROVE sent' = sent
  <2>1. \E record : ConfirmWith(x, p, record)
    BY <1>6 DEF Confirm, ConfirmFinal, ConfirmPending, ConfirmError, ConfirmWithoutTx
  <2> QED
    BY <2>1 DEF ConfirmWith, chainVars
<1>7. \A x \in Process, p \in Payment :
        \/ TouchPayment(x, p) \/ LockExecution(x, p) \/ ExecuteTooLate(x, p)
        \/ RecordExecution(x, p) \/ LockConfirmation(x, p) \/ ApplyOperatorAction(x, p)
        => sent' = sent
  BY DEF TouchPayment, LockExecution, ExecuteTooLate, RecordExecution, LockConfirmation,
         ApplyOperatorAction, chainVars
<1>8. UNCHANGED vars => sent' = sent
  BY DEF vars, chainVars
<1> QED
  BY <1>1, <1>2, <1>3, <1>4, <1>5, <1>6, <1>7, <1>8 DEF Next, Continue

\* Every step is a step of the flow, or leaves it alone.
LEMMA StepInFlow ==
  IInv /\ InHand /\ SentKnown /\ [Next]_vars => [Lifecycle!Next]_flowVars /\ SentKnown'
<1> SUFFICES ASSUME IInv, InHand, SentKnown, [Next]_vars
             PROVE  [Lifecycle!Next]_flowVars /\ SentKnown'
  OBVIOUS
<1>0. TypeOK
  BY DEF IInv
<1>1. [Lifecycle!Next]_flowVars
  <2>1. CASE \E x \in Process : Crash(x)
    BY <1>0, <2>1, BatchInFlow DEF Crash, chainVars
  <2>2. CASE UNCHANGED vars
    BY <2>2, StayInFlow DEF vars, Paid
  <2> QED
    BY <1>0, <2>1, <2>2, ChainInFlow, EntryInFlow, CallInFlow, ContinueInFlow DEF Next
<1>2. ASSUME NEW p \in Payment, sent'[p] # 0 PROVE store[p].status # "absent"
  <2>1. CASE sent' = sent
    BY <1>2, <2>1 DEF SentKnown
  <2>2. CASE \E x \in Process, q \in Payment, isSent \in BOOLEAN, answer \in TxNumber :
               Execute(x, q, isSent, answer)
    <3>1. PICK x \in Process, q \in Payment, isSent \in BOOLEAN, answer \in TxNumber :
            Execute(x, q, isSent, answer)
      BY <2>2
    <3>2. Executable(store[q]) /\ \A r \in Payment \ {q} : sent'[r] = sent[r]
      BY <1>0, <3>1 DEF Execute, InHand, Fits, TypeOK
    <3> QED
      BY <1>2, <3>2 DEF SentKnown, Executable
  <2> QED
    BY <2>1, <2>2, SentOnlyByExecute
<1> QED
  BY <1>1, <1>2, NeverForgotten DEF SentKnown

-----------------------------------------------------------------------------
(* Where what is in hand fits: one worker alone, or locks that hold.       *)

\* One recovery worker and nobody else, as the deployment guides run it.
WorkerAlone == Handler = {} /\ \A v, w \in Worker : v = w

FitsAlone(j, records) ==
  /\ Fits(j, records)
  /\ j.step = "touch" => \A p \in j.todo : records[p].status = "authorized"

InHandAlone == \A x \in Process : FitsAlone(job[x], store)

LEMMA AloneKeeps ==
  ASSUME WorkerAlone, TypeOK, NEW x \in Process, NEW j, job' = [job EXCEPT ![x] = j],
         FitsAlone(j, store')
  PROVE  InHandAlone'
<1>1. \A y \in Process : y = x
  BY DEF WorkerAlone, Process
<1>2. job'[x] = j
  BY DEF TypeOK
<1>3. FitsAlone(job'[x], store')
  BY <1>2
<1> QED
  BY <1>1, <1>3 DEF InHandAlone, FitsAlone, Fits, Executable

LEMMA AloneReads ==
  ASSUME WorkerAlone, TypeOK, NEW x \in Process, NEW S \in SUBSET Payment,
         ReadForTouch(x, S), UNCHANGED store
  PROVE  InHandAlone'
<1> DEFINE T == {p \in S : store[p].status = "authorized"}
           j == Begin("touch", T, store)
<1>0. T \subseteq Payment
  OBVIOUS
<1>1. \A p \in T : store[p].status = "authorized"
  OBVIOUS
<1>2. job' = [job EXCEPT ![x] = j]
  BY DEF ReadForTouch
<1> HIDE DEF T
<1>3. j.step \in {"touch", "idle"} /\ j.todo = T
  BY <1>0, BeginFacts
<1> HIDE DEF j
<1>4. FitsAlone(j, store')
  BY <1>1, <1>3 DEF FitsAlone, Fits
<1> QED
  BY <1>2, <1>4, AloneKeeps

LEMMA AloneRests ==
  ASSUME WorkerAlone, TypeOK, NEW x \in Process, job' = [job EXCEPT ![x] = Idle]
  PROVE  InHandAlone'
<1>1. FitsAlone(Idle, store')
  BY DEF FitsAlone, Fits, Idle
<1> QED
  BY <1>1, AloneKeeps

LEMMA AloneClaims ==
  ASSUME WorkerAlone, TypeOK, NEW x \in Process,
         \/ ClaimForProcessing(x, "authorized", "execution", "execute")
         \/ ClaimForProcessing(x, "submitted", "confirmation", "confirm")
  PROVE  InHandAlone'
<1>1. ASSUME NEW status, NEW stage \in {"execution", "confirmation"},
             NEW step \in {"execute", "confirm"},
             status = IF step = "execute" THEN "authorized" ELSE "submitted",
             ClaimForProcessing(x, status, stage, step)
      PROVE  InHandAlone'
  <2> DEFINE S == {p \in Payment : store[p].status = status /\ ~Locked(store[p])}
             locked == [p \in Payment |-> IF p \in S THEN WithLock(store[p], stage)
                                          ELSE store[p]]
             j == Begin(step, S, locked)
  <2>1. store' = locked /\ job' = [job EXCEPT ![x] = j]
    BY <1>1 DEF ClaimForProcessing
  <2>2. S \subseteq Payment /\ S \in SUBSET Payment /\ \A p \in S : store[p].status = status
    OBVIOUS
  <2> HIDE DEF S
  <2>3. SameRecords
    BY <2>1, <2>2, LocksKeepRecords
  <2> HIDE DEF locked
  <2>4. j.step \in {step, "idle"} /\ j.todo = S
    BY <2>2, BeginFacts
  <2> HIDE DEF j
  <2>5. \A p \in S : store'[p].status = status
    BY <2>2, <2>3 DEF SameRecords
  <2>6. step = "execute" => \A p \in S : Executable(store'[p])
    BY <1>1, <2>5 DEF Executable
  <2>7. FitsAlone(j, store')
    BY <1>1, <2>4, <2>5, <2>6 DEF FitsAlone, Fits
  <2> QED
    BY <2>1, <2>7, AloneKeeps
<1> QED
  BY <1>1

\* A record is dealt with, and the rest of the job stays as it was.
LEMMA AloneWrites ==
  ASSUME WorkerAlone, TypeOK, InHandAlone, NEW x \in Process, NEW p \in Payment,
         NEW step \in {"touch", "execute", "confirm"},
         job[x].step = step \/ (step = "execute" /\ job[x].step = "executed"),
         \A q \in Payment \ {p} : store'[q] = store[q],
         job' = [job EXCEPT ![x] = Rest(x, step, p)]
  PROVE  InHandAlone'
<1> DEFINE j == Rest(x, step, p)
<1>1. /\ j.step \in {step, "idle"} /\ j.todo = job[x].todo \ {p}
      /\ \A q \in job[x].todo \ {p} : j.copies[q] = job[x].copies[q]
  BY RestFacts
<1> HIDE DEF j
<1>2. job[x].todo \subseteq Payment /\ FitsAlone(job[x], store)
  BY JobFacts DEF InHandAlone
<1>3. FitsAlone(j, store')
  BY <1>1, <1>2 DEF FitsAlone, Fits
<1> QED
  BY <1>3, AloneKeeps DEF j

LEMMA AloneBegins ==
  ASSUME WorkerAlone, TypeOK, NEW x \in Process, NEW p \in Payment, UNCHANGED store,
         BeginExecutePayment(x, p)
  PROVE  InHandAlone'
<1>1. CASE Executable(store[p])
  <2> DEFINE j == Begin("lockExecution", {p}, NoCopies)
  <2>1. job' = [job EXCEPT ![x] = j]
    BY <1>1 DEF BeginExecutePayment
  <2>2. {p} # {}
    OBVIOUS
  <2>3. j.step = "lockExecution" /\ j.todo = {p}
    BY <2>2 DEF Begin
  <2> HIDE DEF j
  <2>4. FitsAlone(j, store')
    BY <1>1, <2>3 DEF FitsAlone, Fits
  <2> QED
    BY <2>1, <2>4, AloneKeeps
<1>2. CASE ~Executable(store[p])
  BY <1>2, AloneRests DEF BeginExecutePayment
<1> QED
  BY <1>1, <1>2

LEMMA AloneLocks ==
  ASSUME WorkerAlone, TypeOK, InHandAlone, NEW x \in Process, NEW p \in Payment,
         LockExecution(x, p) \/ LockConfirmation(x, p)
  PROVE  InHandAlone'
<1>0. {p} \in SUBSET Payment /\ {p} # {}
  OBVIOUS
<1>1. CASE ReadForTouch(x, {p}) /\ UNCHANGED store
  BY <1>0, <1>1, AloneReads
<1>2. CASE job' = [job EXCEPT ![x] = Idle]
  BY <1>2, AloneRests
<1>3. ASSUME NEW stage \in {"execution", "confirmation"}, NEW step \in {"execute", "confirm"},
             store' = [store EXCEPT ![p] = WithLock(@, stage)],
             job' = [job EXCEPT ![x] = Begin(step, {p}, store')],
             IF step = "execute" THEN Executable(store[p])
                                 ELSE store[p].status = "submitted"
      PROVE  InHandAlone'
  <2> DEFINE j == Begin(step, {p}, store')
  <2>1. store' = [q \in Payment |-> IF q \in {p} THEN WithLock(store[q], stage) ELSE store[q]]
    BY <1>3 DEF TypeOK
  <2>2. SameRecords
    BY <1>0, <2>1, LocksKeepRecords
  <2>3. j.step = step /\ j.todo = {p}
    BY <1>0 DEF Begin
  <2> HIDE DEF j
  <2>4. IF step = "execute" THEN Executable(store'[p]) ELSE store'[p].status = "submitted"
    BY <1>3, <2>2 DEF SameRecords, Executable
  <2>5. FitsAlone(j, store')
    BY <2>3, <2>4 DEF FitsAlone, Fits
  <2> QED
    BY <1>3, <2>5, AloneKeeps DEF j
<1>4. LockExecution(x, p) => Executable(store[p])
  BY DEF LockExecution, InHandAlone, FitsAlone, Fits
<1> QED
  BY <1>1, <1>2, <1>3, <1>4 DEF LockExecution, LockConfirmation

LEMMA AloneContinues ==
  ASSUME WorkerAlone, TypeOK, InHandAlone, NEW x \in Process, Continue(x)
  PROVE  InHandAlone'
<1>0. ~\E p \in Payment : ApplyOperatorAction(x, p)
  BY DEF ApplyOperatorAction, InHandAlone, FitsAlone, Fits
<1> PICK p \in Payment :
      \/ TouchPayment(x, p)
      \/ LockExecution(x, p)
      \/ ExecuteTooLate(x, p)
      \/ \E isSent \in BOOLEAN, answer \in TxNumber : Execute(x, p, isSent, answer)
      \/ RecordExecution(x, p)
      \/ LockConfirmation(x, p)
      \/ Confirm(x, p)
  BY <1>0 DEF Continue
<1>1. ASSUME NEW record, store' = [store EXCEPT ![p] = record]
      PROVE  \A q \in Payment \ {p} : store'[q] = store[q]
  BY <1>1 DEF TypeOK
<1>2. CASE TouchPayment(x, p)
  <2>1. \A q \in Payment \ {p} : store'[q] = store[q]
    BY <1>1, <1>2 DEF TouchPayment
  <2>2. job[x].step = "touch" /\ job' = [job EXCEPT ![x] = Rest(x, "touch", p)]
    BY <1>2 DEF TouchPayment
  <2> QED
    BY <2>1, <2>2, AloneWrites
<1>3. CASE ExecuteTooLate(x, p) \/ RecordExecution(x, p)
  <2>1. \A q \in Payment \ {p} : store'[q] = store[q]
    BY <1>1, <1>3 DEF ExecuteTooLate, RecordExecution
  <2>2. /\ job[x].step \in {"execute", "executed"}
        /\ job' = [job EXCEPT ![x] = Rest(x, "execute", p)]
    BY <1>3 DEF ExecuteTooLate, RecordExecution
  <2> QED
    BY <2>1, <2>2, AloneWrites
<1>4. CASE Confirm(x, p)
  <2>1. PICK record : ConfirmWith(x, p, record)
    BY <1>4 DEF Confirm, ConfirmFinal, ConfirmPending, ConfirmError, ConfirmWithoutTx
  <2>2. \A q \in Payment \ {p} : store'[q] = store[q]
    BY <1>1, <2>1 DEF ConfirmWith
  <2>3. job[x].step = "confirm" /\ job' = [job EXCEPT ![x] = Rest(x, "confirm", p)]
    BY <2>1 DEF ConfirmWith
  <2> QED
    BY <2>2, <2>3, AloneWrites
<1>5. ASSUME NEW isSent \in BOOLEAN, NEW answer \in TxNumber, Execute(x, p, isSent, answer)
      PROVE  InHandAlone'
  <2> DEFINE j == [job[x] EXCEPT !.step = "executed", !.current = p, !.tx = answer]
  <2>1. /\ job' = [job EXCEPT ![x] = j] /\ store' = store
        /\ job[x].step = "execute" /\ p \in job[x].todo
    BY <1>5 DEF Execute
  <2>2. job[x] \in Job /\ FitsAlone(job[x], store)
    BY JobFacts DEF InHandAlone
  <2>3. j.step = "executed" /\ j.current = p /\ j.todo = job[x].todo
    BY <2>2 DEF Job
  <2> HIDE DEF j
  <2>4. FitsAlone(j, store')
    BY <2>1, <2>2, <2>3 DEF FitsAlone, Fits
  <2> QED
    BY <2>1, <2>4, AloneKeeps
<1> QED
  BY <1>2, <1>3, <1>4, <1>5, AloneLocks

LEMMA AloneRunsOnce ==
  ASSUME WorkerAlone, TypeOK, InHandAlone, NEW w \in Worker, RunOnce(w)
  PROVE  InHandAlone'
<1>0. w \in Process /\ Payment \in SUBSET Payment
  BY DEF Process
<1>1. CASE ListUnfinished(w)
  BY <1>0, <1>1, AloneReads DEF ListUnfinished
<1>2. CASE WorkerExecutePending(w) \/ WorkerReconcileSubmitted(w)
  BY <1>0, <1>2, AloneClaims DEF WorkerExecutePending, WorkerReconcileSubmitted
<1>3. CASE ListFailed(w)
  BY <1>3 DEF ListFailed, InHandAlone
<1>4. ASSUME NEW p \in Payment, RetryFailed(w, p) PROVE InHandAlone'
  BY <1>0, <1>4, AloneBegins DEF RetryFailed
<1> QED
  BY <1>1, <1>2, <1>3, <1>4 DEF RunOnce

LEMMA AloneStep == WorkerAlone /\ TypeOK /\ InHandAlone /\ [Next]_vars => InHandAlone'
<1> SUFFICES ASSUME WorkerAlone, TypeOK, InHandAlone, [Next]_vars PROVE InHandAlone'
  OBVIOUS
<1>1. CASE ChainStep \/ UNCHANGED vars
  <2>1. store' = store /\ job' = job
    BY <1>1 DEF ChainStep, Tick, Mine, DropTransaction, CloseChannel, vars
  <2> QED
    BY <2>1 DEF InHandAlone
<1>2. ASSUME NEW p \in Payment, CreateIntent(p) \/ RecordPayment(p) PROVE InHandAlone'
  <2>1. /\ job' = job /\ store[p].status = "absent"
        /\ \A q \in Payment \ {p} : store'[q] = store[q]
    BY <1>2 DEF CreateIntent, RecordPayment, TypeOK
  <2>2. ASSUME NEW x \in Process PROVE FitsAlone(job[x], store')
    <3>1. job[x].todo \subseteq Payment /\ FitsAlone(job[x], store)
      BY JobFacts DEF InHandAlone
    <3>2. \E status \in {"authorized", "submitted"} :
            store'[p] = [Blank EXCEPT !.status = status]
      BY <1>2 DEF CreateIntent, RecordPayment, TypeOK
    <3> QED
      BY <2>1, <3>1 DEF FitsAlone, Fits, Executable
  <2> QED
    BY <2>1, <2>2 DEF InHandAlone
<1>3. \A h \in Handler : ~Request(h)
  BY DEF WorkerAlone
<1>4. ASSUME NEW x \in Process, Crash(x) PROVE InHandAlone'
  BY <1>4, AloneRests DEF Crash
<1> QED
  BY <1>1, <1>2, <1>3, <1>4, AloneRunsOnce, AloneContinues DEF Next

\* No deadline passes.
Distant == \A p \in Payment : MaxTime <= Deadline[p] /\ MaxTime <= Expiry[ChannelOf[p]]

\* Holding locks and one executor put everything in hand, while no deadline passes.
LEMMA LocksPutInHand == Distant /\ SInv => InHand
<1> SUFFICES ASSUME Distant, SInv PROVE InHand
  OBVIOUS
<1>0. ASSUME NEW p \in Payment
      PROVE  /\ now \in Nat /\ Deadline[p] \in Nat /\ Expiry[ChannelOf[p]] \in Nat
             /\ now <= Deadline[p] /\ now <= Expiry[ChannelOf[p]]
  <2>1. now \in 0 .. MaxTime /\ MaxTime \in Nat
    BY SettlementAssumption DEF SInv, LInv, TypeOK, Time
  <2>2. Deadline[p] \in Nat /\ Expiry[ChannelOf[p]] \in Nat
    BY SettlementAssumption
  <2> QED
    BY <2>1, <2>2 DEF Distant
<1>1. \A p \in Payment : InTime(p)
  BY <1>0 DEF InTime
<1>2. ASSUME NEW p \in Payment, NEW record, Overdue(p, record) PROVE FALSE
  BY <1>0, <1>2 DEF Overdue
<1>3. \A x \in Process : job[x].todo \subseteq Payment
  BY JobFacts DEF SInv, LInv
<1>4. ASSUME NEW x \in Process PROVE Fits(job[x], store)
  <2>1. JobOK(job[x], store) /\ Fit(x, job[x], store)
    BY DEF SInv, LInv, AllFit
  <2> QED
    BY <1>1, <1>3, <2>1 DEF Fits, JobOK, Fit
<1> QED
  BY <1>2, <1>3, <1>4 DEF InHand

LEMMA AlonePutsInHand == InHandAlone => InHand
BY DEF InHandAlone, FitsAlone, InHand

LEMMA InitInFlow == Init => Lifecycle!Init /\ SentKnown /\ InHandAlone
<1> SUFFICES ASSUME Init PROVE Lifecycle!Init /\ SentKnown /\ InHandAlone
  OBVIOUS
<1>1. Paid = {}
  BY DEF Init, Paid
<1>2. \A p \in Payment : StateOf(store[p]) = "absent"
  BY DEF Init, Blank, StateOf
<1>3. SentKnown /\ InHandAlone
  BY DEF Init, SentKnown, InHandAlone, FitsAlone, Fits, Idle
<1> QED
  BY <1>1, <1>2, <1>3 DEF Lifecycle!Init

\* A recovery worker that nobody works beside takes every payment along the status
\* flow, and no channel pays twice: through crashes, locks that expire under its
\* hands, deadlines that pass and answers that are lost (python/seller/worker.py:62-120,
\* settlement.py:108-332, spec/PROTOCOL_REFERENCE.md:86-92).
THEOREM WorkerFollowsLifecycle == WorkerAlone => (Spec => FollowsLifecycle)
<1> SUFFICES ASSUME WorkerAlone PROVE Spec => FollowsLifecycle
  OBVIOUS
<1>1. IInv => TypeOK
  BY DEF IInv
<1> QED
  BY <1>1, Invariance, InitInFlow, AloneStep, AlonePutsInHand, StepInFlow, PTL
  DEF Spec, FollowsLifecycle, Lifecycle!Spec, flowVars

\* So do a worker and the processes that reconcile and read beside it, while the
\* locks hold and no deadline passes.
THEOREM LocksFollowLifecycle ==
  LocksHold /\ OneExecutes /\ Distant => (Spec => FollowsLifecycle)
<1> SUFFICES ASSUME LocksHold, OneExecutes, Distant PROVE Spec => FollowsLifecycle
  OBVIOUS
<1>1. Init => SInv
  BY LocksEstablished DEF SInv, AllFit, Fit, Init, Idle
<1>2. SInv /\ TypeOK' /\ [Next]_vars => SInv'
  BY StepFits, StepKeepsLocks DEF SInv
<1>3. IInv => TypeOK
  BY DEF IInv
<1> QED
  BY <1>1, <1>2, <1>3, Invariance, InitInFlow, LocksPutInHand, StepInFlow, PTL
  DEF Spec, FollowsLifecycle, Lifecycle!Spec, flowVars

-----------------------------------------------------------------------------
(* When the protocol reference is right about settled payments.            *)

\* The flow never leaves "settled".
LEMMA FlowKeepsSettled ==
  ASSUME [Lifecycle!Next]_flowVars, NEW p \in Payment, store[p].status = "settled"
  PROVE  store'[p].status = "settled"
<1> DEFINE before == [q \in Payment |-> StateOf(store[q])]
           after == [q \in Payment |-> StateOf(store'[q])]
<1>1. before[p] = "settled" /\ after[p] = StateOf(store'[p])
  BY DEF StateOf
<1>2. ASSUME NEW q \in Payment, NEW from, NEW to, "settled" \notin from,
             Lifecycle!Move(q, from, to)
      PROVE  after[p] = "settled"
  <2>1. before[q] \in from /\ after = [before EXCEPT ![q] = to]
    BY <1>2 DEF Lifecycle!Move
  <2>2. q # p
    BY <1>1, <1>2, <2>1
  <2> HIDE DEF after
  <2> QED
    BY <1>1, <2>1, <2>2
<1>3. CASE \E q \in Payment : Lifecycle!Create(q) \/ Lifecycle!Submit(q)
                              \/ Lifecycle!SubmissionFails(q) \/ Lifecycle!Expire(q)
                              \/ Lifecycle!Fail(q) \/ Lifecycle!Settle(q)
  <2>1. PICK q \in Payment, from \in {{"absent"}, {"authorized", "retryable"}, {"submitted"}},
             to \in {"authorized", "submitted", "retryable", "expired", "failed", "settled"} :
          Lifecycle!Move(q, from, to)
    BY <1>3 DEF Lifecycle!Create, Lifecycle!Submit, Lifecycle!SubmissionFails,
       Lifecycle!Expire, Lifecycle!Fail, Lifecycle!Settle, Lifecycle!Unsettled
  <2>2. "settled" \notin from
    OBVIOUS
  <2>3. after[p] = "settled"
    BY <1>2, <2>1, <2>2
  <2> QED
    BY <1>1, <2>3 DEF StateOf
<1>4. CASE \/ \E q \in Payment : Lifecycle!Pay(q)
           \/ UNCHANGED flowVars
  <2>1. after = before
    BY <1>4 DEF Lifecycle!Pay, flowVars
  <2>2. after[p] = "settled"
    BY <1>1, <2>1
  <2> QED
    BY <1>1, <2>2 DEF StateOf
<1> QED
  BY <1>3, <1>4 DEF Lifecycle!Next

\* "settled: terminal success state" (spec/PROTOCOL_REFERENCE.md:90) is true of a
\* recovery worker that nobody works beside, and where the locks hold, one worker
\* executes and no deadline passes; of two workers it is not.
THEOREM SettledIsFinal ==
  WorkerAlone \/ (LocksHold /\ OneExecutes /\ Distant) => (Spec => SettledIsTerminal)
<1> SUFFICES ASSUME WorkerAlone \/ (LocksHold /\ OneExecutes /\ Distant)
             PROVE  Spec => SettledIsTerminal
  OBVIOUS
<1>1. Spec => FollowsLifecycle
  BY WorkerFollowsLifecycle, LocksFollowLifecycle
<1>2. [Lifecycle!Next]_flowVars =>
        [\A p \in Payment :
           store[p].status = "settled" => store'[p].status = "settled"]_vars
  BY FlowKeepsSettled
<1> QED
  BY <1>1, <1>2, PTL DEF FollowsLifecycle, Lifecycle!Spec, flowVars, SettledIsTerminal
=============================================================================
