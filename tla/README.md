# A TLA+ model of Torn-AgentPay

Torn-AgentPay lets agents buy calls to paid HTTP endpoints. A buyer locks a
deposit in a payment channel on Tron, signs a voucher for each payment, and the
seller redeems the voucher on chain. This directory holds TLA+ modules of its
protocol and of the software around it, the TLC configurations that model-check
them, and theorems about them that TLAPS proves. Paths below are relative to the
repository.

## 1. The system

| Component | State it keeps | Operations | Talks to |
|---|---|---|---|
| Channel contract, `contracts/AimiMicropayChannel.sol` | `paymentChannels`, its token balance | `initializeChannel`, `claimPayment`, `closeChannel`, `cancelChannel` | TRC-20 token; called by buyers and sellers through `scripts/*_exec.js` |
| Payment store, `python/shared/payments.py` | payment records, the unique idempotency keys, processing locks inside the records | `upsert`, `create_or_get`, `acquire_processing_lock`, `claim_for_processing`, `list`, `recover` | every seller process (one SQLite file) |
| Seller gateway, `python/seller/gateway.py` | configuration, webhook outbox, metrics | payment intents, status queries, settlement requests, operator actions, statements and reports, manifest; `_touch_payment` on whatever it returns | store, settlement service |
| Settlement service, `python/seller/settlement.py` | none of its own | `execute_payment`, `execute_pending`, `reconcile_payment`, `reconcile_submitted` | store; claim and confirm scripts (subprocesses) |
| Recovery worker, `python/seller/worker.py` | none between runs | `run_once`: unfinished, execute, retry failed, reconcile | gateway |
| Paid endpoints and facilitator, `python/seller/runtime.py`, `facilitator.py` | routes | HTTP 402 offer, resource against a settled payment, verify, settle | gateway |
| Webhooks, `python/seller/webhooks.py` | the outbox of a gateway runtime | `deliver_pending` | the merchant's servers |
| Merchant control, `python/examples/merchant_control.py`, `merchant_app.py`, `merchant-dist/dashboard` | settings file, revisions, public file, settings in memory; what a console shows | change routes, plans and branding; history, diff, rollback; restart | gateway's routes and plans |
| Hosted gateways, `python/seller/hosted.py` | merchant registry | add merchant, marketplace search | one gateway per merchant |
| Buyer client, `python/buyer/client.py` | manifest cache, budget policy, `spent_today_atomic` | offers, channel opening, intents, execution, finalizing, paid requests | gateway over HTTP, provisioner |
| Buyer market, runtime, provisioner, `python/buyer/market.py`, `runtime.py`, `provisioner.py` | sellers, the auto purchase switch | offer selection across sellers, purchases for a task | buyer clients, `open_channel_exec.js` |
| Buyer setup, `python/ops_tools/agent_onboarding.py`, `wallet_setup.py`, `buyer_setup.py`, `network_profile_setup.py`, ... | `.env.local` (wallet, merchant, network), wallet file, saved onboarding report | create wallet, name merchant, choose network, onboard, doctor's page | files; chain for balances; merchant for offers |
| Agent hosts, `python/buyer/mcp.py`, `adapter.py`, `agent_entrypoints`, the skill's runner | environment and startup onboarding of a running server | start, tools over the buyer client, tools of the setup | buyer runtime, buyer setup |
| Installers, `python/ops_tools/install_*.py`, `verify_agent_installation.py`, `host_post_install_check.py` | installed files, install report | install, verify, post-install check | files that hosts start from |
| Protocol, `python/shared/protocol.py`, `models.py`, `protocol_native.py`, `mandates.py`, `attestation.py`, `discovery.py` | none | status flow, recovery hints, digests, mandates, signatures, manifest | all |
| Store tools, demos, release tools | snapshots, bundles | export, import, scripted walks, packaging | store, files |

What is hard about it:

* **Shared records, whole-record writes.** Gateway threads, workers and
  operators read a record, work (for seconds, in a subprocess that talks to a
  chain) and write the whole copy back. The processing lock in the record is
  advisory and expires by age.
* **Status checked before the lock.** `execute_payment` and `reconcile_payment`
  look at the status, then take the lock.
* **The chain and the record can disagree.** A claim may be sent and its answer
  lost, a process may die between sending and writing, a transaction may never
  be included, a confirmation may fail.
* **Time.** Vouchers, channels and locks expire; four places compare the same
  deadline with four different operators.
* **Retries.** Agents retry creations under an idempotency key while settlement
  changes the record; workers retry failed executions.
* **Money.** All channels of a token share the contract's balance; a channel id
  can be opened again; at expiry both parties may take the deposit; purchases of
  one wallet replace each other's token allowance.
* **Copies that age.** A client decides on a cached manifest while prices
  change; a paid handler answers with the record it read before its `await`; a
  server keeps the environment it started in; a rollback is confirmed on a diff
  that was fetched before.
* **Files without locks.** Several tools read and rewrite `.env.local`; a
  merchant's change is four writes; any process may die within a write.
* **Bounded memory.** The outbox forgets its oldest events, and delivery looks
  at the oldest it still has.

What makes each part correct:

* contract: tokens are neither created nor destroyed, each opening is ended
  once and paid from its own deposit, a seller is paid what a voucher says,
  refunds before expiry need both signatures, deposits leave the contract;
* settlement: a settled record is backed by a claim, one payment per channel is
  settled, paid payments are not written off, the status flow is followed,
  locks exclude, every payment ends;
* intents: one payment per key, no lost payments, one answer to one request;
* purchases: a session stands on an open channel with the deposit that was asked
  for, allowances do not add up, nothing is spent that neither the request nor
  the policy allows, a prepared payment is not forgotten, calls return;
* paid endpoints: a resource is served against a payment settled for it;
  statements add up; events tell the record's course and arrive;
* merchant control: an answered change survives, the manifest shows the
  settings, a rollback does what its preview said;
* setup: a wallet somebody was told of is not replaced, nobody is sent to
  purchase without funds, servers use the settings, a finished installation
  works.

The full list of hazards, each with the line where it bites and the properties
that watch it, is in `PROJECT.json`.

## 2. Modules

| Module | Models |
|---|---|
| `ChannelEscrow` | abstract: what a channel promises (one ending per opening, claim within the deposit, or full refund) |
| `AimiMicropayChannel` | the contract, with block clock, token balances, allowances and the signatures that exist |
| `PaymentLifecycle` | abstract: the documented status flow, next to what the chain has paid |
| `SettlementService` | records, locks, gateway calls, settlement service, operator actions, workers, and the chain's transactions |
| `IdempotencyRegister` | abstract: what an idempotency key promises (stored once, never changed, told as stored) |
| `PaymentIntents` | creating intents: agents, keys, retries, the store's two-step `create_or_get` |
| `BuyerPurchases` | selection, budget, channel opening, payment and paid resources on the buyer's side |
| `WebhookOutbox` | the outbox and its delivery; extended by `PaidEndpoints` |
| `PaidEndpoints` | a merchant's process: intents, 402 handshake, facilitator, operator, statements, events, restart |
| `MerchantConfig` | a merchant's settings: files, revisions, running gateway, consoles |
| `BuyerSetup` | the buyer's local files and the tools that change them; extended by `AgentHosts` |
| `AgentHosts` | installers, their checks, the servers agent hosts start, and the setup tools those serve |
| `*Proofs` | theorems about the module they are named after |
| `SetSums` | lemmas about sums over finite sets, used by two of the proofs |
| `MCChannel`, `MCSettlement`, `MCIntents`, `MCPurchases`, `MCEndpoints`, `MCMerchant`, `MCSetup` | small instances for TLC |

Names in the modules are the names in the code where TLA+ allows it. Where an
action is followed by a variant of itself with a name like `ReplayedSaysAuthorized`
or `DropTreeOnce`, the variant belongs to no specification: `PROJECT.json` lists
it as a mutant, with the property that fails when it takes the action's place.

### AimiMicropayChannel

`channels` is `paymentChannels`; a channel id is the tuple that is hashed, so
buyer, seller, token and salt of the struct are read off the id. `wallet`,
`escrow` and `allowance` are what TRC-20 keeps. A signature is membership in
`vouchers` or `cancellations`, records of everything the digest covers. A call
that reverts changes nothing and is not a step; each function's guards and
effects are one action, transfers included. `ledger` is history: where the
deposit of the latest opening went.

`ImplementsEscrow` is the refinement of `ChannelEscrow`: the phase of a channel
is read off `isActive` and the ledger.

### SettlementService

Each store call is one step (SQLite runs it in a transaction); between two
calls any other process may run. A process's `job` says which step comes next
and holds the copies of the records it works on, because the code writes whole
copies back. `store` keeps of a record what the code branches on: status,
`error_retryable`, the transaction id (its number among the payment's claims),
confirmation status and attempts, and the lock. Tokens of locks are fresh uuids
and never match, so only a lock's age is kept.

| Steps of the model | Code |
|---|---|
| `GetPayment`, `RecoverPayments`, then `TouchPayment` | reads that end in `_touch_payment` |
| `ExecutePayment`/`RetryFailed`, `LockExecution` | `execute_payment` up to the lock; a refused lock returns the current record, which is touched |
| `ExecutePending`, `ReconcileSubmitted` | batches: lock all, then work through the copies |
| `ExecuteTooLate`, `Execute`, `RecordExecution` | `_execute_record` before, in and after the executor |
| `ReconcilePayment`, `LockConfirmation`, `Confirm` | `reconcile_payment`, `_reconcile_record` once per outcome |
| `ReadForOperator`, `ApplyOperatorAction` | `apply_operator_action` |
| `ListUnfinished`, `WorkerExecutePending`, `ListFailed`, `RetryFailed`, `WorkerReconcileSubmitted` | `run_once`, in this order |
| `CreateIntent`, `RecordPayment` | new records |
| `Mine`, `DropTransaction`, `CloseChannel`, `Tick` | the chain and the clock |

`Faults` says what may go wrong: `executor_error` (raised before sending),
`answer_lost` (raised after sending), `confirm_error`, `tx_dropped`, `crash`
(memory is lost, locks stay), `slow` (a lock may expire while its holder still
works). Without `slow`, `LeasesKept` stops the clock before that happens.

`FollowsLifecycle` is the refinement of `PaymentLifecycle`: `failed` splits into
final and `retryable` by `error_retryable`.

### PaymentIntents

`Select`, `Insert`, `Reselect`, `Touch` are the gateway's creation over the
SQLite store; `SendCreate` and `Recover` the agent's side. The answer of a
creation is recorded in `answers` whether or not the agent hears it. `Settlement`
lets the record move the way `SettlementService` moves it. `OwnId` says which
operations bring their own payment id. `KeepsDeadline` says
whether a retry repeats the first deadline, `Failures` whether settlement fails.

`ImplementsRegister` is the refinement of `IdempotencyRegister`: what the register
holds is read off the table, key, id and body of each row, and what it told off
the accepting answers. `Insert` is its `Store` unless it overwrites the row of an
earlier try, the end of `Touch` is its `Tell`, and all else rests.

### BuyerPurchases

A `Request` is a call of the client, the runtime or the market: which flow, which
offers its selector matches, its budget and who drives the payment on. `job` is
the call's place in the flow (`fetch`, `decide`, `open`, `approve`, ...,
`present`); every answer of a merchant and every wait for a transaction is a
step, so two agents on one wallet interleave as their transactions do. `seen` is
the cached manifest of an agent's client, `price` what the merchant asks now.
`tx`, `allowance`, `purse` and `channels` are the wallet's side of
`open_channel_exec.js`; `Mine` includes transactions in any order. A merchant's
record is its status only and moves as `PaymentLifecycle` says
(`MerchantMoves`, `Executed`, `Reconciled`); the races behind it are
`SettlementService`'s subject. `outcome` is history: what the caller was told.

### WebhookOutbox and PaidEndpoints

A gateway's handlers run between two awaits without being interrupted, so each
is one action; what interleaves is the worker on the same store
(`WorkerSettles`), paid handlers, which await (`PaidRequest`, then
`HandlerReturns`), the clock, which `billing_statement` reads once for the list
and once more for each item (`ListStatement`, `ItemiseStatement`), and the
delivery, post by post. `record` keeps of a payment its route, the path asked
for, its amount and status. `outbox` holds the last `Kept` events;
`deliver_pending` posts the first `Limit` of them again on every call, because
nothing removes a delivered event. `Crash` loses the outbox and the requests
under way.

### MerchantConfig

A change is four steps, one per file or process state: `WriteFile`,
`WriteSnapshot`, `ApplyRuntimeState`, `SyncPublicConfig`; `op` says which is next.
At any of them a write may fail (`WriteFails`) or the process die (`Crash`),
leaving the old file or a torn one (`CutOff`). `CreateApp` is a start from what
is on disk: it serves paused routes and plans as well, which the manifest and the
registry filter on their own. Consoles act on what they have rendered (`view`)
and roll back on the diff they have fetched (`dialog`). Revisions are numbered
from 1, one more than the highest in use.

### BuyerSetup and AgentHosts

A tool is a sequence of steps, one for each time it reads or writes a file
(`todo` of the process's job); `lines` are the settings it has read and will
write back, changed. `AgentHosts` adds the installer's steps, one per file or
tree, the environment of each server (`LoadEnv`: what is in the file wins) and
the tools that a running server answers. `Die` stops a process between two steps
or in the middle of a write. `disturbed` is history: tools overlapped, settings
were cut off, or a new wallet was asked for. `outdated` are the servers that run
since before the merchant was changed. Balances are the set of wallets that hold
the minimum; a network is one choice of backend, chain and minimums.

## 3. Runs

Runs that pass:

| Run | Shows | Instance |
|---|---|---|
| `channel` | contract safety, `ImplementsEscrow`, `DepositsReleased` | one buyer, one seller, one token, two salts, amounts 1-2, three instants, two signatures of each kind |
| `settlement_channel` | `SettledIsClaimed`, `ChannelSettlesOnce` | two payments on one channel, worker and handler, operators, locks may expire |
| `settlement_reconcile` | `PaidIsNotFailed` | worker and two reconciling handlers, locks may expire, deadlines distant |
| `settlement_locks` | `OneProcessPerPayment`, `SettledIsKept` | worker and two handlers that read and reconcile, locks hold, a deadline passes |
| `settlement_live` | `EveryPaymentEnds`, `FollowsLifecycle` | two payments, one worker, every fault but dropped transactions |
| `intents` | `OneIntentPerKey`, `ImplementsRegister` | two operations under one key, two handlers, two tries each |
| `purchases` | `SessionIsFunded`, `AllowanceIsPending`, `UnapprovedWithinLimits`, `PreparedPaymentKnown`, `PurchaseEnds` | two agents on a wallet of 3 tokens, an offer of a trusted and one of a blocked merchant, prices 0-2 with one change, one failing call, one purchase each of two kinds |
| `endpoints` | `ServedIsPaid`, `EventsFollowTheRecord`, `GrossIsItemised`, `EventsAreDelivered` | two payments, two paths, one client, one target, an outbox of two events and a batch of one, one failing post, one restart, one operator action or statement |
| `merchant` | `AckedIsRevision`, `RestartKeeps`, `ManifestShowsSettings`, `PreviewIsExact` | two routes, two prices, one plan, two brands, one console, three changes, one failing write, one crash |
| `setup` | `ToldWalletIsKept`, `CompletedIsFunded`, `ServerMatchesSettings`, `FinishedInstallWorks` | operator, codex and the skill; two URLs, a test and a main network, two wallets; two tools from nothing or three after a first installation, the first two may overlap; one killed process |

Many of these hold only in the regime their run sets up, and the regime is part
of what the run says: `SettledIsKept` and `OneProcessPerPayment`, which also stop
at a payment's own deadline, `PaidIsNotFailed`, the two of `settlement_live`; `ToldWalletIsKept` and
`ServerMatchesSettings` while nothing is `disturbed`; `UnapprovedWithinLimits`
exempts the blocked merchants that `prepare_purchase` and `request_paid_resource`
pass over; `EventsAreDelivered` speaks of events that come among the first `Limit`; `PreviewIsExact` while nobody changes the
settings.

Two runs end in a violation. Both take their property from
`spec/PROTOCOL_REFERENCE.md:90`, which calls settled a terminal state:

* `doc_settled`, `SettledIsTerminal`: a second worker's retry, decided before the
  lock, takes a settled payment back (`python/seller/settlement.py:251`).
* `doc_retried`, `RetriesKeepSettled`: a creation that brings its own payment id is
  sent twice; both handlers look for the key before either stores, and the later
  upsert, which overwrites by id, sets a settled payment back to authorized
  (`python/shared/payments.py:254`). A deadline cannot pass in this instance, so
  that no other write is to blame.

Section 4 says under which conditions the document is right.

Other places where a document or a name promises more than the code keeps. They
are listed as hazards, and the models contain the behaviour:

* `_touch_payment` of a stale copy expires a payment that another process has
  submitted or settled meanwhile (`python/seller/gateway.py:903`);
* `max_retryable_failures` is compared with a counter that executions never
  raise (`python/seller/worker.py:68`; `python/DEPLOYMENT_RUNBOOK.md:43`);
* the same key and payload are refused after a failure, because
  `error_retryable` is compared (`python/shared/payments.py:492`;
  `spec/PROTOCOL_REFERENCE.md:129`);
* `prepare_purchase` goes on for a blocked offer, and no purchase raises the
  day's spending (`python/buyer/client.py:313`;
  `spec/COMMERCIALIZATION_MVP.md:134`);
* `finalize_payment` returns a payment that failed retryably and does not
  execute it again, though `ERROR_RECOVERY_ACTIONS` sends the host there
  (`python/buyer/client.py:632`; `python/shared/protocol.py:99`);
* delivered events stay at the head of the outbox, so events behind the first
  hundred are posted only after older ones were trimmed
  (`python/seller/webhooks.py:21`).

Bounds. `MaxTime` of 2 gives before, at and after a deadline of 1; with a lock
TTL of 1 or 2 it also gives a lock that is held, expires and is taken again.
`settlement_locks` has a deadline of 2 and a `MaxTime` of 3, so that everything can
be done in time and stale copies are expired after it.
`MaxTx` of 2 allows the claim that was lost and the one that repeats it; at the
bound the node refuses. `MaxAttempts` and `MaxRetryable` of 1 or 2 put the
limit within reach. `MaxSigned` of 2 is what a cancellation needs. `MaxTries`
of 2 in `intents` is a creation and its retry, for each of two operations on two
handlers. Two processes show every pairwise race; three are used where a third
can disturb a pair. A wallet of 3 tokens can fund two deposits of 1, but not two
of the default 2, so openings also revert for want of funds. Three events in an
outbox of two are trimmed while the batch of one is under way. Three changes are
an edit, another and a rollback over them. Two overlapping tools are what loses
an update; the third runs on what they leave. Deadlock checking is off: the
models end when the clock, the payments, the tools or the signatures are used up,
and a settled system may rest.

Fairness. `channel`: blocks arrive and the buyer closes an expired channel,
which is the buyer's interest and needs no one else. `settlement_live`: the
clock runs, transactions that are not dropped are mined, the worker's loop goes
on (weak fairness of its next step), and the node eventually reports a final
outcome when asked again and again (strong fairness of `ConfirmFinal`, which
competes with `ConfirmPending`). Crashes stop while a lock can still time out
before the end of the model's clock. `purchases`: a call under way goes on (weak
fairness of an agent's steps) and what was sent to the chain is included.
`endpoints`: somebody calls `deliver_pending` again and again and a call goes on;
failing posts are bounded, as an outage that ends is.

## 4. Proofs

All theorems hold for every value of the constants that the named assumptions of
the modules allow (`ChannelAssumption`, `SettlementAssumption`, `IntentAssumption`,
`NoneAssumption`, `PurchaseAssumption`, `EndpointAssumption`, `OutboxAssumption`,
`ConfigAssumption`, `SetupAssumption`, `HostAssumption`), which TLC evaluates in
the runs. They say of what sort a constant is, that model values for "nothing"
are none of the values they stand beside, and that there are finitely many
accounts, tokens, salts, payments and webhook targets: the sums need it.

`AimiMicropayChannelProofs`, for any accounts, amounts, clock and numbers of
signatures: `TypeCorrect`, `EveryOpeningAccounted` (`FundsAccounted`),
`PaidOnlyAsSigned` (`SellerPaidAsSigned`), `EarlyRefundsAreAgreed`
(`EarlyRefundIsAgreed`), `ContractImplementsEscrow`, `FundsAreConserved`
(`FundsConserved`) and `RefundsAreCovered`. The conjunction of the
invariants with the type invariant is inductive as it stands; the refinement
uses it to know that an ended opening holds nothing, and early refunds use that
signatures and time are only added. Conservation compares two sums before and
after a call that changes one channel and at most three wallets.
`RefundsAreCovered` follows from it: the contract owns at least the deposit of
each channel, which is the part of `RefundAlwaysAvailable` about money; that
`closeChannel` is then enabled is left to TLC.

`SetSums` has what those sums need. The library defines a sum by recursion over
a choice of elements, and its induction theorems take an operator the provers
cannot instantiate. The lemmas instead take the smallest set for which a claim
fails (`SubsetInduction`: proper inclusion among the subsets of a finite set is
well-founded), show once that a sum exists and does not depend on the order
(`SumsAgree`, `SumsExist`), and then that it splits at any element
(`SumWithout`), changes with one summand (`SumChange`), is no less than each
(`SumBounds`) and leaves out zeros (`SumOfPart`).

`SettlementServiceProofs`, for any payments, channels, processes, requests,
faults and bounds: `TypeCorrect`, `SettlementIsBacked` (`SettledIsClaimed`) and
`OneSettlementPerChannel` (`ChannelSettlesOnce`). The inductive invariant
`IInv` adds that copies in a confirmation are of submitted records
(`ConfirmsSubmitted`: otherwise a settled copy could come back with another
transaction) and that the chain confirmed at most one claim per channel and
only on claimed ones (`ClaimsMatchChannels`). It speaks of copies in memory,
because a stale copy may be written back at any time.

The rest of its theorems hold under conditions, which they state by name. Where a
run's instance meets them, TLC checks the property on it.

| Theorem | Property | Conditions | Instance that meets them |
|---|---|---|---|
| `LocksExclude` | `OneProcessPerPayment` | `LocksHold` | `settlement_locks` |
| `SettledStaysSettled` | `SettledIsKept` | `LocksHold`, `OneExecutes` | `settlement_locks` |
| `WorkerFollowsLifecycle` | `FollowsLifecycle` | `WorkerAlone` | `settlement_live` |
| `LocksFollowLifecycle` | `FollowsLifecycle` | `LocksHold`, `OneExecutes`, `Distant` | that of `settlement_locks` with distant deadlines |
| `SettledIsFinal` | `SettledIsTerminal` | `WorkerAlone`, or `LocksHold`, `OneExecutes` and `Distant` | `settlement_live` |
| `PaidNeverFails` | `PaidIsNotFailed` | `OneExecutes`, `ExecutionsAnswered` | `settlement_reconcile` |

The run of `LocksExclude` has one process that executes beside two that confirm; the
theorem is about any number of either.

* `LocksHold`: a lock lasts, nobody holds it for longer, and no operator writes
  back a copy without it. It says nothing of deadlines.
* `Distant`: no deadline and no expiry passes within `MaxTime`.
* `OneExecutes`: one worker and no request to execute; others may reconcile.
* `WorkerAlone`: one worker and no handler, with locks that may expire under it.
* `ExecutionsAnswered`: no executor's answer is lost, no process dies, the
  confirmer does not raise, and operators keep away. Locks may expire.

`OneProcessPerPayment` and `SettledIsKept` speak of a payment until its own
deadline or its channel's expiry has passed (`InTime`). That is as far as the code
goes: after it `_touch_payment` writes expired copies over whatever the record has
become, its lock or its settlement included (`python/seller/gateway.py:903`), and
TLC finds both properties violated without the guard. The other payments of the
same processes are not affected, and since time only goes on a payment leaves
`InTime` once. `SettledIsFinal` is the positive half of `doc_settled`: it follows
from the status flow, whose steps leave settled payments settled
(`FlowKeepsSettled`).

The invariants: `LInv` says that, until its deadline, a record that is worked on
equals its holder's copy, lock included (`LocksInPlace`), so that a process that
finds no lock finds nobody at work. `SInv` adds that what is executed, or waits for its lock, is
executable still (`Fit`): this is the check `execute_payment` does not repeat
after it took the lock, and a second worker breaks it, see `doc_settled`. `PInv`
follows a payment's one transaction instead of the locks: what is executed was
not sent before (`ExecutedFirst`), what was sent is in an executor's hands or
past being executed (`SentOnce`), who confirms a record without a transaction
knows that none was sent (`ConfirmedPast`), and a final failure leaves no
transaction that pays, or could (`FailedUnpaid`). It has to look at the mempool,
because a claim that is not mined yet turns a failure into a lie later. For the
status flow one lemma (`StepInFlow`) maps each write of the store to a step of
`PaymentLifecycle` or a stutter, and a mined claim to `Pay`. It needs that only
payments with a record were sent (`SentKnown`: the chain pays nothing that is
absent) and that every job finds its records as far in the flow as it takes them
to be (`InHand`), which holds for two different reasons: with locks because of
`SInv`, for a lone worker because nobody else writes (`InHandAlone`).

`PaymentIntentsProofs`, for any operations, keys, bodies, handlers, retries and
clocks: `TypeCorrect`, `OnePaymentPerKey` (`OneIntentPerKey`),
`AcknowledgedIntentIsKept`, `IntentsImplementRegister`
(`ImplementsRegister`), `CreationsKeepSettled` and `RefusalsFollowFailures`. The inductive invariant
`IInv` says that keys are unique in the table (`KeysUnique`), that the id of a
request on its way to the upsert belongs to no other operation, and a row
already under it is its own (`PendingOwn`, `OwnFits`: otherwise the upsert,
which overwrites by id, could replace another operation's payment), and that the
copy a request is about to touch has the key and the body of its row
(`HeldFits`: otherwise `_touch_payment` could bring back another payment). Rows
are never deleted and keep key and body (`RowsStay`), which is why an answer
stays true: `AcknowledgedIntentIsKept` says it of each state, the payment an agent
was told of is the only one under its key and has its body. The refinement maps
each step: `KeyTaken`, which `Insert` checks in the same step, gives `Store` its
guard, and a row that is overwritten is the operation's own (`InsertRegisters`,
from `PendingOwn`); `HeldFits` gives `Tell` its guard (`TouchTells`).

The last two theorems say when two sentences of the protocol reference are right.
They assume that the gateway makes the payment ids (`GatewayMakesIds`). Then a
request that has not found its payment has an id that no row and no other such
request has (`IdsUnused`), so that the upsert overwrites nothing, and what is found,
stored or told has the deadline that was asked for (`DeadlinesFit`). A settled
payment is therefore left alone until its deadline (`CreationsKeepSettled`; with
ids that agents bring it is not, see `doc_retried`, and after the deadline a stale
copy may expire it), and a request that was accepted once is refused only after a
failure or an expiry has set `error_retryable` (`RefusalsFollowFailures`).

`BuyerPurchasesProofs`, for any agents, merchants, offers, prices, requests,
policies and faults: `TypeCorrect`, `SessionsAreFunded` (`SessionIsFunded`),
`AllowanceIsOfOneOpening` (`AllowanceIsPending`), `SpendingWithinLimits`
(`UnapprovedWithinLimits`) and `PreparedIsKnown` (`PreparedPaymentKnown`). The
properties speak of channels, allowances and payments, but what makes them true
is where a call is, so the inductive invariant `IInv` says for every step of a
call what it may rely on (`JobHolds`: terms that were decided on, transactions
that are not sent yet, a channel that is open). `PurchaseHolds` ties a purchase's
transactions to its channel, also when nobody waits for them any more, and
`FutureHolds` says that a purchase that has not begun has left no transaction
and no payment behind, so that a new call starts clean.

`PaidEndpointsProofs`, for any payments, paths, prices, clients and sizes of the
outbox: `TypeCorrect`, `ServedRequestsArePaid` (`ServedIsPaid`),
`EventsAreInOrder` (`EventsFollowTheRecord`) and `StatementsAddUp`
(`GrossIsItemised`). Every writer moves a record forward and leaves an end
as it is (`Advances`), except an operator, whose payments the properties excuse,
and a statement, which writes back copies from before. The invariant therefore
says of those copies that no event is ahead of them and what is served is
settled in them (`CopiesFit`); trimming keeps the order because it takes events
from the front (`TrimmedIsTail`). A statement adds up because its gross is the sum
of the copies its items are made of (`GrossIsCopied`), and a settled copy stays
one whatever the clock and the worker did in between. The type of
what is posted needs the library's recursive flattening of sequences to be a
sequence again, shown by the same smallest-counterexample argument
(`JoinsExist`, `FlattenType`).

`MerchantConfigProofs`, for any routes, prices, plans, brands and consoles:
`TypeCorrect`, `AnsweredIsARevision` (`AckedIsRevision`), `RestartKeepsSettings`
(`RestartKeeps`), `ManifestIsTrue` (`ManifestShowsSettings`) and `RollbackAsShown`
(`PreviewIsExact`). The inductive invariant adds which files a change under way
has written (`ChangeUnderWay`: its answer then needs no look at the disk) and
that a rollback's question shows the diff to a revision that is still there and
readable (`PreviewsHold`). Two facts about lists carry the last two theorems:
filtering what is enabled once more changes nothing (`EnabledTwice`), and the
diff of two lists, applied to the first, is the second (`DiffApplies`).

`AgentHostsProofs`, for any hosts, agents, URLs, networks, numbers of wallets,
tools and deaths, about both setup modules: `TypesHold` (`TypeOK`),
`WalletIsKept` (`ToldWalletIsKept`), `CompletedHasFunds` (`CompletedIsFunded`),
`ServersFollowSettings` (`ServerMatchesSettings`) and `InstallsWork`
(`FinishedInstallWorks`). They have no conditions but those the properties
state themselves. A tool is a list of steps, and the proofs only need the set of
those left: lists are in the order of the steps' ranks and a wallet that is
looked for is saved right after (`Program`), so the step taken is the one of
least rank, and what a later step relies on is said by which steps are left
(`JobsReady`). `Quiet` is the heart of `WalletIsKept`: while nothing is
disturbed one tool at most has writes to come, the lines it has read are still
those of the file, and it holds a wallet of its own only while the settings have
none. `ServersFollowSettings` uses it for a server that is starting. `CompletedHasFunds`
follows every report, being made, saved or on a server's card (`ReportsCovered`);
funds are never taken away. `InstallsWork` rests on `InstallGoesOn`: each planned
file is in place or its writer is still to come, and a tree that is to be removed
has all its writers to come.

Only model-checked. Liveness is outside the prover's reach, and so is `ENABLED`:
`DepositsReleased`, `EveryPaymentEnds`, `PurchaseEnds`, `EventsAreDelivered` and
`RefundAlwaysAvailable`. Every other property of the passing runs is stated by a
theorem, and for the two that are violated a theorem says when they hold.

## 5. What is not modelled

* Hashes and signatures are perfect. A token that takes fees and reorganizations
  of the chain are left out.
* The confirmer's `immediate_finality` of local smoke tests and `record_payment`
  on an existing id are left out. An executor's submission keeps the old
  confirmation status, as in the code. The in-memory store does each call under
  one lock and has fewer interleavings than the SQLite store, which is modelled.
* With two workers a payment can end failed and retryable with its attempts used
  up by confirmations, which nothing retries or expires; liveness is therefore
  checked for one worker. `PaidIsNotFailed` is not claimed when an answer is lost
  or the confirmer raises: a lost first claim that succeeds makes the second
  revert.
* Purchases: the attestation of manifests is reported and decides nothing, so it
  is left out; key generation and address encoding are abstract.
* Paid endpoints: the bodies of 402 answers, x402 documents, health and metrics
  pages are documents without state. Mandates are data nobody in the modelled
  flow checks.
* Setup: installation into a home directory only (not into a repository), without
  the protocol's smoke test and the argument `full_host`. The smoke test starts a
  merchant of its own and touches no file of the installation. A server that has
  no merchant refuses the setup tools (`python/buyer/mcp.py:324`), which the model
  has as `ConnectRefused`.
* Hosted gateways (`python/seller/hosted.py`): a registry filled once at start
  in one process and then read. That a second start with the persisted registry
  raises is listed as a hazard: a start is one sequence of calls, with nothing to
  interleave.
* Store tools: an import is one upsert per record of a store at rest.
* Demo apps (`easy_setup_app.py`, `local_end_to_end_demo.py`) render
  configuration for download and walk through the components above.
* Release tools (`package_protocol_bundle.py`, `validate_release_artifacts.py`,
  `target_dry_run.py`): packaging and validation of files, sequential.

## 6. Plan

1. Contract, settlement, intents, purchases, paid endpoints with webhooks,
   merchant control, setup and agent hosts: done, see above.
2. Proofs: done for every safety and action property of the runs and for the
   three refinements. What is left is `RefundAlwaysAvailable` and liveness, which
   stay with TLC, and `LocksFollowLifecycle` beyond `Distant`: the status flow
   after a deadline would have to be stated for the payments still in time.
3. An end-to-end composition: a purchase whose merchant is `SettlementService`
   and whose chain is `AimiMicropayChannel`.
4. The hosted registry with merchants added while it serves, if the code comes
   to allow it.
