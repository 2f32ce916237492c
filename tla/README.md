# tron-shkeeper, verified

TLA+ models of tron-shkeeper, the service that issues TRON deposit addresses for
SHKeeper, watches the chain for deposits, sweeps them and pays USDT out; TLC runs
that check the models on small instances; and TLAPS proofs of their main safety
properties for every instance. Paths are relative to the repository.

## The system

Two kinds of processes share SQLite tables, a Redis and a TRON full node:

* the **API process** (`run.py`, one gunicorn worker): Flask handlers, the block
  scanner's thread with its pool, and the thread that selects the full node;
* **Celery workers** (`celery_worker.py`): payouts, sweeps, callbacks, AML checks,
  each a task delivered through the broker, acknowledged when it starts.

| Component | State | Operations | Hard parts |
| --- | --- | --- | --- |
| Payout execution (`app/payout_execution.py`) | a row per execution in `payout_executions`, leases, attempt ids | submit, status, `execute` in the task `execute_payout_execution` | repeated deliveries, a re-read after every compare-and-set, crashes between signing, marking and sending, lapsed leases |
| Payout status (`app/payout_status.py`) | none of its own | reads the chain, answers an observation | stale or failing nodes |
| Spend guard (`app/fee_deposit_spend_guard.py`) | a Redis lock with a TTL, a ContextVar for nested use | acquire, release by token | a holder that outlives the TTL |
| Callback outbox (`app/payout_callback_outbox.py`) | `payout_callback_outbox` rows, claims with a TTL | create, post one, sweep a batch | a batch that outlives its claim, lost answers, dead tasks |
| Block scanner (`app/block_scanner.py`) | `last_seen_block_num`, `WATCHED_ACCOUNTS`, a chunk in memory | poll, scan a chunk in a pool, notify, sweep or record | partial failures, retries of whole chunks, addresses issued meanwhile |
| AML (`app/custom/aml/`) | `tron_aml_transactions`, `tron_aml_payouts` | record, check, recheck, drain | two checks of one transaction, second rows, a transfer without its row |
| Server selection (`app/connection_manager.py`) | `current_server_id` | poll servers, pick the highest | a thread that ends |
| Resource provisioning (`app/usdt_resource_provisioning.py`, `app/resource_providers/`) | orders at external providers | estimate, rent, fall back, check again | an order accepted whose answer is lost |
| Destination activation (`app/payout_destination_activation.py`) | an order record and a lock in Redis | activate once, recover a timed-out order | crash between order and record |
| Sweeps (`app/tasks.py`) | balances on the chain | sweep one account, scan all | check-then-act, balances read long before they are spent |
| Payouts of the old interface (`app/tasks.py`) | none | payout, multipayout | partial failure of a batch |

Interactions: the API inserts a payout row and enqueues a task; the task takes the
spend lock, provisions resources, signs, marks and sends, and the row it leaves is
what status polls refresh from the chain. Results of the old interface go through
the outbox to SHKeeper. The scanner notifies SHKeeper itself and queues sweeps; the
addresses it watches come from the API handler in its own process and, at a start,
from the `keys` table. Everything talks to the full node whose id the server
selection stored.

`PROJECT.json` lists every component with what of it is modelled, and under
`hazards` every place of the code where a test would hardly reach what goes wrong.

## Modules

| Module | Models |
| --- | --- |
| `PayoutContract` | what a consumer may see of a payout: paid at most once and never while the report says not paid, that report final unless the execution was delivered twice before it, true and final verdicts |
| `PayoutExecution` | `PayoutExecutionStore`, the task around it, the spend lock, the chain; refines `PayoutContract` |
| `PayoutExecutionProofs`, `PayoutRefinement` | its proofs, and the proof that it implements `PayoutContract` |
| `CallbackContract` | what becomes of a notification: sent or given up once, after attempts that count one by one; the consumer may get it late and again |
| `CallbackOutbox`, `CallbackOutboxProofs` | the outbox and its tasks; refines `CallbackContract`; proofs of both |
| `BlockScanner`, `BlockScannerProofs` | the scanner, its pool, address issuing and restarts; proofs |
| `ServerSelection`, `ServerSelectionProofs` | the selection of the full node; proofs |
| `UsdtProvisioning`, `UsdtProvisioningProofs` | energy and bandwidth for a USDT transfer, rented from ProfeeX and re:Fee; proofs |
| `DestinationActivation`, `DestinationActivationProofs` | the activation of a payout's destination; proofs |
| `DepositCollection`, `DepositCollectionProofs` | drains, AML checks and sweeps of a one-time account, with the scanner that records its deposits; proofs |
| `MCPayoutExecution`, `MCCallbackOutbox`, `MCBlockScanner`, `MCUsdtProvisioning`, `MCDestinationActivation`, `MCDepositCollection` | instances for TLC |

`DepositCollection` composes the scanner's side of a deposit, the AML tasks, the sweep
guard and the sweeps, which meet in one account's balance and one deposit's row.
`PayoutExecution` calls provisioning and activation as one step that succeeds or fails in
one of the ways that `UsdtProvisioning` and `DestinationActivation` establish:
`CleanFailureOwesNothing` is what entitles it to retry a payout from the start.

Definitions named as mutants (`\* A mutant: ...`) are plausible slips of the code,
used to see that each property fails when the code does; no specification uses them.

### PayoutExecution

`row` is the table; `snap[t]` is the row delivery `t` read last and `pc[t]` where it
is in `execute`. `_transition` is an `UPDATE ... WHERE state_version = ?` and then a
`SELECT` in a statement of its own, so each transition is two actions (`Claim` and
`Claimed`, `MarkBroadcasting` and `RereadMarked`, ...): another process may write in
between, and the task goes on with what it reads. One delivery creates one
`attempt_id` and signs one transaction at most, so deliveries name both. A lease may
lapse at any time (`LeaseLapse`); a worker dies anywhere (`Crash`) and, as messages
are acknowledged early, its delivery is gone; the broker may lose a delivery; the
network decides what it has when it likes (`ChainStep`), may have a transaction whose
broadcast raised, and may let one expire. A status poll recovers stale rows and
writes what it observed.

Abstracted: amounts, addresses, signatures, canonical JSON and its hash; the columns
`_mark_signed` writes together are one; validation, balances and resources succeed,
fail for good or fail retryably. Verdicts of the chain are taken to be stable: the
code waits for a solid block before it calls a transfer confirmed, but not before it calls one
reverted (`payout_status.py:173-188`). A redelivery of the same Celery id is not modelled; repeated submits
are.

### CallbackOutbox

A dispatcher is `post_payout_results` with one row or `dispatch_due_payout_callbacks`
with a batch. Time is what SQL compares: which rows are due, in which order, whose
claim is older than the TTL. `PostsPerTTL` is the number of POSTs, each at most
`PAYOUT_CALLBACK_TIMEOUT_SEC` long, that fit into `PAYOUT_CALLBACK_CLAIM_TTL_SEC`: a
claim may lapse under a live task once that many of its POSTs have ended since, and
under a dead one at any time.

### BlockScanner

The scanner's loop is `Seed`, `BeginChunk`, `EndChunk`; a thread of the pool scans
block `b` by `DownloadBlock`, `DownloadInfos`, `Skip`, `Notify`, `Collect` (default flow) or `Record` and
`Queue` (with `EXTERNAL_DRAIN_CONFIG`), `Finish`. A chunk has one block more than the
pool has threads, as in the code. `WATCHED_ACCOUNTS` is read live by every thread
while the API handler saves a key and then watches and hands out the address
(`SaveKey`, `HandOut`). Any call of a node, SHKeeper, the broker or the database may
fail, a bounded number of times; a notification whose answer is an error may have been
taken. A node may lag: `BeginChunk` takes any height up to the head, and
the infos of a block, asked of whichever node is selected by then, may come back empty:
the transfers read from logs are then passed over (`unseen` remembers them for the
properties).  A row stands for a transfer, one log of a transaction (`TxOf`); who reads
rows by transaction and address finds those of all its logs.

Abstracted: decoding of blocks and logs to transfers; failed and undecodable
transactions, which the code passes over, are not on the model's chain; the chain only
grows; one API process, as `gunicorn run:server` starts. Rows of a transfer are counted
up to two.

### ServerSelection

`Ask` polls one server, `Choose` picks the first of the highest, `Write` is the first
`INSERT` or the `UPDATE`. A server is up, refuses (`GoDown`) or takes requests without an
answer (`Hang`): the requests have no timeout, so it holds the thread that asks it (`Hold`)
until it answers or the connection breaks (`Release`), which nothing forces. `Raise` is what an exception does: retried at the first
choice, the end of the thread afterwards. `Change` and `SwitchToBest` are the endpoints.

### UsdtProvisioning

A call of `ensure_usdt_transfer_resources` (`pc`, with the resource and the place in the
chain of providers it is at) quotes (`Estimate`), rents bandwidth and then energy
(`ReadAccount`, `PreRead`, `Ask`, `Poll`, `GiveUp`, `PostRead`) and quotes again
(`Recheck`). `order` is what the provider has of an order, `answer` what the call was told
of it: the two differ when an answer is lost. A provider serves an order late, fails it, or
never comes back; energy and bandwidth go away while a call waits (`Decay`).

Abstracted: amounts are too little, enough for the transfer, or enough for the threshold of
a fixed order too; requests are not idempotent by key. The delegation from own stake is not
a rent and is left out.

### DestinationActivation

`lock` and `record` are the two Redis keys of a destination. `FirstQuote` to `Release`
follow `ensure_destination_activated`, with `activate_address` of ProfeeX (`Ask`, `Wait`,
`WaitOver`) and of re:Fee (`AskRefee`). Writes to Redis may fail before or after they run,
the lock may lapse under its holder, the record may expire. `excused` collects orders that
no record could tell of: for these reasons, or because the status ProfeeX gave the order is
none that the next call reads (`other`). `OneOrder` is about all others. Quotes are taken to
be true; re:Fee's status 400 is not: it ends a call with `told`, which `ReturnedIsActive`
excepts, as the code asks nobody again.

### DepositCollection

`flow` is how the deployment collects a symbol: `aml` and `regular` with
`EXTERNAL_DRAIN_CONFIG`, `guarded` for USDT next to an AML check there (its rows are of
type `aml`), `default` without it. `Threshold` is the balance below which drains and sweeps
leave an account alone. `rows[d]` are the rows a deposit has, in order, as a
block scanned twice adds one; `payouts[d]` the addresses with a row in `tron_aml_payouts`;
`paid` what the chain has seen. A task is a worker's `job`, taken from `queue` in any order;
`Inspect`, `Skip` and `InspectLost` are `skip_if_running`, which asks the workers what they
run and goes ahead when nobody answers in time. A periodic task's round is one action: it
keeps nothing from one account to the next.

Abstracted: a share of a deposit is an equal part; score and thresholds are the level they
fall into; provisioning of a sweep succeeds or not; what comes after a token transfer that
failed on the chain is its row, as in the code, which then never repeats it.

## Runs

| Run | Shows | Bounds |
| --- | --- | --- |
| `payout_live` | evidence kept, verdicts final, spends one at a time; nothing stays half done or unreported | 2 deliveries of one execution, 2 workers, fair |
| `payout_lapsing` | one payment for one external id under two execution ids, the inductive invariant and the refinement of `PayoutContract`, with a spend lock that lapses under its holder | 2 executions of one external id, the first delivered twice, the second once |
| `payout_reopened` | **violation**: a row reported FAILED_PRE_BROADCAST is paid | 2 deliveries |
| `outbox_overtaken` | attempts, SENT and settled rows, and the refinement of `CallbackContract`, when a batch does not fit into the TTL of its claim | 2 rows, 2 tasks, 2 attempts, a crash |
| `outbox_live` | no callback is posted by two tasks at once if a batch fits into the TTL of its claim; every callback settles | 2 rows, one row per sweep, 1 POST per TTL, a crash, fair |
| `scanner_default` | nothing missed, nothing uncollected, in the default flow | 4 transfers, 2 blocks on 2 threads, a failure, a restart |
| `scanner_aml` | nothing uncollected, and a row that cannot be read has its reason; the scanner catches up unless a deposit it cannot record or a transfer it does not know is in its way | 6 kinds of transfers, 3 at a time, two of them logs of one transaction; chunks of 2 blocks on 1 thread, a failure, a restart, fair |
| `scanner_small_deposit` | **violation**: a small AML deposit is notified for ever and never recorded | no failure |
| `server_failover` | what it takes to end the refresher's thread; otherwise, and unless a server holds its request, a server that answers is in use in the end, and stays | 2 servers; 2 outages, of one server or of each, with or without refusal; an error, an endpoint, a restart; fair |
| `provisioning` | nobody is asked again after an accepted order, a clean failure owes nothing, no step leads back, every call ends | five configurations: both providers, thresholds above the need, a fixed order that is too small, one provider, nothing to rent; two overlapping calls of one account; a decay; fair |
| `activation` | a destination is paid for once unless an order could not be recorded; a record that can be read is not written over; only re:Fee's word lets a call return to an inactive destination; every call ends | 2 calls, with and without re:Fee, a lapse, an expiry, fair |
| `collection` | each share paid once and after its verdict; what a drained deposit is owed is on the account and will be taken up | every flow, token and TRX, a deposit that reaches the threshold on top of an old balance or none, a rest that does not, 2 levels and 2 addresses, 2 workers, 2 faults |

With provisioning off the code takes no spend lock (`LockEnabled = FALSE`). No run needs
that instance for double payments: a lock that may lapse at any moment, as in
`payout_lapsing`, allows the same interleavings, and the theorems hold for both values.

The bounds let each hazard meet each other one once: a failure before, in and after
a restart; two executions of one external id, one of them delivered twice; a chunk longer
than the pool (`scanner_aml`). More of the same adds states and no new case; for the proved properties the theorems remove the bounds.
`collection` has one deposit, on top of an old balance or none; the theorems hold for any
number of deposits that share an account, which `NeverStranded` is about in particular.
`CHECK_DEADLOCK FALSE` stands where the system does come to rest: every delivery has
ended, every row is settled, every block is scanned.

## Fairness

* Payouts (`FairSpec`): a task that runs goes on, a lease and a lock expire, the network
  decides what it has, a consumer keeps submitting and polling. Expiries are clocks;
  polling is what SHKeeper does and what `payout_execution.py` relies on, as nothing
  else recovers a stale row.
* Outbox: Celery beat runs the sweep, tasks go on, rows become due and claims lapse.
* Scanner: its threads run and the node is asked again; nothing is assumed of the number
  of failures but that it is finite. That a call ends at all is an assumption: the
  notification (`app/block_scanner.py:175`) and the requests to a node have no timeout, and
  one that hangs holds its block, and with it the chunk.
* Servers: the thread runs, unless a server holds its request; servers recover and answer
  when they like, or never.
* Provisioning, activation: a task that runs goes on. Providers, Redis and the chain owe
  nothing; every wait of the code has a deadline.
* Deposits: none. That a deposit leaves would need strong fairness of every call it needs
  (node, gate, AML service, worker), which nothing in the code gives; `NeverStranded` says
  instead that the state is always one a periodic task comes back to.

## Proofs

Each `...Proofs` module proves `Invariance == Spec => []IInv` and cites it for the rest.
The safety properties alone are not inductive; `IInv` adds what the threads and tasks
know:

* **Payouts.** `SnapshotIsPast`: a snapshot is never newer than its row and equals it
  when the versions do, so a compare-and-set that wins writes over what was read.
  `EvidenceInv`: a delivery past signing is the one whose txid the row holds, and past
  marking the row says so. `AtMostOnePayment` follows, as signing sets a txid no step
  clears and no two rows share an external id. `LockInv` gives `SpendsSerialized` when
  no holder outlasts the lock.
* **Payouts implement the contract.** `PayoutRefinement` maps each step to a step of
  `PayoutContract` or to none. It needs `NotYetSent` besides `IInv`: a delivery before its
  broadcast has sent nothing, so `Broadcast` is the contract's one `Pay`. `FailureHasEnded`: once
  a failure is reported, the one delivery of the execution is over, so no `Pay` follows. A write is
  allowed when the report it leaves may follow the one it replaces (`MayReport`), and the
  winning compare-and-set ties the row it replaces to the one that was read.
* **Outbox.** `AttemptsInv`: who owns a claim has read the attempts the row has.
  `CountInv` is an equation between POSTs, attempts, lost results and answers at hand;
  `BatchInv` bounds the age of a claim and what is left of its batch by the limit, so a
  batch that fits into the TTL keeps its claims.
* **The outbox implements its contract.** Only `Record`, `Create` and a POST that arrives
  are seen. That a recorded result is one attempt of the contract is `AttemptsInv` and
  `DeliveryInv`; that a late POST is one it allows needs `AtHandExists` besides `IInv`: the
  row a task has at hand exists, whoever owns it by now.
* **Scanner.** `WatchInv`: an address is watched before anybody knows it, and in `keys`
  before it is watched. `VisitAt`: a deposit of a block being scanned is still to visit,
  at hand, notified and collected, or was held back with the infos of the block. A commit
  wants "true" of every block of the chunk, which leaves the last two. `RecordedTwiceIsRescanned` is proved of the runs in which
  nothing failed, restarted or was refused (`Calm`): a block is then scanned once
  (`FirstScan`), and a transfer with a row is behind the scan or not visited again
  (`RowOnce`).
* **Servers.** `OutsAreKnown`: each server that is out, gave no answer in the poll of the
  refresher or holds its request was out at some time since that poll began (the history
  `out`), so a poll nobody answers has met an outage of each.
* **Provisioning.** `CallOK` says what a call has asked for by the place it is at: nothing
  behind it in the chain, nothing accepted of the resource it is still to order.
  `NoWayBack` is the half of `EveryCallEnds` that needs no fairness: a measure (`Left`: a
  `Round` for each provider still to ask, what follows once the resource is there, the
  readings left) that each step of a call lowers and nobody else touches, so a call takes
  `5 * Attempts + 19` steps at most.
* **Activation.** `OwnInv`: a call between lock and record has the lock, or its orders are
  excused. `CoverInv`: every other order is on record or about to be, and who found no
  record is alone. `QuietInv` adds, while no lock lapses, that what a call knows of the
  record stays true, from which `RecordIsKept`. `AnswerInv`: who is to store an order has
  placed it.
* **Deposits.** `Exclusive`, `Counted` and `Unpaid`: one drain of a deposit at a time, whose
  transfers have a row or are about to, and whose plan has nothing with a row; `Levelled`:
  what row, task and plan know of a level is the service's answer.
  `NeverStranded` needs a second invariant, `Ledger`: tasks stay within their flow and work
  on deposits that have arrived (`Orderly`), a deposit has its row (`Rowed`), and the balance
  covers what all deposits together still owe (`Funded`), of which a deposit not yet touched
  is owed all, so that a balance below the threshold means it was too small itself. That it covers each of them by
  itself is not inductive, as the next transfer may be another one's; the sum is stated as
  the size of a set (`Coins`), which needs no recursion.

Assumed are only the named assumptions of the modules (`PayoutAssumption` and its like),
which TLC evaluates in every run.

Every safety property a passing run checks is proved. Only model-checked is liveness,
which the prover does not reach (fairness is about ENABLED):
`UnsafeStateIsLeft`, `PaymentIsReported`, `SubmittedIsDecided`, `EveryCallbackSettles`,
`EveryBlockIsScanned`, `FailsOver`, `SelectionSettles` and both `EveryCallEnds`.

## Disagreements between the code and what is said of it

`PROJECT.json` has the details under `findings`.

1. A compare-and-set is re-read in a second statement and the failure handler does not
   compare `attempt_id`: a payout reported FAILED_PRE_BROADCAST can still be paid.
2. A deposit at or below `min_check_amount` raises in `add_transaction_to_db`; the block
   is retried for ever, with a notification each time.

More follow from the models and have no run of their own:

* An exception in the refresher's loop, such as a poll that no server answers, ends its
  thread (`app/connection_manager.py:173-178`), although background loops "retry forever"
  (`.planning/codebase/CONVENTIONS.md:130`); `RefresherOutlivesOutages` says what it takes.
* The two calls that download a block and its transaction infos
  (`app/block_scanner.py:151,158`) may reach two nodes. Infos that come back empty have the
  TRC20 deposits of the block passed over (`:205-215`, `:416-417`) and the block committed,
  although every deposit of a scanned block is said to be notified
  (`.planning/codebase/ARCHITECTURE.md:130`). The theorems about deposits leave those out
  (`unseen`).
* A sweep of the outbox stamps one claim for up to 100 POSTs
  (`app/payout_callback_outbox.py:118`): when they do not fit into the TTL, two tasks may
  post one callback at once, although `tests/test_payout_callback_outbox.py:229` is called
  `test_claim_prevents_duplicate_concurrent_delivery`. `ClaimIsExclusive` has the condition.
* The requests of a poll have no timeout (`app/connection_manager.py:87,101`): a server
  that takes one and does not answer holds the only thread that chooses the server, with the
  choice as it was (the second excuse of `FailsOver`).
* TRX sent to the fee-deposit account ends in `raise Exception("")`
  (`app/block_scanner.py:317`) in the customized flow and holds the scanner up like 2
  (`Unacceptable`).
* A chunk that is scanned again gives a deposit a second row
  (`RecordedTwiceIsRescanned`), and a transaction with two `Transfer` logs to one address
  has two rows at once, which `check_transaction`'s `.one()`
  (`app/custom/aml/tasks.py:94-99`) cannot read: recorded twice before its check, a deposit
  stays pending (the last disjunct of `NeverStranded`).
* An order of the last provider whose answer is lost is reported with
  `provider_order_accepted` false, and the payout is retried from the start
  (`app/payout_execution.py:63-73`);
  `docs/superpowers/specs/2026-06-13-tron-usdt-resource-provider-fallback.md:231` says that
  any "accepted or ambiguous provider order failure carries `provider_order_accepted=True`".
* When ProfeeX's answer to an activation is lost, re:Fee is asked in the same call; the same
  document says at line 94 that the system "must not switch to re:Fee activation until that
  task is reconciled".
* Any status 400 of re:Fee counts as "already active"
  (`app/resource_providers/refee.py:221`, `app/payout_destination_activation.py:282-291`), right
  after a quote that found the destination inactive; every other word of a provider is
  confirmed by a quote (the exception in `ReturnedIsActive`).
* An activation order whose status the next call does not know, left by a call that died or
  could not write, is ordered again (`app/payout_destination_activation.py:260-264`).
* A drain writes its row after `wait()` (`app/custom/aml/classes.py:112-135`): an exception
  of `wait()` after the broadcast, and the next drain pays the address again. A token
  transfer that fails on the chain has a row as well and is never repeated.
* The AML service may give a deposit another level later, and a check of it may still be
  running: addresses of both levels may then be paid.
* When the drain of one deposit is repeated, its second share is taken from what other
  deposits brought to the account, which may then stay owed (`Overdrawn` in
  `NeverStranded`).
* What is left of a deposit when one of its transfers has failed may be below the threshold:
  no sweep and no drain takes it up (`app/custom/aml/tasks.py:200`,
  `app/custom/aml/classes.py:36,69`) until another deposit comes (`PartlyPaid` in
  `NeverStranded`).
* A token balance that equals the threshold passes `scan_accounts` and the drains (`<`),
  but not `transfer_trc20_from` (`<=`, `app/tasks.py:417`).
* With a regular split the rows of a guarded symbol are of type `regular`, which
  `sweep_accounts` passes by (`app/custom/aml/tasks.py:216-221`, as
  `tests/test_aml_sweep_guard.py:594` wants) and `recheck_transactions` does not look for: a
  deposit that SHKeeper does not allow at once is not asked about again. No flow of the model.
* SHKeeper's answer for one deposit sweeps the balance of its account, with what other
  deposits brought there.
* `while ret := 0 < config.CONCURRENT_MAX_RETRIES` (`app/tasks.py:867,911`) counts nothing:
  a node that keeps failing is asked for ever.
* The pool of the old payout task (`app/tasks.py:149`) reads results in order: after the
  first transfer that raises, what the later ones sent is missing from the callback.

## Not modelled

* Payouts of the old interface (`prepare_payout`, `payout`): tasks without state of their
  own, that end with the row `CallbackOutbox` starts from.
* The spend guard's nested use, its short holders (sweeps, staking, votes) and the staking
  API: single transactions under the lock that `PayoutExecution` models, by a caller that
  looks at nothing afterwards.
* `staking.py`, `undelegate_energy`, `vote_for_sr`: one transaction, no state.
* Encryption of keys, metrics, request parsing, Celery's start-up hook, configuration: no
  shared state, or a single write at the start.
