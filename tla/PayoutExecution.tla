---------------------------- MODULE PayoutExecution ----------------------------
(***************************************************************************)
(* The durable execution of a USDT payout: PayoutExecutionStore of          *)
(* app/payout_execution.py, the Celery task execute_payout_execution that   *)
(* drives it, and the confirmation check of app/payout_status.py.           *)
(*                                                                         *)
(* One SQLite row per execution is shared by API handlers and by any number *)
(* of task deliveries.  Every write is a compare-and-set on state_version   *)
(* (_transition) followed by a separate SELECT that re-reads the row: the   *)
(* two statements are two steps here, because other processes run between   *)
(* them and the re-read row is what the task goes on with.                  *)
(*                                                                         *)
(* A task t stands for one delivery of the Celery message.  It creates at   *)
(* most one attempt_id and signs at most one transaction, so t also names   *)
(* the attempt and the transaction.                                         *)
(***************************************************************************)
EXTENDS Naturals, FiniteSets

CONSTANTS
    Executions,        \* execution ids a consumer may submit
    ExternalIds,       \* the consumer's own payout ids
    ExternalIdOf,      \* [Executions -> ExternalIds], the external_id of the body
    Tasks,             \* deliveries of execute_payout_execution (the bound on enqueues)
    ExecutionOf,       \* [Tasks -> Executions], the argument of the delivery
    Workers,           \* processes that consume the payout queue
    NoTask,            \* SQL NULL, and the owner of a free lock
    LockEnabled,       \* TRON_USDT_PAYOUT_RESOURCE_PROVISIONING_ENABLED
    LockMayLapse       \* may a live holder outlast the Redis lock's TTL?

ASSUME PayoutAssumption ==
    /\ NoTask \notin Tasks
    /\ ExternalIdOf \in [Executions -> ExternalIds]
    /\ ExecutionOf \in [Tasks -> Executions]
    /\ Workers \in Nat \ {0}
    /\ LockEnabled \in BOOLEAN
    /\ LockMayLapse \in BOOLEAN

VARIABLES
    row,      \* the payout_executions table
    lapsed,   \* attempts whose lease_expires_at has passed
    pc,       \* where each delivery of the task is
    snap,     \* the row each delivery read last
    lock,     \* owner of the fee-deposit spend lock
    chain     \* what the TRON network knows of the transaction a task signed

vars == <<row, lapsed, pc, snap, lock, chain>>

--------------------------------------------------------------------------------
(* The row *)

UNSAFE_RECOVERY_STATES == {"SIGNING", "SIGNED", "BROADCASTING"}

NO_DOWNGRADE_STATES ==
    {"BROADCASTED", "CONFIRMING", "CONFIRMED", "FAILED_PRE_BROADCAST",
     "FAILED_CHAIN_TERMINAL", "RECONCILIATION_REQUIRED"}

\* A mutant: only fresh rows are enqueued again.
OnlyReceived == {"RECEIVED"}

ENQUEUEABLE_STATES == {"RECEIVED", "VALIDATED"}

\* "ABSENT" is a row that was never inserted.
State == {"ABSENT"} \cup ENQUEUEABLE_STATES \cup UNSAFE_RECOVERY_STATES
            \cup NO_DOWNGRADE_STATES

\* The columns some guard reads.  txid stands for txid, signed_raw_tx_ref and
\* signed_raw_tx_hash, which _mark_signed writes together; the lease columns are
\* set and cleared with attempt_id.
Row == [state : State,
        state_version : Nat,
        attempt_id : Tasks \cup {NoTask},
        resource_reservation_id : BOOLEAN,
        txid : Tasks \cup {NoTask},
        broadcast_attempted_at : BOOLEAN,
        reconciliation_required : BOOLEAN]

NoRow == [state |-> "ABSENT",
          state_version |-> 0,
          attempt_id |-> NoTask,
          resource_reservation_id |-> FALSE,
          txid |-> NoTask,
          broadcast_attempted_at |-> FALSE,
          reconciliation_required |-> FALSE]

HasUnsafeSideEffect(r) == r.txid # NoTask \/ r.broadcast_attempted_at

\* A NULL lease counts as expired.
LeaseExpired(r) == r.attempt_id = NoTask \/ r.attempt_id \in lapsed

\* A mutant: an UPDATE that forgets state_version + 1.
NoBump(r) == r

Bump(r) == [r EXCEPT !.state_version = @ + 1]

Reconciliation(r) ==
    [r EXCEPT !.state = "RECONCILIATION_REQUIRED", !.reconciliation_required = TRUE]

\* Back to the start: the lease and the attempt are given up.  Stale recovery
\* keeps resource_reservation_id, a retryable failure clears it.
Restarted(r, reservation) ==
    [r EXCEPT !.state = "RECEIVED", !.attempt_id = NoTask,
              !.reconciliation_required = FALSE,
              !.resource_reservation_id = reservation]

\* A mutant: a stale row always starts again.
AlwaysRestarted(r) == Restarted(r, r.resource_reservation_id)

\* What recover_stale_execution writes over a stale row in an unsafe state.
Recovered(r) ==
    IF r.state \in {"SIGNED", "BROADCASTING"} \/ HasUnsafeSideEffect(r)
    THEN Reconciliation(r)
    ELSE Restarted(r, r.resource_reservation_id)

\* A mutant: only SIGNING is recovered.
RecoverableSigning(r) == r.state = "SIGNING" /\ LeaseExpired(r)

Recoverable(r) == r.state \in UNSAFE_RECOVERY_STATES /\ LeaseExpired(r)

\* A mutant: a terminal failure does not look at the evidence.
FailedIgnoringEvidence(r, retryable) ==
    IF retryable /\ ~HasUnsafeSideEffect(r)
    THEN Restarted(r, FALSE)
    ELSE [r EXCEPT !.state = "FAILED_PRE_BROADCAST", !.reconciliation_required = FALSE]

\* The row _mark_failed_or_reconciliation writes for a task that raised.
Failed(r, retryable) ==
    IF retryable /\ ~HasUnsafeSideEffect(r)
    THEN Restarted(r, FALSE)
    ELSE IF HasUnsafeSideEffect(r)
         THEN Reconciliation(r)
         ELSE [r EXCEPT !.state = "FAILED_PRE_BROADCAST",
                        !.reconciliation_required = FALSE]

--------------------------------------------------------------------------------
(* Task-local control.  "x" is the point before the statement x.            *)

\* The points at which the task holds a row it has read and may still write.
PreLock  == {"recover", "recovering", "reload", "validate", "validated", "claim",
             "claimed", "lock"}
Unsigned == {"locked", "reserve", "rereadReserved", "reserved", "ensure", "sign"}
Signed   == {"signed", "mark", "marked", "broadcast", "wait", "verify",
             "verified", "finish"}
Failing  == {"failedRetryable", "failedTerminal", "markRetryable", "markTerminal"}
Critical == Unsigned \cup Signed              \* inside `with lock`
Running  == PreLock \cup Critical \cup Failing
PcState  == {"unused", "queued", "done", "crashed"} \cup Running

ChainState == {"unsent", "pending", "success", "confirmed", "reverted", "expired"}

TypeOK ==
    /\ row \in [Executions -> Row]
    /\ lapsed \subseteq Tasks
    /\ pc \in [Tasks -> PcState]
    /\ snap \in [Tasks -> Row]
    /\ lock \in Tasks \cup {NoTask}
    /\ chain \in [Tasks -> ChainState]

Init ==
    /\ row = [e \in Executions |-> NoRow]
    /\ lapsed = {}
    /\ pc = [t \in Tasks |-> "unused"]
    /\ snap = [t \in Tasks |-> NoRow]
    /\ lock = NoTask
    /\ chain = [t \in Tasks |-> "unsent"]

Goto(t, point) == pc' = [pc EXCEPT ![t] = point]

\* The task ends or raises; leaving `with lock` releases a lock it still owns.
Leave(t, point) ==
    /\ Goto(t, point)
    /\ snap' = [snap EXCEPT ![t] = NoRow]
    /\ lock' = IF lock = t THEN NoTask ELSE lock

\* _get_row
Read(t) == snap' = [snap EXCEPT ![t] = row[ExecutionOf[t]]]

\* A mutant: the UPDATE has no WHERE on state_version.
AnyVersion(t) == TRUE

\* _transition: UPDATE ... WHERE state_version = ?.  A lost race raises
\* PAYOUT_EXECUTION_CAS_CONFLICT, on which the task returns the row as it is.
CasWins(t) == row[ExecutionOf[t]].state_version = snap[t].state_version

CasLoses(t) == ~CasWins(t) /\ Leave(t, "done") /\ UNCHANGED row

Cas(t, new, next) ==
    /\ \/ /\ CasWins(t)
          /\ row' = [row EXCEPT ![ExecutionOf[t]] = Bump(new)]
          /\ Goto(t, next)
          /\ UNCHANGED <<snap, lock>>
       \/ CasLoses(t)
    /\ UNCHANGED <<lapsed, chain>>

\* A transition after which the task returns.
CasAndEnd(t, new) ==
    /\ \/ /\ CasWins(t)
          /\ row' = [row EXCEPT ![ExecutionOf[t]] = Bump(new)]
          /\ Leave(t, "done")
       \/ CasLoses(t)
    /\ UNCHANGED <<lapsed, chain>>

--------------------------------------------------------------------------------
(* API handlers.  A CAS that wins writes over the row its handler read, and  *)
(* leases and chain verdicts only move forward in between, so a handler's    *)
(* read and its CAS are one step; a lost CAS leaves the row alone.          *)

\* A mutant: no UNIQUE(consumer, external_id).
SubmitAnyNew(e) ==
    /\ row[e].state = "ABSENT"
    /\ row' = [row EXCEPT ![e] = [NoRow EXCEPT !.state = "RECEIVED",
                                               !.state_version = 1]]
    /\ UNCHANGED <<lapsed, pc, snap, lock, chain>>

\* submit, first half: the INSERT.  UNIQUE(consumer, external_id) and the two
\* SELECTs before it refuse a second execution for one external id.
SubmitNew(e) ==
    /\ row[e].state = "ABSENT"
    /\ \A f \in Executions :
          row[f].state # "ABSENT" => ExternalIdOf[f] # ExternalIdOf[e]
    /\ row' = [row EXCEPT ![e] = [NoRow EXCEPT !.state = "RECEIVED",
                                               !.state_version = 1]]
    /\ UNCHANGED <<lapsed, pc, snap, lock, chain>>

\* submit, second half, and every repeated submit: _enqueue_if_enabled recovers a
\* stale row and enqueues what may start.  The message may be picked up at any later
\* time, so the gap between the decision and apply_async needs no step of its own.
SubmitExisting(t) ==
    LET e == ExecutionOf[t]
        r == IF Recoverable(row[e]) THEN Bump(Recovered(row[e])) ELSE row[e]
    IN  /\ pc[t] = "unused"
        /\ row[e].state # "ABSENT"
        /\ r.state \in ENQUEUEABLE_STATES
        /\ row' = [row EXCEPT ![e] = r]
        /\ Goto(t, "queued")
        /\ UNCHANGED <<lapsed, snap, lock, chain>>

\* apply_async raises, the API process dies before it, or the message is lost: the row
\* stays as it is, without a task.
LoseDelivery(t) ==
    /\ pc[t] = "queued"
    /\ Goto(t, "done")
    /\ UNCHANGED <<row, lapsed, snap, lock, chain>>

\* status: recover_stale_execution.
StatusRecover(e) ==
    /\ Recoverable(row[e])
    /\ row' = [row EXCEPT ![e] = Bump(Recovered(@))]
    /\ UNCHANGED <<lapsed, pc, snap, lock, chain>>

\* A mutant: the minimum number of confirmations is not awaited.
EagerObservation(t) ==
    {"CONFIRMING"}
    \cup (IF chain[t] \in {"success", "confirmed"} THEN {"CONFIRMED"} ELSE {})
    \cup (IF chain[t] = "reverted" THEN {"FAILED_CHAIN_TERMINAL"} ELSE {})

\* refresh_tron_usdt_confirmation: the state the node's answer maps to.  A node
\* that errors or lags answers CONFIRMING whatever the chain holds.
Observation(t) ==
    {"CONFIRMING"}
    \cup (IF chain[t] = "confirmed" THEN {"CONFIRMED"} ELSE {})
    \cup (IF chain[t] = "reverted" THEN {"FAILED_CHAIN_TERMINAL"} ELSE {})

\* The row _refresh_chain_status writes for the state s.
Refreshed(r, s) ==
    [r EXCEPT !.state = s,
              !.reconciliation_required = IF s = "CONFIRMING" THEN @ ELSE FALSE]

\* status: _refresh_chain_status.
StatusRefresh(e) ==
    /\ row[e].state \in {"BROADCASTED", "CONFIRMING"}
    /\ \E s \in Observation(row[e].txid) :
          /\ ~(s = "CONFIRMING" /\ row[e].state = "CONFIRMING")
          /\ row' = [row EXCEPT ![e] = Bump(Refreshed(@, s))]
    /\ UNCHANGED <<lapsed, pc, snap, lock, chain>>

--------------------------------------------------------------------------------
(* The task execute_payout_execution: PayoutExecutionStore.execute.         *)

\* Where a freshly read row sends a task that does not hold the spend lock.
Dispatch(r) ==
    CASE r.state = "RECEIVED"  -> "validate"
      [] r.state = "VALIDATED" -> "claim"
      [] OTHER                 -> "done"

\* Reads the row and goes on from `point`, or ends when the point is "done".
ReadAndGoto(t, point) ==
    /\ IF point = "done" THEN Leave(t, "done")
                         ELSE Read(t) /\ Goto(t, point) /\ UNCHANGED lock
    /\ UNCHANGED <<row, lapsed, chain>>

\* A worker process is busy until its task ends, the wait for the lock included.
Load(t) ==
    /\ pc[t] = "queued"
    /\ Cardinality({u \in Tasks : pc[u] \in Running}) < Workers
    /\ LET r == row[ExecutionOf[t]]
       IN  ReadAndGoto(t, IF r.state \in UNSAFE_RECOVERY_STATES
                          THEN "recover" ELSE Dispatch(r))

\* recover_stale_execution: its own read, then its CAS.
RecoverRead(t) ==
    /\ pc[t] = "recover"
    /\ ReadAndGoto(t, IF Recoverable(row[ExecutionOf[t]]) THEN "recovering" ELSE "reload")

RecoverWrite(t) == pc[t] = "recovering" /\ Cas(t, Recovered(snap[t]), "reload")

Reload(t) ==
    /\ pc[t] = "reload"
    /\ ReadAndGoto(t, Dispatch(row[ExecutionOf[t]]))

Validate(t) ==
    /\ pc[t] = "validate"
    /\ Cas(t, [snap[t] EXCEPT !.state = "VALIDATED"], "validated")

\* The row read back may be another delivery's: an unsafe state and its
\* attempt_id are taken over as they are.
Validated(t) ==
    /\ pc[t] = "validated"
    /\ LET r == row[ExecutionOf[t]]
       IN  ReadAndGoto(t, IF r.state = "VALIDATED" THEN "claim"
                          ELSE IF r.state \in UNSAFE_RECOVERY_STATES THEN "lock"
                          ELSE "done")

\* SIGNING with a new attempt_id and lease.
Claim(t) ==
    /\ pc[t] = "claim"
    /\ Cas(t, [snap[t] EXCEPT !.state = "SIGNING", !.attempt_id = t], "claimed")

Claimed(t) ==
    /\ pc[t] = "claimed"
    /\ ReadAndGoto(t, IF row[ExecutionOf[t]].state \in UNSAFE_RECOVERY_STATES
                      THEN "lock" ELSE "done")

\* A mutant: what acquire returns is not looked at, and a wait that times out goes on.
AcquireUnchecked(t) ==
    /\ pc[t] = "lock"
    /\ Goto(t, "locked")
    /\ lock' = IF LockEnabled /\ lock = NoTask THEN t ELSE lock
    /\ UNCHANGED <<row, lapsed, snap, chain>>

\* fee_deposit_spend_lock: a no-op when provisioning is off; otherwise acquired, or
\* the wait times out or Redis fails, which is a retryable error.
Acquire(t) ==
    /\ pc[t] = "lock"
    /\ \/ ~LockEnabled /\ Goto(t, "locked") /\ UNCHANGED <<snap, lock>>
       \/ LockEnabled /\ lock = NoTask /\ lock' = t /\ Goto(t, "locked") /\ UNCHANGED snap
       \/ LockEnabled /\ Leave(t, "failedRetryable")
    /\ UNCHANGED <<row, lapsed, chain>>

\* An exception out of `with lock`: the lock is released before the handler runs.
Raise(t, handler) == Leave(t, handler) /\ UNCHANGED <<row, lapsed, chain>>

\* The read under the lock, the attempt check and the balance check.
CheckAttempt(t) ==
    LET r == row[ExecutionOf[t]]
    IN  /\ pc[t] = "locked"
        /\ IF r.state \in UNSAFE_RECOVERY_STATES /\ r.attempt_id = snap[t].attempt_id
           THEN \/ Raise(t, "failedTerminal")             \* INSUFFICIENT_USDT, RPC error
                \/ ReadAndGoto(t, IF r.resource_reservation_id THEN "reserved" ELSE "reserve")
           ELSE ReadAndGoto(t, "done")

Reserve(t) ==
    /\ pc[t] = "reserve"
    /\ Cas(t, [snap[t] EXCEPT !.state = "SIGNING", !.resource_reservation_id = TRUE],
           "rereadReserved")

RereadReserved(t) == pc[t] = "rereadReserved" /\ ReadAndGoto(t, "reserved")

\* A mutant: evidence of an earlier signature is ignored.
IgnoreEvidence(t) ==
    /\ pc[t] = "reserved"
    /\ Goto(t, "ensure")
    /\ UNCHANGED <<row, lapsed, snap, lock, chain>>

\* Evidence of an earlier signature stops the task, whatever the row's state.
CheckEvidence(t) ==
    /\ pc[t] = "reserved"
    /\ IF snap[t].txid # NoTask
       THEN Raise(t, "failedTerminal")
       ELSE Goto(t, "ensure") /\ UNCHANGED <<row, lapsed, snap, lock, chain>>

\* resource_ensurer: provisioned, a temporary failure, or a terminal one (which any
\* accepted provider order makes it).
EnsureResources(t) ==
    /\ pc[t] = "ensure"
    /\ \/ Goto(t, "sign") /\ UNCHANGED <<row, lapsed, snap, lock, chain>>
       \/ Raise(t, "failedRetryable")
       \/ Raise(t, "failedTerminal")

\* build_signed_transfer may raise; otherwise _mark_signed stores the evidence.
Sign(t) ==
    /\ pc[t] = "sign"
    /\ \/ Cas(t, [snap[t] EXCEPT !.state = "SIGNED", !.txid = t], "signed")
       \/ Raise(t, "failedTerminal")

RereadSigned(t) == pc[t] = "signed" /\ ReadAndGoto(t, "mark")

\* A mutant: broadcast_attempted_at is left out of the transition.
MarkWithoutAttempt(t) ==
    /\ pc[t] = "mark"
    /\ Cas(t, [snap[t] EXCEPT !.state = "BROADCASTING"], "marked")

MarkBroadcasting(t) ==
    /\ pc[t] = "mark"
    /\ Cas(t, [snap[t] EXCEPT !.state = "BROADCASTING", !.broadcast_attempted_at = TRUE],
           "marked")

RereadMarked(t) == pc[t] = "marked" /\ ReadAndGoto(t, "broadcast")

\* txn.broadcast(): the node takes the transaction, or the call raises first.
Broadcast(t) ==
    /\ pc[t] = "broadcast"
    /\ \/ /\ chain' = [chain EXCEPT ![t] = "pending"]
          /\ Goto(t, "wait")
          /\ UNCHANGED <<row, lapsed, snap, lock>>
       \/ Raise(t, "failedTerminal")

\* result.wait(): returns once the transaction is in a block, or raises although the
\* transaction may be on its way.
AwaitInclusion(t) ==
    /\ pc[t] = "wait"
    /\ \/ /\ chain[t] \in {"success", "confirmed", "reverted"}
          /\ Goto(t, "verify")
          /\ UNCHANGED <<row, lapsed, snap, lock, chain>>
       \/ Raise(t, "failedTerminal")

\* _verify_broadcast_result rejects an answer without the signed txid, or writes metadata
\* under the state the snapshot holds.
VerifyResult(t) ==
    /\ pc[t] = "verify"
    /\ Cas(t, snap[t], "verified") \/ Raise(t, "failedTerminal")

RereadVerified(t) == pc[t] = "verified" /\ ReadAndGoto(t, "finish")

\* _mark_broadcasted, and the return out of `with lock`.
MarkBroadcasted(t) ==
    /\ pc[t] = "finish"
    /\ CasAndEnd(t, [snap[t] EXCEPT !.state = "BROADCASTED", !.txid = t,
                                    !.reconciliation_required = FALSE])

\* A mutant: no NO_DOWNGRADE_STATES.
FailReadAny(t) ==
    /\ pc[t] \in {"failedRetryable", "failedTerminal"}
    /\ ReadAndGoto(t, IF pc[t] = "failedRetryable" THEN "markRetryable" ELSE "markTerminal")

\* _mark_failed_or_reconciliation: reads whatever the row is by now (the attempt_id
\* is not compared), then its CAS.
FailRead(t) ==
    /\ pc[t] \in {"failedRetryable", "failedTerminal"}
    /\ ReadAndGoto(t, IF row[ExecutionOf[t]].state \in NO_DOWNGRADE_STATES THEN "done"
                      ELSE IF pc[t] = "failedRetryable" THEN "markRetryable"
                      ELSE "markTerminal")

FailWrite(t) ==
    /\ pc[t] \in {"markRetryable", "markTerminal"}
    /\ CasAndEnd(t, Failed(snap[t], pc[t] = "markRetryable"))

TaskStep(t) ==
    \/ Load(t) \/ RecoverRead(t) \/ RecoverWrite(t) \/ Reload(t)
    \/ Validate(t) \/ Validated(t) \/ Claim(t) \/ Claimed(t) \/ Acquire(t)
    \/ CheckAttempt(t) \/ Reserve(t) \/ RereadReserved(t) \/ CheckEvidence(t)
    \/ EnsureResources(t) \/ Sign(t) \/ RereadSigned(t) \/ MarkBroadcasting(t)
    \/ RereadMarked(t) \/ Broadcast(t) \/ AwaitInclusion(t) \/ VerifyResult(t)
    \/ RereadVerified(t) \/ MarkBroadcasted(t) \/ FailRead(t) \/ FailWrite(t)

--------------------------------------------------------------------------------
(* The environment                                                          *)

\* The worker process dies.  Celery acknowledges early, so the delivery is gone; a
\* lock it holds stays taken until its TTL ("crashed").
Crash(t) ==
    /\ pc[t] \in Running
    /\ Goto(t, IF lock = t THEN "crashed" ELSE "done")
    /\ snap' = [snap EXCEPT ![t] = NoRow]
    /\ UNCHANGED <<row, lapsed, lock, chain>>

\* PAYOUT_EXECUTION_LEASE_TTL_SEC passes for a live attempt.
LeaseLapse(t) ==
    /\ t \notin lapsed
    /\ \E e \in Executions : row[e].attempt_id = t /\ row[e].state \in UNSAFE_RECOVERY_STATES
    /\ lapsed' = lapsed \cup {t}
    /\ UNCHANGED <<row, pc, snap, lock, chain>>

\* TRON_USDT_PAYOUT_RESOURCE_LOCK_TTL_SEC passes: for the lock of a dead worker, and
\* for a live one that outlasts it.
LockLapse ==
    /\ lock # NoTask
    /\ LockMayLapse \/ pc[lock] = "crashed"
    /\ lock' = NoTask
    /\ pc' = IF pc[lock] = "crashed" THEN [pc EXCEPT ![lock] = "done"] ELSE pc
    /\ UNCHANGED <<row, lapsed, snap, chain>>

ChainStep(t) ==
    /\ \/ /\ chain[t] = "pending"
          /\ \E outcome \in {"success", "reverted", "expired"} :
                chain' = [chain EXCEPT ![t] = outcome]
       \/ /\ chain[t] = "success"
          /\ chain' = [chain EXCEPT ![t] = "confirmed"]
    /\ UNCHANGED <<row, lapsed, pc, snap, lock>>

Next ==
    \/ \E e \in Executions : SubmitNew(e) \/ StatusRecover(e) \/ StatusRefresh(e)
    \/ \E t \in Tasks :
          \/ SubmitExisting(t) \/ LoseDelivery(t) \/ TaskStep(t)
          \/ Crash(t) \/ LeaseLapse(t) \/ ChainStep(t)
    \/ LockLapse

Spec == Init /\ [][Next]_vars

\* The node ends up telling the truth to a consumer that keeps polling.
TruthfulRefresh(e) == StatusRefresh(e) /\ row'[e].state # "CONFIRMING"

\* Workers run, the chain makes progress, timers run out, and the
\* consumer resubmits and polls.  Nothing forces a worker to die.
Fairness ==
    /\ \A t \in Tasks :
          /\ WF_vars(SubmitExisting(t)) /\ WF_vars(TaskStep(t))
          /\ WF_vars(LeaseLapse(t)) /\ WF_vars(ChainStep(t))
    /\ \A e \in Executions : WF_vars(StatusRecover(e)) /\ WF_vars(TruthfulRefresh(e))
    /\ WF_vars(LockLapse)

FairSpec == Spec /\ Fairness

--------------------------------------------------------------------------------
(* Safety                                                                   *)

Sent(t) == chain[t] # "unsent"

\* A consumer's payout id is paid by at most one transaction, however many times it
\* is submitted, retried, recovered or delivered: no double payout.
AtMostOnePayment ==
    \A t, u \in Tasks :
        /\ Sent(t) /\ Sent(u)
        /\ ExternalIdOf[ExecutionOf[t]] = ExternalIdOf[ExecutionOf[u]]
        => t = u

\* A transaction reaches the network only after its own txid and the broadcast marker
\* are in the database, so a crash at any later point leaves the evidence there.
EvidenceBeforeBroadcast ==
    \A t \in Tasks :
        Sent(t) => /\ row[ExecutionOf[t]].txid = t
                   /\ row[ExecutionOf[t]].broadcast_attempted_at

\* A state that lets the execution start again, or that reports that nothing was paid,
\* is never the state of an execution that has signed or sent a transaction.
RestartableIsUnpaid ==
    \A e \in Executions :
        row[e].state \in ENQUEUEABLE_STATES \cup {"FAILED_PRE_BROADCAST"}
            => /\ ~HasUnsafeSideEffect(row[e])
               /\ \A t \in Tasks : Sent(t) => ExecutionOf[t] # e

\* CONFIRMED and FAILED_CHAIN_TERMINAL report what the chain holds of the transaction.
VerdictMatchesChain ==
    \A e \in Executions :
        /\ row[e].state = "CONFIRMED"
              => row[e].txid # NoTask /\ chain[row[e].txid] = "confirmed"
        /\ row[e].state = "FAILED_CHAIN_TERMINAL"
              => row[e].txid # NoTask /\ chain[row[e].txid] = "reverted"

\* While no holder outlasts the lock's TTL, at most one task is between the balance
\* check and the end of its payout: two payouts never spend one balance.
SpendsSerialized ==
    LockEnabled /\ ~LockMayLapse =>
        \A t, u \in Tasks : pc[t] \in Critical /\ pc[u] \in Critical => t = u

\* What a task may rely on: its snapshot is never newer than the row, and with the
\* row's version it is the row, so a CAS that wins writes over what was read.
SnapshotIsPast ==
    \A t \in Tasks :
        LET r == row[ExecutionOf[t]]
        IN  /\ snap[t].state_version <= r.state_version
            /\ snap[t].state_version = r.state_version => snap[t] = r

\* The evidence of a signed transaction is never cleared or replaced, by a retry, a
\* recovery or another delivery.
EvidenceIsKept ==
    [][\A e \in Executions :
          /\ row[e].txid # NoTask => row'[e].txid = row[e].txid
          /\ row[e].broadcast_attempted_at => row'[e].broadcast_attempted_at]_vars

\* A verdict read from the chain is final: no late worker, recovery or status poll
\* takes it back.
VerdictIsFinal ==
    [][\A e \in Executions :
          row[e].state \in {"CONFIRMED", "FAILED_CHAIN_TERMINAL"} => row'[e] = row[e]]_vars

\* NO_DOWNGRADE_STATES: an execution reported as failed before broadcast stays so.
FailedPreBroadcastIsFinal ==
    [][\A e \in Executions :
          row[e].state = "FAILED_PRE_BROADCAST" => row'[e] = row[e]]_vars

--------------------------------------------------------------------------------
(* The inductive invariant behind the safety properties                     *)

Decided == {"CONFIRMED", "FAILED_CHAIN_TERMINAL"}
Reported == {"BROADCASTED", "CONFIRMING"} \cup Decided
Marked == {"marked", "broadcast", "wait", "verify", "verified", "finish"}

\* A missing row is empty, only a missing row has version 0, every delivery has a row,
\* and no two rows share an external id.
RowsExist ==
    /\ \A e \in Executions :
          row[e].state = "ABSENT" \/ row[e].state_version = 0 => row[e] = NoRow
    /\ \A t \in Tasks : pc[t] # "unused" => row[ExecutionOf[t]].state # "ABSENT"
    /\ \A e, f \in Executions :
          /\ row[e].state # "ABSENT" /\ row[f].state # "ABSENT"
          /\ ExternalIdOf[e] = ExternalIdOf[f]
          => e = f

\* What a delivery knows of the row it last read, from where it is.
SnapshotMatchesPc ==
    \A t \in Tasks :
        /\ pc[t] = "validate" => snap[t].state = "RECEIVED"
        /\ pc[t] = "claim" => snap[t].state = "VALIDATED"
        /\ pc[t] \in {"recovering", "reserve"} => snap[t].state \in UNSAFE_RECOVERY_STATES
        /\ pc[t] \in {"markRetryable", "markTerminal"} => snap[t].state \notin NO_DOWNGRADE_STATES
        /\ pc[t] \in {"ensure", "sign"} => snap[t].txid = NoTask

\* Signing stores the txid for good, so one delivery at most is ever past it; marking
\* stores the broadcast attempt for good, so nothing is sent before it.
EvidenceInv ==
    \A t \in Tasks :
        LET r == row[ExecutionOf[t]]
        IN  /\ pc[t] \in Signed => r.txid = t
            /\ pc[t] \in Marked => r.broadcast_attempted_at
            /\ Sent(t) => r.txid = t /\ r.broadcast_attempted_at

UnsignedInv ==
    \A e \in Executions :
        row[e].state \in ENQUEUEABLE_STATES \cup {"FAILED_PRE_BROADCAST"}
            => ~HasUnsafeSideEffect(row[e])

\* A reported transaction has a delivery that is done with it, and a verdict is the
\* chain's.
VerdictInv ==
    \A e \in Executions :
        /\ row[e].state \in Reported
              => /\ row[e].txid \in Tasks
                 /\ ExecutionOf[row[e].txid] = e
                 /\ pc[row[e].txid] \notin Signed
        /\ row[e].state = "CONFIRMED" => chain[row[e].txid] = "confirmed"
        /\ row[e].state = "FAILED_CHAIN_TERMINAL" => chain[row[e].txid] = "reverted"

LockInv ==
    LockEnabled /\ ~LockMayLapse => \A t \in Tasks : pc[t] \in Critical => lock = t

IInv ==
    /\ TypeOK
    /\ SnapshotIsPast
    /\ RowsExist
    /\ SnapshotMatchesPc
    /\ EvidenceInv
    /\ UnsignedInv
    /\ VerdictInv
    /\ LockInv

--------------------------------------------------------------------------------
(* The contract the execution implements                                    *)

ReportOf(state) ==
    CASE state = "ABSENT" -> "unknown"
      [] state = "FAILED_PRE_BROADCAST" -> "notPaid"
      [] state = "RECONCILIATION_REQUIRED" -> "reconcile"
      [] state = "CONFIRMED" -> "confirmed"
      [] state = "FAILED_CHAIN_TERMINAL" -> "chainFailed"
      [] OTHER -> "open"

\* The transaction of an execution is the one its row names, once it is sent.
OutcomeOf(e) ==
    LET sent == {t \in Tasks : Sent(t) /\ ExecutionOf[t] = e}
    IN  IF sent = {} THEN "none" ELSE chain[CHOOSE t \in sent : TRUE]

\* The executions with more than one delivery so far.
Redelivered ==
    {e \in Executions :
        \E t, u \in Tasks : /\ t # u
                            /\ ExecutionOf[t] = e /\ pc[t] # "unused"
                            /\ ExecutionOf[u] = e /\ pc[u] # "unused"}

Contract == INSTANCE PayoutContract WITH
    report <- [e \in Executions |-> ReportOf(row[e].state)],
    outcome <- [e \in Executions |-> OutcomeOf(e)],
    repeated <- Redelivered

\* Seen by the consumer, tasks, leases and locks implement the contract: one payment at
\* most, none while the report is a failure, a failure that is final unless the
\* execution had a second delivery before it, verdicts that are true and final.
ImplementsContract == Contract!ContractSpec

--------------------------------------------------------------------------------
(* Liveness, under Fairness                                                 *)

\* No execution stays in an unsafe state: its task finishes, or the lease runs out
\* and a status poll recovers it.
UnsafeStateIsLeft ==
    \A e \in Executions :
        row[e].state \in UNSAFE_RECOVERY_STATES
            ~> row[e].state \notin UNSAFE_RECOVERY_STATES

\* Every transaction sent is in the end reported: decided by the chain, or flagged
\* for reconciliation; none is forgotten.
PaymentIsReported ==
    \A t \in Tasks :
        Sent(t) ~> row[ExecutionOf[t]].state
                      \in {"CONFIRMED", "FAILED_CHAIN_TERMINAL", "RECONCILIATION_REQUIRED"}

\* A submitted execution that the consumer keeps submitting is decided, unless every
\* delivery of it is used up: no state waits for a delivery that is never asked for.
SubmittedIsDecided ==
    \A e \in Executions :
        row[e].state # "ABSENT"
            ~> \/ row[e].state \in {"CONFIRMED", "FAILED_CHAIN_TERMINAL",
                                    "FAILED_PRE_BROADCAST", "RECONCILIATION_REQUIRED"}
               \/ \A t \in Tasks : ExecutionOf[t] = e => pc[t] \in {"done", "crashed"}
================================================================================
