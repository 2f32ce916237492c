------------------------- MODULE PayoutExecutionProofs -------------------------
(* Safety of PayoutExecution for every set of executions, external ids and   *)
(* deliveries, any number of workers, and any behaviour of the spend lock.   *)
EXTENDS PayoutExecution, TLAPS

--------------------------------------------------------------------------------
(* Rows                                                                     *)

\* The row of an execution that was never submitted is a row.
LEMMA NoRowIsRow == NoRow \in Row
BY PayoutAssumption DEF NoRow, Row, State, ENQUEUEABLE_STATES, UNSAFE_RECOVERY_STATES, NO_DOWNGRADE_STATES

\* state_version + 1 keeps the row well formed.
LEMMA BumpIsRow == ASSUME NEW r \in Row PROVE Bump(r) \in Row
BY DEF Bump, Row

\* So does what recover_stale_execution writes.
LEMMA RecoveredIsRow == ASSUME NEW r \in Row PROVE Recovered(r) \in Row
<1>1. Reconciliation(r) \in Row
  BY DEF Reconciliation, Row, State, NO_DOWNGRADE_STATES
<1>2. Restarted(r, r.resource_reservation_id) \in Row
  BY DEF Restarted, Row, State, ENQUEUEABLE_STATES
<1> QED
  BY <1>1, <1>2 DEF Recovered

\* So does what _mark_failed_or_reconciliation writes.
LEMMA FailedIsRow == ASSUME NEW r \in Row, NEW b \in BOOLEAN PROVE Failed(r, b) \in Row
<1>1. Reconciliation(r) \in Row
  BY DEF Reconciliation, Row, State, NO_DOWNGRADE_STATES
<1>2. Restarted(r, FALSE) \in Row
  BY DEF Restarted, Row, State, ENQUEUEABLE_STATES
<1>3. [r EXCEPT !.state = "FAILED_PRE_BROADCAST", !.reconciliation_required = FALSE] \in Row
  BY DEF Row, State, NO_DOWNGRADE_STATES
<1> QED
  BY <1>1, <1>2, <1>3 DEF Failed

\* The rows the task stages from its snapshot, and the row of a new execution.
LEMMA StagedRows ==
    ASSUME NEW r \in Row, NEW t \in Tasks
    PROVE  /\ [r EXCEPT !.state = "VALIDATED"] \in Row
           /\ [r EXCEPT !.state = "SIGNING", !.attempt_id = t] \in Row
           /\ [r EXCEPT !.state = "SIGNING", !.resource_reservation_id = TRUE] \in Row
           /\ [r EXCEPT !.state = "SIGNED", !.txid = t] \in Row
           /\ [r EXCEPT !.state = "BROADCASTING", !.broadcast_attempted_at = TRUE] \in Row
           /\ [r EXCEPT !.state = "BROADCASTED", !.txid = t,
                        !.reconciliation_required = FALSE] \in Row
           /\ [r EXCEPT !.state = "RECEIVED", !.state_version = 1] \in Row
BY DEF Row, State, ENQUEUEABLE_STATES, UNSAFE_RECOVERY_STATES, NO_DOWNGRADE_STATES

\* The row a status poll writes.
LEMMA RefreshedRow ==
    ASSUME NEW r \in Row, NEW s \in {"CONFIRMING", "CONFIRMED", "FAILED_CHAIN_TERMINAL"}
    PROVE  Refreshed(r, s) \in Row
BY DEF Refreshed, Row, State, ENQUEUEABLE_STATES, UNSAFE_RECOVERY_STATES, NO_DOWNGRADE_STATES

\* A _transition after which the task goes on keeps the types.
LEMMA CasType ==
    ASSUME TypeOK, NEW t \in Tasks, NEW new \in Row, NEW next \in PcState, Cas(t, new, next)
    PROVE  TypeOK'
BY NoRowIsRow, BumpIsRow, PayoutAssumption
   DEF TypeOK, Cas, CasWins, CasLoses, Goto, Leave, PcState

\* So does a _transition after which the task returns.
LEMMA CasAndEndType ==
    ASSUME TypeOK, NEW t \in Tasks, NEW new \in Row, CasAndEnd(t, new)
    PROVE  TypeOK'
BY NoRowIsRow, BumpIsRow, PayoutAssumption
   DEF TypeOK, CasAndEnd, CasWins, CasLoses, Goto, Leave, PcState

\* So does _get_row.
LEMMA ReadType ==
    ASSUME TypeOK, NEW t \in Tasks, NEW point \in PcState, ReadAndGoto(t, point)
    PROVE  TypeOK'
BY NoRowIsRow, PayoutAssumption DEF TypeOK, ReadAndGoto, Read, Goto, Leave, PcState

\* So does an exception out of the locked block.
LEMMA RaiseType ==
    ASSUME TypeOK, NEW t \in Tasks, NEW point \in PcState, Raise(t, point)
    PROVE  TypeOK'
BY NoRowIsRow DEF TypeOK, Raise, Goto, Leave

\* Every step of the system keeps the types.
LEMMA TypeStep == TypeOK /\ [Next]_vars => TypeOK'
<1> SUFFICES ASSUME TypeOK, [Next]_vars PROVE TypeOK'
  OBVIOUS
<1> USE PayoutAssumption
<1>0. /\ \A e \in Executions : row[e] \in Row
      /\ \A t \in Tasks : snap[t] \in Row /\ ExecutionOf[t] \in Executions
  BY DEF TypeOK
<1>1. ASSUME NEW e \in Executions, SubmitNew(e) PROVE TypeOK'
  <2>1. [NoRow EXCEPT !.state = "RECEIVED", !.state_version = 1] \in Row
    BY DEF NoRow, Row, State, ENQUEUEABLE_STATES
  <2> QED
    BY <1>1, <2>1 DEF SubmitNew, TypeOK
<1>2. ASSUME NEW e \in Executions, StatusRecover(e) PROVE TypeOK'
  BY <1>2, RecoveredIsRow, BumpIsRow DEF StatusRecover, TypeOK
<1>3. ASSUME NEW e \in Executions, StatusRefresh(e) PROVE TypeOK'
  <2>1. PICK s \in Observation(row[e].txid) : row' = [row EXCEPT ![e] = Bump(Refreshed(@, s))]
    BY <1>3 DEF StatusRefresh
  <2>2. s \in {"CONFIRMING", "CONFIRMED", "FAILED_CHAIN_TERMINAL"}
    BY DEF Observation
  <2>3. row' \in [Executions -> Row]
    BY <1>0, <2>1, <2>2, RefreshedRow, BumpIsRow DEF TypeOK
  <2>4. UNCHANGED <<lapsed, pc, snap, lock, chain>>
    BY <1>3 DEF StatusRefresh
  <2> QED
    BY <2>3, <2>4 DEF TypeOK
<1>4. ASSUME NEW t \in Tasks, SubmitExisting(t) PROVE TypeOK'
  BY <1>4, RecoveredIsRow, BumpIsRow DEF SubmitExisting, Goto, TypeOK, PcState
<1>5. ASSUME NEW t \in Tasks, LoseDelivery(t) PROVE TypeOK'
  BY <1>5, NoRowIsRow DEF LoseDelivery, Leave, Goto, TypeOK, PcState, Running, PreLock, Critical, Unsigned, Signed, Failing
<1>6. ASSUME NEW t \in Tasks, Load(t) PROVE TypeOK'
  BY <1>6, ReadType DEF Load, Dispatch, PcState, Running, PreLock, Critical, Unsigned, Signed, Failing
<1>7. ASSUME NEW t \in Tasks, RecoverRead(t) PROVE TypeOK'
  BY <1>7, ReadType DEF RecoverRead, PcState, Running, PreLock, Critical, Unsigned, Signed, Failing
<1>8. ASSUME NEW t \in Tasks, RecoverWrite(t) PROVE TypeOK'
  BY <1>8, RecoveredIsRow, CasType DEF RecoverWrite, TypeOK, PcState, Running, PreLock, Critical, Unsigned, Signed, Failing
<1>9. ASSUME NEW t \in Tasks, Reload(t) PROVE TypeOK'
  BY <1>9, ReadType DEF Reload, Dispatch, PcState, Running, PreLock, Critical, Unsigned, Signed, Failing
<1>10. ASSUME NEW t \in Tasks, Validate(t) PROVE TypeOK'
  BY <1>0, <1>10, StagedRows, CasType, RaiseType DEF Validate, PcState, Running, PreLock, Critical, Unsigned, Signed, Failing
<1>11. ASSUME NEW t \in Tasks, Validated(t) PROVE TypeOK'
  BY <1>11, ReadType DEF Validated, PcState, Running, PreLock, Critical, Unsigned, Signed, Failing
<1>12. ASSUME NEW t \in Tasks, Claim(t) PROVE TypeOK'
  BY <1>0, <1>12, StagedRows, CasType, RaiseType DEF Claim, PcState, Running, PreLock, Critical, Unsigned, Signed, Failing
<1>13. ASSUME NEW t \in Tasks, Claimed(t) PROVE TypeOK'
  BY <1>13, ReadType DEF Claimed, PcState, Running, PreLock, Critical, Unsigned, Signed, Failing
<1>14. ASSUME NEW t \in Tasks, Acquire(t) PROVE TypeOK'
  BY <1>14, NoRowIsRow DEF Acquire, Leave, Goto, TypeOK, PcState, Running, PreLock, Critical, Unsigned, Signed, Failing
<1>15. ASSUME NEW t \in Tasks, CheckAttempt(t) PROVE TypeOK'
  BY <1>15, ReadType, RaiseType DEF CheckAttempt, Goto, TypeOK, ChainState, PcState, Running, PreLock, Critical, Unsigned, Signed, Failing
<1>16. ASSUME NEW t \in Tasks, Reserve(t) PROVE TypeOK'
  BY <1>0, <1>16, StagedRows, CasType, RaiseType DEF Reserve, PcState, Running, PreLock, Critical, Unsigned, Signed, Failing
<1>17. ASSUME NEW t \in Tasks, RereadReserved(t) PROVE TypeOK'
  BY <1>17, ReadType DEF RereadReserved, PcState, Running, PreLock, Critical, Unsigned, Signed, Failing
<1>18. ASSUME NEW t \in Tasks, CheckEvidence(t) PROVE TypeOK'
  BY <1>18, ReadType, RaiseType DEF CheckEvidence, Goto, TypeOK, ChainState, PcState, Running, PreLock, Critical, Unsigned, Signed, Failing
<1>19. ASSUME NEW t \in Tasks, EnsureResources(t) PROVE TypeOK'
  BY <1>19, ReadType, RaiseType DEF EnsureResources, Goto, TypeOK, ChainState, PcState, Running, PreLock, Critical, Unsigned, Signed, Failing
<1>20. ASSUME NEW t \in Tasks, Sign(t) PROVE TypeOK'
  BY <1>0, <1>20, StagedRows, CasType, RaiseType DEF Sign, PcState, Running, PreLock, Critical, Unsigned, Signed, Failing
<1>21. ASSUME NEW t \in Tasks, RereadSigned(t) PROVE TypeOK'
  BY <1>21, ReadType DEF RereadSigned, PcState, Running, PreLock, Critical, Unsigned, Signed, Failing
<1>22. ASSUME NEW t \in Tasks, MarkBroadcasting(t) PROVE TypeOK'
  BY <1>0, <1>22, StagedRows, CasType, RaiseType DEF MarkBroadcasting, PcState, Running, PreLock, Critical, Unsigned, Signed, Failing
<1>23. ASSUME NEW t \in Tasks, RereadMarked(t) PROVE TypeOK'
  BY <1>23, ReadType DEF RereadMarked, PcState, Running, PreLock, Critical, Unsigned, Signed, Failing
<1>24. ASSUME NEW t \in Tasks, Broadcast(t) PROVE TypeOK'
  BY <1>24, ReadType, RaiseType DEF Broadcast, Goto, TypeOK, ChainState, PcState, Running, PreLock, Critical, Unsigned, Signed, Failing
<1>25. ASSUME NEW t \in Tasks, AwaitInclusion(t) PROVE TypeOK'
  BY <1>25, ReadType, RaiseType DEF AwaitInclusion, Goto, TypeOK, ChainState, PcState, Running, PreLock, Critical, Unsigned, Signed, Failing
<1>26. ASSUME NEW t \in Tasks, VerifyResult(t) PROVE TypeOK'
  BY <1>26, CasType, RaiseType DEF VerifyResult, TypeOK, PcState, Running, PreLock, Critical, Unsigned, Signed, Failing
<1>27. ASSUME NEW t \in Tasks, RereadVerified(t) PROVE TypeOK'
  BY <1>27, ReadType DEF RereadVerified, PcState, Running, PreLock, Critical, Unsigned, Signed, Failing
<1>28. ASSUME NEW t \in Tasks, MarkBroadcasted(t) PROVE TypeOK'
  BY <1>0, <1>28, StagedRows, CasAndEndType DEF MarkBroadcasted
<1>29. ASSUME NEW t \in Tasks, FailRead(t) PROVE TypeOK'
  BY <1>29, ReadType DEF FailRead, PcState, Running, PreLock, Critical, Unsigned, Signed, Failing
<1>30. ASSUME NEW t \in Tasks, FailWrite(t) PROVE TypeOK'
  BY <1>0, <1>30, FailedIsRow, CasAndEndType DEF FailWrite
<1>31. ASSUME NEW t \in Tasks, Crash(t) PROVE TypeOK'
  BY <1>31, NoRowIsRow DEF Crash, Leave, Goto, TypeOK, PcState, Running, PreLock, Critical, Unsigned, Signed, Failing
<1>32. ASSUME NEW t \in Tasks, LeaseLapse(t) PROVE TypeOK'
  BY <1>32 DEF LeaseLapse, TypeOK
<1>33. ASSUME NEW t \in Tasks, ChainStep(t) PROVE TypeOK'
  BY <1>33 DEF ChainStep, TypeOK, ChainState
<1>34. CASE LockLapse
  BY <1>34 DEF LockLapse, TypeOK, PcState
<1>35. CASE UNCHANGED vars
  BY <1>35 DEF vars, TypeOK
<1> QED
  BY <1>1, <1>2, <1>3, <1>4, <1>5, <1>6, <1>7, <1>8, <1>9, <1>10, <1>11, <1>12, <1>13, <1>14, <1>15, <1>16, <1>17, <1>18, <1>19, <1>20, <1>21, <1>22, <1>23, <1>24, <1>25, <1>26, <1>27, <1>28, <1>29, <1>30, <1>31, <1>32, <1>33, <1>34, <1>35 DEF Next, TaskStep

\* Every reachable state of the row, the tasks, the lock and the chain has its type.
THEOREM TypeCorrect == Spec => []TypeOK
<1>1. Init => TypeOK
  BY NoRowIsRow, PayoutAssumption DEF Init, TypeOK, PcState, ChainState
<1> QED
  BY <1>1, TypeStep, PTL DEF Spec

--------------------------------------------------------------------------------
(* What a write may do to a row                                             *)

Restartable == ENQUEUEABLE_STATES \cup {"FAILED_PRE_BROADCAST"}

\* n may replace r: same version (the CAS adds one), the evidence is kept, and a
\* restartable row carries none.
Follows(r, n) ==
    /\ n.state_version = r.state_version
    /\ n.state # "ABSENT"
    /\ r.txid # NoTask => n.txid = r.txid
    /\ r.broadcast_attempted_at => n.broadcast_attempted_at
    /\ n.state \in Restartable => ~HasUnsafeSideEffect(n)

\* The two action properties, as an action.
RowsFollow ==
    \A e \in Executions :
        /\ row[e].txid # NoTask => row'[e].txid = row[e].txid
        /\ row[e].broadcast_attempted_at => row'[e].broadcast_attempted_at
        /\ row[e].state \in Decided => row'[e] = row[e]

\* An UPDATE moves the version and nothing else by itself.
LEMMA BumpFields ==
    ASSUME NEW r \in Row
    PROVE  /\ Bump(r) \in Row
           /\ Bump(r).state = r.state
           /\ Bump(r).state_version = r.state_version + 1
           /\ Bump(r).txid = r.txid
           /\ Bump(r).broadcast_attempted_at = r.broadcast_attempted_at
BY DEF Bump, Row

\* Recovery keeps the evidence, and restarts only a row that has none.
LEMMA RecoveredFollows ==
    ASSUME NEW r \in Row
    PROVE  Follows(r, Recovered(r)) /\ Recovered(r).state \in {"RECEIVED", "RECONCILIATION_REQUIRED"}
BY DEF Recovered, Reconciliation, Restarted, Follows, Restartable, HasUnsafeSideEffect,
       Row, ENQUEUEABLE_STATES, UNSAFE_RECOVERY_STATES

\* So does the failure handler.
LEMMA FailedFollows ==
    ASSUME NEW r \in Row, NEW b \in BOOLEAN
    PROVE  /\ Follows(r, Failed(r, b))
           /\ Failed(r, b).state \in {"RECEIVED", "RECONCILIATION_REQUIRED", "FAILED_PRE_BROADCAST"}
BY DEF Failed, Reconciliation, Restarted, Follows, Restartable, HasUnsafeSideEffect,
       Row, ENQUEUEABLE_STATES

\* So does each transition of the way to BROADCASTED.
LEMMA StagedFollow ==
    ASSUME NEW r \in Row, NEW t \in Tasks
    PROVE  /\ ~HasUnsafeSideEffect(r) => Follows(r, [r EXCEPT !.state = "VALIDATED"])
           /\ Follows(r, [r EXCEPT !.state = "SIGNING", !.attempt_id = t])
           /\ Follows(r, [r EXCEPT !.state = "SIGNING", !.resource_reservation_id = TRUE])
           /\ r.txid \in {NoTask, t} => Follows(r, [r EXCEPT !.state = "SIGNED", !.txid = t])
           /\ Follows(r, [r EXCEPT !.state = "BROADCASTING", !.broadcast_attempted_at = TRUE])
           /\ r.txid \in {NoTask, t} =>
                 Follows(r, [r EXCEPT !.state = "BROADCASTED", !.txid = t,
                                      !.reconciliation_required = FALSE])
BY DEF Follows, Restartable, HasUnsafeSideEffect, Row, ENQUEUEABLE_STATES

\* So does the confirmation check.
LEMMA RefreshedFollows ==
    ASSUME NEW r \in Row, NEW s \in {"CONFIRMING", "CONFIRMED", "FAILED_CHAIN_TERMINAL"}
    PROVE  /\ Follows(r, Refreshed(r, s))
           /\ Refreshed(r, s).state = s
           /\ Refreshed(r, s).txid = r.txid
BY DEF Follows, Refreshed, Restartable, HasUnsafeSideEffect, Row, ENQUEUEABLE_STATES

--------------------------------------------------------------------------------
(* The kinds of step a delivery takes                                       *)

\* Ending, raising, dying or losing a CAS leaves the row alone and gives up the points
\* that ask for something.
LEMMA LeaveKeeps ==
    ASSUME IInv, TypeOK', NEW t \in Tasks, NEW point \in {"done", "crashed", "failedRetryable", "failedTerminal"},
           pc[t] # "unused", Goto(t, point), snap' = [snap EXCEPT ![t] = NoRow],
           lock' \in {lock, IF lock = t THEN NoTask ELSE lock},
           row' = row, chain' = chain
    PROVE  IInv' /\ RowsFollow
<1> USE DEF Goto
<1>1. SnapshotIsPast'
  <2> SUFFICES ASSUME NEW u \in Tasks
               PROVE  /\ snap'[u].state_version <= row[ExecutionOf[u]].state_version
                      /\ snap'[u].state_version = row[ExecutionOf[u]].state_version
                            => snap'[u] = row[ExecutionOf[u]]
    BY DEF SnapshotIsPast
  <2>1. row[ExecutionOf[u]] \in Row
    BY PayoutAssumption DEF IInv, TypeOK
  <2>2. CASE u = t
    <3>1. snap'[u] = NoRow
      BY <2>2 DEF IInv, TypeOK
    <3>2. NoRow.state_version = 0 /\ row[ExecutionOf[u]].state_version \in Nat
      BY <2>1 DEF NoRow, Row
    <3>3. row[ExecutionOf[u]].state_version = 0 => row[ExecutionOf[u]] = NoRow
      BY PayoutAssumption DEF IInv, RowsExist
    <3> QED
      BY <3>1, <3>2, <3>3
  <2>3. CASE u # t
    BY <2>3 DEF IInv, TypeOK, SnapshotIsPast
  <2> QED
    BY <2>2, <2>3
<1>2. RowsExist'
  BY DEF IInv, TypeOK, RowsExist
<1>3. SnapshotMatchesPc'
  BY DEF IInv, TypeOK, SnapshotMatchesPc
<1>4. EvidenceInv'
  BY DEF IInv, TypeOK, EvidenceInv, Sent, Signed, Marked
<1>5. UnsignedInv'
  BY DEF IInv, UnsignedInv, HasUnsafeSideEffect
<1>6. VerdictInv'
  BY DEF IInv, TypeOK, VerdictInv, Signed
<1>7. LockInv'
  BY DEF IInv, TypeOK, LockInv, Critical, Unsigned, Signed
<1>8. RowsFollow
  BY DEF RowsFollow
<1> QED
  BY <1>1, <1>2, <1>3, <1>4, <1>5, <1>6, <1>7, <1>8 DEF IInv

\* A read goes on from a point that asks no more than the row gives.
LEMMA ReadKeeps ==
    ASSUME IInv, NEW t \in Tasks, NEW point \in PcState, ReadAndGoto(t, point),
           pc[t] # "unused",
           point = "validate" => row[ExecutionOf[t]].state = "RECEIVED",
           point = "claim" => row[ExecutionOf[t]].state = "VALIDATED",
           point \in {"recovering", "reserve"} =>
               row[ExecutionOf[t]].state \in UNSAFE_RECOVERY_STATES,
           point \in {"markRetryable", "markTerminal"} =>
               row[ExecutionOf[t]].state \notin NO_DOWNGRADE_STATES,
           point \notin {"unused", "ensure", "sign"},
           point \in Signed => pc[t] \in Signed,
           point \in Marked => pc[t] \in Marked,
           point \in Critical => pc[t] \in Critical
    PROVE  IInv' /\ RowsFollow
<1>0. TypeOK'
  BY ReadType DEF IInv
<1>1. CASE point = "done"
  BY <1>0, <1>1, LeaveKeeps DEF ReadAndGoto, Leave
<1>2. CASE point # "done"
  <2>0. /\ row' = row /\ chain' = chain /\ lock' = lock
        /\ pc' = [pc EXCEPT ![t] = point] /\ snap' = [snap EXCEPT ![t] = row[ExecutionOf[t]]]
    BY <1>2 DEF ReadAndGoto, Read, Goto
  <2>1. SnapshotIsPast'
    <3>1. \A e \in Executions : row[e].state_version \in Nat
      BY DEF IInv, TypeOK, Row
    <3>2. ASSUME NEW u \in Tasks
          PROVE  /\ snap'[u].state_version <= row[ExecutionOf[u]].state_version
                 /\ snap'[u].state_version = row[ExecutionOf[u]].state_version
                       => snap'[u] = row[ExecutionOf[u]]
      <4>1. ExecutionOf[u] \in Executions
        BY PayoutAssumption
      <4>2. CASE u = t
        BY <2>0, <3>1, <4>1, <4>2 DEF IInv, TypeOK
      <4>3. CASE u # t
        BY <2>0, <4>3 DEF IInv, TypeOK, SnapshotIsPast
      <4> QED
        BY <4>2, <4>3
    <3> QED
      BY <2>0, <3>2 DEF SnapshotIsPast
  <2>2. RowsExist'
    BY <2>0 DEF IInv, TypeOK, RowsExist
  <2>3. SnapshotMatchesPc'
    BY <2>0 DEF IInv, TypeOK, SnapshotMatchesPc
  <2>4. EvidenceInv'
    BY <2>0 DEF IInv, TypeOK, EvidenceInv, Sent
  <2>5. UnsignedInv'
    BY <2>0 DEF IInv, UnsignedInv, HasUnsafeSideEffect
  <2>6. VerdictInv'
    BY <2>0 DEF IInv, TypeOK, VerdictInv
  <2>7. LockInv'
    BY <2>0 DEF IInv, TypeOK, LockInv
  <2>8. RowsFollow
    BY <2>0 DEF RowsFollow
  <2> QED
    BY <1>0, <2>1, <2>2, <2>3, <2>4, <2>5, <2>6, <2>7, <2>8 DEF IInv
<1> QED
  BY <1>1, <1>2

\* A step inside the task that touches neither the row nor the snapshot.
LEMMA MoveKeeps ==
    ASSUME IInv, TypeOK', NEW t \in Tasks, NEW point \in PcState, Goto(t, point),
           row' = row, snap' = snap, chain' = chain,
           row[ExecutionOf[t]].state # "ABSENT", lock' \in {lock, t},
           lock' # lock => lock = NoTask,
           point \in {"ensure", "sign"} => snap[t].txid = NoTask,
           point \notin {"unused", "validate", "claim", "recovering", "reserve",
                        "markRetryable", "markTerminal"},
           point \in Signed => pc[t] \in Signed,
           point \in Marked => pc[t] \in Marked,
           point \in Critical => pc[t] \in Critical \/ lock' = t \/ ~LockEnabled
    PROVE  IInv' /\ RowsFollow
<1>1. SnapshotIsPast'
  BY DEF IInv, SnapshotIsPast
<1>2. RowsExist'
  BY DEF IInv, TypeOK, RowsExist, Goto
<1>3. SnapshotMatchesPc'
  BY DEF IInv, TypeOK, SnapshotMatchesPc, Goto
<1>4. EvidenceInv'
  BY DEF IInv, TypeOK, EvidenceInv, Sent, Goto
<1>5. UnsignedInv'
  BY DEF IInv, UnsignedInv, HasUnsafeSideEffect
<1>6. VerdictInv'
  BY DEF IInv, TypeOK, VerdictInv, Goto
<1>7. LockInv'
  BY PayoutAssumption DEF IInv, TypeOK, LockInv, Goto
<1>8. RowsFollow
  BY DEF RowsFollow
<1> QED
  BY <1>1, <1>2, <1>3, <1>4, <1>5, <1>6, <1>7, <1>8 DEF IInv

\* Replacing row e by new, a delivery of e may move to a point that asks no more than
\* new gives; a lock is given up only by leaving the critical section.
DeliveriesMove(e, new) ==
    /\ \A u \in Tasks :
          \/ pc'[u] = pc[u] /\ snap'[u] = snap[u]
          \/ /\ ExecutionOf[u] = e
             /\ snap'[u] \in {snap[u], NoRow}
             /\ pc'[u] \notin {"unused", "validate", "claim", "recovering", "reserve",
                              "markRetryable", "markTerminal", "ensure", "sign"}
             /\ pc'[u] \in Signed => new.txid = u /\ new.state \notin Reported
             /\ pc'[u] \in Marked => new.broadcast_attempted_at
             /\ pc'[u] \in Critical => pc[u] \in Critical
    /\ \A u \in Tasks : lock = u /\ lock' # u => pc'[u] \notin Critical

\* A row becomes a reported one only when the delivery that signed it is through, and
\* its verdict is the chain's.
ReportsTruly(e, new) ==
    /\ new.state \in Reported =>
          /\ new.txid \in Tasks /\ ExecutionOf[new.txid] = e
          /\ pc'[new.txid] \notin Signed
    /\ new.state = "CONFIRMED" => chain[new.txid] = "confirmed"
    /\ new.state = "FAILED_CHAIN_TERMINAL" => chain[new.txid] = "reverted"

\* One row is replaced by a row that follows it.
LEMMA WriteKeeps ==
    ASSUME IInv, TypeOK', NEW e \in Executions, NEW new \in Row,
           row' = [row EXCEPT ![e] = Bump(new)], chain' = chain,
           Follows(row[e], new),
           row[e].state \notin Decided,
           row[e].state # "ABSENT",
           DeliveriesMove(e, new),
           ReportsTruly(e, new)
    PROVE  IInv' /\ RowsFollow
<1> DEFINE b == Bump(new)
<1>0. /\ row \in [Executions -> Row] /\ row[e] \in Row /\ b \in Row
      /\ b.state = new.state /\ b.state_version = row[e].state_version + 1
      /\ b.txid = new.txid /\ b.broadcast_attempted_at = new.broadcast_attempted_at
      /\ row'[e] = b /\ \A f \in Executions : f # e => row'[f] = row[f]
      /\ row[e].state_version \in Nat
      /\ \A u \in Tasks : ExecutionOf[u] \in Executions /\ snap[u] \in Row
  BY BumpFields, PayoutAssumption DEF IInv, TypeOK, Follows, Row
<1> HIDE DEF b
<1>1. SnapshotIsPast'
  <2> SUFFICES ASSUME NEW u \in Tasks
               PROVE  /\ snap'[u].state_version <= row'[ExecutionOf[u]].state_version
                      /\ snap'[u].state_version = row'[ExecutionOf[u]].state_version
                            => snap'[u] = row'[ExecutionOf[u]]
    BY DEF SnapshotIsPast
  <2>1. CASE ExecutionOf[u] = e
    <3>1. snap[u].state_version \in Nat /\ NoRow.state_version = 0
      BY <1>0 DEF Row, NoRow
    <3> QED
      BY <1>0, <2>1, <3>1 DEF IInv, SnapshotIsPast, DeliveriesMove
  <2>2. CASE ExecutionOf[u] # e
    BY <1>0, <2>2 DEF IInv, SnapshotIsPast, DeliveriesMove
  <2> QED
    BY <2>1, <2>2
<1>2. RowsExist'
  <2>1. \A f \in Executions : row'[f].state = "ABSENT" \/ row'[f].state_version = 0 => row'[f] = NoRow
    BY <1>0 DEF IInv, RowsExist, Follows
  <2>2. \A f \in Executions : row'[f].state # "ABSENT" <=> row[f].state # "ABSENT"
    BY <1>0 DEF Follows
  <2>3. \A u \in Tasks : pc'[u] # "unused" => row'[ExecutionOf[u]].state # "ABSENT"
    BY <1>0, <2>2 DEF IInv, RowsExist, DeliveriesMove
  <2>4. \A f, g \in Executions :
            /\ row'[f].state # "ABSENT" /\ row'[g].state # "ABSENT"
            /\ ExternalIdOf[f] = ExternalIdOf[g]
            => f = g
    BY <2>2 DEF IInv, RowsExist
  <2> QED
    BY <2>1, <2>3, <2>4 DEF RowsExist
<1>3. SnapshotMatchesPc'
  BY DEF IInv, SnapshotMatchesPc, DeliveriesMove
<1>4. EvidenceInv'
  <2> SUFFICES ASSUME NEW u \in Tasks
               PROVE  /\ pc'[u] \in Signed => row'[ExecutionOf[u]].txid = u
                      /\ pc'[u] \in Marked => row'[ExecutionOf[u]].broadcast_attempted_at
                      /\ Sent(u) => /\ row'[ExecutionOf[u]].txid = u
                                    /\ row'[ExecutionOf[u]].broadcast_attempted_at
    BY DEF EvidenceInv, Sent
  <2>1. CASE ExecutionOf[u] = e
    BY <1>0, <2>1, PayoutAssumption DEF IInv, EvidenceInv, Follows, DeliveriesMove
  <2>2. CASE ExecutionOf[u] # e
    BY <1>0, <2>2 DEF IInv, EvidenceInv, DeliveriesMove
  <2> QED
    BY <2>1, <2>2
<1>5. UnsignedInv'
  BY <1>0 DEF IInv, UnsignedInv, Follows, Restartable, HasUnsafeSideEffect
<1>6. VerdictInv'
  BY <1>0 DEF IInv, VerdictInv, DeliveriesMove, ReportsTruly
<1>7. LockInv'
  BY DEF IInv, LockInv, DeliveriesMove
<1>8. RowsFollow
  BY <1>0 DEF RowsFollow, Follows
<1> QED
  BY <1>1, <1>2, <1>3, <1>4, <1>5, <1>6, <1>7, <1>8 DEF IInv

\* A CAS keeps the invariant when the row it stages follows the snapshot it was staged
\* from, neither is a reported one, and the next point asks no more than it gives.
LEMMA CasKeeps ==
    ASSUME IInv, NEW t \in Tasks, NEW new \in Row, NEW next \in PcState, Cas(t, new, next),
           pc[t] # "unused",
           snap[t] = row[ExecutionOf[t]] =>
               /\ Follows(snap[t], new)
               /\ snap[t].state \notin Decided /\ new.state \notin Reported
               /\ next \in Signed => new.txid = t
               /\ next \in Marked => new.broadcast_attempted_at,
           next \notin {"unused", "validate", "claim", "recovering", "reserve",
                       "markRetryable", "markTerminal", "ensure", "sign"},
           next \in Critical => pc[t] \in Critical
    PROVE  IInv' /\ RowsFollow
<1>0. TypeOK'
  BY CasType DEF IInv
<1>1. CASE CasLoses(t)
  BY <1>0, <1>1, LeaveKeeps DEF CasLoses, Leave, Cas
<1>2. CASE ~CasLoses(t)
  <2>1. /\ row[ExecutionOf[t]] = snap[t] /\ ExecutionOf[t] \in Executions
        /\ row' = [row EXCEPT ![ExecutionOf[t]] = Bump(new)]
        /\ pc' = [pc EXCEPT ![t] = next]
        /\ snap' = snap /\ lock' = lock /\ chain' = chain
    BY <1>2, PayoutAssumption DEF IInv, SnapshotIsPast, Cas, CasWins, Goto
  <2>2. row[ExecutionOf[t]].state # "ABSENT"
    BY DEF IInv, RowsExist
  <2>3. \A u \in Tasks :
            \/ u # t /\ pc'[u] = pc[u]
            \/ u = t /\ pc'[u] = next
    BY <2>1 DEF IInv, TypeOK
  <2>4. DeliveriesMove(ExecutionOf[t], new)
    BY <2>1, <2>3 DEF DeliveriesMove
  <2>5. ReportsTruly(ExecutionOf[t], new)
    BY <2>1 DEF ReportsTruly, Reported, Decided
  <2>6. Follows(row[ExecutionOf[t]], new) /\ row[ExecutionOf[t]].state \notin Decided
    BY <2>1
  <2> QED
    BY <1>0, <2>1, <2>2, <2>4, <2>5, <2>6, WriteKeeps
<1> QED
  BY <1>1, <1>2

\* The same for the transition after which the task returns; it may report the
\* transaction of this very task.
LEMMA CasAndEndKeeps ==
    ASSUME IInv, NEW t \in Tasks, NEW new \in Row, CasAndEnd(t, new),
           pc[t] # "unused",
           snap[t] = row[ExecutionOf[t]] =>
               /\ Follows(snap[t], new)
               /\ snap[t].state \notin Decided /\ new.state \notin Decided
               /\ new.state \in Reported => new.txid = t
    PROVE  IInv' /\ RowsFollow
<1>0. TypeOK'
  BY CasAndEndType DEF IInv
<1>1. CASE CasLoses(t)
  BY <1>0, <1>1, LeaveKeeps DEF CasLoses, Leave, CasAndEnd
<1>2. CASE ~CasLoses(t)
  <2>1. /\ row[ExecutionOf[t]] = snap[t] /\ ExecutionOf[t] \in Executions
        /\ row' = [row EXCEPT ![ExecutionOf[t]] = Bump(new)]
        /\ pc' = [pc EXCEPT ![t] = "done"] /\ snap' = [snap EXCEPT ![t] = NoRow]
        /\ lock' = (IF lock = t THEN NoTask ELSE lock) /\ chain' = chain
    BY <1>2, PayoutAssumption DEF IInv, SnapshotIsPast, CasAndEnd, CasWins, Leave, Goto
  <2>2. row[ExecutionOf[t]].state # "ABSENT"
    BY DEF IInv, RowsExist
  <2>3. \A u \in Tasks :
            \/ u # t /\ pc'[u] = pc[u] /\ snap'[u] = snap[u]
            \/ u = t /\ pc'[u] = "done" /\ snap'[u] = NoRow
    BY <2>1 DEF IInv, TypeOK
  <2>4. "done" \notin Critical \cup Signed \cup Marked
    BY DEF Critical, Unsigned, Signed, Marked
  <2>5. DeliveriesMove(ExecutionOf[t], new)
    BY <2>1, <2>3, <2>4 DEF DeliveriesMove
  <2>6. new.state \in Reported =>
            /\ new.txid \in Tasks /\ ExecutionOf[new.txid] = ExecutionOf[t]
            /\ pc'[new.txid] \notin Signed
    BY <2>1, <2>3, <2>4
  <2>7. ReportsTruly(ExecutionOf[t], new)
    BY <2>1, <2>6 DEF ReportsTruly, Decided
  <2>8. Follows(row[ExecutionOf[t]], new) /\ row[ExecutionOf[t]].state \notin Decided
    BY <2>1
  <2> QED
    BY <1>0, <2>1, <2>2, <2>5, <2>7, <2>8, WriteKeeps
<1> QED
  BY <1>1, <1>2

\* An exception out of the locked block.
LEMMA RaiseKeeps ==
    ASSUME IInv, NEW t \in Tasks, NEW point \in {"failedRetryable", "failedTerminal"},
           pc[t] # "unused", Raise(t, point)
    PROVE  IInv' /\ RowsFollow
<1>1. TypeOK'
  BY RaiseType DEF IInv, PcState, Running, Failing
<1> QED
  BY <1>1, LeaveKeeps DEF Raise, Leave

\* The network takes the transaction: its evidence is already stored.
LEMMA SendKeeps ==
    ASSUME IInv, TypeOK', NEW t \in Tasks, pc[t] = "broadcast", Goto(t, "wait"),
           chain' = [chain EXCEPT ![t] = "pending"], UNCHANGED <<row, lapsed, snap, lock>>
    PROVE  IInv' /\ RowsFollow
<1>1. SnapshotIsPast'
  BY DEF IInv, SnapshotIsPast
<1>2. RowsExist'
  BY DEF IInv, TypeOK, RowsExist, Goto
<1>3. SnapshotMatchesPc'
  BY DEF IInv, TypeOK, SnapshotMatchesPc, Goto
<1>4. EvidenceInv'
  BY DEF IInv, TypeOK, EvidenceInv, Sent, Goto, Signed, Marked
<1>5. UnsignedInv'
  BY DEF IInv, UnsignedInv, HasUnsafeSideEffect
<1>6. VerdictInv'
  BY DEF IInv, TypeOK, VerdictInv, Goto, Signed, Reported, Decided
<1>7. LockInv'
  BY DEF IInv, TypeOK, LockInv, Goto, Critical, Signed
<1>8. RowsFollow
  BY DEF RowsFollow
<1> QED
  BY <1>1, <1>2, <1>3, <1>4, <1>5, <1>6, <1>7, <1>8 DEF IInv

\* Nothing the invariant speaks of changes.
LEMMA StandKeeps ==
    ASSUME IInv, TypeOK', UNCHANGED <<row, pc, snap, lock, chain>>
    PROVE  IInv' /\ RowsFollow
BY DEF IInv, SnapshotIsPast, RowsExist, SnapshotMatchesPc, EvidenceInv, Sent, UnsignedInv,
       HasUnsafeSideEffect, VerdictInv, LockInv, RowsFollow

\* The chain decides: a verdict already reported is not moved.
LEMMA ChainKeeps ==
    ASSUME IInv, TypeOK', NEW t \in Tasks, ChainStep(t)
    PROVE  IInv' /\ RowsFollow
<1>1. /\ UNCHANGED <<row, lapsed, pc, snap, lock>>
      /\ chain[t] \in {"pending", "success"}
      /\ \A u \in Tasks : u # t => chain'[u] = chain[u]
  BY DEF ChainStep, IInv, TypeOK
<1>2. EvidenceInv'
  BY <1>1 DEF IInv, EvidenceInv, Sent
<1>3. VerdictInv'
  BY <1>1 DEF IInv, VerdictInv, Reported, Decided
<1> QED
  BY <1>1, <1>2, <1>3 DEF IInv, SnapshotIsPast, RowsExist, SnapshotMatchesPc, UnsignedInv,
       HasUnsafeSideEffect, LockInv, RowsFollow

\* The lock runs out: with LockMayLapse = FALSE only that of a dead holder.
LEMMA LockLapseKeeps ==
    ASSUME IInv, TypeOK', LockLapse
    PROVE  IInv' /\ RowsFollow
<1>1. /\ UNCHANGED <<row, snap, chain>> /\ lock' = NoTask
      /\ lock \in Tasks
      /\ \A u \in Tasks : pc'[u] = pc[u] \/ (pc[u] = "crashed" /\ pc'[u] = "done")
      /\ LockMayLapse \/ pc[lock] = "crashed"
  BY DEF LockLapse, IInv, TypeOK
<1>2. RowsExist' /\ SnapshotMatchesPc' /\ SnapshotIsPast' /\ UnsignedInv'
  BY <1>1 DEF IInv, RowsExist, SnapshotMatchesPc, SnapshotIsPast, UnsignedInv, HasUnsafeSideEffect
<1>3. EvidenceInv'
  BY <1>1 DEF IInv, EvidenceInv, Sent, Signed, Marked
<1>4. VerdictInv'
  BY <1>1 DEF IInv, VerdictInv, Signed
<1>5. LockInv'
  BY <1>1 DEF IInv, LockInv, Critical, Unsigned, Signed
<1> QED
  BY <1>1, <1>2, <1>3, <1>4, <1>5 DEF IInv, RowsFollow

\* The INSERT: no snapshot and no delivery knows the row yet.
LEMMA SubmitNewKeeps ==
    ASSUME IInv, TypeOK', NEW e \in Executions, SubmitNew(e)
    PROVE  IInv' /\ RowsFollow
<1> DEFINE new == [NoRow EXCEPT !.state = "RECEIVED", !.state_version = 1]
<1>1. /\ UNCHANGED <<lapsed, pc, snap, lock, chain>>
      /\ row[e] = NoRow
      /\ row'[e] = new /\ \A f \in Executions : f # e => row'[f] = row[f]
      /\ \A f \in Executions : row[f].state # "ABSENT" => ExternalIdOf[f] # ExternalIdOf[e]
  BY DEF SubmitNew, IInv, TypeOK, RowsExist
<1>2. /\ new.state = "RECEIVED" /\ new.state_version = 1 /\ new.txid = NoTask
      /\ new.broadcast_attempted_at = FALSE
      /\ NoRow.state_version = 0 /\ NoRow.state = "ABSENT" /\ NoRow.txid = NoTask
      /\ NoRow.broadcast_attempted_at = FALSE
  BY DEF NoRow
<1> HIDE DEF new
<1>3. \A u \in Tasks : ExecutionOf[u] \in Executions /\ snap[u].state_version \in Nat
  BY PayoutAssumption DEF IInv, TypeOK, Row
<1>4. \A u \in Tasks : ExecutionOf[u] = e => pc[u] = "unused" /\ ~Sent(u)
  BY <1>1, <1>2, PayoutAssumption DEF IInv, RowsExist, EvidenceInv
<1>5. SnapshotIsPast'
  BY <1>1, <1>2, <1>3 DEF IInv, SnapshotIsPast
<1>6. RowsExist'
  BY <1>1, <1>2, <1>3 DEF IInv, RowsExist
<1>7. SnapshotMatchesPc' /\ LockInv'
  BY <1>1 DEF IInv, SnapshotMatchesPc, LockInv
<1>8. EvidenceInv'
  BY <1>1, <1>3, <1>4 DEF IInv, EvidenceInv, Sent, Signed, Marked
<1>9. UnsignedInv'
  BY <1>1, <1>2 DEF IInv, UnsignedInv, HasUnsafeSideEffect
<1>10. VerdictInv'
  BY <1>1, <1>2 DEF IInv, VerdictInv, Reported, Decided
<1>11. RowsFollow
  BY <1>1, <1>2 DEF RowsFollow, Decided
<1> QED
  BY <1>5, <1>6, <1>7, <1>8, <1>9, <1>10, <1>11 DEF IInv

--------------------------------------------------------------------------------
(* Every step keeps the invariant                                           *)

\* Every action keeps the invariant and takes no row back.
LEMMA InvStep == IInv /\ Next => IInv' /\ RowsFollow
<1> SUFFICES ASSUME IInv, Next PROVE IInv' /\ RowsFollow
  OBVIOUS
<1> USE PayoutAssumption
<1>0. /\ TypeOK /\ TypeOK'
      /\ \A e \in Executions : row[e] \in Row
      /\ \A t \in Tasks : snap[t] \in Row
      /\ \A t \in Tasks : ExecutionOf[t] \in Executions
      /\ \A t \in Tasks : pc[t] # "unused" => row[ExecutionOf[t]].state # "ABSENT"
  BY TypeStep DEF IInv, TypeOK, RowsExist
<1>1. ASSUME NEW e \in Executions, SubmitNew(e) PROVE IInv' /\ RowsFollow
  BY <1>0, <1>1, SubmitNewKeeps
<1>2. ASSUME NEW e \in Executions, StatusRecover(e) PROVE IInv' /\ RowsFollow
  <2>1. /\ Recovered(row[e]) \in Row /\ Follows(row[e], Recovered(row[e]))
        /\ Recovered(row[e]).state \notin Reported
    BY <1>0, RecoveredIsRow, RecoveredFollows DEF Reported, Decided
  <2>2. DeliveriesMove(e, Recovered(row[e])) /\ ReportsTruly(e, Recovered(row[e]))
    BY <2>1, <1>2 DEF StatusRecover, DeliveriesMove, ReportsTruly, Reported, Decided
  <2>3. row[e].state \notin Decided /\ row[e].state # "ABSENT"
    BY <1>2 DEF StatusRecover, Recoverable, UNSAFE_RECOVERY_STATES, Decided
  <2> QED
    BY <1>0, <1>2, <2>1, <2>2, <2>3, WriteKeeps DEF StatusRecover
<1>3. ASSUME NEW e \in Executions, StatusRefresh(e) PROVE IInv' /\ RowsFollow
  <2>1. PICK s \in Observation(row[e].txid) : row' = [row EXCEPT ![e] = Bump(Refreshed(row[e], s))]
    BY <1>3 DEF StatusRefresh
  <2> DEFINE new == Refreshed(row[e], s)
  <2>2. UNCHANGED <<lapsed, pc, snap, lock, chain>> /\ row[e].state \in {"BROADCASTED", "CONFIRMING"}
    BY <1>3 DEF StatusRefresh
  <2>3. s \in {"CONFIRMING", "CONFIRMED", "FAILED_CHAIN_TERMINAL"}
    BY DEF Observation
  <2>4. /\ new \in Row /\ Follows(row[e], new) /\ new.state = s
        /\ new.txid = row[e].txid
    <3>1. row[e] \in Row
      BY <1>0
    <3> QED
      BY <3>1, <2>3, RefreshedRow, RefreshedFollows
  <2>5. DeliveriesMove(e, new)
    BY <2>2 DEF DeliveriesMove
  <2>6. ReportsTruly(e, new)
    BY <2>1, <2>2, <2>4 DEF ReportsTruly, Observation, IInv, VerdictInv, Reported, Decided
  <2>7. row[e].state \notin Decided /\ row[e].state # "ABSENT"
    BY <2>2 DEF Decided
  <2> HIDE DEF new
  <2> QED
    BY <1>0, <2>1, <2>2, <2>4, <2>5, <2>6, <2>7, WriteKeeps DEF new
<1>4. ASSUME NEW t \in Tasks, SubmitExisting(t) PROVE IInv' /\ RowsFollow
  <2> DEFINE e == ExecutionOf[t]
  <2>1. CASE Recoverable(row[e])
    <3>1. /\ Recovered(row[e]) \in Row /\ Follows(row[e], Recovered(row[e]))
          /\ Recovered(row[e]).state \notin Reported
      BY <1>0, RecoveredIsRow, RecoveredFollows DEF Reported, Decided
    <3>2. /\ row' = [row EXCEPT ![e] = Bump(Recovered(row[e]))]
          /\ pc' = [pc EXCEPT ![t] = "queued"]
          /\ UNCHANGED <<lapsed, snap, lock, chain>>
      BY <1>4, <2>1 DEF SubmitExisting, Goto
    <3>3. DeliveriesMove(e, Recovered(row[e]))
      BY <1>0, <3>2 DEF TypeOK, DeliveriesMove, Critical, Unsigned, Signed, Marked
    <3>4. ReportsTruly(e, Recovered(row[e]))
      BY <3>1 DEF ReportsTruly, Reported, Decided
    <3>5. row[e].state \notin Decided /\ row[e].state # "ABSENT"
      BY <2>1 DEF Recoverable, UNSAFE_RECOVERY_STATES, Decided
    <3> QED
      BY <1>0, <3>1, <3>2, <3>3, <3>4, <3>5, WriteKeeps
  <2>2. CASE ~Recoverable(row[e])
    <3>1. /\ row' = row /\ Goto(t, "queued") /\ UNCHANGED <<lapsed, snap, lock, chain>>
          /\ row[e].state # "ABSENT"
      BY <1>0, <1>4, <2>2 DEF SubmitExisting, TypeOK
    <3> QED
      BY <1>0, <3>1, MoveKeeps DEF PcState, Critical, Unsigned, Signed, Marked
  <2> QED
    BY <2>1, <2>2
<1>5. ASSUME NEW t \in Tasks, LoseDelivery(t) PROVE IInv' /\ RowsFollow
  <2>1. /\ Goto(t, "done") /\ UNCHANGED <<row, lapsed, snap, lock, chain>>
        /\ row[ExecutionOf[t]].state # "ABSENT"
    BY <1>0, <1>5 DEF LoseDelivery
  <2> QED
    BY <1>0, <1>5, <2>1, MoveKeeps DEF PcState, Critical, Unsigned, Signed, Marked
<1>6. ASSUME NEW t \in Tasks, Load(t) PROVE IInv' /\ RowsFollow
  BY <1>0, <1>6, ReadKeeps
     DEF Load, Dispatch, PcState, Running, PreLock, Critical, Unsigned, Signed, Failing, Marked
<1>7. ASSUME NEW t \in Tasks, RecoverRead(t) PROVE IInv' /\ RowsFollow
  BY <1>0, <1>7, ReadKeeps
     DEF RecoverRead, Recoverable, PcState, Running, PreLock, Critical, Unsigned, Signed, Failing, Marked
<1>8. ASSUME NEW t \in Tasks, RecoverWrite(t) PROVE IInv' /\ RowsFollow
  <2> DEFINE new == Recovered(snap[t])
  <2>1. new \in Row
    BY <1>0, <1>8, RecoveredIsRow
  <2>2. ASSUME snap[t] = row[ExecutionOf[t]]
        PROVE  /\ Follows(snap[t], new)
               /\ snap[t].state \notin Decided /\ new.state \notin Reported
    BY <1>0, <1>8, <2>2, RecoveredFollows
       DEF RecoverWrite, IInv, SnapshotMatchesPc, EvidenceInv, UnsignedInv, VerdictInv, RowsExist, Follows,
           Restartable, HasUnsafeSideEffect, Row, Reported, Decided, Signed, Marked,
           ENQUEUEABLE_STATES, UNSAFE_RECOVERY_STATES, NO_DOWNGRADE_STATES
  <2>3. Cas(t, new, "reload")
    BY <1>8 DEF RecoverWrite
  <2> HIDE DEF new
  <2> QED
    BY <1>0, <1>8, <2>1, <2>2, <2>3, CasKeeps DEF RecoverWrite, PcState, Running, PreLock, Critical, Unsigned, Signed, Failing, Marked
<1>9. ASSUME NEW t \in Tasks, Reload(t) PROVE IInv' /\ RowsFollow
  BY <1>0, <1>9, ReadKeeps
     DEF Reload, Dispatch, PcState, Running, PreLock, Critical, Unsigned, Signed, Failing, Marked
<1>10. ASSUME NEW t \in Tasks, Validate(t) PROVE IInv' /\ RowsFollow
  <2> DEFINE new == [snap[t] EXCEPT !.state = "VALIDATED"]
  <2>1. new \in Row
    BY <1>0, <1>10, StagedRows
  <2>2. ASSUME snap[t] = row[ExecutionOf[t]]
        PROVE  /\ Follows(snap[t], new)
               /\ snap[t].state \notin Decided /\ new.state \notin Reported
    BY <1>0, <1>10, <2>2, StagedFollow
       DEF Validate, IInv, SnapshotMatchesPc, EvidenceInv, UnsignedInv, VerdictInv, RowsExist, Follows,
           Restartable, HasUnsafeSideEffect, Row, Reported, Decided, Signed, Marked,
           ENQUEUEABLE_STATES, UNSAFE_RECOVERY_STATES, NO_DOWNGRADE_STATES
  <2>3. Cas(t, new, "validated")
    BY <1>10 DEF Validate
  <2> HIDE DEF new
  <2> QED
    BY <1>0, <1>10, <2>1, <2>2, <2>3, CasKeeps DEF Validate, PcState, Running, PreLock, Critical, Unsigned, Signed, Failing, Marked
<1>11. ASSUME NEW t \in Tasks, Validated(t) PROVE IInv' /\ RowsFollow
  BY <1>0, <1>11, ReadKeeps
     DEF Validated, PcState, Running, PreLock, Critical, Unsigned, Signed, Failing, Marked
<1>12. ASSUME NEW t \in Tasks, Claim(t) PROVE IInv' /\ RowsFollow
  <2> DEFINE new == [snap[t] EXCEPT !.state = "SIGNING", !.attempt_id = t]
  <2>1. new \in Row
    BY <1>0, <1>12, StagedRows
  <2>2. ASSUME snap[t] = row[ExecutionOf[t]]
        PROVE  /\ Follows(snap[t], new)
               /\ snap[t].state \notin Decided /\ new.state \notin Reported
    BY <1>0, <1>12, <2>2, StagedFollow
       DEF Claim, IInv, SnapshotMatchesPc, EvidenceInv, UnsignedInv, VerdictInv, RowsExist, Follows,
           Restartable, HasUnsafeSideEffect, Row, Reported, Decided, Signed, Marked,
           ENQUEUEABLE_STATES, UNSAFE_RECOVERY_STATES, NO_DOWNGRADE_STATES
  <2>3. Cas(t, new, "claimed")
    BY <1>12 DEF Claim
  <2> HIDE DEF new
  <2> QED
    BY <1>0, <1>12, <2>1, <2>2, <2>3, CasKeeps DEF Claim, PcState, Running, PreLock, Critical, Unsigned, Signed, Failing, Marked
<1>13. ASSUME NEW t \in Tasks, Claimed(t) PROVE IInv' /\ RowsFollow
  BY <1>0, <1>13, ReadKeeps
     DEF Claimed, PcState, Running, PreLock, Critical, Unsigned, Signed, Failing, Marked
<1>14. ASSUME NEW t \in Tasks, Acquire(t) PROVE IInv' /\ RowsFollow
  <2>1. CASE Leave(t, "failedRetryable")
    BY <1>0, <1>14, <2>1, LeaveKeeps DEF Acquire, Leave
  <2>2. CASE ~Leave(t, "failedRetryable")
    <3>1. /\ Goto(t, "locked") /\ row' = row /\ snap' = snap /\ chain' = chain /\ pc[t] = "lock"
          /\ \/ ~LockEnabled /\ lock' = lock
             \/ lock = NoTask /\ lock' = t
          /\ row[ExecutionOf[t]].state # "ABSENT"
      BY <1>0, <1>14, <2>2 DEF Acquire
    <3> QED
      BY <1>0, <1>14, <3>1, MoveKeeps DEF PcState, Running, Critical, Unsigned, Signed, Marked
  <2> QED
    BY <2>1, <2>2
<1>15. ASSUME NEW t \in Tasks, CheckAttempt(t) PROVE IInv' /\ RowsFollow
  BY <1>0, <1>15, ReadKeeps, RaiseKeeps
     DEF CheckAttempt, PcState, Running, PreLock, Critical, Unsigned, Signed, Failing, Marked
<1>16. ASSUME NEW t \in Tasks, Reserve(t) PROVE IInv' /\ RowsFollow
  <2> DEFINE new == [snap[t] EXCEPT !.state = "SIGNING", !.resource_reservation_id = TRUE]
  <2>1. new \in Row
    BY <1>0, <1>16, StagedRows
  <2>2. ASSUME snap[t] = row[ExecutionOf[t]]
        PROVE  /\ Follows(snap[t], new)
               /\ snap[t].state \notin Decided /\ new.state \notin Reported
    BY <1>0, <1>16, <2>2, StagedFollow
       DEF Reserve, IInv, SnapshotMatchesPc, EvidenceInv, UnsignedInv, VerdictInv, RowsExist, Follows,
           Restartable, HasUnsafeSideEffect, Row, Reported, Decided, Signed, Marked,
           ENQUEUEABLE_STATES, UNSAFE_RECOVERY_STATES, NO_DOWNGRADE_STATES
  <2>3. Cas(t, new, "rereadReserved")
    BY <1>16 DEF Reserve
  <2> HIDE DEF new
  <2> QED
    BY <1>0, <1>16, <2>1, <2>2, <2>3, CasKeeps DEF Reserve, PcState, Running, PreLock, Critical, Unsigned, Signed, Failing, Marked
<1>17. ASSUME NEW t \in Tasks, RereadReserved(t) PROVE IInv' /\ RowsFollow
  BY <1>0, <1>17, ReadKeeps
     DEF RereadReserved, PcState, Running, PreLock, Critical, Unsigned, Signed, Failing, Marked
<1>18. ASSUME NEW t \in Tasks, CheckEvidence(t) PROVE IInv' /\ RowsFollow
  <2>1. pc[t] = "reserved" /\ row[ExecutionOf[t]].state # "ABSENT"
    BY <1>0, <1>18 DEF CheckEvidence
  <2>2. CASE Raise(t, "failedTerminal")
    BY <2>1, <1>18, <2>2, RaiseKeeps
  <2>3. CASE ~(Raise(t, "failedTerminal"))
    <3>1. /\ Goto(t, "ensure") /\ UNCHANGED <<row, lapsed, snap, lock, chain>>
          /\ snap[t].txid = NoTask
      BY <1>18, <2>3 DEF CheckEvidence, IInv, SnapshotMatchesPc
    <3> QED
      BY <1>0, <1>18, <2>1, <3>1, MoveKeeps DEF PcState, Running, Critical, Unsigned, Signed, Marked
  <2> QED
    BY <2>2, <2>3
<1>19. ASSUME NEW t \in Tasks, EnsureResources(t) PROVE IInv' /\ RowsFollow
  <2>1. pc[t] = "ensure" /\ row[ExecutionOf[t]].state # "ABSENT"
    BY <1>0, <1>19 DEF EnsureResources
  <2>2. CASE Raise(t, "failedRetryable") \/ Raise(t, "failedTerminal")
    BY <2>1, <1>19, <2>2, RaiseKeeps
  <2>3. CASE ~(Raise(t, "failedRetryable") \/ Raise(t, "failedTerminal"))
    <3>1. /\ Goto(t, "sign") /\ UNCHANGED <<row, lapsed, snap, lock, chain>>
          /\ snap[t].txid = NoTask
      BY <1>19, <2>3 DEF EnsureResources, IInv, SnapshotMatchesPc
    <3> QED
      BY <1>0, <1>19, <2>1, <3>1, MoveKeeps DEF PcState, Running, Critical, Unsigned, Signed, Marked
  <2> QED
    BY <2>2, <2>3
<1>20. ASSUME NEW t \in Tasks, Sign(t) PROVE IInv' /\ RowsFollow
  <2> DEFINE new == [snap[t] EXCEPT !.state = "SIGNED", !.txid = t]
  <2>1. new \in Row
    BY <1>0, <1>20, StagedRows
  <2>2. ASSUME snap[t] = row[ExecutionOf[t]]
        PROVE  /\ Follows(snap[t], new)
               /\ snap[t].state \notin Decided /\ new.state \notin Reported
               /\ new.txid = t
    BY <1>0, <1>20, <2>2, StagedFollow
       DEF Sign, IInv, SnapshotMatchesPc, EvidenceInv, UnsignedInv, VerdictInv, RowsExist, Follows,
           Restartable, HasUnsafeSideEffect, Row, Reported, Decided, Signed, Marked,
           ENQUEUEABLE_STATES, UNSAFE_RECOVERY_STATES, NO_DOWNGRADE_STATES
  <2>3. CASE Raise(t, "failedTerminal")
    BY <1>20, <2>3, RaiseKeeps DEF Sign
  <2>4. CASE Cas(t, new, "signed")
    BY <1>0, <1>20, <2>1, <2>2, <2>4, CasKeeps DEF Sign, PcState, Running, PreLock, Critical, Unsigned, Signed, Failing, Marked
  <2> QED
    BY <1>20, <2>3, <2>4 DEF Sign
<1>21. ASSUME NEW t \in Tasks, RereadSigned(t) PROVE IInv' /\ RowsFollow
  BY <1>0, <1>21, ReadKeeps
     DEF RereadSigned, PcState, Running, PreLock, Critical, Unsigned, Signed, Failing, Marked
<1>22. ASSUME NEW t \in Tasks, MarkBroadcasting(t) PROVE IInv' /\ RowsFollow
  <2> DEFINE new == [snap[t] EXCEPT !.state = "BROADCASTING", !.broadcast_attempted_at = TRUE]
  <2>1. new \in Row
    BY <1>0, <1>22, StagedRows
  <2>2. ASSUME snap[t] = row[ExecutionOf[t]]
        PROVE  /\ Follows(snap[t], new)
               /\ snap[t].state \notin Decided /\ new.state \notin Reported
               /\ new.txid = t /\ new.broadcast_attempted_at
    BY <1>0, <1>22, <2>2, StagedFollow
       DEF MarkBroadcasting, IInv, SnapshotMatchesPc, EvidenceInv, UnsignedInv, VerdictInv, RowsExist, Follows,
           Restartable, HasUnsafeSideEffect, Row, Reported, Decided, Signed, Marked,
           ENQUEUEABLE_STATES, UNSAFE_RECOVERY_STATES, NO_DOWNGRADE_STATES
  <2>3. Cas(t, new, "marked")
    BY <1>22 DEF MarkBroadcasting
  <2> HIDE DEF new
  <2> QED
    BY <1>0, <1>22, <2>1, <2>2, <2>3, CasKeeps DEF MarkBroadcasting, PcState, Running, PreLock, Critical, Unsigned, Signed, Failing, Marked
<1>23. ASSUME NEW t \in Tasks, RereadMarked(t) PROVE IInv' /\ RowsFollow
  BY <1>0, <1>23, ReadKeeps
     DEF RereadMarked, PcState, Running, PreLock, Critical, Unsigned, Signed, Failing, Marked
<1>24. ASSUME NEW t \in Tasks, Broadcast(t) PROVE IInv' /\ RowsFollow
  <2>1. CASE Raise(t, "failedTerminal")
    BY <1>24, <2>1, RaiseKeeps DEF Broadcast
  <2>2. CASE ~Raise(t, "failedTerminal")
    BY <1>0, <1>24, <2>2, SendKeeps DEF Broadcast
  <2> QED
    BY <2>1, <2>2
<1>25. ASSUME NEW t \in Tasks, AwaitInclusion(t) PROVE IInv' /\ RowsFollow
  <2>1. pc[t] = "wait" /\ row[ExecutionOf[t]].state # "ABSENT"
    BY <1>0, <1>25 DEF AwaitInclusion
  <2>2. CASE Raise(t, "failedTerminal")
    BY <2>1, <1>25, <2>2, RaiseKeeps
  <2>3. CASE ~(Raise(t, "failedTerminal"))
    <3>1. /\ Goto(t, "verify") /\ UNCHANGED <<row, lapsed, snap, lock, chain>>
      BY <1>25, <2>3 DEF AwaitInclusion, IInv, SnapshotMatchesPc
    <3> QED
      BY <1>0, <1>25, <2>1, <3>1, MoveKeeps DEF PcState, Running, Critical, Unsigned, Signed, Marked
  <2> QED
    BY <2>2, <2>3
<1>26. ASSUME NEW t \in Tasks, VerifyResult(t) PROVE IInv' /\ RowsFollow
  <2> DEFINE new == snap[t]
  <2>1. new \in Row
    BY <1>0, <1>26
  <2>2. ASSUME snap[t] = row[ExecutionOf[t]]
        PROVE  /\ Follows(snap[t], new)
               /\ snap[t].state \notin Decided /\ new.state \notin Reported
               /\ new.txid = t /\ new.broadcast_attempted_at
    BY <1>0, <1>26, <2>2
       DEF VerifyResult, IInv, SnapshotMatchesPc, EvidenceInv, UnsignedInv, VerdictInv, RowsExist, Follows,
           Restartable, HasUnsafeSideEffect, Row, Reported, Decided, Signed, Marked,
           ENQUEUEABLE_STATES, UNSAFE_RECOVERY_STATES, NO_DOWNGRADE_STATES
  <2>3. CASE Cas(t, snap[t], "verified")
    <3>1. Cas(t, new, "verified")
      BY <2>3
    <3> HIDE DEF new
    <3> QED
      BY <1>0, <1>26, <2>1, <2>2, <3>1, CasKeeps DEF VerifyResult, PcState, Running, PreLock, Critical, Unsigned, Signed, Failing, Marked
  <2>4. CASE Raise(t, "failedTerminal")
    <3>1. pc[t] # "unused"
      BY <1>26 DEF VerifyResult
    <3> QED
      BY <3>1, <2>4, RaiseKeeps
  <2> QED
    BY <1>26, <2>3, <2>4 DEF VerifyResult
<1>27. ASSUME NEW t \in Tasks, RereadVerified(t) PROVE IInv' /\ RowsFollow
  BY <1>0, <1>27, ReadKeeps
     DEF RereadVerified, PcState, Running, PreLock, Critical, Unsigned, Signed, Failing, Marked
<1>28. ASSUME NEW t \in Tasks, MarkBroadcasted(t) PROVE IInv' /\ RowsFollow
  <2> DEFINE new == [snap[t] EXCEPT !.state = "BROADCASTED", !.txid = t,
                                 !.reconciliation_required = FALSE]
  <2>1. new \in Row
    BY <1>0, <1>28, StagedRows
  <2>2. ASSUME snap[t] = row[ExecutionOf[t]]
        PROVE  /\ Follows(snap[t], new)
               /\ snap[t].state \notin Decided /\ new.state \notin Decided
               /\ new.state \in Reported => new.txid = t
    <3>1. row[ExecutionOf[t]].txid = t /\ pc[t] \in Signed
      BY <1>28 DEF MarkBroadcasted, IInv, EvidenceInv, Signed
    <3>2. snap[t].state \notin Decided
      BY <1>0, <1>28, <2>2, <3>1 DEF IInv, VerdictInv, Reported
    <3>3. Follows(snap[t], new)
      BY <1>0, <1>28, <2>2, <3>1, StagedFollow
    <3>4. new.state = "BROADCASTED" /\ new.txid = t
      BY <1>0, <1>28 DEF Row
    <3> QED
      BY <3>2, <3>3, <3>4 DEF Decided
  <2>3. CasAndEnd(t, new)
    BY <1>28 DEF MarkBroadcasted
  <2> HIDE DEF new
  <2> QED
    BY <1>28, <2>1, <2>2, <2>3, CasAndEndKeeps DEF MarkBroadcasted
<1>29. ASSUME NEW t \in Tasks, FailRead(t) PROVE IInv' /\ RowsFollow
  BY <1>0, <1>29, ReadKeeps
     DEF FailRead, PcState, Running, PreLock, Critical, Unsigned, Signed, Failing, Marked
<1>30. ASSUME NEW t \in Tasks, FailWrite(t) PROVE IInv' /\ RowsFollow
  <2> DEFINE new == Failed(snap[t], pc[t] = "markRetryable")
  <2>1. new \in Row
    BY <1>0, <1>30, FailedIsRow
  <2>2. ASSUME snap[t] = row[ExecutionOf[t]]
        PROVE  /\ Follows(snap[t], new)
               /\ snap[t].state \notin Decided /\ new.state \notin Decided
               /\ new.state \in Reported => new.txid = t
    BY <1>0, <1>30, <2>2, FailedFollows
       DEF FailWrite, IInv, SnapshotMatchesPc, EvidenceInv, VerdictInv, Row,
           Reported, Decided, Signed, NO_DOWNGRADE_STATES
  <2>3. CasAndEnd(t, new)
    BY <1>30 DEF FailWrite
  <2> HIDE DEF new
  <2> QED
    BY <1>30, <2>1, <2>2, <2>3, CasAndEndKeeps DEF FailWrite
<1>31. ASSUME NEW t \in Tasks, Crash(t) PROVE IInv' /\ RowsFollow
  BY <1>0, <1>31, LeaveKeeps DEF Crash, Goto, Running, PreLock, Critical, Unsigned, Signed, Failing
<1>32. ASSUME NEW t \in Tasks, LeaseLapse(t) PROVE IInv' /\ RowsFollow
  BY <1>0, <1>32, StandKeeps DEF LeaseLapse
<1>33. ASSUME NEW t \in Tasks, ChainStep(t) PROVE IInv' /\ RowsFollow
  BY <1>0, <1>33, ChainKeeps
<1>34. CASE LockLapse
  BY <1>0, <1>34, LockLapseKeeps
<1> QED
  BY <1>1, <1>2, <1>3, <1>4, <1>5, <1>6, <1>7, <1>8, <1>9, <1>10, <1>11, <1>12, <1>13, <1>14, <1>15, <1>16, <1>17, <1>18, <1>19, <1>20, <1>21, <1>22, <1>23, <1>24, <1>25, <1>26, <1>27, <1>28, <1>29, <1>30, <1>31, <1>32, <1>33, <1>34 DEF Next, TaskStep

\* The empty table satisfies the invariant.
LEMMA InitInv == Init => IInv
<1> SUFFICES ASSUME Init PROVE IInv
  OBVIOUS
<1>1. TypeOK
  BY NoRowIsRow, PayoutAssumption DEF Init, TypeOK, PcState, ChainState
<1>2. /\ \A e \in Executions : row[e] = NoRow
      /\ \A t \in Tasks : /\ ExecutionOf[t] \in Executions /\ pc[t] = "unused"
                         /\ snap[t] = NoRow /\ chain[t] = "unsent"
  BY PayoutAssumption DEF Init
<1>3. NoRow.state = "ABSENT" /\ NoRow.state_version = 0
  BY DEF NoRow
<1> QED
  BY <1>1, <1>2, <1>3
     DEF IInv, SnapshotIsPast, RowsExist, SnapshotMatchesPc, EvidenceInv, Sent, UnsignedInv,
         VerdictInv, LockInv, Signed, Marked, Critical, Unsigned, Reported, Decided, ENQUEUEABLE_STATES

\* The invariant is inductive.
LEMMA InvNext == IInv /\ [Next]_vars => IInv'
BY InvStep, StandKeeps, TypeStep DEF vars, IInv

\* The inductive invariant holds of every behaviour of the payout queue.
THEOREM Invariance == Spec => []IInv
BY InitInv, InvNext, PTL DEF Spec

--------------------------------------------------------------------------------
(* The properties                                                           *)

\* No double payout: whatever the deliveries, crashes, lapsed leases and lapsed or
\* disabled locks, one external id is paid by one transaction at most.
THEOREM NoDoublePayout == Spec => []AtMostOnePayment
<1>1. IInv => AtMostOnePayment
  <2> SUFFICES ASSUME IInv, NEW t \in Tasks, NEW u \in Tasks, Sent(t), Sent(u),
                      ExternalIdOf[ExecutionOf[t]] = ExternalIdOf[ExecutionOf[u]]
               PROVE  t = u
    BY DEF AtMostOnePayment
  <2>1. row[ExecutionOf[t]].txid = t /\ row[ExecutionOf[u]].txid = u
    BY DEF IInv, EvidenceInv
  <2>2. row[ExecutionOf[t]].state # "ABSENT" /\ row[ExecutionOf[u]].state # "ABSENT"
    BY <2>1, PayoutAssumption DEF IInv, RowsExist, NoRow
  <2>3. ExecutionOf[t] = ExecutionOf[u]
    BY <2>2, PayoutAssumption DEF IInv, RowsExist
  <2> QED
    BY <2>1, <2>3
<1> QED
  BY <1>1, Invariance, PTL

\* The txid and the broadcast marker are in the row before anything is sent.
THEOREM EvidenceComesFirst == Spec => []EvidenceBeforeBroadcast
<1>1. IInv => EvidenceBeforeBroadcast
  BY DEF IInv, EvidenceInv, EvidenceBeforeBroadcast
<1> QED
  BY <1>1, Invariance, PTL

\* A row that may start again, or reports that nothing was paid, has signed and sent
\* nothing.
THEOREM RestartIsSafe == Spec => []RestartableIsUnpaid
<1>1. IInv => RestartableIsUnpaid
  BY PayoutAssumption DEF IInv, UnsignedInv, EvidenceInv, RestartableIsUnpaid, HasUnsafeSideEffect
<1> QED
  BY <1>1, Invariance, PTL

\* CONFIRMED and FAILED_CHAIN_TERMINAL are what the chain holds.
THEOREM VerdictsAreTrue == Spec => []VerdictMatchesChain
<1>1. IInv => VerdictMatchesChain
  BY PayoutAssumption DEF IInv, VerdictInv, VerdictMatchesChain, Reported, Decided
<1> QED
  BY <1>1, Invariance, PTL

\* With a lock that outlives its holder, spends of the fee deposit do not overlap.
THEOREM SpendsAreSerialized == Spec => []SpendsSerialized
<1>1. IInv => SpendsSerialized
  BY DEF IInv, LockInv, SpendsSerialized
<1> QED
  BY <1>1, Invariance, PTL

\* The evidence of a signed transaction is kept for ever.
THEOREM EvidenceStays == Spec => EvidenceIsKept
<1>1. IInv /\ [Next]_vars =>
        [\A e \in Executions :
            /\ row[e].txid # NoTask => row'[e].txid = row[e].txid
            /\ row[e].broadcast_attempted_at => row'[e].broadcast_attempted_at]_vars
  BY InvStep DEF RowsFollow
<1> QED
  BY <1>1, Invariance, PTL DEF Spec, EvidenceIsKept

\* A verdict read from the chain is never taken back.
THEOREM VerdictsStay == Spec => VerdictIsFinal
<1>1. IInv /\ [Next]_vars =>
        [\A e \in Executions :
            row[e].state \in {"CONFIRMED", "FAILED_CHAIN_TERMINAL"} => row'[e] = row[e]]_vars
  BY InvStep DEF RowsFollow, Decided
<1> QED
  BY <1>1, Invariance, PTL DEF Spec, VerdictIsFinal
================================================================================
