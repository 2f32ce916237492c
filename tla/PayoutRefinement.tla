---------------------------- MODULE PayoutRefinement ----------------------------
(* PayoutExecution implements PayoutContract for every set of executions and *)
(* deliveries: each step of a task, a handler, the chain or a clock is one    *)
(* step of the contract, or none that the consumer or the chain can see.     *)
EXTENDS PayoutExecutionProofs

ContractStep == [Contract!ContractNext]_Contract!contractVars

--------------------------------------------------------------------------------
(* Nothing is sent before txn.broadcast()                                    *)

\* The points of a delivery up to its txn.broadcast().
Early == {"unused", "queued"} \cup PreLock \cup Unsigned
            \cup {"signed", "mark", "marked", "broadcast"}

\* IInv says that a sent transaction has its evidence stored; that a delivery which has
\* yet to broadcast has sent nothing is what makes Pay the contract's one payment.
NotYetSent == \A t \in Tasks : pc[t] \in Early => ~Sent(t)

\* A delivery that moves to a point before its broadcast was before it already.
LEMMA MoveStaysEarly ==
    ASSUME TypeOK, NotYetSent, NEW t \in Tasks, NEW point,
           Goto(t, point), point \in Early => pc[t] \in Early, chain' = chain
    PROVE  NotYetSent'
BY DEF TypeOK, NotYetSent, Goto, Sent

\* So it is for a read.
LEMMA ReadStaysEarly ==
    ASSUME TypeOK, NotYetSent, NEW t \in Tasks, NEW point,
           ReadAndGoto(t, point), point \in Early => pc[t] \in Early
    PROVE  NotYetSent'
<1>1. "done" \notin Early
  BY DEF Early, PreLock, Unsigned
<1> QED
  BY <1>1, MoveStaysEarly DEF ReadAndGoto, Leave

\* An exception leaves for a handler, which is past the broadcast.
LEMMA RaiseStaysEarly ==
    ASSUME TypeOK, NotYetSent, NEW t \in Tasks, NEW handler \in {"done", "crashed"} \cup Failing,
           Raise(t, handler)
    PROVE  NotYetSent'
<1>1. handler \notin Early
  BY DEF Early, PreLock, Unsigned, Failing
<1> QED
  BY <1>1, MoveStaysEarly DEF Raise, Leave

\* A write goes on from a point before the broadcast only to the next, or ends.
LEMMA CasStaysEarly ==
    ASSUME TypeOK, NotYetSent, NEW t \in Tasks, NEW new, NEW next,
           Cas(t, new, next) \/ CasAndEnd(t, new), next \in Early => pc[t] \in Early
    PROVE  NotYetSent'
<1>1. "done" \notin Early
  BY DEF Early, PreLock, Unsigned
<1> QED
  BY <1>1, MoveStaysEarly DEF Cas, CasAndEnd, CasLoses, Leave

\* Every step of the system leaves what is not yet broadcast unsent.
LEMMA EarlyStep == TypeOK /\ NotYetSent /\ [Next]_vars => NotYetSent'
<1> SUFFICES ASSUME TypeOK, NotYetSent, [Next]_vars PROVE NotYetSent'
  OBVIOUS
<1>1. ASSUME NEW e \in Executions, SubmitNew(e) \/ StatusRecover(e) \/ StatusRefresh(e)
      PROVE  NotYetSent'
  BY <1>1 DEF SubmitNew, StatusRecover, StatusRefresh, NotYetSent, Sent
<1>2. ASSUME NEW t \in Tasks, SubmitExisting(t) PROVE NotYetSent'
  BY <1>2, MoveStaysEarly DEF SubmitExisting, Early
<1>3. ASSUME NEW t \in Tasks, LoseDelivery(t) PROVE NotYetSent'
  BY <1>3, MoveStaysEarly DEF LoseDelivery, Early
<1>4. ASSUME NEW t \in Tasks, Load(t) PROVE NotYetSent'
  BY <1>4, ReadStaysEarly DEF Load, Dispatch, Early, PreLock, Unsigned
<1>5. ASSUME NEW t \in Tasks, RecoverRead(t) PROVE NotYetSent'
  BY <1>5, ReadStaysEarly DEF RecoverRead, Early, PreLock, Unsigned
<1>6. ASSUME NEW t \in Tasks, RecoverWrite(t) PROVE NotYetSent'
  BY <1>6, CasStaysEarly DEF RecoverWrite, Early, PreLock, Unsigned
<1>7. ASSUME NEW t \in Tasks, Reload(t) PROVE NotYetSent'
  BY <1>7, ReadStaysEarly DEF Reload, Dispatch, Early, PreLock, Unsigned
<1>8. ASSUME NEW t \in Tasks, Validate(t) PROVE NotYetSent'
  BY <1>8, CasStaysEarly DEF Validate, Early, PreLock, Unsigned
<1>9. ASSUME NEW t \in Tasks, Validated(t) PROVE NotYetSent'
  BY <1>9, ReadStaysEarly DEF Validated, Early, PreLock, Unsigned
<1>10. ASSUME NEW t \in Tasks, Claim(t) PROVE NotYetSent'
  BY <1>10, CasStaysEarly DEF Claim, Early, PreLock, Unsigned
<1>11. ASSUME NEW t \in Tasks, Claimed(t) PROVE NotYetSent'
  BY <1>11, ReadStaysEarly DEF Claimed, Early, PreLock, Unsigned
<1>12. ASSUME NEW t \in Tasks, Acquire(t) PROVE NotYetSent'
  BY <1>12, MoveStaysEarly DEF Acquire, Leave, Early, PreLock, Unsigned
<1>13. ASSUME NEW t \in Tasks, CheckAttempt(t) PROVE NotYetSent'
  BY <1>13, ReadStaysEarly, RaiseStaysEarly DEF CheckAttempt, Early, PreLock, Unsigned, Failing
<1>14. ASSUME NEW t \in Tasks, Reserve(t) PROVE NotYetSent'
  BY <1>14, CasStaysEarly DEF Reserve, Early, PreLock, Unsigned
<1>15. ASSUME NEW t \in Tasks, RereadReserved(t) PROVE NotYetSent'
  BY <1>15, ReadStaysEarly DEF RereadReserved, Early, PreLock, Unsigned
<1>16. ASSUME NEW t \in Tasks, CheckEvidence(t) PROVE NotYetSent'
  BY <1>16, MoveStaysEarly, RaiseStaysEarly DEF CheckEvidence, Early, PreLock, Unsigned, Failing
<1>17. ASSUME NEW t \in Tasks, EnsureResources(t) PROVE NotYetSent'
  BY <1>17, MoveStaysEarly, RaiseStaysEarly DEF EnsureResources, Early, PreLock, Unsigned, Failing
<1>18. ASSUME NEW t \in Tasks, Sign(t) PROVE NotYetSent'
  BY <1>18, CasStaysEarly, RaiseStaysEarly DEF Sign, Early, PreLock, Unsigned, Failing
<1>19. ASSUME NEW t \in Tasks, RereadSigned(t) PROVE NotYetSent'
  BY <1>19, ReadStaysEarly DEF RereadSigned, Early, PreLock, Unsigned
<1>20. ASSUME NEW t \in Tasks, MarkBroadcasting(t) PROVE NotYetSent'
  BY <1>20, CasStaysEarly DEF MarkBroadcasting, Early, PreLock, Unsigned
<1>21. ASSUME NEW t \in Tasks, RereadMarked(t) PROVE NotYetSent'
  BY <1>21, ReadStaysEarly DEF RereadMarked, Early, PreLock, Unsigned
<1>22. ASSUME NEW t \in Tasks, Broadcast(t) PROVE NotYetSent'
  <2>1. CASE Raise(t, "failedTerminal")
    BY <2>1, RaiseStaysEarly DEF Failing
  <2>2. CASE chain' = [chain EXCEPT ![t] = "pending"] /\ Goto(t, "wait")
    <3>1. "wait" \notin Early
      BY DEF Early, PreLock, Unsigned
    <3> QED
      BY <2>2, <3>1 DEF TypeOK, NotYetSent, Goto, Sent
  <2> QED
    BY <1>22, <2>1, <2>2 DEF Broadcast
<1>23. ASSUME NEW t \in Tasks, AwaitInclusion(t) PROVE NotYetSent'
  BY <1>23, MoveStaysEarly, RaiseStaysEarly DEF AwaitInclusion, Early, PreLock, Unsigned, Failing
<1>24. ASSUME NEW t \in Tasks, VerifyResult(t) PROVE NotYetSent'
  BY <1>24, CasStaysEarly, RaiseStaysEarly DEF VerifyResult, Early, PreLock, Unsigned, Failing
<1>25. ASSUME NEW t \in Tasks, RereadVerified(t) PROVE NotYetSent'
  BY <1>25, ReadStaysEarly DEF RereadVerified, Early, PreLock, Unsigned
<1>26. ASSUME NEW t \in Tasks, MarkBroadcasted(t) PROVE NotYetSent'
  BY <1>26, CasStaysEarly DEF MarkBroadcasted, Early, PreLock, Unsigned
<1>27. ASSUME NEW t \in Tasks, FailRead(t) PROVE NotYetSent'
  BY <1>27, ReadStaysEarly DEF FailRead, Early, PreLock, Unsigned
<1>28. ASSUME NEW t \in Tasks, FailWrite(t) PROVE NotYetSent'
  BY <1>28, CasStaysEarly DEF FailWrite, Early, PreLock, Unsigned
<1>29. ASSUME NEW t \in Tasks, Crash(t) PROVE NotYetSent'
  BY <1>29, MoveStaysEarly DEF Crash, Early, PreLock, Unsigned
<1>30. ASSUME NEW t \in Tasks, LeaseLapse(t) PROVE NotYetSent'
  BY <1>30 DEF LeaseLapse, NotYetSent, Sent
<1>31. ASSUME NEW t \in Tasks, ChainStep(t) PROVE NotYetSent'
  BY <1>31 DEF ChainStep, TypeOK, NotYetSent, Sent
<1>32. CASE LockLapse
  <2>1. "done" \notin Early
    BY DEF Early, PreLock, Unsigned
  <2>2. lock \in Tasks
    BY <1>32 DEF LockLapse, TypeOK
  <2> QED
    BY <1>32, <2>1, <2>2 DEF LockLapse, TypeOK, NotYetSent, Sent
<1>33. CASE UNCHANGED vars
  BY <1>33 DEF vars, NotYetSent, Sent
<1> QED
  BY <1>1, <1>2, <1>3, <1>4, <1>5, <1>6, <1>7, <1>8, <1>9, <1>10, <1>11, <1>12, <1>13, <1>14, <1>15, <1>16, <1>17, <1>18, <1>19, <1>20, <1>21, <1>22, <1>23, <1>24, <1>25, <1>26, <1>27, <1>28, <1>29, <1>30, <1>31, <1>32, <1>33 DEF Next, TaskStep

\* So no delivery has sent anything before its broadcast.
LEMMA NothingSentEarly == Spec => []NotYetSent
<1>1. Init => NotYetSent
  BY DEF Init, NotYetSent, Sent
<1> QED
  BY <1>1, EarlyStep, TypeCorrect, PTL DEF Spec

--------------------------------------------------------------------------------
(* The deliveries of an execution                                           *)

\* A task that takes a step has been delivered and is not over, and goes on.
LEMMA TaskMoves ==
    ASSUME NEW t \in Tasks, TaskStep(t)
    PROVE  /\ pc[t] \notin {"unused", "done", "crashed"}
           /\ \E point : point # "unused" /\ Goto(t, point)
<1> DEFINE Moves == \E point : point # "unused" /\ Goto(t, point)
<1>1. ASSUME NEW point, point # "unused", ReadAndGoto(t, point) PROVE Moves
  BY <1>1 DEF ReadAndGoto, Leave
<1>2. ASSUME NEW new, NEW next, next # "unused", Cas(t, new, next) PROVE Moves
  BY <1>2 DEF Cas, CasLoses, Leave
<1>3. ASSUME NEW new, CasAndEnd(t, new) PROVE Moves
  BY <1>3 DEF CasAndEnd, CasLoses, Leave
<1>4. ASSUME NEW handler, handler # "unused", Raise(t, handler) PROVE Moves
  BY <1>4 DEF Raise, Leave
<1>5. CASE Load(t) \/ RecoverRead(t) \/ Reload(t) \/ Validated(t) \/ Claimed(t)
  BY <1>5, <1>1 DEF Load, RecoverRead, Reload, Validated, Claimed, Dispatch
<1>6. CASE RereadReserved(t) \/ RereadSigned(t) \/ RereadMarked(t) \/ RereadVerified(t) \/ FailRead(t)
  BY <1>6, <1>1 DEF RereadReserved, RereadSigned, RereadMarked, RereadVerified, FailRead
<1>7. CASE RecoverWrite(t) \/ Validate(t) \/ Claim(t) \/ Reserve(t) \/ MarkBroadcasting(t)
  BY <1>7, <1>2 DEF RecoverWrite, Validate, Claim, Reserve, MarkBroadcasting
<1>8. CASE MarkBroadcasted(t) \/ FailWrite(t)
  BY <1>8, <1>3 DEF MarkBroadcasted, FailWrite
<1>9. CASE Acquire(t) \/ Broadcast(t)
  BY <1>9, <1>4 DEF Acquire, Broadcast, Leave
<1>10. CASE CheckAttempt(t) \/ CheckEvidence(t) \/ EnsureResources(t) \/ AwaitInclusion(t)
  BY <1>10, <1>1, <1>4 DEF CheckAttempt, CheckEvidence, EnsureResources, AwaitInclusion
<1>11. CASE Sign(t) \/ VerifyResult(t)
  BY <1>11, <1>2, <1>4 DEF Sign, VerifyResult
<1> QED
  BY <1>5, <1>6, <1>7, <1>8, <1>9, <1>10, <1>11 DEF TaskStep

\* So what a delivery that exists does is not a second delivery.
LEMMA MoveRepeatsNothing ==
    ASSUME TypeOK, NEW t \in Tasks, NEW point, Goto(t, point),
           pc[t] # "unused", point # "unused"
    PROVE  Redelivered' = Redelivered
<1>1. \A u \in Tasks : (pc'[u] # "unused") = (pc[u] # "unused")
  BY DEF TypeOK, Goto
<1> QED
  BY <1>1 DEF Redelivered

\* A delivery that is over stays over.
LEMMA DoneStays ==
    ASSUME TypeOK, [Next]_vars, NEW t \in Tasks, pc[t] = "done"
    PROVE  pc'[t] = "done"
<1>1. ASSUME NEW u \in Tasks, NEW point, Goto(u, point), u # t PROVE pc'[t] = "done"
  BY <1>1 DEF TypeOK, Goto
<1>2. ASSUME NEW u \in Tasks, TaskStep(u) PROVE pc'[t] = "done"
  BY <1>2, <1>1, TaskMoves
<1>3. ASSUME NEW u \in Tasks, SubmitExisting(u) \/ LoseDelivery(u) \/ Crash(u)
      PROVE  pc'[t] = "done"
  BY <1>3, <1>1 DEF SubmitExisting, LoseDelivery, Crash, Running, PreLock, Critical, Unsigned,
                    Signed, Failing
<1>4. CASE LockLapse
  BY <1>4 DEF LockLapse, TypeOK
<1>5. ASSUME NEW u \in Tasks, LeaseLapse(u) \/ ChainStep(u) PROVE pc'[t] = "done"
  BY <1>5 DEF LeaseLapse, ChainStep
<1>6. ASSUME NEW e \in Executions, SubmitNew(e) \/ StatusRecover(e) \/ StatusRefresh(e)
      PROVE  pc'[t] = "done"
  BY <1>6 DEF SubmitNew, StatusRecover, StatusRefresh
<1>7. CASE UNCHANGED vars
  BY <1>7 DEF vars
<1> QED
  BY <1>2, <1>3, <1>4, <1>5, <1>6, <1>7 DEF Next

\* A row says FAILED_PRE_BROADCAST because a delivery of its execution wrote so and ended.
FailureHasEnded ==
    \A e \in Executions :
        row[e].state = "FAILED_PRE_BROADCAST"
            => \E t \in Tasks : ExecutionOf[t] = e /\ pc[t] = "done"

\* No row becomes a failure.
NoneFails ==
    \A e \in Executions :
        row'[e].state = "FAILED_PRE_BROADCAST" => row[e].state = "FAILED_PRE_BROADCAST"

\* A write of another state makes no row a failure.
LEMMA WriteFailsNone ==
    ASSUME TypeOK, NEW e \in Executions, NEW n, row' = [row EXCEPT ![e] = n],
           n.state # "FAILED_PRE_BROADCAST" \/ n.state = row[e].state
    PROVE  NoneFails
BY DEF TypeOK, NoneFails

\* Nor does a CAS of another state, or of the state the delivery read.
LEMMA CasFailsNone ==
    ASSUME IInv, NEW t \in Tasks, NEW new \in Row, NEW next,
           Cas(t, new, next) \/ CasAndEnd(t, new),
           new.state # "FAILED_PRE_BROADCAST" \/ new.state = snap[t].state
    PROVE  NoneFails
<1> DEFINE e == ExecutionOf[t]
<1>1. e \in Executions
  BY PayoutAssumption
<1>2. CASE CasWins(t) /\ row' = [row EXCEPT ![e] = Bump(new)]
  <2>1. snap[t] = row[e]
    BY <1>2 DEF IInv, SnapshotIsPast, CasWins
  <2> QED
    BY <1>1, <1>2, <2>1, BumpFields, WriteFailsNone DEF IInv
<1>3. CASE row' = row
  BY <1>3 DEF NoneFails
<1> QED
  BY <1>2, <1>3 DEF Cas, CasAndEnd, CasLoses

\* Only the failure handler of a delivery makes a row a failure, and that delivery ends.
LEMMA WhoFails ==
    ASSUME IInv, [Next]_vars
    PROVE  NoneFails \/ \E t \in Tasks : /\ row' = [row EXCEPT ![ExecutionOf[t]] = row'[ExecutionOf[t]]]
                                        /\ pc'[t] = "done"
<1> USE PayoutAssumption
<1>0. /\ TypeOK
      /\ \A e \in Executions : row[e] \in Row
      /\ \A t \in Tasks : snap[t] \in Row /\ ExecutionOf[t] \in Executions
  BY DEF IInv, TypeOK
<1>1. CASE row' = row
  BY <1>1 DEF NoneFails
<1>2. ASSUME NEW e \in Executions, SubmitNew(e) PROVE NoneFails
  <2>1. [NoRow EXCEPT !.state = "RECEIVED", !.state_version = 1].state = "RECEIVED"
    BY DEF NoRow
  <2> QED
    BY <1>0, <1>2, <2>1, WriteFailsNone DEF SubmitNew
<1>3. ASSUME NEW e \in Executions, row' = [row EXCEPT ![e] = Bump(Recovered(row[e]))] PROVE NoneFails
  <2>1. Bump(Recovered(row[e])).state \in {"RECEIVED", "RECONCILIATION_REQUIRED"}
    BY <1>0, RecoveredIsRow, RecoveredFollows, BumpFields
  <2> QED
    BY <1>0, <1>3, <2>1, WriteFailsNone
<1>4. ASSUME NEW e \in Executions, StatusRefresh(e) PROVE NoneFails
  <2>1. PICK s \in Observation(row[e].txid) : row' = [row EXCEPT ![e] = Bump(Refreshed(@, s))]
    BY <1>4 DEF StatusRefresh
  <2>2. s \in {"CONFIRMING", "CONFIRMED", "FAILED_CHAIN_TERMINAL"}
    BY DEF Observation
  <2>3. Refreshed(row[e], s) \in Row /\ Refreshed(row[e], s).state = s
    BY <1>0, <2>2, RefreshedRow, RefreshedFollows
  <2>4. Bump(Refreshed(row[e], s)).state = s
    BY <2>3, BumpFields
  <2> QED
    BY <1>0, <2>1, <2>2, <2>4, WriteFailsNone
<1>5. ASSUME NEW t \in Tasks, SubmitExisting(t) PROVE NoneFails
  <2>1. row' = [row EXCEPT ![ExecutionOf[t]] = Bump(Recovered(row[ExecutionOf[t]]))] \/ row' = row
    BY <1>0, <1>5 DEF SubmitExisting, TypeOK
  <2> QED
    BY <1>0, <1>3, <2>1 DEF NoneFails
<1>6. ASSUME NEW t \in Tasks, TaskStep(t), row' # row, ~FailWrite(t) PROVE NoneFails
  <2>1. CASE RecoverWrite(t)
    BY <1>0, <2>1, RecoveredIsRow, RecoveredFollows, CasFailsNone DEF RecoverWrite
  <2>2. CASE Validate(t)
    <3>1. [snap[t] EXCEPT !.state = "VALIDATED"].state = "VALIDATED"
      BY <1>0 DEF Row
    <3> QED
      BY <1>0, <2>2, <3>1, StagedRows, CasFailsNone DEF Validate
  <2>3. CASE Claim(t)
    <3>1. [snap[t] EXCEPT !.state = "SIGNING", !.attempt_id = t].state = "SIGNING"
      BY <1>0 DEF Row
    <3> QED
      BY <1>0, <2>3, <3>1, StagedRows, CasFailsNone DEF Claim
  <2>4. CASE Reserve(t)
    <3>1. [snap[t] EXCEPT !.state = "SIGNING", !.resource_reservation_id = TRUE].state = "SIGNING"
      BY <1>0 DEF Row
    <3> QED
      BY <1>0, <2>4, <3>1, StagedRows, CasFailsNone DEF Reserve
  <2>5. CASE Sign(t)
    <3>1. [snap[t] EXCEPT !.state = "SIGNED", !.txid = t].state = "SIGNED"
      BY <1>0 DEF Row
    <3> QED
      BY <1>0, <1>6, <2>5, <3>1, StagedRows, CasFailsNone DEF Sign, Raise
  <2>6. CASE MarkBroadcasting(t)
    <3>1. [snap[t] EXCEPT !.state = "BROADCASTING", !.broadcast_attempted_at = TRUE].state
             = "BROADCASTING"
      BY <1>0 DEF Row
    <3> QED
      BY <1>0, <2>6, <3>1, StagedRows, CasFailsNone DEF MarkBroadcasting
  <2>7. CASE VerifyResult(t)
    BY <1>0, <1>6, <2>7, CasFailsNone DEF VerifyResult, Raise
  <2>8. CASE MarkBroadcasted(t)
    <3>1. [snap[t] EXCEPT !.state = "BROADCASTED", !.txid = t,
                          !.reconciliation_required = FALSE].state = "BROADCASTED"
      BY <1>0 DEF Row
    <3> QED
      BY <1>0, <2>8, <3>1, StagedRows, CasFailsNone DEF MarkBroadcasted
  <2> QED
    BY <1>6, <2>1, <2>2, <2>3, <2>4, <2>5, <2>6, <2>7, <2>8
       DEF TaskStep, Load, RecoverRead, Reload, Validated, Claimed, Acquire, CheckAttempt,
           RereadReserved, CheckEvidence, EnsureResources, RereadSigned, RereadMarked,
           Broadcast, AwaitInclusion, RereadVerified, FailRead, ReadAndGoto, Raise
<1>7. ASSUME NEW t \in Tasks, FailWrite(t)
      PROVE  /\ row' = [row EXCEPT ![ExecutionOf[t]] = row'[ExecutionOf[t]]]
             /\ pc'[t] = "done"
  BY <1>0, <1>7 DEF FailWrite, CasAndEnd, CasLoses, Leave, Goto, TypeOK
<1> QED
  BY <1>0, <1>1, <1>2, <1>3, <1>4, <1>5, <1>6, <1>7
     DEF Next, StatusRecover, LoseDelivery, Crash, LeaseLapse, ChainStep, LockLapse, vars

\* Every step keeps that a failure has a delivery that is over.
LEMMA FailureStep == IInv /\ FailureHasEnded /\ [Next]_vars => FailureHasEnded'
<1> SUFFICES ASSUME IInv, FailureHasEnded, [Next]_vars, NEW e \in Executions,
                    row'[e].state = "FAILED_PRE_BROADCAST"
             PROVE  \E t \in Tasks : ExecutionOf[t] = e /\ pc'[t] = "done"
  BY DEF FailureHasEnded
<1>1. CASE row[e].state = "FAILED_PRE_BROADCAST"
  BY <1>1, DoneStays DEF FailureHasEnded, IInv
<1>2. CASE row[e].state # "FAILED_PRE_BROADCAST"
  <2>1. PICK t \in Tasks : /\ row' = [row EXCEPT ![ExecutionOf[t]] = row'[ExecutionOf[t]]]
                           /\ pc'[t] = "done"
    BY <1>2, WhoFails DEF NoneFails
  <2>2. ExecutionOf[t] = e
    BY <1>2, <2>1 DEF IInv, TypeOK
  <2> QED
    BY <2>1, <2>2
<1> QED
  BY <1>1, <1>2

\* So a failure always has one.
LEMMA FailureHasDelivery == Spec => []FailureHasEnded
<1>1. Init => FailureHasEnded
  BY DEF Init, FailureHasEnded, NoRow
<1> QED
  BY <1>1, FailureStep, Invariance, PTL DEF Spec

\* A delivery that is not over and finds its execution failed is not the only one.
LEMMA FailedIsRepeated ==
    ASSUME FailureHasEnded, NEW t \in Tasks, pc[t] \notin {"unused", "done"},
           row[ExecutionOf[t]].state = "FAILED_PRE_BROADCAST"
    PROVE  ExecutionOf[t] \in Redelivered
<1>1. ExecutionOf[t] \in Executions
  BY PayoutAssumption
<1> QED
  BY <1>1 DEF FailureHasEnded, Redelivered

--------------------------------------------------------------------------------
(* What the consumer and the chain see of a step                            *)

\* The report of e may go from a to b: what the contract allows.
MayReport(e, a, b) ==
    \/ a = b
    \/ a = "unknown" /\ b = "open"
    \/ a = "open" /\ b = "reconcile"
    \/ a = "reconcile" /\ b = "open"
    \/ a = "notPaid" /\ b = "open" /\ e \in Redelivered
    \/ a = "open" /\ b = "notPaid" /\ OutcomeOf(e) = "none"
    \/ a = "open" /\ b = "confirmed" /\ OutcomeOf(e) = "confirmed"
    \/ a = "open" /\ b = "chainFailed" /\ OutcomeOf(e) = "reverted"

\* An execution without a sent transaction has no outcome.
LEMMA OutcomeNone ==
    ASSUME NEW e \in Executions, \A t \in Tasks : Sent(t) => ExecutionOf[t] # e
    PROVE  OutcomeOf(e) = "none"
BY DEF OutcomeOf

\* The outcome of an execution is what the chain holds of the one transaction sent.
LEMMA OutcomeSent ==
    ASSUME IInv, NEW t \in Tasks, Sent(t)
    PROVE  OutcomeOf(ExecutionOf[t]) = chain[t]
<1> DEFINE sent == {u \in Tasks : Sent(u) /\ ExecutionOf[u] = ExecutionOf[t]}
<1>1. sent = {t}
  BY DEF IInv, EvidenceInv
<1>2. (CHOOSE u \in sent : TRUE) = t
  BY <1>1
<1> QED
  BY <1>1, <1>2 DEF OutcomeOf

\* A step that leaves the rows, the chain and the deliveries alone is not seen.
LEMMA StandIsUnseen ==
    ASSUME row' = row, chain' = chain, Redelivered' = Redelivered
    PROVE  ContractStep
<1>1. \A e \in Executions : ReportOf(row[e].state)' = ReportOf(row[e].state)
  OBVIOUS
<1>2. \A e \in Executions : OutcomeOf(e)' = OutcomeOf(e)
  BY DEF OutcomeOf, Sent
<1> QED
  BY <1>1, <1>2 DEF ContractStep, Contract!contractVars

\* A write to one row is seen as a step of the contract when its report may follow.
LEMMA WriteIsAllowed ==
    ASSUME TypeOK, NEW e \in Executions, NEW n,
           row' = [row EXCEPT ![e] = n], chain' = chain,
           Redelivered' = Redelivered,
           MayReport(e, ReportOf(row[e].state), ReportOf(n.state))
    PROVE  ContractStep
<1> DEFINE report == [f \in Executions |-> ReportOf(row[f].state)]
           outcome == [f \in Executions |-> OutcomeOf(f)]
<1>1. outcome' = outcome
  <2>1. \A f \in Executions : OutcomeOf(f)' = OutcomeOf(f)
    BY DEF OutcomeOf, Sent
  <2> QED
    BY <2>1
<1>2. report' = [report EXCEPT ![e] = ReportOf(n.state)]
  <2>1. \A f \in Executions : row'[f] = IF f = e THEN n ELSE row[f]
    BY DEF TypeOK
  <2>2. \A f \in Executions :
           ReportOf(row[f].state)' = IF f = e THEN ReportOf(n.state) ELSE ReportOf(row[f].state)
    BY <2>1
  <2> QED
    BY <2>2
<1>3. report[e] = ReportOf(row[e].state) /\ outcome[e] = OutcomeOf(e)
  OBVIOUS
<1>4. CASE ReportOf(row[e].state) = ReportOf(n.state)
  <2>1. report' = report
    BY <1>2, <1>3, <1>4
  <2> QED
    BY <1>1, <2>1 DEF ContractStep, Contract!contractVars
<1>5. CASE ReportOf(row[e].state) # ReportOf(n.state)
  <2> HIDE DEF report, outcome
  <2> QED
    BY <1>1, <1>2, <1>3, <1>5
       DEF ContractStep, Contract!ContractNext, Contract!Register, Contract!Report,
           Contract!Flag, Contract!Reopen, Contract!ReportNotPaid, Contract!ReportVerdict,
           MayReport, report, outcome
<1> QED
  BY <1>4, <1>5

\* A CAS writes over the row the delivery read, or is not seen.
LEMMA CasIsAllowed ==
    ASSUME IInv, NEW t \in Tasks, NEW new \in Row, NEW next,
           Cas(t, new, next) \/ CasAndEnd(t, new), Redelivered' = Redelivered,
           snap[t] = row[ExecutionOf[t]] =>
               MayReport(ExecutionOf[t], ReportOf(row[ExecutionOf[t]].state),
                         ReportOf(new.state))
    PROVE  ContractStep
<1> DEFINE e == ExecutionOf[t]
<1>1. e \in Executions
  BY PayoutAssumption
<1>2. CASE CasWins(t) /\ row' = [row EXCEPT ![e] = Bump(new)] /\ chain' = chain
  <2>1. snap[t] = row[e]
    BY <1>2 DEF IInv, SnapshotIsPast, CasWins
  <2>2. Bump(new).state = new.state
    BY BumpFields
  <2> QED
    BY <1>1, <1>2, <2>1, <2>2, WriteIsAllowed DEF IInv
<1>3. CASE row' = row /\ chain' = chain
  BY <1>3, StandIsUnseen
<1> QED
  BY <1>2, <1>3 DEF Cas, CasAndEnd, CasLoses

\* What the chain does to a sent transaction is the outcome of its execution, and of
\* no other.
LEMMA OutcomeMoves ==
    ASSUME IInv, IInv', NEW t \in Tasks, NEW c, c # "unsent",
           chain' = [chain EXCEPT ![t] = c]
    PROVE  [e \in Executions |-> OutcomeOf(e)]'
              = [[e \in Executions |-> OutcomeOf(e)] EXCEPT ![ExecutionOf[t]] = c]
<1>1. \A u \in Tasks : chain'[u] = IF u = t THEN c ELSE chain[u]
  BY DEF IInv, TypeOK
<1>2. OutcomeOf(ExecutionOf[t])' = c
  <2> DEFINE sent == {u \in Tasks : chain'[u] # "unsent" /\ ExecutionOf[u] = ExecutionOf[t]}
  <2>1. \A u \in Tasks : chain'[u] # "unsent" => row'[ExecutionOf[u]].txid = u
    BY DEF IInv, EvidenceInv, Sent
  <2>2. sent = {t}
    BY <1>1, <2>1
  <2>3. (CHOOSE u \in sent : TRUE) = t
    BY <2>2
  <2>4. OutcomeOf(ExecutionOf[t])'
           = IF sent = {} THEN "none" ELSE chain'[CHOOSE u \in sent : TRUE]
    BY DEF OutcomeOf, Sent
  <2> QED
    BY <1>1, <2>2, <2>3, <2>4
<1>3. ASSUME NEW e \in Executions, e # ExecutionOf[t]
      PROVE  OutcomeOf(e)' = OutcomeOf(e)
  <2> DEFINE sent == {u \in Tasks : chain[u] # "unsent" /\ ExecutionOf[u] = e}
             later == {u \in Tasks : chain'[u] # "unsent" /\ ExecutionOf[u] = e}
  <2>1. later = sent
    BY <1>1, <1>3
  <2>2. sent # {} => (CHOOSE u \in sent : TRUE) \in sent
    OBVIOUS
  <2>3. sent # {} => chain'[CHOOSE u \in sent : TRUE] = chain[CHOOSE u \in sent : TRUE]
    BY <1>1, <1>3, <2>2
  <2>4. OutcomeOf(e) = IF sent = {} THEN "none" ELSE chain[CHOOSE u \in sent : TRUE]
    BY DEF OutcomeOf, Sent
  <2>5. OutcomeOf(e)' = IF later = {} THEN "none" ELSE chain'[CHOOSE u \in later : TRUE]
    BY DEF OutcomeOf, Sent
  <2> HIDE DEF sent, later
  <2> QED
    BY <2>1, <2>3, <2>4, <2>5
<1> QED
  BY <1>2, <1>3

\* txn.broadcast() is the contract's one payment.
LEMMA BroadcastPays ==
    ASSUME IInv, IInv', NotYetSent, NEW t \in Tasks, Broadcast(t), Redelivered' = Redelivered
    PROVE  ContractStep
<1> DEFINE e == ExecutionOf[t]
<1>1. CASE Raise(t, "failedTerminal")
  BY <1>1, StandIsUnseen DEF Raise
<1>2. CASE chain' = [chain EXCEPT ![t] = "pending"] /\ row' = row
  <2>0. pc[t] = "broadcast" /\ e \in Executions
    BY PayoutAssumption DEF Broadcast
  <2>1. row[e].txid = t
    BY <2>0 DEF IInv, EvidenceInv, Signed
  <2>2. OutcomeOf(e) = "none"
    <3>1. ~Sent(t)
      BY <2>0 DEF NotYetSent, Early
    <3> QED
      BY <2>0, <2>1, <3>1, OutcomeNone DEF IInv, EvidenceInv
  <2>3. row[e].state \notin Restartable \cup Reported \cup {"ABSENT"}
    <3>1. t # NoTask
      BY PayoutAssumption
    <3>2. row[e].state \notin Restartable
      BY <2>0, <2>1, <3>1 DEF IInv, UnsignedInv, HasUnsafeSideEffect, Restartable
    <3>3. row[e].state \notin Reported
      BY <2>0, <2>1 DEF IInv, VerdictInv, Signed
    <3>4. row[e].state # "ABSENT"
      BY <2>0, <2>1, <3>1 DEF IInv, RowsExist, NoRow
    <3> QED
      BY <3>2, <3>3, <3>4
  <2>4. ReportOf(row[e].state) \in {"open", "reconcile"}
    <3>1. row[e].state \in State
      BY <2>0 DEF IInv, TypeOK, Row
    <3> QED
      BY <2>3, <3>1
         DEF ReportOf, Restartable, Reported, Decided, State, ENQUEUEABLE_STATES,
             UNSAFE_RECOVERY_STATES, NO_DOWNGRADE_STATES
  <2>5. [f \in Executions |-> OutcomeOf(f)]'
           = [[f \in Executions |-> OutcomeOf(f)] EXCEPT ![e] = "pending"]
    BY <1>2, OutcomeMoves
  <2>6. [f \in Executions |-> ReportOf(row[f].state)]'
           = [f \in Executions |-> ReportOf(row[f].state)]
    BY <1>2
  <2>7. Contract!Pay(e)
    BY <2>0, <2>2, <2>4, <2>5, <2>6 DEF Contract!Pay
  <2> QED
    BY <2>0, <2>7 DEF ContractStep, Contract!ContractNext
<1> QED
  BY <1>1, <1>2 DEF Broadcast

\* A step of the chain settles the execution.
LEMMA ChainSettles ==
    ASSUME IInv, IInv', NEW t \in Tasks, ChainStep(t)
    PROVE  ContractStep
<1> DEFINE e == ExecutionOf[t]
<1>6. Redelivered' = Redelivered
  BY DEF ChainStep, Redelivered
<1>0. e \in Executions
  BY PayoutAssumption
<1>1. Sent(t) /\ OutcomeOf(e) = chain[t]
  BY OutcomeSent DEF ChainStep, Sent
<1>2. [f \in Executions |-> ReportOf(row[f].state)]'
         = [f \in Executions |-> ReportOf(row[f].state)]
  BY DEF ChainStep
<1>3. PICK c \in {"success", "reverted", "expired", "confirmed"} :
         /\ chain' = [chain EXCEPT ![t] = c]
         /\ \/ chain[t] = "pending" /\ c \in {"success", "reverted", "expired"}
            \/ chain[t] = "success" /\ c = "confirmed"
  BY DEF ChainStep
<1>4. [f \in Executions |-> OutcomeOf(f)]'
         = [[f \in Executions |-> OutcomeOf(f)] EXCEPT ![e] = c]
  BY <1>3, OutcomeMoves
<1>5. Contract!Settle(e)
  BY <1>0, <1>1, <1>2, <1>3, <1>4, <1>6 DEF Contract!Settle
<1> QED
  BY <1>0, <1>5 DEF ContractStep, Contract!ContractNext

--------------------------------------------------------------------------------
(* The writes to a row                                                      *)

\* Every state but a decided one may be followed by an open one, a failure only when
\* there was a second delivery.
LEMMA MayOpen ==
    ASSUME NEW s \in State \ Decided, NEW n \in {"RECEIVED", "VALIDATED", "SIGNING", "SIGNED",
                                                 "BROADCASTING", "BROADCASTED"}, NEW e,
           s = "FAILED_PRE_BROADCAST" => e \in Redelivered
    PROVE  MayReport(e, ReportOf(s), ReportOf(n))
<1>1. ReportOf(n) = "open"
  BY DEF ReportOf
<1>2. \/ ReportOf(s) \in {"unknown", "open", "reconcile"}
      \/ ReportOf(s) = "notPaid" /\ s = "FAILED_PRE_BROADCAST"
  BY DEF ReportOf, State, Decided, ENQUEUEABLE_STATES, UNSAFE_RECOVERY_STATES,
         NO_DOWNGRADE_STATES
<1> QED
  BY <1>1, <1>2 DEF MayReport

\* Recovering a stale row keeps it open or flags it.
LEMMA RecoveryIsAllowed ==
    ASSUME NEW r \in Row, r.state \in UNSAFE_RECOVERY_STATES, NEW e
    PROVE  MayReport(e, ReportOf(r.state), ReportOf(Recovered(r).state))
<1>1. ReportOf(r.state) = "open"
  BY DEF ReportOf, UNSAFE_RECOVERY_STATES
<1>2. ReportOf(Recovered(r).state) \in {"open", "reconcile"}
  BY RecoveredFollows DEF ReportOf
<1> QED
  BY <1>1, <1>2 DEF MayReport

\* A delivery that has signed and is not done with it works on an undecided row.
LEMMA SignedIsUndecided ==
    ASSUME IInv, NEW t \in Tasks, pc[t] \in Signed
    PROVE  row[ExecutionOf[t]].state \in State \ Decided
<1>1. ExecutionOf[t] \in Executions /\ row[ExecutionOf[t]].state \in State
  BY PayoutAssumption DEF IInv, TypeOK, Row
<1>2. row[ExecutionOf[t]].txid = t
  BY DEF IInv, EvidenceInv
<1> QED
  BY <1>1, <1>2 DEF IInv, VerdictInv, Reported

\* The failure handler reports FAILED_PRE_BROADCAST only of what was never sent.
LEMMA FailureIsAllowed ==
    ASSUME IInv, NEW t \in Tasks, pc[t] \in {"markRetryable", "markTerminal"},
           snap[t] = row[ExecutionOf[t]], NEW b \in BOOLEAN
    PROVE  MayReport(ExecutionOf[t], ReportOf(row[ExecutionOf[t]].state),
                     ReportOf(Failed(snap[t], b).state))
<1> DEFINE e == ExecutionOf[t]
<1>1. e \in Executions /\ row[e] \in Row /\ row[e].state \in State
  BY PayoutAssumption DEF IInv, TypeOK, Row
<1>2. ReportOf(row[e].state) = "open"
  <2>1. row[e].state \notin NO_DOWNGRADE_STATES /\ row[e].state # "ABSENT"
    BY DEF IInv, SnapshotMatchesPc, RowsExist
  <2> QED
    BY <1>1, <2>1
       DEF ReportOf, State, ENQUEUEABLE_STATES, UNSAFE_RECOVERY_STATES, NO_DOWNGRADE_STATES
<1>3. Failed(row[e], b).state \in {"RECEIVED", "RECONCILIATION_REQUIRED", "FAILED_PRE_BROADCAST"}
  BY <1>1, FailedFollows
<1>4. CASE Failed(row[e], b).state = "FAILED_PRE_BROADCAST"
  <2>1. row[e].txid = NoTask
    BY <1>1, <1>4, FailedFollows DEF Follows, Restartable, HasUnsafeSideEffect
  <2>2. OutcomeOf(e) = "none"
    BY <1>1, <2>1, OutcomeNone, PayoutAssumption DEF IInv, EvidenceInv
  <2> QED
    BY <1>2, <1>4, <2>2 DEF MayReport, ReportOf
<1>5. CASE Failed(row[e], b).state # "FAILED_PRE_BROADCAST"
  BY <1>2, <1>3, <1>5 DEF MayReport, ReportOf
<1> QED
  BY <1>4, <1>5

\* A status poll reports the verdict the chain holds.
LEMMA RefreshIsAllowed ==
    ASSUME IInv, NEW e \in Executions, StatusRefresh(e), Redelivered' = Redelivered
    PROVE  ContractStep
<1>1. /\ row[e] \in Row /\ row[e].state \in {"BROADCASTED", "CONFIRMING"}
      /\ chain' = chain
  BY DEF StatusRefresh, IInv, TypeOK
<1>2. PICK s \in Observation(row[e].txid) : row' = [row EXCEPT ![e] = Bump(Refreshed(@, s))]
  BY DEF StatusRefresh
<1>3. s \in {"CONFIRMING", "CONFIRMED", "FAILED_CHAIN_TERMINAL"}
  BY DEF Observation
<1>4. Bump(Refreshed(row[e], s)).state = s
  <2>1. Refreshed(row[e], s) \in Row /\ Refreshed(row[e], s).state = s
    BY <1>1, <1>3, RefreshedFollows, RefreshedRow
  <2> QED
    BY <2>1, BumpFields
<1>5. row[e].txid \in Tasks /\ ExecutionOf[row[e].txid] = e
  BY <1>1 DEF IInv, VerdictInv, Reported
<1>6. ReportOf(row[e].state) = "open"
  BY <1>1 DEF ReportOf
<1>7. MayReport(e, ReportOf(row[e].state), ReportOf(s))
  <2>1. s \in Decided => Sent(row[e].txid)
    BY DEF Observation, Sent, Decided
  <2>2. s \in Decided => OutcomeOf(e) = chain[row[e].txid]
    BY <1>5, <2>1, OutcomeSent
  <2>3. /\ s = "CONFIRMED" => chain[row[e].txid] = "confirmed"
        /\ s = "FAILED_CHAIN_TERMINAL" => chain[row[e].txid] = "reverted"
    BY DEF Observation
  <2> QED
    BY <1>3, <1>6, <2>2, <2>3 DEF MayReport, ReportOf, Decided
<1> QED
  BY <1>1, <1>2, <1>4, <1>7, WriteIsAllowed DEF IInv

\* A submit registers the execution.
LEMMA SubmitIsAllowed ==
    ASSUME IInv, NEW e \in Executions, SubmitNew(e), Redelivered' = Redelivered
    PROVE  ContractStep
<1>1. [NoRow EXCEPT !.state = "RECEIVED", !.state_version = 1].state = "RECEIVED"
  BY DEF NoRow
<1>2. row[e].state \in State \ Decided /\ row[e].state # "FAILED_PRE_BROADCAST"
  BY DEF SubmitNew, State, Decided
<1> QED
  BY <1>1, <1>2, MayOpen, WriteIsAllowed DEF SubmitNew, IInv

\* A repeated submit is the contract's Repeat when it hands out a second delivery, and
\* otherwise not seen; the row it may recover was open and stays open.
LEMMA ResubmitIsAllowed ==
    ASSUME IInv, NEW t \in Tasks, SubmitExisting(t)
    PROVE  ContractStep
<1> DEFINE e == ExecutionOf[t]
           r == IF Recoverable(row[e]) THEN Bump(Recovered(row[e])) ELSE row[e]
           report == [f \in Executions |-> ReportOf(row[f].state)]
           outcome == [f \in Executions |-> OutcomeOf(f)]
<1>0. e \in Executions /\ row[e] \in Row
  BY PayoutAssumption DEF IInv, TypeOK
<1>1. /\ pc[t] = "unused" /\ pc' = [pc EXCEPT ![t] = "queued"] /\ chain' = chain
      /\ row' = [row EXCEPT ![e] = r] /\ r.state \in ENQUEUEABLE_STATES
      /\ row[e].state # "ABSENT"
  BY DEF SubmitExisting, Goto
<1>2. ReportOf(row[e].state) = "open" /\ ReportOf(r.state) = "open"
  BY <1>1 DEF Recoverable, ENQUEUEABLE_STATES, UNSAFE_RECOVERY_STATES, ReportOf
<1>3. report' = report
  <2>1. \A f \in Executions : ReportOf(row[f].state)' = ReportOf(row[f].state)
    BY <1>0, <1>1, <1>2 DEF IInv, TypeOK
  <2> QED
    BY <2>1
<1>4. outcome' = outcome
  <2>1. \A f \in Executions : OutcomeOf(f)' = OutcomeOf(f)
    BY <1>1 DEF OutcomeOf, Sent
  <2> QED
    BY <2>1
<1>5. Redelivered' = Redelivered \/ Redelivered' = Redelivered \cup {e}
  <2>1. \A u \in Tasks : (pc'[u] # "unused") = (pc[u] # "unused" \/ u = t)
    BY <1>1 DEF IInv, TypeOK
  <2>2. Redelivered \subseteq Redelivered' /\ Redelivered' \subseteq Redelivered \cup {e}
    BY <1>0, <2>1 DEF Redelivered
  <2> QED
    BY <2>2
<1>6. CASE Redelivered' = Redelivered
  BY <1>3, <1>4, <1>6 DEF ContractStep, Contract!contractVars
<1>7. CASE Redelivered' = Redelivered \cup {e}
  <2>1. report[e] = "open"
    BY <1>0, <1>2
  <2> HIDE DEF e, report, outcome
  <2>2. Contract!Repeat(e)
    BY <1>3, <1>4, <1>7, <2>1 DEF Contract!Repeat, report, outcome
  <2> QED
    BY <1>0, <2>2 DEF ContractStep, Contract!ContractNext
<1> QED
  BY <1>5, <1>6, <1>7

--------------------------------------------------------------------------------
(* The refinement                                                           *)

\* Every step of a delivery is one step of the contract, or none.
LEMMA TaskIsAllowed ==
    ASSUME IInv, IInv', NotYetSent, FailureHasEnded, NEW t \in Tasks, TaskStep(t)
    PROVE  ContractStep
<1> DEFINE e == ExecutionOf[t]
<1>0. /\ e \in Executions /\ row[e] \in Row /\ row[e].state \in State
      /\ snap[t] \in Row
      /\ Redelivered' = Redelivered
      /\ row[e].state = "FAILED_PRE_BROADCAST" => e \in Redelivered
  BY PayoutAssumption, TaskMoves, MoveRepeatsNothing, FailedIsRepeated DEF IInv, TypeOK, Row
<1> USE <1>0
<1>1. CASE Load(t)
  BY <1>1, StandIsUnseen DEF Load, ReadAndGoto
<1>2. CASE RecoverRead(t)
  BY <1>2, StandIsUnseen DEF RecoverRead, ReadAndGoto
<1>3. CASE RecoverWrite(t)
  <2>1. snap[t].state \in UNSAFE_RECOVERY_STATES
    BY <1>3 DEF RecoverWrite, IInv, SnapshotMatchesPc
  <2> QED
    BY <1>3, <2>1, RecoveredIsRow, RecoveryIsAllowed, CasIsAllowed DEF RecoverWrite
<1>4. CASE Reload(t)
  BY <1>4, StandIsUnseen DEF Reload, ReadAndGoto
<1>5. CASE Validate(t)
  <2>1. snap[t] = row[e] => row[e].state \in State \ Decided
    BY <1>5 DEF Validate, IInv, SnapshotMatchesPc, State, Decided, ENQUEUEABLE_STATES
  <2>2. [snap[t] EXCEPT !.state = "VALIDATED"].state = "VALIDATED"
    BY DEF Row
  <2> QED
    BY <1>5, <2>1, <2>2, StagedRows, MayOpen, CasIsAllowed DEF Validate
<1>6. CASE Validated(t)
  BY <1>6, StandIsUnseen DEF Validated, ReadAndGoto
<1>7. CASE Claim(t)
  <2>1. snap[t] = row[e] => row[e].state \in State \ Decided
    BY <1>7 DEF Claim, IInv, SnapshotMatchesPc, Decided
  <2>2. [snap[t] EXCEPT !.state = "SIGNING", !.attempt_id = t].state = "SIGNING"
    BY DEF Row
  <2> QED
    BY <1>7, <2>1, <2>2, StagedRows, MayOpen, CasIsAllowed DEF Claim
<1>8. CASE Claimed(t)
  BY <1>8, StandIsUnseen DEF Claimed, ReadAndGoto
<1>9. CASE Acquire(t)
  BY <1>9, StandIsUnseen DEF Acquire
<1>10. CASE CheckAttempt(t)
  BY <1>10, StandIsUnseen DEF CheckAttempt, ReadAndGoto, Raise
<1>11. CASE Reserve(t)
  <2>1. snap[t] = row[e] => row[e].state \in State \ Decided
    BY <1>11 DEF Reserve, IInv, SnapshotMatchesPc, Decided, UNSAFE_RECOVERY_STATES
  <2>2. [snap[t] EXCEPT !.state = "SIGNING", !.resource_reservation_id = TRUE].state = "SIGNING"
    BY DEF Row
  <2> QED
    BY <1>11, <2>1, <2>2, StagedRows, MayOpen, CasIsAllowed DEF Reserve
<1>12. CASE RereadReserved(t)
  BY <1>12, StandIsUnseen DEF RereadReserved, ReadAndGoto
<1>13. CASE CheckEvidence(t)
  BY <1>13, StandIsUnseen DEF CheckEvidence, Raise
<1>14. CASE EnsureResources(t)
  BY <1>14, StandIsUnseen DEF EnsureResources, Raise
<1>15. CASE Sign(t)
  <2>1. snap[t] = row[e] => row[e].state \in State \ Decided
    BY <1>15, PayoutAssumption DEF Sign, IInv, SnapshotMatchesPc, VerdictInv, Reported
  <2>2. [snap[t] EXCEPT !.state = "SIGNED", !.txid = t].state = "SIGNED"
    BY DEF Row
  <2> QED
    BY <1>15, <2>1, <2>2, StagedRows, MayOpen, CasIsAllowed, StandIsUnseen DEF Sign, Raise
<1>16. CASE RereadSigned(t)
  BY <1>16, StandIsUnseen DEF RereadSigned, ReadAndGoto
<1>17. CASE MarkBroadcasting(t)
  <2>1. snap[t] = row[e] => row[e].state \in State \ Decided
    BY <1>17, SignedIsUndecided DEF MarkBroadcasting, Signed
  <2>2. [snap[t] EXCEPT !.state = "BROADCASTING", !.broadcast_attempted_at = TRUE].state = "BROADCASTING"
    BY DEF Row
  <2> QED
    BY <1>17, <2>1, <2>2, StagedRows, MayOpen, CasIsAllowed DEF MarkBroadcasting
<1>18. CASE RereadMarked(t)
  BY <1>18, StandIsUnseen DEF RereadMarked, ReadAndGoto
<1>19. CASE Broadcast(t)
  BY <1>19, BroadcastPays
<1>20. CASE AwaitInclusion(t)
  BY <1>20, StandIsUnseen DEF AwaitInclusion, Raise
<1>21. CASE VerifyResult(t)
  BY <1>21, CasIsAllowed, StandIsUnseen DEF VerifyResult, MayReport, Raise
<1>22. CASE RereadVerified(t)
  BY <1>22, StandIsUnseen DEF RereadVerified, ReadAndGoto
<1>23. CASE MarkBroadcasted(t)
  <2>1. snap[t] = row[e] => row[e].state \in State \ Decided
    BY <1>23, SignedIsUndecided DEF MarkBroadcasted, Signed
  <2>2. [snap[t] EXCEPT !.state = "BROADCASTED", !.txid = t,
                          !.reconciliation_required = FALSE].state = "BROADCASTED"
    BY DEF Row
  <2> QED
    BY <1>23, <2>1, <2>2, StagedRows, MayOpen, CasIsAllowed DEF MarkBroadcasted
<1>24. CASE FailRead(t)
  BY <1>24, StandIsUnseen DEF FailRead, ReadAndGoto
<1>25. CASE FailWrite(t)
  <2>1. (pc[t] = "markRetryable") \in BOOLEAN
    OBVIOUS
  <2> QED
    BY <1>25, <2>1, FailedIsRow, FailureIsAllowed, CasIsAllowed DEF FailWrite
<1> QED
  BY <1>1, <1>2, <1>3, <1>4, <1>5, <1>6, <1>7, <1>8, <1>9, <1>10, <1>11, <1>12, <1>13, <1>14, <1>15, <1>16, <1>17, <1>18, <1>19, <1>20, <1>21, <1>22, <1>23, <1>24, <1>25 DEF TaskStep

\* Every step of the system is one step of the contract, or none.
LEMMA StepIsAllowed ==
    IInv /\ IInv' /\ NotYetSent /\ FailureHasEnded /\ [Next]_vars => ContractStep
<1> SUFFICES ASSUME IInv, IInv', NotYetSent, FailureHasEnded, [Next]_vars PROVE ContractStep
  OBVIOUS
<1>0. UNCHANGED pc => Redelivered' = Redelivered
  BY DEF Redelivered
<1>1. ASSUME NEW e \in Executions, SubmitNew(e) PROVE ContractStep
  BY <1>0, <1>1, SubmitIsAllowed DEF SubmitNew
<1>2. ASSUME NEW e \in Executions, StatusRecover(e) PROVE ContractStep
  <2>1. row[e] \in Row
    BY DEF IInv, TypeOK
  <2>2. Bump(Recovered(row[e])).state = Recovered(row[e]).state
    BY <2>1, RecoveredIsRow, BumpFields
  <2> QED
    BY <1>0, <1>2, <2>1, <2>2, RecoveryIsAllowed, WriteIsAllowed
       DEF StatusRecover, Recoverable, IInv
<1>3. ASSUME NEW e \in Executions, StatusRefresh(e) PROVE ContractStep
  BY <1>0, <1>3, RefreshIsAllowed DEF StatusRefresh
<1>4. ASSUME NEW t \in Tasks, SubmitExisting(t) PROVE ContractStep
  BY <1>4, ResubmitIsAllowed
<1>5. ASSUME NEW t \in Tasks, TaskStep(t) PROVE ContractStep
  BY <1>5, TaskIsAllowed
<1>6. ASSUME NEW t \in Tasks, ChainStep(t) PROVE ContractStep
  BY <1>6, ChainSettles
<1>7. ASSUME NEW t \in Tasks, LoseDelivery(t) \/ Crash(t) PROVE ContractStep
  <2>1. Redelivered' = Redelivered
    BY <1>7, MoveRepeatsNothing
       DEF LoseDelivery, Crash, Running, PreLock, Critical, Unsigned, Signed, Failing, IInv
  <2> QED
    BY <1>7, <2>1, StandIsUnseen DEF LoseDelivery, Crash
<1>8. ASSUME NEW t \in Tasks, LeaseLapse(t) PROVE ContractStep
  BY <1>0, <1>8, StandIsUnseen DEF LeaseLapse
<1>9. CASE LockLapse
  <2>1. \A t \in Tasks : (pc'[t] # "unused") = (pc[t] # "unused")
    BY <1>9 DEF LockLapse, IInv, TypeOK
  <2>2. Redelivered' = Redelivered
    BY <2>1 DEF Redelivered
  <2> QED
    BY <1>9, <2>2, StandIsUnseen DEF LockLapse
<1>10. CASE UNCHANGED vars
  BY <1>0, <1>10, StandIsUnseen DEF vars
<1> QED
  BY <1>1, <1>2, <1>3, <1>4, <1>5, <1>6, <1>7, <1>8, <1>9, <1>10 DEF Next

\* The system starts where the contract does.
LEMMA InitIsContractInit == Init => Contract!ContractInit
<1> SUFFICES ASSUME Init PROVE Contract!ContractInit
  OBVIOUS
<1>1. \A e \in Executions : ReportOf(row[e].state) = "unknown"
  BY DEF Init, NoRow, ReportOf
<1>2. \A e \in Executions : OutcomeOf(e) = "none"
  BY OutcomeNone DEF Init, Sent
<1>3. Redelivered = {}
  BY DEF Init, Redelivered
<1> QED
  BY <1>1, <1>2, <1>3 DEF Contract!ContractInit

\* Tasks, leases, versions, locks and crashes implement the promise made to the consumer:
\* one payment at most and none while the report says not paid, that report final unless
\* a second delivery was out when it was made, and verdicts that are the chain's and stay.
THEOREM Implements == Spec => ImplementsContract
<1>1. IInv /\ IInv' /\ NotYetSent /\ FailureHasEnded /\ [Next]_vars
         => [Contract!ContractNext]_Contract!contractVars
  BY StepIsAllowed DEF ContractStep
<1> QED
  BY <1>1, InitIsContractInit, Invariance, NothingSentEarly, FailureHasDelivery, PTL
     DEF Spec, ImplementsContract, Contract!ContractSpec
================================================================================
