-------------------------- MODULE MCPayoutExecution --------------------------
(* Instances of PayoutExecution for TLC: one execution with several          *)
(* deliveries, and a second execution submitted for the same external id.    *)
EXTENDS PayoutExecution, TLC

CONSTANTS e1, e2, t1, t2, t3, order1

OneExecution == {e1}
TwoExecutions == {e1, e2}
Orders == {order1}

OneOrder == [e \in OneExecution |-> order1]
SharedOrder == [e \in TwoExecutions |-> order1]

TwoTasks == {t1, t2}
ThreeTasks == {t1, t2, t3}

TwoForOne == [t \in TwoTasks |-> e1]
ThreeForOne == [t \in ThreeTasks |-> e1]
TwoAndOne == (t1 :> e1) @@ (t2 :> e1) @@ (t3 :> e2)

\* Deliveries of one execution are interchangeable (safety runs only).
TwoTaskSymmetry == Permutations(TwoTasks)
ThreeTaskSymmetry == Permutations(ThreeTasks)
==============================================================================
