----------------------------- MODULE PayoutContract -----------------------------
(***************************************************************************)
(* What the sidecar promises the consumer of a payout execution, without    *)
(* tasks, leases, versions or locks: at most one transaction per execution, *)
(* none while it is reported as not paid, a report that is true when it is  *)
(* made, and a chain verdict that stays.                                    *)
(*                                                                         *)
(* The promise is as weak as the code.  A flag for reconciliation may be    *)
(* taken back.  So may a report of FAILED_PRE_BROADCAST, and what was       *)
(* reported as not paid is then paid after all, but only when the execution *)
(* was handed to the workers more than once, and before that report: the    *)
(* failure of an execution delivered once is final.                         *)
(***************************************************************************)
CONSTANT Executions

VARIABLES
    report,    \* what a status call answers
    outcome,   \* what the chain holds of the execution's transaction
    repeated   \* the executions handed to the workers more than once

contractVars == <<report, outcome, repeated>>

Reports == {"unknown", "open", "notPaid", "reconcile", "confirmed", "chainFailed"}
Outcomes == {"none", "pending", "success", "confirmed", "reverted", "expired"}

ContractInit ==
    /\ report = [e \in Executions |-> "unknown"]
    /\ outcome = [e \in Executions |-> "none"]
    /\ repeated = {}

Report(e, r) ==
    /\ report' = [report EXCEPT ![e] = r]
    /\ UNCHANGED <<outcome, repeated>>

Register(e) == report[e] = "unknown" /\ Report(e, "open")

\* A repeated submit asks for an execution again that is neither over nor flagged.
Repeat(e) ==
    /\ report[e] = "open"
    /\ repeated' = repeated \cup {e}
    /\ UNCHANGED <<report, outcome>>

\* The only step that moves money, taken once, and never while the report is a failure.
Pay(e) ==
    /\ report[e] \in {"open", "reconcile"}
    /\ outcome[e] = "none"
    /\ outcome' = [outcome EXCEPT ![e] = "pending"]
    /\ UNCHANGED <<report, repeated>>

Settle(e) ==
    /\ \/ outcome[e] = "pending"
          /\ \E o \in {"success", "reverted", "expired"} :
                outcome' = [outcome EXCEPT ![e] = o]
       \/ outcome[e] = "success" /\ outcome' = [outcome EXCEPT ![e] = "confirmed"]
    /\ UNCHANGED <<report, repeated>>

ReportNotPaid(e) == report[e] = "open" /\ outcome[e] = "none" /\ Report(e, "notPaid")

Flag(e) == report[e] = "open" /\ Report(e, "reconcile")

\* Only a delivery besides the one that failed can go on after its report.
Reopen(e) ==
    /\ \/ report[e] = "reconcile"
       \/ report[e] = "notPaid" /\ e \in repeated
    /\ Report(e, "open")

ReportVerdict(e) ==
    /\ report[e] = "open"
    /\ \/ outcome[e] = "confirmed" /\ Report(e, "confirmed")
       \/ outcome[e] = "reverted" /\ Report(e, "chainFailed")

ContractNext ==
    \E e \in Executions :
        \/ Register(e) \/ Repeat(e) \/ Pay(e) \/ Settle(e) \/ ReportNotPaid(e)
        \/ Flag(e) \/ Reopen(e) \/ ReportVerdict(e)

ContractSpec == ContractInit /\ [][ContractNext]_contractVars
================================================================================
