------------------------- MODULE DepositCollection -------------------------
(***************************************************************************)
(* How the deposits on one one-time account leave it: app/custom/aml/ (an   *)
(* external drain pays shares of a deposit to outside addresses, after an   *)
(* AML verdict or by a regular split), the sweeps of app/tasks.py (the      *)
(* whole balance to the main account, behind SHKeeper's sweep gate for a    *)
(* guarded symbol), and what the block scanner does on meeting a deposit.   *)
(* The steps are Celery tasks on several workers.                           *)
(***************************************************************************)
EXTENDS Naturals, FiniteSets, Sequences

CONSTANTS
    Deposits,     \* transactions that pay the one-time account
    Workers,      \* slots of the Celery workers
    Dests,        \* the outside addresses of EXTERNAL_DRAIN_CONFIG
    Levels,       \* the risk levels of its AML check
    Regular,      \* the name of its regular split
    Split,        \* the addresses of each level and of the regular split
    Amount,       \* what each deposit brings
    Threshold,    \* get_min_transfer_threshold of a token, TRX_MIN_TRANSFER_THRESHOLD
    NoDeposit, NoLevel, NoDest,
    MaxFaults     \* bound on crashes, lost answers, rescans and new scores

ASSUME CollectionAssumption ==
    /\ Regular \notin Levels /\ NoLevel \notin Levels \cup {Regular}
    /\ NoDeposit \notin Deposits /\ NoDest \notin Dests
    /\ IsFiniteSet(Dests)
    /\ Split \in [Levels \cup {Regular} -> (SUBSET Dests) \ {{}}]
    /\ Amount \in Nat /\ Threshold \in Nat /\ MaxFaults \in Nat

\* The two drains to outside addresses, and the two sweeps to the main account.
\* "guarded" is USDT next to an AML check: its rows have the type "aml".
Flows == {"aml", "regular", "guarded", "default"}

\* sweep_accounts and the TRX tasks pass by an empty account and by one whose
\* balance is below the threshold.
Worth(n) == n > 0 /\ n >= Threshold

\* Tasks: run_payout_for_tx, check_transaction, recheck_transaction,
\* transfer_trc20_from or transfer_trx_from, scan_accounts.
Messages == [kind : {"payout", "check", "recheck", "transfer"}, dep : Deposits]
            \cup [kind : {"scan"}, dep : {NoDeposit}]
Message(k, d) == [kind |-> k, dep |-> d]

VARIABLES
    flow,      \* how the symbol's deposits are collected in this deployment
    token,     \* a TRC20 token, or TRX
    arrived,   \* deposits on the chain
    held,      \* the account's balance
    paid,      \* history: transfers of a deposit to a destination, on chain
    rows,      \* tron_aml_transactions, the rows of a deposit in order
    payouts,   \* tron_aml_payouts: the destinations a deposit has a row for
    verdict,   \* the level the AML service found for a deposit
    queue,     \* task messages at the broker
    job,       \* per worker, its task
    faults,
    excused    \* history: deposits whose exclusion or record was lost (below)

vars == <<flow, token, arrived, held, paid, rows, payouts, verdict, queue, job, faults, excused>>
deployment == <<flow, token>>
money == <<arrived, held, paid>>
tables == <<rows, payouts>>
chance == <<faults, excused>>

Row(s, l) == [status |-> s, level |-> l]
RowSet == [status : {"pending", "rechecking", "ready"}, level : Levels \cup {NoLevel}]

Idle == [kind |-> "none", dep |-> NoDeposit, pc |-> "idle", level |-> NoLevel,
         plan |-> {}, dest |-> NoDest, amount |-> 0]

\* Past skip_if_running, in the body of run_payout_for_tx.
Draining == {"list", "balance", "pay", "record"}
Sweeping == {"gate", "read", "provision", "send"}
Pcs == {"idle", "inspect", "ask", "write", "delay", "mark", "scan", "busy", "allow"}
       \cup Draining \cup Sweeping
Jobs == [kind : {"none", "payout", "check", "recheck", "transfer", "scan"},
         dep : Deposits \cup {NoDeposit}, pc : Pcs, level : Levels \cup {NoLevel, Regular},
         plan : SUBSET Dests, dest : Dests \cup {NoDest}, amount : Nat]

TypeOK ==
    /\ flow \in Flows /\ token \in BOOLEAN
    /\ arrived \subseteq Deposits /\ held \in Nat
    /\ paid \in [Deposits -> [Dests -> Nat]]
    /\ rows \in [Deposits -> Seq(RowSet)]
    /\ payouts \in [Deposits -> SUBSET Dests]
    /\ verdict \in [Deposits -> Levels \cup {NoLevel}]
    /\ queue \subseteq Messages
    /\ job \in [Workers -> Jobs]
    /\ faults \in 0..MaxFaults /\ excused \subseteq Deposits

\* A guarded symbol (USDT) is a token; the gate lets every other one pass.
Init ==
    /\ flow \in Flows /\ token \in BOOLEAN /\ (flow = "guarded" => token)
    /\ arrived = {} /\ held \in {0, Amount}
    /\ paid = [d \in Deposits |-> [x \in Dests |-> 0]]
    /\ rows = [d \in Deposits |-> <<>>]
    /\ payouts = [d \in Deposits |-> {}]
    /\ verdict = [d \in Deposits |-> NoLevel]
    /\ queue = {} /\ job = [w \in Workers |-> Idle]
    /\ faults = 0 /\ excused = {}

(***************************************************************************)
(* The block scanner.                                                       *)
(***************************************************************************)
\* The sweep gate: "allow" or anything else, an error included.
Answers == BOOLEAN

MarkReady(t, d) == IF t[d] = <<>> THEN t ELSE [t EXCEPT ![d][1].status = "ready"]

\* queue_guarded_payout_if_allowed, with SHKeeper's answer: the first row of
\* the deposit becomes ready and the sweep is queued.
Guarded(t, d, allowed) ==
    /\ rows' = IF allowed THEN MarkReady(t, d) ELSE t
    /\ queue' = IF allowed /\ t[d] # <<>> THEN queue \cup {Message("payout", d)} ELSE queue

\* A block is scanned with deposit d in it; add_transaction_to_db appends a
\* row whatever is there, so that a block scanned again records d again.  The
\* default flow leaves TRX that is less than the threshold.
Record(d, allowed) ==
    LET recorded == [rows EXCEPT ![d] = Append(@, Row("pending", NoLevel))]
    IN  CASE flow = "aml" ->
               /\ rows' = recorded
               /\ queue' = queue \cup {Message("check", d), Message("payout", d)}
          [] flow = "regular" -> rows' = recorded /\ queue' = queue \cup {Message("payout", d)}
          [] flow = "guarded" -> Guarded(recorded, d, allowed)
          [] OTHER ->
               /\ queue' = IF (IF token THEN allowed ELSE Amount >= Threshold)
                           THEN queue \cup {Message("transfer", d)} ELSE queue
               /\ UNCHANGED rows

Deposit(d, allowed) ==
    /\ d \notin arrived
    /\ arrived' = arrived \cup {d} /\ held' = held + Amount
    /\ Record(d, allowed)
    /\ UNCHANGED <<deployment, paid, payouts, verdict, job, chance>>

\* The scanner stops between the row and last_seen_block: the block again.
Rescan(d, allowed) ==
    /\ d \in arrived /\ faults < MaxFaults
    /\ faults' = faults + 1
    /\ Record(d, allowed)
    /\ UNCHANGED <<deployment, money, payouts, verdict, job, excused>>

(***************************************************************************)
(* Beat.  One action is one round of a periodic task's loop: the loop may   *)
(* be cut short anywhere, and reads nothing it keeps for a later round.     *)
(***************************************************************************)
SweepAccounts(d, allowed) ==
    /\ flow \in {"aml", "regular", "guarded"} /\ rows[d] # <<>> /\ Worth(held)
    /\ Message("payout", d) \notin queue
    /\ IF flow = "guarded" THEN allowed /\ Guarded(rows, d, TRUE)
       ELSE queue' = queue \cup {Message("payout", d)} /\ UNCHANGED rows
    /\ UNCHANGED <<deployment, money, payouts, verdict, job, chance>>

RecheckTransactions(d, k) ==
    /\ flow \in {"aml", "guarded"}
    /\ \E i \in DOMAIN rows[d] :
         rows[d][i].status = (IF k = "check" THEN "pending" ELSE "rechecking")
    /\ Message(k, d) \notin queue
    /\ queue' = queue \cup {Message(k, d)}
    /\ UNCHANGED <<deployment, money, tables, verdict, job, chance>>

RescanAccounts ==
    /\ flow = "default" /\ Message("scan", NoDeposit) \notin queue
    /\ queue' = queue \cup {Message("scan", NoDeposit)}
    /\ UNCHANGED <<deployment, money, tables, verdict, job, chance>>

(***************************************************************************)
(* A worker's task.                                                         *)
(***************************************************************************)
Goes(w, p) == job' = [job EXCEPT ![w].pc = p]
Ends(w) == job' = [job EXCEPT ![w] = Idle]

\* transfer_trc20_from asks the gate first, transfer_trx_from looks at the
\* account's free bandwidth.
SweepStart == IF token THEN "gate" ELSE "provision"

Take(w, m) ==
    /\ job[w].pc = "idle" /\ m \in queue
    /\ queue' = queue \ {m}
    /\ job' = [job EXCEPT ![w] = [Idle EXCEPT !.kind = m.kind, !.dep = m.dep,
                 !.pc = IF m.kind = "transfer" THEN SweepStart ELSE "inspect"]]
    /\ UNCHANGED <<deployment, money, tables, verdict, chance>>

\* Mutant: active() gives the arguments in another type, nothing is a twin.
NeverTwin(w) == FALSE

\* An active task of the same name and arguments.
Twin(w) == \E v \in Workers \ {w} :
             job[v].pc # "idle" /\ job[v].kind = job[w].kind /\ job[v].dep = job[w].dep

FirstStep(k) ==
    CASE k = "payout" -> IF flow = "guarded" THEN "gate" ELSE "list"
      [] k = "scan"   -> "scan"
      [] OTHER        -> IF flow = "guarded" THEN "mark" ELSE "ask"

\* skip_if_running asks the workers what they run.
Inspect(w) ==
    /\ job[w].pc = "inspect" /\ ~Twin(w)
    /\ Goes(w, FirstStep(job[w].kind))
    /\ UNCHANGED <<deployment, money, tables, verdict, queue, chance>>

Skip(w) ==
    /\ job[w].pc = "inspect" /\ Twin(w)
    /\ Ends(w)
    /\ UNCHANGED <<deployment, money, tables, verdict, queue, chance>>

\* The answer comes too late: active() is None, and the task goes ahead.
InspectLost(w) ==
    /\ job[w].pc = "inspect" /\ Twin(w) /\ faults < MaxFaults
    /\ Goes(w, FirstStep(job[w].kind))
    /\ faults' = faults + 1
    /\ excused' = excused \cup ({job[w].dep} \cap Deposits)
    /\ UNCHANGED <<deployment, money, tables, verdict, queue>>

Crash(w) ==
    /\ job[w].pc # "idle" /\ faults < MaxFaults
    /\ Ends(w)
    /\ faults' = faults + 1
    /\ excused' = IF job[w].pc = "record" THEN excused \cup {job[w].dep} ELSE excused
    /\ UNCHANGED <<deployment, money, tables, verdict, queue>>

(***************************************************************************)
(* check_transaction and recheck_transaction.                               *)
(***************************************************************************)
\* The AML service answers with a level, "pending" (NoLevel) or an error.
\* The level stays, except where the service finds another one later.
AskScore(w, l) ==
    /\ job[w].pc = "ask"
    /\ verdict[job[w].dep] \in {NoLevel, l}
    /\ verdict' = [verdict EXCEPT ![job[w].dep] = l]
    /\ job' = [job EXCEPT ![w].pc = "write", ![w].level = l]
    /\ UNCHANGED <<deployment, money, tables, queue, chance>>

AskNewScore(w, l) ==
    /\ job[w].pc = "ask" /\ faults < MaxFaults
    /\ verdict[job[w].dep] \notin {NoLevel, l}
    /\ verdict' = [verdict EXCEPT ![job[w].dep] = l]
    /\ job' = [job EXCEPT ![w].pc = "write", ![w].level = l]
    /\ faults' = faults + 1 /\ excused' = excused \cup {job[w].dep}
    /\ UNCHANGED <<deployment, money, tables, queue>>

AskPending(w) ==
    /\ job[w].pc = "ask"
    /\ \/ job' = [job EXCEPT ![w].pc = "write", ![w].level = NoLevel]
       \/ Ends(w)
    /\ UNCHANGED <<deployment, money, tables, verdict, queue, chance>>

\* Mutant: the answer is taken as final, "pending" or not.
CheckedReady(l) == Row("ready", l)

\* What becomes of the row: a "pending" answer is asked for again.
Checked(l) == Row(IF l = NoLevel THEN "rechecking" ELSE "ready", l)

\* The answer is written to the deposit's row, whatever was written since
\* the question: check_transaction raises unless there is exactly one row,
\* recheck_transaction takes the first.
WriteVerdict(w) ==
    LET d == job[w].dep  l == job[w].level
        found == IF job[w].kind = "check" THEN Len(rows[d]) = 1 ELSE rows[d] # <<>>
    IN  /\ job[w].pc = "write"
        /\ IF found
           THEN /\ rows' = [rows EXCEPT ![d][1] = Checked(l)]
                /\ IF l = NoLevel THEN Ends(w) ELSE Goes(w, "delay")
           ELSE Ends(w) /\ UNCHANGED rows
        /\ UNCHANGED <<deployment, money, payouts, verdict, queue, chance>>

QueuePayout(w) ==
    /\ job[w].pc = "delay"
    /\ queue' = queue \cup {Message("payout", job[w].dep)}
    /\ Ends(w)
    /\ UNCHANGED <<deployment, money, tables, verdict, chance>>

\* For a guarded symbol both tasks ask the gate in place of the AML service.
Mark(w, allowed) ==
    /\ job[w].pc = "mark"
    /\ Guarded(rows, job[w].dep, allowed)
    /\ Ends(w)
    /\ UNCHANGED <<deployment, money, payouts, verdict, chance>>

(***************************************************************************)
(* run_payout_for_tx: AmlWallet.payout_for_tx.                              *)
(***************************************************************************)
\* Mutant: a deposit that is not ready falls through to the regular split.
SplitUnready(d) ==
    IF rows[d] = <<>> THEN NoLevel
    ELSE IF rows[d][1].status = "ready" THEN rows[d][1].level ELSE Regular
\* build_payout_list: the destinations of the first row that have no payout.
ListLevel(d) ==
    IF rows[d] = <<>> THEN NoLevel
    ELSE IF flow = "regular" THEN Regular
    ELSE IF rows[d][1].status = "ready" THEN rows[d][1].level ELSE NoLevel
PayoutList(d) == IF ListLevel(d) = NoLevel THEN {} ELSE Split[ListLevel(d)] \ payouts[d]

\* The amounts come from the whole list, the last address taking the rest.
Share(l) == Amount \div Cardinality(Split[l])

BuildPayoutList(w) ==
    /\ job[w].pc = "list"
    /\ LET p == PayoutList(job[w].dep)
           l == ListLevel(job[w].dep)
       IN  IF p = {} THEN Ends(w)
           ELSE job' = [job EXCEPT ![w] = [@ EXCEPT !.pc = "balance", !.plan = p, !.level = l]]
    /\ UNCHANGED <<deployment, money, tables, verdict, queue, chance>>

\* The balance must reach the threshold.  TRX: the list must fit it.  A token:
\* the main account pays for the transfers' fees.
CheckBalance(w) ==
    /\ job[w].pc = "balance"
    /\ held >= Threshold
    /\ token \/ Cardinality(job[w].plan) * Share(job[w].level) <= held
    /\ Goes(w, "pay")
    /\ UNCHANGED <<deployment, money, tables, verdict, queue, chance>>

LeaveBalance(w) ==
    /\ job[w].pc = "balance"
    /\ \/ held < Threshold
       \/ token \/ Cardinality(job[w].plan) * Share(job[w].level) > held
    /\ Ends(w)
    /\ UNCHANGED <<deployment, money, tables, verdict, queue, chance>>

Moves(w, x) ==
    LET s == Share(job[w].level)
    IN  /\ x \in job[w].plan /\ s <= held
        /\ held' = held - s
        /\ paid' = [paid EXCEPT ![job[w].dep][x] = @ + 1]
        /\ UNCHANGED arrived

Pay(w, x) ==
    /\ job[w].pc = "pay" /\ Moves(w, x)
    /\ job' = [job EXCEPT ![w] = [@ EXCEPT !.pc = "record", !.dest = x]]
    /\ UNCHANGED <<deployment, tables, verdict, queue, chance>>

\* The transfer is on its way and wait() raises: nothing tells of it.
PayUnseen(w, x) ==
    /\ job[w].pc = "pay" /\ faults < MaxFaults /\ Moves(w, x)
    /\ Ends(w)
    /\ faults' = faults + 1 /\ excused' = excused \cup {job[w].dep}
    /\ UNCHANGED <<deployment, tables, verdict, queue>>

\* A token transfer fails on chain: a row with status "error".
PayReverted(w, x) ==
    /\ job[w].pc = "pay" /\ token /\ x \in job[w].plan
    /\ job' = [job EXCEPT ![w] = [@ EXCEPT !.pc = "record", !.dest = x]]
    /\ UNCHANGED <<deployment, money, tables, verdict, queue, chance>>

\* ValidationError, or the node refuses.
PayRefused(w) ==
    /\ job[w].pc = "pay"
    /\ Ends(w)
    /\ UNCHANGED <<deployment, money, tables, verdict, queue, chance>>

WritePayout(w) ==
    LET rest == job[w].plan \ {job[w].dest}
    IN  /\ job[w].pc = "record"
        /\ payouts' = [payouts EXCEPT ![job[w].dep] = @ \cup {job[w].dest}]
        /\ IF rest = {} THEN Ends(w)
           ELSE job' = [job EXCEPT ![w] = [@ EXCEPT !.pc = "pay", !.plan = rest, !.dest = NoDest]]
        /\ UNCHANGED <<deployment, money, rows, verdict, queue, chance>>

(***************************************************************************)
(* The sweeps: transfer_trc20_from, transfer_trx_from, scan_accounts.       *)
(***************************************************************************)
Gate(w, allowed) ==
    /\ job[w].pc = "gate"
    /\ IF allowed THEN Goes(w, "read") ELSE Ends(w)
    /\ UNCHANGED <<deployment, money, tables, verdict, queue, chance>>

\* transfer_trc20_from wants more than the threshold.
ReadBalance(w) ==
    /\ job[w].pc = "read"
    /\ IF ~(IF token THEN held > Threshold ELSE Worth(held)) THEN Ends(w)
       ELSE job' = [job EXCEPT ![w] = [@ EXCEPT !.pc = IF token THEN "provision" ELSE "send",
                                                 !.amount = held]]
    /\ UNCHANGED <<deployment, money, tables, verdict, queue, chance>>

\* Activation, bandwidth, energy or the TRX to burn: there, or not.
Provision(w, ready) ==
    /\ job[w].pc = "provision"
    /\ IF ready THEN Goes(w, IF token THEN "send" ELSE "read") ELSE Ends(w)
    /\ UNCHANGED <<deployment, money, tables, verdict, queue, chance>>

\* The balance read before, to the main account.
Sweep(w) ==
    /\ job[w].pc = "send" /\ job[w].amount <= held
    /\ held' = held - job[w].amount
    /\ Ends(w)
    /\ UNCHANGED <<deployment, arrived, paid, tables, verdict, queue, chance>>

SweepFails(w) ==
    /\ job[w].pc = "send"
    /\ Ends(w)
    /\ UNCHANGED <<deployment, money, tables, verdict, queue, chance>>

\* scan_accounts reads the balance until a node answers (`while ret := 0 < n`
\* counts nothing), passes by an account that a task transfer_trc20_from
\* works on, asks the gate and runs the transfer within its own task.
ScanBalance(w) ==
    /\ job[w].pc = "scan"
    /\ IF (IF token THEN held > 0 ELSE Worth(held)) THEN Goes(w, "busy") ELSE Ends(w)
    /\ UNCHANGED <<deployment, money, tables, verdict, queue, chance>>

ScanBusy(w) ==
    /\ job[w].pc = "busy"
    /\ IF token /\ \E v \in Workers : job[v].kind = "transfer" /\ job[v].pc # "idle"
       THEN Ends(w) ELSE Goes(w, IF token THEN "allow" ELSE SweepStart)
    /\ UNCHANGED <<deployment, money, tables, verdict, queue, chance>>

ScanAllowed(w, allowed) ==
    /\ job[w].pc = "allow"
    /\ IF allowed THEN Goes(w, SweepStart) ELSE Ends(w)
    /\ UNCHANGED <<deployment, money, tables, verdict, queue, chance>>

(***************************************************************************)
(* The specification.                                                       *)
(***************************************************************************)
Scanning == \E d \in Deposits, a \in Answers : Deposit(d, a) \/ Rescan(d, a)
Beat ==
    \/ \E d \in Deposits, a \in Answers : SweepAccounts(d, a)
    \/ \E d \in Deposits, k \in {"check", "recheck"} : RecheckTransactions(d, k)
    \/ RescanAccounts

Checking(w) ==
    \/ \E l \in Levels : AskScore(w, l) \/ AskNewScore(w, l)
    \/ AskPending(w) \/ WriteVerdict(w) \/ QueuePayout(w)
    \/ \E a \in Answers : Mark(w, a)

Drains(w) ==
    \/ BuildPayoutList(w) \/ CheckBalance(w) \/ LeaveBalance(w)
    \/ \E x \in Dests : Pay(w, x) \/ PayUnseen(w, x) \/ PayReverted(w, x)
    \/ PayRefused(w) \/ WritePayout(w)

Sweeps(w) ==
    \/ \E a \in Answers : Gate(w, a) \/ Provision(w, a) \/ ScanAllowed(w, a)
    \/ ReadBalance(w) \/ Sweep(w) \/ SweepFails(w) \/ ScanBalance(w) \/ ScanBusy(w)

Starting(w) ==
    \/ \E m \in queue : Take(w, m)
    \/ Inspect(w) \/ Skip(w) \/ InspectLost(w)

Work(w) == Starting(w) \/ Checking(w) \/ Drains(w) \/ Sweeps(w)

Next == Scanning \/ Beat \/ \E w \in Workers : Work(w) \/ Crash(w)

Spec == Init /\ [][Next]_vars

(***************************************************************************)
(* Properties.                                                              *)
(***************************************************************************)
\* No destination gets its share of a deposit twice, though the scanner,
\* two AML tasks and the periodic sweep each queue the drain, unless the
\* exclusion failed (no answer to the inspection), the first transfer left
\* no row (a crash, an exception from wait()) or the score changed.
PaidOnce ==
    \A d \in Deposits, x \in Dests : paid[d][x] > 1 => d \in excused

\* Money goes out only after the AML service has given the deposit a level,
\* and only to that level's addresses: check and recheck may write answers
\* late and out of order, and a drain may start from any of them.
DrainsFollowVerdict ==
    \A d \in Deposits, x \in Dests :
        (flow = "aml" /\ paid[d][x] > 0) =>
            \/ d \in excused
            \/ verdict[d] # NoLevel /\ x \in Split[verdict[d]]

\* No deposit that is drained is stranded, paid in part or not at all, where
\* no periodic task would come back to it: either every address of its split
\* has a row, or what it still owes is on the account and its first row (the
\* one all tasks go by) is in a status that one of them looks for, with a
\* balance the sweep of accounts takes up.  The balance may be too small for
\* that only if part of the deposit is paid (the rest is left until another
\* deposit comes) or if the deposit was too small to begin with.  Not so for
\* a deposit recorded twice before its check, which stays pending for ever
\* (check_transaction wants exactly one row), nor once a deposit whose drain
\* may be repeated has been drained: a share paid twice is another deposit's.
Drained == flow \in {"aml", "regular"}
Settled(d) ==
    IF flow = "regular" THEN Split[Regular] \subseteq payouts[d]
    ELSE verdict[d] # NoLevel /\ Split[verdict[d]] \subseteq payouts[d]
Owed(d, l) == Cardinality({x \in Split[l] : x \notin payouts[d] /\ paid[d][x] = 0}) * Share(l)
PartlyPaid(d) == \E x \in Dests : paid[d][x] > 0
TakenUp(d, l) ==
    /\ held >= Owed(d, l)
    /\ Worth(held) \/ PartlyPaid(d) \/ ~Worth(Amount)
Awaited(d) ==
    /\ rows[d] # <<>>
    /\ IF flow = "regular" THEN TakenUp(d, Regular)
       ELSE IF rows[d][1].status = "ready"
            THEN verdict[d] # NoLevel /\ rows[d][1].level = verdict[d] /\ TakenUp(d, verdict[d])
            ELSE Len(rows[d]) = 1
Overdrawn == \E e \in excused, x \in Dests : paid[e][x] > 0
NeverStranded ==
    Drained => \A d \in arrived :
        Settled(d) \/ Awaited(d) \/ d \in excused \/ Overdrawn \/ (flow = "aml" /\ Len(rows[d]) > 1)

(***************************************************************************)
(* The inductive invariant behind PaidOnce and DrainsFollowVerdict.         *)
(***************************************************************************)
Listed == {"balance", "pay", "record"}
Drain(w, d) == job[w].dep = d /\ job[w].pc \in Draining

Shape(j) ==
    /\ j.pc \in Draining => j.kind = "payout"
    /\ j.pc = "inspect" => j.kind \in {"payout", "check", "recheck", "scan"}
    /\ j.pc \in {"ask", "write", "delay", "mark"} => j.kind \in {"check", "recheck"}
    /\ j.pc \in {"write", "delay"} => j.level \in Levels \cup {NoLevel}
    /\ j.kind \in {"payout", "check", "recheck", "transfer"} => j.dep \in Deposits
    /\ j.pc \in Listed => j.level \in Levels \cup {Regular} /\ j.plan \subseteq Split[j.level]
    /\ j.pc = "record" => j.dest \in j.plan

\* One drain of a deposit at a time,
Exclusive(d) == \A v, w \in Workers : Drain(v, d) /\ Drain(w, d) => v = w

\* whose transfers have a row or are about to get one,
Counted(d) ==
    \A x \in Dests :
        \/ paid[d][x] = 0
        \/ /\ paid[d][x] = 1
           /\ x \in payouts[d] \/ \E w \in Workers :
                Drain(w, d) /\ job[w].pc = "record" /\ job[w].dest = x

\* and whose plan has nothing that has a row.
Unpaid(d) ==
    \A w \in Workers : Drain(w, d) /\ job[w].pc # "list" => job[w].plan \cap payouts[d] = {}

\* Whatever is known of a deposit's level is the service's answer.
Levelled(d) ==
    /\ rows[d] # <<>> => rows[d][1].level \in {NoLevel, verdict[d]}
    /\ \A w \in Workers : job[w].dep = d =>
         /\ job[w].pc \in {"write", "delay"} => job[w].level \in {NoLevel, verdict[d]}
         /\ job[w].pc \in Listed => job[w].level = verdict[d] /\ verdict[d] # NoLevel
    /\ \A x \in Dests : paid[d][x] > 0 => verdict[d] # NoLevel /\ x \in Split[verdict[d]]

Good(d) == Exclusive(d) /\ Counted(d) /\ Unpaid(d) /\ (flow = "aml" => Levelled(d))

IInv ==
    /\ TypeOK
    /\ \A w \in Workers : Shape(job[w])
    /\ \A d \in Deposits \ excused : Good(d)
=============================================================================
