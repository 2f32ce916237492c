------------------------------ MODULE BlockScanner ------------------------------
(***************************************************************************)
(* The block scanner of app/block_scanner.py: the thread that reads the     *)
(* chain block by block, notifies SHKeeper of transfers to watched          *)
(* addresses and queues what collects them, next to the API handler that    *)
(* issues addresses and to restarts of the process both live in.            *)
(*                                                                         *)
(* The blocks of a chunk are scanned by a pool of threads.  A chunk is       *)
(* committed only when all of its blocks were scanned; otherwise all of     *)
(* them are scanned again, the transfers already handled included.          *)
(***************************************************************************)
EXTENDS Naturals, FiniteSets

CONSTANTS
    Transfers,      \* transfers of succeeded transactions, one per Transfer log
    NoTransfer,
    Accounts,       \* addresses that may be issued as one-time accounts
    Main,           \* the fee-deposit address
    Foreign,        \* any other address
    Src, Dst,       \* [Transfers -> Accounts \cup {Main, Foreign}]
    TxOf,           \* the transaction of a transfer, named by one of its transfers
    SymbolOf,       \* [Transfers -> {"TRX", "USDT", "TOKEN"}]; USDT is guarded
    Small,          \* transfers below the flow's threshold: the minimal sweep of TRX in
                    \* the default flow, min_check_amount in the AML flow
    Flow,           \* "default", or the split EXTERNAL_DRAIN_CONFIG enables: "aml", "regular"
    Listed,         \* symbols EXTERNAL_DRAIN_CONFIG lists under both aml and regular
    ChunkSize,      \* BLOCK_SCANNER_MAX_BLOCK_CHUNK_SIZE
    MaxHeight,      \* bound on the chain
    MaxArrivals,    \* bound on the transfers on it
    MaxFailures,    \* bound on failed calls of nodes, SHKeeper and the broker
    MaxRestarts     \* bound on restarts of the process

Address == Accounts \cup {Main, Foreign}
Heights == 1..MaxHeight

ASSUME ScannerAssumption ==
    /\ NoTransfer \notin Transfers
    /\ Main \notin Accounts /\ Foreign \notin Accounts /\ Main # Foreign
    /\ Src \in [Transfers -> Address] /\ Dst \in [Transfers -> Address]
    /\ SymbolOf \in [Transfers -> {"TRX", "USDT", "TOKEN"}]
    /\ TxOf \in [Transfers -> Transfers]
    /\ \A t, u \in Transfers : t # u /\ TxOf[t] = TxOf[u] => SymbolOf[t] # "TRX"
    /\ Small \subseteq Transfers
    /\ Flow \in {"default", "aml", "regular"}
    /\ Listed \subseteq {"TRX", "USDT", "TOKEN"}
    /\ ChunkSize \in Nat \ {0}
    /\ MaxHeight \in Nat /\ MaxArrivals \in Nat /\ MaxFailures \in Nat /\ MaxRestarts \in Nat

VARIABLES
    height,      \* head of the chain
    block,       \* the block of each transfer, 0 while it is not on the chain
    unseen,      \* transfers missing from the last download of their block (history)
    keys,        \* one-time accounts in the keys table
    known,       \* one-time accounts handed out to a customer
    watched,     \* WATCHED_ACCOUNTS
    seeded,      \* is last_seen_block_num in the settings table?
    last_seen,   \* last_seen_block_num
    start,       \* its first value (history)
    target,      \* last block of the chunk being scanned, 0 between chunks
    state,       \* per block, how far its scan is
    left,        \* per block, the transfers still to visit
    current,     \* per block, the transfer at hand
    notified,    \* transfers SHKeeper has been notified of
    rows,        \* per transfer, its rows in tron_aml_transactions, up to Several
    queued,      \* transfers whose sweep or payout was queued
    failures, restarts

vars == <<height, block, unseen, keys, known, watched, seeded, last_seen, start, target,
          state, left, current, notified, rows, queued, failures, restarts>>

chain == <<height, block, unseen>>
issue == <<keys, known, watched>>
progress == <<seeded, last_seen, start, target>>
effects == <<notified, rows, queued>>

\* The bound on rows: two or more.
Several == 2

Visiting == {"next", "collect", "record", "queue"}
Scanned == {"true", "false"}

TypeOK ==
    /\ height \in 0..MaxHeight
    /\ block \in [Transfers -> 0..MaxHeight] /\ unseen \subseteq Transfers
    /\ keys \subseteq Accounts /\ known \subseteq Accounts
    /\ watched \subseteq Accounts \cup {Main}
    /\ seeded \in BOOLEAN
    /\ last_seen \in 0..MaxHeight /\ start \in 0..MaxHeight /\ target \in 0..MaxHeight
    /\ state \in [Heights -> {"none", "waiting", "infos"} \cup Visiting \cup Scanned]
    /\ left \in [Heights -> SUBSET Transfers]
    /\ current \in [Heights -> Transfers \cup {NoTransfer}]
    /\ notified \subseteq Transfers
    /\ rows \in [Transfers -> 0..Several]
    /\ queued \subseteq Transfers
    /\ failures \in Nat /\ restarts \in Nat

\* Where a process starts: create_app watches what the keys table holds.
Init ==
    /\ height = 0
    /\ block = [t \in Transfers |-> 0] /\ unseen = {}
    /\ keys = {} /\ known = {} /\ watched = {Main}
    /\ seeded = FALSE /\ last_seen = 0 /\ start = 0 /\ target = 0
    /\ state = [b \in Heights |-> "none"]
    /\ left = [b \in Heights |-> {}]
    /\ current = [b \in Heights |-> NoTransfer]
    /\ notified = {} /\ rows = [t \in Transfers |-> 0] /\ queued = {}
    /\ failures = 0 /\ restarts = 0

--------------------------------------------------------------------------------
(* The chain and the API                                                    *)

\* A block, with transactions whose transfers are to and from addresses somebody has been
\* given.
Mine(txs) ==
    /\ height < MaxHeight
    /\ Cardinality({t \in Transfers : block[t] # 0} \cup txs) <= MaxArrivals
    /\ \A t \in txs : {u \in Transfers : TxOf[u] = TxOf[t]} \subseteq txs
    /\ \A t \in txs : /\ block[t] = 0
                      /\ {Src[t], Dst[t]} \cap Accounts \subseteq known
    /\ height' = height + 1
    /\ block' = [t \in Transfers |-> IF t \in txs THEN height + 1 ELSE block[t]]
    /\ UNCHANGED <<unseen, issue, progress, state, left, current, effects, failures,
                   restarts>>

\* generate_new_address: the INSERT ...
SaveKey(a) ==
    /\ a \notin keys
    /\ keys' = keys \cup {a}
    /\ UNCHANGED <<chain, known, watched, progress, state, left, current, effects,
                   failures, restarts>>

\* A mutant: the address is handed out first.
HandOutUnwatched(a) ==
    /\ a \in keys \ known
    /\ known' = known \cup {a}
    /\ UNCHANGED <<chain, keys, watched, progress, state, left, current, effects,
                   failures, restarts>>

\* ... then add_watched_account and the response.
HandOut(a) ==
    /\ a \in keys \ watched
    /\ watched' = watched \cup {a}
    /\ known' = known \cup {a}
    /\ UNCHANGED <<chain, keys, progress, state, left, current, effects, failures, restarts>>

--------------------------------------------------------------------------------
(* The loop of the scanner: BlockScanner.__call__                           *)

\* The first get_last_seen_block_num stores a hint or the height of the node.
Seed(n) ==
    /\ ~seeded
    /\ n <= height
    /\ seeded' = TRUE /\ last_seen' = n /\ start' = n
    /\ UNCHANGED <<chain, issue, target, state, left, current, effects, failures, restarts>>

Smaller(m, n) == IF m <= n THEN m ELSE n

\* A mutant: the last block of the chunk is left out.
ChunkEndExclusive(nodeHeight) == Smaller(last_seen + ChunkSize, nodeHeight - 1)

\* range(next_block, target_block + 1): one block more than ChunkSize, as far as the node goes.
ChunkEnd(nodeHeight) == Smaller(last_seen + 1 + ChunkSize, nodeHeight)

\* A mutant: the chunk starts at the last block committed.
BeginChunkInclusive(nodeHeight) ==
    /\ seeded /\ target = 0
    /\ last_seen < nodeHeight /\ nodeHeight <= height
    /\ target' = ChunkEnd(nodeHeight)
    /\ state' = [b \in Heights |->
                    IF last_seen <= b /\ b <= ChunkEnd(nodeHeight) THEN "waiting" ELSE "none"]
    /\ UNCHANGED <<chain, issue, seeded, last_seen, start, left, current, effects,
                   failures, restarts>>

\* get_blocks.  A node that has nothing new, or lags behind, makes the loop wait.
BeginChunk(nodeHeight) ==
    /\ seeded /\ target = 0
    /\ last_seen < nodeHeight /\ nodeHeight <= height
    /\ target' = ChunkEnd(nodeHeight)
    /\ state' = [b \in Heights |->
                    IF last_seen < b /\ b <= ChunkEnd(nodeHeight) THEN "waiting" ELSE "none"]
    /\ UNCHANGED <<chain, issue, seeded, last_seen, start, left, current, effects,
                   failures, restarts>>

InChunk(b) == last_seen < b /\ b <= target

\* A mutant: the results of the blocks are not looked at.
CommitsAnyway == TRUE

\* all(results)
Commits == \A b \in Heights : InChunk(b) => state[b] = "true"

\* executor.map has returned: the chunk is committed, or scanned again after a pause, as it
\* is when the UPDATE of the settings table fails.
EndChunk ==
    /\ target # 0
    /\ \A b \in Heights : InChunk(b) => state[b] \in Scanned
    /\ \/ Commits /\ last_seen' = target /\ UNCHANGED failures
       \/ ~Commits /\ UNCHANGED <<last_seen, failures>>
       \/ Commits /\ failures < MaxFailures /\ failures' = failures + 1 /\ UNCHANGED last_seen
    /\ target' = 0
    /\ state' = [b \in Heights |-> "none"]
    /\ left' = [b \in Heights |-> {}]
    /\ current' = [b \in Heights |-> NoTransfer]
    /\ UNCHANGED <<chain, issue, seeded, start, effects, restarts>>

--------------------------------------------------------------------------------
(* A thread of the pool: scan                                               *)

\* A mutant: what goes wrong is logged and passed over.
FailAsSuccess(b) ==
    /\ state' = [state EXCEPT ![b] = "true"]
    /\ left' = [left EXCEPT ![b] = {}]
    /\ current' = [current EXCEPT ![b] = NoTransfer]

\* scan returns False.
Fail(b) ==
    /\ state' = [state EXCEPT ![b] = "false"]
    /\ left' = [left EXCEPT ![b] = {}]
    /\ current' = [current EXCEPT ![b] = NoTransfer]

\* A call of a node, SHKeeper or the broker raises, one of a bounded number.
CallFails(b) ==
    /\ failures < MaxFailures
    /\ failures' = failures + 1
    /\ Fail(b)

\* The transfer at hand is dealt with; the thread goes on with the others of its block.
GoOn(b) ==
    /\ state' = [state EXCEPT ![b] = "next"]
    /\ current' = [current EXCEPT ![b] = NoTransfer]
    /\ UNCHANGED left

Of(b) == {t \in Transfers : block[t] = b}

\* A thread of the pool takes up the block and downloads it (download_block); a node that
\* does not have it raises.  A block without transactions is done with.
DownloadBlock(b) ==
    /\ state[b] = "waiting"
    /\ Cardinality({c \in Heights : state[c] \in Visiting \cup {"infos"}}) < ChunkSize
    /\ \/ /\ state' = [state EXCEPT ![b] = "infos"]
          /\ UNCHANGED <<left, current, failures>>
       \/ /\ Of(b) = {}
          /\ state' = [state EXCEPT ![b] = "true"]
          /\ UNCHANGED <<left, current, failures>>
       \/ CallFails(b)
    /\ UNCHANGED <<chain, issue, progress, effects, restarts>>

\* What the infos of a block may lack: nothing, or, where the node asked now is behind the
\* one that had the block and answers [], every transfer that is read from a log.
Missing(b) == {{}, {t \in Of(b) : SymbolOf[t] # "TRX"}}

\* The second call of the scan, to whichever node is selected by now
\* (download_tx_info_by_block_num).  A transaction without its info is passed over.
DownloadInfos(b) ==
    /\ state[b] = "infos"
    /\ \/ \E missing \in Missing(b) :
             /\ state' = [state EXCEPT ![b] = "next"]
             /\ left' = [left EXCEPT ![b] = Of(b) \ missing]
             /\ unseen' = (unseen \ Of(b)) \cup missing
             /\ UNCHANGED <<current, failures>>
       \/ CallFails(b) /\ UNCHANGED unseen
    /\ UNCHANGED <<height, block, issue, progress, effects, restarts>>

\* A mutant: fee-deposit transfers of every token are ignored, and so is what others send.
IsConcernedNoTrx(t) == Dst[t] \in watched /\ SymbolOf[t] # "TRX"

\* Transfers to a watched address, without the default flow's own funding of accounts.
IsConcerned(t) ==
    /\ Dst[t] \in watched
    /\ ~(Flow = "default" /\ SymbolOf[t] = "TRX" /\ Src[t] = Main)

Skip(b, t) ==
    /\ state[b] = "next"
    /\ t \in left[b]
    /\ ~IsConcerned(t)
    /\ left' = [left EXCEPT ![b] = @ \ {t}]
    /\ UNCHANGED <<chain, issue, progress, state, current, effects, failures, restarts>>

\* notify_shkeeper: SHKeeper may have taken a notification whose answer is an error.
Notify(b, t) ==
    /\ state[b] = "next"
    /\ t \in left[b]
    /\ IsConcerned(t)
    /\ \/ /\ notified' = notified \cup {t}
          /\ state' = [state EXCEPT ![b] = IF Flow = "default" THEN "collect" ELSE "record"]
          /\ left' = [left EXCEPT ![b] = @ \ {t}]
          /\ current' = [current EXCEPT ![b] = t]
          /\ UNCHANGED failures
       \/ notified' \in {notified, notified \cup {t}} /\ CallFails(b)
    /\ UNCHANGED <<chain, issue, progress, rows, queued, restarts>>

\* The sweep or payout is queued, or the broker cannot be reached.
Enqueue(b) ==
    \/ queued' = queued \cup {current[b]} /\ GoOn(b) /\ UNCHANGED failures
    \/ CallFails(b) /\ UNCHANGED queued

Leave(b) == GoOn(b) /\ UNCHANGED <<queued, failures>>

\* The default flow: sweep the deposit, unless SHKeeper refuses or it is too small.
Collect(b) ==
    /\ state[b] = "collect"
    /\ CASE SymbolOf[current[b]] = "USDT" -> Enqueue(b) \/ Leave(b)
         [] SymbolOf[current[b]] = "TOKEN" -> Enqueue(b)
         [] OTHER -> IF current[b] \in Small THEN Leave(b) ELSE Enqueue(b)
    /\ UNCHANGED <<chain, issue, progress, notified, rows, restarts>>

IsDeposit(t) == Main \notin {Src[t], Dst[t]} /\ Src[t] \notin watched

\* add_transaction_to_db inserts a row.
AddRow(b, next) ==
    /\ rows' = [rows EXCEPT ![current[b]] = Smaller(@ + 1, Several)]
    /\ state' = [state EXCEPT ![b] = next]
    /\ UNCHANGED <<left, current>>

\* Deposits add_transaction_to_db has a row for, and those of them it cannot build it for.
Recordable == {t \in Transfers : SymbolOf[t] \in Listed}
Broken == IF Flow = "aml" THEN Recordable \cap Small ELSE {}

\* A mutant: a row that could not be written is passed over.
RecordDepositAnyway(b) ==
    \/ current[b] \in Recordable \ Broken /\ AddRow(b, "queue") /\ UNCHANGED failures
    \/ current[b] \in Broken /\ Fail(b) /\ UNCHANGED <<rows, failures>>
    \/ /\ current[b] \in Recordable => failures < MaxFailures
       /\ failures' = IF current[b] \in Recordable THEN failures + 1 ELSE failures
       /\ state' = [state EXCEPT ![b] = "queue"]
       /\ UNCHANGED <<rows, left, current>>

\* add_transaction_to_db for a deposit.  Below min_check_amount the row has no ttype, which
\* raises; the broker (a check is queued first) or the database may fail; a symbol that
\* either of the two lists of the configuration lacks gets no row.
RecordDeposit(b) ==
    \/ current[b] \in Recordable \ Broken /\ AddRow(b, "queue") /\ UNCHANGED failures
    \/ current[b] \in Broken /\ Fail(b) /\ UNCHANGED <<rows, failures>>
    \/ current[b] \in Recordable /\ CallFails(b) /\ UNCHANGED rows
    \/ /\ current[b] \notin Recordable
       /\ state' = [state EXCEPT ![b] = "queue"]
       /\ UNCHANGED <<rows, left, current, failures>>

\* A transfer between own accounts: not recorded if it is guarded, an exception otherwise.
RecordOther(b) ==
    /\ IF SymbolOf[current[b]] = "USDT" THEN GoOn(b) ELSE Fail(b)
    /\ UNCHANGED <<rows, failures>>

\* The customized flow: record the transfer.
Record(b) ==
    /\ state[b] = "record"
    /\ IF IsDeposit(current[b]) THEN RecordDeposit(b)
       ELSE IF Src[current[b]] = Main                            \* from_fee
            THEN \/ AddRow(b, "next") /\ UNCHANGED failures
                 \/ CallFails(b) /\ UNCHANGED rows
            ELSE RecordOther(b)
    /\ UNCHANGED <<chain, issue, progress, notified, queued, restarts>>

\* _mark_transaction_status takes the first row of the transaction.
HasRowToMark(t) == \E u \in Transfers : TxOf[u] = TxOf[t] /\ rows[u] > 0

\* The customized flow: queue the payout, if it is unguarded or SHKeeper allows it and
\* there is a row to mark as ready.
Queue(b) ==
    /\ state[b] = "queue"
    /\ \/ (SymbolOf[current[b]] # "USDT" \/ HasRowToMark(current[b])) /\ Enqueue(b)
       \/ SymbolOf[current[b]] = "USDT" /\ Leave(b)
    /\ UNCHANGED <<chain, issue, progress, notified, rows, restarts>>

\* scan returns True.
Finish(b) ==
    /\ state[b] = "next"
    /\ left[b] = {}
    /\ state' = [state EXCEPT ![b] = "true"]
    /\ UNCHANGED <<chain, issue, progress, left, current, effects, failures, restarts>>

ScanStep(b) ==
    \/ DownloadBlock(b) \/ DownloadInfos(b) \/ Collect(b) \/ Record(b) \/ Queue(b)
    \/ Finish(b)
    \/ \E t \in Transfers : Skip(b, t) \/ Notify(b, t)

--------------------------------------------------------------------------------

\* The process dies and starts again: the chunk is forgotten, and create_app watches the
\* accounts of the keys table and the fee deposit.
Restart ==
    /\ restarts < MaxRestarts
    /\ restarts' = restarts + 1
    /\ watched' = keys \cup {Main}
    /\ target' = 0
    /\ state' = [b \in Heights |-> "none"]
    /\ left' = [b \in Heights |-> {}]
    /\ current' = [b \in Heights |-> NoTransfer]
    /\ UNCHANGED <<chain, keys, known, seeded, last_seen, start, effects, failures>>

Next ==
    \/ \E txs \in SUBSET Transfers : Mine(txs)
    \/ \E a \in Accounts : SaveKey(a) \/ HandOut(a)
    \/ \E n \in 0..MaxHeight : Seed(n) \/ BeginChunk(n)
    \/ \E b \in Heights : ScanStep(b)
    \/ EndChunk
    \/ Restart

Spec == Init /\ [][Next]_vars

\* The scanner's threads run, and a node with a new block is asked in the end.
Fairness ==
    /\ WF_vars(Seed(height)) /\ WF_vars(BeginChunk(height)) /\ WF_vars(EndChunk)
    /\ \A b \in Heights : WF_vars(ScanStep(b))

FairSpec == Spec /\ Fairness

--------------------------------------------------------------------------------
(* Safety                                                                   *)

\* What a customer pays to an address that was handed out.
Deposit(t) == Src[t] = Foreign /\ Dst[t] \in Accounts

Committed(t) == start < block[t] /\ block[t] <= last_seen

\* A block is left behind only when SHKeeper was notified of every deposit in it, whatever
\* failed, restarted or was issued meanwhile, but for the deposits a node held back when the
\* infos of their block were read for the last time.
CommittedIsNotified ==
    \A t \in Transfers : Deposit(t) /\ Committed(t) => t \in notified \cup unseen

\* In the default flow a deposit nobody may refuse is queued for collection by then; in the
\* customized one it has a row for the AML tasks to work on, or its payout is queued.  The
\* deposits held back are left out as above.
MustBeQueued(t) == SymbolOf[t] = "TOKEN" \/ (SymbolOf[t] = "TRX" /\ t \notin Small)

Collected(t) ==
    IF Flow = "default" THEN MustBeQueued(t) => t \in queued
    ELSE IF t \in Recordable THEN rows[t] > 0
    ELSE SymbolOf[t] # "USDT" => t \in queued

CommittedIsCollected ==
    \A t \in Transfers : Deposit(t) /\ Committed(t) => Collected(t) \/ t \in unseen

\* What the customized flow raises an exception for whenever it is scanned: a deposit it has
\* no row for, and an unguarded transfer that is neither a deposit nor from the fee deposit.
Unacceptable(t) ==
    /\ Flow # "default"
    /\ IF Deposit(t) THEN t \in Broken
       ELSE Dst[t] \in watched /\ Src[t] # Main /\ SymbolOf[t] # "USDT"

\* check_transaction reads the row of an address and a transaction with .one().
SameKey(t, u) == TxOf[t] = TxOf[u] /\ Dst[t] = Dst[u]

IsTheOne(t) ==
    rows[t] = 1 /\ \A u \in Transfers \ {t} : SameKey(t, u) => rows[u] = 0

\* That read raises for a recorded transfer only if a failure, a restart or a transfer the
\* flow does not accept had a chunk scanned again, or if the transfer, itself recorded once,
\* shares its transaction and its address with another log that has a row.
RecordedTwiceIsRescanned ==
    \A t \in Transfers :
        rows[t] > 0 /\ ~IsTheOne(t) =>
            \/ failures > 0 \/ restarts > 0
            \/ \E u \in Transfers : block[u] # 0 /\ Unacceptable(u)
            \/ rows[t] = 1 /\ \E u \in Transfers \ {t} : SameKey(t, u) /\ rows[u] > 0

\* The scanner moves on by whole chunks and never back: what it leaves behind it has scanned
\* to the end in the chunk it commits.
ScannedBeforeCommit ==
    [][seeded => /\ last_seen' >= last_seen
                 /\ \A b \in Heights : last_seen < b /\ b <= last_seen' => state[b] = "true"]_vars

--------------------------------------------------------------------------------
(* The inductive invariant behind the safety properties                     *)

\* The chunk lies between the last block committed and the head.
ChunkInv ==
    /\ start <= last_seen /\ last_seen <= height
    /\ target # 0 => seeded /\ last_seen < target /\ target <= height
    /\ \A t \in Transfers : block[t] <= height
    /\ \A b \in Heights : state[b] # "none" => target # 0 /\ InChunk(b)

\* The address of a deposit was watched before it could be known.
WatchInv ==
    /\ known \subseteq watched
    /\ known \subseteq keys
    /\ Main \in watched
    /\ watched \subseteq keys \cup {Main}
    /\ Foreign \notin watched
    /\ \A t \in Transfers : Deposit(t) /\ block[t] # 0 => Dst[t] \in known

\* A thread visits the transfers of its block, and has one of them at hand from the
\* notification to the end of its collection.
ThreadAt(b) ==
    /\ \A t \in left[b] : block[t] = b
    /\ state[b] \in {"collect", "record", "queue"} =>
          current[b] \in Transfers /\ block[current[b]] = b /\ current[b] \in notified
    /\ state[b] = "collect" => Flow = "default"
    /\ state[b] \in {"record", "queue"} => Flow # "default"
    /\ state[b] = "queue" /\ current[b] \in Recordable => rows[current[b]] > 0

ThreadInv == \A b \in Heights : ThreadAt(b)

\* Every deposit of a block being scanned is still to visit, at hand, dealt with, or was held
\* back when the infos of the block were read.
Visited(b, t) ==
    \/ state[b] # "true" /\ t \in left[b]
    \/ state[b] \in {"collect", "record", "queue"} /\ t = current[b]
    \/ t \in notified /\ Collected(t)
    \/ t \in unseen

VisitAt(b) ==
    state[b] \in Visiting \cup {"true"} =>
        \A t \in Transfers : Deposit(t) /\ block[t] = b => Visited(b, t)

VisitInv == \A b \in Heights : VisitAt(b)

IInv ==
    /\ TypeOK
    /\ ChunkInv
    /\ WatchInv
    /\ ThreadInv
    /\ VisitInv
    /\ CommittedIsNotified
    /\ CommittedIsCollected

--------------------------------------------------------------------------------
(* Liveness, under Fairness                                                 *)

\* Once the failures have stopped, the scanner catches up with every block, whatever it has
\* notified, recorded and queued before: only a transfer its flow does not accept holds it up,
\* in this block, an earlier one or a later one of a chunk they share.
EveryBlockIsScanned ==
    \A h \in Heights :
        height >= h ~> \/ last_seen >= h
                       \/ \E t \in Transfers :
                              start < block[t] /\ block[t] <= h + ChunkSize /\ Unacceptable(t)

\* What the documentation says of the customized flow: the notification of a transfer is
\* followed by its row in tron_aml_transactions (.planning/codebase/ARCHITECTURE.md).
NotifiedIsRecorded ==
    \A t \in Recordable : t \in notified ~> rows[t] > 0
================================================================================
