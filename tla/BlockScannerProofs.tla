-------------------------- MODULE BlockScannerProofs --------------------------
(* Proofs of the safety properties of BlockScanner, for any transfers,        *)
(* accounts, chunk size, chain, failures and restarts, in each of the flows.  *)
EXTENDS BlockScanner, TLAPS

--------------------------------------------------------------------------------
(* Types                                                                    *)

\* The end of a chunk is at most one more than ChunkSize ahead, and never beyond the node.
LEMMA ChunkEndBounds ==
    ASSUME TypeOK, NEW n \in 0..MaxHeight, last_seen < n
    PROVE  ChunkEnd(n) \in 0..MaxHeight /\ last_seen < ChunkEnd(n) /\ ChunkEnd(n) <= n
BY ScannerAssumption DEF TypeOK, ChunkEnd, Smaller

\* A failing scan keeps the types.
LEMMA FailTypes ==
    ASSUME TypeOK, NEW b \in Heights, Fail(b)
    PROVE  /\ state' \in [Heights -> {"none", "waiting", "infos"} \cup Visiting \cup Scanned]
           /\ left' \in [Heights -> SUBSET Transfers]
           /\ current' \in [Heights -> Transfers \cup {NoTransfer}]
BY DEF TypeOK, Fail, Scanned

\* So does going on with the next transfer.
LEMMA GoOnTypes ==
    ASSUME TypeOK, NEW b \in Heights, GoOn(b)
    PROVE  /\ state' \in [Heights -> {"none", "waiting", "infos"} \cup Visiting \cup Scanned]
           /\ left' \in [Heights -> SUBSET Transfers]
           /\ current' \in [Heights -> Transfers \cup {NoTransfer}]
BY DEF TypeOK, GoOn, Visiting

\* And recording a row, which only adds to what there is.
LEMMA AddRowTypes ==
    ASSUME TypeOK, NEW b \in Heights, current[b] \in Transfers,
           NEW next \in {"next", "queue"}, AddRow(b, next)
    PROVE  /\ state' \in [Heights -> {"none", "waiting", "infos"} \cup Visiting \cup Scanned]
           /\ left' = left /\ current' = current
           /\ rows' \in [Transfers -> 0..Several]
           /\ \A t \in Transfers : rows[t] <= rows'[t]
           /\ rows'[current[b]] > 0
<1>1. /\ state' \in [Heights -> {"none", "waiting", "infos"} \cup Visiting \cup Scanned]
      /\ left' = left /\ current' = current
  BY DEF TypeOK, AddRow, Visiting
<1>2. rows[current[b]] \in 0..Several /\ Smaller(rows[current[b]] + 1, Several) \in 1..Several
      /\ rows[current[b]] <= Smaller(rows[current[b]] + 1, Several)
  BY DEF TypeOK, Smaller, Several
<1>3. rows' = [rows EXCEPT ![current[b]] = Smaller(rows[current[b]] + 1, Several)]
  BY DEF AddRow, TypeOK
<1>4. rows' \in [Transfers -> 0..Several] /\ rows'[current[b]] > 0
  BY <1>2, <1>3 DEF TypeOK, Several
<1>5. \A t \in Transfers : rows[t] <= rows'[t]
  BY <1>2, <1>3 DEF TypeOK, Several
<1> QED
  BY <1>1, <1>4, <1>5

--------------------------------------------------------------------------------
(* A step of one thread                                                     *)

\* What a thread does to the transfers of its block leaves the other blocks alone and undoes
\* nothing: it keeps the invariant when it keeps what the invariant says of its block.
LEMMA ThreadKeeps ==
    ASSUME IInv, TypeOK', NEW b \in Heights, state[b] # "none",
           UNCHANGED <<height, block, issue, progress>>,
           \A t \in unseen : block[t] # b => t \in unseen',
           \A c \in Heights \ {b} :
              state'[c] = state[c] /\ left'[c] = left[c] /\ current'[c] = current[c],
           notified \subseteq notified', queued \subseteq queued',
           \A t \in Transfers : rows[t] <= rows'[t],
           ThreadAt(b)', VisitAt(b)'
    PROVE  IInv'
<1> USE ScannerAssumption
<1>0. /\ TypeOK /\ ChunkInv /\ WatchInv /\ ThreadInv /\ VisitInv
      /\ CommittedIsNotified /\ CommittedIsCollected
  BY DEF IInv
<1>1. \A t \in Transfers : Collected(t) => Collected(t)'
  BY <1>0 DEF Collected, TypeOK
<1>2. ChunkInv'
  BY <1>0 DEF ChunkInv, InChunk, progress
<1>3. WatchInv'
  BY <1>0 DEF WatchInv, issue
<1>4. ThreadInv'
  <2>1. \A c \in Heights \ {b} : ThreadAt(c)'
    BY <1>0 DEF ThreadInv, ThreadAt, TypeOK
  <2> QED
    BY <2>1 DEF ThreadInv
<1>5. VisitInv'
  <2>1. \A c \in Heights \ {b} : VisitAt(c)'
    BY <1>0, <1>1 DEF VisitInv, VisitAt, Visited
  <2> QED
    BY <2>1 DEF VisitInv
<1>6. CommittedIsNotified' /\ CommittedIsCollected'
  <2>1. last_seen < b
    BY <1>0 DEF ChunkInv, InChunk
  <2>2. ASSUME NEW t \in Transfers, Committed(t)'
        PROVE  Committed(t) /\ (t \in unseen => t \in unseen')
    BY <1>0, <2>1, <2>2 DEF Committed, progress, TypeOK, Heights
  <2> QED
    BY <1>0, <1>1, <2>2 DEF CommittedIsNotified, CommittedIsCollected
<1> QED
  BY <1>2, <1>3, <1>4, <1>5, <1>6 DEF IInv

\* A scan that fails is a step of its thread.
LEMMA FailKeeps ==
    ASSUME IInv, NEW b \in Heights, state[b] # "none", Fail(b),
           UNCHANGED <<chain, issue, progress, rows, restarts>>,
           notified \subseteq notified', notified' \subseteq Transfers,
           queued \subseteq queued', queued' \subseteq Transfers, failures' \in Nat
    PROVE  IInv'
<1>1. TypeOK'
  <2>1. /\ state' \in [Heights -> {"none", "waiting", "infos"} \cup Visiting \cup Scanned]
        /\ left' \in [Heights -> SUBSET Transfers]
        /\ current' \in [Heights -> Transfers \cup {NoTransfer}]
    BY FailTypes DEF IInv
  <2> QED
    BY <2>1 DEF IInv, TypeOK, chain, issue, progress
<1>2. state'[b] = "false" /\ left'[b] = {}
  BY DEF Fail, IInv, TypeOK
<1>3. \A c \in Heights \ {b} :
          state'[c] = state[c] /\ left'[c] = left[c] /\ current'[c] = current[c]
  BY DEF Fail, IInv, TypeOK
<1>4. ThreadAt(b)' /\ VisitAt(b)'
  BY <1>2 DEF ThreadAt, VisitAt, Visiting
<1>5. \A t \in Transfers : rows[t] <= rows'[t]
  BY DEF IInv, TypeOK, Several
<1> QED
  BY <1>1, <1>3, <1>4, <1>5, ThreadKeeps DEF chain

\* So is going on with the next transfer, when the one at hand was notified and collected, or
\* is no deposit.
LEMMA GoOnKeeps ==
    ASSUME IInv, NEW b \in Heights, state[b] \in {"collect", "record", "queue"}, GoOn(b),
           UNCHANGED <<chain, issue, progress, notified, rows, restarts>>,
           queued \subseteq queued', queued' \subseteq Transfers, failures' \in Nat,
           \A t \in Transfers : t = current[b] /\ Deposit(t) => Collected(t)'
    PROVE  IInv'
<1>1. TypeOK'
  <2>1. /\ state' \in [Heights -> {"none", "waiting", "infos"} \cup Visiting \cup Scanned]
        /\ left' \in [Heights -> SUBSET Transfers]
        /\ current' \in [Heights -> Transfers \cup {NoTransfer}]
    BY GoOnTypes DEF IInv
  <2> QED
    BY <2>1 DEF IInv, TypeOK, chain, issue, progress
<1>2. state'[b] = "next" /\ left'[b] = left[b] /\ state[b] # "none"
  BY DEF GoOn, IInv, TypeOK
<1>3. \A c \in Heights \ {b} :
          state'[c] = state[c] /\ left'[c] = left[c] /\ current'[c] = current[c]
  BY DEF GoOn, IInv, TypeOK
<1>4. ThreadAt(b)'
  BY <1>2 DEF ThreadAt, IInv, ThreadInv, chain
<1>5. VisitAt(b)'
  <2> SUFFICES ASSUME NEW t \in Transfers, Deposit(t), block[t] = b PROVE Visited(b, t)'
    BY DEF VisitAt, chain
  <2>1. current[b] \in notified
    BY DEF IInv, ThreadInv, ThreadAt
  <2>2. t \in left[b] \/ t = current[b] \/ (t \in notified /\ Collected(t)) \/ t \in unseen
    BY DEF IInv, VisitInv, VisitAt, Visited, Visiting
  <2>3. Collected(t) => Collected(t)'
    BY DEF Collected
  <2> QED
    BY <1>2, <2>1, <2>2, <2>3 DEF Visited, chain
<1>6. \A t \in Transfers : rows[t] <= rows'[t]
  BY DEF IInv, TypeOK, Several
<1> QED
  BY <1>1, <1>2, <1>3, <1>4, <1>5, <1>6, ThreadKeeps DEF chain

\* Queueing the collection of the transfer at hand, or failing to.
LEMMA EnqueueKeeps ==
    ASSUME IInv, NEW b \in Heights, state[b] \in {"collect", "queue"}, Enqueue(b),
           state[b] = "queue" /\ current[b] \in Recordable => rows[current[b]] > 0,
           UNCHANGED <<chain, issue, progress, notified, rows, restarts>>
    PROVE  IInv'
<1>1. current[b] \in Transfers
  BY DEF IInv, ThreadInv, ThreadAt
<1>2. ASSUME queued' = queued \cup {current[b]}, GoOn(b), UNCHANGED failures PROVE IInv'
  <2>1. ASSUME NEW t \in Transfers, t = current[b] PROVE Collected(t)'
    BY <1>2, <2>1 DEF Collected, IInv, ThreadInv, ThreadAt
  <2>2. queued \subseteq queued' /\ queued' \subseteq Transfers /\ failures' \in Nat
    BY <1>1, <1>2 DEF IInv, TypeOK
  <2> QED
    BY <1>2, <2>1, <2>2, GoOnKeeps
<1>3. ASSUME CallFails(b), UNCHANGED queued PROVE IInv'
  BY <1>3, FailKeeps DEF CallFails, IInv, TypeOK
<1> QED
  BY <1>2, <1>3 DEF Enqueue

--------------------------------------------------------------------------------
(* The actions of a thread                                                  *)

\* A deposit on the chain goes to a watched address from elsewhere, and is a deposit to the
\* scanner in every flow.
LEMMA DepositIsConcerned ==
    ASSUME IInv, NEW t \in Transfers, Deposit(t), block[t] # 0
    PROVE  IsConcerned(t) /\ IsDeposit(t) /\ Src[t] # Main
BY ScannerAssumption DEF IInv, WatchInv, Deposit, IsConcerned, IsDeposit

\* A block that was downloaded waits for its infos, or has nothing in it.
LEMMA DownloadBlockKeeps ==
    ASSUME IInv, NEW b \in Heights, DownloadBlock(b)
    PROVE  IInv'
<1>0. UNCHANGED <<chain, issue, progress, effects, restarts>> /\ state[b] = "waiting"
  BY DEF DownloadBlock
<1>1. ASSUME NEW next \in {"infos", "true"}, state' = [state EXCEPT ![b] = next],
             next = "true" => Of(b) = {}, UNCHANGED <<left, current, failures>>
      PROVE  IInv'
  <2>1. TypeOK'
    BY <1>0, <1>1 DEF IInv, TypeOK, chain, issue, progress, effects, Scanned
  <2>2. state'[b] = next /\ \A c \in Heights \ {b} : state'[c] = state[c]
    BY <1>1 DEF IInv, TypeOK
  <2>3. ThreadAt(b)'
    BY <1>0, <1>1, <2>2 DEF ThreadAt, IInv, ThreadInv, chain
  <2>4. VisitAt(b)'
    BY <1>0, <1>1, <2>2 DEF VisitAt, Visiting, Of, chain
  <2>5. \A t \in Transfers : rows[t] <= rows'[t]
    BY <1>0 DEF IInv, TypeOK, Several, effects
  <2> QED
    BY <1>0, <1>1, <2>1, <2>2, <2>3, <2>4, <2>5, ThreadKeeps DEF effects, chain
<1>2. ASSUME CallFails(b) PROVE IInv'
  <2>1. Fail(b) /\ failures' \in Nat
    BY <1>2 DEF CallFails, IInv, TypeOK
  <2> QED
    BY <1>0, <2>1, FailKeeps DEF effects, IInv, TypeOK
<1> QED
  BY <1>1, <1>2 DEF DownloadBlock

\* The infos put every transfer of the block before the thread, but for those held back.
LEMMA DownloadInfosKeeps ==
    ASSUME IInv, NEW b \in Heights, DownloadInfos(b)
    PROVE  IInv'
<1>0. UNCHANGED <<height, block, issue, progress, effects, restarts>> /\ state[b] = "infos"
  BY DEF DownloadInfos
<1>1. ASSUME NEW missing \in Missing(b), state' = [state EXCEPT ![b] = "next"],
             left' = [left EXCEPT ![b] = Of(b) \ missing],
             unseen' = (unseen \ Of(b)) \cup missing, UNCHANGED <<current, failures>>
      PROVE  IInv'
  <2>1. missing \subseteq Of(b) /\ Of(b) \subseteq Transfers
    BY <1>1 DEF Missing, Of
  <2>2. TypeOK'
    BY <1>0, <1>1, <2>1 DEF IInv, TypeOK, issue, progress, effects, Visiting
  <2>3. state'[b] = "next" /\ left'[b] = Of(b) \ missing
    BY <1>1 DEF IInv, TypeOK
  <2>4. \A c \in Heights \ {b} :
            state'[c] = state[c] /\ left'[c] = left[c] /\ current'[c] = current[c]
    BY <1>1 DEF IInv, TypeOK
  <2>5. ThreadAt(b)' /\ VisitAt(b)'
    BY <1>0, <1>1, <2>3 DEF ThreadAt, VisitAt, Visited, Of
  <2>6. \A t \in unseen : block[t] # b => t \in unseen'
    BY <1>1 DEF Of
  <2>7. \A t \in Transfers : rows[t] <= rows'[t]
    BY <1>0 DEF IInv, TypeOK, Several, effects
  <2> QED
    BY <1>0, <2>2, <2>4, <2>5, <2>6, <2>7, ThreadKeeps DEF effects
<1>2. ASSUME CallFails(b), UNCHANGED unseen PROVE IInv'
  <2>1. Fail(b) /\ failures' \in Nat
    BY <1>2 DEF CallFails, IInv, TypeOK
  <2> QED
    BY <1>0, <1>2, <2>1, FailKeeps DEF effects, chain, IInv, TypeOK
<1> QED
  BY <1>1, <1>2 DEF DownloadInfos

\* A transfer that is passed over is no deposit.
LEMMA SkipKeeps ==
    ASSUME IInv, NEW b \in Heights, NEW t \in Transfers, Skip(b, t)
    PROVE  IInv'
<1>1. /\ UNCHANGED <<chain, issue, progress, state, current, effects, failures, restarts>>
      /\ left' = [left EXCEPT ![b] = left[b] \ {t}] /\ state[b] = "next"
  BY DEF Skip
<1>2. TypeOK'
  BY <1>1 DEF IInv, TypeOK, chain, issue, progress, effects
<1>3. \A c \in Heights \ {b} :
          state'[c] = state[c] /\ left'[c] = left[c] /\ current'[c] = current[c]
  BY <1>1 DEF IInv, TypeOK
<1>4. ThreadAt(b)'
  <2>1. left'[b] \subseteq left[b]
    BY <1>1 DEF IInv, TypeOK
  <2> QED
    BY <1>1, <2>1 DEF ThreadAt, IInv, ThreadInv, chain
<1>5. VisitAt(b)'
  <2> SUFFICES ASSUME NEW u \in Transfers, Deposit(u), block[u] = b PROVE Visited(b, u)'
    BY <1>1 DEF VisitAt, chain
  <2>1. u # t
    <3>1. block[u] # 0
      BY DEF Heights
    <3> QED
      BY <3>1, DepositIsConcerned DEF Skip
  <2>2. Visited(b, u)
    BY <1>1 DEF IInv, VisitInv, VisitAt, Visiting
  <2>3. left'[b] = left[b] \ {t}
    BY <1>1 DEF IInv, TypeOK
  <2> QED
    BY <1>1, <2>1, <2>2, <2>3 DEF Visited, Collected, effects, chain
<1>6. \A u \in Transfers : rows[u] <= rows'[u]
  BY <1>1 DEF IInv, TypeOK, Several, effects
<1> QED
  BY <1>1, <1>2, <1>3, <1>4, <1>5, <1>6, ThreadKeeps DEF effects, chain

\* A transfer SHKeeper was notified of is at hand.
LEMMA NotifyKeeps ==
    ASSUME IInv, NEW b \in Heights, NEW t \in Transfers, Notify(b, t)
    PROVE  IInv'
<1> DEFINE next == IF Flow = "default" THEN "collect" ELSE "record"
<1>0. /\ UNCHANGED <<chain, issue, progress, rows, queued, restarts>>
      /\ state[b] = "next" /\ t \in left[b]
  BY DEF Notify
<1>1. ASSUME notified' = notified \cup {t}, state' = [state EXCEPT ![b] = next],
             left' = [left EXCEPT ![b] = left[b] \ {t}], current' = [current EXCEPT ![b] = t],
             UNCHANGED failures
      PROVE  IInv'
  <2>1. TypeOK'
    BY <1>0, <1>1 DEF IInv, TypeOK, chain, issue, progress, Visiting
  <2>2. state'[b] = next /\ left'[b] = left[b] \ {t} /\ current'[b] = t
    BY <1>1 DEF IInv, TypeOK
  <2>3. \A c \in Heights \ {b} :
            state'[c] = state[c] /\ left'[c] = left[c] /\ current'[c] = current[c]
    BY <1>1 DEF IInv, TypeOK
  <2>4. ThreadAt(b)'
    BY <1>0, <1>1, <2>2 DEF ThreadAt, chain, IInv, ThreadInv
  <2>5. VisitAt(b)'
    <3> SUFFICES ASSUME NEW u \in Transfers, Deposit(u), block[u] = b PROVE Visited(b, u)'
      BY <1>0 DEF VisitAt, chain
    <3>1. Visited(b, u)
      BY <1>0 DEF IInv, VisitInv, VisitAt, Visiting
    <3> QED
      BY <1>0, <1>1, <2>2, <3>1 DEF Visited, Collected, chain
  <2>6. \A u \in Transfers : rows[u] <= rows'[u]
    BY <1>0 DEF IInv, TypeOK, Several
  <2> QED
    BY <1>0, <1>1, <2>1, <2>3, <2>4, <2>5, <2>6, ThreadKeeps DEF chain
<1>2. ASSUME notified' \in {notified, notified \cup {t}}, CallFails(b) PROVE IInv'
  BY <1>0, <1>2, FailKeeps DEF CallFails, IInv, TypeOK
<1> QED
  BY <1>1, <1>2 DEF Notify

\* The default flow leaves only what it need not collect.
LEMMA CollectKeeps ==
    ASSUME IInv, NEW b \in Heights, Collect(b)
    PROVE  IInv'
<1>0. /\ state[b] = "collect" /\ Flow = "default"
      /\ UNCHANGED <<chain, issue, progress, notified, rows, restarts>>
      /\ current[b] \in Transfers
  BY DEF Collect, IInv, ThreadInv, ThreadAt
<1>1. \/ Enqueue(b)
      \/ Leave(b) /\ ~MustBeQueued(current[b])
  BY <1>0 DEF Collect, MustBeQueued
<1>2. ASSUME Leave(b), ~MustBeQueued(current[b]) PROVE IInv'
  <2>1. GoOn(b) /\ queued' = queued /\ failures' = failures
    BY <1>2 DEF Leave
  <2>2. \A t \in Transfers : t = current[b] /\ Deposit(t) => Collected(t)'
    BY <1>0, <1>2 DEF Collected
  <2> QED
    BY <1>0, <2>1, <2>2, GoOnKeeps DEF IInv, TypeOK
<1> QED
  BY <1>0, <1>1, <1>2, EnqueueKeeps

\* The customized flow queues what has its row; what it leaves has one, or needs none.
LEMMA QueueKeeps ==
    ASSUME IInv, NEW b \in Heights, Queue(b)
    PROVE  IInv'
<1>0. /\ state[b] = "queue" /\ Flow # "default"
      /\ UNCHANGED <<chain, issue, progress, notified, rows, restarts>>
      /\ current[b] \in Transfers
      /\ current[b] \in Recordable => rows[current[b]] > 0
  BY DEF Queue, IInv, ThreadInv, ThreadAt
<1>1. \/ Enqueue(b)
      \/ Leave(b) /\ SymbolOf[current[b]] = "USDT"
  BY DEF Queue
<1>2. ASSUME Leave(b), SymbolOf[current[b]] = "USDT" PROVE IInv'
  <2>1. GoOn(b) /\ queued' = queued /\ failures' = failures
    BY <1>2 DEF Leave
  <2>2. \A t \in Transfers : t = current[b] /\ Deposit(t) => Collected(t)'
    BY <1>0, <1>2 DEF Collected
  <2> QED
    BY <1>0, <2>1, <2>2, GoOnKeeps DEF IInv, TypeOK
<1> QED
  BY <1>0, <1>1, <1>2, EnqueueKeeps

\* A row recorded is a step of the thread, to the queue or past a transfer that is no deposit.
LEMMA AddRowKeeps ==
    ASSUME IInv, NEW b \in Heights, NEW next \in {"next", "queue"},
           state[b] = "record", AddRow(b, next), UNCHANGED failures,
           UNCHANGED <<chain, issue, progress, notified, queued, restarts>>,
           next = "next" => ~Deposit(current[b])
    PROVE  IInv'
<1>0. current[b] \in Transfers /\ current[b] \in notified /\ block[current[b]] = b
      /\ Flow # "default"
  BY DEF IInv, ThreadInv, ThreadAt
<1>1. /\ state' \in [Heights -> {"none", "waiting", "infos"} \cup Visiting \cup Scanned]
      /\ left' = left /\ current' = current
      /\ rows' \in [Transfers -> 0..Several]
      /\ \A t \in Transfers : rows[t] <= rows'[t]
      /\ rows'[current[b]] > 0
  BY <1>0, AddRowTypes DEF IInv
<1>2. TypeOK'
  BY <1>1 DEF IInv, TypeOK, chain, issue, progress
<1>3. state'[b] = next
  BY DEF AddRow, IInv, TypeOK
<1>4. \A c \in Heights \ {b} :
          state'[c] = state[c] /\ left'[c] = left[c] /\ current'[c] = current[c]
  BY <1>1 DEF AddRow, IInv, TypeOK
<1>5. ThreadAt(b)'
  BY <1>0, <1>1, <1>3 DEF ThreadAt, IInv, ThreadInv, chain
<1>6. VisitAt(b)'
  <2> SUFFICES ASSUME NEW t \in Transfers, Deposit(t), block[t] = b PROVE Visited(b, t)'
    BY DEF VisitAt, chain
  <2>1. Visited(b, t)
    BY DEF IInv, VisitInv, VisitAt, Visiting
  <2>2. Collected(t) => Collected(t)'
    BY <1>0, <1>1 DEF Collected, IInv, TypeOK, Several
  <2> QED
    BY <1>1, <1>3, <2>1, <2>2 DEF Visited, chain
<1> QED
  BY <1>1, <1>2, <1>4, <1>5, <1>6, ThreadKeeps DEF chain

\* What the customized flow records or passes over.
LEMMA RecordKeeps ==
    ASSUME IInv, NEW b \in Heights, Record(b)
    PROVE  IInv'
<1>0. /\ state[b] = "record"
      /\ UNCHANGED <<chain, issue, progress, notified, queued, restarts>>
      /\ current[b] \in Transfers /\ block[current[b]] = b /\ Flow # "default"
      /\ notified \subseteq Transfers /\ queued \subseteq Transfers /\ failures \in Nat
  BY DEF Record, IInv, ThreadInv, ThreadAt, TypeOK
<1>1. Deposit(current[b]) => IsDeposit(current[b]) /\ Src[current[b]] # Main
  BY <1>0, DepositIsConcerned DEF Heights
<1>2. ASSUME AddRow(b, "queue"), UNCHANGED failures PROVE IInv'
  BY <1>0, <1>2, AddRowKeeps
<1>3. ASSUME AddRow(b, "next"), UNCHANGED failures, ~Deposit(current[b]) PROVE IInv'
  BY <1>0, <1>3, AddRowKeeps
<1>4. ASSUME Fail(b), UNCHANGED rows, failures' \in Nat PROVE IInv'
  BY <1>0, <1>4, FailKeeps
<1>5. ASSUME GoOn(b), UNCHANGED <<rows, failures>>, ~Deposit(current[b]) PROVE IInv'
  BY <1>0, <1>5, GoOnKeeps
<1>6. ASSUME current[b] \notin Recordable, state' = [state EXCEPT ![b] = "queue"],
             UNCHANGED <<rows, left, current, failures>>
      PROVE  IInv'
  <2>1. TypeOK'
    BY <1>0, <1>6 DEF IInv, TypeOK, chain, issue, progress, Visiting
  <2>2. /\ state'[b] = "queue"
        /\ \A c \in Heights \ {b} : state'[c] = state[c]
    BY <1>6 DEF IInv, TypeOK
  <2>3. ThreadAt(b)'
    BY <1>0, <1>6, <2>2 DEF ThreadAt, IInv, ThreadInv, chain
  <2>4. VisitAt(b)'
    <3> SUFFICES ASSUME NEW t \in Transfers, Deposit(t), block[t] = b PROVE Visited(b, t)'
      BY <1>0 DEF VisitAt, chain
    <3>1. Visited(b, t)
      BY <1>0 DEF IInv, VisitInv, VisitAt, Visiting
    <3> QED
      BY <1>0, <1>6, <2>2, <3>1 DEF Visited, Collected, chain
  <2>5. \A t \in Transfers : rows[t] <= rows'[t]
    BY <1>6 DEF IInv, TypeOK, Several
  <2> QED
    BY <1>0, <1>6, <2>1, <2>2, <2>3, <2>4, <2>5, ThreadKeeps DEF chain
<1>7. CASE RecordDeposit(b)
  <2>1. CallFails(b) => Fail(b) /\ failures' \in Nat
    BY <1>0 DEF CallFails
  <2> QED
    BY <1>0, <1>2, <1>4, <1>6, <1>7, <2>1 DEF RecordDeposit
<1>8. CASE ~IsDeposit(current[b]) /\ Src[current[b]] = Main
  <2>1. CallFails(b) => Fail(b) /\ failures' \in Nat
    BY <1>0 DEF CallFails
  <2> QED
    BY <1>1, <1>3, <1>4, <1>8, <2>1 DEF Record
<1>9. CASE ~IsDeposit(current[b]) /\ RecordOther(b)
  BY <1>0, <1>1, <1>4, <1>5, <1>9 DEF RecordOther
<1> QED
  BY <1>7, <1>8, <1>9 DEF Record

\* A block is scanned when nothing is left to visit.
LEMMA FinishKeeps ==
    ASSUME IInv, NEW b \in Heights, Finish(b)
    PROVE  IInv'
<1>1. /\ UNCHANGED <<chain, issue, progress, left, current, effects, failures, restarts>>
      /\ state' = [state EXCEPT ![b] = "true"] /\ state[b] = "next" /\ left[b] = {}
  BY DEF Finish
<1>2. TypeOK'
  BY <1>1 DEF IInv, TypeOK, chain, issue, progress, effects, Scanned
<1>3. state'[b] = "true" /\ \A c \in Heights \ {b} : state'[c] = state[c]
  BY <1>1 DEF IInv, TypeOK
<1>4. ThreadAt(b)'
  BY <1>1, <1>3 DEF ThreadAt, IInv, ThreadInv
<1>5. VisitAt(b)'
  <2> SUFFICES ASSUME NEW t \in Transfers, Deposit(t), block[t] = b PROVE Visited(b, t)'
    BY <1>1 DEF VisitAt, chain
  <2>1. Visited(b, t)
    BY <1>1 DEF IInv, VisitInv, VisitAt, Visiting
  <2> QED
    BY <1>1, <1>3, <2>1 DEF Visited, Collected, effects, chain
<1>6. \A t \in Transfers : rows[t] <= rows'[t]
  BY <1>1 DEF IInv, TypeOK, Several, effects
<1> QED
  BY <1>1, <1>2, <1>3, <1>4, <1>5, <1>6, ThreadKeeps DEF effects, chain

--------------------------------------------------------------------------------
(* The chain, the API and the loop                                          *)

\* A new block lies beyond the chunk, and pays only to addresses that are watched.
LEMMA MineKeeps ==
    ASSUME IInv, NEW txs \in SUBSET Transfers, Mine(txs)
    PROVE  IInv'
<1> USE ScannerAssumption
<1>0. /\ TypeOK /\ ChunkInv /\ WatchInv /\ ThreadInv /\ VisitInv
      /\ CommittedIsNotified /\ CommittedIsCollected
  BY DEF IInv
<1>1. /\ height < MaxHeight /\ height' = height + 1
      /\ \A t \in txs : block[t] = 0 /\ {Src[t], Dst[t]} \cap Accounts \subseteq known
      /\ block' = [t \in Transfers |-> IF t \in txs THEN height + 1 ELSE block[t]]
      /\ UNCHANGED <<unseen, issue, progress, state, left, current, effects, failures,
                     restarts>>
  BY DEF Mine
<1>2. TypeOK'
  BY <1>0, <1>1 DEF TypeOK, issue, progress, effects
<1>3. ChunkInv'
  BY <1>0, <1>1 DEF TypeOK, ChunkInv, InChunk, progress
<1>4. WatchInv'
  BY <1>0, <1>1 DEF TypeOK, WatchInv, Deposit, issue
<1>5. \A t \in Transfers : block[t] # 0 => block'[t] = block[t]
  BY <1>1
<1>6. ThreadInv'
  <2> SUFFICES ASSUME NEW b \in Heights PROVE ThreadAt(b)'
    BY DEF ThreadInv
  <2>1. ThreadAt(b) /\ b # 0
    BY <1>0 DEF ThreadInv, Heights
  <2>2. left[b] \subseteq Transfers
    BY <1>0 DEF TypeOK
  <2> QED
    BY <1>1, <1>5, <2>1, <2>2 DEF ThreadAt, effects
<1>7. VisitInv'
  <2> SUFFICES ASSUME NEW b \in Heights, state[b] \in Visiting \cup {"true"},
                      NEW t \in Transfers, Deposit(t), block'[t] = b
               PROVE  Visited(b, t)'
    BY <1>1 DEF VisitInv, VisitAt
  <2>1. b <= height
    BY <1>0 DEF ChunkInv, InChunk, Visiting, TypeOK, Heights
  <2>2. block[t] = b
    BY <1>0, <1>1, <2>1 DEF TypeOK
  <2>3. Visited(b, t)
    BY <1>0, <2>2 DEF VisitInv, VisitAt
  <2> QED
    BY <1>1, <2>3 DEF Visited, Collected, effects
<1>8. CommittedIsNotified' /\ CommittedIsCollected'
  <2>1. ASSUME NEW t \in Transfers, Committed(t)' PROVE Committed(t)
    BY <1>0, <1>1, <2>1 DEF Committed, TypeOK, ChunkInv, progress
  <2>2. \A t \in Transfers : Collected(t)' <=> Collected(t)
    BY <1>1 DEF Collected, effects
  <2> QED
    BY <1>0, <1>1, <2>1, <2>2 DEF CommittedIsNotified, CommittedIsCollected, effects
<1> QED
  BY <1>2, <1>3, <1>4, <1>6, <1>7, <1>8 DEF IInv

\* Steps that leave the chain, the scan and its effects alone keep the invariant when they
\* keep the types and what it says of the addresses.
LEMMA IssueKeeps ==
    ASSUME IInv, TypeOK', WatchInv',
           UNCHANGED <<chain, progress, state, left, current, effects>>
    PROVE  IInv'
BY DEF IInv, ChunkInv, InChunk, ThreadInv, ThreadAt, VisitInv, VisitAt, Visited, Collected,
       CommittedIsNotified, CommittedIsCollected, Committed, chain, progress, effects

\* Saving a key, and handing out a watched address.
LEMMA AddressKeeps ==
    ASSUME IInv, NEW a \in Accounts, SaveKey(a) \/ HandOut(a)
    PROVE  IInv'
<1>1. TypeOK' /\ WatchInv'
  <2>1. CASE SaveKey(a)
    BY <2>1, ScannerAssumption
       DEF IInv, TypeOK, WatchInv, SaveKey, chain, progress, effects
  <2>2. CASE HandOut(a)
    BY <2>2, ScannerAssumption
       DEF IInv, TypeOK, WatchInv, HandOut, chain, progress, effects
  <2> QED
    BY <2>1, <2>2
<1> QED
  BY <1>1, IssueKeeps DEF SaveKey, HandOut

\* Nothing is behind a scanner that starts.
LEMMA SeedKeeps ==
    ASSUME IInv, NEW n \in 0..MaxHeight, Seed(n)
    PROVE  IInv'
<1> USE ScannerAssumption
<1>1. TypeOK' /\ WatchInv' /\ ThreadInv' /\ VisitInv'
  BY DEF IInv, Seed, TypeOK, WatchInv, ThreadInv, ThreadAt, VisitInv, VisitAt, Visited,
         Collected, chain, issue, effects
<1>2. ChunkInv'
  BY DEF IInv, Seed, TypeOK, ChunkInv, chain
<1>3. CommittedIsNotified' /\ CommittedIsCollected'
  <2>1. \A t \in Transfers : ~Committed(t)'
    BY DEF IInv, Seed, TypeOK, Committed, chain
  <2> QED
    BY <2>1 DEF CommittedIsNotified, CommittedIsCollected
<1> QED
  BY <1>1, <1>2, <1>3 DEF IInv

\* A chunk begins with blocks that wait.
LEMMA BeginChunkKeeps ==
    ASSUME IInv, NEW n \in 0..MaxHeight, BeginChunk(n)
    PROVE  IInv'
<1> USE ScannerAssumption
<1>0. /\ TypeOK /\ seeded /\ target = 0 /\ last_seen < n /\ n <= height
      /\ target' = ChunkEnd(n)
      /\ state' = [b \in Heights |->
                      IF last_seen < b /\ b <= ChunkEnd(n) THEN "waiting" ELSE "none"]
      /\ UNCHANGED <<chain, issue, seeded, last_seen, start, left, current, effects,
                     failures, restarts>>
  BY DEF IInv, BeginChunk
<1>1. ChunkEnd(n) \in 0..MaxHeight /\ last_seen < ChunkEnd(n) /\ ChunkEnd(n) <= n
  BY <1>0, ChunkEndBounds
<1>2. TypeOK'
  BY <1>0, <1>1 DEF TypeOK, chain, issue, effects
<1>3. ChunkInv'
  BY <1>0, <1>1 DEF IInv, TypeOK, ChunkInv, InChunk, chain, Heights
<1>4. WatchInv' /\ CommittedIsNotified' /\ CommittedIsCollected'
  BY <1>0 DEF IInv, WatchInv, CommittedIsNotified, CommittedIsCollected, Committed, Collected,
              chain, issue, effects
<1>5. \A b \in Heights : state'[b] \in {"waiting", "none"}
  BY <1>0
<1>6. ThreadInv' /\ VisitInv'
  BY <1>0, <1>5 DEF IInv, ThreadInv, ThreadAt, VisitInv, VisitAt, Visiting, chain
<1> QED
  BY <1>2, <1>3, <1>4, <1>6 DEF IInv

\* Between chunks no block is being scanned.
LEMMA NoScan ==
    ASSUME state' = [b \in Heights |-> "none"], left' = [b \in Heights |-> {}]
    PROVE  ThreadInv' /\ VisitInv'
BY DEF ThreadInv, ThreadAt, VisitInv, VisitAt, Visiting

\* What a chunk that is committed leaves behind was scanned to the end, and so its deposits
\* were notified and collected.
LEMMA EndChunkKeeps ==
    ASSUME IInv, EndChunk
    PROVE  IInv'
<1> USE ScannerAssumption
<1>0. /\ TypeOK /\ ChunkInv /\ target # 0
      /\ last_seen' = last_seen \/ (Commits /\ last_seen' = target)
      /\ target' = 0
      /\ state' = [b \in Heights |-> "none"]
      /\ left' = [b \in Heights |-> {}]
      /\ current' = [b \in Heights |-> NoTransfer]
      /\ UNCHANGED <<chain, issue, seeded, start, effects, restarts>>
      /\ failures' \in Nat
  BY DEF IInv, EndChunk, TypeOK
<1>1. TypeOK'
  BY <1>0 DEF TypeOK, chain, issue, effects
<1>2. ChunkInv'
  BY <1>0 DEF TypeOK, ChunkInv, chain
<1>3. WatchInv'
  BY <1>0 DEF IInv, WatchInv, chain, issue
<1>4. ThreadInv' /\ VisitInv'
  BY <1>0, NoScan
<1>5. \A t \in Transfers : Collected(t)' <=> Collected(t)
  BY <1>0 DEF Collected, effects
<1>6. ASSUME NEW t \in Transfers, Deposit(t), Committed(t)'
      PROVE  t \in unseen \/ (t \in notified /\ Collected(t))
  <2>1. CASE Committed(t)
    BY <1>6, <2>1 DEF IInv, CommittedIsNotified, CommittedIsCollected
  <2>2. CASE ~Committed(t)
    <3>1. Commits /\ last_seen < block[t] /\ block[t] <= target /\ block[t] \in Heights
      BY <1>0, <1>6, <2>2 DEF Committed, TypeOK, ChunkInv, chain, Heights
    <3>2. state[block[t]] = "true"
      BY <3>1 DEF Commits, InChunk
    <3>3. Visited(block[t], t)
      BY <1>6, <3>1, <3>2 DEF IInv, VisitInv, VisitAt
    <3> QED
      BY <3>2, <3>3 DEF Visited
  <2> QED
    BY <2>1, <2>2
<1>7. CommittedIsNotified' /\ CommittedIsCollected'
  BY <1>0, <1>5, <1>6 DEF CommittedIsNotified, CommittedIsCollected, effects, chain
<1> QED
  BY <1>1, <1>2, <1>3, <1>4, <1>7 DEF IInv

\* A new process forgets the chunk and watches every address of the keys table, and so every
\* address anybody was given.
LEMMA RestartKeeps ==
    ASSUME IInv, Restart
    PROVE  IInv'
<1> USE ScannerAssumption
<1>0. /\ TypeOK /\ ChunkInv /\ WatchInv
      /\ watched' = keys \cup {Main} /\ target' = 0
      /\ state' = [b \in Heights |-> "none"]
      /\ left' = [b \in Heights |-> {}]
      /\ current' = [b \in Heights |-> NoTransfer]
      /\ UNCHANGED <<chain, keys, known, seeded, last_seen, start, effects, failures>>
      /\ restarts' \in Nat
  BY DEF IInv, Restart, TypeOK
<1>1. TypeOK'
  BY <1>0 DEF TypeOK, chain, effects
<1>2. ChunkInv'
  BY <1>0 DEF TypeOK, ChunkInv, chain
<1>3. WatchInv'
  BY <1>0 DEF TypeOK, WatchInv, chain
<1>4. ThreadInv' /\ VisitInv'
  BY <1>0, NoScan
<1>5. CommittedIsNotified' /\ CommittedIsCollected'
  BY <1>0 DEF IInv, CommittedIsNotified, CommittedIsCollected, Committed, Collected, chain,
              effects
<1> QED
  BY <1>1, <1>2, <1>3, <1>4, <1>5 DEF IInv

--------------------------------------------------------------------------------
(* The invariant of every behaviour, and the properties                     *)

\* Nothing was scanned yet.
LEMMA InitInv == Init => IInv
<1> SUFFICES ASSUME Init PROVE IInv
  OBVIOUS
<1> USE ScannerAssumption
<1>1. TypeOK
  <2>1. rows \in [Transfers -> 0..Several]
    BY DEF Init, Several
  <2>2. block \in [Transfers -> 0..MaxHeight] /\ unseen \subseteq Transfers
    BY DEF Init
  <2>3. /\ state \in [Heights -> {"none", "waiting", "infos"} \cup Visiting \cup Scanned]
        /\ left \in [Heights -> SUBSET Transfers]
        /\ current \in [Heights -> Transfers \cup {NoTransfer}]
    BY DEF Init
  <2>4. watched \subseteq Accounts \cup {Main}
    BY DEF Init
  <2>5. /\ height \in 0..MaxHeight /\ last_seen \in 0..MaxHeight /\ start \in 0..MaxHeight
        /\ target \in 0..MaxHeight /\ failures \in Nat /\ restarts \in Nat
    BY DEF Init
  <2>6. /\ keys \subseteq Accounts /\ known \subseteq Accounts /\ seeded \in BOOLEAN
        /\ notified \subseteq Transfers /\ queued \subseteq Transfers
    BY DEF Init
  <2> QED
    BY <2>1, <2>2, <2>3, <2>4, <2>5, <2>6 DEF TypeOK
<1>2. ChunkInv
  BY DEF Init, ChunkInv
<1>3. WatchInv
  BY DEF Init, WatchInv
<1>4. ThreadInv /\ VisitInv
  BY DEF Init, ThreadInv, ThreadAt, VisitInv, VisitAt, Visiting
<1>5. CommittedIsNotified /\ CommittedIsCollected
  BY DEF Init, CommittedIsNotified, CommittedIsCollected, Committed
<1> QED
  BY <1>1, <1>2, <1>3, <1>4, <1>5 DEF IInv

\* The invariant is inductive.
LEMMA InvNext == IInv /\ [Next]_vars => IInv'
<1> SUFFICES ASSUME IInv, [Next]_vars PROVE IInv'
  OBVIOUS
<1>1. ASSUME NEW txs \in SUBSET Transfers, Mine(txs) PROVE IInv'
  BY <1>1, MineKeeps
<1>2. ASSUME NEW a \in Accounts, SaveKey(a) \/ HandOut(a) PROVE IInv'
  BY <1>2, AddressKeeps
<1>3. ASSUME NEW n \in 0..MaxHeight, Seed(n) \/ BeginChunk(n) PROVE IInv'
  BY <1>3, SeedKeeps, BeginChunkKeeps
<1>4. ASSUME NEW b \in Heights, ScanStep(b) PROVE IInv'
  BY <1>4, DownloadBlockKeeps, DownloadInfosKeeps, CollectKeeps, RecordKeeps, QueueKeeps,
     FinishKeeps, SkipKeeps, NotifyKeeps DEF ScanStep
<1>5. CASE EndChunk
  BY <1>5, EndChunkKeeps
<1>6. CASE Restart
  BY <1>6, RestartKeeps
<1>7. CASE UNCHANGED vars
  <2>1. TypeOK' /\ WatchInv'
    BY <1>7 DEF vars, IInv, TypeOK, WatchInv
  <2> QED
    BY <1>7, <2>1, IssueKeeps DEF vars, chain, progress, effects
<1> QED
  BY <1>1, <1>2, <1>3, <1>4, <1>5, <1>6, <1>7 DEF Next

\* The inductive invariant holds of every behaviour of the scanner.
THEOREM Invariance == Spec => []IInv
BY InitInv, InvNext, PTL DEF Spec

\* Every variable keeps its type.
THEOREM TypeCorrect == Spec => []TypeOK
<1>1. IInv => TypeOK
  BY DEF IInv
<1> QED
  BY <1>1, Invariance, PTL

\* SHKeeper was notified of every deposit the scanner has left behind, but for those a node
\* held back.
THEOREM NoDepositIsMissed == Spec => []CommittedIsNotified
<1>1. IInv => CommittedIsNotified
  BY DEF IInv
<1> QED
  BY <1>1, Invariance, PTL

\* Every deposit left behind is on its way to be collected, but for those a node held back.
THEOREM NoDepositIsForgotten == Spec => []CommittedIsCollected
<1>1. IInv => CommittedIsCollected
  BY DEF IInv
<1> QED
  BY <1>1, Invariance, PTL

\* The scanner never goes back, and leaves behind only what it scanned in the chunk it
\* commits.
THEOREM CommitsAreScanned == Spec => ScannedBeforeCommit
<1> DEFINE Kept == seeded => /\ last_seen' >= last_seen
                             /\ \A b \in Heights :
                                  last_seen < b /\ b <= last_seen' => state[b] = "true"
<1>1. ASSUME IInv, [Next]_vars PROVE Kept
  <2>1. CASE EndChunk
    BY <1>1, <2>1 DEF EndChunk, Commits, InChunk, IInv, TypeOK, ChunkInv, Heights
  <2>2. CASE ~EndChunk
    <3>1. seeded => last_seen' = last_seen
      BY <1>1, <2>2 DEF Next, vars, Mine, SaveKey, HandOut, Seed, BeginChunk, ScanStep,
            DownloadBlock, DownloadInfos, Skip, Notify, Collect, Record, Queue, Finish, Restart,
            progress
    <3> QED
      BY <1>1, <3>1 DEF IInv, TypeOK, Heights
  <2> QED
    BY <2>1, <2>2
<1> QED
  BY <1>1, Invariance, PTL DEF Spec, ScannedBeforeCommit

--------------------------------------------------------------------------------
(* One row per deposit, as long as nothing has a chunk scanned again          *)

\* Nothing failed, nothing restarted, and the flow accepts all that is on the chain.
Calm ==
    /\ failures = 0 /\ restarts = 0
    /\ \A t \in Transfers : block[t] # 0 => ~Unacceptable(t)

\* No scan has failed, and the transfer at hand is not to visit again.
FirstScan(b) ==
    /\ state[b] # "false"
    /\ state[b] \in {"collect", "record", "queue"} => current[b] \notin left[b]
    /\ state[b] = "record" => Dst[current[b]] \in watched

\* The scan of t's block is past the recording of t.
IsPast(t) ==
    LET b == block[t]
    IN  /\ state[b] \in Visiting \cup {"true"}
        /\ t \notin left[b]
        /\ ~(state[b] = "record" /\ current[b] = t)

\* A transfer has a row only once the scan has dealt with it, and then a single one.
RowOnce(t) ==
    rows[t] > 0 => /\ rows[t] = 1
                   /\ block[t] # 0
                   /\ block[t] <= last_seen \/ IsPast(t)

OnceInv ==
    /\ ~seeded => last_seen = 0
    /\ \A b \in Heights : FirstScan(b)
    /\ \A t \in Transfers : RowOnce(t)

CalmInv == Calm => OnceInv

\* Failures, restarts and what the flow does not accept do not go away.
LEMMA CalmBefore ==
    ASSUME IInv, [Next]_vars, Calm'
    PROVE  Calm /\ restarts' = restarts /\ failures' = failures
<1>0. TypeOK /\ failures \in Nat /\ restarts \in Nat
  BY DEF IInv, TypeOK
<1>1. failures' = failures \/ failures' = failures + 1
  BY DEF Next, vars, Mine, SaveKey, HandOut, Seed, BeginChunk, ScanStep, DownloadBlock,
         DownloadInfos, Skip, Notify, Collect, Record, RecordDeposit, RecordOther, Queue,
         Enqueue, Leave, CallFails, Finish, EndChunk, Restart
<1>2. restarts' = restarts \/ restarts' = restarts + 1
  BY DEF Next, vars, Mine, SaveKey, HandOut, Seed, BeginChunk, ScanStep, DownloadBlock,
         DownloadInfos, Skip, Notify, Collect, Record, Queue, Finish, EndChunk, Restart
<1>3. failures' = 0 /\ restarts' = 0
  BY DEF Calm
<1>4. failures' = failures /\ restarts' = restarts /\ failures = 0 /\ restarts = 0
  BY <1>0, <1>1, <1>2, <1>3
<1>5. ~Restart
  BY <1>0, <1>4 DEF Restart
<1>6. watched \subseteq watched'
  BY <1>5 DEF Next, vars, issue, Mine, SaveKey, HandOut, Seed, BeginChunk, ScanStep, DownloadBlock,
              DownloadInfos, Skip, Notify, Collect, Record, Queue, Finish, EndChunk
<1>7. \A t \in Transfers : block[t] # 0 => block'[t] = block[t]
  <2>1. ASSUME NEW txs \in SUBSET Transfers, Mine(txs)
        PROVE  \A t \in Transfers : block[t] # 0 => block'[t] = block[t]
    BY <2>1 DEF Mine
  <2>2. CASE ~\E txs \in SUBSET Transfers : Mine(txs)
    BY <2>2, <1>5 DEF Next, vars, chain, SaveKey, HandOut, Seed, BeginChunk, ScanStep,
              DownloadBlock, DownloadInfos, Skip, Notify, Collect, Record, Queue, Finish, EndChunk
  <2> QED
    BY <2>1, <2>2
<1>8. \A t \in Transfers : Unacceptable(t) => Unacceptable(t)'
  BY <1>6 DEF Unacceptable
<1> QED
  BY <1>3, <1>4, <1>7, <1>8 DEF Calm

\* What a thread does to its block, when it scans on and leaves the rows alone.
LEMMA ScansOn ==
    ASSUME IInv, OnceInv, NEW b \in Heights,
           UNCHANGED <<block, watched, seeded, last_seen, rows>>,
           \A c \in Heights \ {b} :
              state'[c] = state[c] /\ left'[c] = left[c] /\ current'[c] = current[c],
           FirstScan(b)',
           \A t \in Transfers : block[t] = b /\ IsPast(t) => IsPast(t)'
    PROVE  OnceInv'
<1>1. \A c \in Heights : FirstScan(c)'
  BY DEF OnceInv, FirstScan
<1>2. ASSUME NEW t \in Transfers PROVE RowOnce(t)'
  <2>1. RowOnce(t) /\ block[t] \in 0..MaxHeight
    BY DEF OnceInv, IInv, TypeOK
  <2>2. CASE block[t] = b
    BY <2>1, <2>2 DEF RowOnce
  <2>3. CASE block[t] # b
    <3>1. block[t] # 0 => block[t] \in Heights
      BY <2>1, ScannerAssumption DEF Heights
    <3> QED
      BY <2>1, <2>3, <3>1 DEF RowOnce, IsPast
  <2> QED
    BY <2>2, <2>3
<1> QED
  BY <1>1, <1>2 DEF OnceInv

\* A block being scanned is ahead of what is committed.
LEMMA ScansAhead ==
    ASSUME IInv, NEW b \in Heights, state[b] # "none"
    PROVE  last_seen < b /\ ~(b <= last_seen) /\ seeded
BY DEF IInv, TypeOK, ChunkInv, InChunk, Heights

\* Nothing of a block that was not visited yet has a row.
LEMMA TakesUp ==
    ASSUME IInv, OnceInv, NEW b \in Heights, state[b] \in {"waiting", "infos"},
           UNCHANGED <<block, watched, seeded, last_seen, rows>>,
           \A c \in Heights \ {b} :
              state'[c] = state[c] /\ left'[c] = left[c] /\ current'[c] = current[c],
           state'[b] \in {"infos", "next", "true"}
    PROVE  OnceInv'
<1>1. FirstScan(b)'
  BY DEF FirstScan
<1>2. \A t \in Transfers : block[t] = b => ~IsPast(t)
  BY DEF IsPast, Visiting
<1> QED
  BY <1>1, <1>2, ScansOn

\* A thread takes up a block.
LEMMA DownloadOnce ==
    ASSUME IInv, OnceInv, NEW b \in Heights, DownloadBlock(b) \/ DownloadInfos(b),
           failures' = failures
    PROVE  OnceInv'
<1>0. TypeOK /\ failures \in Nat /\ state[b] \in {"waiting", "infos"}
  BY DEF IInv, TypeOK, DownloadBlock, DownloadInfos
<1>1. UNCHANGED <<block, watched, seeded, last_seen, rows>>
  BY DEF DownloadBlock, DownloadInfos, issue, chain, progress, effects
<1>2. CASE DownloadBlock(b)
  BY <1>0, <1>1, <1>2, TakesUp DEF DownloadBlock, CallFails, TypeOK
<1>3. CASE DownloadInfos(b)
  BY <1>0, <1>1, <1>3, TakesUp DEF DownloadInfos, CallFails, TypeOK
<1> QED
  BY <1>2, <1>3

\* A transfer the scanner does not look at.
LEMMA SkipOnce ==
    ASSUME IInv, OnceInv, NEW b \in Heights, NEW t \in Transfers, Skip(b, t)
    PROVE  OnceInv'
<1>0. TypeOK /\ state[b] = "next"
  BY DEF IInv, Skip
<1>1. /\ left' = [left EXCEPT ![b] = @ \ {t}] /\ state' = state /\ current' = current
  BY DEF Skip
<1>2. left'[b] \subseteq left[b] /\ \A c \in Heights \ {b} : left'[c] = left[c]
  BY <1>0, <1>1 DEF TypeOK
<1>3. FirstScan(b)'
  BY <1>0, <1>1 DEF FirstScan
<1>4. \A u \in Transfers : block[u] = b /\ IsPast(u) => IsPast(u)'
  BY <1>1, <1>2 DEF IsPast, Skip, chain
<1> QED
  BY <1>1, <1>2, <1>3, <1>4, ScansOn DEF Skip, issue, chain, progress, effects

\* A notification takes a transfer at hand that has no row yet.
LEMMA NotifyOnce ==
    ASSUME IInv, OnceInv, NEW b \in Heights, NEW t \in Transfers, Notify(b, t),
           failures' = failures
    PROVE  OnceInv'
<1>0. TypeOK /\ failures \in Nat /\ state[b] = "next" /\ t \in left[b] /\ Dst[t] \in watched
  BY DEF IInv, TypeOK, Notify, IsConcerned
<1>1. /\ state' = [state EXCEPT ![b] = IF Flow = "default" THEN "collect" ELSE "record"]
      /\ left' = [left EXCEPT ![b] = @ \ {t}]
      /\ current' = [current EXCEPT ![b] = t]
  BY <1>0 DEF Notify, CallFails
<1>2. /\ state'[b] \in {"collect", "record"} /\ current'[b] = t /\ left'[b] = left[b] \ {t}
      /\ \A c \in Heights \ {b} :
            state'[c] = state[c] /\ left'[c] = left[c] /\ current'[c] = current[c]
  BY <1>0, <1>1 DEF TypeOK
<1>3. watched' = watched
  BY DEF Notify, issue
<1>4. FirstScan(b)'
  BY <1>0, <1>2, <1>3 DEF FirstScan
<1>5. \A u \in Transfers : block[u] = b /\ IsPast(u) => IsPast(u)'
  BY <1>0, <1>2 DEF IsPast, Notify, chain, Visiting
<1> QED
  BY <1>2, <1>4, <1>5, ScansOn DEF Notify, issue, chain, progress

\* The transfer at hand is dealt with, unless a row is still to be written for it.
LEMMA GoOnOnce ==
    ASSUME IInv, OnceInv, NEW b \in Heights, state[b] \in {"collect", "record", "queue"},
           GoOn(b), UNCHANGED <<chain, watched, seeded, last_seen, rows>>
    PROVE  OnceInv'
<1>0. TypeOK
  BY DEF IInv
<1>1. /\ state'[b] = "next" /\ left' = left
      /\ \A c \in Heights \ {b} : state'[c] = state[c] /\ current'[c] = current[c]
  BY <1>0 DEF GoOn, TypeOK
<1>2. FirstScan(b)'
  BY <1>1 DEF FirstScan
<1>3. \A u \in Transfers : block[u] = b /\ IsPast(u) => IsPast(u)'
  BY <1>1 DEF IsPast, chain, Visiting
<1> QED
  BY <1>1, <1>2, <1>3, ScansOn DEF chain

\* The default flow, and the payout of the customized one.
LEMMA CollectOnce ==
    ASSUME IInv, OnceInv, NEW b \in Heights, Collect(b) \/ Queue(b), failures' = failures
    PROVE  OnceInv'
<1>1. failures \in Nat /\ state[b] \in {"collect", "queue"}
  BY DEF IInv, TypeOK, Collect, Queue
<1>2. GoOn(b)
  BY <1>1 DEF Collect, Queue, Enqueue, Leave, CallFails
<1> QED
  BY <1>1, <1>2, GoOnOnce DEF Collect, Queue, chain, issue, progress

\* The scan of a block ends.
LEMMA FinishOnce ==
    ASSUME IInv, OnceInv, NEW b \in Heights, Finish(b)
    PROVE  OnceInv'
<1>0. TypeOK /\ state[b] = "next"
  BY DEF IInv, Finish
<1>1. /\ state'[b] = "true" /\ left' = left /\ current' = current
      /\ \A c \in Heights \ {b} : state'[c] = state[c]
  BY <1>0 DEF Finish, TypeOK
<1>2. FirstScan(b)'
  BY <1>1 DEF FirstScan
<1>3. \A u \in Transfers : block[u] = b /\ IsPast(u) => IsPast(u)'
  BY <1>1 DEF IsPast, Finish, chain
<1> QED
  BY <1>1, <1>2, <1>3, ScansOn DEF Finish, issue, chain, progress, effects

\* add_transaction_to_db writes the first row of the transfer at hand.
LEMMA AddRowOnce ==
    ASSUME IInv, OnceInv, NEW b \in Heights, state[b] = "record",
           NEW next \in {"next", "queue"}, AddRow(b, next),
           UNCHANGED <<chain, watched, seeded, last_seen>>
    PROVE  OnceInv'
<1> DEFINE t == current[b]
<1>0. TypeOK /\ ~(b <= last_seen)
  BY ScansAhead DEF IInv
<1>1. t \in Transfers /\ block[t] = b /\ t \notin left[b]
  BY DEF IInv, ThreadInv, ThreadAt, OnceInv, FirstScan
<1>2. rows[t] = 0
  <2>1. RowOnce(t) /\ ~IsPast(t)
    BY <1>1 DEF OnceInv, IsPast
  <2>2. ~(rows[t] > 0) /\ rows[t] \in 0..Several
    BY <1>0, <1>1, <2>1 DEF RowOnce, TypeOK
  <2> QED
    BY <2>2 DEF Several
<1>3. rows' = [rows EXCEPT ![t] = 1]
  BY <1>1, <1>2 DEF AddRow, Smaller, Several
<1>4. /\ state'[b] = next /\ left' = left /\ current' = current
      /\ \A c \in Heights \ {b} : state'[c] = state[c]
  BY <1>0 DEF AddRow, TypeOK
<1>5. \A c \in Heights : FirstScan(c)'
  BY <1>1, <1>4 DEF OnceInv, FirstScan
<1>6. ASSUME NEW u \in Transfers PROVE RowOnce(u)'
  <2>1. RowOnce(u) /\ block[u] \in 0..MaxHeight /\ block'[u] = block[u]
    BY <1>0 DEF OnceInv, TypeOK, chain
  <2>2. block[u] # 0 => block[u] \in Heights
    BY <2>1, ScannerAssumption DEF Heights
  <2>3. CASE u = t
    <3>1. rows'[u] = 1 /\ block'[u] = b
      BY <1>0, <1>1, <1>3, <2>1, <2>3 DEF TypeOK
    <3>2. IsPast(u)'
      BY <1>1, <1>4, <2>3, <3>1 DEF IsPast, Visiting
    <3>3. b # 0
      BY DEF Heights
    <3> QED
      BY <3>1, <3>2, <3>3 DEF RowOnce
  <2>4. CASE u # t
    <3>1. rows'[u] = rows[u]
      BY <1>0, <1>3, <2>4 DEF TypeOK
    <3>2. block[u] # 0 /\ IsPast(u) => IsPast(u)'
      BY <1>4, <2>1, <2>2 DEF IsPast, Visiting
    <3> QED
      BY <2>1, <3>1, <3>2 DEF RowOnce
  <2> QED
    BY <2>3, <2>4
<1> QED
  BY <1>5, <1>6 DEF OnceInv

\* A transfer that is looked at and is no payment from outside is one the flow does not
\* accept, unless it comes from the fee deposit or is guarded.
LEMMA OtherIsUnacceptable ==
    ASSUME IInv, NEW t \in Transfers, ~IsDeposit(t), Flow # "default", Dst[t] \in watched,
           Src[t] # Main, SymbolOf[t] # "USDT"
    PROVE  Unacceptable(t)
BY ScannerAssumption DEF IInv, WatchInv, IsDeposit, Deposit, Unacceptable

\* Own addresses on the chain were handed out before.
OwnAreKnown ==
    \A t \in Transfers : block[t] # 0 => {Src[t], Dst[t]} \cap Accounts \subseteq known

\* A block brings transfers to and from known addresses, and no address is forgotten.
LEMMA KnownStep == OwnAreKnown /\ [Next]_vars => OwnAreKnown'
<1> SUFFICES ASSUME OwnAreKnown, [Next]_vars PROVE OwnAreKnown'
  OBVIOUS
<1>1. ASSUME NEW txs \in SUBSET Transfers, Mine(txs) PROVE OwnAreKnown'
  BY <1>1 DEF Mine, OwnAreKnown, issue
<1>2. ASSUME NEW a \in Accounts, SaveKey(a) \/ HandOut(a) PROVE OwnAreKnown'
  BY <1>2 DEF SaveKey, HandOut, OwnAreKnown, chain
<1>3. ASSUME NEW n \in 0..MaxHeight, Seed(n) \/ BeginChunk(n) PROVE OwnAreKnown'
  BY <1>3 DEF Seed, BeginChunk, OwnAreKnown, chain, issue
<1>4. ASSUME NEW b \in Heights, ScanStep(b) PROVE OwnAreKnown'
  BY <1>4 DEF ScanStep, DownloadBlock, DownloadInfos, Skip, Notify, Collect, Record,
              Queue, Finish, OwnAreKnown,
              chain, issue
<1>5. CASE EndChunk \/ Restart
  BY <1>5 DEF EndChunk, Restart, OwnAreKnown, chain, issue
<1>6. CASE UNCHANGED vars
  BY <1>6 DEF vars, OwnAreKnown
<1> QED
  BY <1>1, <1>2, <1>3, <1>4, <1>5, <1>6 DEF Next

\* A payment to a watched address that is on the chain and no transfer of the service's own
\* is a customer's.
LEMMA LookedAtIsDeposit ==
    ASSUME IInv, OwnAreKnown, NEW t \in Transfers, IsDeposit(t), Dst[t] \in watched,
           block[t] # 0
    PROVE  Deposit(t)
BY ScannerAssumption
   DEF IInv, TypeOK, WatchInv, OwnAreKnown, IsDeposit, Deposit, Address

\* The customized flow records the transfer at hand, which the flow accepts.
LEMMA RecordOnce ==
    ASSUME IInv, OnceInv, OwnAreKnown, Calm, NEW b \in Heights, Record(b),
           failures' = failures
    PROVE  OnceInv'
<1> DEFINE t == current[b]
<1>0. /\ TypeOK /\ failures \in Nat /\ state[b] = "record"
      /\ UNCHANGED <<chain, watched, seeded, last_seen>>
  BY DEF IInv, TypeOK, Record, issue, progress
<1>1. /\ t \in Transfers /\ block[t] = b /\ Dst[t] \in watched /\ Flow # "default"
      /\ block[t] # 0
  BY <1>0 DEF IInv, ThreadInv, ThreadAt, OnceInv, FirstScan, Heights
<1>2. ~Unacceptable(t)
  BY <1>1 DEF Calm
<1>3. CASE AddRow(b, "next") \/ AddRow(b, "queue")
  BY <1>0, <1>3, AddRowOnce
<1>4. CASE GoOn(b) /\ rows' = rows
  BY <1>0, <1>4, GoOnOnce
<1>5. CASE IsDeposit(t) /\ t \notin Recordable /\ UNCHANGED <<rows, left, current>>
           /\ state' = [state EXCEPT ![b] = "queue"]
  <2>1. state'[b] = "queue" /\ \A c \in Heights \ {b} : state'[c] = state[c]
    BY <1>0, <1>5 DEF TypeOK
  <2>2. FirstScan(b)'
    BY <1>0, <1>5, <2>1 DEF OnceInv, FirstScan
  <2>3. \A u \in Transfers : block[u] = b /\ IsPast(u) => IsPast(u)'
    BY <1>0, <1>5, <2>1 DEF IsPast, chain, Visiting
  <2> QED
    BY <1>0, <1>5, <2>1, <2>2, <2>3, ScansOn DEF chain
<1>6. CASE IsDeposit(t) /\ t \in Broken
  BY <1>1, <1>2, <1>6, LookedAtIsDeposit DEF Unacceptable
<1>7. CASE ~IsDeposit(t) /\ Src[t] # Main /\ SymbolOf[t] # "USDT"
  BY <1>1, <1>2, <1>7, OtherIsUnacceptable
<1> QED
  BY <1>0, <1>3, <1>4, <1>5, <1>6, <1>7 DEF Record, RecordDeposit, RecordOther, CallFails

\* A chunk begins with nothing recorded ahead, and what a chunk recorded is behind it when
\* it is committed, as it is the first time.
LEMMA ChunkOnce ==
    ASSUME IInv, OnceInv, failures' = failures,
           EndChunk \/ \E n \in 0..MaxHeight : BeginChunk(n)
    PROVE  OnceInv'
<1>0. TypeOK /\ ChunkInv /\ failures \in Nat
  BY DEF IInv, TypeOK
<1>1. ASSUME NEW n \in 0..MaxHeight, BeginChunk(n) PROVE OnceInv'
  <2>1. /\ \A b \in Heights : state[b] = "none" /\ state'[b] \in {"waiting", "none"}
        /\ seeded /\ seeded' = seeded /\ last_seen' = last_seen /\ rows' = rows /\ block' = block
    BY <1>0, <1>1 DEF BeginChunk, ChunkInv, chain, effects
  <2>2. \A b \in Heights : FirstScan(b)'
    BY <2>1 DEF FirstScan
  <2>3. ASSUME NEW t \in Transfers PROVE RowOnce(t)'
    <3>1. RowOnce(t) /\ (block[t] # 0 => block[t] \in Heights)
      BY <1>0, ScannerAssumption DEF OnceInv, TypeOK, Heights
    <3>2. block[t] # 0 => ~IsPast(t)
      BY <2>1, <3>1 DEF IsPast, Visiting
    <3> QED
      BY <2>1, <3>1, <3>2 DEF RowOnce
  <2> QED
    BY <2>1, <2>2, <2>3 DEF OnceInv
<1>2. CASE EndChunk
  <2>1. Commits
    <3>1. \A b \in Heights : state[b] # "false"
      BY DEF OnceInv, FirstScan
    <3> QED
      BY <1>2, <3>1 DEF EndChunk, Commits, Scanned
  <2>2. /\ last_seen' = target /\ seeded' = seeded /\ rows' = rows /\ block' = block
        /\ seeded /\ last_seen < target
        /\ \A b \in Heights : state'[b] = "none"
    BY <1>0, <1>2, <2>1 DEF EndChunk, ChunkInv, chain, effects
  <2>3. \A b \in Heights : FirstScan(b)'
    BY <2>2 DEF FirstScan
  <2>4. ASSUME NEW t \in Transfers PROVE RowOnce(t)'
    <3>1. RowOnce(t) /\ block[t] \in 0..MaxHeight /\ last_seen \in 0..MaxHeight
          /\ target \in 0..MaxHeight
      BY <1>0 DEF OnceInv, TypeOK
    <3>2. block[t] # 0 => block[t] \in Heights
      BY <3>1, ScannerAssumption DEF Heights
    <3>3. block[t] # 0 /\ IsPast(t) => block[t] <= target
      BY <1>0, <3>2 DEF IsPast, ChunkInv, InChunk, Visiting
    <3>4. block[t] <= last_seen => block[t] <= target
      BY <2>2, <3>1, ScannerAssumption
    <3> QED
      BY <2>2, <3>1, <3>3, <3>4 DEF RowOnce
  <2> QED
    BY <2>2, <2>3, <2>4 DEF OnceInv
<1> QED
  BY <1>1, <1>2

\* The chain, the addresses and the first block seen have no row to add.
LEMMA AroundOnce ==
    ASSUME IInv, OnceInv,
           \/ \E txs \in SUBSET Transfers : Mine(txs)
           \/ \E a \in Accounts : SaveKey(a) \/ HandOut(a)
           \/ \E n \in 0..MaxHeight : Seed(n)
    PROVE  OnceInv'
<1>0. TypeOK /\ ChunkInv
  BY DEF IInv
<1>1. /\ UNCHANGED <<state, left, current, rows>> /\ watched \subseteq watched'
  BY DEF Mine, SaveKey, HandOut, Seed, effects, issue
<1>2. \A b \in Heights : FirstScan(b)'
  BY <1>1 DEF OnceInv, FirstScan
<1>3. \A t \in Transfers : block[t] # 0 => block'[t] = block[t]
  BY DEF Mine, SaveKey, HandOut, Seed, chain
<1>4. /\ ~seeded' => last_seen' = 0
      /\ last_seen' = last_seen \/ last_seen = 0
  BY DEF OnceInv, Mine, SaveKey, HandOut, Seed, progress
<1>5. ASSUME NEW t \in Transfers PROVE RowOnce(t)'
  <2>1. RowOnce(t) /\ block[t] \in 0..MaxHeight
    BY <1>0 DEF OnceInv, TypeOK
  <2>2. IsPast(t) /\ block'[t] = block[t] => IsPast(t)'
    BY <1>1 DEF IsPast
  <2>3. block[t] # 0 => ~(block[t] <= 0)
    BY <2>1, ScannerAssumption
  <2> QED
    BY <1>1, <1>3, <1>4, <2>1, <2>2, <2>3 DEF RowOnce
<1> QED
  BY <1>2, <1>4, <1>5 DEF OnceInv

\* As long as all is calm, a transfer gets one row.
LEMMA OnceStep ==
    IInv /\ OwnAreKnown /\ CalmInv /\ [Next]_vars => CalmInv'
<1> SUFFICES ASSUME IInv, OwnAreKnown, CalmInv, [Next]_vars, Calm' PROVE OnceInv'
  BY DEF CalmInv
<1>0. Calm /\ OnceInv /\ restarts' = restarts /\ failures' = failures /\ restarts \in Nat
  BY CalmBefore DEF CalmInv, IInv, TypeOK
<1>1. CASE \/ \E txs \in SUBSET Transfers : Mine(txs)
           \/ \E a \in Accounts : SaveKey(a) \/ HandOut(a)
           \/ \E n \in 0..MaxHeight : Seed(n)
  BY <1>0, <1>1, AroundOnce
<1>2. CASE EndChunk \/ \E n \in 0..MaxHeight : BeginChunk(n)
  BY <1>0, <1>2, ChunkOnce
<1>3. ASSUME NEW b \in Heights, ScanStep(b) PROVE OnceInv'
  <2>1. ASSUME NEW t \in Transfers, Skip(b, t) \/ Notify(b, t) PROVE OnceInv'
    BY <1>0, <2>1, SkipOnce, NotifyOnce
  <2> QED
    BY <1>0, <1>3, <2>1, DownloadOnce, CollectOnce, RecordOnce, FinishOnce DEF ScanStep
<1>4. CASE Restart
  BY <1>0, <1>4 DEF Restart
<1>5. CASE UNCHANGED vars
  BY <1>0, <1>5 DEF vars, OnceInv, FirstScan, RowOnce, IsPast
<1> QED
  BY <1>1, <1>2, <1>3, <1>4, <1>5 DEF Next

\* The AML check of a recorded transfer raises on its row only when a failure, a restart or a
\* transfer the flow does not accept has had a chunk scanned again, or when another log of its
\* transaction to its address has a row too: no transfer has two by itself.
THEOREM SecondRowIsRescan == Spec => []RecordedTwiceIsRescanned
<1>1. Init => OwnAreKnown /\ CalmInv
  BY DEF Init, OwnAreKnown, CalmInv, OnceInv, FirstScan, RowOnce
<1>2. IInv /\ CalmInv => RecordedTwiceIsRescanned
  <2> SUFFICES ASSUME IInv, CalmInv, NEW t \in Transfers, rows[t] > 0, ~IsTheOne(t),
                      ~(failures > 0), ~(restarts > 0),
                      ~\E u \in Transfers : block[u] # 0 /\ Unacceptable(u)
               PROVE  rows[t] = 1 /\ \E u \in Transfers \ {t} : SameKey(t, u) /\ rows[u] > 0
    BY DEF RecordedTwiceIsRescanned
  <2>1. failures \in Nat /\ restarts \in Nat /\ rows \in [Transfers -> 0..Several]
    BY DEF IInv, TypeOK
  <2>2. Calm
    BY <2>1 DEF Calm
  <2>3. RowOnce(t)
    BY <2>2 DEF CalmInv, OnceInv
  <2>4. \A u \in Transfers : rows[u] > 0 \/ rows[u] = 0
    BY <2>1 DEF Several
  <2> QED
    BY <2>3, <2>4 DEF RowOnce, IsTheOne
<1> QED
  BY <1>1, <1>2, KnownStep, OnceStep, Invariance, PTL DEF Spec
================================================================================
