----------------------- MODULE DepositCollectionProofs -----------------------
(***************************************************************************)
(* IInv is inductive; PaidOnce and DrainsFollowVerdict follow from it.      *)
(* NeverStranded follows from a second invariant, Ledger, which weighs the  *)
(* balance of the account against what all of its deposits are owed.        *)
(***************************************************************************)
EXTENDS DepositCollection, FiniteSetTheorems, TLAPS

(***************************************************************************)
(* What the operators return.                                               *)
(***************************************************************************)
\* A split has an address, so that a share is a number.
LEMMA ShareType == ASSUME NEW l \in Levels \cup {Regular} PROVE Share(l) \in Nat
  <1>1. Split[l] \in SUBSET Dests /\ Split[l] # {} /\ IsFiniteSet(Dests) /\ Amount \in Nat
    BY CollectionAssumption
  <1>2. IsFiniteSet(Split[l])
    BY <1>1, FS_Subset
  <1>3. Cardinality(Split[l]) \in Nat /\ Cardinality(Split[l]) # 0
    BY <1>1, <1>2, FS_CardinalityType, FS_EmptySet
  <1>. DEFINE n == Cardinality(Split[l])
  <1>4. n \in Nat /\ n > 0
    BY <1>3
  <1>. HIDE DEF n
  <1>5. Amount \div n \in Nat
    BY <1>1, <1>4
  <1>. QED
    BY <1>5 DEF Share, n

LEMMA IdleIsJob == Idle \in Jobs /\ Shape(Idle) /\ Idle.pc = "idle"
  BY DEF Idle, Jobs, Shape, Pcs, Draining, Sweeping, Listed

\* A job that only changes its place is a job, at that place.
LEMMA Moved ==
    ASSUME TypeOK, NEW w \in Workers, NEW p \in Pcs, Goes(w, p)
    PROVE  \E j \in Jobs :
             /\ job' = [job EXCEPT ![w] = j] /\ j.pc = p
             /\ j.kind = job[w].kind /\ j.dep = job[w].dep /\ j.level = job[w].level
             /\ j.plan = job[w].plan /\ j.dest = job[w].dest
  <1>. DEFINE j == [job[w] EXCEPT !.pc = p]
  <1>1. job[w] \in Jobs
    BY DEF TypeOK
  <1>2. j \in Jobs /\ j.pc = p
        /\ j.kind = job[w].kind /\ j.dep = job[w].dep /\ j.level = job[w].level
        /\ j.plan = job[w].plan /\ j.dest = job[w].dest
    BY <1>1 DEF Jobs
  <1>3. job' = [job EXCEPT ![w] = j]
    BY DEF Goes
  <1>. QED
    BY <1>2, <1>3

\* A row written for a deposit comes after those that are there.
LEMMA Recorded ==
    ASSUME TypeOK, NEW d \in Deposits, NEW t,
           t = [rows EXCEPT ![d] = Append(@, Row("pending", NoLevel))]
    PROVE  /\ t \in [Deposits -> Seq(RowSet)]
           /\ \A e \in Deposits : t[e] # <<>> =>
                t[e][1].level = NoLevel \/ (rows[e] # <<>> /\ t[e][1].level = rows[e][1].level)
  <1>1. rows[d] \in Seq(RowSet) /\ Row("pending", NoLevel) \in RowSet
    BY DEF TypeOK, Row, RowSet
  <1>2. Append(rows[d], Row("pending", NoLevel)) \in Seq(RowSet)
    BY <1>1
  <1>3. t[d] = Append(rows[d], Row("pending", NoLevel))
    BY DEF TypeOK
  <1>4. CASE rows[d] = <<>>
    <2>0. Append(<<>>, Row("pending", NoLevel)) = <<Row("pending", NoLevel)>>
      BY <1>1, <1>2, <1>4
    <2>1. Row("pending", NoLevel).level = NoLevel
      BY DEF Row
    <2>. DEFINE r == Row("pending", NoLevel)
    <2>. HIDE DEF r
    <2>2. <<r>>[1] = r
      OBVIOUS
    <2>4. t[d] = <<r>>
      BY <1>3, <1>4, <2>0, Zenon DEF r
    <2>3. t[d][1] = r
      BY <2>4, <2>2, Zenon
    <2>5. t[d][1].level = NoLevel
      BY <2>1, <2>3, Zenon DEF r
    <2>6. t[d] \in Seq(RowSet) /\ \A e \in Deposits \ {d} : t[e] = rows[e]
      BY <1>2, <1>3 DEF TypeOK
    <2>7. t \in [Deposits -> Seq(RowSet)]
      BY <1>2 DEF TypeOK
    <2>8. ASSUME NEW e \in Deposits, t[e] # <<>>
          PROVE  t[e][1].level = NoLevel \/ (rows[e] # <<>> /\ t[e][1].level = rows[e][1].level)
      <3>1. CASE e = d
        BY <2>5, <3>1, Zenon
      <3>2. CASE e # d
        <4>1. t[e] = rows[e]
          BY <2>6, <3>2
        <4>. QED
          BY <2>8, <4>1
      <3>. QED
        BY <3>1, <3>2
    <2>. QED
      BY <2>7, <2>8
  <1>5. CASE rows[d] # <<>>
    <2>1. Len(rows[d]) \in Nat /\ Len(rows[d]) > 0
      BY <1>1, <1>5
    <2>2. t[d][1] = rows[d][1]
      BY <1>1, <1>3, <2>1
    <2>. QED
      BY <1>2, <1>5, <2>2 DEF TypeOK
  <1>. QED
    BY <1>4, <1>5

\* Marking the first row ready leaves its level.
LEMMA Marked ==
    ASSUME NEW t \in [Deposits -> Seq(RowSet)], NEW d \in Deposits
    PROVE  /\ MarkReady(t, d) \in [Deposits -> Seq(RowSet)]
           /\ \A e \in Deposits : MarkReady(t, d)[e] # <<>> =>
                t[e] # <<>> /\ MarkReady(t, d)[e][1].level = t[e][1].level
  <1>1. CASE t[d] = <<>>
    BY <1>1 DEF MarkReady
  <1>2. CASE t[d] # <<>>
    <2>. DEFINE s == [t[d][1] EXCEPT !.status = "ready"]
                r == [t[d] EXCEPT ![1] = s]
    <2>1. t[d] \in Seq(RowSet) /\ t[d][1] \in RowSet /\ 1 \in 1..Len(t[d])
      BY <1>2
    <2>2. s \in RowSet /\ s.level = t[d][1].level
      BY <2>1 DEF RowSet
    <2>3. r \in Seq(RowSet) /\ r[1] = s
      BY <2>1, <2>2
    <2>4. MarkReady(t, d) = [t EXCEPT ![d] = r]
      BY <1>2 DEF MarkReady
    <2>. QED
      BY <1>2, <2>2, <2>3, <2>4
  <1>. QED
    BY <1>1, <1>2

(***************************************************************************)
(* Every step of the account's tables and of one worker keeps what is good. *)
(***************************************************************************)
\* For d: the worker leaves its drain, or was never in one.
LEMMA Outside ==
    ASSUME IInv, NEW w \in Workers, NEW j \in Jobs, job' = [job EXCEPT ![w] = j],
           flow' = flow, excused \subseteq excused', NEW d \in Deposits \ excused',
           j.pc \in Draining => j.dep # d,
           paid'[d] = paid[d], payouts'[d] = payouts[d],
           job[w].pc = "record" => job[w].dep # d,
           flow = "aml" =>
             /\ rows'[d] # <<>> => rows'[d][1].level \in {NoLevel, verdict'[d]}
             /\ verdict'[d] = verdict[d] \/ verdict[d] = NoLevel
             /\ j.dep = d /\ j.pc \in {"write", "delay"} => j.level \in {NoLevel, verdict'[d]}
    PROVE  Good(d)'
  <1>. d \in Deposits \ excused
    OBVIOUS
  <1>1. Good(d)
    BY DEF IInv
  <1>2. job'[w] = j /\ \A v \in Workers \ {w} : job'[v] = job[v]
    BY DEF IInv, TypeOK
  <1>3. \A v \in Workers : Drain(v, d)' => v # w /\ Drain(v, d)
    BY <1>2 DEF Drain
  <1>4. Exclusive(d)'
    BY <1>1, <1>3 DEF Good, Exclusive
  <1>5. Counted(d)'
    <2>. SUFFICES ASSUME NEW x \in Dests, paid[d][x] # 0
                  PROVE  /\ paid[d][x] = 1
                         /\ x \in payouts[d] \/ \E v \in Workers :
                              Drain(v, d)' /\ job'[v].pc = "record" /\ job'[v].dest = x
      BY DEF Counted
    <2>1. /\ paid[d][x] = 1
          /\ x \in payouts[d] \/ \E v \in Workers :
                Drain(v, d) /\ job[v].pc = "record" /\ job[v].dest = x
      BY <1>1 DEF Good, Counted
    <2>2. ASSUME NEW v \in Workers, Drain(v, d), job[v].pc = "record", job[v].dest = x
          PROVE  Drain(v, d)' /\ job'[v].pc = "record" /\ job'[v].dest = x
      BY <1>2, <2>2 DEF Drain
    <2>. QED
      BY <2>1, <2>2
  <1>6. Unpaid(d)'
    BY <1>1, <1>2, <1>3 DEF Good, Unpaid
  <1>7. ASSUME flow = "aml" PROVE Levelled(d)'
    <2>1. Levelled(d)
      BY <1>1, <1>7 DEF Good
    <2>2. rows'[d] # <<>> => rows'[d][1].level \in {NoLevel, verdict'[d]}
      BY <1>7
    <2>3. ASSUME NEW v \in Workers, job'[v].dep = d
          PROVE  /\ job'[v].pc \in {"write", "delay"} => job'[v].level \in {NoLevel, verdict'[d]}
                 /\ job'[v].pc \in Listed => job'[v].level = verdict'[d] /\ verdict'[d] # NoLevel
      BY <1>2, <1>7, <2>1, <2>3 DEF Levelled, Listed, Draining
    <2>4. \A x \in Dests : paid'[d][x] > 0 => verdict'[d] # NoLevel /\ x \in Split[verdict'[d]]
      BY <1>7, <2>1 DEF Levelled
    <2>. QED
      BY <2>2, <2>3, <2>4 DEF Levelled
  <1>. QED
    BY <1>4, <1>5, <1>6, <1>7 DEF Good

\* The jobs stay as they are.
LEMMA Aside ==
    ASSUME IInv, job' = job, UNCHANGED <<flow, paid, payouts, verdict>>, excused' = excused,
           NEW d \in Deposits \ excused',
           rows'[d] # <<>> => rows'[d][1].level = NoLevel
                              \/ (rows[d] # <<>> /\ rows'[d][1].level = rows[d][1].level)
    PROVE  Good(d)'
  <1>1. Good(d)
    BY DEF IInv
  <1>2. \A v \in Workers : Drain(v, d)' <=> Drain(v, d)
    BY DEF Drain
  <1>3. Exclusive(d)' /\ Unpaid(d)'
    BY <1>1, <1>2 DEF Good, Exclusive, Unpaid
  <1>4. Counted(d)'
    BY <1>1, <1>2 DEF Good, Counted
  <1>5. (flow = "aml" => Levelled(d))'
    BY <1>1 DEF Good, Levelled
  <1>. QED
    BY <1>3, <1>4, <1>5 DEF Good

\* For d: the worker is in d's drain and stays.
LEMMA Within ==
    ASSUME IInv, NEW w \in Workers, NEW j \in Jobs, job' = [job EXCEPT ![w] = j],
           NEW d \in Deposits \ excused, Drain(w, d), j.dep = d, j.pc \in Draining
    PROVE  /\ job'[w] = j /\ \A v \in Workers \ {w} : job'[v] = job[v]
           /\ \A v \in Workers : Drain(v, d) => v = w
           /\ \A v \in Workers : Drain(v, d)' => v = w
           /\ Drain(w, d)' /\ Exclusive(d)'
  <1>1. Exclusive(d)
    BY DEF IInv, Good
  <1>2. job'[w] = j /\ \A v \in Workers \ {w} : job'[v] = job[v]
    BY DEF IInv, TypeOK
  <1>3. \A v \in Workers : Drain(v, d) => v = w
    BY <1>1 DEF Exclusive
  <1>4. \A v \in Workers : Drain(v, d)' => v = w
    BY <1>2, <1>3 DEF Drain
  <1>5. Drain(w, d)'
    BY <1>2 DEF Drain
  <1>. QED
    BY <1>2, <1>3, <1>4, <1>5 DEF Exclusive

\* What is left of Levelled when the worker goes on with its list.
LEMMA LevelStays ==
    ASSUME IInv, NEW w \in Workers, NEW j \in Jobs, job' = [job EXCEPT ![w] = j],
           NEW d \in Deposits \ excused, Drain(w, d), j.dep = d, j.pc \in Draining,
           UNCHANGED <<flow, rows, verdict>>, flow = "aml",
           j.pc \in Listed => j.level = verdict[d] /\ verdict[d] # NoLevel,
           \A x \in Dests : paid'[d][x] > 0 => verdict[d] # NoLevel /\ x \in Split[verdict[d]]
    PROVE  Levelled(d)'
  <1>1. Levelled(d)
    BY DEF IInv, Good
  <1>2. job'[w] = j /\ \A v \in Workers \ {w} : job'[v] = job[v]
    BY DEF IInv, TypeOK
  <1>3. ASSUME NEW v \in Workers, job'[v].dep = d
        PROVE  /\ job'[v].pc \in {"write", "delay"} => job'[v].level \in {NoLevel, verdict[d]}
               /\ job'[v].pc \in Listed => job'[v].level = verdict[d] /\ verdict[d] # NoLevel
    BY <1>1, <1>2, <1>3 DEF Levelled, Draining, Listed
  <1>. QED
    BY <1>1, <1>3 DEF Levelled

\* build_payout_list leaves out what has a row.
LEMMA ListGood ==
    ASSUME IInv, NEW w \in Workers, NEW j \in Jobs, job' = [job EXCEPT ![w] = j],
           NEW d \in Deposits \ excused, Drain(w, d), job[w].pc = "list", j.dep = d,
           j.pc = "balance", j.plan = PayoutList(d), j.level = ListLevel(d),
           ListLevel(d) # NoLevel, UNCHANGED <<flow, rows, verdict, paid, payouts>>
    PROVE  Good(d)'
  <1>0. j.pc \in Draining
    BY DEF Draining
  <1>1. /\ job'[w] = j /\ \A v \in Workers \ {w} : job'[v] = job[v]
        /\ \A v \in Workers : Drain(v, d) => v = w
        /\ \A v \in Workers : Drain(v, d)' => v = w
        /\ Exclusive(d)'
    BY <1>0, Within
  <1>2. Good(d)
    BY DEF IInv
  <1>3. Counted(d)'
    BY <1>1, <1>2 DEF Good, Counted
  <1>4. j.plan \cap payouts[d] = {}
    BY DEF PayoutList
  <1>5. Unpaid(d)'
    BY <1>1, <1>4 DEF Unpaid
  <1>6. ASSUME flow = "aml" PROVE Levelled(d)'
    <2>1. Levelled(d)
      BY <1>2, <1>6 DEF Good
    <2>2. j.level = verdict[d] /\ verdict[d] # NoLevel
      BY <1>6, <2>1 DEF Levelled, ListLevel
    <2>3. \A x \in Dests : paid'[d][x] > 0 => verdict[d] # NoLevel /\ x \in Split[verdict[d]]
      BY <2>1 DEF Levelled
    <2>. QED
      BY <1>0, <1>6, <2>2, <2>3, LevelStays
  <1>. QED
    BY <1>1, <1>3, <1>5, <1>6 DEF Good

\* On to the transfers.
LEMMA BalanceGood ==
    ASSUME IInv, NEW w \in Workers, NEW j \in Jobs, job' = [job EXCEPT ![w] = j],
           NEW d \in Deposits \ excused, Drain(w, d), job[w].pc = "balance", j.dep = d,
           j.pc = "pay", j.plan = job[w].plan, j.level = job[w].level,
           UNCHANGED <<flow, rows, verdict, paid, payouts>>
    PROVE  Good(d)'
  <1>0. j.pc \in Draining
    BY DEF Draining
  <1>1. /\ job'[w] = j /\ \A v \in Workers \ {w} : job'[v] = job[v]
        /\ \A v \in Workers : Drain(v, d) => v = w
        /\ \A v \in Workers : Drain(v, d)' => v = w
        /\ Exclusive(d)'
    BY <1>0, Within
  <1>2. Good(d)
    BY DEF IInv
  <1>3. Counted(d)'
    BY <1>1, <1>2 DEF Good, Counted
  <1>4. Unpaid(d)'
    BY <1>1, <1>2 DEF Good, Unpaid, Drain
  <1>5. ASSUME flow = "aml" PROVE Levelled(d)'
    <2>1. Levelled(d)
      BY <1>2, <1>5 DEF Good
    <2>2. j.level = verdict[d] /\ verdict[d] # NoLevel
      BY <2>1 DEF Levelled, Listed, Drain
    <2>3. \A x \in Dests : paid'[d][x] > 0 => verdict[d] # NoLevel /\ x \in Split[verdict[d]]
      BY <2>1 DEF Levelled
    <2>. QED
      BY <1>0, <1>5, <2>2, <2>3, LevelStays
  <1>. QED
    BY <1>1, <1>3, <1>4, <1>5 DEF Good

\* A destination of the plan has no transfer yet: its first one, or one that
\* fails on chain, and in both cases the row comes next.
LEMMA PayGood ==
    ASSUME IInv, NEW w \in Workers, NEW j \in Jobs, job' = [job EXCEPT ![w] = j],
           NEW d \in Deposits \ excused, Drain(w, d), job[w].pc = "pay", j.dep = d,
           j.pc = "record", j.plan = job[w].plan, j.level = job[w].level,
           NEW x \in job[w].plan, j.dest = x,
           \/ paid' = [paid EXCEPT ![d][x] = @ + 1]
           \/ paid' = paid,
           UNCHANGED <<flow, rows, verdict, payouts>>
    PROVE  Good(d)'
  <1>0. j.pc \in Draining
    BY DEF Draining
  <1>1. /\ job'[w] = j /\ \A v \in Workers \ {w} : job'[v] = job[v]
        /\ \A v \in Workers : Drain(v, d) => v = w
        /\ \A v \in Workers : Drain(v, d)' => v = w
        /\ Drain(w, d)' /\ Exclusive(d)'
    BY <1>0, Within
  <1>2. Good(d) /\ TypeOK /\ Shape(job[w])
    BY DEF IInv
  <1>3. x \in Dests /\ x \notin payouts[d]
    BY <1>2 DEF Good, Unpaid, TypeOK, Jobs
  <1>4. paid[d][x] = 0
    BY <1>1, <1>2, <1>3 DEF Good, Counted
  <1>5. /\ \A y \in Dests \ {x} : paid'[d][y] = paid[d][y]
        /\ paid'[d][x] \in {0, 1}
    BY <1>2, <1>3, <1>4 DEF TypeOK
  <1>6. Counted(d)'
    <2>. SUFFICES ASSUME NEW y \in Dests
                  PROVE  \/ paid'[d][y] = 0
                         \/ /\ paid'[d][y] = 1
                            /\ y \in payouts[d] \/ \E v \in Workers :
                                 Drain(v, d)' /\ job'[v].pc = "record" /\ job'[v].dest = y
      BY DEF Counted
    <2>1. CASE y = x
      BY <1>1, <1>5, <2>1
    <2>2. CASE y # x
      BY <1>1, <1>2, <1>5, <2>2 DEF Good, Counted
    <2>. QED
      BY <2>1, <2>2
  <1>7. Unpaid(d)'
    BY <1>1, <1>2 DEF Good, Unpaid, Drain
  <1>8. ASSUME flow = "aml" PROVE Levelled(d)'
    <2>1. Levelled(d)
      BY <1>2, <1>8 DEF Good
    <2>2. job[w].level = verdict[d] /\ verdict[d] # NoLevel
      BY <2>1 DEF Levelled, Listed, Drain
    <2>3. x \in Split[verdict[d]]
      BY <1>2, <2>2 DEF Shape, Listed
    <2>4. \A y \in Dests : paid'[d][y] > 0 => verdict[d] # NoLevel /\ y \in Split[verdict[d]]
      BY <1>5, <2>1, <2>2, <2>3 DEF Levelled
    <2>. QED
      BY <1>0, <1>8, <2>2, <2>4, LevelStays
  <1>. QED
    BY <1>1, <1>6, <1>7, <1>8 DEF Good

\* The row is written; the next transfer, or the end.
LEMMA RecordGood ==
    ASSUME IInv, NEW w \in Workers, NEW j \in Jobs, job' = [job EXCEPT ![w] = j],
           NEW d \in Deposits \ excused, Drain(w, d), job[w].pc = "record",
           \/ j.pc = "pay" /\ j.dep = d /\ j.plan = job[w].plan \ {job[w].dest}
              /\ j.level = job[w].level
           \/ j = Idle,
           payouts' = [payouts EXCEPT ![d] = @ \cup {job[w].dest}],
           UNCHANGED <<flow, rows, verdict, paid>>
    PROVE  Good(d)'
  <1>1. job'[w] = j /\ \A v \in Workers \ {w} : job'[v] = job[v]
    BY DEF IInv, TypeOK
  <1>2. Good(d) /\ TypeOK
    BY DEF IInv
  <1>3. \A v \in Workers : Drain(v, d) => v = w
    BY <1>2 DEF Good, Exclusive
  <1>4. \A v \in Workers : Drain(v, d)' => v = w /\ j.pc = "pay"
    BY <1>1, <1>3, IdleIsJob DEF Drain, Draining, Idle
  <1>5. Exclusive(d)'
    BY <1>4 DEF Exclusive
  <1>6. payouts'[d] = payouts[d] \cup {job[w].dest}
    BY <1>2 DEF TypeOK
  <1>7. Counted(d)'
    <2>. SUFFICES ASSUME NEW x \in Dests, paid[d][x] # 0
                  PROVE  paid[d][x] = 1 /\ x \in payouts'[d]
      BY DEF Counted
    <2>1. /\ paid[d][x] = 1
          /\ x \in payouts[d] \/ \E v \in Workers :
                Drain(v, d) /\ job[v].pc = "record" /\ job[v].dest = x
      BY <1>2 DEF Good, Counted
    <2>. QED
      BY <1>3, <1>6, <2>1
  <1>8. Unpaid(d)'
    <2>. SUFFICES ASSUME j.pc = "pay" PROVE j.plan \cap payouts'[d] = {}
      BY <1>1, <1>4 DEF Unpaid
    <2>1. job[w].plan \cap payouts[d] = {}
      BY <1>2 DEF Good, Unpaid
    <2>2. j.plan = job[w].plan \ {job[w].dest}
      BY IdleIsJob
    <2>. QED
      BY <1>6, <2>1, <2>2
  <1>9. ASSUME flow = "aml" PROVE Levelled(d)'
    <2>1. Levelled(d)
      BY <1>2, <1>9 DEF Good
    <2>2. ASSUME NEW v \in Workers, job'[v].dep = d
          PROVE  /\ job'[v].pc \in {"write", "delay"} => job'[v].level \in {NoLevel, verdict[d]}
                 /\ job'[v].pc \in Listed => job'[v].level = verdict[d] /\ verdict[d] # NoLevel
      BY <1>1, <2>1, <2>2 DEF Levelled, Listed, Drain, Idle
    <2>. QED
      BY <2>1, <2>2 DEF Levelled
  <1>. QED
    BY <1>5, <1>7, <1>8, <1>9 DEF Good

(***************************************************************************)
(* The actions.                                                             *)
(***************************************************************************)
LEMMA InitGood == Init => IInv
  <1>. SUFFICES ASSUME Init PROVE IInv
    OBVIOUS
  <1>1. TypeOK
    <2>1. job \in [Workers -> Jobs]
      BY IdleIsJob DEF Init
    <2>2. rows \in [Deposits -> Seq(RowSet)]
      BY DEF Init
    <2>. QED
      BY <2>1, <2>2, CollectionAssumption DEF Init, TypeOK, Flows
  <1>2. \A w \in Workers : job[w] = Idle
    BY DEF Init
  <1>3. \A w \in Workers : Shape(job[w])
    BY <1>2, IdleIsJob
  <1>4. ASSUME NEW d \in Deposits PROVE Good(d)
    <2>1. \A w \in Workers : ~Drain(w, d)
      BY <1>2, IdleIsJob DEF Drain, Draining
    <2>2. Levelled(d)
      BY <1>2, IdleIsJob DEF Init, Levelled, Listed
    <2>. QED
      BY <2>1, <2>2 DEF Init, Good, Exclusive, Counted, Unpaid
  <1>. QED
    BY <1>1, <1>3, <1>4 DEF IInv

LEMMA MessageType ==
    ASSUME NEW d \in Deposits, NEW k \in {"payout", "check", "recheck", "transfer"}
    PROVE  Message(k, d) \in Messages
  BY DEF Message, Messages

\* The scanner and beat: no job changes, and rows keep their level.
LEMMA TablesGood ==
    ASSUME IInv, job' = job, excused' = excused, faults' \in 0..MaxFaults,
           UNCHANGED <<deployment, paid, payouts, verdict>>,
           arrived' \subseteq Deposits, held' \in Nat, queue' \subseteq Messages,
           rows' \in [Deposits -> Seq(RowSet)],
           \A d \in Deposits : rows'[d] # <<>> =>
                rows'[d][1].level = NoLevel
                \/ (rows[d] # <<>> /\ rows'[d][1].level = rows[d][1].level)
    PROVE  IInv'
  <1>1. TypeOK'
    BY DEF IInv, TypeOK, deployment
  <1>2. \A w \in Workers : Shape(job[w])'
    BY DEF IInv
  <1>3. ASSUME NEW d \in Deposits \ excused' PROVE Good(d)'
    BY Aside DEF deployment
  <1>. QED
    BY <1>1, <1>2, <1>3 DEF IInv

LEMMA RecordTables ==
    ASSUME IInv, NEW d \in Deposits, NEW a \in Answers, Record(d, a)
    PROVE  /\ queue' \subseteq Messages /\ rows' \in [Deposits -> Seq(RowSet)]
           /\ \A e \in Deposits : rows'[e] # <<>> =>
                rows'[e][1].level = NoLevel
                \/ (rows[e] # <<>> /\ rows'[e][1].level = rows[e][1].level)
  <1>. DEFINE t == [rows EXCEPT ![d] = Append(@, Row("pending", NoLevel))]
  <1>1. TypeOK /\ queue \subseteq Messages
    BY DEF IInv, TypeOK
  <1>2. /\ t \in [Deposits -> Seq(RowSet)]
        /\ \A e \in Deposits : t[e] # <<>> =>
             t[e][1].level = NoLevel \/ (rows[e] # <<>> /\ t[e][1].level = rows[e][1].level)
    BY <1>1, Recorded
  <1>3. /\ MarkReady(t, d) \in [Deposits -> Seq(RowSet)]
        /\ \A e \in Deposits : MarkReady(t, d)[e] # <<>> =>
             t[e] # <<>> /\ MarkReady(t, d)[e][1].level = t[e][1].level
    BY <1>2, Marked
  <1>4. queue' \subseteq Messages
    BY <1>1, MessageType DEF Record, Guarded
  <1>5. rows' \in {rows, t, MarkReady(t, d)}
    BY Zenon DEF Record, Guarded
  <1>. HIDE DEF t
  <1>. QED
    BY <1>1, <1>2, <1>3, <1>4, <1>5 DEF TypeOK

LEMMA ScannerGood ==
    ASSUME IInv, NEW d \in Deposits, NEW a \in Answers, Deposit(d, a) \/ Rescan(d, a)
    PROVE  IInv'
  <1>1. Record(d, a)
    BY DEF Deposit, Rescan
  <1>2. TypeOK /\ Amount \in Nat /\ MaxFaults \in Nat
    BY CollectionAssumption DEF IInv
  <1>3. arrived' \subseteq Deposits /\ held' \in Nat /\ faults' \in 0..MaxFaults
    BY <1>2 DEF Deposit, Rescan, TypeOK, money, chance
  <1>4. job' = job /\ excused' = excused /\ UNCHANGED <<deployment, paid, payouts, verdict>>
    BY DEF Deposit, Rescan, chance, money
  <1>. QED
    BY <1>1, <1>3, <1>4, RecordTables, TablesGood

LEMMA BeatGood ==
    ASSUME IInv, Beat
    PROVE  IInv'
  <1>0. TypeOK
    BY DEF IInv
  <1>1. ASSUME NEW d \in Deposits, NEW a \in Answers, SweepAccounts(d, a)
        PROVE  IInv'
    <2>1. /\ MarkReady(rows, d) \in [Deposits -> Seq(RowSet)]
          /\ \A e \in Deposits : MarkReady(rows, d)[e] # <<>> =>
               rows[e] # <<>> /\ MarkReady(rows, d)[e][1].level = rows[e][1].level
      BY <1>0, Marked DEF TypeOK
    <2>2. rows' \in {rows, MarkReady(rows, d)}
      BY <1>1, Zenon DEF SweepAccounts, Guarded
    <2>3. queue' \subseteq Messages
      BY <1>0, <1>1, MessageType DEF SweepAccounts, Guarded, TypeOK
    <2>4. job' = job /\ excused' = excused /\ faults' = faults /\ arrived' = arrived /\ held' = held
          /\ UNCHANGED <<deployment, paid, payouts, verdict>>
      BY <1>1 DEF SweepAccounts, chance, money
    <2>5. faults' \in 0..MaxFaults /\ arrived' \subseteq Deposits /\ held' \in Nat
      BY <1>0, <2>4 DEF TypeOK
    <2>6. rows' \in [Deposits -> Seq(RowSet)]
      BY <1>0, <2>1, <2>2 DEF TypeOK
    <2>7. \A e \in Deposits : rows'[e] # <<>> =>
            rows[e] # <<>> /\ rows'[e][1].level = rows[e][1].level
      BY <2>1, <2>2
    <2>. QED
      BY <2>3, <2>4, <2>5, <2>6, <2>7, TablesGood
  <1>2. ASSUME UNCHANGED <<deployment, money, tables, verdict, job, chance>>, queue' \subseteq Messages
        PROVE  IInv'
    <2>1. UNCHANGED <<rows, payouts, paid, arrived, held, faults, excused>>
      BY <1>2 DEF money, tables, chance
    <2>2. faults' \in 0..MaxFaults /\ arrived' \subseteq Deposits /\ held' \in Nat
          /\ rows' \in [Deposits -> Seq(RowSet)]
      BY <1>0, <2>1 DEF TypeOK
    <2>. QED
      BY <1>2, <2>1, <2>2, TablesGood
  <1>3. ASSUME NEW d \in Deposits, NEW k \in {"check", "recheck"}, RecheckTransactions(d, k)
        PROVE  IInv'
    BY <1>0, <1>2, <1>3, MessageType DEF RecheckTransactions, TypeOK
  <1>4. ASSUME RescanAccounts PROVE IInv'
    BY <1>0, <1>2, <1>4 DEF RescanAccounts, TypeOK, Message, Messages
  <1>. QED
    BY <1>1, <1>3, <1>4 DEF Beat

(***************************************************************************)
(* A worker outside the transfers.                                          *)
(***************************************************************************)
\* The common part: what the step needs to show of its new job.
LEMMA JobGood ==
    ASSUME IInv, NEW w \in Workers, NEW j \in Jobs, job' = [job EXCEPT ![w] = j], Shape(j),
           flow' = flow, token' = token, arrived' = arrived, held' \in Nat,
           paid' \in [Deposits -> [Dests -> Nat]],
           payouts' \in [Deposits -> SUBSET Dests], rows' \in [Deposits -> Seq(RowSet)],
           verdict' \in [Deposits -> Levels \cup {NoLevel}], queue' \subseteq Messages,
           faults' \in 0..MaxFaults, excused' \subseteq Deposits,
           \A d \in Deposits \ excused' : Good(d)'
    PROVE  IInv'
  <1>1. TypeOK'
    BY DEF IInv, TypeOK
  <1>2. \A v \in Workers : Shape(job'[v])
    BY DEF IInv, TypeOK
  <1>. QED
    BY <1>1, <1>2 DEF IInv

\* Steps that touch the worker's job alone, and the excuses.
LEMMA JobOnly ==
    ASSUME IInv, NEW w \in Workers, NEW j \in Jobs, job' = [job EXCEPT ![w] = j], Shape(j),
           UNCHANGED <<deployment, money, tables, verdict>>, queue' \subseteq Messages,
           faults' \in 0..MaxFaults, excused \subseteq excused', excused' \subseteq Deposits,
           j.pc \notin Draining,
           job[w].pc = "record" => job[w].dep \in excused',
           j.pc \in {"write", "delay"} => j.dep = job[w].dep /\ j.level \in {NoLevel, verdict[j.dep]}
    PROVE  IInv'
  <1>1. UNCHANGED <<flow, token, arrived, held, paid, rows, payouts>> /\ verdict' = verdict
    BY DEF deployment, money, tables
  <1>2. ASSUME NEW d \in Deposits \ excused' PROVE Good(d)'
    <2>1. flow = "aml" => (rows[d] # <<>> => rows[d][1].level \in {NoLevel, verdict[d]})
      BY DEF IInv, Good, Levelled
    <2>. QED
      BY <1>1, <2>1, Outside
  <1>3. /\ held' \in Nat /\ paid' \in [Deposits -> [Dests -> Nat]]
        /\ payouts' \in [Deposits -> SUBSET Dests] /\ rows' \in [Deposits -> Seq(RowSet)]
        /\ verdict' \in [Deposits -> Levels \cup {NoLevel}]
    BY <1>1 DEF IInv, TypeOK
  <1>. QED
    BY <1>1, <1>2, <1>3, JobGood

\* One that ends the task, or moves it, and nothing else.
LEMMA Quiet ==
    ASSUME IInv, NEW w \in Workers, job[w].pc # "record",
           \/ Ends(w)
           \/ \E p \in {"mark", "ask", "scan", "busy", "allow", "gate", "read", "provision", "send"} :
                Goes(w, p) /\ (p \in {"mark", "ask"} => job[w].kind \in {"check", "recheck"}),
           UNCHANGED <<deployment, money, tables, verdict, chance>>, queue' \subseteq Messages
    PROVE  IInv'
  <1>0. TypeOK /\ Shape(job[w]) /\ UNCHANGED <<faults, excused>>
    BY DEF IInv, chance
  <1>1. faults' \in 0..MaxFaults /\ excused' = excused /\ excused \subseteq Deposits
    BY <1>0 DEF TypeOK
  <1>2. CASE Ends(w)
    <2>1. job' = [job EXCEPT ![w] = Idle]
      BY <1>2 DEF Ends
    <2>2. Idle.pc \notin Draining /\ Idle.pc \notin {"write", "delay"}
      BY IdleIsJob DEF Draining
    <2>. QED
      BY <1>1, <2>1, <2>2, IdleIsJob, JobOnly
  <1>3. ASSUME NEW p \in {"mark", "ask", "scan", "busy", "allow", "gate", "read", "provision", "send"},
               Goes(w, p), p \in {"mark", "ask"} => job[w].kind \in {"check", "recheck"}
        PROVE  IInv'
    <2>1. p \in Pcs /\ p \notin Draining /\ p \notin {"write", "delay"}
      BY DEF Pcs, Sweeping, Draining
    <2>2. PICK j \in Jobs :
             /\ job' = [job EXCEPT ![w] = j] /\ j.pc = p
             /\ j.kind = job[w].kind /\ j.dep = job[w].dep /\ j.level = job[w].level
             /\ j.plan = job[w].plan /\ j.dest = job[w].dest
      BY <1>0, <1>3, <2>1, Moved
    <2>3. Shape(j)
      BY <1>0, <1>3, <2>1, <2>2 DEF Shape, Listed, Draining
    <2>. QED
      BY <1>1, <2>1, <2>2, <2>3, JobOnly
  <1>. QED
    BY <1>2, <1>3

(***************************************************************************)
(* A worker's steps.                                                        *)
(***************************************************************************)
\* run_payout_for_tx goes in after it has seen no twin: the drain is alone.
LEMMA EnterGood ==
    ASSUME IInv, NEW w \in Workers, job[w].pc = "inspect", Goes(w, "list"),
           job[w].kind = "payout", faults' \in 0..MaxFaults,
           \/ ~Twin(w) /\ excused' = excused
           \/ excused' = excused \cup ({job[w].dep} \cap Deposits),
           UNCHANGED <<deployment, money, tables, verdict, queue>>
    PROVE  IInv'
  <1>0. TypeOK /\ Shape(job[w]) /\ "list" \in Pcs
    BY DEF IInv, Pcs, Draining
  <1>1. PICK j \in Jobs :
           /\ job' = [job EXCEPT ![w] = j] /\ j.pc = "list"
           /\ j.kind = job[w].kind /\ j.dep = job[w].dep
    BY <1>0, Moved
  <1>2. Shape(j) /\ j.dep \in Deposits
    BY <1>0, <1>1 DEF Shape, Listed
  <1>3. UNCHANGED <<flow, token, arrived, held, paid, rows, payouts>> /\ verdict' = verdict
    BY DEF deployment, money, tables
  <1>4. ASSUME NEW d \in Deposits \ excused' PROVE Good(d)'
    <2>0. d \in Deposits \ excused /\ excused \subseteq excused'
      OBVIOUS
    <2>1. Good(d)
      BY <2>0 DEF IInv
    <2>2. flow = "aml" => (rows[d] # <<>> => rows[d][1].level \in {NoLevel, verdict[d]})
      BY <2>1 DEF Good, Levelled
    <2>3. CASE j.dep # d
      BY <1>1, <1>3, <2>0, <2>2, <2>3, Outside
    <2>4. CASE j.dep = d
      <3>1. ~Twin(w)
        BY <1>1, <2>4
      <3>2. \A v \in Workers : ~Drain(v, d)
        <4>. SUFFICES ASSUME NEW v \in Workers, Drain(v, d) PROVE FALSE
          OBVIOUS
        <4>1. v # w /\ job[v].pc # "idle" /\ job[v].dep = job[w].dep
          BY <1>1, <2>4 DEF Drain, Draining
        <4>2. job[v].kind = "payout"
          BY DEF IInv, Shape, Drain
        <4>. QED
          BY <3>1, <4>1, <4>2 DEF Twin
      <3>3. job'[w] = j /\ \A v \in Workers \ {w} : job'[v] = job[v]
        BY <1>0, <1>1 DEF TypeOK
      <3>4. \A v \in Workers : Drain(v, d)' => v = w
        BY <3>2, <3>3 DEF Drain
      <3>5. Exclusive(d)' /\ Unpaid(d)'
        BY <1>1, <3>3, <3>4 DEF Exclusive, Unpaid
      <3>6. Counted(d)'
        BY <1>3, <2>1, <3>2 DEF Good, Counted
      <3>7. flow = "aml" => Levelled(d)'
        BY <1>1, <1>3, <2>1, <3>3 DEF Good, Levelled, Listed
      <3>. QED
        BY <1>3, <3>5, <3>6, <3>7 DEF Good
    <2>. QED
      BY <2>3, <2>4
  <1>5. excused' \subseteq Deposits
    BY <1>0 DEF TypeOK
  <1>6. /\ held' \in Nat /\ paid' \in [Deposits -> [Dests -> Nat]]
        /\ payouts' \in [Deposits -> SUBSET Dests] /\ rows' \in [Deposits -> Seq(RowSet)]
        /\ verdict' \in [Deposits -> Levels \cup {NoLevel}] /\ queue' \subseteq Messages
    BY <1>0, <1>3 DEF TypeOK
  <1>. QED
    BY <1>1, <1>2, <1>3, <1>4, <1>5, <1>6, JobGood

LEMMA StartGood ==
    ASSUME IInv, NEW w \in Workers, Starting(w)
    PROVE  IInv'
  <1>0. TypeOK /\ Shape(job[w])
    BY DEF IInv
  <1>1. ASSUME NEW m \in queue, Take(w, m) PROVE IInv'
    <2>. DEFINE j == [Idle EXCEPT !.kind = m.kind, !.dep = m.dep,
                         !.pc = IF m.kind = "transfer" THEN SweepStart ELSE "inspect"]
    <2>1. m \in Messages
      BY <1>0 DEF TypeOK
    <2>2. /\ j \in Jobs /\ j.kind = m.kind /\ j.dep = m.dep
          /\ j.pc \in {"gate", "provision", "inspect"}
          /\ (m.kind = "scan" \/ m.dep \in Deposits)
          /\ (j.pc = "inspect" => j.kind \in {"payout", "check", "recheck", "scan"})
      BY <2>1 DEF Messages, Idle, Jobs, SweepStart, Pcs, Sweeping
    <2>3. job' = [job EXCEPT ![w] = j]
      BY <1>1 DEF Take
    <2>. HIDE DEF j
    <2>4. Shape(j) /\ j.pc \notin Draining /\ j.pc \notin {"write", "delay"}
      BY <2>1, <2>2 DEF Shape, Draining, Listed, Messages
    <2>5. UNCHANGED <<deployment, money, tables, verdict>> /\ queue' \subseteq Messages
          /\ faults' \in 0..MaxFaults /\ excused' = excused /\ excused \subseteq Deposits
          /\ job[w].pc # "record"
      BY <1>0, <1>1 DEF Take, chance, TypeOK
    <2>. QED
      BY <2>2, <2>3, <2>4, <2>5, JobOnly
  <1>2. FirstStep(job[w].kind) \in {"gate", "list", "scan", "mark", "ask"}
        /\ (FirstStep(job[w].kind) = "list" => job[w].kind = "payout")
        /\ (job[w].kind \in {"payout", "check", "recheck", "scan"}
              /\ FirstStep(job[w].kind) \in {"mark", "ask"} => job[w].kind \in {"check", "recheck"})
    BY DEF FirstStep
  <1>3. job[w].pc = "inspect" => job[w].kind \in {"payout", "check", "recheck", "scan"}
    BY <1>0 DEF Shape
  <1>4. ASSUME Inspect(w) PROVE IInv'
    <2>1. job[w].pc = "inspect" /\ ~Twin(w) /\ Goes(w, FirstStep(job[w].kind))
          /\ UNCHANGED <<deployment, money, tables, verdict, queue, chance>>
      BY <1>4, Zenon DEF Inspect
    <2>2. queue' \subseteq Messages /\ faults' \in 0..MaxFaults /\ excused' = excused
      BY <1>0, <2>1 DEF TypeOK, chance
    <2>3. CASE FirstStep(job[w].kind) = "list"
      BY <1>2, <2>1, <2>2, <2>3, EnterGood
    <2>4. CASE FirstStep(job[w].kind) # "list"
      BY <1>2, <1>3, <2>1, <2>2, <2>4, Quiet
    <2>. QED
      BY <2>3, <2>4
  <1>5. ASSUME Skip(w) PROVE IInv'
    <2>1. job[w].pc # "record" /\ Ends(w) /\ queue' \subseteq Messages
          /\ UNCHANGED <<deployment, money, tables, verdict, chance>>
      BY <1>0, <1>5 DEF Skip, TypeOK
    <2>. QED
      BY <2>1, Quiet
  <1>6. ASSUME InspectLost(w) PROVE IInv'
    <2>1. job[w].pc = "inspect" /\ Goes(w, FirstStep(job[w].kind))
          /\ UNCHANGED <<deployment, money, tables, verdict, queue>>
          /\ faults < MaxFaults /\ faults' = faults + 1
          /\ excused' = excused \cup ({job[w].dep} \cap Deposits)
      BY <1>6, Zenon DEF InspectLost
    <2>2. faults' \in 0..MaxFaults /\ queue' \subseteq Messages
          /\ excused \subseteq excused' /\ excused' \subseteq Deposits
      BY <1>0, <2>1, CollectionAssumption DEF TypeOK
    <2>3. CASE FirstStep(job[w].kind) = "list"
      BY <1>2, <2>1, <2>2, <2>3, EnterGood
    <2>4. CASE FirstStep(job[w].kind) # "list"
      <3>. DEFINE p == FirstStep(job[w].kind)
      <3>1. p \in {"gate", "scan", "mark", "ask"}
            /\ (p \in {"mark", "ask"} => job[w].kind \in {"check", "recheck"})
        BY <1>2, <1>3, <2>1, <2>4
      <3>. HIDE DEF p
      <3>2. p \in Pcs /\ p \notin Draining /\ p \notin {"write", "delay"}
        BY <3>1 DEF Pcs, Sweeping, Draining
      <3>3. Goes(w, p)
        BY <2>1 DEF p
      <3>4. PICK j \in Jobs :
               /\ job' = [job EXCEPT ![w] = j] /\ j.pc = p
               /\ j.kind = job[w].kind /\ j.dep = job[w].dep
        BY <1>0, <3>2, <3>3, Moved
      <3>5. Shape(j)
        BY <1>0, <3>1, <3>4 DEF Shape, Listed, Draining
      <3>. QED
        BY <2>1, <2>2, <3>2, <3>4, <3>5, JobOnly
    <2>. QED
      BY <2>3, <2>4
  <1>. QED
    BY <1>1, <1>4, <1>5, <1>6 DEF Starting

\* A worker dies: of a transfer without its row nothing is promised any more.
LEMMA CrashGood ==
    ASSUME IInv, NEW w \in Workers, Crash(w)
    PROVE  IInv'
  <1>0. TypeOK /\ Shape(job[w])
    BY DEF IInv
  <1>1. /\ job' = [job EXCEPT ![w] = Idle] /\ faults < MaxFaults /\ faults' = faults + 1
        /\ UNCHANGED <<deployment, money, tables, verdict, queue>>
        /\ excused' = IF job[w].pc = "record" THEN excused \cup {job[w].dep} ELSE excused
    BY DEF Crash, Ends
  <1>2. job[w].pc = "record" => job[w].dep \in Deposits
    BY <1>0 DEF Shape, Draining
  <1>3. faults' \in 0..MaxFaults /\ queue' \subseteq Messages /\ excused \subseteq excused'
        /\ excused' \subseteq Deposits /\ (job[w].pc = "record" => job[w].dep \in excused')
    BY <1>0, <1>1, <1>2, CollectionAssumption DEF TypeOK
  <1>4. Idle.pc \notin Draining /\ Idle.pc \notin {"write", "delay"}
    BY IdleIsJob DEF Draining
  <1>. QED
    BY <1>1, <1>3, <1>4, IdleIsJob, JobOnly

\* An answer of the AML service, with its verdict.
LEMMA AskGood ==
    ASSUME IInv, NEW w \in Workers, job[w].pc = "ask", NEW l \in Levels,
           verdict' = [verdict EXCEPT ![job[w].dep] = l],
           job' = [job EXCEPT ![w].pc = "write", ![w].level = l],
           faults' \in 0..MaxFaults,
           \/ verdict[job[w].dep] \in {NoLevel, l} /\ excused' = excused
           \/ excused' = excused \cup {job[w].dep},
           UNCHANGED <<deployment, money, tables, queue>>
    PROVE  IInv'
  <1>0. TypeOK /\ Shape(job[w]) /\ job[w] \in Jobs
    BY DEF IInv, TypeOK
  <1>1. job[w].dep \in Deposits /\ job[w].kind \in {"check", "recheck"}
    BY <1>0 DEF Shape
  <1>. DEFINE j == [job[w] EXCEPT !.pc = "write", !.level = l]
  <1>2. j \in Jobs /\ j.pc = "write" /\ j.level = l /\ j.dep = job[w].dep /\ j.kind = job[w].kind
    BY <1>0 DEF Jobs, Pcs
  <1>3. job' = [job EXCEPT ![w] = j]
    BY <1>0 DEF TypeOK
  <1>. HIDE DEF j
  <1>4. Shape(j) /\ j.pc \notin Draining
    BY <1>1, <1>2 DEF Shape, Draining, Listed
  <1>5. UNCHANGED <<flow, token, arrived, held, paid, rows, payouts>>
    BY DEF deployment, money, tables
  <1>6. verdict' \in [Deposits -> Levels \cup {NoLevel}] /\ excused' \subseteq Deposits
        /\ excused \subseteq excused'
    BY <1>0, <1>1 DEF TypeOK
  <1>7. ASSUME NEW d \in Deposits \ excused' PROVE Good(d)'
    <2>1. verdict'[d] = verdict[d] \/ verdict[d] = NoLevel
      BY <1>0, <1>1 DEF TypeOK
    <2>2. j.dep = d => verdict'[d] = l
      BY <1>0, <1>1, <1>2 DEF TypeOK
    <2>3. flow = "aml" => (rows[d] # <<>> => rows[d][1].level \in {NoLevel, verdict[d]})
      BY <1>6 DEF IInv, Good, Levelled
    <2>. QED
      BY <1>2, <1>3, <1>4, <1>5, <1>6, <2>1, <2>2, <2>3, Outside
  <1>8. /\ held' \in Nat /\ paid' \in [Deposits -> [Dests -> Nat]]
        /\ payouts' \in [Deposits -> SUBSET Dests] /\ rows' \in [Deposits -> Seq(RowSet)]
        /\ queue' \subseteq Messages
    BY <1>0, <1>5 DEF TypeOK
  <1>. QED
    BY <1>2, <1>3, <1>4, <1>5, <1>6, <1>7, <1>8, JobGood

\* The verdict reaches the deposit's first row.
LEMMA WriteGood ==
    ASSUME IInv, NEW w \in Workers, WriteVerdict(w)
    PROVE  IInv'
  <1>. DEFINE d0 == job[w].dep
              l0 == job[w].level
              r == Row(IF l0 = NoLevel THEN "rechecking" ELSE "ready", l0)
  <1>0. TypeOK /\ Shape(job[w]) /\ job[w] \in Jobs /\ job[w].pc = "write"
    BY DEF IInv, TypeOK, WriteVerdict
  <1>1. d0 \in Deposits /\ job[w].kind \in {"check", "recheck"}
    BY <1>0 DEF Shape
  <1>2. /\ UNCHANGED <<flow, token, arrived, held, paid, payouts, faults, excused>>
        /\ verdict' = verdict /\ queue' = queue
    BY DEF WriteVerdict, deployment, money, chance
  <1>3. PICK j \in Jobs :
           /\ job' = [job EXCEPT ![w] = j] /\ Shape(j)
           /\ j = Idle \/ (j.pc = "delay" /\ j.dep = d0 /\ j.level = l0)
    <2>1. Ends(w) \/ Goes(w, "delay")
      BY Zenon DEF WriteVerdict
    <2>2. CASE Ends(w)
      BY <2>2, IdleIsJob DEF Ends
    <2>3. CASE Goes(w, "delay")
      <3>1. "delay" \in Pcs
        BY DEF Pcs
      <3>2. PICK j \in Jobs :
               /\ job' = [job EXCEPT ![w] = j] /\ j.pc = "delay" /\ j.kind = job[w].kind
               /\ j.dep = job[w].dep /\ j.level = job[w].level
        BY <1>0, <2>3, <3>1, Moved
      <3>3. Shape(j)
        BY <1>0, <1>1, <3>2 DEF Shape, Draining, Listed
      <3>. QED
        BY <3>2, <3>3
    <2>. QED
      BY <2>1, <2>2, <2>3
  <1>4. rows' = rows \/ (rows[d0] # <<>> /\ l0 \in Levels \cup {NoLevel}
                         /\ rows' = [rows EXCEPT ![d0][1] = r])
    <2>1. l0 \in Levels \cup {NoLevel}
      BY <1>0 DEF Shape
    <2>2. rows[d0] \in Seq(RowSet)
      BY <1>0, <1>1 DEF TypeOK
    <2>3. Len(rows[d0]) = 1 => rows[d0] # <<>>
      <3>1. \A s : s = <<>> => Len(s) # 1
        OBVIOUS
      <3>. QED
        BY <3>1, Zenon
    <2>4. rows' = rows \/ (rows[d0] # <<>> /\ rows' = [rows EXCEPT ![d0][1] = r])
      BY <2>3, Zenon DEF WriteVerdict, Checked
    <2>. QED
      BY <2>1, <2>4
  <1>5. /\ rows' \in [Deposits -> Seq(RowSet)]
        /\ \A d \in Deposits : rows'[d] # <<>> =>
             /\ rows[d] # <<>>
             /\ rows'[d][1].level = rows[d][1].level \/ (d = d0 /\ rows'[d][1].level = l0)
    <2>1. CASE rows' = rows
      BY <1>0, <2>1 DEF TypeOK
    <2>2. CASE rows[d0] # <<>> /\ l0 \in Levels \cup {NoLevel} /\ rows' = [rows EXCEPT ![d0][1] = r]
      <3>1. rows[d0] \in Seq(RowSet) /\ 1 \in 1..Len(rows[d0])
        BY <1>0, <1>1, <2>2 DEF TypeOK
      <3>2. r \in RowSet /\ r.level = l0
        BY <2>2 DEF Row, RowSet
      <3>. DEFINE q == [rows[d0] EXCEPT ![1] = r]
      <3>. HIDE DEF r
      <3>3. q \in Seq(RowSet) /\ q[1] = r
        BY <3>1, <3>2
      <3>4. rows' = [rows EXCEPT ![d0] = q]
        BY <2>2
      <3>. HIDE DEF q
      <3>5. rows'[d0] = q /\ (\A d \in Deposits \ {d0} : rows'[d] = rows[d])
            /\ rows' \in [Deposits -> Seq(RowSet)]
        BY <1>0, <1>1, <3>3, <3>4 DEF TypeOK
      <3>. QED
        BY <2>2, <3>2, <3>3, <3>5
    <2>. QED
      BY <1>4, <2>1, <2>2
  <1>. HIDE DEF r
  <1>6. ASSUME NEW d \in Deposits \ excused' PROVE Good(d)'
    <2>1. Good(d)
      BY <1>2 DEF IInv
    <2>2. ASSUME flow = "aml" PROVE /\ rows[d] # <<>> => rows[d][1].level \in {NoLevel, verdict[d]}
                                    /\ d = d0 => l0 \in {NoLevel, verdict[d]}
      BY <1>0, <2>1, <2>2 DEF Good, Levelled
    <2>3. j.pc \notin Draining /\ (j.dep = d /\ j.pc \in {"write", "delay"} => d = d0 /\ j.level = l0)
      BY <1>3, IdleIsJob DEF Draining
    <2>4. job[w].pc # "record"
      BY <1>0
    <2>5. flow = "aml" =>
            /\ rows'[d] # <<>> => rows'[d][1].level \in {NoLevel, verdict[d]}
            /\ j.dep = d /\ j.pc \in {"write", "delay"} => j.level \in {NoLevel, verdict[d]}
      BY <1>5, <2>2, <2>3
    <2>. HIDE DEF d0, l0
    <2>. QED
      BY <1>2, <1>3, <2>3, <2>4, <2>5, Outside
  <1>7. /\ held' \in Nat /\ paid' \in [Deposits -> [Dests -> Nat]]
        /\ payouts' \in [Deposits -> SUBSET Dests] /\ queue' \subseteq Messages
        /\ verdict' \in [Deposits -> Levels \cup {NoLevel}]
        /\ faults' \in 0..MaxFaults /\ excused' \subseteq Deposits
    BY <1>0, <1>2 DEF TypeOK
  <1>. QED
    BY <1>2, <1>3, <1>5, <1>6, <1>7, JobGood

LEMMA CheckGood ==
    ASSUME IInv, NEW w \in Workers, Checking(w)
    PROVE  IInv'
  <1>0. TypeOK /\ Shape(job[w]) /\ job[w] \in Jobs
    BY DEF IInv, TypeOK
  <1>1. ASSUME NEW l \in Levels, AskScore(w, l) PROVE IInv'
    <2>1. faults' \in 0..MaxFaults /\ excused' = excused
      BY <1>0, <1>1 DEF AskScore, chance, TypeOK
    <2>. QED
      BY <1>1, <2>1, AskGood DEF AskScore
  <1>2. ASSUME NEW l \in Levels, AskNewScore(w, l) PROVE IInv'
    <2>1. faults' \in 0..MaxFaults
      BY <1>0, <1>2, CollectionAssumption DEF AskNewScore, TypeOK
    <2>. QED
      BY <1>2, <2>1, AskGood DEF AskNewScore
  <1>3. ASSUME AskPending(w) PROVE IInv'
    <2>1. job[w].pc = "ask" /\ UNCHANGED <<deployment, money, tables, verdict, chance>>
          /\ queue' \subseteq Messages /\ faults' \in 0..MaxFaults /\ excused' = excused
          /\ excused \subseteq Deposits
      BY <1>0, <1>3 DEF AskPending, TypeOK, chance
    <2>2. CASE Ends(w)
      BY <2>1, <2>2, Quiet
    <2>3. CASE job' = [job EXCEPT ![w].pc = "write", ![w].level = NoLevel]
      <3>. DEFINE j == [job[w] EXCEPT !.pc = "write", !.level = NoLevel]
      <3>1. j \in Jobs /\ j.pc = "write" /\ j.level = NoLevel /\ j.dep = job[w].dep /\ j.kind = job[w].kind
        BY <1>0 DEF Jobs, Pcs
      <3>2. job' = [job EXCEPT ![w] = j]
        BY <1>0, <2>3 DEF TypeOK
      <3>. HIDE DEF j
      <3>3. Shape(j) /\ j.pc \notin Draining
        BY <1>0, <2>1, <3>1 DEF Shape, Draining, Listed
      <3>. QED
        BY <2>1, <3>1, <3>2, <3>3, JobOnly
    <2>. QED
      BY <1>3, <2>2, <2>3 DEF AskPending
  <1>4. ASSUME QueuePayout(w) PROVE IInv'
    <2>1. job[w].dep \in Deposits
      BY <1>0, <1>4 DEF QueuePayout, Shape
    <2>2. queue' \subseteq Messages
      BY <1>0, <1>4, <2>1, MessageType DEF QueuePayout, TypeOK
    <2>. QED
      BY <1>4, <2>2, Quiet DEF QueuePayout
  <1>5. ASSUME NEW a \in Answers, Mark(w, a) PROVE IInv'
    <2>1. job[w].dep \in Deposits /\ job[w].pc = "mark"
      BY <1>0, <1>5 DEF Mark, Shape
    <2>. DEFINE d0 == job[w].dep
                t == MarkReady(rows, d0)
    <2>2. /\ t \in [Deposits -> Seq(RowSet)]
          /\ \A e \in Deposits : t[e] # <<>> =>
               rows[e] # <<>> /\ t[e][1].level = rows[e][1].level
      BY <1>0, <2>1, Marked DEF TypeOK
    <2>3. rows' \in {rows, t}
      BY <1>5, Zenon DEF Mark, Guarded
    <2>4. queue' \subseteq Messages
      BY <1>0, <1>5, <2>1, MessageType DEF Mark, Guarded, TypeOK
    <2>. HIDE DEF t
    <2>5. /\ rows' \in [Deposits -> Seq(RowSet)]
          /\ \A e \in Deposits : rows'[e] # <<>> =>
               rows[e] # <<>> /\ rows'[e][1].level = rows[e][1].level
      BY <1>0, <2>2, <2>3 DEF TypeOK
    <2>6. /\ UNCHANGED <<flow, token, arrived, held, paid, payouts, faults, excused>>
          /\ verdict' = verdict /\ job' = [job EXCEPT ![w] = Idle]
      BY <1>5 DEF Mark, Ends, deployment, money, chance
    <2>7. Idle.pc \notin Draining /\ Idle.pc \notin {"write", "delay"}
      BY IdleIsJob DEF Draining
    <2>8. ASSUME NEW d \in Deposits \ excused' PROVE Good(d)'
      <3>1. flow = "aml" => (rows'[d] # <<>> => rows'[d][1].level \in {NoLevel, verdict[d]})
        BY <2>5, <2>6 DEF IInv, Good, Levelled
      <3>. QED
        BY <2>1, <2>6, <2>7, <3>1, IdleIsJob, Outside
    <2>9. /\ held' \in Nat /\ paid' \in [Deposits -> [Dests -> Nat]]
          /\ payouts' \in [Deposits -> SUBSET Dests]
          /\ verdict' \in [Deposits -> Levels \cup {NoLevel}]
          /\ faults' \in 0..MaxFaults /\ excused' \subseteq Deposits
      BY <1>0, <2>6 DEF TypeOK
    <2>. QED
      BY <2>4, <2>5, <2>6, <2>8, <2>9, IdleIsJob, JobGood
  <1>. QED
    BY <1>1, <1>2, <1>3, <1>4, <1>5, WriteGood DEF Checking

\* A step of a drain: good for its own deposit, and out of sight for others.
LEMMA DrainStep ==
    ASSUME IInv, NEW w \in Workers, job[w].pc \in Draining, NEW j \in Jobs,
           NEW d0, d0 = job[w].dep,
           job' = [job EXCEPT ![w] = j], Shape(j), j = Idle \/ j.dep = d0,
           UNCHANGED <<deployment, arrived, rows, verdict, queue>>, held' \in Nat,
           paid' \in [Deposits -> [Dests -> Nat]], payouts' \in [Deposits -> SUBSET Dests],
           \A d \in Deposits \ {d0} : paid'[d] = paid[d] /\ payouts'[d] = payouts[d],
           faults' \in 0..MaxFaults, excused \subseteq excused', excused' \subseteq Deposits,
           d0 \notin excused' => Good(d0)'
    PROVE  IInv'
  <1>0. TypeOK /\ UNCHANGED <<flow, token>>
    BY DEF IInv, deployment
  <1>1. ASSUME NEW d \in Deposits \ excused' PROVE Good(d)'
    <2>1. CASE d = d0
      BY <2>1
    <2>2. CASE d # d0
      <3>1. (j.pc \in Draining => j.dep # d) /\ (j.pc \in {"write", "delay"} => j.dep # d)
        BY <2>2, IdleIsJob DEF Draining
      <3>2. flow = "aml" => (rows[d] # <<>> => rows[d][1].level \in {NoLevel, verdict[d]})
        BY DEF IInv, Good, Levelled
      <3>. QED
        BY <1>0, <2>2, <3>1, <3>2, Outside
    <2>. QED
      BY <2>1, <2>2
  <1>2. rows' \in [Deposits -> Seq(RowSet)] /\ queue' \subseteq Messages
        /\ verdict' \in [Deposits -> Levels \cup {NoLevel}]
    BY <1>0 DEF TypeOK
  <1>. QED
    BY <1>0, <1>1, <1>2, JobGood

\* A transfer takes no more than is there.
LEMMA MovesType ==
    ASSUME IInv, NEW w \in Workers, NEW x \in Dests, job[w].pc = "pay", Moves(w, x)
    PROVE  /\ held' \in Nat /\ job[w].dep \in Deposits /\ x \in job[w].plan
           /\ arrived' = arrived /\ paid' = [paid EXCEPT ![job[w].dep][x] = @ + 1]
           /\ paid' \in [Deposits -> [Dests -> Nat]]
           /\ \A d \in Deposits \ {job[w].dep} : paid'[d] = paid[d]
  <1>0. TypeOK /\ Shape(job[w])
    BY DEF IInv
  <1>1. job[w].dep \in Deposits /\ job[w].level \in Levels \cup {Regular}
    BY <1>0 DEF Shape, Draining, Listed
  <1>2. Share(job[w].level) \in Nat
    BY <1>1, ShareType
  <1>3. held' \in Nat
    BY <1>0, <1>2 DEF Moves, TypeOK
  <1>4. arrived' = arrived /\ paid' = [paid EXCEPT ![job[w].dep][x] = @ + 1] /\ x \in job[w].plan
    BY DEF Moves
  <1>5. paid' \in [Deposits -> [Dests -> Nat]]
        /\ \A d \in Deposits \ {job[w].dep} : paid'[d] = paid[d]
    BY <1>0, <1>1, <1>4 DEF TypeOK
  <1>. QED
    BY <1>1, <1>3, <1>4, <1>5

LEMMA DrainsGood ==
    ASSUME IInv, NEW w \in Workers, Drains(w)
    PROVE  IInv'
  <1>. SUFFICES ASSUME NEW d0, d0 = job[w].dep PROVE IInv'
    OBVIOUS
  <1>0. TypeOK /\ Shape(job[w]) /\ job[w] \in Jobs
    BY DEF IInv, TypeOK
  <1>1. job[w].pc \in Draining => d0 \in Deposits /\ job[w].kind = "payout" /\ Drain(w, d0)
    BY <1>0 DEF Shape, Drain
  <1>2. faults \in 0..MaxFaults /\ excused \subseteq Deposits /\ held \in Nat
        /\ paid \in [Deposits -> [Dests -> Nat]] /\ payouts \in [Deposits -> SUBSET Dests]
        /\ queue \subseteq Messages
    BY <1>0 DEF TypeOK
  <1>3. ASSUME BuildPayoutList(w) PROVE IInv'
    <2>0. job[w].pc = "list" /\ UNCHANGED <<deployment, money, tables, verdict, queue, chance>>
      BY <1>3 DEF BuildPayoutList
    <2>1. UNCHANGED <<arrived, held, paid, rows, payouts, faults, excused, flow>>
      BY <2>0 DEF money, tables, chance, deployment
    <2>2. CASE PayoutList(d0) = {}
      <3>1. Ends(w)
        BY <1>3, <2>2, Zenon DEF BuildPayoutList
      <3>. QED
        BY <1>2, <2>0, <3>1, Quiet
    <2>3. CASE PayoutList(d0) # {}
      <3>. DEFINE j == [job[w] EXCEPT !.pc = "balance", !.plan = PayoutList(d0), !.level = ListLevel(d0)]
      <3>0. d0 \in Deposits /\ job[w].pc \in Draining
        BY <1>1, <2>0 DEF Draining
      <3>1. job' = [job EXCEPT ![w] = j]
        BY <1>3, <2>3, Zenon DEF BuildPayoutList
      <3>2. ListLevel(d0) # NoLevel
        BY <2>3 DEF PayoutList
      <3>3. ListLevel(d0) \in Levels \cup {Regular}
        <4>1. rows[d0] # <<>>
          BY <3>2 DEF ListLevel
        <4>2. rows[d0] \in Seq(RowSet)
          BY <1>0, <3>0 DEF TypeOK
        <4>3. rows[d0][1] \in RowSet
          BY <4>1, <4>2
        <4>4. rows[d0][1].level \in Levels \cup {NoLevel}
          BY <4>3 DEF RowSet
        <4>. QED
          BY <3>2, <4>4, Zenon DEF ListLevel
      <3>4. PayoutList(d0) \subseteq Split[ListLevel(d0)] /\ PayoutList(d0) \subseteq Dests
        BY <3>2, <3>3, CollectionAssumption DEF PayoutList
      <3>5. /\ j \in Jobs /\ j.pc = "balance" /\ j.plan = PayoutList(d0) /\ j.level = ListLevel(d0)
            /\ j.dep = d0 /\ j.kind = job[w].kind
        BY <1>0, <3>3, <3>4 DEF Jobs, Pcs, Draining
      <3>. HIDE DEF j
      <3>6. Shape(j)
        BY <1>1, <3>0, <3>3, <3>4, <3>5 DEF Shape, Listed, Draining
      <3>7. d0 \notin excused' => Good(d0)'
        BY <1>1, <2>0, <2>1, <3>0, <3>1, <3>2, <3>5, ListGood
      <3>. QED
        BY <1>2, <2>0, <2>1, <3>0, <3>1, <3>5, <3>6, <3>7, DrainStep
    <2>. QED
      BY <2>2, <2>3
  <1>4. ASSUME CheckBalance(w) PROVE IInv'
    <2>0. job[w].pc = "balance" /\ Goes(w, "pay")
          /\ UNCHANGED <<deployment, money, tables, verdict, queue, chance>>
      BY <1>4 DEF CheckBalance
    <2>1. UNCHANGED <<arrived, held, paid, rows, payouts, faults, excused, flow>>
      BY <2>0 DEF money, tables, chance, deployment
    <2>2. d0 \in Deposits /\ job[w].pc \in Draining /\ "pay" \in Pcs
      BY <1>1, <2>0 DEF Draining, Pcs
    <2>3. PICK j \in Jobs :
             /\ job' = [job EXCEPT ![w] = j] /\ j.pc = "pay"
             /\ j.kind = job[w].kind /\ j.dep = job[w].dep /\ j.level = job[w].level
             /\ j.plan = job[w].plan /\ j.dest = job[w].dest
      BY <1>0, <2>0, <2>2, Moved
    <2>4. Shape(j)
      BY <1>0, <1>1, <2>0, <2>2, <2>3 DEF Shape, Listed, Draining
    <2>5. d0 \notin excused' => Good(d0)'
      BY <1>1, <2>0, <2>1, <2>2, <2>3, BalanceGood
    <2>. QED
      BY <1>2, <2>0, <2>1, <2>2, <2>3, <2>4, <2>5, DrainStep
  <1>5. ASSUME LeaveBalance(w) \/ PayRefused(w) PROVE IInv'
    <2>1. job[w].pc # "record" /\ Ends(w)
          /\ UNCHANGED <<deployment, money, tables, verdict, queue, chance>>
      BY <1>5 DEF LeaveBalance, PayRefused
    <2>. QED
      BY <1>2, <2>1, Quiet
  <1>6. ASSUME NEW x \in Dests, Pay(w, x) \/ PayReverted(w, x) PROVE IInv'
    <2>0. job[w].pc = "pay" /\ UNCHANGED <<deployment, tables, verdict, queue, chance>>
          /\ job' = [job EXCEPT ![w] = [@ EXCEPT !.pc = "record", !.dest = x]]
      BY <1>6 DEF Pay, PayReverted
    <2>1. UNCHANGED <<rows, payouts, faults, excused, flow>>
      BY <2>0 DEF tables, chance, deployment
    <2>2. /\ held' \in Nat /\ x \in job[w].plan /\ arrived' = arrived
          /\ \/ paid' = [paid EXCEPT ![d0][x] = @ + 1]
             \/ paid' = paid
          /\ paid' \in [Deposits -> [Dests -> Nat]]
          /\ \A d \in Deposits \ {d0} : paid'[d] = paid[d]
      <3>1. CASE Pay(w, x)
        BY <2>0, <3>1, MovesType DEF Pay
      <3>2. CASE PayReverted(w, x)
        BY <1>2, <3>2 DEF PayReverted, money
      <3>. QED
        BY <1>6, <3>1, <3>2
    <2>3. d0 \in Deposits /\ job[w].pc \in Draining
      BY <1>1, <2>0 DEF Draining
    <2>. DEFINE j == [job[w] EXCEPT !.pc = "record", !.dest = x]
    <2>4. /\ j \in Jobs /\ j.pc = "record" /\ j.dest = x /\ j.dep = d0
          /\ j.kind = job[w].kind /\ j.plan = job[w].plan /\ j.level = job[w].level
      BY <1>0 DEF Jobs, Pcs, Draining
    <2>5. job' = [job EXCEPT ![w] = j]
      BY <2>0
    <2>. HIDE DEF j
    <2>6. Shape(j)
      BY <1>0, <1>1, <2>0, <2>2, <2>3, <2>4 DEF Shape, Listed, Draining
    <2>7. d0 \notin excused' => Good(d0)'
      <3>. SUFFICES ASSUME d0 \notin excused' PROVE Good(d0)'
        OBVIOUS
      <3>1. d0 \in Deposits \ excused /\ Drain(w, d0)
        BY <1>1, <2>1, <2>3
      <3>2. UNCHANGED <<flow, rows, verdict, payouts>>
        BY <2>0, <2>1
      <3>. QED
        BY <2>0, <2>2, <2>4, <2>5, <3>1, <3>2, PayGood
    <2>8. payouts' \in [Deposits -> SUBSET Dests] /\ faults' \in 0..MaxFaults
          /\ excused \subseteq excused' /\ excused' \subseteq Deposits
      BY <1>2, <2>1
    <2>9. /\ UNCHANGED <<deployment, arrived, rows, verdict, queue>>
          /\ \A d \in Deposits \ {d0} : paid'[d] = paid[d] /\ payouts'[d] = payouts[d]
      BY <2>0, <2>1, <2>2
    <2>. QED
      BY <1>2, <2>1, <2>2, <2>3, <2>4, <2>5, <2>6, <2>7, <2>8, <2>9, DrainStep
  <1>7. ASSUME NEW x \in Dests, PayUnseen(w, x) PROVE IInv'
    <2>0. /\ job[w].pc = "pay" /\ Moves(w, x) /\ job' = [job EXCEPT ![w] = Idle]
          /\ faults < MaxFaults /\ faults' = faults + 1 /\ excused' = excused \cup {d0}
          /\ UNCHANGED <<deployment, tables, verdict, queue>>
      BY <1>7 DEF PayUnseen, Ends
    <2>1. UNCHANGED <<rows, payouts>>
      BY <2>0 DEF tables
    <2>2. /\ held' \in Nat /\ arrived' = arrived
          /\ paid' \in [Deposits -> [Dests -> Nat]]
          /\ \A d \in Deposits \ {d0} : paid'[d] = paid[d]
      BY <2>0, MovesType
    <2>3. d0 \in Deposits /\ job[w].pc \in Draining
      BY <1>1, <2>0 DEF Draining
    <2>4. faults' \in 0..MaxFaults /\ payouts' \in [Deposits -> SUBSET Dests]
          /\ excused \subseteq excused' /\ excused' \subseteq Deposits /\ d0 \in excused'
      BY <1>2, <2>0, <2>1, <2>3, CollectionAssumption
    <2>. QED
      BY <2>0, <2>1, <2>2, <2>3, <2>4, IdleIsJob, DrainStep
  <1>8. ASSUME WritePayout(w) PROVE IInv'
    <2>. DEFINE rest == job[w].plan \ {job[w].dest}
                j == IF rest = {} THEN Idle
                     ELSE [job[w] EXCEPT !.pc = "pay", !.plan = rest, !.dest = NoDest]
    <2>0. /\ job[w].pc = "record" /\ payouts' = [payouts EXCEPT ![d0] = @ \cup {job[w].dest}]
          /\ UNCHANGED <<deployment, money, rows, verdict, queue, chance>>
      BY <1>8 DEF WritePayout
    <2>1. UNCHANGED <<arrived, held, paid, faults, excused, flow>>
      BY <2>0 DEF money, chance, deployment
    <2>2. d0 \in Deposits /\ job[w].pc \in Draining /\ job[w].dest \in Dests
      BY <1>0, <1>1, <2>0 DEF Draining, Shape, Jobs
    <2>3. job' = [job EXCEPT ![w] = j]
      BY <1>8, Zenon DEF WritePayout, Ends
    <2>4. /\ j \in Jobs
          /\ \/ j = Idle
             \/ /\ j.pc = "pay" /\ j.dep = d0 /\ j.plan = rest
                /\ j.level = job[w].level /\ j.kind = job[w].kind
      BY <1>0, IdleIsJob DEF Jobs, Pcs, Draining
    <2>5. Shape(j)
      <3>1. CASE j = Idle
        BY <3>1, IdleIsJob
      <3>. HIDE DEF j
      <3>2. CASE j.pc = "pay" /\ j.dep = d0 /\ j.plan = rest
                 /\ j.level = job[w].level /\ j.kind = job[w].kind
        BY <1>0, <1>1, <2>0, <2>2, <3>2 DEF Shape, Listed, Draining
      <3>. QED
        BY <2>4, <3>1, <3>2
    <2>. HIDE DEF j
    <2>6. /\ payouts' \in [Deposits -> SUBSET Dests]
          /\ \A d \in Deposits \ {d0} : payouts'[d] = payouts[d]
      BY <1>2, <2>0, <2>2
    <2>7. d0 \notin excused' => Good(d0)'
      <3>. SUFFICES ASSUME d0 \notin excused' PROVE Good(d0)'
        OBVIOUS
      <3>1. d0 \in Deposits \ excused /\ Drain(w, d0)
        BY <1>1, <2>1, <2>2
      <3>2. UNCHANGED <<flow, rows, verdict, paid>>
        BY <2>0, <2>1
      <3>. QED
        BY <2>0, <2>3, <2>4, <3>1, <3>2, RecordGood
    <2>. QED
      BY <1>2, <2>0, <2>1, <2>2, <2>3, <2>4, <2>5, <2>6, <2>7, DrainStep
  <1>. QED
    BY <1>3, <1>4, <1>5, <1>6, <1>7, <1>8 DEF Drains

\* The sweeps go by the balance; no list, no row and no verdict is touched.
LEMMA SweepsGood ==
    ASSUME IInv, NEW w \in Workers, Sweeps(w)
    PROVE  IInv'
  <1>0. TypeOK /\ Shape(job[w]) /\ job[w] \in Jobs /\ queue \subseteq Messages
    BY DEF IInv, TypeOK
  <1>. DEFINE Still == UNCHANGED <<deployment, money, tables, verdict, queue, chance>>
  <1>1. ASSUME Still, job[w].pc # "record",
               \/ Ends(w)
               \/ \E p \in {"busy", "allow", "gate", "read", "provision", "send"} : Goes(w, p)
        PROVE  IInv'
    BY <1>0, <1>1, Quiet
  <1>2. ASSUME NEW a \in Answers, Gate(w, a) \/ Provision(w, a) \/ ScanAllowed(w, a) PROVE IInv'
    <2>1. Still /\ job[w].pc # "record"
      BY <1>2 DEF Gate, Provision, ScanAllowed
    <2>2. \/ Ends(w)
          \/ \E p \in {"gate", "read", "provision", "send"} : Goes(w, p)
      BY <1>2 DEF Gate, Provision, ScanAllowed, SweepStart
    <2>. QED
      BY <1>1, <2>1, <2>2
  <1>3. ASSUME ReadBalance(w) PROVE IInv'
    <2>1. Still /\ job[w].pc = "read"
      BY <1>3 DEF ReadBalance
    <2>2. CASE Ends(w)
      BY <1>1, <2>1, <2>2
    <2>3. CASE ~Ends(w)
      <3>. DEFINE p == IF token THEN "provision" ELSE "send"
                  j == [job[w] EXCEPT !.pc = p, !.amount = held]
      <3>1. p \in {"provision", "send"} /\ p \in Pcs
        BY DEF Pcs, Sweeping
      <3>2. job' = [job EXCEPT ![w] = j]
        BY <1>3, <2>3, Zenon DEF ReadBalance
      <3>. HIDE DEF p
      <3>3. j \in Jobs /\ j.pc = p /\ j.kind = job[w].kind /\ j.dep = job[w].dep
        BY <1>0, <3>1 DEF Jobs, TypeOK
      <3>. HIDE DEF j
      <3>4. Shape(j) /\ j.pc \notin Draining /\ j.pc \notin {"write", "delay"}
        BY <1>0, <3>1, <3>3 DEF Shape, Listed, Draining
      <3>5. faults' \in 0..MaxFaults /\ excused' = excused /\ excused \subseteq Deposits
            /\ queue' \subseteq Messages
        BY <1>0, <2>1 DEF TypeOK, chance
      <3>. QED
        BY <2>1, <3>2, <3>3, <3>4, <3>5, JobOnly
    <2>. QED
      BY <2>2, <2>3
  <1>4. ASSUME Sweep(w) PROVE IInv'
    <2>1. /\ job[w].pc = "send" /\ job' = [job EXCEPT ![w] = Idle]
          /\ UNCHANGED <<flow, token, arrived, paid, rows, payouts, faults, excused>>
          /\ verdict' = verdict /\ queue' = queue
      BY <1>4 DEF Sweep, Ends, deployment, tables, chance
    <2>2. held' \in Nat
      <3>1. job[w].amount \in Nat /\ held \in Nat
        BY <1>0 DEF Jobs, TypeOK
      <3>. QED
        BY <1>4, <3>1 DEF Sweep
    <2>3. Idle.pc \notin Draining /\ Idle.pc \notin {"write", "delay"}
      BY IdleIsJob DEF Draining
    <2>4. ASSUME NEW d \in Deposits \ excused' PROVE Good(d)'
      <3>1. flow = "aml" => (rows[d] # <<>> => rows[d][1].level \in {NoLevel, verdict[d]})
        BY <2>1 DEF IInv, Good, Levelled
      <3>. QED
        BY <2>1, <2>3, <3>1, IdleIsJob, Outside
    <2>5. /\ paid' \in [Deposits -> [Dests -> Nat]] /\ rows' \in [Deposits -> Seq(RowSet)]
          /\ payouts' \in [Deposits -> SUBSET Dests]
          /\ verdict' \in [Deposits -> Levels \cup {NoLevel}]
          /\ faults' \in 0..MaxFaults /\ excused' \subseteq Deposits /\ queue' \subseteq Messages
      BY <1>0, <2>1 DEF TypeOK
    <2>. QED
      BY <2>1, <2>2, <2>4, <2>5, IdleIsJob, JobGood
  <1>5. ASSUME SweepFails(w) PROVE IInv'
    BY <1>1, <1>5 DEF SweepFails
  <1>6. ASSUME ScanBalance(w) PROVE IInv'
    BY <1>1, <1>6 DEF ScanBalance
  <1>7. ASSUME ScanBusy(w) PROVE IInv'
    <2>1. Still /\ job[w].pc # "record"
      BY <1>7 DEF ScanBusy
    <2>2. Ends(w) \/ \E p \in {"allow", "gate", "provision"} : Goes(w, p)
      BY <1>7 DEF ScanBusy, SweepStart
    <2>. QED
      BY <1>1, <2>1, <2>2
  <1>. QED
    BY <1>2, <1>3, <1>4, <1>5, <1>6, <1>7 DEF Sweeps

(***************************************************************************)
(* The theorems.                                                            *)
(***************************************************************************)
LEMMA StepGood == IInv /\ [Next]_vars => IInv'
  <1>. SUFFICES ASSUME IInv, [Next]_vars PROVE IInv'
    OBVIOUS
  <1>1. CASE Scanning
    BY <1>1, ScannerGood DEF Scanning
  <1>2. CASE Beat
    BY <1>2, BeatGood
  <1>3. ASSUME NEW w \in Workers, Work(w) PROVE IInv'
    BY <1>3, StartGood, CheckGood, DrainsGood, SweepsGood, Zenon DEF Work
  <1>4. ASSUME NEW w \in Workers, Crash(w) PROVE IInv'
    BY <1>4, CrashGood
  <1>5. CASE UNCHANGED vars
    <2>1. UNCHANGED <<flow, token, arrived, held, paid, rows, payouts, verdict, queue, job, faults, excused>>
      BY <1>5 DEF vars
    <2>2. TypeOK' /\ \A w \in Workers : Shape(job'[w])
      BY <2>1 DEF IInv, TypeOK
    <2>3. ASSUME NEW d \in Deposits \ excused' PROVE Good(d)'
      BY <2>1, Aside
    <2>. QED
      BY <2>2, <2>3 DEF IInv
  <1>. QED
    BY <1>1, <1>2, <1>3, <1>4, <1>5, Zenon DEF Next

\* The invariant of the drains: types, one drain of a deposit at a time, and
\* its transfers, rows and level in step with one another.
THEOREM Invariance == Spec => []IInv
  BY InitGood, StepGood, PTL DEF Spec

\* No destination is paid twice for a deposit, whatever the number of workers
\* and of queued drains, unless its exclusion or its record was lost.
THEOREM PaidOnceOnly == Spec => []PaidOnce
  <1>1. IInv => PaidOnce
    <2>. SUFFICES ASSUME IInv, NEW d \in Deposits \ excused, NEW x \in Dests
                  PROVE  ~(paid[d][x] > 1)
      BY DEF PaidOnce
    <2>1. paid[d][x] \in {0, 1}
      BY DEF IInv, Good, Counted
    <2>. QED
      BY <2>1
  <1>. QED
    BY <1>1, Invariance, PTL

\* Nothing is drained but by the level that the AML service has found.
THEOREM VerdictComesFirst == Spec => []DrainsFollowVerdict
  <1>1. IInv => DrainsFollowVerdict
    BY DEF IInv, Good, Levelled, DrainsFollowVerdict
  <1>. QED
    BY <1>1, Invariance, PTL

(***************************************************************************)
(* No deposit is stranded.  Ledger is inductive next to IInv: the tasks of  *)
(* one flow stay in it and work on deposits that have arrived, every        *)
(* deposit has its row, and the balance covers what all deposits together   *)
(* still owe.  The last is the reason for counting: the balance is one      *)
(* number, and that it covers each deposit by itself would not outlive the  *)
(* next transfer of another one.                                            *)
(***************************************************************************)
OwnKinds == {"none", "payout", "check", "recheck"}
OwnPcs == {"idle", "inspect", "ask", "write", "delay"} \cup Draining

\* No sweep takes the balance where the deposits are drained.
Asked(m) == m.dep \in arrived \cup {NoDeposit} /\ (Drained => m.kind \in OwnKinds)
Busy(j) ==
    /\ j.dep \in arrived \cup {NoDeposit}
    /\ Drained => j.kind \in OwnKinds /\ j.pc \in OwnPcs
    /\ flow = "regular" /\ j.pc \in Listed => j.level = Regular
Orderly ==
    /\ IsFiniteSet(arrived)
    /\ \A m \in queue : Asked(m)
    /\ \A w \in Workers : Busy(job[w])

\* Rows are there for the deposits that have arrived, and a row that is
\* ready has a level.
Rowed(d) ==
    /\ d \notin arrived => rows[d] = <<>> /\ \A x \in Dests : paid[d][x] = 0
    /\ d \in arrived /\ flow # "default" => rows[d] # <<>>
    /\ flow = "aml" /\ rows[d] # <<>> /\ rows[d][1].status = "ready" => rows[d][1].level # NoLevel

\* What a deposit still owes: all of it before its first transfer, then a
\* share for every address of its split that has none.
Untouched(d) == \A x \in Dests : paid[d][x] = 0
Guide(d) == IF flow = "regular" THEN Regular ELSE verdict[d]
Unsent(d) == {x \in Split[Guide(d)] : paid[d][x] = 0}
Reserve(d) == IF Untouched(d) THEN Amount ELSE Cardinality(Unsent(d)) * Share(Guide(d))
Reserves == [d \in Deposits |-> Reserve(d)]

\* The sum of r over S is the number of these.
Coins(S, r) == {c \in S \X (1..Amount) : c[2] <= r[c[1]]}
Funded == Drained /\ ~Overdrawn => Cardinality(Coins(arrived, Reserves)) <= held

Ledger == Orderly /\ (\A d \in Deposits : Rowed(d)) /\ Funded

LEMMA OrderlyStart == Init => Orderly
  BY FS_EmptySet, IdleIsJob DEF Init, Orderly, Asked, Busy, Idle, OwnKinds, OwnPcs, Listed

\* A worker's step that puts j in its place.
LEMMA OrderlyWork ==
    ASSUME TypeOK, Orderly, NEW w \in Workers, NEW j, job' = [job EXCEPT ![w] = j], Busy(j),
           UNCHANGED <<flow, arrived>>, \A m \in queue' : m \in queue \/ Asked(m)
    PROVE  Orderly'
  <1>1. job'[w] = j /\ \A v \in Workers \ {w} : job'[v] = job[v]
    BY DEF TypeOK
  <1>2. \A v \in Workers : Busy(job'[v])
    BY <1>1 DEF Orderly
  <1>3. \A m \in queue' : Asked(m)
    BY DEF Orderly
  <1>. QED
    BY <1>2, <1>3 DEF Orderly, Asked, Busy, Drained

LEMMA OrderlyGoes ==
    ASSUME TypeOK, Orderly, NEW w \in Workers, NEW p \in Pcs, Goes(w, p),
           Drained => p \in OwnPcs, p \in Listed => job[w].pc \in Listed,
           UNCHANGED <<flow, arrived>>, queue' = queue
    PROVE  Orderly'
  <1>1. PICK j \in Jobs :
           /\ job' = [job EXCEPT ![w] = j] /\ j.pc = p
           /\ j.kind = job[w].kind /\ j.dep = job[w].dep /\ j.level = job[w].level
    BY Moved
  <1>2. Busy(job[w])
    BY DEF Orderly
  <1>3. Busy(j)
    BY <1>1, <1>2 DEF Busy
  <1>. QED
    BY <1>1, <1>3, OrderlyWork

LEMMA OrderlyEnds ==
    ASSUME TypeOK, Orderly, NEW w \in Workers, Ends(w),
           UNCHANGED <<flow, arrived>>, \A m \in queue' : m \in queue \/ Asked(m)
    PROVE  Orderly'
  <1>1. Busy(Idle)
    BY DEF Busy, Idle, OwnKinds, OwnPcs, Listed
  <1>. QED
    BY <1>1, OrderlyWork DEF Ends

\* The scanner and beat ask for the tasks of their flow.
LEMMA OrderlyOutside ==
    ASSUME TypeOK, Orderly, \A d \in Deposits : Rowed(d), Scanning \/ Beat
    PROVE  Orderly'
  <1>1. ASSUME arrived \subseteq arrived', IsFiniteSet(arrived'), flow' = flow, job' = job,
               \A m \in queue' : m \in queue \/ Asked(m)'
        PROVE  Orderly'
    <2>1. \A m \in queue' : Asked(m)'
      BY <1>1 DEF Orderly, Asked, Drained
    <2>2. \A w \in Workers : Busy(job[w])'
      BY <1>1 DEF Orderly, Busy, Drained
    <2>. QED
      BY <1>1, <2>1, <2>2 DEF Orderly
  <1>2. ASSUME NEW d \in Deposits, NEW a \in Answers, Record(d, a), d \in arrived', flow' = flow
        PROVE  \A m \in queue' : m \in queue \/ Asked(m)'
    BY <1>2 DEF Record, Guarded, Asked, Drained, OwnKinds, Message
  <1>3. ASSUME NEW d \in Deposits, NEW a \in Answers, Deposit(d, a) PROVE Orderly'
    <2>1. arrived' = arrived \cup {d} /\ flow' = flow /\ job' = job /\ Record(d, a)
      BY <1>3 DEF Deposit, deployment
    <2>2. IsFiniteSet(arrived')
      BY <2>1, FS_AddElement DEF Orderly
    <2>. QED
      BY <1>1, <1>2, <2>1, <2>2
  <1>4. ASSUME NEW d \in Deposits, NEW a \in Answers, Rescan(d, a) PROVE Orderly'
    <2>1. d \in arrived /\ arrived' = arrived /\ flow' = flow /\ job' = job /\ Record(d, a)
      BY <1>4 DEF Rescan, deployment, money
    <2>. QED
      BY <1>1, <1>2, <2>1 DEF Orderly
  <1>5. ASSUME NEW d \in Deposits, NEW a \in Answers, SweepAccounts(d, a) PROVE Orderly'
    <2>1. d \in arrived /\ arrived' = arrived /\ flow' = flow /\ job' = job
      BY <1>5 DEF SweepAccounts, deployment, money, Rowed
    <2>2. \A m \in queue' : m \in queue \/ m = Message("payout", d)
      BY <1>5 DEF SweepAccounts, Guarded
    <2>3. Asked(Message("payout", d))'
      BY <2>1 DEF Asked, Message, OwnKinds
    <2>. QED
      BY <1>1, <2>1, <2>2, <2>3 DEF Orderly
  <1>6. ASSUME NEW d \in Deposits, NEW k \in {"check", "recheck"}, RecheckTransactions(d, k)
        PROVE  Orderly'
    <2>1. /\ arrived' = arrived /\ flow' = flow /\ job' = job
          /\ \E i \in DOMAIN rows[d] : TRUE
      BY <1>6 DEF RecheckTransactions, deployment, money
    <2>2. d \in arrived
      <3>1. rows[d] # <<>>
        BY <2>1
      <3>. QED
        BY <3>1 DEF Rowed
    <2>3. \A m \in queue' : m \in queue \/ m = Message(k, d)
      BY <1>6 DEF RecheckTransactions
    <2>4. Asked(Message(k, d))'
      BY <2>1, <2>2 DEF Asked, Message, OwnKinds
    <2>. QED
      BY <1>1, <2>1, <2>3, <2>4 DEF Orderly
  <1>7. ASSUME RescanAccounts PROVE Orderly'
    <2>1. /\ arrived' = arrived /\ flow' = flow /\ job' = job /\ flow = "default"
          /\ queue' = queue \cup {Message("scan", NoDeposit)}
      BY <1>7 DEF RescanAccounts, deployment, money
    <2>2. Asked(Message("scan", NoDeposit))'
      BY <2>1 DEF Asked, Drained, Message
    <2>. QED
      BY <1>1, <2>1, <2>2 DEF Orderly
  <1>. QED
    BY <1>3, <1>4, <1>5, <1>6, <1>7 DEF Scanning, Beat

\* Every step of a task leaves it in its flow, with its deposit.
LEMMA OrderlyStarts ==
    ASSUME IInv, Orderly, NEW w \in Workers, Starting(w)
    PROVE  Orderly'
  <1>0. TypeOK /\ Shape(job[w]) /\ Busy(job[w])
    BY DEF IInv, Orderly
  <1>1. ASSUME NEW m \in queue, Take(w, m) PROVE Orderly'
    <2>. DEFINE j == [Idle EXCEPT !.kind = m.kind, !.dep = m.dep,
                         !.pc = IF m.kind = "transfer" THEN SweepStart ELSE "inspect"]
    <2>1. job' = [job EXCEPT ![w] = j] /\ queue' = queue \ {m} /\ UNCHANGED <<flow, arrived>>
      BY <1>1 DEF Take, deployment, money
    <2>2. /\ j.kind = m.kind /\ j.dep = m.dep
          /\ j.pc = IF m.kind = "transfer" THEN SweepStart ELSE "inspect"
      BY DEF Idle
    <2>. HIDE DEF j
    <2>3. Asked(m)
      BY DEF Orderly
    <2>4. Busy(j)
      BY <2>2, <2>3 DEF Busy, Asked, OwnKinds, OwnPcs, Listed, SweepStart
    <2>. QED
      BY <1>0, <2>1, <2>4, OrderlyWork
  <1>2. ASSUME job[w].pc = "inspect", Goes(w, FirstStep(job[w].kind)), queue' = queue,
               UNCHANGED <<deployment, money>>
        PROVE  Orderly'
    <2>. DEFINE p == FirstStep(job[w].kind)
    <2>1. /\ p \in Pcs /\ p \notin Listed
          /\ Drained => p \in OwnPcs
      BY <1>0, <1>2 DEF FirstStep, Pcs, Listed, OwnPcs, OwnKinds, Draining, Sweeping, Drained,
                        Busy, Shape
    <2>2. UNCHANGED <<flow, arrived>>
      BY <1>2 DEF deployment, money
    <2>. QED
      BY <1>0, <1>2, <2>1, <2>2, OrderlyGoes
  <1>3. ASSUME Inspect(w) \/ InspectLost(w) PROVE Orderly'
    BY <1>2, <1>3 DEF Inspect, InspectLost
  <1>4. ASSUME Skip(w) PROVE Orderly'
    BY <1>0, <1>4, OrderlyEnds DEF Skip, deployment, money
  <1>. QED
    BY <1>1, <1>3, <1>4 DEF Starting

LEMMA OrderlyChecks ==
    ASSUME IInv, Orderly, NEW w \in Workers, Checking(w) \/ Crash(w)
    PROVE  Orderly'
  <1>0. TypeOK /\ Shape(job[w]) /\ Busy(job[w]) /\ job[w] \in Jobs
    BY DEF IInv, Orderly, TypeOK
  <1>1. ASSUME NEW l, job' = [job EXCEPT ![w].pc = "write", ![w].level = l],
               UNCHANGED <<deployment, money, queue>>
        PROVE  Orderly'
    <2>. DEFINE j == [job[w] EXCEPT !.pc = "write", !.level = l]
    <2>1. j.pc = "write" /\ j.dep = job[w].dep /\ j.kind = job[w].kind
      BY <1>0 DEF Jobs
    <2>2. job' = [job EXCEPT ![w] = j]
      BY <1>0, <1>1 DEF TypeOK
    <2>. HIDE DEF j
    <2>3. Busy(j)
      BY <1>0, <2>1 DEF Busy, OwnPcs, Listed
    <2>. QED
      BY <1>0, <1>1, <2>2, <2>3, OrderlyWork DEF deployment, money
  <1>2. ASSUME NEW l \in Levels, AskScore(w, l) \/ AskNewScore(w, l) PROVE Orderly'
    BY <1>1, <1>2 DEF AskScore, AskNewScore
  <1>3. ASSUME AskPending(w) PROVE Orderly'
    BY <1>0, <1>1, <1>3, OrderlyEnds DEF AskPending, deployment, money
  <1>4. ASSUME WriteVerdict(w) PROVE Orderly'
    <2>1. /\ Ends(w) \/ Goes(w, "delay")
          /\ queue' = queue /\ UNCHANGED <<flow, arrived>>
      BY <1>4 DEF WriteVerdict, deployment, money
    <2>2. "delay" \in Pcs /\ "delay" \in OwnPcs /\ "delay" \notin Listed
      BY DEF Pcs, OwnPcs, Listed
    <2>. QED
      BY <1>0, <2>1, <2>2, OrderlyEnds, OrderlyGoes
  <1>5. ASSUME QueuePayout(w) \/ \E a \in Answers : Mark(w, a) PROVE Orderly'
    <2>1. /\ Ends(w) /\ UNCHANGED <<flow, arrived>>
          /\ \A m \in queue' : m \in queue \/ m = Message("payout", job[w].dep)
      BY <1>5 DEF QueuePayout, Mark, Guarded, deployment, money
    <2>2. Asked(Message("payout", job[w].dep))
      BY <1>0 DEF Asked, Busy, Message, OwnKinds
    <2>. QED
      BY <1>0, <2>1, <2>2, OrderlyEnds
  <1>6. ASSUME Crash(w) PROVE Orderly'
    BY <1>0, <1>6, OrderlyEnds DEF Crash, deployment, money
  <1>. QED
    BY <1>2, <1>3, <1>4, <1>5, <1>6 DEF Checking

LEMMA OrderlyDrains ==
    ASSUME IInv, Orderly, NEW w \in Workers, Drains(w)
    PROVE  Orderly'
  <1>0. TypeOK /\ Shape(job[w]) /\ Busy(job[w]) /\ job[w] \in Jobs
    BY DEF IInv, Orderly, TypeOK
  <1>1. UNCHANGED <<flow, arrived>> /\ queue' = queue
    BY DEF Drains, BuildPayoutList, CheckBalance, LeaveBalance, Pay, PayUnseen, PayReverted, Moves,
           PayRefused, WritePayout, deployment, money
  <1>2. ASSUME BuildPayoutList(w) PROVE Orderly'
    <2>1. CASE PayoutList(job[w].dep) = {}
      BY <1>0, <1>1, <1>2, <2>1, OrderlyEnds, Zenon DEF BuildPayoutList
    <2>2. CASE PayoutList(job[w].dep) # {}
      <3>. DEFINE l == ListLevel(job[w].dep)
                  j == [job[w] EXCEPT !.pc = "balance", !.plan = PayoutList(job[w].dep), !.level = l]
      <3>1. job' = [job EXCEPT ![w] = j]
        BY <1>2, <2>2, Zenon DEF BuildPayoutList
      <3>2. j.pc = "balance" /\ j.dep = job[w].dep /\ j.kind = job[w].kind /\ j.level = l
        BY <1>0 DEF Jobs
      <3>3. flow = "regular" => l = Regular
        BY <2>2 DEF PayoutList, ListLevel
      <3>. HIDE DEF j, l
      <3>4. Busy(j)
        BY <1>0, <3>2, <3>3 DEF Busy, OwnPcs, Draining
      <3>. QED
        BY <1>0, <1>1, <3>1, <3>4, OrderlyWork
    <2>. QED
      BY <2>1, <2>2
  <1>3. ASSUME CheckBalance(w) PROVE Orderly'
    <2>1. "pay" \in Pcs /\ "pay" \in OwnPcs /\ job[w].pc \in Listed /\ Goes(w, "pay")
      BY <1>3 DEF CheckBalance, Pcs, OwnPcs, Draining, Listed
    <2>. QED
      BY <1>0, <1>1, <2>1, OrderlyGoes
  <1>4. ASSUME Ends(w) PROVE Orderly'
    BY <1>0, <1>1, <1>4, OrderlyEnds
  <1>5. ASSUME NEW j, job' = [job EXCEPT ![w] = j], job[w].pc \in Listed,
               j.pc \in Listed, j.kind = job[w].kind, j.dep = job[w].dep, j.level = job[w].level
        PROVE  Orderly'
    <2>1. Busy(j)
      BY <1>0, <1>5 DEF Busy, OwnPcs, Draining, Listed
    <2>. QED
      BY <1>0, <1>1, <1>5, <2>1, OrderlyWork
  <1>6. ASSUME NEW x \in Dests, Pay(w, x) \/ PayReverted(w, x) PROVE Orderly'
    <2>. DEFINE j == [job[w] EXCEPT !.pc = "record", !.dest = x]
    <2>1. job' = [job EXCEPT ![w] = j] /\ job[w].pc = "pay"
      BY <1>6 DEF Pay, PayReverted
    <2>2. j.pc = "record" /\ j.dep = job[w].dep /\ j.kind = job[w].kind /\ j.level = job[w].level
      BY <1>0 DEF Jobs
    <2>. HIDE DEF j
    <2>. QED
      BY <1>5, <2>1, <2>2 DEF Listed
  <1>7. ASSUME WritePayout(w) PROVE Orderly'
    <2>. DEFINE rest == job[w].plan \ {job[w].dest}
                j == [job[w] EXCEPT !.pc = "pay", !.plan = rest, !.dest = NoDest]
    <2>1. job[w].pc = "record" /\ (Ends(w) \/ job' = [job EXCEPT ![w] = j])
      BY <1>7 DEF WritePayout
    <2>2. j.pc = "pay" /\ j.dep = job[w].dep /\ j.kind = job[w].kind /\ j.level = job[w].level
      BY <1>0 DEF Jobs
    <2>. HIDE DEF j
    <2>. QED
      BY <1>4, <1>5, <2>1, <2>2 DEF Listed
  <1>. QED
    BY <1>2, <1>3, <1>4, <1>6, <1>7 DEF Drains, LeaveBalance, PayUnseen, PayRefused

LEMMA OrderlySweeps ==
    ASSUME IInv, Orderly, NEW w \in Workers, Sweeps(w)
    PROVE  Orderly' /\ ~Drained
  <1>0. TypeOK /\ Shape(job[w]) /\ Busy(job[w]) /\ job[w] \in Jobs
    BY DEF IInv, Orderly, TypeOK
  <1>1. UNCHANGED <<flow, arrived>> /\ queue' = queue
    BY DEF Sweeps, Gate, ReadBalance, Provision, Sweep, SweepFails, ScanBalance, ScanBusy, ScanAllowed,
           deployment, money
  <1>2. job[w].pc \notin OwnPcs
    BY DEF Sweeps, Gate, ReadBalance, Provision, Sweep, SweepFails, ScanBalance, ScanBusy, ScanAllowed,
           OwnPcs, Draining
  <1>3. ~Drained
    BY <1>0, <1>2 DEF Busy
  <1>. SUFFICES Orderly'
    BY <1>3
  <1>4. CASE Ends(w)
    BY <1>0, <1>1, <1>4, OrderlyEnds
  <1>5. ASSUME NEW p \in {"busy", "allow", "gate", "read", "provision", "send"}, Goes(w, p)
        PROVE  Orderly'
    BY <1>0, <1>1, <1>3, <1>5, OrderlyGoes DEF Pcs, Sweeping, Listed
  <1>6. CASE ReadBalance(w)
    <2>1. CASE Ends(w)
      BY <1>4, <2>1
    <2>2. CASE ~Ends(w)
      <3>. DEFINE p == IF token THEN "provision" ELSE "send"
                  j == [job[w] EXCEPT !.pc = p, !.amount = held]
      <3>1. p \notin Listed
        BY DEF Listed
      <3>2. job' = [job EXCEPT ![w] = j]
        BY <1>6, <2>2, Zenon DEF ReadBalance
      <3>. HIDE DEF p
      <3>3. j.pc = p /\ j.kind = job[w].kind /\ j.dep = job[w].dep
        BY <1>0 DEF Jobs
      <3>. HIDE DEF j
      <3>4. Busy(j)
        BY <1>0, <1>3, <3>1, <3>3 DEF Busy, Drained
      <3>. QED
        BY <1>0, <1>1, <3>2, <3>4, OrderlyWork
    <2>. QED
      BY <2>1, <2>2
  <1>7. ReadBalance(w) \/ Ends(w)
        \/ \E p \in {"busy", "allow", "gate", "read", "provision", "send"} : Goes(w, p)
    BY DEF Sweeps, Gate, Provision, Sweep, SweepFails, ScanBalance, ScanBusy, ScanAllowed, SweepStart
  <1>. QED
    BY <1>4, <1>5, <1>6, <1>7

LEMMA OrderlyStep ==
    ASSUME IInv, Orderly, \A d \in Deposits : Rowed(d), [Next]_vars
    PROVE  Orderly'
  <1>1. CASE UNCHANGED vars
    <2>1. UNCHANGED <<flow, arrived, queue, job>>
      BY <1>1 DEF vars
    <2>. QED
      BY <2>1 DEF Orderly, Asked, Busy, Drained
  <1>. QED
    BY <1>1, OrderlyOutside, OrderlyStarts, OrderlyChecks, OrderlyDrains, OrderlySweeps
       DEF Next, Work, IInv

(***************************************************************************)
(* The rows.                                                                *)
(***************************************************************************)
LEMMA RowedStart == Init => \A d \in Deposits : Rowed(d)
  BY DEF Init, Rowed

\* A new row is the first one only where there was none; it is not ready.
LEMMA RecordedFirst ==
    ASSUME TypeOK, NEW d \in Deposits, NEW t,
           t = [rows EXCEPT ![d] = Append(@, Row("pending", NoLevel))]
    PROVE  /\ t[d] # <<>> /\ \A e \in Deposits \ {d} : t[e] = rows[e]
           /\ t[d][1].status = "ready" => rows[d] # <<>> /\ t[d][1] = rows[d][1]
  <1>. DEFINE r == Row("pending", NoLevel)
  <1>1. rows[d] \in Seq(RowSet) /\ r \in RowSet /\ r.status # "ready"
    BY DEF TypeOK, Row, RowSet
  <1>2. t[d] = Append(rows[d], r) /\ \A e \in Deposits \ {d} : t[e] = rows[e]
    BY DEF TypeOK
  <1>. HIDE DEF r
  <1>3. Append(rows[d], r) # <<>>
    BY <1>1
  <1>4. CASE rows[d] = <<>>
    <2>1. Append(<<>>, r) = <<r>>
      BY <1>1
    <2>2. t[d] = <<r>>
      BY <1>2, <1>4, <2>1, Zenon
    <2>3. <<r>>[1] = r
      OBVIOUS
    <2>4. t[d][1] = r
      BY <2>2, <2>3, Zenon
    <2>. QED
      BY <1>1, <1>2, <1>3, <2>4, Zenon
  <1>5. CASE rows[d] # <<>>
    <2>1. Len(rows[d]) \in Nat /\ Len(rows[d]) > 0
      BY <1>1, <1>5
    <2>2. t[d][1] = rows[d][1]
      BY <1>1, <1>2, <2>1
    <2>. QED
      BY <1>2, <1>3, <1>5, <2>2, Zenon
  <1>. QED
    BY <1>4, <1>5

LEMMA NoRows == Len(<<>>) = 0
  OBVIOUS

LEMMA OneRow == ASSUME NEW t \in Seq(RowSet), t # <<>>, ~(Len(t) > 1) PROVE Len(t) = 1
  <1>1. Len(t) \in Nat /\ Len(t) > 0
    OBVIOUS
  <1>. DEFINE n == Len(t)
  <1>2. n \in Nat /\ n > 0 /\ ~(n > 1)
    BY <1>1
  <1>. HIDE DEF n
  <1>3. n = 1
    BY <1>2
  <1>. QED
    BY <1>3 DEF n

\* Writing over a first row neither makes nor unmakes one.
LEMMA Overwritten ==
    ASSUME NEW t \in [Deposits -> Seq(RowSet)], NEW d \in Deposits, t[d] # <<>>, NEW r \in RowSet
    PROVE  /\ [t EXCEPT ![d][1] = r][d] # <<>> /\ [t EXCEPT ![d][1] = r][d][1] = r
           /\ \A e \in Deposits \ {d} : [t EXCEPT ![d][1] = r][e] = t[e]
  <1>. DEFINE q == [t[d] EXCEPT ![1] = r]
  <1>1. t[d] \in Seq(RowSet) /\ 1 \in 1..Len(t[d])
    OBVIOUS
  <1>2. q \in Seq(RowSet) /\ Len(q) = Len(t[d]) /\ q[1] = r
    BY <1>1
  <1>3. q # <<>>
    BY <1>1, <1>2
  <1>4. [t EXCEPT ![d][1] = r] = [t EXCEPT ![d] = q]
    OBVIOUS
  <1>. HIDE DEF q
  <1>. QED
    BY <1>2, <1>3, <1>4

LEMMA MarkedThere ==
    ASSUME NEW t \in [Deposits -> Seq(RowSet)], NEW d \in Deposits
    PROVE  \A e \in Deposits : MarkReady(t, d)[e] = <<>> <=> t[e] = <<>>
  <1>1. CASE t[d] = <<>>
    BY <1>1 DEF MarkReady
  <1>2. CASE t[d] # <<>>
    <2>. DEFINE s == [t[d][1] EXCEPT !.status = "ready"]
    <2>1. t[d][1] \in RowSet
      BY <1>2
    <2>2. s \in RowSet
      BY <2>1 DEF RowSet
    <2>3. MarkReady(t, d) = [t EXCEPT ![d][1] = s]
      BY <1>2 DEF MarkReady
    <2>. HIDE DEF s
    <2>4. /\ MarkReady(t, d)[d] # <<>>
          /\ \A e \in Deposits \ {d} : MarkReady(t, d)[e] = t[e]
      BY <1>2, <2>2, <2>3, Overwritten
    <2>. QED
      BY <1>2, <2>4
  <1>. QED
    BY <1>1, <1>2

\* A deposit whose rows stay, or are marked in a flow without levels.
LEMMA RowedStays ==
    ASSUME NEW d \in Deposits, Rowed(d), UNCHANGED <<flow, arrived>>,
           d \in arrived \/ paid'[d] = paid[d],
           \/ rows'[d] = rows[d]
           \/ flow # "aml" /\ (rows'[d] = <<>> <=> rows[d] = <<>>)
    PROVE  Rowed(d)'
  BY DEF Rowed

LEMMA RowedRecord ==
    ASSUME TypeOK, NEW d \in Deposits, NEW a \in Answers, Record(d, a), d \in arrived',
           arrived' \in {arrived, arrived \cup {d}}, UNCHANGED <<flow, paid>>,
           \A e \in Deposits : Rowed(e)
    PROVE  \A e \in Deposits : Rowed(e)'
  <1>. DEFINE t == [rows EXCEPT ![d] = Append(@, Row("pending", NoLevel))]
  <1>1. /\ t \in [Deposits -> Seq(RowSet)]
        /\ t[d] # <<>> /\ \A e \in Deposits \ {d} : t[e] = rows[e]
        /\ t[d][1].status = "ready" => rows[d] # <<>> /\ t[d][1] = rows[d][1]
    <2>1. t \in [Deposits -> Seq(RowSet)]
      BY Recorded
    <2>2. /\ t[d] # <<>> /\ \A e \in Deposits \ {d} : t[e] = rows[e]
          /\ t[d][1].status = "ready" => rows[d] # <<>> /\ t[d][1] = rows[d][1]
      BY RecordedFirst
    <2>. QED
      BY <2>1, <2>2
  <1>2. \/ flow \in {"aml", "regular"} /\ rows' = t
        \/ flow = "guarded" /\ (rows' = t \/ rows' = MarkReady(t, d))
        \/ flow = "default" /\ rows' = rows
    BY DEF Record, Guarded, TypeOK, Flows
  <1>3. \A e \in Deposits : MarkReady(t, d)[e] = <<>> <=> t[e] = <<>>
    BY <1>1, MarkedThere
  <1>. HIDE DEF t
  <1>4. ASSUME NEW e \in Deposits \ {d} PROVE Rowed(e)'
    <2>1. Rowed(e) /\ (e \in arrived' <=> e \in arrived)
      OBVIOUS
    <2>2. /\ rows'[e] = <<>> <=> rows[e] = <<>>
          /\ flow = "aml" => rows'[e] = rows[e]
      BY <1>1, <1>2, <1>3
    <2>. QED
      BY <2>1, <2>2 DEF Rowed
  <1>5. Rowed(d)'
    <2>1. Rowed(d)
      OBVIOUS
    <2>2. /\ flow # "default" => rows'[d] # <<>>
          /\ flow = "aml" => rows'[d] = t[d]
      BY <1>1, <1>2, <1>3
    <2>. QED
      BY <1>1, <2>1, <2>2 DEF Rowed
  <1>. QED
    BY <1>4, <1>5

LEMMA RowedStep ==
    ASSUME IInv, Orderly, \A d \in Deposits : Rowed(d), [Next]_vars
    PROVE  \A d \in Deposits : Rowed(d)'
  <1>0. TypeOK /\ rows \in [Deposits -> Seq(RowSet)]
    BY DEF IInv, TypeOK
  <1>1. ASSUME UNCHANGED <<flow, arrived, paid, rows>> PROVE \A d \in Deposits : Rowed(d)'
    BY <1>1, RowedStays
  <1>2. ASSUME NEW d \in Deposits, rows' \in {rows, MarkReady(rows, d)}, flow # "aml",
               UNCHANGED <<flow, arrived, paid>>
        PROVE  \A e \in Deposits : Rowed(e)'
    BY <1>0, <1>2, MarkedThere, RowedStays
  <1>3. CASE Scanning
    <2>1. ASSUME NEW d \in Deposits, NEW a \in Answers, Deposit(d, a) \/ Rescan(d, a)
          PROVE  \A e \in Deposits : Rowed(e)'
      <3>1. /\ d \in arrived' /\ arrived' \in {arrived, arrived \cup {d}}
            /\ UNCHANGED <<flow, paid>> /\ Record(d, a)
        BY <2>1 DEF Deposit, Rescan, deployment, money
      <3>. QED
        BY <1>0, <3>1, RowedRecord
    <2>. QED
      BY <1>3, <2>1 DEF Scanning
  <1>4. CASE Beat
    <2>1. ASSUME NEW d \in Deposits, NEW a \in Answers, SweepAccounts(d, a)
          PROVE  \A e \in Deposits : Rowed(e)'
      <3>1. UNCHANGED <<flow, arrived, paid>>
        BY <2>1 DEF SweepAccounts, deployment, money
      <3>2. rows' = rows \/ (flow = "guarded" /\ rows' = MarkReady(rows, d))
        BY <2>1 DEF SweepAccounts, Guarded
      <3>. QED
        BY <1>1, <1>2, <3>1, <3>2
    <2>2. ASSUME UNCHANGED <<deployment, money, tables>> PROVE \A e \in Deposits : Rowed(e)'
      BY <1>1, <2>2 DEF deployment, money, tables
    <2>. QED
      BY <1>4, <2>1, <2>2 DEF Beat, RecheckTransactions, RescanAccounts
  <1>5. ASSUME NEW w \in Workers, WriteVerdict(w) PROVE \A e \in Deposits : Rowed(e)'
    <2>. DEFINE d == job[w].dep
                l == job[w].level
                r == Row(IF l = NoLevel THEN "rechecking" ELSE "ready", l)
    <2>1. job[w].pc = "write" /\ Shape(job[w])
      BY <1>5 DEF WriteVerdict, IInv
    <2>2. d \in Deposits /\ l \in Levels \cup {NoLevel}
      BY <2>1 DEF Shape
    <2>3. r \in RowSet /\ r.level = l /\ (r.status = "ready" => l # NoLevel)
      BY <2>2 DEF Row, RowSet
    <2>4. UNCHANGED <<flow, arrived, paid>>
      BY <1>5 DEF WriteVerdict, deployment, money
    <2>5. rows' = rows \/ (rows[d] # <<>> /\ rows' = [rows EXCEPT ![d][1] = r])
      <3>1. Len(rows[d]) = 1 => rows[d] # <<>>
        <4>1. rows[d] = <<>> => Len(rows[d]) = 0
          BY NoRows, Zenon
        <4>. QED
          BY <4>1
      <3>. QED
        BY <1>5, <3>1, Zenon DEF WriteVerdict, Checked
    <2>. HIDE DEF d, l, r
    <2>6. CASE rows[d] # <<>> /\ rows' = [rows EXCEPT ![d][1] = r]
      <3>1. rows'[d] # <<>> /\ rows'[d][1] = r /\ \A e \in Deposits \ {d} : rows'[e] = rows[e]
        <4>1. /\ [rows EXCEPT ![d][1] = r][d] # <<>> /\ [rows EXCEPT ![d][1] = r][d][1] = r
              /\ \A e \in Deposits \ {d} : [rows EXCEPT ![d][1] = r][e] = rows[e]
          BY <1>0, <2>2, <2>3, <2>6, Overwritten, Zenon
        <4>. QED
          BY <2>6, <4>1, Zenon
      <3>2. ASSUME NEW e \in Deposits PROVE Rowed(e)'
        <4>1. Rowed(e)
          OBVIOUS
        <4>2. CASE e = d
          BY <2>3, <2>4, <2>6, <3>1, <4>1, <4>2 DEF Rowed
        <4>3. CASE e # d
          BY <2>4, <3>1, <4>1, <4>3, RowedStays
        <4>. QED
          BY <4>2, <4>3
      <3>. QED
        BY <3>2
    <2>. QED
      BY <1>1, <2>4, <2>5, <2>6
  <1>6. ASSUME NEW w \in Workers, NEW a \in Answers, Mark(w, a) PROVE \A e \in Deposits : Rowed(e)'
    <2>1. job[w].pc = "mark" /\ Shape(job[w]) /\ Busy(job[w]) /\ Guarded(rows, job[w].dep, a)
          /\ UNCHANGED <<flow, arrived, paid>>
      BY <1>6 DEF Mark, IInv, Orderly, deployment, money
    <2>2. flow # "aml" /\ job[w].dep \in Deposits
      BY <2>1 DEF Shape, Busy, OwnPcs, Draining, Drained
    <2>3. rows' \in {rows, MarkReady(rows, job[w].dep)}
      BY <2>1 DEF Guarded
    <2>. QED
      BY <1>2, <2>1, <2>2, <2>3
  <1>7. ASSUME NEW w \in Workers, NEW x \in Dests, Pay(w, x) \/ PayUnseen(w, x)
        PROVE  \A e \in Deposits : Rowed(e)'
    <2>1. job[w].pc = "pay" /\ Moves(w, x) /\ UNCHANGED <<flow, rows>>
          /\ Shape(job[w]) /\ Busy(job[w])
      BY <1>7 DEF Pay, PayUnseen, deployment, tables, IInv, Orderly
    <2>2. job[w].dep \in arrived /\ arrived' = arrived
      BY <2>1, CollectionAssumption DEF Shape, Busy, Draining, Moves
    <2>3. \A e \in Deposits : e \in arrived \/ paid'[e] = paid[e]
      BY <1>0, <2>1, <2>2 DEF Moves, TypeOK
    <2>. QED
      BY <2>1, <2>2, <2>3, RowedStays
  <1>8. ASSUME NEW w \in Workers, UNCHANGED <<flow, money, tables>>
        PROVE  \A e \in Deposits : Rowed(e)'
    BY <1>1, <1>8 DEF money, tables
  <1>9. ASSUME NEW w \in Workers, Starting(w) \/ Crash(w) PROVE \A e \in Deposits : Rowed(e)'
    BY <1>8, <1>9 DEF Starting, Take, Inspect, Skip, InspectLost, Crash, deployment
  <1>10. ASSUME NEW w \in Workers, Checking(w) PROVE \A e \in Deposits : Rowed(e)'
    BY <1>5, <1>6, <1>8, <1>10 DEF Checking, AskScore, AskNewScore, AskPending, QueuePayout, deployment
  <1>11. ASSUME NEW w \in Workers, Drains(w) PROVE \A e \in Deposits : Rowed(e)'
    <2>1. ASSUME WritePayout(w) PROVE \A e \in Deposits : Rowed(e)'
      BY <1>1, <2>1 DEF WritePayout, money, deployment
    <2>. QED
      BY <1>7, <1>8, <1>11, <2>1 DEF Drains, BuildPayoutList, CheckBalance, LeaveBalance,
                                     PayReverted, PayRefused, deployment
  <1>12. ASSUME NEW w \in Workers, Sweeps(w) PROVE \A e \in Deposits : Rowed(e)'
    <2>1. UNCHANGED <<flow, arrived, paid, rows>>
      BY <1>12 DEF Sweeps, Gate, ReadBalance, Provision, Sweep, SweepFails, ScanBalance, ScanBusy,
                   ScanAllowed, deployment, money, tables
    <2>. QED
      BY <1>1, <2>1
  <1>13. CASE UNCHANGED vars
    BY <1>1, <1>13 DEF vars
  <1>. QED
    BY <1>3, <1>4, <1>9, <1>10, <1>11, <1>12, <1>13 DEF Next, Work

(***************************************************************************)
(* The balance.                                                             *)
(***************************************************************************)
LEMMA CoinsSum ==
    ASSUME NEW S, IsFiniteSet(S), NEW d \in S, NEW r, r[d] \in 0..Amount
    PROVE  /\ Cardinality(Coins(S, r)) \in Nat /\ Cardinality(Coins(S \ {d}, r)) \in Nat
           /\ Cardinality(Coins(S, r)) = Cardinality(Coins(S \ {d}, r)) + r[d]
  <1>. DEFINE A == Coins(S \ {d}, r)
              B == {d} \X (1..r[d])
  <1>0. Amount \in Nat
    BY CollectionAssumption
  <1>1. Coins(S, r) \in SUBSET (S \X (1..Amount)) /\ A \in SUBSET (S \X (1..Amount))
    BY DEF Coins
  <1>2. IsFiniteSet(1..Amount) /\ IsFiniteSet(1..r[d]) /\ Cardinality(1..r[d]) = r[d]
    <2>1. \A n \in Nat : IsFiniteSet(1..n) /\ Cardinality(1..n) = IF 1 > n THEN 0 ELSE n - 1 + 1
      BY FS_Interval
    <2>2. r[d] \in Nat
      BY <1>0
    <2>. DEFINE n == r[d]
    <2>. HIDE DEF n
    <2>3. n \in Nat
      BY <2>2 DEF n
    <2>4. IsFiniteSet(1..n) /\ Cardinality(1..n) = n
      BY <2>1, <2>3
    <2>. QED
      BY <1>0, <2>1, <2>4 DEF n
  <1>3. IsFiniteSet(S \X (1..Amount))
    BY <1>2, FS_Product
  <1>4. IsFiniteSet({d}) /\ Cardinality({d}) = 1
    BY FS_Singleton
  <1>5. IsFiniteSet(B) /\ Cardinality(B) = r[d]
    <2>1. IsFiniteSet(B) /\ Cardinality(B) = Cardinality({d}) * Cardinality(1..r[d])
      BY <1>2, <1>4, FS_Product
    <2>2. 1 * r[d] = r[d]
      OBVIOUS
    <2>. QED
      BY <1>2, <1>4, <2>1, <2>2
  <1>6. Coins(S, r) = A \cup B /\ A \cap B = {}
    BY <1>0 DEF Coins
  <1>7. IsFiniteSet(A) /\ IsFiniteSet(Coins(S, r))
    BY <1>1, <1>3, FS_Subset
  <1>8. Cardinality(A) \in Nat /\ Cardinality(Coins(S, r)) \in Nat
    BY <1>7, FS_CardinalityType
  <1>9. Cardinality(A \cup B) = Cardinality(A) + Cardinality(B) - Cardinality(A \cap B)
    BY <1>5, <1>7, FS_Union
  <1>10. Cardinality(A \cap B) = 0
    BY <1>6, FS_EmptySet
  <1>. QED
    BY <1>5, <1>6, <1>8, <1>9, <1>10

LEMMA CoinsSame ==
    ASSUME NEW S, NEW r, NEW q, \A e \in S : r[e] = q[e]
    PROVE  Coins(S, r) = Coins(S, q)
  BY DEF Coins

LEMMA SharesFit ==
    ASSUME NEW a \in Nat, NEW n \in Nat, n > 0, NEW m \in 0..n
    PROVE  a \div n \in Nat /\ m * (a \div n) \in 0..a
  <1>. DEFINE q == a \div n
  <1>1. q \in Nat /\ n * q <= a
    OBVIOUS
  <1>. HIDE DEF q
  <1>2. m * q <= n * q /\ m * q >= 0 /\ m * q \in Nat /\ n * q \in Nat
    BY <1>1
  <1>. QED
    BY <1>1, <1>2 DEF q

\* The shares of some of a split's addresses.
LEMMA PartOfAmount ==
    ASSUME NEW l \in Levels \cup {Regular}, NEW P \in SUBSET Split[l]
    PROVE  /\ IsFiniteSet(P) /\ Cardinality(P) \in Nat /\ Share(l) \in Nat
           /\ Cardinality(P) * Share(l) \in 0..Amount
  <1>1. IsFiniteSet(Split[l]) /\ Split[l] # {} /\ Amount \in Nat
    <2>1. Split[l] \in SUBSET Dests /\ Split[l] # {} /\ IsFiniteSet(Dests) /\ Amount \in Nat
      BY CollectionAssumption
    <2>. QED
      BY <2>1, FS_Subset
  <1>2. IsFiniteSet(P) /\ Cardinality(P) <= Cardinality(Split[l])
    BY <1>1, FS_Subset
  <1>3. /\ Cardinality(Split[l]) \in Nat /\ Cardinality(Split[l]) # 0
        /\ Cardinality(P) \in Nat
    BY <1>1, <1>2, FS_CardinalityType, FS_EmptySet
  <1>. DEFINE n == Cardinality(Split[l])
              m == Cardinality(P)
  <1>4. n \in Nat /\ n > 0 /\ m \in 0..n /\ m \in Nat
    BY <1>2, <1>3
  <1>. HIDE DEF n, m
  <1>5. Amount \div n \in Nat /\ m * (Amount \div n) \in 0..Amount
    BY <1>1, <1>4, SharesFit
  <1>. QED
    BY <1>2, <1>4, <1>5 DEF Share, n, m

\* A drained deposit is drained by its level, unless the account is overdrawn.
LEMMA Guided ==
    ASSUME IInv, Drained, ~Overdrawn, NEW d \in Deposits, ~Untouched(d)
    PROVE  Guide(d) \in Levels \cup {Regular} /\ d \notin excused
  <1>1. PICK x \in Dests : paid[d][x] # 0
    BY DEF Untouched
  <1>2. paid[d][x] > 0
    BY <1>1 DEF IInv, TypeOK
  <1>3. d \notin excused
    BY <1>2 DEF Overdrawn
  <1>4. flow = "aml" => verdict[d] \in Levels
    BY <1>2, <1>3 DEF IInv, Good, Levelled, TypeOK
  <1>. QED
    BY <1>3, <1>4 DEF Guide, Drained

LEMMA ReserveBound ==
    ASSUME IInv, Drained, ~Overdrawn, NEW d \in Deposits
    PROVE  Reserve(d) \in 0..Amount
  <1>1. CASE Untouched(d)
    BY <1>1, CollectionAssumption DEF Reserve
  <1>2. CASE ~Untouched(d)
    <2>1. Unsent(d) \in SUBSET Split[Guide(d)]
      BY DEF Unsent
    <2>. QED
      BY <1>2, <2>1, Guided, PartOfAmount DEF Reserve
  <1>. QED
    BY <1>1, <1>2

\* What the sweep of an unsettled deposit asks for is in its reserve.
LEMMA OwedBound ==
    ASSUME IInv, Drained, ~Overdrawn, NEW d \in Deposits, Guide(d) \in Levels \cup {Regular}
    PROVE  Owed(d, Guide(d)) \in Nat /\ Owed(d, Guide(d)) <= Reserve(d)
  <1>. DEFINE l == Guide(d)
              P == {x \in Split[l] : x \notin payouts[d] /\ paid[d][x] = 0}
  <1>1. P \in SUBSET Split[l] /\ Unsent(d) \in SUBSET Split[l] /\ P \in SUBSET Unsent(d)
    BY DEF Unsent
  <1>2. /\ Cardinality(P) \in Nat /\ Share(l) \in Nat
        /\ Cardinality(P) * Share(l) \in 0..Amount
    BY <1>1, PartOfAmount
  <1>3. CASE Untouched(d)
    BY <1>2, <1>3 DEF Owed, Reserve
  <1>4. CASE ~Untouched(d)
    <2>1. IsFiniteSet(Unsent(d)) /\ Cardinality(Unsent(d)) \in Nat
      BY <1>1, PartOfAmount
    <2>2. Cardinality(P) <= Cardinality(Unsent(d))
      BY <1>1, <2>1, FS_Subset
    <2>. DEFINE m == Cardinality(P)
                n == Cardinality(Unsent(d))
                s == Share(l)
    <2>3. m \in Nat /\ n \in Nat /\ s \in Nat /\ m <= n /\ m * s \in 0..Amount
      BY <1>2, <2>1, <2>2
    <2>4. Owed(d, l) = m * s /\ Reserve(d) = n * s
      BY <1>4 DEF Owed, Reserve
    <2>. HIDE DEF m, n, s, l
    <2>5. m * s <= n * s
      BY <2>3
    <2>. QED
      BY <2>3, <2>4, <2>5 DEF l
  <1>. QED
    BY <1>3, <1>4

LEMMA FundedStart == Init => Funded
  <1>. SUFFICES ASSUME Init PROVE Funded
    OBVIOUS
  <1>1. Coins(arrived, Reserves) = {}
    BY DEF Coins, Init
  <1>2. held \in Nat
    BY CollectionAssumption DEF Init
  <1>. QED
    BY <1>1, <1>2, FS_EmptySet DEF Funded

\* Nothing that a reserve or the balance depends on.
LEMMA FundedStays ==
    ASSUME TypeOK, Funded, UNCHANGED <<flow, arrived, held, paid>>, excused \subseteq excused',
           \A d \in Deposits : Guide(d)' = Guide(d) \/ Untouched(d) \/ d \in excused'
    PROVE  Funded'
  <1>. SUFFICES ASSUME Drained', ~Overdrawn'
                PROVE  (Cardinality(Coins(arrived, Reserves)) <= held)'
    BY DEF Funded
  <1>1. Cardinality(Coins(arrived, Reserves)) <= held
    BY DEF Funded, Drained, Overdrawn
  <1>2. ASSUME NEW d \in Deposits PROVE Reserve(d)' = Reserve(d)
    <2>1. Untouched(d)' <=> Untouched(d)
      BY DEF Untouched
    <2>2. CASE Untouched(d)
      BY <2>1, <2>2 DEF Reserve
    <2>3. CASE ~Untouched(d)
      <3>1. PICK x \in Dests : paid[d][x] # 0
        BY <2>3 DEF Untouched
      <3>2. paid[d][x] > 0
        BY <3>1 DEF TypeOK
      <3>4. Guide(d)' = Guide(d)
        BY <2>3, <3>2 DEF Overdrawn
      <3>5. Unsent(d)' = Unsent(d)
        BY <3>4 DEF Unsent
      <3>. QED
        BY <2>1, <2>3, <3>4, <3>5 DEF Reserve
    <2>. QED
      BY <2>2, <2>3
  <1>3. Reserves' = Reserves
    BY <1>2 DEF Reserves
  <1>. QED
    BY <1>1, <1>3

\* The transfer of a share takes that share from what its deposit owes.
LEMMA PayReserve ==
    ASSUME IInv, Orderly, Drained, ~Overdrawn, NEW w \in Workers, NEW x \in Dests,
           job[w].pc = "pay", Moves(w, x), NEW d \in Deposits \ excused, d = job[w].dep,
           flow' = flow, verdict' = verdict
    PROVE  /\ Share(job[w].level) \in Nat /\ Reserve(d)' \in Nat
           /\ Reserve(d)' + Share(job[w].level) <= Reserve(d)
  <1>. DEFINE l == job[w].level
              P == {y \in Split[l] : paid[d][y] = 0}
              s == Share(l)
              m == Cardinality(P)
  <1>0. TypeOK /\ Shape(job[w]) /\ Busy(job[w]) /\ Good(d) /\ Drain(w, d)
    BY DEF IInv, Orderly, Drain, Draining
  <1>1. l \in Levels \cup {Regular} /\ x \in Split[l] /\ x \in job[w].plan
    BY <1>0 DEF Shape, Listed, Moves
  <1>2. Guide(d) = l
    BY <1>0 DEF Guide, Busy, Listed, Drained, Good, Levelled
  <1>3. paid[d][x] = 0
    <2>1. x \notin payouts[d]
      BY <1>0, <1>1 DEF Good, Unpaid
    <2>2. ~\E v \in Workers : Drain(v, d) /\ job[v].pc = "record" /\ job[v].dest = x
      BY <1>0 DEF Good, Exclusive
    <2>. QED
      BY <1>0, <2>1, <2>2 DEF Good, Counted
  <1>4. paid'[d][x] = 1 /\ \A y \in Dests \ {x} : paid'[d][y] = paid[d][y]
    BY <1>0, <1>3 DEF Moves, TypeOK
  <1>5. P \in SUBSET Split[l] /\ x \in P /\ Split[l] \subseteq Dests
    BY <1>1, <1>3, CollectionAssumption
  <1>6. /\ IsFiniteSet(P) /\ m \in Nat /\ s \in Nat
        /\ m * s \in 0..Amount
    BY <1>1, <1>5, PartOfAmount
  <1>7. Cardinality(P \ {x}) = m - 1 /\ Cardinality(P \ {x}) \in Nat
    <2>1. P \ {x} \in SUBSET P /\ IsFiniteSet(P \ {x})
      BY <1>6, FS_Subset
    <2>2. Cardinality(P \ {x}) = Cardinality(P) - 1
      BY <1>5, <1>6, FS_RemoveElement, Zenon
    <2>. QED
      BY <2>1, <2>2, FS_CardinalityType
  <1>8. Reserve(d)' = (m - 1) * s
    <2>1. ~Untouched(d)'
      BY <1>4 DEF Untouched
    <2>2. Guide(d)' = l
      BY <1>2 DEF Guide
    <2>3. Unsent(d)' = P \ {x}
      BY <1>4, <1>5, <2>2 DEF Unsent
    <2>. QED
      BY <1>7, <2>1, <2>2, <2>3 DEF Reserve
  <1>9. m * s <= Reserve(d)
    <2>1. CASE Untouched(d)
      BY <1>6, <2>1, CollectionAssumption DEF Reserve
    <2>2. CASE ~Untouched(d)
      <3>1. Unsent(d) = P
        BY <1>2 DEF Unsent
      <3>2. Reserve(d) = m * s
        BY <1>2, <2>2, <3>1 DEF Reserve
      <3>. QED
        BY <1>6, <3>2
    <2>. QED
      BY <2>1, <2>2
  <1>10. Reserve(d) \in Nat
    BY ReserveBound, CollectionAssumption
  <1>. HIDE DEF m, s, P
  <1>11. (m - 1) * s \in Nat /\ (m - 1) * s + s = m * s /\ m * s \in Nat
    <2>1. m - 1 \in Nat
      BY <1>7
    <2>. QED
      BY <1>6, <2>1
  <1>. QED
    BY <1>6, <1>8, <1>9, <1>10, <1>11 DEF s

\* A deposit brings what it owes.
LEMMA FundedDeposit ==
    ASSUME IInv, Orderly, Funded, NEW d \in Deposits, Rowed(d), NEW a \in Answers, Deposit(d, a)
    PROVE  Funded'
  <1>. SUFFICES ASSUME Drained', ~Overdrawn'
                PROVE  (Cardinality(Coins(arrived, Reserves)) <= held)'
    BY DEF Funded
  <1>0. /\ d \notin arrived /\ arrived' = arrived \cup {d} /\ held' = held + Amount
        /\ UNCHANGED <<flow, paid, verdict, excused>>
    BY DEF Deposit, deployment, chance
  <1>1. Drained /\ ~Overdrawn
    BY <1>0 DEF Drained, Overdrawn
  <1>2. Reserves' = Reserves
    BY <1>0 DEF Reserves, Reserve, Untouched, Unsent, Guide
  <1>3. Reserves[d] = Amount
    BY <1>0 DEF Reserves, Reserve, Untouched, Rowed
  <1>. DEFINE S == arrived \cup {d}
  <1>4. IsFiniteSet(S) /\ d \in S /\ S \ {d} = arrived
    BY <1>0, FS_AddElement DEF Orderly
  <1>5. Reserves[d] \in 0..Amount
    BY <1>3, CollectionAssumption
  <1>6. /\ Cardinality(Coins(S, Reserves)) \in Nat /\ Cardinality(Coins(arrived, Reserves)) \in Nat
        /\ Cardinality(Coins(S, Reserves)) = Cardinality(Coins(arrived, Reserves)) + Reserves[d]
    BY <1>4, <1>5, CoinsSum
  <1>7. Cardinality(Coins(arrived, Reserves)) <= held /\ held \in Nat /\ Amount \in Nat
    BY <1>1, CollectionAssumption DEF Funded, IInv, TypeOK
  <1>8. (Cardinality(Coins(arrived, Reserves)))' = Cardinality(Coins(S, Reserves))
    BY <1>0, <1>2
  <1>. QED
    BY <1>0, <1>3, <1>6, <1>7, <1>8

LEMMA FundedPay ==
    ASSUME IInv, IInv', Orderly, Funded, NEW w \in Workers, NEW x \in Dests,
           Pay(w, x) \/ PayUnseen(w, x)
    PROVE  Funded'
  <1>. SUFFICES ASSUME Drained', ~Overdrawn'
                PROVE  (Cardinality(Coins(arrived, Reserves)) <= held)'
    BY DEF Funded
  <1>. DEFINE s == Share(job[w].level)
  <1>0. /\ job[w].pc = "pay" /\ Moves(w, x) /\ s <= held /\ held' = held - s
        /\ UNCHANGED <<flow, verdict, arrived>> /\ excused \subseteq excused'
    BY DEF Pay, PayUnseen, Moves, deployment, chance
  <1>1. PICK d \in Deposits : d = job[w].dep
    BY <1>0 DEF IInv, Shape, Draining
  <1>2. d \in arrived
    BY <1>1, CollectionAssumption DEF Orderly, Busy
  <1>3. TypeOK /\ TypeOK' /\ Drained
    BY <1>0 DEF IInv, Drained
  <1>4. \A e \in Deposits \ {d} : paid'[e] = paid[e]
    BY <1>0, <1>1, <1>3 DEF Moves, TypeOK
  <1>5. paid'[d][x] > 0 /\ \A y \in Dests : paid'[d][y] >= paid[d][y]
    BY <1>0, <1>1, <1>3 DEF Moves, TypeOK
  <1>6. d \notin excused /\ ~Overdrawn
    <2>1. d \notin excused
      BY <1>0, <1>5 DEF Overdrawn
    <2>2. \A e \in excused, y \in Dests : ~(paid[e][y] > 0)
      BY <1>0, <1>3, <1>4, <2>1 DEF Overdrawn, TypeOK
    <2>. QED
      BY <2>1, <2>2 DEF Overdrawn
  <1>7. s \in Nat /\ Reserve(d)' \in Nat /\ Reserve(d)' + s <= Reserve(d)
    BY <1>0, <1>1, <1>3, <1>6, PayReserve
  <1>8. Reserve(d) \in 0..Amount /\ Reserve(d)' \in 0..Amount
    <2>1. Reserve(d) \in 0..Amount
      BY <1>3, <1>6, ReserveBound
    <2>. QED
      BY <1>7, <2>1, CollectionAssumption
  <1>9. \A e \in arrived \ {d} : Reserves'[e] = Reserves[e]
    BY <1>0, <1>3, <1>4 DEF Reserves, Reserve, Untouched, Unsent, Guide, TypeOK
  <1>10. Reserves[d] = Reserve(d) /\ Reserves'[d] = Reserve(d)'
    BY DEF Reserves
  <1>. DEFINE C == Coins(arrived \ {d}, Reserves)
              D == Coins(arrived \ {d}, Reserves')
  <1>11. D = C
    BY <1>9, CoinsSame
  <1>12. /\ Cardinality(Coins(arrived, Reserves)) \in Nat /\ Cardinality(C) \in Nat
         /\ Cardinality(Coins(arrived, Reserves)) = Cardinality(C) + Reserve(d)
    BY <1>2, <1>8, <1>10, CoinsSum DEF Orderly
  <1>13. Cardinality(Coins(arrived, Reserves')) = Cardinality(D) + Reserve(d)'
    BY <1>2, <1>8, <1>10, CoinsSum DEF Orderly
  <1>14. Cardinality(Coins(arrived, Reserves)) <= held /\ held \in Nat
    BY <1>3, <1>6 DEF Funded, TypeOK
  <1>15. (Cardinality(Coins(arrived, Reserves)))' = Cardinality(Coins(arrived, Reserves'))
    BY <1>0
  <1>. HIDE DEF C, D, s
  <1>16. (Cardinality(Coins(arrived, Reserves)))' = Cardinality(C) + Reserve(d)'
    BY <1>11, <1>13, <1>15
  <1>. DEFINE rd == Reserve(d)'
              nc == (Cardinality(Coins(arrived, Reserves)))'
  <1>17. nc = Cardinality(C) + rd /\ rd \in Nat /\ rd + s <= Reserve(d) /\ Reserve(d) \in Nat
    BY <1>7, <1>8, <1>16, CollectionAssumption
  <1>. HIDE DEF rd, nc
  <1>18. nc <= held - s
    BY <1>7, <1>12, <1>14, <1>17
  <1>. QED
    BY <1>0, <1>18 DEF nc, s

LEMMA FundedStep ==
    ASSUME IInv, IInv', Orderly, \A d \in Deposits : Rowed(d), Funded, [Next]_vars
    PROVE  Funded'
  <1>0. TypeOK
    BY DEF IInv
  <1>1. ASSUME UNCHANGED <<flow, arrived, held, paid, verdict>>, excused \subseteq excused'
        PROVE  Funded'
    BY <1>0, <1>1, FundedStays DEF Guide
  <1>2. ASSUME NEW d \in Deposits, NEW a \in Answers, Rescan(d, a) PROVE Funded'
    BY <1>1, <1>2 DEF Rescan, deployment, money
  <1>3. CASE Beat
    BY <1>1, <1>3 DEF Beat, SweepAccounts, RecheckTransactions, RescanAccounts, deployment, money, chance
  <1>4. ASSUME NEW w \in Workers, Starting(w) \/ Crash(w) PROVE Funded'
    BY <1>1, <1>4 DEF Starting, Take, Inspect, Skip, InspectLost, Crash, deployment, money, chance
  <1>5. ASSUME NEW w \in Workers, Checking(w) PROVE Funded'
    <2>1. ASSUME NEW l \in Levels, AskScore(w, l) \/ AskNewScore(w, l) PROVE Funded'
      <3>1. UNCHANGED <<flow, arrived, held, paid>> /\ excused \subseteq excused'
            /\ job[w].pc = "ask"
        BY <2>1 DEF AskScore, AskNewScore, deployment, money, chance
      <3>. SUFFICES ASSUME Drained PROVE Funded'
        BY <3>1 DEF Funded, Drained
      <3>2. ASSUME NEW d \in Deposits, Guide(d)' # Guide(d), ~Untouched(d) PROVE d \in excused'
        <4>1. flow # "regular" /\ verdict'[d] # verdict[d]
          BY <3>1, <3>2 DEF Guide
        <4>2. d = job[w].dep /\ (verdict[d] = NoLevel \/ d \in excused')
          BY <1>0, <2>1, <4>1 DEF AskScore, AskNewScore, TypeOK
        <4>3. flow = "aml"
          BY <4>1 DEF Drained
        <4>4. PICK x \in Dests : paid[d][x] # 0
          BY <3>2 DEF Untouched
        <4>5. paid[d][x] > 0
          BY <1>0, <4>4 DEF TypeOK
        <4>6. d \notin excused => verdict[d] # NoLevel
          BY <4>3, <4>5 DEF IInv, Good, Levelled
        <4>. QED
          BY <3>1, <4>2, <4>6
      <3>. QED
        BY <1>0, <3>1, <3>2, FundedStays
    <2>2. CASE AskPending(w) \/ WriteVerdict(w) \/ QueuePayout(w) \/ \E a \in Answers : Mark(w, a)
      BY <1>1, <2>2 DEF AskPending, WriteVerdict, QueuePayout, Mark, deployment, money, chance
    <2>. QED
      BY <1>5, <2>1, <2>2 DEF Checking
  <1>6. ASSUME NEW w \in Workers, Drains(w) PROVE Funded'
    <2>1. CASE BuildPayoutList(w) \/ CheckBalance(w) \/ LeaveBalance(w) \/ PayRefused(w)
      BY <1>1, <2>1 DEF BuildPayoutList, CheckBalance, LeaveBalance, PayRefused, deployment, money, chance
    <2>2. ASSUME NEW x \in Dests, PayReverted(w, x) PROVE Funded'
      BY <1>1, <2>2 DEF PayReverted, deployment, money, chance
    <2>3. CASE WritePayout(w)
      BY <1>1, <2>3 DEF WritePayout, deployment, money, chance
    <2>. QED
      BY <1>6, <2>1, <2>2, <2>3, FundedPay DEF Drains
  <1>7. ASSUME NEW w \in Workers, Sweeps(w) PROVE Funded'
    <2>1. ~Drained
      BY <1>7, OrderlySweeps
    <2>2. flow' = flow
      BY <1>7 DEF Sweeps, Gate, ReadBalance, Provision, Sweep, SweepFails, ScanBalance, ScanBusy,
                  ScanAllowed, deployment
    <2>. QED
      BY <2>1, <2>2 DEF Funded, Drained
  <1>8. CASE UNCHANGED vars
    BY <1>1, <1>8 DEF vars
  <1>. QED
    BY <1>2, <1>3, <1>4, <1>5, <1>6, <1>7, <1>8, FundedDeposit DEF Next, Work, Scanning

LEMMA LedgerStep == IInv /\ IInv' /\ Ledger /\ [Next]_vars => Ledger'
  <1>. SUFFICES ASSUME IInv, IInv', Ledger, [Next]_vars PROVE Ledger'
    OBVIOUS
  <1>1. Orderly /\ (\A d \in Deposits : Rowed(d)) /\ Funded
    BY DEF Ledger
  <1>2. Orderly'
    BY <1>1, OrderlyStep
  <1>3. \A d \in Deposits : Rowed(d)'
    BY <1>1, RowedStep
  <1>4. Funded'
    BY <1>1, FundedStep
  <1>. QED
    BY <1>2, <1>3, <1>4 DEF Ledger

\* The balance covers what the deposits on the account still owe together,
\* whatever their number and that of the workers, for as long as no deposit
\* whose drain may be repeated is drained.
THEOREM LedgerBalances == Spec => []Ledger
  <1>1. Init => Ledger
    BY OrderlyStart, RowedStart, FundedStart DEF Ledger
  <1>. QED
    BY <1>1, LedgerStep, Invariance, PTL DEF Spec

\* What one deposit owes is part of what all of them owe.
LEMMA OneReserve ==
    ASSUME IInv, Ledger, Drained, ~Overdrawn, NEW d \in arrived
    PROVE  Reserve(d) \in Nat /\ Reserve(d) <= held
  <1>1. d \in Deposits /\ held \in Nat
    BY DEF IInv, TypeOK
  <1>2. Reserves[d] = Reserve(d) /\ Reserve(d) \in 0..Amount /\ Reserve(d) \in Nat
    BY <1>1, ReserveBound, CollectionAssumption DEF Reserves
  <1>3. /\ Cardinality(Coins(arrived, Reserves)) \in Nat
        /\ Cardinality(Coins(arrived \ {d}, Reserves)) \in Nat
        /\ Cardinality(Coins(arrived, Reserves)) =
             Cardinality(Coins(arrived \ {d}, Reserves)) + Reserves[d]
    BY <1>2, CoinsSum DEF Ledger, Orderly
  <1>4. Cardinality(Coins(arrived, Reserves)) <= held
    BY DEF Ledger, Funded
  <1>. QED
    BY <1>1, <1>2, <1>3, <1>4

\* No deposit that is drained is left with its money gone, its row in a status
\* that no periodic task looks for, or a balance the sweep passes by although
\* nothing of the deposit is paid yet.
THEOREM NothingIsStranded == Spec => []NeverStranded
  <1>1. IInv /\ Ledger => NeverStranded
    <2>. SUFFICES ASSUME IInv, Ledger, Drained, NEW d \in arrived, d \notin excused, ~Overdrawn,
                         ~Settled(d), flow = "aml" => ~(Len(rows[d]) > 1)
                  PROVE  Awaited(d)
      BY DEF NeverStranded
    <2>1. d \in Deposits /\ TypeOK /\ Good(d) /\ Rowed(d) /\ rows[d] \in Seq(RowSet)
          /\ held \in Nat /\ paid[d] \in [Dests -> Nat]
      BY DEF IInv, TypeOK, Ledger
    <2>2. ASSUME Guide(d) \in Levels \cup {Regular}
          PROVE  TakenUp(d, Guide(d))
      <3>1. Reserve(d) \in Nat /\ Reserve(d) <= held
        BY OneReserve
      <3>2. Owed(d, Guide(d)) \in Nat /\ Owed(d, Guide(d)) <= Reserve(d)
        BY <2>1, <2>2, OwedBound
      <3>3. held >= Owed(d, Guide(d))
        BY <2>1, <3>1, <3>2
      <3>4. ASSUME ~PartlyPaid(d), Worth(Amount) PROVE Worth(held)
        <4>1. \A x \in Dests : paid[d][x] \in Nat /\ ~(paid[d][x] > 0)
          BY <2>1, <3>4 DEF PartlyPaid
        <4>2. Untouched(d)
          BY <4>1 DEF Untouched
        <4>3. Amount <= held
          BY <3>1, <4>2 DEF Reserve
        <4>. QED
          BY <2>1, <3>4, <4>3, CollectionAssumption DEF Worth
      <3>. QED
        BY <3>3, <3>4 DEF TakenUp
    <2>3. rows[d] # <<>>
      BY <2>1 DEF Rowed, Drained
    <2>4. CASE flow = "aml"
      <3>1. CASE rows[d][1].status = "ready"
        <4>1. rows[d][1].level = verdict[d] /\ verdict[d] # NoLevel
          BY <2>1, <2>3, <2>4, <3>1 DEF Rowed, Good, Levelled
        <4>2. Guide(d) = verdict[d] /\ verdict[d] \in Levels
          BY <2>1, <2>4, <4>1 DEF Guide, TypeOK
        <4>3. TakenUp(d, verdict[d])
          BY <2>2, <4>2
        <4>. QED
          BY <2>3, <2>4, <3>1, <4>1, <4>3 DEF Awaited
      <3>2. CASE rows[d][1].status # "ready"
        <4>1. rows[d] \in Seq(RowSet) /\ rows[d] # <<>> /\ ~(Len(rows[d]) > 1)
          BY <2>1, <2>3, <2>4
        <4>2. Len(rows[d]) = 1
          BY <4>1, OneRow
        <4>. QED
          BY <2>3, <2>4, <3>2, <4>2 DEF Awaited
      <3>. QED
        BY <3>1, <3>2
    <2>5. CASE flow = "regular"
      <3>1. Guide(d) = Regular
        BY <2>5 DEF Guide
      <3>2. TakenUp(d, Regular)
        BY <2>2, <3>1
      <3>. QED
        BY <2>3, <2>5, <3>2 DEF Awaited
    <2>. QED
      BY <2>4, <2>5 DEF Drained
  <1>. QED
    BY <1>1, Invariance, LedgerBalances, PTL
=============================================================================
