--------------------- MODULE DestinationActivationProofs ---------------------
(***************************************************************************)
(* What is proved of DestinationActivation, for every set of calls and      *)
(* every number of lapses and expiries.  IInv is inductive; one lemma per   *)
(* action shows that it keeps IInv, one step per conjunct.                  *)
(***************************************************************************)
EXTENDS DestinationActivation, TLAPS

-----------------------------------------------------------------------------
(* The steps of a call                                                      *)

\* A call that moves to a place where AnswerInv asks little, and leaves the other
\* calls and the orders as they are, keeps AnswerInv.
LEMMA AnswersKept ==
    ASSUME IInv, NEW c \in Calls, order' = order,
           pc'[c] \notin {"store", "storeTx"},
           pc'[c] = "note" => outcome'[c] # "success",
           \A d \in Calls \ {c} :
              pc'[d] = pc[d] /\ outcome'[d] = outcome[d] /\ job'[d] = job[d]
    PROVE  AnswerInv'
<1>1. ASSUME NEW d \in Calls
      PROVE  /\ pc'[d] = "note" => outcome'[d] # "success"
             /\ pc'[d] = "store" => job'[d] = d /\ Placed(<<d, "profeex">>)'
             /\ pc'[d] = "storeTx" => Placed(<<d, "refee">>)'
  BY <1>1, d = c \/ d \in Calls \ {c} DEF IInv, AnswerInv, Placed
<1> QED
  BY <1>1, Zenon DEF AnswerInv

\* Nothing is known or held before the lock.
LEMMA FirstQuoteKeeps == ASSUME IInv, NEW c \in Calls, FirstQuote(c) PROVE IInv'
<1>1. TypeOK'
  BY DEF IInv, FirstQuote, TypeOK, Running, Holding, Window, Ended, Providers, Orders, Goto,
         Continue, NoRecord, world, redis
<1>2. OwnInv'
  BY DEF IInv, FirstQuote, TypeOK, OwnInv, Window, Running, Holding, Ended, Providers, Orders,
         Goto, Continue, NoRecord, OrdersOf, world, redis
<1>3. CoverInv'
  BY DEF IInv, FirstQuote, TypeOK, OwnInv, CoverInv, OneOrder, Uncovered, Placed, Unstored,
         AfterLoad, Window, Running, Holding, Ended, Providers, Orders, Goto, Continue,
         NoRecord, OrdersOf, world, redis
<1>4. OneOrder'
  BY DEF IInv, FirstQuote, TypeOK, OwnInv, CoverInv, OneOrder, Uncovered, Placed, Unstored,
         AfterLoad, Window, Running, Holding, Ended, Providers, Orders, Goto, Continue,
         NoRecord, OrdersOf, world, redis
<1>5. AnswerInv'
  <2>1. order' = order
    BY DEF FirstQuote, world
  <2>2. pc'[c] \notin {"store", "storeTx"} /\ (pc'[c] = "note" => outcome'[c] # "success")
    BY DEF IInv, TypeOK, FirstQuote, Goto, Continue
  <2>3. \A d \in Calls \ {c} : pc'[d] = pc[d] /\ outcome'[d] = outcome[d] /\ job'[d] = job[d]
    BY DEF IInv, TypeOK, FirstQuote, Goto, Continue
  <2> QED
    BY <2>1, <2>2, <2>3, AnswersKept
<1>6. ReturnedIsActive'
  BY DEF IInv, FirstQuote, TypeOK, AnswerInv, ReturnedIsActive, Placed, Running, Holding,
         Window, Providers, Orders, Goto, Continue, NoRecord, world, redis
<1>7. QuietInv'
  BY DEF IInv, FirstQuote, TypeOK, QuietInv, RecordInv, AnswerInv, AfterLoad, Window, Running,
         Holding, Ended, Providers, Orders, Goto, Continue, NoRecord, world, redis
<1>8. RecordInv'
  BY DEF IInv, FirstQuote, TypeOK, RecordInv, QuietInv, Providers, Orders, Goto, Continue,
         NoRecord, world, redis
<1>. QED  BY <1>1, <1>2, <1>3, <1>4, <1>5, <1>6, <1>7, <1>8 DEF IInv

\* The new holder is the only one in the window that is not excused.
LEMMA AcquireKeeps == ASSUME IInv, NEW c \in Calls, Acquire(c) PROVE IInv'
<1>1. TypeOK'
  BY ActivationAssumption DEF IInv, Acquire, TypeOK, Running, Holding, Window, Ended, Providers,
         Orders, Goto, Continue, NoRecord, world
<1>2. OwnInv'
  BY ActivationAssumption DEF IInv, Acquire, TypeOK, OwnInv, Window, Running, Holding, Ended,
         Providers, Orders, Goto, Continue, NoRecord, OrdersOf, world
<1>3. CoverInv'
  BY ActivationAssumption DEF IInv, Acquire, TypeOK, OwnInv, CoverInv, OneOrder, Uncovered,
         Placed, Unstored, AfterLoad, Window, Running, Holding, Ended, Providers, Orders, Goto,
         Continue, NoRecord, OrdersOf, world
<1>4. OneOrder'
  BY ActivationAssumption DEF IInv, Acquire, TypeOK, OwnInv, CoverInv, OneOrder, Uncovered,
         Placed, Unstored, AfterLoad, Window, Running, Holding, Ended, Providers, Orders, Goto,
         Continue, NoRecord, OrdersOf, world
<1>5. AnswerInv'
  BY DEF IInv, Acquire, TypeOK, AnswerInv, Placed, Goto, Continue
<1>6. ReturnedIsActive'
  BY DEF IInv, Acquire, TypeOK, AnswerInv, ReturnedIsActive, Placed, Running, Holding, Window,
         Providers, Orders, Goto, Continue, NoRecord, world
<1>7. QuietInv'
  BY ActivationAssumption DEF IInv, Acquire, TypeOK, QuietInv, RecordInv, AnswerInv, AfterLoad,
         Window, Running, Holding, Ended, Providers, Orders, Goto, Continue, NoRecord, world
<1>8. RecordInv'
  BY DEF IInv, Acquire, TypeOK, RecordInv, QuietInv, Providers, Orders, Goto, Continue,
         NoRecord, world
<1>. QED  BY <1>1, <1>2, <1>3, <1>4, <1>5, <1>6, <1>7, <1>8 DEF IInv

\* A lock taken by a request whose answer is lost is nobody's.
LEMMA NotAcquiredKeeps == ASSUME IInv, NEW c \in Calls, NotAcquired(c) PROVE IInv'
<1>1. TypeOK'
  BY ActivationAssumption DEF IInv, NotAcquired, TypeOK, Running, Holding, Window, Ended,
         Providers, Orders, Goto, Continue, NoRecord, world
<1>2. OwnInv'
  BY ActivationAssumption DEF IInv, NotAcquired, TypeOK, OwnInv, Window, Running, Holding,
         Ended, Providers, Orders, Goto, Continue, NoRecord, OrdersOf, world
<1>3. CoverInv'
  BY ActivationAssumption DEF IInv, NotAcquired, TypeOK, OwnInv, CoverInv, OneOrder, Uncovered,
         Placed, Unstored, AfterLoad, Window, Running, Holding, Ended, Providers, Orders, Goto,
         Continue, NoRecord, OrdersOf, world
<1>4. OneOrder'
  BY ActivationAssumption DEF IInv, NotAcquired, TypeOK, OwnInv, CoverInv, OneOrder, Uncovered,
         Placed, Unstored, AfterLoad, Window, Running, Holding, Ended, Providers, Orders, Goto,
         Continue, NoRecord, OrdersOf, world
<1>5. AnswerInv'
  BY DEF IInv, NotAcquired, TypeOK, AnswerInv, Placed, Goto, Continue
<1>6. ReturnedIsActive'
  BY DEF IInv, NotAcquired, TypeOK, AnswerInv, ReturnedIsActive, Placed, Running, Holding,
         Window, Providers, Orders, Goto, Continue, NoRecord, world
<1>7. QuietInv'
  BY ActivationAssumption DEF IInv, NotAcquired, TypeOK, QuietInv, RecordInv, AnswerInv,
         AfterLoad, Window, Running, Holding, Ended, Providers, Orders, Goto, Continue,
         NoRecord, world
<1>8. RecordInv'
  BY DEF IInv, NotAcquired, TypeOK, RecordInv, QuietInv, Providers, Orders, Goto, Continue,
         NoRecord, world
<1>. QED  BY <1>1, <1>2, <1>3, <1>4, <1>5, <1>6, <1>7, <1>8 DEF IInv

\* The second quote orders nothing.
LEMMA RequoteKeeps == ASSUME IInv, NEW c \in Calls, Requote(c) PROVE IInv'
<1>1. TypeOK'
  BY DEF IInv, Requote, TypeOK, Running, Holding, Window, Ended, Providers, Orders, Goto, Says,
         Continue, Leave, NoRecord, world, redis
<1>2. OwnInv'
  BY DEF IInv, Requote, TypeOK, OwnInv, Window, Running, Holding, Ended, Providers, Orders,
         Goto, Says, Continue, Leave, NoRecord, OrdersOf, world, redis
<1>3. CoverInv'
  <2>1. ASSUME NEW o \in Orders, Uncovered(o)' PROVE record' # NoRecord \/ Unstored(o)'
    BY <2>1 DEF IInv, Requote, TypeOK, OwnInv, CoverInv, OneOrder, Uncovered, Placed, Unstored,
           AfterLoad, Window, Running, Holding, Ended, Providers, Orders, Goto, Says, Continue,
           Leave, NoRecord, OrdersOf, world, redis
  <2>2. ASSUME NEW d \in Calls, pc'[d] \in AfterLoad, ~ (OrdersOf(d) \subseteq excused'),
                NEW o \in Orders, Uncovered(o)'
         PROVE  o[1] = d /\ Unstored(o)'
    BY <2>2 DEF IInv, Requote, TypeOK, OwnInv, CoverInv, OneOrder, Uncovered, Placed, Unstored,
           AfterLoad, Window, Running, Holding, Ended, Providers, Orders, Goto, Says, Continue,
           Leave, NoRecord, OrdersOf, world, redis
  <2> QED
    BY <2>1, <2>2, Zenon DEF CoverInv
<1>4. OneOrder'
  BY DEF IInv, Requote, TypeOK, OwnInv, CoverInv, OneOrder, Uncovered, Placed, Unstored,
         AfterLoad, Window, Running, Holding, Ended, Providers, Orders, Goto, Says, Continue,
         Leave, NoRecord, OrdersOf, world, redis
<1>5. AnswerInv'
  <2>1. order' = order
    BY DEF Requote, world
  <2>2. pc'[c] \notin {"store", "storeTx"} /\ (pc'[c] = "note" => outcome'[c] # "success")
    BY DEF IInv, TypeOK, Requote, Goto, Says, Continue, Leave
  <2>3. \A d \in Calls \ {c} : pc'[d] = pc[d] /\ outcome'[d] = outcome[d] /\ job'[d] = job[d]
    BY DEF IInv, TypeOK, Requote, Goto, Says, Continue, Leave
  <2> QED
    BY <2>1, <2>2, <2>3, AnswersKept
<1>6. ReturnedIsActive'
  BY DEF IInv, Requote, TypeOK, AnswerInv, ReturnedIsActive, Placed, Running, Holding, Window,
         Providers, Orders, Goto, Says, Continue, Leave, NoRecord, world, redis
<1>7. QuietInv'
  BY DEF IInv, Requote, TypeOK, QuietInv, RecordInv, AnswerInv, AfterLoad, Window, Running,
         Holding, Ended, Providers, Orders, Goto, Says, Continue, Leave, NoRecord, world, redis
<1>8. RecordInv'
  BY DEF IInv, Requote, TypeOK, RecordInv, QuietInv, Providers, Orders, Goto, Says, Continue,
         Leave, NoRecord, world, redis
<1>. QED  BY <1>1, <1>2, <1>3, <1>4, <1>5, <1>6, <1>7, <1>8 DEF IInv

\* No record means that every order placed so far is excused.
LEMMA LoadKeeps == ASSUME IInv, NEW c \in Calls, Load(c) PROVE IInv'
<1>. DEFINE Forgotten == IF record.status = "other" THEN {o \in Orders : order[o] # "none"} ELSE {}
<1>0. excused' = excused \cup Forgotten /\ order' = order /\ Forgotten \subseteq Orders
  BY DEF Load, Excuse, world
<1>1. TypeOK'
  BY <1>0 DEF IInv, Load, TypeOK, Running, Holding, Window, Ended, Providers, Orders, Goto, Says,
         Continue, Leave, NoRecord, world, redis
<1>2. OwnInv'
  BY <1>0 DEF IInv, Load, TypeOK, OwnInv, Window, Running, Holding, Ended, Providers, Orders, Goto,
         Says, Continue, Leave, NoRecord, OrdersOf, world, redis
<1>3. CoverInv'
  <2>1. \A o \in Orders : Uncovered(o)' => Uncovered(o)
    BY <1>0 DEF Uncovered, Placed
  <2>2. record' = record /\ (\A o \in Orders : Unstored(o)' <=> Unstored(o))
    BY DEF Load, Continue, Leave, Goto, redis, IInv, TypeOK, Unstored, Orders
  <2>3. ASSUME NEW d \in Calls, pc'[d] \in AfterLoad, ~ (OrdersOf(d) \subseteq excused'),
                NEW o \in Orders, Uncovered(o)'
         PROVE  o[1] = d /\ Unstored(o)'
    <3>1. ~ (OrdersOf(d) \subseteq excused) /\ Uncovered(o)
      BY <2>1, <2>3, <1>0
    <3>2. CASE pc[d] \in AfterLoad
      BY <3>1, <3>2, <2>2, <2>3 DEF IInv, CoverInv
    <3>3. CASE pc[d] \notin AfterLoad
      <4>1. d = c /\ record.status \in {"none", "other"}
        BY <2>3, <3>3 DEF Load, Continue, Leave, Goto, IInv, TypeOK, AfterLoad
      <4>2. record.status # "other"
        BY <2>3, <1>0 DEF Uncovered, Placed
      <4>3. record = NoRecord
        BY <4>1, <4>2 DEF IInv, TypeOK, NoRecord
      <4>4. Unstored(o)
        BY <3>1, <4>3 DEF IInv, CoverInv
      <4>5. o[1] \in Calls /\ pc[o[1]] \in {"store", "storeTx"}
        BY <4>4 DEF Unstored, Orders
      <4>6. pc[c] = "load"
        BY DEF Load
      <4>7. lock = c
        BY <3>1, <4>1, <4>6 DEF IInv, OwnInv, Window
      <4>8. OrdersOf(o[1]) \subseteq excused \/ lock = o[1]
        BY <4>5 DEF IInv, OwnInv, Window
      <4>9. o \in OrdersOf(o[1])
        BY DEF Orders, OrdersOf
      <4> QED
        BY <4>5, <4>6, <4>7, <4>8, <4>9, <3>1 DEF Uncovered
    <3> QED
      BY <3>2, <3>3
  <2> QED
    BY <2>1, <2>2, <2>3, Zenon DEF CoverInv, IInv
<1>4. OneOrder'
  BY <1>0 DEF IInv, OneOrder, Uncovered, Placed
<1>5. AnswerInv'
  <2>1. order' = order
    BY DEF Load, world
  <2>2. pc'[c] \notin {"store", "storeTx"} /\ (pc'[c] = "note" => outcome'[c] # "success")
    BY DEF IInv, TypeOK, Load, Goto, Says, Continue, Leave
  <2>3. \A d \in Calls \ {c} : pc'[d] = pc[d] /\ outcome'[d] = outcome[d] /\ job'[d] = job[d]
    BY DEF IInv, TypeOK, Load, Goto, Says, Continue, Leave
  <2> QED
    BY <2>1, <2>2, <2>3, AnswersKept
<1>6. ReturnedIsActive'
  BY DEF IInv, Load, TypeOK, AnswerInv, ReturnedIsActive, Placed, Running, Holding, Window,
         Providers, Orders, Goto, Says, Continue, Leave, NoRecord, world, redis
<1>7. QuietInv'
  BY DEF IInv, Load, TypeOK, QuietInv, RecordInv, AnswerInv, AfterLoad, Window, Running,
         Holding, Ended, Providers, Orders, Goto, Says, Continue, Leave, NoRecord, world, redis
<1>8. RecordInv'
  BY DEF IInv, Load, TypeOK, RecordInv, QuietInv, Providers, Orders, Goto, Says, Continue,
         Leave, NoRecord, world, redis
<1>. QED  BY <1>1, <1>2, <1>3, <1>4, <1>5, <1>6, <1>7, <1>8 DEF IInv

\* A success is seen on the chain.
LEMMA ConfirmKeeps == ASSUME IInv, NEW c \in Calls, Confirm(c) PROVE IInv'
<1>1. TypeOK'
  BY DEF IInv, Confirm, TypeOK, Running, Holding, Window, Ended, Providers, Orders, Goto, Says,
         Leave, NoRecord, world, redis
<1>2. OwnInv'
  BY DEF IInv, Confirm, TypeOK, OwnInv, Window, Running, Holding, Ended, Providers, Orders,
         Goto, Says, Leave, NoRecord, OrdersOf, world, redis
<1>3. CoverInv'
  BY DEF IInv, Confirm, TypeOK, OwnInv, CoverInv, OneOrder, Uncovered, Placed, Unstored,
         AfterLoad, Window, Running, Holding, Ended, Providers, Orders, Goto, Says, Leave,
         NoRecord, OrdersOf, world, redis
<1>4. OneOrder'
  BY DEF IInv, Confirm, TypeOK, OwnInv, CoverInv, OneOrder, Uncovered, Placed, Unstored,
         AfterLoad, Window, Running, Holding, Ended, Providers, Orders, Goto, Says, Leave,
         NoRecord, OrdersOf, world, redis
<1>5. AnswerInv'
  <2>1. order' = order
    BY DEF Confirm, world
  <2>2. pc'[c] \notin {"store", "storeTx"} /\ (pc'[c] = "note" => outcome'[c] # "success")
    BY DEF IInv, TypeOK, Confirm, Goto, Says, Leave
  <2>3. \A d \in Calls \ {c} : pc'[d] = pc[d] /\ outcome'[d] = outcome[d] /\ job'[d] = job[d]
    BY DEF IInv, TypeOK, Confirm, Goto, Says, Leave
  <2> QED
    BY <2>1, <2>2, <2>3, AnswersKept
<1>6. ReturnedIsActive'
  BY DEF IInv, Confirm, TypeOK, AnswerInv, ReturnedIsActive, Placed, Running, Holding, Window,
         Providers, Orders, Goto, Says, Leave, NoRecord, world, redis
<1>7. QuietInv'
  BY DEF IInv, Confirm, TypeOK, QuietInv, RecordInv, AnswerInv, AfterLoad, Window, Running,
         Holding, Ended, Providers, Orders, Goto, Says, Leave, NoRecord, world, redis
<1>8. RecordInv'
  BY DEF IInv, Confirm, TypeOK, RecordInv, QuietInv, Providers, Orders, Goto, Says, Leave,
         NoRecord, world, redis
<1>. QED  BY <1>1, <1>2, <1>3, <1>4, <1>5, <1>6, <1>7, <1>8 DEF IInv

\* An order is placed by the holder alone, or by a call already excused.
LEMMA AskKeeps == ASSUME IInv, NEW c \in Calls, Ask(c) PROVE IInv'
<1>1. TypeOK'
  <2>1. order' \in [Orders -> {"none", "open", "done", "failed"}] /\ excused' \subseteq Orders
    BY DEF Ask, Place, Excuse, IInv, TypeOK, Orders, Providers
  <2>2. pc' \in [Calls -> {"idle"} \cup Running \cup Ended]
    BY DEF Ask, Continue, Leave, Goto, NextProvider, IInv, TypeOK, Running, Holding, Window
  <2>3. outcome' \in [Calls -> {"none", "retry", "terminal", "success", "told"}]
    BY DEF Ask, Continue, Leave, Says, NextProvider, IInv, TypeOK
  <2>4. job' \in [Calls -> Calls]
    BY DEF Ask, IInv, TypeOK
  <2> QED
    BY <2>1, <2>2, <2>3, <2>4 DEF Ask, world, redis, IInv, TypeOK
<1>2. OwnInv'
  BY DEF IInv, Ask, TypeOK, OwnInv, Window, Running, Holding, Ended, Providers, Orders, Goto,
         Says, Continue, Leave, Place, Excuse, NoRecord, NextProvider, OrdersOf, world, redis
<1>3. CoverInv'
  <2>1. ASSUME NEW o \in Orders, Uncovered(o)' PROVE record' # NoRecord \/ Unstored(o)'
    BY <2>1 DEF IInv, Ask, TypeOK, OwnInv, CoverInv, OneOrder, Uncovered, Placed, Unstored,
           AfterLoad, Window, Running, Holding, Ended, Providers, Orders, Goto, Says, Continue,
           Leave, Place, Excuse, NoRecord, NextProvider, OrdersOf, world, redis
  <2>2. ASSUME NEW d \in Calls, pc'[d] \in AfterLoad, ~ (OrdersOf(d) \subseteq excused'),
                NEW o \in Orders, Uncovered(o)'
         PROVE  o[1] = d /\ Unstored(o)'
    BY <2>2 DEF IInv, Ask, TypeOK, OwnInv, CoverInv, OneOrder, Uncovered, Placed, Unstored,
           AfterLoad, Window, Running, Holding, Ended, Providers, Orders, Goto, Says, Continue,
           Leave, Place, Excuse, NoRecord, NextProvider, OrdersOf, world, redis
  <2> QED
    BY <2>1, <2>2, Zenon DEF CoverInv
<1>4. OneOrder'
  BY DEF IInv, Ask, TypeOK, OwnInv, CoverInv, OneOrder, Uncovered, Placed, Unstored, AfterLoad,
         Window, Running, Holding, Ended, Providers, Orders, Goto, Says, Continue, Leave, Place,
         Excuse, NoRecord, NextProvider, OrdersOf, world, redis
<1>5. AnswerInv'
  <2>1. ASSUME NEW d \in Calls, pc'[d] = "note" PROVE outcome'[d] # "success"
    <3>1. \E l \in {"store", "storeTx", "leave", "refee", "duplicate"} : pc' = [pc EXCEPT ![c] = l]
      BY Zenon DEF Ask, Continue, Leave, Goto, NextProvider
    <3>2. outcome' = outcome \/ \E w \in {"retry", "terminal", "told"} : outcome' = [outcome EXCEPT ![c] = w]
      BY Zenon DEF Ask, Continue, Leave, Says, NextProvider
    <3>3. pc[d] = "note" /\ outcome'[d] = outcome[d]
      BY <2>1, <3>1, <3>2 DEF IInv, TypeOK
    <3> QED
      BY <3>3 DEF IInv, AnswerInv
  <2>2. ASSUME NEW d \in Calls, pc'[d] = "store" PROVE job'[d] = d
    <3>1. \/ job' = [job EXCEPT ![c] = c]
          \/ job' = job /\ \E l \in {"leave", "refee", "duplicate"} : pc' = [pc EXCEPT ![c] = l]
      BY Zenon DEF Ask, Continue, Leave, Goto, NextProvider
    <3>2. d = c \/ pc[d] = "store"
      BY <2>2 DEF Ask, Continue, Leave, Goto, NextProvider, IInv, TypeOK
    <3>3. d # c => job[d] = d
      BY <3>2 DEF IInv, AnswerInv
    <3> QED
      BY <2>2, <3>1, <3>3 DEF IInv, TypeOK
  <2>3. ASSUME NEW d \in Calls, pc'[d] = "storeTx" PROVE order'[<<d, "refee">>] # "none"
    <3>1. <<d, "refee">> \in Orders
      BY DEF Orders, Providers
    <3>2. pc[d] = "storeTx"
      BY <2>3 DEF Ask, Continue, Leave, Goto, NextProvider, IInv, TypeOK
    <3>3. order[<<d, "refee">>] # "none"
      BY <3>2 DEF IInv, AnswerInv, Placed
    <3>4. order' = order \/ order' = [order EXCEPT ![<<c, "profeex">>] = "open"]
      BY DEF Ask, Place
    <3> QED
      BY <3>1, <3>3, <3>4 DEF IInv, TypeOK
  <2>4. ASSUME NEW d \in Calls, pc'[d] = "store" PROVE order'[<<d, "profeex">>] # "none"
    <3>1. <<d, "profeex">> \in Orders /\ (pc[d] = "store" => order[<<d, "profeex">>] # "none")
      BY DEF Orders, Providers, IInv, AnswerInv, Placed
    <3>2. pc[d] = "store" \/ order'[<<d, "profeex">>] = "open"
      BY <2>4 DEF Ask, Place, Continue, Leave, Goto, NextProvider, IInv, TypeOK, Orders, Providers
    <3>3. \/ order' = order
          \/ \E p \in Providers : order' = [order EXCEPT ![<<c, p>>] = "open"]
      BY DEF Ask, Place, Providers
    <3> QED
      BY <3>1, <3>2, <3>3 DEF IInv, TypeOK, Orders
  <2> QED
    BY <2>1, <2>2, <2>3, <2>4, Zenon DEF AnswerInv, Placed
<1>6. ReturnedIsActive'
  BY DEF IInv, Ask, TypeOK, AnswerInv, ReturnedIsActive, Placed, Running, Holding, Window,
         Providers, Orders, Goto, Says, Continue, Leave, Place, Excuse, NoRecord, NextProvider,
         world, redis
<1>7. QuietInv'
  BY DEF IInv, Ask, TypeOK, QuietInv, RecordInv, AnswerInv, AfterLoad, Window, Running, Holding,
         Ended, Providers, Orders, Goto, Says, Continue, Leave, Place, Excuse, NoRecord,
         NextProvider, world, redis
<1>8. RecordInv'
  BY DEF IInv, Ask, TypeOK, RecordInv, QuietInv, Providers, Orders, Goto, Says, Continue, Leave,
         Place, Excuse, NoRecord, NextProvider, world, redis
<1>. QED  BY <1>1, <1>2, <1>3, <1>4, <1>5, <1>6, <1>7, <1>8 DEF IInv

\* The order goes on record, or is excused.
LEMMA StoreOrderKeeps == ASSUME IInv, NEW c \in Calls, StoreOrder(c) PROVE IInv'
<1>1. TypeOK'
  <2>1. <<c, "profeex">> \in Orders /\ order[<<c, "profeex">>] \in {"open", "done", "failed"}
    BY DEF StoreOrder, IInv, TypeOK, AnswerInv, Placed, Orders, Providers
  <2>2. record' \in {NoRecord} \cup [status : {"open", "done", "failed", "other"}, order : Orders]
    BY <2>1 DEF StoreOrder, Store, Record, redis, IInv, TypeOK
  <2>3. pc' \in [Calls -> {"idle"} \cup Running \cup Ended]
    BY DEF StoreOrder, Continue, Leave, Goto, IInv, TypeOK, Running, Holding, Window
  <2>4. outcome' \in [Calls -> {"none", "retry", "terminal", "success", "told"}]
    BY DEF StoreOrder, Continue, Leave, Says, IInv, TypeOK
  <2>5. excused' \subseteq Orders
    BY <2>1 DEF StoreOrder, Excuse, IInv, TypeOK
  <2>6. UNCHANGED <<world, order, job, lock, lapses, expiries>>
    BY DEF StoreOrder, Store, redis
  <2> QED
    BY <2>2, <2>3, <2>4, <2>5, <2>6 DEF IInv, TypeOK, world
<1>2. OwnInv'
  BY DEF IInv, StoreOrder, TypeOK, OwnInv, Window, Running, Holding, Ended, Providers, Orders,
         Goto, Says, Continue, Leave, Excuse, Store, Record, NoRecord, OrdersOf, world, redis
<1>3. CoverInv'
  <2>1. ASSUME NEW o \in Orders, Uncovered(o)' PROVE record' # NoRecord \/ Unstored(o)'
    <3>1. \/ record' # NoRecord
          \/ record' = record /\ <<c, "profeex">> \in excused'
      BY DEF StoreOrder, Store, Record, NoRecord, Excuse, redis
    <3>2. Uncovered(o)
      BY <2>1 DEF StoreOrder, Excuse, world, Uncovered, Placed
    <3>3. record # NoRecord \/ Unstored(o)
      BY <3>2 DEF IInv, CoverInv
    <3>4. o[1] # c \/ o[2] # "profeex" \/ <<c, "profeex">> \notin excused'
      BY <2>1 DEF Uncovered, Orders
    <3>5. CASE o[1] # c
      BY <3>1, <3>3, <3>5 DEF StoreOrder, Continue, Leave, Goto, IInv, TypeOK, Unstored, Orders
    <3>6. CASE o[1] = c
      <4>1. pc[c] = "store"
        BY DEF StoreOrder
      <4> QED
        BY <4>1, <3>1, <3>3, <3>4, <3>6 DEF Unstored
    <3> QED
      BY <3>5, <3>6
  <2>2. ASSUME NEW d \in Calls, pc'[d] \in AfterLoad, ~ (OrdersOf(d) \subseteq excused'),
                NEW o \in Orders, Uncovered(o)'
         PROVE  o[1] = d /\ Unstored(o)'
    <3>1. excused \subseteq excused' /\ order' = order
      BY DEF StoreOrder, Excuse, world
    <3>2. d # c /\ pc'[d] = pc[d]
      BY <2>2 DEF IInv, TypeOK, StoreOrder, Goto, Continue, Leave, AfterLoad
    <3>3. Uncovered(o)
      BY <2>2, <3>1 DEF Uncovered, Placed
    <3>4. o[1] = d /\ Unstored(o)
      BY <2>2, <3>1, <3>2, <3>3 DEF IInv, CoverInv
    <3> QED
      BY <3>2, <3>4 DEF Unstored
  <2> QED
    BY <2>1, <2>2, Zenon DEF CoverInv
<1>4. OneOrder'
  BY DEF IInv, StoreOrder, TypeOK, OwnInv, CoverInv, OneOrder, Uncovered, Placed, Unstored,
         AfterLoad, Window, Running, Holding, Ended, Providers, Orders, Goto, Says, Continue,
         Leave, Excuse, Store, Record, NoRecord, OrdersOf, world, redis
<1>5. AnswerInv'
  <2>1. order' = order
    BY DEF StoreOrder, world
  <2>2. pc'[c] \notin {"store", "storeTx"} /\ (pc'[c] = "note" => outcome'[c] # "success")
    BY DEF IInv, TypeOK, StoreOrder, Goto, Says, Continue, Leave
  <2>3. \A d \in Calls \ {c} : pc'[d] = pc[d] /\ outcome'[d] = outcome[d] /\ job'[d] = job[d]
    BY DEF IInv, TypeOK, StoreOrder, Goto, Says, Continue, Leave
  <2> QED
    BY <2>1, <2>2, <2>3, AnswersKept
<1>6. ReturnedIsActive'
  BY DEF IInv, StoreOrder, TypeOK, AnswerInv, ReturnedIsActive, Placed, Running, Holding,
         Window, Providers, Orders, Goto, Says, Continue, Leave, Excuse, Store, Record,
         NoRecord, world, redis
<1>7. QuietInv'
  <2>. SUFFICES ASSUME lapses' = 0, NEW d \in Calls
                PROVE  /\ pc'[d] \in Holding => lock' = d
                       /\ pc'[d] \in AfterLoad => record'.status \in {"none", "other"}
                       /\ pc'[d] \in {"wait", "note", "storeDone"} /\ record' # NoRecord =>
                             record'.order = <<job'[d], "profeex">>
    BY Zenon DEF QuietInv
  <2>1. lapses = 0 /\ job' = job /\ lock' = lock /\ lock = c /\ job[c] = c
    BY Zenon DEF StoreOrder, redis, Store, IInv, QuietInv, AnswerInv, Holding, Window
  <2>2. CASE d = c
    <3>1. \/ pc'[d] = "leave"
          \/ pc'[d] \in {"wait", "note"} /\ record'.order = <<c, "profeex">>
      BY <2>2 DEF StoreOrder, Continue, Leave, Goto, Store, Record, IInv, TypeOK
    <3> QED
      BY <2>1, <2>2, <3>1 DEF AfterLoad, Record
  <2>3. CASE d # c
    <3>1. pc'[d] = pc[d]
      BY <2>3 DEF StoreOrder, Continue, Leave, Goto, IInv, TypeOK
    <3>2. pc[d] \notin Holding
      BY <2>1, <2>3 DEF IInv, QuietInv
    <3> QED
      BY <3>1, <3>2 DEF Holding, Window, AfterLoad
  <2> QED
    BY <2>2, <2>3
<1>8. RecordInv'
  BY DEF IInv, StoreOrder, TypeOK, RecordInv, QuietInv, Providers, Orders, Goto, Says, Continue,
         Leave, Excuse, Store, Record, NoRecord, world, redis
<1>. QED  BY <1>1, <1>2, <1>3, <1>4, <1>5, <1>6, <1>7, <1>8 DEF IInv

\* A poll changes no order.
LEMMA WaitKeeps == ASSUME IInv, NEW c \in Calls, Wait(c) PROVE IInv'
<1>1. TypeOK'
  BY DEF IInv, Wait, TypeOK, Running, Holding, Window, Ended, Providers, Orders, Goto, Says,
         Continue, NoRecord, world, redis
<1>2. OwnInv'
  BY DEF IInv, Wait, TypeOK, OwnInv, Window, Running, Holding, Ended, Providers, Orders, Goto,
         Says, Continue, NoRecord, OrdersOf, world, redis
<1>3. CoverInv'
  BY DEF IInv, Wait, TypeOK, OwnInv, CoverInv, OneOrder, Uncovered, Placed, Unstored, AfterLoad,
         Window, Running, Holding, Ended, Providers, Orders, Goto, Says, Continue, NoRecord,
         OrdersOf, world, redis
<1>4. OneOrder'
  BY DEF IInv, Wait, TypeOK, OwnInv, CoverInv, OneOrder, Uncovered, Placed, Unstored, AfterLoad,
         Window, Running, Holding, Ended, Providers, Orders, Goto, Says, Continue, NoRecord,
         OrdersOf, world, redis
<1>5. AnswerInv'
  <2>1. order' = order
    BY DEF Wait, world
  <2>2. pc'[c] \notin {"store", "storeTx"} /\ (pc'[c] = "note" => outcome'[c] # "success")
    BY DEF IInv, TypeOK, Wait, Goto, Says, Continue
  <2>3. \A d \in Calls \ {c} : pc'[d] = pc[d] /\ outcome'[d] = outcome[d] /\ job'[d] = job[d]
    BY DEF IInv, TypeOK, Wait, Goto, Says, Continue
  <2> QED
    BY <2>1, <2>2, <2>3, AnswersKept
<1>6. ReturnedIsActive'
  BY DEF IInv, Wait, TypeOK, AnswerInv, ReturnedIsActive, Placed, Running, Holding, Window,
         Providers, Orders, Goto, Says, Continue, NoRecord, world, redis
<1>7. QuietInv'
  BY DEF IInv, Wait, TypeOK, QuietInv, RecordInv, AnswerInv, AfterLoad, Window, Running,
         Holding, Ended, Providers, Orders, Goto, Says, Continue, NoRecord, world, redis
<1>8. RecordInv'
  BY DEF IInv, Wait, TypeOK, RecordInv, QuietInv, Providers, Orders, Goto, Says, Continue,
         NoRecord, world, redis
<1>. QED  BY <1>1, <1>2, <1>3, <1>4, <1>5, <1>6, <1>7, <1>8 DEF IInv

\* Nor does its deadline.
LEMMA WaitOverKeeps == ASSUME IInv, NEW c \in Calls, WaitOver(c) PROVE IInv'
<1>1. TypeOK'
  BY DEF IInv, WaitOver, TypeOK, Running, Holding, Window, Ended, Providers, Orders, Goto, Says,
         NoRecord, world, redis
<1>2. OwnInv'
  BY DEF IInv, WaitOver, TypeOK, OwnInv, Window, Running, Holding, Ended, Providers, Orders,
         Goto, Says, NoRecord, OrdersOf, world, redis
<1>3. CoverInv'
  <2>1. ASSUME NEW o \in Orders, Uncovered(o)' PROVE record' # NoRecord \/ Unstored(o)'
    BY <2>1 DEF IInv, WaitOver, TypeOK, OwnInv, CoverInv, OneOrder, Uncovered, Placed, Unstored,
           AfterLoad, Window, Running, Holding, Ended, Providers, Orders, Goto, Says, NoRecord,
           OrdersOf, world, redis
  <2>2. ASSUME NEW d \in Calls, pc'[d] \in AfterLoad, ~ (OrdersOf(d) \subseteq excused'),
                NEW o \in Orders, Uncovered(o)'
         PROVE  o[1] = d /\ Unstored(o)'
    BY <2>2 DEF IInv, WaitOver, TypeOK, OwnInv, CoverInv, OneOrder, Uncovered, Placed, Unstored,
           AfterLoad, Window, Running, Holding, Ended, Providers, Orders, Goto, Says, NoRecord,
           OrdersOf, world, redis
  <2> QED
    BY <2>1, <2>2, Zenon DEF CoverInv
<1>4. OneOrder'
  BY DEF IInv, WaitOver, TypeOK, OwnInv, CoverInv, OneOrder, Uncovered, Placed, Unstored,
         AfterLoad, Window, Running, Holding, Ended, Providers, Orders, Goto, Says, NoRecord,
         OrdersOf, world, redis
<1>5. AnswerInv'
  BY DEF IInv, WaitOver, TypeOK, AnswerInv, Placed, Goto, Says
<1>6. ReturnedIsActive'
  BY DEF IInv, WaitOver, TypeOK, AnswerInv, ReturnedIsActive, Placed, Running, Holding, Window,
         Providers, Orders, Goto, Says, NoRecord, world, redis
<1>7. QuietInv'
  BY DEF IInv, WaitOver, TypeOK, QuietInv, RecordInv, AnswerInv, AfterLoad, Window, Running,
         Holding, Ended, Providers, Orders, Goto, Says, NoRecord, world, redis
<1>8. RecordInv'
  BY DEF IInv, WaitOver, TypeOK, RecordInv, QuietInv, Providers, Orders, Goto, Says, NoRecord,
         world, redis
<1>. QED  BY <1>1, <1>2, <1>3, <1>4, <1>5, <1>6, <1>7, <1>8 DEF IInv

\* The error names the task that was waited for.
LEMMA NoteKeeps == ASSUME IInv, NEW c \in Calls, Note(c) PROVE IInv'
<1>1. TypeOK'
  BY DEF IInv, Note, TypeOK, Running, Holding, Window, Ended, Providers, Orders, Goto, Says,
         Leave, Store, Record, NoRecord, world, redis
<1>2. OwnInv'
  BY DEF IInv, Note, TypeOK, OwnInv, Window, Running, Holding, Ended, Providers, Orders, Goto,
         Says, Leave, Store, Record, NoRecord, OrdersOf, world, redis
<1>3. CoverInv'
  <2>1. ASSUME NEW o \in Orders, Uncovered(o)' PROVE record' # NoRecord \/ Unstored(o)'
    <3>1. Uncovered(o)
      BY <2>1 DEF Note, world, Uncovered, Placed
    <3>2. record # NoRecord \/ Unstored(o)
      BY <3>1 DEF IInv, CoverInv
    <3>3. record # NoRecord => record' # NoRecord
      BY DEF Note, Store, Record, redis, NoRecord
    <3>4. Unstored(o) => Unstored(o)'
      BY DEF Note, Leave, Goto, IInv, TypeOK, Unstored, Orders
    <3> QED
      BY <3>2, <3>3, <3>4
  <2>2. ASSUME NEW d \in Calls, pc'[d] \in AfterLoad, ~ (OrdersOf(d) \subseteq excused'),
                NEW o \in Orders, Uncovered(o)'
         PROVE  o[1] = d /\ Unstored(o)'
    <3>1. pc[d] \in AfterLoad
      BY <2>2 DEF Note, Leave, Goto, IInv, TypeOK, AfterLoad
    <3>2. Uncovered(o) /\ ~ (OrdersOf(d) \subseteq excused)
      BY <2>2 DEF Note, world, Uncovered, Placed
    <3>3. o[1] = d /\ Unstored(o)
      BY <3>1, <3>2 DEF IInv, CoverInv
    <3>4. Unstored(o) => Unstored(o)'
      BY DEF Note, Leave, Goto, IInv, TypeOK, Unstored, Orders
    <3> QED
      BY <3>3, <3>4
  <2> QED
    BY <2>1, <2>2, Zenon DEF CoverInv
<1>4. OneOrder'
  BY DEF IInv, Note, TypeOK, OwnInv, CoverInv, OneOrder, Uncovered, Placed, Unstored, AfterLoad,
         Window, Running, Holding, Ended, Providers, Orders, Goto, Says, Leave, Store, Record,
         NoRecord, OrdersOf, world, redis
<1>5. AnswerInv'
  BY DEF IInv, Note, TypeOK, AnswerInv, Placed, Goto, Says, Leave
<1>6. ReturnedIsActive'
  BY DEF IInv, Note, TypeOK, AnswerInv, ReturnedIsActive, Placed, Running, Holding, Window,
         Providers, Orders, Goto, Says, Leave, Store, Record, NoRecord, world, redis
<1>7. QuietInv'
  BY DEF IInv, Note, TypeOK, QuietInv, RecordInv, AnswerInv, AfterLoad, Window, Running,
         Holding, Ended, Providers, Orders, Goto, Says, Leave, Store, Record, NoRecord, world,
         redis
<1>8. RecordInv'
  BY DEF IInv, Note, TypeOK, RecordInv, QuietInv, Providers, Orders, Goto, Says, Leave, Store,
         Record, NoRecord, world, redis
<1>. QED  BY <1>1, <1>2, <1>3, <1>4, <1>5, <1>6, <1>7, <1>8 DEF IInv

\* So does its success.
LEMMA StoreDoneKeeps == ASSUME IInv, NEW c \in Calls, StoreDone(c) PROVE IInv'
<1>1. TypeOK'
  BY DEF IInv, StoreDone, TypeOK, Running, Holding, Window, Ended, Providers, Orders, Goto,
         Says, Continue, Leave, Store, Record, NoRecord, world, redis
<1>2. OwnInv'
  BY DEF IInv, StoreDone, TypeOK, OwnInv, Window, Running, Holding, Ended, Providers, Orders,
         Goto, Says, Continue, Leave, Store, Record, NoRecord, OrdersOf, world, redis
<1>3. CoverInv'
  BY DEF IInv, StoreDone, TypeOK, OwnInv, CoverInv, OneOrder, Uncovered, Placed, Unstored,
         AfterLoad, Window, Running, Holding, Ended, Providers, Orders, Goto, Says, Continue,
         Leave, Store, Record, NoRecord, OrdersOf, world, redis
<1>4. OneOrder'
  BY DEF IInv, StoreDone, TypeOK, OwnInv, CoverInv, OneOrder, Uncovered, Placed, Unstored,
         AfterLoad, Window, Running, Holding, Ended, Providers, Orders, Goto, Says, Continue,
         Leave, Store, Record, NoRecord, OrdersOf, world, redis
<1>5. AnswerInv'
  <2>1. order' = order
    BY DEF StoreDone, world
  <2>2. pc'[c] \notin {"store", "storeTx"} /\ (pc'[c] = "note" => outcome'[c] # "success")
    BY DEF IInv, TypeOK, StoreDone, Goto, Says, Continue, Leave
  <2>3. \A d \in Calls \ {c} : pc'[d] = pc[d] /\ outcome'[d] = outcome[d] /\ job'[d] = job[d]
    BY DEF IInv, TypeOK, StoreDone, Goto, Says, Continue, Leave
  <2> QED
    BY <2>1, <2>2, <2>3, AnswersKept
<1>6. ReturnedIsActive'
  BY DEF IInv, StoreDone, TypeOK, AnswerInv, ReturnedIsActive, Placed, Running, Holding, Window,
         Providers, Orders, Goto, Says, Continue, Leave, Store, Record, NoRecord, world, redis
<1>7. QuietInv'
  BY DEF IInv, StoreDone, TypeOK, QuietInv, RecordInv, AnswerInv, AfterLoad, Window, Running,
         Holding, Ended, Providers, Orders, Goto, Says, Continue, Leave, Store, Record,
         NoRecord, world, redis
<1>8. RecordInv'
  BY DEF IInv, StoreDone, TypeOK, RecordInv, QuietInv, Providers, Orders, Goto, Says, Continue,
         Leave, Store, Record, NoRecord, world, redis
<1>. QED  BY <1>1, <1>2, <1>3, <1>4, <1>5, <1>6, <1>7, <1>8 DEF IInv

\* re:Fee is asked when every earlier order is excused.
LEMMA AskRefeeKeeps == ASSUME IInv, NEW c \in Calls, AskRefee(c) PROVE IInv'
<1>1. TypeOK'
  BY DEF IInv, AskRefee, TypeOK, Running, Holding, Window, Ended, Providers, Orders, Goto, Says,
         Continue, Leave, Place, Excuse, NoRecord, world, redis
<1>2. OwnInv'
  BY DEF IInv, AskRefee, TypeOK, OwnInv, Window, Running, Holding, Ended, Providers, Orders,
         Goto, Says, Continue, Leave, Place, Excuse, NoRecord, OrdersOf, world, redis
<1>3. CoverInv'
  BY DEF IInv, AskRefee, TypeOK, OwnInv, CoverInv, OneOrder, Uncovered, Placed, Unstored,
         AfterLoad, Window, Running, Holding, Ended, Providers, Orders, Goto, Says, Continue,
         Leave, Place, Excuse, NoRecord, OrdersOf, world, redis
<1>4. OneOrder'
  BY DEF IInv, AskRefee, TypeOK, OwnInv, CoverInv, OneOrder, Uncovered, Placed, Unstored,
         AfterLoad, Window, Running, Holding, Ended, Providers, Orders, Goto, Says, Continue,
         Leave, Place, Excuse, NoRecord, OrdersOf, world, redis
<1>5. AnswerInv'
  <2>1. ASSUME NEW d \in Calls, pc'[d] = "note" PROVE outcome'[d] # "success"
    <3>1. \E l \in {"store", "storeTx", "leave", "refee", "duplicate"} : pc' = [pc EXCEPT ![c] = l]
      BY Zenon DEF AskRefee, Continue, Leave, Goto, NextProvider
    <3>2. outcome' = outcome \/ \E w \in {"retry", "terminal", "told"} : outcome' = [outcome EXCEPT ![c] = w]
      BY Zenon DEF AskRefee, Continue, Leave, Says, NextProvider
    <3>3. pc[d] = "note" /\ outcome'[d] = outcome[d]
      BY <2>1, <3>1, <3>2 DEF IInv, TypeOK
    <3> QED
      BY <3>3 DEF IInv, AnswerInv
  <2>2. ASSUME NEW d \in Calls, pc'[d] = "store" PROVE job'[d] = d
    BY <2>2 DEF IInv, AskRefee, TypeOK, AnswerInv, Placed, Goto, Says, Continue, Leave, Place
  <2>3. ASSUME NEW d \in Calls, pc'[d] = "storeTx" PROVE order'[<<d, "refee">>] # "none"
    <3>1. <<d, "refee">> \in Orders
      BY DEF Orders, Providers
    <3> QED
      BY <2>3, <3>1 DEF IInv, AskRefee, TypeOK, AnswerInv, Placed, Goto, Says, Continue, Leave,
             Place
  <2>4. ASSUME NEW d \in Calls, pc'[d] = "store" PROVE order'[<<d, "profeex">>] # "none"
    <3>1. <<d, "profeex">> \in Orders /\ (pc[d] = "store" => order[<<d, "profeex">>] # "none")
      BY DEF Orders, Providers, IInv, AnswerInv, Placed
    <3>2. pc[d] = "store"
      BY <2>4 DEF AskRefee, Continue, Leave, Goto, IInv, TypeOK
    <3>3. \/ order' = order
          \/ \E p \in Providers : order' = [order EXCEPT ![<<c, p>>] = "open"]
      BY DEF AskRefee, Place, Providers
    <3> QED
      BY <3>1, <3>2, <3>3 DEF IInv, TypeOK, Orders
  <2> QED
    BY <2>1, <2>2, <2>3, <2>4, Zenon DEF AnswerInv, Placed
<1>6. ReturnedIsActive'
  BY DEF IInv, AskRefee, TypeOK, AnswerInv, ReturnedIsActive, Placed, Running, Holding, Window,
         Providers, Orders, Goto, Says, Continue, Leave, Place, Excuse, NoRecord, world, redis
<1>7. QuietInv'
  BY DEF IInv, AskRefee, TypeOK, QuietInv, RecordInv, AnswerInv, AfterLoad, Window, Running,
         Holding, Ended, Providers, Orders, Goto, Says, Continue, Leave, Place, Excuse,
         NoRecord, world, redis
<1>8. RecordInv'
  BY DEF IInv, AskRefee, TypeOK, RecordInv, QuietInv, Providers, Orders, Goto, Says, Continue,
         Leave, Place, Excuse, NoRecord, world, redis
<1>. QED  BY <1>1, <1>2, <1>3, <1>4, <1>5, <1>6, <1>7, <1>8 DEF IInv

\* The transaction goes on record, or is excused.
LEMMA StoreTxKeeps == ASSUME IInv, NEW c \in Calls, StoreTx(c) PROVE IInv'
<1>1. TypeOK'
  BY DEF IInv, StoreTx, TypeOK, Running, Holding, Window, Ended, Providers, Orders, Goto, Says,
         Leave, Excuse, Store, Record, NoRecord, world, redis
<1>2. OwnInv'
  BY DEF IInv, StoreTx, TypeOK, OwnInv, Window, Running, Holding, Ended, Providers, Orders,
         Goto, Says, Leave, Excuse, Store, Record, NoRecord, OrdersOf, world, redis
<1>3. CoverInv'
  <2>1. ASSUME NEW o \in Orders, Uncovered(o)' PROVE record' # NoRecord \/ Unstored(o)'
    BY <2>1 DEF IInv, StoreTx, TypeOK, OwnInv, CoverInv, OneOrder, Uncovered, Placed, Unstored,
           AfterLoad, Window, Running, Holding, Ended, Providers, Orders, Goto, Says, Leave,
           Excuse, Store, Record, NoRecord, OrdersOf, world, redis
  <2>2. ASSUME NEW d \in Calls, pc'[d] \in AfterLoad, ~ (OrdersOf(d) \subseteq excused'),
                NEW o \in Orders, Uncovered(o)'
         PROVE  o[1] = d /\ Unstored(o)'
    BY <2>2 DEF IInv, StoreTx, TypeOK, OwnInv, CoverInv, OneOrder, Uncovered, Placed, Unstored,
           AfterLoad, Window, Running, Holding, Ended, Providers, Orders, Goto, Says, Leave,
           Excuse, Store, Record, NoRecord, OrdersOf, world, redis
  <2> QED
    BY <2>1, <2>2, Zenon DEF CoverInv
<1>4. OneOrder'
  BY DEF IInv, StoreTx, TypeOK, OwnInv, CoverInv, OneOrder, Uncovered, Placed, Unstored,
         AfterLoad, Window, Running, Holding, Ended, Providers, Orders, Goto, Says, Leave,
         Excuse, Store, Record, NoRecord, OrdersOf, world, redis
<1>5. AnswerInv'
  <2>1. order' = order
    BY DEF StoreTx, world
  <2>2. pc'[c] \notin {"store", "storeTx"} /\ (pc'[c] = "note" => outcome'[c] # "success")
    BY DEF IInv, TypeOK, StoreTx, Goto, Says, Leave
  <2>3. \A d \in Calls \ {c} : pc'[d] = pc[d] /\ outcome'[d] = outcome[d] /\ job'[d] = job[d]
    BY DEF IInv, TypeOK, StoreTx, Goto, Says, Leave
  <2> QED
    BY <2>1, <2>2, <2>3, AnswersKept
<1>6. ReturnedIsActive'
  <2>1. order' = order /\ active' = active
    BY DEF StoreTx, world
  <2>2. Placed(<<c, "refee">>)
    BY DEF StoreTx, IInv, AnswerInv
  <2>3. \A d \in Calls \ {c} : pc'[d] = pc[d] /\ outcome'[d] = outcome[d]
    BY DEF IInv, TypeOK, StoreTx, Goto, Says, Leave
  <2> QED
    BY <2>1, <2>2, <2>3 DEF IInv, ReturnedIsActive, Placed
<1>7. QuietInv'
  BY DEF IInv, StoreTx, TypeOK, QuietInv, RecordInv, AnswerInv, AfterLoad, Window, Running,
         Holding, Ended, Providers, Orders, Goto, Says, Leave, Excuse, Store, Record, NoRecord,
         world, redis
<1>8. RecordInv'
  BY DEF IInv, StoreTx, TypeOK, RecordInv, QuietInv, Providers, Orders, Goto, Says, Leave,
         Excuse, Store, Record, NoRecord, world, redis
<1>. QED  BY <1>1, <1>2, <1>3, <1>4, <1>5, <1>6, <1>7, <1>8 DEF IInv

\* Only a call that has no order at hand gives the lock away.
LEMMA ReleaseKeeps == ASSUME IInv, NEW c \in Calls, Release(c) PROVE IInv'
<1>1. TypeOK'
  BY ActivationAssumption DEF IInv, Release, TypeOK, Running, Holding, Window, Ended, Providers,
         Orders, Goto, Says, NoRecord, world
<1>2. OwnInv'
  BY ActivationAssumption DEF IInv, Release, TypeOK, OwnInv, Window, Running, Holding, Ended,
         Providers, Orders, Goto, Says, NoRecord, OrdersOf, world
<1>3. CoverInv'
  BY ActivationAssumption DEF IInv, Release, TypeOK, OwnInv, CoverInv, OneOrder, Uncovered,
         Placed, Unstored, AfterLoad, Window, Running, Holding, Ended, Providers, Orders, Goto,
         Says, NoRecord, OrdersOf, world
<1>4. OneOrder'
  BY ActivationAssumption DEF IInv, Release, TypeOK, OwnInv, CoverInv, OneOrder, Uncovered,
         Placed, Unstored, AfterLoad, Window, Running, Holding, Ended, Providers, Orders, Goto,
         Says, NoRecord, OrdersOf, world
<1>5. AnswerInv'
  BY DEF IInv, Release, TypeOK, AnswerInv, Placed, Goto, Says
<1>6. ReturnedIsActive'
  BY DEF IInv, Release, TypeOK, AnswerInv, ReturnedIsActive, Placed, Running, Holding, Window,
         Providers, Orders, Goto, Says, NoRecord, world
<1>7. QuietInv'
  BY ActivationAssumption DEF IInv, Release, TypeOK, QuietInv, RecordInv, AnswerInv, AfterLoad,
         Window, Running, Holding, Ended, Providers, Orders, Goto, Says, NoRecord, world
<1>8. RecordInv'
  BY DEF IInv, Release, TypeOK, RecordInv, QuietInv, Providers, Orders, Goto, Says, NoRecord,
         world
<1>. QED  BY <1>1, <1>2, <1>3, <1>4, <1>5, <1>6, <1>7, <1>8 DEF IInv

\* A worker that dies takes the order it has not stored with it.
LEMMA CrashKeeps == ASSUME IInv, NEW c \in Calls, Crash(c) PROVE IInv'
<1>1. TypeOK'
  BY DEF IInv, Crash, TypeOK, Running, Holding, Window, Ended, Providers, Orders, Goto, Says,
         Excuse, NoRecord, OrdersOf, world, redis
<1>2. OwnInv'
  BY DEF IInv, Crash, TypeOK, OwnInv, Window, Running, Holding, Ended, Providers, Orders, Goto,
         Says, Excuse, NoRecord, OrdersOf, world, redis
<1>3. CoverInv'
  <2>1. ASSUME NEW o \in Orders, Uncovered(o)' PROVE record' # NoRecord \/ Unstored(o)'
    BY <2>1 DEF IInv, Crash, TypeOK, OwnInv, CoverInv, OneOrder, Uncovered, Placed, Unstored,
           AfterLoad, Window, Running, Holding, Ended, Providers, Orders, Goto, Says, Excuse,
           NoRecord, OrdersOf, world, redis
  <2>2. ASSUME NEW d \in Calls, pc'[d] \in AfterLoad, ~ (OrdersOf(d) \subseteq excused'),
                NEW o \in Orders, Uncovered(o)'
         PROVE  o[1] = d /\ Unstored(o)'
    BY <2>2 DEF IInv, Crash, TypeOK, OwnInv, CoverInv, OneOrder, Uncovered, Placed, Unstored,
           AfterLoad, Window, Running, Holding, Ended, Providers, Orders, Goto, Says, Excuse,
           NoRecord, OrdersOf, world, redis
  <2> QED
    BY <2>1, <2>2, Zenon DEF CoverInv
<1>4. OneOrder'
  BY DEF IInv, Crash, TypeOK, OwnInv, CoverInv, OneOrder, Uncovered, Placed, Unstored,
         AfterLoad, Window, Running, Holding, Ended, Providers, Orders, Goto, Says, Excuse,
         NoRecord, OrdersOf, world, redis
<1>5. AnswerInv'
  BY DEF IInv, Crash, TypeOK, AnswerInv, Placed, Goto, Says
<1>6. ReturnedIsActive'
  BY DEF IInv, Crash, TypeOK, AnswerInv, ReturnedIsActive, Placed, Running, Holding, Window,
         Providers, Orders, Goto, Says, Excuse, NoRecord, OrdersOf, world, redis
<1>7. QuietInv'
  BY DEF IInv, Crash, TypeOK, QuietInv, RecordInv, AnswerInv, AfterLoad, Window, Running,
         Holding, Ended, Providers, Orders, Goto, Says, Excuse, NoRecord, OrdersOf, world, redis
<1>8. RecordInv'
  BY DEF IInv, Crash, TypeOK, RecordInv, QuietInv, Providers, Orders, Goto, Says, Excuse,
         NoRecord, OrdersOf, world, redis
<1>. QED  BY <1>1, <1>2, <1>3, <1>4, <1>5, <1>6, <1>7, <1>8 DEF IInv

\* The fate of a task neither places nor removes an order.
LEMMA EndTaskKeeps == ASSUME IInv, NEW c \in Calls, EndTask(c) PROVE IInv'
<1>1. TypeOK'
  BY DEF IInv, EndTask, TypeOK, Running, Holding, Window, Ended, Providers, Orders, NoRecord,
         world, redis
<1>2. OwnInv'
  BY DEF IInv, EndTask, TypeOK, OwnInv, Window, Running, Holding, Ended, Providers, Orders,
         NoRecord, OrdersOf, world, redis
<1>. \A o \in Orders : order'[o] # "none" <=> order[o] # "none"
  BY DEF EndTask, IInv, TypeOK, Orders, Providers
<1>3. CoverInv'
  BY DEF EndTask, world, redis, Orders, Providers, IInv, CoverInv, Uncovered, Placed, Unstored
<1>4. OneOrder'
  BY DEF EndTask, world, redis, Orders, Providers, IInv, OneOrder, Uncovered, Placed, Unstored
<1>5. AnswerInv'
  BY DEF EndTask, world, redis, Orders, Providers, IInv, AnswerInv, Uncovered, Placed, Unstored
<1>6. ReturnedIsActive'
  BY DEF EndTask, world, redis, Orders, Providers, IInv, ReturnedIsActive, Uncovered, Placed,
         Unstored
<1>7. QuietInv'
  BY DEF IInv, EndTask, TypeOK, QuietInv, RecordInv, AnswerInv, AfterLoad, Window, Running,
         Holding, Ended, Providers, Orders, NoRecord, world, redis
<1>8. RecordInv'
  BY DEF IInv, EndTask, TypeOK, RecordInv, QuietInv, Providers, Orders, NoRecord, world, redis
<1>. QED  BY <1>1, <1>2, <1>3, <1>4, <1>5, <1>6, <1>7, <1>8 DEF IInv

-----------------------------------------------------------------------------
(* The world around it                                                      *)

\* A call that loses its lock in the window is excused.
LEMMA LapseKeeps == ASSUME IInv, Lapse PROVE IInv'
<1>1. TypeOK'
  BY ActivationAssumption DEF IInv, Lapse, TypeOK, Running, Holding, Window, Ended, Providers,
         Orders, Excuse, NoRecord, OrdersOf, world
<1>2. OwnInv'
  BY ActivationAssumption DEF IInv, Lapse, TypeOK, OwnInv, Window, Running, Holding, Ended,
         Providers, Orders, Excuse, NoRecord, OrdersOf, world
<1>3. CoverInv'
  <2>1. ASSUME NEW o \in Orders, Uncovered(o)' PROVE record' # NoRecord \/ Unstored(o)'
    BY <2>1, ActivationAssumption DEF IInv, Lapse, TypeOK, OwnInv, CoverInv, OneOrder,
           Uncovered, Placed, Unstored, AfterLoad, Window, Running, Holding, Ended, Providers,
           Orders, Excuse, NoRecord, OrdersOf, world
  <2>2. ASSUME NEW d \in Calls, pc'[d] \in AfterLoad, ~ (OrdersOf(d) \subseteq excused'),
                NEW o \in Orders, Uncovered(o)'
         PROVE  o[1] = d /\ Unstored(o)'
    BY <2>2, ActivationAssumption DEF IInv, Lapse, TypeOK, OwnInv, CoverInv, OneOrder,
           Uncovered, Placed, Unstored, AfterLoad, Window, Running, Holding, Ended, Providers,
           Orders, Excuse, NoRecord, OrdersOf, world
  <2> QED
    BY <2>1, <2>2, Zenon DEF CoverInv
<1>4. OneOrder'
  BY ActivationAssumption DEF IInv, Lapse, TypeOK, OwnInv, CoverInv, OneOrder, Uncovered,
         Placed, Unstored, AfterLoad, Window, Running, Holding, Ended, Providers, Orders,
         Excuse, NoRecord, OrdersOf, world
<1>5. AnswerInv'
  BY DEF IInv, Lapse, TypeOK, AnswerInv, Placed
<1>6. ReturnedIsActive'
  BY DEF IInv, Lapse, TypeOK, AnswerInv, ReturnedIsActive, Placed, Running, Holding, Window,
         Providers, Orders, Excuse, NoRecord, OrdersOf, world
<1>7. QuietInv'
  BY ActivationAssumption DEF IInv, Lapse, TypeOK, QuietInv, RecordInv, AnswerInv, AfterLoad,
         Window, Running, Holding, Ended, Providers, Orders, Excuse, NoRecord, OrdersOf, world
<1>8. RecordInv'
  BY DEF IInv, Lapse, TypeOK, RecordInv, QuietInv, Providers, Orders, Excuse, NoRecord,
         OrdersOf, world
<1>. QED  BY <1>1, <1>2, <1>3, <1>4, <1>5, <1>6, <1>7, <1>8 DEF IInv

\* A record that goes takes all orders so far with it.
LEMMA ExpireKeeps == ASSUME IInv, Expire PROVE IInv'
<1>1. TypeOK'
  BY ActivationAssumption DEF IInv, Expire, TypeOK, Running, Holding, Window, Ended, Providers,
         Orders, Excuse, NoRecord, world
<1>2. OwnInv'
  BY ActivationAssumption DEF IInv, Expire, TypeOK, OwnInv, Window, Running, Holding, Ended,
         Providers, Orders, Excuse, NoRecord, OrdersOf, world
<1>3. CoverInv'
  BY ActivationAssumption DEF IInv, Expire, TypeOK, OwnInv, CoverInv, OneOrder, Uncovered,
         Placed, Unstored, AfterLoad, Window, Running, Holding, Ended, Providers, Orders,
         Excuse, NoRecord, OrdersOf, world
<1>4. OneOrder'
  BY ActivationAssumption DEF IInv, Expire, TypeOK, OwnInv, CoverInv, OneOrder, Uncovered,
         Placed, Unstored, AfterLoad, Window, Running, Holding, Ended, Providers, Orders,
         Excuse, NoRecord, OrdersOf, world
<1>5. AnswerInv'
  BY DEF IInv, Expire, TypeOK, AnswerInv, Placed
<1>6. ReturnedIsActive'
  BY DEF IInv, Expire, TypeOK, AnswerInv, ReturnedIsActive, Placed, Running, Holding, Window,
         Providers, Orders, Excuse, NoRecord, world
<1>7. QuietInv'
  BY ActivationAssumption DEF IInv, Expire, TypeOK, QuietInv, RecordInv, AnswerInv, AfterLoad,
         Window, Running, Holding, Ended, Providers, Orders, Excuse, NoRecord, world
<1>8. RecordInv'
  BY DEF IInv, Expire, TypeOK, RecordInv, QuietInv, Providers, Orders, Excuse, NoRecord, world
<1>. QED  BY <1>1, <1>2, <1>3, <1>4, <1>5, <1>6, <1>7, <1>8 DEF IInv

\* The destination stays active.
LEMMA AppearKeeps == ASSUME IInv, Appear PROVE IInv'
<1>1. TypeOK'
  BY DEF IInv, Appear, TypeOK, Running, Holding, Window, Ended, Providers, Orders, NoRecord,
         redis
<1>2. OwnInv'
  BY DEF IInv, Appear, TypeOK, OwnInv, Window, Running, Holding, Ended, Providers, Orders,
         NoRecord, OrdersOf, redis
<1>3. CoverInv'
  BY DEF IInv, Appear, TypeOK, OwnInv, CoverInv, OneOrder, Uncovered, Placed, Unstored,
         AfterLoad, Window, Running, Holding, Ended, Providers, Orders, NoRecord, OrdersOf,
         redis
<1>4. OneOrder'
  BY DEF IInv, Appear, TypeOK, OwnInv, CoverInv, OneOrder, Uncovered, Placed, Unstored,
         AfterLoad, Window, Running, Holding, Ended, Providers, Orders, NoRecord, OrdersOf,
         redis
<1>5. AnswerInv'
  BY DEF IInv, Appear, TypeOK, AnswerInv, Placed
<1>6. ReturnedIsActive'
  BY DEF IInv, Appear, TypeOK, AnswerInv, ReturnedIsActive, Placed, Running, Holding, Window,
         Providers, Orders, NoRecord, redis
<1>7. QuietInv'
  BY DEF IInv, Appear, TypeOK, QuietInv, RecordInv, AnswerInv, AfterLoad, Window, Running,
         Holding, Ended, Providers, Orders, NoRecord, redis
<1>8. RecordInv'
  BY DEF IInv, Appear, TypeOK, RecordInv, QuietInv, Providers, Orders, NoRecord, redis
<1>. QED  BY <1>1, <1>2, <1>3, <1>4, <1>5, <1>6, <1>7, <1>8 DEF IInv

-----------------------------------------------------------------------------
(* The invariant                                                            *)

LEMMA InitOK == Init => IInv
<1>. SUFFICES ASSUME Init PROVE IInv
  OBVIOUS
<1>1. TypeOK
  <2>1. order \in [Orders -> {"none", "open", "done", "failed"}]
    BY DEF Init
  <2>2. lapses \in 0..MaxLapses /\ expiries \in 0..MaxExpiries
    BY ActivationAssumption DEF Init
  <2> QED
    BY <2>1, <2>2 DEF Init, TypeOK
<1>2. OwnInv
  BY ActivationAssumption DEF Init, OwnInv, Window
<1>3. CoverInv
  BY ActivationAssumption DEF Init, CoverInv, Uncovered, Placed, AfterLoad
<1>4. OneOrder
  BY ActivationAssumption DEF Init, OneOrder, Uncovered, Placed
<1>5. AnswerInv
  BY ActivationAssumption DEF Init, AnswerInv
<1>6. ReturnedIsActive
  BY ActivationAssumption DEF Init, ReturnedIsActive
<1>7. QuietInv
  BY ActivationAssumption DEF Init, QuietInv, Holding, Window, AfterLoad
<1>8. RecordInv
  BY ActivationAssumption DEF Init, RecordInv, NoRecord
<1>. QED  BY <1>1, <1>2, <1>3, <1>4, <1>5, <1>6, <1>7, <1>8 DEF IInv

LEMMA StutterKeeps == ASSUME IInv, UNCHANGED vars PROVE IInv'
  BY DEF vars, IInv, TypeOK, OwnInv, CoverInv, OneOrder, AnswerInv, ReturnedIsActive, QuietInv,
         RecordInv, Uncovered, Placed, Unstored

LEMMA NextKeeps == ASSUME IInv, [Next]_vars PROVE IInv'
<1>1. ASSUME NEW c \in Calls, FirstQuote(c) PROVE IInv'
  BY <1>1, FirstQuoteKeeps
<1>2. ASSUME NEW c \in Calls, Acquire(c) PROVE IInv'
  BY <1>2, AcquireKeeps
<1>3. ASSUME NEW c \in Calls, NotAcquired(c) PROVE IInv'
  BY <1>3, NotAcquiredKeeps
<1>4. ASSUME NEW c \in Calls, Requote(c) PROVE IInv'
  BY <1>4, RequoteKeeps
<1>5. ASSUME NEW c \in Calls, Load(c) PROVE IInv'
  BY <1>5, LoadKeeps
<1>6. ASSUME NEW c \in Calls, Confirm(c) PROVE IInv'
  BY <1>6, ConfirmKeeps
<1>7. ASSUME NEW c \in Calls, Ask(c) PROVE IInv'
  BY <1>7, AskKeeps
<1>8. ASSUME NEW c \in Calls, StoreOrder(c) PROVE IInv'
  BY <1>8, StoreOrderKeeps
<1>9. ASSUME NEW c \in Calls, Wait(c) PROVE IInv'
  BY <1>9, WaitKeeps
<1>10. ASSUME NEW c \in Calls, WaitOver(c) PROVE IInv'
  BY <1>10, WaitOverKeeps
<1>11. ASSUME NEW c \in Calls, Note(c) PROVE IInv'
  BY <1>11, NoteKeeps
<1>12. ASSUME NEW c \in Calls, StoreDone(c) PROVE IInv'
  BY <1>12, StoreDoneKeeps
<1>13. ASSUME NEW c \in Calls, AskRefee(c) PROVE IInv'
  BY <1>13, AskRefeeKeeps
<1>14. ASSUME NEW c \in Calls, StoreTx(c) PROVE IInv'
  BY <1>14, StoreTxKeeps
<1>15. ASSUME NEW c \in Calls, Release(c) PROVE IInv'
  BY <1>15, ReleaseKeeps
<1>16. ASSUME NEW c \in Calls, Crash(c) PROVE IInv'
  BY <1>16, CrashKeeps
<1>17. ASSUME NEW c \in Calls, EndTask(c) PROVE IInv'
  BY <1>17, EndTaskKeeps
<1>18. CASE Lapse
  BY <1>18, LapseKeeps
<1>19. CASE Expire
  BY <1>19, ExpireKeeps
<1>20. CASE Appear
  BY <1>20, AppearKeeps
<1>21. CASE UNCHANGED vars
  BY <1>21, StutterKeeps
<1>. QED
  BY <1>1, <1>2, <1>3, <1>4, <1>5, <1>6, <1>7, <1>8, <1>9, <1>10, <1>11, <1>12, <1>13, <1>14,
         <1>15, <1>16, <1>17, <1>18, <1>19, <1>20, <1>21, Zenon DEF Next, CallStep

-----------------------------------------------------------------------------
(* The theorems                                                             *)

\* What the calls know of the lock, the record and each other is inductive.
THEOREM Invariance == Spec => []IInv
<1>. QED
  BY InitOK, NextKeeps, PTL DEF Spec

\* A destination is paid for twice only when an order could not be recorded,
\* for any number of calls, lapses and expiries: the lock's TTL and Redis are
\* the only things between two orders (ensure_destination_activated).
THEOREM PaidForOnce == Spec => []OneOrder
<1>. QED
  BY Invariance, PTL DEF IInv

\* A call returns only to a destination that is active or about to be.
THEOREM ReturnsAreTrue == Spec => []ReturnedIsActive
<1>. QED
  BY Invariance, PTL DEF IInv

\* Without lapses a step writes only the record of the order on record.
LEMMA StepKeepsRecord ==
    ASSUME IInv, [Next]_vars, lapses = 0, record.status \notin {"none", "other"}, record' # NoRecord
    PROVE  record'.order = record.order
<1>1. CASE \E c \in Calls : StoreOrder(c)
  BY <1>1 DEF StoreOrder, Store, Record, redis, IInv, QuietInv, AfterLoad
<1>2. CASE \E c \in Calls : StoreTx(c)
  BY <1>2 DEF StoreTx, Store, redis, IInv, QuietInv, AfterLoad
<1>3. CASE \E c \in Calls : Note(c)
  BY <1>3, record # NoRecord DEF Note, Store, Record, NoRecord, redis, IInv, QuietInv
<1>4. CASE \E c \in Calls : StoreDone(c)
  BY <1>4, record # NoRecord DEF StoreDone, Store, Record, NoRecord, redis, IInv, QuietInv
<1>5. CASE Expire
  BY <1>5 DEF Expire
<1>6. CASE record' = record
  BY <1>6
<1>7. \/ \E c \in Calls : StoreOrder(c) \/ StoreTx(c) \/ Note(c) \/ StoreDone(c)
      \/ Expire \/ record' = record
  BY Zenon DEF Next, CallStep, FirstQuote, Acquire, NotAcquired, Requote, Load, Confirm, Ask,
         Wait,
       WaitOver, AskRefee, Release, Crash, EndTask, Lapse, Appear, redis, vars
<1>. QED
  BY <1>1, <1>2, <1>3, <1>4, <1>5, <1>6, <1>7, Zenon

\* While no lock lapses under its holder, a record is never overwritten by the
\* record of another order (_store_record after activate_address and after
\* wait_for_activation).
THEOREM RecordStays == Spec => RecordIsKept
<1>1. IInv /\ [Next]_vars => [lapses = 0 /\ record.status \notin {"none", "other"} /\ record' # NoRecord
                                => record'.order = record.order]_vars
  BY StepKeepsRecord
<1>. QED
  BY <1>1, Invariance, PTL DEF Spec, RecordIsKept

==============================================================================
