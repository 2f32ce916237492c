------------------------ MODULE DestinationActivation ------------------------
(***************************************************************************)
(* The activation of a payout's destination, an address the chain does not  *)
(* know yet: app/payout_destination_activation.py with activate_address of  *)
(* the two providers.  The calls here are those of one destination, the     *)
(* attempts of one payout or of several: they take turns by a Redis lock    *)
(* with a TTL, and tell each other what was ordered by a Redis record.      *)
(***************************************************************************)
EXTENDS Naturals

CONSTANTS
    Calls,        \* calls of ensure_destination_activated for one destination
    NoCall,       \* no holder of the lock
    MaxLapses,    \* bound on the TTL of the lock running out under its holder
    MaxExpiries   \* bound on the TTL of the record running out

ASSUME ActivationAssumption ==
    NoCall \notin Calls /\ MaxLapses \in Nat /\ MaxExpiries \in Nat

Providers == {"profeex", "refee"}

\* A call orders from a provider at most once, so the two name an order.
Orders == Calls \X Providers
OrdersOf(c) == {c} \X Providers

VARIABLES
    fallback,   \* is re:Fee configured behind ProfeeX?
    active,     \* the chain knows the destination
    order,      \* an order at its provider
    record,     \* the destination's record in Redis
    lock,       \* the holder of the destination's lock, dead or alive
    pc,         \* per call, where it is
    job,        \* per call, the call whose ProfeeX task it waits for
    outcome,    \* per call, what it is about to return or to raise
    lapses, expiries,
    excused     \* history: orders that no record could tell of (below)

vars == <<fallback, active, order, record, lock, pc, job, outcome, lapses, expiries, excused>>
redis == <<record, lock, lapses, expiries>>
world == <<fallback, active>>

NoRecord == [status |-> "none"]
Record(status, o) == [status |-> status, order |-> o]

\* From the lock to the record of an order.
Window == {"requote", "load", "ask", "duplicate", "store", "refee", "storeTx"}
Holding == Window \cup {"stale", "wait", "note", "storeDone", "confirm", "leave"}
Running == {"lock"} \cup Holding
Ended == {"ended", "crashed"}

TypeOK ==
    /\ fallback \in BOOLEAN /\ active \in BOOLEAN
    /\ order \in [Orders -> {"none", "open", "done", "failed"}]
    /\ record \in {NoRecord} \cup [status : {"open", "done", "failed", "other"}, order : Orders]
    /\ lock \in Calls \cup {NoCall}
    /\ pc \in [Calls -> {"idle"} \cup Running \cup Ended]
    /\ job \in [Calls -> Calls]
    /\ outcome \in [Calls -> {"none", "retry", "terminal", "success", "told"}]
    /\ lapses \in 0..MaxLapses /\ expiries \in 0..MaxExpiries
    /\ excused \subseteq Orders

Init ==
    /\ fallback \in BOOLEAN /\ active = FALSE
    /\ order = [o \in Orders |-> "none"]
    /\ record = NoRecord
    /\ lock = NoCall
    /\ pc = [c \in Calls |-> "idle"]
    /\ job = [c \in Calls |-> c]
    /\ outcome = [c \in Calls |-> "none"]
    /\ lapses = 0 /\ expiries = 0
    /\ excused = {}

-----------------------------------------------------------------------------
Goto(c, label) == pc' = [pc EXCEPT ![c] = label]
Says(c, what) == outcome' = [outcome EXCEPT ![c] = what]

Continue(c, label) == Goto(c, label) /\ UNCHANGED outcome

\* Return or raise, once the lock is released.
Leave(c, what) == Goto(c, "leave") /\ Says(c, what)

Place(c, p) == order' = [order EXCEPT ![<<c, p>>] = "open"]
Excuse(orders) == excused' = excused \cup orders
Store(status, o) == record' = Record(status, o) /\ UNCHANGED <<lock, lapses, expiries>>

\* quote_fn reads the chain or asks ProfeeX, and may fail; its answer is taken
\* to be true.
FirstQuote(c) ==
    /\ pc[c] = "idle"
    /\ \/ Continue(c, "ended")
       \/ ~ active /\ Continue(c, "lock")
    /\ UNCHANGED <<world, order, redis, job, excused>>

\* A mutant: no lock.
AcquireAlways(c) ==
    /\ pc[c] = "lock"
    /\ lock' = c
    /\ Continue(c, "requote")
    /\ UNCHANGED <<world, order, record, lapses, expiries, job, excused>>

Acquire(c) ==
    /\ pc[c] = "lock"
    /\ lock = NoCall
    /\ lock' = c
    /\ Continue(c, "requote")
    /\ UNCHANGED <<world, order, record, lapses, expiries, job, excused>>

\* A mutant: no blocking_timeout.
NotAcquiredByError(c) ==
    /\ pc[c] = "lock"
    /\ lock = NoCall
    /\ lock' \in {NoCall, c}
    /\ Continue(c, "ended")
    /\ UNCHANGED <<world, order, record, lapses, expiries, job, excused>>

\* LOCK_WAIT_SEC is over, or Redis fails: perhaps after it took the lock.
NotAcquired(c) ==
    /\ pc[c] = "lock"
    /\ lock' \in IF lock = NoCall THEN {NoCall, c} ELSE {lock}
    /\ Continue(c, "ended")
    /\ UNCHANGED <<world, order, record, lapses, expiries, job, excused>>

Requote(c) ==
    /\ pc[c] = "requote"
    /\ \/ Leave(c, "retry")
       \/ active /\ Leave(c, "success")
       \/ ~ active /\ Continue(c, "load")
    /\ UNCHANGED <<world, order, redis, job, excused>>

\* A mutant: an order in progress is not resumed.
LoadDoneOnly(c) ==
    /\ pc[c] = "load"
    /\ IF record.status = "done"
       THEN Continue(c, "stale")
       ELSE Continue(c, "ask")
    /\ Excuse(IF record.status = "other" THEN {o \in Orders : order[o] # "none"} ELSE {})
    /\ UNCHANGED <<world, order, redis, job>>

\* What the record says of an earlier order decides whether to order at all; a
\* status that is none of those the code knows counts as no order.
Load(c) ==
    /\ pc[c] = "load"
    /\ \/ Leave(c, "retry") /\ UNCHANGED job
       \/ record.status \in {"none", "other"} /\ Continue(c, "ask") /\ UNCHANGED job
       \/ record.status = "failed" /\ Leave(c, "terminal") /\ UNCHANGED job
       \/ record.status = "done" /\ Continue(c, "stale") /\ UNCHANGED job
       \/ /\ record.status = "open"
          /\ job' = [job EXCEPT ![c] = record.order[1]]
          /\ Continue(c, "wait")
    /\ Excuse(IF record.status = "other" THEN {o \in Orders : order[o] # "none"} ELSE {})
    /\ UNCHANGED <<world, order, redis>>

\* A mutant: the word of the record or of ProfeeX is taken.
ConfirmBlindly(c) ==
    /\ pc[c] \in {"stale", "duplicate", "confirm"}
    /\ Leave(c, "success")
    /\ UNCHANGED <<world, order, redis, job, excused>>

\* The destination is asked for once more after a record of success, after
\* ProfeeX calls the request a duplicate, and after a task has ended well.
Confirm(c) ==
    /\ pc[c] \in {"stale", "duplicate", "confirm"}
    /\ \/ Leave(c, "retry")
       \/ active /\ Leave(c, "success")
    /\ UNCHANGED <<world, order, redis, job, excused>>

\* re:Fee if it is configured, and the error otherwise.
NextProvider(c) ==
    \/ fallback /\ Continue(c, "refee")
    \/ ~ fallback /\ \E what \in {"retry", "terminal"} : Leave(c, what)

\* ProfeeX takes the order and says so, perhaps without its id; or an order
\* may have been taken, or was not, and the next provider may be asked or not.
Ask(c) ==
    /\ pc[c] = "ask"
    /\ \/ /\ Place(c, "profeex")
          /\ job' = [job EXCEPT ![c] = c]
          /\ Continue(c, "store") /\ UNCHANGED excused
       \/ /\ Place(c, "profeex") /\ Excuse({<<c, "profeex">>})
          /\ Leave(c, "retry") /\ UNCHANGED job
       \/ /\ Place(c, "profeex") \/ UNCHANGED order
          /\ Excuse({<<c, "profeex">>})
          /\ NextProvider(c) /\ UNCHANGED job
       \/ Continue(c, "duplicate") /\ UNCHANGED <<order, job, excused>>
       \/ NextProvider(c) /\ UNCHANGED <<order, job, excused>>
       \/ /\ \E what \in {"retry", "terminal"} : Leave(c, what)
          /\ UNCHANGED <<order, job, excused>>
    /\ UNCHANGED <<world, redis>>

\* The order is stored with the status in ProfeeX's answer: its own by then, an
\* earlier one, or one that the wait takes for a failure at once.  SETEX may
\* fail, before or after Redis has run it.
StoreOrder(c) ==
    /\ pc[c] = "store"
    /\ \/ /\ \E s \in {"open", order[<<c, "profeex">>]} : Store(s, <<c, "profeex">>)
          /\ Continue(c, "wait") \/ Leave(c, "retry")
          /\ UNCHANGED excused
       \/ /\ Store("other", <<c, "profeex">>)
          /\ \/ Goto(c, "note") /\ Says(c, "terminal")
             \/ Leave(c, "retry")
          /\ UNCHANGED excused
       \/ Excuse({<<c, "profeex">>}) /\ Leave(c, "retry") /\ UNCHANGED redis
    /\ UNCHANGED <<world, order, job>>

\* A poll sees the task end: well, or with a code that is final or not.
Wait(c) ==
    /\ pc[c] = "wait"
    /\ \/ order[<<job[c], "profeex">>] = "done" /\ Continue(c, "storeDone")
       \/ /\ order[<<job[c], "profeex">>] = "failed"
          /\ Goto(c, "note")
          /\ \E what \in {"retry", "terminal"} : Says(c, what)
    /\ UNCHANGED <<world, order, redis, job, excused>>

\* timeout_sec is over, or the status is an unexpected one.
WaitOver(c) ==
    /\ pc[c] = "wait"
    /\ Goto(c, "note")
    /\ \E what \in {"retry", "terminal"} : Says(c, what)
    /\ UNCHANGED <<world, order, redis, job, excused>>

\* The error is recorded if Redis lets it, and raised: PROCESSING for a later
\* call to go on with the task, FAILED to end it for all of them.
Note(c) ==
    /\ pc[c] = "note"
    /\ \/ Store(IF outcome[c] = "retry" THEN "open" ELSE "failed", <<job[c], "profeex">>)
       \/ UNCHANGED redis
    /\ Leave(c, outcome[c])
    /\ UNCHANGED <<world, order, job, excused>>

StoreDone(c) ==
    /\ pc[c] = "storeDone"
    /\ \/ Store("done", <<job[c], "profeex">>) /\ Continue(c, "confirm")
       \/ Store("done", <<job[c], "profeex">>) /\ Leave(c, "retry")
       \/ UNCHANGED redis /\ Leave(c, "retry")
    /\ UNCHANGED <<world, order, job, excused>>

\* re:Fee answers with status 400, which is taken to say that the destination
\* is active, whatever the chain says; or it returns the transaction that will
\* make it so; or there may be one it could not tell of; or none.
AskRefee(c) ==
    /\ pc[c] = "refee"
    /\ \/ Leave(c, "told") /\ UNCHANGED <<order, excused>>
       \/ Place(c, "refee") /\ Continue(c, "storeTx") /\ UNCHANGED excused
       \/ /\ Place(c, "refee") \/ UNCHANGED order
          /\ Excuse({<<c, "refee">>})
          /\ \E what \in {"retry", "terminal"} : Leave(c, what)
       \/ /\ \E what \in {"retry", "terminal"} : Leave(c, what)
          /\ UNCHANGED <<order, excused>>
    /\ UNCHANGED <<world, redis, job>>

StoreTx(c) ==
    /\ pc[c] = "storeTx"
    /\ \/ Store("done", <<c, "refee">>) /\ Leave(c, "success") /\ UNCHANGED excused
       \/ Store("done", <<c, "refee">>) /\ Leave(c, "retry") /\ UNCHANGED excused
       \/ Excuse({<<c, "refee">>}) /\ Leave(c, "retry") /\ UNCHANGED redis
    /\ UNCHANGED <<world, order, job>>

\* The release compares the token; it may fail and leave the lock to its TTL.
Release(c) ==
    /\ pc[c] = "leave"
    /\ lock' \in {lock, IF lock = c THEN NoCall ELSE lock}
    /\ Goto(c, "ended") /\ Says(c, "none")
    /\ job' = [job EXCEPT ![c] = c]
    /\ UNCHANGED <<world, order, record, lapses, expiries, excused>>

\* A worker dies anywhere; an order it has not stored is lost with it.
Crash(c) ==
    /\ pc[c] \in Running
    /\ Goto(c, "crashed") /\ Says(c, "none")
    /\ job' = [job EXCEPT ![c] = c]
    /\ Excuse(IF pc[c] \in {"store", "storeTx"} THEN OrdersOf(c) ELSE {})
    /\ UNCHANGED <<world, order, redis>>

-----------------------------------------------------------------------------
\* The lock's TTL runs out, under a holder that is gone or one that is not.
Lapse ==
    /\ lock # NoCall
    /\ lock' = NoCall
    /\ IF pc[lock] \in Ended THEN UNCHANGED lapses
       ELSE lapses < MaxLapses /\ lapses' = lapses + 1
    /\ Excuse(IF pc[lock] \in Window THEN OrdersOf(lock) ELSE {})
    /\ UNCHANGED <<world, order, record, expiries, pc, job, outcome>>

\* The record's TTL runs out: what was ordered so far is forgotten with it.
Expire ==
    /\ record # NoRecord
    /\ expiries < MaxExpiries
    /\ expiries' = expiries + 1
    /\ record' = NoRecord
    /\ Excuse({o \in Orders : order[o] # "none"})
    /\ UNCHANGED <<world, order, lock, lapses, pc, job, outcome>>

\* A task ends well or badly (nobody asks re:Fee for the fate of an order), and
\* the chain shows it later; somebody else may also activate the destination.
EndTask(c) ==
    /\ order[<<c, "profeex">>] = "open"
    /\ \E s \in {"done", "failed"} : order' = [order EXCEPT ![<<c, "profeex">>] = s]
    /\ UNCHANGED <<world, redis, pc, job, outcome, excused>>

Appear ==
    /\ ~ active
    /\ active' = TRUE
    /\ UNCHANGED <<fallback, order, redis, pc, job, outcome, excused>>

CallStep(c) ==
    \/ FirstQuote(c) \/ Acquire(c) \/ NotAcquired(c) \/ Requote(c) \/ Load(c)
    \/ Confirm(c) \/ Ask(c) \/ StoreOrder(c) \/ Wait(c) \/ WaitOver(c) \/ Note(c)
    \/ StoreDone(c) \/ AskRefee(c) \/ StoreTx(c) \/ Release(c)

Next ==
    \/ \E c \in Calls : CallStep(c) \/ Crash(c) \/ EndTask(c)
    \/ Lapse \/ Expire \/ Appear

Spec == Init /\ [][Next]_vars

\* A task that runs goes on; every wait, for the lock and for a task, has a
\* deadline of its own.  Providers, Redis and the chain owe nothing.
FairSpec == Spec /\ \A c \in Calls : WF_vars(CallStep(c))

-----------------------------------------------------------------------------
Placed(o) == order[o] # "none"
Uncovered(o) == Placed(o) /\ o \notin excused

\* Where a call has loaded no record and is to order or to store its order.
AfterLoad == {"ask", "duplicate", "store", "refee", "storeTx"}

\* The order a call has at hand and has not stored yet.
Unstored(o) ==
    \/ pc[o[1]] = "store" /\ o[2] = "profeex"
    \/ pc[o[1]] = "storeTx" /\ o[2] = "refee"

\* A call between the lock and its record has the lock, or has lost it and is
\* known to have lost it.
OwnInv == \A c \in Calls : pc[c] \in Window => lock = c \/ OrdersOf(c) \subseteq excused

\* An order is on record or about to be, unless it is excused; whoever found
\* no record and still has the lock is alone with the order it has placed.
CoverInv ==
    /\ \A o \in Orders : Uncovered(o) => record # NoRecord \/ Unstored(o)
    /\ \A c \in Calls : pc[c] \in AfterLoad /\ ~ (OrdersOf(c) \subseteq excused) =>
          \A o \in Orders : Uncovered(o) => o[1] = c /\ Unstored(o)

AnswerInv ==
    \A c \in Calls :
        /\ pc[c] = "note" => outcome[c] # "success"
        /\ pc[c] = "store" => job[c] = c /\ Placed(<<c, "profeex">>)
        /\ pc[c] = "storeTx" => Placed(<<c, "refee">>)

\* Without lapses the lock is held as long as a call works, and what it knows
\* of the record stays true.
QuietInv ==
    lapses = 0 => \A c \in Calls :
        /\ pc[c] \in Holding => lock = c
        /\ pc[c] \in AfterLoad => record.status \in {"none", "other"}
        /\ pc[c] \in {"wait", "note", "storeDone"} /\ record # NoRecord =>
              record.order = <<job[c], "profeex">>

\* Only ProfeeX has tasks to wait for.
RecordInv == record.status = "open" => record.order[2] = "profeex"

\* The destination is paid for once: two orders only if one of them could not
\* be recorded (an answer or a write to Redis that failed, an order without an
\* id, a worker that died before the write), was recorded by a call whose lock
\* had lapsed before or with a status that the next call could not read, or
\* lived longer than its record.
OneOrder == \A o1, o2 \in Orders : Uncovered(o1) /\ Uncovered(o2) => o1 = o2

\* While no lock lapses under its holder, the record of an order in progress,
\* done or failed is never written over by that of another order, which nobody
\* would then wait for.
RecordIsKept ==
    [][lapses = 0 /\ record.status \notin {"none", "other"} /\ record' # NoRecord
          => record'.order = record.order]_vars

\* A payout that goes on does so to a destination that is active, or whose
\* activating transaction re:Fee has named to this very call: the word of a
\* record, of a duplicate request or of a task is never enough.  The exception is
\* "told": re:Fee's status 400 is, and no quote follows it.
ReturnedIsActive ==
    \A c \in Calls : pc[c] = "leave" /\ outcome[c] = "success" => active \/ Placed(<<c, "refee">>)

IInv ==
    /\ TypeOK /\ OwnInv /\ CoverInv /\ OneOrder
    /\ AnswerInv /\ ReturnedIsActive /\ QuietInv /\ RecordInv

\* Every call ends: nothing waits for another call, a provider or Redis for ever.
EveryCallEnds == \A c \in Calls : pc[c] \in Running ~> pc[c] \in Ended
=============================================================================
