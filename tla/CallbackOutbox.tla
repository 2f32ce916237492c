----------------------------- MODULE CallbackOutbox -----------------------------
(***************************************************************************)
(* The outbox of payout notifications: app/payout_callback_outbox.py and    *)
(* the Celery tasks of app/tasks.py that create, post and sweep its rows.   *)
(*                                                                         *)
(* A dispatcher is a Celery task at work: post_payout_results for one row,  *)
(* or dispatch_due_payout_callbacks for a batch.  Its claim_token is the    *)
(* task's id, fresh for every run; here a dispatcher runs again and again   *)
(* under one name, so the tokens of a run that is over are called Orphan,   *)
(* which no running dispatcher owns.                                        *)
(*                                                                         *)
(* Time is kept only as far as SQL compares it: which rows are due, in      *)
(* which order of next_attempt_at, and whose claim is older than its TTL.   *)
(***************************************************************************)
EXTENDS Naturals, FiniteSets

CONSTANTS
    Callbacks,      \* ids of outbox rows
    NoCallback,     \* no row at hand
    Dispatchers,    \* Celery tasks that may run at the same time
    NoToken,        \* SQL NULL in claim_token
    Orphan,         \* the token of a task that is gone
    MaxAttempts,    \* PAYOUT_CALLBACK_MAX_ATTEMPTS
    Limit,          \* PAYOUT_CALLBACK_SWEEP_LIMIT
    PostsPerTTL,    \* the POSTs of TIMEOUT_SEC each that end before CLAIM_TTL_SEC does
    MaxCrashes      \* bound on the number of tasks that die

\* config.py demands CLAIM_TTL_SEC > TIMEOUT_SEC, so at least one POST fits.
ASSUME OutboxAssumption ==
    /\ IsFiniteSet(Callbacks) /\ NoCallback \notin Callbacks
    /\ IsFiniteSet(Dispatchers)
    /\ NoToken \notin Dispatchers /\ Orphan \notin Dispatchers /\ NoToken # Orphan
    /\ MaxAttempts \in Nat \ {0}
    /\ Limit \in Nat \ {0}
    /\ PostsPerTTL \in Nat \ {0}
    /\ MaxCrashes \in Nat

VARIABLES
    status,       \* column status; "ABSENT" before create_payout_callback
    attempts,     \* column attempts
    claim_token,  \* column claim_token
    due,          \* rows with next_attempt_at <= now
    before,       \* pairs of rows in the order of next_attempt_at
    age,          \* POSTs its claimant has ended since the row was claimed
    stale,        \* rows with claimed_at <= now - CLAIM_TTL_SEC
    messages,     \* post_payout_results messages in the broker
    work,         \* per dispatcher: at, the rows left to do, the current row, its answer
    delivered,    \* callbacks the consumer has received
    posts,        \* per row, the POSTs sent (history)
    lost,         \* per row, the POSTs whose result was not recorded (history)
    crashes       \* dispatchers that died

vars == <<status, attempts, claim_token, due, before, age, stale, messages, work,
          delivered, posts, lost, crashes>>

rowVars == <<status, attempts, claim_token, due, before, age, stale>>
history == <<delivered, posts, lost, crashes>>

--------------------------------------------------------------------------------

Open == {"PENDING", "DISPATCHING"}
Settled == {"SENT", "FAILED"}

\* What a dispatcher is about to do with its current row.
Points == {"idle", "next", "claim", "post", "record"}

Work == [at : Points,
         todo : SUBSET Callbacks,                \* rows not yet taken up
         current : Callbacks \cup {NoCallback},  \* the row at hand
         seen : Nat,                             \* its attempts as read
         answer : {"none", "ok", "error"}]

Idle == [at |-> "idle", todo |-> {}, current |-> NoCallback, seen |-> 0, answer |-> "none"]

TypeOK ==
    /\ status \in [Callbacks -> {"ABSENT"} \cup Open \cup Settled]
    /\ attempts \in [Callbacks -> Nat]
    /\ claim_token \in [Callbacks -> Dispatchers \cup {NoToken, Orphan}]
    /\ due \subseteq Callbacks
    /\ before \subseteq Callbacks \X Callbacks
    /\ age \in [Callbacks -> Nat]
    /\ stale \subseteq Callbacks
    /\ messages \subseteq Callbacks
    /\ work \in [Dispatchers -> Work]
    /\ delivered \subseteq Callbacks
    /\ posts \in [Callbacks -> Nat]
    /\ lost \in [Callbacks -> Nat]
    /\ crashes \in Nat

Init ==
    /\ status = [c \in Callbacks |-> "ABSENT"]
    /\ attempts = [c \in Callbacks |-> 0]
    /\ claim_token = [c \in Callbacks |-> NoToken]
    /\ due = {}
    /\ before = {}
    /\ age = [c \in Callbacks |-> 0]
    /\ stale = {}
    /\ messages = {}
    /\ work = [d \in Dispatchers |-> Idle]
    /\ delivered = {}
    /\ posts = [c \in Callbacks |-> 0]
    /\ lost = [c \in Callbacks |-> 0]
    /\ crashes = 0

\* The order after row c is given a next_attempt_at later than that of the rows in
\* `earlier` and sooner than that of the rows in `later`.
Reordered(c, earlier, later) ==
    {p \in before : c \notin {p[1], p[2]}} \cup (earlier \X {c}) \cup ({c} \X later)

\* A mutant: rows left DISPATCHING by a dead task are not claimed again.
ClaimablePending(c) == attempts[c] < MaxAttempts /\ status[c] = "PENDING" /\ c \in due

\* The WHERE of both claims.
Claimable(c) ==
    /\ attempts[c] < MaxAttempts
    /\ \/ status[c] = "PENDING" /\ c \in due
       \/ status[c] = "DISPATCHING" /\ c \in stale

\* UPDATE ... SET status = DISPATCHING, claimed_at = now, claim_token = d.
ClaimRows(d, rows) ==
    /\ status' = [c \in Callbacks |-> IF c \in rows THEN "DISPATCHING" ELSE status[c]]
    /\ claim_token' = [c \in Callbacks |-> IF c \in rows THEN d ELSE claim_token[c]]
    /\ age' = [c \in Callbacks |-> IF c \in rows THEN 0 ELSE age[c]]
    /\ stale' = stale \ rows
    /\ UNCHANGED <<attempts, due, before>>

\* SELECT ... ORDER BY next_attempt_at LIMIT: the first claimable rows, as many as the limit
\* allows (rows of one second come in any order).
DueBatch(batch) ==
    LET claimable == {c \in Callbacks : Claimable(c)}
    IN  /\ batch \subseteq claimable
        /\ Cardinality(batch) <= Limit
        /\ batch = claimable \/ Cardinality(batch) = Limit
        /\ \A c \in batch, b \in claimable : <<b, c>> \in before => b \in batch

\* The task d is over; what it leaves claimed belongs to nobody.
Abandoned(d) ==
    [c \in Callbacks |-> IF claim_token[c] = d THEN Orphan ELSE claim_token[c]]

--------------------------------------------------------------------------------
(* queue_payout_callback                                                    *)

\* create_payout_callback, due at once, then post_payout_results.delay, which may fail.
Create(c) ==
    /\ status[c] = "ABSENT"
    /\ status' = [status EXCEPT ![c] = "PENDING"]
    /\ due' = due \cup {c}
    /\ before' = Reordered(c, due, {b \in Callbacks : status[b] = "PENDING"} \ due)
    /\ messages' \in {messages, messages \cup {c}}
    /\ UNCHANGED <<attempts, claim_token, age, stale, work, history>>

--------------------------------------------------------------------------------
(* The tasks                                                                *)

\* post_payout_results starts: one row, not claimed yet.
StartPost(d, c) ==
    /\ work[d].at = "idle"
    /\ c \in messages
    /\ messages' = messages \ {c}
    /\ work' = [work EXCEPT ![d] = [Idle EXCEPT !.at = "next", !.todo = {c}]]
    /\ UNCHANGED <<rowVars, history>>

\* dispatch_due_payout_callbacks starts: claim_due_payout_callbacks.
StartSweep(d) ==
    /\ work[d].at = "idle"
    /\ \E batch \in SUBSET Callbacks :
          /\ batch # {}
          /\ DueBatch(batch)
          /\ ClaimRows(d, batch)
          /\ work' = [work EXCEPT ![d] = [Idle EXCEPT !.at = "next", !.todo = batch]]
    /\ UNCHANGED <<messages, history>>

\* dispatch_payout_callback returns without a POST, and the batch goes on.
Skip(d, w) == work' = [work EXCEPT ![d] = [w EXCEPT !.at = "next", !.current = NoCallback]]

\* The row is ours: send it, with the attempts as they are read now.
Send(d, c, w) ==
    work' = [work EXCEPT ![d] = [w EXCEPT !.at = "post", !.current = c, !.seen = attempts[c]]]

\* A mutant: the token in the row is not compared with the task's own.
ReadRowAnyToken(d) ==
    /\ work[d].at = "next"
    /\ \E c \in work[d].todo :
          LET w == [work[d] EXCEPT !.todo = @ \ {c}]
          IN  CASE status[c] = "PENDING" ->
                     work' = [work EXCEPT ![d] = [w EXCEPT !.at = "claim", !.current = c]]
                [] status[c] = "DISPATCHING" -> Send(d, c, w)
                [] OTHER -> Skip(d, w)
    /\ UNCHANGED <<rowVars, messages, history>>

\* dispatch_payout_callback reads the row.
ReadRow(d) ==
    /\ work[d].at = "next"
    /\ \E c \in work[d].todo :
          LET w == [work[d] EXCEPT !.todo = @ \ {c}]
          IN  CASE status[c] = "PENDING" ->
                     work' = [work EXCEPT ![d] = [w EXCEPT !.at = "claim", !.current = c]]
                [] status[c] = "DISPATCHING" /\ claim_token[c] = d -> Send(d, c, w)
                [] OTHER -> Skip(d, w)
    /\ UNCHANGED <<rowVars, messages, history>>

\* claim_payout_callback: a row that another task has claimed or settled since the
\* read, or that is not due, is left alone.
ClaimRow(d) ==
    /\ work[d].at = "claim"
    /\ LET c == work[d].current
       IN  IF Claimable(c)
           THEN ClaimRows(d, {c}) /\ Send(d, c, work[d])
           ELSE Skip(d, work[d]) /\ UNCHANGED rowVars
    /\ UNCHANGED <<messages, history>>

\* requests.post: 2xx, or an error although the consumer may have got it.
Post(d) ==
    /\ work[d].at = "post"
    /\ posts' = [posts EXCEPT ![work[d].current] = @ + 1]
    /\ \/ /\ delivered' = delivered \cup {work[d].current}
          /\ \E a \in {"ok", "error"} :
                work' = [work EXCEPT ![d].at = "record", ![d].answer = a]
       \/ /\ work' = [work EXCEPT ![d].at = "record", ![d].answer = "error"]
          /\ UNCHANGED delivered
    /\ UNCHANGED <<rowVars, messages, lost, crashes>>

\* A mutant: any answer will do.
OutcomeOptimistic(w) == IF w.seen + 1 >= MaxAttempts THEN "FAILED" ELSE "SENT"

\* A mutant: one attempt too many.
OutcomeLate(w) ==
    IF w.answer = "ok" THEN "SENT"
    ELSE IF w.seen >= MaxAttempts THEN "FAILED" ELSE "PENDING"

\* The status the answer asks for.
Outcome(w) ==
    IF w.answer = "ok" THEN "SENT"
    ELSE IF w.seen + 1 >= MaxAttempts THEN "FAILED" ELSE "PENDING"

\* A mutant: UPDATE ... WHERE id = ?, whoever holds the claim.
OwnsAnyClaim(d, c) == TRUE

\* UPDATE ... WHERE status = DISPATCHING AND claim_token = d.
OwnsClaim(d, c) == status[c] = "DISPATCHING" /\ claim_token[c] = d

\* A mutant: the attempt is not counted.
NotCounted(n) == n

\* attempts = attempts + 1
Counted(n) == n + 1

\* _update_after_attempt.  A POST has passed for every row its task still holds.
Record(d) ==
    LET c == work[d].current
        s == Outcome(work[d])
        open == {b \in Callbacks : status[b] \in Open}
    IN  /\ work[d].at = "record"
        /\ IF OwnsClaim(d, c)
           THEN /\ status' = [status EXCEPT ![c] = s]
                /\ attempts' = [attempts EXCEPT ![c] = Counted(@)]
                /\ claim_token' = [claim_token EXCEPT ![c] = NoToken]
                /\ due' = due \ {c}
                /\ before' = Reordered(c, IF s = "PENDING" THEN open \ {c} ELSE {}, {})
                /\ stale' = stale \ {c}
                /\ UNCHANGED lost
           ELSE /\ lost' = [lost EXCEPT ![c] = @ + 1]
                /\ UNCHANGED <<status, attempts, claim_token, due, before, stale>>
        /\ age' = [b \in Callbacks |->
                      IF b # c /\ claim_token[b] = d /\ age[b] < PostsPerTTL
                      THEN age[b] + 1 ELSE age[b]]
        /\ work' = [work EXCEPT ![d] = [Idle EXCEPT !.at = "next", !.todo = work[d].todo]]
        /\ UNCHANGED <<messages, delivered, posts, crashes>>

\* The task returns.
Finish(d) ==
    /\ work[d].at = "next"
    /\ work[d].todo = {}
    /\ work' = [work EXCEPT ![d] = Idle]
    /\ claim_token' = Abandoned(d)
    /\ UNCHANGED <<status, attempts, due, before, age, stale, messages, history>>

--------------------------------------------------------------------------------
(* The environment                                                          *)

\* The task dies, or raises: its claims stay in the table.
Crash(d) ==
    /\ work[d].at # "idle"
    /\ crashes < MaxCrashes
    /\ crashes' = crashes + 1
    /\ lost' = [c \in Callbacks |->
                  IF work[d].at = "record" /\ work[d].current = c THEN lost[c] + 1 ELSE lost[c]]
    /\ work' = [work EXCEPT ![d] = Idle]
    /\ claim_token' = Abandoned(d)
    /\ UNCHANGED <<status, attempts, due, before, age, stale, messages, delivered, posts>>

\* The broker loses a message.
LoseMessage(c) ==
    /\ c \in messages
    /\ messages' = messages \ {c}
    /\ UNCHANGED <<rowVars, work, history>>

\* next_attempt_at passes, in its order.
BecomeDue(c) ==
    /\ status[c] = "PENDING"
    /\ c \notin due
    /\ \A b \in Callbacks : <<b, c>> \in before /\ status[b] = "PENDING" => b \in due
    /\ due' = due \cup {c}
    /\ UNCHANGED <<status, attempts, claim_token, before, age, stale, messages, work, history>>

\* claimed_at + CLAIM_TTL_SEC passes: for the claim of a dead task, and for a live one
\* once it has sent the POSTs that fit in the TTL.
ClaimLapse(c) ==
    /\ status[c] = "DISPATCHING"
    /\ c \notin stale
    /\ claim_token[c] = Orphan \/ age[c] >= PostsPerTTL
    /\ stale' = stale \cup {c}
    /\ UNCHANGED <<status, attempts, claim_token, due, before, age, messages, work, history>>

TaskStep(d) ==
    \/ StartSweep(d) \/ ReadRow(d) \/ ClaimRow(d) \/ Post(d) \/ Record(d) \/ Finish(d)
    \/ \E c \in Callbacks : StartPost(d, c)

Next ==
    \/ \E d \in Dispatchers : TaskStep(d) \/ Crash(d)
    \/ \E c \in Callbacks : Create(c) \/ LoseMessage(c) \/ BecomeDue(c) \/ ClaimLapse(c)

Spec == Init /\ [][Next]_vars

\* Celery workers run their tasks, the beat keeps sweeping, clocks move on.  Nothing forces
\* a payout to happen, a task to die or a message to be lost.
Fairness ==
    /\ \A d \in Dispatchers :
          /\ WF_vars(StartSweep(d)) /\ WF_vars(ReadRow(d)) /\ WF_vars(ClaimRow(d))
          /\ WF_vars(Post(d)) /\ WF_vars(Record(d)) /\ WF_vars(Finish(d))
    /\ \A c \in Callbacks : WF_vars(BecomeDue(c)) /\ WF_vars(ClaimLapse(c))

FairSpec == Spec /\ Fairness

--------------------------------------------------------------------------------
(* Safety                                                                   *)

\* A row still to be sent has an attempt left.  Both claims ask for attempts < MAX, so a
\* row without one would stay PENDING for ever, neither sent nor reported as failed.
AttemptIsLeft ==
    \A c \in Callbacks :
        /\ status[c] \in Open => attempts[c] < MaxAttempts
        /\ status[c] = "FAILED" => attempts[c] = MaxAttempts

\* SENT is never a guess: the consumer has received the callback.
SentIsDelivered == \A c \in Callbacks : status[c] = "SENT" => c \in delivered

\* Answered POSTs whose result no row will take, because the claim has passed to another.
Superseded(c) ==
    {d \in Dispatchers :
        work[d].at = "record" /\ work[d].current = c /\ ~OwnsClaim(d, c)}

\* The consumer gets no more POSTs than the configured attempts, but for those whose result
\* could not be recorded because the task died or its claim had passed to another.
PostsAreBounded ==
    \A c \in Callbacks : posts[c] <= MaxAttempts + lost[c] + Cardinality(Superseded(c))

Posting(d, c) == work[d].at \in {"post", "record"} /\ work[d].current = c

\* A batch that fits into the claim's TTL is never overtaken: no callback is being posted
\* by two tasks at once.
ClaimIsExclusive ==
    Limit <= PostsPerTTL =>
        \A d, e \in Dispatchers, c \in Callbacks : Posting(d, c) /\ Posting(e, c) => d = e

\* A settled callback is not reopened, by a late result or a sweep.
SettledIsFinal ==
    [][\A c \in Callbacks : status[c] \in Settled =>
          status'[c] = status[c] /\ attempts'[c] = attempts[c]]_vars

--------------------------------------------------------------------------------
(* The inductive invariant behind the safety properties                     *)

\* What is left of the batch of a task, the row at hand included.
Left(d) == work[d].todo \cup ({work[d].current} \cap Callbacks)

\* Tasks whose POST of c is answered and not yet recorded.
Answered(c) == {d \in Dispatchers : work[d].at = "record" /\ work[d].current = c}

\* A task has a row at hand exactly between reading it and being done with it.
WorkInv ==
    \A d \in Dispatchers :
        /\ work[d].at = "idle" => work[d].todo = {}
        /\ work[d].at \in {"idle", "next"} => work[d].current = NoCallback
        /\ work[d].at \in {"claim", "post", "record"} => work[d].current \in Callbacks \ work[d].todo
        /\ work[d].at # "record" => work[d].answer = "none"

\* A row has a token while it is DISPATCHING, and the task that owns it has yet to do it.
ClaimInv ==
    /\ \A c \in Callbacks : status[c] = "DISPATCHING" <=> claim_token[c] # NoToken
    /\ \A c \in Callbacks, d \in Dispatchers : claim_token[c] = d => c \in Left(d)
    /\ \A c \in Callbacks, d \in Dispatchers :
          work[d].at = "claim" /\ work[d].current = c => claim_token[c] # d

\* A task that still owns its row has read the attempts the row has.
AttemptsInv ==
    /\ AttemptIsLeft
    /\ \A c \in Callbacks : status[c] = "ABSENT" => attempts[c] = 0
    /\ \A c \in Callbacks : attempts[c] <= MaxAttempts
    /\ \A d \in Dispatchers, c \in Callbacks :
          Posting(d, c) /\ claim_token[c] = d => work[d].seen = attempts[c]

\* A 2xx comes from a consumer that has the callback.
DeliveryInv ==
    /\ SentIsDelivered
    /\ \A d \in Dispatchers, c \in Callbacks :
          Posting(d, c) /\ work[d].answer = "ok" => c \in delivered

\* Every POST is an attempt, lost, or about to be one of them.
CountInv ==
    \A c \in Callbacks : posts[c] = attempts[c] + lost[c] + Cardinality(Answered(c))

\* The POSTs sent since a claim and the rows left to do are together a batch at most, so
\* the claim of a batch that fits into the TTL does not lapse while its task lives.
BatchInv ==
    Limit <= PostsPerTTL =>
        \A d \in Dispatchers :
            /\ Cardinality(Left(d)) <= Limit
            /\ \A c \in Callbacks :
                  /\ claim_token[c] = d =>
                        c \notin stale /\ age[c] + Cardinality(Left(d)) <= Limit
                  /\ Posting(d, c) => claim_token[c] = d

IInv ==
    /\ TypeOK
    /\ WorkInv
    /\ ClaimInv
    /\ AttemptsInv
    /\ DeliveryInv
    /\ CountInv
    /\ BatchInv

--------------------------------------------------------------------------------
(* The contract the outbox implements                                       *)

StageOf(s) ==
    CASE s = "ABSENT" -> "absent"
      [] s = "SENT" -> "sent"
      [] s = "FAILED" -> "given up"
      [] OTHER -> "open"

Contract == INSTANCE CallbackContract WITH
    stage <- [c \in Callbacks |-> StageOf(status[c])],
    tries <- attempts,
    received <- delivered

\* Tasks, claims that pass from one to another, batches and crashes implement the
\* contract: each attempt counts once, for a result that is true, and the last one settles.
ImplementsContract == Contract!ContractSpec

--------------------------------------------------------------------------------
(* Liveness, under Fairness                                                 *)

\* Every callback is sent, or given up after its attempts: none is forgotten, whether its
\* message is lost, its task dies or the sweep's limit leaves it for later.
EveryCallbackSettles == \A c \in Callbacks : status[c] \in Open ~> status[c] \in Settled
================================================================================
