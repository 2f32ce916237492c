------------------------- MODULE CallbackOutboxProofs -------------------------
(* Proofs of the safety properties of CallbackOutbox, for any number of       *)
(* callbacks, tasks, attempts, batch sizes and crashes, and of the refinement *)
(* of CallbackContract.                                                       *)
EXTENDS CallbackOutbox, FiniteSetTheorems, TLAPS

--------------------------------------------------------------------------------
(* Types                                                                    *)

\* An idle task is a task.
LEMMA IdleIsWork == Idle \in Work
BY DEF Idle, Work, Points

\* The status an answer asks for is one of the three a result may have.
LEMMA OutcomeStatus ==
    ASSUME NEW w \in Work
    PROVE  Outcome(w) \in {"SENT", "FAILED", "PENDING"}
BY DEF Outcome

\* The records a task moves through are records of a task.
LEMMA WorkMoves ==
    ASSUME NEW w \in Work, NEW c \in Callbacks, NEW rest \in SUBSET Callbacks, NEW n \in Nat,
           NEW a \in {"none", "ok", "error"}
    PROVE  /\ [w EXCEPT !.todo = rest] \in Work
           /\ [w EXCEPT !.at = "next", !.current = NoCallback] \in Work
           /\ [w EXCEPT !.at = "claim", !.current = c] \in Work
           /\ [w EXCEPT !.at = "post", !.current = c, !.seen = n] \in Work
           /\ [w EXCEPT !.at = "record", !.answer = a] \in Work
           /\ [Idle EXCEPT !.at = "next", !.todo = rest] \in Work
BY DEF Work, Points, Idle

\* Every step of the system keeps the types.
LEMMA TypeStep == TypeOK /\ WorkInv /\ Next => TypeOK'
<1> SUFFICES ASSUME TypeOK, WorkInv, Next PROVE TypeOK'
  OBVIOUS
<1> USE OutboxAssumption DEF rowVars, history
<1>0. /\ \A d \in Dispatchers : work[d] \in Work
      /\ \A d \in Dispatchers : /\ work[d].todo \subseteq Callbacks
                                /\ work[d].current \in Callbacks \cup {NoCallback}
                                /\ work[d].at \in Points
  BY DEF TypeOK, Work
<1>1. ASSUME NEW c \in Callbacks, Create(c) PROVE TypeOK'
  BY <1>1 DEF TypeOK, Create, Reordered, Open
<1>2. ASSUME NEW d \in Dispatchers, NEW c \in Callbacks, StartPost(d, c) PROVE TypeOK'
  <2>1. [Idle EXCEPT !.at = "next", !.todo = {c}] \in Work
    BY DEF Idle, Work, Points
  <2> QED
    BY <1>2, <2>1 DEF TypeOK, StartPost
<1>3. ASSUME NEW d \in Dispatchers, StartSweep(d) PROVE TypeOK'
  <2>1. PICK batch \in SUBSET Callbacks :
            /\ ClaimRows(d, batch)
            /\ work' = [work EXCEPT ![d] = [Idle EXCEPT !.at = "next", !.todo = batch]]
    BY <1>3 DEF StartSweep
  <2>2. [Idle EXCEPT !.at = "next", !.todo = batch] \in Work
    BY DEF Idle, Work, Points
  <2> QED
    BY <1>3, <2>1, <2>2 DEF TypeOK, StartSweep, ClaimRows, Open
<1>4. ASSUME NEW d \in Dispatchers, ReadRow(d) PROVE TypeOK'
  <2>1. PICK c \in work[d].todo :
            LET w == [work[d] EXCEPT !.todo = @ \ {c}]
            IN  CASE status[c] = "PENDING" ->
                       work' = [work EXCEPT ![d] = [w EXCEPT !.at = "claim", !.current = c]]
                  [] status[c] = "DISPATCHING" /\ claim_token[c] = d -> Send(d, c, w)
                  [] OTHER -> Skip(d, w)
    BY <1>4 DEF ReadRow
  <2> DEFINE w == [work[d] EXCEPT !.todo = @ \ {c}]
  <2>2. w \in Work /\ c \in Callbacks /\ attempts[c] \in Nat
    BY <1>0, WorkMoves DEF TypeOK
  <2>3. \/ work' = [work EXCEPT ![d] = [w EXCEPT !.at = "claim", !.current = c]]
        \/ Send(d, c, w)
        \/ Skip(d, w)
    BY <2>1
  <2> HIDE DEF w
  <2>4. /\ [w EXCEPT !.at = "claim", !.current = c] \in Work
        /\ [w EXCEPT !.at = "post", !.current = c, !.seen = attempts[c]] \in Work
        /\ [w EXCEPT !.at = "next", !.current = NoCallback] \in Work
    BY <2>2, WorkMoves
  <2>5. work' \in [Dispatchers -> Work]
    BY <2>3, <2>4 DEF TypeOK, Send, Skip
  <2>6. UNCHANGED <<rowVars, messages, history>>
    BY <1>4 DEF ReadRow
  <2> QED
    BY <2>5, <2>6 DEF TypeOK
<1>5. ASSUME NEW d \in Dispatchers, ClaimRow(d) PROVE TypeOK'
  <2> DEFINE c == work[d].current
  <2>1. c \in Callbacks /\ work[d] \in Work /\ attempts[c] \in Nat
    BY <1>0, <1>5 DEF ClaimRow, WorkInv, TypeOK
  <2>2. /\ [work[d] EXCEPT !.at = "post", !.current = c, !.seen = attempts[c]] \in Work
        /\ [work[d] EXCEPT !.at = "next", !.current = NoCallback] \in Work
    BY <2>1, WorkMoves
  <2>3. CASE ClaimRows(d, {c}) /\ Send(d, c, work[d])
    <3>1. work' \in [Dispatchers -> Work]
      BY <2>2, <2>3 DEF TypeOK, Send
    <3> QED
      BY <1>5, <2>3, <3>1 DEF TypeOK, ClaimRow, ClaimRows, Open
  <2>4. CASE Skip(d, work[d]) /\ UNCHANGED rowVars
    BY <1>5, <2>2, <2>4 DEF TypeOK, Skip, ClaimRow
  <2> QED
    BY <1>5, <2>3, <2>4 DEF ClaimRow
<1>6. ASSUME NEW d \in Dispatchers, Post(d) PROVE TypeOK'
  <2>1. work[d].current \in Callbacks
    BY <1>6 DEF Post, WorkInv
  <2>2. PICK a \in {"ok", "error"} : work' = [work EXCEPT ![d] = [work[d] EXCEPT !.at = "record", !.answer = a]]
    BY <1>6 DEF Post, TypeOK
  <2>3. [work[d] EXCEPT !.at = "record", !.answer = a] \in Work
    BY <1>0, <2>1, WorkMoves DEF TypeOK
  <2>4. work' \in [Dispatchers -> Work]
    BY <2>2, <2>3 DEF TypeOK
  <2> QED
    BY <1>6, <2>1, <2>4 DEF TypeOK, Post
<1>7. ASSUME NEW d \in Dispatchers, Record(d) PROVE TypeOK'
  <2>1. work[d].current \in Callbacks /\ Outcome(work[d]) \in {"SENT", "FAILED", "PENDING"}
    BY <1>0, <1>7, OutcomeStatus DEF Record, WorkInv
  <2>2. work' \in [Dispatchers -> Work]
    <3>1. [Idle EXCEPT !.at = "next", !.todo = work[d].todo] \in Work
      BY <1>0 DEF Idle, Work, Points
    <3> QED
      BY <1>7, <3>1 DEF TypeOK, Record
  <2>3. age' \in [Callbacks -> Nat]
    BY <1>7 DEF TypeOK, Record
  <2>4. UNCHANGED <<messages, delivered, posts, crashes>>
    BY <1>7 DEF Record
  <2>5. CASE OwnsClaim(d, work[d].current)
    <3>1. /\ status' \in [Callbacks -> {"ABSENT"} \cup Open \cup Settled]
          /\ attempts' \in [Callbacks -> Nat]
          /\ claim_token' \in [Callbacks -> Dispatchers \cup {NoToken, Orphan}]
          /\ due' \subseteq Callbacks
          /\ stale' \subseteq Callbacks
          /\ lost' = lost
      BY <1>7, <2>1, <2>5 DEF TypeOK, Record, Open, Settled, Counted
    <3>2. before' \subseteq Callbacks \X Callbacks
      BY <1>7, <2>1, <2>5 DEF TypeOK, Record, Reordered
    <3> QED
      BY <2>2, <2>3, <2>4, <3>1, <3>2 DEF TypeOK
  <2>6. CASE ~OwnsClaim(d, work[d].current)
    BY <1>7, <2>1, <2>2, <2>3, <2>4, <2>6 DEF TypeOK, Record
  <2> QED
    BY <2>5, <2>6
<1>8. ASSUME NEW d \in Dispatchers, Finish(d) PROVE TypeOK'
  BY <1>8, IdleIsWork DEF TypeOK, Finish, Abandoned
<1>9. ASSUME NEW d \in Dispatchers, Crash(d) PROVE TypeOK'
  BY <1>9, IdleIsWork DEF TypeOK, Crash, Abandoned
<1>10. ASSUME NEW c \in Callbacks, LoseMessage(c) PROVE TypeOK'
  BY <1>10 DEF TypeOK, LoseMessage
<1>11. ASSUME NEW c \in Callbacks, BecomeDue(c) PROVE TypeOK'
  BY <1>11 DEF TypeOK, BecomeDue
<1>12. ASSUME NEW c \in Callbacks, ClaimLapse(c) PROVE TypeOK'
  BY <1>12 DEF TypeOK, ClaimLapse
<1> QED
  BY <1>1, <1>2, <1>3, <1>4, <1>5, <1>6, <1>7, <1>8, <1>9, <1>10, <1>11, <1>12 DEF Next, TaskStep

--------------------------------------------------------------------------------
(* Sets of rows and of tasks are finite                                     *)

\* What is left of a batch is a finite number of rows.
LEMMA LeftFinite ==
    ASSUME TypeOK, NEW d \in Dispatchers
    PROVE  /\ Left(d) \subseteq Callbacks
           /\ IsFiniteSet(Left(d))
           /\ Cardinality(Left(d)) \in Nat
<1>1. Left(d) \subseteq Callbacks
  BY DEF Left, TypeOK, Work
<1> QED
  BY <1>1, OutboxAssumption, FS_Subset, FS_CardinalityType

\* So are the tasks with an answer for one row.
LEMMA AnsweredFinite ==
    ASSUME NEW c \in Callbacks
    PROVE  /\ Answered(c) \subseteq Dispatchers
           /\ IsFiniteSet(Answered(c))
           /\ Cardinality(Answered(c)) \in Nat
<1>1. Answered(c) \subseteq Dispatchers
  BY DEF Answered
<1> QED
  BY <1>1, OutboxAssumption, FS_Subset, FS_CardinalityType

--------------------------------------------------------------------------------
(* Steps that count no POST                                                 *)

\* Where neither the answers at hand nor the counters change, the count is kept.
LEMMA CountKept ==
    ASSUME CountInv, UNCHANGED <<posts, attempts, lost>>,
           \A d \in Dispatchers :
               /\ work'[d].at = "record" <=> work[d].at = "record"
               /\ work[d].at = "record" => work'[d].current = work[d].current
    PROVE  CountInv'
<1>1. \A c \in Callbacks : Answered(c)' = Answered(c)
  BY DEF Answered
<1> QED
  BY <1>1 DEF CountInv

--------------------------------------------------------------------------------
(* The invariant, action by action                                          *)

\* No step reopens a settled row.
SettledKept ==
    \A c \in Callbacks : status[c] \in Settled =>
        status'[c] = status[c] /\ attempts'[c] = attempts[c]

\* A new row: no task has it at hand.
LEMMA CreateKeeps ==
    ASSUME IInv, TypeOK', NEW c \in Callbacks, Create(c)
    PROVE  IInv' /\ SettledKept
<1> USE OutboxAssumption DEF history
<1>1. /\ status[c] = "ABSENT"
      /\ status' = [status EXCEPT ![c] = "PENDING"]
      /\ UNCHANGED <<attempts, claim_token, age, stale, work, delivered, posts, lost, crashes>>
  BY DEF Create
<1>2. \A d \in Dispatchers : Left(d)' = Left(d)
  BY <1>1 DEF Left
<1>3. WorkInv'
  BY <1>1 DEF IInv, WorkInv
<1>4. ClaimInv'
  BY <1>1, <1>2 DEF IInv, ClaimInv, TypeOK
<1>5. AttemptsInv'
  BY <1>1 DEF IInv, AttemptsInv, AttemptIsLeft, Posting, TypeOK, Open
<1>6. DeliveryInv'
  BY <1>1 DEF IInv, DeliveryInv, SentIsDelivered, Posting, TypeOK
<1>7. CountInv'
  BY <1>1, CountKept DEF IInv
<1>8. BatchInv'
  BY <1>1, <1>2 DEF IInv, BatchInv, Posting
<1>9. SettledKept
  BY <1>1 DEF SettledKept, Settled, IInv, TypeOK
<1> QED
  BY <1>3, <1>4, <1>5, <1>6, <1>7, <1>8, <1>9 DEF IInv

\* post_payout_results starts, with one row to do that it has not claimed.
LEMMA StartPostKeeps ==
    ASSUME IInv, TypeOK', NEW d \in Dispatchers, NEW c \in Callbacks, StartPost(d, c)
    PROVE  IInv' /\ SettledKept
<1> USE OutboxAssumption DEF history, rowVars
<1>1. /\ UNCHANGED <<status, attempts, claim_token, age, stale, delivered, posts, lost, crashes>>
      /\ work[d].at = "idle"
      /\ \A e \in Dispatchers : e # d => work'[e] = work[e]
      /\ work'[d].at = "next" /\ work'[d].todo = {c} /\ work'[d].current = NoCallback
      /\ work'[d].answer = "none"
  BY DEF StartPost, IInv, TypeOK, Idle
<1>2. /\ \A e \in Dispatchers : e # d => Left(e)' = Left(e)
      /\ Left(d) = {} /\ Left(d)' = {c}
  BY <1>1 DEF Left, IInv, WorkInv
<1>3. WorkInv'
  BY <1>1 DEF IInv, WorkInv
<1>4. ClaimInv'
  BY <1>1, <1>2 DEF IInv, ClaimInv
<1>5. AttemptsInv'
  BY <1>1 DEF IInv, AttemptsInv, AttemptIsLeft, Posting
<1>6. DeliveryInv'
  BY <1>1 DEF IInv, DeliveryInv, SentIsDelivered, Posting
<1>7. CountInv'
  BY <1>1, CountKept DEF IInv
<1>8. BatchInv'
  <2>1. Cardinality(Left(d)') = 1
    BY <1>2, FS_Singleton
  <2>2. \A b \in Callbacks : claim_token[b] # d
    BY <1>2 DEF IInv, ClaimInv
  <2> QED
    BY <1>1, <1>2, <2>1, <2>2 DEF IInv, BatchInv, Posting
<1>9. SettledKept
  BY <1>1 DEF SettledKept
<1> QED
  BY <1>3, <1>4, <1>5, <1>6, <1>7, <1>8, <1>9 DEF IInv

\* A batch is claimed: its rows had no living owner, or one that has outlived its claim.
LEMMA StartSweepKeeps ==
    ASSUME IInv, TypeOK', NEW d \in Dispatchers, StartSweep(d)
    PROVE  IInv' /\ SettledKept
<1> USE OutboxAssumption DEF history, rowVars
<1>1. PICK batch \in SUBSET Callbacks :
          /\ DueBatch(batch)
          /\ ClaimRows(d, batch)
          /\ work' = [work EXCEPT ![d] = [Idle EXCEPT !.at = "next", !.todo = batch]]
  BY DEF StartSweep
<1> DEFINE new == [Idle EXCEPT !.at = "next", !.todo = batch]
<1>a. /\ work[d].at = "idle"
      /\ UNCHANGED <<delivered, posts, lost, crashes>>
  BY DEF StartSweep
<1>b. /\ new.at = "next" /\ new.todo = batch /\ new.current = NoCallback /\ new.answer = "none"
  BY DEF Idle
<1>c. work'[d] = new /\ \A e \in Dispatchers : e # d => work'[e] = work[e]
  BY <1>1 DEF IInv, TypeOK
<1>2. /\ UNCHANGED <<attempts, delivered, posts, lost, crashes>>
      /\ work[d].at = "idle"
      /\ \A e \in Dispatchers : e # d => work'[e] = work[e]
      /\ work'[d].at = "next" /\ work'[d].todo = batch /\ work'[d].current = NoCallback
      /\ work'[d].answer = "none"
      /\ stale' = stale \ batch
      /\ \A c \in Callbacks \ batch :
            status'[c] = status[c] /\ claim_token'[c] = claim_token[c] /\ age'[c] = age[c]
      /\ \A c \in batch :
            /\ Claimable(c)
            /\ status'[c] = "DISPATCHING" /\ claim_token'[c] = d /\ age'[c] = 0
  BY <1>1, <1>a, <1>b, <1>c DEF ClaimRows, DueBatch
<1>3. /\ \A e \in Dispatchers : e # d => Left(e)' = Left(e)
      /\ Left(d) = {} /\ Left(d)' = batch
  BY <1>2 DEF Left, IInv, WorkInv
<1>4. WorkInv'
  BY <1>2 DEF IInv, WorkInv
<1>5. ClaimInv'
  BY <1>2, <1>3 DEF IInv, ClaimInv
<1>6. AttemptsInv'
  BY <1>2 DEF IInv, AttemptsInv, AttemptIsLeft, Posting, Claimable, Open
<1>7. DeliveryInv'
  BY <1>2 DEF IInv, DeliveryInv, SentIsDelivered, Posting
<1>8. CountInv'
  BY <1>2, CountKept DEF IInv
<1>9. BatchInv'
  <2> SUFFICES ASSUME Limit <= PostsPerTTL
               PROVE  \A e \in Dispatchers :
                        /\ Cardinality(Left(e)') <= Limit
                        /\ \A c \in Callbacks :
                              /\ claim_token'[c] = e =>
                                    c \notin stale' /\ age'[c] + Cardinality(Left(e)') <= Limit
                              /\ Posting(e, c)' => claim_token'[c] = e
    BY DEF BatchInv
  <2>1. Cardinality(batch) \in Nat /\ Cardinality(batch) <= Limit
    BY <1>1, FS_Subset, FS_CardinalityType DEF DueBatch
  <2>2. \A c \in batch, e \in Dispatchers : claim_token[c] # e
    BY <1>2 DEF Claimable, IInv, BatchInv, ClaimInv
  <2>3. \A c \in Callbacks : claim_token[c] # d
    BY <1>3 DEF IInv, ClaimInv
  <2>4. \A e \in Dispatchers : e # d =>
            /\ Cardinality(Left(e)) <= Limit
            /\ \A c \in Callbacks :
                  /\ claim_token[c] = e =>
                        c \notin stale /\ age[c] + Cardinality(Left(e)) <= Limit
                  /\ Posting(e, c) => claim_token[c] = e
    BY DEF IInv, BatchInv
  <2>5. ASSUME NEW e \in Dispatchers, e # d
        PROVE  /\ Cardinality(Left(e)') <= Limit
               /\ \A c \in Callbacks :
                     /\ claim_token'[c] = e =>
                           c \notin stale' /\ age'[c] + Cardinality(Left(e)') <= Limit
                     /\ Posting(e, c)' => claim_token'[c] = e
    BY <1>2, <1>3, <2>2, <2>4, <2>5 DEF Posting
  <2>6. \A c \in Callbacks :
            /\ claim_token'[c] = d =>
                  c \notin stale' /\ age'[c] + Cardinality(batch) <= Limit
            /\ ~Posting(d, c)'
    BY <1>2, <2>1, <2>3 DEF Posting
  <2> QED
    BY <1>3, <2>1, <2>5, <2>6
<1>10. SettledKept
  BY <1>2 DEF SettledKept, Settled, Claimable
<1> QED
  BY <1>4, <1>5, <1>6, <1>7, <1>8, <1>9, <1>10 DEF IInv

\* A task moves on in its batch without touching a row: it takes up a row, is about to
\* post one that it owns, or leaves one alone that it does not.
LEMMA MoveKeeps ==
    ASSUME IInv, TypeOK', NEW d \in Dispatchers, NEW rest \in SUBSET Callbacks,
           UNCHANGED <<rowVars, history>>,
           \A e \in Dispatchers : e # d => work'[e] = work[e],
           work[d].at \in {"next", "claim"},
           work'[d].at \in {"next", "claim", "post"},
           work'[d].todo = rest, rest \subseteq work[d].todo,
           work'[d].answer = "none",
           work'[d].at = "next" => work'[d].current = NoCallback,
           work'[d].at # "next" =>
               work'[d].current \in Callbacks \ rest /\ work'[d].current \in Left(d),
           work'[d].at = "post" =>
               OwnsClaim(d, work'[d].current) /\ work'[d].seen = attempts[work'[d].current],
           work'[d].at = "claim" => claim_token[work'[d].current] # d,
           \A c \in Callbacks : claim_token[c] = d => c \in Left(d)'
    PROVE  IInv' /\ SettledKept
<1> USE OutboxAssumption DEF history, rowVars
<1>1. /\ Left(d)' \subseteq Left(d)
      /\ \A e \in Dispatchers : e # d => Left(e)' = Left(e)
  BY DEF Left, IInv, WorkInv
<1>2. WorkInv'
  BY DEF IInv, WorkInv
<1>3. ClaimInv'
  BY <1>1 DEF IInv, ClaimInv
<1>4. AttemptsInv'
  BY DEF IInv, AttemptsInv, AttemptIsLeft, Posting
<1>5. DeliveryInv'
  BY DEF IInv, DeliveryInv, SentIsDelivered, Posting
<1>6. CountInv'
  <2>1. \A e \in Dispatchers :
            /\ work'[e].at = "record" <=> work[e].at = "record"
            /\ work[e].at = "record" => work'[e].current = work[e].current
    OBVIOUS
  <2> QED
    BY <2>1, CountKept DEF IInv
<1>7. BatchInv'
  <2> SUFFICES ASSUME Limit <= PostsPerTTL, NEW e \in Dispatchers
               PROVE  /\ Cardinality(Left(e)') <= Limit
                      /\ \A c \in Callbacks :
                            /\ claim_token[c] = e =>
                                  c \notin stale /\ age[c] + Cardinality(Left(e)') <= Limit
                            /\ Posting(e, c)' => claim_token[c] = e
    BY DEF BatchInv
  <2>1. /\ Cardinality(Left(e)) <= Limit
        /\ \A c \in Callbacks :
              /\ claim_token[c] = e =>
                    c \notin stale /\ age[c] + Cardinality(Left(e)) <= Limit
              /\ Posting(e, c) => claim_token[c] = e
    BY DEF IInv, BatchInv
  <2>2. CASE e # d
    BY <1>1, <2>1, <2>2 DEF Posting
  <2>3. CASE e = d
    <3>1. /\ Cardinality(Left(d)') <= Cardinality(Left(d))
          /\ Cardinality(Left(d)') \in Nat /\ Cardinality(Left(d)) \in Nat
      BY <1>1, LeftFinite, FS_Subset, FS_CardinalityType DEF IInv
    <3>2. \A c \in Callbacks : age[c] \in Nat
      BY DEF IInv, TypeOK
    <3> QED
      BY <2>1, <2>3, <3>1, <3>2 DEF Posting, OwnsClaim
  <2> QED
    BY <2>2, <2>3
<1>8. SettledKept
  BY DEF SettledKept
<1> QED
  BY <1>2, <1>3, <1>4, <1>5, <1>6, <1>7, <1>8 DEF IInv

\* The row is read: posted if its token is ours, claimed if it is PENDING, else skipped.
LEMMA ReadRowKeeps ==
    ASSUME IInv, TypeOK', NEW d \in Dispatchers, ReadRow(d)
    PROVE  IInv' /\ SettledKept
<1>1. PICK c \in work[d].todo :
          LET w == [work[d] EXCEPT !.todo = @ \ {c}]
          IN  CASE status[c] = "PENDING" ->
                     work' = [work EXCEPT ![d] = [w EXCEPT !.at = "claim", !.current = c]]
                [] status[c] = "DISPATCHING" /\ claim_token[c] = d -> Send(d, c, w)
                [] OTHER -> Skip(d, w)
  BY DEF ReadRow
<1> DEFINE w == [work[d] EXCEPT !.todo = @ \ {c}]
           rest == work[d].todo \ {c}
<1>2. /\ work[d].at = "next" /\ work[d].answer = "none" /\ work[d].current = NoCallback
      /\ c \in Callbacks /\ rest \subseteq Callbacks /\ w \in Work /\ work[d] \in Work
      /\ w.todo = rest /\ w.at = "next" /\ w.answer = "none" /\ w.current = NoCallback
  BY DEF ReadRow, IInv, WorkInv, TypeOK, Work
<1>3. /\ UNCHANGED <<rowVars, history>>
      /\ Left(d) = work[d].todo
  BY <1>2, OutboxAssumption DEF ReadRow, Left
<1>4. CASE work' = [work EXCEPT ![d] = [w EXCEPT !.at = "claim", !.current = c]] /\ status[c] = "PENDING"
  <2>1. /\ work'[d].at = "claim" /\ work'[d].current = c /\ work'[d].todo = rest
        /\ work'[d].answer = "none"
        /\ \A e \in Dispatchers : e # d => work'[e] = work[e]
    BY <1>2, <1>4 DEF IInv, TypeOK, Work
  <2>2. Left(d)' = Left(d)
    BY <1>2, <1>3, <2>1 DEF Left
  <2> HIDE DEF rest, w
  <2>3. rest \subseteq work[d].todo /\ c \in Callbacks \ rest
    BY <1>2 DEF rest
  <2>4. claim_token[c] # d
    BY <1>2, <1>4, OutboxAssumption DEF IInv, ClaimInv
  <2> QED
    BY <1>2, <1>3, <2>1, <2>2, <2>3, <2>4, MoveKeeps DEF IInv, ClaimInv
<1>5. CASE Send(d, c, w) /\ status[c] = "DISPATCHING" /\ claim_token[c] = d
  <2>1. /\ work'[d].at = "post" /\ work'[d].current = c /\ work'[d].todo = rest
        /\ work'[d].answer = "none" /\ work'[d].seen = attempts[c]
        /\ \A e \in Dispatchers : e # d => work'[e] = work[e]
    BY <1>2, <1>5 DEF IInv, TypeOK, Work, Send
  <2>2. Left(d)' = Left(d)
    BY <1>2, <1>3, <2>1 DEF Left
  <2>3. OwnsClaim(d, c)
    BY <1>5 DEF OwnsClaim
  <2> HIDE DEF rest, w
  <2>4. rest \subseteq work[d].todo /\ c \in Callbacks \ rest
    BY <1>2 DEF rest
  <2> QED
    BY <1>2, <1>3, <2>1, <2>2, <2>3, <2>4, MoveKeeps DEF IInv, ClaimInv
<1>6. CASE Skip(d, w) /\ ~(status[c] = "DISPATCHING" /\ claim_token[c] = d)
  <2>1. /\ work'[d].at = "next" /\ work'[d].current = NoCallback /\ work'[d].todo = rest
        /\ work'[d].answer = "none"
        /\ \A e \in Dispatchers : e # d => work'[e] = work[e]
    BY <1>2, <1>6 DEF IInv, TypeOK, Work, Skip
  <2>2. Left(d)' = rest /\ claim_token[c] # d
    BY <1>2, <1>6, <2>1, OutboxAssumption DEF Left, IInv, ClaimInv
  <2>3. \A b \in Callbacks : claim_token[b] = d => b \in Left(d)'
    BY <1>3, <2>2 DEF IInv, ClaimInv
  <2> HIDE DEF rest, w
  <2>4. rest \subseteq work[d].todo
    BY DEF rest
  <2> QED
    BY <1>2, <1>3, <2>1, <2>3, <2>4, MoveKeeps
<1> QED
  BY <1>1, <1>4, <1>5, <1>6

\* One row is claimed and posted at once, or left to whoever has it.
LEMMA ClaimRowKeeps ==
    ASSUME IInv, TypeOK', NEW d \in Dispatchers, ClaimRow(d)
    PROVE  IInv' /\ SettledKept
<1> USE OutboxAssumption DEF history, rowVars
<1> DEFINE c == work[d].current
           rest == work[d].todo
<1>1. /\ work[d].at = "claim" /\ work[d].answer = "none" /\ work[d] \in Work
      /\ c \in Callbacks \ rest /\ rest \subseteq Callbacks
      /\ Left(d) = rest \cup {c}
      /\ UNCHANGED <<messages, delivered, posts, lost, crashes>>
  BY DEF ClaimRow, IInv, WorkInv, TypeOK, Work, Left
<1>2. CASE Claimable(c) /\ ClaimRows(d, {c}) /\ Send(d, c, work[d])
  <2>1. /\ \A e \in Dispatchers : e # d => work'[e] = work[e]
        /\ work'[d].at = "post" /\ work'[d].todo = rest /\ work'[d].current = c
        /\ work'[d].answer = "none" /\ work'[d].seen = attempts[c]
    BY <1>1, <1>2 DEF Send, IInv, TypeOK, Work
  <2>2. /\ attempts' = attempts
        /\ stale' = stale \ {c}
        /\ \A b \in Callbacks : b # c =>
              status'[b] = status[b] /\ claim_token'[b] = claim_token[b] /\ age'[b] = age[b]
        /\ status'[c] = "DISPATCHING" /\ claim_token'[c] = d /\ age'[c] = 0
    BY <1>1, <1>2 DEF ClaimRows
  <2> HIDE DEF c, rest
  <2>3. /\ Left(d)' = Left(d)
        /\ \A e \in Dispatchers : e # d => Left(e)' = Left(e)
    BY <1>1, <2>1 DEF Left
  <2>4. WorkInv'
    BY <1>1, <2>1 DEF IInv, WorkInv
  <2>5. ClaimInv'
    <3>1. \A b \in Callbacks, e \in Dispatchers :
              work'[e].at = "claim" /\ work'[e].current = b => claim_token'[b] # e
      BY <1>1, <2>1, <2>2 DEF IInv, ClaimInv
    <3>2. \A b \in Callbacks : status'[b] = "DISPATCHING" <=> claim_token'[b] # NoToken
      BY <1>1, <2>2 DEF IInv, ClaimInv
    <3>3. \A b \in Callbacks, e \in Dispatchers : claim_token'[b] = e => b \in Left(e)'
      BY <1>1, <2>2, <2>3 DEF IInv, ClaimInv
    <3> QED
      BY <3>1, <3>2, <3>3 DEF ClaimInv
  <2>6. AttemptsInv'
    BY <1>1, <1>2, <2>1, <2>2 DEF IInv, AttemptsInv, AttemptIsLeft, Posting, Claimable, Open
  <2>7. DeliveryInv'
    BY <1>1, <2>1, <2>2 DEF IInv, DeliveryInv, SentIsDelivered, Posting
  <2>8. CountInv'
    <3>1. \A e \in Dispatchers :
              /\ work'[e].at = "record" <=> work[e].at = "record"
              /\ work[e].at = "record" => work'[e].current = work[e].current
      BY <1>1, <2>1
    <3> QED
      BY <1>1, <2>2, <3>1, CountKept DEF IInv
  <2>9. BatchInv'
    <3> SUFFICES ASSUME Limit <= PostsPerTTL, NEW e \in Dispatchers
                 PROVE  /\ Cardinality(Left(e)') <= Limit
                        /\ \A b \in Callbacks :
                              /\ claim_token'[b] = e =>
                                    b \notin stale' /\ age'[b] + Cardinality(Left(e)') <= Limit
                              /\ Posting(e, b)' => claim_token'[b] = e
      BY DEF BatchInv
    <3>1. /\ Cardinality(Left(e)) <= Limit /\ Cardinality(Left(e)) \in Nat
          /\ \A b \in Callbacks :
                /\ claim_token[b] = e =>
                      b \notin stale /\ age[b] + Cardinality(Left(e)) <= Limit
                /\ Posting(e, b) => claim_token[b] = e
      BY LeftFinite DEF IInv, BatchInv
    <3>2. e # d => claim_token[c] # e
      BY <1>1, <1>2, <3>1 DEF Claimable, IInv, ClaimInv
    <3>3. CASE e # d
      BY <1>1, <2>1, <2>2, <2>3, <3>1, <3>2, <3>3 DEF Posting
    <3>4. CASE e = d
      <4>1. \A b \in Callbacks : Posting(d, b)' => b = c
        BY <2>1 DEF Posting
      <4>2. /\ claim_token'[c] = d /\ c \notin stale' /\ age'[c] = 0
            /\ Cardinality(Left(d)') = Cardinality(Left(d))
        BY <2>2, <2>3
      <4>3. \A b \in Callbacks : b # c /\ claim_token'[b] = d =>
                b \notin stale' /\ age'[b] + Cardinality(Left(d)') <= Limit
        BY <2>2, <3>1, <3>4, <4>2
      <4> QED
        BY <3>1, <3>4, <4>1, <4>2, <4>3
    <3> QED
      BY <3>3, <3>4
  <2>10. SettledKept
    BY <1>1, <1>2, <2>2 DEF SettledKept, Settled, Claimable
  <2> QED
    BY <2>4, <2>5, <2>6, <2>7, <2>8, <2>9, <2>10 DEF IInv
<1>3. CASE ~Claimable(c) /\ Skip(d, work[d]) /\ UNCHANGED rowVars
  <2>1. /\ work'[d].at = "next" /\ work'[d].current = NoCallback /\ work'[d].todo = rest
        /\ work'[d].answer = "none"
        /\ \A e \in Dispatchers : e # d => work'[e] = work[e]
    BY <1>1, <1>3 DEF IInv, TypeOK, Work, Skip
  <2>2. Left(d)' = rest
    BY <1>1, <2>1 DEF Left
  <2>3. claim_token[c] # d
    BY <1>1 DEF IInv, ClaimInv
  <2>4. \A b \in Callbacks : claim_token[b] = d => b \in Left(d)'
    BY <1>1, <2>2, <2>3 DEF IInv, ClaimInv
  <2> HIDE DEF c, rest
  <2>5. UNCHANGED <<rowVars, history>>
    BY <1>1, <1>3
  <2>6. rest \subseteq work[d].todo
    BY DEF rest
  <2> QED
    BY <1>1, <2>1, <2>4, <2>5, <2>6, MoveKeeps
<1> QED
  BY <1>2, <1>3 DEF ClaimRow

\* The POST goes out.
LEMMA PostKeeps ==
    ASSUME IInv, TypeOK', NEW d \in Dispatchers, Post(d)
    PROVE  IInv' /\ SettledKept
<1> USE OutboxAssumption DEF history, rowVars
<1>0. PICK c \in Callbacks : c = work[d].current
  BY DEF Post, IInv, WorkInv
<1>1. /\ work[d].at = "post" /\ work[d].answer = "none" /\ work[d] \in Work
      /\ c \in Callbacks \ work[d].todo
      /\ posts' = [posts EXCEPT ![c] = @ + 1]
      /\ UNCHANGED <<rowVars, messages, lost, crashes>>
  BY <1>0 DEF Post, IInv, WorkInv, TypeOK
<1>2. PICK a \in {"ok", "error"} :
          /\ work' = [work EXCEPT ![d] = [work[d] EXCEPT !.at = "record", !.answer = a]]
          /\ a = "ok" => delivered' = delivered \cup {c}
          /\ delivered \subseteq delivered'
  <2>1. work[d].current \in Callbacks /\ work \in [Dispatchers -> Work]
    BY <1>0 DEF IInv, TypeOK
  <2>2. \A a : [work EXCEPT ![d].at = "record", ![d].answer = a] =
                  [work EXCEPT ![d] = [work[d] EXCEPT !.at = "record", !.answer = a]]
    BY <2>1
  <2>3. CASE /\ delivered' = delivered \cup {work[d].current}
             /\ \E a \in {"ok", "error"} : work' = [work EXCEPT ![d].at = "record", ![d].answer = a]
    BY <1>0, <2>2, <2>3
  <2>4. CASE /\ work' = [work EXCEPT ![d].at = "record", ![d].answer = "error"]
             /\ UNCHANGED delivered
    BY <2>2, <2>4
  <2> QED
    BY <2>3, <2>4 DEF Post
<1>3. /\ \A e \in Dispatchers : e # d => work'[e] = work[e]
      /\ work'[d].at = "record" /\ work'[d].current = c /\ work'[d].todo = work[d].todo
      /\ work'[d].seen = work[d].seen /\ work'[d].answer = a
  BY <1>0, <1>1, <1>2 DEF IInv, TypeOK, Work
<1>c. \A b \in Callbacks : Posting(d, b) <=> b = c
  BY <1>0, <1>1 DEF Posting
<1>4. /\ \A e \in Dispatchers : Left(e)' = Left(e)
      /\ \A e \in Dispatchers, b \in Callbacks : Posting(e, b)' <=> Posting(e, b)
  BY <1>0, <1>1, <1>3, <1>c DEF Left, Posting
<1>5. WorkInv'
  BY <1>0, <1>1, <1>3 DEF IInv, WorkInv
<1>6. ClaimInv'
  BY <1>1, <1>3, <1>4 DEF IInv, ClaimInv
<1>7. AttemptsInv'
  BY <1>1, <1>3, <1>4 DEF IInv, AttemptsInv, AttemptIsLeft
<1>8. DeliveryInv'
  <2>1. SentIsDelivered'
    BY <1>1, <1>2 DEF IInv, DeliveryInv, SentIsDelivered
  <2>2. \A e \in Dispatchers, b \in Callbacks :
            Posting(e, b)' /\ work'[e].answer = "ok" => b \in delivered'
    BY <1>2, <1>3, <1>4, <1>c DEF IInv, DeliveryInv
  <2> QED
    BY <2>1, <2>2 DEF DeliveryInv
<1>9. CountInv'
  <2>1. /\ Answered(c)' = Answered(c) \cup {d}
        /\ d \notin Answered(c)
        /\ \A b \in Callbacks : b # c => Answered(b)' = Answered(b)
    BY <1>0, <1>1, <1>3 DEF Answered
  <2>2. Cardinality(Answered(c)') = Cardinality(Answered(c)) + 1
    <3>1. IsFiniteSet(Answered(c))
      BY AnsweredFinite
    <3>2. Cardinality(Answered(c) \cup {d}) = Cardinality(Answered(c)) + 1
      BY <2>1, <3>1, FS_AddElement
    <3> QED
      BY <2>1, <3>2
  <2>3. /\ posts'[c] = posts[c] + 1
        /\ \A b \in Callbacks : b # c => posts'[b] = posts[b]
    BY <1>1 DEF IInv, TypeOK
  <2>4. ASSUME NEW b \in Callbacks
        PROVE  posts'[b] = attempts'[b] + lost'[b] + Cardinality(Answered(b)')
    <3>1. /\ posts[b] = attempts[b] + lost[b] + Cardinality(Answered(b))
          /\ posts[b] \in Nat /\ attempts[b] \in Nat /\ lost[b] \in Nat
          /\ Cardinality(Answered(b)) \in Nat
      BY AnsweredFinite DEF IInv, CountInv, TypeOK
    <3>2. CASE b = c
      BY <1>1, <2>2, <2>3, <3>1, <3>2
    <3>3. CASE b # c
      BY <1>1, <2>1, <2>3, <3>1, <3>3
    <3> QED
      BY <3>2, <3>3
  <2> QED
    BY <2>4 DEF CountInv
<1>10. BatchInv'
  BY <1>1, <1>4 DEF IInv, BatchInv
<1>11. SettledKept
  BY <1>1 DEF SettledKept
<1> QED
  BY <1>5, <1>6, <1>7, <1>8, <1>9, <1>10, <1>11 DEF IInv

\* A task is over: its rows become an orphan's, to be claimed again once their TTL ends.
LEMMA EndKeeps ==
    ASSUME IInv, TypeOK', NEW d \in Dispatchers,
           work' = [work EXCEPT ![d] = Idle],
           claim_token' = Abandoned(d),
           UNCHANGED <<status, attempts, due, before, age, stale, messages, delivered, posts>>,
           lost' = [c \in Callbacks |->
                      IF work[d].at = "record" /\ work[d].current = c THEN lost[c] + 1 ELSE lost[c]]
    PROVE  IInv' /\ SettledKept
<1> USE OutboxAssumption
<1>1. /\ \A e \in Dispatchers : e # d => work'[e] = work[e]
      /\ work'[d] = Idle
      /\ \A c \in Callbacks : /\ claim_token[c] = d => claim_token'[c] = Orphan
                              /\ claim_token[c] # d => claim_token'[c] = claim_token[c]
  BY DEF IInv, TypeOK, Abandoned
<1>2. /\ \A e \in Dispatchers : e # d => Left(e)' = Left(e)
      /\ Left(d)' = {}
  BY <1>1 DEF Left, Idle
<1>3. WorkInv'
  BY <1>1 DEF IInv, WorkInv, Idle
<1>4. ClaimInv'
  <2>1. \A c \in Callbacks, e \in Dispatchers :
            work'[e].at = "claim" /\ work'[e].current = c => claim_token'[c] # e
    BY <1>1 DEF IInv, ClaimInv, Idle
  <2>2. \A c \in Callbacks : status'[c] = "DISPATCHING" <=> claim_token'[c] # NoToken
    BY <1>1 DEF IInv, ClaimInv
  <2>3. \A c \in Callbacks, e \in Dispatchers : claim_token'[c] = e => c \in Left(e)'
    BY <1>1, <1>2 DEF IInv, ClaimInv
  <2> QED
    BY <2>1, <2>2, <2>3 DEF ClaimInv
<1>5. AttemptsInv'
  BY <1>1 DEF IInv, AttemptsInv, AttemptIsLeft, Posting, Idle
<1>6. DeliveryInv'
  BY <1>1 DEF IInv, DeliveryInv, SentIsDelivered, Posting, Idle
<1>7. CountInv'
  <2> SUFFICES ASSUME NEW c \in Callbacks
               PROVE  posts'[c] = attempts'[c] + lost'[c] + Cardinality(Answered(c)')
    BY DEF CountInv
  <2>1. /\ posts[c] = attempts[c] + lost[c] + Cardinality(Answered(c))
        /\ posts[c] \in Nat /\ attempts[c] \in Nat /\ lost[c] \in Nat
        /\ Cardinality(Answered(c)) \in Nat
    BY AnsweredFinite DEF IInv, CountInv, TypeOK
  <2>2. CASE d \in Answered(c)
    <3>1. Answered(c)' = Answered(c) \ {d}
      BY <1>1 DEF Answered, Idle
    <3>1a. IsFiniteSet(Answered(c))
      BY AnsweredFinite
    <3>2. Cardinality(Answered(c)') = Cardinality(Answered(c)) - 1
      BY <2>2, <3>1, <3>1a, FS_RemoveElement, Zenon
    <3>3. lost'[c] = lost[c] + 1
      BY <2>2 DEF Answered
    <3> QED
      BY <2>1, <3>2, <3>3
  <2>3. CASE d \notin Answered(c)
    <3>1. Answered(c)' = Answered(c)
      BY <1>1, <2>3 DEF Answered, Idle
    <3>2. lost'[c] = lost[c]
      BY <2>3 DEF Answered
    <3> QED
      BY <2>1, <3>1, <3>2
  <2> QED
    BY <2>2, <2>3
<1>8. BatchInv'
  <2>1. Cardinality(Left(d)') = 0
    BY <1>2, FS_EmptySet
  <2>2. \A c \in Callbacks : claim_token'[c] # d /\ ~Posting(d, c)'
    BY <1>1 DEF Posting, Idle
  <2>3. \A e \in Dispatchers : e # d =>
            /\ Cardinality(Left(e)') = Cardinality(Left(e))
            /\ \A c \in Callbacks : /\ claim_token'[c] = e <=> claim_token[c] = e
                                    /\ Posting(e, c)' <=> Posting(e, c)
    BY <1>1, <1>2 DEF Posting
  <2> QED
    BY <2>1, <2>2, <2>3 DEF IInv, BatchInv
<1>9. SettledKept
  BY DEF SettledKept
<1> QED
  BY <1>3, <1>4, <1>5, <1>6, <1>7, <1>8, <1>9 DEF IInv

\* The result is recorded by the task that still owns the row, and dropped by one that
\* does not.
LEMMA RecordKeeps ==
    ASSUME IInv, TypeOK', NEW d \in Dispatchers, Record(d)
    PROVE  IInv' /\ SettledKept
<1> USE OutboxAssumption DEF history, rowVars
<1>0. PICK c \in Callbacks : c = work[d].current
  BY DEF Record, IInv, WorkInv
<1>1. PICK s : s = Outcome(work[d])
  OBVIOUS
<1>2. /\ work[d].at = "record" /\ work[d] \in Work /\ c \notin work[d].todo
      /\ work' = [work EXCEPT ![d] = [Idle EXCEPT !.at = "next", !.todo = work[d].todo]]
      /\ \A b \in Callbacks :
            age'[b] = IF b # c /\ claim_token[b] = d /\ age[b] < PostsPerTTL
                      THEN age[b] + 1 ELSE age[b]
      /\ UNCHANGED <<messages, delivered, posts, crashes>>
  BY <1>0 DEF Record, IInv, WorkInv, TypeOK
<1>3. /\ \A e \in Dispatchers : e # d => work'[e] = work[e]
      /\ work'[d].at = "next" /\ work'[d].todo = work[d].todo
      /\ work'[d].current = NoCallback /\ work'[d].answer = "none"
  BY <1>2 DEF IInv, TypeOK, Idle
<1>4. /\ \A e \in Dispatchers : e # d => Left(e)' = Left(e)
      /\ Left(d) = work[d].todo \cup {c}
      /\ Left(d)' = work[d].todo
  BY <1>0, <1>2, <1>3 DEF Left, IInv, TypeOK, Work
<1>5. ASSUME attempts'[c] + lost'[c] = attempts[c] + lost[c] + 1,
             \A b \in Callbacks : b # c => attempts'[b] = attempts[b] /\ lost'[b] = lost[b]
      PROVE  CountInv'
  <2> SUFFICES ASSUME NEW b \in Callbacks
               PROVE  posts[b] = attempts'[b] + lost'[b] + Cardinality(Answered(b)')
    BY <1>2 DEF CountInv
  <2>1. /\ posts[b] = attempts[b] + lost[b] + Cardinality(Answered(b))
        /\ posts[b] \in Nat /\ attempts[b] \in Nat /\ lost[b] \in Nat
        /\ attempts'[b] \in Nat /\ lost'[b] \in Nat
        /\ Cardinality(Answered(b)) \in Nat
    BY AnsweredFinite DEF IInv, CountInv, TypeOK
  <2>2. CASE b = c
    <3>1. d \in Answered(b) /\ Answered(b)' = Answered(b) \ {d}
      BY <1>0, <1>2, <1>3, <2>2 DEF Answered
    <3>2. IsFiniteSet(Answered(b))
      BY AnsweredFinite
    <3>3. Cardinality(Answered(b) \ {d}) = Cardinality(Answered(b)) - 1
      BY <3>1, <3>2, FS_RemoveElement
    <3> QED
      BY <1>5, <2>1, <2>2, <3>1, <3>3
  <2>3. CASE b # c
    <3>1. Answered(b)' = Answered(b)
      BY <1>0, <1>2, <1>3, <2>3 DEF Answered
    <3> QED
      BY <1>5, <2>1, <2>3, <3>1
  <2> QED
    BY <2>2, <2>3
<1>6. CASE OwnsClaim(d, c)
  <2>1. /\ status'[c] = s
        /\ attempts'[c] = attempts[c] + 1
        /\ claim_token'[c] = NoToken
        /\ stale' = stale \ {c}
        /\ lost' = lost
        /\ \A b \in Callbacks : b # c => /\ status'[b] = status[b]
                                         /\ attempts'[b] = attempts[b]
                                         /\ claim_token'[b] = claim_token[b]
    BY <1>0, <1>1, <1>6 DEF Record, Counted, IInv, TypeOK
  <2>2. /\ status[c] = "DISPATCHING" /\ claim_token[c] = d
        /\ work[d].seen = attempts[c]
        /\ attempts[c] \in Nat /\ attempts[c] < MaxAttempts
    BY <1>0, <1>2, <1>6 DEF OwnsClaim, IInv, AttemptsInv, AttemptIsLeft, Posting, Open, TypeOK
  <2>3. /\ s \in {"SENT", "FAILED", "PENDING"}
        /\ s = "SENT" => c \in delivered
        /\ s = "FAILED" => attempts[c] + 1 >= MaxAttempts
        /\ s = "PENDING" => attempts[c] + 1 < MaxAttempts
    BY <1>0, <1>1, <1>2, <2>2 DEF Outcome, IInv, DeliveryInv, Posting
  <2>4. WorkInv'
    BY <1>3 DEF IInv, WorkInv
  <2>5. ClaimInv'
    <3>1. \A b \in Callbacks, e \in Dispatchers :
              work'[e].at = "claim" /\ work'[e].current = b => claim_token'[b] # e
      BY <1>3, <2>1 DEF IInv, ClaimInv
    <3>2. \A b \in Callbacks : status'[b] = "DISPATCHING" <=> claim_token'[b] # NoToken
      BY <2>1, <2>3 DEF IInv, ClaimInv
    <3>3. \A b \in Callbacks, e \in Dispatchers : claim_token'[b] = e => b \in Left(e)'
      BY <1>4, <2>1 DEF IInv, ClaimInv
    <3> QED
      BY <3>1, <3>2, <3>3 DEF ClaimInv
  <2>6. AttemptsInv'
    <3>1. AttemptIsLeft'
      BY <2>1, <2>2, <2>3 DEF IInv, AttemptsInv, AttemptIsLeft, Open
    <3>2. \A b \in Callbacks : status'[b] = "ABSENT" => attempts'[b] = 0
      BY <2>1, <2>3 DEF IInv, AttemptsInv
    <3>3. \A b \in Callbacks : attempts'[b] <= MaxAttempts
      BY <2>1, <2>2 DEF IInv, AttemptsInv
    <3>4. \A e \in Dispatchers, b \in Callbacks :
              Posting(e, b)' /\ claim_token'[b] = e => work'[e].seen = attempts'[b]
      BY <1>3, <2>1 DEF IInv, AttemptsInv, Posting
    <3> QED
      BY <3>1, <3>2, <3>3, <3>4 DEF AttemptsInv
  <2>7. DeliveryInv'
    BY <1>2, <1>3, <2>1, <2>3 DEF IInv, DeliveryInv, SentIsDelivered, Posting
  <2>8. SettledKept
    BY <2>1, <2>2 DEF SettledKept, Settled
  <2>9. attempts'[c] + lost'[c] = attempts[c] + lost[c] + 1
    BY <2>1, <2>2 DEF IInv, TypeOK
  <2>10. CountInv'
    BY <1>5, <2>1, <2>9
  <2>11. BatchInv'
    <3> SUFFICES ASSUME Limit <= PostsPerTTL, NEW e \in Dispatchers
                 PROVE  /\ Cardinality(Left(e)') <= Limit
                        /\ \A b \in Callbacks :
                              /\ claim_token'[b] = e =>
                                    b \notin stale' /\ age'[b] + Cardinality(Left(e)') <= Limit
                              /\ Posting(e, b)' => claim_token'[b] = e
      BY DEF BatchInv
    <3>1. /\ Cardinality(Left(e)) <= Limit
          /\ \A b \in Callbacks :
                /\ claim_token[b] = e =>
                      b \notin stale /\ age[b] + Cardinality(Left(e)) <= Limit
                /\ Posting(e, b) => claim_token[b] = e
      BY DEF IInv, BatchInv
    <3>2. CASE e # d
      <4>1. Left(e)' = Left(e) /\ \A b \in Callbacks : Posting(e, b)' <=> Posting(e, b)
        BY <1>3, <1>4, <3>2 DEF Posting
      <4>2. \A b \in Callbacks : claim_token[b] = e => age'[b] = age[b] /\ b # c
        BY <1>2, <2>2, <3>2
      <4>3. \A b \in Callbacks : claim_token'[b] = e => claim_token[b] = e
        BY <2>1
      <4>4. \A b \in Callbacks : Posting(e, b) => claim_token'[b] = e
        BY <2>1, <3>1, <4>2
      <4> QED
        BY <2>1, <3>1, <4>1, <4>2, <4>3, <4>4
    <3>3. CASE e = d
      <4>1. /\ Cardinality(Left(d)') = Cardinality(Left(d)) - 1
            /\ Cardinality(Left(d)) \in Nat
        <5>1. /\ IsFiniteSet(Left(d)) /\ Cardinality(Left(d)) \in Nat
              /\ c \in Left(d) /\ Left(d)' = Left(d) \ {c}
          BY <1>2, <1>4, LeftFinite DEF IInv
        <5>2. Cardinality(Left(d) \ {c}) = Cardinality(Left(d)) - 1
          BY <5>1, FS_RemoveElement
        <5> QED
          BY <5>1, <5>2
      <4>2. \A b \in Callbacks : claim_token'[b] = d =>
                /\ b # c /\ claim_token[b] = d
                /\ age'[b] <= age[b] + 1 /\ age[b] \in Nat /\ age'[b] \in Nat
        BY <1>2, <2>1 DEF IInv, TypeOK
      <4>3. \A b \in Callbacks : ~Posting(d, b)'
        BY <1>3 DEF Posting
      <4> QED
        BY <2>1, <3>1, <3>3, <4>1, <4>2, <4>3
    <3> QED
      BY <3>2, <3>3
  <2> QED
    BY <2>4, <2>5, <2>6, <2>7, <2>8, <2>10, <2>11 DEF IInv
<1>7. CASE ~OwnsClaim(d, c)
  <2>1. /\ UNCHANGED <<status, attempts, claim_token, due, before, stale>>
        /\ lost' = [lost EXCEPT ![c] = @ + 1]
    BY <1>0, <1>7 DEF Record
  <2>2. WorkInv'
    BY <1>3 DEF IInv, WorkInv
  <2>3. ClaimInv'
    <3>1. claim_token[c] # d
      BY <1>7 DEF OwnsClaim, IInv, ClaimInv
    <3> QED
      BY <1>3, <1>4, <2>1, <3>1 DEF IInv, ClaimInv
  <2>4. AttemptsInv'
    BY <1>3, <2>1 DEF IInv, AttemptsInv, AttemptIsLeft, Posting
  <2>5. DeliveryInv'
    BY <1>2, <1>3, <2>1 DEF IInv, DeliveryInv, SentIsDelivered, Posting
  <2>6. CountInv'
    BY <1>5, <2>1 DEF IInv, TypeOK
  <2>7. BatchInv'
    <3>1. ~(Limit <= PostsPerTTL)
      BY <1>0, <1>2, <1>7 DEF OwnsClaim, IInv, BatchInv, ClaimInv, Posting
    <3> QED
      BY <3>1 DEF BatchInv
  <2>8. SettledKept
    BY <2>1 DEF SettledKept
  <2> QED
    BY <2>2, <2>3, <2>4, <2>5, <2>6, <2>7, <2>8 DEF IInv
<1> QED
  BY <1>6, <1>7

\* Messages and clocks touch no task: a claim lapses only when its task has sent as many
\* POSTs as fit in the TTL, or is gone.
LEMMA TimeKeeps ==
    ASSUME IInv, TypeOK', NEW c \in Callbacks, LoseMessage(c) \/ BecomeDue(c) \/ ClaimLapse(c)
    PROVE  IInv' /\ SettledKept
<1> USE OutboxAssumption DEF history, rowVars
<1>1. /\ UNCHANGED <<status, attempts, claim_token, age, work, delivered, posts, lost>>
      /\ stale' = stale \/ (ClaimLapse(c) /\ stale' = stale \cup {c})
  BY DEF LoseMessage, BecomeDue, ClaimLapse
<1>2. /\ \A d \in Dispatchers : Left(d)' = Left(d)
      /\ \A d \in Dispatchers, b \in Callbacks : Posting(d, b)' <=> Posting(d, b)
  BY <1>1 DEF Left, Posting
<1>3. WorkInv'
  BY <1>1 DEF IInv, WorkInv
<1>4. ClaimInv'
  BY <1>1, <1>2 DEF IInv, ClaimInv
<1>5. AttemptsInv' /\ DeliveryInv'
  BY <1>1, <1>2 DEF IInv, AttemptsInv, AttemptIsLeft, DeliveryInv, SentIsDelivered
<1>6. CountInv'
  BY <1>1, CountKept DEF IInv
<1>7. BatchInv'
  <2> SUFFICES ASSUME Limit <= PostsPerTTL, NEW d \in Dispatchers, NEW b \in Callbacks,
                      claim_token[b] = d
               PROVE  b \notin stale'
    BY <1>1, <1>2 DEF IInv, BatchInv
  <2>1. /\ b \notin stale /\ age[b] + Cardinality(Left(d)) <= Limit
        /\ b \in Left(d)
    BY DEF IInv, BatchInv, ClaimInv
  <2>2. Cardinality(Left(d)) \in Nat /\ Cardinality(Left(d)) # 0
    BY <2>1, LeftFinite, FS_EmptySet DEF IInv
  <2>3. age[b] \in Nat /\ age[b] < PostsPerTTL
    BY <2>1, <2>2 DEF IInv, TypeOK
  <2>4. ~(ClaimLapse(c) /\ b = c)
    BY <2>3 DEF ClaimLapse, IInv, TypeOK
  <2> QED
    BY <1>1, <2>1, <2>4
<1>8. SettledKept
  BY <1>1 DEF SettledKept
<1> QED
  BY <1>3, <1>4, <1>5, <1>6, <1>7, <1>8 DEF IInv

--------------------------------------------------------------------------------
(* The invariant of every behaviour                                         *)

\* Nothing exists yet.
LEMMA InitInv == Init => IInv
<1> SUFFICES ASSUME Init PROVE IInv
  OBVIOUS
<1> USE OutboxAssumption
<1>1. TypeOK
  BY IdleIsWork DEF Init, TypeOK
<1>2. WorkInv /\ ClaimInv /\ AttemptsInv /\ DeliveryInv
  BY DEF Init, Idle, WorkInv, ClaimInv, AttemptsInv, AttemptIsLeft, DeliveryInv, SentIsDelivered,
         Posting, Open
<1>3. CountInv
  <2>1. \A c \in Callbacks : Answered(c) = {}
    BY DEF Init, Idle, Answered
  <2> QED
    BY <2>1, FS_EmptySet DEF Init, CountInv
<1>4. BatchInv
  <2>1. \A d \in Dispatchers : Left(d) = {}
    BY DEF Init, Idle, Left
  <2> QED
    BY <2>1, FS_EmptySet DEF Init, Idle, BatchInv, Posting
<1> QED
  BY <1>1, <1>2, <1>3, <1>4 DEF IInv

\* Every action keeps the invariant and reopens no settled row.
LEMMA InvStep == IInv /\ Next => IInv' /\ SettledKept
<1> SUFFICES ASSUME IInv, Next PROVE IInv' /\ SettledKept
  OBVIOUS
<1>0. TypeOK'
  BY TypeStep DEF IInv
<1>1. ASSUME NEW c \in Callbacks, Create(c) PROVE IInv' /\ SettledKept
  BY <1>0, <1>1, CreateKeeps
<1>2. ASSUME NEW d \in Dispatchers, NEW c \in Callbacks, StartPost(d, c)
      PROVE  IInv' /\ SettledKept
  BY <1>0, <1>2, StartPostKeeps
<1>3. ASSUME NEW d \in Dispatchers, StartSweep(d) PROVE IInv' /\ SettledKept
  BY <1>0, <1>3, StartSweepKeeps
<1>4. ASSUME NEW d \in Dispatchers, ReadRow(d) PROVE IInv' /\ SettledKept
  BY <1>0, <1>4, ReadRowKeeps
<1>5. ASSUME NEW d \in Dispatchers, ClaimRow(d) PROVE IInv' /\ SettledKept
  BY <1>0, <1>5, ClaimRowKeeps
<1>6. ASSUME NEW d \in Dispatchers, Post(d) PROVE IInv' /\ SettledKept
  BY <1>0, <1>6, PostKeeps
<1>7. ASSUME NEW d \in Dispatchers, Record(d) PROVE IInv' /\ SettledKept
  BY <1>0, <1>7, RecordKeeps
<1>8. ASSUME NEW d \in Dispatchers, Finish(d) PROVE IInv' /\ SettledKept
  <2>1. lost' = [c \in Callbacks |->
                  IF work[d].at = "record" /\ work[d].current = c THEN lost[c] + 1 ELSE lost[c]]
    BY <1>8 DEF Finish, history, IInv, TypeOK
  <2> QED
    BY <1>0, <1>8, <2>1, EndKeeps DEF Finish, history
<1>9. ASSUME NEW d \in Dispatchers, Crash(d) PROVE IInv' /\ SettledKept
  BY <1>0, <1>9, EndKeeps DEF Crash
<1>10. ASSUME NEW c \in Callbacks, LoseMessage(c) \/ BecomeDue(c) \/ ClaimLapse(c)
       PROVE  IInv' /\ SettledKept
  BY <1>0, <1>10, TimeKeeps
<1> QED
  BY <1>1, <1>2, <1>3, <1>4, <1>5, <1>6, <1>7, <1>8, <1>9, <1>10 DEF Next, TaskStep

\* The invariant is inductive.
LEMMA InvNext == IInv /\ [Next]_vars => IInv'
<1> SUFFICES ASSUME IInv, UNCHANGED vars PROVE IInv'
  BY InvStep
<1>1. TypeOK' /\ WorkInv' /\ AttemptsInv' /\ DeliveryInv'
  BY DEF vars, IInv, TypeOK, WorkInv, AttemptsInv, AttemptIsLeft, DeliveryInv,
         SentIsDelivered, Posting
<1>2. /\ \A d \in Dispatchers : Left(d)' = Left(d)
      /\ \A c \in Callbacks : Answered(c)' = Answered(c)
  BY DEF vars, Left, Answered
<1>3. ClaimInv'
  BY <1>2 DEF vars, IInv, ClaimInv
<1>4. CountInv'
  BY <1>2 DEF vars, IInv, CountInv
<1>5. BatchInv'
  BY <1>2 DEF vars, IInv, BatchInv, Posting
<1> QED
  BY <1>1, <1>3, <1>4, <1>5 DEF IInv

\* The inductive invariant holds of every behaviour of the outbox.
THEOREM Invariance == Spec => []IInv
BY InitInv, InvNext, PTL DEF Spec

--------------------------------------------------------------------------------
(* The properties                                                           *)

\* Every variable keeps its type.
THEOREM TypeCorrect == Spec => []TypeOK
<1>1. IInv => TypeOK
  BY DEF IInv
<1> QED
  BY <1>1, Invariance, PTL

\* No row waits without an attempt left, so no sweep passes it by for ever.
THEOREM NoRowIsStranded == Spec => []AttemptIsLeft
<1>1. IInv => AttemptIsLeft
  BY DEF IInv, AttemptsInv
<1> QED
  BY <1>1, Invariance, PTL

\* SENT is true.
THEOREM SentIsTrue == Spec => []SentIsDelivered
<1>1. IInv => SentIsDelivered
  BY DEF IInv, DeliveryInv
<1> QED
  BY <1>1, Invariance, PTL

\* A batch that fits into the TTL of its claim is posted by nobody else meanwhile.
THEOREM BatchesAreExclusive == Spec => []ClaimIsExclusive
<1>1. IInv => ClaimIsExclusive
  BY DEF IInv, BatchInv, ClaimIsExclusive
<1> QED
  BY <1>1, Invariance, PTL

\* The consumer sees no more POSTs than the configured attempts and those nobody recorded.
THEOREM PostsStayBounded == Spec => []PostsAreBounded
<1>1. ASSUME IInv PROVE PostsAreBounded
  <2> USE OutboxAssumption
  <2> SUFFICES ASSUME NEW c \in Callbacks
               PROVE  posts[c] <= MaxAttempts + lost[c] + Cardinality(Superseded(c))
    BY DEF PostsAreBounded
  <2>1. /\ posts[c] = attempts[c] + lost[c] + Cardinality(Answered(c))
        /\ attempts[c] \in Nat /\ lost[c] \in Nat /\ attempts[c] <= MaxAttempts
        /\ Cardinality(Answered(c)) \in Nat
        /\ IsFiniteSet(Answered(c))
    BY <1>1, AnsweredFinite DEF IInv, CountInv, TypeOK, AttemptsInv
  <2>2. CASE \E d \in Answered(c) : OwnsClaim(d, c)
    <3>1. PICK d \in Answered(c) : OwnsClaim(d, c)
      BY <2>2
    <3>2. attempts[c] < MaxAttempts
      BY <1>1, <3>1 DEF OwnsClaim, IInv, AttemptsInv, AttemptIsLeft, Open
    <3>3. Superseded(c) = Answered(c) \ {d}
      BY <3>1 DEF Superseded, Answered, OwnsClaim
    <3>4. Cardinality(Answered(c) \ {d}) = Cardinality(Answered(c)) - 1
      BY <2>1, <3>1, FS_RemoveElement
    <3> QED
      BY <2>1, <3>2, <3>3, <3>4
  <2>3. CASE ~ \E d \in Answered(c) : OwnsClaim(d, c)
    <3>1. Superseded(c) = Answered(c)
      BY <2>3 DEF Superseded, Answered
    <3> QED
      BY <2>1, <3>1
  <2> QED
    BY <2>2, <2>3
<1> QED
  BY <1>1, Invariance, PTL

\* A settled callback stays as it is.
THEOREM SettledStays == Spec => SettledIsFinal
<1>1. IInv /\ [Next]_vars =>
        [\A c \in Callbacks : status[c] \in Settled =>
            status'[c] = status[c] /\ attempts'[c] = attempts[c]]_vars
  BY InvStep DEF SettledKept
<1> QED
  BY <1>1, Invariance, PTL DEF Spec, SettledIsFinal

--------------------------------------------------------------------------------
(* The outbox implements its contract                                       *)

\* IInv says what a task knows of a row it owns; that the row at hand exists, whoever owns
\* it by now, is what makes a late POST one the contract allows.
AtHandExists ==
    \A d \in Dispatchers :
        work[d].at \in {"claim", "post", "record"} => status[work[d].current] # "ABSENT"

\* A row that exists stays.
RowsStay == \A c \in Callbacks : status[c] # "ABSENT" => status'[c] # "ABSENT"

\* Where rows stay it is enough to look at the task that moves, and at the row it takes up.
LEMMA AtHandStays ==
    ASSUME AtHandExists, WorkInv, RowsStay, NEW d \in Dispatchers,
           \A e \in Dispatchers : e # d => work'[e] = work[e],
           work'[d].at \in {"claim", "post", "record"} =>
               \/ work'[d].current \in Callbacks /\ status'[work'[d].current] # "ABSENT"
               \/ /\ work[d].at \in {"claim", "post", "record"}
                  /\ work'[d].current = work[d].current
    PROVE  AtHandExists'
BY DEF AtHandExists, WorkInv, RowsStay

\* A claim makes rows DISPATCHING and no row absent.
LEMMA ClaimStays ==
    ASSUME NEW d, NEW rows, ClaimRows(d, rows)
    PROVE  RowsStay /\ \A c \in Callbacks : c \in rows => status'[c] = "DISPATCHING"
BY DEF ClaimRows, RowsStay

LEMMA AtHandStep == TypeOK /\ WorkInv /\ AtHandExists /\ [Next]_vars => AtHandExists'
<1> SUFFICES ASSUME TypeOK, WorkInv, AtHandExists, [Next]_vars PROVE AtHandExists'
  OBVIOUS
<1> USE DEF rowVars, history
<1>0. /\ work \in [Dispatchers -> Work] /\ status \in [Callbacks -> {"ABSENT"} \cup Open \cup Settled]
      /\ \A d \in Dispatchers : work[d].todo \subseteq Callbacks
  BY DEF TypeOK, Work
<1>1. ASSUME status' = status PROVE RowsStay
  BY <1>1 DEF RowsStay
<1>2. ASSUME NEW c \in Callbacks, Create(c) \/ LoseMessage(c) \/ BecomeDue(c) \/ ClaimLapse(c)
      PROVE  AtHandExists'
  <2>1. RowsStay /\ work' = work
    BY <1>0, <1>2 DEF Create, LoseMessage, BecomeDue, ClaimLapse, RowsStay
  <2> QED
    BY <2>1 DEF RowsStay, AtHandExists, WorkInv
<1>3. ASSUME NEW d \in Dispatchers, status' = status,
             \/ \E rest : work' = [work EXCEPT ![d] = [Idle EXCEPT !.at = "next", !.todo = rest]]
             \/ work' = [work EXCEPT ![d] = Idle]
      PROVE  AtHandExists'
  <2>1. PICK new :
            /\ work' = [work EXCEPT ![d] = new]
            /\ new = Idle \/ \E rest : new = [Idle EXCEPT !.at = "next", !.todo = rest]
    BY <1>3
  <2>2. new.at \in {"idle", "next"}
    <3>1. Idle.at = "idle" /\ \A rest : [Idle EXCEPT !.at = "next", !.todo = rest].at = "next"
      BY DEF Idle
    <3> QED
      BY <2>1, <3>1
  <2>3. work'[d].at \in {"idle", "next"} /\ \A e \in Dispatchers : e # d => work'[e] = work[e]
    BY <1>0, <2>1, <2>2
  <2> QED
    BY <1>1, <1>3, <2>3, AtHandStays
<1>4. ASSUME NEW d \in Dispatchers, NEW c \in Callbacks, StartPost(d, c) PROVE AtHandExists'
  BY <1>3, <1>4 DEF StartPost
<1>5. ASSUME NEW d \in Dispatchers, Finish(d) \/ Crash(d) PROVE AtHandExists'
  BY <1>3, <1>5 DEF Finish, Crash
<1>6. ASSUME NEW d \in Dispatchers, StartSweep(d) PROVE AtHandExists'
  <2>1. PICK batch \in SUBSET Callbacks :
            /\ ClaimRows(d, batch)
            /\ work' = [work EXCEPT ![d] = [Idle EXCEPT !.at = "next", !.todo = batch]]
    BY <1>6 DEF StartSweep
  <2>2. work'[d].at = "next" /\ \A e \in Dispatchers : e # d => work'[e] = work[e]
    BY <1>0, <2>1 DEF Idle
  <2> QED
    BY <2>1, <2>2, ClaimStays, AtHandStays
<1>7. ASSUME NEW d \in Dispatchers, ReadRow(d) PROVE AtHandExists'
  <2>1. PICK c \in work[d].todo :
            LET w == [work[d] EXCEPT !.todo = @ \ {c}]
            IN  CASE status[c] = "PENDING" ->
                       work' = [work EXCEPT ![d] = [w EXCEPT !.at = "claim", !.current = c]]
                  [] status[c] = "DISPATCHING" /\ claim_token[c] = d -> Send(d, c, w)
                  [] OTHER -> Skip(d, w)
    BY <1>7 DEF ReadRow
  <2> DEFINE w == [work[d] EXCEPT !.todo = @ \ {c}]
  <2>2. w \in Work /\ c \in Callbacks /\ status' = status
    BY <1>0, <1>7, WorkMoves DEF ReadRow
  <2>3. \/ /\ work' = [work EXCEPT ![d] = [w EXCEPT !.at = "claim", !.current = c]]
           /\ status[c] # "ABSENT"
        \/ Send(d, c, w) /\ status[c] # "ABSENT"
        \/ Skip(d, w)
    BY <2>1
  <2> HIDE DEF w
  <2>4. /\ \A e \in Dispatchers : e # d => work'[e] = work[e]
        /\ \/ work'[d].current = c /\ status'[c] # "ABSENT"
           \/ work'[d].at = "next"
    <3>1. /\ [w EXCEPT !.at = "claim", !.current = c].current = c
          /\ [w EXCEPT !.at = "post", !.current = c, !.seen = attempts[c]].current = c
          /\ [w EXCEPT !.at = "next", !.current = NoCallback].at = "next"
      BY <2>2 DEF Work
    <3> QED
      BY <1>0, <2>2, <2>3, <3>1 DEF Send, Skip
  <2> QED
    BY <1>1, <2>2, <2>4, AtHandStays
<1>8. ASSUME NEW d \in Dispatchers, ClaimRow(d) PROVE AtHandExists'
  <2> DEFINE c == work[d].current
  <2>1. c \in Callbacks /\ work[d].at = "claim" /\ work[d] \in Work
    BY <1>0, <1>8 DEF ClaimRow, WorkInv
  <2>2. CASE ClaimRows(d, {c}) /\ Send(d, c, work[d])
    <3>1. RowsStay /\ status'[c] = "DISPATCHING"
      BY <2>1, <2>2, ClaimStays
    <3>2. work'[d].current = c /\ \A e \in Dispatchers : e # d => work'[e] = work[e]
      BY <1>0, <2>1, <2>2 DEF Send, Work
    <3> QED
      BY <2>1, <3>1, <3>2, AtHandStays
  <2>3. CASE Skip(d, work[d]) /\ UNCHANGED rowVars
    <3>1. work'[d].at = "next" /\ \A e \in Dispatchers : e # d => work'[e] = work[e]
      BY <1>0, <2>1, <2>3 DEF Skip, Work
    <3> QED
      BY <1>1, <2>3, <3>1, AtHandStays
  <2> QED
    BY <1>8, <2>2, <2>3 DEF ClaimRow
<1>9. ASSUME NEW d \in Dispatchers, Post(d) PROVE AtHandExists'
  <2>1. PICK a \in {"ok", "error"} : work' = [work EXCEPT ![d] = [work[d] EXCEPT !.at = "record", !.answer = a]]
    BY <1>0, <1>9 DEF Post
  <2>2. /\ work'[d].current = work[d].current /\ work[d].at = "post" /\ status' = status
        /\ \A e \in Dispatchers : e # d => work'[e] = work[e]
    BY <1>0, <1>9, <2>1 DEF Post, Work
  <2> QED
    BY <1>1, <2>2, AtHandStays
<1>10. ASSUME NEW d \in Dispatchers, Record(d) PROVE AtHandExists'
  <2>1. work[d].current \in Callbacks /\ Outcome(work[d]) # "ABSENT"
    BY <1>0, <1>10, OutcomeStatus DEF Record, WorkInv
  <2>2. RowsStay
    BY <1>0, <1>10, <2>1 DEF Record, RowsStay
  <2>3. work'[d].at = "next" /\ \A e \in Dispatchers : e # d => work'[e] = work[e]
    BY <1>0, <1>10 DEF Record, Idle
  <2> QED
    BY <2>2, <2>3, AtHandStays
<1>11. CASE UNCHANGED vars
  BY <1>11 DEF vars, AtHandExists
<1> QED
  BY <1>2, <1>4, <1>5, <1>6, <1>7, <1>8, <1>9, <1>10, <1>11 DEF Next, TaskStep

LEMMA RowsAtHandExist == Spec => []AtHandExists
<1>1. Init => AtHandExists
  BY DEF Init, Idle, AtHandExists
<1>2. IInv => TypeOK /\ WorkInv
  BY DEF IInv
<1> QED
  BY <1>1, <1>2, AtHandStep, Invariance, PTL DEF Spec

\* A step of the contract, or none.
ContractStep == [Contract!ContractNext]_Contract!contractVars

\* What the contract sees of the rows.
LEMMA StageOfRows ==
    ASSUME TypeOK, TypeOK', NEW c \in Callbacks
    PROVE  /\ StageOf(status[c]) = "absent" <=> status[c] = "ABSENT"
           /\ StageOf(status[c]) = "open" <=> status[c] \in Open
           /\ \A s : s \in Open => StageOf(s) = "open"
           /\ StageOf("SENT") = "sent" /\ StageOf("FAILED") = "given up"
BY DEF TypeOK, Open, Settled, StageOf

\* Where no stage, no counter and no delivery changes the contract sees nothing.
LEMMA Unseen ==
    ASSUME TypeOK, TypeOK', attempts' = attempts, delivered' = delivered,
           \A c \in Callbacks :
               status'[c] = status[c] \/ (status[c] \in Open /\ status'[c] \in Open)
    PROVE  ContractStep
<1>1. \A c \in Callbacks : StageOf(status'[c]) = StageOf(status[c])
  BY StageOfRows
<1>2. [c \in Callbacks |-> StageOf(status[c])]' = [c \in Callbacks |-> StageOf(status[c])]
  BY <1>1
<1> QED
  BY <1>2 DEF ContractStep, Contract!contractVars

LEMMA UnseenRows ==
    ASSUME status' = status, attempts' = attempts, delivered' = delivered
    PROVE  ContractStep
BY DEF ContractStep, Contract!contractVars

LEMMA CreateQueues ==
    ASSUME TypeOK, TypeOK', NEW c \in Callbacks, Create(c)
    PROVE  ContractStep
<1>1. /\ status[c] = "ABSENT" /\ status' = [status EXCEPT ![c] = "PENDING"]
      /\ UNCHANGED <<attempts, delivered>>
  BY DEF Create, history
<1>2. /\ StageOf(status[c]) = "absent"
      /\ [b \in Callbacks |-> StageOf(status[b])]' =
            [[b \in Callbacks |-> StageOf(status[b])] EXCEPT ![c] = "open"]
  BY <1>1, StageOfRows DEF TypeOK, Open
<1>3. Contract!Queue(c)
  BY <1>1, <1>2 DEF Contract!Queue
<1> QED
  BY <1>3 DEF ContractStep, Contract!ContractNext

\* A POST that arrives, of a row that exists.
LEMMA PostReceives ==
    ASSUME IInv, TypeOK', AtHandExists, NEW d \in Dispatchers, Post(d)
    PROVE  ContractStep
<1> DEFINE c == work[d].current
<1>1. c \in Callbacks /\ status[c] # "ABSENT" /\ UNCHANGED <<status, attempts>>
  BY DEF Post, AtHandExists, IInv, WorkInv, rowVars
<1>2. CASE delivered' = delivered
  BY <1>1, <1>2, UnseenRows
<1>3. CASE delivered' = delivered \cup {c}
  <2>1. StageOf(status[c]) # "absent"
    BY <1>1, StageOfRows DEF IInv
  <2> HIDE DEF c
  <2>2. [b \in Callbacks |-> StageOf(status[b])][c] # "absent"
    BY <1>1, <2>1
  <2>3. Contract!Receive(c)
    BY <1>1, <1>3, <2>2 DEF Contract!Receive
  <2> QED
    BY <1>1, <2>3 DEF ContractStep, Contract!ContractNext
<1> QED
  BY <1>2, <1>3 DEF Post

\* A recorded result is one attempt: of the attempts the row had when it was posted, and
\* SENT only for a row the consumer has.
LEMMA RecordAttempts ==
    ASSUME IInv, TypeOK', NEW d \in Dispatchers, Record(d)
    PROVE  ContractStep
<1> DEFINE c == work[d].current
           s == Outcome(work[d])
<1>1. c \in Callbacks /\ delivered' = delivered /\ work[d].at = "record" /\ work[d] \in Work
  BY DEF Record, IInv, WorkInv, TypeOK
<1>2. CASE ~ OwnsClaim(d, c)
  <2>1. status' = status /\ attempts' = attempts
    BY <1>2 DEF Record
  <2> QED
    BY <1>1, <2>1, UnseenRows
<1>3. CASE OwnsClaim(d, c)
  <2>1. /\ status' = [status EXCEPT ![c] = s]
        /\ attempts' = [attempts EXCEPT ![c] = attempts[c] + 1]
        /\ status[c] = "DISPATCHING" /\ claim_token[c] = d
    BY <1>1, <1>3 DEF Record, OwnsClaim, Counted, IInv, TypeOK
  <2>2. work[d].seen = attempts[c] /\ attempts[c] < MaxAttempts /\ attempts[c] \in Nat
    BY <1>1, <2>1 DEF IInv, AttemptsInv, AttemptIsLeft, Posting, Open, TypeOK
  <2>3. work[d].answer = "ok" => c \in delivered
    BY <1>1 DEF IInv, DeliveryInv, Posting
  <2>4. \/ s = "SENT" /\ c \in delivered
        \/ s = "FAILED" /\ attempts[c] + 1 = MaxAttempts
        \/ s = "PENDING" /\ attempts[c] + 1 < MaxAttempts
    BY <2>2, <2>3, OutboxAssumption DEF Outcome
  <2> HIDE DEF c, s
  <2>5. /\ [b \in Callbacks |-> StageOf(status[b])][c] = "open"
        /\ [b \in Callbacks |-> StageOf(status[b])]' =
              [[b \in Callbacks |-> StageOf(status[b])] EXCEPT ![c] = StageOf(s)]
    BY <1>1, <2>1, StageOfRows DEF IInv, TypeOK, Open
  <2>6. Contract!Attempt(c, StageOf(s))
    BY <1>1, <2>1, <2>5 DEF Contract!Attempt
  <2>7. StageOf("SENT") = "sent" /\ StageOf("FAILED") = "given up" /\ StageOf("PENDING") = "open"
    BY DEF StageOf
  <2>8. Contract!Deliver(c) \/ Contract!GiveUp(c) \/ Contract!Retry(c)
    BY <2>4, <2>6, <2>7 DEF Contract!Deliver, Contract!GiveUp, Contract!Retry
  <2> QED
    BY <1>1, <2>8 DEF ContractStep, Contract!ContractNext
<1> QED
  BY <1>2, <1>3

\* A claim takes an open row and leaves it open.
LEMMA ClaimIsUnseen ==
    ASSUME TypeOK, TypeOK', NEW d \in Dispatchers, NEW rows \in SUBSET Callbacks, ClaimRows(d, rows),
           \A c \in rows : Claimable(c), delivered' = delivered
    PROVE  ContractStep
<1>1. ASSUME NEW c \in Callbacks
      PROVE  status'[c] = status[c] \/ (status[c] \in Open /\ status'[c] \in Open)
  <2>1. status'[c] = IF c \in rows THEN "DISPATCHING" ELSE status[c]
    BY DEF ClaimRows
  <2>2. c \in rows => status[c] \in Open
    BY DEF Claimable, Open
  <2> QED
    BY <2>1, <2>2 DEF Open
<1>2. attempts' = attempts
  BY DEF ClaimRows
<1> QED
  BY <1>1, <1>2, Unseen

LEMMA StepIsAllowed == IInv /\ IInv' /\ AtHandExists /\ [Next]_vars => ContractStep
<1> SUFFICES ASSUME IInv, IInv', AtHandExists, [Next]_vars PROVE ContractStep
  OBVIOUS
<1>0. TypeOK /\ TypeOK'
  BY DEF IInv
<1>1. ASSUME UNCHANGED <<status, attempts, delivered>> PROVE ContractStep
  BY <1>1, UnseenRows
<1>2. ASSUME NEW c \in Callbacks, LoseMessage(c) \/ BecomeDue(c) \/ ClaimLapse(c) PROVE ContractStep
  BY <1>1, <1>2 DEF LoseMessage, BecomeDue, ClaimLapse, rowVars, history
<1>3. ASSUME NEW d \in Dispatchers, ReadRow(d) \/ Finish(d) \/ Crash(d) PROVE ContractStep
  BY <1>1, <1>3 DEF ReadRow, Finish, Crash, rowVars, history
<1>4. ASSUME NEW d \in Dispatchers, NEW c \in Callbacks, StartPost(d, c) PROVE ContractStep
  BY <1>1, <1>4 DEF StartPost, rowVars, history
<1>5. ASSUME NEW d \in Dispatchers, StartSweep(d) PROVE ContractStep
  BY <1>0, <1>5, ClaimIsUnseen DEF StartSweep, DueBatch, history
<1>6. ASSUME NEW d \in Dispatchers, ClaimRow(d) PROVE ContractStep
  <2>1. work[d].current \in Callbacks
    BY <1>6 DEF ClaimRow, IInv, WorkInv
  <2> QED
    BY <1>0, <1>1, <1>6, <2>1, ClaimIsUnseen DEF ClaimRow, rowVars, history
<1>7. CASE UNCHANGED vars
  BY <1>1, <1>7 DEF vars
<1> QED
  BY <1>0, <1>2, <1>3, <1>4, <1>5, <1>6, <1>7, CreateQueues, PostReceives, RecordAttempts DEF Next, TaskStep

LEMMA InitIsContractInit == Init => Contract!ContractInit
<1> SUFFICES ASSUME Init PROVE Contract!ContractInit
  OBVIOUS
<1>1. [c \in Callbacks |-> StageOf(status[c])] = [c \in Callbacks |-> "absent"]
  BY DEF Init, StageOf
<1> QED
  BY <1>1 DEF Init, Contract!ContractInit

\* Rows, claims, sweeps and crashes implement the contract: a notification is sent or given
\* up once, after attempts that are counted one by one, whichever task makes them.
THEOREM Implements == Spec => ImplementsContract
<1>1. IInv /\ IInv' /\ AtHandExists /\ [Next]_vars => [Contract!ContractNext]_Contract!contractVars
  BY StepIsAllowed DEF ContractStep
<1> QED
  BY <1>1, InitIsContractInit, Invariance, RowsAtHandExist, PTL
     DEF Spec, ImplementsContract, Contract!ContractSpec
================================================================================
