------------------------- MODULE ServerSelectionProofs -------------------------
(***************************************************************************)
(* What is proved of ServerSelection, for any number of servers, outages,   *)
(* errors, requests and restarts: every variable keeps its type, and the    *)
(* refresher's thread outlives every poll but one in whose course each      *)
(* server was out.  The property alone is not inductive: a poll is spread   *)
(* over many steps, so the invariant ties each answer that is missing to    *)
(* an outage in the course of the poll.                                     *)
(***************************************************************************)
EXTENDS ServerSelection, TLAPS

--------------------------------------------------------------------------------
(* Steps of a poller that several actions share                             *)

LEMMA RepollType ==
    ASSUME TypeOK, NEW p \in Pollers, Repoll(p)
    PROVE  /\ DOMAIN pc' = Pollers
           /\ pc'["refresher"] \in {"start", "poll", "held", "write", "ended"}
           /\ pc'["api"] \in {"idle", "poll", "held", "write"}
           /\ next' \in [Pollers -> 0..N]
           /\ seen' \in [Pollers -> [Servers -> 0..MaxBlock]]
           /\ best' \in [Pollers -> Servers]
           /\ out' \subseteq Servers
           /\ \A q \in Pollers : pc'[q] = "held" => next'[q] \in Servers
<1>1. NobodyAnswered \in [Servers -> 0..MaxBlock]
  BY SelectionAssumption DEF NobodyAnswered, NoAnswer
<1>2. 0 \in 0..N
  BY SelectionAssumption
<1>3. DOMAIN pc' = Pollers /\ next' \in [Pollers -> 0..N]
  BY <1>2 DEF TypeOK, Repoll
<1>4. seen' \in [Pollers -> [Servers -> 0..MaxBlock]] /\ best' \in [Pollers -> Servers]
  BY <1>1 DEF TypeOK, Repoll
<1>5. /\ pc'["refresher"] \in {"start", "poll", "held", "write", "ended"}
      /\ pc'["api"] \in {"idle", "poll", "held", "write"}
  BY DEF TypeOK, Repoll, Pollers
<1>6. /\ out' \subseteq Servers
      /\ \A q \in Pollers : pc'[q] = "held" => next'[q] \in Servers
  BY DEF TypeOK, Repoll
<1> QED
  BY <1>3, <1>4, <1>5, <1>6

LEMMA RaiseType ==
    ASSUME TypeOK, NEW p \in Pollers, Raise(p)
    PROVE  /\ DOMAIN pc' = Pollers
           /\ pc'["refresher"] \in {"start", "poll", "held", "write", "ended"}
           /\ pc'["api"] \in {"idle", "poll", "held", "write"}
           /\ next' \in [Pollers -> 0..N]
           /\ seen' \in [Pollers -> [Servers -> 0..MaxBlock]]
           /\ best' \in [Pollers -> Servers]
           /\ out' \subseteq Servers
           /\ \A q \in Pollers : pc'[q] = "held" => next'[q] \in Servers
<1>1. CASE Repoll(p)
  BY <1>1, RepollType
<1>2. CASE /\ pc' = [pc EXCEPT ![p] = IF p = "refresher" THEN "ended" ELSE "idle"]
           /\ UNCHANGED poll
  BY <1>2 DEF TypeOK, poll, Pollers
<1> QED
  BY <1>1, <1>2 DEF Raise

LEMMA TypeInvariance ==
    ASSUME TypeOK, [Next]_vars
    PROVE  TypeOK'
<1>1. ASSUME NEW s \in Servers, Advance(s) PROVE TypeOK'
  BY <1>1, SelectionAssumption DEF TypeOK, Advance, poll, bounds
<1>2. ASSUME NEW s \in Servers, GoDown(s) \/ Hang(s) PROVE TypeOK'
  <2>1. outages' \in 0..MaxOutages
    BY <1>2, SelectionAssumption DEF TypeOK, GoDown, Hang, Leaves
  <2>2. online' \subseteq Servers /\ hung' \subseteq Servers \ online' /\ out' \subseteq Servers
    BY <1>2 DEF TypeOK, GoDown, Hang, Leaves
  <2> QED
    BY <1>2, <2>1, <2>2 DEF TypeOK, GoDown, Hang, Leaves, bounds
<1>3. ASSUME NEW s \in Servers, GoUp(s) PROVE TypeOK'
  BY <1>3 DEF TypeOK, GoUp, poll, bounds
<1>4. ASSUME NEW s \in Servers, Change(s) PROVE TypeOK'
  BY <1>4, SelectionAssumption DEF TypeOK, Change, Updated, servers, poll
<1>5. CASE Start
  <2>1. Repoll("refresher") /\ "refresher" \in Pollers
    BY <1>5 DEF Start, Pollers
  <2> QED
    BY <1>5, <2>1, RepollType DEF TypeOK, Start, servers, bounds
<1>6. ASSUME NEW p \in Pollers, Ask(p) \/ Release(p) PROVE TypeOK'
  <2>0. /\ next[p] \in Servers
        /\ \E h \in 0..MaxBlock : Answered(p, h)
        /\ pc' = pc \/ pc' = [pc EXCEPT ![p] = "poll"]
        /\ pc'[p] = "poll"
    <3>1. CASE Ask(p)
      <4>1. next[p] \in 0..N /\ next[p] < N /\ N \in Nat
        BY <3>1, SelectionAssumption DEF TypeOK, Ask, Asking
      <4>2. next[p] \in Servers
        BY <4>1 DEF Servers
      <4>3. (IF next[p] \in online THEN at[next[p]] ELSE NoAnswer) \in 0..MaxBlock
        BY <4>2, SelectionAssumption DEF TypeOK, NoAnswer
      <4> QED
        BY <3>1, <4>2, <4>3 DEF Ask, Asking
    <3>2. CASE Release(p)
      <4>1. next[p] \in Servers
        BY <3>2 DEF TypeOK, Release
      <4>2. NoAnswer \in 0..MaxBlock /\ at[next[p]] \in 0..MaxBlock
        BY <4>1, SelectionAssumption DEF TypeOK, NoAnswer
      <4> QED
        BY <3>2, <4>1, <4>2 DEF Release, TypeOK
    <3> QED
      BY <1>6, <3>1, <3>2
  <2>1. next[p] + 1 \in 0..N
    BY <2>0, SelectionAssumption DEF Servers
  <2>2. seen' \in [Pollers -> [Servers -> 0..MaxBlock]] /\ next' \in [Pollers -> 0..N]
    BY <2>0, <2>1 DEF TypeOK, Answered
  <2>3. /\ DOMAIN pc' = Pollers
        /\ pc'["refresher"] \in {"start", "poll", "held", "write", "ended"}
        /\ pc'["api"] \in {"idle", "poll", "held", "write"}
        /\ \A q \in Pollers : pc'[q] = "held" => next'[q] \in Servers
    BY <2>0 DEF TypeOK, Answered, Pollers
  <2> QED
    BY <2>0, <2>2, <2>3 DEF TypeOK, Answered, servers, bounds
<1>13. ASSUME NEW p \in Pollers, Hold(p) PROVE TypeOK'
  <2>1. next[p] \in 0..N /\ next[p] < N /\ N \in Nat
    BY <1>13, SelectionAssumption DEF TypeOK, Hold, Asking
  <2>2. next[p] \in Servers
    BY <2>1 DEF Servers
  <2>3. /\ DOMAIN pc' = Pollers
        /\ pc'["refresher"] \in {"start", "poll", "held", "write", "ended"}
        /\ pc'["api"] \in {"idle", "poll", "held", "write"}
        /\ \A q \in Pollers : pc'[q] = "held" => next[q] \in Servers
    BY <1>13, <2>2 DEF TypeOK, Hold, Pollers
  <2> QED
    BY <1>13, <2>3 DEF TypeOK, Hold, servers, poll, bounds
<1>7. ASSUME NEW p \in Pollers, Choose(p) PROVE TypeOK'
  <2>1. CASE Raise(p)
    BY <1>7, <2>1, RaiseType DEF TypeOK, Choose, servers, bounds
  <2>2. CASE /\ \E s \in Servers : best' = [best EXCEPT ![p] = s]
             /\ pc' = [pc EXCEPT ![p] = "write"]
             /\ UNCHANGED <<next, seen, out>>
    BY <1>7, <2>2 DEF TypeOK, Choose, servers, bounds, Pollers
  <2> QED
    BY <1>7, <2>1, <2>2 DEF Choose
<1>8. ASSUME NEW p \in Pollers, Write(p) PROVE TypeOK'
  <2>1. current' \in Servers \cup {NoServer} /\ first' \in BOOLEAN
    BY <1>8 DEF TypeOK, Write, Updated
  <2>2. CASE Repoll(p)
    BY <1>8, <2>1, <2>2, RepollType DEF TypeOK, Write, servers, bounds
  <2>3. CASE p # "refresher" /\ pc' = [pc EXCEPT ![p] = "idle"] /\ UNCHANGED poll
    BY <1>8, <2>1, <2>3 DEF TypeOK, Write, servers, bounds, poll, Pollers
  <2> QED
    BY <1>8, <2>2, <2>3 DEF Write
<1>9. ASSUME NEW p \in Pollers, Error(p) PROVE TypeOK'
  <2>1. errors' \in 0..MaxErrors
    BY <1>9, SelectionAssumption DEF TypeOK, Error
  <2> QED
    BY <1>9, <2>1, RaiseType DEF TypeOK, Error, servers
<1>10. CASE SwitchToBest
  <2>1. changes' \in 0..MaxChanges
    BY <1>10, SelectionAssumption DEF TypeOK, SwitchToBest
  <2>2. Repoll("api") /\ "api" \in Pollers
    BY <1>10 DEF SwitchToBest, Pollers
  <2> QED
    BY <1>10, <2>1, <2>2, RepollType DEF TypeOK, SwitchToBest, servers
<1>11. CASE Restart
  <2>1. restarts' \in 0..MaxRestarts
    BY <1>11, SelectionAssumption DEF TypeOK, Restart
  <2>2. DOMAIN pc' = Pollers /\ pc'["refresher"] = "start" /\ pc'["api"] = "idle"
    BY <1>11 DEF Restart, Pollers
  <2>3. first' \in BOOLEAN /\ UNCHANGED <<servers, current, poll, errors, changes>>
    BY <1>11 DEF Restart
  <2>4. \A p \in Pollers : pc'[p] # "held"
    BY <2>2 DEF Pollers
  <2> QED
    BY <2>1, <2>2, <2>3, <2>4 DEF TypeOK, servers, poll
<1>12. CASE UNCHANGED vars
  BY <1>12 DEF TypeOK, vars
<1> QED
  BY <1>1, <1>2, <1>3, <1>4, <1>5, <1>6, <1>7, <1>8, <1>9, <1>10, <1>11, <1>12, <1>13
     DEF Next, PollerStep

--------------------------------------------------------------------------------
(* Outages                                                                  *)

\* A new poll of the refresher begins with what is out now; another's poll is not its own.
LEMMA RepollKnows ==
    ASSUME TypeOK, OutsAreKnown, NEW p \in Pollers, Repoll(p), online' = online
    PROVE  OutsAreKnown'
<1>1. CASE p = "refresher"
  <2>1. next'["refresher"] = 0 /\ pc'["refresher"] = "poll" /\ out' = Servers \ online
    BY <1>1 DEF Repoll, TypeOK, Pollers
  <2>2. Silent' = {}
    BY <2>1, SelectionAssumption DEF Silent, Servers
  <2> QED
    BY <2>1, <2>2 DEF OutsAreKnown
<1>2. CASE p # "refresher"
  BY <1>2 DEF Repoll, TypeOK, Pollers, OutsAreKnown, Silent
<1> QED
  BY <1>1, <1>2

\* So it is for what Raise does.
LEMMA RaiseKnows ==
    ASSUME TypeOK, OutsAreKnown, NEW p \in Pollers, Raise(p), online' = online
    PROVE  OutsAreKnown'
<1>1. CASE Repoll(p)
  BY <1>1, RepollKnows
<1>2. CASE /\ pc' = [pc EXCEPT ![p] = IF p = "refresher" THEN "ended" ELSE "idle"]
           /\ UNCHANGED poll
  BY <1>2 DEF TypeOK, poll, Pollers, OutsAreKnown, Silent
<1> QED
  BY <1>1, <1>2 DEF Raise

\* What the refresher's poll stands at does not matter before and after it.
LEMMA OutsideThePoll ==
    ASSUME OutsAreKnown, online' = online, out' = out,
           \/ pc'["refresher"] \notin {"poll", "held"}
           \/ /\ pc'["refresher"] = pc["refresher"]
              /\ next'["refresher"] = next["refresher"]
              /\ seen'["refresher"] = seen["refresher"]
    PROVE  OutsAreKnown'
BY DEF OutsAreKnown, Silent

\* A status without an answer is that of a server known to be out.
LEMMA AnswerKnows ==
    ASSUME TypeOK, TypeOK', OutsAreKnown, NEW h, Answered("refresher", h),
           pc["refresher"] \in {"poll", "held"}, pc'["refresher"] = "poll",
           next["refresher"] \in Servers, h = NoAnswer => next["refresher"] \in out
    PROVE  OutsAreKnown'
<1> DEFINE n == next["refresher"]
<1>1. n \in Nat /\ N \in Nat
  BY SelectionAssumption DEF Servers
<1>2. next'["refresher"] = n + 1 /\ online' = online /\ out' = out
  BY DEF Answered, TypeOK, Pollers, servers
<1>3. \A s \in Servers : seen'["refresher"][s] = IF s = n THEN h ELSE seen["refresher"][s]
  BY DEF Answered, TypeOK, Pollers
<1>4. \A s \in Servers : s < n + 1 /\ s # n => s < n
  BY <1>1, SelectionAssumption DEF Servers
<1>5. Silent' \subseteq out
  BY <1>2, <1>3, <1>4 DEF Silent, OutsAreKnown
<1> QED
  BY <1>2, <1>5 DEF OutsAreKnown

\* Every step of the system keeps what is known of outages.
LEMMA OutsInvariance ==
    ASSUME TypeOK, TypeOK', OutsAreKnown, [Next]_vars
    PROVE  OutsAreKnown'
<1>1. ASSUME NEW s \in Servers, Advance(s) \/ Change(s) PROVE OutsAreKnown'
  BY <1>1, OutsideThePoll DEF Advance, Change, poll, servers
<1>2. ASSUME NEW s \in Servers, GoDown(s) \/ Hang(s) PROVE OutsAreKnown'
  BY <1>2 DEF GoDown, Hang, Leaves, OutsAreKnown, Silent
<1>3. ASSUME NEW s \in Servers, GoUp(s) PROVE OutsAreKnown'
  BY <1>3 DEF GoUp, poll, OutsAreKnown, Silent
<1>4. CASE Start
  BY <1>4, RepollKnows DEF Start, servers, Pollers
<1>5. ASSUME NEW p \in Pollers, Ask(p) \/ Release(p) PROVE OutsAreKnown'
  <2>1. CASE p # "refresher"
    BY <1>5, <2>1, OutsideThePoll DEF Ask, Release, Answered, servers, TypeOK, Pollers
  <2>2. CASE p = "refresher" /\ Ask(p)
    <3>1. next[p] \in 0..N /\ next[p] < N /\ N \in Nat
      BY <2>2, SelectionAssumption DEF TypeOK, Ask, Asking
    <3>2. next[p] \in Servers
      BY <3>1 DEF Servers
    <3> DEFINE h == IF next[p] \in online THEN at[next[p]] ELSE NoAnswer
    <3>3. h = NoAnswer => next[p] \in out
      BY <3>2, SelectionAssumption DEF TypeOK, NoAnswer, OutsAreKnown
    <3>4. Answered("refresher", h) /\ pc["refresher"] = "poll" /\ pc'["refresher"] = "poll"
      BY <2>2 DEF Ask, Asking
    <3> HIDE DEF h
    <3> QED
      BY <2>2, <3>2, <3>3, <3>4, AnswerKnows
  <2>3. CASE p = "refresher" /\ Release(p)
    <3>1. next[p] \in Servers /\ next[p] \in out
      BY <2>3 DEF TypeOK, Release, OutsAreKnown
    <3>2. pc["refresher"] = "held" /\ pc'["refresher"] = "poll"
      BY <2>3 DEF Release, TypeOK
    <3> QED
      BY <2>3, <3>1, <3>2, AnswerKnows DEF Release
  <2> QED
    BY <1>5, <2>1, <2>2, <2>3
<1>6. ASSUME NEW p \in Pollers, Hold(p) PROVE OutsAreKnown'
  <2>1. CASE p # "refresher"
    BY <1>6, <2>1, OutsideThePoll DEF Hold, poll, servers, TypeOK, Pollers
  <2>2. CASE p = "refresher"
    <3>1. next[p] \in out /\ pc[p] = "poll"
      BY <1>6 DEF Hold, Asking, TypeOK, OutsAreKnown
    <3> QED
      BY <1>6, <2>2, <3>1 DEF Hold, poll, servers, OutsAreKnown, Silent
  <2> QED
    BY <2>1, <2>2
<1>7. ASSUME NEW p \in Pollers, Choose(p) PROVE OutsAreKnown'
  <2>1. CASE Raise(p)
    BY <1>7, <2>1, RaiseKnows DEF Choose, servers
  <2>2. CASE pc' = [pc EXCEPT ![p] = "write"] /\ UNCHANGED <<next, seen, out>>
    BY <1>7, <2>2, OutsideThePoll DEF Choose, servers, TypeOK, Pollers
  <2> QED
    BY <1>7, <2>1, <2>2 DEF Choose
<1>8. ASSUME NEW p \in Pollers, Write(p) PROVE OutsAreKnown'
  <2>1. CASE Repoll(p)
    BY <1>8, <2>1, RepollKnows DEF Write, servers
  <2>2. CASE p # "refresher" /\ pc' = [pc EXCEPT ![p] = "idle"] /\ UNCHANGED poll
    BY <1>8, <2>2, OutsideThePoll DEF Write, servers, poll, TypeOK, Pollers
  <2> QED
    BY <1>8, <2>1, <2>2 DEF Write
<1>9. ASSUME NEW p \in Pollers, Error(p) PROVE OutsAreKnown'
  BY <1>9, RaiseKnows DEF Error, servers
<1>10. CASE SwitchToBest
  BY <1>10, RepollKnows DEF SwitchToBest, servers, Pollers
<1>11. CASE Restart
  BY <1>11, OutsideThePoll DEF Restart, poll, servers, Pollers
<1>12. CASE UNCHANGED vars
  BY <1>12, OutsideThePoll DEF vars
<1> QED
  BY <1>1, <1>2, <1>3, <1>4, <1>5, <1>6, <1>7, <1>8, <1>9, <1>10, <1>11, <1>12
     DEF Next, PollerStep

--------------------------------------------------------------------------------
(* The refresher                                                            *)

\* A poll that ends without any answer has met an outage of each server.
LEMMA AllOfflineMeansOutages ==
    ASSUME TypeOK, OutsAreKnown, pc["refresher"] = "poll", next["refresher"] = N,
           AllOffline("refresher")
    PROVE  out = Servers
<1>1. \A s \in Servers : s < N
  BY SelectionAssumption DEF Servers
<1>2. Servers \subseteq Silent
  BY <1>1 DEF AllOffline, Silent
<1> QED
  BY <1>2 DEF OutsAreKnown, TypeOK

\* A step that does not end the thread, nor begin its next poll, keeps the property.
LEMMA GoesOn ==
    ASSUME TypeOK, RefresherOutlivesOutages,
           \/ pc'["refresher"] # "ended"
           \/ /\ pc'["refresher"] = pc["refresher"]
              /\ errors' = errors /\ out \subseteq out' /\ out' \subseteq Servers
    PROVE  RefresherOutlivesOutages'
BY DEF RefresherOutlivesOutages

\* Only Choose and Error end the thread.
LEMMA OutlivesInvariance ==
    ASSUME TypeOK, TypeOK', OutsAreKnown, RefresherOutlivesOutages, [Next]_vars
    PROVE  RefresherOutlivesOutages'
<1>0. /\ errors \in Nat /\ N \in Nat /\ errors' \in Nat
      /\ out' \subseteq Servers
  BY SelectionAssumption DEF TypeOK
<1>1. ASSUME NEW s \in Servers, Advance(s) \/ GoUp(s) \/ Change(s)
      PROVE  RefresherOutlivesOutages'
  BY <1>0, <1>1, GoesOn DEF Advance, GoUp, Change, bounds, servers, poll
<1>2. ASSUME NEW s \in Servers, GoDown(s) \/ Hang(s) PROVE RefresherOutlivesOutages'
  BY <1>0, <1>2, GoesOn DEF GoDown, Hang, Leaves, bounds
<1>3. CASE Start
  BY <1>3, GoesOn DEF Start, Repoll, TypeOK, Pollers
<1>4. ASSUME NEW p \in Pollers, Ask(p) \/ Hold(p) PROVE RefresherOutlivesOutages'
  BY <1>0, <1>4, GoesOn DEF Ask, Asking, Hold, Answered, bounds, servers, poll, TypeOK, Pollers
<1>5. ASSUME NEW p \in Pollers, Release(p) PROVE RefresherOutlivesOutages'
  BY <1>0, <1>5, GoesOn DEF Release, Answered, bounds, servers, TypeOK, Pollers
<1>6. ASSUME NEW p \in Pollers, Choose(p) PROVE RefresherOutlivesOutages'
  <2>1. CASE p # "refresher"
    <3>1. pc'["refresher"] = pc["refresher"] /\ out' = out /\ errors' = errors
      BY <1>6, <2>1 DEF Choose, Raise, Repoll, TypeOK, Pollers, poll, bounds
    <3> QED
      BY <1>0, <3>1, GoesOn
  <2>2. CASE p = "refresher" /\ N > 1 /\ AllOffline("refresher")
    <3>1. next["refresher"] \in 0..N /\ pc["refresher"] = "poll"
      BY <1>6, <2>2 DEF Choose, TypeOK, Pollers
    <3>2. next["refresher"] = N
      BY <1>0, <1>6, <2>2, <3>1 DEF Choose, Asking
    <3>3. out = Servers
      BY <3>1, <3>2, <2>2, AllOfflineMeansOutages
    <3>4. CASE first
      <4>1. Repoll("refresher")
        BY <1>6, <2>2, <3>4 DEF Choose, Raise
      <4> QED
        BY <4>1, GoesOn DEF Repoll, TypeOK, Pollers
    <3>5. CASE ~first
      <4>1. out' = out
        BY <1>6, <2>2, <3>5 DEF Choose, Raise, poll
      <4> QED
        BY <2>2, <3>3, <4>1 DEF RefresherOutlivesOutages
    <3> QED
      BY <3>4, <3>5
  <2>3. CASE p = "refresher" /\ ~(N > 1 /\ AllOffline("refresher"))
    <3>1. pc'["refresher"] = "write"
      BY <1>6, <2>3 DEF Choose, TypeOK, Pollers
    <3> QED
      BY <3>1, GoesOn
  <2> QED
    BY <2>1, <2>2, <2>3
<1>7. ASSUME NEW p \in Pollers, Write(p) PROVE RefresherOutlivesOutages'
  <2>1. CASE p = "refresher"
    BY <1>7, <2>1, GoesOn DEF Write, Repoll, TypeOK, Pollers
  <2>2. CASE p # "refresher"
    BY <1>0, <1>7, <2>2, GoesOn DEF Write, TypeOK, Pollers, poll, bounds
  <2> QED
    BY <2>1, <2>2
<1>8. ASSUME NEW p \in Pollers, Error(p) PROVE RefresherOutlivesOutages'
  BY <1>0, <1>8 DEF Error, RefresherOutlivesOutages
<1>9. CASE SwitchToBest
  BY <1>0, <1>9, GoesOn DEF SwitchToBest, Repoll, TypeOK, Pollers, servers
<1>10. CASE Restart
  BY <1>10, GoesOn DEF Restart, Pollers
<1>11. CASE UNCHANGED vars
  BY <1>11 DEF vars, RefresherOutlivesOutages
<1> QED
  BY <1>1, <1>2, <1>3, <1>4, <1>5, <1>6, <1>7, <1>8, <1>9, <1>10, <1>11 DEF Next, PollerStep

--------------------------------------------------------------------------------
(* Theorems                                                                 *)

LEMMA InitEstablishes == Init => IInv
<1> SUFFICES ASSUME Init PROVE IInv
  OBVIOUS
<1>1. TypeOK
  <2>1. NobodyAnswered \in [Servers -> 0..MaxBlock] /\ 0 \in Servers
    BY SelectionAssumption DEF NobodyAnswered, NoAnswer, Servers
  <2>2. DOMAIN pc = Pollers /\ pc["refresher"] = "start" /\ pc["api"] = "idle"
    BY DEF Init, Pollers
  <2> QED
    <3>1. /\ N \in Nat /\ 0 \in 0..N
          /\ 0 \in 0..MaxOutages /\ 0 \in 0..MaxErrors
          /\ 0 \in 0..MaxChanges /\ 0 \in 0..MaxRestarts
      BY SelectionAssumption
    <3>2. /\ next \in [Pollers -> 0..N] /\ best \in [Pollers -> Servers]
          /\ seen \in [Pollers -> [Servers -> 0..MaxBlock]]
      BY <2>1, <3>1 DEF Init
    <3> QED
      BY <2>2, <3>1, <3>2 DEF TypeOK, Init
<1>2. OutsAreKnown
  BY DEF OutsAreKnown, Init, Pollers
<1>3. RefresherOutlivesOutages
  BY DEF RefresherOutlivesOutages, Init, Pollers
<1> QED
  BY <1>1, <1>2, <1>3 DEF IInv

LEMMA StepKeeps == IInv /\ [Next]_vars => IInv'
<1> SUFFICES ASSUME IInv, [Next]_vars PROVE IInv'
  OBVIOUS
<1>1. TypeOK /\ OutsAreKnown /\ RefresherOutlivesOutages
  BY DEF IInv
<1>2. TypeOK'
  BY <1>1, TypeInvariance
<1>3. OutsAreKnown'
  BY <1>1, <1>2, OutsInvariance
<1>4. RefresherOutlivesOutages'
  BY <1>1, <1>2, OutlivesInvariance
<1> QED
  BY <1>2, <1>3, <1>4 DEF IInv

\* The inductive invariant: types, and an outage in the course of the refresher's poll for
\* each server that is out or was silent in it (get_servers_status).
THEOREM SelectionInvariant == Spec => []IInv
  BY InitEstablishes, StepKeeps, PTL DEF Spec

\* refresh_best_server's thread ends only after an error of the settings table or in a poll
\* in whose course every one of several servers was out, however the outages fall between
\* its questions.
THEOREM RefresherSurvives == Spec => []RefresherOutlivesOutages
<1>1. IInv => RefresherOutlivesOutages
  BY DEF IInv
<1> QED
  BY <1>1, SelectionInvariant, PTL
================================================================================
