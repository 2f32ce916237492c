------------------------ MODULE UsdtProvisioningProofs ------------------------
(***************************************************************************)
(* What is proved of UsdtProvisioning, for every set of calls, of           *)
(* configurations and every number of readings.  IInv is inductive: it says *)
(* what a call has asked for by the place it is at, and the three facts the *)
(* callers rest on follow from it.  NothingLeadsBack is the half of "every  *)
(* call ends" that needs no fairness: a call's own steps run out.           *)
(***************************************************************************)
EXTENDS UsdtProvisioning, TLAPS

-----------------------------------------------------------------------------
(* Types                                                                    *)

\* A chain is at most two providers long.
LEMMA ChainIsShort ==
    ASSUME TypeOK, NEW r \in Resources
    PROVE  /\ Chain(r) \in Seq(Providers)
           /\ Len(Chain(r)) \in 0..2
<1>1. config \in ConfigType
  BY ProvisioningAssumption DEF TypeOK
<1>2. config.primary[r] \in Providers \cup {"none"}
  BY <1>1 DEF ConfigType
<1>3. CASE config.primary[r] = "none"
  <2>1. Append(<<>>, "refee") = <<"refee">>
    OBVIOUS
  <2>2. Chain(r) = <<>> \/ Chain(r) = <<"refee">>
    BY <1>3, <2>1, Zenon DEF Chain
  <2>3. <<>> \in Seq(Providers) /\ Len(<<>>) = 0
    OBVIOUS
  <2>4. <<"refee">> \in Seq(Providers) /\ Len(<<"refee">>) = 1
    BY DEF Providers
  <2>5. CASE Chain(r) = <<>>
    BY <2>3, <2>5
  <2>6. CASE Chain(r) = <<"refee">>
    BY <2>4, <2>6
  <2> QED
    BY <2>2, <2>5, <2>6
<1>4. CASE config.primary[r] \in Providers
  <2> DEFINE p == config.primary[r]
  <2>1. p \in Providers /\ p # "none"
    BY <1>4 DEF Providers
  <2>2. Chain(r) = <<p>> \/ Chain(r) = Append(<<p>>, "refee")
    BY <2>1, Zenon DEF Chain
  <2> HIDE DEF p
  <2>3. <<p>> \in Seq(Providers) /\ Len(<<p>>) = 1 /\ "refee" \in Providers
    BY <2>1 DEF Providers
  <2>4. Append(<<p>>, "refee") \in Seq(Providers) /\ Len(Append(<<p>>, "refee")) = 2
    BY <2>3
  <2>5. CASE Chain(r) = <<p>>
    BY <2>3, <2>5
  <2>6. CASE Chain(r) = Append(<<p>>, "refee")
    BY <2>4, <2>6
  <2> QED
    BY <2>2, <2>5, <2>6
<1> QED
  BY <1>2, <1>3, <1>4

\* What the steps of a call leave of the types, and of the other calls.
CallTyped(c) ==
    /\ pc' \in [Calls -> {"idle"} \cup Running \cup Ended]
    /\ res' \in [Calls -> Resources] /\ pos' \in [Calls -> 0..2]
    /\ owed' \in [Calls -> SUBSET Resources] /\ tries' \in [Calls -> 0..Attempts]
    /\ failure' \in [Calls -> [accepted : BOOLEAN, temporary : BOOLEAN]]
    /\ \A d \in Calls \ {c} : /\ pc'[d] = pc[d] /\ res'[d] = res[d] /\ pos'[d] = pos[d]
                              /\ tries'[d] = tries[d] /\ failure'[d] = failure[d]

\* A call that raises forgets where it was.
LEMMA FailEnds ==
    ASSUME TypeOK, NEW c \in Calls, NEW a \in BOOLEAN, NEW t \in BOOLEAN, Fail(c, a, t)
    PROVE  /\ CallTyped(c)
           /\ pc'[c] = "failed" /\ failure'[c] = [accepted |-> a, temporary |-> t]
<1> USE ProvisioningAssumption DEF TypeOK, Fail, Forget, Goto
<1>1. /\ pc' \in [Calls -> {"idle"} \cup Running \cup Ended]
      /\ failure' \in [Calls -> [accepted : BOOLEAN, temporary : BOOLEAN]]
      /\ tries' \in [Calls -> 0..Attempts]
  BY DEF Ended
<1>2. /\ res' \in [Calls -> Resources] /\ pos' \in [Calls -> 0..2]
      /\ owed' \in [Calls -> SUBSET Resources]
  BY DEF Resources
<1> QED
  BY <1>1, <1>2 DEF CallTyped

\* So does one that is done.
LEMMA ReadyEnds ==
    ASSUME TypeOK, NEW c \in Calls, Ready(c)
    PROVE  CallTyped(c) /\ pc'[c] = "ready" /\ failure' = failure
<1> USE ProvisioningAssumption DEF TypeOK, Ready, Forget, Goto
<1>1. /\ pc' \in [Calls -> {"idle"} \cup Running \cup Ended]
      /\ tries' \in [Calls -> 0..Attempts]
  BY DEF Ended
<1>2. /\ res' \in [Calls -> Resources] /\ pos' \in [Calls -> 0..2]
      /\ owed' \in [Calls -> SUBSET Resources]
  BY DEF Resources
<1> QED
  BY <1>1, <1>2 DEF CallTyped

\* A resource that is there sends its call to the energy or to the last quote.
LEMMA AcquiredMoves ==
    ASSUME TypeOK, NEW c \in Calls, Acquired(c)
    PROVE  /\ CallTyped(c) /\ failure' = failure
           /\ \/ pc'[c] = "recheck"
              \/ /\ res[c] = "bandwidth"
                 /\ pc'[c] = "account" /\ res'[c] = "energy" /\ pos'[c] = 0
<1> USE ProvisioningAssumption DEF TypeOK
<1>0. /\ owed' = owed /\ failure' = failure /\ tries' = [tries EXCEPT ![c] = 0]
      /\ \/ /\ res[c] = "bandwidth"
            /\ res' = [res EXCEPT ![c] = "energy"] /\ pos' = [pos EXCEPT ![c] = 0]
            /\ pc' = [pc EXCEPT ![c] = "account"]
         \/ pc' = [pc EXCEPT ![c] = "recheck"] /\ res' = res /\ pos' = pos
  BY Zenon DEF Acquired, Begin, Goto, place
<1>1. /\ pc' \in [Calls -> {"idle"} \cup Running \cup Ended]
      /\ tries' \in [Calls -> 0..Attempts]
  BY <1>0 DEF Running
<1>2. /\ res' \in [Calls -> Resources] /\ pos' \in [Calls -> 0..2]
      /\ owed' \in [Calls -> SUBSET Resources]
  <2>1. owed' \in [Calls -> SUBSET Resources]
    BY <1>0
  <2>2. "energy" \in Resources
    BY DEF Resources
  <2>3. res' \in [Calls -> Resources] /\ pos' \in [Calls -> 0..2]
    <3>1. CASE res' = [res EXCEPT ![c] = "energy"] /\ pos' = [pos EXCEPT ![c] = 0]
      BY <2>2, <3>1
    <3>2. CASE res' = res /\ pos' = pos
      BY <3>2
    <3> QED
      BY <1>0, <3>1, <3>2
  <2> QED
    BY <2>1, <2>3
<1>3. \A d \in Calls \ {c} : /\ pc'[d] = pc[d] /\ res'[d] = res[d] /\ pos'[d] = pos[d]
                           /\ tries'[d] = tries[d] /\ failure'[d] = failure[d]
  BY <1>0
<1>4. failure' \in [Calls -> [accepted : BOOLEAN, temporary : BOOLEAN]]
  BY <1>0
<1>5. \/ pc'[c] = "recheck"
      \/ /\ res[c] = "bandwidth"
         /\ pc'[c] = "account" /\ res'[c] = "energy" /\ pos'[c] = 0
  BY <1>0
<1> HIDE DEF TypeOK
<1>6. CallTyped(c)
  BY <1>1, <1>2, <1>3, <1>4, Zenon DEF CallTyped
<1> QED
  BY <1>0, <1>5, <1>6

\* A provider's failure ends the call, with an accepted order in its error when
\* there was one, or sends it back to the account when there was none.
LEMMA FailWithMoves ==
    ASSUME TypeOK, NEW c \in Calls, NEW code, NEW a \in BOOLEAN, FailWith(c, code, a)
    PROVE  /\ CallTyped(c)
           /\ \/ pc'[c] = "failed" /\ failure'[c].accepted = a
              \/ ~ a /\ pc'[c] = "account" /\ res' = res /\ pos' = pos /\ failure' = failure
<1> DEFINE f == Failure(Provider(c), code, a)
<1>1. f.eligible \in BOOLEAN /\ f.accepted = a /\ f.temporary \in BOOLEAN /\ (f.eligible => ~ a)
  BY DEF Failure, ProfeeXFailure, RefeeFailure
<1>2. CASE f.eligible
  <2>1. Goto(c, "account") /\ UNCHANGED <<place, owed, tries, failure>>
    BY <1>2 DEF FailWith
  <2> QED
    BY <1>1, <1>2, <2>1 DEF TypeOK, CallTyped, Goto, place, Running
<1>3. CASE ~ f.eligible
  <2>1. Fail(c, f.accepted, f.temporary)
    BY <1>3 DEF FailWith
  <2>2. CallTyped(c) /\ pc'[c] = "failed"
        /\ failure'[c] = [accepted |-> f.accepted, temporary |-> f.temporary]
    <3> HIDE DEF f
    <3> QED
      BY <1>1, <2>1, FailEnds
  <2>3. failure'[c].accepted = f.accepted
    <3> HIDE DEF f
    <3> QED
      BY <2>2
  <2> QED
    BY <1>1, <2>2, <2>3
<1> QED
  BY <1>2, <1>3

\* A call that only changes place.
LEMMA GotoMoves ==
    ASSUME TypeOK, NEW c \in Calls, NEW label \in Running, Goto(c, label),
           UNCHANGED <<place, owed, failure>>, tries' \in [Calls -> 0..Attempts],
           \A d \in Calls \ {c} : tries'[d] = tries[d]
    PROVE  CallTyped(c) /\ pc'[c] = label
BY DEF TypeOK, CallTyped, Goto, place

-----------------------------------------------------------------------------
(* What a step of a call does to its own invariant                          *)

\* An order's name is the call's, the resource's and the place's.
LEMMA OrderNames ==
    /\ \A c \in Calls, r \in Resources, i \in Positions : <<c, r, i>> \in Orders
    /\ \A o \in Orders : o = <<o[1], o[2], o[3]>> /\ o[1] \in Calls /\ o[2] \in Resources /\ o[3] \in Positions
BY DEF Orders

\* A call that has ended, or only waits for its last quote, may have asked for anything.
LEMMA EndedIsOK ==
    ASSUME NEW c \in Calls, pc'[c] \in Ended \cup {"recheck"}
    PROVE  CallOK(c)'
BY DEF CallOK, Ended, Running

\* What a step of a call keeps: the types, the configuration, the level of the
\* account, and everything of the other calls; and what it reaches.
Kept(c) ==
    /\ CallTyped(c)
    /\ config' = config /\ level' = level /\ decays' = decays
    /\ order' \in [Orders -> {"none", "open", "active", "delegated", "failed"}]
    /\ answer' \in [Orders -> {"none", "accepted", "unclear", "refused"}]
    /\ \A o \in Orders : o[1] # c => order'[o] = order[o] /\ answer'[o] = answer[o]
    /\ CallOK(c)'

\* Without an order: it is enough to look at the call's own place.
LEMMA KeptOrders ==
    ASSUME TypeOK, NEW c \in Calls, CallTyped(c), UNCHANGED <<config, chain, rented>>, CallOK(c)'
    PROVE  Kept(c)
BY DEF Kept, chain, rented, TypeOK

LEMMA EstimateKeeps ==
    ASSUME TypeOK, NEW c \in Calls, CallOK(c), Estimate(c)
    PROVE  Kept(c)
<1>1. UNCHANGED <<config, chain, rented>> /\ pc[c] = "idle"
  BY DEF Estimate
<1>2. CASE \E t \in QuoteErrors : Fail(c, FALSE, t)
  BY <1>1, <1>2, FailEnds, EndedIsOK, KeptOrders DEF Ended, QuoteErrors
<1>3. CASE Ready(c)
  BY <1>1, <1>3, ReadyEnds, EndedIsOK, KeptOrders DEF Ended
<1>4. CASE /\ Short # {} /\ \A r \in Short : Len(Chain(r)) > 0
           /\ owed' = [owed EXCEPT ![c] = Short]
           /\ Begin(c, IF "bandwidth" \in Short THEN "bandwidth" ELSE "energy")
           /\ UNCHANGED <<tries, failure>>
  <2> DEFINE r == IF "bandwidth" \in Short THEN "bandwidth" ELSE "energy"
  <2>1. /\ r \in Short /\ r \in Resources /\ Short \subseteq Resources
        /\ (r = "bandwidth" \/ r = "energy")
    BY <1>4 DEF Short, Resources
  <2>2. /\ res' = [res EXCEPT ![c] = r]
        /\ pos' = [pos EXCEPT ![c] = IF r = "energy" THEN 0 ELSE 1]
        /\ pc' = [pc EXCEPT ![c] = IF r = "energy" THEN "account" ELSE "pre"]
    BY <1>4 DEF Begin, Goto
  <2>3. r = "bandwidth" => 1 \in 1..Len(Chain("bandwidth"))
    <3>1. r = "bandwidth" => Len(Chain("bandwidth")) > 0
      BY <1>4, <2>1
    <3> QED
      BY <2>1, <3>1, ChainIsShort
  <2> HIDE DEF r
  <2>4. CallTyped(c)
    BY <1>4, <2>1, <2>2 DEF CallTyped, TypeOK, Running, Ended
  <2>5. CASE r = "bandwidth"
    <3>1. res'[c] = "bandwidth" /\ pos'[c] = 1 /\ pc'[c] = "pre"
      BY <2>2, <2>5 DEF TypeOK
    <3>2. NothingAsked(c, "bandwidth") /\ NothingAsked(c, "energy")
      BY <1>1 DEF CallOK
    <3>3. Chain("bandwidth")' = Chain("bandwidth") /\ order' = order /\ answer' = answer
      BY <1>1 DEF Chain, rented
    <3>4. CallOK(c)'
      BY <3>1, <3>2, <3>3, <2>3, <2>5 DEF CallOK, NothingAsked, NothingAskedAfter, NothingAcceptedBefore,
         AcceptedWereServed, Order, Running, Positions
    <3> QED
      BY <1>1, <2>4, <3>4, KeptOrders
  <2>6. CASE r = "energy"
    <3>1. res'[c] = "energy" /\ pos'[c] = 0 /\ pc'[c] = "account"
      BY <2>2, <2>6 DEF TypeOK
    <3>2. NothingAsked(c, "bandwidth") /\ NothingAsked(c, "energy")
      BY <1>1 DEF CallOK
    <3>3. order' = order /\ answer' = answer
      BY <1>1 DEF rented
    <3>4. CallOK(c)'
      BY <3>1, <3>2, <3>3 DEF CallOK, NothingAsked, NothingAskedAfter, NothingAcceptedBefore,
         AcceptedWereServed, Order, Running, Positions
    <3> QED
      BY <1>1, <2>4, <3>4, KeptOrders
  <2> QED
    BY <2>1, <2>5, <2>6
<1> QED
  <2>1. Fail(c, FALSE, FALSE) => Kept(c)
    BY <1>1, FailEnds, EndedIsOK, KeptOrders DEF Ended
  <2> QED
    BY <1>2, <1>3, <1>4, <2>1 DEF Estimate

\* A provider that could be passed over leaves nothing accepted behind.
LEMMA FailWithLands ==
    ASSUME TypeOK, NEW c \in Calls, CallOK(c), pc[c] \in {"pre", "ask"},
           NEW code, NEW a \in BOOLEAN, FailWith(c, code, a), config' = config,
           \A o \in Orders : o # Order(c) => order'[o] = order[o] /\ answer'[o] = answer[o],
           a \/ answer'[Order(c)] # "accepted"
    PROVE  CallTyped(c) /\ CallOK(c)'
<1>1. /\ CallTyped(c)
      /\ \/ pc'[c] = "failed"
         \/ ~ a /\ pc'[c] = "account" /\ res' = res /\ pos' = pos
  BY FailWithMoves
<1>2. CASE pc'[c] = "failed"
  BY <1>1, <1>2, EndedIsOK DEF Ended
<1>3. CASE ~ a /\ pc'[c] = "account" /\ res' = res /\ pos' = pos
  <2>1. res[c] \in Resources /\ pos[c] \in Positions
    BY ChainIsShort DEF CallOK, TypeOK, Positions
  <2>2. \A r \in Resources, i \in Positions : <<c, r, i>> # Order(c) =>
           order'[<<c, r, i>>] = order[<<c, r, i>>] /\ answer'[<<c, r, i>>] = answer[<<c, r, i>>]
    BY OrderNames
  <2>3. \A r \in Resources, i \in Positions : r # res[c] \/ i # pos[c] => <<c, r, i>> # Order(c)
    BY DEF Order
  <2>4. Order(c)' = Order(c)
    BY <1>3 DEF Order
  <2>5. /\ NothingAskedAfter(c, res[c], pos[c]) /\ NothingAcceptedBefore(c, res[c], pos[c])
        /\ res[c] = "bandwidth" => NothingAsked(c, "energy")
        /\ res[c] = "energy" => AcceptedWereServed(c, "bandwidth")
    BY DEF CallOK, Running
  <2>6. /\ NothingAskedAfter(c, res[c], pos[c])' /\ NothingAcceptedBefore(c, res[c], pos[c])'
        /\ res[c] = "bandwidth" => NothingAsked(c, "energy")'
        /\ res[c] = "energy" => AcceptedWereServed(c, "bandwidth")'
    BY <1>3, <2>1, <2>2, <2>3, <2>5 DEF NothingAsked, NothingAskedAfter, NothingAcceptedBefore,
       AcceptedWereServed, Resources, Positions
  <2>7. CallOK(c)'
    BY <1>3, <2>4, <2>6 DEF CallOK
  <2> QED
    BY <1>1, <2>7
<1> QED
  BY <1>1, <1>2, <1>3

\* A resource that is there has its accepted orders served.
LEMMA AcquiredLands ==
    ASSUME TypeOK, NEW c \in Calls, CallOK(c), pc[c] \in {"account", "pre", "post"},
           Acquired(c), config' = config, rented' = rented
    PROVE  CallTyped(c) /\ CallOK(c)'
<1>1. /\ CallTyped(c)
      /\ \/ pc'[c] = "recheck"
         \/ res[c] = "bandwidth" /\ pc'[c] = "account" /\ res'[c] = "energy" /\ pos'[c] = 0
  BY AcquiredMoves
<1>2. CASE pc'[c] = "recheck"
  BY <1>1, <1>2, EndedIsOK
<1>3. CASE res[c] = "bandwidth" /\ pc'[c] = "account" /\ res'[c] = "energy" /\ pos'[c] = 0
  <2>1. pos[c] \in 0..2 /\ order' = order /\ answer' = answer
    BY DEF TypeOK, rented
  <2>2. /\ NothingAskedAfter(c, "bandwidth", pos[c]) /\ NothingAcceptedBefore(c, "bandwidth", pos[c])
        /\ NothingAsked(c, "energy")
    BY <1>3 DEF CallOK, Running
  <2>3. pos[c] \in Positions /\ answer[Order(c)] = "accepted" => order[Order(c)] \in Served
    BY DEF CallOK
  <2>4. Order(c) = <<c, "bandwidth", pos[c]>>
    BY <1>3 DEF Order
  <2>5. AcceptedWereServed(c, "bandwidth")
    BY <2>1, <2>2, <2>3, <2>4 DEF AcceptedWereServed, NothingAskedAfter, NothingAcceptedBefore, Positions
  <2>6. CallOK(c)'
    BY <1>3, <2>1, <2>2, <2>5 DEF CallOK, NothingAsked, NothingAskedAfter, NothingAcceptedBefore,
       AcceptedWereServed, Positions, Running
  <2> QED
    BY <1>1, <2>6
<1> QED
  BY <1>1, <1>2, <1>3

\* A call that stays at its place, with the same orders, keeps what was true there.
SamePlace(c) == config' = config /\ res' = res /\ pos' = pos /\ order' = order /\ answer' = answer

LEMMA SameFacts ==
    ASSUME NEW c \in Calls, SamePlace(c)
    PROVE  /\ Order(c)' = Order(c) /\ Chain(res[c])' = Chain(res[c])
           /\ res'[c] = res[c] /\ pos'[c] = pos[c]
           /\ answer'[Order(c)'] = answer[Order(c)] /\ order'[Order(c)'] = order[Order(c)]
           /\ NothingAskedAfter(c, res[c], pos[c])' = NothingAskedAfter(c, res[c], pos[c])
           /\ NothingAcceptedBefore(c, res[c], pos[c])' = NothingAcceptedBefore(c, res[c], pos[c])
           /\ NothingAsked(c, "bandwidth")' = NothingAsked(c, "bandwidth")
           /\ NothingAsked(c, "energy")' = NothingAsked(c, "energy")
           /\ AcceptedWereServed(c, "bandwidth")' = AcceptedWereServed(c, "bandwidth")
BY DEF SamePlace, Order, Chain, NothingAsked, NothingAskedAfter, NothingAcceptedBefore, AcceptedWereServed

LEMMA ReadAccountKeeps ==
    ASSUME TypeOK, NEW c \in Calls, CallOK(c), ReadAccount(c)
    PROVE  Kept(c)
<1>1. UNCHANGED <<config, chain, rented>> /\ pc[c] = "account"
  BY DEF ReadAccount
<1>2. CASE Fail(c, FALSE, TRUE)
  BY <1>1, <1>2, FailEnds, EndedIsOK, KeptOrders DEF Ended
<1>3. CASE Acquired(c)
  BY <1>1, <1>3, AcquiredLands, KeptOrders
<1>4. CASE /\ pos[c] < Len(Chain(res[c]))
           /\ pos' = [pos EXCEPT ![c] = pos[c] + 1] /\ Goto(c, "pre")
           /\ UNCHANGED <<res, owed, tries, failure>>
  <2>1. pos[c] \in 0..2 /\ Len(Chain(res[c])) \in 0..2 /\ res[c] \in Resources
    BY ChainIsShort DEF TypeOK
  <2>2. pc'[c] = "pre" /\ pos'[c] = pos[c] + 1 /\ res'[c] = res[c]
    BY <1>4 DEF Goto, TypeOK
  <2>2a. pos[c] + 1 \in Positions /\ pos[c] + 1 \in 0..2
    <3> DEFINE n == Len(Chain(res[c]))
    <3>1. n \in 0..2 /\ pos[c] \in 0..2 /\ pos[c] < n
      BY <1>4, <2>1
    <3> HIDE DEF n
    <3> QED
      BY <3>1 DEF Positions
  <2>3. CallTyped(c)
    BY <1>4, <2>2a DEF CallTyped, TypeOK, Goto, Running
  <2>4. Chain(res[c])' = Chain(res[c]) /\ order' = order /\ answer' = answer
    BY <1>1, <1>4 DEF Chain, rented
  <2>5. /\ NothingAskedAfter(c, res[c], pos[c]) /\ NothingAcceptedBefore(c, res[c], pos[c])
        /\ res[c] = "bandwidth" => NothingAsked(c, "energy")
        /\ res[c] = "energy" => AcceptedWereServed(c, "bandwidth")
        /\ pos[c] \in Positions => answer[<<c, res[c], pos[c]>>] # "accepted"
    BY <1>1 DEF CallOK, Running, Order
  <2>6. /\ \A i \in Positions : i > pos[c] + 1 => answer[<<c, res[c], i>>] = "none"
        /\ \A i \in Positions : i < pos[c] + 1 => answer[<<c, res[c], i>>] # "accepted"
        /\ answer[<<c, res[c], pos[c] + 1>>] = "none"
    BY <2>1, <2>2a, <2>5 DEF NothingAskedAfter, NothingAcceptedBefore, Positions
  <2>7. pos'[c] \in 1..Len(Chain(res[c])')
    <3> DEFINE n == Len(Chain(res[c]))
    <3>1. n \in 0..2 /\ pos[c] \in 0..2 /\ pos[c] < n
      BY <1>4, <2>1
    <3> HIDE DEF n
    <3>2. pos[c] + 1 \in 1..n
      BY <3>1
    <3> QED
      BY <2>2, <2>4, <3>2 DEF n
  <2>8. Order(c)' = <<c, res[c], pos[c] + 1>>
    BY <2>2 DEF Order
  <2>9. NothingAskedAfter(c, res[c], pos[c])' /\ NothingAcceptedBefore(c, res[c], pos[c])'
    BY <2>2, <2>4, <2>6 DEF NothingAskedAfter, NothingAcceptedBefore
  <2>9a. /\ res[c] = "bandwidth" => NothingAsked(c, "energy")'
         /\ res[c] = "energy" => AcceptedWereServed(c, "bandwidth")'
    BY <2>4, <2>5 DEF NothingAsked, AcceptedWereServed
  <2>9b. answer'[Order(c)'] = "none"
    BY <2>4, <2>6, <2>8
  <2>10. CallOK(c)'
    BY <2>2, <2>7, <2>9, <2>9a, <2>9b DEF CallOK
  <2> QED
    BY <1>1, <2>3, <2>10, KeptOrders
<1> QED
  BY <1>2, <1>3, <1>4, Zenon DEF ReadAccount

LEMMA PreReadKeeps ==
    ASSUME TypeOK, NEW c \in Calls, CallOK(c), PreRead(c)
    PROVE  Kept(c)
<1>1. UNCHANGED <<config, chain, rented>> /\ pc[c] = "pre" /\ order' = order /\ answer' = answer
  BY DEF PreRead, rented
<1>2. CASE Fail(c, FALSE, res[c] = "energy")
  BY <1>1, <1>2, FailEnds, EndedIsOK, KeptOrders DEF Ended
<1>3. CASE Acquired(c)
  BY <1>1, <1>3, AcquiredLands, KeptOrders
<1>4. CASE FailWith(c, "unavailable", FALSE)
  <2>1. answer[Order(c)] = "none"
    BY <1>1 DEF CallOK
  <2> QED
    BY <1>1, <1>4, <2>1, FailWithLands, KeptOrders
<1>5. CASE Goto(c, "ask") /\ UNCHANGED <<place, owed, tries, failure>>
  <2>1. CallTyped(c) /\ pc'[c] = "ask"
    BY <1>5, GotoMoves DEF TypeOK, Running
  <2>2. res' = res /\ pos' = pos
    BY <1>5 DEF place
  <2>3. SamePlace(c) /\ pc'[c] \in Running
    BY <1>1, <2>1, <2>2 DEF SamePlace, Running
  <2>4. CallOK(c)'
    BY <1>1, <2>1, <2>3, SameFacts DEF CallOK, Running
  <2> QED
    BY <1>1, <2>1, <2>4, KeptOrders
<1> QED
  BY <1>2, <1>3, <1>4, <1>5 DEF PreRead

\* The answer to an order is that of the place the call is at.
LEMMA AnsweredOnly ==
    ASSUME TypeOK, NEW c \in Calls, pos[c] \in Positions, NEW ordered \in BOOLEAN,
           NEW what \in {"accepted", "unclear", "refused"}, Answered(c, what, ordered)
    PROVE  /\ order' \in [Orders -> {"none", "open", "active", "delegated", "failed"}]
           /\ answer' \in [Orders -> {"none", "accepted", "unclear", "refused"}]
           /\ \A o \in Orders : o # Order(c) => order'[o] = order[o] /\ answer'[o] = answer[o]
           /\ \A o \in Orders : o[1] # c => o # Order(c)
           /\ answer'[Order(c)] = what
<1>1. Order(c) \in Orders /\ Order(c)[1] = c
  BY OrderNames DEF Order, TypeOK
<1>2. /\ answer' = [answer EXCEPT ![Order(c)] = what]
      /\ order' = [order EXCEPT ![Order(c)] = IF ordered THEN "open" ELSE "none"]
  BY DEF Answered
<1> HIDE DEF Order
<1>3. \A o \in Orders : o[1] # c => o # Order(c)
  BY <1>1
<1> QED
  BY <1>1, <1>2, <1>3 DEF TypeOK

LEMMA AskKeeps ==
    ASSUME TypeOK, NEW c \in Calls, CallOK(c), Ask(c)
    PROVE  Kept(c)
<1>1. /\ config' = config /\ UNCHANGED <<config, chain>> /\ pc[c] = "ask" /\ pos[c] \in Positions
      /\ level' = level /\ decays' = decays /\ res[c] \in Resources
  <2>1. pos[c] \in 1..Len(Chain(res[c])) /\ res[c] \in Resources /\ pc[c] = "ask"
    BY DEF Ask, CallOK, TypeOK
  <2>2. Len(Chain(res[c])) \in 0..2
    BY <2>1, ChainIsShort
  <2>3. pos[c] \in Positions
    <3> DEFINE n == Len(Chain(res[c]))
    <3>1. n \in 0..2 /\ pos[c] \in 1..n
      BY <2>1, <2>2
    <3> HIDE DEF n
    <3> QED
      BY <3>1 DEF Positions
  <2>4. UNCHANGED <<config, chain>>
    BY DEF Ask
  <2> QED
    BY <2>1, <2>3, <2>4 DEF chain
<1>2. ASSUME NEW what \in {"accepted", "unclear", "refused"}, NEW ordered \in BOOLEAN,
             Answered(c, what, ordered), NEW code, NEW a \in BOOLEAN, FailWith(c, code, a),
             a \/ what # "accepted"
      PROVE  Kept(c)
  <2>1. /\ order' \in [Orders -> {"none", "open", "active", "delegated", "failed"}]
        /\ answer' \in [Orders -> {"none", "accepted", "unclear", "refused"}]
        /\ \A o \in Orders : o # Order(c) => order'[o] = order[o] /\ answer'[o] = answer[o]
        /\ \A o \in Orders : o[1] # c => o # Order(c)
        /\ answer'[Order(c)] = what
    BY <1>1, <1>2, AnsweredOnly
  <2>2. CallTyped(c) /\ CallOK(c)'
    BY <1>1, <1>2, <2>1, FailWithLands
  <2> QED
    BY <1>1, <2>1, <2>2 DEF Kept
<1>3. CASE /\ Answered(c, "accepted", TRUE) /\ Goto(c, "poll")
           /\ UNCHANGED <<place, owed, tries, failure>>
  <2>1. /\ order' \in [Orders -> {"none", "open", "active", "delegated", "failed"}]
        /\ answer' \in [Orders -> {"none", "accepted", "unclear", "refused"}]
        /\ \A o \in Orders : o # Order(c) => order'[o] = order[o] /\ answer'[o] = answer[o]
        /\ \A o \in Orders : o[1] # c => o # Order(c)
        /\ answer'[Order(c)] = "accepted"
    BY <1>1, <1>3, AnsweredOnly
  <2>2. CallTyped(c) /\ pc'[c] = "poll" /\ res' = res /\ pos' = pos
    <3>1. "poll" \in Running /\ tries' \in [Calls -> 0..Attempts] /\ UNCHANGED <<place, owed, failure>>
      BY <1>3 DEF TypeOK, Running
    <3> QED
      BY <1>3, <3>1, GotoMoves DEF place
  <2>3. Order(c)' = Order(c) /\ Chain(res[c])' = Chain(res[c])
    BY <1>1, <2>2 DEF Order, Chain
  <2>4. \A r \in Resources, i \in Positions : r # res[c] \/ i # pos[c] =>
           order'[<<c, r, i>>] = order[<<c, r, i>>] /\ answer'[<<c, r, i>>] = answer[<<c, r, i>>]
    BY <2>1, OrderNames DEF Order
  <2>5. /\ NothingAskedAfter(c, res[c], pos[c]) /\ NothingAcceptedBefore(c, res[c], pos[c])
        /\ res[c] = "bandwidth" => NothingAsked(c, "energy")
        /\ res[c] = "energy" => AcceptedWereServed(c, "bandwidth")
        /\ pos[c] \in 1..Len(Chain(res[c]))
    BY <1>1 DEF CallOK, Running
  <2>6. /\ NothingAskedAfter(c, res[c], pos[c])' /\ NothingAcceptedBefore(c, res[c], pos[c])'
        /\ res[c] = "bandwidth" => NothingAsked(c, "energy")'
        /\ res[c] = "energy" => AcceptedWereServed(c, "bandwidth")'
    BY <1>1, <2>2, <2>4, <2>5 DEF NothingAsked, NothingAskedAfter, NothingAcceptedBefore,
       AcceptedWereServed, Resources, Positions
  <2>7. answer'[Order(c)'] = "accepted" /\ pos'[c] \in 1..Len(Chain(res[c])')
    BY <2>1, <2>2, <2>3, <2>5
  <2>8. CallOK(c)'
    BY <2>2, <2>6, <2>7 DEF CallOK
  <2> QED
    BY <1>1, <2>1, <2>2, <2>8 DEF Kept
<1>4. CASE Unnamed(c)
  BY <1>2, <1>4 DEF Unnamed
<1>5. CASE Unclear(c)
  BY <1>2, <1>5 DEF Unclear
<1>6. CASE Refused(c)
  BY <1>2, <1>6 DEF Refused
<1> QED
  BY <1>3, <1>4, <1>5, <1>6, Zenon DEF Ask

\* An accepted order's failure ends the call.
LEMMA AcceptedFails ==
    ASSUME TypeOK, NEW c \in Calls, NEW code, FailWith(c, code, TRUE), UNCHANGED <<config, chain, rented>>
    PROVE  Kept(c)
<1>1. CallTyped(c) /\ pc'[c] = "failed"
  BY FailWithMoves
<1> QED
  BY <1>1, EndedIsOK, KeptOrders DEF Ended

LEMMA PollKeeps ==
    ASSUME TypeOK, NEW c \in Calls, CallOK(c), Poll(c)
    PROVE  Kept(c)
<1>1. /\ UNCHANGED <<config, chain, rented>> /\ config' = config /\ pc[c] = "poll"
      /\ order' = order /\ answer' = answer
  BY DEF Poll, rented
<1>2. CASE \E code \in {"unavailable", "invalid", "other"} : FailWith(c, code, TRUE)
  BY <1>1, <1>2, AcceptedFails
<1>3. CASE /\ order[Order(c)] \in Served /\ Goto(c, "post") /\ tries' = [tries EXCEPT ![c] = 0]
           /\ UNCHANGED <<place, owed, failure>>
  <2>1. tries' \in [Calls -> 0..Attempts]
    BY <1>3, ProvisioningAssumption DEF TypeOK
  <2>2. CallTyped(c) /\ pc'[c] = "post"
    BY <1>3, <2>1, GotoMoves DEF Running
  <2>3. SamePlace(c)
    BY <1>1, <1>3 DEF SamePlace, place
  <2>4. CallOK(c)'
    BY <1>1, <1>3, <2>2, <2>3, SameFacts DEF CallOK, Running
  <2> QED
    BY <1>1, <2>2, <2>4, KeptOrders
<1> QED
  BY <1>2, <1>3 DEF Poll, Served

LEMMA GiveUpKeeps ==
    ASSUME TypeOK, NEW c \in Calls, GiveUp(c)
    PROVE  Kept(c)
BY AcceptedFails DEF GiveUp

LEMMA PostReadKeeps ==
    ASSUME TypeOK, NEW c \in Calls, CallOK(c), PostRead(c)
    PROVE  Kept(c)
<1>1. /\ UNCHANGED <<config, chain, rented>> /\ config' = config /\ pc[c] = "post"
      /\ order' = order /\ answer' = answer
  BY DEF PostRead, rented
<1>2. CASE Acquired(c)
  BY <1>1, <1>2, AcquiredLands, KeptOrders DEF rented
<1>3. CASE FailWith(c, "unavailable", TRUE)
  BY <1>1, <1>3, AcceptedFails
<1>4. CASE /\ tries[c] + 1 < PostReads(Provider(c)) /\ tries' = [tries EXCEPT ![c] = tries[c] + 1]
           /\ UNCHANGED <<pc, place, owed, failure>>
  <2>1. tries[c] \in Nat /\ tries[c] + 1 <= Attempts
    BY <1>4, ProvisioningAssumption DEF TypeOK, PostReads
  <2>2. CallTyped(c) /\ pc' = pc
    BY <1>4, <2>1, ProvisioningAssumption DEF CallTyped, TypeOK, place
  <2>3. SamePlace(c)
    BY <1>1, <1>4 DEF SamePlace, place
  <2>4. CallOK(c)'
    BY <1>1, <2>2, <2>3, SameFacts DEF CallOK, Running
  <2> QED
    BY <1>1, <2>2, <2>4, KeptOrders
<1> QED
  BY <1>2, <1>3, <1>4, Zenon DEF PostRead

LEMMA RecheckKeeps ==
    ASSUME TypeOK, NEW c \in Calls, Recheck(c)
    PROVE  Kept(c)
<1>1. UNCHANGED <<config, chain, rented>> /\ pc[c] = "recheck"
  BY DEF Recheck
<1>2. CASE \E t \in BOOLEAN : Fail(c, TRUE, t)
  BY <1>1, <1>2, FailEnds, EndedIsOK, KeptOrders DEF Ended
<1>3. CASE Ready(c)
  BY <1>1, <1>3, ReadyEnds, EndedIsOK, KeptOrders DEF Ended
<1>4. CASE /\ tries[c] + 1 < Attempts /\ tries' = [tries EXCEPT ![c] = tries[c] + 1]
           /\ UNCHANGED <<pc, place, owed, failure>>
  <2>1. CallTyped(c) /\ pc' = pc
    BY <1>4, ProvisioningAssumption DEF CallTyped, TypeOK, place
  <2> QED
    BY <1>1, <2>1, EndedIsOK, KeptOrders
<1> QED
  <2>1. Fail(c, TRUE, TRUE) \/ (\E t \in QuoteErrors : Fail(c, TRUE, t)) => \E t \in BOOLEAN : Fail(c, TRUE, t)
    BY DEF QuoteErrors
  <2> QED
    BY <1>2, <1>3, <1>4, <2>1, Zenon DEF Recheck

LEMMA CrashKeeps ==
    ASSUME TypeOK, NEW c \in Calls, Crash(c)
    PROVE  Kept(c)
<1> USE ProvisioningAssumption DEF TypeOK, Crash, Forget, Goto
<1>1. /\ pc' \in [Calls -> {"idle"} \cup Running \cup Ended] /\ pc'[c] = "crashed"
      /\ tries' \in [Calls -> 0..Attempts]
  BY DEF Ended
<1>2. /\ res' \in [Calls -> Resources] /\ pos' \in [Calls -> 0..2]
      /\ owed' \in [Calls -> SUBSET Resources]
  BY DEF Resources
<1>3. CallTyped(c)
  BY <1>1, <1>2 DEF CallTyped
<1> QED
  BY <1>1, <1>3, EndedIsOK, KeptOrders DEF Ended

-----------------------------------------------------------------------------
(* The invariant                                                            *)

\* A step of a call keeps the invariant of every call.
LEMMA CallKeepsIInv ==
    ASSUME IInv, NEW c \in Calls, CallStep(c) \/ Crash(c)
    PROVE  IInv' /\ Kept(c)
<1>1. TypeOK /\ CallOK(c)
  BY DEF IInv
<1>2. Kept(c)
  BY <1>1, EstimateKeeps, ReadAccountKeeps, PreReadKeeps, AskKeeps, PollKeeps, GiveUpKeeps,
     PostReadKeeps, RecheckKeeps, CrashKeeps DEF CallStep
<1>3. TypeOK'
  BY <1>1, <1>2 DEF Kept, CallTyped, TypeOK
<1>4. ASSUME NEW d \in Calls, d # c
      PROVE  CallOK(d)'
  <2>1. CallOK(d) /\ res[d] \in Resources /\ pos[d] \in 0..2
    BY <1>1 DEF IInv, TypeOK
  <2>2. pc'[d] = pc[d] /\ res'[d] = res[d] /\ pos'[d] = pos[d]
    BY <1>2, <1>4 DEF Kept, CallTyped
  <2>3. \A r \in Resources, i \in Positions :
           order'[<<d, r, i>>] = order[<<d, r, i>>] /\ answer'[<<d, r, i>>] = answer[<<d, r, i>>]
    BY <1>2, <1>4, OrderNames DEF Kept
  <2>4. Chain(res[d])' = Chain(res[d]) /\ Order(d)' = Order(d)
    BY <1>2, <2>2 DEF Kept, Chain, Order
  <2>5. /\ NothingAskedAfter(d, res[d], pos[d])' = NothingAskedAfter(d, res[d], pos[d])
        /\ NothingAcceptedBefore(d, res[d], pos[d])' = NothingAcceptedBefore(d, res[d], pos[d])
        /\ NothingAsked(d, "bandwidth")' = NothingAsked(d, "bandwidth")
        /\ NothingAsked(d, "energy")' = NothingAsked(d, "energy")
        /\ AcceptedWereServed(d, "bandwidth")' = AcceptedWereServed(d, "bandwidth")
    BY <2>1, <2>2, <2>3 DEF NothingAsked, NothingAskedAfter, NothingAcceptedBefore, AcceptedWereServed, Resources
  <2>6. pc[d] \in {"pre", "ask", "poll", "post"} => pos[d] \in Positions
    <3>1. Len(Chain(res[d])) \in 0..2
      BY <1>1, <2>1, ChainIsShort
    <3> QED
      BY <2>1, <3>1 DEF CallOK, Positions
  <2>7. pos[d] \in Positions => answer'[Order(d)'] = answer[Order(d)] /\ order'[Order(d)'] = order[Order(d)]
    BY <2>1, <2>3, <2>4 DEF Order
  <2> QED
    BY <2>1, <2>2, <2>4, <2>5, <2>6, <2>7 DEF CallOK
<1> QED
  BY <1>2, <1>3, <1>4 DEF IInv, Kept

\* What happens at a provider, or to the account, undoes nothing.
LEMMA WorldKeepsIInv ==
    ASSUME IInv, UNCHANGED <<config, answer, pc, place, owed, tries, failure>>,
           level' \in [Resources -> 0..Top], decays' \in 0..MaxDecays,
           order' \in [Orders -> {"none", "open", "active", "delegated", "failed"}],
           \A o \in Orders : order[o] \in Served => order'[o] \in Served
    PROVE  IInv'
<1>1. TypeOK /\ TypeOK' /\ res' = res /\ pos' = pos
  BY DEF IInv, TypeOK, place
<1>2. ASSUME NEW c \in Calls
      PROVE  CallOK(c)'
  <2>1. CallOK(c) /\ res[c] \in Resources /\ pos[c] \in 0..2
    BY <1>1 DEF IInv, TypeOK
  <2>2. Chain(res[c])' = Chain(res[c]) /\ Order(c)' = Order(c)
    BY <1>1 DEF Chain, Order
  <2>3. /\ NothingAskedAfter(c, res[c], pos[c])' = NothingAskedAfter(c, res[c], pos[c])
        /\ NothingAcceptedBefore(c, res[c], pos[c])' = NothingAcceptedBefore(c, res[c], pos[c])
        /\ NothingAsked(c, "bandwidth")' = NothingAsked(c, "bandwidth")
        /\ NothingAsked(c, "energy")' = NothingAsked(c, "energy")
    BY <1>1 DEF NothingAsked, NothingAskedAfter, NothingAcceptedBefore
  <2>4. AcceptedWereServed(c, "bandwidth") => AcceptedWereServed(c, "bandwidth")'
    BY OrderNames DEF AcceptedWereServed, Resources
  <2>5. pc[c] = "post" => Order(c) \in Orders
    <3>1. Len(Chain(res[c])) \in 0..2
      BY <1>1, <2>1, ChainIsShort
    <3>2. pc[c] = "post" => pos[c] \in Positions
      BY <2>1, <3>1 DEF CallOK, Positions
    <3> QED
      BY <2>1, <3>2, OrderNames DEF Order
  <2> QED
    BY <1>1, <2>1, <2>2, <2>3, <2>4, <2>5 DEF CallOK
<1> QED
  BY <1>1, <1>2 DEF IInv

LEMMA ProviderKeepsIInv ==
    ASSUME IInv, NEW o \in Orders, Activate(o) \/ Delegate(o) \/ FailOrder(o)
    PROVE  IInv'
<1> USE DEF IInv, TypeOK, chain, Served
<1>1. o[2] \in Resources
  BY OrderNames
<1>2. CASE Activate(o)
  BY <1>2, WorldKeepsIInv DEF Activate
<1>3. CASE Delegate(o)
  <2>1. PICK l \in level[o[2]]..Top : level' = [level EXCEPT ![o[2]] = l]
    BY <1>3 DEF Delegate
  <2>2. level[o[2]] \in 0..Top /\ l \in 0..Top
    BY <1>1, <2>1 DEF Top
  <2>3. level' \in [Resources -> 0..Top]
    BY <2>1, <2>2
  <2> QED
    BY <1>3, <2>3, WorldKeepsIInv DEF Delegate
<1>4. CASE FailOrder(o)
  BY <1>4, WorldKeepsIInv DEF FailOrder
<1> QED
  BY <1>2, <1>3, <1>4

LEMMA DecayKeepsIInv ==
    ASSUME IInv, NEW r \in Resources, Decay(r)
    PROVE  IInv'
<1>1. decays' \in 0..MaxDecays
  BY ProvisioningAssumption DEF Decay, IInv, TypeOK
<1>2. level' \in [Resources -> 0..Top]
  BY DEF Decay, IInv, TypeOK
<1>3. order' = order
  BY DEF Decay, rented
<1> QED
  BY <1>1, <1>2, <1>3, WorldKeepsIInv DEF Decay, IInv, TypeOK, rented

LEMMA InitIInv == Init => IInv
<1> SUFFICES ASSUME Init PROVE IInv
  OBVIOUS
<1>1. TypeOK
  BY ProvisioningAssumption DEF Init, TypeOK, NoError, Resources, Running, Ended
<1>2. ASSUME NEW c \in Calls
      PROVE  CallOK(c)
  <2>1. pc[c] = "idle" /\ \A o \in Orders : answer[o] = "none"
    BY DEF Init
  <2> QED
    BY <2>1, OrderNames DEF CallOK, NothingAsked, Running, Resources
<1> QED
  BY <1>1, <1>2 DEF IInv

LEMMA NextIInv == IInv /\ [Next]_vars => IInv'
<1> SUFFICES ASSUME IInv, [Next]_vars PROVE IInv'
  OBVIOUS
<1>1. CASE UNCHANGED vars
  <2>1. UNCHANGED <<config, answer, pc, place, owed, tries, failure>> /\ level' = level
        /\ order' = order /\ decays' = decays
    BY <1>1 DEF vars, place
  <2> QED
    BY <2>1, WorldKeepsIInv DEF IInv, TypeOK
<1>2. ASSUME NEW c \in Calls, CallStep(c) \/ Crash(c) PROVE IInv'
  BY <1>2, CallKeepsIInv
<1>3. ASSUME NEW o \in Orders, Activate(o) \/ Delegate(o) \/ FailOrder(o) PROVE IInv'
  BY <1>3, ProviderKeepsIInv
<1>4. ASSUME NEW r \in Resources, Decay(r) PROVE IInv'
  BY <1>4, DecayKeepsIInv
<1> QED
  BY <1>1, <1>2, <1>3, <1>4 DEF Next

-----------------------------------------------------------------------------
(* What follows from it                                                     *)

\* Only an order that was asked for last can have been accepted.
LEMMA NextNoRent == IInv /\ NoRentAfterAcceptance /\ [Next]_vars => NoRentAfterAcceptance'
<1> SUFFICES ASSUME IInv, NoRentAfterAcceptance, [Next]_vars PROVE NoRentAfterAcceptance'
  OBVIOUS
<1>1. CASE answer' = answer
  BY <1>1 DEF NoRentAfterAcceptance
<1>2. ASSUME NEW c \in Calls, Ask(c)
      PROVE  NoRentAfterAcceptance'
  <2>1. TypeOK /\ CallOK(c) /\ pc[c] = "ask" /\ res[c] \in Resources
    BY <1>2 DEF IInv, Ask, TypeOK
  <2>2. pos[c] \in Positions
    <3> DEFINE n == Len(Chain(res[c]))
    <3>1. n \in 0..2 /\ pos[c] \in 1..n
      BY <2>1, ChainIsShort DEF CallOK
    <3> HIDE DEF n
    <3> QED
      BY <3>1 DEF Positions
  <2>3. \A o \in Orders : o # Order(c) => answer'[o] = answer[o]
    <3>1. PICK what \in {"accepted", "unclear", "refused"}, ordered \in BOOLEAN : Answered(c, what, ordered)
      BY <1>2 DEF Ask, Unnamed, Unclear, Refused
    <3> QED
      BY <2>1, <2>2, <3>1, AnsweredOnly
  <2>4. NothingAskedAfter(c, res[c], pos[c]) /\ NothingAcceptedBefore(c, res[c], pos[c])
    BY <2>1 DEF CallOK, Running
  <2>5. ASSUME NEW d \in Calls, NEW r \in Resources, NEW i \in Positions, NEW j \in Positions,
               i < j, answer'[<<d, r, j>>] # "none"
        PROVE  answer'[<<d, r, i>>] # "accepted"
    <3>1. <<d, r, i>> \in Orders /\ <<d, r, j>> \in Orders
      BY OrderNames
    <3>2. CASE d = c /\ r = res[c] /\ i = pos[c]
      <4>1. <<d, r, j>> # Order(c)
        BY <2>5, <3>2 DEF Order, Positions
      <4>2. answer[<<c, res[c], j>>] = "none"
        BY <2>4, <2>5, <3>2 DEF NothingAskedAfter, Positions
      <4> QED
        BY <2>3, <2>5, <3>1, <3>2, <4>1, <4>2
    <3>3. CASE d = c /\ r = res[c] /\ j = pos[c]
      <4>1. <<d, r, i>> # Order(c)
        BY <2>5, <3>3 DEF Order, Positions
      <4>2. answer[<<c, res[c], i>>] # "accepted"
        BY <2>4, <2>5, <3>3 DEF NothingAcceptedBefore, Positions
      <4> QED
        BY <2>3, <3>1, <3>3, <4>1, <4>2
    <3>4. CASE d # c \/ r # res[c] \/ (i # pos[c] /\ j # pos[c])
      <4>1. <<d, r, i>> # Order(c) /\ <<d, r, j>> # Order(c)
        BY <3>4 DEF Order
      <4> QED
        BY <2>3, <2>5, <3>1, <4>1 DEF NoRentAfterAcceptance
    <3> QED
      BY <3>2, <3>3, <3>4
  <2> QED
    BY <2>5 DEF NoRentAfterAcceptance
<1>3. CASE UNCHANGED vars
  BY <1>1, <1>3 DEF vars, rented
<1>4. ASSUME NEW c \in Calls, CallStep(c) \/ Crash(c)
      PROVE  NoRentAfterAcceptance'
  <2>1. CASE Ask(c)
    BY <1>2, <2>1
  <2>2. CASE ~ Ask(c)
    <3>1. answer' = answer
      BY <1>4, <2>2, Zenon DEF CallStep, Estimate, ReadAccount, PreRead, Poll, GiveUp, PostRead, Recheck, Crash, rented
    <3> QED
      BY <1>1, <3>1
  <2> QED
    BY <2>1, <2>2
<1>5. ASSUME NEW o \in Orders, Activate(o) \/ Delegate(o) \/ FailOrder(o) PROVE NoRentAfterAcceptance'
  BY <1>1, <1>5 DEF Activate, Delegate, FailOrder
<1>6. ASSUME NEW r \in Resources, Decay(r) PROVE NoRentAfterAcceptance'
  BY <1>1, <1>6 DEF Decay, rented
<1> QED
  BY <1>3, <1>4, <1>5, <1>6 DEF Next

\* The types, and what a call has asked for by the place it is at
\* (ensure_usdt_transfer_resources), for all calls and configurations.
THEOREM ProvisioningInvariant == Spec => []IInv
<1> QED
  BY InitIInv, NextIInv, PTL DEF Spec

\* No provider is asked for what another one has accepted to rent out
\* (_provision_bandwidth, _provision_energy), whatever became of the order.
THEOREM AcceptedEndsTheChain == Spec => []NoRentAfterAcceptance
<1>1. Init => NoRentAfterAcceptance
  BY OrderNames DEF Init, NoRentAfterAcceptance
<1> QED
  BY <1>1, ProvisioningInvariant, NextNoRent, PTL DEF Spec

-----------------------------------------------------------------------------
(* Clean failures                                                           *)

AllServed(c) == \A o \in Orders : o[1] = c /\ answer[o] = "accepted" => order[o] \in Served

\* Up to its next order a call has nothing accepted that was not served.
LEMMA ServedBeforeOrder ==
    ASSUME TypeOK, NEW c \in Calls, CallOK(c), pc[c] \in {"idle", "account", "pre", "ask"}
    PROVE  AllServed(c)
<1>1. res[c] \in Resources /\ pos[c] \in 0..2
  BY DEF TypeOK
<1>2. SUFFICES ASSUME NEW r \in Resources, NEW i \in Positions, answer[<<c, r, i>>] = "accepted"
               PROVE  order[<<c, r, i>>] \in Served
  BY OrderNames DEF AllServed
<1>3. CASE pc[c] = "idle"
  BY <1>2, <1>3 DEF CallOK, NothingAsked, Resources
<1>4. CASE pc[c] # "idle"
  <2>1. /\ NothingAskedAfter(c, res[c], pos[c]) /\ NothingAcceptedBefore(c, res[c], pos[c])
        /\ res[c] = "bandwidth" => NothingAsked(c, "energy")
        /\ res[c] = "energy" => AcceptedWereServed(c, "bandwidth")
        /\ pos[c] \in Positions => answer[<<c, res[c], pos[c]>>] # "accepted"
    BY <1>4 DEF CallOK, Running, Order
  <2>2. r # res[c]
    BY <1>1, <1>2, <2>1 DEF NothingAskedAfter, NothingAcceptedBefore, Positions
  <2> QED
    BY <1>1, <1>2, <2>1, <2>2 DEF NothingAsked, AcceptedWereServed, Resources
<1> QED
  BY <1>3, <1>4

\* A call that fails without an accepted order in its error has all of them served.
LEMMA CleanStep ==
    ASSUME TypeOK, NEW c \in Calls, CallOK(c), CallStep(c), pc'[c] = "failed", ~ failure'[c].accepted
    PROVE  AllServed(c)'
<1>1. CASE pc[c] \in {"idle", "account", "pre", "ask"} /\ order' = order /\ answer' = answer
  BY <1>1, ServedBeforeOrder DEF AllServed
<1>2. ASSUME NEW code, FailWith(c, code, TRUE)
      PROVE  FALSE
  <2>1. failure'[c].accepted = TRUE
    BY <1>2, FailWithMoves
  <2> QED
    BY <2>1
<1>3. ASSUME NEW t \in BOOLEAN, Fail(c, TRUE, t)
      PROVE  FALSE
  <2>1. failure'[c] = [accepted |-> TRUE, temporary |-> t]
    BY <1>3, FailEnds
  <2>2. failure'[c].accepted = TRUE
    BY <2>1
  <2> QED
    BY <2>2
<1>4. Acquired(c) \/ Ready(c) => FALSE
  BY AcquiredMoves, ReadyEnds
<1>5. \A label : label # "failed" => ~ Goto(c, label)
  BY DEF Goto, TypeOK
<1>6. CASE Estimate(c)
  BY <1>1, <1>6 DEF Estimate, rented
<1>7. CASE ReadAccount(c)
  BY <1>1, <1>7 DEF ReadAccount, rented
<1>8. CASE PreRead(c)
  BY <1>1, <1>8 DEF PreRead, rented
<1>9. CASE Ask(c)
  <2>1. AllServed(c) /\ pc[c] = "ask"
    BY <1>9, ServedBeforeOrder DEF Ask
  <2>2. pos[c] \in Positions
    <3> DEFINE n == Len(Chain(res[c]))
    <3>1. n \in 0..2 /\ pos[c] \in 1..n
      BY <2>1, ChainIsShort DEF CallOK, TypeOK
    <3> HIDE DEF n
    <3> QED
      BY <3>1 DEF Positions
  <2>3. \/ \E ordered \in BOOLEAN : Answered(c, "unclear", ordered)
        \/ Answered(c, "refused", FALSE)
    BY <1>2, <1>5, <1>9, Zenon DEF Ask, Unnamed, Unclear, Refused
  <2>4. /\ \A o \in Orders : o # Order(c) => order'[o] = order[o] /\ answer'[o] = answer[o]
        /\ answer'[Order(c)] # "accepted"
    BY <2>2, <2>3, AnsweredOnly
  <2> QED
    BY <2>1, <2>4 DEF AllServed
<1>10. CASE Poll(c)
  BY <1>2, <1>5, <1>10 DEF Poll
<1>11. CASE GiveUp(c)
  BY <1>2, <1>11 DEF GiveUp
<1>12. CASE PostRead(c)
  BY <1>2, <1>4, <1>12 DEF PostRead
<1>13. CASE Recheck(c)
  BY <1>3, <1>4, <1>13 DEF Recheck, QuoteErrors
<1> QED
  BY <1>6, <1>7, <1>8, <1>9, <1>10, <1>11, <1>12, <1>13 DEF CallStep

\* A call that has failed takes no step.
LEMMA FailedIsOver ==
    ASSUME NEW c \in Calls, CallStep(c) \/ Crash(c)
    PROVE  pc[c] # "failed"
BY DEF CallStep, Estimate, ReadAccount, PreRead, Ask, Poll, GiveUp, PostRead, Recheck, Crash, Running

LEMMA NextClean == IInv /\ CleanFailureOwesNothing /\ [Next]_vars => CleanFailureOwesNothing'
<1> SUFFICES ASSUME IInv, CleanFailureOwesNothing, [Next]_vars,
                    NEW d \in Calls, pc'[d] = "failed", ~ failure'[d].accepted
             PROVE  AllServed(d)'
  BY DEF CleanFailureOwesNothing, AllServed
<1>1. ASSUME UNCHANGED <<answer, pc, failure>>, \A o \in Orders : order[o] \in Served => order'[o] \in Served
      PROVE  AllServed(d)'
  BY <1>1 DEF CleanFailureOwesNothing, AllServed
<1>2. CASE UNCHANGED vars
  BY <1>1, <1>2 DEF vars, rented
<1>3. ASSUME NEW c \in Calls, CallStep(c) \/ Crash(c)
      PROVE  AllServed(d)'
  <2>1. Kept(c)
    BY <1>3, CallKeepsIInv
  <2>2. CASE c # d
    BY <2>1, <2>2 DEF Kept, CallTyped, CleanFailureOwesNothing, AllServed
  <2>3. CASE c = d /\ CallStep(c)
    BY <2>3, CleanStep DEF IInv
  <2>4. CASE c = d /\ Crash(c)
    BY <2>4 DEF Crash, Goto, IInv, TypeOK
  <2> QED
    BY <1>3, <2>2, <2>3, <2>4
<1>4. ASSUME NEW o \in Orders, Activate(o) \/ Delegate(o) \/ FailOrder(o) PROVE AllServed(d)'
  <2>1. UNCHANGED <<answer, pc, failure>> /\ \A q \in Orders : order[q] \in Served => order'[q] \in Served
    BY <1>4 DEF Activate, Delegate, FailOrder, IInv, TypeOK, Served
  <2> QED
    BY <1>1, <2>1
<1>5. ASSUME NEW r \in Resources, Decay(r) PROVE AllServed(d)'
  BY <1>1, <1>5 DEF Decay, rented
<1> QED
  BY <1>2, <1>3, <1>4, <1>5 DEF Next

\* An error without provider_order_accepted, which lets a payout start again,
\* leaves no accepted order that could still be served.
THEOREM CleanFailuresAreClean == Spec => []CleanFailureOwesNothing
<1>1. Init => CleanFailureOwesNothing
  BY DEF Init, CleanFailureOwesNothing
<1> QED
  BY <1>1, ProvisioningInvariant, NextClean, PTL DEF Spec

-----------------------------------------------------------------------------
(* Readiness                                                                *)

LEMMA ReadyStep ==
    ASSUME IInv, [Next]_vars, NEW d \in Calls, pc[d] # "ready", pc'[d] = "ready"
    PROVE  \A r \in Resources : level[r] >= Enough
<1>1. ASSUME NEW c \in Calls, CallStep(c) \/ Crash(c)
      PROVE  Short = {}
  <2>1. c = d
    BY <1>1, CallKeepsIInv DEF Kept, CallTyped
  <2>2. TypeOK
    BY DEF IInv
  <2>3. /\ \A x, t \in BOOLEAN : ~ Fail(c, x, t)
        /\ ~ Acquired(c)
        /\ \A code : \A x \in BOOLEAN : ~ FailWith(c, code, x)
        /\ \A label : label # "ready" => ~ Goto(c, label)
        /\ pc' # pc
    <3>1. \A x, t \in BOOLEAN : ~ Fail(c, x, t)
      BY <2>1, <2>2, FailEnds
    <3>2. ~ Acquired(c)
      BY <2>1, <2>2, AcquiredMoves
    <3>3. \A code : \A x \in BOOLEAN : ~ FailWith(c, code, x)
      BY <2>1, <2>2, FailWithMoves
    <3>4. \A label : label # "ready" => ~ Goto(c, label)
      BY <2>1, <2>2 DEF Goto, TypeOK
    <3>5. pc' # pc
      BY <2>1
    <3> QED
      BY <3>1, <3>2, <3>3, <3>4, <3>5
  <2>4. \A r \in Resources : ~ Begin(c, r)
    BY <2>3 DEF Begin
  <2>5. ~ Crash(c)
    BY <2>3 DEF Crash
  <2>6. ~ ReadAccount(c) /\ ~ Poll(c) /\ ~ GiveUp(c) /\ ~ Ask(c)
    BY <2>3 DEF ReadAccount, Poll, GiveUp, Ask, Unnamed, Unclear, Refused
  <2>7. ~ PreRead(c)
    BY <2>3 DEF PreRead
  <2>8. ~ PostRead(c)
    BY <2>3 DEF PostRead
  <2>9. Estimate(c) => Short = {}
    <3>1. (IF "bandwidth" \in Short THEN "bandwidth" ELSE "energy") \in Resources
      BY DEF Resources
    <3> QED
      BY <2>3, <2>4, <3>1 DEF Estimate, QuoteErrors
  <2>10. Recheck(c) => Short = {}
    BY <2>3 DEF Recheck, QuoteErrors
  <2> QED
    BY <1>1, <2>5, <2>6, <2>7, <2>8, <2>9, <2>10 DEF CallStep
<1>2. Short = {}
  <2>1. pc' # pc
    OBVIOUS
  <2> QED
    BY <1>1, <2>1 DEF Next, vars, Activate, Delegate, FailOrder, Decay
<1> QED
  BY <1>2 DEF Short, IInv, TypeOK, Enough

\* A transfer is sent only after a reading that shows both resources at once
\* (ensure_usdt_transfer_resources returns a quote without deficits).
THEOREM ReadyIsReady == Spec => ReadyMeansBoth
<1>1. IInv /\ [Next]_vars =>
        [\A c \in Calls : pc[c] # "ready" /\ pc'[c] = "ready" => \A r \in Resources : level[r] >= Enough]_vars
  BY ReadyStep
<1> QED
  BY <1>1, ProvisioningInvariant, PTL DEF Spec, ReadyMeansBoth

-----------------------------------------------------------------------------
(* The way to the end                                                       *)

\* The places of a chain are a Round apart, and the energy comes after the
\* bandwidth.
LEMMA Distances ==
    /\ Round \in Nat /\ Round = Attempts + 4 /\ Attempts \in Nat /\ Attempts > 0
    /\ Once("energy") = Attempts + 1 /\ Once("bandwidth") = AtResource("energy", 0) + 1
    /\ \A r \in Resources, p \in 0..2 :
          /\ Once(r) \in Nat /\ AtResource(r, p) \in Nat
          /\ Attempts + 1 <= Once(r) /\ Once(r) <= AtResource(r, p)
    /\ \A r \in Resources, p \in 0..1 : AtResource(r, p) = AtResource(r, p + 1) + Round
    /\ AtResource("energy", 0) < AtResource("bandwidth", 0)
<1>1. Round \in Nat /\ Round = Attempts + 4 /\ Attempts \in Nat /\ Attempts > 0
  BY ProvisioningAssumption DEF Round
<1>2. /\ Once("energy") = Attempts + 1 /\ Once("bandwidth") = Attempts + 2 + 2 * Round
  BY DEF Once
<1>3. \A r \in Resources : Once(r) \in Nat /\ Attempts + 1 <= Once(r)
  BY <1>1, <1>2 DEF Resources
<1>4. ASSUME NEW r \in Resources
      PROVE  /\ AtResource(r, 0) = Once(r) + 2 * Round
             /\ AtResource(r, 1) = Once(r) + Round
             /\ AtResource(r, 2) = Once(r)
  <2> DEFINE o == Once(r)
  <2>1. o \in Nat
    BY <1>3
  <2>2. /\ AtResource(r, 0) = o + (2 - 0) * Round /\ AtResource(r, 1) = o + (2 - 1) * Round
        /\ AtResource(r, 2) = o + (2 - 2) * Round
    BY DEF AtResource
  <2> HIDE DEF o
  <2>3. 2 - 0 = 2 /\ 2 - 1 = 1 /\ 2 - 2 = 0
    OBVIOUS
  <2>4. AtResource(r, 0) = o + 2 * Round /\ AtResource(r, 1) = o + Round /\ AtResource(r, 2) = o
    BY <1>1, <2>1, <2>2, <2>3
  <2> QED
    BY <2>4 DEF o
<1>5. "energy" \in Resources /\ "bandwidth" \in Resources
  BY DEF Resources
<1>6. Once("bandwidth") = AtResource("energy", 0) + 1
  BY <1>1, <1>2, <1>4, <1>5
<1>7. AtResource("energy", 0) < AtResource("bandwidth", 0)
  BY <1>1, <1>2, <1>4, <1>5
<1>8. ASSUME NEW r \in Resources, NEW p \in 0..2
      PROVE  /\ AtResource(r, p) \in Nat /\ Once(r) <= AtResource(r, p)
             /\ p < 2 => AtResource(r, p) = AtResource(r, p + 1) + Round
  <2>1. p = 0 \/ p = 1 \/ p = 2
    OBVIOUS
  <2>2. Once(r) \in Nat
    BY <1>3
  <2>3. CASE p = 0
    BY <1>1, <1>4, <2>2, <2>3
  <2>4. CASE p = 1
    BY <1>1, <1>4, <2>2, <2>4
  <2>5. CASE p = 2
    BY <1>1, <1>4, <2>2, <2>5
  <2> QED
    BY <2>1, <2>3, <2>4, <2>5
<1> QED
  BY <1>1, <1>2, <1>3, <1>6, <1>7, <1>8

\* What a call that has not ended has before it.
LEMMA SomeLeft ==
    ASSUME TypeOK, NEW c \in Calls, pc[c] \in {"idle"} \cup Running
    PROVE  /\ Left(c) \in Nat /\ Left(c) > 0
           /\ pc[c] \in {"account", "pre", "ask", "poll", "post"} =>
                 /\ AtResource(res[c], pos[c]) < Left(c)
                 /\ Left(c) = AtResource(res[c], pos[c]) + AtProvider(pc[c], tries[c])
<1>1. /\ tries[c] \in Nat /\ tries[c] <= Attempts /\ Attempts \in Nat
  BY ProvisioningAssumption DEF TypeOK
<1>2. AtResource(res[c], pos[c]) \in Nat /\ AtResource("bandwidth", 0) \in Nat
  BY Distances DEF TypeOK, Resources
<1>3. CASE pc[c] \in {"account", "pre", "ask", "poll", "post"}
  <2>1. Left(c) = AtResource(res[c], pos[c]) + AtProvider(pc[c], tries[c])
    BY <1>3, Zenon DEF Left, Ended
  <2>2. AtProvider(pc[c], tries[c]) \in Nat /\ AtProvider(pc[c], tries[c]) > 0
    BY <1>1, <1>3 DEF AtProvider, Round
  <2> DEFINE a == AtResource(res[c], pos[c])
             b == AtProvider(pc[c], tries[c])
  <2>3. a \in Nat /\ b \in Nat /\ b > 0
    BY <1>2, <2>2
  <2> HIDE DEF a, b
  <2>4. a + b \in Nat /\ a + b > 0 /\ a < a + b
    BY <2>3
  <2> QED
    BY <2>1, <2>4 DEF a, b
<1>4. CASE pc[c] = "idle"
  <2>1. Left(c) = AtResource("bandwidth", 0) + 1
    BY <1>4, Zenon DEF Left, Ended
  <2> QED
    BY <1>2, <1>4, <2>1
<1>5. CASE pc[c] = "recheck"
  <2>1. Left(c) = Attempts + 1 - tries[c]
    BY <1>5, Zenon DEF Left, Ended
  <2> QED
    BY <1>1, <1>5, <2>1
<1> QED
  BY <1>3, <1>4, <1>5 DEF Running

\* A call that ends has none.
LEMMA NoneLeft ==
    ASSUME TypeOK, NEW c \in Calls, pc[c] \in {"idle"} \cup Running, pc'[c] \in Ended
    PROVE  Left(c)' < Left(c)
<1>1. Left(c)' = 0
  BY DEF Left, Ended
<1> QED
  BY <1>1, SomeLeft

LEMMA AcquiredShortens ==
    ASSUME TypeOK, NEW c \in Calls, pc[c] \in {"account", "pre", "post"}, Acquired(c)
    PROVE  Left(c)' < Left(c)
<1>1. /\ AtResource(res[c], pos[c]) < Left(c) /\ Left(c) \in Nat
      /\ res[c] \in Resources /\ pos[c] \in 0..2
  BY SomeLeft DEF Running, TypeOK
<1>2. AtResource(res[c], pos[c]) \in Nat /\ Once(res[c]) <= AtResource(res[c], pos[c])
      /\ Once(res[c]) \in Nat /\ Attempts + 1 <= Once(res[c]) /\ Attempts \in Nat
  BY <1>1, Distances
<1>3. tries'[c] = 0
  BY DEF Acquired, TypeOK
<1>4. CASE pc'[c] = "recheck"
  <2>1. Left(c)' = Attempts + 1 - 0
    <3>1. pc'[c] # "idle"
      BY <1>4
    <3> QED
      BY <1>3, <1>4, <3>1, Zenon DEF Left, Ended
  <2> QED
    BY <1>1, <1>2, <2>1
<1>5. CASE res[c] = "bandwidth" /\ pc'[c] = "account" /\ res'[c] = "energy" /\ pos'[c] = 0
  <2>1. Left(c)' = AtResource("energy", 0) + 1
    BY <1>5 DEF Left, AtProvider, Ended
  <2>2. Once(res[c]) = AtResource("energy", 0) + 1
    BY <1>5, Distances
  <2> QED
    BY <1>1, <1>2, <2>1, <2>2
<1> QED
  BY <1>4, <1>5, AcquiredMoves

LEMMA FailWithShortens ==
    ASSUME TypeOK, NEW c \in Calls, NEW code, NEW a \in BOOLEAN, FailWith(c, code, a),
           pc[c] \in {"pre", "ask"}
    PROVE  Left(c)' < Left(c)
<1>1. CASE pc'[c] = "failed"
  BY <1>1, NoneLeft DEF Ended, Running
<1>2. CASE ~ a /\ pc'[c] = "account" /\ res' = res /\ pos' = pos
  <2>1. /\ AtResource(res[c], pos[c]) \in Nat /\ Round \in Nat /\ Round - 1 > 1 /\ Round > 1
    BY Distances DEF TypeOK
  <2>2. Left(c) = AtResource(res[c], pos[c]) + AtProvider(pc[c], tries[c])
    BY <1>2, SomeLeft DEF Running
  <2>3. AtProvider(pc[c], tries[c]) \in {Round, Round - 1}
    BY <1>2 DEF AtProvider
  <2>4. Left(c)' = AtResource(res[c], pos[c]) + 1
    BY <1>2 DEF Left, AtProvider, Ended
  <2> QED
    BY <2>1, <2>2, <2>3, <2>4
<1> QED
  BY <1>1, <1>2, FailWithMoves

LEMMA EstimateShortens ==
    ASSUME TypeOK, NEW c \in Calls, Estimate(c)
    PROVE  Left(c)' < Left(c)
<1>1. pc[c] = "idle"
  BY DEF Estimate
<1>2. CASE pc'[c] \in Ended
  BY <1>1, <1>2, NoneLeft
<1>3. CASE Begin(c, IF "bandwidth" \in Short THEN "bandwidth" ELSE "energy")
  <2>1. Left(c) = AtResource("bandwidth", 0) + 1
    BY <1>1, Zenon DEF Left, Ended
  <2>2. /\ AtResource("bandwidth", 0) \in Nat /\ AtResource("energy", 0) \in Nat
        /\ AtResource("energy", 0) < AtResource("bandwidth", 0)
        /\ AtResource("bandwidth", 0) = AtResource("bandwidth", 0 + 1) + Round
    BY Distances DEF Resources
  <2>3. \/ res'[c] = "bandwidth" /\ pos'[c] = 1 /\ pc'[c] = "pre"
        \/ res'[c] = "energy" /\ pos'[c] = 0 /\ pc'[c] = "account"
    BY <1>3 DEF Begin, Goto, TypeOK
  <2>4. CASE res'[c] = "bandwidth" /\ pos'[c] = 1 /\ pc'[c] = "pre"
    <3>1. Left(c)' = AtResource("bandwidth", 1) + Round
      BY <2>4 DEF Left, AtProvider, Ended
    <3> QED
      BY <2>1, <2>2, <3>1
  <2>5. CASE res'[c] = "energy" /\ pos'[c] = 0 /\ pc'[c] = "account"
    <3>1. Left(c)' = AtResource("energy", 0) + 1
      BY <2>5 DEF Left, AtProvider, Ended
    <3> QED
      BY <2>1, <2>2, <3>1
  <2> QED
    BY <2>3, <2>4, <2>5
<1>4. Ready(c) => pc'[c] \in Ended
  BY ReadyEnds DEF Ended
<1>5. \A a, t \in BOOLEAN : Fail(c, a, t) => pc'[c] \in Ended
  BY FailEnds DEF Ended
<1> QED
  BY <1>2, <1>3, <1>4, <1>5 DEF Estimate, QuoteErrors

LEMMA ReadAccountShortens ==
    ASSUME TypeOK, NEW c \in Calls, ReadAccount(c)
    PROVE  Left(c)' < Left(c)
<1>1. pc[c] = "account"
  BY DEF ReadAccount
<1>2. CASE Fail(c, FALSE, TRUE)
  BY <1>1, <1>2, FailEnds, NoneLeft DEF Ended, Running
<1>3. CASE Acquired(c)
  BY <1>1, <1>3, AcquiredShortens
<1>4. CASE /\ pos[c] < Len(Chain(res[c]))
           /\ pos' = [pos EXCEPT ![c] = pos[c] + 1] /\ Goto(c, "pre")
           /\ UNCHANGED <<res, owed, tries, failure>>
  <2>1. pos[c] \in 0..1
    <3> DEFINE n == Len(Chain(res[c]))
    <3>1. n \in 0..2 /\ pos[c] \in 0..2 /\ pos[c] < n
      BY <1>4, ChainIsShort DEF TypeOK
    <3> HIDE DEF n
    <3> QED
      BY <3>1
  <2>2. pc'[c] = "pre" /\ pos'[c] = pos[c] + 1 /\ res'[c] = res[c]
    BY <1>4 DEF Goto, TypeOK
  <2>3. Left(c) = AtResource(res[c], pos[c]) + 1
    BY <1>1, SomeLeft DEF AtProvider, Running
  <2>4. Left(c)' = AtResource(res[c], pos[c] + 1) + Round
    BY <2>2 DEF Left, AtProvider, Ended
  <2>5. AtResource(res[c], pos[c]) = AtResource(res[c], pos[c] + 1) + Round
    BY <2>1, Distances DEF TypeOK
  <2>6. AtResource(res[c], pos[c]) \in Nat
    BY Distances DEF TypeOK
  <2> QED
    BY <2>3, <2>4, <2>5, <2>6
<1> QED
  BY <1>2, <1>3, <1>4, Zenon DEF ReadAccount

\* A step from one place at a provider to the next one, or one reading more.
LEMMA GotoShortens ==
    ASSUME TypeOK, NEW c \in Calls, res' = res, pos' = pos,
           \/ pc[c] = "pre" /\ pc'[c] = "ask"
           \/ pc[c] = "ask" /\ pc'[c] = "poll"
           \/ pc[c] = "poll" /\ pc'[c] = "post" /\ tries'[c] = 0
           \/ pc[c] = "post" /\ pc'[c] = "post" /\ tries'[c] = tries[c] + 1
           \/ pc[c] = "recheck" /\ pc'[c] = "recheck" /\ tries'[c] = tries[c] + 1
    PROVE  Left(c)' < Left(c)
<1>1. tries[c] \in Nat /\ tries[c] <= Attempts /\ Attempts \in Nat
  BY ProvisioningAssumption DEF TypeOK
<1>2. CASE pc[c] = "recheck"
  <2>1. pc'[c] = "recheck" /\ tries'[c] = tries[c] + 1
    BY <1>2
  <2>2. Left(c) = Attempts + 1 - tries[c]
    BY <1>2, Zenon DEF Left, Ended
  <2>3. Left(c)' = Attempts + 1 - tries'[c]
    BY <2>1, Zenon DEF Left, Ended
  <2> QED
    BY <1>1, <2>1, <2>2, <2>3
<1>3. CASE pc[c] # "recheck"
  <2> DEFINE a == AtResource(res[c], pos[c])
             b == AtProvider(pc[c], tries[c])
             e == AtProvider(pc'[c], tries'[c])
  <2>1. Left(c) = a + b /\ a \in Nat
    BY <1>3, SomeLeft, Distances DEF TypeOK, Running
  <2>2. Left(c)' = AtResource(res'[c], pos'[c]) + AtProvider(pc'[c], tries'[c])
    BY <1>3, Zenon DEF Left, Ended
  <2>3. Left(c)' = a + e
    BY <2>2
  <2>4. b \in Nat /\ e \in Nat /\ e < b
    <3>1. CASE pc[c] = "pre" /\ pc'[c] = "ask"
      BY <1>1, <3>1 DEF AtProvider, Round
    <3>2. CASE pc[c] = "ask" /\ pc'[c] = "poll"
      BY <1>1, <3>2 DEF AtProvider, Round
    <3>3. CASE pc[c] = "poll" /\ pc'[c] = "post" /\ tries'[c] = 0
      <4>1. b = Round - 2 /\ e = Attempts + 1 - 0
        BY <3>3 DEF AtProvider
      <4> HIDE DEF b, e
      <4> QED
        BY <1>1, <4>1 DEF Round
    <3>4. CASE pc[c] = "post" /\ pc'[c] = "post" /\ tries'[c] = tries[c] + 1
      <4>1. b = Attempts + 1 - tries[c] /\ e = Attempts + 1 - (tries[c] + 1)
        BY <3>4 DEF AtProvider
      <4> HIDE DEF b, e
      <4> QED
        BY <1>1, <4>1
    <3> QED
      BY <1>3, <3>1, <3>2, <3>3, <3>4
  <2> HIDE DEF a, b, e
  <2>5. a + e < a + b
    BY <2>1, <2>4
  <2> QED
    BY <2>1, <2>3, <2>5
<1> QED
  BY <1>2, <1>3

\* Every step of a call, and its worker's death, brings it nearer to its end.
LEMMA CallShortens ==
    ASSUME IInv, NEW c \in Calls, CallStep(c) \/ Crash(c)
    PROVE  Left(c)' < Left(c)
<1>1. TypeOK
  BY DEF IInv
<1>2. CASE PreRead(c)
  <2>1. pc[c] = "pre"
    BY <1>2 DEF PreRead
  <2>2. CASE Fail(c, FALSE, res[c] = "energy")
    BY <1>1, <2>1, <2>2, FailEnds, NoneLeft DEF Ended, Running
  <2>3. CASE Goto(c, "ask") /\ UNCHANGED <<place, owed, tries, failure>>
    <3>1. pc'[c] = "ask" /\ res' = res /\ pos' = pos
      BY <1>1, <2>3 DEF Goto, place, TypeOK
    <3> QED
      BY <1>1, <2>1, <3>1, GotoShortens
  <2> QED
    BY <1>1, <1>2, <2>1, <2>2, <2>3, AcquiredShortens, FailWithShortens DEF PreRead
<1>3. CASE Ask(c)
  <2>1. pc[c] = "ask"
    BY <1>3 DEF Ask
  <2>2. CASE Goto(c, "poll") /\ UNCHANGED <<place, owed, tries, failure>>
    <3>1. pc'[c] = "poll" /\ res' = res /\ pos' = pos
      BY <1>1, <2>2 DEF Goto, place, TypeOK
    <3> QED
      BY <1>1, <2>1, <3>1, GotoShortens
  <2>3. ASSUME NEW code, NEW a \in BOOLEAN, FailWith(c, code, a)
        PROVE  Left(c)' < Left(c)
    BY <1>1, <2>1, <2>3, FailWithShortens
  <2> QED
    BY <1>3, <2>2, <2>3 DEF Ask, Unnamed, Unclear, Refused
<1>4. ASSUME NEW code, FailWith(c, code, TRUE), pc[c] \in {"poll", "post"}
      PROVE  Left(c)' < Left(c)
  BY <1>1, <1>4, FailWithMoves, NoneLeft DEF Ended, Running
<1>5. CASE Poll(c)
  <2>1. pc[c] = "poll"
    BY <1>5 DEF Poll
  <2>2. CASE /\ Goto(c, "post") /\ tries' = [tries EXCEPT ![c] = 0]
             /\ UNCHANGED <<place, owed, failure>>
    <3>1. pc'[c] = "post" /\ tries'[c] = 0 /\ res' = res /\ pos' = pos
      BY <1>1, <2>2 DEF Goto, place, TypeOK
    <3> QED
      BY <1>1, <2>1, <3>1, GotoShortens
  <2> QED
    BY <1>4, <1>5, <2>1, <2>2 DEF Poll
<1>6. CASE GiveUp(c)
  BY <1>4, <1>6 DEF GiveUp
<1>7. CASE PostRead(c)
  <2>1. pc[c] = "post"
    BY <1>7 DEF PostRead
  <2>2. CASE tries' = [tries EXCEPT ![c] = tries[c] + 1] /\ UNCHANGED <<pc, place, owed, failure>>
    <3>1. pc'[c] = "post" /\ tries'[c] = tries[c] + 1 /\ res' = res /\ pos' = pos
      BY <1>1, <2>1, <2>2 DEF place, TypeOK
    <3> QED
      BY <1>1, <2>1, <3>1, GotoShortens
  <2> QED
    BY <1>1, <1>4, <1>7, <2>1, <2>2, AcquiredShortens DEF PostRead
<1>8. CASE Recheck(c)
  <2>1. pc[c] = "recheck"
    BY <1>8 DEF Recheck
  <2>2. CASE tries' = [tries EXCEPT ![c] = tries[c] + 1] /\ UNCHANGED <<pc, place, owed, failure>>
    <3>1. pc'[c] = "recheck" /\ tries'[c] = tries[c] + 1 /\ res' = res /\ pos' = pos
      BY <1>1, <2>1, <2>2 DEF place, TypeOK
    <3> QED
      BY <1>1, <2>1, <3>1, GotoShortens
  <2>3. ASSUME NEW t \in BOOLEAN, Fail(c, TRUE, t)
        PROVE  Left(c)' < Left(c)
    BY <1>1, <2>1, <2>3, FailEnds, NoneLeft DEF Ended, Running
  <2>4. CASE Ready(c)
    BY <1>1, <2>1, <2>4, ReadyEnds, NoneLeft DEF Ended, Running
  <2> QED
    BY <1>8, <2>2, <2>3, <2>4 DEF Recheck, QuoteErrors
<1>9. CASE Crash(c)
  <2>1. pc[c] \in Running /\ pc'[c] = "crashed"
    BY <1>1, <1>9 DEF Crash, Goto, TypeOK
  <2> QED
    BY <1>1, <2>1, NoneLeft DEF Ended
<1> QED
  BY <1>1, <1>2, <1>3, <1>5, <1>6, <1>7, <1>8, <1>9, EstimateShortens, ReadAccountShortens DEF CallStep

LEMMA NoStepBack ==
    ASSUME IInv, Next, NEW d \in Calls,
           <<pc[d], res[d], pos[d], tries[d]>>' # <<pc[d], res[d], pos[d], tries[d]>>
    PROVE  Left(d)' < Left(d)
<1>1. ASSUME NEW c \in Calls, CallStep(c) \/ Crash(c)
      PROVE  Left(d)' < Left(d)
  <2>1. c = d
    BY <1>1, CallKeepsIInv DEF Kept, CallTyped
  <2> QED
    BY <1>1, <2>1, CallShortens
<1>2. \E c \in Calls : CallStep(c) \/ Crash(c)
  BY DEF Next, Activate, Delegate, FailOrder, Decay, place
<1> QED
  BY <1>1, <1>2

\* Nothing leads a call back (the loops over the provider chains and the
\* rechecks): whatever the providers, the account and other calls do, its own
\* steps use up a number of them that the configured attempts bound.
THEOREM NothingLeadsBack == Spec => NoWayBack
<1>1. IInv /\ [Next]_vars =>
        [\A c \in Calls : <<pc[c], res[c], pos[c], tries[c]>>' # <<pc[c], res[c], pos[c], tries[c]>> =>
            Left(c)' < Left(c)]_vars
  BY NoStepBack
<1> QED
  BY <1>1, ProvisioningInvariant, PTL DEF Spec, NoWayBack
=============================================================================
