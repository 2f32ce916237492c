--------------------------- MODULE UsdtProvisioning ---------------------------
(***************************************************************************)
(* The energy and bandwidth a source account needs before it sends USDT:    *)
(* app/usdt_resource_provisioning.py and the two providers it rents from,   *)
(* app/resource_providers/profeex.py and refee.py.  A call quotes what is   *)
(* missing, rents bandwidth and then energy from the first provider of a    *)
(* chain that will, waits for each order, and reads the chain again before  *)
(* it says that the transfer may be sent.  The calls are those of one       *)
(* source account; nothing here keeps them apart (the payouts of the fee    *)
(* deposit come one at a time, behind its spend lock, sweeps may overlap).  *)
(***************************************************************************)
EXTENDS Naturals, Sequences

CONSTANTS
    Calls,       \* calls of ensure_usdt_transfer_resources for one account
    Configs,     \* the configurations to consider
    Attempts,    \* PAYOUT_RESOURCE_POST_ACTIVE_RECHECK_ATTEMPTS
    MaxDecays    \* bound on energy or bandwidth going away (spent, rent over)

Providers == {"profeex", "refee"}
Resources == {"bandwidth", "energy"}
Positions == 1..2

\* A configuration: the primary provider of each resource ("none" stands for
\* BANDWIDTH_PROVIDER=disabled and for ENERGY_PROVIDER=staking), re:Fee as the
\* fallback of both or not, the providers whose fixed energy order makes them
\* ask for more than the transfer needs, whether ProfeeX's fixed bandwidth
\* order is enough for a transfer, and the calls there are.
ConfigType ==
    [primary : [Resources -> Providers \cup {"none"}], fallback : BOOLEAN,
     full : SUBSET Providers, fits : BOOLEAN, calls : SUBSET Calls]

ASSUME ProvisioningAssumption ==
    /\ Configs \subseteq ConfigType
    /\ Attempts \in Nat \ {0} /\ MaxDecays \in Nat

\* An order is named by the call, the resource and the place in the chain: a
\* call asks each provider for each resource at most once.
Orders == Calls \X Resources \X Positions

VARIABLES
    config,     \* the configuration, fixed
    level,      \* per resource what the account has: 0 too little for the
                \* transfer, 1 enough, 2 enough for a fixed order's threshold too
    order,      \* an order at its provider
    answer,     \* what the call was told when it ordered
    pc,         \* per call, where it is
    res, pos,   \* per call, the resource and the place in the chain it is at
    owed,       \* per call, the deficits of its first quote
    tries,      \* per call, the reads it made of the chain in a row
    failure,    \* per call, the error it raised
    decays

vars == <<config, level, order, answer, pc, res, pos, owed, tries, failure, decays>>
chain == <<level, decays>>
place == <<res, pos>>
rented == <<order, answer>>

Enough == 1
Top == 2
NoError == [accepted |-> FALSE, temporary |-> FALSE]
Running == {"account", "pre", "ask", "poll", "post", "recheck"}
Ended == {"ready", "failed", "crashed"}

TypeOK ==
    /\ config \in Configs
    /\ level \in [Resources -> 0..Top]
    /\ order \in [Orders -> {"none", "open", "active", "delegated", "failed"}]
    /\ answer \in [Orders -> {"none", "accepted", "unclear", "refused"}]
    /\ pc \in [Calls -> {"idle"} \cup Running \cup Ended]
    /\ res \in [Calls -> Resources]
    /\ pos \in [Calls -> 0..2]
    /\ owed \in [Calls -> SUBSET Resources]
    /\ tries \in [Calls -> 0..Attempts]
    /\ failure \in [Calls -> [accepted : BOOLEAN, temporary : BOOLEAN]]
    /\ decays \in 0..MaxDecays

Init ==
    /\ config \in Configs
    /\ level \in [Resources -> 0..Top]
    /\ order = [o \in Orders |-> "none"]
    /\ answer = [o \in Orders |-> "none"]
    /\ pc = [c \in Calls |-> "idle"]
    /\ res = [c \in Calls |-> "bandwidth"]
    /\ pos = [c \in Calls |-> 0]
    /\ owed = [c \in Calls |-> {}]
    /\ tries = [c \in Calls |-> 0]
    /\ failure = [c \in Calls |-> NoError]
    /\ decays = 0

-----------------------------------------------------------------------------
\* The providers to try for a resource, in order.
Chain(r) ==
    LET first == IF config.primary[r] = "none" THEN <<>> ELSE <<config.primary[r]>>
    IN  IF config.fallback /\ config.primary[r] # "refee" THEN Append(first, "refee") ELSE first

Provider(c) == Chain(res[c])[pos[c]]
Order(c) == <<c, res[c], pos[c]>>

\* A provider with a fixed energy order wants the account to have all of it,
\* less a tolerance, before and after the order.
Target(p, r) == IF r = "energy" /\ p \in config.full THEN Top ELSE Enough

Short == {r \in Resources : level[r] < Enough}

\* A mutant: an accepted order does not end the chain.
ProfeeXFailureByCode(code, accepted) ==
    [eligible |-> code # "invalid", accepted |-> accepted, temporary |-> code # "invalid"]

\* A mutant: a timed-out order counts as none.
ProfeeXFailureTimeoutIsClean(code, accepted) ==
    [eligible |-> ~ accepted /\ code # "invalid", accepted |-> accepted /\ code # "unavailable",
     temporary |-> code # "invalid"]

\* What a failure of a provider means for the call: may the next provider be
\* asked, has an order been accepted, may the caller try again later.
\* "unavailable" stands for network errors, timeouts, 408, 429, 5xx, and for
\* orders that failed or were not served in time; "balance" for an empty
\* account; "invalid" for rejected parameters, keys or addresses.
ProfeeXFailure(code, accepted) ==
    [eligible |-> ~ accepted /\ code # "invalid", accepted |-> accepted, temporary |-> code # "invalid"]

RefeeFailure(code, accepted) ==
    [eligible |-> ~ accepted /\ code = "unavailable", accepted |-> accepted,
     temporary |-> accepted \/ code # "invalid"]

Failure(p, code, accepted) ==
    IF p = "profeex" THEN ProfeeXFailure(code, accepted) ELSE RefeeFailure(code, accepted)

Goto(c, label) == pc' = [pc EXCEPT ![c] = label]

\* A call that ends takes its locals with it.
Forget(c) ==
    /\ res' = [res EXCEPT ![c] = "bandwidth"]
    /\ pos' = [pos EXCEPT ![c] = 0]
    /\ owed' = [owed EXCEPT ![c] = {}]
    /\ tries' = [tries EXCEPT ![c] = 0]

Fail(c, accepted, temporary) ==
    /\ Goto(c, "failed")
    /\ failure' = [failure EXCEPT ![c] = [accepted |-> accepted, temporary |-> temporary]]
    /\ Forget(c)

Ready(c) == Goto(c, "ready") /\ Forget(c) /\ UNCHANGED failure

\* After a provider's failure: the account is read again before the next
\* provider is asked, or the call fails with what the provider said.
FailWith(c, code, accepted) ==
    LET f == Failure(Provider(c), code, accepted)
    IN  IF f.eligible
        THEN Goto(c, "account") /\ UNCHANGED <<place, owed, tries, failure>>
        ELSE Fail(c, f.accepted, f.temporary)

\* Turn to a resource.  Energy starts with a read of the account.
Begin(c, r) ==
    /\ res' = [res EXCEPT ![c] = r]
    /\ pos' = [pos EXCEPT ![c] = IF r = "energy" THEN 0 ELSE 1]
    /\ Goto(c, IF r = "energy" THEN "account" ELSE "pre")

\* A resource is there: the other one is next, or the final quote.
Acquired(c) ==
    /\ tries' = [tries EXCEPT ![c] = 0]
    /\ IF res[c] = "bandwidth" /\ "energy" \in owed[c]
       THEN Begin(c, "energy")
       ELSE Goto(c, "recheck") /\ UNCHANGED place
    /\ UNCHANGED <<owed, failure>>

-----------------------------------------------------------------------------
\* May the caller try again after a quote that is blocked?  re:Fee's estimate
\* only fails in passing; ProfeeX's may be refused, or show a destination that
\* is not active.
QuoteErrors == IF config.primary["energy"] = "refee" THEN {TRUE} ELSE BOOLEAN

\* The first quote.  It fails when the account or the estimate cannot be read,
\* when the destination is not active, or when a missing resource has no
\* provider; nothing was ordered then.
Estimate(c) ==
    /\ pc[c] = "idle"
    /\ c \in config.calls
    /\ \/ \E temporary \in QuoteErrors : Fail(c, FALSE, temporary)
       \/ (\E r \in Short : Len(Chain(r)) = 0) /\ Fail(c, FALSE, FALSE)
       \/ Short = {} /\ Ready(c)
       \/ /\ Short # {} /\ \A r \in Short : Len(Chain(r)) > 0
          /\ owed' = [owed EXCEPT ![c] = Short]
          /\ Begin(c, IF "bandwidth" \in Short THEN "bandwidth" ELSE "energy")
          /\ UNCHANGED <<tries, failure>>
    /\ UNCHANGED <<config, chain, rented>>

\* A mutant: the provider that failed is asked again.
ReadAccountSameProvider(c) ==
    /\ pc[c] = "account"
    /\ \/ level[res[c]] >= Enough /\ Acquired(c)
       \/ /\ level[res[c]] < Enough
          /\ pos' = [pos EXCEPT ![c] = IF pos[c] = 0 THEN 1 ELSE pos[c]]
          /\ Goto(c, "pre")
          /\ UNCHANGED <<res, owed, tries, failure>>
    /\ UNCHANGED <<config, chain, rented>>

\* The account is read before the first energy provider and after each
\* provider that could be passed over.
ReadAccount(c) ==
    /\ pc[c] = "account"
    /\ \/ Fail(c, FALSE, TRUE)
       \/ level[res[c]] >= Enough /\ Acquired(c)
       \/ /\ level[res[c]] < Enough /\ pos[c] < Len(Chain(res[c]))
          /\ pos' = [pos EXCEPT ![c] = pos[c] + 1]
          /\ Goto(c, "pre")
          /\ UNCHANGED <<res, owed, tries, failure>>
       \/ level[res[c]] < Enough /\ pos[c] >= Len(Chain(res[c])) /\ Fail(c, FALSE, TRUE)
    /\ UNCHANGED <<config, chain, rented>>

\* ProfeeX sells bandwidth in one size.
Fits(c) == Provider(c) = "profeex" /\ res[c] = "bandwidth" => config.fits

\* A provider reads the account itself before it orders.  A failing read of
\* the energy is its failure, one of the bandwidth an error of the whole call.
PreRead(c) ==
    LET p == Provider(c)
    IN  /\ pc[c] = "pre"
        /\ \/ Fail(c, FALSE, res[c] = "energy")
           \/ level[res[c]] >= Target(p, res[c]) /\ Acquired(c)
           \/ /\ level[res[c]] < Target(p, res[c])
              /\ IF Fits(c)
                 THEN Goto(c, "ask") /\ UNCHANGED <<place, owed, tries, failure>>
                 ELSE FailWith(c, "unavailable", FALSE)
        /\ UNCHANGED <<config, chain, rented>>

Answered(c, what, ordered) ==
    /\ answer' = [answer EXCEPT ![Order(c)] = what]
    /\ order' = [order EXCEPT ![Order(c)] = IF ordered THEN "open" ELSE "none"]

\* An accepted order without an id to ask for it by.
Unnamed(c) == Answered(c, "accepted", TRUE) /\ FailWith(c, "other", TRUE)

\* A lost, late or 5xx answer leaves open whether there is an order.
Unclear(c) ==
    /\ \E ordered \in BOOLEAN : Answered(c, "unclear", ordered)
    /\ FailWith(c, "unavailable", FALSE)

Refused(c) ==
    /\ Answered(c, "refused", FALSE)
    /\ \E code \in {"unavailable", "balance", "invalid", "other"} : FailWith(c, code, FALSE)

\* The POST of the order, and the one answer that goes on with it.
Ask(c) ==
    /\ pc[c] = "ask"
    /\ \/ /\ Answered(c, "accepted", TRUE)
          /\ Goto(c, "poll")
          /\ UNCHANGED <<place, owed, tries, failure>>
       \/ Unnamed(c) \/ Unclear(c) \/ Refused(c)
    /\ UNCHANGED <<config, chain>>

\* A poll that sees the order served, or failed.
Poll(c) ==
    /\ pc[c] = "poll"
    /\ \/ /\ order[Order(c)] \in {"active", "delegated"}
          /\ Goto(c, "post")
          /\ tries' = [tries EXCEPT ![c] = 0]
          /\ UNCHANGED <<place, owed, failure>>
       \/ /\ order[Order(c)] = "failed"
          /\ \E code \in {"unavailable", "invalid", "other"} : FailWith(c, code, TRUE)
    /\ UNCHANGED <<config, chain, rented>>

\* timeout_sec is over, or an answer is not understood: the order may be open.
GiveUp(c) ==
    /\ pc[c] = "poll"
    /\ \E code \in {"unavailable", "other"} : FailWith(c, code, TRUE)
    /\ UNCHANGED <<config, chain, rented>>

\* ProfeeX reads the account several times after its order, re:Fee once.
PostReads(p) == IF p = "profeex" THEN Attempts ELSE 1

PostRead(c) ==
    LET p == Provider(c)
    IN  /\ pc[c] = "post"
        /\ \/ level[res[c]] >= Target(p, res[c]) /\ Acquired(c)
           \/ /\ tries[c] + 1 < PostReads(p)
              /\ tries' = [tries EXCEPT ![c] = tries[c] + 1]
              /\ UNCHANGED <<pc, place, owed, failure>>
           \/ tries[c] + 1 >= PostReads(p) /\ FailWith(c, "unavailable", TRUE)
        /\ UNCHANGED <<config, chain, rented>>

\* The final quote: both resources must be there in one reading.
Recheck(c) ==
    /\ pc[c] = "recheck"
    /\ \/ Fail(c, TRUE, TRUE)
       \/ Short = {} /\ Ready(c)
       \/ /\ tries[c] + 1 < Attempts
          /\ tries' = [tries EXCEPT ![c] = tries[c] + 1]
          /\ UNCHANGED <<pc, place, owed, failure>>
       \/ tries[c] + 1 >= Attempts /\ \E temporary \in QuoteErrors : Fail(c, TRUE, temporary)
    /\ UNCHANGED <<config, chain, rented>>

Crash(c) ==
    /\ pc[c] \in Running
    /\ Goto(c, "crashed")
    /\ Forget(c)
    /\ UNCHANGED <<config, chain, rented, failure>>

-----------------------------------------------------------------------------
\* The providers: an order is reported served a moment before the chain shows
\* what was delegated, or it fails.
Activate(o) ==
    /\ order[o] = "open"
    /\ order' = [order EXCEPT ![o] = "active"]
    /\ UNCHANGED <<config, chain, answer, pc, place, owed, tries, failure>>

Delegate(o) ==
    /\ order[o] = "active"
    /\ order' = [order EXCEPT ![o] = "delegated"]
    /\ \E l \in level[o[2]]..Top : level' = [level EXCEPT ![o[2]] = l]
    /\ UNCHANGED <<config, decays, answer, pc, place, owed, tries, failure>>

FailOrder(o) ==
    /\ order[o] = "open"
    /\ order' = [order EXCEPT ![o] = "failed"]
    /\ UNCHANGED <<config, chain, answer, pc, place, owed, tries, failure>>

\* Another transfer of the account uses it, a rent ends, a day's quota is used.
Decay(r) ==
    /\ decays < MaxDecays
    /\ decays' = decays + 1
    /\ \E l \in 0..Top : l < level[r] /\ level' = [level EXCEPT ![r] = l]
    /\ UNCHANGED <<config, rented, pc, place, owed, tries, failure>>

CallStep(c) ==
    \/ Estimate(c) \/ ReadAccount(c) \/ PreRead(c) \/ Ask(c)
    \/ Poll(c) \/ GiveUp(c) \/ PostRead(c) \/ Recheck(c)

Next ==
    \/ \E c \in Calls : CallStep(c) \/ Crash(c)
    \/ \E o \in Orders : Activate(o) \/ Delegate(o) \/ FailOrder(o)
    \/ \E r \in Resources : Decay(r)

Spec == Init /\ [][Next]_vars

\* A task that runs keeps running until it ends or its worker dies; a provider
\* owes nothing, but every wait for one has a deadline.
FairSpec == Spec /\ \A c \in Calls : WF_vars(CallStep(c))

-----------------------------------------------------------------------------
Served == {"active", "delegated"}

\* What a call has asked for, by where it is: nothing before it starts, nothing
\* behind its place in the chains, nothing accepted of the resource it is still
\* to order, and only served orders of bandwidth once it is at the energy.
NothingAsked(c, r) == \A i \in Positions : answer[<<c, r, i>>] = "none"
NothingAskedAfter(c, r, p) == \A i \in Positions : i > p => answer[<<c, r, i>>] = "none"
NothingAcceptedBefore(c, r, p) == \A i \in Positions : i < p => answer[<<c, r, i>>] # "accepted"
AcceptedWereServed(c, r) ==
    \A i \in Positions : answer[<<c, r, i>>] = "accepted" => order[<<c, r, i>>] \in Served

CallOK(c) ==
    /\ pc[c] = "idle" => NothingAsked(c, "bandwidth") /\ NothingAsked(c, "energy")
    /\ pc[c] \in Running \ {"recheck"} =>
          /\ NothingAskedAfter(c, res[c], pos[c])
          /\ NothingAcceptedBefore(c, res[c], pos[c])
          /\ res[c] = "bandwidth" => NothingAsked(c, "energy")
          /\ res[c] = "energy" => AcceptedWereServed(c, "bandwidth")
    /\ pc[c] = "account" /\ pos[c] \in Positions => answer[Order(c)] # "accepted"
    /\ pc[c] \in {"pre", "ask", "poll", "post"} => pos[c] \in 1..Len(Chain(res[c]))
    /\ pc[c] \in {"pre", "ask"} => answer[Order(c)] = "none"
    /\ pc[c] \in {"poll", "post"} => answer[Order(c)] = "accepted"
    /\ pc[c] = "post" => order[Order(c)] \in Served

IInv == TypeOK /\ \A c \in Calls : CallOK(c)

\* No second rent after an accepted one (_provision_bandwidth and
\* _provision_energy go on to the next provider only when the failure is
\* fallback_eligible): whatever became of an accepted order, late, failed,
\* without an id or short on the chain, the call asks nobody else for that
\* resource.
NoRentAfterAcceptance ==
    \A c \in Calls : \A r \in Resources : \A i, j \in Positions :
        i < j /\ answer[<<c, r, j>>] # "none" => answer[<<c, r, i>>] # "accepted"

\* A failure that says no order was accepted, which the payout then retries
\* from the start (payout_execution.py:63-73), leaves no accepted order behind
\* that could still be served: the only ones are of the other resource and were
\* served before the call went on.
CleanFailureOwesNothing ==
    \A c \in Calls : pc[c] = "failed" /\ ~ failure[c].accepted =>
        \A o \in Orders : o[1] = c /\ answer[o] = "accepted" => order[o] \in Served

\* A call says ready only in a step that reads both resources as sufficient:
\* not after renting one of them while the other one was used up meanwhile.
ReadyMeansBoth ==
    [][\A c \in Calls : pc[c] # "ready" /\ pc'[c] = "ready" =>
          \A r \in Resources : level[r] >= Enough]_vars

\* Every call that has started ends: every wait has an end, and nothing sends
\* it back to a provider it has asked.
EveryCallEnds == \A c \in Calls : pc[c] \in Running ~> pc[c] \in Ended

\* The steps a call may still take, with every wait as long as it can be: the
\* ones at the provider it is at, a Round for each place behind it in the
\* chain, and what follows once the resource is there.
Round == Attempts + 4
AtProvider(label, read) ==
    CASE label = "account" -> 1
      [] label = "pre" -> Round
      [] label = "ask" -> Round - 1
      [] label = "poll" -> Round - 2
      [] OTHER -> Attempts + 1 - read
Once(r) == IF r = "energy" THEN Attempts + 1 ELSE Attempts + 2 + 2 * Round
AtResource(r, p) == Once(r) + (2 - p) * Round
Left(c) ==
    CASE pc[c] = "idle" -> AtResource("bandwidth", 0) + 1
      [] pc[c] = "recheck" -> Attempts + 1 - tries[c]
      [] pc[c] \in Ended -> 0
      [] OTHER -> AtResource(res[c], pos[c]) + AtProvider(pc[c], tries[c])

\* Nothing leads back (the loops over _energy_provider_chain and
\* _bandwidth_provider_chain, the recheck loops): wherever a step takes a call,
\* and whatever the account, the providers and other calls do meanwhile, it has
\* fewer steps left.  A call takes at most 5 * Attempts + 19 of them.
NoWayBack ==
    [][\A c \in Calls : <<pc[c], res[c], pos[c], tries[c]>>' # <<pc[c], res[c], pos[c], tries[c]>> =>
          Left(c)' < Left(c)]_vars
=============================================================================
