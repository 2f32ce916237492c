---------------------------- MODULE CallbackContract ----------------------------
(***************************************************************************)
(* What the outbox promises of a payout's notification, without tasks,      *)
(* claims, batches or clocks: it is sent or given up after a fixed number   *)
(* of counted attempts, once and for all.                                   *)
(*                                                                         *)
(* The promise is as weak as the code: the consumer may get a notification  *)
(* at any time from its creation on, again, and after it was given up.      *)
(***************************************************************************)
EXTENDS Naturals

CONSTANTS Callbacks, MaxAttempts

VARIABLES
    stage,      \* what has become of a notification
    tries,      \* the attempts counted
    received    \* the notifications the consumer has

contractVars == <<stage, tries, received>>

ContractInit ==
    /\ stage = [c \in Callbacks |-> "absent"]
    /\ tries = [c \in Callbacks |-> 0]
    /\ received = {}

Queue(c) ==
    /\ stage[c] = "absent"
    /\ stage' = [stage EXCEPT ![c] = "open"]
    /\ UNCHANGED <<tries, received>>

Receive(c) ==
    /\ stage[c] # "absent"
    /\ received' = received \cup {c}
    /\ UNCHANGED <<stage, tries>>

\* An attempt counts when its result does: what it decides and the counter move together.
Attempt(c, result) ==
    /\ stage[c] = "open"
    /\ stage' = [stage EXCEPT ![c] = result]
    /\ tries' = [tries EXCEPT ![c] = tries[c] + 1]
    /\ UNCHANGED received

Retry(c) == tries[c] + 1 < MaxAttempts /\ Attempt(c, "open")

Deliver(c) == c \in received /\ Attempt(c, "sent")

GiveUp(c) == tries[c] + 1 = MaxAttempts /\ Attempt(c, "given up")

ContractNext ==
    \E c \in Callbacks : Queue(c) \/ Receive(c) \/ Retry(c) \/ Deliver(c) \/ GiveUp(c)

ContractSpec == ContractInit /\ [][ContractNext]_contractVars
================================================================================
