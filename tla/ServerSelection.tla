---------------------------- MODULE ServerSelection ----------------------------
(***************************************************************************)
(* The choice of the full node every component talks to:                    *)
(* app/connection_manager.py.  A thread of the API process polls the        *)
(* servers one after the other, picks the highest of those that answered    *)
(* and stores its id in the settings table, from which every client, the    *)
(* workers' ones too, takes it.  Two endpoints change the id as well.       *)
(***************************************************************************)
EXTENDS Naturals, FiniteSets

CONSTANTS
    N,            \* number of servers
    MaxBlock,     \* bound on the height of a server
    MaxOutages,   \* bound on outages of servers
    MaxErrors,    \* bound on failing accesses to the settings table
    MaxChanges,   \* bound on requests to the endpoints
    MaxRestarts   \* bound on restarts of the API process

ASSUME SelectionAssumption ==
    /\ N \in Nat \ {0} /\ MaxBlock \in Nat \ {0}
    /\ MaxOutages \in Nat /\ MaxErrors \in Nat /\ MaxChanges \in Nat /\ MaxRestarts \in Nat

Servers == 0..(N - 1)
NoServer == N
NoAnswer == 0

\* The refresh thread, and the requests to /multiserver/switch-to-best.
Pollers == {"refresher", "api"}

VARIABLES
    online,       \* servers that answer
    hung,         \* servers that take a request and neither answer nor refuse it
    at,           \* the height of each server
    current,      \* current_server_id, NoServer before its INSERT
    pc,           \* per poller: "start", "poll", "held", "write", "idle" or "ended"
    first,        \* is the refresher still at its first choice?
    next,         \* per poller, the server to ask next
    seen,         \* per poller, the heights answered
    best,         \* per poller, its choice
    out,          \* history: servers out at some time since the refresher's poll began
    outages, errors, changes, restarts

vars == <<online, hung, at, current, pc, first, next, seen, best, out,
          outages, errors, changes, restarts>>
servers == <<online, hung, at, outages>>
poll == <<next, seen, best, out>>
bounds == <<errors, changes, restarts>>

TypeOK ==
    /\ online \subseteq Servers /\ hung \subseteq Servers \ online
    /\ at \in [Servers -> 1..MaxBlock]
    /\ current \in Servers \cup {NoServer}
    /\ DOMAIN pc = Pollers
    /\ pc["refresher"] \in {"start", "poll", "held", "write", "ended"}
    /\ pc["api"] \in {"idle", "poll", "held", "write"}
    /\ first \in BOOLEAN
    /\ next \in [Pollers -> 0..N]
    /\ \A p \in Pollers : pc[p] = "held" => next[p] \in Servers
    /\ seen \in [Pollers -> [Servers -> 0..MaxBlock]]
    /\ best \in [Pollers -> Servers]
    /\ out \subseteq Servers
    /\ outages \in 0..MaxOutages /\ errors \in 0..MaxErrors
    /\ changes \in 0..MaxChanges /\ restarts \in 0..MaxRestarts

NobodyAnswered == [s \in Servers |-> NoAnswer]

Init ==
    /\ online = Servers /\ hung = {}
    /\ at \in [Servers -> 1..MaxBlock]
    /\ current = NoServer
    /\ pc = [p \in Pollers |-> IF p = "refresher" THEN "start" ELSE "idle"]
    /\ first = FALSE
    /\ next = [p \in Pollers |-> 0]
    /\ seen = [p \in Pollers |-> NobodyAnswered]
    /\ best = [p \in Pollers |-> 0]
    /\ out = {}
    /\ outages = 0 /\ errors = 0 /\ changes = 0 /\ restarts = 0

--------------------------------------------------------------------------------
(* The servers                                                              *)

Advance(s) ==
    /\ at[s] < MaxBlock
    /\ at' = [at EXCEPT ![s] = @ + 1]
    /\ UNCHANGED <<online, hung, outages, current, pc, first, poll, bounds>>

Leaves(s) ==
    /\ s \in online /\ outages < MaxOutages
    /\ online' = online \ {s}
    /\ out' = out \cup {s}
    /\ outages' = outages + 1
    /\ UNCHANGED <<at, current, pc, first, next, seen, best, bounds>>

\* It refuses requests, or answers with an error.
GoDown(s) == Leaves(s) /\ UNCHANGED hung

\* It takes requests and does not answer them.
Hang(s) == Leaves(s) /\ hung' = hung \cup {s}

GoUp(s) ==
    /\ s \in Servers \ online
    /\ online' = online \cup {s}
    /\ hung' = hung \ {s}
    /\ UNCHANGED <<at, outages, current, pc, first, poll, bounds>>

--------------------------------------------------------------------------------
(* A poll of the servers                                                    *)

\* A new get_servers_status begins with the first server.
Repoll(p) ==
    /\ pc' = [pc EXCEPT ![p] = "poll"]
    /\ next' = [next EXCEPT ![p] = 0]
    /\ seen' = [seen EXCEPT ![p] = NobodyAnswered]
    /\ out' = IF p = "refresher" THEN Servers \ online ELSE out
    /\ UNCHANGED best

\* What an exception does: the first choice of the refresher is retried, the loop that
\* refreshes it is left and its thread ends, a request is answered with an error.
Raise(p) ==
    IF p = "refresher" /\ first THEN Repoll(p)
    ELSE /\ pc' = [pc EXCEPT ![p] = IF p = "refresher" THEN "ended" ELSE "idle"]
         /\ UNCHANGED poll

\* The thread starts: it needs a first choice if the table has none.
Start ==
    /\ pc["refresher"] = "start"
    /\ first' = (current = NoServer)
    /\ Repoll("refresher")
    /\ UNCHANGED <<servers, current, bounds>>

\* The status of the server asked, with which the loop of get_servers_status goes on.
Answered(p, height) ==
    /\ seen' = [seen EXCEPT ![p][next[p]] = height]
    /\ next' = [next EXCEPT ![p] = @ + 1]
    /\ UNCHANGED <<servers, current, first, best, out, bounds>>

\* get_servers_status asks one server after the other; a single one is not even asked.
Asking(p) == pc[p] = "poll" /\ N > 1 /\ next[p] < N

Ask(p) ==
    /\ Asking(p) /\ next[p] \notin hung
    /\ Answered(p, IF next[p] \in online THEN at[next[p]] ELSE NoAnswer)
    /\ UNCHANGED pc

\* The requests have no timeout.
Hold(p) ==
    /\ Asking(p) /\ next[p] \in hung
    /\ pc' = [pc EXCEPT ![p] = "held"]
    /\ UNCHANGED <<servers, current, first, poll, bounds>>

\* The server answers after all or the connection breaks; nothing makes either happen.
Release(p) ==
    /\ pc[p] = "held"
    /\ \/ Answered(p, NoAnswer)
       \/ next[p] \in online /\ Answered(p, at[next[p]])
    /\ pc' = [pc EXCEPT ![p] = "poll"]

\* A mutant: of servers at the same height any may be picked.
IsBestOfEqual(answers, s) == \A r \in Servers : answers[r] <= answers[s]

\* max: the first of the highest.
IsBest(answers, s) ==
    \A r \in Servers : answers[r] <= answers[s] /\ (r < s => answers[r] < answers[s])

\* A mutant: one silent server is enough.
SomebodySilent(p) == \E s \in Servers : seen[p][s] = NoAnswer

\* not online_servers
AllOffline(p) == \A s \in Servers : seen[p][s] = NoAnswer

\* get_best_server_id
Choose(p) ==
    /\ pc[p] = "poll" /\ ~Asking(p)
    /\ IF N > 1 /\ AllOffline(p)
       THEN Raise(p)                                   \* AllServersOffline
       ELSE /\ \E s \in Servers : IsBest(seen[p], s) /\ best' = [best EXCEPT ![p] = s]
            /\ pc' = [pc EXCEPT ![p] = "write"]
            /\ UNCHANGED <<next, seen, out>>
    /\ UNCHANGED <<servers, current, first, bounds>>

\* set_current_server_id: an UPDATE, which changes nothing before the INSERT.
Updated(s) == IF current = NoServer THEN NoServer ELSE s

\* The INSERT of the first choice, or refresh_best_server's UPDATE of another one.
Write(p) ==
    /\ pc[p] = "write"
    /\ IF p = "refresher" /\ first
       THEN current' = best[p] /\ first' = FALSE
       ELSE current' = Updated(best[p]) /\ UNCHANGED first
    /\ IF p = "refresher" THEN Repoll(p)
       ELSE pc' = [pc EXCEPT ![p] = "idle"] /\ UNCHANGED poll
    /\ UNCHANGED <<servers, bounds>>

\* The settings table cannot be read or written.
Error(p) ==
    /\ pc[p] \in {"start", "poll", "write"}
    /\ errors < MaxErrors
    /\ errors' = errors + 1
    /\ Raise(p)
    /\ UNCHANGED <<servers, current, first, changes, restarts>>

--------------------------------------------------------------------------------
(* The endpoints and the process                                            *)

\* POST /multiserver/change
Change(s) ==
    /\ changes < MaxChanges
    /\ changes' = changes + 1
    /\ current' = Updated(s)
    /\ UNCHANGED <<servers, pc, first, poll, errors, restarts>>

\* POST /multiserver/switch-to-best
SwitchToBest ==
    /\ pc["api"] = "idle"
    /\ changes < MaxChanges
    /\ changes' = changes + 1
    /\ Repoll("api")
    /\ UNCHANGED <<servers, current, first, errors, restarts>>

Restart ==
    /\ restarts < MaxRestarts
    /\ restarts' = restarts + 1
    /\ pc' = [p \in Pollers |-> IF p = "refresher" THEN "start" ELSE "idle"]
    /\ first' = FALSE
    /\ UNCHANGED <<servers, current, poll, errors, changes>>

PollerStep(p) == Ask(p) \/ Hold(p) \/ Choose(p) \/ Write(p)

Next ==
    \/ \E s \in Servers : Advance(s) \/ GoDown(s) \/ Hang(s) \/ GoUp(s) \/ Change(s)
    \/ Start
    \/ \E p \in Pollers : PollerStep(p) \/ Release(p) \/ Error(p)
    \/ SwitchToBest
    \/ Restart

Spec == Init /\ [][Next]_vars

\* Threads run until a request of theirs is held; servers recover, answer what they hold
\* and grow when they like.
Fairness == WF_vars(Start) /\ \A p \in Pollers : WF_vars(PollerStep(p))

FairSpec == Spec /\ Fairness

--------------------------------------------------------------------------------

\* The refresher survives any number of outages, however they fall between its questions,
\* as long as one server stays up during a poll: it ends only after an error of the
\* settings table or in a poll in whose course each of several servers was out.
RefresherOutlivesOutages ==
    pc["refresher"] = "ended" => errors > 0 \/ (N > 1 /\ out = Servers)

\* The id in use ends up at a server that answers, if any does: a node that is down does
\* not stop the scanner and the workers for ever.  Three things excuse it: an error of the
\* settings table, a poll in whose course every server was out, and a server that holds
\* the refresher's request.
FailsOver ==
    <>[](/\ N > 1 /\ errors = 0 /\ out # Servers
         /\ pc["refresher"] # "held"
         /\ online # {}
         => current \in online)

\* Once the servers stand still, and they do as their heights are bounded, the choice does
\* too: the refresher does not go to and fro between servers of one height.
SelectionSettles == <>[][UNCHANGED current]_vars

--------------------------------------------------------------------------------
(* The inductive invariant behind RefresherOutlivesOutages                  *)

\* The servers that gave the refresher no answer in the poll it is in.
Silent ==
    {s \in Servers : s < next["refresher"] /\ seen["refresher"][s] = NoAnswer}

\* Each of them was out in the course of the poll, and so is what is out now or holds the
\* refresher's request.
OutsAreKnown ==
    /\ Servers \ online \subseteq out
    /\ pc["refresher"] \in {"poll", "held"} => Silent \subseteq out
    /\ pc["refresher"] = "held" => next["refresher"] \in out

IInv == TypeOK /\ OutsAreKnown /\ RefresherOutlivesOutages
================================================================================
