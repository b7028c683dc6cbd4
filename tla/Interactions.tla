---------------------------- MODULE Interactions ----------------------------
(***************************************************************************)
(* Questions to the user: agent/interaction-coordinator.ts, which keeps    *)
(* them in interactions.json, and createInteraction() to                   *)
(* cancelInteractionWaiters() of agent/run-control.ts.                     *)
(*                                                                         *)
(* Every agent has one question at a time.  What becomes of one that       *)
(* nobody waits for any more has no effect and is left out.                *)
(***************************************************************************)
EXTENDS RunAgents

VARIABLES
    question,    \* the entry of the file
    waiters,     \* interactionWaiters
    recheck,     \* the look at the file after the waiter was registered
    delivering   \* questions whose answer is saved, with the waiter still to be told

interactionVars == <<question, waiters, recheck, delivering>>

InteractionsTypeOK ==
    /\ question \in [Agents -> {"none", "pending", "answered"}]
    /\ waiters \subseteq Agents
    /\ recheck \in [Agents -> {"none", "reads", "pending", "answered"}]
    /\ delivering \subseteq Agents

InteractionsInit ==
    /\ question = [a \in Agents |-> "none"]
    /\ waiters = {}
    /\ recheck = [a \in Agents |-> "none"]
    /\ delivering = {}

\* createInteraction()
CreateQuestion(a) ==
    /\ question' = [question EXCEPT ![a] = "pending"]
    /\ UNCHANGED <<waiters, recheck, delivering>>

\* Mutant of Await: the file is not looked at again.
AwaitUnchecked(a) ==
    /\ waiters' = waiters \cup {a}
    /\ UNCHANGED <<question, recheck, delivering>>

\* waitForInteractionAnswer(): the waiter first, then a look at the file.
Await(a) ==
    /\ waiters' = waiters \cup {a}
    /\ recheck' = [recheck EXCEPT ![a] = "reads"]
    /\ UNCHANGED <<question, delivering>>

ReadQuestion(a) ==
    /\ recheck[a] = "reads"
    /\ recheck' = [recheck EXCEPT ![a] = question[a]]
    /\ UNCHANGED <<question, waiters, delivering>>

\* The questions of some agents are settled.
Settled(as) ==
    /\ question' = [a \in Agents |-> IF a \in as THEN "none" ELSE question[a]]
    /\ waiters' = waiters \ as
    /\ recheck' = [a \in Agents |-> IF a \in as THEN "none" ELSE recheck[a]]
    /\ delivering' = delivering \ as

\* The answer was there before the waiter.
FoundAnswered(a) ==
    /\ recheck[a] = "answered"
    /\ Settled({a})

FoundPending(a) ==
    /\ recheck[a] = "pending"
    /\ recheck' = [recheck EXCEPT ![a] = "none"]
    /\ UNCHANGED <<question, waiters, delivering>>

\* respondInteraction() changes the file, once, ...
SaveAnswer(a) ==
    /\ question[a] = "pending"
    /\ question' = [question EXCEPT ![a] = "answered"]
    /\ delivering' = delivering \cup {a}
    /\ UNCHANGED <<waiters, recheck>>

\* ... and tells the waiter ...
DeliverAnswer(a) ==
    /\ a \in delivering
    /\ a \in waiters
    /\ Settled({a})

\* ... if there is one.
DeliverToNobody(a) ==
    /\ a \in delivering
    /\ a \notin waiters
    /\ delivering' = delivering \ {a}
    /\ UNCHANGED <<question, waiters, recheck>>
=============================================================================
