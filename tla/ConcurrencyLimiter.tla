------------------------- MODULE ConcurrencyLimiter -------------------------
(***************************************************************************)
(* The calls of one provider: providers/concurrency-limiter.ts.            *)
(*                                                                         *)
(* At most MaxConcurrent calls stream at once.  The others wait in line; a *)
(* call that ends hands its slot over to the first of them, which resumes  *)
(* later.  The line is represented by who stands ahead of whom; every      *)
(* agent has one call at a time.                                           *)
(***************************************************************************)
EXTENDS Naturals, RunAgents

CONSTANT MaxConcurrent  \* maxConcurrent

ASSUME LimiterAssumption == MaxConcurrent \in Nat \ {0}

VARIABLES
    active,  \* the slots that are taken
    call,    \* the call of each agent
    ahead    \* the waiters that stand ahead of one

limiterVars == <<active, call, ahead>>

Waiting == {a \in Agents : call[a] = "queued"}
Holders == {a \in Agents : call[a] \in {"granted", "streaming"}}

LimiterTypeOK ==
    /\ active \in Nat
    /\ call \in [Agents -> {"idle", "queued", "granted", "streaming"}]
    /\ ahead \in [Agents -> SUBSET Agents]

LimiterInit ==
    /\ active = 0
    /\ call = [a \in Agents |-> "idle"]
    /\ ahead = [a \in Agents |-> {}]

\* acquire(): without a free slot the call joins the line.
Acquire(a) ==
    /\ call[a] = "idle"
    /\ IF active < MaxConcurrent
       THEN /\ active' = active + 1
            /\ call' = [call EXCEPT ![a] = "streaming"]
            /\ UNCHANGED ahead
       ELSE /\ call' = [call EXCEPT ![a] = "queued"]
            /\ ahead' = [ahead EXCEPT ![a] = Waiting]
            /\ UNCHANGED active

\* The promise of a call that was given a slot resolves; the slot has been counted.
Resume(a) ==
    /\ call[a] = "granted"
    /\ call' = [call EXCEPT ![a] = "streaming"]
    /\ UNCHANGED <<active, ahead>>

\* Mutant of Frees: the slot is freed although it is handed over.
FreesAlways == TRUE

\* The slot is free when nobody waits for it.
Frees == Waiting = {}

\* release()
Release(a) ==
    /\ call[a] = "streaming"
    /\ active' = IF Frees THEN active - 1 ELSE active
    /\ \/ /\ Waiting = {}
          /\ call' = [call EXCEPT ![a] = "idle"]
          /\ UNCHANGED ahead
       \/ \E b \in Waiting :
             /\ ahead[b] = {}
             /\ call' = [call EXCEPT ![a] = "idle", ![b] = "granted"]
             /\ ahead' = [c \in Agents |-> ahead[c] \ {b}]

\* The signals of some agents are aborted: those of them that wait leave the line; a
\* call that was given a slot goes on and fails.
LeaveLine(left) ==
    /\ call' = [a \in Agents |-> IF a \in left /\ call[a] = "queued" THEN "idle" ELSE call[a]]
    /\ ahead' = [a \in Agents |-> IF a \in left THEN {} ELSE ahead[a] \ left]
    /\ UNCHANGED active

LimiterNext ==
    \/ \E a \in Agents : Acquire(a) \/ Resume(a) \/ Release(a)
    \/ \E left \in SUBSET Agents : LeaveLine(left)

LimiterSpec == LimiterInit /\ [][LimiterNext]_limiterVars

\* Every slot has one call, there are not too many of them, and nobody waits beside a
\* free slot: whatever is handed over or aborted meanwhile.
SlotsAreKept ==
    /\ active = Cardinality(Holders)
    /\ active <= MaxConcurrent
    /\ Waiting # {} => active = MaxConcurrent
=============================================================================
