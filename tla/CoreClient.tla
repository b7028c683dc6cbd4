----------------------------- MODULE CoreClient -----------------------------
(***************************************************************************)
(* The server's end of the executor: server/src/core-client.ts, over the   *)
(* process of ExecPool.                                                    *)
(*                                                                         *)
(* One generation of the process is current.  When it exits, times out or  *)
(* cannot be reached, failConnection() rejects everything that waits for   *)
(* it, kills it and sets a timer for the next one; a request that meets no *)
(* process starts the next one at once.  At most `concurrency` commands    *)
(* are with the process, the others wait in a queue of their own, and a    *)
(* session with fewer running commands goes first.                         *)
(*                                                                         *)
(* Promises: `micro` holds the calls whose awaited promise has settled, in *)
(* the order they go on; nothing else happens in the server before it is   *)
(* empty.                                                                  *)
(***************************************************************************)
EXTENDS ExecPool

CONSTANTS
    MaxExecQueue,   \* 64
    MaxConcurrency, \* 8
    Concurrency,    \* 2, until setExecConcurrency() is called
    MaxFaults       \* bound: crashes and timeouts

ASSUME ClientAssumption ==
    /\ MaxExecQueue \in Nat \ {0}
    /\ MaxConcurrency \in Nat \ {0}
    /\ Concurrency \in 1..MaxConcurrency
    /\ MaxFaults \in Nat
    /\ Sessions # {}

VARIABLES
    generation, \* of the process
    failed,     \* failedGeneration
    ready,      \* the handshake of this generation has succeeded
    pending,    \* the requests that wait for an answer, oldest first
    starters,   \* the calls that wait for the handshake, oldest first
    execQueue,  \* the commands that wait for a place
    execRunning,\* the commands that have one
    concurrency,
    timers,     \* the restart timers that are set
    armed,      \* restartTimer refers to one of them
    stopping,   \* stop() was called
    children,   \* the generations whose process lives and was not killed
    closing,    \* the generations whose close event is still to come
    micro,      \* the settled promises and how they settled
    \* What an observer sees:
    outcome,    \* how each command's promise settled
    faults

linkVars == <<generation, failed, ready, starters, timers, armed, children, closing>>
execVars == <<execQueue, execRunning, concurrency>>
clientVars == <<linkVars, execVars, pending, stopping, micro, outcome, faults>>

\* The handshake is a request of the client itself.
Client == <<"client", NoCommand>>
Ping == <<"ping", Client>>

Outcomes == {"none", "result", "cancelled", "failed", "refused", "lost"}

ClientTypeOK ==
    /\ generation \in Nat /\ failed \in 0..generation
    /\ ready \in BOOLEAN
    /\ pending \in Seq(RequestIds) /\ IsInjective(pending)
    /\ starters \in Seq(Callers)
    /\ execQueue \in Seq(Commands) /\ Len(execQueue) <= MaxExecQueue
    /\ execRunning \subseteq Commands
    /\ concurrency \in 1..MaxConcurrency
    /\ timers \in Nat /\ armed \in BOOLEAN
    /\ stopping \in BOOLEAN
    /\ children \subseteq 0..generation
    /\ closing \subseteq 0..generation
    /\ micro \in Seq([call : Callers, answer : Answers \cup {"lost"}])
    /\ outcome \in [Commands -> Outcomes]
    /\ faults \in 0..MaxFaults

ClientInit ==
    /\ generation = 0 /\ failed = 0
    /\ ready = FALSE
    /\ pending = <<>> /\ starters = <<>>
    /\ execQueue = <<>> /\ execRunning = {}
    /\ concurrency = Concurrency
    /\ timers = 0 /\ armed = FALSE
    /\ stopping = FALSE
    /\ children = {} /\ closing = {}
    /\ micro = <<>>
    /\ outcome = [c \in Commands |-> "none"]
    /\ faults = 0

\* The transport is there from the start of a generation until it fails.
Connected == generation # failed
Alive == generation \in children

Continues(calls, answer) == [i \in DOMAIN calls |-> [call |-> calls[i], answer |-> answer]]

\* What a sequence has at some of its places, in its order.
Nth(places, n) == CHOOSE i \in places : Cardinality({k \in places : k <= i}) = n
Chosen(s, places) == [n \in 1..Cardinality(places) |-> s[Nth(places, n)]]
Without(s, x) == Chosen(s, {i \in DOMAIN s : s[i] # x})

(***************************************************************************)
(* start(): a new generation.  It pings the process at once.               *)
(***************************************************************************)
AnySession == CHOOSE s \in Sessions : TRUE
PingRequest == Request("ping", Client, NoCommand, AnySession, NoPolicy)

Launch ==
    /\ ~stopping
    /\ ~Connected
    /\ generation' = generation + 1
    /\ ready' = FALSE
    /\ children' = children \cup {generation + 1}
    /\ pending' = Append(pending, Ping)
    /\ inbox' = <<PingRequest>>
    /\ UNCHANGED <<failed, closing>>
    /\ UNCHANGED <<outbox, policy, queue, active, raised, worker, main, freed, phase, replies>>

\* kickRestart(), for a request that met no process; the request is rejected.
Kick ==
    \/ /\ stopping
       /\ UNCHANGED <<linkVars, pending, poolVars>>
    \/ /\ Launch
       /\ timers' = IF armed THEN timers - 1 ELSE timers
       /\ armed' = FALSE
       /\ UNCHANGED starters

\* What call() writes; a dead process does not read it.
Sent(requests) ==
    /\ pending' = pending \o [i \in DOMAIN requests |-> requests[i].id]
    /\ inbox' = IF Alive THEN inbox \o requests ELSE inbox
    /\ UNCHANGED <<policy, queue, active, raised, worker, main, freed, phase, replies>>

(***************************************************************************)
(* The gate of exec.run.                                                   *)
(***************************************************************************)
RunRequest(c) == Request("run", c, c, SessionOf[c], NoPolicy)

RunningOf(s, running) == Cardinality({c \in running : SessionOf[c] = s})

\* pickExecIndex: the session with the fewest running commands, then the oldest.
Pick(q, running) ==
    LET load(i) == RunningOf(SessionOf[q[i]], running)
    IN  CHOOSE i \in DOMAIN q :
            \A j \in DOMAIN q : load(i) < load(j) \/ (load(i) = load(j) /\ i <= j)

\* drainExecQueue: hand over commands while there are places.
HandedOver(d) ==
    LET c == d.queue[Pick(d.queue, d.running)]
    IN  [queue |-> Without(d.queue, c),
         running |-> d.running \cup {c},
         sent |-> Append(d.sent, RunRequest(c))]

Drained(q, running, limit) ==
    LET loop[n \in 0..Len(q)] ==
          IF n = 0 THEN [queue |-> q, running |-> running, sent |-> <<>>]
          ELSE IF Cardinality(loop[n - 1].running) < limit /\ loop[n - 1].queue # <<>>
          THEN HandedOver(loop[n - 1])
          ELSE loop[n - 1]
    IN  loop[Len(q)]

Drain(d) ==
    /\ execQueue' = d.queue
    /\ execRunning' = d.running
    /\ Sent(d.sent)

\* run(), when its caller has found the session configured.
Run(c) ==
    \/ /\ Len(execQueue) >= MaxExecQueue
       /\ outcome' = [outcome EXCEPT ![c] = "refused"]
       /\ UNCHANGED <<linkVars, execVars, pending, stopping, faults, poolVars>>
    \/ /\ Len(execQueue) < MaxExecQueue
       /\ Connected
       /\ Drain(Drained(Append(execQueue, c), execRunning, concurrency))
       /\ UNCHANGED <<linkVars, concurrency, stopping, outcome, faults, outbox>>
    \/ /\ Len(execQueue) < MaxExecQueue
       /\ ~Connected
       /\ outcome' = [outcome EXCEPT ![c] = "lost"]
       /\ Kick
       /\ UNCHANGED <<execVars, stopping, faults>>

SetExecConcurrency(n) ==
    /\ micro = <<>>
    /\ n # concurrency
    /\ concurrency' = n
    /\ Drain(Drained(execQueue, execRunning, n))
    /\ UNCHANGED <<linkVars, stopping, micro, outcome, faults, outbox>>

\* cancelExec(): out of the queue, on to the process, or nothing to do.
CancelExec(k, c) ==
    \/ /\ c \in Range(execQueue)
       /\ execQueue' = Without(execQueue, c)
       /\ outcome' = [outcome EXCEPT ![c] = "cancelled"]
       /\ UNCHANGED <<linkVars, execRunning, concurrency, pending, stopping, faults, poolVars>>
    \/ /\ c \notin Range(execQueue) \cup execRunning
       /\ UNCHANGED <<linkVars, execVars, pending, stopping, outcome, faults, poolVars>>
    \/ /\ c \in execRunning
       /\ Connected
       /\ Sent(<<Request("cancel", k, c, SessionOf[c], NoPolicy)>>)
       /\ UNCHANGED <<linkVars, execVars, stopping, outcome, faults, outbox>>

(***************************************************************************)
(* failConnection() of the current generation.                             *)
(***************************************************************************)
Lost == {c \in Commands : c \in execRunning \cup Range(execQueue)}

\* Everyone who waits for the process is told so.
RejectAll ==
    LET calls == Chosen(pending, {i \in DOMAIN pending : pending[i][1] \notin {"run", "ping"}})
    IN  /\ pending' = <<>>
        /\ starters' = <<>>
        /\ micro' = micro \o Continues([i \in DOMAIN calls |-> calls[i][2]] \o starters, "lost")
        /\ execQueue' = <<>>
        /\ execRunning' = {}
        /\ outcome' = [c \in Commands |-> IF c \in Lost THEN "lost" ELSE outcome[c]]

Kill ==
    /\ Replaced
    /\ children' = children \ {generation}

ScheduleRestart(restart) ==
    /\ timers' = IF restart THEN timers + 1 ELSE timers
    /\ armed' = (armed \/ restart)

FailConnection(restart) ==
    /\ failed' = generation
    /\ ready' = FALSE
    /\ RejectAll
    /\ Kill
    /\ ScheduleRestart(restart)
    /\ UNCHANGED <<generation, concurrency>>

\* Mutant of CloseEvent: the event of an old process fails the current one.
CloseEventOfAny(g) ==
    /\ micro = <<>>
    /\ g \in closing
    /\ g = generation => outbox = <<>>
    /\ \/ /\ Connected
          /\ FailConnection(~stopping)
          /\ closing' = closing \ {g}
       \/ /\ ~Connected
          /\ closing' = closing \ {g}
          /\ UNCHANGED <<generation, failed, ready, starters, timers, armed, children, execVars,
                         pending, micro, outcome, poolVars>>
    /\ UNCHANGED <<stopping, faults>>

\* The process has exited; what it had written was read before.  The event of
\* a process that was killed, or of an old one, changes nothing.
CloseEvent(g) ==
    /\ micro = <<>>
    /\ g \in closing
    /\ g = generation => outbox = <<>>
    /\ \/ /\ g = generation /\ Connected
          /\ FailConnection(~stopping)
          /\ closing' = closing \ {g}
       \/ /\ ~(g = generation /\ Connected)
          /\ closing' = closing \ {g}
          /\ UNCHANGED <<generation, failed, ready, starters, timers, armed, children, execVars,
                         pending, micro, outcome, poolVars>>
    /\ UNCHANGED <<stopping, faults>>

\* A request has waited too long.
Timeout ==
    /\ micro = <<>>
    /\ pending # <<>>
    /\ Connected
    /\ faults < MaxFaults
    /\ faults' = faults + 1
    /\ FailConnection(~stopping)
    /\ closing' = IF Alive THEN closing \cup {generation} ELSE closing
    /\ UNCHANGED stopping

\* A restart timer goes off.  One that restartTimer no longer refers to may
\* still be set: start() then finds a process, or that the client stops.
TimerFires ==
    /\ micro = <<>>
    /\ timers > 0
    /\ timers' = timers - 1
    /\ armed' = FALSE
    /\ \/ Launch
       \/ /\ stopping \/ Connected
          /\ UNCHANGED <<generation, failed, ready, children, closing, pending, poolVars>>
    /\ UNCHANGED <<starters, execVars, stopping, micro, outcome, faults>>

(***************************************************************************)
(* onMessage().                                                            *)
(***************************************************************************)
Frame == Head(outbox)
Answered == Without(pending, Frame.id)

Receiving ==
    /\ micro = <<>>
    /\ outbox # <<>>
    /\ Connected
    /\ Frame.id \in Range(pending)

\* The handshake is over: core.ready.
OnPong ==
    /\ Receiving
    /\ Frame.id = Ping
    /\ outbox' = Tail(outbox)
    /\ pending' = Answered
    /\ ready' = TRUE
    /\ starters' = <<>>
    /\ micro' = Continues(starters, "ok")
    /\ UNCHANGED <<generation, failed, timers, armed, children, closing, execVars, stopping,
                   outcome, faults>>
    /\ UNCHANGED <<inbox, policy, queue, active, raised, worker, main, freed, phase, replies>>

\* An exec.run is answered; its place goes to the next in the queue.
OnResult ==
    LET c == Frame.id[2]
        d == Drained(execQueue, execRunning \ {c}, concurrency)
    IN  /\ Receiving
        /\ Frame.id[1] = "run"
        /\ outcome' = [outcome EXCEPT ![c] = Frame.answer]
        /\ outbox' = Tail(outbox)
        /\ execQueue' = d.queue
        /\ execRunning' = d.running
        /\ pending' = Answered \o [i \in DOMAIN d.sent |-> d.sent[i].id]
        /\ inbox' = IF Alive THEN inbox \o d.sent ELSE inbox
        /\ UNCHANGED <<linkVars, concurrency, stopping, micro, faults>>
        /\ UNCHANGED <<policy, queue, active, raised, worker, main, freed, phase, replies>>

\* Another request is answered; its caller goes on.
OnAnswer ==
    /\ Receiving
    /\ Frame.id[1] \in {"configure", "cancel"}
    /\ outbox' = Tail(outbox)
    /\ pending' = Answered
    /\ micro' = <<[call |-> Frame.id[2], answer |-> Frame.answer]>>
    /\ UNCHANGED <<linkVars, execVars, stopping, outcome, faults>>
    /\ UNCHANGED <<inbox, policy, queue, active, raised, worker, main, freed, phase, replies>>

(***************************************************************************)
(* stop(), and the process.                                                *)
(***************************************************************************)

\* The queue is rejected and the restart timer cleared; the rest follows when
\* core.shutdown was answered or timed out.
Stop ==
    /\ micro = <<>>
    /\ ~stopping
    /\ stopping' = TRUE
    /\ timers' = IF armed THEN timers - 1 ELSE timers
    /\ armed' = FALSE
    /\ outcome' = [c \in Commands |-> IF c \in Range(execQueue) THEN "lost" ELSE outcome[c]]
    /\ execQueue' = <<>>
    /\ UNCHANGED <<generation, failed, ready, starters, children, closing, execRunning,
                   concurrency, pending, micro, faults, poolVars>>

Stopped ==
    /\ micro = <<>>
    /\ stopping
    /\ Connected
    /\ FailConnection(FALSE)
    /\ closing' = IF Alive THEN closing \cup {generation} ELSE closing
    /\ UNCHANGED <<stopping, faults>>

\* The process dies; the frames it has written can still be read.
Crash ==
    /\ Alive
    /\ faults < MaxFaults
    /\ faults' = faults + 1
    /\ children' = children \ {generation}
    /\ closing' = closing \cup {generation}
    /\ inbox' = <<>>
    /\ policy' = [s \in Sessions |-> NoPolicy]
    /\ queue' = <<>>
    /\ active' = {} /\ raised' = {} /\ freed' = {}
    /\ worker' = [w \in Workers |-> IdleWorker]
    /\ main' = NoCommand
    /\ UNCHANGED <<outbox, phase, replies, generation, failed, ready, starters, timers, armed,
                   execVars, pending, stopping, micro, outcome>>
=============================================================================
