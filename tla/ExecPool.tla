------------------------------ MODULE ExecPool ------------------------------
(***************************************************************************)
(* The executor process owc-core, as far as it runs commands:              *)
(* core/src/rpc.c.                                                         *)
(*                                                                         *)
(* One main loop reads request frames.  exec.run snapshots the policy of   *)
(* its session and puts the command in a FIFO queue; a fixed pool of       *)
(* worker threads takes commands from it.  exec.cancel raises the flag of  *)
(* a command that runs, or takes one that waits out of the queue and       *)
(* answers it at once.  One mutex guards the queue and the list of the     *)
(* active commands; frames are written under a mutex of their own.  The    *)
(* memory of a command is freed by whoever answered it.                    *)
(*                                                                         *)
(* What a command does is not modelled, only how it comes to its end.      *)
(***************************************************************************)
EXTENDS Naturals, Sequences, FiniteSets, SequencesExt

CONSTANTS
    Commands,   \* bound: the commands, by their execId; each is sent once
    Sessions,
    SessionOf,  \* the session of each command
    Policies,   \* the sandbox policies of a session
    NoPolicy,   \* the session has not been configured in this process
    NoCommand,
    Workers,    \* OWC_ASYNC_EXEC_WORKERS threads
    MaxQueue,   \* OWC_ASYNC_EXEC_MAX_QUEUE
    Callers     \* bound: the requests of each kind other than exec.run

ASSUME PoolAssumption ==
    /\ SessionOf \in [Commands -> Sessions]
    /\ MaxQueue \in Nat \ {0} /\ IsFiniteSet(Workers)
    /\ NoPolicy \notin Policies
    /\ NoCommand \notin Commands

VARIABLES
    inbox,      \* the frames of the client that were not yet read
    outbox,     \* the frames written, not yet read by the client
    policy,     \* sessions[]: the policy each session is configured with
    queue,      \* async_exec_queue_head ... async_exec_queue_tail
    active,     \* the list async_exec_active
    raised,     \* the commands whose cancel flag is set
    worker,     \* the threads: what they do, with which command
    main,       \* a command the main loop took out of the queue and must answer
    \* What an observer sees:
    freed,      \* the commands whose memory was freed
    phase,      \* how far the command itself came
    replies     \* the answers to each exec.run

poolVars == <<inbox, outbox, policy, queue, active, raised, worker, main,
              freed, phase, replies>>

Ops == {"ping", "configure", "cancel"}
RequestIds == ({"run"} \X Commands) \cup (Ops \X Callers)

\* A request, with the command, session or policy it is about.
Requests == [id : RequestIds, command : Commands \cup {NoCommand},
             session : Sessions, policy : Policies \cup {NoPolicy}]
Answers == {"ok", "result", "cancelled", "failed", "refused", "unknown"}
Responses == [id : RequestIds, answer : Answers]

Phases == {"none", "started", "ended", "stopped", "broken"}
WorkerSteps == {"check", "waiting", "taken", "executing", "returned", "replied", "freeing"}

IdleWorker == [pc |-> "check", command |-> NoCommand]
Busy(w) == worker[w].command # NoCommand

\* exec->running: between the two critical sections of a worker.
Running == {worker[w].command : w \in {v \in Workers : Busy(v) /\ worker[v].pc # "freeing"}}
Waiting == {w \in Workers : worker[w].pc = "waiting"}

PoolTypeOK ==
    /\ inbox \in Seq(Requests)
    /\ outbox \in Seq(Responses)
    /\ policy \in [Sessions -> Policies \cup {NoPolicy}]
    /\ queue \in Seq(Commands)
    /\ active \subseteq Commands
    /\ raised \subseteq Commands
    /\ worker \in [Workers -> [pc : WorkerSteps, command : Commands \cup {NoCommand}]]
    /\ \A w \in Workers : Busy(w) <=> worker[w].pc \notin {"check", "waiting"}
    /\ main \in Commands \cup {NoCommand}
    /\ freed \subseteq Commands
    /\ phase \in [Commands -> Phases]
    /\ replies \in [Commands -> Nat]

\* A process that has just been started.
Fresh ==
    /\ inbox = <<>>
    /\ outbox = <<>>
    /\ policy = [s \in Sessions |-> NoPolicy]
    /\ queue = <<>>
    /\ active = {}
    /\ raised = {}
    /\ worker = [w \in Workers |-> IdleWorker]
    /\ main = NoCommand
    /\ freed = {}

\* One process is gone and another one, with nothing in it, takes its place.
Replaced ==
    /\ inbox' = <<>>
    /\ outbox' = <<>>
    /\ policy' = [s \in Sessions |-> NoPolicy]
    /\ queue' = <<>>
    /\ active' = {}
    /\ raised' = {}
    /\ worker' = [w \in Workers |-> IdleWorker]
    /\ main' = NoCommand
    /\ freed' = {}
    /\ UNCHANGED <<phase, replies>>

PoolInit ==
    /\ Fresh
    /\ phase = [c \in Commands |-> "none"]
    /\ replies = [c \in Commands |-> 0]

(***************************************************************************)
(* Frames.                                                                 *)
(***************************************************************************)
Request(op, by, c, s, p) ==
    [id |-> <<op, by>>, command |-> c, session |-> s, policy |-> p]

Response(id, answer) == [id |-> id, answer |-> answer]
RunReply(c, answer) == Response(<<"run", c>>, answer)

Write(frames) == outbox' = outbox \o frames

Count(c) == replies' = [replies EXCEPT ![c] = @ + 1]

(***************************************************************************)
(* The main loop: one request after the other.                             *)
(***************************************************************************)
Reading(op) ==
    /\ main = NoCommand
    /\ inbox # <<>>
    /\ Head(inbox).id[1] = op
    /\ inbox' = Tail(inbox)

ReplyOk == Write(<<Response(Head(inbox).id, "ok")>>)

HandlePing ==
    /\ Reading("ping")
    /\ ReplyOk
    /\ UNCHANGED <<policy, queue, active, raised, worker, main, freed, phase, replies>>

HandleConfigure ==
    /\ Reading("configure")
    /\ policy' = [policy EXCEPT ![Head(inbox).session] = Head(inbox).policy]
    /\ ReplyOk
    /\ UNCHANGED <<queue, active, raised, worker, main, freed, phase, replies>>

\* owc_cond_signal: one waiting thread, if there is one, goes on.
Signal ==
    \/ /\ Waiting = {}
       /\ UNCHANGED worker
    \/ \E w \in Waiting : worker' = [worker EXCEPT ![w].pc = "check"]

\* Mutant of Enqueue: the condition is signalled only when the queue was empty
\* and no command runs.
EnqueueSignalsIdlePool(c) ==
    /\ queue' = Append(queue, c)
    /\ active' = active \cup {c}
    /\ IF Running = {} THEN Signal ELSE UNCHANGED worker

Enqueue(c) ==
    /\ queue' = Append(queue, c)
    /\ active' = active \cup {c}
    /\ Signal

HandleRun ==
    LET c == Head(inbox).command
        refuse == policy[SessionOf[c]] = NoPolicy \/ Len(queue) >= MaxQueue
    IN  /\ Reading("run")
        /\ \/ /\ refuse
              /\ Write(<<RunReply(c, "refused")>>)
              /\ Count(c)
              /\ UNCHANGED <<queue, active, worker>>
           \/ /\ ~refuse
              /\ Enqueue(c)
              /\ UNCHANGED <<outbox, replies>>
        /\ UNCHANGED <<policy, raised, main, freed, phase>>

RemoveFromQueue(c) ==
    \E i \in 1..Len(queue) :
        /\ queue[i] = c
        /\ queue' = [k \in 1..(Len(queue) - 1) |-> IF k < i THEN queue[k] ELSE queue[k + 1]]

\* Mutant of HandleCancel: a command that runs is taken for one that waits.
HandleCancelAnswersAll ==
    LET c == Head(inbox).command
    IN  /\ Reading("cancel")
        /\ c \in active
        /\ active' = active \ {c}
        /\ main' = c
        /\ \/ RemoveFromQueue(c)
           \/ c \in Running /\ UNCHANGED queue
        /\ ReplyOk
        /\ UNCHANGED <<policy, raised, worker, freed, phase, replies>>

\* Only what is on the list of active commands is looked at.
HandleCancel ==
    LET c == Head(inbox).command
    IN  /\ Reading("cancel")
        /\ \/ /\ c \in active \cap Running
              /\ raised' = raised \cup {c}
              /\ ReplyOk
              /\ UNCHANGED <<queue, active, main>>
           \/ /\ c \in active \ Running
              /\ RemoveFromQueue(c)
              /\ active' = active \ {c}
              /\ main' = c
              /\ ReplyOk
              /\ UNCHANGED raised
           \/ /\ c \notin active
              /\ Write(<<Response(Head(inbox).id, "unknown")>>)
              /\ UNCHANGED <<queue, active, main, raised>>
        /\ UNCHANGED <<policy, worker, freed, phase, replies>>

\* Outside the mutex: the command that was cancelled while it waited.
AnswerCancelled ==
    /\ main # NoCommand
    /\ Write(<<RunReply(main, "cancelled")>>)
    /\ Count(main)
    /\ freed' = freed \cup {main}
    /\ main' = NoCommand
    /\ UNCHANGED <<inbox, policy, queue, active, raised, worker, phase>>

MainLoop ==
    \/ HandlePing
    \/ HandleConfigure
    \/ HandleRun
    \/ HandleCancel
    \/ AnswerCancelled

(***************************************************************************)
(* A worker thread.                                                        *)
(***************************************************************************)
At(w, pc) == worker[w].pc = pc
Goes(w, pc) == worker' = [worker EXCEPT ![w].pc = pc]

\* Under the mutex: wait, or take the oldest command.
Wait(w) ==
    /\ At(w, "check")
    /\ queue = <<>>
    /\ Goes(w, "waiting")
    /\ UNCHANGED <<inbox, outbox, policy, queue, active, raised, main, freed, phase, replies>>

SpuriousWakeup(w) ==
    /\ At(w, "waiting")
    /\ Goes(w, "check")
    /\ UNCHANGED <<inbox, outbox, policy, queue, active, raised, main, freed, phase, replies>>

Take(w) ==
    /\ At(w, "check")
    /\ queue # <<>>
    /\ queue' = Tail(queue)
    /\ worker' = [worker EXCEPT ![w] = [pc |-> "taken", command |-> Head(queue)]]
    /\ UNCHANGED <<inbox, outbox, policy, active, raised, main, freed, phase, replies>>

\* A command whose flag is up before it starts is never started.
Begin(w) ==
    LET c == worker[w].command
    IN  /\ At(w, "taken")
        /\ \/ /\ c \in raised
              /\ Goes(w, "replied")
              /\ Write(<<RunReply(c, "cancelled")>>)
              /\ Count(c)
              /\ UNCHANGED phase
           \/ /\ c \notin raised
              /\ Goes(w, "executing")
              /\ phase' = [phase EXCEPT ![c] = "started"]
              /\ UNCHANGED <<outbox, replies>>
        /\ UNCHANGED <<inbox, policy, queue, active, raised, main, freed>>

\* owc_exec_run returns: the command ended, or broke (it could not be started,
\* ran out of time), or was stopped because of its flag.
Returns(w, how) ==
    LET c == worker[w].command
    IN  /\ At(w, "executing")
        /\ how = "stopped" => c \in raised
        /\ phase' = [phase EXCEPT ![c] = how]
        /\ Goes(w, "returned")
        /\ UNCHANGED <<inbox, outbox, policy, queue, active, raised, main, freed, replies>>

\* The flag is looked at once more: it may have come up after the end.
Reply(w) ==
    LET c == worker[w].command
    IN  /\ At(w, "returned")
        /\ Write(<<RunReply(c, IF c \in raised \/ phase[c] = "stopped" THEN "cancelled"
                               ELSE IF phase[c] = "broken" THEN "failed"
                               ELSE "result")>>)
        /\ Count(c)
        /\ Goes(w, "replied")
        /\ UNCHANGED <<inbox, policy, queue, active, raised, main, freed, phase>>

\* Mutant of Release: the command stays on the list until it is freed.
ReleaseLate(w) ==
    /\ At(w, "replied")
    /\ Goes(w, "freeing")
    /\ UNCHANGED <<inbox, outbox, policy, queue, active, raised, main, freed, phase, replies>>

\* Under the mutex: off the list, so that no exec.cancel finds it any more.
Release(w) ==
    /\ At(w, "replied")
    /\ active' = active \ {worker[w].command}
    /\ Goes(w, "freeing")
    /\ UNCHANGED <<inbox, outbox, policy, queue, raised, main, freed, phase, replies>>

Free(w) ==
    /\ At(w, "freeing")
    /\ freed' = freed \cup {worker[w].command}
    /\ worker' = [worker EXCEPT ![w] = IdleWorker]
    /\ UNCHANGED <<inbox, outbox, policy, queue, active, raised, main, phase, replies>>

WorkerStep(w) ==
    Wait(w) \/ Take(w) \/ Begin(w) \/ Reply(w) \/ Release(w) \/ Free(w)

CommandEnds(w) == \E how \in {"ended", "stopped", "broken"} : Returns(w, how)

PoolStep ==
    \/ MainLoop
    \/ \E w \in Workers : WorkerStep(w) \/ CommandEnds(w) \/ SpuriousWakeup(w)

(***************************************************************************)
(* The pool with any client: every exec.run is sent once.                  *)
(***************************************************************************)
Unsent(c) ==
    /\ phase[c] = "none" /\ replies[c] = 0
    /\ c \notin active \cup freed \cup {main}
    /\ \A i \in DOMAIN inbox : inbox[i].id # <<"run", c>>

Sendable ==
    {Request("run", c, c, SessionOf[c], NoPolicy) : c \in {d \in Commands : Unsent(d)}}
        \cup {Request("cancel", k, c, SessionOf[c], NoPolicy) : k \in Callers, c \in Commands}
        \cup {Request("ping", k, NoCommand, s, NoPolicy) : k \in Callers, s \in Sessions}
        \cup {Request("configure", k, NoCommand, s, p) :
                  k \in Callers, s \in Sessions, p \in Policies}

Send(r) ==
    /\ inbox' = Append(inbox, r)
    /\ UNCHANGED <<outbox, policy, queue, active, raised, worker, main, freed, phase, replies>>

Receive ==
    /\ outbox # <<>>
    /\ outbox' = Tail(outbox)
    /\ UNCHANGED <<inbox, policy, queue, active, raised, worker, main, freed, phase, replies>>

PoolNext ==
    \/ PoolStep
    \/ \E r \in Sendable : Send(r)
    \/ Receive
    \/ Replaced

PoolSpec == PoolInit /\ [][PoolNext]_poolVars

(***************************************************************************)
(* Properties.                                                             *)
(***************************************************************************)

\* Whatever thread or handler ends a command: its memory is freed only when nothing
\* reaches it any more, that is to say it is not on the list exec.cancel walks, not
\* queued, and no thread holds it; and its exec.run is answered once, by the main loop
\* that took it out of the queue or by the worker that took it, never by both.
RequestsAreOwned ==
    /\ PoolTypeOK
    /\ \A c \in Commands : replies[c] <= 1
    /\ freed \cap active = {}
    /\ freed \cap ToSet(queue) = {}
    /\ main \notin freed
    /\ \A w \in Workers : Busy(w) => worker[w].command \notin freed

\* No worker sleeps while commands wait for one: for every queued command that
\* no thread has yet been woken for there is no sleeping thread (a lost wakeup).
NoLostWakeup ==
    Waiting # {} => Len(queue) <= Cardinality({w \in Workers : At(w, "check")})
=============================================================================
