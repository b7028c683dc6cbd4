----------------------------- MODULE RunControl -----------------------------
(***************************************************************************)
(* The run of one session and the messages that reach it while it works:   *)
(* AgentRunner.run (server/src/agent/agent-runner.ts), RunControl          *)
(* (server/src/agent/run-control.ts) and the HTTP handlers that call them  *)
(* (server/src/routes/sessions-run.ts).                                    *)
(*                                                                         *)
(* Node runs one callback at a time: a step here is the code between two   *)
(* awaits, and every handler is cut at its awaits.  At most one run holds  *)
(* the session; requests, follow-up starters and cron firings interleave   *)
(* with it and with each other.                                            *)
(*                                                                         *)
(* The queue runs its mutations in the order of the calls, and a listing   *)
(* waits for the mutations called before it (store-utils.ts).  A caller    *)
(* goes on as soon as its own call is done, before the next one runs.      *)
(*                                                                         *)
(* A provider turn and its tools are one step whose outcome is chosen.     *)
(* Storage may fail (a write rejects) and the process may crash, each a    *)
(* bounded number of times.                                                *)
(***************************************************************************)
EXTENDS MessageQueue

CONSTANTS
    Clients,      \* HTTP clients and timers: each has one request in flight
    Runner,       \* the run, as a caller of the queue
    MaxQueued,    \* MAX_STEERING_ITEMS
    MaxTurns,     \* turn limit of a run
    MaxGoals,     \* GOAL_MAX_CONTINUATIONS
    MaxFaults,    \* bound: storage faults
    MaxCrashes,   \* bound: crashes of the server process
    AllowAbort,   \* the user may abort a run
    AllowErrors,  \* a turn may fail or find the budget paused
    AllowDirect,  \* `!cmd` and editor saves may be requested
    AllowEdits    \* queued items may be cancelled or change their kind

ASSUME RunnerAssumption == Runner \notin {"request", "start"} \X Clients
ASSUME ClientsAssumption == IsFiniteSet(Clients)
ASSUME LimitAssumption ==
    /\ MaxQueued \in Nat
    /\ MaxTurns \in Nat
    /\ MaxGoals \in Nat
    /\ MaxFaults \in Nat
    /\ MaxCrashes \in Nat
ASSUME EnvironmentAssumption ==
    /\ AllowAbort \in BOOLEAN
    /\ AllowErrors \in BOOLEAN
    /\ AllowDirect \in BOOLEAN
    /\ AllowEdits \in BOOLEAN

VARIABLES
    pc,         \* where the run is; "idle" = no entry in `running`
    settling,   \* the session is in `settling`
    aborted,    \* the run's AbortController
    turn,       \* turns taken by the run
    runItem,    \* followUpQueueItemId
    owner,      \* the client whose request or timer led to the run
    steerItem,  \* the item applySteering holds
    final,      \* that call of applySteering follows a final answer
    schedule,   \* scheduleFollowUp
    outcome,    \* how the last run ended, or that it was refused because a
                \* `!cmd` or a save held the session
    client,     \* requests in flight
    starter,    \* what a client's request set off: a call of startFollowUp,
                \* the run it started, what happens once the run has ended
    ahead,      \* the queue mutations each caller of the queue waits for
    shell,      \* the session is in `shells`
    saving,     \* the session is in `workspaceWrites`
    \* What an observer of the disk and of the replies sees:
    appended,   \* how often the text of an item was appended to the history
    goals,      \* continuations in the active segment of the history (what follows
                \* `/clear` or a compaction), since the last plain user message
    dropped,    \* a message was answered 202 and no run took it
    faults,
    crashes

runVars == <<pc, settling, aborted, turn, runItem, owner, steerItem, final,
             schedule, outcome>>
directVars == <<shell, saving>>
seenVars == <<appended, goals, dropped>>
faultVars == <<faults, crashes>>
vars == <<queue, ahead, runVars, client, starter, directVars, seenVars, faultVars>>

RunPC == {"idle", "start", "applyFollowUp", "turn", "provider", "steerTake",
          "steerAppend", "steerApply", "steerRequeue", "settle", "commit",
          "catch", "cleanup", "goal", "goalList", "goalEnqueue", "end"}
Outcomes == {"none", "completed", "paused", "aborted", "failed", "refused"}
ClientPC == {"idle", "launch", "list", "enqueue"}
StarterPC == {"idle", "finish", "list", "take", "running", "requeue"}

Callers == ({"request", "start"} \X Clients) \cup {Runner}

RequestInFlight ==
    [pc : ClientPC, kind : Kinds, requestId : Requests \cup {NoRequest},
     source : {"user", "cron"}]
Start == [pc : StarterPC, item : ItemIds \cup {NoItem}]

NoRequestInFlight ==
    [pc |-> "idle", kind |-> "steer", requestId |-> NoRequest, source |-> "user"]
NoStart == [pc |-> "idle", item |-> NoItem]

FlagsOK ==
    /\ settling \in BOOLEAN
    /\ aborted \in BOOLEAN
    /\ final \in BOOLEAN
    /\ schedule \in BOOLEAN
    /\ shell \in BOOLEAN
    /\ saving \in BOOLEAN
    /\ dropped \in BOOLEAN

LoopOK ==
    /\ pc \in RunPC
    /\ turn \in 0..MaxTurns
    /\ runItem \in ItemIds \cup {NoItem}
    /\ owner \in Clients
    /\ steerItem \in ItemIds \cup {NoItem}
    /\ outcome \in Outcomes

RequestsOK ==
    /\ client \in [Clients -> RequestInFlight]
    /\ starter \in [Clients -> Start]
    /\ ahead \in [Callers -> SUBSET Callers]

CountsOK ==
    /\ appended \in [ItemIds -> Nat]
    /\ goals \in Nat
    /\ faults \in 0..MaxFaults
    /\ crashes \in 0..MaxCrashes

TypeOK == QueueTypeOK /\ FlagsOK /\ LoopOK /\ RequestsOK /\ CountsOK

Running == pc # "idle"

Init ==
    /\ QueueInit
    /\ pc = "idle"
    /\ settling = FALSE
    /\ aborted = FALSE
    /\ turn = 0
    /\ runItem = NoItem
    /\ owner \in Clients
    /\ steerItem = NoItem
    /\ final = FALSE
    /\ schedule = FALSE
    /\ outcome = "none"
    /\ client = [c \in Clients |-> NoRequestInFlight]
    /\ starter = [c \in Clients |-> NoStart]
    /\ ahead = [c \in Callers |-> {}]
    /\ shell = FALSE
    /\ saving = FALSE
    /\ appended = [i \in ItemIds |-> 0]
    /\ goals = 0
    /\ dropped = FALSE
    /\ faults = 0
    /\ crashes = 0

Fault == faults < MaxFaults /\ faults' = faults + 1 /\ UNCHANGED crashes
NoFault == UNCHANGED faultVars
FaultOr(cond) == Fault \/ (NoFault /\ cond)

(***************************************************************************)
(* The order of the calls to the queue.                                    *)
(***************************************************************************)
\* The callers whose mutation has been called and is not done.
Writing ==
    {<<"request", c>> : c \in {c \in Clients : client[c].pc = "enqueue"}}
      \cup {<<"start", c>> : c \in {c \in Clients : starter[c].pc \in {"take", "requeue"}}}
      \cup {r \in {Runner} :
              \/ pc \in {"applyFollowUp", "steerTake", "steerApply",
                         "steerRequeue", "goalEnqueue"}
              \/ pc = "catch" /\ runItem # NoItem}

MyTurn(caller) == ahead[caller] = {}

\* The call of "done" has returned; the "callers" call the queue in this step.
Calls(done, callers) ==
    ahead' = [c \in Callers |->
                IF c \in callers THEN Writing \ {done}
                ELSE IF c = done THEN {} ELSE ahead[c] \ {done}]

NoCall == UNCHANGED ahead

(***************************************************************************)
(* Starting a run: the guards of run() and the synchronous prefix behind   *)
(* them.                                                                   *)
(***************************************************************************)
\* Mutant of CanRun: run() does not look at `shells`.
CanRunBesideShell == ~Running /\ ~saving

CanRun == ~Running /\ ~shell /\ ~saving

StartRun(item, who) ==
    /\ pc' = "start"
    /\ aborted' = FALSE
    /\ turn' = 0
    /\ runItem' = item
    /\ owner' = who
    /\ steerItem' = NoItem
    /\ final' = FALSE
    /\ schedule' = FALSE
    /\ outcome' = "none"
    /\ UNCHANGED settling

\* The history gets the text of an item; a plain user message (item NoItem)
\* and every item that is not a continuation ends the count of continuations.
\* The new text is always in the active segment.
AppendText(i) ==
    /\ appended' = IF i = NoItem THEN appended
                   ELSE [appended EXCEPT ![i] = @ + 1]
    /\ goals' = IF i # NoItem /\ queue[i].source = "goal" THEN goals + 1 ELSE 0
    /\ UNCHANGED dropped

(***************************************************************************)
(* HTTP requests and cron firings.                                         *)
(***************************************************************************)
ClientIdle(c) == client[c].pc = "idle"

Request(c, step, kind, req, source) ==
    client' = [client EXCEPT ![c] = [pc |-> step, kind |-> kind,
                                     requestId |-> req, source |-> source]]

Answer(c) == client' = [client EXCEPT ![c] = NoRequestInFlight]

\* POST /messages to an idle session: the route sees no run, then awaits.  On this
\* path it does not look at the request id, and nothing remembers it: what is sent
\* again later counts as a message of its own.
PostStart(c) ==
    /\ ClientIdle(c)
    /\ starter[c] = NoStart
    /\ ~Running
    /\ ~shell
    /\ Request(c, "launch", "steer", NoRequest, "user")
    /\ NoCall
    /\ UNCHANGED <<queue, runVars, starter, directVars, seenVars, faultVars>>

\* The route calls run() without waiting for it and answers 202.
Launch(c) ==
    /\ client[c].pc = "launch"
    /\ Answer(c)
    /\ \/ /\ CanRun
          /\ StartRun(NoItem, c)
          /\ starter' = [starter EXCEPT ![c].pc = "running"]
          /\ UNCHANGED dropped
       \/ /\ ~CanRun
          /\ dropped' = TRUE
          /\ UNCHANGED <<runVars, starter>>
    /\ NoCall
    /\ UNCHANGED <<queue, directVars, appended, goals, faultVars>>

PostSteer(c, req) ==
    /\ ClientIdle(c)
    /\ Running
    /\ ~settling
    /\ Request(c, "list", "steer", req, "user")
    /\ Calls(<<"request", c>>, {<<"request", c>>})
    /\ UNCHANGED <<queue, runVars, starter, directVars, seenVars, faultVars>>

PostFollowUp(c, req) ==
    /\ ClientIdle(c)
    /\ Running
    /\ Request(c, "list", "follow_up", req, "user")
    /\ Calls(<<"request", c>>, {<<"request", c>>})
    /\ UNCHANGED <<queue, runVars, starter, directVars, seenVars, faultVars>>

CronFire(c) ==
    /\ ClientIdle(c)
    /\ starter[c] = NoStart
    /\ Request(c, "list", "follow_up", NoRequest, "cron")
    /\ Calls(<<"request", c>>, {<<"request", c>>})
    /\ UNCHANGED <<queue, runVars, starter, directVars, seenVars, faultVars>>

\* The queue limit is checked on a listing read before the enqueue.
ListQueue(c) ==
    /\ client[c].pc = "list"
    /\ MyTurn(<<"request", c>>)
    /\ \/ /\ Cardinality(Queued(client[c].kind)) < MaxQueued
          /\ client' = [client EXCEPT ![c].pc = "enqueue"]
          /\ Calls(<<"request", c>>, {<<"request", c>>})
       \/ /\ Cardinality(Queued(client[c].kind)) >= MaxQueued
          /\ Answer(c)
          /\ Calls(<<"request", c>>, {})
    /\ UNCHANGED <<queue, runVars, starter, directVars, seenVars, faultVars>>

\* Only of the model: a file at the bound takes no more items.
AtBound == Len(queue) = MaxItems

\* Mutant of StartsFollowUp: a cron firing only queues, as enqueueFollowUp does.
NeverStartsFollowUp(c) == FALSE

\* A cron firing that finds the session idle starts the follow-up itself.
StartsFollowUp(c) == client[c].source = "cron" /\ ~Running /\ ~settling

EnqueueItem(c) ==
    /\ client[c].pc = "enqueue"
    /\ MyTurn(<<"request", c>>)
    /\ Answer(c)
    /\ \/ /\ NoFault
          /\ Enqueue(client[c].kind, client[c].requestId, client[c].source)
          /\ \/ /\ StartsFollowUp(c)
                /\ starter' = [starter EXCEPT ![c].pc = "list"]
                /\ Calls(<<"request", c>>, {<<"start", c>>})
             \/ /\ ~StartsFollowUp(c)
                /\ Calls(<<"request", c>>, {})
                /\ UNCHANGED starter
       \/ /\ FaultOr(AtBound)
          /\ Calls(<<"request", c>>, {})
          /\ UNCHANGED <<queue, starter>>
    /\ UNCHANGED <<runVars, directVars, seenVars>>

CancelItem(i) ==
    /\ AllowEdits
    /\ Cancel(i)
    /\ NoCall
    /\ UNCHANGED <<runVars, client, starter, directVars, seenVars, faultVars>>

UpdateItem(i, kind) ==
    /\ AllowEdits
    /\ Update(i, kind)
    /\ NoCall
    /\ UNCHANGED <<runVars, client, starter, directVars, seenVars, faultVars>>

Abort ==
    /\ AllowAbort
    /\ Running
    /\ aborted' = TRUE
    /\ NoCall
    /\ UNCHANGED <<queue, pc, settling, turn, runItem, owner, steerItem, final,
                   schedule, outcome, client, starter, directVars, seenVars,
                   faultVars>>

(***************************************************************************)
(* `!cmd` and editor saves, which share the workspace with runs.           *)
(***************************************************************************)
Direct(allowed, flag) ==
    /\ allowed
    /\ flag' = ~flag
    /\ NoCall
    /\ UNCHANGED <<queue, runVars, client, starter, faultVars>>

\* Its text goes into the history as a plain user message.
BeginShell ==
    /\ Direct(AllowDirect /\ ~Running /\ ~shell, shell)
    /\ goals' = 0
    /\ UNCHANGED <<saving, appended, dropped>>

EndShell == Direct(shell, shell) /\ UNCHANGED <<saving, seenVars>>

BeginSave ==
    /\ Direct(AllowDirect /\ ~Running /\ ~shell /\ ~saving, saving)
    /\ UNCHANGED <<shell, seenVars>>

EndSave == Direct(saving, saving) /\ UNCHANGED <<shell, seenVars>>

\* `/clear`, or a compaction, asked for or forced by the size of the context, moves
\* the boundary of the active segment; some continuations may stay inside.  The
\* routes ask whether a run is on and await before they write: it may begin meanwhile.
MoveBoundary ==
    /\ goals' \in 0..goals
    /\ goals' # goals
    /\ NoCall
    /\ UNCHANGED <<queue, runVars, client, starter, directVars, appended, dropped,
                   faultVars>>

(***************************************************************************)
(* The run.                                                                *)
(***************************************************************************)
Rest == <<client, directVars>>

At(step) == pc = step

Goto(step) == pc' = step /\ Calls(Runner, {})
CallAt(step) == pc' = step /\ Calls(Runner, {Runner})

\* The catch block first returns the follow-up that is still claimed.
Throw == IF runItem = NoItem THEN Goto("catch") ELSE CallAt("catch")

\* Up to the append of the trigger message: loading the session may fail, or reading
\* the command or skill that the text names.  Then the text is appended as it is.
AppendTrigger ==
    /\ At("start")
    /\ \/ /\ NoFault
          /\ AppendText(runItem)
          /\ IF runItem = NoItem THEN Goto("turn") ELSE CallAt("applyFollowUp")
       \/ /\ Fault
          /\ Throw
          /\ AppendText(runItem) \/ UNCHANGED seenVars
    /\ UNCHANGED <<queue, settling, aborted, turn, runItem, owner, steerItem,
                   final, schedule, outcome, starter, Rest>>

\* Mutant of ApplyFollowUp: followUpQueueItemId is not cleared.
ApplyFollowUpKeepsItem ==
    /\ At("applyFollowUp")
    /\ MyTurn(Runner)
    /\ NoFault
    /\ Apply(runItem)
    /\ Goto("turn")
    /\ UNCHANGED <<settling, aborted, turn, runItem, owner, steerItem, final,
                   schedule, outcome, starter, seenVars, Rest>>

ApplyFollowUp ==
    /\ At("applyFollowUp")
    /\ MyTurn(Runner)
    /\ \/ /\ NoFault
          /\ Apply(runItem)
          /\ runItem' = NoItem
          /\ Goto("turn")
       \/ /\ FaultOr(~Consuming(runItem))
          /\ Throw
          /\ UNCHANGED <<queue, runItem>>
    /\ UNCHANGED <<settling, aborted, turn, owner, steerItem, final, schedule,
                   outcome, starter, seenVars, Rest>>

\* Mutant of BeginTurn: a turn that only runs tools is not counted.
BeginTurnUncounted ==
    /\ At("turn")
    /\ IF aborted THEN Throw ELSE Goto("provider")
    /\ UNCHANGED <<queue, settling, aborted, turn, runItem, owner, steerItem,
                   final, schedule, outcome, starter, seenVars, faultVars, Rest>>

\* The head of the loop: abort, turn limit, budget.
BeginTurn ==
    /\ At("turn")
    /\ \/ /\ aborted \/ turn = MaxTurns \/ AllowErrors
          /\ Throw
          /\ UNCHANGED <<turn, outcome>>
       \/ /\ ~aborted /\ turn < MaxTurns /\ AllowErrors
          /\ Goto("cleanup")
          /\ outcome' = "paused"
          /\ UNCHANGED turn
       \/ /\ ~aborted /\ turn < MaxTurns
          /\ Goto("provider")
          /\ turn' = turn + 1
          /\ UNCHANGED outcome
    /\ UNCHANGED <<queue, settling, aborted, runItem, owner, steerItem, final,
                   schedule, starter, seenVars, faultVars, Rest>>

\* A turn fails, ends in a final answer, or runs its tools.  After a compaction forced
\* by an overflow, or with a fallback model, the next turn follows at once.
FinishTurn ==
    /\ At("provider")
    /\ \/ /\ aborted \/ AllowErrors
          /\ Throw
          /\ UNCHANGED final
       \/ /\ ~aborted /\ AllowErrors
          /\ Goto("turn")
          /\ UNCHANGED final
       \/ /\ CallAt("steerTake")
          /\ final' \in BOOLEAN
    /\ UNCHANGED <<queue, settling, aborted, turn, runItem, owner, steerItem,
                   schedule, outcome, starter, seenVars, faultVars, Rest>>

\* applySteering returned false: a final answer settles the session, a turn
\* with tools goes on.
NotSteered ==
    /\ Goto(IF final THEN "settle" ELSE "turn")
    /\ settling' = (settling \/ final)

SteerTake ==
    /\ At("steerTake")
    /\ MyTurn(Runner)
    /\ \/ /\ NoFault
          /\ \E i \in ItemIds : Take("steer", i) /\ steerItem' = i
          /\ Goto("steerAppend")
          /\ UNCHANGED settling
       \/ /\ NoFault
          /\ Queued("steer") = {}
          /\ NotSteered
          /\ UNCHANGED <<queue, steerItem>>
       \/ /\ Fault
          /\ Throw
          /\ UNCHANGED <<queue, steerItem, settling>>
    /\ UNCHANGED <<aborted, turn, runItem, owner, final, schedule, outcome,
                   starter, seenVars, Rest>>

\* Mutant of SteerAppend: the item is marked applied although the append failed.
SteerAppendUnchecked ==
    /\ At("steerAppend")
    /\ \/ NoFault /\ AppendText(steerItem)
       \/ Fault /\ UNCHANGED seenVars
    /\ CallAt("steerApply")
    /\ UNCHANGED <<queue, settling, aborted, turn, runItem, owner, steerItem,
                   final, schedule, outcome, starter, Rest>>

SteerAppend ==
    /\ At("steerAppend")
    /\ \/ /\ NoFault
          /\ AppendText(steerItem)
          /\ CallAt("steerApply")
       \/ /\ Fault
          /\ CallAt("steerRequeue")
          /\ UNCHANGED seenVars
    /\ UNCHANGED <<queue, settling, aborted, turn, runItem, owner, steerItem,
                   final, schedule, outcome, starter, Rest>>

SteerApply ==
    /\ At("steerApply")
    /\ MyTurn(Runner)
    /\ \/ /\ NoFault
          /\ Apply(steerItem)
          /\ steerItem' = NoItem
          /\ Goto("turn")
       \/ /\ FaultOr(~Consuming(steerItem))
          /\ CallAt("steerRequeue")
          /\ UNCHANGED <<queue, steerItem>>
    /\ UNCHANGED <<settling, aborted, turn, runItem, owner, final, schedule,
                   outcome, starter, seenVars, Rest>>

SteerRequeue ==
    /\ At("steerRequeue")
    /\ MyTurn(Runner)
    /\ steerItem' = NoItem
    /\ \/ /\ NoFault
          /\ Requeue(steerItem)
          /\ NotSteered
       \/ /\ Fault
          /\ Throw
          /\ UNCHANGED <<queue, settling>>
    /\ UNCHANGED <<aborted, turn, runItem, owner, final, schedule, outcome,
                   starter, seenVars, Rest>>

\* The Stop hook is over: from here on the session is running but not settling.
Settle ==
    /\ At("settle")
    /\ \/ /\ NoFault
          /\ settling' = FALSE
          /\ schedule' = TRUE
          /\ outcome' = "completed"
          /\ Goto("commit")
       \/ /\ Fault
          /\ Throw
          /\ UNCHANGED <<settling, schedule, outcome>>
    /\ UNCHANGED <<queue, aborted, turn, runItem, owner, steerItem, final,
                   starter, seenVars, Rest>>

\* commitTurn of the context ledger.
Commit ==
    /\ At("commit")
    /\ \/ NoFault /\ Goto("cleanup")
       \/ Fault /\ Throw
    /\ UNCHANGED <<queue, settling, aborted, turn, runItem, owner, steerItem,
                   final, schedule, outcome, starter, seenVars, Rest>>

Catch ==
    /\ At("catch")
    /\ runItem # NoItem => MyTurn(Runner)
    /\ Goto("cleanup")
    /\ outcome' = IF aborted THEN "aborted" ELSE "failed"
    /\ runItem' = NoItem
    /\ \/ NoFault /\ Requeue(runItem)
       \/ Fault /\ UNCHANGED queue
    /\ UNCHANGED <<settling, aborted, turn, owner, steerItem, final, schedule,
                   starter, seenVars, Rest>>

Cleanup ==
    /\ At("cleanup")
    /\ IF schedule /\ ~aborted THEN CallAt("goal") ELSE Goto("end")
    /\ UNCHANGED <<queue, settling, aborted, turn, runItem, owner, steerItem,
                   final, schedule, outcome, starter, seenVars, faultVars, Rest>>

\* Mutant of Goal: one continuation too many.
GoalOnceMore ==
    /\ At("goal")
    /\ MyTurn(Runner)
    /\ \/ Queued("follow_up") = {} /\ goals <= MaxGoals /\ CallAt("goalList")
       \/ Goto("end")
    /\ UNCHANGED <<queue, settling, aborted, turn, runItem, owner, steerItem,
                   final, schedule, outcome, starter, seenVars, faultVars, Rest>>

\* maybeScheduleGoalContinuation: in goal mode the last answer may say that the
\* goal is incomplete.
Goal ==
    /\ At("goal")
    /\ MyTurn(Runner)
    /\ \/ /\ Queued("follow_up") = {}
          /\ goals < MaxGoals
          /\ CallAt("goalList")
       \/ Goto("end")
    /\ UNCHANGED <<queue, settling, aborted, turn, runItem, owner, steerItem,
                   final, schedule, outcome, starter, seenVars, faultVars, Rest>>

\* Its enqueueFollowUp; whatever that throws is swallowed.
GoalList ==
    /\ At("goalList")
    /\ MyTurn(Runner)
    /\ IF Cardinality(Queued("follow_up")) < MaxQueued
       THEN CallAt("goalEnqueue") ELSE Goto("end")
    /\ UNCHANGED <<queue, settling, aborted, turn, runItem, owner, steerItem,
                   final, schedule, outcome, starter, seenVars, faultVars, Rest>>

GoalEnqueue ==
    /\ At("goalEnqueue")
    /\ MyTurn(Runner)
    /\ Goto("end")
    /\ \/ NoFault /\ Enqueue("follow_up", NoRequest, "goal")
       \/ FaultOr(AtBound) /\ UNCHANGED queue
    /\ UNCHANGED <<settling, aborted, turn, runItem, owner, steerItem, final,
                   schedule, outcome, starter, seenVars, Rest>>

\* The end of the finally block.  A run that ended normally starts the next
\* follow-up once its record is written; startFollowUp learns that its run threw
\* and asks to put the item back.
Thrown == outcome \in {"aborted", "failed"}

EndRun ==
    /\ At("end")
    /\ pc' = "idle"
    /\ settling' = FALSE
    /\ aborted' = FALSE
    /\ turn' = 0
    /\ final' = FALSE
    /\ schedule' = FALSE
    /\ outcome' = IF aborted THEN "aborted" ELSE outcome
    /\ \/ /\ schedule /\ ~aborted
          /\ starter' = [starter EXCEPT ![owner] = [pc |-> "finish", item |-> NoItem]]
          /\ Calls(Runner, {})
       \/ /\ ~(schedule /\ ~aborted)
          /\ Thrown /\ starter[owner].item # NoItem
          /\ starter' = [starter EXCEPT ![owner].pc = "requeue"]
          /\ Calls(Runner, {<<"start", owner>>})
       \/ /\ ~(schedule /\ ~aborted)
          /\ ~(Thrown /\ starter[owner].item # NoItem)
          /\ starter' = [starter EXCEPT ![owner] = NoStart]
          /\ Calls(Runner, {})
    /\ UNCHANGED <<queue, runItem, owner, steerItem, seenVars, faultVars, Rest>>

(***************************************************************************)
(* startFollowUp.                                                          *)
(***************************************************************************)
Dismiss(c) == starter' = [starter EXCEPT ![c] = NoStart] /\ Calls(<<"start", c>>, {})

StarterCalls(c, step) ==
    starter' = [starter EXCEPT ![c].pc = step] /\ Calls(<<"start", c>>, {<<"start", c>>})

\* finishRun("completed") is awaited first; when it rejects nothing starts.
FinishRecord(c) ==
    /\ starter[c].pc = "finish"
    /\ \/ NoFault /\ ~Running /\ StarterCalls(c, "list")
       \/ NoFault /\ Running /\ Dismiss(c)
       \/ Fault /\ Dismiss(c)
    /\ UNCHANGED <<queue, runVars, seenVars, Rest>>

ListFollowUps(c) ==
    /\ starter[c].pc = "list"
    /\ MyTurn(<<"start", c>>)
    /\ IF Queued("follow_up") = {} THEN Dismiss(c) ELSE StarterCalls(c, "take")
    /\ UNCHANGED <<queue, runVars, seenVars, faultVars, Rest>>

\* The claim, and the call of run() with its guards.
TakeFollowUp(c) ==
    /\ starter[c].pc = "take"
    /\ MyTurn(<<"start", c>>)
    /\ \/ /\ NoFault
          /\ \E i \in ItemIds :
                /\ Take("follow_up", i)
                /\ \/ /\ CanRun
                      /\ StartRun(i, c)
                      /\ starter' = [starter EXCEPT ![c] = [pc |-> "running", item |-> i]]
                      /\ Calls(<<"start", c>>, {})
                   \/ /\ ~CanRun
                      /\ starter' = [starter EXCEPT ![c] = [pc |-> "requeue", item |-> i]]
                      /\ Calls(<<"start", c>>, {<<"start", c>>})
                      /\ outcome' = IF Running THEN outcome ELSE "refused"
                      /\ UNCHANGED <<pc, settling, aborted, turn, runItem, owner,
                                     steerItem, final, schedule>>
       \/ /\ FaultOr(Queued("follow_up") = {})
          /\ Dismiss(c)
          /\ UNCHANGED <<queue, runVars>>
    /\ UNCHANGED <<seenVars, Rest>>

\* Mutant of RequeueFollowUp: the rejection of run() is only logged.
RejectionIgnored(c) ==
    /\ starter[c].pc = "requeue"
    /\ MyTurn(<<"start", c>>)
    /\ Dismiss(c)
    /\ NoFault
    /\ UNCHANGED <<queue, runVars, seenVars, Rest>>

\* run() rejected: the item goes back if it is still claimed.
RequeueFollowUp(c) ==
    /\ starter[c].pc = "requeue"
    /\ MyTurn(<<"start", c>>)
    /\ Dismiss(c)
    /\ \/ NoFault /\ Requeue(starter[c].item)
       \/ Fault /\ UNCHANGED queue
    /\ UNCHANGED <<runVars, seenVars, Rest>>

(***************************************************************************)
(* The process dies and is started again: only the disk survives.          *)
(***************************************************************************)
\* Mutant of Crash: claims found after a restart go back to the queue.
CrashRequeues ==
    /\ crashes < MaxCrashes
    /\ crashes' = crashes + 1
    /\ pc' = "idle"
    /\ settling' = FALSE
    /\ aborted' = FALSE
    /\ turn' = 0
    /\ runItem' = NoItem
    /\ steerItem' = NoItem
    /\ final' = FALSE
    /\ schedule' = FALSE
    /\ outcome' = "none"
    /\ client' = [c \in Clients |-> NoRequestInFlight]
    /\ starter' = [c \in Clients |-> NoStart]
    /\ ahead' = [c \in Callers |-> {}]
    /\ shell' = FALSE
    /\ saving' = FALSE
    /\ queue' = [i \in DOMAIN queue |->
                   IF Consuming(i) THEN [queue[i] EXCEPT !.status = "queued"] ELSE queue[i]]
    /\ UNCHANGED <<owner, seenVars, faults>>

Crash ==
    /\ crashes < MaxCrashes
    /\ crashes' = crashes + 1
    /\ pc' = "idle"
    /\ settling' = FALSE
    /\ aborted' = FALSE
    /\ turn' = 0
    /\ runItem' = NoItem
    /\ steerItem' = NoItem
    /\ final' = FALSE
    /\ schedule' = FALSE
    /\ outcome' = "none"
    /\ client' = [c \in Clients |-> NoRequestInFlight]
    /\ starter' = [c \in Clients |-> NoStart]
    /\ ahead' = [c \in Callers |-> {}]
    /\ shell' = FALSE
    /\ saving' = FALSE
    /\ UNCHANGED <<queue, owner, seenVars, faults>>

RunStep ==
    \/ AppendTrigger \/ ApplyFollowUp \/ BeginTurn \/ FinishTurn
    \/ SteerTake \/ SteerAppend \/ SteerApply \/ SteerRequeue
    \/ Settle \/ Commit \/ Catch \/ Cleanup
    \/ Goal \/ GoalList \/ GoalEnqueue \/ EndRun

StarterStep(c) ==
    \/ FinishRecord(c) \/ ListFollowUps(c) \/ TakeFollowUp(c) \/ RequeueFollowUp(c)

ClientStep(c) == Launch(c) \/ ListQueue(c) \/ EnqueueItem(c)

Post(c) ==
    \/ PostStart(c)
    \/ CronFire(c)
    \/ \E req \in Requests \cup {NoRequest} : PostSteer(c, req) \/ PostFollowUp(c, req)

EditQueue ==
    \E i \in ItemIds : CancelItem(i) \/ \E kind \in Kinds : UpdateItem(i, kind)

DirectStep == BeginShell \/ EndShell \/ BeginSave \/ EndSave

Next ==
    \/ RunStep
    \/ \E c \in Clients : Post(c) \/ ClientStep(c) \/ StarterStep(c)
    \/ EditQueue \/ Abort \/ DirectStep \/ MoveBoundary \/ Crash

Spec == Init /\ [][Next]_vars

\* Node and the disk make progress: whatever was awaited eventually returns.
\* No request, abort, edit, fault or crash ever has to happen.
Fairness ==
    /\ WF_vars(RunStep)
    /\ \A c \in Clients : WF_vars(ClientStep(c)) /\ WF_vars(StarterStep(c))

FairSpec == Spec /\ Fairness

(***************************************************************************)
(* Safety.                                                                 *)
(***************************************************************************)
Calm == faults = 0 /\ crashes = 0

\* A run never shares the session with a `!cmd` or an editor save: the three
\* guards at the head of run() and of its two rivals.
RunExclusive == Running => ~shell /\ ~saving

HeldByRun(i) == Running /\ i \in {runItem, steerItem}
HeldByStarter(c, i) == starter[c] = [pc |-> "requeue", item |-> i]

\* While nothing fails, a claimed item is in the hands of the run or of a
\* starter that is about to put it back: no claim is stuck in `consuming`, also
\* when the guards of run() throw.
ClaimsHeld ==
    Calm => \A i \in ItemIds :
              Consuming(i) => HeldByRun(i) \/ \E c \in Clients : HeldByStarter(c, i)

\* What the run holds is claimed, and claimed for it alone: no starter puts it
\* back under its hands.
ClaimsExclusive ==
    Calm => \A i \in ItemIds :
              HeldByRun(i) =>
                /\ Consuming(i)
                /\ runItem # steerItem
                /\ \A c \in Clients : ~HeldByStarter(c, i)

\* Unless storage fails, the text of an item enters the history at most once,
\* whatever crashes; the item may stay claimed forever instead.
DeliveredOnce == faults = 0 => \A i \in ItemIds : appended[i] <= 1

\* An applied item is in the history; a cancelled one is not, unless a fault
\* hid that it had been appended.
HistoryAgrees ==
    \A i \in DOMAIN queue :
        /\ queue[i].status = "applied" => appended[i] > 0
        /\ queue[i].status = "cancelled" /\ faults = 0 => appended[i] = 0

\* Goal mode does not continue by itself for ever: the active segment of the history
\* has at most GOAL_MAX_CONTINUATIONS since the last message of a user or a timer, and
\* one more for each other starter.  (One that has claimed a continuation, and is refused
\* by run(), hides it from the look at the queue.)  A PATCH that turns a queued
\* continuation into steering hides it too, and a fault may write one twice.  What stands
\* before `/clear` or a compaction is not counted: with those it may go on for ever.
GoalsBounded ==
    ~AllowEdits /\ faults = 0 => goals <= MaxGoals + Cardinality(Clients) - 1

\* A request that is sent again to a running session, with the same behaviour, adds no
\* second item to the queue, also while another mutation waits and after the first item
\* was applied, cancelled, or left claimed by a crash.  A PATCH of the kind defeats it.
\* (It is about items: a message that finds the session idle is none, see PostStart.)
RetriesDeduplicated ==
    ~AllowEdits =>
        \A i, j \in DOMAIN queue :
            /\ queue[i].requestId = queue[j].requestId
            /\ queue[i].requestId # NoRequest
            /\ queue[i].kind = queue[j].kind
            => i = j

Quiet ==
    /\ ~Running
    /\ \A c \in Clients : client[c].pc = "idle" /\ starter[c] = NoStart

\* A cron prompt is not left in the queue of a session where nothing goes on:
\* it starts a run itself, or the run that is on does when it ends well.  (After a
\* fault or a crash it waits for the next run, and so it may after a PATCH of its kind.)
CronNotStranded ==
    Calm /\ ~AllowEdits /\ Quiet /\ outcome \in {"none", "completed"} =>
        \A i \in Queued("follow_up") : queue[i].source # "cron"

(***************************************************************************)
(* What the code's comments say and the code does not do.                  *)
(***************************************************************************)
\* Once the final answer is durable and the Stop hook has run, steering is
\* refused until the session is idle.
SteeringRefusedWhenDone ==
    [][ \A i \in ItemIds :
          /\ i \in DOMAIN queue' /\ i \notin DOMAIN queue
          /\ queue'[i].kind = "steer"
          => pc \notin {"settle", "commit", "cleanup", "goal", "goalList", "goalEnqueue", "end"} ]_vars

\* At most GOAL_MAX_CONTINUATIONS continuations follow a message of the user.  (Not
\* even in one segment: a claimed continuation is not seen.)
GoalLimitHolds == ~AllowEdits => goals <= MaxGoals

\* A message the route answered with 202 is taken by a run.
AcceptedStartRuns == ~dropped

\* An editor save excludes a `!cmd`.
SaveExcludesShell == ~(saving /\ shell)

(***************************************************************************)
(* Refinement: the queue keeps its promise to the sender.                  *)
(***************************************************************************)
MessageState ==
    [i \in ItemIds |-> IF i \in DOMAIN queue THEN queue[i].status ELSE "none"]

Delivery == INSTANCE DeliveryContract
              WITH Messages <- ItemIds, state <- MessageState, recorded <- appended

DeliverySpec == Delivery!Spec

(***************************************************************************)
(* Liveness.                                                               *)
(***************************************************************************)
\* A run ends: the turn limit bounds the loop, every exit reaches the end.
RunEnds == Running ~> ~Running

\* A claimed item is applied or returned.
ClaimsResolve == \A i \in ItemIds : Consuming(i) ~> ~Consuming(i)
=============================================================================
