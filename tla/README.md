# OpenWebCode in TLA+

OpenWebCode is an AI coding agent with a browser interface. This directory holds
TLA+ models of the parts of it where order, concurrency and failure decide whether
it is correct, TLC runs over small instances, and proofs checked by TLAPS.
Every definition is translated from the source; `PROJECT.json` ("map") names the
lines. Paths below are relative to `server/src` unless they start with `web` or `core`.

Contents: [the system](#the-system) · [modules](#modules) · [runs](#runs) ·
[what the properties say](#what-the-less-obvious-properties-say) ·
[where code and documentation differ](#where-code-and-documentation-differ) · [proofs](#proofs) ·
[not modelled](#not-modelled) · [plan](#plan)

## The system

    browser (web/src, React)
        |  HTTP: commands and queries        |  WebSocket /api/events: events
    Node server (server/src)
        |  JSON-RPC over stdio
    executor (core/src, C): files, processes, sandboxes

The server is one Node process: one callback runs at a time, and everything between
two `await`s is atomic. Concurrency is the interleaving of asynchronous functions at
their awaits. The executor is a process with a main loop, a pool of threads for commands and a
thread for each job. There is no database; state that survives a restart is in small files,
most of them rewritten as a whole by an atomic rename.

| component | state | operations | what makes it correct | module |
|---|---|---|---|---|
| Run loop (`agent/agent-runner.ts`, `routes/sessions-run.ts`) | per session: `running`, `settling`, `shells`, `workspaceWrites`; the history on disk | start a run, turns of provider and tools, steering, Stop hook, commit, failure, abort; `!cmd`; editor saves | runs, commands and saves exclude each other; a run ends | `RunControl`, `Turn` |
| Run control (`agent/run-control.ts`) | waiters for questions | steering, follow-ups, cron prompts, goal continuations; the next follow-up; questions | no message is lost, stuck or delivered twice; self-continuation is bounded | `RunControl`, `Interactions` |
| Message queue (`agent/message-queue.ts`, `sessions/store-utils.ts`) | `queue.json`, a chain of mutations | enqueue, update, cancel, take, apply, requeue | the life of an item; retries are recognised | `MessageQueue` |
| Cron scheduler (`cron-scheduler.ts`) | jobs, one timer, `cron.json`, a chain of writes | create, delete, check, reschedule, load | no point is fired twice, none is forgotten; answers survive a restart | `CronScheduler` |
| Events, server (`events/`, `app.ts`) | sequence numbers, bounded history, pending deltas, open sockets | publish, flush, replay, handshake, drop slow clients | order; no gap without an order to fetch | `EventStream` |
| Events, browser (`web/src/app/ws.ts`) | numbers and ids seen | connect, receive, reconnect | nothing is applied twice or skipped silently | `EventStream` |
| Questions (`agent/interaction-coordinator.ts`) | `interactions.json`, waiters | create, answer, wait, cancel | a waiter is always answered | `Interactions`, `Turn` |
| Permissions (`agent/permission-coordinator.ts`) | requests in memory, rules and mode in the session | request, respond, reconcile, review, abort | one outcome per request; nothing runs unasked | `Approvals`, `Turn` |
| Providers (`providers/concurrency-limiter.ts`) | slots and waiters | acquire, release, abort | never more than the limit; no slot is lost | `ConcurrencyLimiter`, `Turn` |
| Sub-agents, background tasks (`agent/sub-agent.ts`, `agent/background-tasks.ts`) | agents of a run; tasks with a process each | spawn, stop, finish | they end with their parent; nothing is pulled away under a task | `Turn`, `Workspace` |
| Workspace gates (`app.ts`, `routes/`) and snapshots (`snapshots/`) | leases, marks, locks, `checkpoints.json` | message, retry, file, save, upload, `!cmd`, checkpoint, restore, synchronise, delete | those who replace the workspace exclude those who use it; no checkpoint is lost | `Workspace` |
| Persistent shell (`agent/persistent-shell.ts`) | shells, queues, records | run, open, initialise, time out, abort, dispose | commands follow each other, none runs twice, no terminal leaks | `PersistentShell` |
| Core client (`core-client.ts`) | process generation, pending requests and timers, queue of commands | call, answer, time out, fail, restart, stop, cancel | a dead generation is never served; every caller hears | `CoreClient` |
| Sandbox (`sandbox/core-router.ts`) | the policy of each session, who sends it | configure on demand, join, supersede, proxy | no command under a wrong or missing policy | `CoreRouter` |
| Executor (`core/src/rpc.c`) | queue and threads of commands; table of jobs with rings | run, cancel; start, output, status, cancel a job | memory is owned, wakeups are not lost, slots are not shared | `ExecPool`, `JobTable` |
| Collectors of jobs (`core-client.ts`, `rpc/job-collect.ts`, `agent-runner.ts`, `diagnostics/service.ts`) | what was read of a job | start, poll, page, cancel | a result is whole or said not to be; jobs are not left behind | `JobCollectors` |
| Sessions (`sessions/session-store.ts`) | `messages.jsonl`, `meta.json`, a cache, a chain | append, truncate, change settings, read | nothing accepted is lost; torn lines are healed | `SessionLog` |
| Extensions, MCP, DSH, index, source control, settings, chat, context, web interface | see `PROJECT.json` | | | |

How they meet: a route or a timer passes the gates of the workspace and calls the run loop or run
control; run control calls the queue and starts runs; a run calls providers, permissions, questions,
the executor (through the router, the client, a persistent shell or a job) and the session
store; everything publishes events, which the bus sends to the browsers, whose reaction is the next HTTP
request. The hard behaviours, each with its line and the properties that cover it, are the
"hazards" of `PROJECT.json`.

## Modules

An `MC…` module instantiates the module whose name it carries for TLC; each has one `.cfg`
(`RunControl` three).

### MessageQueue, RunControl, DeliveryContract

`MessageQueue` is `queue.json` of one session. A mutation re-reads the file, changes one
item and replaces the file inside a promise chain, so it is one step. An item is its
position in the file. Its text is left out; kind, status, request id and source stay.

`RunControl` extends it with the run and everybody who talks to it. `pc` says at which
await `AgentRunner.run` stands:

| `pc` | code |
|---|---|
| `start` → `applyFollowUp` | the trigger message is appended, its queue item applied (agent-runner.ts 1278-1337) |
| `turn`, `provider` | the loop of turns (1399-2163); what a turn and its tools do is chosen: answer, tool use, budget paused, error |
| `steerTake` … `steerRequeue` | `applySteering` (run-control.ts 204-219) |
| `settle`, `commit` | after the final answer: Stop hook, `commitTurn` (2006-2020) |
| `catch`, `cleanup` | failure and the `finally` block (2167-2203) |
| `goal` … `goalEnqueue` | the goal continuation (run-control.ts 237-274) |
| `end` → `idle` | the end of `finally` (2205-2243) |

`client[c]` is a request in flight, cut where its handler awaits. `starter[c]` is what that
request set off, a call of `startFollowUp` or the promise of a run; `owner` says whose run
it is, because the code behind a run continues in the function that started it.
`ahead[x]` are the queue calls x must wait for: the chain of promises in
`store-utils.ts` makes the order of calls the order of effects, but lets the caller of a
finished call go on before the next mutation. `appended` and `dropped` only observe. `goals` is what
`maybeScheduleGoalContinuation` counts: the continuations at the end of the active segment, which begins at the last `/clear` or
compaction (`pickSegmentBoundary`); `MoveBoundary` is either of these.
Storage may fail `MaxFaults` times, at every write; the process may crash
`MaxCrashes` times, at every await. A crash keeps `queue`, `appended` and `goals` only.

`DeliveryContract` is what the queue promises the sender: claimed before recorded, applied
only if recorded, cancelled only while unclaimed, both for good. `RunControl!DeliverySpec`
is its specification under the refinement mapping `state <- MessageState`,
`recorded <- appended`.

### RunAgents, ConcurrencyLimiter, Interactions, Approvals, Turn

What `RunControl` takes for one step, a turn, is cut open here. `Turn` is the loop of the main agent
and of its sub-agents from the call of the model to the end of a tool, composed of the three things
it waits for: `ConcurrencyLimiter` (a slot of the provider: `acquire`, hand-over in
`release`, leaving the line), `Interactions` (a question: the waiter is registered
before the file is read; answers are saved before the waiter is told) and `Approvals` (a permission:
the list of requests; the answer that takes its request off the list, saves a rule and resolves when its
reply is sent; a change of the mode, written over what was read before, that settles the requests it makes
superfluous). `RunAgents` declares the agents all of them share. `grounds[a]` observes what
spoke for and against the tool that `a` calls. Tools are three kinds: a command, an edit, an access
outside the home directory; modes and rules decide among kinds.

### Workspace

One session, managed (a mounted image) or not, and any few requests to it: `request[c]` says what the
request is, where its route or run stands, and which lease it has. `gate` is what `app.ts` counts
(`managedWorkspaceUses`, `managedCheckpointingSessions`, `managedSyncingSessions`), `marks` the mark of a
restore and the lock of `session-lock.ts`, `agent` the three flags of the runner, `task` the
background task of a run. A run goes from its first line to its checkpoint and through its turns;
`GitShadowSnapshots.create` and `delete` read `checkpoints.json` in one step and write it in another. The
requests that are refused at once are left out, but for `RestoreRefused`, which changes something.
`odd` remembers the two things the gates let happen (below).

### ExecPool, CoreClient, CoreRouter, ExecContract

Three layers, each extending the one below. `ExecPool` is the executor process as far as it runs commands: the
main loop, the queue, the threads, the condition they wait on, cancellation, and who frees what. `CoreClient`
is the server's end: generations of the process, their exit and close events, the restart timer, pending
requests, places and queue of commands, `stop()`. A settled promise goes on in a microtask: `micro`
holds those in order, and nothing else happens in the server before it is empty. `CoreRouter` remembers
which session has which policy and sends it before a command, with calls that join the one under way,
a newer policy that supersedes it, and a proxy that does not start. `ExecContract` is what whoever runs a command may
rely on: started at most once, never after its caller was told its fate, and told only what
happened. `CoreRouter!KeepsContract` is the refinement.

### JobTable, JobCollectors

`JobTable` is the table of jobs of the executor: slots that outlive their job until they are reused, with a ring of
output chunks (a chunk is its number) and the address of a slot that each thread holds. `JobCollectors` are
the loops of the server that poll it: the search (state first, pages to the end, a gap is an error), the bash
tool (output, state, one page more) and the test run.

### PersistentShell

The bash tool of one session and backend: `step[c]` is how far the call is (chain, opening, draining,
initialisation, execution, job), `record`, `shell`, `last` are the maps of the class, `pty` and `exits` the
terminals and their notifications. Timeouts, aborts, exits, disposal after a change of the configuration and the retry
of a command whose terminal was gone are actions. That the markers of the protocol are recognised is assumed.

### SessionLog

`messages.jsonl` as complete lines and a tail (clean, cut, or without its line end), `meta.json`, the
cache of the history with the size it was read at, the chain of appends and truncations, and beside the chain a
reader and a change of the settings. A write may fail half-way and the process may crash between any two
steps; both leave a torn tail, which the next append repairs. A truncation writes back what it holds in memory, so that what
was wrong there gets into the file. All lines have one length, which is the worst case for
a cache that compares sizes.

### CronScheduler

Memory (`jobs`, `timer`), the file (`disk`) and the chain of writes of the scheduler, the calls of `check()`
(several may be under way, which is the point), and the requests. A cron expression is
the set of times it matches. A `Tick` is a minute; it may come between any two steps.
`told` and `delivered` observe what users were answered and what sessions got.
`Crash` leaves the file either as it was or as a write under way would have it. The handler of a firing comes from
`index.ts`, the deletion of a session from `routes/sessions-files.ts`.

### EventStream

The bus, one page per client and the socket between them as a queue of frames, lost when
the socket breaks. `log` remembers every event ever numbered; an event's id is its place in
it. `socket[c].replayed` tells frames of the handshake, which the server does not count as
pending, from those of the fan-out. A size is one byte for an event or a part of
a delta, and an oversize event. A page that is told to fetch its state is taken to do so:
everything up to that moment is `covered`.

## Runs

TLC checks each run completely. Bounds are constants of the modules; each is named in a
comment there.

| run | instance | checks |
|---|---|---|
| `run_races` (2.6 M states) | two clients, two items, one turn; failing turns, `!cmd` and saves | `RunExclusive`, `ClaimsHeld`, `ClaimsExclusive`, `CronNotStranded` |
| `run_failures` (2.5 M) | one client; aborts, errors, edits, one storage fault and one crash anywhere | `HistoryAgrees`, `DeliveredOnce`, `DeliverySpec` |
| `run_live` (0.25 M) | one client, one request id; aborts, errors, `!cmd` and saves; fairness | `RetriesDeduplicated`, `GoalsBounded`, `RunEnds`, `ClaimsResolve` |
| `turn` (0.8 M) | a main agent that asks, two sub-agents that call tools, one slot; a change of the mode, a Stop, one closed connection or unwritten rule; fairness | `NobodyIsStranded`, `NothingRunsUnasked`, `SlotsAreKept`, `StopEnds` |
| `workspace` (1.7 M) | any three requests of any kinds, all four kinds of session | `LeasesExclude`, `CheckpointsKept`, `RestoreIsAlone` |
| `cron` (1.2 M) | a one-shot and a recurring job, one user, two checks at once, times 0..2, a fault or a crash (if two checks overlap no fault, and no crash with a deletion of the session); fairness | `OncePerPoint`, `TimerCoversJobs`, `DiskAgrees`, `DueIsServed` |
| `event_stream` (0.9 M) | one page, one session, one stream, four publications, a history of two events and three bytes, one broken socket, one restart; fairness | `NoSilentGap`, `DeltasKeepOrder`, `CatchesUp` |
| `exec_pool` (0.5 M) | three commands, two threads, a queue of two, any client, processes that are replaced | `RequestsAreOwned`, `NoLostWakeup` |
| `core_router` | two commands, their cancellations, a change of the policy to one with a proxy; one thread, a queue of one; two faults or other events; fairness | `ProcessIsKept`, `RestartKeepsPolicy`, `KeepsContract`, `CallsSettle` |
| `persistent_shell` | three calls, up to six terminals, two faults, an abort, a change of the configuration; fairness | `Serialized`, `NoStrayTerminal`, `CallsEnd` |
| `jobs` | a search, a bash call and a test run on two slots with rings of two chunks; one fault, one abort | `ThreadOwnsSlot`, `ResultIsWhole`, `NoJobLeftBehind` |
| `session_log` (8.0 M) | three appends, a reader, and two truncations, or one with a change of the settings, a failing write and a crash | `AcceptedIsReadable`, `PathIsWhole`, `NothingMissed` |

Why the bounds suffice. Two clients are what a race of runs needs: one whose run is ending, one whose
request comes in between; the claims are proved for any number. Two items let a second
claim meet the first; one turn is also the last turn, which is the special one; a limit of
one goal continuation is reached and then refused (with several clients the bound is proved only). With one slot and three agents a slot is handed over while
another waits. Three requests to a workspace let a restore, the checkpoint it restores and a message meet. Two checks of the scheduler
overlap, two jobs let a write of the one meet a firing of the other, and `MaxDelay` of one cuts a
delay of two ticks off. A history of two events overflows by number and by bytes, and four publications
suffice to fall behind, be evicted and come back. Three commands fill a queue of two behind a busy pool. Two faults are a crash
of the process that replaces a crashed one. Rings of two chunks are overtaken by three, and two slots are
reused by a third job. Three messages let one be torn, one be appended behind it and one be read.
`exec_pool` cuts the frames on their way to one in each direction (`CONSTRAINT`), because its client may send anything at any time.

Symmetry is used only in runs without liveness; no definition picks a symmetric value by `CHOOSE`. Deadlock is
checked in the runs of `RunControl`. The other instances come to rest when everything they may do is done (requests made, calls
ended, the clock at its horizon), so they say `CHECK_DEADLOCK FALSE`; that nobody waits for ever is what their liveness and
"nobody is left" properties say.

Every property of a run has a mutant: a definition changed the way a plausible bug
would change the code, under which TLC finds the property violated. They stand in the
modules, just before the definition they change.

### Fairness

Node serves callbacks in turn, so a step that stays possible is taken: weak fairness of the steps of the program.
What users, the clock and failures do need never happen.

- `RunControl`: weak fairness of the run, of each starter and of each request. Provider, tools and the Stop hook
  are assumed to answer or to fail.
- `Turn`: weak fairness of all steps of the program and of the answer of the model, and of nothing the user does:
  `StopEnds` needs no answer.
- `CronScheduler`: writes and handlers return, a timer that has gone off is served; ticks need not come.
- `EventStream`: the flush timer goes off, sockets deliver what they hold, a page reconnects
  without end (`ws.ts` 119 has no limit), and sockets break only `MaxDrops` times.
- `CoreRouter`: server, main loop and threads go on, timers go off; that a command ends by itself is not assumed.
- `PersistentShell`: terminals answer, exit, or their time runs out; the executor answers. With the setting 0 for no limit the code
  arms no timer (persistent-shell.ts 511): `CallsEnd` is about a finite limit.

### What the less obvious properties say

- `CronNotStranded`: a prompt of a timer never sits in the queue of an idle session whose
  last run ended well, as long as nothing fails and nobody edits the queue. (After a failed run it does, see the next section.)
- `GoalsBounded`: without storage faults and edits, at most `MaxGoals` continuations in a row in the active segment, and one more for each client but the
  first, because whoever has claimed a continuation that `run()` refuses hides it from the count of the others. It bounds a
  segment only: each `/clear` and each compaction, also one that a long run forces by itself, lets the count begin anew.
- `RetriesDeduplicated`: a message sent again to a running session, with the same id and kind, is no second item, whatever became of the first.
  It is about items. A message to an idle session is none: the route starts a run and does not look at the id (sessions-run.ts 323), so that a retry
  that comes after the run, or of the message that started it, is delivered as a message of its own.
- `NobodyIsStranded`: whoever waits for an answer can still be reached, by the answer and by Stop, although the promise
  is handed from list to list.
- `NothingRunsUnasked`: a tool that runs was exempt at some time of its call, or found harmless, or allowed, and
  was not denied or stopped; the settings it was judged by may be old, but only on the safe side.
- `LeasesExclude`: what is counted is what is held, on every path; and nobody works in a managed workspace while it is
  replaced, but for a run without a lease (below).
- `CheckpointsKept`, `RestoreIsAlone`: see the comments there for the one excuse that each has; both are things the code does.
- `OncePerPoint`: points are fired once as long as checks do not overlap and the process
  does not crash. Without the first premise it is `OneShotOnce`, which fails.
- `DiskAgrees`: what was answered as created is in the file, what was answered as deleted does not come back, whatever
  crashes.
- `NoSilentGap`: a page that has read its socket empty has applied every event since it
  first connected, or was told to fetch its state after it; the same for a page of one session, whatever number it names.
  Oversize events are excused, as the bus does not keep them for a replay (event-bus.ts 156).
- `RequestsAreOwned`: a command's memory is freed when nothing reaches it, and its request is answered once, by thread or main loop.
- `ProcessIsKept`: one process, of the current generation; nothing old ends a healthy one; no place stays free while somebody waits.
- `RestartKeepsPolicy`: a command finds its session configured, and a process at rest has the policy the user wants,
  unless two policies were on their way together.
- `AcceptedIsReadable`, `NothingMissed`: with the two things that spoil the cache as excuses, a read that the file got shorter under
  and a message that was added to what was read twice; both are things the code does.
- `PathIsWhole`: the model is shown every message that was accepted, unless a change of the settings overlapped an append.

## Where code and documentation differ

Each of these is a definition in its module that the code does not satisfy. No run checks them; add the
name to the module's `.cfg` as `INVARIANT` (`PROPERTY` for `SteeringRefusedWhenDone`) and TLC shows the steps.

- `SteeringRefusedWhenDone` (RunControl): agent-runner.ts 2006 says that steering in the window of the
  Stop hook and the cleanup gets a 409. `settling` is cleared at 2015 before the commit and
  the goal continuation, and a request may have passed its test before two awaits.
- `AcceptedStartRuns` (RunControl): a message answered with 202 is lost when another run, a
  `!cmd` or an editor save began during the route's awaits (sessions-run.ts 324).
- `SaveExcludesShell` (RunControl): a `!cmd` starts while an editor save waits for its approval; the
  opposite order is refused (agent-runner.ts 2749, 2863).
- `GoalLimitHolds` (RunControl): run-control.ts 234-236 allows ten continuations since the last message of the user. The count
  is taken of the history and the queue; a continuation that a starter has claimed, and will put back because another run began, is
  in neither (243). Two clients, three items and `MaxQueued = 2` show it. And the history is only its active segment (239): what stands before
  `/clear` or a compaction is not counted, so that the continuations since that message have no bound at all. (`goals` is the count of
  the segment; this second way is seen in `MoveBoundary`, not in a violation.)
- `OneShotOnce` (CronScheduler): creating or deleting a job while a check awaits its handler starts a
  second check, which fires the same job again; cron-scheduler.ts 12-13 says that a one-shot job
  fires once.
- `RestartIsNoticed` (EventStream): after a restart of the server a reconnecting page is not told to fetch
  its state and drops events numbered below those it remembers, although the FAQ says
  that a reconnection loses no event.
- `DecisionSurvivesClose` (Turn): sessions-run.ts 377-380 adds its listeners for the end of the reply after an await; when the
  connection has closed by then, the decision is never carried out, and as the request is off the list, Stop does
  not end the run either.
- `RestoreExcludesRuns` (Workspace): sessions-files.ts 207 says that the mark of a restore is held throughout. A second request
  to restore that is refused takes it back (212), and retries and queued prompts never ask for it.
- `CheckpointsSerialized` (Workspace): session-lock.ts 5-7 says that what rewrites `checkpoints.json` is serialised. The automatic
  checkpoint of a run does not take the lock.
- `NeverDismounted` (Workspace): app.ts 359-362 says that an image is not dismounted under a request. A run that is started from the
  queue has no lease and makes its automatic checkpoint all the same.
- `CoreHasDesiredPolicy` (CoreRouter): two changes of a policy whose answers cross leave the process with the older one
  (core-router.ts 219-224, 389).
- `AlwaysSerialized` (PersistentShell): persistent-shell.ts 267 says that commands of a session and backend follow each other;
  `dispose()` forgets the chain (310) and not the calls in it.
- `TestRunHasResult` (JobCollectors): diagnostics/service.ts 121 asks for a page of 256 chunks, rpc.c 1917 allows 128 and refuses:
  a test run never has a result.
- `TruncationKeepsRecords` (SessionLog): session-store.ts 593 says that truncating keeps the records on the disk. It writes those it has in memory
  (608-609); when the entry that was read is not the file (see the next), an accepted message goes that was to stay.
- `CacheIsFile`, `NothingOffPath` (SessionLog): a read that overlaps an append puts a message into the cache twice (session-store.ts
  1176, 1189); a change of display settings that overlaps an append writes the old leaf back (550, 578), and the message is
  not shown to the model.

Met while modelling, without a definition: a follow-up queued during a run that fails or
is paused is not started when the run ends (run-control.ts 91 says it is); a run whose commit fails
continues its goal all the same (agent-runner.ts 2198 says it does not); under a storage fault the
second `requeue` of a failed run can take the item from the run that claimed it in between
(run-control.ts 290 calls it harmless); "always allow" writes back the mode it read before its await
(agent-runner.ts 2299), and a change of the mode the rules (sessions-context.ts 208); an abort before `job.start` has been answered
is lost (agent-runner.ts 4261); a search whose output has a gap leaves its job running; the abort of a shell command that is
opening its terminal is lost.

## Proofs

Eight modules hold theorems, each for every value of the constants: any number of clients, items, agents, requests,
commands, threads, jobs, terminals, faults and crashes.

| module | theorem | statement |
|---|---|---|
| `RunControl_claims` | `TypeCorrect` | `Spec => []TypeOK` |
| | `RunsAreExclusive` | `Spec => []RunExclusive` |
| | `ClaimsAreHeld` | `Spec => []ClaimsHeld` |
| | `ClaimsAreExclusive` | `Spec => []ClaimsExclusive` |
| | `TextsAreDeliveredOnce` | `Spec => []DeliveredOnce` |
| | `HistoryIsFaithful` | `Spec => []HistoryAgrees` |
| | `RetriesAreDeduplicated` | `Spec => []RetriesDeduplicated` |
| | `CronsAreServed` | `Spec => []CronNotStranded` |
| | `GoalsAreBounded` | `Spec => []GoalsBounded` |
| | `QueueKeepsContract` | `Spec => DeliverySpec`, if `MaxFaults = 0` |
| `Turn_proofs` | `LimiterKeepsSlots` | `LimiterSpec => []SlotsAreKept` |
| | `RunKeepsSlots` | `Spec => []SlotsAreKept`, for the whole of `Turn` |
| | `WaitersAreReachable` | `Spec => []NobodyIsStranded` |
| | `ToolsRunOnGrounds` | `Spec => []NothingRunsUnasked` |
| `Workspace_proofs` | `LeasesAreExclusive` | `Spec => []LeasesExclude` |
| | `CheckpointsSurvive` | `Spec => []CheckpointsKept` |
| | `RestoresAreAlone` | `Spec => []RestoreIsAlone` |
| `CoreRouter_proofs` | `CommandsAreOwned` | `PoolSpec => []RequestsAreOwned` |
| | `NoWakeupIsLost` | `PoolSpec => []NoLostWakeup` |
| | `OneProcessIsKept` | `Spec => []ProcessIsKept` |
| | `PolicySurvivesRestart` | `Spec => []RestartKeepsPolicy` |
| | `ExecutorKeepsContract` | `Spec => KeepsContract` (`ExecContract`) |
| `PersistentShell_proofs` | `CommandsAreSerialized` | `Spec => []Serialized` |
| | `TerminalsAreListed` | `Spec => []NoStrayTerminal` |
| `JobCollectors_proofs` | `ThreadsOwnSlots` | `Spec => []ThreadOwnsSlot` |
| | `ResultsAreWhole` | `Spec => []ResultIsWhole` |
| | `NoJobRunsOn` | `Spec => []NoJobLeftBehind` |
| `CronScheduler_proofs` | `FileInvariant` | `Spec => []FileInv` (`TypeOK` and more) |
| | `AnswersSurvive` | `Spec => []DiskAgrees` |
| | `TimerIsRight` | `Spec => []TimerCoversJobs` |
| | `PointsAreFiredOnce` | `Spec => []OncePerPoint` |
| `SessionLog_proofs` | `AcceptedAreReadable` | `Spec => []AcceptedIsReadable` |
| | `CacheMissesNothing` | `Spec => []NothingMissed` |
| | `PathsAreWhole` | `Spec => []PathIsWhole` |

Assumptions are those the modules state about their constants: `NoRequest` is no request,
`Runner` no client; there is a session; agents, clients, threads and requests are finite where they are counted; bounds are natural numbers, at least one
where the code does a thing at least once (the loop of turns, the slots of a provider); switches are Booleans.

Every inductive invariant below was first checked by TLC on the instance of its run or one like it.

**Runs.** `TypeOK` is inductive; its five parts are carried over a step by a lemma each.
`RunExclusive` is inductive by itself. The claims are not: that a starter does not put back
the item of a running run depends on whose run it is and where it stands. `OneStarter`
says that a run belongs to exactly one client, whose starter waits for it. `ClaimInv` says,
for each place of the run, that its item is claimed and how often its text is recorded
(`RunHolds`, `SteerHolds`), that a starter which is to put an item back holds one
that is applied or nobody else's (`StartersHold`), that recorded texts belong to claimed
or applied items (`Recorded`), and that every claim has a holder unless a crash took it
(`Held`). `TypeOK /\ OneStarter /\ ClaimInv` is inductive; the claims and `DeliveredOnce` follow.
`ClaimInv` is only about states without storage faults: with one, the second requeue breaks it, as
said above. `HistoryAgrees` also speaks about faulty states; its inductive part there is
`AppliedIsRecorded`. The refinement takes from these invariants that a text is appended only
for a claimed item and an item applied only after that, and shows that each step is one of
the contract's or leaves its state alone.

`RetriesDeduplicated` is inductive: a step leaves kind and request of every item as they are, or adds one behind the test
for them. For `CronNotStranded` one must know who will look at the queue once more. `EndInv` says that a run which ended well will schedule the next
follow-up; `CronInv`, that in an idle session a queued cron prompt has a starter that has yet to look, and that an item on its way
back has one that looks after it (or one whose look stands behind it in the chain of the queue: `LooksAfter`).
`GoalsBounded` counts what is in the active segment of the history; `GoalsCounted` adds what is still to come: continuations in the queue, those whose claimer will append
them or put them back, and the one a run has decided on. The decision sees all of these but what other
starters hold, at most one each, which is where the term for the clients comes from; a boundary that moves only takes from the count. `KindsOfGoals` says that steering never takes one.

**What an agent waits for.** `SlotsAreKept` counts the holders of slots; that a slot handed over has one new holder needs the
types, and that a slot may be freed when nobody waits needs its third part. It
is inductive for the limiter, and each action of `Turn` is one of the limiter's or leaves it alone.
`TurnInv` adds, for each step of an agent, where the thing is that it waits for: a request that waits is on the list or its answer is
under way (`Requested`); a question that waits has its waiter, or will look at the file once more, or is being told (`Questioned`);
a call begins only while a round is left, and the line is empty after Stop (`RoundsLeft`). For `NothingRunsUnasked` it says that
settings which were read and exempt the call have been saved at some time of it (`Exempted`), and that only a call that was asked
about can be denied or stopped (`Refused`). Each part is carried over a step by a lemma that goes through the actions one by one.

**The workspace.** Each property has an invariant that rests on those before it. `LeaseInv`: the gate counts exactly the leases that are held, an exclusive one is
alone, and how far a request came says which lease it has. `OrderInv`: one run, one holder of the lock. `ListInv`:
unless the checkpoint of a run overlapped, the one request that is to write `checkpoints.json` has read what is in it. `TaskInv` and `AloneInv`: whoever
stops a task waits for it, and no message run or task of one is alive beside a restore that is marked.

**The executor.** `OwnInv` puts every command in one place: a frame that asks for it, the queue, a thread, the main loop, or
nowhere; it says at each place whether it is active, answered, freed. `NoLostWakeup` compares the length of the queue with the number of threads that are awake
and have yet to look, and is inductive with the types.

For the whole executor the difficulty is that one step of the server drains a whole queue of microtasks. The drain is a recursive function; that it has a solution is shown by
naming one (`DrainedIs`), and that it keeps an invariant by a least number of turns after which it would not, since the induction theorems of the library cannot be used.
So an invariant about client, pipes and server need only be kept by each microtask. `CoreInv` is that invariant: every frame that is under way or waits in the server
belongs to a request that waits (`FramesInv`, `QueuedInv`), every request to a call or a command (`PendingInv`), every call waits at one place (`PlacesInv`, `JoinedInv`), the
generation of the process is that of the links which can still speak for it (`LinkInv`, `GoneInv`), and whoever goes on because the policy is set has one set in the process that is alive (`KnownInv`,
`ThereInv`, `SettledInv`). `ProcessIsKept` follows. `RestartKeepsPolicy` also needs that a process answers the handshake before anything else (`FirstInv`), and that, unless
calls with different policies overlapped, one call at a time sends a session's policy and what the process has is what was sent last (`AloneInv`).

The refinement `KeepsContract` needs besides `CoreInv` that what is on its way is so (`TruthInv`): a command that is asked for, waits or was taken has not begun (`PhaseInv`); a flag, and a
cancellation in the pipe, belong to a command somebody cancelled (`StopsInv`, `AskedInv`); and an answer tells what happened to its command (`AnswersInv`). Every step is then
a step of the contract or leaves its state alone (`Allowed`): a thread that begins or ends a command starts or ends it there, a call of a user asks or cancels, and whoever is told
anything was with the client or the process and is told the truth.

**Shells.** `Serialized` holds because of the chain of promises: every call before one that had its turn has settled (`InOrder`). `Listed` says that the table
has every terminal that runs and none while one is opened; `Records` and `RanOnce`, that terminals and calls agree, and where a command cannot have
run yet. After `dispose()` has forgotten the chain the last two still hold.

**Jobs.** `JobsInv` relates a slot to the collector of its job: what was read of a slot that has lost nothing is 1, 2, … up to
`afterSeq`; a state that was read is still the state; a completed job has written everything. A step of the table lets slots
age (`Ages`): outputs grow, states end, flags rise, and a slot that changed hands is not found any more, so what a collector
knows stays true. The table's own part is `ThreadOwnsSlot` for every thread.

**The scheduler.** `FileInv` says of memory, of `cron.json` and of every snapshot that is being written what each owes to the answers: a created
job that was answered is in all of them, a deleted one in none (`AnswersHold`); what a call that waits for its write created or
deleted is so in its snapshot (`CallersHold`), which needs that only the first of the chain writes and only callers that wait are in it
(`OneWriter`, `OnlyWaiting`); and the due jobs of a check are copies whose job did not change but in its mark (`DueIsCopied`). The timer rests on two
lemmas: a timer set by `reschedule()` covers every job (`RearmedIs`), and a timer that covers a job still does a tick later (`CoveredLater`).
`OncePerPoint` rests on one about `check()`: what it lists lies ahead of the job's last mark and not ahead of the present
(`DueOfIs`), so a mark with the time of the check passes it.

**The log.** What a line needs is known from the step of the append whose turn it is (`Lines`): the tail is clean before the write, is its own
line while writing, and ends the file after. That a number is new when it is written needs `Numbered`: nothing in the file, in memory or
under way has the number of a call that has not begun to write (`Past`). The cache compares sizes, so `Sizes` says what a size read long ago is worth:
what was read with it covers every record that ended there (`Covers`), as long as the file has not got shorter. `Once` and `Faithful` add, with the excuses,
that no list has a message twice and that what is held is where the file begins; a list that covers the file and begins it is the file.
TLC had accepted `PathIsWhole` and a weaker `AcceptedIsReadable` with one truncation; with the second, which the induction asked for,
a truncation writes back what an overtaken read left behind. The model (which had looked the records up in the file), the property and the run were corrected.

For `PathIsWhole`, `TreeInv` adds that the leaf, and the parent of a message that is to be written, stand behind every answered message (`Leaf`, `Parent`),
so that no message's parent stands before an answered one that stands before it (`Shape`); that a copy in memory is a tree even if a message is in it twice
(`Copies`); and that a change of the settings which did not overlap writes back the leaf that is there (`Fresh`). The path itself is a recursive function. That
its recursion has a solution is shown by naming one (`PathIs`: the positions in every set that is closed under going to the parent), and that every
solution has all answered messages by a least position that lacks one (`Least`, `PathHas`), where the induction theorems of the library cannot be used.

Only model-checked:

- liveness and fairness (`RunEnds`, `ClaimsResolve`, `StopEnds`, `DueIsServed`, `CatchesUp`, `CallsSettle`, `CallsEnd`), out of the prover's reach;
- `EventStream`: batches, replays and evictions are folds over sequences. What a fold computes would have to be shown as for `PathIs` and `DrainedIs`, by a set that is closed under its step; not done;
- `DeliverySpec` with a storage fault.

## Not modelled

- In the modelled parts: texts and their limits of length, the wording of events, the
  parser of cron expressions and the calendar, what a tool does to files, `session.deleted` in the bus, what the page does with an
  event or when it fetches its state, the bytes in a socket, the 4096 event ids a page remembers,
  the negotiation of features with the executor, isolated executors (another client with the same code), sentinels in the output of a
  shell, forks, deletion and indexes of sessions, several retries of a provider before its first token.
- Details the properties do not tell apart: truncation and checkout of branches beside `goals`; the read-only tools and
  `git_commit` among the kinds of tools of `Approvals`; the chunks `writeInput` sends one after the other; a frame that is handed to the socket but
  not yet called back (`IsSlow` counts frames in the queue); the order of the two replies to `exec.cancel` and the command it
  takes out of the queue; errors of `session.configure` in the executor; errors of `job.start` before a slot is taken
  (in `StartFails` a slot was taken).
- Everything `PROJECT.json` lists as `not_modelled`, with the reason there. Provider protocols,
  sandboxes and platform code are input and output; the C code outside `rpc.c` parses, walks and spawns; the user interface, the catalogues of presets
  and the host of foreign extensions are rendering, data and adapters, and most of the repository's lines.

## Plan

Modelled, checked and proved: what is said above. What is left, in this order:

1. Proofs for `EventStream`: its folds would have to become sets of numbers first, or be given by a closed set as in `PathIs`.
2. The context ledger (`context/`): `beginTurn` and `commitTurn` against a compaction under way.
3. The host of extensions, whose requests and restarts have the shape of `CoreClient`.
4. Composition of the scheduler with the run: a firing until its text is in the history.
