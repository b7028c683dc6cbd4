------------------------------ MODULE Workspace ------------------------------
(***************************************************************************)
(* Who may touch the workspace of one session: the gates of app.ts, the    *)
(* routes that pass them (routes/sessions-files.ts, sessions-core.ts,      *)
(* sessions-run.ts), the start of AgentRunner.run(), the checkpoints of    *)
(* snapshots/git-shadow.ts and agent/background-tasks.ts.                  *)
(*                                                                         *)
(* A managed workspace is a mounted image.  Checkpoints, synchronisation   *)
(* and the deletion of the session take it away for a while, so they need  *)
(* it exclusively; everybody else holds a shared lease.  A run that makes  *)
(* its automatic checkpoint first starts with the exclusive lease and      *)
(* gives it back for a shared one.  Any other workspace has no leases: a   *)
(* lock for checkpoints and the mark of a restore protect it.              *)
(*                                                                         *)
(* A request that is refused at once changes nothing and is left out,      *)
(* unless it does change something.  A backend may fail at any time.       *)
(***************************************************************************)
EXTENDS Naturals, Sequences, FiniteSets, SequencesExt

CONSTANTS
    Requests,   \* bound: each is made once, and may be of any kind
    Nobody

ASSUME WorkspaceAssumption == IsFiniteSet(Requests) /\ Nobody \notin Requests

VARIABLES
    session,     \* whether it is managed, makes automatic checkpoints, is deleted
    gate,        \* managedWorkspaceUses, managedCheckpointingSessions, managedSyncingSessions
    marks,       \* restoringSessions, and `held` of session-lock.ts
    agent,       \* running, shells, workspaceWrites of AgentRunner
    request,     \* what each request is and how far it came
    task,        \* the background task of each run
    messages,    \* the history, by the requests that appended to it
    checkpoints, \* checkpoints.json, by the requests that made them
    \* What an observer sees:
    made,        \* the checkpoints reported as made
    removed,     \* ... as removed
    odd          \* two things happened that the gates do not prevent

vars == <<session, gate, marks, agent, request, task, messages, checkpoints, made, removed, odd>>

Runs == {"message", "retry", "queued"}
Rewrites == {"create", "restore", "remove"}
Kinds == Runs \cup Rewrites \cup {"sync", "file", "upload", "shell", "save", "delete"}
InRun == {"run", "prepared", "hooks", "capturing", "listed", "turns", "launching", "halting"}
Pcs == InRun \cup {"idle", "admit", "checkout", "leaving", "finding", "restoring", "truncating", "closing",
                   "listing", "striking", "syncing", "configuring", "using", "asking", "shell", "saving",
                   "deleting", "stopping", "tearing", "done"}
Leases == {"none", "shared", "checkpoint", "sync"}
Fresh == [kind |-> "none", pc |-> "idle", lease |-> "none", automatic |-> FALSE, count |-> 0,
          view |-> {}, target |-> Nobody]

WorkspaceTypeOK ==
    /\ session \in [managed : BOOLEAN, auto : BOOLEAN, deleted : BOOLEAN]
    /\ gate \in [uses : Nat, checkpointing : BOOLEAN, syncing : BOOLEAN]
    /\ marks \in [restoring : BOOLEAN, locked : BOOLEAN]
    /\ agent \in [running : Requests \cup {Nobody}, shell : BOOLEAN, saving : BOOLEAN]
    /\ request \in [Requests -> [kind : Kinds \cup {"none"}, pc : Pcs, lease : Leases,
                                 automatic : BOOLEAN, count : Nat, view : SUBSET Requests,
                                 target : Requests \cup {Nobody}]]
    /\ task \in [Requests -> {"none", "starting", "running", "stopping", "over"}]
    /\ messages \in Seq(Requests)
    /\ checkpoints \subseteq Requests /\ made \subseteq Requests /\ removed \subseteq Requests
    /\ odd \in [unmarked : BOOLEAN, overlapped : BOOLEAN]

Init ==
    /\ session \in [managed : BOOLEAN, auto : BOOLEAN, deleted : {FALSE}]
    /\ gate = [uses |-> 0, checkpointing |-> FALSE, syncing |-> FALSE]
    /\ marks = [restoring |-> FALSE, locked |-> FALSE]
    /\ agent = [running |-> Nobody, shell |-> FALSE, saving |-> FALSE]
    /\ request = [c \in Requests |-> Fresh]
    /\ task = [c \in Requests |-> "none"]
    /\ messages = <<>>
    /\ checkpoints = {} /\ made = {} /\ removed = {}
    /\ odd = [unmarked |-> FALSE, overlapped |-> FALSE]

(***************************************************************************)
(* The gates.                                                              *)
(***************************************************************************)

MayUse == ~gate.checkpointing /\ ~gate.syncing

\* Mutant of MayExclude: those who read are not asked.
MayExcludeReaders == MayUse
MayExclude == MayUse /\ gate.uses = 0

\* One lease is given back for another.
Relet(old, new) ==
    gate' = [uses |-> (gate.uses + (IF new = "shared" THEN 1 ELSE 0))
                        - (IF old = "shared" THEN 1 ELSE 0),
             checkpointing |-> (gate.checkpointing /\ old # "checkpoint") \/ new = "checkpoint",
             syncing |-> (gate.syncing /\ old # "sync") \/ new = "sync"]

\* Only a managed workspace has leases.
Leased(lease) == IF session.managed THEN lease ELSE "none"

\* acquireManagedWorkspaceRun()
RunLease(wantsCheckpoint) ==
    Leased(IF wantsCheckpoint /\ MayExclude THEN "checkpoint" ELSE "shared")

\* What a lease becomes when there is, or was, no more checkpoint to make.
Downgraded(lease) == IF lease = "checkpoint" THEN "shared" ELSE lease

At(c, pc) == request[c].pc = pc

Goes(c, pc, lease) ==
    /\ request' = [request EXCEPT ![c].pc = pc, ![c].lease = lease]
    /\ Relet(request[c].lease, lease)

Stays(c, pc) ==
    /\ request' = [request EXCEPT ![c].pc = pc]
    /\ UNCHANGED gate

Ends(c) == Goes(c, "done", "none")

\* sessions.get() has found the session: the first await of every route.
Arrives(c, kind, pc, lease) ==
    /\ At(c, "idle")
    /\ ~session.deleted
    /\ request' = [request EXCEPT ![c] = [Fresh EXCEPT !.kind = kind, !.pc = pc, !.lease = lease,
                                                       !.count = Len(messages)]]
    /\ Relet("none", lease)

\* hasRunningForSession()
TaskRuns == \E c \in Requests : task[c] \in {"starting", "running"}

(***************************************************************************)
(* Runs.                                                                   *)
(***************************************************************************)

MessageArrives(c) ==
    /\ MayUse
    /\ ~agent.shell
    /\ agent.running = Nobody
    /\ Arrives(c, "message", "admit", RunLease(session.auto /\ ~TaskRuns))
    /\ UNCHANGED <<session, marks, agent, task, messages, checkpoints, made, removed, odd>>

\* Another version of an earlier message.
RetryArrives(c) ==
    /\ MayUse
    /\ ~agent.shell
    /\ agent.running = Nobody
    /\ Arrives(c, "retry", "checkout", RunLease(session.auto /\ ~TaskRuns))
    /\ UNCHANGED <<session, marks, agent, task, messages, checkpoints, made, removed, odd>>

\* The guards of run().
MayRun == agent.running = Nobody /\ ~agent.shell /\ ~agent.saving

RunStarts(c) ==
    /\ MayRun
    /\ agent' = [agent EXCEPT !.running = c]
    /\ UNCHANGED <<session, marks, task, messages, checkpoints, made, removed, odd>>

\* Mutant of MessageAdmitted: a restore is not asked about after the awaits.
MessageAdmittedUnasked(c) ==
    /\ At(c, "admit")
    /\ RunStarts(c)
    /\ Stays(c, "run")

\* The budget and the attachments have been awaited.
MessageAdmitted(c) ==
    /\ At(c, "admit")
    /\ ~marks.restoring
    /\ RunStarts(c)
    /\ Stays(c, "run")

RetryAdmitted(c) ==
    /\ At(c, "checkout")
    /\ RunStarts(c)
    /\ Stays(c, "run")

\* No budget, a restore, or run() throws.
TurnedAway(c) ==
    /\ request[c].pc \in {"admit", "checkout"}
    /\ Ends(c)
    /\ UNCHANGED <<session, marks, agent, task, messages, checkpoints, made, removed, odd>>

\* startFollowUp(): a follow-up, a goal continuation or the prompt of a timer.
QueuedRunStarts(c) ==
    /\ Arrives(c, "queued", "run", "none")
    /\ RunStarts(c)

\* The session is loaded, and it is decided whether there is a checkpoint.
RunPrepares(c) ==
    LET automatic == session.auto /\ ~TaskRuns /\ request[c].lease # "shared"
        lease == IF automatic THEN request[c].lease ELSE Downgraded(request[c].lease)
    IN  /\ At(c, "run")
        /\ ~session.deleted
        /\ request' = [request EXCEPT ![c].pc = "prepared", ![c].automatic = automatic,
                                      ![c].lease = lease, ![c].count = Len(messages)]
        /\ Relet(request[c].lease, lease)
        /\ UNCHANGED <<session, marks, agent, task, messages, checkpoints, made, removed, odd>>

RunAppends(c) ==
    /\ At(c, "prepared")
    /\ ~session.deleted
    /\ messages' = Append(messages, c)
    /\ Stays(c, "hooks")
    /\ UNCHANGED <<session, marks, agent, task, checkpoints, made, removed, odd>>

RunConfigured(c) ==
    /\ At(c, "hooks")
    /\ Stays(c, IF request[c].automatic THEN "capturing" ELSE "turns")
    /\ UNCHANGED <<session, marks, agent, task, messages, checkpoints, made, removed, odd>>

\* It has ended, or failed where it may.
RunStops(c) ==
    /\ request[c].pc \in {"run", "prepared", "hooks", "turns"}
    /\ agent' = [agent EXCEPT !.running = Nobody]
    /\ Stays(c, "leaving")
    /\ UNCHANGED <<session, marks, task, messages, checkpoints, made, removed, odd>>

\* finishRun() was awaited, and the route gives the lease back.
RunLeaves(c) ==
    /\ At(c, "leaving")
    /\ Ends(c)
    /\ UNCHANGED <<session, marks, agent, task, messages, checkpoints, made, removed, odd>>

(***************************************************************************)
(* Background tasks of a run: each has an executor process of its own.     *)
(***************************************************************************)

TaskLaunched(c) ==
    /\ At(c, "turns")
    /\ ~session.managed /\ ~session.deleted
    /\ task[c] = "none"
    /\ task' = [task EXCEPT ![c] = "starting"]
    /\ Stays(c, "launching")
    /\ UNCHANGED <<session, marks, agent, messages, checkpoints, made, removed, odd>>

\* start() has come to its end; it failed if it was stopped meanwhile.
TaskUp(c) ==
    /\ At(c, "launching")
    /\ \E result \in IF task[c] = "starting" THEN {"running", "over"} ELSE {"over"} :
         task' = [task EXCEPT ![c] = result]
    /\ Stays(c, "turns")
    /\ UNCHANGED <<session, marks, agent, messages, checkpoints, made, removed, odd>>

TaskEnds(c) ==
    /\ task[c] = "running"
    /\ task' = [task EXCEPT ![c] = "over"]
    /\ UNCHANGED <<session, gate, marks, agent, request, messages, checkpoints, made, removed, odd>>

\* task_stop, by this run or a later one.
TaskStopped(c, x) ==
    /\ At(c, "turns")
    /\ task[x] = "running"
    /\ task' = [task EXCEPT ![x] = "stopping"]
    /\ request' = [request EXCEPT ![c].pc = "halting", ![c].target = x]
    /\ UNCHANGED <<session, gate, marks, agent, messages, checkpoints, made, removed, odd>>

TaskGone(c) ==
    /\ At(c, "halting")
    /\ task[request[c].target] = "over"
    /\ Stays(c, "turns")
    /\ UNCHANGED <<session, marks, agent, task, messages, checkpoints, made, removed, odd>>

\* The process has gone.
TaskDies(x) ==
    /\ task[x] = "stopping"
    /\ ~At(x, "launching")
    /\ task' = [task EXCEPT ![x] = "over"]
    /\ UNCHANGED <<session, gate, marks, agent, request, messages, checkpoints, made, removed, odd>>

(***************************************************************************)
(* Checkpoints.                                                            *)
(***************************************************************************)

\* The guards of the three routes.
Quiet == agent.running = Nobody /\ ~gate.syncing /\ ~agent.shell /\ ~TaskRuns

\* Mutant of CheckpointFree: only a managed workspace is protected.
CheckpointFreeManaged == session.managed => MayExclude /\ ~marks.locked

\* acquireCheckpointExclusive() succeeds.
CheckpointFree == (session.managed => MayExclude) /\ ~marks.locked

CreateArrives(c) ==
    /\ Quiet /\ CheckpointFree
    /\ Arrives(c, "create", "capturing", Leased("checkpoint"))
    /\ marks' = [marks EXCEPT !.locked = TRUE]
    /\ UNCHANGED <<session, agent, task, messages, checkpoints, made, removed, odd>>

\* Two that rewrite checkpoints.json at a time, one of them a run.
NoticeOverlap(c) ==
    odd' = [odd EXCEPT !.overlapped = @ \/ \E d \in Requests \ {c} :
                /\ request[d].pc \in {"listed", "striking"}
                /\ {request[c].kind, request[d].kind} \cap Runs # {}]

\* GitShadowSnapshots.create(): the commit is made, the list is read ...
Captured(c) ==
    /\ At(c, "capturing")
    /\ request' = [request EXCEPT ![c].pc = "listed", ![c].view = checkpoints]
    /\ NoticeOverlap(c)
    /\ UNCHANGED <<session, gate, marks, agent, task, messages, checkpoints, made, removed>>

\* ... and after it the run goes on with a shared lease, the route is over.
AfterCreate(c) ==
    IF request[c].kind = "create"
    THEN Ends(c) /\ marks' = [marks EXCEPT !.locked = FALSE]
    ELSE Goes(c, "turns", Downgraded(request[c].lease)) /\ UNCHANGED marks

\* ... and written, with the new one.
Created(c) ==
    /\ At(c, "listed")
    /\ checkpoints' = request[c].view \cup {c}
    /\ made' = made \cup {c}
    /\ AfterCreate(c)
    /\ UNCHANGED <<session, agent, task, messages, removed, odd>>

CreateFails(c) ==
    /\ request[c].pc \in {"capturing", "listed"}
    /\ AfterCreate(c)
    /\ UNCHANGED <<session, agent, task, messages, checkpoints, made, removed, odd>>

RestoreArrives(c) ==
    /\ Quiet /\ CheckpointFree
    /\ Arrives(c, "restore", "finding", Leased("checkpoint"))
    /\ marks' = [restoring |-> TRUE, locked |-> TRUE]
    /\ UNCHANGED <<session, agent, task, messages, checkpoints, made, removed, odd>>

\* The mark is set before the locks are asked for, and taken back when they are
\* not to be had, though it may be another restore's.
RestoreRefused(c) ==
    /\ Quiet /\ ~CheckpointFree
    /\ Arrives(c, "restore", "done", "none")
    /\ marks' = [marks EXCEPT !.restoring = FALSE]
    /\ odd' = [odd EXCEPT !.unmarked = @ \/ marks.restoring]
    /\ UNCHANGED <<session, agent, task, messages, checkpoints, made, removed>>

RestoreFinds(c) ==
    /\ At(c, "finding")
    /\ \E x \in checkpoints :
         request' = [request EXCEPT ![c].pc = "restoring", ![c].target = x]
    /\ UNCHANGED <<session, gate, marks, agent, task, messages, checkpoints, made, removed, odd>>

\* The files are those of the checkpoint; the messages follow, unless only the
\* files were asked for.
FilesRestored(c) ==
    /\ At(c, "restoring")
    /\ \E next \in {"truncating", "closing"} : Stays(c, next)
    /\ UNCHANGED <<session, marks, agent, task, messages, checkpoints, made, removed, odd>>

MessagesRestored(c) ==
    /\ At(c, "truncating")
    /\ ~session.deleted
    /\ messages' = SubSeq(messages, 1, Min({request[request[c].target].count, Len(messages)}))
    /\ Stays(c, "closing")
    /\ UNCHANGED <<session, marks, agent, task, checkpoints, made, removed, odd>>

\* At the end of it, or where it fails.
RestoreEnds(c) ==
    /\ request[c].pc \in {"finding", "restoring", "truncating", "closing"}
    /\ marks' = [restoring |-> FALSE, locked |-> FALSE]
    /\ Ends(c)
    /\ UNCHANGED <<session, agent, task, messages, checkpoints, made, removed, odd>>

RemoveArrives(c) ==
    /\ Quiet /\ CheckpointFree
    /\ Arrives(c, "remove", "listing", Leased("checkpoint"))
    /\ marks' = [marks EXCEPT !.locked = TRUE]
    /\ UNCHANGED <<session, agent, task, messages, checkpoints, made, removed, odd>>

RemoveLists(c) ==
    /\ At(c, "listing")
    /\ \E x \in checkpoints :
         request' = [request EXCEPT ![c].pc = "striking", ![c].target = x, ![c].view = checkpoints]
    /\ NoticeOverlap(c)
    /\ UNCHANGED <<session, gate, marks, agent, task, messages, checkpoints, made, removed>>

RemoveEnds(c) ==
    /\ request[c].pc \in {"listing", "striking"}
    /\ marks' = [marks EXCEPT !.locked = FALSE]
    /\ Ends(c)
    /\ \/ /\ At(c, "striking")
          /\ checkpoints' = request[c].view \ {request[c].target}
          /\ removed' = removed \cup {request[c].target}
       \/ UNCHANGED <<checkpoints, removed>>
    /\ UNCHANGED <<session, agent, task, messages, made, odd>>

(***************************************************************************)
(* The others.                                                             *)
(***************************************************************************)

\* POST /workspace/sync writes the managed workspace back to its origin.
SyncArrives(c) ==
    /\ session.managed
    /\ Quiet /\ MayExclude
    /\ Arrives(c, "sync", "syncing", "sync")
    /\ UNCHANGED <<session, marks, agent, task, messages, checkpoints, made, removed, odd>>

\* A file is listed, read, searched for or compared.
FileArrives(c) ==
    /\ MayUse
    /\ Arrives(c, "file", "using", Leased("shared"))
    /\ UNCHANGED <<session, marks, agent, task, messages, checkpoints, made, removed, odd>>

UploadArrives(c) ==
    /\ agent.running = Nobody
    /\ MayUse
    /\ Arrives(c, "upload", "configuring", Leased("shared"))
    /\ UNCHANGED <<session, marks, agent, task, messages, checkpoints, made, removed, odd>>

\* "An agent may have started while configuration awaited its core RPC."
UploadConfigured(c) ==
    /\ At(c, "configuring")
    /\ IF agent.running = Nobody /\ MayUse THEN Stays(c, "using") ELSE Ends(c)
    /\ UNCHANGED <<session, marks, agent, task, messages, checkpoints, made, removed, odd>>

UseEnds(c) ==
    /\ request[c].pc \in {"using", "syncing"}
    /\ Ends(c)
    /\ UNCHANGED <<session, marks, agent, task, messages, checkpoints, made, removed, odd>>

\* `!cmd`
ShellArrives(c) ==
    /\ agent.running = Nobody /\ ~agent.shell
    /\ MayUse
    /\ agent' = [agent EXCEPT !.shell = TRUE]
    /\ Arrives(c, "shell", "asking", Leased("shared"))
    /\ UNCHANGED <<session, marks, task, messages, checkpoints, made, removed, odd>>

ShellAppends(c) ==
    /\ At(c, "asking")
    /\ ~session.deleted
    /\ messages' = Append(messages, c)
    /\ Stays(c, "shell")
    /\ UNCHANGED <<session, marks, agent, task, checkpoints, made, removed, odd>>

ShellEnds(c) ==
    /\ request[c].pc \in {"asking", "shell"}
    /\ agent' = [agent EXCEPT !.shell = FALSE]
    /\ Ends(c)
    /\ UNCHANGED <<session, marks, task, messages, checkpoints, made, removed, odd>>

\* The editor saves a file.
SaveArrives(c) ==
    /\ MayRun
    /\ MayUse
    /\ agent' = [agent EXCEPT !.saving = TRUE]
    /\ Arrives(c, "save", "saving", Leased("shared"))
    /\ UNCHANGED <<session, marks, task, messages, checkpoints, made, removed, odd>>

SaveEnds(c) ==
    /\ At(c, "saving")
    /\ agent' = [agent EXCEPT !.saving = FALSE]
    /\ Ends(c)
    /\ UNCHANGED <<session, marks, task, messages, checkpoints, made, removed, odd>>

\* The session is deleted: asked first, looked up then.
DeleteArrives(c) ==
    /\ agent.running = Nobody
    /\ MayUse
    /\ Arrives(c, "delete", "deleting", "none")
    /\ UNCHANGED <<session, marks, agent, task, messages, checkpoints, made, removed, odd>>

\* stopForSession()
DeleteStopsTasks(c) ==
    /\ At(c, "deleting")
    /\ ~session.deleted
    /\ session.managed => MayExclude
    /\ Goes(c, "stopping", Leased("checkpoint"))
    /\ task' = [x \in Requests |-> IF task[x] \in {"starting", "running"} THEN "stopping" ELSE task[x]]
    /\ UNCHANGED <<session, marks, agent, messages, checkpoints, made, removed, odd>>

DeleteTearsDown(c) ==
    /\ At(c, "stopping")
    /\ \A x \in Requests : task[x] # "stopping"
    /\ Stays(c, "tearing")
    /\ UNCHANGED <<session, marks, agent, task, messages, checkpoints, made, removed, odd>>

\* The session was not there, could not be had alone, or not be torn down.
DeleteFails(c) ==
    /\ request[c].pc \in {"deleting", "tearing"}
    /\ Ends(c)
    /\ UNCHANGED <<session, marks, agent, task, messages, checkpoints, made, removed, odd>>

Deleted(c) ==
    /\ At(c, "tearing")
    /\ session' = [session EXCEPT !.deleted = TRUE]
    /\ Ends(c)
    /\ UNCHANGED <<marks, agent, task, messages, checkpoints, made, removed, odd>>

Next == \E c \in Requests :
    \/ MessageArrives(c) \/ RetryArrives(c) \/ MessageAdmitted(c) \/ RetryAdmitted(c)
    \/ TurnedAway(c) \/ QueuedRunStarts(c)
    \/ RunPrepares(c) \/ RunAppends(c) \/ RunConfigured(c) \/ RunStops(c) \/ RunLeaves(c)
    \/ TaskLaunched(c) \/ TaskUp(c) \/ TaskEnds(c) \/ TaskGone(c) \/ TaskDies(c)
    \/ \E x \in Requests : TaskStopped(c, x)
    \/ CreateArrives(c) \/ Captured(c) \/ Created(c) \/ CreateFails(c)
    \/ RestoreArrives(c) \/ RestoreRefused(c) \/ RestoreFinds(c) \/ FilesRestored(c)
    \/ MessagesRestored(c) \/ RestoreEnds(c)
    \/ RemoveArrives(c) \/ RemoveLists(c) \/ RemoveEnds(c)
    \/ SyncArrives(c) \/ FileArrives(c) \/ UploadArrives(c) \/ UploadConfigured(c) \/ UseEnds(c)
    \/ ShellArrives(c) \/ ShellAppends(c) \/ ShellEnds(c) \/ SaveArrives(c) \/ SaveEnds(c)
    \/ DeleteArrives(c) \/ DeleteStopsTasks(c) \/ DeleteTearsDown(c) \/ DeleteFails(c) \/ Deleted(c)

Spec == Init /\ [][Next]_vars

(***************************************************************************)
(* Properties.                                                             *)
(***************************************************************************)

Holders(lease) == {c \in Requests : request[c].lease = lease}

\* The managed workspace is being taken away, replaced or written back.
Switching(c) == session.managed /\ request[c].pc \in {"capturing", "restoring", "syncing", "tearing"}
Inside(c) == request[c].pc \in InRun \cup {"using", "asking", "shell", "saving"}

\* The leases that are counted are those that are held, on every path of every
\* route; and nobody works in a managed workspace while it is taken away, unless
\* one of the two is a run no route has started, which has no lease.
LeasesExclude ==
    /\ WorkspaceTypeOK
    /\ gate.uses = Cardinality(Holders("shared"))
    /\ gate.checkpointing <=> Holders("checkpoint") # {}
    /\ gate.syncing <=> Holders("sync") # {}
    /\ \A c, d \in Requests : c # d /\ Switching(c) /\ (Inside(d) \/ Switching(d)) =>
          "queued" \in {request[c].kind, request[d].kind}

\* checkpoints.json has what was reported as made, and nothing that was reported
\* as removed, whatever overlaps, unless the automatic checkpoint of a run
\* overlapped with another rewrite.
CheckpointsKept ==
    \/ odd.overlapped
    \/ /\ made \ removed \subseteq checkpoints
       /\ checkpoints \cap removed = {}

Restoring(c) ==
    request[c].kind = "restore" /\ request[c].pc \in {"finding", "restoring", "truncating", "closing"}

RunOf(c) == request[c].kind = "message" /\ request[c].pc \in InRun

\* No message is accepted into a restore: while files and history are put back,
\* no message runs and no task of one is alive, and what a message run
\* has appended is not cut off; unless the mark of the restore was taken back.  The
\* deletion of the session may still be stopping a task.
RestoreIsAlone ==
    \/ odd.unmarked
    \/ /\ \A c, d \in Requests : Restoring(c) =>
             /\ ~RunOf(d)
             /\ request[d].kind = "message" =>
                   task[d] \in {"none", "over"} \/ \E x \in Requests : At(x, "stopping")
       /\ \A c \in Requests :
             RunOf(c) /\ ~(request[c].pc \in {"run", "prepared"}) => c \in ToSet(messages)

\* What the comments say: a restore keeps every run out (sessions-files.ts 207: "the
\* mark is held throughout the restore").  (Does not hold: a second request to restore that
\* is refused takes the mark back; retries and queued prompts do not ask for it.)
RestoreExcludesRuns ==
    \A c, d \in Requests : Restoring(c) => ~(request[d].kind \in Runs /\ request[d].pc \in InRun)

\* What session-lock.ts says: the operations that rewrite the checkpoints of a session
\* are serialised, so that no entry is lost.  (Does not hold: the automatic checkpoint
\* of a run does not take the lock.)
CheckpointsSerialized ==
    \A c, d \in Requests : c # d =>
        ~(request[c].pc \in {"listed", "striking"} /\ request[d].pc \in {"listed", "striking"})

\* What app.ts says of the leases: an image is never dismounted under a request.  (Does
\* not hold: a queued run has no lease and makes its automatic checkpoint all the same.)
NeverDismounted ==
    \A c, d \in Requests : c # d /\ Switching(c) => ~(Inside(d) /\ request[d].kind # "queued")
=============================================================================
