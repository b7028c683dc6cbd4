-------------------------- MODULE Workspace_proofs --------------------------
(***************************************************************************)
(* The gates of a session's workspace, proved for any number of requests of *)
(* any kinds.                                                              *)
(*                                                                         *)
(* Each of the three properties has an inductive invariant of its own, which *)
(* rests on those before it:                                               *)
(* LeaseInv    the leases: how many are held, that a lease of one kind     *)
(*             leaves no room for another's, and which lease goes with how *)
(*             far a request came (LeaseFits);                             *)
(* OrderInv    who runs and who holds the lock of the checkpoints;         *)
(* ListInv     checkpoints.json and what those who rewrite it have read;   *)
(* TaskInv     who stops the background tasks that are being stopped;      *)
(* AloneInv    no message run and no task of one beside a restore.         *)
(* TLC has checked them on the instance of MCWorkspace; the steps of Next are *)
(* taken in four groups (RunStep, TaskStep, CheckpointStep, OtherStep).    *)
(***************************************************************************)
EXTENDS Workspace, FiniteSetTheorems, SequenceTheorems, TLAPS

\* What a request can be.
Record == [kind : Kinds \cup {"none"}, pc : Pcs, lease : Leases, automatic : BOOLEAN,
           count : Nat, view : SUBSET Requests, target : Requests \cup {Nobody}]

\* The lease is an exclusive one.
Taken(lease) == lease \in {"checkpoint", "sync"}

\* The gate counts the leases, and who holds an exclusive one holds the only one.
GateInv ==
    /\ gate.uses = Cardinality(Holders("shared"))
    /\ gate.checkpointing <=> Holders("checkpoint") # {}
    /\ gate.syncing <=> Holders("sync") # {}
    /\ \A c, d \in Requests : c # d /\ Taken(request[c].lease) => request[d].lease = "none"

\* Which lease goes with how far the request came: a queued run has none, and nothing has
\* one where the workspace is not managed.
LeaseFits(r) ==
    /\ ~session.managed \/ r.kind = "queued" => r.lease = "none"
    /\ r.kind = "queued" => r.pc \in InRun \cup {"leaving", "done"}
    /\ r.pc \in {"restoring", "truncating", "striking"} => r.target \in Requests
    /\ r.pc \in {"idle", "deleting", "done"} => r.lease = "none"
    /\ session.managed /\ r.kind # "queued" =>
        /\ r.pc \in {"admit", "checkout", "run", "leaving"} => r.lease \in {"shared", "checkpoint"}
        /\ r.pc \in {"prepared", "hooks"} =>
              r.lease = IF r.automatic THEN "checkpoint" ELSE "shared"
        /\ r.pc \in {"turns", "launching", "halting", "configuring", "using", "asking", "shell",
                     "saving"} => r.lease = "shared"
        /\ r.pc \in {"capturing", "listed", "finding", "restoring", "truncating", "closing",
                     "listing", "striking", "stopping", "tearing"} => r.lease = "checkpoint"
        /\ r.pc = "syncing" => r.lease = "sync"

\* The invariant of the leases.
LeaseInv ==
    /\ WorkspaceTypeOK
    /\ GateInv
    /\ \A c \in Requests : LeaseFits(request[c])

\* Which requests come where.
KindFits(r) ==
    /\ r.pc = "idle" => r.kind = "none"
    /\ r.pc \in {"capturing", "listed"} => r.kind \in Runs \cup {"create"}
    /\ r.pc \in {"admit", "checkout"} \cup (InRun \ {"capturing", "listed"}) => r.kind \in Runs
    /\ r.pc = "checkout" => r.kind = "retry"
    /\ r.pc \in {"finding", "restoring", "truncating", "closing"} => r.kind = "restore"
    /\ r.pc \in {"listing", "striking"} => r.kind = "remove"

\* The request is the run of AgentRunner.
RunsNow(c) == request[c].kind \in Runs /\ request[c].pc \in InRun

\* The request holds the lock of the checkpoints; a run never does.
Locks(c) ==
    /\ request[c].kind \in Rewrites
    /\ request[c].pc \in {"capturing", "listed", "finding", "restoring", "truncating", "closing",
                          "listing", "striking"}

\* The request has read checkpoints.json to write it.
Rewriting(c) == request[c].pc \in {"listed", "striking"}

\* One request runs at most; one holds the lock.
OrderInv ==
    /\ \A c \in Requests : KindFits(request[c])
    /\ \A c \in Requests : RunsNow(c) <=> agent.running = c
    /\ \A c \in Requests : Locks(c) => marks.locked
    /\ \A c, d \in Requests : Locks(c) /\ Locks(d) => c = d

\* A request that has made no checkpoint yet.
Before == {"idle", "admit", "checkout", "run", "prepared", "hooks", "capturing", "listed"}

\* The list has only what was made; who rewrites it has read what was made; unless a run
\* overlapped, one request rewrites it, has read what it is now, and nothing is missing.
ListInv ==
    /\ checkpoints \subseteq made /\ removed \subseteq made
    /\ \A c \in Requests : request[c].pc \in Before => c \notin made
    /\ \A c \in Requests : Rewriting(c) => request[c].view \subseteq made
    /\ \A c \in Requests : request[c].pc = "striking" => request[c].target \in request[c].view
    /\ \/ odd.overlapped
       \/ /\ made \ removed \subseteq checkpoints
          /\ checkpoints \cap removed = {}
          /\ \A c \in Requests : Rewriting(c) => request[c].view = checkpoints
          /\ \A c, d \in Requests : Rewriting(c) /\ Rewriting(d) => c = d

\* A task that is being stopped has a run or a deletion that waits for it, and is of a run.
TaskInv ==
    \A x \in Requests :
        /\ task[x] = "stopping" => \/ \E c \in Requests : At(c, "halting") /\ request[c].target = x
                                   \/ \E c \in Requests : At(c, "stopping")
        /\ task[x] # "none" => request[x].kind \in Runs

\* The mark of a restore is set, and no message runs, nor a task of one.
Apart(c) ==
    /\ marks.restoring
    /\ \A d \in Requests : request[d].kind = "message" =>
          /\ request[d].pc \notin InRun
          /\ \/ task[d] \in {"none", "over"}
             \/ task[d] = "stopping" /\ \E x \in Requests : At(x, "stopping")

\* The history has what the request appended.
Wrote(c) == \E i \in DOMAIN messages : messages[i] = c

\* A message run that has appended its message.
Writing(c) == RunOf(c) /\ request[c].pc \notin {"run", "prepared"}

\* The invariant of a restore, and what it must not cut off.
AloneInv ==
    \/ odd.unmarked
    \/ /\ \A c \in Requests : Restoring(c) => Apart(c)
       /\ \A c \in Requests : Writing(c) => Wrote(c)

\* The request becomes r, the others stay.
Becomes(c, r) ==
    /\ request' \in [Requests -> Record]
    /\ request'[c] = r
    /\ \A d \in Requests : d # c => request'[d] = request[d]

\* The types of the requests.
LEMMA RecordIs ==
  ASSUME WorkspaceTypeOK, NEW c \in Requests
  PROVE  request[c] \in Record /\ request \in [Requests -> Record]
  BY DEF WorkspaceTypeOK, Record

\* Leases can be counted.
LEMMA HoldersAreFinite ==
  ASSUME NEW lease
  PROVE  IsFiniteSet(Holders(lease)) /\ Cardinality(Holders(lease)) \in Nat
  <1>1. Holders(lease) \subseteq Requests
    BY DEF Holders
  <1> QED
    BY <1>1, WorkspaceAssumption, FS_Subset, FS_CardinalityType

\* The gate still counts right when a request that changes its lease was allowed to.
LEMMA LeaseChanges ==
  ASSUME WorkspaceTypeOK, GateInv, NEW c \in Requests, NEW r \in Record, Becomes(c, r),
         Relet(request[c].lease, r.lease),
         r.lease = "shared" => request[c].lease \in {"shared", "checkpoint"} \/ MayUse,
         r.lease \in {"checkpoint", "sync"} => request[c].lease = r.lease
                                               \/ (request[c].lease = "none" /\ MayExclude)
  PROVE  GateInv' /\ gate' \in [uses : Nat, checkpointing : BOOLEAN, syncing : BOOLEAN]
  <1> DEFINE old == request[c].lease
  <1>1. /\ old \in Leases /\ r.lease \in Leases
        /\ gate \in [uses : Nat, checkpointing : BOOLEAN, syncing : BOOLEAN]
    BY RecordIs DEF Record, WorkspaceTypeOK
  <1>2. \A l \in Leases : \A d \in Requests :
          d \in Holders(l)' <=> IF d = c THEN l = r.lease ELSE d \in Holders(l)
    BY DEF Holders, Becomes
  <1>3. \A l \in Leases : c \in Holders(l) <=> old = l
    BY DEF Holders
  <1>4. \A l \in Leases : Holders(l) \subseteq Requests /\ Holders(l)' \subseteq Requests
    BY DEF Holders
  <1>5. /\ old = r.lease => Holders("shared")' = Holders("shared")
        /\ old # "shared" /\ r.lease # "shared" => Holders("shared")' = Holders("shared")
        /\ old = "shared" /\ r.lease # "shared" => Holders("shared")' = Holders("shared") \ {c}
        /\ old # "shared" /\ r.lease = "shared" => Holders("shared")' = Holders("shared") \cup {c}
    BY <1>2, <1>3, <1>4 DEF Leases
  <1>6. gate'.uses = Cardinality(Holders("shared"))' /\ gate'.uses \in Nat
    <2>1. gate'.uses = (gate.uses + (IF r.lease = "shared" THEN 1 ELSE 0))
                        - (IF old = "shared" THEN 1 ELSE 0)
      BY DEF Relet
    <2>2. gate.uses = Cardinality(Holders("shared")) /\ gate.uses \in Nat
      BY <1>1 DEF GateInv
    <2>3. CASE Holders("shared")' = Holders("shared") /\ (old = "shared" <=> r.lease = "shared")
      BY <2>1, <2>2, <2>3
    <2>4. CASE old = "shared" /\ r.lease # "shared"
      <3>1. Cardinality(Holders("shared") \ {c}) = Cardinality(Holders("shared")) - 1
            /\ IsFiniteSet(Holders("shared") \ {c})
        BY <1>3, <2>4, HoldersAreFinite, FS_RemoveElement DEF Leases
      <3>2. Cardinality(Holders("shared") \ {c}) \in Nat
        BY <3>1, FS_CardinalityType
      <3> QED
        <4>1. gate'.uses = gate.uses - 1
          BY <2>1, <2>2, <2>4
        <4>2. Cardinality(Holders("shared"))' = gate.uses - 1
          BY <1>5, <2>2, <2>4, <3>1
        <4> QED
          BY <2>2, <3>1, <3>2, <4>1, <4>2
    <2>5. CASE old # "shared" /\ r.lease = "shared"
      <3>1. Cardinality(Holders("shared") \cup {c}) = Cardinality(Holders("shared")) + 1
        BY <1>3, <2>5, HoldersAreFinite, FS_AddElement DEF Leases
      <3> QED
        <4>1. gate'.uses = gate.uses + 1
          BY <2>1, <2>2, <2>5
        <4>2. Cardinality(Holders("shared"))' = gate.uses + 1
          BY <1>5, <2>2, <2>5, <3>1
        <4> QED
          BY <2>2, <4>1, <4>2
    <2> QED
      BY <1>5, <2>3, <2>4, <2>5
  <1>7. /\ gate'.checkpointing <=>
             (gate.checkpointing /\ old # "checkpoint") \/ r.lease = "checkpoint"
        /\ gate'.syncing <=> (gate.syncing /\ old # "sync") \/ r.lease = "sync"
        /\ gate' \in [uses : {gate'.uses}, checkpointing : BOOLEAN, syncing : BOOLEAN]
    BY <1>1 DEF Relet
  <1>8. \A d, e \in Requests : d # e /\ Taken(request[d].lease) => request[e].lease = "none"
    BY DEF GateInv
  <1>9. MayExclude => \A d \in Requests : request[d].lease = "none"
    <2> SUFFICES ASSUME MayExclude PROVE \A d \in Requests : request[d].lease = "none"
      OBVIOUS
    <2>1. Holders("shared") = {}
      BY HoldersAreFinite, FS_EmptySet DEF GateInv, MayExclude
    <2>2. Holders("checkpoint") = {} /\ Holders("sync") = {}
      BY DEF GateInv, MayExclude, MayUse
    <2> QED
      BY <2>1, <2>2, RecordIs DEF Holders, Record, Leases
  <1>10. MayUse => \A d \in Requests : ~Taken(request[d].lease)
    BY DEF GateInv, MayUse, Holders, Taken
  <1>11. \A d, e \in Requests : d # e /\ Taken(request'[d].lease) => request'[e].lease = "none"
    BY <1>1, <1>8, <1>9, <1>10 DEF Becomes, Taken, Leases
  <1>12. gate'.checkpointing <=> Holders("checkpoint")' # {}
    <2>1. gate.checkpointing <=> \E d \in Requests : request[d].lease = "checkpoint"
      BY DEF GateInv, Holders
    <2>2. gate'.checkpointing <=> \E d \in Requests : request'[d].lease = "checkpoint"
      BY <1>1, <1>7, <1>8, <2>1 DEF Becomes, Taken, Leases
    <2> QED
      BY <2>2 DEF Holders
  <1>13. gate'.syncing <=> Holders("sync")' # {}
    <2>1. gate.syncing <=> \E d \in Requests : request[d].lease = "sync"
      BY DEF GateInv, Holders
    <2>2. gate'.syncing <=> \E d \in Requests : request'[d].lease = "sync"
      BY <1>1, <1>7, <1>8, <2>1 DEF Becomes, Taken, Leases
    <2> QED
      BY <2>2 DEF Holders
  <1> QED
    BY <1>6, <1>7, <1>11, <1>12, <1>13 DEF GateInv

\* Goes() as a new record.
LEMMA GoesIs ==
  ASSUME WorkspaceTypeOK, NEW c \in Requests, NEW pc \in Pcs, NEW lease \in Leases,
         Goes(c, pc, lease)
  PROVE  /\ Becomes(c, [request[c] EXCEPT !.pc = pc, !.lease = lease])
         /\ [request[c] EXCEPT !.pc = pc, !.lease = lease] \in Record
         /\ Relet(request[c].lease, lease)
  <1> DEFINE r == [request[c] EXCEPT !.pc = pc, !.lease = lease]
  <1>1. request[c] \in Record /\ request \in [Requests -> Record]
    BY RecordIs
  <1>2. r \in Record
    BY <1>1 DEF Record
  <1>3. request' = [request EXCEPT ![c] = r]
    BY <1>1 DEF Goes, Record
  <1> HIDE DEF r
  <1>4. Becomes(c, r)
    BY <1>1, <1>2, <1>3 DEF Becomes
  <1> QED
    BY <1>2, <1>4 DEF Goes, r

\* Stays() as a new record.
LEMMA StaysIs ==
  ASSUME WorkspaceTypeOK, NEW c \in Requests, NEW pc \in Pcs, Stays(c, pc)
  PROVE  /\ Becomes(c, [request[c] EXCEPT !.pc = pc])
         /\ [request[c] EXCEPT !.pc = pc] \in Record
  <1> DEFINE r == [request[c] EXCEPT !.pc = pc]
  <1>1. request[c] \in Record /\ request \in [Requests -> Record]
    BY RecordIs
  <1>2. r \in Record
    BY <1>1 DEF Record
  <1>3. request' = [request EXCEPT ![c] = r]
    BY <1>1 DEF Stays, Record
  <1> HIDE DEF r
  <1>4. Becomes(c, r)
    BY <1>1, <1>2, <1>3 DEF Becomes
  <1> QED
    BY <1>2, <1>4 DEF r

\* Arrives() as a new record.
LEMMA ArrivesIs ==
  ASSUME WorkspaceTypeOK, NEW c \in Requests, NEW kind \in Kinds, NEW pc \in Pcs,
         NEW lease \in Leases, Arrives(c, kind, pc, lease)
  PROVE  /\ Becomes(c, [Fresh EXCEPT !.kind = kind, !.pc = pc, !.lease = lease,
                                     !.count = Len(messages)])
         /\ [Fresh EXCEPT !.kind = kind, !.pc = pc, !.lease = lease,
                          !.count = Len(messages)] \in Record
  <1>1. Len(messages) \in Nat
    BY LenProperties DEF WorkspaceTypeOK
  <1> QED
    BY <1>1 DEF Arrives, Becomes, WorkspaceTypeOK, Record, Fresh

\* The invariant of the leases is kept by a request that becomes r, when r fits.
LEMMA LeaseMoves ==
  ASSUME LeaseInv, NEW c \in Requests, NEW r \in Record, Becomes(c, r), LeaseFits(r),
         session'.managed = session.managed,
         \/ Relet(request[c].lease, r.lease)
         \/ UNCHANGED gate /\ r.lease = request[c].lease,
         r.lease = "shared" => request[c].lease \in {"shared", "checkpoint"} \/ MayUse,
         r.lease \in {"checkpoint", "sync"} => request[c].lease = r.lease
                                               \/ (request[c].lease = "none" /\ MayExclude)
  PROVE  /\ GateInv' /\ gate' \in [uses : Nat, checkpointing : BOOLEAN, syncing : BOOLEAN]
         /\ request' \in [Requests -> Record]
         /\ \A d \in Requests : LeaseFits(request[d])'
  <1>1. \A d \in Requests : LeaseFits(request[d])'
    BY DEF LeaseInv, LeaseFits, Becomes
  <1>2. CASE UNCHANGED gate /\ r.lease = request[c].lease
    <2>1. \A d \in Requests : request'[d].lease = request[d].lease
      BY <1>2 DEF Becomes
    <2>2. \A l \in Leases : Holders(l)' = Holders(l)
      BY <2>1 DEF Holders
    <2>3. GateInv'
      BY <1>2, <2>1, <2>2 DEF LeaseInv, GateInv, Leases
    <2> QED
      BY <1>1, <1>2, <2>3 DEF LeaseInv, WorkspaceTypeOK, Becomes
  <1>3. CASE Relet(request[c].lease, r.lease)
    BY <1>1, <1>3, LeaseChanges DEF LeaseInv, Becomes
  <1> QED
    BY <1>2, <1>3

\* ... by one that keeps its lease.
LEMMA StaysFits ==
  ASSUME LeaseInv, NEW c \in Requests, NEW pc \in Pcs, Stays(c, pc),
         session'.managed = session.managed, LeaseFits([request[c] EXCEPT !.pc = pc])
  PROVE  /\ GateInv' /\ gate' \in [uses : Nat, checkpointing : BOOLEAN, syncing : BOOLEAN]
         /\ request' \in [Requests -> Record]
         /\ \A d \in Requests : LeaseFits(request[d])'
  <1> DEFINE r == [request[c] EXCEPT !.pc = pc]
  <1>1. r \in Record /\ Becomes(c, r) /\ UNCHANGED gate
    BY StaysIs DEF Stays, LeaseInv
  <1>2. r.lease = request[c].lease /\ r.lease \in Leases
    BY RecordIs DEF LeaseInv, Record
  <1>3. LeaseFits(r)
    OBVIOUS
  <1> HIDE DEF r
  <1>4. /\ r.lease = "shared" => request[c].lease \in {"shared", "checkpoint"} \/ MayUse
        /\ r.lease \in {"checkpoint", "sync"} => request[c].lease = r.lease
    BY <1>2
  <1>5. UNCHANGED gate /\ r.lease = request[c].lease
    BY <1>1, <1>2
  <1> QED
    BY <1>1, <1>3, <1>4, <1>5, LeaseMoves

\* ... by one that changes it.
LEMMA GoesFits ==
  ASSUME LeaseInv, NEW c \in Requests, NEW pc \in Pcs, NEW lease \in Leases, Goes(c, pc, lease),
         session'.managed = session.managed,
         LeaseFits([request[c] EXCEPT !.pc = pc, !.lease = lease]),
         \/ lease = "none"
         \/ lease = "shared" /\ request[c].lease \in {"shared", "checkpoint"}
         \/ lease \in {"checkpoint", "sync"} /\ request[c].lease = "none" /\ MayExclude
  PROVE  /\ GateInv' /\ gate' \in [uses : Nat, checkpointing : BOOLEAN, syncing : BOOLEAN]
         /\ request' \in [Requests -> Record]
         /\ \A d \in Requests : LeaseFits(request[d])'
  <1> DEFINE r == [request[c] EXCEPT !.pc = pc, !.lease = lease]
  <1>1. r \in Record /\ Becomes(c, r) /\ Relet(request[c].lease, lease)
    BY GoesIs DEF LeaseInv
  <1>2. r.lease = lease
    BY RecordIs DEF LeaseInv, Record
  <1> HIDE DEF r
  <1> QED
    BY <1>1, <1>2, LeaseMoves DEF r

\* ... by one that arrives.
LEMMA ArrivesFits ==
  ASSUME LeaseInv, NEW c \in Requests, NEW kind \in Kinds, NEW pc \in Pcs, NEW lease \in Leases,
         Arrives(c, kind, pc, lease), session'.managed = session.managed,
         LeaseFits([Fresh EXCEPT !.kind = kind, !.pc = pc, !.lease = lease,
                                 !.count = Len(messages)]),
         \/ lease = "none"
         \/ lease = "shared" /\ MayUse
         \/ lease \in {"checkpoint", "sync"} /\ MayExclude
  PROVE  /\ GateInv' /\ gate' \in [uses : Nat, checkpointing : BOOLEAN, syncing : BOOLEAN]
         /\ request' \in [Requests -> Record]
         /\ \A d \in Requests : LeaseFits(request[d])'
  <1> DEFINE r == [Fresh EXCEPT !.kind = kind, !.pc = pc, !.lease = lease,
                                !.count = Len(messages)]
  <1>1. r \in Record /\ Becomes(c, r) /\ Relet("none", lease)
    BY ArrivesIs DEF LeaseInv, Arrives
  <1>2. r.lease = lease
    BY DEF Fresh
  <1>3. request[c].lease = "none"
    BY DEF LeaseInv, LeaseFits, Arrives, At
  <1>4. LeaseFits(r)
    OBVIOUS
  <1> HIDE DEF r
  <1>5. Relet(request[c].lease, r.lease)
    BY <1>1, <1>2, <1>3
  <1>6. /\ r.lease = "shared" => MayUse
        /\ r.lease \in {"checkpoint", "sync"} => request[c].lease = "none" /\ MayExclude
    BY <1>2, <1>3
  <1> QED
    BY <1>1, <1>4, <1>5, <1>6, LeaseMoves

\* The steps of runs.
RunStep(c) ==
    \/ MessageArrives(c) \/ RetryArrives(c) \/ MessageAdmitted(c) \/ RetryAdmitted(c)
    \/ TurnedAway(c) \/ QueuedRunStarts(c)
    \/ RunPrepares(c) \/ RunAppends(c) \/ RunConfigured(c) \/ RunStops(c) \/ RunLeaves(c)

\* The steps of background tasks.
TaskStep(c) ==
    \/ TaskLaunched(c) \/ TaskUp(c) \/ TaskEnds(c) \/ TaskGone(c) \/ TaskDies(c)
    \/ \E x \in Requests : TaskStopped(c, x)

\* The steps of the checkpoint routes, and of the automatic checkpoint.
CheckpointStep(c) ==
    \/ CreateArrives(c) \/ Captured(c) \/ Created(c) \/ CreateFails(c)
    \/ RestoreArrives(c) \/ RestoreRefused(c) \/ RestoreFinds(c) \/ FilesRestored(c)
    \/ MessagesRestored(c) \/ RestoreEnds(c)
    \/ RemoveArrives(c) \/ RemoveLists(c) \/ RemoveEnds(c)

\* The steps of the other routes.
OtherStep(c) ==
    \/ SyncArrives(c) \/ FileArrives(c) \/ UploadArrives(c) \/ UploadConfigured(c) \/ UseEnds(c)
    \/ ShellArrives(c) \/ ShellAppends(c) \/ ShellEnds(c) \/ SaveArrives(c) \/ SaveEnds(c)
    \/ DeleteArrives(c) \/ DeleteStopsTasks(c) \/ DeleteTearsDown(c) \/ DeleteFails(c) \/ Deleted(c)

\* LeaseInv without the types of the other variables.
Leasing ==
    /\ GateInv
    /\ gate \in [uses : Nat, checkpointing : BOOLEAN, syncing : BOOLEAN]
    /\ request \in [Requests -> Record]
    /\ \A d \in Requests : LeaseFits(request[d])

\* Runs keep the leases.
LEMMA RunLeases == ASSUME LeaseInv, NEW c \in Requests, RunStep(c) PROVE Leasing'
  <1> USE DEF Leasing
  <1>1. request[c] \in Record /\ LeaseFits(request[c])
    BY RecordIs DEF LeaseInv
  <1>2. \A want \in BOOLEAN : /\ RunLease(want) \in {"none", "shared", "checkpoint"}
                              /\ RunLease(want) = "none" <=> ~session.managed
                              /\ RunLease(want) = "checkpoint" => MayExclude
    BY DEF RunLease, Leased
  <1>3. CASE MessageArrives(c) \/ RetryArrives(c)
    <2> DEFINE want == session.auto /\ ~TaskRuns
    <2>1. want \in BOOLEAN
      BY DEF LeaseInv, WorkspaceTypeOK
    <2>2. PICK lease \in {"none", "shared", "checkpoint"} :
             lease = RunLease(want) /\ (lease = "none" <=> ~session.managed)
             /\ (lease = "checkpoint" => MayExclude)
      BY <1>2, <2>1
    <2>3. CASE MessageArrives(c)
      <3>1. LeaseFits([Fresh EXCEPT !.kind = "message", !.pc = "admit", !.lease = lease,
                                    !.count = Len(messages)])
        BY <2>2 DEF LeaseFits, InRun, Fresh
      <3>2. MayUse /\ Arrives(c, "message", "admit", lease) /\ session' = session
        BY <2>2, <2>3 DEF MessageArrives
      <3> QED
        BY <2>2, <3>1, <3>2, ArrivesFits DEF Kinds, Runs, Pcs, Leases
    <2>4. CASE RetryArrives(c)
      <3>1. LeaseFits([Fresh EXCEPT !.kind = "retry", !.pc = "checkout", !.lease = lease,
                                    !.count = Len(messages)])
        BY <2>2 DEF LeaseFits, InRun, Fresh
      <3>2. MayUse /\ Arrives(c, "retry", "checkout", lease) /\ session' = session
        BY <2>2, <2>4 DEF RetryArrives
      <3> QED
        BY <2>2, <3>1, <3>2, ArrivesFits DEF Kinds, Runs, Pcs, Leases
    <2> QED
      BY <1>3, <2>3, <2>4
  <1>4. CASE MessageAdmitted(c) \/ RetryAdmitted(c)
    <2>1. LeaseFits([request[c] EXCEPT !.pc = "run"]) /\ Stays(c, "run") /\ session' = session
      BY <1>1, <1>4 DEF MessageAdmitted, RetryAdmitted, At, LeaseFits, InRun, Record, RunStarts
    <2> QED
      BY <2>1, StaysFits DEF Pcs, InRun
  <1>5. CASE TurnedAway(c) \/ RunLeaves(c)
    <2>1. Goes(c, "done", "none") /\ session' = session
      BY <1>5 DEF TurnedAway, RunLeaves, Ends
    <2>2. LeaseFits([request[c] EXCEPT !.pc = "done", !.lease = "none"])
      BY <1>1, <1>5 DEF TurnedAway, RunLeaves, At, LeaseFits, InRun, Record
    <2> QED
      BY <2>1, <2>2, GoesFits DEF Pcs, Leases
  <1>6. CASE QueuedRunStarts(c)
    <2>1. LeaseFits([Fresh EXCEPT !.kind = "queued", !.pc = "run", !.lease = "none",
                                  !.count = Len(messages)])
      BY DEF LeaseFits, InRun, Fresh
    <2>2. Arrives(c, "queued", "run", "none") /\ session' = session
      BY <1>6 DEF QueuedRunStarts, RunStarts
    <2> QED
      BY <2>1, <2>2, ArrivesFits DEF Kinds, Runs, Pcs, Leases, InRun
  <1>7. CASE RunPrepares(c)
    <2> DEFINE automatic == session.auto /\ ~TaskRuns /\ request[c].lease # "shared"
               lease == IF automatic THEN request[c].lease ELSE Downgraded(request[c].lease)
               r == [request[c] EXCEPT !.pc = "prepared", !.automatic = automatic,
                                       !.lease = lease, !.count = Len(messages)]
    <2>1. automatic \in BOOLEAN /\ Len(messages) \in Nat
      BY LenProperties DEF LeaseInv, WorkspaceTypeOK
    <2>2. lease \in Leases /\ request[c].lease \in Leases
      BY <1>1 DEF Record, Downgraded, Leases
    <2>3. \/ lease = request[c].lease
          \/ lease = "shared" /\ request[c].lease = "checkpoint"
      BY DEF Downgraded
    <2>4. automatic => lease # "shared"
      OBVIOUS
    <2>5. ~automatic => lease # "checkpoint"
      BY DEF Downgraded
    <2>6. Relet(request[c].lease, lease) /\ session' = session
          /\ request' = [request EXCEPT ![c].pc = "prepared", ![c].automatic = automatic,
                                      ![c].lease = lease, ![c].count = Len(messages)]
          /\ request[c].pc = "run"
      BY <1>7 DEF RunPrepares, At
    <2> HIDE DEF automatic, lease
    <2>7. r \in Record /\ r.lease = lease /\ r.automatic = automatic /\ r.pc = "prepared"
          /\ r.kind = request[c].kind
      BY <1>1, <2>1, <2>2 DEF Record, Pcs, InRun
    <2>8. request' = [request EXCEPT ![c] = r]
      BY <1>1, <2>6 DEF Record
    <2>9. LeaseFits(r)
      BY <1>1, <2>1, <2>2, <2>3, <2>4, <2>5, <2>6, <2>7 DEF LeaseFits, InRun
    <2> HIDE DEF r
    <2>10. Becomes(c, r)
      BY <2>7, <2>8, RecordIs DEF Becomes, LeaseInv
    <2>11. /\ r.lease = "shared" => request[c].lease \in {"shared", "checkpoint"}
           /\ r.lease \in {"checkpoint", "sync"} => request[c].lease = r.lease
      BY <2>3, <2>7
    <2>12. Relet(request[c].lease, r.lease) /\ session'.managed = session.managed
      BY <2>6, <2>7
    <2> QED
      BY <2>7, <2>9, <2>10, <2>11, <2>12, LeaseMoves
  <1>8. CASE RunAppends(c)
    <2>1. LeaseFits([request[c] EXCEPT !.pc = "hooks"]) /\ Stays(c, "hooks") /\ session' = session
      BY <1>1, <1>8 DEF RunAppends, At, LeaseFits, InRun, Record
    <2> QED
      BY <2>1, StaysFits DEF Pcs, InRun
  <1>9. CASE RunConfigured(c)
    <2>1. PICK pc \in {"capturing", "turns"} :
            Stays(c, pc) /\ pc = IF request[c].automatic THEN "capturing" ELSE "turns"
      BY <1>9 DEF RunConfigured
    <2>2. LeaseFits([request[c] EXCEPT !.pc = pc]) /\ session' = session
      BY <1>1, <1>9, <2>1 DEF RunConfigured, At, LeaseFits, InRun, Record
    <2> QED
      BY <2>1, <2>2, StaysFits DEF Pcs, InRun
  <1>10. CASE RunStops(c)
    <2>1. LeaseFits([request[c] EXCEPT !.pc = "leaving"]) /\ Stays(c, "leaving")
          /\ session' = session
      BY <1>1, <1>10 DEF RunStops, At, LeaseFits, InRun, Record
    <2> QED
      BY <2>1, StaysFits DEF Pcs, InRun
  <1> QED
    BY <1>3, <1>4, <1>5, <1>6, <1>7, <1>8, <1>9, <1>10 DEF RunStep

\* Leased() is a lease, and none where nothing is managed.
LEMMA LeasedIs ==
  ASSUME NEW lease \in Leases
  PROVE  Leased(lease) \in Leases /\ (session.managed => Leased(lease) = lease)
         /\ (~session.managed => Leased(lease) = "none")
  BY DEF Leased, Leases

\* A step without requests keeps the leases.
LEMMA SameLeases ==
  ASSUME LeaseInv, UNCHANGED <<gate, request>>, session'.managed = session.managed
  PROVE  Leasing'
  <1>1. \A l \in Leases : Holders(l)' = Holders(l)
    BY DEF Holders
  <1> QED
    BY <1>1, RecordIs DEF LeaseInv, Leasing, GateInv, LeaseFits, InRun, Leases, WorkspaceTypeOK,
       Record

\* So does a step of a request that keeps its lease.
LEMMA SameLease ==
  ASSUME LeaseInv, NEW c \in Requests, NEW r \in Record, Becomes(c, r), LeaseFits(r),
         UNCHANGED <<gate, session>>, r.lease = request[c].lease
  PROVE  Leasing'
  BY LeaseMoves, RecordIs DEF LeaseInv, Leasing, Leases, Record

\* Tasks keep the leases.
LEMMA TaskLeases == ASSUME LeaseInv, NEW c \in Requests, TaskStep(c) PROVE Leasing'
  <1>1. request[c] \in Record /\ LeaseFits(request[c])
    BY RecordIs DEF LeaseInv
  <1>2. CASE TaskEnds(c) \/ TaskDies(c)
    BY <1>2, SameLeases DEF TaskEnds, TaskDies
  <1>3. CASE TaskLaunched(c)
    <2>1. LeaseFits([request[c] EXCEPT !.pc = "launching"]) /\ Stays(c, "launching")
          /\ session' = session
      BY <1>1, <1>3 DEF TaskLaunched, At, LeaseFits, InRun, Record
    <2> QED
      BY <2>1, StaysFits DEF Pcs, InRun, Leasing
  <1>4. CASE TaskUp(c) \/ TaskGone(c)
    <2>1. LeaseFits([request[c] EXCEPT !.pc = "turns"]) /\ Stays(c, "turns") /\ session' = session
      BY <1>1, <1>4 DEF TaskUp, TaskGone, At, LeaseFits, InRun, Record
    <2> QED
      BY <2>1, StaysFits DEF Pcs, InRun, Leasing
  <1>5. ASSUME NEW x \in Requests, TaskStopped(c, x) PROVE Leasing'
    <2> DEFINE r == [request[c] EXCEPT !.pc = "halting", !.target = x]
    <2>1. r \in Record /\ r.lease = request[c].lease
      BY <1>1 DEF Record, Pcs, InRun
    <2>2. LeaseFits(r)
      BY <1>1, <1>5 DEF TaskStopped, At, LeaseFits, InRun, Record
    <2>3. request' = [request EXCEPT ![c] = r]
      BY <1>1, <1>5 DEF TaskStopped, Record
    <2> HIDE DEF r
    <2>4. Becomes(c, r)
      BY <2>1, <2>3, RecordIs DEF Becomes, LeaseInv
    <2> QED
      BY <1>5, <2>1, <2>2, <2>4, SameLease DEF TaskStopped
  <1> QED
    BY <1>2, <1>3, <1>4, <1>5 DEF TaskStep

\* The checkpoint routes keep the leases.
LEMMA CheckpointLeases == ASSUME LeaseInv, NEW c \in Requests, CheckpointStep(c) PROVE Leasing'
  <1>1. request[c] \in Record /\ LeaseFits(request[c])
    BY RecordIs DEF LeaseInv
  <1>2. /\ Leased("checkpoint") \in {"none", "checkpoint"}
        /\ Leased("checkpoint") = "checkpoint" <=> session.managed
    BY DEF Leased
  <1>3. CASE CreateArrives(c) \/ RestoreArrives(c) \/ RemoveArrives(c)
    <2>1. PICK kind \in Rewrites, pc \in {"capturing", "finding", "listing"} :
            Arrives(c, kind, pc, Leased("checkpoint"))
      BY <1>3 DEF CreateArrives, RestoreArrives, RemoveArrives, Rewrites
    <2>2. session' = session /\ (Leased("checkpoint") = "checkpoint" => MayExclude)
      BY <1>2, <1>3 DEF CreateArrives, RestoreArrives, RemoveArrives, CheckpointFree
    <2>3. PICK lease \in {"none", "checkpoint"} : lease = Leased("checkpoint")
      BY <1>2
    <2>4. LeaseFits([Fresh EXCEPT !.kind = kind, !.pc = pc, !.lease = lease,
                                  !.count = Len(messages)])
      BY <1>2, <2>3 DEF LeaseFits, InRun, Fresh, Rewrites
    <2> QED
      BY <2>1, <2>2, <2>3, <2>4, ArrivesFits DEF Kinds, Pcs, InRun, Leases, Leasing
  <1>4. CASE RestoreRefused(c)
    <2>1. LeaseFits([Fresh EXCEPT !.kind = "restore", !.pc = "done", !.lease = "none",
                                  !.count = Len(messages)])
      BY DEF LeaseFits, InRun, Fresh
    <2> QED
      BY <1>4, <2>1, ArrivesFits DEF RestoreRefused, Kinds, Rewrites, Pcs, Leases, Leasing
  <1>5. CASE Captured(c)
    <2> DEFINE r == [request[c] EXCEPT !.pc = "listed", !.view = checkpoints]
    <2>1. r \in Record /\ r.lease = request[c].lease
      BY <1>1 DEF Record, Pcs, InRun, LeaseInv, WorkspaceTypeOK
    <2>2. LeaseFits(r)
      BY <1>1, <1>5 DEF Captured, At, LeaseFits, InRun, Record
    <2>3. request' = [request EXCEPT ![c] = r]
      BY <1>1, <1>5 DEF Captured, Record
    <2> HIDE DEF r
    <2>4. Becomes(c, r)
      BY <2>1, <2>3, RecordIs DEF Becomes, LeaseInv
    <2> QED
      BY <1>5, <2>1, <2>2, <2>4, SameLease DEF Captured
  <1>6. CASE Created(c) \/ CreateFails(c)
    <2>1. request[c].pc \in {"capturing", "listed"} /\ session' = session
          /\ (Goes(c, "done", "none") \/ Goes(c, "turns", Downgraded(request[c].lease)))
      BY <1>6 DEF Created, CreateFails, AfterCreate, At, Ends
    <2>2. CASE Goes(c, "done", "none")
      <3>1. LeaseFits([request[c] EXCEPT !.pc = "done", !.lease = "none"])
        BY <1>1, <2>1 DEF LeaseFits, InRun, Record
      <3> QED
        BY <2>1, <2>2, <3>1, GoesFits DEF Pcs, Leases, Leasing
    <2>3. CASE Goes(c, "turns", Downgraded(request[c].lease))
      <3>1. PICK lease \in {"none", "shared"} :
              /\ lease = Downgraded(request[c].lease)
              /\ lease = "shared" => request[c].lease = "checkpoint"
        BY <1>1, <2>1 DEF Downgraded, LeaseFits, InRun
      <3>2. LeaseFits([request[c] EXCEPT !.pc = "turns", !.lease = lease])
        BY <1>1, <2>1, <3>1 DEF LeaseFits, InRun, Record, Downgraded
      <3> QED
        BY <2>1, <2>3, <3>1, <3>2, GoesFits DEF Pcs, InRun, Leases, Leasing
    <2> QED
      BY <2>1, <2>2, <2>3
  <1>7. CASE RestoreFinds(c)
    <2>1. PICK x \in checkpoints :
            request' = [request EXCEPT ![c].pc = "restoring", ![c].target = x]
      BY <1>7 DEF RestoreFinds
    <2> DEFINE r == [request[c] EXCEPT !.pc = "restoring", !.target = x]
    <2>2. r \in Record /\ r.lease = request[c].lease
      BY <1>1 DEF Record, Pcs, LeaseInv, WorkspaceTypeOK
    <2>3. LeaseFits(r)
      BY <1>1, <1>7, <2>2 DEF RestoreFinds, At, LeaseFits, InRun, Record, LeaseInv, WorkspaceTypeOK
    <2>4. request' = [request EXCEPT ![c] = r]
      BY <1>1, <2>1 DEF Record
    <2> HIDE DEF r
    <2>5. Becomes(c, r)
      BY <2>2, <2>4, RecordIs DEF Becomes, LeaseInv
    <2> QED
      BY <1>7, <2>2, <2>3, <2>5, SameLease DEF RestoreFinds
  <1>8. CASE FilesRestored(c) \/ MessagesRestored(c)
    <2>1. PICK pc \in {"truncating", "closing"} : Stays(c, pc)
      BY <1>8 DEF FilesRestored, MessagesRestored
    <2>2. LeaseFits([request[c] EXCEPT !.pc = pc]) /\ session' = session
      BY <1>1, <1>8 DEF FilesRestored, MessagesRestored, At, LeaseFits, InRun, Record
    <2> QED
      BY <2>1, <2>2, StaysFits DEF Pcs, Leasing
  <1>9. CASE RestoreEnds(c) \/ RemoveEnds(c)
    <2>1. Goes(c, "done", "none") /\ session' = session
      BY <1>9 DEF RestoreEnds, RemoveEnds, Ends
    <2>2. LeaseFits([request[c] EXCEPT !.pc = "done", !.lease = "none"])
      BY <1>1 DEF LeaseFits, InRun, Record
    <2> QED
      BY <2>1, <2>2, GoesFits DEF Pcs, Leases, Leasing
  <1>10. CASE RemoveLists(c)
    <2>1. PICK x \in checkpoints :
            request' = [request EXCEPT ![c].pc = "striking", ![c].target = x,
                                       ![c].view = checkpoints]
      BY <1>10 DEF RemoveLists
    <2> DEFINE r == [request[c] EXCEPT !.pc = "striking", !.target = x, !.view = checkpoints]
    <2>2. r \in Record /\ r.lease = request[c].lease
      BY <1>1 DEF Record, Pcs, LeaseInv, WorkspaceTypeOK
    <2>3. LeaseFits(r)
      BY <1>1, <1>10, <2>2 DEF RemoveLists, At, LeaseFits, InRun, Record, LeaseInv, WorkspaceTypeOK
    <2>4. request' = [request EXCEPT ![c] = r]
      BY <1>1, <2>1 DEF Record
    <2> HIDE DEF r
    <2>5. Becomes(c, r)
      BY <2>2, <2>4, RecordIs DEF Becomes, LeaseInv
    <2> QED
      BY <1>10, <2>2, <2>3, <2>5, SameLease DEF RemoveLists
  <1> QED
    BY <1>3, <1>4, <1>5, <1>6, <1>7, <1>8, <1>9, <1>10 DEF CheckpointStep

\* The other routes keep the leases.
LEMMA OtherLeases == ASSUME LeaseInv, NEW c \in Requests, OtherStep(c) PROVE Leasing'
  <1>1. request[c] \in Record /\ LeaseFits(request[c])
    BY RecordIs DEF LeaseInv
  <1>2. CASE SyncArrives(c)
    <2>1. LeaseFits([Fresh EXCEPT !.kind = "sync", !.pc = "syncing", !.lease = "sync",
                                  !.count = Len(messages)])
      BY <1>2 DEF SyncArrives, LeaseFits, InRun, Fresh
    <2> QED
      BY <1>2, <2>1, ArrivesFits DEF SyncArrives, Kinds, Pcs, Leases, Leasing
  <1>3. CASE FileArrives(c) \/ UploadArrives(c) \/ ShellArrives(c) \/ SaveArrives(c)
    <2>1. PICK kind \in {"file", "upload", "shell", "save"},
               pc \in {"using", "configuring", "asking", "saving"} :
            Arrives(c, kind, pc, Leased("shared"))
      BY <1>3 DEF FileArrives, UploadArrives, ShellArrives, SaveArrives
    <2>2. session' = session /\ MayUse
      BY <1>3 DEF FileArrives, UploadArrives, ShellArrives, SaveArrives
    <2>3. PICK lease \in {"none", "shared"} :
            lease = Leased("shared") /\ (lease = "shared" <=> session.managed)
      BY DEF Leased
    <2>4. LeaseFits([Fresh EXCEPT !.kind = kind, !.pc = pc, !.lease = lease,
                                  !.count = Len(messages)])
      BY <2>3 DEF LeaseFits, InRun, Fresh
    <2> QED
      BY <2>1, <2>2, <2>3, <2>4, ArrivesFits DEF Kinds, Pcs, Leases, Leasing
  <1>4. CASE DeleteArrives(c)
    <2>1. LeaseFits([Fresh EXCEPT !.kind = "delete", !.pc = "deleting", !.lease = "none",
                                  !.count = Len(messages)])
      BY DEF LeaseFits, InRun, Fresh
    <2> QED
      BY <1>4, <2>1, ArrivesFits DEF DeleteArrives, Kinds, Pcs, Leases, Leasing
  <1>5. CASE (UploadConfigured(c) /\ Stays(c, "using")) \/ ShellAppends(c) \/ DeleteTearsDown(c)
    <2>1. PICK pc \in {"using", "shell", "tearing"} :
            Stays(c, pc) /\ LeaseFits([request[c] EXCEPT !.pc = pc])
      BY <1>1, <1>5 DEF UploadConfigured, ShellAppends, DeleteTearsDown, At, LeaseFits, InRun,
         Record
    <2>2. session' = session
      BY <1>5 DEF UploadConfigured, ShellAppends, DeleteTearsDown
    <2> QED
      BY <2>1, <2>2, StaysFits DEF Pcs, InRun, Leasing
  <1>6. CASE Ends(c) /\ session'.managed = session.managed
    <2>1. LeaseFits([request[c] EXCEPT !.pc = "done", !.lease = "none"])
      BY <1>1 DEF LeaseFits, InRun, Record
    <2> QED
      BY <1>6, <2>1, GoesFits DEF Ends, Pcs, Leases, Leasing
  <1>7. CASE UseEnds(c) \/ ShellEnds(c) \/ SaveEnds(c) \/ DeleteFails(c) \/ Deleted(c)
             \/ (UploadConfigured(c) /\ Ends(c))
    <2>1. session'.managed = session.managed
      BY <1>7 DEF UseEnds, ShellEnds, SaveEnds, DeleteFails, Deleted, UploadConfigured, LeaseInv,
                  WorkspaceTypeOK
    <2> QED
      BY <1>6, <1>7, <2>1 DEF UseEnds, ShellEnds, SaveEnds, DeleteFails, Deleted
  <1>8. CASE DeleteStopsTasks(c)
    <2>1. PICK lease \in {"none", "checkpoint"} :
            lease = Leased("checkpoint") /\ (lease = "checkpoint" <=> session.managed)
      BY DEF Leased
    <2>2. Goes(c, "stopping", lease) /\ session' = session /\ request[c].lease = "none"
          /\ (lease = "checkpoint" => MayExclude) /\ request[c].pc = "deleting"
      BY <1>1, <1>8, <2>1 DEF DeleteStopsTasks, At, LeaseFits, InRun
    <2>3. LeaseFits([request[c] EXCEPT !.pc = "stopping", !.lease = lease])
      BY <1>1, <2>1, <2>2 DEF LeaseFits, InRun, Record
    <2> QED
      BY <2>1, <2>2, <2>3, GoesFits DEF Pcs, Leases, Leasing
  <1> QED
    BY <1>2, <1>3, <1>4, <1>5, <1>7, <1>8 DEF OtherStep, UploadConfigured

\* The types of the other variables.
RestTyped ==
    /\ session \in [managed : BOOLEAN, auto : BOOLEAN, deleted : BOOLEAN]
    /\ marks \in [restoring : BOOLEAN, locked : BOOLEAN]
    /\ agent \in [running : Requests \cup {Nobody}, shell : BOOLEAN, saving : BOOLEAN]
    /\ task \in [Requests -> {"none", "starting", "running", "stopping", "over"}]
    /\ messages \in Seq(Requests)
    /\ checkpoints \subseteq Requests /\ made \subseteq Requests /\ removed \subseteq Requests
    /\ odd \in [unmarked : BOOLEAN, overlapped : BOOLEAN]

\* They are part of the types.
LEMMA RestIs == WorkspaceTypeOK => RestTyped
  BY DEF WorkspaceTypeOK, RestTyped

\* Runs keep the types.
LEMMA RunRest == ASSUME RestTyped, NEW c \in Requests, RunStep(c) PROVE RestTyped'
  <1> USE DEF RestTyped
  <1>1. CASE RunAppends(c)
    BY <1>1, AppendProperties DEF RunAppends
  <1>2. CASE MessageAdmitted(c) \/ RetryAdmitted(c) \/ QueuedRunStarts(c)
    BY <1>2 DEF MessageAdmitted, RetryAdmitted, QueuedRunStarts, RunStarts
  <1>3. CASE RunStops(c)
    BY <1>3 DEF RunStops
  <1>4. CASE MessageArrives(c) \/ RetryArrives(c) \/ TurnedAway(c) \/ RunPrepares(c)
             \/ RunConfigured(c) \/ RunLeaves(c)
    BY <1>4 DEF MessageArrives, RetryArrives, TurnedAway, RunPrepares, RunConfigured, RunLeaves
  <1> QED
    BY <1>1, <1>2, <1>3, <1>4 DEF RunStep

\* Tasks keep the types.
LEMMA TaskRest == ASSUME RestTyped, NEW c \in Requests, TaskStep(c) PROVE RestTyped'
  <1> USE DEF RestTyped
  <1>1. CASE TaskLaunched(c)
    BY <1>1 DEF TaskLaunched
  <1>2. CASE TaskUp(c)
    BY <1>2 DEF TaskUp
  <1>3. CASE TaskEnds(c) \/ TaskDies(c)
    BY <1>3 DEF TaskEnds, TaskDies
  <1>4. CASE TaskGone(c)
    BY <1>4 DEF TaskGone
  <1>5. ASSUME NEW x \in Requests, TaskStopped(c, x) PROVE RestTyped'
    BY <1>5 DEF TaskStopped
  <1> QED
    BY <1>1, <1>2, <1>3, <1>4, <1>5 DEF TaskStep

\* Min of two numbers.
LEMMA MinIs ==
  ASSUME NEW m \in Nat, NEW n \in Nat
  PROVE  Min({m, n}) \in Nat /\ Min({m, n}) <= n /\ Min({m, n}) <= m
  <1>1. \E x \in {m, n} : \A y \in {m, n} : x <= y
    OBVIOUS
  <1>2. Min({m, n}) \in {m, n} /\ \A y \in {m, n} : Min({m, n}) <= y
    BY <1>1 DEF Min
  <1> QED
    BY <1>2

\* A history that is cut is a history.
LEMMA Cuts ==
  ASSUME WorkspaceTypeOK, NEW c \in Requests, MessagesRestored(c), request[c].target \in Requests
  PROVE  messages' \in Seq(Requests)
  <1> DEFINE n == Min({request[request[c].target].count, Len(messages)})
  <1>1. messages \in Seq(Requests) /\ Len(messages) \in Nat
    BY LenProperties DEF WorkspaceTypeOK
  <1>2. request[request[c].target].count \in Nat
    BY RecordIs DEF Record
  <1>3. n \in Nat /\ n <= Len(messages)
    BY <1>1, <1>2, MinIs
  <1> HIDE DEF n
  <1>4. \A i \in 1..n : messages[i] \in Requests
    BY <1>1, <1>3, ElementOfSeq
  <1>5. SubSeq(messages, 1, n) \in Seq(Requests)
    BY <1>3, <1>4, SubSeqProperties
  <1> QED
    BY <1>5 DEF MessagesRestored, n

\* The checkpoint routes keep the types.
LEMMA CheckpointRest ==
  ASSUME LeaseInv, NEW c \in Requests, CheckpointStep(c)
  PROVE  RestTyped'
  <1>1. RestTyped /\ request[c] \in Record
    BY RestIs, RecordIs DEF LeaseInv
  <1> USE DEF RestTyped
  <1>2. CASE CreateArrives(c) \/ RestoreArrives(c) \/ RemoveArrives(c)
    <2>1. marks' \in [restoring : BOOLEAN, locked : BOOLEAN]
      <3>1. \/ marks' = [marks EXCEPT !.locked = TRUE]
            \/ marks' = [restoring |-> TRUE, locked |-> TRUE]
        BY <1>2 DEF CreateArrives, RestoreArrives, RemoveArrives
      <3>2. marks \in [restoring : BOOLEAN, locked : BOOLEAN]
        BY <1>1
      <3>3. CASE marks' = [marks EXCEPT !.locked = TRUE]
        BY <3>2, <3>3
      <3>4. CASE marks' = [restoring |-> TRUE, locked |-> TRUE]
        BY <3>4
      <3> QED
        BY <3>1, <3>3, <3>4
    <2>2. UNCHANGED <<session, agent, task, messages, checkpoints, made, removed, odd>>
      BY <1>2 DEF CreateArrives, RestoreArrives, RemoveArrives
    <2> QED
      BY <1>1, <2>1, <2>2
  <1>3. CASE RestoreRefused(c)
    BY <1>1, <1>3 DEF RestoreRefused
  <1>4. CASE Captured(c) \/ RemoveLists(c)
    <2>1. NoticeOverlap(c)
      BY <1>4 DEF Captured, RemoveLists
    <2>2. odd' \in [unmarked : BOOLEAN, overlapped : BOOLEAN]
      BY <1>1, <2>1 DEF NoticeOverlap
    <2> QED
      BY <1>1, <1>4, <2>2 DEF Captured, RemoveLists
  <1>5. CASE Created(c) \/ CreateFails(c)
    <2>1. marks' \in [restoring : BOOLEAN, locked : BOOLEAN]
      BY <1>1, <1>5 DEF Created, CreateFails, AfterCreate
    <2>2. CASE Created(c)
      <3>1. request[c].view \subseteq Requests /\ made \subseteq Requests
        BY <1>1 DEF Record
      <3>2. checkpoints' \subseteq Requests /\ made' \subseteq Requests
        BY <2>2, <3>1 DEF Created
      <3> QED
        BY <1>1, <2>1, <2>2, <3>2 DEF Created
    <2>3. CASE CreateFails(c)
      BY <1>1, <2>1, <2>3 DEF CreateFails
    <2> QED
      BY <1>5, <2>2, <2>3
  <1>6. CASE RestoreFinds(c) \/ FilesRestored(c)
    BY <1>1, <1>6 DEF RestoreFinds, FilesRestored
  <1>7. CASE MessagesRestored(c)
    <2>1. request[c].target \in Requests
      BY <1>7 DEF LeaseInv, LeaseFits, MessagesRestored, At
    <2>2. messages' \in Seq(Requests)
      BY <1>7, <2>1, Cuts DEF LeaseInv
    <2> QED
      BY <1>1, <1>7, <2>2 DEF MessagesRestored
  <1>8. CASE RestoreEnds(c)
    BY <1>1, <1>8 DEF RestoreEnds
  <1>9. CASE RemoveEnds(c)
    <2>1. request[c].view \subseteq Requests
      BY <1>1 DEF Record
    <2>2. request[c].pc = "striking" => request[c].target \in Requests
      BY DEF LeaseInv, LeaseFits
    <2> QED
      BY <1>1, <1>9, <2>1, <2>2 DEF RemoveEnds, At
  <1> QED
    BY <1>2, <1>3, <1>4, <1>5, <1>6, <1>7, <1>8, <1>9 DEF CheckpointStep

\* The other routes keep the types.
LEMMA OtherRest == ASSUME RestTyped, NEW c \in Requests, OtherStep(c) PROVE RestTyped'
  <1> USE DEF RestTyped
  <1>1. CASE ShellAppends(c)
    BY <1>1, AppendProperties DEF ShellAppends
  <1>2. CASE ShellArrives(c) \/ ShellEnds(c) \/ SaveArrives(c) \/ SaveEnds(c)
    BY <1>2 DEF ShellArrives, ShellEnds, SaveArrives, SaveEnds
  <1>3. CASE DeleteStopsTasks(c)
    BY <1>3 DEF DeleteStopsTasks
  <1>4. CASE Deleted(c)
    BY <1>4 DEF Deleted
  <1>5. CASE SyncArrives(c) \/ FileArrives(c) \/ UploadArrives(c) \/ UploadConfigured(c)
             \/ UseEnds(c) \/ DeleteArrives(c) \/ DeleteTearsDown(c) \/ DeleteFails(c)
    BY <1>5 DEF SyncArrives, FileArrives, UploadArrives, UploadConfigured, UseEnds, DeleteArrives,
                DeleteTearsDown, DeleteFails
  <1> QED
    BY <1>1, <1>2, <1>3, <1>4, <1>5 DEF OtherStep

\* LeaseInv holds at first.
LEMMA LeaseStarts == Init => LeaseInv
  <1> SUFFICES ASSUME Init PROVE LeaseInv
    OBVIOUS
  <1>1. WorkspaceTypeOK
    <2>1. Fresh \in Record
      BY DEF Fresh, Record, Pcs, Leases
    <2>2. request \in [Requests -> Record]
      BY <2>1 DEF Init
    <2>3. messages \in Seq(Requests)
      BY EmptySeq DEF Init
    <2>4. task \in [Requests -> {"none", "starting", "running", "stopping", "over"}]
      BY DEF Init
    <2> QED
      BY <2>2, <2>3, <2>4 DEF Init, WorkspaceTypeOK, Record
  <1>2. \A c \in Requests : request[c].lease = "none" /\ request[c].pc = "idle"
                            /\ request[c].kind = "none"
    BY DEF Init, Fresh
  <1>3. \A l \in {"shared", "checkpoint", "sync"} : Holders(l) = {}
    BY <1>2 DEF Holders
  <1>4. GateInv
    BY <1>2, <1>3, FS_EmptySet DEF Init, GateInv, Taken
  <1>5. \A c \in Requests : LeaseFits(request[c])
    BY <1>2 DEF LeaseFits, InRun
  <1> QED
    BY <1>1, <1>4, <1>5 DEF LeaseInv

\* Every step is in one of the groups.
LEMMA StepIs ==
  Next => \E c \in Requests : RunStep(c) \/ TaskStep(c) \/ CheckpointStep(c) \/ OtherStep(c)
  BY DEF Next, RunStep, TaskStep, CheckpointStep, OtherStep

\* LeaseInv is inductive.
LEMMA LeaseKeeps == LeaseInv /\ [Next]_vars => LeaseInv'
  <1> SUFFICES ASSUME LeaseInv, [Next]_vars PROVE LeaseInv'
    OBVIOUS
  <1>1. Leasing /\ RestTyped
    BY RestIs, RecordIs DEF LeaseInv, Leasing, WorkspaceTypeOK
  <1>2. Leasing' /\ RestTyped'
    <2>1. CASE UNCHANGED vars
      BY <1>1, <2>1, SameLeases DEF vars, RestTyped
    <2>2. ASSUME NEW c \in Requests,
                 RunStep(c) \/ TaskStep(c) \/ CheckpointStep(c) \/ OtherStep(c)
          PROVE  Leasing' /\ RestTyped'
      BY <1>1, <2>2, RunLeases, TaskLeases, CheckpointLeases, OtherLeases, RunRest, TaskRest,
         CheckpointRest, OtherRest
    <2> QED
      BY <2>1, <2>2, StepIs
  <1> QED
    BY <1>2 DEF Leasing, RestTyped, LeaseInv, WorkspaceTypeOK, Record

\* LeasesExclude (app.ts, the managed workspace gates): leases are counted exactly, and nobody
\* works in a managed workspace while it is taken away, except a queued run.
THEOREM LeasesAreExclusive == Spec => []LeasesExclude
  <1>1. LeaseInv => LeasesExclude
    <2> SUFFICES ASSUME LeaseInv PROVE LeasesExclude
      OBVIOUS
    <2>1. ASSUME NEW c \in Requests, NEW d \in Requests, c # d, Switching(c),
                 Inside(d) \/ Switching(d), "queued" \notin {request[c].kind, request[d].kind}
          PROVE  FALSE
      <3>1. session.managed /\ request[c].lease \in {"checkpoint", "sync"}
        BY <2>1 DEF Switching, LeaseInv, LeaseFits
      <3>2. request[d].lease # "none"
        BY <2>1, <3>1 DEF Switching, Inside, LeaseInv, LeaseFits, InRun
      <3> QED
        BY <2>1, <3>1, <3>2 DEF LeaseInv, GateInv, Taken
    <2> QED
      BY <2>1 DEF LeaseInv, GateInv, LeasesExclude
  <1> QED
    BY LeaseStarts, LeaseKeeps, <1>1, PTL DEF Spec

\* How far the request comes; the others stay.
Moves(c, kind, pc) ==
    /\ request'[c].kind = kind
    /\ request'[c].pc = pc
    /\ \A d \in Requests : d # c => request'[d] = request[d]

\* Stays() moves the request.
LEMMA StaysMoves ==
  ASSUME LeaseInv, NEW c \in Requests, NEW pc \in Pcs, Stays(c, pc)
  PROVE  /\ Moves(c, request[c].kind, pc)
         /\ request'[c].view = request[c].view /\ request'[c].target = request[c].target
  <1>1. request[c] \in Record
    BY RecordIs DEF LeaseInv
  <1>2. Becomes(c, [request[c] EXCEPT !.pc = pc])
    BY StaysIs DEF LeaseInv
  <1> QED
    BY <1>1, <1>2 DEF Becomes, Moves, Record

\* Goes() moves the request.
LEMMA GoesMoves ==
  ASSUME LeaseInv, NEW c \in Requests, NEW pc \in Pcs, NEW lease \in Leases, Goes(c, pc, lease)
  PROVE  Moves(c, request[c].kind, pc)
  <1>1. request[c] \in Record
    BY RecordIs DEF LeaseInv
  <1>2. Becomes(c, [request[c] EXCEPT !.pc = pc, !.lease = lease])
    BY GoesIs DEF LeaseInv
  <1> QED
    BY <1>1, <1>2 DEF Becomes, Moves, Record

\* Ends() moves the request.
LEMMA EndsMoves ==
  ASSUME LeaseInv, NEW c \in Requests, Ends(c)
  PROVE  Moves(c, request[c].kind, "done")
  BY GoesMoves DEF Ends, Pcs, Leases

\* Arrives() moves the request.
LEMMA ArrivesMoves ==
  ASSUME LeaseInv, NEW c \in Requests, NEW kind, NEW pc, NEW lease, Arrives(c, kind, pc, lease)
  PROVE  Moves(c, kind, pc) /\ request[c].pc = "idle"
  BY DEF LeaseInv, WorkspaceTypeOK, Arrives, At, Moves, Fresh

\* OrderInv is kept when the request runs as before and takes no lock.
LEMMA OrderKept ==
  ASSUME LeaseInv, OrderInv, NEW c \in Requests, NEW kind, NEW pc, Moves(c, kind, pc),
         KindFits(request'[c]),
         agent'.running = agent.running, marks'.locked = marks.locked,
         RunsNow(c)' <=> RunsNow(c), Locks(c)' => Locks(c)
  PROVE  OrderInv'
  <1>1. \A d \in Requests : KindFits(request[d])'
    BY DEF OrderInv, Moves, KindFits
  <1>2. \A d \in Requests : RunsNow(d)' <=> RunsNow(d)
    BY DEF Moves, RunsNow
  <1>3. \A d \in Requests : Locks(d)' => Locks(d)
    BY DEF Moves, Locks
  <1> QED
    BY <1>1, <1>2, <1>3 DEF OrderInv

\* ... when it takes the lock.
LEMMA OrderTaken ==
  ASSUME LeaseInv, OrderInv, NEW c \in Requests, NEW kind, NEW pc, Moves(c, kind, pc),
         KindFits(request'[c]),
         agent'.running = agent.running, ~marks.locked, marks'.locked, 
         ~RunsNow(c)', ~RunsNow(c)
  PROVE  OrderInv'
  <1>1. \A d \in Requests : KindFits(request[d])'
    BY DEF OrderInv, Moves, KindFits
  <1>2. \A d \in Requests : RunsNow(d)' <=> RunsNow(d)
    BY DEF Moves, RunsNow
  <1>3. \A d \in Requests : Locks(d)' => d = c
    BY DEF OrderInv, Moves, Locks
  <1> QED
    BY <1>1, <1>2, <1>3 DEF OrderInv

\* ... when it gives the lock back.
LEMMA OrderGiven ==
  ASSUME LeaseInv, OrderInv, NEW c \in Requests, NEW kind, Moves(c, kind, "done"),
         agent'.running = agent.running, Locks(c), ~RunsNow(c)
  PROVE  OrderInv'
  <1>1. \A d \in Requests : KindFits(request[d])'
    BY DEF OrderInv, Moves, KindFits, InRun
  <1>2. \A d \in Requests : RunsNow(d)' <=> RunsNow(d)
    BY DEF Moves, RunsNow, InRun
  <1>3. \A d \in Requests : ~Locks(d)'
    BY DEF OrderInv, Moves, Locks
  <1> QED
    BY <1>1, <1>2, <1>3 DEF OrderInv

\* ... when it starts to run.
LEMMA OrderStarts ==
  ASSUME LeaseInv, OrderInv, NEW c \in Requests, NEW kind, Moves(c, kind, "run"),
         kind \in Runs, MayRun, agent' = [agent EXCEPT !.running = c], UNCHANGED marks
  PROVE  OrderInv'
  <1>1. \A d \in Requests : KindFits(request[d])'
    BY DEF OrderInv, Moves, KindFits, InRun, Runs
  <1>2. \A d \in Requests : RunsNow(d)' <=> d = c
    BY WorkspaceAssumption DEF OrderInv, Moves, RunsNow, InRun, MayRun
  <1>3. \A d \in Requests : Locks(d)' => Locks(d)
    BY DEF Moves, Locks
  <1>4. agent'.running = c
    BY DEF LeaseInv, WorkspaceTypeOK
  <1> QED
    BY <1>1, <1>2, <1>3, <1>4 DEF OrderInv

\* Runs keep the order.
LEMMA RunOrder == ASSUME LeaseInv, OrderInv, NEW c \in Requests, RunStep(c) PROVE OrderInv'
  <1>1. KindFits(request[c])
    BY DEF OrderInv
  <1>2. CASE MessageArrives(c) \/ RetryArrives(c)
    <2>1. PICK kind \in {"message", "retry"}, pc \in {"admit", "checkout"} :
            /\ Moves(c, kind, pc) /\ request[c].pc = "idle"
            /\ pc = "checkout" => kind = "retry"
      BY <1>2, ArrivesMoves DEF MessageArrives, RetryArrives
    <2>2. UNCHANGED <<agent, marks>>
      BY <1>2 DEF MessageArrives, RetryArrives
    <2>3. KindFits(request'[c]) /\ ~RunsNow(c)' /\ ~RunsNow(c) /\ ~Locks(c)'
      BY <2>1 DEF Moves, KindFits, RunsNow, Locks, Runs, InRun, Rewrites
    <2> QED
      BY <2>1, <2>2, <2>3, OrderKept
  <1>3. CASE MessageAdmitted(c) \/ RetryAdmitted(c)
    <2>1. Moves(c, request[c].kind, "run") /\ request[c].pc \in {"admit", "checkout"}
      BY <1>3, StaysMoves DEF MessageAdmitted, RetryAdmitted, At, Pcs, InRun
    <2>2. MayRun /\ agent' = [agent EXCEPT !.running = c] /\ UNCHANGED marks
      BY <1>3 DEF MessageAdmitted, RetryAdmitted, RunStarts
    <2> QED
      BY <1>1, <2>1, <2>2, OrderStarts DEF KindFits
  <1>4. CASE QueuedRunStarts(c)
    <2>1. Moves(c, "queued", "run")
      BY <1>4, ArrivesMoves DEF QueuedRunStarts
    <2>2. MayRun /\ agent' = [agent EXCEPT !.running = c] /\ UNCHANGED marks
      BY <1>4 DEF QueuedRunStarts, RunStarts
    <2> QED
      BY <2>1, <2>2, OrderStarts DEF Runs
  <1>5. CASE TurnedAway(c) \/ RunLeaves(c)
    <2>1. Moves(c, request[c].kind, "done") /\ request[c].pc \in {"admit", "checkout", "leaving"}
      BY <1>5, EndsMoves DEF TurnedAway, RunLeaves, At
    <2>2. UNCHANGED <<agent, marks>>
      BY <1>5 DEF TurnedAway, RunLeaves
    <2>3. KindFits(request'[c]) /\ ~RunsNow(c)' /\ ~RunsNow(c) /\ ~Locks(c)'
      BY <2>1 DEF Moves, KindFits, RunsNow, Locks, InRun
    <2> QED
      BY <2>1, <2>2, <2>3, OrderKept
  <1>6. CASE RunPrepares(c) \/ RunAppends(c) \/ RunConfigured(c)
    <2>1. PICK pc \in {"prepared", "hooks", "capturing", "turns"} :
            Moves(c, request[c].kind, pc) /\ request[c].pc \in {"run", "prepared", "hooks"}
      <3>1. CASE RunPrepares(c)
        BY <3>1 DEF RunPrepares, Moves, At, LeaseInv, WorkspaceTypeOK
      <3>2. CASE RunAppends(c) \/ RunConfigured(c)
        BY <3>2, StaysMoves DEF RunAppends, RunConfigured, At, Pcs, InRun
      <3> QED
        BY <1>6, <3>1, <3>2
    <2>2. UNCHANGED <<agent, marks>>
      BY <1>6 DEF RunPrepares, RunAppends, RunConfigured
    <2>3. request[c].kind \in Runs
      BY <1>1, <2>1 DEF KindFits, InRun
    <2>4. KindFits(request'[c]) /\ RunsNow(c)' /\ RunsNow(c) /\ ~Locks(c)'
      BY <2>1, <2>3 DEF Moves, KindFits, RunsNow, Locks, InRun, Runs, Rewrites
    <2> QED
      BY <2>1, <2>2, <2>4, OrderKept
  <1>7. CASE RunStops(c)
    <2>1. /\ Moves(c, request[c].kind, "leaving")
          /\ request[c].pc \in {"run", "prepared", "hooks", "turns"}
      BY <1>7, StaysMoves DEF RunStops, Pcs
    <2>2. agent'.running = Nobody /\ UNCHANGED marks
      BY <1>7 DEF RunStops, LeaseInv, WorkspaceTypeOK
    <2>3. RunsNow(c)
      BY <1>1, <2>1 DEF KindFits, InRun, RunsNow
    <2>4. \A d \in Requests : KindFits(request[d])'
      BY <2>1 DEF OrderInv, Moves, KindFits, InRun
    <2>5. \A d \in Requests : ~RunsNow(d)'
      BY <2>1, <2>3 DEF OrderInv, Moves, RunsNow, InRun
    <2>6. \A d \in Requests : Locks(d)' => Locks(d)
      BY <2>1 DEF Moves, Locks
    <2> QED
      BY <2>2, <2>4, <2>5, <2>6, WorkspaceAssumption DEF OrderInv
  <1> QED
    BY <1>2, <1>3, <1>4, <1>5, <1>6, <1>7 DEF RunStep

\* What a step of a task moves.
LEMMA TaskMoves ==
  ASSUME LeaseInv, NEW c \in Requests, TaskStep(c)
  PROVE  /\ UNCHANGED <<agent, marks, session, messages, checkpoints, made, removed, odd>>
         /\ \/ UNCHANGED request
            \/ /\ request[c].pc \in {"turns", "launching", "halting"}
               /\ \E pc \in {"turns", "launching", "halting"} : Moves(c, request[c].kind, pc)
  <1>1. CASE TaskLaunched(c) \/ TaskUp(c) \/ TaskGone(c)
    BY <1>1, StaysMoves DEF TaskLaunched, TaskUp, TaskGone, At, Pcs, InRun
  <1>2. CASE TaskEnds(c) \/ TaskDies(c)
    BY <1>2 DEF TaskEnds, TaskDies
  <1>3. ASSUME NEW x \in Requests, TaskStopped(c, x)
        PROVE  /\ UNCHANGED <<agent, marks, session, messages, checkpoints, made, removed, odd>>
               /\ request[c].pc = "turns" /\ Moves(c, request[c].kind, "halting")
    BY <1>3 DEF TaskStopped, Moves, At, LeaseInv, WorkspaceTypeOK
  <1> QED
    BY <1>1, <1>2, <1>3 DEF TaskStep

\* Where the requests of the other routes come.
Plain == {"configuring", "using", "asking", "shell", "saving", "syncing", "deleting", "stopping",
          "tearing", "done"}

\* What a step of the other routes moves.
LEMMA OtherMoves ==
  ASSUME LeaseInv, NEW c \in Requests, OtherStep(c)
  PROVE  /\ UNCHANGED <<marks, checkpoints, made, removed, odd>>
         /\ agent'.running = agent.running
         /\ request[c].pc \in Plain \cup {"idle"}
         /\ \E kind \in {request[c].kind, "sync", "file", "upload", "shell", "save", "delete"},
               pc \in Plain :
               /\ Moves(c, kind, pc)
               /\ kind = request[c].kind \/ request[c].pc = "idle"
  <1>1. CASE SyncArrives(c) \/ FileArrives(c) \/ UploadArrives(c) \/ ShellArrives(c)
             \/ SaveArrives(c) \/ DeleteArrives(c)
    <2>1. /\ UNCHANGED <<marks, checkpoints, made, removed, odd>>
          /\ agent'.running = agent.running
      BY <1>1 DEF SyncArrives, FileArrives, UploadArrives, ShellArrives, SaveArrives, DeleteArrives,
                  LeaseInv, WorkspaceTypeOK
    <2>2. PICK kind \in {"sync", "file", "upload", "shell", "save", "delete"}, pc \in Plain :
            Moves(c, kind, pc) /\ request[c].pc = "idle"
      BY <1>1, ArrivesMoves DEF SyncArrives, FileArrives, UploadArrives, ShellArrives, SaveArrives,
                                DeleteArrives, Plain
    <2> QED
      BY <2>1, <2>2
  <1>2. CASE ShellAppends(c) \/ DeleteTearsDown(c)
    BY <1>2, StaysMoves DEF ShellAppends, DeleteTearsDown, At, Plain, Pcs
  <1>3. CASE UploadConfigured(c)
    BY <1>3, StaysMoves, EndsMoves DEF UploadConfigured, At, Plain, Pcs
  <1>4. CASE UseEnds(c) \/ DeleteFails(c) \/ Deleted(c)
    BY <1>4, EndsMoves DEF UseEnds, DeleteFails, Deleted, At, Plain
  <1>5. CASE ShellEnds(c) \/ SaveEnds(c)
    BY <1>5, EndsMoves DEF ShellEnds, SaveEnds, At, Plain, LeaseInv, WorkspaceTypeOK
  <1>6. CASE DeleteStopsTasks(c)
    <2>1. PICK lease \in Leases : Goes(c, "stopping", lease)
      BY <1>6, LeasedIs DEF DeleteStopsTasks, Leases
    <2>2. Moves(c, request[c].kind, "stopping")
      BY <2>1, GoesMoves DEF Pcs
    <2> QED
      BY <1>6, <2>2 DEF DeleteStopsTasks, At, Plain
  <1> QED
    BY <1>1, <1>2, <1>3, <1>4, <1>5, <1>6 DEF OtherStep

\* A step without requests keeps the order.
LEMMA OrderSame ==
  ASSUME OrderInv, UNCHANGED request, agent'.running = agent.running,
         marks'.locked = marks.locked
  PROVE  OrderInv'
  BY DEF OrderInv, RunsNow, Locks, KindFits

\* Tasks keep the order.
LEMMA TaskOrder == ASSUME LeaseInv, OrderInv, NEW c \in Requests, TaskStep(c) PROVE OrderInv'
  <1>1. UNCHANGED <<agent, marks>>
    BY TaskMoves
  <1>2. CASE UNCHANGED request
    BY <1>1, <1>2, OrderSame
  <1>3. ASSUME NEW pc \in {"turns", "launching", "halting"}, Moves(c, request[c].kind, pc),
               request[c].pc \in {"turns", "launching", "halting"}
        PROVE  OrderInv'
    <2>1. request[c].kind \in Runs
      BY <1>3 DEF OrderInv, KindFits, InRun
    <2>2. KindFits(request'[c]) /\ RunsNow(c)' /\ RunsNow(c) /\ ~Locks(c)'
      BY <1>3, <2>1 DEF Moves, KindFits, RunsNow, Locks, InRun, Runs, Rewrites
    <2> QED
      BY <1>1, <1>3, <2>2, OrderKept
  <1> QED
    BY <1>2, <1>3, TaskMoves

\* The other routes keep the order.
LEMMA OtherOrder == ASSUME LeaseInv, OrderInv, NEW c \in Requests, OtherStep(c) PROVE OrderInv'
  <1>1. UNCHANGED marks /\ agent'.running = agent.running /\ request[c].pc \in Plain \cup {"idle"}
    BY OtherMoves
  <1>2. PICK kind \in {request[c].kind, "sync", "file", "upload", "shell", "save", "delete"},
             pc \in Plain : Moves(c, kind, pc)
    BY OtherMoves
  <1>3. KindFits(request'[c]) /\ ~RunsNow(c)' /\ ~RunsNow(c) /\ ~Locks(c)'
    BY <1>1, <1>2 DEF Moves, KindFits, RunsNow, Locks, InRun, Plain
  <1> QED
    BY <1>1, <1>2, <1>3, OrderKept

\* The checkpoint routes keep the order.
LEMMA CheckpointOrder ==
  ASSUME LeaseInv, OrderInv, NEW c \in Requests, CheckpointStep(c)
  PROVE  OrderInv'
  <1>1. KindFits(request[c])
    BY DEF OrderInv
  <1>2. CASE CreateArrives(c) \/ RestoreArrives(c) \/ RemoveArrives(c)
    <2>1. PICK kind \in Rewrites, pc \in {"capturing", "finding", "listing"} :
            /\ Moves(c, kind, pc) /\ request[c].pc = "idle"
            /\ pc = "capturing" => kind = "create"
            /\ pc = "finding" => kind = "restore"
            /\ pc = "listing" => kind = "remove"
      BY <1>2, ArrivesMoves DEF CreateArrives, RestoreArrives, RemoveArrives, Rewrites
    <2>2. agent' = agent /\ marks'.locked /\ ~marks.locked
      BY <1>2 DEF CreateArrives, RestoreArrives, RemoveArrives, CheckpointFree, LeaseInv,
                  WorkspaceTypeOK
    <2>3. KindFits(request'[c]) /\ ~RunsNow(c)' /\ ~RunsNow(c)
      BY <2>1 DEF Moves, KindFits, RunsNow, InRun, Runs, Rewrites
    <2> QED
      BY <2>1, <2>2, <2>3, OrderTaken
  <1>3. CASE RestoreRefused(c)
    <2>1. Moves(c, "restore", "done") /\ request[c].pc = "idle"
      BY <1>3, ArrivesMoves DEF RestoreRefused
    <2>2. agent' = agent /\ marks'.locked = marks.locked
      BY <1>3 DEF RestoreRefused, LeaseInv, WorkspaceTypeOK
    <2>3. KindFits(request'[c]) /\ ~RunsNow(c)' /\ ~RunsNow(c) /\ ~Locks(c)'
      BY <2>1 DEF Moves, KindFits, RunsNow, Locks, InRun
    <2> QED
      BY <2>1, <2>2, <2>3, OrderKept
  <1>4. CASE Captured(c)
    <2>1. Moves(c, request[c].kind, "listed") /\ request[c].pc = "capturing"
      BY <1>4 DEF Captured, Moves, At, LeaseInv, WorkspaceTypeOK
    <2>2. UNCHANGED <<agent, marks>>
      BY <1>4 DEF Captured
    <2>3. /\ KindFits(request'[c])
          /\ RunsNow(c)' <=> RunsNow(c)
          /\ Locks(c)' => Locks(c)
      BY <1>1, <2>1 DEF Moves, KindFits, RunsNow, Locks, InRun
    <2> QED
      BY <2>1, <2>2, <2>3, OrderKept
  <1>5. CASE (Created(c) \/ CreateFails(c)) /\ request[c].kind = "create"
    <2>1. Moves(c, "create", "done") /\ UNCHANGED agent /\ request[c].pc \in {"capturing", "listed"}
      BY <1>5, EndsMoves DEF Created, CreateFails, AfterCreate, At
    <2>2. Locks(c) /\ ~RunsNow(c)
      BY <1>5, <2>1 DEF Locks, RunsNow, Runs, Rewrites
    <2> QED
      BY <2>1, <2>2, OrderGiven
  <1>6. CASE (Created(c) \/ CreateFails(c)) /\ request[c].kind # "create"
    <2>1. PICK lease \in Leases : Goes(c, "turns", lease)
      BY <1>6, RecordIs DEF Created, CreateFails, AfterCreate, Downgraded, LeaseInv, Record, Leases
    <2>2. Moves(c, request[c].kind, "turns") /\ request[c].pc \in {"capturing", "listed"}
      BY <1>6, <2>1, GoesMoves DEF Created, CreateFails, At, Pcs, InRun
    <2>3. UNCHANGED <<agent, marks>>
      BY <1>6 DEF Created, CreateFails, AfterCreate
    <2>4. request[c].kind \in Runs
      BY <1>1, <1>6, <2>2 DEF KindFits
    <2>5. KindFits(request'[c]) /\ RunsNow(c)' /\ RunsNow(c) /\ ~Locks(c)'
      BY <2>2, <2>4 DEF Moves, KindFits, RunsNow, Locks, InRun, Runs, Rewrites
    <2> QED
      BY <2>2, <2>3, <2>5, OrderKept
  <1>7. CASE RestoreFinds(c) \/ FilesRestored(c) \/ MessagesRestored(c) \/ RemoveLists(c)
    <2>1. PICK pc \in {"restoring", "truncating", "closing", "striking"} :
            /\ Moves(c, request[c].kind, pc)
            /\ IF pc = "striking" THEN request[c].pc = "listing"
                                  ELSE request[c].pc \in {"finding", "restoring", "truncating"}
      <3>1. CASE RestoreFinds(c)
        <4>1. Moves(c, request[c].kind, "restoring") /\ request[c].pc = "finding"
          BY <3>1 DEF RestoreFinds, Moves, At, LeaseInv, WorkspaceTypeOK
        <4> QED
          BY <4>1
      <3>3. CASE RemoveLists(c)
        <4>1. Moves(c, request[c].kind, "striking") /\ request[c].pc = "listing"
          BY <3>3 DEF RemoveLists, Moves, At, LeaseInv, WorkspaceTypeOK
        <4> QED
          BY <4>1
      <3>2. CASE FilesRestored(c) \/ MessagesRestored(c)
        BY <3>2, StaysMoves DEF FilesRestored, MessagesRestored, At, Pcs
      <3> QED
        BY <1>7, <3>1, <3>2, <3>3
    <2>2. UNCHANGED <<agent, marks>>
      BY <1>7 DEF RestoreFinds, FilesRestored, MessagesRestored, RemoveLists
    <2>3. KindFits(request'[c]) /\ ~RunsNow(c)' /\ ~RunsNow(c) /\ Locks(c)
      BY <1>1, <2>1 DEF Moves, KindFits, RunsNow, Locks, InRun, Runs, Rewrites
    <2> QED
      BY <2>1, <2>2, <2>3, OrderKept
  <1>8. CASE RestoreEnds(c) \/ RemoveEnds(c)
    <2>1. /\ Moves(c, request[c].kind, "done") /\ UNCHANGED agent
          /\ request[c].pc \in {"finding", "restoring", "truncating", "closing", "listing",
                                "striking"}
      BY <1>8, EndsMoves DEF RestoreEnds, RemoveEnds
    <2>2. Locks(c) /\ ~RunsNow(c)
      BY <1>1, <2>1 DEF Locks, RunsNow, KindFits, InRun, Rewrites
    <2> QED
      BY <2>1, <2>2, OrderGiven
  <1> QED
    BY <1>2, <1>3, <1>4, <1>5, <1>6, <1>7, <1>8 DEF CheckpointStep

\* OrderInv is inductive, with LeaseInv.
LEMMA OrderKeeps == LeaseInv /\ OrderInv /\ [Next]_vars => OrderInv'
  <1> SUFFICES ASSUME LeaseInv, OrderInv, [Next]_vars PROVE OrderInv'
    OBVIOUS
  <1>1. CASE UNCHANGED vars
    BY <1>1, OrderSame DEF vars
  <1>2. ASSUME NEW c \in Requests,
               RunStep(c) \/ TaskStep(c) \/ CheckpointStep(c) \/ OtherStep(c)
        PROVE  OrderInv'
    BY <1>2, RunOrder, TaskOrder, CheckpointOrder, OtherOrder
  <1> QED
    BY <1>1, <1>2, StepIs

\* OrderInv holds at first.
LEMMA OrderBegins == Init => OrderInv
  <1> SUFFICES ASSUME Init PROVE OrderInv
    OBVIOUS
  <1>1. \A c \in Requests : request[c].pc = "idle" /\ request[c].kind = "none"
    BY DEF Init, Fresh
  <1>2. \A c \in Requests : KindFits(request[c]) /\ ~RunsNow(c) /\ ~Locks(c)
    BY <1>1 DEF KindFits, RunsNow, Locks, InRun
  <1>3. agent.running = Nobody
    BY DEF Init
  <1> QED
    BY <1>2, <1>3, WorkspaceAssumption DEF OrderInv

\* What a step of a run moves.
LEMMA RunMoves ==
  ASSUME LeaseInv, NEW c \in Requests, RunStep(c)
  PROVE  /\ UNCHANGED <<session, marks, task, checkpoints, made, removed, odd>>
         /\ request[c].pc \notin {"halting", "stopping"}
         /\ \E kind \in {request[c].kind, "message", "retry", "queued"},
               pc \in Pcs \ {"idle", "listed", "striking"} :
               /\ Moves(c, kind, pc)
               /\ kind = request[c].kind \/ request[c].pc = "idle"
               /\ pc \in Before => request[c].pc \in Before
  <1>1. CASE MessageArrives(c) \/ RetryArrives(c) \/ QueuedRunStarts(c)
    <2>1. UNCHANGED <<session, marks, task, checkpoints, made, removed, odd>>
      BY <1>1 DEF MessageArrives, RetryArrives, QueuedRunStarts, RunStarts
    <2>2. PICK kind \in {"message", "retry", "queued"}, pc \in {"admit", "checkout", "run"} :
            Moves(c, kind, pc) /\ request[c].pc = "idle"
      BY <1>1, ArrivesMoves DEF MessageArrives, RetryArrives, QueuedRunStarts
    <2> QED
      BY <2>1, <2>2 DEF Before, Pcs, InRun
  <1>2. CASE MessageAdmitted(c) \/ RetryAdmitted(c)
    <2>1. Moves(c, request[c].kind, "run") /\ request[c].pc \in {"admit", "checkout"}
      BY <1>2, StaysMoves DEF MessageAdmitted, RetryAdmitted, At, Pcs, InRun
    <2> QED
      BY <1>2, <2>1 DEF MessageAdmitted, RetryAdmitted, RunStarts, Before, Pcs, InRun
  <1>3. CASE TurnedAway(c) \/ RunLeaves(c)
    <2>1. Moves(c, request[c].kind, "done")
      BY <1>3, EndsMoves DEF TurnedAway, RunLeaves
    <2> QED
      BY <1>3, <2>1 DEF TurnedAway, RunLeaves, At, Before, Pcs
  <1>4. CASE RunPrepares(c)
    <2>1. Moves(c, request[c].kind, "prepared") /\ request[c].pc = "run"
      BY <1>4 DEF RunPrepares, Moves, At, LeaseInv, WorkspaceTypeOK
    <2> QED
      BY <1>4, <2>1 DEF RunPrepares, Before, Pcs, InRun
  <1>5. CASE RunAppends(c)
    <2>1. Moves(c, request[c].kind, "hooks") /\ request[c].pc = "prepared"
      BY <1>5, StaysMoves DEF RunAppends, At, Pcs, InRun
    <2> QED
      BY <1>5, <2>1 DEF RunAppends, Before, Pcs, InRun
  <1>6. CASE RunConfigured(c)
    <2>1. PICK pc \in {"capturing", "turns"} : Stays(c, pc)
      BY <1>6 DEF RunConfigured
    <2>2. Moves(c, request[c].kind, pc) /\ request[c].pc = "hooks"
      BY <1>6, <2>1, StaysMoves DEF RunConfigured, At, Pcs, InRun
    <2> QED
      BY <1>6, <2>2 DEF RunConfigured, Before, Pcs, InRun
  <1>7. CASE RunStops(c)
    <2>1. Moves(c, request[c].kind, "leaving")
      BY <1>7, StaysMoves DEF RunStops, Pcs
    <2> QED
      BY <1>7, <2>1 DEF RunStops, Before, Pcs
  <1> QED
    BY <1>1, <1>2, <1>3, <1>4, <1>5, <1>6, <1>7 DEF RunStep

\* ListInv is kept by a request that neither reads nor writes the list.
LEMMA ListKept ==
  ASSUME ListInv, NEW c \in Requests, NEW kind, NEW pc, Moves(c, kind, pc),
         pc \notin {"listed", "striking"}, pc \in Before => request[c].pc \in Before,
         UNCHANGED <<checkpoints, made, removed>>, odd'.overlapped = odd.overlapped
  PROVE  ListInv'
  <1>1. \A d \in Requests : d # c => request'[d] = request[d]
    BY DEF Moves
  <1>2. request'[c].pc = pc
    BY DEF Moves
  <1>3. \A d \in Requests : Rewriting(d)' => Rewriting(d) /\ request'[d] = request[d]
    BY <1>1, <1>2 DEF Rewriting
  <1>4. \A d \in Requests : request'[d].pc \in Before => request[d].pc \in Before
    BY <1>1, <1>2
  <1>5. \A d \in Requests : request'[d].pc = "striking" =>
           request[d].pc = "striking" /\ request'[d] = request[d]
    BY <1>1, <1>2
  <1>6. (\A d \in Requests : request[d].pc \in Before => d \notin made)'
    BY <1>4 DEF ListInv
  <1>7. (\A d \in Requests : Rewriting(d) => request[d].view \subseteq made)'
    BY <1>3 DEF ListInv
  <1>8. (\A d \in Requests : request[d].pc = "striking" => request[d].target \in request[d].view)'
    BY <1>5 DEF ListInv
  <1>9. (\/ odd.overlapped
         \/ /\ made \ removed \subseteq checkpoints
            /\ checkpoints \cap removed = {}
            /\ \A d \in Requests : Rewriting(d) => request[d].view = checkpoints
            /\ \A d, e \in Requests : Rewriting(d) /\ Rewriting(e) => d = e)'
    BY <1>3 DEF ListInv
  <1> QED
    BY <1>6, <1>7, <1>8, <1>9 DEF ListInv

\* ... by a step without requests.
LEMMA ListSame ==
  ASSUME ListInv, UNCHANGED <<request, checkpoints, made, removed, odd>>
  PROVE  ListInv'
  BY DEF ListInv, Rewriting, Before

\* ... by one that reads the list.
LEMMA ListRead ==
  ASSUME LeaseInv, OrderInv, ListInv, NEW c \in Requests, NEW pc \in {"listed", "striking"},
         Moves(c, request[c].kind, pc), request'[c].view = checkpoints,
         pc = "listed" => request[c].pc = "capturing",
         pc = "striking" => request[c].pc = "listing" /\ request'[c].target \in checkpoints,
         NoticeOverlap(c), UNCHANGED <<checkpoints, made, removed>>
  PROVE  ListInv'
  <1>1. \A d \in Requests : d # c => request'[d] = request[d]
    BY DEF Moves
  <1>2. request'[c].pc = pc
    BY DEF Moves
  <1>3. \A d \in Requests : d # c /\ Rewriting(d)' => Rewriting(d) /\ request'[d] = request[d]
    BY <1>1 DEF Rewriting
  <1>4. (\A d \in Requests : request[d].pc \in Before => d \notin made)'
    BY <1>1, <1>2 DEF ListInv, Before
  <1>5. (\A d \in Requests : Rewriting(d) => request[d].view \subseteq made)'
    BY <1>3 DEF ListInv
  <1>6. (\A d \in Requests : request[d].pc = "striking" => request[d].target \in request[d].view)'
    BY <1>1, <1>2 DEF ListInv
  <1>7. odd'.overlapped <=> \/ odd.overlapped
                            \/ \E d \in Requests \ {c} :
                                 /\ request[d].pc \in {"listed", "striking"}
                                 /\ {request[c].kind, request[d].kind} \cap Runs # {}
    BY DEF NoticeOverlap, LeaseInv, WorkspaceTypeOK
  <1>8. ASSUME ~odd'.overlapped
        PROVE  (/\ made \ removed \subseteq checkpoints
                /\ checkpoints \cap removed = {}
                /\ \A d \in Requests : Rewriting(d) => request[d].view = checkpoints
                /\ \A d, e \in Requests : Rewriting(d) /\ Rewriting(e) => d = e)'
    <2>1. ~odd.overlapped
      BY <1>7, <1>8
    <2>2. \A d \in Requests : d # c => ~Rewriting(d)
      <3> SUFFICES ASSUME NEW d \in Requests, d # c, Rewriting(d) PROVE FALSE
        OBVIOUS
      <3>1. {request[c].kind, request[d].kind} \cap Runs = {}
        BY <1>7, <1>8 DEF Rewriting
      <3>2. request[c].kind \in Rewrites /\ request[d].kind \in Rewrites
        BY <3>1 DEF OrderInv, KindFits, Rewriting, Rewrites
      <3>3. Locks(c) /\ Locks(d)
        BY <3>2 DEF Locks, Rewriting
      <3> QED
        BY <3>3 DEF OrderInv
    <2>3. \A d \in Requests : Rewriting(d)' => d = c
      BY <1>3, <2>2
    <2> QED
      BY <2>1, <2>3 DEF ListInv
  <1> QED
    BY <1>4, <1>5, <1>6, <1>8 DEF ListInv

\* ... by one that writes it, with a new checkpoint or without an old one.
LEMMA ListWritten ==
  ASSUME LeaseInv, ListInv, NEW c \in Requests, NEW pc \in {"turns", "done"},
         Moves(c, request[c].kind, pc), Rewriting(c), UNCHANGED odd,
         \/ /\ request[c].pc = "listed"
            /\ checkpoints' = request[c].view \cup {c} /\ made' = made \cup {c}
            /\ removed' = removed
         \/ /\ request[c].pc = "striking"
            /\ checkpoints' = request[c].view \ {request[c].target} /\ made' = made
            /\ removed' = removed \cup {request[c].target}
  PROVE  ListInv'
  <1>1. \A d \in Requests : d # c => request'[d] = request[d]
    BY DEF Moves
  <1>2. request'[c].pc = pc
    BY DEF Moves
  <1>3. \A d \in Requests : Rewriting(d)' => d # c /\ Rewriting(d) /\ request'[d] = request[d]
    BY <1>1, <1>2 DEF Rewriting
  <1>4. request[c].view \subseteq made
    BY DEF ListInv
  <1>5. request[c].pc = "striking" => request[c].target \in made
    BY <1>4 DEF ListInv
  <1>6. made \subseteq made' /\ checkpoints' \subseteq made' /\ removed' \subseteq made'
    BY <1>4, <1>5 DEF ListInv
  <1>7. (\A d \in Requests : request[d].pc \in Before => d \notin made)'
    BY <1>1, <1>2 DEF ListInv, Before
  <1>8. (\A d \in Requests : Rewriting(d) => request[d].view \subseteq made)'
    BY <1>3, <1>6 DEF ListInv
  <1>9. (\A d \in Requests : request[d].pc = "striking" => request[d].target \in request[d].view)'
    BY <1>1, <1>2 DEF ListInv
  <1>10. ASSUME ~odd.overlapped
         PROVE  (/\ made \ removed \subseteq checkpoints
                 /\ checkpoints \cap removed = {}
                 /\ \A d \in Requests : Rewriting(d) => request[d].view = checkpoints
                 /\ \A d, e \in Requests : Rewriting(d) /\ Rewriting(e) => d = e)'
    <2>1. \A d \in Requests : ~Rewriting(d)'
      BY <1>3, <1>10 DEF ListInv
    <2>2. request[c].view = checkpoints /\ made \ removed \subseteq checkpoints
          /\ checkpoints \cap removed = {} /\ removed \subseteq made
      BY <1>10 DEF ListInv
    <2>3. CASE request[c].pc = "listed"
      <3>1. c \notin made
        BY <2>3 DEF ListInv, Before
      <3> QED
        BY <2>1, <2>2, <2>3, <3>1
    <2>4. CASE request[c].pc = "striking"
      BY <2>1, <2>2, <2>4
    <2> QED
      BY <2>3, <2>4 DEF Rewriting
  <1> QED
    BY <1>6, <1>7, <1>8, <1>9, <1>10 DEF ListInv

\* The checkpoint routes keep the list.
LEMMA CheckpointList ==
  ASSUME LeaseInv, OrderInv, ListInv, NEW c \in Requests, CheckpointStep(c)
  PROVE  ListInv'
  <1>1. CASE CreateArrives(c) \/ RestoreArrives(c) \/ RemoveArrives(c) \/ RestoreRefused(c)
    <2>1. PICK kind, pc :
            /\ Moves(c, kind, pc) /\ request[c].pc = "idle"
            /\ pc \in {"capturing", "finding", "listing", "done"}
      BY <1>1, ArrivesMoves DEF CreateArrives, RestoreArrives, RemoveArrives, RestoreRefused
    <2>2. UNCHANGED <<checkpoints, made, removed>> /\ odd'.overlapped = odd.overlapped
      BY <1>1 DEF CreateArrives, RestoreArrives, RemoveArrives, RestoreRefused, LeaseInv,
                  WorkspaceTypeOK
    <2> QED
      BY <2>1, <2>2, ListKept DEF Before
  <1>2. CASE Captured(c)
    <2>1. /\ Moves(c, request[c].kind, "listed") /\ request[c].pc = "capturing"
          /\ request'[c].view = checkpoints
      BY <1>2 DEF Captured, Moves, At, LeaseInv, WorkspaceTypeOK
    <2> QED
      BY <1>2, <2>1, ListRead DEF Captured
  <1>3. CASE RemoveLists(c)
    <2>1. /\ Moves(c, request[c].kind, "striking") /\ request[c].pc = "listing"
          /\ request'[c].view = checkpoints /\ request'[c].target \in checkpoints
      BY <1>3 DEF RemoveLists, Moves, At, LeaseInv, WorkspaceTypeOK
    <2> QED
      BY <1>3, <2>1, ListRead DEF RemoveLists
  <1>4. CASE Created(c) \/ CreateFails(c)
    <2>1. PICK pc \in {"turns", "done"} : Moves(c, request[c].kind, pc)
      <3>1. CASE request[c].kind = "create"
        BY <1>4, <3>1, EndsMoves DEF Created, CreateFails, AfterCreate
      <3>2. CASE request[c].kind # "create"
        <4>1. PICK lease \in Leases : Goes(c, "turns", lease)
          BY <1>4, <3>2, RecordIs DEF Created, CreateFails, AfterCreate, Downgraded, LeaseInv,
                                      Record, Leases
        <4> QED
          BY <4>1, GoesMoves DEF Pcs, InRun
      <3> QED
        BY <3>1, <3>2
    <2>2. CASE Created(c)
      BY <2>1, <2>2, ListWritten DEF Created, At, Rewriting
    <2>3. CASE CreateFails(c)
      BY <2>1, <2>3, ListKept DEF CreateFails, Before
    <2> QED
      BY <1>4, <2>2, <2>3
  <1>5. CASE RestoreFinds(c)
    <2>1. Moves(c, request[c].kind, "restoring")
      BY <1>5 DEF RestoreFinds, Moves, At, LeaseInv, WorkspaceTypeOK
    <2> QED
      BY <1>5, <2>1, ListKept DEF RestoreFinds, Before
  <1>6. CASE FilesRestored(c) \/ MessagesRestored(c)
    <2>1. PICK pc \in {"truncating", "closing"} : Moves(c, request[c].kind, pc)
      BY <1>6, StaysMoves DEF FilesRestored, MessagesRestored, Pcs
    <2> QED
      BY <1>6, <2>1, ListKept DEF FilesRestored, MessagesRestored, Before
  <1>7. CASE RestoreEnds(c) \/ RemoveEnds(c)
    <2>1. Moves(c, request[c].kind, "done")
      BY <1>7, EndsMoves DEF RestoreEnds, RemoveEnds
    <2>2. CASE UNCHANGED <<checkpoints, made, removed, odd>>
      BY <2>1, <2>2, ListKept DEF Before
    <2>3. CASE ~UNCHANGED <<checkpoints, made, removed, odd>>
      <3>1. /\ request[c].pc = "striking"
            /\ checkpoints' = request[c].view \ {request[c].target}
            /\ removed' = removed \cup {request[c].target}
            /\ UNCHANGED <<made, odd>>
        BY <1>7, <2>3 DEF RestoreEnds, RemoveEnds, At
      <3> QED
        BY <2>1, <3>1, ListWritten DEF Rewriting
    <2> QED
      BY <2>2, <2>3
  <1> QED
    BY <1>1, <1>2, <1>3, <1>4, <1>5, <1>6, <1>7 DEF CheckpointStep

\* ListInv is inductive, with LeaseInv and OrderInv.
LEMMA ListKeeps == LeaseInv /\ OrderInv /\ ListInv /\ [Next]_vars => ListInv'
  <1> SUFFICES ASSUME LeaseInv, OrderInv, ListInv, [Next]_vars PROVE ListInv'
    OBVIOUS
  <1>1. CASE UNCHANGED vars
    BY <1>1, ListSame DEF vars
  <1>2. ASSUME NEW c \in Requests, RunStep(c)
        PROVE  ListInv'
    <2>1. PICK kind \in {request[c].kind, "message", "retry", "queued"},
               pc \in Pcs \ {"idle", "listed", "striking"} :
            Moves(c, kind, pc) /\ (pc \in Before => request[c].pc \in Before)
      BY <1>2, RunMoves
    <2> QED
      BY <1>2, <2>1, RunMoves, ListKept
  <1>3. ASSUME NEW c \in Requests, TaskStep(c)
        PROVE  ListInv'
    <2>1. UNCHANGED <<checkpoints, made, removed, odd>>
      BY <1>3, TaskMoves
    <2>2. CASE UNCHANGED request
      BY <2>1, <2>2, ListSame
    <2>3. ASSUME NEW pc \in {"turns", "launching", "halting"}, Moves(c, request[c].kind, pc)
          PROVE  ListInv'
      BY <2>1, <2>3, ListKept DEF Before
    <2> QED
      BY <1>3, <2>2, <2>3, TaskMoves
  <1>4. ASSUME NEW c \in Requests, OtherStep(c)
        PROVE  ListInv'
    <2>1. UNCHANGED <<checkpoints, made, removed, odd>>
      BY <1>4, OtherMoves
    <2>2. PICK kind \in {request[c].kind, "sync", "file", "upload", "shell", "save", "delete"},
               pc \in Plain : Moves(c, kind, pc)
      BY <1>4, OtherMoves
    <2> QED
      BY <2>1, <2>2, ListKept DEF Before, Plain
  <1>5. ASSUME NEW c \in Requests, CheckpointStep(c)
        PROVE  ListInv'
    BY <1>5, CheckpointList
  <1> QED
    BY <1>1, <1>2, <1>3, <1>4, <1>5, StepIs

\* ListInv holds at first.
LEMMA ListBegins == Init => ListInv
  <1> SUFFICES ASSUME Init PROVE ListInv
    OBVIOUS
  <1>1. \A c \in Requests : request[c].pc = "idle"
    BY DEF Init, Fresh
  <1> QED
    BY <1>1 DEF Init, ListInv, Rewriting

\* CheckpointsKept (git-shadow.ts, session-lock.ts): unless the automatic checkpoint of a run
\* overlapped with another rewrite, checkpoints.json has what was made and not removed.
THEOREM CheckpointsSurvive == Spec => []CheckpointsKept
  <1>1. ListInv => CheckpointsKept
    BY DEF ListInv, CheckpointsKept
  <1> QED
    BY LeaseStarts, LeaseKeeps, OrderBegins, OrderKeeps, ListBegins, ListKeeps, <1>1, PTL DEF Spec

\* What a step of the checkpoint routes moves.
LEMMA CheckpointMoves ==
  ASSUME LeaseInv, NEW c \in Requests, CheckpointStep(c)
  PROVE  /\ UNCHANGED <<session, agent, task>>
         /\ request[c].pc \notin {"halting", "stopping"}
         /\ \E kind \in {request[c].kind} \cup Rewrites, pc \in Pcs :
               /\ Moves(c, kind, pc)
               /\ kind = request[c].kind \/ request[c].pc = "idle"
  <1>1. CASE CreateArrives(c) \/ RestoreArrives(c) \/ RemoveArrives(c) \/ RestoreRefused(c)
    <2>1. PICK kind \in Rewrites, pc \in {"capturing", "finding", "listing", "done"} :
            Moves(c, kind, pc) /\ request[c].pc = "idle"
      BY <1>1, ArrivesMoves DEF CreateArrives, RestoreArrives, RemoveArrives, RestoreRefused,
                                Rewrites
    <2>2. UNCHANGED <<session, agent, task>>
      BY <1>1 DEF CreateArrives, RestoreArrives, RemoveArrives, RestoreRefused
    <2> QED
      BY <2>1, <2>2 DEF Pcs, InRun
  <1>2. CASE Captured(c)
    <2>1. Moves(c, request[c].kind, "listed") /\ request[c].pc = "capturing"
      BY <1>2 DEF Captured, Moves, At, LeaseInv, WorkspaceTypeOK
    <2> QED
      BY <1>2, <2>1 DEF Captured, Pcs, InRun
  <1>3. CASE RemoveLists(c)
    <2>1. Moves(c, request[c].kind, "striking") /\ request[c].pc = "listing"
      BY <1>3 DEF RemoveLists, Moves, At, LeaseInv, WorkspaceTypeOK
    <2> QED
      BY <1>3, <2>1 DEF RemoveLists, Pcs
  <1>4. CASE Created(c) \/ CreateFails(c)
    <2>1. PICK pc \in {"turns", "done"} : Moves(c, request[c].kind, pc)
      <3>1. CASE request[c].kind = "create"
        BY <1>4, <3>1, EndsMoves DEF Created, CreateFails, AfterCreate
      <3>2. CASE request[c].kind # "create"
        <4>1. PICK lease \in Leases : Goes(c, "turns", lease)
          BY <1>4, <3>2, RecordIs DEF Created, CreateFails, AfterCreate, Downgraded, LeaseInv,
                                      Record, Leases
        <4> QED
          BY <4>1, GoesMoves DEF Pcs, InRun
      <3> QED
        BY <3>1, <3>2
    <2> QED
      BY <1>4, <2>1 DEF Created, CreateFails, At, Pcs, InRun
  <1>5. CASE RestoreFinds(c)
    <2>1. Moves(c, request[c].kind, "restoring") /\ request[c].pc = "finding"
      BY <1>5 DEF RestoreFinds, Moves, At, LeaseInv, WorkspaceTypeOK
    <2> QED
      BY <1>5, <2>1 DEF RestoreFinds, Pcs
  <1>6. CASE FilesRestored(c) \/ MessagesRestored(c)
    <2>1. PICK pc \in {"truncating", "closing"} : Moves(c, request[c].kind, pc)
      BY <1>6, StaysMoves DEF FilesRestored, MessagesRestored, Pcs
    <2> QED
      BY <1>6, <2>1 DEF FilesRestored, MessagesRestored, At, Pcs
  <1>7. CASE RestoreEnds(c) \/ RemoveEnds(c)
    <2>1. Moves(c, request[c].kind, "done")
      BY <1>7, EndsMoves DEF RestoreEnds, RemoveEnds
    <2> QED
      BY <1>7, <2>1 DEF RestoreEnds, RemoveEnds, Pcs
  <1> QED
    BY <1>1, <1>2, <1>3, <1>4, <1>5, <1>6, <1>7 DEF CheckpointStep

\* TaskInv is kept when no task changes.
LEMMA TaskKept ==
  ASSUME OrderInv, TaskInv, NEW c \in Requests, NEW kind, NEW pc, Moves(c, kind, pc),
         kind = request[c].kind \/ request[c].pc = "idle",
         request[c].pc \notin {"halting", "stopping"}, UNCHANGED task
  PROVE  TaskInv'
  <1>1. \A d \in Requests : At(d, "halting") \/ At(d, "stopping") =>
                              request'[d] = request[d]
    BY DEF At, Moves
  <1>2. \A x \in Requests : task[x] # "none" => request'[x].kind \in Runs
    BY DEF OrderInv, KindFits, TaskInv, Moves, Runs
  <1> QED
    BY <1>1, <1>2 DEF TaskInv, At

\* The steps of tasks keep TaskInv.
LEMMA TaskTasks ==
  ASSUME LeaseInv, OrderInv, TaskInv, NEW c \in Requests, TaskStep(c)
  PROVE  TaskInv'
  <1>1. task \in [Requests -> {"none", "starting", "running", "stopping", "over"}]
    BY DEF LeaseInv, WorkspaceTypeOK
  <1>2. CASE TaskLaunched(c) \/ TaskUp(c)
    <2>1. PICK pc \in {"launching", "turns"} : Moves(c, request[c].kind, pc)
      BY <1>2, StaysMoves DEF TaskLaunched, TaskUp, Pcs, InRun
    <2>2. request[c].pc \in {"turns", "launching"}
      BY <1>2 DEF TaskLaunched, TaskUp, At
    <2>3. PICK now \in {"starting", "running", "over"} : task' = [task EXCEPT ![c] = now]
      BY <1>2 DEF TaskLaunched, TaskUp
    <2>4. request[c].kind \in Runs
      BY <2>2 DEF OrderInv, KindFits, InRun
    <2>5. \A d \in Requests : At(d, "halting") \/ At(d, "stopping") => request'[d] = request[d]
      BY <2>1, <2>2 DEF At, Moves
    <2>6. \A x \in Requests : task'[x] = "stopping" => task[x] = "stopping"
      BY <1>1, <2>3
    <2>7. \A x \in Requests : task'[x] # "none" => request'[x].kind \in Runs
      BY <1>1, <2>1, <2>3, <2>4 DEF TaskInv, Moves
    <2> QED
      BY <2>5, <2>6, <2>7 DEF TaskInv, At
  <1>3. CASE TaskEnds(c) \/ TaskDies(c)
    <2>1. task' = [task EXCEPT ![c] = "over"] /\ task[c] # "none" /\ UNCHANGED request
      BY <1>3 DEF TaskEnds, TaskDies
    <2> QED
      BY <1>1, <2>1 DEF TaskInv, At
  <1>4. CASE TaskGone(c)
    <2>1. Moves(c, request[c].kind, "turns") /\ UNCHANGED task
      BY <1>4, StaysMoves DEF TaskGone, Pcs, InRun
    <2>2. task[request[c].target] = "over" /\ request[c].pc = "halting"
      BY <1>4 DEF TaskGone, At
    <2>3. \A d \in Requests : d # c => request'[d] = request[d]
      BY <2>1 DEF Moves
    <2>4. \A x \in Requests : task'[x] = "stopping" => x # request[c].target
      BY <2>1, <2>2
    <2>5. \A x \in Requests : request'[x].kind = request[x].kind
      BY <2>1 DEF Moves
    <2> QED
      BY <2>1, <2>2, <2>3, <2>4, <2>5 DEF TaskInv, At
  <1>5. ASSUME NEW x \in Requests, TaskStopped(c, x)
        PROVE  TaskInv'
    <2>1. /\ request[c].pc = "turns" /\ request'[c].pc = "halting" /\ request'[c].target = x
          /\ request'[c].kind = request[c].kind
          /\ \A d \in Requests : d # c => request'[d] = request[d]
      BY <1>5 DEF TaskStopped, At, LeaseInv, WorkspaceTypeOK
    <2>2. task' = [task EXCEPT ![x] = "stopping"] /\ task[x] = "running"
      BY <1>5 DEF TaskStopped
    <2>3. \A y \in Requests : task'[y] # "none" => task[y] # "none"
      BY <1>1, <2>2
    <2>4. \A y \in Requests : y # x /\ task'[y] = "stopping" => task[y] = "stopping"
      BY <1>1, <2>2
    <2>5. \A y \in Requests : task'[y] # "none" => request'[y].kind \in Runs
      BY <2>1, <2>3 DEF TaskInv
    <2>6. \A d \in Requests : At(d, "halting") \/ At(d, "stopping") => request'[d] = request[d]
      BY <2>1 DEF At
    <2> QED
      BY <2>1, <2>4, <2>5, <2>6 DEF TaskInv, At
  <1> QED
    BY <1>2, <1>3, <1>4, <1>5 DEF TaskStep

\* The other routes keep TaskInv: a deletion stops the tasks and waits for them.
LEMMA OtherTasks ==
  ASSUME LeaseInv, OrderInv, TaskInv, NEW c \in Requests, OtherStep(c)
  PROVE  TaskInv'
  <1>1. PICK kind \in {request[c].kind, "sync", "file", "upload", "shell", "save", "delete"},
             pc \in Plain :
          Moves(c, kind, pc) /\ (kind = request[c].kind \/ request[c].pc = "idle")
    BY OtherMoves
  <1>2. request[c].pc \in Plain \cup {"idle"}
    BY OtherMoves
  <1>3. CASE DeleteStopsTasks(c)
    <2>1. request[c].pc = "deleting" /\ request'[c].pc = "stopping"
      <3>1. PICK lease \in Leases : Goes(c, "stopping", lease)
        BY <1>3, LeasedIs DEF DeleteStopsTasks, Leases
      <3> QED
        BY <1>3, <3>1, GoesMoves DEF DeleteStopsTasks, At, Moves, Pcs
    <2>2. \A x \in Requests : task'[x] # "none" => task[x] # "none"
      BY <1>3 DEF DeleteStopsTasks
    <2>3. \A x \in Requests : task'[x] # "none" => request'[x].kind \in Runs
      BY <1>1, <2>1, <2>2 DEF TaskInv, Moves
    <2> QED
      BY <2>1, <2>3 DEF TaskInv, At
  <1>4. CASE DeleteTearsDown(c)
    <2>1. UNCHANGED task /\ \A x \in Requests : task[x] # "stopping"
      BY <1>4 DEF DeleteTearsDown
    <2>2. request[c].pc = "stopping"
      BY <1>4 DEF DeleteTearsDown, At
    <2>3. \A x \in Requests : task'[x] # "none" => request'[x].kind \in Runs
      BY <1>1, <2>1, <2>2 DEF TaskInv, Moves
    <2> QED
      BY <2>1, <2>3 DEF TaskInv
  <1>5. CASE ~DeleteStopsTasks(c) /\ ~DeleteTearsDown(c)
    <2>1. UNCHANGED task /\ request[c].pc # "stopping"
      BY <1>5 DEF OtherStep, SyncArrives, FileArrives, UploadArrives, UploadConfigured, UseEnds,
                  ShellArrives, ShellAppends, ShellEnds, SaveArrives, SaveEnds, DeleteArrives,
                  DeleteFails, Deleted, Arrives, At
    <2> QED
      BY <1>1, <1>2, <2>1, TaskKept DEF Plain
  <1> QED
    BY <1>3, <1>4, <1>5

\* TaskInv is inductive, with LeaseInv and OrderInv.
LEMMA TasksKeep == LeaseInv /\ OrderInv /\ TaskInv /\ [Next]_vars => TaskInv'
  <1> SUFFICES ASSUME LeaseInv, OrderInv, TaskInv, [Next]_vars PROVE TaskInv'
    OBVIOUS
  <1>1. CASE UNCHANGED vars
    BY <1>1 DEF vars, TaskInv, At
  <1>2. ASSUME NEW c \in Requests, RunStep(c)
        PROVE  TaskInv'
    BY <1>2, RunMoves, TaskKept
  <1>3. ASSUME NEW c \in Requests, CheckpointStep(c)
        PROVE  TaskInv'
    BY <1>3, CheckpointMoves, TaskKept
  <1>4. ASSUME NEW c \in Requests, TaskStep(c) \/ OtherStep(c)
        PROVE  TaskInv'
    BY <1>4, TaskTasks, OtherTasks
  <1> QED
    BY <1>1, <1>2, <1>3, <1>4, StepIs

\* AloneInv is kept by a request that moves within a restore, within a run, or in neither.
LEMMA AloneKept ==
  ASSUME OrderInv, TaskInv, AloneInv, NEW c \in Requests, NEW kind, NEW pc, Moves(c, kind, pc),
         kind = request[c].kind \/ request[c].pc = "idle",
         kind = "restore" /\ pc \in {"finding", "restoring", "truncating", "closing"} =>
            Restoring(c),
         kind = "message" /\ pc \in InRun => RunOf(c),
         kind = "message" /\ pc \in InRun \ {"run", "prepared"} => Writing(c) \/ Wrote(c)',
         request[c].pc = "stopping" => \A d \in Requests : task'[d] # "stopping",
         \A d \in Requests : request'[d].kind = "message" =>
             \/ task'[d] = task[d]
             \/ task'[d] = "over"
             \/ task'[d] = "stopping" /\ \E x \in Requests : At(x, "stopping")'
             \/ d = c /\ RunOf(c),
         \A d \in Requests : Wrote(d) => Wrote(d)',
         marks'.restoring = marks.restoring, odd'.unmarked = odd.unmarked
  PROVE  AloneInv'
  <1>1. CASE odd.unmarked
    BY <1>1 DEF AloneInv
  <1>2. CASE ~odd.unmarked
    <2>1. /\ \A e \in Requests : Restoring(e) => Apart(e)
          /\ \A e \in Requests : Writing(e) => Wrote(e)
      BY <1>2 DEF AloneInv
    <2>2. \A e \in Requests : Restoring(e)' => Restoring(e)
      BY DEF Moves, Restoring
    <2>3. \A d \in Requests : RunOf(d)' => RunOf(d)
      BY DEF Moves, RunOf
    <2>4. ASSUME NEW e \in Requests, Restoring(e) PROVE Apart(e)'
      <3>1. Apart(e) /\ marks'.restoring
        BY <2>1, <2>4 DEF Apart
      <3>2. ASSUME NEW d \in Requests, request'[d].kind = "message"
            PROVE  /\ request'[d].pc \notin InRun
                   /\ \/ task'[d] \in {"none", "over"}
                      \/ task'[d] = "stopping" /\ \E x \in Requests : At(x, "stopping")'
        <4>1. \A f \in Requests : ~RunOf(f)
          BY <3>1 DEF Apart, RunOf
        <4>2. request'[d].pc \notin InRun
          BY <2>3, <3>2, <4>1 DEF RunOf
        <4>3. CASE request[d].kind = "message"
          <5>1. \/ task[d] \in {"none", "over"}
                \/ task[d] = "stopping" /\ \E x \in Requests : At(x, "stopping")
            BY <3>1, <4>3 DEF Apart
          <5>2. (\E x \in Requests : At(x, "stopping")) =>
                   \/ \E x \in Requests : At(x, "stopping")'
                   \/ \A f \in Requests : task'[f] # "stopping"
            BY DEF At, Moves
          <5> QED
            BY <3>2, <4>1, <4>2, <5>1, <5>2
        <4>4. CASE request[d].kind # "message"
          <5>1. d = c /\ request[d].pc = "idle"
            BY <3>2, <4>4 DEF Moves
          <5>2. task[d] = "none" /\ request[d].kind = "none"
            BY <5>1 DEF OrderInv, KindFits, TaskInv, Runs
          <5> QED
            BY <3>2, <4>1, <4>2, <5>1, <5>2
        <4> QED
          BY <4>3, <4>4
      <3> QED
        BY <3>1, <3>2 DEF Apart
    <2>5. ASSUME NEW e \in Requests, Writing(e)' PROVE Wrote(e)'
      <3>1. CASE e = c
        BY <2>1, <2>5, <3>1 DEF Writing, RunOf, Moves
      <3>2. CASE e # c
        BY <2>1, <2>5, <3>2 DEF Writing, RunOf, Moves
      <3> QED
        BY <3>1, <3>2
    <2> QED
      BY <2>2, <2>4, <2>5 DEF AloneInv
  <1> QED
    BY <1>1, <1>2

\* What is appended is in the history, and nothing is lost.
LEMMA Appended ==
  ASSUME messages \in Seq(Requests), NEW c \in Requests, messages' = Append(messages, c)
  PROVE  Wrote(c)' /\ \A d \in Requests : Wrote(d) => Wrote(d)'
  <1>1. /\ Len(messages) \in Nat /\ DOMAIN messages = 1 .. Len(messages)
        /\ DOMAIN messages' = 1 .. (Len(messages) + 1)
        /\ messages'[Len(messages) + 1] = c
        /\ \A i \in 1 .. Len(messages) : messages'[i] = messages[i]
    BY AppendProperties, LenProperties
  <1> QED
    BY <1>1 DEF Wrote

\* Runs keep AloneInv: a message asks for the mark before it runs.
LEMMA RunAlone ==
  ASSUME LeaseInv, OrderInv, TaskInv, AloneInv, NEW c \in Requests, RunStep(c)
  PROVE  AloneInv'
  <1>1. UNCHANGED <<marks, task, odd>> /\ request[c].pc # "stopping" /\ KindFits(request[c])
    BY RunMoves DEF OrderInv
  <1>2. UNCHANGED messages => \A d \in Requests : Wrote(d) => Wrote(d)'
    BY DEF Wrote
  <1>3. CASE MessageArrives(c) \/ RetryArrives(c)
    <2>1. PICK kind \in {"message", "retry"}, pc \in {"admit", "checkout"} :
            Moves(c, kind, pc) /\ request[c].pc = "idle"
      BY <1>3, ArrivesMoves DEF MessageArrives, RetryArrives
    <2>2. UNCHANGED messages
      BY <1>3 DEF MessageArrives, RetryArrives
    <2> QED
      BY <1>1, <1>2, <2>1, <2>2, AloneKept DEF InRun
  <1>4. CASE MessageAdmitted(c)
    <2>1. Moves(c, request[c].kind, "run") /\ request[c].pc = "admit"
      BY <1>4, StaysMoves DEF MessageAdmitted, At, Pcs, InRun
    <2>2. ~marks.restoring /\ UNCHANGED messages
      BY <1>4 DEF MessageAdmitted, RunStarts
    <2>3. \A d \in Requests : Writing(d)' => Writing(d)
      BY <2>1 DEF Writing, RunOf, Moves
    <2>4. \A d \in Requests : Restoring(d)' => Restoring(d)
      BY <2>1 DEF Restoring, Moves
    <2>5. odd.unmarked \/ /\ \A d \in Requests : ~Restoring(d)
                          /\ \A d \in Requests : Writing(d) => Wrote(d)
      BY <2>2 DEF AloneInv, Apart
    <2>6. odd'.unmarked \/ /\ \A d \in Requests : ~Restoring(d)'
                           /\ \A d \in Requests : Writing(d)' => Wrote(d)'
      BY <1>1, <1>2, <2>2, <2>3, <2>4, <2>5
    <2> QED
      BY <2>6 DEF AloneInv
  <1>5. CASE RetryAdmitted(c)
    <2>1. Moves(c, request[c].kind, "run") /\ request[c].pc = "checkout"
      BY <1>5, StaysMoves DEF RetryAdmitted, At, Pcs, InRun
    <2>2. UNCHANGED messages
      BY <1>5 DEF RetryAdmitted, RunStarts
    <2>3. request[c].kind = "retry"
      BY <1>1, <2>1 DEF KindFits
    <2> QED
      BY <1>1, <1>2, <2>1, <2>2, <2>3, AloneKept
  <1>6. CASE QueuedRunStarts(c)
    <2>1. Moves(c, "queued", "run") /\ request[c].pc = "idle" /\ UNCHANGED messages
      BY <1>6, ArrivesMoves DEF QueuedRunStarts, RunStarts
    <2> QED
      BY <1>1, <1>2, <2>1, AloneKept
  <1>7. CASE TurnedAway(c) \/ RunLeaves(c) \/ RunStops(c)
    <2>1. PICK pc \in {"done", "leaving"} : Moves(c, request[c].kind, pc)
      BY <1>7, StaysMoves, EndsMoves DEF TurnedAway, RunLeaves, RunStops, Pcs
    <2>2. UNCHANGED messages
      BY <1>7 DEF TurnedAway, RunLeaves, RunStops
    <2> QED
      BY <1>1, <1>2, <2>1, <2>2, AloneKept DEF InRun
  <1>8. CASE RunPrepares(c)
    <2>1. Moves(c, request[c].kind, "prepared") /\ request[c].pc = "run" /\ UNCHANGED messages
      BY <1>8 DEF RunPrepares, Moves, At, LeaseInv, WorkspaceTypeOK
    <2>2. request[c].kind = "message" => RunOf(c)
      BY <2>1 DEF RunOf, InRun
    <2> QED
      BY <1>1, <1>2, <2>1, <2>2, AloneKept
  <1>9. CASE RunAppends(c)
    <2>1. Moves(c, request[c].kind, "hooks") /\ request[c].pc = "prepared"
      BY <1>9, StaysMoves DEF RunAppends, At, Pcs, InRun
    <2>2. request[c].kind = "message" => RunOf(c)
      BY <2>1 DEF RunOf, InRun
    <2>3. Wrote(c)' /\ \A d \in Requests : Wrote(d) => Wrote(d)'
      BY <1>9, Appended DEF RunAppends, LeaseInv, WorkspaceTypeOK
    <2> QED
      BY <1>1, <2>1, <2>2, <2>3, AloneKept
  <1>10. CASE RunConfigured(c)
    <2>1. PICK pc \in {"capturing", "turns"} : Stays(c, pc)
      BY <1>10 DEF RunConfigured
    <2>2. /\ Moves(c, request[c].kind, pc) /\ request[c].pc = "hooks" /\ UNCHANGED messages
      BY <1>10, <2>1, StaysMoves DEF RunConfigured, At, Pcs, InRun
    <2>3. request[c].kind = "message" => RunOf(c) /\ Writing(c)
      BY <2>2 DEF RunOf, Writing, InRun
    <2> QED
      BY <1>1, <1>2, <2>2, <2>3, AloneKept
  <1> QED
    BY <1>3, <1>4, <1>5, <1>6, <1>7, <1>8, <1>9, <1>10 DEF RunStep

\* Tasks keep AloneInv.
LEMMA TaskAlone ==
  ASSUME LeaseInv, OrderInv, TaskInv, AloneInv, NEW c \in Requests, TaskStep(c)
  PROVE  AloneInv'
  <1>1. /\ task \in [Requests -> {"none", "starting", "running", "stopping", "over"}]
        /\ UNCHANGED <<marks, messages, odd>>
    BY TaskMoves DEF LeaseInv, WorkspaceTypeOK
  <1>2. \A d \in Requests : Wrote(d) => Wrote(d)'
    BY <1>1 DEF Wrote
  <1>3. CASE TaskLaunched(c) \/ TaskUp(c) \/ TaskGone(c)
    <2>1. PICK pc \in {"launching", "turns"} : Moves(c, request[c].kind, pc)
      BY <1>3, StaysMoves DEF TaskLaunched, TaskUp, TaskGone, Pcs, InRun
    <2>2. request[c].pc \in {"turns", "launching", "halting"}
      BY <1>3 DEF TaskLaunched, TaskUp, TaskGone, At
    <2>3. \A d \in Requests : task'[d] = task[d] \/ d = c
      BY <1>1, <1>3 DEF TaskLaunched, TaskUp, TaskGone
    <2>4. request[c].kind = "message" => RunOf(c) /\ Writing(c)
      BY <2>2 DEF RunOf, Writing, InRun
    <2>5. request'[c].kind = request[c].kind
      BY <2>1 DEF Moves
    <2>6. pc \in InRun \ {"run", "prepared"} /\ request[c].pc # "stopping"
      BY <2>1, <2>2 DEF InRun
    <2> QED
      BY <1>1, <1>2, <2>1, <2>3, <2>4, <2>5, <2>6, AloneKept
  <1>4. CASE TaskEnds(c) \/ TaskDies(c)
    <2>1. task' = [task EXCEPT ![c] = "over"] /\ UNCHANGED request
      BY <1>4 DEF TaskEnds, TaskDies
    <2>2. \A d \in Requests : task'[d] = task[d] \/ task'[d] = "over"
      BY <1>1, <2>1
    <2>3. CASE odd.unmarked
      BY <1>1, <2>3 DEF AloneInv
    <2>4. CASE ~odd.unmarked
      <3>1. (\A e \in Requests : Restoring(e) => Apart(e))
            /\ \A e \in Requests : Writing(e) => Wrote(e)
        BY <2>4 DEF AloneInv
      <3>2. (\A e \in Requests : Restoring(e) => Apart(e))'
        BY <1>1, <2>1, <2>2, <3>1 DEF Restoring, Apart, At
      <3>3. (\A e \in Requests : Writing(e) => Wrote(e))'
        BY <1>2, <2>1, <3>1 DEF Writing, RunOf
      <3> QED
        BY <3>2, <3>3 DEF AloneInv
    <2> QED
      BY <2>3, <2>4
  <1>5. ASSUME NEW x \in Requests, TaskStopped(c, x)
        PROVE  AloneInv'
    <2>1. Moves(c, request[c].kind, "halting") /\ request[c].pc = "turns"
      BY <1>5 DEF TaskStopped, At, Moves, LeaseInv, WorkspaceTypeOK
    <2>2. task' = [task EXCEPT ![x] = "stopping"] /\ task[x] = "running"
      BY <1>5 DEF TaskStopped
    <2>3. CASE odd.unmarked
      BY <1>1, <2>3 DEF AloneInv
    <2>4. CASE ~odd.unmarked
      <3>1. (\A e \in Requests : Restoring(e) => Apart(e))
            /\ \A e \in Requests : Writing(e) => Wrote(e)
        BY <2>4 DEF AloneInv
      <3>2. ASSUME NEW e \in Requests, Restoring(e)' PROVE Apart(e)'
        <4>1. Restoring(e)
          BY <2>1, <3>2 DEF Restoring, Moves
        <4>2. Apart(e)
          BY <3>1, <4>1
        <4>3. request[c].kind # "message" /\ request[x].kind # "message"
          BY <2>1, <2>2, <4>2 DEF Apart, InRun
        <4>4. \A d \in Requests : request'[d].kind = request[d].kind
          BY <2>1 DEF Moves
        <4>5. \A d \in Requests : request'[d].kind = "message" =>
                 request'[d] = request[d] /\ task'[d] = task[d]
          BY <1>1, <2>1, <2>2, <4>3, <4>4 DEF Moves
        <4>6. \A d \in Requests : At(d, "stopping") => At(d, "stopping")'
          BY <2>1 DEF Moves, At
        <4> QED
          BY <1>1, <4>2, <4>5, <4>6 DEF Apart
      <3>3. ASSUME NEW e \in Requests, Writing(e)' PROVE Wrote(e)'
        <4>1. Writing(e)
          BY <2>1, <3>3 DEF Writing, RunOf, Moves, InRun
        <4> QED
          BY <1>2, <3>1, <4>1
      <3> QED
        BY <3>2, <3>3 DEF AloneInv
    <2> QED
      BY <2>3, <2>4
  <1> QED
    BY <1>3, <1>4, <1>5 DEF TaskStep

\* The checkpoint routes keep AloneInv: a restore comes when nothing runs, and one that is
\* refused takes the mark of another back, which unmarked says.
LEMMA CheckpointAlone ==
  ASSUME LeaseInv, OrderInv, TaskInv, AloneInv, NEW c \in Requests, CheckpointStep(c)
  PROVE  AloneInv'
  <1>1. /\ UNCHANGED <<session, agent, task>> /\ request[c].pc # "stopping"
        /\ KindFits(request[c])
    BY CheckpointMoves DEF OrderInv
  <1>2. UNCHANGED messages => \A d \in Requests : Wrote(d) => Wrote(d)'
    BY DEF Wrote
  <1>3. \/ odd.unmarked
        \/ /\ \A e \in Requests : Restoring(e) => Apart(e)
           /\ \A e \in Requests : Writing(e) => Wrote(e)
    BY DEF AloneInv
  <1>4. ASSUME \/ odd'.unmarked
               \/ /\ \A e \in Requests : Restoring(e)' => Apart(e)'
                  /\ \A e \in Requests : Writing(e)' => Wrote(e)'
        PROVE  AloneInv'
    BY <1>4 DEF AloneInv
  <1>5. CASE CreateArrives(c) \/ RemoveArrives(c)
    <2>1. PICK kind \in {"create", "remove"}, pc \in {"capturing", "listing"} :
            Moves(c, kind, pc) /\ request[c].pc = "idle"
      BY <1>5, ArrivesMoves DEF CreateArrives, RemoveArrives
    <2>2. UNCHANGED messages /\ marks'.restoring = marks.restoring /\ UNCHANGED odd
      BY <1>5 DEF CreateArrives, RemoveArrives, LeaseInv, WorkspaceTypeOK
    <2> QED
      BY <1>1, <1>2, <2>1, <2>2, AloneKept
  <1>6. CASE RestoreArrives(c)
    <2>1. Moves(c, "restore", "finding") /\ request[c].pc = "idle"
      BY <1>6, ArrivesMoves DEF RestoreArrives
    <2>2. /\ UNCHANGED <<messages, odd>> /\ marks'.restoring
          /\ agent.running = Nobody /\ ~TaskRuns
      BY <1>6 DEF RestoreArrives, Quiet
    <2>3. \A d \in Requests : ~RunsNow(d)
      BY <2>2, WorkspaceAssumption DEF OrderInv
    <2>4. \A d \in Requests : ~RunOf(d) /\ ~At(d, "halting")
      BY <2>3 DEF RunOf, RunsNow, Runs, At, OrderInv, KindFits, InRun
    <2>5. \A d \in Requests : \/ task[d] \in {"none", "over"}
                              \/ task[d] = "stopping" /\ \E x \in Requests : At(x, "stopping")
      BY <2>2, <2>4 DEF TaskInv, TaskRuns, LeaseInv, WorkspaceTypeOK
    <2>6. \A x \in Requests : At(x, "stopping") => At(x, "stopping")'
      BY <2>1 DEF At, Moves
    <2>7. \A d \in Requests : request'[d].kind = "message" => request'[d].pc \notin InRun
      BY <2>1, <2>4 DEF RunOf, Moves
    <2>8. \A e \in Requests : Apart(e)'
      BY <1>1, <2>2, <2>5, <2>6, <2>7 DEF Apart
    <2>9. \A e \in Requests : ~Writing(e)'
      BY <2>7 DEF Writing, RunOf
    <2> QED
      BY <1>4, <2>8, <2>9
  <1>7. CASE RestoreRefused(c)
    <2>1. Moves(c, "restore", "done") /\ request[c].pc = "idle"
      BY <1>7, ArrivesMoves DEF RestoreRefused
    <2>2. UNCHANGED messages /\ (odd'.unmarked <=> odd.unmarked \/ marks.restoring)
      BY <1>7 DEF RestoreRefused, LeaseInv, WorkspaceTypeOK
    <2>3. \A e \in Requests : (Restoring(e)' => Restoring(e)) /\ (Writing(e)' => Writing(e))
      BY <2>1 DEF Restoring, Writing, RunOf, Moves
    <2>4. CASE ~odd'.unmarked
      <3>1. \A e \in Requests : ~Restoring(e)'
        BY <1>3, <2>2, <2>3, <2>4 DEF Apart
      <3>2. \A e \in Requests : Writing(e)' => Wrote(e)'
        BY <1>2, <1>3, <2>2, <2>3, <2>4
      <3> QED
        BY <1>4, <3>1, <3>2
    <2> QED
      BY <1>4, <2>4
  <1>8. CASE Captured(c) \/ Created(c) \/ CreateFails(c)
    <2>1. PICK pc \in {"listed", "turns", "done"} : Moves(c, request[c].kind, pc)
      <3>1. CASE Captured(c)
        BY <3>1 DEF Captured, Moves, At, LeaseInv, WorkspaceTypeOK
      <3>2. CASE (Created(c) \/ CreateFails(c)) /\ request[c].kind = "create"
        BY <3>2, EndsMoves DEF Created, CreateFails, AfterCreate
      <3>3. CASE (Created(c) \/ CreateFails(c)) /\ request[c].kind # "create"
        <4>1. PICK lease \in Leases : Goes(c, "turns", lease)
          BY <3>3, RecordIs DEF Created, CreateFails, AfterCreate, Downgraded, LeaseInv,
                                Record, Leases
        <4> QED
          BY <4>1, GoesMoves DEF Pcs, InRun
      <3> QED
        BY <1>8, <3>1, <3>2, <3>3
    <2>2. request[c].pc \in {"capturing", "listed"}
      BY <1>8 DEF Captured, Created, CreateFails, At
    <2>3. request[c].kind = "message" => RunOf(c) /\ Writing(c)
      BY <2>2 DEF RunOf, Writing, InRun
    <2>4. /\ UNCHANGED messages /\ marks'.restoring = marks.restoring
          /\ odd'.unmarked = odd.unmarked
      BY <1>8 DEF Captured, Created, CreateFails, AfterCreate, NoticeOverlap, LeaseInv,
                  WorkspaceTypeOK
    <2> QED
      BY <1>1, <1>2, <2>1, <2>3, <2>4, AloneKept
  <1>9. CASE RestoreFinds(c) \/ FilesRestored(c)
    <2>1. PICK pc \in {"restoring", "truncating", "closing"} : Moves(c, request[c].kind, pc)
      <3>1. CASE RestoreFinds(c)
        BY <3>1 DEF RestoreFinds, Moves, At, LeaseInv, WorkspaceTypeOK
      <3>2. CASE FilesRestored(c)
        BY <3>2, StaysMoves DEF FilesRestored, Pcs
      <3> QED
        BY <1>9, <3>1, <3>2
    <2>2. request[c].pc \in {"finding", "restoring"} /\ UNCHANGED <<messages, marks, odd>>
      BY <1>9 DEF RestoreFinds, FilesRestored, At
    <2>3. Restoring(c)
      BY <1>1, <2>2 DEF KindFits, Restoring
    <2> QED
      BY <1>1, <1>2, <2>1, <2>2, <2>3, AloneKept DEF Restoring
  <1>10. CASE MessagesRestored(c)
    <2>1. Moves(c, request[c].kind, "closing") /\ request[c].pc = "truncating"
      BY <1>10, StaysMoves DEF MessagesRestored, At, Pcs
    <2>2. UNCHANGED <<marks, odd>>
      BY <1>10 DEF MessagesRestored
    <2>3. Restoring(c)
      BY <1>1, <2>1 DEF KindFits, Restoring
    <2>4. CASE ~odd.unmarked
      <3>1. Apart(c)
        BY <1>3, <2>3, <2>4
      <3>2. \A e \in Requests : ~RunOf(e)
        BY <3>1 DEF Apart, RunOf
      <3>3. \A e \in Requests : ~Writing(e)'
        BY <2>1, <3>2 DEF Writing, RunOf, Moves, InRun
      <3>4. \A d \in Requests : request'[d].kind = request[d].kind
        BY <2>1 DEF Moves
      <3>5. \A d \in Requests : request'[d].pc \in InRun => request'[d].pc = request[d].pc
        BY <2>1 DEF Moves, InRun
      <3>6. \A x \in Requests : At(x, "stopping") => At(x, "stopping")'
        BY <2>1 DEF At, Moves
      <3>7. \A e \in Requests : Apart(e)'
        BY <1>1, <2>2, <3>1, <3>4, <3>5, <3>6 DEF Apart
      <3> QED
        BY <1>4, <3>3, <3>7
    <2> QED
      BY <1>4, <2>2, <2>4
  <1>11. CASE RestoreEnds(c)
    <2>1. Moves(c, request[c].kind, "done") /\ UNCHANGED <<messages, odd>>
      BY <1>11, EndsMoves DEF RestoreEnds
    <2>2. Restoring(c)
      BY <1>1, <1>11 DEF RestoreEnds, KindFits, Restoring
    <2>3. \A e \in Requests : Restoring(e)' => e # c /\ Restoring(e)
      BY <2>1 DEF Restoring, Moves
    <2>4. \A e \in Requests : Restoring(e) => Locks(e)
      BY DEF Restoring, Locks, Rewrites
    <2>5. \A e \in Requests : ~Restoring(e)'
      BY <2>2, <2>3, <2>4 DEF OrderInv
    <2>6. \A e \in Requests : Writing(e)' => Writing(e)
      BY <2>1 DEF Writing, RunOf, Moves, InRun
    <2> QED
      BY <1>2, <1>3, <1>4, <2>1, <2>5, <2>6
  <1>12. CASE RemoveLists(c) \/ RemoveEnds(c)
    <2>1. PICK pc \in {"striking", "done"} : Moves(c, request[c].kind, pc)
      <3>1. CASE RemoveLists(c)
        BY <3>1 DEF RemoveLists, Moves, At, LeaseInv, WorkspaceTypeOK
      <3>2. CASE RemoveEnds(c)
        BY <3>2, EndsMoves DEF RemoveEnds
      <3> QED
        BY <1>12, <3>1, <3>2
    <2>2. request[c].pc \in {"listing", "striking"}
      BY <1>12 DEF RemoveLists, RemoveEnds, At
    <2>3. request[c].kind = "remove"
      BY <1>1, <2>2 DEF KindFits
    <2>4. /\ UNCHANGED messages /\ marks'.restoring = marks.restoring
          /\ odd'.unmarked = odd.unmarked
      BY <1>12 DEF RemoveLists, RemoveEnds, NoticeOverlap, LeaseInv, WorkspaceTypeOK
    <2> QED
      BY <1>1, <1>2, <2>1, <2>3, <2>4, AloneKept
  <1> QED
    BY <1>5, <1>6, <1>7, <1>8, <1>9, <1>10, <1>11, <1>12 DEF CheckpointStep

\* The other routes keep AloneInv.
LEMMA OtherAlone ==
  ASSUME LeaseInv, OrderInv, TaskInv, AloneInv, NEW c \in Requests, OtherStep(c)
  PROVE  AloneInv'
  <1>1. PICK kind \in {request[c].kind, "sync", "file", "upload", "shell", "save", "delete"},
             pc \in Plain :
          Moves(c, kind, pc) /\ (kind = request[c].kind \/ request[c].pc = "idle")
    BY OtherMoves
  <1>2. UNCHANGED <<marks, odd>>
    BY OtherMoves
  <1>3. pc \notin InRun /\ pc \notin {"finding", "restoring", "truncating", "closing"}
    BY DEF Plain, InRun
  <1>4. UNCHANGED messages => \A d \in Requests : Wrote(d) => Wrote(d)'
    BY DEF Wrote
  <1>5. CASE ShellAppends(c)
    <2>1. \A d \in Requests : Wrote(d) => Wrote(d)'
      BY <1>5, Appended DEF ShellAppends, LeaseInv, WorkspaceTypeOK
    <2>2. UNCHANGED task /\ request[c].pc = "asking"
      BY <1>5 DEF ShellAppends, At
    <2> QED
      BY <1>1, <1>2, <1>3, <2>1, <2>2, AloneKept
  <1>6. CASE DeleteStopsTasks(c)
    <2>1. request[c].pc = "deleting" /\ request'[c].pc = "stopping"
      <3>1. PICK lease \in Leases : Goes(c, "stopping", lease)
        BY <1>6, LeasedIs DEF DeleteStopsTasks, Leases
      <3> QED
        BY <1>6, <3>1, GoesMoves DEF DeleteStopsTasks, At, Moves, Pcs
    <2>2. UNCHANGED messages
      BY <1>6 DEF DeleteStopsTasks
    <2>3. \A d \in Requests : task'[d] = task[d] \/ task'[d] = "stopping"
      BY <1>6 DEF DeleteStopsTasks
    <2>4. At(c, "stopping")'
      BY <2>1 DEF At
    <2> QED
      BY <1>1, <1>2, <1>3, <1>4, <2>1, <2>2, <2>3, <2>4, AloneKept
  <1>7. CASE DeleteTearsDown(c)
    <2>1. UNCHANGED <<task, messages>> /\ \A x \in Requests : task[x] # "stopping"
      BY <1>7 DEF DeleteTearsDown
    <2> QED
      BY <1>1, <1>2, <1>3, <1>4, <2>1, AloneKept
  <1>8. CASE ~ShellAppends(c) /\ ~DeleteStopsTasks(c) /\ ~DeleteTearsDown(c)
    <2>1. UNCHANGED <<task, messages>> /\ request[c].pc # "stopping"
      BY <1>8 DEF OtherStep, SyncArrives, FileArrives, UploadArrives, UploadConfigured, UseEnds,
                  ShellArrives, ShellEnds, SaveArrives, SaveEnds, DeleteArrives, DeleteFails,
                  Deleted, Arrives, At
    <2> QED
      BY <1>1, <1>2, <1>3, <1>4, <2>1, AloneKept
  <1> QED
    BY <1>5, <1>6, <1>7, <1>8

\* AloneInv is inductive, with those before it.
LEMMA AloneKeeps == LeaseInv /\ OrderInv /\ TaskInv /\ AloneInv /\ [Next]_vars => AloneInv'
  <1> SUFFICES ASSUME LeaseInv, OrderInv, TaskInv, AloneInv, [Next]_vars PROVE AloneInv'
    OBVIOUS
  <1>1. CASE UNCHANGED vars
    BY <1>1 DEF vars, AloneInv, Apart, Wrote, Writing, Restoring, RunOf, At
  <1>2. ASSUME NEW c \in Requests,
               RunStep(c) \/ TaskStep(c) \/ CheckpointStep(c) \/ OtherStep(c)
        PROVE  AloneInv'
    BY <1>2, RunAlone, TaskAlone, CheckpointAlone, OtherAlone
  <1> QED
    BY <1>1, <1>2, StepIs

\* TaskInv and AloneInv hold at first.
LEMMA AloneBegins == Init => TaskInv /\ AloneInv
  <1> SUFFICES ASSUME Init PROVE TaskInv /\ AloneInv
    OBVIOUS
  <1>1. \A c \in Requests : request[c].kind = "none" /\ task[c] = "none"
    BY DEF Init, Fresh
  <1> QED
    BY <1>1 DEF TaskInv, AloneInv, Restoring, Writing, RunOf

\* RestoreIsAlone (sessions-files.ts, the mark of a restore): unless the mark was taken back,
\* no message runs and no task of one is alive beside a restore, and no message is cut off.
THEOREM RestoresAreAlone == Spec => []RestoreIsAlone
  <1>1. AloneInv => RestoreIsAlone
    <2> SUFFICES ASSUME AloneInv, ~odd.unmarked PROVE RestoreIsAlone
      BY DEF RestoreIsAlone
    <2>1. \A c, d \in Requests : Restoring(c) =>
             /\ ~RunOf(d)
             /\ request[d].kind = "message" =>
                   task[d] \in {"none", "over"} \/ \E x \in Requests : At(x, "stopping")
      BY DEF AloneInv, Apart, RunOf
    <2>2. \A c \in Requests :
             RunOf(c) /\ ~(request[c].pc \in {"run", "prepared"}) => c \in ToSet(messages)
      BY DEF AloneInv, Writing, Wrote, ToSet
    <2> QED
      BY <2>1, <2>2 DEF RestoreIsAlone
  <1> QED
    BY LeaseStarts, LeaseKeeps, OrderBegins, OrderKeeps, AloneBegins, TasksKeep, AloneKeeps, <1>1,
       PTL DEF Spec

====
