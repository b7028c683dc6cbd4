------------------------- MODULE RunControl_claims --------------------------
(***************************************************************************)
(* What is proved of the session's run, its queue and its clients, for any *)
(* number of clients and items.                                            *)
(*                                                                         *)
(* First, type correctness and the exclusion of runs, `!cmd` and editor    *)
(* saves: TypeOK is inductive, each of its parts carried over a step by a  *)
(* lemma with one case per action.                                         *)
(*                                                                         *)
(* Then who holds an item.                                                 *)
(* ClaimsHeld, ClaimsExclusive and DeliveredOnce are not inductive: a step *)
(* preserves them only because of where the run stands and whose run it    *)
(* is.  ClaimInv says so step by step of the run, OneStarter says that a   *)
(* run belongs to one client, and together with TypeOK they are inductive. *)
(*                                                                         *)
(* The later sections prove what rests on them: a request that is sent     *)
(* again adds nothing, a cron prompt is not left behind, continuations are *)
(* bounded, and the queue implements DeliveryContract.                     *)
(***************************************************************************)
EXTENDS RunControl, FiniteSetTheorems, TLAPS

\* The items of the file are numbered 1..MaxItems.
LEMMA ItemsBounded ==
    ASSUME QueueTypeOK, NEW i \in DOMAIN queue
    PROVE  /\ i \in ItemIds
           /\ queue[i] \in QueueItem
<1>1. /\ queue \in Seq(QueueItem)
      /\ Len(queue) \in Nat
      /\ Len(queue) <= MaxItems
      /\ DOMAIN queue = 1..Len(queue)
  BY DEF QueueTypeOK
<1> QED  BY <1>1, MaxItemsAssumption DEF ItemIds

\* mutate() changes the status of one item and nothing else.
LEMMA SetStatusEffect ==
    ASSUME QueueTypeOK,
           NEW i, NEW from, NEW to \in Statuses,
           SetStatus(i, from, to)
    PROVE  /\ QueueTypeOK'
           /\ DOMAIN queue' = DOMAIN queue
           /\ i \in DOMAIN queue
           /\ queue[i].status = from
           /\ queue'[i].status = to
           /\ \A j \in DOMAIN queue : j # i => queue'[j] = queue[j]
<1>1. /\ i \in DOMAIN queue
      /\ queue[i].status = from
      /\ queue' = [queue EXCEPT ![i].status = to]
  BY DEF SetStatus
<1>2. queue[i] \in QueueItem
  BY <1>1, ItemsBounded
<1>3. [queue[i] EXCEPT !.status = to] \in QueueItem
  BY <1>2 DEF QueueItem
<1>4. queue' \in Seq(QueueItem) /\ Len(queue') = Len(queue)
  BY <1>1, <1>3 DEF QueueTypeOK
<1> QED
  BY <1>1, <1>2, <1>4 DEF QueueTypeOK, QueueItem

\* enqueue() changes no item; what it adds is queued.
LEMMA EnqueueEffect ==
    ASSUME QueueTypeOK,
           NEW kind \in Kinds, NEW req \in Requests \cup {NoRequest},
           NEW source \in Sources,
           Enqueue(kind, req, source)
    PROVE  /\ QueueTypeOK'
           /\ DOMAIN queue \subseteq DOMAIN queue'
           /\ \A j \in DOMAIN queue : queue'[j] = queue[j]
           /\ \A j \in DOMAIN queue' \ DOMAIN queue : queue'[j].status = "queued"
<1>1. CASE UNCHANGED queue
  BY <1>1 DEF QueueTypeOK
<1>2. CASE /\ Len(queue) < MaxItems
           /\ queue' = Append(queue, [kind |-> kind, status |-> "queued",
                                      requestId |-> req, source |-> source])
  <2> DEFINE item == [kind |-> kind, status |-> "queued",
                      requestId |-> req, source |-> source]
  <2>1. item \in QueueItem
    BY DEF QueueItem, Statuses
  <2> HIDE DEF item
  <2>2. queue \in Seq(QueueItem) /\ queue' = Append(queue, item)
    BY <1>2 DEF QueueTypeOK, item
  <2>3. /\ queue' \in Seq(QueueItem)
        /\ Len(queue') = Len(queue) + 1
        /\ \A j \in 1..Len(queue) : queue'[j] = queue[j]
        /\ queue'[Len(queue) + 1] = item
    BY <2>1, <2>2
  <2>4. Len(queue) \in Nat /\ Len(queue') \in Nat /\ DOMAIN queue = 1..Len(queue) /\ DOMAIN queue' = 1..Len(queue')
    BY <2>2, <2>3
  <2>5. item.status = "queued"
    BY DEF item
  <2> QED
    BY <1>2, <2>3, <2>4, <2>5, MaxItemsAssumption DEF QueueTypeOK
<1> QED  BY <1>1, <1>2 DEF Enqueue

\* Only callers have mutations under way.
LEMMA WritingType == Writing \subseteq Callers
BY DEF Writing, Callers

\* The order of the calls keeps its type.
LEMMA CallsType ==
    ASSUME RequestsOK, NEW done, NEW callers, Calls(done, callers)
    PROVE  ahead' \in [Callers -> SUBSET Callers]
BY WritingType DEF Calls, RequestsOK

\* A starter that only moves on keeps its type.
LEMMA StarterSet ==
    ASSUME RequestsOK, NEW c \in Clients, NEW step \in StarterPC
    PROVE  [starter EXCEPT ![c].pc = step] \in [Clients -> Start]
<1>1. starter[c] \in Start
  BY DEF RequestsOK
<1>2. [starter[c] EXCEPT !.pc = step] \in Start
  BY <1>1 DEF Start
<1> QED
  BY <1>1, <1>2 DEF RequestsOK

\* A request that only moves on keeps its type.
LEMMA ClientSet ==
    ASSUME RequestsOK, NEW c \in Clients, NEW step \in ClientPC
    PROVE  [client EXCEPT ![c].pc = step] \in [Clients -> RequestInFlight]
<1>1. client[c] \in RequestInFlight
  BY DEF RequestsOK
<1>2. [client[c] EXCEPT !.pc = step] \in RequestInFlight
  BY <1>1 DEF RequestInFlight
<1> QED
  BY <1>1, <1>2 DEF RequestsOK

\* What a client has when nothing is in flight has the right type.
LEMMA Resting == NoStart \in Start /\ NoRequestInFlight \in RequestInFlight
BY DEF NoStart, NoRequestInFlight, Start, RequestInFlight, StarterPC, ClientPC,
   Kinds

\* The initial states are well typed.
LEMMA InitType == Init => TypeOK
<1> SUFFICES ASSUME Init PROVE TypeOK
  OBVIOUS
<1>1. QueueTypeOK
  BY MaxItemsAssumption DEF Init, QueueInit, QueueTypeOK
<1>2. FlagsOK
  BY Zenon DEF Init, FlagsOK
<1>3. LoopOK
  BY LimitAssumption DEF Init, LoopOK, RunPC, Outcomes
<1>4. RequestsOK
  BY Resting DEF Init, RequestsOK
<1>5. CountsOK
  BY LimitAssumption DEF Init, CountsOK
<1> QED
  BY <1>1, <1>2, <1>3, <1>4, <1>5 DEF TypeOK

\* A PATCH of the kind keeps the queue well typed.
LEMMA UpdateType ==
    ASSUME QueueTypeOK, NEW i, NEW kind \in Kinds, Update(i, kind)
    PROVE  QueueTypeOK'
<1>1. i \in DOMAIN queue /\ queue' = [queue EXCEPT ![i].kind = kind]
  BY DEF Update
<1>2. queue[i] \in QueueItem
  BY <1>1, ItemsBounded
<1>3. [queue[i] EXCEPT !.kind = kind] \in QueueItem
  BY <1>2 DEF QueueItem
<1>4. queue' \in Seq(QueueItem) /\ Len(queue') = Len(queue)
  BY <1>1, <1>3 DEF QueueTypeOK
<1> QED
  BY <1>4 DEF QueueTypeOK

\* What the operations of the queue do, whoever calls them.
LEMMA QueueOperations ==
    ASSUME QueueTypeOK
    PROVE  /\ UNCHANGED queue => QueueTypeOK'
           /\ \A kind, i : Take(kind, i) => QueueTypeOK'
           /\ \A i : Apply(i) \/ Requeue(i) \/ Cancel(i) => QueueTypeOK'
<1>1. \A i, from : \A to \in Statuses : SetStatus(i, from, to) => QueueTypeOK'
  BY SetStatusEffect
<1>2. UNCHANGED queue => QueueTypeOK'
  BY DEF QueueTypeOK
<1> QED
  BY <1>1, <1>2 DEF Take, Apply, Requeue, Cancel, Statuses

\* A step keeps the types of the flags.
LEMMA FlagsStep == TypeOK /\ [Next]_vars => FlagsOK'
<1> SUFFICES ASSUME TypeOK, [Next]_vars PROVE FlagsOK'
  OBVIOUS
<1> USE DEF FlagsOK, TypeOK, Goto, CallAt, Throw, NotSteered, StartRun, Direct,
            Dismiss, StarterCalls, Answer, Request, AppendText, runVars,
            directVars, seenVars, faultVars, Rest, NoFault, Fault, FaultOr,
            NoCall
<1>1. CASE AppendTrigger
  BY <1>1, Zenon DEF AppendTrigger
<1>2. CASE ApplyFollowUp
  BY <1>2, Zenon DEF ApplyFollowUp
<1>3. CASE BeginTurn
  BY <1>3, Zenon DEF BeginTurn
<1>4. CASE FinishTurn
  BY <1>4, Zenon DEF FinishTurn
<1>5. CASE SteerTake
  BY <1>5, Zenon DEF SteerTake
<1>6. CASE SteerAppend
  BY <1>6, Zenon DEF SteerAppend
<1>7. CASE SteerApply
  BY <1>7, Zenon DEF SteerApply
<1>8. CASE SteerRequeue
  BY <1>8, Zenon DEF SteerRequeue
<1>9. CASE Settle
  BY <1>9, Zenon DEF Settle
<1>10. CASE Commit
  BY <1>10, Zenon DEF Commit
<1>11. CASE Catch
  BY <1>11, Zenon DEF Catch
<1>12. CASE Cleanup
  BY <1>12, Zenon DEF Cleanup
<1>13. CASE Goal
  BY <1>13, Zenon DEF Goal
<1>14. CASE GoalList
  BY <1>14, Zenon DEF GoalList
<1>15. CASE GoalEnqueue
  BY <1>15, Zenon DEF GoalEnqueue
<1>16. CASE EndRun
  BY <1>16, Zenon DEF EndRun
<1>17. CASE \E c \in Clients : PostStart(c)
  BY <1>17, Zenon DEF PostStart
<1>18. CASE \E c \in Clients : CronFire(c)
  BY <1>18, Zenon DEF CronFire
<1>19. CASE \E c \in Clients : Launch(c)
  BY <1>19, Zenon DEF Launch
<1>20. CASE \E c \in Clients : ListQueue(c)
  BY <1>20, Zenon DEF ListQueue
<1>21. CASE \E c \in Clients : EnqueueItem(c)
  BY <1>21, Zenon DEF EnqueueItem
<1>22. CASE \E c \in Clients : FinishRecord(c)
  BY <1>22, Zenon DEF FinishRecord
<1>23. CASE \E c \in Clients : ListFollowUps(c)
  BY <1>23, Zenon DEF ListFollowUps
<1>24. CASE \E c \in Clients : TakeFollowUp(c)
  BY <1>24, Zenon DEF TakeFollowUp
<1>25. CASE \E c \in Clients : RequeueFollowUp(c)
  BY <1>25, Zenon DEF RequeueFollowUp
<1>26. CASE \E c \in Clients, req \in Requests \cup {NoRequest} : PostSteer(c, req)
  BY <1>26, Zenon DEF PostSteer
<1>27. CASE \E c \in Clients, req \in Requests \cup {NoRequest} : PostFollowUp(c, req)
  BY <1>27, Zenon DEF PostFollowUp
<1>28. CASE EditQueue
  BY <1>28, Zenon DEF EditQueue, CancelItem, UpdateItem
<1>29. CASE Abort
  BY <1>29, Zenon DEF Abort
<1>30. CASE DirectStep \/ MoveBoundary
  BY <1>30, Zenon DEF DirectStep, MoveBoundary, BeginShell, EndShell, BeginSave, EndSave
<1>31. CASE Crash
  BY <1>31, Zenon DEF Crash
<1>32. CASE UNCHANGED vars
  BY <1>32, Zenon DEF vars
<1> QED
  BY <1>1, <1>2, <1>3, <1>4, <1>5, <1>6, <1>7, <1>8, <1>9, <1>10, <1>11,
     <1>12, <1>13, <1>14, <1>15, <1>16, <1>17, <1>18, <1>19, <1>20, <1>21,
     <1>22, <1>23, <1>24, <1>25, <1>26, <1>27, <1>28, <1>29, <1>30, <1>31,
     <1>32
  DEF Next, RunStep, Post, ClientStep, StarterStep

\* A step keeps the types of the run: turn stays within the limit.
LEMMA LoopStep == TypeOK /\ [Next]_vars => LoopOK'
<1> SUFFICES ASSUME TypeOK, [Next]_vars PROVE LoopOK'
  OBVIOUS
<1> USE DEF LoopOK, TypeOK, Goto, CallAt, Throw, NotSteered, StartRun, Direct,
            Dismiss, StarterCalls, Answer, Request, AppendText, runVars,
            directVars, seenVars, faultVars, Rest, NoFault, Fault, FaultOr,
            NoCall, RunPC, Outcomes
<1>1. CASE AppendTrigger
  BY <1>1 DEF AppendTrigger
<1>2. CASE ApplyFollowUp
  BY <1>2 DEF ApplyFollowUp
<1>3. CASE BeginTurn
  BY <1>3, LimitAssumption DEF BeginTurn
<1>4. CASE FinishTurn
  BY <1>4 DEF FinishTurn
<1>5. CASE SteerTake
  BY <1>5 DEF SteerTake
<1>6. CASE SteerAppend
  BY <1>6 DEF SteerAppend
<1>7. CASE SteerApply
  BY <1>7 DEF SteerApply
<1>8. CASE SteerRequeue
  BY <1>8 DEF SteerRequeue
<1>9. CASE Settle
  BY <1>9 DEF Settle
<1>10. CASE Commit
  BY <1>10 DEF Commit
<1>11. CASE Catch
  BY <1>11 DEF Catch
<1>12. CASE Cleanup
  BY <1>12 DEF Cleanup
<1>13. CASE Goal
  BY <1>13 DEF Goal
<1>14. CASE GoalList
  BY <1>14 DEF GoalList
<1>15. CASE GoalEnqueue
  BY <1>15 DEF GoalEnqueue
<1>16. CASE EndRun
  BY <1>16, LimitAssumption DEF EndRun
<1>17. CASE \E c \in Clients : PostStart(c)
  BY <1>17 DEF PostStart
<1>18. CASE \E c \in Clients : CronFire(c)
  BY <1>18 DEF CronFire
<1>19. CASE \E c \in Clients : Launch(c)
  BY <1>19, LimitAssumption DEF Launch
<1>20. CASE \E c \in Clients : ListQueue(c)
  BY <1>20 DEF ListQueue
<1>21. CASE \E c \in Clients : EnqueueItem(c)
  BY <1>21 DEF EnqueueItem
<1>22. CASE \E c \in Clients : FinishRecord(c)
  BY <1>22 DEF FinishRecord
<1>23. CASE \E c \in Clients : ListFollowUps(c)
  BY <1>23 DEF ListFollowUps
<1>24. CASE \E c \in Clients : TakeFollowUp(c)
  BY <1>24, LimitAssumption DEF TakeFollowUp
<1>25. CASE \E c \in Clients : RequeueFollowUp(c)
  BY <1>25 DEF RequeueFollowUp
<1>26. CASE \E c \in Clients, req \in Requests \cup {NoRequest} : PostSteer(c, req)
  BY <1>26 DEF PostSteer
<1>27. CASE \E c \in Clients, req \in Requests \cup {NoRequest} : PostFollowUp(c, req)
  BY <1>27 DEF PostFollowUp
<1>28. CASE EditQueue
  BY <1>28 DEF EditQueue, CancelItem, UpdateItem
<1>29. CASE Abort
  BY <1>29 DEF Abort
<1>30. CASE DirectStep \/ MoveBoundary
  BY <1>30 DEF DirectStep, MoveBoundary, BeginShell, EndShell, BeginSave, EndSave
<1>31. CASE Crash
  BY <1>31, LimitAssumption DEF Crash
<1>32. CASE UNCHANGED vars
  BY <1>32 DEF vars
<1> QED
  BY <1>1, <1>2, <1>3, <1>4, <1>5, <1>6, <1>7, <1>8, <1>9, <1>10, <1>11,
     <1>12, <1>13, <1>14, <1>15, <1>16, <1>17, <1>18, <1>19, <1>20, <1>21,
     <1>22, <1>23, <1>24, <1>25, <1>26, <1>27, <1>28, <1>29, <1>30, <1>31,
     <1>32
  DEF Next, RunStep, Post, ClientStep, StarterStep

\* A step keeps the types of requests, starters and the order of calls.
LEMMA RequestsStep == TypeOK /\ [Next]_vars => RequestsOK'
<1> SUFFICES ASSUME TypeOK, [Next]_vars 
             PROVE  /\ client' \in [Clients -> RequestInFlight]
                    /\ starter' \in [Clients -> Start]
                    /\ ahead' \in [Callers -> SUBSET Callers]
  BY DEF RequestsOK
<1> USE DEF TypeOK, Goto, CallAt, Throw, NotSteered, StartRun, Direct, Dismiss,
            StarterCalls, Answer, Request, Rest, runVars, directVars, NoCall
<1>0. /\ client \in [Clients -> RequestInFlight]
      /\ starter \in [Clients -> Start]
      /\ ahead \in [Callers -> SUBSET Callers]
      /\ RequestsOK /\ owner \in Clients
  BY DEF RequestsOK, LoopOK
<1>1. CASE AppendTrigger
  BY <1>1, <1>0, CallsType, Resting DEF AppendTrigger
<1>2. CASE ApplyFollowUp
  BY <1>2, <1>0, CallsType, Resting DEF ApplyFollowUp
<1>3. CASE BeginTurn
  BY <1>3, <1>0, CallsType, Resting DEF BeginTurn
<1>4. CASE FinishTurn
  BY <1>4, <1>0, CallsType, Resting DEF FinishTurn
<1>5. CASE SteerTake
  BY <1>5, <1>0, CallsType, Resting DEF SteerTake
<1>6. CASE SteerAppend
  BY <1>6, <1>0, CallsType, Resting DEF SteerAppend
<1>7. CASE SteerApply
  BY <1>7, <1>0, CallsType, Resting DEF SteerApply
<1>8. CASE SteerRequeue
  BY <1>8, <1>0, CallsType, Resting DEF SteerRequeue
<1>9. CASE Settle
  BY <1>9, <1>0, CallsType, Resting DEF Settle
<1>10. CASE Commit
  BY <1>10, <1>0, CallsType, Resting DEF Commit
<1>11. CASE Catch
  BY <1>11, <1>0, CallsType, Resting DEF Catch
<1>12. CASE Cleanup
  BY <1>12, <1>0, CallsType, Resting DEF Cleanup
<1>13. CASE Goal
  BY <1>13, <1>0, CallsType, Resting DEF Goal
<1>14. CASE GoalList
  BY <1>14, <1>0, CallsType, Resting DEF GoalList
<1>15. CASE GoalEnqueue
  BY <1>15, <1>0, CallsType, Resting DEF GoalEnqueue
<1>16. CASE EndRun
  <2>1. \A step \in StarterPC :
          /\ [starter EXCEPT ![owner].pc = step] \in [Clients -> Start]
          /\ [pc |-> step, item |-> NoItem] \in Start
    BY <1>0, StarterSet DEF Start
  <2>2. starter' \in [Clients -> Start]
    BY <1>16, <1>0, <2>1, Resting DEF EndRun, StarterPC
  <2> QED
    BY <1>16, <1>0, <2>2, CallsType DEF EndRun
<1>17. CASE \E c \in Clients : PostStart(c)
  BY <1>17, <1>0, CallsType, Resting
  DEF PostStart, RequestInFlight, ClientPC, Kinds
<1>18. CASE \E c \in Clients : CronFire(c)
  BY <1>18, <1>0, CallsType, Resting
  DEF CronFire, RequestInFlight, ClientPC, Kinds
<1>19. CASE \E c \in Clients : Launch(c)
  <2>1. PICK c \in Clients : Launch(c)
    BY <1>19
  <2>2. \A step \in StarterPC : [starter EXCEPT ![c].pc = step] \in [Clients -> Start]
    BY <1>0, StarterSet
  <2>3. starter' \in [Clients -> Start]
    BY <1>0, <2>1, <2>2, Resting DEF Launch, StarterPC
  <2> QED
    BY <1>0, <2>1, <2>3, CallsType, Resting DEF Launch
<1>20. CASE \E c \in Clients : ListQueue(c)
  <2>1. PICK c \in Clients : ListQueue(c)
    BY <1>20
  <2>2. \A step \in ClientPC : [client EXCEPT ![c].pc = step] \in [Clients -> RequestInFlight]
    BY <1>0, ClientSet
  <2>3. client' \in [Clients -> RequestInFlight]
    BY <1>0, <2>1, <2>2, Resting DEF ListQueue, ClientPC
  <2> QED
    BY <1>0, <2>1, <2>3, CallsType DEF ListQueue
<1>21. CASE \E c \in Clients : EnqueueItem(c)
  <2>1. PICK c \in Clients : EnqueueItem(c)
    BY <1>21
  <2>2. \A step \in StarterPC : [starter EXCEPT ![c].pc = step] \in [Clients -> Start]
    BY <1>0, StarterSet
  <2>3. starter' \in [Clients -> Start]
    BY <1>0, <2>1, <2>2, Resting DEF EnqueueItem, StarterPC
  <2> QED
    BY <1>0, <2>1, <2>3, CallsType, Resting DEF EnqueueItem
<1>22. CASE \E c \in Clients : FinishRecord(c)
  <2>1. PICK c \in Clients : FinishRecord(c)
    BY <1>22
  <2>2. \A step \in StarterPC : [starter EXCEPT ![c].pc = step] \in [Clients -> Start]
    BY <1>0, StarterSet
  <2>3. starter' \in [Clients -> Start]
    BY <1>0, <2>1, <2>2, Resting DEF FinishRecord, StarterPC
  <2> QED
    BY <1>0, <2>1, <2>3, CallsType, Resting DEF FinishRecord
<1>23. CASE \E c \in Clients : ListFollowUps(c)
  <2>1. PICK c \in Clients : ListFollowUps(c)
    BY <1>23
  <2>2. \A step \in StarterPC : [starter EXCEPT ![c].pc = step] \in [Clients -> Start]
    BY <1>0, StarterSet
  <2>3. starter' \in [Clients -> Start]
    BY <1>0, <2>1, <2>2, Resting DEF ListFollowUps, StarterPC
  <2> QED
    BY <1>0, <2>1, <2>3, CallsType, Resting DEF ListFollowUps
<1>24. CASE \E c \in Clients : TakeFollowUp(c)
  <2>1. PICK c \in Clients : TakeFollowUp(c)
    BY <1>24
  <2>2. \A step \in StarterPC : [starter EXCEPT ![c].pc = step] \in [Clients -> Start]
    BY <1>0, StarterSet
  <2>3. starter' \in [Clients -> Start]
    BY <1>0, <2>1, <2>2, Resting DEF TakeFollowUp, StarterPC, Start
  <2> QED
    BY <1>0, <2>1, <2>3, CallsType, Resting DEF TakeFollowUp, Start
<1>25. CASE \E c \in Clients : RequeueFollowUp(c)
  <2>1. PICK c \in Clients : RequeueFollowUp(c)
    BY <1>25
  <2>2. \A step \in StarterPC : [starter EXCEPT ![c].pc = step] \in [Clients -> Start]
    BY <1>0, StarterSet
  <2>3. starter' \in [Clients -> Start]
    BY <1>0, <2>1, <2>2, Resting DEF RequeueFollowUp, StarterPC
  <2> QED
    BY <1>0, <2>1, <2>3, CallsType, Resting DEF RequeueFollowUp
<1>26. CASE \E c \in Clients, req \in Requests \cup {NoRequest} : PostSteer(c, req)
  BY <1>26, <1>0, CallsType, Resting
  DEF PostSteer, RequestInFlight, ClientPC, Kinds
<1>27. CASE \E c \in Clients, req \in Requests \cup {NoRequest} : PostFollowUp(c, req)
  BY <1>27, <1>0, CallsType, Resting
  DEF PostFollowUp, RequestInFlight, ClientPC, Kinds
<1>28. CASE EditQueue
  BY <1>28, <1>0 DEF EditQueue, CancelItem, UpdateItem
<1>29. CASE Abort
  BY <1>29, <1>0 DEF Abort
<1>30. CASE DirectStep \/ MoveBoundary
  BY <1>30, <1>0 DEF DirectStep, MoveBoundary, BeginShell, EndShell, BeginSave, EndSave
<1>31. CASE Crash
  BY <1>31, <1>0, CallsType, Resting DEF Crash
<1>32. CASE UNCHANGED vars
  BY <1>32, <1>0 DEF vars
<1> QED
  BY <1>1, <1>2, <1>3, <1>4, <1>5, <1>6, <1>7, <1>8, <1>9, <1>10, <1>11,
     <1>12, <1>13, <1>14, <1>15, <1>16, <1>17, <1>18, <1>19, <1>20, <1>21,
     <1>22, <1>23, <1>24, <1>25, <1>26, <1>27, <1>28, <1>29, <1>30, <1>31,
     <1>32
  DEF Next, RunStep, Post, ClientStep, StarterStep

\* A step keeps the types of the counters and of their bounds.
LEMMA CountsStep == TypeOK /\ [Next]_vars => CountsOK'
<1> SUFFICES ASSUME TypeOK, [Next]_vars PROVE CountsOK'
  OBVIOUS
<1> USE DEF CountsOK, LoopOK, TypeOK, Goto, CallAt, Throw, NotSteered,
            StartRun, Direct, Dismiss, StarterCalls, Answer, Request,
            AppendText, runVars, directVars, seenVars, faultVars, Rest,
            NoFault, Fault, FaultOr, NoCall
<1>1. CASE AppendTrigger
  BY <1>1, LimitAssumption DEF AppendTrigger
<1>2. CASE ApplyFollowUp
  BY <1>2, LimitAssumption DEF ApplyFollowUp
<1>3. CASE BeginTurn
  BY <1>3, LimitAssumption DEF BeginTurn
<1>4. CASE FinishTurn
  BY <1>4, LimitAssumption DEF FinishTurn
<1>5. CASE SteerTake
  BY <1>5, LimitAssumption DEF SteerTake
<1>6. CASE SteerAppend
  BY <1>6, LimitAssumption DEF SteerAppend
<1>7. CASE SteerApply
  BY <1>7, LimitAssumption DEF SteerApply
<1>8. CASE SteerRequeue
  BY <1>8, LimitAssumption DEF SteerRequeue
<1>9. CASE Settle
  BY <1>9, LimitAssumption DEF Settle
<1>10. CASE Commit
  BY <1>10, LimitAssumption DEF Commit
<1>11. CASE Catch
  BY <1>11, LimitAssumption DEF Catch
<1>12. CASE Cleanup
  BY <1>12, LimitAssumption DEF Cleanup
<1>13. CASE Goal
  BY <1>13, LimitAssumption DEF Goal
<1>14. CASE GoalList
  BY <1>14, LimitAssumption DEF GoalList
<1>15. CASE GoalEnqueue
  BY <1>15, LimitAssumption DEF GoalEnqueue
<1>16. CASE EndRun
  BY <1>16, LimitAssumption DEF EndRun
<1>17. CASE \E c \in Clients : PostStart(c)
  BY <1>17, LimitAssumption DEF PostStart
<1>18. CASE \E c \in Clients : CronFire(c)
  BY <1>18, LimitAssumption DEF CronFire
<1>19. CASE \E c \in Clients : Launch(c)
  BY <1>19, LimitAssumption DEF Launch
<1>20. CASE \E c \in Clients : ListQueue(c)
  BY <1>20, LimitAssumption DEF ListQueue
<1>21. CASE \E c \in Clients : EnqueueItem(c)
  BY <1>21, LimitAssumption DEF EnqueueItem
<1>22. CASE \E c \in Clients : FinishRecord(c)
  BY <1>22, LimitAssumption DEF FinishRecord
<1>23. CASE \E c \in Clients : ListFollowUps(c)
  BY <1>23, LimitAssumption DEF ListFollowUps
<1>24. CASE \E c \in Clients : TakeFollowUp(c)
  BY <1>24, LimitAssumption DEF TakeFollowUp
<1>25. CASE \E c \in Clients : RequeueFollowUp(c)
  BY <1>25, LimitAssumption DEF RequeueFollowUp
<1>26. CASE \E c \in Clients, req \in Requests \cup {NoRequest} : PostSteer(c, req)
  BY <1>26 DEF PostSteer
<1>27. CASE \E c \in Clients, req \in Requests \cup {NoRequest} : PostFollowUp(c, req)
  BY <1>27 DEF PostFollowUp
<1>28. CASE EditQueue
  BY <1>28 DEF EditQueue, CancelItem, UpdateItem
<1>29. CASE Abort
  BY <1>29 DEF Abort
<1>30. CASE DirectStep \/ MoveBoundary
  BY <1>30 DEF DirectStep, MoveBoundary, BeginShell, EndShell, BeginSave, EndSave
<1>31. CASE Crash
  BY <1>31, LimitAssumption DEF Crash
<1>32. CASE UNCHANGED vars
  BY <1>32 DEF vars
<1> QED
  BY <1>1, <1>2, <1>3, <1>4, <1>5, <1>6, <1>7, <1>8, <1>9, <1>10, <1>11,
     <1>12, <1>13, <1>14, <1>15, <1>16, <1>17, <1>18, <1>19, <1>20, <1>21,
     <1>22, <1>23, <1>24, <1>25, <1>26, <1>27, <1>28, <1>29, <1>30, <1>31,
     <1>32
  DEF Next, RunStep, Post, ClientStep, StarterStep

\* A step keeps the queue well typed and within MaxItems.
LEMMA QueueStep == TypeOK /\ [Next]_vars => QueueTypeOK'
<1> SUFFICES ASSUME TypeOK, [Next]_vars PROVE QueueTypeOK'
  OBVIOUS
<1> USE DEF Goto, Rest, runVars, directVars, NoCall
<1>0. QueueTypeOK /\ RequestsOK
  BY DEF TypeOK
<1>1. CASE AppendTrigger
  BY <1>1, <1>0, QueueOperations DEF AppendTrigger
<1>2. CASE ApplyFollowUp
  BY <1>2, <1>0, QueueOperations DEF ApplyFollowUp
<1>3. CASE BeginTurn
  BY <1>3, <1>0, QueueOperations DEF BeginTurn
<1>4. CASE FinishTurn
  BY <1>4, <1>0, QueueOperations DEF FinishTurn
<1>5. CASE SteerTake
  BY <1>5, <1>0, QueueOperations DEF SteerTake
<1>6. CASE SteerAppend
  BY <1>6, <1>0, QueueOperations DEF SteerAppend
<1>7. CASE SteerApply
  BY <1>7, <1>0, QueueOperations DEF SteerApply
<1>8. CASE SteerRequeue
  BY <1>8, <1>0, QueueOperations DEF SteerRequeue
<1>9. CASE Settle
  BY <1>9, <1>0, QueueOperations DEF Settle
<1>10. CASE Commit
  BY <1>10, <1>0, QueueOperations DEF Commit
<1>11. CASE Catch
  BY <1>11, <1>0, QueueOperations DEF Catch
<1>12. CASE Cleanup
  BY <1>12, <1>0, QueueOperations DEF Cleanup
<1>13. CASE Goal
  BY <1>13, <1>0, QueueOperations DEF Goal
<1>14. CASE GoalList
  BY <1>14, <1>0, QueueOperations DEF GoalList
<1>15. CASE GoalEnqueue
  BY <1>15, <1>0, QueueOperations, EnqueueEffect
  DEF GoalEnqueue, Kinds, Sources
<1>16. CASE EndRun
  BY <1>16, <1>0, QueueOperations DEF EndRun
<1>17. CASE \E c \in Clients : PostStart(c)
  BY <1>17, <1>0, QueueOperations DEF PostStart
<1>18. CASE \E c \in Clients : CronFire(c)
  BY <1>18, <1>0, QueueOperations DEF CronFire
<1>19. CASE \E c \in Clients : Launch(c)
  BY <1>19, <1>0, QueueOperations DEF Launch
<1>20. CASE \E c \in Clients : ListQueue(c)
  BY <1>20, <1>0, QueueOperations DEF ListQueue
<1>21. CASE \E c \in Clients : EnqueueItem(c)
  <2>1. PICK c \in Clients : EnqueueItem(c)
    BY <1>21
  <2>2. client[c] \in RequestInFlight
    BY <1>0 DEF RequestsOK
  <2>3. CASE Enqueue(client[c].kind, client[c].requestId, client[c].source)
    BY <1>0, <2>2, <2>3, EnqueueEffect DEF RequestInFlight, Sources
  <2>4. CASE UNCHANGED queue
    BY <1>0, <2>4, QueueOperations
  <2> QED
    BY <2>1, <2>3, <2>4 DEF EnqueueItem
<1>22. CASE \E c \in Clients : FinishRecord(c)
  BY <1>22, <1>0, QueueOperations DEF FinishRecord
<1>23. CASE \E c \in Clients : ListFollowUps(c)
  BY <1>23, <1>0, QueueOperations DEF ListFollowUps
<1>24. CASE \E c \in Clients : TakeFollowUp(c)
  BY <1>24, <1>0, QueueOperations DEF TakeFollowUp
<1>25. CASE \E c \in Clients : RequeueFollowUp(c)
  BY <1>25, <1>0, QueueOperations DEF RequeueFollowUp
<1>26. CASE \E c \in Clients, req \in Requests \cup {NoRequest} : PostSteer(c, req)
  BY <1>26, <1>0, QueueOperations DEF PostSteer
<1>27. CASE \E c \in Clients, req \in Requests \cup {NoRequest} : PostFollowUp(c, req)
  BY <1>27, <1>0, QueueOperations DEF PostFollowUp
<1>28. CASE EditQueue
  BY <1>28, <1>0, QueueOperations, UpdateType
  DEF EditQueue, CancelItem, UpdateItem
<1>29. CASE Abort
  BY <1>29, <1>0, QueueOperations DEF Abort
<1>30. CASE DirectStep \/ MoveBoundary
  BY <1>30, <1>0, QueueOperations
  DEF DirectStep, MoveBoundary, BeginShell, EndShell, BeginSave, EndSave, Direct
<1>31. CASE Crash
  BY <1>31, <1>0, QueueOperations DEF Crash
<1>32. CASE UNCHANGED vars
  BY <1>32, <1>0, QueueOperations DEF vars
<1> QED
  BY <1>1, <1>2, <1>3, <1>4, <1>5, <1>6, <1>7, <1>8, <1>9, <1>10, <1>11,
     <1>12, <1>13, <1>14, <1>15, <1>16, <1>17, <1>18, <1>19, <1>20, <1>21,
     <1>22, <1>23, <1>24, <1>25, <1>26, <1>27, <1>28, <1>29, <1>30, <1>31,
     <1>32
  DEF Next, RunStep, Post, ClientStep, StarterStep

\* TypeOK is an invariant: every variable keeps its type in every behaviour.
THEOREM TypeCorrect == Spec => []TypeOK
<1>1. TypeOK /\ [Next]_vars => TypeOK'
  BY FlagsStep, LoopStep, RequestsStep, CountsStep, QueueStep DEF TypeOK
<1> QED
  BY <1>1, InitType, PTL DEF Spec

\* RunExclusive: whatever the number of clients, a run, a `!cmd` and an editor
\* save share the session only as the guards of run(), runShell() and
\* writeWorkspaceFile() allow.
THEOREM RunsAreExclusive == Spec => []RunExclusive
<1>1. Init => RunExclusive
  BY DEF Init, RunExclusive, Running
<1>2. RunExclusive /\ [Next]_vars => RunExclusive'
  <2> SUFFICES ASSUME RunExclusive, [Next]_vars PROVE RunExclusive'
    OBVIOUS
  <2> USE DEF RunExclusive, Running
  <2>1. CASE RunStep
    <3>1. pc # "idle" /\ UNCHANGED <<shell, saving>>
      BY <2>1
      DEF RunStep, AppendTrigger, ApplyFollowUp, BeginTurn, FinishTurn,
          SteerTake, SteerAppend, SteerApply, SteerRequeue, Settle, Commit,
          Catch, Cleanup, Goal, GoalList, GoalEnqueue, EndRun, At, Rest,
          directVars
    <3> QED
      BY <3>1
  <2>2. CASE \E c \in Clients : Launch(c) \/ TakeFollowUp(c)
    BY <2>2
    DEF Launch, TakeFollowUp, CanRun, StartRun, Rest, directVars, runVars
  <2>3. CASE DirectStep \/ MoveBoundary
    BY <2>3
    DEF DirectStep, MoveBoundary, BeginShell, EndShell, BeginSave, EndSave, Direct, runVars,
        directVars
  <2>4. CASE Crash
    BY <2>4 DEF Crash
  <2>5. CASE UNCHANGED <<pc, shell, saving>>
    BY <2>5
  <2> QED
    BY <2>1, <2>2, <2>3, <2>4, <2>5
    DEF Next, Post, ClientStep, StarterStep, EditQueue, PostStart, CronFire,
        PostSteer, PostFollowUp, ListQueue, EnqueueItem, FinishRecord,
        ListFollowUps, RequeueFollowUp, CancelItem, UpdateItem, Abort, Rest,
        directVars, runVars, vars
<1> QED
  BY <1>1, <1>2, PTL DEF Spec

\* The items a taker holds, and those whose delivery is over.
Claimed == {i \in ItemIds : Consuming(i)}
Done == {i \in ItemIds : i \in DOMAIN queue /\ queue[i].status = "applied"}

\* Whom a run belongs to: it has one starter, and a client whose request may
\* start a run has none yet.
OneStarter ==
    /\ Running => starter[owner].pc = "running"
    /\ \A c \in Clients :
         /\ starter[c].pc = "running" => Running /\ c = owner
         /\ client[c].pc = "launch" \/ client[c].source = "cron" => starter[c] = NoStart

\* The item the run was started with is its own until it is applied.
RunHolds ==
    /\ pc = "start" /\ runItem # NoItem => runItem \in Claimed /\ appended[runItem] = 0
    /\ pc = "applyFollowUp" => runItem \in Claimed /\ appended[runItem] = 1
    /\ pc \notin {"start", "applyFollowUp"} => runItem = NoItem

\* So is the item applySteering took.
SteerHolds ==
    /\ pc = "steerAppend" => steerItem \in Claimed /\ appended[steerItem] = 0
    /\ pc = "steerApply" => steerItem \in Claimed /\ appended[steerItem] = 1
    /\ pc # "steerRequeue"
    /\ pc \notin {"steerAppend", "steerApply"} => steerItem = NoItem

\* What a starter puts back is applied by then, or nobody else's.
StartersHold ==
    \A c \in Clients :
      /\ starter[c].pc = "running" => starter[c].item \in Done \cup {NoItem, runItem}
      /\ starter[c].pc = "requeue" /\ starter[c].item \notin Done =>
           /\ starter[c].item \in Claimed \ {runItem, steerItem}
           /\ appended[starter[c].item] = 0
           /\ \A d \in Clients :
                starter[d].pc = "requeue" /\ starter[d].item = starter[c].item => d = c

\* A text that is in the history once is that of a claimed or an applied item.
Recorded ==
    \A i \in ItemIds : appended[i] = 0 \/ (appended[i] = 1 /\ i \in Claimed \cup Done)

\* Every claim has its holder, unless the holder died in a crash.
Held ==
    crashes = 0 =>
        \A i \in Claimed :
            (Running /\ i \in {runItem, steerItem}) \/ \E c \in Clients : HeldByStarter(c, i)

\* The inductive invariant behind the claims, while storage does not fail.
ClaimInv == faults = 0 => RunHolds /\ SteerHolds /\ StartersHold /\ Recorded /\ Held

\* An item is claimed, done, or neither.
LEMMA ClaimedIsConsuming ==
    ASSUME QueueTypeOK
    PROVE  /\ \A i : Consuming(i) <=> i \in Claimed
           /\ Claimed \cap Done = {}
<1>1. \A i \in DOMAIN queue : i \in ItemIds
  BY ItemsBounded
<1> QED
  BY <1>1 DEF Consuming, Claimed, Done

\* What the operations of the queue do to the two sets.
LEMMA QueueEffects ==
    ASSUME QueueTypeOK
    PROVE  /\ \A i : Apply(i) => i \in Claimed /\ Claimed' = Claimed \ {i} /\ Done' = Done \cup {i}
           /\ \A kind, i : Take(kind, i) =>
                i \in ItemIds \ (Claimed \cup Done) /\ Claimed' = Claimed \cup {i} /\ Done' = Done
           /\ \A i : Requeue(i) => Claimed' = Claimed \ {i} /\ Done' = Done
           /\ \A i : Cancel(i) => UNCHANGED <<Claimed, Done>>
           /\ UNCHANGED queue => UNCHANGED <<Claimed, Done>>
<1>1. ASSUME NEW i, NEW from \in Statuses, NEW to \in Statuses, SetStatus(i, from, to)
      PROVE  /\ i \in ItemIds
             /\ i \in Claimed <=> from = "consuming"
             /\ i \in Done <=> from = "applied"
             /\ i \in Claimed' <=> to = "consuming"
             /\ i \in Done' <=> to = "applied"
             /\ \A j \in ItemIds \ {i} : (j \in Claimed' <=> j \in Claimed) /\ (j \in Done' <=> j \in Done)
  <2>1. /\ DOMAIN queue' = DOMAIN queue
        /\ i \in DOMAIN queue
        /\ queue[i].status = from
        /\ queue'[i].status = to
        /\ \A j \in DOMAIN queue : j # i => queue'[j] = queue[j]
    BY <1>1, SetStatusEffect
  <2>2. i \in ItemIds
    BY <2>1, ItemsBounded
  <2> QED
    BY <2>1, <2>2 DEF Claimed, Done, Consuming
<1>2. Claimed \subseteq ItemIds /\ Done \subseteq ItemIds /\ Claimed' \subseteq ItemIds /\ Done' \subseteq ItemIds
  BY DEF Claimed, Done
<1>3. UNCHANGED queue => UNCHANGED <<Claimed, Done>>
  BY DEF Claimed, Done, Consuming
<1>4. ASSUME NEW i, Apply(i)
      PROVE  i \in Claimed /\ Claimed' = Claimed \ {i} /\ Done' = Done \cup {i}
  BY <1>1, <1>2, <1>4 DEF Apply, Statuses
<1>5. ASSUME NEW kind, NEW i, Take(kind, i)
      PROVE  i \in ItemIds \ (Claimed \cup Done) /\ Claimed' = Claimed \cup {i} /\ Done' = Done
  BY <1>1, <1>2, <1>5 DEF Take, Statuses
<1>6. ASSUME NEW i, Requeue(i)
      PROVE  Claimed' = Claimed \ {i} /\ Done' = Done
  <2>1. CASE SetStatus(i, "consuming", "queued")
    BY <1>1, <1>2, <2>1 DEF Statuses
  <2>2. CASE ~Consuming(i) /\ UNCHANGED queue
    BY <1>3, <2>2 DEF Claimed
  <2> QED
    BY <1>6, <2>1, <2>2 DEF Requeue
<1>7. ASSUME NEW i, Cancel(i)
      PROVE  UNCHANGED <<Claimed, Done>>
  BY <1>1, <1>2, <1>7 DEF Cancel, Statuses
<1> QED
  BY <1>3, <1>4, <1>5, <1>6, <1>7

\* A PATCH of the kind claims and finishes nothing.
LEMMA UpdateEffect ==
    ASSUME QueueTypeOK, NEW i, NEW kind \in Kinds, Update(i, kind)
    PROVE  UNCHANGED <<Claimed, Done>>
<1>1. /\ i \in DOMAIN queue
      /\ queue' = [queue EXCEPT ![i].kind = kind]
  BY DEF Update
<1>2. queue[i] \in QueueItem
  BY <1>1, ItemsBounded
<1>3. /\ DOMAIN queue' = DOMAIN queue
      /\ \A j \in DOMAIN queue : queue'[j].status = queue[j].status
  BY <1>1, <1>2 DEF QueueItem
<1> QED
  BY <1>3 DEF Claimed, Done, Consuming

\* An enqueue claims and finishes nothing.
LEMMA EnqueueKeeps ==
    ASSUME QueueTypeOK,
           NEW kind \in Kinds, NEW req \in Requests \cup {NoRequest}, NEW source \in Sources,
           Enqueue(kind, req, source)
    PROVE  UNCHANGED <<Claimed, Done>>
<1>1. /\ DOMAIN queue \subseteq DOMAIN queue'
      /\ \A j \in DOMAIN queue : queue'[j] = queue[j]
      /\ \A j \in DOMAIN queue' \ DOMAIN queue : queue'[j].status = "queued"
  BY EnqueueEffect
<1> QED
  BY <1>1 DEF Claimed, Done, Consuming

\* At first nobody runs.
LEMMA OneStarterInit == Init => OneStarter
BY DEF Init, OneStarter, Running, NoRequestInFlight, NoStart

\* A run keeps its one starter.
LEMMA OneStarterStep == TypeOK /\ OneStarter /\ [Next]_vars => OneStarter'
<1> SUFFICES ASSUME TypeOK, OneStarter, [Next]_vars PROVE OneStarter'
  OBVIOUS
<1> USE DEF At, Goto, CallAt, Throw, NotSteered, StartRun, Direct, Dismiss,
            StarterCalls, Answer, Request, ClientIdle, Rest, runVars,
            directVars, NoStart, NoRequestInFlight, Running
<1>0. TypeOK /\ OneStarter /\ RequestsOK /\ LoopOK
  BY DEF TypeOK
<1>1. CASE AppendTrigger
  BY <1>1, <1>0
  DEF AppendTrigger, OneStarter, RequestsOK, LoopOK, Start, RequestInFlight
<1>2. CASE ApplyFollowUp
  BY <1>2, <1>0
  DEF ApplyFollowUp, OneStarter, RequestsOK, LoopOK, Start, RequestInFlight
<1>3. CASE BeginTurn
  BY <1>3, <1>0
  DEF BeginTurn, OneStarter, RequestsOK, LoopOK, Start, RequestInFlight
<1>4. CASE FinishTurn
  BY <1>4, <1>0
  DEF FinishTurn, OneStarter, RequestsOK, LoopOK, Start, RequestInFlight
<1>5. CASE SteerTake
  BY <1>5, <1>0
  DEF SteerTake, OneStarter, RequestsOK, LoopOK, Start, RequestInFlight
<1>6. CASE SteerAppend
  BY <1>6, <1>0
  DEF SteerAppend, OneStarter, RequestsOK, LoopOK, Start, RequestInFlight
<1>7. CASE SteerApply
  BY <1>7, <1>0
  DEF SteerApply, OneStarter, RequestsOK, LoopOK, Start, RequestInFlight
<1>8. CASE SteerRequeue
  BY <1>8, <1>0
  DEF SteerRequeue, OneStarter, RequestsOK, LoopOK, Start, RequestInFlight
<1>9. CASE Settle
  BY <1>9, <1>0
  DEF Settle, OneStarter, RequestsOK, LoopOK, Start, RequestInFlight
<1>10. CASE Commit
  BY <1>10, <1>0
  DEF Commit, OneStarter, RequestsOK, LoopOK, Start, RequestInFlight
<1>11. CASE Catch
  BY <1>11, <1>0
  DEF Catch, OneStarter, RequestsOK, LoopOK, Start, RequestInFlight
<1>12. CASE Cleanup
  BY <1>12, <1>0
  DEF Cleanup, OneStarter, RequestsOK, LoopOK, Start, RequestInFlight
<1>13. CASE Goal
  BY <1>13, <1>0
  DEF Goal, OneStarter, RequestsOK, LoopOK, Start, RequestInFlight
<1>14. CASE GoalList
  BY <1>14, <1>0
  DEF GoalList, OneStarter, RequestsOK, LoopOK, Start, RequestInFlight
<1>15. CASE GoalEnqueue
  BY <1>15, <1>0
  DEF GoalEnqueue, OneStarter, RequestsOK, LoopOK, Start, RequestInFlight
<1>16. CASE EndRun
  BY <1>16, <1>0
  DEF EndRun, OneStarter, RequestsOK, LoopOK, Start, RequestInFlight
<1>17. CASE \E c \in Clients : PostStart(c)
  BY <1>17, <1>0
  DEF PostStart, OneStarter, RequestsOK, LoopOK, Start, RequestInFlight
<1>18. CASE \E c \in Clients : CronFire(c)
  BY <1>18, <1>0
  DEF CronFire, OneStarter, RequestsOK, LoopOK, Start, RequestInFlight
<1>19. CASE \E c \in Clients : Launch(c)
  <2>1. PICK c \in Clients : Launch(c)
    BY <1>19
  <2>2. /\ starter \in [Clients -> Start] /\ client \in [Clients -> RequestInFlight]
        /\ starter[c] \in Start /\ client[c] \in RequestInFlight
    BY <1>0 DEF RequestsOK
  <2>3. \A d \in Clients \ {c} : starter'[d] = starter[d] /\ client'[d] = client[d]
    BY <2>1, <2>2 DEF Launch
  <2>4. starter[c] = NoStart /\ client'[c] = NoRequestInFlight
    BY <1>0, <2>1, <2>2 DEF Launch, OneStarter
  <2>5. \/ pc' = "start" /\ owner' = c /\ starter'[c].pc = "running" /\ ~Running
        \/ UNCHANGED <<pc, owner, starter>>
    BY <2>1, <2>2 DEF Launch, CanRun, Start
  <2> QED
    BY <1>0, <2>3, <2>4, <2>5 DEF OneStarter, LoopOK
<1>20. CASE \E c \in Clients : ListQueue(c)
  <2>1. PICK c \in Clients : ListQueue(c)
    BY <1>20
  <2>2. /\ starter \in [Clients -> Start] /\ client \in [Clients -> RequestInFlight]
        /\ starter[c] \in Start /\ client[c] \in RequestInFlight
    BY <1>0 DEF RequestsOK
  <2>3. \A d \in Clients \ {c} : starter'[d] = starter[d] /\ client'[d] = client[d]
    BY <2>1, <2>2 DEF ListQueue
  <2>4. /\ client[c].pc = "list"
        /\ client'[c].pc # "launch"
        /\ client'[c].source \in {client[c].source, "user"}
        /\ UNCHANGED <<pc, owner, starter>>
    BY <2>1, <2>2 DEF ListQueue, RequestInFlight
  <2> QED
    BY <1>0, <2>3, <2>4 DEF OneStarter, LoopOK
<1>21. CASE \E c \in Clients : EnqueueItem(c)
  <2>1. PICK c \in Clients : EnqueueItem(c)
    BY <1>21
  <2>2. /\ starter \in [Clients -> Start] /\ client \in [Clients -> RequestInFlight]
        /\ starter[c] \in Start /\ client[c] \in RequestInFlight
    BY <1>0 DEF RequestsOK
  <2>3. \A d \in Clients \ {c} : starter'[d] = starter[d] /\ client'[d] = client[d]
    BY <2>1, <2>2 DEF EnqueueItem, StartsFollowUp
  <2>4. /\ client'[c] = NoRequestInFlight
        /\ UNCHANGED <<pc, owner>>
        /\ UNCHANGED starter \/ (~Running /\ starter'[c].pc = "list")
    BY <2>1, <2>2 DEF EnqueueItem, StartsFollowUp, Start
  <2> QED
    BY <1>0, <2>2, <2>3, <2>4 DEF OneStarter, LoopOK
<1>22. CASE \E c \in Clients : FinishRecord(c)
  BY <1>22, <1>0
  DEF FinishRecord, OneStarter, RequestsOK, LoopOK, Start, RequestInFlight
<1>23. CASE \E c \in Clients : ListFollowUps(c)
  BY <1>23, <1>0
  DEF ListFollowUps, OneStarter, RequestsOK, LoopOK, Start, RequestInFlight
<1>24. CASE \E c \in Clients : TakeFollowUp(c)
  <2>1. PICK c \in Clients : TakeFollowUp(c)
    BY <1>24
  <2>2. /\ starter \in [Clients -> Start] /\ client \in [Clients -> RequestInFlight]
        /\ starter[c] \in Start /\ client[c] \in RequestInFlight
    BY <1>0 DEF RequestsOK
  <2>3. \A d \in Clients \ {c} : starter'[d] = starter[d] /\ client'[d] = client[d]
    BY <2>1, <2>2 DEF TakeFollowUp
  <2>4. /\ starter[c].pc = "take"
        /\ UNCHANGED client
        /\ \/ pc' = "start" /\ owner' = c /\ starter'[c].pc = "running" /\ ~Running
           \/ UNCHANGED <<pc, owner>> /\ starter'[c].pc \in {"requeue", "idle"}
    BY <2>1, <2>2 DEF TakeFollowUp, CanRun, Start
  <2>5. client[c].pc # "launch" /\ client[c].source # "cron"
    BY <1>0, <2>2, <2>4 DEF OneStarter
  <2> QED
    BY <1>0, <2>2, <2>3, <2>4, <2>5 DEF OneStarter, LoopOK
<1>25. CASE \E c \in Clients : RequeueFollowUp(c)
  BY <1>25, <1>0
  DEF RequeueFollowUp, OneStarter, RequestsOK, LoopOK, Start, RequestInFlight
<1>26. CASE \E c \in Clients, req \in Requests \cup {NoRequest} : PostSteer(c, req)
  BY <1>26, <1>0
  DEF PostSteer, OneStarter, RequestsOK, LoopOK, Start, RequestInFlight
<1>27. CASE \E c \in Clients, req \in Requests \cup {NoRequest} : PostFollowUp(c, req)
  BY <1>27, <1>0
  DEF PostFollowUp, OneStarter, RequestsOK, LoopOK, Start, RequestInFlight
<1>28. CASE EditQueue
  BY <1>28, <1>0
  DEF EditQueue, CancelItem, UpdateItem, OneStarter, RequestsOK, LoopOK, Start,
      RequestInFlight
<1>29. CASE Abort
  BY <1>29, <1>0
  DEF Abort, OneStarter, RequestsOK, LoopOK, Start, RequestInFlight
<1>30. CASE DirectStep \/ MoveBoundary
  BY <1>30, <1>0
  DEF DirectStep, MoveBoundary, BeginShell, EndShell, BeginSave, EndSave, OneStarter,
      RequestsOK, LoopOK, Start, RequestInFlight
<1>31. CASE Crash
  BY <1>31, <1>0
  DEF Crash, OneStarter, RequestsOK, LoopOK, Start, RequestInFlight
<1>32. CASE UNCHANGED vars
  BY <1>32, <1>0
  DEF vars, OneStarter, RequestsOK, LoopOK, Start, RequestInFlight
<1> QED
  BY <1>1, <1>2, <1>3, <1>4, <1>5, <1>6, <1>7, <1>8, <1>9, <1>10, <1>11,
     <1>12, <1>13, <1>14, <1>15, <1>16, <1>17, <1>18, <1>19, <1>20, <1>21,
     <1>22, <1>23, <1>24, <1>25, <1>26, <1>27, <1>28, <1>29, <1>30, <1>31,
     <1>32
  DEF Next, RunStep, Post, ClientStep, StarterStep

\* A step without a fault keeps every claim with its holder.
LEMMA ClaimStep == TypeOK /\ OneStarter /\ ClaimInv /\ [Next]_vars => ClaimInv'
<1> SUFFICES ASSUME TypeOK, OneStarter, ClaimInv, [Next]_vars, faults' = 0
             PROVE  (RunHolds /\ SteerHolds /\ StartersHold /\ Recorded /\ Held)'
  BY DEF ClaimInv
<1>0. /\ QueueTypeOK /\ LoopOK /\ RequestsOK /\ CountsOK
      /\ Claimed \subseteq ItemIds /\ Done \subseteq ItemIds /\ Claimed \cap Done = {}
  BY ClaimedIsConsuming DEF TypeOK, Claimed, Done
<1>t. /\ faults \in Nat /\ crashes \in Nat
      /\ starter \in [Clients -> Start]
      /\ \A c \in Clients : starter[c] \in Start
      /\ appended \in [ItemIds -> Nat]
      /\ runItem \in ItemIds \cup {NoItem} /\ steerItem \in ItemIds \cup {NoItem}
      /\ owner \in Clients
      /\ NoItem \notin ItemIds
  BY <1>0, LimitAssumption DEF CountsOK, RequestsOK, LoopOK, NoItem, ItemIds
<1>1. CASE BeginTurn
  <2>1. UNCHANGED <<Claimed, Done>>
    BY <1>1, <1>0, QueueEffects DEF BeginTurn, Rest, runVars, directVars
  <2> QED
    BY <1>1, <1>0, <1>t, <2>1
    DEF BeginTurn, ClaimInv, RunHolds, SteerHolds, StartersHold, Recorded,
        Held, HeldByStarter, Running, At, Goto, CallAt, Throw, NotSteered,
        StartRun, Dismiss, StarterCalls, Rest, runVars, seenVars, faultVars,
        NoFault, Fault, FaultOr, NoStart
<1>2. CASE FinishTurn
  <2>1. UNCHANGED <<Claimed, Done>>
    BY <1>2, <1>0, QueueEffects DEF FinishTurn, Rest, runVars, directVars
  <2> QED
    BY <1>2, <1>0, <1>t, <2>1
    DEF FinishTurn, ClaimInv, RunHolds, SteerHolds, StartersHold, Recorded,
        Held, HeldByStarter, Running, At, Goto, CallAt, Throw, NotSteered,
        StartRun, Dismiss, StarterCalls, Rest, runVars, seenVars, faultVars,
        NoFault, Fault, FaultOr, NoStart
<1>3. CASE SteerAppend
  <2>1. UNCHANGED <<Claimed, Done>>
    BY <1>3, <1>0, QueueEffects DEF SteerAppend, Rest, runVars, directVars
  <2> QED
    BY <1>3, <1>0, <1>t, <2>1
    DEF SteerAppend, AppendText, ClaimInv, RunHolds, SteerHolds, StartersHold,
        Recorded, Held, HeldByStarter, Running, At, Goto, CallAt, Throw,
        NotSteered, StartRun, Dismiss, StarterCalls, Rest, runVars, seenVars,
        faultVars, NoFault, Fault, FaultOr, NoStart
<1>4. CASE Settle
  <2>1. UNCHANGED <<Claimed, Done>>
    BY <1>4, <1>0, QueueEffects DEF Settle, Rest, runVars, directVars
  <2> QED
    BY <1>4, <1>0, <1>t, <2>1
    DEF Settle, ClaimInv, RunHolds, SteerHolds, StartersHold, Recorded, Held,
        HeldByStarter, Running, At, Goto, CallAt, Throw, NotSteered, StartRun,
        Dismiss, StarterCalls, Rest, runVars, seenVars, faultVars, NoFault,
        Fault, FaultOr, NoStart
<1>5. CASE Commit
  <2>1. UNCHANGED <<Claimed, Done>>
    BY <1>5, <1>0, QueueEffects DEF Commit, Rest, runVars, directVars
  <2> QED
    BY <1>5, <1>0, <1>t, <2>1
    DEF Commit, ClaimInv, RunHolds, SteerHolds, StartersHold, Recorded, Held,
        HeldByStarter, Running, At, Goto, CallAt, Throw, NotSteered, StartRun,
        Dismiss, StarterCalls, Rest, runVars, seenVars, faultVars, NoFault,
        Fault, FaultOr, NoStart
<1>6. CASE Cleanup
  <2>1. UNCHANGED <<Claimed, Done>>
    BY <1>6, <1>0, QueueEffects DEF Cleanup, Rest, runVars, directVars
  <2> QED
    BY <1>6, <1>0, <1>t, <2>1
    DEF Cleanup, ClaimInv, RunHolds, SteerHolds, StartersHold, Recorded, Held,
        HeldByStarter, Running, At, Goto, CallAt, Throw, NotSteered, StartRun,
        Dismiss, StarterCalls, Rest, runVars, seenVars, faultVars, NoFault,
        Fault, FaultOr, NoStart
<1>7. CASE Goal
  <2>1. UNCHANGED <<Claimed, Done>>
    BY <1>7, <1>0, QueueEffects DEF Goal, Rest, runVars, directVars
  <2> QED
    BY <1>7, <1>0, <1>t, <2>1
    DEF Goal, ClaimInv, RunHolds, SteerHolds, StartersHold, Recorded, Held,
        HeldByStarter, Running, At, Goto, CallAt, Throw, NotSteered, StartRun,
        Dismiss, StarterCalls, Rest, runVars, seenVars, faultVars, NoFault,
        Fault, FaultOr, NoStart
<1>8. CASE GoalList
  <2>1. UNCHANGED <<Claimed, Done>>
    BY <1>8, <1>0, QueueEffects DEF GoalList, Rest, runVars, directVars
  <2> QED
    BY <1>8, <1>0, <1>t, <2>1
    DEF GoalList, ClaimInv, RunHolds, SteerHolds, StartersHold, Recorded, Held,
        HeldByStarter, Running, At, Goto, CallAt, Throw, NotSteered, StartRun,
        Dismiss, StarterCalls, Rest, runVars, seenVars, faultVars, NoFault,
        Fault, FaultOr, NoStart
<1>9. CASE AppendTrigger
  <2>1. UNCHANGED <<Claimed, Done>>
    BY <1>9, <1>0, QueueEffects DEF AppendTrigger, Rest, runVars, directVars
  <2> QED
    BY <1>9, <1>0, <1>t, <2>1
    DEF AppendTrigger, AppendText, ClaimInv, RunHolds, SteerHolds,
        StartersHold, Recorded, Held, HeldByStarter, Running, At, Goto, CallAt,
        Throw, NotSteered, StartRun, Dismiss, StarterCalls, Rest, runVars,
        seenVars, faultVars, NoFault, Fault, FaultOr, NoStart
<1>10. CASE ApplyFollowUp
  <2>1. faults = 0 /\ Consuming(runItem)
    BY <1>10, <1>0, <1>t
    DEF ApplyFollowUp, At, Fault, FaultOr, NoFault, faultVars, ClaimInv,
        RunHolds, Claimed
  <2>2. Apply(runItem) /\ pc' = "turn" /\ runItem' = NoItem /\ UNCHANGED <<appended, starter, steerItem, crashes>>
    BY <1>10, <2>1, <1>t
    DEF ApplyFollowUp, Fault, FaultOr, NoFault, faultVars, seenVars, Goto
  <2>3. /\ runItem \in Claimed
        /\ Claimed' = Claimed \ {runItem}
        /\ Done' = Done \cup {runItem}
    BY <1>0, <2>2, QueueEffects
  <2> QED
    BY <1>10, <1>0, <1>t, <2>1, <2>2, <2>3
    DEF ApplyFollowUp, At, ClaimInv, RunHolds, SteerHolds, StartersHold,
        Recorded, Held, HeldByStarter, Running
<1>11. CASE SteerApply
  <2>1. faults = 0 /\ Consuming(steerItem)
    BY <1>11, <1>0, <1>t
    DEF SteerApply, At, Fault, FaultOr, NoFault, faultVars, ClaimInv,
        SteerHolds, Claimed
  <2>2. Apply(steerItem) /\ pc' = "turn" /\ steerItem' = NoItem /\ UNCHANGED <<appended, starter, runItem, crashes>>
    BY <1>11, <2>1, <1>t
    DEF SteerApply, Fault, FaultOr, NoFault, faultVars, seenVars, Goto
  <2>3. /\ steerItem \in Claimed
        /\ Claimed' = Claimed \ {steerItem}
        /\ Done' = Done \cup {steerItem}
    BY <1>0, <2>2, QueueEffects
  <2> QED
    BY <1>11, <1>0, <1>t, <2>1, <2>2, <2>3
    DEF SteerApply, At, ClaimInv, RunHolds, SteerHolds, StartersHold, Recorded,
        Held, HeldByStarter, Running
<1>12. CASE SteerTake
  <2>1. CASE \E i \in ItemIds : Take("steer", i) /\ steerItem' = i
    <3>1. PICK i \in ItemIds : Take("steer", i) /\ steerItem' = i
      BY <2>1
    <3>2. i \notin Claimed \cup Done /\ Claimed' = Claimed \cup {i} /\ Done' = Done
      BY <1>0, <3>1, QueueEffects
    <3> QED
      BY <1>12, <1>0, <1>t, <3>1, <3>2
      DEF SteerTake, ClaimInv, RunHolds, SteerHolds, StartersHold, Recorded,
          Held, HeldByStarter, Running, At, Goto, CallAt, Throw, NotSteered,
          StartRun, Dismiss, StarterCalls, Rest, runVars, seenVars, faultVars,
          NoFault, Fault, FaultOr, NoStart
  <2>2. CASE UNCHANGED <<queue, steerItem>>
    <3>1. UNCHANGED <<Claimed, Done>>
      BY <1>0, <2>2, QueueEffects
    <3> QED
      BY <1>12, <1>0, <1>t, <3>1, <2>2
      DEF SteerTake, ClaimInv, RunHolds, SteerHolds, StartersHold, Recorded,
          Held, HeldByStarter, Running, At, Goto, CallAt, Throw, NotSteered,
          StartRun, Dismiss, StarterCalls, Rest, runVars, seenVars, faultVars,
          NoFault, Fault, FaultOr, NoStart
  <2> QED
    BY <1>12, <2>1, <2>2 DEF SteerTake
<1>13. CASE SteerRequeue
  <2> QED
    BY <1>13, <1>t
    DEF SteerRequeue, At, Fault, NoFault, faultVars, ClaimInv, SteerHolds
<1>14. CASE Catch
  <2>1. faults = 0 /\ runItem = NoItem
    BY <1>14, <1>t DEF Catch, At, Fault, NoFault, faultVars, ClaimInv, RunHolds
  <2>2. UNCHANGED <<Claimed, Done>>
    BY <1>14, <1>0, <1>t, <2>1, QueueEffects DEF Catch
  <2> QED
    BY <1>14, <1>0, <1>t, <2>1, <2>2
    DEF Catch, ClaimInv, RunHolds, SteerHolds, StartersHold, Recorded, Held,
        HeldByStarter, Running, At, Goto, CallAt, Throw, NotSteered, StartRun,
        Dismiss, StarterCalls, Rest, runVars, seenVars, faultVars, NoFault,
        Fault, FaultOr, NoStart
<1>15. CASE GoalEnqueue
  <2>1. UNCHANGED <<Claimed, Done>>
    BY <1>15, <1>0, QueueEffects, EnqueueKeeps DEF GoalEnqueue, Kinds, Sources
  <2> QED
    BY <1>15, <1>0, <1>t, <2>1
    DEF GoalEnqueue, ClaimInv, RunHolds, SteerHolds, StartersHold, Recorded,
        Held, HeldByStarter, Running, At, Goto, CallAt, Throw, NotSteered,
        StartRun, Dismiss, StarterCalls, Rest, runVars, seenVars, faultVars,
        NoFault, Fault, FaultOr, NoStart
<1>16. CASE \E c \in Clients : PostStart(c)
  <2>1. PICK c \in Clients : PostStart(c)
    BY <1>16
  <2>2. UNCHANGED <<Claimed, Done>>
    BY <1>0, <2>1, QueueEffects DEF PostStart, Rest, runVars, directVars
  <2> QED
    BY <1>0, <1>t, <2>1, <2>2
    DEF PostStart, ClaimInv, RunHolds, SteerHolds, StartersHold, Recorded,
        Held, HeldByStarter, Running, At, Goto, CallAt, Throw, NotSteered,
        StartRun, Dismiss, StarterCalls, Rest, runVars, seenVars, faultVars,
        NoFault, Fault, FaultOr, NoStart
<1>17. CASE \E c \in Clients : CronFire(c)
  <2>1. PICK c \in Clients : CronFire(c)
    BY <1>17
  <2>2. UNCHANGED <<Claimed, Done>>
    BY <1>0, <2>1, QueueEffects DEF CronFire, Rest, runVars, directVars
  <2> QED
    BY <1>0, <1>t, <2>1, <2>2
    DEF CronFire, ClaimInv, RunHolds, SteerHolds, StartersHold, Recorded, Held,
        HeldByStarter, Running, At, Goto, CallAt, Throw, NotSteered, StartRun,
        Dismiss, StarterCalls, Rest, runVars, seenVars, faultVars, NoFault,
        Fault, FaultOr, NoStart
<1>18. CASE \E c \in Clients : Launch(c)
  <2>1. PICK c \in Clients : Launch(c)
    BY <1>18
  <2>2. UNCHANGED <<Claimed, Done>>
    BY <1>0, <2>1, QueueEffects DEF Launch
  <2>3. CASE CanRun /\ StartRun(NoItem, c) /\ starter' = [starter EXCEPT ![c].pc = "running"]
    <3>1. /\ starter[c] = NoStart /\ faults = 0 /\ pc = "idle"
          /\ UNCHANGED <<appended, crashes>>
      BY <2>1, <2>3 DEF Launch, OneStarter, faultVars, CanRun, Running
    <3>2. /\ starter'[c] = [pc |-> "running", item |-> NoItem]
          /\ \A d \in Clients \ {c} : starter'[d] = starter[d]
      BY <1>t, <2>3, <3>1 DEF NoStart, Start
    <3> QED
      BY <1>0, <1>t, <2>2, <2>3, <3>1, <3>2
      DEF StartRun, NoStart, ClaimInv, RunHolds, SteerHolds, StartersHold,
          Recorded, Held, HeldByStarter, Running
  <2>4. CASE UNCHANGED <<runVars, starter>>
    BY <1>0, <1>t, <2>1, <2>2, <2>4
    DEF Launch, runVars, faultVars, ClaimInv, RunHolds, SteerHolds,
        StartersHold, Recorded, Held, HeldByStarter, Running
  <2> QED
    BY <2>1, <2>3, <2>4 DEF Launch
<1>19. CASE \E c \in Clients : ListQueue(c)
  <2>1. PICK c \in Clients : ListQueue(c)
    BY <1>19
  <2>2. UNCHANGED <<Claimed, Done>>
    BY <1>0, <2>1, QueueEffects DEF ListQueue, Rest, runVars, directVars
  <2> QED
    BY <1>0, <1>t, <2>1, <2>2
    DEF ListQueue, ClaimInv, RunHolds, SteerHolds, StartersHold, Recorded,
        Held, HeldByStarter, Running, At, Goto, CallAt, Throw, NotSteered,
        StartRun, Dismiss, StarterCalls, Rest, runVars, seenVars, faultVars,
        NoFault, Fault, FaultOr, NoStart
<1>20. CASE \E c \in Clients : EnqueueItem(c)
  <2>1. PICK c \in Clients : EnqueueItem(c)
    BY <1>20
  <2>2. client[c] \in RequestInFlight
    BY <1>0 DEF RequestsOK
  <2>3. UNCHANGED <<Claimed, Done>>
    <3>1. CASE Enqueue(client[c].kind, client[c].requestId, client[c].source)
      BY <1>0, <2>2, <3>1, EnqueueKeeps DEF RequestInFlight, Sources
    <3>2. CASE UNCHANGED queue
      BY <1>0, <3>2, QueueEffects
    <3> QED
      BY <2>1, <3>1, <3>2 DEF EnqueueItem
  <2>4. /\ faults = 0 /\ UNCHANGED <<pc, runItem, steerItem, appended, crashes>>
    BY <2>1, <1>t
    DEF EnqueueItem, NoFault, Fault, FaultOr, faultVars, runVars, seenVars
  <2>5. \/ UNCHANGED starter
        \/ /\ starter[c] = NoStart /\ starter'[c].pc = "list"
           /\ \A d \in Clients \ {c} : starter'[d] = starter[d]
    BY <1>t, <2>1, <2>2 DEF EnqueueItem, StartsFollowUp, OneStarter, Start
  <2> QED
    BY <1>0, <1>t, <2>3, <2>4, <2>5
    DEF NoStart, ClaimInv, RunHolds, SteerHolds, StartersHold, Recorded, Held,
        HeldByStarter, Running
<1>21. CASE \E c \in Clients : FinishRecord(c)
  <2>1. PICK c \in Clients : FinishRecord(c)
    BY <1>21
  <2>2. UNCHANGED <<Claimed, Done>>
    BY <1>0, <2>1, QueueEffects DEF FinishRecord, Rest, runVars, directVars
  <2> QED
    BY <1>0, <1>t, <2>1, <2>2
    DEF FinishRecord, Start, ClaimInv, RunHolds, SteerHolds, StartersHold,
        Recorded, Held, HeldByStarter, Running, At, Goto, CallAt, Throw,
        NotSteered, StartRun, Dismiss, StarterCalls, Rest, runVars, seenVars,
        faultVars, NoFault, Fault, FaultOr, NoStart
<1>22. CASE \E c \in Clients : ListFollowUps(c)
  <2>1. PICK c \in Clients : ListFollowUps(c)
    BY <1>22
  <2>2. UNCHANGED <<Claimed, Done>>
    BY <1>0, <2>1, QueueEffects DEF ListFollowUps, Rest, runVars, directVars
  <2> QED
    BY <1>0, <1>t, <2>1, <2>2
    DEF ListFollowUps, Start, ClaimInv, RunHolds, SteerHolds, StartersHold,
        Recorded, Held, HeldByStarter, Running, At, Goto, CallAt, Throw,
        NotSteered, StartRun, Dismiss, StarterCalls, Rest, runVars, seenVars,
        faultVars, NoFault, Fault, FaultOr, NoStart
<1>23. CASE \E c \in Clients : TakeFollowUp(c)
  <2>1. PICK c \in Clients : TakeFollowUp(c)
    BY <1>23
  <2>2. /\ faults = 0 /\ starter[c].pc = "take" /\ UNCHANGED <<appended, crashes>>
    BY <2>1, <1>t
    DEF TakeFollowUp, NoFault, Fault, FaultOr, faultVars, seenVars
  <2>3. ASSUME NEW i \in ItemIds, Take("follow_up", i), CanRun, StartRun(i, c),
               starter' = [starter EXCEPT ![c] = [pc |-> "running", item |-> i]]
        PROVE  (RunHolds /\ SteerHolds /\ StartersHold /\ Recorded /\ Held)'
    <3>1. i \notin Claimed \cup Done /\ Claimed' = Claimed \cup {i} /\ Done' = Done
      BY <1>0, <2>3, QueueEffects
    <3>2. pc = "idle" /\ pc' = "start" /\ runItem' = i /\ steerItem' = NoItem
      BY <2>3 DEF CanRun, Running, StartRun
    <3>3. /\ starter'[c] = [pc |-> "running", item |-> i]
          /\ \A d \in Clients \ {c} : starter'[d] = starter[d] /\ starter[d].pc # "running"
      BY <1>t, <2>3, <3>2 DEF OneStarter, Running
    <3> QED
      BY <1>0, <1>t, <2>2, <3>1, <3>2, <3>3
      DEF ClaimInv, RunHolds, SteerHolds, StartersHold, Recorded, Held,
          HeldByStarter, Running
  <2>4. ASSUME NEW i \in ItemIds, Take("follow_up", i),
               starter' = [starter EXCEPT ![c] = [pc |-> "requeue", item |-> i]],
               UNCHANGED <<pc, runItem, steerItem>>
        PROVE  (RunHolds /\ SteerHolds /\ StartersHold /\ Recorded /\ Held)'
    <3>1. i \notin Claimed \cup Done /\ Claimed' = Claimed \cup {i} /\ Done' = Done
      BY <1>0, <2>4, QueueEffects
    <3>2. runItem # i /\ steerItem # i /\ appended[i] = 0
      BY <1>0, <1>t, <2>2, <3>1
      DEF ClaimInv, RunHolds, SteerHolds, StartersHold, Recorded, Held,
          HeldByStarter, Running
    <3>3. /\ starter'[c] = [pc |-> "requeue", item |-> i]
          /\ \A d \in Clients \ {c} : starter'[d] = starter[d]
      BY <1>t, <2>4
    <3> QED
      BY <1>0, <1>t, <2>2, <2>4, <3>1, <3>2, <3>3
      DEF ClaimInv, RunHolds, SteerHolds, StartersHold, Recorded, Held,
          HeldByStarter, Running
  <2>5. CASE Dismiss(c) /\ UNCHANGED <<queue, runVars>>
    <3>1. UNCHANGED <<Claimed, Done>>
      BY <1>0, <2>5, QueueEffects
    <3>2. /\ starter'[c] = NoStart
          /\ \A d \in Clients \ {c} : starter'[d] = starter[d]
      BY <1>t, <2>5 DEF Dismiss
    <3> QED
      BY <1>0, <1>t, <2>2, <2>5, <3>1, <3>2
      DEF NoStart, runVars, ClaimInv, RunHolds, SteerHolds, StartersHold,
          Recorded, Held, HeldByStarter, Running
  <2> QED
    BY <2>1, <2>3, <2>4, <2>5 DEF TakeFollowUp
<1>24. CASE \E c \in Clients : RequeueFollowUp(c)
  <2>1. PICK c \in Clients : RequeueFollowUp(c)
    BY <1>24
  <2>2. Claimed' = Claimed \ {starter[c].item} /\ Done' = Done
    BY <1>0, <2>1, <1>t, QueueEffects
    DEF RequeueFollowUp, Rest, runVars, directVars, NoFault, Fault
  <2> QED
    BY <1>0, <1>t, <2>1, <2>2
    DEF RequeueFollowUp, Start, ClaimInv, RunHolds, SteerHolds, StartersHold,
        Recorded, Held, HeldByStarter, Running, At, Goto, CallAt, Throw,
        NotSteered, StartRun, Dismiss, StarterCalls, Rest, runVars, seenVars,
        faultVars, NoFault, Fault, FaultOr, NoStart
<1>25. CASE \E c \in Clients, req \in Requests \cup {NoRequest} : PostSteer(c, req)
  <2>1. UNCHANGED <<Claimed, Done>>
    BY <1>25, <1>0, QueueEffects DEF PostSteer
  <2> QED
    BY <1>25, <1>0, <1>t, <2>1
    DEF PostSteer, ClaimInv, RunHolds, SteerHolds, StartersHold, Recorded,
        Held, HeldByStarter, Running, At, Goto, CallAt, Throw, NotSteered,
        StartRun, Dismiss, StarterCalls, Rest, runVars, seenVars, faultVars,
        NoFault, Fault, FaultOr, NoStart
<1>26. CASE \E c \in Clients, req \in Requests \cup {NoRequest} : PostFollowUp(c, req)
  <2>1. UNCHANGED <<Claimed, Done>>
    BY <1>26, <1>0, QueueEffects DEF PostFollowUp
  <2> QED
    BY <1>26, <1>0, <1>t, <2>1
    DEF PostFollowUp, ClaimInv, RunHolds, SteerHolds, StartersHold, Recorded,
        Held, HeldByStarter, Running, At, Goto, CallAt, Throw, NotSteered,
        StartRun, Dismiss, StarterCalls, Rest, runVars, seenVars, faultVars,
        NoFault, Fault, FaultOr, NoStart
<1>27. CASE EditQueue
  <2>1. UNCHANGED <<Claimed, Done>>
    BY <1>27, <1>0, QueueEffects, UpdateEffect
    DEF EditQueue, CancelItem, UpdateItem
  <2> QED
    BY <1>27, <1>0, <1>t, <2>1
    DEF EditQueue, CancelItem, UpdateItem, ClaimInv, RunHolds, SteerHolds,
        StartersHold, Recorded, Held, HeldByStarter, Running, At, Goto, CallAt,
        Throw, NotSteered, StartRun, Dismiss, StarterCalls, Rest, runVars,
        seenVars, faultVars, NoFault, Fault, FaultOr, NoStart
<1>28. CASE Abort
  <2>1. UNCHANGED <<Claimed, Done>>
    BY <1>28, <1>0, QueueEffects DEF Abort
  <2> QED
    BY <1>28, <1>0, <1>t, <2>1
    DEF Abort, ClaimInv, RunHolds, SteerHolds, StartersHold, Recorded, Held,
        HeldByStarter, Running, At, Goto, CallAt, Throw, NotSteered, StartRun,
        Dismiss, StarterCalls, Rest, runVars, seenVars, faultVars, NoFault,
        Fault, FaultOr, NoStart
<1>29. CASE DirectStep \/ MoveBoundary
  <2>1. UNCHANGED <<Claimed, Done>>
    BY <1>29, <1>0, QueueEffects
    DEF DirectStep, MoveBoundary, BeginShell, EndShell, BeginSave, EndSave, Direct
  <2> QED
    BY <1>29, <1>0, <1>t, <2>1
    DEF DirectStep, MoveBoundary, BeginShell, EndShell, BeginSave, EndSave, Direct, ClaimInv,
        RunHolds, SteerHolds, StartersHold, Recorded, Held, HeldByStarter,
        Running, At, Goto, CallAt, Throw, NotSteered, StartRun, Dismiss,
        StarterCalls, Rest, runVars, seenVars, faultVars, NoFault, Fault,
        FaultOr, NoStart
<1>30. CASE Crash
  <2>1. UNCHANGED <<Claimed, Done>>
    BY <1>30, <1>0, QueueEffects DEF Crash
  <2> QED
    BY <1>30, <1>0, <1>t, <2>1
    DEF Crash, ClaimInv, RunHolds, SteerHolds, StartersHold, Recorded, Held,
        HeldByStarter, Running, At, Goto, CallAt, Throw, NotSteered, StartRun,
        Dismiss, StarterCalls, Rest, runVars, seenVars, faultVars, NoFault,
        Fault, FaultOr, NoStart
<1>31. CASE EndRun
  <2>1. UNCHANGED <<Claimed, Done>>
    BY <1>31, <1>0, QueueEffects DEF EndRun
  <2>2. /\ faults = 0 /\ runItem = NoItem /\ steerItem = NoItem
        /\ UNCHANGED <<runItem, steerItem, appended, crashes>> /\ pc' = "idle"
        /\ starter[owner].pc = "running"
        /\ starter[owner].item \in Done \cup {NoItem}
    BY <1>31, <1>t
    DEF EndRun, At, faultVars, seenVars, OneStarter, ClaimInv, RunHolds,
        SteerHolds, StartersHold, Recorded, Held, HeldByStarter, Running
  <2>3. /\ \A c \in Clients \ {owner} : starter'[c] = starter[c] /\ starter[c].pc # "running"
        /\ starter'[owner].pc # "running"
        /\ starter'[owner].pc = "requeue" => starter'[owner].item \in Done
    BY <1>31, <1>t, <2>2 DEF EndRun, At, Start, NoStart, OneStarter
  <2> QED
    BY <1>0, <1>t, <2>1, <2>2, <2>3
    DEF ClaimInv, RunHolds, SteerHolds, StartersHold, Recorded, Held,
        HeldByStarter, Running
<1>32. CASE UNCHANGED vars
  <2>1. UNCHANGED <<Claimed, Done>>
    BY <1>32, <1>0, QueueEffects DEF vars
  <2> QED
    BY <1>32, <1>0, <1>t, <2>1
    DEF vars, runVars, seenVars, faultVars, ClaimInv, RunHolds, SteerHolds,
        StartersHold, Recorded, Held, HeldByStarter, Running
<1> QED
  BY <1>1, <1>2, <1>3, <1>4, <1>5, <1>6, <1>7, <1>8, <1>9, <1>10, <1>11,
     <1>12, <1>13, <1>14, <1>15, <1>16, <1>17, <1>18, <1>19, <1>20, <1>21,
     <1>22, <1>23, <1>24, <1>25, <1>26, <1>27, <1>28, <1>29, <1>30, <1>31,
     <1>32
  DEF Next, RunStep, Post, ClientStep, StarterStep

\* At first nothing is claimed.
LEMMA ClaimInit == Init => ClaimInv
BY DEF Init, QueueInit, ClaimInv, RunHolds, SteerHolds, StartersHold, Recorded,
       Held, Claimed, Done, Consuming, NoStart

\* The inductive invariant.
LEMMA Invariants == Spec => [](TypeOK /\ OneStarter /\ ClaimInv)
<1>1. TypeOK /\ [Next]_vars => TypeOK'
  BY FlagsStep, LoopStep, RequestsStep, CountsStep, QueueStep DEF TypeOK
<1> QED
  BY <1>1, InitType, OneStarterInit, OneStarterStep, ClaimInit, ClaimStep, PTL
  DEF Spec

\* ClaimsHeld: with any number of clients and items, while nothing fails, every
\* item in `consuming` is in the hands of the run or of a starter that is about
\* to put it back.
THEOREM ClaimsAreHeld == Spec => []ClaimsHeld
<1>1. TypeOK /\ ClaimInv => ClaimsHeld
  <2> SUFFICES ASSUME TypeOK, ClaimInv, faults = 0, crashes = 0,
                      NEW i \in ItemIds, Consuming(i)
               PROVE  HeldByRun(i) \/ \E c \in Clients : HeldByStarter(c, i)
    BY DEF ClaimsHeld, Calm
  <2> QED
    BY DEF ClaimInv, Held, HeldByRun, Claimed
<1> QED
  BY <1>1, Invariants, PTL

\* ClaimsExclusive: what the run holds is claimed for the run alone, so that
\* apply() finds it and no starter returns it to the queue meanwhile.
THEOREM ClaimsAreExclusive == Spec => []ClaimsExclusive
<1>1. TypeOK /\ ClaimInv => ClaimsExclusive
  <2> SUFFICES ASSUME TypeOK, ClaimInv, faults = 0, NEW i \in ItemIds, HeldByRun(i)
               PROVE  /\ Consuming(i)
                      /\ runItem # steerItem
                      /\ \A c \in Clients : ~HeldByStarter(c, i)
    BY DEF ClaimsExclusive, Calm
  <2>1. /\ QueueTypeOK /\ NoItem \notin ItemIds
        /\ \A c \in Clients : starter[c] \in Start
    BY DEF TypeOK, RequestsOK, NoItem, ItemIds
  <2>2. i \in Claimed /\ i \notin Done /\ runItem # steerItem
    BY <2>1, ClaimedIsConsuming DEF ClaimInv, RunHolds, SteerHolds, HeldByRun
  <2>3. ASSUME NEW c \in Clients, HeldByStarter(c, i)
        PROVE  FALSE
    BY <2>1, <2>2, <2>3 DEF HeldByStarter, HeldByRun, ClaimInv, StartersHold
  <2> QED
    BY <2>1, <2>2, <2>3, ClaimedIsConsuming
<1> QED
  BY <1>1, Invariants, PTL

\* DeliveredOnce: unless storage fails, no text is appended to the history a
\* second time, whatever crashes and however requests interleave.
THEOREM TextsAreDeliveredOnce == Spec => []DeliveredOnce
<1>1. TypeOK /\ ClaimInv => DeliveredOnce
  BY DEF TypeOK, CountsOK, ClaimInv, Recorded, DeliveredOnce
<1> QED
  BY <1>1, Invariants, PTL

\* What is marked applied was appended before, also when storage fails.
AppliedIsRecorded ==
    /\ \A i \in Done : appended[i] > 0
    /\ pc = "applyFollowUp" => runItem \in ItemIds /\ appended[runItem] > 0
    /\ pc = "steerAppend" => steerItem \in ItemIds
    /\ pc = "steerApply" => steerItem \in ItemIds /\ appended[steerItem] > 0

\* At first nothing is applied.
LEMMA AppliedInit == Init => AppliedIsRecorded
BY DEF Init, QueueInit, AppliedIsRecorded, Done

\* A step applies only what it has appended, also when storage fails.
LEMMA AppliedStep == TypeOK /\ AppliedIsRecorded /\ [Next]_vars => AppliedIsRecorded'
<1> SUFFICES ASSUME TypeOK, AppliedIsRecorded, [Next]_vars PROVE AppliedIsRecorded'
  OBVIOUS
<1>0. /\ QueueTypeOK /\ RequestsOK /\ LoopOK
      /\ Done \subseteq ItemIds
      /\ appended \in [ItemIds -> Nat]
      /\ runItem \in ItemIds \cup {NoItem} /\ steerItem \in ItemIds \cup {NoItem}
      /\ NoItem \notin ItemIds
  BY DEF TypeOK, LoopOK, CountsOK, Done, NoItem, ItemIds
<1> USE DEF AppliedIsRecorded
<1>1. CASE BeginTurn
  <2>1. UNCHANGED Done /\ UNCHANGED appended
    BY <1>1, <1>0, QueueEffects
    DEF BeginTurn, Rest, runVars, seenVars, directVars
  <2> QED
    BY <1>1, <1>0, <2>1
    DEF BeginTurn, At, Goto, CallAt, Throw, NotSteered, StartRun, Rest,
        runVars, seenVars, directVars
<1>2. CASE FinishTurn
  <2>1. UNCHANGED Done /\ UNCHANGED appended
    BY <1>2, <1>0, QueueEffects
    DEF FinishTurn, Rest, runVars, seenVars, directVars
  <2> QED
    BY <1>2, <1>0, <2>1
    DEF FinishTurn, At, Goto, CallAt, Throw, NotSteered, StartRun, Rest,
        runVars, seenVars, directVars
<1>3. CASE Settle
  <2>1. UNCHANGED Done /\ UNCHANGED appended
    BY <1>3, <1>0, QueueEffects DEF Settle, Rest, runVars, seenVars, directVars
  <2> QED
    BY <1>3, <1>0, <2>1
    DEF Settle, At, Goto, CallAt, Throw, NotSteered, StartRun, Rest, runVars,
        seenVars, directVars
<1>4. CASE Commit
  <2>1. UNCHANGED Done /\ UNCHANGED appended
    BY <1>4, <1>0, QueueEffects DEF Commit, Rest, runVars, seenVars, directVars
  <2> QED
    BY <1>4, <1>0, <2>1
    DEF Commit, At, Goto, CallAt, Throw, NotSteered, StartRun, Rest, runVars,
        seenVars, directVars
<1>5. CASE Cleanup
  <2>1. UNCHANGED Done /\ UNCHANGED appended
    BY <1>5, <1>0, QueueEffects
    DEF Cleanup, Rest, runVars, seenVars, directVars
  <2> QED
    BY <1>5, <1>0, <2>1
    DEF Cleanup, At, Goto, CallAt, Throw, NotSteered, StartRun, Rest, runVars,
        seenVars, directVars
<1>6. CASE Goal
  <2>1. UNCHANGED Done /\ UNCHANGED appended
    BY <1>6, <1>0, QueueEffects DEF Goal, Rest, runVars, seenVars, directVars
  <2> QED
    BY <1>6, <1>0, <2>1
    DEF Goal, At, Goto, CallAt, Throw, NotSteered, StartRun, Rest, runVars,
        seenVars, directVars
<1>7. CASE GoalList
  <2>1. UNCHANGED Done /\ UNCHANGED appended
    BY <1>7, <1>0, QueueEffects
    DEF GoalList, Rest, runVars, seenVars, directVars
  <2> QED
    BY <1>7, <1>0, <2>1
    DEF GoalList, At, Goto, CallAt, Throw, NotSteered, StartRun, Rest, runVars,
        seenVars, directVars
<1>8. CASE EndRun
  <2>1. UNCHANGED Done /\ UNCHANGED appended
    BY <1>8, <1>0, QueueEffects DEF EndRun, Rest, runVars, seenVars, directVars
  <2> QED
    BY <1>8, <1>0, <2>1
    DEF EndRun, At, Goto, CallAt, Throw, NotSteered, StartRun, Rest, runVars,
        seenVars, directVars
<1>9. CASE SteerRequeue
  <2>1. UNCHANGED Done /\ UNCHANGED appended
    BY <1>9, <1>0, QueueEffects
    DEF SteerRequeue, Rest, runVars, seenVars, directVars
  <2> QED
    BY <1>9, <1>0, <2>1
    DEF SteerRequeue, At, Goto, CallAt, Throw, NotSteered, StartRun, Rest,
        runVars, seenVars, directVars
<1>10. CASE Catch
  <2>1. UNCHANGED Done /\ UNCHANGED appended
    BY <1>10, <1>0, QueueEffects DEF Catch, Rest, runVars, seenVars, directVars
  <2> QED
    BY <1>10, <1>0, <2>1
    DEF Catch, At, Goto, CallAt, Throw, NotSteered, StartRun, Rest, runVars,
        seenVars, directVars
<1>11. CASE AppendTrigger
  <2>1. UNCHANGED Done
    BY <1>11, <1>0, QueueEffects DEF AppendTrigger
  <2>2. /\ appended' \in [ItemIds -> Nat]
        /\ \A i \in ItemIds : appended'[i] >= appended[i]
        /\ pc' \in {"applyFollowUp", "steerApply"} => runItem \in ItemIds /\ appended'[runItem] > 0
    BY <1>11, <1>0
    DEF AppendTrigger, AppendText, seenVars, Goto, CallAt, Throw, At
  <2> QED
    BY <1>11, <1>0, <2>1, <2>2
    DEF AppendTrigger, At, Goto, CallAt, Throw, NotSteered, StartRun, Rest,
        runVars, seenVars, directVars
<1>12. CASE SteerAppend
  <2>1. UNCHANGED Done
    BY <1>12, <1>0, QueueEffects DEF SteerAppend
  <2>2. /\ appended' \in [ItemIds -> Nat]
        /\ \A i \in ItemIds : appended'[i] >= appended[i]
        /\ pc' \in {"applyFollowUp", "steerApply"} => steerItem \in ItemIds /\ appended'[steerItem] > 0
    BY <1>12, <1>0
    DEF SteerAppend, AppendText, seenVars, Goto, CallAt, Throw, At
  <2> QED
    BY <1>12, <1>0, <2>1, <2>2
    DEF SteerAppend, At, Goto, CallAt, Throw, NotSteered, StartRun, Rest,
        runVars, seenVars, directVars
<1>13. CASE ApplyFollowUp
  <2>1. UNCHANGED appended /\ appended[runItem] > 0
    BY <1>13 DEF ApplyFollowUp, At, seenVars
  <2>2. Done' = Done \/ Done' = Done \cup {runItem}
    BY <1>13, <1>0, QueueEffects DEF ApplyFollowUp
  <2> QED
    BY <1>13, <1>0, <2>1, <2>2
    DEF ApplyFollowUp, At, Goto, CallAt, Throw, NotSteered, StartRun, Rest,
        runVars, seenVars, directVars
<1>14. CASE SteerApply
  <2>1. UNCHANGED appended /\ appended[steerItem] > 0
    BY <1>14 DEF SteerApply, At, seenVars
  <2>2. Done' = Done \/ Done' = Done \cup {steerItem}
    BY <1>14, <1>0, QueueEffects DEF SteerApply
  <2> QED
    BY <1>14, <1>0, <2>1, <2>2
    DEF SteerApply, At, Goto, CallAt, Throw, NotSteered, StartRun, Rest,
        runVars, seenVars, directVars
<1>15. CASE SteerTake
  <2>1. UNCHANGED appended /\ (UNCHANGED queue \/ \E i \in ItemIds : Take("steer", i))
    BY <1>15 DEF SteerTake, seenVars
  <2>2. UNCHANGED Done
    BY <1>0, <2>1, QueueEffects
  <2> QED
    BY <1>15, <1>0, <2>1, <2>2
    DEF SteerTake, At, Goto, CallAt, Throw, NotSteered, StartRun, Rest,
        runVars, seenVars, directVars
<1>16. CASE GoalEnqueue
  <2>1. UNCHANGED Done /\ UNCHANGED appended
    BY <1>16, <1>0, QueueEffects, EnqueueKeeps
    DEF GoalEnqueue, Rest, runVars, seenVars, directVars, Kinds, Sources
  <2> QED
    BY <1>16, <1>0, <2>1
    DEF GoalEnqueue, At, Goto, CallAt, Throw, NotSteered, StartRun, Rest,
        runVars, seenVars, directVars, Kinds, Sources
<1>17. CASE \E c \in Clients : PostStart(c)
  <2>1. UNCHANGED Done /\ UNCHANGED appended
    BY <1>17, <1>0, QueueEffects
    DEF PostStart, Rest, runVars, seenVars, directVars
  <2> QED
    BY <1>17, <1>0, <2>1
    DEF PostStart, At, Goto, CallAt, Throw, NotSteered, StartRun, Rest,
        runVars, seenVars, directVars
<1>18. CASE \E c \in Clients : CronFire(c)
  <2>1. UNCHANGED Done /\ UNCHANGED appended
    BY <1>18, <1>0, QueueEffects
    DEF CronFire, Rest, runVars, seenVars, directVars
  <2> QED
    BY <1>18, <1>0, <2>1
    DEF CronFire, At, Goto, CallAt, Throw, NotSteered, StartRun, Rest, runVars,
        seenVars, directVars
<1>19. CASE \E c \in Clients : Launch(c)
  <2>1. UNCHANGED Done /\ UNCHANGED appended
    BY <1>19, <1>0, QueueEffects
    DEF Launch, Rest, runVars, seenVars, directVars
  <2> QED
    BY <1>19, <1>0, <2>1
    DEF Launch, At, Goto, CallAt, Throw, NotSteered, StartRun, Rest, runVars,
        seenVars, directVars
<1>20. CASE \E c \in Clients : ListQueue(c)
  <2>1. UNCHANGED Done /\ UNCHANGED appended
    BY <1>20, <1>0, QueueEffects
    DEF ListQueue, Rest, runVars, seenVars, directVars
  <2> QED
    BY <1>20, <1>0, <2>1
    DEF ListQueue, At, Goto, CallAt, Throw, NotSteered, StartRun, Rest,
        runVars, seenVars, directVars
<1>21. CASE \E c \in Clients : FinishRecord(c)
  <2>1. UNCHANGED Done /\ UNCHANGED appended
    BY <1>21, <1>0, QueueEffects
    DEF FinishRecord, Rest, runVars, seenVars, directVars
  <2> QED
    BY <1>21, <1>0, <2>1
    DEF FinishRecord, At, Goto, CallAt, Throw, NotSteered, StartRun, Rest,
        runVars, seenVars, directVars
<1>22. CASE \E c \in Clients : ListFollowUps(c)
  <2>1. UNCHANGED Done /\ UNCHANGED appended
    BY <1>22, <1>0, QueueEffects
    DEF ListFollowUps, Rest, runVars, seenVars, directVars
  <2> QED
    BY <1>22, <1>0, <2>1
    DEF ListFollowUps, At, Goto, CallAt, Throw, NotSteered, StartRun, Rest,
        runVars, seenVars, directVars
<1>23. CASE \E c \in Clients : RequeueFollowUp(c)
  <2>1. UNCHANGED Done /\ UNCHANGED appended
    BY <1>23, <1>0, QueueEffects
    DEF RequeueFollowUp, Rest, runVars, seenVars, directVars
  <2> QED
    BY <1>23, <1>0, <2>1
    DEF RequeueFollowUp, At, Goto, CallAt, Throw, NotSteered, StartRun, Rest,
        runVars, seenVars, directVars
<1>24. CASE \E c \in Clients : TakeFollowUp(c)
  <2>1. UNCHANGED appended /\ (UNCHANGED queue \/ \E i \in ItemIds : Take("follow_up", i))
    BY <1>24 DEF TakeFollowUp, seenVars
  <2>2. UNCHANGED Done
    BY <1>0, <2>1, QueueEffects
  <2> QED
    BY <1>24, <1>0, <2>1, <2>2
    DEF TakeFollowUp, At, Goto, CallAt, Throw, NotSteered, StartRun, Rest,
        runVars, seenVars, directVars
<1>25. CASE \E c \in Clients : EnqueueItem(c)
  <2>1. PICK c \in Clients : EnqueueItem(c)
    BY <1>25
  <2>2. client[c] \in RequestInFlight
    BY <1>0 DEF RequestsOK
  <2>3. CASE Enqueue(client[c].kind, client[c].requestId, client[c].source)
    <3>1. UNCHANGED Done
      BY <1>0, <2>2, <2>3, EnqueueKeeps DEF RequestInFlight, Sources
    <3> QED
      BY <2>1, <3>1 DEF EnqueueItem, runVars, seenVars
  <2>4. CASE UNCHANGED queue
    BY <1>0, <2>1, <2>4, QueueEffects DEF EnqueueItem, runVars, seenVars
  <2> QED
    BY <2>1, <2>3, <2>4 DEF EnqueueItem
<1>26. CASE \E c \in Clients, req \in Requests \cup {NoRequest} : PostSteer(c, req)
  <2>1. UNCHANGED Done /\ UNCHANGED appended
    BY <1>26, <1>0, QueueEffects
    DEF PostSteer, Rest, runVars, seenVars, directVars
  <2> QED
    BY <1>26, <1>0, <2>1
    DEF PostSteer, At, Goto, CallAt, Throw, NotSteered, StartRun, Rest,
        runVars, seenVars, directVars
<1>27. CASE \E c \in Clients, req \in Requests \cup {NoRequest} : PostFollowUp(c, req)
  <2>1. UNCHANGED Done /\ UNCHANGED appended
    BY <1>27, <1>0, QueueEffects
    DEF PostFollowUp, Rest, runVars, seenVars, directVars
  <2> QED
    BY <1>27, <1>0, <2>1
    DEF PostFollowUp, At, Goto, CallAt, Throw, NotSteered, StartRun, Rest,
        runVars, seenVars, directVars
<1>28. CASE EditQueue
  <2>1. UNCHANGED Done /\ UNCHANGED appended
    BY <1>28, <1>0, QueueEffects, UpdateEffect
    DEF EditQueue, CancelItem, UpdateItem, Rest, runVars, seenVars, directVars
  <2> QED
    BY <1>28, <1>0, <2>1
    DEF EditQueue, CancelItem, UpdateItem, At, Goto, CallAt, Throw, NotSteered,
        StartRun, Rest, runVars, seenVars, directVars
<1>29. CASE Abort
  <2>1. UNCHANGED Done /\ UNCHANGED appended
    BY <1>29, <1>0, QueueEffects DEF Abort, Rest, runVars, seenVars, directVars
  <2> QED
    BY <1>29, <1>0, <2>1
    DEF Abort, At, Goto, CallAt, Throw, NotSteered, StartRun, Rest, runVars,
        seenVars, directVars
<1>30. CASE DirectStep \/ MoveBoundary
  <2>1. UNCHANGED Done /\ UNCHANGED appended
    BY <1>30, <1>0, QueueEffects
    DEF DirectStep, MoveBoundary, BeginShell, EndShell, BeginSave, EndSave, Direct, Rest,
        runVars, seenVars, directVars
  <2> QED
    BY <1>30, <1>0, <2>1
    DEF DirectStep, MoveBoundary, BeginShell, EndShell, BeginSave, EndSave, Direct, At, Goto,
        CallAt, Throw, NotSteered, StartRun, Rest, runVars, seenVars,
        directVars
<1>31. CASE Crash
  <2>1. UNCHANGED Done /\ UNCHANGED appended
    BY <1>31, <1>0, QueueEffects DEF Crash, Rest, runVars, seenVars, directVars
  <2> QED
    BY <1>31, <1>0, <2>1
    DEF Crash, At, Goto, CallAt, Throw, NotSteered, StartRun, Rest, runVars,
        seenVars, directVars
<1>32. CASE UNCHANGED vars
  <2>1. UNCHANGED Done /\ UNCHANGED appended
    BY <1>32, <1>0, QueueEffects DEF vars, Rest, runVars, seenVars, directVars
  <2> QED
    BY <1>32, <1>0, <2>1
    DEF vars, At, Goto, CallAt, Throw, NotSteered, StartRun, Rest, runVars,
        seenVars, directVars
<1> QED
  BY <1>1, <1>2, <1>3, <1>4, <1>5, <1>6, <1>7, <1>8, <1>9, <1>10, <1>11,
     <1>12, <1>13, <1>14, <1>15, <1>16, <1>17, <1>18, <1>19, <1>20, <1>21,
     <1>22, <1>23, <1>24, <1>25, <1>26, <1>27, <1>28, <1>29, <1>30, <1>31,
     <1>32
  DEF Next, RunStep, Post, ClientStep, StarterStep

\* HistoryAgrees: an applied item is in the history, whatever fails, and a
\* cancelled one is not unless storage failed.
THEOREM HistoryIsFaithful == Spec => []HistoryAgrees
<1>1. TypeOK /\ ClaimInv /\ AppliedIsRecorded => HistoryAgrees
  <2> SUFFICES ASSUME TypeOK, ClaimInv, AppliedIsRecorded, NEW i \in DOMAIN queue
               PROVE  /\ queue[i].status = "applied" => appended[i] > 0
                      /\ queue[i].status = "cancelled" /\ faults = 0 => appended[i] = 0
    BY DEF HistoryAgrees
  <2>1. i \in ItemIds
    BY ItemsBounded DEF TypeOK
  <2> QED
    BY <2>1 DEF AppliedIsRecorded, Done, Claimed, Consuming, ClaimInv, Recorded
<1> QED
  BY <1>1, Invariants, AppliedInit, AppliedStep, PTL DEF Spec

(***************************************************************************)
(* What a step does to the items of the queue, apart from their status:    *)
(* nothing, or an item is added, or the user edits the queue.              *)
(***************************************************************************)
\* Every item keeps its kind, its source and its request.
SameItems ==
    /\ DOMAIN queue' = DOMAIN queue
    /\ \A i \in DOMAIN queue : /\ queue'[i].kind = queue[i].kind
                               /\ queue'[i].source = queue[i].source
                               /\ queue'[i].requestId = queue[i].requestId

\* An item may be added; a continuation only by the run that decided on it.
Added == \E kind \in Kinds, req \in Requests \cup {NoRequest}, source \in Sources :
            /\ Enqueue(kind, req, source)
            /\ source = "goal" => kind = "follow_up" /\ GoalEnqueue

\* A change of status, or none, keeps the items.
LEMMA StatusItems ==
    ASSUME QueueTypeOK
    PROVE  /\ \A i, from : \A to \in Statuses : SetStatus(i, from, to) => SameItems
           /\ UNCHANGED queue => SameItems
<1>1. ASSUME NEW i, NEW from, NEW to \in Statuses, SetStatus(i, from, to)
      PROVE  SameItems
  <2>1. i \in DOMAIN queue /\ queue' = [queue EXCEPT ![i].status = to]
    BY <1>1 DEF SetStatus
  <2>2. queue[i] \in QueueItem
    BY <2>1, ItemsBounded
  <2>3. /\ [queue[i] EXCEPT !.status = to].kind = queue[i].kind
        /\ [queue[i] EXCEPT !.status = to].source = queue[i].source
        /\ [queue[i] EXCEPT !.status = to].requestId = queue[i].requestId
    BY <2>2 DEF QueueItem
  <2> QED
    BY <2>1, <2>3 DEF SameItems
<1>2. UNCHANGED queue => SameItems
  BY DEF SameItems
<1> QED
  BY <1>1, <1>2

\* No other step touches the items.
LEMMA QueueMoves == TypeOK /\ [Next]_vars => SameItems \/ Added \/ EditQueue
<1> SUFFICES ASSUME TypeOK, [Next]_vars PROVE SameItems \/ Added \/ EditQueue
  OBVIOUS
<1>0. QueueTypeOK /\ client \in [Clients -> RequestInFlight]
  BY DEF TypeOK, RequestsOK
<1>1. \A i, from : \A to \in Statuses : SetStatus(i, from, to) => SameItems
  BY <1>0, StatusItems
<1>2. UNCHANGED queue => SameItems
  BY <1>0, StatusItems
<1>3. \A kind, i : Take(kind, i) => SameItems
  BY <1>1 DEF Take, Statuses
<1>4. \A i : Apply(i) \/ Requeue(i) => SameItems
  BY <1>1, <1>2 DEF Apply, Requeue, Statuses
<1>5. CASE RunStep
  <2>1. CASE GoalEnqueue
    BY <2>1, <1>2 DEF GoalEnqueue, Added, Kinds, Sources
  <2> QED
    BY <1>5, <1>2, <1>3, <1>4, <2>1
    DEF RunStep, AppendTrigger, ApplyFollowUp, BeginTurn, FinishTurn, SteerTake, SteerAppend,
        SteerApply, SteerRequeue, Settle, Commit, Catch, Cleanup, Goal, GoalList, EndRun
<1>6. CASE \E c \in Clients : Post(c) \/ ClientStep(c) \/ StarterStep(c)
  <2>1. PICK c \in Clients : Post(c) \/ ClientStep(c) \/ StarterStep(c)
    BY <1>6
  <2>2. CASE EnqueueItem(c)
    <3>1. client[c] \in RequestInFlight
      BY <1>0
    <3> QED
      BY <2>2, <1>2, <3>1 DEF EnqueueItem, Added, RequestInFlight, Sources
  <2>3. CASE Post(c) \/ Launch(c) \/ ListQueue(c)
    BY <2>3, <1>2 DEF Post, PostStart, CronFire, PostSteer, PostFollowUp, Launch, ListQueue
  <2>4. CASE StarterStep(c)
    BY <2>4, <1>2, <1>3, <1>4
    DEF StarterStep, FinishRecord, ListFollowUps, TakeFollowUp, RequeueFollowUp
  <2> QED
    BY <2>1, <2>2, <2>3, <2>4 DEF ClientStep
<1>7. CASE Abort \/ DirectStep \/ MoveBoundary \/ Crash \/ UNCHANGED vars
  BY <1>7, <1>2
  DEF Abort, DirectStep, MoveBoundary, BeginShell, EndShell, BeginSave, EndSave, Direct, Crash, vars
<1> QED
  BY <1>5, <1>6, <1>7 DEF Next

\* What Enqueue does: nothing, or one item more, if no item has its request.
LEMMA AddedItem ==
    ASSUME QueueTypeOK,
           NEW kind \in Kinds, NEW req \in Requests \cup {NoRequest}, NEW source \in Sources,
           Enqueue(kind, req, source)
    PROVE  /\ DOMAIN queue \subseteq DOMAIN queue'
           /\ \A i \in DOMAIN queue : queue'[i] = queue[i]
           /\ \/ DOMAIN queue' = DOMAIN queue
              \/ \E n : /\ DOMAIN queue' = DOMAIN queue \cup {n} /\ n \notin DOMAIN queue
                        /\ n \in ItemIds
                        /\ queue'[n].kind = kind /\ queue'[n].requestId = req
                        /\ queue'[n].source = source /\ queue'[n].status = "queued"
                        /\ Reusable(kind, req) = {}
<1>1. CASE UNCHANGED queue
  BY <1>1
<1>2. CASE /\ Len(queue) < MaxItems /\ Reusable(kind, req) = {}
           /\ queue' = Append(queue, [kind |-> kind, status |-> "queued",
                                      requestId |-> req, source |-> source])
  <2> DEFINE item == [kind |-> kind, status |-> "queued",
                      requestId |-> req, source |-> source]
             n == Len(queue) + 1
  <2>1. item \in QueueItem /\ item.kind = kind /\ item.status = "queued"
        /\ item.requestId = req /\ item.source = source
    BY DEF QueueItem, Statuses
  <2>2. queue \in Seq(QueueItem) /\ queue' = Append(queue, item) /\ Len(queue) \in Nat
    BY <1>2 DEF QueueTypeOK
  <2> HIDE DEF item
  <2>3. /\ queue' \in Seq(QueueItem) /\ Len(queue') = n
        /\ \A j \in 1..Len(queue) : queue'[j] = queue[j]
        /\ queue'[n] = item
    BY <2>1, <2>2
  <2>4. DOMAIN queue = 1..Len(queue) /\ DOMAIN queue' = 1..n
    BY <2>2, <2>3
  <2>5. n \in ItemIds
    BY <1>2, <2>2, MaxItemsAssumption DEF ItemIds
  <2>6. DOMAIN queue' = DOMAIN queue \cup {n} /\ n \notin DOMAIN queue
    BY <2>2, <2>4
  <2> QED
    BY <1>2, <2>1, <2>3, <2>4, <2>5, <2>6
<1> QED
  BY <1>1, <1>2 DEF Enqueue

\* RetriesDeduplicated: whoever interleaves, two items never carry one request of one
\* kind, because Enqueue looks at the whole file, delivered items included.
THEOREM RetriesAreDeduplicated == Spec => []RetriesDeduplicated
<1>1. Init => RetriesDeduplicated
  BY DEF Init, QueueInit, RetriesDeduplicated
<1>2. TypeOK /\ RetriesDeduplicated /\ [Next]_vars => RetriesDeduplicated'
  <2> SUFFICES ASSUME TypeOK, RetriesDeduplicated, [Next]_vars, ~AllowEdits
               PROVE  RetriesDeduplicated'
    BY DEF RetriesDeduplicated
  <2>1. SameItems \/ Added
    BY QueueMoves DEF EditQueue, CancelItem, UpdateItem
  <2>2. CASE SameItems
    BY <2>2 DEF SameItems, RetriesDeduplicated
  <2>3. CASE Added
    <3>1. PICK kind \in Kinds, req \in Requests \cup {NoRequest}, source \in Sources :
              Enqueue(kind, req, source)
      BY <2>3 DEF Added
    <3>2. /\ \A i \in DOMAIN queue : queue'[i] = queue[i]
          /\ \/ DOMAIN queue' = DOMAIN queue
             \/ \E n : /\ DOMAIN queue' = DOMAIN queue \cup {n} /\ n \notin DOMAIN queue
                       /\ queue'[n].kind = kind /\ queue'[n].requestId = req
                       /\ Reusable(kind, req) = {}
      <4>1. QueueTypeOK
        BY DEF TypeOK
      <4>2. /\ \A i \in DOMAIN queue : queue'[i] = queue[i]
            /\ \/ DOMAIN queue' = DOMAIN queue
               \/ \E n : /\ DOMAIN queue' = DOMAIN queue \cup {n} /\ n \notin DOMAIN queue
                         /\ n \in ItemIds
                         /\ queue'[n].kind = kind /\ queue'[n].requestId = req
                         /\ queue'[n].source = source /\ queue'[n].status = "queued"
                         /\ Reusable(kind, req) = {}
        BY <3>1, <4>1, AddedItem
      <4> QED
        BY <4>2
    <3>3. CASE DOMAIN queue' = DOMAIN queue
      BY <3>2, <3>3 DEF RetriesDeduplicated
    <3>4. ASSUME NEW n, DOMAIN queue' = DOMAIN queue \cup {n}, queue'[n].kind = kind,
                 queue'[n].requestId = req, Reusable(kind, req) = {}
          PROVE  RetriesDeduplicated'
      <4>1. \A i \in DOMAIN queue :
               ~(req # NoRequest /\ queue[i].kind = kind /\ queue[i].requestId = req)
        BY <3>4 DEF Reusable
      <4>2. \A i \in DOMAIN queue : queue'[i] = queue[i]
        BY <3>2
      <4> SUFFICES ASSUME NEW i \in DOMAIN queue \cup {n}, NEW j \in DOMAIN queue \cup {n},
                          queue'[i].requestId = queue'[j].requestId,
                          queue'[i].requestId # NoRequest,
                          queue'[i].kind = queue'[j].kind
                   PROVE  i = j
        BY <3>4 DEF RetriesDeduplicated
      <4>3. CASE i \in DOMAIN queue /\ j \in DOMAIN queue
        BY <4>2, <4>3 DEF RetriesDeduplicated
      <4>4. CASE i = n \/ j = n
        BY <3>4, <4>1, <4>2, <4>4
      <4> QED
        BY <4>3, <4>4
    <3> QED
      BY <3>2, <3>3, <3>4
  <2> QED
    BY <2>1, <2>2, <2>3
<1> QED
  BY <1>1, <1>2, TypeCorrect, PTL DEF Spec

(***************************************************************************)
(* Cron prompts are not left behind.  CronNotStranded says nothing of the  *)
(* moments where a run, a starter or a request is still under way;         *)
(* CronInv says who will look at the queue then, and that the look comes   *)
(* after every item on its way back has been put back.                     *)
(***************************************************************************)
\* The last run left no reason to wait for the next one.
Open == outcome \in {"none", "completed"}

\* Where a run is once its outcome is known.
Closing == {"commit", "cleanup", "goal", "goalList", "goalEnqueue", "end"}

\* Somebody looks at the queue once more ...
Looking(states) == \E d \in Clients : starter[d].pc \in states

\* ... and does not do so before the starter c has put its item back.
LooksAfter(c) ==
    \E d \in Clients :
        \/ starter[d].pc = "finish"
        \/ starter[d].pc = "list" /\ <<"start", c>> \in ahead[<<"start", d>>]

\* A run that ended well schedules the next follow-up, and nothing else settles.
EndInv ==
    /\ ~Running => ~settling
    /\ Calm /\ pc \in Closing =>
          \/ outcome \in {"paused", "aborted", "failed"}
          \/ outcome = "completed" /\ schedule

\* While the session is idle and nothing failed, a queued cron prompt has a starter that
\* will look at the queue, and an item on its way back has one that looks afterwards.
CronInv ==
    Calm /\ ~AllowEdits /\ ~Running /\ Open =>
        /\ \A i \in Queued("follow_up") :
              queue[i].source = "cron" => Looking({"finish", "list", "take"})
        /\ \A c \in Clients : starter[c].pc = "requeue" => LooksAfter(c)

\* EndInv is inductive.
LEMMA EndStep == TypeOK /\ EndInv /\ [Next]_vars => EndInv'
<1> SUFFICES ASSUME TypeOK, EndInv, [Next]_vars PROVE EndInv'
  OBVIOUS
<1>t. /\ faults \in Nat /\ crashes \in Nat
      /\ settling \in BOOLEAN /\ aborted \in BOOLEAN /\ schedule \in BOOLEAN
  BY LimitAssumption DEF TypeOK, CountsOK, FlagsOK
<1> USE DEF EndInv, Calm, Closing, Running, At, Goto, CallAt, Throw, NotSteered, StartRun,
            FaultOr, Fault, NoFault, Dismiss, StarterCalls, Direct, Rest, runVars, directVars,
            seenVars, faultVars
<1>1. CASE AppendTrigger
  BY <1>1, <1>t DEF AppendTrigger
<1>2. CASE ApplyFollowUp
  BY <1>2, <1>t DEF ApplyFollowUp
<1>3. CASE BeginTurn
  BY <1>3, <1>t DEF BeginTurn
<1>4. CASE FinishTurn
  BY <1>4, <1>t DEF FinishTurn
<1>5. CASE SteerTake
  BY <1>5, <1>t DEF SteerTake
<1>6. CASE SteerAppend
  BY <1>6, <1>t DEF SteerAppend
<1>7. CASE SteerApply
  BY <1>7, <1>t DEF SteerApply
<1>8. CASE SteerRequeue
  BY <1>8, <1>t DEF SteerRequeue
<1>9. CASE Settle
  BY <1>9, <1>t DEF Settle
<1>10. CASE Commit
  BY <1>10, <1>t DEF Commit
<1>11. CASE Catch
  BY <1>11, <1>t DEF Catch
<1>12. CASE Cleanup
  BY <1>12, <1>t DEF Cleanup
<1>13. CASE Goal
  BY <1>13, <1>t DEF Goal
<1>14. CASE GoalList
  BY <1>14, <1>t DEF GoalList
<1>15. CASE GoalEnqueue
  BY <1>15, <1>t DEF GoalEnqueue
<1>16. CASE EndRun
  BY <1>16, <1>t DEF EndRun
<1>17. CASE \E c \in Clients : PostStart(c)
  BY <1>17, <1>t DEF PostStart
<1>18. CASE \E c \in Clients : CronFire(c)
  BY <1>18, <1>t DEF CronFire
<1>19. CASE \E c \in Clients : Launch(c)
  BY <1>19, <1>t DEF Launch, CanRun
<1>20. CASE \E c \in Clients : ListQueue(c)
  BY <1>20, <1>t DEF ListQueue
<1>21. CASE \E c \in Clients : EnqueueItem(c)
  BY <1>21, <1>t DEF EnqueueItem
<1>22. CASE \E c \in Clients : FinishRecord(c)
  BY <1>22, <1>t DEF FinishRecord
<1>23. CASE \E c \in Clients : ListFollowUps(c)
  BY <1>23, <1>t DEF ListFollowUps
<1>24. CASE \E c \in Clients : TakeFollowUp(c)
  BY <1>24, <1>t DEF TakeFollowUp, CanRun
<1>25. CASE \E c \in Clients : RequeueFollowUp(c)
  BY <1>25, <1>t DEF RequeueFollowUp
<1>26. CASE \E c \in Clients, req \in Requests \cup {NoRequest} : PostSteer(c, req)
  BY <1>26, <1>t DEF PostSteer
<1>27. CASE \E c \in Clients, req \in Requests \cup {NoRequest} : PostFollowUp(c, req)
  BY <1>27, <1>t DEF PostFollowUp
<1>28. CASE EditQueue
  BY <1>28, <1>t DEF EditQueue, CancelItem, UpdateItem
<1>29. CASE Abort
  BY <1>29, <1>t DEF Abort
<1>30. CASE DirectStep \/ MoveBoundary
  BY <1>30, <1>t DEF DirectStep, MoveBoundary, BeginShell, EndShell, BeginSave, EndSave
<1>31. CASE Crash
  BY <1>31, <1>t DEF Crash
<1>32. CASE UNCHANGED vars
  BY <1>32, <1>t DEF vars
<1> QED
  BY <1>1, <1>2, <1>3, <1>4, <1>5, <1>6, <1>7, <1>8, <1>9, <1>10, <1>11,
     <1>12, <1>13, <1>14, <1>15, <1>16, <1>17, <1>18, <1>19, <1>20, <1>21,
     <1>22, <1>23, <1>24, <1>25, <1>26, <1>27, <1>28, <1>29, <1>30, <1>31,
     <1>32
  DEF Next, RunStep, Post, ClientStep, StarterStep

\* A caller that goes on waits no longer for the one that is done; the others do.
LEMMA AheadStays ==
    ASSUME NEW done, NEW callers, Calls(done, callers), NEW c \in Clients, NEW d \in Clients,
           done # <<"start", c>>, done # <<"start", d>>, <<"start", d>> \notin callers,
           <<"start", c>> \in ahead[<<"start", d>>]
    PROVE  <<"start", c>> \in ahead'[<<"start", d>>]
<1>1. <<"start", d>> \in Callers
  BY DEF Callers
<1>2. ahead'[<<"start", d>>] = ahead[<<"start", d>>] \ {done}
  BY <1>1 DEF Calls
<1> QED
  BY <1>2

\* A starter that moves takes nothing from those that look after another one.
LEMMA LooksStill ==
    ASSUME NEW e \in Clients, starter[e].pc # "finish",
           starter[e].pc = "list" => ahead[<<"start", e>>] = {},
           \A d \in Clients \ {e} : starter'[d] = starter[d],
           NEW callers, callers \subseteq {<<"start", e>>}, Calls(<<"start", e>>, callers),
           NEW c \in Clients \ {e}, LooksAfter(c)
    PROVE  LooksAfter(c)'
<1>1. PICK d \in Clients : \/ starter[d].pc = "finish"
                           \/ starter[d].pc = "list" /\ <<"start", c>> \in ahead[<<"start", d>>]
  BY DEF LooksAfter
<1>2. d # e
  BY <1>1
<1>3. <<"start", c>> \in ahead[<<"start", d>>] => <<"start", c>> \in ahead'[<<"start", d>>]
  BY <1>2, AheadStays
<1> QED
  BY <1>1, <1>2, <1>3 DEF LooksAfter

\* Nor does a request.
LEMMA RequestLooks ==
    ASSUME NEW e, NEW callers, Calls(<<"request", e>>, callers),
           NEW c \in Clients, LooksAfter(c),
           \A d \in Clients : starter[d].pc # "idle" =>
              starter'[d] = starter[d] /\ <<"start", d>> \notin callers
    PROVE  LooksAfter(c)'
<1>1. PICK d \in Clients : \/ starter[d].pc = "finish"
                           \/ starter[d].pc = "list" /\ <<"start", c>> \in ahead[<<"start", d>>]
  BY DEF LooksAfter
<1>2. <<"start", c>> \in ahead[<<"start", d>>] => <<"start", c>> \in ahead'[<<"start", d>>]
  BY <1>1, AheadStays
<1> QED
  BY <1>1, <1>2 DEF LooksAfter

\* CronInv is inductive, with TypeOK, OneStarter and EndInv.
LEMMA CronStep == TypeOK /\ OneStarter /\ EndInv /\ CronInv /\ [Next]_vars => CronInv'
<1> SUFFICES ASSUME TypeOK, OneStarter, EndInv, CronInv, [Next]_vars,
                    Calm', ~AllowEdits, ~Running', Open'
             PROVE  /\ \A i \in Queued("follow_up")' :
                          queue'[i].source = "cron" => Looking({"finish", "list", "take"})'
                    /\ \A c \in Clients : starter'[c].pc = "requeue" => LooksAfter(c)'
  BY DEF CronInv
<1>t. /\ faults \in Nat /\ crashes \in Nat
      /\ starter \in [Clients -> Start] /\ owner \in Clients
      /\ client \in [Clients -> RequestInFlight]
      /\ QueueTypeOK
  BY LimitAssumption DEF TypeOK, CountsOK, RequestsOK, LoopOK
<1>o. ~Running /\ Open /\ Calm =>
         /\ \A i \in Queued("follow_up") :
               queue[i].source = "cron" => Looking({"finish", "list", "take"})
         /\ \A c \in Clients : starter[c].pc = "requeue" => LooksAfter(c)
  BY DEF CronInv
<1> DEFINE Same == UNCHANGED <<queue, starter, ahead, pc, outcome, faults, crashes>>
<1>s. Same => \A c \in Clients : LooksAfter(c) => LooksAfter(c)'
  BY DEF LooksAfter
<1>1. CASE Same
  BY <1>1, <1>o, <1>s DEF Running, Open, Calm, Queued, Looking
<1>2. CASE RunStep
  <2>1. CASE EndRun
    <3>1. /\ pc = "end" /\ UNCHANGED <<faults, crashes>>
          /\ outcome' = IF aborted THEN "aborted" ELSE outcome
      BY <2>1 DEF EndRun, At, faultVars
    <3>2. outcome' \notin {"paused", "aborted", "failed"} /\ Calm
      BY <3>1 DEF Open, Calm
    <3>3. schedule /\ ~aborted
      BY <3>1, <3>2 DEF EndInv, Closing
    <3>4. starter'[owner].pc = "finish"
      BY <1>t, <2>1, <3>3 DEF EndRun
    <3> QED
      BY <1>t, <3>4 DEF Looking, LooksAfter
  <2>2. CASE ~EndRun
    <3>1. pc' # "idle"
      BY <1>2, <2>2
      DEF RunStep, AppendTrigger, ApplyFollowUp, BeginTurn, FinishTurn, SteerTake, SteerAppend,
          SteerApply, SteerRequeue, Settle, Commit, Catch, Cleanup, Goal, GoalList, GoalEnqueue,
          Goto, CallAt, Throw, NotSteered
    <3> QED
      BY <3>1 DEF Running
  <2> QED
    BY <2>1, <2>2
<1>3. ASSUME NEW e \in Clients, FinishRecord(e)
      PROVE  /\ \A i \in Queued("follow_up")' :
                   queue'[i].source = "cron" => Looking({"finish", "list", "take"})'
             /\ \A c \in Clients : starter'[c].pc = "requeue" => LooksAfter(c)'
  <2>1. /\ starter[e].pc = "finish" /\ StarterCalls(e, "list")
    BY <1>3, <1>t DEF FinishRecord, Fault, Running, runVars, Calm
  <2>2. /\ starter'[e].pc = "list" /\ \A d \in Clients \ {e} : starter'[d] = starter[d]
    BY <2>1, <1>t DEF StarterCalls, Start
  <2>3. ahead'[<<"start", e>>] = Writing \ {<<"start", e>>}
    BY <2>1 DEF StarterCalls, Calls, Callers
  <2>4. ASSUME NEW c \in Clients, starter'[c].pc = "requeue" PROVE LooksAfter(c)'
    <3>1. c # e /\ starter[c].pc = "requeue"
      BY <2>2, <2>4
    <3>2. <<"start", c>> \in Writing \ {<<"start", e>>}
      BY <3>1 DEF Writing
    <3> QED
      BY <2>2, <2>3, <3>2 DEF LooksAfter
  <2> QED
    BY <2>2, <2>4 DEF Looking
<1>4. ASSUME NEW e \in Clients, ListFollowUps(e)
      PROVE  /\ \A i \in Queued("follow_up")' :
                   queue'[i].source = "cron" => Looking({"finish", "list", "take"})'
             /\ \A c \in Clients : starter'[c].pc = "requeue" => LooksAfter(c)'
  <2>1. /\ starter[e].pc = "list" /\ ahead[<<"start", e>>] = {}
        /\ UNCHANGED <<queue, pc, outcome, faults, crashes>>
    BY <1>4 DEF ListFollowUps, MyTurn, runVars, faultVars
  <2>2. PICK callers : callers \subseteq {<<"start", e>>} /\ Calls(<<"start", e>>, callers)
    BY <1>4 DEF ListFollowUps, Dismiss, StarterCalls
  <2>3. /\ \A d \in Clients \ {e} : starter'[d] = starter[d]
        /\ starter'[e].pc # "requeue"
        /\ Queued("follow_up") # {} => starter'[e].pc = "take"
    BY <1>4, <1>t DEF ListFollowUps, Dismiss, StarterCalls, Start, NoStart
  <2>4. ~Running /\ Open /\ Calm
    BY <2>1 DEF Running, Open, Calm
  <2>5. ASSUME NEW c \in Clients, starter'[c].pc = "requeue" PROVE LooksAfter(c)'
    <3>1. c \in Clients \ {e} /\ LooksAfter(c)
      BY <1>o, <2>3, <2>4, <2>5
    <3> QED
      BY <2>1, <2>2, <2>3, <3>1, LooksStill
  <2>6. Queued("follow_up")' = Queued("follow_up")
    BY <2>1 DEF Queued
  <2> QED
    BY <2>3, <2>5, <2>6 DEF Looking
<1>5. ASSUME NEW e \in Clients, TakeFollowUp(e)
      PROVE  /\ \A i \in Queued("follow_up")' :
                   queue'[i].source = "cron" => Looking({"finish", "list", "take"})'
             /\ \A c \in Clients : starter'[c].pc = "requeue" => LooksAfter(c)'
  <2>1. /\ starter[e].pc = "take" /\ Queued("follow_up") = {} /\ Dismiss(e)
        /\ UNCHANGED <<queue, pc, outcome, faults, crashes>>
    BY <1>5, <1>t
    DEF TakeFollowUp, StartRun, Running, Open, Calm, Fault, FaultOr, NoFault, faultVars, runVars
  <2>2. Calls(<<"start", e>>, {})
    BY <2>1 DEF Dismiss
  <2>3. /\ \A d \in Clients \ {e} : starter'[d] = starter[d]
        /\ starter'[e].pc # "requeue"
    BY <2>1, <1>t DEF Dismiss, Start, NoStart
  <2>4. ~Running /\ Open /\ Calm
    BY <2>1 DEF Running, Open, Calm
  <2>5. ASSUME NEW c \in Clients, starter'[c].pc = "requeue" PROVE LooksAfter(c)'
    <3>1. c \in Clients \ {e} /\ LooksAfter(c)
      BY <1>o, <2>3, <2>4, <2>5
    <3> QED
      BY <2>1, <2>2, <2>3, <3>1, LooksStill
  <2>6. Queued("follow_up")' = {}
    BY <2>1 DEF Queued
  <2> QED
    BY <2>5, <2>6
<1>6. ASSUME NEW e \in Clients, RequeueFollowUp(e)
      PROVE  /\ \A i \in Queued("follow_up")' :
                   queue'[i].source = "cron" => Looking({"finish", "list", "take"})'
             /\ \A c \in Clients : starter'[c].pc = "requeue" => LooksAfter(c)'
  <2>1. /\ starter[e].pc = "requeue" /\ Dismiss(e)
        /\ UNCHANGED <<pc, outcome>>
        /\ UNCHANGED <<faults, crashes>>
    BY <1>6, <1>t DEF RequeueFollowUp, Fault, NoFault, faultVars, runVars, Calm
  <2>2. Calls(<<"start", e>>, {})
    BY <2>1 DEF Dismiss
  <2>3. /\ \A d \in Clients \ {e} : starter'[d] = starter[d]
        /\ starter'[e].pc # "requeue"
    BY <2>1, <1>t DEF Dismiss, Start, NoStart
  <2>4. ~Running /\ Open /\ Calm
    BY <2>1 DEF Running, Open, Calm
  <2>5. ASSUME NEW c \in Clients, starter'[c].pc = "requeue" PROVE LooksAfter(c)'
    <3>1. c \in Clients \ {e} /\ LooksAfter(c)
      BY <1>o, <2>3, <2>4, <2>5
    <3> QED
      BY <2>1, <2>2, <2>3, <3>1, LooksStill
  <2>6. Looking({"finish", "list"})'
    <3>1. LooksAfter(e)
      BY <1>o, <2>1, <2>4
    <3>2. PICK d \in Clients : starter[d].pc \in {"finish", "list"}
      BY <3>1 DEF LooksAfter
    <3>3. d # e
      BY <2>1, <3>2
    <3> QED
      BY <2>3, <3>2, <3>3 DEF Looking
  <2> QED
    BY <2>5, <2>6 DEF Looking
<1>7. ASSUME NEW e \in Clients, Post(e) \/ ListQueue(e)
      PROVE  /\ \A i \in Queued("follow_up")' :
                   queue'[i].source = "cron" => Looking({"finish", "list", "take"})'
             /\ \A c \in Clients : starter'[c].pc = "requeue" => LooksAfter(c)'
  <2>1. UNCHANGED <<queue, pc, outcome, faults, crashes, starter>>
    BY <1>7 DEF Post, PostStart, CronFire, PostSteer, PostFollowUp, ListQueue, runVars, faultVars
  <2>2. \/ UNCHANGED ahead
        \/ \E callers \in SUBSET {<<"request", e>>} : Calls(<<"request", e>>, callers)
    BY <1>7 DEF Post, PostStart, CronFire, PostSteer, PostFollowUp, ListQueue, NoCall
  <2>3. CASE UNCHANGED ahead
    BY <1>1, <2>1, <2>3
  <2>4. ASSUME NEW callers \in SUBSET {<<"request", e>>}, Calls(<<"request", e>>, callers)
        PROVE  \A c \in Clients : LooksAfter(c) => LooksAfter(c)'
    <3>1. \A d \in Clients : starter'[d] = starter[d] /\ <<"start", d>> \notin callers
      BY <2>1
    <3> QED
      BY <2>4, <3>1, RequestLooks
  <2> QED
    BY <1>o, <2>1, <2>2, <2>3, <2>4 DEF Running, Open, Calm, Queued, Looking
<1>8. ASSUME NEW e \in Clients, EnqueueItem(e)
      PROVE  /\ \A i \in Queued("follow_up")' :
                   queue'[i].source = "cron" => Looking({"finish", "list", "take"})'
             /\ \A c \in Clients : starter'[c].pc = "requeue" => LooksAfter(c)'
  <2>1. UNCHANGED <<pc, outcome, faults, crashes>>
    BY <1>8, <1>t DEF EnqueueItem, FaultOr, Fault, NoFault, runVars, faultVars, Calm
  <2>2. ~Running /\ Open /\ Calm /\ ~settling
    BY <2>1 DEF Running, Open, Calm, EndInv
  <2>3. \/ /\ starter' = [starter EXCEPT ![e].pc = "list"] /\ client[e].source = "cron"
           /\ Calls(<<"request", e>>, {<<"start", e>>})
        \/ /\ UNCHANGED starter /\ Calls(<<"request", e>>, {})
           /\ \/ UNCHANGED queue
              \/ /\ client[e].source # "cron"
                 /\ Enqueue(client[e].kind, client[e].requestId, client[e].source)
    BY <1>8, <2>2 DEF EnqueueItem, StartsFollowUp
  <2>4. CASE /\ starter' = [starter EXCEPT ![e].pc = "list"] /\ client[e].source = "cron"
             /\ Calls(<<"request", e>>, {<<"start", e>>})
    <3>1. starter[e].pc = "idle"
      BY <2>4 DEF OneStarter, NoStart
    <3>2. starter'[e].pc = "list" /\ \A d \in Clients \ {e} : starter'[d] = starter[d]
      BY <2>4, <1>t DEF Start
    <3>3. \A d \in Clients : starter[d].pc # "idle" =>
             starter'[d] = starter[d] /\ <<"start", d>> \notin {<<"start", e>>}
      BY <3>1, <3>2
    <3>4. ASSUME NEW c \in Clients, starter'[c].pc = "requeue" PROVE LooksAfter(c)'
      <4>1. LooksAfter(c)
        BY <1>o, <2>2, <3>2, <3>4
      <4> QED
        BY <2>4, <3>3, <4>1, RequestLooks
    <3> QED
      BY <3>2, <3>4 DEF Looking
  <2>5. CASE /\ UNCHANGED starter /\ Calls(<<"request", e>>, {})
             /\ \/ UNCHANGED queue
                \/ /\ client[e].source # "cron"
                   /\ Enqueue(client[e].kind, client[e].requestId, client[e].source)
    <3>1. \A c \in Clients : LooksAfter(c) => LooksAfter(c)'
      BY <2>5, RequestLooks
    <3>2. ASSUME NEW i \in Queued("follow_up")', queue'[i].source = "cron"
          PROVE  i \in Queued("follow_up") /\ queue[i].source = "cron"
      <4>1. CASE UNCHANGED queue
        BY <3>2, <4>1 DEF Queued
      <4>2. CASE /\ client[e].source # "cron"
                 /\ Enqueue(client[e].kind, client[e].requestId, client[e].source)
        <5>1. client[e] \in RequestInFlight
          BY <1>t
        <5>2. PICK kind \in Kinds, req \in Requests \cup {NoRequest}, source \in Sources :
                 source # "cron" /\ Enqueue(kind, req, source)
          BY <4>2, <5>1 DEF RequestInFlight, Sources
        <5>t. QueueTypeOK
          BY <1>t
        <5>3. /\ \A j \in DOMAIN queue : queue'[j] = queue[j]
              /\ \/ DOMAIN queue' = DOMAIN queue
                 \/ \E n : /\ DOMAIN queue' = DOMAIN queue \cup {n} /\ n \notin DOMAIN queue
                           /\ queue'[n].source = source
          BY <5>t, <5>2, AddedItem
        <5> QED
          BY <3>2, <5>2, <5>3 DEF Queued
      <4> QED
        BY <2>5, <4>1, <4>2
    <3> QED
      BY <1>o, <2>2, <2>5, <3>1, <3>2 DEF Looking
  <2> QED
    BY <2>3, <2>4, <2>5
<1>9. ASSUME NEW e \in Clients, Launch(e)
      PROVE  Same
  BY <1>9 DEF Launch, StartRun, Running, runVars, faultVars, NoCall
<1>10. CASE Abort \/ DirectStep \/ MoveBoundary
  <2>1. Same
    BY <1>10
    DEF Abort, DirectStep, MoveBoundary, BeginShell, EndShell, BeginSave, EndSave, Direct, NoCall, runVars,
        faultVars
  <2> QED
    BY <1>1, <2>1
<1>11. ~Crash
  BY <1>t DEF Crash, Calm
<1>12. CASE UNCHANGED vars
  BY <1>1, <1>12 DEF vars, runVars, faultVars
<1>13. ~EditQueue
  BY DEF EditQueue, CancelItem, UpdateItem
<1> QED
  BY <1>1, <1>2, <1>3, <1>4, <1>5, <1>6, <1>7, <1>8, <1>9, <1>10, <1>11, <1>12, <1>13
  DEF Next, ClientStep, StarterStep

\* Both hold at the start.
LEMMA EndCronStart == Init => EndInv /\ CronInv
BY DEF Init, QueueInit, EndInv, CronInv, Running, Closing, Queued, NoStart

\* CronNotStranded: in a quiet session whose last run ended well no cron prompt is
\* left in the queue, unless something failed or an item was edited.
THEOREM CronsAreServed == Spec => []CronNotStranded
<1>1. EndInv /\ CronInv => CronNotStranded
  BY DEF CronInv, CronNotStranded, Quiet, Open, Looking, NoStart
<1>2. Init => TypeOK /\ OneStarter /\ EndInv /\ CronInv
  BY InitType, OneStarterInit, EndCronStart
<1>3. /\ TypeOK /\ OneStarter /\ EndInv /\ CronInv /\ [Next]_vars
      => OneStarter' /\ EndInv' /\ CronInv'
  BY OneStarterStep, EndStep, CronStep
<1> QED
  BY <1>1, <1>2, <1>3, TypeCorrect, PTL DEF Spec

(***************************************************************************)
(* Continuations are bounded.  The count of those in the history does not  *)
(* tell how many are still to come; GoalsCounted adds the ones that wait   *)
(* in the queue or in the hands of somebody who will put them back, and    *)
(* the one a run has decided on.                                           *)
(***************************************************************************)
\* The claimed item has somebody who will append it or put it back.
Waiting(i) == (pc = "start" /\ i = runItem) \/ \E c \in Clients : HeldByStarter(c, i)

\* The continuations that are still to be appended.
Coming ==
    {i \in DOMAIN queue :
        /\ queue[i].source = "goal"
        /\ queue[i].status = "queued" \/ (queue[i].status = "consuming" /\ Waiting(i))}

\* A run that has decided to continue.
Continuing == IF pc \in {"goalList", "goalEnqueue"} THEN 1 ELSE 0

\* Those in the active segment of the history, those to come, and the one that is being enqueued.
GoalsCounted == goals + Cardinality(Coming) + Continuing <= MaxGoals + Cardinality(Clients) - 1

\* Continuations are follow-ups: steering never takes one.
KindsOfGoals ==
    /\ \A i \in DOMAIN queue : queue[i].source = "goal" => queue[i].kind = "follow_up"
    /\ steerItem # NoItem => steerItem \in DOMAIN queue /\ queue[steerItem].kind = "steer"

\* Inductive with the claims; the user may not edit the queue.
GoalInv == ~AllowEdits /\ faults = 0 => KindsOfGoals /\ GoalsCounted

\* They are finitely many.
LEMMA ComingIs ==
    ASSUME QueueTypeOK
    PROVE  /\ Coming \subseteq ItemIds
           /\ IsFiniteSet(Coming) /\ Cardinality(Coming) \in Nat
<1>1. Coming \subseteq ItemIds
  BY ItemsBounded DEF Coming
<1>2. IsFiniteSet(ItemIds)
  BY MaxItemsAssumption, FS_Interval DEF ItemIds
<1>3. IsFiniteSet(Coming)
  BY <1>1, <1>2, FS_Subset
<1> QED
  BY <1>1, <1>3, FS_CardinalityType

\* A step that appends nothing more and adds nothing keeps the count.
LEMMA FewerComing ==
    ASSUME QueueTypeOK, QueueTypeOK', goals \in Nat, goals' \in Nat, GoalsCounted,
           Coming' \subseteq Coming, goals' <= goals, Continuing' <= Continuing
    PROVE  GoalsCounted'
<1>1. Cardinality(Coming') <= Cardinality(Coming)
  BY ComingIs, FS_Subset
<1>2. Cardinality(Coming) \in Nat /\ Cardinality(Coming') \in Nat
  <2>1. (QueueTypeOK => Cardinality(Coming) \in Nat)'
    BY ComingIs, PTL
  <2> QED
    BY <2>1, ComingIs
<1>3. Cardinality(Clients) \in Nat /\ MaxGoals \in Nat
  BY ClientsAssumption, LimitAssumption, FS_CardinalityType
<1>4. Continuing \in {0, 1} /\ Continuing' \in {0, 1}
  BY DEF Continuing
<1> QED
  BY <1>1, <1>2, <1>3, <1>4 DEF GoalsCounted

\* While the queue is left alone, only a new holder could make an item come.
LEMMA StillComing ==
    ASSUME UNCHANGED queue,
           \A i \in DOMAIN queue : queue[i].status = "consuming" /\ Waiting(i)' => Waiting(i)
    PROVE  Coming' \subseteq Coming
BY DEF Coming

\* KindsOfGoals is inductive.
LEMMA GoalKinds ==
    TypeOK /\ KindsOfGoals /\ ~AllowEdits /\ [Next]_vars => KindsOfGoals'
<1> SUFFICES ASSUME TypeOK, KindsOfGoals, ~AllowEdits, [Next]_vars PROVE KindsOfGoals'
  OBVIOUS
<1>1. SameItems \/ Added
  BY QueueMoves DEF EditQueue, CancelItem, UpdateItem
<1>2. /\ \A i \in DOMAIN queue : i \in DOMAIN queue' /\ queue'[i].kind = queue[i].kind
      /\ \A i \in DOMAIN queue' : queue'[i].source = "goal" => queue'[i].kind = "follow_up"
  <2>1. CASE SameItems
    BY <2>1 DEF SameItems, KindsOfGoals
  <2>2. CASE Added
    <3>1. PICK kind \in Kinds, req \in Requests \cup {NoRequest}, source \in Sources :
             Enqueue(kind, req, source) /\ (source = "goal" => kind = "follow_up")
      BY <2>2 DEF Added
    <3>e. Enqueue(kind, req, source)
      BY <3>1
    <3>t. QueueTypeOK
      BY DEF TypeOK
    <3>2. /\ DOMAIN queue \subseteq DOMAIN queue'
          /\ \A j \in DOMAIN queue : queue'[j] = queue[j]
          /\ \/ DOMAIN queue' = DOMAIN queue
             \/ \E n : /\ DOMAIN queue' = DOMAIN queue \cup {n} /\ n \notin DOMAIN queue
                       /\ n \in ItemIds
                       /\ queue'[n].kind = kind /\ queue'[n].requestId = req
                       /\ queue'[n].source = source /\ queue'[n].status = "queued"
                       /\ Reusable(kind, req) = {}
      BY <3>t, <3>e, AddedItem
    <3> QED
      BY <3>1, <3>2 DEF KindsOfGoals
  <2> QED
    BY <1>1, <2>1, <2>2
<1>3. CASE UNCHANGED steerItem
  BY <1>2, <1>3 DEF KindsOfGoals
<1>4. CASE steerItem' = NoItem
  BY <1>2, <1>4 DEF KindsOfGoals
<1>5. CASE \E i \in ItemIds : Take("steer", i) /\ steerItem' = i
  BY <1>2, <1>5 DEF Take, IsFirst, Queued, KindsOfGoals
<1>6. \/ UNCHANGED steerItem
      \/ steerItem' = NoItem
      \/ \E i \in ItemIds : Take("steer", i) /\ steerItem' = i
  <2>1. CASE RunStep
    BY <2>1
    DEF RunStep, AppendTrigger, ApplyFollowUp, BeginTurn, FinishTurn, SteerTake, SteerAppend,
        SteerApply, SteerRequeue, Settle, Commit, Catch, Cleanup, Goal, GoalList, GoalEnqueue,
        EndRun
  <2>2. CASE \E c \in Clients : Post(c) \/ ClientStep(c) \/ StarterStep(c)
    BY <2>2
    DEF Post, PostStart, CronFire, PostSteer, PostFollowUp, ClientStep, Launch, ListQueue,
        EnqueueItem, StarterStep, FinishRecord, ListFollowUps, TakeFollowUp, RequeueFollowUp,
        StartRun, runVars
  <2>3. CASE EditQueue \/ Abort \/ DirectStep \/ MoveBoundary \/ Crash \/ UNCHANGED vars
    BY <2>3
    DEF EditQueue, CancelItem, UpdateItem, Abort, DirectStep, MoveBoundary, BeginShell, EndShell, BeginSave,
        EndSave, Direct, Crash, vars, runVars
  <2> QED
    BY <2>1, <2>2, <2>3 DEF Next
<1> QED
  BY <1>3, <1>4, <1>5, <1>6

\* A run that sees no queued follow-up misses at most one continuation for every client
\* but its own: those in the hands of a starter that was refused.
LEMMA GoalLooks ==
    ASSUME TypeOK, OneStarter, KindsOfGoals, Goal, Queued("follow_up") = {}
    PROVE  Cardinality(Coming) <= Cardinality(Clients) - 1
<1> DEFINE D == {c \in Clients : starter[c].pc = "requeue" /\ starter[c].item \in Coming}
           f == [c \in D |-> starter[c].item]
<1>1. pc = "goal" /\ owner \in Clients /\ starter[owner].pc = "running"
  BY DEF Goal, At, TypeOK, LoopOK, OneStarter, Running
<1>2. D \subseteq Clients \ {owner}
  BY <1>1
<1>3. \A i \in Coming : \E c \in D : starter[c].item = i
  <2> SUFFICES ASSUME NEW i \in Coming PROVE \E c \in D : starter[c].item = i
    OBVIOUS
  <2>1. i \in DOMAIN queue /\ queue[i].status # "queued"
    BY DEF Coming, KindsOfGoals, Queued
  <2>2. PICK c \in Clients : HeldByStarter(c, i)
    BY <1>1, <2>1 DEF Coming, Waiting
  <2> QED
    BY <2>2 DEF HeldByStarter
<1>4. f \in Surjection(D, Coming)
  BY <1>3 DEF Surjection
<1>5. IsFiniteSet(Clients \ {owner}) /\ Cardinality(Clients \ {owner}) = Cardinality(Clients) - 1
  BY <1>1, ClientsAssumption, FS_RemoveElement
<1>6. IsFiniteSet(D) /\ Cardinality(D) <= Cardinality(Clients) - 1
  BY <1>2, <1>5, FS_Subset
<1>7. Cardinality(Coming) <= Cardinality(D)
  BY <1>4, <1>6, FS_Surjection
<1>8. Cardinality(Coming) \in Nat /\ Cardinality(D) \in Nat /\ Cardinality(Clients) \in Nat
  BY <1>6, ClientsAssumption, ComingIs, FS_CardinalityType DEF TypeOK
<1> HIDE DEF D
<1> QED
  BY <1>6, <1>7, <1>8


\* The summands are numbers.
LEMMA GoalCounts ==
    ASSUME QueueTypeOK
    PROVE  /\ Cardinality(Coming) \in Nat
           /\ Continuing \in {0, 1}
           /\ Cardinality(Clients) \in Nat
           /\ MaxGoals \in Nat
BY ComingIs, ClientsAssumption, LimitAssumption, FS_CardinalityType DEF Continuing

\* Only a starter that begins to put an item back comes to hold one.
LEMMA HeldLess ==
    ASSUME \A d \in Clients : starter'[d] = starter[d] \/ starter'[d].pc # "requeue"
    PROVE  \A i : \A d \in Clients : HeldByStarter(d, i)' => HeldByStarter(d, i)
BY DEF HeldByStarter

\* A step that leaves the queue and the history alone keeps the count, if nobody comes
\* to hold a claimed item.
LEMMA SilentGoals ==
    ASSUME QueueTypeOK, QueueTypeOK', goals \in Nat, goals' \in Nat, GoalsCounted,
           UNCHANGED queue, goals' <= goals, Continuing' <= Continuing,
           pc' # "start" \/ UNCHANGED <<pc, runItem>>,
           \A i \in DOMAIN queue : \A d \in Clients :
              queue[i].status = "consuming" /\ HeldByStarter(d, i)' => HeldByStarter(d, i)
    PROVE  GoalsCounted'
<1>1. \A i \in DOMAIN queue : queue[i].status = "consuming" /\ Waiting(i)' => Waiting(i)
  BY DEF Waiting
<1>2. Coming' \subseteq Coming
  BY <1>1, StillComing
<1> QED
  BY <1>2, FewerComing

\* Faults are not forgotten.
LEMMA FaultsStay == TypeOK /\ [Next]_vars /\ faults' = 0 => faults = 0
<1> SUFFICES ASSUME TypeOK, [Next]_vars PROVE faults' = 0 => faults = 0
  OBVIOUS
<1>t. faults \in Nat
  BY LimitAssumption DEF TypeOK, CountsOK
<1>f. faults' = faults \/ faults' = faults + 1
  <2>1. CASE RunStep
    BY <2>1
    DEF RunStep, AppendTrigger, ApplyFollowUp, BeginTurn, FinishTurn, SteerTake, SteerAppend,
        SteerApply, SteerRequeue, Settle, Commit, Catch, Cleanup, Goal, GoalList, GoalEnqueue,
        EndRun, FaultOr, Fault, NoFault, faultVars
  <2>2. CASE \E c \in Clients : Post(c) \/ ClientStep(c) \/ StarterStep(c)
    BY <2>2
    DEF Post, PostStart, CronFire, PostSteer, PostFollowUp, ClientStep, Launch, ListQueue,
        EnqueueItem, StarterStep, FinishRecord, ListFollowUps, TakeFollowUp, RequeueFollowUp,
        FaultOr, Fault, NoFault, faultVars
  <2>3. CASE EditQueue \/ Abort \/ DirectStep \/ MoveBoundary \/ Crash \/ UNCHANGED vars
    BY <2>3
    DEF EditQueue, CancelItem, UpdateItem, Abort, DirectStep, MoveBoundary, BeginShell, EndShell, BeginSave,
        EndSave, Direct, Crash, vars, faultVars
  <2> QED
    BY <2>1, <2>2, <2>3 DEF Next
<1> QED
  BY <1>t, <1>f

\* GoalInv is inductive, with TypeOK, OneStarter and ClaimInv.
LEMMA GoalStep ==
    TypeOK /\ OneStarter /\ ClaimInv /\ GoalInv /\ [Next]_vars => GoalInv'
<1> SUFFICES ASSUME TypeOK, OneStarter, ClaimInv, GoalInv, [Next]_vars, ~AllowEdits,
                    faults = 0, faults' = 0
             PROVE  GoalsCounted'
  BY FaultsStay, GoalKinds DEF GoalInv
<1>t. /\ QueueTypeOK
      /\ faults \in Nat /\ goals \in Nat
      /\ starter \in [Clients -> Start] /\ client \in [Clients -> RequestInFlight]
      /\ owner \in Clients
  BY LimitAssumption DEF TypeOK, CountsOK, RequestsOK, LoopOK
<1>f. faults = 0 /\ ~Fault
  BY <1>t DEF Fault
<1>p. QueueTypeOK' /\ goals' \in Nat
  BY QueueStep, CountsStep DEF CountsOK
<1>k. KindsOfGoals /\ GoalsCounted
  BY <1>f DEF GoalInv
<1>c. RunHolds /\ SteerHolds /\ StartersHold
  BY <1>f DEF ClaimInv
<1>d. /\ Cardinality(Coming) \in Nat /\ Cardinality(Coming') \in Nat
      /\ IsFiniteSet(Coming) /\ IsFiniteSet(Coming')
      /\ Continuing \in {0, 1} /\ Continuing' \in {0, 1}
      /\ Cardinality(Clients) \in Nat /\ MaxGoals \in Nat
  <2>1. (QueueTypeOK => IsFiniteSet(Coming) /\ Cardinality(Coming) \in Nat)'
    BY ComingIs, PTL
  <2>2. (QueueTypeOK => Continuing \in {0, 1})'
    BY GoalCounts, PTL
  <2> QED
    BY <1>t, <1>p, <2>1, <2>2, ComingIs, GoalCounts
<1>n. NoItem \notin DOMAIN queue
  BY <1>t, ItemsBounded, MaxItemsAssumption DEF ItemIds, NoItem
<1>h. (\A d \in Clients : starter'[d] = starter[d] \/ starter'[d].pc # "requeue")
         => \A i : \A d \in Clients : HeldByStarter(d, i)' => HeldByStarter(d, i)
  BY HeldLess
\* Nothing is added, appended or claimed.
<1>s. ASSUME UNCHANGED <<queue, goals>>, Continuing' <= Continuing,
             pc' # "start" \/ UNCHANGED <<pc, runItem>>,
             \A d \in Clients : starter'[d] = starter[d] \/ starter'[d].pc # "requeue"
      PROVE  GoalsCounted'
  <2>1. \A i \in DOMAIN queue : \A d \in Clients :
           queue[i].status = "consuming" /\ HeldByStarter(d, i)' => HeldByStarter(d, i)
    BY <1>s, <1>h
  <2> QED
    BY <1>t, <1>p, <1>k, <1>s, <2>1, SilentGoals
\* An item changes its status.
<1>u. ASSUME NEW i, NEW from, NEW to \in Statuses, SetStatus(i, from, to),
             goals' <= goals, Continuing' <= Continuing,
             \A j \in DOMAIN queue : j # i /\ Waiting(j)' => Waiting(j),
             \/ to = "applied"
             \/ queue[i].source # "goal"
             \/ from = "queued"
             \/ from = "consuming" /\ Waiting(i)
      PROVE  GoalsCounted'
  <2>1. /\ DOMAIN queue' = DOMAIN queue
        /\ i \in DOMAIN queue
        /\ queue[i].status = from
        /\ queue'[i].status = to
        /\ \A j \in DOMAIN queue : j # i => queue'[j] = queue[j]
    BY <1>t, <1>u, SetStatusEffect
  <2>2. SameItems
    BY <1>t, <1>u, StatusItems
  <2>3. Coming' \subseteq Coming
    <3> SUFFICES ASSUME NEW j \in Coming' PROVE j \in Coming
      OBVIOUS
    <3>1. /\ j \in DOMAIN queue /\ queue[j].source = "goal"
          /\ queue'[j].status = "queued" \/ (queue'[j].status = "consuming" /\ Waiting(j)')
      BY <2>1, <2>2 DEF Coming, SameItems
    <3>2. CASE j = i
      BY <1>u, <2>1, <3>1, <3>2 DEF Coming
    <3>3. CASE j # i
      BY <1>u, <2>1, <3>1, <3>3 DEF Coming
    <3> QED
      BY <3>2, <3>3
  <2> QED
    BY <1>t, <1>p, <1>k, <1>u, <2>3, FewerComing
<1>1. CASE BeginTurn \/ FinishTurn \/ Settle \/ Commit \/ Cleanup \/ GoalList
  BY <1>1, <1>s
  DEF BeginTurn, FinishTurn, Settle, Commit, Cleanup, GoalList, At, Throw, Goto, CallAt,
      Continuing, seenVars
<1>2. CASE Abort \/ DirectStep \/ MoveBoundary \/ UNCHANGED vars
  <2>1. UNCHANGED <<queue, pc, runItem, starter>> /\ goals' <= goals
    BY <1>2, <1>t
    DEF Abort, DirectStep, MoveBoundary, BeginShell, EndShell, BeginSave, EndSave, Direct, vars,
        runVars, seenVars
  <2>2. \A i \in DOMAIN queue : \A d \in Clients :
           queue[i].status = "consuming" /\ HeldByStarter(d, i)' => HeldByStarter(d, i)
    BY <2>1 DEF HeldByStarter
  <2>3. Continuing' <= Continuing
    BY <1>d, <2>1 DEF Continuing
  <2> QED
    BY <1>t, <1>p, <1>k, <2>1, <2>2, <2>3, SilentGoals
<1>3. CASE \E c \in Clients : Post(c) \/ ListQueue(c)
  BY <1>3, <1>s, <1>d
  DEF Post, PostStart, CronFire, PostSteer, PostFollowUp, ListQueue, runVars, seenVars, Continuing
<1>4. CASE Crash
  BY <1>4, <1>s, <1>d DEF Crash, seenVars, Continuing, NoStart
<1>5. ASSUME NEW c \in Clients, FinishRecord(c) \/ ListFollowUps(c)
      PROVE  GoalsCounted'
  <2>1. \A d \in Clients : starter'[d] = starter[d] \/ starter'[d].pc # "requeue"
    BY <1>5, <1>t DEF FinishRecord, ListFollowUps, Dismiss, StarterCalls, NoStart, Start
  <2> QED
    BY <1>5, <2>1, <1>s, <1>d
    DEF FinishRecord, ListFollowUps, runVars, seenVars, Continuing
<1>6. CASE EndRun
  <2>1. /\ UNCHANGED <<queue, goals>> /\ pc' = "idle"
        /\ starter[owner].pc = "running" /\ runItem = NoItem
    BY <1>6, <1>c DEF EndRun, At, seenVars, OneStarter, Running, RunHolds
  <2>2. starter[owner].item \in Done \cup {NoItem}
    BY <2>1, <1>c, <1>t DEF StartersHold
  <2>3. \A d \in Clients :
           \/ starter'[d] = starter[d] \/ starter'[d].pc # "requeue"
           \/ d = owner /\ starter'[d].item = starter[owner].item
    BY <1>6, <1>t DEF EndRun, Start, NoStart
  <2>4. ASSUME NEW i \in DOMAIN queue, NEW d \in Clients, queue[i].status = "consuming",
               HeldByStarter(d, i)'
        PROVE  HeldByStarter(d, i)
    BY <1>n, <2>2, <2>3, <2>4 DEF HeldByStarter, Done
  <2> QED
    BY <1>t, <1>p, <1>k, <1>d, <2>1, <2>4, SilentGoals DEF Continuing
<1>7. ASSUME NEW c \in Clients, Launch(c)
      PROVE  GoalsCounted'
  <2>1. \A d \in Clients : starter'[d] = starter[d] \/ starter'[d].pc # "requeue"
    BY <1>7, <1>t DEF Launch, Start
  <2>2. CASE UNCHANGED <<pc, runItem>>
    BY <1>7, <1>s, <2>1, <2>2 DEF Launch, Continuing
  <2>3. CASE pc' = "start" /\ runItem' = NoItem
    <3>1. \A i \in DOMAIN queue : Waiting(i)' => Waiting(i)
      BY <1>n, <1>h, <2>1, <2>3 DEF Waiting
    <3>2. Coming' \subseteq Coming
      BY <1>7, <3>1, StillComing DEF Launch
    <3> QED
      BY <1>7, <1>t, <1>p, <1>k, <1>d, <2>3, <3>2, FewerComing DEF Launch, Continuing
  <2> QED
    BY <1>7, <2>2, <2>3 DEF Launch, StartRun, runVars
<1>8. ASSUME NEW c \in Clients, TakeFollowUp(c)
      PROVE  GoalsCounted'
  <2>1. CASE Dismiss(c) /\ UNCHANGED <<queue, runVars>>
    <3>1. \A d \in Clients : starter'[d] = starter[d] \/ starter'[d].pc # "requeue"
      BY <2>1, <1>t DEF Dismiss, NoStart
    <3> QED
      BY <1>8, <1>s, <1>d, <2>1, <3>1 DEF TakeFollowUp, runVars, seenVars, Continuing
  <2>2. ASSUME NEW i \in ItemIds, Take("follow_up", i), CanRun, StartRun(i, c),
               starter' = [starter EXCEPT ![c] = [pc |-> "running", item |-> i]]
        PROVE  GoalsCounted'
    <3>1. \A d \in Clients : starter'[d] = starter[d] \/ starter'[d].pc # "requeue"
      BY <2>2, <1>t
    <3>2. \A j \in DOMAIN queue : j # i /\ Waiting(j)' => Waiting(j)
      BY <1>h, <2>2, <3>1 DEF Waiting, StartRun
    <3>3. goals' <= goals /\ Continuing' <= Continuing
      BY <1>8, <1>t, <1>d, <2>2 DEF TakeFollowUp, seenVars, StartRun, Continuing
    <3> QED
      BY <1>u, <2>2, <3>2, <3>3 DEF Take, Statuses
  <2>3. ASSUME NEW i \in ItemIds, Take("follow_up", i), UNCHANGED <<pc, runItem>>,
               starter' = [starter EXCEPT ![c] = [pc |-> "requeue", item |-> i]]
        PROVE  GoalsCounted'
    <3>1. \A j \in DOMAIN queue : j # i /\ Waiting(j)' => Waiting(j)
      BY <1>t, <2>3 DEF Waiting, HeldByStarter
    <3>2. goals' <= goals /\ Continuing' <= Continuing
      BY <1>8, <1>t, <1>d, <2>3 DEF TakeFollowUp, seenVars, Continuing
    <3> QED
      BY <1>u, <2>3, <3>1, <3>2 DEF Take, Statuses
  <2> QED
    BY <1>8, <1>f, <2>1, <2>2, <2>3 DEF TakeFollowUp, FaultOr
<1>9. ASSUME NEW c \in Clients, RequeueFollowUp(c)
      PROVE  GoalsCounted'
  <2>1. /\ starter[c].pc = "requeue" /\ Dismiss(c) /\ Requeue(starter[c].item)
        /\ UNCHANGED <<pc, runItem, goals>>
    BY <1>9, <1>f DEF RequeueFollowUp, runVars, seenVars
  <2>2. \A d \in Clients : starter'[d] = starter[d] \/ starter'[d].pc # "requeue"
    BY <2>1, <1>t DEF Dismiss, NoStart
  <2>3. goals' <= goals /\ Continuing' <= Continuing
    BY <2>1, <1>t, <1>d DEF Continuing
  <2>4. CASE UNCHANGED queue
    BY <1>s, <2>1, <2>2, <2>3, <2>4
  <2>5. CASE SetStatus(starter[c].item, "consuming", "queued")
    <3>1. Waiting(starter[c].item)
      <4>1. starter[c] \in Start
        BY <1>t
      <4>2. starter[c] = [pc |-> "requeue", item |-> starter[c].item]
        BY <2>1, <4>1 DEF Start
      <4> QED
        BY <4>2 DEF Waiting, HeldByStarter
    <3>2. \A j \in DOMAIN queue : Waiting(j)' => Waiting(j)
      BY <1>h, <2>1, <2>2 DEF Waiting
    <3> QED
      BY <1>u, <2>3, <2>5, <3>1, <3>2 DEF Statuses
  <2> QED
    BY <2>1, <2>4, <2>5 DEF Requeue
<1>10. CASE ApplyFollowUp
  <2>1. /\ UNCHANGED <<starter, goals>> /\ pc' \in {"turn", "catch"}
        /\ UNCHANGED queue \/ Apply(runItem)
    BY <1>10, <1>f DEF ApplyFollowUp, seenVars, FaultOr, Throw, Goto, CallAt
  <2>2. \A j \in DOMAIN queue : Waiting(j)' => Waiting(j)
    BY <2>1 DEF Waiting, HeldByStarter
  <2>3. goals' <= goals /\ Continuing' <= Continuing
    BY <2>1, <1>t, <1>d DEF Continuing
  <2>4. CASE UNCHANGED queue
    BY <1>s, <2>1, <2>3, <2>4
  <2>5. CASE Apply(runItem)
    BY <1>u, <2>2, <2>3, <2>5 DEF Apply, Statuses
  <2> QED
    BY <2>1, <2>4, <2>5
<1>11. CASE SteerApply
  <2>1. /\ UNCHANGED <<starter, goals>> /\ pc' \in {"turn", "steerRequeue"}
        /\ UNCHANGED queue \/ Apply(steerItem)
    BY <1>11, <1>f DEF SteerApply, seenVars, FaultOr, Goto, CallAt
  <2>2. \A j \in DOMAIN queue : Waiting(j)' => Waiting(j)
    BY <2>1 DEF Waiting, HeldByStarter
  <2>3. goals' <= goals /\ Continuing' <= Continuing
    BY <2>1, <1>t, <1>d DEF Continuing
  <2>4. CASE UNCHANGED queue
    BY <1>s, <2>1, <2>3, <2>4
  <2>5. CASE Apply(steerItem)
    BY <1>u, <2>2, <2>3, <2>5 DEF Apply, Statuses
  <2> QED
    BY <2>1, <2>4, <2>5
<1>12. CASE SteerTake
  <2>1. /\ UNCHANGED <<starter, goals>> /\ pc' \in {"turn", "settle", "steerAppend"}
        /\ UNCHANGED queue \/ \E i \in ItemIds : Take("steer", i)
    BY <1>12, <1>f DEF SteerTake, seenVars, NotSteered, Goto, CallAt
  <2>2. \A j \in DOMAIN queue : Waiting(j)' => Waiting(j)
    BY <2>1 DEF Waiting, HeldByStarter
  <2>3. goals' <= goals /\ Continuing' <= Continuing
    BY <2>1, <1>t, <1>d DEF Continuing
  <2>4. CASE UNCHANGED queue
    BY <1>s, <2>1, <2>3, <2>4
  <2>5. ASSUME NEW i \in ItemIds, Take("steer", i)
        PROVE  GoalsCounted'
    BY <1>u, <2>2, <2>3, <2>5 DEF Take, Statuses
  <2> QED
    BY <2>1, <2>4, <2>5
<1>13. ~SteerRequeue
  BY <1>c DEF SteerRequeue, At, SteerHolds
<1>14. CASE Catch
  <2>1. /\ runItem = NoItem /\ UNCHANGED <<starter, goals>> /\ pc' = "cleanup"
        /\ Requeue(runItem)
    BY <1>14, <1>c, <1>f DEF Catch, At, RunHolds, seenVars, Goto
  <2>2. UNCHANGED queue
    BY <2>1, <1>n DEF Requeue, SetStatus
  <2> QED
    BY <1>s, <1>d, <2>1, <2>2 DEF Continuing
\* The text of a continuation goes from the queue to the history.
<1>15. CASE AppendTrigger
  <2>1. /\ UNCHANGED <<queue, starter>> /\ pc = "start" /\ pc' \in {"turn", "applyFollowUp"}
        /\ goals' = IF runItem # NoItem /\ queue[runItem].source = "goal" THEN goals + 1 ELSE 0
    BY <1>15, <1>f DEF AppendTrigger, At, AppendText, Goto, CallAt
  <2>2. \A i \in DOMAIN queue : Waiting(i)' => \E d \in Clients : HeldByStarter(d, i)
    BY <2>1 DEF Waiting, HeldByStarter
  <2>3. Coming' \subseteq Coming
    BY <2>1, <2>2, StillComing DEF Waiting
  <2>4. Continuing = 0 /\ Continuing' = 0
    BY <2>1 DEF Continuing
  <2>5. CASE goals' = 0
    BY <1>t, <1>p, <1>k, <2>3, <2>4, <2>5, FewerComing
  <2>6. CASE runItem # NoItem /\ queue[runItem].source = "goal"
    <3>1. runItem \in Claimed
      BY <1>c, <2>1, <2>6 DEF RunHolds
    <3>2. runItem \in Coming
      BY <2>1, <2>6, <3>1 DEF Coming, Claimed, Consuming, Waiting
    <3>3. runItem \notin Coming'
      <4>1. queue[runItem].status = "consuming" /\ runItem \in DOMAIN queue
        BY <3>1 DEF Claimed, Consuming
      <4>2. ASSUME NEW d \in Clients, HeldByStarter(d, runItem) PROVE FALSE
        <5>1. starter[d].pc = "requeue" /\ starter[d].item = runItem
          BY <4>2 DEF HeldByStarter
        <5>2. runItem \notin Done
          BY <4>1 DEF Done
        <5> QED
          BY <1>c, <5>1, <5>2 DEF StartersHold
      <4> QED
        BY <2>1, <2>2, <4>1, <4>2 DEF Coming
    <3>4. Coming' \subseteq Coming \ {runItem}
      BY <2>3, <3>3
    <3>5. /\ IsFiniteSet(Coming \ {runItem})
          /\ Cardinality(Coming \ {runItem}) = Cardinality(Coming) - 1
      BY <1>d, <3>2, FS_RemoveElement
    <3>6. Cardinality(Coming') <= Cardinality(Coming) - 1
      BY <3>4, <3>5, FS_Subset
    <3>7. goals' = goals + 1
      BY <2>1, <2>6
    <3> QED
      BY <1>t, <1>d, <1>k, <2>4, <3>6, <3>7 DEF GoalsCounted
  <2> QED
    BY <2>1, <2>5, <2>6
<1>16. CASE SteerAppend
  <2>1. /\ UNCHANGED <<queue, starter>> /\ pc' = "steerApply" /\ pc = "steerAppend"
        /\ goals' = IF steerItem # NoItem /\ queue[steerItem].source = "goal" THEN goals + 1 ELSE 0
    BY <1>16, <1>f DEF SteerAppend, At, AppendText, CallAt
  <2>2. goals' = 0
    BY <1>k, <2>1 DEF KindsOfGoals
  <2>3. Coming' \subseteq Coming
    <3>1. \A i \in DOMAIN queue : Waiting(i)' => Waiting(i)
      BY <2>1 DEF Waiting, HeldByStarter
    <3> QED
      BY <2>1, <3>1, StillComing
  <2>4. Continuing' <= Continuing
    BY <2>1, <1>d DEF Continuing
  <2> QED
    BY <1>t, <1>p, <1>k, <2>2, <2>3, <2>4, FewerComing
\* The run decides to continue ...
<1>17. CASE Goal
  <2>1. UNCHANGED <<queue, goals, starter>> /\ pc = "goal" /\ pc' \in {"goalList", "end"}
    BY <1>17 DEF Goal, At, Goto, CallAt, seenVars
  <2>2. CASE pc' = "end"
    BY <1>s, <1>d, <2>1, <2>2 DEF Continuing
  <2>3. CASE pc' = "goalList"
    <3>1. Queued("follow_up") = {} /\ goals < MaxGoals
      BY <1>17, <2>3 DEF Goal, Goto
    <3>2. Cardinality(Coming) <= Cardinality(Clients) - 1
      BY <1>17, <1>k, <3>1, GoalLooks
    <3>3. Coming' \subseteq Coming
      <4>1. \A i \in DOMAIN queue : Waiting(i)' => Waiting(i)
        BY <2>1 DEF Waiting, HeldByStarter
      <4> QED
        BY <2>1, <4>1, StillComing
    <3>4. Cardinality(Coming') <= Cardinality(Coming)
      BY <1>d, <3>3, FS_Subset
    <3>5. Continuing' = 1
      BY <2>3 DEF Continuing
    <3> QED
      BY <1>t, <1>d, <2>1, <3>1, <3>2, <3>4, <3>5 DEF GoalsCounted
  <2> QED
    BY <2>1, <2>2, <2>3
\* ... and enqueues the continuation.
<1>18. CASE GoalEnqueue
  <2>1. /\ UNCHANGED <<starter, goals>> /\ pc = "goalEnqueue" /\ pc' = "end"
        /\ UNCHANGED queue \/ Enqueue("follow_up", NoRequest, "goal")
    BY <1>18, <1>f DEF GoalEnqueue, At, Goto, seenVars, FaultOr
  <2>2. \A i \in DOMAIN queue : Waiting(i)' => Waiting(i)
    BY <2>1 DEF Waiting, HeldByStarter
  <2>3. CASE UNCHANGED queue
    BY <1>s, <1>d, <2>1, <2>3 DEF Continuing
  <2>4. CASE Enqueue("follow_up", NoRequest, "goal")
    <3>1. PICK n : Coming' \subseteq Coming \cup {n}
      <4>1. "follow_up" \in Kinds /\ NoRequest \in Requests \cup {NoRequest} /\ "goal" \in Sources
        BY DEF Kinds, Sources
      <4>2. PICK kind \in Kinds, req \in Requests \cup {NoRequest}, source \in Sources :
               Enqueue(kind, req, source)
        BY <2>4, <4>1
      <4>3. /\ DOMAIN queue \subseteq DOMAIN queue'
            /\ \A j \in DOMAIN queue : queue'[j] = queue[j]
            /\ \/ DOMAIN queue' = DOMAIN queue
               \/ \E n : /\ DOMAIN queue' = DOMAIN queue \cup {n} /\ n \notin DOMAIN queue
                         /\ n \in ItemIds
                         /\ queue'[n].kind = kind /\ queue'[n].requestId = req
                         /\ queue'[n].source = source /\ queue'[n].status = "queued"
                         /\ Reusable(kind, req) = {}
        BY <1>t, <4>2, AddedItem
      <4>4. PICK n : DOMAIN queue' \subseteq DOMAIN queue \cup {n}
        BY <4>3
      <4>5. Coming' \subseteq Coming \cup {n}
        BY <2>2, <4>3, <4>4 DEF Coming
      <4> QED
        BY <4>5
    <3>2. IsFiniteSet(Coming \cup {n}) /\ Cardinality(Coming \cup {n}) <= Cardinality(Coming) + 1
      <4>1. /\ IsFiniteSet(Coming \cup {n})
            /\ \/ Cardinality(Coming \cup {n}) = Cardinality(Coming)
               \/ Cardinality(Coming \cup {n}) = Cardinality(Coming) + 1
        BY <1>d, FS_AddElement
      <4> QED
        BY <1>d, <4>1
    <3>3. Cardinality(Coming') <= Cardinality(Coming) + 1
      <4>1. Cardinality(Coming') <= Cardinality(Coming \cup {n})
        BY <3>1, <3>2, FS_Subset
      <4>2. Cardinality(Coming \cup {n}) \in Nat
        BY <3>2, FS_CardinalityType
      <4> QED
        BY <1>d, <3>2, <4>1, <4>2
    <3>4. Continuing = 1 /\ Continuing' = 0
      BY <2>1 DEF Continuing
    <3> QED
      BY <1>t, <1>d, <1>k, <2>1, <3>3, <3>4 DEF GoalsCounted
  <2> QED
    BY <2>1, <2>3, <2>4
<1>19. ASSUME NEW c \in Clients, EnqueueItem(c)
       PROVE  GoalsCounted'
  <2>1. /\ UNCHANGED <<pc, runItem, goals>>
        /\ \A d \in Clients : starter'[d] = starter[d] \/ starter'[d].pc # "requeue"
    BY <1>19, <1>t DEF EnqueueItem, runVars, seenVars, Start
  <2>2. \A i \in DOMAIN queue : Waiting(i)' => Waiting(i)
    BY <1>h, <2>1 DEF Waiting
  <2>3. CASE UNCHANGED queue
    BY <1>s, <1>d, <2>1, <2>3 DEF Continuing
  <2>4. CASE Enqueue(client[c].kind, client[c].requestId, client[c].source)
    <3>1. client[c] \in RequestInFlight
      BY <1>t
    <3>2. PICK kind \in Kinds, req \in Requests \cup {NoRequest}, source \in Sources :
             source # "goal" /\ Enqueue(kind, req, source)
      BY <2>4, <3>1 DEF RequestInFlight, Sources
    <3>3. /\ DOMAIN queue \subseteq DOMAIN queue'
          /\ \A j \in DOMAIN queue : queue'[j] = queue[j]
          /\ \/ DOMAIN queue' = DOMAIN queue
             \/ \E n : /\ DOMAIN queue' = DOMAIN queue \cup {n} /\ n \notin DOMAIN queue
                       /\ n \in ItemIds
                       /\ queue'[n].kind = kind /\ queue'[n].requestId = req
                       /\ queue'[n].source = source /\ queue'[n].status = "queued"
                       /\ Reusable(kind, req) = {}
      BY <1>t, <3>2, AddedItem
    <3>4. Coming' \subseteq Coming
      BY <2>2, <3>2, <3>3 DEF Coming
    <3>5. goals' <= goals /\ Continuing' <= Continuing
      BY <1>t, <1>d, <2>1 DEF Continuing
    <3> QED
      BY <1>t, <1>p, <1>k, <3>4, <3>5, FewerComing
  <2> QED
    BY <1>19, <2>3, <2>4 DEF EnqueueItem
<1>20. ~EditQueue
  BY DEF EditQueue, CancelItem, UpdateItem
<1> QED
  BY <1>1, <1>2, <1>3, <1>4, <1>5, <1>6, <1>7, <1>8, <1>9, <1>10, <1>11, <1>12, <1>13, <1>14,
     <1>15, <1>16, <1>17, <1>18, <1>19, <1>20
  DEF Next, RunStep, ClientStep, StarterStep

\* It holds at the start: there is a client.
LEMMA GoalInit == Init => GoalInv
<1> SUFFICES ASSUME Init PROVE KindsOfGoals /\ GoalsCounted
  BY DEF GoalInv
<1>1. KindsOfGoals
  BY DEF Init, QueueInit, KindsOfGoals
<1>2. Coming = {} /\ Continuing = 0 /\ goals = 0 /\ Clients # {}
  BY DEF Init, QueueInit, Coming, Continuing
<1>3. Cardinality(Coming) = 0 /\ Cardinality(Clients) \in Nat /\ Cardinality(Clients) # 0
  BY <1>2, ClientsAssumption, FS_EmptySet, FS_CardinalityType
<1> QED
  BY <1>1, <1>2, <1>3, LimitAssumption DEF GoalsCounted

\* GoalsBounded: however starters, requests and runs interleave, and wherever `/clear` and
\* compactions put the boundary, the continuations in the active segment since the last
\* message of a user or a timer stay below MaxGoals plus the number of clients.
THEOREM GoalsAreBounded == Spec => []GoalsBounded
<1>1. TypeOK /\ GoalInv => GoalsBounded
  <2> SUFFICES ASSUME TypeOK, GoalsCounted PROVE goals <= MaxGoals + Cardinality(Clients) - 1
    BY DEF GoalInv, GoalsBounded
  <2> QED
    BY GoalCounts DEF GoalsCounted, TypeOK, CountsOK
<1>2. Init => TypeOK /\ OneStarter /\ ClaimInv /\ GoalInv
  BY InitType, OneStarterInit, ClaimInit, GoalInit
<1>3. TypeOK /\ OneStarter /\ ClaimInv /\ GoalInv /\ [Next]_vars => GoalInv'
  BY GoalStep
<1> QED
  BY <1>1, <1>2, <1>3, Invariants, PTL DEF Spec

(***************************************************************************)
(* The queue implements DeliveryContract: every step of RunControl is one  *)
(* step of the contract or leaves the contract's state alone.              *)
(***************************************************************************)

\* What a step does to the queue and the history.
Effect ==
    \/ UNCHANGED <<queue, appended>>
    \/ /\ UNCHANGED appended
       /\ \/ \E i \in ItemIds, kind \in Kinds : Take(kind, i)
          \/ \E i \in ItemIds : Requeue(i) \/ Cancel(i)
          \/ \E i \in ItemIds, kind \in Kinds : Update(i, kind)
          \/ \E kind \in Kinds, req \in Requests \cup {NoRequest}, source \in Sources :
                Enqueue(kind, req, source)
          \/ \E i \in ItemIds : appended[i] > 0 /\ Apply(i)
    \/ /\ UNCHANGED queue
       /\ \E i \in Claimed : appended' = [appended EXCEPT ![i] = @ + 1]

\* Without a fault a step does one of the things Effect lists.
LEMMA StepEffects ==
    ASSUME TypeOK, OneStarter, ClaimInv, [Next]_vars, faults = 0, faults' = 0
    PROVE  Effect
<1>0. /\ QueueTypeOK /\ LoopOK /\ RequestsOK
      /\ runItem \in ItemIds \cup {NoItem} /\ steerItem \in ItemIds \cup {NoItem}
      /\ \A c \in Clients : starter[c] \in Start /\ client[c] \in RequestInFlight
      /\ NoItem \notin ItemIds
      /\ RunHolds /\ SteerHolds /\ StartersHold
      /\ Claimed \subseteq ItemIds
  BY DEF TypeOK, LoopOK, RequestsOK, ClaimInv, NoItem, ItemIds, Claimed
<1>1. CASE BeginTurn
  BY <1>1
  DEF BeginTurn, Effect, NoFault, Fault, FaultOr, faultVars, seenVars, runVars,
      directVars, Rest
<1>2. CASE FinishTurn
  BY <1>2
  DEF FinishTurn, Effect, NoFault, Fault, FaultOr, faultVars, seenVars,
      runVars, directVars, Rest
<1>3. CASE Settle
  BY <1>3
  DEF Settle, Effect, NoFault, Fault, FaultOr, faultVars, seenVars, runVars,
      directVars, Rest
<1>4. CASE Commit
  BY <1>4
  DEF Commit, Effect, NoFault, Fault, FaultOr, faultVars, seenVars, runVars,
      directVars, Rest
<1>5. CASE Cleanup
  BY <1>5
  DEF Cleanup, Effect, NoFault, Fault, FaultOr, faultVars, seenVars, runVars,
      directVars, Rest
<1>6. CASE Goal
  BY <1>6
  DEF Goal, Effect, NoFault, Fault, FaultOr, faultVars, seenVars, runVars,
      directVars, Rest
<1>7. CASE GoalList
  BY <1>7
  DEF GoalList, Effect, NoFault, Fault, FaultOr, faultVars, seenVars, runVars,
      directVars, Rest
<1>8. CASE EndRun
  BY <1>8
  DEF EndRun, Effect, NoFault, Fault, FaultOr, faultVars, seenVars, runVars,
      directVars, Rest
<1>9. CASE AppendTrigger
  <2>1. UNCHANGED queue /\ pc = "start" /\ (AppendText(runItem) \/ UNCHANGED appended)
    BY <1>9
    DEF AppendTrigger, At, NoFault, Fault, FaultOr, faultVars, seenVars,
        runVars, directVars, Rest
  <2> QED
    BY <1>0, <2>1 DEF Effect, AppendText, RunHolds
<1>10. CASE SteerAppend
  <2>1. UNCHANGED queue /\ pc = "steerAppend" /\ (AppendText(steerItem) \/ UNCHANGED appended)
    BY <1>10
    DEF SteerAppend, At, NoFault, Fault, FaultOr, faultVars, seenVars, runVars,
        directVars, Rest
  <2> QED
    BY <1>0, <2>1 DEF Effect, AppendText, SteerHolds
<1>11. CASE ApplyFollowUp
  <2>1. pc = "applyFollowUp" /\ UNCHANGED appended /\ (Apply(runItem) \/ UNCHANGED queue)
    BY <1>11
    DEF ApplyFollowUp, At, NoFault, Fault, FaultOr, faultVars, seenVars,
        runVars, directVars, Rest
  <2> QED
    BY <1>0, <2>1 DEF Effect, RunHolds
<1>12. CASE SteerApply
  <2>1. pc = "steerApply" /\ UNCHANGED appended /\ (Apply(steerItem) \/ UNCHANGED queue)
    BY <1>12
    DEF SteerApply, At, NoFault, Fault, FaultOr, faultVars, seenVars, runVars,
        directVars, Rest
  <2> QED
    BY <1>0, <2>1 DEF Effect, SteerHolds
<1>13. CASE SteerTake
  BY <1>13
  DEF SteerTake, Effect, Kinds, NoFault, Fault, FaultOr, faultVars, seenVars,
      runVars, directVars, Rest
<1>14. CASE SteerRequeue
  BY <1>14, <1>0 DEF SteerRequeue, At, SteerHolds
<1>15. CASE Catch
  <2>1. runItem = NoItem
    BY <1>15, <1>0 DEF Catch, At, RunHolds
  <2>2. UNCHANGED queue
    BY <1>15, <1>0, <2>1
    DEF Catch, Requeue, SetStatus, ItemIds, NoItem, QueueTypeOK
  <2> QED
    BY <1>15, <2>2
    DEF Catch, Effect, NoFault, Fault, FaultOr, faultVars, seenVars, runVars,
        directVars, Rest
<1>16. CASE GoalEnqueue
  BY <1>16
  DEF GoalEnqueue, Effect, Kinds, Sources, NoFault, Fault, FaultOr, faultVars,
      seenVars, runVars, directVars, Rest
<1>17. CASE \E c \in Clients : PostStart(c)
  BY <1>17
  DEF PostStart, Effect, NoFault, Fault, FaultOr, faultVars, seenVars, runVars,
      directVars, Rest
<1>18. CASE \E c \in Clients : CronFire(c)
  BY <1>18
  DEF CronFire, Effect, NoFault, Fault, FaultOr, faultVars, seenVars, runVars,
      directVars, Rest
<1>19. CASE \E c \in Clients : Launch(c)
  BY <1>19
  DEF Launch, Effect, NoFault, Fault, FaultOr, faultVars, seenVars, runVars,
      directVars, Rest
<1>20. CASE \E c \in Clients : ListQueue(c)
  BY <1>20
  DEF ListQueue, Effect, NoFault, Fault, FaultOr, faultVars, seenVars, runVars,
      directVars, Rest
<1>21. CASE \E c \in Clients : FinishRecord(c)
  BY <1>21
  DEF FinishRecord, Effect, NoFault, Fault, FaultOr, faultVars, seenVars,
      runVars, directVars, Rest
<1>22. CASE \E c \in Clients : ListFollowUps(c)
  BY <1>22
  DEF ListFollowUps, Effect, NoFault, Fault, FaultOr, faultVars, seenVars,
      runVars, directVars, Rest
<1>23. CASE \E c \in Clients : EnqueueItem(c)
  BY <1>23, <1>0
  DEF EnqueueItem, Effect, RequestInFlight, Sources, NoFault, Fault, FaultOr,
      faultVars, seenVars, runVars, directVars, Rest
<1>24. CASE \E c \in Clients : TakeFollowUp(c)
  BY <1>24
  DEF TakeFollowUp, Effect, Kinds, NoFault, Fault, FaultOr, faultVars,
      seenVars, runVars, directVars, Rest
<1>25. CASE \E c \in Clients : RequeueFollowUp(c)
  <2>1. PICK c \in Clients : RequeueFollowUp(c)
    BY <1>25
  <2>2. starter[c].item \in ItemIds
    BY <1>0, <2>1, ClaimedIsConsuming DEF RequeueFollowUp, StartersHold, Done
  <2> QED
    BY <2>1, <2>2
    DEF RequeueFollowUp, Effect, NoFault, Fault, FaultOr, faultVars, seenVars,
        runVars, directVars, Rest
<1>26. CASE \E c \in Clients, req \in Requests \cup {NoRequest} : PostSteer(c, req)
  BY <1>26
  DEF PostSteer, Effect, NoFault, Fault, FaultOr, faultVars, seenVars, runVars,
      directVars, Rest
<1>27. CASE \E c \in Clients, req \in Requests \cup {NoRequest} : PostFollowUp(c, req)
  BY <1>27
  DEF PostFollowUp, Effect, NoFault, Fault, FaultOr, faultVars, seenVars,
      runVars, directVars, Rest
<1>28. CASE EditQueue
  BY <1>28
  DEF EditQueue, CancelItem, UpdateItem, Effect, NoFault, Fault, FaultOr,
      faultVars, seenVars, runVars, directVars, Rest
<1>29. CASE Abort
  BY <1>29
  DEF Abort, Effect, NoFault, Fault, FaultOr, faultVars, seenVars, runVars,
      directVars, Rest
<1>30. CASE DirectStep \/ MoveBoundary
  BY <1>30
  DEF DirectStep, MoveBoundary, BeginShell, EndShell, BeginSave, EndSave, Direct, Effect,
      NoFault, Fault, FaultOr, faultVars, seenVars, runVars, directVars, Rest
<1>31. CASE Crash
  BY <1>31
  DEF Crash, Effect, NoFault, Fault, FaultOr, faultVars, seenVars, runVars,
      directVars, Rest
<1>32. CASE UNCHANGED vars
  BY <1>32
  DEF vars, Effect, NoFault, Fault, FaultOr, faultVars, seenVars, runVars,
      directVars, Rest
<1> QED
  BY <1>1, <1>2, <1>3, <1>4, <1>5, <1>6, <1>7, <1>8, <1>9, <1>10, <1>11,
     <1>12, <1>13, <1>14, <1>15, <1>16, <1>17, <1>18, <1>19, <1>20, <1>21,
     <1>22, <1>23, <1>24, <1>25, <1>26, <1>27, <1>28, <1>29, <1>30, <1>31,
     <1>32
  DEF Next, RunStep, Post, ClientStep, StarterStep

\* A change of one item's status is a move of the contract.
LEMMA StatusMoves ==
    ASSUME QueueTypeOK, NEW i, NEW from \in Statuses, NEW to \in Statuses, SetStatus(i, from, to)
    PROVE  /\ i \in ItemIds
           /\ MessageState[i] = from
           /\ MessageState' = [MessageState EXCEPT ![i] = to]
<1>1. /\ DOMAIN queue' = DOMAIN queue
      /\ i \in DOMAIN queue
      /\ queue[i].status = from
      /\ queue'[i].status = to
      /\ \A j \in DOMAIN queue : j # i => queue'[j] = queue[j]
  BY SetStatusEffect
<1>2. i \in ItemIds
  BY <1>1, ItemsBounded
<1> QED
  BY <1>1, <1>2 DEF MessageState

\* An enqueue accepts one message or finds it accepted already.
LEMMA EnqueueMoves ==
    ASSUME QueueTypeOK,
           NEW kind \in Kinds, NEW req \in Requests \cup {NoRequest}, NEW source \in Sources,
           Enqueue(kind, req, source)
    PROVE  \/ UNCHANGED MessageState
           \/ \E m \in ItemIds : /\ MessageState[m] = "none"
                                 /\ MessageState' = [MessageState EXCEPT ![m] = "queued"]
<1>1. CASE UNCHANGED queue
  BY <1>1 DEF MessageState
<1>2. CASE /\ Len(queue) < MaxItems
           /\ queue' = Append(queue, [kind |-> kind, status |-> "queued",
                                      requestId |-> req, source |-> source])
  <2> DEFINE item == [kind |-> kind, status |-> "queued",
                      requestId |-> req, source |-> source]
             m == Len(queue) + 1
  <2>1. item \in QueueItem /\ item.status = "queued"
    BY DEF QueueItem, Statuses
  <2>2. queue \in Seq(QueueItem) /\ queue' = Append(queue, item) /\ Len(queue) \in Nat
    BY <1>2 DEF QueueTypeOK
  <2> HIDE DEF item
  <2>3. /\ DOMAIN queue = 1..Len(queue) /\ DOMAIN queue' = 1..m
        /\ \A j \in DOMAIN queue : queue'[j] = queue[j]
        /\ queue'[m] = item
    BY <2>1, <2>2
  <2>4. m \in ItemIds /\ m \notin DOMAIN queue /\ DOMAIN queue' = DOMAIN queue \cup {m}
    BY <1>2, <2>2, <2>3, MaxItemsAssumption DEF ItemIds
  <2> HIDE DEF m
  <2>5. /\ MessageState[m] = "none"
        /\ MessageState' = [MessageState EXCEPT ![m] = "queued"]
    BY <2>1, <2>3, <2>4 DEF MessageState
  <2> QED
    BY <2>4, <2>5
<1> QED
  BY <1>1, <1>2 DEF Enqueue

\* The kind of an item is invisible to the contract.
LEMMA UpdateMoves ==
    ASSUME QueueTypeOK, NEW i, NEW kind \in Kinds, Update(i, kind)
    PROVE  UNCHANGED MessageState
<1>1. /\ i \in DOMAIN queue
      /\ queue' = [queue EXCEPT ![i].kind = kind]
  BY DEF Update
<1>2. queue[i] \in QueueItem
  BY <1>1, ItemsBounded
<1>3. /\ DOMAIN queue' = DOMAIN queue
      /\ \A j \in DOMAIN queue : queue'[j].status = queue[j].status
  BY <1>1, <1>2 DEF QueueItem
<1> QED
  BY <1>3 DEF MessageState

\* DeliverySpec: while storage does not fail, the queue keeps its promise to the
\* sender of a message, whatever the number of clients and items and whatever
\* crashes: every step is a step of the contract or invisible to it.
THEOREM QueueKeepsContract == ASSUME MaxFaults = 0 PROVE Spec => DeliverySpec
<1>1. Init => Delivery!Init
  BY DEF Init, QueueInit, Delivery!Init, MessageState
<1>2. TypeOK /\ OneStarter /\ ClaimInv /\ [Next]_vars => [Delivery!Next]_(Delivery!vars)
  <2> SUFFICES ASSUME TypeOK, OneStarter, ClaimInv, [Next]_vars
               PROVE  [Delivery!Next]_(Delivery!vars)
    OBVIOUS
  <2>0. /\ QueueTypeOK /\ faults = 0 /\ faults' = 0
        /\ Claimed \subseteq ItemIds
        /\ \A i \in Claimed : MessageState[i] = "consuming"
    BY CountsStep DEF TypeOK, CountsOK, Claimed, Consuming, MessageState
  <2>1. Effect
    BY <2>0, StepEffects
  <2>2. UNCHANGED queue => UNCHANGED MessageState
    BY DEF MessageState
  <2> USE DEF Delivery!Next, Delivery!vars
  <2>3. CASE UNCHANGED <<queue, appended>>
    BY <2>2, <2>3
  <2>4. ASSUME UNCHANGED appended, NEW i \in ItemIds, NEW kind, Take(kind, i)
        PROVE  Delivery!Next
    <3>1. MessageState[i] = "queued" /\ MessageState' = [MessageState EXCEPT ![i] = "consuming"]
      BY <2>0, <2>4, StatusMoves DEF Take, Statuses
    <3> QED
      BY <2>4, <3>1 DEF Delivery!Claim, Delivery!Move
  <2>5. ASSUME UNCHANGED appended, NEW i \in ItemIds, Requeue(i)
        PROVE  [Delivery!Next]_(Delivery!vars)
    <3>1. CASE SetStatus(i, "consuming", "queued")
      <4>1. MessageState[i] = "consuming" /\ MessageState' = [MessageState EXCEPT ![i] = "queued"]
        BY <2>0, <3>1, StatusMoves DEF Statuses
      <4> QED
        BY <2>5, <4>1 DEF Delivery!Release, Delivery!Move
    <3>2. CASE UNCHANGED queue
      BY <2>2, <2>5, <3>2
    <3> QED
      BY <2>5, <3>1, <3>2 DEF Requeue
  <2>6. ASSUME UNCHANGED appended, NEW i \in ItemIds, Cancel(i)
        PROVE  Delivery!Next
    <3>1. MessageState[i] = "queued" /\ MessageState' = [MessageState EXCEPT ![i] = "cancelled"]
      BY <2>0, <2>6, StatusMoves DEF Cancel, Statuses
    <3> QED
      BY <2>6, <3>1 DEF Delivery!Withdraw, Delivery!Move
  <2>7. ASSUME UNCHANGED appended, NEW i \in ItemIds, NEW kind \in Kinds, Update(i, kind)
        PROVE  UNCHANGED Delivery!vars
    BY <2>0, <2>7, UpdateMoves
  <2>8. ASSUME UNCHANGED appended,
               NEW kind \in Kinds, NEW req \in Requests \cup {NoRequest}, NEW source \in Sources,
               Enqueue(kind, req, source)
        PROVE  [Delivery!Next]_(Delivery!vars)
    BY <2>0, <2>8, EnqueueMoves DEF Delivery!Accept, Delivery!Move
  <2>9. ASSUME UNCHANGED appended, NEW i \in ItemIds, appended[i] > 0, Apply(i)
        PROVE  Delivery!Next
    <3>1. MessageState[i] = "consuming" /\ MessageState' = [MessageState EXCEPT ![i] = "applied"]
      BY <2>0, <2>9, StatusMoves DEF Apply, Statuses
    <3> QED
      BY <2>9, <3>1 DEF Delivery!Settle, Delivery!Move
  <2>10. ASSUME UNCHANGED queue, NEW i \in Claimed, appended' = [appended EXCEPT ![i] = @ + 1]
         PROVE  Delivery!Next
    BY <2>0, <2>2, <2>10 DEF Delivery!Record
  <2> QED
    BY <2>1, <2>3, <2>4, <2>5, <2>6, <2>7, <2>8, <2>9, <2>10 DEF Effect
<1> QED
  BY <1>1, <1>2, Invariants, PTL DEF Spec, DeliverySpec, Delivery!Spec

=============================================================================
