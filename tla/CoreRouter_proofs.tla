------------------------- MODULE CoreRouter_proofs --------------------------
(***************************************************************************)
(* The executor and the server's end of it.  Proved for any number of      *)
(* commands, threads, sessions, calls, crashes and restarts.               *)
(*                                                                         *)
(* The process.  A command has one owner at a time: the frame that asks    *)
(* for it, the queue, one worker thread, or the main loop that took it out *)
(* of the queue.  RequestsAreOwned says who may free and answer a command; *)
(* OwnInv says where it is, owner by owner, and is inductive.  NoLostWakeup *)
(* counts: a thread is awake for each command that waits while another     *)
(* thread sleeps.                                                          *)
(*                                                                         *)
(* The client and the router.  ProcessIsKept and ConfiguredBeforeUse       *)
(* follow from CoreInv: every frame belongs to a request that waits, every *)
(* request to a call or a command, every call waits at one place, and who  *)
(* relies on a policy has one in the process that lives.  That the policy  *)
(* is the right one (RestartKeepsPolicy) needs two invariants on top:      *)
(* FirstInv, that nothing is answered before the handshake, and AloneInv,  *)
(* that one call at a time sends the policy of a session, and what the     *)
(* process has is what was sent last.                                      *)
(*                                                                         *)
(* The contract.  TruthInv says that what a frame and a flag say of a      *)
(* command is so; with CoreInv it shows that each step of the executor is  *)
(* one of ExecContract's or leaves what an observer sees alone.            *)
(***************************************************************************)
EXTENDS CoreRouter, FiniteSetTheorems, SequenceTheorems, WellFoundedInduction, TLAPS

(***************************************************************************)
(* The process.                                                            *)
(***************************************************************************)

\* The steps of a thread at which its command is not answered yet.
Unanswered == {"taken", "executing", "returned"}

\* A frame that asks for a command is the first that is heard of it: no other frame does,
\* and the command is nowhere else.
RunsAreNew ==
    /\ \A i \in DOMAIN inbox : inbox[i].id[1] = "run" =>
          /\ inbox[i].command \in Commands
          /\ inbox[i].id = <<"run", inbox[i].command>>
          /\ replies[inbox[i].command] = 0
          /\ inbox[i].command \notin active \cup freed \cup {main}
    /\ \A i, j \in DOMAIN inbox :
          inbox[i].id[1] = "run" /\ inbox[j].id[1] = "run" /\ i # j =>
              inbox[i].command # inbox[j].command
    /\ \A i \in DOMAIN inbox : inbox[i].id[1] = "cancel" => inbox[i].command \in Commands

\* A queued command is active and unanswered, is queued once, and no thread has it.
QueueIsOwned ==
    \A i \in DOMAIN queue :
        /\ queue[i] \in active
        /\ replies[queue[i]] = 0
        /\ \A j \in DOMAIN queue : i # j => queue[i] # queue[j]
        /\ \A w \in Workers : worker[w].command # queue[i]

\* A thread has its command alone, answered or not according to the step it is at; the
\* command leaves the list of the active ones just before it is freed.
WorkersOwn ==
    \A w \in Workers : Busy(w) =>
        /\ worker[w].pc = "freeing" <=> worker[w].command \notin active
        /\ worker[w].pc \in Unanswered => replies[worker[w].command] = 0
        /\ worker[w].pc \notin Unanswered => replies[worker[w].command] = 1
        /\ worker[w].command \notin freed \cup {main}
        /\ \A v \in Workers : v # w => worker[v].command # worker[w].command

\* A command the main loop took out of the queue is on no list and is unanswered.
MainOwns == main # NoCommand => replies[main] = 0 /\ main \notin active \cup freed

\* The inductive invariant: every command has one owner.
OwnInv ==
    /\ PoolTypeOK
    /\ RunsAreNew
    /\ QueueIsOwned
    /\ WorkersOwn
    /\ MainOwns
    /\ freed \cap active = {}
    /\ \A c \in Commands : replies[c] <= 1

\* The commands in the queue.
LEMMA ToSetIs == ToSet(queue) = {queue[i] : i \in DOMAIN queue}
  BY DEF ToSet

\* Reading takes the first frame; what is left is the rest.
LEMMA FrameRead ==
  ASSUME OwnInv, NEW op, Reading(op)
  PROVE  /\ Head(inbox) = inbox[1] /\ 1 \in DOMAIN inbox
         /\ inbox[1] \in Requests /\ inbox[1].id[1] = op
         /\ inbox' \in Seq(Requests)
         /\ \A i \in DOMAIN inbox' : i + 1 \in DOMAIN inbox /\ inbox'[i] = inbox[i + 1]
                                     /\ i \in Nat \ {0}
         /\ main = NoCommand
  <1>1. inbox \in Seq(Requests) /\ inbox # <<>>
    BY DEF OwnInv, PoolTypeOK, Reading
  <1>2. Len(inbox) \in Nat \ {0} /\ DOMAIN inbox = 1..Len(inbox)
    BY <1>1, EmptySeq, LenProperties
  <1>3. inbox' \in Seq(Requests) /\ Len(inbox') = Len(inbox) - 1
        /\ \A i \in 1..Len(inbox') : inbox'[i] = inbox[i + 1]
    BY <1>1, HeadTailProperties DEF Reading
  <1>4. DOMAIN inbox' = 1..Len(inbox')
    BY <1>3, LenProperties
  <1>5. Head(inbox) = inbox[1] /\ inbox[1] \in Requests
    BY <1>1, <1>2, HeadTailProperties, ElementOfSeq
  <1> QED
    BY <1>2, <1>3, <1>4, <1>5 DEF Reading

\* What is read is no longer there; the rest keeps.
LEMMA RestIsNew ==
  ASSUME OwnInv, NEW op, Reading(op),
         \A c \in Commands : (op = "run" => c # inbox[1].command) => replies'[c] = replies[c],
         \A c \in Commands : (op = "run" => c # inbox[1].command)
                              /\ c \notin active \cup freed \cup {main}
            => c \notin active' \cup freed' \cup {main'}
  PROVE  RunsAreNew'
  <1> USE FrameRead DEF RunsAreNew, OwnInv
  <1>1. ASSUME NEW i \in DOMAIN inbox', inbox'[i].id[1] = "run"
        PROVE  /\ inbox'[i] = inbox[i + 1] /\ i + 1 \in DOMAIN inbox
               /\ inbox[i + 1].command \in Commands
               /\ inbox[i + 1].id = <<"run", inbox[i + 1].command>>
               /\ replies[inbox[i + 1].command] = 0
               /\ inbox[i + 1].command \notin active \cup freed \cup {main}
               /\ op = "run" => inbox[i + 1].command # inbox[1].command
    BY <1>1
  <1>2. \A i, j \in DOMAIN inbox' : i # j => i + 1 # j + 1
    BY FrameRead
  <1> QED
    BY <1>1, <1>2

\* The parts of RunsAreNew and of the others that a step which leaves the inbox alone can disturb.
LEMMA NewKept ==
  ASSUME OwnInv, UNCHANGED inbox,
         \A c \in Commands : replies[c] = 0 /\ c \notin active \cup freed \cup {main} =>
             replies'[c] = 0 /\ c \notin active' \cup freed' \cup {main'}
  PROVE  RunsAreNew'
  BY DEF RunsAreNew, OwnInv

\* The queue is a sequence of commands.
LEMMA QueueType ==
  ASSUME OwnInv
  PROVE  /\ queue \in Seq(Commands) /\ Len(queue) \in Nat /\ DOMAIN queue = 1..Len(queue)
         /\ \A i \in DOMAIN queue : queue[i] \in Commands
  BY EmptySeq, LenProperties, ElementOfSeq DEF OwnInv, PoolTypeOK

\* A command goes to the end of the queue.
LEMMA Appended ==
  ASSUME OwnInv, NEW c \in Commands, queue' = Append(queue, c)
  PROVE  /\ queue' \in Seq(Commands)
         /\ \A i \in DOMAIN queue' : \/ i \in DOMAIN queue /\ queue'[i] = queue[i]
                                     \/ i = Len(queue) + 1 /\ i \notin DOMAIN queue /\ queue'[i] = c
  <1>1. /\ queue' \in Seq(Commands) /\ Len(queue') = Len(queue) + 1
        /\ \A i \in 1..Len(queue) : queue'[i] = queue[i]
        /\ queue'[Len(queue) + 1] = c
    BY QueueType, AppendProperties
  <1>2. DOMAIN queue' = 1..(Len(queue) + 1)
    BY <1>1, LenProperties
  <1> QED
    BY <1>1, <1>2, QueueType

\* A command that is cancelled while it waits is no longer queued, and the others are, once
\* each.
LEMMA Struck ==
  ASSUME OwnInv, NEW c \in Commands, RemoveFromQueue(c)
  PROVE  /\ queue' \in Seq(Commands) /\ Len(queue') = Len(queue) - 1
         /\ replies[c] = 0 /\ c \in active
         /\ \A w \in Workers : worker[w].command # c
         /\ \A i \in DOMAIN queue' : \E j \in DOMAIN queue :
               /\ queue'[i] = queue[j] /\ queue[j] # c
               /\ \A k \in DOMAIN queue' : k # i => queue'[k] # queue[j]
  <1>1. PICK i \in 1..Len(queue) :
          /\ queue[i] = c
          /\ queue' = [k \in 1..(Len(queue) - 1) |-> IF k < i THEN queue[k] ELSE queue[k + 1]]
    BY DEF RemoveFromQueue
  <1>2. Len(queue) - 1 \in Nat
    BY QueueType
  <1>3. \A k \in 1..(Len(queue) - 1) : (IF k < i THEN queue[k] ELSE queue[k + 1]) \in Commands
    BY QueueType
  <1>4. queue' \in Seq(Commands) 
    BY <1>1, <1>2, <1>3, IsASeq
  <1>5. DOMAIN queue' = 1..(Len(queue) - 1) /\ Len(queue') = Len(queue) - 1
    BY <1>1, <1>2, <1>4, LenProperties
  <1>6. replies[c] = 0 /\ c \in active /\ \A w \in Workers : worker[w].command # c
    BY <1>1, QueueType DEF OwnInv, QueueIsOwned
  <1>7. ASSUME NEW k \in DOMAIN queue'
        PROVE  \E j \in DOMAIN queue :
               /\ queue'[k] = queue[j] /\ queue[j] # c
               /\ \A l \in DOMAIN queue' : l # k => queue'[l] # queue[j]
    <2> DEFINE J(n) == IF n < i THEN n ELSE n + 1
    <2>1. \A n \in DOMAIN queue' : J(n) \in DOMAIN queue /\ queue'[n] = queue[J(n)] /\ J(n) # i
      BY <1>1, <1>5, QueueType
    <2>2. \A n \in DOMAIN queue' : n # k => J(n) # J(k)
      BY <1>1, <1>5, QueueType
    <2> HIDE DEF J
    <2>3. \A n, j \in DOMAIN queue : n # j => queue[n] # queue[j]
      BY DEF OwnInv, QueueIsOwned
    <2>4. queue[J(k)] # c
      BY <1>1, <1>7, <2>1, <2>3
    <2>5. \A l \in DOMAIN queue' : l # k => queue'[l] # queue[J(k)]
      BY <1>7, <2>1, <2>2, <2>3
    <2> QED
      BY <1>7, <2>1, <2>4, <2>5
  <1> QED
    BY <1>4, <1>5, <1>6, <1>7

\* A thread takes the first command of the queue.
LEMMA TakenOut ==
  ASSUME OwnInv, queue # <<>>, queue' = Tail(queue)
  PROVE  /\ queue' \in Seq(Commands) /\ Len(queue') = Len(queue) - 1
         /\ Head(queue) = queue[1] /\ 1 \in DOMAIN queue
         /\ \A i \in DOMAIN queue' : i \in Nat \ {0} /\ i + 1 \in DOMAIN queue
                                     /\ queue'[i] = queue[i + 1]
  <1>1. Len(queue) \in Nat \ {0}
    BY QueueType, EmptySeq
  <1>2. /\ queue' \in Seq(Commands) /\ Len(queue') = Len(queue) - 1
        /\ \A i \in 1..Len(queue') : queue'[i] = queue[i + 1]
    BY QueueType, HeadTailProperties
  <1>3. DOMAIN queue' = 1..Len(queue')
    BY <1>2, LenProperties
  <1> QED
    BY <1>1, <1>2, <1>3, QueueType

\* What a thread holds.
LEMMA WorkerIs ==
  ASSUME OwnInv, NEW w \in Workers
  PROVE  /\ worker[w] \in [pc : WorkerSteps, command : Commands \cup {NoCommand}]
         /\ worker[w].pc \notin {"check", "waiting"} => worker[w].command \in Commands
         /\ worker[w].pc \in {"check", "waiting"} => worker[w].command = NoCommand
  BY DEF OwnInv, PoolTypeOK, Busy

\* A frame that is written is a response.
LEMMA WrittenType ==
  ASSUME OwnInv, NEW r \in Responses, Write(<<r>>)
  PROVE  outbox' \in Seq(Responses)
  BY ConcatProperties, EmptySeq DEF OwnInv, PoolTypeOK, Write

\* ping, session.configure and everything else that leaves the commands alone.
LEMMA PingKeeps == ASSUME OwnInv, HandlePing PROVE OwnInv'
  <1>1. RunsAreNew'
    BY RestIsNew DEF HandlePing
  <1>2. Response(Head(inbox).id, "ok") \in Responses
    BY FrameRead DEF HandlePing, Requests, Responses, Response, Answers
  <1>3. outbox' \in Seq(Responses)
    BY <1>2, WrittenType DEF HandlePing, ReplyOk
  <1>4. inbox' \in Seq(Requests)
    BY FrameRead DEF HandlePing
  <1> QED
    BY <1>1, <1>3, <1>4 DEF HandlePing, OwnInv, PoolTypeOK, Busy, QueueIsOwned, WorkersOwn, MainOwns

\* session.configure touches no command.
LEMMA ConfigureKeeps == ASSUME OwnInv, HandleConfigure PROVE OwnInv'
  <1>1. RunsAreNew'
    BY RestIsNew DEF HandleConfigure
  <1>2. Response(Head(inbox).id,
  "ok") \in Responses /\ Head(inbox).policy \in Policies \cup {NoPolicy}
    BY FrameRead DEF HandleConfigure, Requests, Responses, Response, Answers
  <1>3. outbox' \in Seq(Responses)
    BY <1>2, WrittenType DEF HandleConfigure, ReplyOk
  <1>4. inbox' \in Seq(Requests)
    BY FrameRead DEF HandleConfigure
  <1> QED
    BY <1>1, <1>2, <1>3, <1>4
    DEF HandleConfigure, OwnInv, PoolTypeOK, Busy, QueueIsOwned, WorkersOwn, MainOwns

\* A signal wakes a thread that has no command.
LEMMA SignalKeeps ==
  ASSUME OwnInv, Signal
  PROVE  /\ worker' \in [Workers -> [pc : WorkerSteps, command : Commands \cup {NoCommand}]]
         /\ \A w \in Workers : /\ worker'[w].command = worker[w].command
                               /\ worker'[w].pc # worker[w].pc =>
                                    worker[w].pc = "waiting" /\ worker'[w].pc = "check"
  <1>1. worker \in [Workers -> [pc : WorkerSteps, command : Commands \cup {NoCommand}]]
    BY DEF OwnInv, PoolTypeOK
  <1>2. CASE UNCHANGED worker
    BY <1>1, <1>2
  <1>3. CASE \E w \in Waiting : worker' = [worker EXCEPT ![w].pc = "check"]
    BY <1>1, <1>3 DEF Waiting, WorkerSteps
  <1> QED
    BY <1>2, <1>3 DEF Signal

\* The frame hands its command to the queue.
LEMMA EnqueueKeeps ==
  ASSUME OwnInv, NEW c \in Commands, Enqueue(c), Reading("run"), c = Head(inbox).command,
         UNCHANGED <<outbox, policy, raised, main, freed, phase, replies>>
  PROVE  OwnInv'
  <1>1. /\ replies[c] = 0 /\ c \notin active \cup freed \cup {main}
        /\ c = inbox[1].command
    BY FrameRead DEF OwnInv, RunsAreNew
  <1>2. \A i \in DOMAIN queue : queue[i] # c
    BY <1>1 DEF OwnInv, QueueIsOwned
  <1>3. \A w \in Workers : worker[w].command # c
    BY <1>1, WorkerIs, PoolAssumption DEF OwnInv, WorkersOwn, Busy, Unanswered
  <1>4. /\ worker' \in [Workers -> [pc : WorkerSteps, command : Commands \cup {NoCommand}]]
        /\ \A w \in Workers : /\ worker'[w].command = worker[w].command
                              /\ worker'[w].pc # worker[w].pc =>
                                    worker[w].pc = "waiting" /\ worker'[w].pc = "check"
    BY SignalKeeps DEF Enqueue
  <1>5. RunsAreNew'
    BY <1>1, RestIsNew DEF Enqueue
  <1>6. QueueIsOwned'
    BY <1>1, <1>2, <1>3, <1>4, Appended DEF Enqueue, QueueIsOwned, OwnInv
  <1>7. WorkersOwn'
    BY <1>3, <1>4, WorkerIs DEF OwnInv, WorkersOwn, Busy, Enqueue, Unanswered
  <1>8. PoolTypeOK'
    BY <1>4, FrameRead, Appended DEF Enqueue, OwnInv, PoolTypeOK, Busy
  <1>9. MainOwns' /\ freed' \cap active' = {} /\ \A d \in Commands : replies'[d] <= 1
    BY <1>1 DEF OwnInv, MainOwns, Enqueue
  <1> QED
    BY <1>5, <1>6, <1>7, <1>8, <1>9 DEF OwnInv

\* exec.run: refused and answered at once, or queued.
LEMMA RunKeeps == ASSUME OwnInv, HandleRun PROVE OwnInv'
  <1> DEFINE c == Head(inbox).command
  <1>1. /\ c \in Commands /\ replies[c] = 0 /\ c \notin active \cup freed \cup {main}
        /\ c = inbox[1].command /\ Reading("run")
    BY FrameRead DEF OwnInv, RunsAreNew, HandleRun
  <1>2. CASE /\ Write(<<RunReply(c, "refused")>>)
             /\ Count(c)
             /\ UNCHANGED <<queue, active, worker>>
    <2>1. RunReply(c, "refused") \in Responses
      BY <1>1 DEF RunReply, Response, Responses, RequestIds, Answers
    <2>2. outbox' \in Seq(Responses) /\ inbox' \in Seq(Requests)
      BY <1>1, <1>2, <2>1, WrittenType, FrameRead
    <2>3. /\ replies' \in [Commands -> Nat] /\ replies'[c] = 1
          /\ \A d \in Commands : d # c => replies'[d] = replies[d]
      BY <1>1, <1>2 DEF Count, OwnInv, PoolTypeOK
    <2>4. RunsAreNew'
      BY <1>1, <1>2, <2>3, RestIsNew DEF HandleRun
    <2>5. \A i \in DOMAIN queue : queue[i] # c
      BY <1>1 DEF OwnInv, QueueIsOwned
    <2>6. \A w \in Workers : worker[w].command # c
      BY <1>1, WorkerIs, PoolAssumption DEF OwnInv, WorkersOwn, Busy, Unanswered
    <2> HIDE DEF c
    <2>7. PoolTypeOK'
      BY <1>2, <2>2, <2>3 DEF HandleRun, OwnInv, PoolTypeOK, Busy
    <2>8. QueueIsOwned'
      BY <1>2, <2>3, <2>5, QueueType DEF HandleRun, OwnInv, QueueIsOwned
    <2>9. WorkersOwn'
      BY <1>2, <2>3, <2>6, WorkerIs DEF HandleRun, OwnInv, WorkersOwn, Busy
    <2>10. MainOwns' /\ freed' \cap active' = {}
      BY <1>1, <1>2, <2>3 DEF HandleRun, OwnInv, MainOwns, PoolTypeOK
    <2>11. \A d \in Commands : replies'[d] <= 1
      BY <2>3 DEF OwnInv
    <2> QED
      BY <2>4, <2>7, <2>8, <2>9, <2>10, <2>11 DEF OwnInv
  <1>3. CASE Enqueue(c) /\ UNCHANGED <<outbox, replies>>
    BY <1>1, <1>3, EnqueueKeeps DEF HandleRun
  <1> QED
    BY <1>2, <1>3 DEF HandleRun

\* exec.cancel: raises a flag, hands the command to the main loop, or finds nothing.
LEMMA CancelKeeps == ASSUME OwnInv, HandleCancel PROVE OwnInv'
  <1> DEFINE c == Head(inbox).command
  <1>1. c \in Commands /\ c = inbox[1].command /\ Reading("cancel") /\ main = NoCommand
    BY FrameRead DEF OwnInv, RunsAreNew, HandleCancel
  <1>2. inbox' \in Seq(Requests)
    BY <1>1, FrameRead
  <1>3. \A a \in {"ok", "unknown"} : Response(Head(inbox).id, a) \in Responses
    BY <1>1, FrameRead DEF Requests, Responses, Response, Answers
  <1>4. outbox' \in Seq(Responses)
    BY <1>3, WrittenType DEF HandleCancel, ReplyOk
  <1>5. CASE UNCHANGED <<queue, active, main>> /\ raised' \subseteq raised \cup {c}
    BY <1>1, <1>2, <1>4, <1>5, RestIsNew DEF HandleCancel, OwnInv, PoolTypeOK, Busy, QueueIsOwned,
       WorkersOwn, MainOwns
  <1>6. CASE /\ c \in active \ Running
             /\ RemoveFromQueue(c)
             /\ active' = active \ {c}
             /\ main' = c
             /\ UNCHANGED raised
    <2> HIDE DEF c
    <2>1. /\ queue' \in Seq(Commands)
          /\ replies[c] = 0 /\ c \in active
          /\ \A w \in Workers : worker[w].command # c
          /\ \A i \in DOMAIN queue' : \E j \in DOMAIN queue :
               /\ queue'[i] = queue[j] /\ queue[j] # c
               /\ \A k \in DOMAIN queue' : k # i => queue'[k] # queue[j]
      BY <1>1, <1>6, Struck
    <2>2. UNCHANGED <<worker, freed, replies, policy, phase>>
      BY DEF HandleCancel
    <2>3. RunsAreNew'
      BY <1>1, <1>6, <2>1, <2>2, RestIsNew
    <2>4. PoolTypeOK'
      BY <1>1, <1>2, <1>4, <1>6, <2>1, <2>2 DEF OwnInv, PoolTypeOK, Busy
    <2>5. QueueIsOwned'
      BY <1>6, <2>1, <2>2 DEF OwnInv, QueueIsOwned
    <2>6. WorkersOwn'
      BY <1>6, <2>1, <2>2 DEF OwnInv, WorkersOwn, Busy
    <2>7. MainOwns' /\ freed' \cap active' = {} /\ \A d \in Commands : replies'[d] <= 1
      BY <1>6, <2>1, <2>2 DEF OwnInv, MainOwns
    <2> QED
      BY <2>3, <2>4, <2>5, <2>6, <2>7 DEF OwnInv
  <1> QED
    BY <1>5, <1>6 DEF HandleCancel

\* The main loop answers and frees the command it took out of the queue.
LEMMA AnswerCancelledKeeps == ASSUME OwnInv, AnswerCancelled PROVE OwnInv'
  <1>1. main \in Commands /\ replies[main] = 0 /\ main \notin active
    BY DEF AnswerCancelled, OwnInv, PoolTypeOK, MainOwns
  <1>2. RunReply(main, "cancelled") \in Responses
    BY <1>1 DEF RunReply, Response, Responses, RequestIds, Answers
  <1>3. outbox' \in Seq(Responses)
    BY <1>2, WrittenType DEF AnswerCancelled
  <1>4. /\ replies' \in [Commands -> Nat] /\ replies'[main] = 1
        /\ \A d \in Commands : d # main => replies'[d] = replies[d]
    BY <1>1 DEF AnswerCancelled, Count, OwnInv, PoolTypeOK
  <1>5. \A i \in DOMAIN queue : queue[i] # main
    BY <1>1 DEF OwnInv, QueueIsOwned
  <1>6. \A w \in Workers : Busy(w) => worker[w].command # main
    BY DEF OwnInv, WorkersOwn
  <1>7. RunsAreNew'
    BY <1>4, PoolAssumption DEF RunsAreNew, OwnInv, AnswerCancelled
  <1>8. PoolTypeOK'
    BY <1>1, <1>3, <1>4 DEF AnswerCancelled, OwnInv, PoolTypeOK, Busy
  <1>9. QueueIsOwned'
    BY <1>4, <1>5, QueueType DEF AnswerCancelled, OwnInv, QueueIsOwned
  <1>10. WorkersOwn'
    BY <1>4, <1>6, WorkerIs, PoolAssumption DEF AnswerCancelled, OwnInv, WorkersOwn, Busy
  <1>11. MainOwns' /\ freed' \cap active' = {}
    BY <1>1 DEF AnswerCancelled, OwnInv, MainOwns
  <1>12. \A d \in Commands : replies'[d] <= 1
    BY <1>4 DEF OwnInv
  <1> QED
    BY <1>7, <1>8, <1>9, <1>10, <1>11, <1>12 DEF OwnInv

\* A thread moves on with the command it has.
LEMMA GoesTo ==
  ASSUME OwnInv, NEW w \in Workers, NEW pc \in WorkerSteps, Goes(w, pc),
         (worker[w].pc \in {"check", "waiting"}) <=> (pc \in {"check", "waiting"})
  PROVE  /\ worker' \in [Workers -> [pc : WorkerSteps, command : Commands \cup {NoCommand}]]
         /\ worker'[w].pc = pc
         /\ \A v \in Workers : worker'[v].command = worker[v].command
         /\ \A v \in Workers : v # w => worker'[v] = worker[v]
         /\ \A v \in Workers : Busy(v)' <=> worker'[v].pc \notin {"check", "waiting"}
  BY DEF Goes, OwnInv, PoolTypeOK, Busy

\* A thread that has no command sleeps or wakes up.
LEMMA IdleKeeps ==
  ASSUME OwnInv, NEW w \in Workers, Wait(w) \/ SpuriousWakeup(w)
  PROVE  OwnInv'
  <1>1. PICK pc \in {"check", "waiting"} : Goes(w, pc) /\ worker[w].pc \in {"check", "waiting"}
    BY DEF Wait, SpuriousWakeup, At
  <1>2. pc \in WorkerSteps
    BY DEF WorkerSteps
  <1>3. UNCHANGED <<inbox, outbox, policy, queue, active, raised, main, freed, phase, replies>>
    BY DEF Wait, SpuriousWakeup
  <1>4. /\ worker' \in [Workers -> [pc : WorkerSteps, command : Commands \cup {NoCommand}]]
        /\ worker'[w].pc = pc
        /\ \A v \in Workers : worker'[v].command = worker[v].command
        /\ \A v \in Workers : v # w => worker'[v] = worker[v]
        /\ \A v \in Workers : Busy(v)' <=> worker'[v].pc \notin {"check", "waiting"}
    BY <1>1, <1>2, GoesTo
  <1>5. PoolTypeOK'
    BY <1>3, <1>4 DEF OwnInv, PoolTypeOK
  <1>6. WorkersOwn'
    BY <1>1, <1>3, <1>4, WorkerIs DEF OwnInv, WorkersOwn, Busy
  <1> QED
    BY <1>3, <1>4, <1>5, <1>6 DEF OwnInv, RunsAreNew, QueueIsOwned, MainOwns

\* The oldest command leaves the queue with the thread that takes it.
LEMMA TakeKeeps ==
  ASSUME OwnInv, NEW w \in Workers, Take(w)
  PROVE  OwnInv'
  <1> DEFINE c == Head(queue)
  <1>1. UNCHANGED <<inbox, outbox, policy, active, raised, main, freed, phase, replies>>
    BY DEF Take
  <1>2. /\ queue' \in Seq(Commands)
        /\ c = queue[1] /\ 1 \in DOMAIN queue
        /\ \A i \in DOMAIN queue' : i \in Nat \ {0} /\ i + 1 \in DOMAIN queue
                                     /\ queue'[i] = queue[i + 1]
    BY TakenOut DEF Take
  <1>3. \A i \in DOMAIN queue' : i + 1 # 1
    BY <1>2
  <1>4. /\ c \in Commands /\ c # NoCommand /\ replies[c] = 0 /\ c \in active
        /\ \A v \in Workers : worker[v].command # c
        /\ \A i \in DOMAIN queue' : queue'[i] # c
    BY <1>2, <1>3, QueueType, PoolAssumption DEF OwnInv, QueueIsOwned
  <1>5. c \notin freed \cup {main}
    BY <1>4, PoolAssumption DEF OwnInv, MainOwns
  <1>6. /\ worker' = [worker EXCEPT ![w] = [pc |-> "taken", command |-> c]]
        /\ worker'[w] = [pc |-> "taken", command |-> c]
        /\ \A v \in Workers : v # w => worker'[v] = worker[v]
        /\ worker[w].command = NoCommand
    BY WorkerIs DEF Take, OwnInv, PoolTypeOK, At
  <1>7. \A i, j \in DOMAIN queue' : i # j => i + 1 # j + 1
    BY <1>2
  <1> HIDE DEF c
  <1>8. PoolTypeOK'
    BY <1>1, <1>2, <1>4, <1>6 DEF OwnInv, PoolTypeOK, WorkerSteps, Busy
  <1>9. RunsAreNew'
    BY <1>1 DEF OwnInv, RunsAreNew
  <1>10. QueueIsOwned'
    BY <1>1, <1>2, <1>4, <1>6, <1>7 DEF OwnInv, QueueIsOwned
  <1>11. WorkersOwn'
    BY <1>1, <1>4, <1>5, <1>6 DEF OwnInv, WorkersOwn, Busy, Unanswered
  <1> QED
    BY <1>1, <1>8, <1>9, <1>10, <1>11 DEF OwnInv, MainOwns

\* What holds of the command of a thread that has one.
LEMMA Holding ==
  ASSUME OwnInv, NEW w \in Workers, worker[w].pc \notin {"check", "waiting"}
  PROVE  /\ worker[w].command \in Commands /\ Busy(w) /\ worker[w].command # NoCommand
         /\ worker[w].command \notin freed \cup {main}
         /\ \A i \in DOMAIN queue : queue[i] # worker[w].command
         /\ \A v \in Workers : v # w => worker[v].command # worker[w].command
         /\ worker[w].pc = "freeing" <=> worker[w].command \notin active
         /\ worker[w].pc \in Unanswered => replies[worker[w].command] = 0
         /\ worker[w].pc \notin Unanswered => replies[worker[w].command] = 1
         /\ \A i \in DOMAIN inbox : inbox[i].id[1] = "run" => inbox[i].command # worker[w].command
  <1>1. /\ worker[w].command \in Commands /\ Busy(w) /\ worker[w].command # NoCommand
        /\ \A i \in DOMAIN queue : queue[i] # worker[w].command
    BY WorkerIs, PoolAssumption DEF OwnInv, QueueIsOwned, Busy
  <1>2. /\ worker[w].command \notin freed \cup {main}
        /\ \A v \in Workers : v # w => worker[v].command # worker[w].command
        /\ worker[w].pc = "freeing" <=> worker[w].command \notin active
        /\ worker[w].pc \in Unanswered => replies[worker[w].command] = 0
        /\ worker[w].pc \notin Unanswered => replies[worker[w].command] = 1
    BY <1>1 DEF OwnInv, WorkersOwn
  <1>3. worker[w].pc = "freeing" => worker[w].pc \notin Unanswered
    BY DEF Unanswered
  <1>4. ASSUME NEW i \in DOMAIN inbox, inbox[i].id[1] = "run", inbox[i].command = worker[w].command
        PROVE  FALSE
    BY <1>2, <1>3, <1>4 DEF OwnInv, RunsAreNew
  <1> QED
    BY <1>1, <1>2, <1>4

\* A thread answers the command it holds.
LEMMA AnswerKeeps ==
  ASSUME OwnInv, NEW w \in Workers, worker[w].pc \in Unanswered,
         NEW r \in Answers,
         Goes(w, "replied"), Write(<<RunReply(worker[w].command, r)>>), Count(worker[w].command),
         UNCHANGED <<inbox, policy, queue, active, raised, main, freed, phase>>
  PROVE  OwnInv'
  <1> DEFINE c == worker[w].command
  <1>1. worker[w].pc \notin {"check", "waiting"} /\ "replied" \in WorkerSteps
        /\ worker[w].pc # "freeing"
    BY DEF Unanswered, WorkerSteps
  <1>2. /\ c \in Commands /\ c # NoCommand /\ c \notin freed \cup {main}
        /\ \A i \in DOMAIN queue : queue[i] # c
        /\ \A v \in Workers : v # w => worker[v].command # c
        /\ c \in active /\ replies[c] = 0
        /\ \A i \in DOMAIN inbox : inbox[i].id[1] = "run" => inbox[i].command # c
    BY <1>1, Holding
  <1>3. /\ worker' \in [Workers -> [pc : WorkerSteps, command : Commands \cup {NoCommand}]]
        /\ worker'[w].pc = "replied"
        /\ \A v \in Workers : worker'[v].command = worker[v].command
        /\ \A v \in Workers : v # w => worker'[v] = worker[v]
        /\ \A v \in Workers : Busy(v)' <=> worker'[v].pc \notin {"check", "waiting"}
    BY <1>1, GoesTo
  <1>4. RunReply(c, r) \in Responses
    BY <1>2 DEF RunReply, Response, Responses, RequestIds
  <1>5. outbox' \in Seq(Responses)
    BY <1>4, WrittenType
  <1>6. /\ replies' \in [Commands -> Nat] /\ replies'[c] = 1
        /\ \A d \in Commands : d # c => replies'[d] = replies[d]
    BY <1>2 DEF Count, OwnInv, PoolTypeOK
  <1> HIDE DEF c
  <1>7. PoolTypeOK'
    BY <1>3, <1>5, <1>6 DEF OwnInv, PoolTypeOK
  <1>8. RunsAreNew'
    BY <1>2, <1>6 DEF OwnInv, RunsAreNew
  <1>9. QueueIsOwned'
    <2>1. \A i \in DOMAIN queue : replies'[queue[i]] = replies[queue[i]]
      BY <1>2, <1>6, QueueType
    <2> QED
      BY <1>3, <2>1 DEF OwnInv, QueueIsOwned
  <1>10. WorkersOwn'
    BY <1>2, <1>3, <1>6, WorkerIs DEF Busy, c, Unanswered, OwnInv, WorkersOwn
  <1>11. MainOwns'
    BY <1>2, <1>6 DEF OwnInv, MainOwns, PoolTypeOK
  <1>12. \A d \in Commands : replies'[d] <= 1
    BY <1>6 DEF OwnInv
  <1> QED
    BY <1>7, <1>8, <1>9, <1>10, <1>11, <1>12 DEF OwnInv

\* A thread goes on with an unanswered command.
LEMMA WorkKeeps ==
  ASSUME OwnInv, NEW w \in Workers, worker[w].pc \in Unanswered,
         NEW pc \in Unanswered, Goes(w, pc), phase' \in [Commands -> Phases],
         UNCHANGED <<inbox, outbox, policy, queue, active, raised, main, freed, replies>>
  PROVE  OwnInv'
  <1>1. /\ worker[w].pc \notin {"check", "waiting"} /\ pc \in WorkerSteps
        /\ pc \notin {"check", "waiting", "freeing"} /\ worker[w].pc # "freeing"
    BY DEF Unanswered, WorkerSteps
  <1>2. /\ worker' \in [Workers -> [pc : WorkerSteps, command : Commands \cup {NoCommand}]]
        /\ worker'[w].pc = pc
        /\ \A v \in Workers : worker'[v].command = worker[v].command
        /\ \A v \in Workers : v # w => worker'[v] = worker[v]
        /\ \A v \in Workers : Busy(v)' <=> worker'[v].pc \notin {"check", "waiting"}
    BY <1>1, GoesTo
  <1>3. PoolTypeOK'
    BY <1>2 DEF OwnInv, PoolTypeOK
  <1>4. WorkersOwn'
    BY <1>1, <1>2 DEF OwnInv, WorkersOwn, Busy
  <1> QED
    BY <1>2, <1>3, <1>4 DEF OwnInv, RunsAreNew, QueueIsOwned, MainOwns

\* A command begins, or is answered because its flag is up.
LEMMA BeginKeeps == ASSUME OwnInv, NEW w \in Workers, Begin(w) PROVE OwnInv'
  <1>1. worker[w].pc \in Unanswered /\ "executing" \in Unanswered /\ "cancelled" \in Answers
    BY DEF Begin, At, Unanswered, Answers
  <1>2. [phase EXCEPT ![worker[w].command] = "started"] \in [Commands -> Phases]
    BY DEF OwnInv, PoolTypeOK, Phases
  <1> QED
    BY <1>1, <1>2, AnswerKeeps, WorkKeeps DEF Begin

\* A command ends.
LEMMA ReturnsKeeps == ASSUME OwnInv, NEW w \in Workers, CommandEnds(w) PROVE OwnInv'
  <1>1. PICK how \in {"ended", "stopped", "broken"} : Returns(w, how)
    BY DEF CommandEnds
  <1>2. worker[w].pc \in Unanswered /\ "returned" \in Unanswered
    BY <1>1 DEF Returns, At, Unanswered
  <1>3. [phase EXCEPT ![worker[w].command] = how] \in [Commands -> Phases]
    BY DEF OwnInv, PoolTypeOK, Phases
  <1> QED
    BY <1>1, <1>2, <1>3, WorkKeeps DEF Returns

\* A command is answered by its thread.
LEMMA ReplyKeeps == ASSUME OwnInv, NEW w \in Workers, Reply(w) PROVE OwnInv'
  <1> DEFINE c == worker[w].command
             r == IF c \in raised \/ phase[c] = "stopped" THEN "cancelled"
                  ELSE IF phase[c] = "broken" THEN "failed" ELSE "result"
  <1>1. worker[w].pc \in Unanswered /\ r \in Answers
    BY DEF Reply, At, Unanswered, Answers
  <1>2. /\ Goes(w, "replied") /\ Write(<<RunReply(c, r)>>) /\ Count(c)
        /\ UNCHANGED <<inbox, policy, queue, active, raised, main, freed, phase>>
    BY DEF Reply
  <1> HIDE DEF r
  <1> QED
    BY <1>1, <1>2, AnswerKeeps

\* A command leaves the list of the active ones.
LEMMA ReleaseKeeps == ASSUME OwnInv, NEW w \in Workers, Release(w) PROVE OwnInv'
  <1> DEFINE c == worker[w].command
  <1>1. worker[w].pc = "replied" /\ "freeing" \in WorkerSteps
    BY DEF Release, At, WorkerSteps
  <1>2. /\ c \in Commands /\ c # NoCommand /\ c \notin freed \cup {main}
        /\ \A i \in DOMAIN queue : queue[i] # c
        /\ \A v \in Workers : v # w => worker[v].command # c
        /\ c \in active /\ replies[c] = 1
    BY <1>1, Holding DEF Unanswered
  <1>3. /\ worker' \in [Workers -> [pc : WorkerSteps, command : Commands \cup {NoCommand}]]
        /\ worker'[w].pc = "freeing"
        /\ \A v \in Workers : worker'[v].command = worker[v].command
        /\ \A v \in Workers : v # w => worker'[v] = worker[v]
        /\ \A v \in Workers : Busy(v)' <=> worker'[v].pc \notin {"check", "waiting"}
    BY <1>1, GoesTo DEF Release
  <1>4. /\ active' = active \ {c}
        /\ UNCHANGED <<inbox, outbox, policy, queue, raised, main, freed, phase, replies>>
    BY DEF Release
  <1> HIDE DEF c
  <1>5. PoolTypeOK'
    BY <1>3, <1>4 DEF OwnInv, PoolTypeOK
  <1>6. RunsAreNew'
    BY <1>4 DEF OwnInv, RunsAreNew
  <1>7. QueueIsOwned'
    BY <1>2, <1>3, <1>4 DEF OwnInv, QueueIsOwned
  <1>8. WorkersOwn'
    BY <1>2, <1>3, <1>4 DEF Busy, c, Unanswered, OwnInv, WorkersOwn
  <1> QED
    BY <1>4, <1>5, <1>6, <1>7, <1>8 DEF OwnInv, MainOwns

\* A command is freed by its thread.
LEMMA FreeKeeps == ASSUME OwnInv, NEW w \in Workers, Free(w) PROVE OwnInv'
  <1> DEFINE c == worker[w].command
  <1>1. worker[w].pc = "freeing"
    BY DEF Free, At
  <1>2. /\ c \in Commands /\ c # NoCommand /\ c \notin freed \cup {main}
        /\ \A i \in DOMAIN queue : queue[i] # c
        /\ \A v \in Workers : v # w => worker[v].command # c
        /\ c \notin active
        /\ \A i \in DOMAIN inbox : inbox[i].id[1] = "run" => inbox[i].command # c
    BY <1>1, Holding
  <1>3. /\ worker' \in [Workers -> [pc : WorkerSteps, command : Commands \cup {NoCommand}]]
        /\ worker'[w] = IdleWorker
        /\ \A v \in Workers : v # w => worker'[v] = worker[v]
    BY DEF Free, OwnInv, PoolTypeOK, IdleWorker, WorkerSteps
  <1>4. /\ freed' = freed \cup {c}
        /\ UNCHANGED <<inbox, outbox, policy, queue, active, raised, main, phase, replies>>
    BY DEF Free
  <1> HIDE DEF c
  <1>5. \A v \in Workers : Busy(v)' <=> worker'[v].pc \notin {"check", "waiting"}
    <2>1. Busy(w)' <=> worker'[w].pc \notin {"check", "waiting"}
      BY <1>3 DEF Busy, IdleWorker
    <2>2. \A v \in Workers : v # w => (Busy(v)' <=> worker'[v].pc \notin {"check", "waiting"})
      BY <1>3 DEF OwnInv, PoolTypeOK, Busy
    <2> QED
      BY <2>1, <2>2
  <1>6. PoolTypeOK'
    BY <1>2, <1>3, <1>4, <1>5 DEF OwnInv, PoolTypeOK
  <1>7. RunsAreNew'
    BY <1>2, <1>4 DEF OwnInv, RunsAreNew
  <1>8. QueueIsOwned'
    BY <1>3, <1>4, QueueType, PoolAssumption DEF OwnInv, QueueIsOwned, IdleWorker
  <1>9. WorkersOwn'
    BY <1>2, <1>3, <1>4 DEF Busy, IdleWorker, OwnInv, WorkersOwn
  <1> QED
    BY <1>2, <1>4, <1>6, <1>7, <1>8, <1>9 DEF OwnInv, MainOwns

\* A client may send a command that nobody has heard of.
LEMMA SendKeeps == ASSUME OwnInv, NEW r \in Sendable, Send(r) PROVE OwnInv'
  <1>1. /\ r \in Requests
        /\ r.id[1] = "run" => /\ r.command \in Commands /\ Unsent(r.command)
                              /\ r.id = <<"run", r.command>>
        /\ r.id[1] = "cancel" => r.command \in Commands
    BY PoolAssumption DEF Request, Requests, RequestIds, Ops, Sendable
  <1>2. /\ inbox' \in Seq(Requests)
        /\ \A i \in DOMAIN inbox' : \/ i \in DOMAIN inbox /\ inbox'[i] = inbox[i]
                                    \/ i = Len(inbox) + 1 /\ inbox'[i] = r
    BY <1>1, AppendProperties, LenProperties DEF OwnInv, PoolTypeOK, Send
  <1>3. UNCHANGED <<outbox, policy, queue, active, raised, worker, main, freed, phase, replies>>
    BY DEF Send
  <1>4. RunsAreNew'
    BY <1>1, <1>2, <1>3 DEF Unsent, OwnInv, RunsAreNew
  <1>5. PoolTypeOK'
    BY <1>2, <1>3 DEF OwnInv, PoolTypeOK, Busy
  <1> QED
    BY <1>3, <1>4, <1>5 DEF OwnInv, QueueIsOwned, WorkersOwn, MainOwns, Busy

\* What the client reads concerns no owner.
LEMMA ReceiveKeeps == ASSUME OwnInv, Receive PROVE OwnInv'
  <1>1. outbox' \in Seq(Responses)
    BY HeadTailProperties DEF Receive, OwnInv, PoolTypeOK
  <1> QED
    BY <1>1 DEF Receive, OwnInv, PoolTypeOK, RunsAreNew, QueueIsOwned, WorkersOwn, MainOwns, Busy

\* A new process holds nothing.
LEMMA FreshIs ==
  ASSUME Fresh, phase \in [Commands -> Phases], replies \in [Commands -> Nat],
         \A c \in Commands : replies[c] <= 1
  PROVE  OwnInv
  <1>1. PoolTypeOK
    BY EmptySeq DEF Fresh, PoolTypeOK, IdleWorker, Busy, WorkerSteps
  <1>2. DOMAIN inbox = {} /\ DOMAIN queue = {}
    BY DEF Fresh
  <1>3. \A w \in Workers : ~Busy(w)
    BY DEF Fresh, Busy, IdleWorker
  <1>4. RunsAreNew /\ QueueIsOwned
    BY <1>2 DEF RunsAreNew, QueueIsOwned
  <1>5. WorkersOwn /\ MainOwns /\ freed \cap active = {}
    BY <1>3 DEF WorkersOwn, MainOwns, Fresh
  <1> QED
    BY <1>1, <1>4, <1>5 DEF OwnInv

\* A process that replaces another one has no command.
LEMMA ReplacedKeeps == ASSUME OwnInv, Replaced PROVE OwnInv'
  <1>1. Fresh'
    BY DEF Replaced, Fresh
  <1>2. (/\ phase \in [Commands -> Phases] /\ replies \in [Commands -> Nat]
         /\ \A c \in Commands : replies[c] <= 1)'
    BY DEF Replaced, OwnInv, PoolTypeOK
  <1>3. (Fresh /\ phase \in [Commands -> Phases] /\ replies \in [Commands -> Nat]
           /\ (\A c \in Commands : replies[c] <= 1) => OwnInv)'
    BY FreshIs, PTL
  <1> QED
    BY <1>1, <1>2, <1>3

\* OwnInv is inductive.
LEMMA PoolKeeps == OwnInv /\ [PoolNext]_poolVars => OwnInv'
  <1> SUFFICES ASSUME OwnInv, [PoolNext]_poolVars PROVE OwnInv'
    OBVIOUS
  <1>1. CASE UNCHANGED poolVars
    BY <1>1 DEF poolVars, OwnInv, PoolTypeOK, RunsAreNew, QueueIsOwned, WorkersOwn, MainOwns, Busy
  <1>2. CASE MainLoop
    BY <1>2, PingKeeps, ConfigureKeeps, RunKeeps, CancelKeeps, AnswerCancelledKeeps DEF MainLoop
  <1>3. ASSUME NEW w \in Workers, WorkerStep(w) \/ CommandEnds(w) \/ SpuriousWakeup(w)
        PROVE  OwnInv'
    BY <1>3, IdleKeeps, TakeKeeps, BeginKeeps, ReplyKeeps, ReleaseKeeps, FreeKeeps, ReturnsKeeps
    DEF WorkerStep
  <1>4. CASE (\E r \in Sendable : Send(r)) \/ Receive \/ Replaced
    BY <1>4, SendKeeps, ReceiveKeeps, ReplacedKeeps
  <1> QED
    BY <1>1, <1>2, <1>3, <1>4 DEF PoolNext, PoolStep

\* OwnInv holds at first.
LEMMA PoolStarts == PoolInit => OwnInv
  <1> SUFFICES ASSUME PoolInit PROVE OwnInv
    OBVIOUS
  <1>1. phase \in [Commands -> Phases] /\ replies \in [Commands -> Nat]
    BY DEF PoolInit, Phases
  <1>2. \A c \in Commands : replies[c] <= 1
    BY DEF PoolInit
  <1> QED
    BY <1>1, <1>2, FreshIs DEF PoolInit

\* RequestsAreOwned (core/src/rpc.c): whatever is cancelled when, a command is freed by the one
\* that holds it and answered at most once.
THEOREM CommandsAreOwned == PoolSpec => []RequestsAreOwned
  <1>1. OwnInv => RequestsAreOwned
    <2> SUFFICES ASSUME OwnInv PROVE RequestsAreOwned
      OBVIOUS
    <2>1. freed \cap ToSet(queue) = {}
      BY ToSetIs DEF OwnInv, QueueIsOwned
    <2>2. main \notin freed
      BY PoolAssumption DEF OwnInv, MainOwns, PoolTypeOK
    <2>3. \A w \in Workers : Busy(w) => worker[w].command \notin freed
      BY DEF OwnInv, WorkersOwn
    <2> QED
      BY <2>1, <2>2, <2>3 DEF OwnInv, RequestsAreOwned
  <1> QED
    BY PoolStarts, PoolKeeps, <1>1, PTL DEF PoolSpec

\* The threads that look at the queue, or are about to.
Looking == {w \in Workers : At(w, "check")}

\* There is a fixed number of threads.
LEMMA LookingIsFinite == IsFiniteSet(Looking) /\ Cardinality(Looking) \in Nat
  <1>1. Looking \subseteq Workers
    BY DEF Looking
  <1> QED
    BY <1>1, PoolAssumption, FS_Subset, FS_CardinalityType

\* One thread more looks at the queue.
LEMMA OneMoreLooks ==
  ASSUME NEW w \in Workers, w \notin Looking, Looking' = Looking \cup {w}
  PROVE  Cardinality(Looking') = Cardinality(Looking) + 1
  BY LookingIsFinite, FS_AddElement

\* The threads that sleep and those that look at the queue stay the same, and so does the queue
\* or gets shorter.
LEMMA SameThreads ==
  ASSUME OwnInv, NoLostWakeup, UNCHANGED worker, Len(queue') \in Nat, Len(queue') <= Len(queue)
  PROVE  NoLostWakeup'
  <1>1. Waiting' = Waiting /\ Looking' = Looking
    BY DEF Waiting, Looking, At
  <1>2. Waiting # {} => Len(queue) <= Cardinality(Looking)
    BY DEF NoLostWakeup, Looking
  <1>3. Waiting' # {} => Len(queue') <= Cardinality(Looking')
    BY <1>1, <1>2, LookingIsFinite, QueueType
  <1> QED
    BY <1>3 DEF NoLostWakeup, Looking

\* A thread that has a command goes on with it.
LEMMA BusyThread ==
  ASSUME OwnInv, NoLostWakeup, UNCHANGED queue, NEW w \in Workers, NEW pc,
         Goes(w, pc), worker[w].pc \notin {"check", "waiting"}, pc \notin {"check", "waiting"}
  PROVE  NoLostWakeup'
  <1>1. \A v \in Workers : \/ worker'[v].pc = worker[v].pc
                           \/ v = w /\ worker'[v].pc = pc
    BY DEF Goes, OwnInv, PoolTypeOK
  <1>2. worker'[w].pc \notin {"check", "waiting"}
    BY DEF Goes, OwnInv, PoolTypeOK
  <1>3. Waiting' = Waiting
    BY <1>1, <1>2 DEF Waiting
  <1>4. Looking' = Looking
    BY <1>1, <1>2 DEF Looking, At
  <1> QED
    BY <1>3, <1>4 DEF NoLostWakeup, Looking

\* A thread without a command wakes up, or one that has answered its command looks for another.
LEMMA ThreadLooks ==
  ASSUME OwnInv, NoLostWakeup, UNCHANGED queue, NEW w \in Workers,
         worker[w].pc # "check",
         worker' \in [Workers -> [pc : WorkerSteps, command : Commands \cup {NoCommand}]],
         worker'[w].pc = "check", \A v \in Workers : v # w => worker'[v] = worker[v]
  PROVE  NoLostWakeup'
  <1>1. Waiting' \subseteq Waiting
    BY DEF Waiting
  <1>2. Looking' = Looking \cup {w} /\ w \notin Looking
    BY DEF Looking, At
  <1>3. Cardinality(Looking') = Cardinality(Looking) + 1
    BY <1>2, OneMoreLooks
  <1>4. Waiting # {} => Len(queue) <= Cardinality(Looking)
    BY DEF NoLostWakeup, Looking
  <1>5. Waiting' # {} => Len(queue') <= Cardinality(Looking')
    BY <1>1, <1>3, <1>4, LookingIsFinite, QueueType
  <1> QED
    BY <1>5 DEF NoLostWakeup, Looking

\* Whoever puts a command in the queue wakes a thread, if one sleeps.
LEMMA EnqueueWakes ==
  ASSUME OwnInv, NoLostWakeup, NEW c \in Commands, Enqueue(c)
  PROVE  NoLostWakeup'
  <1>1. CASE Waiting = {} /\ UNCHANGED worker
    <2>1. Waiting' = {}
      BY <1>1 DEF Waiting
    <2> QED
      BY <2>1 DEF NoLostWakeup
  <1>2. CASE \E w \in Waiting : worker' = [worker EXCEPT ![w].pc = "check"]
    <2>1. PICK w \in Waiting : worker' = [worker EXCEPT ![w].pc = "check"]
      BY <1>2
    <2>2. w \in Workers /\ worker[w].pc = "waiting"
      BY DEF Waiting
    <2>3. Looking' = Looking \cup {w} /\ w \notin Looking
      BY <2>1, <2>2 DEF Looking, At, OwnInv, PoolTypeOK
    <2>4. Cardinality(Looking') = Cardinality(Looking) + 1
      BY <2>2, <2>3, OneMoreLooks
    <2>5. Len(queue') = Len(queue) + 1
      BY QueueType, AppendProperties DEF Enqueue
    <2>6. Len(queue) <= Cardinality(Looking)
      BY <2>1 DEF NoLostWakeup, Looking
    <2>7. Len(queue') <= Cardinality(Looking')
      BY <2>4, <2>5, <2>6, LookingIsFinite, QueueType
    <2> QED
      BY <2>7 DEF NoLostWakeup, Looking
  <1> QED
    BY <1>1, <1>2 DEF Enqueue, Signal

\* The main loop queues a command only with a signal.
LEMMA MainWakes ==
  ASSUME OwnInv, NoLostWakeup, MainLoop
  PROVE  NoLostWakeup'
  <1>1. CASE UNCHANGED <<queue, worker>>
    BY <1>1, QueueType, SameThreads
  <1>2. ASSUME NEW c \in Commands, RemoveFromQueue(c), UNCHANGED worker
        PROVE  NoLostWakeup'
    <2>1. Len(queue') = Len(queue) - 1 /\ queue' \in Seq(Commands)
      BY <1>2, Struck
    <2>2. Len(queue') \in Nat
      BY <2>1, LenProperties
    <2> QED
      BY <1>2, <2>1, <2>2, QueueType, SameThreads
  <1>3. CASE HandleRun
    BY <1>1, <1>3, FrameRead, EnqueueWakes DEF HandleRun, OwnInv, RunsAreNew
  <1>4. CASE HandleCancel
    BY <1>1, <1>2, <1>4, FrameRead DEF HandleCancel, OwnInv, RunsAreNew
  <1>5. CASE HandlePing \/ HandleConfigure \/ AnswerCancelled
    BY <1>1, <1>5 DEF HandlePing, HandleConfigure, AnswerCancelled
  <1> QED
    BY <1>3, <1>4, <1>5 DEF MainLoop

\* A thread goes to sleep only when the queue is empty, and takes one command each time it
\* looks.
LEMMA WorkerWakes ==
  ASSUME OwnInv, NoLostWakeup, NEW w \in Workers,
         WorkerStep(w) \/ CommandEnds(w) \/ SpuriousWakeup(w)
  PROVE  NoLostWakeup'
  <1>1. CASE Wait(w)
    BY <1>1, LookingIsFinite, FS_Subset, FS_CardinalityType DEF Wait, Goes, Looking, At, OwnInv,
       PoolTypeOK, NoLostWakeup
  <1>2. CASE SpuriousWakeup(w)
    BY <1>2, ThreadLooks DEF SpuriousWakeup, Goes, At, OwnInv, PoolTypeOK, WorkerSteps
  <1>3. CASE Take(w)
    <2>1. Len(queue') = Len(queue) - 1
      BY <1>3, TakenOut DEF Take
    <2>2. Waiting' = Waiting
      BY <1>3 DEF Take, Waiting, At, OwnInv, PoolTypeOK
    <2>3. Looking' = Looking \ {w} /\ w \in Looking
      BY <1>3 DEF Take, Looking, At, OwnInv, PoolTypeOK
    <2>4. Cardinality(Looking') = Cardinality(Looking) - 1
      BY <2>3, LookingIsFinite, FS_RemoveElement
    <2>5. Waiting # {} => Len(queue) <= Cardinality(Looking)
      BY DEF NoLostWakeup, Looking
    <2>6. Waiting' # {} => Len(queue') <= Cardinality(Looking')
      BY <2>1, <2>2, <2>4, <2>5, LookingIsFinite, QueueType
    <2> QED
      BY <2>6 DEF NoLostWakeup, Looking
  <1>4. CASE Begin(w) \/ CommandEnds(w) \/ Reply(w) \/ Release(w)
    BY <1>4, BusyThread DEF Begin, CommandEnds, Returns, Reply, Release, At
  <1>5. CASE Free(w)
    BY <1>5, ThreadLooks DEF Free, At, OwnInv, PoolTypeOK, WorkerSteps, IdleWorker
  <1> QED
    BY <1>1, <1>2, <1>3, <1>4, <1>5 DEF WorkerStep

\* In a new process no thread sleeps.
LEMMA FreshWakes == Fresh => NoLostWakeup
  BY DEF Fresh, NoLostWakeup, Waiting, IdleWorker

\* NoLostWakeup (core/src/rpc.c): no thread sleeps while a command waits for which none is
\* awake.
THEOREM NoWakeupIsLost == PoolSpec => []NoLostWakeup
  <1>1. PoolInit => NoLostWakeup
    BY FreshWakes DEF PoolInit
  <1>2. ASSUME OwnInv, NoLostWakeup, [PoolNext]_poolVars PROVE NoLostWakeup'
    <2>1. CASE UNCHANGED <<queue, worker>>
      BY <1>2, <2>1, QueueType, SameThreads
    <2>2. CASE Replaced
      BY <2>2 DEF Replaced, NoLostWakeup, Waiting, IdleWorker
    <2>3. CASE \E r \in Sendable : Send(r)
      BY <2>1, <2>3 DEF Send
    <2>4. CASE Receive
      BY <2>1, <2>4 DEF Receive
    <2>5. CASE UNCHANGED poolVars
      BY <2>1, <2>5 DEF poolVars
    <2> QED
      BY <1>2, <2>2, <2>3, <2>4, <2>5, MainWakes, WorkerWakes DEF PoolNext, PoolStep
  <1> QED
    BY PoolStarts, PoolKeeps, <1>1, <1>2, PTL DEF PoolSpec

(***************************************************************************)
(* Sequences: what is left of one, and what is added to it.                *)
(***************************************************************************)

\* A set of numbers has a least one: the intervals up to its elements are well-founded.
LEMMA Least ==
  ASSUME NEW T, T # {}, T \subseteq Nat
  PROVE  \E x \in T : \A y \in T : x <= y
  <1> DEFINE F == {0..n : n \in T}
  <1>1. IsWellFoundedOn(StrictSubsetOrdering(Nat), FiniteSubsetsOf(Nat))
    BY FS_StrictSubsetOrderingWellFounded
  <1>2. F \subseteq FiniteSubsetsOf(Nat)
    <2>1. \A n \in T : IsFiniteSet(0..n)
      BY FS_Interval
    <2> QED
      BY <2>1 DEF FiniteSubsetsOf
  <1>3. F # {}
    OBVIOUS
  <1>4. PICK x \in F : \A y \in F : <<y, x>> \notin StrictSubsetOrdering(Nat)
    <2> HIDE DEF F
    <2> QED
      BY <1>1, <1>2, <1>3, WFMin
  <1>5. PICK n \in T : x = 0..n
    OBVIOUS
  <1>6. ASSUME NEW m \in T, m < n
        PROVE  FALSE
    <2>1. 0..m \in F
      OBVIOUS
    <2>2. 0..m \subseteq Nat /\ x \subseteq Nat /\ 0..m \subseteq x /\ 0..m # x
      BY <1>5, <1>6
    <2>3. <<0..m, x>> \in StrictSubsetOrdering(Nat)
      BY <2>2 DEF StrictSubsetOrdering
    <2> QED
      BY <1>4, <2>1, <2>3
  <1> QED
    BY <1>5, <1>6

\* The number of places up to one of them tells the places apart and counts from one.
LEMMA NthIs ==
  ASSUME NEW N \in Nat, NEW P \in SUBSET (1..N)
  PROVE  /\ IsFiniteSet(P) /\ Cardinality(P) \in Nat /\ Cardinality(P) <= N
         /\ (P # 1..N => Cardinality(P) < N)
         /\ \A n \in 1..Cardinality(P) : Nth(P, n) \in P
         /\ \A i \in P : \E n \in 1..Cardinality(P) : Nth(P, n) = i
         /\ \A m, n \in 1..Cardinality(P) : Nth(P, m) = Nth(P, n) => m = n
  <1> DEFINE U(i) == {k \in P : k <= i}
             rank == [i \in P |-> Cardinality(U(i))]
  <1>0. P \subseteq Nat
    OBVIOUS
  <1>1. IsFiniteSet(P) /\ Cardinality(P) \in Nat /\ Cardinality(P) <= N /\ (P # 1..N => Cardinality(P) < N)
    <2>1. IsFiniteSet(1..N) /\ Cardinality(1..N) = N
      BY FS_Interval
    <2>2. IsFiniteSet(P) /\ Cardinality(P) <= Cardinality(1..N) /\ (Cardinality(P) = Cardinality(1..N) => P = 1..N)
      BY <2>1, FS_Subset
    <2>3. Cardinality(P) \in Nat
      BY <2>2, FS_CardinalityType
    <2> QED
      BY <2>1, <2>2, <2>3
  <1>2. \A i \in P : U(i) \in SUBSET P /\ i \in U(i) /\ IsFiniteSet(U(i))
    BY <1>1, FS_Subset
  <1>3. \A i \in P : Cardinality(U(i)) \in 1..Cardinality(P)
    <2> TAKE i \in P
    <2>1. Cardinality(U(i)) \in Nat /\ Cardinality(U(i)) <= Cardinality(P)
      BY <1>1, <1>2, FS_Subset, FS_CardinalityType
    <2>2. Cardinality(U(i)) # 0
      BY <1>2, FS_EmptySet
    <2> QED
      BY <1>1, <2>1, <2>2
  <1>4. ASSUME NEW i \in P, NEW j \in P, Cardinality(U(i)) = Cardinality(U(j))
        PROVE  i = j
    <2>1. CASE i <= j
      <3>0. \A k \in P : k <= i => k <= j
        BY <2>1
      <3>1. U(i) \in SUBSET U(j)
        BY <3>0
      <3>2. U(i) = U(j)
        BY <1>2, <1>4, <3>1, FS_Subset
      <3> QED
        BY <1>0, <1>2, <2>1, <3>2
    <2>2. CASE j <= i
      <3>0. \A k \in P : k <= j => k <= i
        BY <2>2
      <3>1. U(j) \in SUBSET U(i)
        BY <3>0
      <3>2. U(i) = U(j)
        BY <1>2, <1>4, <3>1, FS_Subset
      <3> QED
        BY <1>0, <1>2, <2>2, <3>2
    <2> QED
      BY <2>1, <2>2
  <1>5. IsFiniteSet(1..Cardinality(P)) /\ Cardinality(1..Cardinality(P)) = Cardinality(P)
    BY <1>1, FS_Interval
  <1>6. rank \in Injection(P, 1..Cardinality(P))
    <2> HIDE DEF U
    <2> QED
      BY <1>3, <1>4 DEF Injection, IsInjective
  <1>7. rank \in Surjection(P, 1..Cardinality(P))
    BY <1>5, <1>6, FS_Injection
  <1>8. \A n \in 1..Cardinality(P) : \E i \in P : Cardinality(U(i)) = n
    <2> HIDE DEF U
    <2> QED
      BY <1>7 DEF Surjection
  <1>9. \A n \in 1..Cardinality(P) : Nth(P, n) \in P /\ Cardinality(U(Nth(P, n))) = n
    BY <1>8 DEF Nth
  <1> HIDE DEF U, rank
  <1> QED
    BY <1>1, <1>3, <1>4, <1>9

\* What is chosen from a sequence is what stands at the places, once each.
LEMMA ChosenIs ==
  ASSUME NEW S, NEW s \in Seq(S), NEW P \in SUBSET DOMAIN s
  PROVE  /\ Chosen(s, P) \in Seq(S)
         /\ Len(Chosen(s, P)) = Cardinality(P) /\ Len(Chosen(s, P)) <= Len(s)
         /\ P # DOMAIN s => Len(Chosen(s, P)) < Len(s)
         /\ Range(Chosen(s, P)) = {s[i] : i \in P}
         /\ IsInjective(s) => IsInjective(Chosen(s, P))
  <1>1. Len(s) \in Nat /\ DOMAIN s = 1..Len(s)
    BY LenProperties
  <1>2. P \in SUBSET (1..Len(s))
    BY <1>1
  <1> DEFINE N == Cardinality(P)
  <1>3. /\ N \in Nat /\ N <= Len(s) /\ (P # 1..Len(s) => N < Len(s))
        /\ \A n \in 1..N : Nth(P, n) \in P
        /\ \A i \in P : \E n \in 1..N : Nth(P, n) = i
        /\ \A m, n \in 1..N : Nth(P, m) = Nth(P, n) => m = n
    BY <1>1, <1>2, NthIs
  <1> DEFINE t == Chosen(s, P)
  <1>4. t = [n \in 1..N |-> s[Nth(P, n)]]
    BY DEF Chosen
  <1> HIDE DEF N
  <1>5. \A n \in 1..N : s[Nth(P, n)] \in S
    BY <1>1, <1>3, ElementOfSeq
  <1>6. [n \in 1..N |-> s[Nth(P, n)]] \in Seq(S)
    BY <1>3, <1>5, IsASeq
  <1>7. t \in Seq(S) /\ DOMAIN t = 1..N /\ \A n \in 1..N : t[n] = s[Nth(P, n)]
    BY <1>4, <1>6
  <1> HIDE DEF t
  <1>8. Len(t) = N
    BY <1>3, <1>7, LenProperties
  <1>9. Range(t) = {s[i] : i \in P}
    BY <1>3, <1>7 DEF Range
  <1>10. ASSUME IsInjective(s) PROVE IsInjective(t)
    BY <1>3, <1>7, <1>10 DEF IsInjective
  <1> QED
    BY <1>1, <1>3, <1>7, <1>8, <1>9, <1>10 DEF t, N

\* delete() and splice() take out what they are told to, and nothing else.
LEMMA WithoutIs ==
  ASSUME NEW S, NEW s \in Seq(S), NEW x
  PROVE  /\ Without(s, x) \in Seq(S)
         /\ Len(Without(s, x)) <= Len(s)
         /\ x \in Range(s) => Len(Without(s, x)) < Len(s)
         /\ Range(Without(s, x)) = Range(s) \ {x}
         /\ IsInjective(s) => IsInjective(Without(s, x))
  <1> DEFINE P == {i \in DOMAIN s : s[i] # x}
  <1>1. P \in SUBSET DOMAIN s /\ Without(s, x) = Chosen(s, P)
    BY DEF Without
  <1>2. x \in Range(s) => P # DOMAIN s
    BY DEF Range
  <1>3. {s[i] : i \in P} = Range(s) \ {x}
    BY DEF Range
  <1> HIDE DEF P
  <1> QED
    BY <1>1, <1>2, <1>3, ChosenIs

\* One sequence behind the other.
LEMMA ConcatIs ==
  ASSUME NEW S, NEW s \in Seq(S), NEW t \in Seq(S)
  PROVE  /\ s \o t \in Seq(S) /\ Len(s \o t) = Len(s) + Len(t)
         /\ Range(s \o t) = Range(s) \cup Range(t)
         /\ s # <<>> => s \o t # <<>> /\ (s \o t)[1] = s[1]
         /\ IsInjective(s) /\ IsInjective(t) /\ Range(s) \cap Range(t) = {} => IsInjective(s \o t)
  <1>1. Len(s) \in Nat /\ Len(t) \in Nat /\ DOMAIN s = 1..Len(s) /\ DOMAIN t = 1..Len(t)
    BY LenProperties
  <1>2. /\ s \o t \in Seq(S) /\ Len(s \o t) = Len(s) + Len(t)
        /\ \A i \in 1 .. Len(s) + Len(t) : (s \o t)[i] = IF i <= Len(s) THEN s[i] ELSE t[i - Len(s)]
    BY ConcatProperties
  <1>3. DOMAIN (s \o t) = 1..(Len(s) + Len(t))
    BY <1>2, LenProperties
  <1>4. Range(s \o t) = Range(s) \cup Range(t)
    BY RangeConcatenation
  <1>5. ASSUME s # <<>> PROVE s \o t # <<>> /\ (s \o t)[1] = s[1]
    BY <1>1, <1>2, <1>5, EmptySeq
  <1>6. ASSUME IsInjective(s), IsInjective(t), Range(s) \cap Range(t) = {},
               NEW i \in DOMAIN (s \o t), NEW j \in DOMAIN (s \o t), (s \o t)[i] = (s \o t)[j]
        PROVE  i = j
    <2>1. i \in Nat /\ j \in Nat /\ i \in 1..(Len(s) + Len(t)) /\ j \in 1..(Len(s) + Len(t))
      BY <1>1, <1>3, <1>6
    <2>2. \A k \in 1..(Len(s) + Len(t)) :
             \/ k \in DOMAIN s /\ (s \o t)[k] = s[k]
             \/ ~(k <= Len(s)) /\ k - Len(s) \in DOMAIN t /\ (s \o t)[k] = t[k - Len(s)]
      BY <1>1, <1>2
    <2>3. \A k \in DOMAIN s, l \in DOMAIN t : s[k] # t[l]
      BY <1>6 DEF Range
    <2>4. CASE i \in DOMAIN s /\ (s \o t)[i] = s[i] /\ j \in DOMAIN s /\ (s \o t)[j] = s[j]
      BY <1>6, <2>4 DEF IsInjective
    <2>5. CASE /\ i - Len(s) \in DOMAIN t /\ (s \o t)[i] = t[i - Len(s)]
               /\ j - Len(s) \in DOMAIN t /\ (s \o t)[j] = t[j - Len(s)]
      <3>1. i - Len(s) = j - Len(s)
        BY <1>6, <2>5 DEF IsInjective
      <3> QED
        BY <1>1, <2>1, <3>1
    <2> QED
      BY <1>6, <2>1, <2>2, <2>3, <2>4, <2>5
  <1>7. IsInjective(s) /\ IsInjective(t) /\ Range(s) \cap Range(t) = {} => IsInjective(s \o t)
    BY <1>6 DEF IsInjective
  <1> QED
    BY <1>2, <1>4, <1>5, <1>7

\* One more at the end.
LEMMA AppendIs ==
  ASSUME NEW S, NEW s \in Seq(S), NEW x \in S
  PROVE  /\ Append(s, x) \in Seq(S) /\ Len(Append(s, x)) = Len(s) + 1
         /\ Range(Append(s, x)) = Range(s) \cup {x}
         /\ s # <<>> => Append(s, x)[1] = s[1]
         /\ s = <<>> => Append(s, x) = <<x>>
         /\ IsInjective(s) /\ x \notin Range(s) => IsInjective(Append(s, x))
  <1> DEFINE t == <<x>>
  <1>1. Append(s, x) = s \o t
    BY AppendIsConcat
  <1>2. t \in Seq(S) /\ Range(t) = {x} /\ IsInjective(t)
    BY DEF Range, IsInjective
  <1>3. s = <<>> => Append(s, x) = <<x>>
    OBVIOUS
  <1>4. Len(Append(s, x)) = Len(s) + 1
    BY AppendProperties
  <1>5. x \notin Range(s) => Range(s) \cap {x} = {}
    OBVIOUS
  <1> HIDE DEF t
  <1>6. /\ s \o t \in Seq(S)
        /\ Range(s \o t) = Range(s) \cup Range(t)
        /\ s # <<>> => (s \o t)[1] = s[1]
        /\ IsInjective(s) /\ IsInjective(t) /\ Range(s) \cap Range(t) = {} => IsInjective(s \o t)
    BY <1>2, ConcatIs
  <1> QED
    BY <1>1, <1>2, <1>3, <1>4, <1>5, <1>6

\* One element.
LEMMA OneIs ==
  ASSUME NEW S, NEW x \in S
  PROVE  <<x>> \in Seq(S) /\ Range(<<x>>) = {x} /\ IsInjective(<<x>>) /\ <<x>> # <<>> /\ Len(<<x>>) = 1
  BY DEF Range, IsInjective

\* None.
LEMMA NoneIs == \A S : <<>> \in Seq(S) /\ Range(<<>>) = {} /\ IsInjective(<<>>) /\ Len(<<>>) = 0
  BY DEF Range, IsInjective

\* The first one and the others.
LEMMA TailIs ==
  ASSUME NEW S, NEW s \in Seq(S), s # <<>>
  PROVE  /\ Tail(s) \in Seq(S) /\ Len(Tail(s)) = Len(s) - 1
         /\ Head(s) \in S /\ Head(s) \in Range(s) /\ Head(s) = s[1]
         /\ Range(s) = {Head(s)} \cup Range(Tail(s))
         /\ IsInjective(s) => IsInjective(Tail(s)) /\ Head(s) \notin Range(Tail(s))
  <1>1. Len(s) \in Nat \ {0} /\ DOMAIN s = 1..Len(s)
    BY EmptySeq, LenProperties
  <1>2. /\ Head(s) \in S /\ Tail(s) \in Seq(S) /\ Len(Tail(s)) = Len(s) - 1
        /\ \A i \in 1 .. Len(Tail(s)) : Tail(s)[i] = s[i + 1]
    BY HeadTailProperties
  <1>3. DOMAIN Tail(s) = 1..(Len(s) - 1)
    BY <1>2, LenProperties
  <1>4. Head(s) = s[1] /\ 1 \in DOMAIN s
    BY <1>1
  <1>5. \A i \in DOMAIN s : i = 1 \/ i - 1 \in DOMAIN Tail(s)
    BY <1>1, <1>3
  <1>6. \A i \in DOMAIN Tail(s) : i + 1 \in DOMAIN s /\ Tail(s)[i] = s[i + 1] /\ i + 1 # 1 /\ i \in Nat
    BY <1>1, <1>2, <1>3
  <1>7. \A i \in DOMAIN s : i # 1 => i - 1 \in DOMAIN Tail(s) /\ Tail(s)[i - 1] = s[i]
    BY <1>1, <1>2, <1>3
  <1>8. Range(s) = {Head(s)} \cup Range(Tail(s))
    <2>1. \A x : x \in Range(s) <=> \E i \in DOMAIN s : s[i] = x
      BY DEF Range
    <2>2. \A x : x \in Range(Tail(s)) <=> \E i \in DOMAIN Tail(s) : Tail(s)[i] = x
      BY DEF Range
    <2>3. Range(s) \subseteq {Head(s)} \cup Range(Tail(s))
      BY <1>4, <1>7, <2>1, <2>2
    <2>4. {Head(s)} \cup Range(Tail(s)) \subseteq Range(s)
      BY <1>4, <1>6, <2>1, <2>2
    <2> QED
      BY <2>3, <2>4
  <1>9. ASSUME IsInjective(s) PROVE IsInjective(Tail(s)) /\ Head(s) \notin Range(Tail(s))
    <2>1. \A i, j \in DOMAIN Tail(s) : Tail(s)[i] = Tail(s)[j] => i = j
      <3> TAKE i, j \in DOMAIN Tail(s)
      <3>1. Tail(s)[i] = Tail(s)[j] => i + 1 = j + 1
        BY <1>6, <1>9 DEF IsInjective
      <3> QED
        BY <1>6, <3>1
    <2>2. \A i \in DOMAIN Tail(s) : Tail(s)[i] # s[1]
      BY <1>4, <1>6, <1>9 DEF IsInjective
    <2> QED
      BY <1>4, <2>1, <2>2 DEF IsInjective, Range
  <1> QED
    BY <1>2, <1>4, <1>8, <1>9 DEF Range

\* A sequence is empty when nothing is in it.
LEMMA EmptyIs ==
  ASSUME NEW S, NEW s \in Seq(S)
  PROVE  Range(s) = {} <=> s = <<>>
  <1>1. Len(s) \in Nat /\ DOMAIN s = 1..Len(s)
    BY LenProperties
  <1>2. s # <<>> => Len(s) # 0
    BY EmptySeq
  <1>3. s # <<>> => 1 \in DOMAIN s
    BY <1>1, <1>2
  <1>4. s # <<>> => s[1] \in Range(s)
    BY <1>3 DEF Range
  <1>5. s = <<>> => Range(s) = {}
    BY DEF Range
  <1> QED
    BY <1>4, <1>5

\* A sequence made of another one, element by element.
LEMMA ImageIs ==
  ASSUME NEW S, NEW T, NEW s \in Seq(S), NEW t \in [DOMAIN s -> T]
  PROVE  t \in Seq(T) /\ Len(t) = Len(s) /\ Range(t) = {t[i] : i \in DOMAIN s}
  <1>1. Len(s) \in Nat /\ DOMAIN s = 1..Len(s)
    BY LenProperties
  <1>2. [i \in 1..Len(s) |-> t[i]] \in Seq(T)
    BY <1>1, IsASeq
  <1>3. t \in Seq(T)
    BY <1>1, <1>2
  <1>4. DOMAIN t = 1..Len(t)
    BY <1>3, LenProperties
  <1>5. Len(t) = Len(s)
    BY <1>1, <1>3, <1>4, LenProperties
  <1> QED
    BY <1>3, <1>5 DEF Range

(***************************************************************************)
(* The queue of the client: what drainExecQueue() hands over.              *)
(***************************************************************************)

\* pickExecIndex finds a command, if one waits.
LEMMA PickIs ==
  ASSUME NEW q \in Seq(Commands), q # <<>>, NEW running \in SUBSET Commands, IsFiniteSet(running)
  PROVE  Pick(q, running) \in DOMAIN q
  <1> DEFINE load(i) == RunningOf(SessionOf[q[i]], running)
             L == {load(i) : i \in DOMAIN q}
  <1>1. Len(q) \in Nat \ {0} /\ DOMAIN q = 1..Len(q)
    BY EmptySeq, LenProperties
  <1>2. \A i \in DOMAIN q : load(i) \in Nat
    <2> TAKE i \in DOMAIN q
    <2> DEFINE R == {c \in running : SessionOf[c] = SessionOf[q[i]]}
    <2>1. IsFiniteSet(R)
      BY FS_Subset
    <2>2. Cardinality(R) \in Nat
      BY <2>1, FS_CardinalityType
    <2> QED
      BY <2>2 DEF RunningOf
  <1>3. 1 \in DOMAIN q
    BY <1>1
  <1> HIDE DEF load
  <1>4. L # {} /\ L \subseteq Nat
    BY <1>2, <1>3
  <1>5. PICK m \in L : \A n \in L : m <= n
    BY <1>4, Least
  <1> DEFINE I == {i \in DOMAIN q : load(i) = m}
  <1>6. I # {} /\ I \subseteq Nat
    BY <1>1, <1>5
  <1>7. PICK i \in I : \A j \in I : i <= j
    BY <1>6, Least
  <1>8. i \in DOMAIN q /\ \A j \in DOMAIN q : load(i) < load(j) \/ (load(i) = load(j) /\ i <= j)
    <2> SUFFICES ASSUME NEW j \in DOMAIN q
                 PROVE  load(i) < load(j) \/ (load(i) = load(j) /\ i <= j)
      OBVIOUS
    <2>1. load(i) = m /\ load(j) \in L /\ m \in Nat /\ load(j) \in Nat
      BY <1>2, <1>4
    <2>2. m <= load(j)
      BY <1>5, <2>1
    <2>3. load(j) = m => i <= j
      BY <1>7
    <2> QED
      BY <2>1, <2>2, <2>3
  <1>9. \E k \in DOMAIN q : \A j \in DOMAIN q : load(k) < load(j) \/ (load(k) = load(j) /\ k <= j)
    BY <1>8
  <1>10. Pick(q, running) = CHOOSE k \in DOMAIN q :
            \A j \in DOMAIN q : load(k) < load(j) \/ (load(k) = load(j) /\ k <= j)
    BY DEF Pick, load
  <1> QED
    BY <1>9, <1>10

\* A request for a command.
LEMMA RunRequestIs ==
  ASSUME NEW c \in Commands
  PROVE  /\ RunRequest(c) \in Requests
         /\ RunRequest(c).id = <<"run", c>> /\ RunRequest(c).command = c
         /\ RunRequest(c).id[1] = "run"
  BY PoolAssumption DEF RunRequest, Request, Requests, RequestIds

\* One turn of the loop of drainExecQueue, and where the loop begins.
Turned(d, limit) == IF Cardinality(d.running) < limit /\ d.queue # <<>> THEN HandedOver(d) ELSE d
Begun(q, running) == [queue |-> q, running |-> running, sent |-> <<>>]

\* What is true after each turn: whoever waited waits or runs, and a request was sent for each
\* one that runs now and did not before.
Handing(d, q, running) ==
    /\ d.queue \in Seq(Commands) /\ IsInjective(d.queue)
    /\ Range(d.queue) \cap d.running = {}
    /\ Range(d.queue) \cup d.running = Range(q) \cup running
    /\ running \subseteq d.running /\ IsFiniteSet(d.running)
    /\ d.sent \in Seq(Requests) /\ IsInjective(d.sent)
    /\ Range(d.sent) = {RunRequest(c) : c \in d.running \ running}
    /\ Len(d.queue) <= Len(q)

LEMMA TurnKeeps ==
  ASSUME NEW q \in Seq(Commands), NEW running \in SUBSET Commands, NEW limit, NEW d,
         Handing(d, q, running)
  PROVE  /\ Handing(Turned(d, limit), q, running)
         /\ \/ Len(Turned(d, limit).queue) < Len(d.queue)
            \/ /\ Turned(d, limit) = d
               /\ ~(Cardinality(d.running) < limit) \/ d.queue = <<>>
  <1>1. Len(q) \in Nat /\ Len(d.queue) \in Nat
    BY LenProperties DEF Handing
  <1>2. CASE ~(Cardinality(d.running) < limit /\ d.queue # <<>>)
    BY <1>2 DEF Turned
  <1>3. CASE Cardinality(d.running) < limit /\ d.queue # <<>>
    <2> DEFINE c == d.queue[Pick(d.queue, d.running)]
               e == HandedOver(d)
    <2>1. Turned(d, limit) = e
      BY <1>3 DEF Turned
    <2>2. Range(q) \subseteq Commands
      BY RangeOfSeq
    <2>3. d.running \in SUBSET Commands
      BY <2>2 DEF Handing
    <2>4. Pick(d.queue, d.running) \in DOMAIN d.queue
      BY <1>3, <2>3, PickIs DEF Handing
    <2>5. c \in Range(d.queue)
      BY <2>4 DEF Range
    <2> HIDE DEF c
    <2>6. c \in Commands /\ c \notin d.running /\ c \notin running
      BY <2>2, <2>5 DEF Handing
    <2>7. e.queue = Without(d.queue, c) /\ e.running = d.running \cup {c}
          /\ e.sent = Append(d.sent, RunRequest(c))
      BY DEF HandedOver, c
    <2> HIDE DEF e
    <2>8. /\ e.queue \in Seq(Commands) /\ IsInjective(e.queue) /\ Len(e.queue) < Len(d.queue)
          /\ Range(e.queue) = Range(d.queue) \ {c} /\ Len(e.queue) \in Nat
      <3>1. d.queue \in Seq(Commands) /\ IsInjective(d.queue)
        BY DEF Handing
      <3>2. LET w == Without(d.queue, c)
            IN  /\ w \in Seq(Commands) /\ IsInjective(w) /\ Len(w) < Len(d.queue)
                /\ Range(w) = Range(d.queue) \ {c}
        BY <2>5, <3>1, WithoutIs
      <3>3. e.queue \in Seq(Commands)
        BY <2>7, <3>2
      <3>4. Len(e.queue) \in Nat
        BY <3>3, LenProperties
      <3> QED
        BY <2>7, <3>2, <3>4
    <2>9. RunRequest(c) \in Requests /\ RunRequest(c) \notin Range(d.sent)
      BY <2>2, <2>6, RunRequestIs DEF Handing
    <2>10. /\ e.sent \in Seq(Requests) /\ IsInjective(e.sent)
           /\ Range(e.sent) = Range(d.sent) \cup {RunRequest(c)}
      BY <2>7, <2>9, AppendIs DEF Handing
    <2>11. IsFiniteSet(e.running)
      <3>1. IsFiniteSet(d.running)
        BY DEF Handing
      <3>2. IsFiniteSet(d.running \cup {c})
        BY <3>1, FS_AddElement
      <3> QED
        BY <2>7, <3>2
    <2>12. Range(e.sent) = {RunRequest(b) : b \in e.running \ running}
      BY <2>6, <2>7, <2>10 DEF Handing
    <2>13. Range(e.queue) \cap e.running = {} /\ Range(e.queue) \cup e.running = Range(q) \cup running
           /\ running \subseteq e.running
      BY <2>5, <2>7, <2>8 DEF Handing
    <2>14. Len(e.queue) <= Len(q)
      BY <1>1, <2>8 DEF Handing
    <2> QED
      BY <2>1, <2>8, <2>10, <2>11, <2>12, <2>13, <2>14 DEF Handing
  <1> QED
    BY <1>2, <1>3

\* drainExecQueue: whoever waited waits or runs, each one who runs now was sent to the
\* process once, and a place is left free only when nobody waits.
LEMMA DrainedIs ==
  ASSUME NEW q \in Seq(Commands), IsInjective(q), NEW running \in SUBSET Commands,
         IsFiniteSet(running), Range(q) \cap running = {}, NEW limit \in Nat
  PROVE  LET d == Drained(q, running, limit)
         IN  /\ Handing(d, q, running)
             /\ d.queue # <<>> => Cardinality(d.running) >= limit
  <1> DEFINE N == Len(q)
             a == Begun(q, running)
             Solves(f, n) == f = [k \in 0..n |-> IF k = 0 THEN a ELSE Turned(f[k - 1], limit)]
             D == Drained(q, running, limit)
  <1>1. N \in Nat
    BY LenProperties
  <1>2. \A n \in Nat : \E f : Solves(f, n)
    <2> DEFINE T == {n \in Nat : ~\E f : Solves(f, n)}
    <2> SUFFICES ASSUME T # {} PROVE FALSE
      OBVIOUS
    <2>1. PICK m \in T : \A n \in T : m <= n
      <3> HIDE DEF Solves
      <3>1. T \subseteq Nat
        OBVIOUS
      <3> QED
        BY <3>1, Least
    <2>2. m \in Nat /\ \A f : ~Solves(f, m)
      OBVIOUS
    <2>3. CASE m = 0
      <3> DEFINE g == [k \in 0..0 |-> a]
      <3>1. Solves(g, 0)
        <4>1. \A k \in 0..0 : k = 0
          OBVIOUS
        <4> HIDE DEF a
        <4> QED
          BY <4>1
      <3> QED
        BY <2>2, <2>3, <3>1
    <2>4. CASE m # 0
      <3>1. m - 1 \in Nat /\ ~(m <= m - 1)
        BY <2>2, <2>4
      <3>2. m - 1 \notin T
        BY <2>1, <3>1
      <3>3. PICK f : Solves(f, m - 1)
        BY <3>1, <3>2
      <3> DEFINE g == [k \in 0..m |-> IF k = m THEN Turned(f[m - 1], limit) ELSE f[k]]
      <3>4. \A k \in 0..(m - 1) : f[k] = IF k = 0 THEN a ELSE Turned(f[k - 1], limit)
        BY <3>3
      <3>5. \A k \in 0..m : k # m => k \in 0..(m - 1)
        BY <2>2
      <3>6. \A k \in 0..m : k # 0 => k - 1 \in 0..m /\ k - 1 # m /\ g[k - 1] = f[k - 1]
        BY <2>2
      <3>7. \A k \in 0..m : g[k] = IF k = 0 THEN a ELSE Turned(g[k - 1], limit)
        <4> TAKE k \in 0..m
        <4>1. CASE k = m
          BY <2>4, <3>6, <4>1
        <4>2. CASE k # m
          BY <3>4, <3>5, <3>6, <4>2
        <4> QED
          BY <4>1, <4>2
      <3>8. g = [k \in 0..m |-> g[k]]
        OBVIOUS
      <3> HIDE DEF g, a
      <3>9. Solves(g, m)
        BY <3>7, <3>8
      <3> QED
        BY <2>2, <3>9
    <2> QED
      BY <2>3, <2>4
  <1> DEFINE F == CHOOSE f : Solves(f, N)
  <1>3. D = F[N]
    BY DEF Drained, Turned, Begun
  <1>4. Solves(F, N)
    <2> HIDE DEF Solves, N
    <2> QED
      BY <1>1, <1>2
  <1> HIDE DEF F, D
  <1>5. F[0] = a /\ \A k \in 1..N : F[k] = Turned(F[k - 1], limit)
    <2>1. \A k \in 0..N : F[k] = IF k = 0 THEN a ELSE Turned(F[k - 1], limit)
      BY <1>4
    <2> HIDE DEF a, N
    <2> QED
      BY <1>1, <2>1
  <1>6. Handing(a, q, running) /\ Len(a.queue) = N
    <2>1. {RunRequest(c) : c \in running \ running} = {}
      OBVIOUS
    <2>2. a.queue = q /\ a.running = running /\ a.sent = <<>>
      BY DEF Begun
    <2> HIDE DEF a
    <2> QED
      BY <1>1, <2>1, <2>2, NoneIs DEF Handing
  <1> DEFINE Over(d) == ~(Cardinality(d.running) < limit) \/ d.queue = <<>>
             Far(n) == /\ Handing(F[n], q, running)
                       /\ Over(F[n]) \/ Len(F[n].queue) <= N - n
  <1> HIDE DEF a, N, Solves
  <1>7. \A n \in 0..N : Far(n)
    <2> DEFINE T == {n \in 0..N : ~Far(n)}
    <2> SUFFICES ASSUME T # {} PROVE FALSE
      BY <1>1
    <2>1. PICK m \in T : \A n \in T : m <= n
      <3> HIDE DEF Far
      <3>1. T \subseteq Nat
        BY <1>1
      <3> QED
        BY <3>1, Least
    <2>2. m \in 0..N /\ ~Far(m)
      OBVIOUS
    <2>3. m # 0
      BY <1>1, <1>5, <1>6, <2>2
    <2>4. m - 1 \in 0..N /\ m \in 1..N /\ ~(m <= m - 1)
      BY <1>1, <2>2, <2>3
    <2>5. Far(m - 1)
      BY <2>1, <2>4
    <2>6. F[m] = Turned(F[m - 1], limit)
      BY <1>5, <2>4
    <2> DEFINE d == F[m - 1]
               e == F[m]
    <2>7. /\ Handing(e, q, running)
          /\ Len(e.queue) < Len(d.queue) \/ (e = d /\ Over(d))
      BY <2>5, <2>6, TurnKeeps
    <2>8. Len(d.queue) \in Nat /\ Len(e.queue) \in Nat
      BY <2>5, <2>7, LenProperties DEF Handing
    <2>9. Over(d) => e = d
      BY <2>6 DEF Turned
    <2>10. Over(d) \/ Len(d.queue) <= N - (m - 1)
      BY <2>5
    <2> HIDE DEF d, e, Over
    <2>11. Over(e) \/ Len(e.queue) <= N - m
      <3>1. CASE Over(d)
        BY <2>9, <3>1
      <3>2. CASE ~Over(d)
        BY <1>1, <2>4, <2>7, <2>8, <2>10, <3>2
      <3> QED
        BY <3>1, <3>2
    <2>12. Far(m)
      BY <2>7, <2>11 DEF e
    <2> QED
      BY <2>2, <2>12
  <1>8. Far(N)
    BY <1>1, <1>7
  <1>9. D.queue # <<>> => Cardinality(D.running) >= limit
    <2>1. Handing(D, q, running) /\ (Over(D) \/ Len(D.queue) <= N - N)
      BY <1>3, <1>8
    <2>2. Len(D.queue) <= N - N => D.queue = <<>>
      BY <1>1, <2>1, EmptySeq DEF Handing
    <2>3. Cardinality(D.running) \in Nat
      BY <2>1, FS_CardinalityType DEF Handing
    <2> QED
      BY <2>1, <2>2, <2>3
  <1>10. Handing(D, q, running)
    BY <1>3, <1>8
  <1> QED
    BY <1>9, <1>10 DEF D

(***************************************************************************)
(* The invariant of the client and the router.                             *)
(***************************************************************************)

\* The calls whose promise has settled.
Woken == {x.call : x \in Range(micro)}

\* The process, as long as it lives, has a policy for the session.
There(s) == Alive => policy[s] # NoPolicy

\* One generation at a time has a process, and it is given up for a fault.
LinkInv ==
    /\ generation \in Nat /\ failed \in 0..generation
    /\ ready \in BOOLEAN /\ stopping \in BOOLEAN
    /\ timers \in Nat /\ armed \in BOOLEAN /\ (armed => timers > 0)
    /\ closing \subseteq 0..generation
    /\ faults \in 0..MaxFaults
    /\ children \subseteq {generation} /\ (children # {} => Connected)
    /\ generation \in closing /\ Connected => ~Alive
    /\ ready => Connected
    /\ generation <= faults + 1
    /\ ~stopping /\ ~(Connected /\ Alive) => generation <= faults

\* Without a connection nobody waits, and without a process nothing is in one.
GoneInv ==
    /\ ~Connected => /\ pending = <<>> /\ starters = <<>> /\ outbox = <<>>
                     /\ execQueue = <<>> /\ execRunning = {} /\ configured = {}
    /\ ~Alive => /\ inbox = <<>> /\ queue = <<>> /\ active = {} /\ raised = {} /\ freed = {}
                 /\ main = NoCommand
                 /\ worker = [w \in Workers |-> IdleWorker]
                 /\ policy = [s \in Sessions |-> NoPolicy]

Call == [pc : Steps, session : Sessions, want : Policies \cup {NoPolicy},
         second : BOOLEAN, joined : Seq(Calls)]

\* What the router keeps, and the session and the policy of a call.
CallsInv ==
    /\ call \in [Calls -> Call]
    /\ desired \in [Sessions -> Policies \cup {NoPolicy}]
    /\ configured \subseteq Sessions
    /\ configuring \in [Sessions -> Calls \cup {NoCall}]
    /\ cancelled \subseteq Commands
    /\ mixed \in BOOLEAN
    /\ \A k \in Calls : k[1] # "change" => call[k].session = SessionOf[k[2]]
    /\ \A k \in Calls : Underway(k) \/ (k[1] = "change" /\ call[k].pc = "meta") =>
          call[k].want \in Policies

\* A command waits or runs once, on behalf of a call of run() that has done its part.
QueuedInv ==
    /\ execQueue \in Seq(Commands) /\ Len(execQueue) <= MaxExecQueue
    /\ execRunning \subseteq Commands /\ IsFiniteSet(execRunning)
    /\ concurrency \in 1..MaxConcurrency
    /\ outcome \in [Commands -> Outcomes]
    /\ IsInjective(execQueue)
    /\ Range(execQueue) \cap execRunning = {}
    /\ \A c \in Range(execQueue) \cup execRunning :
          call[<<"run", c>>].pc = "done" /\ outcome[c] = "none"
    /\ \A c \in Commands : outcome[c] # "none" => call[<<"run", c>>].pc = "done"
    /\ execQueue # <<>> => Cardinality(execRunning) >= concurrency

\* The process has not heard of a command that was not sent to it, and has answered a command
\* nobody waits for.
KnownInv ==
    /\ \A c \in Commands : outcome[c] = "none" /\ c \notin execRunning =>
          /\ phase[c] = "none" /\ replies[c] = 0
          /\ c \notin active \cup freed \cup {main}
    /\ \A c \in Commands : c \in active \cup {main} /\ replies[c] = 0 => c \in execRunning

Promise == [call : Calls, answer : Answers \cup {"lost"}]

\* Each call waits at one place.
PlacesInv ==
    /\ starters \in Seq(Calls) /\ IsInjective(starters)
    /\ \A k \in Range(starters) : k \notin Woken /\ call[k].pc = "starting"
    /\ starters # <<>> => ~ready
    /\ micro \in Seq(Promise) /\ IsInjective(micro)
    /\ \A x, y \in Range(micro) : x.call = y.call => x = y
    /\ \A k \in Woken : call[k].pc \in {"starting", "configuring", "joining", "cancelling"}
    /\ \A k \in Calls : call[k].pc = "starting" => k \in Woken \cup Range(starters)

\* Who waits for the policy of a session, and for whom.
JoinedInv ==
    /\ \A k \in Calls : \A l \in Range(call[k].joined) :
          /\ call[l].pc = "joining" /\ l[1] # "change" /\ l \notin Woken
          /\ call[l].session = call[k].session /\ Underway(k) /\ k[1] # "change"
    /\ \A k \in Calls : IsInjective(call[k].joined)
    /\ \A k, m \in Calls : \A l \in Range(call[k].joined) : l \in Range(call[m].joined) => k = m
    /\ \A s \in Sessions : configuring[s] # NoCall =>
          /\ Underway(configuring[s]) /\ call[configuring[s]].session = s
          /\ configuring[s][1] # "change"

\* What a request that waits for an answer is about.
PendingInv ==
    /\ pending \in Seq(RequestIds) /\ IsInjective(pending)
    /\ \A c \in Commands : <<"run", c>> \in Range(pending) <=> c \in execRunning
    /\ Ping \in Range(pending) <=> Connected /\ ~ready
    /\ \A k \in Callers : <<"ping", k>> \in Range(pending) => k = Client
    /\ \A k \in Callers : <<"configure", k>> \in Range(pending) =>
          k \in Calls \ Woken /\ call[k].pc = "configuring"
    /\ \A k \in Callers : <<"cancel", k>> \in Range(pending) =>
          k \in Calls \ Woken /\ call[k].pc = "cancelling" /\ k[1] = "cancel"

\* Every frame between the two is of a request that waits, and of another one.
FramesInv ==
    /\ IsInjective(inbox) /\ IsInjective(outbox)
    /\ \A x \in Range(inbox) \cup Range(outbox) : x.id \in Range(pending)
    /\ \A x, y \in Range(inbox) : x.id = y.id => x = y
    /\ \A x, y \in Range(outbox) : x.id = y.id => x = y
    /\ \A x \in Range(inbox), y \in Range(outbox) : x.id # y.id

\* What the frames say.
ContentsInv ==
    /\ \A x \in Range(outbox), c \in Commands : x.id = <<"run", c>> =>
          replies[c] = 1 /\ x.answer \in {"result", "cancelled", "failed", "refused"}
    /\ \A x \in Range(inbox), k \in Calls : x.id = <<"configure", k>> =>
          x.session = call[k].session /\ x.policy = call[k].want

\* A session whose policy somebody relies on has one in the process.
ThereInv ==
    /\ \A s \in configured : There(s)
    /\ \A c \in Range(execQueue) \cup execRunning : There(SessionOf[c])
    /\ \A x \in Range(outbox), k \in Calls : x.id = <<"configure", k>> => There(call[k].session)
    /\ \A x \in Range(micro) :
          x.answer = "ok" /\ call[x.call].pc \in {"joining", "configuring"} =>
             There(call[x.call].session)

\* How the promises settle.
SettledInv ==
    \A x \in Range(micro) :
        /\ x.answer = "ok" => Connected
        /\ x.answer = "ok" /\ call[x.call].pc = "configuring" => Range(micro) = {x}
        /\ x.answer = "lost" /\ call[x.call].pc = "configuring" => ~Connected

\* The inductive invariant.
CoreInv ==
    /\ OwnInv /\ LinkInv /\ GoneInv /\ CallsInv /\ QueuedInv /\ KnownInv /\ PlacesInv
    /\ JoinedInv /\ PendingInv /\ FramesInv /\ ContentsInv /\ ThereInv /\ SettledInv

\* The handshake comes first: until it is over nothing else was read, and no policy that was
\* sent is answered.
FirstInv ==
    Connected /\ ~ready =>
        /\ \/ /\ Alive /\ outbox = <<>> /\ inbox # <<>> /\ inbox[1].id = Ping
              /\ queue = <<>> /\ main = NoCommand /\ \A w \in Workers : ~Busy(w)
           \/ outbox # <<>> /\ outbox[1].id = Ping
           \/ ~Alive /\ outbox = <<>>
        /\ \A x \in Range(micro) : ~(x.answer = "ok" /\ call[x.call].pc = "configuring")

SentBy(k) == call[k].pc \in {"configuring", "proxy"}

\* The process that lives has the policy that was sent.
Told(k) ==
    /\ call[k].pc = "configuring" /\ Alive
    /\ \/ \E x \in Range(outbox) : x.id = <<"configure", k>>
       \/ [call |-> k, answer |-> "ok"] \in Range(micro)

\* As long as policies of a session have not met on their way, one call at a time sends the policy
\* of a session, a session that counts as configured is not configured for a command, and what the
\* process has is what was sent last and is remembered.
AloneInv ==
    ~mixed =>
    /\ \A k, l \in Calls : SentBy(k) /\ SentBy(l) /\ call[k].session = call[l].session => k = l
    /\ \A k \in Calls : k[1] # "change" /\ Underway(k) =>
          call[k].want = Wanted(call[k].session) /\ call[k].session \notin configured
    /\ \A k \in Calls : Told(k) => policy[call[k].session] = call[k].want
    /\ \A s \in configured :
          Alive /\ (\A k \in Calls : call[k].session = s => ~SentBy(k)) => policy[s] = Wanted(s)

(***************************************************************************)
(* Steps of the process.                                                   *)
(***************************************************************************)

\* The calls, and the requests they make.
LEMMA CallsAre ==
  /\ \A k \in Calls : k \in Callers /\ k # Client /\ k # NoCall /\ k[1] \in {"run", "cancel", "change"}
  /\ \A k \in Calls : k[1] # "change" => k[2] \in Commands /\ k = <<k[1], k[2]>>
  /\ \A c \in Commands : <<"run", c>> \in Calls /\ <<"cancel", c>> \in Calls
  /\ Client \in Callers
  /\ \A k \in Callers : k \in Calls \/ k = Client
  /\ \A op \in Ops, k \in Callers : <<op, k>> \in RequestIds
  /\ \A c \in Commands : <<"run", c>> \in RequestIds
  /\ \A id \in RequestIds : \/ id[1] = "run" /\ id[2] \in Commands /\ id = <<"run", id[2]>>
                            \/ id[1] \in Ops /\ id[2] \in Callers /\ id = <<id[1], id[2]>>
  BY CallersAssumption DEF Calls, Client, NoCall, RequestIds, Ops

\* What a frame that is written is.
LEMMA ResponseIs ==
  ASSUME NEW id, NEW a
  PROVE  Response(id, a).id = id /\ Response(id, a).answer = a
  BY DEF Response

LEMMA RequestIs ==
  ASSUME NEW op, NEW by, NEW c, NEW s, NEW p
  PROVE  LET r == Request(op, by, c, s, p)
         IN  /\ r.id = <<op, by>> /\ r.id[1] = op /\ r.command = c /\ r.session = s /\ r.policy = p
  BY DEF Request

\* What a promise that has settled is.
LEMMA MicroIs ==
  ASSUME PlacesInv
  PROVE  /\ micro \in Seq(Promise)
         /\ \A x \in Range(micro) : x \in Promise /\ x.call \in Calls /\ x.call \in Woken
                                  /\ x.answer \in Answers \cup {"lost"}
                                  /\ x = [call |-> x.call, answer |-> x.answer]
  <1>1. micro \in Seq(Promise)
    BY DEF PlacesInv
  <1>2. Range(micro) \subseteq Promise
    BY <1>1, RangeOfSeq
  <1> QED
    BY <1>1, <1>2 DEF Promise, Woken

\* The frames are sequences.
LEMMA FramesAre ==
  ASSUME OwnInv
  PROVE  inbox \in Seq(Requests) /\ outbox \in Seq(Responses)
  BY DEF OwnInv, PoolTypeOK

\* What a frame that waits to be read is about.
LEMMA InboxIs ==
  ASSUME OwnInv, NEW x \in Range(inbox)
  PROVE  /\ x \in Requests /\ x.id \in RequestIds
         /\ x.id[1] = "run" => /\ x.command \in Commands /\ x.id = <<"run", x.command>>
                               /\ replies[x.command] = 0
                               /\ x.command \notin active \cup freed \cup {main}
         /\ x.id[1] = "cancel" => x.command \in Commands
  <1>1. PICK i \in DOMAIN inbox : inbox[i] = x
    BY DEF Range
  <1>2. x \in Requests
    BY FramesAre, RangeOfSeq
  <1>3. x.id \in RequestIds
    BY <1>2 DEF Requests
  <1> QED
    BY <1>1, <1>2, <1>3 DEF OwnInv, RunsAreNew

\* And the converse: what makes the frames of an inbox new.
LEMMA InboxIsNew ==
  ASSUME inbox' \in Seq(Requests), IsInjective(inbox'),
         \A x \in Range(inbox') :
            /\ x.id[1] = "run" => /\ x.command \in Commands /\ x.id = <<"run", x.command>>
                                  /\ replies'[x.command] = 0
                                  /\ x.command \notin active' \cup freed' \cup {main'}
            /\ x.id[1] = "cancel" => x.command \in Commands,
         \A x, y \in Range(inbox') : x.id = y.id => x = y
  PROVE  RunsAreNew'
  <1>1. \A i \in DOMAIN inbox' : inbox'[i] \in Range(inbox')
    BY DEF Range
  <1>2. \A i, j \in DOMAIN inbox' : inbox'[i] = inbox'[j] => i = j
    BY DEF IsInjective
  <1>3. ASSUME NEW i \in DOMAIN inbox', NEW j \in DOMAIN inbox',
               inbox'[i].id[1] = "run", inbox'[j].id[1] = "run", i # j
        PROVE  inbox'[i].command # inbox'[j].command
    BY <1>1, <1>2, <1>3
  <1> QED
    BY <1>1, <1>3 DEF RunsAreNew

\* Reading takes the first frame.
LEMMA ReadIs ==
  ASSUME CoreInv, NEW op, Reading(op)
  PROVE  /\ Head(inbox) \in Range(inbox) /\ Head(inbox).id[1] = op
         /\ inbox' \in Seq(Requests) /\ IsInjective(inbox')
         /\ Range(inbox') \subseteq Range(inbox) /\ Head(inbox) \notin Range(inbox')
         /\ Head(inbox).id \in Range(pending)
         /\ \A x \in Range(inbox') : x.id # Head(inbox).id
  <1>1. inbox \in Seq(Requests) /\ inbox # <<>> /\ inbox' = Tail(inbox) /\ Head(inbox).id[1] = op
    BY FramesAre DEF CoreInv, Reading
  <1>2. /\ inbox' \in Seq(Requests) /\ Head(inbox) \in Range(inbox)
        /\ Range(inbox) = {Head(inbox)} \cup Range(inbox')
        /\ IsInjective(inbox) => IsInjective(inbox') /\ Head(inbox) \notin Range(inbox')
    BY <1>1, TailIs
  <1> QED
    BY <1>1, <1>2 DEF CoreInv, FramesInv

\* A response is written to a request that no frame is about any more.
LEMMA WrittenIs ==
  ASSUME CoreInv, NEW id \in RequestIds, NEW a \in Answers, Write(<<Response(id, a)>>),
         inbox' \in Seq(Requests), IsInjective(inbox'), Range(inbox') \subseteq Range(inbox),
         id \in Range(pending), UNCHANGED pending,
         \A x \in Range(inbox') : x.id # id,
         \A x \in Range(outbox) : x.id # id
  PROVE  /\ FramesInv'
         /\ outbox' \in Seq(Responses) /\ Range(outbox') = Range(outbox) \cup {Response(id, a)}
         /\ outbox # <<>> => outbox' # <<>> /\ outbox'[1] = outbox[1]
         /\ outbox = <<>> => outbox' = <<Response(id, a)>>
  <1> DEFINE r == Response(id, a)
  <1>1. r \in Responses /\ r.id = id
    BY DEF Responses, Response
  <1>2. outbox \in Seq(Responses) /\ outbox' = outbox \o <<r>>
    BY FramesAre DEF CoreInv, Write
  <1> HIDE DEF r
  <1> DEFINE t == <<r>>
  <1>3. t \in Seq(Responses) /\ Range(t) = {r} /\ IsInjective(t)
    BY <1>1, OneIs
  <1>4. outbox' = outbox \o t
    BY <1>2
  <1> HIDE DEF t
  <1>5. /\ outbox' \in Seq(Responses) /\ Range(outbox') = Range(outbox) \cup {r}
        /\ outbox # <<>> => outbox' # <<>> /\ outbox'[1] = outbox[1]
        /\ IsInjective(outbox) /\ Range(outbox) \cap Range(t) = {} => IsInjective(outbox')
    <2> DEFINE o == outbox
               u == o \o t
    <2>1. o \in Seq(Responses)
      BY <1>2
    <2> HIDE DEF o
    <2>2. /\ u \in Seq(Responses) /\ Range(u) = Range(o) \cup Range(t)
          /\ o # <<>> => u # <<>> /\ u[1] = o[1]
          /\ IsInjective(o) /\ IsInjective(t) /\ Range(o) \cap Range(t) = {} => IsInjective(u)
      BY <1>3, <2>1, ConcatIs
    <2>3. outbox' = u
      BY <1>4 DEF o
    <2> HIDE DEF u
    <2> QED
      BY <1>3, <2>2, <2>3 DEF o
  <1>6. r \notin Range(outbox)
    BY <1>1
  <1>7. IsInjective(outbox')
    BY <1>3, <1>5, <1>6 DEF CoreInv, FramesInv
  <1>8. outbox = <<>> => outbox' = <<r>>
    BY <1>2, <1>1
  <1>9. FramesInv'
    BY <1>1, <1>5, <1>7 DEF CoreInv, FramesInv
  <1> QED
    BY <1>5, <1>8, <1>9 DEF r

\* What the process does changes nothing in the server.
LEMMA ProcessStays ==
  ASSUME CoreInv, Alive, UNCHANGED <<clientVars, routerVars>>,
         OwnInv', KnownInv', FramesInv', ContentsInv',
         \A s \in Sessions : policy[s] # NoPolicy => policy'[s] # NoPolicy,
         \A x \in Range(outbox') \ Range(outbox), k \in Calls :
            x.id = <<"configure", k>> => policy'[call[k].session] # NoPolicy
  PROVE  CoreInv'
  <1> USE DEF clientVars, linkVars, execVars, routerVars
  <1>1. LinkInv'
    BY DEF CoreInv, LinkInv, Connected, Alive
  <1>2. GoneInv'
    BY DEF CoreInv, LinkInv, GoneInv, Connected, Alive
  <1>3. CallsInv'
    BY DEF CoreInv, CallsInv, Underway
  <1>4. QueuedInv'
    BY DEF CoreInv, QueuedInv
  <1>5. PlacesInv' /\ Woken' = Woken
    BY DEF CoreInv, PlacesInv, Woken
  <1>6. JoinedInv'
    BY <1>5 DEF CoreInv, JoinedInv, Underway
  <1>7. PendingInv'
    BY <1>5 DEF CoreInv, PendingInv, Connected
  <1>8. ThereInv'
    <2>1. \A s \in Sessions : There(s) => There(s)'
      BY DEF There, Alive
    <2>2. \A k \in Calls : call[k].session \in Sessions
      BY DEF CoreInv, CallsInv, Call
    <2>3. configured \subseteq Sessions
      BY DEF CoreInv, CallsInv
    <2>4. \A c \in Range(execQueue) \cup execRunning : SessionOf[c] \in Sessions
      BY RangeOfSeq, PoolAssumption DEF CoreInv, QueuedInv
    <2>5. \A x \in Range(micro) : x.call \in Calls
      BY MicroIs DEF CoreInv
    <2>6. ASSUME NEW x \in Range(outbox'), NEW k \in Calls, x.id = <<"configure", k>>
          PROVE  There(call[k].session)'
      BY <2>1, <2>2, <2>6 DEF CoreInv, ThereInv, There
    <2>7. \A s \in configured : There(s)'
      BY <2>1, <2>3 DEF CoreInv, ThereInv
    <2>8. \A c \in Range(execQueue) \cup execRunning : There(SessionOf[c])'
      BY <2>1, <2>4 DEF CoreInv, ThereInv
    <2>9. \A x \in Range(micro) :
          x.answer = "ok" /\ call[x.call].pc \in {"joining", "configuring"} =>
             There(call[x.call].session)'
      BY <2>1, <2>2, <2>5 DEF CoreInv, ThereInv
    <2> QED
      BY <2>6, <2>7, <2>8, <2>9 DEF ThereInv
  <1>9. SettledInv'
    BY DEF CoreInv, SettledInv, Connected
  <1> QED
    BY <1>1, <1>2, <1>3, <1>4, <1>5, <1>6, <1>7, <1>8, <1>9 DEF CoreInv

\* The frame that was read is answered.
LEMMA AnsweredIs ==
  ASSUME CoreInv, NEW op, Reading(op), NEW a \in Answers,
         Write(<<Response(Head(inbox).id, a)>>), UNCHANGED pending
  PROVE  /\ FramesInv' /\ Head(inbox).id \in RequestIds
         /\ Range(outbox') = Range(outbox) \cup {Response(Head(inbox).id, a)}
         /\ Range(inbox') \subseteq Range(inbox)
         /\ outbox # <<>> => outbox' # <<>> /\ outbox'[1] = outbox[1]
         /\ outbox = <<>> => outbox' = <<Response(Head(inbox).id, a)>>
  <1>1. /\ Head(inbox) \in Range(inbox)
        /\ inbox' \in Seq(Requests) /\ IsInjective(inbox') /\ Range(inbox') \subseteq Range(inbox)
        /\ Head(inbox).id \in Range(pending) /\ \A x \in Range(inbox') : x.id # Head(inbox).id
    BY ReadIs
  <1>2. Head(inbox).id \in RequestIds
    BY <1>1, InboxIs DEF CoreInv
  <1>3. \A x \in Range(outbox) : x.id # Head(inbox).id
    BY <1>1 DEF CoreInv, FramesInv
  <1> QED
    BY <1>1, <1>2, <1>3, WrittenIs

\* A request other than exec.run is answered.
LEMMA OpAnswered ==
  ASSUME CoreInv, NEW op \in Ops, Reading(op), NEW a \in Answers,
         Write(<<Response(Head(inbox).id, a)>>), UNCHANGED <<pending, call, replies>>
  PROVE  FramesInv' /\ ContentsInv'
  <1>1. /\ Head(inbox).id[1] = op
        /\ Range(outbox') = Range(outbox) \cup {Response(Head(inbox).id, a)}
        /\ Range(inbox') \subseteq Range(inbox) /\ FramesInv'
    BY AnsweredIs, ReadIs
  <1>2. op # "run"
    BY DEF Ops
  <1>3. \A x \in Range(outbox'), c \in Commands : x.id = <<"run", c>> => x \in Range(outbox)
    BY <1>1, <1>2, ResponseIs
  <1> QED
    BY <1>1, <1>3 DEF CoreInv, ContentsInv

\* Whoever owns a command answers it.
LEMMA RunAnswered ==
  ASSUME CoreInv, NEW c \in Commands, c \in active \cup {main}, replies[c] = 0,
         NEW a \in {"result", "cancelled", "failed", "refused"},
         Write(<<RunReply(c, a)>>), Count(c), active' \subseteq active, main' \in {main, NoCommand},
         freed' \subseteq freed \cup {c}, \A d \in Commands : d # c => phase'[d] = phase[d],
         UNCHANGED <<inbox, pending, call, execRunning, outcome>>
  PROVE  /\ FramesInv' /\ ContentsInv' /\ KnownInv'
         /\ \A x \in Range(outbox') \ Range(outbox), k \in Calls : x.id # <<"configure", k>>
  <1> DEFINE id == <<"run", c>>
  <1>1. c \in execRunning /\ id \in Range(pending) /\ id \in RequestIds
    BY CallsAre DEF CoreInv, KnownInv, PendingInv
  <1>2. \A x \in Range(inbox) : x.id # id
    <2> TAKE x \in Range(inbox)
    <2>1. x.id[1] = "run" => /\ x.id = <<"run", x.command>> /\ x.command \notin active \cup {main}
      BY InboxIs DEF CoreInv
    <2> QED
      BY <2>1
  <1>3. \A x \in Range(outbox) : x.id # id
    BY DEF CoreInv, ContentsInv
  <1>4. Write(<<Response(id, a)>>) /\ a \in Answers
    BY DEF RunReply, Answers
  <1>5. inbox' \in Seq(Requests) /\ IsInjective(inbox') /\ Range(inbox') \subseteq Range(inbox)
    BY FramesAre DEF CoreInv, FramesInv
  <1> HIDE DEF id
  <1>6. FramesInv' /\ Range(outbox') = Range(outbox) \cup {Response(id, a)}
    BY <1>1, <1>2, <1>3, <1>4, <1>5, WrittenIs
  <1>7. replies'[c] = 1 /\ \A d \in Commands : d # c => replies'[d] = replies[d]
    BY DEF Count, CoreInv, OwnInv, PoolTypeOK
  <1>8. ContentsInv'
    <2>1. \A x \in Range(outbox'), d \in Commands : x.id = <<"run", d>> =>
             replies'[d] = 1 /\ x.answer \in {"result", "cancelled", "failed", "refused"}
      <3> TAKE x \in Range(outbox'), d \in Commands
      <3>1. CASE x \in Range(outbox)
        BY <1>7, <3>1 DEF CoreInv, ContentsInv
      <3>2. CASE x = Response(id, a)
        BY <1>7, <3>2, ResponseIs DEF id
      <3> QED
        BY <1>6, <3>1, <3>2
    <2>2. \A x \in Range(inbox'), k \in Calls : x.id = <<"configure", k>> =>
             x.session = call'[k].session /\ x.policy = call'[k].want
      BY DEF CoreInv, ContentsInv
    <2> QED
      BY <2>1, <2>2 DEF ContentsInv
  <1>9. KnownInv'
    BY <1>1, <1>7, PoolAssumption DEF CoreInv, KnownInv
  <1>10. \A x \in Range(outbox') \ Range(outbox), k \in Calls : x.id # <<"configure", k>>
    BY <1>6, ResponseIs DEF id
  <1> QED
    BY <1>6, <1>8, <1>9, <1>10

\* The frames and what is known of the commands, when neither changes.
LEMMA SameFrames ==
  ASSUME CoreInv, UNCHANGED <<inbox, outbox, pending, call, replies>>
  PROVE  FramesInv' /\ ContentsInv'
  BY DEF CoreInv, FramesInv, ContentsInv

LEMMA SameKnown ==
  ASSUME CoreInv, UNCHANGED <<execRunning, outcome, active, freed, main, phase, replies>>
  PROVE  KnownInv'
  BY DEF CoreInv, KnownInv

\* What a thread holds is known.
LEMMA HeldIs ==
  ASSUME CoreInv, NEW w \in Workers, worker[w].pc \in Unanswered
  PROVE  /\ worker[w].command \in Commands /\ worker[w].command \in active
         /\ replies[worker[w].command] = 0 /\ worker[w].command \in execRunning
  <1>1. worker[w].command \in Commands /\ Busy(w)
    BY WorkerIs DEF CoreInv, OwnInv, PoolTypeOK, Unanswered
  <1>2. worker[w].command \in active /\ replies[worker[w].command] = 0
    BY <1>1 DEF CoreInv, OwnInv, WorkersOwn, Unanswered
  <1> QED
    BY <1>1, <1>2 DEF CoreInv, KnownInv

\* The main loop.
LEMMA PingsKeep ==
  ASSUME CoreInv, Alive, UNCHANGED <<clientVars, routerVars>>, HandlePing
  PROVE  CoreInv'
  <1>1. OwnInv'
    BY PingKeeps DEF CoreInv
  <1>2. Reading("ping") /\ Write(<<Response(Head(inbox).id, "ok")>>)
        /\ "ping" \in Ops /\ "ok" \in Answers
    BY DEF HandlePing, ReplyOk, Ops, Answers
  <1>3. UNCHANGED <<pending, call, replies, policy, execRunning, outcome, active, freed, main, phase>>
    BY DEF HandlePing, clientVars, routerVars, execVars
  <1>4. FramesInv' /\ ContentsInv'
    BY <1>2, <1>3, OpAnswered
  <1>5. KnownInv'
    BY <1>3, SameKnown
  <1>6. \A x \in Range(outbox') \ Range(outbox), k \in Calls : x.id # <<"configure", k>>
    BY <1>2, <1>3, AnsweredIs, ReadIs, ResponseIs
  <1> QED
    BY <1>1, <1>3, <1>4, <1>5, <1>6, ProcessStays

LEMMA ConfiguresKeep ==
  ASSUME CoreInv, Alive, UNCHANGED <<clientVars, routerVars>>, HandleConfigure
  PROVE  CoreInv' /\ Head(inbox).id[2] \in Calls /\ Head(inbox).id = <<"configure", Head(inbox).id[2]>>
  <1> DEFINE x == Head(inbox)
             k == x.id[2]
  <1>1. OwnInv'
    BY ConfigureKeeps DEF CoreInv
  <1>2. Reading("configure") /\ Write(<<Response(x.id, "ok")>>)
        /\ "configure" \in Ops /\ "ok" \in Answers
    BY DEF HandleConfigure, ReplyOk, Ops, Answers
  <1>3. UNCHANGED <<pending, call, replies, execRunning, outcome, active, freed, main, phase>>
    BY DEF HandleConfigure, clientVars, routerVars, execVars
  <1>4. FramesInv' /\ ContentsInv'
    BY <1>2, <1>3, OpAnswered
  <1>5. KnownInv'
    BY <1>3, SameKnown
  <1>6. x \in Range(inbox) /\ x.id[1] = "configure" /\ x.id \in RequestIds /\ x.id \in Range(pending)
    BY <1>2, <1>3, AnsweredIs, ReadIs
  <1>7. k \in Callers /\ x.id = <<"configure", k>>
    BY <1>6, CallsAre DEF Ops
  <1>8. k \in Calls /\ call[k].pc = "configuring"
    BY <1>6, <1>7 DEF CoreInv, PendingInv
  <1>9. x.session = call[k].session /\ x.policy = call[k].want
    BY <1>6, <1>7, <1>8 DEF CoreInv, ContentsInv
  <1>10. x.policy \in Policies /\ x.session \in Sessions /\ x.policy # NoPolicy
    BY <1>8, <1>9, PoolAssumption DEF CoreInv, CallsInv, Call, Underway
  <1>11. policy' = [policy EXCEPT ![x.session] = x.policy]
    BY DEF HandleConfigure
  <1>12. policy \in [Sessions -> Policies \cup {NoPolicy}]
    BY DEF CoreInv, OwnInv, PoolTypeOK
  <1>13. \A y \in Range(outbox') \ Range(outbox) : y.id = x.id
    BY <1>2, <1>3, AnsweredIs, ResponseIs
  <1> HIDE DEF x, k
  <1>14. \A s \in Sessions : policy[s] # NoPolicy => policy'[s] # NoPolicy
    BY <1>10, <1>11, <1>12
  <1>15. \A y \in Range(outbox') \ Range(outbox), l \in Calls :
            y.id = <<"configure", l>> => policy'[call[l].session] # NoPolicy
    <2> TAKE y \in Range(outbox') \ Range(outbox), l \in Calls
    <2>1. y.id = <<"configure", l>> => l = k
      BY <1>7, <1>13
    <2> QED
      BY <1>9, <1>10, <1>11, <1>12, <2>1
  <1>16. CoreInv'
    BY <1>1, <1>4, <1>5, <1>14, <1>15, ProcessStays
  <1> QED
    BY <1>7, <1>8, <1>16 DEF k, x

LEMMA RunsKeep ==
  ASSUME CoreInv, Alive, UNCHANGED <<clientVars, routerVars>>, HandleRun
  PROVE  CoreInv'
  <1> DEFINE c == Head(inbox).command
  <1>1. OwnInv' /\ Reading("run") /\ UNCHANGED <<policy, main, freed, phase>>
    BY RunKeeps DEF CoreInv, HandleRun
  <1>2. UNCHANGED <<pending, call, execRunning, outcome>>
    BY DEF clientVars, routerVars, execVars
  <1>3. /\ Head(inbox) \in Range(inbox) /\ Head(inbox).id \in Range(pending)
        /\ Head(inbox).id[1] = "run"
        /\ inbox' \in Seq(Requests) /\ IsInjective(inbox') /\ Range(inbox') \subseteq Range(inbox)
    BY <1>1, ReadIs
  <1>4. c \in Commands /\ Head(inbox).id = <<"run", c>> /\ replies[c] = 0
        /\ c \notin active \cup freed \cup {main}
    BY <1>3, InboxIs DEF CoreInv
  <1>5. c \in execRunning
    BY <1>3, <1>4 DEF CoreInv, PendingInv
  <1>6. CASE /\ Write(<<RunReply(c, "refused")>>) /\ Count(c) /\ UNCHANGED <<queue, active, worker>>
    <2>1. Write(<<Response(Head(inbox).id, "refused")>>) /\ "refused" \in Answers
      BY <1>4, <1>6 DEF RunReply, Answers
    <2>2. FramesInv' /\ Range(outbox') = Range(outbox) \cup {Response(Head(inbox).id, "refused")}
      BY <1>1, <1>2, <2>1, AnsweredIs
    <2>3. replies'[c] = 1 /\ \A d \in Commands : d # c => replies'[d] = replies[d]
      BY <1>4, <1>6 DEF Count, CoreInv, OwnInv, PoolTypeOK
    <2> HIDE DEF c
    <2>4. \A x \in Range(outbox') \ Range(outbox) : x.id = <<"run", c>> /\ x.answer = "refused"
      BY <1>4, <2>2, ResponseIs
    <2>5. ContentsInv'
      BY <1>2, <1>3, <2>3, <2>4 DEF CoreInv, ContentsInv
    <2>6. KnownInv'
      BY <1>1, <1>2, <1>5, <1>6, <2>3 DEF CoreInv, KnownInv
    <2>7. \A x \in Range(outbox') \ Range(outbox), k \in Calls : x.id # <<"configure", k>>
      BY <2>4
    <2> QED
      BY <1>1, <2>2, <2>5, <2>6, <2>7, ProcessStays
  <1>7. CASE Enqueue(c) /\ UNCHANGED <<outbox, replies>>
    <2>1. active' = active \cup {c}
      BY <1>7 DEF Enqueue
    <2> HIDE DEF c
    <2>2. FramesInv'
      BY <1>2, <1>3, <1>7 DEF CoreInv, FramesInv
    <2>3. ContentsInv'
      BY <1>2, <1>3, <1>7 DEF CoreInv, ContentsInv
    <2>4. KnownInv'
      BY <1>1, <1>2, <1>5, <1>7, <2>1 DEF CoreInv, KnownInv
    <2>5. Range(outbox') = Range(outbox)
      BY <1>7
    <2> QED
      BY <1>1, <2>2, <2>3, <2>4, <2>5, ProcessStays
  <1> QED
    BY <1>6, <1>7 DEF HandleRun

LEMMA CancelsKeep ==
  ASSUME CoreInv, Alive, UNCHANGED <<clientVars, routerVars>>, HandleCancel
  PROVE  CoreInv'
  <1> DEFINE c == Head(inbox).command
  <1>1. OwnInv' /\ Reading("cancel") /\ UNCHANGED <<policy, freed, phase, replies>>
    BY CancelKeeps DEF CoreInv, HandleCancel
  <1>2. UNCHANGED <<pending, call, execRunning, outcome>>
    BY DEF clientVars, routerVars, execVars
  <1>3. PICK a \in Answers : Write(<<Response(Head(inbox).id, a)>>)
    BY DEF HandleCancel, ReplyOk, Answers
  <1>4. "cancel" \in Ops
    BY DEF Ops
  <1>5. FramesInv' /\ ContentsInv'
    BY <1>1, <1>2, <1>3, <1>4, OpAnswered
  <1>6. \A x \in Range(outbox') \ Range(outbox), k \in Calls : x.id # <<"configure", k>>
    BY <1>1, <1>2, <1>3, AnsweredIs, ReadIs, ResponseIs
  <1>7. KnownInv'
    <2>1. CASE UNCHANGED <<active, main>>
      BY <1>1, <1>2, <2>1, SameKnown
    <2>2. CASE RemoveFromQueue(c) /\ active' = active \ {c} /\ main' = c
      <3>1. c \in Commands
        BY <1>1, ReadIs, InboxIs DEF CoreInv
      <3>2. replies[c] = 0 /\ c \in active
        BY <2>2, <3>1, Struck DEF CoreInv
      <3>3. c \in execRunning
        BY <3>1, <3>2 DEF CoreInv, KnownInv
      <3> HIDE DEF c
      <3> QED
        BY <1>1, <1>2, <2>2, <3>1, <3>2, <3>3 DEF CoreInv, KnownInv
    <2> QED
      BY <2>1, <2>2 DEF HandleCancel
  <1> QED
    BY <1>1, <1>5, <1>6, <1>7, ProcessStays

LEMMA AnswersKeep ==
  ASSUME CoreInv, Alive, UNCHANGED <<clientVars, routerVars>>, AnswerCancelled
  PROVE  CoreInv'
  <1>1. OwnInv' /\ UNCHANGED <<inbox, policy, active, phase>> /\ main \in Commands /\ replies[main] = 0
    BY AnswerCancelledKeeps DEF CoreInv, AnswerCancelled, OwnInv, PoolTypeOK, MainOwns
  <1>2. UNCHANGED <<pending, call, execRunning, outcome>>
    BY DEF clientVars, routerVars, execVars
  <1>3. /\ Write(<<RunReply(main, "cancelled")>>) /\ Count(main)
        /\ freed' = freed \cup {main} /\ main' = NoCommand
    BY DEF AnswerCancelled
  <1>4. /\ FramesInv' /\ ContentsInv' /\ KnownInv'
        /\ \A x \in Range(outbox') \ Range(outbox), k \in Calls : x.id # <<"configure", k>>
    BY <1>1, <1>2, <1>3, RunAnswered
  <1> QED
    BY <1>1, <1>4, ProcessStays

\* A thread.  No session's policy changes, and no configuration is answered.
LEMMA QuietKeeps ==
  ASSUME CoreInv, Alive, UNCHANGED <<clientVars, routerVars>>,
         OwnInv', KnownInv', UNCHANGED <<inbox, outbox, policy, replies>>
  PROVE  CoreInv'
  <1>1. FramesInv' /\ ContentsInv'
    BY SameFrames DEF clientVars, routerVars
  <1> QED
    BY <1>1, ProcessStays

LEMMA AnsweringKeeps ==
  ASSUME CoreInv, Alive, UNCHANGED <<clientVars, routerVars>>, NEW w \in Workers,
         worker[w].pc \in Unanswered, NEW a \in {"result", "cancelled", "failed", "refused"},
         OwnInv', Write(<<RunReply(worker[w].command, a)>>), Count(worker[w].command),
         UNCHANGED <<inbox, policy, active, main, freed, phase>>
  PROVE  CoreInv'
  <1>1. /\ worker[w].command \in Commands /\ worker[w].command \in active \cup {main}
        /\ replies[worker[w].command] = 0
    BY HeldIs
  <1>2. UNCHANGED <<pending, call, execRunning, outcome>>
    BY DEF clientVars, routerVars, execVars
  <1>3. /\ FramesInv' /\ ContentsInv' /\ KnownInv'
        /\ \A x \in Range(outbox') \ Range(outbox), k \in Calls : x.id # <<"configure", k>>
    BY <1>1, <1>2, RunAnswered
  <1> QED
    BY <1>3, ProcessStays

LEMMA WaitsKeep ==
  ASSUME CoreInv, Alive, UNCHANGED <<clientVars, routerVars>>, NEW w \in Workers,
         Wait(w) \/ Take(w)
  PROVE  CoreInv'
  <1>1. OwnInv'
    BY IdleKeeps, TakeKeeps DEF CoreInv
  <1>2. UNCHANGED <<inbox, outbox, policy, active, main, freed, phase, replies>>
    BY DEF Wait, Take
  <1>3. KnownInv'
    BY <1>2, SameKnown DEF clientVars, execVars
  <1> QED
    BY <1>1, <1>2, <1>3, QuietKeeps

LEMMA BeginsKeep ==
  ASSUME CoreInv, Alive, UNCHANGED <<clientVars, routerVars>>, NEW w \in Workers, Begin(w)
  PROVE  CoreInv'
  <1> DEFINE c == worker[w].command
  <1>1. OwnInv'
    BY BeginKeeps DEF CoreInv
  <1>2. worker[w].pc \in Unanswered
    BY DEF Begin, At, Unanswered
  <1>3. UNCHANGED <<inbox, policy, active, main, freed>>
    BY DEF Begin
  <1>4. CASE Write(<<RunReply(c, "cancelled")>>) /\ Count(c) /\ UNCHANGED phase
    BY <1>1, <1>2, <1>3, <1>4, AnsweringKeeps
  <1>5. CASE phase' = [phase EXCEPT ![c] = "started"] /\ UNCHANGED <<outbox, replies>>
    <2>1. c \in Commands /\ c \in execRunning
      BY <1>2, HeldIs
    <2> HIDE DEF c
    <2>2. KnownInv'
      BY <1>3, <1>5, <2>1 DEF CoreInv, KnownInv, OwnInv, PoolTypeOK, clientVars, execVars
    <2> QED
      BY <1>1, <1>3, <1>5, <2>2, QuietKeeps
  <1> QED
    BY <1>4, <1>5 DEF Begin

LEMMA ReturnsAreKept ==
  ASSUME CoreInv, Alive, UNCHANGED <<clientVars, routerVars>>, NEW w \in Workers,
         NEW how \in {"ended", "stopped", "broken"}, Returns(w, how)
  PROVE  CoreInv'
  <1> DEFINE c == worker[w].command
  <1>1. OwnInv'
    BY ReturnsKeeps DEF CoreInv, CommandEnds
  <1>2. worker[w].pc \in Unanswered
    BY DEF Returns, At, Unanswered
  <1>3. /\ phase' = [phase EXCEPT ![c] = how]
        /\ UNCHANGED <<inbox, outbox, policy, active, main, freed, replies>>
    BY DEF Returns
  <1>4. c \in Commands /\ c \in execRunning
    BY <1>2, HeldIs
  <1> HIDE DEF c
  <1>5. KnownInv'
    BY <1>3, <1>4 DEF CoreInv, KnownInv, OwnInv, PoolTypeOK, clientVars, execVars
  <1> QED
    BY <1>1, <1>3, <1>5, QuietKeeps

LEMMA RepliesKeep ==
  ASSUME CoreInv, Alive, UNCHANGED <<clientVars, routerVars>>, NEW w \in Workers, Reply(w)
  PROVE  CoreInv'
  <1> DEFINE c == worker[w].command
             a == IF c \in raised \/ phase[c] = "stopped" THEN "cancelled"
                  ELSE IF phase[c] = "broken" THEN "failed" ELSE "result"
  <1>1. OwnInv' /\ worker[w].pc \in Unanswered
    BY ReplyKeeps DEF CoreInv, Reply, At, Unanswered
  <1>2. /\ Write(<<RunReply(c, a)>>) /\ Count(c)
        /\ UNCHANGED <<inbox, policy, active, main, freed, phase>>
    BY DEF Reply
  <1>3. a \in {"result", "cancelled", "failed", "refused"}
    OBVIOUS
  <1> HIDE DEF a
  <1> QED
    BY <1>1, <1>2, <1>3, AnsweringKeeps

LEMMA ReleasesKeep ==
  ASSUME CoreInv, Alive, UNCHANGED <<clientVars, routerVars>>, NEW w \in Workers, Release(w)
  PROVE  CoreInv'
  <1>1. OwnInv'
    BY ReleaseKeeps DEF CoreInv
  <1>2. active' \subseteq active /\ UNCHANGED <<inbox, outbox, policy, main, freed, phase, replies>>
    BY DEF Release
  <1>3. KnownInv'
    BY <1>2 DEF CoreInv, KnownInv, clientVars, execVars
  <1> QED
    BY <1>1, <1>2, <1>3, QuietKeeps

LEMMA FreesKeep ==
  ASSUME CoreInv, Alive, UNCHANGED <<clientVars, routerVars>>, NEW w \in Workers, Free(w)
  PROVE  CoreInv'
  <1> DEFINE c == worker[w].command
  <1>1. OwnInv' /\ worker[w].pc = "freeing"
    BY FreeKeeps DEF CoreInv, Free, At
  <1>2. c \in Commands /\ replies[c] = 1
    BY <1>1, Holding DEF CoreInv, Unanswered
  <1>3. /\ freed' = freed \cup {c}
        /\ UNCHANGED <<inbox, outbox, policy, active, main, phase, replies>>
    BY DEF Free
  <1> HIDE DEF c
  <1>4. KnownInv'
    BY <1>2, <1>3 DEF CoreInv, KnownInv, clientVars, execVars
  <1> QED
    BY <1>1, <1>3, <1>4, QuietKeeps

\* Whatever the process does.
LEMMA ProcessKeeps ==
  ASSUME CoreInv,
         \/ ProcessStep
         \/ \E w \in Workers, how \in {"ended", "stopped", "broken"} : CommandReturns(w, how)
  PROVE  CoreInv'
  <1>1. CASE HandleRequest
    BY <1>1, PingsKeep, ConfiguresKeep, RunsKeep, CancelsKeep, AnswersKeep DEF HandleRequest, MainLoop
  <1>2. ASSUME NEW w \in Workers, ThreadStep(w)
        PROVE  CoreInv'
    BY <1>2, WaitsKeep, BeginsKeep, RepliesKeep, ReleasesKeep, FreesKeep DEF ThreadStep, WorkerStep
  <1>3. ASSUME NEW w \in Workers, NEW how \in {"ended", "stopped", "broken"}, CommandReturns(w, how)
        PROVE  CoreInv'
    BY <1>3, ReturnsAreKept DEF CommandReturns
  <1> QED
    BY <1>1, <1>2, <1>3 DEF ProcessStep

(***************************************************************************)
(* Promises and calls.                                                     *)
(***************************************************************************)

\* The calls of some promises.
CallsOf(m) == {x.call : x \in Range(m)}

\* Some calls are told how what they waited for has settled.
LEMMA ContinuesIs ==
  ASSUME NEW calls \in Seq(Calls), NEW a \in Answers \cup {"lost"}
  PROVE  /\ Continues(calls, a) \in Seq(Promise)
         /\ Range(Continues(calls, a)) = {[call |-> k, answer |-> a] : k \in Range(calls)}
         /\ CallsOf(Continues(calls, a)) = Range(calls)
         /\ \A x \in Range(Continues(calls, a)) : x.answer = a
         /\ IsInjective(calls) => IsInjective(Continues(calls, a))
         /\ \A x, y \in Range(Continues(calls, a)) : x.call = y.call => x = y
  <1> DEFINE t == Continues(calls, a)
  <1>1. t = [i \in DOMAIN calls |-> [call |-> calls[i], answer |-> a]]
    BY DEF Continues
  <1> HIDE DEF t
  <1>2. \A i \in DOMAIN calls : calls[i] \in Calls
    BY ElementOfSeq, LenProperties
  <1>3. DOMAIN t = DOMAIN calls /\ \A i \in DOMAIN calls : t[i] = [call |-> calls[i], answer |-> a]
    BY <1>1
  <1>4. \A i \in DOMAIN calls : t[i] \in Promise
    BY <1>2, <1>3 DEF Promise
  <1>5. t \in [DOMAIN calls -> Promise]
    BY <1>1, <1>4
  <1>6. t \in Seq(Promise) /\ Range(t) = {t[i] : i \in DOMAIN calls}
    BY <1>3, <1>5, ImageIs
  <1>7. Range(t) = {[call |-> k, answer |-> a] : k \in Range(calls)}
    BY <1>3, <1>6 DEF Range
  <1>8. IsInjective(calls) => IsInjective(t)
    BY <1>3 DEF IsInjective
  <1>9. \A x \in Range(t) : x.answer = a /\ x.call \in Range(calls) /\ x = [call |-> x.call, answer |-> a]
    BY <1>7
  <1>10. \A k \in Range(calls) : \E x \in Range(t) : x.call = k
    <2> TAKE k \in Range(calls)
    <2>1. [call |-> k, answer |-> a] \in Range(t)
      BY <1>7
    <2> QED
      BY <2>1
  <1>11. CallsOf(t) = Range(calls)
    BY <1>9, <1>10 DEF CallsOf
  <1>12. \A x, y \in Range(t) : x.call = y.call => x = y
    BY <1>9
  <1> QED
    BY <1>6, <1>7, <1>8, <1>9, <1>11, <1>12 DEF t

\* The promises that are left, and new ones behind them.
LEMMA MoreSettle ==
  ASSUME CoreInv, NEW m \in Seq(Promise), IsInjective(m), Range(m) \subseteq Range(micro),
         NEW calls \in Seq(Calls), IsInjective(calls), NEW a \in Answers \cup {"lost"},
         \A k \in Range(calls) : k \notin CallsOf(m),
         micro' = m \o Continues(calls, a)
  PROVE  /\ micro' \in Seq(Promise) /\ IsInjective(micro')
         /\ Range(micro') = Range(m) \cup {[call |-> k, answer |-> a] : k \in Range(calls)}
         /\ \A x, y \in Range(micro') : x.call = y.call => x = y
         /\ Woken' = CallsOf(m) \cup Range(calls)
  <1> DEFINE t == Continues(calls, a)
  <1>1. /\ t \in Seq(Promise) /\ Range(t) = {[call |-> k, answer |-> a] : k \in Range(calls)}
        /\ IsInjective(t) /\ CallsOf(t) = Range(calls)
        /\ \A x, y \in Range(t) : x.call = y.call => x = y
    BY ContinuesIs
  <1>2. micro' = m \o t
    OBVIOUS
  <1> HIDE DEF t
  <1>3. \A x \in Range(m), y \in Range(t) : x.call # y.call
    BY <1>1 DEF CallsOf
  <1>4. Range(m) \cap Range(t) = {}
    BY <1>3
  <1>5. micro' \in Seq(Promise) /\ IsInjective(micro') /\ Range(micro') = Range(m) \cup Range(t)
    BY <1>1, <1>2, <1>4, ConcatIs
  <1>6. \A x, y \in Range(m) : x.call = y.call => x = y
    BY DEF CoreInv, PlacesInv
  <1>7. \A x, y \in Range(micro') : x.call = y.call => x = y
    BY <1>1, <1>3, <1>5, <1>6
  <1>8. Woken' = CallsOf(m) \cup Range(calls)
    BY <1>1, <1>5 DEF Woken, CallsOf
  <1> QED
    BY <1>1, <1>5, <1>7, <1>8

\* The first promise is handled.
LEMMA SettledIs ==
  ASSUME CoreInv, micro # <<>>
  PROVE  /\ Settled \in Range(micro) /\ Settled \in Promise /\ Settled.call \in Calls
         /\ Settled.answer \in Answers \cup {"lost"} /\ Settled.call \in Woken
         /\ Tail(micro) \in Seq(Promise) /\ IsInjective(Tail(micro))
         /\ Range(Tail(micro)) = Range(micro) \ {Settled}
         /\ CallsOf(Tail(micro)) = Woken \ {Settled.call}
         /\ \A k \in Calls : Settled.call \notin Range(call[k].joined)
         /\ Settled.call \notin Range(starters)
  <1>1. micro \in Seq(Promise) /\ IsInjective(micro)
    BY DEF CoreInv, PlacesInv
  <1>2. /\ Tail(micro) \in Seq(Promise) /\ Head(micro) \in Range(micro)
        /\ Range(micro) = {Head(micro)} \cup Range(Tail(micro))
        /\ IsInjective(Tail(micro)) /\ Head(micro) \notin Range(Tail(micro))
    BY <1>1, TailIs
  <1>3. Head(micro) \in Promise /\ Head(micro).call \in Calls /\ Head(micro).call \in Woken
        /\ Head(micro).answer \in Answers \cup {"lost"}
    BY <1>2, MicroIs DEF CoreInv
  <1>4. \A x \in Range(micro) : x.call = Head(micro).call => x = Head(micro)
    BY <1>2 DEF CoreInv, PlacesInv
  <1>5. CallsOf(Tail(micro)) = Woken \ {Head(micro).call}
    BY <1>2, <1>4 DEF CallsOf, Woken
  <1>6. \A k \in Calls : Head(micro).call \notin Range(call[k].joined)
    BY <1>3 DEF CoreInv, JoinedInv
  <1>7. Head(micro).call \notin Range(starters)
    BY <1>3 DEF CoreInv, PlacesInv
  <1> QED
    BY <1>2, <1>3, <1>5, <1>6, <1>7 DEF Settled

\* A call is a record, and those who joined it are calls.
LEMMA CallIs ==
  ASSUME CoreInv, NEW k \in Calls
  PROVE  /\ call[k] \in Call /\ call[k].pc \in Steps /\ call[k].session \in Sessions
         /\ call[k].want \in Policies \cup {NoPolicy} /\ call[k].second \in BOOLEAN
         /\ call[k].joined \in Seq(Calls) /\ IsInjective(call[k].joined)
         /\ Range(call[k].joined) \subseteq Calls
         /\ ~Underway(k) => Range(call[k].joined) = {} /\ call[k].joined = <<>>
         /\ k \notin Range(call[k].joined)
  <1>1. call[k] \in Call
    BY DEF CoreInv, CallsInv
  <1>2. /\ call[k].pc \in Steps /\ call[k].session \in Sessions
        /\ call[k].want \in Policies \cup {NoPolicy} /\ call[k].second \in BOOLEAN
        /\ call[k].joined \in Seq(Calls)
    BY <1>1 DEF Call
  <1>3. IsInjective(call[k].joined) /\ Range(call[k].joined) \subseteq Calls
    BY <1>2, RangeOfSeq DEF CoreInv, JoinedInv
  <1>4. \A l \in Range(call[k].joined) : Underway(k) /\ call[l].pc = "joining"
    BY DEF CoreInv, JoinedInv
  <1>5. ~Underway(k) => Range(call[k].joined) = {}
    BY <1>4
  <1>6. Range(call[k].joined) = {} => call[k].joined = <<>>
    BY <1>2, EmptyIs
  <1>7. k \notin Range(call[k].joined)
    BY <1>4 DEF Underway
  <1> QED
    BY <1>1, <1>2, <1>3, <1>5, <1>6, <1>7

\* One call moves on, alone or with those who have joined it.
Moves(k) ==
    /\ call' \in [Calls -> Call]
    /\ \A l \in Calls \ {k} : call'[l] = call[l]
    /\ call'[k].session = call[k].session
    /\ \A m \in Calls : k \notin Range(call[m].joined)
    /\ call'[k].joined \in {call[k].joined, <<>>}

LEMMA MoveIs ==
  ASSUME CoreInv, NEW k \in Calls, Moves(k),
         call'[k].joined = call[k].joined =>
             \/ Range(call[k].joined) = {}
             \/ Underway(k)' /\ \A l \in Range(call[k].joined) : l \notin Woken',
         \A l \in Calls \ {k} : l \in Woken' /\ l \notin Woken => l \in Range(call[k].joined),
         \A s \in Sessions : configuring'[s] # NoCall =>
             \/ configuring'[s] = configuring[s] /\ (configuring[s] = k => Underway(k)')
             \/ /\ configuring'[s] = k /\ Underway(k)' /\ call[k].session = s
                /\ k[1] # "change"
  PROVE  JoinedInv'
  <1>1. \A m \in Calls \ {k} : call'[m] = call[m]
    BY DEF Moves
  <1>2. \A m \in Calls : k \notin Range(call[m].joined)
    BY DEF Moves
  <1>3. \A m \in Calls : Range(call'[m].joined) \subseteq Range(call[m].joined)
    BY <1>1, NoneIs DEF Moves
  <1>4. \A m \in Calls : Range(call[m].joined) \subseteq Calls
    BY CallIs
  <1>5. \A m \in Calls : call'[m].session = call[m].session
    BY <1>1 DEF Moves
  <1>6. ASSUME NEW m \in Calls, NEW l \in Range(call'[m].joined)
        PROVE  /\ call'[l].pc = "joining" /\ l[1] # "change" /\ l \notin Woken'
               /\ call'[l].session = call'[m].session /\ Underway(m)' /\ m[1] # "change"
    <2>1. l \in Range(call[m].joined) /\ l \in Calls /\ l # k
      BY <1>2, <1>3, <1>4
    <2>2. /\ call[l].pc = "joining" /\ l[1] # "change" /\ l \notin Woken
          /\ call[l].session = call[m].session /\ Underway(m) /\ m[1] # "change"
      BY <2>1 DEF CoreInv, JoinedInv
    <2>3. call'[l] = call[l] /\ call'[m].session = call[m].session
      BY <1>1, <1>5, <2>1
    <2>4. CASE m = k
      BY <2>1, <2>2, <2>3, <2>4, NoneIs DEF Moves
    <2>5. CASE m # k
      BY <1>1, <2>1, <2>2, <2>3, <2>5 DEF Underway, CoreInv, JoinedInv
    <2> QED
      BY <2>4, <2>5
  <1>7. \A m \in Calls : IsInjective(call'[m].joined)
    BY <1>1, NoneIs, CallIs DEF Moves
  <1>8. \A m, n \in Calls : \A l \in Range(call'[m].joined) : l \in Range(call'[n].joined) => m = n
    BY <1>3 DEF CoreInv, JoinedInv
  <1>9. ASSUME NEW s \in Sessions, NEW l, l = configuring'[s], l # NoCall
        PROVE  Underway(l)' /\ call'[l].session = s /\ l[1] # "change"
    <2>1. CASE l = configuring[s]
      <3>1. l \in Calls
        BY <1>9, <2>1 DEF CoreInv, CallsInv
      <3>2. Underway(l) /\ call[l].session = s /\ l[1] # "change"
        BY <1>9, <2>1 DEF CoreInv, JoinedInv
      <3>3. Underway(l)'
        <4>1. CASE l = k
          BY <1>9, <2>1, <4>1
        <4>2. CASE l # k
          BY <1>1, <3>1, <3>2, <4>2 DEF Underway
        <4> QED
          BY <4>1, <4>2
      <3> QED
        BY <1>5, <3>1, <3>2, <3>3
    <2>2. CASE l # configuring[s]
      BY <1>5, <1>9, <2>2
    <2> QED
      BY <2>1, <2>2
  <1> QED
    BY <1>6, <1>7, <1>8, <1>9 DEF JoinedInv

(***************************************************************************)
(* Requests of the client.                                                 *)
(***************************************************************************)

\* What a request may be about.
Sound(x) ==
    /\ x.id[1] = "run" => /\ x.command \in Commands /\ x.id = <<"run", x.command>>
                          /\ replies[x.command] = 0
                          /\ x.command \notin active \cup freed \cup {main}
    /\ x.id[1] = "cancel" => x.command \in Commands

\* call() puts new requests behind those that wait, and into the pipe if the process lives.
LEMMA SentIs ==
  ASSUME CoreInv, NEW reqs \in Seq(Requests), IsInjective(reqs),
         \A x, y \in Range(reqs) : x.id = y.id => x = y,
         \A x \in Range(reqs) : x.id \notin Range(pending) /\ Sound(x),
         NEW base \in Seq(RequestIds), IsInjective(base), Range(base) \subseteq Range(pending),
         \A x \in Range(inbox) \cup Range(outbox') : x.id \in Range(base),
         outbox' \in Seq(Responses), IsInjective(outbox'), Range(outbox') \subseteq Range(outbox),
         NEW ids \in [DOMAIN reqs -> RequestIds], \A i \in DOMAIN reqs : ids[i] = reqs[i].id,
         pending' = base \o ids,
         inbox' = IF Alive THEN inbox \o reqs ELSE inbox,
         UNCHANGED <<policy, queue, active, raised, worker, main, freed, phase, replies>>
  PROVE  /\ pending' \in Seq(RequestIds) /\ IsInjective(pending')
         /\ Range(base) \subseteq Range(pending')
         /\ \A x \in Range(reqs) : x.id \in Range(pending')
         /\ \A id \in Range(pending') : id \in Range(base) \/ \E x \in Range(reqs) : x.id = id
         /\ Range(inbox') \subseteq Range(inbox) \cup Range(reqs)
         /\ inbox # <<>> => inbox' # <<>> /\ inbox'[1] = inbox[1]
         /\ ~Alive => inbox' = inbox
         /\ FramesInv' /\ OwnInv'
  <1>1. ids \in Seq(RequestIds) /\ Range(ids) = {ids[i] : i \in DOMAIN reqs}
    BY ImageIs
  <1>2. DOMAIN ids = DOMAIN reqs
    OBVIOUS
  <1>3. \A x \in Range(reqs) : x.id \in Range(ids)
    BY <1>2 DEF Range
  <1>4. \A id \in Range(ids) : \E x \in Range(reqs) : x.id = id
    BY <1>2 DEF Range
  <1>5. IsInjective(ids)
    <2>1. ASSUME NEW i \in DOMAIN ids, NEW j \in DOMAIN ids, ids[i] = ids[j]
          PROVE  i = j
      <3>1. reqs[i] \in Range(reqs) /\ reqs[j] \in Range(reqs) /\ reqs[i].id = reqs[j].id
        BY <1>2, <2>1 DEF Range
      <3>2. reqs[i] = reqs[j]
        BY <3>1
      <3> QED
        BY <1>2, <3>2 DEF IsInjective
    <2> QED
      BY <2>1 DEF IsInjective
  <1>6. Range(base) \cap Range(ids) = {}
    BY <1>4
  <1>7. pending' \in Seq(RequestIds) /\ IsInjective(pending') /\ Range(pending') = Range(base) \cup Range(ids)
    BY <1>1, <1>5, <1>6, ConcatIs
  <1>8. \A id \in Range(pending') : id \in Range(base) \/ \E x \in Range(reqs) : x.id = id
    BY <1>4, <1>7
  <1>9. inbox \in Seq(Requests) /\ IsInjective(inbox) /\ \A x, y \in Range(inbox) : x.id = y.id => x = y
    BY FramesAre DEF CoreInv, FramesInv
  <1>10. \A x \in Range(inbox), y \in Range(reqs) : x.id # y.id
    OBVIOUS
  <1>11. /\ inbox' \in Seq(Requests) /\ IsInjective(inbox')
         /\ Range(inbox') \subseteq Range(inbox) \cup Range(reqs)
         /\ inbox # <<>> => inbox' # <<>> /\ inbox'[1] = inbox[1]
         /\ ~Alive => inbox' = inbox
    <2>1. CASE ~Alive
      BY <1>9, <2>1
    <2>2. CASE Alive
      BY <1>9, <1>10, <2>2, ConcatIs
    <2> QED
      BY <2>1, <2>2
  <1>12. \A x, y \in Range(inbox') : x.id = y.id => x = y
    BY <1>9, <1>10, <1>11
  <1>13. FramesInv'
    <2>1. \A x \in Range(inbox') \cup Range(outbox') : x.id \in Range(pending')
      BY <1>3, <1>7, <1>11
    <2>2. \A x, y \in Range(outbox') : x.id = y.id => x = y
      BY DEF CoreInv, FramesInv
    <2>3. \A x \in Range(inbox'), y \in Range(outbox') : x.id # y.id
      <3> TAKE x \in Range(inbox'), y \in Range(outbox')
      <3>1. CASE x \in Range(inbox)
        BY <3>1 DEF CoreInv, FramesInv
      <3>2. CASE x \in Range(reqs)
        BY <3>2
      <3> QED
        BY <1>11, <3>1, <3>2
    <2> QED
      BY <1>11, <1>12, <2>1, <2>2, <2>3 DEF FramesInv
  <1>14. RunsAreNew'
    BY <1>11, <1>12, InboxIs, InboxIsNew DEF CoreInv, Sound
  <1>15. OwnInv'
    BY <1>11, <1>14 DEF CoreInv, OwnInv, PoolTypeOK, QueueIsOwned, WorkersOwn, MainOwns, Busy
  <1> QED
    BY <1>3, <1>7, <1>8, <1>11, <1>13, <1>15

\* One request is sent.
LEMMA OneSent ==
  ASSUME CoreInv, NEW r \in Requests, r.id \notin Range(pending), Sound(r),
         Sent(<<r>>), UNCHANGED outbox
  PROVE  /\ pending' \in Seq(RequestIds) /\ IsInjective(pending')
         /\ Range(pending') = Range(pending) \cup {r.id}
         /\ Range(inbox') \subseteq Range(inbox) \cup {r}
         /\ inbox # <<>> => inbox' # <<>> /\ inbox'[1] = inbox[1]
         /\ ~Alive => inbox' = inbox
         /\ FramesInv' /\ OwnInv'
  <1> DEFINE reqs == <<r>>
             ids == [i \in DOMAIN reqs |-> reqs[i].id]
  <1>1. reqs \in Seq(Requests) /\ IsInjective(reqs) /\ Range(reqs) = {r}
    BY OneIs
  <1>2. /\ pending' = pending \o ids
        /\ inbox' = IF Alive THEN inbox \o reqs ELSE inbox
        /\ UNCHANGED <<policy, queue, active, raised, worker, main, freed, phase, replies>>
    BY DEF Sent
  <1> HIDE DEF reqs
  <1>3. \A i \in DOMAIN reqs : reqs[i] \in Requests
    BY <1>1, ElementOfSeq, LenProperties
  <1>4. ids \in [DOMAIN reqs -> RequestIds] /\ \A i \in DOMAIN reqs : ids[i] = reqs[i].id
    BY <1>3 DEF Requests
  <1> HIDE DEF ids
  <1>5. pending \in Seq(RequestIds) /\ IsInjective(pending)
    BY DEF CoreInv, PendingInv
  <1>6. /\ outbox' \in Seq(Responses) /\ IsInjective(outbox')
        /\ Range(outbox') \subseteq Range(outbox)
        /\ \A x \in Range(inbox) \cup Range(outbox') : x.id \in Range(pending)
    BY FramesAre DEF CoreInv, FramesInv
  <1>7. /\ \A x, y \in Range(reqs) : x.id = y.id => x = y
        /\ \A x \in Range(reqs) : x.id \notin Range(pending) /\ Sound(x)
    BY <1>1
  <1>8. /\ pending' \in Seq(RequestIds) /\ IsInjective(pending')
        /\ Range(pending) \subseteq Range(pending')
        /\ \A x \in Range(reqs) : x.id \in Range(pending')
        /\ \A id \in Range(pending') : id \in Range(pending) \/ \E x \in Range(reqs) : x.id = id
        /\ Range(inbox') \subseteq Range(inbox) \cup Range(reqs)
        /\ inbox # <<>> => inbox' # <<>> /\ inbox'[1] = inbox[1]
        /\ ~Alive => inbox' = inbox
        /\ FramesInv' /\ OwnInv'
    BY <1>1, <1>2, <1>4, <1>5, <1>6, <1>7, SentIs
  <1> QED
    BY <1>1, <1>8

\* Commands are handed over, and requests are sent for them.
Waits(q) ==
    /\ q \in Seq(Commands) /\ IsInjective(q) /\ Len(q) <= MaxExecQueue
    /\ Range(execQueue) \subseteq Range(q) /\ Range(q) \cap execRunning = {}
    /\ \A c \in Range(q) : outcome[c] = "none"

Ended(running) ==
    /\ \A c \in execRunning \ running : outcome'[c] # "none" /\ replies[c] = 1
    /\ \A c \in Commands \ (execRunning \ running) : outcome'[c] = outcome[c]

Rest(base, running) ==
    /\ base \in Seq(RequestIds) /\ IsInjective(base)
    /\ \A id : id \in Range(base) <=>
            id \in Range(pending) /\ \A c \in execRunning \ running : id # <<"run", c>>
    /\ \A x \in Range(inbox) \cup Range(outbox') : x.id \in Range(base)
    /\ outbox' \in Seq(Responses) /\ IsInjective(outbox') /\ Range(outbox') \subseteq Range(outbox)

Handover(d, limit, base) ==
    /\ execQueue' = d.queue /\ execRunning' = d.running /\ concurrency' = limit
    /\ pending' = base \o [i \in DOMAIN d.sent |-> d.sent[i].id]
    /\ inbox' = IF Alive THEN inbox \o d.sent ELSE inbox
    /\ UNCHANGED <<policy, queue, active, raised, worker, main, freed, phase, replies>>

LEMMA HandedOverIs ==
  ASSUME CoreInv, NEW q, Waits(q), NEW running \in SUBSET execRunning,
         NEW limit \in 1..MaxConcurrency, NEW base, Rest(base, running), Ended(running),
         NEW d, d = Drained(q, running, limit), Handover(d, limit, base)
  PROVE  /\ execQueue' \in Seq(Commands) /\ Len(execQueue') <= MaxExecQueue
         /\ execRunning' \subseteq Commands /\ IsFiniteSet(execRunning')
         /\ concurrency' \in 1..MaxConcurrency /\ IsInjective(execQueue')
         /\ Range(execQueue') \cap execRunning' = {}
         /\ Range(execQueue') \cup execRunning' = Range(q) \cup running
         /\ execQueue' # <<>> => Cardinality(execRunning') >= concurrency'
         /\ running \subseteq execRunning'
         /\ KnownInv' /\ FramesInv' /\ OwnInv'
         /\ pending' \in Seq(RequestIds) /\ IsInjective(pending')
         /\ \A c \in Commands : <<"run", c>> \in Range(pending') <=> c \in execRunning'
         /\ \A id : id[1] # "run" => (id \in Range(pending') <=> id \in Range(pending))
         /\ \A x \in Range(inbox') : x \in Range(inbox) \/ x.id[1] = "run"
         /\ inbox # <<>> => inbox' # <<>> /\ inbox'[1] = inbox[1]
         /\ ~Alive => inbox' = inbox
  <1>1. execRunning \subseteq Commands /\ IsFiniteSet(execRunning)
    BY DEF CoreInv, QueuedInv
  <1>2. running \in SUBSET Commands /\ IsFiniteSet(running) /\ Range(q) \cap running = {}
        /\ limit \in Nat /\ q \in Seq(Commands) /\ IsInjective(q)
    BY <1>1, FS_Subset DEF Waits
  <1>3. Handing(d, q, running) /\ (d.queue # <<>> => Cardinality(d.running) >= limit)
    BY <1>2, DrainedIs
  <1>4. /\ d.queue \in Seq(Commands) /\ IsInjective(d.queue)
        /\ Range(d.queue) \cap d.running = {}
        /\ Range(d.queue) \cup d.running = Range(q) \cup running
        /\ running \subseteq d.running /\ IsFiniteSet(d.running)
        /\ d.sent \in Seq(Requests) /\ IsInjective(d.sent)
        /\ Range(d.sent) = {RunRequest(c) : c \in d.running \ running}
        /\ Len(d.queue) <= Len(q)
    BY <1>3 DEF Handing
  <1>5. Range(q) \subseteq Commands
    BY <1>2, RangeOfSeq
  <1>6. d.running \subseteq Commands /\ Len(d.queue) <= MaxExecQueue
    BY <1>2, <1>4, <1>5, LenProperties, ClientAssumption DEF Waits
  <1> DEFINE reqs == d.sent
             ids == [i \in DOMAIN reqs |-> reqs[i].id]
             New == d.running \ running
  <1>7. New \subseteq Range(q) /\ New \subseteq Commands
    BY <1>4, <1>5
  <1>8. \A c \in New : /\ RunRequest(c).id = <<"run", c>> /\ RunRequest(c).command = c
                       /\ RunRequest(c).id[1] = "run" /\ RunRequest(c) \in Requests
    BY <1>7, RunRequestIs
  <1>9. \A x \in Range(reqs) : \E c \in New : x = RunRequest(c)
    BY <1>4
  <1>10. \A c \in New : RunRequest(c) \in Range(reqs)
    BY <1>4
  <1>11. \A c \in New : c \notin execRunning /\ outcome[c] = "none"
    BY <1>7 DEF Waits
  <1>12. \A c \in New : replies[c] = 0 /\ c \notin active \cup freed \cup {main}
    BY <1>7, <1>11 DEF CoreInv, KnownInv
  <1>13. /\ pending' = base \o ids
         /\ inbox' = (IF Alive THEN inbox \o reqs ELSE inbox)
         /\ UNCHANGED <<policy, queue, active, raised, worker, main, freed, phase, replies>>
    BY DEF Handover
  <1>14. reqs \in Seq(Requests) /\ IsInjective(reqs)
    BY <1>4
  <1> HIDE DEF reqs, New
  <1>15. \A x, y \in Range(reqs) : x.id = y.id => x = y
    BY <1>8, <1>9
  <1>16. \A x \in Range(reqs) : x.id \notin Range(pending) /\ Sound(x)
    <2> TAKE x \in Range(reqs)
    <2>1. PICK c \in New : x = RunRequest(c)
      BY <1>9
    <2>2. x.id = <<"run", c>> /\ x.command = c /\ x.id[1] = "run" /\ c \in Commands
      BY <1>7, <1>8, <2>1
    <2>3. <<"run", c>> \notin Range(pending)
      BY <1>11, <2>2 DEF CoreInv, PendingInv
    <2> QED
      BY <1>12, <2>2, <2>3 DEF Sound
  <1>17. \A i \in DOMAIN reqs : reqs[i] \in Requests
    BY <1>14, ElementOfSeq, LenProperties
  <1>18. ids \in [DOMAIN reqs -> RequestIds] /\ \A i \in DOMAIN reqs : ids[i] = reqs[i].id
    BY <1>17 DEF Requests
  <1> HIDE DEF ids
  <1>19. /\ base \in Seq(RequestIds) /\ IsInjective(base) /\ Range(base) \subseteq Range(pending)
         /\ \A x \in Range(inbox) \cup Range(outbox') : x.id \in Range(base)
         /\ outbox' \in Seq(Responses) /\ IsInjective(outbox')
         /\ Range(outbox') \subseteq Range(outbox)
    BY DEF Rest
  <1>20. /\ pending' \in Seq(RequestIds) /\ IsInjective(pending')
         /\ Range(base) \subseteq Range(pending')
         /\ \A x \in Range(reqs) : x.id \in Range(pending')
         /\ \A id \in Range(pending') : id \in Range(base) \/ \E x \in Range(reqs) : x.id = id
         /\ Range(inbox') \subseteq Range(inbox) \cup Range(reqs)
         /\ inbox # <<>> => inbox' # <<>> /\ inbox'[1] = inbox[1]
         /\ ~Alive => inbox' = inbox
         /\ FramesInv' /\ OwnInv'
    BY <1>13, <1>14, <1>15, <1>16, <1>18, <1>19, SentIs
  <1>21. \A c \in Commands : <<"run", c>> \in Range(pending') <=> c \in execRunning'
    <2> TAKE c \in Commands
    <2>1. <<"run", c>> \in Range(base) <=> c \in running
      BY DEF CoreInv, PendingInv, Rest
    <2>2. ASSUME NEW x \in Range(reqs), x.id = <<"run", c>>
          PROVE  c \in New
      BY <1>8, <1>9, <2>2
    <2>3. ASSUME c \in New
          PROVE  <<"run", c>> \in Range(pending')
      BY <1>8, <1>10, <1>20, <2>3
    <2>4. c \in execRunning' <=> c \in running \/ c \in New
      BY <1>4 DEF New, Handover
    <2> QED
      BY <1>20, <2>1, <2>2, <2>3, <2>4
  <1>22. \A id : id[1] # "run" => (id \in Range(pending') <=> id \in Range(pending))
    <2> TAKE id
    <2> HAVE id[1] # "run"
    <2>1. \A c \in execRunning \ running : id # <<"run", c>>
      OBVIOUS
    <2>2. \A x \in Range(reqs) : x.id # id
      BY <1>8, <1>9
    <2> QED
      BY <1>20, <2>1, <2>2 DEF Rest
  <1>23. \A x \in Range(inbox') : x \in Range(inbox) \/ x.id[1] = "run"
    BY <1>8, <1>9, <1>20
  <1>24. KnownInv'
    <2>1. ASSUME NEW c \in Commands, outcome'[c] = "none", c \notin execRunning'
          PROVE  /\ phase'[c] = "none" /\ replies'[c] = 0
                 /\ c \notin active' \cup freed' \cup {main'}
      BY <1>4, <2>1 DEF Ended, Handover, CoreInv, KnownInv
    <2>2. ASSUME NEW c \in Commands, c \in active \cup {main}, replies[c] = 0
          PROVE  c \in execRunning'
      BY <1>4, <2>2 DEF CoreInv, KnownInv, Ended, Handover
    <2> QED
      BY <2>1, <2>2 DEF KnownInv, Handover
  <1> QED
    BY <1>3, <1>4, <1>6, <1>20, <1>21, <1>22, <1>23, <1>24 DEF Handover

\* A call goes on, and tells those who have joined it how it went.
LEMMA GoesOn ==
  ASSUME CoreInv, NEW k \in Calls, Moves(k), NEW a \in Answers \cup {"lost"},
         NEW m \in Seq(Promise), IsInjective(m), Range(m) \subseteq Range(micro),
         CallsOf(m) = Woken \ {k},
         \/ micro' = m /\ call'[k].joined = call[k].joined /\ (Underway(k)' \/ ~Underway(k))
         \/ micro' = m \o Continues(call[k].joined, a) /\ call'[k].joined = <<>>,
         call[k].pc # "starting" \/ k \in Woken, call'[k].pc # "starting",
         UNCHANGED <<starters, ready>>,
         \A s \in Sessions : configuring'[s] # NoCall =>
             \/ configuring'[s] = configuring[s] /\ (configuring[s] = k => Underway(k)')
             \/ configuring'[s] = k /\ Underway(k)' /\ call[k].session = s /\ k[1] # "change"
  PROVE  /\ PlacesInv' /\ JoinedInv' /\ k \notin Woken'
         /\ \A l \in Woken' : l \in Woken \/ call[l].pc = "joining"
         /\ \A l \in Woken : l # k => l \in Woken'
         /\ \A x \in Range(micro') : \/ x \in Range(m)
                                     \/ /\ x.answer = a /\ x.call \in Range(call[k].joined)
  <1> DEFINE j == call[k].joined
  <1>1. /\ j \in Seq(Calls) /\ IsInjective(j) /\ Range(j) \subseteq Calls
        /\ ~Underway(k) => Range(j) = {}
        /\ k \notin Range(j)
    BY CallIs
  <1>2. \A l \in Range(j) : call[l].pc = "joining" /\ l \notin Woken
    BY DEF CoreInv, JoinedInv
  <1>3. \A l \in Range(j) : l \notin CallsOf(m)
    BY <1>2
  <1> HIDE DEF j
  <1>4. /\ micro' \in Seq(Promise) /\ IsInjective(micro')
        /\ \A x, y \in Range(micro') : x.call = y.call => x = y
        /\ \A x \in Range(micro') : x \in Range(m) \/ (x.answer = a /\ x.call \in Range(j))
        /\ CallsOf(m) \subseteq Woken' /\ Woken' \subseteq CallsOf(m) \cup Range(j)
        /\ call'[k].joined = call[k].joined => Woken' = CallsOf(m) \/ Range(j) = {}
    <2>1. CASE micro' = m
      BY <2>1 DEF Woken, CallsOf, CoreInv, PlacesInv
    <2>2. CASE micro' = m \o Continues(j, a) /\ call'[k].joined = <<>>
      <3>1. /\ micro' \in Seq(Promise) /\ IsInjective(micro')
            /\ Range(micro') = Range(m) \cup {[call |-> l, answer |-> a] : l \in Range(j)}
            /\ \A x, y \in Range(micro') : x.call = y.call => x = y
            /\ Woken' = CallsOf(m) \cup Range(j)
        BY <1>1, <1>3, <2>2, MoreSettle
      <3>2. call'[k].joined = call[k].joined => Range(j) = {}
        BY <2>2, NoneIs DEF j
      <3> QED
        BY <3>1, <3>2
    <2> QED
      BY <2>1, <2>2 DEF j
  <1>5. k \notin Woken'
    BY <1>1, <1>4
  <1>6. \A l \in Woken' : l \in Woken \/ (l \in Range(j) /\ call[l].pc = "joining")
    BY <1>2, <1>4
  <1>7. \A l \in Woken : l # k => l \in Woken'
    BY <1>4
  <1>8. JoinedInv'
    <2>1. call'[k].joined = call[k].joined =>
             Range(j) = {} \/ (Underway(k)' /\ \A l \in Range(j) : l \notin Woken')
      <3>1. CASE micro' = m /\ (Underway(k)' \/ ~Underway(k))
        BY <1>1, <1>3, <3>1 DEF Woken, CallsOf
      <3>2. CASE call'[k].joined = <<>>
        BY <3>2, NoneIs DEF j
      <3> QED
        BY <3>1, <3>2
    <2>2. \A l \in Calls \ {k} : l \in Woken' /\ l \notin Woken => l \in Range(j)
      BY <1>6
    <2> QED
      BY <2>1, <2>2, MoveIs DEF j
  <1>9. PlacesInv'
    <2>1. \A l \in Calls \ {k} : call'[l] = call[l]
      BY DEF Moves
    <2>2. /\ starters \in Seq(Calls) /\ IsInjective(starters) /\ Range(starters) \subseteq Calls
          /\ \A l \in Range(starters) : l \notin Woken /\ call[l].pc = "starting"
          /\ starters # <<>> => ~ready
      BY RangeOfSeq DEF CoreInv, PlacesInv
    <2>3. k \notin Range(starters)
      BY <2>2
    <2>4. \A l \in Range(starters) : l \notin Woken' /\ call'[l].pc = "starting"
      BY <1>6, <2>1, <2>2, <2>3
    <2>5. Woken' \subseteq Calls
      BY <1>1, <1>4, MicroIs DEF Woken, CallsOf, CoreInv
    <2>6. \A l \in Woken' : call'[l].pc \in {"starting", "configuring", "joining", "cancelling"}
      BY <1>5, <1>6, <2>1, <2>5 DEF CoreInv, PlacesInv
    <2>7. \A l \in Calls : call'[l].pc = "starting" => l \in Woken' \cup Range(starters)
      <3> TAKE l \in Calls
      <3>1. CASE l = k
        BY <3>1
      <3>2. CASE l # k
        BY <1>7, <2>1, <3>2 DEF CoreInv, PlacesInv
      <3> QED
        BY <3>1, <3>2
    <2> QED
      BY <1>4, <2>2, <2>4, <2>6, <2>7 DEF PlacesInv
  <1> QED
    BY <1>4, <1>5, <1>6, <1>7, <1>8, <1>9 DEF j

\* What the router keeps, when a call has moved.
LEMMA MovedCalls ==
  ASSUME CoreInv, NEW k \in Calls, Moves(k),
         desired' \in [Sessions -> Policies \cup {NoPolicy}], configured' \subseteq Sessions,
         configuring' \in [Sessions -> Calls \cup {NoCall}], cancelled' \subseteq Commands,
         mixed' \in BOOLEAN,
         Underway(k)' => call'[k].want \in Policies,
         call'[k].pc # "meta"
  PROVE  CallsInv'
  <1>1. call' \in [Calls -> Call] /\ \A l \in Calls \ {k} : call'[l] = call[l]
    BY DEF Moves
  <1>2. \A l \in Calls : call'[l].session = call[l].session
    BY <1>1 DEF Moves
  <1>3. \A l \in Calls : l[1] # "change" => call'[l].session = SessionOf[l[2]]
    BY <1>2 DEF CoreInv, CallsInv
  <1>4. \A l \in Calls : Underway(l)' \/ (l[1] = "change" /\ call'[l].pc = "meta") =>
           call'[l].want \in Policies
    <2> TAKE l \in Calls
    <2>1. CASE l = k
      BY <2>1
    <2>2. CASE l # k
      BY <1>1, <2>2 DEF CoreInv, CallsInv, Underway
    <2> QED
      BY <2>1, <2>2
  <1> QED
    BY <1>1, <1>3, <1>4 DEF CallsInv

\* The requests that wait, when a call that none of them is about has moved.
LEMMA MovedPending ==
  ASSUME CoreInv, NEW k \in Calls, \A l \in Calls \ {k} : call'[l] = call[l],
         <<"configure", k>> \notin Range(pending), <<"cancel", k>> \notin Range(pending),
         \A l \in Woken' : l \in Woken \/ call[l].pc = "joining"
  PROVE  /\ \A l \in Callers : <<"configure", l>> \in Range(pending) =>
               l \in Calls \ Woken' /\ call'[l].pc = "configuring"
         /\ \A l \in Callers : <<"cancel", l>> \in Range(pending) =>
               l \in Calls \ Woken' /\ call'[l].pc = "cancelling" /\ l[1] = "cancel"
  <1>1. ASSUME NEW l \in Callers, <<"configure", l>> \in Range(pending)
        PROVE  l \in Calls \ Woken' /\ call'[l].pc = "configuring"
    BY <1>1 DEF CoreInv, PendingInv
  <1>2. ASSUME NEW l \in Callers, <<"cancel", l>> \in Range(pending)
        PROVE  l \in Calls \ Woken' /\ call'[l].pc = "cancelling" /\ l[1] = "cancel"
    BY <1>2 DEF CoreInv, PendingInv
  <1> QED
    BY <1>1, <1>2

\* What run() and cancelExec() of the client leave behind.
ClientKept(k) ==
    /\ OwnInv' /\ LinkInv' /\ GoneInv' /\ QueuedInv' /\ KnownInv' /\ FramesInv'
    /\ UNCHANGED <<linkVars, stopping, faults, outbox, policy, replies, queue, main, worker>>
    /\ pending' \in Seq(RequestIds) /\ IsInjective(pending')
    /\ \A c \in Commands : <<"run", c>> \in Range(pending') <=> c \in execRunning'
    /\ \A c \in Range(execQueue') \cup execRunning' : There(SessionOf[c])
    /\ inbox # <<>> => inbox' # <<>> /\ inbox'[1] = inbox[1]
    /\ \A x \in Range(inbox') : x \in Range(inbox) \/ x.id[1] \in {"run", "cancel"}
    /\ \A id \in Range(pending') : \/ id[1] = "run" \/ id \in Range(pending)
                                   \/ id = <<"cancel", k>> /\ k[1] = "cancel" /\ After(k) = "cancelling"
    /\ \A id \in Range(pending) : id[1] # "run" => id \in Range(pending')

\* The process and the connection go on, and it has read and written no frame.
Steady ==
    /\ Connected' = Connected /\ Alive' = Alive /\ ready' = ready
    /\ UNCHANGED <<outbox, policy, queue, main, worker>>
    /\ inbox # <<>> => inbox' # <<>> /\ inbox'[1] = inbox[1]

\* Nothing happens to the process.
LEMMA PoolStays ==
  ASSUME OwnInv, UNCHANGED poolVars
  PROVE  OwnInv'
  BY DEF poolVars, OwnInv, PoolTypeOK, RunsAreNew, QueueIsOwned, WorkersOwn, MainOwns, Busy

\* The process and the connection stay as they are.
LEMMA LinkStays ==
  ASSUME CoreInv, UNCHANGED <<linkVars, stopping, faults>>
  PROVE  LinkInv' /\ Connected' = Connected /\ Alive' = Alive /\ ready' = ready
  BY DEF CoreInv, LinkInv, Connected, Alive, linkVars

LEMMA GoneStays ==
  ASSUME CoreInv, Connected, UNCHANGED <<linkVars, stopping, faults>>, ~Alive => inbox' = inbox,
         UNCHANGED <<queue, active, raised, freed, main, worker, policy>>
  PROVE  GoneInv'
  <1>1. Connected' /\ Alive' = Alive
    BY LinkStays
  <1> QED
    BY <1>1 DEF CoreInv, GoneInv

LEMMA QueuedStays ==
  ASSUME CoreInv, UNCHANGED <<execQueue, execRunning, concurrency, outcome>>,
         \A c \in Commands : call[<<"run", c>>].pc = "done" => call'[<<"run", c>>].pc = "done"
  PROVE  QueuedInv'
  <1>1. Range(execQueue) \cup execRunning \subseteq Commands
    BY RangeOfSeq DEF CoreInv, QueuedInv
  <1>2. \A c \in Range(execQueue) \cup execRunning :
           call'[<<"run", c>>].pc = "done" /\ outcome[c] = "none"
    BY <1>1 DEF CoreInv, QueuedInv
  <1>3. \A c \in Commands : outcome[c] # "none" => call'[<<"run", c>>].pc = "done"
    BY DEF CoreInv, QueuedInv
  <1> QED
    BY <1>2, <1>3 DEF CoreInv, QueuedInv

\* run(): the command is refused, or waits for a place, or goes to the process.
LEMMA RunIs ==
  ASSUME CoreInv, NEW c \in Commands, NEW k, k = <<"run", c>>, Run(c), Connected, There(SessionOf[c]),
         call[<<"run", c>>].pc # "done", call'[<<"run", c>>].pc = "done",
         \A d \in Commands : d # c => call'[<<"run", d>>] = call[<<"run", d>>]
  PROVE  ClientKept(k)
  <1>1. /\ c \notin Range(execQueue) \cup execRunning /\ outcome[c] = "none"
        /\ execQueue \in Seq(Commands) /\ IsInjective(execQueue)
        /\ Range(execQueue) \cap execRunning = {}
        /\ \A d \in Range(execQueue) : outcome[d] = "none"
        /\ Len(execQueue) <= MaxExecQueue
        /\ outcome \in [Commands -> Outcomes] /\ concurrency \in 1..MaxConcurrency
        /\ execRunning \subseteq Commands /\ Range(execQueue) \subseteq Commands
    BY RangeOfSeq DEF CoreInv, QueuedInv
  <1>2. \A d \in Range(execQueue) \cup execRunning : There(SessionOf[d])
    BY DEF CoreInv, ThereInv
  <1>3. CASE /\ Len(execQueue) >= MaxExecQueue
             /\ outcome' = [outcome EXCEPT ![c] = "refused"]
             /\ UNCHANGED <<linkVars, execVars, pending, stopping, faults, poolVars>>
    <2>1. OwnInv'
      BY <1>3, PoolStays DEF CoreInv
    <2>2. LinkInv' /\ GoneInv'
      BY <1>3, LinkStays, GoneStays DEF poolVars
    <2>3. /\ outcome' \in [Commands -> Outcomes] /\ outcome'[c] = "refused"
          /\ \A d \in Commands : d # c => outcome'[d] = outcome[d]
      BY <1>1, <1>3 DEF Outcomes
    <2>4. UNCHANGED <<execQueue, execRunning, concurrency, pending>>
      BY <1>3 DEF execVars
    <2>5. QueuedInv'
      BY <1>1, <2>3, <2>4 DEF CoreInv, QueuedInv
    <2>6. UNCHANGED <<inbox, outbox, policy, replies, queue, main, worker, active, freed, phase>>
      BY <1>3 DEF poolVars
    <2>7. KnownInv'
      BY <2>3, <2>4, <2>6 DEF CoreInv, KnownInv
    <2>8. FramesInv'
      BY <2>4, <2>6 DEF CoreInv, FramesInv
    <2>9. /\ pending' \in Seq(RequestIds) /\ IsInjective(pending')
          /\ \A d \in Commands : <<"run", d>> \in Range(pending') <=> d \in execRunning'
      BY <2>4 DEF CoreInv, PendingInv
    <2>10. UNCHANGED <<linkVars, stopping, faults>>
      BY <1>3
    <2>11. \A d \in Range(execQueue') \cup execRunning' : There(SessionOf[d])
      BY <1>2, <2>4
    <2>12. /\ pending' = pending /\ inbox' = inbox
           /\ \A id \in Range(pending') : id \in Range(pending)
           /\ \A x \in Range(inbox') : x \in Range(inbox)
      BY <2>4, <2>6
    <2> QED
      BY <2>1, <2>2, <2>5, <2>6, <2>7, <2>8, <2>9, <2>10, <2>11, <2>12 DEF ClientKept
  <1>4. CASE /\ Len(execQueue) < MaxExecQueue
             /\ Drain(Drained(Append(execQueue, c), execRunning, concurrency))
             /\ UNCHANGED <<linkVars, concurrency, stopping, outcome, faults, outbox>>
    <2> DEFINE q == Append(execQueue, c)
               d == Drained(q, execRunning, concurrency)
    <2>1. /\ q \in Seq(Commands) /\ Len(q) = Len(execQueue) + 1 /\ Range(q) = Range(execQueue) \cup {c}
          /\ IsInjective(q)
      BY <1>1, AppendIs
    <2>2. Len(q) <= MaxExecQueue
      BY <1>1, <1>4, <2>1, LenProperties, ClientAssumption
    <2>3. Drain(d)
      BY <1>4
    <2>4. UNCHANGED <<concurrency, outcome, outbox, linkVars, stopping, faults>>
      BY <1>4
    <2> HIDE DEF q, d
    <2>5. Waits(q)
      BY <1>1, <2>1, <2>2 DEF Waits
    <2>6. Rest(pending, execRunning)
      BY <2>4, FramesAre DEF Rest, CoreInv, PendingInv, FramesInv
    <2>7. Ended(execRunning)
      BY <2>4 DEF Ended
    <2>8. Handover(d, concurrency, pending)
      BY <2>3, <2>4 DEF Drain, Sent, Handover
    <2>9. d = Drained(q, execRunning, concurrency)
      BY DEF d
    <2>10. /\ execQueue' \in Seq(Commands) /\ Len(execQueue') <= MaxExecQueue
           /\ execRunning' \subseteq Commands /\ IsFiniteSet(execRunning')
           /\ concurrency' \in 1..MaxConcurrency /\ IsInjective(execQueue')
           /\ Range(execQueue') \cap execRunning' = {}
           /\ Range(execQueue') \cup execRunning' = Range(q) \cup execRunning
           /\ execQueue' # <<>> => Cardinality(execRunning') >= concurrency'
           /\ KnownInv' /\ FramesInv' /\ OwnInv'
           /\ pending' \in Seq(RequestIds) /\ IsInjective(pending')
           /\ \A e \in Commands : <<"run", e>> \in Range(pending') <=> e \in execRunning'
           /\ \A id : id[1] # "run" => (id \in Range(pending') <=> id \in Range(pending))
           /\ \A x \in Range(inbox') : x \in Range(inbox) \/ x.id[1] = "run"
           /\ inbox # <<>> => inbox' # <<>> /\ inbox'[1] = inbox[1]
           /\ ~Alive => inbox' = inbox
      BY <1>1, <2>5, <2>6, <2>7, <2>8, <2>9, HandedOverIs
    <2>11. UNCHANGED <<policy, queue, active, raised, worker, main, freed, phase, replies>>
      BY <2>8 DEF Handover
    <2>12. LinkInv' /\ GoneInv'
      BY <2>4, <2>10, <2>11, LinkStays, GoneStays
    <2>13. \A e \in Range(execQueue') \cup execRunning' :
              e \in Commands /\ call'[<<"run", e>>].pc = "done" /\ outcome[e] = "none" /\ There(SessionOf[e])
      <3> TAKE e \in Range(execQueue') \cup execRunning'
      <3>1. e = c \/ e \in Range(execQueue) \cup execRunning
        BY <2>1, <2>10
      <3>2. CASE e = c
        BY <1>1, <3>2
      <3>3. CASE e # c
        BY <1>1, <1>2, <3>1, <3>3 DEF CoreInv, QueuedInv
      <3> QED
        BY <3>2, <3>3
    <2>14. QueuedInv'
      BY <1>1, <2>4, <2>10, <2>13 DEF CoreInv, QueuedInv
    <2>15. \A id : id[1] # "run" => (id \in Range(pending') <=> id \in Range(pending))
      BY <2>10
    <2>16. /\ \A id \in Range(pending') : id[1] = "run" \/ id \in Range(pending)
           /\ \A id \in Range(pending) : id[1] # "run" => id \in Range(pending')
      BY <2>15
    <2> QED
      BY <2>4, <2>10, <2>11, <2>12, <2>13, <2>14, <2>16 DEF ClientKept
  <1> QED
    BY <1>3, <1>4 DEF Run

\* cancelExec(): the command leaves the queue, or the process is told, or there is nothing to do.
LEMMA CancelExecIs ==
  ASSUME CoreInv, NEW c \in Commands, NEW k \in Calls, k = <<"cancel", c>>, CancelExec(k, c),
         Connected, call[k].pc # "cancelling",
         \A d \in Commands : call'[<<"run", d>>] = call[<<"run", d>>]
  PROVE  ClientKept(k)
  <1>1. /\ execQueue \in Seq(Commands) /\ IsInjective(execQueue)
        /\ Range(execQueue) \cap execRunning = {}
        /\ Len(execQueue) <= MaxExecQueue /\ outcome \in [Commands -> Outcomes]
        /\ execRunning \subseteq Commands /\ Range(execQueue) \subseteq Commands
    BY RangeOfSeq DEF CoreInv, QueuedInv
  <1>2. \A d \in Range(execQueue) \cup execRunning : There(SessionOf[d])
    BY DEF CoreInv, ThereInv
  <1>3. CASE UNCHANGED <<linkVars, execRunning, concurrency, pending, stopping, faults, poolVars>>
    <2>1. OwnInv'
      BY <1>3, PoolStays DEF CoreInv
    <2>2. LinkInv' /\ GoneInv'
      BY <1>3, LinkStays, GoneStays DEF poolVars
    <2>3. UNCHANGED <<execRunning, concurrency, pending, inbox, outbox, policy, replies, queue, main,
                      worker, active, freed, phase>>
      BY <1>3 DEF poolVars
    <2>4. FramesInv'
      BY <2>3 DEF CoreInv, FramesInv
    <2>5. /\ pending' \in Seq(RequestIds) /\ IsInjective(pending')
          /\ \A d \in Commands : <<"run", d>> \in Range(pending') <=> d \in execRunning'
      BY <2>3 DEF CoreInv, PendingInv
    <2>6. CASE UNCHANGED <<execQueue, outcome>>
      BY <1>2, <1>3, <2>1, <2>2, <2>3, <2>4, <2>5, <2>6, QueuedStays DEF CoreInv, KnownInv,
         ClientKept
    <2>7. CASE /\ c \in Range(execQueue) /\ execQueue' = Without(execQueue, c)
               /\ outcome' = [outcome EXCEPT ![c] = "cancelled"]
      <3>1. /\ execQueue' \in Seq(Commands) /\ Len(execQueue') <= Len(execQueue)
            /\ Range(execQueue') = Range(execQueue) \ {c} /\ IsInjective(execQueue')
        BY <1>1, <2>7, WithoutIs
      <3>2. /\ outcome' \in [Commands -> Outcomes] /\ outcome'[c] = "cancelled"
            /\ \A d \in Commands : d # c => outcome'[d] = outcome[d]
        BY <1>1, <2>7 DEF Outcomes
      <3>3. Len(execQueue') <= MaxExecQueue
        BY <1>1, <3>1, LenProperties, ClientAssumption
      <3>4. execQueue # <<>>
        BY <2>7, NoneIs
      <3>5. QueuedInv'
        BY <1>1, <2>3, <2>7, <3>1, <3>2, <3>3, <3>4 DEF CoreInv, QueuedInv
      <3>6. KnownInv'
        BY <2>3, <3>2 DEF CoreInv, KnownInv
      <3>7. \A d \in Range(execQueue') \cup execRunning' : There(SessionOf[d])
        BY <1>2, <2>3, <3>1
      <3> QED
        BY <1>3, <2>1, <2>2, <2>3, <2>4, <2>5, <3>5, <3>6, <3>7 DEF ClientKept
    <2> QED
      BY <1>3, <2>6, <2>7 DEF CancelExec, execVars, clientVars, poolVars, linkVars
  <1>4. CASE /\ c \in execRunning
             /\ Sent(<<Request("cancel", k, c, SessionOf[c], NoPolicy)>>)
             /\ UNCHANGED <<linkVars, execVars, stopping, outcome, faults, outbox>>
    <2> DEFINE r == Request("cancel", k, c, SessionOf[c], NoPolicy)
    <2>1. /\ r \in Requests /\ r.id = <<"cancel", k>> /\ r.id[1] = "cancel" /\ r.command = c
      BY PoolAssumption, CallsAre DEF Request, Requests, Ops, RequestIds
    <2>2. r.id \notin Range(pending)
      BY <2>1, CallsAre DEF CoreInv, PendingInv
    <2>3. Sent(<<r>>)
      BY <1>4
    <2> HIDE DEF r
    <2>4. Sound(r)
      BY <2>1 DEF Sound
    <2>5. UNCHANGED <<linkVars, execQueue, execRunning, concurrency, stopping, outcome, faults, outbox>>
      BY <1>4 DEF execVars
    <2>6. /\ pending' \in Seq(RequestIds) /\ IsInjective(pending')
          /\ Range(pending') = Range(pending) \cup {r.id}
          /\ Range(inbox') \subseteq Range(inbox) \cup {r}
          /\ inbox # <<>> => inbox' # <<>> /\ inbox'[1] = inbox[1]
          /\ ~Alive => inbox' = inbox
          /\ FramesInv' /\ OwnInv'
      BY <2>1, <2>2, <2>3, <2>4, <2>5, OneSent
    <2>7. UNCHANGED <<policy, queue, active, raised, worker, main, freed, phase, replies>>
      BY <2>3 DEF Sent
    <2>8. LinkInv' /\ GoneInv'
      BY <2>5, <2>6, <2>7, LinkStays, GoneStays
    <2>9. QueuedInv'
      BY <2>5, QueuedStays
    <2>10. KnownInv'
      BY <2>5, <2>7 DEF CoreInv, KnownInv
    <2>11. \A d \in Commands : <<"run", d>> \in Range(pending') <=> d \in execRunning'
      <3>1. \A d \in Commands : <<"run", d>> # r.id
        BY <2>1
      <3>2. \A d \in Commands : <<"run", d>> \in Range(pending) <=> d \in execRunning
        BY DEF CoreInv, PendingInv
      <3> QED
        BY <2>5, <2>6, <3>1, <3>2
    <2>12. \A d \in Range(execQueue') \cup execRunning' : There(SessionOf[d])
      BY <1>2, <2>5
    <2>13. \A x \in Range(inbox') : x \in Range(inbox) \/ x.id[1] \in {"run", "cancel"}
      BY <2>1, <2>6
    <2>14. /\ \A id \in Range(pending') : id \in Range(pending) \/ id = <<"cancel", k>>
           /\ \A id \in Range(pending) : id \in Range(pending')
      BY <2>1, <2>6
    <2>15. k[1] = "cancel" /\ After(k) = "cancelling"
      BY <1>4 DEF After
    <2> QED
      BY <2>5, <2>6, <2>7, <2>8, <2>9, <2>10, <2>11, <2>12, <2>13, <2>14, <2>15 DEF ClientKept
  <1> QED
    BY <1>3, <1>4 DEF CancelExec, execVars

\* The call does what it came for.
LEMMA ProceedIs ==
  ASSUME CoreInv, NEW k \in Calls, k[1] # "change", Proceed(k), Connected,
         There(call[k].session), Moves(k), call'[k].pc = After(k), call'[k].want = call[k].want,
         call[k].pc \in {"meta", "configuring", "joining"},
         call[k].pc = "configuring" => k \in Woken,
         k \notin Woken', \A l \in Woken' : l \in Woken \/ call[l].pc = "joining"
  PROVE  ClientKept(k) /\ PendingInv' /\ ContentsInv'
  <1> DEFINE c == k[2]
  <1>1. c \in Commands /\ (k = <<"run", c>> \/ k = <<"cancel", c>>) /\ k \in Callers
        /\ call[k].session = SessionOf[c]
    BY CallsAre DEF CoreInv, CallsInv
  <1>2. \A l \in Calls \ {k} : call'[l] = call[l]
    BY DEF Moves
  <1>d. call[k].pc # "done"
    OBVIOUS
  <1> HIDE DEF c
  <1>3. ClientKept(k)
    <2>1. CASE k = <<"run", c>>
      <3>1. Run(c) /\ call'[<<"run", c>>].pc = "done"
        BY <2>1 DEF Proceed, After
      <3>2. \A d \in Commands : d # c => call'[<<"run", d>>] = call[<<"run", d>>]
        BY <1>2, <2>1, CallsAre
      <3>3. call[<<"run", c>>].pc # "done"
        BY <1>d, <2>1
      <3> HIDE DEF c
      <3> QED
        BY <1>1, <2>1, <3>1, <3>2, <3>3, RunIs
    <2>2. CASE k = <<"cancel", c>>
      <3>1. CancelExec(k, c)
        BY <2>2 DEF Proceed
      <3>2. \A d \in Commands : call'[<<"run", d>>] = call[<<"run", d>>]
        BY <1>2, <2>2, CallsAre
      <3> HIDE DEF c
      <3> QED
        BY <1>1, <2>2, <3>1, <3>2, CancelExecIs
    <2> QED
      BY <1>1, <2>1, <2>2
  <1> HIDE DEF c
  <1>4. /\ \A id \in Range(pending') :
              \/ id[1] = "run" \/ id \in Range(pending)
              \/ id = <<"cancel", k>> /\ k[1] = "cancel" /\ After(k) = "cancelling"
        /\ \A id \in Range(pending) : id[1] # "run" => id \in Range(pending')
        /\ pending' \in Seq(RequestIds) /\ IsInjective(pending')
        /\ \A d \in Commands : <<"run", d>> \in Range(pending') <=> d \in execRunning'
        /\ UNCHANGED <<outbox, replies, linkVars, stopping, faults>>
    BY <1>3 DEF ClientKept
  <1>5. PendingInv'
    <2>1. <<"configure", k>> \notin Range(pending) /\ <<"cancel", k>> \notin Range(pending)
      BY <1>1 DEF CoreInv, PendingInv
    <2>2. /\ \A l \in Callers : <<"configure", l>> \in Range(pending) =>
               l \in Calls \ Woken' /\ call'[l].pc = "configuring"
          /\ \A l \in Callers : <<"cancel", l>> \in Range(pending) =>
               l \in Calls \ Woken' /\ call'[l].pc = "cancelling" /\ l[1] = "cancel"
      BY <1>2, <2>1, MovedPending
    <2>3. \A l \in Callers : <<"configure", l>> \in Range(pending') => <<"configure", l>> \in Range(pending)
      <3> TAKE l \in Callers
      <3>1. <<"configure", l>>[1] = "configure" /\ <<"configure", l>> # <<"cancel", k>>
        OBVIOUS
      <3> QED
        BY <1>4, <3>1
    <2>4. \A l \in Callers : <<"cancel", l>> \in Range(pending') =>
             \/ <<"cancel", l>> \in Range(pending)
             \/ l = k /\ k[1] = "cancel" /\ call'[k].pc = "cancelling"
      <3> TAKE l \in Callers
      <3>1. <<"cancel", l>>[1] = "cancel" /\ (<<"cancel", l>> = <<"cancel", k>> => l = k)
        OBVIOUS
      <3> QED
        BY <1>4, <3>1
    <2>5. \A l \in Callers : <<"ping", l>> \in Range(pending') <=> <<"ping", l>> \in Range(pending)
      <3> TAKE l \in Callers
      <3>1. <<"ping", l>>[1] = "ping" /\ <<"ping", l>> # <<"cancel", k>>
        OBVIOUS
      <3> QED
        BY <1>4, <3>1
    <2>6. Connected' = Connected /\ ready' = ready
      BY <1>4, LinkStays
    <2>7. Ping \in Range(pending') <=> Connected' /\ ~ready'
      BY <2>5, <2>6, CallsAre DEF Ping, CoreInv, PendingInv
    <2>8. \A l \in Callers : <<"ping", l>> \in Range(pending') => l = Client
      BY <2>5 DEF CoreInv, PendingInv
    <2>9. \A l \in Callers : <<"configure", l>> \in Range(pending') =>
             l \in Calls \ Woken' /\ call'[l].pc = "configuring"
      BY <2>2, <2>3
    <2>10. \A l \in Callers : <<"cancel", l>> \in Range(pending') =>
             l \in Calls \ Woken' /\ call'[l].pc = "cancelling" /\ l[1] = "cancel"
      BY <2>2, <2>4
    <2> QED
      BY <1>4, <2>7, <2>8, <2>9, <2>10 DEF PendingInv
  <1>6. ContentsInv'
    <2>1. \A l \in Calls : call'[l].session = call[l].session /\ call'[l].want = call[l].want
      BY <1>2 DEF Moves
    <2>2. ASSUME NEW x \in Range(inbox'), NEW l \in Calls, x.id = <<"configure", l>>
          PROVE  x.session = call'[l].session /\ x.policy = call'[l].want
      BY <1>3, <2>1, <2>2 DEF ClientKept, CoreInv, ContentsInv
    <2>3. \A x \in Range(outbox'), d \in Commands : x.id = <<"run", d>> =>
             replies'[d] = 1 /\ x.answer \in {"result", "cancelled", "failed", "refused"}
      BY <1>4 DEF CoreInv, ContentsInv
    <2> QED
      BY <2>2, <2>3 DEF ContentsInv
  <1> QED
    BY <1>3, <1>5, <1>6

\* What the promises say after a step, when those that are left were true before.
LEMMA PromisesKept ==
  ASSUME CoreInv, NEW k \in Calls, Moves(k), NEW m, Range(m) \subseteq Range(micro),
         CallsOf(m) = Woken \ {k}, \A x \in Range(m) : Range(micro) # {x},
         NEW a, \A x \in Range(micro') : \/ x \in Range(m)
                                         \/ /\ x.answer = a /\ x.call \in Range(call[k].joined),
         Range(m) = {} \/ (Connected' = Connected /\ Alive' = Alive /\ policy' = policy),
         a = "ok" => Connected' /\ (Alive' => policy'[call[k].session] # NoPolicy)
  PROVE  /\ SettledInv'
         /\ \A x \in Range(micro') :
               x.answer = "ok" /\ call'[x.call].pc \in {"joining", "configuring"} =>
                  There(call[x.call].session)'
  <1>1. ASSUME NEW x \in Range(m)
        PROVE  x \in Range(micro) /\ x.call \in Calls /\ call'[x.call] = call[x.call]
    BY MicroIs DEF CallsOf, Moves, CoreInv
  <1>2. ASSUME NEW l \in Range(call[k].joined)
        PROVE  l \in Calls /\ call'[l] = call[l] /\ call[l].pc = "joining"
               /\ call[l].session = call[k].session
    <2>1. l \in Calls /\ l # k
      BY <1>2, CallIs
    <2>2. call[l].pc = "joining" /\ call[l].session = call[k].session
      BY <1>2 DEF CoreInv, JoinedInv
    <2> QED
      BY <2>1, <2>2 DEF Moves
  <1>3. \A l \in Calls : call'[l].session = call[l].session
    BY DEF Moves
  <1>4. ASSUME NEW x \in Range(micro')
        PROVE  /\ x.answer = "ok" => Connected'
               /\ ~(x.answer = "ok" /\ call'[x.call].pc = "configuring")
               /\ x.answer = "lost" /\ call'[x.call].pc = "configuring" => ~Connected'
               /\ x.answer = "ok" /\ call'[x.call].pc \in {"joining", "configuring"} =>
                  (Alive' => policy'[call'[x.call].session] # NoPolicy)
    <2>1. CASE x \in Range(m)
      BY <1>1, <2>1 DEF CoreInv, SettledInv, ThereInv, There
    <2>2. CASE x.answer = a /\ x.call \in Range(call[k].joined)
      BY <1>2, <2>2
    <2> QED
      BY <2>1, <2>2
  <1>5. SettledInv'
    BY <1>4 DEF SettledInv
  <1>6. ASSUME NEW x \in Range(micro')
        PROVE  x.call \in Calls
    BY <1>1, <1>2, <1>6
  <1>7. ASSUME NEW x \in Range(micro'),
               x.answer = "ok" /\ call'[x.call].pc \in {"joining", "configuring"}
        PROVE  Alive' => policy'[call'[x.call].session] # NoPolicy
    BY <1>4, <1>7
  <1> QED
    BY <1>5, <1>7 DEF There

\* The other parts of ThereInv, when the process and the frames stay.
LEMMA RestThere ==
  ASSUME CoreInv, \A l \in Calls : call'[l].session = call[l].session,
         UNCHANGED <<policy, outbox>>, Alive' = Alive,
         \A s \in configured' : There(s), \A c \in Range(execQueue') \cup execRunning' : There(SessionOf[c]),
         \A x \in Range(micro') :
            x.answer = "ok" /\ call'[x.call].pc \in {"joining", "configuring"} =>
               There(call[x.call].session)'
  PROVE  ThereInv'
  <1>1. \A s : There(s) => There(s)'
    BY DEF There
  <1>2. \A s \in configured' : There(s)'
    BY <1>1
  <1>3. \A c \in Range(execQueue') \cup execRunning' : There(SessionOf[c])'
    BY <1>1
  <1>4. \A x \in Range(outbox'), k \in Calls : x.id = <<"configure", k>> => There(call[k].session)'
    BY DEF CoreInv, ThereInv, There
  <1> QED
    BY <1>2, <1>3, <1>4 DEF ThereInv

\* The calls that do what they came for: at once, or when the policy is there.
LEMMA ProceedKeeps ==
  ASSUME CoreInv, NEW k \in Calls, k[1] # "change", Proceed(k), Connected,
         There(call[k].session), Moves(k), call'[k].pc = After(k), call'[k].want = call[k].want,
         call[k].pc \in {"meta", "configuring", "joining"},
         call[k].pc = "configuring" => k \in Woken,
         NEW m \in Seq(Promise), IsInjective(m), Range(m) \subseteq Range(micro),
         CallsOf(m) = Woken \ {k}, \A x \in Range(m) : Range(micro) # {x},
         \/ micro' = m /\ call'[k].joined = call[k].joined /\ ~Underway(k)
         \/ micro' = m \o Continues(call[k].joined, "ok") /\ call'[k].joined = <<>>,
         configured' \in {configured, configured \cup {call[k].session}},
         \A s \in Sessions : configuring'[s] # NoCall =>
             configuring'[s] = configuring[s] /\ configuring[s] # k,
         configuring' \in [Sessions -> Calls \cup {NoCall}],
         UNCHANGED <<desired, cancelled, mixed>>
  PROVE  CoreInv' /\ Steady
  <1>1. After(k) \in {"cancelling", "done"} /\ "ok" \in Answers
    BY DEF After, Answers
  <1>2. call[k].session \in Sessions
    BY CallIs
  <1>3. UNCHANGED <<starters, ready>>
    BY DEF Proceed, Run, CancelExec, Kick, Launch, linkVars
  <1>4. \A s \in Sessions : configuring'[s] # NoCall =>
             configuring'[s] = configuring[s] /\ (configuring[s] = k => Underway(k)')
    OBVIOUS
  <1>5. /\ PlacesInv' /\ JoinedInv' /\ k \notin Woken'
        /\ \A l \in Woken' : l \in Woken \/ call[l].pc = "joining"
        /\ \A x \in Range(micro') : \/ x \in Range(m)
                                    \/ /\ x.answer = "ok" /\ x.call \in Range(call[k].joined)
    BY <1>1, <1>3, <1>4, GoesOn
  <1>6. ClientKept(k) /\ PendingInv' /\ ContentsInv'
    BY <1>5, ProceedIs
  <1>7. /\ OwnInv' /\ LinkInv' /\ GoneInv' /\ QueuedInv' /\ KnownInv' /\ FramesInv'
        /\ UNCHANGED <<linkVars, stopping, faults, outbox, policy>>
        /\ \A c \in Range(execQueue') \cup execRunning' : There(SessionOf[c])
    BY <1>6 DEF ClientKept
  <1>8. Connected' = Connected /\ Alive' = Alive
    BY <1>7, LinkStays
  <1>9. CallsInv'
    BY <1>1, <1>2, MovedCalls DEF CoreInv, CallsInv, Underway
  <1>10. /\ SettledInv'
         /\ \A x \in Range(micro') :
               x.answer = "ok" /\ call'[x.call].pc \in {"joining", "configuring"} =>
                  There(call[x.call].session)'
    BY <1>5, <1>7, <1>8, PromisesKept DEF There
  <1>11. ThereInv'
    BY <1>7, <1>8, <1>10, RestThere DEF CoreInv, ThereInv, Moves
  <1>12. Steady
    BY <1>6, <1>8 DEF ClientKept, Steady, linkVars
  <1> QED
    BY <1>5, <1>6, <1>7, <1>9, <1>10, <1>11, <1>12 DEF CoreInv

\* What becomes of a call: another step; another step, and nobody waits for it any more; and it
\* joins another one.
LEMMA StepsTo ==
  ASSUME call \in [Calls -> Call], NEW k \in Calls, NEW pc \in Steps,
         call' = [call EXCEPT ![k].pc = pc]
  PROVE  /\ call' \in [Calls -> Call] /\ \A l \in Calls \ {k} : call'[l] = call[l]
         /\ call'[k].pc = pc /\ call'[k].session = call[k].session /\ call'[k].want = call[k].want
         /\ call'[k].joined = call[k].joined /\ call'[k].second = call[k].second
  BY DEF Call

LEMMA StepsAlone ==
  ASSUME call \in [Calls -> Call], NEW k \in Calls, NEW pc \in Steps,
         call' = [call EXCEPT ![k].pc = pc, ![k].joined = <<>>]
  PROVE  /\ call' \in [Calls -> Call] /\ \A l \in Calls \ {k} : call'[l] = call[l]
         /\ call'[k].pc = pc /\ call'[k].session = call[k].session
         /\ call'[k].want = call[k].want /\ call'[k].joined = <<>>
  BY NoneIs DEF Call

\* A call joins the one that is sending the policy.
Joins(k, f) == call' = [call EXCEPT ![k].pc = "joining", ![f].joined = Append(@, k)]

LEMMA OneJoins ==
  ASSUME call \in [Calls -> Call], NEW k \in Calls, NEW f \in Calls, f # k,
         Append(call[f].joined, k) \in Seq(Calls),
         Joins(k, f)
  PROVE  /\ call' \in [Calls -> Call] /\ \A l \in Calls \ {k, f} : call'[l] = call[l]
         /\ call'[k].pc = "joining" /\ call'[k].joined = call[k].joined
         /\ call'[k].want = call[k].want /\ call'[k].session = call[k].session
         /\ call'[f].pc = call[f].pc /\ call'[f].want = call[f].want
         /\ call'[f].session = call[f].session /\ call'[f].joined = Append(call[f].joined, k)
  <1> DEFINE a == [call[k] EXCEPT !.pc = "joining"]
             b == [call[f] EXCEPT !.joined = Append(call[f].joined, k)]
             mid == [call EXCEPT ![k] = a]
  <1>1. call' = [mid EXCEPT ![f] = b] /\ call[k] \in Call /\ call[f] \in Call
    BY DEF Joins
  <1>2. /\ a \in Call /\ a.pc = "joining" /\ a.joined = call[k].joined
        /\ a.want = call[k].want /\ a.session = call[k].session
    BY <1>1 DEF Call, Steps
  <1>3. /\ b \in Call /\ b.pc = call[f].pc /\ b.want = call[f].want
        /\ b.session = call[f].session /\ b.joined = Append(call[f].joined, k)
    BY <1>1 DEF Call
  <1> HIDE DEF a, b
  <1>4. mid \in [Calls -> Call] /\ mid[k] = a /\ \A l \in Calls \ {k} : mid[l] = call[l]
    BY <1>2
  <1> HIDE DEF mid
  <1>5. /\ call' \in [Calls -> Call] /\ call'[k] = a /\ call'[f] = b
        /\ \A l \in Calls \ {k, f} : call'[l] = call[l]
    BY <1>1, <1>3, <1>4
  <1> QED
    BY <1>2, <1>3, <1>5

\* A call that goes to another step, and nothing else about it changes.
LEMMA GotoIs ==
  ASSUME CoreInv, NEW k \in Calls, NEW pc \in Steps, Goto(k, pc)
  PROVE  /\ call' \in [Calls -> Call] /\ \A l \in Calls \ {k} : call'[l] = call[l]
         /\ call'[k].pc = pc /\ call'[k].session = call[k].session /\ call'[k].want = call[k].want
         /\ call'[k].joined = call[k].joined /\ call'[k].second = call[k].second
         /\ (\A m \in Calls : k \notin Range(call[m].joined)) => Moves(k)
  <1>1. call \in [Calls -> Call] /\ call' = [call EXCEPT ![k].pc = pc]
    BY DEF Goto, CoreInv, CallsInv
  <1>2. /\ call' \in [Calls -> Call] /\ \A l \in Calls \ {k} : call'[l] = call[l]
        /\ call'[k].pc = pc /\ call'[k].session = call[k].session /\ call'[k].want = call[k].want
        /\ call'[k].joined = call[k].joined /\ call'[k].second = call[k].second
    BY <1>1, StepsTo
  <1> QED
    BY <1>2 DEF Moves

\* Nobody waits for a call that is not under way, and it waits for nobody.
LEMMA AloneIs ==
  ASSUME CoreInv, NEW k \in Calls, call[k].pc # "joining"
  PROVE  \A m \in Calls : k \notin Range(call[m].joined)
  BY DEF CoreInv, JoinedInv

LEMMA AfterIs == \A k : After(k) \in {"cancelling", "done"} /\ After(k) \in Steps
  BY DEF After, Steps

\* A call that joined another one goes on.
LEMMA JoinedKeep ==
  ASSUME CoreInv, ContinueJoined
  PROVE  CoreInv' /\ Steady
  <1> DEFINE k == Settled.call
             m == Tail(micro)
  <1>1. /\ micro # <<>> /\ call[k].pc = "joining" /\ Settled.answer = "ok"
        /\ Proceed(k) /\ Goto(k, After(k)) /\ micro' = m
        /\ UNCHANGED <<desired, configured, configuring, cancelled, mixed>>
    BY DEF ContinueJoined, Going
  <1>2. /\ Settled \in Range(micro) /\ k \in Calls /\ k \in Woken
        /\ m \in Seq(Promise) /\ IsInjective(m) /\ Range(m) = Range(micro) \ {Settled}
        /\ CallsOf(m) = Woken \ {k} /\ \A l \in Calls : k \notin Range(call[l].joined)
    BY <1>1, SettledIs
  <1>3. Connected /\ There(call[k].session)
    BY <1>1, <1>2 DEF CoreInv, SettledInv, ThereInv
  <1> HIDE DEF k, m
  <1>4. /\ Moves(k) /\ call'[k].pc = After(k) /\ call'[k].want = call[k].want
        /\ call'[k].joined = call[k].joined
    BY <1>1, <1>2, GotoIs, AfterIs
  <1>5. ~Underway(k) /\ \A s \in Sessions : configuring[s] # NoCall => configuring[s] # k
    BY <1>1 DEF Underway, CoreInv, JoinedInv
  <1>6. \A x \in Range(m) : Range(micro) # {x}
    BY <1>2
  <1>7. k[1] # "change"
    BY <1>1 DEF Proceed
  <1>8. configuring' \in [Sessions -> Calls \cup {NoCall}]
    BY <1>1 DEF CoreInv, CallsInv
  <1> QED
    BY <1>1, <1>2, <1>3, <1>4, <1>5, <1>6, <1>7, <1>8, ProceedKeeps

\* The call that sent the policy goes on, and those who joined it may.
LEMMA ConfiguredKeep ==
  ASSUME CoreInv, ContinueConfigured
  PROVE  CoreInv' /\ Steady
  <1> DEFINE k == Settled.call
             m == Tail(micro)
  <1>1. /\ micro # <<>> /\ call[k].pc = "configuring" /\ Settled.answer = "ok" /\ k[1] # "change"
        /\ Proceed(k) /\ call' = [call EXCEPT ![k].pc = After(k), ![k].joined = <<>>]
        /\ configured' = configured \cup {call[k].session}
        /\ configuring' = [s \in Sessions |-> IF configuring[s] = k THEN NoCall ELSE configuring[s]]
        /\ micro' = m \o Continues(call[k].joined, "ok")
        /\ UNCHANGED <<desired, cancelled, mixed>>
    BY DEF ContinueConfigured, Going
  <1>2. /\ Settled \in Range(micro) /\ k \in Calls /\ k \in Woken
        /\ m \in Seq(Promise) /\ IsInjective(m) /\ Range(m) = Range(micro) \ {Settled}
        /\ CallsOf(m) = Woken \ {k} /\ \A l \in Calls : k \notin Range(call[l].joined)
    BY <1>1, SettledIs
  <1>3. Connected /\ There(call[k].session)
    BY <1>1, <1>2 DEF CoreInv, SettledInv, ThereInv
  <1> HIDE DEF k, m
  <1>4. /\ call' \in [Calls -> Call] /\ \A l \in Calls \ {k} : call'[l] = call[l]
        /\ call'[k].pc = After(k) /\ call'[k].session = call[k].session
        /\ call'[k].want = call[k].want /\ call'[k].joined = <<>>
    <2>1. call \in [Calls -> Call] /\ After(k) \in Steps
      BY AfterIs DEF CoreInv, CallsInv
    <2> QED
      BY <1>1, <1>2, <2>1, StepsAlone
  <1>5. Moves(k)
    BY <1>2, <1>4 DEF Moves
  <1>6. \A x \in Range(m) : Range(micro) # {x}
    BY <1>2
  <1>7. /\ configuring' \in [Sessions -> Calls \cup {NoCall}]
        /\ \A s \in Sessions : configuring'[s] # NoCall =>
              configuring'[s] = configuring[s] /\ configuring[s] # k
    BY <1>1 DEF CoreInv, CallsInv
  <1> QED
    BY <1>1, <1>2, <1>3, <1>4, <1>5, <1>6, <1>7, ProceedKeeps

\* A call that is not told anything is not among those that are.
LEMMA AsleepIs ==
  ASSUME CoreInv, NEW k \in Calls, call[k].pc \in {"new", "meta", "proxy", "answered", "done"}
  PROVE  /\ k \notin Woken /\ CallsOf(micro) = Woken \ {k}
         /\ micro \in Seq(Promise) /\ IsInjective(micro)
         /\ \A m \in Calls : k \notin Range(call[m].joined)
         /\ k \notin Range(starters)
         /\ <<"configure", k>> \notin Range(pending) /\ <<"cancel", k>> \notin Range(pending)
  <1>1. k \notin Woken /\ k \notin Range(starters)
    BY DEF CoreInv, PlacesInv
  <1>2. CallsOf(micro) = Woken
    BY DEF CallsOf, Woken
  <1>3. <<"configure", k>> \notin Range(pending) /\ <<"cancel", k>> \notin Range(pending)
    BY CallsAre DEF CoreInv, PendingInv
  <1>4. micro \in Seq(Promise) /\ IsInjective(micro)
    BY DEF CoreInv, PlacesInv
  <1> QED
    BY <1>1, <1>2, <1>3, <1>4, AloneIs

\* A call whose session is known to be configured.
LEMMA KnownKeep ==
  ASSUME CoreInv, NEW k \in Calls, k[1] # "change", call[k].pc = "meta", micro = <<>>,
         call[k].session \in configured, Proceed(k), Goto(k, After(k)),
         UNCHANGED <<desired, configured, configuring, cancelled, mixed, micro>>
  PROVE  CoreInv' /\ Steady
  <1>1. Connected /\ There(call[k].session)
    BY DEF CoreInv, GoneInv, ThereInv
  <1>2. /\ k \notin Woken /\ CallsOf(micro) = Woken \ {k}
        /\ micro \in Seq(Promise) /\ IsInjective(micro) /\ Range(micro) = {}
        /\ \A m \in Calls : k \notin Range(call[m].joined)
    BY AsleepIs, NoneIs
  <1>3. /\ Moves(k) /\ call'[k].pc = After(k) /\ call'[k].want = call[k].want
        /\ call'[k].joined = call[k].joined
    BY <1>2, GotoIs, AfterIs
  <1>4. ~Underway(k) /\ \A s \in Sessions : configuring[s] # NoCall => configuring[s] # k
    BY DEF Underway, CoreInv, JoinedInv
  <1>5. configuring' \in [Sessions -> Calls \cup {NoCall}]
    BY DEF CoreInv, CallsInv
  <1>6. micro' = micro
    OBVIOUS
  <1>7. Range(micro) \subseteq Range(micro) /\ \A x \in Range(micro) : Range(micro) # {x}
    BY <1>2
  <1>8. configured' \in {configured, configured \cup {call[k].session}}
    OBVIOUS
  <1> QED
    BY <1>1, <1>2, <1>3, <1>4, <1>5, <1>6, <1>7, <1>8, ProceedKeeps

LEMMA MoreFaults ==
  ASSUME CoreInv, UNCHANGED <<linkVars, stopping>>, faults' \in {faults, faults + 1} \cap 0..MaxFaults
  PROVE  LinkInv' /\ Connected' = Connected /\ Alive' = Alive /\ ready' = ready
  <1>1. LinkInv
    BY DEF CoreInv
  <1>2. UNCHANGED <<generation, failed, ready, timers, armed, children, closing>>
    BY DEF linkVars
  <1>3. Connected' = Connected /\ Alive' = Alive
    BY <1>2 DEF Connected, Alive
  <1>4. generation <= faults' + 1 /\ (~stopping /\ ~(Connected /\ Alive) => generation <= faults')
    <2>1. /\ generation \in Nat /\ faults \in Nat /\ generation <= faults + 1
          /\ ~stopping /\ ~(Connected /\ Alive) => generation <= faults
      BY <1>1 DEF LinkInv
    <2>2. faults' \in Nat /\ faults <= faults'
      BY <2>1
    <2>3. \A g, f, h \in Nat : f <= h => (g <= f + 1 => g <= h + 1) /\ (g <= f => g <= h)
      OBVIOUS
    <2> QED
      BY <2>1, <2>2, <2>3, Zenon
  <1> QED
    BY <1>1, <1>2, <1>3, <1>4 DEF LinkInv

\* The calls go on, and the client is not concerned.
LEMMA ServerOnly ==
  ASSUME CoreInv, NEW k \in Calls, Moves(k), call'[k].want = call[k].want,
         UNCHANGED <<linkVars, execVars, pending, stopping, poolVars>>,
         faults' \in {faults, faults + 1} \cap 0..MaxFaults,
         <<"configure", k>> \notin Range(pending), <<"cancel", k>> \notin Range(pending),
         call[k].pc # "done",
         \A l \in Woken' : l \in Woken \/ call[l].pc = "joining",
         \/ outcome' = outcome
         \/ /\ k[1] = "run" /\ call'[k].pc = "done"
            /\ outcome' = [outcome EXCEPT ![k[2]] = "lost"],
         configured' = configured \/ Connected
  PROVE  /\ OwnInv' /\ LinkInv' /\ GoneInv' /\ QueuedInv' /\ KnownInv' /\ PendingInv'
         /\ FramesInv' /\ ContentsInv'
         /\ UNCHANGED <<execQueue, execRunning, policy, outbox, starters, ready>>
         /\ Connected' = Connected /\ Alive' = Alive
         /\ \A c \in Range(execQueue') \cup execRunning' : There(SessionOf[c])
  <1>1. /\ UNCHANGED <<execQueue, execRunning, concurrency, pending>>
        /\ UNCHANGED <<inbox, outbox, policy, queue, active, raised, worker, main, freed, phase, replies>>
        /\ UNCHANGED <<linkVars, stopping, poolVars, starters, ready>>
    BY DEF execVars, poolVars, linkVars
  <1>2. OwnInv'
    BY <1>1, PoolStays DEF CoreInv
  <1>3. LinkInv' /\ Connected' = Connected /\ Alive' = Alive /\ ready' = ready
    BY <1>1, MoreFaults
  <1>4. GoneInv'
    BY <1>1, <1>3 DEF CoreInv, GoneInv
  <1>5. \A l \in Calls \ {k} : call'[l] = call[l]
    BY DEF Moves
  <1>6. FramesInv'
    BY <1>1 DEF CoreInv, FramesInv
  <1>7. \A l \in Calls : call'[l].session = call[l].session /\ call'[l].want = call[l].want
    BY <1>5 DEF Moves
  <1>8. ContentsInv'
    BY <1>1, <1>7 DEF CoreInv, ContentsInv
  <1>9. /\ \A l \in Callers : <<"configure", l>> \in Range(pending) =>
               l \in Calls \ Woken' /\ call'[l].pc = "configuring"
        /\ \A l \in Callers : <<"cancel", l>> \in Range(pending) =>
               l \in Calls \ Woken' /\ call'[l].pc = "cancelling" /\ l[1] = "cancel"
    BY <1>5, MovedPending
  <1>10. PendingInv'
    BY <1>1, <1>3, <1>9 DEF CoreInv, PendingInv
  <1>11. \A c \in Commands : call[<<"run", c>>].pc = "done" => call'[<<"run", c>>].pc = "done"
    BY <1>5, CallsAre
  <1>12. QueuedInv' /\ KnownInv'
    <2>1. CASE outcome' = outcome
      BY <1>1, <1>11, <2>1, QueuedStays, SameKnown
    <2>2. CASE /\ k[1] = "run" /\ call'[k].pc = "done"
               /\ outcome' = [outcome EXCEPT ![k[2]] = "lost"]
      <3> DEFINE c == k[2]
      <3>1. c \in Commands /\ k = <<"run", c>>
        BY <2>2, CallsAre
      <3>2. /\ outcome \in [Commands -> Outcomes] /\ c \notin Range(execQueue) \cup execRunning
            /\ Range(execQueue) \cup execRunning \subseteq Commands
        BY <3>1, RangeOfSeq DEF CoreInv, QueuedInv
      <3> HIDE DEF c
      <3>3. /\ outcome' \in [Commands -> Outcomes] /\ outcome'[c] = "lost"
            /\ \A d \in Commands : d # c => outcome'[d] = outcome[d]
        BY <2>2, <3>1, <3>2 DEF Outcomes, c
      <3>4. \A d \in Range(execQueue) \cup execRunning :
               call'[<<"run", d>>].pc = "done" /\ outcome'[d] = "none"
        <4>1. \A d \in Range(execQueue) \cup execRunning :
                 d \in Commands /\ d # c /\ call[<<"run", d>>].pc = "done" /\ outcome[d] = "none"
          BY <3>2 DEF CoreInv, QueuedInv
        <4>2. ASSUME NEW d \in Range(execQueue) \cup execRunning
              PROVE  call'[<<"run", d>>].pc = "done" /\ outcome'[d] = "none"
          <5>1. d \in Commands /\ d # c /\ call[<<"run", d>>].pc = "done" /\ outcome[d] = "none"
            BY <4>1, <4>2
          <5> QED
            BY <1>11, <3>3, <5>1
        <4> QED
          BY <4>2
      <3>5. \A d \in Commands : outcome'[d] # "none" => call'[<<"run", d>>].pc = "done"
        BY <1>11, <2>2, <3>1, <3>3 DEF CoreInv, QueuedInv
      <3>6. QueuedInv'
        BY <1>1, <3>3, <3>4, <3>5 DEF CoreInv, QueuedInv
      <3>7. KnownInv'
        BY <1>1, <3>3 DEF CoreInv, KnownInv
      <3> QED
        BY <3>6, <3>7
    <2> QED
      BY <2>1, <2>2
  <1>13. \A c \in Range(execQueue') \cup execRunning' : There(SessionOf[c])
    BY <1>1 DEF CoreInv, ThereInv
  <1> QED
    BY <1>1, <1>2, <1>3, <1>4, <1>6, <1>8, <1>10, <1>12, <1>13

\* So it is with a call that goes on, and tells those who have joined it.
LEMMA ServerKeeps ==
  ASSUME CoreInv, NEW k \in Calls, Moves(k), call'[k].want = call[k].want,
         UNCHANGED <<linkVars, execVars, pending, stopping, poolVars>>,
         faults' \in {faults, faults + 1} \cap 0..MaxFaults,
         <<"configure", k>> \notin Range(pending), <<"cancel", k>> \notin Range(pending),
         call[k].pc # "done", call[k].pc # "starting" \/ k \in Woken,
         call'[k].pc \notin {"starting", "meta"},
         \/ outcome' = outcome
         \/ /\ k[1] = "run" /\ call'[k].pc = "done"
            /\ outcome' = [outcome EXCEPT ![k[2]] = "lost"],
         NEW a \in Answers \cup {"lost"},
         a = "ok" => Connected /\ There(call[k].session),
         NEW m \in Seq(Promise), IsInjective(m), Range(m) \subseteq Range(micro),
         CallsOf(m) = Woken \ {k}, \A x \in Range(m) : Range(micro) # {x},
         \/ micro' = m /\ call'[k].joined = call[k].joined /\ (Underway(k)' \/ ~Underway(k))
         \/ micro' = m \o Continues(call[k].joined, a) /\ call'[k].joined = <<>>,
         \/ configured' = configured
         \/ configured' = configured \cup {call[k].session} /\ Connected /\ There(call[k].session),
         Underway(k)' => Underway(k),
         \A s \in Sessions : configuring'[s] # NoCall =>
             configuring'[s] = configuring[s] /\ (configuring[s] = k => Underway(k)'),
         configuring' \in [Sessions -> Calls \cup {NoCall}],
         desired' \in [Sessions -> Policies \cup {NoPolicy}], mixed' \in BOOLEAN,
         UNCHANGED cancelled
  PROVE  CoreInv'
  <1>1. UNCHANGED <<linkVars, execVars, pending, stopping, poolVars, starters, ready>>
    BY DEF linkVars
  <1>2. /\ PlacesInv' /\ JoinedInv' /\ k \notin Woken'
        /\ \A l \in Woken' : l \in Woken \/ call[l].pc = "joining"
        /\ \A x \in Range(micro') : \/ x \in Range(m)
                                    \/ /\ x.answer = a /\ x.call \in Range(call[k].joined)
    <2>1. \A s \in Sessions : configuring'[s] # NoCall =>
             \/ configuring'[s] = configuring[s] /\ (configuring[s] = k => Underway(k)')
             \/ configuring'[s] = k /\ Underway(k)' /\ call[k].session = s /\ k[1] # "change"
      OBVIOUS
    <2>2. UNCHANGED <<starters, ready>>
      BY <1>1
    <2>3. call'[k].pc # "starting"
      OBVIOUS
    <2> QED
      BY <2>1, <2>2, <2>3, GoesOn, ZenonT(60)
  <1>3. /\ OwnInv' /\ LinkInv' /\ GoneInv' /\ QueuedInv' /\ KnownInv' /\ PendingInv'
        /\ FramesInv' /\ ContentsInv'
        /\ UNCHANGED <<execQueue, execRunning, policy, outbox, starters, ready>>
        /\ Connected' = Connected /\ Alive' = Alive
        /\ \A c \in Range(execQueue') \cup execRunning' : There(SessionOf[c])
    BY <1>1, <1>2, ServerOnly
  <1>4. CallsInv'
    BY CallIs, MovedCalls DEF CoreInv, CallsInv
  <1>5. /\ SettledInv'
        /\ \A x \in Range(micro') :
               x.answer = "ok" /\ call'[x.call].pc \in {"joining", "configuring"} =>
                  There(call[x.call].session)'
    BY <1>2, <1>3, PromisesKept DEF There
  <1>6. ThereInv'
    BY <1>3, <1>5, RestThere DEF CoreInv, ThereInv, Moves
  <1> QED
    BY <1>2, <1>3, <1>4, <1>5, <1>6 DEF CoreInv

(***************************************************************************)
(* Calls that fail and calls that go on.                                   *)
(***************************************************************************)

\* What it is to fail for a call.
LEMMA FailIs ==
  ASSUME CoreInv, NEW k \in Calls, FailCall(k), \A l \in Calls : k \notin Range(call[l].joined)
  PROVE  /\ Moves(k) /\ call'[k].pc = "done" /\ call'[k].joined = <<>>
         /\ call'[k].want = call[k].want /\ ~Underway(k)'
         /\ configuring' \in [Sessions -> Calls \cup {NoCall}]
         /\ \A s \in Sessions : configuring'[s] # NoCall =>
               configuring'[s] = configuring[s] /\ configuring[s] # k
         /\ \/ outcome' = outcome
            \/ /\ k[1] = "run" /\ call'[k].pc = "done"
               /\ outcome' = [outcome EXCEPT ![k[2]] = "lost"]
         /\ desired' \in [Sessions -> Policies \cup {NoPolicy}]
         /\ UNCHANGED <<desired, configured, cancelled>>
  <1>1. /\ call' = [call EXCEPT ![k].pc = "done", ![k].joined = <<>>]
        /\ configuring' = [s \in Sessions |-> IF configuring[s] = k THEN NoCall ELSE configuring[s]]
        /\ outcome' = (IF k[1] = "run" THEN [outcome EXCEPT ![k[2]] = "lost"] ELSE outcome)
        /\ UNCHANGED <<desired, configured, cancelled>>
    BY DEF FailCall
  <1>2. /\ call' \in [Calls -> Call] /\ \A l \in Calls \ {k} : call'[l] = call[l]
        /\ call'[k].pc = "done" /\ call'[k].session = call[k].session
        /\ call'[k].want = call[k].want /\ call'[k].joined = <<>>
    <2>1. call \in [Calls -> Call] /\ "done" \in Steps
      BY DEF CoreInv, CallsInv, Steps
    <2> QED
      BY <1>1, <2>1, StepsAlone
  <1>3. Moves(k) /\ ~Underway(k)'
    BY <1>2 DEF Moves, Underway
  <1>4. /\ configuring' \in [Sessions -> Calls \cup {NoCall}]
        /\ \A s \in Sessions : configuring'[s] # NoCall =>
              configuring'[s] = configuring[s] /\ configuring[s] # k
    BY <1>1 DEF CoreInv, CallsInv
  <1>5. \/ outcome' = outcome
        \/ /\ k[1] = "run" /\ call'[k].pc = "done"
           /\ outcome' = [outcome EXCEPT ![k[2]] = "lost"]
    BY <1>1, <1>2
  <1>6. desired' \in [Sessions -> Policies \cup {NoPolicy}]
    BY <1>1 DEF CoreInv, CallsInv
  <1> QED
    BY <1>1, <1>2, <1>3, <1>4, <1>5, <1>6

\* The session is looked up while the client stops.
LEMMA RefusedKeep ==
  ASSUME CoreInv, NEW k \in Calls, call[k].pc = "meta", micro = <<>>, FailCall(k),
         UNCHANGED <<linkVars, execVars, pending, stopping, mixed, faults, poolVars, micro>>
  PROVE  CoreInv'
  <1>1. /\ CallsOf(micro) = Woken \ {k}
        /\ micro \in Seq(Promise) /\ IsInjective(micro) /\ Range(micro) = {}
        /\ \A m \in Calls : k \notin Range(call[m].joined)
        /\ <<"configure", k>> \notin Range(pending) /\ <<"cancel", k>> \notin Range(pending)
    BY AsleepIs, NoneIs
  <1>2. /\ Moves(k) /\ call'[k].pc = "done" /\ call'[k].joined = <<>>
        /\ call'[k].want = call[k].want /\ ~Underway(k)'
        /\ configuring' \in [Sessions -> Calls \cup {NoCall}]
        /\ \A s \in Sessions : configuring'[s] # NoCall =>
              configuring'[s] = configuring[s] /\ configuring[s] # k
        /\ \/ outcome' = outcome
           \/ /\ k[1] = "run" /\ call'[k].pc = "done"
              /\ outcome' = [outcome EXCEPT ![k[2]] = "lost"]
        /\ desired' \in [Sessions -> Policies \cup {NoPolicy}]
        /\ UNCHANGED <<desired, configured, cancelled>>
    BY <1>1, FailIs
  <1>3. ~Underway(k) /\ call[k].joined = <<>>
    BY CallIs DEF Underway
  <1>4. micro' = micro /\ call'[k].joined = call[k].joined
    BY <1>2, <1>3
  <1>5. faults' \in {faults, faults + 1} \cap 0..MaxFaults /\ mixed' \in BOOLEAN
    BY DEF CoreInv, LinkInv, CallsInv
  <1>6. "lost" \in Answers \cup {"lost"} /\ \A x \in Range(micro) : Range(micro) # {x}
    BY <1>1
  <1> QED
    BY <1>1, <1>2, <1>3, <1>4, <1>5, <1>6, ServerKeeps

\* The proxy does not start.
LEMMA ProxyFailedKeeps ==
  ASSUME CoreInv, NEW k \in Calls, ProxyFailed(k)
  PROVE  CoreInv'
  <1>1. /\ micro = <<>> /\ call[k].pc = "proxy" /\ faults < MaxFaults /\ faults' = faults + 1
        /\ FailCall(k) /\ mixed' = (mixed \/ k[1] = "change")
        /\ micro' = Continues(call[k].joined, "lost")
        /\ UNCHANGED <<linkVars, execVars, pending, stopping, poolVars>>
    BY DEF ProxyFailed
  <1>2. /\ CallsOf(micro) = Woken \ {k}
        /\ micro \in Seq(Promise) /\ IsInjective(micro) /\ Range(micro) = {}
        /\ \A m \in Calls : k \notin Range(call[m].joined)
        /\ <<"configure", k>> \notin Range(pending) /\ <<"cancel", k>> \notin Range(pending)
    BY <1>1, AsleepIs, NoneIs
  <1>3. /\ Moves(k) /\ call'[k].pc = "done" /\ call'[k].joined = <<>>
        /\ call'[k].want = call[k].want /\ ~Underway(k)'
        /\ configuring' \in [Sessions -> Calls \cup {NoCall}]
        /\ \A s \in Sessions : configuring'[s] # NoCall =>
              configuring'[s] = configuring[s] /\ configuring[s] # k
        /\ \/ outcome' = outcome
           \/ /\ k[1] = "run" /\ call'[k].pc = "done"
              /\ outcome' = [outcome EXCEPT ![k[2]] = "lost"]
        /\ desired' \in [Sessions -> Policies \cup {NoPolicy}]
        /\ UNCHANGED <<desired, configured, cancelled>>
    BY <1>1, <1>2, FailIs
  <1>4. micro' = micro \o Continues(call[k].joined, "lost") /\ call'[k].joined = <<>>
    BY <1>1, <1>3, CallIs, ContinuesIs
  <1>5. faults' \in {faults, faults + 1} \cap 0..MaxFaults /\ mixed' \in BOOLEAN
    BY <1>1, ClientAssumption DEF CoreInv, LinkInv, CallsInv
  <1>6. "lost" \in Answers \cup {"lost"} /\ \A x \in Range(micro) : Range(micro) # {x}
    BY <1>2
  <1> QED
    BY <1>1, <1>2, <1>3, <1>4, <1>5, <1>6, ServerKeeps

\* The promise that is handled, and its call.
LEMMA HandledIs ==
  ASSUME CoreInv, NEW k, k = Settled.call, NEW m, m = Tail(micro), micro # <<>>,
         call[k].pc \in {"starting", "configuring", "joining", "cancelling"}
  PROVE  /\ Settled \in Range(micro) /\ k \in Calls /\ k \in Woken /\ CallsOf(m) = Woken \ {k}
         /\ m \in Seq(Promise) /\ IsInjective(m) /\ Range(m) = Range(micro) \ {Settled}
         /\ \A l \in Calls : k \notin Range(call[l].joined)
         /\ <<"configure", k>> \notin Range(pending) /\ <<"cancel", k>> \notin Range(pending)
         /\ \A x \in Range(m) : Range(micro) # {x}
         /\ Settled.answer = "ok" /\ call[k].pc \in {"joining", "configuring"} =>
               Connected /\ There(call[k].session)
         /\ Settled.answer = "ok" => Connected
  <1>1. /\ Settled \in Range(micro) /\ k \in Calls /\ k \in Woken
        /\ m \in Seq(Promise) /\ IsInjective(m) /\ Range(m) = Range(micro) \ {Settled}
        /\ CallsOf(m) = Woken \ {k} /\ \A l \in Calls : k \notin Range(call[l].joined)
    BY SettledIs
  <1>2. <<"configure", k>> \notin Range(pending) /\ <<"cancel", k>> \notin Range(pending)
    BY <1>1, CallsAre DEF CoreInv, PendingInv
  <1>3. /\ Settled.answer = "ok" /\ call[k].pc \in {"joining", "configuring"} =>
              There(call[k].session)
        /\ Settled.answer = "ok" => Connected
    BY <1>1 DEF CoreInv, SettledInv, ThereInv
  <1> QED
    BY <1>1, <1>2, <1>3

\* The first policy is there, and the proxy is started.
LEMMA ProxyKeeps ==
  ASSUME CoreInv, ContinueProxy
  PROVE  CoreInv'
  <1>0. PICK k, m : k = Settled.call /\ m = Tail(micro)
    OBVIOUS
  <1>1. /\ micro # <<>> /\ call[k].pc = "configuring" /\ Settled.answer = "ok"
        /\ Goto(k, "proxy") /\ micro' = m
        /\ UNCHANGED <<linkVars, execVars, pending, stopping, outcome, faults, poolVars>>
        /\ UNCHANGED <<desired, configured, configuring, cancelled, mixed>>
    BY <1>0 DEF ContinueProxy, Going
  <1>3. /\ Settled \in Range(micro) /\ k \in Calls /\ k \in Woken /\ CallsOf(m) = Woken \ {k}
        /\ m \in Seq(Promise) /\ IsInjective(m) /\ Range(m) = Range(micro) \ {Settled}
        /\ \A l \in Calls : k \notin Range(call[l].joined)
        /\ <<"configure", k>> \notin Range(pending) /\ <<"cancel", k>> \notin Range(pending)
        /\ \A x \in Range(m) : Range(micro) # {x}
        /\ Connected /\ There(call[k].session)
    BY <1>0, <1>1, HandledIs
  <1>4. "proxy" \in Steps
    BY DEF Steps
  <1>5. /\ Moves(k) /\ call'[k].pc = "proxy" /\ call'[k].want = call[k].want
        /\ call'[k].joined = call[k].joined
    BY <1>1, <1>3, <1>4, GotoIs
  <1>6. Underway(k)' /\ Underway(k)
    BY <1>1, <1>5 DEF Underway
  <1>7. /\ faults' \in {faults, faults + 1} \cap 0..MaxFaults /\ mixed' \in BOOLEAN
        /\ configuring' \in [Sessions -> Calls \cup {NoCall}]
        /\ desired' \in [Sessions -> Policies \cup {NoPolicy}]
    BY <1>1 DEF CoreInv, LinkInv, CallsInv
  <1>8. \A s \in Sessions : configuring'[s] # NoCall =>
             configuring'[s] = configuring[s] /\ (configuring[s] = k => Underway(k)')
    BY <1>1, <1>6
  <1>9. "ok" \in Answers \cup {"lost"}
    BY DEF Answers
  <1> QED
    BY <1>1, <1>3, <1>5, <1>6, <1>7, <1>8, <1>9, ServerKeeps

\* Nobody waits, nobody goes on.
LEMMA NothingSettles == \A a \in Answers \cup {"lost"} : Continues(<<>>, a) = <<>>
  <1>1. ASSUME NEW a \in Answers \cup {"lost"}
        PROVE  Continues(<<>>, a) = <<>>
    <2>1. /\ Continues(<<>>, a) \in Seq(Promise)
          /\ Range(Continues(<<>>, a)) = {[call |-> k, answer |-> a] : k \in Range(<<>>)}
      BY NoneIs, ContinuesIs
    <2>2. Range(Continues(<<>>, a)) = {}
      BY <2>1, NoneIs
    <2> QED
      BY <2>1, <2>2, EmptyIs
  <1> QED
    BY <1>1

\* A new policy is there.
LEMMA ChangedKeeps ==
  ASSUME CoreInv, ContinueChanged
  PROVE  CoreInv'
  <1>0. PICK k, m : k = Settled.call /\ m = Tail(micro)
    OBVIOUS
  <1>1. /\ micro # <<>> /\ call[k].pc = "configuring" /\ Settled.answer = "ok" /\ k[1] = "change"
        /\ Goto(k, "done") /\ micro' = m
        /\ desired' = [desired EXCEPT ![call[k].session] = call[k].want]
        /\ configured' = configured \cup {call[k].session}
        /\ UNCHANGED <<linkVars, execVars, pending, stopping, outcome, faults, poolVars>>
        /\ UNCHANGED <<configuring, cancelled, mixed>>
    BY <1>0 DEF ContinueChanged, Going
  <1>3. /\ Settled \in Range(micro) /\ k \in Calls /\ k \in Woken /\ CallsOf(m) = Woken \ {k}
        /\ m \in Seq(Promise) /\ IsInjective(m) /\ Range(m) = Range(micro) \ {Settled}
        /\ \A l \in Calls : k \notin Range(call[l].joined)
        /\ <<"configure", k>> \notin Range(pending) /\ <<"cancel", k>> \notin Range(pending)
        /\ \A x \in Range(m) : Range(micro) # {x}
        /\ Connected /\ There(call[k].session)
    BY <1>0, <1>1, HandledIs
  <1>4. "done" \in Steps
    BY DEF Steps
  <1>5. /\ Moves(k) /\ call'[k].pc = "done" /\ call'[k].want = call[k].want
        /\ call'[k].joined = call[k].joined
    BY <1>1, <1>3, <1>4, GotoIs
  <1>6. ~Underway(k)' /\ call[k].want \in Policies \cup {NoPolicy} /\ call[k].session \in Sessions
    BY <1>3, <1>5, CallIs DEF Underway
  <1>7. /\ faults' \in {faults, faults + 1} \cap 0..MaxFaults /\ mixed' \in BOOLEAN
        /\ configuring' \in [Sessions -> Calls \cup {NoCall}]
        /\ desired' \in [Sessions -> Policies \cup {NoPolicy}]
    BY <1>1, <1>6 DEF CoreInv, LinkInv, CallsInv
  <1>8. \A s \in Sessions : configuring'[s] # NoCall =>
             configuring'[s] = configuring[s] /\ (configuring[s] = k => Underway(k)')
    BY <1>1 DEF CoreInv, JoinedInv
  <1>9. "ok" \in Answers \cup {"lost"}
    BY DEF Answers
  <1>10. call[k].joined = <<>> /\ Continues(<<>>, "ok") = <<>>
    <2>1. Range(call[k].joined) = {}
      BY <1>1, <1>3 DEF CoreInv, JoinedInv
    <2>2. call[k].joined = <<>>
      BY <1>3, <2>1, CallIs, EmptyIs
    <2> QED
      BY <1>9, <2>2, NothingSettles
  <1>11. micro' = m \o Continues(call[k].joined, "ok") /\ call'[k].joined = <<>>
    BY <1>1, <1>3, <1>5, <1>10
  <1> QED
    BY <1>1, <1>3, <1>5, <1>6, <1>7, <1>8, <1>9, <1>11, ServerKeeps


\* What was asked for a cancellation is answered.
LEMMA CancelledKeep ==
  ASSUME CoreInv, ContinueCancelled
  PROVE  CoreInv'
  <1>0. PICK k, m : k = Settled.call /\ m = Tail(micro)
    OBVIOUS
  <1>1. /\ micro # <<>> /\ call[k].pc = "cancelling"
        /\ Goto(k, "answered") /\ micro' = m
        /\ UNCHANGED <<linkVars, execVars, pending, stopping, outcome, faults, poolVars>>
        /\ UNCHANGED <<desired, configured, configuring, cancelled, mixed>>
    BY <1>0 DEF ContinueCancelled, Going
  <1>3. /\ Settled \in Range(micro) /\ k \in Calls /\ k \in Woken /\ CallsOf(m) = Woken \ {k}
        /\ m \in Seq(Promise) /\ IsInjective(m) /\ Range(m) = Range(micro) \ {Settled}
        /\ \A l \in Calls : k \notin Range(call[l].joined)
        /\ <<"configure", k>> \notin Range(pending) /\ <<"cancel", k>> \notin Range(pending)
        /\ \A x \in Range(m) : Range(micro) # {x}
    BY <1>0, <1>1, HandledIs
  <1>4. "answered" \in Steps
    BY DEF Steps
  <1>5. /\ Moves(k) /\ call'[k].pc = "answered" /\ call'[k].want = call[k].want
        /\ call'[k].joined = call[k].joined
    BY <1>1, <1>3, <1>4, GotoIs
  <1>6. ~Underway(k)' /\ ~Underway(k)
    BY <1>1, <1>5 DEF Underway
  <1>7. /\ faults' \in {faults, faults + 1} \cap 0..MaxFaults /\ mixed' \in BOOLEAN
        /\ configuring' \in [Sessions -> Calls \cup {NoCall}]
        /\ desired' \in [Sessions -> Policies \cup {NoPolicy}]
    BY <1>1 DEF CoreInv, LinkInv, CallsInv
  <1>8. \A s \in Sessions : configuring'[s] # NoCall =>
             configuring'[s] = configuring[s] /\ (configuring[s] = k => Underway(k)')
    BY <1>1, <1>6 DEF CoreInv, JoinedInv
  <1>9. "lost" \in Answers \cup {"lost"}
    OBVIOUS
  <1> QED
    BY <1>1, <1>3, <1>5, <1>6, <1>7, <1>8, <1>9, ServerKeeps

\* The promise was rejected: the call fails, and so does everyone who waits for it.
LEMMA FailedKeep ==
  ASSUME CoreInv, ContinueFailed
  PROVE  CoreInv'
  <1>0. PICK k, m : k = Settled.call /\ m = Tail(micro)
    OBVIOUS
  <1>1. /\ micro # <<>> /\ call[k].pc \in {"starting", "configuring", "joining"}
        /\ FailCall(k) /\ micro' = m \o Continues(call[k].joined, "lost")
        /\ UNCHANGED <<linkVars, execVars, pending, stopping, mixed, faults, poolVars>>
    BY <1>0 DEF ContinueFailed, Going
  <1>3. /\ Settled \in Range(micro) /\ k \in Calls /\ k \in Woken /\ CallsOf(m) = Woken \ {k}
        /\ m \in Seq(Promise) /\ IsInjective(m) /\ Range(m) = Range(micro) \ {Settled}
        /\ \A l \in Calls : k \notin Range(call[l].joined)
        /\ <<"configure", k>> \notin Range(pending) /\ <<"cancel", k>> \notin Range(pending)
        /\ \A x \in Range(m) : Range(micro) # {x}
    BY <1>0, <1>1, HandledIs
  <1>4. /\ Moves(k) /\ call'[k].pc = "done" /\ call'[k].joined = <<>>
        /\ call'[k].want = call[k].want /\ ~Underway(k)'
        /\ configuring' \in [Sessions -> Calls \cup {NoCall}]
        /\ \A s \in Sessions : configuring'[s] # NoCall =>
              configuring'[s] = configuring[s] /\ configuring[s] # k
        /\ \/ outcome' = outcome
           \/ /\ k[1] = "run" /\ call'[k].pc = "done"
              /\ outcome' = [outcome EXCEPT ![k[2]] = "lost"]
        /\ desired' \in [Sessions -> Policies \cup {NoPolicy}]
        /\ UNCHANGED <<desired, configured, cancelled>>
    BY <1>1, <1>3, FailIs
  <1>5. faults' \in {faults, faults + 1} \cap 0..MaxFaults /\ mixed' \in BOOLEAN
    BY <1>1 DEF CoreInv, LinkInv, CallsInv
  <1>6. "lost" \in Answers \cup {"lost"}
    OBVIOUS
  <1> QED
    BY <1>1, <1>3, <1>4, <1>5, <1>6, ServerKeeps

(***************************************************************************)
(* Calls that begin.                                                       *)
(***************************************************************************)

\* The policy of a session is sent to the process.
LEMMA ConfigureSent ==
  ASSUME CoreInv, NEW k \in Calls, Connected, Moves(k), call'[k].pc = "configuring",
         call'[k].joined = call[k].joined, call'[k].want \in Policies,
         call[k].pc \in {"meta", "starting", "proxy"}, call[k].pc = "starting" => k \in Woken,
         NEW r, r = Request("configure", k, NoCommand, call[k].session, call'[k].want), Sent(<<r>>),
         NEW m \in Seq(Promise), IsInjective(m), Range(m) \subseteq Range(micro),
         CallsOf(m) = Woken \ {k}, \A x \in Range(m) : Range(micro) # {x}, micro' = m,
         UNCHANGED <<linkVars, execVars, stopping, outcome, faults, outbox>>,
         UNCHANGED <<desired, configured, cancelled>>, mixed' \in BOOLEAN,
         configuring' \in [Sessions -> Calls \cup {NoCall}],
         \A s \in Sessions : configuring'[s] # NoCall =>
             \/ configuring'[s] = configuring[s]
             \/ configuring'[s] = k /\ call[k].session = s /\ k[1] # "change"
  PROVE  CoreInv'
  <1>1. /\ r \in Requests /\ r.id = <<"configure", k>> /\ r.id[1] = "configure"
        /\ r.session = call[k].session /\ r.policy = call'[k].want
    BY PoolAssumption, CallsAre, CallIs DEF Request, Requests, Ops, RequestIds
  <1>2. r.id \notin Range(pending) /\ <<"cancel", k>> \notin Range(pending)
    BY <1>1, CallsAre DEF CoreInv, PendingInv
  <1>3. Sound(r)
    BY <1>1 DEF Sound
  <1>4. /\ pending' \in Seq(RequestIds) /\ IsInjective(pending')
        /\ Range(pending') = Range(pending) \cup {r.id}
        /\ Range(inbox') \subseteq Range(inbox) \cup {r}
        /\ inbox # <<>> => inbox' # <<>> /\ inbox'[1] = inbox[1]
        /\ ~Alive => inbox' = inbox
        /\ FramesInv' /\ OwnInv'
    BY <1>1, <1>2, <1>3, OneSent
  <1>5. Underway(k)'
    BY DEF Underway
  <1>6. /\ PlacesInv' /\ JoinedInv' /\ k \notin Woken'
        /\ \A l \in Woken' : l \in Woken \/ call[l].pc = "joining"
        /\ \A l \in Woken : l # k => l \in Woken'
        /\ \A x \in Range(micro') : \/ x \in Range(m)
                                    \/ /\ x.answer = "lost" /\ x.call \in Range(call[k].joined)
    BY <1>5, GoesOn DEF linkVars
  <1>7. UNCHANGED <<policy, queue, active, raised, worker, main, freed, phase, replies>>
    BY DEF Sent
  <1>8. UNCHANGED <<execQueue, execRunning, concurrency, outcome, outbox>>
    BY DEF execVars
  <1>9. LinkInv' /\ GoneInv' /\ Connected' = Connected /\ Alive' = Alive /\ ready' = ready
    BY <1>4, <1>7, LinkStays, GoneStays
  <1>10. \A l \in Calls \ {k} : call'[l] = call[l]
    BY DEF Moves
  <1>11. QueuedInv'
    BY <1>8, <1>10, CallsAre, QueuedStays
  <1>12. KnownInv'
    BY <1>7, <1>8, SameKnown
  <1>13. CallsInv'
    BY MovedCalls DEF CoreInv, CallsInv
  <1>14. PendingInv'
    <2>1. /\ \A l \in Callers : <<"configure", l>> \in Range(pending) =>
               l \in Calls \ Woken' /\ call'[l].pc = "configuring"
          /\ \A l \in Callers : <<"cancel", l>> \in Range(pending) =>
               l \in Calls \ Woken' /\ call'[l].pc = "cancelling" /\ l[1] = "cancel"
      BY <1>1, <1>2, <1>6, <1>10, MovedPending
    <2>2. \A c \in Commands : <<"run", c>> \in Range(pending') <=> c \in execRunning'
      <3>1. \A c \in Commands : <<"run", c>> # r.id
        BY <1>1
      <3> QED
        BY <1>4, <1>8, <3>1 DEF CoreInv, PendingInv
    <2>3. \A l \in Callers : <<"ping", l>> # r.id /\ <<"cancel", l>> # r.id
                             /\ (<<"configure", l>> = r.id => l = k)
      BY <1>1
    <2>4. Ping \in Range(pending') <=> Connected' /\ ~ready'
      BY <1>4, <1>9, <2>3, CallsAre DEF Ping, CoreInv, PendingInv
    <2>5. \A l \in Callers : <<"ping", l>> \in Range(pending') => l = Client
      BY <1>4, <2>3 DEF CoreInv, PendingInv
    <2>6. \A l \in Callers : <<"configure", l>> \in Range(pending') =>
             l \in Calls \ Woken' /\ call'[l].pc = "configuring"
      BY <1>4, <1>6, <2>1, <2>3
    <2>7. \A l \in Callers : <<"cancel", l>> \in Range(pending') =>
             l \in Calls \ Woken' /\ call'[l].pc = "cancelling" /\ l[1] = "cancel"
      BY <1>4, <2>1, <2>3
    <2> QED
      BY <1>4, <2>2, <2>4, <2>5, <2>6, <2>7 DEF PendingInv
  <1>15. ContentsInv'
    <2>1. ASSUME NEW x \in Range(inbox'), NEW l \in Calls, x.id = <<"configure", l>>
          PROVE  x.session = call'[l].session /\ x.policy = call'[l].want
      <3>1. CASE x = r
        BY <1>1, <2>1, <3>1 DEF Moves
      <3>2. CASE x \in Range(inbox)
        BY <1>1, <1>2, <1>10, <2>1, <3>2 DEF CoreInv, FramesInv, ContentsInv
      <3> QED
        BY <1>4, <3>1, <3>2
    <2>2. \A x \in Range(outbox'), d \in Commands : x.id = <<"run", d>> =>
             replies'[d] = 1 /\ x.answer \in {"result", "cancelled", "failed", "refused"}
      BY <1>7, <1>8 DEF CoreInv, ContentsInv
    <2> QED
      BY <2>1, <2>2 DEF ContentsInv
  <1>16. /\ SettledInv'
         /\ \A x \in Range(micro') :
               x.answer = "ok" /\ call'[x.call].pc \in {"joining", "configuring"} =>
                  There(call[x.call].session)'
    BY <1>6, <1>7, <1>9, PromisesKept
  <1>17. ThereInv'
    BY <1>7, <1>8, <1>9, <1>16, RestThere DEF Moves, CoreInv, ThereInv
  <1> QED
    BY <1>4, <1>6, <1>9, <1>11, <1>12, <1>13, <1>14, <1>15, <1>16, <1>17 DEF CoreInv

\* A step of the router that asks nothing of the client.
LEMMA CallsOnly ==
  ASSUME CoreInv, micro = <<>>, micro' = <<>>,
         UNCHANGED <<generation, failed, ready, timers, armed, children, closing>>,
         UNCHANGED <<execVars, pending, stopping, outcome, faults, poolVars, configured>>,
         \A l \in Calls : call[l].pc \in {"done", "configuring", "cancelling"} => call'[l].pc = call[l].pc,
         \A l \in Calls : call[l].pc = "configuring" =>
             call'[l].session = call[l].session /\ call'[l].want = call[l].want,
         starters = <<>> => starters' = <<>> \/ Connected,
         CallsInv', PlacesInv', JoinedInv'
  PROVE  CoreInv'
  <1>1. /\ UNCHANGED <<execQueue, execRunning, concurrency>>
        /\ UNCHANGED <<inbox, outbox, policy, queue, active, raised, worker, main, freed, phase, replies>>
    BY DEF execVars, poolVars
  <1>2. OwnInv' /\ KnownInv'
    BY <1>1, PoolStays, SameKnown DEF CoreInv
  <1>3. LinkInv' /\ Connected' = Connected /\ Alive' = Alive
    BY DEF CoreInv, LinkInv, Connected, Alive
  <1>4. GoneInv'
    BY <1>1, <1>3 DEF CoreInv, GoneInv
  <1>5. QueuedInv'
    BY <1>1, CallsAre, QueuedStays
  <1>6. FramesInv'
    BY <1>1 DEF CoreInv, FramesInv
  <1>7. Woken' = {} /\ Range(micro') = {} /\ Range(micro) = {}
    BY NoneIs DEF Woken
  <1>8. PendingInv'
    BY <1>1, <1>3, <1>7 DEF CoreInv, PendingInv
  <1>9. ASSUME NEW x \in Range(inbox) \cup Range(outbox), NEW l \in Calls, x.id = <<"configure", l>>
        PROVE  call'[l].session = call[l].session /\ call'[l].want = call[l].want
    BY <1>9, CallsAre DEF CoreInv, FramesInv, PendingInv
  <1>10. ContentsInv'
    BY <1>1, <1>9 DEF CoreInv, ContentsInv
  <1>11. ThereInv'
    <2>1. \A s : There(s) => There(s)'
      BY <1>1, <1>3 DEF There
    <2>2. \A s \in configured' : There(s)'
      BY <2>1 DEF CoreInv, ThereInv
    <2>3. \A c \in Range(execQueue') \cup execRunning' : There(SessionOf[c])'
      BY <1>1, <2>1 DEF CoreInv, ThereInv
    <2>4. ASSUME NEW x \in Range(outbox'), NEW l \in Calls, x.id = <<"configure", l>>
          PROVE  There(call[l].session)'
      BY <1>1, <1>3, <1>9, <2>4 DEF CoreInv, ThereInv, There
    <2> QED
      BY <1>7, <2>2, <2>3, <2>4 DEF ThereInv
  <1>12. SettledInv'
    BY <1>7 DEF SettledInv
  <1> QED
    BY <1>2, <1>3, <1>4, <1>5, <1>6, <1>8, <1>10, <1>11, <1>12 DEF CoreInv

\* Nobody has settled: who waits where, when only the calls and the starters change.
LEMMA AsleepPlaces ==
  ASSUME CoreInv, micro' = <<>>, starters' \in Seq(Calls), IsInjective(starters'),
         \A l \in Range(starters') : call'[l].pc = "starting",
         \A l \in Calls : call'[l].pc = "starting" => l \in Range(starters'),
         starters' # <<>> => ~ready'
  PROVE  PlacesInv'
  <1>1. Woken' = {} /\ micro' \in Seq(Promise) /\ IsInjective(micro') /\ Range(micro') = {}
    BY NoneIs DEF Woken
  <1> QED
    BY <1>1 DEF PlacesInv

\* A call is issued.
LEMMA IssuedKeeps ==
  ASSUME CoreInv, NEW k \in Calls, Issue(k), NEW new \in Call, call' = [call EXCEPT ![k] = new],
         new.pc = "meta", new.joined = <<>>, k[1] # "change" => new.session = call[k].session,
         k[1] = "change" => new.want \in Policies, cancelled' \subseteq Commands, UNCHANGED mixed
  PROVE  CoreInv'
  <1>1. /\ micro = <<>> /\ call[k].pc = "new"
        /\ UNCHANGED <<desired, configured, configuring, poolVars, clientVars>>
    BY DEF Issue
  <1>2. /\ UNCHANGED <<generation, failed, ready, timers, armed, children, closing, starters, micro>>
        /\ UNCHANGED <<execVars, pending, stopping, outcome, faults, poolVars, configured>>
    BY <1>1 DEF clientVars, linkVars
  <1>3. call' \in [Calls -> Call] /\ call'[k] = new /\ \A l \in Calls \ {k} : call'[l] = call[l]
    BY DEF CoreInv, CallsInv
  <1>4. /\ k \notin Range(starters) /\ \A m \in Calls : k \notin Range(call[m].joined)
    BY <1>1, AsleepIs
  <1>5. /\ \A l \in Calls : call[l].pc \in {"done", "configuring", "cancelling"} =>
              call'[l].pc = call[l].pc
        /\ \A l \in Calls : call[l].pc = "configuring" =>
              call'[l].session = call[l].session /\ call'[l].want = call[l].want
    BY <1>1, <1>3
  <1>6. CallsInv'
    <2>1. \A l \in Calls : l[1] # "change" => call'[l].session = SessionOf[l[2]]
      BY <1>3 DEF CoreInv, CallsInv
    <2>2. ASSUME NEW l \in Calls, Underway(l)' \/ (l[1] = "change" /\ call'[l].pc = "meta")
          PROVE  call'[l].want \in Policies
      <3>1. CASE l = k
        BY <1>3, <2>2, <3>1 DEF Underway
      <3>2. CASE l # k
        BY <1>3, <2>2, <3>2 DEF CoreInv, CallsInv, Underway
      <3> QED
        BY <3>1, <3>2
    <2> QED
      BY <1>1, <1>3, <2>1, <2>2 DEF CoreInv, CallsInv
  <1>7. PlacesInv'
    <2>1. starters \in Seq(Calls) /\ IsInjective(starters) /\ Range(starters) \subseteq Calls
          /\ (starters # <<>> => ~ready)
      BY RangeOfSeq DEF CoreInv, PlacesInv
    <2>2. \A l \in Range(starters') : call'[l].pc = "starting"
      BY <1>2, <1>3, <1>4, <2>1 DEF CoreInv, PlacesInv
    <2>3. \A l \in Calls : call'[l].pc = "starting" => l \in Range(starters')
      <3>1. Woken = {}
        BY <1>1, NoneIs DEF Woken
      <3> QED
        BY <1>2, <1>3, <3>1 DEF CoreInv, PlacesInv
    <2>4. micro' = <<>>
      BY <1>1, <1>2
    <2> QED
      BY <1>2, <2>1, <2>2, <2>3, <2>4, AsleepPlaces
  <1>8. JoinedInv'
    <2>1. Woken' = {}
      BY <1>1, <1>2, NoneIs DEF Woken
    <2>2. \A m \in Calls : Range(call[m].joined) \subseteq Calls
      BY CallIs
    <2>3. Range(call'[k].joined) = {} /\ IsInjective(call'[k].joined)
      BY <1>3, NoneIs
    <2>4. ASSUME NEW m \in Calls, NEW l \in Range(call'[m].joined)
          PROVE  /\ m # k /\ l \in Calls /\ l # k /\ l \in Range(call[m].joined)
                 /\ call'[m] = call[m] /\ call'[l] = call[l]
      BY <1>3, <1>4, <2>2, <2>3
    <2>5. ASSUME NEW m \in Calls, NEW l \in Range(call'[m].joined)
          PROVE  /\ call'[l].pc = "joining" /\ l[1] # "change" /\ l \notin Woken'
                 /\ call'[l].session = call'[m].session /\ Underway(m)' /\ m[1] # "change"
      BY <2>1, <2>4, <2>5 DEF CoreInv, JoinedInv, Underway
    <2>6. \A m, n \in Calls : \A l \in Range(call'[m].joined) : l \in Range(call'[n].joined) => m = n
      BY <2>4 DEF CoreInv, JoinedInv
    <2>7. \A m \in Calls : IsInjective(call'[m].joined)
      BY <1>3, <2>3, CallIs
    <2>8. ASSUME NEW s \in Sessions, configuring'[s] # NoCall
          PROVE  /\ Underway(configuring[s])' /\ call'[configuring'[s]].session = s
                 /\ configuring'[s][1] # "change"
      <3> DEFINE f == configuring[s]
      <3>1. /\ Underway(f) /\ call[f].session = s /\ f[1] # "change" /\ f \in Calls
            /\ configuring'[s] = f
        BY <1>1, <2>8 DEF CoreInv, JoinedInv, CallsInv
      <3>2. call'[f] = call[f]
        BY <1>1, <1>3, <3>1 DEF Underway
      <3> QED
        BY <3>1, <3>2 DEF Underway
    <2> QED
      BY <2>5, <2>6, <2>7, <2>8 DEF JoinedInv
  <1> QED
    BY <1>1, <1>2, <1>5, <1>6, <1>7, <1>8, CallsOnly

LEMMA IssuesKeep ==
  ASSUME CoreInv,
         \/ \E c \in Commands : IssueRun(c) \/ IssueCancel(c)
         \/ \E n \in Changes, s \in Sessions, p \in Policies : IssueChange(n, s, p)
  PROVE  CoreInv'
  <1>1. "meta" \in Steps /\ \A k \in Calls : call[k] \in Call
    BY CallIs DEF Steps
  <1>2. cancelled \subseteq Commands
    BY DEF CoreInv, CallsInv
  <1>3. ASSUME NEW k \in Calls, k[1] # "change", Issue(k), Goto(k, "meta"),
               cancelled' \subseteq Commands, UNCHANGED mixed
        PROVE  CoreInv'
    <2> DEFINE new == [call[k] EXCEPT !.pc = "meta"]
    <2>1. call[k].joined = <<>>
      BY <1>3, CallIs DEF Issue, Underway
    <2>2. new \in Call /\ new.pc = "meta" /\ new.joined = <<>> /\ new.session = call[k].session
      BY <1>1, <2>1 DEF Call
    <2>3. call' = [call EXCEPT ![k] = new]
      BY <1>3 DEF Goto
    <2> HIDE DEF new
    <2> QED
      BY <1>3, <2>2, <2>3, IssuedKeeps
  <1>4. ASSUME NEW c \in Commands, IssueRun(c)
        PROVE  CoreInv'
    BY <1>2, <1>3, <1>4, CallsAre DEF IssueRun
  <1>5. ASSUME NEW c \in Commands, IssueCancel(c)
        PROVE  CoreInv'
    BY <1>2, <1>3, <1>5, CallsAre DEF IssueCancel
  <1>6. ASSUME NEW n \in Changes, NEW s \in Sessions, NEW p \in Policies, IssueChange(n, s, p)
        PROVE  CoreInv'
    <2> DEFINE k == <<"change", n>>
               new == [NewCall(s) EXCEPT !.pc = "meta", !.want = p]
    <2>1. k \in Calls /\ k[1] = "change"
      BY DEF Calls
    <2>2. new \in Call /\ new.pc = "meta" /\ new.joined = <<>> /\ new.want \in Policies
      BY <1>1, NoneIs DEF Call, NewCall
    <2>3. Issue(k) /\ call' = [call EXCEPT ![k] = new] /\ UNCHANGED <<cancelled, mixed>>
      BY <1>6 DEF IssueChange
    <2> HIDE DEF k, new
    <2> QED
      BY <1>2, <2>1, <2>2, <2>3, IssuedKeeps
  <1> QED
    BY <1>4, <1>5, <1>6

\* A call joins the one that sends the policy of its session.
LEMMA JoinsKeep ==
  ASSUME CoreInv, NEW k \in Calls, k[1] # "change", call[k].pc = "meta", micro = <<>>, micro' = <<>>,
         NEW f, f = configuring[call[k].session], f # NoCall,
         Joins(k, f),
         UNCHANGED <<desired, configured, configuring, cancelled, outcome, linkVars, pending, mixed>>,
         UNCHANGED <<poolVars, execVars, stopping, faults>>
  PROVE  CoreInv'
  <1>1. /\ f \in Calls /\ Underway(f) /\ call[f].session = call[k].session /\ f[1] # "change"
        /\ f # k
    <2>1. call[k].session \in Sessions
      BY CallIs
    <2>2. f \in Calls /\ Underway(f) /\ call[f].session = call[k].session /\ f[1] # "change"
      BY <2>1 DEF CoreInv, CallsInv, JoinedInv
    <2>3. f # k
      BY <2>2 DEF Underway
    <2> QED
      BY <2>2, <2>3
  <1>2. /\ call[f].joined \in Seq(Calls) /\ IsInjective(call[f].joined)
        /\ Range(call[f].joined) \subseteq Calls
        /\ \A m \in Calls : k \notin Range(call[m].joined)
        /\ call[k].joined = <<>> /\ Range(call[k].joined) = {}
    BY <1>1, AsleepIs, CallIs DEF Underway
  <1>3. /\ Append(call[f].joined, k) \in Seq(Calls) /\ IsInjective(Append(call[f].joined, k))
        /\ Range(Append(call[f].joined, k)) = Range(call[f].joined) \cup {k}
    <2> DEFINE j == call[f].joined
    <2>1. j \in Seq(Calls) /\ IsInjective(j) /\ k \notin Range(j)
      BY <1>1, <1>2
    <2> HIDE DEF j
    <2>2. Append(j, k) \in Seq(Calls) /\ IsInjective(Append(j, k)) /\ Range(Append(j, k)) = Range(j) \cup {k}
      BY <2>1, AppendIs
    <2> QED
      BY <2>2 DEF j
  <1>4. call \in [Calls -> Call]
    BY DEF CoreInv, CallsInv
  <1>7. /\ call' \in [Calls -> Call] /\ \A l \in Calls \ {k, f} : call'[l] = call[l]
        /\ call'[k].pc = "joining" /\ call'[k].joined = call[k].joined
        /\ call'[k].want = call[k].want /\ call'[k].session = call[k].session
        /\ call'[f].pc = call[f].pc /\ call'[f].want = call[f].want
        /\ call'[f].session = call[f].session /\ call'[f].joined = Append(call[f].joined, k)
    BY <1>1, <1>3, <1>4, OneJoins
  <1>8. /\ call'[k].pc = "joining" /\ call'[k].joined = call[k].joined /\ call'[k].want = call[k].want
        /\ call'[k].session = call[k].session
        /\ call'[f].pc = call[f].pc /\ call'[f].want = call[f].want
        /\ call'[f].session = call[f].session
        /\ call'[f].joined \in Seq(Calls) /\ IsInjective(call'[f].joined)
        /\ Range(call'[f].joined) = Range(call[f].joined) \cup {k}
    BY <1>3, <1>7
  <1>9. \A l \in Calls : call'[l].session = call[l].session /\ call'[l].want = call[l].want
    BY <1>7, <1>8
  <1>10. \A l \in Calls \ {k} : call'[l].pc = call[l].pc
    BY <1>7, <1>8
  <1>11. CallsInv'
    <2>1. \A l \in Calls : l[1] # "change" => call'[l].session = SessionOf[l[2]]
      BY <1>9 DEF CoreInv, CallsInv
    <2>2. \A l \in Calls : Underway(l)' \/ (l[1] = "change" /\ call'[l].pc = "meta") =>
             call'[l].want \in Policies
      <3>1. ASSUME NEW l \in Calls, Underway(l)' \/ (l[1] = "change" /\ call'[l].pc = "meta")
            PROVE  call'[l].want \in Policies
        <4>1. l # k
          BY <1>8, <3>1 DEF Underway
        <4>2. Underway(l) \/ (l[1] = "change" /\ call[l].pc = "meta")
          BY <1>10, <3>1, <4>1 DEF Underway
        <4> QED
          BY <1>9, <3>1, <4>2 DEF CoreInv, CallsInv
      <3> QED
        BY <3>1
    <2> QED
      BY <1>7, <2>1, <2>2 DEF CoreInv, CallsInv
  <1>12. UNCHANGED <<generation, failed, ready, timers, armed, children, closing, starters>>
    BY DEF linkVars
  <1>13. PlacesInv'
    <2>1. starters \in Seq(Calls) /\ IsInjective(starters) /\ Range(starters) \subseteq Calls
          /\ (starters # <<>> => ~ready)
      BY RangeOfSeq DEF CoreInv, PlacesInv
    <2>2. \A l \in Range(starters') : call'[l].pc = "starting"
      BY <1>10, <1>12, <2>1 DEF CoreInv, PlacesInv
    <2>3. \A l \in Calls : call'[l].pc = "starting" => l \in Range(starters')
      <3>1. Woken = {}
        BY NoneIs DEF Woken
      <3> QED
        BY <1>8, <1>10, <1>12, <3>1 DEF CoreInv, PlacesInv
    <2> QED
      BY <1>12, <2>1, <2>2, <2>3, AsleepPlaces
  <1>14. JoinedInv'
    <2>1. Woken' = {}
      BY NoneIs DEF Woken
    <2>2. \A m \in Calls : Range(call[m].joined) \subseteq Calls
      BY CallIs
    <2>3. \A m \in Calls \ {f} : call'[m].joined = call[m].joined
      BY <1>7, <1>8
    <2>4. \A m \in Calls : Underway(m) => Underway(m)'
      BY <1>8, <1>10 DEF Underway
    <2>5. ASSUME NEW m \in Calls, NEW l \in Range(call'[m].joined)
          PROVE  /\ call'[l].pc = "joining" /\ l[1] # "change" /\ l \notin Woken'
                 /\ call'[l].session = call'[m].session /\ Underway(m)' /\ m[1] # "change"
      <3>1. CASE l = k
        BY <1>1, <1>2, <1>8, <2>1, <2>3, <2>4, <2>5, <3>1
      <3>2. CASE l # k
        <4>1. l \in Range(call[m].joined)
          <5>1. CASE m = f
            BY <1>8, <2>5, <3>2, <5>1
          <5>2. CASE m # f
            BY <2>3, <2>5, <5>2
          <5> QED
            BY <5>1, <5>2
        <4>0. l \in Calls
          BY <2>2, <4>1
        <4>2. /\ call[l].pc = "joining" /\ l[1] # "change"
              /\ call[l].session = call[m].session /\ Underway(m) /\ m[1] # "change"
          BY <4>1 DEF CoreInv, JoinedInv
        <4> QED
          BY <1>9, <1>10, <2>1, <2>4, <3>2, <4>0, <4>2
      <3> QED
        BY <3>1, <3>2
    <2>6. ASSUME NEW m \in Calls, NEW n \in Calls, NEW l \in Range(call'[m].joined),
                 l \in Range(call'[n].joined)
          PROVE  m = n
      <3>1. CASE l = k
        BY <1>2, <2>3, <2>6, <3>1
      <3>2. CASE l # k
        <4>1. l \in Range(call[m].joined) /\ l \in Range(call[n].joined)
          BY <1>8, <2>3, <2>6, <3>2
        <4> QED
          BY <4>1 DEF CoreInv, JoinedInv
      <3> QED
        BY <3>1, <3>2
    <2>7. \A m \in Calls : IsInjective(call'[m].joined)
      BY <1>8, <2>3, CallIs
    <2>8. \A s \in Sessions : configuring'[s] # NoCall =>
             /\ Underway(configuring[s])' /\ call'[configuring'[s]].session = s
             /\ configuring'[s][1] # "change"
      BY <1>9, <2>4 DEF CoreInv, CallsInv, JoinedInv
    <2> QED
      BY <2>5, <2>6, <2>7, <2>8 DEF JoinedInv
  <1>15. /\ \A l \in Calls : call[l].pc \in {"done", "configuring", "cancelling"} =>
              call'[l].pc = call[l].pc
         /\ \A l \in Calls : call[l].pc = "configuring" =>
              call'[l].session = call[l].session /\ call'[l].want = call[l].want
    BY <1>9, <1>10
  <1> QED
    BY <1>11, <1>12, <1>13, <1>14, <1>15, CallsOnly

\* What it is to start to configure a session.
Begins(k, pc) == call' = [call EXCEPT ![k].want = Wanted(call[k].session), ![k].pc = pc]

LEMMA BeginsIs ==
  ASSUME CoreInv, NEW k \in Calls, call[k].pc = "meta", NEW s, s = call[k].session,
         NEW pc \in {"starting", "configuring"},
         Begins(k, pc)
  PROVE  /\ Moves(k) /\ call'[k].pc = pc /\ call'[k].want = Wanted(s) /\ Wanted(s) \in Policies
         /\ call'[k].joined = call[k].joined /\ call[k].joined = <<>> /\ Underway(k)'
         /\ call'[k].session = s
  <1>1. /\ s \in Sessions /\ call[k].joined = <<>> /\ \A m \in Calls : k \notin Range(call[m].joined)
    BY CallIs, AsleepIs DEF Underway
  <1>2. Wanted(s) \in Policies
    BY <1>1, RouterAssumption DEF Wanted, CoreInv, CallsInv
  <1>3. call \in [Calls -> Call] /\ pc \in Steps
    BY DEF CoreInv, CallsInv, Steps
  <1>4. call' = [call EXCEPT ![k] = [call[k] EXCEPT !.want = Wanted(s), !.pc = pc]]
    BY <1>3 DEF Call, Begins
  <1>5. /\ call' \in [Calls -> Call] /\ \A l \in Calls \ {k} : call'[l] = call[l]
        /\ call'[k].pc = pc /\ call'[k].want = Wanted(s) /\ call'[k].joined = call[k].joined
        /\ call'[k].session = call[k].session
    BY <1>2, <1>3, <1>4 DEF Call
  <1> QED
    BY <1>1, <1>2, <1>5 DEF Moves, Underway

\* What the calls and the starters are, when a call waits for the handshake.
LEMMA StartingIs ==
  ASSUME CoreInv, NEW k \in Calls, k[1] # "change", call[k].pc = "meta", micro = <<>>, micro' = <<>>,
         NEW s, s = call[k].session,
         Begins(k, "starting"),
         configuring' = [configuring EXCEPT ![s] = k], starters' = Append(starters, k), ~ready',
         UNCHANGED <<desired, configured, cancelled>>, mixed' \in BOOLEAN
  PROVE  /\ CallsInv' /\ PlacesInv' /\ JoinedInv' /\ Moves(k) /\ call'[k].pc = "starting"
         /\ \A l \in Calls \ {k} : call'[l] = call[l]
  <1>1. /\ Moves(k) /\ call'[k].pc = "starting" /\ call'[k].want = Wanted(s)
        /\ Wanted(s) \in Policies /\ call'[k].joined = call[k].joined /\ call[k].joined = <<>>
        /\ Underway(k)' /\ call'[k].session = s
    BY BeginsIs
  <1>2. \A l \in Calls \ {k} : call'[l] = call[l]
    BY <1>1 DEF Moves
  <1>3. /\ configuring' \in [Sessions -> Calls \cup {NoCall}]
        /\ \A z \in Sessions : z # s => configuring'[z] = configuring[z]
        /\ s \in Sessions /\ configuring'[s] = k
    <2>1. s \in Sessions
      BY CallIs
    <2> QED
      BY <2>1 DEF CoreInv, CallsInv
  <1>4. CallsInv'
    BY <1>1, <1>3, MovedCalls DEF CoreInv, CallsInv
  <1>5. starters \in Seq(Calls) /\ IsInjective(starters) /\ Range(starters) \subseteq Calls
        /\ k \notin Range(starters)
    BY RangeOfSeq, AsleepIs DEF CoreInv, PlacesInv
  <1>6. starters' \in Seq(Calls) /\ IsInjective(starters') /\ Range(starters') = Range(starters) \cup {k}
    BY <1>5, AppendIs
  <1>7. Woken = {} /\ Woken' = {}
    BY NoneIs DEF Woken
  <1>8. PlacesInv'
    BY <1>1, <1>2, <1>5, <1>6, <1>7, AsleepPlaces DEF CoreInv, PlacesInv
  <1>9. JoinedInv'
    BY <1>1, <1>3, <1>7, NoneIs, MoveIs
  <1> QED
    BY <1>1, <1>2, <1>4, <1>8, <1>9

\* A call waits for the handshake of a process that is there.
LEMMA StartsKeep ==
  ASSUME CoreInv, NEW k \in Calls, k[1] # "change", call[k].pc = "meta", micro = <<>>, micro' = <<>>,
         NEW s, s = call[k].session,
         Begins(k, "starting"),
         configuring' = [configuring EXCEPT ![s] = k], starters' = Append(starters, k),
         Connected, ~ready,
         UNCHANGED <<desired, configured, cancelled, outcome, mixed>>,
         UNCHANGED <<generation, failed, ready, timers, armed, children, closing, pending>>,
         UNCHANGED <<poolVars, execVars, stopping, faults>>
  PROVE  CoreInv'
  <1>1. mixed' \in BOOLEAN /\ ~ready'
    BY DEF CoreInv, CallsInv
  <1>2. /\ CallsInv' /\ PlacesInv' /\ JoinedInv' /\ Moves(k) /\ call'[k].pc = "starting"
        /\ \A l \in Calls \ {k} : call'[l] = call[l]
    BY <1>1, StartingIs
  <1>3. /\ \A l \in Calls : call[l].pc \in {"done", "configuring", "cancelling"} =>
              call'[l].pc = call[l].pc
        /\ \A l \in Calls : call[l].pc = "configuring" =>
              call'[l].session = call[l].session /\ call'[l].want = call[l].want
    BY <1>2
  <1> QED
    BY <1>2, <1>3, CallsOnly

\* A new process, that has been asked for a sign of life.
LEMMA LaunchIs ==
  ASSUME CoreInv, Launch, UNCHANGED <<stopping, faults>>,
         timers' \in Nat, armed' \in BOOLEAN, armed' => timers' > 0,
         UNCHANGED <<execQueue, execRunning, configured>>
  PROVE  /\ OwnInv' /\ LinkInv' /\ GoneInv' /\ FramesInv' /\ Connected' /\ Alive' /\ ~ready' /\ ~ready
         /\ pending' \in Seq(RequestIds) /\ IsInjective(pending') /\ Range(pending') = {Ping}
         /\ inbox' = <<PingRequest>> /\ outbox' = <<>> /\ PingRequest.id = Ping
         /\ PingRequest.id[1] = "ping"
         /\ execQueue = <<>> /\ execRunning = {} /\ configured = {} /\ starters = <<>>
         /\ active' = {} /\ freed' = {} /\ main' = NoCommand
         /\ UNCHANGED <<phase, replies>>
  <1>1. /\ ~stopping /\ ~Connected /\ generation' = generation + 1 /\ ready' = FALSE
        /\ children' = children \cup {generation + 1} /\ pending' = Append(pending, Ping)
        /\ inbox' = <<PingRequest>> /\ UNCHANGED <<failed, closing>>
        /\ UNCHANGED <<outbox, policy, queue, active, raised, worker, main, freed, phase, replies>>
    BY DEF Launch
  <1>2. children = {} /\ generation \in Nat /\ failed \in 0..generation /\ ~Alive /\ ~ready
    BY <1>1 DEF CoreInv, LinkInv, Alive
  <1>3. /\ pending = <<>> /\ starters = <<>> /\ outbox = <<>>
        /\ execQueue = <<>> /\ execRunning = {} /\ configured = {}
        /\ inbox = <<>> /\ queue = <<>> /\ active = {} /\ raised = {} /\ freed = {}
        /\ main = NoCommand
    BY <1>1, <1>2 DEF CoreInv, GoneInv
  <1>4. children' = {generation'}
    BY <1>1, <1>2
  <1>5. Connected' /\ Alive'
    BY <1>1, <1>2, <1>4 DEF Connected, Alive
  <1>6. LinkInv'
    <2>1. generation <= faults
      BY <1>1, <1>2 DEF CoreInv, LinkInv
    <2>2. generation' \in Nat /\ failed' \in 0..generation' /\ generation' <= faults' + 1
          /\ faults' \in 0..MaxFaults
      BY <1>1, <1>2, <2>1, ClientAssumption DEF CoreInv, LinkInv
    <2>3. closing' \subseteq 0..generation' /\ generation' \notin closing'
      BY <1>1, <1>2 DEF CoreInv, LinkInv
    <2>4. stopping' \in BOOLEAN /\ ready' \in BOOLEAN
      BY <1>1 DEF CoreInv, LinkInv
    <2> QED
      BY <1>1, <1>4, <1>5, <2>2, <2>3, <2>4 DEF LinkInv
  <1>7. GoneInv'
    BY <1>5 DEF GoneInv
  <1>8. Ping \in RequestIds /\ PingRequest \in Requests /\ PingRequest.id = Ping
        /\ PingRequest.id[1] = "ping"
    BY ClientAssumption, CallsAre, PoolAssumption DEF AnySession, Ops, PingRequest, Request,
       Requests, Ping
  <1>9. pending' = <<Ping>>
    BY <1>1, <1>3, <1>8, AppendIs DEF CoreInv, PendingInv
  <1>10. /\ pending' \in Seq(RequestIds) /\ IsInjective(pending') /\ Range(pending') = {Ping}
    BY <1>8, <1>9, OneIs
  <1>11. inbox' \in Seq(Requests) /\ IsInjective(inbox') /\ Range(inbox') = {PingRequest}
    BY <1>1, <1>8, OneIs
  <1>12. outbox' = <<>> /\ Range(outbox') = {} /\ IsInjective(outbox')
    BY <1>1, <1>3, NoneIs
  <1>13. FramesInv'
    BY <1>8, <1>10, <1>11, <1>12 DEF FramesInv
  <1>14. OwnInv'
    <2>1. RunsAreNew'
      BY <1>8, <1>11, InboxIsNew
    <2> QED
      BY <1>1, <1>11, <2>1 DEF CoreInv, OwnInv, PoolTypeOK, QueueIsOwned, WorkersOwn, MainOwns, Busy
  <1> QED
    BY <1>1, <1>2, <1>3, <1>5, <1>6, <1>7, <1>8, <1>10, <1>12, <1>13, <1>14

\* A step of the router that starts a process.
LEMMA LaunchKeeps ==
  ASSUME CoreInv, Launch, UNCHANGED <<stopping, faults, configured, execVars>>,
         timers' \in Nat, armed' \in BOOLEAN, armed' => timers' > 0,
         CallsInv', PlacesInv', JoinedInv',
         outcome' \in [Commands -> Outcomes],
         \A c \in Commands : outcome'[c] = "none" => outcome[c] = "none",
         \A c \in Commands : outcome'[c] # "none" => call'[<<"run", c>>].pc = "done",
         \A x \in Range(micro') : x.answer = "lost" /\ call'[x.call].pc # "configuring"
  PROVE  CoreInv'
  <1>1. UNCHANGED <<execQueue, execRunning, concurrency>>
    BY DEF execVars
  <1>2. /\ OwnInv' /\ LinkInv' /\ GoneInv' /\ FramesInv' /\ Connected' /\ Alive' /\ ~ready' /\ ~ready
        /\ pending' \in Seq(RequestIds) /\ IsInjective(pending') /\ Range(pending') = {Ping}
        /\ inbox' = <<PingRequest>> /\ outbox' = <<>> /\ PingRequest.id = Ping
        /\ PingRequest.id[1] = "ping"
        /\ execQueue = <<>> /\ execRunning = {} /\ configured = {} /\ starters = <<>>
        /\ active' = {} /\ freed' = {} /\ main' = NoCommand
        /\ UNCHANGED <<phase, replies>>
    BY <1>1, LaunchIs
  <1>3. /\ execQueue' = <<>> /\ execRunning' = {} /\ configured' = {} /\ concurrency' = concurrency
        /\ Range(execQueue') = {} /\ Range(outbox') = {}
    BY <1>1, <1>2, NoneIs
  <1>4. QueuedInv'
    BY <1>3, NoneIs, ClientAssumption, FS_EmptySet DEF CoreInv, QueuedInv
  <1>5. KnownInv'
    BY <1>2, PoolAssumption DEF CoreInv, KnownInv
  <1>6. PendingInv'
    BY <1>2, <1>3 DEF Ping, PendingInv
  <1>7. ContentsInv'
    <2>1. Range(inbox') = {PingRequest}
      BY <1>2, OneIs
    <2>2. \A l \in Calls : <<"configure", l>> # Ping
      BY DEF Ping
    <2> QED
      BY <1>2, <1>3, <2>1, <2>2 DEF ContentsInv
  <1>8. ThereInv'
    BY <1>3 DEF ThereInv
  <1>9. SettledInv'
    BY DEF SettledInv
  <1> QED
    BY <1>2, <1>4, <1>5, <1>6, <1>7, <1>8, <1>9 DEF CoreInv

\* The session is looked up, and the process does not have its policy.
LEMMA EnsuresKeep ==
  ASSUME CoreInv, NEW k \in Calls, k[1] # "change", call[k].pc = "meta", micro = <<>>,
         EnsureConfigured(k), StartOrConfigure(k), UNCHANGED <<execVars, stopping, faults, micro>>
  PROVE  CoreInv'
  <1> DEFINE s == call[k].session
             first == configuring[s]
  <1>1. UNCHANGED <<desired, configured, cancelled, outcome>>
    BY DEF EnsureConfigured
  <1>2. micro' = <<>>
    OBVIOUS
  <1>3. s \in Sessions /\ call \in [Calls -> Call] /\ mixed \in BOOLEAN
        /\ configuring \in [Sessions -> Calls \cup {NoCall}]
    BY CallIs DEF CoreInv, CallsInv
  <1>4. CASE /\ first # NoCall
             /\ call' = [call EXCEPT ![k].pc = "joining", ![first].joined = Append(@, k)]
             /\ UNCHANGED configuring
    <2>1. call'[k].pc = "joining"
      BY <1>3, <1>4 DEF Call
    <2>2. UNCHANGED <<linkVars, pending, mixed, poolVars>>
      BY <2>1 DEF StartOrConfigure
    <2>3. Joins(k, first)
      BY <1>4 DEF Joins
    <2> QED
      BY <1>1, <1>2, <1>4, <2>2, <2>3, JoinsKeep
  <1>5. CASE /\ first = NoCall
             /\ call' = [call EXCEPT ![k].want = Wanted(s),
                                     ![k].pc = IF Connected /\ ready THEN "configuring" ELSE "starting"]
             /\ configuring' = [configuring EXCEPT ![s] = k]
    <2>1. CASE Connected /\ ready
      <3>1. Begins(k, "configuring")
        BY <1>5, <2>1 DEF Begins
      <3>2. /\ Moves(k) /\ call'[k].pc = "configuring" /\ call'[k].want \in Policies
            /\ call'[k].joined = call[k].joined
        BY <3>1, BeginsIs
      <3>3. Sent(<<ConfigureRequest(k)>>) /\ Mixed(k) /\ UNCHANGED <<linkVars, outbox>>
        BY <3>2 DEF StartOrConfigure
      <3>4. mixed' \in BOOLEAN
        BY <1>3, <3>3 DEF Mixed
      <3>5. PICK r : r = Request("configure", k, NoCommand, call[k].session, call'[k].want)
        OBVIOUS
      <3>6. Sent(<<r>>)
        BY <3>3, <3>5 DEF ConfigureRequest
      <3>7. /\ CallsOf(micro) = Woken \ {k} /\ micro \in Seq(Promise) /\ IsInjective(micro)
            /\ Range(micro) = {} /\ micro' = micro
        BY AsleepIs, NoneIs
      <3>8. /\ configuring' \in [Sessions -> Calls \cup {NoCall}]
            /\ \A z \in Sessions : configuring'[z] # NoCall =>
                  \/ configuring'[z] = configuring[z]
                  \/ configuring'[z] = k /\ call[k].session = z /\ k[1] # "change"
        BY <1>3, <1>5
      <3>9. call[k].pc \in {"meta", "starting", "proxy"} /\ (call[k].pc = "starting" => k \in Woken)
        OBVIOUS
      <3>10. Range(micro) \subseteq Range(micro) /\ \A x \in Range(micro) : Range(micro) # {x}
        BY <3>7
      <3>11. UNCHANGED <<linkVars, execVars, stopping, outcome, faults, outbox>>
        BY <1>1, <3>3
      <3> QED
        BY <1>1, <2>1, <3>2, <3>4, <3>5, <3>6, <3>7, <3>8, <3>9, <3>10, <3>11, ConfigureSent
    <2>2. CASE ~(Connected /\ ready)
      <3>1. Begins(k, "starting")
        BY <1>5, <2>2 DEF Begins
      <3>2. call'[k].pc = "starting"
        BY <3>1, BeginsIs
      <3>3. CASE /\ Connected /\ starters' = Append(starters, k)
                 /\ UNCHANGED <<generation, failed, ready, timers, armed, children, closing, pending,
                                mixed, poolVars>>
        BY <1>1, <1>2, <1>5, <2>2, <3>1, <3>3, StartsKeep
      <3>4. CASE /\ Launch /\ starters' = Append(starters, k) /\ UNCHANGED <<timers, armed, mixed>>
        <4>1. /\ timers' \in Nat /\ armed' \in BOOLEAN /\ (armed' => timers' > 0)
              /\ mixed' \in BOOLEAN
          BY <1>3, <3>4 DEF CoreInv, LinkInv
        <4>2. ~ready'
          BY <3>4 DEF Launch
        <4>3. configuring' = [configuring EXCEPT ![s] = k]
          BY <1>5
        <4>4. /\ CallsInv' /\ PlacesInv' /\ JoinedInv'
              /\ \A l \in Calls \ {k} : call'[l] = call[l]
          BY <1>1, <1>2, <3>1, <3>4, <4>1, <4>2, <4>3, StartingIs
        <4>5. Range(micro') = {}
          BY <1>2, NoneIs
        <4>6. /\ outcome' \in [Commands -> Outcomes]
              /\ \A c \in Commands : outcome'[c] = "none" => outcome[c] = "none"
          BY <1>1 DEF CoreInv, QueuedInv
        <4>7. \A c \in Commands : outcome'[c] # "none" => call'[<<"run", c>>].pc = "done"
          BY <1>1, <4>4, CallsAre DEF CoreInv, QueuedInv
        <4>8. UNCHANGED <<stopping, faults, configured, execVars>>
          BY <1>1
        <4>9. \A x \in Range(micro') : x.answer = "lost" /\ call'[x.call].pc # "configuring"
          BY <4>5
        <4> QED
          BY <3>4, <4>1, <4>4, <4>6, <4>7, <4>8, <4>9, LaunchKeeps
      <3> QED
        BY <3>2, <3>3, <3>4 DEF StartOrConfigure
    <2> QED
      BY <2>1, <2>2
  <1> QED
    BY <1>4, <1>5 DEF EnsureConfigured

LEMMA LooksKeep ==
  ASSUME CoreInv, NEW k \in Calls, LookedUp(k)
  PROVE  CoreInv'
  <1>1. micro = <<>> /\ k[1] # "change" /\ call[k].pc = "meta" /\ UNCHANGED micro
    BY DEF LookedUp
  <1>2. CASE /\ call[k].session \in configured /\ Proceed(k) /\ Goto(k, After(k))
             /\ UNCHANGED <<desired, configured, configuring, cancelled, mixed>>
    BY <1>1, <1>2, KnownKeep
  <1>3. CASE EnsureConfigured(k) /\ StartOrConfigure(k) /\ UNCHANGED <<execVars, stopping, faults>>
    BY <1>1, <1>3, EnsuresKeep
  <1>4. CASE FailCall(k) /\ UNCHANGED <<linkVars, execVars, pending, stopping, mixed, faults, poolVars>>
    BY <1>1, <1>4, RefusedKeep
  <1> QED
    BY <1>2, <1>3, <1>4 DEF LookedUp

\* A call fails because there is no process, and a process is started.
LEMMA KickedKeeps ==
  ASSUME CoreInv, NEW k \in Calls, FailCall(k), call[k].pc \in {"meta", "proxy"}, micro = <<>>,
         Launch, UNCHANGED <<starters, execVars, stopping, faults, mixed>>,
         timers' \in Nat, armed' \in BOOLEAN, armed' => timers' > 0,
         micro' = micro \o Continues(call[k].joined, "lost")
  PROVE  CoreInv'
  <1>1. /\ k \notin Woken /\ CallsOf(micro) = Woken \ {k}
        /\ micro \in Seq(Promise) /\ IsInjective(micro) /\ Range(micro) = {}
        /\ \A m \in Calls : k \notin Range(call[m].joined)
    BY AsleepIs, NoneIs
  <1>2. /\ Moves(k) /\ call'[k].pc = "done" /\ call'[k].joined = <<>>
        /\ call'[k].want = call[k].want /\ ~Underway(k)'
        /\ configuring' \in [Sessions -> Calls \cup {NoCall}]
        /\ \A s \in Sessions : configuring'[s] # NoCall =>
              configuring'[s] = configuring[s] /\ configuring[s] # k
        /\ \/ outcome' = outcome
           \/ /\ k[1] = "run" /\ call'[k].pc = "done"
              /\ outcome' = [outcome EXCEPT ![k[2]] = "lost"]
        /\ desired' \in [Sessions -> Policies \cup {NoPolicy}]
        /\ UNCHANGED <<desired, configured, cancelled>>
    BY <1>1, FailIs
  <1>3. ready' = ready
    BY DEF Launch, CoreInv, LinkInv
  <1>4. /\ PlacesInv' /\ JoinedInv'
        /\ \A x \in Range(micro') : \/ x \in Range(micro)
                                    \/ /\ x.answer = "lost" /\ x.call \in Range(call[k].joined)
    <2>1. "lost" \in Answers \cup {"lost"} /\ UNCHANGED <<starters, ready>>
      BY <1>3
    <2>2. Range(micro) \subseteq Range(micro)
      OBVIOUS
    <2>3. \A s \in Sessions : configuring'[s] # NoCall =>
             \/ configuring'[s] = configuring[s] /\ (configuring[s] = k => Underway(k)')
             \/ configuring'[s] = k /\ Underway(k)' /\ call[k].session = s /\ k[1] # "change"
      BY <1>2
    <2>4. call[k].pc # "starting" \/ k \in Woken
      OBVIOUS
    <2>5. call'[k].pc # "starting"
      BY <1>2
    <2>6. micro' = micro \o Continues(call[k].joined, "lost") /\ call'[k].joined = <<>>
      BY <1>2
    <2> QED
      BY <1>1, <1>2, <2>1, <2>2, <2>3, <2>4, <2>5, <2>6, GoesOn
  <1>5. CallsInv'
    BY <1>2, MovedCalls DEF CoreInv, CallsInv
  <1>6. \A l \in Calls \ {k} : call'[l] = call[l]
    BY <1>2 DEF Moves
  <1>7. \A x \in Range(micro') : x.answer = "lost" /\ call'[x.call].pc # "configuring"
    <2>1. \A l \in Range(call[k].joined) : l \in Calls /\ l # k /\ call[l].pc = "joining"
      BY <1>1, CallIs DEF CoreInv, JoinedInv
    <2> QED
      BY <1>1, <1>4, <1>6, <2>1
  <1>8. /\ outcome' \in [Commands -> Outcomes]
        /\ \A c \in Commands : outcome'[c] = "none" => outcome[c] = "none"
        /\ \A c \in Commands : outcome'[c] # "none" => call'[<<"run", c>>].pc = "done"
    <2>1. /\ outcome \in [Commands -> Outcomes]
          /\ \A c \in Commands : outcome[c] # "none" =>
                <<"run", c>> \in Calls /\ call[<<"run", c>>].pc = "done"
      BY CallsAre DEF CoreInv, QueuedInv
    <2>2. \A c \in Commands : outcome[c] # "none" => call'[<<"run", c>>].pc = "done"
      BY <1>2, <1>6, <2>1
    <2>3. CASE outcome' = outcome
      BY <2>1, <2>2, <2>3
    <2>4. CASE /\ k[1] = "run" /\ call'[k].pc = "done"
               /\ outcome' = [outcome EXCEPT ![k[2]] = "lost"]
      BY <2>1, <2>2, <2>4, CallsAre DEF Outcomes
    <2> QED
      BY <1>2, <2>3, <2>4
  <1>9. UNCHANGED <<stopping, faults, configured, execVars>>
    BY <1>2
  <1> QED
    BY <1>4, <1>5, <1>7, <1>8, <1>9, LaunchKeeps

\* The policy of a change, or the one with the proxy, is sent.
LEMMA ConfiguresAgain ==
  ASSUME CoreInv, NEW k \in Calls, micro = <<>>, Configure(k), UNCHANGED <<execVars, stopping, faults>>,
         \/ k[1] = "change" /\ call[k].pc = "meta"
         \/ call[k].pc = "proxy"
  PROVE  CoreInv'
  <1>1. /\ k \notin Woken /\ CallsOf(micro) = Woken \ {k}
        /\ micro \in Seq(Promise) /\ IsInjective(micro) /\ Range(micro) = {}
        /\ \A m \in Calls : k \notin Range(call[m].joined)
        /\ <<"configure", k>> \notin Range(pending) /\ <<"cancel", k>> \notin Range(pending)
    BY AsleepIs, NoneIs
  <1>2. call[k].pc \in {"meta", "proxy"} /\ call[k].want \in Policies /\ mixed \in BOOLEAN
    BY DEF CoreInv, CallsInv, Underway
  <1>3. Range(micro) \subseteq Range(micro) /\ \A x \in Range(micro) : Range(micro) # {x}
    BY <1>1
  <1>4. CASE /\ Connected /\ Mixed(k)
             /\ call' = [call EXCEPT ![k].pc = "configuring", ![k].second = (call[k].pc = "proxy")]
             /\ Sent(<<ConfigureRequest(k)>>)
             /\ UNCHANGED <<linkVars, micro, outbox, outcome, desired, configured, configuring, cancelled>>
    <2>1. call \in [Calls -> Call] /\ "configuring" \in Steps
      BY DEF CoreInv, CallsInv, Steps
    <2>2. call' = [call EXCEPT ![k] = [call[k] EXCEPT !.pc = "configuring", !.second = (call[k].pc = "proxy")]]
      BY <1>4, <2>1 DEF Call
    <2>3. /\ call' \in [Calls -> Call] /\ \A l \in Calls \ {k} : call'[l] = call[l]
          /\ call'[k].pc = "configuring" /\ call'[k].want = call[k].want
          /\ call'[k].joined = call[k].joined /\ call'[k].session = call[k].session
      BY <2>1, <2>2 DEF Call
    <2>4. Moves(k)
      BY <1>1, <2>3 DEF Moves
    <2>5. PICK r : r = Request("configure", k, NoCommand, call[k].session, call'[k].want)
      OBVIOUS
    <2>6. Sent(<<r>>)
      BY <1>4, <2>5 DEF ConfigureRequest
    <2>7. mixed' \in BOOLEAN /\ configuring' \in [Sessions -> Calls \cup {NoCall}]
      BY <1>2, <1>4 DEF Mixed, CoreInv, CallsInv
    <2>8. \A s \in Sessions : configuring'[s] # NoCall =>
             \/ configuring'[s] = configuring[s]
             \/ configuring'[s] = k /\ call[k].session = s /\ k[1] # "change"
      BY <1>4
    <2>9. call[k].pc \in {"meta", "starting", "proxy"} /\ (call[k].pc = "starting" => k \in Woken)
      BY <1>2
    <2>10. UNCHANGED <<linkVars, execVars, stopping, outcome, faults, outbox>> /\ micro' = micro
      BY <1>4
    <2>11. UNCHANGED <<desired, configured, cancelled>>
      BY <1>4
    <2>12. call'[k].want \in Policies
      BY <1>2, <2>3
    <2> QED
      BY <1>1, <1>3, <1>4, <2>3, <2>4, <2>5, <2>6, <2>7, <2>8, <2>9, <2>10, <2>11, <2>12, ConfigureSent
  <1>5. CASE /\ FailCall(k) /\ Kick /\ micro' = micro \o Continues(call[k].joined, "lost")
             /\ UNCHANGED mixed
    <2>1. CASE Launch /\ timers' = (IF armed THEN timers - 1 ELSE timers) /\ armed' = FALSE
               /\ UNCHANGED starters
      <3>1. timers' \in Nat /\ armed' \in BOOLEAN /\ (armed' => timers' > 0)
        <4>1. timers \in Nat /\ (armed => timers > 0)
          BY DEF CoreInv, LinkInv
        <4>2. timers' \in Nat
          BY <2>1, <4>1
        <4>3. armed' = FALSE
          BY <2>1
        <4> QED
          BY <4>2, <4>3
      <3> QED
        BY <1>2, <1>5, <2>1, <3>1, KickedKeeps
    <2>2. CASE UNCHANGED <<linkVars, pending, poolVars>>
      <3>1. /\ Moves(k) /\ call'[k].pc = "done" /\ call'[k].joined = <<>>
            /\ call'[k].want = call[k].want /\ ~Underway(k)'
            /\ configuring' \in [Sessions -> Calls \cup {NoCall}]
            /\ \A s \in Sessions : configuring'[s] # NoCall =>
                  configuring'[s] = configuring[s] /\ configuring[s] # k
            /\ \/ outcome' = outcome
               \/ /\ k[1] = "run" /\ call'[k].pc = "done"
                  /\ outcome' = [outcome EXCEPT ![k[2]] = "lost"]
            /\ desired' \in [Sessions -> Policies \cup {NoPolicy}]
            /\ UNCHANGED <<desired, configured, cancelled>>
        BY <1>1, <1>5, FailIs
      <3>2. faults' \in {faults, faults + 1} \cap 0..MaxFaults /\ mixed' \in BOOLEAN
        BY <1>2, <1>5 DEF CoreInv, LinkInv
      <3>3. "lost" \in Answers \cup {"lost"}
        OBVIOUS
      <3>4. call[k].pc # "done" /\ (call[k].pc # "starting" \/ k \in Woken)
        BY <1>2
      <3>5. call'[k].pc \notin {"starting", "meta"}
        BY <3>1
      <3>6. UNCHANGED <<linkVars, execVars, pending, stopping, poolVars>>
        BY <2>2
      <3> QED
        BY <1>1, <1>3, <1>5, <3>1, <3>2, <3>3, <3>4, <3>5, <3>6, ServerKeeps
    <2> QED
      BY <1>5, <2>1, <2>2 DEF Kick
  <1> QED
    BY <1>4, <1>5 DEF Configure

(***************************************************************************)
(* Promises that settle, and timers.                                       *)
(***************************************************************************)

\* The handshake succeeded: the policy that was picked before is sent.
LEMMA StartedKeeps ==
  ASSUME CoreInv, ContinueStarted
  PROVE  CoreInv'
  <1>0. PICK k, m : k = Settled.call /\ m = Tail(micro)
    OBVIOUS
  <1>1. /\ micro # <<>> /\ call[k].pc = "starting" /\ Settled.answer = "ok"
        /\ Goto(k, "configuring") /\ micro' = m /\ Mixed(k)
        /\ Sent(<<Request("configure", k, NoCommand, call[k].session, call[k].want)>>)
        /\ UNCHANGED <<linkVars, execVars, stopping, outcome, faults, outbox>>
        /\ UNCHANGED <<desired, configured, configuring, cancelled>>
    BY <1>0 DEF ContinueStarted, Going
  <1>3. /\ Settled \in Range(micro) /\ k \in Calls /\ k \in Woken /\ CallsOf(m) = Woken \ {k}
        /\ m \in Seq(Promise) /\ IsInjective(m) /\ Range(m) = Range(micro) \ {Settled}
        /\ \A l \in Calls : k \notin Range(call[l].joined)
        /\ \A x \in Range(m) : Range(micro) # {x}
        /\ Connected
    BY <1>0, <1>1, HandledIs
  <1>4. "configuring" \in Steps
    BY DEF Steps
  <1>5. /\ Moves(k) /\ call'[k].pc = "configuring" /\ call'[k].want = call[k].want
        /\ call'[k].joined = call[k].joined
    BY <1>1, <1>3, <1>4, GotoIs
  <1>6. call'[k].want \in Policies
    BY <1>1, <1>3, <1>5 DEF CoreInv, CallsInv, Underway
  <1>7. PICK r : r = Request("configure", k, NoCommand, call[k].session, call'[k].want)
    OBVIOUS
  <1>8. Sent(<<r>>)
    BY <1>1, <1>5, <1>7
  <1>9. /\ mixed' \in BOOLEAN /\ configuring' \in [Sessions -> Calls \cup {NoCall}]
        /\ \A s \in Sessions : configuring'[s] # NoCall =>
             \/ configuring'[s] = configuring[s]
             \/ configuring'[s] = k /\ call[k].session = s /\ k[1] # "change"
    BY <1>1 DEF Mixed, CoreInv, CallsInv
  <1>10. call[k].pc \in {"meta", "starting", "proxy"} /\ (call[k].pc = "starting" => k \in Woken)
    BY <1>1, <1>3
  <1>11. Range(m) \subseteq Range(micro)
    BY <1>3
  <1>12. UNCHANGED <<linkVars, execVars, stopping, outcome, faults, outbox>> /\ micro' = m
    BY <1>1
  <1>13. UNCHANGED <<desired, configured, cancelled>>
    BY <1>1
  <1> QED
    BY <1>3, <1>5, <1>6, <1>7, <1>8, <1>9, <1>10, <1>11, <1>12, <1>13, ConfigureSent

LEMMA ContinuesKeep ==
  ASSUME CoreInv, Continue
  PROVE  CoreInv'
  BY StartedKeeps, ProxyKeeps, ChangedKeeps, ConfiguredKeep, JoinedKeep, CancelledKeep, FailedKeep
     DEF Continue

\* Timers are set and cleared, and old processes noticed, without any effect.
LEMMA LinkOnly ==
  ASSUME CoreInv, UNCHANGED <<generation, failed, ready, starters, children, execVars, pending>>,
         UNCHANGED <<micro, outcome, poolVars, stopping, faults, routerVars>>,
         closing' \subseteq closing, timers' \in Nat, armed' \in BOOLEAN, armed' => timers' > 0
  PROVE  CoreInv'
  <1>1. /\ UNCHANGED <<execQueue, execRunning, concurrency>>
        /\ UNCHANGED <<inbox, outbox, policy, queue, active, raised, worker, main, freed, phase, replies>>
        /\ UNCHANGED <<call, desired, configured, configuring, cancelled, mixed>>
    BY DEF execVars, poolVars, routerVars
  <1>2. OwnInv' /\ KnownInv'
    BY <1>1, PoolStays, SameKnown DEF CoreInv
  <1>3. LinkInv' /\ Connected' = Connected /\ Alive' = Alive
    BY DEF CoreInv, LinkInv, Connected, Alive
  <1>4. GoneInv'
    BY <1>1, <1>3 DEF CoreInv, GoneInv
  <1>5. CallsInv' /\ JoinedInv' /\ PlacesInv'
    <2>1. Woken' = Woken
      BY DEF Woken
    <2> QED
      BY <1>1, <2>1 DEF CoreInv, CallsInv, JoinedInv, PlacesInv, Underway
  <1>6. QueuedInv'
    BY <1>1 DEF CoreInv, QueuedInv
  <1>7. PendingInv'
    <2>1. Woken' = Woken
      BY DEF Woken
    <2> QED
      BY <1>1, <1>3, <2>1 DEF CoreInv, PendingInv
  <1>8. FramesInv' /\ ContentsInv'
    BY <1>1, SameFrames
  <1>9. ThereInv' /\ SettledInv'
    BY <1>1, <1>3 DEF CoreInv, ThereInv, SettledInv, There
  <1> QED
    BY <1>2, <1>3, <1>4, <1>5, <1>6, <1>7, <1>8, <1>9 DEF CoreInv

\* A restart timer goes off.
LEMMA TimersKeep ==
  ASSUME CoreInv, TimerFires, UNCHANGED routerVars
  PROVE  CoreInv'
  <1>1. /\ micro = <<>> /\ timers > 0 /\ timers' = timers - 1 /\ armed' = FALSE
        /\ UNCHANGED <<starters, execVars, stopping, micro, outcome, faults>>
        /\ UNCHANGED <<call, desired, configured, configuring, cancelled, mixed>>
    BY DEF TimerFires, routerVars
  <1>2. timers' \in Nat /\ armed' \in BOOLEAN /\ (armed' => timers' > 0)
    <2>1. timers \in Nat
      BY DEF CoreInv, LinkInv
    <2>2. timers' \in Nat
      BY <1>1, <2>1
    <2>3. armed' = FALSE
      BY <1>1
    <2> QED
      BY <2>2, <2>3
  <1>3. CASE Launch
    <2>1. Woken' = Woken
      BY <1>1 DEF Woken
    <2>2. CallsInv' /\ JoinedInv'
      BY <1>1, <2>1 DEF CoreInv, CallsInv, JoinedInv, Underway
    <2>3. ~ready'
      BY <1>3 DEF Launch
    <2>4. PlacesInv'
      BY <1>1, <2>1, <2>3 DEF CoreInv, PlacesInv
    <2>5. /\ outcome' \in [Commands -> Outcomes]
          /\ \A c \in Commands : outcome'[c] = "none" => outcome[c] = "none"
          /\ \A c \in Commands : outcome'[c] # "none" => call'[<<"run", c>>].pc = "done"
      BY <1>1 DEF CoreInv, QueuedInv
    <2>6. \A x \in Range(micro') : x.answer = "lost" /\ call'[x.call].pc # "configuring"
      BY <1>1, NoneIs
    <2>7. UNCHANGED <<stopping, faults, configured, execVars>>
      BY <1>1
    <2> QED
      BY <1>2, <1>3, <2>2, <2>4, <2>5, <2>6, <2>7, LaunchKeeps
  <1>4. CASE UNCHANGED <<generation, failed, ready, children, closing, pending, poolVars>>
    BY <1>1, <1>2, <1>4, LinkOnly
  <1> QED
    BY <1>3, <1>4 DEF TimerFires

\* The process dies; what it has written can still be read.
LEMMA CrashKeeps ==
  ASSUME CoreInv, ClientCrash
  PROVE  CoreInv'
  <1>1. /\ Alive /\ faults < MaxFaults /\ faults' = faults + 1
        /\ children' = children \ {generation} /\ closing' = closing \cup {generation}
        /\ inbox' = <<>> /\ policy' = [s \in Sessions |-> NoPolicy] /\ queue' = <<>>
        /\ active' = {} /\ raised' = {} /\ freed' = {} /\ worker' = [w \in Workers |-> IdleWorker]
        /\ main' = NoCommand
        /\ UNCHANGED <<outbox, phase, replies, generation, failed, ready, starters, timers, armed,
                       execVars, pending, stopping, micro, outcome>>
        /\ UNCHANGED routerVars /\ micro = <<>>
    BY DEF ClientCrash, Crash
  <1>2. /\ UNCHANGED <<execQueue, execRunning, concurrency>>
        /\ UNCHANGED <<call, desired, configured, configuring, cancelled, mixed>>
    BY <1>1 DEF execVars, routerVars
  <1>3. /\ children' = {} /\ ~Alive' /\ Connected /\ Connected'
    BY <1>1 DEF CoreInv, LinkInv, Alive, Connected
  <1>4. LinkInv'
    BY <1>1, <1>3, ClientAssumption DEF CoreInv, LinkInv
  <1>5. GoneInv'
    BY <1>1, <1>3 DEF GoneInv
  <1>6. OwnInv'
    BY <1>1, EmptySeq DEF CoreInv, OwnInv, PoolTypeOK, IdleWorker, Busy, WorkerSteps, RunsAreNew,
       QueueIsOwned, WorkersOwn, MainOwns
  <1>7. KnownInv'
    BY <1>1, <1>2, PoolAssumption DEF CoreInv, KnownInv
  <1>8. Woken' = Woken
    BY <1>1 DEF Woken
  <1>9. CallsInv' /\ JoinedInv' /\ PlacesInv'
    BY <1>1, <1>2, <1>8 DEF CoreInv, CallsInv, JoinedInv, PlacesInv, Underway
  <1>10. QueuedInv'
    BY <1>1, <1>2 DEF CoreInv, QueuedInv
  <1>11. PendingInv'
    BY <1>1, <1>2, <1>3, <1>8 DEF CoreInv, PendingInv
  <1>12. Range(inbox') = {} /\ IsInjective(inbox') /\ Range(micro') = {}
    BY <1>1, NoneIs
  <1>13. FramesInv' /\ ContentsInv'
    BY <1>1, <1>2, <1>12 DEF CoreInv, FramesInv, ContentsInv
  <1>14. ThereInv' /\ SettledInv'
    BY <1>3, <1>12 DEF ThereInv, SettledInv, There
  <1> QED
    BY <1>4, <1>5, <1>6, <1>7, <1>9, <1>10, <1>11, <1>13, <1>14 DEF CoreInv

(***************************************************************************)
(* The process ends.                                                       *)
(***************************************************************************)

\* Those who wait for an answer of the process, one by one.
LEMMA AskersAre ==
  ASSUME CoreInv, NEW ids, ids = Chosen(pending, {i \in DOMAIN pending : pending[i][1] \notin {"run", "ping"}}),
         NEW calls, calls = [i \in DOMAIN ids |-> ids[i][2]]
  PROVE  /\ calls \in Seq(Calls) /\ IsInjective(calls)
         /\ \A k \in Range(calls) : k \in Calls /\ call[k].pc \in {"configuring", "cancelling"}
  <1> DEFINE P == {i \in DOMAIN pending : pending[i][1] \notin {"run", "ping"}}
  <1>1. pending \in Seq(RequestIds) /\ IsInjective(pending)
    BY DEF CoreInv, PendingInv
  <1>2. /\ ids \in Seq(RequestIds) /\ IsInjective(ids) /\ Range(ids) = {pending[i] : i \in P}
    BY <1>1, ChosenIs
  <1>3. \A id \in Range(ids) : id \in Range(pending) /\ id \in RequestIds /\ id[1] \notin {"run", "ping"}
    <2> TAKE id \in Range(ids)
    <2>1. PICK i \in P : id = pending[i]
      BY <1>2
    <2>2. id \in Range(pending) /\ id[1] \notin {"run", "ping"}
      BY <2>1 DEF Range
    <2>3. id \in RequestIds
      BY <1>1, <2>2, RangeOfSeq
    <2> QED
      BY <2>2, <2>3
  <1>4. ASSUME NEW id \in Range(ids)
        PROVE  /\ id[2] \in Calls
               /\ \/ id = <<"configure", id[2]>> /\ call[id[2]].pc = "configuring"
                  \/ id = <<"cancel", id[2]>> /\ call[id[2]].pc = "cancelling"
    <2>1. id[1] \in {"configure", "cancel"} /\ id[2] \in Callers /\ id = <<id[1], id[2]>>
      BY <1>3, CallsAre DEF Ops
    <2>2. CASE id[1] = "configure"
      BY <1>3, <2>1, <2>2 DEF CoreInv, PendingInv
    <2>3. CASE id[1] = "cancel"
      BY <1>3, <2>1, <2>3 DEF CoreInv, PendingInv
    <2> QED
      BY <2>1, <2>2, <2>3
  <1>5. \A i \in DOMAIN ids : ids[i] \in Range(ids) /\ calls[i] = ids[i][2]
    BY DEF Range
  <1>6. DOMAIN calls = DOMAIN ids /\ calls \in [DOMAIN ids -> Calls]
    BY <1>4, <1>5
  <1>7. calls \in Seq(Calls)
    BY <1>2, <1>6, ImageIs
  <1>8. IsInjective(calls)
    <2>1. ASSUME NEW i \in DOMAIN calls, NEW j \in DOMAIN calls, calls[i] = calls[j]
          PROVE  i = j
      <3>1. /\ ids[i] \in Range(ids) /\ ids[j] \in Range(ids)
            /\ ids[i][2] = ids[j][2]
        BY <1>5, <1>6, <2>1
      <3>2. ids[i] = ids[j]
        BY <1>4, <3>1
      <3> QED
        BY <1>2, <1>6, <3>2 DEF IsInjective
    <2> QED
      BY <2>1 DEF IsInjective
  <1>9. \A k \in Range(calls) : k \in Calls /\ call[k].pc \in {"configuring", "cancelling"}
    <2> TAKE k \in Range(calls)
    <2>1. PICK i \in DOMAIN calls : k = calls[i]
      BY DEF Range
    <2>2. ids[i] \in Range(ids) /\ k = ids[i][2]
      BY <1>5, <1>6, <2>1
    <2> QED
      BY <1>4, <2>2
  <1> QED
    BY <1>7, <1>8, <1>9

\* failConnection(): everyone who waits is told so.
LEMMA FailsKeep ==
  ASSUME CoreInv, Connected, micro = <<>>, NEW restart \in BOOLEAN, FailConnection(restart), Invalidate,
         closing' \subseteq 0..generation, faults' \in 0..MaxFaults, faults <= faults',
         UNCHANGED stopping, ~stopping => generation <= faults'
  PROVE  CoreInv'
  <1>1. /\ failed' = generation /\ ready' = FALSE /\ RejectAll /\ Kill /\ ScheduleRestart(restart)
        /\ UNCHANGED <<generation, concurrency>>
    BY DEF FailConnection
  <1>2. /\ configured' = {} /\ configuring' = [s \in Sessions |-> NoCall]
        /\ UNCHANGED <<call, desired, cancelled, mixed>>
    BY DEF Invalidate
  <1>3. /\ Replaced /\ children' = children \ {generation}
    BY <1>1 DEF Kill
  <1>4. /\ inbox' = <<>> /\ outbox' = <<>> /\ policy' = [s \in Sessions |-> NoPolicy]
        /\ queue' = <<>> /\ active' = {} /\ raised' = {} /\ worker' = [w \in Workers |-> IdleWorker]
        /\ main' = NoCommand /\ freed' = {} /\ UNCHANGED <<phase, replies>>
    BY <1>3 DEF Replaced
  <1>5. OwnInv'
    BY <1>3, ReplacedKeeps DEF CoreInv
  <1>6. children' = {} /\ ~Connected' /\ ~Alive' /\ generation \in Nat
    BY <1>1, <1>3 DEF CoreInv, LinkInv, Connected, Alive
  <1>7. LinkInv'
    <2>1. timers' \in Nat /\ armed' \in BOOLEAN /\ (armed' => timers' > 0)
      <3>1. timers \in Nat /\ armed \in BOOLEAN /\ (armed => timers > 0)
        BY DEF CoreInv, LinkInv
      <3>2. /\ timers' = (IF restart THEN timers + 1 ELSE timers)
            /\ armed' = (armed \/ restart)
        BY <1>1 DEF ScheduleRestart
      <3>3. CASE restart
        BY <3>1, <3>2, <3>3
      <3>4. CASE ~restart
        BY <3>1, <3>2, <3>4
      <3> QED
        BY <3>3, <3>4
    <2>2. generation <= faults' + 1
      <3>1. generation <= faults + 1 /\ faults \in Nat /\ faults' \in Nat
        BY ClientAssumption DEF CoreInv, LinkInv
      <3>2. \A a, b, d \in Nat : a <= b + 1 /\ b <= d => a <= d + 1
        OBVIOUS
      <3> QED
        BY <1>6, <3>1, <3>2, Zenon
    <2>3. stopping' \in BOOLEAN /\ failed' \in 0..generation'
      BY <1>1, <1>6 DEF CoreInv, LinkInv
    <2> QED
      BY <1>1, <1>6, <2>1, <2>2, <2>3 DEF LinkInv
  <1> DEFINE ids == Chosen(pending, {i \in DOMAIN pending : pending[i][1] \notin {"run", "ping"}})
             calls == [i \in DOMAIN ids |-> ids[i][2]]
  <1>8. /\ pending' = <<>> /\ starters' = <<>> /\ execQueue' = <<>> /\ execRunning' = {}
        /\ micro' = micro \o Continues(calls \o starters, "lost")
        /\ outcome' = [c \in Commands |-> IF c \in Lost THEN "lost" ELSE outcome[c]]
    BY <1>1 DEF RejectAll
  <1>9. /\ calls \in Seq(Calls) /\ IsInjective(calls)
        /\ \A k \in Range(calls) : k \in Calls /\ call[k].pc \in {"configuring", "cancelling"}
    BY AskersAre
  <1> HIDE DEF calls
  <1>10. /\ starters \in Seq(Calls) /\ IsInjective(starters) /\ Range(starters) \subseteq Calls
         /\ \A k \in Range(starters) : call[k].pc = "starting"
    BY RangeOfSeq DEF CoreInv, PlacesInv
  <1>11. /\ calls \o starters \in Seq(Calls) /\ IsInjective(calls \o starters)
         /\ Range(calls \o starters) = Range(calls) \cup Range(starters)
    BY <1>9, <1>10, ConcatIs
  <1>12. micro \in Seq(Promise) /\ IsInjective(micro) /\ Range(micro) = {} /\ CallsOf(micro) = {}
         /\ Woken = {}
    BY NoneIs DEF CallsOf, Woken, CoreInv, PlacesInv
  <1> DEFINE all == calls \o starters
  <1> HIDE DEF all
  <1>13. /\ micro' \in Seq(Promise) /\ IsInjective(micro')
         /\ Range(micro') = Range(micro) \cup {[call |-> k, answer |-> "lost"] : k \in Range(all)}
         /\ \A x, y \in Range(micro') : x.call = y.call => x = y
         /\ Woken' = CallsOf(micro) \cup Range(all)
    <2>1. /\ all \in Seq(Calls) /\ IsInjective(all) /\ \A k \in Range(all) : k \notin CallsOf(micro)
          /\ micro' = micro \o Continues(all, "lost")
      BY <1>8, <1>11, <1>12 DEF all
    <2>2. PICK a \in Answers \cup {"lost"} : a = "lost"
      OBVIOUS
    <2>3. Range(micro) \subseteq Range(micro) /\ micro' = micro \o Continues(all, a)
      BY <2>1, <2>2
    <2>4. /\ micro' \in Seq(Promise) /\ IsInjective(micro')
          /\ Range(micro') = Range(micro) \cup {[call |-> k, answer |-> a] : k \in Range(all)}
          /\ \A x, y \in Range(micro') : x.call = y.call => x = y
          /\ Woken' = CallsOf(micro) \cup Range(all)
      BY <1>12, <2>1, <2>3, MoreSettle
    <2> QED
      BY <2>2, <2>4
  <1>14. Woken' = Range(calls) \cup Range(starters) /\ \A x \in Range(micro') : x.answer = "lost"
    BY <1>11, <1>12, <1>13 DEF all
  <1>15. \A k \in Woken' : k \in Calls /\ call[k].pc \in {"starting", "configuring", "cancelling"}
    BY <1>9, <1>10, <1>14
  <1>16. GoneInv'
    BY <1>1, <1>2, <1>4, <1>6, <1>8 DEF GoneInv
  <1>17. CallsInv'
    BY <1>2 DEF CoreInv, CallsInv, Underway
  <1>18. QueuedInv'
    BY <1>1, <1>2, <1>8, NoneIs, ClientAssumption, FS_EmptySet DEF CoreInv, QueuedInv, Outcomes,
       Lost
  <1>19. KnownInv'
    BY <1>4, <1>8, PoolAssumption DEF Lost, CoreInv, KnownInv
  <1>20. PlacesInv'
    BY <1>2, <1>8, <1>12, <1>13, <1>14, <1>15, NoneIs DEF CoreInv, PlacesInv
  <1>21. JoinedInv'
    <2>1. \A s \in Sessions : configuring'[s] = NoCall
      BY <1>2
    <2>2. ASSUME NEW k \in Calls, NEW l \in Range(call[k].joined)
          PROVE  l \notin Woken'
      BY <1>15, <2>2 DEF CoreInv, JoinedInv
    <2> QED
      BY <1>2, <2>1, <2>2 DEF CoreInv, JoinedInv, Underway
  <1>22. Range(pending') = {} /\ Range(inbox') = {} /\ Range(outbox') = {} /\ Range(execQueue') = {}
         /\ pending' \in Seq(RequestIds) /\ IsInjective(pending')
         /\ IsInjective(inbox') /\ IsInjective(outbox')
    BY <1>4, <1>8, NoneIs
  <1>23. PendingInv' /\ FramesInv' /\ ContentsInv'
    BY <1>6, <1>8, <1>22 DEF PendingInv, FramesInv, ContentsInv
  <1>24. ThereInv'
    BY <1>2, <1>8, <1>14, <1>22 DEF ThereInv
  <1>25. SettledInv'
    BY <1>6, <1>14 DEF SettledInv
  <1> QED
    BY <1>5, <1>7, <1>16, <1>17, <1>18, <1>19, <1>20, <1>21, <1>23, <1>24, <1>25 DEF CoreInv

\* The current process has exited or is given up.
LEMMA TimeoutKeeps ==
  ASSUME CoreInv, Timeout, Invalidate
  PROVE  CoreInv'
  <1>1. /\ micro = <<>> /\ Connected /\ faults < MaxFaults /\ faults' = faults + 1
        /\ FailConnection(~stopping) /\ UNCHANGED stopping
        /\ closing' = (IF Alive THEN closing \cup {generation} ELSE closing)
    BY DEF Timeout
  <1>2. /\ generation \in Nat /\ closing \subseteq 0..generation /\ faults \in 0..MaxFaults
        /\ stopping \in BOOLEAN /\ generation <= faults + 1
    BY DEF CoreInv, LinkInv
  <1>3. closing' \subseteq 0..generation /\ (~stopping) \in BOOLEAN
    BY <1>1, <1>2
  <1>4. faults' \in 0..MaxFaults /\ faults <= faults' /\ generation <= faults'
    BY <1>1, <1>2, ClientAssumption
  <1> QED
    BY <1>1, <1>3, <1>4, FailsKeep

LEMMA ExitsKeep ==
  ASSUME CoreInv, CoreExit
  PROVE  CoreInv'
  <1>1. /\ generation \in Nat /\ closing \subseteq 0..generation /\ faults \in 0..MaxFaults
        /\ faults \in Nat /\ stopping \in BOOLEAN /\ failed \in 0..generation
    BY ClientAssumption DEF CoreInv, LinkInv
  <1>2. CASE Stopped
    <2>1. /\ micro = <<>> /\ Connected /\ stopping /\ FailConnection(FALSE)
          /\ UNCHANGED <<stopping, faults>>
          /\ closing' = (IF Alive THEN closing \cup {generation} ELSE closing)
      BY <1>2 DEF Stopped
    <2>2. closing' \subseteq 0..generation /\ FALSE \in BOOLEAN
      BY <1>1, <2>1
    <2>3. failed' # failed
      BY <2>1 DEF FailConnection, Connected
    <2>4. Invalidate
      BY <2>3 DEF CoreExit
    <2>5. faults' \in 0..MaxFaults /\ faults <= faults' /\ (~stopping => generation <= faults')
      BY <1>1, <2>1
    <2> QED
      BY <2>1, <2>2, <2>4, <2>5, FailsKeep
  <1>3. ASSUME NEW g \in closing, CloseEvent(g)
        PROVE  CoreInv'
    <2>1. micro = <<>> /\ UNCHANGED <<stopping, faults>>
      BY <1>3 DEF CloseEvent
    <2>2. CASE g = generation /\ Connected /\ FailConnection(~stopping) /\ closing' = closing \ {g}
      <3>1. closing' \subseteq 0..generation /\ (~stopping) \in BOOLEAN
        BY <1>1, <2>2
      <3>2. failed' # failed
        BY <2>2 DEF FailConnection, Connected
      <3>3. Invalidate
        BY <3>2 DEF CoreExit
      <3>4. ~stopping => generation <= faults
        BY <1>3, <2>2 DEF CoreInv, LinkInv
      <3>5. faults' \in 0..MaxFaults /\ faults <= faults' /\ (~stopping => generation <= faults')
        BY <1>1, <2>1, <3>4
      <3> QED
        BY <2>1, <2>2, <3>1, <3>3, <3>5, FailsKeep
    <2>3. CASE /\ closing' = closing \ {g}
               /\ UNCHANGED <<generation, failed, ready, starters, timers, armed, children, execVars,
                              pending, micro, outcome, poolVars>>
      BY <2>1, <2>3, LinkOnly DEF CoreExit, CoreInv, LinkInv
    <2> QED
      BY <1>3, <2>2, <2>3 DEF CloseEvent
  <1> QED
    BY <1>2, <1>3 DEF CoreExit, Exits

(***************************************************************************)
(* Answers.                                                                *)
(***************************************************************************)

\* The frame that is received, and the requests that still wait.
LEMMA ReceivedIs ==
  ASSUME CoreInv, Receiving, outbox' = Tail(outbox)
  PROVE  /\ Frame \in Range(outbox) /\ Frame \in Responses /\ Frame.id \in RequestIds
         /\ Frame.id \in Range(pending) /\ Frame.answer \in Answers /\ Connected /\ micro = <<>>
         /\ outbox' \in Seq(Responses) /\ IsInjective(outbox') /\ Range(outbox') \subseteq Range(outbox)
         /\ Answered \in Seq(RequestIds) /\ IsInjective(Answered)
         /\ Range(Answered) = Range(pending) \ {Frame.id}
         /\ \A x \in Range(inbox) \cup Range(outbox') : x.id \in Range(Answered)
         /\ outbox[1] = Frame
  <1>1. micro = <<>> /\ outbox # <<>> /\ Connected /\ Frame.id \in Range(pending)
    BY DEF Receiving
  <1>2. outbox \in Seq(Responses) /\ IsInjective(outbox)
    BY FramesAre DEF CoreInv, FramesInv
  <1>3. /\ Frame \in Range(outbox) /\ Frame \in Responses /\ Frame = outbox[1]
        /\ outbox' \in Seq(Responses) /\ IsInjective(outbox') /\ Frame \notin Range(outbox')
        /\ Range(outbox) = {Frame} \cup Range(outbox')
    BY <1>1, <1>2, TailIs DEF Frame
  <1>4. Frame.id \in RequestIds /\ Frame.answer \in Answers
    BY <1>3 DEF Responses
  <1>5. \A x \in Range(inbox) \cup Range(outbox') : x.id # Frame.id
    BY <1>3 DEF CoreInv, FramesInv
  <1>6. pending \in Seq(RequestIds) /\ IsInjective(pending)
    BY DEF CoreInv, PendingInv
  <1>7. /\ Answered \in Seq(RequestIds) /\ IsInjective(Answered)
        /\ Range(Answered) = Range(pending) \ {Frame.id}
    BY <1>6, WithoutIs DEF Answered
  <1>8. \A x \in Range(inbox) \cup Range(outbox') : x.id \in Range(Answered)
    BY <1>3, <1>5, <1>7 DEF CoreInv, FramesInv
  <1> QED
    BY <1>1, <1>3, <1>4, <1>7, <1>8

\* What is the same when an answer to another request than exec.run has come.
LEMMA HeardIs ==
  ASSUME CoreInv, Receiving, outbox' = Tail(outbox), pending' = Answered, Frame.id[1] # "run",
         UNCHANGED <<execVars, outcome, call>>,
         UNCHANGED <<inbox, policy, queue, active, raised, worker, main, freed, phase, replies>>
  PROVE  /\ OwnInv' /\ QueuedInv' /\ KnownInv' /\ FramesInv' /\ ContentsInv'
         /\ pending' \in Seq(RequestIds) /\ IsInjective(pending')
         /\ \A c \in Commands : <<"run", c>> \in Range(pending') <=> c \in execRunning'
  <1>1. /\ outbox' \in Seq(Responses) /\ IsInjective(outbox') /\ Range(outbox') \subseteq Range(outbox)
        /\ Answered \in Seq(RequestIds) /\ IsInjective(Answered)
        /\ Range(Answered) = Range(pending) \ {Frame.id}
        /\ \A x \in Range(inbox) \cup Range(outbox') : x.id \in Range(Answered)
    BY ReceivedIs
  <1>2. UNCHANGED <<execQueue, execRunning, concurrency>>
    BY DEF execVars
  <1>3. OwnInv'
    BY <1>1 DEF CoreInv, OwnInv, PoolTypeOK, RunsAreNew, QueueIsOwned, WorkersOwn, MainOwns, Busy
  <1>4. QueuedInv'
    BY <1>2 DEF CoreInv, QueuedInv
  <1>5. KnownInv'
    BY <1>2, SameKnown
  <1>6. FramesInv'
    BY <1>1 DEF CoreInv, FramesInv
  <1>7. ContentsInv'
    BY <1>1 DEF CoreInv, ContentsInv
  <1>8. \A c \in Commands : <<"run", c>> \in Range(pending') <=> c \in execRunning'
    <2>1. \A c \in Commands : <<"run", c>> # Frame.id
      OBVIOUS
    <2> QED
      BY <1>1, <1>2, <2>1 DEF CoreInv, PendingInv
  <1> QED
    BY <1>1, <1>3, <1>4, <1>5, <1>6, <1>7, <1>8

\* The handshake is over.
LEMMA PongKeeps ==
  ASSUME CoreInv, CoreReady
  PROVE  CoreInv'
  <1>1. /\ Receiving /\ Frame.id = Ping /\ outbox' = Tail(outbox) /\ pending' = Answered
        /\ ready' = TRUE /\ starters' = <<>> /\ micro' = Continues(starters, "ok")
        /\ UNCHANGED <<generation, failed, timers, armed, children, closing, execVars, stopping,
                       outcome, faults>>
        /\ UNCHANGED <<inbox, policy, queue, active, raised, worker, main, freed, phase, replies>>
        /\ configured' = {} /\ configuring' = [s \in Sessions |-> NoCall]
        /\ UNCHANGED <<call, desired, cancelled, mixed>>
    BY DEF CoreReady, OnPong, Invalidate
  <1>2. /\ Connected /\ micro = <<>>
        /\ outbox' \in Seq(Responses) /\ IsInjective(outbox') /\ Range(outbox') \subseteq Range(outbox)
        /\ Range(Answered) = Range(pending) \ {Frame.id}
    BY <1>1, ReceivedIs
  <1>3. /\ OwnInv' /\ QueuedInv' /\ KnownInv' /\ FramesInv' /\ ContentsInv'
        /\ pending' \in Seq(RequestIds) /\ IsInjective(pending')
        /\ \A c \in Commands : <<"run", c>> \in Range(pending') <=> c \in execRunning'
    BY <1>1, HeardIs DEF Ping
  <1>4. Connected' /\ Alive' = Alive /\ ready'
    BY <1>1, <1>2 DEF Connected, Alive
  <1>5. LinkInv'
    BY <1>1, <1>2, <1>4 DEF CoreInv, LinkInv
  <1>6. GoneInv'
    BY <1>1, <1>4 DEF CoreInv, GoneInv
  <1>7. CallsInv'
    BY <1>1 DEF CoreInv, CallsInv, Underway
  <1>8. /\ starters \in Seq(Calls) /\ IsInjective(starters) /\ Range(starters) \subseteq Calls
        /\ \A k \in Range(starters) : call[k].pc = "starting"
    BY RangeOfSeq DEF CoreInv, PlacesInv
  <1>9. /\ micro' \in Seq(Promise) /\ IsInjective(micro')
        /\ \A x \in Range(micro') : x.answer = "ok" /\ x.call \in Range(starters)
        /\ \A x, y \in Range(micro') : x.call = y.call => x = y
        /\ Woken' = Range(starters)
    BY <1>1, <1>8, ContinuesIs DEF Answers, Woken, CallsOf
  <1>10. PlacesInv'
    BY <1>1, <1>2, <1>8, <1>9, NoneIs DEF Woken, CoreInv, PlacesInv
  <1>11. JoinedInv'
    <2>1. \A s \in Sessions : configuring'[s] = NoCall
      BY <1>1
    <2>2. ASSUME NEW k \in Calls, NEW l \in Range(call[k].joined)
          PROVE  l \notin Woken'
      BY <1>8, <1>9, <2>2 DEF CoreInv, JoinedInv
    <2> QED
      BY <1>1, <2>1, <2>2 DEF CoreInv, JoinedInv, Underway
  <1>12. PendingInv'
    BY <1>1, <1>2, <1>3, <1>4, <1>8, <1>9 DEF CoreInv, PendingInv
  <1>13. UNCHANGED <<execQueue, execRunning>>
    BY <1>1 DEF execVars
  <1>14. \A x \in Range(micro') : call'[x.call].pc = "starting"
    BY <1>1, <1>8, <1>9
  <1>15. ThereInv'
    BY <1>1, <1>2, <1>4, <1>13, <1>14 DEF There, CoreInv, ThereInv
  <1>16. SettledInv'
    BY <1>4, <1>14 DEF SettledInv
  <1> QED
    BY <1>3, <1>5, <1>6, <1>7, <1>10, <1>11, <1>12, <1>15, <1>16 DEF CoreInv

\* A policy or a cancellation is answered.
LEMMA AnsweringCalls ==
  ASSUME CoreInv, OnAnswer, UNCHANGED routerVars
  PROVE  CoreInv'
  <1>1. /\ Receiving /\ Frame.id[1] \in {"configure", "cancel"} /\ outbox' = Tail(outbox)
        /\ pending' = Answered
        /\ micro' = <<[call |-> Frame.id[2], answer |-> Frame.answer]>>
        /\ UNCHANGED <<linkVars, execVars, stopping, outcome, faults>>
        /\ UNCHANGED <<inbox, policy, queue, active, raised, worker, main, freed, phase, replies>>
        /\ UNCHANGED <<call, desired, configured, configuring, cancelled, mixed>>
    BY DEF OnAnswer, routerVars
  <1>2. /\ Connected /\ micro = <<>> /\ Frame.id \in RequestIds /\ Frame.id \in Range(pending)
        /\ Frame \in Range(outbox) /\ Frame.answer \in Answers
        /\ outbox' \in Seq(Responses) /\ IsInjective(outbox') /\ Range(outbox') \subseteq Range(outbox)
        /\ Range(Answered) = Range(pending) \ {Frame.id}
    BY <1>1, ReceivedIs
  <1>3. /\ OwnInv' /\ QueuedInv' /\ KnownInv' /\ FramesInv' /\ ContentsInv'
        /\ pending' \in Seq(RequestIds) /\ IsInjective(pending')
        /\ \A c \in Commands : <<"run", c>> \in Range(pending') <=> c \in execRunning'
    BY <1>1, HeardIs
  <1>4. LinkInv' /\ Connected' /\ Alive' = Alive /\ ready' = ready
    BY <1>1, <1>2, LinkStays
  <1>5. GoneInv'
    BY <1>1, <1>4 DEF CoreInv, GoneInv
  <1>6. CallsInv'
    BY <1>1 DEF CoreInv, CallsInv, Underway
  <1>7. PICK k, x : k = Frame.id[2] /\ x = [call |-> k, answer |-> Frame.answer]
    OBVIOUS
  <1>8. /\ k \in Calls /\ x.call = k /\ x.answer = Frame.answer
        /\ \/ Frame.id = <<"configure", k>> /\ call[k].pc = "configuring"
           \/ Frame.id = <<"cancel", k>> /\ call[k].pc = "cancelling"
    <2>1. k \in Callers /\ Frame.id = <<Frame.id[1], k>>
      BY <1>1, <1>2, <1>7, CallsAre
    <2>2. CASE Frame.id[1] = "configure"
      <3>1. Frame.id = <<"configure", k>> /\ <<"configure", k>> \in Range(pending)
        BY <1>2, <2>1, <2>2
      <3> QED
        BY <1>7, <2>1, <3>1 DEF CoreInv, PendingInv
    <2>3. CASE Frame.id[1] = "cancel"
      <3>1. Frame.id = <<"cancel", k>> /\ <<"cancel", k>> \in Range(pending)
        BY <1>2, <2>1, <2>3
      <3> QED
        BY <1>7, <2>1, <3>1 DEF CoreInv, PendingInv
    <2> QED
      BY <1>1, <2>2, <2>3
  <1>9. micro' \in Seq(Promise) /\ IsInjective(micro') /\ Range(micro') = {x} /\ Woken' = {k}
    <2>1. x \in Promise
      BY <1>2, <1>7, <1>8 DEF Promise
    <2>2. micro' = <<x>>
      BY <1>1, <1>7
    <2>3. micro' \in Seq(Promise) /\ IsInjective(micro') /\ Range(micro') = {x}
      BY <2>1, <2>2, OneIs
    <2> QED
      BY <1>8, <2>3 DEF Woken
  <1>10. UNCHANGED starters
    BY <1>1 DEF linkVars
  <1>11. PlacesInv'
    BY <1>1, <1>2, <1>4, <1>8, <1>9, <1>10, NoneIs DEF Woken, CoreInv, PlacesInv
  <1>12. JoinedInv'
    <2>1. ASSUME NEW m \in Calls, NEW l \in Range(call[m].joined)
          PROVE  l \notin Woken'
      BY <1>8, <1>9, <2>1 DEF CoreInv, JoinedInv
    <2>2. UNCHANGED <<call, configuring>>
      BY <1>1
    <2>3. \A s \in Sessions : configuring'[s] # NoCall =>
             /\ Underway(configuring[s])' /\ call'[configuring'[s]].session = s
             /\ configuring'[s][1] # "change"
      BY <2>2 DEF CoreInv, JoinedInv, Underway
    <2>4. \A m \in Calls : \A l \in Range(call'[m].joined) :
             /\ call'[l].pc = "joining" /\ l[1] # "change" /\ l \notin Woken'
             /\ call'[l].session = call'[m].session /\ Underway(m)' /\ m[1] # "change"
      BY <2>1, <2>2 DEF CoreInv, JoinedInv, Underway
    <2> QED
      BY <2>2, <2>3, <2>4 DEF CoreInv, JoinedInv
  <1>13. PendingInv'
    BY <1>1, <1>2, <1>3, <1>4, <1>8, <1>9 DEF CoreInv, PendingInv, Ping
  <1>14. UNCHANGED <<execQueue, execRunning>>
    BY <1>1 DEF execVars
  <1>15. ThereInv'
    <2>1. \A s : There(s) => There(s)'
      BY <1>1, <1>4 DEF There
    <2>2. \A c \in Range(execQueue') \cup execRunning' : There(SessionOf[c])'
      BY <1>14, <2>1 DEF CoreInv, ThereInv
    <2>3. \A z \in Range(outbox'), l \in Calls : z.id = <<"configure", l>> => There(call[l].session)'
      BY <1>1, <1>2, <1>4 DEF CoreInv, ThereInv, There
    <2>4. \A s \in configured' : There(s)'
      BY <1>1, <2>1 DEF CoreInv, ThereInv
    <2>5. call[k].pc \in {"joining", "configuring"} => There(call[k].session)'
      <3>1. ASSUME call[k].pc \in {"joining", "configuring"}
            PROVE  There(call[k].session)
        BY <1>2, <1>8, <3>1 DEF CoreInv, ThereInv
      <3> QED
        BY <1>1, <1>4, <3>1 DEF There
    <2>6. \A z \in Range(micro') :
             z.answer = "ok" /\ call'[z.call].pc \in {"joining", "configuring"} =>
                There(call[z.call].session)'
      BY <1>1, <1>8, <1>9, <2>5
    <2> QED
      BY <2>2, <2>3, <2>4, <2>6 DEF ThereInv
  <1>16. SettledInv'
    <2>1. x.answer # "lost"
      BY <1>2, <1>8 DEF Answers
    <2> QED
      BY <1>4, <1>9, <2>1 DEF SettledInv
  <1> QED
    BY <1>3, <1>4, <1>5, <1>6, <1>11, <1>12, <1>13, <1>15, <1>16 DEF CoreInv

\* The queue is drained again, and no call goes on.
LEMMA DrainKeeps ==
  ASSUME CoreInv, micro = <<>>, NEW running \in SUBSET execRunning,
         NEW limit \in 1..MaxConcurrency, NEW base, Rest(base, running), Ended(running),
         outcome' \in [Commands -> Outcomes],
         NEW d, d = Drained(execQueue, running, limit), Handover(d, limit, base),
         UNCHANGED <<linkVars, stopping, faults, routerVars, micro>>
  PROVE  /\ CoreInv' /\ Connected' = Connected /\ Alive' = Alive /\ ready' = ready
         /\ inbox # <<>> => inbox' # <<>> /\ inbox'[1] = inbox[1]
  <1>1. Waits(execQueue)
    BY DEF CoreInv, QueuedInv, Waits
  <1>2. /\ execQueue' \in Seq(Commands) /\ Len(execQueue') <= MaxExecQueue
        /\ execRunning' \subseteq Commands /\ IsFiniteSet(execRunning')
        /\ concurrency' \in 1..MaxConcurrency /\ IsInjective(execQueue')
        /\ Range(execQueue') \cap execRunning' = {}
        /\ Range(execQueue') \cup execRunning' = Range(execQueue) \cup running
        /\ execQueue' # <<>> => Cardinality(execRunning') >= concurrency'
        /\ running \subseteq execRunning'
        /\ KnownInv' /\ FramesInv' /\ OwnInv'
        /\ pending' \in Seq(RequestIds) /\ IsInjective(pending')
        /\ \A c \in Commands : <<"run", c>> \in Range(pending') <=> c \in execRunning'
        /\ \A id : id[1] # "run" => (id \in Range(pending') <=> id \in Range(pending))
        /\ \A x \in Range(inbox') : x \in Range(inbox) \/ x.id[1] = "run"
        /\ ~Alive => inbox' = inbox
        /\ inbox # <<>> => inbox' # <<>> /\ inbox'[1] = inbox[1]
    BY <1>1, HandedOverIs
  <1>3. /\ UNCHANGED <<call, desired, configured, configuring, cancelled, mixed, micro, starters>>
        /\ UNCHANGED <<policy, queue, active, raised, worker, main, freed, phase, replies>>
        /\ Range(outbox') \subseteq Range(outbox) /\ outbox' \in Seq(Responses)
    BY DEF routerVars, linkVars, Handover, Rest
  <1>4. LinkInv' /\ Connected' = Connected /\ Alive' = Alive /\ ready' = ready
    BY LinkStays
  <1>5. GoneInv'
    <2>1. CASE Connected
      BY <1>2, <1>3, <1>4, <2>1 DEF CoreInv, GoneInv
    <2>2. CASE ~Connected
      <3>1. /\ pending = <<>> /\ starters = <<>> /\ outbox = <<>>
            /\ execQueue = <<>> /\ execRunning = {} /\ configured = {}
        BY <2>2 DEF CoreInv, GoneInv
      <3>2. Range(pending) = {} /\ Range(outbox) = {} /\ Range(execQueue) = {}
        BY <3>1, NoneIs
      <3>3. execRunning' = {} /\ Range(execQueue') = {} /\ Range(outbox') = {}
        BY <1>2, <1>3, <3>1, <3>2
      <3>4. ASSUME NEW id \in Range(pending')
            PROVE  FALSE
        BY <1>2, <3>2, <3>3, RangeOfSeq, CallsAre, PoolAssumption DEF Ops
      <3>5. pending' = <<>> /\ outbox' = <<>> /\ execQueue' = <<>>
        BY <1>2, <1>3, <3>3, <3>4, EmptyIs
      <3> QED
        BY <1>2, <1>3, <1>4, <2>2, <3>1, <3>3, <3>5 DEF CoreInv, GoneInv
    <2> QED
      BY <2>1, <2>2
  <1>6. CallsInv'
    BY <1>3 DEF CoreInv, CallsInv, Underway
  <1>7. QueuedInv'
    <2>1. \A c \in Range(execQueue') \cup execRunning' :
             c \in Commands /\ c \in Range(execQueue) \cup execRunning /\ c \notin execRunning \ running
      BY <1>2, RangeOfSeq DEF CoreInv, QueuedInv
    <2>2. \A c \in Range(execQueue') \cup execRunning' :
             call'[<<"run", c>>].pc = "done" /\ outcome'[c] = "none"
      BY <1>3, <2>1 DEF CoreInv, QueuedInv, Ended
    <2>3. ASSUME NEW c \in Commands, outcome'[c] # "none"
          PROVE  call'[<<"run", c>>].pc = "done"
      BY <1>3, <2>3 DEF CoreInv, QueuedInv, Ended
    <2> QED
      BY <1>2, <2>2, <2>3 DEF QueuedInv
  <1>8. PlacesInv'
    BY <1>3, <1>4 DEF CoreInv, PlacesInv, Woken
  <1>9. Woken' = Woken
    BY <1>3 DEF Woken
  <1>10. JoinedInv'
    BY <1>3, <1>9 DEF CoreInv, JoinedInv, Underway
  <1>11. PendingInv'
    BY <1>2, <1>3, <1>4, <1>9 DEF CoreInv, PendingInv, Ping
  <1>12. ContentsInv'
    <2>1. ASSUME NEW x \in Range(inbox'), NEW k \in Calls, x.id = <<"configure", k>>
          PROVE  x \in Range(inbox)
      BY <1>2, <2>1
    <2> QED
      BY <1>3, <2>1 DEF CoreInv, ContentsInv
  <1>13. ThereInv'
    BY <1>2, <1>3, <1>4, NoneIs DEF There, CoreInv, ThereInv
  <1>14. SettledInv'
    BY <1>3, NoneIs DEF SettledInv
  <1> QED
    BY <1>2, <1>4, <1>5, <1>6, <1>7, <1>8, <1>10, <1>11, <1>12, <1>13, <1>14 DEF CoreInv

\* A command is answered, and another one gets its place.
LEMMA ResultsKeep ==
  ASSUME CoreInv, OnResult, UNCHANGED routerVars
  PROVE  CoreInv'
  <1>1. PICK c, d : c = Frame.id[2] /\ d = Drained(execQueue, execRunning \ {c}, concurrency)
    OBVIOUS
  <1>2. /\ Receiving /\ Frame.id[1] = "run" /\ outcome' = [outcome EXCEPT ![c] = Frame.answer]
        /\ outbox' = Tail(outbox) /\ execQueue' = d.queue /\ execRunning' = d.running
        /\ pending' = Answered \o [i \in DOMAIN d.sent |-> d.sent[i].id]
        /\ inbox' = IF Alive THEN inbox \o d.sent ELSE inbox
        /\ UNCHANGED <<linkVars, concurrency, stopping, micro, faults>>
        /\ UNCHANGED <<policy, queue, active, raised, worker, main, freed, phase, replies>>
    BY <1>1 DEF OnResult
  <1>3. /\ Frame \in Range(outbox) /\ Frame.id \in RequestIds /\ Frame.id \in Range(pending)
        /\ outbox' \in Seq(Responses) /\ IsInjective(outbox') /\ Range(outbox') \subseteq Range(outbox)
        /\ Answered \in Seq(RequestIds) /\ IsInjective(Answered)
        /\ Range(Answered) = Range(pending) \ {Frame.id}
        /\ \A x \in Range(inbox) \cup Range(outbox') : x.id \in Range(Answered)
        /\ micro = <<>>
    BY <1>2, ReceivedIs
  <1>4. c \in Commands /\ Frame.id = <<"run", c>>
    BY <1>1, <1>2, <1>3, CallsAre, PoolAssumption DEF Ops
  <1>5. c \in execRunning
    BY <1>3, <1>4 DEF CoreInv, PendingInv
  <1>6. replies[c] = 1 /\ Frame.answer \in {"result", "cancelled", "failed", "refused"}
    BY <1>3, <1>4 DEF CoreInv, ContentsInv
  <1>7. /\ outcome' \in [Commands -> Outcomes] /\ outcome'[c] # "none"
        /\ \A e \in Commands : e # c => outcome'[e] = outcome[e]
    BY <1>2, <1>4, <1>6 DEF CoreInv, QueuedInv, Outcomes
  <1>8. PICK running \in SUBSET execRunning : running = execRunning \ {c}
    OBVIOUS
  <1>9. execRunning \ running = {c}
    BY <1>5, <1>8
  <1>10. Ended(running)
    BY <1>6, <1>7, <1>9 DEF Ended
  <1>11. Rest(Answered, running)
    BY <1>3, <1>4, <1>9 DEF Rest
  <1>12. concurrency \in 1..MaxConcurrency
    BY DEF CoreInv, QueuedInv
  <1>13. Handover(d, concurrency, Answered)
    BY <1>2 DEF Handover
  <1>14. d = Drained(execQueue, running, concurrency)
    BY <1>1, <1>8
  <1> QED
    BY <1>2, <1>3, <1>7, <1>10, <1>11, <1>12, <1>13, <1>14, DrainKeeps

\* More or fewer places.
LEMMA ConcurrencyKeeps ==
  ASSUME CoreInv, NEW n \in 1..MaxConcurrency, SetExecConcurrency(n), UNCHANGED routerVars
  PROVE  CoreInv' /\ Steady
  <1>1. PICK d : d = Drained(execQueue, execRunning, n)
    OBVIOUS
  <1>2. /\ micro = <<>> /\ concurrency' = n /\ execQueue' = d.queue /\ execRunning' = d.running
        /\ pending' = pending \o [i \in DOMAIN d.sent |-> d.sent[i].id]
        /\ inbox' = IF Alive THEN inbox \o d.sent ELSE inbox
        /\ UNCHANGED <<policy, queue, active, raised, worker, main, freed, phase, replies>>
        /\ UNCHANGED <<linkVars, stopping, micro, outcome, faults, outbox>>
    BY <1>1 DEF SetExecConcurrency, Drain, Sent
  <1>3. Handover(d, n, pending)
    BY <1>2 DEF Handover
  <1>4. /\ outbox' \in Seq(Responses) /\ IsInjective(outbox') /\ Range(outbox') = Range(outbox)
        /\ \A x \in Range(inbox) \cup Range(outbox') : x.id \in Range(pending)
        /\ pending \in Seq(RequestIds) /\ IsInjective(pending)
    BY <1>2, FramesAre DEF CoreInv, FramesInv, PendingInv
  <1>5. execRunning \in SUBSET execRunning /\ execRunning \ execRunning = {}
    OBVIOUS
  <1>6. Rest(pending, execRunning) /\ Ended(execRunning)
    BY <1>2, <1>4, <1>5 DEF Rest, Ended
  <1>7. outcome' \in [Commands -> Outcomes]
    BY <1>2 DEF CoreInv, QueuedInv
  <1> QED
    BY <1>1, <1>2, <1>3, <1>5, <1>6, <1>7, DrainKeeps DEF Steady

\* stop(): whoever waits for a place is told so.
LEMMA StopsKeep ==
  ASSUME CoreInv, Stop, UNCHANGED routerVars
  PROVE  CoreInv'
  <1>1. /\ micro = <<>> /\ ~stopping /\ stopping' = TRUE
        /\ timers' = IF armed THEN timers - 1 ELSE timers
        /\ armed' = FALSE
        /\ outcome' = [c \in Commands |-> IF c \in Range(execQueue) THEN "lost" ELSE outcome[c]]
        /\ execQueue' = <<>>
        /\ UNCHANGED <<generation, failed, ready, starters, children, closing, execRunning,
                       concurrency, pending, micro, faults, poolVars>>
        /\ UNCHANGED <<call, desired, configured, configuring, cancelled, mixed>>
    BY DEF Stop, routerVars
  <1>2. UNCHANGED <<inbox, outbox, policy, queue, active, raised, worker, main, freed, phase, replies>>
    BY <1>1 DEF poolVars
  <1>3. /\ outcome' \in [Commands -> Outcomes]
        /\ \A c \in Commands : c \in Range(execQueue) => outcome'[c] = "lost"
        /\ \A c \in Commands : c \notin Range(execQueue) => outcome'[c] = outcome[c]
    BY <1>1 DEF CoreInv, QueuedInv, Outcomes
  <1>4. Connected' = Connected /\ Alive' = Alive
    BY <1>1 DEF Connected, Alive
  <1>5. timers' \in Nat
    BY <1>1 DEF CoreInv, LinkInv
  <1>6. LinkInv'
    BY <1>1, <1>4, <1>5 DEF CoreInv, LinkInv
  <1>7. OwnInv'
    BY <1>1, PoolStays DEF CoreInv
  <1>8. GoneInv'
    BY <1>1, <1>2, <1>4 DEF CoreInv, GoneInv
  <1>9. CallsInv'
    BY <1>1 DEF CoreInv, CallsInv, Underway
  <1>10. execQueue' \in Seq(Commands) /\ Len(execQueue') = 0 /\ IsInjective(execQueue') /\ Range(execQueue') = {}
    BY <1>1, NoneIs
  <1>11. QueuedInv'
    BY <1>1, <1>3, <1>10, ClientAssumption DEF CoreInv, QueuedInv
  <1>12. KnownInv'
    BY <1>1, <1>2, <1>3 DEF CoreInv, KnownInv
  <1>13. Woken' = Woken
    BY <1>1 DEF Woken
  <1>14. PlacesInv' /\ JoinedInv'
    BY <1>1, <1>13 DEF CoreInv, PlacesInv, JoinedInv, Underway
  <1>15. PendingInv'
    BY <1>1, <1>4, <1>13 DEF CoreInv, PendingInv
  <1>16. FramesInv' /\ ContentsInv'
    BY <1>1, <1>2, SameFrames
  <1>17. ThereInv'
    BY <1>1, <1>2, <1>4, <1>10 DEF CoreInv, ThereInv, There
  <1>18. SettledInv'
    BY <1>1, NoneIs DEF SettledInv
  <1> QED
    BY <1>6, <1>7, <1>8, <1>9, <1>11, <1>12, <1>14, <1>15, <1>16, <1>17, <1>18 DEF CoreInv

(***************************************************************************)
(* The invariant holds.                                                    *)
(***************************************************************************)

\* At the beginning nothing was asked for.
LEMMA CoreStarts == Init => CoreInv
  <1> SUFFICES ASSUME Init PROVE CoreInv
    OBVIOUS
  <1>1. /\ generation = 0 /\ failed = 0 /\ ready = FALSE /\ pending = <<>> /\ starters = <<>>
        /\ execQueue = <<>> /\ execRunning = {} /\ concurrency = Concurrency /\ timers = 0
        /\ armed = FALSE /\ stopping = FALSE /\ children = {} /\ closing = {} /\ micro = <<>>
        /\ outcome = [c \in Commands |-> "none"] /\ faults = 0
    BY DEF Init, ClientInit
  <1>2. /\ inbox = <<>> /\ outbox = <<>> /\ policy = [s \in Sessions |-> NoPolicy] /\ queue = <<>>
        /\ active = {} /\ raised = {} /\ freed = {} /\ main = NoCommand
        /\ worker = [w \in Workers |-> IdleWorker]
        /\ phase = [c \in Commands |-> "none"] /\ replies = [c \in Commands |-> 0]
    BY DEF Init, PoolInit, Fresh
  <1>3. /\ call = [k \in Calls |-> NewCall(SessionOfCall(k))]
        /\ desired = [s \in Sessions |-> NoPolicy] /\ configured = {}
        /\ configuring = [s \in Sessions |-> NoCall] /\ cancelled = {} /\ mixed = FALSE
    BY DEF Init
  <1>4. OwnInv
    BY PoolStarts DEF Init
  <1>5. ~Connected /\ ~Alive
    BY <1>1 DEF Connected, Alive
  <1>6. LinkInv
    <2>1. generation \in Nat /\ failed \in 0..generation /\ timers \in Nat
      BY <1>1
    <2>2. faults \in 0..MaxFaults /\ generation <= faults + 1 /\ generation <= faults
      BY <1>1, ClientAssumption
    <2>3. ready \in BOOLEAN /\ stopping \in BOOLEAN /\ armed \in BOOLEAN /\ ~armed /\ ~ready
      BY <1>1
    <2>4. closing = {} /\ children = {}
      BY <1>1
    <2> QED
      BY <1>5, <2>1, <2>2, <2>3, <2>4 DEF LinkInv
  <1>7. GoneInv
    BY <1>1, <1>2, <1>3, <1>5 DEF GoneInv
  <1>8. \A k \in Calls : /\ call[k] \in Call /\ call[k].pc = "new" /\ call[k].joined = <<>>
                         /\ k[1] # "change" => call[k].session = SessionOf[k[2]]
    BY <1>3, ClientAssumption, CallsAre, PoolAssumption DEF AnySession, SessionOfCall, NewCall,
       Call, Steps
  <1>9. CallsInv
    BY <1>3, <1>8 DEF CallsInv, Underway
  <1>10. Range(pending) = {} /\ Range(execQueue) = {} /\ Range(starters) = {} /\ Range(inbox) = {}
         /\ Range(outbox) = {} /\ Range(micro) = {}
    BY <1>1, <1>2, NoneIs
  <1>11. QueuedInv
    BY <1>1, <1>10, NoneIs, ClientAssumption, FS_EmptySet DEF QueuedInv, Outcomes
  <1>12. KnownInv
    BY <1>1, <1>2, PoolAssumption DEF KnownInv
  <1>13. Woken = {}
    BY <1>10 DEF Woken
  <1>14. PlacesInv
    BY <1>1, <1>8, <1>10, <1>13, NoneIs DEF PlacesInv
  <1>15. JoinedInv
    BY <1>3, <1>8, NoneIs DEF JoinedInv
  <1>16. PendingInv
    BY <1>1, <1>5, <1>10, NoneIs DEF PendingInv
  <1>17. FramesInv /\ ContentsInv
    BY <1>2, <1>10, NoneIs DEF FramesInv, ContentsInv
  <1>18. ThereInv /\ SettledInv
    BY <1>1, <1>3, <1>10 DEF ThereInv, SettledInv
  <1> QED
    BY <1>4, <1>6, <1>7, <1>9, <1>11, <1>12, <1>14, <1>15, <1>16, <1>17, <1>18 DEF CoreInv

\* Nothing happens.
LEMMA StutterKeeps ==
  ASSUME CoreInv, UNCHANGED vars
  PROVE  CoreInv'
  <1>1. /\ UNCHANGED <<poolVars, clientVars, routerVars>>
    BY DEF vars
  <1>2. UNCHANGED <<generation, failed, ready, starters, children, execVars, pending, closing, timers,
                    armed, micro, outcome, poolVars, stopping, faults, routerVars>>
    BY <1>1 DEF clientVars, linkVars
  <1>3. timers \in Nat /\ armed \in BOOLEAN /\ (armed => timers > 0)
    BY DEF CoreInv, LinkInv
  <1> QED
    BY <1>2, <1>3, LinkOnly

\* Every step keeps it.
LEMMA CoreKeeps ==
  ASSUME CoreInv, [Next]_vars
  PROVE  CoreInv'
  <1>1. ASSUME Driven PROVE CoreInv'
    BY <1>1, LooksKeep, ConfiguresAgain, ResultsKeep, AnsweringCalls, TimersKeep, PongKeeps,
       ProcessKeeps, ContinuesKeep, ExitsKeep DEF LookedUpChange, ProxyStarted, ClientStep, Driven
  <1>2. ASSUME Use PROVE CoreInv'
    BY <1>2, ProcessKeeps, IssuesKeep DEF Use
  <1>3. ASSUME Disturbance PROVE CoreInv'
    BY <1>3, ConcurrencyKeeps, ProxyFailedKeeps, IssuesKeep, StopsKeep, CrashKeeps, TimeoutKeeps DEF
       Disturbance
  <1> QED
    BY <1>1, <1>2, <1>3, StutterKeeps DEF Next

\* Disturbances are counted.
LEMMA EventsAre ==
  ASSUME events \in 0..MaxEvents, [Next]_vars
  PROVE  events' \in 0..MaxEvents
  <1>1. UNCHANGED events \/ (events < MaxEvents /\ events' = events + 1)
    BY DEF Next, vars
  <1> QED
    BY <1>1, RouterAssumption

\* What the invariant says of each variable.
LEMMA CoreTypes ==
  ASSUME CoreInv, events \in 0..MaxEvents
  PROVE  TypeOK
  <1>1. PoolTypeOK
    BY DEF CoreInv, OwnInv
  <1>2. /\ generation \in Nat /\ failed \in 0..generation /\ ready \in BOOLEAN
        /\ timers \in Nat /\ armed \in BOOLEAN /\ stopping \in BOOLEAN
        /\ closing \subseteq 0..generation /\ faults \in 0..MaxFaults
    BY DEF CoreInv, LinkInv
  <1>3. children \subseteq 0..generation
    BY <1>2 DEF CoreInv, LinkInv
  <1>4. Calls \subseteq Callers
    BY CallsAre
  <1>5. starters \in Seq(Calls) /\ micro \in Seq(Promise)
    BY DEF CoreInv, PlacesInv
  <1>6. starters \in Seq(Callers)
    BY <1>4, <1>5
  <1>7. micro \in Seq([call : Callers, answer : Answers \cup {"lost"}])
    <2>1. ASSUME NEW x \in Promise
          PROVE  x \in [call : Callers, answer : Answers \cup {"lost"}]
      BY <1>4, <2>1 DEF Promise
    <2>2. PICK T : T = [call : Callers, answer : Answers \cup {"lost"}]
      OBVIOUS
    <2>3. Promise \subseteq T
      BY <2>1, <2>2
    <2>4. micro \in Seq(T)
      BY <1>5, <2>3
    <2> QED
      BY <2>2, <2>4
  <1>8. \A i \in DOMAIN starters : call[starters[i]].pc = "starting"
    BY DEF Range, CoreInv, PlacesInv
  <1>9. ClientTypeOK
    BY <1>2, <1>3, <1>6, <1>7 DEF CoreInv, PendingInv, QueuedInv, ClientTypeOK
  <1> QED
    BY <1>1, <1>8, <1>9 DEF CoreInv, CallsInv, TypeOK, Call

\* The inductive invariant, and what it needs of the bound.
CoreInvariant == CoreInv /\ events \in 0..MaxEvents

LEMMA CoreHolds == Spec => []CoreInvariant
  <1>1. Init => CoreInvariant
    BY CoreStarts, RouterAssumption DEF Init, CoreInvariant
  <1>2. CoreInvariant /\ [Next]_vars => CoreInvariant'
    BY CoreKeeps, EventsAre DEF CoreInvariant
  <1> QED
    BY <1>1, <1>2, PTL DEF Spec

\* ProcessIsKept (core-client.ts): only the current generation has a process, and only while it
\* is connected; a generation ends for a fault of its own; and no command waits for a place that
\* is free.
THEOREM OneProcessIsKept == Spec => []ProcessIsKept
  <1>1. CoreInvariant => ProcessIsKept
    BY CoreTypes DEF CoreInvariant, CoreInv, LinkInv, QueuedInv, ProcessIsKept
  <1> QED
    BY <1>1, CoreHolds, PTL

(***************************************************************************)
(* The policies: the handshake, and who sends one.                         *)
(***************************************************************************)

\* ConfiguredBeforeUse: a command that is in the pipe runs, and who runs has a policy.
LEMMA RunsAreConfigured == CoreInv => ConfiguredBeforeUse
  <1> SUFFICES ASSUME CoreInv, inbox # <<>>, Head(inbox).id[1] = "run"
               PROVE  policy[SessionOf[Head(inbox).command]] # NoPolicy
    BY DEF ConfiguredBeforeUse
  <1>1. OwnInv /\ inbox \in Seq(Requests)
    BY FramesAre DEF CoreInv
  <1>2. PICK x : x = Head(inbox)
    OBVIOUS
  <1>3. x \in Range(inbox)
    BY <1>1, <1>2, TailIs
  <1>4. x.command \in Commands /\ x.id = <<"run", x.command>>
    BY <1>1, <1>2, <1>3, InboxIs
  <1>5. x.id \in Range(pending)
    BY <1>3 DEF CoreInv, FramesInv
  <1>6. x.command \in execRunning
    BY <1>4, <1>5 DEF CoreInv, PendingInv
  <1>7. Alive /\ There(SessionOf[x.command])
    BY <1>6 DEF CoreInv, GoneInv, ThereInv
  <1> QED
    BY <1>2, <1>7 DEF There

\* Nothing is read and nothing settles: the handshake is where it was.
LEMMA FirstStays ==
  ASSUME FirstInv, Steady,
         \A x \in Range(micro') : x.answer = "ok" /\ call'[x.call].pc = "configuring" =>
             x \in Range(micro) /\ call[x.call].pc = "configuring"
  PROVE  FirstInv'
  <1> SUFFICES ASSUME Connected', ~ready'
               PROVE  /\ \/ /\ Alive' /\ outbox' = <<>> /\ inbox' # <<>> /\ inbox'[1].id = Ping
                            /\ queue' = <<>> /\ main' = NoCommand /\ \A w \in Workers : ~Busy(w)'
                         \/ outbox' # <<>> /\ outbox'[1].id = Ping
                         \/ ~Alive' /\ outbox' = <<>>
                      /\ \A x \in Range(micro') :
                            ~(x.answer = "ok" /\ call'[x.call].pc = "configuring")
    BY DEF FirstInv
  <1>1. /\ \/ /\ Alive /\ outbox = <<>> /\ inbox # <<>> /\ inbox[1].id = Ping
              /\ queue = <<>> /\ main = NoCommand /\ \A w \in Workers : ~Busy(w)
           \/ outbox # <<>> /\ outbox[1].id = Ping
           \/ ~Alive /\ outbox = <<>>
        /\ \A x \in Range(micro) : ~(x.answer = "ok" /\ call[x.call].pc = "configuring")
    BY DEF Steady, FirstInv
  <1>2. \A w \in Workers : Busy(w)' = Busy(w)
    BY DEF Steady, Busy
  <1> QED
    BY <1>1, <1>2 DEF Steady

\* What is told to nobody new.
Untold ==
    /\ \A k \in Calls : Told(k)' => Told(k) /\ policy' = policy
    /\ configured' # {} /\ Alive' => Alive /\ policy' = policy

\* No policy is sent, and none that counts is done with.
LEMMA AloneStays ==
  ASSUME AloneInv, mixed => mixed', desired' = desired, configured' \subseteq configured, Untold,
         \A k \in Calls : SentBy(k)' =>
             SentBy(k) /\ call'[k].session = call[k].session /\ call'[k].want = call[k].want,
         \A k \in Calls : k[1] # "change" /\ Underway(k)' =>
             \/ Underway(k) /\ call'[k].session = call[k].session /\ call'[k].want = call[k].want
             \/ call'[k].want = Wanted(call'[k].session) /\ call'[k].session \notin configured,
         \A k \in Calls : SentBy(k) /\ ~SentBy(k)' /\ Alive' /\ ~mixed' =>
             call[k].session \notin configured'
  PROVE  AloneInv'
  <1> SUFFICES ASSUME ~mixed' PROVE AloneInv'
    BY DEF AloneInv
  <1>1. /\ \A k, l \in Calls : SentBy(k) /\ SentBy(l) /\ call[k].session = call[l].session => k = l
        /\ \A k \in Calls : k[1] # "change" /\ Underway(k) =>
              call[k].want = Wanted(call[k].session) /\ call[k].session \notin configured
        /\ \A k \in Calls : Told(k) => policy[call[k].session] = call[k].want
        /\ \A s \in configured :
              Alive /\ (\A k \in Calls : call[k].session = s => ~SentBy(k)) => policy[s] = Wanted(s)
    BY DEF AloneInv
  <1>2. \A s : Wanted(s)' = Wanted(s)
    BY DEF Wanted
  <1>3. \A k, l \in Calls : SentBy(k)' /\ SentBy(l)' /\ call'[k].session = call'[l].session => k = l
    BY <1>1
  <1>4. \A k \in Calls : k[1] # "change" /\ Underway(k)' =>
           call'[k].want = Wanted(call'[k].session) /\ call'[k].session \notin configured'
    BY <1>1
  <1>5. \A k \in Calls : Told(k)' => policy'[call'[k].session] = call'[k].want
    <2> SUFFICES ASSUME NEW k \in Calls, Told(k)' PROVE policy'[call'[k].session] = call'[k].want
      OBVIOUS
    <2>1. SentBy(k)'
      BY DEF Told, SentBy
    <2>2. Told(k) /\ policy' = policy
      BY DEF Untold
    <2> QED
      BY <1>1, <2>1, <2>2
  <1>6. ASSUME NEW s \in configured', Alive', \A k \in Calls : call'[k].session = s => ~SentBy(k)'
        PROVE  policy'[s] = Wanted(s)
    <2>1. Alive /\ policy' = policy
      BY <1>6 DEF Untold
    <2>2. ASSUME NEW k \in Calls, call[k].session = s, SentBy(k)
          PROVE  FALSE
      BY <1>6, <2>2
    <2> QED
      BY <1>1, <2>1, <2>2
  <1>7. \A s \in configured' :
           Alive' /\ (\A k \in Calls : call'[k].session = s => ~SentBy(k)') => policy'[s] = Wanted(s)'
    BY <1>2, <1>6
  <1>8. \A k \in Calls : k[1] # "change" /\ Underway(k)' =>
           call'[k].want = Wanted(call[k].session)' /\ call'[k].session \notin configured'
    BY <1>2, <1>4
  <1> QED
    BY <1>3, <1>5, <1>7, <1>8 DEF AloneInv

\* A policy is sent: no other one of the session is on its way, or it counts as mixed.
LEMMA NewlySent ==
  ASSUME CoreInv, AloneInv, NEW k \in Calls, Mixed(k), Steady,
         \A l \in Calls \ {k} : call'[l] = call[l],
         call'[k].session = call[k].session, call'[k].pc = "configuring",
         UNCHANGED <<desired, configured>>,
         call[k].pc \in {"meta", "starting", "proxy"},
         Range(micro') \subseteq Range(micro), k \notin Woken',
         k[1] # "change" =>
             \/ call'[k].want = Wanted(call[k].session) /\ call[k].session \notin configured
             \/ Underway(k) /\ call'[k].want = call[k].want
  PROVE  AloneInv'
  <1> SUFFICES ASSUME ~mixed' PROVE AloneInv'
    BY DEF AloneInv
  <1>1. ~mixed /\ \A l \in Calls \ {k} : ~(Underway(l) /\ call[l].session = call[k].session)
    BY DEF Mixed
  <1>2. /\ \A j, l \in Calls : SentBy(j) /\ SentBy(l) /\ call[j].session = call[l].session => j = l
        /\ \A l \in Calls : l[1] # "change" /\ Underway(l) =>
              call[l].want = Wanted(call[l].session) /\ call[l].session \notin configured
        /\ \A l \in Calls : Told(l) => policy[call[l].session] = call[l].want
        /\ \A s \in configured :
              Alive /\ (\A l \in Calls : call[l].session = s => ~SentBy(l)) => policy[s] = Wanted(s)
    BY <1>1 DEF AloneInv
  <1>3. \A s : Wanted(s)' = Wanted(s)
    BY DEF Wanted
  <1>4. \A l \in Calls \ {k} : /\ SentBy(l)' <=> SentBy(l)
                               /\ Underway(l)' <=> Underway(l)
                               /\ SentBy(l) => Underway(l)
    BY DEF SentBy, Underway
  <1>5. \A j, l \in Calls : SentBy(j)' /\ SentBy(l)' /\ call'[j].session = call'[l].session => j = l
    <2>1. ASSUME NEW j \in Calls, NEW l \in Calls, SentBy(j)', SentBy(l)',
                 call'[j].session = call'[l].session, j # l
          PROVE  FALSE
      BY <1>1, <1>2, <1>4, <2>1
    <2> QED
      BY <2>1
  <1>6. \A l \in Calls : l[1] # "change" /\ Underway(l)' =>
           call'[l].want = Wanted(call[l].session)' /\ call'[l].session \notin configured'
    <2>1. ASSUME NEW l \in Calls, l[1] # "change", Underway(l)'
          PROVE  call'[l].want = Wanted(call'[l].session) /\ call'[l].session \notin configured
      BY <1>2, <1>4, <2>1
    <2> QED
      BY <1>3, <2>1
  <1>7. \A l \in Calls : Told(l)' => policy'[call'[l].session] = call'[l].want
    <2> SUFFICES ASSUME NEW l \in Calls, Told(l)' PROVE policy'[call'[l].session] = call'[l].want
      OBVIOUS
    <2>1. CASE l = k
      <3>1. <<"configure", k>> \notin Range(pending)
        BY CallsAre DEF CoreInv, PendingInv
      <3>2. \A x \in Range(outbox') : x.id # <<"configure", k>>
        BY <3>1 DEF CoreInv, FramesInv, Steady
      <3>3. [call |-> k, answer |-> "ok"] \notin Range(micro')
        BY DEF Woken
      <3> QED
        BY <2>1, <3>2, <3>3 DEF Told
    <2>2. CASE l # k
      BY <1>2, <2>2 DEF Told, Steady
    <2> QED
      BY <2>1, <2>2
  <1>8. \A s \in configured' :
           Alive' /\ (\A l \in Calls : call'[l].session = s => ~SentBy(l)') => policy'[s] = Wanted(s)'
    <2>1. ASSUME NEW s \in configured', Alive', \A l \in Calls : call'[l].session = s => ~SentBy(l)'
          PROVE  policy'[s] = Wanted(s)
      BY <1>2, <1>4, <2>1 DEF SentBy, Steady
    <2> QED
      BY <1>3, <2>1
  <1> QED
    BY <1>5, <1>6, <1>7, <1>8 DEF AloneInv

(***************************************************************************)
(* What the process does to a policy.                                      *)
(***************************************************************************)

\* A frame is written behind the others.
LEMMA WrittenLast ==
  ASSUME OwnInv, NEW r \in Responses, Write(<<r>>)
  PROVE  /\ Range(outbox') = Range(outbox) \cup {r}
         /\ outbox # <<>> => outbox' # <<>> /\ outbox'[1] = outbox[1]
         /\ outbox = <<>> => outbox' = <<r>>
  <1>1. outbox \in Seq(Responses)
    BY FramesAre
  <1>2. outbox' = Append(outbox, r)
    BY <1>1 DEF Write
  <1>3. Range(outbox') = Range(outbox) \cup {r} /\ (outbox # <<>> => outbox'[1] = outbox[1])
    BY <1>1, <1>2, AppendIs
  <1>4. outbox = <<>> => outbox' = <<r>>
    BY <1>1, <1>2, AppendIs
  <1>5. outbox' # <<>>
    BY <1>3, NoneIs
  <1> QED
    BY <1>3, <1>4, <1>5

\* The process does something that no policy hangs on.
Unrelated ==
    /\ policy' = policy
    /\ outbox # <<>> => outbox' # <<>> /\ outbox'[1] = outbox[1]
    /\ \A x \in Range(outbox') : x \in Range(outbox) \/ x.id[1] # "configure"

\* It may not have read a ping that waits, and is not idle otherwise.
Occupied ==
    \/ inbox = <<>> \/ inbox[1].id # Ping \/ queue # <<>> \/ main # NoCommand
    \/ \E w \in Workers : Busy(w)

LEMMA UnrelatedKeeps ==
  ASSUME AloneInv, UNCHANGED <<clientVars, routerVars>>, Unrelated
  PROVE  AloneInv'
  <1>1. UNCHANGED <<call, desired, configured, mixed, micro, generation, children>>
    BY DEF clientVars, linkVars, routerVars
  <1>2. Alive' = Alive
    BY <1>1 DEF Alive
  <1>3. \A k \in Calls : Told(k)' => Told(k)
    BY <1>1, <1>2 DEF Told, Unrelated
  <1>4. Untold
    BY <1>2, <1>3 DEF Untold, Unrelated
  <1>5. \A k \in Calls : SentBy(k)' = SentBy(k) /\ Underway(k)' = Underway(k)
    BY <1>1 DEF SentBy, Underway
  <1> QED
    BY <1>1, <1>4, <1>5, AloneStays

LEMMA OccupiedKeeps ==
  ASSUME FirstInv, Alive, UNCHANGED <<clientVars, routerVars>>, Occupied,
         outbox # <<>> => outbox' # <<>> /\ outbox'[1] = outbox[1]
  PROVE  FirstInv'
  <1>1. UNCHANGED <<call, micro, generation, failed, ready, children>>
    BY DEF clientVars, linkVars, routerVars
  <1>2. Connected' = Connected /\ Alive' = Alive
    BY <1>1 DEF Connected, Alive
  <1>3. ASSUME Connected, ~ready
        PROVE  /\ outbox # <<>> /\ outbox[1].id = Ping
               /\ \A x \in Range(micro) : ~(x.answer = "ok" /\ call[x.call].pc = "configuring")
    BY <1>3 DEF FirstInv, Occupied
  <1> QED
    BY <1>1, <1>2, <1>3 DEF FirstInv

\* A reply to a command is no policy.
LEMMA RunReplyIs ==
  ASSUME NEW c \in Commands, NEW a \in Answers
  PROVE  RunReply(c, a) \in Responses /\ RunReply(c, a).id[1] = "run"
  BY CallsAre DEF RunReply, Response, Responses

LEMMA ReplyWritten ==
  ASSUME CoreInv, NEW c \in Commands, NEW a \in Answers, Write(<<RunReply(c, a)>>), UNCHANGED policy
  PROVE  Unrelated
  BY RunReplyIs, WrittenLast DEF Unrelated, CoreInv

\* The main loop, but for the policies.
LEMMA MainRelates ==
  ASSUME CoreInv, HandlePing \/ HandleRun \/ HandleCancel \/ AnswerCancelled
  PROVE  Unrelated
  <1>1. ASSUME NEW op \in {"ping", "cancel"}, NEW a \in Answers, Reading(op),
               Write(<<Response(Head(inbox).id, a)>>), UNCHANGED policy
        PROVE  Unrelated
    <2>1. Head(inbox).id[1] = op /\ Head(inbox).id \in RequestIds
      BY <1>1, ReadIs, InboxIs DEF CoreInv
    <2>2. Response(Head(inbox).id, a) \in Responses /\ Response(Head(inbox).id, a).id[1] # "configure"
      BY <1>1, <2>1 DEF Response, Responses
    <2> QED
      BY <1>1, <2>2, WrittenLast DEF Unrelated, CoreInv
  <1>2. CASE HandlePing
    BY <1>1, <1>2 DEF HandlePing, ReplyOk, Answers
  <1>3. CASE HandleCancel
    BY <1>1, <1>3 DEF HandleCancel, ReplyOk, Answers
  <1>4. CASE HandleRun
    BY <1>4, FrameRead, ReadIs, InboxIs, ReplyWritten DEF CoreInv, HandleRun, Unrelated, Answers
  <1>5. CASE AnswerCancelled
    BY <1>5, ReplyWritten DEF AnswerCancelled, CoreInv, OwnInv, PoolTypeOK, Answers
  <1> QED
    BY <1>2, <1>3, <1>4, <1>5

\* The threads.
LEMMA ThreadRelates ==
  ASSUME CoreInv, NEW w \in Workers,
         WorkerStep(w) \/ \E how \in {"ended", "stopped", "broken"} : Returns(w, how)
  PROVE  /\ Unrelated
         /\ Occupied \/ Wait(w)
  <1>1. worker[w].pc \notin {"check", "waiting"} => Busy(w) /\ worker[w].command \in Commands
    BY WorkerIs DEF CoreInv, OwnInv, PoolTypeOK
  <1>2. CASE Wait(w)
    BY <1>2 DEF Wait, Unrelated
  <1>3. CASE Take(w)
    BY <1>3 DEF Take, Unrelated, Occupied
  <1>4. CASE Begin(w)
    BY <1>1, <1>4, ReplyWritten DEF Begin, At, Unrelated, Occupied, Answers
  <1>5. CASE Reply(w)
    BY <1>1, <1>5, ReplyWritten DEF Reply, Answers, At, Occupied
  <1>6. CASE Release(w) \/ Free(w) \/ \E how \in {"ended", "stopped", "broken"} : Returns(w, how)
    BY <1>1, <1>6 DEF Release, Free, Returns, At, Unrelated, Occupied
  <1> QED
    BY <1>2, <1>3, <1>4, <1>5, <1>6 DEF WorkerStep

\* The process reads a policy that was sent.
LEMMA PolicyArrives ==
  ASSUME CoreInv, AloneInv, Alive, UNCHANGED <<clientVars, routerVars>>, HandleConfigure
  PROVE  AloneInv'
  <1> SUFFICES ASSUME ~mixed PROVE AloneInv'
    BY DEF AloneInv, routerVars
  <1>1. PICK x, k : x = Head(inbox) /\ k = x.id[2]
    OBVIOUS
  <1>2. /\ Reading("configure") /\ policy' = [policy EXCEPT ![x.session] = x.policy]
        /\ Write(<<Response(x.id, "ok")>>)
    BY <1>1 DEF HandleConfigure, ReplyOk
  <1>3. k \in Calls /\ x.id = <<"configure", k>>
    BY <1>1, ConfiguresKeep
  <1>4. x \in Range(inbox) /\ x.id \in Range(pending) /\ x.id \in RequestIds
    BY <1>1, <1>2, ReadIs, InboxIs DEF CoreInv
  <1>5. call[k].pc = "configuring" /\ x.session = call[k].session /\ x.policy = call[k].want
    BY <1>3, <1>4, CallsAre DEF CoreInv, PendingInv, ContentsInv
  <1>6. Response(x.id, "ok") \in Responses /\ Response(x.id, "ok").id = <<"configure", k>>
    BY <1>3, <1>4 DEF Response, Responses, Answers
  <1>7. Range(outbox') = Range(outbox) \cup {Response(x.id, "ok")}
    BY <1>2, <1>6, WrittenLast DEF CoreInv
  <1>8. UNCHANGED <<call, desired, configured, configuring, mixed, micro, generation, children>>
    BY DEF clientVars, linkVars, routerVars
  <1>9. Alive' = Alive
    BY <1>8 DEF Alive
  <1>10. /\ \A s \in Sessions : s # call[k].session => policy'[s] = policy[s]
         /\ policy'[call[k].session] = call[k].want /\ call[k].session \in Sessions
    BY <1>2, <1>3, <1>5, CallIs DEF CoreInv, OwnInv, PoolTypeOK
  <1>11. /\ \A j, l \in Calls : SentBy(j) /\ SentBy(l) /\ call[j].session = call[l].session => j = l
         /\ \A l \in Calls : l[1] # "change" /\ Underway(l) =>
               call[l].want = Wanted(call[l].session) /\ call[l].session \notin configured
         /\ \A l \in Calls : Told(l) => policy[call[l].session] = call[l].want
         /\ \A s \in configured :
               Alive /\ (\A l \in Calls : call[l].session = s => ~SentBy(l)) => policy[s] = Wanted(s)
    BY DEF AloneInv
  <1>12. SentBy(k)
    BY <1>5 DEF SentBy
  <1>13. ASSUME NEW l \in Calls, Told(l)'
         PROVE  policy'[call[l].session] = call[l].want
    <2>1. CASE l = k
      BY <1>10, <2>1
    <2>2. CASE l # k
      <3>1. Told(l)
        BY <1>6, <1>7, <1>8, <1>9, <1>13, <2>2 DEF Told
      <3>2. SentBy(l)
        BY <3>1 DEF Told, SentBy
      <3>3. call[l].session # call[k].session /\ call[l].session \in Sessions
        BY <1>3, <1>11, <1>12, <2>2, <3>2, CallIs
      <3> QED
        BY <1>10, <1>11, <3>1, <3>3
    <2> QED
      BY <2>1, <2>2
  <1>14. ASSUME NEW s \in configured, \A l \in Calls : call[l].session = s => ~SentBy(l)
         PROVE  policy'[s] = Wanted(s)
    BY <1>3, <1>10, <1>11, <1>12, <1>14 DEF CoreInv, CallsInv
  <1>15. \A l : SentBy(l)' = SentBy(l) /\ Underway(l)' = Underway(l)
    BY <1>8 DEF SentBy, Underway
  <1>16. \A s : Wanted(s)' = Wanted(s)
    BY <1>8 DEF Wanted
  <1>17. \A j, l \in Calls : SentBy(j)' /\ SentBy(l)' /\ call'[j].session = call'[l].session => j = l
    BY <1>8, <1>11, <1>15
  <1>18. \A l \in Calls : l[1] # "change" /\ Underway(l)' =>
            call'[l].want = Wanted(call[l].session)' /\ call'[l].session \notin configured'
    BY <1>8, <1>11, <1>15, <1>16
  <1>19. \A l \in Calls : Told(l)' => policy'[call'[l].session] = call'[l].want
    BY <1>8, <1>13
  <1>20. \A s \in configured' :
            Alive' /\ (\A l \in Calls : call'[l].session = s => ~SentBy(l)') => policy'[s] = Wanted(s)'
    BY <1>8, <1>14, <1>15, <1>16
  <1> QED
    BY <1>17, <1>18, <1>19, <1>20 DEF AloneInv

\* The process answers the handshake.
LEMMA PingAnswered ==
  ASSUME CoreInv, FirstInv, Alive, UNCHANGED <<clientVars, routerVars>>, HandlePing
  PROVE  FirstInv'
  <1>1. PICK x : x = Head(inbox)
    OBVIOUS
  <1>2. Reading("ping") /\ Write(<<Response(x.id, "ok")>>)
    BY <1>1 DEF HandlePing, ReplyOk
  <1>3. x \in Range(inbox) /\ x.id \in Range(pending) /\ x.id[1] = "ping"
    BY <1>1, <1>2, ReadIs
  <1>4. x.id \in RequestIds
    BY <1>3, InboxIs DEF CoreInv
  <1>5. x.id = Ping
    BY <1>3, <1>4, CallsAre DEF Ping, CoreInv, PendingInv
  <1>6. Response(x.id, "ok") \in Responses /\ Response(x.id, "ok").id = Ping
    BY <1>4, <1>5 DEF Response, Responses, Answers
  <1>7. /\ outbox # <<>> => outbox' # <<>> /\ outbox'[1] = outbox[1]
        /\ outbox = <<>> => outbox' = <<Response(x.id, "ok")>>
    BY <1>2, <1>6, WrittenLast DEF CoreInv
  <1>8. UNCHANGED <<call, micro, generation, failed, ready, children>>
    BY DEF clientVars, linkVars, routerVars
  <1>9. Connected' = Connected /\ Alive' = Alive
    BY <1>8 DEF Connected, Alive
  <1>10. ASSUME Connected, ~ready
         PROVE  /\ outbox' # <<>> /\ outbox'[1].id = Ping
                /\ \A y \in Range(micro) : ~(y.answer = "ok" /\ call[y.call].pc = "configuring")
    <2>1. /\ outbox = <<>> \/ (outbox # <<>> /\ outbox[1].id = Ping)
          /\ \A y \in Range(micro) : ~(y.answer = "ok" /\ call[y.call].pc = "configuring")
      BY <1>10 DEF FirstInv
    <2>2. outbox = <<>> => outbox' # <<>> /\ outbox'[1].id = Ping
      BY <1>6, <1>7
    <2> QED
      BY <1>7, <2>1, <2>2
  <1> QED
    BY <1>8, <1>9, <1>10 DEF FirstInv

\* What the process does.
LEMMA ProcessKeepsPolicy ==
  ASSUME CoreInv, FirstInv, AloneInv,
         \/ ProcessStep
         \/ \E w \in Workers, how \in {"ended", "stopped", "broken"} : CommandReturns(w, how)
  PROVE  FirstInv' /\ AloneInv'
  <1>1. Alive /\ UNCHANGED <<clientVars, routerVars>>
    BY DEF ProcessStep, HandleRequest, ThreadStep, CommandReturns
  <1>2. CASE HandlePing
    BY <1>1, <1>2, PingAnswered, MainRelates, UnrelatedKeeps
  <1>3. ASSUME HandleRun \/ HandleCancel \/ HandleConfigure \/ AnswerCancelled
        PROVE  Occupied
    <2>1. CASE AnswerCancelled
      BY <2>1 DEF AnswerCancelled, Occupied
    <2>2. CASE ~AnswerCancelled
      BY <1>3, <2>2, FramesAre, TailIs DEF HandleRun, HandleCancel, HandleConfigure, Reading,
         CoreInv, Occupied, Ping
    <2> QED
      BY <2>1, <2>2
  <1>4. CASE HandleRun \/ HandleCancel \/ AnswerCancelled
    <2>1. Unrelated
      BY <1>4, MainRelates
    <2> QED
      BY <1>1, <1>3, <1>4, <2>1, UnrelatedKeeps, OccupiedKeeps DEF Unrelated
  <1>5. CASE HandleConfigure
    BY <1>1, <1>3, <1>5, ReadIs, InboxIs, WrittenLast, PolicyArrives, OccupiedKeeps DEF CoreInv,
       HandleConfigure, Response, Responses, Answers, ReplyOk
  <1>6. ASSUME NEW w \in Workers,
               WorkerStep(w) \/ \E how \in {"ended", "stopped", "broken"} : Returns(w, how)
        PROVE  FirstInv' /\ AloneInv'
    <2>1. Unrelated /\ (Occupied \/ Wait(w))
      BY <1>6, ThreadRelates
    <2>2. AloneInv'
      BY <1>1, <2>1, UnrelatedKeeps
    <2>3. CASE Occupied
      BY <1>1, <2>1, <2>2, <2>3, OccupiedKeeps DEF Unrelated
    <2>4. CASE Wait(w)
      BY <1>1, <2>2, <2>4 DEF Wait, Goes, CoreInv, OwnInv, PoolTypeOK, clientVars, linkVars,
         routerVars, Connected, Alive, Busy, FirstInv
    <2> QED
      BY <2>1, <2>3, <2>4
  <1>7. \/ MainLoop \/ \E w \in Workers : WorkerStep(w)
        \/ \E w \in Workers, how \in {"ended", "stopped", "broken"} : Returns(w, how)
    BY DEF ProcessStep, HandleRequest, ThreadStep, CommandReturns
  <1> QED
    BY <1>2, <1>4, <1>5, <1>6, <1>7 DEF MainLoop

(***************************************************************************)
(* What the client does to a policy.                                       *)
(***************************************************************************)

\* Nobody sends and nobody hears anything.
LEMMA CallsStay ==
  ASSUME AloneInv, UNCHANGED <<call, desired, mixed>>, configured' \subseteq configured, Untold
  PROVE  AloneInv'
  <1>1. \A k \in Calls : SentBy(k)' = SentBy(k) /\ Underway(k)' = Underway(k)
    BY DEF SentBy, Underway
  <1> QED
    BY <1>1, AloneStays

\* What was written is read, or lost, and not more.
LEMMA LessIsTold ==
  ASSUME UNCHANGED <<call, policy>>, Alive' = Alive, Range(outbox') \subseteq Range(outbox),
         \A k \in Calls : call[k].pc = "configuring" /\ [call |-> k, answer |-> "ok"] \in Range(micro') =>
             Told(k) \/ ~Alive
  PROVE  Untold
  BY DEF Untold, Told

\* The handshake is over.
LEMMA PongKeepsPolicy ==
  ASSUME CoreInv, AloneInv, CoreReady
  PROVE  FirstInv' /\ AloneInv'
  <1>1. /\ Receiving /\ outbox' = Tail(outbox) /\ ready' = TRUE
        /\ micro' = Continues(starters, "ok")
        /\ UNCHANGED <<generation, children, call, desired, mixed, policy>> /\ configured' = {}
    BY DEF CoreReady, OnPong, Invalidate
  <1>2. Alive' = Alive
    BY <1>1 DEF Alive
  <1>3. Range(outbox') \subseteq Range(outbox)
    BY <1>1, ReceivedIs
  <1>4. \A k \in Calls : [call |-> k, answer |-> "ok"] \in Range(micro') => call[k].pc = "starting"
    <2>1. starters \in Seq(Calls) /\ \A k \in Range(starters) : call[k].pc = "starting"
      BY DEF CoreInv, PlacesInv
    <2>2. PICK a \in Answers \cup {"lost"} : a = "ok"
      BY DEF Answers
    <2>3. Range(Continues(starters, a)) = {[call |-> k, answer |-> a] : k \in Range(starters)}
      BY <2>1, ContinuesIs
    <2>4. ASSUME NEW k \in Calls, [call |-> k, answer |-> "ok"] \in Range(micro')
          PROVE  k \in Range(starters)
      BY <1>1, <2>2, <2>3, <2>4
    <2> QED
      BY <2>1, <2>4
  <1>5. Untold
    BY <1>1, <1>2, <1>3, <1>4, LessIsTold
  <1> QED
    BY <1>1, <1>5, CallsStay DEF FirstInv

\* An answer but the one to the handshake is only read when that is over.
LEMMA ReadyFirst ==
  ASSUME CoreInv, FirstInv, Receiving, Frame.id # Ping, UNCHANGED <<generation, failed, ready>>
  PROVE  ready /\ FirstInv'
  <1>1. Connected /\ outbox # <<>> /\ outbox[1] = Frame
    BY FramesAre, TailIs DEF Receiving, CoreInv, Frame
  <1>2. ready
    BY <1>1 DEF FirstInv
  <1> QED
    BY <1>2 DEF FirstInv

LEMMA ResultsKeepPolicy ==
  ASSUME CoreInv, FirstInv, AloneInv, OnResult, UNCHANGED routerVars
  PROVE  FirstInv' /\ AloneInv'
  <1>1. /\ Receiving /\ Frame.id[1] = "run" /\ outbox' = Tail(outbox)
        /\ UNCHANGED <<linkVars, micro, policy>>
        /\ UNCHANGED <<call, desired, mixed, configured>>
    BY DEF OnResult, routerVars
  <1>2. UNCHANGED <<generation, failed, ready, children>> /\ Alive' = Alive
    BY <1>1 DEF linkVars, Alive
  <1>3. FirstInv'
    BY <1>1, <1>2, ReadyFirst DEF Ping
  <1>4. Range(outbox') \subseteq Range(outbox)
    BY <1>1, ReceivedIs
  <1>5. Untold
    BY <1>1, <1>2, <1>4, LessIsTold DEF Told
  <1> QED
    BY <1>1, <1>3, <1>5, CallsStay

LEMMA AnswersKeepPolicy ==
  ASSUME CoreInv, FirstInv, AloneInv, OnAnswer, UNCHANGED routerVars
  PROVE  FirstInv' /\ AloneInv'
  <1>1. /\ Receiving /\ Frame.id[1] \in {"configure", "cancel"} /\ outbox' = Tail(outbox)
        /\ micro' = <<[call |-> Frame.id[2], answer |-> Frame.answer]>>
        /\ UNCHANGED <<linkVars, policy>>
        /\ UNCHANGED <<call, desired, mixed, configured>>
    BY DEF OnAnswer, routerVars
  <1>2. UNCHANGED <<generation, failed, ready, children>> /\ Alive' = Alive
    BY <1>1 DEF linkVars, Alive
  <1>3. FirstInv'
    BY <1>1, <1>2, ReadyFirst DEF Ping
  <1>4. /\ Range(outbox') \subseteq Range(outbox) /\ Frame \in Range(outbox)
        /\ Frame.id \in Range(pending) /\ Frame.id \in RequestIds
    BY <1>1, ReceivedIs
  <1>5. ASSUME NEW k \in Calls, call[k].pc = "configuring",
               [call |-> k, answer |-> "ok"] \in Range(micro'), Alive
        PROVE  Told(k)
    <2>1. PICK x : x = [call |-> Frame.id[2], answer |-> Frame.answer]
      OBVIOUS
    <2>2. Range(micro') = {x}
      BY <1>1, <2>1, OneIs
    <2>3. k = Frame.id[2]
      BY <1>5, <2>1, <2>2
    <2>4. Frame.id = <<Frame.id[1], k>> /\ k \in Callers
      BY <1>1, <1>4, <2>3, CallsAre
    <2>5. Frame.id[1] # "cancel"
      <3>1. ASSUME Frame.id[1] = "cancel" PROVE FALSE
        BY <1>4, <1>5, <2>4, <3>1 DEF CoreInv, PendingInv
      <3> QED
        BY <3>1
    <2>6. Frame.id = <<"configure", k>>
      BY <1>1, <2>4, <2>5
    <2> QED
      BY <1>4, <1>5, <2>6 DEF Told
  <1>6. Untold
    BY <1>1, <1>2, <1>4, <1>5, LessIsTold
  <1> QED
    BY <1>1, <1>3, <1>6, CallsStay

\* A new process is pinged first, and has no policy.
LEMMA LaunchPolicy ==
  ASSUME CoreInv, Launch, UNCHANGED <<stopping, faults>>,
         timers' \in Nat, armed' \in BOOLEAN, armed' => timers' > 0,
         UNCHANGED <<execQueue, execRunning, configured>>,
         \A x \in Range(micro') : x.answer # "ok"
  PROVE  FirstInv' /\ Untold
  <1>1. /\ inbox' = <<PingRequest>> /\ outbox' = <<>> /\ PingRequest.id = Ping /\ main' = NoCommand
        /\ configured = {} /\ Alive'
    BY LaunchIs
  <1>2. UNCHANGED <<queue, worker, configured>> /\ ~Connected
    BY DEF Launch
  <1>3. ~Alive
    BY <1>2 DEF CoreInv, LinkInv, Alive
  <1>4. queue' = <<>> /\ worker' = [w \in Workers |-> IdleWorker]
    BY <1>2, <1>3 DEF CoreInv, GoneInv
  <1>5. \A w \in Workers : ~Busy(w)'
    BY <1>4 DEF Busy, IdleWorker
  <1>6. inbox' # <<>> /\ inbox'[1].id = Ping
    BY <1>1
  <1>7. FirstInv'
    BY <1>1, <1>4, <1>5, <1>6 DEF FirstInv
  <1>8. \A k \in Calls : ~Told(k)'
    BY <1>1, NoneIs DEF Told
  <1> QED
    BY <1>1, <1>2, <1>7, <1>8 DEF Untold

\* A timer goes off.
LEMMA TimersKeepPolicy ==
  ASSUME CoreInv, FirstInv, AloneInv, TimerFires, UNCHANGED routerVars
  PROVE  FirstInv' /\ AloneInv'
  <1>1. /\ micro = <<>> /\ timers > 0 /\ timers' = timers - 1 /\ armed' = FALSE
        /\ UNCHANGED <<starters, execVars, stopping, micro, outcome, faults>>
        /\ UNCHANGED <<call, desired, mixed, configured>>
    BY DEF TimerFires, routerVars
  <1>2. Range(micro') = {}
    BY <1>1, NoneIs
  <1>3. CASE Launch
    <2>1. timers \in Nat
      BY DEF CoreInv, LinkInv
    <2>2. timers' \in Nat /\ armed' \in BOOLEAN /\ (armed' => timers' > 0)
      <3>1. timers' \in Nat
        BY <1>1, <2>1
      <3> QED
        BY <1>1, <3>1
    <2>3. UNCHANGED <<execQueue, execRunning, configured, stopping, faults>>
      BY <1>1 DEF execVars
    <2>4. FirstInv' /\ Untold
      BY <1>2, <1>3, <2>2, <2>3, LaunchPolicy
    <2> QED
      BY <1>1, <2>4, CallsStay
  <1>4. CASE UNCHANGED <<generation, failed, ready, children, closing, pending, poolVars>>
    BY <1>1, <1>2, <1>4, FirstStays, LessIsTold, CallsStay DEF poolVars, Steady, Connected, Alive
  <1> QED
    BY <1>3, <1>4 DEF TimerFires

\* The process dies, by itself or because it is given up.
LEMMA DeathKeepsPolicy ==
  ASSUME AloneInv, ~Alive', UNCHANGED <<call, desired, mixed>>, configured' \subseteq configured
  PROVE  AloneInv'
  <1>1. Untold
    BY DEF Untold, Told
  <1> QED
    BY <1>1, CallsStay

LEMMA CrashKeepsPolicy ==
  ASSUME FirstInv, AloneInv, ClientCrash
  PROVE  FirstInv' /\ AloneInv'
  <1>1. /\ children' = children \ {generation} /\ Alive
        /\ UNCHANGED <<outbox, generation, failed, ready, micro>>
        /\ UNCHANGED <<call, desired, mixed, configured>>
    BY DEF ClientCrash, Crash, routerVars
  <1>2. ~Alive' /\ Connected' = Connected
    BY <1>1 DEF Alive, Connected
  <1>3. FirstInv'
    BY <1>1, <1>2 DEF FirstInv
  <1> QED
    BY <1>1, <1>2, <1>3, DeathKeepsPolicy

LEMMA FailureKeepsPolicy ==
  ASSUME AloneInv, NEW restart \in BOOLEAN, FailConnection(restart), Invalidate
  PROVE  FirstInv' /\ AloneInv'
  <1>1. /\ failed' = generation /\ generation' = generation /\ children' = children \ {generation}
        /\ UNCHANGED <<call, desired, mixed>> /\ configured' = {}
    BY DEF FailConnection, Kill, Invalidate
  <1>2. ~Connected' /\ ~Alive'
    BY <1>1 DEF Connected, Alive
  <1> QED
    BY <1>1, <1>2, DeathKeepsPolicy DEF FirstInv

\* The process and the connection go on, and no call does.
LEMMA SteadyKeepsPolicy ==
  ASSUME FirstInv, AloneInv, Steady, UNCHANGED <<call, desired, mixed, configured, micro>>
  PROVE  FirstInv' /\ AloneInv'
  <1>1. FirstInv'
    BY FirstStays
  <1>2. Untold
    BY LessIsTold DEF Steady, Told
  <1> QED
    BY <1>1, <1>2, CallsStay

LEMMA ExitsKeepPolicy ==
  ASSUME CoreInv, FirstInv, AloneInv, CoreExit
  PROVE  FirstInv' /\ AloneInv'
  <1>1. CASE failed' = failed
    BY <1>1, SteadyKeepsPolicy DEF CoreExit, Exits, Stopped, CloseEvent, FailConnection, Connected,
       routerVars, poolVars, Steady, Alive
  <1>2. CASE failed' # failed
    <2>1. Invalidate
      BY <1>2 DEF CoreExit
    <2>2. PICK restart \in BOOLEAN : FailConnection(restart)
      BY <1>2 DEF CoreExit, Exits, Stopped, CloseEvent
    <2> QED
      BY <2>1, <2>2, FailureKeepsPolicy
  <1> QED
    BY <1>1, <1>2

LEMMA TimeoutKeepsPolicy ==
  ASSUME AloneInv, Timeout, Invalidate
  PROVE  FirstInv' /\ AloneInv'
  <1>1. FailConnection(~stopping) /\ (~stopping) \in BOOLEAN
    BY DEF Timeout
  <1> QED
    BY <1>1, FailureKeepsPolicy

\* More or fewer places, and stop().
LEMMA PlacesKeepPolicy ==
  ASSUME CoreInv, FirstInv, AloneInv, UNCHANGED routerVars,
         Stop \/ \E n \in 1..MaxConcurrency : SetExecConcurrency(n)
  PROVE  FirstInv' /\ AloneInv'
  <1>1. UNCHANGED <<call, desired, mixed, configured, micro>>
    BY DEF routerVars, Stop, SetExecConcurrency
  <1>2. CASE Stop
    <2>1. Steady
      BY <1>2 DEF Stop, poolVars, Steady, Connected, Alive
    <2> QED
      BY <1>1, <2>1, SteadyKeepsPolicy
  <1>3. ASSUME NEW n \in 1..MaxConcurrency, SetExecConcurrency(n)
        PROVE  FirstInv' /\ AloneInv'
    <2>1. Steady
      BY <1>3, ConcurrencyKeeps
    <2> QED
      BY <1>1, <2>1, SteadyKeepsPolicy
  <1> QED
    BY <1>2, <1>3

\* A call goes on, but not to send a policy.
LEMMA StepsAside ==
  ASSUME FirstInv, AloneInv, Steady, NEW k \in Calls,
         \A l \in Calls \ {k} : /\ call'[l].pc = call[l].pc /\ call'[l].session = call[l].session
                                /\ call'[l].want = call[l].want,
         call'[k].pc # "configuring",
         call'[k].pc = "proxy" =>
             call[k].pc = "configuring" /\ call'[k].session = call[k].session /\ call'[k].want = call[k].want,
         call'[k].pc = "starting" =>
             call'[k].want = Wanted(call'[k].session) /\ call'[k].session \notin configured,
         SentBy(k) /\ ~SentBy(k)' /\ Alive /\ ~mixed' => call[k].session \notin configured',
         desired' = desired, configured' \subseteq configured, mixed => mixed',
         \A x \in Range(micro') : x.answer = "ok" /\ call'[x.call].pc = "configuring" =>
             x \in Range(micro) /\ x.call \in Calls
  PROVE  FirstInv' /\ AloneInv'
  <1>1. \A l \in Calls : call'[l].pc = "configuring" => call[l].pc = "configuring" /\ l # k
    OBVIOUS
  <1>2. FirstInv'
    BY <1>1, FirstStays
  <1>3. Untold
    <2>1. ASSUME NEW l \in Calls, Told(l)'
          PROVE  Told(l)
      <3>1. call'[l].pc = "configuring" /\ call[l].pc = "configuring" /\ Alive /\ outbox' = outbox
        BY <1>1, <2>1 DEF Told, Steady
      <3>2. CASE \E x \in Range(outbox) : x.id = <<"configure", l>>
        BY <3>1, <3>2 DEF Told
      <3>3. CASE [call |-> l, answer |-> "ok"] \in Range(micro')
        BY <3>1, <3>3 DEF Told
      <3> QED
        BY <2>1, <3>1, <3>2, <3>3 DEF Told
    <2> QED
      BY <2>1 DEF Untold, Steady
  <1>4. \A l \in Calls : SentBy(l)' =>
           SentBy(l) /\ call'[l].session = call[l].session /\ call'[l].want = call[l].want
    BY DEF SentBy
  <1>5. \A l \in Calls : l[1] # "change" /\ Underway(l)' =>
           \/ Underway(l) /\ call'[l].session = call[l].session /\ call'[l].want = call[l].want
           \/ call'[l].want = Wanted(call'[l].session) /\ call'[l].session \notin configured
    BY DEF Underway
  <1>6. \A l \in Calls : SentBy(l) /\ ~SentBy(l)' /\ Alive' /\ ~mixed' => call[l].session \notin configured'
    BY DEF Steady, SentBy
  <1>7. AloneInv'
    BY <1>3, <1>4, <1>5, <1>6, AloneStays
  <1> QED
    BY <1>2, <1>7

(***************************************************************************)
(* What the router does to a policy.                                       *)
(***************************************************************************)

\* call() leaves what was in the pipe where it was.
LEMMA SentSteady ==
  ASSUME CoreInv, NEW r, Sent(<<r>>), UNCHANGED <<linkVars, outbox>>
  PROVE  Steady
  <1>1. /\ UNCHANGED <<generation, failed, ready, children, outbox, policy, queue, main, worker>>
        /\ inbox' = inbox \/ inbox' = inbox \o <<r>>
    BY DEF Sent, linkVars
  <1>2. PICK S : S = Requests \cup {r}
    OBVIOUS
  <1>3. inbox \in Seq(S) /\ r \in S
    BY <1>2, FramesAre DEF CoreInv
  <1>4. inbox' = inbox \/ inbox' = Append(inbox, r)
    BY <1>1, <1>3
  <1>5. Append(inbox, r) # <<>> /\ (inbox # <<>> => Append(inbox, r)[1] = inbox[1])
    BY <1>3, AppendIs, NoneIs
  <1>6. inbox # <<>> => inbox' # <<>> /\ inbox'[1] = inbox[1]
    BY <1>4, <1>5
  <1> QED
    BY <1>1, <1>6 DEF Steady, Connected, Alive

LEMMA NothingSteady ==
  ASSUME UNCHANGED <<linkVars, poolVars>>
  PROVE  Steady
  BY DEF linkVars, poolVars, Steady, Connected, Alive

\* A call sends its policy.
LEMMA SendsPolicy ==
  ASSUME CoreInv, FirstInv, AloneInv, NEW k \in Calls, Mixed(k), Steady,
         \A l \in Calls \ {k} : call'[l] = call[l],
         call'[k].session = call[k].session, call'[k].pc = "configuring",
         UNCHANGED <<desired, configured>>,
         call[k].pc \in {"meta", "starting", "proxy"},
         Range(micro') \subseteq Range(micro), k \notin Woken',
         k[1] # "change" =>
             \/ call'[k].want = Wanted(call[k].session) /\ call[k].session \notin configured
             \/ Underway(k) /\ call'[k].want = call[k].want
  PROVE  FirstInv' /\ AloneInv'
  <1>1. AloneInv'
    BY NewlySent
  <1>2. \A x \in Range(micro') : x \in Range(micro) /\ x.call \in Calls \ {k}
    BY MicroIs DEF CoreInv, Woken
  <1>3. FirstInv'
    BY <1>2, FirstStays
  <1> QED
    BY <1>1, <1>3

\* The session is looked up, and the process does not have its policy.
LEMMA EnsuresKeepPolicy ==
  ASSUME CoreInv, FirstInv, AloneInv, NEW k \in Calls, k[1] # "change", call[k].pc = "meta",
         micro = <<>>, EnsureConfigured(k), StartOrConfigure(k),
         UNCHANGED <<execVars, stopping, faults, micro>>
  PROVE  FirstInv' /\ AloneInv'
  <1> DEFINE s == call[k].session
             first == configuring[s]
  <1>1. UNCHANGED <<desired, configured>> /\ s \notin configured
    BY DEF EnsureConfigured
  <1>2. Range(micro') = {} /\ Range(micro) = {} /\ Woken' = {}
    BY NoneIs DEF Woken
  <1>3. s \in Sessions /\ call \in [Calls -> Call] /\ mixed \in BOOLEAN
        /\ configuring \in [Sessions -> Calls \cup {NoCall}]
    BY CallIs DEF CoreInv, CallsInv
  <1>4. CASE /\ first # NoCall
             /\ call' = [call EXCEPT ![k].pc = "joining", ![first].joined = Append(@, k)]
    <2>1. first \in Calls /\ first # k
      BY <1>3, <1>4 DEF CoreInv, JoinedInv, Underway
    <2>2. PICK f, j : f = first /\ j = Append(call[first].joined, k)
      OBVIOUS
    <2>3. call' = [call EXCEPT ![k].pc = "joining", ![f].joined = j]
      BY <1>4, <2>1, <2>2
    <2>4. /\ call'[k].pc = "joining"
          /\ \A l \in Calls \ {k} : /\ call'[l].pc = call[l].pc /\ call'[l].session = call[l].session
                                    /\ call'[l].want = call[l].want
      BY <1>3, <2>1, <2>2, <2>3 DEF Call
    <2>5. UNCHANGED <<linkVars, pending, mixed, poolVars>>
      BY <2>4 DEF StartOrConfigure
    <2>6. Steady
      BY <2>5, NothingSteady
    <2>7. ~SentBy(k)
      BY DEF SentBy
    <2> QED
      BY <1>1, <1>2, <2>4, <2>5, <2>6, <2>7, StepsAside
  <1>5. CASE /\ first = NoCall
             /\ call' = [call EXCEPT ![k].want = Wanted(s),
                                     ![k].pc = IF Connected /\ ready THEN "configuring" ELSE "starting"]
    <2>1. CASE Connected /\ ready
      BY <1>1, <1>2, <1>5, <2>1, BeginsIs, SentSteady, SendsPolicy DEF Begins, StartOrConfigure,
         Moves
    <2>2. CASE ~(Connected /\ ready)
      <3>1. Begins(k, "starting")
        BY <1>5, <2>2 DEF Begins
      <3>2. /\ Moves(k) /\ call'[k].pc = "starting" /\ call'[k].want = Wanted(s)
            /\ call'[k].session = s
        BY <3>1, BeginsIs
      <3>3. /\ \A l \in Calls \ {k} : call'[l] = call[l]
            /\ ~SentBy(k) /\ ~SentBy(k)'
        BY <3>2 DEF Moves, SentBy
      <3>4. CASE UNCHANGED <<generation, failed, ready, timers, armed, children, closing, pending, mixed,
                             poolVars>>
        BY <1>1, <1>2, <3>2, <3>3, <3>4, StepsAside DEF poolVars, Steady, Connected, Alive
      <3>5. CASE /\ Launch /\ UNCHANGED <<timers, armed, mixed>>
        <4>1. timers' \in Nat /\ armed' \in BOOLEAN /\ (armed' => timers' > 0)
          BY <3>5 DEF CoreInv, LinkInv
        <4>2. UNCHANGED <<execQueue, execRunning, configured, stopping, faults>>
          BY <1>1 DEF execVars
        <4>3. FirstInv' /\ Untold
          BY <1>2, <3>5, <4>1, <4>2, LaunchPolicy
        <4>4. \A l \in Calls : SentBy(l)' => SentBy(l) /\ l # k
          BY <3>3 DEF SentBy
        <4>5. \A l \in Calls : Underway(l)' => l = k \/ Underway(l)
          BY <3>3 DEF Underway
        <4>6. \A l \in Calls : SentBy(l) /\ ~SentBy(l)' => l = k
          BY <3>3 DEF SentBy
        <4>7. AloneInv'
          BY <1>1, <3>2, <3>3, <3>5, <4>3, <4>4, <4>5, <4>6, AloneStays
        <4> QED
          BY <4>3, <4>7
      <3> QED
        BY <3>2, <3>4, <3>5 DEF StartOrConfigure
    <2> QED
      BY <2>1, <2>2
  <1> QED
    BY <1>4, <1>5 DEF EnsureConfigured

\* A call fails, or ends in another way without a policy in the process.
LEMMA FailsAside ==
  ASSUME CoreInv, FirstInv, AloneInv, NEW k \in Calls, FailCall(k), Steady,
         \A l \in Calls : k \notin Range(call[l].joined),
         SentBy(k) /\ Alive /\ ~mixed' => call[k].session \notin configured,
         mixed => mixed',
         \A x \in Range(micro') : x \in Range(micro) \/ x.answer = "lost"
  PROVE  FirstInv' /\ AloneInv'
  <1>1. Moves(k) /\ call'[k].pc = "done" /\ UNCHANGED <<desired, configured>>
    BY FailIs
  <1>2. \A l \in Calls \ {k} : call'[l] = call[l]
    BY <1>1 DEF Moves
  <1>3. \A x \in Range(micro') : x.answer = "ok" => x \in Range(micro) /\ x.call \in Calls
    BY MicroIs DEF CoreInv
  <1> QED
    BY <1>1, <1>2, <1>3, StepsAside

LEMMA LooksKeepPolicy ==
  ASSUME CoreInv, FirstInv, AloneInv, NEW k \in Calls, LookedUp(k)
  PROVE  FirstInv' /\ AloneInv'
  <1>1. micro = <<>> /\ k[1] # "change" /\ call[k].pc = "meta" /\ UNCHANGED micro
    BY DEF LookedUp
  <1>2. Range(micro') = {} /\ ~SentBy(k) /\ \A m \in Calls : k \notin Range(call[m].joined)
    BY <1>1, NoneIs, AsleepIs DEF SentBy
  <1>3. CASE /\ call[k].session \in configured /\ Proceed(k) /\ Goto(k, After(k))
             /\ UNCHANGED <<desired, configured, configuring, cancelled, mixed>>
    BY <1>1, <1>2, <1>3, KnownKeep, GotoIs, AfterIs, StepsAside
  <1>4. CASE EnsureConfigured(k) /\ StartOrConfigure(k) /\ UNCHANGED <<execVars, stopping, faults>>
    BY <1>1, <1>4, EnsuresKeepPolicy
  <1>5. CASE FailCall(k) /\ UNCHANGED <<linkVars, execVars, pending, stopping, mixed, faults, poolVars>>
    <2>1. Steady
      BY <1>5, NothingSteady
    <2> QED
      BY <1>2, <1>5, <2>1, FailsAside
  <1> QED
    BY <1>3, <1>4, <1>5 DEF LookedUp

\* A call is issued.
LEMMA IssuedKeepsPolicy ==
  ASSUME FirstInv, AloneInv, NEW k \in Calls, Issue(k), call'[k].pc = "meta",
         \A l \in Calls \ {k} : call'[l] = call[l], UNCHANGED mixed
  PROVE  FirstInv' /\ AloneInv'
  <1>1. /\ call[k].pc = "new" /\ micro = <<>>
        /\ UNCHANGED <<linkVars, poolVars, micro, desired, configured>>
    BY DEF Issue, clientVars
  <1>2. Steady
    BY <1>1, NothingSteady
  <1>3. Range(micro') = {} /\ ~SentBy(k)
    BY <1>1, NoneIs DEF SentBy
  <1> QED
    BY <1>1, <1>2, <1>3, StepsAside

LEMMA IssuesKeepPolicy ==
  ASSUME CoreInv, FirstInv, AloneInv,
         \/ \E c \in Commands : IssueRun(c) \/ IssueCancel(c)
         \/ \E n \in Changes, s \in Sessions, p \in Policies : IssueChange(n, s, p)
  PROVE  FirstInv' /\ AloneInv'
  <1>1. call \in [Calls -> Call] /\ "meta" \in Steps
    BY DEF CoreInv, CallsInv, Steps
  <1>2. ASSUME NEW k \in Calls, Issue(k), Goto(k, "meta"), UNCHANGED mixed
        PROVE  FirstInv' /\ AloneInv'
    BY <1>1, <1>2, IssuedKeepsPolicy DEF Goto, Call
  <1>3. ASSUME NEW c \in Commands, IssueRun(c)
        PROVE  FirstInv' /\ AloneInv'
    BY <1>2, <1>3, CallsAre DEF IssueRun
  <1>4. ASSUME NEW c \in Commands, IssueCancel(c)
        PROVE  FirstInv' /\ AloneInv'
    BY <1>2, <1>4, CallsAre DEF IssueCancel
  <1>5. ASSUME NEW n \in Changes, NEW s \in Sessions, NEW p \in Policies, IssueChange(n, s, p)
        PROVE  FirstInv' /\ AloneInv'
    BY <1>1, <1>5, IssuedKeepsPolicy DEF Calls, IssueChange, NewCall
  <1> QED
    BY <1>3, <1>4, <1>5

\* Those who joined a call are told how it went.
LEMMA JoinedAre ==
  ASSUME CoreInv, NEW k \in Calls, NEW j, j = call[k].joined
  PROVE  /\ j \in Seq(Calls) /\ IsInjective(j) /\ Range(j) \subseteq Calls
         /\ \A l \in Range(j) : l \notin Woken /\ call[l].pc = "joining" /\ l # k
  BY CallIs DEF CoreInv, JoinedInv

LEMMA JoinedHear ==
  ASSUME NEW m \in Seq(Promise), NEW a \in Answers \cup {"lost"}, NEW j \in Seq(Calls),
         micro' = m \o Continues(j, a)
  PROVE  \A x \in Range(micro') : x \in Range(m) \/ (x.answer = a /\ x.call \in Range(j))
  <1> DEFINE t == Continues(j, a)
  <1>1. t \in Seq(Promise) /\ CallsOf(t) = Range(j) /\ \A x \in Range(t) : x.answer = a
    BY ContinuesIs
  <1>2. micro' = m \o t
    OBVIOUS
  <1> HIDE DEF t
  <1>3. Range(micro') = Range(m) \cup Range(t)
    BY <1>1, <1>2, ConcatIs
  <1> QED
    BY <1>1, <1>3 DEF CallsOf

\* The policy of a change, or the one with the proxy, is sent; or there is no process.
LEMMA ConfiguresKeepPolicy ==
  ASSUME CoreInv, FirstInv, AloneInv, NEW k \in Calls, micro = <<>>, Configure(k),
         UNCHANGED <<execVars, stopping, faults>>,
         \/ k[1] = "change" /\ call[k].pc = "meta"
         \/ call[k].pc = "proxy"
  PROVE  FirstInv' /\ AloneInv'
  <1>1. /\ micro \in Seq(Promise) /\ IsInjective(micro) /\ Range(micro) = {}
        /\ \A m \in Calls : k \notin Range(call[m].joined)
    BY AsleepIs, NoneIs
  <1>2. CASE /\ Connected /\ Mixed(k)
             /\ call' = [call EXCEPT ![k].pc = "configuring", ![k].second = (call[k].pc = "proxy")]
             /\ Sent(<<ConfigureRequest(k)>>)
             /\ UNCHANGED <<linkVars, micro, outbox, outcome, desired, configured, configuring, cancelled>>
    BY <1>1, <1>2, SentSteady, SendsPolicy DEF CoreInv, CallsInv, Call, Underway, Woken
  <1>3. CASE /\ ~Connected /\ FailCall(k) /\ Kick /\ micro' = micro \o Continues(call[k].joined, "lost")
             /\ UNCHANGED mixed
    <2>1. configured = {}
      BY <1>3 DEF CoreInv, GoneInv
    <2>2. \A x \in Range(micro') : x.answer = "lost"
      <3> DEFINE t == Continues(call[k].joined, "lost")
      <3>1. t \in Seq(Promise) /\ \A x \in Range(t) : x.answer = "lost"
        BY CallIs, ContinuesIs
      <3>2. micro' = micro \o t
        BY <1>3
      <3> HIDE DEF t
      <3>3. Range(micro') = Range(micro) \cup Range(t)
        BY <1>1, <3>1, <3>2, ConcatIs
      <3> QED
        BY <1>1, <3>1, <3>3
    <2>3. CASE UNCHANGED <<linkVars, pending, poolVars>>
      <3>1. Steady
        BY <2>3, NothingSteady
      <3> QED
        BY <1>1, <1>3, <2>1, <2>2, <3>1, FailsAside
    <2>4. CASE Launch /\ timers' = (IF armed THEN timers - 1 ELSE timers) /\ armed' = FALSE
      <3>1. timers' \in Nat /\ armed' \in BOOLEAN /\ (armed' => timers' > 0)
        <4>1. timers \in Nat /\ (armed => timers > 0)
          BY DEF CoreInv, LinkInv
        <4>2. timers' \in Nat
          BY <2>4, <4>1
        <4> QED
          BY <2>4, <4>2
      <3>2. /\ Moves(k) /\ call'[k].pc = "done" /\ UNCHANGED <<desired, configured>>
        BY <1>1, <1>3, FailIs
      <3>3. UNCHANGED <<execQueue, execRunning, configured, stopping, faults>>
        BY <3>2 DEF execVars
      <3>4. \A x \in Range(micro') : x.answer # "ok"
        BY <2>2
      <3>5. FirstInv' /\ Untold
        BY <2>4, <3>1, <3>3, <3>4, LaunchPolicy
      <3>6. \A l \in Calls \ {k} : call'[l] = call[l]
        BY <3>2 DEF Moves
      <3>7. \A l \in Calls : SentBy(l)' => SentBy(l) /\ l # k
        BY <3>2, <3>6 DEF SentBy
      <3>8. \A l \in Calls : Underway(l)' => Underway(l) /\ l # k
        BY <3>2, <3>6 DEF Underway
      <3>9. \A l \in Calls : SentBy(l)' =>
               SentBy(l) /\ call'[l].session = call[l].session /\ call'[l].want = call[l].want
        BY <3>6, <3>7
      <3>10. \A l \in Calls : l[1] # "change" /\ Underway(l)' =>
               \/ Underway(l) /\ call'[l].session = call[l].session /\ call'[l].want = call[l].want
               \/ call'[l].want = Wanted(call'[l].session) /\ call'[l].session \notin configured
        BY <3>6, <3>8
      <3>11. AloneInv'
        BY <1>3, <2>1, <3>2, <3>5, <3>9, <3>10, AloneStays
      <3> QED
        BY <3>5, <3>11
    <2> QED
      BY <1>3, <2>3, <2>4 DEF Kick
  <1> QED
    BY <1>2, <1>3 DEF Configure

\* A proxy does not start: of a change the policy is in the process and is not remembered.
LEMMA ProxiesKeepPolicy ==
  ASSUME CoreInv, FirstInv, AloneInv, NEW k \in Calls, ProxyFailed(k)
  PROVE  FirstInv' /\ AloneInv'
  <1>1. /\ micro = <<>> /\ call[k].pc = "proxy" /\ FailCall(k)
        /\ mixed' = (mixed \/ k[1] = "change")
        /\ micro' = Continues(call[k].joined, "lost")
        /\ UNCHANGED <<linkVars, poolVars>>
    BY DEF ProxyFailed
  <1>2. \A m \in Calls : k \notin Range(call[m].joined)
    BY <1>1, AsleepIs
  <1>3. Steady
    BY <1>1, NothingSteady
  <1>4. \A x \in Range(micro') : x.answer = "lost"
    BY <1>1, CallIs, ContinuesIs
  <1>5. ~mixed' => call[k].session \notin configured
    <2>1. Underway(k)
      BY <1>1 DEF Underway
    <2> QED
      BY <1>1, <2>1 DEF AloneInv
  <1> QED
    BY <1>1, <1>2, <1>3, <1>4, <1>5, FailsAside

\* A policy that was sent is in the process, and counts from now on.
LEMMA RememberedIs ==
  ASSUME CoreInv, FirstInv, AloneInv, NEW k \in Calls, call[k].pc = "configuring",
         NEW p \in Range(micro), p.call = k, p.answer = "ok", Steady, NEW s, s = call[k].session,
         \A l \in Calls \ {k} : call'[l] = call[l], call'[k].pc \in {"cancelling", "done"},
         \A z \in Sessions \ {s} : Wanted(z)' = Wanted(z), ~mixed => Wanted(s)' = call[k].want,
         configured' = configured \cup {s}, mixed' = mixed,
         \A x \in Range(micro') : call'[x.call].pc # "configuring"
  PROVE  FirstInv' /\ AloneInv'
  <1>1. FirstInv'
    BY FirstStays
  <1>2. Range(micro) = {p} /\ Connected
    BY DEF CoreInv, SettledInv
  <1>3. ready
    BY <1>2 DEF FirstInv
  <1>4. \A l \in Calls : call[l].pc # "starting"
    BY <1>2, <1>3, NoneIs DEF CoreInv, PlacesInv, Woken
  <1> SUFFICES ASSUME ~mixed PROVE AloneInv'
    BY <1>1 DEF AloneInv
  <1>5. /\ \A j, l \in Calls : SentBy(j) /\ SentBy(l) /\ call[j].session = call[l].session => j = l
        /\ \A l \in Calls : l[1] # "change" /\ Underway(l) =>
              call[l].want = Wanted(call[l].session) /\ call[l].session \notin configured
        /\ \A l \in Calls : Told(l) => policy[call[l].session] = call[l].want
        /\ \A z \in configured :
              Alive /\ (\A l \in Calls : call[l].session = z => ~SentBy(l)) => policy[z] = Wanted(z)
    BY DEF AloneInv
  <1>6. ~SentBy(k)' /\ ~Underway(k)' /\ SentBy(k)
    BY DEF SentBy, Underway
  <1>7. \A l \in Calls : SentBy(l)' <=> SentBy(l) /\ l # k
    BY <1>6 DEF SentBy
  <1>8. \A l \in Calls : Underway(l)' => SentBy(l) /\ Underway(l) /\ l # k
    BY <1>4, <1>6 DEF SentBy, Underway
  <1>9. Alive => policy[s] = call[k].want
    BY <1>5, MicroIs DEF CoreInv, Told
  <1>10. \A j, l \in Calls : SentBy(j)' /\ SentBy(l)' /\ call'[j].session = call'[l].session => j = l
    BY <1>5, <1>7
  <1>11. \A l \in Calls : l[1] # "change" /\ Underway(l)' =>
            call'[l].want = Wanted(call[l].session)' /\ call'[l].session \notin configured'
    <2>1. ASSUME NEW l \in Calls, l[1] # "change", Underway(l)'
          PROVE  call'[l].want = Wanted(call[l].session)' /\ call'[l].session \notin configured'
      BY <1>5, <1>6, <1>8, <2>1, CallIs DEF Wanted
    <2> QED
      BY <2>1
  <1>12. \A l \in Calls : Told(l)' => policy'[call'[l].session] = call'[l].want
    <2>1. ASSUME NEW l \in Calls, Told(l)'
          PROVE  policy'[call'[l].session] = call'[l].want
      <3>1. l # k /\ call'[l] = call[l] /\ call[l].pc = "configuring"
        BY <2>1 DEF Told
      <3>2. [call |-> l, answer |-> "ok"] \notin Range(micro')
        BY <3>1
      <3>3. Told(l)
        BY <2>1, <3>1, <3>2 DEF Told, Steady
      <3> QED
        BY <1>5, <3>1, <3>3 DEF Steady
    <2> QED
      BY <2>1
  <1>13. \A z \in configured' :
            Alive' /\ (\A l \in Calls : call'[l].session = z => ~SentBy(l)') => policy'[z] = Wanted(z)'
    <2>1. ASSUME NEW z \in configured', Alive', \A l \in Calls : call'[l].session = z => ~SentBy(l)'
          PROVE  policy'[z] = Wanted(z)'
      <3>1. Alive /\ policy' = policy
        BY <2>1 DEF Steady
      <3>2. CASE z = s
        BY <1>9, <3>1, <3>2
      <3>3. CASE z # s
        BY <1>5, <1>7, <2>1, <3>1, <3>3 DEF CoreInv, CallsInv
      <3> QED
        BY <3>2, <3>3
    <2> QED
      BY <2>1
  <1> QED
    BY <1>10, <1>11, <1>12, <1>13 DEF AloneInv

\* The handshake succeeded: the policy that was picked before is sent.
LEMMA StartedKeepsPolicy ==
  ASSUME CoreInv, FirstInv, AloneInv, ContinueStarted
  PROVE  FirstInv' /\ AloneInv'
  <1>0. PICK k, m : k = Settled.call /\ m = Tail(micro)
    OBVIOUS
  <1>1. /\ micro # <<>> /\ call[k].pc = "starting"
        /\ Goto(k, "configuring") /\ micro' = m /\ Mixed(k)
        /\ Sent(<<Request("configure", k, NoCommand, call[k].session, call[k].want)>>)
        /\ UNCHANGED <<linkVars, outbox, desired, configured>>
    BY <1>0 DEF ContinueStarted, Going
  <1>2. k \in Calls /\ CallsOf(m) = Woken \ {k} /\ Range(m) = Range(micro) \ {Settled}
    BY <1>0, <1>1, HandledIs
  <1>3. "configuring" \in Steps
    BY DEF Steps
  <1>4. /\ \A l \in Calls \ {k} : call'[l] = call[l]
        /\ call'[k].pc = "configuring" /\ call'[k].want = call[k].want
        /\ call'[k].session = call[k].session
    BY <1>1, <1>2, <1>3, GotoIs
  <1>5. Steady
    BY <1>1, SentSteady
  <1>6. Range(micro') \subseteq Range(micro) /\ k \notin Woken' /\ Underway(k)
    BY <1>1, <1>2 DEF Woken, CallsOf, Underway
  <1> QED
    BY <1>1, <1>2, <1>4, <1>5, <1>6, SendsPolicy

\* A promise is handled, and no policy hangs on it.
LEMMA AsideKeepsPolicy ==
  ASSUME CoreInv, FirstInv, AloneInv, Steady, NEW k \in Calls, NEW pc \in Steps, Goto(k, pc),
         \/ pc \in {"answered", "cancelling", "done"} /\ ~SentBy(k)
         \/ pc = "proxy" /\ call[k].pc = "configuring",
         Range(micro') \subseteq Range(micro), UNCHANGED <<desired, configured, mixed>>
  PROVE  FirstInv' /\ AloneInv'
  <1>1. /\ \A l \in Calls \ {k} : call'[l] = call[l]
        /\ call'[k].pc = pc /\ call'[k].want = call[k].want /\ call'[k].session = call[k].session
    BY GotoIs
  <1>2. \A x \in Range(micro') : x \in Range(micro) /\ x.call \in Calls
    BY MicroIs DEF CoreInv
  <1>3. SentBy(k) => SentBy(k)'
    BY <1>1 DEF SentBy
  <1> QED
    BY <1>1, <1>2, <1>3, StepsAside

LEMMA ProxyKeepsPolicy ==
  ASSUME CoreInv, FirstInv, AloneInv, ContinueProxy
  PROVE  FirstInv' /\ AloneInv'
  <1>0. PICK k, m : k = Settled.call /\ m = Tail(micro)
    OBVIOUS
  <1>1. /\ micro # <<>> /\ call[k].pc = "configuring" /\ Goto(k, "proxy") /\ micro' = m
        /\ UNCHANGED <<linkVars, poolVars, desired, configured, mixed>>
    BY <1>0 DEF ContinueProxy, Going
  <1>2. k \in Calls /\ Range(m) = Range(micro) \ {Settled}
    BY <1>0, <1>1, HandledIs
  <1>3. Steady
    BY <1>1, NothingSteady
  <1>4. PICK pc \in Steps : pc = "proxy"
    BY DEF Steps
  <1>5. Goto(k, pc) /\ Range(micro') \subseteq Range(micro)
    BY <1>1, <1>2, <1>4
  <1> QED
    BY <1>1, <1>2, <1>3, <1>4, <1>5, AsideKeepsPolicy

LEMMA CancelledKeepsPolicy ==
  ASSUME CoreInv, FirstInv, AloneInv, ContinueCancelled
  PROVE  FirstInv' /\ AloneInv'
  <1>0. PICK k, m : k = Settled.call /\ m = Tail(micro)
    OBVIOUS
  <1>1. /\ micro # <<>> /\ call[k].pc = "cancelling" /\ Goto(k, "answered") /\ micro' = m
        /\ UNCHANGED <<linkVars, poolVars, desired, configured, mixed>>
    BY <1>0 DEF ContinueCancelled, Going
  <1>2. k \in Calls /\ Range(m) = Range(micro) \ {Settled}
    BY <1>0, <1>1, HandledIs
  <1>3. Steady /\ ~SentBy(k)
    BY <1>1, NothingSteady DEF SentBy
  <1>4. PICK pc \in Steps : pc = "answered"
    BY DEF Steps
  <1>5. Goto(k, pc) /\ Range(micro') \subseteq Range(micro)
    BY <1>1, <1>2, <1>4
  <1> QED
    BY <1>1, <1>2, <1>3, <1>4, <1>5, AsideKeepsPolicy

LEMMA JoinedKeepsPolicy ==
  ASSUME CoreInv, FirstInv, AloneInv, ContinueJoined
  PROVE  FirstInv' /\ AloneInv'
  <1>0. PICK k, m : k = Settled.call /\ m = Tail(micro)
    OBVIOUS
  <1>1. /\ micro # <<>> /\ call[k].pc = "joining" /\ Goto(k, After(k)) /\ micro' = m
        /\ UNCHANGED <<desired, configured, mixed>>
    BY <1>0 DEF ContinueJoined, Going
  <1>2. k \in Calls /\ Range(m) = Range(micro) \ {Settled}
    BY <1>0, <1>1, HandledIs
  <1>3. Steady /\ ~SentBy(k)
    BY <1>1, JoinedKeep DEF SentBy
  <1>4. PICK pc \in Steps : pc = After(k) /\ pc \in {"cancelling", "done"}
    BY AfterIs
  <1>5. Goto(k, pc) /\ Range(micro') \subseteq Range(micro)
    BY <1>1, <1>2, <1>4
  <1> QED
    BY <1>1, <1>2, <1>3, <1>4, <1>5, AsideKeepsPolicy

\* A promise was rejected: a policy that was sent went with its process.
LEMMA FailedKeepsPolicy ==
  ASSUME CoreInv, FirstInv, AloneInv, ContinueFailed
  PROVE  FirstInv' /\ AloneInv'
  <1>0. PICK k, m : k = Settled.call /\ m = Tail(micro)
    OBVIOUS
  <1>1. /\ micro # <<>> /\ call[k].pc \in {"starting", "configuring", "joining"}
        /\ Settled.answer = "lost"
        /\ FailCall(k) /\ micro' = m \o Continues(call[k].joined, "lost")
        /\ UNCHANGED <<linkVars, poolVars, mixed>>
    BY <1>0 DEF ContinueFailed, Going
  <1>2. /\ Settled \in Range(micro) /\ k \in Calls /\ Range(m) = Range(micro) \ {Settled}
        /\ m \in Seq(Promise) /\ IsInjective(m)
        /\ \A l \in Calls : k \notin Range(call[l].joined)
    BY <1>0, <1>1, HandledIs
  <1>3. Steady
    BY <1>1, NothingSteady
  <1>4. SentBy(k) => configured = {}
    <2>1. ASSUME SentBy(k) PROVE configured = {}
      BY <1>0, <1>1, <1>2, <2>1 DEF SentBy, CoreInv, SettledInv, GoneInv
    <2> QED
      BY <2>1
  <1>5. \A x \in Range(micro') : x \in Range(micro) \/ x.answer = "lost"
    <2>1. PICK a \in Answers \cup {"lost"} : a = "lost"
      OBVIOUS
    <2>2. PICK j : j = call[k].joined
      OBVIOUS
    <2>3. j \in Seq(Calls) /\ IsInjective(j) /\ \A l \in Range(j) : l \notin Woken
      BY <1>2, <2>2, JoinedAre
    <2>4. micro' = m \o Continues(j, a) /\ Range(m) \subseteq Range(micro)
      BY <1>1, <1>2, <2>1, <2>2
    <2>5. \A x \in Range(micro') : x \in Range(m) \/ (x.answer = a /\ x.call \in Range(j))
      BY <1>2, <2>3, <2>4, JoinedHear
    <2> QED
      BY <2>1, <2>4, <2>5
  <1> QED
    BY <1>1, <1>2, <1>3, <1>4, <1>5, FailsAside

\* The policy of the user is in the process, and is remembered.
LEMMA ChangedKeepsPolicy ==
  ASSUME CoreInv, FirstInv, AloneInv, ContinueChanged
  PROVE  FirstInv' /\ AloneInv'
  <1>0. PICK k, m : k = Settled.call /\ m = Tail(micro)
    OBVIOUS
  <1>1. /\ micro # <<>> /\ call[k].pc = "configuring" /\ Settled.answer = "ok"
        /\ Goto(k, "done") /\ micro' = m
        /\ desired' = [desired EXCEPT ![call[k].session] = call[k].want]
        /\ configured' = configured \cup {call[k].session}
        /\ UNCHANGED <<linkVars, poolVars, mixed>>
    BY <1>0 DEF ContinueChanged, Going
  <1>2. /\ Settled \in Range(micro) /\ k \in Calls /\ Range(m) = Range(micro) \ {Settled}
    BY <1>0, <1>1, HandledIs
  <1>3. Steady
    BY <1>1, NothingSteady
  <1>4. PICK pc \in Steps : pc = "done"
    BY DEF Steps
  <1>5. /\ \A l \in Calls \ {k} : call'[l] = call[l]
        /\ call'[k].pc \in {"cancelling", "done"}
    BY <1>1, <1>2, <1>4, GotoIs
  <1>6. Range(micro') = {}
    BY <1>0, <1>1, <1>2 DEF CoreInv, SettledInv
  <1>7. PICK s : s = call[k].session
    OBVIOUS
  <1>8. /\ \A z \in Sessions \ {s} : Wanted(z)' = Wanted(z)
        /\ Wanted(s)' = call[k].want
    BY <1>1, <1>2, <1>7, CallIs, PoolAssumption DEF CoreInv, CallsInv, Underway, Wanted
  <1> QED
    BY <1>0, <1>1, <1>2, <1>3, <1>5, <1>6, <1>7, <1>8, RememberedIs

\* The policy of a command's session is in the process.
LEMMA ConfiguredKeepsPolicy ==
  ASSUME CoreInv, FirstInv, AloneInv, ContinueConfigured
  PROVE  FirstInv' /\ AloneInv'
  <1>0. PICK k, m : k = Settled.call /\ m = Tail(micro)
    OBVIOUS
  <1>1. /\ micro # <<>> /\ call[k].pc = "configuring" /\ Settled.answer = "ok" /\ k[1] # "change"
        /\ call' = [call EXCEPT ![k].pc = After(k), ![k].joined = <<>>]
        /\ configured' = configured \cup {call[k].session}
        /\ micro' = m \o Continues(call[k].joined, "ok")
        /\ UNCHANGED <<desired, mixed>>
    BY <1>0 DEF ContinueConfigured, Going
  <1>2. /\ Settled \in Range(micro) /\ k \in Calls /\ Range(m) = Range(micro) \ {Settled}
        /\ m \in Seq(Promise) /\ IsInjective(m)
    BY <1>0, <1>1, HandledIs
  <1>3. Steady
    BY ConfiguredKeep
  <1>4. /\ \A l \in Calls \ {k} : call'[l] = call[l]
        /\ call'[k].pc \in {"cancelling", "done"}
    BY <1>1, <1>2, AfterIs DEF CoreInv, CallsInv, Call
  <1>5. \A x \in Range(micro') : call'[x.call].pc # "configuring"
    <2>1. PICK a \in Answers \cup {"lost"} : a = "ok"
      BY DEF Answers
    <2>2. PICK j : j = call[k].joined
      OBVIOUS
    <2>3. /\ j \in Seq(Calls) /\ IsInjective(j) /\ Range(j) \subseteq Calls
          /\ \A l \in Range(j) : l \notin Woken /\ call[l].pc = "joining" /\ l # k
      BY <1>2, <2>2, JoinedAre
    <2>4. micro' = m \o Continues(j, a) /\ Range(m) \subseteq Range(micro)
      BY <1>1, <1>2, <2>1, <2>2
    <2>5. \A x \in Range(micro') : x \in Range(m) \/ (x.answer = a /\ x.call \in Range(j))
      BY <1>2, <2>3, <2>4, JoinedHear
    <2>6. Range(m) = {}
      BY <1>0, <1>1, <1>2 DEF CoreInv, SettledInv
    <2>7. \A x \in Range(micro') : x.call \in Calls \ {k} /\ call[x.call].pc = "joining"
      BY <2>3, <2>5, <2>6
    <2> QED
      BY <1>4, <2>7
  <1>6. PICK s : s = call[k].session
    OBVIOUS
  <1>7. /\ \A z \in Sessions \ {s} : Wanted(z)' = Wanted(z)
        /\ ~mixed => Wanted(s)' = call[k].want
    BY <1>1, <1>2, <1>6 DEF AloneInv, Underway, Wanted
  <1> QED
    BY <1>0, <1>1, <1>2, <1>3, <1>4, <1>5, <1>6, <1>7, RememberedIs

LEMMA ContinuesKeepPolicy ==
  ASSUME CoreInv, FirstInv, AloneInv, Continue
  PROVE  FirstInv' /\ AloneInv'
  BY StartedKeepsPolicy, ProxyKeepsPolicy, ChangedKeepsPolicy, ConfiguredKeepsPolicy,
     JoinedKeepsPolicy, CancelledKeepsPolicy, FailedKeepsPolicy DEF Continue

(***************************************************************************)
(* The policies are kept.                                                  *)
(***************************************************************************)

\* Every step keeps the policies.
LEMMA PolicyKeeps ==
  ASSUME CoreInv, FirstInv, AloneInv, [Next]_vars
  PROVE  FirstInv' /\ AloneInv'
  <1>1. ASSUME Driven PROVE FirstInv' /\ AloneInv'
    BY <1>1, LooksKeepPolicy, ConfiguresKeepPolicy, ResultsKeepPolicy, AnswersKeepPolicy,
       TimersKeepPolicy, PongKeepsPolicy, ProcessKeepsPolicy, ContinuesKeepPolicy, ExitsKeepPolicy
       DEF LookedUpChange, ProxyStarted, ClientStep, Driven
  <1>2. ASSUME Use PROVE FirstInv' /\ AloneInv'
    BY <1>2, ProcessKeepsPolicy, IssuesKeepPolicy DEF Use
  <1>3. ASSUME Disturbance PROVE FirstInv' /\ AloneInv'
    BY <1>3, PlacesKeepPolicy, ProxiesKeepPolicy, IssuesKeepPolicy, CrashKeepsPolicy,
       TimeoutKeepsPolicy DEF Disturbance
  <1>4. ASSUME UNCHANGED vars PROVE FirstInv' /\ AloneInv'
    BY <1>4, NothingSteady, SteadyKeepsPolicy DEF vars, clientVars, routerVars
  <1> QED
    BY <1>1, <1>2, <1>3, <1>4 DEF Next

\* At the beginning no process has a policy, and nobody has sent one.
LEMMA PolicyStarts == Init => FirstInv /\ AloneInv
  <1> SUFFICES ASSUME Init PROVE FirstInv /\ AloneInv
    OBVIOUS
  <1>1. /\ generation = 0 /\ failed = 0 /\ configured = {}
        /\ call = [k \in Calls |-> NewCall(SessionOfCall(k))]
    BY DEF Init, ClientInit
  <1>2. ~Connected
    BY <1>1 DEF Connected
  <1>3. \A k \in Calls : call[k].pc = "new"
    BY <1>1 DEF NewCall
  <1> QED
    BY <1>1, <1>2, <1>3 DEF FirstInv, AloneInv, SentBy, Underway, Told

PolicyInvariant == CoreInvariant /\ FirstInv /\ AloneInv

LEMMA PolicyHolds == Spec => []PolicyInvariant
  <1>1. Init => PolicyInvariant
    BY CoreStarts, PolicyStarts, RouterAssumption DEF Init, CoreInvariant, PolicyInvariant
  <1>2. PolicyInvariant /\ [Next]_vars => PolicyInvariant'
    BY CoreKeeps, EventsAre, PolicyKeeps DEF CoreInvariant, PolicyInvariant
  <1> QED
    BY <1>1, <1>2, PTL DEF Spec

\* RestartKeepsPolicy (core-router.ts, core-client.ts): no command overtakes the configuration of
\* its session, and once no call is under way the process has the policy the router remembers,
\* after any crash, restart and timeout, unless two policies of a session met on their way or one
\* was sent by half.
THEOREM PolicySurvivesRestart == Spec => []RestartKeepsPolicy
  <1>1. ASSUME PolicyInvariant PROVE RestartKeepsPolicy
    <2>1. ConfiguredBeforeUse
      BY <1>1, RunsAreConfigured DEF PolicyInvariant, CoreInvariant
    <2>2. ASSUME ~mixed, Idle PROVE \A s \in configured : Alive => policy[s] = Wanted(s)
      BY <1>1, <2>2 DEF Idle, SentBy, PolicyInvariant, AloneInv
    <2> QED
      BY <2>1, <2>2 DEF RestartKeepsPolicy, CoreHasDesiredPolicy
  <1> QED
    BY <1>1, PolicyHolds, PTL

(***************************************************************************)
(* The contract: what frames and flags say is so.                          *)
(***************************************************************************)

\* What a frame and a flag say of a command is so: it was not begun where it is asked for or waits,
\* somebody cancelled it where it is stopped, and an answer tells what happened.
AskedInv == \A c \in Commands : call[<<"cancel", c>>].pc # "new" => c \in cancelled

StopsInv ==
    /\ raised \subseteq cancelled
    /\ main # NoCommand => main \in cancelled
    /\ \A c \in Commands : phase[c] = "stopped" => c \in cancelled
    /\ \A x \in Range(inbox) : x.id[1] = "cancel" => x.command \in cancelled

PhaseInv ==
    /\ \A x \in Range(inbox) : x.id[1] = "run" => phase[x.command] = "none"
    /\ \A c \in Range(queue) : phase[c] = "none"
    /\ \A w \in Workers :
          /\ worker[w].pc = "taken" => phase[worker[w].command] = "none"
          /\ worker[w].pc = "executing" => phase[worker[w].command] = "started"
          /\ worker[w].pc = "returned" => phase[worker[w].command] \in {"ended", "stopped", "broken"}

AnswersInv ==
    \A x \in Range(outbox), c \in Commands : x.id = <<"run", c>> => Contract!Truthful(c, x.answer)

TruthInv == AskedInv /\ StopsInv /\ PhaseInv /\ AnswersInv

\* The commands whose run() was called, and a step the contract allows.
Asked == {c \in Commands : call[<<"run", c>>].pc # "new"}
Allowed == [Contract!Next]_(Contract!vars)

\* No call begins.
NoneBegins == \A k \in Calls : call'[k].pc = "new" <=> call[k].pc = "new"

LEMMA AskedStays ==
  ASSUME NoneBegins
  PROVE  Asked' = Asked
  BY CallsAre DEF NoneBegins, Asked

\* What a client may do to a process: give up what it does, send it new commands and cancellations
\* somebody asked for, and read its answers.
ClientActs ==
    /\ UNCHANGED phase
    /\ raised' \subseteq raised /\ main' \in {main, NoCommand}
    /\ Range(queue') \subseteq Range(queue) /\ Range(outbox') \subseteq Range(outbox)
    /\ \A w \in Workers : worker'[w] \in {worker[w], IdleWorker}
    /\ \A x \in Range(inbox') :
          \/ x \in Range(inbox)
          \/ x.id[1] = "run" /\ x.command \in Commands /\ phase[x.command] = "none"
          \/ x.id[1] = "cancel" /\ x.command \in cancelled
          \/ x.id[1] \notin {"run", "cancel"}

LEMMA ClientIsTrue ==
  ASSUME TruthInv, ClientActs, NoneBegins, UNCHANGED cancelled
  PROVE  TruthInv'
  <1>1. AskedInv'
    BY CallsAre DEF TruthInv, AskedInv, NoneBegins
  <1>2. StopsInv'
    BY DEF TruthInv, StopsInv, ClientActs
  <1>3. PhaseInv'
    BY DEF TruthInv, PhaseInv, ClientActs, IdleWorker
  <1>4. AnswersInv'
    BY DEF TruthInv, AnswersInv, ClientActs, Contract!Truthful
  <1> QED
    BY <1>1, <1>2, <1>3, <1>4 DEF TruthInv

\* Some callers are told the same, and it is so.
Telling(told) ==
    \A c \in Commands : outcome'[c] # outcome[c] =>
        /\ c \in Asked /\ outcome[c] = "none" /\ outcome'[c] = told
        /\ Contract!Truthful(c, told)

Tellings == {"result", "failed", "cancelled", "refused", "lost"}

LEMMA TellingIsAllowed ==
  ASSUME NoneBegins, UNCHANGED <<phase, cancelled>>, NEW told \in Tellings, Telling(told)
  PROVE  Allowed
  <1>1. Asked' = Asked
    BY AskedStays
  <1>2. CASE outcome' = outcome
    BY <1>1, <1>2 DEF Allowed, Contract!vars, Asked
  <1>3. CASE outcome' # outcome
    BY <1>1, <1>3 DEF Contract!Settle, Telling, Asked, Allowed, Contract!Next, Tellings
  <1> QED
    BY <1>2, <1>3

\* The observer sees nothing.
LEMMA QuietIsAllowed ==
  ASSUME NoneBegins, UNCHANGED <<phase, cancelled, outcome>>
  PROVE  Allowed
  <1>1. Asked' = Asked
    BY AskedStays
  <1> QED
    BY <1>1 DEF Allowed, Contract!vars, Asked

LEMMA ClientIsAllowed ==
  ASSUME TruthInv, ClientActs, NoneBegins, UNCHANGED cancelled, NEW told \in Tellings, Telling(told)
  PROVE  TruthInv' /\ Allowed
  <1>1. UNCHANGED phase
    BY DEF ClientActs
  <1> QED
    BY <1>1, ClientIsTrue, TellingIsAllowed

(***************************************************************************)
(* The contract: what the process does.                                    *)
(***************************************************************************)

\* What the process does, as far as no command begins or ends: it reads, writes what is so, and
\* raises the flags of commands that somebody cancelled.
LEMMA ProcessIsTrue ==
  ASSUME TruthInv, UNCHANGED <<phase, call, cancelled>>,
         Range(inbox') \subseteq Range(inbox),
         raised' \subseteq cancelled, main' # NoCommand => main' \in cancelled,
         \A c \in Range(queue') : phase[c] = "none",
         \A x \in Range(outbox') : \/ x \in Range(outbox) \/ x.id[1] # "run"
                                   \/ \A c \in Commands : x.id = <<"run", c>> =>
                                         Contract!Truthful(c, x.answer),
         \A w \in Workers :
            \/ worker'[w] = worker[w]
            \/ worker'[w].pc \notin {"taken", "executing", "returned"}
            \/ worker'[w].pc = "taken" /\ phase[worker'[w].command] = "none"
  PROVE  TruthInv'
  <1>1. AskedInv'
    BY DEF TruthInv, AskedInv
  <1>2. StopsInv'
    BY DEF TruthInv, StopsInv
  <1>3. PhaseInv'
    BY DEF TruthInv, PhaseInv
  <1>4. AnswersInv'
    BY DEF TruthInv, AnswersInv, Contract!Truthful
  <1> QED
    BY <1>1, <1>2, <1>3, <1>4 DEF TruthInv

\* A thread's command begins or ends; what frames and the queue say is about others.
LEMMA PhaseIsTrue ==
  ASSUME CoreInv, TruthInv, NEW w \in Workers, worker[w].pc \in {"taken", "executing"},
         NEW c, c = worker[w].command, NEW how \in Phases \ {"none"},
         how = "stopped" => c \in cancelled,
         phase' = [phase EXCEPT ![c] = how],
         worker'[w].command = c,
         worker'[w].pc \in IF how = "started" THEN {"executing"} ELSE {"returned"},
         \A v \in Workers \ {w} : worker'[v] = worker[v],
         UNCHANGED <<call, cancelled, inbox, outbox, queue, raised, main>>
  PROVE  TruthInv'
  <1>1. /\ c \in Commands /\ c \in active /\ replies[c] = 0
        /\ \A v \in Workers : v # w => worker[v].command # c
    BY WorkerIs DEF CoreInv, OwnInv, WorkersOwn, Busy, Unanswered, PoolTypeOK
  <1>2. /\ phase'[c] = how /\ \A d \in Commands : d # c => phase'[d] = phase[d]
    BY <1>1 DEF CoreInv, OwnInv, PoolTypeOK
  <1>3. \A x \in Range(inbox) : x.id[1] = "run" => x.command # c /\ x.command \in Commands
    BY <1>1, InboxIs DEF CoreInv
  <1>4. \A d \in Range(queue) : d # c /\ d \in Commands
    BY <1>1, RangeOfSeq DEF CoreInv, OwnInv, PoolTypeOK, QueueIsOwned, Range
  <1>5. \A x \in Range(outbox) : x.id # <<"run", c>>
    BY <1>1 DEF CoreInv, ContentsInv
  <1>6. AskedInv'
    BY DEF TruthInv, AskedInv
  <1>7. StopsInv'
    BY <1>1, <1>2 DEF TruthInv, StopsInv
  <1>8. PhaseInv'
    <2>1. ASSUME NEW v \in Workers
          PROVE  /\ worker'[v].pc = "taken" => phase'[worker'[v].command] = "none"
                 /\ worker'[v].pc = "executing" => phase'[worker'[v].command] = "started"
                 /\ worker'[v].pc = "returned" => phase'[worker'[v].command] \in {"ended", "stopped", "broken"}
      <3>1. CASE v = w
        BY <1>2, <3>1 DEF Phases
      <3>2. CASE v # w
        BY <1>1, <1>2, <3>2, WorkerIs DEF CoreInv, TruthInv, PhaseInv
      <3> QED
        BY <3>1, <3>2
    <2> QED
      BY <1>2, <1>3, <1>4, <2>1 DEF TruthInv, PhaseInv
  <1>9. AnswersInv'
    <2>1. ASSUME NEW x \in Range(outbox), NEW d \in Commands, x.id = <<"run", d>>
          PROVE  Contract!Truthful(d, x.answer)'
      BY <1>2, <1>5, <2>1 DEF TruthInv, AnswersInv, Contract!Truthful
    <2> QED
      BY <2>1 DEF AnswersInv
  <1> QED
    BY <1>6, <1>7, <1>8, <1>9 DEF TruthInv

\* The call that a command is with a process for.
LEMMA HeldIsAsked ==
  ASSUME CoreInv, NEW c \in active, replies[c] = 0
  PROVE  c \in Asked /\ c \in Commands /\ outcome[c] = "none"
  <1>1. c \in Commands
    BY DEF CoreInv, OwnInv, PoolTypeOK
  <1>2. c \in execRunning
    BY <1>1 DEF CoreInv, KnownInv
  <1> QED
    BY <1>1, <1>2 DEF CoreInv, QueuedInv, Asked

\* The main loop.
LEMMA MainIsTrue ==
  ASSUME CoreInv, TruthInv, UNCHANGED <<call, cancelled>>, MainLoop
  PROVE  TruthInv' /\ UNCHANGED phase
  <1>1. UNCHANGED phase
    BY DEF MainLoop, HandlePing, HandleConfigure, HandleRun, HandleCancel, AnswerCancelled
  <1>2. /\ raised \subseteq cancelled /\ (main # NoCommand => main \in cancelled)
        /\ \A c \in Range(queue) : phase[c] = "none"
    BY DEF TruthInv, StopsInv, PhaseInv
  <1>3. ASSUME NEW op, Reading(op)
        PROVE  /\ Head(inbox) \in Range(inbox) /\ Head(inbox).id[1] = op
               /\ Range(inbox') \subseteq Range(inbox) /\ Head(inbox).id \in RequestIds
               /\ Head(inbox) \in Requests
    BY <1>3, ReadIs, InboxIs DEF CoreInv
  <1>4. ASSUME NEW op \in {"ping", "configure", "cancel"}, NEW a \in Answers, Reading(op),
               Write(<<Response(Head(inbox).id, a)>>)
        PROVE  /\ Range(inbox') \subseteq Range(inbox)
               /\ \A x \in Range(outbox') : x \in Range(outbox) \/ x.id[1] # "run"
    BY <1>3, <1>4, WrittenLast DEF Response, Responses, CoreInv
  <1>5. ASSUME NEW c \in Commands, NEW a \in Answers, Write(<<RunReply(c, a)>>),
               Contract!Truthful(c, a)
        PROVE  \A x \in Range(outbox') : \/ x \in Range(outbox)
                                         \/ \A d \in Commands : x.id = <<"run", d>> =>
                                               Contract!Truthful(d, x.answer)
    BY <1>5, CallsAre, WrittenLast DEF RunReply, Response, Responses, CoreInv
  <1>6. "ok" \in Answers /\ "unknown" \in Answers /\ "refused" \in Answers /\ "cancelled" \in Answers
    BY DEF Answers
  <1>7. CASE HandlePing \/ HandleConfigure
    BY <1>1, <1>2, <1>4, <1>6, <1>7, ProcessIsTrue DEF HandlePing, HandleConfigure, ReplyOk
  <1>8. CASE HandleRun
    <2>1. PICK c : c = Head(inbox).command
      OBVIOUS
    <2>2. Reading("run") /\ UNCHANGED <<raised, main>>
      BY <1>8 DEF HandleRun
    <2>3. c \in Commands /\ phase[c] = "none" /\ Range(inbox') \subseteq Range(inbox)
      BY <1>3, <2>1, <2>2, InboxIs DEF CoreInv, TruthInv, PhaseInv
    <2>4. CASE Write(<<RunReply(c, "refused")>>) /\ UNCHANGED <<queue, worker>>
      BY <1>1, <1>2, <1>5, <1>6, <2>2, <2>3, <2>4, ProcessIsTrue DEF Contract!Truthful
    <2>5. CASE Enqueue(c) /\ UNCHANGED outbox
      BY <1>1, <1>2, <2>2, <2>3, <2>5, AppendIs, ProcessIsTrue DEF Enqueue, CoreInv, OwnInv,
         PoolTypeOK, Signal, Waiting
    <2> QED
      BY <1>8, <2>1, <2>4, <2>5 DEF HandleRun
  <1>9. CASE HandleCancel
    <2>1. PICK c : c = Head(inbox).command
      OBVIOUS
    <2>2. Reading("cancel") /\ UNCHANGED worker
      BY <1>9 DEF HandleCancel
    <2>3. c \in cancelled /\ c \in Commands
      BY <1>3, <2>1, <2>2, InboxIs DEF CoreInv, TruthInv, StopsInv
    <2>4. PICK a \in Answers : Write(<<Response(Head(inbox).id, a)>>)
      BY <1>6, <1>9 DEF HandleCancel, ReplyOk
    <2>5. raised' \subseteq cancelled /\ (main' # NoCommand => main' \in cancelled)
      BY <1>2, <1>9, <2>1, <2>3 DEF HandleCancel
    <2>6. Range(queue') \subseteq Range(queue)
      BY <1>9, <2>1, <2>3, Struck DEF Range, CoreInv, HandleCancel
    <2> QED
      BY <1>1, <1>2, <1>4, <2>2, <2>4, <2>5, <2>6, ProcessIsTrue
  <1>10. CASE AnswerCancelled
    BY <1>1, <1>2, <1>5, <1>6, <1>10, ProcessIsTrue DEF AnswerCancelled, CoreInv, OwnInv,
       PoolTypeOK, Contract!Truthful
  <1> QED
    BY <1>1, <1>7, <1>8, <1>9, <1>10 DEF MainLoop

\* A thread whose command does not begin or end now.
LEMMA ThreadIsTrue ==
  ASSUME CoreInv, TruthInv, UNCHANGED <<call, cancelled>>, NEW w \in Workers,
         Wait(w) \/ Take(w) \/ Reply(w) \/ Release(w) \/ Free(w)
         \/ (Begin(w) /\ UNCHANGED phase)
  PROVE  TruthInv' /\ UNCHANGED phase
  <1>1. UNCHANGED <<phase, inbox, raised, main>>
    BY DEF Wait, Take, Reply, Release, Free, Begin
  <1>2. /\ raised \subseteq cancelled /\ (main # NoCommand => main \in cancelled)
        /\ \A c \in Range(queue) : phase[c] = "none"
    BY DEF TruthInv, StopsInv, PhaseInv
  <1>3. worker \in [Workers -> [pc : WorkerSteps, command : Commands \cup {NoCommand}]]
    BY DEF CoreInv, OwnInv, PoolTypeOK
  <1>4. ASSUME NEW pc \in {"waiting", "replied", "freeing"}, Goes(w, pc)
        PROVE  \A v \in Workers : worker'[v] = worker[v] \/ worker'[v].pc \notin Unanswered
    BY <1>3, <1>4 DEF Goes, Unanswered
  <1>5. ASSUME NEW c \in Commands, NEW a \in Answers, Write(<<RunReply(c, a)>>),
               Contract!Truthful(c, a)
        PROVE  \A x \in Range(outbox') : \/ x \in Range(outbox)
                                         \/ \A d \in Commands : x.id = <<"run", d>> =>
                                               Contract!Truthful(d, x.answer)
    BY <1>5, CallsAre, WrittenLast DEF RunReply, Response, Responses, CoreInv
  <1>6. "result" \in Answers /\ "failed" \in Answers /\ "cancelled" \in Answers
    BY DEF Answers
  <1>7. CASE Wait(w) \/ Release(w)
    BY <1>1, <1>2, <1>4, <1>7, ProcessIsTrue DEF Wait, Release, Unanswered
  <1>8. CASE Free(w)
    BY <1>1, <1>2, <1>3, <1>8, ProcessIsTrue DEF Free, IdleWorker, Unanswered
  <1>9. CASE Take(w)
    BY <1>1, <1>2, <1>3, <1>9, TailIs, ProcessIsTrue DEF Take, CoreInv, OwnInv, PoolTypeOK
  <1>10. CASE Begin(w)
    <2>1. PICK c : c = worker[w].command
      OBVIOUS
    <2>2. /\ At(w, "taken") /\ UNCHANGED queue
      BY <1>10 DEF Begin
    <2>3. c \in Commands
      BY <2>1, <2>2, WorkerIs DEF At, CoreInv
    <2>4. CASE c \in raised /\ Goes(w, "replied") /\ Write(<<RunReply(c, "cancelled")>>)
      BY <1>1, <1>2, <1>4, <1>5, <1>6, <2>2, <2>3, <2>4, ProcessIsTrue DEF Contract!Truthful,
         Unanswered
    <2>5. CASE phase' = [phase EXCEPT ![c] = "started"]
      BY <1>1, <2>1, <2>2, <2>3, <2>5 DEF At, TruthInv, PhaseInv, CoreInv, OwnInv, PoolTypeOK
    <2> QED
      BY <1>10, <2>1, <2>4, <2>5 DEF Begin
  <1>11. CASE Reply(w)
    BY <1>1, <1>2, <1>4, <1>5, <1>6, <1>11, WorkerIs, ProcessIsTrue DEF Reply, At, CoreInv,
       TruthInv, PhaseInv, StopsInv, Contract!Truthful, Unanswered
  <1> QED
    BY <1>7, <1>8, <1>9, <1>10, <1>11

\* A command begins: its run() was called, and nobody was told of it.
LEMMA BeginIsAllowed ==
  ASSUME CoreInv, TruthInv, UNCHANGED <<call, cancelled, outcome>>, NEW w \in Workers, Begin(w),
         phase' # phase
  PROVE  TruthInv' /\ Allowed
  <1>1. PICK c : c = worker[w].command
    OBVIOUS
  <1>2. /\ worker[w].pc = "taken" /\ Goes(w, "executing") /\ phase' = [phase EXCEPT ![c] = "started"]
        /\ UNCHANGED <<inbox, outbox, queue, raised, main>>
    BY <1>1 DEF Begin, At
  <1>3. /\ worker'[w].command = c /\ worker'[w].pc = "executing"
        /\ \A v \in Workers \ {w} : worker'[v] = worker[v]
    BY <1>1, <1>2 DEF Goes, CoreInv, OwnInv, PoolTypeOK
  <1>4. TruthInv'
    BY <1>1, <1>2, <1>3, PhaseIsTrue DEF Phases
  <1>5. c \in active /\ replies[c] = 0
    BY <1>1, <1>2, WorkerIs, PoolAssumption DEF CoreInv, OwnInv, WorkersOwn, Busy, Unanswered
  <1>6. c \in Asked /\ c \in Commands /\ outcome[c] = "none" /\ phase[c] = "none"
    BY <1>1, <1>2, <1>5, HeldIsAsked DEF TruthInv, PhaseInv
  <1>7. Asked' = Asked
    BY DEF Asked
  <1>8. Contract!Start(c)
    BY <1>2, <1>6, <1>7 DEF Contract!Start, Asked
  <1> QED
    BY <1>4, <1>6, <1>8 DEF Allowed, Contract!Next

\* A command ends, and one that is stopped was cancelled.
LEMMA EndIsAllowed ==
  ASSUME CoreInv, TruthInv, UNCHANGED <<call, cancelled, outcome>>, NEW w \in Workers,
         NEW how \in {"ended", "stopped", "broken"}, Returns(w, how)
  PROVE  TruthInv' /\ Allowed
  <1>1. PICK c : c = worker[w].command
    OBVIOUS
  <1>2. /\ worker[w].pc = "executing" /\ Goes(w, "returned") /\ phase' = [phase EXCEPT ![c] = how]
        /\ how = "stopped" => c \in raised
        /\ UNCHANGED <<inbox, outbox, queue, raised, main>>
    BY <1>1 DEF Returns, At
  <1>3. /\ worker'[w].command = c /\ worker'[w].pc = "returned"
        /\ \A v \in Workers \ {w} : worker'[v] = worker[v]
    BY <1>1, <1>2 DEF Goes, CoreInv, OwnInv, PoolTypeOK
  <1>4. how = "stopped" => c \in cancelled
    BY <1>2 DEF TruthInv, StopsInv
  <1>5. TruthInv'
    BY <1>1, <1>2, <1>3, <1>4, PhaseIsTrue DEF Phases
  <1>6. c \in Commands /\ phase[c] = "started"
    BY <1>1, <1>2, WorkerIs DEF TruthInv, PhaseInv, CoreInv
  <1>7. Asked' = Asked
    BY DEF Asked
  <1>8. Contract!End(c, how)
    BY <1>2, <1>4, <1>6, <1>7 DEF Contract!End, Asked
  <1> QED
    BY <1>5, <1>6, <1>8 DEF Allowed, Contract!Next

\* What the process does.
LEMMA ProcessIsAllowed ==
  ASSUME CoreInv, TruthInv,
         \/ ProcessStep
         \/ \E w \in Workers, how \in {"ended", "stopped", "broken"} : CommandReturns(w, how)
  PROVE  TruthInv' /\ Allowed
  <1>1. UNCHANGED <<call, cancelled, outcome>>
    BY DEF ProcessStep, HandleRequest, ThreadStep, CommandReturns, clientVars, routerVars
  <1>2. NoneBegins
    BY <1>1 DEF NoneBegins
  <1>3. CASE MainLoop
    BY <1>1, <1>2, <1>3, MainIsTrue, QuietIsAllowed
  <1>4. ASSUME NEW w \in Workers, WorkerStep(w)
        PROVE  TruthInv' /\ Allowed
    <2>1. CASE phase' = phase
      BY <1>1, <1>2, <1>4, <2>1, ThreadIsTrue, QuietIsAllowed DEF WorkerStep
    <2>2. CASE phase' # phase
      <3>1. Begin(w)
        BY <1>4, <2>2 DEF WorkerStep, Wait, Take, Reply, Release, Free
      <3> QED
        BY <1>1, <2>2, <3>1, BeginIsAllowed
    <2> QED
      BY <2>1, <2>2
  <1>5. ASSUME NEW w \in Workers, NEW how \in {"ended", "stopped", "broken"}, Returns(w, how)
        PROVE  TruthInv' /\ Allowed
    BY <1>1, <1>5, EndIsAllowed
  <1> QED
    BY <1>3, <1>4, <1>5 DEF ProcessStep, HandleRequest, ThreadStep, CommandReturns

(***************************************************************************)
(* The contract: what the client does to the process.                      *)
(***************************************************************************)

\* Nothing happens to the process.
LEMMA NothingActs ==
  ASSUME UNCHANGED poolVars
  PROVE  ClientActs
  BY DEF poolVars, ClientActs

\* call() writes one request.
LEMMA SentActs ==
  ASSUME CoreInv, NEW r, Sent(<<r>>), UNCHANGED outbox,
         r.id[1] = "configure" \/ (r.id[1] = "cancel" /\ r.command \in cancelled)
  PROVE  ClientActs
  <1>1. /\ UNCHANGED <<queue, raised, worker, main, phase>>
        /\ inbox' = inbox \/ inbox' = inbox \o <<r>>
    BY DEF Sent
  <1>2. PICK S : S = Requests \cup {r}
    OBVIOUS
  <1>3. inbox \in Seq(S) /\ r \in S
    BY <1>2, FramesAre DEF CoreInv
  <1>4. inbox' = inbox \/ inbox' = Append(inbox, r)
    BY <1>1, <1>3
  <1>5. Range(Append(inbox, r)) = Range(inbox) \cup {r}
    BY <1>3, AppendIs
  <1>6. Range(inbox') \subseteq Range(inbox) \cup {r}
    BY <1>4, <1>5
  <1> QED
    BY <1>1, <1>6 DEF ClientActs

\* start() begins with an empty process, and pings it.
LEMMA LaunchActs ==
  ASSUME Launch
  PROVE  ClientActs
  <1>1. /\ inbox' = <<PingRequest>> /\ UNCHANGED <<outbox, queue, raised, worker, main, phase>>
    BY DEF Launch
  <1>2. PingRequest.id[1] = "ping"
    BY DEF PingRequest, Request
  <1>3. Range(inbox') = {PingRequest}
    BY <1>1, OneIs
  <1> QED
    BY <1>1, <1>2, <1>3 DEF ClientActs

\* drainExecQueue(): the commands that it hands over were not sent before.
LEMMA HandedActs ==
  ASSUME CoreInv, NEW q, Waits(q), NEW running \in SUBSET execRunning, NEW limit \in Nat,
         NEW d, d = Drained(q, running, limit),
         inbox' = IF Alive THEN inbox \o d.sent ELSE inbox,
         Range(outbox') \subseteq Range(outbox),
         UNCHANGED <<queue, raised, worker, main, phase>>
  PROVE  ClientActs
  <1>1. /\ q \in Seq(Commands) /\ IsInjective(q) /\ Range(q) \cap execRunning = {}
        /\ \A c \in Range(q) : c \in Commands /\ outcome[c] = "none"
    BY RangeOfSeq DEF Waits
  <1>2. running \in SUBSET Commands /\ IsFiniteSet(running) /\ Range(q) \cap running = {}
    BY <1>1, FS_Subset DEF CoreInv, QueuedInv
  <1>3. Handing(d, q, running)
    BY <1>1, <1>2, DrainedIs
  <1>4. /\ d.sent \in Seq(Requests)
        /\ Range(d.sent) = {RunRequest(c) : c \in d.running \ running}
        /\ d.running \subseteq Range(q) \cup running
    BY <1>3 DEF Handing
  <1>5. ASSUME NEW x \in Range(d.sent)
        PROVE  x.id[1] = "run" /\ x.command \in Commands /\ phase[x.command] = "none"
    BY <1>1, <1>4, RunRequestIs DEF CoreInv, KnownInv
  <1>6. inbox \in Seq(Requests)
    BY FramesAre DEF CoreInv
  <1>7. Range(inbox') \subseteq Range(inbox) \cup Range(d.sent)
    BY <1>4, <1>6, ConcatIs
  <1> QED
    BY <1>5, <1>7 DEF ClientActs

\* Who has a place in the queue of the client or with the process was asked for, and is not told yet.
LEMMA WaitingIsAsked ==
  ASSUME CoreInv, NEW c \in Range(execQueue) \cup execRunning
  PROVE  c \in Commands /\ c \in Asked /\ outcome[c] = "none"
  BY RangeOfSeq DEF CoreInv, QueuedInv, Asked

\* Nobody is told anything.
LEMMA QuietTells ==
  ASSUME UNCHANGED outcome
  PROVE  \A told : Telling(told)
  BY DEF Telling

\* One caller is told.
LEMMA OneIsTold ==
  ASSUME CoreInv, NEW c \in Commands, c \in Asked, outcome[c] = "none", NEW told,
         outcome' = [outcome EXCEPT ![c] = told], Contract!Truthful(c, told)
  PROVE  Telling(told)
  <1>1. outcome'[c] = told /\ \A d \in Commands : d # c => outcome'[d] = outcome[d]
    BY DEF CoreInv, QueuedInv
  <1> QED
    BY <1>1 DEF Telling

\* run(): one that is refused was not started, one that is handed over was not sent before.
LEMMA RunTells ==
  ASSUME CoreInv, NEW c \in Commands, Run(c), Connected,
         call[<<"run", c>>].pc \notin {"new", "done"}
  PROVE  ClientActs /\ \E told \in Tellings : Telling(told)
  <1>1. c \in Asked /\ outcome[c] = "none" /\ c \notin Range(execQueue) \cup execRunning
        /\ c \notin execRunning /\ c \notin Range(execQueue)
    BY DEF CoreInv, QueuedInv, Asked
  <1>2. phase[c] = "none"
    BY <1>1 DEF CoreInv, KnownInv
  <1>3. "refused" \in Tellings /\ "lost" \in Tellings
    BY DEF Tellings
  <1>4. CASE /\ outcome' = [outcome EXCEPT ![c] = "refused"] /\ UNCHANGED poolVars
    BY <1>1, <1>2, <1>3, <1>4, OneIsTold, NothingActs DEF Contract!Truthful
  <1>5. CASE /\ Len(execQueue) < MaxExecQueue
             /\ Drain(Drained(Append(execQueue, c), execRunning, concurrency))
             /\ UNCHANGED <<outcome, outbox>>
    <2>1. PICK q, d : q = Append(execQueue, c) /\ d = Drained(q, execRunning, concurrency)
      OBVIOUS
    <2>2. /\ execQueue \in Seq(Commands) /\ IsInjective(execQueue) /\ concurrency \in Nat
          /\ Range(execQueue) \cap execRunning = {} /\ Len(execQueue) <= MaxExecQueue
          /\ \A e \in Range(execQueue) : outcome[e] = "none"
      <3>1. concurrency \in 1..MaxConcurrency /\ MaxConcurrency \in Nat
        BY ClientAssumption DEF CoreInv, QueuedInv
      <3>2. concurrency \in Nat
        BY <3>1
      <3> QED
        BY <3>2 DEF CoreInv, QueuedInv
    <2>3. Waits(q)
      BY <1>1, <1>5, <2>1, <2>2, AppendIs, LenProperties, ClientAssumption DEF Waits
    <2>4. /\ inbox' = IF Alive THEN inbox \o d.sent ELSE inbox
          /\ UNCHANGED <<queue, raised, worker, main, phase>>
      BY <1>5, <2>1 DEF Drain, Sent
    <2>5. ClientActs
      BY <1>5, <2>1, <2>2, <2>3, <2>4, HandedActs
    <2> QED
      BY <1>3, <1>5, <2>5, QuietTells
  <1> QED
    BY <1>4, <1>5 DEF Run

\* cancelExec(): its command was cancelled by somebody.
LEMMA CancelTells ==
  ASSUME CoreInv, NEW c \in Commands, c \in cancelled, NEW k, CancelExec(k, c)
  PROVE  ClientActs /\ \E told \in Tellings : Telling(told)
  <1>1. "cancelled" \in Tellings /\ "lost" \in Tellings
    BY DEF Tellings
  <1>2. CASE /\ c \in Range(execQueue) /\ outcome' = [outcome EXCEPT ![c] = "cancelled"]
             /\ UNCHANGED poolVars
    BY <1>1, <1>2, WaitingIsAsked, OneIsTold, NothingActs DEF Contract!Truthful
  <1>3. CASE UNCHANGED <<outcome, poolVars>>
    BY <1>1, <1>3, QuietTells, NothingActs
  <1>4. CASE /\ Sent(<<Request("cancel", k, c, SessionOf[c], NoPolicy)>>)
             /\ UNCHANGED <<outcome, outbox>>
    BY <1>1, <1>4, RequestIs, SentActs, QuietTells
  <1> QED
    BY <1>2, <1>3, <1>4 DEF CancelExec

LEMMA ProceedTells ==
  ASSUME CoreInv, TruthInv, NEW k \in Calls, k[1] # "change", Proceed(k), Connected,
         call[k].pc \notin {"new", "done"}
  PROVE  ClientActs /\ \E told \in Tellings : Telling(told)
  <1>1. PICK c : c = k[2]
    OBVIOUS
  <1>2. c \in Commands /\ k = <<k[1], c>> /\ k[1] \in {"run", "cancel"}
    BY <1>1, CallsAre
  <1>3. CASE k[1] = "run" /\ Run(c)
    BY <1>2, <1>3, RunTells
  <1>4. CASE k[1] = "cancel" /\ CancelExec(k, c)
    BY <1>2, <1>4, CancelTells DEF TruthInv, AskedInv
  <1> QED
    BY <1>1, <1>3, <1>4 DEF Proceed

(***************************************************************************)
(* The contract: what the router does.                                     *)
(***************************************************************************)

\* A call that fails is told so, if it was a command.
LEMMA FailTells ==
  ASSUME CoreInv, NEW k \in Calls, FailCall(k), call[k].pc \notin {"new", "done"}
  PROVE  NoneBegins /\ Telling("lost") /\ "lost" \in Tellings /\ UNCHANGED cancelled
  <1>1. call \in [Calls -> Call] /\ "lost" \in Tellings
    BY DEF CoreInv, CallsInv, Tellings
  <1>2. call' = [call EXCEPT ![k].pc = "done", ![k].joined = <<>>] /\ UNCHANGED cancelled
    BY DEF FailCall
  <1>3. NoneBegins
    BY <1>1, <1>2 DEF NoneBegins, Call
  <1>4. CASE k[1] # "run"
    BY <1>1, <1>2, <1>3, <1>4 DEF FailCall, Telling
  <1>5. CASE k[1] = "run"
    <2>1. PICK c : c = k[2]
      OBVIOUS
    <2>2. c \in Commands /\ k = <<"run", c>>
      BY <1>5, <2>1, CallsAre
    <2>3. outcome' = [outcome EXCEPT ![c] = "lost"]
      BY <1>5, <2>1 DEF FailCall
    <2>4. c \in Asked /\ outcome[c] = "none"
      BY <2>2 DEF Asked, CoreInv, QueuedInv
    <2>5. Contract!Truthful(c, "lost")
      BY DEF Contract!Truthful
    <2> QED
      BY <1>1, <1>2, <1>3, <2>2, <2>3, <2>4, <2>5, OneIsTold
  <1> QED
    BY <1>4, <1>5

LEMMA FailIsAllowed ==
  ASSUME CoreInv, TruthInv, NEW k \in Calls, FailCall(k), call[k].pc \notin {"new", "done"},
         ClientActs
  PROVE  TruthInv' /\ Allowed
  BY FailTells, ClientIsAllowed

\* A call goes to another step, and nobody is told anything.
LEMMA GotoBegins ==
  ASSUME CoreInv, NEW k \in Calls, NEW pc, pc # "new", call[k].pc # "new", Goto(k, pc)
  PROVE  NoneBegins
  BY DEF Goto, NoneBegins, CoreInv, CallsInv, Call

LEMMA QuietClient ==
  ASSUME TruthInv, ClientActs, NoneBegins, UNCHANGED <<cancelled, outcome>>
  PROVE  TruthInv' /\ Allowed
  <1>1. "lost" \in Tellings /\ Telling("lost")
    BY DEF Tellings, Telling
  <1> QED
    BY <1>1, ClientIsAllowed

LEMMA ProceedIsAllowed ==
  ASSUME CoreInv, TruthInv, NEW k \in Calls, k[1] # "change", Proceed(k), Connected,
         call[k].pc \notin {"new", "done"}, NoneBegins, UNCHANGED cancelled
  PROVE  TruthInv' /\ Allowed
  <1>1. ClientActs
    BY ProceedTells
  <1>2. PICK told \in Tellings : Telling(told)
    BY ProceedTells
  <1> QED
    BY <1>1, <1>2, ClientIsAllowed

\* The policy is sent.
LEMMA ConfigureActs ==
  ASSUME CoreInv, NEW k, NEW s, NEW p, Sent(<<Request("configure", k, NoCommand, s, p)>>),
         UNCHANGED outbox
  PROVE  ClientActs
  <1>1. PICK r : r = Request("configure", k, NoCommand, s, p)
    OBVIOUS
  <1>2. r.id[1] = "configure"
    BY <1>1, RequestIs
  <1> QED
    BY <1>1, <1>2, SentActs

LEMMA EnsureIsAllowed ==
  ASSUME CoreInv, TruthInv, NEW k \in Calls, call[k].pc = "meta",
         EnsureConfigured(k), StartOrConfigure(k)
  PROVE  TruthInv' /\ Allowed
  <1>1. UNCHANGED <<cancelled, outcome>> /\ call \in [Calls -> Call]
    BY DEF EnsureConfigured, CoreInv, CallsInv
  <1>2. NoneBegins
    <2>1. PICK f : f = configuring[call[k].session]
      OBVIOUS
    <2>2. CASE call' = [call EXCEPT ![k].pc = "joining", ![f].joined = Append(@, k)]
      BY <1>1, <2>2 DEF NoneBegins, Call
    <2>3. CASE call' = [call EXCEPT ![k].want = Wanted(call[k].session),
                                    ![k].pc = IF Connected /\ ready THEN "configuring" ELSE "starting"]
      BY <1>1, <2>3 DEF NoneBegins, Call
    <2> QED
      BY <2>1, <2>2, <2>3 DEF EnsureConfigured
  <1>3. ClientActs
    <2>1. CASE Sent(<<ConfigureRequest(k)>>) /\ UNCHANGED outbox
      BY <2>1, ConfigureActs DEF ConfigureRequest
    <2>2. CASE UNCHANGED poolVars
      BY <2>2, NothingActs
    <2> QED
      BY <2>1, <2>2, LaunchActs DEF StartOrConfigure
  <1> QED
    BY <1>1, <1>2, <1>3, QuietClient

LEMMA LooksIsAllowed ==
  ASSUME CoreInv, TruthInv, NEW k \in Calls, LookedUp(k)
  PROVE  TruthInv' /\ Allowed
  <1>1. k[1] # "change" /\ call[k].pc = "meta"
    BY DEF LookedUp
  <1>2. CASE call[k].session \in configured /\ Proceed(k) /\ Goto(k, After(k)) /\ UNCHANGED cancelled
    BY <1>1, <1>2, AfterIs, GotoBegins, ProceedIsAllowed DEF CoreInv, GoneInv
  <1>3. CASE EnsureConfigured(k) /\ StartOrConfigure(k)
    BY <1>1, <1>3, EnsureIsAllowed
  <1>4. CASE FailCall(k) /\ UNCHANGED poolVars
    BY <1>1, <1>4, NothingActs, FailIsAllowed
  <1> QED
    BY <1>2, <1>3, <1>4 DEF LookedUp

LEMMA ConfiguresIsAllowed ==
  ASSUME CoreInv, TruthInv, NEW k \in Calls, Configure(k), call[k].pc \in {"meta", "proxy"}
  PROVE  TruthInv' /\ Allowed
  <1>1. call \in [Calls -> Call]
    BY DEF CoreInv, CallsInv
  <1>2. CASE /\ call' = [call EXCEPT ![k].pc = "configuring", ![k].second = (call[k].pc = "proxy")]
             /\ Sent(<<ConfigureRequest(k)>>) /\ UNCHANGED <<outbox, outcome, cancelled>>
    BY <1>1, <1>2, ConfigureActs, QuietClient DEF NoneBegins, Call, ConfigureRequest
  <1>3. CASE FailCall(k) /\ Kick
    <2>1. ClientActs
      BY <1>3, NothingActs, LaunchActs DEF Kick
    <2> QED
      BY <1>3, <2>1, FailIsAllowed
  <1> QED
    BY <1>2, <1>3 DEF Configure

LEMMA ProxyFailsAllowed ==
  ASSUME CoreInv, TruthInv, NEW k \in Calls, ProxyFailed(k)
  PROVE  TruthInv' /\ Allowed
  <1>1. call[k].pc = "proxy" /\ FailCall(k) /\ UNCHANGED poolVars
    BY DEF ProxyFailed
  <1> QED
    BY <1>1, NothingActs, FailIsAllowed

\* A promise has settled.
LEMMA ContinueIsAllowed ==
  ASSUME CoreInv, TruthInv, Continue
  PROVE  TruthInv' /\ Allowed
  <1>1. PICK k : k = Settled.call
    OBVIOUS
  <1>2. ASSUME NEW pc, NEW A, Going(pc, A)
        PROVE  k \in Calls /\ call[k].pc = pc /\ Settled.answer \in A /\ Settled \in Range(micro)
    BY <1>1, <1>2, TailIs, MicroIs DEF Going, CoreInv, Settled
  <1>3. CASE ContinueStarted
    BY <1>1, <1>2, <1>3, ConfigureActs, GotoBegins, QuietClient DEF ContinueStarted
  <1>4. CASE ContinueProxy
    BY <1>1, <1>2, <1>4, NothingActs, GotoBegins, QuietClient DEF ContinueProxy
  <1>5. CASE ContinueChanged
    BY <1>1, <1>2, <1>5, NothingActs, GotoBegins, QuietClient DEF ContinueChanged
  <1>6. CASE ContinueConfigured
    <2>1. /\ k \in Calls /\ call[k].pc = "configuring" /\ k[1] # "change" /\ Proceed(k)
          /\ call' = [call EXCEPT ![k].pc = After(k), ![k].joined = <<>>]
          /\ UNCHANGED cancelled /\ Settled.answer = "ok" /\ Settled \in Range(micro)
      BY <1>1, <1>2, <1>6 DEF ContinueConfigured
    <2>2. Connected
      BY <2>1 DEF CoreInv, SettledInv
    <2>3. NoneBegins
      BY <2>1, AfterIs DEF NoneBegins, CoreInv, CallsInv, Call
    <2> QED
      BY <2>1, <2>2, <2>3, ProceedIsAllowed
  <1>7. CASE ContinueJoined
    BY <1>1, <1>2, <1>7, AfterIs, GotoBegins, ProceedIsAllowed DEF ContinueJoined, CoreInv,
       SettledInv, Proceed
  <1>8. CASE ContinueCancelled
    BY <1>1, <1>2, <1>8, NothingActs, GotoBegins, QuietClient DEF ContinueCancelled
  <1>9. CASE ContinueFailed
    BY <1>1, <1>2, <1>9, NothingActs, FailIsAllowed DEF ContinueFailed
  <1> QED
    BY <1>3, <1>4, <1>5, <1>6, <1>7, <1>8, <1>9 DEF Continue

(***************************************************************************)
(* The contract: answers, failures, and what users do.                     *)
(***************************************************************************)

\* The router knows nothing new of its calls.
LEMMA SameCalls ==
  ASSUME UNCHANGED call
  PROVE  NoneBegins
  BY DEF NoneBegins

\* The queue of the client waits for places.
LEMMA QueueWaits ==
  ASSUME CoreInv
  PROVE  Waits(execQueue)
  BY DEF CoreInv, QueuedInv, Waits

\* exec.run is answered: the answer is so.
LEMMA ResultIsAllowed ==
  ASSUME CoreInv, TruthInv, OnResult, UNCHANGED routerVars
  PROVE  TruthInv' /\ Allowed
  <1>1. PICK c, d : c = Frame.id[2] /\ d = Drained(execQueue, execRunning \ {c}, concurrency)
    OBVIOUS
  <1>2. /\ Receiving /\ Frame.id[1] = "run" /\ outcome' = [outcome EXCEPT ![c] = Frame.answer]
        /\ outbox' = Tail(outbox) /\ inbox' = IF Alive THEN inbox \o d.sent ELSE inbox
        /\ UNCHANGED <<queue, raised, worker, main, phase>>
    BY <1>1 DEF OnResult
  <1>3. /\ Frame \in Range(outbox) /\ Range(outbox') \subseteq Range(outbox)
        /\ Frame.id \in Range(pending) /\ Frame.id \in RequestIds
    BY <1>2, ReceivedIs
  <1>4. c \in Commands /\ Frame.id = <<"run", c>>
    BY <1>1, <1>2, <1>3, CallsAre DEF Ops
  <1>5. c \in execRunning
    BY <1>3, <1>4 DEF CoreInv, PendingInv
  <1>6. c \in Asked /\ outcome[c] = "none"
    BY <1>5, WaitingIsAsked
  <1>7. Frame.answer \in Tellings /\ Contract!Truthful(c, Frame.answer)
    BY <1>3, <1>4 DEF CoreInv, ContentsInv, TruthInv, AnswersInv, Tellings
  <1>8. Telling(Frame.answer)
    BY <1>2, <1>4, <1>6, <1>7, OneIsTold
  <1>9. ClientActs
    <2>1. concurrency \in Nat
      BY ClientAssumption DEF CoreInv, QueuedInv
    <2>2. PICK running : running = execRunning \ {c}
      OBVIOUS
    <2>3. running \in SUBSET execRunning /\ d = Drained(execQueue, running, concurrency)
      BY <1>1, <2>2
    <2> QED
      BY <1>2, <1>3, <2>1, <2>3, QueueWaits, HandedActs
  <1>10. NoneBegins /\ UNCHANGED cancelled
    BY SameCalls DEF routerVars
  <1> QED
    BY <1>7, <1>8, <1>9, <1>10, ClientIsAllowed

\* Other answers, and timers.
LEMMA AnswerIsAllowed ==
  ASSUME CoreInv, TruthInv, OnPong \/ OnAnswer \/ TimerFires, UNCHANGED <<call, cancelled>>
  PROVE  TruthInv' /\ Allowed
  <1>1. UNCHANGED outcome
    BY DEF OnPong, OnAnswer, TimerFires, execVars
  <1>2. CASE OnPong \/ OnAnswer
    BY <1>1, <1>2, ReceivedIs, SameCalls, QuietClient DEF OnPong, OnAnswer, ClientActs
  <1>3. CASE TimerFires
    <2>1. ClientActs
      BY <1>3, NothingActs, LaunchActs DEF TimerFires
    <2> QED
      BY <1>1, <2>1, SameCalls, QuietClient
  <1> QED
    BY <1>2, <1>3

\* failConnection(): who waited is told that the connection was lost.
LEMMA FailureIsAllowed ==
  ASSUME CoreInv, TruthInv, NEW restart, FailConnection(restart), UNCHANGED <<call, cancelled>>
  PROVE  TruthInv' /\ Allowed
  <1>1. Replaced /\ outcome' = [c \in Commands |-> IF c \in Lost THEN "lost" ELSE outcome[c]]
    BY DEF FailConnection, Kill, RejectAll
  <1>2. ClientActs
    BY <1>1, NoneIs DEF Replaced, ClientActs
  <1>3. "lost" \in Tellings
    BY DEF Tellings
  <1>4. Telling("lost")
    <2>1. ASSUME NEW c \in Commands, outcome'[c] # outcome[c]
          PROVE  /\ c \in Asked /\ outcome[c] = "none" /\ outcome'[c] = "lost"
                 /\ Contract!Truthful(c, "lost")
      BY <1>1, <2>1, WaitingIsAsked DEF Lost, Contract!Truthful
    <2> QED
      BY <2>1 DEF Telling
  <1> QED
    BY <1>2, <1>3, <1>4, SameCalls, ClientIsAllowed

\* The process exits or is given up.
LEMMA ExitIsAllowed ==
  ASSUME CoreInv, TruthInv, CoreExit \/ (Timeout /\ Invalidate)
  PROVE  TruthInv' /\ Allowed
  <1>1. UNCHANGED <<call, cancelled>>
    BY DEF CoreExit, Invalidate, routerVars
  <1>2. CASE \E restart : FailConnection(restart)
    BY <1>1, <1>2, FailureIsAllowed
  <1>3. CASE UNCHANGED <<outcome, poolVars>>
    BY <1>1, <1>3, NothingActs, SameCalls, QuietClient
  <1>4. (\E restart : FailConnection(restart)) \/ UNCHANGED <<outcome, poolVars>>
    BY DEF Timeout, Stopped, CloseEvent, CoreExit, Exits
  <1> QED
    BY <1>2, <1>3, <1>4

\* More or fewer places, stop(), and the death of the process.
LEMMA DisturbanceIsAllowed ==
  ASSUME CoreInv, TruthInv, UNCHANGED routerVars,
         Stop \/ Crash \/ \E n \in 1..MaxConcurrency : SetExecConcurrency(n)
  PROVE  TruthInv' /\ Allowed
  <1>1. NoneBegins /\ UNCHANGED cancelled
    BY SameCalls DEF routerVars
  <1>2. CASE Stop
    <2>1. UNCHANGED poolVars
          /\ outcome' = [c \in Commands |-> IF c \in Range(execQueue) THEN "lost" ELSE outcome[c]]
      BY <1>2 DEF Stop
    <2>2. Telling("lost") /\ "lost" \in Tellings
      BY <2>1, WaitingIsAsked DEF Contract!Truthful, Telling, Tellings
    <2> QED
      BY <1>1, <2>1, <2>2, NothingActs, ClientIsAllowed
  <1>3. CASE Crash
    BY <1>1, <1>3, NoneIs, QuietClient DEF Crash, ClientActs
  <1>4. ASSUME NEW n \in 1..MaxConcurrency, SetExecConcurrency(n)
        PROVE  TruthInv' /\ Allowed
    BY <1>1, <1>4, ClientAssumption, QueueWaits, HandedActs, QuietClient DEF SetExecConcurrency,
       Drain, Sent
  <1> QED
    BY <1>2, <1>3, <1>4

\* A call is issued.
LEMMA IssuedIsTrue ==
  ASSUME TruthInv, AskedInv', UNCHANGED poolVars, cancelled \subseteq cancelled'
  PROVE  TruthInv'
  <1>1. StopsInv'
    BY DEF TruthInv, StopsInv, poolVars
  <1>2. PhaseInv'
    BY DEF TruthInv, PhaseInv, poolVars
  <1>3. AnswersInv'
    BY DEF TruthInv, AnswersInv, poolVars, Contract!Truthful
  <1> QED
    BY <1>1, <1>2, <1>3 DEF TruthInv

LEMMA IssueIsAllowed ==
  ASSUME CoreInv, TruthInv,
         \/ \E c \in Commands : IssueRun(c) \/ IssueCancel(c)
         \/ \E n \in Changes, s \in Sessions, p \in Policies : IssueChange(n, s, p)
  PROVE  TruthInv' /\ Allowed
  <1>1. call \in [Calls -> Call] /\ UNCHANGED <<poolVars, outcome>>
    BY DEF CoreInv, CallsInv, IssueRun, IssueCancel, IssueChange, Issue, clientVars
  <1>2. UNCHANGED phase
    BY <1>1 DEF poolVars
  <1>3. ASSUME NEW c \in Commands, IssueRun(c)
        PROVE  TruthInv' /\ Allowed
    <2>1. PICK k : k = <<"run", c>>
      OBVIOUS
    <2>2. k \in Calls /\ call[k].pc = "new" /\ Goto(k, "meta") /\ UNCHANGED cancelled
      BY <1>3, <2>1, CallsAre DEF IssueRun, Issue
    <2>3. call'[k].pc = "meta" /\ \A l \in Calls : l # k => call'[l].pc = call[l].pc
      BY <1>1, <2>2 DEF Goto, Call
    <2>4. AskedInv'
      BY <2>1, <2>2, <2>3, CallsAre DEF AskedInv, TruthInv
    <2>5. \A d \in Commands : d # c => <<"run", d>> # k /\ <<"run", d>> \in Calls
      BY <2>1, CallsAre
    <2>6. c \notin Asked /\ Asked' = Asked \cup {c}
      BY <2>1, <2>2, <2>3, <2>5 DEF Asked
    <2>7. Contract!Ask(c)
      BY <1>1, <1>2, <2>2, <2>6 DEF Contract!Ask, Asked
    <2> QED
      BY <1>1, <2>2, <2>4, <2>7, IssuedIsTrue DEF Allowed, Contract!Next
  <1>4. ASSUME NEW c \in Commands, IssueCancel(c)
        PROVE  TruthInv' /\ Allowed
    <2>1. PICK k : k = <<"cancel", c>>
      OBVIOUS
    <2>2. k \in Calls /\ call[k].pc = "new" /\ Goto(k, "meta") /\ cancelled' = cancelled \cup {c}
          /\ c \in Asked
      BY <1>4, <2>1, CallsAre DEF IssueCancel, Issue, Asked
    <2>3. call'[k].pc = "meta" /\ \A l \in Calls : l # k => call'[l].pc = call[l].pc
      BY <1>1, <2>2 DEF Goto, Call
    <2>4. AskedInv'
      <3>1. ASSUME NEW d \in Commands, call'[<<"cancel", d>>].pc # "new"
            PROVE  d \in cancelled'
        <4>1. CASE d = c
          BY <2>2, <4>1
        <4>2. CASE d # c
          BY <2>1, <2>2, <2>3, <3>1, <4>2, CallsAre DEF TruthInv, AskedInv
        <4> QED
          BY <4>1, <4>2
      <3> QED
        BY <3>1 DEF AskedInv
    <2>5. Asked' = Asked
      BY <2>1, <2>3, CallsAre DEF Asked
    <2>6. Contract!Cancel(c)
      BY <1>1, <1>2, <2>2, <2>5 DEF Contract!Cancel, Asked
    <2> QED
      BY <1>1, <2>2, <2>4, <2>6, IssuedIsTrue DEF Allowed, Contract!Next
  <1>5. ASSUME NEW n \in Changes, NEW s \in Sessions, NEW p \in Policies, IssueChange(n, s, p)
        PROVE  TruthInv' /\ Allowed
    BY <1>1, <1>2, <1>5, CallsAre, IssuedIsTrue DEF IssueChange, Calls, Asked, AskedInv, TruthInv,
       Allowed, Contract!vars
  <1> QED
    BY <1>3, <1>4, <1>5

\* Every step is one the contract allows.
LEMMA StepsAreAllowed ==
  ASSUME CoreInv, TruthInv, [Next]_vars
  PROVE  TruthInv' /\ Allowed
  <1>1. CASE UNCHANGED vars
    BY <1>1, NothingActs, SameCalls, QuietClient DEF vars, clientVars, routerVars
  <1>2. ASSUME Driven PROVE TruthInv' /\ Allowed
    <2>1. ASSUME NEW k \in Calls, LookedUp(k) \/ LookedUpChange(k) \/ ProxyStarted(k)
          PROVE  TruthInv' /\ Allowed
      BY <2>1, LooksIsAllowed, ConfiguresIsAllowed DEF LookedUpChange, ProxyStarted
    <2>2. ASSUME ClientStep PROVE TruthInv' /\ Allowed
      BY <2>2, ResultIsAllowed, AnswerIsAllowed DEF ClientStep, CoreReady, Invalidate, routerVars
    <2>3. ASSUME NEW w \in Workers, CommandReturns(w, "stopped") PROVE TruthInv' /\ Allowed
      BY <2>3, ProcessIsAllowed
    <2> QED
      BY <1>2, <2>1, <2>2, <2>3, ContinueIsAllowed, ExitIsAllowed, ProcessIsAllowed DEF Driven
  <1>3. ASSUME Use PROVE TruthInv' /\ Allowed
    BY <1>3, ProcessIsAllowed, IssueIsAllowed DEF Use
  <1>4. ASSUME Disturbance PROVE TruthInv' /\ Allowed
    BY <1>4, DisturbanceIsAllowed, ProxyFailsAllowed, IssueIsAllowed, ExitIsAllowed DEF ClientCrash,
       Disturbance
  <1> QED
    BY <1>1, <1>2, <1>3, <1>4 DEF Next

LEMMA TruthStarts == Init => TruthInv /\ Contract!Init
  <1> SUFFICES ASSUME Init PROVE TruthInv /\ Contract!Init
    OBVIOUS
  <1>1. /\ call = [k \in Calls |-> NewCall(SessionOfCall(k))] /\ cancelled = {}
        /\ inbox = <<>> /\ outbox = <<>> /\ queue = <<>> /\ raised = {} /\ main = NoCommand
        /\ worker = [w \in Workers |-> IdleWorker]
        /\ phase = [c \in Commands |-> "none"] /\ outcome = [c \in Commands |-> "none"]
    BY DEF Init, PoolInit, ClientInit, Fresh
  <1>2. \A k \in Calls : call[k].pc = "new"
    BY <1>1 DEF NewCall
  <1>3. Range(inbox) = {} /\ Range(outbox) = {} /\ Range(queue) = {}
    BY <1>1, NoneIs
  <1>4. TruthInv
    BY <1>1, <1>2, <1>3, CallsAre DEF TruthInv, AskedInv, StopsInv, PhaseInv, AnswersInv, IdleWorker
  <1>5. Contract!Init
    BY <1>1, <1>2, CallsAre DEF Contract!Init
  <1> QED
    BY <1>4, <1>5

\* KeepsContract (core-client.ts, rpc.c): whatever fails, a command is started at most once and never
\* after its caller was told its fate, its promise settles once, and it settles with what really
\* happened; only a command that somebody cancelled is stopped.
THEOREM ExecutorKeepsContract == Spec => KeepsContract
  <1>1. Init => TruthInv /\ Contract!Init
    BY TruthStarts
  <1>2. CoreInvariant /\ TruthInv /\ [Next]_vars => TruthInv' /\ [Contract!Next]_(Contract!vars)
    BY StepsAreAllowed DEF CoreInvariant, Allowed
  <1> QED
    BY <1>1, <1>2, CoreHolds, PTL DEF Spec, KeepsContract, Contract!Spec
=============================================================================
