---------------------------- MODULE MessageQueue ----------------------------
(***************************************************************************)
(* The durable message queue of one session: queue.json, as read and       *)
(* rewritten by server/src/agent/message-queue.ts.                         *)
(*                                                                         *)
(* Every mutation re-reads the file, changes one item and replaces the     *)
(* file atomically inside a per-session promise chain, so a mutation is    *)
(* one step here.  A write that fails leaves the file as it was: the       *)
(* modules that use the queue model it as a step that leaves queue alone.  *)
(*                                                                         *)
(* An item is named by its position in the file: items are only appended.  *)
(* The text of an item is abstracted away; what tells items apart is who   *)
(* queued them and the request id a client may attach for retries.         *)
(***************************************************************************)
EXTENDS Naturals, Sequences, FiniteSets

CONSTANTS
    Requests,   \* the client request ids
    NoRequest,  \* the item carries no request id
    MaxItems    \* bound: items ever appended to the file

ASSUME NoRequestAssumption == NoRequest \notin Requests
ASSUME MaxItemsAssumption == MaxItems \in Nat

VARIABLE queue  \* the items of queue.json, in file order

Kinds == {"steer", "follow_up"}
Statuses == {"queued", "consuming", "applied", "cancelled"}
Sources == {"user", "cron", "goal"}

\* NoItem stands for "undefined" where the code holds an optional item.
NoItem == 0
ItemIds == 1..MaxItems

QueueItem ==
    [kind : Kinds, status : Statuses,
     requestId : Requests \cup {NoRequest}, source : Sources]

QueueTypeOK ==
    /\ queue \in Seq(QueueItem)
    /\ Len(queue) <= MaxItems

QueueInit == queue = <<>>

Queued(kind) ==
    {i \in DOMAIN queue : queue[i].kind = kind /\ queue[i].status = "queued"}

\* Mutant of Reusable: only items that are still queued are found again.
ReusableWhileQueued(kind, req) == {i \in Queued(kind) : req # NoRequest /\ queue[i].requestId = req}

\* The item a retried request finds: same kind, same request id, any status.
Reusable(kind, req) ==
    {i \in DOMAIN queue :
        req # NoRequest /\ queue[i].kind = kind /\ queue[i].requestId = req}

Enqueue(kind, req, source) ==
    \/ /\ Reusable(kind, req) # {}
       /\ UNCHANGED queue
    \/ /\ Reusable(kind, req) = {}
       /\ Len(queue) < MaxItems
       /\ queue' = Append(queue, [kind |-> kind, status |-> "queued",
                                  requestId |-> req, source |-> source])

SetStatus(i, from, to) ==
    /\ i \in DOMAIN queue
    /\ queue[i].status = from
    /\ queue' = [queue EXCEPT ![i].status = to]

\* Mutant of Cancel: an item that is being consumed can be cancelled.
CancelClaimed(i) ==
    SetStatus(i, "queued", "cancelled") \/ SetStatus(i, "consuming", "cancelled")

Cancel(i) == SetStatus(i, "queued", "cancelled")

\* The only field of an item a PATCH changes that matters here is its kind.
Update(i, kind) ==
    /\ i \in DOMAIN queue
    /\ queue[i].status = "queued"
    /\ queue' = [queue EXCEPT ![i].kind = kind]

IsFirst(kind, i) ==
    /\ i \in Queued(kind)
    /\ \A j \in Queued(kind) : i <= j

Take(kind, i) == IsFirst(kind, i) /\ SetStatus(i, "queued", "consuming")

Consuming(i) == i \in DOMAIN queue /\ queue[i].status = "consuming"

Apply(i) == SetStatus(i, "consuming", "applied")

\* A no-op when the item is not claimed any more.
Requeue(i) ==
    \/ SetStatus(i, "consuming", "queued")
    \/ ~Consuming(i) /\ UNCHANGED queue
=============================================================================
