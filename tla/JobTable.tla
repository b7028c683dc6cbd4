------------------------------ MODULE JobTable ------------------------------
(***************************************************************************)
(* The job table of the executor: core/src/rpc.c, job.start, job.cancel,   *)
(* job.status and job.output, and the thread that runs each job.           *)
(*                                                                         *)
(* There are four slots.  A slot keeps the state and the last 128 chunks   *)
(* of the output of its job, after its end too, until job.start takes the  *)
(* slot for another one.  Every access holds jobs_mutex, so each operator  *)
(* below is one step.  A chunk is represented by its sequence number.      *)
(***************************************************************************)
EXTENDS Naturals, Sequences

CONSTANTS
    Jobs,      \* bound: the job ids; every job has one
    Searches,  \* the jobs that walk the files: index.scan, grep, glob, index.extract
    NoJob,
    MaxRunning,\* OWC_JOB_MAX_RUNNING: the slots
    Ring,      \* OWC_JOB_OUTPUT_CHUNKS: the chunks a slot keeps
    Total      \* bound: the chunks each job writes if nothing stops it

ASSUME JobTableAssumption ==
    /\ Searches \subseteq Jobs /\ NoJob \notin Jobs
    /\ MaxRunning \in Nat \ {0} /\ Ring \in Nat \ {0} /\ Total \in [Jobs -> Nat]

VARIABLES
    slots,     \* jobs[]
    thread     \* for each job, the slot its thread has the address of, or 0

tableVars == <<slots, thread>>

Slots == 1..MaxRunning
Ended == {"completed", "failed", "cancelled", "timed_out"}
EmptySlot == [job |-> NoJob, state |-> "empty", cancel |-> FALSE, first |-> 1, next |-> 0,
              lost |-> FALSE]

TableTypeOK ==
    /\ slots \in [Slots -> [job : Jobs \cup {NoJob}, state : {"empty", "running"} \cup Ended,
                            cancel : BOOLEAN, first : Nat, next : Nat, lost : BOOLEAN]]
    /\ thread \in [Jobs -> Slots \cup {0}]
    /\ \A s \in Slots :
          /\ slots[s].next + 1 - slots[s].first \in 0..Ring
          /\ slots[s].lost <=> slots[s].first > 1
    /\ \A s, t \in Slots : slots[s].job = slots[t].job /\ s # t => slots[s].job = NoJob

TableInit ==
    /\ slots = [s \in Slots |-> EmptySlot]
    /\ thread = [j \in Jobs |-> 0]

(***************************************************************************)
(* The requests.                                                           *)
(***************************************************************************)

\* find_job()
Known(j) == \E s \in Slots : slots[s].job = j
SlotOf(j) == CHOOSE s \in Slots : slots[s].job = j

\* Mutant of Reusable: a job that was cancelled counts as ended.
ReusableWhenCancelled(s) == slots[s].state # "running" \/ slots[s].cancel

Reusable(s) == slots[s].state # "running"

FreeSlots == {s \in Slots : Reusable(s)}
FreeSlot == CHOOSE s \in FreeSlots : \A t \in FreeSlots : s <= t

\* handle_job_start(): the first slot without a running job is emptied, whatever
\* the job that ended in it still had to tell.
JobStart(j) ==
    /\ FreeSlots # {}
    /\ slots' = [slots EXCEPT ![FreeSlot] = [EmptySlot EXCEPT !.job = j, !.state = "running"]]
    /\ thread' = [thread EXCEPT ![j] = FreeSlot]

\* ... also when the request turns out to be wrong, or no thread can be created.
JobStartFails ==
    /\ FreeSlots # {}
    /\ slots' = [slots EXCEPT ![FreeSlot] = EmptySlot]
    /\ UNCHANGED thread

\* handle_job_cancel(), cancel_session_jobs()
JobCancel(js) ==
    /\ slots' = [s \in Slots |-> IF slots[s].job \in js /\ slots[s].state = "running"
                                 THEN [slots[s] EXCEPT !.cancel = TRUE] ELSE slots[s]]
    /\ UNCHANGED thread

\* handle_job_status()
JobStatus(j) == slots[SlotOf(j)].state

\* handle_job_output(): the chunks after the given one, at most so many of them.
JobOutput(j, after, limit) ==
    LET slot == slots[SlotOf(j)]
        from == IF after + 1 > slot.first THEN after + 1 ELSE slot.first
        count == IF slot.next + 1 > from THEN slot.next + 1 - from ELSE 0
    IN  [i \in 1..(IF count < limit THEN count ELSE limit) |-> from + i - 1]

JobTruncated(j) == slots[SlotOf(j)].lost

\* limit must be from 1 to 128
ValidLimit(limit) == limit \in 1..Ring

(***************************************************************************)
(* The thread of a job.                                                    *)
(***************************************************************************)

\* job_output(): the oldest chunk gives way.
Write(j) ==
    LET s == thread[j]
    IN  /\ s # 0
        /\ slots[s].next < Total[j]
        /\ slots' = [slots EXCEPT
                       ![s].next = @ + 1,
                       ![s].first = IF slots[s].next + 1 - @ = Ring THEN @ + 1 ELSE @,
                       ![s].lost = @ \/ slots[s].next + 1 - slots[s].first = Ring]
        /\ UNCHANGED thread

\* Mutant of FinalState: a search that was stopped half-way is complete.
FinalStateIgnoresCancel(j, slot) ==
    IF j \in Searches THEN {"failed"} \cup (IF slot.next = Total[j] \/ slot.cancel THEN {"completed"} ELSE {})
    ELSE Ended

\* The workers of searches look at the flag once more at their end; a command is
\* cancelled when the loop that waits for it has seen the flag in time.
FinalState(j, slot) ==
    IF j \in Searches
    THEN {"failed"} \cup (IF slot.cancel THEN {"cancelled"}
                          ELSE IF slot.next = Total[j] THEN {"completed"} ELSE {})
    ELSE {"failed", "timed_out"} \cup (IF slot.cancel THEN {"cancelled"} ELSE {})
                                 \cup (IF slot.next = Total[j] THEN {"completed"} ELSE {})

\* job_worker(): the state is the last thing the thread writes.
Finish(j) ==
    LET s == thread[j]
    IN  /\ s # 0
        /\ \E end \in FinalState(j, slots[s]) : slots' = [slots EXCEPT ![s].state = end]
        /\ thread' = [thread EXCEPT ![j] = 0]

\* The process of the executor dies, and another one takes its place.
TableLost ==
    /\ slots' = [s \in Slots |-> EmptySlot]
    /\ thread' = [j \in Jobs |-> 0]

\* A thread that still writes has its slot: the memory it writes to has not been
\* given to another job meanwhile, whatever was evicted or cleaned up.
ThreadOwnsSlot ==
    TableTypeOK /\
    \A j \in Jobs : thread[j] # 0 => slots[thread[j]].job = j /\ slots[thread[j]].state = "running"
=============================================================================
