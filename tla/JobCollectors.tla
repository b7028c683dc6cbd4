--------------------------- MODULE JobCollectors ---------------------------
(***************************************************************************)
(* Those who run jobs and poll for what they write.                        *)
(*                                                                         *)
(* "search" reads the state first and the output after it, page by page to *)
(* its end, and refuses an output with a gap: collectSearchJobText() of    *)
(* core-client.ts and collectJobJsonLines() of rpc/job-collect.ts.         *)
(* The others read the output, the state, and when the job has ended one   *)
(* page more: "bash", executeBash() of agent-runner.ts, which reports a    *)
(* gap, and "test", diagnostics/service.ts, which asks for larger pages.   *)
(* (scm/service.ts polls as the bash tool does, but ignores a gap.)        *)
(*                                                                         *)
(* A request and its answer are one step: a caller does nothing between,   *)
(* and what matters is when the executor handles it.                       *)
(***************************************************************************)
EXTENDS JobTable, FiniteSets

CONSTANTS
    KindOf,     \* who runs each job
    MaxFaults,  \* bound: failing starts, cleanups of the session, crashes
    MaxAborts   \* bound

ASSUME CollectorAssumption ==
    /\ KindOf \in [Jobs -> {"search", "bash", "test"}]
    /\ Searches = {j \in Jobs : KindOf[j] = "search"}
    /\ MaxFaults \in Nat /\ MaxAborts \in Nat

VARIABLES
    pc,        \* where each collector is
    local,     \* what it knows: the state it has read last, the chunks it has, afterSeq
               \* of its next job.output, truncated of its last page
    heard,     \* the callers whose abort listener is there
    aborted,   \* the jobs whose signal is aborted
    outcome,   \* how each collector ended
    faults

collectorVars == <<pc, local, heard, outcome>>
vars == <<tableVars, collectorVars, aborted, faults>>

NewLocal == [state |-> "running", seq |-> 0, got |-> <<>>, gap |-> FALSE]

\* limit of job.output: 256 and 128, against a ring of 128
LimitOf(j) == IF KindOf[j] = "test" THEN 2 * Ring ELSE Ring

Outcomes == {"none", "ok", "cut", "error", "aborted"}

TypeOK ==
    /\ TableTypeOK
    /\ pc \in [Jobs -> {"idle", "starting", "poll", "status", "page", "tail", "done"}]
    /\ local \in [Jobs -> [state : {"running"} \cup Ended, seq : Nat, got : Seq(Nat), gap : BOOLEAN]]
    /\ aborted \subseteq Jobs /\ heard \subseteq Jobs
    /\ outcome \in [Jobs -> Outcomes]
    /\ faults \in 0..MaxFaults
    /\ \A j \in Jobs :
          /\ outcome[j] = "none" <=> pc[j] # "done"
          /\ \A i, k \in 1..Len(local[j].got) :
                i < k => local[j].got[i] < local[j].got[k]

Init ==
    /\ TableInit
    /\ pc = [j \in Jobs |-> "idle"]
    /\ local = [j \in Jobs |-> NewLocal]
    /\ aborted = {}
    /\ heard = {}
    /\ outcome = [j \in Jobs |-> "none"]
    /\ faults = 0

\* The collector goes on with what it knows now ...
Goes(j, to, knows) ==
    /\ pc' = [pc EXCEPT ![j] = to]
    /\ local' = [local EXCEPT ![j] = knows]
    /\ UNCHANGED <<outcome, heard>>

\* ... or returns what it has, and removes its listener.
Returns(j, how, got) ==
    /\ pc' = [pc EXCEPT ![j] = "done"]
    /\ local' = [local EXCEPT ![j] = [NewLocal EXCEPT !.got = got]]
    /\ outcome' = [outcome EXCEPT ![j] = how]
    /\ heard' = heard \ {j}

\* Only the bash tool tells an error that comes after an abort from others.
Throws(j) == Returns(j, IF KindOf[j] = "bash" /\ j \in aborted THEN "aborted" ELSE "error", <<>>)

Kinds(kinds) == {j \in Jobs : KindOf[j] \in kinds}

\* What is read first.
FirstStep(j) == IF KindOf[j] = "search" THEN "poll" ELSE "page"

(***************************************************************************)
(* Starting a job.                                                         *)
(***************************************************************************)

\* The listener is added first; the router configures the session before it
\* sends job.start.
Begin(j) ==
    /\ pc[j] = "idle"
    /\ pc' = [pc EXCEPT ![j] = "starting"]
    /\ heard' = IF KindOf[j] # "search" THEN heard \cup {j} ELSE heard
    /\ UNCHANGED <<tableVars, local, outcome, aborted, faults>>

Start(j) ==
    /\ pc[j] = "starting"
    /\ JobStart(j)
    /\ Goes(j, FirstStep(j), NewLocal)
    /\ UNCHANGED <<aborted, faults>>

\* job limit reached
StartRefused(j) ==
    /\ pc[j] = "starting"
    /\ FreeSlots = {}
    /\ Throws(j)
    /\ UNCHANGED <<tableVars, aborted, faults>>

StartFails(j) ==
    /\ pc[j] = "starting"
    /\ faults < MaxFaults
    /\ faults' = faults + 1
    /\ JobStartFails
    /\ Throws(j)
    /\ UNCHANGED aborted

(***************************************************************************)
(* Polling.                                                                *)
(***************************************************************************)

\* The slot was taken by another job, or the process has died.
NotFound(j) ==
    /\ pc[j] \in {"poll", "status", "page", "tail"}
    /\ ~Known(j)
    /\ Throws(j)
    /\ UNCHANGED <<tableVars, aborted, faults>>

\* Mutant of Cancels: the error is thrown first.
CancelsNothing(j) == UNCHANGED tableVars

\* What the loop of a search does when it finds that its signal is aborted.
Cancels(j) == JobCancel({j})

GivesUp(j) ==
    /\ pc[j] = "poll"
    /\ j \in aborted
    /\ Cancels(j)
    /\ Returns(j, "aborted", <<>>)
    /\ UNCHANGED <<aborted, faults>>

\* job.status of a search, at the head of its loop.
Poll(j) ==
    /\ pc[j] = "poll" /\ KindOf[j] = "search"
    /\ j \notin aborted
    /\ Known(j)
    /\ Goes(j, "page", [local[j] EXCEPT !.state = JobStatus(j)])
    /\ UNCHANGED <<tableVars, aborted, faults>>

\* What the collector knows when it has read one more page of the output.
Read(j) ==
    LET page == JobOutput(j, local[j].seq, LimitOf(j))
    IN  [local[j] EXCEPT !.got = @ \o page,
                         !.seq = IF page = <<>> THEN @ ELSE page[Len(page)],
                         !.gap = JobTruncated(j)]

\* A page size the executor does not accept is an error, and the job runs on.
PageRefused(j) ==
    /\ pc[j] \in {"page", "tail"}
    /\ Known(j)
    /\ ~ValidLimit(LimitOf(j))
    /\ Throws(j)
    /\ UNCHANGED <<tableVars, aborted, faults>>

\* A page of a search: a gap is an error; once there is no more, the state that was
\* read before the pages counts.
SearchPage(j) ==
    /\ pc[j] = "page" /\ KindOf[j] = "search"
    /\ Known(j)
    /\ LET read == Read(j)
           last == ~read.gap /\ read.seq = local[j].seq
       IN  \/ read.gap /\ Returns(j, "cut", <<>>)
           \/ ~read.gap /\ ~last /\ Goes(j, "page", read)
           \/ last /\ local[j].state = "running" /\ Goes(j, "poll", read)
           \/ last /\ local[j].state = "completed" /\ Returns(j, "ok", read.got)
           \/ last /\ local[j].state \in Ended \ {"completed"} /\ Throws(j)
    /\ UNCHANGED <<tableVars, aborted, faults>>

\* The page before the state of any other.
Page(j) ==
    /\ pc[j] = "page" /\ KindOf[j] # "search"
    /\ Known(j) /\ ValidLimit(LimitOf(j))
    /\ Goes(j, "status", Read(j))
    /\ UNCHANGED <<tableVars, aborted, faults>>

\* When the job has ended one more page is read.
Status(j) ==
    /\ pc[j] = "status"
    /\ Known(j)
    /\ IF JobStatus(j) = "running"
       THEN Goes(j, "page", local[j])
       ELSE Goes(j, "tail", [local[j] EXCEPT !.state = JobStatus(j)])
    /\ UNCHANGED <<tableVars, aborted, faults>>

\* What becomes of the last page: an abort and a state that is an error come first;
\* only the bash tool says that output is missing.
LastPage(j) ==
    /\ pc[j] = "tail"
    /\ Known(j) /\ ValidLimit(LimitOf(j))
    /\ LET read == Read(j)
           good == IF KindOf[j] = "bash" THEN {"completed"} ELSE {"completed", "failed"}
       IN  \/ j \in aborted /\ Returns(j, "aborted", <<>>)
           \/ j \notin aborted /\ local[j].state \notin good /\ Throws(j)
           \/ /\ j \notin aborted /\ local[j].state \in good
              /\ Returns(j, IF KindOf[j] = "bash" /\ read.gap THEN "cut" ELSE "ok", read.got)
    /\ UNCHANGED <<tableVars, aborted, faults>>

(***************************************************************************)
(* What happens around them.                                               *)
(***************************************************************************)

\* The listener cancels the job, if it has been started; it hears only once.
Abort(j) ==
    /\ pc[j] \notin {"idle", "done"}
    /\ j \notin aborted
    /\ Cardinality(aborted) < MaxAborts
    /\ aborted' = aborted \cup {j}
    /\ \/ j \in heard /\ JobCancel({j})
       \/ j \notin heard /\ UNCHANGED tableVars
    /\ heard' = heard \ {j}
    /\ UNCHANGED <<pc, local, outcome, faults>>

\* session.cleanup
Cleanup ==
    /\ faults < MaxFaults
    /\ faults' = faults + 1
    /\ JobCancel(Jobs)
    /\ UNCHANGED <<collectorVars, aborted>>

Crash ==
    /\ faults < MaxFaults
    /\ faults' = faults + 1
    /\ TableLost
    /\ UNCHANGED <<collectorVars, aborted>>

Running ==
    /\ \E j \in Jobs : Write(j)
    /\ UNCHANGED <<collectorVars, aborted, faults>>

Ending ==
    /\ \E j \in Jobs : Finish(j)
    /\ UNCHANGED <<collectorVars, aborted, faults>>

Collector(j) ==
    \/ Start(j) \/ StartRefused(j) \/ NotFound(j) \/ GivesUp(j)
    \/ Poll(j) \/ PageRefused(j) \/ SearchPage(j)
    \/ Page(j) \/ Status(j) \/ LastPage(j)

Environment ==
    \/ \E j \in Jobs : Begin(j) \/ StartFails(j) \/ Abort(j)
    \/ Cleanup \/ Crash

Collecting == \E j \in Jobs : Collector(j)

Next == Collecting \/ Running \/ Ending \/ Environment

Spec == Init /\ [][Next]_vars

(***************************************************************************)
(* Properties.                                                             *)
(***************************************************************************)

Everything(j) == [i \in 1..Total[j] |-> i]

\* The results of searches and of the bash tool are whole, or are said not to be:
\* whatever is evicted, overwritten, cancelled or lost meanwhile.  (And nothing is
\* collected twice or out of order: TypeOK.)
ResultIsWhole ==
    TypeOK /\ \A j \in Kinds({"search", "bash"}) : outcome[j] = "ok" => local[j].got = Everything(j)

\* A job that its caller no longer waits for does not run on: searches and
\* bash calls return when their job has ended, is gone or has been told to
\* stop.  (A search whose output has a gap is the exception, and a test run.)
NoJobLeftBehind ==
    \A j \in Kinds({"search", "bash"}) :
        pc[j] = "done" /\ Known(j) /\ JobStatus(j) = "running"
            => slots[SlotOf(j)].cancel \/ outcome[j] = "cut"

\* A test run whose job nobody disturbs returns its result: a test command that
\* fails "is the normal case, and its output is parsed like any other"
\* (diagnostics/service.ts:135).  (Does not hold: the page it asks for is refused.)
TestRunHasResult ==
    \A j \in Kinds({"test"}) : outcome[j] = "error" => faults > 0 \/ aborted # {} \/ ~Known(j)
                                                         \/ JobStatus(j) \in {"cancelled", "timed_out"}
=============================================================================
