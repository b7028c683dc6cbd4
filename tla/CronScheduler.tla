--------------------------- MODULE CronScheduler ---------------------------
(***************************************************************************)
(* The timers of all sessions: server/src/cron-scheduler.ts, the handler   *)
(* that index.ts gives it, and the deletion of a session                   *)
(* (routes/sessions-files.ts).                                             *)
(*                                                                         *)
(* One timer is set to the earliest action of any job.  When it goes off,  *)
(* check() lists the due jobs and fires them one after the other, awaiting *)
(* each.  Nothing keeps a second check() from starting meanwhile: creating *)
(* or deleting a job sets the timer again.  cron.json is rewritten as a    *)
(* whole, in a chain of writes; a write takes its snapshot when its turn   *)
(* comes.                                                                  *)
(*                                                                         *)
(* A cron expression is the set of the times it matches; its parser and    *)
(* the calendar are not modelled here.  A tick is a minute.                *)
(***************************************************************************)
EXTENDS Naturals, Sequences, FiniteSets, Functions, FiniteSetsExt

CONSTANTS
    JobIds,     \* bound: ids randomUUID() may return
    Sessions,
    Users,      \* bound: requests and tool calls under way
    Checks,     \* bound: calls of check() under way at once
    Schedules,  \* bound: the cron expressions, as sets of times, and whether they recur
    Horizon,    \* bound: the last time
    TTL,        \* CRON_RECURRING_TTL_MS
    MaxDelay,   \* MAX_TIMER_DELAY_MS
    JobLimit,   \* CRON_MAX_JOBS_PER_SESSION
    MaxTroubles \* bound: writes that fail, and crashes of the server process

ASSUME TimeAssumption ==
    /\ Horizon \in Nat
    /\ TTL \in Nat \ {0}
    /\ MaxDelay \in Nat \ {0}
    /\ Schedules \subseteq [times : SUBSET (0..Horizon), recurring : BOOLEAN]
ASSUME CronBoundAssumption ==
    JobLimit \in Nat /\ MaxTroubles \in Nat

VARIABLES
    now,        \* the clock
    jobs,       \* the jobs in memory, oldest first
    timer,      \* when the timer goes off
    check,      \* the calls of check()
    user,       \* the calls of create(), delete() and the session routes
    writes,     \* the chain of writes of cron.json: who waits for which
    snapshot,   \* what each write that has begun is writing, or nothing
    disk,       \* cron.json
    server,     \* whether the process runs, and has loaded cron.json
    alive,      \* the sessions that exist
    \* What an observer sees:
    told,       \* what became of a job, as far as its user was told
    delivered,  \* how often each fire time of each job reached its session
    overlapped, \* two calls of check() were under way at once
    faults,
    crashes

seenVars == <<told, delivered, overlapped>>
boundVars == <<faults, crashes>>
vars == <<now, jobs, timer, check, user, writes, snapshot, disk, server, alive,
          seenVars, boundVars>>

\* No time at all: later than every time there is.
Never == Horizon + TTL + 1
Times == 0..Never

Job == [id : JobIds, session : Sessions, times : {plan.times : plan \in Schedules}, recurring : BOOLEAN,
        created : 0..Horizon, fired : 0..Horizon \cup {Never}]

Due == [job : Job, point : Times, stale : BOOLEAN]

Writers == ({"check"} \X Checks) \cup ({"user"} \X Users)

IdleCheck == [pc |-> "idle", at |-> 0, due |-> <<>>, boot |-> FALSE]
IdleUser == [pc |-> "idle", ids |-> {}, sessions |-> {}]

Fates == {"unused", "pending", "created", "failed", "deleting", "deleted", "ended"}

Ids(js) == {js[i].id : i \in DOMAIN js}
Distinct(js) == \A i, j \in DOMAIN js : js[i].id = js[j].id => i = j

TypeOK ==
    /\ now \in 0..Horizon
    /\ jobs \in Seq(Job) /\ disk \in Seq(Job)
    /\ Distinct(jobs) /\ Distinct(disk)
    /\ timer \in Times
    /\ check \in [Checks -> [pc : {"idle", "fire", "deliver", "purge", "write"}, at : 0..Horizon,
                             due : Seq(Due), boot : BOOLEAN]]
    /\ \A k \in Checks : check[k].pc \in {"fire", "deliver", "purge"} => check[k].due # <<>>
    /\ user \in [Users -> [pc : {"idle", "create", "delete", "purge", "drop"},
                           ids : SUBSET JobIds, sessions : SUBSET Sessions]]
    /\ writes \in Seq(Writers)
    /\ snapshot \in [Writers -> SUBSET Seq(Job)]
    /\ server \in {"up", "booting", "down"}
    /\ alive \subseteq Sessions
    /\ told \in [JobIds -> Fates]
    /\ delivered \in [JobIds -> [Times -> Nat]]
    /\ overlapped \in BOOLEAN
    /\ faults \in 0..MaxTroubles
    /\ crashes \in 0..MaxTroubles

Init ==
    /\ now = 0
    /\ jobs = <<>>
    /\ timer = Never
    /\ check = [k \in Checks |-> IdleCheck]
    /\ user = [u \in Users |-> IdleUser]
    /\ writes = <<>>
    /\ snapshot = [w \in Writers |-> {}]
    /\ disk = <<>>
    /\ server = "up"
    /\ alive = Sessions
    /\ told = [j \in JobIds |-> "unused"]
    /\ delivered = [j \in JobIds |-> [t \in Times |-> 0]]
    /\ overlapped = FALSE
    /\ faults = 0
    /\ crashes = 0

\* filter(): what stands in s at the positions of P, in their order.
Nth(P, n) == CHOOSE i \in P : Cardinality({k \in P : k <= i}) = n
Filtered(s, P) == [n \in 1..Cardinality(P) |-> s[Nth(P, n)]]

(***************************************************************************)
(* Times.                                                                  *)
(***************************************************************************)
Earliest(S) == Min(S \cup {Never})

\* nextCronFire: the first match strictly after a time.
NextFire(times, after) == Earliest({t \in times : t > after})

Reference(job) == IF job.fired # Never THEN job.fired ELSE job.created
Expiry(job) == job.created + TTL

NextAction(job) ==
    IF ~job.recurring THEN NextFire(job.times, job.created)
    ELSE IF now >= Expiry(job) THEN now
    ELSE Earliest({NextFire(job.times, Reference(job)), Expiry(job)})

\* Mutant of Rearmed: reschedule() looks at the oldest job only.
RearmedByOldest(js) ==
    IF js = <<>> THEN Never
    ELSE IF NextAction(js[1]) = Never THEN Never
    ELSE now + Min({Max({NextAction(js[1]), now}) - now, MaxDelay})

\* reschedule(): the timer for these jobs.
Rearmed(js) ==
    LET nearest == Earliest({NextAction(js[i]) : i \in DOMAIN js})
    IN  IF nearest = Never THEN Never
        ELSE now + Min({Max({nearest, now}) - now, MaxDelay})

IsStale(job) == job.recurring /\ now >= Expiry(job)

\* Mutant of IsDue: every match since the last firing is due, fired or not.
IsDueAgain(job) == IsStale(job) \/ NextFire(job.times, job.created) <= now

IsDue(job) == IsStale(job) \/ NextFire(job.times, Reference(job)) <= now

\* What check() lists: a stale job counts as due at its expiry.
DueOf(js) ==
    LET due == Filtered(js, {i \in DOMAIN js : IsDue(js[i])})
    IN  [i \in DOMAIN due |->
           [job |-> due[i], stale |-> IsStale(due[i]),
            point |-> IF IsStale(due[i]) THEN Expiry(due[i])
                      ELSE NextFire(due[i].times, Reference(due[i]))]]

(***************************************************************************)
(* Writes of cron.json.                                                    *)
(***************************************************************************)
Persist(w) == writes' = Append(writes, w)
Left(w) == Filtered(writes, {i \in DOMAIN writes : writes[i] # w})
Leave(w) == writes' = Left(w)

\* Mutant of MayWrite: persist() does not wait for the writes before it.
MayWriteAtOnce(w) == w \in Range(writes)

MayWrite(w) == writes # <<>> /\ Head(writes) = w

BeginWrite(w) ==
    /\ MayWrite(w)
    /\ snapshot[w] = {}
    /\ snapshot' = [snapshot EXCEPT ![w] = {jobs}]
    /\ UNCHANGED <<now, jobs, timer, check, user, writes, disk, server, alive,
                   seenVars, boundVars>>

\* The write has taken effect, and its caller goes on.
Written(w) ==
    /\ disk' \in snapshot[w]
    /\ snapshot' = [snapshot EXCEPT ![w] = {}]
    /\ timer' = Rearmed(jobs)
    /\ UNCHANGED boundVars

\* The write has failed: its caller gets an error before it can reschedule.
WriteFailed(w) ==
    /\ snapshot[w] # {}
    /\ faults + crashes < MaxTroubles
    /\ faults' = faults + 1
    /\ UNCHANGED crashes

Discard(w) ==
    /\ snapshot' = [snapshot EXCEPT ![w] = {}]
    /\ UNCHANGED <<disk, timer>>

\* Memory is gone.
Die ==
    /\ server' = "down"
    /\ jobs' = <<>>
    /\ timer' = Never
    /\ check' = [k \in Checks |-> IdleCheck]
    /\ user' = [u \in Users |-> IdleUser]
    /\ writes' = <<>>
    /\ snapshot' = [w \in Writers |-> {}]

(***************************************************************************)
(* create(), delete() and the deletion of a session.                       *)
(***************************************************************************)
Caller(u) == <<"user", u>>

OfSession(s) == Filtered(jobs, {i \in DOMAIN jobs : jobs[i].session = s})
NotOfSession(s) == Filtered(jobs, {i \in DOMAIN jobs : jobs[i].session # s})
Without(id) == Filtered(jobs, {i \in DOMAIN jobs : jobs[i].id # id})

Tell(ids, fate) == told' = [j \in JobIds |-> IF j \in ids THEN fate ELSE told[j]]

Begin(u, pc, ids, sessions) ==
    /\ server = "up"
    /\ user[u] = IdleUser
    /\ user' = [user EXCEPT ![u] = [pc |-> pc, ids |-> ids, sessions |-> sessions]]
    /\ UNCHANGED <<now, timer, check, snapshot, disk, server, alive, delivered,
                   overlapped, boundVars>>

Unused == {id \in JobIds : told[id] = "unused"}

Create(u, id, s, times, recurring) ==
    /\ Unused # {}
    /\ id = CHOOSE i \in Unused : TRUE
    /\ Begin(u, "create", {id}, {})
    /\ s \in alive
    /\ Len(OfSession(s)) < JobLimit
    /\ NextFire(times, now) # Never
    /\ jobs' = Append(jobs, [id |-> id, session |-> s, times |-> times,
                             recurring |-> recurring, created |-> now, fired |-> Never])
    /\ Tell({id}, "pending")
    /\ Persist(Caller(u))

Delete(u, id) ==
    /\ Begin(u, "delete", {id}, {})
    /\ id \in Ids(jobs)
    /\ jobs' = Without(id)
    /\ Tell({id}, "deleting")
    /\ Persist(Caller(u))

\* The jobs go first, the session itself after them.
DeleteSession(u, s) ==
    LET ids == Ids(OfSession(s))
    IN  /\ Begin(u, IF ids = {} THEN "drop" ELSE "purge", ids, {s})
        /\ s \in alive
        /\ jobs' = NotOfSession(s)
        /\ Tell(ids, "deleting")
        /\ IF ids = {} THEN UNCHANGED writes ELSE Persist(Caller(u))

DropSession(u) ==
    /\ user[u].pc = "drop"
    /\ alive' = alive \ user[u].sessions
    /\ user' = [user EXCEPT ![u] = IdleUser]
    /\ UNCHANGED <<now, jobs, timer, check, writes, snapshot, disk, server,
                   seenVars, boundVars>>

\* The session route goes on whether its write took effect or not.
Answered(u) ==
    /\ user[u].pc \in {"create", "delete", "purge"}
    /\ user' = [user EXCEPT ![u] = IF user[u].pc = "purge" THEN [@ EXCEPT !.pc = "drop"]
                                   ELSE IdleUser]
    /\ Leave(Caller(u))
    /\ UNCHANGED <<now, jobs, check, server, alive, delivered, overlapped>>

\* A job may be gone again by the time its creation is answered.
TellDone(u) ==
    IF user[u].pc = "create" THEN Tell(user[u].ids \cap Ids(jobs), "created")
    ELSE Tell(user[u].ids, "deleted")

UserWritten(u) ==
    /\ Answered(u)
    /\ Written(Caller(u))
    /\ TellDone(u)

\* The caller gets an error; the jobs in memory stay as they are.
UserFailed(u) ==
    /\ Answered(u)
    /\ WriteFailed(Caller(u)) /\ Discard(Caller(u))
    /\ Tell(user[u].ids, "failed")

(***************************************************************************)
(* check(): by the timer, or by load() before the server listens.          *)
(***************************************************************************)
Checker(k) == <<"check", k>>
Checking(k) == check[k] # IdleCheck

\* The due jobs of js, or the new timer when there are none.
Start(k, js, boot) ==
    \/ /\ DueOf(js) = <<>>
       /\ timer' = Rearmed(js)
       /\ server' = IF boot THEN "up" ELSE server
       /\ UNCHANGED check
    \/ /\ DueOf(js) # <<>>
       /\ timer' = Never
       /\ server' = IF boot THEN "booting" ELSE server
       /\ check' = [check EXCEPT ![k] = [pc |-> "fire", at |-> now, due |-> DueOf(js),
                                         boot |-> boot]]

\* Nothing asks whether another check() is under way.
BeginCheck(k) ==
    /\ server # "down"
    /\ timer <= now
    /\ ~Checking(k)
    /\ k = CHOOSE l \in Checks : ~Checking(l)
    /\ overlapped' = (overlapped \/ \E l \in Checks : Checking(l))
    /\ Start(k, jobs, FALSE)
    /\ UNCHANGED <<now, jobs, user, writes, snapshot, disk, alive, told, delivered,
                   boundVars>>

Boot(k) ==
    /\ server = "down"
    /\ k = CHOOSE l \in Checks : TRUE
    /\ jobs' = disk
    /\ Start(k, disk, TRUE)
    /\ UNCHANGED <<now, user, writes, snapshot, disk, alive, seenVars, boundVars>>

Current(k) == Head(check[k].due)

\* The handler has returned or thrown: a one-shot or a stale job is removed, a
\* recurring one is marked, and the next one's turn comes, or the final write's.
Settle(k, js) ==
    LET d == Current(k)
        over == d.stale \/ ~d.job.recurring
        rest == Tail(check[k].due)
    IN  /\ jobs' = IF over THEN Filtered(js, {i \in DOMAIN js : js[i].id # d.job.id})
                   ELSE [i \in DOMAIN js |-> IF js[i].id = d.job.id
                                             THEN [js[i] EXCEPT !.fired = check[k].at]
                                             ELSE js[i]]
        /\ check' = [check EXCEPT ![k].due = rest,
                                  ![k].pc = IF rest = <<>> THEN "write" ELSE "fire"]
        /\ told' = [j \in JobIds |->
                      IF j \in Ids(js) \ Ids(jobs') /\ told[j] \in {"pending", "created"}
                      THEN "ended" ELSE told[j]]

\* After the last one the final persist() joins the chain q.
Close(k, q) == writes' = IF Len(check[k].due) = 1 THEN Append(q, Checker(k)) ELSE q

\* The handler looks the session up.  If it is gone, so are its jobs.
Fire(k) ==
    LET s == Current(k).job.session
    IN  /\ check[k].pc = "fire"
        /\ \/ /\ s \in alive
              /\ check' = [check EXCEPT ![k].pc = "deliver"]
              /\ UNCHANGED <<jobs, writes, told>>
           \/ /\ s \notin alive
              /\ OfSession(s) # <<>>
              /\ jobs' = NotOfSession(s)
              /\ check' = [check EXCEPT ![k].pc = "purge"]
              /\ Persist(Checker(k))
              /\ told' = [j \in JobIds |-> IF j \in Ids(OfSession(s)) THEN "ended" ELSE told[j]]
           \/ /\ s \notin alive
              /\ OfSession(s) = <<>>
              /\ Settle(k, jobs)
              /\ Close(k, writes)
        /\ UNCHANGED <<now, timer, user, snapshot, disk, server, alive, delivered,
                       overlapped, boundVars>>

\* deleteForSession() is back in the handler.
Purged(k) ==
    /\ check[k].pc = "purge"
    /\ \/ Written(Checker(k))
       \/ WriteFailed(Checker(k)) /\ Discard(Checker(k))
    /\ Settle(k, jobs)
    /\ Close(k, Left(Checker(k)))
    /\ UNCHANGED <<now, user, server, alive, delivered, overlapped>>

\* Mutant of Deliver: a prompt that is refused is tried again.
DeliverUntilTaken(k) ==
    /\ check[k].pc = "deliver"
    /\ \/ /\ delivered' = [delivered EXCEPT ![Current(k).job.id][Current(k).point] = @ + 1]
          /\ Settle(k, jobs)
          /\ Close(k, writes)
       \/ /\ check' = [check EXCEPT ![k].pc = "fire"]
          /\ UNCHANGED <<jobs, writes, told, delivered>>
    /\ UNCHANGED <<now, timer, user, snapshot, disk, server, alive, overlapped, boundVars>>

\* fireCronFollowUp() queues the prompt, or refuses it: the queue is full, the
\* prompt too long.  Then this firing is dropped.
Deliver(k) ==
    /\ check[k].pc = "deliver"
    /\ \/ delivered' = [delivered EXCEPT ![Current(k).job.id][Current(k).point] = @ + 1]
       \/ UNCHANGED delivered
    /\ Settle(k, jobs)
    /\ Close(k, writes)
    /\ UNCHANGED <<now, timer, user, snapshot, disk, server, alive, overlapped, boundVars>>

\* The final write.  A failure is logged; at boot it ends the process.
CheckWritten(k) ==
    /\ check[k].pc = "write"
    /\ Written(Checker(k))
    /\ Leave(Checker(k))
    /\ check' = [check EXCEPT ![k] = IdleCheck]
    /\ server' = IF check[k].boot THEN "up" ELSE server
    /\ UNCHANGED <<now, jobs, user, alive, seenVars>>

CheckFailed(k) ==
    /\ check[k].pc = "write"
    /\ WriteFailed(Checker(k))
    /\ \/ /\ check[k].boot
          /\ Die
       \/ /\ ~check[k].boot
          /\ Leave(Checker(k))
          /\ check' = [check EXCEPT ![k] = IdleCheck]
          /\ Discard(Checker(k))
          /\ UNCHANGED <<jobs, user, server>>
    /\ UNCHANGED <<now, disk, alive, seenVars>>

(***************************************************************************)
(* The clock and the process.                                              *)
(***************************************************************************)
Tick ==
    /\ now < Horizon
    /\ now' = now + 1
    /\ UNCHANGED <<jobs, timer, check, user, writes, snapshot, disk, server, alive,
                   seenVars, boundVars>>

\* A write that has begun may still have replaced the file.
Crash ==
    /\ server # "down"
    /\ faults + crashes < MaxTroubles
    /\ crashes' = crashes + 1
    /\ Die
    /\ disk' \in {disk} \cup UNION {snapshot[w] : w \in Writers}
    /\ UNCHANGED <<now, alive, seenVars, faults>>

Progress ==
    \/ \E w \in Writers : BeginWrite(w)
    \/ \E u \in Users : DropSession(u) \/ UserWritten(u) \/ UserFailed(u)
    \/ \E k \in Checks :
         BeginCheck(k) \/ Fire(k) \/ Purged(k) \/ Deliver(k) \/ CheckWritten(k) \/ CheckFailed(k)

Next ==
    \/ Progress
    \/ \E u \in Users, id \in JobIds, s \in Sessions, plan \in Schedules :
         Create(u, id, s, plan.times, plan.recurring)
    \/ \E u \in Users, id \in JobIds : Delete(u, id)
    \/ \E u \in Users, s \in Sessions : DeleteSession(u, s)
    \/ Tick
    \/ Crash
    \/ \E k \in Checks : Boot(k)

Spec == Init /\ [][Next]_vars

\* Awaits are answered, and a timer that has gone off is served.
FairSpec == Spec /\ WF_vars(Progress)

(***************************************************************************)
(* Properties.                                                             *)
(***************************************************************************)

\* No firing reaches its session twice, unless two checks overlapped or the
\* server crashed between a firing and its write: check() moves every job past
\* the point it has fired before the point can be due again.
OncePerPoint ==
    ~overlapped /\ crashes = 0 => \A j \in JobIds, t \in Times : delivered[j][t] <= 1

\* A one-shot job is fired once: "one-shot 触发一次后删除", "多次错过只补一次".  (Does
\* not hold: a job created or deleted while check() awaits its handler sets the timer
\* to now, and a second check fires the same job again.)
OneShotOnce ==
    crashes = 0 => \A j \in JobIds, t \in Times : delivered[j][t] <= 1

Quiet == server = "up" /\ writes = <<>> /\ \A k \in Checks : ~Checking(k)

\* Once every call is done the timer goes off no later than the first action
\* of any job: no reschedule() of one call undoes that of another.
TimerCoversJobs ==
    TypeOK /\ (Quiet /\ faults = 0 =>
        \A i \in DOMAIN jobs :
            timer <= IF IsDue(jobs[i]) THEN now ELSE Max({now, NextAction(jobs[i])}))

\* A job whose creation was answered is in cron.json until it is deleted or over,
\* whatever was written meanwhile and whatever crashes; and one whose deletion was
\* answered does not come back, neither in memory nor from cron.json after a restart.
DiskAgrees ==
    \A j \in JobIds :
        /\ told[j] = "created" => j \in Ids(disk)
        /\ told[j] = "deleted" => j \notin Ids(jobs) \cup Ids(disk)

HasDue(j) == \E i \in DOMAIN jobs : jobs[i].id = j /\ IsDue(jobs[i])

\* A due job is fired, unless a write fails (which leaves no timer) or the
\* process goes down.
DueIsServed ==
    \A j \in JobIds : HasDue(j) ~> ~HasDue(j) \/ faults > 0 \/ server = "down"
=============================================================================
