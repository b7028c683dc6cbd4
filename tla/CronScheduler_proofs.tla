------------------------ MODULE CronScheduler_proofs ------------------------
(***************************************************************************)
(* The scheduler's three safety properties, proved for any number of jobs, *)
(* users and checks, any horizon and any schedules.                        *)
(*                                                                         *)
(* FileInv relates memory, cron.json and what is being written to it to    *)
(* what was answered; it is inductive, and DiskAgrees and the type         *)
(* invariant follow.  On it rest TimerInv (every reschedule() looks at     *)
(* every job, and time that passes undoes none) and PointsInv (what a      *)
(* check still has to fire lies ahead of all its job has delivered).       *)
(*                                                                         *)
(* The first lemmas are about the operators the model is built from: the   *)
(* earliest of some times, a filtered list, the next action of a job, what *)
(* check() lists.                                                          *)
(***************************************************************************)
EXTENDS CronScheduler, FiniteSetTheorems, SequenceTheorems, WellFoundedInduction, TLAPS

\* The lists of jobs there are: in memory, in cron.json, and those that are being written.
Lists == {jobs, disk} \cup UNION {snapshot[w] : w \in Writers}

\* A list the scheduler keeps: a one-shot job was never marked as fired, a recurring one
\* not after its expiry, and no id belongs to a job that is still to be created.
Sound(js) ==
    /\ Distinct(js)
    /\ \A i \in DOMAIN js :
         /\ told[js[i].id] # "unused"
         /\ ~js[i].recurring => js[i].fired = Never
         /\ js[i].fired # Never => js[i].fired < Expiry(js[i])

\* A process that is down has no memory.
DownIsEmpty ==
    server = "down" =>
        /\ jobs = <<>> /\ writes = <<>>
        /\ check = [k \in Checks |-> IdleCheck]
        /\ user = [u \in Users |-> IdleUser]
        /\ snapshot = [w \in Writers |-> {}]

\* Only the first of the chain is writing.
OneWriter == \A w \in Writers : snapshot[w] # {} => writes # <<>> /\ Head(writes) = w

\* In the chain are calls of users that wait for their write, and nobody else writes for them.
OnlyWaiting ==
    \A u \in Users : user[u].pc \notin {"create", "delete", "purge"} =>
        snapshot[Caller(u)] = {} /\ \A i \in DOMAIN writes : writes[i] # Caller(u)

\* What a call that waits for its write holds: whatever it created and is still in memory is
\* in what it writes, and what it deleted is in neither.
CallersHold ==
    \A u \in Users :
        /\ \A j \in user[u].ids : told[j] # "unused"
        /\ user[u].pc = "create" =>
             \A js \in snapshot[Caller(u)] : user[u].ids \cap Ids(jobs) \subseteq Ids(js)
        /\ user[u].pc \in {"delete", "purge"} =>
             /\ user[u].ids \cap Ids(jobs) = {}
             /\ \A js \in snapshot[Caller(u)] : user[u].ids \cap Ids(js) = {}

\* What was answered is so in memory, in the file and in what is being written to it.
AnswersHold ==
    \A j \in JobIds :
        /\ told[j] = "created" =>
             /\ j \in Ids(disk)
             /\ server # "down" => j \in Ids(jobs)
             /\ \A w \in Writers : \A js \in snapshot[w] : j \in Ids(js)
        /\ told[j] = "deleted" => \A js \in Lists : j \notin Ids(js)

\* The due jobs of a check are copies of jobs that were in memory when it began.
DueIsCopied ==
    \A k \in Checks : \A i \in DOMAIN check[k].due :
        LET d == check[k].due[i]
        IN  /\ told[d.job.id] # "unused"
            /\ ~d.stale /\ d.job.recurring => check[k].at < Expiry(d.job)
            /\ \A n \in DOMAIN jobs : jobs[n].id = d.job.id =>
                 jobs[n].recurring = d.job.recurring /\ jobs[n].created = d.job.created

\* What makes the file agree with the answers.
FileInv ==
    /\ TypeOK
    /\ DownIsEmpty
    /\ OneWriter
    /\ OnlyWaiting
    /\ \A js \in Lists : Sound(js)
    /\ CallersHold
    /\ AnswersHold
    /\ DueIsCopied

Covered(job) == timer <= IF IsDue(job) THEN now ELSE Max({now, NextAction(job)})

\* The points of a job that reached its session lie behind the one it was last marked with.
Past(job) == \A t \in Times : delivered[job.id][t] > 0 => t <= Reference(job)

\* One check at a time, none of it from a start of the process; what it still has to fire lies
\* ahead of everything its job has delivered.
Ahead ==
    /\ server = "up"
    /\ \A k, l \in Checks : Checking(k) /\ Checking(l) => k = l
    /\ \A j \in JobIds, t \in Times : delivered[j][t] <= 1
    /\ \A i \in DOMAIN jobs : Past(jobs[i])
    /\ \A k \in Checks :
         /\ ~check[k].boot
         /\ \A i \in DOMAIN check[k].due :
              LET d == check[k].due[i]
              IN  Past(d.job) /\ Reference(d.job) < d.point /\ d.point <= check[k].at
         /\ \A i, j \in DOMAIN check[k].due :
              check[k].due[i].job.id = check[k].due[j].job.id => i = j

\* What makes every point reach its session once, while no two checks overlapped and no crash
\* lost a mark.
PointsInv ==
    /\ \A j \in JobIds : told[j] = "unused" => \A t \in Times : delivered[j][t] = 0
    /\ ~overlapped /\ crashes = 0 => Ahead

\* What makes the timer cover the jobs.
TimerInv == Quiet /\ faults = 0 => \A i \in DOMAIN jobs : Covered(jobs[i])

\* A set of numbers has a least one: the intervals up to its elements are well-founded.
LEMMA Least ==
  ASSUME NEW T, T # {}, T \subseteq Nat
  PROVE  \E x \in T : \A y \in T : x <= y
  <1> DEFINE F == {0..n : n \in T}
  <1>1. IsWellFoundedOn(StrictSubsetOrdering(Nat), FiniteSubsetsOf(Nat))
    BY FS_StrictSubsetOrderingWellFounded
  <1>2. F \subseteq FiniteSubsetsOf(Nat)
    <2>1. \A n \in T : IsFiniteSet(0..n)
      BY FS_Interval
    <2> QED
      BY <2>1 DEF FiniteSubsetsOf
  <1>3. F # {}
    OBVIOUS
  <1>4. PICK x \in F : \A y \in F : <<y, x>> \notin StrictSubsetOrdering(Nat)
    <2> HIDE DEF F
    <2> QED
      BY <1>1, <1>2, <1>3, WFMin
  <1>5. PICK n \in T : x = 0..n
    OBVIOUS
  <1>6. ASSUME NEW m \in T, m < n
        PROVE  FALSE
    <2>1. 0..m \in F
      OBVIOUS
    <2>2. 0..m \subseteq Nat /\ x \subseteq Nat /\ 0..m \subseteq x /\ 0..m # x
      BY <1>5, <1>6
    <2>3. <<0..m, x>> \in StrictSubsetOrdering(Nat)
      BY <2>2 DEF StrictSubsetOrdering
    <2> QED
      BY <1>4, <2>1, <2>3
  <1> QED
    BY <1>5, <1>6

\* The number of elements up to one of them tells the elements apart and counts from one.
LEMMA NthIs ==
  ASSUME NEW N \in Nat, NEW P \in SUBSET (1..N)
  PROVE  /\ IsFiniteSet(P) /\ Cardinality(P) \in Nat
         /\ \A n \in 1..Cardinality(P) : Nth(P, n) \in P
         /\ \A i \in P : \E n \in 1..Cardinality(P) : Nth(P, n) = i
         /\ \A m, n \in 1..Cardinality(P) : Nth(P, m) = Nth(P, n) => m = n
  <1> DEFINE U(i) == {k \in P : k <= i}
             rank == [i \in P |-> Cardinality(U(i))]
  <1>0. P \subseteq Nat
    OBVIOUS
  <1>1. IsFiniteSet(P) /\ Cardinality(P) \in Nat
    <2>1. IsFiniteSet(1..N)
      BY FS_Interval
    <2>2. IsFiniteSet(P)
      BY <2>1, FS_Subset
    <2> QED
      BY <2>2, FS_CardinalityType
  <1>2. \A i \in P : U(i) \in SUBSET P /\ i \in U(i) /\ IsFiniteSet(U(i))
    BY <1>1, FS_Subset
  <1>3. \A i \in P : Cardinality(U(i)) \in 1..Cardinality(P)
    <2> TAKE i \in P
    <2>1. Cardinality(U(i)) \in Nat /\ Cardinality(U(i)) <= Cardinality(P)
      BY <1>1, <1>2, FS_Subset, FS_CardinalityType
    <2>2. Cardinality(U(i)) # 0
      BY <1>2, FS_EmptySet
    <2> QED
      BY <1>1, <2>1, <2>2
  <1>4. ASSUME NEW i \in P, NEW j \in P, Cardinality(U(i)) = Cardinality(U(j))
        PROVE  i = j
    <2>1. CASE i <= j
      <3>0. \A k \in P : k <= i => k <= j
        BY <2>1
      <3>1. U(i) \in SUBSET U(j)
        BY <3>0
      <3>2. U(i) = U(j)
        BY <1>2, <1>4, <3>1, FS_Subset
      <3> QED
        BY <1>0, <1>2, <2>1, <3>2
    <2>2. CASE j <= i
      <3>0. \A k \in P : k <= j => k <= i
        BY <2>2
      <3>1. U(j) \in SUBSET U(i)
        BY <3>0
      <3>2. U(i) = U(j)
        BY <1>2, <1>4, <3>1, FS_Subset
      <3> QED
        BY <1>0, <1>2, <2>2, <3>2
    <2> QED
      BY <2>1, <2>2
  <1>5. IsFiniteSet(1..Cardinality(P)) /\ Cardinality(1..Cardinality(P)) = Cardinality(P)
    BY <1>1, FS_Interval
  <1>6. rank \in Injection(P, 1..Cardinality(P))
    <2> HIDE DEF U
    <2> QED
      BY <1>3, <1>4 DEF Injection, IsInjective
  <1>7. rank \in Surjection(P, 1..Cardinality(P))
    BY <1>5, <1>6, FS_Injection
  <1>8. \A n \in 1..Cardinality(P) : \E i \in P : Cardinality(U(i)) = n
    <2> HIDE DEF U
    <2> QED
      BY <1>7 DEF Surjection
  <1>9. \A n \in 1..Cardinality(P) : Nth(P, n) \in P /\ Cardinality(U(Nth(P, n))) = n
    BY <1>8 DEF Nth
  <1> HIDE DEF U, rank
  <1> QED
    BY <1>1, <1>3, <1>4, <1>9

\* filter() keeps what it is told to keep, once each.
LEMMA FilteredIs ==
  ASSUME NEW S, NEW s \in Seq(S), NEW P \in SUBSET DOMAIN s
  PROVE  /\ Filtered(s, P) \in Seq(S)
         /\ \A n \in DOMAIN Filtered(s, P) : Nth(P, n) \in P /\ Filtered(s, P)[n] = s[Nth(P, n)]
         /\ \A i \in P : \E n \in DOMAIN Filtered(s, P) : Nth(P, n) = i
         /\ \A m, n \in DOMAIN Filtered(s, P) : Nth(P, m) = Nth(P, n) => m = n
  <1>1. Len(s) \in Nat /\ DOMAIN s = 1..Len(s)
    BY LenProperties
  <1>2. P \in SUBSET (1..Len(s))
    BY <1>1
  <1> DEFINE N == Cardinality(P)
  <1>3. /\ N \in Nat
        /\ \A n \in 1..N : Nth(P, n) \in P
        /\ \A i \in P : \E n \in 1..N : Nth(P, n) = i
        /\ \A m, n \in 1..N : Nth(P, m) = Nth(P, n) => m = n
    BY <1>1, <1>2, NthIs
  <1>4. Filtered(s, P) = [n \in 1..N |-> s[Nth(P, n)]]
    BY DEF Filtered
  <1> HIDE DEF N
  <1>5. \A n \in 1..N : s[Nth(P, n)] \in S
    BY <1>1, <1>3, ElementOfSeq
  <1>6. [n \in 1..N |-> s[Nth(P, n)]] \in Seq(S)
    BY <1>3, <1>5, IsASeq
  <1> QED
    BY <1>3, <1>4, <1>6

\* The same for a list of jobs.
LEMMA JobsFiltered ==
  ASSUME NEW js \in Seq(Job), NEW P \in SUBSET DOMAIN js
  PROVE  /\ Filtered(js, P) \in Seq(Job)
         /\ \A n \in DOMAIN Filtered(js, P) : \E i \in P : Filtered(js, P)[n] = js[i]
         /\ \A i \in P : \E n \in DOMAIN Filtered(js, P) : Filtered(js, P)[n] = js[i]
         /\ Ids(Filtered(js, P)) = {js[i].id : i \in P}
         /\ Distinct(js) => Distinct(Filtered(js, P))
  <1> DEFINE t == Filtered(js, P)
  <1>1. /\ t \in Seq(Job)
        /\ \A n \in DOMAIN t : Nth(P, n) \in P /\ t[n] = js[Nth(P, n)]
        /\ \A i \in P : \E n \in DOMAIN t : Nth(P, n) = i
        /\ \A m, n \in DOMAIN t : Nth(P, m) = Nth(P, n) => m = n
    BY FilteredIs
  <1> HIDE DEF t
  <1>2. /\ \A n \in DOMAIN t : \E i \in P : t[n] = js[i]
        /\ \A i \in P : \E n \in DOMAIN t : t[n] = js[i]
    BY <1>1
  <1>3. Ids(t) = {js[i].id : i \in P}
    BY <1>2 DEF Ids
  <1>4. Distinct(js) => Distinct(t)
    BY <1>1 DEF Distinct
  <1> QED
    BY <1>1, <1>2, <1>3, <1>4 DEF t

\* The first and the last of a set of times.
LEMMA MinIs ==
  ASSUME NEW T, T # {}, T \subseteq Nat
  PROVE  Min(T) \in T /\ \A y \in T : Min(T) <= y
  <1>1. \E x \in T : \A y \in T : x <= y
    BY Least
  <1> QED
    BY <1>1 DEF Min

LEMMA EarlierOf ==
  ASSUME NEW a \in Nat, NEW b \in Nat
  PROVE  Min({a, b}) \in {a, b} /\ Min({a, b}) <= a /\ Min({a, b}) <= b
  BY MinIs

LEMMA LaterOf ==
  ASSUME NEW a \in Nat, NEW b \in Nat
  PROVE  Max({a, b}) \in {a, b} /\ a <= Max({a, b}) /\ b <= Max({a, b})
  <1>1. \E x \in {a, b} : \A y \in {a, b} : x >= y
    OBVIOUS
  <1> QED
    BY <1>1 DEF Max
\* Times are numbers, and the end of all times lies behind every one that is meant.
LEMMA TimesAre ==
  /\ Horizon \in Nat /\ TTL \in Nat /\ TTL > 0 /\ MaxDelay \in Nat /\ MaxDelay > 0
  /\ Never \in Nat /\ Never = Horizon + TTL + 1
  /\ 0..Horizon \subseteq Times /\ Times \subseteq Nat /\ Never \in Times /\ Never \notin 0..Horizon
  BY TimeAssumption DEF Never, Times

\* The fields of a job.
LEMMA JobIs ==
  ASSUME NEW job \in Job
  PROVE  /\ job.id \in JobIds /\ job.recurring \in BOOLEAN
         /\ job.created \in 0..Horizon /\ job.fired \in 0..Horizon \cup {Never}
         /\ job.times \subseteq 0..Horizon
         /\ Expiry(job) \in Nat /\ Expiry(job) < Never /\ job.created < Expiry(job)
         /\ Reference(job) \in 0..Horizon
  <1>1. \A plan \in Schedules : plan.times \subseteq 0..Horizon
    BY TimeAssumption
  <1>2. /\ job.id \in JobIds /\ job.recurring \in BOOLEAN
        /\ job.created \in 0..Horizon /\ job.fired \in 0..Horizon \cup {Never}
        /\ job.times \in {plan.times : plan \in Schedules}
    BY DEF Job
  <1>3. job.times \subseteq 0..Horizon
    BY <1>1, <1>2
  <1>4. Expiry(job) \in Nat /\ Expiry(job) < Never /\ job.created < Expiry(job)
    BY <1>2, TimesAre DEF Expiry
  <1>5. Reference(job) \in 0..Horizon
    BY <1>2 DEF Reference
  <1> QED
    BY <1>2, <1>3, <1>4, <1>5

\* A job that was marked is a job, and differs in the mark only.
LEMMA MarkedIs ==
  ASSUME NEW job \in Job, NEW t \in 0..Horizon
  PROVE  LET m == [job EXCEPT !.fired = t]
         IN  /\ m \in Job /\ m.id = job.id /\ m.recurring = job.recurring
             /\ m.created = job.created /\ m.times = job.times /\ m.fired = t
             /\ m.session = job.session
  BY DEF Job

\* The earliest of some times.
LEMMA EarliestIs ==
  ASSUME NEW S, S \subseteq Nat
  PROVE  /\ Earliest(S) \in S \cup {Never} /\ Earliest(S) <= Never
         /\ \A t \in S : Earliest(S) <= t
  <1>1. S \cup {Never} \subseteq Nat /\ S \cup {Never} # {}
    BY TimesAre
  <1> QED
    BY <1>1, MinIs DEF Earliest

\* The next firing lies ahead.
LEMMA NextFireIs ==
  ASSUME NEW job \in Job, NEW after \in Nat
  PROVE  /\ NextFire(job.times, after) \in Times
         /\ NextFire(job.times, after) # Never => after < NextFire(job.times, after)
  <1> DEFINE S == {t \in job.times : t > after}
  <1>1. S \subseteq 0..Horizon /\ S \subseteq Nat
    BY JobIs, TimesAre
  <1>2. \A t \in S : after < t
    BY JobIs, TimesAre
  <1>3. NextFire(job.times, after) = Earliest(S)
    BY DEF NextFire
  <1> HIDE DEF S
  <1>4. Earliest(S) \in S \cup {Never}
    BY <1>1, EarliestIs
  <1> QED
    BY <1>1, <1>2, <1>3, <1>4, TimesAre

\* The time now is one.
LEMMA NowIs ==
  ASSUME TypeOK
  PROVE  now \in Nat /\ now <= Horizon /\ now \in 0..Horizon /\ now < Never /\ timer \in Nat
  BY TimesAre DEF TypeOK

\* The next action of a job.
LEMMA NextActionIs ==
  ASSUME TypeOK, NEW job \in Job, ~job.recurring => job.fired = Never
  PROVE  /\ NextAction(job) \in Nat /\ NextAction(job) <= Never
         /\ IsDue(job) => NextAction(job) <= now
         /\ ~job.recurring => NextAction(job) = NextFire(job.times, Reference(job))
         /\ job.recurring /\ now < Expiry(job) =>
              /\ NextAction(job) <= NextFire(job.times, Reference(job))
              /\ NextAction(job) <= Expiry(job)
              /\ NextAction(job) = Earliest({NextFire(job.times, Reference(job)), Expiry(job)})
         /\ ~IsDue(job) => NextAction(job) > now
  <1> DEFINE f == NextFire(job.times, Reference(job))
             e == Expiry(job)
  <1>1. f \in Nat /\ f <= Never /\ e \in Nat /\ e < Never
    BY JobIs, NextFireIs, TimesAre DEF Times
  <1>2. now \in Nat /\ now < Never
    BY NowIs
  <1>3. ~job.recurring => Reference(job) = job.created
    BY DEF Reference
  <1> HIDE DEF f, e
  <1>4. /\ Earliest({f, e}) \in {f, e, Never} /\ Earliest({f, e}) <= f /\ Earliest({f, e}) <= e
    BY <1>1, EarliestIs
  <1>5. NextAction(job) = IF ~job.recurring THEN f ELSE IF now >= e THEN now ELSE Earliest({f, e})
    BY <1>3 DEF NextAction, f, e
  <1>6. IsDue(job) <=> (job.recurring /\ now >= e) \/ f <= now
    BY DEF IsDue, IsStale, f, e
  <1>7. Earliest({f, e}) \in Nat /\ Earliest({f, e}) <= Never
    BY <1>1, <1>4, TimesAre
  <1>8. /\ ~job.recurring => NextAction(job) = f
        /\ job.recurring /\ now < e => NextAction(job) = Earliest({f, e})
        /\ job.recurring /\ now >= e => NextAction(job) = now
    BY <1>1, <1>2, <1>5
  <1>9. NextAction(job) \in Nat /\ NextAction(job) <= Never
    BY <1>1, <1>2, <1>7, <1>8, TimesAre
  <1>10. IsDue(job) => NextAction(job) <= now
    BY <1>1, <1>2, <1>4, <1>6, <1>7, <1>8
  <1>11. ~IsDue(job) => NextAction(job) > now
    BY <1>1, <1>2, <1>4, <1>6, <1>7, <1>8
  <1> QED
    BY <1>1, <1>2, <1>4, <1>8, <1>9, <1>10, <1>11 DEF f, e

\* reschedule() looks at every job.
LEMMA RearmedIs ==
  ASSUME TypeOK, NEW js \in Seq(Job),
         \A i \in DOMAIN js : ~js[i].recurring => js[i].fired = Never
  PROVE  /\ Rearmed(js) \in Times
         /\ \A i \in DOMAIN js :
              Rearmed(js) <= IF IsDue(js[i]) THEN now ELSE Max({now, NextAction(js[i])})
  <1> DEFINE A == {NextAction(js[i]) : i \in DOMAIN js}
             nearest == Earliest(A)
  <1>1. \A i \in DOMAIN js : js[i] \in Job
    BY ElementOfSeq, LenProperties
  <1>2. \A i \in DOMAIN js : /\ NextAction(js[i]) \in Nat /\ NextAction(js[i]) <= Never
                             /\ IsDue(js[i]) => NextAction(js[i]) <= now
    BY <1>1, NextActionIs
  <1>3. A \subseteq Nat
    BY <1>2
  <1>4. nearest \in A \cup {Never} /\ nearest <= Never /\ \A t \in A : nearest <= t
    BY <1>3, EarliestIs
  <1>5. \A i \in DOMAIN js : nearest <= NextAction(js[i])
    BY <1>4
  <1>6. nearest \in Nat
    BY <1>3, <1>4, TimesAre
  <1>7. Rearmed(js) = IF nearest = Never THEN Never
                      ELSE now + Min({Max({nearest, now}) - now, MaxDelay})
    BY DEF Rearmed
  <1> HIDE DEF A, nearest
  <1>8. now \in Nat /\ now < Never
    BY NowIs
  <1>9. CASE nearest = Never
    <2>1. \A i \in DOMAIN js : NextAction(js[i]) = Never
      BY <1>2, <1>5, <1>9, TimesAre
    <2>2. \A i \in DOMAIN js : ~IsDue(js[i])
      BY <1>2, <1>8, <2>1, TimesAre
    <2>3. Never <= Max({now, Never})
      BY <1>8, LaterOf, TimesAre
    <2> QED
      BY <1>7, <1>9, <2>1, <2>2, <2>3, TimesAre
  <1>10. CASE nearest # Never
    <2>1. nearest < Never
      BY <1>4, <1>6, <1>10, TimesAre
    <2> DEFINE m == Max({nearest, now})
    <2>2. m \in Nat /\ m >= now /\ m >= nearest /\ m < Never /\ (m = now \/ m = nearest)
      BY <1>6, <1>8, <2>1, LaterOf
    <2> HIDE DEF m
    <2>3. m - now \in Nat
      BY <1>8, <2>2
    <2> DEFINE d == Min({m - now, MaxDelay})
    <2>4. d \in Nat /\ d <= m - now
      BY <2>3, EarlierOf, TimesAre
    <2>5. Rearmed(js) = now + d
      BY <1>7, <1>10 DEF m
    <2> HIDE DEF d
    <2>6. Rearmed(js) \in Nat /\ Rearmed(js) <= m
      BY <1>8, <2>2, <2>4, <2>5
    <2>7. Rearmed(js) \in Times
      BY <2>2, <2>6, TimesAre DEF Times
    <2>8. ASSUME NEW i \in DOMAIN js
          PROVE  Rearmed(js) <= IF IsDue(js[i]) THEN now ELSE Max({now, NextAction(js[i])})
      <3>1. nearest <= NextAction(js[i]) /\ NextAction(js[i]) \in Nat
        BY <1>2, <1>5
      <3>2. /\ Max({now, NextAction(js[i])}) \in Nat /\ Max({now, NextAction(js[i])}) >= now
            /\ Max({now, NextAction(js[i])}) >= NextAction(js[i])
        BY <1>8, <3>1, LaterOf
      <3>3. m <= Max({now, NextAction(js[i])})
        BY <1>6, <1>8, <2>2, <3>1, <3>2
      <3>4. IsDue(js[i]) => m = now
        BY <1>2, <1>6, <1>8, <2>2, <3>1
      <3>5. CASE IsDue(js[i])
        BY <2>6, <3>4, <3>5
      <3>6. CASE ~IsDue(js[i])
        BY <2>2, <2>6, <3>2, <3>3, <3>6
      <3> QED
        BY <3>5, <3>6
    <2> QED
      BY <2>7, <2>8
  <1> QED
    BY <1>9, <1>10

\* Time passes, and a timer that covers a job still does.
LEMMA CoveredLater ==
  ASSUME TypeOK, NEW job \in Job, ~job.recurring => job.fired = Never,
         now < Horizon, now' = now + 1, timer' = timer, Covered(job)
  PROVE  Covered(job)'
  <1> DEFINE f == NextFire(job.times, Reference(job))
             e == Expiry(job)
  <1>1. f \in Nat /\ f <= Never /\ e \in Nat /\ e < Never
    BY JobIs, NextFireIs, TimesAre DEF Times
  <1>2. now \in Nat /\ now + 1 < Never /\ timer \in Nat
    BY NowIs, TimesAre
  <1>3. ~job.recurring => Reference(job) = job.created
    BY DEF Reference
  <1>4. Earliest({f, e}) \in {f, e, Never} /\ Earliest({f, e}) <= f /\ Earliest({f, e}) <= e
    BY <1>1, EarliestIs
  <1> HIDE DEF f, e
  <1> DEFINE na(n) == IF ~job.recurring THEN f ELSE IF n >= e THEN n ELSE Earliest({f, e})
             due(n) == (job.recurring /\ n >= e) \/ f <= n
  <1>5. NextAction(job) = na(now) /\ NextAction(job)' = na(now + 1)
    BY <1>3 DEF NextAction, f, e, Reference, Expiry
  <1>6. (IsDue(job) <=> due(now)) /\ (IsDue(job)' <=> due(now + 1))
    BY DEF IsDue, IsStale, f, e, Reference, Expiry
  <1>7. na(now) \in Nat /\ na(now + 1) \in Nat
    BY <1>1, <1>2, <1>4, TimesAre
  <1>8. /\ Max({now, na(now)}) \in {now, na(now)}
        /\ now + 1 <= Max({now + 1, na(now + 1)}) /\ na(now + 1) <= Max({now + 1, na(now + 1)})
        /\ Max({now + 1, na(now + 1)}) \in Nat
    <2> HIDE DEF na
    <2>1. Max({now, na(now)}) \in {now, na(now)}
      BY <1>2, <1>7, LaterOf
    <2>2. now + 1 \in Nat
      BY <1>2
    <2>3. /\ Max({now + 1, na(now + 1)}) \in {now + 1, na(now + 1)}
          /\ now + 1 <= Max({now + 1, na(now + 1)}) /\ na(now + 1) <= Max({now + 1, na(now + 1)})
      BY <1>7, <2>2, LaterOf
    <2> QED
      BY <1>7, <2>1, <2>2, <2>3
  <1>9. due(now) => due(now + 1)
    BY <1>1, <1>2
  <1>10. ~due(now) /\ due(now + 1) => na(now) <= now + 1
    BY <1>1, <1>2, <1>4, TimesAre
  <1>11. ~due(now) /\ ~due(now + 1) => na(now + 1) = na(now)
    BY <1>1, <1>2
  <1>12. timer <= IF due(now) THEN now ELSE Max({now, na(now)})
    BY <1>5, <1>6 DEF Covered
  <1> HIDE DEF na, due
  <1>13. timer <= IF due(now + 1) THEN now + 1 ELSE Max({now + 1, na(now + 1)})
    <2>1. CASE due(now)
      BY <1>2, <1>9, <1>12, <2>1
    <2>2. CASE ~due(now) /\ due(now + 1)
      BY <1>2, <1>7, <1>8, <1>10, <1>12, <2>2
    <2>3. CASE ~due(now) /\ ~due(now + 1)
      BY <1>2, <1>7, <1>8, <1>11, <1>12, <2>3
    <2> QED
      BY <2>1, <2>2, <2>3
  <1> QED
    BY <1>5, <1>6, <1>13 DEF Covered

\* What check() lists: each due job once, with a point that lies ahead of its last mark and not
\* ahead of the present.
LEMMA DueOfIs ==
  ASSUME TypeOK, NEW js \in Seq(Job),
         \A i \in DOMAIN js : js[i].fired # Never => js[i].fired < Expiry(js[i])
  PROVE  /\ DueOf(js) \in Seq(Due)
         /\ \A i \in DOMAIN DueOf(js) :
              LET d == DueOf(js)[i]
              IN  /\ \E n \in DOMAIN js : d.job = js[n] /\ d.stale = IsStale(js[n])
                  /\ Reference(d.job) < d.point /\ d.point <= now
         /\ Distinct(js) => \A i, j \in DOMAIN DueOf(js) :
                              DueOf(js)[i].job.id = DueOf(js)[j].job.id => i = j
         /\ DueOf(js) = <<>> => \A n \in DOMAIN js : ~IsDue(js[n])
  <1> DEFINE P == {i \in DOMAIN js : IsDue(js[i])}
             due == Filtered(js, P)
             Entry(job) == [job |-> job, stale |-> IsStale(job),
                            point |-> IF IsStale(job) THEN Expiry(job)
                                      ELSE NextFire(job.times, Reference(job))]
  <1>1. /\ due \in Seq(Job)
        /\ \A n \in DOMAIN due : \E i \in P : due[n] = js[i]
        /\ \A i \in P : \E n \in DOMAIN due : due[n] = js[i]
        /\ Distinct(js) => Distinct(due)
    <2>1. P \in SUBSET DOMAIN js
      OBVIOUS
    <2> HIDE DEF P
    <2> QED
      BY <2>1, JobsFiltered
  <1>2. DueOf(js) = [i \in DOMAIN due |-> Entry(due[i])]
    BY DEF DueOf
  <1>3. \A i \in DOMAIN js : js[i] \in Job
    BY ElementOfSeq, LenProperties
  <1>4. \A n \in DOMAIN due : due[n] \in Job /\ IsDue(due[n]) /\ \E i \in DOMAIN js : due[n] = js[i]
    BY <1>1, <1>3
  <1> HIDE DEF due, P
  <1>5. ASSUME NEW job \in Job, IsDue(job), job.fired # Never => job.fired < Expiry(job)
        PROVE  /\ Entry(job) \in Due /\ Entry(job).job = job /\ Entry(job).stale = IsStale(job)
               /\ Reference(job) < Entry(job).point /\ Entry(job).point <= now
    <2> DEFINE f == NextFire(job.times, Reference(job))
               e == Expiry(job)
    <2>1. /\ f \in Times
          /\ f # Never => Reference(job) < f
          /\ e \in Nat /\ e < Never /\ job.created < e /\ Reference(job) \in Nat
      BY JobIs, NextFireIs, TimesAre
    <2>2. now \in Nat /\ now < Never
      BY NowIs
    <2>3. Reference(job) < e
      BY <1>5, <2>1 DEF Reference
    <2>4. IsStale(job) \in BOOLEAN /\ (IsStale(job) => e <= now)
      BY <2>1, <2>2, JobIs DEF IsStale
    <2>5. ~IsStale(job) => f <= now
      BY <1>5 DEF IsDue
    <2>6. e \in Times
      BY <2>1, TimesAre DEF Times
    <2> HIDE DEF f, e
    <2>7. Entry(job) = [job |-> job, stale |-> IsStale(job), point |-> IF IsStale(job) THEN e ELSE f]
      BY DEF f, e
    <2>8. Entry(job).point = IF IsStale(job) THEN e ELSE f
      BY <2>7
    <2>9. Reference(job) < Entry(job).point /\ Entry(job).point <= now
      <3>1. CASE IsStale(job)
        BY <2>3, <2>4, <2>8, <3>1
      <3>2. CASE ~IsStale(job)
        <4>1. f \in Nat /\ f <= now
          BY <2>1, <2>5, <3>2, TimesAre
        <4>2. f # Never
          BY <2>2, <4>1, TimesAre
        <4> QED
          BY <2>1, <2>8, <3>2, <4>1, <4>2
      <3> QED
        BY <3>1, <3>2
    <2>10. (IF IsStale(job) THEN e ELSE f) \in Times
      BY <2>1, <2>6
    <2>11. Entry(job) \in Due
      BY <2>4, <2>7, <2>10 DEF Due
    <2> QED
      BY <2>7, <2>9, <2>11
  <1> HIDE DEF Entry
  <1>6. \A n \in DOMAIN due : /\ Entry(due[n]) \in Due /\ Entry(due[n]).job = due[n]
                              /\ Entry(due[n]).stale = IsStale(due[n])
                              /\ Reference(due[n]) < Entry(due[n]).point
                              /\ Entry(due[n]).point <= now
    BY <1>4, <1>5
  <1>7. DueOf(js) \in Seq(Due)
    <2>1. Len(due) \in Nat /\ DOMAIN due = 1..Len(due)
      BY <1>1, LenProperties
    <2>2. \A n \in 1..Len(due) : Entry(due[n]) \in Due
      BY <1>6, <2>1
    <2>3. [i \in 1..Len(due) |-> Entry(due[i])] \in Seq(Due)
      BY <2>1, <2>2, IsASeq
    <2> QED
      BY <1>2, <2>1, <2>3
  <1>8. DOMAIN DueOf(js) = DOMAIN due /\ \A i \in DOMAIN due : DueOf(js)[i] = Entry(due[i])
    BY <1>2
  <1>9. ASSUME DueOf(js) = <<>>, NEW n \in DOMAIN js, IsDue(js[n])
        PROVE  FALSE
    <2>1. \E m \in DOMAIN due : due[m] = js[n]
      BY <1>1, <1>9 DEF P
    <2>2. DOMAIN due # {}
      BY <2>1
    <2> QED
      BY <1>8, <1>9, <2>2
  <1>10. \A i \in DOMAIN DueOf(js) :
              LET d == DueOf(js)[i]
              IN  /\ \E n \in DOMAIN js : d.job = js[n] /\ d.stale = IsStale(js[n])
                  /\ Reference(d.job) < d.point /\ d.point <= now
    BY <1>4, <1>6, <1>8
  <1>11. Distinct(js) => \A i, j \in DOMAIN DueOf(js) :
                              DueOf(js)[i].job.id = DueOf(js)[j].job.id => i = j
    BY <1>1, <1>6, <1>8 DEF Distinct
  <1> QED
    BY <1>7, <1>9, <1>10, <1>11

\* The chain of writes without one of them.
LEMMA LeftIs ==
  ASSUME TypeOK, NEW w \in Writers
  PROVE  /\ Left(w) \in Seq(Writers)
         /\ \A n \in DOMAIN Left(w) : Left(w)[n] # w /\ \E i \in DOMAIN writes : Left(w)[n] = writes[i]
  <1> DEFINE P == {i \in DOMAIN writes : writes[i] # w}
  <1>1. writes \in Seq(Writers) /\ P \in SUBSET DOMAIN writes
    BY DEF TypeOK
  <1>2. Left(w) = Filtered(writes, P) /\ \A i \in P : writes[i] # w /\ i \in DOMAIN writes
    BY DEF Left
  <1> HIDE DEF P
  <1>3. /\ Filtered(writes, P) \in Seq(Writers)
        /\ \A n \in DOMAIN Filtered(writes, P) :
              Nth(P, n) \in P /\ Filtered(writes, P)[n] = writes[Nth(P, n)]
    BY <1>1, FilteredIs
  <1> QED
    BY <1>2, <1>3

\* What every step but a creation and a start of the process does to the jobs: there are no
\* others than before, and of a job at most the mark is new.
Fewer ==
    /\ jobs' \in Seq(Job) /\ Distinct(jobs')
    /\ \A n \in DOMAIN jobs' : \E i \in DOMAIN jobs :
         /\ jobs'[n].id = jobs[i].id /\ jobs'[n].recurring = jobs[i].recurring
         /\ jobs'[n].created = jobs[i].created
         /\ \/ jobs'[n].fired = jobs[i].fired
            \/ jobs[i].recurring /\ jobs'[n].fired < Expiry(jobs[i])

\* Nothing is as good as never created again.
KnownStay == \A j \in JobIds : told[j] # "unused" => told'[j] # "unused"

\* What is still due was due before.
DuesStay ==
    \A k \in Checks : \A i \in DOMAIN check'[k].due :
        \E j \in DOMAIN check[k].due :
            check'[k].due[i] = check[k].due[j] /\ check'[k].at = check[k].at

\* Only a check joins the chain of writes.
ChainStays ==
    \A i \in DOMAIN writes' :
        (\E j \in DOMAIN writes : writes'[i] = writes[j]) \/ \E k \in Checks : writes'[i] = Checker(k)

\* The elements of the lists of jobs.
LEMMA ListsAre ==
  ASSUME FileInv
  PROVE  /\ jobs \in Lists /\ disk \in Lists /\ \A w \in Writers : snapshot[w] \subseteq Lists
         /\ \A js \in Lists : js \in Seq(Job) /\ Sound(js)
         /\ \A js \in Lists : \A i \in DOMAIN js : js[i] \in Job /\ js[i].id \in JobIds
  <1>1. \A w \in Writers : snapshot[w] \subseteq Seq(Job)
    BY DEF FileInv, TypeOK
  <1>2. jobs \in Seq(Job) /\ disk \in Seq(Job)
    BY DEF FileInv, TypeOK
  <1>3. \A js \in Lists : js \in Seq(Job)
    BY <1>1, <1>2 DEF Lists
  <1>4. \A js \in Lists : \A i \in DOMAIN js : js[i] \in Job
    BY <1>3, ElementOfSeq, LenProperties
  <1>5. \A js \in Lists : Sound(js)
    BY DEF FileInv
  <1>6. \A js \in Lists : \A i \in DOMAIN js : js[i].id \in JobIds
    BY <1>4, JobIs
  <1> QED
    BY <1>3, <1>4, <1>5, <1>6 DEF Lists

\* A list keeps sound while nothing is forgotten.
LEMMA SoundStays ==
  ASSUME FileInv, KnownStay, NEW js \in Lists
  PROVE  Sound(js)'
  <1>1. Sound(js) /\ \A i \in DOMAIN js : js[i].id \in JobIds
    BY ListsAre
  <1> QED
    BY <1>1 DEF Sound, KnownStay, Distinct, Expiry

\* The jobs in memory keep sound.
LEMMA FewerIsSound ==
  ASSUME FileInv, KnownStay, Fewer
  PROVE  /\ \A js : js = jobs' => Sound(js)'
         /\ Ids(jobs') \subseteq Ids(jobs)
  <1>1. /\ \A i \in DOMAIN jobs : /\ told[jobs[i].id] # "unused" /\ jobs[i].id \in JobIds
                                  /\ ~jobs[i].recurring => jobs[i].fired = Never
                                  /\ jobs[i].fired # Never => jobs[i].fired < Expiry(jobs[i])
    BY ListsAre DEF Sound
  <1>2. ASSUME NEW n \in DOMAIN jobs'
        PROVE  /\ told'[jobs'[n].id] # "unused" /\ jobs'[n].id \in Ids(jobs)
               /\ ~jobs'[n].recurring => jobs'[n].fired = Never
               /\ jobs'[n].fired # Never => jobs'[n].fired < Expiry(jobs'[n])
    <2>1. PICK i \in DOMAIN jobs :
         /\ jobs'[n].id = jobs[i].id /\ jobs'[n].recurring = jobs[i].recurring
         /\ jobs'[n].created = jobs[i].created
         /\ \/ jobs'[n].fired = jobs[i].fired
            \/ jobs[i].recurring /\ jobs'[n].fired < Expiry(jobs[i])
      BY DEF Fewer
    <2>2. Expiry(jobs'[n]) = Expiry(jobs[i])
      BY <2>1 DEF Expiry
    <2> QED
      BY <1>1, <2>1, <2>2 DEF KnownStay, Ids
  <1>3. Distinct(jobs')
    BY DEF Fewer
  <1>4. Ids(jobs') \subseteq Ids(jobs)
    BY <1>2 DEF Ids
  <1>5. ASSUME NEW js, js = jobs'
        PROVE  Sound(js)'
    BY <1>2, <1>3, <1>5 DEF Sound, Distinct, Expiry
  <1> QED
    BY <1>4, <1>5

\* All the lists keep sound when only the one in memory changes.
LEMMA ListsStay ==
  ASSUME FileInv, KnownStay, Fewer, disk' \in Lists, \A w \in Writers : snapshot'[w] \subseteq Lists
  PROVE  \A js \in Lists' : Sound(js)'
  <1>1. \A js \in Lists' : js \in Lists \/ js = jobs'
    BY DEF Lists
  <1>2. \A js \in Lists : Sound(js)'
    BY SoundStays
  <1>3. \A js : js = jobs' => Sound(js)'
    BY FewerIsSound
  <1> QED
    BY <1>1, <1>2, <1>3

\* The due jobs remain copies.
LEMMA CopiesStay ==
  ASSUME FileInv, KnownStay, Fewer, DuesStay
  PROVE  DueIsCopied'
  <1> SUFFICES ASSUME NEW k \in Checks, NEW i \in DOMAIN check'[k].due
               PROVE  LET d == check'[k].due[i]
                      IN  /\ told'[d.job.id] # "unused"
                          /\ ~d.stale /\ d.job.recurring => check'[k].at < Expiry(d.job)
                          /\ \A n \in DOMAIN jobs' : jobs'[n].id = d.job.id =>
                                /\ jobs'[n].recurring = d.job.recurring
                                /\ jobs'[n].created = d.job.created
    BY DEF DueIsCopied, Expiry
  <1>1. PICK j \in DOMAIN check[k].due :
            check'[k].due[i] = check[k].due[j] /\ check'[k].at = check[k].at
    BY DEF DuesStay
  <1> DEFINE d == check[k].due[j]
  <1>2. /\ told[d.job.id] # "unused"
        /\ ~d.stale /\ d.job.recurring => check[k].at < Expiry(d.job)
        /\ \A n \in DOMAIN jobs : jobs[n].id = d.job.id =>
              jobs[n].recurring = d.job.recurring /\ jobs[n].created = d.job.created
    BY DEF FileInv, DueIsCopied
  <1>3. d \in Due
    BY ElementOfSeq, LenProperties DEF FileInv, TypeOK
  <1>4. d.job.id \in JobIds
    BY <1>3, JobIs DEF Due
  <1> HIDE DEF d
  <1>5. \A n \in DOMAIN jobs' : jobs'[n].id = d.job.id =>
              jobs'[n].recurring = d.job.recurring /\ jobs'[n].created = d.job.created
    BY <1>2 DEF Fewer
  <1> QED
    BY <1>1, <1>2, <1>4, <1>5 DEF d, KnownStay

\* A filter leaves fewer jobs.
LEMMA FilterIsFewer ==
  ASSUME FileInv, NEW P \in SUBSET DOMAIN jobs, jobs' = Filtered(jobs, P)
  PROVE  Fewer /\ Ids(jobs') = {jobs[i].id : i \in P}
  <1>1. jobs \in Seq(Job) /\ Distinct(jobs)
    BY DEF FileInv, TypeOK
  <1>2. /\ jobs' \in Seq(Job) /\ Distinct(jobs')
        /\ \A n \in DOMAIN jobs' : \E i \in P : jobs'[n] = jobs[i]
        /\ Ids(jobs') = {jobs[i].id : i \in P}
    BY <1>1, JobsFiltered
  <1> QED
    BY <1>2 DEF Fewer

\* The jobs stay as they are.
LEMMA SameIsFewer ==
  ASSUME FileInv, jobs' = jobs
  PROVE  Fewer
  BY DEF Fewer, FileInv, TypeOK, Distinct

\* A call of check().
CheckState == [pc : {"idle", "fire", "deliver", "purge", "write"}, at : 0..Horizon, due : Seq(Due),
               boot : BOOLEAN]

\* A check settles the first of its due jobs.
LEMMA SettleIs ==
  ASSUME FileInv, NEW k \in Checks, check[k].due # <<>>, Settle(k, jobs)
  PROVE  /\ Current(k) = check[k].due[1] /\ 1 \in DOMAIN check[k].due /\ Current(k) \in Due
         /\ Fewer
         /\ \A n \in DOMAIN jobs' : \E i \in DOMAIN jobs :
              /\ jobs'[n].id = jobs[i].id /\ jobs'[n].times = jobs[i].times
              /\ jobs[i].id # Current(k).job.id => jobs'[n] = jobs[i]
              /\ jobs[i].id = Current(k).job.id => jobs'[n].fired = check[k].at
         /\ \E c \in CheckState :
              /\ check' = [check EXCEPT ![k] = c]
              /\ c.pc \in {"fire", "write"} /\ (c.pc = "fire" => c.due # <<>>)
              /\ c.due = Tail(check[k].due) /\ c.at = check[k].at /\ c.boot = check[k].boot
         /\ DuesStay
         /\ told' \in [JobIds -> Fates]
         /\ \A j \in JobIds : \/ told'[j] = told[j]
                              \/ told[j] \in {"pending", "created"} /\ told'[j] = "ended"
         /\ \A j \in JobIds : told'[j] = "created" /\ j \in Ids(jobs) => j \in Ids(jobs')
         /\ KnownStay
  <1> DEFINE d == Current(k)
             due == check[k].due
             over == d.stale \/ ~d.job.recurring
             P == {i \in DOMAIN jobs : jobs[i].id # d.job.id}
  <1>1. check[k] \in CheckState /\ due \in Seq(Due) /\ check[k].at \in 0..Horizon
    BY DEF FileInv, TypeOK, CheckState
  <1>2. Len(due) \in Nat \ {0} /\ DOMAIN due = 1..Len(due)
    BY <1>1, EmptySeq, LenProperties
  <1>3. d = due[1] /\ 1 \in DOMAIN due /\ d \in Due
    <2>1. Head(due) = due[1]
      BY <1>1, <1>2, HeadTailProperties
    <2>2. 1 \in DOMAIN due
      BY <1>2
    <2> QED
      BY <1>1, <1>2, <2>1, <2>2, ElementOfSeq DEF Current
  <1>4. /\ Tail(due) \in Seq(Due) /\ Len(Tail(due)) = Len(due) - 1
        /\ \A i \in 1..Len(Tail(due)) : Tail(due)[i] = due[i + 1]
    BY <1>1, <1>2, HeadTailProperties
  <1>5. DOMAIN Tail(due) = 1..Len(Tail(due))
    BY <1>4, LenProperties
  <1>6. \A i \in DOMAIN Tail(due) : i + 1 \in DOMAIN due /\ Tail(due)[i] = due[i + 1]
    BY <1>2, <1>4, <1>5
  <1>7. jobs \in Seq(Job) /\ Distinct(jobs) /\ \A i \in DOMAIN jobs : jobs[i] \in Job
    BY ListsAre DEF FileInv, TypeOK
  <1>8. /\ told[d.job.id] # "unused"
        /\ ~d.stale /\ d.job.recurring => check[k].at < Expiry(d.job)
        /\ \A n \in DOMAIN jobs : jobs[n].id = d.job.id =>
              jobs[n].recurring = d.job.recurring /\ jobs[n].created = d.job.created
    BY <1>3 DEF FileInv, DueIsCopied
  <1>9. /\ jobs' = IF over THEN Filtered(jobs, P)
                   ELSE [i \in DOMAIN jobs |-> IF jobs[i].id = d.job.id
                                               THEN [jobs[i] EXCEPT !.fired = check[k].at]
                                               ELSE jobs[i]]
        /\ check' = [check EXCEPT ![k].due = Tail(due),
                                  ![k].pc = IF Tail(due) = <<>> THEN "write" ELSE "fire"]
        /\ told' = [j \in JobIds |->
                      IF j \in Ids(jobs) \ Ids(jobs') /\ told[j] \in {"pending", "created"}
                      THEN "ended" ELSE told[j]]
    BY DEF Settle
  <1>10. told \in [JobIds -> Fates] /\ check \in [Checks -> CheckState]
    BY DEF FileInv, TypeOK, CheckState
  <1> HIDE DEF d, due, over
  <1>11. /\ Fewer
         /\ \A n \in DOMAIN jobs' : \E i \in DOMAIN jobs :
              /\ jobs'[n].id = jobs[i].id /\ jobs'[n].times = jobs[i].times
              /\ jobs[i].id # d.job.id => jobs'[n] = jobs[i]
              /\ jobs[i].id = d.job.id => jobs'[n].fired = check[k].at
    <2>1. CASE over
      <3>1. jobs' = Filtered(jobs, P) /\ P \in SUBSET DOMAIN jobs
        BY <1>9, <2>1
      <3>2. Fewer
        BY <3>1, FilterIsFewer
      <3>3. \A n \in DOMAIN jobs' : \E i \in P : jobs'[n] = jobs[i]
        BY <1>7, <3>1, JobsFiltered
      <3> QED
        BY <3>2, <3>3
    <2>2. CASE ~over
      <3> DEFINE M(job) == [job EXCEPT !.fired = check[k].at]
                 N(job) == IF job.id = d.job.id THEN M(job) ELSE job
      <3>1. jobs' = [i \in DOMAIN jobs |-> N(jobs[i])]
        BY <1>9, <2>2
      <3>2. \A job \in Job : /\ M(job) \in Job /\ M(job).id = job.id
                             /\ M(job).recurring = job.recurring /\ M(job).created = job.created
                             /\ M(job).times = job.times /\ M(job).fired = check[k].at
        BY <1>1, MarkedIs
      <3> HIDE DEF M
      <3>3. \A job \in Job : /\ N(job) \in Job /\ N(job).id = job.id
                             /\ N(job).recurring = job.recurring /\ N(job).created = job.created
                             /\ N(job).times = job.times
                             /\ job.id = d.job.id => N(job).fired = check[k].at
                             /\ job.id # d.job.id => N(job) = job
        BY <3>2
      <3> HIDE DEF N
      <3>4. DOMAIN jobs' = DOMAIN jobs /\ \A i \in DOMAIN jobs : jobs'[i] = N(jobs[i])
        BY <3>1
      <3>5. jobs' \in Seq(Job)
        <4>1. Len(jobs) \in Nat /\ DOMAIN jobs = 1..Len(jobs)
          BY <1>7, LenProperties
        <4>2. \A i \in 1..Len(jobs) : N(jobs[i]) \in Job
          BY <1>7, <3>3, <4>1
        <4>3. [i \in 1..Len(jobs) |-> N(jobs[i])] \in Seq(Job)
          BY <4>1, <4>2, IsASeq
        <4> QED
          BY <3>1, <4>1, <4>3
      <3>6. Distinct(jobs')
        BY <1>7, <3>3, <3>4 DEF Distinct
      <3>7. \A i \in DOMAIN jobs : jobs[i].id = d.job.id =>
                jobs[i].recurring /\ check[k].at < Expiry(jobs[i])
        BY <1>8, <2>2 DEF over, Expiry
      <3>8. Fewer
        BY <1>7, <3>3, <3>4, <3>5, <3>6, <3>7 DEF Fewer
      <3> QED
        BY <1>7, <3>3, <3>4, <3>8
    <2> QED
      BY <2>1, <2>2
  <1> DEFINE c == [check[k] EXCEPT !.due = Tail(due),
                                   !.pc = IF Tail(due) = <<>> THEN "write" ELSE "fire"]
  <1>13. /\ c \in CheckState /\ c.pc \in {"fire", "write"} /\ (c.pc = "fire" => c.due # <<>>)
         /\ c.due = Tail(due) /\ c.at = check[k].at /\ c.boot = check[k].boot
    BY <1>1, <1>4 DEF CheckState
  <1>14. check' = [check EXCEPT ![k] = c]
    BY <1>9, <1>10
  <1> HIDE DEF c
  <1>15. DuesStay
    <2> SUFFICES ASSUME NEW l \in Checks, NEW i \in DOMAIN check'[l].due
                 PROVE  \E j \in DOMAIN check[l].due :
                          check'[l].due[i] = check[l].due[j] /\ check'[l].at = check[l].at
      BY DEF DuesStay
    <2>1. CASE l = k
      <3>1. check'[l] = c
        BY <1>10, <1>14, <2>1
      <3> QED
        BY <1>6, <1>13, <2>1, <3>1 DEF due
    <2>2. CASE l # k
      <3>1. check'[l] = check[l]
        BY <1>10, <1>14, <2>2
      <3> QED
        BY <3>1
    <2> QED
      BY <2>1, <2>2
  <1>16. /\ told' \in [JobIds -> Fates]
         /\ \A j \in JobIds : \/ told'[j] = told[j]
                              \/ told[j] \in {"pending", "created"} /\ told'[j] = "ended"
         /\ \A j \in JobIds : told'[j] = "created" /\ j \in Ids(jobs) => j \in Ids(jobs')
    BY <1>9, <1>10 DEF Fates
  <1>17. KnownStay
    BY <1>16 DEF KnownStay
  <1> QED
    BY <1>3, <1>11, <1>13, <1>14, <1>15, <1>16, <1>17 DEF d, due

\* Whoever writes.
LEMMA WritersAre ==
  /\ \A u \in Users : Caller(u) \in Writers
  /\ \A k \in Checks : Checker(k) \in Writers
  /\ \A u \in Users, k \in Checks : Caller(u) # Checker(k)
  /\ \A u, v \in Users : Caller(u) = Caller(v) => u = v
  BY DEF Writers, Caller, Checker

\* Nobody waits for anything in a process that is down.
LEMMA NotDown ==
  ASSUME FileInv, \/ \E u \in Users : user[u].pc # "idle"
                  \/ \E k \in Checks : check[k].pc # "idle"
                  \/ writes # <<>>
                  \/ \E w \in Writers : snapshot[w] # {}
  PROVE  server # "down"
  BY DEF FileInv, DownIsEmpty, IdleUser, IdleCheck

\* A write takes effect: it was the only one under way.
LEMMA WrittenIs ==
  ASSUME FileInv, NEW w \in Writers, Written(w)
  PROVE  /\ disk' \in snapshot[w] /\ disk' \in Lists /\ disk' \in Seq(Job) /\ Distinct(disk')
         /\ snapshot' = [v \in Writers |-> {}]
         /\ \A v \in Writers : v # w => snapshot[v] = {}
         /\ server # "down" /\ UNCHANGED boundVars /\ timer' = Rearmed(jobs) /\ timer' \in Times
  <1>1. disk' \in snapshot[w] /\ snapshot' = [snapshot EXCEPT ![w] = {}] /\ UNCHANGED boundVars
        /\ timer' = Rearmed(jobs)
    BY DEF Written
  <1>2. disk' \in Lists /\ disk' \in Seq(Job) /\ Sound(disk')
    BY <1>1, ListsAre
  <1>3. \A v \in Writers : v # w => snapshot[v] = {}
    BY <1>1 DEF FileInv, OneWriter
  <1>4. snapshot \in [Writers -> SUBSET Seq(Job)]
    BY DEF FileInv, TypeOK
  <1>5. snapshot' = [v \in Writers |-> {}]
    BY <1>1, <1>3, <1>4
  <1>6. server # "down"
    BY <1>1, NotDown
  <1>7. Rearmed(jobs) \in Times
    BY ListsAre, RearmedIs DEF FileInv, Sound
  <1> QED
    BY <1>1, <1>2, <1>3, <1>5, <1>6, <1>7 DEF Sound

\* A write fails.
LEMMA FailedIs ==
  ASSUME FileInv, NEW w \in Writers, WriteFailed(w), Discard(w)
  PROVE  /\ UNCHANGED <<disk, timer, crashes>> /\ faults' = faults + 1 /\ faults' \in 0..MaxTroubles
         /\ snapshot' = [v \in Writers |-> {}]
         /\ server # "down"
  <1>1. snapshot[w] # {} /\ snapshot' = [snapshot EXCEPT ![w] = {}] /\ UNCHANGED <<disk, timer, crashes>>
        /\ faults + crashes < MaxTroubles /\ faults' = faults + 1
    BY DEF WriteFailed, Discard
  <1>2. \A v \in Writers : v # w => snapshot[v] = {}
    BY <1>1 DEF FileInv, OneWriter
  <1>3. snapshot \in [Writers -> SUBSET Seq(Job)]
    BY DEF FileInv, TypeOK
  <1>4. snapshot' = [v \in Writers |-> {}]
    BY <1>1, <1>2, <1>3
  <1>5. server # "down"
    BY <1>1, NotDown
  <1>6. faults' \in 0..MaxTroubles
    BY <1>1, CronBoundAssumption DEF FileInv, TypeOK
  <1> QED
    BY <1>1, <1>4, <1>5, <1>6

\* No write is under way.
LEMMA NoSnapshots ==
  ASSUME FileInv, snapshot' = [v \in Writers |-> {}]
  PROVE  /\ snapshot' \in [Writers -> SUBSET Seq(Job)]
         /\ OneWriter'
         /\ \A w \in Writers : snapshot'[w] = {} /\ snapshot'[w] \subseteq Lists
         /\ Lists' = {jobs', disk'}
  <1>1. snapshot' \in [Writers -> SUBSET Seq(Job)] /\ \A w \in Writers : snapshot'[w] = {}
    OBVIOUS
  <1>2. OneWriter'
    BY <1>1 DEF OneWriter
  <1>3. Lists' = {jobs', disk'}
    BY <1>1 DEF Lists
  <1> QED
    BY <1>1, <1>2, <1>3

\* Writes begin one after the other.
LEMMA BeginWriteKeeps ==
  ASSUME FileInv, NEW w \in Writers, BeginWrite(w)
  PROVE  FileInv'
  <1>1. /\ writes # <<>> /\ Head(writes) = w /\ snapshot[w] = {}
        /\ snapshot' = [snapshot EXCEPT ![w] = {jobs}]
        /\ UNCHANGED <<now, jobs, timer, check, user, writes, disk, server, alive>>
        /\ UNCHANGED <<told, delivered, overlapped, faults, crashes>>
    BY DEF BeginWrite, MayWrite, seenVars, boundVars
  <1>2. snapshot \in [Writers -> SUBSET Seq(Job)] /\ jobs \in Seq(Job)
    BY DEF FileInv, TypeOK
  <1>3. snapshot' \in [Writers -> SUBSET Seq(Job)]
    BY <1>1, <1>2
  <1>4. /\ snapshot'[w] = {jobs}
        /\ \A v \in Writers : v # w => snapshot'[v] = snapshot[v]
        /\ \A v \in Writers : snapshot'[v] \subseteq snapshot[v] \cup {jobs}
    BY <1>1, <1>2
  <1>5. TypeOK'
    BY <1>1, <1>3 DEF FileInv, TypeOK, Distinct
  <1>6. server # "down"
    BY <1>1, NotDown
  <1>7. DownIsEmpty'
    BY <1>1, <1>6 DEF DownIsEmpty
  <1>8. OneWriter'
    BY <1>1, <1>4 DEF FileInv, OneWriter
  <1>9. KnownStay /\ Fewer /\ DuesStay
    BY <1>1, SameIsFewer DEF KnownStay, DuesStay
  <1>10. disk' \in Lists /\ \A v \in Writers : snapshot'[v] \subseteq Lists
    BY <1>1, <1>4, ListsAre
  <1>11. CallersHold'
    <2>1. \A u \in Users : Caller(u) \in Writers
      BY WritersAre
    <2> QED
      BY <1>1, <1>4, <2>1 DEF FileInv, CallersHold, Caller
  <1>12. AnswersHold'
    <2> SUFFICES ASSUME NEW j \in JobIds
                 PROVE  /\ told[j] = "created" =>
                             /\ j \in Ids(disk) /\ j \in Ids(jobs)
                             /\ \A v \in Writers : \A js \in snapshot'[v] : j \in Ids(js)
                        /\ told[j] = "deleted" => \A js \in Lists' : j \notin Ids(js)
      BY <1>1 DEF AnswersHold, Ids
    <2>1. Lists' \subseteq Lists
      BY <1>1, <1>10, ListsAre DEF Lists
    <2> QED
      BY <1>4, <1>6, <2>1 DEF FileInv, AnswersHold
  <1>13. OnlyWaiting'
    <2>1. writes \in Seq(Writers)
      BY DEF FileInv, TypeOK
    <2>2. 1 \in DOMAIN writes /\ writes[1] = w
      <3>1. Len(writes) \in Nat /\ Len(writes) > 0 /\ DOMAIN writes = 1..Len(writes)
        BY <1>1, <2>1, LenProperties, EmptySeq
      <3>2. Head(writes) = writes[1]
        BY <1>1, <2>1, HeadTailProperties
      <3> QED
        BY <1>1, <3>1, <3>2
    <2>3. ASSUME NEW u \in Users, user[u].pc \notin {"create", "delete", "purge"}
          PROVE  snapshot'[Caller(u)] = {} /\ \A i \in DOMAIN writes : writes[i] # Caller(u)
      <3>1. snapshot[Caller(u)] = {} /\ \A i \in DOMAIN writes : writes[i] # Caller(u)
        BY <2>3 DEF FileInv, OnlyWaiting
      <3> QED
        BY <1>4, <2>2, <3>1, WritersAre
    <2> QED
      BY <1>1, <2>3 DEF OnlyWaiting, Caller
  <1> QED
    BY <1>5, <1>7, <1>8, <1>13, <1>9, <1>10, <1>11, <1>12, ListsStay, CopiesStay DEF FileInv

\* The session itself goes; nothing here speaks of it.
LEMMA DropSessionKeeps ==
  ASSUME FileInv, NEW u \in Users, DropSession(u)
  PROVE  FileInv'
  <1>1. /\ user[u].pc = "drop" /\ alive' = alive \ user[u].sessions
        /\ user' = [user EXCEPT ![u] = IdleUser]
        /\ UNCHANGED <<now, jobs, timer, check, writes, snapshot, disk, server>>
        /\ UNCHANGED <<told, delivered, overlapped, faults, crashes>>
    BY DEF DropSession, seenVars, boundVars
  <1>2. TypeOK'
    BY <1>1 DEF FileInv, TypeOK, IdleUser, Distinct
  <1>3. server # "down"
    BY <1>1, NotDown
  <1>4. DownIsEmpty' /\ OneWriter'
    BY <1>1, <1>3 DEF FileInv, DownIsEmpty, OneWriter
  <1>5. KnownStay /\ Fewer /\ DuesStay
    BY <1>1, SameIsFewer DEF KnownStay, DuesStay
  <1>6. disk' \in Lists /\ \A v \in Writers : snapshot'[v] \subseteq Lists
    BY <1>1, ListsAre
  <1>7. CallersHold'
    <2>1. /\ user'[u].ids = {} /\ user'[u].pc = "idle"
          /\ \A v \in Users : v # u => user'[v] = user[v]
      BY <1>1 DEF FileInv, TypeOK, IdleUser
    <2> QED
      BY <1>1, <2>1 DEF FileInv, CallersHold, Caller
  <1>9. OnlyWaiting'
    <2>1. /\ user'[u].pc = "idle"
          /\ \A v \in Users : v # u => user'[v] = user[v]
      BY <1>1 DEF FileInv, TypeOK, IdleUser
    <2>2. \A v \in Users : user'[v].pc \notin {"create", "delete", "purge"} =>
                              user[v].pc \notin {"create", "delete", "purge"}
      BY <1>1, <2>1
    <2> QED
      BY <1>1, <2>2 DEF FileInv, OnlyWaiting, Caller
  <1>8. AnswersHold'
    BY <1>1 DEF FileInv, AnswersHold, Lists
  <1> QED
    BY <1>2, <1>4, <1>5, <1>6, <1>7, <1>8, <1>9, ListsStay, CopiesStay DEF FileInv

\* The call of a user has its answer: it waits for nothing more.
LEMMA AnsweredIs ==
  ASSUME FileInv, NEW u \in Users, Answered(u)
  PROVE  /\ user[u].pc \in {"create", "delete", "purge"}
         /\ user' \in [Users -> [pc : {"idle", "create", "delete", "purge", "drop"},
                                 ids : SUBSET JobIds, sessions : SUBSET Sessions]]
         /\ user'[u].pc \in {"idle", "drop"} /\ user'[u].ids \subseteq user[u].ids
         /\ \A v \in Users : v # u => user'[v] = user[v]
         /\ writes' \in Seq(Writers)
         /\ \A n \in DOMAIN writes' : /\ writes'[n] # Caller(u)
                                     /\ \E i \in DOMAIN writes : writes'[n] = writes[i]
         /\ UNCHANGED <<now, jobs, check, server, alive, delivered, overlapped>>
         /\ server # "down"
  <1>1. user[u] \in [pc : {"idle", "create", "delete", "purge", "drop"},
                     ids : SUBSET JobIds, sessions : SUBSET Sessions]
        /\ user \in [Users -> [pc : {"idle", "create", "delete", "purge", "drop"},
                               ids : SUBSET JobIds, sessions : SUBSET Sessions]]
    BY DEF FileInv, TypeOK
  <1>2. user[u].pc \in {"create", "delete", "purge"}
        /\ user' = [user EXCEPT ![u] = IF user[u].pc = "purge" THEN [user[u] EXCEPT !.pc = "drop"]
                                       ELSE IdleUser]
        /\ writes' = Left(Caller(u))
        /\ UNCHANGED <<now, jobs, check, server, alive, delivered, overlapped>>
    BY DEF Answered, Leave
  <1>3. /\ writes' \in Seq(Writers)
        /\ \A n \in DOMAIN writes' : /\ writes'[n] # Caller(u)
                                    /\ \E i \in DOMAIN writes : writes'[n] = writes[i]
    BY <1>2, WritersAre, LeftIs DEF FileInv
  <1>4. server # "down"
    BY <1>2, NotDown
  <1> DEFINE n == IF user[u].pc = "purge" THEN [user[u] EXCEPT !.pc = "drop"] ELSE IdleUser
  <1>5. /\ n \in [pc : {"idle", "create", "delete", "purge", "drop"},
                  ids : SUBSET JobIds, sessions : SUBSET Sessions]
        /\ n.pc \in {"idle", "drop"} /\ n.ids \subseteq user[u].ids
    BY <1>1 DEF IdleUser
  <1>6. user' = [user EXCEPT ![u] = n]
    BY <1>2
  <1> HIDE DEF n
  <1> QED
    BY <1>1, <1>2, <1>3, <1>4, <1>5, <1>6

\* The write of a user's call took effect.
LEMMA UserWrittenKeeps ==
  ASSUME FileInv, NEW u \in Users, UserWritten(u)
  PROVE  FileInv'
  <1> DEFINE w == Caller(u)
  <1>1. Answered(u) /\ Written(w) /\ TellDone(u) /\ w \in Writers
    BY WritersAre DEF UserWritten
  <1>2. /\ user[u].pc \in {"create", "delete", "purge"}
        /\ user' \in [Users -> [pc : {"idle", "create", "delete", "purge", "drop"},
                                ids : SUBSET JobIds, sessions : SUBSET Sessions]]
        /\ user'[u].pc \in {"idle", "drop"} /\ user'[u].ids \subseteq user[u].ids
        /\ \A v \in Users : v # u => user'[v] = user[v]
        /\ writes' \in Seq(Writers)
        /\ UNCHANGED <<now, jobs, check, server, alive, delivered, overlapped>>
    BY <1>1, AnsweredIs
  <1>3. /\ disk' \in snapshot[w] /\ disk' \in Lists /\ disk' \in Seq(Job) /\ Distinct(disk')
        /\ snapshot' = [v \in Writers |-> {}]
        /\ server # "down" /\ UNCHANGED <<faults, crashes>> /\ timer' \in Times
    BY <1>1, WrittenIs DEF boundVars
  <1>4. /\ snapshot' \in [Writers -> SUBSET Seq(Job)] /\ OneWriter'
        /\ \A v \in Writers : snapshot'[v] = {} /\ snapshot'[v] \subseteq Lists
        /\ Lists' = {jobs', disk'}
    BY <1>3, NoSnapshots
  <1> DEFINE ids == user[u].ids
  <1>5. /\ told' \in [JobIds -> Fates]
        /\ \A j \in JobIds : told'[j] # told[j] =>
             \/ user[u].pc = "create" /\ j \in ids \cap Ids(jobs) /\ told'[j] = "created"
             \/ user[u].pc \in {"delete", "purge"} /\ j \in ids /\ told'[j] = "deleted"
    <2>1. told \in [JobIds -> Fates]
      BY DEF FileInv, TypeOK
    <2>2. CASE user[u].pc = "create"
      <3>1. told' = [j \in JobIds |-> IF j \in ids \cap Ids(jobs) THEN "created" ELSE told[j]]
        BY <1>1, <2>2 DEF TellDone, Tell
      <3> QED
        BY <2>1, <2>2, <3>1 DEF Fates
    <2>3. CASE user[u].pc \in {"delete", "purge"}
      <3>1. told' = [j \in JobIds |-> IF j \in ids THEN "deleted" ELSE told[j]]
        BY <1>1, <2>3 DEF TellDone, Tell
      <3> QED
        BY <2>1, <2>3, <3>1 DEF Fates
    <2> QED
      BY <1>2, <2>2, <2>3
  <1>6. TypeOK'
    BY <1>2, <1>3, <1>4, <1>5 DEF FileInv, TypeOK, Distinct
  <1>7. DownIsEmpty'
    BY <1>2, <1>3 DEF DownIsEmpty
  <1>8. KnownStay /\ Fewer /\ DuesStay
    <2>1. KnownStay
      BY <1>5 DEF KnownStay
    <2>2. DuesStay
      BY <1>2 DEF DuesStay
    <2> QED
      BY <1>2, <2>1, <2>2, SameIsFewer
  <1>9. \A v \in Users : /\ user'[v].ids \subseteq user[v].ids
                         /\ user'[v].pc \in {"create", "delete", "purge"} => user'[v] = user[v]
    BY <1>2
  <1>13. OnlyWaiting'
    <2>1. \A n \in DOMAIN writes' : /\ writes'[n] # Caller(u)
                                    /\ \E i \in DOMAIN writes : writes'[n] = writes[i]
      BY <1>1, AnsweredIs
    <2>2. ASSUME NEW v \in Users, user'[v].pc \notin {"create", "delete", "purge"}
          PROVE  snapshot'[Caller(v)] = {} /\ \A n \in DOMAIN writes' : writes'[n] # Caller(v)
      <3>1. CASE v = u
        BY <1>4, <2>1, <3>1, WritersAre
      <3>2. CASE v # u
        <4>1. \A i \in DOMAIN writes : writes[i] # Caller(v)
          BY <1>2, <2>2, <3>2 DEF FileInv, OnlyWaiting
        <4> QED
          BY <1>4, <2>1, <4>1, WritersAre
      <3> QED
        BY <3>1, <3>2
    <2> QED
      BY <2>2 DEF OnlyWaiting, Caller
  <1>10. CallersHold'
    <2>1. \A v \in Users : \A j \in user'[v].ids : told'[j] # "unused"
      <3>1. \A v \in Users : user'[v].ids \subseteq JobIds
        BY <1>2
      <3> QED
        BY <1>8, <1>9, <3>1 DEF FileInv, CallersHold, KnownStay
    <2>2. \A v \in Users : snapshot'[Caller(v)] = {} /\ Caller(v)' = Caller(v)
      BY <1>4, WritersAre DEF Caller
    <2>3. \A v \in Users : user'[v].pc \in {"delete", "purge"} => user'[v].ids \cap Ids(jobs') = {}
      BY <1>2, <1>9 DEF FileInv, CallersHold
    <2> QED
      BY <2>1, <2>2, <2>3 DEF CallersHold
  <1>11. AnswersHold'
    <2> SUFFICES ASSUME NEW j \in JobIds
                 PROVE  /\ told'[j] = "created" => j \in Ids(disk') /\ j \in Ids(jobs)
                        /\ told'[j] = "deleted" => j \notin Ids(disk') /\ j \notin Ids(jobs)
      BY <1>2, <1>4 DEF AnswersHold
    <2>1. CASE told'[j] = told[j]
      BY <1>1, <1>3, <2>1, ListsAre DEF FileInv, AnswersHold
    <2>2. CASE user[u].pc = "create" /\ j \in ids \cap Ids(jobs) /\ told'[j] = "created"
      BY <1>3, <2>2 DEF FileInv, CallersHold
    <2>3. CASE user[u].pc \in {"delete", "purge"} /\ j \in ids /\ told'[j] = "deleted"
      BY <1>3, <2>3 DEF FileInv, CallersHold
    <2> QED
      BY <1>5, <2>1, <2>2, <2>3
  <1> QED
    BY <1>3, <1>4, <1>6, <1>7, <1>8, <1>10, <1>11, <1>13, ListsStay, CopiesStay DEF FileInv

\* The write of a user's call failed: nobody was told that anything was done.
LEMMA UserFailedKeeps ==
  ASSUME FileInv, NEW u \in Users, UserFailed(u)
  PROVE  FileInv'
  <1>1. Answered(u) /\ WriteFailed(Caller(u)) /\ Discard(Caller(u)) /\ Caller(u) \in Writers
        /\ told' = [j \in JobIds |-> IF j \in user[u].ids THEN "failed" ELSE told[j]]
    BY WritersAre DEF UserFailed, Tell
  <1>2. /\ user[u].pc \in {"create", "delete", "purge"}
        /\ user' \in [Users -> [pc : {"idle", "create", "delete", "purge", "drop"},
                                ids : SUBSET JobIds, sessions : SUBSET Sessions]]
        /\ user'[u].pc \in {"idle", "drop"} /\ user'[u].ids \subseteq user[u].ids
        /\ \A v \in Users : v # u => user'[v] = user[v]
        /\ writes' \in Seq(Writers)
        /\ UNCHANGED <<now, jobs, check, server, alive, delivered, overlapped>>
    BY <1>1, AnsweredIs
  <1>3. /\ UNCHANGED <<disk, timer, crashes>> /\ faults' \in 0..MaxTroubles
        /\ snapshot' = [v \in Writers |-> {}] /\ server # "down"
    BY <1>1, FailedIs
  <1>4. /\ snapshot' \in [Writers -> SUBSET Seq(Job)] /\ OneWriter'
        /\ \A v \in Writers : snapshot'[v] = {} /\ snapshot'[v] \subseteq Lists
        /\ Lists' = {jobs', disk'}
    BY <1>3, NoSnapshots
  <1>5. /\ told' \in [JobIds -> Fates]
        /\ \A j \in JobIds : told'[j] # told[j] => told'[j] = "failed"
    BY <1>1 DEF FileInv, TypeOK, Fates
  <1>6. TypeOK'
    BY <1>2, <1>3, <1>4, <1>5 DEF FileInv, TypeOK, Distinct
  <1>7. DownIsEmpty'
    BY <1>2, <1>3 DEF DownIsEmpty
  <1>8. KnownStay /\ Fewer /\ DuesStay
    <2>1. KnownStay
      BY <1>5 DEF KnownStay
    <2>2. DuesStay
      BY <1>2 DEF DuesStay
    <2> QED
      BY <1>2, <2>1, <2>2, SameIsFewer
  <1>9. \A v \in Users : /\ user'[v].ids \subseteq user[v].ids
                         /\ user'[v].pc \in {"create", "delete", "purge"} => user'[v] = user[v]
    BY <1>2
  <1>13. OnlyWaiting'
    <2>1. \A n \in DOMAIN writes' : /\ writes'[n] # Caller(u)
                                    /\ \E i \in DOMAIN writes : writes'[n] = writes[i]
      BY <1>1, AnsweredIs
    <2>2. ASSUME NEW v \in Users, user'[v].pc \notin {"create", "delete", "purge"}
          PROVE  snapshot'[Caller(v)] = {} /\ \A n \in DOMAIN writes' : writes'[n] # Caller(v)
      <3>1. CASE v = u
        BY <1>4, <2>1, <3>1, WritersAre
      <3>2. CASE v # u
        <4>1. \A i \in DOMAIN writes : writes[i] # Caller(v)
          BY <1>2, <2>2, <3>2 DEF FileInv, OnlyWaiting
        <4> QED
          BY <1>4, <2>1, <4>1, WritersAre
      <3> QED
        BY <3>1, <3>2
    <2> QED
      BY <2>2 DEF OnlyWaiting, Caller
  <1>10. CallersHold'
    <2>1. \A v \in Users : \A j \in user'[v].ids : told'[j] # "unused"
      <3>1. \A v \in Users : user'[v].ids \subseteq JobIds
        BY <1>2
      <3> QED
        BY <1>8, <1>9, <3>1 DEF FileInv, CallersHold, KnownStay
    <2>2. \A v \in Users : snapshot'[Caller(v)] = {} /\ Caller(v)' = Caller(v)
      BY <1>4, WritersAre DEF Caller
    <2>3. \A v \in Users : user'[v].pc \in {"delete", "purge"} => user'[v].ids \cap Ids(jobs') = {}
      BY <1>2, <1>9 DEF FileInv, CallersHold
    <2> QED
      BY <2>1, <2>2, <2>3 DEF CallersHold
  <1>11. AnswersHold'
    <2> SUFFICES ASSUME NEW j \in JobIds
                 PROVE  /\ told'[j] = "created" => j \in Ids(disk) /\ j \in Ids(jobs)
                        /\ told'[j] = "deleted" => j \notin Ids(disk) /\ j \notin Ids(jobs)
      BY <1>2, <1>3, <1>4 DEF AnswersHold
    <2> QED
      BY <1>3, <1>5, ListsAre DEF FileInv, AnswersHold
  <1>12. disk' \in Lists
    BY <1>3, ListsAre
  <1> QED
    BY <1>4, <1>6, <1>7, <1>8, <1>10, <1>11, <1>12, <1>13, ListsStay, CopiesStay DEF FileInv

\* A step that answers no user, in which nothing new is written and no job is forgotten that
\* anybody was told of.
LEMMA OtherwiseKeeps ==
  ASSUME FileInv, TypeOK', OneWriter', DueIsCopied', KnownStay, Fewer,
         ChainStays, server # "down", server' # "down", user' = user,
         \A w \in Writers : snapshot'[w] \subseteq snapshot[w],
         disk' = disk \/ \E w \in Writers : disk' \in snapshot[w],
         \A j \in JobIds : told'[j] = told[j] \/ told'[j] = "ended",
         \A j \in JobIds : told'[j] = "created" /\ j \in Ids(jobs) => j \in Ids(jobs')
  PROVE  FileInv'
  <1>1. DownIsEmpty'
    BY DEF DownIsEmpty
  <1>2. disk' \in Lists /\ \A w \in Writers : snapshot'[w] \subseteq Lists
    BY ListsAre
  <1>3. \A js \in Lists' : Sound(js)'
    BY <1>2, ListsStay
  <1>4. Ids(jobs') \subseteq Ids(jobs)
    BY FewerIsSound
  <1>5. CallersHold'
    <2>1. \A u \in Users : Caller(u) \in Writers /\ Caller(u)' = Caller(u)
      BY WritersAre DEF Caller
    <2>2. \A u \in Users : user[u].ids \subseteq JobIds
      BY DEF FileInv, TypeOK
    <2>3. \A u \in Users : \A j \in user[u].ids : told'[j] # "unused"
      BY <2>2 DEF FileInv, CallersHold, KnownStay
    <2>4. ASSUME NEW u \in Users
          PROVE  /\ user[u].pc = "create" =>
                      \A js \in snapshot'[Caller(u)] : user[u].ids \cap Ids(jobs') \subseteq Ids(js)
                 /\ user[u].pc \in {"delete", "purge"} =>
                      /\ user[u].ids \cap Ids(jobs') = {}
                      /\ \A js \in snapshot'[Caller(u)] : user[u].ids \cap Ids(js) = {}
      <3>1. /\ user[u].pc = "create" =>
                 \A js \in snapshot[Caller(u)] : user[u].ids \cap Ids(jobs) \subseteq Ids(js)
            /\ user[u].pc \in {"delete", "purge"} =>
                 /\ user[u].ids \cap Ids(jobs) = {}
                 /\ \A js \in snapshot[Caller(u)] : user[u].ids \cap Ids(js) = {}
        BY DEF FileInv, CallersHold
      <3>2. snapshot'[Caller(u)] \subseteq snapshot[Caller(u)]
        BY <2>1
      <3> QED
        BY <1>4, <3>1, <3>2
    <2> QED
      BY <2>1, <2>3, <2>4 DEF CallersHold, Ids
  <1>6. AnswersHold'
    <2> SUFFICES ASSUME NEW j \in JobIds
                 PROVE  /\ told'[j] = "created" =>
                             /\ j \in Ids(disk') /\ j \in Ids(jobs')
                             /\ \A v \in Writers : \A js \in snapshot'[v] : j \in Ids(js)
                        /\ told'[j] = "deleted" => \A js \in Lists' : j \notin Ids(js)
      BY DEF AnswersHold, Ids
    <2>1. \A js \in Lists' : js \in Lists \/ js = jobs'
      BY <1>2 DEF Lists
    <2>2. CASE told'[j] = "created"
      <3>1. told[j] = "created"
        BY <2>2
      <3>2. j \in Ids(disk) /\ j \in Ids(jobs) /\ \A v \in Writers : \A js \in snapshot[v] : j \in Ids(js)
        BY <3>1 DEF FileInv, AnswersHold
      <3> QED
        BY <2>2, <3>2
    <2>3. CASE told'[j] = "deleted"
      <3>1. told[j] = "deleted"
        BY <2>3
      <3>2. \A js \in Lists : j \notin Ids(js)
        BY <3>1 DEF FileInv, AnswersHold
      <3>3. j \notin Ids(jobs')
        BY <1>4, <3>2, ListsAre
      <3> QED
        BY <2>1, <2>3, <3>2, <3>3
    <2> QED
      BY <2>2, <2>3
  <1>7. OnlyWaiting'
    <2>1. ASSUME NEW u \in Users, user'[u].pc \notin {"create", "delete", "purge"}
          PROVE  snapshot'[Caller(u)] = {} /\ \A i \in DOMAIN writes' : writes'[i] # Caller(u)
      <3>1. snapshot[Caller(u)] = {} /\ \A i \in DOMAIN writes : writes[i] # Caller(u)
        BY <2>1 DEF FileInv, OnlyWaiting
      <3> QED
        BY <3>1, WritersAre DEF ChainStays
    <2> QED
      BY <2>1 DEF OnlyWaiting, Caller
  <1> QED
    BY <1>1, <1>3, <1>5, <1>6, <1>7 DEF FileInv

\* Whoever joins the chain of writes waits behind the one that is writing.
LEMMA PersistIs ==
  ASSUME FileInv, NEW w \in Writers, writes' = Append(writes, w), snapshot' = snapshot
  PROVE  /\ writes' \in Seq(Writers) /\ OneWriter' /\ writes' # <<>>
         /\ \A i \in DOMAIN writes' : writes'[i] = w \/ \E j \in DOMAIN writes : writes'[i] = writes[j]
  <1>1. writes \in Seq(Writers)
    BY DEF FileInv, TypeOK
  <1>2. writes' \in Seq(Writers) /\ Len(writes') = Len(writes) + 1
        /\ \A i \in 1..Len(writes) : writes'[i] = writes[i]
        /\ writes'[Len(writes) + 1] = w
    BY <1>1, AppendProperties
  <1>3. Len(writes) \in Nat /\ (writes # <<>> => Len(writes) > 0)
    BY <1>1, LenProperties, EmptySeq
  <1>4. writes' # <<>>
    BY <1>1, AppendProperties
  <1>5. writes # <<>> => Head(writes') = Head(writes)
    <2>1. writes # <<>> => writes'[1] = writes[1]
      BY <1>2, <1>3
    <2> QED
      BY <1>1, <1>2, <1>4, <2>1, HeadTailProperties
  <1>6. OneWriter'
    BY <1>4, <1>5 DEF FileInv, OneWriter
  <1>7. \A i \in DOMAIN writes' : writes'[i] = w \/ \E j \in DOMAIN writes : writes'[i] = writes[j]
    <2>1. DOMAIN writes = 1..Len(writes) /\ DOMAIN writes' = 1..Len(writes')
      BY <1>1, <1>2, LenProperties
    <2>2. \A i \in 1..(Len(writes) + 1) : i \in 1..Len(writes) \/ i = Len(writes) + 1
      BY <1>3
    <2> QED
      BY <1>2, <2>1, <2>2
  <1> QED
    BY <1>2, <1>4, <1>6, <1>7

\* The due jobs of a check that begins are copies of jobs in memory.
LEMMA NewDues ==
  ASSUME FileInv, NEW k \in Checks, NEW js \in Lists, jobs' = js, told' = told, NEW b \in BOOLEAN,
         \A l \in Checks : l # k => check[l].due = <<>> \/ js = jobs,
         check' = [check EXCEPT ![k] = [pc |-> "fire", at |-> now, due |-> DueOf(js), boot |-> b]]
  PROVE  DueIsCopied' /\ DueOf(js) \in Seq(Due)
  <1>1. js \in Seq(Job) /\ Sound(js) /\ \A i \in DOMAIN js : js[i] \in Job /\ js[i].id \in JobIds
    BY ListsAre
  <1>2. check \in [Checks -> CheckState] /\ TypeOK
    BY DEF FileInv, TypeOK, CheckState
  <1>3. /\ check'[k] = [pc |-> "fire", at |-> now, due |-> DueOf(js), boot |-> b]
        /\ \A l \in Checks : l # k => check'[l] = check[l]
    BY <1>2
  <1>4. \A i \in DOMAIN js : js[i].fired # Never => js[i].fired < Expiry(js[i])
    BY <1>1 DEF Sound
  <1>5. /\ DueOf(js) \in Seq(Due)
        /\ \A i \in DOMAIN DueOf(js) :
              \E n \in DOMAIN js : DueOf(js)[i].job = js[n] /\ DueOf(js)[i].stale = IsStale(js[n])
    BY <1>1, <1>2, <1>4, DueOfIs
  <1>6. now \in Nat /\ \A n \in DOMAIN js : Expiry(js[n]) \in Nat
    BY <1>1, <1>2, NowIs, JobIs
  <1> SUFFICES ASSUME NEW l \in Checks, NEW i \in DOMAIN check'[l].due
               PROVE  LET d == check'[l].due[i]
                      IN  /\ told'[d.job.id] # "unused"
                          /\ ~d.stale /\ d.job.recurring => check'[l].at < Expiry(d.job)
                          /\ \A n \in DOMAIN jobs' : jobs'[n].id = d.job.id =>
                                /\ jobs'[n].recurring = d.job.recurring
                                /\ jobs'[n].created = d.job.created
    BY <1>5 DEF DueIsCopied, Expiry
  <1>7. CASE l = k
    <2> DEFINE d == DueOf(js)[i]
    <2>1. check'[l].due = DueOf(js) /\ check'[l].at = now /\ i \in DOMAIN DueOf(js)
      BY <1>3, <1>7
    <2>2. PICK n \in DOMAIN js : d.job = js[n] /\ d.stale = IsStale(js[n])
      BY <1>5, <2>1
    <2>3. told[d.job.id] # "unused"
      BY <1>1, <2>2 DEF Sound
    <2>4. ~d.stale /\ d.job.recurring => now < Expiry(d.job)
      <3>1. ~IsStale(js[n]) /\ js[n].recurring => now < Expiry(js[n])
        BY <1>6 DEF IsStale
      <3> HIDE DEF d
      <3> QED
        BY <2>2, <3>1
    <2>5. \A m \in DOMAIN js : js[m].id = d.job.id => js[m] = d.job
      BY <1>1, <2>2 DEF Sound, Distinct
    <2> QED
      BY <2>1, <2>3, <2>4, <2>5
  <1>8. CASE l # k
    <2>1. check'[l] = check[l] /\ i \in DOMAIN check[l].due
      BY <1>3, <1>8
    <2>2. js = jobs
      BY <1>8, <2>1
    <2> QED
      BY <2>1, <2>2 DEF FileInv, DueIsCopied
  <1> QED
    BY <1>7, <1>8

\* A check begins.
LEMMA BeginCheckKeeps ==
  ASSUME FileInv, NEW k \in Checks, BeginCheck(k)
  PROVE  FileInv'
  <1>1. /\ server # "down" /\ overlapped' \in BOOLEAN /\ Start(k, jobs, FALSE)
        /\ UNCHANGED <<now, jobs, user, writes, snapshot, disk, alive, told, delivered>>
        /\ UNCHANGED <<faults, crashes>>
    BY DEF BeginCheck, boundVars, FileInv, TypeOK
  <1>2. KnownStay /\ Fewer /\ jobs \in Lists /\ jobs \in Seq(Job) /\ Sound(jobs)
    BY <1>1, SameIsFewer, ListsAre DEF KnownStay
  <1>3. TypeOK
    BY DEF FileInv
  <1>4. TypeOK' /\ DueIsCopied' /\ server' # "down"
    <2>1. CASE DueOf(jobs) = <<>>
      <3>1. timer' = Rearmed(jobs) /\ server' = server /\ check' = check
        BY <1>1, <2>1 DEF Start
      <3>2. timer' \in Times
        BY <1>2, <1>3, <3>1, RearmedIs DEF Sound
      <3>3. DuesStay
        BY <3>1 DEF DuesStay
      <3> QED
        BY <1>1, <1>2, <1>3, <3>1, <3>2, <3>3, CopiesStay DEF TypeOK, Distinct
    <2>2. CASE DueOf(jobs) # <<>>
      <3> DEFINE c == [pc |-> "fire", at |-> now, due |-> DueOf(jobs), boot |-> FALSE]
      <3>1. timer' = Never /\ server' = server /\ check' = [check EXCEPT ![k] = c]
        BY <1>1, <2>2 DEF Start
      <3>2. DueIsCopied' /\ DueOf(jobs) \in Seq(Due)
        BY <1>1, <1>2, <3>1, NewDues
      <3>3. c \in CheckState /\ c.due # <<>>
        BY <1>3, <2>2, <3>2 DEF CheckState, TypeOK
      <3> HIDE DEF c
      <3>4. /\ check' \in [Checks -> CheckState]
            /\ \A l \in Checks : check'[l].pc \in {"fire", "deliver", "purge"} => check'[l].due # <<>>
        BY <1>3, <3>1, <3>3 DEF TypeOK, CheckState
      <3>5. TypeOK'
        BY <1>1, <1>3, <3>1, <3>4, TimesAre DEF TypeOK, Distinct, CheckState
      <3> QED
        BY <1>1, <3>1, <3>2, <3>5
    <2> QED
      BY <2>1, <2>2
  <1>5. OneWriter' /\ ChainStays
    BY <1>1 DEF FileInv, OneWriter, ChainStays
  <1> QED
    BY <1>1, <1>2, <1>4, <1>5, OtherwiseKeeps

\* A check looks its session up, and finds it.
LEMMA ToDeliver ==
  ASSUME FileInv, NEW k \in Checks, check[k].due # <<>>, check' = [check EXCEPT ![k].pc = "deliver"]
  PROVE  /\ DuesStay
         /\ check' \in [Checks -> CheckState]
         /\ \A l \in Checks : check'[l].pc \in {"fire", "deliver", "purge"} => check'[l].due # <<>>
  <1>1. /\ check \in [Checks -> CheckState]
        /\ \A l \in Checks : check[l].pc \in {"fire", "deliver", "purge"} => check[l].due # <<>>
    BY DEF FileInv, TypeOK, CheckState
  <1> DEFINE c == [check[k] EXCEPT !.pc = "deliver"]
  <1>2. c \in CheckState /\ c.due = check[k].due /\ c.at = check[k].at
    BY <1>1 DEF CheckState
  <1>3. check' = [check EXCEPT ![k] = c]
    BY <1>1
  <1> HIDE DEF c
  <1>4. check'[k] = c /\ \A l \in Checks : l # k => check'[l] = check[l]
    BY <1>1, <1>3
  <1>5. check' \in [Checks -> CheckState]
    BY <1>1, <1>2, <1>3
  <1>6. \A l \in Checks : check'[l].due = check[l].due /\ check'[l].at = check[l].at
    BY <1>2, <1>4
  <1>7. DuesStay
    BY <1>6 DEF DuesStay
  <1>8. \A l \in Checks : check'[l].pc \in {"fire", "deliver", "purge"} => check'[l].due # <<>>
    BY <1>1, <1>4, <1>6
  <1> QED
    BY <1>5, <1>7, <1>8

\* The same for a check whose session is gone.
LEMMA ToPurge ==
  ASSUME FileInv, NEW k \in Checks, check[k].due # <<>>, check' = [check EXCEPT ![k].pc = "purge"]
  PROVE  /\ DuesStay
         /\ check' \in [Checks -> CheckState]
         /\ \A l \in Checks : check'[l].pc \in {"fire", "deliver", "purge"} => check'[l].due # <<>>
  <1>1. /\ check \in [Checks -> CheckState]
        /\ \A l \in Checks : check[l].pc \in {"fire", "deliver", "purge"} => check[l].due # <<>>
    BY DEF FileInv, TypeOK, CheckState
  <1> DEFINE c == [check[k] EXCEPT !.pc = "purge"]
  <1>2. c \in CheckState /\ c.due = check[k].due /\ c.at = check[k].at
    BY <1>1 DEF CheckState
  <1>3. check' = [check EXCEPT ![k] = c]
    BY <1>1
  <1> HIDE DEF c
  <1>4. check'[k] = c /\ \A l \in Checks : l # k => check'[l] = check[l]
    BY <1>1, <1>3
  <1>5. check' \in [Checks -> CheckState]
    BY <1>1, <1>2, <1>3
  <1>6. \A l \in Checks : check'[l].due = check[l].due /\ check'[l].at = check[l].at
    BY <1>2, <1>4
  <1>7. DuesStay
    BY <1>6 DEF DuesStay
  <1>8. \A l \in Checks : check'[l].pc \in {"fire", "deliver", "purge"} => check'[l].due # <<>>
    BY <1>1, <1>4, <1>6
  <1> QED
    BY <1>5, <1>7, <1>8

\* What a settled check looks like, in the shape of the type invariant.
LEMMA SettledType ==
  ASSUME FileInv, NEW k \in Checks, check[k].due # <<>>, Settle(k, jobs)
  PROVE  /\ check' \in [Checks -> CheckState]
         /\ \A l \in Checks : check'[l].pc \in {"fire", "deliver", "purge"} => check'[l].due # <<>>
         /\ jobs' \in Seq(Job) /\ Distinct(jobs')
  <1>1. /\ check \in [Checks -> CheckState]
        /\ \A l \in Checks : check[l].pc \in {"fire", "deliver", "purge"} => check[l].due # <<>>
    BY DEF FileInv, TypeOK, CheckState
  <1>2. PICK c \in CheckState : /\ check' = [check EXCEPT ![k] = c]
                                /\ c.pc \in {"fire", "write"} /\ (c.pc = "fire" => c.due # <<>>)
    BY SettleIs
  <1>3. check'[k] = c /\ \A l \in Checks : l # k => check'[l] = check[l]
    BY <1>1, <1>2
  <1>4. check' \in [Checks -> CheckState]
    BY <1>1, <1>2
  <1>5. ASSUME NEW l \in Checks, check'[l].pc \in {"fire", "deliver", "purge"}
        PROVE  check'[l].due # <<>>
    <2>1. CASE l = k
      BY <1>2, <1>3, <1>5, <2>1
    <2>2. CASE l # k
      BY <1>1, <1>3, <1>5, <2>2
    <2> QED
      BY <2>1, <2>2
  <1>6. Fewer
    BY SettleIs
  <1> QED
    BY <1>4, <1>5, <1>6 DEF Fewer

\* The last firing of a check makes it join the chain of writes.
LEMMA CloseIs ==
  ASSUME FileInv, NEW k \in Checks, Close(k, writes), snapshot' = snapshot
  PROVE  writes' \in Seq(Writers) /\ OneWriter' /\ ChainStays
  <1>1. CASE writes' = writes
    BY <1>1 DEF FileInv, TypeOK, OneWriter, ChainStays
  <1>2. CASE writes' = Append(writes, Checker(k))
    BY <1>2, PersistIs, WritersAre DEF ChainStays
  <1> QED
    BY <1>1, <1>2 DEF Close

\* A firing that is settled without a write.
LEMMA SettledKeeps ==
  ASSUME FileInv, NEW k \in Checks, check[k].pc \in {"fire", "deliver"},
         Settle(k, jobs), Close(k, writes), delivered' \in [JobIds -> [Times -> Nat]],
         UNCHANGED <<now, timer, user, snapshot, disk, server, alive, overlapped, faults, crashes>>
  PROVE  FileInv'
  <1>1. check[k].due # <<>> /\ server # "down"
    BY NotDown DEF FileInv, TypeOK
  <1>2. /\ Fewer /\ DuesStay /\ KnownStay /\ told' \in [JobIds -> Fates]
        /\ \A j \in JobIds : told'[j] = told[j] \/ told'[j] = "ended"
        /\ \A j \in JobIds : told'[j] = "created" /\ j \in Ids(jobs) => j \in Ids(jobs')
    BY <1>1, SettleIs
  <1>3. /\ check' \in [Checks -> CheckState]
        /\ \A l \in Checks : check'[l].pc \in {"fire", "deliver", "purge"} => check'[l].due # <<>>
        /\ jobs' \in Seq(Job) /\ Distinct(jobs')
    BY <1>1, SettledType
  <1>4. writes' \in Seq(Writers) /\ OneWriter' /\ ChainStays
    BY CloseIs
  <1>5. TypeOK'
    BY <1>2, <1>3, <1>4 DEF FileInv, TypeOK, Distinct, CheckState
  <1>6. DueIsCopied'
    BY <1>2, CopiesStay
  <1> QED
    BY <1>1, <1>2, <1>4, <1>5, <1>6, OtherwiseKeeps

\* A check delivers its prompt, or the session refuses it.
LEMMA DeliverKeeps ==
  ASSUME FileInv, NEW k \in Checks, Deliver(k)
  PROVE  FileInv'
  <1>1. /\ check[k].pc = "deliver" /\ Settle(k, jobs) /\ Close(k, writes)
        /\ UNCHANGED <<now, timer, user, snapshot, disk, server, alive, overlapped, faults, crashes>>
        /\ \/ delivered' = [delivered EXCEPT ![Current(k).job.id][Current(k).point] = @ + 1]
           \/ delivered' = delivered
    BY DEF Deliver, boundVars
  <1>2. Current(k) \in Due
    BY <1>1, SettleIs DEF FileInv, TypeOK
  <1>3. Current(k).job.id \in JobIds /\ Current(k).point \in Times
    BY <1>2, JobIs DEF Due
  <1>4. delivered' \in [JobIds -> [Times -> Nat]]
    <2>1. delivered \in [JobIds -> [Times -> Nat]]
      BY DEF FileInv, TypeOK
    <2> DEFINE j == Current(k).job.id
               t == Current(k).point
    <2>2. j \in JobIds /\ t \in Times /\ delivered[j] \in [Times -> Nat] /\ delivered[j][t] + 1 \in Nat
      BY <1>3, <2>1
    <2>3. delivered' = delivered \/ delivered' = [delivered EXCEPT ![j][t] = delivered[j][t] + 1]
      BY <1>1, <2>1, <2>2
    <2> HIDE DEF j, t
    <2>4. [delivered[j] EXCEPT ![t] = delivered[j][t] + 1] \in [Times -> Nat]
      BY <2>2
    <2> QED
      BY <2>1, <2>2, <2>3, <2>4
  <1> QED
    BY <1>1, <1>4, SettledKeeps

\* A check turns to its next job.
LEMMA FireKeeps ==
  ASSUME FileInv, NEW k \in Checks, Fire(k)
  PROVE  FileInv'
  <1> DEFINE s == Current(k).job.session
             P == {i \in DOMAIN jobs : jobs[i].session = s}
             Q == {i \in DOMAIN jobs : jobs[i].session # s}
  <1>1. /\ check[k].pc = "fire"
        /\ UNCHANGED <<now, timer, user, snapshot, disk, server, alive, delivered, overlapped>>
        /\ UNCHANGED <<faults, crashes>>
    BY DEF Fire, boundVars
  <1>2. check[k].due # <<>> /\ server # "down"
    BY <1>1, NotDown DEF FileInv, TypeOK
  <1>3. CASE check' = [check EXCEPT ![k].pc = "deliver"] /\ UNCHANGED <<jobs, writes, told>>
    <2>1. Fewer /\ KnownStay /\ OneWriter' /\ ChainStays
      BY <1>1, <1>3, SameIsFewer DEF KnownStay, FileInv, OneWriter, ChainStays
    <2>2. /\ DuesStay
          /\ check' \in [Checks -> CheckState]
          /\ \A l \in Checks : check'[l].pc \in {"fire", "deliver", "purge"} => check'[l].due # <<>>
      BY <1>2, <1>3, ToDeliver
    <2>3. TypeOK'
      BY <1>1, <1>3, <2>2 DEF FileInv, TypeOK, CheckState, Distinct
    <2>4. DueIsCopied'
      BY <2>1, <2>2, CopiesStay
    <2> QED
      BY <1>1, <1>2, <1>3, <2>1, <2>3, <2>4, OtherwiseKeeps
  <1>4. CASE /\ jobs' = NotOfSession(s) /\ check' = [check EXCEPT ![k].pc = "purge"]
             /\ Persist(Checker(k))
             /\ told' = [j \in JobIds |-> IF j \in Ids(OfSession(s)) THEN "ended" ELSE told[j]]
    <2>1. jobs' = Filtered(jobs, Q) /\ Q \in SUBSET DOMAIN jobs
      BY <1>4 DEF NotOfSession
    <2>2. OfSession(s) = Filtered(jobs, P) /\ P \in SUBSET DOMAIN jobs
      BY DEF OfSession
    <2>3. Fewer /\ Ids(jobs') = {jobs[i].id : i \in Q}
      BY <2>1, FilterIsFewer
    <2>4. Ids(OfSession(s)) = {jobs[i].id : i \in P}
      <3>1. jobs \in Seq(Job)
        BY DEF FileInv, TypeOK
      <3> HIDE DEF P
      <3>2. Ids(Filtered(jobs, P)) = {jobs[i].id : i \in P}
        BY <2>2, <3>1, JobsFiltered
      <3> QED
        BY <2>2, <3>2
    <2>5. \A j \in JobIds : j \in Ids(jobs) => j \in Ids(jobs') \/ j \in Ids(OfSession(s))
      BY <2>3, <2>4 DEF Ids
    <2>6. /\ told' \in [JobIds -> Fates]
          /\ \A j \in JobIds : told'[j] = told[j] \/ told'[j] = "ended"
          /\ \A j \in JobIds : told'[j] = "created" /\ j \in Ids(jobs) => j \in Ids(jobs')
      BY <1>4, <2>5 DEF FileInv, TypeOK, Fates
    <2>7. KnownStay
      BY <2>6 DEF KnownStay
    <2>8. /\ DuesStay
          /\ check' \in [Checks -> CheckState]
          /\ \A l \in Checks : check'[l].pc \in {"fire", "deliver", "purge"} => check'[l].due # <<>>
      BY <1>2, <1>4, ToPurge
    <2>9. writes' \in Seq(Writers) /\ OneWriter' /\ ChainStays
      BY <1>1, <1>4, PersistIs, WritersAre DEF Persist, ChainStays
    <2>10. jobs' \in Seq(Job) /\ Distinct(jobs')
      BY <2>3 DEF Fewer
    <2>11. TypeOK'
      BY <1>1, <2>6, <2>8, <2>9, <2>10 DEF FileInv, TypeOK, CheckState, Distinct
    <2>12. DueIsCopied'
      BY <2>3, <2>7, <2>8, CopiesStay
    <2> QED
      BY <1>1, <1>2, <2>3, <2>6, <2>7, <2>9, <2>11, <2>12, OtherwiseKeeps
  <1>5. CASE Settle(k, jobs) /\ Close(k, writes)
    <2>1. delivered' \in [JobIds -> [Times -> Nat]]
      BY <1>1 DEF FileInv, TypeOK
    <2> QED
      BY <1>1, <1>5, <2>1, SettledKeeps
  <1> QED
    BY <1>3, <1>4, <1>5 DEF Fire

\* A write is over, well or badly: nobody writes, and the chain goes on.
LEMMA WriteOver ==
  ASSUME FileInv, NEW w \in Writers, Written(w) \/ (WriteFailed(w) /\ Discard(w))
  PROVE  /\ server # "down" /\ timer' \in Times /\ faults' \in 0..MaxTroubles /\ crashes' = crashes
         /\ disk' \in Seq(Job) /\ Distinct(disk')
         /\ disk' = disk \/ \E v \in Writers : disk' \in snapshot[v]
         /\ snapshot' \in [Writers -> SUBSET Seq(Job)] /\ OneWriter'
         /\ \A v \in Writers : snapshot'[v] \subseteq snapshot[v]
  <1>1. CASE Written(w)
    <2>1. /\ disk' \in snapshot[w] /\ disk' \in Seq(Job) /\ Distinct(disk')
          /\ snapshot' = [v \in Writers |-> {}]
          /\ server # "down" /\ UNCHANGED <<faults, crashes>> /\ timer' \in Times
      BY <1>1, WrittenIs DEF boundVars
    <2> QED
      BY <2>1, NoSnapshots DEF FileInv, TypeOK
  <1>2. CASE WriteFailed(w) /\ Discard(w)
    <2>1. /\ UNCHANGED <<disk, timer, crashes>> /\ faults' \in 0..MaxTroubles
          /\ snapshot' = [v \in Writers |-> {}] /\ server # "down"
      BY <1>2, FailedIs
    <2> QED
      BY <2>1, NoSnapshots DEF FileInv, TypeOK, Distinct
  <1> QED
    BY <1>1, <1>2

\* The jobs of a session that is gone are gone from the file too, or their write failed.
LEMMA PurgedKeeps ==
  ASSUME FileInv, NEW k \in Checks, Purged(k)
  PROVE  FileInv'
  <1> DEFINE w == Checker(k)
  <1>1. /\ check[k].pc = "purge" /\ w \in Writers
        /\ Written(w) \/ (WriteFailed(w) /\ Discard(w))
        /\ Settle(k, jobs) /\ Close(k, Left(w))
        /\ UNCHANGED <<now, user, server, alive, delivered, overlapped>>
    BY WritersAre DEF Purged
  <1>2. check[k].due # <<>>
    BY <1>1 DEF FileInv, TypeOK
  <1>3. /\ server # "down" /\ timer' \in Times /\ faults' \in 0..MaxTroubles /\ crashes' = crashes
        /\ disk' \in Seq(Job) /\ Distinct(disk')
        /\ disk' = disk \/ \E v \in Writers : disk' \in snapshot[v]
        /\ snapshot' \in [Writers -> SUBSET Seq(Job)] /\ OneWriter'
        /\ \A v \in Writers : snapshot'[v] \subseteq snapshot[v]
    BY <1>1, WriteOver
  <1>4. /\ Fewer /\ DuesStay /\ KnownStay /\ told' \in [JobIds -> Fates]
        /\ \A j \in JobIds : told'[j] = told[j] \/ told'[j] = "ended"
        /\ \A j \in JobIds : told'[j] = "created" /\ j \in Ids(jobs) => j \in Ids(jobs')
    BY <1>1, <1>2, SettleIs
  <1>5. /\ check' \in [Checks -> CheckState]
        /\ \A l \in Checks : check'[l].pc \in {"fire", "deliver", "purge"} => check'[l].due # <<>>
        /\ jobs' \in Seq(Job) /\ Distinct(jobs')
    BY <1>1, <1>2, SettledType
  <1>6. writes' \in Seq(Writers) /\ ChainStays
    <2> DEFINE q == Left(w)
    <2>1. q \in Seq(Writers) /\ \A n \in DOMAIN q : \E i \in DOMAIN writes : q[n] = writes[i]
      BY <1>1, LeftIs DEF FileInv
    <2>2. writes' = q \/ writes' = Append(q, Checker(k))
      BY <1>1 DEF Close
    <2> HIDE DEF w, q
    <2>3. CASE writes' = q
      BY <2>1, <2>3 DEF ChainStays
    <2>4. CASE writes' = Append(q, Checker(k))
      <3>1. /\ writes' \in Seq(Writers) /\ Len(writes') = Len(q) + 1
            /\ \A i \in 1..Len(q) : writes'[i] = q[i]
            /\ writes'[Len(q) + 1] = Checker(k)
        BY <2>1, <2>4, AppendProperties, WritersAre
      <3>2. Len(q) \in Nat /\ DOMAIN q = 1..Len(q) /\ DOMAIN writes' = 1..Len(writes')
        BY <2>1, <3>1, LenProperties
      <3>3. \A i \in 1..(Len(q) + 1) : i \in 1..Len(q) \/ i = Len(q) + 1
        BY <3>2
      <3>4. \A i \in DOMAIN writes' : (i \in DOMAIN q /\ writes'[i] = q[i]) \/ writes'[i] = Checker(k)
        BY <3>1, <3>2, <3>3
      <3> QED
        BY <2>1, <3>1, <3>4 DEF ChainStays
    <2> QED
      BY <2>2, <2>3, <2>4
  <1>7. TypeOK'
    BY <1>1, <1>3, <1>4, <1>5, <1>6 DEF FileInv, TypeOK, Distinct, CheckState
  <1>8. DueIsCopied'
    BY <1>4, CopiesStay
  <1> QED
    BY <1>1, <1>3, <1>4, <1>6, <1>7, <1>8, OtherwiseKeeps

\* A check that ends.
LEMMA IdleIs ==
  /\ IdleCheck \in CheckState /\ IdleCheck.pc = "idle" /\ IdleCheck.due = <<>>
  /\ IdleUser \in [pc : {"idle", "create", "delete", "purge", "drop"},
                   ids : SUBSET JobIds, sessions : SUBSET Sessions]
  /\ IdleUser.pc = "idle" /\ IdleUser.ids = {}
  /\ DOMAIN <<>> = {}
  <1>1. <<>> \in Seq(Due) /\ DOMAIN <<>> = {}
    BY EmptySeq
  <1>2. 0 \in 0..Horizon
    BY TimesAre
  <1> QED
    BY <1>1, <1>2 DEF IdleCheck, CheckState, IdleUser

\* A check leaves the chain and ends.
LEMMA EndedIs ==
  ASSUME FileInv, NEW k \in Checks, check' = [check EXCEPT ![k] = IdleCheck], Leave(Checker(k))
  PROVE  /\ DuesStay /\ ChainStays /\ writes' \in Seq(Writers)
         /\ check' \in [Checks -> CheckState]
         /\ \A l \in Checks : check'[l].pc \in {"fire", "deliver", "purge"} => check'[l].due # <<>>
  <1>1. /\ check \in [Checks -> CheckState]
        /\ \A l \in Checks : check[l].pc \in {"fire", "deliver", "purge"} => check[l].due # <<>>
    BY DEF FileInv, TypeOK, CheckState
  <1>2. check'[k] = IdleCheck /\ \A l \in Checks : l # k => check'[l] = check[l]
    BY <1>1
  <1>3. check' \in [Checks -> CheckState]
    BY <1>1, IdleIs
  <1>4. \A l \in Checks : check'[l].pc \in {"fire", "deliver", "purge"} => check'[l].due # <<>>
    BY <1>1, <1>2, IdleIs
  <1>5. DuesStay
    <2> SUFFICES ASSUME NEW l \in Checks, NEW i \in DOMAIN check'[l].due
                 PROVE  \E j \in DOMAIN check[l].due :
                          check'[l].due[i] = check[l].due[j] /\ check'[l].at = check[l].at
      BY DEF DuesStay
    <2>1. l # k
      BY <1>2, IdleIs
    <2> QED
      BY <1>2, <2>1
  <1>6. writes' \in Seq(Writers) /\ ChainStays
    BY LeftIs, WritersAre DEF Leave, FileInv, ChainStays
  <1> QED
    BY <1>3, <1>4, <1>5, <1>6

\* The last write of a check took effect.
LEMMA CheckWrittenKeeps ==
  ASSUME FileInv, NEW k \in Checks, CheckWritten(k)
  PROVE  FileInv'
  <1> DEFINE w == Checker(k)
  <1>1. /\ w \in Writers /\ Written(w) /\ Leave(w) /\ check' = [check EXCEPT ![k] = IdleCheck]
        /\ server' \in {"up", server}
        /\ UNCHANGED <<now, jobs, user, alive, told, delivered, overlapped>>
    BY WritersAre DEF CheckWritten, seenVars
  <1>2. /\ server # "down" /\ timer' \in Times /\ faults' \in 0..MaxTroubles /\ crashes' = crashes
        /\ disk' \in Seq(Job) /\ Distinct(disk')
        /\ disk' = disk \/ \E v \in Writers : disk' \in snapshot[v]
        /\ snapshot' \in [Writers -> SUBSET Seq(Job)] /\ OneWriter'
        /\ \A v \in Writers : snapshot'[v] \subseteq snapshot[v]
    BY <1>1, WriteOver
  <1>3. /\ DuesStay /\ ChainStays /\ writes' \in Seq(Writers)
        /\ check' \in [Checks -> CheckState]
        /\ \A l \in Checks : check'[l].pc \in {"fire", "deliver", "purge"} => check'[l].due # <<>>
    BY <1>1, EndedIs
  <1>4. Fewer /\ KnownStay /\ server' # "down" /\ server' \in {"up", "booting", "down"}
    BY <1>1, <1>2, SameIsFewer DEF KnownStay, FileInv, TypeOK
  <1>5. TypeOK'
    BY <1>1, <1>2, <1>3, <1>4 DEF FileInv, TypeOK, Distinct, CheckState
  <1>6. DueIsCopied'
    BY <1>3, <1>4, CopiesStay
  <1> QED
    BY <1>1, <1>2, <1>3, <1>4, <1>5, <1>6, OtherwiseKeeps

\* The process ends: what was told still holds of the file.
LEMMA DieKeeps ==
  ASSUME FileInv, Die, disk' = disk \/ \E w \in Writers : disk' \in snapshot[w],
         UNCHANGED <<now, alive, told, delivered, overlapped>>, server # "down",
         faults' \in 0..MaxTroubles, crashes' \in 0..MaxTroubles
  PROVE  FileInv'
  <1>1. /\ server' = "down" /\ jobs' = <<>> /\ timer' = Never /\ writes' = <<>>
        /\ check' = [k \in Checks |-> IdleCheck]
        /\ user' = [u \in Users |-> IdleUser]
        /\ snapshot' = [w \in Writers |-> {}]
    BY DEF Die
  <1>2. disk' \in Lists
    BY ListsAre
  <1>3. disk' \in Seq(Job) /\ Distinct(disk') /\ \A j \in JobIds : told[j] = "created" => j \in Ids(disk')
    BY <1>2, ListsAre DEF FileInv, AnswersHold, Sound
  <1>4. /\ <<>> \in Seq(Job) /\ <<>> \in Seq(Writers) /\ DOMAIN <<>> = {}
    BY EmptySeq
  <1>5. Distinct(jobs') /\ Ids(jobs') = {}
    BY <1>1, <1>4 DEF Distinct, Ids
  <1>6. /\ \A k \in Checks : check'[k].pc = "idle" /\ check'[k].due = <<>>
        /\ check' \in [Checks -> CheckState]
        /\ user' \in [Users -> [pc : {"idle", "create", "delete", "purge", "drop"},
                               ids : SUBSET JobIds, sessions : SUBSET Sessions]]
        /\ \A u \in Users : user'[u].pc = "idle" /\ user'[u].ids = {}
    BY <1>1, IdleIs
  <1>7. /\ snapshot' \in [Writers -> SUBSET Seq(Job)] /\ OneWriter'
        /\ \A v \in Writers : snapshot'[v] = {} /\ snapshot'[v] \subseteq Lists
        /\ Lists' = {jobs', disk'}
    BY <1>1, NoSnapshots
  <1>8. TypeOK'
    BY <1>1, <1>3, <1>4, <1>5, <1>6, <1>7, TimesAre DEF FileInv, TypeOK, Distinct, CheckState
  <1>9. DownIsEmpty'
    BY <1>1 DEF DownIsEmpty, IdleCheck, IdleUser
  <1>10. OnlyWaiting'
    BY <1>1, <1>4, <1>7, WritersAre DEF OnlyWaiting, Caller
  <1>11. \A js \in Lists' : Sound(js)'
    <2>1. KnownStay
      BY DEF KnownStay
    <2>2. \A js \in Lists : Sound(js)'
      BY <2>1, SoundStays
    <2>3. \A js : js = <<>> => Sound(js)'
      BY <1>4 DEF Sound, Distinct
    <2> QED
      BY <1>1, <1>2, <1>7, <2>2, <2>3
  <1>12. CallersHold'
    BY <1>6 DEF CallersHold
  <1>13. AnswersHold'
    <2> SUFFICES ASSUME NEW j \in JobIds
                 PROVE  /\ told[j] = "created" => j \in Ids(disk')
                        /\ told[j] = "deleted" => j \notin Ids(disk') /\ j \notin Ids(jobs')
      BY <1>1, <1>7 DEF AnswersHold, Ids
    <2> QED
      BY <1>2, <1>3, <1>5 DEF FileInv, AnswersHold
  <1>14. DueIsCopied'
    BY <1>4, <1>6 DEF DueIsCopied
  <1> QED
    BY <1>7, <1>8, <1>9, <1>10, <1>11, <1>12, <1>13, <1>14 DEF FileInv

\* The last write of a check failed.
LEMMA CheckFailedKeeps ==
  ASSUME FileInv, NEW k \in Checks, CheckFailed(k)
  PROVE  FileInv'
  <1> DEFINE w == Checker(k)
  <1>1. w \in Writers /\ WriteFailed(w) /\ UNCHANGED <<now, disk, alive, told, delivered, overlapped>>
    BY WritersAre DEF CheckFailed, seenVars
  <1>2. /\ server # "down" /\ faults' \in 0..MaxTroubles /\ crashes' = crashes
    <2>1. server # "down"
      BY <1>1, NotDown DEF WriteFailed
    <2> QED
      BY <1>1, <2>1, CronBoundAssumption DEF WriteFailed, FileInv, TypeOK
  <1>3. CASE Die
    <2>1. crashes' \in 0..MaxTroubles
      BY <1>2 DEF FileInv, TypeOK
    <2> QED
      BY <1>1, <1>2, <1>3, <2>1, DieKeeps
  <1>4. CASE /\ Leave(w) /\ check' = [check EXCEPT ![k] = IdleCheck] /\ Discard(w)
             /\ UNCHANGED <<jobs, user, server>>
    <2>1. /\ timer' \in Times
          /\ snapshot' \in [Writers -> SUBSET Seq(Job)] /\ OneWriter'
          /\ \A v \in Writers : snapshot'[v] \subseteq snapshot[v]
      BY <1>1, <1>4, WriteOver
    <2>2. /\ DuesStay /\ ChainStays /\ writes' \in Seq(Writers)
          /\ check' \in [Checks -> CheckState]
          /\ \A l \in Checks : check'[l].pc \in {"fire", "deliver", "purge"} => check'[l].due # <<>>
      BY <1>4, EndedIs
    <2>3. Fewer /\ KnownStay
      BY <1>1, <1>4, SameIsFewer DEF KnownStay
    <2>4. TypeOK'
      BY <1>1, <1>2, <1>4, <2>1, <2>2 DEF FileInv, TypeOK, Distinct, CheckState
    <2>5. DueIsCopied'
      BY <2>2, <2>3, CopiesStay
    <2> QED
      BY <1>1, <1>2, <1>4, <2>1, <2>2, <2>3, <2>4, <2>5, OtherwiseKeeps
  <1> QED
    BY <1>3, <1>4 DEF CheckFailed

\* The process crashes; a write that had begun may have replaced the file.
LEMMA CrashKeeps ==
  ASSUME FileInv, Crash
  PROVE  FileInv'
  <1>1. /\ server # "down" /\ Die /\ faults' = faults /\ crashes' = crashes + 1
        /\ faults + crashes < MaxTroubles
        /\ disk' \in {disk} \cup UNION {snapshot[w] : w \in Writers}
        /\ UNCHANGED <<now, alive, told, delivered, overlapped>>
    BY DEF Crash, seenVars
  <1>2. disk' = disk \/ \E w \in Writers : disk' \in snapshot[w]
    BY <1>1
  <1>3. faults' \in 0..MaxTroubles /\ crashes' \in 0..MaxTroubles
    BY <1>1, CronBoundAssumption DEF FileInv, TypeOK
  <1> QED
    BY <1>1, <1>2, <1>3, DieKeeps

\* Time passes.
LEMMA TickKeeps ==
  ASSUME FileInv, Tick
  PROVE  FileInv'
  <1>1. /\ now < Horizon /\ now' = now + 1
        /\ UNCHANGED <<jobs, timer, check, user, writes, snapshot, disk, server, alive>>
        /\ UNCHANGED <<told, delivered, overlapped, faults, crashes>>
    BY DEF Tick, seenVars, boundVars
  <1>2. now' \in 0..Horizon
    BY <1>1, TimesAre DEF FileInv, TypeOK
  <1>3. TypeOK'
    BY <1>1, <1>2 DEF FileInv, TypeOK, Distinct
  <1>4. KnownStay /\ Fewer /\ DuesStay /\ ChainStays /\ OneWriter'
    BY <1>1, SameIsFewer DEF KnownStay, DuesStay, ChainStays, FileInv, OneWriter
  <1>5. DueIsCopied'
    BY <1>4, CopiesStay
  <1>6. CASE server # "down"
    BY <1>1, <1>3, <1>4, <1>5, <1>6, OtherwiseKeeps
  <1>7. CASE server = "down"
    <2>1. DownIsEmpty' /\ OnlyWaiting' /\ CallersHold' /\ AnswersHold'
      BY <1>1 DEF FileInv, DownIsEmpty, OnlyWaiting, CallersHold, AnswersHold, Caller, Lists, Ids,
                  IdleCheck, IdleUser
    <2>2. \A js \in Lists' : Sound(js)'
      BY <1>1, <1>4, ListsAre, ListsStay
    <2> QED
      BY <1>3, <1>4, <1>5, <2>1, <2>2 DEF FileInv
  <1> QED
    BY <1>6, <1>7

\* A user's call begins: before it the user waited for nothing.
LEMMA BegunIs ==
  ASSUME FileInv, NEW u \in Users, NEW pc \in {"create", "delete", "purge", "drop"},
         NEW ids \in SUBSET JobIds, NEW ss \in SUBSET Sessions, Begin(u, pc, ids, ss),
         pc = "drop" => writes' = writes, pc # "drop" => Persist(Caller(u))
  PROVE  /\ server = "up" /\ server' = "up"
         /\ UNCHANGED <<now, timer, check, snapshot, disk, alive, delivered, overlapped, faults, crashes>>
         /\ user' \in [Users -> [pc : {"idle", "create", "delete", "purge", "drop"},
                                 ids : SUBSET JobIds, sessions : SUBSET Sessions]]
         /\ user'[u].pc = pc /\ user'[u].ids = ids
         /\ \A v \in Users : v # u => user'[v] = user[v]
         /\ snapshot[Caller(u)] = {}
         /\ writes' \in Seq(Writers) /\ OneWriter' /\ OnlyWaiting' /\ DuesStay
  <1>1. /\ server = "up" /\ user[u] = IdleUser
        /\ user' = [user EXCEPT ![u] = [pc |-> pc, ids |-> ids, sessions |-> ss]]
        /\ UNCHANGED <<now, timer, check, snapshot, disk, server, alive, delivered, overlapped>>
        /\ UNCHANGED <<faults, crashes>>
    BY DEF Begin, boundVars
  <1>2. user \in [Users -> [pc : {"idle", "create", "delete", "purge", "drop"},
                            ids : SUBSET JobIds, sessions : SUBSET Sessions]]
    BY DEF FileInv, TypeOK
  <1>3. /\ user' \in [Users -> [pc : {"idle", "create", "delete", "purge", "drop"},
                                ids : SUBSET JobIds, sessions : SUBSET Sessions]]
        /\ user'[u].pc = pc /\ user'[u].ids = ids
        /\ \A v \in Users : v # u => user'[v] = user[v]
    BY <1>1, <1>2
  <1>4. snapshot[Caller(u)] = {} /\ \A i \in DOMAIN writes : writes[i] # Caller(u)
    BY <1>1, IdleIs DEF FileInv, OnlyWaiting
  <1>5. /\ writes' \in Seq(Writers) /\ OneWriter'
        /\ \A i \in DOMAIN writes' :
             (pc # "drop" /\ writes'[i] = Caller(u)) \/ \E j \in DOMAIN writes : writes'[i] = writes[j]
    <2>1. CASE pc = "drop"
      BY <1>1, <2>1 DEF FileInv, TypeOK, OneWriter
    <2>2. CASE pc # "drop"
      BY <1>1, <2>2, PersistIs, WritersAre DEF Persist
    <2> QED
      BY <2>1, <2>2
  <1>6. OnlyWaiting'
    <2>1. ASSUME NEW v \in Users, user'[v].pc \notin {"create", "delete", "purge"}
          PROVE  snapshot'[Caller(v)] = {} /\ \A i \in DOMAIN writes' : writes'[i] # Caller(v)
      <3>1. CASE v = u
        BY <1>1, <1>3, <1>4, <1>5, <2>1, <3>1
      <3>2. CASE v # u
        <4>1. snapshot[Caller(v)] = {} /\ \A i \in DOMAIN writes : writes[i] # Caller(v)
          BY <1>3, <2>1, <3>2 DEF FileInv, OnlyWaiting
        <4> QED
          BY <1>1, <1>5, <3>2, <4>1, WritersAre
      <3> QED
        BY <3>1, <3>2
    <2> QED
      BY <2>1 DEF OnlyWaiting, Caller
  <1>7. DuesStay
    BY <1>1 DEF DuesStay
  <1> QED
    BY <1>1, <1>3, <1>4, <1>5, <1>6, <1>7

\* Jobs are taken out of memory: those of a user's call.
LEMMA RemovalKeeps ==
  ASSUME FileInv, NEW u \in Users, NEW pc \in {"delete", "purge", "drop"},
         NEW ids \in SUBSET JobIds, NEW ss \in SUBSET Sessions, Begin(u, pc, ids, ss),
         pc = "drop" => writes' = writes, pc # "drop" => Persist(Caller(u)),
         Tell(ids, "deleting"), Fewer, ids \subseteq Ids(jobs),
         Ids(jobs') \cap ids = {}, Ids(jobs) \subseteq Ids(jobs') \cup ids
  PROVE  FileInv'
  <1>1. /\ server = "up" /\ server' = "up"
        /\ UNCHANGED <<now, timer, check, snapshot, disk, alive, delivered, overlapped, faults, crashes>>
        /\ user' \in [Users -> [pc : {"idle", "create", "delete", "purge", "drop"},
                                ids : SUBSET JobIds, sessions : SUBSET Sessions]]
        /\ user'[u].pc = pc /\ user'[u].ids = ids
        /\ \A v \in Users : v # u => user'[v] = user[v]
        /\ snapshot[Caller(u)] = {}
        /\ writes' \in Seq(Writers) /\ OneWriter' /\ OnlyWaiting' /\ DuesStay
    <2>1. pc \in {"create", "delete", "purge", "drop"}
      OBVIOUS
    <2> QED
      BY <2>1, BegunIs
  <1>2. told' = [j \in JobIds |-> IF j \in ids THEN "deleting" ELSE told[j]]
    BY DEF Tell
  <1>3. /\ told' \in [JobIds -> Fates]
        /\ \A j \in ids : told'[j] = "deleting"
        /\ \A j \in JobIds : j \notin ids => told'[j] = told[j]
    BY <1>2 DEF FileInv, TypeOK, Fates
  <1>4. KnownStay
    BY <1>3 DEF KnownStay
  <1>5. jobs' \in Seq(Job) /\ Distinct(jobs')
    BY DEF Fewer
  <1>6. TypeOK'
    BY <1>1, <1>3, <1>5 DEF FileInv, TypeOK, Distinct
  <1>7. DownIsEmpty'
    BY <1>1 DEF DownIsEmpty
  <1>8. disk' \in Lists /\ \A w \in Writers : snapshot'[w] \subseteq Lists
    BY <1>1, ListsAre
  <1>9. Ids(jobs') \subseteq Ids(jobs)
    BY <1>4, FewerIsSound
  <1>10. CallersHold'
    <2>1. ASSUME NEW v \in Users
          PROVE  /\ \A j \in user'[v].ids : told'[j] # "unused"
                 /\ user'[v].pc = "create" =>
                      \A js \in snapshot[Caller(v)] : user'[v].ids \cap Ids(jobs') \subseteq Ids(js)
                 /\ user'[v].pc \in {"delete", "purge"} =>
                      /\ user'[v].ids \cap Ids(jobs') = {}
                      /\ \A js \in snapshot[Caller(v)] : user'[v].ids \cap Ids(js) = {}
      <3>1. CASE v = u
        BY <1>1, <1>3, <3>1
      <3>2. CASE v # u
        <4>1. user'[v] = user[v] /\ user[v].ids \subseteq JobIds
          BY <1>1, <3>2 DEF FileInv, TypeOK
        <4>2. \A j \in user[v].ids : told[j] # "unused"
          BY DEF FileInv, CallersHold
        <4>3. \A j \in user[v].ids : told'[j] # "unused"
          BY <1>4, <4>1, <4>2 DEF KnownStay
        <4>4. /\ user[v].pc = "create" =>
                   \A js \in snapshot[Caller(v)] : user[v].ids \cap Ids(jobs) \subseteq Ids(js)
              /\ user[v].pc \in {"delete", "purge"} =>
                   /\ user[v].ids \cap Ids(jobs) = {}
                   /\ \A js \in snapshot[Caller(v)] : user[v].ids \cap Ids(js) = {}
          BY DEF FileInv, CallersHold
        <4> QED
          BY <1>9, <4>1, <4>3, <4>4
      <3> QED
        BY <3>1, <3>2
    <2>2. snapshot' = snapshot /\ \A v \in Users : Caller(v)' = Caller(v)
      BY <1>1 DEF Caller
    <2> QED
      BY <2>1, <2>2 DEF CallersHold, Ids
  <1>11. AnswersHold'
    <2> SUFFICES ASSUME NEW j \in JobIds
                 PROVE  /\ told'[j] = "created" =>
                             /\ j \in Ids(disk) /\ j \in Ids(jobs')
                             /\ \A v \in Writers : \A js \in snapshot[v] : j \in Ids(js)
                        /\ told'[j] = "deleted" => \A js \in Lists' : j \notin Ids(js)
      BY <1>1 DEF AnswersHold, Ids
    <2>1. \A js \in Lists' : js \in Lists \/ js = jobs'
      BY <1>1 DEF Lists
    <2>2. CASE j \in ids
      BY <1>3, <2>2
    <2>3. CASE j \notin ids
      <3>1. told'[j] = told[j]
        BY <1>3, <2>3
      <3>2. told[j] = "created" => /\ j \in Ids(disk) /\ j \in Ids(jobs)
                                   /\ \A v \in Writers : \A js \in snapshot[v] : j \in Ids(js)
        BY <1>1 DEF FileInv, AnswersHold
      <3>3. told[j] = "deleted" => \A js \in Lists : j \notin Ids(js)
        BY DEF FileInv, AnswersHold
      <3> QED
        BY <1>9, <2>1, <2>3, <3>1, <3>2, <3>3, ListsAre
    <2> QED
      BY <2>2, <2>3
  <1> QED
    BY <1>1, <1>4, <1>6, <1>7, <1>8, <1>10, <1>11, ListsStay, CopiesStay DEF FileInv

\* A job is deleted.
LEMMA DeleteKeeps ==
  ASSUME FileInv, NEW u \in Users, NEW id \in JobIds, Delete(u, id)
  PROVE  FileInv'
  <1> DEFINE P == {i \in DOMAIN jobs : jobs[i].id # id}
  <1>1. /\ Begin(u, "delete", {id}, {}) /\ id \in Ids(jobs) /\ jobs' = Filtered(jobs, P)
        /\ Tell({id}, "deleting") /\ Persist(Caller(u))
    BY DEF Delete, Without
  <1>2. P \in SUBSET DOMAIN jobs
    OBVIOUS
  <1>3. Fewer /\ Ids(jobs') = {jobs[i].id : i \in P}
    BY <1>1, <1>2, FilterIsFewer
  <1>4. Ids(jobs') \cap {id} = {} /\ Ids(jobs) \subseteq Ids(jobs') \cup {id} /\ {id} \subseteq Ids(jobs)
    BY <1>1, <1>3 DEF Ids
  <1> HIDE DEF P
  <1> QED
    BY <1>1, <1>3, <1>4, RemovalKeeps

\* A session is deleted: its jobs go first.
LEMMA DeleteSessionKeeps ==
  ASSUME FileInv, NEW u \in Users, NEW s \in Sessions, DeleteSession(u, s)
  PROVE  FileInv'
  <1> DEFINE P == {i \in DOMAIN jobs : jobs[i].session = s}
             Q == {i \in DOMAIN jobs : jobs[i].session # s}
             ids == Ids(OfSession(s))
             pc == IF ids = {} THEN "drop" ELSE "purge"
  <1>1. /\ Begin(u, pc, ids, {s}) /\ jobs' = Filtered(jobs, Q)
        /\ Tell(ids, "deleting")
        /\ IF ids = {} THEN UNCHANGED writes ELSE Persist(Caller(u))
    BY DEF DeleteSession, NotOfSession
  <1>2. P \in SUBSET DOMAIN jobs /\ Q \in SUBSET DOMAIN jobs /\ OfSession(s) = Filtered(jobs, P)
    BY DEF OfSession
  <1>3. Fewer /\ Ids(jobs') = {jobs[i].id : i \in Q}
    BY <1>1, <1>2, FilterIsFewer
  <1>4. ids = {jobs[i].id : i \in P}
    <2>1. jobs \in Seq(Job)
      BY DEF FileInv, TypeOK
    <2> HIDE DEF P
    <2> QED
      BY <1>2, <2>1, JobsFiltered
  <1>5. Distinct(jobs) /\ \A i \in DOMAIN jobs : jobs[i].id \in JobIds
    BY ListsAre DEF FileInv, TypeOK
  <1> HIDE DEF ids
  <1>6. ids \subseteq Ids(jobs) /\ ids \subseteq JobIds /\ Ids(jobs) \subseteq Ids(jobs') \cup ids
    BY <1>3, <1>4, <1>5 DEF Ids
  <1>7. Ids(jobs') \cap ids = {}
    BY <1>3, <1>4, <1>5 DEF Distinct
  <1>8. pc \in {"delete", "purge", "drop"} /\ (pc = "drop" <=> ids = {})
    OBVIOUS
  <1> HIDE DEF P, Q, pc
  <1> QED
    BY <1>1, <1>3, <1>6, <1>7, <1>8, RemovalKeeps

\* A job is created: its id was nowhere.
LEMMA CreateKeeps ==
  ASSUME FileInv, NEW u \in Users, NEW id \in JobIds, NEW s \in Sessions, NEW plan \in Schedules,
         Create(u, id, s, plan.times, plan.recurring)
  PROVE  FileInv'
  <1> DEFINE new == [id |-> id, session |-> s, times |-> plan.times, recurring |-> plan.recurring,
                     created |-> now, fired |-> Never]
  <1>1. /\ Begin(u, "create", {id}, {}) /\ Persist(Caller(u)) /\ jobs' = Append(jobs, new)
        /\ told' = [j \in JobIds |-> IF j \in {id} THEN "pending" ELSE told[j]]
        /\ Unused # {} /\ id = CHOOSE i \in Unused : TRUE
    BY DEF Create, Tell
  <1>2. told[id] = "unused"
    BY <1>1 DEF Unused
  <1>3. /\ server = "up" /\ server' = "up"
        /\ UNCHANGED <<now, timer, check, snapshot, disk, alive, delivered, overlapped, faults, crashes>>
        /\ user' \in [Users -> [pc : {"idle", "create", "delete", "purge", "drop"},
                                ids : SUBSET JobIds, sessions : SUBSET Sessions]]
        /\ user'[u].pc = "create" /\ user'[u].ids = {id}
        /\ \A v \in Users : v # u => user'[v] = user[v]
        /\ snapshot[Caller(u)] = {}
        /\ writes' \in Seq(Writers) /\ OneWriter' /\ OnlyWaiting' /\ DuesStay
    <2>1. "create" \in {"create", "delete", "purge", "drop"} /\ "create" # "drop"
          /\ {id} \in SUBSET JobIds /\ {} \in SUBSET Sessions
      OBVIOUS
    <2> QED
      BY <1>1, <2>1, BegunIs
  <1>4. /\ told' \in [JobIds -> Fates] /\ told'[id] = "pending"
        /\ \A j \in JobIds : j # id => told'[j] = told[j]
        /\ KnownStay
    BY <1>1 DEF FileInv, TypeOK, Fates, KnownStay
  <1>5. new \in Job /\ new.id = id /\ new.fired = Never
    <2>1. plan.recurring \in BOOLEAN
      BY TimeAssumption
    <2> QED
      BY <2>1 DEF Job, FileInv, TypeOK
  <1>6. \A js \in Lists : id \notin Ids(js)
    BY <1>2, ListsAre DEF Sound, Ids
  <1>7. jobs \in Seq(Job) /\ Sound(jobs) /\ jobs \in Lists
    BY ListsAre
  <1> HIDE DEF new
  <1>8. /\ jobs' \in Seq(Job) /\ Len(jobs) \in Nat /\ Len(jobs') = Len(jobs) + 1
        /\ DOMAIN jobs = 1..Len(jobs) /\ DOMAIN jobs' = 1..(Len(jobs) + 1)
        /\ \A i \in DOMAIN jobs : jobs'[i] = jobs[i]
        /\ jobs'[Len(jobs) + 1] = new
    BY <1>1, <1>5, <1>7, AppendProperties, LenProperties
  <1>9. \A i \in DOMAIN jobs' : (i \in DOMAIN jobs /\ jobs'[i] = jobs[i])
                                \/ (i = Len(jobs) + 1 /\ jobs'[i] = new)
    BY <1>8
  <1>10. Ids(jobs') = Ids(jobs) \cup {id}
    <2>1. DOMAIN jobs \subseteq DOMAIN jobs' /\ Len(jobs) + 1 \in DOMAIN jobs'
      BY <1>8
    <2> QED
      BY <1>5, <1>8, <1>9, <2>1 DEF Ids
  <1>11. Distinct(jobs')
    <2>1. \A i \in DOMAIN jobs : jobs[i].id # id
      BY <1>6, <1>7 DEF Ids
    <2> QED
      BY <1>5, <1>7, <1>9, <2>1 DEF Distinct, Sound
  <1>12. \A js : js = jobs' => Sound(js)'
    <2>1. \A i \in DOMAIN jobs : jobs[i].id \in JobIds
      BY <1>7, ListsAre
    <2>2. ASSUME NEW i \in DOMAIN jobs'
          PROVE  /\ told'[jobs'[i].id] # "unused"
                 /\ ~jobs'[i].recurring => jobs'[i].fired = Never
                 /\ jobs'[i].fired # Never => jobs'[i].fired < Expiry(jobs'[i])
      <3>1. CASE i \in DOMAIN jobs /\ jobs'[i] = jobs[i]
        BY <1>4, <1>7, <2>1, <3>1 DEF Sound, KnownStay
      <3>2. CASE jobs'[i] = new
        BY <1>4, <1>5, <3>2
      <3> QED
        BY <1>9, <3>1, <3>2
    <2> QED
      BY <1>11, <2>2 DEF Sound, Distinct, Expiry
  <1>13. \A js \in Lists' : js \in Lists \/ js = jobs'
    BY <1>3 DEF Lists
  <1>14. \A js \in Lists' : Sound(js)'
    BY <1>4, <1>12, <1>13, SoundStays
  <1>15. TypeOK'
    BY <1>3, <1>4, <1>8, <1>11 DEF FileInv, TypeOK, Distinct
  <1>16. DownIsEmpty'
    BY <1>3 DEF DownIsEmpty
  <1>17. CallersHold'
    <2>1. ASSUME NEW v \in Users
          PROVE  /\ \A j \in user'[v].ids : told'[j] # "unused"
                 /\ user'[v].pc = "create" =>
                      \A js \in snapshot[Caller(v)] : user'[v].ids \cap Ids(jobs') \subseteq Ids(js)
                 /\ user'[v].pc \in {"delete", "purge"} =>
                      /\ user'[v].ids \cap Ids(jobs') = {}
                      /\ \A js \in snapshot[Caller(v)] : user'[v].ids \cap Ids(js) = {}
      <3>1. CASE v = u
        BY <1>3, <1>4, <3>1
      <3>2. CASE v # u
        <4>1. user'[v] = user[v] /\ user[v].ids \subseteq JobIds
          BY <1>3, <3>2 DEF FileInv, TypeOK
        <4>2. \A j \in user[v].ids : told[j] # "unused"
          BY DEF FileInv, CallersHold
        <4>3. \A j \in user[v].ids : told'[j] # "unused" /\ j # id
          BY <1>2, <1>4, <4>1, <4>2 DEF KnownStay
        <4>4. /\ user[v].pc = "create" =>
                   \A js \in snapshot[Caller(v)] : user[v].ids \cap Ids(jobs) \subseteq Ids(js)
              /\ user[v].pc \in {"delete", "purge"} =>
                   /\ user[v].ids \cap Ids(jobs) = {}
                   /\ \A js \in snapshot[Caller(v)] : user[v].ids \cap Ids(js) = {}
          BY DEF FileInv, CallersHold
        <4> QED
          BY <1>10, <4>1, <4>3, <4>4
      <3> QED
        BY <3>1, <3>2
    <2>2. snapshot' = snapshot /\ \A v \in Users : Caller(v)' = Caller(v)
      BY <1>3 DEF Caller
    <2> QED
      BY <2>1, <2>2 DEF CallersHold, Ids
  <1>18. AnswersHold'
    <2> SUFFICES ASSUME NEW j \in JobIds
                 PROVE  /\ told'[j] = "created" =>
                             /\ j \in Ids(disk) /\ j \in Ids(jobs')
                             /\ \A v \in Writers : \A js \in snapshot[v] : j \in Ids(js)
                        /\ told'[j] = "deleted" => \A js \in Lists' : j \notin Ids(js)
      BY <1>3 DEF AnswersHold, Ids
    <2>1. CASE j = id
      BY <1>4, <2>1
    <2>2. CASE j # id
      <3>1. told'[j] = told[j]
        BY <1>4, <2>2
      <3>2. told[j] = "created" => /\ j \in Ids(disk) /\ j \in Ids(jobs)
                                   /\ \A v \in Writers : \A js \in snapshot[v] : j \in Ids(js)
        BY <1>3 DEF FileInv, AnswersHold
      <3>3. told[j] = "deleted" => \A js \in Lists : j \notin Ids(js)
        BY DEF FileInv, AnswersHold
      <3> QED
        BY <1>7, <1>10, <1>13, <2>2, <3>1, <3>2, <3>3
    <2> QED
      BY <2>1, <2>2
  <1>19. DueIsCopied'
    <2> SUFFICES ASSUME NEW k \in Checks, NEW i \in DOMAIN check[k].due
                 PROVE  LET d == check[k].due[i]
                        IN  /\ told'[d.job.id] # "unused"
                            /\ ~d.stale /\ d.job.recurring => check[k].at < Expiry(d.job)
                            /\ \A n \in DOMAIN jobs' : jobs'[n].id = d.job.id =>
                                  /\ jobs'[n].recurring = d.job.recurring
                                  /\ jobs'[n].created = d.job.created
      BY <1>3 DEF DueIsCopied, Expiry
    <2> DEFINE d == check[k].due[i]
    <2>1. /\ told[d.job.id] # "unused"
          /\ ~d.stale /\ d.job.recurring => check[k].at < Expiry(d.job)
          /\ \A n \in DOMAIN jobs : jobs[n].id = d.job.id =>
                jobs[n].recurring = d.job.recurring /\ jobs[n].created = d.job.created
      BY DEF FileInv, DueIsCopied
    <2>2. d \in Due
      BY ElementOfSeq, LenProperties DEF FileInv, TypeOK
    <2>3. d.job.id \in JobIds
      BY <2>2, JobIs DEF Due
    <2> HIDE DEF d
    <2>4. d.job.id # id /\ told'[d.job.id] # "unused"
      BY <1>2, <1>4, <2>1, <2>3 DEF KnownStay
    <2>5. \A n \in DOMAIN jobs' : jobs'[n].id = d.job.id =>
              jobs'[n].recurring = d.job.recurring /\ jobs'[n].created = d.job.created
      BY <1>5, <1>9, <2>1, <2>4
    <2> QED
      BY <2>1, <2>4, <2>5 DEF d
  <1> QED
    BY <1>3, <1>14, <1>15, <1>16, <1>17, <1>18, <1>19 DEF FileInv

\* The process starts and reads the file.
LEMMA BootKeeps ==
  ASSUME FileInv, NEW k \in Checks, Boot(k)
  PROVE  FileInv'
  <1>1. /\ server = "down" /\ jobs' = disk /\ Start(k, disk, TRUE)
        /\ UNCHANGED <<now, user, writes, snapshot, disk, alive, told, delivered, overlapped>>
        /\ UNCHANGED <<faults, crashes>>
    BY DEF Boot, seenVars, boundVars
  <1>2. /\ jobs = <<>> /\ writes = <<>>
        /\ check = [l \in Checks |-> IdleCheck]
        /\ user = [u \in Users |-> IdleUser]
        /\ snapshot = [w \in Writers |-> {}]
    BY <1>1 DEF FileInv, DownIsEmpty
  <1>3. /\ disk \in Lists /\ disk \in Seq(Job) /\ Sound(disk) /\ TypeOK
        /\ Lists = {jobs, disk} /\ Lists' = {disk}
    BY <1>1, <1>2, ListsAre DEF Lists, FileInv
  <1>4. \A l \in Checks : check[l].due = <<>>
    BY <1>2, IdleIs
  <1>5. TypeOK' /\ DueIsCopied' /\ server' # "down"
    <2>1. CASE DueOf(disk) = <<>>
      <3>1. timer' = Rearmed(disk) /\ server' = "up" /\ check' = check
        BY <1>1, <2>1 DEF Start
      <3>2. timer' \in Times
        BY <1>3, <3>1, RearmedIs DEF Sound
      <3>3. TypeOK'
        BY <1>1, <1>3, <3>1, <3>2 DEF TypeOK, Distinct
      <3>4. DueIsCopied'
        BY <1>4, <3>1, IdleIs DEF DueIsCopied
      <3> QED
        BY <3>1, <3>3, <3>4
    <2>2. CASE DueOf(disk) # <<>>
      <3> DEFINE c == [pc |-> "fire", at |-> now, due |-> DueOf(disk), boot |-> TRUE]
      <3>1. timer' = Never /\ server' = "booting" /\ check' = [check EXCEPT ![k] = c]
        BY <1>1, <2>2 DEF Start
      <3>2. DueIsCopied' /\ DueOf(disk) \in Seq(Due)
        BY <1>1, <1>3, <1>4, <3>1, NewDues
      <3>3. c \in CheckState /\ c.due # <<>>
        BY <1>3, <2>2, <3>2 DEF CheckState, TypeOK
      <3> HIDE DEF c
      <3>4. /\ check' \in [Checks -> CheckState]
            /\ \A l \in Checks : check'[l].pc \in {"fire", "deliver", "purge"} => check'[l].due # <<>>
        BY <1>3, <3>1, <3>3 DEF TypeOK, CheckState
      <3>5. TypeOK'
        BY <1>1, <1>3, <3>1, <3>4, TimesAre DEF TypeOK, Distinct, CheckState
      <3> QED
        BY <3>1, <3>2, <3>5
    <2> QED
      BY <2>1, <2>2
  <1>6. DownIsEmpty' /\ OneWriter' /\ OnlyWaiting'
    BY <1>1, <1>5 DEF FileInv, DownIsEmpty, OneWriter, OnlyWaiting, Caller
  <1>7. \A js \in Lists' : Sound(js)'
    <2>1. KnownStay
      BY <1>1 DEF KnownStay
    <2> QED
      BY <1>3, <2>1, SoundStays
  <1>8. CallersHold'
    <2>1. \A u \in Users : user'[u].pc = "idle" /\ user'[u].ids = {}
      BY <1>1, <1>2, IdleIs
    <2> QED
      BY <2>1 DEF CallersHold
  <1>9. AnswersHold'
    <2> SUFFICES ASSUME NEW j \in JobIds
                 PROVE  /\ told[j] = "created" =>
                             j \in Ids(disk) /\ \A w \in Writers : \A js \in snapshot[w] : j \in Ids(js)
                        /\ told[j] = "deleted" => j \notin Ids(disk)
      BY <1>1, <1>3 DEF AnswersHold, Ids
    <2> QED
      BY <1>3 DEF FileInv, AnswersHold
  <1> QED
    BY <1>5, <1>6, <1>7, <1>8, <1>9 DEF FileInv

\* At the beginning there is no job anywhere.
LEMMA InitFile ==
  ASSUME Init
  PROVE  FileInv
  <1>1. /\ <<>> \in Seq(Job) /\ <<>> \in Seq(Writers) /\ DOMAIN <<>> = {}
    BY EmptySeq
  <1>2. /\ \A k \in Checks : check[k].pc = "idle" /\ check[k].due = <<>>
        /\ check \in [Checks -> CheckState]
        /\ user \in [Users -> [pc : {"idle", "create", "delete", "purge", "drop"},
                               ids : SUBSET JobIds, sessions : SUBSET Sessions]]
        /\ \A u \in Users : user[u].pc = "idle" /\ user[u].ids = {}
    BY IdleIs DEF Init
  <1>3. jobs = <<>> /\ disk = <<>> /\ writes = <<>> /\ \A w \in Writers : snapshot[w] = {}
    BY DEF Init
  <1>4. /\ snapshot \in [Writers -> SUBSET Seq(Job)]
        /\ delivered \in [JobIds -> [Times -> Nat]]
        /\ told \in [JobIds -> Fates]
    BY DEF Init, Fates
  <1>5. now \in 0..Horizon /\ timer \in Times /\ faults \in 0..MaxTroubles /\ crashes \in 0..MaxTroubles
    BY TimesAre, CronBoundAssumption DEF Init
  <1>6. Distinct(<<>>) /\ Ids(<<>>) = {}
    BY <1>1 DEF Distinct, Ids
  <1>7. TypeOK
    BY <1>1, <1>2, <1>3, <1>4, <1>5, <1>6 DEF Init, TypeOK, CheckState
  <1>8. Lists = {<<>>}
    BY <1>3 DEF Lists
  <1>9. DownIsEmpty /\ OneWriter /\ OnlyWaiting
    <2>1. DownIsEmpty
      BY DEF Init, DownIsEmpty
    <2>2. OneWriter
      BY <1>3 DEF OneWriter
    <2>3. OnlyWaiting
      BY <1>1, <1>3, WritersAre DEF OnlyWaiting
    <2> QED
      BY <2>1, <2>2, <2>3
  <1>10. \A js \in Lists : Sound(js)
    BY <1>1, <1>6, <1>8 DEF Sound
  <1>11. CallersHold /\ DueIsCopied
    BY <1>1, <1>2 DEF CallersHold, DueIsCopied
  <1>12. AnswersHold
    <2>1. \A j \in JobIds : told[j] = "unused"
      BY DEF Init
    <2> QED
      BY <2>1 DEF AnswersHold
  <1> QED
    BY <1>7, <1>9, <1>10, <1>11, <1>12 DEF FileInv

\* Nothing happens.
LEMMA StutterFile ==
  ASSUME FileInv, UNCHANGED vars
  PROVE  FileInv'
  <1>1. /\ UNCHANGED <<now, jobs, timer, check, user, writes, snapshot, disk, server, alive>>
        /\ UNCHANGED <<told, delivered, overlapped, faults, crashes>>
    BY DEF vars, seenVars, boundVars
  <1>2. TypeOK'
    BY <1>1 DEF FileInv, TypeOK, Distinct
  <1>3. DownIsEmpty' /\ OneWriter' /\ OnlyWaiting' /\ CallersHold' /\ AnswersHold'
    BY <1>1 DEF FileInv, DownIsEmpty, OneWriter, OnlyWaiting, CallersHold, AnswersHold, Caller, Lists,
                Ids, IdleCheck, IdleUser
  <1>4. KnownStay /\ Fewer /\ DuesStay
    BY <1>1, SameIsFewer DEF KnownStay, DuesStay
  <1>5. \A js \in Lists' : Sound(js)'
    BY <1>1, <1>4, ListsAre, ListsStay
  <1>6. DueIsCopied'
    BY <1>4, CopiesStay
  <1> QED
    BY <1>2, <1>3, <1>5, <1>6 DEF FileInv

\* Every step keeps what makes the file agree with the answers.
LEMMA NextFile ==
  ASSUME FileInv, [Next]_vars
  PROVE  FileInv'
  <1>1. CASE UNCHANGED vars
    BY <1>1, StutterFile
  <1>2. CASE Progress
    <2>1. CASE \E w \in Writers : BeginWrite(w)
      BY <2>1, BeginWriteKeeps
    <2>2. CASE \E u \in Users : DropSession(u) \/ UserWritten(u) \/ UserFailed(u)
      BY <2>2, DropSessionKeeps, UserWrittenKeeps, UserFailedKeeps
    <2>3. CASE \E k \in Checks : \/ BeginCheck(k) \/ Fire(k) \/ Purged(k)
                                 \/ Deliver(k) \/ CheckWritten(k) \/ CheckFailed(k)
      BY <2>3, BeginCheckKeeps, FireKeeps, PurgedKeeps, DeliverKeeps, CheckWrittenKeeps, CheckFailedKeeps
    <2> QED
      BY <1>2, <2>1, <2>2, <2>3 DEF Progress
  <1>3. CASE \E u \in Users, id \in JobIds, s \in Sessions, plan \in Schedules :
               Create(u, id, s, plan.times, plan.recurring)
    BY <1>3, CreateKeeps
  <1>4. CASE \E u \in Users, id \in JobIds : Delete(u, id)
    BY <1>4, DeleteKeeps
  <1>5. CASE \E u \in Users, s \in Sessions : DeleteSession(u, s)
    BY <1>5, DeleteSessionKeeps
  <1>6. CASE Tick
    BY <1>6, TickKeeps
  <1>7. CASE Crash
    BY <1>7, CrashKeeps
  <1>8. CASE \E k \in Checks : Boot(k)
    BY <1>8, BootKeeps
  <1> QED
    BY <1>1, <1>2, <1>3, <1>4, <1>5, <1>6, <1>7, <1>8 DEF Next

\* What makes the file agree with the answers holds in every state; with it the type invariant,
\* the distinct ids of any list of jobs, and the single writer of cron.json.
THEOREM FileInvariant == Spec => []FileInv
<1>1. Init => FileInv
  BY InitFile
<1>2. FileInv /\ [Next]_vars => FileInv'
  BY NextFile
<1> QED
  BY <1>1, <1>2, PTL DEF Spec

\* A job whose creation was answered is in cron.json until it is deleted or over, and one whose
\* deletion was answered does not come back, whatever is written, fails or crashes meanwhile
\* (create(), delete(), check() and the chain of persist()).
THEOREM AnswersSurvive == Spec => []DiskAgrees
<1>1. FileInv => DiskAgrees
  BY ListsAre DEF FileInv, AnswersHold, DiskAgrees
<1> QED
  BY <1>1, FileInvariant, PTL

\* The timer that reschedule() has set covers the jobs.
LEMMA RearmedCovers ==
  ASSUME FileInv, NEW js \in Lists, jobs' = js, now' = now, timer' = Rearmed(js)
  PROVE  TimerInv'
  <1>1. TypeOK /\ js \in Seq(Job) /\ \A i \in DOMAIN js : ~js[i].recurring => js[i].fired = Never
    BY ListsAre DEF FileInv, Sound
  <1>2. \A i \in DOMAIN js :
              Rearmed(js) <= IF IsDue(js[i]) THEN now ELSE Max({now, NextAction(js[i])})
    BY <1>1, RearmedIs
  <1>3. ASSUME NEW i \in DOMAIN jobs'
        PROVE  Covered(jobs[i])'
    <2>1. (IsDue(jobs[i])' <=> IsDue(js[i])) /\ NextAction(jobs[i])' = NextAction(js[i])
      BY DEF IsDue, IsStale, NextAction, Reference, Expiry
    <2>2. Rearmed(js) <= IF IsDue(js[i]) THEN now ELSE Max({now, NextAction(js[i])})
      BY <1>2, <1>3
    <2> QED
      BY <2>1, <2>2 DEF Covered
  <1> QED
    BY <1>3 DEF TimerInv

\* The timer stays, and so do those jobs that are still there.
LEMMA CoverStays ==
  ASSUME FileInv, TimerInv, UNCHANGED <<now, timer, writes, check, server, faults>>,
         \A n \in DOMAIN jobs' : \E i \in DOMAIN jobs : jobs'[n] = jobs[i]
  PROVE  TimerInv'
  <1> SUFFICES ASSUME Quiet', faults' = 0, NEW n \in DOMAIN jobs'
               PROVE  Covered(jobs[n])'
    BY DEF TimerInv
  <1>1. PICK i \in DOMAIN jobs : jobs'[n] = jobs[i]
    OBVIOUS
  <1>2. Quiet
    BY DEF Quiet, Checking, IdleCheck
  <1>3. Covered(jobs[i])
    BY <1>2 DEF TimerInv
  <1>4. (IsDue(jobs[n])' <=> IsDue(jobs[i])) /\ NextAction(jobs[n])' = NextAction(jobs[i])
    BY <1>1 DEF IsDue, IsStale, NextAction, Reference, Expiry
  <1> QED
    BY <1>1, <1>3, <1>4 DEF Covered

\* While a call waits for its write nothing is asked of the timer.
LEMMA NotQuiet ==
  ASSUME \/ writes' # <<>> \/ server' # "up" \/ faults' > 0
         \/ \E k \in Checks : check'[k].pc # "idle"
  PROVE  TimerInv'
  BY DEF TimerInv, Quiet, Checking, IdleCheck

\* Every step keeps the timer right.
LEMMA NextTimer ==
  ASSUME FileInv, TimerInv, [Next]_vars
  PROVE  TimerInv'
  <1>1. FileInv'
    BY NextFile
  <1>2. check \in [Checks -> CheckState] /\ faults \in Nat /\ jobs \in Lists /\ disk \in Lists
    BY ListsAre, CronBoundAssumption DEF FileInv, TypeOK, CheckState
  <1>3. CASE UNCHANGED vars
    BY <1>3, CoverStays DEF vars, seenVars, boundVars
  <1>4. ASSUME NEW w \in Writers, BeginWrite(w) PROVE TimerInv'
    BY <1>4, NotQuiet DEF BeginWrite, MayWrite
  <1>5. ASSUME NEW u \in Users, DropSession(u) PROVE TimerInv'
    BY <1>5, CoverStays DEF DropSession, boundVars
  <1>6. ASSUME NEW u \in Users, UserWritten(u) PROVE TimerInv'
    BY <1>2, <1>6, RearmedCovers DEF UserWritten, Answered, Written
  <1>7. ASSUME NEW w \in Writers, WriteFailed(w) PROVE TimerInv'
    <2>1. faults' > 0
      BY <1>2, <1>7 DEF WriteFailed
    <2> QED
      BY <2>1, NotQuiet
  <1>8. ASSUME NEW u \in Users, UserFailed(u) PROVE TimerInv'
    BY <1>7, <1>8, WritersAre DEF UserFailed
  <1>9. ASSUME NEW k \in Checks, BeginCheck(k) PROVE TimerInv'
    <2>1. Start(k, jobs, FALSE) /\ UNCHANGED <<now, jobs>>
      BY <1>9 DEF BeginCheck
    <2>2. CASE timer' = Rearmed(jobs)
      BY <1>2, <2>1, <2>2, RearmedCovers
    <2>3. CASE check' = [check EXCEPT ![k] = [pc |-> "fire", at |-> now, due |-> DueOf(jobs),
                                              boot |-> FALSE]]
      BY <1>2, <2>3, NotQuiet
    <2> QED
      BY <2>1, <2>2, <2>3 DEF Start
  <1>10. ASSUME NEW k \in Checks, check[k].due # <<>>, Settle(k, jobs) PROVE TimerInv'
    <2>1. PICK c \in CheckState : check' = [check EXCEPT ![k] = c] /\ c.pc \in {"fire", "write"}
      BY <1>10, SettleIs
    <2>2. check'[k].pc # "idle"
      BY <1>2, <2>1
    <2> QED
      BY <2>2, NotQuiet
  <1>11. ASSUME NEW k \in Checks, Fire(k) PROVE TimerInv'
    <2>1. check[k].due # <<>>
      BY <1>11 DEF Fire, FileInv, TypeOK
    <2>2. CASE check' = [check EXCEPT ![k].pc = "deliver"]
      BY <1>2, <2>2, NotQuiet
    <2>3. CASE check' = [check EXCEPT ![k].pc = "purge"]
      BY <1>2, <2>3, NotQuiet
    <2>4. CASE Settle(k, jobs)
      BY <1>10, <2>1, <2>4
    <2> QED
      BY <1>11, <2>2, <2>3, <2>4 DEF Fire
  <1>12. ASSUME NEW k \in Checks, Purged(k) \/ Deliver(k) PROVE TimerInv'
    <2>1. check[k].due # <<>> /\ Settle(k, jobs)
      BY <1>12 DEF Purged, Deliver, FileInv, TypeOK
    <2> QED
      BY <1>10, <2>1
  <1>13. ASSUME NEW k \in Checks, CheckWritten(k) PROVE TimerInv'
    BY <1>2, <1>13, RearmedCovers DEF CheckWritten, Written
  <1>14. ASSUME NEW k \in Checks, CheckFailed(k) PROVE TimerInv'
    BY <1>7, <1>14, WritersAre DEF CheckFailed
  <1>15. CASE Progress
    BY <1>4, <1>5, <1>6, <1>8, <1>9, <1>11, <1>12, <1>13, <1>14, <1>15 DEF Progress
  <1>16. ASSUME NEW u \in Users, Persist(Caller(u)) PROVE TimerInv'
    <2>1. writes' # <<>>
      <3>1. writes \in Seq(Writers) /\ Caller(u) \in Writers /\ writes' = Append(writes, Caller(u))
        BY <1>16, WritersAre DEF Persist, FileInv, TypeOK
      <3> QED
        BY <3>1, AppendProperties
    <2> QED
      BY <2>1, NotQuiet
  <1>17. ASSUME NEW u \in Users, NEW id \in JobIds, Delete(u, id) PROVE TimerInv'
    BY <1>16, <1>17 DEF Delete
  <1>18. ASSUME NEW u \in Users, NEW id \in JobIds, NEW s \in Sessions, NEW plan \in Schedules,
                Create(u, id, s, plan.times, plan.recurring)
         PROVE  TimerInv'
    BY <1>16, <1>18 DEF Create
  <1>19. ASSUME NEW u \in Users, NEW s \in Sessions, DeleteSession(u, s) PROVE TimerInv'
    <2> DEFINE Q == {i \in DOMAIN jobs : jobs[i].session # s}
    <2>1. /\ UNCHANGED <<now, timer, check, server, faults>>
          /\ jobs' = Filtered(jobs, Q) /\ (writes' = writes \/ Persist(Caller(u)))
      BY <1>19 DEF DeleteSession, Begin, NotOfSession, boundVars
    <2>2. \A n \in DOMAIN jobs' : \E i \in Q : jobs'[n] = jobs[i]
      <3>1. jobs \in Seq(Job) /\ Q \in SUBSET DOMAIN jobs
        BY DEF FileInv, TypeOK
      <3> HIDE DEF Q
      <3> QED
        BY <2>1, <3>1, JobsFiltered
    <2> QED
      BY <1>16, <2>1, <2>2, CoverStays
  <1>20. CASE Tick
    <2>1. /\ now < Horizon /\ now' = now + 1
          /\ UNCHANGED <<jobs, timer, check, writes, server, faults>>
      BY <1>20 DEF Tick, boundVars
    <2> SUFFICES ASSUME Quiet', faults' = 0, NEW i \in DOMAIN jobs'
                 PROVE  Covered(jobs[i])'
      BY DEF TimerInv
    <2>2. Quiet /\ i \in DOMAIN jobs
      BY <2>1 DEF Quiet, Checking, IdleCheck
    <2>3. Covered(jobs[i])
      BY <2>1, <2>2 DEF TimerInv
    <2> DEFINE job == jobs[i]
    <2>4. job \in Job /\ (~job.recurring => job.fired = Never) /\ TypeOK
      BY <2>2, ListsAre DEF Sound, FileInv
    <2>5. \A jb \in Job : jb = job => Covered(jb)'
      BY <2>1, <2>3, <2>4, CoveredLater
    <2>6. \A jb \in Job : jb = job => Covered(jb)' = Covered(jobs[i])'
      BY <2>1 DEF Covered, IsDue, IsStale, NextAction, Reference, Expiry
    <2> QED
      BY <2>4, <2>5, <2>6
  <1>21. CASE Crash
    BY <1>21, NotQuiet DEF Crash, Die
  <1>22. ASSUME NEW k \in Checks, Boot(k) PROVE TimerInv'
    <2>1. Start(k, disk, TRUE) /\ now' = now /\ jobs' = disk
      BY <1>22 DEF Boot
    <2>2. CASE timer' = Rearmed(disk)
      BY <1>2, <2>1, <2>2, RearmedCovers
    <2>3. CASE check' = [check EXCEPT ![k] = [pc |-> "fire", at |-> now, due |-> DueOf(disk),
                                              boot |-> TRUE]]
      BY <1>2, <2>3, NotQuiet
    <2> QED
      BY <2>1, <2>2, <2>3 DEF Start
  <1> QED
    BY <1>3, <1>15, <1>17, <1>18, <1>19, <1>20, <1>21, <1>22 DEF Next

\* Once every call is done the timer goes off no later than the first action of any job, unless
\* a write failed: no reschedule() of one call undoes that of another, and the clock that runs
\* meanwhile undoes none (reschedule(), check(), create(), delete(), load()).
THEOREM TimerIsRight == Spec => []TimerCoversJobs
<1>1. Init => TimerInv
  BY EmptySeq DEF Init, TimerInv
<1>2. FileInv /\ TimerInv /\ [Next]_vars => TimerInv'
  BY NextTimer
<1>3. FileInv /\ TimerInv => TimerCoversJobs
  BY DEF FileInv, TimerInv, TimerCoversJobs, Covered
<1> QED
  BY <1>1, <1>2, <1>3, FileInvariant, PTL DEF Spec

\* What a check that goes on keeps of its due jobs.
DuesAlike ==
    \A k \in Checks :
        \/ check'[k] = IdleCheck
        \/ /\ check[k] # IdleCheck
           /\ check'[k].due = check[k].due /\ check'[k].at = check[k].at
           /\ check'[k].boot = check[k].boot
        \/ check'[k] = check[k]

\* A step that fires nothing.
LEMMA AheadStays ==
  ASSUME FileInv, FileInv', PointsInv, KnownStay, delivered' = delivered,
         crashes' = 0 => crashes = 0, overlapped' = overlapped,
         ~overlapped /\ crashes = 0 /\ crashes' = 0 => server' = "up" /\ DuesAlike,
         \A n \in DOMAIN jobs' : \/ \E i \in DOMAIN jobs : jobs'[n] = jobs[i]
                                 \/ jobs'[n].id \in JobIds /\ told[jobs'[n].id] = "unused"
  PROVE  PointsInv'
  <1>1. \A j \in JobIds : told'[j] = "unused" => \A t \in Times : delivered'[j][t] = 0
    BY DEF PointsInv, KnownStay
  <1> SUFFICES ASSUME ~overlapped', crashes' = 0
               PROVE  Ahead'
    BY <1>1 DEF PointsInv
  <1>2. Ahead /\ server' = "up" /\ DuesAlike
    BY DEF PointsInv
  <1>3. \A job : Past(job)' <=> Past(job)
    BY DEF Past, Reference
  <1>4. ASSUME NEW n \in DOMAIN jobs' PROVE Past(jobs'[n])
    <2>1. CASE \E i \in DOMAIN jobs : jobs'[n] = jobs[i]
      BY <1>2, <2>1 DEF Ahead
    <2>2. CASE jobs'[n].id \in JobIds /\ told[jobs'[n].id] = "unused"
      <3>1. \A t \in Times : delivered[jobs'[n].id][t] = 0
        BY <2>2 DEF PointsInv
      <3> QED
        BY <3>1 DEF Past
    <2> QED
      BY <2>1, <2>2
  <1>5. \A k, l \in Checks : check'[k] # IdleCheck /\ check'[l] # IdleCheck => k = l
    <2>1. \A k \in Checks : check'[k] # IdleCheck => check[k] # IdleCheck
      BY <1>2 DEF DuesAlike
    <2> QED
      BY <1>2, <2>1 DEF Ahead, Checking
  <1>6. ASSUME NEW k \in Checks
        PROVE  /\ ~check'[k].boot
               /\ \A i \in DOMAIN check'[k].due :
                    LET d == check'[k].due[i]
                    IN  Past(d.job) /\ Reference(d.job) < d.point /\ d.point <= check'[k].at
               /\ \A i, j \in DOMAIN check'[k].due :
                    check'[k].due[i].job.id = check'[k].due[j].job.id => i = j
    <2>1. CASE check'[k] = IdleCheck
      <3>1. IdleCheck.boot = FALSE /\ DOMAIN IdleCheck.due = {}
        BY IdleIs DEF IdleCheck
      <3> QED
        BY <2>1, <3>1
    <2>2. CASE /\ check'[k].due = check[k].due /\ check'[k].at = check[k].at
               /\ check'[k].boot = check[k].boot
      BY <1>2, <2>2 DEF Ahead
    <2> QED
      BY <1>2, <2>1, <2>2 DEF DuesAlike
  <1>7. \A j \in JobIds, t \in Times : delivered'[j][t] <= 1
    BY <1>2 DEF Ahead
  <1> QED
    BY <1>2, <1>3, <1>4, <1>5, <1>6, <1>7 DEF Ahead, Checking, Reference, IdleCheck

\* A firing is settled, delivered or not.
LEMMA AheadSettled ==
  ASSUME FileInv, FileInv', PointsInv, NEW k \in Checks, check[k].due # <<>>, Settle(k, jobs),
         server' = server, overlapped' = overlapped, crashes' = crashes,
         \/ delivered' = [delivered EXCEPT ![Current(k).job.id][Current(k).point] = @ + 1]
         \/ delivered' = delivered
  PROVE  PointsInv'
  <1> DEFINE d == Current(k)
             due == check[k].due
             id == d.job.id
  <1>1. /\ d = due[1] /\ 1 \in DOMAIN due /\ d \in Due
        /\ \A n \in DOMAIN jobs' : \E i \in DOMAIN jobs :
              /\ jobs'[n].id = jobs[i].id /\ jobs'[n].times = jobs[i].times
              /\ jobs[i].id # id => jobs'[n] = jobs[i]
              /\ jobs[i].id = id => jobs'[n].fired = check[k].at
        /\ \A j \in JobIds : \/ told'[j] = told[j]
                             \/ told[j] \in {"pending", "created"} /\ told'[j] = "ended"
    BY SettleIs
  <1>2. PICK c \in CheckState :
              /\ check' = [check EXCEPT ![k] = c]
              /\ c.pc \in {"fire", "write"}
              /\ c.due = Tail(due) /\ c.at = check[k].at /\ c.boot = check[k].boot
    BY SettleIs
  <1>3. /\ check \in [Checks -> CheckState] /\ due \in Seq(Due) /\ check[k].at \in 0..Horizon
        /\ check[k] \in CheckState
    BY DEF FileInv, TypeOK, CheckState
  <1>4. check'[k] = c /\ \A l \in Checks : l # k => check'[l] = check[l]
    BY <1>2, <1>3
  <1>5. \A i \in DOMAIN Tail(due) : i + 1 \in DOMAIN due /\ i + 1 # 1 /\ Tail(due)[i] = due[i + 1]
    <2>1. Len(due) \in Nat \ {0} /\ DOMAIN due = 1..Len(due)
      BY <1>3, EmptySeq, LenProperties
    <2>2. /\ Tail(due) \in Seq(Due) /\ Len(Tail(due)) = Len(due) - 1
          /\ \A i \in 1..Len(Tail(due)) : Tail(due)[i] = due[i + 1]
      BY <1>3, HeadTailProperties
    <2>3. DOMAIN Tail(due) = 1..Len(Tail(due))
      BY <2>2, LenProperties
    <2> QED
      BY <2>1, <2>2, <2>3
  <1>6. id \in JobIds /\ d.point \in Times /\ told[id] # "unused" /\ Reference(d.job) \in 0..Horizon
    <2>1. id \in JobIds /\ d.point \in Times /\ Reference(d.job) \in 0..Horizon
      BY <1>1, JobIs DEF Due
    <2>2. told[check[k].due[1].job.id] # "unused"
      BY <1>1 DEF FileInv, DueIsCopied
    <2> QED
      BY <1>1, <2>1, <2>2
  <1>7. delivered \in [JobIds -> [Times -> Nat]] /\ Times \subseteq Nat
    BY TimesAre DEF FileInv, TypeOK
  <1>20. d.point \in Nat /\ Reference(d.job) \in Nat /\ check[k].at \in Nat
    BY <1>3, <1>6, <1>7, TimesAre
  <1> HIDE DEF d, due
  <1>8. /\ \A j \in JobIds, t \in Times : j # id \/ t # d.point => delivered'[j][t] = delivered[j][t]
        /\ delivered'[id][d.point] \in {delivered[id][d.point], delivered[id][d.point] + 1}
    <2>1. CASE delivered' = delivered
      BY <2>1
    <2>2. CASE delivered' = [delivered EXCEPT ![id][d.point] = @ + 1]
      BY <1>6, <1>7, <2>2
    <2> QED
      BY <2>1, <2>2 DEF d
  <1>9. \A j \in JobIds : told'[j] = "unused" => \A t \in Times : delivered'[j][t] = 0
    <2>1. \A j \in JobIds : told'[j] = "unused" => told[j] = "unused" /\ j # id
      BY <1>1, <1>6
    <2> QED
      BY <1>8, <2>1 DEF PointsInv
  <1> SUFFICES ASSUME ~overlapped', crashes' = 0
               PROVE  Ahead'
    BY <1>9 DEF PointsInv
  <1>10. Ahead
    BY DEF PointsInv
  <1>11. /\ Past(d.job) /\ Reference(d.job) < d.point /\ d.point <= check[k].at
         /\ check[k] # IdleCheck /\ ~check[k].boot
    <2>1. Past(d.job) /\ Reference(d.job) < d.point /\ d.point <= check[k].at /\ ~check[k].boot
      BY <1>1, <1>10 DEF Ahead, due
    <2>2. check[k] # IdleCheck
      BY IdleIs
    <2> QED
      BY <2>1, <2>2
  <1>12. delivered[id][d.point] = 0
    <2>1. delivered[id][d.point] \in Nat
      BY <1>6, <1>7
    <2>2. delivered[id][d.point] > 0 => d.point <= Reference(d.job)
      BY <1>6, <1>11 DEF Past
    <2> QED
      BY <1>11, <1>20, <2>1, <2>2
  <1>13. \A j \in JobIds, t \in Times : delivered'[j][t] <= 1
    BY <1>7, <1>8, <1>10, <1>12 DEF Ahead
  <1>14. \A t \in Times : delivered'[id][t] > 0 => t <= check[k].at
    <2> SUFFICES ASSUME NEW t \in Times, delivered'[id][t] > 0
                 PROVE  t <= check[k].at
      OBVIOUS
    <2>1. CASE t = d.point
      BY <1>11, <2>1
    <2>2. CASE t # d.point
      <3>1. delivered[id][t] > 0
        BY <1>6, <1>8, <2>2
      <3>2. t <= Reference(d.job)
        BY <1>11, <3>1 DEF Past
      <3>3. t \in Nat
        BY <1>7
      <3> QED
        BY <1>11, <1>20, <3>2, <3>3
    <2> QED
      BY <2>1, <2>2
  <1>15. ASSUME NEW n \in DOMAIN jobs'
         PROVE  \A t \in Times : delivered'[jobs'[n].id][t] > 0 => t <= Reference(jobs'[n])
    <2>1. PICK i \in DOMAIN jobs :
              /\ jobs'[n].id = jobs[i].id
              /\ jobs[i].id # id => jobs'[n] = jobs[i]
              /\ jobs[i].id = id => jobs'[n].fired = check[k].at
      BY <1>1
    <2>2. jobs[i].id \in JobIds
      BY ListsAre
    <2>3. CASE jobs[i].id = id
      <3>1. jobs'[n].fired # Never
        BY <1>3, <2>1, <2>3, TimesAre
      <3>2. Reference(jobs'[n]) = check[k].at
        BY <2>1, <2>3, <3>1 DEF Reference
      <3> QED
        BY <1>14, <2>1, <2>3, <3>2
    <2>4. CASE jobs[i].id # id
      <3>1. Past(jobs[i])
        BY <1>10 DEF Ahead
      <3> QED
        BY <1>8, <2>1, <2>2, <2>4, <3>1 DEF Past
    <2> QED
      BY <2>3, <2>4
  <1>16. \A l \in Checks : l # k => check[l] = IdleCheck
    BY <1>10, <1>11 DEF Ahead, Checking
  <1>17. \A l, m \in Checks : check'[l] # IdleCheck /\ check'[m] # IdleCheck => l = m
    BY <1>4, <1>16
  <1>18. ASSUME NEW l \in Checks
         PROVE  /\ ~check'[l].boot
                /\ \A i \in DOMAIN check'[l].due :
                     LET e == check'[l].due[i]
                     IN  /\ \A t \in Times : delivered'[e.job.id][t] > 0 => t <= Reference(e.job)
                         /\ Reference(e.job) < e.point /\ e.point <= check'[l].at
                /\ \A i, j \in DOMAIN check'[l].due :
                     check'[l].due[i].job.id = check'[l].due[j].job.id => i = j
    <2>1. CASE l # k
      <3>1. IdleCheck.boot = FALSE /\ DOMAIN IdleCheck.due = {}
        BY IdleIs DEF IdleCheck
      <3> QED
        BY <1>4, <1>16, <2>1, <3>1
    <2>2. CASE l = k
      <3>1. check'[l].due = Tail(due) /\ check'[l].at = check[k].at /\ check'[l].boot = check[k].boot
        BY <1>2, <1>4, <2>2
      <3>2. ASSUME NEW i \in DOMAIN due
            PROVE  /\ Past(due[i].job) /\ Reference(due[i].job) < due[i].point
                   /\ due[i].point <= check[k].at /\ due[i].job.id \in JobIds
        <4>1. due[i] \in Due
          BY <1>3, <3>2, ElementOfSeq, LenProperties
        <4> QED
          BY <1>10, <3>2, <4>1, JobIs DEF Ahead, due, Due
      <3>3. \A i, j \in DOMAIN due : due[i].job.id = due[j].job.id => i = j
        BY <1>10 DEF Ahead, due
      <3>4. ASSUME NEW i \in DOMAIN Tail(due)
            PROVE  LET e == Tail(due)[i]
                   IN  /\ \A t \in Times : delivered'[e.job.id][t] > 0 => t <= Reference(e.job)
                       /\ Reference(e.job) < e.point /\ e.point <= check[k].at
        <4> DEFINE e == due[i + 1]
        <4>1. i + 1 \in DOMAIN due /\ i + 1 # 1 /\ Tail(due)[i] = e
          BY <1>5
        <4>2. Past(e.job) /\ Reference(e.job) < e.point /\ e.point <= check[k].at /\ e.job.id \in JobIds
          BY <3>2, <4>1
        <4>3. e.job.id # id
          BY <1>1, <3>3, <4>1
        <4> HIDE DEF e
        <4>4. \A t \in Times : delivered'[e.job.id][t] > 0 => t <= Reference(e.job)
          BY <1>8, <4>2, <4>3 DEF Past
        <4> QED
          BY <4>1, <4>2, <4>4
      <3>5. \A i, j \in DOMAIN Tail(due) : Tail(due)[i].job.id = Tail(due)[j].job.id => i = j
        <4>1. \A i, j \in DOMAIN Tail(due) : Tail(due)[i].job.id = Tail(due)[j].job.id => i + 1 = j + 1
          BY <1>5, <3>3
        <4>2. DOMAIN Tail(due) \subseteq Nat
          BY <1>3, HeadTailProperties, LenProperties
        <4> QED
          BY <4>1, <4>2
      <3> QED
        BY <1>11, <3>1, <3>4, <3>5
    <2> QED
      BY <2>1, <2>2
  <1>19. server' = "up"
    BY <1>10 DEF Ahead
  <1> QED
    BY <1>13, <1>15, <1>17, <1>18, <1>19 DEF Ahead, Past, Checking, Reference, IdleCheck

\* Every step keeps the points ahead.
LEMMA NextPoints ==
  ASSUME FileInv, PointsInv, [Next]_vars
  PROVE  PointsInv'
  <1>1. FileInv'
    BY NextFile
  <1>2. /\ check \in [Checks -> CheckState] /\ faults \in Nat /\ crashes \in Nat /\ jobs \in Seq(Job)
        /\ TypeOK
    BY CronBoundAssumption DEF FileInv, TypeOK, CheckState
  <1>3. ~overlapped /\ crashes = 0 => server = "up" /\ \A k \in Checks : ~check[k].boot
    BY DEF PointsInv, Ahead
  <1>4. ASSUME KnownStay, UNCHANGED <<delivered, crashes, overlapped, check, jobs>>,
               server' = server
        PROVE  PointsInv'
    BY <1>1, <1>3, <1>4, AheadStays DEF DuesAlike
  <1>5. CASE UNCHANGED vars
    BY <1>4, <1>5 DEF vars, seenVars, boundVars, KnownStay
  <1>6. ASSUME NEW w \in Writers, BeginWrite(w) PROVE PointsInv'
    BY <1>4, <1>6 DEF BeginWrite, seenVars, boundVars, KnownStay
  <1>7. ASSUME NEW u \in Users, DropSession(u) PROVE PointsInv'
    BY <1>4, <1>7 DEF DropSession, seenVars, boundVars, KnownStay
  <1>8. ASSUME NEW u \in Users, UserWritten(u) \/ UserFailed(u) PROVE PointsInv'
    <2>1. UNCHANGED <<delivered, overlapped, check, jobs, server>> /\ crashes' = crashes
      BY <1>8 DEF UserWritten, UserFailed, Answered, Written, WriteFailed, boundVars
    <2>2. KnownStay
      BY <1>8 DEF UserWritten, UserFailed, TellDone, Tell, KnownStay
    <2> QED
      BY <1>4, <2>1, <2>2
  <1>9. CASE Tick
    BY <1>4, <1>9 DEF Tick, seenVars, boundVars, KnownStay
  <1>10. CASE Crash
    <2>1. crashes' # 0 /\ told' = told /\ delivered' = delivered
      BY <1>2, <1>10 DEF Crash, seenVars
    <2> QED
      BY <2>1 DEF PointsInv
  <1>11. ASSUME NEW k \in Checks, Boot(k) PROVE PointsInv'
    <2>1. server = "down" /\ UNCHANGED <<told, delivered, overlapped, crashes>>
      BY <1>11 DEF Boot, seenVars, boundVars
    <2> QED
      BY <1>3, <2>1 DEF PointsInv
  <1>12. ASSUME NEW k \in Checks, CheckWritten(k) PROVE PointsInv'
    <2>1. /\ UNCHANGED <<told, delivered, overlapped, crashes, jobs>>
          /\ check' = [check EXCEPT ![k] = IdleCheck] /\ server' \in {"up", server}
      BY <1>12 DEF CheckWritten, Written, seenVars, boundVars
    <2>2. DuesAlike /\ KnownStay
      BY <1>2, <2>1 DEF DuesAlike, KnownStay
    <2> QED
      BY <1>1, <1>3, <2>1, <2>2, AheadStays
  <1>13. ASSUME NEW k \in Checks, CheckFailed(k) PROVE PointsInv'
    <2>1. /\ UNCHANGED <<told, delivered, overlapped>> /\ crashes' = crashes
      BY <1>13 DEF CheckFailed, WriteFailed, seenVars
    <2>2. CASE check[k].boot
      BY <1>3, <2>1, <2>2 DEF PointsInv
    <2>3. CASE ~check[k].boot
      <3>1. check' = [check EXCEPT ![k] = IdleCheck] /\ UNCHANGED <<jobs, server>>
        BY <1>13, <2>3 DEF CheckFailed
      <3>2. DuesAlike /\ KnownStay
        BY <1>2, <2>1, <3>1 DEF DuesAlike, KnownStay
      <3> QED
        BY <1>1, <1>3, <2>1, <3>1, <3>2, AheadStays
    <2> QED
      BY <2>2, <2>3
  <1>14. ASSUME NEW P \in SUBSET DOMAIN jobs, jobs' = Filtered(jobs, P)
         PROVE  \A n \in DOMAIN jobs' : \E i \in DOMAIN jobs : jobs'[n] = jobs[i]
    BY <1>2, <1>14, JobsFiltered
  <1>15. ASSUME NEW u \in Users, NEW id \in JobIds, Delete(u, id) PROVE PointsInv'
    <2> DEFINE P == {i \in DOMAIN jobs : jobs[i].id # id}
    <2>1. /\ UNCHANGED <<delivered, overlapped, crashes, check>> /\ server' = server
          /\ jobs' = Filtered(jobs, P) /\ Tell({id}, "deleting")
      BY <1>15 DEF Delete, Begin, Without, boundVars
    <2>2. \A n \in DOMAIN jobs' : \E i \in DOMAIN jobs : jobs'[n] = jobs[i]
      <3>1. P \in SUBSET DOMAIN jobs
        OBVIOUS
      <3> HIDE DEF P
      <3> QED
        BY <1>14, <2>1, <3>1
    <2>3. DuesAlike /\ KnownStay
      BY <2>1 DEF DuesAlike, KnownStay, Tell
    <2> QED
      BY <1>1, <1>3, <2>1, <2>2, <2>3, AheadStays
  <1>16. ASSUME NEW u \in Users, NEW s \in Sessions, DeleteSession(u, s) PROVE PointsInv'
    <2> DEFINE P == {i \in DOMAIN jobs : jobs[i].session # s}
    <2>1. /\ UNCHANGED <<delivered, overlapped, crashes, check>> /\ server' = server
          /\ jobs' = Filtered(jobs, P) /\ Tell(Ids(OfSession(s)), "deleting")
      BY <1>16 DEF DeleteSession, Begin, NotOfSession, boundVars
    <2>2. \A n \in DOMAIN jobs' : \E i \in DOMAIN jobs : jobs'[n] = jobs[i]
      <3>1. P \in SUBSET DOMAIN jobs
        OBVIOUS
      <3> HIDE DEF P
      <3> QED
        BY <1>14, <2>1, <3>1
    <2>3. DuesAlike /\ KnownStay
      BY <2>1 DEF DuesAlike, KnownStay, Tell
    <2> QED
      BY <1>1, <1>3, <2>1, <2>2, <2>3, AheadStays
  <1>17. ASSUME NEW u \in Users, NEW id \in JobIds, NEW s \in Sessions, NEW plan \in Schedules,
                Create(u, id, s, plan.times, plan.recurring)
         PROVE  PointsInv'
    <2> DEFINE new == [id |-> id, session |-> s, times |-> plan.times, recurring |-> plan.recurring,
                       created |-> now, fired |-> Never]
    <2>1. /\ UNCHANGED <<delivered, overlapped, crashes, check>> /\ server' = server
          /\ jobs' = Append(jobs, new) /\ Tell({id}, "pending")
          /\ Unused # {} /\ id = CHOOSE i \in Unused : TRUE
      BY <1>17 DEF Create, Begin, boundVars
    <2>2. told[id] = "unused" /\ new.id = id
      BY <2>1 DEF Unused
    <2> HIDE DEF new
    <2>3. \A n \in DOMAIN jobs' : jobs'[n] = new \/ \E i \in DOMAIN jobs : jobs'[n] = jobs[i]
      <3>1. \E S : new \in S /\ Job \subseteq S
        <4> DEFINE S == Job \cup {new}
        <4>1. new \in S /\ Job \subseteq S
          OBVIOUS
        <4> QED
          BY <4>1
      <3>2. PICK S : new \in S /\ Job \subseteq S
        BY <3>1
      <3>3. jobs \in Seq(S)
        <4>1. Len(jobs) \in Nat /\ DOMAIN jobs = 1..Len(jobs) /\ \A i \in 1..Len(jobs) : jobs[i] \in S
          BY <1>2, <3>2, LenProperties, ElementOfSeq
        <4>2. jobs = [i \in 1..Len(jobs) |-> jobs[i]]
          BY <1>2, LenProperties
        <4>3. [i \in 1..Len(jobs) |-> jobs[i]] \in Seq(S)
          BY <4>1, IsASeq
        <4> QED
          BY <4>2, <4>3
      <3>4. /\ Len(jobs') = Len(jobs) + 1 /\ jobs' \in Seq(S)
            /\ \A i \in 1..Len(jobs) : jobs'[i] = jobs[i]
            /\ jobs'[Len(jobs) + 1] = new
        BY <2>1, <3>2, <3>3, AppendProperties
      <3>5. Len(jobs) \in Nat /\ DOMAIN jobs = 1..Len(jobs) /\ DOMAIN jobs' = 1..Len(jobs')
        BY <3>3, <3>4, LenProperties
      <3>6. \A n \in 1..(Len(jobs) + 1) : n \in 1..Len(jobs) \/ n = Len(jobs) + 1
        BY <3>5
      <3> QED
        BY <3>4, <3>5, <3>6
    <2>4. DuesAlike /\ KnownStay
      BY <2>1 DEF DuesAlike, KnownStay, Tell
    <2> QED
      BY <1>1, <1>3, <2>1, <2>2, <2>3, <2>4, AheadStays
  <1>18. ASSUME NEW k \in Checks, check[k].due # <<>>, Settle(k, jobs), UNCHANGED <<server, overlapped>>,
                crashes' = crashes,
                \/ delivered' = [delivered EXCEPT ![Current(k).job.id][Current(k).point] = @ + 1]
                \/ delivered' = delivered
         PROVE  PointsInv'
    BY <1>1, <1>18, AheadSettled
  <1>19. ASSUME NEW k \in Checks, Deliver(k) PROVE PointsInv'
    BY <1>2, <1>18, <1>19 DEF Deliver, TypeOK, boundVars
  <1>20. ASSUME NEW k \in Checks, Purged(k) PROVE PointsInv'
    <2>1. check[k].due # <<>> /\ Settle(k, jobs) /\ UNCHANGED <<server, overlapped, delivered>>
      BY <1>2, <1>20 DEF Purged, TypeOK
    <2>2. crashes' = crashes
      BY <1>20 DEF Purged, Written, WriteFailed, boundVars
    <2> QED
      BY <1>18, <2>1, <2>2
  <1>21. ASSUME NEW k \in Checks, Fire(k) PROVE PointsInv'
    <2> DEFINE s == Current(k).job.session
               P == {i \in DOMAIN jobs : jobs[i].session # s}
    <2>1. /\ check[k].pc = "fire" /\ UNCHANGED <<delivered, overlapped, server, crashes>>
          /\ check[k].due # <<>>
      BY <1>2, <1>21 DEF Fire, boundVars, TypeOK
    <2>2. ASSUME NEW pc, check' = [check EXCEPT ![k].pc = pc]
          PROVE  DuesAlike
      <3> DEFINE c == [check[k] EXCEPT !.pc = pc]
      <3>1. c.due = check[k].due /\ c.at = check[k].at /\ c.boot = check[k].boot
        BY <1>2 DEF CheckState
      <3>2. check' = [check EXCEPT ![k] = c]
        BY <1>2, <2>2
      <3> HIDE DEF c
      <3>3. check'[k] = c /\ \A l \in Checks : l # k => check'[l] = check[l]
        BY <1>2, <3>2
      <3>4. check[k] # IdleCheck
        BY <2>1, IdleIs
      <3> QED
        BY <3>1, <3>3, <3>4 DEF DuesAlike
    <2>3. CASE check' = [check EXCEPT ![k].pc = "deliver"] /\ UNCHANGED <<jobs, writes, told>>
      <3>1. DuesAlike /\ KnownStay
        BY <2>2, <2>3 DEF KnownStay
      <3> QED
        BY <1>1, <1>3, <2>1, <2>3, <3>1, AheadStays
    <2>4. CASE /\ jobs' = NotOfSession(s) /\ check' = [check EXCEPT ![k].pc = "purge"]
               /\ told' = [j \in JobIds |-> IF j \in Ids(OfSession(s)) THEN "ended" ELSE told[j]]
      <3>1. DuesAlike /\ KnownStay
        BY <2>2, <2>4 DEF KnownStay
      <3>2. jobs' = Filtered(jobs, P) /\ P \in SUBSET DOMAIN jobs
        BY <2>4 DEF NotOfSession
      <3> HIDE DEF P
      <3>3. \A n \in DOMAIN jobs' : \E i \in DOMAIN jobs : jobs'[n] = jobs[i]
        BY <1>14, <3>2
      <3> QED
        BY <1>1, <1>3, <2>1, <3>1, <3>3, AheadStays
    <2>5. CASE Settle(k, jobs)
      BY <1>18, <2>1, <2>5
    <2> QED
      BY <1>21, <2>3, <2>4, <2>5 DEF Fire
  <1>22. ASSUME NEW k \in Checks, BeginCheck(k) PROVE PointsInv'
    <2>1. /\ overlapped' = (overlapped \/ \E l \in Checks : Checking(l))
          /\ Start(k, jobs, FALSE) /\ UNCHANGED <<now, jobs, told, delivered, crashes>>
      BY <1>22 DEF BeginCheck, boundVars
    <2>2. \A j \in JobIds : told'[j] = "unused" => \A t \in Times : delivered'[j][t] = 0
      BY <2>1 DEF PointsInv
    <2> SUFFICES ASSUME ~overlapped', crashes' = 0
                 PROVE  Ahead'
      BY <2>2 DEF PointsInv
    <2>3. Ahead /\ \A l \in Checks : check[l] = IdleCheck
      BY <1>2, <2>1 DEF PointsInv, Checking, TypeOK
    <2>4. \A job : Past(job)' <=> Past(job)
      BY <2>1 DEF Past, Reference
    <2>5. CASE check' = check /\ server' = server
      BY <2>1, <2>3, <2>4, <2>5 DEF Ahead, Checking, Reference, IdleCheck
    <2>6. CASE /\ DueOf(jobs) # <<>> /\ server' = server
               /\ check' = [check EXCEPT ![k] = [pc |-> "fire", at |-> now, due |-> DueOf(jobs),
                                                 boot |-> FALSE]]
      <3>1. /\ check'[k].due = DueOf(jobs) /\ check'[k].at = now /\ ~check'[k].boot
            /\ \A l \in Checks : l # k => check'[l] = IdleCheck
        BY <1>2, <2>3, <2>6
      <3>2. Distinct(jobs) /\ \A i \in DOMAIN jobs : jobs[i].fired # Never => jobs[i].fired < Expiry(jobs[i])
        BY ListsAre DEF Sound
      <3>3. /\ \A i \in DOMAIN DueOf(jobs) :
                 LET d == DueOf(jobs)[i]
                 IN  /\ \E n \in DOMAIN jobs : d.job = jobs[n]
                     /\ Reference(d.job) < d.point /\ d.point <= now
            /\ \A i, j \in DOMAIN DueOf(jobs) : DueOf(jobs)[i].job.id = DueOf(jobs)[j].job.id => i = j
        BY <1>2, <3>2, DueOfIs
      <3>4. \A i \in DOMAIN DueOf(jobs) : Past(DueOf(jobs)[i].job)
        BY <2>3, <3>3 DEF Ahead
      <3>5. ASSUME NEW l \in Checks
            PROVE  /\ ~check'[l].boot
                   /\ \A i \in DOMAIN check'[l].due :
                        LET d == check'[l].due[i]
                        IN  Past(d.job) /\ Reference(d.job) < d.point /\ d.point <= check'[l].at
                   /\ \A i, j \in DOMAIN check'[l].due :
                        check'[l].due[i].job.id = check'[l].due[j].job.id => i = j
        <4>1. CASE l = k
          BY <3>1, <3>3, <3>4, <4>1
        <4>2. CASE l # k
          <5>1. IdleCheck.boot = FALSE /\ DOMAIN IdleCheck.due = {}
            BY IdleIs DEF IdleCheck
          <5> QED
            BY <3>1, <4>2, <5>1
        <4> QED
          BY <4>1, <4>2
      <3>6. \A l, m \in Checks : check'[l] # IdleCheck /\ check'[m] # IdleCheck => l = m
        BY <3>1
      <3>7. /\ server' = "up" /\ \A j \in JobIds, t \in Times : delivered'[j][t] <= 1
            /\ \A i \in DOMAIN jobs' : Past(jobs'[i])
        BY <2>1, <2>3, <2>6 DEF Ahead
      <3> QED
        BY <2>4, <3>5, <3>6, <3>7 DEF Ahead, Checking, Reference, IdleCheck
    <2> QED
      BY <2>1, <2>5, <2>6 DEF Start
  <1>23. CASE Progress
    BY <1>6, <1>7, <1>8, <1>12, <1>13, <1>19, <1>20, <1>21, <1>22, <1>23 DEF Progress
  <1> QED
    BY <1>5, <1>9, <1>10, <1>11, <1>15, <1>16, <1>17, <1>23 DEF Next

\* At the beginning nothing was delivered.
LEMMA InitPoints ==
  ASSUME Init
  PROVE  PointsInv
  <1>1. /\ \A j \in JobIds, t \in Times : delivered[j][t] = 0
        /\ jobs = <<>> /\ server = "up" /\ \A k \in Checks : check[k] = IdleCheck
    BY DEF Init
  <1>2. IdleCheck.boot = FALSE /\ DOMAIN IdleCheck.due = {} /\ DOMAIN <<>> = {}
    BY IdleIs DEF IdleCheck
  <1>3. Ahead
    BY <1>1, <1>2 DEF Ahead, Checking
  <1> QED
    BY <1>1, <1>3 DEF PointsInv

\* No firing reaches its session twice, unless two checks overlapped or the server crashed
\* between a firing and its write: check() marks a job with its own time before the point it
\* fired can be due again, and what it lists lies ahead of every earlier mark.
THEOREM PointsAreFiredOnce == Spec => []OncePerPoint
<1>1. Init => PointsInv
  BY InitPoints
<1>2. FileInv /\ PointsInv /\ [Next]_vars => PointsInv'
  BY NextPoints
<1>3. PointsInv => OncePerPoint
  BY DEF PointsInv, Ahead, OncePerPoint
<1> QED
  BY <1>1, <1>2, <1>3, FileInvariant, PTL DEF Spec
=============================================================================
