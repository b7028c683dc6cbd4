------------------------ MODULE JobCollectors_proofs ------------------------
(***************************************************************************)
(* The job table and its collectors: theorems for every number of jobs,    *)
(* slots, chunks and faults.                                               *)
(*                                                                         *)
(* JobsInv relates each slot to the collector of its job.  What a          *)
(* collector has read of a slot that has lost nothing is 1, 2, ... up to   *)
(* afterSeq, and afterSeq does not pass the newest chunk; a state that it  *)
(* has read is still the state; a completed job has written everything.    *)
(* A step of the table ages the slots (Ages): whatever a collector knows   *)
(* of the slot of its job stays true, because outputs only grow, states    *)
(* only end and flags only rise, and a slot that changes hands is found    *)
(* no more.  So each step has two parts: the table ages, and the           *)
(* collector that moves fits again.                                        *)
(***************************************************************************)
EXTENDS JobCollectors, SequenceTheorems, WellFoundedInduction, TLAPS

\* The type of a slot.
Slot == [job : Jobs \cup {NoJob}, state : {"empty", "running"} \cup Ended, cancel : BOOLEAN,
         first : Nat, next : Nat, lost : BOOLEAN]

\* ... and what its counters obey: the ring holds what lies between first and next.
SlotTyped(slot) ==
    /\ slot \in Slot
    /\ slot.first >= 1
    /\ slot.next + 1 - slot.first \in 0..Ring
    /\ slot.lost <=> slot.first > 1

\* The table: no job has two slots, and every thread has the slot of its job.
TableInv ==
    /\ slots \in [Slots -> Slot]
    /\ thread \in [Jobs -> Slots \cup {0}]
    /\ \A s \in Slots : SlotTyped(slots[s])
    /\ \A s, t \in Slots : slots[s].job = slots[t].job /\ s # t => slots[s].job = NoJob
    /\ \A j \in Jobs : thread[j] # 0 =>
          slots[thread[j]].job = j /\ slots[thread[j]].state = "running"

\* Where a collector asks the executor for something.
Polling == {"poll", "status", "page", "tail"}

\* The collectors whose results the properties are about.
Watched == {"search", "bash"}

\* Nothing twice, nothing out of order.
Ascending(got) == \A i, k \in 1..Len(got) : i < k => got[i] < got[k]

\* The chunks 1 to n.
Counts(got, n) == Len(got) = n /\ \A i \in 1..n : got[i] = i

\* What the collector of the job knows of its slot.
SlotFits(j, slot) ==
    /\ slot.state # "empty"
    /\ slot.state = "completed" => slot.next = Total[j]
    /\ pc[j] \in Polling =>
          /\ local[j].state \in {"running", slot.state}
          /\ ~slot.lost => /\ local[j].seq <= slot.next
                           /\ Counts(local[j].got, local[j].seq)
    /\ pc[j] = "done" /\ KindOf[j] \in Watched /\ slot.state = "running" =>
          slot.cancel \/ outcome[j] = "cut"

\* What holds of a collector, and of its slot if there is one.
JobFits(j) ==
    /\ pc[j] \in {"status", "tail"} => KindOf[j] # "search"
    /\ pc[j] = "tail" => local[j].state \in Ended
    /\ outcome[j] = "none" <=> pc[j] # "done"
    /\ Ascending(local[j].got)
    /\ pc[j] \in Polling => \A i \in 1..Len(local[j].got) : local[j].got[i] <= local[j].seq
    /\ KindOf[j] \in Watched /\ outcome[j] = "ok" => local[j].got = Everything(j)
    /\ \A s \in Slots : slots[s].job = j =>
          pc[j] \notin {"idle", "starting"} /\ SlotFits(j, slots[s])

\* The type of what a collector knows.
Local == [state : {"running"} \cup Ended, seq : Nat, got : Seq(Nat), gap : BOOLEAN]

\* The types of the collectors.
Typed ==
    /\ pc \in [Jobs -> {"idle", "starting"} \cup Polling \cup {"done"}]
    /\ local \in [Jobs -> Local]
    /\ aborted \subseteq Jobs /\ heard \subseteq Jobs
    /\ outcome \in [Jobs -> Outcomes]
    /\ faults \in 0..MaxFaults

\* The inductive invariant.
JobsInv == TableInv /\ Typed /\ \A j \in Jobs : JobFits(j)

\* It implies the properties.
LEMMA InvImplies == JobsInv => TypeOK /\ ThreadOwnsSlot /\ ResultIsWhole /\ NoJobLeftBehind
  <1> SUFFICES ASSUME JobsInv
               PROVE  TypeOK /\ ThreadOwnsSlot /\ ResultIsWhole /\ NoJobLeftBehind
    OBVIOUS
  <1>1. TableTypeOK
    BY DEF JobsInv, TableInv, TableTypeOK, Slot, SlotTyped
  <1>2. TypeOK
    <2>1. \A j \in Jobs : /\ outcome[j] = "none" <=> pc[j] # "done"
                          /\ \A i, k \in 1..Len(local[j].got) :
                                i < k => local[j].got[i] < local[j].got[k]
      BY DEF JobsInv, JobFits, Ascending
    <2> QED
      BY <1>1, <2>1 DEF JobsInv, Typed, Local, TypeOK, Polling
  <1>3. ThreadOwnsSlot
    BY <1>1 DEF JobsInv, TableInv, ThreadOwnsSlot
  <1>4. ResultIsWhole
    BY <1>2 DEF JobsInv, JobFits, ResultIsWhole, Kinds, Watched
  <1>5. NoJobLeftBehind
    <2> SUFFICES ASSUME NEW j \in Kinds(Watched), pc[j] = "done", Known(j),
                        slots[SlotOf(j)].state = "running"
                 PROVE  slots[SlotOf(j)].cancel \/ outcome[j] = "cut"
      BY DEF NoJobLeftBehind, JobStatus, Watched
    <2>1. SlotOf(j) \in Slots /\ slots[SlotOf(j)].job = j
      BY DEF Known, SlotOf
    <2> QED
      BY <2>1 DEF JobsInv, JobFits, SlotFits, Kinds
  <1> QED
    BY <1>2, <1>3, <1>4, <1>5

\* job.start takes a slot that is not running: the first of them exists.
LEMMA FreeSlotIs ==
  ASSUME FreeSlots # {}
  PROVE  FreeSlot \in Slots /\ slots[FreeSlot].state # "running"
  <1>1. FreeSlots \subseteq Nat
    BY JobTableAssumption DEF FreeSlots, Slots
  <1>2. PICK s \in FreeSlots : \A t \in FreeSlots : ~(<<t, s>> \in OpToRel(<, Nat))
    BY <1>1, WFMin, NatLessThanWellFounded, Zenon
  <1>3. \A t \in FreeSlots : ~(t < s)
    BY <1>1, <1>2, Zenon DEF OpToRel
  <1>4. \A t \in FreeSlots : s <= t
    BY <1>1, <1>3
  <1> QED
    BY <1>4 DEF FreeSlot, FreeSlots, Reusable

\* A page is a sequence.
LEMMA CountsUp == ASSUME NEW n \in Nat, NEW from \in Nat \ {0}
                  PROVE  [i \in 1..n |-> from + i - 1] \in Seq(Nat)
                         /\ Len([i \in 1..n |-> from + i - 1]) = n
  OBVIOUS

\* find_job() finds the only slot of the job.
LEMMA SlotOfIs ==
  ASSUME TableInv, NEW j \in Jobs, Known(j)
  PROVE  /\ SlotOf(j) \in Slots /\ slots[SlotOf(j)].job = j
         /\ \A s \in Slots : slots[s].job = j => s = SlotOf(j)
  <1>1. SlotOf(j) \in Slots /\ slots[SlotOf(j)].job = j
    BY DEF Known, SlotOf
  <1>2. j # NoJob
    BY JobTableAssumption
  <1> QED
    BY <1>1, <1>2 DEF TableInv

\* A page from a chunk after the last one, joined to what there is.
Joins(got, seq, page, from, n, all, last) ==
    /\ got \in Seq(Nat) /\ seq \in Nat /\ Ascending(got)
    /\ \A i \in 1..Len(got) : got[i] <= seq
    /\ from \in Nat /\ from > seq /\ n \in Nat
    /\ page \in Seq(Nat) /\ Len(page) = n
    /\ \A i \in 1..n : page[i] = from + i - 1
    /\ all = got \o page
    /\ last = IF n = 0 THEN seq ELSE from + n - 1

\* What is collected stays in order, and is whole if the page follows directly.
LEMMA Joined ==
  ASSUME NEW got, NEW seq, NEW page, NEW from, NEW n, NEW all, NEW last,
         Joins(got, seq, page, from, n, all, last)
  PROVE  /\ Ascending(all)
         /\ \A i \in 1..Len(all) : all[i] <= last
         /\ from = seq + 1 /\ Counts(got, seq) => last = seq + n /\ Counts(all, last)
  <1> USE DEF Joins
  <1> DEFINE w == got \o page
             m == Len(got)
  <1>1. m \in Nat /\ \A i \in 1..m : got[i] \in Nat
    BY LenProperties, ElementOfSeq
  <1>2. w \in Seq(Nat) /\ Len(w) = m + n
    BY ConcatProperties
  <1>3. \A i \in 1..(m + n) : w[i] = IF i <= m THEN got[i] ELSE page[i - m]
    BY ConcatProperties
  <1>4. \A i \in 1..(m + n) : i <= m => i \in 1..m /\ w[i] = got[i] /\ got[i] <= seq
    BY <1>1, <1>3
  <1>5. \A i \in 1..(m + n) : i > m => w[i] = from + (i - m) - 1
    <2> SUFFICES ASSUME NEW i \in 1..(m + n), i > m PROVE w[i] = from + (i - m) - 1
      OBVIOUS
    <2>1. w[i] = page[i - m] /\ i - m \in 1..n
      BY <1>1, <1>3
    <2> QED
      BY <2>1
  <1> HIDE DEF w, m
  <1>6. Ascending(w)
    <2> SUFFICES ASSUME NEW i \in 1..(m + n), NEW k \in 1..(m + n), i < k PROVE w[i] < w[k]
      BY <1>2 DEF Ascending
    <2>1. CASE k <= m
      <3>1. i \in 1..m /\ k \in 1..m /\ w[i] = got[i] /\ w[k] = got[k]
        BY <1>1, <1>4, <2>1
      <3> QED
        BY <3>1 DEF Ascending, m
    <2>2. CASE k > m /\ i > m
      BY <1>1, <1>5, <2>2
    <2>3. CASE k > m /\ i <= m
      <3>1. w[i] = got[i] /\ got[i] <= seq /\ got[i] \in Nat
        BY <1>1, <1>4, <2>3
      <3>2. w[k] = from + (k - m) - 1
        BY <1>5, <2>3
      <3> QED
        BY <1>1, <2>3, <3>1, <3>2
    <2> QED
      BY <1>1, <2>1, <2>2, <2>3
  <1>7. \A i \in 1..(m + n) : w[i] <= last
    <2> SUFFICES ASSUME NEW i \in 1..(m + n) PROVE w[i] <= last
      OBVIOUS
    <2>1. CASE i <= m
      <3>1. w[i] = got[i] /\ got[i] <= seq /\ got[i] \in Nat
        BY <1>1, <1>4, <2>1
      <3> QED
        BY <3>1
    <2>2. CASE i > m
      <3>1. w[i] = from + (i - m) - 1 /\ n # 0
        BY <1>1, <1>5, <2>2
      <3> QED
        BY <1>1, <2>2, <3>1
    <2> QED
      BY <1>1, <2>1, <2>2
  <1>8. ASSUME from = seq + 1, Counts(got, seq)
        PROVE  last = seq + n /\ Counts(w, last)
    <2>1. last = seq + n
      BY <1>8
    <2>2. m = seq
      BY <1>8 DEF m, Counts
    <2>3. \A i \in 1..(m + n) : w[i] = i
      <3> SUFFICES ASSUME NEW i \in 1..(m + n) PROVE w[i] = i
        OBVIOUS
      <3>1. CASE i <= m
        <4>1. w[i] = got[i] /\ i \in 1..seq
          BY <1>4, <2>2, <3>1
        <4> QED
          BY <1>8, <4>1 DEF Counts
      <3>2. CASE i > m
        BY <1>5, <1>8, <2>2, <3>2
      <3> QED
        BY <1>1, <3>1, <3>2
    <2> QED
      BY <1>2, <2>1, <2>2, <2>3 DEF Counts
  <1> QED
    BY <1>2, <1>6, <1>7, <1>8 DEF w

\* What Read() returns: a slot that has lost nothing gives everything up to its newest chunk.
LEMMA ReadIs ==
  ASSUME JobsInv, NEW j \in Jobs, pc[j] \in Polling, Known(j)
  PROVE  LET read == Read(j)
             slot == slots[SlotOf(j)]
         IN  /\ read \in Local /\ read.state = local[j].state /\ read.gap = slot.lost
             /\ Ascending(read.got)
             /\ \A i \in 1..Len(read.got) : read.got[i] <= read.seq
             /\ ~slot.lost => /\ read.seq <= slot.next
                              /\ Counts(read.got, read.seq)
             /\ ~slot.lost /\ KindOf[j] \in Watched => read.seq = slot.next
  <1> DEFINE s == SlotOf(j)
             slot == slots[s]
             old == local[j]
             limit == LimitOf(j)
             from == IF old.seq + 1 > slot.first THEN old.seq + 1 ELSE slot.first
             count == IF slot.next + 1 > from THEN slot.next + 1 - from ELSE 0
             n == IF count < limit THEN count ELSE limit
             page == JobOutput(j, old.seq, limit)
             read == Read(j)
  <1>1. s \in Slots /\ slot.job = j
    BY SlotOfIs DEF JobsInv
  <1>2. /\ slot.first \in Nat /\ slot.next \in Nat /\ slot.lost \in BOOLEAN
        /\ slot.first >= 1 /\ slot.next + 1 - slot.first \in 0..Ring
        /\ slot.lost <=> slot.first > 1
    BY <1>1 DEF JobsInv, TableInv, SlotTyped, Slot
  <1>3. old.seq \in Nat /\ old.got \in Seq(Nat) /\ old \in Local
    BY DEF JobsInv, Typed, Local
  <1>4. Ring \in Nat \ {0} /\ limit \in Nat \ {0} /\ (KindOf[j] \in Watched => limit = Ring)
    BY JobTableAssumption DEF LimitOf, Watched
  <1>5. /\ Ascending(old.got)
        /\ \A i \in 1..Len(old.got) : old.got[i] <= old.seq
        /\ ~slot.lost => old.seq <= slot.next /\ Counts(old.got, old.seq)
    BY <1>1 DEF JobsInv, JobFits, SlotFits
  <1>6. from \in Nat \ {0} /\ count \in Nat /\ n \in Nat /\ from > old.seq
    <2> HIDE DEF slot, old, s, limit
    <2>1. from \in Nat \ {0} /\ from > old.seq
      BY <1>2, <1>3
    <2> HIDE DEF from
    <2>2. count \in Nat
      BY <1>2, <2>1
    <2> HIDE DEF count
    <2>3. n \in Nat
      BY <1>4, <2>2
    <2> QED
      BY <2>1, <2>2, <2>3
  <1>7. page = [i \in 1..n |-> from + i - 1]
    BY DEF JobOutput
  <1> HIDE DEF page, limit
  <1>8. read = [old EXCEPT !.got = @ \o page,
                           !.seq = IF page = <<>> THEN @ ELSE page[Len(page)],
                           !.gap = slot.lost]
    BY DEF Read, JobTruncated, page, limit
  <1>9. page \in Seq(Nat) /\ Len(page) = n /\ \A i \in 1..n : page[i] = from + i - 1
    <2> HIDE DEF n, from
    <2> QED
      BY <1>6, <1>7, CountsUp
  <1>10. page = <<>> <=> n = 0
    BY <1>6, <1>9
  <1>11. read \in Local /\ read.state = old.state /\ read.gap = slot.lost
         /\ read.got = old.got \o page
         /\ read.seq = IF n = 0 THEN old.seq ELSE from + n - 1
    <2>1. old.got \o page \in Seq(Nat)
      BY <1>3, <1>9, ConcatProperties
    <2>2. page # <<>> => page[Len(page)] = from + n - 1 /\ page[Len(page)] \in Nat
      BY <1>6, <1>9, <1>10
    <2> QED
      BY <1>2, <1>3, <1>8, <1>10, <2>1, <2>2 DEF Local
  <1> HIDE DEF n, from, count
  <1> HIDE DEF read, slot, s, old
  <1>12. /\ Ascending(read.got)
         /\ \A i \in 1..Len(read.got) : read.got[i] <= read.seq
         /\ from = old.seq + 1 /\ Counts(old.got, old.seq) =>
               read.seq = old.seq + n /\ Counts(read.got, read.seq)
    <2>1. Joins(old.got, old.seq, page, from, n, read.got, read.seq)
      BY <1>3, <1>5, <1>6, <1>9, <1>11 DEF Joins
    <2> QED
      BY <2>1, Joined
  <1>13. ASSUME ~slot.lost
         PROVE  /\ read.seq <= slot.next
                /\ Counts(read.got, read.seq)
                /\ KindOf[j] \in Watched => read.seq = slot.next
    <2>1. /\ slot.first = 1 /\ slot.next <= Ring /\ old.seq <= slot.next
          /\ Counts(old.got, old.seq)
      BY <1>2, <1>4, <1>5, <1>13
    <2>2. from = old.seq + 1
      BY <1>2, <1>3, <2>1 DEF from
    <2>3. count = slot.next - old.seq
      BY <1>2, <1>3, <2>1, <2>2 DEF count
    <2>4. n <= slot.next - old.seq /\ (KindOf[j] \in Watched => n = slot.next - old.seq)
      BY <1>2, <1>3, <1>4, <2>1, <2>3 DEF n
    <2>5. read.seq = old.seq + n /\ Counts(read.got, read.seq)
      BY <1>11, <1>12, <2>1, <2>2
    <2> QED
      BY <1>2, <1>3, <1>6, <2>4, <2>5
  <1> QED
    BY <1>11, <1>12, <1>13 DEF read, slot, s, old

\* How a slot of the job may change while it stays the slot of the job.
Older(k, old, new) ==
    /\ old.job = k
    /\ \/ new.state = old.state
       \/ old.state = "running" /\ new.state \in Ended
          /\ (new.state = "completed" => new.next = Total[k])
    /\ old.lost => new.lost
    /\ old.next <= new.next
    /\ old.state # "running" => new.next = old.next
    /\ old.cancel => new.cancel

\* Every slot of the job was its slot before, and has only grown older.
Ages(k) == \A s \in Slots : slots'[s].job = k => Older(k, slots[s], slots'[s])

\* A collector that does not move fits a slot that ages.
LEMMA FitsStill ==
  ASSUME JobsInv, TableInv', NEW k \in Jobs, Ages(k),
         pc'[k] = pc[k], local'[k] = local[k], outcome'[k] = outcome[k]
  PROVE  JobFits(k)'
  <1>1. JobFits(k)
    BY DEF JobsInv
  <1>2. ASSUME NEW s \in Slots, slots'[s].job = k
        PROVE  (pc[k] \notin {"idle", "starting"} /\ SlotFits(k, slots[s]))'
    <2>1. Older(k, slots[s], slots'[s])
      BY <1>2 DEF Ages
    <2>2. pc[k] \notin {"idle", "starting"} /\ SlotFits(k, slots[s])
      BY <1>1, <2>1 DEF JobFits, Older
    <2>3. slots[s].next \in Nat /\ slots'[s].next \in Nat /\ local[k].seq \in Nat
      BY DEF JobsInv, TableInv, Slot, Typed, Local
    <2> QED
      BY <2>1, <2>2, <2>3 DEF Older, SlotFits, Ended
  <1>3. (Ascending(local[k].got))'
    BY <1>1 DEF JobFits
  <1>4. local'[k] = local[k] /\ pc'[k] = pc[k] /\ outcome'[k] = outcome[k]
    OBVIOUS
  <1> QED
    BY <1>1, <1>2, <1>3, <1>4 DEF JobFits, Everything

\* A table that does not change ages.
LEMMA SameAges ==
  ASSUME TableInv, UNCHANGED tableVars
  PROVE  TableInv' /\ \A k \in Jobs : Ages(k)
  <1>1. TableInv'
    BY DEF TableInv, tableVars
  <1>2. \A s \in Slots : slots[s].next \in Nat
    BY DEF TableInv, Slot
  <1> QED
    BY <1>1, <1>2 DEF tableVars, Ages, Older

\* job.cancel only raises flags.
LEMMA CancelAges ==
  ASSUME TableInv, NEW js, JobCancel(js)
  PROVE  TableInv' /\ \A k \in Jobs : Ages(k)
  <1>1. \A s \in Slots : slots'[s] = IF slots[s].job \in js /\ slots[s].state = "running"
                                     THEN [slots[s] EXCEPT !.cancel = TRUE] ELSE slots[s]
    BY DEF JobCancel
  <1>2. \A s \in Slots : slots[s] \in Slot /\ slots'[s] \in Slot
    <2> SUFFICES ASSUME NEW s \in Slots PROVE slots[s] \in Slot /\ slots'[s] \in Slot
      OBVIOUS
    <2>1. slots[s] \in Slot
      BY DEF TableInv
    <2>2. [slots[s] EXCEPT !.cancel = TRUE] \in Slot
      BY <2>1 DEF Slot
    <2> QED
      BY <1>1, <2>1, <2>2
  <1>3. \A s \in Slots : /\ slots'[s].job = slots[s].job /\ slots'[s].state = slots[s].state
                         /\ slots'[s].first = slots[s].first /\ slots'[s].next = slots[s].next
                         /\ slots'[s].lost = slots[s].lost
                         /\ slots[s].cancel => slots'[s].cancel
    BY <1>1, <1>2 DEF Slot
  <1>4. TableInv'
    <2>1. slots' \in [Slots -> Slot] /\ thread' = thread
      BY <1>2 DEF JobCancel
    <2>2. \A s \in Slots : SlotTyped(slots'[s])
      BY <1>2, <1>3 DEF TableInv, SlotTyped
    <2> QED
      BY <1>3, <2>1, <2>2 DEF TableInv, SlotTyped
  <1> QED
    BY <1>2, <1>3, <1>4 DEF Ages, Older, Slot

\* One slot has a new value.
Renewed(s, new) ==
    /\ new \in Slot
    /\ slots' \in [Slots -> Slot]
    /\ slots'[s] = new
    /\ \A t \in Slots : t # s => slots'[t] = slots[t]

\* EXCEPT renews a slot.
LEMMA RenewedIs ==
  ASSUME TableInv, NEW s \in Slots, NEW new \in Slot, slots' = [slots EXCEPT ![s] = new]
  PROVE  Renewed(s, new)
  BY DEF TableInv, Renewed

\* job_output() ages the slot.
LEMMA WriteAges ==
  ASSUME TableInv, NEW j \in Jobs, Write(j)
  PROVE  TableInv' /\ \A k \in Jobs : Ages(k)
  <1> DEFINE s == thread[j]
             old == slots[s]
             full == old.next + 1 - old.first = Ring
             next == old.next + 1
             first == IF full THEN old.first + 1 ELSE old.first
             lost == old.lost \/ full
             new == [old EXCEPT !.next = next, !.first = first, !.lost = lost]
  <1>1. s \in Slots /\ old \in Slot /\ SlotTyped(old) /\ old.job = j /\ old.state = "running"
        /\ UNCHANGED thread
    BY DEF TableInv, Write
  <1>2. slots' = [slots EXCEPT ![s].next = @ + 1, ![s].first = IF full THEN @ + 1 ELSE @,
                               ![s].lost = @ \/ full]
    BY DEF Write
  <1>3. slots' = [slots EXCEPT ![s] = new]
    BY <1>1, <1>2 DEF TableInv, Slot
  <1> HIDE DEF s
  <1>4. next \in Nat /\ first \in Nat /\ lost \in BOOLEAN
    BY <1>1 DEF Slot
  <1> HIDE DEF next, first, lost
  <1>5. new \in Slot
    BY <1>1, <1>4 DEF Slot
  <1>6. /\ new.next = next /\ new.first = first /\ new.lost = lost
        /\ new.job = j /\ new.state = "running" /\ new.cancel = old.cancel
    BY <1>1 DEF Slot
  <1> HIDE DEF new
  <1>7. SlotTyped(new)
    BY <1>1, <1>5, <1>6, JobTableAssumption DEF SlotTyped, Slot, next, first, lost
  <1>8. Renewed(s, new)
    BY <1>1, <1>3, <1>5, RenewedIs
  <1>9. TableInv'
    <2>1. \A t \in Slots : slots'[t].job = slots[t].job /\ slots'[t].state = slots[t].state
      BY <1>1, <1>6, <1>8 DEF Renewed
    <2>2. \A t \in Slots : SlotTyped(slots'[t])
      BY <1>7, <1>8 DEF Renewed, TableInv
    <2> QED
      BY <1>1, <1>8, <2>1, <2>2 DEF TableInv, Renewed, SlotTyped
  <1>10. \A t \in Slots : slots[t].next \in Nat /\ slots'[t].next \in Nat
    BY <1>9 DEF TableInv, Slot
  <1>11. old.next \in Nat /\ (old.lost => new.lost) /\ new.next = old.next + 1
    BY <1>1, <1>6 DEF Slot, next, lost
  <1>12. Older(j, old, new)
    BY <1>1, <1>6, <1>11 DEF Older
  <1>13. \A t \in Slots : t # s => slots'[t] = slots[t]
    BY <1>8 DEF Renewed
  <1>14. \A k \in Jobs, t \in Slots : slots'[t].job = k => Older(k, slots[t], slots'[t])
    <2> SUFFICES ASSUME NEW t \in Slots PROVE Older(slots'[t].job, slots[t], slots'[t])
      OBVIOUS
    <2>1. CASE t = s
      BY <1>6, <1>8, <1>12, <2>1 DEF Renewed
    <2>2. CASE t # s
      BY <1>10, <1>13, <2>2 DEF Older
    <2> QED
      BY <2>1, <2>2
  <1> QED
    BY <1>9, <1>14 DEF Ages

\* The end of a thread ages the slot, and a job that completes has written everything.
LEMMA FinishAges ==
  ASSUME TableInv, NEW j \in Jobs, Finish(j)
  PROVE  TableInv' /\ \A k \in Jobs : Ages(k)
  <1> DEFINE s == thread[j]
             old == slots[s]
  <1>1. s \in Slots /\ old \in Slot /\ SlotTyped(old) /\ old.job = j /\ old.state = "running"
    BY DEF TableInv, Finish
  <1>2. PICK end \in FinalState(j, old) : slots' = [slots EXCEPT ![s].state = end]
    BY DEF Finish
  <1>3. end \in Ended /\ (end = "completed" => old.next = Total[j])
    BY <1>2 DEF FinalState, Ended
  <1> DEFINE new == [old EXCEPT !.state = end]
  <1>4. new \in Slot
    BY <1>1, <1>3 DEF Slot
  <1>5. slots' = [slots EXCEPT ![s] = new]
    BY <1>1, <1>2 DEF TableInv, Slot
  <1>6. /\ new.next = old.next /\ new.first = old.first /\ new.lost = old.lost /\ new.job = j
        /\ new.state = end /\ new.cancel = old.cancel
    BY <1>1 DEF Slot
  <1>7. thread' = [thread EXCEPT ![j] = 0]
    BY DEF Finish
  <1> HIDE DEF new, s
  <1>8. Renewed(s, new)
    BY <1>1, <1>4, <1>5, RenewedIs
  <1>9. SlotTyped(new)
    BY <1>1, <1>4, <1>6 DEF SlotTyped
  <1>10. TableInv'
    <2>1. \A t \in Slots : slots'[t].job = slots[t].job
      BY <1>1, <1>6, <1>8 DEF Renewed
    <2>2. \A t \in Slots : SlotTyped(slots'[t])
      BY <1>8, <1>9 DEF Renewed, TableInv
    <2>3. thread' \in [Jobs -> Slots \cup {0}]
      BY <1>7 DEF TableInv
    <2>4. \A k \in Jobs : thread'[k] # 0 => k # j /\ thread'[k] = thread[k]
      BY <1>7 DEF TableInv
    <2>5. \A k \in Jobs : thread'[k] # 0 => thread'[k] # s
      BY <1>1, <2>4 DEF TableInv
    <2>6. \A k \in Jobs : thread'[k] # 0 =>
             slots'[thread'[k]].job = k /\ slots'[thread'[k]].state = "running"
      BY <1>8, <2>3, <2>4, <2>5 DEF TableInv, Renewed
    <2> QED
      BY <1>8, <2>1, <2>2, <2>3, <2>6 DEF TableInv, Renewed
  <1>11. \A t \in Slots : slots[t].next \in Nat
    BY DEF TableInv, Slot
  <1> QED
    BY <1>1, <1>3, <1>6, <1>8, <1>10, <1>11 DEF Ages, Older, Renewed

\* An empty slot is a slot.
LEMMA EmptyIs == EmptySlot \in Slot /\ SlotTyped(EmptySlot)
  BY JobTableAssumption DEF EmptySlot, Slot, SlotTyped

\* A new process has only empty slots.
LEMMA LostAges ==
  ASSUME TableInv, TableLost
  PROVE  TableInv' /\ \A k \in Jobs : Ages(k)
  <1>1. /\ \A s \in Slots : slots'[s] = EmptySlot
        /\ slots' \in [Slots -> Slot]
        /\ thread' \in [Jobs -> Slots \cup {0}] /\ \A k \in Jobs : thread'[k] = 0
    BY EmptyIs DEF TableLost
  <1>2. EmptySlot.job = NoJob
    BY DEF EmptySlot
  <1>3. TableInv'
    BY <1>1, <1>2, EmptyIs DEF TableInv
  <1> QED
    BY <1>1, <1>2, <1>3, JobTableAssumption DEF Ages

\* A start that fails empties a slot: its job is found no more.
LEMMA StartFailsAges ==
  ASSUME TableInv, JobStartFails
  PROVE  TableInv' /\ \A k \in Jobs : Ages(k)
  <1> DEFINE s == FreeSlot
  <1>1. s \in Slots /\ slots[s].state # "running"
    BY FreeSlotIs DEF JobStartFails
  <1>2. Renewed(s, EmptySlot) /\ UNCHANGED thread
    BY <1>1, EmptyIs, RenewedIs DEF JobStartFails
  <1>3. EmptySlot.job = NoJob
    BY DEF EmptySlot
  <1> HIDE DEF s
  <1>4. TableInv'
    <2>1. \A k \in Jobs : thread'[k] # 0 => thread'[k] # s /\ thread'[k] = thread[k]
      BY <1>1, <1>2 DEF TableInv
    <2>2. \A t \in Slots : SlotTyped(slots'[t])
      BY <1>2, EmptyIs DEF Renewed, TableInv
    <2>3. \A t, u \in Slots : slots'[t].job = slots'[u].job /\ t # u => slots'[t].job = NoJob
      BY <1>2, <1>3 DEF Renewed, TableInv
    <2>4. \A k \in Jobs : thread'[k] # 0 =>
             slots'[thread'[k]].job = k /\ slots'[thread'[k]].state = "running"
      BY <1>2, <2>1 DEF TableInv, Renewed
    <2> QED
      BY <1>2, <2>2, <2>3, <2>4 DEF TableInv, Renewed
  <1>5. \A t \in Slots : slots[t].next \in Nat
    BY DEF TableInv, Slot
  <1> QED
    BY <1>2, <1>3, <1>4, <1>5, JobTableAssumption DEF Ages, Older, Renewed

\* A start takes a slot for a job that has none.
LEMMA StartAges ==
  ASSUME TableInv, NEW j \in Jobs, JobStart(j), ~Known(j)
  PROVE  /\ TableInv' /\ \A k \in Jobs \ {j} : Ages(k)
         /\ \A s \in Slots : slots'[s].job = j =>
               slots'[s].state = "running" /\ slots'[s].next = 0
  <1> DEFINE s == FreeSlot
             new == [EmptySlot EXCEPT !.job = j, !.state = "running"]
  <1>1. s \in Slots /\ slots[s].state # "running"
    BY FreeSlotIs DEF JobStart
  <1>2. new \in Slot /\ SlotTyped(new) /\ new.job = j /\ new.state = "running" /\ new.next = 0
    <2>1. EmptySlot.first = 1 /\ EmptySlot.next = 0 /\ EmptySlot.lost = FALSE
      BY DEF EmptySlot
    <2>2. /\ new \in Slot /\ new.job = j /\ new.state = "running"
          /\ new.first = EmptySlot.first /\ new.next = EmptySlot.next
          /\ new.lost = EmptySlot.lost
      BY EmptyIs DEF Slot
    <2> QED
      BY <2>1, <2>2, JobTableAssumption DEF SlotTyped
  <1>3. slots' = [slots EXCEPT ![s] = new] /\ thread' = [thread EXCEPT ![j] = s]
    BY DEF JobStart
  <1> HIDE DEF s, new
  <1>4. Renewed(s, new)
    BY <1>1, <1>2, <1>3, RenewedIs
  <1>5. \A t \in Slots : slots[t].job # j
    BY DEF Known
  <1>6. TableInv'
    <2>1. thread' \in [Jobs -> Slots \cup {0}] /\ thread'[j] = s
      BY <1>1, <1>3 DEF TableInv
    <2>2. \A k \in Jobs : k # j /\ thread'[k] # 0 => thread'[k] # s /\ thread'[k] = thread[k]
      BY <1>1, <1>3 DEF TableInv
    <2>3. \A t \in Slots : SlotTyped(slots'[t])
      BY <1>2, <1>4 DEF Renewed, TableInv
    <2>4. \A t, u \in Slots : slots'[t].job = slots'[u].job /\ t # u => slots'[t].job = NoJob
      BY <1>2, <1>4, <1>5 DEF Renewed, TableInv
    <2>5. \A k \in Jobs : thread'[k] # 0 =>
             slots'[thread'[k]].job = k /\ slots'[thread'[k]].state = "running"
      BY <1>2, <1>4, <2>1, <2>2 DEF TableInv, Renewed
    <2> QED
      BY <1>4, <2>1, <2>3, <2>4, <2>5 DEF TableInv, Renewed
  <1>7. \A t \in Slots : slots[t].next \in Nat
    BY DEF TableInv, Slot
  <1> QED
    BY <1>2, <1>4, <1>5, <1>6, <1>7 DEF Ages, Older, Renewed

\* A step of one collector: it fits again, and the slots of the others age.
LEMMA StepFits ==
  ASSUME JobsInv, TableInv', Typed', NEW j \in Jobs,
         \A k \in Jobs \ {j} : /\ Ages(k) /\ pc'[k] = pc[k] /\ local'[k] = local[k]
                               /\ outcome'[k] = outcome[k],
         JobFits(j)'
  PROVE  JobsInv'
  <1>1. ASSUME NEW k \in Jobs, k # j PROVE JobFits(k)'
    BY <1>1, FitsStill
  <1> QED
    BY <1>1 DEF JobsInv

\* A step of the table alone.
LEMMA TableFits ==
  ASSUME JobsInv, TableInv', \A k \in Jobs : Ages(k), UNCHANGED <<pc, local, outcome>>,
         aborted' \subseteq Jobs, heard' \subseteq Jobs, faults' \in 0..MaxFaults
  PROVE  JobsInv'
  <1>1. Typed'
    BY DEF JobsInv, Typed
  <1>2. ASSUME NEW k \in Jobs PROVE JobFits(k)'
    BY FitsStill
  <1> QED
    BY <1>1, <1>2 DEF JobsInv

\* What makes the collector fit when it goes on.
Knows(j, to, knows) ==
    /\ to \in {"status", "tail"} => KindOf[j] # "search"
    /\ to = "tail" => knows.state \in Ended
    /\ Ascending(knows.got)
    /\ \A i \in 1..Len(knows.got) : knows.got[i] <= knows.seq
    /\ knows.state \in {"running", slots[SlotOf(j)].state}
    /\ ~slots[SlotOf(j)].lost => /\ knows.seq <= slots[SlotOf(j)].next
                                 /\ Counts(knows.got, knows.seq)

\* Goes() keeps the invariant.
LEMMA GoesOn ==
  ASSUME JobsInv, NEW j \in Jobs, pc[j] \in Polling, Known(j), NEW to \in Polling,
         NEW knows \in Local, Knows(j, to, knows), Goes(j, to, knows),
         UNCHANGED <<tableVars, aborted, faults>>
  PROVE  JobsInv'
  <1>1. TableInv' /\ \A k \in Jobs : Ages(k)
    BY SameAges DEF JobsInv
  <1>2. /\ pc'[j] = to /\ local'[j] = knows /\ UNCHANGED <<outcome, heard, slots>>
        /\ \A k \in Jobs \ {j} : pc'[k] = pc[k] /\ local'[k] = local[k]
    BY DEF Goes, JobsInv, Typed, tableVars
  <1>3. Typed'
    BY DEF JobsInv, Typed, Goes
  <1>4. JobFits(j)'
    <2>1. JobFits(j) /\ outcome[j] = "none"
      BY DEF JobsInv, JobFits, Polling
    <2>2. \A s \in Slots : slots[s].job = j => s = SlotOf(j) /\ SlotFits(j, slots[s])
      BY <2>1, SlotOfIs DEF JobsInv, JobFits
    <2>3. \A s \in Slots : slots[s].job = j => SlotFits(j, slots[s])'
      BY <1>2, <2>1, <2>2 DEF SlotFits, Knows, Polling
    <2> QED
      BY <1>2, <2>1, <2>3 DEF JobFits, Knows, Polling
  <1> QED
    BY <1>1, <1>2, <1>3, <1>4, StepFits

\* The chunks 1 to Total are everything.
LEMMA EverythingIs ==
  ASSUME NEW j \in Jobs, NEW got \in Seq(Nat), Counts(got, Total[j])
  PROVE  got = Everything(j)
  <1>1. got = [i \in 1..Total[j] |-> got[i]]
    BY DEF Counts
  <1> QED
    BY <1>1 DEF Counts, Everything

\* Returns() keeps the invariant, if the job is not left running.
LEMMA Leaves ==
  ASSUME JobsInv, NEW j \in Jobs, TableInv', \A k \in Jobs : Ages(k),
         NEW how \in Outcomes \ {"none"}, NEW got \in Seq(Nat), Returns(j, how, got),
         pc[j] # "done", aborted' \subseteq Jobs, faults' \in 0..MaxFaults,
         Ascending(got),
         KindOf[j] \in Watched /\ how = "ok" => got = Everything(j),
         pc[j] \in Polling /\ KindOf[j] \in Watched /\ how # "cut" =>
            \A s \in Slots : slots'[s].job = j /\ slots'[s].state = "running" =>
               slots'[s].cancel
  PROVE  JobsInv'
  <1>1. Len(got) \in Nat /\ NewLocal \in Local /\ [NewLocal EXCEPT !.got = got] \in Local
        /\ [NewLocal EXCEPT !.got = got].got = got
    BY LenProperties, EmptySeq DEF NewLocal, Local
  <1>2. /\ pc'[j] = "done" /\ local'[j].got = got /\ outcome'[j] = how
        /\ \A k \in Jobs \ {j} : /\ pc'[k] = pc[k] /\ local'[k] = local[k]
                                 /\ outcome'[k] = outcome[k]
    BY <1>1 DEF Returns, JobsInv, Typed
  <1>3. Typed'
    BY <1>1 DEF JobsInv, Typed, Returns
  <1>4. JobFits(j)'
    <2>1. JobFits(j)
      BY DEF JobsInv
    <2>2. ASSUME NEW s \in Slots, slots'[s].job = j
          PROVE  SlotFits(j, slots[s])'
      <3>1. Older(j, slots[s], slots'[s])
        BY <2>2 DEF Ages
      <3>2. /\ slots'[s].state # "empty"
            /\ slots'[s].state = "completed" => slots'[s].next = Total[j]
        BY <2>1, <3>1 DEF Older, JobFits, SlotFits, Ended
      <3>4. CASE pc[j] \in Polling
        BY <1>2, <2>2, <3>2, <3>4 DEF SlotFits, Polling
      <3>5. CASE pc[j] \in {"idle", "starting"}
        BY <2>1, <3>1, <3>5 DEF Older, JobFits
      <3> QED
        BY <3>4, <3>5 DEF JobsInv, Typed
    <2>3. Ascending(local'[j].got)
      BY <1>2
    <2> QED
      BY <1>2, <2>2, <2>3 DEF JobFits, Polling, Everything
  <1> QED
    BY <1>2, <1>3, <1>4, StepFits

\* Throws() keeps it too.
LEMMA ThrowsOut ==
  ASSUME JobsInv, NEW j \in Jobs, TableInv', \A k \in Jobs : Ages(k), Throws(j),
         pc[j] # "done", aborted' \subseteq Jobs, faults' \in 0..MaxFaults,
         pc[j] \in Polling /\ KindOf[j] \in Watched =>
            \A s \in Slots : slots'[s].job = j => slots'[s].state # "running"
  PROVE  JobsInv'
  <1>1. PICK how \in {"aborted", "error"} : Returns(j, how, <<>>)
    BY DEF Throws
  <1>2. <<>> \in Seq(Nat) /\ Ascending(<<>>)
    BY EmptySeq DEF Ascending
  <1>3. how \in Outcomes \ {"none"} /\ how # "ok"
    BY DEF Outcomes
  <1> QED
    BY <1>1, <1>2, <1>3, Leaves

\* Starting a job.
LEMMA StartKeeps ==
  ASSUME JobsInv, NEW j \in Jobs, Begin(j) \/ Start(j) \/ StartRefused(j) \/ StartFails(j)
  PROVE  JobsInv'
  <1>1. JobFits(j) /\ TableInv /\ Typed
    BY DEF JobsInv
  <1>2. CASE Begin(j)
    <2>1. TableInv' /\ \A k \in Jobs : Ages(k)
      BY <1>1, <1>2, SameAges DEF Begin
    <2>2. /\ pc[j] = "idle" /\ pc'[j] = "starting"
          /\ UNCHANGED <<local, outcome, slots, aborted, faults>>
          /\ \A k \in Jobs \ {j} : pc'[k] = pc[k]
      BY <1>1, <1>2 DEF Begin, Typed, tableVars
    <2>3. Typed'
      BY <1>1, <1>2 DEF Begin, Typed
    <2>4. JobFits(j)'
      BY <1>1, <2>2 DEF JobFits, Polling, Everything, Ascending
    <2> QED
      BY <2>1, <2>2, <2>3, <2>4, StepFits
  <1>3. CASE Start(j)
    <2>1. ~Known(j) /\ pc[j] = "starting"
      BY <1>1, <1>3 DEF Start, JobFits, Known
    <2>2. /\ TableInv' /\ \A k \in Jobs \ {j} : Ages(k)
          /\ \A s \in Slots : slots'[s].job = j =>
               slots'[s].state = "running" /\ slots'[s].next = 0
      BY <1>1, <1>3, <2>1, StartAges DEF Start
    <2>3. NewLocal \in Local /\ NewLocal.state = "running" /\ NewLocal.seq = 0
          /\ NewLocal.got = <<>>
      BY EmptySeq DEF NewLocal, Local
    <2>4. Len(NewLocal.got) = 0 /\ Ascending(NewLocal.got) /\ Counts(NewLocal.got, 0)
      BY <2>3 DEF Ascending, Counts
    <2>5. PICK to \in {"poll", "page"} : Goes(j, to, NewLocal)
      BY <1>3 DEF Start, FirstStep
    <2>6. /\ pc'[j] = to /\ local'[j] = NewLocal /\ UNCHANGED outcome
          /\ \A k \in Jobs \ {j} : pc'[k] = pc[k] /\ local'[k] = local[k]
      BY <1>1, <2>5 DEF Goes, Typed
    <2>7. Typed'
      BY <1>1, <1>3, <2>3, <2>5 DEF Start, Goes, Typed, Polling
    <2>8. outcome[j] = "none"
      BY <1>1, <2>1 DEF JobFits
    <2>9. ASSUME NEW s \in Slots, slots'[s].job = j
          PROVE  SlotFits(j, slots[s])'
      BY <2>2, <2>3, <2>4, <2>6, <2>9 DEF SlotFits, Polling
    <2>10. JobFits(j)'
      BY <2>3, <2>4, <2>6, <2>8, <2>9 DEF JobFits, Polling
    <2> QED
      BY <2>2, <2>6, <2>7, <2>10, StepFits
  <1>4. CASE StartRefused(j)
    <2>1. TableInv' /\ \A k \in Jobs : Ages(k)
      BY <1>1, <1>4, SameAges DEF StartRefused
    <2>2. Throws(j) /\ pc[j] = "starting" /\ UNCHANGED <<aborted, faults>>
      BY <1>4 DEF StartRefused
    <2> QED
      BY <1>1, <2>1, <2>2, ThrowsOut DEF Typed, Polling
  <1>5. CASE StartFails(j)
    <2>1. TableInv' /\ \A k \in Jobs : Ages(k)
      BY <1>1, <1>5, StartFailsAges DEF StartFails
    <2>2. Throws(j) /\ pc[j] = "starting" /\ UNCHANGED aborted
      BY <1>5 DEF StartFails
    <2>3. faults' \in 0..MaxFaults
      BY <1>1, <1>5, CollectorAssumption DEF StartFails, Typed
    <2> QED
      BY <1>1, <2>1, <2>2, <2>3, ThrowsOut DEF Typed, Polling
  <1> QED
    BY <1>2, <1>3, <1>4, <1>5

\* What a collector knows of the slot it asks for.
LEMMA SeesSlot ==
  ASSUME JobsInv, NEW j \in Jobs, Known(j), pc[j] \in Polling
  PROVE  /\ SlotOf(j) \in Slots /\ slots[SlotOf(j)] \in Slot
         /\ \A s \in Slots : slots[s].job = j => s = SlotOf(j)
         /\ local[j] \in Local /\ local[j].state \in {"running", slots[SlotOf(j)].state}
         /\ ~slots[SlotOf(j)].lost => /\ local[j].seq <= slots[SlotOf(j)].next
                                      /\ Counts(local[j].got, local[j].seq)
         /\ Ascending(local[j].got)
         /\ \A i \in 1..Len(local[j].got) : local[j].got[i] <= local[j].seq
         /\ JobStatus(j) = slots[SlotOf(j)].state
         /\ slots[SlotOf(j)].state \in {"running"} \cup Ended
         /\ slots[SlotOf(j)].state = "completed" => slots[SlotOf(j)].next = Total[j]
  <1>1. JobFits(j) /\ TableInv /\ local[j] \in Local
    BY DEF JobsInv, Typed
  <1>2. /\ SlotOf(j) \in Slots /\ slots[SlotOf(j)].job = j
        /\ \A s \in Slots : slots[s].job = j => s = SlotOf(j)
    BY <1>1, SlotOfIs
  <1>3. SlotFits(j, slots[SlotOf(j)]) /\ slots[SlotOf(j)] \in Slot
    BY <1>1, <1>2 DEF JobFits, TableInv
  <1>4. slots[SlotOf(j)].state \in {"running"} \cup Ended
    BY <1>3 DEF SlotFits, Slot
  <1> QED
    BY <1>1, <1>2, <1>3, <1>4 DEF SlotFits, JobStatus, JobFits

\* Polling, without reading output.
LEMMA PollKeeps ==
  ASSUME JobsInv, NEW j \in Jobs,
         NotFound(j) \/ GivesUp(j) \/ Poll(j) \/ PageRefused(j) \/ Status(j)
  PROVE  JobsInv'
  <1>1. JobFits(j) /\ TableInv /\ Typed /\ local[j] \in Local
    BY DEF JobsInv, Typed
  <1>2. UNCHANGED tableVars => TableInv' /\ (\A k \in Jobs : Ages(k)) /\ UNCHANGED slots
    BY <1>1, SameAges DEF tableVars
  <1>3. CASE NotFound(j)
    <2>1. /\ Throws(j) /\ UNCHANGED <<tableVars, aborted, faults>> /\ ~Known(j)
          /\ pc[j] # "done"
      BY <1>3 DEF NotFound
    <2>2. \A s \in Slots : slots'[s].job # j
      BY <1>2, <2>1 DEF Known
    <2> QED
      BY <1>1, <1>2, <2>1, <2>2, ThrowsOut DEF Typed
  <1>4. CASE GivesUp(j)
    <2>1. JobCancel({j}) /\ Returns(j, "aborted", <<>>) /\ UNCHANGED <<aborted, faults>>
          /\ pc[j] # "done"
      BY <1>4 DEF GivesUp, Cancels
    <2>2. TableInv' /\ \A k \in Jobs : Ages(k)
      BY <1>1, <2>1, CancelAges
    <2>3. ASSUME NEW s \in Slots, slots'[s].job = j, slots'[s].state = "running"
          PROVE  slots'[s].cancel
      <3>1. slots'[s] = IF slots[s].job \in {j} /\ slots[s].state = "running"
                        THEN [slots[s] EXCEPT !.cancel = TRUE] ELSE slots[s]
        BY <2>1 DEF JobCancel
      <3>2. slots[s] \in Slot
        BY <1>1 DEF TableInv
      <3>3. CASE slots[s].job = j /\ slots[s].state = "running"
        BY <3>1, <3>2, <3>3 DEF Slot
      <3> QED
        BY <2>3, <3>1, <3>3
    <2>4. <<>> \in Seq(Nat) /\ Ascending(<<>>) /\ "aborted" \in Outcomes \ {"none"}
      BY EmptySeq DEF Ascending, Outcomes
    <2> QED
      BY <1>1, <2>1, <2>2, <2>3, <2>4, Leaves DEF Typed
  <1>5. CASE PageRefused(j)
    <2>1. /\ Throws(j) /\ UNCHANGED <<tableVars, aborted, faults>> /\ ~ValidLimit(LimitOf(j))
          /\ pc[j] # "done"
      BY <1>5 DEF PageRefused
    <2>2. KindOf[j] \notin Watched
      BY <2>1, JobTableAssumption DEF ValidLimit, LimitOf, Watched
    <2> QED
      BY <1>1, <1>2, <2>1, <2>2, ThrowsOut DEF Typed
  <1>6. CASE Poll(j)
    <2>1. /\ Known(j) /\ pc[j] = "poll" /\ UNCHANGED <<tableVars, aborted, faults>>
          /\ Goes(j, "page", [local[j] EXCEPT !.state = JobStatus(j)])
      BY <1>6 DEF Poll
    <2>2. PICK knows : knows = [local[j] EXCEPT !.state = JobStatus(j)]
      OBVIOUS
    <2>3. pc[j] \in Polling /\ "page" \in Polling
      BY <2>1 DEF Polling
    <2>4. /\ knows \in Local /\ knows.state = JobStatus(j) /\ knows.seq = local[j].seq
          /\ knows.got = local[j].got
      BY <2>1, <2>2, <2>3, SeesSlot DEF Local
    <2>5. Knows(j, "page", knows)
      BY <2>1, <2>3, <2>4, SeesSlot DEF Knows
    <2> QED
      BY <2>1, <2>2, <2>3, <2>4, <2>5, GoesOn
  <1>7. CASE Status(j)
    <2>1. /\ Known(j) /\ pc[j] = "status" /\ UNCHANGED <<tableVars, aborted, faults>>
          /\ KindOf[j] # "search"
      BY <1>1, <1>7 DEF Status, JobFits
    <2>2. PICK knows : knows = [local[j] EXCEPT !.state = JobStatus(j)]
      OBVIOUS
    <2>3. pc[j] \in Polling /\ "page" \in Polling /\ "tail" \in Polling
      BY <2>1 DEF Polling
    <2>4. /\ knows \in Local /\ knows.state = JobStatus(j) /\ knows.seq = local[j].seq
          /\ knows.got = local[j].got
      BY <2>1, <2>2, <2>3, SeesSlot DEF Local
    <2>5. CASE JobStatus(j) = "running"
      <3>1. Goes(j, "page", local[j])
        BY <1>7, <2>5 DEF Status
      <3>2. Knows(j, "page", local[j])
        BY <2>1, <2>3, SeesSlot DEF Knows
      <3> QED
        BY <1>1, <2>1, <2>3, <3>1, <3>2, GoesOn
    <2>6. CASE JobStatus(j) # "running"
      <3>1. Goes(j, "tail", knows)
        BY <1>7, <2>2, <2>6 DEF Status
      <3>2. Knows(j, "tail", knows)
        BY <2>1, <2>3, <2>4, <2>6, SeesSlot DEF Knows
      <3> QED
        BY <2>1, <2>3, <2>4, <3>1, <3>2, GoesOn
    <2> QED
      BY <2>5, <2>6
  <1> QED
    BY <1>3, <1>4, <1>5, <1>6, <1>7

\* Reading output: of a search, of the others, and the last page.
LEMMA PageKeeps ==
  ASSUME JobsInv, NEW j \in Jobs, SearchPage(j) \/ Page(j) \/ LastPage(j)
  PROVE  JobsInv'
  <1> DEFINE read == Read(j)
             slot == slots[SlotOf(j)]
  <1>1. /\ Known(j) /\ pc[j] \in Polling /\ pc[j] # "done" /\ JobFits(j)
        /\ UNCHANGED <<tableVars, aborted, faults>> /\ UNCHANGED slots
    BY DEF SearchPage, Page, LastPage, Polling, JobsInv, tableVars
  <1>2. /\ TableInv' /\ (\A k \in Jobs : Ages(k))
        /\ aborted' \subseteq Jobs /\ faults' \in 0..MaxFaults
    BY <1>1, SameAges DEF JobsInv, Typed
  <1>3. /\ read \in Local /\ read.state = local[j].state /\ read.gap = slot.lost
        /\ Ascending(read.got)
        /\ \A i \in 1..Len(read.got) : read.got[i] <= read.seq
        /\ ~slot.lost => /\ read.seq <= slot.next
                         /\ Counts(read.got, read.seq)
        /\ ~slot.lost /\ KindOf[j] \in Watched => read.seq = slot.next
    BY <1>1, ReadIs
  <1>4. /\ local[j].state \in {"running", slot.state}
        /\ slot.state = "completed" => slot.next = Total[j]
        /\ \A s \in Slots : slots'[s].job = j => slots'[s] = slot
        /\ local[j].state \in {"running"} \cup Ended
    BY <1>1, SeesSlot DEF Local
  <1>5. <<>> \in Seq(Nat) /\ Ascending(<<>>) /\ read.got \in Seq(Nat)
    BY <1>3, EmptySeq DEF Ascending, Local
  <1>6. {"cut", "ok", "aborted"} \subseteq Outcomes \ {"none"}
    BY DEF Outcomes
  <1> HIDE DEF read, slot
  <1>7. ASSUME KindOf[j] \in Watched, local[j].state = "completed", ~slot.lost
        PROVE  read.got = Everything(j)
    <2>1. Counts(read.got, Total[j])
      BY <1>3, <1>4, <1>7
    <2> QED
      BY <1>5, <2>1, EverythingIs
  <1>8. ASSUME NEW to \in Polling, Goes(j, to, read), to \in {"status",
  "tail"} => KindOf[j] # "search",
               to # "tail"
        PROVE  JobsInv'
    <2>1. Knows(j, to, read)
      BY <1>3, <1>4, <1>8 DEF Knows, slot
    <2> QED
      BY <1>1, <1>3, <1>8, <2>1, GoesOn
  <1>9. ASSUME local[j].state # "running" PROVE slot.state # "running"
    BY <1>4, <1>9
  <1>10. CASE SearchPage(j)
    <2>1. /\ KindOf[j] = "search" /\ pc[j] = "page"
          /\ \/ read.gap /\ Returns(j, "cut", <<>>)
             \/ Goes(j, "page", read)
             \/ Goes(j, "poll", read)
             \/ ~read.gap /\ local[j].state = "completed" /\ Returns(j, "ok", read.got)
             \/ local[j].state \in Ended \ {"completed"} /\ Throws(j)
      BY <1>10 DEF SearchPage, read
    <2>2. "page" \in Polling /\ "poll" \in Polling /\ KindOf[j] \in Watched
      BY <2>1 DEF Polling, Watched
    <2>3. CASE Returns(j, "cut", <<>>)
      BY <1>1, <1>2, <1>5, <1>6, <2>3, Leaves
    <2>4. CASE Goes(j, "page", read) \/ Goes(j, "poll", read)
      BY <1>8, <2>2, <2>4
    <2>5. CASE ~read.gap /\ local[j].state = "completed" /\ Returns(j, "ok", read.got)
      <3>1. read.got = Everything(j)
        BY <1>3, <1>7, <2>2, <2>5
      <3>2. \A s \in Slots : ~(slots'[s].job = j /\ slots'[s].state = "running")
        BY <1>4, <1>9, <2>5
      <3> QED
        BY <1>1, <1>2, <1>3, <1>5, <1>6, <2>5, <3>1, <3>2, Leaves
    <2>6. CASE local[j].state \in Ended \ {"completed"} /\ Throws(j)
      <3>1. \A s \in Slots : ~(slots'[s].job = j /\ slots'[s].state = "running")
        BY <1>4, <1>9, <2>6 DEF Ended
      <3> QED
        BY <1>1, <1>2, <2>6, <3>1, ThrowsOut
    <2> QED
      BY <2>1, <2>3, <2>4, <2>5, <2>6
  <1>11. CASE Page(j)
    <2>1. KindOf[j] # "search" /\ Goes(j, "status", read)
      BY <1>11 DEF Page, read
    <2>2. "status" \in Polling
      BY DEF Polling
    <2> QED
      BY <1>8, <2>1, <2>2
  <1>12. CASE LastPage(j)
    <2>1. /\ pc[j] = "tail" /\ KindOf[j] # "search" /\ local[j].state \in Ended
          /\ \/ Returns(j, "aborted", <<>>)
             \/ Throws(j)
             \/ /\ KindOf[j] = "bash" => local[j].state = "completed"
                /\ Returns(j, IF KindOf[j] = "bash" /\ read.gap THEN "cut" ELSE "ok", read.got)
      BY <1>1, <1>12 DEF LastPage, read, JobFits
    <2>2. \A s \in Slots : ~(slots'[s].job = j /\ slots'[s].state = "running")
      BY <1>4, <1>9, <2>1 DEF Ended
    <2>3. CASE Returns(j, "aborted", <<>>)
      BY <1>1, <1>2, <1>5, <1>6, <2>2, <2>3, Leaves
    <2>4. CASE Throws(j)
      BY <1>1, <1>2, <2>2, <2>4, ThrowsOut
    <2>5. ASSUME NEW how, how = IF KindOf[j] = "bash" /\ read.gap THEN "cut" ELSE "ok",
                 Returns(j, how, read.got), KindOf[j] = "bash" => local[j].state = "completed"
          PROVE  JobsInv'
      <3>1. how \in Outcomes \ {"none"}
        BY <1>6, <2>5
      <3>2. KindOf[j] \in Watched /\ how = "ok" => read.got = Everything(j)
        BY <1>3, <1>7, <2>1, <2>5 DEF Watched
      <3> QED
        BY <1>1, <1>2, <1>3, <1>5, <2>2, <2>5, <3>1, <3>2, Leaves
    <2> QED
      BY <2>1, <2>3, <2>4, <2>5
  <1> QED
    BY <1>10, <1>11, <1>12

\* What happens around them.
LEMMA WorldKeeps ==
  ASSUME JobsInv, (\E j \in Jobs : Abort(j)) \/ Cleanup \/ Crash \/ Running \/ Ending
  PROVE  JobsInv'
  <1>1. TableInv /\ Typed
    BY DEF JobsInv
  <1>2. CASE \E j \in Jobs : Abort(j)
    <2>1. PICK j \in Jobs : Abort(j)
      BY <1>2
    <2>2. JobCancel({j}) \/ UNCHANGED tableVars
      BY <2>1 DEF Abort
    <2>3. TableInv' /\ \A k \in Jobs : Ages(k)
      BY <1>1, <2>2, SameAges, CancelAges
    <2>4. /\ aborted' \subseteq Jobs /\ heard' \subseteq Jobs
          /\ UNCHANGED <<pc, local, outcome>> /\ faults' \in 0..MaxFaults
      BY <1>1, <2>1 DEF Abort, Typed
    <2> QED
      BY <2>3, <2>4, TableFits
  <1>3. CASE Cleanup \/ Crash
    <2>1. TableInv' /\ \A k \in Jobs : Ages(k)
      BY <1>1, <1>3, CancelAges, LostAges DEF Cleanup, Crash
    <2>2. faults' \in 0..MaxFaults /\ UNCHANGED <<collectorVars, aborted>>
      BY <1>1, <1>3, CollectorAssumption DEF Cleanup, Crash, Typed
    <2> QED
      BY <1>1, <2>1, <2>2, TableFits DEF collectorVars, Typed
  <1>4. CASE Running \/ Ending
    <2>1. TableInv' /\ \A k \in Jobs : Ages(k)
      BY <1>1, <1>4, WriteAges, FinishAges DEF Running, Ending
    <2>2. UNCHANGED <<collectorVars, aborted, faults>>
      BY <1>4 DEF Running, Ending
    <2> QED
      BY <1>1, <2>1, <2>2, TableFits DEF collectorVars, Typed
  <1> QED
    BY <1>2, <1>3, <1>4

\* JobsInv holds at first.
LEMMA JobsStart == Init => JobsInv
  <1> SUFFICES ASSUME Init PROVE JobsInv
    OBVIOUS
  <1>1. /\ \A s \in Slots : slots[s] = EmptySlot
        /\ slots \in [Slots -> Slot] /\ thread \in [Jobs -> Slots \cup {0}]
        /\ \A j \in Jobs : thread[j] = 0
    BY EmptyIs DEF Init, TableInit
  <1>2. EmptySlot.job = NoJob
    BY DEF EmptySlot
  <1>3. TableInv
    BY <1>1, <1>2, EmptyIs DEF TableInv
  <1>4. NewLocal \in Local /\ NewLocal.got = <<>>
    BY EmptySeq DEF NewLocal, Local
  <1>5. Typed
    BY <1>4, CollectorAssumption DEF Init, Typed, Outcomes
  <1>6. ASSUME NEW j \in Jobs PROVE JobFits(j)
    <2>1. pc[j] = "idle" /\ local[j] = NewLocal /\ outcome[j] = "none"
      BY DEF Init
    <2>2. Ascending(local[j].got)
      BY <1>4, <2>1 DEF Ascending
    <2>3. \A s \in Slots : slots[s].job # j
      BY <1>1, <1>2, JobTableAssumption
    <2> QED
      BY <2>1, <2>2, <2>3 DEF JobFits, Polling
  <1> QED
    BY <1>3, <1>5, <1>6 DEF JobsInv

\* JobsInv is inductive.
LEMMA JobsKeep == JobsInv /\ [Next]_vars => JobsInv'
  <1> SUFFICES ASSUME JobsInv, [Next]_vars PROVE JobsInv'
    OBVIOUS
  <1>1. CASE Collecting
    BY <1>1, StartKeeps, PollKeeps, PageKeeps DEF Collecting, Collector
  <1>2. CASE Environment
    BY <1>2, StartKeeps, WorldKeeps DEF Environment
  <1>3. CASE Running \/ Ending
    BY <1>3, WorldKeeps
  <1>4. CASE UNCHANGED vars
    BY <1>4, SameAges, TableFits DEF vars, collectorVars, JobsInv, Typed
  <1> QED
    BY <1>1, <1>2, <1>3, <1>4 DEF Next

\* So it always holds.
LEMMA JobsAlways == Spec => []JobsInv
  BY JobsStart, JobsKeep, PTL DEF Spec

\* ThreadOwnsSlot (rpc.c, handle_job_start): a thread that still writes has the slot it writes to,
\* whatever was evicted or cleaned up.
THEOREM ThreadsOwnSlots == Spec => []ThreadOwnsSlot
  BY JobsAlways, InvImplies, PTL

\* ResultIsWhole (core-client.ts, job-collect.ts, executeBash): what a search or the bash tool
\* returns as complete is every chunk of the job, once and in order.
THEOREM ResultsAreWhole == Spec => []ResultIsWhole
  BY JobsAlways, InvImplies, PTL

\* NoJobLeftBehind (executeBash, collectSearchJobText): a job whose caller has returned has ended,
\* has been told to stop, or its output had a gap.
THEOREM NoJobRunsOn == Spec => []NoJobLeftBehind
  BY JobsAlways, InvImplies, PTL

====
