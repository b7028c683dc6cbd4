------------------------- MODULE SessionLog_proofs --------------------------
(***************************************************************************)
(* The history of a session, proved for any number of messages,            *)
(* truncations, changes of the settings, failing writes and crashes.       *)
(*                                                                         *)
(* AcceptedIsReadable and NothingMissed say what the file and the history  *)
(* in memory have; that they keep it depends on where the call is whose    *)
(* turn it is (Lines), on the numbers of the messages that are still to    *)
(* come (Numbered), and on what a size that was read long ago says of the  *)
(* file (Sizes).                                                           *)
(*                                                                         *)
(* PathIsWhole is about the parents of messages: that they form a tree     *)
(* with one branch that has all that was answered (Shape) needs the leaf   *)
(* at its tip (Leaf, Parent), and copies in memory that are trees too      *)
(* (Copies), because a truncation writes them back.                        *)
(***************************************************************************)
EXTENDS SessionLog, FiniteSetTheorems, FunctionTheorems, SequenceTheorems,
        WellFoundedInduction, TLAPS

\* Every message has a number from 1 to n.
Within(msgs, n) == \A i \in DOMAIN msgs : msgs[i].id \in 1..n

\* No message is there twice.
Distinct(msgs) == \A i, k \in DOMAIN msgs : i # k => msgs[i].id # msgs[k].id

\* All that is known of messages, in the file, in memory and by calls, is of those up to n.
Past(n) ==
    /\ Within(log, n) /\ Within(cache.msgs, n) /\ Within(op.held, n) /\ Within(reader.msgs, n)
    /\ tail.state # "clean" => tail.line.id \in 1..n

\* What is read of a file of the given size has every record that ended there; the file
\* has not got shorter.
Covers(size, msgs, total, records) ==
    /\ size <= total
    /\ \A i \in DOMAIN records : 3 * i <= size + 1 =>
          \E k \in DOMAIN msgs : msgs[k] = records[i]

\* Which steps a call has.
Stages ==
    /\ op.kind = "append" => op.pc \in {"repair", "write", "writing", "note", "stat", "save"}
    /\ op.kind = "truncate" => op.pc \in {"cut", "drop", "leaf", "save"}

\* Messages are numbered in the order of their calls: nothing is known of one before it
\* is written.
Numbered ==
    /\ Past(counts.calls)
    /\ \A i \in DOMAIN chain : chain[i].kind = "append" =>
          chain[i].id \in 1..counts.calls /\ Past(chain[i].id - 1)
    /\ \A i, k \in DOMAIN chain :
          i < k /\ chain[i].kind = "append" /\ chain[k].kind = "append" => chain[i].id < chain[k].id
    /\ op.kind = "append" =>
          /\ op.id \in 1..counts.calls
          /\ \A i \in DOMAIN chain : chain[i].kind = "append" => op.id < chain[i].id
          /\ op.pc \in {"repair", "write"} => Past(op.id - 1)

\* The end of the file at each step of an append; the line there is no other's; what was
\* answered is there.
Lines ==
    /\ op.pc = "write" => tail.state = "clean"
    /\ op.pc = "writing" => tail.state \in {"cut", "open"} /\ tail.line = Written
    /\ op.pc \in {"note", "stat"} =>
          tail.state = "clean" /\ Len(log) > 0 /\ log[Len(log)] = Written
    /\ op.kind = "append" /\ op.pc = "save" => op.id \in LogIds
    /\ tail.state # "clean" => tail.line.id \notin LogIds
    /\ acked \subseteq LogIds

\* No list has a message twice, unless the one in memory was given it twice.
Once ==
    \/ "doubled" \in flaws
    \/ Distinct(log) /\ Distinct(cache.msgs) /\ Distinct(op.held) /\ Distinct(reader.msgs)

\* A stat() that is taken for that of the file is; what was read with it covers the file,
\* unless the file got shorter meanwhile.
Sizes ==
    /\ reader.pc # "none" /\ reader.current => reader.size = Size
    /\ \/ "overtaken" \in flaws
       \/ /\ reader.pc = "read" => reader.size <= Size
          /\ reader.pc = "touch" => Covers(reader.size, reader.msgs, Size, Records)
          /\ cache.on /\ (op.pc = "drop" => cache.current) =>
                Covers(cache.size, cache.msgs, Size, Records)
          /\ op.pc = "stat" => Covers(op.size, op.held, Size, Records)

\* The one list is where the other begins.
Begins(msgs, records) ==
    Len(msgs) <= Len(records) /\ \A i \in 1..Len(msgs) : msgs[i] = records[i]

\* What is held in memory is the beginning of the file, and what a truncation holds is the
\* file, unless one of the two things happened that spoil it.
Faithful ==
    \/ "overtaken" \in flaws \/ "doubled" \in flaws
    \/ /\ reader.pc = "touch" => Begins(reader.msgs, Records)
       /\ cache.on /\ (op.pc = "drop" => cache.current) => Begins(cache.msgs, Records)
       /\ op.pc = "stat" => Begins(op.held, Records)
       /\ op.pc = "cut" => op.held = Records

\* The inductive invariant.
LogInv == TypeOK /\ Stages /\ Numbered /\ Lines /\ Once /\ Sizes /\ Faithful

\* A tree: every message's parent stands before it.
Treed(msgs) ==
    \A i \in DOMAIN msgs :
        msgs[i].parent = 0 \/ \E k \in 1..(i - 1) : msgs[k].id = msgs[i].parent

\* The messages of a list are among those of another.
Among(msgs, records) ==
    \A i \in DOMAIN msgs : \E k \in DOMAIN records : records[k].id = msgs[i].id

\* There is no parent, or it is a message of the list.
Known(id, msgs) == id = 0 \/ \E k \in DOMAIN msgs : msgs[k].id = id

\* A message stands behind all that have been answered.
Behind(id, msgs, done) ==
    \A k \in DOMAIN msgs : msgs[k].id \in done =>
        \E j \in DOMAIN msgs : k <= j /\ msgs[j].id = id

\* No message's parent stands before an answered message that stands before the message.
Chained(msgs, done) ==
    \A i, k \in DOMAIN msgs : k < i /\ msgs[k].id \in done =>
        \E j \in k..(i - 1) : msgs[j].id = msgs[i].parent

\* The two files of a truncation are replaced one after the other.
Halfway == op.pc \in {"drop", "leaf"} \/ (op.kind = "truncate" /\ op.pc = "save")

\* Nothing has happened that spoils the tree.
Whole == flaws \cap {"halfTruncated", "overlap", "overtaken"} = {}

\* A change of the settings that is under way has read what is still there.
Fresh ==
    "overlap" \notin flaws /\ edit.on =>
        op.pc \in {"", "cut", "drop", "leaf"} /\ edit.meta.leaf = meta.leaf

\* The message whose append is about to be answered is the last line.
AtEnd ==
    op.kind = "append" /\ op.pc = "save" =>
        tail.state = "clean" /\ Len(log) > 0 /\ log[Len(log)].id = op.id

\* The leaf is a message of the file and behind all that have been answered, ...
Leaf ==
    ~Halfway =>
        /\ Whole => Known(meta.leaf, log)
        /\ flaws = {} => Behind(meta.leaf, log, acked)

\* ... and so is the parent of the message that is to be written.
Parent ==
    /\ op.pc = "repair" =>
          /\ Whole => Known(op.parent, Records)
          /\ flaws = {} => Behind(op.parent, Records, acked)
    /\ op.pc \in {"write", "writing"} =>
          /\ Whole => Known(op.parent, log)
          /\ flaws = {} => Behind(op.parent, log, acked)

\* The file has a tree, in which one branch has all that have been answered.
Shape ==
    /\ Whole => Treed(Records)
    /\ flaws = {} => Chained(Records, acked)

\* What is in memory, and may be written back, is a tree as well.
Copies ==
    Whole =>
        /\ reader.pc = "touch" => Treed(reader.msgs) /\ Among(reader.msgs, Records)
        /\ cache.on /\ (op.pc = "drop" => cache.current) =>
              Treed(cache.msgs) /\ Among(cache.msgs, Records)
        /\ op.pc = "stat" => Treed(op.held) /\ Among(op.held, Records)
        /\ op.pc = "cut" => Treed(op.held)

\* The inductive invariant of the tree.
TreeInv == LogInv /\ Fresh /\ AtEnd /\ Leaf /\ Parent /\ Shape /\ Copies

\* Which values a variable can have.
LEMMA TypesAre ==
    ASSUME TypeOK
    PROVE  /\ log \in Seq(Message) /\ cache.msgs \in Seq(Message) /\ op.held \in Seq(Message)
           /\ reader.msgs \in Seq(Message) /\ tail.line \in Message
           /\ Len(log) \in Nat /\ DOMAIN log = 1..Len(log)
           /\ DOMAIN cache.msgs = 1..Len(cache.msgs) /\ DOMAIN op.held = 1..Len(op.held)
           /\ DOMAIN reader.msgs = 1..Len(reader.msgs)
           /\ cache.size \in Nat /\ op.size \in Nat /\ reader.size \in Nat
           /\ op.id \in Nat /\ op.parent \in {0} \cup Ids
           /\ counts.calls \in Nat /\ MaxMessages \in Nat
<1>1. MaxMessages \in Nat
  BY SessionLogAssumption
<1>2. /\ log \in Seq(Message) /\ cache.msgs \in Seq(Message) /\ op.held \in Seq(Message)
      /\ reader.msgs \in Seq(Message) /\ tail.line \in Message
      /\ cache.size \in Nat /\ op.size \in Nat /\ reader.size \in Nat
      /\ op.id \in Nat /\ op.parent \in {0} \cup Ids /\ counts.calls \in 0..MaxMessages
  BY DEF TypeOK, Entries, Ops, Readers, Tails, Limits
<1>3. counts.calls \in Nat
  BY <1>1, <1>2
<1> QED
  BY <1>1, <1>2, <1>3, LenProperties

\* What a reader of the file finds.
LEMMA RecordsAre ==
    ASSUME TypeOK
    PROVE  /\ Records \in Seq(Message) /\ DOMAIN Records = 1..Len(Records)
           /\ Len(Records) = IF tail.state = "open" THEN Len(log) + 1 ELSE Len(log)
           /\ \A i \in 1..Len(log) : Records[i] = log[i]
           /\ tail.state = "open" => Records[Len(log) + 1] = tail.line
<1>1. CASE tail.state = "open"
  BY <1>1, TypesAre, AppendProperties DEF Records
<1>2. CASE tail.state # "open"
  BY <1>2, TypesAre DEF Records
<1> QED
  BY <1>1, <1>2

\* The size of the file.
LEMMA SizeIs ==
    ASSUME TypeOK
    PROVE  /\ Size \in Nat
           /\ tail.state = "clean" => Size = 3 * Len(log)
           /\ tail.state = "cut" => Size = 3 * Len(log) + 1
           /\ tail.state = "open" => Size = 3 * Len(log) + 2
<1>1. Len(log) \in Nat /\ tail.state \in {"clean", "cut", "open"}
  BY TypesAre DEF TypeOK, Tails
<1>2. CASE tail.state = "clean"
  BY <1>1, <1>2 DEF Size
<1>3. CASE tail.state = "cut"
  BY <1>1, <1>3 DEF Size
<1>4. CASE tail.state = "open"
  BY <1>1, <1>4 DEF Size
<1> QED
  BY <1>1, <1>2, <1>3, <1>4

\* The first messages of a list.
LEMMA FirstOnes ==
    ASSUME NEW msgs \in Seq(Message), NEW n \in Nat
    PROVE  LET kept == SubSeq(msgs, 1, IF n < Len(msgs) THEN n ELSE Len(msgs))
           IN  /\ kept \in Seq(Message) /\ DOMAIN kept = 1..Len(kept)
               /\ \A i \in DOMAIN kept : i \in DOMAIN msgs /\ kept[i] = msgs[i]
<1> DEFINE m == IF n < Len(msgs) THEN n ELSE Len(msgs)
<1>1. Len(msgs) \in Nat /\ DOMAIN msgs = 1..Len(msgs) /\ \A i \in 1..m : msgs[i] \in Message
  BY LenProperties
<1>2. m \in Nat /\ m <= Len(msgs)
  BY <1>1
<1> HIDE DEF m
<1>3. /\ SubSeq(msgs, 1, m) \in Seq(Message)
      /\ Len(SubSeq(msgs, 1, m)) = IF 1 <= m THEN m - 1 + 1 ELSE 0
      /\ \A i \in 1..(m - 1 + 1) : SubSeq(msgs, 1, m)[i] = msgs[1 + i - 1]
  BY <1>1, <1>2, SubSeqProperties
<1>4. DOMAIN SubSeq(msgs, 1, m) = 1..Len(SubSeq(msgs, 1, m)) /\ Len(SubSeq(msgs, 1, m)) = m
  BY <1>2, <1>3, LenProperties
<1>5. \A i \in 1..m : SubSeq(msgs, 1, m)[i] = msgs[i] /\ i \in 1..Len(msgs)
  BY <1>2, <1>3
<1> QED
  BY <1>1, <1>3, <1>4, <1>5 DEF m

\* What a call whose turn it is reads.
LEMMA LoadedIs ==
    ASSUME TypeOK
    PROVE  /\ Loaded \in Seq(Message) /\ DOMAIN Loaded = 1..Len(Loaded)
           /\ CacheOfLoad.current /\ CacheOfLoad.on /\ CacheOfLoad.size = Size
           /\ CacheOfLoad.msgs = Loaded
           /\ CacheOfLoad \in Entries
<1>1. CASE cache.current
  BY <1>1, TypesAre DEF Loaded, CacheOfLoad, TypeOK
<1>2. CASE ~cache.current
  BY <1>2, RecordsAre, SizeIs DEF Loaded, CacheOfLoad, Entry, Entries
<1> QED
  BY <1>1, <1>2

\* The size changes with the file.
LEMMA SizeKept == UNCHANGED <<log, tail>> => Size' = Size
BY DEF Size

\* Which call has which steps.
LEMMA KindIs ==
    ASSUME TypeOK, Stages
    PROVE  /\ op.pc # "" => op.kind # "none"
           /\ op.pc \in {"repair", "write", "writing", "note", "stat"} => op.kind = "append"
           /\ op.pc \in {"cut", "drop", "leaf"} => op.kind = "truncate"
<1>1. op.kind \in {"none", "append", "truncate"} /\ (op.kind = "none" => op.pc = "")
  <2>1. op \in Ops /\ (op.kind = "none" => op = NoOp)
    BY DEF TypeOK
  <2>2. op.kind \in {"none", "append", "truncate"}
    BY <2>1 DEF Ops
  <2>3. NoOp.pc = ""
    BY DEF NoOp
  <2> QED
    BY <2>1, <2>2, <2>3
<1> QED
  BY <1>1 DEF Stages

\* The counters have their limits.
LEMMA Counted ==
    ASSUME TypeOK
    PROVE  /\ counts.calls < MaxMessages /\ Counts("calls") => counts' \in Limits
           /\ counts.truncates < MaxTruncates /\ Counts("truncates") => counts' \in Limits
           /\ counts.edits < MaxEdits /\ Counts("edits") => counts' \in Limits
           /\ counts.fails < MaxFails /\ Counts("fails") => counts' \in Limits
           /\ counts.crashes < MaxCrashes /\ Counts("crashes") => counts' \in Limits
<1> DEFINE Up(n, max) == n < max => n + 1 \in 0..max
<1>1. \A max \in Nat : \A n \in 0..max : Up(n, max)
  OBVIOUS
<1>2. {MaxMessages, MaxTruncates, MaxEdits, MaxFails, MaxCrashes} \subseteq Nat /\ counts \in Limits
  BY SessionLogAssumption DEF TypeOK
<1>3. /\ Up(counts.calls, MaxMessages) /\ Up(counts.truncates, MaxTruncates)
      /\ Up(counts.edits, MaxEdits) /\ Up(counts.fails, MaxFails)
      /\ Up(counts.crashes, MaxCrashes)
  BY <1>1, <1>2 DEF Limits
<1> QED
  BY <1>2, <1>3 DEF Counts, Limits

\* The message of a call.
LEMMA WrittenIs ==
    ASSUME TypeOK, Numbered, op.kind = "append"
    PROVE  op.id \in Ids /\ Written \in Message /\ Written.id = op.id
<1>1. op.id \in 1..counts.calls
  BY DEF Numbered
<1>2. counts.calls \in 0..MaxMessages /\ MaxMessages \in Nat
  BY TypesAre DEF TypeOK, Limits
<1>3. op.id \in Ids
  BY <1>1, <1>2 DEF Ids
<1>4. op.parent \in {0} \cup Ids
  BY DEF TypeOK, Ops
<1> QED
  BY <1>3, <1>4 DEF Written, Message

\* Types are kept.
LEMMA TypeStep == TypeOK /\ Stages /\ Numbered /\ Sizes /\ Next => TypeOK'
<1> SUFFICES ASSUME TypeOK, Stages, Numbered, Sizes, Next PROVE TypeOK'
  OBVIOUS
<1>t. /\ log \in Seq(Message) /\ cache.msgs \in Seq(Message) /\ op.held \in Seq(Message)
      /\ reader.msgs \in Seq(Message) /\ tail.line \in Message /\ Records \in Seq(Message)
      /\ Size \in Nat /\ counts.calls \in Nat /\ MaxMessages \in Nat
      /\ <<>> \in Seq(Message) /\ <<>> \in Seq(Calls)
      /\ cache \in Entries /\ op \in Ops /\ reader \in Readers /\ meta \in Meta
      /\ chain \in Seq(Calls) /\ tail \in Tails /\ edit \in [on : BOOLEAN, meta : Meta]
      /\ acked \subseteq Ids /\ flaws \subseteq Flaws /\ counts \in Limits
      /\ op.kind = "none" => op = NoOp
  BY TypesAre, RecordsAre, SizeIs, EmptySeq DEF TypeOK
<1>c. /\ counts.calls \in 0..MaxMessages /\ counts.truncates \in 0..MaxTruncates
      /\ counts.edits \in 0..MaxEdits /\ counts.fails \in 0..MaxFails
      /\ counts.crashes \in 0..MaxCrashes
      /\ {MaxMessages, MaxTruncates, MaxEdits, MaxFails, MaxCrashes} \subseteq Nat
  BY <1>t, SessionLogAssumption DEF Limits
<1>w. op.kind = "append" => op.id \in Ids /\ Written \in Message
  <2>1. op.kind = "append" => op.id \in 1..counts.calls
    BY DEF Numbered
  <2>2. counts.calls \in 0..MaxMessages /\ op.parent \in {0} \cup Ids
    BY <1>t, <1>c DEF Ops
  <2>3. op.kind = "append" => op.id \in Ids
    BY <1>t, <2>1, <2>2 DEF Ids
  <2> QED
    BY <2>2, <2>3 DEF Written, Message
<1>z. /\ 0 \in {0} \cup Ids /\ Clean \in Tails /\ Broken \in Message
      /\ [leaf |-> 0, settings |-> 0] \in Meta
  BY <1>c DEF Clean, Tails, Message, Broken, Meta
<1>o. NoOp \in Ops /\ NoCache \in Entries /\ NoReader \in Readers
  BY <1>t, <1>z DEF NoOp, NoCache, NoReader, Ops, Entries, Readers
<1>k. /\ op.pc # "" => op.kind # "none"
      /\ op.pc \in {"repair", "write", "writing", "note", "stat"} => op.kind = "append"
      /\ op.pc \in {"cut", "drop", "leaf"} => op.kind = "truncate"
  BY KindIs
<1>1. CASE CallAppend
  <2>u. UNCHANGED <<log, tail, meta, cache, op, edit, reader, acked, flaws>>
    BY <1>1 DEF CallAppend, files
  <2>1. chain' \in Seq(Calls)
    BY <1>1, <1>t DEF CallAppend, Counts, files, Calls
  <2>2. counts' \in Limits
    BY <1>1, Counted DEF CallAppend
  <2>s. cache'.current => cache'.on /\ cache'.size = Size'
    BY <1>1, <1>t, SizeKept DEF TypeOK, CallAppend, Counts, files
  <2> QED
    BY <2>u, <2>1, <2>2, <2>s DEF TypeOK
<1>2. CASE CallTruncate
  <2>u. UNCHANGED <<log, tail, meta, cache, op, edit, reader, acked, flaws>>
    BY <1>2 DEF CallTruncate, files
  <2>1. chain' \in Seq(Calls)
    BY <1>2, <1>t DEF CallTruncate, Counts, files, Calls
  <2>2. counts' \in Limits
    BY <1>2, Counted DEF CallTruncate
  <2>s. cache'.current => cache'.on /\ cache'.size = Size'
    BY <1>2, <1>t, SizeKept DEF TypeOK, CallTruncate, Counts, files
  <2> QED
    BY <2>u, <2>1, <2>2, <2>s DEF TypeOK
<1>3. CASE Begin
  <2>u. UNCHANGED <<log, tail, meta, edit, reader, acked, counts>>
    BY <1>3 DEF Begin, files
  <2>b. /\ Head(chain) \in Calls /\ Tail(chain) \in Seq(Calls) /\ Loaded \in Seq(Message)
        /\ CacheOfLoad \in Entries /\ CacheOfLoad.on /\ CacheOfLoad.size = Size
        /\ Loaded # <<>> => Loaded[Len(Loaded)].id \in {0} \cup Ids
    <3>1. chain # <<>>
      BY <1>3 DEF Begin
    <3>2. Loaded \in Seq(Message) /\ CacheOfLoad \in Entries /\ CacheOfLoad.on /\ CacheOfLoad.size = Size
      BY LoadedIs
    <3>3. Loaded # <<>> => Loaded[Len(Loaded)] \in Message
      BY <3>2, EmptySeq, LenProperties
    <3> QED
      BY <1>t, <3>1, <3>2, <3>3, HeadTailProperties DEF Message
  <2>1. cache' \in Entries
    BY <1>3, <1>t, <2>b DEF Begin
  <2>2. chain' \in Seq(Calls)
    BY <1>3, <2>b DEF Begin
  <2>3. op' \in Ops
    <3>1. PICK pc \in {"repair", "cut"}, parent \in {0} \cup Ids, held \in Seq(Message) :
             op' = [NoOp EXCEPT !.kind = Head(chain).kind, !.id = Head(chain).id, !.meta = meta,
                       !.pc = pc, !.parent = parent, !.held = held]
      BY <1>3, <1>t, <1>z, <2>b DEF Begin, Meta
    <3> QED
      BY <1>t, <1>o, <2>b, <3>1 DEF Ops, Calls
  <2>4. op'.kind = "none" => op' = NoOp
    BY <1>3, <2>b DEF Begin, NoOp, Calls
  <2>5. flaws' \subseteq Flaws
    BY <1>3, <1>t DEF Begin, Turn, NoOp, CacheOfLoad, files, Entry, Flaws
  <2>s. cache'.current => cache'.on /\ cache'.size = Size'
    BY <1>3, <2>b, SizeKept DEF Begin, files, TypeOK
  <2> QED
    BY <2>u, <2>1, <2>2, <2>3, <2>4, <2>5, <2>s DEF TypeOK
<1>4. CASE Repair
  <2>u. UNCHANGED <<meta, chain, edit, acked, counts>>
    BY <1>4 DEF Repair, files
  <2>1. log' \in Seq(Message)
    BY <1>4, <1>t, <1>w, <1>z, <1>o DEF Repair, Then, Clean, NoCache, Obsolete, FileChanges,
        Overtaken
  <2>2. tail' \in Tails
    BY <1>4, <1>t, <1>w, <1>z, <1>o DEF Repair, Then, Clean, NoCache, Obsolete, FileChanges,
        Overtaken, Tails
  <2>3. tail'.state # "clean" \/ tail' = Clean
    BY <1>4 DEF Repair, NeedsRepair, TypeOK
  <2>4. cache' \in Entries
    BY <1>4, <1>t, <1>o DEF Repair, Obsolete, Entries
  <2>5. op' \in Ops
    BY <1>4, <1>t, <1>w, <1>z, <1>o, <1>k DEF Repair, Then, Clean, NoCache, Obsolete,
        FileChanges, Overtaken, Ops, NoOp
  <2>6. op'.kind = "none" => op' = NoOp
    BY <1>4, <1>t, <1>w, <1>z, <1>o, <1>k DEF Repair, Then, Clean, NoCache, Obsolete,
        FileChanges, Overtaken, NoOp, Ops
  <2>7. reader' \in Readers
    BY <1>4, <1>t, <1>z, <1>o, <1>c DEF Repair, Then, Clean, NoCache, Obsolete, FileChanges,
        Overtaken, Readers
  <2>8. flaws' \subseteq Flaws
    BY <1>4, <1>t DEF Repair, Then, Clean, NoCache, Obsolete, FileChanges, Overtaken, Flaws
  <2>s. cache'.current => cache'.on /\ cache'.size = Size'
    <3>1. CASE NeedsRepair
      BY <1>4, <1>t, <3>1 DEF Repair, NoCache, Obsolete, Entries
    <3>2. CASE ~NeedsRepair
      BY <1>4, <3>2, SizeKept DEF Repair, TypeOK
    <3> QED
      BY <3>1, <3>2
  <2> QED
    BY <2>u, <2>1, <2>2, <2>3, <2>4, <2>5, <2>6, <2>7, <2>8, <2>s DEF TypeOK
<1>5. CASE StartWriting
  <2>u. UNCHANGED <<log, meta, chain, edit, acked, flaws, counts>>
    BY <1>5 DEF StartWriting, files
  <2>1. tail' \in Tails
    <3>1. op.kind = "append"
      BY <1>5, <1>k DEF StartWriting
    <3> QED
      BY <1>5, <1>w, <1>z, <3>1 DEF StartWriting, Tails
  <2>2. tail'.state # "clean" \/ tail' = Clean
    <3>1. PICK part \in {"cut", "open"} :
             tail' = IF tail.state = "clean" THEN [state |-> part, line |-> Written]
                     ELSE [state |-> "cut", line |-> Broken]
      BY <1>5 DEF StartWriting
    <3> QED
      BY <3>1
  <2>3. cache' \in Entries
    BY <1>5, <1>t, <1>w, <1>z, <1>o DEF StartWriting, Then, Written, Obsolete, FileChanges,
        Entries
  <2>4. op' \in Ops
    BY <1>5, <1>t, <1>w, <1>z, <1>o, <1>k DEF StartWriting, Then, Written, Obsolete,
        FileChanges, Ops, NoOp
  <2>5. op'.kind = "none" => op' = NoOp
    BY <1>5, <1>t, <1>w, <1>z, <1>o, <1>k DEF StartWriting, Then, Written, Obsolete,
        FileChanges, NoOp, Ops
  <2>6. reader' \in Readers
    BY <1>5, <1>t, <1>z, <1>o, <1>c DEF StartWriting, Then, Written, Obsolete, FileChanges,
        Readers
  <2>s. cache'.current => cache'.on /\ cache'.size = Size'
    BY <1>5, <1>t, SizeKept DEF TypeOK, StartWriting, Then, Written, Obsolete, FileChanges
  <2> QED
    BY <2>u, <2>1, <2>2, <2>3, <2>4, <2>5, <2>6, <2>s DEF TypeOK
<1>6. CASE Write
  <2>u. UNCHANGED <<meta, chain, edit, acked, flaws, counts>>
    BY <1>6 DEF Write, files
  <2>1. log' \in Seq(Message)
    BY <1>6, <1>t, <1>w, <1>z, <1>o DEF Write, Then, Clean, Obsolete, FileChanges
  <2>2. tail' \in Tails
    BY <1>6, <1>t, <1>w, <1>z, <1>o DEF Write, Then, Clean, Obsolete, FileChanges, Tails
  <2>3. tail'.state # "clean" \/ tail' = Clean
    BY <1>6, <1>t, <1>w, <1>z, <1>o DEF Write, Then, Clean, Obsolete, FileChanges
  <2>4. cache' \in Entries
    BY <1>6, <1>t, <1>w, <1>z, <1>o DEF Write, Then, Clean, Obsolete, FileChanges, Entries
  <2>5. op' \in Ops
    BY <1>6, <1>t, <1>w, <1>z, <1>o, <1>k DEF Write, Then, Clean, Obsolete, FileChanges, Ops,
        NoOp
  <2>6. op'.kind = "none" => op' = NoOp
    BY <1>6, <1>t, <1>w, <1>z, <1>o, <1>k DEF Write, Then, Clean, Obsolete, FileChanges, NoOp,
        Ops
  <2>7. reader' \in Readers
    BY <1>6, <1>t, <1>z, <1>o, <1>c DEF Write, Then, Clean, Obsolete, FileChanges, Readers
  <2>s. cache'.current => cache'.on /\ cache'.size = Size'
    BY <1>6, <1>t, SizeKept DEF TypeOK, Write, Then, Clean, Obsolete, FileChanges
  <2> QED
    BY <2>u, <2>1, <2>2, <2>3, <2>4, <2>5, <2>6, <2>7, <2>s DEF TypeOK
<1>7. CASE WriteFails
  <2>u. UNCHANGED <<log, tail, meta, cache, chain, edit, reader, acked, flaws>>
    BY <1>7 DEF WriteFails, files
  <2>1. op' \in Ops
    BY <1>7, <1>t, <1>w, <1>z, <1>o, <1>k DEF WriteFails, Counts, Done, files, NoOp, Ops
  <2>2. op'.kind = "none" => op' = NoOp
    BY <1>7, <1>t, <1>w, <1>z, <1>o, <1>k DEF WriteFails, Counts, Done, files, NoOp, Ops
  <2>3. counts' \in Limits
    BY <1>7, Counted DEF WriteFails
  <2>s. cache'.current => cache'.on /\ cache'.size = Size'
    BY <1>7, <1>t, SizeKept DEF TypeOK, WriteFails, Counts, Done, files, NoOp
  <2> QED
    BY <2>u, <2>1, <2>2, <2>3, <2>s DEF TypeOK
<1>8. CASE Note
  <2>u. UNCHANGED <<log, tail, meta, chain, edit, reader, acked, flaws, counts>>
    BY <1>8 DEF Note, files
  <2>1. cache' \in Entries
    BY <1>8, <1>t, <1>w, <1>z, <1>o DEF Note, NoCache, Then, files, Entries
  <2>2. op' \in Ops
    <3>1. \/ op' = [op EXCEPT !.pc = "stat", !.held = cache.msgs, !.size = cache.size]
          \/ op' = [op EXCEPT !.pc = "save"]
      BY <1>8 DEF Note, Then
    <3>2. cache.msgs \in Seq(Message) /\ cache.size \in Nat
      BY <1>t DEF Entries
    <3>3. CASE op' = [op EXCEPT !.pc = "stat", !.held = cache.msgs, !.size = cache.size]
      BY <1>t, <3>2, <3>3 DEF Ops
    <3>4. CASE op' = [op EXCEPT !.pc = "save"]
      BY <1>t, <3>4 DEF Ops
    <3> QED
      BY <3>1, <3>3, <3>4
  <2>3. op'.kind = "none" => op' = NoOp
    BY <1>8, <1>t, <1>w, <1>z, <1>o, <1>k DEF Note, NoCache, Then, files, NoOp, Ops
  <2>s. cache'.current => cache'.on /\ cache'.size = Size'
    BY <1>8, <1>t, SizeKept DEF TypeOK, Note, NoCache, Then, files
  <2> QED
    BY <2>u, <2>1, <2>2, <2>3, <2>s DEF TypeOK
<1>9. CASE NoteStat
  <2>u. UNCHANGED <<log, tail, meta, chain, edit, reader, acked, counts>>
    BY <1>9 DEF NoteStat, files
  <2>1. cache' \in Entries
    <3>1. op.kind = "append"
      BY <1>9, <1>k DEF NoteStat
    <3>2. Append(op.held, Written) \in Seq(Message)
      BY <1>t, <1>w, <3>1, AppendProperties
    <3> QED
      BY <1>9, <1>t, <1>o, <3>2 DEF NoteStat, Entry, Entries
  <2>2. op' \in Ops
    BY <1>9, <1>t, <1>w, <1>z, <1>o, <1>k DEF NoteStat, Grown, Entry, Written, NoCache, files,
        Ops, NoOp
  <2>3. op'.kind = "none" => op' = NoOp
    BY <1>9, <1>t, <1>w, <1>z, <1>o, <1>k DEF NoteStat, Grown, Entry, Written, NoCache, files,
        NoOp, Ops
  <2>4. flaws' \subseteq Flaws
    BY <1>9, <1>t DEF NoteStat, Grown, Entry, Written, NoCache, files, Flaws
  <2>s. cache'.current => cache'.on /\ cache'.size = Size'
    BY <1>9, <1>t, SizeKept DEF TypeOK, NoteStat, Grown, Entry, Written, NoCache, files
  <2> QED
    BY <2>u, <2>1, <2>2, <2>3, <2>4, <2>s DEF TypeOK
<1>10. CASE SaveAppend
  <2>u. UNCHANGED <<log, tail, cache, chain, edit, reader, flaws, counts>>
    BY <1>10 DEF SaveAppend, files
  <2>1. meta' \in Meta
    <3>1. [op.meta EXCEPT !.leaf = op.id] \in Meta
      <4>1. op.meta \in Meta /\ op.id \in {0} \cup Ids
        BY <1>10, <1>t, <1>w DEF SaveAppend, Ops
      <4> QED
        BY <4>1 DEF Meta
    <3> QED
      BY <1>10, <3>1 DEF SaveAppend
  <2>2. op' \in Ops
    BY <1>10, <1>t, <1>w, <1>z, <1>o, <1>k DEF SaveAppend, Done, NoOp, Ops
  <2>3. op'.kind = "none" => op' = NoOp
    BY <1>10, <1>t, <1>w, <1>z, <1>o, <1>k DEF SaveAppend, Done, NoOp, Ops
  <2>4. acked' \subseteq Ids
    BY <1>10, <1>t, <1>w, <1>z, <1>o DEF SaveAppend, Done, NoOp
  <2>s. cache'.current => cache'.on /\ cache'.size = Size'
    BY <1>10, <1>t, SizeKept DEF TypeOK, SaveAppend, Done, NoOp
  <2> QED
    BY <2>u, <2>1, <2>2, <2>3, <2>4, <2>s DEF TypeOK
<1>11. CASE Truncate
  <2>u. UNCHANGED <<meta, chain, edit, counts>>
    BY <1>11 DEF Truncate, files
  <2> DEFINE kept == SubSeq(op.held, 1, IF op.id < Len(op.held) THEN op.id ELSE Len(op.held))
  <2>k. /\ log' = kept /\ kept \in Seq(Message)
        /\ acked' = acked \cap {kept[i].id : i \in DOMAIN kept}
    <3>1. op.id \in Nat
      BY <1>t DEF Ops
    <3> QED
      BY <1>11, <1>t, <3>1, FirstOnes DEF Truncate
  <2> HIDE DEF kept
  <2>1. log' \in Seq(Message)
    BY <2>k
  <2>2. tail' \in Tails
    BY <1>11, <1>t, <1>w, <1>z, <1>o DEF Truncate, Clean, Obsolete, FileChanges, Then,
        Overtaken, Tails
  <2>3. tail'.state # "clean" \/ tail' = Clean
    BY <1>11, <1>t, <1>w, <1>z, <1>o DEF Truncate, Clean, Obsolete, FileChanges, Then, Overtaken
  <2>4. cache' \in Entries
    BY <1>11, <1>t, <1>w, <1>z, <1>o DEF Truncate, Clean, Obsolete, FileChanges, Then,
        Overtaken, Entries
  <2>5. op' \in Ops
    BY <1>11, <1>t, <1>w, <1>z, <1>o, <1>k DEF Truncate, Clean, Obsolete, FileChanges, Then,
        Overtaken, Ops, NoOp
  <2>6. op'.kind = "none" => op' = NoOp
    BY <1>11, <1>t, <1>w, <1>z, <1>o, <1>k DEF Truncate, Clean, Obsolete, FileChanges, Then,
        Overtaken, NoOp, Ops
  <2>7. reader' \in Readers
    BY <1>11, <1>t, <1>z, <1>o, <1>c DEF Truncate, Clean, Obsolete, FileChanges, Then,
        Overtaken, Readers
  <2>8. acked' \subseteq Ids
    BY <1>t, <2>k
  <2>9. flaws' \subseteq Flaws
    BY <1>11, <1>t DEF Truncate, Clean, Obsolete, FileChanges, Then, Overtaken, Flaws
  <2>s. cache'.current => cache'.on /\ cache'.size = Size'
    BY <1>11, <1>t, SizeKept DEF TypeOK, Truncate, Clean, Obsolete, FileChanges, Then, Overtaken
  <2> QED
    BY <2>u, <2>1, <2>2, <2>3, <2>4, <2>5, <2>6, <2>7, <2>8, <2>9, <2>s DEF TypeOK
<1>12. CASE TruncateDrop
  <2>u. UNCHANGED <<log, tail, meta, chain, edit, reader, acked, flaws, counts>>
    BY <1>12 DEF TruncateDrop, files
  <2>1. cache' \in Entries
    BY <1>12, <1>t, <1>w, <1>z, <1>o DEF TruncateDrop, NoCache, Then, files, Entries
  <2>2. op' \in Ops
    BY <1>12, <1>t, <1>w, <1>z, <1>o, <1>k DEF TruncateDrop, NoCache, Then, files, Ops, NoOp
  <2>3. op'.kind = "none" => op' = NoOp
    BY <1>12, <1>t, <1>w, <1>z, <1>o, <1>k DEF TruncateDrop, NoCache, Then, files, NoOp, Ops
  <2>s. cache'.current => cache'.on /\ cache'.size = Size'
    BY <1>12, <1>t, SizeKept DEF TypeOK, TruncateDrop, NoCache, Then, files
  <2> QED
    BY <2>u, <2>1, <2>2, <2>3, <2>s DEF TypeOK
<1>13. CASE TruncateMeta
  <2>u. UNCHANGED <<log, tail, meta, cache, chain, edit, reader, acked, counts>>
    BY <1>13 DEF TruncateMeta, files
  <2>1. op' \in Ops
    BY <1>13, <1>t, <1>w, <1>z, <1>o, <1>k DEF TruncateMeta, files, Ops, NoOp
  <2>2. op'.kind = "none" => op' = NoOp
    BY <1>13, <1>t, <1>w, <1>z, <1>o, <1>k DEF TruncateMeta, files, NoOp, Ops
  <2>3. flaws' \subseteq Flaws
    BY <1>13, <1>t DEF TruncateMeta, files, Flaws
  <2>s. cache'.current => cache'.on /\ cache'.size = Size'
    BY <1>13, <1>t, SizeKept DEF TypeOK, TruncateMeta, files
  <2> QED
    BY <2>u, <2>1, <2>2, <2>3, <2>s DEF TypeOK
<1>14. CASE SaveTruncate
  <2>u. UNCHANGED <<log, tail, cache, chain, edit, reader, acked, flaws, counts>>
    BY <1>14 DEF SaveTruncate, files
  <2>1. meta' \in Meta
    <3>1. [op.meta EXCEPT !.leaf = NewLeaf] \in Meta
      <4>1. op.meta \in Meta /\ NewLeaf \in {0} \cup Ids
        <5>1. log # <<>> => log[Len(log)] \in Message
          BY <1>t, EmptySeq, LenProperties
        <5> QED
          BY <1>t, <1>z, <5>1 DEF Ops, NewLeaf, Message
      <4> QED
        BY <4>1 DEF Meta
    <3> QED
      BY <1>14, <3>1 DEF SaveTruncate
  <2>2. op' \in Ops
    BY <1>14, <1>t, <1>w, <1>z, <1>o, <1>k DEF SaveTruncate, NewLeaf, Done, NoOp, Ops
  <2>3. op'.kind = "none" => op' = NoOp
    BY <1>14, <1>t, <1>w, <1>z, <1>o, <1>k DEF SaveTruncate, NewLeaf, Done, NoOp, Ops
  <2>s. cache'.current => cache'.on /\ cache'.size = Size'
    BY <1>14, <1>t, SizeKept DEF TypeOK, SaveTruncate, NewLeaf, Done, NoOp
  <2> QED
    BY <2>u, <2>1, <2>2, <2>3, <2>s DEF TypeOK
<1>15. CASE EditReads
  <2>u. UNCHANGED <<log, tail, meta, cache, chain, op, reader, acked>>
    BY <1>15 DEF EditReads, files
  <2>1. edit' \in [on : BOOLEAN, meta : Meta]
    BY <1>15, <1>t, <1>z, <1>o, <1>c DEF EditReads, Counts, files, Meta
  <2>2. flaws' \subseteq Flaws
    BY <1>15, <1>t DEF EditReads, Counts, files, Flaws
  <2>3. counts' \in Limits
    BY <1>15, Counted DEF EditReads
  <2>s. cache'.current => cache'.on /\ cache'.size = Size'
    BY <1>15, <1>t, SizeKept DEF TypeOK, EditReads, Counts, files
  <2> QED
    BY <2>u, <2>1, <2>2, <2>3, <2>s DEF TypeOK
<1>16. CASE EditWrites
  <2>u. UNCHANGED <<log, tail, cache, chain, op, reader, acked, flaws, counts>>
    BY <1>16 DEF EditWrites, files
  <2>1. meta' \in Meta
    BY <1>16, <1>t, <1>z, <1>o, <1>c DEF EditWrites, NoEdit, Meta
  <2>2. edit' \in [on : BOOLEAN, meta : Meta]
    BY <1>16, <1>t, <1>z, <1>o, <1>c DEF EditWrites, NoEdit, Meta
  <2>s. cache'.current => cache'.on /\ cache'.size = Size'
    BY <1>16, <1>t, SizeKept DEF TypeOK, EditWrites, NoEdit
  <2> QED
    BY <2>u, <2>1, <2>2, <2>s DEF TypeOK
<1>17. CASE ReadStat
  <2>u. UNCHANGED <<log, tail, meta, cache, chain, op, edit, acked, flaws, counts>>
    BY <1>17 DEF ReadStat, files
  <2>1. reader' \in Readers
    BY <1>17, <1>t, <1>z, <1>o, <1>c DEF ReadStat, NoReader, files, Readers
  <2>s. cache'.current => cache'.on /\ cache'.size = Size'
    BY <1>17, <1>t, SizeKept DEF TypeOK, ReadStat, NoReader, files
  <2> QED
    BY <2>u, <2>1, <2>s DEF TypeOK
<1>18. CASE ReadFile
  <2>u. UNCHANGED <<log, tail, meta, cache, chain, op, edit, acked, flaws, counts>>
    BY <1>18 DEF ReadFile, files
  <2>1. reader' \in Readers
    BY <1>18, <1>t, <1>z, <1>o, <1>c DEF ReadFile, files, Readers
  <2>s. cache'.current => cache'.on /\ cache'.size = Size'
    BY <1>18, <1>t, SizeKept DEF TypeOK, ReadFile, files
  <2> QED
    BY <2>u, <2>1, <2>s DEF TypeOK
<1>19. CASE ReadTouch
  <2>u. UNCHANGED <<log, tail, meta, chain, op, edit, acked, flaws, counts>>
    BY <1>19 DEF ReadTouch, files
  <2>1. cache' \in Entries
    <3>1. reader.size \in Nat /\ reader.current \in BOOLEAN /\ reader.recovered \in BOOLEAN
      BY <1>t DEF Readers
    <3> QED
      BY <1>19, <1>t, <3>1 DEF ReadTouch, Entry, Entries
  <2>2. reader' \in Readers
    BY <1>19, <1>t, <1>z, <1>o, <1>c DEF ReadTouch, Entry, NoReader, files, Readers
  <2>s. cache'.current => cache'.on /\ cache'.size = Size'
    BY <1>19, SizeKept DEF ReadTouch, Entry, files, Sizes
  <2> QED
    BY <2>u, <2>1, <2>2, <2>s DEF TypeOK
<1>20. CASE Evict
  <2>u. UNCHANGED <<log, tail, meta, chain, op, edit, reader, acked, flaws, counts>>
    BY <1>20 DEF Evict, files
  <2>1. cache' \in Entries
    BY <1>20, <1>t, <1>w, <1>z, <1>o DEF Evict, NoCache, files, Entries
  <2>s. cache'.current => cache'.on /\ cache'.size = Size'
    BY <1>20, <1>t, SizeKept DEF TypeOK, Evict, NoCache, files
  <2> QED
    BY <2>u, <2>1, <2>s DEF TypeOK
<1>21. CASE Crash
  <2>u. UNCHANGED <<log, tail, meta, acked>>
    BY <1>21 DEF Crash, files
  <2>1. cache' \in Entries
    BY <1>21, <1>t, <1>w, <1>z, <1>o DEF Crash, Counts, NoCache, NoOp, NoEdit, NoReader, files,
        Entries
  <2>2. chain' \in Seq(Calls)
    BY <1>21, <1>t DEF Crash, Counts, NoCache, NoOp, NoEdit, NoReader, files, Calls
  <2>3. op' \in Ops
    BY <1>21, <1>t, <1>w, <1>z, <1>o, <1>k DEF Crash, Counts, NoCache, NoOp, NoEdit, NoReader,
        files, Ops
  <2>4. op'.kind = "none" => op' = NoOp
    BY <1>21, <1>t, <1>w, <1>z, <1>o, <1>k DEF Crash, Counts, NoCache, NoOp, NoEdit, NoReader,
        files, Ops
  <2>5. edit' \in [on : BOOLEAN, meta : Meta]
    BY <1>21, <1>t, <1>z, <1>o, <1>c DEF Crash, Counts, NoCache, NoOp, NoEdit, NoReader, files,
        Meta
  <2>6. reader' \in Readers
    BY <1>21, <1>t, <1>z, <1>o, <1>c DEF Crash, Counts, NoCache, NoOp, NoEdit, NoReader, files,
        Readers
  <2>7. flaws' \subseteq Flaws
    BY <1>21, <1>t DEF Crash, Counts, NoCache, NoOp, NoEdit, NoReader, files, Flaws
  <2>8. counts' \in Limits
    BY <1>21, Counted DEF Crash
  <2>s. cache'.current => cache'.on /\ cache'.size = Size'
    BY <1>21, <1>t, SizeKept DEF TypeOK, Crash, Counts, NoCache, NoOp, NoEdit, NoReader, files
  <2> QED
    BY <2>u, <2>1, <2>2, <2>3, <2>4, <2>5, <2>6, <2>7, <2>8, <2>s DEF TypeOK
<1> QED
  BY <1>1, <1>2, <1>3, <1>4, <1>5, <1>6, <1>7, <1>8, <1>9, <1>10, <1>11, <1>12, <1>13, <1>14,
      <1>15, <1>16, <1>17, <1>18, <1>19, <1>20, <1>21 DEF Next

\* Calls keep to their steps.
LEMMA StageStep == TypeOK /\ Stages /\ Next => Stages'
<1> SUFFICES ASSUME TypeOK, Stages, Next PROVE Stages'
  OBVIOUS
<1>t. /\ op \in Ops /\ (op.kind = "none" => op = NoOp)
      /\ op.pc # "" => op.kind # "none"
      /\ op.pc \in {"repair", "write", "writing", "note", "stat"} => op.kind = "append"
      /\ op.pc \in {"cut", "drop", "leaf"} => op.kind = "truncate"
  BY KindIs DEF TypeOK
<1>1. CASE CallAppend
  BY <1>1, <1>t DEF CallAppend, Counts, files, Ops, NoOp, Stages
<1>2. CASE CallTruncate
  BY <1>2, <1>t DEF CallTruncate, Counts, files, Ops, NoOp, Stages
<1>3. CASE Begin
  <2>1. Head(chain) \in Calls
    BY <1>3, HeadTailProperties DEF TypeOK, Begin
  <2> QED
    BY <1>3, <2>1 DEF Begin, NoOp, Calls, Stages
<1>4. CASE Repair
  BY <1>4, <1>t DEF Repair, Then, Clean, NoCache, Obsolete, FileChanges, Overtaken, Ops, NoOp,
      Stages
<1>5. CASE StartWriting
  BY <1>5, <1>t DEF StartWriting, Then, Written, Obsolete, FileChanges, Ops, NoOp, Stages
<1>6. CASE Write
  BY <1>6, <1>t DEF Write, Then, Clean, Obsolete, FileChanges, Ops, NoOp, Stages
<1>7. CASE WriteFails
  BY <1>7, <1>t DEF WriteFails, Counts, Done, files, NoOp, Ops, Stages
<1>8. CASE Note
  BY <1>8, <1>t DEF Note, NoCache, Then, files, Ops, NoOp, Stages
<1>9. CASE NoteStat
  BY <1>9, <1>t DEF NoteStat, Grown, Entry, Written, NoCache, files, Ops, NoOp, Stages
<1>10. CASE SaveAppend
  BY <1>10, <1>t DEF SaveAppend, Done, NoOp, Ops, Stages
<1>11. CASE Truncate
  BY <1>11, <1>t DEF Truncate, Clean, Obsolete, FileChanges, Then, Overtaken, Ops, NoOp, Stages
<1>12. CASE TruncateDrop
  BY <1>12, <1>t DEF TruncateDrop, NoCache, Then, files, Ops, NoOp, Stages
<1>13. CASE TruncateMeta
  BY <1>13, <1>t DEF TruncateMeta, files, Ops, NoOp, Stages
<1>14. CASE SaveTruncate
  BY <1>14, <1>t DEF SaveTruncate, NewLeaf, Done, NoOp, Ops, Stages
<1>15. CASE EditReads
  BY <1>15, <1>t DEF EditReads, Counts, files, Ops, NoOp, Stages
<1>16. CASE EditWrites
  BY <1>16, <1>t DEF EditWrites, NoEdit, Ops, NoOp, Stages
<1>17. CASE ReadStat
  BY <1>17, <1>t DEF ReadStat, NoReader, files, Ops, NoOp, Stages
<1>18. CASE ReadFile
  BY <1>18, <1>t DEF ReadFile, files, Ops, NoOp, Stages
<1>19. CASE ReadTouch
  BY <1>19, <1>t DEF ReadTouch, Entry, NoReader, files, Ops, NoOp, Stages
<1>20. CASE Evict
  BY <1>20, <1>t DEF Evict, NoCache, files, Ops, NoOp, Stages
<1>21. CASE Crash
  BY <1>21, <1>t DEF Crash, Counts, NoCache, NoOp, NoEdit, NoReader, files, Ops, Stages
<1> QED
  BY <1>1, <1>2, <1>3, <1>4, <1>5, <1>6, <1>7, <1>8, <1>9, <1>10, <1>11, <1>12, <1>13, <1>14,
      <1>15, <1>16, <1>17, <1>18, <1>19, <1>20, <1>21 DEF Next

\* A bound of the numbers is also a bound if it is higher.
LEMMA PastMore ==
    ASSUME NEW m \in Nat, NEW n \in Nat, m <= n, Past(m)
    PROVE  Past(n)
<1>1. \A id \in 1..m : id \in 1..n
  OBVIOUS
<1> QED
  BY <1>1 DEF Past, Within

\* A bound of the numbers stays one unless a message above it is written.
LEMMA PastKept ==
    ASSUME TypeOK, Stages, Numbered, Lines, Next, NEW n \in Nat, Past(n),
           StartWriting \/ NoteStat => op.id <= n
    PROVE  Past(n)'
<1>t. /\ log \in Seq(Message) /\ cache.msgs \in Seq(Message) /\ op.held \in Seq(Message)
      /\ reader.msgs \in Seq(Message) /\ tail.line \in Message
      /\ DOMAIN log = 1..Len(log) /\ DOMAIN op.held = 1..Len(op.held)
      /\ op \in Ops /\ cache \in Entries /\ reader \in Readers /\ tail \in Tails
  BY TypesAre DEF TypeOK
<1>k. /\ op.pc \in {"repair", "write", "writing", "note", "stat"} => op.kind = "append"
      /\ StartWriting \/ NoteStat => op.id \in 1..n /\ Written.id \in 1..n
  <2>1. op.pc \in {"repair", "write", "writing", "note", "stat"} => op.kind = "append"
    BY KindIs
  <2>2. StartWriting \/ NoteStat => op.id \in 1..counts.calls /\ counts.calls \in Nat
    BY <2>1, TypesAre DEF StartWriting, NoteStat, Numbered
  <2> QED
    BY <2>1, <2>2 DEF Written
<1>p. /\ Within(log, n) /\ Within(cache.msgs, n) /\ Within(op.held, n) /\ Within(reader.msgs, n)
      /\ tail.state # "clean" => tail.line.id \in 1..n
  BY DEF Past
<1>e. Within(<<>>, n) /\ Within(NoCache.msgs, n) /\ Within(NoReader.msgs, n) /\ Within(NoOp.held, n)
  BY DEF Within, NoCache, NoReader, NoOp
<1>r. Within(Records, n)
  <2>1. /\ DOMAIN Records = 1..Len(Records)
        /\ Len(Records) = IF tail.state = "open" THEN Len(log) + 1 ELSE Len(log)
        /\ \A i \in 1..Len(log) : Records[i] = log[i]
        /\ tail.state = "open" => Records[Len(log) + 1] = tail.line
        /\ Len(log) \in Nat
    BY RecordsAre, TypesAre
  <2>2. \A i \in 1..Len(Records) : i \in 1..Len(log) \/ (tail.state = "open" /\ i = Len(log) + 1)
    BY <2>1
  <2> QED
    BY <1>t, <1>p, <2>1, <2>2 DEF Within
<1>l. Within(Loaded, n) /\ Within(CacheOfLoad.msgs, n)
  BY <1>p, <1>r DEF Loaded, CacheOfLoad, Entry
<1>a. ASSUME NEW msgs \in Seq(Message), Within(msgs, n), NEW m \in Message, m.id \in 1..n
      PROVE  Within(Append(msgs, m), n)
  <2>1. /\ Len(Append(msgs, m)) = Len(msgs) + 1 /\ Append(msgs, m) \in Seq(Message)
        /\ \A i \in 1..Len(msgs) : Append(msgs, m)[i] = msgs[i]
        /\ Append(msgs, m)[Len(msgs) + 1] = m
        /\ Len(msgs) \in Nat /\ DOMAIN msgs = 1..Len(msgs)
        /\ DOMAIN Append(msgs, m) = 1..Len(Append(msgs, m))
    BY AppendProperties, LenProperties
  <2>2. \A i \in 1..(Len(msgs) + 1) : i \in 1..Len(msgs) \/ i = Len(msgs) + 1
    BY <2>1
  <2> QED
    BY <1>a, <2>1, <2>2 DEF Within
<1>1. CASE CallAppend
  BY <1>1, <1>t, <1>p, <1>e, <1>r, <1>l DEF CallAppend, Counts, files, Past, Ops, Entries,
      Readers, Tails
<1>2. CASE CallTruncate
  BY <1>2, <1>t, <1>p, <1>e, <1>r, <1>l DEF CallTruncate, Counts, files, Past, Ops, Entries,
      Readers, Tails
<1>3. CASE Begin
  <2>1. op'.held \in {Loaded, <<>>} /\ cache' \in {CacheOfLoad, cache}
    BY <1>3 DEF Begin, NoOp
  <2>2. UNCHANGED <<log, tail, reader>>
    BY <1>3 DEF Begin, files
  <2> QED
    BY <1>p, <1>e, <1>l, <2>1, <2>2 DEF Past
<1>4. CASE Repair
  <2>0. op'.held = op.held
    BY <1>4, <1>t DEF Repair, Then, Ops
  <2>1. CASE ~NeedsRepair
    BY <1>4, <1>p, <2>0, <2>1 DEF Repair, Past
  <2>2. CASE NeedsRepair
    <3>1. /\ log' = Records /\ cache'.msgs \in {cache.msgs, NoCache.msgs}
          /\ reader'.msgs = reader.msgs /\ tail'.state = "clean"
      BY <1>4, <1>t, <2>2 DEF Repair, Obsolete, FileChanges, Clean, Entries, Readers
    <3> QED
      BY <1>p, <1>e, <1>r, <2>0, <3>1 DEF Past
  <2> QED
    BY <2>1, <2>2
<1>5. CASE StartWriting
  <2>1. log' = log /\ cache'.msgs = cache.msgs /\ op'.held = op.held
        /\ reader'.msgs = reader.msgs
    BY <1>5, <1>t DEF StartWriting, Then, Obsolete, FileChanges, Ops, Entries, Readers
  <2>2. tail'.line = Written
    BY <1>5 DEF StartWriting, Lines
  <2> QED
    BY <1>5, <1>k, <1>p, <2>1, <2>2 DEF Past
<1>6. CASE Write
  <2>1. log' = Append(log, tail.line) /\ cache'.msgs = cache.msgs /\ op'.held = op.held
        /\ reader'.msgs = reader.msgs /\ tail'.state = "clean"
    BY <1>6, <1>t DEF Write, Then, Obsolete, FileChanges, Clean, Ops, Entries, Readers
  <2>2. tail.line.id \in 1..n
    BY <1>6, <1>p DEF Write, Lines
  <2>3. Within(log', n)
    BY <1>t, <1>p, <1>a, <2>1, <2>2
  <2> QED
    BY <1>p, <2>1, <2>3 DEF Past
<1>7. CASE WriteFails
  BY <1>7, <1>t, <1>p, <1>e, <1>r, <1>l DEF WriteFails, Counts, Done, files, Past, Ops, Entries,
      Readers, Tails
<1>8. CASE Note
  BY <1>8, <1>t, <1>p, <1>e, <1>r, <1>l DEF Note, Then, files, Past, Ops, Entries, Readers,
      Tails
<1>9. CASE NoteStat
  <2>1. log' = log /\ tail' = tail /\ op'.held = <<>> /\ reader' = reader
        /\ cache'.msgs \in {Append(op.held, Written), NoCache.msgs}
    BY <1>9, <1>t DEF NoteStat, Entry, files, Ops
  <2>2. Written \in Message
    <3>1. op.pc = "stat"
      BY <1>9 DEF NoteStat
    <3>2. op.kind = "append"
      BY <1>k, <3>1
    <3> QED
      BY <3>2, WrittenIs
  <2>3. Within(Append(op.held, Written), n)
    BY <1>9, <1>t, <1>k, <1>p, <1>a, <2>2
  <2> QED
    BY <1>p, <1>e, <2>1, <2>3 DEF Past
<1>10. CASE SaveAppend
  BY <1>10, <1>t, <1>p, <1>e, <1>r, <1>l DEF SaveAppend, Done, Past, Ops, Entries, Readers,
      Tails
<1>11. CASE Truncate
  <2> DEFINE kept == SubSeq(op.held, 1, IF op.id < Len(op.held) THEN op.id ELSE Len(op.held))
  <2>1. log' = kept /\ cache'.msgs = cache.msgs /\ op'.held = op.held
        /\ reader'.msgs = reader.msgs /\ tail'.state = "clean"
    BY <1>11, <1>t DEF Truncate, Then, Obsolete, FileChanges, Clean, Ops, Entries, Readers
  <2>2. DOMAIN kept = 1..Len(kept) /\ \A i \in DOMAIN kept : i \in DOMAIN op.held /\ kept[i] = op.held[i]
    <3>1. op.id \in Nat
      BY <1>t DEF Ops
    <3> QED
      BY <1>t, <3>1, FirstOnes
  <2>3. Within(log', n)
    BY <1>p, <2>1, <2>2 DEF Within
  <2> QED
    BY <1>p, <2>1, <2>3 DEF Past
<1>12. CASE TruncateDrop
  BY <1>12, <1>t, <1>p, <1>e, <1>r, <1>l DEF TruncateDrop, Then, files, Past, Ops, Entries,
      Readers, Tails
<1>13. CASE TruncateMeta
  BY <1>13, <1>t, <1>p, <1>e, <1>r, <1>l DEF TruncateMeta, files, Past, Ops, Entries, Readers,
      Tails
<1>14. CASE SaveTruncate
  BY <1>14, <1>t, <1>p, <1>e, <1>r, <1>l DEF SaveTruncate, Done, Past, Ops, Entries, Readers,
      Tails
<1>15. CASE EditReads
  BY <1>15, <1>t, <1>p, <1>e, <1>r, <1>l DEF EditReads, Counts, files, Past, Ops, Entries,
      Readers, Tails
<1>16. CASE EditWrites
  BY <1>16, <1>t, <1>p, <1>e, <1>r, <1>l DEF EditWrites, Past, Ops, Entries, Readers, Tails
<1>17. CASE ReadStat
  <2>1. reader'.msgs = <<>> /\ UNCHANGED <<log, tail, cache, op>>
    BY <1>17 DEF ReadStat, NoReader, files
  <2> QED
    BY <1>p, <1>e, <2>1 DEF Past
<1>18. CASE ReadFile
  BY <1>18, <1>t, <1>p, <1>e, <1>r, <1>l DEF ReadFile, files, Past, Ops, Entries, Readers, Tails
<1>19. CASE ReadTouch
  BY <1>19, <1>t, <1>p, <1>e, <1>r, <1>l DEF ReadTouch, Entry, files, Past, Ops, Entries,
      Readers, Tails
<1>20. CASE Evict
  BY <1>20, <1>t, <1>p, <1>e, <1>r, <1>l DEF Evict, files, Past, Ops, Entries, Readers, Tails
<1>21. CASE Crash
  BY <1>21, <1>t, <1>p, <1>e, <1>r, <1>l DEF Crash, Counts, files, Past, Ops, Entries, Readers,
      Tails
<1> QED
  BY <1>1, <1>2, <1>3, <1>4, <1>5, <1>6, <1>7, <1>8, <1>9, <1>10, <1>11, <1>12, <1>13, <1>14,
      <1>15, <1>16, <1>17, <1>18, <1>19, <1>20, <1>21 DEF Next

\* Messages are numbered in order.
LEMMA NumberedStep == TypeOK /\ Stages /\ Numbered /\ Lines /\ Next => Numbered'
<1> SUFFICES ASSUME TypeOK, Stages, Numbered, Lines, Next PROVE Numbered'
  OBVIOUS
<1>t. /\ op \in Ops /\ counts \in Limits /\ chain \in Seq(Calls)
      /\ op.kind = "none" => op = NoOp
  BY DEF TypeOK
<1>m. op.id \in Nat /\ counts.calls \in Nat
  BY TypesAre
<1>k. /\ op.pc # "" => op.kind # "none"
      /\ op.pc \in {"repair", "write", "writing", "note", "stat"} => op.kind = "append"
      /\ op.pc \in {"cut", "drop", "leaf"} => op.kind = "truncate"
  BY KindIs
<1>l. /\ Len(chain) \in Nat /\ DOMAIN chain = 1..Len(chain)
      /\ \A i \in DOMAIN chain : chain[i] \in Calls
  BY <1>t, LenProperties
<1>d. \A i \in DOMAIN chain : chain[i].id \in Nat
  BY <1>l DEF Calls
<1>n. /\ Past(counts.calls)
      /\ \A i \in DOMAIN chain : chain[i].kind = "append" =>
            chain[i].id \in 1..counts.calls /\ Past(chain[i].id - 1)
      /\ \A i, k \in DOMAIN chain :
            i < k /\ chain[i].kind = "append" /\ chain[k].kind = "append" => chain[i].id < chain[k].id
      /\ op.kind = "append" =>
            /\ op.id \in 1..counts.calls
            /\ \A i \in DOMAIN chain : chain[i].kind = "append" => op.id < chain[i].id
            /\ op.pc \in {"repair", "write"} => Past(op.id - 1)
  BY DEF Numbered
<1>w. StartWriting \/ NoteStat => op.kind = "append"
  BY <1>k DEF StartWriting, NoteStat
<1>u. StartWriting \/ NoteStat => chain' = chain /\ op'.pc # op.pc
  <2>1. StartWriting => chain' = chain /\ op'.pc # op.pc
    BY <1>t DEF StartWriting, Then, Ops
  <2>2. NoteStat => chain' = chain /\ op'.pc # op.pc
    BY <1>t DEF NoteStat, Ops
  <2> QED
    BY <2>1, <2>2
<1>p. \A n \in Nat : Past(n) /\ (StartWriting \/ NoteStat => op.id <= n) => Past(n)'
  BY PastKept
<1>c. \A n \in Nat : n = counts.calls => Past(n)'
  <2> SUFFICES ASSUME NEW n \in Nat, n = counts.calls PROVE Past(n)'
    OBVIOUS
  <2>1. Past(n)
    BY <1>n
  <2>2. StartWriting \/ NoteStat => op.id <= n
    BY <1>m, <1>n, <1>w
  <2> QED
    BY <1>p, <2>1, <2>2
<1>i. \A i \in DOMAIN chain : chain[i].kind = "append" =>
         \A n \in Nat : n = chain[i].id - 1 => Past(n)'
  <2> SUFFICES ASSUME NEW i \in DOMAIN chain, chain[i].kind = "append", NEW n \in Nat,
                      n = chain[i].id - 1
               PROVE  Past(n)'
    OBVIOUS
  <2>1. Past(n)
    BY <1>n
  <2>2. op.kind = "append" => op.id < chain[i].id
    BY <1>n
  <2>3. op.kind = "append" => op.id <= n
    <3>1. op.id \in Nat /\ chain[i].id \in Nat
      BY <1>d, <1>m
    <3> QED
      BY <2>2, <3>1
  <2> QED
    BY <1>p, <1>w, <2>1, <2>3
<1>g. ASSUME chain' = chain, counts'.calls = counts.calls,
             op'.kind = "append" =>
                /\ op.kind = "append" /\ op'.id = op.id
                /\ op'.pc \in {"repair", "write"} =>
                      op.pc \in {"repair", "write"} /\ ~StartWriting /\ ~NoteStat
      PROVE  Numbered'
  <2>1. Past(counts.calls)'
    BY <1>c, <1>g, <1>m
  <2>2. \A i \in DOMAIN chain' : chain'[i].kind = "append" => Past(chain[i].id - 1)'
    <3> SUFFICES ASSUME NEW i \in DOMAIN chain, chain[i].kind = "append"
                 PROVE  Past(chain[i].id - 1)'
      BY <1>g
    <3>1. chain[i].id - 1 \in Nat
      BY <1>m, <1>n
    <3> QED
      BY <1>g, <1>i, <3>1
  <2>3. op'.kind = "append" /\ op'.pc \in {"repair", "write"} => Past(op.id - 1)'
    <3> SUFFICES ASSUME op'.kind = "append", op'.pc \in {"repair", "write"}
                 PROVE  Past(op.id - 1)'
      OBVIOUS
    <3>1. op.id - 1 \in Nat /\ Past(op.id - 1) /\ op'.id = op.id
      BY <1>g, <1>m, <1>n
    <3> QED
      BY <1>g, <1>p, <3>1
  <2> QED
    BY <1>g, <1>n, <2>1, <2>2, <2>3 DEF Numbered
<1>1. CASE CallAppend
  <2> DEFINE new == [kind |-> "append", id |-> counts.calls + 1]
  <2>1. /\ chain' = Append(chain, new) /\ op' = op /\ counts'.calls = counts.calls + 1
        /\ ~StartWriting /\ ~NoteStat
    <3>1. chain' = Append(chain, new) /\ op' = op
      BY <1>1 DEF CallAppend
    <3>2. counts'.calls = counts.calls + 1
      BY <1>1, <1>t DEF CallAppend, Counts, Limits
    <3>3. Len(chain') = Len(chain) + 1
      BY <1>t, <3>1, AppendProperties DEF Calls
    <3>4. ~StartWriting /\ ~NoteStat
      BY <1>l, <1>u, <3>1, <3>3
    <3> QED
      BY <3>1, <3>2, <3>4
  <2>2. /\ DOMAIN chain' = 1..(Len(chain) + 1)
        /\ \A i \in DOMAIN chain : chain'[i] = chain[i]
        /\ chain'[Len(chain) + 1] = new
    <3>1. new \in Calls
      BY <1>m DEF Calls
    <3>2. Append(chain, new) \in Seq(Calls)
      BY <1>t, <3>1, AppendProperties
    <3> QED
      BY <1>t, <2>1, <3>1, <3>2, AppendProperties, LenProperties
  <2>3. \A i \in DOMAIN chain' : i \in DOMAIN chain \/ i = Len(chain) + 1
    BY <1>l, <2>2
  <2>4. \A n \in Nat : Past(n) => Past(n)'
    BY <1>p, <2>1
  <2>5. Past(counts.calls)'
    <3>1. \A m, n \in Nat : Past(m) /\ m <= n => Past(n)
      BY PastMore
    <3>2. counts.calls + 1 \in Nat /\ counts.calls <= counts.calls + 1
      BY <1>m
    <3>3. Past(counts.calls + 1)
      BY <1>m, <1>n, <3>1, <3>2
    <3>4. \A n \in Nat : n = counts.calls + 1 => Past(n)'
      BY <2>4, <3>3
    <3> QED
      BY <2>1, <3>2, <3>4
  <2>6. \A i \in DOMAIN chain' : chain'[i].kind = "append" =>
           chain'[i].id \in 1..(counts.calls + 1) /\ Past(chain[i].id - 1)'
    <3> SUFFICES ASSUME NEW i \in DOMAIN chain', chain'[i].kind = "append"
                 PROVE  chain'[i].id \in 1..(counts.calls + 1) /\ Past(chain[i].id - 1)'
      OBVIOUS
    <3>1. CASE i \in DOMAIN chain
      <4>1. chain'[i] = chain[i] /\ chain[i].id \in 1..counts.calls
        BY <1>n, <2>2, <3>1
      <4>2. chain[i].id - 1 \in Nat /\ chain[i].id \in 1..(counts.calls + 1)
        BY <1>m, <4>1
      <4> QED
        BY <1>i, <3>1, <4>1, <4>2
    <3>2. CASE i = Len(chain) + 1
      <4>1. chain'[i].id = counts.calls + 1
        BY <2>2, <3>2
      <4>2. \A n \in Nat : n = chain'[i].id - 1 => Past(n)'
        BY <1>c, <1>m, <4>1
      <4>3. chain'[i].id - 1 \in Nat /\ chain'[i].id \in 1..(counts.calls + 1)
        BY <1>m, <4>1
      <4> QED
        BY <4>2, <4>3
    <3> QED
      BY <2>3, <3>1, <3>2
  <2>7. \A i, k \in DOMAIN chain' :
           i < k /\ chain'[i].kind = "append" /\ chain'[k].kind = "append" =>
              chain'[i].id < chain'[k].id
    <3> SUFFICES ASSUME NEW i \in DOMAIN chain', NEW k \in DOMAIN chain', i < k,
                        chain'[i].kind = "append", chain'[k].kind = "append"
                 PROVE  chain'[i].id < chain'[k].id
      OBVIOUS
    <3>1. i \in DOMAIN chain
      BY <1>l, <2>2, <2>3
    <3>2. CASE k \in DOMAIN chain
      BY <1>n, <2>2, <3>1, <3>2
    <3>3. CASE k = Len(chain) + 1
      <4>1. chain'[k].id = counts.calls + 1 /\ chain'[i] = chain[i]
        BY <2>2, <3>1, <3>3
      <4>2. chain[i].id \in 1..counts.calls
        BY <1>n, <3>1, <4>1
      <4> QED
        BY <1>m, <4>1, <4>2
    <3> QED
      BY <2>3, <3>2, <3>3
  <2>8. op.kind = "append" =>
           /\ op.id \in 1..(counts.calls + 1)
           /\ \A i \in DOMAIN chain' : chain'[i].kind = "append" => op.id < chain'[i].id
           /\ op.pc \in {"repair", "write"} => Past(op.id - 1)'
    <3> SUFFICES ASSUME op.kind = "append"
                 PROVE  /\ op.id \in 1..(counts.calls + 1)
                        /\ \A i \in DOMAIN chain' : chain'[i].kind = "append" => op.id < chain'[i].id
                        /\ op.pc \in {"repair", "write"} => Past(op.id - 1)'
      OBVIOUS
    <3>1. op.id \in 1..counts.calls
      BY <1>n
    <3>2. op.id \in 1..(counts.calls + 1) /\ op.id - 1 \in Nat /\ op.id < counts.calls + 1
      BY <1>m, <3>1
    <3>3. ASSUME NEW i \in DOMAIN chain', chain'[i].kind = "append" PROVE op.id < chain'[i].id
      <4>1. CASE i \in DOMAIN chain
        BY <1>n, <2>2, <3>3, <4>1
      <4>2. CASE i = Len(chain) + 1
        BY <2>2, <3>2, <4>2
      <4> QED
        BY <2>3, <4>1, <4>2
    <3>4. op.pc \in {"repair", "write"} => Past(op.id - 1)'
      <4>1. op.pc \in {"repair", "write"} => \A n \in Nat : n = op.id - 1 => Past(n)'
        BY <1>n, <2>4
      <4> QED
        BY <2>1, <3>2, <4>1
    <3> QED
      BY <3>2, <3>3, <3>4
  <2> QED
    BY <2>1, <2>5, <2>6, <2>7, <2>8 DEF Numbered
<1>2. CASE CallTruncate
  <2>1. PICK count \in 0..Len(log) : chain' = Append(chain, [kind |-> "truncate", id |-> count])
    BY <1>2 DEF CallTruncate
  <2> DEFINE new == [kind |-> "truncate", id |-> count]
  <2>2. /\ DOMAIN chain' = 1..(Len(chain) + 1)
        /\ \A i \in DOMAIN chain : chain'[i] = chain[i]
        /\ chain'[Len(chain) + 1].kind = "truncate"
        /\ Len(chain') = Len(chain) + 1
    <3>1. new \in Calls
      BY TypesAre DEF Calls
    <3>2. Append(chain, new) \in Seq(Calls)
      BY <1>t, <3>1, AppendProperties
    <3> QED
      BY <1>t, <2>1, <3>1, <3>2, AppendProperties, LenProperties
  <2>3. \A i \in DOMAIN chain' : chain'[i].kind = "append" => i \in DOMAIN chain /\ chain'[i] = chain[i]
    BY <1>l, <2>2
  <2>4. op' = op /\ counts'.calls = counts.calls
    BY <1>2, <1>t DEF CallTruncate, Counts, Limits
  <2>5. ~StartWriting /\ ~NoteStat
    BY <1>l, <1>u, <2>2
  <2>6. Past(counts.calls)'
    BY <1>c, <1>m, <2>4
  <2>7. \A i \in DOMAIN chain' : chain'[i].kind = "append" => Past(chain[i].id - 1)'
    <3> SUFFICES ASSUME NEW i \in DOMAIN chain', chain'[i].kind = "append"
                 PROVE  Past(chain[i].id - 1)'
      OBVIOUS
    <3>1. chain[i].id - 1 \in Nat /\ i \in DOMAIN chain /\ chain'[i] = chain[i]
      BY <1>m, <1>n, <2>3
    <3> QED
      BY <1>i, <3>1
  <2>8. op.kind = "append" /\ op.pc \in {"repair", "write"} => Past(op.id - 1)'
    <3> SUFFICES ASSUME op.kind = "append", op.pc \in {"repair", "write"}
                 PROVE  Past(op.id - 1)'
      OBVIOUS
    <3>1. op.id - 1 \in Nat /\ Past(op.id - 1)
      BY <1>m, <1>n
    <3> QED
      BY <1>p, <2>4, <2>5, <3>1
  <2>9. \A i \in DOMAIN chain' : chain'[i].kind = "append" => chain'[i].id \in 1..counts.calls
    BY <1>n, <2>3
  <2>10. \A i, k \in DOMAIN chain' :
            i < k /\ chain'[i].kind = "append" /\ chain'[k].kind = "append" =>
               chain'[i].id < chain'[k].id
    BY <1>n, <2>3
  <2>11. op.kind = "append" =>
            \A i \in DOMAIN chain' : chain'[i].kind = "append" => op.id < chain'[i].id
    BY <1>n, <2>3
  <2> QED
    BY <1>n, <2>4, <2>6, <2>7, <2>8, <2>9, <2>10, <2>11 DEF Numbered
<1>3. CASE Begin
  <2>1. chain # <<>> /\ chain' = Tail(chain) /\ counts' = counts
    BY <1>3 DEF Begin
  <2>2. /\ Len(chain) > 0
        /\ DOMAIN chain' = 1..(Len(chain) - 1)
        /\ \A i \in DOMAIN chain' : i + 1 \in DOMAIN chain /\ chain'[i] = chain[i + 1] /\ 1 < i + 1
        /\ Head(chain) = chain[1] /\ 1 \in DOMAIN chain
    <3>1. Len(chain) > 0
      BY <1>t, <2>1, EmptySeq
    <3>2. /\ Tail(chain) \in Seq(Calls) /\ Len(Tail(chain)) = Len(chain) - 1
          /\ \A i \in 1..Len(Tail(chain)) : Tail(chain)[i] = chain[i + 1]
      BY <1>t, <2>1, HeadTailProperties
    <3>3. DOMAIN chain' = 1..(Len(chain) - 1)
      BY <2>1, <3>2, LenProperties
    <3>4. \A i \in 1..(Len(chain) - 1) : i + 1 \in 1..Len(chain) /\ 1 < i + 1
      BY <1>m
    <3>5. Head(chain) = chain[1]
      BY <1>t, <2>1
    <3> QED
      BY <1>t, <2>1, <3>1, <3>2, <3>3, <3>4, <3>5
  <2>3. /\ op'.kind = chain[1].kind /\ op'.id = chain[1].id
        /\ op'.pc = IF chain[1].kind = "append" THEN "repair" ELSE "cut"
    BY <1>3, <2>2 DEF Begin, NoOp
  <2>4. Past(counts.calls)'
    BY <1>c, <1>m, <2>1
  <2>5. ASSUME NEW i \in DOMAIN chain, chain[i].kind = "append", NEW n, n = chain[i].id - 1
        PROVE  Past(n)'
    <3>1. chain[i].id - 1 \in Nat
      BY <1>m, <1>n, <2>5
    <3> QED
      BY <1>i, <2>5, <3>1
  <2>6. ASSUME NEW i \in DOMAIN chain', chain'[i].kind = "append"
        PROVE  chain'[i].id \in 1..counts.calls /\ Past(chain[i].id - 1)'
    <3>1. i + 1 \in DOMAIN chain /\ chain'[i] = chain[i + 1]
      BY <2>2, <2>6
    <3> QED
      BY <1>n, <2>5, <2>6, <3>1
  <2>7. \A i, k \in DOMAIN chain' : i < k => i + 1 < k + 1
    BY <2>2
  <2>8. \A i, k \in DOMAIN chain' :
           i < k /\ chain'[i].kind = "append" /\ chain'[k].kind = "append" =>
              chain'[i].id < chain'[k].id
    BY <1>n, <2>2, <2>7
  <2>9. op'.kind = "append" =>
           /\ op'.id \in 1..counts.calls
           /\ \A i \in DOMAIN chain' : chain'[i].kind = "append" => op'.id < chain'[i].id
           /\ Past(op.id - 1)'
    <3> SUFFICES ASSUME op'.kind = "append"
                 PROVE  /\ op'.id \in 1..counts.calls
                        /\ \A i \in DOMAIN chain' : chain'[i].kind = "append" => op'.id < chain'[i].id
                        /\ Past(op.id - 1)'
      OBVIOUS
    <3>1. chain[1].kind = "append" /\ op'.id = chain[1].id /\ 1 \in DOMAIN chain
      BY <2>2, <2>3
    <3>2. Past(op.id - 1)'
      BY <2>5, <3>1
    <3>3. \A i \in DOMAIN chain' : chain'[i].kind = "append" => chain[1].id < chain'[i].id
      BY <1>n, <2>2, <3>1
    <3> QED
      BY <1>n, <3>1, <3>2, <3>3
  <2> QED
    BY <2>1, <2>2, <2>3, <2>4, <2>6, <2>8, <2>9 DEF Numbered
<1>4. CASE Repair
  <2>1. chain' = chain /\ counts'.calls = counts.calls
    BY <1>4, <1>t DEF Repair, Counts,
      Limits
  <2>2. op'.kind = "append" =>
           /\ op.kind = "append" /\ op'.id = op.id
           /\ op'.pc \in {"repair", "write"} =>
                 op.pc \in {"repair", "write"} /\ ~StartWriting /\ ~NoteStat
    BY <1>4, <1>t DEF Repair, Then, StartWriting, NoteStat, Ops, Limits, NoOp
  <2> QED
    BY <1>g, <2>1, <2>2
<1>5. CASE StartWriting
  <2>1. chain' = chain /\ counts'.calls = counts.calls
    BY <1>5, <1>t DEF StartWriting,
      Counts, Limits
  <2>2. op'.kind = "append" =>
           /\ op.kind = "append" /\ op'.id = op.id
           /\ op'.pc \in {"repair", "write"} =>
                 op.pc \in {"repair", "write"} /\ ~StartWriting /\ ~NoteStat
    BY <1>5, <1>t DEF StartWriting, Then, Written, NoteStat, Ops, Limits, NoOp
  <2> QED
    BY <1>g, <2>1, <2>2
<1>6. CASE Write
  <2>1. chain' = chain /\ counts'.calls = counts.calls
    BY <1>6, <1>t DEF Write, Counts,
      Limits
  <2>2. op'.kind = "append" =>
           /\ op.kind = "append" /\ op'.id = op.id
           /\ op'.pc \in {"repair", "write"} =>
                 op.pc \in {"repair", "write"} /\ ~StartWriting /\ ~NoteStat
    BY <1>6, <1>t DEF Write, Then, StartWriting, NoteStat, Ops, Limits, NoOp
  <2> QED
    BY <1>g, <2>1, <2>2
<1>7. CASE WriteFails
  <2>1. chain' = chain /\ counts'.calls = counts.calls
    BY <1>7, <1>t DEF WriteFails, Counts,
      Limits
  <2>2. op'.kind = "append" =>
           /\ op.kind = "append" /\ op'.id = op.id
           /\ op'.pc \in {"repair", "write"} =>
                 op.pc \in {"repair", "write"} /\ ~StartWriting /\ ~NoteStat
    BY <1>7, <1>t DEF WriteFails, Counts, Done, NoOp, StartWriting, NoteStat, Ops, Limits
  <2> QED
    BY <1>g, <2>1, <2>2
<1>8. CASE Note
  <2>1. chain' = chain /\ counts'.calls = counts.calls
    BY <1>8, <1>t DEF Note, Counts,
      Limits
  <2>2. op'.kind = "append" =>
           /\ op.kind = "append" /\ op'.id = op.id
           /\ op'.pc \in {"repair", "write"} =>
                 op.pc \in {"repair", "write"} /\ ~StartWriting /\ ~NoteStat
    BY <1>8, <1>t DEF Note, Then, StartWriting, NoteStat, Ops, Limits, NoOp
  <2> QED
    BY <1>g, <2>1, <2>2
<1>9. CASE NoteStat
  <2>1. chain' = chain /\ counts'.calls = counts.calls
    BY <1>9, <1>t DEF NoteStat, Counts,
      Limits
  <2>2. op'.kind = "append" =>
           /\ op.kind = "append" /\ op'.id = op.id
           /\ op'.pc \in {"repair", "write"} =>
                 op.pc \in {"repair", "write"} /\ ~StartWriting /\ ~NoteStat
    BY <1>9, <1>t DEF NoteStat, Written, StartWriting, Ops, Limits, NoOp
  <2> QED
    BY <1>g, <2>1, <2>2
<1>10. CASE SaveAppend
  <2>1. chain' = chain /\ counts'.calls = counts.calls
    BY <1>10, <1>t DEF SaveAppend,
      Counts, Limits
  <2>2. op'.kind = "append" =>
           /\ op.kind = "append" /\ op'.id = op.id
           /\ op'.pc \in {"repair", "write"} =>
                 op.pc \in {"repair", "write"} /\ ~StartWriting /\ ~NoteStat
    BY <1>10, <1>t DEF SaveAppend, Done, NoOp, StartWriting, NoteStat, Ops, Limits
  <2> QED
    BY <1>g, <2>1, <2>2
<1>11. CASE Truncate
  <2>1. chain' = chain /\ counts'.calls = counts.calls
    BY <1>11, <1>t DEF Truncate, Counts,
      Limits
  <2>2. op'.kind = "append" =>
           /\ op.kind = "append" /\ op'.id = op.id
           /\ op'.pc \in {"repair", "write"} =>
                 op.pc \in {"repair", "write"} /\ ~StartWriting /\ ~NoteStat
    BY <1>11, <1>t DEF Truncate, Then, StartWriting, NoteStat, Ops, Limits, NoOp
  <2> QED
    BY <1>g, <2>1, <2>2
<1>12. CASE TruncateDrop
  <2>1. chain' = chain /\ counts'.calls = counts.calls
    BY <1>12, <1>t DEF TruncateDrop,
      Counts, Limits
  <2>2. op'.kind = "append" =>
           /\ op.kind = "append" /\ op'.id = op.id
           /\ op'.pc \in {"repair", "write"} =>
                 op.pc \in {"repair", "write"} /\ ~StartWriting /\ ~NoteStat
    BY <1>12, <1>t DEF TruncateDrop, Then, StartWriting, NoteStat, Ops, Limits, NoOp
  <2> QED
    BY <1>g, <2>1, <2>2
<1>13. CASE TruncateMeta
  <2>1. chain' = chain /\ counts'.calls = counts.calls
    BY <1>13, <1>t DEF TruncateMeta,
      Counts, Limits
  <2>2. op'.kind = "append" =>
           /\ op.kind = "append" /\ op'.id = op.id
           /\ op'.pc \in {"repair", "write"} =>
                 op.pc \in {"repair", "write"} /\ ~StartWriting /\ ~NoteStat
    BY <1>13, <1>t DEF TruncateMeta, StartWriting, NoteStat, Ops, Limits, NoOp
  <2> QED
    BY <1>g, <2>1, <2>2
<1>14. CASE SaveTruncate
  <2>1. chain' = chain /\ counts'.calls = counts.calls
    BY <1>14, <1>t DEF SaveTruncate,
      Counts, Limits
  <2>2. op'.kind = "append" =>
           /\ op.kind = "append" /\ op'.id = op.id
           /\ op'.pc \in {"repair", "write"} =>
                 op.pc \in {"repair", "write"} /\ ~StartWriting /\ ~NoteStat
    BY <1>14, <1>t DEF SaveTruncate, Done, NoOp, StartWriting, NoteStat, Ops, Limits
  <2> QED
    BY <1>g, <2>1, <2>2
<1>15. CASE EditReads
  <2>1. chain' = chain /\ counts'.calls = counts.calls
    BY <1>15, <1>t DEF EditReads, Counts,
      Limits
  <2>2. op'.kind = "append" =>
           /\ op.kind = "append" /\ op'.id = op.id
           /\ op'.pc \in {"repair", "write"} =>
                 op.pc \in {"repair", "write"} /\ ~StartWriting /\ ~NoteStat
    <3>1. op' = op
      BY <1>15 DEF EditReads
    <3> QED
      BY <1>u, <3>1
  <2> QED
    BY <1>g, <2>1, <2>2
<1>16. CASE EditWrites
  <2>1. chain' = chain /\ counts'.calls = counts.calls
    BY <1>16, <1>t DEF EditWrites,
      Counts, Limits
  <2>2. op'.kind = "append" =>
           /\ op.kind = "append" /\ op'.id = op.id
           /\ op'.pc \in {"repair", "write"} =>
                 op.pc \in {"repair", "write"} /\ ~StartWriting /\ ~NoteStat
    <3>1. op' = op
      BY <1>16 DEF EditWrites
    <3> QED
      BY <1>u, <3>1
  <2> QED
    BY <1>g, <2>1, <2>2
<1>17. CASE ReadStat
  <2>1. chain' = chain /\ counts'.calls = counts.calls
    BY <1>17, <1>t DEF ReadStat, Counts,
      Limits
  <2>2. op'.kind = "append" =>
           /\ op.kind = "append" /\ op'.id = op.id
           /\ op'.pc \in {"repair", "write"} =>
                 op.pc \in {"repair", "write"} /\ ~StartWriting /\ ~NoteStat
    <3>1. op' = op
      BY <1>17 DEF ReadStat
    <3> QED
      BY <1>u, <3>1
  <2> QED
    BY <1>g, <2>1, <2>2
<1>18. CASE ReadFile
  <2>1. chain' = chain /\ counts'.calls = counts.calls
    BY <1>18, <1>t DEF ReadFile, Counts,
      Limits
  <2>2. op'.kind = "append" =>
           /\ op.kind = "append" /\ op'.id = op.id
           /\ op'.pc \in {"repair", "write"} =>
                 op.pc \in {"repair", "write"} /\ ~StartWriting /\ ~NoteStat
    <3>1. op' = op
      BY <1>18 DEF ReadFile
    <3> QED
      BY <1>u, <3>1
  <2> QED
    BY <1>g, <2>1, <2>2
<1>19. CASE ReadTouch
  <2>1. chain' = chain /\ counts'.calls = counts.calls
    BY <1>19, <1>t DEF ReadTouch, Counts,
      Limits
  <2>2. op'.kind = "append" =>
           /\ op.kind = "append" /\ op'.id = op.id
           /\ op'.pc \in {"repair", "write"} =>
                 op.pc \in {"repair", "write"} /\ ~StartWriting /\ ~NoteStat
    <3>1. op' = op
      BY <1>19 DEF ReadTouch
    <3> QED
      BY <1>u, <3>1
  <2> QED
    BY <1>g, <2>1, <2>2
<1>20. CASE Evict
  <2>1. chain' = chain /\ counts'.calls = counts.calls
    BY <1>20, <1>t DEF Evict, Counts,
      Limits
  <2>2. op'.kind = "append" =>
           /\ op.kind = "append" /\ op'.id = op.id
           /\ op'.pc \in {"repair", "write"} =>
                 op.pc \in {"repair", "write"} /\ ~StartWriting /\ ~NoteStat
    <3>1. op' = op
      BY <1>20 DEF Evict
    <3> QED
      BY <1>u, <3>1
  <2> QED
    BY <1>g, <2>1, <2>2
<1>21. CASE Crash
  <2>1. chain' = <<>> /\ op' = NoOp /\ NoOp.kind = "none"
    BY <1>21 DEF Crash, NoOp
  <2>2. counts'.calls = counts.calls
    BY <1>21, <1>t DEF Crash, Counts, Limits
  <2>3. Past(counts.calls)'
    BY <1>c, <1>m, <2>2
  <2> QED
    BY <2>1, <2>3 DEF Numbered
<1> QED
  BY <1>1, <1>2, <1>3, <1>4, <1>5, <1>6, <1>7, <1>8, <1>9, <1>10, <1>11, <1>12, <1>13, <1>14,
      <1>15, <1>16, <1>17, <1>18, <1>19, <1>20, <1>21 DEF Next

\* The numbers of the messages of the file change with it.
LEMMA IdsKept == log' = log => LogIds' = LogIds
BY DEF LogIds

\* A line is added.
LEMMA IdsMore ==
    ASSUME TypeOK, NEW m \in Message, log' = Append(log, m)
    PROVE  LogIds' = LogIds \cup {m.id}
<1>1. /\ DOMAIN log = 1..Len(log) /\ Len(log) \in Nat /\ log \in Seq(Message)
      /\ DOMAIN log' = 1..(Len(log) + 1)
      /\ \A i \in DOMAIN log : log'[i] = log[i]
      /\ log'[Len(log) + 1] = m
  BY TypesAre, AppendProperties, LenProperties
<1>2. \A i : i \in DOMAIN log' <=> i \in DOMAIN log \/ i = Len(log) + 1
  BY <1>1
<1>3. \A id : id \in LogIds' <=> \E i \in DOMAIN log' : log'[i].id = id
  BY DEF LogIds
<1>4. \A id : id \in LogIds <=> \E i \in DOMAIN log : log[i].id = id
  BY DEF LogIds
<1>5. \A id : id \in LogIds' <=> id \in LogIds \/ id = m.id
  BY <1>1, <1>2, <1>3, <1>4
<1> QED
  BY <1>5

\* The file ends as its writer knows.
LEMMA LinesStep == TypeOK /\ Stages /\ Numbered /\ Lines /\ Next => Lines'
<1> SUFFICES ASSUME TypeOK, Stages, Numbered, Lines, Next PROVE Lines'
  OBVIOUS
<1>t. /\ op \in Ops /\ tail \in Tails /\ (op.kind = "none" => op = NoOp)
      /\ (tail.state # "clean" \/ tail = Clean)
  BY DEF TypeOK
<1>k. /\ op.pc # "" => op.kind # "none"
      /\ op.pc \in {"repair", "write", "writing", "note", "stat"} => op.kind = "append"
      /\ op.pc \in {"cut", "drop", "leaf"} => op.kind = "truncate"
  BY KindIs
<1>l. /\ op.pc = "write" => tail.state = "clean"
      /\ op.pc = "writing" => tail.state \in {"cut", "open"} /\ tail.line = Written
      /\ op.pc \in {"note", "stat"} =>
            tail.state = "clean" /\ Len(log) > 0 /\ log[Len(log)] = Written
      /\ op.kind = "append" /\ op.pc = "save" => op.id \in LogIds
      /\ tail.state # "clean" => tail.line.id \notin LogIds
      /\ acked \subseteq LogIds
  BY DEF Lines
<1>d. /\ log \in Seq(Message) /\ tail.line \in Message /\ Len(log) \in Nat
      /\ DOMAIN log = 1..Len(log)
  BY TypesAre
<1>s. op.pc \in {"note", "stat"} => op.id \in LogIds
  <2> SUFFICES ASSUME op.pc \in {"note", "stat"} PROVE op.id \in LogIds
    OBVIOUS
  <2>1. Len(log) \in DOMAIN log /\ log[Len(log)] = Written
    BY <1>d, <1>l
  <2> QED
    BY <2>1 DEF LogIds, Written
<1>c. Clean.state = "clean"
  BY DEF Clean
<1>g. ASSUME log' = log, tail' = tail, acked' = acked,
             \/ op'.kind = op.kind /\ op'.pc = op.pc
             \/ op'.pc \notin {"write", "writing", "note", "stat", "save"}
             \/ op'.kind = "truncate" /\ op'.pc = "save"
             \/ op.pc \in {"note", "stat"} /\ op'.pc \in {"stat", "save"},
             op'.pc \in {"write", "writing", "note", "stat", "save"} =>
                op'.id = op.id /\ op'.parent = op.parent
      PROVE  Lines'
  <2>1. LogIds' = LogIds
    BY <1>g, IdsKept
  <2>2. op'.pc \in {"write", "writing", "note", "stat", "save"} => Written' = Written
    BY <1>g DEF Written
  <2>3. op'.pc = "write" => tail'.state = "clean"
    BY <1>g, <1>l
  <2>4. op'.pc = "writing" => tail'.state \in {"cut", "open"} /\ tail'.line = Written'
    BY <1>g, <1>l, <2>2
  <2>5. op'.pc \in {"note", "stat"} =>
           tail'.state = "clean" /\ Len(log') > 0 /\ log'[Len(log')] = Written'
    BY <1>g, <1>l, <2>2
  <2>6. op'.kind = "append" /\ op'.pc = "save" => op'.id \in LogIds'
    BY <1>g, <1>l, <1>s, <2>1
  <2> QED
    BY <1>g, <1>l, <2>1, <2>3, <2>4, <2>5, <2>6 DEF Lines
<1>1. CASE CallAppend
  <2>1. log' = log /\ tail' = tail /\ acked' = acked
    BY <1>1 DEF CallAppend, files
  <2>2. op' = op
    BY <1>1 DEF CallAppend
  <2> QED
    BY <1>g, <2>1, <2>2
<1>2. CASE CallTruncate
  <2>1. log' = log /\ tail' = tail /\ acked' = acked
    BY <1>2 DEF CallTruncate, files
  <2>2. op' = op
    BY <1>2 DEF CallTruncate
  <2> QED
    BY <1>g, <2>1, <2>2
<1>3. CASE Begin
  <2>1. log' = log /\ tail' = tail /\ acked' = acked
    BY <1>3 DEF Begin, files
  <2>2. op'.pc \in {"repair", "cut"}
    BY <1>3, <1>t, <1>k DEF Begin, NoOp, Ops, NoOp
  <2> QED
    BY <1>g, <2>1, <2>2
<1>4. CASE Repair
  <2>1. op.pc = "repair" /\ op'.pc = "write" /\ acked' = acked
    BY <1>4, <1>t DEF Repair, Then, Ops
  <2>2. CASE ~NeedsRepair
    <3>1. log' = log /\ tail' = tail /\ tail.state = "clean"
      BY <1>4, <2>2 DEF Repair, NeedsRepair
    <3>2. LogIds' = LogIds
      BY <3>1, IdsKept
    <3> QED
      BY <1>l, <2>1, <3>1, <3>2 DEF Lines
  <2>3. CASE NeedsRepair
    <3>1. log' = Records /\ tail' = Clean
      BY <1>4, <2>3 DEF Repair
    <3>2. LogIds \subseteq LogIds'
      <4>1. CASE tail.state = "open"
        BY <1>d, <3>1, <4>1, IdsMore DEF Records
      <4>2. CASE tail.state # "open"
        BY <3>1, <4>2, IdsKept DEF Records
      <4> QED
        BY <4>1, <4>2
    <3> QED
      BY <1>l, <1>c, <2>1, <3>1, <3>2 DEF Lines
  <2> QED
    BY <2>2, <2>3
<1>5. CASE StartWriting
  <2>1. op.pc = "write" /\ op'.pc = "writing" /\ op'.id = op.id /\ op'.parent = op.parent
    BY <1>5, <1>t DEF StartWriting, Then, Ops
  <2>2. log' = log /\ acked' = acked
    BY <1>5 DEF StartWriting
  <2>3. tail'.state \in {"cut", "open"} /\ tail'.line = Written
    BY <1>5, <1>l DEF StartWriting
  <2>4. LogIds' = LogIds /\ Written' = Written
    BY <2>1, <2>2, IdsKept DEF Written
  <2>5. op.id \notin LogIds
    <3>1. op.kind = "append"
      BY <1>k, <2>1
    <3>2. Past(op.id - 1) /\ op.id \in Nat
      BY <2>1, <3>1, TypesAre DEF Numbered
    <3>3. \A i \in DOMAIN log : log[i].id \in 1..(op.id - 1)
      BY <3>2 DEF Past, Within
    <3>4. \A id \in 1..(op.id - 1) : id # op.id
      BY <3>2
    <3> QED
      BY <3>3, <3>4 DEF LogIds
  <2>6. Written.id = op.id
    BY DEF Written
  <2> QED
    BY <1>l, <2>1, <2>2, <2>3, <2>4, <2>5, <2>6 DEF Lines
<1>6. CASE Write
  <2>1. op.pc = "writing" /\ op'.pc = "note" /\ op'.id = op.id /\ op'.parent = op.parent
    BY <1>6, <1>t DEF Write, Then, Ops
  <2>2. log' = Append(log, Written) /\ tail' = Clean /\ acked' = acked /\ Written \in Message
    BY <1>6, <1>d, <1>l, <2>1 DEF Write
  <2>3. LogIds \subseteq LogIds' /\ Written' = Written
    BY <2>1, <2>2, IdsMore DEF Written
  <2>4. Len(log') > 0 /\ log'[Len(log')] = Written
    BY <1>d, <2>2, AppendProperties
  <2> QED
    BY <1>c, <1>l, <2>1, <2>2, <2>3, <2>4 DEF Lines
<1>7. CASE WriteFails
  <2>1. log' = log /\ tail' = tail /\ acked' = acked
    BY <1>7 DEF WriteFails, files
  <2>2. op'.pc = ""
    BY <1>7, <1>t, <1>k DEF WriteFails, Done, NoOp, Ops
  <2> QED
    BY <1>g, <2>1, <2>2
<1>8. CASE Note
  <2>1. log' = log /\ tail' = tail /\ acked' = acked
    BY <1>8 DEF Note, files
  <2>2. op.pc = "note" /\ op'.pc \in {"stat", "save"} /\ op'.id = op.id /\ op'.parent = op.parent
    BY <1>8, <1>t, <1>k DEF Note, Then, Ops
  <2> QED
    BY <1>g, <2>1, <2>2
<1>9. CASE NoteStat
  <2>1. log' = log /\ tail' = tail /\ acked' = acked
    BY <1>9 DEF NoteStat, files
  <2>2. op.pc = "stat" /\ op'.pc = "save" /\ op'.id = op.id /\ op'.parent = op.parent
    BY <1>9, <1>t, <1>k DEF NoteStat, Ops
  <2> QED
    BY <1>g, <2>1, <2>2
<1>10. CASE SaveAppend
  <2>1. op'.pc = "" /\ log' = log /\ tail' = tail /\ acked' = acked \cup {op.id}
    BY <1>10 DEF SaveAppend, Done, NoOp
  <2>2. LogIds' = LogIds
    BY <2>1, IdsKept
  <2>3. op.id \in LogIds
    BY <1>10, <1>l DEF SaveAppend
  <2> QED
    BY <1>l, <2>1, <2>2, <2>3 DEF Lines
<1>11. CASE Truncate
  <2>1. op'.pc = "drop" /\ tail' = Clean
    BY <1>11, <1>t DEF Truncate, Then, Ops
  <2>2. acked' = acked \cap {log'[i].id : i \in DOMAIN log'}
    BY <1>11 DEF Truncate
  <2>3. acked' \subseteq LogIds'
    BY <2>2 DEF LogIds
  <2> QED
    BY <1>c, <2>1, <2>3 DEF Lines
<1>12. CASE TruncateDrop
  <2>1. log' = log /\ tail' = tail /\ acked' = acked
    BY <1>12 DEF TruncateDrop, files
  <2>2. op'.pc = "leaf"
    BY <1>12, <1>t, <1>k DEF TruncateDrop, Then, Ops
  <2> QED
    BY <1>g, <2>1, <2>2
<1>13. CASE TruncateMeta
  <2>1. log' = log /\ tail' = tail /\ acked' = acked
    BY <1>13 DEF TruncateMeta, files
  <2>2. op'.kind = "truncate" /\ op'.pc = "save" /\ op'.id = op.id /\ op'.parent = op.parent
    BY <1>13, <1>t, <1>k DEF TruncateMeta, Ops
  <2> QED
    BY <1>g, <2>1, <2>2
<1>14. CASE SaveTruncate
  <2>1. log' = log /\ tail' = tail /\ acked' = acked
    BY <1>14 DEF SaveTruncate, files
  <2>2. op'.pc = ""
    BY <1>14, <1>t, <1>k DEF SaveTruncate, Done, NoOp, Ops
  <2> QED
    BY <1>g, <2>1, <2>2
<1>15. CASE EditReads
  <2>1. log' = log /\ tail' = tail /\ acked' = acked
    BY <1>15 DEF EditReads, files
  <2>2. op' = op
    BY <1>15 DEF EditReads
  <2> QED
    BY <1>g, <2>1, <2>2
<1>16. CASE EditWrites
  <2>1. log' = log /\ tail' = tail /\ acked' = acked
    BY <1>16 DEF EditWrites, files
  <2>2. op' = op
    BY <1>16 DEF EditWrites
  <2> QED
    BY <1>g, <2>1, <2>2
<1>17. CASE ReadStat
  <2>1. log' = log /\ tail' = tail /\ acked' = acked
    BY <1>17 DEF ReadStat, files
  <2>2. op' = op
    BY <1>17 DEF ReadStat
  <2> QED
    BY <1>g, <2>1, <2>2
<1>18. CASE ReadFile
  <2>1. log' = log /\ tail' = tail /\ acked' = acked
    BY <1>18 DEF ReadFile, files
  <2>2. op' = op
    BY <1>18 DEF ReadFile
  <2> QED
    BY <1>g, <2>1, <2>2
<1>19. CASE ReadTouch
  <2>1. log' = log /\ tail' = tail /\ acked' = acked
    BY <1>19 DEF ReadTouch, files
  <2>2. op' = op
    BY <1>19 DEF ReadTouch
  <2> QED
    BY <1>g, <2>1, <2>2
<1>20. CASE Evict
  <2>1. log' = log /\ tail' = tail /\ acked' = acked
    BY <1>20 DEF Evict, files
  <2>2. op' = op
    BY <1>20 DEF Evict
  <2> QED
    BY <1>g, <2>1, <2>2
<1>21. CASE Crash
  <2>1. log' = log /\ tail' = tail /\ acked' = acked
    BY <1>21 DEF Crash, files
  <2>2. op'.pc = ""
    BY <1>21, <1>t, <1>k DEF Crash, NoOp, Ops
  <2> QED
    BY <1>g, <2>1, <2>2
<1> QED
  BY <1>1, <1>2, <1>3, <1>4, <1>5, <1>6, <1>7, <1>8, <1>9, <1>10, <1>11, <1>12, <1>13, <1>14,
      <1>15, <1>16, <1>17, <1>18, <1>19, <1>20, <1>21 DEF Next

\* What went wrong is not forgotten.
LEMMA FlawsStay == Next => flaws \subseteq flaws'
<1> SUFFICES ASSUME Next PROVE flaws \subseteq flaws'
  OBVIOUS
<1>1. CASE CallAppend
  BY <1>1 DEF CallAppend
<1>2. CASE CallTruncate
  BY <1>2 DEF CallTruncate
<1>3. CASE Begin
  BY <1>3 DEF Begin
<1>4. CASE Repair
  BY <1>4 DEF Repair, Overtaken
<1>5. CASE StartWriting
  BY <1>5 DEF StartWriting
<1>6. CASE Write
  BY <1>6 DEF Write
<1>7. CASE WriteFails
  BY <1>7 DEF WriteFails
<1>8. CASE Note
  BY <1>8 DEF Note
<1>9. CASE NoteStat
  BY <1>9 DEF NoteStat
<1>10. CASE SaveAppend
  BY <1>10 DEF SaveAppend
<1>11. CASE Truncate
  BY <1>11 DEF Truncate, Overtaken
<1>12. CASE TruncateDrop
  BY <1>12 DEF TruncateDrop
<1>13. CASE TruncateMeta
  BY <1>13 DEF TruncateMeta
<1>14. CASE SaveTruncate
  BY <1>14 DEF SaveTruncate
<1>15. CASE EditReads
  BY <1>15 DEF EditReads
<1>16. CASE EditWrites
  BY <1>16 DEF EditWrites
<1>17. CASE ReadStat
  BY <1>17 DEF ReadStat
<1>18. CASE ReadFile
  BY <1>18 DEF ReadFile
<1>19. CASE ReadTouch
  BY <1>19 DEF ReadTouch
<1>20. CASE Evict
  BY <1>20 DEF Evict
<1>21. CASE Crash
  BY <1>21 DEF Crash
<1> QED
  BY <1>1, <1>2, <1>3, <1>4, <1>5, <1>6, <1>7, <1>8, <1>9, <1>10, <1>11, <1>12, <1>13, <1>14,
      <1>15, <1>16, <1>17, <1>18, <1>19, <1>20, <1>21 DEF Next

\* A message is added that was not there.
LEMMA DistinctMore ==
    ASSUME NEW msgs \in Seq(Message), Distinct(msgs), NEW m \in Message,
           \A i \in DOMAIN msgs : msgs[i].id # m.id
    PROVE  Distinct(Append(msgs, m))
<1>1. /\ Append(msgs, m) \in Seq(Message)
      /\ \A i \in 1..Len(msgs) : Append(msgs, m)[i] = msgs[i]
      /\ Append(msgs, m)[Len(msgs) + 1] = m
      /\ Len(msgs) \in Nat /\ DOMAIN msgs = 1..Len(msgs)
      /\ DOMAIN Append(msgs, m) = 1..(Len(msgs) + 1)
  BY AppendProperties, LenProperties
<1>2. \A i \in 1..(Len(msgs) + 1) : i \in 1..Len(msgs) \/ i = Len(msgs) + 1
  BY <1>1
<1> QED
  BY <1>1, <1>2 DEF Distinct

\* Messages do not come twice.
LEMMA OnceStep == TypeOK /\ Stages /\ Numbered /\ Lines /\ Once /\ Next => Once'
<1> SUFFICES ASSUME TypeOK, Stages, Numbered, Lines, Once, Next PROVE Once'
  OBVIOUS
<1>f. flaws \subseteq flaws'
  BY FlawsStay
<1> SUFFICES ASSUME "doubled" \notin flaws' PROVE Once'
  BY DEF Once
<1>t. /\ op \in Ops /\ cache \in Entries /\ reader \in Readers /\ tail \in Tails
      /\ log \in Seq(Message) /\ op.held \in Seq(Message) /\ tail.line \in Message
  BY TypesAre DEF TypeOK
<1>p. /\ Distinct(log) /\ Distinct(cache.msgs) /\ Distinct(op.held) /\ Distinct(reader.msgs)
  BY <1>f DEF Once
<1>e. /\ Distinct(<<>>) /\ Distinct(NoCache.msgs) /\ Distinct(NoReader.msgs)
      /\ Distinct(NoOp.held)
  BY DEF Distinct, NoCache, NoReader, NoOp
<1>a. tail.state # "clean" => Distinct(Append(log, tail.line))
  <2> SUFFICES ASSUME tail.state # "clean" PROVE Distinct(Append(log, tail.line))
    OBVIOUS
  <2>1. tail.line.id \notin LogIds
    BY DEF Lines
  <2>2. \A i \in DOMAIN log : log[i].id # tail.line.id
    BY <2>1 DEF LogIds
  <2> QED
    BY <1>t, <1>p, <2>2, DistinctMore
<1>r. Distinct(Records)
  BY <1>p, <1>a DEF Records
<1>l. Distinct(Loaded) /\ Distinct(CacheOfLoad.msgs)
  BY <1>p, <1>r DEF Loaded, CacheOfLoad, Entry
<1>g. ASSUME log' \in {log, Records} \/ Distinct(log'),
             cache'.msgs \in {cache.msgs, NoCache.msgs, reader.msgs, CacheOfLoad.msgs}
                \/ Distinct(cache'.msgs),
             op'.held \in {op.held, cache.msgs, Loaded, <<>>},
             reader'.msgs \in {reader.msgs, Records, <<>>}
      PROVE  Once'
  BY <1>p, <1>e, <1>r, <1>l, <1>g DEF Once
<1>1. CASE CallAppend
  <2>1. log' = log /\ cache'.msgs \in {cache.msgs, NoCache.msgs, reader.msgs}
        /\ op'.held \in {op.held, cache.msgs, <<>>} /\ reader'.msgs \in {reader.msgs, Records, <<>>}
    BY <1>1, <1>t DEF CallAppend, files, Ops, Entries, Readers
  <2> QED
    BY <1>g, <2>1
<1>2. CASE CallTruncate
  <2>1. log' = log /\ cache'.msgs \in {cache.msgs, NoCache.msgs, reader.msgs}
        /\ op'.held \in {op.held, cache.msgs, <<>>} /\ reader'.msgs \in {reader.msgs, Records, <<>>}
    BY <1>2, <1>t DEF CallTruncate, files, Ops, Entries, Readers
  <2> QED
    BY <1>g, <2>1
<1>3. CASE Begin
  <2>1. op'.held \in {Loaded, <<>>} /\ cache' \in {CacheOfLoad, cache}
    BY <1>3 DEF Begin, NoOp
  <2>2. UNCHANGED <<log, tail, reader>>
    BY <1>3 DEF Begin, files
  <2> QED
    BY <1>g, <2>1, <2>2
<1>4. CASE Repair
  <2>1. op'.held = op.held
    BY <1>4, <1>t DEF Repair, Then, Ops
  <2>2. CASE ~NeedsRepair
    BY <1>4, <1>g, <2>1, <2>2 DEF Repair
  <2>3. CASE NeedsRepair
    <3>1. /\ log' = Records /\ cache'.msgs \in {cache.msgs, NoCache.msgs}
          /\ reader'.msgs = reader.msgs
      BY <1>4, <1>t, <2>3 DEF Repair, Obsolete, FileChanges, Entries, Readers
    <3> QED
      BY <1>g, <2>1, <3>1
  <2> QED
    BY <2>2, <2>3
<1>5. CASE StartWriting
  <2>1. log' = log /\ cache'.msgs \in {cache.msgs, NoCache.msgs, reader.msgs}
        /\ op'.held \in {op.held, cache.msgs, <<>>} /\ reader'.msgs \in {reader.msgs, Records, <<>>}
    BY <1>5, <1>t DEF StartWriting, Then, Obsolete, FileChanges, Ops, Entries, Readers
  <2> QED
    BY <1>g, <2>1
<1>6. CASE Write
  <2>1. log' = Append(log, tail.line) /\ cache'.msgs = cache.msgs /\ op'.held = op.held
        /\ reader'.msgs = reader.msgs
    BY <1>6, <1>t DEF Write, Then, Obsolete, FileChanges, Ops, Entries, Readers
  <2>2. tail.state # "clean"
    BY <1>6 DEF Write, Lines
  <2> QED
    BY <1>a, <1>g, <2>1, <2>2
<1>7. CASE WriteFails
  <2>1. log' = log /\ cache'.msgs \in {cache.msgs, NoCache.msgs, reader.msgs}
        /\ op'.held \in {op.held, cache.msgs, <<>>} /\ reader'.msgs \in {reader.msgs, Records, <<>>}
    BY <1>7, <1>t DEF WriteFails, Done, files, NoOp, Ops, Entries, Readers
  <2> QED
    BY <1>g, <2>1
<1>8. CASE Note
  <2>1. log' = log /\ cache'.msgs \in {cache.msgs, NoCache.msgs, reader.msgs}
        /\ op'.held \in {op.held, cache.msgs, <<>>} /\ reader'.msgs \in {reader.msgs, Records, <<>>}
    BY <1>8, <1>t DEF Note, Then, files, Ops, Entries, Readers
  <2> QED
    BY <1>g, <2>1
<1>9. CASE NoteStat
  <2>1. log' = log /\ op'.held = <<>> /\ reader' = reader
        /\ cache' = IF Grown THEN Entry(Size, TRUE, Append(op.held, Written), FALSE) ELSE NoCache
    BY <1>9, <1>t DEF NoteStat, files, Ops
  <2>2. CASE ~Grown
    BY <1>g, <2>1, <2>2
  <2>3. CASE Grown
    <3>1. op.id \notin {op.held[i].id : i \in DOMAIN op.held}
      BY <1>9, <2>3 DEF NoteStat
    <3>2. op.pc = "stat"
      BY <1>9 DEF NoteStat
    <3>3. Written \in Message /\ Written.id = op.id
      BY <3>2, KindIs, WrittenIs
    <3>4. \A i \in DOMAIN op.held : op.held[i].id # Written.id
      BY <3>1, <3>3
    <3>5. Distinct(Append(op.held, Written))
      BY <1>t, <1>p, <3>3, <3>4, DistinctMore
    <3>6. cache'.msgs = Append(op.held, Written)
      BY <2>1, <2>3 DEF Entry
    <3> QED
      BY <1>g, <2>1, <3>5, <3>6
  <2> QED
    BY <2>2, <2>3
<1>10. CASE SaveAppend
  <2>1. log' = log /\ cache'.msgs \in {cache.msgs, NoCache.msgs, reader.msgs}
        /\ op'.held \in {op.held, cache.msgs, <<>>} /\ reader'.msgs \in {reader.msgs, Records, <<>>}
    BY <1>10, <1>t DEF SaveAppend, Done, NoOp, Ops, Entries, Readers
  <2> QED
    BY <1>g, <2>1
<1>11. CASE Truncate
  <2> DEFINE kept == SubSeq(op.held, 1, IF op.id < Len(op.held) THEN op.id ELSE Len(op.held))
  <2>1. log' = kept /\ cache'.msgs = cache.msgs /\ op'.held = op.held
        /\ reader'.msgs = reader.msgs
    BY <1>11, <1>t DEF Truncate, Then, Obsolete, FileChanges, Ops, Entries, Readers
  <2>2. \A i \in DOMAIN kept : i \in DOMAIN op.held /\ kept[i] = op.held[i]
    <3>1. op.id \in Nat
      BY <1>t DEF Ops
    <3> QED
      BY <1>t, <3>1, FirstOnes
  <2> HIDE DEF kept
  <2>3. Distinct(kept)
    BY <1>p, <2>2 DEF Distinct
  <2> QED
    BY <1>g, <2>1, <2>3
<1>12. CASE TruncateDrop
  <2>1. log' = log /\ cache'.msgs \in {cache.msgs, NoCache.msgs, reader.msgs}
        /\ op'.held \in {op.held, cache.msgs, <<>>} /\ reader'.msgs \in {reader.msgs, Records, <<>>}
    BY <1>12, <1>t DEF TruncateDrop, Then, files, Ops, Entries, Readers
  <2> QED
    BY <1>g, <2>1
<1>13. CASE TruncateMeta
  <2>1. log' = log /\ cache'.msgs \in {cache.msgs, NoCache.msgs, reader.msgs}
        /\ op'.held \in {op.held, cache.msgs, <<>>} /\ reader'.msgs \in {reader.msgs, Records, <<>>}
    BY <1>13, <1>t DEF TruncateMeta, files, Ops, Entries, Readers
  <2> QED
    BY <1>g, <2>1
<1>14. CASE SaveTruncate
  <2>1. log' = log /\ cache'.msgs \in {cache.msgs, NoCache.msgs, reader.msgs}
        /\ op'.held \in {op.held, cache.msgs, <<>>} /\ reader'.msgs \in {reader.msgs, Records, <<>>}
    BY <1>14, <1>t DEF SaveTruncate, Done, NoOp, Ops, Entries, Readers
  <2> QED
    BY <1>g, <2>1
<1>15. CASE EditReads
  <2>1. log' = log /\ cache'.msgs \in {cache.msgs, NoCache.msgs, reader.msgs}
        /\ op'.held \in {op.held, cache.msgs, <<>>} /\ reader'.msgs \in {reader.msgs, Records, <<>>}
    BY <1>15, <1>t DEF EditReads, files, Ops, Entries, Readers
  <2> QED
    BY <1>g, <2>1
<1>16. CASE EditWrites
  <2>1. log' = log /\ cache'.msgs \in {cache.msgs, NoCache.msgs, reader.msgs}
        /\ op'.held \in {op.held, cache.msgs, <<>>} /\ reader'.msgs \in {reader.msgs, Records, <<>>}
    BY <1>16, <1>t DEF EditWrites, Ops, Entries, Readers
  <2> QED
    BY <1>g, <2>1
<1>17. CASE ReadStat
  <2>1. log' = log /\ cache'.msgs \in {cache.msgs, NoCache.msgs, reader.msgs}
        /\ op'.held \in {op.held, cache.msgs, <<>>} /\ reader'.msgs \in {reader.msgs, Records, <<>>}
    BY <1>17, <1>t DEF ReadStat, NoReader, files, Ops, Entries, Readers
  <2> QED
    BY <1>g, <2>1
<1>18. CASE ReadFile
  <2>1. log' = log /\ cache'.msgs \in {cache.msgs, NoCache.msgs, reader.msgs}
        /\ op'.held \in {op.held, cache.msgs, <<>>} /\ reader'.msgs \in {reader.msgs, Records, <<>>}
    BY <1>18, <1>t DEF ReadFile, files, Ops, Entries, Readers
  <2> QED
    BY <1>g, <2>1
<1>19. CASE ReadTouch
  <2>1. log' = log /\ cache'.msgs \in {cache.msgs, NoCache.msgs, reader.msgs}
        /\ op'.held \in {op.held, cache.msgs, <<>>} /\ reader'.msgs \in {reader.msgs, Records, <<>>}
    BY <1>19, <1>t DEF ReadTouch, Entry, NoReader, files, Ops, Entries, Readers
  <2> QED
    BY <1>g, <2>1
<1>20. CASE Evict
  <2>1. log' = log /\ cache'.msgs \in {cache.msgs, NoCache.msgs, reader.msgs}
        /\ op'.held \in {op.held, cache.msgs, <<>>} /\ reader'.msgs \in {reader.msgs, Records, <<>>}
    BY <1>20, <1>t DEF Evict, files, Ops, Entries, Readers
  <2> QED
    BY <1>g, <2>1
<1>21. CASE Crash
  <2>1. log' = log /\ cache'.msgs \in {cache.msgs, NoCache.msgs, reader.msgs}
        /\ op'.held \in {op.held, cache.msgs, <<>>} /\ reader'.msgs \in {reader.msgs, Records, <<>>}
    BY <1>21, <1>t DEF Crash, NoOp, NoReader, files, Ops, Entries, Readers
  <2> QED
    BY <1>g, <2>1
<1> QED
  BY <1>1, <1>2, <1>3, <1>4, <1>5, <1>6, <1>7, <1>8, <1>9, <1>10, <1>11, <1>12, <1>13, <1>14,
      <1>15, <1>16, <1>17, <1>18, <1>19, <1>20, <1>21 DEF Next

\* A file that grows at its end is covered as before.
LEMMA CoversKept ==
    ASSUME NEW size \in Nat, NEW msgs, NEW total \in Nat, NEW records, NEW more \in Nat, NEW longer,
           Covers(size, msgs, total, records), total <= more,
           \A i \in DOMAIN longer : i \in Nat,
           \A i \in DOMAIN longer : 3 * i <= total + 1 =>
              i \in DOMAIN records /\ longer[i] = records[i]
    PROVE  Covers(size, msgs, more, longer)
<1>1. size <= total /\ size <= more
  BY DEF Covers
<1>2. ASSUME NEW i \in DOMAIN longer, 3 * i <= size + 1
      PROVE  \E k \in DOMAIN msgs : msgs[k] = longer[i]
  <2>1. 3 * i <= total + 1
    BY <1>1, <1>2
  <2> QED
    BY <1>2, <2>1 DEF Covers
<1> QED
  BY <1>1, <1>2 DEF Covers

\* What was read is covered by itself.
LEMMA CoversItself ==
    ASSUME NEW size \in Nat, NEW total \in Nat, size <= total, NEW records
    PROVE  Covers(size, records, total, records)
BY DEF Covers

\* Sizes are right.
LEMMA SizesStep == TypeOK /\ Stages /\ Numbered /\ Lines /\ Sizes /\ Next => Sizes'
<1> SUFFICES ASSUME TypeOK, Stages, Numbered, Lines, Sizes, Next PROVE Sizes'
  OBVIOUS
<1>t. /\ op \in Ops /\ cache \in Entries /\ reader \in Readers /\ tail \in Tails
      /\ log \in Seq(Message)
  BY DEF TypeOK
<1>n. /\ Len(log) \in Nat /\ DOMAIN log = 1..Len(log)
      /\ cache.size \in Nat /\ op.size \in Nat /\ reader.size \in Nat
  BY TypesAre
<1>z. /\ Size \in Nat
      /\ tail.state = "clean" => Size = 3 * Len(log)
      /\ tail.state = "cut" => Size = 3 * Len(log) + 1
      /\ tail.state = "open" => Size = 3 * Len(log) + 2
  BY SizeIs
<1>m. Len(log) \in Nat
  BY TypesAre
<1>y. tail.state \in {"clean", "cut", "open"} /\ tail.line \in Message
  BY <1>t DEF Tails
<1>r. /\ DOMAIN Records = 1..Len(Records)
      /\ Len(Records) = IF tail.state = "open" THEN Len(log) + 1 ELSE Len(log)
      /\ \A i \in 1..Len(log) : Records[i] = log[i]
      /\ tail.state = "open" => Records[Len(log) + 1] = tail.line
  BY RecordsAre
<1>f. flaws \subseteq flaws'
  BY FlawsStay
<1>o. reader.pc # "none" /\ reader.current => reader.size = Size
  BY DEF Sizes
<1>c. "overtaken" \notin flaws' =>
         /\ reader.pc = "read" => reader.size <= Size
         /\ reader.pc = "touch" => Covers(reader.size, reader.msgs, Size, Records)
         /\ cache.on /\ (op.pc = "drop" => cache.current) =>
               Covers(cache.size, cache.msgs, Size, Records)
         /\ op.pc = "stat" => Covers(op.size, op.held, Size, Records)
  BY <1>f DEF Sizes
<1>u. log' = log /\ tail' = tail => Size' = Size /\ Records' = Records
  BY DEF Size, Records
\* Actions that leave the file alone.
<1>g. ASSUME log' = log, tail' = tail,
             reader' = reader \/ reader'.pc = "none",
             (cache' = cache /\ (op.pc = "drop" => op'.pc = "drop")) \/ ~cache'.on,
             op'.pc = "stat" => op.pc = "stat" /\ op'.size = op.size /\ op'.held = op.held
      PROVE  Sizes'
  <2>1. Size' = Size /\ Records' = Records
    BY <1>g, <1>u
  <2> QED
    BY <1>c, <1>g, <1>o, <2>1 DEF Sizes
\* Actions that add to it.
<1>h. ASSUME Size' \in Nat, Size <= Size', DOMAIN Records' = 1..Len(Records'),
             Len(Records') \in Nat,
             \A i \in 1..Len(Records') : 3 * i <= Size + 1 =>
                i \in DOMAIN Records /\ Records'[i] = Records[i],
             reader'.pc = reader.pc, reader'.size = reader.size, reader'.msgs = reader.msgs,
             ~reader'.current,
             cache'.on => cache.on /\ op.pc # "drop" /\ cache'.size = cache.size /\ cache'.msgs = cache.msgs,
             op'.pc # "stat"
      PROVE  Sizes'
  <2>1. \A i \in DOMAIN Records' : i \in Nat
    BY <1>h
  <2>2. \A i \in DOMAIN Records' : 3 * i <= Size + 1 =>
           i \in DOMAIN Records /\ Records'[i] = Records[i]
    BY <1>h
  <2>3. ASSUME NEW size \in Nat, NEW msgs, Covers(size, msgs, Size, Records)
        PROVE  Covers(size, msgs, Size', Records')
    BY <1>h, <1>z, <2>1, <2>2, <2>3, CoversKept
  <2>4. reader.size <= Size => reader.size <= Size'
    BY <1>h, <1>n, <1>z
  <2> QED
    BY <1>c, <1>h, <1>n, <2>3, <2>4 DEF Sizes
<1>1. CASE CallAppend
  <2>1. log' = log /\ tail' = tail /\ (reader' = reader \/ reader'.pc = "none")
    BY <1>1 DEF CallAppend, files, NoReader
  <2>2. (cache' = cache /\ (op.pc = "drop" => op'.pc = "drop")) \/ ~cache'.on
    BY <1>1, KindIs DEF CallAppend, NoCache
  <2>3. op'.pc = "stat" => op.pc = "stat" /\ op'.size = op.size /\ op'.held = op.held
    BY <1>1, <1>t DEF CallAppend, Done, Then, NoOp, Ops
  <2> QED
    BY <1>g, <2>1, <2>2, <2>3
<1>2. CASE CallTruncate
  <2>1. log' = log /\ tail' = tail /\ (reader' = reader \/ reader'.pc = "none")
    BY <1>2 DEF CallTruncate, files, NoReader
  <2>2. (cache' = cache /\ (op.pc = "drop" => op'.pc = "drop")) \/ ~cache'.on
    BY <1>2, KindIs DEF CallTruncate, NoCache
  <2>3. op'.pc = "stat" => op.pc = "stat" /\ op'.size = op.size /\ op'.held = op.held
    BY <1>2, <1>t DEF CallTruncate, Done, Then, NoOp, Ops
  <2> QED
    BY <1>g, <2>1, <2>2, <2>3
<1>3. CASE Begin
  <2>1. log' = log /\ tail' = tail /\ reader' = reader
    BY <1>3 DEF Begin, files
  <2>2. op.pc = "" /\ op'.pc \in {"repair", "cut"}
    <3>1. op.kind = "none" /\ op'.pc \in {"repair", "cut"}
      BY <1>3 DEF Begin, Turn, NoOp
    <3>2. op = NoOp
      BY <3>1 DEF TypeOK
    <3> QED
      BY <3>1, <3>2 DEF NoOp
  <2>3. cache' \in {cache, CacheOfLoad}
    BY <1>3 DEF Begin
  <2>4. CASE cache' = cache
    BY <1>g, <2>1, <2>2, <2>4
  <2>5. CASE cache' = CacheOfLoad /\ ~cache.current
    <3>1. cache'.size = Size /\ cache'.msgs = Records
      BY <2>5 DEF CacheOfLoad, Entry
    <3>2. Covers(cache'.size, cache'.msgs, Size, Records)
      BY <1>z, <3>1, CoversItself
    <3>3. Size' = Size /\ Records' = Records
      BY <1>u, <2>1
    <3> QED
      BY <1>c, <1>o, <2>1, <2>2, <3>2, <3>3 DEF Sizes
  <2>6. CASE cache' = CacheOfLoad /\ cache.current
    BY <1>g, <2>1, <2>2, <2>6 DEF CacheOfLoad
  <2> QED
    BY <2>3, <2>4, <2>5, <2>6
<1>4. CASE Repair
  <2>1. op.pc = "repair" /\ op'.pc = "write"
    BY <1>4, <1>t DEF Repair, Then, Ops
  <2>2. CASE ~NeedsRepair
    <3>1. log' = log /\ tail' = tail /\ cache' = cache /\ reader' = reader
      BY <1>4, <2>2 DEF Repair
    <3> QED
      BY <1>g, <2>1, <3>1
  <2>3. CASE tail.state = "cut"
    <3>1. cache' = NoCache /\ ~reader'.current
      BY <1>4, <1>t, <2>3 DEF Repair, NeedsRepair, FileChanges, Readers
    <3>2. reader'.pc # "none" => "overtaken" \in flaws'
      BY <1>4, <1>t, <2>3 DEF Repair, NeedsRepair, FileChanges, Readers, Overtaken
    <3>3. ~cache'.on
      BY <3>1 DEF NoCache
    <3> QED
      BY <2>1, <3>1, <3>2, <3>3 DEF Sizes
  <2>4. CASE tail.state = "open"
    <3>1. log' = Append(log, tail.line) /\ tail'.state = "clean"
      BY <1>4, <2>4 DEF Repair, NeedsRepair, Records, Clean
    <3>2. cache'.on = cache.on /\ cache'.size = cache.size /\ cache'.msgs = cache.msgs
      BY <1>4, <1>t, <2>4 DEF Repair, NeedsRepair, Obsolete, Entries
    <3>3. /\ reader'.pc = reader.pc /\ reader'.size = reader.size /\ reader'.msgs = reader.msgs
          /\ ~reader'.current
      BY <1>4, <1>t, <2>4 DEF Repair, NeedsRepair, FileChanges, Readers
    <3>4. Records' = Records
      BY <2>4, <3>1 DEF Records
    <3>5. Len(log') = Len(log) + 1
      BY <1>t, <1>y, <3>1, AppendProperties
    <3>6. Size' = 3 * (Len(log) + 1)
      BY <1>n, <3>1, <3>5 DEF Size
    <3>7. Size' \in Nat /\ Size <= Size'
      BY <1>n, <1>z, <2>4, <3>6
    <3>8. Len(Records) \in Nat
      BY <1>n, <1>r
    <3> QED
      BY <1>h, <1>r, <2>1, <3>2, <3>3, <3>4, <3>7, <3>8
  <2> QED
    BY <1>y, <2>2, <2>3, <2>4 DEF NeedsRepair
<1>5. CASE StartWriting
  <2>1. op.pc = "write" /\ op'.pc = "writing"
    BY <1>5, <1>t DEF StartWriting, Then, Ops
  <2>2. tail.state = "clean"
    BY <2>1 DEF Lines
  <2>3. log' = log /\ tail'.state \in {"cut", "open"} /\ tail'.line = Written
    BY <1>5, <2>2 DEF StartWriting
  <2>4. cache'.on = cache.on /\ cache'.size = cache.size /\ cache'.msgs = cache.msgs
    BY <1>5, <1>t DEF StartWriting, Obsolete, Entries
  <2>5. /\ reader'.pc = reader.pc /\ reader'.size = reader.size /\ reader'.msgs = reader.msgs
        /\ ~reader'.current
    BY <1>5, <1>t DEF StartWriting, FileChanges, Readers
  <2>6. Size = 3 * Len(log) /\ Records = log
    BY <1>z, <2>2 DEF Records
  <2>7. Size' \in {Size + 1, Size + 2}
    <3>1. Size' = 3 * Len(log) + (IF tail'.state = "cut" THEN 1 ELSE 2)
      BY <2>3 DEF Size
    <3> QED
      BY <1>n, <2>6, <3>1
  <2>8. Records' \in {log, Append(log, Written)}
    BY <2>3 DEF Records
  <2>9. /\ DOMAIN Records' = 1..Len(Records') /\ Len(Records') \in {Len(log), Len(log) + 1}
        /\ \A i \in 1..Len(log) : Records'[i] = log[i]
    <3>1. Written \in Message
      BY <2>1, KindIs, WrittenIs
    <3>2. /\ Append(log, Written) \in Seq(Message) /\ Len(Append(log, Written)) = Len(log) + 1
          /\ \A i \in 1..Len(log) : Append(log, Written)[i] = log[i]
      BY <1>t, <3>1, AppendProperties
    <3>3. DOMAIN Append(log, Written) = 1..Len(Append(log, Written))
      BY <3>2, LenProperties
    <3> QED
      BY <1>n, <2>8, <3>2, <3>3
  <2>10. \A i \in 1..Len(Records') : 3 * i <= Size + 1 =>
            i \in DOMAIN Records /\ Records'[i] = Records[i]
    <3> SUFFICES ASSUME NEW i \in 1..Len(Records'), 3 * i <= Size + 1
                 PROVE  i \in DOMAIN Records /\ Records'[i] = Records[i]
      OBVIOUS
    <3>1. i \in 1..Len(log)
      <4>0. Len(Records') \in {Len(log), Len(log) + 1}
        BY <2>9
      <4>1. i \in 1..(Len(log) + 1)
        BY <1>m, <4>0
      <4>2. 3 * i <= 3 * Len(log) + 1
        BY <2>6
      <4> QED
        BY <1>n, <4>1, <4>2
    <3> QED
      BY <1>n, <2>6, <2>9, <3>1
  <2>11. Size' \in Nat /\ Size <= Size' /\ Len(Records') \in Nat
    <3>0. Len(Records') \in {Len(log), Len(log) + 1}
      BY <2>9
    <3>1. Len(Records') \in Nat
      BY <1>m, <3>0
    <3> QED
      BY <1>z, <2>7, <3>1
  <2> QED
    BY <1>h, <2>1, <2>4, <2>5, <2>9, <2>10, <2>11
<1>6. CASE Write
  <2>1. op.pc = "writing" /\ op'.pc = "note"
    BY <1>6, <1>t DEF Write, Then, Ops
  <2>2. tail.state \in {"cut", "open"}
    BY <2>1 DEF Lines
  <2>3. log' = Append(log, tail.line) /\ tail'.state = "clean"
    BY <1>6 DEF Write, Clean
  <2>4. cache'.on = cache.on /\ cache'.size = cache.size /\ cache'.msgs = cache.msgs
    BY <1>6, <1>t DEF Write, Obsolete, Entries
  <2>5. /\ reader'.pc = reader.pc /\ reader'.size = reader.size /\ reader'.msgs = reader.msgs
        /\ ~reader'.current
    BY <1>6, <1>t DEF Write, FileChanges, Readers
  <2>6. /\ log' \in Seq(Message) /\ Len(log') = Len(log) + 1
        /\ \A i \in 1..Len(log) : log'[i] = log[i]
        /\ log'[Len(log) + 1] = tail.line
    BY <1>t, <1>y, <2>3, AppendProperties
  <2>7. DOMAIN log' = 1..Len(log')
    BY <2>6, LenProperties
  <2>8. Size' = 3 * (Len(log) + 1) /\ Records' = log'
    BY <1>n, <2>3, <2>6 DEF Size, Records
  <2>9. \A i \in 1..Len(Records') : 3 * i <= Size + 1 =>
           i \in DOMAIN Records /\ Records'[i] = Records[i]
    <3>1. CASE tail.state = "cut"
      <4>1. Len(Records) = Len(log) /\ Size = 3 * Len(log) + 1
        BY <1>r, <1>z, <3>1
      <4>2. \A i \in 1..(Len(log) + 1) : 3 * i <= Size + 1 => i \in 1..Len(log)
        BY <1>n, <4>1
      <4> QED
        BY <1>r, <2>6, <2>8, <4>1, <4>2
    <3>2. CASE tail.state = "open"
      <4>1. Len(Records) = Len(log) + 1 /\ Records[Len(log) + 1] = tail.line
        BY <1>r, <3>2
      <4>2. \A i \in 1..(Len(log) + 1) : i \in 1..Len(log) \/ i = Len(log) + 1
        BY <1>n
      <4> QED
        BY <1>r, <2>6, <2>8, <4>1, <4>2
    <3> QED
      BY <2>2, <3>1, <3>2
  <2>10. Size' \in Nat /\ Size <= Size' /\ Len(Records') \in Nat
    BY <1>n, <1>z, <2>2, <2>6, <2>8
  <2> QED
    BY <1>h, <2>1, <2>4, <2>5, <2>7, <2>8, <2>9, <2>10
<1>7. CASE WriteFails
  <2>1. log' = log /\ tail' = tail /\ (reader' = reader \/ reader'.pc = "none")
    BY <1>7 DEF WriteFails, files, NoReader
  <2>2. (cache' = cache /\ (op.pc = "drop" => op'.pc = "drop")) \/ ~cache'.on
    BY <1>7, KindIs DEF WriteFails, NoCache, Done, NoOp
  <2>3. op'.pc = "stat" => op.pc = "stat" /\ op'.size = op.size /\ op'.held = op.held
    BY <1>7, <1>t DEF WriteFails, Done, Then, NoOp, Ops
  <2> QED
    BY <1>g, <2>1, <2>2, <2>3
<1>8. CASE Note
  <2>1. op.pc = "note" /\ log' = log /\ tail' = tail /\ reader' = reader
    BY <1>8 DEF Note, files
  <2>2. CASE cache' = NoCache /\ op'.pc = "save"
    BY <1>g, <2>1, <2>2 DEF NoCache
  <2>3. CASE /\ cache.on /\ cache' = cache
             /\ op'.pc = "stat" /\ op'.held = cache.msgs /\ op'.size = cache.size
    <3>1. Size' = Size /\ Records' = Records
      BY <1>u, <2>1
    <3> QED
      BY <1>c, <1>o, <2>1, <2>3, <3>1 DEF Sizes
  <2> QED
    BY <1>8, <1>t, <2>2, <2>3 DEF Note, Then, Ops
<1>9. CASE NoteStat
  <2>1. op.pc = "stat" /\ op'.pc = "save" /\ log' = log /\ tail' = tail /\ reader' = reader
    BY <1>9, <1>t DEF NoteStat, files, Ops
  <2>2. cache' = IF Grown THEN Entry(Size, TRUE, Append(op.held, Written), FALSE) ELSE NoCache
    BY <1>9 DEF NoteStat
  <2>3. CASE ~Grown
    BY <1>g, <2>1, <2>2, <2>3 DEF NoCache
  <2>4. CASE Grown
    <3>1. cache'.size = Size /\ cache'.msgs = Append(op.held, Written)
      BY <2>2, <2>4 DEF Entry
    <3>2. Size' = Size /\ Records' = Records
      BY <1>u, <2>1
    <3>3. "overtaken" \notin flaws' => Covers(cache'.size, cache'.msgs, Size, Records)
      <4> SUFFICES ASSUME "overtaken" \notin flaws'
                   PROVE  Covers(Size, Append(op.held, Written), Size, Records)
        BY <3>1
      <4>1. Covers(op.size, op.held, Size, Records)
        BY <1>c, <2>1
      <4>2. tail.state = "clean" /\ Len(log) > 0 /\ log[Len(log)] = Written
        BY <2>1 DEF Lines
      <4>3. Records = log /\ Size = 3 * Len(log) /\ Size = op.size + 3
        BY <1>z, <2>4, <4>2 DEF Records, Grown
      <4>4. /\ op.held \in Seq(Message) /\ Written \in Message
            /\ Len(op.held) \in Nat /\ DOMAIN op.held = 1..Len(op.held)
        BY <2>1, TypesAre, KindIs, WrittenIs, LenProperties
      <4>5. /\ Append(op.held, Written) \in Seq(Message)
            /\ Len(Append(op.held, Written)) = Len(op.held) + 1
            /\ \A i \in 1..Len(op.held) : Append(op.held, Written)[i] = op.held[i]
            /\ Append(op.held, Written)[Len(op.held) + 1] = Written
        BY <4>4, AppendProperties
      <4>6. DOMAIN Append(op.held, Written) = 1..(Len(op.held) + 1)
        BY <4>5, LenProperties
      <4>7. \A k \in DOMAIN op.held : k \in DOMAIN Append(op.held, Written)
        BY <4>4, <4>6
      <4>8. ASSUME NEW i \in 1..Len(log), i # Len(log)
            PROVE  \E k \in DOMAIN Append(op.held, Written) : Append(op.held, Written)[k] = log[i]
        <5>1. 3 * i <= op.size + 1
          <6>1. i \in Nat /\ i + 1 <= Len(log)
            BY <1>m, <4>8
          <6>2. 3 * Len(log) = op.size + 3
            BY <4>3
          <6> QED
            BY <1>n, <6>1, <6>2
        <5>2. \E k \in DOMAIN op.held : op.held[k] = log[i]
          BY <1>n, <4>1, <4>3, <5>1 DEF Covers
        <5> QED
          BY <4>4, <4>5, <4>7, <5>2
      <4>9. \E k \in DOMAIN Append(op.held, Written) : Append(op.held, Written)[k] = log[Len(log)]
        <5>1. Len(op.held) + 1 \in DOMAIN Append(op.held, Written)
          BY <4>4, <4>6
        <5> QED
          BY <4>2, <4>5, <5>1
      <4>10. Size <= Size
        BY <1>z
      <4>11. \A i \in DOMAIN Records :
                \E k \in DOMAIN Append(op.held, Written) : Append(op.held, Written)[k] = Records[i]
        BY <1>n, <4>3, <4>8, <4>9
      <4> QED
        BY <4>10, <4>11 DEF Covers
    <3> QED
      BY <1>c, <1>o, <2>1, <3>2, <3>3 DEF Sizes
  <2> QED
    BY <2>3, <2>4
<1>10. CASE SaveAppend
  <2>1. log' = log /\ tail' = tail /\ (reader' = reader \/ reader'.pc = "none")
    BY <1>10 DEF SaveAppend, files, NoReader
  <2>2. (cache' = cache /\ (op.pc = "drop" => op'.pc = "drop")) \/ ~cache'.on
    BY <1>10, KindIs DEF SaveAppend, NoCache, Done, NoOp
  <2>3. op'.pc = "stat" => op.pc = "stat" /\ op'.size = op.size /\ op'.held = op.held
    BY <1>10, <1>t DEF SaveAppend, Done, Then, NoOp, Ops
  <2> QED
    BY <1>g, <2>1, <2>2, <2>3
<1>11. CASE Truncate
  <2>1. op'.pc = "drop" /\ ~cache'.current
    BY <1>11, <1>t DEF Truncate, Then, Ops, Obsolete, Entries
  <2>2. ~reader'.current /\ (reader'.pc # "none" => "overtaken" \in flaws')
    BY <1>11, <1>t DEF Truncate, FileChanges, Readers, Overtaken
  <2> QED
    BY <2>1, <2>2 DEF Sizes
<1>12. CASE TruncateDrop
  <2>1. log' = log /\ tail' = tail /\ (reader' = reader \/ reader'.pc = "none")
    BY <1>12 DEF TruncateDrop, files, NoReader
  <2>2. (cache' = cache /\ (op.pc = "drop" => op'.pc = "drop")) \/ ~cache'.on
    BY <1>12, KindIs DEF TruncateDrop, NoCache
  <2>3. op'.pc = "stat" => op.pc = "stat" /\ op'.size = op.size /\ op'.held = op.held
    BY <1>12, <1>t DEF TruncateDrop, Done, Then, NoOp, Ops
  <2> QED
    BY <1>g, <2>1, <2>2, <2>3
<1>13. CASE TruncateMeta
  <2>1. log' = log /\ tail' = tail /\ (reader' = reader \/ reader'.pc = "none")
    BY <1>13 DEF TruncateMeta, files, NoReader
  <2>2. (cache' = cache /\ (op.pc = "drop" => op'.pc = "drop")) \/ ~cache'.on
    BY <1>13, KindIs DEF TruncateMeta, NoCache
  <2>3. op'.pc = "stat" => op.pc = "stat" /\ op'.size = op.size /\ op'.held = op.held
    BY <1>13, <1>t DEF TruncateMeta, Done, Then, NoOp, Ops
  <2> QED
    BY <1>g, <2>1, <2>2, <2>3
<1>14. CASE SaveTruncate
  <2>1. log' = log /\ tail' = tail /\ (reader' = reader \/ reader'.pc = "none")
    BY <1>14 DEF SaveTruncate, files, NoReader
  <2>2. (cache' = cache /\ (op.pc = "drop" => op'.pc = "drop")) \/ ~cache'.on
    BY <1>14, KindIs DEF SaveTruncate, NoCache, Done, NoOp
  <2>3. op'.pc = "stat" => op.pc = "stat" /\ op'.size = op.size /\ op'.held = op.held
    BY <1>14, <1>t DEF SaveTruncate, Done, Then, NoOp, Ops
  <2> QED
    BY <1>g, <2>1, <2>2, <2>3
<1>15. CASE EditReads
  <2>1. log' = log /\ tail' = tail /\ (reader' = reader \/ reader'.pc = "none")
    BY <1>15 DEF EditReads, files, NoReader
  <2>2. (cache' = cache /\ (op.pc = "drop" => op'.pc = "drop")) \/ ~cache'.on
    BY <1>15, KindIs DEF EditReads, NoCache
  <2>3. op'.pc = "stat" => op.pc = "stat" /\ op'.size = op.size /\ op'.held = op.held
    BY <1>15, <1>t DEF EditReads, Done, Then, NoOp, Ops
  <2> QED
    BY <1>g, <2>1, <2>2, <2>3
<1>16. CASE EditWrites
  <2>1. log' = log /\ tail' = tail /\ (reader' = reader \/ reader'.pc = "none")
    BY <1>16 DEF EditWrites, files, NoReader
  <2>2. (cache' = cache /\ (op.pc = "drop" => op'.pc = "drop")) \/ ~cache'.on
    BY <1>16, KindIs DEF EditWrites, NoCache
  <2>3. op'.pc = "stat" => op.pc = "stat" /\ op'.size = op.size /\ op'.held = op.held
    BY <1>16, <1>t DEF EditWrites, Done, Then, NoOp, Ops
  <2> QED
    BY <1>g, <2>1, <2>2, <2>3
<1>17. CASE ReadStat
  <2>1. /\ log' = log /\ tail' = tail /\ cache' = cache /\ op' = op
        /\ reader'.pc = "read" /\ reader'.size = Size
    BY <1>17 DEF ReadStat, files, NoReader
  <2>2. Size' = Size /\ Records' = Records
    BY <1>u, <2>1
  <2>3. Size <= Size
    BY <1>z
  <2> QED
    BY <1>c, <2>1, <2>2, <2>3 DEF Sizes
<1>18. CASE ReadFile
  <2>1. /\ log' = log /\ tail' = tail /\ cache' = cache /\ op' = op
        /\ reader.pc = "read" /\ reader'.pc = "touch" /\ reader'.size = reader.size
        /\ reader'.current = reader.current /\ reader'.msgs = Records
    BY <1>18, <1>t DEF ReadFile, files, Readers
  <2>2. Size' = Size /\ Records' = Records
    BY <1>u, <2>1
  <2>3. "overtaken" \notin flaws' => Covers(reader.size, Records, Size, Records)
    BY <1>c, <1>n, <1>z, <2>1, CoversItself
  <2> QED
    BY <1>c, <1>o, <2>1, <2>2, <2>3 DEF Sizes
<1>19. CASE ReadTouch
  <2>1. /\ log' = log /\ tail' = tail /\ op' = op /\ reader.pc = "touch"
        /\ reader'.pc = "none" /\ cache'.size = reader.size /\ cache'.msgs = reader.msgs
    BY <1>19 DEF ReadTouch, files, NoReader, Entry
  <2>2. Size' = Size /\ Records' = Records
    BY <1>u, <2>1
  <2> QED
    BY <1>c, <2>1, <2>2 DEF Sizes
<1>20. CASE Evict
  <2>1. log' = log /\ tail' = tail /\ (reader' = reader \/ reader'.pc = "none")
    BY <1>20 DEF Evict, files, NoReader
  <2>2. (cache' = cache /\ (op.pc = "drop" => op'.pc = "drop")) \/ ~cache'.on
    BY <1>20, KindIs DEF Evict, NoCache
  <2>3. op'.pc = "stat" => op.pc = "stat" /\ op'.size = op.size /\ op'.held = op.held
    BY <1>20, <1>t DEF Evict, Done, Then, NoOp, Ops
  <2> QED
    BY <1>g, <2>1, <2>2, <2>3
<1>21. CASE Crash
  <2>1. log' = log /\ tail' = tail /\ (reader' = reader \/ reader'.pc = "none")
    BY <1>21 DEF Crash, files, NoReader
  <2>2. (cache' = cache /\ (op.pc = "drop" => op'.pc = "drop")) \/ ~cache'.on
    BY <1>21, KindIs DEF Crash, NoCache
  <2>3. op'.pc = "stat" => op.pc = "stat" /\ op'.size = op.size /\ op'.held = op.held
    BY <1>21, <1>t DEF Crash, Done, Then, NoOp, Ops
  <2> QED
    BY <1>g, <2>1, <2>2, <2>3
<1> QED
  BY <1>1, <1>2, <1>3, <1>4, <1>5, <1>6, <1>7, <1>8, <1>9, <1>10, <1>11, <1>12, <1>13, <1>14,
      <1>15, <1>16, <1>17, <1>18, <1>19, <1>20, <1>21 DEF Next

\* A list begins itself.
LEMMA BeginsItself == ASSUME NEW msgs \in Seq(Message) PROVE Begins(msgs, msgs)
BY LenProperties DEF Begins

\* A beginning of a beginning is one.
LEMMA BeginsOn ==
    ASSUME NEW one \in Seq(Message), NEW two \in Seq(Message), NEW three \in Seq(Message),
           Begins(one, two), Begins(two, three)
    PROVE  Begins(one, three)
<1>1. Len(one) \in Nat /\ Len(two) \in Nat /\ Len(three) \in Nat
  BY LenProperties
<1>2. Len(one) <= Len(two) /\ Len(two) <= Len(three)
  BY DEF Begins
<1>3. ASSUME NEW i \in 1..Len(one) PROVE one[i] = three[i]
  <2>1. i \in 1..Len(two)
    BY <1>1, <1>2
  <2> QED
    BY <2>1 DEF Begins
<1> QED
  BY <1>1, <1>2, <1>3 DEF Begins

\* A list begins what is made of it by adding at the end.
LEMMA BeginsMore ==
    ASSUME NEW msgs \in Seq(Message), NEW m \in Message
    PROVE  Append(msgs, m) \in Seq(Message) /\ Begins(msgs, Append(msgs, m))
<1>1. /\ Append(msgs, m) \in Seq(Message) /\ Len(Append(msgs, m)) = Len(msgs) + 1
      /\ \A i \in 1..Len(msgs) : Append(msgs, m)[i] = msgs[i]
      /\ Len(msgs) \in Nat
  BY AppendProperties, LenProperties
<1> QED
  BY <1>1 DEF Begins

\* Lists of the same length, of which one begins the other, are the same.
LEMMA BeginsAll ==
    ASSUME NEW msgs \in Seq(Message), NEW records \in Seq(Message), Begins(msgs, records),
           Len(msgs) = Len(records)
    PROVE  msgs = records
<1>1. /\ msgs = [i \in 1..Len(msgs) |-> msgs[i]]
      /\ records = [i \in 1..Len(records) |-> records[i]]
  BY LenProperties
<1>2. \A i \in 1..Len(msgs) : msgs[i] = records[i]
  BY DEF Begins
<1> QED
  BY <1>1, <1>2

\* What covers a file without repetitions, and begins it, has as many messages as ended there.
LEMMA BeginsFar ==
    ASSUME NEW size \in Nat, NEW total \in Nat, NEW msgs \in Seq(Message),
           NEW records \in Seq(Message), Covers(size, msgs, total, records),
           Begins(msgs, records), Distinct(records), NEW i \in DOMAIN records, 3 * i <= size + 1
    PROVE  i <= Len(msgs)
<1>1. /\ DOMAIN msgs = 1..Len(msgs) /\ DOMAIN records = 1..Len(records)
      /\ Len(msgs) \in Nat /\ Len(records) \in Nat
  BY LenProperties
<1>2. PICK k \in DOMAIN msgs : msgs[k] = records[i]
  BY DEF Covers
<1>3. k \in 1..Len(msgs) /\ Len(msgs) <= Len(records)
  BY <1>1 DEF Begins
<1>4. k \in DOMAIN records /\ msgs[k] = records[k]
  BY <1>1, <1>3 DEF Begins
<1>5. k = i
  BY <1>2, <1>4 DEF Distinct
<1> QED
  BY <1>1, <1>3, <1>5

\* Records of the file are never twice.
LEMMA RecordsOnce == ASSUME TypeOK, Lines, Distinct(log) PROVE Distinct(Records)
<1>1. CASE tail.state = "open"
  <2>1. tail.line.id \notin LogIds
    BY <1>1 DEF Lines
  <2>2. \A i \in DOMAIN log : log[i].id # tail.line.id
    BY <2>1 DEF LogIds
  <2>3. Distinct(Append(log, tail.line))
    BY <2>2, TypesAre, DistinctMore
  <2> QED
    BY <1>1, <2>3 DEF Records
<1>2. CASE tail.state # "open"
  BY <1>2 DEF Records
<1> QED
  BY <1>1, <1>2

\* Every record ended within the file.
LEMMA RecordsEnd == ASSUME TypeOK PROVE \A i \in DOMAIN Records : 3 * i <= Size + 1
<1>1. /\ DOMAIN Records = 1..Len(Records)
      /\ Len(Records) = IF tail.state = "open" THEN Len(log) + 1 ELSE Len(log)
  BY RecordsAre
<1>2. Len(log) \in Nat /\ tail.state \in {"clean", "cut", "open"}
  BY TypesAre DEF TypeOK, Tails
<1>3. CASE tail.state = "open"
  <2>1. Size = 3 * Len(log) + 2 /\ Len(Records) = Len(log) + 1
    BY <1>1, <1>3, SizeIs
  <2> QED
    BY <1>1, <1>2, <2>1
<1>4. CASE tail.state # "open"
  <2>1. Size \in {3 * Len(log), 3 * Len(log) + 1} /\ Len(Records) = Len(log)
    BY <1>1, <1>2, <1>4, SizeIs
  <2> QED
    BY <1>1, <1>2, <2>1
<1> QED
  BY <1>3, <1>4

\* A history that is taken for that of the file is the file.
LEMMA CurrentIsFile ==
    ASSUME TypeOK, Lines, Once, Sizes, Faithful,
           "overtaken" \notin flaws, "doubled" \notin flaws, cache.current
    PROVE  cache.msgs = Records
<1>1. /\ cache.msgs \in Seq(Message) /\ Records \in Seq(Message) /\ Size \in Nat
      /\ Len(Records) \in Nat /\ Len(cache.msgs) \in Nat /\ DOMAIN Records = 1..Len(Records)
  BY TypesAre, RecordsAre, SizeIs, LenProperties
<1>2. cache.on /\ cache.size = Size
  BY DEF TypeOK
<1>3. Covers(Size, cache.msgs, Size, Records) /\ Begins(cache.msgs, Records)
  BY <1>2 DEF Sizes, Faithful
<1>4. Distinct(Records)
  BY RecordsOnce DEF Once
<1>5. \A i \in DOMAIN Records : i <= Len(cache.msgs)
  BY <1>1, <1>3, <1>4, RecordsEnd, BeginsFar
<1>6. Len(cache.msgs) <= Len(Records)
  BY <1>3 DEF Begins
<1>7. Len(cache.msgs) = Len(Records)
  <2>1. CASE Len(Records) = 0
    BY <1>1, <1>6, <2>1
  <2>2. CASE Len(Records) # 0
    <3>1. Len(Records) \in DOMAIN Records
      BY <1>1, <2>2
    <3> QED
      BY <1>1, <1>5, <1>6, <3>1
  <2> QED
    BY <2>1, <2>2
<1> QED
  BY <1>1, <1>3, <1>7, BeginsAll

\* What an append adds to the file, it adds at the end.
LEMMA RecordsGrow ==
    ASSUME TypeOK, Stages, Numbered, Lines, Repair \/ StartWriting \/ Write
    PROVE  /\ Records' \in Seq(Message) /\ Begins(Records, Records')
           /\ op'.pc \in {"write", "writing", "note"}
<1>t. /\ log \in Seq(Message) /\ Records \in Seq(Message) /\ tail.line \in Message
      /\ op \in Ops /\ tail \in Tails
  BY TypesAre, RecordsAre DEF TypeOK
<1>1. CASE Repair
  <2>1. op'.pc = "write"
    BY <1>1, <1>t DEF Repair, Then, Ops
  <2>2. Records' = Records
    <3>1. CASE NeedsRepair
      <4>1. log' = Records /\ tail'.state = "clean"
        BY <1>1, <3>1 DEF Repair, Clean
      <4>2. Records' = log'
        BY <4>1 DEF Records
      <4> QED
        BY <4>1, <4>2
    <3>2. CASE ~NeedsRepair
      BY <1>1, <3>2 DEF Repair, Records
    <3> QED
      BY <3>1, <3>2
  <2> QED
    BY <1>t, <2>1, <2>2, BeginsItself
<1>2. CASE StartWriting
  <2>1. op.pc = "write" /\ op'.pc = "writing"
    BY <1>2, <1>t DEF StartWriting, Then, Ops
  <2>2. tail.state = "clean"
    BY <2>1 DEF Lines
  <2>3. log' = log /\ tail'.line = Written
    BY <1>2, <2>2 DEF StartWriting
  <2>4. Records = log /\ Records' \in {log, Append(log, Written)}
    BY <2>2, <2>3 DEF Records
  <2>5. Written \in Message
    BY <2>1, KindIs, WrittenIs
  <2> QED
    BY <1>t, <2>1, <2>4, <2>5, BeginsItself, BeginsMore
<1>3. CASE Write
  <2>1. op'.pc = "note"
    BY <1>3, <1>t DEF Write, Then, Ops
  <2>2. Records' = Append(log, tail.line)
    BY <1>3 DEF Write, Clean, Records
  <2>3. Records \in {log, Append(log, tail.line)}
    BY DEF Records
  <2>4. Append(log, tail.line) \in Seq(Message)
    BY <1>t, BeginsMore
  <2> QED
    BY <1>t, <2>1, <2>2, <2>3, <2>4, BeginsItself, BeginsMore
<1> QED
  BY <1>1, <1>2, <1>3

\* What is in memory is kept as the beginning of the file.
LEMMA FaithfulStep ==
    TypeOK /\ Stages /\ Numbered /\ Lines /\ Once /\ Sizes /\ Faithful /\ Next => Faithful'
<1> SUFFICES ASSUME TypeOK, Stages, Numbered, Lines, Once, Sizes, Faithful, Next,
                    "overtaken" \notin flaws', "doubled" \notin flaws'
             PROVE  Faithful'
  BY DEF Faithful
<1>f. "overtaken" \notin flaws /\ "doubled" \notin flaws
  BY FlawsStay
<1>t. /\ op \in Ops /\ cache \in Entries /\ reader \in Readers
      /\ log \in Seq(Message) /\ Records \in Seq(Message)
      /\ cache.msgs \in Seq(Message) /\ op.held \in Seq(Message) /\ reader.msgs \in Seq(Message)
  BY TypesAre, RecordsAre DEF TypeOK
<1>c. /\ reader.pc = "touch" => Begins(reader.msgs, Records)
      /\ cache.on /\ (op.pc = "drop" => cache.current) => Begins(cache.msgs, Records)
      /\ op.pc = "stat" => Begins(op.held, Records)
      /\ op.pc = "cut" => op.held = Records
  BY <1>f DEF Faithful
<1>u. log' = log /\ tail' = tail => Records' = Records
  BY DEF Records
<1>g. ASSUME \/ log' = log /\ tail' = tail
             \/ /\ Records' \in Seq(Message) /\ Begins(Records, Records')
                /\ op'.pc \in {"write", "writing", "note"},
             reader'.pc = "touch" => reader.pc = "touch" /\ reader'.msgs = reader.msgs,
             cache'.on /\ (op'.pc = "drop" => cache'.current) =>
                cache.on /\ (op.pc = "drop" => cache.current) /\ cache'.msgs = cache.msgs,
             op'.pc \in {"stat", "cut"} => op'.pc = op.pc /\ op'.held = op.held
      PROVE  Faithful'
  <2>1. ASSUME NEW msgs \in Seq(Message), Begins(msgs, Records) PROVE Begins(msgs, Records')
    BY <1>g, <1>t, <1>u, <2>1, BeginsOn
  <2>2. op'.pc = "cut" => Records' = Records
    BY <1>g, <1>u
  <2>3. reader'.pc = "touch" => Begins(reader'.msgs, Records')
    BY <1>c, <1>g, <1>t, <2>1
  <2>4. cache'.on /\ (op'.pc = "drop" => cache'.current) => Begins(cache'.msgs, Records')
    BY <1>c, <1>g, <1>t, <2>1
  <2>5. op'.pc = "stat" => Begins(op'.held, Records')
    BY <1>c, <1>g, <1>t, <2>1
  <2>6. op'.pc = "cut" => op'.held = Records'
    BY <1>c, <1>g, <2>2
  <2> QED
    BY <2>3, <2>4, <2>5, <2>6 DEF Faithful
<1>1. CASE CallAppend
  <2>1. log' = log /\ tail' = tail /\ (reader' = reader \/ reader'.pc \in {"none", "read"})
    BY <1>1 DEF CallAppend, files, NoReader
  <2>2. (cache' = cache /\ (op.pc = "drop" => op'.pc = "drop")) \/ ~cache'.on
    BY <1>1, KindIs DEF CallAppend, NoCache
  <2>3. op'.pc \in {"stat", "cut"} => op'.pc = op.pc /\ op'.held = op.held
    BY <1>1, <1>t DEF CallAppend, Done, Then, NoOp, Ops
  <2> QED
    BY <1>g, <2>1, <2>2, <2>3
<1>2. CASE CallTruncate
  <2>1. log' = log /\ tail' = tail /\ (reader' = reader \/ reader'.pc \in {"none", "read"})
    BY <1>2 DEF CallTruncate, files, NoReader
  <2>2. (cache' = cache /\ (op.pc = "drop" => op'.pc = "drop")) \/ ~cache'.on
    BY <1>2, KindIs DEF CallTruncate, NoCache
  <2>3. op'.pc \in {"stat", "cut"} => op'.pc = op.pc /\ op'.held = op.held
    BY <1>2, <1>t DEF CallTruncate, Done, Then, NoOp, Ops
  <2> QED
    BY <1>g, <2>1, <2>2, <2>3
<1>3. CASE Begin
  <2>1. log' = log /\ tail' = tail /\ reader' = reader /\ cache' \in {cache, CacheOfLoad}
    BY <1>3 DEF Begin, files
  <2>2. Records' = Records
    BY <1>u, <2>1
  <2>3. op.pc = "" /\ op'.pc \in {"repair", "cut"}
    <3>1. op.kind = "none" /\ op'.pc \in {"repair", "cut"}
      BY <1>3 DEF Begin, Turn, NoOp
    <3>2. op = NoOp
      BY <3>1 DEF TypeOK
    <3> QED
      BY <3>1, <3>2 DEF NoOp
  <2>4. Loaded = Records
    BY <1>f, CurrentIsFile DEF Loaded
  <2>5. CacheOfLoad.msgs = Records /\ Begins(Records, Records)
    BY <1>t, <2>4, LoadedIs, BeginsItself
  <2>6. op'.pc = "cut" => op'.held = Loaded
    <3>1. Head(chain).kind # "append" => op'.held = Loaded
      <4>1. chain # <<>>
        BY <1>3 DEF Begin
      <4>2. Head(chain) \in Calls
        BY <4>1, HeadTailProperties DEF TypeOK
      <4> QED
        BY <1>3, <4>2 DEF Begin, NoOp, Calls
    <3>2. op'.pc = "cut" => Head(chain).kind # "append"
      BY <1>3 DEF Begin, NoOp
    <3> QED
      BY <3>1, <3>2
  <2> QED
    BY <1>c, <2>1, <2>2, <2>3, <2>4, <2>5, <2>6 DEF Faithful
<1>4. CASE Repair
  <2>1. /\ Records' \in Seq(Message) /\ Begins(Records, Records')
        /\ op'.pc \in {"write", "writing", "note"}
    BY <1>4, RecordsGrow
  <2>2. reader'.pc = reader.pc /\ reader'.msgs = reader.msgs
    BY <1>4, <1>t DEF Repair, FileChanges, Readers
  <2>3. cache'.on => cache.on /\ cache'.msgs = cache.msgs
    BY <1>4, <1>t DEF Repair, Obsolete, Entries, NoCache
  <2>4. op.pc # "drop"
    BY <1>4 DEF Repair
  <2> QED
    BY <1>g, <2>1, <2>2, <2>3, <2>4
<1>5. CASE StartWriting
  <2>1. /\ Records' \in Seq(Message) /\ Begins(Records, Records')
        /\ op'.pc \in {"write", "writing", "note"}
    BY <1>5, RecordsGrow
  <2>2. reader'.pc = reader.pc /\ reader'.msgs = reader.msgs
    BY <1>5, <1>t DEF StartWriting, FileChanges, Readers
  <2>3. cache'.on => cache.on /\ cache'.msgs = cache.msgs
    BY <1>5, <1>t DEF StartWriting, Obsolete, Entries, NoCache
  <2>4. op.pc # "drop"
    BY <1>5 DEF StartWriting
  <2> QED
    BY <1>g, <2>1, <2>2, <2>3, <2>4
<1>6. CASE Write
  <2>1. /\ Records' \in Seq(Message) /\ Begins(Records, Records')
        /\ op'.pc \in {"write", "writing", "note"}
    BY <1>6, RecordsGrow
  <2>2. reader'.pc = reader.pc /\ reader'.msgs = reader.msgs
    BY <1>6, <1>t DEF Write, FileChanges, Readers
  <2>3. cache'.on => cache.on /\ cache'.msgs = cache.msgs
    BY <1>6, <1>t DEF Write, Obsolete, Entries, NoCache
  <2>4. op.pc # "drop"
    BY <1>6 DEF Write
  <2> QED
    BY <1>g, <2>1, <2>2, <2>3, <2>4
<1>7. CASE WriteFails
  <2>1. log' = log /\ tail' = tail /\ (reader' = reader \/ reader'.pc \in {"none", "read"})
    BY <1>7 DEF WriteFails, files, NoReader
  <2>2. (cache' = cache /\ (op.pc = "drop" => op'.pc = "drop")) \/ ~cache'.on
    BY <1>7, KindIs DEF WriteFails, NoCache, Done, NoOp
  <2>3. op'.pc \in {"stat", "cut"} => op'.pc = op.pc /\ op'.held = op.held
    BY <1>7, <1>t DEF WriteFails, Done, Then, NoOp, Ops
  <2> QED
    BY <1>g, <2>1, <2>2, <2>3
<1>8. CASE Note
  <2>1. op.pc = "note" /\ log' = log /\ tail' = tail /\ reader' = reader
    BY <1>8 DEF Note, files
  <2>2. CASE cache' = NoCache /\ op'.pc = "save"
    BY <1>g, <2>1, <2>2 DEF NoCache
  <2>3. CASE cache.on /\ cache' = cache /\ op'.pc = "stat" /\ op'.held = cache.msgs
    BY <1>c, <1>u, <2>1, <2>3 DEF Faithful
  <2> QED
    BY <1>8, <1>t, <2>2, <2>3 DEF Note, Then, Ops
<1>9. CASE NoteStat
  <2>1. op.pc = "stat" /\ op'.pc = "save" /\ log' = log /\ tail' = tail /\ reader' = reader
    BY <1>9, <1>t DEF NoteStat, files, Ops
  <2>2. cache' = IF Grown THEN Entry(Size, TRUE, Append(op.held, Written), FALSE) ELSE NoCache
    BY <1>9 DEF NoteStat
  <2>3. CASE ~Grown
    BY <1>g, <2>1, <2>2, <2>3 DEF NoCache
  <2>4. CASE Grown
    <3>1. cache'.msgs = Append(op.held, Written)
      BY <2>2, <2>4 DEF Entry
    <3>2. Records' = Records
      BY <1>u, <2>1
    <3>3. tail.state = "clean" /\ Len(log) > 0 /\ log[Len(log)] = Written
      BY <2>1 DEF Lines
    <3>4. Records = log /\ Size = 3 * Len(log) /\ Size = op.size + 3
      BY <2>4, <3>3, SizeIs DEF Records, Grown
    <3>5. /\ Written \in Message /\ Written.id = op.id /\ op.size \in Nat /\ Size \in Nat
          /\ Len(log) \in Nat /\ Len(op.held) \in Nat /\ DOMAIN op.held = 1..Len(op.held)
          /\ DOMAIN log = 1..Len(log)
      BY <1>t, <2>1, TypesAre, KindIs, WrittenIs, SizeIs, LenProperties
    <3>6. Begins(op.held, log) /\ Covers(op.size, op.held, Size, log)
      BY <1>c, <1>f, <2>1, <3>4 DEF Sizes
    <3>7. Len(op.held) # Len(log)
      <4> SUFFICES ASSUME Len(op.held) = Len(log) PROVE FALSE
        OBVIOUS
      <4>1. Len(log) \in 1..Len(log)
        BY <3>3, <3>5
      <4>2. op.held[Len(log)] = Written /\ Len(log) \in DOMAIN op.held
        BY <3>3, <3>5, <3>6, <4>1 DEF Begins
      <4>3. op.id \in {op.held[i].id : i \in DOMAIN op.held}
        BY <3>5, <4>2
      <4> QED
        BY <1>9, <2>4, <4>3 DEF NoteStat
    <3>8. Len(log) <= Len(op.held) + 1
      <4>1. CASE Len(log) = 1
        BY <3>5, <4>1
      <4>2. CASE Len(log) > 1
        <5>1. Len(log) - 1 \in DOMAIN log /\ 3 * (Len(log) - 1) <= op.size + 1
          BY <3>4, <3>5, <4>2
        <5>2. Distinct(log)
          BY <1>f DEF Once
        <5>3. Len(log) - 1 <= Len(op.held)
          BY <1>t, <3>5, <3>6, <5>1, <5>2, BeginsFar
        <5> QED
          BY <3>5, <5>3
      <4> QED
        BY <3>3, <3>5, <4>1, <4>2
    <3>9. Len(op.held) + 1 = Len(log)
      <4>1. Len(op.held) <= Len(log)
        BY <3>6 DEF Begins
      <4>2. Len(op.held) \in Nat /\ Len(log) \in Nat
        BY <3>5
      <4> QED
        BY <3>7, <3>8, <4>1, <4>2
    <3>10. Begins(Append(op.held, Written), log)
      <4>1. /\ Len(Append(op.held, Written)) = Len(op.held) + 1
            /\ \A i \in 1..Len(op.held) : Append(op.held, Written)[i] = op.held[i]
            /\ Append(op.held, Written)[Len(op.held) + 1] = Written
        BY <1>t, <3>5, AppendProperties
      <4>2. \A i \in 1..(Len(op.held) + 1) : i \in 1..Len(op.held) \/ i = Len(op.held) + 1
        BY <3>5
      <4>3. \A i \in 1..(Len(op.held) + 1) : Append(op.held, Written)[i] = log[i]
        BY <3>3, <3>6, <3>9, <4>1, <4>2 DEF Begins
      <4>4. Len(Append(op.held, Written)) <= Len(log)
        <5>1. Len(Append(op.held, Written)) = Len(log)
          BY <3>9, <4>1
        <5>2. Len(log) \in Nat
          BY <3>5
        <5> QED
          BY <5>1, <5>2
      <4> QED
        BY <4>1, <4>3, <4>4 DEF Begins
    <3> QED
      BY <1>c, <2>1, <3>1, <3>2, <3>4, <3>10 DEF Faithful
  <2> QED
    BY <2>3, <2>4
<1>10. CASE SaveAppend
  <2>1. log' = log /\ tail' = tail /\ (reader' = reader \/ reader'.pc \in {"none", "read"})
    BY <1>10 DEF SaveAppend, files, NoReader
  <2>2. (cache' = cache /\ (op.pc = "drop" => op'.pc = "drop")) \/ ~cache'.on
    BY <1>10, KindIs DEF SaveAppend, NoCache, Done, NoOp
  <2>3. op'.pc \in {"stat", "cut"} => op'.pc = op.pc /\ op'.held = op.held
    BY <1>10, <1>t DEF SaveAppend, Done, Then, NoOp, Ops
  <2> QED
    BY <1>g, <2>1, <2>2, <2>3
<1>11. CASE Truncate
  <2>1. op'.pc = "drop" /\ ~cache'.current
    BY <1>11, <1>t DEF Truncate, Then, Ops, Obsolete, Entries
  <2>2. reader'.pc = "none"
    BY <1>11, <1>t DEF Truncate, FileChanges, Readers, Overtaken
  <2> QED
    BY <2>1, <2>2 DEF Faithful
<1>12. CASE TruncateDrop
  <2>1. log' = log /\ tail' = tail /\ (reader' = reader \/ reader'.pc \in {"none", "read"})
    BY <1>12 DEF TruncateDrop, files, NoReader
  <2>2. (cache' = cache /\ (op.pc = "drop" => op'.pc = "drop")) \/ ~cache'.on
    BY <1>12, KindIs DEF TruncateDrop, NoCache
  <2>3. op'.pc \in {"stat", "cut"} => op'.pc = op.pc /\ op'.held = op.held
    BY <1>12, <1>t DEF TruncateDrop, Done, Then, NoOp, Ops
  <2> QED
    BY <1>g, <2>1, <2>2, <2>3
<1>13. CASE TruncateMeta
  <2>1. log' = log /\ tail' = tail /\ (reader' = reader \/ reader'.pc \in {"none", "read"})
    BY <1>13 DEF TruncateMeta, files, NoReader
  <2>2. (cache' = cache /\ (op.pc = "drop" => op'.pc = "drop")) \/ ~cache'.on
    BY <1>13, KindIs DEF TruncateMeta, NoCache
  <2>3. op'.pc \in {"stat", "cut"} => op'.pc = op.pc /\ op'.held = op.held
    BY <1>13, <1>t DEF TruncateMeta, Done, Then, NoOp, Ops
  <2> QED
    BY <1>g, <2>1, <2>2, <2>3
<1>14. CASE SaveTruncate
  <2>1. log' = log /\ tail' = tail /\ (reader' = reader \/ reader'.pc \in {"none", "read"})
    BY <1>14 DEF SaveTruncate, files, NoReader
  <2>2. (cache' = cache /\ (op.pc = "drop" => op'.pc = "drop")) \/ ~cache'.on
    BY <1>14, KindIs DEF SaveTruncate, NoCache, Done, NoOp
  <2>3. op'.pc \in {"stat", "cut"} => op'.pc = op.pc /\ op'.held = op.held
    BY <1>14, <1>t DEF SaveTruncate, Done, Then, NoOp, Ops
  <2> QED
    BY <1>g, <2>1, <2>2, <2>3
<1>15. CASE EditReads
  <2>1. log' = log /\ tail' = tail /\ (reader' = reader \/ reader'.pc \in {"none", "read"})
    BY <1>15 DEF EditReads, files, NoReader
  <2>2. (cache' = cache /\ (op.pc = "drop" => op'.pc = "drop")) \/ ~cache'.on
    BY <1>15, KindIs DEF EditReads, NoCache
  <2>3. op'.pc \in {"stat", "cut"} => op'.pc = op.pc /\ op'.held = op.held
    BY <1>15, <1>t DEF EditReads, Done, Then, NoOp, Ops
  <2> QED
    BY <1>g, <2>1, <2>2, <2>3
<1>16. CASE EditWrites
  <2>1. log' = log /\ tail' = tail /\ (reader' = reader \/ reader'.pc \in {"none", "read"})
    BY <1>16 DEF EditWrites, files, NoReader
  <2>2. (cache' = cache /\ (op.pc = "drop" => op'.pc = "drop")) \/ ~cache'.on
    BY <1>16, KindIs DEF EditWrites, NoCache
  <2>3. op'.pc \in {"stat", "cut"} => op'.pc = op.pc /\ op'.held = op.held
    BY <1>16, <1>t DEF EditWrites, Done, Then, NoOp, Ops
  <2> QED
    BY <1>g, <2>1, <2>2, <2>3
<1>17. CASE ReadStat
  <2>1. log' = log /\ tail' = tail /\ (reader' = reader \/ reader'.pc \in {"none", "read"})
    BY <1>17 DEF ReadStat, files, NoReader
  <2>2. (cache' = cache /\ (op.pc = "drop" => op'.pc = "drop")) \/ ~cache'.on
    BY <1>17, KindIs DEF ReadStat, NoCache
  <2>3. op'.pc \in {"stat", "cut"} => op'.pc = op.pc /\ op'.held = op.held
    BY <1>17, <1>t DEF ReadStat, Done, Then, NoOp, Ops
  <2> QED
    BY <1>g, <2>1, <2>2, <2>3
<1>18. CASE ReadFile
  <2>1. /\ log' = log /\ tail' = tail /\ cache' = cache /\ op' = op /\ reader'.msgs = Records
    BY <1>18, <1>t DEF ReadFile, files, Readers
  <2>2. Records' = Records /\ Begins(Records, Records)
    BY <1>t, <1>u, <2>1, BeginsItself
  <2> QED
    BY <1>c, <2>1, <2>2 DEF Faithful
<1>19. CASE ReadTouch
  <2>1. /\ log' = log /\ tail' = tail /\ op' = op /\ reader.pc = "touch"
        /\ reader'.pc = "none" /\ cache'.msgs = reader.msgs
    BY <1>19 DEF ReadTouch, files, NoReader, Entry
  <2>2. Records' = Records
    BY <1>u, <2>1
  <2> QED
    BY <1>c, <2>1, <2>2 DEF Faithful
<1>20. CASE Evict
  <2>1. log' = log /\ tail' = tail /\ (reader' = reader \/ reader'.pc \in {"none", "read"})
    BY <1>20 DEF Evict, files, NoReader
  <2>2. (cache' = cache /\ (op.pc = "drop" => op'.pc = "drop")) \/ ~cache'.on
    BY <1>20, KindIs DEF Evict, NoCache
  <2>3. op'.pc \in {"stat", "cut"} => op'.pc = op.pc /\ op'.held = op.held
    BY <1>20, <1>t DEF Evict, Done, Then, NoOp, Ops
  <2> QED
    BY <1>g, <2>1, <2>2, <2>3
<1>21. CASE Crash
  <2>1. log' = log /\ tail' = tail /\ (reader' = reader \/ reader'.pc \in {"none", "read"})
    BY <1>21 DEF Crash, files, NoReader
  <2>2. (cache' = cache /\ (op.pc = "drop" => op'.pc = "drop")) \/ ~cache'.on
    BY <1>21, KindIs DEF Crash, NoCache
  <2>3. op'.pc \in {"stat", "cut"} => op'.pc = op.pc /\ op'.held = op.held
    BY <1>21, <1>t DEF Crash, Done, Then, NoOp, Ops
  <2> QED
    BY <1>g, <2>1, <2>2, <2>3
<1> QED
  BY <1>1, <1>2, <1>3, <1>4, <1>5, <1>6, <1>7, <1>8, <1>9, <1>10, <1>11, <1>12, <1>13, <1>14,
      <1>15, <1>16, <1>17, <1>18, <1>19, <1>20, <1>21 DEF Next

\* The inductive invariant holds at first ...
LEMMA LogBegins == Init => LogInv
<1> SUFFICES ASSUME Init PROVE LogInv
  OBVIOUS
<1>e. <<>> \in Seq(Message) /\ <<>> \in Seq(Calls) /\ Len(<<>>) = 0
  BY EmptySeq
<1>m. {MaxMessages, MaxTruncates, MaxEdits, MaxFails, MaxCrashes} \subseteq Nat
  BY SessionLogAssumption
<1>1. TypeOK
  <2>1. Clean \in Tails /\ [leaf |-> 0, settings |-> 0] \in Meta
    BY <1>m DEF Clean, Tails, Message, Meta
  <2>2. NoCache \in Entries /\ NoReader \in Readers /\ ~NoCache.current
    BY <1>e DEF NoCache, NoReader, Entries, Readers
  <2>3. NoOp \in Ops
    BY <1>e, <2>1 DEF NoOp, Ops
  <2>4. NoEdit \in [on : BOOLEAN, meta : Meta]
    BY <2>1 DEF NoEdit
  <2>5. counts \in Limits
    BY <1>m DEF Init, Limits
  <2> QED
    BY <1>e, <2>1, <2>2, <2>3, <2>4, <2>5 DEF Init, TypeOK
<1>2. op.kind = "none" /\ op.pc = "" /\ op.held = <<>>
  BY DEF Init, NoOp
<1>3. tail.state = "clean" /\ ~cache.on /\ cache.msgs = <<>>
  BY DEF Init, Clean, NoCache
<1>4. reader.pc = "none" /\ reader.msgs = <<>>
  BY DEF Init, NoReader
<1>5. log = <<>> /\ chain = <<>> /\ acked = {}
  BY DEF Init
<1>6. Stages
  BY <1>2 DEF Stages
<1>w. Distinct(<<>>) /\ (\A n \in Nat : Within(<<>>, n)) /\ counts.calls = 0
  BY DEF Init, Distinct, Within
<1>7. Numbered
  <2>1. Past(counts.calls)
    <3>1. 0 \in Nat /\ Within(<<>>, 0)
      BY <1>w
    <3>2. /\ Within(log, counts.calls) /\ Within(cache.msgs, counts.calls)
          /\ Within(op.held, counts.calls) /\ Within(reader.msgs, counts.calls)
      BY <1>2, <1>3, <1>4, <1>5, <1>w, <3>1
    <3> QED
      BY <1>3, <3>2 DEF Past
  <2>2. \A i : i \notin DOMAIN <<>>
    OBVIOUS
  <2> QED
    BY <1>2, <1>5, <2>1, <2>2 DEF Numbered
<1>8. Lines
  BY <1>2, <1>3, <1>5 DEF Lines
<1>9. Once
  BY <1>2, <1>3, <1>4, <1>5, <1>w DEF Once
<1>10. Sizes
  BY <1>2, <1>3, <1>4 DEF Sizes
<1>11. Faithful
  BY <1>2, <1>3, <1>4 DEF Faithful
<1> QED
  BY <1>1, <1>6, <1>7, <1>8, <1>9, <1>10, <1>11 DEF LogInv

\* ... and is inductive.
LEMMA LogKeeps == LogInv /\ [Next]_vars => LogInv'
<1> SUFFICES ASSUME LogInv, [Next]_vars PROVE LogInv'
  OBVIOUS
<1>1. CASE Next
  BY <1>1, TypeStep, StageStep, NumberedStep, LinesStep, OnceStep, SizesStep, FaithfulStep
  DEF LogInv
<1>2. CASE UNCHANGED vars
  <2>1. UNCHANGED <<log, tail, meta, cache, chain, op, edit, reader, acked, flaws, counts>>
    BY <1>2 DEF vars, files
  <2>2. Size' = Size /\ Records' = Records /\ LogIds' = LogIds /\ Written' = Written
    BY <2>1 DEF Size, Records, LogIds, Written
  <2>3. TypeOK' /\ Stages'
    BY <2>1, <2>2 DEF LogInv, TypeOK, Stages
  <2>4. Numbered'
    BY <2>1 DEF LogInv, Numbered, Past
  <2>5. Lines'
    BY <2>1, <2>2 DEF LogInv, Lines
  <2>6. Once'
    BY <2>1 DEF LogInv, Once
  <2>7. Sizes'
    BY <2>1, <2>2 DEF LogInv, Sizes
  <2>8. Faithful'
    BY <2>1, <2>2 DEF LogInv, Faithful
  <2> QED
    BY <2>3, <2>4, <2>5, <2>6, <2>7, <2>8 DEF LogInv
<1> QED
  BY <1>1, <1>2

\* If no message is there twice, the file has as many lines as messages.
LEMMA AsManyAsLines == TypeOK /\ Distinct(log) => Cardinality(LogIds) = Len(log)
<1> SUFFICES ASSUME TypeOK, Distinct(log) PROVE Cardinality(LogIds) = Len(log)
  OBVIOUS
<1> DEFINE number == [i \in 1..Len(log) |-> log[i].id]
<1>1. Len(log) \in Nat /\ DOMAIN log = 1..Len(log)
  BY TypesAre
<1>2. number \in [1..Len(log) -> LogIds]
  BY <1>1 DEF LogIds
<1>3. \A i, k \in 1..Len(log) : number[i] = number[k] => i = k
  BY <1>1 DEF Distinct
<1>4. \A id \in LogIds : \E i \in 1..Len(log) : number[i] = id
  BY <1>1 DEF LogIds
<1>5. number \in Bijection(1..Len(log), LogIds)
  BY <1>2, <1>3, <1>4, Fun_IsBij
<1>6. ExistsBijection(1..Len(log), LogIds)
  BY <1>5 DEF ExistsBijection
<1>7. IsFiniteSet(1..Len(log)) /\ Cardinality(1..Len(log)) = Len(log)
  <2>1. 1 \in Int /\ Len(log) \in Int
    BY <1>1
  <2>2. /\ IsFiniteSet(1..Len(log))
        /\ Cardinality(1..Len(log)) = IF 1 > Len(log) THEN 0 ELSE Len(log) - 1 + 1
    BY <2>1, FS_Interval
  <2> QED
    BY <1>1, <2>2
<1> QED
  BY <1>6, <1>7, FS_Bijection

\* AcceptedIsReadable (appendMessageSerialized, repairCorruptTail, truncateMessages of
\* session-store.ts): whatever is torn by failing writes and crashes, no two records share a
\* line, every message whose append has returned can be read, and each is there once unless
\* the history in memory had it twice; and what a truncation writes back is the file's own.
THEOREM AcceptedAreReadable == Spec => []AcceptedIsReadable
<1>1. LogInv => AcceptedIsReadable
  <2> SUFFICES ASSUME LogInv PROVE AcceptedIsReadable
    OBVIOUS
  <2>1. TypeOK /\ Numbered /\ Lines /\ Once
    BY DEF LogInv
  <2>2. \A i \in DOMAIN log : log[i] # Broken
    <3>1. \A i \in DOMAIN log : log[i].id \in 1..counts.calls
      BY <2>1 DEF Numbered, Past, Within
    <3>2. Broken.id = 0
      BY DEF Broken
    <3>3. 0 \notin 1..counts.calls
      BY <2>1, TypesAre
    <3> QED
      BY <3>1, <3>2, <3>3
  <2>3. acked \subseteq LogIds
    BY <2>1 DEF Lines
  <2>4. "doubled" \notin flaws => Cardinality(LogIds) = Len(log)
    BY <2>1, AsManyAsLines DEF Once
  <2>5. op.pc = "cut" /\ flaws \cap {"overtaken", "doubled"} = {} => op.held = Records
    BY DEF LogInv, Faithful
  <2> QED
    BY <2>1, <2>2, <2>3, <2>4, <2>5 DEF AcceptedIsReadable
<1> QED
  BY LogBegins, LogKeeps, <1>1, PTL DEF Spec

\* NothingMissed (touchMessagesCache, noteAppendedMessage): a history in memory that is taken
\* for that of the file lacks no message of it, unless the file got shorter while it was read,
\* and is that of the file, unless a message was added to it twice.
THEOREM CacheMissesNothing == Spec => []NothingMissed
<1>1. LogInv => NothingMissed
  <2> SUFFICES ASSUME LogInv, cache.current, "overtaken" \notin flaws
               PROVE  /\ \A i \in DOMAIN Records : \E k \in DOMAIN cache.msgs : cache.msgs[k] = Records[i]
                      /\ "doubled" \notin flaws => cache.msgs = Records
    BY DEF NothingMissed
  <2>1. TypeOK /\ Lines /\ Once /\ Sizes /\ Faithful
    BY DEF LogInv
  <2>2. cache.on /\ cache.size = Size
    BY <2>1 DEF TypeOK
  <2>3. Covers(Size, cache.msgs, Size, Records)
    BY <2>1, <2>2 DEF Sizes
  <2>4. \A i \in DOMAIN Records : 3 * i <= Size + 1
    BY <2>1, RecordsEnd
  <2>5. \A i \in DOMAIN Records : \E k \in DOMAIN cache.msgs : cache.msgs[k] = Records[i]
    BY <2>3, <2>4 DEF Covers
  <2>6. "doubled" \notin flaws => cache.msgs = Records
    BY <2>1, CurrentIsFile
  <2> QED
    BY <2>5, <2>6
<1> QED
  BY LogBegins, LogKeeps, <1>1, PTL DEF Spec

(***************************************************************************)
(* The tree of messages.                                                   *)
(***************************************************************************)

\* The messages of lists have parents.
LEMMA ListsAre ==
    ASSUME NEW msgs \in Seq(Message)
    PROVE  /\ Len(msgs) \in Nat /\ DOMAIN msgs = 1..Len(msgs)
           /\ \A i \in DOMAIN msgs : msgs[i] \in Message
BY LenProperties, ElementOfSeq

\* What is added to a list.
LEMMA MoreIs ==
    ASSUME NEW msgs \in Seq(Message), NEW m \in Message
    PROVE  /\ Append(msgs, m) \in Seq(Message)
           /\ DOMAIN Append(msgs, m) = 1..(Len(msgs) + 1)
           /\ \A i \in DOMAIN msgs : i \in DOMAIN Append(msgs, m) /\ Append(msgs, m)[i] = msgs[i]
           /\ Append(msgs, m)[Len(msgs) + 1] = m
           /\ \A i \in DOMAIN Append(msgs, m) : i \in DOMAIN msgs \/ i = Len(msgs) + 1
<1>1. Len(msgs) \in Nat /\ DOMAIN msgs = 1..Len(msgs)
  BY ListsAre
<1>2. /\ Append(msgs, m) \in Seq(Message) /\ Len(Append(msgs, m)) = Len(msgs) + 1
      /\ \A i \in 1..Len(msgs) : Append(msgs, m)[i] = msgs[i]
      /\ Append(msgs, m)[Len(msgs) + 1] = m
  BY AppendProperties
<1>3. DOMAIN Append(msgs, m) = 1..(Len(msgs) + 1)
  BY <1>2, LenProperties
<1>4. \A i \in 1..Len(msgs) : i \in 1..(Len(msgs) + 1)
  BY <1>1
<1>5. \A i \in 1..(Len(msgs) + 1) : i \in 1..Len(msgs) \/ i = Len(msgs) + 1
  BY <1>1
<1> QED
  BY <1>1, <1>2, <1>3, <1>4, <1>5

\* A message whose parent is known can be added.
LEMMA TreedMore ==
    ASSUME NEW msgs \in Seq(Message), NEW m \in Message, Treed(msgs), Known(m.parent, msgs)
    PROVE  Treed(Append(msgs, m))
<1>1. /\ Len(msgs) \in Nat /\ DOMAIN msgs = 1..Len(msgs)
  BY ListsAre
<1> DEFINE more == Append(msgs, m)
<1>2. /\ \A i \in DOMAIN msgs : more[i] = msgs[i]
      /\ more[Len(msgs) + 1] = m
      /\ \A i \in DOMAIN more : i \in DOMAIN msgs \/ i = Len(msgs) + 1
  BY MoreIs
<1> HIDE DEF more
<1>3. ASSUME NEW i \in DOMAIN msgs
      PROVE  more[i].parent = 0 \/ \E k \in 1..(i - 1) : more[k].id = more[i].parent
  <2>1. more[i] = msgs[i]
    BY <1>2
  <2>2. CASE msgs[i].parent # 0
    <3>1. PICK k \in 1..(i - 1) : msgs[k].id = msgs[i].parent
      BY <2>2 DEF Treed
    <3>2. k \in DOMAIN msgs
      BY <1>1
    <3> QED
      BY <1>2, <2>1, <3>1, <3>2
  <2> QED
    BY <2>1, <2>2
<1>4. more[Len(msgs) + 1].parent = 0 \/ \E k \in 1..(Len(msgs) + 1 - 1) : more[k].id = more[Len(msgs) + 1].parent
  <2>1. CASE m.parent # 0
    <3>1. PICK k \in DOMAIN msgs : msgs[k].id = m.parent
      BY <2>1 DEF Known
    <3>2. k \in 1..(Len(msgs) + 1 - 1)
      BY <1>1
    <3> QED
      BY <1>2, <3>1, <3>2
  <2> QED
    BY <1>2, <2>1
<1>5. Treed(more)
  BY <1>2, <1>3, <1>4 DEF Treed
<1> QED
  BY <1>5 DEF more

\* A message whose parent is behind all that have been answered can be added.
LEMMA ChainedMore ==
    ASSUME NEW msgs \in Seq(Message), NEW m \in Message, NEW done,
           Chained(msgs, done), Behind(m.parent, msgs, done)
    PROVE  Chained(Append(msgs, m), done)
<1>1. /\ Len(msgs) \in Nat /\ DOMAIN msgs = 1..Len(msgs)
  BY ListsAre
<1> DEFINE more == Append(msgs, m)
<1>2. /\ \A i \in DOMAIN msgs : more[i] = msgs[i]
      /\ more[Len(msgs) + 1] = m
      /\ \A i \in DOMAIN more : i \in DOMAIN msgs \/ i = Len(msgs) + 1
      /\ DOMAIN more = 1..(Len(msgs) + 1)
  BY MoreIs
<1> HIDE DEF more
<1>3. ASSUME NEW i \in DOMAIN more, NEW k \in DOMAIN more, k < i, more[k].id \in done
      PROVE  \E j \in k..(i - 1) : more[j].id = more[i].parent
  <2>1. k \in DOMAIN msgs /\ k \in Nat
    BY <1>1, <1>2, <1>3
  <2>2. msgs[k].id \in done
    BY <1>2, <1>3, <2>1
  <2>3. CASE i \in DOMAIN msgs
    <3>1. PICK j \in k..(i - 1) : msgs[j].id = msgs[i].parent
      BY <1>3, <2>1, <2>2, <2>3 DEF Chained
    <3>2. j \in DOMAIN msgs
      BY <1>1, <2>1, <2>3
    <3> QED
      BY <1>2, <2>3, <3>1, <3>2
  <2>4. CASE i = Len(msgs) + 1
    <3>1. PICK j \in DOMAIN msgs : k <= j /\ msgs[j].id = m.parent
      BY <2>1, <2>2 DEF Behind
    <3>2. j \in k..(i - 1)
      BY <1>1, <2>1, <2>4, <3>1
    <3> QED
      BY <1>2, <2>4, <3>1, <3>2
  <2> QED
    BY <1>2, <2>3, <2>4
<1>4. Chained(more, done)
  BY <1>3 DEF Chained
<1> QED
  BY <1>4 DEF more

\* Adding a message that is not answered leaves what is known, and what is behind the others.
LEMMA KnownMore ==
    ASSUME NEW msgs \in Seq(Message), NEW m \in Message, NEW id, Known(id, msgs)
    PROVE  Known(id, Append(msgs, m))
BY MoreIs DEF Known

LEMMA BehindMore ==
    ASSUME NEW msgs \in Seq(Message), NEW m \in Message, NEW id, NEW done,
           Behind(id, msgs, done), m.id \notin done
    PROVE  Behind(id, Append(msgs, m), done)
<1> DEFINE more == Append(msgs, m)
<1>1. /\ \A i \in DOMAIN msgs : i \in DOMAIN more /\ more[i] = msgs[i]
      /\ more[Len(msgs) + 1] = m
      /\ \A i \in DOMAIN more : i \in DOMAIN msgs \/ i = Len(msgs) + 1
  BY MoreIs
<1> HIDE DEF more
<1>2. ASSUME NEW k \in DOMAIN more, more[k].id \in done
      PROVE  \E j \in DOMAIN more : k <= j /\ more[j].id = id
  <2>1. k \in DOMAIN msgs /\ msgs[k].id \in done
    BY <1>1, <1>2
  <2>2. PICK j \in DOMAIN msgs : k <= j /\ msgs[j].id = id
    BY <2>1 DEF Behind
  <2> QED
    BY <1>1, <2>2
<1>3. Behind(id, more, done)
  BY <1>2 DEF Behind
<1> QED
  BY <1>3 DEF more

\* The first messages of a tree are one.
LEMMA FirstTreed ==
    ASSUME NEW msgs \in Seq(Message), NEW n \in Nat, NEW done, NEW fewer, fewer \subseteq done
    PROVE  LET kept == SubSeq(msgs, 1, IF n < Len(msgs) THEN n ELSE Len(msgs))
           IN  /\ Treed(msgs) => Treed(kept)
               /\ Chained(msgs, done) => Chained(kept, fewer)
<1> DEFINE kept == SubSeq(msgs, 1, IF n < Len(msgs) THEN n ELSE Len(msgs))
<1>1. /\ kept \in Seq(Message) /\ DOMAIN kept = 1..Len(kept)
      /\ \A i \in DOMAIN kept : i \in DOMAIN msgs /\ kept[i] = msgs[i]
  BY FirstOnes
<1> HIDE DEF kept
<1>2. Len(kept) \in Nat
  BY <1>1, ListsAre
<1>3. Treed(msgs) => Treed(kept)
  <2> SUFFICES ASSUME Treed(msgs), NEW i \in DOMAIN kept, kept[i].parent # 0
               PROVE  \E k \in 1..(i - 1) : kept[k].id = kept[i].parent
    BY DEF Treed
  <2>1. i \in DOMAIN msgs /\ kept[i] = msgs[i]
    BY <1>1
  <2>2. PICK k \in 1..(i - 1) : msgs[k].id = msgs[i].parent
    BY <2>1 DEF Treed
  <2>3. k \in DOMAIN kept
    BY <1>1, <1>2
  <2> QED
    BY <1>1, <2>1, <2>2, <2>3
<1>4. Chained(msgs, done) => Chained(kept, fewer)
  <2> SUFFICES ASSUME Chained(msgs, done), NEW i \in DOMAIN kept, NEW k \in DOMAIN kept,
                      k < i, kept[k].id \in fewer
               PROVE  \E j \in k..(i - 1) : kept[j].id = kept[i].parent
    BY DEF Chained
  <2>1. i \in DOMAIN msgs /\ k \in DOMAIN msgs /\ kept[i] = msgs[i] /\ kept[k] = msgs[k]
    BY <1>1
  <2>2. PICK j \in k..(i - 1) : msgs[j].id = msgs[i].parent
    BY <2>1 DEF Chained
  <2>3. j \in DOMAIN kept
    BY <1>1, <1>2
  <2> QED
    BY <1>1, <2>1, <2>2, <2>3
<1> QED
  BY <1>3, <1>4 DEF kept

\* The steps that leave files, settings, calls and answers alone, and those that do not.
LEMMA StepsAre ==
    ASSUME TypeOK, Stages, Next
    PROVE  \/ Begin \/ Repair \/ StartWriting \/ Write \/ Note \/ NoteStat \/ SaveAppend
           \/ Truncate \/ TruncateDrop \/ TruncateMeta \/ SaveTruncate
           \/ EditReads \/ EditWrites \/ Crash
           \/ /\ UNCHANGED <<log, tail, meta, edit, acked, flaws>>
              /\ op' = op \/ (op' = NoOp /\ op.pc = "writing" /\ op.kind = "append")
<1>1. CASE CallAppend \/ CallTruncate
  BY <1>1 DEF CallAppend, CallTruncate, files
<1>2. CASE WriteFails
  BY <1>2, KindIs DEF WriteFails, Done, files
<1>3. CASE ReadStat \/ ReadFile \/ ReadTouch \/ Evict
  BY <1>3 DEF ReadStat, ReadFile, ReadTouch, Evict, files
<1> QED
  BY <1>1, <1>2, <1>3 DEF Next

\* A change of the settings stays fresh.
LEMMA FreshStep == LogInv /\ Fresh /\ Next => Fresh'
<1> SUFFICES ASSUME LogInv, Fresh, Next, "overlap" \notin flaws', edit'.on
             PROVE  op'.pc \in {"", "cut", "drop", "leaf"} /\ edit'.meta.leaf = meta'.leaf
  BY DEF Fresh
<1>t. TypeOK /\ Stages /\ op \in Ops
  BY DEF LogInv, TypeOK
<1>f. "overlap" \notin flaws
  BY <1>t, FlawsStay
<1>o. edit.on => op.pc \in {"", "cut", "drop", "leaf"} /\ edit.meta.leaf = meta.leaf
  BY <1>f DEF Fresh
<1>1. CASE Begin
  BY <1>1 DEF Begin
<1>2. CASE Repair \/ StartWriting \/ Write \/ Note \/ NoteStat
  BY <1>2, <1>o DEF Repair, StartWriting, Write, Note, NoteStat, files
<1>3. CASE SaveAppend \/ SaveTruncate
  BY <1>3, <1>o DEF SaveAppend, SaveTruncate, files
<1>4. CASE Truncate
  BY <1>4, <1>o, <1>t DEF Truncate, Then, Ops
<1>5. CASE TruncateDrop
  BY <1>5, <1>o, <1>t DEF TruncateDrop, files, Then, Ops
<1>6. CASE TruncateMeta
  BY <1>6 DEF TruncateMeta
<1>7. CASE EditReads
  BY <1>7 DEF EditReads, files
<1>8. CASE EditWrites
  BY <1>8 DEF EditWrites, NoEdit
<1>9. CASE Crash
  BY <1>9 DEF Crash, NoEdit
<1>10. CASE /\ UNCHANGED <<log, tail, meta, edit, acked, flaws>>
            /\ op' = op \/ (op' = NoOp /\ op.pc = "writing" /\ op.kind = "append")
  BY <1>10, <1>o
<1> QED
  BY <1>t, <1>1, <1>2, <1>3, <1>4, <1>5, <1>6, <1>7, <1>8, <1>9, <1>10, StepsAre

\* The message whose append is about to be answered stays the last line.
LEMMA AtEndStep == LogInv /\ AtEnd /\ Next => AtEnd'
<1> SUFFICES ASSUME LogInv, AtEnd, Next, op'.kind = "append", op'.pc = "save"
             PROVE  tail'.state = "clean" /\ Len(log') > 0 /\ log'[Len(log')].id = op'.id
  BY DEF AtEnd
<1>t. TypeOK /\ Stages /\ Numbered /\ Lines /\ op \in Ops
  BY DEF LogInv, TypeOK
<1>1. CASE Begin
  BY <1>1 DEF Begin, NoOp
<1>2. CASE Repair \/ StartWriting \/ Write
  BY <1>2, <1>t DEF Repair, StartWriting, Write, Then, Ops
<1>3. CASE Note \/ NoteStat
  <2>1. op.pc \in {"note", "stat"} /\ log' = log /\ tail' = tail /\ op'.id = op.id
    BY <1>3, <1>t DEF Note, NoteStat, files, Then, Ops
  <2>2. op.kind = "append" /\ Written.id = op.id
    BY <1>t, <2>1, KindIs, WrittenIs
  <2> QED
    BY <1>t, <2>1, <2>2 DEF Lines
<1>n. op' # NoOp
  <2>1. NoOp.kind = "none"
    BY DEF NoOp
  <2> QED
    BY <2>1
<1>4. CASE SaveAppend \/ SaveTruncate \/ Crash
  BY <1>4, <1>n DEF SaveAppend, SaveTruncate, Crash, Done
<1>5. CASE Truncate \/ TruncateDrop
  BY <1>5, <1>t DEF Truncate, TruncateDrop, Then, Ops
<1>6. CASE TruncateMeta
  <2>1. op.kind = "truncate"
    BY <1>6, <1>t, KindIs DEF TruncateMeta
  <2> QED
    BY <1>6, <1>t, <2>1 DEF TruncateMeta, Ops
<1>7. CASE EditReads \/ EditWrites
  BY <1>7 DEF EditReads, EditWrites, AtEnd, files
<1>8. CASE /\ UNCHANGED <<log, tail, meta, edit, acked, flaws>>
           /\ op' = op \/ (op' = NoOp /\ op.pc = "writing" /\ op.kind = "append")
  BY <1>8, <1>n DEF AtEnd
<1> QED
  BY <1>t, <1>1, <1>2, <1>3, <1>4, <1>5, <1>6, <1>7, <1>8, StepsAre

\* What an append does to the file, and to what is read of it.
LEMMA FileGrows ==
    ASSUME LogInv
    PROVE  /\ Repair => log' = Records /\ Records' = Records
           /\ op.pc = "write" => Records = log
           /\ StartWriting => log' = log /\ Records' \in {log, Append(log, Written)}
           /\ Write => log' = Append(log, Written) /\ Records' = Append(log, Written)
<1>t. TypeOK /\ Lines /\ tail \in Tails
  BY DEF LogInv, TypeOK
<1>1. ASSUME Repair PROVE log' = Records /\ Records' = Records
  <2>1. CASE NeedsRepair
    <3>1. log' = Records /\ tail'.state = "clean"
      BY <1>1, <2>1 DEF Repair, Clean
    <3>2. Records' = log'
      BY <3>1 DEF Records
    <3> QED
      BY <3>1, <3>2
  <2>2. CASE ~NeedsRepair
    BY <1>1, <2>2 DEF Repair, NeedsRepair, Records
  <2> QED
    BY <2>1, <2>2
<1>2. ASSUME op.pc = "write" PROVE Records = log
  BY <1>t, <1>2 DEF Lines, Records
<1>3. ASSUME StartWriting PROVE log' = log /\ Records' \in {log, Append(log, Written)}
  <2>1. op.pc = "write" /\ tail.state = "clean"
    BY <1>t, <1>3 DEF StartWriting, Lines
  <2>2. log' = log /\ tail'.line = Written
    BY <1>3, <2>1 DEF StartWriting
  <2> QED
    BY <2>2 DEF Records
<1>4. ASSUME Write PROVE log' = Append(log, Written) /\ Records' = Append(log, Written)
  <2>1. tail.line = Written
    BY <1>t, <1>4 DEF Write, Lines
  <2>2. log' = Append(log, Written) /\ tail'.state = "clean"
    BY <1>4, <2>1 DEF Write, Clean
  <2> QED
    BY <2>2 DEF Records
<1> QED
  BY <1>1, <1>2, <1>3, <1>4

\* A torn line has not been answered.
LEMMA TornIsNew ==
    ASSUME LogInv
    PROVE  /\ tail.state # "clean" => tail.line \in Message /\ tail.line.id \notin acked
           /\ op.pc = "writing" => Written \in Message /\ Written.id \notin acked
<1>t. TypeOK /\ Lines /\ tail.line \in Message
  BY TypesAre DEF LogInv
<1>1. tail.state # "clean" => tail.line.id \notin acked
  BY <1>t DEF Lines
<1>2. op.pc = "writing" => Written = tail.line /\ tail.state # "clean"
  BY <1>t DEF Lines
<1> QED
  BY <1>t, <1>1, <1>2

\* What is known in the lines of the file, and behind the others there, is so in what is read
\* of it.
LEMMA InRecords ==
    ASSUME LogInv, NEW id
    PROVE  /\ Known(id, log) => Known(id, Records)
           /\ Behind(id, log, acked) => Behind(id, Records, acked)
<1>t. log \in Seq(Message)
  BY TypesAre DEF LogInv
<1>1. CASE tail.state = "open"
  <2>1. tail.line \in Message /\ tail.line.id \notin acked
    BY <1>1, TornIsNew
  <2> QED
    BY <1>1, <1>t, <2>1, KnownMore, BehindMore DEF Records
<1>2. CASE tail.state # "open"
  BY <1>2 DEF Records
<1> QED
  BY <1>1, <1>2

\* What has happened stays.
LEMMA WholeWas ==
    ASSUME LogInv, Next
    PROVE  (Whole' => Whole) /\ (flaws' = {} => flaws = {} /\ Whole')
<1>1. flaws \subseteq flaws'
  BY FlawsStay DEF LogInv
<1> QED
  BY <1>1 DEF Whole

\* The leaf stays where it belongs.
LEMMA LeafStep == LogInv /\ Fresh /\ AtEnd /\ Leaf /\ Next => Leaf'
<1> SUFFICES ASSUME LogInv, Fresh, AtEnd, Leaf, Next, ~Halfway'
             PROVE  /\ Whole' => Known(meta'.leaf, log')
                    /\ flaws' = {} => Behind(meta'.leaf, log', acked')
  BY DEF Leaf
<1>t. /\ TypeOK /\ Stages /\ op \in Ops /\ log \in Seq(Message) /\ Records \in Seq(Message)
      /\ Len(log) \in Nat /\ DOMAIN log = 1..Len(log)
  BY TypesAre, RecordsAre DEF LogInv, TypeOK
<1>w. (Whole' => Whole) /\ (flaws' = {} => flaws = {} /\ Whole')
  BY WholeWas
<1>g. ASSUME ~Halfway, meta'.leaf = meta.leaf, acked' = acked,
             \/ log' = log \/ log' = Records
             \/ op.pc = "writing" /\ log' = Append(log, Written)
      PROVE  /\ Whole' => Known(meta'.leaf, log')
             /\ flaws' = {} => Behind(meta'.leaf, log', acked')
  <2>1. /\ Whole' => Known(meta.leaf, log)
        /\ flaws' = {} => Behind(meta.leaf, log, acked)
    BY <1>g, <1>w DEF Leaf
  <2>2. CASE log' = log
    BY <1>g, <2>1, <2>2
  <2>3. CASE log' = Records
    BY <1>g, <2>1, <2>3, InRecords
  <2>4. CASE op.pc = "writing" /\ log' = Append(log, Written)
    BY <1>g, <1>t, <2>1, <2>4, TornIsNew, KnownMore, BehindMore
  <2> QED
    BY <1>g, <2>2, <2>3, <2>4
<1>1. CASE Begin
  <2>1. op.kind = "none" /\ op.pc = ""
    <3>1. op.kind = "none" /\ op = NoOp
      BY <1>1, <1>t DEF Begin, Turn, TypeOK
    <3> QED
      BY <3>1 DEF NoOp
  <2>2. ~Halfway
    BY <2>1 DEF Halfway
  <2> QED
    BY <1>1, <1>g, <2>2 DEF Begin, files
<1>2. CASE Repair \/ StartWriting \/ Write \/ Note \/ NoteStat
  <2>1. op.pc \in {"repair", "write", "writing", "note", "stat"}
    BY <1>2 DEF Repair, StartWriting, Write, Note, NoteStat
  <2>2. ~Halfway
    BY <1>t, <2>1, KindIs DEF Halfway
  <2>3. meta' = meta /\ acked' = acked
    BY <1>2 DEF Repair, StartWriting, Write, Note, NoteStat, files
  <2>4. log' \in {log, Records} \/ (op.pc = "writing" /\ log' = Append(log, Written))
    <3>1. Note \/ NoteStat => log' = log
      BY DEF Note, NoteStat, files
    <3>2. Write => op.pc = "writing"
      BY DEF Write
    <3> QED
      BY <1>2, <3>1, <3>2, FileGrows
  <2> QED
    BY <1>g, <2>2, <2>3, <2>4
<1>3. CASE SaveAppend
  <2>1. Len(log) > 0 /\ log[Len(log)].id = op.id
    BY <1>3 DEF SaveAppend, AtEnd
  <2>2. log' = log /\ meta'.leaf = op.id
    BY <1>3, <1>t DEF SaveAppend, Ops, Meta
  <2>3. Len(log) \in DOMAIN log /\ \A k \in DOMAIN log : k <= Len(log)
    BY <1>t, <2>1
  <2>4. Known(meta'.leaf, log) /\ Behind(meta'.leaf, log, acked')
    BY <2>1, <2>2, <2>3 DEF Known, Behind
  <2> QED
    BY <2>2, <2>4
<1>4. CASE Truncate \/ TruncateDrop
  BY <1>4, <1>t DEF Truncate, TruncateDrop, Then, Ops, Halfway
<1>5. CASE TruncateMeta
  <2>1. op.kind = "truncate"
    BY <1>5, <1>t, KindIs DEF TruncateMeta
  <2> QED
    BY <1>5, <1>t, <2>1 DEF TruncateMeta, Ops, Halfway
<1>6. CASE SaveTruncate
  <2>1. log' = log /\ meta'.leaf = NewLeaf /\ acked' = acked
    BY <1>6, <1>t DEF SaveTruncate, Ops, Meta
  <2>2. CASE log = <<>>
    <3>1. DOMAIN log = {} /\ NewLeaf = 0
      BY <2>2 DEF NewLeaf
    <3> QED
      BY <2>1, <3>1 DEF Known, Behind
  <2>3. CASE log # <<>>
    <3>1. Len(log) > 0
      BY <1>t, <2>3, EmptySeq
    <3>2. Len(log) \in DOMAIN log /\ \A k \in DOMAIN log : k <= Len(log)
      BY <1>t, <3>1
    <3>3. NewLeaf = log[Len(log)].id
      BY <2>3 DEF NewLeaf
    <3> QED
      BY <2>1, <3>2, <3>3 DEF Known, Behind
  <2> QED
    BY <2>2, <2>3
<1>7. CASE EditReads
  BY <1>7, <1>g DEF EditReads, Halfway, files
<1>8. CASE EditWrites
  <2>1. /\ edit.on /\ op' = op /\ log' = log /\ acked' = acked /\ flaws' = flaws
        /\ meta'.leaf = edit.meta.leaf
    BY <1>8, <1>t DEF EditWrites, TypeOK, Meta
  <2>2. ~Halfway
    BY <2>1 DEF Halfway
  <2>3. Whole' \/ flaws' = {} => meta'.leaf = meta.leaf
    BY <2>1 DEF Fresh, Whole
  <2> QED
    BY <1>g, <2>1, <2>2, <2>3
<1>9. CASE Crash
  <2>1. log' = log /\ meta' = meta /\ acked' = acked
    BY <1>9 DEF Crash, files
  <2>2. CASE Halfway
    <3>1. op.kind = "truncate" /\ op.pc # "cut"
      BY <1>t, <2>2, KindIs DEF Halfway
    <3>2. "halfTruncated" \in flaws'
      BY <1>9, <3>1 DEF Crash
    <3> QED
      BY <3>2 DEF Whole
  <2> QED
    BY <1>g, <2>1, <2>2
<1>10. CASE /\ UNCHANGED <<log, tail, meta, edit, acked, flaws>>
            /\ op' = op \/ (op' = NoOp /\ op.pc = "writing" /\ op.kind = "append")
  <2>1. ~Halfway
    BY <1>10 DEF Halfway
  <2> QED
    BY <1>10, <1>g, <2>1
<1> QED
  BY <1>t, <1>1, <1>2, <1>3, <1>4, <1>5, <1>6, <1>7, <1>8, <1>9, <1>10, StepsAre

\* The parent of the message that is to be written stays where it belongs.
LEMMA ParentStep == LogInv /\ Leaf /\ Parent /\ Copies /\ Next => Parent'
<1> SUFFICES ASSUME LogInv, Leaf, Parent, Copies, Next PROVE Parent'
  OBVIOUS
<1>t. /\ TypeOK /\ Stages /\ Lines /\ op \in Ops /\ log \in Seq(Message)
      /\ Records \in Seq(Message) /\ DOMAIN Records = 1..Len(Records) /\ Len(Records) \in Nat
      /\ DOMAIN log = 1..Len(log) /\ Len(log) \in Nat
  BY TypesAre, RecordsAre, ListsAre DEF LogInv, TypeOK
<1>w. (Whole' => Whole) /\ (flaws' = {} => flaws = {} /\ Whole')
  BY WholeWas
<1>u. log' = log /\ tail' = tail => Records' = Records
  BY DEF Records
<1>g. ASSUME op'.pc \notin {"repair", "write", "writing"} PROVE Parent'
  BY <1>g DEF Parent
<1>h. ASSUME op' = op, acked' = acked, log' = log, tail' = tail PROVE Parent'
  BY <1>h, <1>w, <1>u DEF Parent
<1>n. NoOp.pc = ""
  BY DEF NoOp
<1>1. CASE Begin
  <2> SUFFICES ASSUME op'.pc = "repair"
               PROVE  /\ Whole' => Known(op'.parent, Records')
                      /\ flaws' = {} => Behind(op'.parent, Records', acked')
    BY <1>1, <1>g DEF Begin, Parent
  <2>1. op.kind = "none" /\ op.pc = ""
    <3>1. op.kind = "none" /\ op = NoOp
      BY <1>1, <1>t DEF Begin, Turn, TypeOK
    <3> QED
      BY <1>n, <3>1
  <2>2. log' = log /\ tail' = tail /\ acked' = acked /\ Records' = Records
    BY <1>1, <1>u DEF Begin, files
  <2>3. /\ Whole' => Known(meta.leaf, log)
        /\ flaws' = {} => Behind(meta.leaf, log, acked)
    BY <1>w, <2>1 DEF Leaf, Halfway
  <2>4. CASE meta.leaf # 0
    <3>1. op'.parent = meta.leaf
      BY <1>1, <2>4 DEF Begin, NoOp
    <3> QED
      BY <2>2, <2>3, <3>1, InRecords
  <2>5. CASE meta.leaf = 0
    <3> DEFINE last == IF Loaded = <<>> THEN 0 ELSE Loaded[Len(Loaded)].id
    <3>1. op'.parent = last
      BY <1>1, <2>5 DEF Begin, NoOp
    <3>2. Whole' => Known(last, Records)
      <4> SUFFICES ASSUME Whole', Loaded # <<>> PROVE Known(last, Records)
        BY DEF Known
      <4>1. Loaded \in Seq(Message) /\ DOMAIN Loaded = 1..Len(Loaded) /\ Len(Loaded) \in Nat
        BY <1>t, LoadedIs, ListsAre
      <4>2. Len(Loaded) \in DOMAIN Loaded
        BY <4>1, EmptySeq
      <4>3. Among(Loaded, Records)
        <5>1. CASE cache.current
          <6>1. cache.on /\ op.pc # "drop"
            BY <1>t, <2>1, <5>1 DEF TypeOK
          <6> QED
            BY <1>w, <5>1, <6>1 DEF Loaded, Copies
        <5>2. CASE ~cache.current
          BY <5>2 DEF Loaded, Among
        <5> QED
          BY <5>1, <5>2
      <4> QED
        BY <4>2, <4>3 DEF Among, Known
    <3>3. flaws' = {} => Behind(last, Records, acked)
      <4> SUFFICES ASSUME flaws' = {} PROVE Behind(last, Records, acked)
        OBVIOUS
      <4>1. \A k \in DOMAIN log : log[k].id # 0
        <5>1. \A k \in DOMAIN log : log[k].id \in 1..counts.calls
          BY DEF LogInv, Numbered, Past, Within
        <5>2. 0 \notin 1..counts.calls
          BY <1>t, TypesAre
        <5> QED
          BY <5>1, <5>2
      <4>2. \A k \in DOMAIN log : log[k].id \notin acked
        BY <2>3, <2>5, <4>1 DEF Behind
      <4>3. Behind(last, log, acked)
        BY <4>2 DEF Behind
      <4> QED
        BY <4>3, InRecords
    <3> QED
      BY <2>2, <3>1, <3>2, <3>3
  <2> QED
    BY <2>4, <2>5
<1>2. CASE Repair
  <2>1. op.pc = "repair" /\ op'.pc = "write" /\ op'.parent = op.parent /\ acked' = acked
    BY <1>2, <1>t DEF Repair, Then, Ops
  <2>2. log' = Records
    BY <1>2, FileGrows
  <2> QED
    BY <1>w, <2>1, <2>2 DEF Parent
<1>3. CASE StartWriting
  <2>1. op.pc = "write" /\ op'.pc = "writing" /\ op'.parent = op.parent /\ acked' = acked
    BY <1>3, <1>t DEF StartWriting, Then, Ops
  <2>2. log' = log
    BY <1>3, FileGrows
  <2> QED
    BY <1>w, <2>1, <2>2 DEF Parent
<1>4. CASE Write \/ Truncate \/ TruncateDrop
  BY <1>4, <1>g, <1>t DEF Write, Truncate, TruncateDrop, Then, Ops
<1>5. CASE Note \/ NoteStat \/ TruncateMeta
  <2>1. op'.pc \in {"stat", "save"}
    BY <1>5, <1>t DEF Note, NoteStat, TruncateMeta, Then, Ops
  <2> QED
    BY <1>g, <2>1
<1>6. CASE SaveAppend \/ SaveTruncate \/ Crash
  BY <1>6, <1>g, <1>n DEF SaveAppend, SaveTruncate, Crash, Done
<1>7. CASE EditReads \/ EditWrites
  BY <1>7, <1>h DEF EditReads, EditWrites, files
<1>8. CASE /\ UNCHANGED <<log, tail, meta, edit, acked, flaws>>
           /\ op' = op \/ (op' = NoOp /\ op.pc = "writing" /\ op.kind = "append")
  BY <1>8, <1>g, <1>h, <1>n
<1> QED
  BY <1>t, <1>1, <1>2, <1>3, <1>4, <1>5, <1>6, <1>7, <1>8, StepsAre

\* The file keeps its tree.
LEMMA ShapeStep == LogInv /\ AtEnd /\ Parent /\ Shape /\ Copies /\ Next => Shape'
<1> SUFFICES ASSUME LogInv, AtEnd, Parent, Shape, Copies, Next
             PROVE  /\ Whole' => Treed(Records')
                    /\ flaws' = {} => Chained(Records', acked')
  BY DEF Shape
<1>t. /\ TypeOK /\ Stages /\ Lines /\ op \in Ops /\ log \in Seq(Message)
      /\ Records \in Seq(Message) /\ op.held \in Seq(Message)
      /\ DOMAIN log = 1..Len(log) /\ Len(log) \in Nat
  BY TypesAre, RecordsAre, ListsAre DEF LogInv, TypeOK
<1>w. (Whole' => Whole) /\ (flaws' = {} => flaws = {} /\ Whole')
  BY WholeWas
<1>u. log' = log /\ tail' = tail => Records' = Records
  BY DEF Records
<1>c. /\ Whole' => Treed(Records)
      /\ flaws' = {} => Chained(Records, acked)
  BY <1>w DEF Shape
<1>g. ASSUME acked' = acked, Records' = Records
      PROVE  /\ Whole' => Treed(Records')
             /\ flaws' = {} => Chained(Records', acked')
  BY <1>c, <1>g
<1>h. ASSUME op.pc \in {"write", "writing"}, Treed(log) \/ ~Whole', Chained(log, acked) \/ flaws' # {}
      PROVE  /\ Whole' => Treed(Append(log, Written))
             /\ flaws' = {} => Chained(Append(log, Written), acked)
  <2>1. Written \in Message /\ Written.parent = op.parent
    BY <1>h, <1>t, KindIs, WrittenIs DEF LogInv, Written
  <2>2. /\ Whole' => Known(op.parent, log)
        /\ flaws' = {} => Behind(op.parent, log, acked)
    BY <1>h, <1>w DEF Parent
  <2> QED
    BY <1>h, <1>t, <2>1, <2>2, TreedMore, ChainedMore
<1>1. CASE Begin \/ Note \/ NoteStat \/ EditReads \/ EditWrites
  BY <1>1, <1>g, <1>u DEF Begin, Note, NoteStat, EditReads, EditWrites, files
<1>2. CASE TruncateDrop \/ TruncateMeta \/ SaveTruncate \/ Crash
  BY <1>2, <1>g, <1>u DEF TruncateDrop, TruncateMeta, SaveTruncate, Crash, files
<1>3. CASE Repair
  <2>1. acked' = acked
    BY <1>3 DEF Repair
  <2> QED
    BY <1>3, <1>g, <2>1, FileGrows
<1>4. CASE StartWriting
  <2>1. op.pc = "write" /\ acked' = acked
    BY <1>4 DEF StartWriting
  <2>2. Records = log /\ Records' \in {log, Append(log, Written)}
    BY <1>4, <2>1, FileGrows
  <2>3. /\ Whole' => Treed(Append(log, Written))
        /\ flaws' = {} => Chained(Append(log, Written), acked)
    BY <1>c, <1>h, <2>1, <2>2
  <2> QED
    BY <1>c, <2>1, <2>2, <2>3
<1>5. CASE Write
  <2>1. op.pc = "writing" /\ acked' = acked
    BY <1>5 DEF Write
  <2>2. Records' = Append(log, Written)
    BY <1>5, FileGrows
  <2>3. tail.line = Written /\ tail.state \in {"cut", "open"}
    BY <1>t, <2>1 DEF Lines
  <2>4. CASE tail.state = "open"
    <3>1. Records = Append(log, Written)
      BY <2>3, <2>4 DEF Records
    <3> QED
      BY <1>c, <2>1, <2>2, <3>1
  <2>5. CASE tail.state = "cut"
    <3>1. Records = log
      BY <2>5 DEF Records
    <3> QED
      BY <1>c, <1>h, <2>1, <2>2, <3>1
  <2> QED
    BY <2>3, <2>4, <2>5
<1>6. CASE SaveAppend
  <2>1. /\ log' = log /\ tail' = tail /\ acked' = acked \cup {op.id}
        /\ op.kind = "append" /\ op.pc = "save" /\ flaws' = flaws
    BY <1>6 DEF SaveAppend
  <2>2. tail.state = "clean" /\ Len(log) > 0 /\ log[Len(log)].id = op.id
    BY <2>1 DEF AtEnd
  <2>3. Records = log /\ Records' = log
    BY <1>u, <2>1, <2>2 DEF Records
  <2>4. flaws' = {} => Chained(log, acked')
    <3> SUFFICES ASSUME flaws' = {}, NEW i \in DOMAIN log, NEW k \in DOMAIN log,
                        k < i, log[k].id \in acked'
                 PROVE  \E j \in k..(i - 1) : log[j].id = log[i].parent
      BY DEF Chained
    <3>1. Distinct(log)
      BY <2>1 DEF LogInv, Once
    <3>2. k # Len(log) /\ Len(log) \in DOMAIN log
      BY <1>t, <2>2
    <3>3. log[k].id # op.id
      BY <2>2, <3>1, <3>2 DEF Distinct
    <3>4. log[k].id \in acked
      BY <2>1, <3>3
    <3> QED
      BY <1>c, <2>3, <3>4 DEF Chained
  <2> QED
    BY <1>c, <2>3, <2>4
<1>7. CASE Truncate
  <2> DEFINE kept == SubSeq(op.held, 1, IF op.id < Len(op.held) THEN op.id ELSE Len(op.held))
  <2>1. op.pc = "cut" /\ log' = kept /\ acked' \subseteq acked /\ tail'.state = "clean"
    BY <1>7 DEF Truncate, Clean
  <2>2. Records' = kept
    BY <2>1 DEF Records
  <2>3. Whole' => Treed(op.held)
    BY <1>w, <2>1 DEF Copies
  <2>4. flaws' = {} => op.held = Records
    BY <1>w, <2>1 DEF LogInv, Faithful
  <2>5. op.id \in Nat
    BY <1>t, TypesAre
  <2>6. /\ Treed(op.held) => Treed(kept)
        /\ Chained(op.held, acked) => Chained(kept, acked')
    BY <1>t, <2>1, <2>5, FirstTreed
  <2> QED
    BY <1>c, <2>2, <2>3, <2>4, <2>6
<1>8. CASE /\ UNCHANGED <<log, tail, meta, edit, acked, flaws>>
           /\ op' = op \/ (op' = NoOp /\ op.pc = "writing" /\ op.kind = "append")
  BY <1>8, <1>g, <1>u
<1> QED
  BY <1>t, <1>1, <1>2, <1>3, <1>4, <1>5, <1>6, <1>7, <1>8, StepsAre

\* A copy of a tree that is among the records stays among them when the file grows.
LEMMA AmongOn ==
    ASSUME NEW msgs, NEW records \in Seq(Message), NEW more \in Seq(Message),
           Among(msgs, records), Begins(records, more)
    PROVE  Among(msgs, more)
<1>1. /\ DOMAIN records = 1..Len(records) /\ DOMAIN more = 1..Len(more)
      /\ Len(records) \in Nat /\ Len(more) \in Nat
  BY ListsAre
<1>2. \A k \in DOMAIN records : k \in DOMAIN more /\ more[k] = records[k]
  BY <1>1 DEF Begins
<1> QED
  BY <1>2 DEF Among

\* What is read of the file, and what is in memory and may be written back, stays a tree.
LEMMA CopiesStep == LogInv /\ Parent /\ Shape /\ Copies /\ Next => Copies'
<1> SUFFICES ASSUME LogInv, Parent, Shape, Copies, Next, Whole'
             PROVE  Copies'
  BY DEF Copies
<1>w. Whole
  BY WholeWas
<1>f. "overtaken" \notin flaws /\ "overtaken" \notin flaws'
  BY <1>w DEF Whole
<1>t. /\ TypeOK /\ Stages /\ Numbered /\ Lines /\ Sizes
      /\ op \in Ops /\ cache \in Entries /\ reader \in Readers
      /\ log \in Seq(Message) /\ Records \in Seq(Message)
      /\ cache.msgs \in Seq(Message) /\ op.held \in Seq(Message) /\ reader.msgs \in Seq(Message)
  BY TypesAre, RecordsAre DEF LogInv, TypeOK
<1>c. /\ reader.pc = "touch" => Treed(reader.msgs) /\ Among(reader.msgs, Records)
      /\ cache.on /\ (op.pc = "drop" => cache.current) =>
            Treed(cache.msgs) /\ Among(cache.msgs, Records)
      /\ op.pc = "stat" => Treed(op.held) /\ Among(op.held, Records)
      /\ op.pc = "cut" => Treed(op.held)
      /\ Treed(Records)
  BY <1>w DEF Copies, Shape
<1>u. log' = log /\ tail' = tail => Records' = Records
  BY DEF Records
<1>g. ASSUME \/ log' = log /\ tail' = tail
             \/ Records' \in Seq(Message) /\ Begins(Records, Records'),
             reader'.pc = "touch" => reader.pc = "touch" /\ reader'.msgs = reader.msgs,
             cache'.on /\ (op'.pc = "drop" => cache'.current) =>
                cache.on /\ (op.pc = "drop" => cache.current) /\ cache'.msgs = cache.msgs,
             op'.pc \in {"stat", "cut"} => op'.pc = op.pc /\ op'.held = op.held
      PROVE  Copies'
  <2>1. ASSUME NEW msgs, Among(msgs, Records) PROVE Among(msgs, Records')
    BY <1>g, <1>t, <1>u, <2>1, AmongOn
  <2>2. reader'.pc = "touch" => Treed(reader'.msgs) /\ Among(reader'.msgs, Records')
    BY <1>c, <1>g, <2>1
  <2>3. cache'.on /\ (op'.pc = "drop" => cache'.current) =>
            Treed(cache'.msgs) /\ Among(cache'.msgs, Records')
    BY <1>c, <1>g, <2>1
  <2>4. op'.pc = "stat" => Treed(op'.held) /\ Among(op'.held, Records')
    BY <1>c, <1>g, <2>1
  <2>5. op'.pc = "cut" => Treed(op'.held)
    BY <1>c, <1>g
  <2> QED
    BY <2>2, <2>3, <2>4, <2>5 DEF Copies
<1>e. Among(Records, Records)
  BY DEF Among
<1>n. NoOp.pc = "" /\ ~NoCache.on /\ NoReader.pc = "none"
  BY DEF NoOp, NoCache, NoReader
<1>1. CASE CallAppend \/ CallTruncate
  <2>1. UNCHANGED <<log, tail, cache, op, reader>>
    BY <1>1 DEF CallAppend, CallTruncate, files
  <2> QED
    BY <1>g, <2>1
<1>2. CASE Begin
  <2>1. log' = log /\ tail' = tail /\ reader' = reader /\ cache' \in {cache, CacheOfLoad}
    BY <1>2 DEF Begin, files
  <2>2. Records' = Records
    BY <1>u, <2>1
  <2>3. op.pc = "" /\ op'.pc \in {"repair", "cut"}
    <3>1. op.kind = "none" /\ op'.pc \in {"repair", "cut"}
      BY <1>2 DEF Begin, Turn, NoOp
    <3>2. op = NoOp
      BY <1>t, <3>1 DEF TypeOK
    <3> QED
      BY <1>n, <3>1, <3>2
  <2>4. Treed(Loaded) /\ Among(Loaded, Records) /\ CacheOfLoad.msgs = Loaded
    <3>1. cache.current => cache.on
      BY <1>t DEF TypeOK
    <3> QED
      BY <1>c, <1>e, <1>t, <2>3, <3>1, LoadedIs DEF Loaded
  <2>5. op'.pc = "cut" => op'.held = Loaded
    <3>1. Head(chain).kind # "append" => op'.held = Loaded
      <4>1. chain # <<>>
        BY <1>2 DEF Begin
      <4>2. Head(chain) \in Calls
        BY <1>t, <4>1, HeadTailProperties DEF TypeOK
      <4> QED
        BY <1>2, <4>2 DEF Begin, NoOp, Calls
    <3>2. op'.pc = "cut" => Head(chain).kind # "append"
      BY <1>2 DEF Begin, NoOp
    <3> QED
      BY <3>1, <3>2
  <2>6. cache'.on => Treed(cache'.msgs) /\ Among(cache'.msgs, Records)
    <3>1. CASE cache' = cache
      BY <1>c, <2>3, <3>1
    <3>2. CASE cache' = CacheOfLoad
      BY <2>4, <3>2
    <3> QED
      BY <2>1, <3>1, <3>2
  <2> QED
    BY <1>c, <2>1, <2>2, <2>3, <2>4, <2>5, <2>6 DEF Copies
<1>3. CASE Repair \/ StartWriting \/ Write
  <2>1. /\ Records' \in Seq(Message) /\ Begins(Records, Records')
        /\ op'.pc \in {"write", "writing", "note"}
    BY <1>3, <1>t, RecordsGrow
  <2>2. reader'.pc = reader.pc /\ reader'.msgs = reader.msgs
    BY <1>3, <1>t DEF Repair, StartWriting, Write, FileChanges, Readers
  <2>3. cache'.on => cache.on /\ cache'.msgs = cache.msgs
    <3>1. cache' \in {cache, NoCache, Obsolete(cache)}
      BY <1>3 DEF Repair, StartWriting, Write
    <3>2. Obsolete(cache).on = cache.on /\ Obsolete(cache).msgs = cache.msgs
      BY <1>t DEF Obsolete, Entries
    <3> QED
      BY <1>n, <3>1, <3>2
  <2>4. op.pc # "drop"
    BY <1>3 DEF Repair, StartWriting, Write
  <2> QED
    BY <1>g, <2>1, <2>2, <2>3, <2>4
<1>4. CASE WriteFails \/ SaveAppend \/ SaveTruncate
  <2>1. log' = log /\ tail' = tail /\ cache' = cache /\ reader' = reader /\ op' = NoOp
    BY <1>4 DEF WriteFails, SaveAppend, SaveTruncate, Done, files
  <2>2. op.pc # "drop"
    BY <1>4 DEF WriteFails, SaveAppend, SaveTruncate
  <2> QED
    BY <1>g, <1>n, <2>1, <2>2
<1>5. CASE Note
  <2>1. op.pc = "note" /\ log' = log /\ tail' = tail /\ reader' = reader
    BY <1>5 DEF Note, files
  <2>2. CASE cache' = NoCache /\ op'.pc = "save"
    BY <1>g, <1>n, <2>1, <2>2
  <2>3. CASE cache.on /\ cache' = cache /\ op'.pc = "stat" /\ op'.held = cache.msgs
    BY <1>c, <1>u, <2>1, <2>3 DEF Copies
  <2> QED
    BY <1>5, <1>t, <2>2, <2>3 DEF Note, Then, Ops
<1>6. CASE NoteStat
  <2>1. op.pc = "stat" /\ op'.pc = "save" /\ log' = log /\ tail' = tail /\ reader' = reader
    BY <1>6, <1>t DEF NoteStat, files, Ops
  <2>2. cache' = IF Grown THEN Entry(Size, TRUE, Append(op.held, Written), FALSE) ELSE NoCache
    BY <1>6 DEF NoteStat
  <2>3. CASE ~Grown
    BY <1>g, <1>n, <2>1, <2>2, <2>3
  <2>4. CASE Grown
    <3>1. cache'.msgs = Append(op.held, Written)
      BY <2>2, <2>4 DEF Entry
    <3>2. Records' = Records
      BY <1>u, <2>1
    <3>3. tail.state = "clean" /\ Len(log) > 0 /\ log[Len(log)] = Written
      BY <1>t, <2>1 DEF Lines
    <3>4. Records = log /\ Size = 3 * Len(log) /\ Size = op.size + 3
      BY <1>t, <2>4, <3>3, SizeIs DEF Records, Grown
    <3>5. /\ Written \in Message /\ op.size \in Nat /\ Len(log) \in Nat
          /\ DOMAIN log = 1..Len(log) /\ Len(log) \in DOMAIN log
      BY <1>t, <2>1, <3>3, TypesAre, KindIs, WrittenIs
    <3>6. Covers(op.size, op.held, Size, log)
      BY <1>f, <1>t, <2>1, <3>4 DEF Sizes
    <3>7. Known(Written.parent, op.held)
      <4> SUFFICES ASSUME Written.parent # 0 PROVE Known(Written.parent, op.held)
        BY DEF Known
      <4>1. PICK k \in 1..(Len(log) - 1) : log[k].id = Written.parent
        BY <1>c, <3>3, <3>4, <3>5 DEF Treed
      <4>2. k \in DOMAIN log /\ 3 * k <= op.size + 1
        BY <3>4, <3>5
      <4>3. PICK j \in DOMAIN op.held : op.held[j] = log[k]
        BY <3>6, <4>2 DEF Covers
      <4> QED
        BY <4>1, <4>3 DEF Known
    <3>8. Treed(Append(op.held, Written))
      BY <1>c, <1>t, <2>1, <3>5, <3>7, TreedMore
    <3>9. Among(Append(op.held, Written), log)
      <4> SUFFICES ASSUME NEW i \in DOMAIN Append(op.held, Written)
                   PROVE  \E k \in DOMAIN log : log[k].id = Append(op.held, Written)[i].id
        BY DEF Among
      <4>1. CASE i \in DOMAIN op.held
        <5>1. Append(op.held, Written)[i] = op.held[i]
          BY <1>t, <3>5, <4>1, MoreIs
        <5>2. Among(op.held, log)
          BY <1>c, <2>1, <3>4
        <5> QED
          BY <4>1, <5>1, <5>2 DEF Among
      <4>2. CASE i = Len(op.held) + 1
        <5>1. Append(op.held, Written)[i] = Written
          BY <1>t, <3>5, <4>2, MoreIs
        <5> QED
          BY <3>3, <3>5, <5>1
      <4> QED
        BY <1>t, <3>5, <4>1, <4>2, MoreIs
    <3> QED
      BY <1>c, <2>1, <3>1, <3>2, <3>4, <3>8, <3>9 DEF Copies
  <2> QED
    BY <2>3, <2>4
<1>7. CASE Truncate
  <2>1. op'.pc = "drop" /\ ~cache'.current
    BY <1>7, <1>t DEF Truncate, Then, Ops, Obsolete, Entries
  <2>2. reader'.pc = "none"
    BY <1>7, <1>f, <1>t DEF Truncate, FileChanges, Readers, Overtaken
  <2> QED
    BY <2>1, <2>2 DEF Copies
<1>8. CASE TruncateDrop
  <2>1. log' = log /\ tail' = tail /\ reader' = reader /\ cache' = NoCache /\ op'.pc = "leaf"
    BY <1>8, <1>t DEF TruncateDrop, files, Then, Ops
  <2> QED
    BY <1>g, <1>n, <2>1
<1>9. CASE TruncateMeta
  <2>1. /\ log' = log /\ tail' = tail /\ reader' = reader /\ cache' = cache
        /\ op.pc = "leaf" /\ op'.pc = "save"
    BY <1>9, <1>t DEF TruncateMeta, files, Ops
  <2> QED
    BY <1>g, <2>1
<1>10. CASE EditReads \/ EditWrites
  <2>1. UNCHANGED <<log, tail, cache, op, reader>>
    BY <1>10 DEF EditReads, EditWrites, files
  <2> QED
    BY <1>g, <2>1
<1>11. CASE ReadStat
  <2>1. log' = log /\ tail' = tail /\ cache' = cache /\ op' = op /\ reader'.pc = "read"
    BY <1>11 DEF ReadStat, files, NoReader
  <2> QED
    BY <1>g, <2>1
<1>12. CASE ReadFile
  <2>1. log' = log /\ tail' = tail /\ cache' = cache /\ op' = op /\ reader'.msgs = Records
    BY <1>12, <1>t DEF ReadFile, files, Readers
  <2>2. Records' = Records
    BY <1>u, <2>1
  <2> QED
    BY <1>c, <1>e, <2>1, <2>2 DEF Copies
<1>13. CASE ReadTouch
  <2>1. /\ log' = log /\ tail' = tail /\ op' = op /\ reader.pc = "touch"
        /\ reader'.pc = "none" /\ cache'.msgs = reader.msgs
    BY <1>13 DEF ReadTouch, files, NoReader, Entry
  <2>2. Records' = Records
    BY <1>u, <2>1
  <2> QED
    BY <1>c, <2>1, <2>2 DEF Copies
<1>14. CASE Evict
  <2>1. log' = log /\ tail' = tail /\ cache' = NoCache /\ op' = op /\ reader' = reader
    BY <1>14 DEF Evict, files
  <2> QED
    BY <1>g, <1>n, <2>1
<1>15. CASE Crash
  <2>1. log' = log /\ tail' = tail /\ cache' = NoCache /\ op' = NoOp /\ reader' = NoReader
    BY <1>15 DEF Crash, files
  <2> QED
    BY <1>g, <1>n, <2>1
<1> QED
  BY <1>1, <1>2, <1>3, <1>4, <1>5, <1>6, <1>7, <1>8, <1>9, <1>10, <1>11, <1>12, <1>13, <1>14,
      <1>15 DEF Next

\* The invariant of the tree holds at first ...
LEMMA TreeBegins == Init => TreeInv
<1> SUFFICES ASSUME Init PROVE TreeInv
  OBVIOUS
<1>1. LogInv
  BY LogBegins
<1>2. op.pc = "" /\ op.kind = "none" /\ ~cache.on /\ reader.pc = "none" /\ ~edit.on
  BY DEF Init, NoOp, NoCache, NoReader, NoEdit
<1>3. log = <<>> /\ Records = <<>> /\ meta.leaf = 0
  BY DEF Init, Records, Clean
<1>4. \A i : i \notin DOMAIN <<>>
  OBVIOUS
<1>5. Treed(Records) /\ Chained(Records, acked)
  BY <1>3, <1>4 DEF Treed, Chained
<1>6. Known(meta.leaf, log) /\ Behind(meta.leaf, log, acked)
  BY <1>3, <1>4 DEF Known, Behind
<1> QED
  BY <1>1, <1>2, <1>5, <1>6 DEF TreeInv, Fresh, AtEnd, Leaf, Parent, Shape, Copies

\* ... and is inductive.
LEMMA TreeKeeps == TreeInv /\ [Next]_vars => TreeInv'
<1> SUFFICES ASSUME TreeInv, [Next]_vars PROVE TreeInv'
  OBVIOUS
<1>1. CASE Next
  BY <1>1, LogKeeps, FreshStep, AtEndStep, LeafStep, ParentStep, ShapeStep, CopiesStep DEF TreeInv
<1>2. CASE UNCHANGED vars
  <2>1. UNCHANGED <<log, tail, meta, cache, chain, op, edit, reader, acked, flaws, counts>>
    BY <1>2 DEF vars, files
  <2>2. LogInv' /\ Records' = Records
    BY <1>2, <2>1, LogKeeps DEF TreeInv, Records
  <2>3. Fresh' /\ AtEnd'
    BY <2>1 DEF TreeInv, Fresh, AtEnd
  <2>4. Leaf' /\ Parent' /\ Shape'
    BY <2>1, <2>2 DEF TreeInv, Leaf, Parent, Shape, Halfway, Whole
  <2>5. Copies'
    BY <2>1, <2>2 DEF TreeInv, Copies, Whole
  <2> QED
    BY <2>2, <2>3, <2>4, <2>5 DEF TreeInv
<1> QED
  BY <1>1, <1>2

(***************************************************************************)
(* The path from the leaf.  That the recursion of Path has a solution, and *)
(* what every solution has, are shown by sets that are closed under going  *)
(* to the parent, and by a least position.                                 *)
(***************************************************************************)

\* A set of numbers has a least one: the intervals up to its elements are well-founded.
LEMMA Least ==
  ASSUME NEW T, T # {}, T \subseteq Nat
  PROVE  \E x \in T : \A y \in T : x <= y
  <1> DEFINE F == {0..n : n \in T}
  <1>1. IsWellFoundedOn(StrictSubsetOrdering(Nat), FiniteSubsetsOf(Nat))
    BY FS_StrictSubsetOrderingWellFounded
  <1>2. F \subseteq FiniteSubsetsOf(Nat)
    <2>1. \A n \in T : IsFiniteSet(0..n)
      BY FS_Interval
    <2> QED
      BY <2>1 DEF FiniteSubsetsOf
  <1>3. F # {}
    OBVIOUS
  <1>4. PICK x \in F : \A y \in F : <<y, x>> \notin StrictSubsetOrdering(Nat)
    <2> HIDE DEF F
    <2> QED
      BY <1>1, <1>2, <1>3, WFMin
  <1>5. PICK n \in T : x = 0..n
    OBVIOUS
  <1>6. ASSUME NEW m \in T, m < n
        PROVE  FALSE
    <2>1. 0..m \in F
      OBVIOUS
    <2>2. 0..m \subseteq Nat /\ x \subseteq Nat /\ 0..m \subseteq x /\ 0..m # x
      BY <1>5, <1>6
    <2>3. <<0..m, x>> \in StrictSubsetOrdering(Nat)
      BY <2>2 DEF StrictSubsetOrdering
    <2> QED
      BY <1>4, <2>1, <2>3
  <1> QED
    BY <1>5, <1>6

\* Where the parent of the message at a position stands.
Up(i) == IF log[i].parent \in LogIds THEN Position(log[i].parent) ELSE 0

\* Sets of positions that have the parents of all they have.
Closed(S) == \A j \in S : j # 0 => Up(j) \in S

\* The positions that every such set has which has a given one.
Reached(i) == {k \in 1..Len(log) : \A S \in SUBSET (0..Len(log)) : i \in S /\ Closed(S) => k \in S}

LEMMA UpIs ==
    ASSUME log \in Seq(Message), NEW i \in 1..Len(log)
    PROVE  /\ Up(i) \in 0..Len(log)
           /\ log[i].parent \in LogIds => Up(i) \in 1..Len(log) /\ log[Up(i)].id = log[i].parent
<1>1. Len(log) \in Nat /\ DOMAIN log = 1..Len(log)
  BY ListsAre
<1>2. CASE log[i].parent \in LogIds
  <2>1. \E k \in DOMAIN log : log[k].id = log[i].parent
    BY <1>2 DEF LogIds
  <2>2. Position(log[i].parent) \in DOMAIN log /\ log[Position(log[i].parent)].id = log[i].parent
    BY <2>1 DEF Position
  <2> QED
    BY <1>1, <1>2, <2>2 DEF Up
<1>3. CASE log[i].parent \notin LogIds
  BY <1>1, <1>3 DEF Up
<1> QED
  BY <1>2, <1>3

\* The path of a message is the message and the path of its parent.
LEMMA PathIs ==
    ASSUME log \in Seq(Message)
    PROVE  \A i \in 0..Len(log) : Path[i] = IF i = 0 THEN {} ELSE {log[i].id} \cup Path[Up(i)]
<1>1. Len(log) \in Nat /\ DOMAIN log = 1..Len(log)
  BY ListsAre
<1> DEFINE found == [i \in 0..Len(log) |-> {log[k].id : k \in Reached(i)}]
<1>2. Reached(0) = {}
  <2>1. {0} \in SUBSET (0..Len(log)) /\ Closed({0}) /\ 0 \notin 1..Len(log)
    BY <1>1 DEF Closed
  <2> QED
    BY <2>1 DEF Reached
<1>3. ASSUME NEW i \in 1..Len(log) PROVE Reached(i) = {i} \cup Reached(Up(i))
  <2>1. Up(i) \in 0..Len(log) /\ i \in 0..Len(log) /\ i # 0
    BY <1>1, UpIs
  <2>2. ASSUME NEW k \in Reached(i), k # i PROVE k \in Reached(Up(i))
    <3> SUFFICES ASSUME NEW S \in SUBSET (0..Len(log)), Up(i) \in S, Closed(S) PROVE k \in S
      BY <2>2 DEF Reached
    <3>1. S \cup {i} \in SUBSET (0..Len(log)) /\ Closed(S \cup {i})
      BY <2>1 DEF Closed
    <3> QED
      BY <2>2, <3>1 DEF Reached
  <2>3. i \in Reached(i)
    BY DEF Reached
  <2>4. ASSUME NEW k \in Reached(Up(i)) PROVE k \in Reached(i)
    <3> SUFFICES ASSUME NEW S \in SUBSET (0..Len(log)), i \in S, Closed(S) PROVE k \in S
      BY <2>4 DEF Reached
    <3>1. Up(i) \in S
      BY <2>1 DEF Closed
    <3> QED
      BY <2>4, <3>1 DEF Reached
  <2> QED
    BY <2>2, <2>3, <2>4
<1>4. ASSUME NEW i \in 0..Len(log)
      PROVE  found[i] = IF i = 0 THEN {} ELSE {log[i].id} \cup found[Up(i)]
  <2>1. CASE i = 0
    BY <1>2, <2>1
  <2>2. CASE i # 0
    <3>1. i \in 1..Len(log) /\ Up(i) \in 0..Len(log)
      BY <1>1, <2>2, UpIs
    <3>2. Reached(i) = {i} \cup Reached(Up(i))
      BY <1>3, <3>1
    <3>3. /\ found[i] = {log[k].id : k \in Reached(i)}
          /\ found[Up(i)] = {log[k].id : k \in Reached(Up(i))}
      BY <3>1
    <3> HIDE DEF found
    <3>4. found[i] = {log[i].id} \cup found[Up(i)]
      BY <3>2, <3>3
    <3> QED
      BY <2>2, <3>4
  <2> QED
    BY <2>1, <2>2
<1>5. found = [i \in 0..Len(log) |-> IF i = 0 THEN {} ELSE {log[i].id} \cup found[Up(i)]]
  <2>1. found = [i \in 0..Len(log) |-> found[i]]
    OBVIOUS
  <2> HIDE DEF found
  <2> QED
    BY <1>4, <2>1
<1> HIDE DEF found
<1> DEFINE Solves(p) == p = [i \in 0..Len(log) |-> IF i = 0 THEN {} ELSE {log[i].id} \cup p[Up(i)]]
<1>6. Path = CHOOSE p : Solves(p)
  BY DEF Path, Up
<1>7. Solves(found)
  BY <1>5
<1>8. Solves(Path)
  <2> HIDE DEF Solves
  <2> QED
    BY <1>6, <1>7
<1> QED
  BY <1>8

\* Where no parent stands before an answered message, the path of a message has every
\* answered one that does not stand behind it.
LEMMA PathHas ==
    ASSUME log \in Seq(Message), Distinct(log), Chained(log, acked)
    PROVE  \A i \in 1..Len(log) : \A k \in 1..i : log[k].id \in acked => log[k].id \in Path[i]
<1>1. Len(log) \in Nat /\ DOMAIN log = 1..Len(log)
  BY ListsAre
<1> DEFINE Bad == {i \in 1..Len(log) : \E k \in 1..i : log[k].id \in acked /\ log[k].id \notin Path[i]}
<1>2. SUFFICES ASSUME Bad # {} PROVE FALSE
  OBVIOUS
<1>3. PICK i \in Bad : \A j \in Bad : i <= j
  <2>1. Bad \subseteq Nat
    BY <1>1
  <2> HIDE DEF Bad
  <2> QED
    BY <1>2, <2>1, Least
<1>4. PICK k \in 1..i : log[k].id \in acked /\ log[k].id \notin Path[i]
  BY <1>3
<1>5. i \in 1..Len(log) /\ i \in 0..Len(log) /\ i # 0
  BY <1>1, <1>3
<1>6. Path[i] = {log[i].id} \cup Path[Up(i)]
  BY <1>5, PathIs
<1>7. k < i /\ k \in DOMAIN log /\ i \in DOMAIN log
  <2>1. k # i
    BY <1>4, <1>6
  <2> QED
    BY <1>1, <1>4, <1>5, <2>1
<1>8. PICK j \in k..(i - 1) : log[j].id = log[i].parent
  BY <1>4, <1>7 DEF Chained
<1>9. j \in 1..Len(log) /\ j < i /\ k \in 1..j
  BY <1>1, <1>4, <1>5, <1>8
<1>10. Up(i) = j
  <2>1. log[i].parent \in LogIds
    BY <1>1, <1>8, <1>9 DEF LogIds
  <2>2. Up(i) \in 1..Len(log) /\ log[Up(i)].id = log[j].id
    BY <1>5, <1>8, <2>1, UpIs
  <2> QED
    BY <1>1, <1>9, <2>2 DEF Distinct
<1>11. j \notin Bad
  BY <1>1, <1>3, <1>5, <1>9
<1>12. log[k].id \in Path[j]
  BY <1>4, <1>9, <1>11
<1> QED
  BY <1>4, <1>6, <1>10, <1>12

\* PathIsWhole (appendMessageSerialized, truncateMessages, activePath of session-store.ts):
\* the parent of every message stands before it, unless one of three things happened that
\* the store does not cope with; and if none of the four did, every message whose append has
\* returned is on the path from the leaf: the model is shown it.
THEOREM PathsAreWhole == Spec => []PathIsWhole
<1>1. TreeInv => PathIsWhole
  <2> SUFFICES ASSUME TreeInv PROVE PathIsWhole
    OBVIOUS
  <2>t. /\ LogInv /\ TypeOK /\ Lines /\ log \in Seq(Message) /\ Len(log) \in Nat
        /\ DOMAIN log = 1..Len(log)
    BY TypesAre DEF TreeInv, LogInv
  <2>1. ASSUME Whole, NEW i \in DOMAIN log, log[i].parent # 0
        PROVE  \E k \in 1..(i - 1) : log[k].id = log[i].parent
    <3>1. /\ DOMAIN Records = 1..Len(Records) /\ Len(log) <= Len(Records)
          /\ Len(Records) \in Nat /\ \A k \in 1..Len(log) : Records[k] = log[k]
      <4>1. /\ DOMAIN Records = 1..Len(Records)
            /\ Len(Records) = IF tail.state = "open" THEN Len(log) + 1 ELSE Len(log)
            /\ \A k \in 1..Len(log) : Records[k] = log[k]
        BY <2>t, RecordsAre
      <4> QED
        BY <2>t, <4>1
    <3>2. i \in DOMAIN Records /\ Records[i] = log[i]
      BY <2>1, <2>t, <3>1
    <3>3. PICK k \in 1..(i - 1) : Records[k].id = log[i].parent
      BY <2>1, <3>2 DEF TreeInv, Shape, Treed
    <3>4. Records[k] = log[k]
      BY <2>t, <3>1
    <3> QED
      BY <3>3, <3>4
  <2>2. ASSUME flaws = {}, op.kind = "none", acked # {}
        PROVE  meta.leaf \in LogIds /\ acked \subseteq Path[Position(meta.leaf)]
    <3>1. Distinct(log)
      BY <2>2, <2>t DEF LogInv, Once
    <3>2. op.pc = ""
      <4>1. op = NoOp
        BY <2>2, <2>t DEF TypeOK
      <4> QED
        BY <4>1 DEF NoOp
    <3>3. Behind(meta.leaf, log, acked)
      BY <2>2, <3>2 DEF TreeInv, Leaf, Halfway
    <3>4. Chained(log, acked)
      <4>1. Chained(Records, acked)
        BY <2>2 DEF TreeInv, Shape
      <4>2. /\ DOMAIN log \subseteq DOMAIN Records
            /\ \A k \in DOMAIN log : Records[k] = log[k]
        <5>1. /\ DOMAIN Records = 1..Len(Records)
              /\ Len(Records) = IF tail.state = "open" THEN Len(log) + 1 ELSE Len(log)
              /\ \A k \in 1..Len(log) : Records[k] = log[k]
          BY <2>t, RecordsAre
        <5> QED
          BY <2>t, <5>1
      <4> SUFFICES ASSUME NEW i \in DOMAIN log, NEW k \in DOMAIN log, k < i, log[k].id \in acked
                   PROVE  \E j \in k..(i - 1) : log[j].id = log[i].parent
        BY DEF Chained
      <4>3. PICK j \in k..(i - 1) : Records[j].id = Records[i].parent
        BY <4>1, <4>2 DEF Chained
      <4>4. j \in DOMAIN log
        BY <2>t
      <4> QED
        BY <4>2, <4>3, <4>4
    <3>5. ASSUME NEW a \in acked
          PROVE  meta.leaf \in LogIds /\ a \in Path[Position(meta.leaf)]
      <4>1. PICK k \in DOMAIN log : log[k].id = a
        BY <2>t DEF Lines, LogIds
      <4>2. PICK j \in DOMAIN log : k <= j /\ log[j].id = meta.leaf
        BY <3>3, <4>1 DEF Behind
      <4>3. meta.leaf \in LogIds
        BY <4>2 DEF LogIds
      <4>4. Position(meta.leaf) \in DOMAIN log /\ log[Position(meta.leaf)].id = meta.leaf
        BY <4>2 DEF Position
      <4>5. Position(meta.leaf) = j
        BY <3>1, <4>2, <4>4 DEF Distinct
      <4>6. j \in 1..Len(log) /\ k \in 1..j
        BY <2>t, <4>1, <4>2
      <4>7. a \in Path[j]
        BY <2>t, <3>1, <3>4, <4>1, <4>6, PathHas
      <4> QED
        BY <4>3, <4>5, <4>7
    <3> QED
      BY <2>2, <3>5
  <2> QED
    BY <2>1, <2>2 DEF PathIsWhole, Whole
<1> QED
  BY TreeBegins, TreeKeeps, <1>1, PTL DEF Spec

=============================================================================
