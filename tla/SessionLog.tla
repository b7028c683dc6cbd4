----------------------------- MODULE SessionLog -----------------------------
(***************************************************************************)
(* The history of one session: sessions/session-store.ts.                  *)
(*                                                                         *)
(* messages.jsonl is appended to, a line for each message; meta.json has   *)
(* the settings of the session and the active leaf, from which the parents *)
(* lead through the messages that the model is shown.  Appending and       *)
(* truncating are serialised by a chain of promises.  Reading is not, and  *)
(* neither are the many functions that read meta.json, change a field of   *)
(* it and write it back.  The history that was read last is kept in        *)
(* memory, with the size and the times of the file.                        *)
(*                                                                         *)
(* A message is its number, in the order of the calls; all lines have the  *)
(* same length, the worst case for a cache that compares sizes.  Times are *)
(* represented by whether they are still those of the file.  A meta.json   *)
(* that is read while it is replaced is the old one or the new one.        *)
(***************************************************************************)
EXTENDS Naturals, Sequences, FiniteSets

CONSTANTS
    MaxMessages,   \* bound: the calls of appendMessage()
    MaxTruncates,  \* bound: the calls of truncateMessages()
    MaxEdits,      \* bound: the changes of the settings
    MaxFails,      \* bound: the appends that fail
    MaxCrashes     \* bound

ASSUME SessionLogAssumption ==
    {MaxMessages, MaxTruncates, MaxEdits, MaxFails, MaxCrashes} \subseteq Nat

VARIABLES
    log,       \* the complete lines of messages.jsonl
    tail,      \* what follows them: nothing, part of a line, a line without its end
    meta,      \* meta.json
    cache,     \* the entry of messagesCache
    chain,     \* appendChains: the calls that wait for their turn
    op,        \* the call whose turn it is
    edit,      \* a change of the settings that has read meta.json
    reader,    \* a get() that reads messages.jsonl
    acked,     \* the messages whose append has returned, without those truncated away
    flaws,     \* what has happened that the store does not cope with
    counts     \* how many calls, failures and crashes there were

files == <<log, tail, meta>>
vars == <<log, tail, meta, cache, chain, op, edit, reader, acked, flaws, counts>>

Ids == 1..MaxMessages
NoOp == [kind |-> "none", pc |-> "", id |-> 0, meta |-> [leaf |-> 0, settings |-> 0],
         parent |-> 0, held |-> <<>>, size |-> 0]
NoEdit == [on |-> FALSE, meta |-> [leaf |-> 0, settings |-> 0]]
NoReader == [pc |-> "none", size |-> 0, current |-> FALSE, msgs |-> <<>>, recovered |-> FALSE]
NoCache == [on |-> FALSE, size |-> 0, current |-> FALSE, msgs |-> <<>>, recovered |-> FALSE]
Clean == [state |-> "clean", line |-> [id |-> 0, parent |-> 0]]

\* Two records on one line.
Broken == [id |-> 0, parent |-> 0]

\* The size of the file; a line takes three units.
Size == 3 * Len(log) + CASE tail.state = "clean" -> 0 [] tail.state = "cut" -> 1 [] OTHER -> 2

\* What a reader of the file finds: a last line without its end is read, part of a
\* line is left out.
Records == IF tail.state = "open" THEN Append(log, tail.line) ELSE log

Message == [id : {0} \cup Ids, parent : {0} \cup Ids]
Meta == [leaf : {0} \cup Ids, settings : 0..MaxEdits]
Tails == [state : {"clean", "cut", "open"}, line : Message]
Entries == [on : BOOLEAN, size : Nat, current : BOOLEAN, msgs : Seq(Message), recovered : BOOLEAN]
Calls == [kind : {"append", "truncate"}, id : Nat]
Ops == [kind : {"none", "append", "truncate"},
        pc : {"", "repair", "write", "writing", "note", "stat", "cut", "drop", "leaf", "save"},
        id : Nat, meta : Meta, parent : {0} \cup Ids, held : Seq(Message), size : Nat]
Readers == [pc : {"none", "read", "touch"}, size : Nat, current : BOOLEAN, msgs : Seq(Message),
            recovered : BOOLEAN]
Flaws == {"overlap", "halfTruncated", "overtaken", "doubled"}
Limits == [calls : 0..MaxMessages, truncates : 0..MaxTruncates, edits : 0..MaxEdits,
           fails : 0..MaxFails, crashes : 0..MaxCrashes]

TypeOK ==
    /\ log \in Seq(Message)
    /\ tail \in Tails
    /\ meta \in Meta
    /\ cache \in Entries
    /\ chain \in Seq(Calls)
    /\ op \in Ops
    /\ edit \in [on : BOOLEAN, meta : Meta]
    /\ reader \in Readers
    /\ acked \subseteq Ids
    /\ flaws \subseteq Flaws
    /\ counts \in Limits
    /\ op.kind = "none" => op = NoOp
    /\ tail.state # "clean" \/ tail = Clean
    /\ cache.current => cache.on /\ cache.size = Size

Init ==
    /\ log = <<>>
    /\ tail = Clean
    /\ meta = [leaf |-> 0, settings |-> 0]
    /\ cache = NoCache
    /\ chain = <<>>
    /\ op = NoOp
    /\ edit = NoEdit
    /\ reader = NoReader
    /\ acked = {}
    /\ flaws = {}
    /\ counts = [calls |-> 0, truncates |-> 0, edits |-> 0, fails |-> 0, crashes |-> 0]

Counts(what) == counts' = [counts EXCEPT ![what] = @ + 1]

(***************************************************************************)
(* The cache.  A write to the file makes every stat() taken before         *)
(* obsolete.                                                               *)
(***************************************************************************)

FileChanges == reader' = [reader EXCEPT !.current = FALSE]

Obsolete(entry) == [entry EXCEPT !.current = FALSE]

Entry(size, current, msgs, recovered) ==
    [on |-> TRUE, size |-> size, current |-> current, msgs |-> msgs, recovered |-> recovered]

\* readMessages() of a call whose turn it is.
Loaded == IF cache.current THEN cache.msgs ELSE Records
CacheOfLoad == IF cache.current THEN cache ELSE Entry(Size, TRUE, Records, tail.state = "cut")

\* A reader is under way while the file gets shorter.
Overtaken == IF reader.pc = "none" THEN {} ELSE {"overtaken"}

(***************************************************************************)
(* The chain.                                                              *)
(***************************************************************************)

CallAppend ==
    /\ counts.calls < MaxMessages
    /\ Counts("calls")
    /\ chain' = Append(chain, [kind |-> "append", id |-> counts.calls + 1])
    /\ UNCHANGED <<files, cache, op, edit, reader, acked, flaws>>

\* truncateMessages(count), here with the count as the id.
CallTruncate ==
    /\ counts.truncates < MaxTruncates
    /\ Counts("truncates")
    /\ \E count \in 0..Len(log) : chain' = Append(chain, [kind |-> "truncate", id |-> count])
    /\ UNCHANGED <<files, cache, op, edit, reader, acked, flaws>>

\* Mutant of Turn: calls do not wait for the one before.
TurnAtOnce == op.pc # "writing"

\* serializeByKey(): a call begins when the one before it has ended, well or not.
Turn == op.kind = "none"

\* Both calls read meta.json first; an append looks for the last message of the file
\* when there is no leaf.
Begin ==
    /\ Turn
    /\ chain # <<>>
    /\ chain' = Tail(chain)
    /\ LET call == Head(chain)
           looks == call.kind = "truncate" \/ meta.leaf = 0
           last == IF Loaded = <<>> THEN 0 ELSE Loaded[Len(Loaded)].id
       IN  /\ op' = [NoOp EXCEPT !.kind = call.kind, !.id = call.id, !.meta = meta,
                       !.pc = IF call.kind = "append" THEN "repair" ELSE "cut",
                       !.parent = IF meta.leaf # 0 THEN meta.leaf ELSE last,
                       !.held = IF call.kind = "truncate" THEN Loaded ELSE <<>>]
           /\ cache' = IF looks THEN CacheOfLoad ELSE cache
           /\ flaws' = IF edit.on THEN flaws \cup {"overlap"} ELSE flaws
    /\ UNCHANGED <<files, edit, reader, acked, counts>>

\* The message that is appended.
Written == [id |-> op.id, parent |-> op.parent]

Done == op' = NoOp
Then(pc) == op' = [op EXCEPT !.pc = pc]

(***************************************************************************)
(* appendMessageSerialized().                                              *)
(***************************************************************************)

\* Mutant of NeedsRepair: only what the cache knows of is repaired.
NeedsRepairIfKnown == cache.on /\ cache.recovered

\* The cache says so, or the file does not end with the end of a line.
NeedsRepair == tail.state # "clean"

\* repairCorruptTail()
Repair ==
    /\ op.pc = "repair"
    /\ Then("write")
    /\ IF ~NeedsRepair
       THEN UNCHANGED <<log, tail, cache, reader>>
       ELSE /\ tail' = Clean
            /\ log' = Records
            /\ cache' = IF tail.state = "cut" THEN NoCache ELSE Obsolete(cache)
            /\ FileChanges
    /\ flaws' = IF tail.state = "cut" THEN flaws \cup Overtaken ELSE flaws
    /\ UNCHANGED <<meta, chain, edit, acked, counts>>

\* appendFile(): part of the line, all but its end, ...
StartWriting ==
    /\ op.pc = "write"
    /\ Then("writing")
    /\ \E part \in {"cut", "open"} :
          tail' = IF tail.state = "clean"
                  THEN [state |-> part, line |-> Written]
                  ELSE [state |-> "cut", line |-> Broken]
    /\ cache' = Obsolete(cache)
    /\ FileChanges
    /\ UNCHANGED <<log, meta, chain, edit, acked, flaws, counts>>

\* ... the whole line.
Write ==
    /\ op.pc = "writing"
    /\ Then("note")
    /\ log' = Append(log, tail.line)
    /\ tail' = Clean
    /\ cache' = Obsolete(cache)
    /\ FileChanges
    /\ UNCHANGED <<meta, chain, edit, acked, flaws, counts>>

\* The disk is full: what is written stays, and the caller is told.
WriteFails ==
    /\ op.pc = "writing"
    /\ counts.fails < MaxFails
    /\ Counts("fails")
    /\ Done
    /\ UNCHANGED <<files, cache, chain, edit, reader, acked, flaws>>

\* noteAppendedMessage(), up to its await.
Note ==
    /\ op.pc = "note"
    /\ \/ cache.on /\ ~cache.recovered /\ UNCHANGED cache
          /\ op' = [op EXCEPT !.pc = "stat", !.held = cache.msgs, !.size = cache.size]
       \/ (cache.on => cache.recovered) /\ cache' = NoCache /\ Then("save")
    /\ UNCHANGED <<files, chain, edit, reader, acked, flaws, counts>>

\* Mutant of Grown: the size is not looked at.
GrownAnyway == TRUE

\* The file has grown by the line that was appended.
Grown == Size = op.size + 3

\* The message is added to the entry, or the entry is dropped.
NoteStat ==
    /\ op.pc = "stat"
    /\ cache' = IF Grown THEN Entry(Size, TRUE, Append(op.held, Written), FALSE) ELSE NoCache
    /\ op' = [op EXCEPT !.pc = "save", !.held = <<>>, !.size = 0]
    /\ flaws' = IF Grown /\ op.id \in {op.held[i].id : i \in DOMAIN op.held} THEN flaws \cup {"doubled"} ELSE flaws
    /\ UNCHANGED <<files, chain, edit, reader, acked, counts>>

\* meta.json is written as it was read, with the new leaf.
SaveAppend ==
    /\ op.kind = "append" /\ op.pc = "save"
    /\ meta' = [op.meta EXCEPT !.leaf = op.id]
    /\ acked' = acked \cup {op.id}
    /\ Done
    /\ UNCHANGED <<log, tail, cache, chain, edit, reader, flaws, counts>>

(***************************************************************************)
(* truncateMessages().                                                     *)
(***************************************************************************)

\* The file is replaced by the first messages of what is in memory.
Truncate ==
    /\ op.pc = "cut"
    /\ LET kept == SubSeq(op.held, 1, IF op.id < Len(op.held) THEN op.id ELSE Len(op.held))
       IN  /\ log' = kept
           /\ acked' = acked \cap {kept[i].id : i \in DOMAIN kept}
    /\ tail' = Clean
    /\ cache' = Obsolete(cache)
    /\ FileChanges
    /\ Then("drop")
    /\ flaws' = flaws \cup Overtaken
    /\ UNCHANGED <<meta, chain, edit, counts>>

TruncateDrop ==
    /\ op.pc = "drop"
    /\ cache' = NoCache
    /\ Then("leaf")
    /\ UNCHANGED <<files, chain, edit, reader, acked, flaws, counts>>

TruncateMeta ==
    /\ op.pc = "leaf"
    /\ op' = [op EXCEPT !.pc = "save", !.meta = meta]
    /\ flaws' = IF edit.on THEN flaws \cup {"overlap"} ELSE flaws
    /\ UNCHANGED <<files, cache, chain, edit, reader, acked, counts>>

\* The last message that is left is the new leaf.
NewLeaf == IF log = <<>> THEN 0 ELSE log[Len(log)].id

SaveTruncate ==
    /\ op.kind = "truncate" /\ op.pc = "save"
    /\ meta' = [op.meta EXCEPT !.leaf = NewLeaf]
    /\ Done
    /\ UNCHANGED <<log, tail, cache, chain, edit, reader, acked, flaws, counts>>

(***************************************************************************)
(* Everything outside the chain.                                           *)
(***************************************************************************)

\* updatePermissions(), updateConfig(), updateDisplay() and their like read
\* meta.json ...
EditReads ==
    /\ ~edit.on /\ counts.edits < MaxEdits
    /\ Counts("edits")
    /\ edit' = [on |-> TRUE, meta |-> meta]
    /\ flaws' = IF op.pc \in {"", "cut", "drop", "leaf"} THEN flaws ELSE flaws \cup {"overlap"}
    /\ UNCHANGED <<files, cache, chain, op, reader, acked>>

\* ... and write it, with their field changed.
EditWrites ==
    /\ edit.on
    /\ meta' = [edit.meta EXCEPT !.settings = counts.edits]
    /\ edit' = NoEdit
    /\ UNCHANGED <<log, tail, cache, chain, op, reader, acked, flaws, counts>>

\* get(): a stat() that is not that of the cache makes it read the file.
ReadStat ==
    /\ reader.pc = "none"
    /\ ~cache.current
    /\ reader' = [NoReader EXCEPT !.pc = "read", !.size = Size, !.current = TRUE]
    /\ UNCHANGED <<files, cache, chain, op, edit, acked, flaws, counts>>

ReadFile ==
    /\ reader.pc = "read"
    /\ reader' = [reader EXCEPT !.pc = "touch", !.msgs = Records, !.recovered = tail.state = "cut"]
    /\ UNCHANGED <<files, cache, chain, op, edit, acked, flaws, counts>>

\* touchMessagesCache(): what was read becomes the entry, with the stat() from before.
ReadTouch ==
    /\ reader.pc = "touch"
    /\ cache' = Entry(reader.size, reader.current, reader.msgs, reader.recovered)
    /\ reader' = NoReader
    /\ UNCHANGED <<files, chain, op, edit, acked, flaws, counts>>

\* Entries are evicted by number, size, idleness and a change of the mode.
Evict ==
    /\ cache.on
    /\ cache' = NoCache
    /\ UNCHANGED <<files, chain, op, edit, reader, acked, flaws, counts>>

\* The process dies; what is on the disk stays.
Crash ==
    /\ counts.crashes < MaxCrashes
    /\ Counts("crashes")
    /\ cache' = NoCache
    /\ chain' = <<>>
    /\ op' = NoOp
    /\ edit' = NoEdit
    /\ reader' = NoReader
    /\ flaws' = IF op.kind = "truncate" /\ op.pc # "cut" THEN flaws \cup {"halfTruncated"} ELSE flaws
    /\ UNCHANGED <<files, acked>>

Next ==
    \/ CallAppend \/ CallTruncate \/ Begin
    \/ Repair \/ StartWriting \/ Write \/ WriteFails \/ Note \/ NoteStat \/ SaveAppend
    \/ Truncate \/ TruncateDrop \/ TruncateMeta \/ SaveTruncate
    \/ EditReads \/ EditWrites
    \/ ReadStat \/ ReadFile \/ ReadTouch \/ Evict
    \/ Crash

Spec == Init /\ [][Next]_vars

(***************************************************************************)
(* Properties.                                                             *)
(***************************************************************************)

LogIds == {log[i].id : i \in DOMAIN log}
Position(id) == CHOOSE i \in DOMAIN log : log[i].id = id

\* The messages from the leaf to the root.
Path[i \in 0..Len(log)] ==
    IF i = 0 THEN {}
    ELSE {log[i].id} \cup Path[IF log[i].parent \in LogIds THEN Position(log[i].parent) ELSE 0]

\* No two records come to lie on one line, whatever is torn by a failing write or a
\* crash: every message that was appended can be read until it is truncated away, and
\* is there once, unless the history in memory, which a truncation writes back, had it
\* twice.  And what a truncation writes back is what the file has, unless a message was
\* added twice or the file got shorter while it was read.
AcceptedIsReadable ==
    /\ TypeOK
    /\ \A i \in DOMAIN log : log[i] # Broken
    /\ acked \subseteq LogIds
    /\ "doubled" \notin flaws => Cardinality(LogIds) = Len(log)
    /\ op.pc = "cut" /\ flaws \cap {"overtaken", "doubled"} = {} => op.held = Records

\* The messages form a tree: every message's parent stands before it, unless there was a
\* crash between the two files of a truncation, or the file got shorter while it was read
\* and the next truncation wrote back what was read.  And every message that was appended is
\* on the path from the leaf, that is to say the model is shown it, provided that no
\* change of the settings overlapped an append.
PathIsWhole ==
    /\ flaws \cap {"halfTruncated", "overlap", "overtaken"} = {} =>
          \A i \in DOMAIN log :
              log[i].parent = 0 \/ \E k \in 1..(i - 1) : log[k].id = log[i].parent
    /\ flaws = {} /\ op.kind = "none" /\ acked # {} =>
          /\ meta.leaf \in LogIds
          /\ acked \subseteq Path[Position(meta.leaf)]

\* A history in memory that is taken for that of the file lacks no message of it,
\* provided that the file did not get shorter while it was read, and is the same unless
\* a message was added to it twice.
NothingMissed ==
    cache.current /\ "overtaken" \notin flaws =>
        /\ \A i \in DOMAIN Records : \E k \in DOMAIN cache.msgs : cache.msgs[k] = Records[i]
        /\ "doubled" \notin flaws => cache.msgs = Records

\* The same without the provisos: "a difference in size that any concurrent or
\* external write leads to degrades to an invalidation" (session-store.ts:1177).  (Does not
\* hold: a get() whose read overlaps an append doubles the message.)
CacheIsFile == cache.current => cache.msgs = Records

\* A truncation keeps "the complete records that are on the disk" (session-store.ts:594).
\* (Does not hold: it keeps those in memory, which may have one twice, or lack one.)
TruncationKeepsRecords == op.pc = "cut" => op.held = Records

\* PathIsWhole without its provisos: a change of "purely display" attributes
\* (session-store.ts:550) concerns nothing else.  (Does not hold: it writes the old leaf
\* back.)
NothingOffPath ==
    op.kind = "none" /\ chain = <<>> /\ ~edit.on /\ acked # {} /\ counts.crashes = 0 /\ counts.truncates = 0 =>
        meta.leaf \in LogIds /\ acked \subseteq Path[Position(meta.leaf)]
=============================================================================
