---------------------------- MODULE EventStream ----------------------------
(***************************************************************************)
(* Events from the server to the browsers: the bus                         *)
(* (server/src/events/event-bus.ts), the fan-out and the handshake of      *)
(* /api/events (server/src/app.ts), the test for slow clients              *)
(* (events/ws-backpressure.ts) and the socket of the web client            *)
(* (web/src/app/ws.ts), which subscribes to all sessions at once.          *)
(*                                                                         *)
(* A published event is numbered, kept in a bounded history and sent to    *)
(* every open socket.  Deltas of a text stream are merged for a moment     *)
(* before they are published.  A client that reconnects names the last     *)
(* number it has seen; the server replays what follows, or tells it to     *)
(* fetch its state again.                                                  *)
(*                                                                         *)
(* A socket delivers in order; what is under way when it breaks is lost.   *)
(* An event is one byte, a delta one for each of its parts, unless it is   *)
(* said to be huge.                                                        *)
(***************************************************************************)
EXTENDS Naturals, Sequences, SequencesExt

CONSTANTS
    Sessions,
    None,          \* the session of events of the server itself
    Streams,       \* the texts being streamed, each of a session
    SessionOf,     \* the session of each stream
    Clients,
    HistoryLimit,  \* EventBus.historyLimit
    ByteLimit,     \* EventBus.historyByteLimit
    SendLimit,     \* maxBufferedMessages
    MaxPublished,  \* bound: calls of publish()
    MaxDrops,      \* bound: sockets that break
    MaxRestarts    \* bound: restarts of the server

ASSUME LimitAssumption ==
    /\ HistoryLimit \in Nat \ {0} /\ ByteLimit \in Nat \ {0} /\ SendLimit \in Nat
    /\ MaxPublished \in Nat /\ MaxDrops \in Nat /\ MaxRestarts \in Nat
ASSUME SessionAssumption ==
    None \notin Sessions /\ SessionOf \in [Streams -> Sessions]

VARIABLES
    bus,        \* sequence, sessionSequences and history of the EventBus
    pending,    \* pendingDeltas, oldest stream first
    flushTimer, \* deltaFlushTimer
    socket,     \* the server's side of each connection, and what is under way on it
    client,     \* globalSeq, sessionSeq and seenEventIds of each browser
    \* What an observer sees:
    published,  \* how many calls of publish() there were
    log,        \* every event ever numbered, also before a restart
    epoch,      \* how often the server was restarted
    drops

vars == <<bus, pending, flushTimer, socket, client, published, log, epoch, drops>>

FreshBus == [seq |-> 0, sessionSeq |-> [s \in Sessions |-> 0], history |-> <<>>]
NoClient == [seq |-> 0, sessionSeq |-> [s \in Sessions |-> 0], seen |-> {},
             applied |-> {}, from |-> 0, covered |-> 0]

\* An event's id is its place in the log.
Events == [id : Nat, seq : Nat, session : Sessions \cup {None}, sessionSeq : Nat,
           stream : Streams \cup {None}, parts : Seq(Nat), bytes : Nat]
Frames == [type : {"event"}, event : Events]
          \cup [type : {"resync", "connected"}, seq : Nat, covers : Nat]

Bytes(history) == FoldLeft(LAMBDA sum, e : sum + e.bytes, 0, history)

TypeOK ==
    /\ bus.seq \in Nat
    /\ bus.sessionSeq \in [Sessions -> Nat]
    /\ bus.history \in Seq(Events)
    /\ Len(bus.history) <= HistoryLimit
    /\ Bytes(bus.history) <= ByteLimit
    /\ pending \in Seq([stream : Streams, parts : Seq(Nat)])
    /\ flushTimer \in BOOLEAN
    /\ \A c \in Clients :
         /\ socket[c].state \in {"closed", "open", "closing"}
         /\ socket[c].frames \in Seq(Frames)
         /\ socket[c].replayed \in 0..Len(socket[c].frames)
         /\ client[c].seq \in Nat
         /\ client[c].sessionSeq \in [Sessions -> Nat]
         /\ client[c].seen \cup client[c].applied \subseteq 1..Len(log)
         /\ {client[c].from, client[c].covered} \subseteq 0..Len(log)
    /\ published \in 0..MaxPublished
    /\ log \in Seq(Events)
    /\ epoch \in 0..MaxRestarts
    /\ drops \in 0..MaxDrops

NoSocket == [state |-> "closed", frames |-> <<>>, replayed |-> 0]

Init ==
    /\ bus = FreshBus
    /\ pending = <<>>
    /\ flushTimer = FALSE
    /\ socket = [c \in Clients |-> NoSocket]
    /\ client = [c \in Clients |-> NoClient]
    /\ published = 0
    /\ log = <<>>
    /\ epoch = 0
    /\ drops = 0

(***************************************************************************)
(* publishNow() and the fan-out, on the state st = [bus, log, socket].     *)
(***************************************************************************)

\* The longest part of the history that is within 90 % of the limit exceeded.
Evict(history) ==
    LET tooMany == Len(history) > HistoryLimit
        tooBig == Bytes(history) > ByteLimit
        length == IF tooMany THEN (9 * HistoryLimit) \div 10 ELSE Len(history)
        bytes == IF tooBig THEN (9 * ByteLimit) \div 10 ELSE Bytes(history)
        Fits(n) == Len(history) - n <= length
                   /\ Bytes(SubSeq(history, n + 1, Len(history))) <= bytes
        removed == CHOOSE n \in 0..Len(history) :
                       Fits(n) /\ \A m \in 0..(n - 1) : ~Fits(m)
    IN  IF tooMany \/ tooBig THEN SubSeq(history, removed + 1, Len(history)) ELSE history

Retained(history, e) ==
    IF e.bytes > ByteLimit THEN history ELSE Evict(Append(history, e))

\* isSlowClient(): too much was sent that is still under way.  Replayed events
\* are not counted.
IsSlow(s) == Len(s.frames) - s.replayed > SendLimit

Resync(seq, covers) == [type |-> "resync", seq |-> seq, covers |-> covers]

\* A slow client is told to fetch its state, and its socket is closed.
Sent(s, e) ==
    IF s.state # "open" THEN s
    ELSE IF IsSlow(s) THEN [s EXCEPT !.state = "closing", !.frames = Append(@, Resync(e.seq, e.id))]
    ELSE [s EXCEPT !.frames = Append(@, [type |-> "event", event |-> e])]

PublishNow(st, input) ==
    LET s == input.session
        sseq == IF s = None THEN 0 ELSE st.bus.sessionSeq[s] + 1
        e == [id |-> Len(st.log) + 1, seq |-> st.bus.seq + 1, session |-> s, sessionSeq |-> sseq,
              stream |-> input.stream, parts |-> input.parts, bytes |-> input.bytes]
    IN  [bus |-> [seq |-> e.seq,
                  sessionSeq |-> [t \in Sessions |-> IF t = s THEN sseq ELSE st.bus.sessionSeq[t]],
                  history |-> Retained(st.bus.history, e)],
         log |-> Append(st.log, e),
         socket |-> [c \in Clients |-> Sent(st.socket[c], e)]]

Now == [bus |-> bus, log |-> log, socket |-> socket]

\* flushDeltas()
Flushed ==
    LET Input(d) == [session |-> SessionOf[d.stream], stream |-> d.stream,
                     parts |-> d.parts, bytes |-> Len(d.parts)]
    IN  FoldLeft(LAMBDA st, d : PublishNow(st, Input(d)), Now, pending)

Becomes(st) ==
    /\ bus' = st.bus
    /\ log' = st.log
    /\ socket' = st.socket
    /\ pending' = <<>>
    /\ flushTimer' = FALSE

(***************************************************************************)
(* publish()                                                               *)
(***************************************************************************)
PublishBound == published < MaxPublished /\ published' = published + 1

\* Mutant of PublishEvent: an event does not wait for the deltas before it.
PublishEventAtOnce(session, bytes) ==
    LET st == PublishNow(Now, [session |-> session, stream |-> None,
                               parts |-> <<published'>>, bytes |-> bytes])
    IN  /\ PublishBound
        /\ bus' = st.bus /\ log' = st.log /\ socket' = st.socket
        /\ UNCHANGED <<pending, flushTimer, client, epoch, drops>>

PublishEvent(session, bytes) ==
    /\ PublishBound
    /\ Becomes(PublishNow(Flushed, [session |-> session, stream |-> None,
                                    parts |-> <<published'>>, bytes |-> bytes]))
    /\ UNCHANGED <<client, epoch, drops>>

\* The delta joins what is pending of its stream, or is the stream's first.
Buffered(stream) ==
    IF \E i \in DOMAIN pending : pending[i].stream = stream
    THEN [i \in DOMAIN pending |->
            IF pending[i].stream = stream THEN [pending[i] EXCEPT !.parts = Append(@, published')]
            ELSE pending[i]]
    ELSE Append(pending, [stream |-> stream, parts |-> <<published'>>])

\* Mutant of PublishDelta: deltaFlushTimer is not forgotten when it has gone off,
\* and so is never set again.
PublishDeltaUntimed(stream) ==
    /\ PublishBound
    /\ pending' = Buffered(stream)
    /\ flushTimer' = (flushTimer \/ published = 0)
    /\ UNCHANGED <<bus, socket, client, log, epoch, drops>>

\* bufferDelta()
PublishDelta(stream) ==
    /\ PublishBound
    /\ pending' = Buffered(stream)
    /\ flushTimer' = TRUE
    /\ UNCHANGED <<bus, socket, client, log, epoch, drops>>

FlushDeltas ==
    /\ flushTimer
    /\ \E st \in {Flushed} : Becomes(st)
    /\ UNCHANGED <<client, published, epoch, drops>>

(***************************************************************************)
(* The handshake of /api/events.                                           *)
(***************************************************************************)
Replay(entries, resync) == [entries |-> IF resync THEN <<>> ELSE entries, resync |-> resync]

\* replayEntries() for a client of all sessions.
ReplayAll(b, after) ==
    LET oldest == IF b.history = <<>> THEN b.seq + 1 ELSE Head(b.history).seq
        latestRetained == IF b.history = <<>> THEN 0 ELSE Last(b.history).seq
    IN  Replay(SelectSeq(b.history, LAMBDA e : e.seq > after),
               \/ after > 0 /\ after + 1 < oldest
               \/ after < b.seq /\ latestRetained # b.seq)

\* replayEntries() for a client of one session.
ReplaySession(b, after, s) ==
    LET history == SelectSeq(b.history, LAMBDA e : e.session = s)
        oldest == IF history = <<>> THEN b.sessionSeq[s] + 1 ELSE Head(history).sessionSeq
    IN  Replay(SelectSeq(history, LAMBDA e : e.sessionSeq > after),
               after > 0 /\ after + 1 < oldest)

EventFrames(entries) == [i \in DOMAIN entries |-> [type |-> "event", event |-> entries[i]]]
Connected(seq) == [type |-> "connected", seq |-> seq, covers |-> 0]

\* Mutant of Handshake: the number reached is sent first.
HandshakeNumberFirst(st, after) ==
    LET replay == ReplayAll(st.bus, after)
    IN  <<Connected(st.bus.seq)>> \o (IF replay.resync THEN <<Resync(st.bus.seq, Len(st.log))>>
                                      ELSE EventFrames(replay.entries))

\* What the server sends on a new socket: the replay or the order to fetch, then
\* the number reached.
Handshake(st, after) ==
    LET replay == ReplayAll(st.bus, after)
    IN  Append(IF replay.resync THEN <<Resync(st.bus.seq, Len(st.log))>>
               ELSE EventFrames(replay.entries),
               Connected(st.bus.seq))

\* An unknown number, zero, is a first connection: the page fetches its state.
Connect(c) ==
    /\ socket[c].state = "closed"
    /\ \E st \in {Flushed} : \E frames \in {Handshake(st, client[c].seq)} :
         /\ Becomes([st EXCEPT !.socket[c] = [state |-> "open", frames |-> frames,
                                              replayed |-> Len(frames)]])
         /\ client' = IF client[c].seq = 0 THEN [client EXCEPT ![c].from = Len(st.log)]
                      ELSE client
    /\ UNCHANGED <<published, epoch, drops>>

(***************************************************************************)
(* The web client.                                                         *)
(***************************************************************************)
Larger(m, n) == IF m > n THEN m ELSE n

\* onmessage with an event: known ids are ignored, and so is an event that is
\* not newer than the last one of its session.
Seen(b, e) ==
    LET new == [b EXCEPT !.seen = @ \cup {e.id}, !.seq = Larger(@, e.seq)]
    IN  IF e.id \in b.seen THEN b
        ELSE IF e.session = None THEN [new EXCEPT !.applied = @ \cup {e.id}]
        ELSE IF e.sessionSeq <= b.sessionSeq[e.session] THEN new
        ELSE [new EXCEPT !.sessionSeq[e.session] = e.sessionSeq, !.applied = @ \cup {e.id}]

\* A "resync.required" has the page fetch its state.
Noticed(b, frame) ==
    [b EXCEPT !.seq = Larger(@, frame.seq), !.covered = Larger(@, frame.covers)]

Receive(c) ==
    LET frame == Head(socket[c].frames)
    IN  /\ socket[c].frames # <<>>
        /\ socket' = [socket EXCEPT ![c].frames = Tail(@),
                                    ![c].replayed = IF @ > 0 THEN @ - 1 ELSE 0]
        /\ client' = [client EXCEPT ![c] = IF frame.type = "event" THEN Seen(@, frame.event)
                                           ELSE Noticed(@, frame)]
        /\ UNCHANGED <<bus, pending, flushTimer, published, log, epoch, drops>>

\* The close frame comes after what was sent before it.
Close(c) ==
    /\ socket[c].state = "closing"
    /\ socket[c].frames = <<>>
    /\ socket' = [socket EXCEPT ![c] = NoSocket]
    /\ UNCHANGED <<bus, pending, flushTimer, client, published, log, epoch, drops>>

Drop(c) ==
    /\ socket[c].state # "closed"
    /\ drops < MaxDrops
    /\ drops' = drops + 1
    /\ socket' = [socket EXCEPT ![c] = NoSocket]
    /\ UNCHANGED <<bus, pending, flushTimer, client, published, log, epoch>>

\* The numbers start again; the pages in the browsers stay.
Restart ==
    /\ epoch < MaxRestarts
    /\ epoch' = epoch + 1
    /\ bus' = FreshBus
    /\ pending' = <<>>
    /\ flushTimer' = FALSE
    /\ socket' = [c \in Clients |-> NoSocket]
    /\ UNCHANGED <<client, published, log, drops>>

Next ==
    \/ \E s \in Sessions \cup {None}, bytes \in {1, ByteLimit + 1} : PublishEvent(s, bytes)
    \/ \E stream \in Streams : PublishDelta(stream)
    \/ FlushDeltas
    \/ \E c \in Clients : Connect(c) \/ Receive(c) \/ Close(c) \/ Drop(c)
    \/ Restart

Spec == Init /\ [][Next]_vars

\* Timers go off, sockets deliver, and a client reconnects without end.
Fairness ==
    /\ WF_vars(FlushDeltas)
    /\ \A c \in Clients : WF_vars(Connect(c)) /\ WF_vars(Receive(c)) /\ WF_vars(Close(c))

FairSpec == Spec /\ Fairness

(***************************************************************************)
(* Properties.                                                             *)
(***************************************************************************)
UpToDate(c) == socket[c].state = "open" /\ socket[c].frames = <<>>

\* Events the page neither applied nor covered by fetching its state after them.
Missed(c) == {i \in DOMAIN log : i > client[c].from /\ i > client[c].covered
                                 /\ i \notin client[c].applied}

Huge(e) == e.bytes > ByteLimit

\* The same across restarts of the server: help/faq.md, "Does a reconnecting
\* WebSocket lose events?  No."
RestartIsNoticed ==
    \A c \in Clients : UpToDate(c) => \A i \in Missed(c) : Huge(log[i])

Numbers(entries) == {entries[i].sessionSeq : i \in DOMAIN entries}

\* A client of one session that names any number it may have seen gets every later
\* event of that session that is not huge, or is told to fetch.
SessionReplayIsComplete ==
    \A s \in Sessions : \A after \in 1..bus.sessionSeq[s] :
        LET replay == ReplaySession(bus, after, s)
        IN  replay.resync \/ \A i \in DOMAIN log :
              /\ epoch = 0
              /\ log[i].session = s
              /\ log[i].sessionSeq > after
              => Huge(log[i]) \/ log[i].sessionSeq \in Numbers(replay.entries)

\* Whatever breaks, a page that has read all there is on its socket has seen every
\* event since it first connected, or was told to fetch its state after it; but for
\* the huge ones, which are not kept for a replay.  A page of one session would miss
\* nothing either.  (The records stay well formed, and the history within its limits.)
NoSilentGap ==
    /\ TypeOK
    /\ epoch = 0 => \A c \in Clients : UpToDate(c) => \A i \in Missed(c) : Huge(log[i])
    /\ SessionReplayIsComplete

\* Deltas that were published before another event are numbered before it, and the
\* parts of one stream stay in order, however they are merged.
DeltasKeepOrder ==
    \A i, j \in DOMAIN log :
        i < j /\ (log[i].stream = None \/ log[j].stream = None \/ log[i].stream = log[j].stream) =>
            \A m \in Range(log[i].parts), n \in Range(log[j].parts) : m < n

\* Once nothing more is published and the network holds, every delta is out and every
\* page has read it all.
CatchesUp ==
    \A c \in Clients : <>[](pending = <<>> /\ UpToDate(c))
=============================================================================
