----------------------------- MODULE CoreRouter -----------------------------
(***************************************************************************)
(* Which policy the executor has for a session:                            *)
(* server/src/sandbox/core-router.ts, over CoreClient.                     *)
(*                                                                         *)
(* The executor keeps the policies in its memory.  The router remembers    *)
(* the policy each session was last given, and whether the process has it; *)
(* a process that exits or gets ready has none.  A command, and the        *)
(* cancellation of one, first looks up its session; if the process does    *)
(* not have its policy, the first such call starts the process and sends   *)
(* the policy, and later ones wait for it.  A filtered policy is sent      *)
(* twice, before and after the start of its proxy.                         *)
(*                                                                         *)
(* Sessions that run in a virtual machine of their own are not modelled.   *)
(***************************************************************************)
EXTENDS CoreClient

CONSTANTS
    Changes,        \* bound: calls of configureSession()
    DefaultPolicy,  \* what a session has that was never configured
    Filtered,       \* the policies that need a proxy
    MaxEvents       \* bound: faults, cancellations, changes and stops together

ASSUME RouterAssumption ==
    /\ DefaultPolicy \in Policies
    /\ Filtered \subseteq Policies
    /\ MaxEvents \in Nat

Calls == ({"run", "cancel"} \X Commands) \cup ({"change"} \X Changes)
NoCall == Client

ASSUME CallersAssumption == Callers = Calls \cup {Client}

VARIABLES
    call,       \* the calls of run(), cancelExec() and configureSession()
    desired,    \* desiredConfigs
    configured, \* configuredClients: the sessions whose policy the process has
    configuring,\* which call is sending the policy of a session
    \* What an observer sees:
    cancelled,  \* the commands whose cancellation was asked for
    mixed,      \* two policies of a session were on their way together, or one
                \* was sent by half
    events

routerVars == <<call, desired, configured, configuring, cancelled, mixed>>
vars == <<poolVars, clientVars, routerVars, events>>

Steps == {"new", "meta", "starting", "joining", "configuring", "proxy", "cancelling", "answered",
          "done"}

NewCall(s) == [pc |-> "new", session |-> s, want |-> NoPolicy, second |-> FALSE, joined |-> <<>>]

SessionOfCall(k) == IF k[1] = "change" THEN AnySession ELSE SessionOf[k[2]]

TypeOK ==
    /\ PoolTypeOK
    /\ ClientTypeOK
    /\ call \in [Calls -> [pc : Steps, session : Sessions, want : Policies \cup {NoPolicy},
                           second : BOOLEAN, joined : Seq(Calls)]]
    /\ desired \in [Sessions -> Policies \cup {NoPolicy}]
    /\ configured \subseteq Sessions
    /\ configuring \in [Sessions -> Calls \cup {NoCall}]
    /\ cancelled \subseteq Commands
    /\ mixed \in BOOLEAN
    /\ events \in 0..MaxEvents
    /\ \A i \in DOMAIN starters : call[starters[i]].pc = "starting"

Init ==
    /\ PoolInit
    /\ ClientInit
    /\ call = [k \in Calls |-> NewCall(SessionOfCall(k))]
    /\ desired = [s \in Sessions |-> NoPolicy]
    /\ configured = {}
    /\ configuring = [s \in Sessions |-> NoCall]
    /\ cancelled = {}
    /\ mixed = FALSE
    /\ events = 0

Wanted(s) == IF desired[s] = NoPolicy THEN DefaultPolicy ELSE desired[s]

Goto(k, pc) == call' = [call EXCEPT ![k].pc = pc]

(***************************************************************************)
(* invalidateClient(), on core.exit and core.ready.                        *)
(***************************************************************************)

\* Mutant of Invalidate: what the old process had counts for the new one.
InvalidateConfiguringOnly ==
    /\ configuring' = [s \in Sessions |-> NoCall]
    /\ UNCHANGED <<call, desired, configured, cancelled, mixed>>

Invalidate ==
    /\ configured' = {}
    /\ configuring' = [s \in Sessions |-> NoCall]
    /\ UNCHANGED <<call, desired, cancelled, mixed>>

(***************************************************************************)
(* The calls: a lookup of the session first.                               *)
(***************************************************************************)
Issue(k) ==
    /\ micro = <<>>
    /\ call[k].pc = "new"
    /\ UNCHANGED <<desired, configured, configuring>>
    /\ UNCHANGED <<poolVars, clientVars>>

IssueRun(c) ==
    /\ Issue(<<"run", c>>)
    /\ Goto(<<"run", c>>, "meta")
    /\ UNCHANGED <<cancelled, mixed>>

\* A command may be cancelled at any time after its run() was called.
IssueCancel(c) ==
    /\ Issue(<<"cancel", c>>)
    /\ call[<<"run", c>>].pc # "new"
    /\ Goto(<<"cancel", c>>, "meta")
    /\ cancelled' = cancelled \cup {c}
    /\ UNCHANGED mixed

IssueChange(n, s, p) ==
    /\ Issue(<<"change", n>>)
    /\ call' = [call EXCEPT ![<<"change", n>>] = [NewCall(s) EXCEPT !.pc = "meta", !.want = p]]
    /\ UNCHANGED <<cancelled, mixed>>

\* The call does what it came for: run() or cancelExec() of the client.
Proceed(k) ==
    LET c == k[2]
    IN  \/ k[1] = "run" /\ Run(c)
        \/ k[1] = "cancel" /\ CancelExec(k, c)

After(k) ==
    IF k[1] = "cancel" /\ k[2] \in execRunning THEN "cancelling" ELSE "done"

\* session.configure, the first or the second time.
ConfigureRequest(k) ==
    Request("configure", k, NoCommand, call[k].session, call'[k].want)

\* The promise of configuring is rejected with its call, and so is everyone
\* who waits for it.
FailCall(k) ==
    /\ call' = [call EXCEPT ![k].pc = "done", ![k].joined = <<>>]
    /\ configuring' = [s \in Sessions |-> IF configuring[s] = k THEN NoCall ELSE configuring[s]]
    /\ outcome' = IF k[1] = "run" THEN [outcome EXCEPT ![k[2]] = "lost"] ELSE outcome
    /\ UNCHANGED <<desired, configured, cancelled>>

\* Whether another policy of the session is on its way when this one is sent.
Underway(k) == call[k].pc \in {"starting", "configuring", "proxy"}
Mixed(k) ==
    mixed' = (mixed \/ \E l \in Calls \ {k} :
                           Underway(l) /\ call[l].session = call[k].session)

\* ensureConfigured(), for a session whose policy the process may not have.
\* configureClient() awaits start() before it sends the policy read here.
EnsureConfigured(k) ==
    LET s == call[k].session
        first == configuring[s]
    IN  /\ s \notin configured
        /\ \/ /\ first # NoCall
              /\ call' = [call EXCEPT ![k].pc = "joining", ![first].joined = Append(@, k)]
              /\ UNCHANGED configuring
           \/ /\ first = NoCall
              /\ call' = [call EXCEPT ![k].want = Wanted(s),
                                      ![k].pc = IF Connected /\ ready THEN "configuring"
                                                ELSE "starting"]
              /\ configuring' = [configuring EXCEPT ![s] = k]
        /\ UNCHANGED <<desired, configured, cancelled, outcome>>

\* What ensureConfigured() asks of the client meanwhile.
StartOrConfigure(k) ==
    \/ /\ call'[k].pc = "configuring"
       /\ Sent(<<ConfigureRequest(k)>>)
       /\ Mixed(k)
       /\ UNCHANGED <<linkVars, outbox>>
    \/ /\ call'[k].pc = "starting" /\ Connected
       /\ starters' = Append(starters, k)
       /\ UNCHANGED <<generation, failed, ready, timers, armed, children, closing, pending, mixed, poolVars>>
    \/ /\ call'[k].pc = "starting" /\ ~Connected
       /\ Launch
       /\ starters' = Append(starters, k)
       /\ UNCHANGED <<timers, armed, mixed>>
    \/ /\ call'[k].pc = "joining"
       /\ UNCHANGED <<linkVars, pending, mixed, poolVars>>

\* The session was looked up, for run() or cancelExec().
LookedUp(k) ==
    /\ micro = <<>>
    /\ k[1] # "change"
    /\ call[k].pc = "meta"
    /\ \/ /\ call[k].session \in configured
          /\ Proceed(k)
          /\ Goto(k, After(k))
          /\ UNCHANGED <<desired, configured, configuring, cancelled, mixed>>
       \/ /\ ~(stopping /\ ~Connected)
          /\ EnsureConfigured(k)
          /\ StartOrConfigure(k)
          /\ UNCHANGED <<execVars, stopping, faults>>
       \/ /\ call[k].session \notin configured
          /\ stopping /\ ~Connected
          /\ FailCall(k)
          /\ UNCHANGED <<linkVars, execVars, pending, stopping, mixed, faults, poolVars>>
    /\ UNCHANGED micro

\* call() of session.configure for a policy of the user, or for the second time.
Configure(k) ==
    \/ /\ Connected
       /\ Mixed(k)
       /\ call' = [call EXCEPT ![k].pc = "configuring", ![k].second = (call[k].pc = "proxy")]
       /\ Sent(<<ConfigureRequest(k)>>)
       /\ UNCHANGED <<linkVars, micro, outbox, outcome, desired, configured, configuring, cancelled>>
    \/ /\ ~Connected
       /\ FailCall(k)
       /\ Kick
       /\ micro' = micro \o Continues(call[k].joined, "lost")
       /\ UNCHANGED mixed

LookedUpChange(k) ==
    /\ micro = <<>>
    /\ k[1] = "change"
    /\ call[k].pc = "meta"
    /\ Configure(k)
    /\ UNCHANGED <<execVars, stopping, faults>>

\* The proxy of a filtered policy is up, or is not.
ProxyStarted(k) ==
    /\ micro = <<>>
    /\ call[k].pc = "proxy"
    /\ Configure(k)
    /\ UNCHANGED <<execVars, stopping, faults>>

ProxyFailed(k) ==
    /\ micro = <<>>
    /\ call[k].pc = "proxy"
    /\ faults < MaxFaults
    /\ faults' = faults + 1
    /\ FailCall(k)
    /\ mixed' = (mixed \/ k[1] = "change")
    /\ micro' = Continues(call[k].joined, "lost")
    /\ UNCHANGED <<linkVars, execVars, pending, stopping, poolVars>>

(***************************************************************************)
(* A promise has settled, and the call that awaits it goes on.             *)
(***************************************************************************)
Settled == Head(micro)
Going(pc, answers) ==
    /\ micro # <<>>
    /\ call[Settled.call].pc = pc
    /\ Settled.answer \in answers

\* start() has succeeded: the policy that was picked before it is sent.
ContinueStarted ==
    LET k == Settled.call
    IN  /\ Going("starting", {"ok"})
        /\ Goto(k, "configuring")
        /\ Sent(<<Request("configure", k, NoCommand, call[k].session, call[k].want)>>)
        /\ Mixed(k)
        /\ micro' = Tail(micro)
        /\ UNCHANGED <<linkVars, execVars, stopping, outcome, faults, outbox>>
        /\ UNCHANGED <<desired, configured, configuring, cancelled>>

ContinueProxy ==
    LET k == Settled.call
    IN  /\ Going("configuring", {"ok"})
        /\ call[k].want \in Filtered /\ ~call[k].second
        /\ Goto(k, "proxy")
        /\ micro' = Tail(micro)
        /\ UNCHANGED <<linkVars, execVars, pending, stopping, outcome, faults, poolVars>>
        /\ UNCHANGED <<desired, configured, configuring, cancelled, mixed>>

SentInFull(k) == call[k].want \in Filtered => call[k].second

\* The process has the policy; a new one is remembered from now on.
ContinueChanged ==
    LET k == Settled.call
    IN  /\ Going("configuring", {"ok"})
        /\ k[1] = "change" /\ SentInFull(k)
        /\ Goto(k, "done")
        /\ desired' = [desired EXCEPT ![call[k].session] = call[k].want]
        /\ configured' = configured \cup {call[k].session}
        /\ micro' = Tail(micro)
        /\ UNCHANGED <<linkVars, execVars, pending, stopping, outcome, faults, poolVars>>
        /\ UNCHANGED <<configuring, cancelled, mixed>>

\* The call that sent the policy goes on, and behind it those that waited.
ContinueConfigured ==
    LET k == Settled.call
    IN  /\ Going("configuring", {"ok"})
        /\ k[1] # "change" /\ SentInFull(k)
        /\ Proceed(k)
        /\ call' = [call EXCEPT ![k].pc = After(k), ![k].joined = <<>>]
        /\ configured' = configured \cup {call[k].session}
        /\ configuring' = [s \in Sessions |-> IF configuring[s] = k THEN NoCall
                                              ELSE configuring[s]]
        /\ micro' = Tail(micro) \o Continues(call[k].joined, "ok")
        /\ UNCHANGED <<desired, cancelled, mixed>>

ContinueJoined ==
    LET k == Settled.call
    IN  /\ Going("joining", {"ok"})
        /\ Proceed(k)
        /\ Goto(k, After(k))
        /\ micro' = Tail(micro)
        /\ UNCHANGED <<desired, configured, configuring, cancelled, mixed>>

\* The answer to exec.cancel does not matter to who asked for it.
ContinueCancelled ==
    LET k == Settled.call
    IN  /\ Going("cancelling", Answers \cup {"lost"})
        /\ Goto(k, "answered")
        /\ micro' = Tail(micro)
        /\ UNCHANGED <<linkVars, execVars, pending, stopping, outcome, faults, poolVars>>
        /\ UNCHANGED <<desired, configured, configuring, cancelled, mixed>>

\* Mutant of ContinueFailed: whoever waits for the policy is forgotten.
ContinueFailedAlone ==
    LET k == Settled.call
    IN  /\ \E pc \in {"starting", "configuring", "joining"} : Going(pc, {"lost"})
        /\ FailCall(k)
        /\ micro' = Tail(micro)
        /\ UNCHANGED <<linkVars, execVars, pending, stopping, mixed, faults, poolVars>>

ContinueFailed ==
    LET k == Settled.call
    IN  /\ \E pc \in {"starting", "configuring", "joining"} : Going(pc, {"lost"})
        /\ FailCall(k)
        /\ micro' = Tail(micro) \o Continues(call[k].joined, "lost")
        /\ UNCHANGED <<linkVars, execVars, pending, stopping, mixed, faults, poolVars>>

Continue ==
    \/ ContinueStarted
    \/ ContinueProxy
    \/ ContinueChanged
    \/ ContinueConfigured
    \/ ContinueJoined
    \/ ContinueCancelled
    \/ ContinueFailed

(***************************************************************************)
(* The events of the client, as the router sees them.                      *)
(***************************************************************************)
Exits == Stopped \/ \E g \in closing : CloseEvent(g)

\* core.exit is emitted by failConnection().
CoreExit ==
    /\ Exits
    /\ IF failed' # failed THEN Invalidate ELSE UNCHANGED routerVars

CoreReady == OnPong /\ Invalidate

ClientStep ==
    \/ /\ OnResult \/ OnAnswer \/ TimerFires
       /\ UNCHANGED routerVars
    \/ CoreReady

\* What the process does; promises do not wait for it.
HandleRequest ==
    /\ micro = <<>>
    /\ Alive
    /\ MainLoop
    /\ UNCHANGED <<clientVars, routerVars>>

ThreadStep(w) ==
    /\ micro = <<>>
    /\ Alive
    /\ WorkerStep(w)
    /\ UNCHANGED <<clientVars, routerVars>>

ProcessStep == HandleRequest \/ \E w \in Workers : ThreadStep(w)

CommandReturns(w, how) ==
    /\ micro = <<>>
    /\ Alive
    /\ Returns(w, how)
    /\ UNCHANGED <<clientVars, routerVars>>

ClientCrash ==
    /\ micro = <<>>
    /\ Crash
    /\ UNCHANGED routerVars

\* What users do and what goes wrong, MaxEvents times in all.
Disturbance ==
    \/ \E c \in Commands : IssueCancel(c)
    \/ \E n \in Changes, s \in Sessions, p \in Policies : IssueChange(n, s, p)
    \/ \E n \in 1..MaxConcurrency : SetExecConcurrency(n) /\ UNCHANGED routerVars
    \/ Stop /\ UNCHANGED routerVars
    \/ ClientCrash
    \/ Timeout /\ Invalidate
    \/ \E k \in Calls : ProxyFailed(k)

\* What goes on by itself.
Driven ==
    \/ \E k \in Calls : LookedUp(k) \/ LookedUpChange(k) \/ ProxyStarted(k)
    \/ Continue
    \/ ClientStep
    \/ CoreExit
    \/ ProcessStep
    \/ \E w \in Workers : CommandReturns(w, "stopped")

\* What commands and their users do.
Use ==
    \/ \E c \in Commands : IssueRun(c)
    \/ \E w \in Workers, how \in {"ended", "broken"} : CommandReturns(w, how)

Next ==
    \/ Driven /\ UNCHANGED events
    \/ Use /\ UNCHANGED events
    \/ /\ events < MaxEvents
       /\ Disturbance
       /\ events' = events + 1

Spec == Init /\ [][Next]_vars

\* Files are read, frames are delivered, a process that exits is noticed, the
\* threads run, timers go off, and a command whose flag is raised is stopped:
\* as long as any of this is due, some of it happens.  None of it can go on for
\* ever, so each of it happens.  Nothing says that a command ends by itself.
Fairness == WF_vars(Driven /\ UNCHANGED events)

FairSpec == Spec /\ Fairness

(***************************************************************************)
(* Properties.                                                             *)
(***************************************************************************)

\* Every command that reaches a process finds its session configured there,
\* after any crash, restart and timeout: the router never takes the policy of
\* an old process for one of the new.
ConfiguredBeforeUse ==
    inbox # <<>> /\ Head(inbox).id[1] = "run" => policy[SessionOf[Head(inbox).command]] # NoPolicy

Idle == \A k \in Calls : call[k].pc \in {"new", "answered", "done"}

\* Once nothing is under way the process has the policy the router remembers:
\* "a restarted shared core is configured before its first tool call".
CoreHasDesiredPolicy == Idle => \A s \in configured : Alive => policy[s] = Wanted(s)

\* That is so, after any restart, unless two policies of a session were on their
\* way together, or one was sent by half because its proxy did not start.  And no
\* command ever overtakes the configuration.
RestartKeepsPolicy ==
    /\ ConfiguredBeforeUse
    /\ mixed \/ CoreHasDesiredPolicy

\* Only the current generation has a process, and only while it is connected: every
\* other one was killed.  A generation is given up only for a fault of its own: neither
\* an event of an older process nor a timer that was forgotten ends a healthy one.  And
\* a place is never left free while a command waits for one.
ProcessIsKept ==
    /\ TypeOK
    /\ children \subseteq {generation} /\ (children # {} => Connected)
    /\ generation <= faults + 1
    /\ execQueue # <<>> => Cardinality(execRunning) >= concurrency

Contract == INSTANCE ExecContract WITH asked <- {c \in Commands : call[<<"run", c>>].pc # "new"}

\* What the server and the process do together is what the contract allows:
\* no command is started twice or after its caller was told its fate, by a
\* restart or a cancellation, and nobody is told what did not happen.
KeepsContract == Contract!Spec

\* Nobody is kept waiting, whatever fails and whoever joins whom: a call that has not
\* reached the client goes on or fails; a cancellation that finds its command with the
\* process settles it, though the command would never end by itself; and after a failure
\* the process comes back, unless the server stops.
CallsSettle ==
    /\ []<>(\A k \in Calls : call[k].pc \in {"new", "cancelling", "answered", "done"})
    /\ []<>(\A c \in Commands :
               call[<<"cancel", c>>].pc \in {"cancelling", "answered"} => outcome[c] # "none")
    /\ []<>(generation > 0 => ready \/ stopping)
=============================================================================
