-------------------------- MODULE PersistentShell --------------------------
(***************************************************************************)
(* The bash tool of one session and one shell backend:                     *)
(* server/src/agent/persistent-shell.ts and executeBash() of               *)
(* agent-runner.ts.                                                        *)
(*                                                                         *)
(* The commands of a session, its sub-agents' included, share one shell    *)
(* that runs in a pseudo-terminal of the executor.  It is opened by the    *)
(* first command, which drains its banner and initialises it; the commands *)
(* follow each other through a chain of promises.  A shell is thrown away  *)
(* when its command is aborted or runs out of time, when the terminal      *)
(* exits, and when the configuration of the session changes.  A command    *)
(* whose shell cannot be had runs in a process of its own, as a job.       *)
(*                                                                         *)
(* The text protocol is abstracted to "the end of this command was seen".  *)
(***************************************************************************)
EXTENDS Naturals, FiniteSets

CONSTANTS
    MaxCalls,   \* bound: the bash calls
    MaxShells,  \* bound: the terminals that are ever opened
    MaxFaults,  \* bound: terminals that exit or cannot be had
    MaxAborts,  \* bound
    MaxChanges  \* bound: configuration changes

ASSUME ShellAssumption ==
    /\ MaxCalls \in Nat /\ MaxShells \in Nat
    /\ MaxFaults \in Nat /\ MaxAborts \in Nat /\ MaxChanges \in Nat

\* Calls and terminals are numbered in the order they are made.
Commands == 1..MaxCalls
Shells == 1..MaxShells
NoCommand == 0
NoShell == 0

VARIABLES
    step,       \* how far each call of executeBash() is
    behind,     \* the call whose end it waits for in the chain
    last,       \* the entry in `queues`: the call the next one waits for
    shell,      \* the entry in `shells`
    record,     \* the ShellRecord of each terminal: dead, active
    on,         \* the record a call works with
    attempt,    \* the attempts of runExclusive()
    listening,  \* the calls whose abort listener is there and can still fire
    timed,      \* the calls whose timer runs
    aborted,    \* the calls whose signal is aborted
    initFailed, \* the entry in `initFailed`
    pty,        \* the terminals, as the executor has them
    sent,       \* the calls whose input the terminal has
    exits,      \* pty.exit notifications on their way
    \* What an observer sees:
    ran,        \* how often each command was given to a shell or a job
    changes,    \* how often the configuration has changed
    issuedAt,   \* ... when each call read the session
    madeFor,    \* ... for each terminal, when the call that opened it did
    cut,        \* the queue was forgotten while calls were in it
    faults

shellVars == <<shell, record, initFailed>>
ptyVars == <<pty, sent, exits>>
callVars == <<step, on, attempt, listening, timed, ran>>
chainVars == <<behind, last>>
observed == <<changes, issuedAt, madeFor, cut, faults>>
vars == <<callVars, chainVars, shellVars, ptyVars, aborted, observed>>

Steps == {"new", "queued", "opening", "draining", "init", "exec", "job", "done"}
Working == {"opening", "draining", "init", "exec"}

InShell(c) == step[c] \in {"init", "exec"}
Active(c) == InShell(c) /\ record[on[c]].active = c

\* Sound records: a call works with the shell it has, what is listed is alive,
\* and a command is active only while its call waits for it.
TypeOK ==
    /\ step \in [Commands -> Steps]
    /\ behind \in [Commands -> Commands \cup {NoCommand}]
    /\ last \in Commands \cup {NoCommand}
    /\ shell \in Shells \cup {NoShell}
    /\ record \in [Shells -> [dead : BOOLEAN, active : Commands \cup {NoCommand}]]
    /\ on \in [Commands -> Shells \cup {NoShell}]
    /\ attempt \in [Commands -> {0, 1}]
    /\ listening \subseteq Commands
    /\ timed \subseteq Commands
    /\ aborted \subseteq Commands
    /\ initFailed \in BOOLEAN
    /\ pty \in [Shells -> {"none", "live", "gone", "closed"}]
    /\ sent \subseteq Commands
    /\ exits \subseteq Shells
    /\ ran \in [Commands -> Nat]
    /\ changes \in 0..MaxChanges
    /\ issuedAt \in [Commands -> 0..MaxChanges]
    /\ madeFor \in [Shells -> 0..MaxChanges]
    /\ cut \in BOOLEAN
    /\ faults \in 0..MaxFaults
    /\ \A c \in Commands : step[c] \in {"draining", "init", "exec"} => on[c] # NoShell
    /\ shell # NoShell => ~record[shell].dead /\ pty[shell] \in {"live", "gone"}
    /\ \A s \in Shells : record[s].active # NoCommand => InShell(record[s].active)

Init ==
    /\ step = [c \in Commands |-> "new"]
    /\ behind = [c \in Commands |-> NoCommand]
    /\ last = NoCommand
    /\ shell = NoShell
    /\ record = [s \in Shells |-> [dead |-> FALSE, active |-> NoCommand]]
    /\ on = [c \in Commands |-> NoShell]
    /\ attempt = [c \in Commands |-> 0]
    /\ listening = {}
    /\ timed = {}
    /\ aborted = {}
    /\ initFailed = FALSE
    /\ pty = [s \in Shells |-> "none"]
    /\ sent = {}
    /\ exits = {}
    /\ ran = [c \in Commands |-> 0]
    /\ changes = 0
    /\ issuedAt = [c \in Commands |-> 0]
    /\ madeFor = [s \in Shells |-> 0]
    /\ cut = FALSE
    /\ faults = 0

(***************************************************************************)
(* What happens to a call.                                                 *)
(***************************************************************************)

\* It returns a result or throws.
Ends(c) == step' = [step EXCEPT ![c] = "done"]

\* PersistentShellUnavailableError: the command becomes a job.  The job adds a
\* listener to the signal and does not ask whether it is aborted already.
FallsBack(c, hears) ==
    /\ step' = [step EXCEPT ![c] = "job"]
    /\ ran' = [ran EXCEPT ![c] = @ + 1]
    /\ listening' = IF c \in aborted THEN hears \ {c} ELSE hears \cup {c}

\* runExclusive(): the failure of a command in its shell is its result.
ExecRejected(c, hears) ==
    /\ Ends(c)
    /\ listening' = hears
    /\ UNCHANGED ran

\* The promise of execOnShell() is rejected, by an error or by the abort of the
\* call.  ensureShell() gives the backend up for the session when that happens
\* in the initialisation.
Rejected(c, hears) ==
    \/ /\ step[c] = "init"
       /\ initFailed' = TRUE
       /\ FallsBack(c, hears)
    \/ /\ step[c] = "exec"
       /\ ExecRejected(c, hears)
       /\ UNCHANGED initFailed

(***************************************************************************)
(* What happens to a shell.                                                *)
(***************************************************************************)

\* discard(), closePty(): no notification of the terminal is heard any more.
Destroyed(s) == record' = [record EXCEPT ![s] = [dead |-> TRUE, active |-> NoCommand]]

Unlisted(s) == shell' = IF shell = s THEN NoShell ELSE shell

\* Mutant of Closes: the executor is not told.
ClosesEventsOnly(s) ==
    /\ exits' = exits \ {s}
    /\ UNCHANGED pty

Closes(s) ==
    /\ pty' = [pty EXCEPT ![s] = "closed"]
    /\ exits' = exits \ {s}

Destroy(s) == Destroyed(s) /\ Unlisted(s) /\ Closes(s)

\* settle() takes the timer and the listener of whoever is active in the shell.
SettledOf(s) == {c \in Commands : record[s].active = c}

\* execOnShell(): the call becomes the active one.
Execute(c, s, pc) ==
    /\ record' = [record EXCEPT ![s].active = c]
    /\ step' = [step EXCEPT ![c] = pc]
    /\ on' = [on EXCEPT ![c] = s]
    /\ listening' = IF c \in aborted THEN listening \ {c} ELSE listening \cup {c}
    /\ timed' = timed \cup {c}
    /\ sent' = sent \ {c}
    /\ UNCHANGED ran

(***************************************************************************)
(* executeBash() and run().                                                *)
(***************************************************************************)

\* Mutant of Run: the command does not wait for the one before it.
RunAtOnce(c) ==
    /\ step[c] = "new" /\ \A b \in 1..(c - 1) : step[b] # "new"
    /\ step' = [step EXCEPT ![c] = "queued"]
    /\ issuedAt' = [issuedAt EXCEPT ![c] = changes]
    /\ last' = c
    /\ UNCHANGED <<on, attempt, listening, timed, ran, behind, shellVars, ptyVars, aborted,
                   changes, madeFor, cut, faults>>

\* The session is read, and the call put at the end of the chain.
Run(c) ==
    /\ step[c] = "new" /\ \A b \in 1..(c - 1) : step[b] # "new"
    /\ step' = [step EXCEPT ![c] = "queued"]
    /\ issuedAt' = [issuedAt EXCEPT ![c] = changes]
    /\ behind' = [behind EXCEPT ![c] = last]
    /\ last' = c
    /\ UNCHANGED <<on, attempt, listening, timed, ran, shellVars, ptyVars, aborted,
                   changes, madeFor, cut, faults>>

\* ensureShell(): the shell there is, or a new one.
Ensure(c) ==
    \/ /\ shell # NoShell
       /\ Execute(c, shell, "exec")
       /\ UNCHANGED <<shell, initFailed, pty, exits, attempt>>
    \/ /\ shell = NoShell
       /\ step' = [step EXCEPT ![c] = "opening"]
       /\ UNCHANGED <<on, attempt, listening, timed, ran, sent, shellVars, pty, exits>>

\* runExclusive(), when the call before it has settled.
Start(c) ==
    /\ step[c] = "queued"
    /\ behind[c] # NoCommand => step[behind[c]] \in {"job", "done"}
    /\ \/ /\ c \in aborted
          /\ Ends(c)
          /\ UNCHANGED <<on, attempt, listening, timed, ran, shellVars, ptyVars>>
       \/ /\ c \notin aborted
          /\ initFailed
          /\ FallsBack(c, listening)
          /\ UNCHANGED <<on, attempt, timed, shellVars, ptyVars>>
       \/ /\ c \notin aborted
          /\ ~initFailed
          /\ Ensure(c)
    /\ UNCHANGED <<chainVars, aborted, observed>>

\* session.configure fails, which is an error, or pty.open does.
OpenFails(c) ==
    /\ step[c] = "opening"
    /\ faults < MaxFaults
    /\ faults' = faults + 1
    /\ \/ FallsBack(c, listening)
       \/ Ends(c) /\ UNCHANGED <<listening, ran>>
    /\ UNCHANGED <<on, attempt, timed, chainVars, shellVars, ptyVars, aborted, changes, issuedAt,
                   madeFor, cut>>

\* pty.open, in the executor.
PtyOpen(s) ==
    /\ pty[s] = "none" /\ \A t \in 1..(s - 1) : pty[t] # "none"
    /\ pty' = [pty EXCEPT ![s] = "live"]

\* The terminal is open; the record enters the table before it is initialised.
Opened(c, s) ==
    /\ step[c] = "opening"
    /\ PtyOpen(s)
    /\ shell' = s
    /\ step' = [step EXCEPT ![c] = "draining"]
    /\ on' = [on EXCEPT ![c] = s]
    /\ madeFor' = [madeFor EXCEPT ![s] = issuedAt[c]]
    /\ UNCHANGED <<attempt, listening, timed, ran, chainVars, record, initFailed, sent, exits,
                   aborted, changes, issuedAt, cut, faults>>

\* The banner is over, and the environments of the session are there.
Drained(c) ==
    LET s == on[c]
    IN  /\ step[c] = "draining"
        /\ \/ /\ record[s].dead
              /\ initFailed' = TRUE
              /\ FallsBack(c, listening)
              /\ UNCHANGED <<on, timed, shell, record, ptyVars>>
           \/ /\ ~record[s].dead
              /\ Execute(c, s, "init")
              /\ UNCHANGED <<shell, initFailed, pty, exits>>
        /\ UNCHANGED <<attempt, chainVars, aborted, observed>>

(***************************************************************************)
(* The command in its shell.                                               *)
(***************************************************************************)

\* pty.input, in the executor.
PtyInput(c) ==
    /\ pty[on[c]] = "live"
    /\ sent' = sent \cup {c}

\* writeInput(): the executor takes the input.
Input(c) ==
    /\ InShell(c)
    /\ c \notin sent
    /\ PtyInput(c)
    /\ ran' = [ran EXCEPT ![c] = IF step[c] = "exec" THEN @ + 1 ELSE @]
    /\ UNCHANGED <<step, on, attempt, listening, timed, chainVars, shellVars, pty, exits, aborted,
                   observed>>

\* The executor no longer knows the terminal: it is replaced, once.
MayRetry(c, notFound) == notFound /\ step[c] = "exec" /\ attempt[c] = 0

\* writeInput() fails, because the process has ended or the terminal was removed
\* with its session; nothing happens when the shell has no active command.
InputFails(c, notFound) ==
    LET s == on[c]
    IN  /\ InShell(c) /\ c \notin sent
        /\ pty[s] = "gone"
        /\ record[s].active # NoCommand
        /\ Destroy(s)
        /\ timed' = timed \ (SettledOf(s) \cup {c})
        /\ \/ /\ MayRetry(c, notFound)
              /\ attempt' = [attempt EXCEPT ![c] = 1]
              /\ step' = [step EXCEPT ![c] = "opening"]
              /\ listening' = listening \ (SettledOf(s) \cup {c})
              /\ UNCHANGED <<ran, initFailed>>
           \/ /\ ~MayRetry(c, notFound)
              /\ Rejected(c, listening \ (SettledOf(s) \cup {c}))
              /\ UNCHANGED attempt
        /\ UNCHANGED <<on, chainVars, sent, aborted, observed>>

\* The end of the active command is read from the terminal, whose exit may be the
\* next thing to be read.
Completes(c) ==
    LET s == on[c]
    IN  /\ Active(c) /\ c \in sent
        /\ pty[s] \in {"live", "gone"}
        /\ \/ /\ step[c] = "init"
              /\ Execute(c, s, "exec")
           \/ /\ step[c] = "exec"
              /\ record' = [record EXCEPT ![s].active = NoCommand]
              /\ listening' = listening \ {c}
              /\ timed' = timed \ {c}
              /\ Ends(c)
              /\ UNCHANGED <<on, sent, ran>>
        /\ UNCHANGED <<attempt, chainVars, shell, initFailed, pty, exits, aborted, observed>>

\* The initialisation ends with an exit code.
InitFails(c) ==
    /\ Active(c) /\ c \in sent /\ step[c] = "init"
    /\ faults < MaxFaults
    /\ faults' = faults + 1
    /\ Destroy(on[c])
    /\ timed' = timed \ {c}
    /\ Rejected(c, listening \ {c})
    /\ UNCHANGED <<on, attempt, chainVars, sent, aborted, changes, issuedAt, madeFor, cut>>

\* A timer or an abort listener fires: it ends its own call and removes the timer
\* and the listener of the one that is active.
Fires(c) ==
    LET s == on[c]
    IN  \/ /\ record[s].active # NoCommand
           /\ Destroy(s)
           /\ timed' = timed \ (SettledOf(s) \cup {c})
           /\ Rejected(c, listening \ (SettledOf(s) \cup {c}))
        \/ /\ record[s].active = NoCommand
           /\ timed' = timed \ {c}
           /\ listening' = listening \ {c}
           /\ UNCHANGED <<step, ran, shellVars, pty, exits>>

TimerFires(c) ==
    /\ InShell(c) /\ c \in timed
    /\ Fires(c)
    /\ UNCHANGED <<on, attempt, chainVars, sent, aborted, observed>>

\* The user, or the run, gives the command up; nobody is told of it before the
\* command is in its shell or has become a job.
Abort(c) ==
    /\ Cardinality(aborted) < MaxAborts
    /\ c \notin aborted
    /\ step[c] \notin {"new", "done"}
    /\ aborted' = aborted \cup {c}
    /\ \/ InShell(c) /\ c \in listening /\ Fires(c)
       \/ /\ ~(InShell(c) /\ c \in listening)
          /\ UNCHANGED <<step, listening, timed, ran, shellVars, pty, exits>>
    /\ UNCHANGED <<on, attempt, chainVars, sent, observed>>

\* The process of a job ends, by itself, by its limit, or cancelled by the
\* listener of the call.
JobEnds(c) ==
    /\ step[c] = "job"
    /\ Ends(c)
    /\ listening' = listening \ {c}
    /\ UNCHANGED <<on, attempt, timed, ran, chainVars, shellVars, ptyVars, aborted, observed>>

(***************************************************************************)
(* The terminal and the configuration.                                     *)
(***************************************************************************)

\* The shell ends, or the executor with it.
PtyExits(s) ==
    /\ pty[s] = "live"
    /\ faults < MaxFaults
    /\ faults' = faults + 1
    /\ pty' = [pty EXCEPT ![s] = "gone"]
    /\ exits' = exits \cup {s}
    /\ UNCHANGED <<callVars, chainVars, shellVars, sent, aborted, changes, issuedAt, madeFor, cut>>

\* Mutant of OnExit: the shell is discarded, its command is not told.
OnExitDiscards(s) ==
    /\ s \in exits
    /\ Destroy(s)
    /\ UNCHANGED <<callVars, initFailed, chainVars, sent, aborted, observed>>

\* The handler of pty.exit: the active command fails.
OnExit(s) ==
    /\ s \in exits
    /\ Destroy(s)
    /\ timed' = timed \ SettledOf(s)
    /\ \/ \E c \in SettledOf(s) : Rejected(c, listening \ {c})
       \/ SettledOf(s) = {} /\ UNCHANGED <<step, listening, ran, initFailed>>
    /\ UNCHANGED <<on, attempt, chainVars, sent, aborted, observed>>

Disposed(s) == Destroy(s)

\* disposeSession(), after the configuration was saved.  A call that was being
\* initialised is rejected like any other; its ensureShell() goes on afterwards
\* and gives the backend up again.
Dispose ==
    /\ changes < MaxChanges
    /\ changes' = changes + 1
    /\ \/ /\ shell # NoShell
          /\ Disposed(shell)
          /\ timed' = timed \ SettledOf(shell)
          /\ \/ /\ SettledOf(shell) # {}
                /\ \E c \in SettledOf(shell) :
                     \/ step[c] = "init" /\ Rejected(c, listening \ {c})
                     \/ /\ step[c] = "exec"
                        /\ ExecRejected(c, listening \ {c})
                        /\ initFailed' = FALSE
             \/ /\ SettledOf(shell) = {}
                /\ initFailed' = FALSE
                /\ UNCHANGED <<step, listening, ran>>
       \/ /\ shell = NoShell
          /\ initFailed' = FALSE
          /\ UNCHANGED <<step, listening, timed, ran, shell, record, pty, exits>>
    /\ last' = NoCommand
    /\ cut' = (cut \/ \E c \in Commands : step'[c] \in Working \cup {"queued"}
                                          \/ step[c] = "init")
    /\ UNCHANGED <<on, attempt, behind, sent, aborted, issuedAt, madeFor, faults>>

(***************************************************************************)
(* The specification.                                                      *)
(***************************************************************************)
Advance ==
    \/ \E c \in Commands :
          \/ Start(c) \/ (\E s \in Shells : Opened(c, s)) \/ Drained(c)
          \/ Input(c) \/ (\E notFound \in BOOLEAN : InputFails(c, notFound))
          \/ TimerFires(c) \/ JobEnds(c)
    \/ \E s \in Shells : OnExit(s)

Environment ==
    \/ \E c \in Commands : Run(c) \/ Abort(c) \/ Completes(c) \/ OpenFails(c) \/ InitFails(c)
    \/ \E s \in Shells : PtyExits(s)
    \/ Dispose

Next == Advance \/ Environment

\* Promises settle, timers fire and notifications arrive; the end of a job is
\* brought about by its limit.  No command has to end by itself, and nobody has to
\* call, to abort or to fail.
Spec == Init /\ [][Next]_vars /\ WF_vars(Advance)

(***************************************************************************)
(* Properties.                                                             *)
(***************************************************************************)

\* Unless the queue was forgotten with calls in it, one call at a time works with
\* the shell: the output of two commands is never mixed.  And whatever fails, is
\* retried or falls back to a job: no command runs twice.
Serialized ==
    /\ TypeOK
    /\ ~cut => Cardinality({c \in Commands : step[c] \in Working}) <= 1
    /\ \A c \in Commands : ran[c] <= 1

\* ... every terminal the executor runs is the one of the table: none is left
\* running that nobody will ever close; and the one that later commands will use was
\* opened for the configuration the session has now.
NoStrayTerminal ==
    ~cut =>
        /\ \A s \in Shells : pty[s] \in {"live", "gone"} => shell = s
        /\ shell # NoShell => madeFor[shell] = changes

\* ... and every call comes to its end, whatever happens to its shell.
CallsEnd == []<>(cut \/ \A c \in Commands : step[c] \in {"new", "done"})

\* What the comment at `queues` says: "the bash calls of a session and backend are
\* serialised, so that they do not spoil each other's sentinel".  (Does not hold: a
\* change of the configuration forgets the chain and not the calls in it.)
AlwaysSerialized ==
    \A b, c \in Commands : b # c /\ InShell(b) /\ InShell(c) => on[b] # on[c]
=============================================================================
