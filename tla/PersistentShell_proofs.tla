----------------------- MODULE PersistentShell_proofs -----------------------
(***************************************************************************)
(* The bash calls of a session follow each other, whatever fails, is       *)
(* aborted or changes: proved for any number of calls, terminals, faults   *)
(* and configuration changes.                                              *)
(*                                                                         *)
(* Serialized and NoStrayTerminal are kept only because of the order of the *)
(* chain.  InOrder says that all calls before one that has had its turn have *)
(* settled; Listed, that the table holds every terminal that runs, and none *)
(* while one is being opened; Records, that the active command of a terminal *)
(* is one that works with it; RanOnce, where a command has not run yet.    *)
(* Together with the types they are inductive, also after the chain was    *)
(* forgotten (cut), when only Records and RanOnce say more than types.     *)
(***************************************************************************)
EXTENDS PersistentShell, FiniteSetTheorems, TLAPS

\* The call no longer holds its place in the chain.
Settled(c) == step[c] \in {"job", "done"}

\* The range of each variable.
Typed ==
    /\ step \in [Commands -> Steps]
    /\ behind \in [Commands -> Commands \cup {NoCommand}]
    /\ last \in Commands \cup {NoCommand}
    /\ shell \in Shells \cup {NoShell}
    /\ record \in [Shells -> [dead : BOOLEAN, active : Commands \cup {NoCommand}]]
    /\ on \in [Commands -> Shells \cup {NoShell}]
    /\ attempt \in [Commands -> {0, 1}]
    /\ listening \subseteq Commands
    /\ timed \subseteq Commands
    /\ aborted \subseteq Commands
    /\ initFailed \in BOOLEAN
    /\ pty \in [Shells -> {"none", "live", "gone", "closed"}]
    /\ sent \subseteq Commands
    /\ exits \subseteq Shells
    /\ ran \in [Commands -> Nat]
    /\ changes \in 0..MaxChanges
    /\ issuedAt \in [Commands -> 0..MaxChanges]
    /\ madeFor \in [Shells -> 0..MaxChanges]
    /\ cut \in BOOLEAN
    /\ faults \in 0..MaxFaults

\* A call works with a terminal that was opened, and is the active command only of that one;
\* a record is dead when its terminal is closed; the one in the table is neither.
Records ==
    /\ \A c \in Commands : step[c] \in {"draining", "init", "exec"} =>
          on[c] # NoShell /\ pty[on[c]] # "none"
    /\ \A s \in Shells : record[s].dead <=> pty[s] = "closed"
    /\ shell # NoShell => pty[shell] \in {"live", "gone"}
    /\ \A s \in Shells : record[s].active # NoCommand =>
          InShell(record[s].active) /\ on[record[s].active] = s
    /\ \A s \in exits : pty[s] # "none"

\* A command is run at most once, and has not been run while it could still be given to a
\* shell or a job.
RanOnce ==
    \A c \in Commands :
        /\ ran[c] <= 1
        /\ ~Settled(c) /\ ~(step[c] = "exec" /\ c \in sent) => ran[c] = 0

\* Calls come in order; one that has had its turn has only settled ones before it; one that
\* queues waits for the call before it, unless all have settled; the entry of the chain is
\* the last call, unless all have settled.
InOrder ==
    /\ \A b, c \in Commands : b < c /\ step[b] = "new" => step[c] = "new"
    /\ ~cut =>
        /\ \A b, c \in Commands : b < c /\ step[c] \notin {"new", "queued"} => Settled(b)
        /\ \A c \in Commands : step[c] = "queued" =>
              \/ behind[c] = NoCommand /\ \A b \in Commands : b < c => Settled(b)
              \/ behind[c] = c - 1
        /\ last = NoCommand => \A c \in Commands : step[c] # "new" => Settled(c)
        /\ last # NoCommand => \A c \in Commands : step[c] # "new" <=> c <= last

\* The table holds the one terminal that runs; its configuration is the one of the session;
\* who opens a terminal finds the table empty; who queues or works has read the configuration
\* of now.
Listed ==
    ~cut =>
        /\ \A s \in Shells : pty[s] \in {"live", "gone"} => shell = s
        /\ shell # NoShell => madeFor[shell] = changes
        /\ \A c \in Commands : step[c] = "opening" => shell = NoShell
        /\ \A c \in Commands : step[c] \in Working \cup {"queued"} => issuedAt[c] = changes

\* The inductive invariant.
ShellInv == Typed /\ Records /\ RanOnce /\ InOrder /\ Listed

\* The call has had its turn.
Past(c) == step[c] \notin {"new", "queued"}

\* What the types say of a call.
LEMMA TypedIs ==
  ASSUME Typed, NEW c \in Commands
  PROVE  step[c] \in Steps /\ ran[c] \in Nat /\ c \in Nat \ {0}
  BY ShellAssumption DEF Typed, Commands

\* A terminal that is given up is closed, dead and not in the table.
LEMMA DestroyIs ==
  ASSUME ShellInv, NEW s \in Shells, Destroy(s)
  PROVE  /\ record' \in [Shells -> [dead : BOOLEAN, active : Commands \cup {NoCommand}]]
         /\ record'[s].dead = TRUE /\ record'[s].active = NoCommand
         /\ pty' \in [Shells -> {"none", "live", "gone", "closed"}]
         /\ pty'[s] = "closed"
         /\ \A t \in Shells : t # s => record'[t] = record[t] /\ pty'[t] = pty[t]
         /\ shell' = IF shell = s THEN NoShell ELSE shell
         /\ exits' = exits \ {s}
  BY DEF ShellInv, Typed, Destroy, Destroyed, Unlisted, Closes

\* The call fails in its shell, or becomes a job because its shell could not be initialised.
LEMMA RejectedIs ==
  ASSUME ShellInv, NEW c \in Commands, NEW hears \in SUBSET Commands, Rejected(c, hears)
  PROVE  /\ step' \in [Commands -> Steps] /\ ran' \in [Commands -> Nat]
         /\ \A d \in Commands : d # c => step'[d] = step[d] /\ ran'[d] = ran[d]
         /\ \/ step[c] = "init" /\ step'[c] = "job" /\ ran'[c] = ran[c] + 1
            \/ step[c] = "exec" /\ step'[c] = "done" /\ ran'[c] = ran[c]
         /\ listening' \subseteq Commands
         /\ initFailed' \in BOOLEAN
  <1>1. CASE step[c] = "init" /\ initFailed' = TRUE /\ FallsBack(c, hears)
    <2>1. listening' \subseteq Commands
      BY <1>1 DEF FallsBack
    <2>2. /\ step' \in [Commands -> Steps] /\ step'[c] = "job"
          /\ \A d \in Commands : d # c => step'[d] = step[d]
      BY <1>1 DEF FallsBack, ShellInv, Typed, Steps
    <2>3. /\ ran' \in [Commands -> Nat] /\ ran'[c] = ran[c] + 1
          /\ \A d \in Commands : d # c => ran'[d] = ran[d]
      BY <1>1 DEF FallsBack, ShellInv, Typed
    <2> QED
      BY <1>1, <2>1, <2>2, <2>3
  <1>2. CASE step[c] = "exec" /\ ExecRejected(c, hears) /\ UNCHANGED initFailed
    BY <1>2 DEF ShellInv, Typed, ExecRejected, Ends, Steps
  <1> QED
    BY <1>1, <1>2 DEF Rejected

\* The order is kept by calls that go on or settle.
LEMMA OrderKept ==
  ASSUME ShellInv, step' \in [Commands -> Steps], UNCHANGED <<behind, last, cut>>,
         \A d \in Commands : \/ step'[d] = step[d]
                             \/ Past(d) /\ ~Settled(d) /\ step'[d] \notin {"new", "queued"}
                             \/ Settled(d) /\ step'[d] = "done"
  PROVE  InOrder'
  <1>1. \A d \in Commands : /\ step'[d] = "new" <=> step[d] = "new"
                            /\ step'[d] = "queued" <=> step[d] = "queued"
                            /\ Settled(d) => Settled(d)'
    BY DEF Past, Settled
  <1> QED
    BY <1>1 DEF ShellInv, InOrder

\* RanOnce is kept when one call settles, or has not run yet.
LEMMA RanKept ==
  ASSUME ShellInv, step' \in [Commands -> Steps], ran' \in [Commands -> Nat],
         NEW c \in Commands, sent' \in {sent, sent \ {c}},
         \A d \in Commands : d # c => step'[d] = step[d] /\ ran'[d] = ran[d],
         \/ step'[c] = step[c] /\ ran'[c] = ran[c] /\ sent' = sent
         \/ step'[c] \in {"job", "done"} /\ ran'[c] = ran[c]
         \/ ran'[c] = ran[c] /\ ~Settled(c) /\ ~(step[c] = "exec" /\ c \in sent)
         \/ step'[c] \in {"job", "done"} /\ ran'[c] = ran[c] + 1
              /\ ~Settled(c) /\ ~(step[c] = "exec" /\ c \in sent)
  PROVE  RanOnce'
  BY DEF ShellInv, RanOnce, Settled, Typed

\* Records and table are kept when a terminal is given up, and who settles worked with it.
LEMMA LosesShell ==
  ASSUME ShellInv, NEW s \in Shells, Destroy(s), pty[s] # "none",
         step' \in [Commands -> Steps],
         UNCHANGED <<on, cut, madeFor, changes, issuedAt>>,
         \A d \in Commands : step'[d] # step[d] =>
             step'[d] \in {"job", "done"} /\ \A t \in Shells : t # s => record[t].active # d
  PROVE  Records' /\ Listed'
  <1>1. /\ record' \in [Shells -> [dead : BOOLEAN, active : Commands \cup {NoCommand}]]
        /\ record'[s].dead = TRUE /\ record'[s].active = NoCommand
        /\ pty'[s] = "closed"
        /\ \A t \in Shells : t # s => record'[t] = record[t] /\ pty'[t] = pty[t]
        /\ shell' = IF shell = s THEN NoShell ELSE shell
        /\ exits' = exits \ {s}
    BY DestroyIs
  <1>2. s # NoShell
    BY DEF Shells, NoShell
  <1>3. \A c \in Commands : (step[c] \in {"draining", "init", "exec"} =>
          on[c] # NoShell /\ pty[on[c]] # "none")'
    BY <1>1 DEF ShellInv, Typed, Records
  <1>4. \A t \in Shells : (record[t].dead <=> pty[t] = "closed")'
    BY <1>1 DEF ShellInv, Records
  <1>5. (shell # NoShell => pty[shell] \in {"live", "gone"})'
    BY <1>1 DEF ShellInv, Typed, Records
  <1>6. ASSUME NEW t \in Shells, record'[t].active # NoCommand
        PROVE  InShell(record[t].active)' /\ on'[record'[t].active] = t
    <2>1. t # s /\ record'[t] = record[t] /\ record[t].active \in Commands
      BY <1>1, <1>6 DEF ShellInv, Typed
    <2>2. step'[record[t].active] = step[record[t].active]
      BY <2>1
    <2> QED
      BY <1>6, <2>1, <2>2 DEF ShellInv, Records, InShell
  <1>7. \A t \in exits' : pty'[t] # "none"
    BY <1>1 DEF ShellInv, Records, Typed
  <1>8. Records'
    BY <1>3, <1>4, <1>5, <1>6, <1>7 DEF Records
  <1>9. Listed'
    BY <1>1, <1>2 DEF ShellInv, Listed, Typed, Working
  <1> QED
    BY <1>8, <1>9

\* A terminal is given up and the call that worked with it settles.
LEMMA Settles ==
  ASSUME ShellInv, NEW s \in Shells, NEW c \in Commands, NEW hears \in SUBSET Commands,
         Destroy(s), pty[s] # "none", Rejected(c, hears),
         \A t \in Shells : t # s => record[t].active # c,
         timed' \subseteq Commands,
         UNCHANGED <<on, attempt, chainVars, sent, changes, issuedAt, madeFor, cut>>,
         aborted' \subseteq Commands, faults' \in 0..MaxFaults
  PROVE  ShellInv'
  <1>1. /\ step' \in [Commands -> Steps] /\ ran' \in [Commands -> Nat]
        /\ \A d \in Commands : d # c => step'[d] = step[d] /\ ran'[d] = ran[d]
        /\ \/ step[c] = "init" /\ step'[c] = "job" /\ ran'[c] = ran[c] + 1
           \/ step[c] = "exec" /\ step'[c] = "done" /\ ran'[c] = ran[c]
        /\ listening' \subseteq Commands
        /\ initFailed' \in BOOLEAN
    BY RejectedIs
  <1>2. Typed'
    <2>1. /\ record' \in [Shells -> [dead : BOOLEAN, active : Commands \cup {NoCommand}]]
          /\ pty' \in [Shells -> {"none", "live", "gone", "closed"}]
          /\ shell' = NoShell \/ shell' = shell
          /\ exits' = exits \ {s}
      BY DestroyIs
    <2>2. shell' \in Shells \cup {NoShell} /\ exits' \subseteq Shells
      BY <2>1 DEF ShellInv, Typed
    <2> QED
      BY <1>1, <2>1, <2>2 DEF ShellInv, Typed, chainVars
  <1>3. Records' /\ Listed'
    BY <1>1, LosesShell
  <1>4. RanOnce'
    BY <1>1, RanKept DEF Settled
  <1>5. InOrder'
    BY <1>1, OrderKept DEF Settled, Past, chainVars
  <1> QED
    BY <1>2, <1>3, <1>4, <1>5 DEF ShellInv

\* A timer or listener that finds no active command changes nothing else.
LEMMA NothingHeard ==
  ASSUME ShellInv, UNCHANGED <<step, on, attempt, ran, chainVars, sent, changes, issuedAt,
                               madeFor, cut, shellVars, pty, exits>>,
         listening' \subseteq Commands, timed' \subseteq Commands, aborted' \subseteq Commands,
         faults' \in 0..MaxFaults
  PROVE  ShellInv'
  BY DEF ShellInv, Typed, Records, RanOnce, InOrder, Listed, chainVars, shellVars, InShell, Settled

\* A call in its shell has a terminal, and is active in no other.
LEMMA ActiveIsThere ==
  ASSUME ShellInv, NEW c \in Commands, InShell(c)
  PROVE  /\ on[c] \in Shells /\ pty[on[c]] # "none"
         /\ \A t \in Shells : t # on[c] => record[t].active # c
  BY DEF ShellInv, Typed, Records, InShell, NoCommand, Commands

\* A timer or an abort ends its call.
LEMMA FiresKeeps ==
  ASSUME ShellInv, NEW c \in Commands, InShell(c), Fires(c), aborted' \subseteq Commands,
         UNCHANGED <<on, attempt, chainVars, sent, observed>>
  PROVE  ShellInv'
  <1>1. /\ on[c] \in Shells /\ pty[on[c]] # "none"
        /\ \A t \in Shells : t # on[c] => record[t].active # c
    BY ActiveIsThere
  <1>2. CASE /\ Destroy(on[c]) /\ timed' = timed \ (SettledOf(on[c]) \cup {c})
             /\ Rejected(c, listening \ (SettledOf(on[c]) \cup {c}))
    <2>1. listening \ (SettledOf(on[c]) \cup {c}) \in SUBSET Commands
          /\ timed \ (SettledOf(on[c]) \cup {c}) \in SUBSET Commands
      BY DEF ShellInv, Typed
    <2>2. faults' \in 0..MaxFaults
      BY DEF ShellInv, Typed, observed
    <2> QED
      BY <1>1, <1>2, <2>1, <2>2, Settles DEF InShell, observed
  <1>3. CASE /\ timed' = timed \ {c} /\ listening' = listening \ {c}
             /\ UNCHANGED <<step, ran, shellVars, pty, exits>>
    <2>1. timed' \in SUBSET Commands /\ listening' \in SUBSET Commands /\ faults' \in 0..MaxFaults
      BY <1>3 DEF ShellInv, Typed, observed
    <2> QED
      BY <1>3, <2>1, NothingHeard DEF observed
  <1> QED
    BY <1>2, <1>3 DEF Fires

\* The limit of a command.
LEMMA TimerKeeps == ASSUME ShellInv, NEW c \in Commands, TimerFires(c) PROVE ShellInv'
  BY FiresKeeps DEF TimerFires, ShellInv, Typed

\* A call is given up, wherever it is.
LEMMA AbortKeeps == ASSUME ShellInv, NEW c \in Commands, Abort(c) PROVE ShellInv'
  <1>1. aborted' \subseteq Commands
    BY DEF Abort, ShellInv, Typed
  <1>2. CASE InShell(c) /\ c \in listening /\ Fires(c)
    BY <1>1, <1>2, FiresKeeps DEF Abort
  <1>3. CASE UNCHANGED <<step, listening, timed, ran, shellVars, pty, exits>>
    BY <1>1, <1>3, NothingHeard DEF Abort, observed, ShellInv, Typed
  <1> QED
    BY <1>2, <1>3 DEF Abort

\* The initialisation ends with an exit code.
LEMMA InitFailsKeeps == ASSUME ShellInv, NEW c \in Commands, InitFails(c) PROVE ShellInv'
  <1>1. /\ on[c] \in Shells /\ pty[on[c]] # "none"
        /\ \A t \in Shells : t # on[c] => record[t].active # c
    BY ActiveIsThere DEF InitFails, Active
  <1>2. /\ listening \ {c} \in SUBSET Commands /\ timed' \in SUBSET Commands
        /\ faults' \in 0..MaxFaults
    BY ShellAssumption DEF ShellInv, Typed, InitFails
  <1> QED
    BY <1>1, <1>2, Settles DEF InitFails, ShellInv, Typed

\* The exit of a terminal is heard: its active command fails.
LEMMA ExitKeeps == ASSUME ShellInv, NEW s \in Shells, OnExit(s) PROVE ShellInv'
  <1>1. pty[s] # "none" /\ SettledOf(s) \subseteq Commands
    BY DEF OnExit, ShellInv, Records, SettledOf
  <1>2. timed' \in SUBSET Commands /\ aborted' \in SUBSET Commands /\ faults' \in 0..MaxFaults
    BY DEF OnExit, ShellInv, Typed, observed
  <1>3. ASSUME NEW c \in SettledOf(s), Rejected(c, listening \ {c}) PROVE ShellInv'
    <2>1. c \in Commands /\ record[s].active = c
      BY DEF SettledOf
    <2>2. InShell(c) /\ \A t \in Shells : t # s => record[t].active # c
      BY <2>1 DEF ShellInv, Records, Commands, NoCommand
    <2>3. listening \ {c} \in SUBSET Commands
      BY DEF ShellInv, Typed
    <2> QED
      BY <1>1, <1>2, <1>3, <2>1, <2>2, <2>3, Settles DEF OnExit, InShell, observed
  <1>4. CASE SettledOf(s) = {} /\ UNCHANGED <<step, listening, ran, initFailed>>
    <2>1. Records' /\ Listed'
      BY <1>1, <1>4, LosesShell DEF OnExit, observed, ShellInv, Typed
    <2>2. Typed'
      BY <1>2, <1>4, DestroyIs DEF OnExit, observed, chainVars, ShellInv, Typed
    <2>3. RanOnce' /\ InOrder'
      BY <1>4 DEF OnExit, observed, chainVars, ShellInv, RanOnce, InOrder, Settled
    <2> QED
      BY <2>1, <2>2, <2>3 DEF ShellInv
  <1> QED
    BY <1>3, <1>4 DEF OnExit

\* The input of a command finds no terminal: the command gets a new one, or fails.
LEMMA RetryKeeps ==
  ASSUME ShellInv, NEW c \in Commands, NEW notFound \in BOOLEAN, InputFails(c, notFound)
  PROVE  ShellInv'
  <1>1. /\ on[c] \in Shells /\ pty[on[c]] # "none"
        /\ \A t \in Shells : t # on[c] => record[t].active # c
    BY ActiveIsThere DEF InputFails
  <1> DEFINE mine == SettledOf(on[c]) \cup {c}
  <1>2. listening \ mine \in SUBSET Commands /\ timed' \in SUBSET Commands
        /\ faults' \in 0..MaxFaults /\ aborted' \in SUBSET Commands
    BY DEF ShellInv, Typed, InputFails, observed
  <1>3. CASE Rejected(c, listening \ mine) /\ UNCHANGED attempt
    BY <1>1, <1>2, <1>3, Settles DEF InputFails, InShell, observed
  <1>4. CASE /\ MayRetry(c, notFound)
             /\ attempt' = [attempt EXCEPT ![c] = 1]
             /\ step' = [step EXCEPT ![c] = "opening"]
             /\ listening' = listening \ mine
             /\ UNCHANGED <<ran, initFailed>>
    <2> HIDE DEF mine
    <2>1. /\ step' \in [Commands -> Steps] /\ step'[c] = "opening" /\ step[c] = "exec"
          /\ \A d \in Commands : d # c => step'[d] = step[d]
      BY <1>4 DEF ShellInv, Typed, Steps, MayRetry
    <2>2. RanOnce'
      BY <1>4, <2>1, RanKept DEF ShellInv, Typed, InputFails, Settled
    <2>3. InOrder'
      BY <2>1, OrderKept DEF InputFails, Settled, Past, chainVars, observed
    <2>4. /\ record' \in [Shells -> [dead : BOOLEAN, active : Commands \cup {NoCommand}]]
          /\ record'[on[c]].dead = TRUE /\ record'[on[c]].active = NoCommand
          /\ pty'[on[c]] = "closed" /\ pty' \in [Shells -> {"none", "live", "gone", "closed"}]
          /\ \A t \in Shells : t # on[c] => record'[t] = record[t] /\ pty'[t] = pty[t]
          /\ shell' = IF shell = on[c] THEN NoShell ELSE shell
          /\ exits' = exits \ {on[c]}
      BY <1>1, DestroyIs DEF InputFails
    <2>5. Typed'
      BY <1>2, <1>4, <2>1, <2>4 DEF ShellInv, Typed, InputFails, chainVars, observed
    <2>6. Records'
      <3>1. \A d \in Commands : (step[d] \in {"draining", "init", "exec"} =>
              on[d] # NoShell /\ pty[on[d]] # "none")'
        BY <2>1, <2>4 DEF ShellInv, Typed, Records, InputFails
      <3>2. \A t \in Shells : (record[t].dead <=> pty[t] = "closed")'
        BY <2>4 DEF ShellInv, Records
      <3>3. (shell # NoShell => pty[shell] \in {"live", "gone"})'
        BY <2>4 DEF ShellInv, Typed, Records
      <3>4. ASSUME NEW t \in Shells, record'[t].active # NoCommand
            PROVE  InShell(record[t].active)' /\ on'[record'[t].active] = t
        <4>1. t # on[c] /\ record'[t] = record[t] /\ record[t].active \in Commands
          BY <2>4, <3>4 DEF ShellInv, Typed
        <4>2. step'[record[t].active] = step[record[t].active]
          <5>1. record[t].active # c
            BY <1>1, <4>1
          <5> QED
            BY <2>1, <4>1, <5>1
        <4> QED
          BY <3>4, <4>1, <4>2 DEF ShellInv, Records, InShell, InputFails
      <3>5. \A t \in exits' : pty'[t] # "none"
        BY <2>4 DEF ShellInv, Records, Typed
      <3> QED
        BY <3>1, <3>2, <3>3, <3>4, <3>5 DEF Records
    <2>7. ~cut => shell = on[c]
      BY <1>1 DEF ShellInv, Listed, InputFails
    <2>8. Listed'
      <3>1. UNCHANGED <<cut, changes, issuedAt, madeFor>>
        BY DEF InputFails, observed
      <3>2. ASSUME ~cut PROVE shell' = NoShell
        BY <2>4, <2>7, <3>2
      <3>3. ASSUME NEW t \in Shells, ~cut, pty'[t] \in {"live", "gone"} PROVE shell' = t
        <4>1. t # on[c] /\ pty[t] \in {"live", "gone"}
          BY <2>4, <3>3
        <4>2. shell = t /\ shell = on[c]
          BY <2>7, <3>3, <4>1 DEF ShellInv, Listed
        <4> QED
          BY <4>1, <4>2
      <3>4. ASSUME NEW d \in Commands, ~cut, step'[d] \in Working \cup {"queued"}
            PROVE  issuedAt[d] = changes
        BY <2>1, <3>4 DEF ShellInv, Listed, Working
      <3> QED
        BY <3>1, <3>2, <3>3, <3>4 DEF Listed
    <2> QED
      BY <2>2, <2>3, <2>5, <2>6, <2>8 DEF ShellInv
  <1> QED
    BY <1>3, <1>4 DEF InputFails

\* A call is put at the end of the chain.
LEMMA RunKeeps == ASSUME ShellInv, NEW c \in Commands, Run(c) PROVE ShellInv'
  <1>1. /\ step' \in [Commands -> Steps] /\ step'[c] = "queued" /\ step[c] = "new"
        /\ \A d \in Commands : d # c => step'[d] = step[d]
        /\ issuedAt' \in [Commands -> 0..MaxChanges] /\ issuedAt'[c] = changes
        /\ \A d \in Commands : d # c => issuedAt'[d] = issuedAt[d]
        /\ behind' \in [Commands -> Commands \cup {NoCommand}] /\ behind'[c] = last
        /\ \A d \in Commands : d # c => behind'[d] = behind[d]
        /\ last' = c /\ c # NoCommand
        /\ \A b \in Commands : b < c => step[b] # "new"
    BY DEF Run, ShellInv, Typed, Steps, Commands, NoCommand
  <1>2. Typed'
    BY <1>1 DEF Run, ShellInv, Typed, shellVars, ptyVars
  <1>3. Records'
    BY <1>1 DEF Run, ShellInv, Records, shellVars, ptyVars, InShell
  <1>4. RanOnce'
    BY <1>1 DEF Run, ShellInv, RanOnce, ptyVars, Settled
  <1>5. Listed'
    BY <1>1 DEF Run, ShellInv, Listed, shellVars, ptyVars, Working
  <1>6. \A d \in Commands : c < d => step[d] = "new"
    BY <1>1 DEF ShellInv, InOrder
  <1>7. \A b, d \in Commands : b < d /\ step'[b] = "new" => step'[d] = "new"
    BY <1>1, <1>6 DEF ShellInv, InOrder, Commands
  <1>8. ASSUME ~cut
        PROVE  /\ \A b, d \in Commands : b < d /\ step'[d] \notin {"new", "queued"} => Settled(b)'
               /\ \A d \in Commands : step'[d] # "new" <=> d <= c
               /\ \A d \in Commands : step'[d] = "queued" =>
                    \/ behind'[d] = NoCommand /\ \A b \in Commands : b < d => Settled(b)'
                    \/ behind'[d] = d - 1
    <2>1. \A b, d \in Commands : b < d /\ step'[d] \notin {"new", "queued"} => Settled(b)'
      BY <1>1, <1>6, <1>8 DEF ShellInv, InOrder, Settled
    <2>2. \A d \in Commands : step'[d] # "new" <=> d <= c
      BY <1>1, <1>6 DEF Commands
    <2>3. ASSUME NEW d \in Commands, step'[d] = "queued", d # c
          PROVE  \/ behind'[d] = NoCommand /\ \A b \in Commands : b < d => Settled(b)'
                 \/ behind'[d] = d - 1
      BY <1>1, <1>6, <1>8, <2>3 DEF ShellInv, InOrder, Settled
    <2>4. CASE last = NoCommand
      <3>1. \A b \in Commands : b < c => Settled(b)'
        BY <1>1, <1>8, <2>4 DEF ShellInv, InOrder, Settled, Commands
      <3> QED
        BY <1>1, <2>1, <2>2, <2>3, <2>4, <3>1
    <2>5. CASE last # NoCommand
      <3>1. last \in Commands /\ \A d \in Commands : step[d] # "new" <=> d <= last
        BY <1>8, <2>5 DEF ShellInv, InOrder, Typed
      <3>2. ~(c <= last) /\ \A b \in Commands : b < c => b <= last
        BY <1>1, <3>1
      <3>3. last = c - 1
        BY <3>1, <3>2, ShellAssumption DEF Commands
      <3> QED
        BY <1>1, <2>1, <2>2, <2>3, <3>3
    <2> QED
      BY <1>1, <2>1, <2>2, <2>3, <2>4, <2>5
  <1>9. InOrder'
    BY <1>1, <1>7, <1>8 DEF InOrder, Run
  <1> QED
    BY <1>2, <1>3, <1>4, <1>5, <1>9 DEF ShellInv

\* The command it waits for has settled: so have all before it.
LEMMA TurnComes ==
  ASSUME ShellInv, NEW c \in Commands, step[c] = "queued",
         behind[c] # NoCommand => step[behind[c]] \in {"job", "done"}, ~cut
  PROVE  \A b \in Commands : b < c => Settled(b)
  <1>1. CASE behind[c] = NoCommand /\ \A b \in Commands : b < c => Settled(b)
    BY <1>1
  <1>2. CASE behind[c] = c - 1 /\ behind[c] # NoCommand
    <2>1. c - 1 \in Commands /\ Settled(c - 1)
      BY <1>2 DEF ShellInv, Typed, Settled
    <2>2. \A b \in Commands : b < c - 1 => Settled(b)
      BY <2>1 DEF ShellInv, InOrder, Settled
    <2>3. \A b \in Commands : b < c => b < c - 1 \/ b = c - 1
      BY DEF Commands
    <2> QED
      BY <2>1, <2>2, <2>3
  <1>3. CASE behind[c] = c - 1 /\ behind[c] = NoCommand
    BY <1>3 DEF Commands, NoCommand
  <1> QED
    BY <1>1, <1>2, <1>3 DEF ShellInv, InOrder

\* The order is kept by the call whose turn comes.
LEMMA StartOrder ==
  ASSUME ShellInv, NEW c \in Commands, step[c] = "queued",
         behind[c] # NoCommand => step[behind[c]] \in {"job", "done"},
         step'[c] \notin {"new", "queued"},
         \A d \in Commands : d # c => step'[d] = step[d],
         UNCHANGED <<chainVars, cut>>
  PROVE  InOrder'
  <1>1. \A b, d \in Commands : b < d /\ step'[b] = "new" => step'[d] = "new"
    BY DEF ShellInv, InOrder
  <1>2. \A d \in Commands : Settled(d) => Settled(d)'
    BY DEF Settled
  <1>3. ASSUME ~cut PROVE \A b \in Commands : b < c => Settled(b)
    BY <1>3, TurnComes
  <1>4. ASSUME ~cut, last = NoCommand PROVE FALSE
    BY <1>4 DEF ShellInv, InOrder, Settled
  <1> QED
    BY <1>1, <1>2, <1>3, <1>4 DEF ShellInv, InOrder, chainVars

\* A call becomes the active command of a terminal.
LEMMA ExecuteIs ==
  ASSUME ShellInv, NEW c \in Commands, NEW s \in Shells, NEW pc \in {"init", "exec"},
         Execute(c, s, pc)
  PROVE  /\ record' \in [Shells -> [dead : BOOLEAN, active : Commands \cup {NoCommand}]]
         /\ record'[s].active = c /\ record'[s].dead = record[s].dead
         /\ \A t \in Shells : t # s => record'[t] = record[t]
         /\ step' \in [Commands -> Steps] /\ step'[c] = pc
         /\ \A d \in Commands : d # c => step'[d] = step[d]
         /\ on' \in [Commands -> Shells \cup {NoShell}] /\ on'[c] = s
         /\ \A d \in Commands : d # c => on'[d] = on[d]
         /\ listening' \subseteq Commands /\ timed' \subseteq Commands
         /\ sent' = sent \ {c} /\ UNCHANGED ran
  <1>1. listening' \subseteq Commands /\ timed' \subseteq Commands
    BY DEF Execute, ShellInv, Typed
  <1>2. /\ record' \in [Shells -> [dead : BOOLEAN, active : Commands \cup {NoCommand}]]
        /\ record'[s].active = c /\ record'[s].dead = record[s].dead
        /\ \A t \in Shells : t # s => record'[t] = record[t]
    BY DEF Execute, ShellInv, Typed
  <1>3. /\ step' \in [Commands -> Steps] /\ step'[c] = pc
        /\ \A d \in Commands : d # c => step'[d] = step[d]
        /\ on' \in [Commands -> Shells \cup {NoShell}] /\ on'[c] = s
        /\ \A d \in Commands : d # c => on'[d] = on[d]
    BY DEF Execute, ShellInv, Typed, Steps
  <1> QED
    BY <1>1, <1>2, <1>3 DEF Execute

\* A call enters its shell.
LEMMA EntersShell ==
  ASSUME ShellInv, NEW c \in Commands, NEW s \in Shells, NEW pc \in {"init", "exec"},
         Execute(c, s, pc), pty[s] # "none", ~Settled(c), ~(step[c] = "exec" /\ c \in sent),
         InShell(c) => on[c] = s, step[c] # "new", step[c] # "opening",
         UNCHANGED <<shell, initFailed, pty, exits, attempt, chainVars, aborted, observed>>
  PROVE  Typed' /\ Records' /\ RanOnce' /\ Listed'
  <1>1. Typed'
    BY ExecuteIs DEF ShellInv, Typed, chainVars, observed
  <1>2. Records'
    <2>1. \A d \in Commands : (step[d] \in {"draining", "init", "exec"} =>
            on[d] # NoShell /\ pty[on[d]] # "none")'
      BY ExecuteIs DEF ShellInv, Records, Shells, NoShell
    <2>2. \A t \in Shells : (record[t].dead <=> pty[t] = "closed")'
      BY ExecuteIs DEF ShellInv, Records
    <2>3. ASSUME NEW t \in Shells, record'[t].active # NoCommand
          PROVE  InShell(record[t].active)' /\ on'[record'[t].active] = t
      <3>1. CASE t = s
        BY <3>1, ExecuteIs DEF InShell
      <3>2. CASE t # s
        <4>1. record'[t] = record[t] /\ record[t].active \in Commands
          BY <2>3, <3>2, ExecuteIs DEF ShellInv, Typed
        <4>2. record[t].active # c
          BY <2>3, <3>2, <4>1 DEF ShellInv, Records
        <4> QED
          BY <2>3, <4>1, <4>2, ExecuteIs DEF ShellInv, Records, InShell
      <3> QED
        BY <3>1, <3>2
    <2> QED
      BY <2>1, <2>2, <2>3 DEF ShellInv, Records
  <1>3. RanOnce'
    <2>1. /\ step' \in [Commands -> Steps] /\ sent' = sent \ {c} /\ UNCHANGED ran
          /\ \A d \in Commands : d # c => step'[d] = step[d]
      BY ExecuteIs
    <2>2. ran' \in [Commands -> Nat]
      BY <2>1 DEF ShellInv, Typed
    <2> QED
      BY <2>1, <2>2, RanKept
  <1>4. Listed'
    BY ExecuteIs DEF ShellInv, Listed, observed, Working, Settled, Typed, Steps
  <1> QED
    BY <1>1, <1>2, <1>3, <1>4

\* runExclusive(): the call ends, becomes a job, enters the shell or opens one.
LEMMA StartKeeps == ASSUME ShellInv, NEW c \in Commands, Start(c) PROVE ShellInv'
  <1>1. step[c] = "queued" /\ (behind[c] # NoCommand => step[behind[c]] \in {"job", "done"})
        /\ UNCHANGED <<chainVars, aborted, observed>>
    BY DEF Start
  <1>2. ~cut => \A d \in Commands : d # c => step[d] \notin Working
    <2>1. ~cut => \A b \in Commands : b < c => Settled(b)
      BY <1>1, TurnComes
    <2>2. ~cut => \A d \in Commands : c < d => step[d] \in {"new", "queued"}
      BY <1>1 DEF ShellInv, InOrder, Settled
    <2>3. \A d \in Commands : d # c => d < c \/ c < d
      BY DEF Commands
    <2> QED
      BY <2>1, <2>2, <2>3 DEF Settled, Working
  <1>3. CASE /\ \/ Ends(c) /\ UNCHANGED <<listening, ran>>
                \/ FallsBack(c, listening)
             /\ UNCHANGED <<on, attempt, timed, shellVars, ptyVars>>
    <2>1. /\ step' \in [Commands -> Steps] /\ step'[c] \in {"job", "done"}
          /\ \A d \in Commands : d # c => step'[d] = step[d]
      BY <1>3 DEF Ends, FallsBack, ShellInv, Typed, Steps
    <2>2. /\ ran' \in [Commands -> Nat] /\ ran'[c] \in {ran[c], ran[c] + 1}
          /\ \A d \in Commands : d # c => ran'[d] = ran[d]
      BY <1>3 DEF Ends, FallsBack, ShellInv, Typed
    <2>3. listening' \subseteq Commands
      BY <1>3 DEF Ends, FallsBack, ShellInv, Typed
    <2>4. Typed'
      BY <1>1, <1>3, <2>1, <2>2, <2>3 DEF ShellInv, Typed, chainVars, observed, shellVars, ptyVars
    <2>5. RanOnce'
      BY <1>1, <1>3, <2>1, <2>2, RanKept DEF Settled, ptyVars
    <2>6. InOrder'
      BY <1>1, <2>1, StartOrder DEF observed
    <2>7. Records' /\ Listed'
      BY <1>1, <1>3, <2>1 DEF ShellInv, Typed, Records, Listed, observed, shellVars, ptyVars,
                              InShell, Working
    <2> QED
      BY <2>4, <2>5, <2>6, <2>7 DEF ShellInv
  <1>4. CASE shell # NoShell /\ Execute(c, shell, "exec")
             /\ UNCHANGED <<shell, initFailed, pty, exits, attempt>>
    <2>1. shell \in Shells /\ pty[shell] # "none"
      BY <1>4 DEF ShellInv, Typed, Records
    <2>2. Typed' /\ Records' /\ RanOnce' /\ Listed'
      BY <1>1, <1>4, <2>1, EntersShell DEF Settled, InShell
    <2>3. step'[c] = "exec" /\ \A d \in Commands : d # c => step'[d] = step[d]
      BY <1>4, <2>1, ExecuteIs
    <2>4. InOrder'
      BY <1>1, <2>3, StartOrder DEF observed
    <2> QED
      BY <2>2, <2>4 DEF ShellInv
  <1>5. CASE /\ shell = NoShell
             /\ step' = [step EXCEPT ![c] = "opening"]
             /\ UNCHANGED <<on, attempt, listening, timed, ran, sent, shellVars, pty, exits>>
    <2>1. /\ step' \in [Commands -> Steps] /\ step'[c] = "opening"
          /\ \A d \in Commands : d # c => step'[d] = step[d]
      BY <1>5 DEF ShellInv, Typed, Steps
    <2>2. Typed'
      BY <1>1, <1>5, <2>1 DEF ShellInv, Typed, chainVars, observed, shellVars
    <2>3. RanOnce'
      BY <1>1, <1>5, <2>1, RanKept DEF Settled, ShellInv, Typed
    <2>4. InOrder'
      BY <1>1, <2>1, StartOrder DEF observed
    <2>5. Records'
      BY <1>1, <1>5, <2>1 DEF ShellInv, Typed, Records, shellVars, InShell
    <2>6. Listed'
      BY <1>1, <1>2, <1>5, <2>1 DEF ShellInv, Listed, observed, shellVars, Working
    <2> QED
      BY <2>2, <2>3, <2>4, <2>5, <2>6 DEF ShellInv
  <1> QED
    BY <1>3, <1>4, <1>5 DEF Start, Ensure, ptyVars

\* No terminal can be had.
LEMMA OpenFailsKeeps == ASSUME ShellInv, NEW c \in Commands, OpenFails(c) PROVE ShellInv'
  <1>1. /\ step' \in [Commands -> Steps] /\ step'[c] \in {"job", "done"} /\ step[c] = "opening"
        /\ \A d \in Commands : d # c => step'[d] = step[d]
    BY DEF OpenFails, Ends, FallsBack, ShellInv, Typed, Steps
  <1>2. /\ ran' \in [Commands -> Nat] /\ ran'[c] \in {ran[c], ran[c] + 1}
        /\ \A d \in Commands : d # c => ran'[d] = ran[d]
    BY DEF OpenFails, Ends, FallsBack, ShellInv, Typed
  <1>3. listening' \subseteq Commands
    BY DEF OpenFails, Ends, FallsBack, ShellInv, Typed
  <1>4. faults' \in 0..MaxFaults
    BY ShellAssumption DEF OpenFails, ShellInv, Typed
  <1>5. Typed'
    BY <1>1, <1>2, <1>3, <1>4 DEF OpenFails, ShellInv, Typed, chainVars, shellVars, ptyVars
  <1>6. RanOnce'
    BY <1>1, <1>2, RanKept DEF OpenFails, Settled, ptyVars
  <1>7. InOrder'
    BY <1>1, OrderKept DEF OpenFails, Past, Settled, chainVars
  <1>8. Records' /\ Listed'
    BY <1>1 DEF OpenFails, ShellInv, Typed, Records, Listed, shellVars, ptyVars, InShell, Working
  <1> QED
    BY <1>5, <1>6, <1>7, <1>8 DEF ShellInv

\* While one call works, no other does.
LEMMA OneWorks ==
  ASSUME ShellInv, ~cut, NEW c \in Commands, NEW d \in Commands,
         step[c] \in Working, step[d] \in Working
  PROVE  c = d
  <1>1. c < d \/ d < c \/ c = d
    BY DEF Commands
  <1> QED
    BY <1>1 DEF ShellInv, InOrder, Working, Settled

\* The terminal is there and enters the table, which was empty.
LEMMA OpenedKeeps == ASSUME ShellInv, NEW c \in Commands, NEW s \in Shells, Opened(c, s)
                     PROVE  ShellInv'
  <1>1. /\ step' \in [Commands -> Steps] /\ step'[c] = "draining" /\ step[c] = "opening"
        /\ \A d \in Commands : d # c => step'[d] = step[d]
        /\ on' \in [Commands -> Shells \cup {NoShell}] /\ on'[c] = s
        /\ \A d \in Commands : d # c => on'[d] = on[d]
        /\ pty' \in [Shells -> {"none", "live", "gone", "closed"}]
        /\ pty[s] = "none" /\ pty'[s] = "live"
        /\ \A t \in Shells : t # s => pty'[t] = pty[t]
        /\ shell' = s /\ s # NoShell
        /\ madeFor' \in [Shells -> 0..MaxChanges] /\ madeFor'[s] = issuedAt[c]
    BY DEF Opened, PtyOpen, ShellInv, Typed, Steps, Shells, NoShell
  <1>2. Typed'
    BY <1>1 DEF Opened, ShellInv, Typed, chainVars
  <1>3. Records'
    <2>1. \A d \in Commands : (step[d] \in {"draining", "init", "exec"} =>
            on[d] # NoShell /\ pty[on[d]] # "none")'
      BY <1>1 DEF ShellInv, Typed, Records
    <2>2. \A t \in Shells : (record[t].dead <=> pty[t] = "closed")'
      BY <1>1 DEF Opened, ShellInv, Records
    <2>3. ASSUME NEW t \in Shells, record'[t].active # NoCommand
          PROVE  InShell(record[t].active)' /\ on'[record'[t].active] = t
      <3>1. record'[t] = record[t] /\ record[t].active \in Commands /\ record[t].active # NoCommand
        BY <2>3 DEF Opened, ShellInv, Typed
      <3>2. InShell(record[t].active) /\ on[record[t].active] = t
        BY <3>1 DEF ShellInv, Records
      <3>3. record[t].active # c
        BY <1>1, <3>2 DEF InShell
      <3> QED
        BY <1>1, <3>1, <3>2, <3>3 DEF InShell
    <2> QED
      BY <1>1, <2>1, <2>2, <2>3 DEF Opened, ShellInv, Typed, Records
  <1>4. RanOnce'
    BY <1>1, RanKept DEF Opened, ShellInv, Typed, Settled
  <1>5. InOrder'
    BY <1>1, OrderKept DEF Opened, Past, Settled, chainVars
  <1>6. ASSUME ~cut'
        PROVE  /\ \A t \in Shells : pty'[t] \in {"live", "gone"} => shell' = t
               /\ madeFor'[shell'] = changes'
               /\ \A d \in Commands : step'[d] # "opening"
               /\ \A d \in Commands : step'[d] \in Working \cup {"queued"} =>
                     issuedAt'[d] = changes'
    <2>1. ~cut /\ shell = NoShell /\ issuedAt[c] = changes
      BY <1>1, <1>6 DEF Opened, ShellInv, Listed, Working
    <2>2. \A d \in Commands : d # c => step[d] # "opening"
      BY <1>1, <2>1, OneWorks DEF Working
    <2> QED
      BY <1>1, <2>1, <2>2 DEF Opened, ShellInv, Listed, Working, Typed, Shells, NoShell
  <1>7. Listed'
    BY <1>6 DEF Listed
  <1> QED
    BY <1>2, <1>3, <1>4, <1>5, <1>7 DEF ShellInv

\* The banner is over: the shell is initialised, or is lost already.
LEMMA DrainedKeeps == ASSUME ShellInv, NEW c \in Commands, Drained(c) PROVE ShellInv'
  <1>1. /\ on[c] \in Shells /\ pty[on[c]] # "none" /\ step[c] = "draining"
        /\ UNCHANGED <<attempt, chainVars, aborted, observed>>
    BY DEF Drained, ShellInv, Typed, Records
  <1>2. CASE /\ initFailed' = TRUE
             /\ FallsBack(c, listening)
             /\ UNCHANGED <<on, timed, shell, record, ptyVars>>
    <2>1. /\ step' \in [Commands -> Steps] /\ step'[c] = "job"
          /\ \A d \in Commands : d # c => step'[d] = step[d]
      BY <1>2 DEF FallsBack, ShellInv, Typed, Steps
    <2>2. /\ ran' \in [Commands -> Nat] /\ ran'[c] = ran[c] + 1
          /\ \A d \in Commands : d # c => ran'[d] = ran[d]
      BY <1>2 DEF FallsBack, ShellInv, Typed
    <2>3. listening' \subseteq Commands
      BY <1>2 DEF FallsBack, ShellInv, Typed
    <2>4. Typed'
      BY <1>1, <1>2, <2>1, <2>2, <2>3 DEF ShellInv, Typed, chainVars, observed, ptyVars
    <2>5. RanOnce'
      BY <1>1, <1>2, <2>1, <2>2, RanKept DEF Settled, ptyVars
    <2>6. InOrder'
      BY <1>1, <2>1, OrderKept DEF Past, Settled, chainVars, observed
    <2>7. Records' /\ Listed'
      BY <1>1, <1>2, <2>1 DEF ShellInv, Typed, Records, Listed, observed, ptyVars, InShell, Working
    <2> QED
      BY <2>4, <2>5, <2>6, <2>7 DEF ShellInv
  <1>3. CASE Execute(c, on[c], "init") /\ UNCHANGED <<shell, initFailed, pty, exits>>
    <2>1. Typed' /\ Records' /\ RanOnce' /\ Listed'
      BY <1>1, <1>3, EntersShell DEF Settled, InShell
    <2>2. /\ step' \in [Commands -> Steps] /\ step'[c] = "init"
          /\ \A d \in Commands : d # c => step'[d] = step[d]
      BY <1>1, <1>3, ExecuteIs
    <2>3. InOrder'
      BY <1>1, <2>2, OrderKept DEF Past, Settled, chainVars, observed
    <2> QED
      BY <2>1, <2>3 DEF ShellInv
  <1> QED
    BY <1>2, <1>3 DEF Drained

\* The terminal takes the input; a command has been run then.
LEMMA InputKeeps == ASSUME ShellInv, NEW c \in Commands, Input(c) PROVE ShellInv'
  <1>1. /\ ran' \in [Commands -> Nat] /\ c \notin sent /\ sent' = sent \cup {c}
        /\ ran'[c] = IF step[c] = "exec" THEN ran[c] + 1 ELSE ran[c]
        /\ \A d \in Commands : d # c => ran'[d] = ran[d]
    BY DEF Input, PtyInput, ShellInv, Typed
  <1>2. Typed'
    BY <1>1 DEF Input, ShellInv, Typed, chainVars, shellVars, observed
  <1>3. RanOnce'
    BY <1>1 DEF Input, InShell, ShellInv, RanOnce, Settled, Typed
  <1>4. Records' /\ InOrder' /\ Listed'
    BY DEF Input, ShellInv, Records, InOrder, Listed, chainVars, shellVars, observed, InShell,
           Settled
  <1> QED
    BY <1>2, <1>3, <1>4 DEF ShellInv

\* The end of the initialisation or of the command is seen.
LEMMA CompletesKeeps == ASSUME ShellInv, NEW c \in Commands, Completes(c) PROVE ShellInv'
  <1>1. /\ on[c] \in Shells /\ pty[on[c]] # "none" /\ InShell(c) /\ c \in sent
        /\ record[on[c]].active = c
        /\ \A t \in Shells : t # on[c] => record[t].active # c
        /\ UNCHANGED <<attempt, chainVars, shell, initFailed, pty, exits, aborted, observed>>
    BY ActiveIsThere DEF Completes, Active
  <1>2. CASE step[c] = "init" /\ Execute(c, on[c], "exec")
    <2>1. Typed' /\ Records' /\ RanOnce' /\ Listed'
      BY <1>1, <1>2, EntersShell DEF Settled, InShell
    <2>2. /\ step' \in [Commands -> Steps] /\ step'[c] = "exec"
          /\ \A d \in Commands : d # c => step'[d] = step[d]
      BY <1>1, <1>2, ExecuteIs
    <2>3. InOrder'
      BY <1>1, <1>2, <2>2, OrderKept DEF Past, Settled, chainVars, observed
    <2> QED
      BY <2>1, <2>3 DEF ShellInv
  <1>3. CASE /\ step[c] = "exec"
             /\ record' = [record EXCEPT ![on[c]].active = NoCommand]
             /\ listening' = listening \ {c}
             /\ timed' = timed \ {c}
             /\ Ends(c)
             /\ UNCHANGED <<on, sent, ran>>
    <2>1. /\ step' \in [Commands -> Steps] /\ step'[c] = "done"
          /\ \A d \in Commands : d # c => step'[d] = step[d]
      BY <1>3 DEF Ends, ShellInv, Typed, Steps
    <2>2. /\ record' \in [Shells -> [dead : BOOLEAN, active : Commands \cup {NoCommand}]]
          /\ record'[on[c]].active = NoCommand /\ record'[on[c]].dead = record[on[c]].dead
          /\ \A t \in Shells : t # on[c] => record'[t] = record[t]
      BY <1>1, <1>3 DEF ShellInv, Typed
    <2>3. Typed'
      BY <1>1, <1>3, <2>1, <2>2 DEF ShellInv, Typed, chainVars, observed
    <2>4. RanOnce'
      BY <1>3, <2>1, RanKept DEF ShellInv, Typed
    <2>5. InOrder'
      BY <1>1, <1>3, <2>1, OrderKept DEF Past, Settled, chainVars, observed
    <2>6. ASSUME NEW t \in Shells, record'[t].active # NoCommand
          PROVE  InShell(record[t].active)' /\ on'[record'[t].active] = t
      <3>1. t # on[c] /\ record'[t] = record[t] /\ record[t].active \in Commands
        BY <2>2, <2>6 DEF ShellInv, Typed
      <3>2. record[t].active # c
        BY <1>1, <3>1
      <3> QED
        BY <1>3, <2>1, <2>6, <3>1, <3>2 DEF ShellInv, Records, InShell
    <2>7. Records'
      BY <1>1, <1>3, <2>1, <2>2, <2>6 DEF ShellInv, Records
    <2>8. Listed'
      BY <1>1, <2>1 DEF ShellInv, Listed, observed, Working
    <2> QED
      BY <2>3, <2>4, <2>5, <2>7, <2>8 DEF ShellInv
  <1> QED
    BY <1>2, <1>3 DEF Completes

\* A job ends.
LEMMA JobEndsKeeps == ASSUME ShellInv, NEW c \in Commands, JobEnds(c) PROVE ShellInv'
  <1>1. /\ step' \in [Commands -> Steps] /\ step'[c] = "done" /\ step[c] = "job"
        /\ \A d \in Commands : d # c => step'[d] = step[d]
    BY DEF JobEnds, Ends, ShellInv, Typed, Steps
  <1>2. Typed'
    BY <1>1 DEF JobEnds, ShellInv, Typed, chainVars, shellVars, ptyVars, observed
  <1>3. RanOnce'
    BY <1>1, RanKept DEF JobEnds, ShellInv, Typed, ptyVars
  <1>4. InOrder'
    BY <1>1, OrderKept DEF JobEnds, Past, Settled, chainVars, observed
  <1>5. Records' /\ Listed'
    BY <1>1 DEF JobEnds, ShellInv, Typed, Records, Listed, shellVars, ptyVars, observed,
                InShell, Working
  <1> QED
    BY <1>2, <1>3, <1>4, <1>5 DEF ShellInv

\* A terminal exits, which nobody has heard yet.
LEMMA PtyExitsKeeps == ASSUME ShellInv, NEW s \in Shells, PtyExits(s) PROVE ShellInv'
  <1>1. /\ pty' \in [Shells -> {"none", "live", "gone", "closed"}] /\ pty'[s] = "gone"
        /\ \A t \in Shells : t # s => pty'[t] = pty[t]
        /\ pty[s] = "live" /\ exits' = exits \cup {s} /\ faults' \in 0..MaxFaults
    BY ShellAssumption DEF PtyExits, ShellInv, Typed
  <1>2. UNCHANGED <<step, on, attempt, listening, timed, ran, behind, last, shell, record,
                    initFailed, sent, aborted, changes, issuedAt, madeFor, cut>>
    BY DEF PtyExits, callVars, chainVars, shellVars
  <1>3. Typed'
    BY <1>1, <1>2 DEF ShellInv, Typed
  <1>4. Records'
    BY <1>1, <1>2 DEF ShellInv, Typed, Records, InShell
  <1>5. Listed'
    BY <1>1, <1>2 DEF ShellInv, Listed
  <1>6. RanOnce' /\ InOrder'
    BY <1>2 DEF ShellInv, RanOnce, InOrder, Settled
  <1> QED
    BY <1>3, <1>4, <1>5, <1>6 DEF ShellInv

\* The configuration changes: the shell and the chain are forgotten; cut says whether calls
\* were in it.
LEMMA DisposeKeeps == ASSUME ShellInv, Dispose PROVE ShellInv'
  <1>1. /\ changes \in Nat /\ changes' = changes + 1 /\ changes' \in 0..MaxChanges
        /\ last' = NoCommand
        /\ UNCHANGED <<on, attempt, behind, sent, aborted, issuedAt, madeFor, faults>>
    BY ShellAssumption DEF Dispose, ShellInv, Typed
  <1>2. /\ step' \in [Commands -> Steps] /\ ran' \in [Commands -> Nat]
        /\ listening' \subseteq Commands /\ timed' \subseteq Commands /\ initFailed' \in BOOLEAN
        /\ shell' = NoShell
        /\ Records' /\ RanOnce'
        /\ record' \in [Shells -> [dead : BOOLEAN, active : Commands \cup {NoCommand}]]
        /\ pty' \in [Shells -> {"none", "live", "gone", "closed"}]
        /\ exits' \subseteq Shells
        /\ \A t \in Shells : pty'[t] \in {"live", "gone"} =>
              pty[t] \in {"live", "gone"} /\ t # shell
        /\ \A d \in Commands : step'[d] # step[d] =>
              step[d] \in {"init", "exec"} /\ step'[d] \in {"job", "done"}
    <2>1. CASE shell # NoShell
      <3>1. /\ shell \in Shells /\ pty[shell] # "none" /\ Destroy(shell)
            /\ timed' \subseteq Commands
        BY <2>1 DEF Dispose, Disposed, ShellInv, Typed, Records
      <3>2. /\ shell' = NoShell
            /\ record' \in [Shells -> [dead : BOOLEAN, active : Commands \cup {NoCommand}]]
            /\ record'[shell].active = NoCommand /\ record'[shell].dead = TRUE
            /\ pty' \in [Shells -> {"none", "live", "gone", "closed"}]
            /\ exits' \subseteq Shells
            /\ pty'[shell] = "closed" /\ exits' = exits \ {shell}
            /\ \A t \in Shells : t # shell => pty'[t] = pty[t] /\ record'[t] = record[t]
        BY <3>1, DestroyIs DEF ShellInv, Typed
      <3>3. ASSUME NEW c \in SettledOf(shell),
                   \/ step[c] = "init" /\ Rejected(c, listening \ {c})
                   \/ step[c] = "exec" /\ ExecRejected(c, listening \ {c}) /\ initFailed' = FALSE
            PROVE  /\ step' \in [Commands -> Steps] /\ ran' \in [Commands -> Nat]
                   /\ \A d \in Commands : d # c => step'[d] = step[d] /\ ran'[d] = ran[d]
                   /\ \/ step[c] = "init" /\ step'[c] = "job" /\ ran'[c] = ran[c] + 1
                      \/ step[c] = "exec" /\ step'[c] = "done" /\ ran'[c] = ran[c]
                   /\ listening' \subseteq Commands /\ initFailed' \in BOOLEAN
                   /\ c \in Commands /\ record[shell].active = c
                   /\ \A t \in Shells : t # shell => record[t].active # c
        <4>1. c \in Commands /\ record[shell].active = c /\ listening \ {c} \in SUBSET Commands
          BY DEF SettledOf, ShellInv, Typed
        <4>2. \A t \in Shells : t # shell => record[t].active # c
          BY <3>1, <4>1 DEF ShellInv, Records, Commands, NoCommand
        <4>3. CASE step[c] = "init" /\ Rejected(c, listening \ {c})
          BY <4>1, <4>2, <4>3, RejectedIs
        <4>4. CASE step[c] = "exec" /\ ExecRejected(c, listening \ {c}) /\ initFailed' = FALSE
          BY <4>1, <4>2, <4>4 DEF ExecRejected, Ends, ShellInv, Typed, Steps
        <4> QED
          BY <3>3, <4>3, <4>4
      <3>4. CASE \E c \in SettledOf(shell) :
                     \/ step[c] = "init" /\ Rejected(c, listening \ {c})
                     \/ step[c] = "exec" /\ ExecRejected(c, listening \ {c}) /\ initFailed' = FALSE
        <4>1. PICK c \in SettledOf(shell) :
                     \/ step[c] = "init" /\ Rejected(c, listening \ {c})
                     \/ step[c] = "exec" /\ ExecRejected(c, listening \ {c}) /\ initFailed' = FALSE
          BY <3>4
        <4>2. /\ step' \in [Commands -> Steps] /\ ran' \in [Commands -> Nat]
              /\ \A d \in Commands : d # c => step'[d] = step[d] /\ ran'[d] = ran[d]
              /\ \/ step[c] = "init" /\ step'[c] = "job" /\ ran'[c] = ran[c] + 1
                 \/ step[c] = "exec" /\ step'[c] = "done" /\ ran'[c] = ran[c]
              /\ listening' \subseteq Commands /\ initFailed' \in BOOLEAN
              /\ c \in Commands /\ record[shell].active = c
              /\ \A t \in Shells : t # shell => record[t].active # c
          BY <4>1, <3>3
        <4>3. RanOnce'
          BY <1>1, <4>2, RanKept DEF Settled
        <4>4. Records'
          <5>1. \A d \in Commands : (step[d] \in {"draining", "init", "exec"} =>
                  on[d] # NoShell /\ pty[on[d]] # "none")'
            BY <1>1, <3>2, <4>2 DEF ShellInv, Typed, Records
          <5>2. ASSUME NEW t \in Shells, record'[t].active # NoCommand
                PROVE  InShell(record[t].active)' /\ on'[record'[t].active] = t
            <6>1. t # shell /\ record'[t] = record[t] /\ record[t].active \in Commands
              BY <3>2, <5>2 DEF ShellInv, Typed
            <6>2. record[t].active # c
              BY <4>2, <6>1
            <6> QED
              BY <1>1, <4>2, <5>2, <6>1, <6>2 DEF ShellInv, Records, InShell
          <5>3. \A t \in Shells : (record[t].dead <=> pty[t] = "closed")'
            BY <3>2 DEF ShellInv, Records
          <5>4. \A t \in exits' : pty'[t] # "none"
            BY <3>2 DEF ShellInv, Records, Typed
          <5> QED
            BY <3>2, <5>1, <5>2, <5>3, <5>4 DEF Records
        <4> QED
          BY <3>1, <3>2, <4>2, <4>3, <4>4
      <3>5. CASE initFailed' = FALSE /\ UNCHANGED <<step, listening, ran>>
        <4>1. RanOnce'
          BY <1>1, <3>5 DEF ShellInv, RanOnce, Settled
        <4>2. \A d \in Commands : (step[d] \in {"draining", "init", "exec"} =>
                on[d] # NoShell /\ pty[on[d]] # "none")'
          BY <1>1, <3>2, <3>5 DEF ShellInv, Typed, Records
        <4>3. \A t \in Shells : (record[t].active # NoCommand =>
                InShell(record[t].active) /\ on[record[t].active] = t)'
          BY <1>1, <3>2, <3>5 DEF ShellInv, Records, InShell
        <4>4. \A t \in Shells : (record[t].dead <=> pty[t] = "closed")'
          BY <3>2 DEF ShellInv, Records
        <4>5. \A t \in exits' : pty'[t] # "none"
          BY <3>2 DEF ShellInv, Records, Typed
        <4>6. Records'
          BY <3>2, <4>2, <4>3, <4>4, <4>5 DEF Records
        <4> QED
          BY <3>1, <3>2, <3>5, <4>1, <4>6 DEF ShellInv, Typed
      <3> QED
        BY <2>1, <3>4, <3>5 DEF Dispose
    <2>2. CASE shell = NoShell
      <3>1. initFailed' = FALSE
            /\ UNCHANGED <<step, listening, timed, ran, shell, record, pty, exits>>
        BY <2>2 DEF Dispose
      <3>2. Records' /\ RanOnce'
        BY <1>1, <3>1 DEF ShellInv, Records, RanOnce, InShell, Settled
      <3> QED
        <4>1. /\ step' \in [Commands -> Steps] /\ ran' \in [Commands -> Nat]
              /\ record' \in [Shells -> [dead : BOOLEAN, active : Commands \cup {NoCommand}]]
              /\ pty' \in [Shells -> {"none", "live", "gone", "closed"}]
          BY <3>1 DEF ShellInv, Typed
        <4>2. /\ listening' \subseteq Commands /\ timed' \subseteq Commands
              /\ exits' \subseteq Shells /\ initFailed' \in BOOLEAN
          BY <3>1 DEF ShellInv, Typed
        <4>3. \A t \in Shells : t # shell
          BY <2>2 DEF Shells, NoShell
        <4> QED
          BY <2>2, <3>1, <3>2, <4>1, <4>2, <4>3
    <2> QED
      BY <2>1, <2>2
  <1>3. cut' = (cut \/ \E c \in Commands : step'[c] \in Working \cup {"queued"} \/ step[c] = "init")
    BY DEF Dispose
  <1>4. cut' \in BOOLEAN
    BY <1>3 DEF ShellInv, Typed
  <1>5. Typed'
    BY <1>1, <1>2, <1>4 DEF ShellInv, Typed
  <1>6. \A d \in Commands : /\ step'[d] = "new" <=> step[d] = "new"
                            /\ Settled(d) => Settled(d)'
    BY <1>2 DEF Settled
  <1>7. ASSUME ~cut'
        PROVE  ~cut /\ \A d \in Commands : step'[d] \notin Working \cup {"queued"}
    BY <1>3, <1>7
  <1>8. ASSUME ~cut', NEW d \in Commands, step'[d] # "new"
        PROVE  Settled(d)'
    BY <1>2, <1>7, <1>8 DEF Settled, Steps, Working
  <1>9. InOrder'
    BY <1>1, <1>6, <1>7, <1>8 DEF ShellInv, InOrder
  <1>10. Listed'
    BY <1>2, <1>7 DEF ShellInv, Listed, Working
  <1> QED
    BY <1>2, <1>5, <1>9, <1>10 DEF ShellInv

\* ShellInv holds at first.
LEMMA ShellStarts == Init => ShellInv
  <1> SUFFICES ASSUME Init PROVE ShellInv
    OBVIOUS
  <1>1. Typed
    <2>1. /\ step \in [Commands -> Steps] /\ attempt \in [Commands -> {0, 1}]
          /\ behind \in [Commands -> Commands \cup {NoCommand}]
          /\ on \in [Commands -> Shells \cup {NoShell}]
          /\ ran \in [Commands -> Nat]
      BY DEF Init, Steps
    <2>2. /\ record \in [Shells -> [dead : BOOLEAN, active : Commands \cup {NoCommand}]]
          /\ pty \in [Shells -> {"none", "live", "gone", "closed"}]
      BY DEF Init
    <2>3. /\ changes \in 0..MaxChanges /\ faults \in 0..MaxFaults
          /\ issuedAt \in [Commands -> 0..MaxChanges]
          /\ madeFor \in [Shells -> 0..MaxChanges]
      BY ShellAssumption DEF Init
    <2> QED
      BY <2>1, <2>2, <2>3 DEF Init, Typed
  <1>2. Records /\ RanOnce
    BY DEF Init, Records, RanOnce, NoShell, NoCommand, Shells
  <1>3. InOrder /\ Listed
    BY DEF Init, InOrder, Listed, Working
  <1> QED
    BY <1>1, <1>2, <1>3 DEF ShellInv

\* ShellInv is inductive.
LEMMA ShellKeeps == ShellInv /\ [Next]_vars => ShellInv'
  <1> SUFFICES ASSUME ShellInv, [Next]_vars PROVE ShellInv'
    OBVIOUS
  <1>1. CASE UNCHANGED vars
    BY <1>1 DEF vars, callVars, chainVars, shellVars, ptyVars, observed, ShellInv, Typed, Records,
                RanOnce, InOrder, Listed, Settled, InShell
  <1>2. CASE Advance
    BY <1>2, StartKeeps, OpenedKeeps, DrainedKeeps, InputKeeps, RetryKeeps, TimerKeeps,
       JobEndsKeeps, ExitKeeps DEF Advance
  <1>3. CASE Environment
    BY <1>3, RunKeeps, AbortKeeps, CompletesKeeps, OpenFailsKeeps, InitFailsKeeps, PtyExitsKeeps,
       DisposeKeeps DEF Environment
  <1> QED
    BY <1>1, <1>2, <1>3 DEF Next

\* Serialized (persistent-shell.ts, executeBash): one call at a time works with the shell,
\* and no command runs twice.
THEOREM CommandsAreSerialized == Spec => []Serialized
  <1>1. ShellInv => Serialized
    <2> SUFFICES ASSUME ShellInv PROVE Serialized
      OBVIOUS
    <2>1. TypeOK
      BY DEF ShellInv, Typed, Records, TypeOK
    <2>2. \A c \in Commands : ran[c] <= 1
      BY DEF ShellInv, RanOnce
    <2>3. ASSUME ~cut PROVE Cardinality({c \in Commands : step[c] \in Working}) <= 1
      <3> DEFINE W == {c \in Commands : step[c] \in Working}
      <3>1. CASE W = {}
        BY <3>1, FS_EmptySet
      <3>2. CASE W # {}
        <4>1. PICK c \in W : TRUE
          BY <3>2
        <4>2. W = {c}
          BY <2>3, <4>1, OneWorks
        <4> QED
          <5>1. Cardinality(W) = 1
            BY <4>2, FS_Singleton
          <5> QED
            BY <5>1
      <3> QED
        BY <3>1, <3>2
    <2> QED
      BY <2>1, <2>2, <2>3 DEF Serialized
  <1> QED
    BY ShellStarts, ShellKeeps, <1>1, PTL DEF Spec

\* NoStrayTerminal (persistent-shell.ts): no terminal is left running outside the table, and
\* the one in it has the configuration of now.
THEOREM TerminalsAreListed == Spec => []NoStrayTerminal
  <1>1. ShellInv => NoStrayTerminal
    BY DEF ShellInv, Listed, NoStrayTerminal
  <1> QED
    BY ShellStarts, ShellKeeps, <1>1, PTL DEF Spec
====
