---------------------------- MODULE ExecContract ----------------------------
(***************************************************************************)
(* What the executor promises to whoever runs a command: the command is    *)
(* started at most once, its promise settles at most once, and it settles  *)
(* with what really happened.                                              *)
(***************************************************************************)
CONSTANTS Commands

VARIABLES
    asked,      \* the commands whose run() was called
    cancelled,  \* the commands whose cancellation was asked for
    phase,      \* what happened to the command itself
    outcome     \* what its caller was told

vars == <<asked, cancelled, phase, outcome>>

Init ==
    /\ asked = {}
    /\ cancelled = {}
    /\ phase = [c \in Commands |-> "none"]
    /\ outcome = [c \in Commands |-> "none"]

Ask(c) ==
    /\ c \notin asked
    /\ asked' = asked \cup {c}
    /\ UNCHANGED <<cancelled, phase, outcome>>

Cancel(c) ==
    /\ c \in asked
    /\ cancelled' = cancelled \cup {c}
    /\ UNCHANGED <<asked, phase, outcome>>

\* A command whose promise has settled is not started any more.
Start(c) ==
    /\ c \in asked
    /\ phase[c] = "none"
    /\ outcome[c] = "none"
    /\ phase' = [phase EXCEPT ![c] = "started"]
    /\ UNCHANGED <<asked, cancelled, outcome>>

\* Only a command whose cancellation was asked for is stopped.
End(c, how) ==
    /\ phase[c] = "started"
    /\ how = "stopped" => c \in cancelled
    /\ phase' = [phase EXCEPT ![c] = how]
    /\ UNCHANGED <<asked, cancelled, outcome>>

\* "result" is told of a command that ran to its end, "failed" of one that
\* broke, "cancelled" of one somebody cancelled; "refused" of one that was not
\* started.  "lost" is always possible.
Truthful(c, told) ==
    /\ told = "result" => phase[c] = "ended"
    /\ told = "failed" => phase[c] = "broken"
    /\ told = "cancelled" => c \in cancelled
    /\ told = "refused" => phase[c] = "none"

\* One failure of the process may settle several.
Settle(told) ==
    /\ outcome' # outcome
    /\ \A c \in Commands :
         outcome'[c] # outcome[c] =>
             /\ c \in asked
             /\ outcome[c] = "none"
             /\ outcome'[c] = told
             /\ Truthful(c, told)
    /\ UNCHANGED <<asked, cancelled, phase>>

Next ==
    \/ \E c \in Commands : Ask(c) \/ Cancel(c) \/ Start(c)
    \/ \E c \in Commands, how \in {"ended", "broken", "stopped"} : End(c, how)
    \/ \E told \in {"result", "failed", "cancelled", "refused", "lost"} : Settle(told)

Spec == Init /\ [][Next]_vars
=============================================================================
