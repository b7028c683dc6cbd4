-------------------------- MODULE DeliveryContract --------------------------
(***************************************************************************)
(* What the message queue promises the sender of a message, whatever runs, *)
(* starters and requests do inside the server: a message is claimed before *)
(* its text enters the history, it counts as applied only when its text is *)
(* there, a cancelled message was nobody's at that moment, and applied and *)
(* cancelled messages stay what they are.                                  *)
(***************************************************************************)
EXTENDS Naturals

CONSTANT Messages

VARIABLES
    state,    \* what became of each message
    recorded  \* how often its text was written to the history

vars == <<state, recorded>>

States == {"none", "queued", "consuming", "applied", "cancelled"}

Init ==
    /\ state = [m \in Messages |-> "none"]
    /\ recorded = [m \in Messages |-> 0]

Move(m, from, to) ==
    /\ state[m] = from
    /\ state' = [state EXCEPT ![m] = to]
    /\ UNCHANGED recorded

Accept(m) == Move(m, "none", "queued")
Claim(m) == Move(m, "queued", "consuming")
Release(m) == Move(m, "consuming", "queued")
Withdraw(m) == Move(m, "queued", "cancelled")
Settle(m) == recorded[m] > 0 /\ Move(m, "consuming", "applied")

Record(m) ==
    /\ state[m] = "consuming"
    /\ recorded' = [recorded EXCEPT ![m] = @ + 1]
    /\ UNCHANGED state

Next ==
    \E m \in Messages :
        \/ Accept(m) \/ Claim(m) \/ Release(m) \/ Withdraw(m)
        \/ Record(m) \/ Settle(m)

Spec == Init /\ [][Next]_vars
=============================================================================
