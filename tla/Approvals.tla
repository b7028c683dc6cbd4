----------------------------- MODULE Approvals -----------------------------
(***************************************************************************)
(* Requests for permission: agent/permission-coordinator.ts, the routes    *)
(* that answer them (routes/sessions-run.ts) and that change the mode of   *)
(* the session (routes/sessions-context.ts), and preparePermissionResponse *)
(* of agent/agent-runner.ts.                                               *)
(*                                                                         *)
(* A tool is one of a few kinds; rules are kinds that the user has allowed *)
(* once and for all.  Every agent has one request at a time.               *)
(***************************************************************************)
EXTENDS RunAgents

CONSTANT Modes  \* permissionMode: "ask", "acceptEdits", "yolo"

ASSUME ApprovalsAssumption == "ask" \in Modes

VARIABLES
    saved,   \* mode and rules in meta.json
    kind,    \* the tool each agent calls
    asked,   \* the pending requests
    answer,  \* the answer to the request of each agent, under way
    switch   \* a change of the mode, under way

approvalVars == <<saved, kind, asked, answer, switch>>

\* A command, a write to a file, and an access outside the home directory of a local
\* session, which only a rule or the user can allow.
Tools == {"command", "edit", "outside"}
Settings == [mode : Modes, rules : SUBSET Tools]
Asking == [mode |-> "ask", rules |-> {}]
NoAnswer == [pc |-> "none", allows |-> FALSE, open |-> TRUE, saw |-> Asking]
NoSwitch == [pc |-> "none", mode |-> "ask", saw |-> Asking]

ApprovalsTypeOK ==
    /\ saved \in Settings
    /\ kind \in [Agents -> Tools]
    /\ asked \subseteq Agents
    /\ answer \in [Agents -> [pc : {"none", "read", "write", "register", "sending", "lost"},
                              allows : BOOLEAN, open : BOOLEAN, saw : Settings]]
    /\ switch \in [pc : {"none", "write", "look", "reconcile"}, mode : Modes, saw : Settings]

ApprovalsInit ==
    /\ saved = Asking
    /\ kind = [a \in Agents |-> "edit"]
    /\ asked = {}
    /\ answer = [a \in Agents |-> NoAnswer]
    /\ switch = NoSwitch

\* needsApproval()
NeedsApproval(settings, tool) ==
    /\ settings.mode # "yolo"
    /\ ~(settings.mode = "acceptEdits" /\ tool = "edit")
    /\ tool \notin settings.rules

\* What authorizeTool() makes of it: the test for paths outside the home directory comes
\* first.
MustAsk(settings, tool) ==
    IF tool = "outside" THEN tool \notin settings.rules ELSE NeedsApproval(settings, tool)

(***************************************************************************)
(* An answer of the user.                                                  *)
(***************************************************************************)

\* request()
Request(a) ==
    /\ asked' = asked \cup {a}
    /\ UNCHANGED <<saved, kind, answer, switch>>

\* respond(): the request is taken off the list and no longer heeds its signal.  The
\* connection may have been closed already.
Respond(a, decision) ==
    /\ a \in asked
    /\ asked' = asked \ {a}
    /\ \E open \in BOOLEAN :
          answer' = [answer EXCEPT ![a] = [NoAnswer EXCEPT
                        !.pc = IF decision = "allow_always" THEN "read" ELSE "register",
                        !.allows = decision # "deny", !.open = open]]
    /\ UNCHANGED <<saved, kind, switch>>

\* "allow_always" adds a rule: the settings are read ...
ReadSettings(a) ==
    /\ answer[a].pc = "read"
    /\ answer' = [answer EXCEPT ![a].pc = "write", ![a].saw = saved]
    /\ UNCHANGED <<saved, kind, asked, switch>>

\* ... and written, the mode with them.
WriteRule(a) ==
    /\ answer[a].pc = "write"
    /\ saved' = [answer[a].saw EXCEPT !.rules = @ \cup {kind[a]}]
    /\ answer' = [answer EXCEPT ![a].pc = "register", ![a].saw = Asking]
    /\ UNCHANGED <<kind, asked, switch>>

\* The connection is closed before anybody listens for that.
CloseEarly(a) ==
    /\ answer[a].pc \in {"read", "write"}
    /\ answer[a].open
    /\ answer' = [answer EXCEPT ![a].open = FALSE]
    /\ UNCHANGED <<saved, kind, asked, switch>>

\* The listeners for "finish" and "close" are added and the answer is sent; a connection
\* that was closed before emits neither.
Listen(a) ==
    /\ answer[a].pc = "register"
    /\ answer' = [answer EXCEPT ![a].pc = IF answer[a].open THEN "sending" ELSE "lost"]
    /\ UNCHANGED <<saved, kind, asked, switch>>

\* complete(), once the answer is sent or its connection closed.
Complete(a) ==
    /\ answer[a].pc = "sending"
    /\ answer' = [answer EXCEPT ![a] = NoAnswer]
    /\ UNCHANGED <<saved, kind, asked, switch>>

\* The rule could not be written: the request is refused.
WriteRuleFails(a) ==
    /\ answer[a].pc \in {"read", "write"}
    /\ answer' = [answer EXCEPT ![a] = NoAnswer]
    /\ UNCHANGED <<saved, kind, asked, switch>>

Granted(a, aborted) == answer[a].allows /\ ~aborted

(***************************************************************************)
(* A change of the mode while the session runs.                            *)
(***************************************************************************)

BeginSwitch(mode) ==
    /\ switch.pc = "none"
    /\ switch' = [pc |-> "write", mode |-> mode, saw |-> saved]
    /\ UNCHANGED <<saved, kind, asked, answer>>

\* The rules are those the route has read at its beginning.
WriteMode ==
    /\ switch.pc = "write"
    /\ saved' = [mode |-> switch.mode, rules |-> switch.saw.rules]
    /\ switch' = [NoSwitch EXCEPT !.pc = "look"]
    /\ UNCHANGED <<kind, asked, answer>>

\* reconcilePermissions() reads what has been written ...
LookAgain ==
    /\ switch.pc = "look"
    /\ switch' = [NoSwitch EXCEPT !.pc = "reconcile", !.saw = saved]
    /\ UNCHANGED <<saved, kind, asked, answer>>

\* Mutant of Freed: the requests that are always for the user are not left out.
FreedAll == {a \in asked : ~NeedsApproval(switch.saw, kind[a])}

\* The requests that need no approval any more.
Freed == {a \in asked : kind[a] # "outside" /\ ~NeedsApproval(switch.saw, kind[a])}

\* ... and reconcile() settles them.
Reconcile ==
    /\ switch.pc = "reconcile"
    /\ asked' = asked \ Freed
    /\ switch' = NoSwitch
    /\ UNCHANGED <<saved, kind, answer>>
=============================================================================
