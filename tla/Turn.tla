-------------------------------- MODULE Turn --------------------------------
(***************************************************************************)
(* A run that asks: the loop of agent/agent-runner.ts and those of its     *)
(* sub-agents (agent/sub-agent.ts), from the call of the model to the end  *)
(* of the tool, with what the two wait for: a slot of the provider         *)
(* (ConcurrencyLimiter), an answer to a question (Interactions), a         *)
(* permission (Approvals).  The user answers, changes the mode and stops   *)
(* the session meanwhile.                                                  *)
(*                                                                         *)
(* What a tool does is not modelled: RunControl and the modules of the     *)
(* executor do that.  An agent calls one tool at a time.                   *)
(***************************************************************************)
EXTENDS Naturals, ConcurrencyLimiter, Interactions, Approvals

CONSTANTS
    Subs,         \* the agents that are sub-agents
    ToolsOf,      \* the tools each agent may call; "question" is ask_user
    MaxRounds,    \* bound: calls of the model of an agent
    MaxSwitches,  \* bound: changes of the mode
    MaxTroubles   \* bound: connections that close early, rules that are not written

ASSUME TurnAssumption ==
    /\ Subs \subseteq Agents
    /\ ToolsOf \in [Agents -> SUBSET (Tools \cup {"question"})]
    /\ MaxRounds \in Nat \ {0}
    /\ {MaxSwitches, MaxTroubles} \subseteq Nat

VARIABLES
    step,     \* where each agent is
    seen,     \* the settings its call of a tool has read
    stopped,  \* the signal of the run is aborted
    rounds,   \* how often each agent has called the model
    grounds,  \* what has spoken for and against the call of a tool
    counts    \* changes of the mode and troubles so far

turnVars == <<step, seen, stopped, rounds, grounds, counts>>
vars == <<limiterVars, interactionVars, approvalVars, turnVars>>

Steps == {"model", "tool", "look", "decide", "review", "again", "notify", "asked",
          "create", "await", "waiting", "ran", "refused", "answered", "done"}

TurnTypeOK ==
    /\ LimiterTypeOK
    /\ InteractionsTypeOK
    /\ ApprovalsTypeOK
    /\ step \in [Agents -> Steps]
    /\ seen \in [Agents -> Settings]
    /\ stopped \in BOOLEAN
    /\ rounds \in [Agents -> 0..MaxRounds]
    /\ grounds \in [Agents -> SUBSET {"exempt", "reviewed", "allowed", "denied", "stopped"}]
    /\ counts \in [switches : 0..MaxSwitches, troubles : 0..MaxTroubles]

Init ==
    /\ LimiterInit
    /\ InteractionsInit
    /\ ApprovalsInit
    /\ step = [a \in Agents |-> "model"]
    /\ seen = [a \in Agents |-> Asking]
    /\ stopped = FALSE
    /\ rounds = [a \in Agents |-> 0]
    /\ grounds = [a \in Agents |-> {}]
    /\ counts = [switches |-> 0, troubles |-> 0]

Goes(a, to) == step' = [step EXCEPT ![a] = to]

\* A step that only moves the agent on.
OnlyGoes(a, to) ==
    /\ Goes(a, to)
    /\ UNCHANGED <<limiterVars, interactionVars, approvalVars, seen, stopped, rounds, grounds, counts>>

Kept == <<seen, stopped, rounds, grounds, counts>>

(***************************************************************************)
(* The model.                                                              *)
(***************************************************************************)

\* streamChat() asks for a slot, unless the run was stopped.
CallModel(a) ==
    /\ step[a] = "model"
    /\ ~stopped
    /\ Acquire(a)
    /\ rounds' = [rounds EXCEPT ![a] = @ + 1]
    /\ UNCHANGED <<interactionVars, approvalVars, step, seen, stopped, grounds, counts>>

GiveUp(a) ==
    /\ stopped
    /\ step[a] \in {"model", "tool"}
    /\ call[a] = "idle"
    /\ OnlyGoes(a, "done")

GetSlot(a) ==
    /\ Resume(a)
    /\ UNCHANGED <<interactionVars, approvalVars, turnVars>>

\* The stream ends, with a call of a tool or without, or fails.
EndModel(a) ==
    /\ step[a] = "model"
    /\ Release(a)
    /\ IF stopped THEN Goes(a, "done") ELSE \E to \in {"tool", "done"} : Goes(a, to)
    /\ UNCHANGED <<interactionVars, approvalVars, Kept>>

(***************************************************************************)
(* The permission: authorizeTool().                                        *)
(***************************************************************************)

\* A change of the mode that has been read speaks for the calls it frees.
Exempt(settings, tool) == ~MustAsk(settings, tool)
Exemptions(settings, tool) == IF Exempt(settings, tool) THEN {"exempt"} ELSE {}

BeginCall(a) ==
    /\ step[a] = "tool"
    /\ ~stopped
    /\ \E tool \in ToolsOf[a] \ {"question"} :
          /\ kind' = [kind EXCEPT ![a] = tool]
          /\ grounds' = [grounds EXCEPT ![a] = Exemptions(saved, tool) \cup
                            IF switch.pc = "reconcile" THEN Exemptions(switch.saw, tool) ELSE {}]
    /\ Goes(a, "look")
    /\ UNCHANGED <<limiterVars, interactionVars, saved, asked, answer, switch,
                   seen, stopped, rounds, counts>>

Look(a) ==
    /\ step[a] = "look"
    /\ seen' = [seen EXCEPT ![a] = saved]
    /\ Goes(a, "decide")
    /\ UNCHANGED <<limiterVars, interactionVars, approvalVars, stopped, rounds, grounds, counts>>

\* The settings a call is judged by: a sub-agent has the mode "review", which nothing is
\* exempt from but what a rule allows, unless the mode is "yolo".
Reviewed(a) == a \in Subs /\ seen[a].mode # "yolo" /\ kind[a] # "outside"
Effective(a) == IF Reviewed(a) THEN [seen[a] EXCEPT !.mode = "ask"] ELSE seen[a]

Decide(a) ==
    /\ step[a] = "decide"
    /\ step' = [step EXCEPT ![a] =
                   IF ~MustAsk(Effective(a), kind[a]) THEN "ran"
                   ELSE IF Reviewed(a) THEN "review" ELSE "notify"]
    /\ seen' = [seen EXCEPT ![a] = Asking]
    /\ UNCHANGED <<limiterVars, interactionVars, approvalVars, stopped, rounds, grounds, counts>>

\* What follows a verdict: a call that is not low is looked at again.
Verdict(a, low) ==
    /\ Goes(a, IF low THEN "ran" ELSE "again")
    /\ grounds' = [grounds EXCEPT ![a] = @ \cup IF low THEN {"reviewed"} ELSE {}]
    /\ UNCHANGED <<interactionVars, approvalVars, seen, stopped, rounds, counts>>

\* reviewToolCall() with the fast model, or none.
ReviewFast(a) ==
    /\ step[a] = "review"
    /\ call[a] = "idle"
    /\ \E low \in BOOLEAN : (stopped => ~low) /\ Verdict(a, low)
    /\ UNCHANGED limiterVars

\* ... with the model of the session, which takes a slot ...
ReviewByModel(a) ==
    /\ step[a] = "review"
    /\ ~stopped
    /\ Acquire(a)
    /\ UNCHANGED <<interactionVars, approvalVars, turnVars>>

\* ... and answers, or fails after 30 seconds ...
EndReview(a) ==
    /\ step[a] = "review"
    /\ Release(a)
    /\ \E low \in BOOLEAN : (stopped => ~low) /\ Verdict(a, low)

\* ... or still waits in line by then.
ReviewTimeout(a) ==
    /\ step[a] = "review"
    /\ call[a] = "queued"
    /\ LeaveLine({a})
    /\ Verdict(a, FALSE)

LookOnceMore(a) ==
    /\ step[a] = "again"
    /\ OnlyGoes(a, IF NeedsApproval(saved, kind[a]) THEN "notify" ELSE "ran")

\* Mutant of AskUser: the signal is not tested.
AskThoughStopped(a) ==
    /\ step[a] = "notify"
    /\ Request(a)
    /\ Goes(a, "asked")
    /\ UNCHANGED <<limiterVars, interactionVars, Kept>>

\* After the Notification hook the request is registered, unless the run was stopped.
AskUser(a) ==
    /\ step[a] = "notify"
    /\ IF stopped
       THEN OnlyGoes(a, "done")
       ELSE /\ Request(a)
            /\ Goes(a, "asked")
            /\ UNCHANGED <<limiterVars, interactionVars, Kept>>

(***************************************************************************)
(* A question: ask_user.                                                   *)
(***************************************************************************)

BeginQuestion(a) ==
    /\ step[a] = "tool"
    /\ ~stopped
    /\ "question" \in ToolsOf[a]
    /\ OnlyGoes(a, "create")

PutQuestion(a) ==
    /\ step[a] = "create"
    /\ CreateQuestion(a)
    /\ Goes(a, "await")
    /\ UNCHANGED <<limiterVars, approvalVars, Kept>>

\* After the Notification hook.
WaitForAnswer(a) ==
    /\ step[a] = "await"
    /\ UNCHANGED <<limiterVars, approvalVars, Kept>>
    /\ IF stopped THEN Settled({a}) /\ Goes(a, "answered")
       ELSE Await(a) /\ Goes(a, "waiting")

LookAtQuestion(a) ==
    /\ ReadQuestion(a)
    /\ UNCHANGED <<limiterVars, approvalVars, turnVars>>

AnsweredBefore(a) ==
    /\ FoundAnswered(a)
    /\ Goes(a, "answered")
    /\ UNCHANGED <<limiterVars, approvalVars, Kept>>

NotAnsweredYet(a) ==
    /\ FoundPending(a)
    /\ UNCHANGED <<limiterVars, approvalVars, turnVars>>

TakeAnswer(a) ==
    /\ DeliverAnswer(a)
    /\ Goes(a, "answered")
    /\ UNCHANGED <<limiterVars, approvalVars, Kept>>

NobodyThere(a) ==
    /\ DeliverToNobody(a)
    /\ UNCHANGED <<limiterVars, approvalVars, turnVars>>

\* The tool has run, was refused, or the question is settled: the model is called again,
\* unless that has happened often enough.
NextRound(a) ==
    /\ step[a] \in {"ran", "refused", "answered"}
    /\ Goes(a, IF stopped \/ rounds[a] = MaxRounds THEN "done" ELSE "model")
    /\ grounds' = [grounds EXCEPT ![a] = {}]
    /\ UNCHANGED <<limiterVars, interactionVars, approvalVars, seen, stopped, rounds, counts>>

(***************************************************************************)
(* The handlers of requests that are under way.                            *)
(***************************************************************************)

\* What is saved may exempt calls under way.
WithExemptions == [a \in Agents |-> grounds[a] \cup
    IF step[a] \in {"look", "decide", "review", "again", "notify", "asked"}
    THEN Exemptions(saved', kind[a]) ELSE {}]

SaveRule(a) ==
    /\ WriteRule(a)
    /\ grounds' = WithExemptions
    /\ UNCHANGED <<limiterVars, interactionVars, step, seen, stopped, rounds, counts>>

AnswerStep(a) ==
    /\ ReadSettings(a) \/ Listen(a)
    /\ UNCHANGED <<limiterVars, interactionVars, turnVars>>

\* The answer reaches the agent.
Resolve(a) ==
    /\ Complete(a)
    /\ Goes(a, IF Granted(a, stopped) THEN "ran" ELSE "refused")
    /\ UNCHANGED <<limiterVars, interactionVars, Kept>>

Trouble == counts' = [counts EXCEPT !.troubles = @ + 1]

RuleIsNotSaved(a) ==
    /\ counts.troubles < MaxTroubles
    /\ WriteRuleFails(a)
    /\ Goes(a, "refused")
    /\ Trouble
    /\ UNCHANGED <<limiterVars, interactionVars, seen, stopped, rounds, grounds>>

SaveMode ==
    /\ WriteMode
    /\ grounds' = WithExemptions
    /\ UNCHANGED <<limiterVars, interactionVars, step, seen, stopped, rounds, counts>>

LookAtMode ==
    /\ LookAgain
    /\ UNCHANGED <<limiterVars, interactionVars, turnVars>>

FreeRequests ==
    /\ Reconcile
    /\ step' = [a \in Agents |-> IF a \in asked \ asked' THEN "ran" ELSE step[a]]
    /\ UNCHANGED <<limiterVars, interactionVars, Kept>>

(***************************************************************************)
(* The user.                                                               *)
(***************************************************************************)

\* A connection that is closed early is a trouble.
UserDecides(a, decision) ==
    /\ Respond(a, decision)
    /\ counts' = [counts EXCEPT !.troubles = IF answer'[a].open THEN @ ELSE @ + 1]
    /\ counts'.troubles <= MaxTroubles
    /\ grounds' = [grounds EXCEPT ![a] = @ \cup {IF decision = "deny" THEN "denied" ELSE "allowed"}]
    /\ UNCHANGED <<limiterVars, interactionVars, step, seen, stopped, rounds>>

UserLeaves(a) ==
    /\ counts.troubles < MaxTroubles
    /\ CloseEarly(a)
    /\ Trouble
    /\ UNCHANGED <<limiterVars, interactionVars, step, seen, stopped, rounds, grounds>>

UserAnswers(a) ==
    /\ SaveAnswer(a)
    /\ UNCHANGED <<limiterVars, approvalVars, turnVars>>

UserSwitches(mode) ==
    /\ counts.switches < MaxSwitches
    /\ BeginSwitch(mode)
    /\ counts' = [counts EXCEPT !.switches = @ + 1]
    /\ UNCHANGED <<limiterVars, interactionVars, step, seen, stopped, rounds, grounds>>

\* abort(): in one step, everything that waits is settled.
Stop ==
    /\ ~stopped
    /\ stopped' = TRUE
    /\ LeaveLine(Waiting)
    /\ Settled(waiters)
    /\ asked' = {}
    /\ step' = [a \in Agents |-> CASE a \in asked -> "refused"
                                   [] a \in waiters -> "answered"
                                   [] a \in Waiting /\ step[a] = "review" -> "again"
                                   [] OTHER -> step[a]]
    /\ grounds' = [a \in Agents |-> IF step[a] = "asked" THEN grounds[a] \cup {"stopped"}
                                    ELSE grounds[a]]
    /\ UNCHANGED <<saved, kind, answer, switch, seen, rounds, counts>>

\* The steps of the agents and of the handlers.
Progress ==
    \/ \E a \in Agents :
          \/ CallModel(a) \/ GiveUp(a) \/ GetSlot(a) \/ EndModel(a)
          \/ BeginCall(a) \/ Look(a) \/ Decide(a)
          \/ ReviewFast(a) \/ ReviewByModel(a) \/ EndReview(a) \/ ReviewTimeout(a)
          \/ LookOnceMore(a) \/ AskUser(a)
          \/ BeginQuestion(a) \/ PutQuestion(a) \/ WaitForAnswer(a) \/ LookAtQuestion(a)
          \/ AnsweredBefore(a) \/ NotAnsweredYet(a) \/ TakeAnswer(a) \/ NobodyThere(a)
          \/ NextRound(a) \/ AnswerStep(a) \/ SaveRule(a) \/ Resolve(a)
    \/ SaveMode \/ LookAtMode \/ FreeRequests

User ==
    \/ \E a \in Agents :
          \/ \E decision \in {"allow", "allow_always", "deny"} : UserDecides(a, decision)
          \/ UserLeaves(a) \/ UserAnswers(a) \/ RuleIsNotSaved(a)
    \/ \E mode \in Modes : UserSwitches(mode)
    \/ Stop

Next == Progress \/ User

\* The event loop runs; the user need not do anything.
Spec == Init /\ [][Next]_vars /\ WF_vars(Progress)

(***************************************************************************)
(* Properties.                                                             *)
(***************************************************************************)

AnswerUnderWay(a) == answer[a].pc # "none"

\* Whatever the order of the steps, somebody who waits can still be reached: the request
\* is on the list, where the user and Stop find it, or an answer to it is under way; the
\* waiter for a question is registered while the question is open, or its answer is about
\* to be delivered or found; nobody stands in line after Stop.  (permissions.respond()
\* and waitForInteractionAnswer() hand a promise over between several actors.)
NobodyIsStranded ==
    /\ TurnTypeOK
    /\ \A a \in Agents :
          /\ step[a] = "asked" => (a \in asked /\ ~stopped) \/ AnswerUnderWay(a)
          /\ step[a] = "waiting" =>
                \/ a \in waiters /\ question[a] = "pending" /\ ~stopped
                \/ recheck[a] \in {"reads", "answered"}
                \/ a \in delivering /\ a \in waiters
          /\ call[a] = "queued" => ~stopped

\* The comment of the route: a decision is carried out even when the connection was
\* closed early (sessions-run.ts).
DecisionSurvivesClose ==
    \A a \in Agents : step[a] = "asked" => answer[a].pc # "lost"

\* A tool runs because the settings exempted it at some time during its call, a review
\* found it harmless or the user allowed it, and never after the user has denied it or
\* stopped the run while it was asked about; an access outside the home directory only by
\* a rule or an answer.  (authorizeTool(), reconcile() and complete() decide from what
\* they read earlier.)
NothingRunsUnasked ==
    \A a \in Agents : step[a] = "ran" =>
        /\ grounds[a] \cap {"exempt", "reviewed", "allowed"} # {}
        /\ grounds[a] \cap {"denied", "stopped"} = {}

\* After Stop every agent ends, whatever it waited for, but for one whose answer was lost
\* (DecisionSurvivesClose).
StopEnds ==
    stopped ~> \A a \in Agents : step[a] = "done" \/ answer[a].pc = "lost"
=============================================================================
