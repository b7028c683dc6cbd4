----------------------------- MODULE Turn_proofs -----------------------------
(***************************************************************************)
(* Proofs about the slots of a provider: first for the limiter alone, with *)
(* whatever calls and aborts there are, then for a run, every step of      *)
(* which is one of the limiter's or leaves it alone.  Then those about     *)
(* what an agent waits for and what lets its tools run.                    *)
(***************************************************************************)
EXTENDS Turn, FiniteSetTheorems, TLAPS

\* The agents that hold a slot are finitely many.
LEMMA HoldersAreFinite == IsFiniteSet(Holders)
  <1>1. Holders \subseteq Agents
    BY DEF Holders
  <1> QED
    BY <1>1, AgentsAssumption, FS_Subset

LimiterInv == LimiterTypeOK /\ SlotsAreKept

LEMMA LimiterStarts == LimiterInit => LimiterInv
  <1> SUFFICES ASSUME LimiterInit PROVE LimiterInv
    OBVIOUS
  <1>1. Holders = {} /\ Waiting = {}
    BY DEF LimiterInit, Holders, Waiting
  <1>2. Cardinality(Holders) = 0
    BY <1>1, FS_EmptySet
  <1> QED
    BY <1>1, <1>2, LimiterAssumption DEF LimiterInit, LimiterInv, LimiterTypeOK, SlotsAreKept

\* A call takes a free slot only while nobody waits, and waits only while none is free.
LEMMA AcquireKeeps ==
  ASSUME LimiterInv, NEW a \in Agents, Acquire(a)
  PROVE  LimiterInv'
  <1> USE DEF LimiterInv, LimiterTypeOK, SlotsAreKept
  <1>1. CASE active < MaxConcurrent
    <2>1. Holders' = Holders \cup {a} /\ a \notin Holders
      BY <1>1 DEF Acquire, Holders
    <2>2. Cardinality(Holders') = Cardinality(Holders) + 1
      BY <2>1, HoldersAreFinite, FS_AddElement
    <2>3. Waiting' = {}
      BY <1>1, LimiterAssumption DEF Acquire, Waiting
    <2> QED
      BY <1>1, <2>2, <2>3, LimiterAssumption DEF Acquire
  <1>2. CASE ~(active < MaxConcurrent)
    <2>1. Holders' = Holders
      BY <1>2 DEF Acquire, Holders
    <2>2. ahead' \in [Agents -> SUBSET Agents]
      BY <1>2 DEF Acquire, Waiting
    <2> QED
      BY <1>2, <2>1, <2>2, LimiterAssumption DEF Acquire
  <1> QED
    BY <1>1, <1>2

LEMMA ResumeKeeps ==
  ASSUME LimiterInv, NEW a \in Agents, Resume(a)
  PROVE  LimiterInv'
  <1>1. Holders' = Holders /\ Waiting' = Waiting
    BY DEF Resume, Holders, Waiting, LimiterInv, LimiterTypeOK
  <1> QED
    BY <1>1 DEF Resume, LimiterInv, LimiterTypeOK, SlotsAreKept

\* A slot is freed when nobody waits, and has another holder otherwise.
LEMMA ReleaseKeeps ==
  ASSUME LimiterInv, NEW a \in Agents, Release(a)
  PROVE  LimiterInv'
  <1> USE DEF LimiterInv, LimiterTypeOK, SlotsAreKept
  <1>1. a \in Holders
    BY DEF Release, Holders
  <1>2. /\ IsFiniteSet(Holders \ {a})
        /\ Cardinality(Holders \ {a}) = Cardinality(Holders) - 1
    BY <1>1, HoldersAreFinite, FS_RemoveElement
  <1>3. Cardinality(Holders \ {a}) \in Nat
    BY <1>2, FS_CardinalityType
  <1>4. CASE Waiting = {}
    <2>1. call' = [call EXCEPT ![a] = "idle"] /\ UNCHANGED ahead
      BY <1>4 DEF Release
    <2>2. active' = active - 1
      BY <1>4 DEF Release, Frees
    <2>3. Holders' = Holders \ {a} /\ Waiting' = {}
      BY <1>4, <2>1 DEF Holders, Waiting
    <2> QED
      BY <1>2, <1>3, <2>1, <2>2, <2>3, LimiterAssumption
  <1>5. CASE Waiting # {}
    <2>1. PICK b \in Waiting : /\ call' = [call EXCEPT ![a] = "idle", ![b] = "granted"]
                               /\ ahead' = [c \in Agents |-> ahead[c] \ {b}]
      BY <1>5 DEF Release
    <2>2. active' = active
      BY <1>5 DEF Release, Frees
    <2>3. b \in Agents /\ b \notin Holders
      BY DEF Waiting, Holders
    <2>4. Holders' = (Holders \ {a}) \cup {b} /\ b \notin Holders \ {a}
      BY <1>1, <2>1, <2>3 DEF Holders
    <2>5. Cardinality(Holders') = Cardinality(Holders)
      <3>1. Cardinality((Holders \ {a}) \cup {b}) = Cardinality(Holders \ {a}) + 1
        BY <1>2, <2>4, FS_AddElement
      <3>2. Cardinality(Holders) \in Nat
        BY HoldersAreFinite, FS_CardinalityType
      <3> QED
        BY <1>2, <2>4, <3>1, <3>2
    <2>6. active = MaxConcurrent
      BY <1>5
    <2> QED
      BY <2>1, <2>2, <2>3, <2>5, <2>6, LimiterAssumption
  <1> QED
    BY <1>4, <1>5

LEMMA LeaveLineKeeps ==
  ASSUME LimiterInv, NEW left, LeaveLine(left)
  PROVE  LimiterInv'
  <1>1. Holders' = Holders /\ Waiting' \subseteq Waiting
    BY DEF LeaveLine, Holders, Waiting, LimiterInv, LimiterTypeOK
  <1> QED
    BY <1>1 DEF LeaveLine, LimiterInv, LimiterTypeOK, SlotsAreKept

\* The step of a limiter, whoever leaves the line.
LimiterStep ==
    \/ \E a \in Agents : Acquire(a) \/ Resume(a) \/ Release(a)
    \/ \E left : LeaveLine(left)

LEMMA LimiterKeeps == LimiterInv /\ (LimiterStep \/ UNCHANGED limiterVars) => LimiterInv'
  <1> SUFFICES ASSUME LimiterInv, LimiterStep \/ UNCHANGED limiterVars PROVE LimiterInv'
    OBVIOUS
  <1>1. CASE UNCHANGED limiterVars
    BY <1>1 DEF LimiterInv, LimiterTypeOK, SlotsAreKept, Holders, Waiting, limiterVars
  <1>2. CASE LimiterStep
    BY <1>2, AcquireKeeps, ResumeKeeps, ReleaseKeeps, LeaveLineKeeps DEF LimiterStep
  <1> QED
    BY <1>1, <1>2

\* The limiter by itself: whatever calls arrive, end or are aborted, every slot that is
\* counted has one call, there are not too many, and nobody waits beside a free slot
\* (acquire() and release() of concurrency-limiter.ts).
THEOREM LimiterKeepsSlots == LimiterSpec => []SlotsAreKept
  <1>1. LimiterInv /\ [LimiterNext]_limiterVars => LimiterInv'
    BY LimiterKeeps DEF LimiterNext, LimiterStep
  <1>2. LimiterInv => SlotsAreKept
    BY DEF LimiterInv
  <1> QED
    BY LimiterStarts, <1>1, <1>2, PTL DEF LimiterSpec

\* Every step of a run is a step of the limiter or leaves it alone.
LEMMA RunStepsLimiter == [Next]_vars => LimiterStep \/ UNCHANGED limiterVars
  <1> SUFFICES ASSUME [Next]_vars PROVE LimiterStep \/ UNCHANGED limiterVars
    OBVIOUS
  <1>1. CASE UNCHANGED vars
    BY <1>1 DEF vars
  <1>2. CASE Stop
    BY <1>2 DEF Stop, LimiterStep
  <1>3. CASE SaveMode \/ LookAtMode \/ FreeRequests \/ \E mode \in Modes : UserSwitches(mode)
    BY <1>3 DEF SaveMode, LookAtMode, FreeRequests, UserSwitches
  <1>4. ASSUME NEW a \in Agents,
               \/ CallModel(a) \/ GetSlot(a) \/ EndModel(a)
               \/ ReviewByModel(a) \/ EndReview(a) \/ ReviewTimeout(a)
        PROVE  LimiterStep
    BY <1>4 DEF CallModel, GetSlot, EndModel, ReviewByModel, EndReview, ReviewTimeout, LimiterStep
  <1>5. ASSUME NEW a \in Agents,
               \/ GiveUp(a) \/ BeginCall(a) \/ Look(a) \/ Decide(a) \/ ReviewFast(a)
               \/ LookOnceMore(a) \/ AskUser(a) \/ BeginQuestion(a) \/ PutQuestion(a)
               \/ WaitForAnswer(a) \/ LookAtQuestion(a) \/ AnsweredBefore(a)
               \/ NotAnsweredYet(a) \/ TakeAnswer(a) \/ NobodyThere(a) \/ NextRound(a)
        PROVE  UNCHANGED limiterVars
    BY <1>5 DEF GiveUp, BeginCall, Look, Decide, ReviewFast, LookOnceMore, AskUser, OnlyGoes,
         BeginQuestion, PutQuestion, WaitForAnswer, LookAtQuestion, AnsweredBefore,
         NotAnsweredYet, TakeAnswer, NobodyThere, NextRound
  <1>6. ASSUME NEW a \in Agents,
               \/ AnswerStep(a) \/ SaveRule(a) \/ Resolve(a)
               \/ \E decision \in {"allow", "allow_always", "deny"} : UserDecides(a, decision)
               \/ UserLeaves(a) \/ UserAnswers(a) \/ RuleIsNotSaved(a)
        PROVE  UNCHANGED limiterVars
    BY <1>6 DEF AnswerStep, SaveRule, Resolve, UserDecides, UserLeaves, UserAnswers, RuleIsNotSaved
  <1> QED
    BY <1>1, <1>2, <1>3, <1>4, <1>5, <1>6 DEF Next, Progress, User

\* In every run, with any number of agents and slots, whatever is answered, timed out or
\* stopped, no slot of the provider is lost or given away twice.
THEOREM RunKeepsSlots == Spec => []SlotsAreKept
  <1>1. Init => LimiterInv
    BY LimiterStarts DEF Init
  <1>2. LimiterInv /\ [Next]_vars => LimiterInv'
    BY LimiterKeeps, RunStepsLimiter
  <1>3. LimiterInv => SlotsAreKept
    BY DEF LimiterInv
  <1> QED
    BY <1>1, <1>2, <1>3, PTL DEF Spec

(***************************************************************************)
(* Requests and questions.  What a waiter waits for is handed from list    *)
(* to list; the parts of TurnInv say where it is at each step of its       *)
(* agent.                                                                  *)
(***************************************************************************)
\* The steps of a call of a tool for which a permission may be asked.
Calling == {"look", "decide", "review", "again", "notify", "asked"}

\* A call of the model that has not begun yet is not one too many.
RoundsLeft ==
    /\ \A a \in Agents : step[a] = "model" /\ call[a] = "idle" /\ ~stopped => rounds[a] < MaxRounds
    /\ \A a \in Agents : call[a] = "queued" => ~stopped

\* A request is on the list or is being answered, never both, and only while its agent waits.
Requested ==
    \A a \in Agents :
        /\ a \in asked => step[a] = "asked" /\ ~AnswerUnderWay(a) /\ ~stopped
        /\ AnswerUnderWay(a) => step[a] = "asked"
        /\ step[a] = "asked" => a \in asked \/ AnswerUnderWay(a)

\* Where the question of each agent stands.
Questioned ==
    \A a \in Agents :
        /\ a \in waiters <=> step[a] = "waiting"
        /\ step[a] = "waiting" => ~stopped
        /\ recheck[a] # "none" => step[a] = "waiting"
        /\ step[a] \in {"await", "waiting"} <=> question[a] # "none"
        /\ a \in delivering => question[a] = "answered"
        /\ step[a] = "waiting" /\ question[a] = "answered" =>
              a \in delivering \/ recheck[a] \in {"reads", "answered"}

\* A change that exempts a call is among its grounds, however old the settings are that
\* it will be judged by.
Exempted ==
    \A a \in Agents :
        step[a] \in Calling =>
            /\ Exempt(saved, kind[a]) => "exempt" \in grounds[a]
            /\ switch.pc = "reconcile" /\ Exempt(switch.saw, kind[a]) => "exempt" \in grounds[a]
            /\ step[a] = "decide" /\ Exempt(seen[a], kind[a]) => "exempt" \in grounds[a]
            /\ step[a] \in {"review", "again"} => kind[a] # "outside"

\* What speaks against a call keeps it from running.
Refused ==
    \A a \in Agents :
        /\ "denied" \in grounds[a] =>
              step[a] = "refused" \/ (AnswerUnderWay(a) /\ ~answer[a].allows)
        /\ "stopped" \in grounds[a] => stopped /\ step[a] \in {"asked", "refused"}
        /\ AnswerUnderWay(a) /\ answer[a].allows => "allowed" \in grounds[a]

\* NobodyIsStranded and NothingRunsUnasked do not survive a step by themselves; together
\* with these parts they do.
TurnInv ==
    /\ LimiterInv /\ TurnTypeOK /\ RoundsLeft /\ Requested /\ Questioned
    /\ Exempted /\ Refused /\ NothingRunsUnasked

\* The variables of Turn itself.
LoopTypeOK ==
    /\ step \in [Agents -> Steps]
    /\ seen \in [Agents -> Settings]
    /\ stopped \in BOOLEAN
    /\ rounds \in [Agents -> 0..MaxRounds]
    /\ grounds \in [Agents -> SUBSET {"exempt", "reviewed", "allowed", "denied", "stopped"}]
    /\ counts \in [switches : 0..MaxSwitches, troubles : 0..MaxTroubles]

\* The types of the answers under way and of a change of the mode.
Answers == [pc : {"none", "read", "write", "register", "sending", "lost"},
            allows : BOOLEAN, open : BOOLEAN, saw : Settings]
Switches == [pc : {"none", "write", "look", "reconcile"}, mode : Modes, saw : Settings]

\* The values they rest at have these types.
LEMMA PlainValues ==
  /\ Asking \in Settings /\ NoAnswer \in Answers /\ NoSwitch \in Switches
  <1>1. Asking \in Settings
    BY ApprovalsAssumption DEF Asking, Settings
  <1> QED
    BY <1>1, ApprovalsAssumption DEF NoAnswer, Answers, NoSwitch, Switches

\* The steps of the coordinator of permissions and of its routes.
ApprovalsStep ==
    \/ \E a \in Agents :
          \/ Request(a) \/ ReadSettings(a) \/ WriteRule(a) \/ CloseEarly(a) \/ Listen(a)
          \/ Complete(a) \/ WriteRuleFails(a)
          \/ \E decision \in {"allow", "allow_always", "deny"} : Respond(a, decision)
    \/ \E mode \in Modes : BeginSwitch(mode)
    \/ WriteMode \/ LookAgain \/ Reconcile

\* They keep the types.
LEMMA ApprovalsTypes == ApprovalsTypeOK /\ ApprovalsStep => ApprovalsTypeOK'
  <1> SUFFICES ASSUME ApprovalsTypeOK, ApprovalsStep PROVE ApprovalsTypeOK'
    OBVIOUS
  <1>t. /\ saved \in Settings /\ kind \in [Agents -> Tools] /\ asked \subseteq Agents
        /\ answer \in [Agents -> Answers] /\ switch \in Switches
    BY DEF ApprovalsTypeOK, Answers, Switches
  <1>p. Asking \in Settings /\ NoAnswer \in Answers /\ NoSwitch \in Switches
    BY PlainValues
  <1>a. ASSUME NEW a \in Agents,
               \/ ReadSettings(a) \/ CloseEarly(a) \/ Listen(a) \/ Complete(a) \/ WriteRuleFails(a)
        PROVE  ApprovalsTypeOK'
    <2>1. answer[a] \in Answers
      BY <1>t
    <2>2. /\ [answer[a] EXCEPT !.pc = "write", !.saw = saved] \in Answers
          /\ [answer[a] EXCEPT !.open = FALSE] \in Answers
          /\ \A pc \in {"sending", "lost"} : [answer[a] EXCEPT !.pc = pc] \in Answers
      BY <1>t, <2>1 DEF Answers
    <2>3. answer' \in [Agents -> Answers] /\ UNCHANGED <<saved, kind, asked, switch>>
      BY <1>a, <1>t, <1>p, <2>1, <2>2
      DEF ReadSettings, CloseEarly, Listen, Complete, WriteRuleFails
    <2> QED
      BY <1>t, <2>3 DEF ApprovalsTypeOK, Answers, Switches
  <1>b. ASSUME NEW a \in Agents, WriteRule(a)
        PROVE  ApprovalsTypeOK'
    <2>1. answer[a] \in Answers /\ answer[a].saw \in Settings
      BY <1>t DEF Answers
    <2>2. saved' \in Settings
      BY <1>b, <1>t, <2>1 DEF WriteRule, Settings
    <2>3. [answer[a] EXCEPT !.pc = "register", !.saw = Asking] \in Answers
      BY <1>p, <2>1 DEF Answers
    <2>4. answer' \in [Agents -> Answers] /\ UNCHANGED <<kind, asked, switch>>
      BY <1>b, <1>t, <2>3 DEF WriteRule
    <2> QED
      BY <1>t, <2>2, <2>4 DEF ApprovalsTypeOK, Answers, Switches
  <1>c. ASSUME NEW a \in Agents, Request(a)
        PROVE  ApprovalsTypeOK'
    BY <1>c, <1>t DEF Request, ApprovalsTypeOK, Answers, Switches
  <1>d. ASSUME NEW a \in Agents, NEW decision, Respond(a, decision)
        PROVE  ApprovalsTypeOK'
    <2>1. PICK open \in BOOLEAN :
             answer' = [answer EXCEPT ![a] = [NoAnswer EXCEPT
                          !.pc = IF decision = "allow_always" THEN "read" ELSE "register",
                          !.allows = decision # "deny", !.open = open]]
      BY <1>d DEF Respond
    <2>2. [NoAnswer EXCEPT !.pc = IF decision = "allow_always" THEN "read" ELSE "register",
                           !.allows = decision # "deny", !.open = open] \in Answers
      BY <1>p DEF Answers
    <2>3. answer' \in [Agents -> Answers] /\ asked' \subseteq Agents
          /\ UNCHANGED <<saved, kind, switch>>
      BY <1>d, <1>t, <2>1, <2>2 DEF Respond
    <2> QED
      BY <1>t, <2>3 DEF ApprovalsTypeOK, Answers, Switches
  <1>e. CASE WriteMode \/ LookAgain \/ Reconcile \/ \E mode \in Modes : BeginSwitch(mode)
    <2>1. switch.mode \in Modes /\ switch.saw \in Settings
      BY <1>t DEF Switches
    <2>2. saved' \in Settings /\ asked' \subseteq Agents /\ UNCHANGED <<kind, answer>>
      BY <1>e, <1>t, <2>1 DEF WriteMode, LookAgain, Reconcile, BeginSwitch, Settings
    <2>3. switch' \in Switches
      <3>1. /\ [NoSwitch EXCEPT !.pc = "look"] \in Switches
            /\ [NoSwitch EXCEPT !.pc = "reconcile", !.saw = saved] \in Switches
            /\ \A mode \in Modes : [pc |-> "write", mode |-> mode, saw |-> saved] \in Switches
        BY <1>t, <1>p DEF Switches
      <3> QED
        BY <1>e, <1>p, <3>1 DEF WriteMode, LookAgain, Reconcile, BeginSwitch
    <2> QED
      BY <1>t, <2>2, <2>3 DEF ApprovalsTypeOK, Answers, Switches
  <1> QED
    BY <1>a, <1>b, <1>c, <1>d, <1>e DEF ApprovalsStep

\* Every other step of a run leaves the permissions alone, but for the beginning of a call
\* and for Stop.
LEMMA RunStepsApprovals ==
  Next => \/ ApprovalsStep \/ UNCHANGED approvalVars
          \/ (\E a \in Agents : BeginCall(a)) \/ Stop
  <1>1. ASSUME NEW a \in Agents,
               \/ CallModel(a) \/ GiveUp(a) \/ GetSlot(a) \/ EndModel(a) \/ Look(a) \/ Decide(a)
               \/ ReviewFast(a) \/ ReviewByModel(a) \/ EndReview(a) \/ ReviewTimeout(a)
               \/ LookOnceMore(a) \/ NextRound(a)
        PROVE  UNCHANGED approvalVars
    BY <1>1 DEF CallModel, GiveUp, GetSlot, EndModel, Look, Decide, ReviewFast, ReviewByModel,
       EndReview, ReviewTimeout, Verdict, LookOnceMore, NextRound, OnlyGoes
  <1>2. ASSUME NEW a \in Agents,
               \/ BeginQuestion(a) \/ PutQuestion(a) \/ WaitForAnswer(a) \/ LookAtQuestion(a)
               \/ AnsweredBefore(a) \/ NotAnsweredYet(a) \/ TakeAnswer(a) \/ NobodyThere(a)
               \/ UserAnswers(a)
        PROVE  UNCHANGED approvalVars
    BY <1>2 DEF BeginQuestion, PutQuestion, WaitForAnswer, LookAtQuestion, AnsweredBefore,
       NotAnsweredYet, TakeAnswer, NobodyThere, UserAnswers, OnlyGoes
  <1>3. ASSUME NEW a \in Agents,
               \/ AskUser(a) \/ AnswerStep(a) \/ SaveRule(a) \/ Resolve(a) \/ UserLeaves(a)
               \/ RuleIsNotSaved(a)
               \/ \E decision \in {"allow", "allow_always", "deny"} : UserDecides(a, decision)
        PROVE  ApprovalsStep \/ UNCHANGED approvalVars
    BY <1>3 DEF AskUser, AnswerStep, SaveRule, Resolve, UserLeaves, RuleIsNotSaved, UserDecides,
       OnlyGoes, ApprovalsStep
  <1>4. CASE SaveMode \/ LookAtMode \/ FreeRequests \/ \E mode \in Modes : UserSwitches(mode)
    BY <1>4 DEF SaveMode, LookAtMode, FreeRequests, UserSwitches, ApprovalsStep
  <1> QED
    BY <1>1, <1>2, <1>3, <1>4 DEF Next, Progress, User

\* So every step keeps these types ...
LEMMA ApprovalsTypeStep == TurnTypeOK /\ Next => ApprovalsTypeOK'
  <1> SUFFICES ASSUME ApprovalsTypeOK, Next PROVE ApprovalsTypeOK'
    BY DEF TurnTypeOK
  <1>1. ASSUME NEW a \in Agents, BeginCall(a) PROVE ApprovalsTypeOK'
    <2>1. ToolsOf[a] \ {"question"} \subseteq Tools
      BY TurnAssumption
    <2> QED
      BY <1>1, <2>1 DEF BeginCall, ApprovalsTypeOK
  <1>2. CASE Stop
    BY <1>2 DEF Stop, ApprovalsTypeOK
  <1>3. CASE UNCHANGED approvalVars
    BY <1>3 DEF approvalVars, ApprovalsTypeOK
  <1> QED
    BY <1>1, <1>2, <1>3, ApprovalsTypes, RunStepsApprovals

\* What may speak for or against a call.
AllGrounds == {"exempt", "reviewed", "allowed", "denied", "stopped"}

\* ... and those of the loop.
LEMMA LoopTypeStep == TurnTypeOK /\ RoundsLeft /\ Next => LoopTypeOK'
  <1> SUFFICES ASSUME TurnTypeOK, RoundsLeft, Next PROVE LoopTypeOK'
    OBVIOUS
  <1>t. /\ step \in [Agents -> Steps] /\ seen \in [Agents -> Settings] /\ stopped \in BOOLEAN
        /\ rounds \in [Agents -> 0..MaxRounds] /\ grounds \in [Agents -> SUBSET AllGrounds]
        /\ counts \in [switches : 0..MaxSwitches, troubles : 0..MaxTroubles]
        /\ saved \in Settings /\ call \in [Agents -> {"idle", "queued", "granted", "streaming"}]
    BY DEF TurnTypeOK, ApprovalsTypeOK, LimiterTypeOK, AllGrounds
  <1>p. Asking \in Settings /\ {MaxRounds, MaxSwitches, MaxTroubles} \subseteq Nat
    BY PlainValues, TurnAssumption
  <1>1. /\ step' \in [Agents -> Steps] /\ stopped' \in BOOLEAN
    <2>1. ASSUME NEW a \in Agents,
                 \/ CallModel(a) \/ GiveUp(a) \/ GetSlot(a) \/ EndModel(a) \/ BeginCall(a)
                 \/ Look(a) \/ Decide(a) \/ ReviewFast(a) \/ ReviewByModel(a) \/ EndReview(a)
                 \/ ReviewTimeout(a) \/ LookOnceMore(a) \/ AskUser(a) \/ NextRound(a)
          PROVE  step' \in [Agents -> Steps] /\ stopped' \in BOOLEAN
      BY <2>1, <1>t DEF CallModel, GiveUp, GetSlot, EndModel, BeginCall, Look, Decide, ReviewFast,
         ReviewByModel, EndReview, ReviewTimeout, Verdict, LookOnceMore, AskUser, NextRound,
         OnlyGoes, Goes, Kept, turnVars, Steps
    <2>2. ASSUME NEW a \in Agents,
                 \/ BeginQuestion(a) \/ PutQuestion(a) \/ WaitForAnswer(a) \/ LookAtQuestion(a)
                 \/ AnsweredBefore(a) \/ NotAnsweredYet(a) \/ TakeAnswer(a) \/ NobodyThere(a)
                 \/ UserAnswers(a)
          PROVE  step' \in [Agents -> Steps] /\ stopped' \in BOOLEAN
      BY <2>2, <1>t DEF BeginQuestion, PutQuestion, WaitForAnswer, LookAtQuestion, AnsweredBefore,
         NotAnsweredYet, TakeAnswer, NobodyThere, UserAnswers, OnlyGoes, Goes, Kept, turnVars,
         Steps
    <2>3. ASSUME NEW a \in Agents,
                 \/ AnswerStep(a) \/ SaveRule(a) \/ Resolve(a) \/ UserLeaves(a)
                 \/ RuleIsNotSaved(a)
                 \/ \E decision \in {"allow", "allow_always", "deny"} : UserDecides(a, decision)
          PROVE  step' \in [Agents -> Steps] /\ stopped' \in BOOLEAN
      BY <2>3, <1>t DEF AnswerStep, SaveRule, Resolve, UserLeaves, RuleIsNotSaved, UserDecides,
         Goes, Kept, turnVars, Steps
    <2>4. CASE SaveMode \/ LookAtMode \/ FreeRequests \/ \E mode \in Modes : UserSwitches(mode)
      BY <2>4, <1>t DEF SaveMode, LookAtMode, FreeRequests, UserSwitches, Kept, turnVars, Steps
    <2>5. CASE Stop
      BY <2>5, <1>t DEF Stop, Steps
    <2> QED
      BY <2>1, <2>2, <2>3, <2>4, <2>5 DEF Next, Progress, User
  <1>2. seen' \in [Agents -> Settings]
    <2>1. UNCHANGED seen \/ \E a \in Agents, s \in {saved, Asking} : seen' = [seen EXCEPT ![a] = s]
      BY DEF Next, Progress, User,
         CallModel, GiveUp, GetSlot, EndModel, BeginCall, Look, Decide, ReviewFast,
         ReviewByModel, EndReview, ReviewTimeout, Verdict, LookOnceMore, AskUser, NextRound,
         BeginQuestion, PutQuestion, WaitForAnswer, LookAtQuestion, AnsweredBefore,
         NotAnsweredYet, TakeAnswer, NobodyThere, UserAnswers,
         AnswerStep, SaveRule, Resolve, UserLeaves, RuleIsNotSaved, UserDecides,
         SaveMode, LookAtMode, FreeRequests, UserSwitches, Stop, OnlyGoes, Kept, turnVars
    <2> QED
      BY <1>t, <1>p, <2>1
  <1>3. rounds' \in [Agents -> 0..MaxRounds]
    <2>1. \/ UNCHANGED rounds
          \/ \E a \in Agents : CallModel(a)
      BY DEF Next, Progress, User,
         GiveUp, GetSlot, EndModel, BeginCall, Look, Decide, ReviewFast,
         ReviewByModel, EndReview, ReviewTimeout, Verdict, LookOnceMore, AskUser, NextRound,
         BeginQuestion, PutQuestion, WaitForAnswer, LookAtQuestion, AnsweredBefore,
         NotAnsweredYet, TakeAnswer, NobodyThere, UserAnswers,
         AnswerStep, SaveRule, Resolve, UserLeaves, RuleIsNotSaved, UserDecides,
         SaveMode, LookAtMode, FreeRequests, UserSwitches, Stop, OnlyGoes, Kept, turnVars
    <2>2. ASSUME NEW a \in Agents, CallModel(a) PROVE rounds' \in [Agents -> 0..MaxRounds]
      <3>1. rounds[a] < MaxRounds /\ rounds[a] \in 0..MaxRounds
        BY <1>t, <2>2 DEF CallModel, Acquire, RoundsLeft
      <3> QED
        BY <1>t, <1>p, <2>2, <3>1 DEF CallModel
    <2> QED
      BY <1>t, <2>1, <2>2
  <1>4. counts' \in [switches : 0..MaxSwitches, troubles : 0..MaxTroubles]
    <2>1. \/ UNCHANGED counts
          \/ counts.switches < MaxSwitches /\ counts' = [counts EXCEPT !.switches = @ + 1]
          \/ /\ counts'.troubles <= MaxTroubles
             /\ \/ counts' = [counts EXCEPT !.troubles = @ + 1]
                \/ counts' = [counts EXCEPT !.troubles = @]
          \/ counts.troubles < MaxTroubles /\ counts' = [counts EXCEPT !.troubles = @ + 1]
      BY DEF Next, Progress, User,
         CallModel, GiveUp, GetSlot, EndModel, BeginCall, Look, Decide, ReviewFast,
         ReviewByModel, EndReview, ReviewTimeout, Verdict, LookOnceMore, AskUser, NextRound,
         BeginQuestion, PutQuestion, WaitForAnswer, LookAtQuestion, AnsweredBefore,
         NotAnsweredYet, TakeAnswer, NobodyThere, UserAnswers,
         AnswerStep, SaveRule, Resolve, UserLeaves, RuleIsNotSaved, UserDecides, Trouble,
         SaveMode, LookAtMode, FreeRequests, UserSwitches, Stop, OnlyGoes, Kept, turnVars
    <2> QED
      BY <1>t, <1>p, <2>1
  <1>5. grounds' \in [Agents -> SUBSET AllGrounds]
    <2>1. \/ UNCHANGED grounds
          \/ grounds' = WithExemptions
          \/ grounds' = [a \in Agents |-> IF step[a] = "asked" THEN grounds[a] \cup {"stopped"}
                                          ELSE grounds[a]]
          \/ \E a \in Agents : \E g \in SUBSET AllGrounds :
                grounds' = [grounds EXCEPT ![a] = g] \/ grounds' = [grounds EXCEPT ![a] = @ \cup g]
      <3>1. ASSUME NEW a \in Agents, BeginCall(a)
            PROVE  \E g \in SUBSET AllGrounds : grounds' = [grounds EXCEPT ![a] = g]
        BY <3>1 DEF BeginCall, Exemptions, AllGrounds
      <3>2. ASSUME NEW a \in Agents, NEW low \in BOOLEAN, Verdict(a, low)
            PROVE  \E g \in SUBSET AllGrounds : grounds' = [grounds EXCEPT ![a] = @ \cup g]
        BY <3>2 DEF Verdict, AllGrounds
      <3>3. ASSUME NEW a \in Agents, NEW decision, UserDecides(a, decision)
            PROVE  \E g \in SUBSET AllGrounds : grounds' = [grounds EXCEPT ![a] = @ \cup g]
        BY <3>3 DEF UserDecides, AllGrounds
      <3>4. ASSUME NEW a \in Agents, NextRound(a)
            PROVE  \E g \in SUBSET AllGrounds : grounds' = [grounds EXCEPT ![a] = g]
        BY <3>4 DEF NextRound
      <3>5. ASSUME NEW a \in Agents, ReviewFast(a) \/ EndReview(a) \/ ReviewTimeout(a)
            PROVE  \E low \in BOOLEAN : Verdict(a, low)
        BY <3>5 DEF ReviewFast, EndReview, ReviewTimeout
      <3>6. \/ UNCHANGED grounds
            \/ grounds' = WithExemptions
            \/ grounds' = [a \in Agents |-> IF step[a] = "asked" THEN grounds[a] \cup {"stopped"}
                                            ELSE grounds[a]]
            \/ \E a \in Agents :
                  \/ BeginCall(a) \/ NextRound(a)
                  \/ ReviewFast(a) \/ EndReview(a) \/ ReviewTimeout(a)
                  \/ \E decision \in {"allow", "allow_always", "deny"} : UserDecides(a, decision)
        BY DEF Next, Progress, User,
         CallModel, GiveUp, GetSlot, EndModel, Look, Decide,
         ReviewByModel, LookOnceMore, AskUser,
         BeginQuestion, PutQuestion, WaitForAnswer, LookAtQuestion, AnsweredBefore,
         NotAnsweredYet, TakeAnswer, NobodyThere, UserAnswers,
         AnswerStep, SaveRule, Resolve, UserLeaves, RuleIsNotSaved,
         SaveMode, LookAtMode, FreeRequests, UserSwitches, Stop, OnlyGoes, Kept, turnVars
      <3>7. ASSUME NEW a \in Agents, BeginCall(a) \/ NextRound(a)
            PROVE  \E g \in SUBSET AllGrounds : grounds' = [grounds EXCEPT ![a] = g]
        BY <3>1, <3>4, <3>7
      <3>8. ASSUME NEW a \in Agents,
                   \/ ReviewFast(a) \/ EndReview(a) \/ ReviewTimeout(a)
                   \/ \E decision \in {"allow", "allow_always", "deny"} : UserDecides(a, decision)
            PROVE  \E g \in SUBSET AllGrounds : grounds' = [grounds EXCEPT ![a] = @ \cup g]
        BY <3>2, <3>3, <3>5, <3>8
      <3> QED
        BY <3>6, <3>7, <3>8
    <2>2. CASE grounds' = WithExemptions
      BY <1>t, <2>2 DEF WithExemptions, Exemptions, AllGrounds
    <2>3. CASE grounds' = [a \in Agents |-> IF step[a] = "asked" THEN grounds[a] \cup {"stopped"}
                                            ELSE grounds[a]]
      BY <1>t, <2>3 DEF AllGrounds
    <2> QED
      BY <1>t, <2>1, <2>2, <2>3
  <1> QED
    BY <1>1, <1>2, <1>3, <1>4, <1>5 DEF LoopTypeOK, AllGrounds

\* The types by themselves.
LEMMA TurnTypes ==
    ASSUME TurnTypeOK
    PROVE  /\ step \in [Agents -> Steps] /\ question \in [Agents -> {"none", "pending", "answered"}]
           /\ recheck \in [Agents -> {"none", "reads", "pending", "answered"}]
           /\ waiters \subseteq Agents /\ delivering \subseteq Agents /\ asked \subseteq Agents
           /\ answer \in [Agents -> [pc : {"none", "read", "write", "register", "sending", "lost"},
                                allows : BOOLEAN, open : BOOLEAN, saw : Settings]]
           /\ call \in [Agents -> {"idle", "queued", "granted", "streaming"}]
           /\ rounds \in [Agents -> 0..MaxRounds] /\ MaxRounds \in Nat
           /\ kind \in [Agents -> Tools] /\ seen \in [Agents -> Settings]
           /\ saved \in Settings
           /\ switch \in [pc : {"none", "write", "look", "reconcile"}, mode : Modes, saw : Settings]
           /\ grounds \in [Agents -> SUBSET {"exempt", "reviewed", "allowed", "denied", "stopped"}]
BY TurnAssumption DEF TurnTypeOK, InteractionsTypeOK, ApprovalsTypeOK, LimiterTypeOK

\* A request leaves the list when it is answered, freed or stopped, and nowhere else.
LEMMA RequestedStep == TurnTypeOK /\ Requested /\ Questioned /\ Next => Requested'
<1> SUFFICES ASSUME TurnTypeOK, Requested, Questioned, Next PROVE Requested'
  OBVIOUS
<1>1. ASSUME NEW a \in Agents, CallModel(a) \/ GiveUp(a) \/ GetSlot(a)
      PROVE  Requested'
  BY <1>1, TurnTypes DEF CallModel, GiveUp, GetSlot, Resume, OnlyGoes, Goes, turnVars,
      interactionVars, approvalVars, limiterVars, Requested, Questioned, AnswerUnderWay
<1>2. ASSUME NEW a \in Agents, EndModel(a)
      PROVE  Requested'
  BY <1>2, TurnTypes DEF EndModel, Release, Goes, Kept, interactionVars, approvalVars, Requested,
      Questioned, AnswerUnderWay
<1>3. ASSUME NEW a \in Agents,
             \/ BeginCall(a) \/ Look(a) \/ ReviewByModel(a) \/ LookOnceMore(a)
             \/ AskUser(a)
      PROVE  Requested'
  BY <1>3, TurnTypes DEF BeginCall, Look, ReviewByModel, LookOnceMore, AskUser, Request, OnlyGoes,
      Goes, Kept, turnVars, interactionVars, approvalVars, limiterVars, Requested, Questioned,
      AnswerUnderWay
<1>4. ASSUME NEW a \in Agents, Decide(a)
      PROVE  Requested'
  BY <1>4, TurnTypes DEF Decide, interactionVars, approvalVars, limiterVars, Requested, Questioned,
      AnswerUnderWay
<1>5. ASSUME NEW a \in Agents, ReviewFast(a)
      PROVE  Requested'
  BY <1>5, TurnTypes DEF ReviewFast, Verdict, Goes, interactionVars, approvalVars, limiterVars,
      Requested, Questioned, AnswerUnderWay
<1>6. ASSUME NEW a \in Agents, EndReview(a)
      PROVE  Requested'
  BY <1>6, TurnTypes DEF EndReview, Verdict, Goes, interactionVars, approvalVars, Requested,
      Questioned, AnswerUnderWay
<1>7. ASSUME NEW a \in Agents, ReviewTimeout(a)
      PROVE  Requested'
  BY <1>7, TurnTypes DEF ReviewTimeout, Verdict, Goes, interactionVars, approvalVars, Requested,
      Questioned, AnswerUnderWay
<1>8. ASSUME NEW a \in Agents,
             \/ BeginQuestion(a) \/ PutQuestion(a) \/ LookAtQuestion(a)
             \/ NotAnsweredYet(a) \/ NobodyThere(a) \/ UserAnswers(a)
      PROVE  Requested'
  BY <1>8, TurnTypes DEF BeginQuestion, PutQuestion, CreateQuestion, LookAtQuestion, ReadQuestion,
      NotAnsweredYet, FoundPending, NobodyThere, DeliverToNobody, UserAnswers, SaveAnswer,
      OnlyGoes, Goes, Kept, turnVars, interactionVars, approvalVars, limiterVars, Requested,
      Questioned, AnswerUnderWay
<1>9. ASSUME NEW a \in Agents, WaitForAnswer(a) \/ AnsweredBefore(a) \/ TakeAnswer(a)
      PROVE  Requested'
  BY <1>9, TurnTypes DEF WaitForAnswer, Await, Settled, AnsweredBefore, FoundAnswered, TakeAnswer,
      DeliverAnswer, Goes, Kept, approvalVars, limiterVars, Requested, Questioned,
      AnswerUnderWay
<1>10. ASSUME NEW a \in Agents, NextRound(a)
      PROVE  Requested'
  BY <1>10, TurnTypes DEF NextRound, Goes, interactionVars, approvalVars, limiterVars, Requested,
      Questioned, AnswerUnderWay
<1>11. ASSUME NEW a \in Agents, SaveRule(a)
      PROVE  Requested'
  BY <1>11, TurnTypes DEF SaveRule, WriteRule, interactionVars, limiterVars, Requested, Questioned,
      AnswerUnderWay
<1>12. ASSUME NEW a \in Agents, UserLeaves(a)
      PROVE  Requested'
  BY <1>12, TurnTypes DEF UserLeaves, CloseEarly, interactionVars, limiterVars, Requested,
      Questioned, AnswerUnderWay
<1>13. ASSUME NEW a \in Agents, RuleIsNotSaved(a)
      PROVE  Requested'
  BY <1>13, TurnTypes DEF RuleIsNotSaved, WriteRuleFails, NoAnswer, Goes, interactionVars,
      limiterVars, Requested, Questioned, AnswerUnderWay
<1>14. ASSUME NEW a \in Agents, AnswerStep(a)
      PROVE  Requested'
  <2>1. /\ step[a] = "asked" /\ UNCHANGED <<step, asked, stopped>>
        /\ \A b \in Agents : answer'[b].pc = "none" <=> answer[b].pc = "none"
    BY <1>14, TurnTypes DEF AnswerStep, ReadSettings, Listen, turnVars, Requested, AnswerUnderWay
  <2> QED
    BY <2>1 DEF Requested, AnswerUnderWay
<1>15. ASSUME NEW a \in Agents, Resolve(a)
      PROVE  Requested'
  BY <1>15, TurnTypes DEF Resolve, Complete, NoAnswer, Goes, Kept, interactionVars, limiterVars,
      Requested, Questioned, AnswerUnderWay
<1>16. ASSUME NEW a \in Agents, NEW decision \in {"allow", "allow_always", "deny"},
             UserDecides(a, decision)
      PROVE  Requested'
  BY <1>16, TurnTypes DEF UserDecides, Respond, NoAnswer, interactionVars, limiterVars, Requested,
      Questioned, AnswerUnderWay
<1>17. CASE SaveMode
  BY <1>17, TurnTypes DEF SaveMode, WriteMode, NoSwitch, interactionVars, limiterVars, Requested,
      Questioned, AnswerUnderWay
<1>18. CASE LookAtMode
  BY <1>18, TurnTypes DEF LookAtMode, LookAgain, turnVars, interactionVars, limiterVars, Requested,
      Questioned, AnswerUnderWay
<1>19. CASE FreeRequests
  BY <1>19, TurnTypes DEF FreeRequests, Reconcile, Freed, NoSwitch, Kept, interactionVars,
      limiterVars, Requested, Questioned, AnswerUnderWay
<1>20. CASE Stop
  <2>1. asked' = {} /\ UNCHANGED answer
    BY <1>20 DEF Stop
  <2>2. \A a \in Agents : step[a] = "asked" => (step'[a] = "asked" <=> a \notin asked)
    BY <1>20, TurnTypes DEF Stop, Requested, Questioned
  <2>3. \A a \in Agents : step[a] # "asked" => step'[a] # "asked"
    BY <1>20, TurnTypes DEF Stop
  <2> QED
    BY <2>1, <2>2, <2>3 DEF Requested, AnswerUnderWay
<1>21. ASSUME NEW mode \in Modes, UserSwitches(mode)
      PROVE  Requested'
  BY <1>21, TurnTypes DEF UserSwitches, BeginSwitch, interactionVars, limiterVars, Requested,
      Questioned, AnswerUnderWay
<1> QED
  BY <1>1, <1>2, <1>3, <1>4, <1>5, <1>6, <1>7, <1>8, <1>9, <1>10, <1>11, <1>12, <1>13, <1>14,
      <1>15, <1>16, <1>17, <1>18, <1>19, <1>20, <1>21
  DEF Next, Progress, User

\* A waiter is registered before the file is read, so no answer gets past it.
LEMMA QuestionedStep == TurnTypeOK /\ Requested /\ Questioned /\ Next => Questioned'
<1> SUFFICES ASSUME TurnTypeOK, Requested, Questioned, Next PROVE Questioned'
  OBVIOUS
<1>1. ASSUME NEW a \in Agents, CallModel(a) \/ GiveUp(a) \/ GetSlot(a)
      PROVE  Questioned'
  BY <1>1, TurnTypes DEF CallModel, GiveUp, GetSlot, Resume, OnlyGoes, Goes, turnVars,
      interactionVars, approvalVars, limiterVars, Questioned, Requested, AnswerUnderWay
<1>2. ASSUME NEW a \in Agents, EndModel(a)
      PROVE  Questioned'
  BY <1>2, TurnTypes DEF EndModel, Release, Goes, Kept, interactionVars, approvalVars, Questioned,
      Requested, AnswerUnderWay
<1>3. ASSUME NEW a \in Agents,
             \/ BeginCall(a) \/ Look(a) \/ ReviewByModel(a) \/ LookOnceMore(a)
             \/ AskUser(a)
      PROVE  Questioned'
  BY <1>3, TurnTypes DEF BeginCall, Look, ReviewByModel, LookOnceMore, AskUser, Request, OnlyGoes,
      Goes, Kept, turnVars, interactionVars, approvalVars, limiterVars, Questioned, Requested,
      AnswerUnderWay
<1>4. ASSUME NEW a \in Agents, Decide(a)
      PROVE  Questioned'
  BY <1>4, TurnTypes DEF Decide, interactionVars, approvalVars, limiterVars, Questioned, Requested,
      AnswerUnderWay
<1>5. ASSUME NEW a \in Agents, ReviewFast(a)
      PROVE  Questioned'
  BY <1>5, TurnTypes DEF ReviewFast, Verdict, Goes, interactionVars, approvalVars, limiterVars,
      Questioned, Requested, AnswerUnderWay
<1>6. ASSUME NEW a \in Agents, EndReview(a)
      PROVE  Questioned'
  BY <1>6, TurnTypes DEF EndReview, Verdict, Goes, interactionVars, approvalVars, Questioned,
      Requested, AnswerUnderWay
<1>7. ASSUME NEW a \in Agents, ReviewTimeout(a)
      PROVE  Questioned'
  BY <1>7, TurnTypes DEF ReviewTimeout, Verdict, Goes, interactionVars, approvalVars, Questioned,
      Requested, AnswerUnderWay
<1>8. ASSUME NEW a \in Agents,
             \/ BeginQuestion(a) \/ PutQuestion(a) \/ LookAtQuestion(a)
             \/ NotAnsweredYet(a) \/ NobodyThere(a) \/ UserAnswers(a)
      PROVE  Questioned'
  BY <1>8, TurnTypes DEF BeginQuestion, PutQuestion, CreateQuestion, LookAtQuestion, ReadQuestion,
      NotAnsweredYet, FoundPending, NobodyThere, DeliverToNobody, UserAnswers, SaveAnswer,
      OnlyGoes, Goes, Kept, turnVars, interactionVars, approvalVars, limiterVars, Questioned,
      Requested, AnswerUnderWay
<1>9. ASSUME NEW a \in Agents, WaitForAnswer(a) \/ AnsweredBefore(a) \/ TakeAnswer(a)
      PROVE  Questioned'
  BY <1>9, TurnTypes DEF WaitForAnswer, Await, Settled, AnsweredBefore, FoundAnswered, TakeAnswer,
      DeliverAnswer, Goes, Kept, approvalVars, limiterVars, Questioned, Requested,
      AnswerUnderWay
<1>10. ASSUME NEW a \in Agents, NextRound(a)
      PROVE  Questioned'
  BY <1>10, TurnTypes DEF NextRound, Goes, interactionVars, approvalVars, limiterVars, Questioned,
      Requested, AnswerUnderWay
<1>11. ASSUME NEW a \in Agents, SaveRule(a) \/ UserLeaves(a) \/ RuleIsNotSaved(a)
      PROVE  Questioned'
  BY <1>11, TurnTypes DEF SaveRule, WriteRule, UserLeaves, CloseEarly, RuleIsNotSaved,
      WriteRuleFails, NoAnswer, Goes, interactionVars, limiterVars, Questioned, Requested,
      AnswerUnderWay
<1>12. ASSUME NEW a \in Agents, AnswerStep(a)
      PROVE  Questioned'
  BY <1>12, TurnTypes DEF AnswerStep, ReadSettings, Listen, turnVars, interactionVars, limiterVars,
      Questioned, Requested, AnswerUnderWay
<1>13. ASSUME NEW a \in Agents, Resolve(a)
      PROVE  Questioned'
  BY <1>13, TurnTypes DEF Resolve, Complete, NoAnswer, Goes, Kept, interactionVars, limiterVars,
      Questioned, Requested, AnswerUnderWay
<1>14. ASSUME NEW a \in Agents, NEW decision \in {"allow", "allow_always", "deny"},
             UserDecides(a, decision)
      PROVE  Questioned'
  BY <1>14, TurnTypes DEF UserDecides, Respond, NoAnswer, interactionVars, limiterVars, Questioned,
      Requested, AnswerUnderWay
<1>15. CASE SaveMode
  BY <1>15, TurnTypes DEF SaveMode, WriteMode, NoSwitch, interactionVars, limiterVars, Questioned,
      Requested, AnswerUnderWay
<1>16. CASE LookAtMode
  BY <1>16, TurnTypes DEF LookAtMode, LookAgain, turnVars, interactionVars, limiterVars, Questioned,
      Requested, AnswerUnderWay
<1>17. CASE FreeRequests
  BY <1>17, TurnTypes DEF FreeRequests, Reconcile, Freed, NoSwitch, Kept, interactionVars,
      limiterVars, Questioned, Requested, AnswerUnderWay
<1>18. CASE Stop
  BY <1>18, TurnTypes DEF Stop, Settled, Questioned, Requested, AnswerUnderWay
<1>19. ASSUME NEW mode \in Modes, UserSwitches(mode)
      PROVE  Questioned'
  BY <1>19, TurnTypes DEF UserSwitches, BeginSwitch, interactionVars, limiterVars, Questioned,
      Requested, AnswerUnderWay
<1> QED
  BY <1>1, <1>2, <1>3, <1>4, <1>5, <1>6, <1>7, <1>8, <1>9, <1>10, <1>11, <1>12, <1>13, <1>14,
      <1>15, <1>16, <1>17, <1>18, <1>19
  DEF Next, Progress, User

\* A call begins only if a round is left; Stop empties the line.
LEMMA RoundsLeftStep == TurnTypeOK /\ RoundsLeft /\ Next => RoundsLeft'
<1> SUFFICES ASSUME TurnTypeOK, RoundsLeft, Next PROVE RoundsLeft'
  OBVIOUS
<1>1. ASSUME NEW a \in Agents, CallModel(a) \/ GiveUp(a) \/ GetSlot(a)
      PROVE  RoundsLeft'
  BY <1>1, TurnTypes DEF CallModel, GiveUp, GetSlot, Resume, OnlyGoes, Goes, turnVars,
      interactionVars, approvalVars, limiterVars, RoundsLeft, Acquire, Waiting
<1>2. ASSUME NEW a \in Agents, EndModel(a)
      PROVE  RoundsLeft'
  <2>1. /\ step' = [step EXCEPT ![a] = step'[a]] /\ step'[a] # "model"
        /\ UNCHANGED <<stopped, rounds>>
    BY <1>2, TurnTypes DEF EndModel, Goes, Kept
  <2>2. \A b \in Agents \ {a} : call'[b] \in {"idle", "queued"} => call'[b] = call[b]
    BY <1>2, TurnTypes DEF EndModel, Release
  <2>3. call'[a] # "queued"
    BY <1>2, TurnTypes DEF EndModel, Release, Waiting
  <2> QED
    BY TurnTypes, <2>1, <2>2, <2>3 DEF RoundsLeft
<1>3. ASSUME NEW a \in Agents,
             \/ BeginCall(a) \/ Look(a) \/ ReviewByModel(a) \/ LookOnceMore(a)
             \/ AskUser(a)
      PROVE  RoundsLeft'
  BY <1>3, TurnTypes DEF BeginCall, Look, ReviewByModel, LookOnceMore, AskUser, Request, OnlyGoes,
      Goes, Kept, turnVars, interactionVars, approvalVars, limiterVars, RoundsLeft, Acquire,
      Waiting
<1>4. ASSUME NEW a \in Agents, Decide(a)
      PROVE  RoundsLeft'
  BY <1>4, TurnTypes DEF Decide, interactionVars, approvalVars, limiterVars, RoundsLeft
<1>5. ASSUME NEW a \in Agents, ReviewFast(a)
      PROVE  RoundsLeft'
  BY <1>5, TurnTypes DEF ReviewFast, Verdict, Goes, interactionVars, approvalVars, limiterVars,
      RoundsLeft
<1>6. ASSUME NEW a \in Agents, EndReview(a)
      PROVE  RoundsLeft'
  BY <1>6, TurnTypes DEF EndReview, Verdict, Goes, interactionVars, approvalVars, RoundsLeft,
      Release, Waiting
<1>7. ASSUME NEW a \in Agents, ReviewTimeout(a)
      PROVE  RoundsLeft'
  BY <1>7, TurnTypes DEF ReviewTimeout, Verdict, Goes, interactionVars, approvalVars, RoundsLeft,
      LeaveLine
<1>8. ASSUME NEW a \in Agents,
             \/ BeginQuestion(a) \/ PutQuestion(a) \/ LookAtQuestion(a)
             \/ NotAnsweredYet(a) \/ NobodyThere(a) \/ UserAnswers(a)
      PROVE  RoundsLeft'
  BY <1>8, TurnTypes DEF BeginQuestion, PutQuestion, CreateQuestion, LookAtQuestion, ReadQuestion,
      NotAnsweredYet, FoundPending, NobodyThere, DeliverToNobody, UserAnswers, SaveAnswer,
      OnlyGoes, Goes, Kept, turnVars, interactionVars, approvalVars, limiterVars, RoundsLeft
<1>9. ASSUME NEW a \in Agents, WaitForAnswer(a) \/ AnsweredBefore(a) \/ TakeAnswer(a)
      PROVE  RoundsLeft'
  BY <1>9, TurnTypes DEF WaitForAnswer, Await, Settled, AnsweredBefore, FoundAnswered, TakeAnswer,
      DeliverAnswer, Goes, Kept, approvalVars, limiterVars, RoundsLeft
<1>10. ASSUME NEW a \in Agents, NextRound(a)
      PROVE  RoundsLeft'
  <2>1. /\ \A b \in Agents \ {a} : step'[b] = step[b]
        /\ step'[a] = "model" => rounds[a] # MaxRounds
        /\ UNCHANGED <<call, stopped, rounds>>
    BY <1>10, TurnTypes DEF NextRound, Goes, limiterVars
  <2>2. rounds[a] # MaxRounds => rounds[a] < MaxRounds
    <3>1. rounds[a] \in 0..MaxRounds /\ MaxRounds \in Nat
      BY TurnTypes
    <3> QED
      BY <3>1
  <2> QED
    BY <2>1, <2>2 DEF RoundsLeft
<1>11. ASSUME NEW a \in Agents, SaveRule(a) \/ UserLeaves(a) \/ RuleIsNotSaved(a)
      PROVE  RoundsLeft'
  BY <1>11, TurnTypes DEF SaveRule, WriteRule, UserLeaves, CloseEarly, RuleIsNotSaved,
      WriteRuleFails, NoAnswer, Goes, interactionVars, limiterVars, RoundsLeft
<1>12. ASSUME NEW a \in Agents, AnswerStep(a)
      PROVE  RoundsLeft'
  BY <1>12, TurnTypes DEF AnswerStep, ReadSettings, Listen, turnVars, interactionVars, limiterVars,
      RoundsLeft
<1>13. ASSUME NEW a \in Agents, Resolve(a)
      PROVE  RoundsLeft'
  BY <1>13, TurnTypes DEF Resolve, Complete, NoAnswer, Goes, Kept, interactionVars, limiterVars,
      RoundsLeft
<1>14. ASSUME NEW a \in Agents, NEW decision \in {"allow", "allow_always", "deny"},
             UserDecides(a, decision)
      PROVE  RoundsLeft'
  BY <1>14, TurnTypes DEF UserDecides, Respond, NoAnswer, interactionVars, limiterVars, RoundsLeft
<1>15. CASE SaveMode
  BY <1>15, TurnTypes DEF SaveMode, WriteMode, NoSwitch, interactionVars, limiterVars, RoundsLeft
<1>16. CASE LookAtMode
  BY <1>16, TurnTypes DEF LookAtMode, LookAgain, turnVars, interactionVars, limiterVars, RoundsLeft
<1>17. CASE FreeRequests
  BY <1>17, TurnTypes DEF FreeRequests, Reconcile, Freed, NoSwitch, Kept, interactionVars,
      limiterVars, RoundsLeft
<1>18. CASE Stop
  BY <1>18, TurnTypes DEF Stop, Settled, RoundsLeft, LeaveLine, Waiting
<1>19. ASSUME NEW mode \in Modes, UserSwitches(mode)
      PROVE  RoundsLeft'
  BY <1>19, TurnTypes DEF UserSwitches, BeginSwitch, interactionVars, limiterVars, RoundsLeft
<1> QED
  BY <1>1, <1>2, <1>3, <1>4, <1>5, <1>6, <1>7, <1>8, <1>9, <1>10, <1>11, <1>12, <1>13, <1>14,
      <1>15, <1>16, <1>17, <1>18, <1>19
  DEF Next, Progress, User

\* Settings that are read are those saved at that time.
LEMMA ExemptedStep == TurnTypeOK /\ Requested /\ Questioned /\ Exempted /\ Next => Exempted'
<1> SUFFICES ASSUME TurnTypeOK, Requested, Questioned, Exempted, Next PROVE Exempted'
  OBVIOUS
<1>1. ASSUME NEW a \in Agents, CallModel(a) \/ GiveUp(a) \/ GetSlot(a)
      PROVE  Exempted'
  BY <1>1, TurnTypes DEF CallModel, GiveUp, GetSlot, Resume, OnlyGoes, Goes, turnVars,
      interactionVars, approvalVars, limiterVars, Exempted, Calling, Exempt, MustAsk,
      NeedsApproval
<1>2. ASSUME NEW a \in Agents, EndModel(a)
      PROVE  Exempted'
  BY <1>2, TurnTypes DEF EndModel, Release, Goes, Kept, interactionVars, approvalVars, Exempted,
      Calling, Exempt, MustAsk, NeedsApproval
<1>3. ASSUME NEW a \in Agents,
             \/ BeginCall(a) \/ Look(a) \/ ReviewByModel(a) \/ LookOnceMore(a)
             \/ AskUser(a)
      PROVE  Exempted'
  BY <1>3, TurnTypes DEF BeginCall, Look, ReviewByModel, LookOnceMore, AskUser, Request, OnlyGoes,
      Goes, Kept, turnVars, interactionVars, approvalVars, limiterVars, Exempted, Calling,
      Exemptions, Exempt, MustAsk, NeedsApproval
<1>4. ASSUME NEW a \in Agents, Decide(a)
      PROVE  Exempted'
  <2>1. /\ step[a] = "decide" /\ UNCHANGED <<saved, kind, switch, grounds>>
        /\ \A b \in Agents \ {a} : step'[b] = step[b] /\ seen'[b] = seen[b]
    BY <1>4, TurnTypes DEF Decide, approvalVars
  <2>2. /\ step'[a] \in {"ran", "review", "notify"}
        /\ step'[a] = "review" => kind[a] # "outside"
    BY <1>4, TurnTypes DEF Decide, Reviewed
  <2> QED
    BY TurnTypes, <2>1, <2>2 DEF Exempted, Calling
<1>5. ASSUME NEW a \in Agents, ReviewFast(a)
      PROVE  Exempted'
  BY <1>5, TurnTypes DEF ReviewFast, Verdict, Goes, interactionVars, approvalVars, limiterVars,
      Exempted, Calling, Exempt, MustAsk, NeedsApproval
<1>6. ASSUME NEW a \in Agents, EndReview(a)
      PROVE  Exempted'
  BY <1>6, TurnTypes DEF EndReview, Verdict, Goes, interactionVars, approvalVars, Exempted, Calling,
      Exempt, MustAsk, NeedsApproval
<1>7. ASSUME NEW a \in Agents, ReviewTimeout(a)
      PROVE  Exempted'
  BY <1>7, TurnTypes DEF ReviewTimeout, Verdict, Goes, interactionVars, approvalVars, Exempted,
      Calling, Exempt, MustAsk, NeedsApproval
<1>8. ASSUME NEW a \in Agents,
             \/ BeginQuestion(a) \/ PutQuestion(a) \/ LookAtQuestion(a)
             \/ NotAnsweredYet(a) \/ NobodyThere(a) \/ UserAnswers(a)
      PROVE  Exempted'
  BY <1>8, TurnTypes DEF BeginQuestion, PutQuestion, CreateQuestion, LookAtQuestion, ReadQuestion,
      NotAnsweredYet, FoundPending, NobodyThere, DeliverToNobody, UserAnswers, SaveAnswer,
      OnlyGoes, Goes, Kept, turnVars, interactionVars, approvalVars, limiterVars, Exempted,
      Calling, Exempt, MustAsk, NeedsApproval
<1>9. ASSUME NEW a \in Agents, WaitForAnswer(a) \/ AnsweredBefore(a) \/ TakeAnswer(a)
      PROVE  Exempted'
  BY <1>9, TurnTypes DEF WaitForAnswer, Await, Settled, AnsweredBefore, FoundAnswered, TakeAnswer,
      DeliverAnswer, Goes, Kept, approvalVars, limiterVars, Exempted, Calling, Exempt, MustAsk,
      NeedsApproval
<1>10. ASSUME NEW a \in Agents, NextRound(a)
      PROVE  Exempted'
  BY <1>10, TurnTypes DEF NextRound, Goes, interactionVars, approvalVars, limiterVars, Exempted,
      Calling, Exempt, MustAsk, NeedsApproval
<1>11. ASSUME NEW a \in Agents, SaveRule(a) \/ UserLeaves(a) \/ RuleIsNotSaved(a)
      PROVE  Exempted'
  BY <1>11, TurnTypes DEF SaveRule, WriteRule, UserLeaves, CloseEarly, RuleIsNotSaved,
      WriteRuleFails, NoAnswer, Goes, interactionVars, limiterVars,
      Exempted, Calling,
      Exemptions, Exempt, MustAsk, NeedsApproval, WithExemptions
<1>12. ASSUME NEW a \in Agents, AnswerStep(a)
      PROVE  Exempted'
  BY <1>12, TurnTypes DEF AnswerStep, ReadSettings, Listen, turnVars, interactionVars, limiterVars,
      Exempted, Calling, Exempt, MustAsk, NeedsApproval
<1>13. ASSUME NEW a \in Agents, Resolve(a)
      PROVE  Exempted'
  BY <1>13, TurnTypes DEF Resolve, Complete, NoAnswer, Goes, Kept, interactionVars, limiterVars,
      Exempted, Calling, Exempt, MustAsk, NeedsApproval
<1>14. ASSUME NEW a \in Agents, NEW decision \in {"allow", "allow_always", "deny"},
             UserDecides(a, decision)
      PROVE  Exempted'
  BY <1>14, TurnTypes DEF UserDecides, Respond, NoAnswer, interactionVars, limiterVars, Exempted,
      Calling, Exempt, MustAsk, NeedsApproval
<1>15. CASE SaveMode
  BY <1>15, TurnTypes DEF SaveMode, WriteMode, NoSwitch, interactionVars, limiterVars, Exempted,
      Calling, Exemptions, Exempt, MustAsk, NeedsApproval, WithExemptions
<1>16. CASE LookAtMode
  BY <1>16, TurnTypes DEF LookAtMode, LookAgain, turnVars, interactionVars, limiterVars, Exempted,
      Calling, Exempt, MustAsk, NeedsApproval
<1>17. CASE FreeRequests
  BY <1>17, TurnTypes DEF FreeRequests, Reconcile, Freed, NoSwitch, Kept, interactionVars,
      limiterVars, Exempted, Calling, Exempt, MustAsk, NeedsApproval
<1>18. CASE Stop
  BY <1>18, TurnTypes DEF Stop, Settled, Exempted, Calling, Exempt, MustAsk, NeedsApproval
<1>19. ASSUME NEW mode \in Modes, UserSwitches(mode)
      PROVE  Exempted'
  BY <1>19, TurnTypes DEF UserSwitches, BeginSwitch, interactionVars, limiterVars,
      Exempted, Calling,
      Exempt, MustAsk, NeedsApproval
<1> QED
  BY <1>1, <1>2, <1>3, <1>4, <1>5, <1>6, <1>7, <1>8, <1>9, <1>10, <1>11, <1>12, <1>13, <1>14,
      <1>15, <1>16, <1>17, <1>18, <1>19
  DEF Next, Progress, User

\* Only a call that is asked about is denied or stopped.
LEMMA RefusedStep == TurnTypeOK /\ Requested /\ Questioned /\ Refused /\ Next => Refused'
<1> SUFFICES ASSUME TurnTypeOK, Requested, Questioned, Refused, Next PROVE Refused'
  OBVIOUS
<1>1. ASSUME NEW a \in Agents, CallModel(a) \/ GiveUp(a) \/ GetSlot(a)
      PROVE  Refused'
  BY <1>1, TurnTypes DEF CallModel, GiveUp, GetSlot, Resume, OnlyGoes, Goes, turnVars,
      interactionVars, approvalVars, limiterVars, Refused, Requested, AnswerUnderWay, Questioned
<1>2. ASSUME NEW a \in Agents, EndModel(a)
      PROVE  Refused'
  BY <1>2, TurnTypes DEF EndModel, Release, Goes, Kept, interactionVars, approvalVars, Refused,
      Requested, AnswerUnderWay, Questioned
<1>3. ASSUME NEW a \in Agents, BeginCall(a)
      PROVE  Refused'
  BY <1>3, TurnTypes DEF BeginCall, Goes, interactionVars, limiterVars, Refused, Requested,
      AnswerUnderWay, Questioned, Exemptions
<1>4. ASSUME NEW a \in Agents, Look(a)
      PROVE  Refused'
  BY <1>4, TurnTypes DEF Look, Goes, interactionVars, approvalVars, limiterVars, Refused, Requested,
      AnswerUnderWay, Questioned
<1>5. ASSUME NEW a \in Agents, ReviewByModel(a)
      PROVE  Refused'
  BY <1>5, TurnTypes DEF ReviewByModel, turnVars, interactionVars, approvalVars, Refused, Requested,
      AnswerUnderWay, Questioned
<1>6. ASSUME NEW a \in Agents, LookOnceMore(a)
      PROVE  Refused'
  BY <1>6, TurnTypes DEF LookOnceMore, OnlyGoes, Goes, interactionVars, approvalVars, limiterVars,
      Refused, Requested, AnswerUnderWay, Questioned
<1>7. ASSUME NEW a \in Agents, AskUser(a)
      PROVE  Refused'
  BY <1>7, TurnTypes DEF AskUser, Request, OnlyGoes, Goes, Kept, interactionVars, approvalVars,
      limiterVars, Refused, Requested, AnswerUnderWay, Questioned
<1>8. ASSUME NEW a \in Agents, Decide(a)
      PROVE  Refused'
  BY <1>8, TurnTypes DEF Decide, interactionVars, approvalVars, limiterVars, Refused, Requested,
      AnswerUnderWay, Questioned
<1>9. ASSUME NEW a \in Agents, ReviewFast(a)
      PROVE  Refused'
  BY <1>9, TurnTypes DEF ReviewFast, Verdict, Goes, interactionVars, approvalVars, limiterVars,
      Refused, Requested, AnswerUnderWay, Questioned
<1>10. ASSUME NEW a \in Agents, EndReview(a)
      PROVE  Refused'
  BY <1>10, TurnTypes DEF EndReview, Verdict, Goes, interactionVars, approvalVars, Refused,
      Requested, AnswerUnderWay, Questioned
<1>11. ASSUME NEW a \in Agents, ReviewTimeout(a)
      PROVE  Refused'
  BY <1>11, TurnTypes DEF ReviewTimeout, Verdict, Goes, interactionVars, approvalVars, Refused,
      Requested, AnswerUnderWay, Questioned
<1>12. ASSUME NEW a \in Agents,
             \/ BeginQuestion(a) \/ PutQuestion(a) \/ LookAtQuestion(a)
             \/ NotAnsweredYet(a) \/ NobodyThere(a) \/ UserAnswers(a)
      PROVE  Refused'
  BY <1>12, TurnTypes DEF BeginQuestion, PutQuestion, CreateQuestion, LookAtQuestion, ReadQuestion,
      NotAnsweredYet, FoundPending, NobodyThere, DeliverToNobody, UserAnswers, SaveAnswer,
      OnlyGoes, Goes, Kept, turnVars, interactionVars, approvalVars, limiterVars, Refused,
      Requested, AnswerUnderWay, Questioned
<1>13. ASSUME NEW a \in Agents, WaitForAnswer(a) \/ AnsweredBefore(a) \/ TakeAnswer(a)
      PROVE  Refused'
  BY <1>13, TurnTypes DEF WaitForAnswer, Await, Settled, AnsweredBefore, FoundAnswered, TakeAnswer,
      DeliverAnswer, Goes, Kept, approvalVars, limiterVars, Refused, Requested, AnswerUnderWay,
      Questioned
<1>14. ASSUME NEW a \in Agents, NextRound(a)
      PROVE  Refused'
  BY <1>14, TurnTypes DEF NextRound, Goes, interactionVars, approvalVars, limiterVars, Refused,
      Requested, AnswerUnderWay, Questioned
<1>15. ASSUME NEW a \in Agents, SaveRule(a)
      PROVE  Refused'
  BY <1>15, TurnTypes DEF SaveRule, WriteRule, interactionVars, limiterVars, Refused, Requested,
      AnswerUnderWay, Questioned, Exemptions, WithExemptions
<1>16. ASSUME NEW a \in Agents, UserLeaves(a)
      PROVE  Refused'
  BY <1>16, TurnTypes DEF UserLeaves, CloseEarly, interactionVars, limiterVars, Refused, Requested,
      AnswerUnderWay, Questioned
<1>17. ASSUME NEW a \in Agents, RuleIsNotSaved(a)
      PROVE  Refused'
  BY <1>17, TurnTypes DEF RuleIsNotSaved, WriteRuleFails, NoAnswer, Goes, interactionVars,
      limiterVars, Refused, Requested, AnswerUnderWay, Questioned
<1>18. ASSUME NEW a \in Agents, AnswerStep(a)
      PROVE  Refused'
  <2>1. UNCHANGED <<step, grounds, stopped>>
    BY <1>18 DEF AnswerStep, turnVars
  <2>2. answer[a].pc # "none" /\ answer'[a].pc # "none" /\ answer'[a].allows = answer[a].allows
    BY <1>18, TurnTypes DEF AnswerStep, ReadSettings, Listen
  <2>3. \A b \in Agents \ {a} : answer'[b] = answer[b]
    BY <1>18, TurnTypes DEF AnswerStep, ReadSettings, Listen
  <2> QED
    BY <2>1, <2>2, <2>3 DEF Refused, AnswerUnderWay
<1>19. ASSUME NEW a \in Agents, Resolve(a)
      PROVE  Refused'
  <2>1. /\ UNCHANGED <<grounds, stopped>> /\ answer[a].pc = "sending"
        /\ \A b \in Agents \ {a} : answer'[b] = answer[b] /\ step'[b] = step[b]
        /\ answer'[a].pc = "none"
    BY <1>19, TurnTypes DEF Resolve, Complete, NoAnswer, Goes, Kept
  <2>2. step'[a] = "refused" \/ (answer[a].allows /\ ~stopped /\ step'[a] = "ran")
    BY <1>19, TurnTypes DEF Resolve, Complete, Granted, Goes
  <2>3. step[a] = "asked"
    BY <2>1 DEF Requested, AnswerUnderWay
  <2> QED
    BY <2>1, <2>2, <2>3 DEF Refused, AnswerUnderWay
<1>20. ASSUME NEW a \in Agents, NEW decision \in {"allow", "allow_always", "deny"},
             UserDecides(a, decision)
      PROVE  Refused'
  <2>1. /\ a \in asked /\ UNCHANGED <<step, stopped>>
        /\ \A b \in Agents \ {a} : answer'[b] = answer[b] /\ grounds'[b] = grounds[b]
        /\ answer'[a].pc # "none" /\ (answer'[a].allows <=> decision # "deny")
        /\ grounds'[a] = grounds[a] \cup {IF decision = "deny" THEN "denied" ELSE "allowed"}
    <3>1. PICK open \in BOOLEAN :
             answer' = [answer EXCEPT ![a] = [NoAnswer EXCEPT
                          !.pc = IF decision = "allow_always" THEN "read" ELSE "register",
                          !.allows = decision # "deny", !.open = open]]
      BY <1>20 DEF UserDecides, Respond
    <3>2. /\ \A b \in Agents \ {a} : answer'[b] = answer[b]
          /\ answer'[a].pc # "none" /\ (answer'[a].allows <=> decision # "deny")
      BY TurnTypes, <3>1 DEF NoAnswer
    <3> QED
      BY <1>20, TurnTypes, <3>2 DEF UserDecides, Respond
  <2>2. ~stopped /\ step[a] = "asked" /\ answer[a].pc = "none"
    BY <2>1 DEF Requested, AnswerUnderWay
  <2> QED
    BY <2>1, <2>2 DEF Refused, AnswerUnderWay
<1>21. CASE SaveMode
  BY <1>21, TurnTypes DEF SaveMode, WriteMode, NoSwitch, interactionVars, limiterVars, Refused,
      Requested, AnswerUnderWay, Questioned, Exemptions, WithExemptions
<1>22. CASE LookAtMode
  BY <1>22, TurnTypes DEF LookAtMode, LookAgain, turnVars, interactionVars, limiterVars, Refused,
      Requested, AnswerUnderWay, Questioned
<1>23. CASE FreeRequests
  BY <1>23, TurnTypes DEF FreeRequests, Reconcile, Freed, NoSwitch, Kept, interactionVars,
      limiterVars, Refused, Requested, AnswerUnderWay, Questioned
<1>24. CASE Stop
  BY <1>24, TurnTypes DEF Stop, Settled, Refused, Requested, AnswerUnderWay, Questioned
<1>25. ASSUME NEW mode \in Modes, UserSwitches(mode)
      PROVE  Refused'
  BY <1>25, TurnTypes DEF UserSwitches, BeginSwitch, interactionVars, limiterVars, Refused,
      Requested, AnswerUnderWay, Questioned
<1> QED
  BY <1>1, <1>2, <1>3, <1>4, <1>5, <1>6, <1>7, <1>8, <1>9, <1>10, <1>11, <1>12, <1>13, <1>14,
      <1>15, <1>16, <1>17, <1>18, <1>19, <1>20, <1>21, <1>22, <1>23, <1>24, <1>25
  DEF Next, Progress, User

\* Every way to run a tool has its ground.
LEMMA NothingRunsUnaskedStep ==
    TurnTypeOK /\ Requested /\ Questioned /\ Exempted /\ Refused /\ NothingRunsUnasked /\ Next
      => NothingRunsUnasked'
<1> SUFFICES ASSUME TurnTypeOK, Requested, Questioned, Exempted, Refused,
                    NothingRunsUnasked, Next
             PROVE  NothingRunsUnasked'
  OBVIOUS
<1>1. ASSUME NEW a \in Agents, CallModel(a) \/ GiveUp(a) \/ GetSlot(a)
      PROVE  NothingRunsUnasked'
  BY <1>1, TurnTypes DEF CallModel, GiveUp, GetSlot, Resume, OnlyGoes, Goes, turnVars,
      interactionVars, approvalVars, limiterVars, NothingRunsUnasked, Refused, Exempted,
      Requested, AnswerUnderWay, Questioned, Calling, Exempt, MustAsk, NeedsApproval
<1>2. ASSUME NEW a \in Agents, EndModel(a)
      PROVE  NothingRunsUnasked'
  BY <1>2, TurnTypes DEF EndModel, Release, Goes, Kept, interactionVars, approvalVars,
      NothingRunsUnasked, Refused, Exempted, Requested, AnswerUnderWay, Questioned, Calling,
      Exempt, MustAsk, NeedsApproval
<1>3. ASSUME NEW a \in Agents,
             \/ BeginCall(a) \/ Look(a) \/ ReviewByModel(a) \/ LookOnceMore(a)
             \/ AskUser(a)
      PROVE  NothingRunsUnasked'
  BY <1>3, TurnTypes DEF BeginCall, Look, ReviewByModel, LookOnceMore, AskUser, Request, OnlyGoes,
      Goes, Kept, turnVars, interactionVars, approvalVars, limiterVars, NothingRunsUnasked,
      Refused, Exempted, Requested, AnswerUnderWay, Questioned, Calling, Exemptions, Exempt,
      MustAsk, NeedsApproval
<1>4. ASSUME NEW a \in Agents, Decide(a)
      PROVE  NothingRunsUnasked'
  BY <1>4, TurnTypes DEF Decide, interactionVars, approvalVars, limiterVars, NothingRunsUnasked,
      Refused, Exempted, Requested, AnswerUnderWay, Questioned, Calling, Exempt, MustAsk,
      NeedsApproval, Effective, Reviewed
<1>5. ASSUME NEW a \in Agents, ReviewFast(a)
      PROVE  NothingRunsUnasked'
  <2>1. PICK low \in BOOLEAN : Verdict(a, low)
    BY <1>5 DEF ReviewFast
  <2>2. /\ step[a] = "review"
        /\ \A b \in Agents \ {a} : grounds'[b] = grounds[b] /\ step'[b] = step[b]
        /\ step'[a] = "ran" => grounds'[a] = grounds[a] \cup {"reviewed"}
    BY <1>5, TurnTypes, <2>1 DEF ReviewFast, Verdict, Goes
  <2>3. grounds[a] \cap {"denied", "stopped"} = {}
    BY <2>2 DEF Refused, Requested, AnswerUnderWay
  <2> QED
    BY <2>2, <2>3 DEF NothingRunsUnasked
<1>6. ASSUME NEW a \in Agents, EndReview(a)
      PROVE  NothingRunsUnasked'
  <2>1. PICK low \in BOOLEAN : Verdict(a, low)
    BY <1>6 DEF EndReview
  <2>2. /\ step[a] = "review"
        /\ \A b \in Agents \ {a} : grounds'[b] = grounds[b] /\ step'[b] = step[b]
        /\ step'[a] = "ran" => grounds'[a] = grounds[a] \cup {"reviewed"}
    BY <1>6, TurnTypes, <2>1 DEF EndReview, Verdict, Goes
  <2>3. grounds[a] \cap {"denied", "stopped"} = {}
    BY <2>2 DEF Refused, Requested, AnswerUnderWay
  <2> QED
    BY <2>2, <2>3 DEF NothingRunsUnasked
<1>7. ASSUME NEW a \in Agents, ReviewTimeout(a)
      PROVE  NothingRunsUnasked'
  BY <1>7, TurnTypes DEF ReviewTimeout, Verdict, Goes, interactionVars, approvalVars,
      NothingRunsUnasked, Refused, Exempted, Requested, AnswerUnderWay, Questioned, Calling,
      Exempt, MustAsk, NeedsApproval
<1>8. ASSUME NEW a \in Agents,
             \/ BeginQuestion(a) \/ PutQuestion(a) \/ LookAtQuestion(a)
             \/ NotAnsweredYet(a) \/ NobodyThere(a) \/ UserAnswers(a)
      PROVE  NothingRunsUnasked'
  BY <1>8, TurnTypes DEF BeginQuestion, PutQuestion, CreateQuestion, LookAtQuestion, ReadQuestion,
      NotAnsweredYet, FoundPending, NobodyThere, DeliverToNobody, UserAnswers, SaveAnswer,
      OnlyGoes, Goes, Kept, turnVars, interactionVars, approvalVars, limiterVars,
      NothingRunsUnasked, Refused, Exempted, Requested, AnswerUnderWay, Questioned, Calling,
      Exempt, MustAsk, NeedsApproval
<1>9. ASSUME NEW a \in Agents, WaitForAnswer(a) \/ AnsweredBefore(a) \/ TakeAnswer(a)
      PROVE  NothingRunsUnasked'
  BY <1>9, TurnTypes DEF WaitForAnswer, Await, Settled, AnsweredBefore, FoundAnswered, TakeAnswer,
      DeliverAnswer, Goes, Kept, approvalVars, limiterVars, NothingRunsUnasked, Refused,
      Exempted, Requested, AnswerUnderWay, Questioned, Calling, Exempt, MustAsk, NeedsApproval
<1>10. ASSUME NEW a \in Agents, NextRound(a)
      PROVE  NothingRunsUnasked'
  BY <1>10, TurnTypes DEF NextRound, Goes, interactionVars, approvalVars, limiterVars,
      NothingRunsUnasked, Refused, Exempted, Requested, AnswerUnderWay, Questioned, Calling,
      Exempt, MustAsk, NeedsApproval
<1>11. ASSUME NEW a \in Agents, SaveRule(a) \/ UserLeaves(a) \/ RuleIsNotSaved(a)
      PROVE  NothingRunsUnasked'
  BY <1>11, TurnTypes DEF SaveRule, WriteRule, UserLeaves, CloseEarly, RuleIsNotSaved,
      WriteRuleFails, NoAnswer, Goes, interactionVars, limiterVars, NothingRunsUnasked, Refused,
      Exempted, Requested, AnswerUnderWay, Questioned, Calling, Exemptions, WithExemptions,
      Exempt, MustAsk, NeedsApproval
<1>12. ASSUME NEW a \in Agents, AnswerStep(a)
      PROVE  NothingRunsUnasked'
  BY <1>12, TurnTypes DEF AnswerStep, ReadSettings, Listen, turnVars, interactionVars, limiterVars,
      NothingRunsUnasked, Refused, Exempted, Requested, AnswerUnderWay, Questioned, Calling,
      Exempt, MustAsk, NeedsApproval
<1>13. ASSUME NEW a \in Agents, Resolve(a)
      PROVE  NothingRunsUnasked'
  BY <1>13, TurnTypes DEF Resolve, Complete, NoAnswer, Goes, Kept, interactionVars, limiterVars,
      NothingRunsUnasked, Refused, Exempted, Requested, AnswerUnderWay, Questioned, Calling,
      Exempt, MustAsk, NeedsApproval, Granted
<1>14. ASSUME NEW a \in Agents, NEW decision \in {"allow", "allow_always", "deny"},
             UserDecides(a, decision)
      PROVE  NothingRunsUnasked'
  BY <1>14, TurnTypes DEF UserDecides, Respond, NoAnswer, interactionVars, limiterVars,
      NothingRunsUnasked, Refused, Exempted, Requested, AnswerUnderWay, Questioned, Calling,
      Exempt, MustAsk, NeedsApproval
<1>15. CASE SaveMode
  BY <1>15, TurnTypes DEF SaveMode, WriteMode, NoSwitch, interactionVars, limiterVars,
      NothingRunsUnasked, Refused, Exempted, Requested, AnswerUnderWay, Questioned, Calling,
      Exemptions, WithExemptions, Exempt, MustAsk, NeedsApproval
<1>16. CASE LookAtMode
  BY <1>16, TurnTypes DEF LookAtMode, LookAgain, turnVars, interactionVars, limiterVars,
      NothingRunsUnasked, Refused, Exempted, Requested, AnswerUnderWay, Questioned, Calling,
      Exempt, MustAsk, NeedsApproval
<1>17. CASE FreeRequests
  BY <1>17, TurnTypes DEF FreeRequests, Reconcile, Freed, NoSwitch, Kept, interactionVars,
      limiterVars, NothingRunsUnasked, Refused, Exempted, Requested, AnswerUnderWay, Questioned,
      Calling, Exempt, MustAsk, NeedsApproval
<1>18. CASE Stop
  BY <1>18, TurnTypes DEF Stop, Settled, NothingRunsUnasked, Refused, Exempted, Requested,
      AnswerUnderWay, Questioned, Calling, Exempt, MustAsk, NeedsApproval
<1>19. ASSUME NEW mode \in Modes, UserSwitches(mode)
      PROVE  NothingRunsUnasked'
  BY <1>19, TurnTypes DEF UserSwitches, BeginSwitch, interactionVars, limiterVars,
      NothingRunsUnasked, Refused, Exempted, Requested, AnswerUnderWay, Questioned, Calling,
      Exempt, MustAsk, NeedsApproval
<1> QED
  BY <1>1, <1>2, <1>3, <1>4, <1>5, <1>6, <1>7, <1>8, <1>9, <1>10, <1>11, <1>12, <1>13, <1>14,
      <1>15, <1>16, <1>17, <1>18, <1>19
  DEF Next, Progress, User

\* The types of the questions.
LEMMA InteractionsTypeOKStep == InteractionsTypeOK /\ Next => InteractionsTypeOK'
<1> SUFFICES ASSUME InteractionsTypeOK, Next PROVE InteractionsTypeOK'
  OBVIOUS
<1>1. ASSUME NEW a \in Agents, CallModel(a) \/ GiveUp(a) \/ GetSlot(a)
      PROVE  InteractionsTypeOK'
  BY <1>1 DEF CallModel, GiveUp, GetSlot, Resume, OnlyGoes, Goes, turnVars,
      interactionVars, approvalVars, limiterVars, InteractionsTypeOK
<1>2. ASSUME NEW a \in Agents, EndModel(a)
      PROVE  InteractionsTypeOK'
  BY <1>2 DEF EndModel, Release, Goes, Kept, interactionVars, approvalVars,
      InteractionsTypeOK
<1>3. ASSUME NEW a \in Agents,
             \/ BeginCall(a) \/ Look(a) \/ ReviewByModel(a) \/ LookOnceMore(a)
             \/ AskUser(a)
      PROVE  InteractionsTypeOK'
  BY <1>3 DEF BeginCall, Look, ReviewByModel, LookOnceMore, AskUser, Request, OnlyGoes,
      Goes, Kept, turnVars, interactionVars, approvalVars, limiterVars, InteractionsTypeOK
<1>4. ASSUME NEW a \in Agents, Decide(a)
      PROVE  InteractionsTypeOK'
  BY <1>4 DEF Decide, interactionVars, approvalVars, limiterVars, InteractionsTypeOK
<1>5. ASSUME NEW a \in Agents, ReviewFast(a)
      PROVE  InteractionsTypeOK'
  BY <1>5 DEF ReviewFast, Verdict, Goes, interactionVars, approvalVars, limiterVars,
      InteractionsTypeOK
<1>6. ASSUME NEW a \in Agents, EndReview(a)
      PROVE  InteractionsTypeOK'
  BY <1>6 DEF EndReview, Verdict, Goes, interactionVars, approvalVars, InteractionsTypeOK
<1>7. ASSUME NEW a \in Agents, ReviewTimeout(a)
      PROVE  InteractionsTypeOK'
  BY <1>7 DEF ReviewTimeout, Verdict, Goes, interactionVars, approvalVars,
      InteractionsTypeOK
<1>8. ASSUME NEW a \in Agents,
             \/ BeginQuestion(a) \/ PutQuestion(a) \/ LookAtQuestion(a)
             \/ NotAnsweredYet(a) \/ NobodyThere(a) \/ UserAnswers(a)
      PROVE  InteractionsTypeOK'
  BY <1>8 DEF BeginQuestion, PutQuestion, CreateQuestion, LookAtQuestion, ReadQuestion,
      NotAnsweredYet, FoundPending, NobodyThere, DeliverToNobody, UserAnswers, SaveAnswer,
      OnlyGoes, Goes, Kept, turnVars, interactionVars, approvalVars, limiterVars,
      InteractionsTypeOK
<1>9. ASSUME NEW a \in Agents, WaitForAnswer(a) \/ AnsweredBefore(a) \/ TakeAnswer(a)
      PROVE  InteractionsTypeOK'
  BY <1>9 DEF WaitForAnswer, Await, Settled, AnsweredBefore, FoundAnswered, TakeAnswer,
      DeliverAnswer, Goes, Kept, approvalVars, limiterVars, InteractionsTypeOK
<1>10. ASSUME NEW a \in Agents, NextRound(a)
      PROVE  InteractionsTypeOK'
  BY <1>10 DEF NextRound, Goes, interactionVars, approvalVars, limiterVars,
      InteractionsTypeOK
<1>11. ASSUME NEW a \in Agents, SaveRule(a) \/ UserLeaves(a) \/ RuleIsNotSaved(a)
      PROVE  InteractionsTypeOK'
  BY <1>11 DEF SaveRule, WriteRule, UserLeaves, CloseEarly, RuleIsNotSaved,
      WriteRuleFails, NoAnswer, Goes, interactionVars, limiterVars, InteractionsTypeOK
<1>12. ASSUME NEW a \in Agents, AnswerStep(a)
      PROVE  InteractionsTypeOK'
  BY <1>12 DEF AnswerStep, ReadSettings, Listen, turnVars, interactionVars, limiterVars,
      InteractionsTypeOK
<1>13. ASSUME NEW a \in Agents, Resolve(a)
      PROVE  InteractionsTypeOK'
  BY <1>13 DEF Resolve, Complete, NoAnswer, Goes, Kept, interactionVars, limiterVars,
      InteractionsTypeOK
<1>14. ASSUME NEW a \in Agents, NEW decision \in {"allow", "allow_always", "deny"},
             UserDecides(a, decision)
      PROVE  InteractionsTypeOK'
  BY <1>14 DEF UserDecides, Respond, NoAnswer, interactionVars, limiterVars,
      InteractionsTypeOK
<1>15. CASE SaveMode
  BY <1>15 DEF SaveMode, WriteMode, NoSwitch, interactionVars, limiterVars,
      InteractionsTypeOK
<1>16. CASE LookAtMode
  BY <1>16 DEF LookAtMode, LookAgain, turnVars, interactionVars, limiterVars,
      InteractionsTypeOK
<1>17. CASE FreeRequests
  BY <1>17 DEF FreeRequests, Reconcile, Freed, NoSwitch, Kept, interactionVars,
      limiterVars, InteractionsTypeOK
<1>18. CASE Stop
  BY <1>18 DEF Stop, Settled, InteractionsTypeOK
<1>19. ASSUME NEW mode \in Modes, UserSwitches(mode)
      PROVE  InteractionsTypeOK'
  BY <1>19 DEF UserSwitches, BeginSwitch, interactionVars, limiterVars, InteractionsTypeOK
<1> QED
  BY <1>1, <1>2, <1>3, <1>4, <1>5, <1>6, <1>7, <1>8, <1>9, <1>10, <1>11, <1>12, <1>13, <1>14,
      <1>15, <1>16, <1>17, <1>18, <1>19
  DEF Next, Progress, User

\* The invariant holds at the start.
LEMMA TurnStarts == Init => TurnInv
  <1> SUFFICES ASSUME Init PROVE TurnInv
    OBVIOUS
  <1>p. Asking \in Settings /\ NoAnswer \in Answers /\ NoSwitch \in Switches
    BY PlainValues
  <1>1. LimiterInv
    BY LimiterStarts DEF Init
  <1>2. InteractionsTypeOK
    BY DEF Init, InteractionsInit, InteractionsTypeOK
  <1>3. ApprovalsTypeOK
    BY <1>p DEF Init, ApprovalsInit, ApprovalsTypeOK, Tools, Answers, Switches
  <1>z. 0 \in 0..MaxRounds /\ 0 \in 0..MaxSwitches /\ 0 \in 0..MaxTroubles
    <2>1. MaxRounds \in Nat /\ MaxSwitches \in Nat /\ MaxTroubles \in Nat
      BY TurnAssumption
    <2> QED
      BY <2>1
  <1>4. LoopTypeOK
    <2>1. step \in [Agents -> Steps] /\ seen \in [Agents -> Settings] /\ stopped \in BOOLEAN
      BY <1>p DEF Init, Steps
    <2>2. rounds \in [Agents -> 0..MaxRounds]
      BY <1>z DEF Init
    <2>3. grounds \in [Agents -> SUBSET {"exempt", "reviewed", "allowed", "denied", "stopped"}]
      BY DEF Init
    <2>4. counts \in [switches : 0..MaxSwitches, troubles : 0..MaxTroubles]
      BY <1>z DEF Init
    <2> QED
      BY <2>1, <2>2, <2>3, <2>4 DEF LoopTypeOK
  <1>5. RoundsLeft
    BY TurnAssumption DEF Init, LimiterInit, RoundsLeft
  <1>6. Requested /\ Questioned
    BY DEF Init, ApprovalsInit, InteractionsInit, NoAnswer, Requested, Questioned, AnswerUnderWay
  <1>7. Exempted /\ Refused /\ NothingRunsUnasked
    BY DEF Init, ApprovalsInit, NoAnswer, Exempted, Calling, Refused, NothingRunsUnasked,
       AnswerUnderWay
  <1> QED
    BY <1>1, <1>2, <1>3, <1>4, <1>5, <1>6, <1>7
    DEF TurnInv, TurnTypeOK, LimiterInv, LoopTypeOK

\* ... and is preserved by every step.
LEMMA TurnKeeps == TurnInv /\ [Next]_vars => TurnInv'
  <1>1. TurnInv /\ Next => TurnInv'
    <2> SUFFICES ASSUME TurnInv, Next PROVE TurnInv'
      OBVIOUS
    <2>1. /\ LimiterInv /\ TurnTypeOK /\ RoundsLeft /\ Requested /\ Questioned
          /\ Exempted /\ Refused /\ NothingRunsUnasked
      BY DEF TurnInv
    <2>2. LimiterInv'
      BY <2>1, LimiterKeeps, RunStepsLimiter
    <2>3. InteractionsTypeOK' /\ ApprovalsTypeOK' /\ LoopTypeOK'
      BY <2>1, InteractionsTypeOKStep, ApprovalsTypeStep, LoopTypeStep DEF TurnTypeOK
    <2>4. TurnTypeOK'
      BY <2>2, <2>3 DEF TurnTypeOK, LimiterInv, LoopTypeOK
    <2>5. RoundsLeft' /\ Requested' /\ Questioned'
      BY <2>1, RoundsLeftStep, RequestedStep, QuestionedStep
    <2>6. Exempted' /\ Refused' /\ NothingRunsUnasked'
      BY <2>1, ExemptedStep, RefusedStep, NothingRunsUnaskedStep
    <2> QED
      BY <2>2, <2>4, <2>5, <2>6 DEF TurnInv
  <1>2. TurnInv /\ UNCHANGED vars => TurnInv'
    <2> SUFFICES ASSUME TurnInv, UNCHANGED vars PROVE TurnInv'
      OBVIOUS
    <2>1. UNCHANGED <<limiterVars, interactionVars, approvalVars, turnVars>>
      BY DEF vars
    <2>2. LimiterInv'
      BY <2>1, LimiterKeeps DEF TurnInv
    <2>3. TurnTypeOK'
      BY <2>1 DEF TurnInv, TurnTypeOK, LimiterTypeOK, InteractionsTypeOK, ApprovalsTypeOK,
         limiterVars, interactionVars, approvalVars, turnVars
    <2>4. RoundsLeft' /\ Requested' /\ Questioned'
      BY <2>1 DEF TurnInv, RoundsLeft, Requested, Questioned, AnswerUnderWay,
         limiterVars, interactionVars, approvalVars, turnVars
    <2>5. Exempted' /\ Refused' /\ NothingRunsUnasked'
      BY <2>1 DEF TurnInv, Exempted, Exempt, Refused, NothingRunsUnasked, AnswerUnderWay,
         approvalVars, turnVars
    <2> QED
      BY <2>2, <2>3, <2>4, <2>5 DEF TurnInv
  <1> QED
    BY <1>1, <1>2

\* NobodyIsStranded: with any number of agents, and however answers, timeouts, changes of
\* the mode and Stop interleave, whoever waits for an answer can still be reached by one
\* (respond() and complete() of permission-coordinator.ts, waitForInteractionAnswer() of
\* run-control.ts, acquire() of concurrency-limiter.ts).
THEOREM WaitersAreReachable == Spec => []NobodyIsStranded
  <1>1. TurnInv => NobodyIsStranded
    <2> SUFFICES ASSUME TurnInv, NEW a \in Agents
                 PROVE  /\ step[a] = "asked" => (a \in asked /\ ~stopped) \/ AnswerUnderWay(a)
                        /\ step[a] = "waiting" =>
                              \/ a \in waiters /\ question[a] = "pending" /\ ~stopped
                              \/ recheck[a] \in {"reads", "answered"}
                              \/ a \in delivering /\ a \in waiters
                        /\ call[a] = "queued" => ~stopped
      BY DEF NobodyIsStranded, TurnInv
    <2>1. question[a] \in {"none", "pending", "answered"}
      BY TurnTypes DEF TurnInv
    <2> QED
      BY <2>1 DEF TurnInv, Requested, Questioned, RoundsLeft
  <1> QED
    BY <1>1, TurnStarts, TurnKeeps, PTL DEF Spec

\* NothingRunsUnasked: with any number of agents, a tool that runs was exempt at some time
\* of its call, found harmless or allowed, and was not denied or stopped, however old the
\* settings are that it was judged by (authorizeTool() of agent-runner.ts, reconcile() of
\* permission-coordinator.ts).
THEOREM ToolsRunOnGrounds == Spec => []NothingRunsUnasked
  <1>1. TurnInv => NothingRunsUnasked
    BY DEF TurnInv
  <1> QED
    BY <1>1, TurnStarts, TurnKeeps, PTL DEF Spec
=============================================================================
