----------------------------- MODULE Navigation ------------------------------
(****************************************************************************)
(* The navigation tools (brain/planning/roclaw_tools.ts) on top of the      *)
(* VisionLoop: robot.go_to and robot.explore await planning, the camera and *)
(* scene analysis; the plan of a go_to lives on as the module's active      *)
(* session, which listeners on the loop's events advance or re-plan, with   *)
(* awaits of their own; robot.stop takes effect at once.  JavaScript runs   *)
(* each piece between two awaits to its end, so an action is such a piece.  *)
(****************************************************************************)
EXTENDS Integers, FiniteSets

CONSTANTS
  GoTos, Explores,  \* the tool calls that may be made, each at most once
  None,             \* no call
  MaxSteps,         \* bound: steps of a plan
  MAX_RETRIES,      \* re-plannings of a step before the session is given up
  DualLoop          \* SemanticLoop and ReactiveLoop, or processFrame() alone

Calls == GoTos \cup Explores

ASSUME CallsAssumption   == GoTos \cap Explores = {} /\ None \notin Calls
ASSUME BoundsAssumption  == MaxSteps \in Nat \ {0} /\ MAX_RETRIES \in Nat
ASSUME RegimeAssumption  == DualLoop \in BOOLEAN

VARIABLES
  call,           \* call -> where it is
  \* roclaw_tools: module state and session objects
  activeSession, activeExplore,
  steps,          \* session -> plan.steps.length
  stepIndex, retryCount,
  stepTrace,      \* session -> currentStepTraceId, 0 for null
  planned,        \* session -> step plannings begun so far
  plans,          \* the advanceToNextStep and handleStepRetry that await
  open,           \* traceLogger.activeTraces
  \* VisionLoop
  running, goal, activeTraceId,
  listening,      \* the sessions whose listeners are registered
  eye,            \* the perception under way
  seen,           \* legacy: the goal in its prompt, while it is asked
  reactiveGoal,   \* dual: ReactiveLoop.goal
  motor,          \* dual: ReactiveLoop.running; legacy: a motion was sent last
  due,            \* the event being emitted: kind, goal, listeners to call
  \* history
  halted,         \* robot.stop was called and no navigation since
  orderly         \* no call and no event so far while a call or a planning awaits

vision   == <<running, goal, activeTraceId, listening, eye, seen, reactiveGoal,
              motor>>
sessions == <<steps, stepIndex, retryCount, stepTrace, planned, plans>>
history  == <<halted, orderly>>
vars     == <<call, activeSession, activeExplore, sessions, open, vision, due,
              history>>

\* Traces: <<c, 0>> is the GOAL trace of call c, <<s, n>> the trace of the n-th
\* step planning of session s.  Goals: <<s, i>> is the text that takes the
\* robot through step i of s; the text of the whole go_to is that of step 0.
MaxPlans == MaxSteps * (MAX_RETRIES + 1)
Traces   == Calls \X (0 .. MaxPlans)
Goals    == Calls \X (0 .. MaxSteps - 1)
NoTrace  == <<None, 0>>
NoGoal   == <<None, 0>>
NoEvent  == [what |-> "none", goal |-> NoGoal, left |-> 0]

Plan == [s : GoTos, n : 1 .. MaxPlans, step : 0 .. MaxSteps - 1,
         what : {"advance", "retry"}, at : {"scene", "plan", "topo"}]

InFlight(c) == call[c] \notin {"idle", "done"}
Calling     == \E c \in Calls : InFlight(c)
NowPlanning == plans # {}
Atomic      == due = NoEvent   \* no listener is being called

StillOrderly == orderly' = (orderly /\ ~Calling /\ ~NowPlanning)

TypeOK ==
  /\ call \in [Calls -> {"idle", "scene", "planning", "connecting", "cut",
                         "hung", "seeding", "done"}]
  /\ activeSession \in GoTos \cup {None}
  /\ activeExplore \in Explores \cup {None}
  /\ steps \in [GoTos -> 0 .. MaxSteps]
  /\ stepIndex \in [GoTos -> 0 .. MaxSteps]
  /\ retryCount \in [GoTos -> 0 .. MAX_RETRIES]
  /\ stepTrace \in [GoTos -> 0 .. MaxPlans]
  /\ planned \in [GoTos -> 0 .. MaxPlans]
  /\ plans \subseteq Plan
  /\ open \subseteq Traces
  /\ {running, motor, halted, orderly} \subseteq BOOLEAN
  /\ goal \in Goals \cup {NoGoal}
  /\ activeTraceId \in Traces \cup {NoTrace}
  /\ listening \subseteq GoTos
  /\ eye \in {"idle", "settling", "asking"}
  /\ {seen, reactiveGoal} \subseteq Goals \cup {NoGoal}
  /\ due \in [what : {"none", "arrival", "trouble"}, goal : Goals \cup {NoGoal},
              left : Nat]

Init ==
  /\ call = [c \in Calls |-> "idle"]
  /\ activeSession = None /\ activeExplore = None
  /\ steps = [s \in GoTos |-> 0]
  /\ stepIndex = [s \in GoTos |-> 0]
  /\ retryCount = [s \in GoTos |-> 0]
  /\ stepTrace = [s \in GoTos |-> 0]
  /\ planned = [s \in GoTos |-> 0]
  /\ plans = {} /\ open = {}
  /\ running = FALSE /\ motor = FALSE
  /\ goal = NoGoal /\ seen = NoGoal /\ reactiveGoal = NoGoal
  /\ activeTraceId = NoTrace
  /\ listening = {} /\ eye = "idle" /\ due = NoEvent
  /\ halted = FALSE /\ orderly = TRUE

-----------------------------------------------------------------------------
(* What the handlers share *)

StepTraces(s)  == IF stepTrace[s] = 0 THEN {} ELSE {<<s, stepTrace[s]>>}
\* Slip: only the GOAL trace is ended.
GoalTraceOnly  == IF activeSession = None THEN {} ELSE {<<activeSession, 0>>}
SessionTraces  == IF activeSession = None THEN {}
                  ELSE {<<activeSession, 0>>} \cup StepTraces(activeSession)
ExploreTraces  == IF activeExplore = None THEN {} ELSE {<<activeExplore, 0>>}

\* Slip: abortActiveSession() does not take its listeners off.
DropSessionOnly == activeSession' = None /\ UNCHANGED listening

\* abortActiveSession(), but for the traces it ends: SessionTraces.
DropSession ==
  /\ activeSession' = None
  /\ listening' = listening \ {activeSession}

TraceAfterDrop == IF activeSession = None THEN activeTraceId ELSE NoTrace

\* VisionLoop.start(): a running loop keeps its goal.  The promise is the one of
\* the first HTTP request.
StartVision(c, whenRunning) ==
  IF running
    THEN /\ call' = [call EXCEPT ![c] = whenRunning]
         /\ UNCHANGED <<running, goal, motor>>
    ELSE /\ call' = [call EXCEPT ![c] = "connecting"]
         /\ running' = TRUE
         /\ goal' = <<c, 0>>
         /\ motor' = (DualLoop \/ motor)

\* VisionLoop.stop(): the request under way is destroyed.
StopVision ==
  /\ running' = FALSE
  /\ motor' = (motor /\ ~DualLoop)
  /\ call' = [c \in Calls |-> IF call[c] = "connecting" THEN "cut" ELSE call[c]]

-----------------------------------------------------------------------------
(* The tool calls *)

\* handleGoTo up to its first await, the description of the scene.
GoTo(c) ==
  /\ Atomic
  /\ call[c] = "idle"
  /\ call' = [call EXCEPT ![c] = "scene"]
  /\ halted' = FALSE /\ StillOrderly
  /\ UNCHANGED <<activeSession, activeExplore, sessions, open, vision, due>>

\* planGoal() opens the GOAL trace before it asks the model.
PlanGoal(c) ==
  /\ Atomic
  /\ call[c] = "scene"
  /\ call' = [call EXCEPT ![c] = "planning"]
  /\ open' = open \cup {<<c, 0>>}
  /\ UNCHANGED <<activeSession, activeExplore, sessions, vision, due, history>>

\* Slip: a go_to forgets the exploration without ending its trace.
StartOverExploration(c) ==
  /\ Atomic
  /\ call[c] = "planning"
  /\ \E n \in 1 .. MaxSteps : steps' = [steps EXCEPT ![c] = n]
  /\ DropSession
  /\ activeExplore' = None
  /\ open' = open \ SessionTraces
  /\ activeTraceId' = <<c, 0>>
  /\ StartVision(c, "seeding")
  /\ UNCHANGED <<stepIndex, retryCount, stepTrace, planned, plans, eye, seen,
                 reactiveGoal, due, history>>

\* The plan is there: what was going on is aborted, the loop started.
StartNavigation(c) ==
  /\ Atomic
  /\ call[c] = "planning"
  /\ \E n \in 1 .. MaxSteps : steps' = [steps EXCEPT ![c] = n]
  /\ DropSession
  /\ activeExplore' = None
  /\ open' = open \ (SessionTraces \cup ExploreTraces)
  /\ activeTraceId' = <<c, 0>>
  /\ StartVision(c, "seeding")
  /\ UNCHANGED <<stepIndex, retryCount, stepTrace, planned, plans, eye, seen,
                 reactiveGoal, due, history>>

\* The map is seeded and asked; only a confident hint sets the goal again.
Establish(c) ==
  /\ Atomic
  /\ c \in GoTos /\ call[c] = "seeding"
  /\ call' = [call EXCEPT ![c] = "done"]
  /\ goal' \in {goal, <<c, 0>>}
  /\ activeSession' = c
  /\ listening' = listening \cup {c}
  /\ UNCHANGED <<activeExplore, sessions, open, running, activeTraceId, eye, seen,
                 reactiveGoal, motor, due, history>>

Explore(c) ==
  /\ Atomic
  /\ call[c] = "idle"
  /\ DropSession
  /\ open' = (open \ (SessionTraces \cup ExploreTraces)) \cup {<<c, 0>>}
  /\ activeExplore' = c
  /\ activeTraceId' = <<c, 0>>
  /\ StartVision(c, "done")
  /\ halted' = FALSE /\ StillOrderly
  /\ UNCHANGED <<sessions, eye, seen, reactiveGoal, due>>

Connected(c) ==
  /\ Atomic
  /\ call[c] = "connecting"
  /\ call' = [call EXCEPT ![c] = IF c \in GoTos THEN "seeding" ELSE "done"]
  /\ UNCHANGED <<activeSession, activeExplore, sessions, open, vision, due, history>>

\* The request fails, times out or is answered by an error while the loop runs:
\* reconnecting makes a new promise, and nothing settles the one start() gave.
ConnectFails(c) ==
  /\ Atomic
  /\ call[c] = "connecting"
  /\ call' = [call EXCEPT ![c] = "hung"]
  /\ UNCHANGED <<activeSession, activeExplore, sessions, open, vision, due, history>>

\* The error of a request that stop() destroyed rejects the promise, unless the
\* loop runs again by then.
CutReported(c) ==
  /\ Atomic
  /\ call[c] = "cut"
  /\ IF running
       THEN /\ call' = [call EXCEPT ![c] = "hung"]
            /\ UNCHANGED <<open, activeExplore>>
       ELSE /\ call' = [call EXCEPT ![c] = "done"]
            /\ IF c \in GoTos
                 THEN open' = open \ {<<c, 0>>} /\ UNCHANGED activeExplore
                 ELSE open' = open \ ExploreTraces /\ activeExplore' = None
  /\ UNCHANGED <<activeSession, sessions, vision, due, history>>

\* Slip: robot.stop sends its STOP frame and leaves the loop running.
StopFrameOnly ==
  /\ Atomic
  /\ DropSession
  /\ activeExplore' = None
  /\ open' = open \ (SessionTraces \cup ExploreTraces)
  /\ activeTraceId' = TraceAfterDrop
  /\ halted' = TRUE /\ StillOrderly
  /\ UNCHANGED <<call, sessions, running, motor, goal, eye, seen, reactiveGoal, due>>

\* handleStop(), and the STOP frame it sends.
StopTool ==
  /\ Atomic
  /\ DropSession
  /\ activeExplore' = None
  /\ open' = open \ (SessionTraces \cup ExploreTraces)
  /\ activeTraceId' = TraceAfterDrop
  /\ running' = FALSE /\ motor' = FALSE
  /\ call' = [c \in Calls |-> IF call[c] = "connecting" THEN "cut" ELSE call[c]]
  /\ halted' = TRUE /\ StillOrderly
  /\ UNCHANGED <<sessions, goal, eye, seen, reactiveGoal, due>>

-----------------------------------------------------------------------------
(* The session *)

NewPlan(s, step, what) ==
  /\ planned' = [planned EXCEPT ![s] = @ + 1]
  /\ plans' = plans \cup {[s |-> s, n |-> planned[s] + 1, step |-> step,
                           what |-> what, at |-> "scene"]}

\* Slip: the last step is taken for the one before it.
AdvanceOnceMore(s) ==
  /\ stepTrace' = [stepTrace EXCEPT ![s] = 0]
  /\ stepIndex' = [stepIndex EXCEPT ![s] = @ + 1]
  /\ open' = open \ StepTraces(s)
  /\ retryCount' = [retryCount EXCEPT ![s] = 0]
  /\ NewPlan(s, stepIndex[s] + 1, "advance")
  /\ UNCHANGED <<activeSession, listening, running, motor, call, activeTraceId>>

\* Slip: the id of the step trace that was ended is kept.
AdvanceKeepingTrace(s) ==
  /\ stepIndex' = [stepIndex EXCEPT ![s] = @ + 1]
  /\ IF stepIndex[s] + 1 >= steps[s]
       THEN /\ open' = open \ SessionTraces
            /\ DropSession
            /\ StopVision
            /\ activeTraceId' = NoTrace
            /\ UNCHANGED <<retryCount, planned, plans>>
       ELSE /\ open' = open \ StepTraces(s)
            /\ retryCount' = [retryCount EXCEPT ![s] = 0]
            /\ NewPlan(s, stepIndex[s] + 1, "advance")
            /\ UNCHANGED <<activeSession, listening, running, motor, call,
                           activeTraceId>>
  /\ UNCHANGED stepTrace

\* advanceToNextStep up to its first await.
Advance(s) ==
  /\ stepTrace' = [stepTrace EXCEPT ![s] = 0]
  /\ stepIndex' = [stepIndex EXCEPT ![s] = @ + 1]
  /\ IF stepIndex[s] + 1 >= steps[s]
       THEN /\ open' = open \ SessionTraces
            /\ DropSession
            /\ StopVision
            /\ activeTraceId' = NoTrace
            /\ UNCHANGED <<retryCount, planned, plans>>
       ELSE /\ open' = open \ StepTraces(s)
            /\ retryCount' = [retryCount EXCEPT ![s] = 0]
            /\ NewPlan(s, stepIndex[s] + 1, "advance")
            /\ UNCHANGED <<activeSession, listening, running, motor, call,
                           activeTraceId>>

\* Slip: a session without retries left is not given up.
RetryOrStay(s) ==
  /\ IF retryCount[s] >= MAX_RETRIES
       THEN UNCHANGED <<open, activeSession, listening, activeTraceId, retryCount,
                        planned, plans>>
       ELSE /\ open' = open \ StepTraces(s)
            /\ retryCount' = [retryCount EXCEPT ![s] = @ + 1]
            /\ NewPlan(s, stepIndex[s], "retry")
            /\ UNCHANGED <<activeSession, listening, activeTraceId>>
  /\ UNCHANGED <<stepTrace, stepIndex, running, motor, call>>

\* handleStepRetry up to its first await.
Retry(s) ==
  /\ IF retryCount[s] >= MAX_RETRIES
       THEN /\ open' = open \ SessionTraces
            /\ DropSession
            /\ activeTraceId' = NoTrace
            /\ UNCHANGED <<retryCount, planned, plans>>
       ELSE /\ open' = open \ StepTraces(s)
            /\ retryCount' = [retryCount EXCEPT ![s] = @ + 1]
            /\ NewPlan(s, stepIndex[s], "retry")
            /\ UNCHANGED <<activeSession, listening, activeTraceId>>
  /\ UNCHANGED <<stepTrace, stepIndex, running, motor, call>>

\* One registered listener is called; whosever it is, it works on the active
\* session.
Notify ==
  /\ ~Atomic
  /\ due' = IF due.left = 1 THEN NoEvent ELSE [due EXCEPT !.left = @ - 1]
  /\ IF activeSession = None
       THEN UNCHANGED <<call, activeSession, sessions, open, running, activeTraceId,
                        listening, motor>>
       ELSE /\ IF due.what = "arrival" THEN Advance(activeSession)
                                       ELSE Retry(activeSession)
            /\ UNCHANGED steps
  /\ UNCHANGED <<activeExplore, goal, eye, seen, reactiveGoal, history>>

\* planStrategicStep() opens the trace of the step before it asks the model.
PlanStep(p) ==
  /\ Atomic
  /\ p.at = "scene"
  /\ plans' = (plans \ {p}) \cup {[p EXCEPT !.at = "plan"]}
  /\ open' = open \cup {<<p.s, p.n>>}
  /\ UNCHANGED <<call, activeSession, activeExplore, steps, stepIndex, retryCount,
                 stepTrace, planned, vision, due, history>>

\* The rest of a retry; it leaves VisionLoop's trace id alone.
FinishRetry(p) ==
  /\ Atomic
  /\ p.at = "plan" /\ p.what = "retry"
  /\ plans' = plans \ {p}
  /\ stepTrace' = [stepTrace EXCEPT ![p.s] = p.n]
  /\ goal' = <<p.s, p.step>>
  /\ UNCHANGED <<call, activeSession, activeExplore, steps, stepIndex, retryCount,
                 planned, open, running, activeTraceId, listening, eye, seen,
                 reactiveGoal, motor, due, history>>

\* A plan whose constraints are no strings: the active session is aborted.
RetryFails(p) ==
  /\ Atomic
  /\ p.at = "plan" /\ p.what = "retry"
  /\ plans' = plans \ {p}
  /\ stepTrace' = [stepTrace EXCEPT ![p.s] = p.n]
  /\ open' = open \ IF p.s = activeSession THEN {<<p.s, 0>>, <<p.s, p.n>>}
                                           ELSE SessionTraces
  /\ DropSession
  /\ activeTraceId' = TraceAfterDrop
  /\ UNCHANGED <<call, activeExplore, steps, stepIndex, retryCount, planned,
                 running, goal, eye, seen, reactiveGoal, motor, due, history>>

\* An advance notes the trace, asks the map, and sets goal and trace.
NoteStep(p) ==
  /\ Atomic
  /\ p.at = "plan" /\ p.what = "advance"
  /\ plans' = (plans \ {p}) \cup {[p EXCEPT !.at = "topo"]}
  /\ stepTrace' = [stepTrace EXCEPT ![p.s] = p.n]
  /\ UNCHANGED <<call, activeSession, activeExplore, steps, stepIndex, retryCount,
                 planned, open, vision, due, history>>

FinishAdvance(p) ==
  /\ Atomic
  /\ p.at = "topo"
  /\ plans' = plans \ {p}
  /\ goal' = <<p.s, p.step>>
  /\ activeTraceId' = IF stepTrace[p.s] = 0 THEN activeTraceId
                                            ELSE <<p.s, stepTrace[p.s]>>
  /\ UNCHANGED <<call, activeSession, activeExplore, steps, stepIndex, retryCount,
                 stepTrace, planned, open, running, listening, eye, seen,
                 reactiveGoal, motor, due, history>>

-----------------------------------------------------------------------------
(* The VisionLoop *)

Emit(what, g, times) ==
  /\ due' = IF listening = {} THEN NoEvent
            ELSE [what |-> what, goal |-> g, left |-> times * Cardinality(listening)]
  /\ StillOrderly

tools == <<call, activeSession, activeExplore, sessions, open, halted>>

\* A frame arrives: the SemanticLoop asks about it, or processFrame() stops the
\* robot and settles first.
TakeFrame ==
  /\ Atomic
  /\ running /\ eye = "idle"
  /\ IF DualLoop THEN eye' = "asking" /\ UNCHANGED motor
                 ELSE eye' = "settling" /\ motor' = FALSE
  /\ UNCHANGED <<tools, running, goal, activeTraceId, listening, seen, reactiveGoal,
                 due, orderly>>

Ask ==
  /\ Atomic
  /\ eye = "settling"
  /\ eye' = "asking" /\ seen' = goal
  /\ UNCHANGED <<tools, running, goal, activeTraceId, listening, reactiveGoal,
                 motor, due, orderly>>

\* Legacy: the answer is a motion, a STOP (an arrival) or useless, and the motion
\* may fill the window of stuck opcodes, outlast the step timer, or both.
Answer(outcome) ==
  /\ ~DualLoop /\ Atomic
  /\ eye = "asking"
  /\ eye' = "idle"
  /\ motor' = (outcome \notin {"useless", "arrival"})
  /\ CASE outcome = "arrival" -> Emit("arrival", seen, 1)
       [] outcome = "stuck"   -> Emit("trouble", seen, 1)
       [] outcome = "timeout" -> Emit("trouble", seen, 1)
       [] outcome = "both"    -> Emit("trouble", seen, 2)
       [] OTHER               -> UNCHANGED <<due, orderly>>
  /\ seen' = NoGoal
  /\ UNCHANGED <<tools, running, goal, activeTraceId, listening, reactiveGoal>>

\* Dual: the answer names the goal's object, and the goal is the one at that
\* moment, or it does not.
Perceive ==
  /\ DualLoop /\ Atomic
  /\ eye = "asking"
  /\ eye' = "idle"
  /\ reactiveGoal' \in {reactiveGoal} \cup (IF goal[1] \in GoTos THEN {goal} ELSE {})
  /\ UNCHANGED <<tools, running, goal, activeTraceId, listening, seen, motor, due,
                 orderly>>

\* Dual: a tick of the ReactiveLoop at its goal, and one without progress.
ReactiveArrived ==
  /\ DualLoop /\ Atomic
  /\ motor /\ reactiveGoal # NoGoal
  /\ motor' = FALSE
  /\ Emit("arrival", reactiveGoal, 1)
  /\ UNCHANGED <<tools, running, goal, activeTraceId, listening, eye, seen,
                 reactiveGoal>>

ReactiveStuck ==
  /\ DualLoop /\ Atomic
  /\ motor /\ reactiveGoal # NoGoal
  /\ Emit("trouble", reactiveGoal, 1)
  /\ UNCHANGED <<tools, vision>>

Outcomes == {"useless", "motion", "arrival", "stuck", "timeout", "both"}

ToolStep ==
  \/ \E c \in GoTos : GoTo(c) \/ PlanGoal(c) \/ StartNavigation(c) \/ Establish(c)
  \/ \E c \in Explores : Explore(c)
  \/ \E c \in Calls : Connected(c) \/ ConnectFails(c) \/ CutReported(c)
  \/ StopTool
SessionStep ==
  \/ Notify
  \/ \E p \in plans : \/ PlanStep(p) \/ FinishRetry(p) \/ RetryFails(p)
                      \/ NoteStep(p) \/ FinishAdvance(p)
VisionStep ==
  \/ TakeFrame \/ Ask
  \/ \E outcome \in Outcomes : Answer(outcome)
  \/ Perceive \/ ReactiveArrived \/ ReactiveStuck

Next == ToolStep \/ SessionStep \/ VisionStep

Spec == Init /\ [][Next]_vars

\* Every await settles, the loops keep looking, and a step that neither arrives
\* nor gets stuck runs into its timer, which processFrame() alone reads.
Fairness ==
  /\ WF_vars(SessionStep)
  /\ WF_vars(\E c \in GoTos : PlanGoal(c) \/ StartNavigation(c) \/ Establish(c))
  /\ \A c \in Calls : WF_vars(Connected(c) \/ ConnectFails(c) \/ CutReported(c))
  /\ WF_vars(TakeFrame) /\ WF_vars(Ask) /\ WF_vars(Perceive)
  /\ WF_vars(\E outcome \in Outcomes : Answer(outcome))
  /\ SF_vars(\E outcome \in {"arrival", "timeout", "both"} : Answer(outcome))

FairSpec == Spec /\ Fairness

-----------------------------------------------------------------------------
(* PROPERTIES *)

\* An active session is whole, however the calls and events interleave: its
\* GOAL trace is open, its listeners are registered, and its step exists.
SessionIsWhole ==
  \A s \in GoTos : activeSession = s =>
    /\ <<s, 0>> \in open
    /\ s \in listening
    /\ stepIndex[s] < steps[s]
    /\ call[s] = "done"

\* The step trace a session points to is open, or a retry is under way that
\* will replace it.
StepTraceTracked ==
  \A s \in GoTos : activeSession = s /\ stepTrace[s] # 0 =>
    \/ <<s, stepTrace[s]>> \in open
    \/ \E p \in plans : p.s = s /\ p.what = "retry"

\* No exploration trace is forgotten: only the active one is open.
OneExploration ==
  \A e \in Explores : <<e, 0>> \in open <=> activeExplore = e

\* As long as one thing is done at a time, nobody listens for a session that is
\* over, and no GOAL trace is open without a session or a call that will end it.
Attended ==
  orderly =>
    /\ listening \subseteq {activeSession}
    /\ \A s \in GoTos : <<s, 0>> \in open => activeSession = s \/ InFlight(s)

\* As long as one thing is done at a time, aborting a session, replacing it or
\* ending it leaves none of its traces open.
AbortClosesTraces ==
  orderly =>
    \A s \in GoTos, n \in 0 .. MaxPlans :
      call[s] = "done" /\ activeSession # s => <<s, n>> \notin open

\* After a robot.stop that interrupted nothing, and until the next navigation,
\* neither loop runs.
StopHolds == DualLoop /\ orderly /\ halted => ~running /\ ~motor

\* A session whose loop runs under processFrame() ends: with its last step, its
\* last retry, or a call that replaces it.
SessionEnds ==
  \A s \in GoTos : activeSession = s /\ running ~> activeSession # s

\* "Immediately stop all motor movement": after robot.stop and until the next
\* navigation is asked for, the loop does not run.
StopIsFinal == halted => ~running

\* "Just update for the next frame": a session whose step is planned has a
\* ReactiveLoop that runs.
SessionMoves ==
  DualLoop /\ orderly /\ activeSession # None /\ ~NowPlanning /\ Atomic => motor
=============================================================================
