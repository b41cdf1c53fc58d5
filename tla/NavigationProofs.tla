--------------------------- MODULE NavigationProofs ---------------------------
(****************************************************************************)
(* Proofs about Navigation, for any number of tool calls, of steps and of   *)
(* retries, and with either loop.                                           *)
(****************************************************************************)
EXTENDS Navigation, FiniteSetTheorems, TLAPS

\* As much of TypeOK as the proofs need; it does without the bounds.
AnyPlan == [s : GoTos, n : Nat, step : Nat, what : {"advance", "retry"},
            at : {"scene", "plan", "topo"}]
NavShape ==
  /\ call \in [Calls -> {"idle", "scene", "planning", "connecting", "cut", "hung", "seeding", "done"}]
  /\ activeSession \in GoTos \cup {None}
  /\ activeExplore \in Explores \cup {None}
  /\ steps \in [GoTos -> Nat] /\ stepIndex \in [GoTos -> Nat]
  /\ stepTrace \in [GoTos -> Nat] /\ planned \in [GoTos -> Nat]
  /\ plans \subseteq AnyPlan

\* What a go_to will install as the active session is whole already.
Underway ==
  \A c \in GoTos :
    /\ call[c] # "done" => stepIndex[c] = 0
    /\ call[c] \in {"planning", "connecting", "seeding"} => <<c, 0>> \in open
    /\ call[c] \in {"connecting", "seeding"} => steps[c] > 0

\* The inductive invariant of the sessions.
NavInv == NavShape /\ Underway /\ SessionIsWhole /\ OneExploration

LEMMA NavStarts == Init => NavInv
<1> SUFFICES ASSUME Init PROVE NavInv
  OBVIOUS
<1> USE DEF Init
<1>1. NavShape
  BY DEF NavShape
<1>2. Underway /\ SessionIsWhole /\ OneExploration
  BY CallsAssumption DEF Underway, SessionIsWhole, OneExploration, Calls
<1> QED
  BY <1>1, <1>2 DEF NavInv

\* Ending the active session or exploration spares the GOAL trace of every go_to
\* that is under way.
LEMMA Spared ==
  ASSUME NavInv, NEW c \in GoTos, call[c] # "done"
  PROVE  <<c, 0>> \notin SessionTraces /\ <<c, 0>> \notin ExploreTraces
<1>1. activeSession # c
  BY DEF NavInv, SessionIsWhole
<1>2. activeExplore # c
  BY CallsAssumption DEF NavInv, NavShape, Calls
<1> QED
  BY <1>1, <1>2 DEF SessionTraces, ExploreTraces, StepTraces

\* Neither does ending a session touch a GOAL trace of an exploration.
LEMMA ExploresSpared ==
  ASSUME NavInv, NEW e \in Explores
  PROVE  /\ <<e, 0>> \notin SessionTraces
         /\ <<e, 0>> \in ExploreTraces <=> activeExplore = e
<1>1. activeSession # e /\ e # None
  BY CallsAssumption DEF NavInv, NavShape, Calls
<1> QED
  BY <1>1 DEF SessionTraces, ExploreTraces, StepTraces

\* Steps that leave sessions, calls and open traces alone.
LEMMA StepElsewhere ==
  ASSUME NavInv,
         UNCHANGED <<call, activeSession, activeExplore, steps, stepIndex, open, listening>>,
         stepTrace' \in [GoTos -> Nat], planned' \in [GoTos -> Nat], plans' \subseteq AnyPlan
  PROVE  NavInv'
BY DEF NavInv, NavShape, Underway, SessionIsWhole, OneExploration

\* The active session is over and no other takes its place; what is ended with it
\* is no GOAL trace of an exploration or of a go_to under way.
LEMMA StepEnds ==
  ASSUME NavInv, activeSession' = None,
         NEW gone, open' = open \ gone,
         \A c \in GoTos : call[c] # "done" => <<c, 0>> \notin gone,
         \A e \in Explores : <<e, 0>> \notin gone,
         call' = [c \in Calls |-> IF call[c] = "connecting" THEN "cut" ELSE call[c]]
           \/ UNCHANGED call,
         UNCHANGED <<activeExplore, steps>>, NavShape',
         \A c \in GoTos : call[c] # "done" => stepIndex'[c] = stepIndex[c]
  PROVE  NavInv'
<1>1. \A c \in Calls : call'[c] = call[c] \/ (call[c] = "connecting" /\ call'[c] = "cut")
  BY DEF NavInv, NavShape
<1>2. Underway'
  BY <1>1 DEF NavInv, Underway, Calls
<1>3. SessionIsWhole'
  BY CallsAssumption DEF SessionIsWhole, Calls
<1>4. OneExploration'
  BY DEF NavInv, OneExploration
<1> QED
  BY <1>2, <1>3, <1>4 DEF NavInv

-----------------------------------------------------------------------------
(* The tool calls *)

LEMMA StepGoTo == NavInv /\ (\E c \in GoTos : GoTo(c) \/ PlanGoal(c)) => NavInv'
<1> SUFFICES ASSUME NavInv, NEW c \in GoTos, GoTo(c) \/ PlanGoal(c) PROVE NavInv'
  OBVIOUS
<1> USE DEF NavInv
<1>1. c \in Calls /\ c \notin Explores
  BY CallsAssumption DEF Calls
<1>2. NavShape' /\ UNCHANGED <<activeSession, activeExplore, steps, stepIndex, listening>>
  BY <1>1 DEF GoTo, PlanGoal, NavShape, sessions, vision
<1>3. /\ call[c] # "done" /\ call'[c] \in {"scene", "planning"} /\ call'[c] # "done"
      /\ \A d \in Calls : d # c => call'[d] = call[d]
  BY <1>1 DEF GoTo, PlanGoal, NavShape
<1>4. /\ call'[c] = "planning" => <<c, 0>> \in open'
      /\ open' = open \/ open' = open \cup {<<c, 0>>}
  BY <1>1 DEF GoTo, PlanGoal, NavShape
<1>5. Underway'
  BY <1>2, <1>3, <1>4 DEF Underway, Calls
<1>6. SessionIsWhole'
  BY <1>2, <1>3, <1>4 DEF SessionIsWhole, Calls
<1>7. OneExploration'
  <2>1. \A e \in Explores : <<e, 0>> \in open' <=> <<e, 0>> \in open
    BY <1>1, <1>4
  <2> QED
    BY <1>2, <2>1 DEF OneExploration
<1> QED
  BY <1>2, <1>5, <1>6, <1>7

LEMMA StepStartNavigation == NavInv /\ (\E c \in GoTos : StartNavigation(c)) => NavInv'
<1> SUFFICES ASSUME NavInv, NEW c \in GoTos, StartNavigation(c) PROVE NavInv'
  OBVIOUS
<1> USE DEF NavInv
<1>1. c \in Calls /\ call[c] = "planning"
  BY DEF Calls, StartNavigation
<1>2. PICK n \in 1 .. MaxSteps : steps' = [steps EXCEPT ![c] = n]
  BY DEF StartNavigation
<1>3. /\ call'[c] \in {"connecting", "seeding"}
      /\ \A d \in Calls : d # c => call'[d] = call[d]
      /\ call' \in [Calls -> {"idle", "scene", "planning", "connecting", "cut", "hung", "seeding", "done"}]
  BY <1>1 DEF StartNavigation, StartVision, NavShape
<1>4. activeSession' = None /\ activeExplore' = None /\ open' = open \ (SessionTraces \cup ExploreTraces)
  BY DEF StartNavigation, DropSession
<1>5. NavShape'
  <2>1. n \in Nat
    BY <1>2, BoundsAssumption
  <2> QED
    BY <1>2, <1>3, <1>4, <2>1 DEF StartNavigation, NavShape
<1>6. Underway'
  <2>1. steps'[c] > 0 /\ (\A d \in GoTos : d # c => steps'[d] = steps[d])
    BY <1>2, BoundsAssumption DEF NavShape
  <2>2. \A d \in GoTos : call[d] # "done" /\ <<d, 0>> \in open => <<d, 0>> \in open'
    BY <1>4, Spared
  <2>3. UNCHANGED stepIndex
    BY DEF StartNavigation
  <2> QED
    BY <1>1, <1>3, <2>1, <2>2, <2>3 DEF Underway, Calls
<1>7. SessionIsWhole'
  BY <1>4, CallsAssumption DEF SessionIsWhole, Calls
<1>8. OneExploration'
  BY <1>4, ExploresSpared, CallsAssumption DEF OneExploration, Calls
<1> QED
  BY <1>5, <1>6, <1>7, <1>8

LEMMA StepEstablish == NavInv /\ (\E c \in GoTos : Establish(c)) => NavInv'
<1> SUFFICES ASSUME NavInv, NEW c \in GoTos, Establish(c) PROVE NavInv'
  OBVIOUS
<1> USE DEF NavInv
<1>1. c \in Calls /\ call[c] = "seeding"
  BY DEF Calls, Establish
<1>2. /\ call'[c] = "done" /\ \A d \in Calls : d # c => call'[d] = call[d]
      /\ UNCHANGED <<activeExplore, steps, stepIndex, stepTrace, planned, plans, open>>
      /\ activeSession' = c /\ c \in listening'
  BY <1>1 DEF Establish, NavShape, sessions
<1>3. NavShape'
  BY <1>1, <1>2 DEF Establish, NavShape
<1>4. Underway' /\ OneExploration'
  BY <1>2 DEF Underway, OneExploration, Calls
<1>5. SessionIsWhole'
  BY <1>1, <1>2 DEF Underway, SessionIsWhole, NavShape
<1> QED
  BY <1>3, <1>4, <1>5

LEMMA StepExplore == NavInv /\ (\E c \in Explores : Explore(c)) => NavInv'
<1> SUFFICES ASSUME NavInv, NEW c \in Explores, Explore(c) PROVE NavInv'
  OBVIOUS
<1> USE DEF NavInv
<1>1. c \in Calls /\ c \notin GoTos
  BY CallsAssumption DEF Calls
<1>2. /\ \A d \in Calls : d # c => call'[d] = call[d]
      /\ call' \in [Calls -> {"idle", "scene", "planning", "connecting", "cut", "hung", "seeding", "done"}]
  BY <1>1 DEF Explore, StartVision, NavShape
<1>3. /\ activeSession' = None /\ activeExplore' = c
      /\ open' = (open \ (SessionTraces \cup ExploreTraces)) \cup {<<c, 0>>}
      /\ UNCHANGED <<steps, stepIndex, stepTrace, planned, plans>>
  BY DEF Explore, DropSession, sessions
<1>4. NavShape'
  BY <1>2, <1>3 DEF NavShape
<1>5. Underway'
  BY <1>1, <1>2, <1>3, Spared DEF Underway, Calls
<1>6. SessionIsWhole'
  BY <1>3, CallsAssumption DEF SessionIsWhole, Calls
<1>7. OneExploration'
  BY <1>3, ExploresSpared DEF OneExploration
<1> QED
  BY <1>4, <1>5, <1>6, <1>7

LEMMA StepConnection ==
  NavInv /\ (\E c \in Calls : Connected(c) \/ ConnectFails(c) \/ CutReported(c)) => NavInv'
<1> SUFFICES ASSUME NavInv, NEW c \in Calls, Connected(c) \/ ConnectFails(c) \/ CutReported(c)
             PROVE  NavInv'
  OBVIOUS
<1> USE DEF NavInv
<1>1. UNCHANGED <<activeSession, steps, stepIndex, stepTrace, planned, plans, listening>>
  BY DEF Connected, ConnectFails, CutReported, sessions, vision
<1>2. /\ call[c] \in {"connecting", "cut"}
      /\ \A d \in Calls : d # c => call'[d] = call[d]
      /\ call'[c] \in {"seeding", "hung", "done"}
      /\ call'[c] = "seeding" => call[c] = "connecting" /\ open' = open
      /\ call' \in [Calls -> {"idle", "scene", "planning", "connecting", "cut", "hung", "seeding", "done"}]
  BY DEF Connected, ConnectFails, CutReported, NavShape
<1>3. \/ UNCHANGED <<open, activeExplore>>
      \/ c \in GoTos /\ open' = open \ {<<c, 0>>} /\ UNCHANGED activeExplore
      \/ c \in Explores /\ open' = open \ ExploreTraces /\ activeExplore' = None
  BY DEF Connected, ConnectFails, CutReported, Calls
<1>4. NavShape'
  BY <1>1, <1>2, <1>3 DEF NavShape
<1>5. \A d \in GoTos : d # c /\ <<d, 0>> \in open => <<d, 0>> \in open'
  <2>1. \A d \in GoTos : <<d, 0>> \notin ExploreTraces
    BY CallsAssumption DEF ExploreTraces, NavShape, Calls
  <2> QED
    BY <1>3, <2>1
<1>6. Underway'
  BY <1>1, <1>2, <1>5 DEF Underway, Calls
<1>7. SessionIsWhole'
  BY <1>1, <1>2, <1>5 DEF SessionIsWhole, Calls
<1>8. OneExploration'
  BY <1>3, ExploresSpared, CallsAssumption DEF OneExploration, Calls
<1> QED
  BY <1>4, <1>6, <1>7, <1>8

LEMMA StepStopTool == NavInv /\ StopTool => NavInv'
<1> SUFFICES ASSUME NavInv, StopTool PROVE NavInv'
  OBVIOUS
<1> USE DEF NavInv
<1>1. /\ activeSession' = None /\ activeExplore' = None
      /\ open' = open \ (SessionTraces \cup ExploreTraces)
      /\ UNCHANGED <<steps, stepIndex, stepTrace, planned, plans>>
  BY DEF StopTool, DropSession, sessions
<1>2. \A c \in Calls : call'[c] = call[c] \/ (call[c] = "connecting" /\ call'[c] = "cut")
  BY DEF StopTool, NavShape
<1>3. NavShape'
  BY <1>1 DEF StopTool, NavShape
<1>4. Underway'
  BY <1>1, <1>2, Spared DEF Underway, Calls
<1>5. SessionIsWhole' /\ OneExploration'
  BY <1>1, ExploresSpared, CallsAssumption DEF SessionIsWhole, OneExploration, Calls
<1> QED
  BY <1>3, <1>4, <1>5

-----------------------------------------------------------------------------
(* The session *)

\* A listener that ends the session, or begins another step of it.
LEMMA StepNotify == NavInv /\ Notify => NavInv'
<1> SUFFICES ASSUME NavInv, Notify PROVE NavInv'
  OBVIOUS
<1> USE DEF NavInv
<1>1. CASE activeSession = None
  BY <1>1, StepElsewhere DEF Notify, sessions, NavShape
<1>2. CASE activeSession # None
  <2> DEFINE s == activeSession
  <2>1. s \in GoTos /\ s \in Calls /\ call[s] = "done"
    BY <1>2 DEF NavShape, SessionIsWhole, Calls
  <2>2. UNCHANGED <<activeExplore, steps>> /\ (Advance(s) \/ Retry(s))
    BY <1>2 DEF Notify
  <2>3. ASSUME activeSession' = None, open' = open \ SessionTraces,
               UNCHANGED <<planned, plans>>,
               call' = [c \in Calls |-> IF call[c] = "connecting" THEN "cut" ELSE call[c]]
                 \/ UNCHANGED call,
               stepIndex' = [stepIndex EXCEPT ![s] = @ + 1] \/ UNCHANGED stepIndex,
               stepTrace' = [stepTrace EXCEPT ![s] = 0] \/ UNCHANGED stepTrace
        PROVE  NavInv'
    <3>1. NavShape'
      <4>1. call' \in [Calls -> {"idle", "scene", "planning", "connecting", "cut", "hung", "seeding", "done"}]
        BY <2>3 DEF NavShape
      <4>2. stepIndex' \in [GoTos -> Nat] /\ stepTrace' \in [GoTos -> Nat]
        BY <2>1, <2>3 DEF NavShape
      <4> QED
        BY <2>2, <2>3, <4>1, <4>2 DEF NavShape
    <3>2. \A c \in GoTos : call[c] # "done" => stepIndex'[c] = stepIndex[c]
      BY <2>1, <2>3 DEF NavShape
    <3> QED
      BY <2>2, <2>3, <3>1, <3>2, Spared, ExploresSpared, StepEnds
  <2>4. ASSUME UNCHANGED <<activeSession, listening, call>>,
               open' = open \ StepTraces(s),
               NEW what \in {"advance", "retry"}, NEW step \in Nat,
               NewPlan(s, step, what),
               \/ stepIndex' = [stepIndex EXCEPT ![s] = @ + 1] /\ stepIndex[s] + 1 < steps[s]
               \/ UNCHANGED stepIndex,
               stepTrace' = [stepTrace EXCEPT ![s] = 0] \/ UNCHANGED stepTrace
        PROVE  NavInv'
    <3>1. planned' \in [GoTos -> Nat] /\ plans' \subseteq AnyPlan
      BY <2>1, <2>4 DEF NewPlan, NavShape, AnyPlan
    <3>2. stepIndex' \in [GoTos -> Nat] /\ stepTrace' \in [GoTos -> Nat]
      BY <2>1, <2>4 DEF NavShape
    <3>3. NavShape'
      BY <2>2, <2>4, <3>1, <3>2 DEF NavShape
    <3>4. \A c \in Calls : <<c, 0>> \notin StepTraces(s)
      BY <2>1 DEF StepTraces
    <3>5. \A c \in GoTos : c # s => stepIndex'[c] = stepIndex[c]
      BY <2>1, <2>4 DEF NavShape
    <3>6. stepIndex'[s] < steps[s]
      BY <2>1, <2>4 DEF NavShape, SessionIsWhole
    <3>7. Underway'
      BY <2>1, <2>2, <2>4, <3>4, <3>5 DEF Underway, Calls
    <3>8. SessionIsWhole'
      BY <2>1, <2>2, <2>4, <3>4, <3>6 DEF SessionIsWhole
    <3>9. OneExploration'
      BY <2>2, <2>4, <3>4 DEF OneExploration, Calls
    <3> QED
      BY <3>3, <3>7, <3>8, <3>9
  <2>5. stepIndex[s] \in Nat /\ stepIndex[s] + 1 \in Nat /\ steps[s] \in Nat
    BY <2>1 DEF NavShape
  <2>6. CASE Advance(s)
    <3>1. CASE stepIndex[s] + 1 >= steps[s]
      BY <2>3, <2>6, <3>1 DEF Advance, DropSession, StopVision
    <3>2. CASE ~(stepIndex[s] + 1 >= steps[s])
      <4>1. stepIndex[s] + 1 < steps[s]
        BY <2>5, <3>2
      <4> QED
        BY <2>4, <2>5, <2>6, <3>2, <4>1 DEF Advance
    <3> QED
      BY <3>1, <3>2
  <2>7. CASE Retry(s)
    <3>1. CASE retryCount[s] >= MAX_RETRIES
      BY <2>3, <2>7, <3>1 DEF Retry, DropSession
    <3>2. CASE ~(retryCount[s] >= MAX_RETRIES)
      BY <2>4, <2>5, <2>7, <3>2 DEF Retry
    <3> QED
      BY <3>1, <3>2
  <2> QED
    BY <2>2, <2>6, <2>7
<1> QED
  BY <1>1, <1>2

\* The planning of a step: it opens the trace of the step and, when it is over,
\* writes to its session, active or not.
LEMMA StepPlanning ==
  NavInv /\ (\E p \in plans : PlanStep(p) \/ FinishRetry(p) \/ NoteStep(p) \/ FinishAdvance(p))
    => NavInv'
<1> SUFFICES ASSUME NavInv, NEW p \in plans,
                    PlanStep(p) \/ FinishRetry(p) \/ NoteStep(p) \/ FinishAdvance(p)
             PROVE  NavInv'
  OBVIOUS
<1> USE DEF NavInv
<1>1. p \in AnyPlan /\ p.s \in GoTos /\ p.n \in Nat
  BY DEF NavShape, AnyPlan
<1>2. [p EXCEPT !.at = "plan"] \in AnyPlan /\ [p EXCEPT !.at = "topo"] \in AnyPlan
  BY <1>1 DEF AnyPlan
<1>3. plans' \subseteq AnyPlan
  BY <1>1, <1>2 DEF PlanStep, FinishRetry, NoteStep, FinishAdvance, NavShape
<1>4. stepTrace' \in [GoTos -> Nat]
  BY <1>1 DEF PlanStep, FinishRetry, NoteStep, FinishAdvance, NavShape
<1>5. UNCHANGED <<call, activeSession, activeExplore, steps, stepIndex, planned, listening>>
  BY DEF PlanStep, FinishRetry, NoteStep, FinishAdvance, vision
<1>6. CASE PlanStep(p)
  <2>1. open' = open \cup {<<p.s, p.n>>}
    BY <1>6 DEF PlanStep
  <2>2. \A e \in Explores : <<e, 0>> \in open' <=> <<e, 0>> \in open
    BY <1>1, <2>1, CallsAssumption
  <2>3. NavShape'
    BY <1>3, <1>4, <1>5 DEF NavShape
  <2>4. Underway' /\ SessionIsWhole'
    BY <1>5, <2>1 DEF Underway, SessionIsWhole
  <2>5. OneExploration'
    BY <1>5, <2>2 DEF OneExploration
  <2> QED
    BY <2>3, <2>4, <2>5
<1>7. CASE ~PlanStep(p)
  <2>1. UNCHANGED open
    BY <1>7 DEF FinishRetry, NoteStep, FinishAdvance
  <2>2. planned' \in [GoTos -> Nat]
    BY <1>5 DEF NavShape
  <2> QED
    BY <1>3, <1>4, <1>5, <2>1, <2>2, StepElsewhere
<1> QED
  BY <1>6, <1>7

LEMMA StepRetryFails == NavInv /\ (\E p \in plans : RetryFails(p)) => NavInv'
<1> SUFFICES ASSUME NavInv, NEW p \in plans, RetryFails(p) PROVE NavInv'
  OBVIOUS
<1> USE DEF NavInv
<1>1. p.s \in GoTos /\ p.n \in Nat /\ plans' \subseteq AnyPlan
  BY DEF NavShape, AnyPlan, RetryFails
<1> DEFINE gone == IF p.s = activeSession THEN {<<p.s, 0>>, <<p.s, p.n>>} ELSE SessionTraces
<1>2. /\ activeSession' = None /\ open' = open \ gone
      /\ UNCHANGED <<call, activeExplore, steps, stepIndex, planned>>
      /\ stepTrace' = [stepTrace EXCEPT ![p.s] = p.n]
  BY DEF RetryFails, DropSession
<1>3. \A c \in GoTos : call[c] # "done" => <<c, 0>> \notin gone
  <2>1. CASE p.s = activeSession
    BY <1>1, <2>1 DEF SessionIsWhole
  <2>2. CASE p.s # activeSession
    BY <2>2, Spared
  <2> QED
    BY <2>1, <2>2
<1>4. \A e \in Explores : <<e, 0>> \notin gone
  BY <1>1, ExploresSpared, CallsAssumption
<1>5. NavShape'
  BY <1>1, <1>2 DEF NavShape
<1> HIDE DEF gone
<1> QED
  BY <1>2, <1>3, <1>4, <1>5, StepEnds

-----------------------------------------------------------------------------
(* All steps *)

\* What the VisionLoop sees and drives changes no session, call or trace.
LEMMA StepVision == NavInv /\ VisionStep => NavInv'
<1> SUFFICES ASSUME NavInv, VisionStep PROVE NavInv'
  OBVIOUS
<1>1. UNCHANGED <<tools, listening>>
  <2>1. TakeFrame \/ Ask \/ Perceive \/ ReactiveArrived => UNCHANGED <<tools, listening>>
    BY DEF TakeFrame, Ask, Perceive, ReactiveArrived
  <2>2. ASSUME NEW outcome \in Outcomes, Answer(outcome) PROVE UNCHANGED <<tools, listening>>
    BY <2>2 DEF Answer
  <2>3. ReactiveStuck => UNCHANGED <<tools, listening>>
    BY DEF ReactiveStuck, vision
  <2> QED
    BY <2>1, <2>2, <2>3 DEF VisionStep
<1> QED
  BY <1>1, StepElsewhere DEF tools, sessions, NavInv, NavShape

LEMMA NavStep == NavInv /\ [Next]_vars => NavInv'
<1> SUFFICES ASSUME NavInv, [Next]_vars PROVE NavInv'
  OBVIOUS
<1>1. CASE ToolStep
  BY <1>1, StepGoTo, StepStartNavigation, StepEstablish, StepExplore, StepConnection,
     StepStopTool DEF ToolStep
<1>2. CASE SessionStep
  BY <1>2, StepNotify, StepPlanning, StepRetryFails DEF SessionStep
<1>3. CASE VisionStep
  BY <1>3, StepVision
<1>4. CASE UNCHANGED vars
  BY <1>4, StepElsewhere DEF vars, vision, sessions, NavInv, NavShape
<1> QED
  BY <1>1, <1>2, <1>3, <1>4 DEF Next

LEMMA NavAlways == Spec => []NavInv
<1> QED
  BY NavStarts, NavStep, PTL DEF Spec

\* However the awaits of overlapping tool calls interleave with the events of the
\* loop and with robot.stop, the active session of roclaw_tools has its GOAL trace
\* open, its listeners registered, and a step that its plan has.
THEOREM SessionsAreWhole == Spec => []SessionIsWhole
<1>1. NavInv => SessionIsWhole
  BY DEF NavInv
<1> QED
  BY <1>1, NavAlways, PTL

\* No tool call, however it overlaps others or fails to connect, forgets the trace
\* of an exploration: it is open exactly while the exploration is the active one.
THEOREM ExplorationsAreOne == Spec => []OneExploration
<1>1. NavInv => OneExploration
  BY DEF NavInv
<1> QED
  BY <1>1, NavAlways, PTL

-----------------------------------------------------------------------------
(* robot.stop *)

\* A robot.stop that interrupts nothing finds no call, and nobody is told
\* anything any more.
Quiet ==
  DualLoop /\ orderly /\ halted => ~running /\ ~motor /\ Atomic /\ ~Calling

LEMMA QuietStep == NavInv /\ Quiet /\ [Next]_vars => Quiet'
<1> SUFFICES ASSUME NavInv, Quiet, [Next]_vars, DualLoop, orderly', halted'
             PROVE  ~running' /\ ~motor' /\ Atomic' /\ ~Calling'
  BY DEF Quiet
<1>1. CASE ToolStep
  <2>1. ASSUME NEW c \in GoTos, GoTo(c) \/ PlanGoal(c) \/ StartNavigation(c) \/ Establish(c)
        PROVE  FALSE
    <3>1. ~GoTo(c)
      BY DEF GoTo
    <3>2. orderly /\ halted
      BY <2>1, <3>1 DEF PlanGoal, StartNavigation, Establish, history, vision
    <3>3. InFlight(c) /\ c \in Calls
      BY <2>1, <3>1 DEF PlanGoal, StartNavigation, Establish, InFlight, Calls
    <3> QED
      BY <3>2, <3>3 DEF Quiet, Calling
  <2>2. ASSUME NEW c \in Explores, Explore(c) PROVE FALSE
    BY <2>2 DEF Explore
  <2>3. ASSUME NEW c \in Calls, Connected(c) \/ ConnectFails(c) \/ CutReported(c) PROVE FALSE
    <3>1. orderly /\ halted
      BY <2>3 DEF Connected, ConnectFails, CutReported, history
    <3>2. InFlight(c)
      BY <2>3 DEF Connected, ConnectFails, CutReported, InFlight
    <3> QED
      BY <3>1, <3>2 DEF Quiet, Calling
  <2>4. CASE StopTool
    <3>1. ~running' /\ ~motor' /\ UNCHANGED due /\ Atomic
      BY <2>4 DEF StopTool
    <3>2. ~Calling
      BY <2>4 DEF StopTool, StillOrderly
    <3>3. UNCHANGED call
      BY <2>4, <3>2 DEF StopTool, NavInv, NavShape, Calling, InFlight
    <3> QED
      BY <3>1, <3>2, <3>3 DEF Atomic, Calling, InFlight, NoEvent, NoGoal
  <2> QED
    BY <1>1, <2>1, <2>2, <2>3, <2>4 DEF ToolStep
<1>2. CASE SessionStep
  <2>1. UNCHANGED history
    BY <1>2 DEF SessionStep, Notify, PlanStep, FinishRetry, RetryFails, NoteStep, FinishAdvance
  <2>2. ~running /\ ~motor /\ Atomic /\ ~Calling
    BY <2>1 DEF history, Quiet
  <2>3. UNCHANGED <<running, motor, due, call>>
    BY <1>2, <2>2 DEF SessionStep, Notify, PlanStep, FinishRetry, RetryFails, NoteStep,
                      FinishAdvance, vision
  <2> QED
    BY <2>2, <2>3 DEF Atomic, Calling, InFlight, NoEvent, NoGoal
<1>3. CASE VisionStep
  <2>1. orderly /\ halted /\ UNCHANGED call
    <3>1. UNCHANGED tools
      BY <1>3 DEF VisionStep, TakeFrame, Ask, Answer, Perceive, ReactiveArrived, ReactiveStuck
    <3>2. orderly
      BY <1>3 DEF VisionStep, TakeFrame, Ask, Answer, Perceive, ReactiveArrived, ReactiveStuck,
                  Emit, StillOrderly
    <3> QED
      BY <3>1, <3>2 DEF tools
  <2>2. ~running /\ ~motor /\ Atomic /\ ~Calling
    BY <2>1 DEF Quiet
  <2>3. Ask \/ Perceive
    BY <1>3, <2>2 DEF VisionStep, TakeFrame, Answer, ReactiveArrived, ReactiveStuck
  <2>4. UNCHANGED <<running, motor, due>>
    BY <2>3 DEF Ask, Perceive
  <2> QED
    BY <2>1, <2>2, <2>4 DEF Atomic, Calling, InFlight, NoEvent, NoGoal
<1>4. CASE UNCHANGED vars
  BY <1>4 DEF vars, vision, history, Quiet, Atomic, Calling, InFlight, NoEvent, NoGoal
<1> QED
  BY <1>1, <1>2, <1>3, <1>4 DEF Next

\* With the two loops, a robot.stop that overlaps no other call and no planning
\* stays in force until the next navigation, whatever the loops still have under
\* way: no answer, tick or listener starts either again.
THEOREM StopsHold == Spec => []StopHolds
<1>1. Init => Quiet
  BY DEF Init, Quiet
<1>2. Quiet => StopHolds
  BY DEF Quiet, StopHolds
<1> QED
  BY <1>1, <1>2, NavAlways, QuietStep, PTL DEF Spec

-----------------------------------------------------------------------------
(* The trace of a step *)

\* The plannings of a session are numbered, and so are their traces.
Numbered ==
  /\ \A p \in plans : p.n > 0 /\ p.n <= planned[p.s]
  /\ \A s \in GoTos : stepTrace[s] <= planned[s]
  /\ \A s \in GoTos : call[s] # "done" => planned[s] = 0
  /\ \A p, q \in plans : p.s = q.s /\ p.n = q.n => p = q

\* A trace that a planning opened is open until the session points to it.
Traced ==
  \A p \in plans :
    /\ p.at # "topo" => stepTrace[p.s] # p.n
    /\ p.at = "plan" => <<p.s, p.n>> \in open
    /\ p.at = "topo" => p.what = "advance"

\* What the step traces add to it.
TraceInv == Numbered /\ Traced /\ StepTraceTracked

\* Steps that plan nothing and leave open the traces of all steps, unless the
\* session is over.
LEMMA TracesKept ==
  ASSUME NavInv, TraceInv,
         UNCHANGED <<stepTrace, planned, plans>>,
         \A s \in GoTos : call[s] = "done" => call'[s] = "done",
         activeSession' \in {activeSession, None},
         \A s \in GoTos, n \in Nat \ {0} :
            <<s, n>> \in open /\ <<s, n>> \notin open' =>
              s = activeSession /\ n = stepTrace[s] /\ activeSession' = None
  PROVE  TraceInv'
<1>1. Numbered'
  BY DEF TraceInv, Numbered
<1>2. Traced'
  <2> SUFFICES ASSUME NEW p \in plans
               PROVE  /\ p.at # "topo" => stepTrace[p.s] # p.n
                      /\ p.at = "plan" => <<p.s, p.n>> \in open'
    BY DEF Traced, TraceInv
  <2>1. p.s \in GoTos /\ p.n \in Nat \ {0}
    BY DEF NavInv, NavShape, AnyPlan, TraceInv, Numbered
  <2> QED
    BY <2>1 DEF TraceInv, Traced
<1>3. StepTraceTracked'
  <2> SUFFICES ASSUME NEW s \in GoTos, activeSession' = s, stepTrace[s] # 0
               PROVE  \/ <<s, stepTrace[s]>> \in open'
                      \/ \E p \in plans : p.s = s /\ p.what = "retry"
    BY DEF StepTraceTracked
  <2>1. activeSession = s /\ activeSession' # None
    BY CallsAssumption DEF Calls
  <2>2. stepTrace[s] \in Nat \ {0}
    BY DEF NavInv, NavShape
  <2> QED
    BY <2>1, <2>2 DEF TraceInv, StepTraceTracked
<1> QED
  BY <1>1, <1>2, <1>3 DEF TraceInv

\* Ending a session or an exploration ends no trace of another session's step.
LEMMA OtherTraces ==
  ASSUME NavInv, NEW s \in GoTos, NEW n \in Nat \ {0}
  PROVE  /\ <<s, n>> \in SessionTraces => s = activeSession /\ n = stepTrace[s]
         /\ <<s, n>> \notin ExploreTraces
BY CallsAssumption DEF SessionTraces, StepTraces, ExploreTraces

LEMMA ToolsTrace == NavInv /\ TraceInv /\ ToolStep => TraceInv'
<1> SUFFICES ASSUME NavInv, TraceInv, ToolStep PROVE TraceInv'
  OBVIOUS
<1>1. ASSUME NEW c \in GoTos, GoTo(c) \/ PlanGoal(c) PROVE TraceInv'
  <2>1. UNCHANGED <<stepTrace, planned, plans, activeSession>>
    BY <1>1 DEF GoTo, PlanGoal, sessions
  <2>2. \A s \in GoTos : call[s] = "done" => call'[s] = "done"
    BY <1>1 DEF GoTo, PlanGoal, NavInv, NavShape, Calls
  <2>3. open \subseteq open'
    BY <1>1 DEF GoTo, PlanGoal
  <2> QED
    BY <2>1, <2>2, <2>3, TracesKept
<1>2. ASSUME NEW c \in Calls, StartNavigation(c) \/ Explore(c) PROVE TraceInv'
  <2>1. UNCHANGED <<stepTrace, planned, plans>> /\ activeSession' = None
    BY <1>2 DEF StartNavigation, Explore, DropSession, sessions
  <2>2. \A s \in GoTos : call[s] = "done" => call'[s] = "done"
    BY <1>2 DEF StartNavigation, Explore, StartVision, NavInv, NavShape, Calls
  <2>3. open \ (SessionTraces \cup ExploreTraces) \subseteq open'
    BY <1>2 DEF StartNavigation, Explore
  <2> QED
    BY <2>1, <2>2, <2>3, OtherTraces, TracesKept
<1>3. ASSUME NEW c \in GoTos, Establish(c) PROVE TraceInv'
  <2>1. /\ UNCHANGED <<stepTrace, planned, plans, open>> /\ activeSession' = c
        /\ call[c] = "seeding" /\ call' = [call EXCEPT ![c] = "done"]
    BY <1>3 DEF Establish, sessions
  <2>2. Numbered' /\ Traced'
    BY <2>1 DEF TraceInv, Numbered, Traced, NavInv, NavShape, Calls
  <2>3. stepTrace[c] = 0
    <3>1. stepTrace[c] <= planned[c] /\ planned[c] = 0 /\ stepTrace[c] \in Nat
      BY <2>1 DEF TraceInv, Numbered, NavInv, NavShape
    <3> QED
      BY <3>1
  <2>4. StepTraceTracked'
    BY <2>1, <2>3 DEF StepTraceTracked
  <2> QED
    BY <2>2, <2>4 DEF TraceInv
<1>4. ASSUME NEW c \in Calls, Connected(c) \/ ConnectFails(c) \/ CutReported(c) PROVE TraceInv'
  <2>1. UNCHANGED <<stepTrace, planned, plans, activeSession>>
    BY <1>4 DEF Connected, ConnectFails, CutReported, sessions
  <2>2. \A s \in GoTos : call[s] = "done" => call'[s] = "done"
    BY <1>4 DEF Connected, ConnectFails, CutReported, NavInv, NavShape, Calls
  <2>3. open \ (ExploreTraces \cup {<<c, 0>>}) \subseteq open'
    BY <1>4 DEF Connected, ConnectFails, CutReported
  <2> QED
    BY <2>1, <2>2, <2>3, OtherTraces, TracesKept
<1>5. CASE StopTool
  <2>1. UNCHANGED <<stepTrace, planned, plans>> /\ activeSession' = None
    BY <1>5 DEF StopTool, DropSession, sessions
  <2>2. \A s \in GoTos : call[s] = "done" => call'[s] = "done"
    BY <1>5 DEF StopTool, NavInv, NavShape, Calls
  <2>3. open' = open \ (SessionTraces \cup ExploreTraces)
    BY <1>5 DEF StopTool
  <2> QED
    BY <2>1, <2>2, <2>3, OtherTraces, TracesKept
<1>6. \A c \in Calls : c \in GoTos \/ c \in Explores
  BY DEF Calls
<1> QED
  BY <1>1, <1>2, <1>3, <1>4, <1>5, <1>6 DEF ToolStep, Calls

\* The listener that begins a step of the active session, or ends it.
LEMMA NotifyTraces == NavInv /\ TraceInv /\ Notify => TraceInv'
<1> SUFFICES ASSUME NavInv, TraceInv, Notify PROVE TraceInv'
  OBVIOUS
<1>1. CASE activeSession = None
  <2>1. UNCHANGED <<call, activeSession, stepTrace, planned, plans, open>>
    BY <1>1 DEF Notify, sessions
  <2> QED
    BY <2>1, TracesKept
<1>2. CASE activeSession # None
  <2> DEFINE s == activeSession
  <2>1. /\ s \in GoTos /\ s \in Calls /\ call[s] = "done" /\ stepTrace[s] \in Nat
        /\ planned[s] \in Nat /\ planned \in [GoTos -> Nat] /\ stepTrace \in [GoTos -> Nat]
    BY <1>2 DEF NavInv, NavShape, SessionIsWhole, Calls
  <2>2. Advance(s) \/ Retry(s)
    BY <1>2 DEF Notify
  <2>3. \A d \in GoTos : call[d] = "done" <=> call'[d] = "done"
    BY <2>2 DEF Advance, Retry, StopVision, NavInv, NavShape, Calls
  <2>4. stepTrace' \in {stepTrace, [stepTrace EXCEPT ![s] = 0]}
    BY <2>2 DEF Advance, Retry
  <2>5. \A d \in GoTos, n \in Nat \ {0} : <<d, n>> \in open /\ <<d, n>> \notin open' =>
          d = s /\ n = stepTrace[s]
    <3>1. open' = open \ SessionTraces \/ open' = open \ StepTraces(s)
      BY <2>2 DEF Advance, Retry
    <3> QED
      BY <3>1, OtherTraces DEF StepTraces
  <2>6. ASSUME UNCHANGED <<planned, plans>>, activeSession' = None
        PROVE  TraceInv'
    <3>1. \A d \in GoTos : stepTrace'[d] \in {stepTrace[d], 0} /\ planned[d] \in Nat
      BY <2>1, <2>4
    <3>2. \A p \in plans : p.s \in GoTos /\ p.n \in Nat \ {0}
      BY DEF NavInv, NavShape, AnyPlan, TraceInv, Numbered
    <3>3. Numbered'
      BY <2>3, <2>6, <3>1 DEF TraceInv, Numbered
    <3>4. \A p \in plans : p.at # "topo" => stepTrace'[p.s] # p.n
      BY <3>1, <3>2 DEF TraceInv, Traced
    <3>5. \A p \in plans : p.at = "plan" => <<p.s, p.n>> \in open'
      BY <2>5, <3>2 DEF TraceInv, Traced
    <3>6. StepTraceTracked'
      BY <2>6, CallsAssumption DEF StepTraceTracked, Calls
    <3> QED
      BY <2>6, <3>3, <3>4, <3>5, <3>6 DEF TraceInv, Traced
  <2>7. ASSUME NEW step, NEW what \in {"advance", "retry"}, NewPlan(s, step, what),
               activeSession' = s,
               stepTrace' = [stepTrace EXCEPT ![s] = 0] \/ what = "retry"
        PROVE  TraceInv'
    <3> DEFINE q == [s |-> s, n |-> planned[s] + 1, step |-> step, what |-> what, at |-> "scene"]
    <3>1. planned' = [planned EXCEPT ![s] = @ + 1] /\ plans' = plans \cup {q}
      BY <2>7 DEF NewPlan
    <3>2. \A d \in GoTos : /\ planned'[d] = IF d = s THEN planned[s] + 1 ELSE planned[d]
                           /\ stepTrace'[d] \in {stepTrace[d], 0}
                           /\ stepTrace[d] \in Nat /\ planned[d] \in Nat
                           /\ stepTrace[d] <= planned[d]
      BY <2>1, <2>4, <3>1 DEF TraceInv, Numbered
    <3>3. \A p \in plans : p.s \in GoTos /\ p.n \in Nat \ {0} /\ p.n <= planned[p.s]
      BY DEF NavInv, NavShape, AnyPlan, TraceInv, Numbered
    <3>4. q.s = s /\ q.n = planned[s] + 1 /\ q.at = "scene" /\ q.what = what
      OBVIOUS
    <3> HIDE DEF q
    <3>5. \A p \in plans' : p.n > 0 /\ p.n <= planned'[p.s]
      BY <2>1, <3>1, <3>2, <3>3, <3>4
    <3>6. \A d \in GoTos : stepTrace'[d] <= planned'[d]
      BY <3>2
    <3>7. \A d \in GoTos : call'[d] # "done" => planned'[d] = 0
      BY <2>1, <2>3, <3>2 DEF TraceInv, Numbered
    <3>8. \A p \in plans : ~(p.s = q.s /\ p.n = q.n)
      BY <2>1, <3>3, <3>4
    <3>9. Numbered'
      BY <3>1, <3>5, <3>6, <3>7, <3>8 DEF TraceInv, Numbered
    <3>10. \A p \in plans : p.at # "topo" => stepTrace'[p.s] # p.n
      BY <3>2, <3>3 DEF TraceInv, Traced
    <3>11. \A p \in plans : p.at = "plan" => <<p.s, p.n>> \in open'
      BY <2>5, <3>3 DEF TraceInv, Traced
    <3>12. Traced'
      <4>1. stepTrace'[q.s] # q.n /\ q.at \notin {"plan", "topo"}
        BY <2>1, <3>2, <3>4
      <4>2. \A p \in plans : p.at = "topo" => p.what = "advance"
        BY DEF TraceInv, Traced
      <4> QED
        BY <3>1, <3>10, <3>11, <4>1, <4>2 DEF Traced
    <3>13. StepTraceTracked'
      BY <2>1, <2>7, <3>1, <3>4 DEF StepTraceTracked
    <3> QED
      BY <3>9, <3>12, <3>13 DEF TraceInv
  <2>8. CASE Advance(s)
    <3>1. CASE stepIndex[s] + 1 >= steps[s]
      BY <2>6, <2>8, <3>1 DEF Advance, DropSession
    <3>2. CASE ~(stepIndex[s] + 1 >= steps[s])
      BY <2>7, <2>8, <3>2 DEF Advance
    <3> QED
      BY <3>1, <3>2
  <2>9. CASE Retry(s)
    <3>1. CASE retryCount[s] >= MAX_RETRIES
      BY <2>6, <2>9, <3>1 DEF Retry, DropSession
    <3>2. CASE ~(retryCount[s] >= MAX_RETRIES)
      BY <2>7, <2>9, <3>2 DEF Retry
    <3> QED
      BY <3>1, <3>2
  <2> QED
    BY <2>2, <2>8, <2>9
<1> QED
  BY <1>1, <1>2

\* A planning opens its trace, and its session points to it or is over.
LEMMA PlanningTraces ==
  NavInv /\ TraceInv
    /\ (\E p \in plans : \/ PlanStep(p) \/ FinishRetry(p) \/ RetryFails(p)
                         \/ NoteStep(p) \/ FinishAdvance(p))
    => TraceInv'
<1> SUFFICES ASSUME NavInv, TraceInv, NEW p \in plans,
                    \/ PlanStep(p) \/ FinishRetry(p) \/ RetryFails(p)
                    \/ NoteStep(p) \/ FinishAdvance(p)
             PROVE  TraceInv'
  OBVIOUS
<1>1. /\ p.s \in GoTos /\ p.n \in Nat \ {0} /\ p.n <= planned[p.s]
      /\ stepTrace \in [GoTos -> Nat]
      /\ \A q \in plans : q.s \in GoTos /\ q.n \in Nat \ {0}
      /\ \A q \in plans : q.s = p.s /\ q.n = p.n => q = p
  BY DEF NavInv, NavShape, AnyPlan, TraceInv, Numbered
<1>2. UNCHANGED <<call, planned>>
  BY DEF PlanStep, FinishRetry, RetryFails, NoteStep, FinishAdvance, vision
<1> DEFINE q(at) == [p EXCEPT !.at = at]
<1>3. \A at : q(at).s = p.s /\ q(at).n = p.n /\ q(at).what = p.what /\ q(at).at = at
  BY DEF NavInv, NavShape, AnyPlan
<1> HIDE DEF q
<1>4. plans' \in {plans \ {p}, (plans \ {p}) \cup {q("plan")}, (plans \ {p}) \cup {q("topo")}}
  BY DEF PlanStep, FinishRetry, RetryFails, NoteStep, FinishAdvance, q
<1>5. stepTrace' \in {stepTrace, [stepTrace EXCEPT ![p.s] = p.n]}
  BY DEF PlanStep, FinishRetry, RetryFails, NoteStep, FinishAdvance
<1>6. \A s \in GoTos : stepTrace'[s] = stepTrace[s] \/ (s = p.s /\ stepTrace'[s] = p.n)
  BY <1>1, <1>5
<1>7. Numbered'
  <2>1. \A s \in GoTos : stepTrace'[s] <= planned[s]
    BY <1>1, <1>6 DEF TraceInv, Numbered
  <2>2. \A r \in plans' : r.n > 0 /\ r.n <= planned[r.s]
    BY <1>1, <1>3, <1>4 DEF TraceInv, Numbered
  <2>3. \A r, t \in plans' : r.s = t.s /\ r.n = t.n => r = t
    BY <1>1, <1>3, <1>4 DEF TraceInv, Numbered
  <2> QED
    BY <1>2, <2>1, <2>2, <2>3 DEF TraceInv, Numbered
<1>8. \A s \in GoTos, n \in Nat \ {0} : <<s, n>> \in open /\ <<s, n>> \notin open' =>
         activeSession' = None /\ ((s = p.s /\ n = p.n) \/ n = stepTrace[s])
  <2>1. \/ open \subseteq open'
        \/ activeSession' = None /\ open' = open \ SessionTraces
        \/ activeSession' = None /\ open' = open \ {<<p.s, 0>>, <<p.s, p.n>>}
    BY DEF PlanStep, FinishRetry, RetryFails, NoteStep, FinishAdvance, DropSession
  <2> QED
    BY <2>1, OtherTraces
<1>9. Traced'
  <2>1. ASSUME NEW r \in plans, r # p
        PROVE  /\ r.at # "topo" => stepTrace'[r.s] # r.n
               /\ r.at = "plan" => <<r.s, r.n>> \in open'
               /\ r.at = "topo" => r.what = "advance"
    BY <1>1, <1>6, <1>8, <2>1 DEF TraceInv, Traced
  <2>2. CASE PlanStep(p)
    <3>1. plans' = (plans \ {p}) \cup {q("plan")} /\ open' = open \cup {<<p.s, p.n>>}
          /\ stepTrace' = stepTrace /\ stepTrace[p.s] # p.n
      BY <2>2 DEF PlanStep, TraceInv, Traced, q
    <3>2. q("plan").at = "plan" /\ q("plan").s = p.s /\ q("plan").n = p.n
      BY <1>3
    <3>3. ASSUME NEW r \in plans'
          PROVE  /\ r.at # "topo" => stepTrace'[r.s] # r.n
                 /\ r.at = "plan" => <<r.s, r.n>> \in open'
                 /\ r.at = "topo" => r.what = "advance"
      <4>1. CASE r \in plans /\ r # p
        BY <2>1, <4>1
      <4>2. CASE r = q("plan")
        BY <3>1, <3>2, <4>2
      <4> QED
        BY <3>1, <4>1, <4>2
    <3> QED
      BY <3>3 DEF Traced
  <2>3. CASE NoteStep(p)
    <3>1. plans' = (plans \ {p}) \cup {q("topo")} /\ p.what = "advance"
      BY <2>3 DEF NoteStep, q
    <3> QED
      BY <1>3, <2>1, <3>1 DEF Traced
  <2>4. CASE FinishRetry(p) \/ RetryFails(p) \/ FinishAdvance(p)
    <3>1. plans' = plans \ {p}
      BY <2>4 DEF FinishRetry, RetryFails, FinishAdvance
    <3> QED
      BY <2>1, <3>1 DEF Traced
  <2> QED
    BY <2>2, <2>3, <2>4
<1>10. StepTraceTracked'
  <2> SUFFICES ASSUME NEW s \in GoTos, activeSession' = s, stepTrace'[s] # 0
               PROVE  \/ <<s, stepTrace'[s]>> \in open'
                      \/ \E r \in plans' : r.s = s /\ r.what = "retry"
    BY DEF StepTraceTracked
  <2>1. ~RetryFails(p) /\ activeSession = s /\ open \subseteq open'
    BY CallsAssumption DEF PlanStep, FinishRetry, RetryFails, NoteStep, FinishAdvance,
                           DropSession, Calls
  <2>2. CASE FinishRetry(p) \/ NoteStep(p)
    <3>1. p.at = "plan" /\ stepTrace' = [stepTrace EXCEPT ![p.s] = p.n]
      BY <2>2 DEF FinishRetry, NoteStep
    <3>2. CASE s = p.s
      BY <1>1, <2>1, <3>1, <3>2 DEF TraceInv, Traced
    <3>3. CASE s # p.s
      BY <1>1, <1>4, <2>1, <3>1, <3>3 DEF TraceInv, StepTraceTracked
    <3> QED
      BY <3>2, <3>3
  <2>3. CASE PlanStep(p) \/ FinishAdvance(p)
    <3>1. UNCHANGED stepTrace
      BY <2>3 DEF PlanStep, FinishAdvance
    <3>2. CASE PlanStep(p)
      <4>1. plans' = (plans \ {p}) \cup {q("plan")}
        BY <3>2 DEF PlanStep, q
      <4>2. CASE p.s = s /\ p.what = "retry"
        BY <1>3, <4>1, <4>2
      <4>3. CASE ~(p.s = s /\ p.what = "retry")
        BY <2>1, <3>1, <4>1, <4>3 DEF TraceInv, StepTraceTracked
      <4> QED
        BY <4>2, <4>3
    <3>3. CASE FinishAdvance(p)
      <4>1. p.what # "retry" /\ plans' = plans \ {p}
        BY <3>3 DEF FinishAdvance, TraceInv, Traced
      <4> QED
        BY <2>1, <3>1, <4>1 DEF TraceInv, StepTraceTracked
    <3> QED
      BY <2>3, <3>2, <3>3
  <2> QED
    BY <2>1, <2>2, <2>3
<1> QED
  BY <1>7, <1>9, <1>10 DEF TraceInv

LEMMA TraceStep == NavInv /\ TraceInv /\ [Next]_vars => TraceInv'
<1>1. NavInv /\ TraceInv /\ (VisionStep \/ UNCHANGED vars) => TraceInv'
  <2>1. VisionStep => UNCHANGED tools
    BY DEF VisionStep, TakeFrame, Ask, Answer, Perceive, ReactiveArrived, ReactiveStuck
  <2>2. UNCHANGED tools \/ UNCHANGED vars =>
          UNCHANGED <<stepTrace, planned, plans, call, activeSession, open>>
    BY DEF tools, vars, sessions
  <2> QED
    BY <2>1, <2>2, TracesKept
<1>2. NavInv /\ TraceInv /\ SessionStep => TraceInv'
  BY NotifyTraces, PlanningTraces DEF SessionStep
<1> QED
  BY <1>1, <1>2, ToolsTrace DEF Next

LEMMA TraceAlways == Spec => [](NavInv /\ TraceInv)
<1>1. Init => TraceInv
  BY CallsAssumption DEF Init, TraceInv, Numbered, Traced, StepTraceTracked
<1> QED
  BY <1>1, TraceStep, NavAlways, PTL DEF Spec

\* Whatever a go_to still plans when its step changes, the step trace the active
\* session points to is open, or a retry is about to replace it.
THEOREM StepTracesTracked == Spec => []StepTraceTracked
<1>1. TraceInv => StepTraceTracked
  BY DEF TraceInv
<1> QED
  BY <1>1, TraceAlways, PTL

-----------------------------------------------------------------------------
(* One thing at a time *)

\* While one thing is done at a time there is one call, and none that starts the
\* loop while a session is active.
OneCall ==
  orderly =>
    /\ \A c, d \in Calls : InFlight(c) /\ InFlight(d) => c = d
    /\ \A c \in GoTos : call[c] \in {"connecting", "seeding"} => activeSession = None
    /\ listening \subseteq GoTos

\* With the two loops there is one planning too, it is the active session's, and
\* no step trace but its own or the one the session points to is open.
OnePlan ==
  DualLoop /\ orderly =>
    /\ Calling => plans = {} /\ Atomic
    /\ ~Atomic => plans = {} /\ due.left = 1
    /\ \A p, q \in plans : p = q
    /\ \A p \in plans : p.s = activeSession /\ (p.at = "topo" => stepTrace[p.s] = p.n)
    /\ \A s \in GoTos, n \in Nat \ {0} : <<s, n>> \in open =>
         /\ activeSession = s
         /\ plans = {} => stepTrace[s] = n
         /\ \A p \in plans : p.n = n /\ p.at # "scene"

\* What holds besides while one thing is done at a time.
OrderInv == OneCall /\ Attended /\ OnePlan

\* Ending the active session ends its GOAL trace.
LEMMA OwnGoal == \A s \in GoTos : s = activeSession => <<s, 0>> \in SessionTraces
BY CallsAssumption DEF SessionTraces, Calls

\* Steps that begin no call, and leave the active session alone or end it.
LEMMA CallsKept ==
  ASSUME NavInv, OrderInv, orderly' => orderly,
         \/ UNCHANGED <<activeSession, listening>>
         \/ /\ activeSession' = None /\ listening' = listening \ {activeSession}
            /\ \A s \in GoTos : s = activeSession => <<s, 0>> \notin open',
         \A c \in Calls : InFlight(c)' => InFlight(c),
         \A s \in GoTos :
           <<s, 0>> \in open' => InFlight(s)' \/ (<<s, 0>> \in open /\ ~InFlight(s)),
         \A c \in GoTos : call'[c] \in {"connecting", "seeding"} =>
           activeSession' = None \/ call[c] \in {"connecting", "seeding"}
  PROVE  OneCall' /\ Attended'
<1> SUFFICES ASSUME orderly' PROVE OneCall' /\ Attended'
  BY DEF OneCall, Attended
<1>1. /\ \A c, d \in Calls : InFlight(c) /\ InFlight(d) => c = d
      /\ \A c \in GoTos : call[c] \in {"connecting", "seeding"} => activeSession = None
      /\ listening \subseteq GoTos /\ listening \subseteq {activeSession}
      /\ \A s \in GoTos : <<s, 0>> \in open => activeSession = s \/ InFlight(s)
  BY DEF OrderInv, OneCall, Attended
<1>2. OneCall'
  BY <1>1 DEF OneCall
<1>3. Attended'
  BY <1>1 DEF Attended
<1> QED
  BY <1>2, <1>3

\* Steps that plan nothing and tell nobody anything.
LEMMA PlansKept ==
  ASSUME NavInv, OrderInv, orderly' => orderly,
         UNCHANGED <<plans, stepTrace, due>>,
         \A c \in Calls : InFlight(c)' => InFlight(c),
         \A s \in GoTos, n \in Nat \ {0} : <<s, n>> \in open' => <<s, n>> \in open,
         orderly' =>
           \/ UNCHANGED activeSession
           \/ plans = {} /\ open' \cap SessionTraces = {}
  PROVE  OnePlan'
<1> SUFFICES ASSUME DualLoop, orderly' PROVE OnePlan'
  BY DEF OnePlan
<1>1. /\ Calling => plans = {} /\ Atomic
      /\ ~Atomic => plans = {} /\ due.left = 1
      /\ \A p, q \in plans : p = q
      /\ \A p \in plans : p.s = activeSession /\ (p.at = "topo" => stepTrace[p.s] = p.n)
      /\ \A s \in GoTos, n \in Nat \ {0} : <<s, n>> \in open =>
           /\ activeSession = s
           /\ plans = {} => stepTrace[s] = n
           /\ \A p \in plans : p.n = n /\ p.at # "scene"
  BY DEF OrderInv, OnePlan
<1>2. /\ Calling' => Calling
      /\ Atomic' <=> Atomic
  BY DEF Calling, Atomic, NoEvent, NoGoal
<1>3. /\ Calling' => plans = {} /\ Atomic'
      /\ ~Atomic' => plans = {} /\ due.left = 1
  BY <1>1, <1>2
<1>4. \A p \in plans : p.s = activeSession'
  BY <1>1
<1>5. ASSUME NEW s \in GoTos, NEW n \in Nat \ {0}, <<s, n>> \in open'
      PROVE  /\ activeSession' = s
             /\ plans = {} => stepTrace[s] = n
             /\ \A p \in plans : p.n = n /\ p.at # "scene"
  <2>1. <<s, n>> \in open /\ activeSession = s
    BY <1>1, <1>5
  <2>2. UNCHANGED activeSession
    <3>1. s # None
      BY CallsAssumption DEF Calls
    <3> QED
      BY <1>1, <1>5, <2>1, <3>1 DEF SessionTraces, StepTraces
  <2> QED
    BY <1>1, <2>1, <2>2
<1> QED
  BY <1>1, <1>3, <1>4, <1>5 DEF OnePlan

LEMMA ToolsOrder == NavInv /\ OrderInv /\ ToolStep => OrderInv'
<1> SUFFICES ASSUME NavInv, OrderInv, ToolStep PROVE OrderInv'
  OBVIOUS
<1> USE DEF InFlight
<1>1. ASSUME NEW c \in GoTos, GoTo(c) PROVE OrderInv'
  <2> SUFFICES ASSUME orderly' PROVE OrderInv'
    BY DEF OrderInv, OneCall, Attended, OnePlan
  <2>1. orderly /\ ~Calling /\ plans = {} /\ Atomic
    BY <1>1 DEF GoTo, StillOrderly, NowPlanning
  <2>2. /\ UNCHANGED <<activeSession, listening, open, plans, stepTrace, due>>
        /\ call' = [call EXCEPT ![c] = "scene"] /\ c \in Calls
    BY <1>1 DEF GoTo, vision, sessions, Calls
  <2>3. \A d \in Calls : call'[d] = IF d = c THEN "scene" ELSE call[d]
    BY <2>2 DEF NavInv, NavShape
  <2>4. \A d \in Calls : ~InFlight(d)
    BY <2>1 DEF Calling
  <2>5. OneCall'
    BY <2>1, <2>2, <2>3, <2>4 DEF OrderInv, OneCall, Calls
  <2>6. Attended'
    BY <2>1, <2>2, <2>3, <2>4 DEF OrderInv, Attended, Calls
  <2>7. Atomic'
    BY <2>1, <2>2 DEF Atomic, NoEvent, NoGoal
  <2>8. OnePlan'
    BY <2>1, <2>2, <2>7 DEF OrderInv, OnePlan
  <2> QED
    BY <2>5, <2>6, <2>8 DEF OrderInv
<1>2. ASSUME NEW c \in Explores, Explore(c) PROVE OrderInv'
  <2> SUFFICES ASSUME orderly' PROVE OrderInv'
    BY DEF OrderInv, OneCall, Attended, OnePlan
  <2>1. orderly /\ ~Calling /\ plans = {} /\ Atomic
    BY <1>2 DEF Explore, StillOrderly, NowPlanning
  <2>2. /\ activeSession' = None /\ listening' = listening \ {activeSession}
        /\ open' = (open \ (SessionTraces \cup ExploreTraces)) \cup {<<c, 0>>}
        /\ UNCHANGED <<plans, stepTrace, due>> /\ c \in Calls /\ c \notin GoTos
    BY <1>2, CallsAssumption DEF Explore, DropSession, sessions, Calls
  <2>3. \A d \in Calls : d # c => call'[d] = call[d] /\ ~InFlight(d)
    BY <1>2, <2>1, <2>2 DEF Explore, StartVision, NavInv, NavShape, Calling
  <2>4. OneCall'
    BY <2>1, <2>2, <2>3 DEF OrderInv, OneCall, Calls
  <2>5. Attended'
    <3>1. listening' \subseteq {activeSession'}
      BY <2>1, <2>2 DEF OrderInv, Attended
    <3>2. \A s \in GoTos : <<s, 0>> \notin open'
      BY <2>1, <2>2, <2>3, OwnGoal DEF OrderInv, Attended, Calls
    <3> QED
      BY <3>1, <3>2 DEF Attended
  <2>6. OnePlan'
    <3>1. Atomic'
      BY <2>1, <2>2 DEF Atomic, NoEvent, NoGoal
    <3>2. DualLoop => \A s \in GoTos, n \in Nat \ {0} : <<s, n>> \notin open'
      <4> SUFFICES ASSUME DualLoop, NEW s \in GoTos, NEW n \in Nat \ {0}, <<s, n>> \in open'
                   PROVE  FALSE
        OBVIOUS
      <4>1. <<s, n>> \in open /\ <<s, n>> \notin SessionTraces
        BY <2>2
      <4>2. activeSession = s /\ stepTrace[s] = n
        BY <2>1, <4>1 DEF OrderInv, OnePlan
      <4>3. s # None
        BY CallsAssumption DEF Calls
      <4> QED
        BY <4>1, <4>2, <4>3 DEF SessionTraces, StepTraces
    <3> QED
      BY <2>1, <2>2, <3>1, <3>2 DEF OnePlan
  <2> QED
    BY <2>4, <2>5, <2>6 DEF OrderInv
<1>3. ASSUME NEW c \in GoTos, PlanGoal(c) PROVE OrderInv'
  <2>1. /\ UNCHANGED <<activeSession, listening, plans, stepTrace, due, orderly>>
        /\ open' = open \cup {<<c, 0>>} /\ c \in Calls
        /\ call[c] = "scene" /\ call' = [call EXCEPT ![c] = "planning"]
    BY <1>3 DEF PlanGoal, vision, sessions, history, Calls
  <2>2. \A d \in Calls : call'[d] = IF d = c THEN "planning" ELSE call[d]
    BY <2>1 DEF NavInv, NavShape
  <2>3. OneCall' /\ Attended'
    BY <2>1, <2>2, CallsKept DEF Calls
  <2>4. OnePlan'
    BY <2>1, <2>2, PlansKept DEF Calls
  <2> QED
    BY <2>3, <2>4 DEF OrderInv
<1>4. ASSUME NEW c \in GoTos, StartNavigation(c) PROVE OrderInv'
  <2>1. /\ activeSession' = None /\ listening' = listening \ {activeSession}
        /\ UNCHANGED <<plans, stepTrace, due, orderly>> /\ c \in Calls
        /\ open' = open \ (SessionTraces \cup ExploreTraces) /\ call[c] = "planning"
    BY <1>4 DEF StartNavigation, DropSession, history, Calls
  <2>2. \A d \in Calls : d # c => call'[d] = call[d]
    BY <1>4, <2>1 DEF StartNavigation, StartVision, NavInv, NavShape
  <2>3. call'[c] \in {"connecting", "seeding"}
    BY <1>4, <2>1 DEF StartNavigation, StartVision, NavInv, NavShape
  <2>4. OneCall' /\ Attended'
    BY <2>1, <2>2, <2>3, CallsKept, OwnGoal DEF Calls
  <2>5. OnePlan'
    <3>1. Calling
      BY <2>1 DEF Calling
    <3>2. DualLoop /\ orderly => plans = {}
      BY <3>1 DEF OrderInv, OnePlan
    <3>3. CASE DualLoop
      BY <2>1, <2>2, <2>3, <3>2, <3>3, PlansKept DEF Calls
    <3> QED
      BY <3>3 DEF OnePlan
  <2> QED
    BY <2>4, <2>5 DEF OrderInv
<1>5. ASSUME NEW c \in GoTos, Establish(c) PROVE OrderInv'
  <2> SUFFICES ASSUME orderly' PROVE OrderInv'
    BY DEF OrderInv, OneCall, Attended, OnePlan
  <2>1. /\ activeSession' = c /\ listening' = listening \cup {c} /\ orderly
        /\ UNCHANGED <<plans, stepTrace, due, open>> /\ c \in Calls
        /\ call[c] = "seeding" /\ call' = [call EXCEPT ![c] = "done"]
    BY <1>5 DEF Establish, sessions, history, Calls
  <2>2. \A d \in Calls : call'[d] = IF d = c THEN "done" ELSE call[d]
    BY <2>1 DEF NavInv, NavShape
  <2>3. Calling /\ activeSession = None /\ (\A d \in Calls : InFlight(d) => d = c)
    BY <2>1 DEF OrderInv, OneCall, Calling
  <2>4. \A d \in Calls : ~InFlight(d)'
    BY <2>2, <2>3
  <2>5. OneCall'
    BY <2>1, <2>4 DEF OrderInv, OneCall, Calls
  <2>6. Attended'
    <3>1. listening = {}
      BY <2>1, <2>3, CallsAssumption DEF OrderInv, OneCall, Attended, Calls
    <3> QED
      BY <2>1, <2>2, <2>3, <3>1, CallsAssumption DEF OrderInv, Attended, Calls
  <2>7. OnePlan'
    <3>1. DualLoop => plans = {} /\ Atomic
      BY <2>1, <2>3 DEF OrderInv, OnePlan
    <3>2. \A s \in GoTos : s # activeSession
      BY <2>3, CallsAssumption DEF Calls
    <3>3. Atomic => Atomic'
      BY <2>1 DEF Atomic, NoEvent, NoGoal
    <3> QED
      BY <2>1, <3>1, <3>2, <3>3 DEF OrderInv, OnePlan
  <2> QED
    BY <2>5, <2>6, <2>7 DEF OrderInv
<1>6. ASSUME NEW c \in Calls, Connected(c) \/ ConnectFails(c) \/ CutReported(c) PROVE OrderInv'
  <2>1. /\ UNCHANGED <<activeSession, listening, plans, stepTrace, due, orderly>>
        /\ open' \subseteq open /\ call[c] \in {"connecting", "cut"}
    BY <1>6 DEF Connected, ConnectFails, CutReported, vision, sessions, history
  <2>2. /\ \A d \in Calls : d # c => call'[d] = call[d]
        /\ call'[c] \in {"seeding", "hung", "done"}
        /\ call'[c] = "seeding" => call[c] = "connecting"
        /\ call'[c] = "done" /\ c \in GoTos => <<c, 0>> \notin open'
    BY <1>6 DEF Connected, ConnectFails, CutReported, NavInv, NavShape
  <2>3. OneCall' /\ Attended'
    <3>1. \A d \in Calls : InFlight(d)' => InFlight(d)
      BY <2>1, <2>2
    <3>2. \A s \in GoTos :
            <<s, 0>> \in open' => InFlight(s)' \/ (<<s, 0>> \in open /\ ~InFlight(s))
      BY <2>1, <2>2 DEF Calls
    <3> QED
      BY <2>1, <2>2, <3>1, <3>2, CallsKept DEF Calls
  <2>4. OnePlan'
    BY <2>1, <2>2, PlansKept DEF Calls
  <2> QED
    BY <2>3, <2>4 DEF OrderInv
<1>7. CASE StopTool
  <2>1. /\ activeSession' = None /\ listening' = listening \ {activeSession}
        /\ UNCHANGED <<plans, stepTrace, due>>
        /\ open' = open \ (SessionTraces \cup ExploreTraces)
        /\ orderly' => orderly /\ plans = {}
    BY <1>7 DEF StopTool, DropSession, sessions, StillOrderly, NowPlanning
  <2>2. \A d \in Calls : call'[d] = IF call[d] = "connecting" THEN "cut" ELSE call[d]
    BY <1>7 DEF StopTool, NavInv, NavShape
  <2>3. OneCall' /\ Attended'
    BY <2>1, <2>2, CallsKept, OwnGoal DEF Calls
  <2>4. OnePlan'
    BY <2>1, <2>2, PlansKept DEF Calls
  <2> QED
    BY <2>3, <2>4 DEF OrderInv
<1> QED
  BY <1>1, <1>2, <1>3, <1>4, <1>5, <1>6, <1>7 DEF ToolStep

LEMMA NotifyOrder == NavInv /\ OrderInv /\ Notify => OrderInv'
<1> SUFFICES ASSUME NavInv, OrderInv, Notify PROVE OrderInv'
  OBVIOUS
<1> USE DEF InFlight
<1>1. UNCHANGED orderly /\ ~Atomic
  BY DEF Notify, history
<1>2. \A c \in Calls : call'[c] = call[c] \/ (call[c] = "connecting" /\ call'[c] = "cut")
  BY DEF Notify, Advance, Retry, StopVision, NavInv, NavShape
<1>3. OneCall' /\ Attended'
  <2>1. \/ UNCHANGED <<activeSession, listening>> /\ open' \subseteq open
        \/ /\ activeSession' = None /\ listening' = listening \ {activeSession}
           /\ open' = open \ SessionTraces
    BY DEF Notify, Advance, Retry, DropSession
  <2> QED
    BY <1>1, <1>2, <2>1, CallsKept, OwnGoal DEF Calls
<1>4. OnePlan'
  <2> SUFFICES ASSUME DualLoop, orderly' PROVE OnePlan'
    BY DEF OnePlan
  <2>1. plans = {} /\ due.left = 1 /\ ~Calling
    BY <1>1 DEF OrderInv, OnePlan
  <2>2. Atomic' /\ ~Calling'
    BY <1>2, <2>1 DEF Notify, Atomic, Calling, NoEvent, NoGoal
  <2>3. \A s \in GoTos, n \in Nat \ {0} : <<s, n>> \in open =>
           activeSession = s /\ stepTrace[s] = n
    BY <1>1, <2>1 DEF OrderInv, OnePlan
  <2>4. CASE activeSession = None
    <3>1. UNCHANGED <<plans, open>>
      BY <2>4 DEF Notify, sessions
    <3>2. \A s \in GoTos, n \in Nat \ {0} : <<s, n>> \notin open
      BY <2>3, <2>4, CallsAssumption DEF Calls
    <3> QED
      BY <2>1, <2>2, <3>1, <3>2 DEF OnePlan
  <2>5. CASE activeSession # None
    <3> DEFINE s == activeSession
    <3>1. Advance(s) \/ Retry(s)
      BY <2>5 DEF Notify
    <3>2. \A d \in GoTos, n \in Nat \ {0} : <<d, n>> \notin open'
      <4>1. open' = open \ SessionTraces \/ open' = open \ StepTraces(s)
        BY <3>1 DEF Advance, Retry
      <4>2. ASSUME NEW d \in GoTos, NEW n \in Nat \ {0}, <<d, n>> \in open
            PROVE  <<d, n>> \in StepTraces(s) /\ <<d, n>> \in SessionTraces
        <5>1. d = s /\ stepTrace[s] = n
          BY <2>3, <4>2
        <5> QED
          BY <2>5, <5>1 DEF SessionTraces, StepTraces
      <4> QED
        BY <4>1, <4>2
    <3>3. \/ plans' = {}
          \/ /\ activeSession' = s
             /\ \E p : plans' = {p} /\ p.s = s /\ p.at = "scene"
      BY <2>1, <3>1 DEF Advance, Retry, NewPlan
    <3> QED
      BY <2>2, <3>2, <3>3 DEF OnePlan
  <2> QED
    BY <2>4, <2>5
<1> QED
  BY <1>3, <1>4 DEF OrderInv

LEMMA PlanningOrder ==
  NavInv /\ TraceInv /\ OrderInv
    /\ (\E p \in plans : \/ PlanStep(p) \/ FinishRetry(p) \/ RetryFails(p)
                         \/ NoteStep(p) \/ FinishAdvance(p))
    => OrderInv'
<1> SUFFICES ASSUME NavInv, TraceInv, OrderInv, NEW p \in plans,
                    \/ PlanStep(p) \/ FinishRetry(p) \/ RetryFails(p)
                    \/ NoteStep(p) \/ FinishAdvance(p)
             PROVE  OrderInv'
  OBVIOUS
<1>1. /\ p.s \in GoTos /\ p.n \in Nat \ {0} /\ stepTrace \in [GoTos -> Nat]
  BY DEF NavInv, NavShape, AnyPlan, TraceInv, Numbered
<1>2. UNCHANGED <<call, due, orderly>> /\ Atomic
  BY DEF PlanStep, FinishRetry, RetryFails, NoteStep, FinishAdvance, vision, history
<1>3. OneCall' /\ Attended'
  <2>1. \/ UNCHANGED <<activeSession, listening>> /\ open' \in {open, open \cup {<<p.s, p.n>>}}
        \/ /\ activeSession' = None /\ listening' = listening \ {activeSession}
           /\ open' \in {open \ SessionTraces, open \ {<<p.s, 0>>, <<p.s, p.n>>}}
           /\ p.s = activeSession \/ open' = open \ SessionTraces
    BY DEF PlanStep, FinishRetry, RetryFails, NoteStep, FinishAdvance, DropSession, vision
  <2>2. \A s \in GoTos : s = activeSession => ~InFlight(s)
    BY DEF NavInv, SessionIsWhole, InFlight
  <2>3. \A s \in GoTos : <<s, 0>> \in open' => <<s, 0>> \in open
    BY <1>1, <2>1
  <2>4. activeSession' = None => \A s \in GoTos : s = activeSession => <<s, 0>> \notin open'
    BY <2>1, OwnGoal, CallsAssumption DEF Calls
  <2>5. \A s \in Calls : InFlight(s)' <=> InFlight(s)
    BY <1>2 DEF InFlight
  <2> QED
    BY <1>2, <2>1, <2>3, <2>4, <2>5, CallsKept DEF Calls
<1>4. OnePlan'
  <2> SUFFICES ASSUME DualLoop, orderly' PROVE OnePlan'
    BY DEF OnePlan
  <2>1. /\ plans = {p} /\ ~Calling /\ p.s = activeSession
        /\ p.at = "topo" => stepTrace[p.s] = p.n
        /\ \A s \in GoTos, n \in Nat \ {0} : <<s, n>> \in open =>
             s = p.s /\ n = p.n /\ p.at # "scene"
    BY <1>2 DEF OrderInv, OnePlan
  <2>2. ~Calling' /\ Atomic'
    BY <1>2, <2>1 DEF Calling, InFlight, Atomic, NoEvent, NoGoal
  <2>3. CASE PlanStep(p) \/ NoteStep(p)
    <3>1. /\ UNCHANGED activeSession
          /\ open' \in {open, open \cup {<<p.s, p.n>>}}
          /\ NoteStep(p) => stepTrace'[p.s] = p.n
      BY <1>1, <2>3 DEF PlanStep, NoteStep
    <3>2. \E q : /\ plans' = {q} /\ q.s = p.s /\ q.n = p.n /\ q.at \in {"plan", "topo"}
                 /\ q.at = "topo" => NoteStep(p)
      <4>1. \A at : LET q == [p EXCEPT !.at = at] IN q.s = p.s /\ q.n = p.n /\ q.at = at
        BY DEF NavInv, NavShape, AnyPlan
      <4>2. \/ NoteStep(p) /\ plans' = {[p EXCEPT !.at = "topo"]}
            \/ plans' = {[p EXCEPT !.at = "plan"]}
        BY <2>1, <2>3 DEF PlanStep, NoteStep
      <4> QED
        BY <4>1, <4>2
    <3> QED
      BY <2>1, <2>2, <3>1, <3>2 DEF OnePlan
  <2>4. CASE FinishRetry(p) \/ FinishAdvance(p)
    <3>1. plans' = {} /\ UNCHANGED <<activeSession, open>> /\ stepTrace'[p.s] = p.n
      BY <1>1, <2>1, <2>4 DEF FinishRetry, FinishAdvance
    <3> QED
      BY <2>1, <2>2, <3>1 DEF OnePlan
  <2>5. CASE RetryFails(p)
    <3>1. plans' = {} /\ open' = open \ {<<p.s, 0>>, <<p.s, p.n>>}
      BY <2>1, <2>5 DEF RetryFails
    <3> QED
      BY <2>1, <2>2, <3>1 DEF OnePlan
  <2> QED
    BY <2>3, <2>4, <2>5
<1> QED
  BY <1>3, <1>4 DEF OrderInv

\* An event is emitted to one listener at most, while nothing is planned.
LEMMA VisionOrder == NavInv /\ OrderInv /\ VisionStep => OrderInv'
<1> SUFFICES ASSUME NavInv, OrderInv, VisionStep PROVE OrderInv'
  OBVIOUS
<1>1. UNCHANGED <<call, activeSession, listening, open, plans, stepTrace>>
  <2>1. UNCHANGED tools
    BY DEF VisionStep, TakeFrame, Ask, Answer, Perceive, ReactiveArrived, ReactiveStuck
  <2>2. UNCHANGED listening
    BY DEF VisionStep, TakeFrame, Ask, Answer, Perceive, ReactiveArrived, ReactiveStuck, vision
  <2> QED
    BY <2>1, <2>2 DEF tools, sessions
<1>2. orderly' => orderly
  BY DEF VisionStep, TakeFrame, Ask, Answer, Perceive, ReactiveArrived, ReactiveStuck,
         Emit, StillOrderly
<1>3. \A c \in Calls : InFlight(c)' <=> InFlight(c)
  BY <1>1 DEF InFlight
<1>4. OneCall' /\ Attended'
  <2>1. \A s \in GoTos : <<s, 0>> \in open' => InFlight(s)' \/ (<<s, 0>> \in open /\ ~InFlight(s))
    BY <1>1, <1>3 DEF Calls
  <2> QED
    BY <1>1, <1>2, <1>3, <2>1, CallsKept
<1>5. OnePlan'
  <2> SUFFICES ASSUME DualLoop, orderly' PROVE OnePlan'
    BY DEF OnePlan
  <2>1. CASE UNCHANGED due
    BY <1>1, <1>2, <1>3, <2>1, PlansKept
  <2>2. CASE \E what, g : Emit(what, g, 1)
    <3>1. ~Calling /\ plans = {} /\ ~Calling'
      BY <1>3, <2>2 DEF Emit, StillOrderly, NowPlanning, Calling
    <3>2. ~Atomic' => due'.left = 1
      <4>1. listening # {} => Cardinality(listening) = 1
        <5>1. listening \subseteq {activeSession}
          BY <1>2 DEF OrderInv, Attended
        <5>2. listening # {} => listening = {activeSession}
          BY <5>1
        <5> QED
          BY <5>2, FS_Singleton
      <4> QED
        BY <2>2, <4>1 DEF Emit, Atomic
    <3> QED
      BY <1>1, <1>2, <3>1, <3>2 DEF OrderInv, OnePlan
  <2>3. (UNCHANGED due) \/ \E what, g : Emit(what, g, 1)
    BY DEF VisionStep, TakeFrame, Ask, Answer, Perceive, ReactiveArrived, ReactiveStuck
  <2> QED
    BY <2>1, <2>2, <2>3
<1> QED
  BY <1>4, <1>5 DEF OrderInv

LEMMA OrderAlways == Spec => [](NavInv /\ OrderInv)
<1>1. Init => OrderInv
  BY DEF Init, OrderInv, OneCall, Attended, OnePlan, InFlight, Calling, Atomic, Calls
<1>2. NavInv /\ OrderInv /\ UNCHANGED vars => OrderInv'
  <2> SUFFICES ASSUME NavInv, OrderInv, UNCHANGED vars PROVE OrderInv'
    OBVIOUS
  <2>1. UNCHANGED <<call, activeSession, listening, open, plans, stepTrace, due, orderly>>
    BY DEF vars, sessions, vision, history
  <2>2. \A c \in Calls : InFlight(c)' <=> InFlight(c)
    BY <2>1 DEF InFlight
  <2>3. \A s \in GoTos : <<s, 0>> \in open' => InFlight(s)' \/ (<<s, 0>> \in open /\ ~InFlight(s))
    BY <2>1, <2>2 DEF Calls
  <2> QED
    BY <2>1, <2>2, <2>3, CallsKept, PlansKept DEF OrderInv
<1>3. NavInv /\ TraceInv /\ OrderInv /\ [Next]_vars => OrderInv'
  BY <1>2, ToolsOrder, NotifyOrder, PlanningOrder, VisionOrder DEF Next, SessionStep
<1> QED
  BY <1>1, <1>3, TraceAlways, PTL DEF Spec

\* Calls and events that come one at a time leave no listener of a session that is
\* over on the loop, and no GOAL trace open that nothing will end.
THEOREM SessionsAreAttended == Spec => []Attended
<1>1. OrderInv => Attended
  BY DEF OrderInv
<1> QED
  BY <1>1, OrderAlways, PTL

\* With the two loops, a session that is aborted, replaced, finished or given up
\* leaves none of its traces open, the trace of a step still being planned included.
THEOREM AbortsCloseTraces == ASSUME DualLoop PROVE Spec => []AbortClosesTraces
<1>1. NavInv /\ OrderInv => AbortClosesTraces
  <2> SUFFICES ASSUME NavInv, OrderInv, orderly, NEW s \in GoTos, NEW n \in Nat,
                      call[s] = "done", activeSession # s
               PROVE  <<s, n>> \notin open
    BY BoundsAssumption DEF AbortClosesTraces, MaxPlans
  <2>1. CASE n = 0
    BY <2>1 DEF OrderInv, Attended, InFlight
  <2>2. CASE n # 0
    BY <2>2 DEF OrderInv, OnePlan
  <2> QED
    BY <2>1, <2>2
<1> QED
  BY <1>1, OrderAlways, PTL
=============================================================================
