------------------------------- MODULE SimRun ------------------------------
(****************************************************************************)
(* One goal in the simulator (scripts/run_sim3d.ts): the legacy path of the *)
(* vision loop with SceneGraphPolicy, the bridge that moves from target to  *)
(* target, the status poll that confirms arrival over UDP, the collector    *)
(* that labels the trace, and the two ways to the end of the process.       *)
(****************************************************************************)
EXTENDS Integers, FiniteSets

CONSTANTS
  Targets,       \* number of targets of the scenario
  PollsMax,      \* bound: status answers under way
  FramesMax      \* bound: frames the collector counts

ASSUME SimRunAssumption == Targets \in Nat \ {0} /\ PollsMax \in Nat \ {0}

VARIABLES
  near,          \* the target the robot is within the radius of, or 0
  moving,        \* the last command was a motion
  target,        \* the bridge's currentTargetIndex, from 1
  goalReached,   \* the bridge's
  running,       \* VisionLoop.running
  goal,          \* VisionLoop.currentGoal
  asking,        \* the goal of the frame the policy is working on, or 0
  lastSeen,      \* lastSeenTargetIndex, from 1
  answers,       \* status answers under way, in no order
  polling,       \* ~goalPollStopped
  collector,     \* Sim3DTraceCollector: [collecting, frames, outcome]
  main,          \* "waiting" for the vision loop, or "writing" or "gone"
  shutdown,      \* the signal handler: "none", "stopping", "writing"
  written        \* outcomes of the traces written

worldVars == <<near, moving, target, goalReached>>
loopVars == <<running, goal, asking>>
pollVars == <<lastSeen, answers, polling>>
endVars == <<main, shutdown, written>>
simRunVars == <<worldVars, loopVars, pollVars, collector, endVars>>

SimRunInit ==
  /\ near = 0 /\ moving = FALSE /\ target = 1 /\ goalReached = FALSE
  /\ running = TRUE /\ goal = 1 /\ asking = 0
  /\ lastSeen = 1 /\ answers = {} /\ polling = TRUE
  /\ collector = [collecting |-> TRUE, frames |-> 0, outcome |-> "unknown"]
  /\ main = "waiting" /\ shutdown = "none" /\ written = {}

Alive == main # "gone"

\* A moving robot comes near a target, or leaves it.
Drive ==
  /\ moving /\ \E n \in 0 .. Targets : near' = n
  /\ UNCHANGED <<moving, target, goalReached, loopVars, pollVars, collector, endVars>>

\* The bridge hears a pose: the next target, or the goal, reached or not.
TargetPose ==
  /\ IF near = target /\ target < Targets
       THEN target' = target + 1 /\ goalReached' = FALSE
       ELSE target' = target /\ goalReached' = (near = target)
  /\ UNCHANGED <<near, moving, loopVars, pollVars, collector, endVars>>

-----------------------------------------------------------------------------
(* The vision loop and its policy.                                          *)

\* handleFrame() and the first part of processFrame(): the robot stops to look.
FrameToPolicy ==
  /\ Alive /\ running /\ asking = 0
  /\ asking' = goal /\ moving' = FALSE
  /\ UNCHANGED <<near, target, goalReached, running, goal, pollVars, collector, endVars>>

\* Sim3DTraceCollector: every command is a frame; trouble labels a trace that has no label
\* yet; on an arrival run_sim3d.ts calls setOutcome() whatever the label is.
Labelled(outcome, label) == IF outcome = "unknown" THEN label ELSE outcome
onBytecode(c) == [c EXCEPT !.frames = IF c.collecting /\ @ < FramesMax THEN @ + 1 ELSE @]
onArrival(c) == [c EXCEPT !.outcome = "success"]
onTrouble(c) == [c EXCEPT !.outcome = IF c.collecting THEN Labelled(@, "failure") ELSE @]

\* SceneGraphPolicy.processFrame(): STOP without objects, STOP without a target among
\* them, and else what the controller decides; it stops where the target is.
Decisions == (IF near = asking THEN {"arrived"} ELSE {"motion"}) \cup {"blind", "no_target"}

\* The rest of VisionLoop.processFrame(): whatever the loop has become, the command is
\* sent; a STOP is announced as an arrival; a motion may complete a low-entropy window
\* or the step time.
PolicyDecides ==
  /\ Alive /\ asking # 0 /\ asking' = 0
  /\ \E decision \in Decisions :
       /\ moving' = (decision = "motion")
       /\ \/ collector' = (IF decision = "motion" THEN onBytecode(collector)
                                                 ELSE onArrival(onBytecode(collector)))
          \/ decision = "motion" /\ collector' = onTrouble(onBytecode(collector))
  /\ UNCHANGED <<near, target, goalReached, running, goal, pollVars, endVars>>

\* The inference fails, or the robot hears nothing of the answer.
PolicyFails ==
  /\ Alive /\ asking # 0 /\ asking' = 0
  /\ UNCHANGED <<worldVars, running, goal, pollVars, collector, endVars>>

-----------------------------------------------------------------------------
(* The status poll.                                                         *)

StatusAsked ==
  /\ Alive /\ polling /\ Cardinality(answers) < PollsMax
  /\ answers' = answers \cup {[target |-> target, reached |-> goalReached]}
  /\ UNCHANGED <<worldVars, loopVars, lastSeen, polling, collector, endVars>>

StatusLost ==
  /\ \E a \in answers : answers' = answers \ {a}
  /\ UNCHANGED <<worldVars, loopVars, lastSeen, polling, collector, endVars>>

\* Slip: a target that is not later than the last one counts too.
AdvancesAny(a) == a.target # lastSeen

\* A later target becomes the goal of the loop.
Advances(a) == a.target > lastSeen
Confirms(a) == a.reached

\* VisionLoop.confirmArrival(): 'arrival' and stop().
confirmArrival == running' = FALSE /\ collector' = onArrival(collector)

StatusHeard ==
  /\ Alive /\ polling
  /\ \E a \in answers :
       /\ answers' = answers \ {a}
       /\ lastSeen' = IF Advances(a) THEN a.target ELSE lastSeen
       /\ goal' = IF Advances(a) THEN a.target ELSE goal
       /\ polling' = ~Confirms(a)
       /\ \/ Confirms(a) /\ confirmArrival /\ moving' = FALSE
          \/ ~Confirms(a) /\ UNCHANGED <<running, collector, moving>>
  /\ UNCHANGED <<near, target, goalReached, asking, endVars>>

-----------------------------------------------------------------------------
(* The end: the loop found stopped by the timer of main(), or a signal.     *)

\* writeCollectedTraces(): nothing to write without a frame.
writeCollectedTraces ==
  /\ collector' = [collector EXCEPT !.collecting = FALSE]
  /\ written' = IF collector.frames = 0 THEN written ELSE written \cup {collector.outcome}

NavigationCompleted ==
  /\ main = "waiting" /\ ~running
  /\ main' = "writing" /\ writeCollectedTraces
  /\ UNCHANGED <<worldVars, loopVars, pollVars, shutdown>>

\* The signal handlers: the poll ends, robot.stop stops the loop and the robot.
Signal ==
  /\ Alive /\ shutdown = "none"
  /\ shutdown' = "stopping" /\ polling' = FALSE /\ running' = FALSE /\ moving' = FALSE
  /\ UNCHANGED <<near, target, goalReached, goal, asking, lastSeen, answers, collector,
                 main, written>>
ShutdownWrites ==
  /\ Alive /\ shutdown = "stopping"
  /\ shutdown' = "writing" /\ writeCollectedTraces
  /\ UNCHANGED <<worldVars, loopVars, pollVars, main>>

\* process.exit() of whichever gets there first.
Exit ==
  /\ Alive /\ (main = "writing" \/ shutdown = "writing")
  /\ main' = "gone"
  /\ UNCHANGED <<worldVars, loopVars, pollVars, collector, shutdown, written>>

VisionTurn == FrameToPolicy \/ PolicyDecides \/ PolicyFails
Ending == NavigationCompleted \/ ShutdownWrites \/ Exit
SimRunNext == Drive \/ TargetPose \/ VisionTurn \/ StatusAsked \/ StatusLost \/ StatusHeard
              \/ Signal \/ Ending
\* An answer of the bridge that confirms the target is not lost for ever.
ConfirmationHeard == StatusHeard /\ \E a \in answers : Confirms(a) /\ a \notin answers'
SimRunFairness ==
  /\ WF_simRunVars(TargetPose) /\ WF_simRunVars(StatusAsked) /\ WF_simRunVars(StatusHeard)
  /\ WF_simRunVars(Ending)
  /\ SF_simRunVars(ConfirmationHeard)
SimRunSpec == SimRunInit /\ [][SimRunNext]_simRunVars /\ SimRunFairness

-----------------------------------------------------------------------------
\* However late or out of order the status answers come, the goal of the loop only
\* moves forward along the targets, and never past the one the bridge is at.
GoalMovesForward == [][goal' >= goal /\ goal' <= target']_simRunVars

\* A trace that was labelled a success stays one until it is written, and a run that
\* physics confirmed is a success.
SuccessIsKept ==
  [][collector.outcome = "success" => collector'.outcome = "success"]_simRunVars

\* A robot that stays at the last target ends the run with a trace, if it sent anything.
StaysAtGoal == target = Targets /\ near = Targets
SimulationEnds == <>[]StaysAtGoal => <>(main = "gone")

\* run_sim3d.ts: "Also track physics-confirmed arrival in the collector": a trace that
\* says success was one in which the robot got to the last target.
SuccessIsArrival == "success" \in written => target = Targets

\* The trace of a run tells the truth: the goals it is about were reached in order, and
\* a success that physics confirmed is not relabelled by what comes late.
TraceIsTrue == GoalMovesForward /\ SuccessIsKept
=============================================================================
