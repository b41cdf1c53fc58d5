----------------------------- MODULE ScenarioRun -----------------------------
(****************************************************************************)
(* One dream scenario (dream_simulator/scenario_runner.ts): frame by frame  *)
(* the model is asked for a command, the scene takes it, and the run looks  *)
(* for being stuck, for oscillating, for the goal and for a stop, in this   *)
(* order.                                                                   *)
(****************************************************************************)
EXTENDS TextScene, Sequences

CONSTANTS
  Starts,        \* startPose of the scenarios
  MaxFrames,     \* scenario.maxFrames
  StuckAfter,    \* stuckThreshold: repetitions of one opcode
  MaxStuck,      \* maxStuckRetries
  ProgressMin       \* stuckProgressThresholdCm, in the way of a frame

ASSUME ScenarioAssumption ==
  /\ Starts \subseteq [at : Points, h : Sectors]
  /\ MaxFrames \in Nat \ {0} /\ StuckAfter \in Nat \ {0} /\ MaxStuck \in Nat \ {0} /\ ProgressMin \in Nat

VARIABLES
  scene,         \* the simulator's robot
  frames,        \* frameLog.length
  last,          \* lastOpcode
  repeats,       \* consecutiveIdentical
  checked,       \* stuckCheckPose
  recent,        \* recentOpcodes
  stuckCount,
  outcome        \* of the run, or "running"

scenarioVars == <<scene, frames, last, repeats, checked, recent, stuckCount, outcome>>

Wheels(op, l, r) == [op |-> op, left |-> l, right |-> r]
Stop == Wheels("STOP", 0, 0)
\* What can be compiled: a rejected inference and an answer that is no command are a STOP.
Moves == {Wheels("MOVE_FORWARD", 1, 1), Wheels("MOVE_FORWARD", 0, 0), Wheels("MOVE_BACKWARD", 1, 1),
             Wheels("TURN_LEFT", 0, 1), Wheels("TURN_RIGHT", 1, 0),
             Wheels("ROTATE_CW", 0, 0), Wheels("ROTATE_CCW", 0, 0), Stop}
Ops == {c.op : c \in Moves}

ScenarioInit ==
  /\ scene \in Starts /\ frames = 0 /\ last = "none" /\ repeats = 0 /\ checked = scene.at
  /\ recent = <<>> /\ stuckCount = 0 /\ outcome = "running"

isComplementaryPair(a, b) ==
  {a, b} \in {Rotations, Turns, {"MOVE_FORWARD", "MOVE_BACKWARD"}}
isOscillating(ops) ==
  Len(ops) = 4 /\ ops[1] = ops[3] /\ ops[2] = ops[4] /\ isComplementaryPair(ops[1], ops[2])

\* The window of one opcode: full, and what it is then counted as.
Repeated(c) == IF c.op = last /\ c.op # "STOP" THEN repeats + 1 ELSE 0
NoProgress(p) == Square(p, checked) < ProgressMin * ProgressMin

\* Slip: the count of the window goes on behind its end.
AfterWindowGoingOn(n) == n
AfterWindow(n) == IF n >= StuckAfter THEN 0 ELSE n
Slide(op) == IF Len(recent) = 4 THEN Append(Tail(recent), op) ELSE Append(recent, op)

\* What the frame of c is judged: no progress in a full window, a pair of commands
\* that undo each other twice, and the detections that makes.
Full(c) == Repeated(c) >= StuckAfter
Stuck(c) == Full(c) /\ NoProgress(applyCommand(scene, c).at)
Oscillates(c) == isOscillating(Slide(c.op))
Detections(c) == stuckCount + (IF Stuck(c) THEN 1 ELSE 0) + (IF Oscillates(c) THEN 1 ELSE 0)
StuckTooOften(c) == Stuck(c) /\ stuckCount + 1 >= MaxStuck
GaveUp(c) == StuckTooOften(c) \/ (Oscillates(c) /\ Detections(c) >= MaxStuck)

\* STOP declares the arrival; it is believed up to half a threshold too far.
Believed(s) == 4 * Square(s.at, Target) <= 9 * (Threshold * Threshold)
Arrived(s, c) == GoalReached(s) \/ (c.op = "STOP" /\ Believed(s))

\* Stuck, oscillating, goal, stop, in this order, and the end of the frames.
Verdict(s, c, n) ==
  CASE GaveUp(c) -> "failure"
    [] ~GaveUp(c) /\ Arrived(s, c) -> "success"
    [] ~GaveUp(c) /\ ~Arrived(s, c) /\ n < MaxFrames -> IF c.op = "STOP" THEN "partial" ELSE "running"
    [] OTHER -> "failure"

\* One turn of the loop.
Turn(c) ==
  /\ scene' = applyCommand(scene, c) /\ frames' = frames + 1 /\ last' = c.op
  /\ repeats' = AfterWindow(Repeated(c))
  /\ checked' = IF Full(c) /\ ~StuckTooOften(c) THEN scene'.at ELSE checked
  /\ recent' = IF Oscillates(c) THEN <<>> ELSE Slide(c.op)
  /\ stuckCount' = Detections(c)
  /\ outcome' = Verdict(scene', c, frames')

Frame == outcome = "running" /\ frames < MaxFrames /\ \E c \in Moves : Turn(c)

ScenarioSpec == ScenarioInit /\ [][Frame]_scenarioVars /\ WF_scenarioVars(Frame)

\* Types of every variable.
ScenarioTypeOK ==
  /\ scene \in [at : Points, h : Sectors] /\ checked \in Points
  /\ frames \in 0 .. MaxFrames /\ last \in Ops \cup {"none"} /\ repeats \in 0 .. StuckAfter - 1
  /\ recent \in Seq(Ops) /\ Len(recent) <= 4 /\ stuckCount \in 0 .. MaxStuck
  /\ outcome \in {"running", "success", "failure", "partial"}

\* A success ended within one and a half thresholds of the target; a failure on
\* the target is only that of the run that gave up on the very frame it came.
OutcomeIsRight ==
  /\ outcome = "success" => 4 * Square(scene.at, Target) <= 9 * (Threshold * Threshold)
  /\ outcome \in {"failure", "partial"} /\ GoalReached(scene) => stuckCount >= MaxStuck

\* A run is given up no sooner than the windows that condemn it can have
\* passed: no repetition is counted twice.
AbortIsEarned ==
  outcome = "failure" /\ frames < MaxFrames => frames > MaxStuck * Min({StuckAfter, 3})

\* The rotation the text recommends turns the robot towards the target.
RotationFacesTarget ==
  [][last' \in Rotations \cap Recommended(scene) =>
       Magnitude(Relative(Bearing(scene.at, Target), scene'.h)) < Magnitude(Offset(scene))]_scenarioVars

\* bytecode_compiler.ts: "Target bearing > +15deg -> rotate_cw or turn_right to
\* face it", and the text recommends the same.
TurnFacesTarget ==
  [][last' \in Turns \cap Recommended(scene) =>
       Magnitude(Relative(Bearing(scene.at, Target), scene'.h)) < Magnitude(Offset(scene))]_scenarioVars

\* A dreamt scenario is judged by what happened in it, and its text is a fair guide.
ScenarioIsFair == [][OutcomeIsRight' /\ AbortIsEarned']_scenarioVars /\ RotationFacesTarget
=============================================================================
