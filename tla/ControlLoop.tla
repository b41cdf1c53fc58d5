---------------------------- MODULE ControlLoop ----------------------------
(****************************************************************************)
(* The overhead dual loop.  SemanticLoop asks a model what the overhead     *)
(* camera shows and puts the answer, some time later, into the scene graph; *)
(* ReactiveLoop, many ticks per answer, decides on that graph with          *)
(* ReactiveController and lets ReflexGuard veto.  The robot moves between   *)
(* ticks, and a frame can be lost on its way to it.                         *)
(****************************************************************************)
EXTENDS SceneGraph, Sequences

CONSTANTS
  Things,          \* what stands in the arena: their names are their labels
  Points,          \* goals that are coordinates
  Where,           \* [Things \cup Points -> node]: the box of each
  Resembles,       \* [Things \cup Points -> SUBSET Things]: labels with a word in common
  RobotStart,      \* the robot's box and pose at first
  Cruise, Approach, ApproachDistance, Arrival,   \* ReactiveController's numbers, per tick
  WindowTicks, Margin,     \* the guard's predictionWindowMs in ticks, safetyMarginCm
  StuckTicks, StuckProgress,
  EdgeX, EdgeY     \* bounds: the arena is 0 .. EdgeX by 0 .. EdgeY

Goals == Things \cup Points
NoGoal == "none"
Nodes == [x : Int, y : Int, w : Nat, h : Nat, heading : 0 .. 3]

\* The approach is no faster than the cruise; no text of a goal is a word the loops use.
ASSUME ControlAssumption ==
  /\ NoGoal \notin Goals /\ "explore" \notin Goals
  /\ Where \in [Goals -> Nodes] /\ RobotStart \in Nodes
  /\ Resembles \in [Goals -> SUBSET Things]
  /\ Cruise \in Nat \ {0} /\ Approach \in 0 .. Cruise
  /\ WindowTicks \in Nat /\ Margin \in Nat

STOP == [op |-> "stop", speed |-> 0]

\* For how many ticks the guard's sweep at the slower speed covers the faster one.
Fresh == (Approach * WindowTicks + Margin) \div Cruise
LagMax == Fresh + 2    \* bound: an older pose is just old

VARIABLES
  truth,     \* the robot's box and pose
  believed,  \* graph.robot: [pose, lag: ticks since its capture, turned: a turn since]
  known,     \* the things that are nodes of the graph
  wanted,    \* SemanticLoop.goal, a text
  answered,  \* wanted was a node or a point at an answer since it was set
  asked,     \* inferences in flight: what their frames show, oldest first
  goal,      \* ReactiveLoop.goal
  running,   \* both loops
  distanceHistory,
  motor,     \* the command the robot executes and what it was decided on
  flat       \* ticks in a row without progress to the same goal that nobody was told of

controlVars == <<truth, believed, known, wanted, answered, asked, goal, running,
                 distanceHistory, motor, flat>>

Seen(pose) == [pose |-> pose, lag |-> 0, turned |-> FALSE]
Aged(s, turn) == [s EXCEPT !.lag = Least(@ + 1, LagMax), !.turned = @ \/ turn]
Running(cmd) == [cmd |-> cmd, lag |-> believed.lag, turned |-> believed.turned,
                 checked |-> known]

ControlInit ==
  /\ truth = RobotStart /\ believed = Seen(RobotStart) /\ known = {}
  /\ wanted \in Goals /\ answered = FALSE /\ asked = <<>> /\ goal = NoGoal
  /\ running = FALSE /\ distanceHistory = <<>> /\ motor = [cmd |-> STOP, lag |-> 0, turned |-> FALSE, checked |-> {}] /\ flat = 0

-----------------------------------------------------------------------------
(* ReactiveController.decide *)

\* |bearing| <= turnThresholdDeg, whose tangent is 0.268.
Aligned(dx, dy, heading) ==
  LET ahead == dx * Along[heading] + dy * Across[heading]
      aside == dy * Along[heading] - dx * Across[heading]
  IN 1000 * Magnitude(aside) <= 268 * ahead

decide(robot, g) ==
  LET dx == Where[g].x - robot.x
      dy == Where[g].y - robot.y
      distance == Hypot(dx, dy)
      aside == dy * Along[robot.heading] - dx * Across[robot.heading]
      cmd == CASE g \in Things \ known -> [STOP EXCEPT !.op = "no_target"]
               [] Square(dx) + Square(dy) <= Square(Arrival) -> [STOP EXCEPT !.op = "arrived"]
               [] ~Aligned(dx, dy, robot.heading) ->
                    [op |-> IF aside >= 0 THEN "rotate_ccw" ELSE "rotate_cw", speed |-> 0]
               [] OTHER -> [op |-> "forward",
                            speed |-> IF distance < ApproachDistance THEN Approach ELSE Cruise]
  IN [cmd |-> cmd, distance |-> distance]

\* Slip: the margin is not added.
SweepBare(cmd) == cmd.speed * WindowTicks

\* ReflexGuard.decide in active mode: how far it looks ahead of a command.
Sweep(cmd) == cmd.speed * WindowTicks + Margin

Veto(cmd) ==
  cmd.op = "forward"
    /\ predictForwardCollision(believed.pose, {Where[t] : t \in known}, Sweep(cmd)) # {}

\* What the robot may have done until the next tick: it is as fast as it is told or
\* slower, and it does not leave the arena.
Step(pose, n) == [pose EXCEPT !.x = @ + Along[pose.heading] * n,
                              !.y = @ + Across[pose.heading] * n]
Moved(cmd) ==
  CASE cmd.op = "forward" -> {p \in {Step(truth, n) : n \in 0 .. cmd.speed} :
                                p.x \in 0 .. EdgeX /\ p.y \in 0 .. EdgeY}
    [] cmd.op = "rotate_ccw" -> {truth, [truth EXCEPT !.heading = (@ + 1) % 4]}
    [] cmd.op = "rotate_cw" -> {truth, [truth EXCEPT !.heading = (@ + 3) % 4]}
    [] OTHER -> {truth}

\* Between two ticks: the robot moves, what was seen of it gets older.
Elapse(m) ==
  \E p \in Moved(m.cmd) :
    LET turn == p.heading # truth.heading
    IN /\ truth' = p
       /\ motor' = Aged(m, turn)
       /\ believed' = Aged(believed, turn)
       /\ asked' = [i \in DOMAIN asked |-> Aged(asked[i], turn)]

\* transmitter.send(): it arrives or not.
Sends(cmd) ==
  \E m \in {motor, Running(cmd)} : Elapse(m)

-----------------------------------------------------------------------------
(* ReactiveLoop.tick *)

TickIdle ==
  /\ running /\ goal = NoGoal
  /\ Sends(STOP)
  /\ UNCHANGED <<known, wanted, answered, goal, running, distanceHistory, flat>>

\* Step 6, the window of distances.
Pushed(d) ==
  LET h == Append(distanceHistory, d)
  IN IF Len(h) > StuckTicks THEN Tail(h) ELSE h
Stuck(h, cmd) ==
  Len(h) >= StuckTicks /\ h[1] - h[Len(h)] < StuckProgress /\ cmd.op # "no_target"

TickDecides ==
  /\ running /\ goal # NoGoal
  /\ LET d == decide(believed.pose, goal)
         out == IF Veto(d.cmd) THEN STOP ELSE d.cmd
         h == Pushed(d.distance)
     IN IF d.cmd.op = "arrived"
        THEN /\ running' = FALSE /\ flat' = 0
             /\ Sends(STOP)
             /\ UNCHANGED distanceHistory
        ELSE /\ UNCHANGED running
             /\ Sends(out)
             /\ distanceHistory' = IF Stuck(h, d.cmd) THEN <<>> ELSE h
             /\ flat' = IF Stuck(h, d.cmd) \/ d.cmd.op = "no_target"
                             \/ (distanceHistory # <<>>
                                   /\ distanceHistory[Len(distanceHistory)] - d.distance
                                        >= StuckProgress)
                        THEN 0 ELSE Least(flat + 1, StuckTicks + 1)
  /\ UNCHANGED <<known, wanted, answered, goal>>

\* While the loop is stopped nothing is sent after the last STOP.
Rest ==
  /\ ~running
  /\ Elapse(motor)
  /\ UNCHANGED <<known, wanted, answered, goal, running, distanceHistory, flat>>

\* VisionLoop.start and stop, of both loops: the goals stay.
StartLoops ==
  /\ ~running
  /\ running' = TRUE /\ distanceHistory' = <<>> /\ flat' = 0
  /\ UNCHANGED <<truth, believed, known, wanted, answered, asked, goal, motor>>

StopLoops ==
  /\ running
  /\ running' = FALSE
  /\ motor' \in {motor, Running(STOP)}
  /\ UNCHANGED <<truth, believed, known, wanted, answered, asked, goal, distanceHistory, flat>>

-----------------------------------------------------------------------------
(* SemanticLoop *)

\* setGoal(), by a tool of the planner.
Want(w) ==
  /\ w # wanted
  /\ wanted' = w /\ answered' = FALSE
  /\ UNCHANGED <<truth, believed, known, asked, goal, running, distanceHistory, motor, flat>>

\* tick(): unless an inference is in flight, ask about the buffered frames.
Perceive ==
  /\ running /\ asked = <<>>
  /\ asked' = Append(asked, Seen(truth))
  /\ UNCHANGED <<truth, believed, known, wanted, answered, goal, running, distanceHistory,
                 motor, flat>>

\* resolveGoalFromText(): a coordinate, the node of that label, or the best of those
\* whose label looks like it.
resolveGoalFromText(text, nodes) ==
  IF text \in Points \cup nodes THEN {text}
  ELSE IF Resembles[text] \cap nodes = {} THEN {"explore"}
  ELSE Resembles[text] \cap nodes

Without(i) == [j \in 1 .. Len(asked) - 1 |-> asked[IF j < i THEN j ELSE j + 1]]

\* Slip: a goal is only handed over when the fast loop has none.
AnswerOnce(i) ==
  /\ asked' = Without(i)
  /\ \E S \in SUBSET Things : known' = known \cup S
  /\ believed' \in {believed, asked[i]}
  /\ \E g \in resolveGoalFromText(wanted, known') :
       /\ answered' = (answered \/ g = wanted)
       /\ IF g = "explore" \/ goal # NoGoal
          THEN UNCHANGED <<goal, distanceHistory, flat>>
          ELSE goal' = g /\ distanceHistory' = <<>> /\ UNCHANGED flat
  /\ UNCHANGED <<truth, wanted, running, motor>>

\* processPerception() after its await: the things it found go into the graph, the
\* robot with the pose it had, the goal is resolved, and VisionLoop's handler hands
\* it to the ReactiveLoop, running or not.
Answer(i) ==
  /\ asked' = Without(i)
  /\ \E S \in SUBSET Things : known' = known \cup S
  /\ believed' \in {believed, asked[i]}
  /\ \E g \in resolveGoalFromText(wanted, known') :
       /\ answered' = (answered \/ g = wanted)
       /\ IF g = "explore"
          THEN UNCHANGED <<goal, distanceHistory, flat>>
          ELSE /\ goal' = g /\ distanceHistory' = <<>>
               /\ flat' = IF g = goal THEN flat ELSE 0
  /\ UNCHANGED <<truth, wanted, running, motor>>

\* The inference fails: nothing but the error event.
AnswerFails(i) ==
  /\ asked' = Without(i)
  /\ UNCHANGED <<truth, believed, known, wanted, answered, goal, running, distanceHistory,
                 motor, flat>>

ControlNext ==
  \/ TickIdle \/ TickDecides \/ Rest \/ StartLoops \/ StopLoops \/ Perceive
  \/ \E w \in Goals : Want(w)
  \/ \E i \in DOMAIN asked : Answer(i) \/ AnswerFails(i)

ControlSpec == ControlInit /\ [][ControlNext]_controlVars

-----------------------------------------------------------------------------
(* Properties *)

Touching(pose) == {t \in Things : aabbIntersect(WorldAABB(pose), WorldAABB(Where[t]))}

\* The robot comes to touch a thing only when it did not know it at the command it
\* executes, or decided on a pose older than the guard looks ahead, or turned since.
BumpIsBlind ==
  [][\A t \in motor'.checked \cap (Touching(truth') \ Touching(truth)) :
       motor'.lag > Fresh \/ motor'.turned]_controlVars

\* Whatever was asked when, once an answer could tell where the wanted goal is, the fast
\* loop goes there and nowhere else.
GoalFollows == answered => goal = wanted

\* The pose the fast loop decides on never goes back to an older frame.
PoseAdvances == [][believed' = believed \/ believed'.lag <= believed.lag + 1]_controlVars

\* reactive_loop.ts:19, "Emits 'stuck' when no progress toward goal for N ticks".
StuckIsTold == flat <= StuckTicks

\* The slow loop serves the fast one: its goal is the one wanted last, and its pose
\* never an older one.
LoopsAgree == [][GoalFollows']_controlVars /\ PoseAdvances
=============================================================================
