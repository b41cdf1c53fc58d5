------------------------------ MODULE TextScene ------------------------------
(****************************************************************************)
(* The world robots dream in (dream_simulator/text_scene.ts): what a        *)
(* command does to the robot and what the text of a frame says of it.       *)
(* Lengths are counted in the way of one full-speed frame, headings in      *)
(* eighths of a turn from north, clockwise, and the arc of a turn is one    *)
(* eighth.  Nothing stops the robot: walls only colour the text.            *)
(****************************************************************************)
EXTENDS Integers, FiniteSets, FiniteSetsExt

CONSTANTS
  Target,        \* the target's position
  Threshold      \* goalThresholdCm

Sectors == 0 .. 7
Points == [x : Int, y : Int]

ASSUME SceneAssumption == Target \in Points /\ Threshold \in Nat

Turned(h, n) == (h + n) % 8
\* normalizeDeg(bearing - heading + 180) - 180: positive to the right.
Relative(bearing, h) == ((bearing - h + 4) % 8) - 4
Magnitude(n) == IF n < 0 THEN -n ELSE n
Sign(n) == IF n > 0 THEN 1 ELSE IF n < 0 THEN -1 ELSE 0
East(h) == IF h \in 1 .. 3 THEN 1 ELSE IF h \in 5 .. 7 THEN -1 ELSE 0
North(h) == East(Turned(h, 2))

Shifted(p, h, n) == [x |-> p.x + n * East(h), y |-> p.y + n * North(h)]
Square(p, q) == (p.x - q.x) * (p.x - q.x) + (p.y - q.y) * (p.y - q.y)

\* applyDrive(): along the heading by the mean of the wheels, then round by
\* their difference, the right one minus the left one.
applyDrive(s, left, right) ==
  [at |-> Shifted(s.at, s.h, Sign(left + right)), h |-> Turned(s.h, Sign(right - left))]

\* applyCommand(): the wheels as fractions, a rotation by one sector.
Turns == {"TURN_LEFT", "TURN_RIGHT"}
Rotations == {"ROTATE_CW", "ROTATE_CCW"}
applyCommand(s, c) ==
  CASE c.op \in Turns \cup {"MOVE_FORWARD"} -> applyDrive(s, c.left, c.right)
    [] c.op = "MOVE_BACKWARD" -> applyDrive(s, -c.left, -c.right)
    [] c.op = "ROTATE_CW" -> [s EXCEPT !.h = Turned(s.h, 1)]
    [] c.op = "ROTATE_CCW" -> [s EXCEPT !.h = Turned(s.h, -1)]
    [] c.op = "STOP" -> s

\* getBearing(): the sector the target is in; north when the robot is on it.
Bearing(p, q) ==
  LET dx == q.x - p.x
      dy == q.y - p.y
      most == Max({Magnitude(dx), Magnitude(dy)})
      Part(d) == IF 5 * Magnitude(d) > 2 * most THEN Sign(d) ELSE 0
  IN IF p = q THEN 0 ELSE CHOOSE h \in Sectors : East(h) = Part(dx) /\ North(h) = Part(dy)

\* renderFrame(): goalReached, and the recommendation of describeScene().
TargetWithin(s, d) == Square(s.at, Target) <= d * d
GoalReached(s) == TargetWithin(s, Threshold)
Offset(s) == Relative(Bearing(s.at, Target), s.h)
Recommended(s) ==
  CASE Square(s.at, Target) < Threshold * Threshold -> {"STOP"}
    [] Square(s.at, Target) >= Threshold * Threshold /\ Offset(s) > 0 -> {"TURN_RIGHT", "ROTATE_CW"}
    [] Square(s.at, Target) >= Threshold * Threshold /\ Offset(s) < 0 -> {"TURN_LEFT", "ROTATE_CCW"}
    [] OTHER -> {"MOVE_FORWARD"}
=============================================================================
