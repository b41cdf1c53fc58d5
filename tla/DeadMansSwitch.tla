--------------------------- MODULE DeadMansSwitch ----------------------------
(****************************************************************************)
(* What the firmware promises to whoever watches the robot, with no frame,  *)
(* clock wrap-round or loop order in it: motion lives on a budget of time   *)
(* that only a fresh command renews, running out of it latches, and the     *)
(* latch opens only with the robot at rest.                                 *)
(****************************************************************************)
EXTENDS Integers

CONSTANTS
  Moves,    \* the motions a command can ask for
  Idle,     \* no motion
  Braking,  \* a motion cut short
  Timeout   \* time units a motion outlives the last thing heard

VARIABLES
  motion,   \* Idle, Braking or the motion under way
  latched,  \* no motion can start
  quiet     \* while a motion is under way, how long nothing was heard

vars == <<motion, latched, quiet>>

Init == motion = Idle /\ latched = FALSE /\ quiet = 0

\* Something valid was heard that is not a halt: it renews the budget, and may
\* start a motion if the switch is not latched.
Hear ==
  /\ quiet' = 0
  /\ UNCHANGED latched
  /\ \/ UNCHANGED motion
     \/ ~latched /\ motion' \in Moves

Halt == motion' = Idle /\ latched' = FALSE /\ quiet' = 0

Elapse ==
  /\ motion \in Moves
  /\ quiet <= Timeout
  /\ quiet' = quiet + 1
  /\ UNCHANGED <<motion, latched>>

\* A motion is cut only after its whole budget; at rest the switch may latch.
Expire ==
  /\ motion \in Moves => quiet > Timeout
  /\ motion' = IF motion = Idle THEN Idle ELSE Braking
  /\ latched' = TRUE
  /\ quiet' = 0

Settle ==
  /\ motion # Idle
  /\ motion' = Idle
  /\ quiet' = 0
  /\ UNCHANGED latched

Next == Hear \/ Halt \/ Elapse \/ Expire \/ Settle

Spec == Init /\ [][Next]_vars
=============================================================================
