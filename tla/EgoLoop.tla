------------------------------ MODULE EgoLoop ------------------------------
(****************************************************************************)
(* The egocentric dual loop: SemanticLoop turns what the model found in the *)
(* robot's own view into a target and obstacles, and EgocentricReactiveLoop *)
(* steers by the last of these at every tick, under EgocentricReflexGuard.  *)
(* Boxes are in tenths of the frame.                                        *)
(****************************************************************************)
EXTENDS Integers, Sequences, SequencesExt

CONSTANTS
  Finds,          \* what an answer may hold: [xmin, xmax, ymin, ymax, is_target]
  FindsMax,       \* bound: how many finds an answer has
  EgoStuckTicks   \* stuckThresholdTicks

ASSUME EgoAssumption ==
  /\ Finds \subseteq [xmin : 0 .. 10, xmax : 0 .. 10, ymin : 0 .. 10, ymax : 0 .. 10,
                      is_target : BOOLEAN]
  /\ EgoStuckTicks \in Nat \ {0} /\ FindsMax \in Nat

VARIABLES
  egoRunning,
  egoInFlight,    \* an inference is in flight
  found,          \* the finds of the last answer
  lastPerception, \* lastEgoPerception: [target: a set of at most one box, obstacles]
  guardObstacles, \* EgocentricReflexGuard.obstacles
  searchTicks,
  lostFor,        \* ticks in a row without a target that nobody was told of
  egoMotor        \* the command of the last tick

egoVars == <<egoRunning, egoInFlight, found, lastPerception, guardObstacles, searchTicks,
             lostFor, egoMotor>>

\* convertToEgoPerception(): the first find marked is the target, all others obstacles.
convertToEgoPerception(finds) ==
  LET marked == {i \in DOMAIN finds : finds[i].is_target}
      first == {i \in marked : \A j \in marked : i <= j}
  IN [target |-> {finds[i] : i \in first},
      obstacles |-> {finds[i] : i \in DOMAIN finds \ first}]

Centre(f) == f.xmin + f.xmax - 10                        \* cx - 0.5, in 20ths
Size(f) == (f.xmax - f.xmin) * (f.ymax - f.ymin)         \* in 100ths
Low(f) == f.ymin + f.ymax                                \* cy, in 20ths

\* EgocentricController.decide(), deadzone 0.17, arrival at size 0.25 and cy 0.8.
egoDecide(p) ==
  IF p.target = {} THEN "search"
  ELSE LET t == CHOOSE f \in p.target : TRUE
       IN CASE Size(t) >= 25 /\ Low(t) >= 16 -> "arrived"
            [] 5 * Centre(t) < -17 -> "turn_left"
            [] 5 * Centre(t) > 17 -> "turn_right"
            [] OTHER -> "move_forward"

\* EgocentricReflexGuard: size 0.30, within 0.20 of the centre, cy 0.60.
Blocks(f) == Size(f) >= 30 /\ Centre(f) \in -4 .. 4 /\ Low(f) >= 12

-----------------------------------------------------------------------------
EgoInit ==
  /\ egoRunning = FALSE /\ egoInFlight = FALSE /\ found = <<>>
  /\ lastPerception = [target |-> {}, obstacles |-> {}] /\ guardObstacles = {}
  /\ searchTicks = 0 /\ lostFor = 0 /\ egoMotor = "stop"

EgoStart ==
  /\ ~egoRunning
  /\ egoRunning' = TRUE /\ searchTicks' = 0 /\ lostFor' = 0
  /\ UNCHANGED <<egoInFlight, found, lastPerception, guardObstacles, egoMotor>>

EgoStop ==
  /\ egoRunning
  /\ egoRunning' = FALSE /\ egoMotor' = "stop"
  /\ UNCHANGED <<egoInFlight, found, lastPerception, guardObstacles, searchTicks, lostFor>>

EgoPerceive ==
  /\ egoRunning /\ ~egoInFlight
  /\ egoInFlight' = TRUE
  /\ UNCHANGED <<egoRunning, found, lastPerception, guardObstacles, searchTicks, lostFor,
                 egoMotor>>

\* The answer, also one that comes after stop(), or the failure of the inference.
EgoAnswer ==
  /\ egoInFlight
  /\ egoInFlight' = FALSE
  /\ \/ /\ found' \in SeqOf(Finds, FindsMax)
        /\ lastPerception' = convertToEgoPerception(found')
     \/ UNCHANGED <<found, lastPerception>>
  /\ UNCHANGED <<egoRunning, guardObstacles, searchTicks, lostFor, egoMotor>>

\* What follows the command of a tick: arrival, or the count of the search.
Follow(action) ==
  LET searches == IF action = "search" THEN searchTicks + 1 ELSE 0
  IN /\ egoRunning' = (action # "arrived")
     /\ searchTicks' = CASE action = "arrived" -> searchTicks
                         [] searches >= EgoStuckTicks -> 0
                         [] OTHER -> searches
     /\ lostFor' = IF lastPerception.target # {} \/ searches >= EgoStuckTicks THEN 0
                   ELSE lostFor + 1

\* Slip: the guard learns of the obstacles after it has decided.
EgoTickLate ==
  /\ egoRunning
  /\ guardObstacles' = lastPerception.obstacles
  /\ LET action == egoDecide(lastPerception)
         veto == action = "move_forward" /\ \E f \in guardObstacles : Blocks(f)
     IN egoMotor' = (IF veto \/ action = "arrived" THEN "stop" ELSE action) /\ Follow(action)
  /\ UNCHANGED <<egoInFlight, found, lastPerception>>

\* EgocentricReactiveLoop.tick().
EgoTick ==
  /\ egoRunning
  /\ guardObstacles' = lastPerception.obstacles
  /\ LET action == egoDecide(lastPerception)
         veto == action = "move_forward" /\ \E f \in guardObstacles' : Blocks(f)
     IN egoMotor' = (IF veto \/ action = "arrived" THEN "stop" ELSE action) /\ Follow(action)
  /\ UNCHANGED <<egoInFlight, found, lastPerception>>

EgoNext == EgoStart \/ EgoStop \/ EgoPerceive \/ EgoAnswer \/ EgoTick
EgoSpec == EgoInit /\ [][EgoNext]_egoVars

-----------------------------------------------------------------------------
\* A tick that drives on saw the target ahead in the last answer, and nothing else in it
\* stands in the way, not even a second find of the target.
AdvanceIsSeen ==
  [][EgoTick /\ egoMotor' = "move_forward" =>
       \E i \in DOMAIN found :
         /\ found[i].is_target /\ Centre(found[i]) \in -3 .. 3
         /\ \A j \in DOMAIN found : j # i => ~Blocks(found[j])]_egoVars

\* No target for stuckThresholdTicks in a row is told.
LostIsTold == lostFor < EgoStuckTicks

\* The egocentric loop acts on what the last answer shows: it drives on towards a
\* target it sees past nothing that blocks, and tells when it sees none.
EgoActsOnSight == []LostIsTold /\ AdvanceIsSeen
=============================================================================
