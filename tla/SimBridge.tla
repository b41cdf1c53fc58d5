----------------------------- MODULE SimBridge -----------------------------
(****************************************************************************)
(* The two stand-ins of the board, fed the same frames: the bridge to the   *)
(* physics in a browser (bridge/mjswan_bridge.ts: WebSocket, targets,       *)
(* broadcast with stall detection, and the TelemetryMonitor it reports to)  *)
(* and the virtual robot (bridge/virtual_roclaw.ts).  Speeds are in units   *)
(* of the full scale, so that speedParamToRadS and speedToCm are the        *)
(* identity; angles are quarter turns, and a difference of one unit between *)
(* the wheels turns by one of them.                                         *)
(****************************************************************************)
EXTENDS Integers

CONSTANTS
  Browsers,   \* pages that connect, each once
  Frames,     \* frames of the host, [opcode, left, right]
  Places,     \* positions a page reports, 0 .. the last
  Targets,    \* the place of each target, a sequence
  WorldSize   \* bound: the virtual robot lives on a torus of this size

ASSUME BridgeAssumption ==
  /\ WorldSize \in Nat \ {0} /\ 0 \in Places
  /\ \A f \in Frames : f.left \in 0 .. 255 /\ f.right \in 0 .. 255

Nobody == "none"
RestCtrl == <<0, 0>>
Motions == {"MOVE_FORWARD", "MOVE_BACKWARD", "TURN_LEFT", "TURN_RIGHT", "ROTATE_CW",
            "ROTATE_CCW"}
Late == 2     \* STALL_THRESHOLD_MS in periods of the broadcast
MaxAge == 4   \* bound: ages are counted up to this

VARIABLES
  ws,             \* browser -> "new", "open", "leaving" (closed, not yet reported), "gone"
  browserSocket,
  ctrlHeard,      \* browser -> the last ctrl message sent to it
  lastCtrl,
  client,         \* lastClientRinfo is known
  pose, target, goalReached,
  stallPose, stallAge, stall,   \* stallAge: Date.now() - stallPose.ts
  virtual,        \* [x, y, heading, running, left, right, led] of virtual_roclaw
  wasStalled,     \* of the TelemetryMonitor
  overlapped,     \* history: a page connected while another was connected
  rested,         \* history: a broadcast found the robot moved or at rest
  driven,         \* history: broadcasts since one found the robot at rest
  steered         \* history: the last frame that is no query was a motion at a speed, or STOP

simVars == <<ws, browserSocket, ctrlHeard, lastCtrl, client, pose, target, goalReached, stallPose,
  stallAge, stall, virtual, wasStalled, overlapped, rested,
  driven, steered>>

pageVars == <<ws, browserSocket, ctrlHeard, overlapped>>
goalVars == <<pose, target, goalReached>>
stallVars == <<stallPose, stallAge, stall, rested, driven>>
boardVars == <<lastCtrl, client, virtual, steered>>

Home == [x |-> 0, y |-> 0, heading |-> 0, running |-> FALSE, left |-> 0, right |-> 0, led |-> 0]

SimInit ==
  /\ ws = [b \in Browsers |-> "new"] /\ browserSocket = Nobody
  /\ ctrlHeard = [b \in Browsers |-> RestCtrl]
  /\ lastCtrl = RestCtrl /\ client = FALSE
  /\ pose = 0 /\ target = 1 /\ goalReached = FALSE
  /\ stallPose = 0 /\ stallAge = 0 /\ stall = FALSE
  /\ virtual = Home
  /\ wasStalled = FALSE
  /\ overlapped = FALSE /\ rested = FALSE /\ driven = 0 /\ steered = TRUE

-----------------------------------------------------------------------------
(* Pages *)

Connect(b) ==
  /\ ws[b] = "new"
  /\ ws' = [ws EXCEPT ![b] = "open"]
  /\ browserSocket' = b
  /\ overlapped' = (overlapped \/ \E o \in Browsers : ws[o] \in {"open", "leaving"})
  /\ ctrlHeard' = [ctrlHeard EXCEPT ![b] = lastCtrl]
  /\ UNCHANGED <<goalVars, stallVars, wasStalled, boardVars>>

Leave(b) ==
  /\ ws[b] = "open"
  /\ ws' = [ws EXCEPT ![b] = "leaving"]
  /\ UNCHANGED <<browserSocket, ctrlHeard, overlapped, goalVars, stallVars, wasStalled, boardVars>>

\* The close event of any page forgets the socket, whosever it is.
CloseReported(b) ==
  /\ ws[b] = "leaving"
  /\ ws' = [ws EXCEPT ![b] = "gone"]
  /\ browserSocket' = Nobody
  /\ UNCHANGED <<ctrlHeard, overlapped, goalVars, stallVars, wasStalled, boardVars>>

\* A pose of any page; arrival moves on by one target at a time.
Pose(b, p) ==
  /\ ws[b] = "open"
  /\ pose' = p
  /\ LET arrived == p = Targets[target] IN
     /\ target' = IF arrived /\ (target + 1) \in DOMAIN Targets THEN target + 1 ELSE target
     /\ goalReached' = (arrived /\ (target + 1) \notin DOMAIN Targets)
  /\ UNCHANGED <<pageVars, stallVars, wasStalled, boardVars>>

-----------------------------------------------------------------------------
(* Frames *)

Either(a, b) == IF a # 0 THEN a ELSE b

\* The default stands for every other opcode, SET_SPEED and LED_SET included.
bytecodeToCtrl(f) ==
  CASE f.opcode \in {"MOVE_FORWARD", "TURN_LEFT", "TURN_RIGHT"} -> <<f.left, f.right>>
    [] f.opcode = "MOVE_BACKWARD" -> <<-f.left, -f.right>>
    [] f.opcode = "ROTATE_CW" -> <<Either(f.right, f.left), -Either(f.right, f.left)>>
    [] f.opcode = "ROTATE_CCW" -> <<-Either(f.right, f.left), Either(f.right, f.left)>>
    [] OTHER -> RestCtrl

Sine == [q \in 0..3 |-> <<0, 1, 0, -1>>[q + 1]]
Cosine == [q \in 0..3 |-> <<1, 0, -1, 0>>[q + 1]]

\* A pulse: along the heading by the mean, then round by the difference.
applyDrive(v, l, r) ==
  [v EXCEPT !.x = (@ + Sine[v.heading] * ((l + r) \div 2)) % WorldSize,
            !.y = (@ + Cosine[v.heading] * ((l + r) \div 2)) % WorldSize,
            !.heading = (@ + r - l) % 4]

Rolling(v, f) == [v EXCEPT !.running = TRUE, !.left = f.left, !.right = f.right]

applyCommand(v, f) ==
  CASE f.opcode \in {"MOVE_FORWARD", "TURN_LEFT", "TURN_RIGHT"} ->
         Rolling(applyDrive(v, f.left, f.right), f)
    [] f.opcode = "MOVE_BACKWARD" -> Rolling(applyDrive(v, -f.left, -f.right), f)
    [] f.opcode = "ROTATE_CW" -> [v EXCEPT !.heading = (@ + f.left) % 4, !.running = TRUE]
    [] f.opcode = "ROTATE_CCW" -> [v EXCEPT !.heading = (@ - f.left) % 4, !.running = TRUE]
    [] f.opcode = "STOP" -> [v EXCEPT !.running = FALSE, !.left = 0, !.right = 0]
    [] f.opcode = "SET_SPEED" -> [v EXCEPT !.left = f.left, !.right = f.right]
    [] f.opcode = "MOVE_STEPS" -> [applyDrive(v, f.left, 0) EXCEPT !.running = TRUE]
    [] f.opcode = "MOVE_STEPS_R" -> [applyDrive(v, 0, f.left) EXCEPT !.running = TRUE]
    [] f.opcode = "LED_SET" -> [v EXCEPT !.led = f.left]
    [] f.opcode = "RESET" -> Home
    [] OTHER -> v

\* STOP, or a motion at some speed.
Steers(f) == f.opcode = "STOP" \/ (f.opcode \in Motions /\ <<f.left, f.right>> # RestCtrl)

\* The page that listens is told; the virtual robot obeys on the spot.
Command(f) ==
  /\ f.opcode # "GET_STATUS"
  /\ client' = TRUE
  /\ lastCtrl' = bytecodeToCtrl(f)
  /\ ctrlHeard' = [b \in Browsers |->
       IF b = browserSocket /\ ws[b] = "open" THEN lastCtrl' ELSE ctrlHeard[b]]
  /\ virtual' = applyCommand(virtual, f)
  /\ steered' = Steers(f)
  /\ UNCHANGED <<ws, browserSocket, overlapped, goalVars, stallVars, wasStalled>>

\* The status of 50 ms later is of that moment and changes nothing: only the client
\* is remembered.
Query(f) ==
  /\ f.opcode = "GET_STATUS"
  /\ client' = TRUE
  /\ UNCHANGED <<lastCtrl, virtual, steered, pageVars, goalVars, stallVars, wasStalled>>

-----------------------------------------------------------------------------
(* The broadcast, every half second, and who hears it *)

Grown(n) == IF n = MaxAge THEN n ELSE n + 1

\* Slip: an age counted while the robot rested is not forgotten.
DetectKeepingAge(age, jitter) ==
  LET moving == lastCtrl # RestCtrl IN
  IF pose # stallPose
  THEN stallPose' = pose /\ stallAge' = 0 /\ stall' = FALSE /\ rested' = TRUE
  ELSE /\ stallPose' = stallPose
       /\ stall' = IF moving THEN stall \/ age > Late \/ (age = Late /\ jitter) ELSE FALSE
       /\ stallAge' = age
       /\ rested' = (rested \/ ~moving)

\* An age of exactly the threshold counts or not by the milliseconds the timer is late.
DetectStall(age, jitter) ==
  LET moving == lastCtrl # RestCtrl IN
  IF pose # stallPose
  THEN stallPose' = pose /\ stallAge' = 0 /\ stall' = FALSE /\ rested' = TRUE
  ELSE /\ stallPose' = stallPose
       /\ stall' = IF moving THEN stall \/ age > Late \/ (age = Late /\ jitter) ELSE FALSE
       /\ stallAge' = IF moving THEN age ELSE 0
       /\ rested' = (rested \/ ~moving)

\* TelemetryMonitor raises its alarm when a message says so for the first time; a
\* message can be lost.
processMessage(stalled) == wasStalled' = stalled

Broadcast ==
  /\ driven' = IF lastCtrl = RestCtrl THEN 0 ELSE Grown(driven)
  /\ IF client
     THEN /\ \E jitter \in BOOLEAN : DetectStall(Grown(stallAge), jitter)
          /\ processMessage(stall') \/ UNCHANGED wasStalled
     ELSE stallAge' = Grown(stallAge) /\ UNCHANGED <<stallPose, stall, rested, wasStalled>>
  /\ UNCHANGED <<pageVars, goalVars, boardVars>>

SimNext ==
  \/ \E b \in Browsers :
       Connect(b) \/ Leave(b) \/ CloseReported(b) \/ \E p \in Places : Pose(b, p)
  \/ \E f \in Frames : Command(f) \/ Query(f)
  \/ Broadcast

SimSpec == SimInit /\ [][SimNext]_simVars

-----------------------------------------------------------------------------
(* Properties *)

\* A page that is alone obeys the last command, whenever it came and whoever left
\* before: no STOP is kept from the physics.
PageObeys == ~overlapped => \A b \in Browsers : ws[b] = "open" => ctrlHeard[b] = lastCtrl

\* Once a broadcast has found the robot moved or at rest, none finds it stalled that
\* was not driven for two broadcasts, whatever was commanded between them.
StallIsEarned == [][~stall /\ stall' /\ rested => driven' >= Late]_simVars

\* With the motions the controllers send and STOP, the two stand-ins agree whether
\* the robot runs.
StandInsAgree == steered => virtual.running = (lastCtrl # RestCtrl)

\* Whoever stands in for the robot does what the robot would: the page of the physics
\* obeys the last command, and the virtual robot runs when the page would.
StandInsObey == PageObeys /\ StandInsAgree

\* What the stand-ins show of the robot is true of it: they obey, and no stall is
\* reported of a robot that was not watched being driven.
StandInsAreTrue == [][StandInsObey']_simVars /\ StallIsEarned
=============================================================================
