--------------------------- MODULE UnifiedFirmware ---------------------------
(****************************************************************************)
(* The motor task of the ESP32-S3 firmware                                  *)
(* (firmware/roclaw_unified/roclaw_unified.ino; roclaw_egocentric runs the  *)
(* same task with another checksum).  One FreeRTOS task loops for ever:     *)
(* safety heartbeat check, run the steppers, poll one UDP datagram.  Time   *)
(* passes between any two of these steps, the board may lose power, and the *)
(* datagrams are whatever the network holds, well formed or not.            *)
(****************************************************************************)
EXTENDS Integers

CONSTANTS
  Datagrams,          \* the datagrams that can reach port 4210
  Checksum(_, _, _),  \* the checksum the firmware recomputes over bytes 1..3
  Timeout,            \* HOST_HEARTBEAT_MS in ticks of the model's clock
  Wrap                \* millis() counts modulo Wrap ticks (2^32 ms on the board)

Byte == 0 .. 255

FRAME_START == 170
FRAME_END   == 255
FRAME_LEN   == 6

OP_STOP       == 7
OP_GET_STATUS == 8
\* FORWARD, BACKWARD, TURN_L, TURN_R, ROTATE_CW, ROTATE_CCW, STEPS, STEPS_R
MotionOps     == {1, 2, 3, 4, 5, 6, 9, 10}

\* The motors without a motion under way, in numbers that are no opcode byte.
Idle    == 256
Braking == 257

Datagram == [len: Nat, start: Byte, op: Byte, left: Byte, right: Byte,
             chk: Byte, stop: Byte]

ASSUME DatagramsAssumption == Datagrams \subseteq Datagram
ASSUME TimeoutAssumption   == Timeout \in Nat \ {0}
ASSUME WrapAssumption      == Wrap \in Nat /\ Wrap > Timeout + 1

VARIABLES
  millis,           \* the clock
  lastCommandTime,  \* the clock when the last valid frame was executed
  lastOpcode,       \* its opcode, refused commands included
  emergencyStopped, \* the latch
  motor,            \* Idle, Braking, or the motion opcode being executed
  pc,               \* where motorTask stands in its loop
  checked           \* the heartbeat check ran since the clock last advanced

vars == <<millis, lastCommandTime, lastOpcode, emergencyStopped, motor, pc,
          checked>>

Driving == motor \in MotionOps

\* millis() - lastCommandTime in unsigned arithmetic
Elapsed == IF millis >= lastCommandTime THEN millis - lastCommandTime
                                        ELSE millis - lastCommandTime + Wrap

TypeOK ==
  /\ millis \in 0 .. Wrap - 1
  /\ lastCommandTime \in 0 .. Wrap - 1
  /\ lastOpcode \in Byte
  /\ emergencyStopped \in BOOLEAN
  /\ motor \in MotionOps \cup {Idle, Braking}
  /\ pc \in {"check", "run", "poll"}
  /\ checked \in BOOLEAN

\* Reset values of the globals, and setup() up to the launch of the task.
Init ==
  /\ millis = 0
  /\ lastCommandTime = 0
  /\ lastOpcode = OP_STOP
  /\ emergencyStopped = FALSE
  /\ motor = Idle
  /\ pc = "check"
  /\ checked = FALSE

-----------------------------------------------------------------------------
\* A slip: the latch is set and the steppers are not told.
BrakeForgotten == motor

\* AccelStepper.stop(): a turning motor decelerates, an idle one stays idle.
Brake == IF motor = Idle THEN Idle ELSE Braking

\* A slip: a deadline that forgets the wrap-round of millis().
ExpiredByDeadline == millis > lastCommandTime + Timeout /\ lastOpcode # OP_STOP

Expired == Elapsed > Timeout /\ lastOpcode # OP_STOP

SafetyCheck ==
  /\ pc = "check"
  /\ pc' = "run"
  /\ checked' = TRUE
  /\ IF Expired
       THEN motor' = Brake /\ emergencyStopped' = TRUE
       ELSE UNCHANGED <<motor, emergencyStopped>>
  /\ UNCHANGED <<millis, lastCommandTime, lastOpcode>>

\* run() with steps left to make, and run() making the last one.
RunSteppers ==
  /\ pc = "run"
  /\ pc' = "poll"
  /\ UNCHANGED <<millis, lastCommandTime, lastOpcode, emergencyStopped, motor,
                 checked>>

TargetReached ==
  /\ pc = "run"
  /\ motor # Idle
  /\ pc' = "poll"
  /\ motor' = Idle
  /\ UNCHANGED <<millis, lastCommandTime, lastOpcode, emergencyStopped,
                 checked>>

FrameOk(d) ==
  /\ d.len = FRAME_LEN
  /\ d.start = FRAME_START
  /\ d.stop = FRAME_END
  /\ d.chk = Checksum(d.op, d.left, d.right)

Refused(op) == emergencyStopped /\ op \notin {OP_STOP, OP_GET_STATUS}

\* A slip: STOP lets the motors decelerate and opens the latch at once.
ExecuteCoasting(op) ==
  /\ lastCommandTime' = millis
  /\ lastOpcode' = op
  /\ motor' = CASE op = OP_STOP                         -> Brake
                [] op \in MotionOps /\ ~Refused(op)     -> op
                [] OTHER                                -> motor
  /\ emergencyStopped' = (emergencyStopped /\ op # OP_STOP)

\* The two assignments come first: a refused command still feeds the watchdog.
ExecuteCommand(op) ==
  /\ lastCommandTime' = millis
  /\ lastOpcode' = op
  /\ motor' = CASE op = OP_STOP                         -> Idle
                [] op \in MotionOps /\ ~Refused(op)     -> op
                [] OTHER                                -> motor
  /\ emergencyStopped' = (emergencyStopped /\ op # OP_STOP)

PollFrame(d) ==
  /\ pc = "poll"
  /\ FrameOk(d)
  /\ pc' = "check"
  /\ ExecuteCommand(d.op)
  /\ UNCHANGED <<millis, checked>>

\* parsePacket() returned nothing, a wrong size, or a frame that fails a test.
PollNothing ==
  /\ pc = "poll"
  /\ pc' = "check"
  /\ UNCHANGED <<millis, lastCommandTime, lastOpcode, emergencyStopped, motor,
                 checked>>

DropFrame(d) == ~FrameOk(d) /\ PollNothing

\* The clock advances once the task, which loops every millisecond, has
\* completed a heartbeat check since the last advance.
Tick ==
  /\ checked
  /\ checked' = FALSE
  /\ millis' = IF millis = Wrap - 1 THEN 0 ELSE millis + 1
  /\ UNCHANGED <<lastCommandTime, lastOpcode, emergencyStopped, motor, pc>>

Reboot ==
  /\ millis' = 0
  /\ lastCommandTime' = 0
  /\ lastOpcode' = OP_STOP
  /\ emergencyStopped' = FALSE
  /\ motor' = Idle
  /\ pc' = "check"
  /\ checked' = FALSE

MotorTask ==
  \/ SafetyCheck
  \/ RunSteppers
  \/ TargetReached
  \/ PollNothing
  \/ \E d \in Datagrams : PollFrame(d) \/ DropFrame(d)

Next == MotorTask \/ Tick \/ Reboot

Spec == Init /\ [][Next]_vars

\* FreeRTOS keeps scheduling the task, the clock runs, and a stepper that
\* decelerates comes to rest.
Fairness ==
  /\ WF_vars(MotorTask)
  /\ WF_vars(Tick)
  /\ SF_vars(motor = Braking /\ TargetReached)

FairSpec == Spec /\ Fairness

-----------------------------------------------------------------------------
(* PROPERTIES *)

\* A motor that turns for a command was told something within the heartbeat
\* period: a completed check never leaves a motor driving past it.  This is
\* what motorTask's order (check, run, poll) and the refresh in
\* executeCommand are for.
WatchdogBound ==
  Driving => \/ Elapsed <= Timeout
             \/ Elapsed = Timeout + 1 /\ ~checked

\* While the emergency latch is set no command drives the motors, and the
\* last opcode heard is not the STOP that would have released it.
LatchHolds == emergencyStopped => ~Driving /\ lastOpcode # OP_STOP

\* What the safety check, its latch and the order of motorTask() promise together.
BoardIsSafe == WatchdogBound /\ LatchHolds

\* Only STOP (or a power cycle) releases the latch, and it does so with the
\* motors at rest: a release can never resume the interrupted motion.
ReleasedAtRest ==
  [][emergencyStopped /\ ~emergencyStopped'
       => lastOpcode' = OP_STOP /\ motor' = Idle]_vars

\* A motor is braked only by an expired heartbeat and is set in motion only by
\* a frame that passed validation with the latch open.
DriveChanges ==
  [][/\ motor' = Braking /\ motor # Braking => Driving /\ Elapsed > Timeout
     /\ motor' \in MotionOps /\ motor' # motor
          => ~emergencyStopped /\ lastOpcode' = motor' /\ lastCommandTime' = millis]_vars

\* The task keeps the promise of a dead man's switch: motion lives on a budget
\* of Timeout ticks that only a valid frame renews, is never cut earlier, and
\* starts again after a cut only through a STOP.
DMS == INSTANCE DeadMansSwitch WITH
         Moves   <- MotionOps,
         motion  <- motor,
         latched <- emergencyStopped,
         quiet   <- IF Driving THEN Elapsed ELSE 0
KeepsPromise == DMS!Spec

\* If from some moment on no valid frame is executed, the motors come to rest
\* for good, whatever was commanded before.
Heard == \E d \in Datagrams : PollFrame(d)
SilenceStops == <>[][~Heard]_vars => <>[](motor = Idle)
=============================================================================
