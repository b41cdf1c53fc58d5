------------------------ MODULE UnifiedFirmwareProofs ------------------------
(****************************************************************************)
(* The motor task, for every set of datagrams, checksum, heartbeat period   *)
(* and clock width: its types, the bound on unattended motion, the latch,   *)
(* and that it implements DeadMansSwitch.                                   *)
(****************************************************************************)
EXTENDS UnifiedFirmware, TLAPS

\* The clock fits its width, whichever value it had.
LEMMA ClockFits == 0 \in 0 .. Wrap - 1
  BY TimeoutAssumption, WrapAssumption

LEMMA Opcodes == Idle \notin MotionOps /\ Braking \notin MotionOps /\ OP_STOP \notin MotionOps
  BY DEF Idle, Braking, MotionOps, OP_STOP

\* The time since the last command, as the clock and a refresh move it.
LEMMA ElapsedType == TypeOK => Elapsed \in Nat
  BY WrapAssumption DEF TypeOK, Elapsed

LEMMA ElapsedReset ==
  ASSUME millis' = lastCommandTime', millis' \in Int, lastCommandTime' \in Int
  PROVE  Elapsed' = 0
<1>1. Elapsed' = millis' - millis'
  BY DEF Elapsed
<1>2. \A n \in Int : n - n = 0
  OBVIOUS
<1> QED
  BY <1>1, <1>2

LEMMA ElapsedGrows ==
  ASSUME TypeOK, Tick, Elapsed <= Timeout
  PROVE  Elapsed' = Elapsed + 1
  BY TimeoutAssumption, WrapAssumption DEF TypeOK, Tick, Elapsed

LEMMA ElapsedSteps ==
  ASSUME TypeOK, Tick
  PROVE  Elapsed' \in Nat /\ Elapsed' <= Elapsed + 1
  BY TimeoutAssumption, WrapAssumption DEF TypeOK, Tick, Elapsed

\* What executing a valid frame does to the motors and to the latch.
LEMMA PollEffect ==
  ASSUME NEW d \in Datagrams, PollFrame(d)
  PROVE  /\ lastCommandTime' = millis /\ UNCHANGED <<millis, checked>>
         /\ lastOpcode' = d.op /\ d.op \in Byte
         /\ pc' = "check"
         /\ d.op = OP_STOP => motor' = Idle
         /\ \/ motor' = motor
            \/ motor' = Idle /\ d.op = OP_STOP
            \/ motor' = d.op /\ d.op \in MotionOps /\ ~emergencyStopped
         /\ emergencyStopped' \in BOOLEAN
         /\ emergencyStopped' => emergencyStopped /\ d.op # OP_STOP
         /\ emergencyStopped /\ d.op # OP_STOP => emergencyStopped'
<1>1. d.op \in Byte
  BY DatagramsAssumption DEF Datagram
<1>2. lastCommandTime' = millis /\ lastOpcode' = d.op /\ pc' = "check"
      /\ UNCHANGED <<millis, checked>>
  BY DEF PollFrame, ExecuteCommand
<1>3. /\ emergencyStopped' \in BOOLEAN
      /\ emergencyStopped' <=> emergencyStopped /\ d.op # OP_STOP
  BY Zenon DEF PollFrame, ExecuteCommand
<1>4. CASE d.op = OP_STOP
  <2>1. motor' = Idle
    BY <1>4, Opcodes DEF PollFrame, ExecuteCommand
  <2>2. ~emergencyStopped'
    BY <1>3, <1>4
  <2> QED
    BY <1>1, <1>2, <1>3, <1>4, <2>1, <2>2
<1>5. CASE d.op \in MotionOps /\ ~Refused(d.op)
  <2>1. d.op # OP_STOP
    BY <1>5 DEF MotionOps, OP_STOP
  <2>2. motor' = d.op
    BY <1>5, <2>1 DEF PollFrame, ExecuteCommand
  <2>3. ~emergencyStopped
    BY <1>5, <2>1 DEF Refused, MotionOps, OP_STOP, OP_GET_STATUS
  <2> QED
    BY <1>1, <1>2, <1>3, <1>5, <2>1, <2>2, <2>3, Zenon
<1>6. CASE d.op # OP_STOP /\ ~(d.op \in MotionOps /\ ~Refused(d.op))
  <2>1. motor' = motor
    BY <1>6 DEF PollFrame, ExecuteCommand
  <2> QED
    BY <1>1, <1>2, <1>3, <1>6, <2>1, Zenon
<1> QED
  BY <1>4, <1>5, <1>6

LEMMA TypeInit == Init => TypeOK
<1>1. OP_STOP \in Byte
  BY DEF OP_STOP, Byte
<1> QED
  BY ClockFits, <1>1, Zenon DEF Init, TypeOK

LEMMA TypeStep == TypeOK /\ [Next]_vars => TypeOK'
<1> SUFFICES ASSUME TypeOK, [Next]_vars PROVE TypeOK'
  OBVIOUS
<1> USE DEF TypeOK
<1>1. CASE SafetyCheck
  BY <1>1, Zenon DEF SafetyCheck, Brake
<1>2. CASE RunSteppers \/ TargetReached
  BY <1>2, Zenon DEF RunSteppers, TargetReached
<1>3. CASE PollNothing
  BY <1>3, Zenon DEF PollNothing
<1>4. ASSUME NEW d \in Datagrams, PollFrame(d) PROVE TypeOK'
  BY <1>4, PollEffect, Zenon
<1>5. ASSUME NEW d \in Datagrams, DropFrame(d) PROVE TypeOK'
  BY <1>3, <1>5 DEF DropFrame
<1>6. CASE Tick
  <2>1. millis' \in 0 .. Wrap - 1
    BY <1>6, WrapAssumption DEF Tick
  <2> QED
    BY <1>6, <2>1, Zenon DEF Tick
<1>7. CASE Reboot
  <2>1. OP_STOP \in Byte
    BY DEF OP_STOP, Byte
  <2> QED
    BY <1>7, <2>1, ClockFits, Zenon DEF Reboot
<1>8. CASE UNCHANGED vars
  BY <1>8, Zenon DEF vars
<1> QED
  BY <1>1, <1>2, <1>3, <1>4, <1>5, <1>6, <1>7, <1>8 DEF Next, MotorTask

\* Every variable of the motor task keeps its type: the globals of
\* roclaw_unified.ino and the position in motorTask's loop.
THEOREM TypeCorrect == Spec => []TypeOK
  BY TypeInit, TypeStep, PTL DEF Spec

-----------------------------------------------------------------------------
\* The inductive invariant.  The bound on unattended motion needs LatchHolds (a
\* motion starts only unlatched) and one fact more: the last opcode heard while
\* driving is not a STOP, or the expired heartbeat would be ignored.
ArmedWhileDriving == Driving => lastOpcode # OP_STOP

SafeInv == TypeOK /\ WatchdogBound /\ LatchHolds /\ ArmedWhileDriving

LEMMA SafeInit == Init => SafeInv
<1> SUFFICES ASSUME Init PROVE SafeInv
  OBVIOUS
<1>1. TypeOK
  BY TypeInit
<1>2. ~Driving /\ ~emergencyStopped
  BY Opcodes, Zenon DEF Init, Driving
<1> QED
  BY <1>1, <1>2 DEF SafeInv, WatchdogBound, LatchHolds, ArmedWhileDriving

LEMMA SafeStep == SafeInv /\ [Next]_vars => SafeInv'
<1> SUFFICES ASSUME SafeInv, [Next]_vars PROVE SafeInv'
  OBVIOUS
<1> USE DEF SafeInv, WatchdogBound, LatchHolds, ArmedWhileDriving
<1> TypeOK'
  BY TypeStep
\* A step that leaves the motors idle and the latch open is safe.
<1>0. ASSUME ~Driving', ~emergencyStopped' PROVE SafeInv'
  BY <1>0
<1>1. CASE SafetyCheck
  <2>1. UNCHANGED <<millis, lastCommandTime, lastOpcode>>
    BY <1>1 DEF SafetyCheck
  <2>2. CASE Expired
    <3>1. ~Driving' /\ lastOpcode' # OP_STOP
      BY <1>1, <2>1, <2>2, Opcodes, Zenon DEF SafetyCheck, Expired, Brake, Driving
    <3> QED
      BY <3>1
  <2>3. CASE ~Expired
    <3>1. UNCHANGED <<motor, emergencyStopped>>
      BY <1>1, <2>3 DEF SafetyCheck
    <3>2. Driving => Elapsed <= Timeout
      BY <2>3, ElapsedType, TimeoutAssumption DEF Expired
    <3> QED
      BY <2>1, <3>1, <3>2 DEF Driving, Elapsed
  <2> QED
    BY <2>2, <2>3
<1>2. CASE RunSteppers \/ PollNothing
  BY <1>2 DEF RunSteppers, PollNothing, Driving, Elapsed
<1>3. CASE TargetReached
  BY <1>3, Opcodes DEF TargetReached, Driving
<1>4. ASSUME NEW d \in Datagrams, PollFrame(d) PROVE SafeInv'
  <2>1. Elapsed' <= Timeout
    <3>1. millis' = lastCommandTime' /\ millis' \in Int /\ lastCommandTime' \in Int
      BY <1>4, PollEffect DEF TypeOK
    <3>2. Elapsed' = 0
      BY <3>1, ElapsedReset DEF TypeOK
    <3> QED
      BY <3>2, TimeoutAssumption
  <2>2. LatchHolds' /\ ArmedWhileDriving'
    BY <1>4, PollEffect, Opcodes, Zenon DEF Driving
  <2> QED
    BY <2>1, <2>2
<1>5. ASSUME NEW d \in Datagrams, DropFrame(d) PROVE SafeInv'
  BY <1>2, <1>5 DEF DropFrame
<1>6. CASE Tick
  <2>1. UNCHANGED <<lastCommandTime, lastOpcode, emergencyStopped, motor>> /\ checked /\ ~checked'
    BY <1>6, Zenon DEF Tick
  <2>2. Driving => Elapsed' = Elapsed + 1 /\ Elapsed <= Timeout
    BY <1>6, <2>1, ElapsedGrows
  <2>3. Driving => Elapsed' = Timeout + 1 \/ Elapsed' <= Timeout
    BY <2>2, ElapsedType, TimeoutAssumption
  <2> QED
    BY <2>1, <2>3 DEF Driving
<1>7. CASE Reboot
  <2>1. ~Driving' /\ ~emergencyStopped'
    BY <1>7, Opcodes, Zenon DEF Reboot, Driving
  <2> QED
    BY <1>0, <2>1
<1>8. CASE UNCHANGED vars
  BY <1>8 DEF vars, Driving, Elapsed
<1> QED
  BY <1>1, <1>2, <1>3, <1>4, <1>5, <1>6, <1>7, <1>8 DEF Next, MotorTask

\* The inductive invariant of the motor task holds throughout.
THEOREM SafeInvariant == Spec => []SafeInv
  BY SafeInit, SafeStep, PTL DEF Spec

\* No completed heartbeat check leaves a motor driving that heard nothing for
\* longer than the heartbeat period, even across the wrap-round of millis(), and
\* while the emergency latch is set nothing drives the motors.
THEOREM MotorTaskIsSafe == Spec => []BoardIsSafe
<1>1. SafeInv => BoardIsSafe
  BY DEF SafeInv, BoardIsSafe
<1> QED
  BY SafeInvariant, <1>1, PTL
-----------------------------------------------------------------------------
\* The budget of DeadMansSwitch under the refinement mapping.
Quiet == IF Driving THEN Elapsed ELSE 0

LEMMA QuietAtRest == ~Driving => Quiet = 0
  BY DEF Quiet

\* Every step of the motor task is a step of the dead man's switch, or none.
LEMMA StepImplements == SafeInv /\ [Next]_vars => [DMS!Next]_DMS!vars
<1> SUFFICES ASSUME SafeInv, [Next]_vars PROVE [DMS!Next]_DMS!vars
  OBVIOUS
<1> USE DEF SafeInv
<1>0. ASSUME UNCHANGED <<motor, emergencyStopped, Quiet>>
      PROVE  [DMS!Next]_DMS!vars
  BY <1>0, Zenon DEF DMS!vars, Quiet
<1>1. CASE SafetyCheck
  <2>1. UNCHANGED <<millis, lastCommandTime>>
    BY <1>1 DEF SafetyCheck
  <2>2. CASE Expired
    <3>1. motor' = Brake /\ emergencyStopped' = TRUE
      BY <1>1, <2>2, Zenon DEF SafetyCheck
    <3>2. Quiet' = 0
      BY <3>1, Opcodes, Zenon DEF Quiet, Driving, Brake
    <3>3. Driving => Quiet > Timeout
      BY <2>2 DEF Expired, Quiet
    <3>4. DMS!Expire
      BY <3>1, <3>2, <3>3, Zenon DEF DMS!Expire, Quiet, Driving, Brake
    <3> QED
      BY <3>4, Zenon DEF DMS!Next
  <2>3. CASE ~Expired
    <3>1. UNCHANGED <<motor, emergencyStopped>>
      BY <1>1, <2>3 DEF SafetyCheck
    <3> QED
      BY <1>0, <2>1, <3>1 DEF Quiet, Driving, Elapsed
  <2> QED
    BY <2>2, <2>3
<1>2. CASE RunSteppers \/ PollNothing
  BY <1>0, <1>2 DEF RunSteppers, PollNothing, Quiet, Driving, Elapsed
<1>3. CASE TargetReached
  <2>1. motor # Idle /\ motor' = Idle /\ UNCHANGED emergencyStopped
    BY <1>3, Zenon DEF TargetReached
  <2>2. Quiet' = 0
    BY <2>1, Opcodes, Zenon DEF Quiet, Driving
  <2> QED
    BY <2>1, <2>2, Zenon DEF DMS!Next, DMS!Settle, Quiet
<1>4. ASSUME NEW d \in Datagrams, PollFrame(d) PROVE [DMS!Next]_DMS!vars
  <2>1. Quiet' = 0
    <3>1. millis' = lastCommandTime' /\ millis' \in Int /\ lastCommandTime' \in Int
      BY <1>4, PollEffect DEF TypeOK
    <3>2. Elapsed' = 0
      BY <3>1, ElapsedReset DEF TypeOK
    <3> QED
      BY <3>2, Zenon DEF Quiet
  <2>2. CASE d.op = OP_STOP
    <3>1. motor' = Idle /\ emergencyStopped' = FALSE
      BY <1>4, <2>2, PollEffect, Zenon
    <3> QED
      BY <2>1, <3>1, Zenon DEF DMS!Next, DMS!Halt, Quiet
  <2>3. CASE d.op # OP_STOP
    <3>1. emergencyStopped' = emergencyStopped
      BY <1>4, <2>3, PollEffect, Zenon DEF TypeOK
    <3>2. motor' = motor \/ (~emergencyStopped /\ motor' \in MotionOps)
      BY <1>4, <2>3, PollEffect, Zenon
    <3> QED
      BY <2>1, <3>1, <3>2, Zenon DEF DMS!Next, DMS!Hear, Quiet
  <2> QED
    BY <2>2, <2>3
<1>5. ASSUME NEW d \in Datagrams, DropFrame(d) PROVE [DMS!Next]_DMS!vars
  BY <1>2, <1>5 DEF DropFrame
<1>6. CASE Tick
  <2>1. UNCHANGED <<motor, emergencyStopped>> /\ checked
    BY <1>6, Zenon DEF Tick
  <2>2. CASE Driving
    <3>1. Quiet <= Timeout /\ Quiet' = Quiet + 1
      BY <1>6, <2>1, <2>2, ElapsedGrows DEF WatchdogBound, Quiet, Driving
    <3>2. DMS!Elapse
      BY <2>1, <2>2, <3>1, Zenon DEF DMS!Elapse, Quiet, Driving
    <3> QED
      BY <3>2, Zenon DEF DMS!Next
  <2>3. CASE ~Driving
    BY <1>0, <2>1, <2>3, Zenon DEF Quiet, Driving
  <2> QED
    BY <2>2, <2>3
<1>7. CASE Reboot
  <2>1. motor' = Idle /\ emergencyStopped' = FALSE
    BY <1>7, Zenon DEF Reboot
  <2>2. Quiet' = 0
    BY <2>1, Opcodes, Zenon DEF Quiet, Driving
  <2> QED
    BY <2>1, <2>2, Zenon DEF DMS!Next, DMS!Halt, Quiet
<1>8. CASE UNCHANGED vars
  BY <1>0, <1>8 DEF vars, Quiet, Driving, Elapsed
<1> QED
  BY <1>1, <1>2, <1>3, <1>4, <1>5, <1>6, <1>7, <1>8 DEF Next, MotorTask

\* The motor task implements the dead man's switch: motion is cut neither
\* before nor after its budget, and restarts after a cut only through a STOP.
THEOREM ImplementsDeadMansSwitch == Spec => KeepsPromise
<1>1. Init => DMS!Init
  <2> SUFFICES ASSUME Init PROVE DMS!Init
    OBVIOUS
  <2>1. motor = Idle /\ emergencyStopped = FALSE
    BY Zenon DEF Init
  <2>2. Quiet = 0
    BY <2>1, Opcodes, Zenon DEF Quiet, Driving
  <2> QED
    BY <2>1, <2>2, Zenon DEF DMS!Init, Quiet
<1> QED
  BY <1>1, StepImplements, SafeInvariant, PTL DEF Spec, KeepsPromise, DMS!Spec

\* The latch opens only for a STOP, with the motors at rest.
THEOREM LatchOpensAtRest == Spec => ReleasedAtRest
<1>1. SafeInv /\ [Next]_vars
        => [emergencyStopped /\ ~emergencyStopped'
              => lastOpcode' = OP_STOP /\ motor' = Idle]_vars
  <2> SUFFICES ASSUME SafeInv, Next, emergencyStopped, ~emergencyStopped'
               PROVE  lastOpcode' = OP_STOP /\ motor' = Idle
    BY Zenon
  <2>1. CASE SafetyCheck
    BY <2>1, Zenon DEF SafetyCheck
  <2>2. CASE RunSteppers \/ TargetReached
    BY <2>2, Zenon DEF RunSteppers, TargetReached
  <2>3. CASE PollNothing
    BY <2>3, Zenon DEF PollNothing
  <2>4. ASSUME NEW d \in Datagrams, PollFrame(d)
        PROVE  lastOpcode' = OP_STOP /\ motor' = Idle
    <3>1. d.op = OP_STOP
      BY <2>4, PollEffect, Zenon
    <3> QED
      BY <2>4, <3>1, PollEffect, Zenon
  <2>5. ASSUME NEW d \in Datagrams, DropFrame(d)
        PROVE  lastOpcode' = OP_STOP /\ motor' = Idle
    BY <2>3, <2>5 DEF DropFrame
  <2>6. CASE Tick
    BY <2>6, Zenon DEF Tick
  <2>7. CASE Reboot
    BY <2>7, Zenon DEF Reboot
  <2> QED
    BY <2>1, <2>2, <2>3, <2>4, <2>5, <2>6, <2>7, Zenon DEF Next, MotorTask
<1> QED
  BY <1>1, SafeInvariant, PTL DEF Spec, ReleasedAtRest

\* Braking comes only from an expired heartbeat, motion only from a valid frame
\* that finds the latch open.
THEOREM DriveChangesForACause == Spec => DriveChanges
<1> DEFINE Cause ==
      /\ motor' = Braking /\ motor # Braking => Driving /\ Elapsed > Timeout
      /\ motor' \in MotionOps /\ motor' # motor
           => ~emergencyStopped /\ lastOpcode' = motor' /\ lastCommandTime' = millis
<1>1. SafeInv /\ [Next]_vars => [Cause]_vars
  <2> SUFFICES ASSUME SafeInv, Next PROVE Cause
    BY Zenon
  <2>0. ASSUME motor' = motor \/ motor' = Idle PROVE Cause
    BY <2>0, Opcodes DEF Idle, Braking
  <2>1. CASE SafetyCheck
    <3>1. CASE Expired /\ motor # Idle
      <4>1. motor' = Braking
        BY <2>1, <3>1, Zenon DEF SafetyCheck, Brake
      <4>2. motor # Braking => Driving
        BY <3>1, Zenon DEF SafeInv, TypeOK, Driving
      <4> QED
        BY <3>1, <4>1, <4>2, Opcodes DEF Expired
    <3>2. CASE ~Expired \/ motor = Idle
      <4>1. motor' = motor
        BY <2>1, <3>2, Zenon DEF SafetyCheck, Brake
      <4> QED
        BY <2>0, <4>1
    <3> QED
      BY <3>1, <3>2
  <2>2. CASE RunSteppers \/ PollNothing \/ Tick
    BY <2>0, <2>2, Zenon DEF RunSteppers, PollNothing, Tick
  <2>3. CASE TargetReached \/ Reboot
    BY <2>0, <2>3, Zenon DEF TargetReached, Reboot
  <2>4. ASSUME NEW d \in Datagrams, PollFrame(d) PROVE Cause
    <3>1. motor' = motor \/ motor' = Idle
            \/ (motor' = d.op /\ d.op \in MotionOps /\ ~emergencyStopped)
      BY <2>4, PollEffect, Zenon
    <3>2. lastOpcode' = d.op /\ lastCommandTime' = millis
      BY <2>4, PollEffect, Zenon
    <3> QED
      BY <2>0, <3>1, <3>2, Opcodes
  <2>5. ASSUME NEW d \in Datagrams, DropFrame(d) PROVE Cause
    BY <2>2, <2>5 DEF DropFrame
  <2> QED
    BY <2>1, <2>2, <2>3, <2>4, <2>5, Zenon DEF Next, MotorTask
<1> QED
  BY <1>1, SafeInvariant, PTL DEF Spec, DriveChanges
=============================================================================
