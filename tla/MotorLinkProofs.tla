--------------------------- MODULE MotorLinkProofs ---------------------------
(****************************************************************************)
(* The motor link, for every set of frames, checksum, network delay and     *)
(* heartbeat period: a hushed host's robot stops, and a stream keeps the    *)
(* latch open.  And the frames on it, for every command: what is encoded    *)
(* decodes, what is garbled is refused.                                     *)
(****************************************************************************)
EXTENDS MotorLink, BytecodeWire, SequenceTheorems, TLAPS

\* What is proved of the motor task, for the frames of this link.
FWP == INSTANCE UnifiedFirmwareProofs WITH Datagrams <- HostFrames

LEMMA FramesAreDatagrams == HostFrames \subseteq FWP!Datagram
  BY FramesAssumption, Zenon DEF FWP!Datagram, FW!Datagram, FW!Byte, FWP!Byte

LEMMA BoardInit == FWP!Init => FWP!SafeInv
  BY FWP!SafeInit, FramesAreDatagrams, TimeoutAssumption

LEMMA BoardStepSafe == FWP!SafeInv /\ [FWP!Next]_FWP!vars => FWP!SafeInv'
  BY FWP!SafeStep, FramesAreDatagrams, TimeoutAssumption

\* The two instances of the firmware are one.
LEMMA SameBoard ==
  /\ FW!TypeOK <=> FWP!TypeOK
  /\ FW!Driving <=> FWP!Driving
  /\ FW!Elapsed = FWP!Elapsed
  BY Zenon DEF FW!TypeOK, FWP!TypeOK, FW!Byte, FWP!Byte, FW!MotionOps,
     FWP!MotionOps, FW!Idle, FWP!Idle, FW!Braking, FWP!Braking, FW!Driving,
     FWP!Driving, FW!Elapsed, FWP!Elapsed

-----------------------------------------------------------------------------
\* A frame in flight that is no STOP was sent before the hush began, and a
\* motion under way was heard of at most one network delay after that.
StaleFramesAreOld == \A m \in net : m.frame # StopFrame => hush <= m.age
MotionIsRecent    == FWP!Driving => hush <= FWP!Elapsed + MaxDelay

LinkTyped ==
  /\ net \subseteq [frame : HostFrames, age : 0 .. MaxDelay]
  /\ hush \in 0 .. HushBound
  /\ running => hush = 0

LinkInv == FWP!SafeInv /\ LinkTyped /\ StaleFramesAreOld /\ MotionIsRecent

\* What a step of the board does to a motion under way.
LEMMA BoardEffect ==
  ASSUME FWP!SafeInv,
         FW!SafetyCheck \/ FW!RunSteppers \/ FW!TargetReached \/ FW!PollNothing
  PROVE  /\ [FWP!Next]_FWP!vars
         /\ UNCHANGED <<millis, lastCommandTime>>
         /\ FWP!Driving' => FWP!Driving
<1> USE DEF FWP!Next, FWP!MotorTask, FWP!vars
<1>1. CASE FW!SafetyCheck
  <2>1. FWP!SafetyCheck
    BY <1>1, Zenon DEF FW!SafetyCheck, FWP!SafetyCheck, FW!Expired, FWP!Expired,
       FW!Elapsed, FWP!Elapsed, FW!OP_STOP, FWP!OP_STOP, FW!Brake, FWP!Brake,
       FW!Idle, FWP!Idle, FW!Braking, FWP!Braking
  <2>2. motor' = motor \/ motor' = FWP!Idle \/ motor' = FWP!Braking
    BY <2>1, Zenon DEF FWP!SafetyCheck, FWP!Brake
  <2> QED
    BY <2>1, <2>2, FWP!Opcodes, FramesAreDatagrams, TimeoutAssumption
    DEF FWP!SafetyCheck, FWP!Driving
<1>2. CASE FW!RunSteppers
  <2>1. FWP!RunSteppers
    BY <1>2, Zenon DEF FW!RunSteppers, FWP!RunSteppers
  <2> QED
    BY <2>1, Zenon DEF FWP!RunSteppers, FWP!Driving
<1>3. CASE FW!TargetReached
  <2>1. FWP!TargetReached
    BY <1>3, Zenon DEF FW!TargetReached, FWP!TargetReached, FW!Idle, FWP!Idle
  <2>2. motor' = FWP!Idle
    BY <2>1 DEF FWP!TargetReached
  <2> QED
    BY <2>1, <2>2, FWP!Opcodes, FramesAreDatagrams, TimeoutAssumption
    DEF FWP!TargetReached, FWP!Driving
<1>4. CASE FW!PollNothing
  <2>1. FWP!PollNothing
    BY <1>4, Zenon DEF FW!PollNothing, FWP!PollNothing
  <2> QED
    BY <2>1, Zenon DEF FWP!PollNothing, FWP!Driving
<1> QED
  BY <1>1, <1>2, <1>3, <1>4

\* A frame polled: the motion goes on, or is what the frame asked for.
LEMMA ReceiveEffect ==
  ASSUME FWP!SafeInv, LinkTyped, NEW m \in net, Receive(m)
  PROVE  /\ [FWP!Next]_FWP!vars
         /\ FWP!Driving' => \/ FWP!Driving /\ FWP!Elapsed' = FWP!Elapsed
                            \/ m.frame # StopFrame /\ FWP!Elapsed' = 0
<1>1. m.frame \in HostFrames
  BY DEF LinkTyped
<1>2. CASE FW!PollFrame(m.frame)
  <2>1. FWP!PollFrame(m.frame)
    BY <1>2, Zenon DEF FW!PollFrame, FWP!PollFrame, FW!FrameOk, FWP!FrameOk,
       FW!FRAME_LEN, FWP!FRAME_LEN, FW!FRAME_START, FWP!FRAME_START,
       FW!FRAME_END, FWP!FRAME_END, FW!ExecuteCommand, FWP!ExecuteCommand,
       FW!Refused, FWP!Refused, FW!OP_STOP, FWP!OP_STOP, FW!OP_GET_STATUS,
       FWP!OP_GET_STATUS, FW!MotionOps, FWP!MotionOps, FW!Idle, FWP!Idle
  <2>2. /\ millis' = millis /\ lastCommandTime' = millis
        /\ m.frame.op = FWP!OP_STOP => motor' = FWP!Idle
    BY <1>1, <2>1, FWP!PollEffect, FramesAreDatagrams, TimeoutAssumption, Zenon
  <2>3. [FWP!Next]_FWP!vars
    BY <1>1, <2>1, Zenon DEF FWP!Next, FWP!MotorTask
  <2>4. FWP!Elapsed' = 0
    BY <2>2, FWP!ElapsedReset, FramesAreDatagrams, TimeoutAssumption
    DEF FWP!SafeInv, FWP!TypeOK
  <2>5. m.frame = StopFrame => ~FWP!Driving'
    <3>1. FW!OP_STOP = FWP!OP_STOP
      BY DEF FW!OP_STOP, FWP!OP_STOP
    <3>2. m.frame = StopFrame => motor' = FWP!Idle
      BY <2>2, <3>1, FramesAssumption, Zenon
    <3>3. FWP!Idle \notin FWP!MotionOps
      BY FWP!Opcodes, FramesAreDatagrams, TimeoutAssumption
    <3> QED
      BY <3>2, <3>3, Zenon DEF FWP!Driving
  <2> QED
    BY <2>3, <2>4, <2>5, Zenon
<1>3. CASE FW!DropFrame(m.frame)
  <2>1. FWP!PollNothing
    BY <1>3, Zenon DEF FW!DropFrame, FW!PollNothing, FWP!PollNothing
  <2>2. [FWP!Next]_FWP!vars
    BY <2>1, Zenon DEF FWP!Next, FWP!MotorTask
  <2> QED
    BY <2>1, <2>2, Zenon DEF FWP!PollNothing, FWP!Driving, FWP!Elapsed
<1> QED
  BY <1>2, <1>3 DEF Receive

LEMMA AdvanceEffect ==
  ASSUME FWP!SafeInv, FW!Tick
  PROVE  /\ [FWP!Next]_FWP!vars
         /\ FWP!Driving' => FWP!Driving /\ FWP!Elapsed' = FWP!Elapsed + 1
<1>1. FWP!Tick
  BY Zenon DEF FW!Tick, FWP!Tick
<1>2. motor' = motor /\ checked
  BY <1>1, Zenon DEF FWP!Tick
<1>3. [FWP!Next]_FWP!vars
  BY <1>1, Zenon DEF FWP!Next
<1>4. FWP!Driving => FWP!Elapsed <= Timeout
  BY <1>2 DEF FWP!SafeInv, FWP!WatchdogBound
<1>5. FWP!Driving => FWP!Elapsed' = FWP!Elapsed + 1
  BY <1>1, <1>4, FWP!ElapsedGrows, FramesAreDatagrams, TimeoutAssumption DEF FWP!SafeInv
<1> QED
  BY <1>2, <1>3, <1>5, Zenon DEF FWP!Driving

LEMMA RebootEffect ==
  ASSUME FW!Reboot
  PROVE  [FWP!Next]_FWP!vars /\ ~FWP!Driving'
<1>1. FWP!Reboot
  BY Zenon DEF FW!Reboot, FWP!Reboot, FW!OP_STOP, FWP!OP_STOP, FW!Idle, FWP!Idle
<1>2. motor' = FWP!Idle
  BY <1>1, Zenon DEF FWP!Reboot
<1> QED
  BY <1>1, <1>2, FWP!Opcodes, FramesAreDatagrams, TimeoutAssumption, Zenon
  DEF FWP!Next, FWP!Driving

-----------------------------------------------------------------------------
LEMMA LinkInit == Init => LinkInv
<1> SUFFICES ASSUME Init PROVE LinkInv
  OBVIOUS
<1>1. FWP!Init
  BY Zenon DEF Init, FW!Init, FWP!Init, FW!OP_STOP, FWP!OP_STOP, FW!Idle, FWP!Idle
<1>2. FWP!SafeInv
  BY <1>1, BoardInit
<1>3. LinkTyped
  BY TimeoutAssumption, DelayAssumption DEF Init, LinkTyped, HushBound
<1>4. StaleFramesAreOld
  BY DEF Init, StaleFramesAreOld
<1>5. ~FWP!Driving
  <2>1. motor = FWP!Idle
    BY <1>1 DEF FWP!Init
  <2> QED
    BY <2>1, FWP!Opcodes, FramesAreDatagrams, TimeoutAssumption, Zenon DEF FWP!Driving
<1> QED
  BY <1>2, <1>3, <1>4, <1>5 DEF LinkInv, MotionIsRecent

\* The host's steps: the board is not involved, and what is sent is a STOP or
\* ends the hush.
LEMMA HostKeepsLinkInv == LinkInv /\ Host => LinkInv'
<1> SUFFICES ASSUME LinkInv, Host PROVE LinkInv'
  OBVIOUS
<1> USE DEF LinkInv, LinkTyped, StaleFramesAreOld
<1>1. UNCHANGED fwVars
  BY DEF Host, Start, Stop, ChangeGoal, TickIdle, TickMove, TickArrived,
     HeartbeatStop, QueryStatus
<1>2. FWP!SafeInv'
  BY <1>1, BoardStepSafe DEF fwVars, FWP!vars
<1>3. FWP!Driving' = FWP!Driving /\ FWP!Elapsed' = FWP!Elapsed
  BY <1>1, Zenon DEF fwVars, FWP!Driving, FWP!Elapsed
<1>4. hush' = hush \/ hush' = 0
  BY DEF Host, Start, Stop, ChangeGoal, TickIdle, TickMove, TickArrived,
     HeartbeatStop, QueryStatus, history
<1>5. running' => hush' = 0
  BY DEF Host, Start, Stop, ChangeGoal, TickIdle, TickMove, TickArrived,
     HeartbeatStop, QueryStatus, history, loopVars
<1>6. hush' \in 0 .. HushBound
  BY <1>4, TimeoutAssumption, DelayAssumption DEF HushBound
<1>7. \/ net' = net
      \/ \E f \in HostFrames : /\ net' = net \cup {[frame |-> f, age |-> 0]}
                               /\ f = StopFrame \/ hush' = 0
  BY DEF Host, Start, Stop, ChangeGoal, TickIdle, TickMove, TickArrived,
     HeartbeatStop, QueryStatus, history, Send, HostFrames
<1>8. /\ net' \subseteq [frame : HostFrames, age : 0 .. MaxDelay]
      /\ StaleFramesAreOld'
  <2>1. CASE net' = net
    BY <1>4, <2>1
  <2>2. ASSUME NEW f \in HostFrames,
               net' = net \cup {[frame |-> f, age |-> 0]},
               f = StopFrame \/ hush' = 0
        PROVE  /\ net' \subseteq [frame : HostFrames, age : 0 .. MaxDelay]
               /\ StaleFramesAreOld'
    BY <1>4, <2>2, DelayAssumption
  <2> QED
    BY <1>7, <2>1, <2>2
<1>9. MotionIsRecent'
  <2>1. FWP!Driving => 0 <= FWP!Elapsed + MaxDelay
    BY FWP!ElapsedType, FramesAreDatagrams, TimeoutAssumption, DelayAssumption
    DEF FWP!SafeInv
  <2> QED
    BY <1>3, <1>4, <2>1 DEF MotionIsRecent
<1> QED
  BY <1>2, <1>5, <1>6, <1>8, <1>9

\* The network's and the board's steps: what arrives is no older than what is
\* in flight, and only the clock ages both.
LEMMA LinkStep == LinkInv /\ [Next]_vars => LinkInv'
<1> SUFFICES ASSUME LinkInv, [Next]_vars PROVE LinkInv'
  OBVIOUS
<1> USE DEF LinkInv
<1>1. CASE Host
  BY <1>1, HostKeepsLinkInv
<1>2. ASSUME NEW m \in net, Lose(m) PROVE LinkInv'
  <2>1. UNCHANGED fwVars /\ UNCHANGED <<running, hush>> /\ net' \subseteq net
    BY <1>2 DEF Lose, loopVars, history
  <2>2. FWP!SafeInv'
    BY <2>1, BoardStepSafe DEF fwVars, FWP!vars
  <2>3. FWP!Driving' = FWP!Driving /\ FWP!Elapsed' = FWP!Elapsed
    BY <2>1, Zenon DEF fwVars, FWP!Driving, FWP!Elapsed
  <2> QED
    BY <2>1, <2>2, <2>3 DEF LinkTyped, StaleFramesAreOld, MotionIsRecent, HushBound
<1>3. ASSUME NEW m \in net, Receive(m) PROVE LinkInv'
  <2>1. UNCHANGED <<running, hush>> /\ net' \subseteq net
    BY <1>3 DEF Receive, loopVars, history
  <2>2. FWP!SafeInv'
    BY <1>3, ReceiveEffect, BoardStepSafe
  <2>3. LinkTyped' /\ StaleFramesAreOld'
    BY <2>1 DEF LinkTyped, StaleFramesAreOld, HushBound
  <2>4. MotionIsRecent'
    <3>1. m.frame # StopFrame => hush <= MaxDelay
      BY DelayAssumption DEF LinkTyped, StaleFramesAreOld, HushBound
    <3>2. \/ ~FWP!Driving'
          \/ FWP!Driving /\ FWP!Elapsed' = FWP!Elapsed
          \/ m.frame # StopFrame /\ FWP!Elapsed' = 0
      BY <1>3, ReceiveEffect
    <3> QED
      BY <2>1, <3>1, <3>2, DelayAssumption DEF MotionIsRecent
  <2> QED
    BY <2>2, <2>3, <2>4
<1>4. CASE BoardStep
  <2>1. UNCHANGED <<running, hush, net>>
    BY <1>4 DEF BoardStep, loopVars, history
  <2>2. [FWP!Next]_FWP!vars /\ UNCHANGED <<millis, lastCommandTime>> /\ (FWP!Driving' => FWP!Driving)
    BY <1>4, BoardEffect DEF BoardStep
  <2>3. FWP!SafeInv'
    BY <2>2, BoardStepSafe
  <2>4. FWP!Elapsed' = FWP!Elapsed
    BY <2>2, Zenon DEF FWP!Elapsed
  <2> QED
    BY <2>1, <2>2, <2>3, <2>4
    DEF LinkTyped, StaleFramesAreOld, MotionIsRecent, HushBound
<1>5. CASE Reboot
  <2>1. UNCHANGED <<running, hush, net>>
    BY <1>5 DEF Reboot, loopVars, history
  <2>2. FWP!SafeInv' /\ ~FWP!Driving'
    BY <1>5, RebootEffect, BoardStepSafe DEF Reboot
  <2> QED
    BY <2>1, <2>2 DEF LinkTyped, StaleFramesAreOld, MotionIsRecent, HushBound
<1>6. CASE Advance
  <2>1. FW!Tick
    BY <1>6 DEF Advance
  <2>2. FWP!SafeInv' /\ (FWP!Driving' => FWP!Driving /\ FWP!Elapsed' = FWP!Elapsed + 1)
    BY <2>1, AdvanceEffect, BoardStepSafe
  <2>3. hush \in Nat /\ HushBound \in Nat
    BY TimeoutAssumption, DelayAssumption DEF LinkTyped, HushBound
  <2>4. /\ hush' \in 0 .. HushBound
        /\ hush' <= hush + 1
        /\ running' => hush' = 0
    <3>1. hush' = IF running THEN 0 ELSE Upto(HushBound, hush)
      BY <1>6 DEF Advance
    <3>2. running' = running
      BY <1>6 DEF Advance
    <3> QED
      BY <2>3, <3>1, <3>2 DEF Upto, LinkTyped
  <2>5. \A n \in net' : \E m \in net :
          /\ m.age < MaxDelay
          /\ n = [m EXCEPT !.age = m.age + 1]
    BY <1>6 DEF Advance
  <2>6. /\ net' \subseteq [frame : HostFrames, age : 0 .. MaxDelay]
        /\ StaleFramesAreOld'
    <3> SUFFICES ASSUME NEW n \in net'
                 PROVE  /\ n \in [frame : HostFrames, age : 0 .. MaxDelay]
                        /\ n.frame # StopFrame => hush' <= n.age
      BY DEF StaleFramesAreOld
    <3>1. PICK m \in net : m.age < MaxDelay /\ n = [m EXCEPT !.age = m.age + 1]
      BY <2>5
    <3>2. m \in [frame : HostFrames, age : 0 .. MaxDelay]
      BY DEF LinkTyped
    <3>3. m.frame # StopFrame => hush <= m.age
      BY DEF StaleFramesAreOld
    <3>4. n.frame = m.frame /\ n.age = m.age + 1 /\ m.age \in 0 .. MaxDelay
      BY <3>1, <3>2
    <3>5. n \in [frame : HostFrames, age : 0 .. MaxDelay]
      BY <3>1, <3>2, DelayAssumption
    <3> QED
      BY <2>3, <2>4, <3>3, <3>4, <3>5
  <2>7. MotionIsRecent'
    <3>1. FWP!Driving => FWP!Elapsed \in Nat
      BY FWP!ElapsedType, FramesAreDatagrams, TimeoutAssumption DEF FWP!SafeInv
    <3> QED
      BY <2>2, <2>3, <2>4, <3>1, DelayAssumption DEF MotionIsRecent
  <2> QED
    BY <2>2, <2>4, <2>6, <2>7 DEF LinkTyped, HushBound
<1>7. CASE UNCHANGED vars
  <2>1. UNCHANGED <<running, hush, net>> /\ UNCHANGED fwVars
    BY <1>7 DEF vars, loopVars, history
  <2>2. FWP!SafeInv'
    BY <2>1, BoardStepSafe DEF fwVars, FWP!vars
  <2>3. FWP!Driving' = FWP!Driving /\ FWP!Elapsed' = FWP!Elapsed
    BY <2>1, Zenon DEF fwVars, FWP!Driving, FWP!Elapsed
  <2> QED
    BY <2>1, <2>2, <2>3 DEF LinkTyped, StaleFramesAreOld, MotionIsRecent, HushBound
<1> QED
  BY <1>1, <1>2, <1>3, <1>4, <1>5, <1>6, <1>7 DEF Next

\* Whatever the network loses, delays, reorders or repeats: once the host has
\* neither run its loop nor asked for a status for one heartbeat period and one
\* network delay, no motor drives.
THEOREM HushedHostStopsMotors == Spec => []HushStopsMotors
<1>1. LinkInv => HushStopsMotors
  <2> SUFFICES ASSUME LinkInv, FW!Driving PROVE hush <= Timeout + MaxDelay + 1
    BY TimeoutAssumption, DelayAssumption
    DEF HushStopsMotors, LinkInv, LinkTyped, HushBound
  <2>1. FWP!Driving
    BY SameBoard
  <2>2. FWP!Elapsed <= Timeout + 1 /\ FWP!Elapsed \in Nat
    BY <2>1, FWP!ElapsedType, FramesAreDatagrams, TimeoutAssumption
    DEF LinkInv, FWP!SafeInv, FWP!WatchdogBound
  <2>3. hush <= FWP!Elapsed + MaxDelay
    BY <2>1 DEF LinkInv, MotionIsRecent
  <2>4. hush \in Nat
    BY TimeoutAssumption, DelayAssumption DEF LinkInv, LinkTyped, HushBound
  <2> QED
    BY <2>2, <2>3, <2>4, TimeoutAssumption, DelayAssumption
<1> QED
  BY <1>1, LinkInit, LinkStep, PTL DEF Spec
-----------------------------------------------------------------------------
\* The host and the board agree on the checksum, and a delay is shorter than
\* the heartbeat period.
StreamAssumption == MaxDelay < Timeout /\ \A f \in HostFrames : FW!FrameOk(f)

\* The board has heard a frame within the last n ticks, or one that old is on its way.
Covered(n) == FWP!Elapsed <= n \/ \E m \in net : m.age = n

\* Every tick of a clean stream sent a frame that arrives.
StreamArrives ==
  running /\ clean => (ticked => Covered(0)) /\ \A n \in 1 .. steady : Covered(n)
StreamInv == LinkInv /\ steady \in 0 .. MaxDelay + 1 /\ StreamArrives

\* What leaves the board alone and loses nothing covers what was covered.
LEMMA CoverageKept ==
  ASSUME FWP!Elapsed' <= FWP!Elapsed, net \subseteq net', NEW n \in Nat, Covered(n),
         FWP!Elapsed \in Nat, FWP!Elapsed' \in Nat
  PROVE  Covered(n)'
  BY DEF Covered

LEMMA HostKeepsStream == StreamInv /\ Host => StreamArrives'
<1> SUFFICES ASSUME StreamInv, Host, running', clean' PROVE StreamArrives'
  BY DEF StreamArrives
<1>1. UNCHANGED fwVars /\ net \subseteq net'
  BY DEF Host, Start, Stop, ChangeGoal, TickIdle, TickMove, TickArrived,
     HeartbeatStop, QueryStatus, Send
<1>2. FWP!Elapsed' = FWP!Elapsed /\ FWP!Elapsed \in Nat
  <2>1. FWP!Elapsed' = FWP!Elapsed
    BY <1>1, Zenon DEF fwVars, FWP!Elapsed
  <2> QED
    BY <2>1, FWP!ElapsedType, FramesAreDatagrams, TimeoutAssumption
    DEF StreamInv, LinkInv, FWP!SafeInv
<1>3. \A n \in Nat : Covered(n) => Covered(n)'
  BY <1>1, <1>2, CoverageKept
<1>4. CASE Start
  BY <1>4 DEF Start, StreamArrives
<1>5. CASE TickIdle \/ TickMove
  <2>1. UNCHANGED <<running, clean, steady>>
    BY <1>5 DEF TickIdle, TickMove, history
  <2>2. PICK f : net' = net \cup {[frame |-> f, age |-> 0]}
    BY <1>5 DEF TickIdle, TickMove, Send
  <2>3. \E m \in net' : m.age = 0
    <3>1. [frame |-> f, age |-> 0] \in net'
      BY <2>2
    <3>2. [frame |-> f, age |-> 0].age = 0
      OBVIOUS
    <3> QED
      BY <3>1, <3>2
  <2>4. Covered(0)'
    BY <2>3 DEF Covered
  <2>5. \A n \in 1 .. steady : n \in Nat /\ Covered(n)
    BY <2>1, DelayAssumption DEF StreamInv, StreamArrives
  <2> QED
    BY <1>3, <2>1, <2>4, <2>5 DEF StreamArrives
<1>6. CASE ChangeGoal \/ HeartbeatStop \/ QueryStatus
  <2>1. UNCHANGED <<running, clean, steady, ticked>>
    BY <1>6 DEF ChangeGoal, HeartbeatStop, QueryStatus, history, loopVars
  <2> QED
    BY <1>3, <2>1 DEF StreamInv, StreamArrives
<1> QED
  BY <1>4, <1>5, <1>6 DEF Host, Stop, TickArrived

\* A frame that is polled is executed; a lost one ends the clean stretch.
LEMMA FramesAreHeard ==
  ASSUME StreamAssumption, StreamInv, NEW m \in net, Receive(m)
  PROVE  FWP!Elapsed' = 0
<1>1. m.frame \in HostFrames
  BY DEF StreamInv, LinkInv, LinkTyped
<1>2. FW!PollFrame(m.frame)
  BY <1>1 DEF StreamAssumption, Receive, FW!DropFrame
<1>3. lastCommandTime' = millis /\ millis' = millis
  BY <1>2, Zenon DEF FW!PollFrame, FW!ExecuteCommand
<1> QED
  BY <1>3, FWP!ElapsedReset, FramesAreDatagrams, TimeoutAssumption
  DEF StreamInv, LinkInv, FWP!SafeInv, FWP!TypeOK

LEMMA ClockKeepsStream == StreamInv /\ Advance => StreamArrives'
<1> SUFFICES ASSUME StreamInv, Advance, running', clean' PROVE StreamArrives'
  BY DEF StreamArrives
<1>1. running /\ clean /\ ticked /\ ~ticked'
  BY DEF Advance
<1>2. steady' = Upto(MaxDelay + 1, steady) /\ steady \in 0 .. MaxDelay + 1
  BY <1>1 DEF Advance, StreamInv
<1>3. FWP!Elapsed' <= FWP!Elapsed + 1 /\ FWP!Elapsed \in Nat /\ FWP!Elapsed' \in Nat
  <2>1. FWP!Tick
    BY Zenon DEF Advance, FW!Tick, FWP!Tick
  <2> QED
    BY <2>1, FWP!ElapsedSteps, FWP!ElapsedType, FramesAreDatagrams, TimeoutAssumption
    DEF StreamInv, LinkInv, FWP!SafeInv
<1>4. ASSUME NEW n \in Nat, Covered(n) PROVE Covered(n + 1)'
  <2>1. CASE FWP!Elapsed <= n
    BY <1>3, <2>1 DEF Covered
  <2>2. ASSUME NEW m \in net, m.age = n PROVE Covered(n + 1)'
    <3>1. [m EXCEPT !.age = m.age + 1] \in net'
      BY DEF Advance
    <3>2. [m EXCEPT !.age = m.age + 1].age = n + 1
      BY <2>2 DEF StreamInv, LinkInv, LinkTyped
    <3> QED
      BY <3>1, <3>2 DEF Covered
  <2> QED
    BY <1>4, <2>1, <2>2 DEF Covered
<1>5. ASSUME NEW n \in 1 .. steady' PROVE Covered(n)'
  <2>1. n - 1 \in Nat /\ n - 1 <= steady
    BY <1>2, DelayAssumption DEF Upto
  <2>2. Covered(n - 1)
    BY <1>1, <1>2, <2>1 DEF StreamInv, StreamArrives
  <2>3. Covered((n - 1) + 1)'
    BY <1>4, <2>1, <2>2
  <2>4. (n - 1) + 1 = n
    BY <1>2, DelayAssumption DEF Upto
  <2> QED
    BY <2>3, <2>4
<1> QED
  BY <1>1, <1>5 DEF StreamArrives

LEMMA StreamStep == StreamAssumption /\ StreamInv /\ [Next]_vars => StreamInv'
<1> SUFFICES ASSUME StreamAssumption, StreamInv, [Next]_vars PROVE StreamInv'
  OBVIOUS
<1>1. LinkInv'
  BY LinkStep DEF StreamInv
<1>2. steady' \in 0 .. MaxDelay + 1
  <2>1. steady' \in {0, steady, Upto(MaxDelay + 1, steady)}
    BY DEF Next, Host, Start, Stop, ChangeGoal, TickIdle, TickMove, TickArrived, HeartbeatStop,
       QueryStatus, Lose, Receive, BoardStep, Reboot, Advance, history, vars
  <2> QED
    BY <2>1, DelayAssumption DEF StreamInv, Upto
<1> SUFFICES StreamArrives'
  BY <1>1, <1>2 DEF StreamInv
<1>3. ASSUME FWP!Elapsed' = 0 PROVE StreamArrives'
  BY <1>2, <1>3 DEF StreamArrives, Covered
<1>4. ASSUME UNCHANGED <<running, clean, steady, ticked, net>>, FWP!Elapsed' = FWP!Elapsed
      PROVE  StreamArrives'
  BY <1>4 DEF StreamInv, StreamArrives, Covered
<1>5. CASE Host
  BY <1>5, HostKeepsStream
<1>6. ASSUME NEW m \in net, Lose(m) PROVE StreamArrives'
  BY <1>6 DEF Lose, loopVars, StreamArrives
<1>7. ASSUME NEW m \in net, Receive(m) PROVE StreamArrives'
  BY <1>3, <1>7, FramesAreHeard
<1>8. CASE BoardStep
  <2>1. UNCHANGED <<millis, lastCommandTime>>
    BY <1>8, BoardEffect DEF BoardStep, StreamInv, LinkInv
  <2>2. FWP!Elapsed' = FWP!Elapsed
    BY <2>1, Zenon DEF FWP!Elapsed
  <2> QED
    BY <1>4, <1>8, <2>2 DEF BoardStep, loopVars, history
<1>9. CASE Reboot
  <2>1. lastCommandTime' = 0 /\ millis' = 0
    BY <1>9, Zenon DEF Reboot, FW!Reboot
  <2> QED
    BY <1>3, <2>1, FWP!ElapsedReset, FramesAreDatagrams, TimeoutAssumption
<1>10. CASE Advance
  BY <1>10, ClockKeepsStream
<1>11. CASE UNCHANGED vars
  <2>1. FWP!Elapsed' = FWP!Elapsed
    BY <1>11, Zenon DEF vars, fwVars, FWP!Elapsed
  <2> QED
    BY <1>4, <1>11, <2>1 DEF vars, loopVars, history
<1> QED
  BY <1>5, <1>6, <1>7, <1>8, <1>9, <1>10, <1>11 DEF Next

\* Nothing sets the latch but a heartbeat check that finds the period over.
LEMMA LatchNeedsExpiry ==
  ASSUME Next, emergencyStopped'
  PROVE  emergencyStopped \/ FW!Expired
<1>1. CASE Host
  BY <1>1, Zenon DEF Host, Start, Stop, ChangeGoal, TickIdle, TickMove, TickArrived,
     HeartbeatStop, QueryStatus, fwVars
<1>2. ASSUME NEW m \in net, Lose(m) \/ Receive(m) PROVE emergencyStopped \/ FW!Expired
  <2>1. CASE Lose(m)
    BY <2>1, Zenon DEF Lose, fwVars
  <2>2. CASE Receive(m)
    BY <2>2, Zenon DEF Receive, FW!PollFrame, FW!ExecuteCommand, FW!DropFrame, FW!PollNothing
  <2> QED
    BY <1>2, <2>1, <2>2
<1>3. CASE BoardStep
  BY <1>3, Zenon DEF BoardStep, FW!SafetyCheck, FW!RunSteppers, FW!TargetReached, FW!PollNothing
<1>4. CASE Reboot
  BY <1>4, Zenon DEF Reboot, FW!Reboot
<1>5. CASE Advance
  BY <1>5, Zenon DEF Advance, FW!Tick
<1> QED
  BY <1>1, <1>2, <1>3, <1>4, <1>5 DEF Next

\* Whatever order the frames arrive in and however often: where host and board
\* agree on the checksum and no delay reaches the heartbeat period, a stream of
\* frames without a loss or a missed tick never lets the board latch.
THEOREM StreamKeepsLatchOpen == StreamAssumption => (Spec => StreamPreventsTimeout)
<1> SUFFICES ASSUME StreamAssumption PROVE Spec => StreamPreventsTimeout
  OBVIOUS
<1>1. Init => StreamInv
  BY LinkInit, DelayAssumption DEF Init, StreamInv, StreamArrives
<1>2. StreamInv /\ [Next]_vars => StreamInv'
  BY StreamStep
<1>3. StreamInv /\ [Next]_vars
        => [running /\ clean /\ steady > MaxDelay /\ emergencyStopped' => emergencyStopped]_vars
  <2> SUFFICES ASSUME StreamInv, Next, running, clean, steady > MaxDelay, emergencyStopped'
               PROVE  emergencyStopped
    BY Zenon
  <2>1. emergencyStopped \/ FW!Expired
    BY LatchNeedsExpiry
  <2>2. ~FW!Expired
    <3>1. steady = MaxDelay + 1 /\ MaxDelay + 1 \in 1 .. steady
      BY DelayAssumption DEF StreamInv
    <3>2. Covered(MaxDelay + 1)
      BY <3>1 DEF StreamInv, StreamArrives
    <3>3. \A m \in net : m.age # MaxDelay + 1
      BY DelayAssumption DEF StreamInv, LinkInv, LinkTyped
    <3>4. FWP!Elapsed <= MaxDelay + 1
      BY <3>2, <3>3 DEF Covered
    <3>5. FWP!Elapsed \in Nat
      BY FWP!ElapsedType, FramesAreDatagrams, TimeoutAssumption DEF StreamInv, LinkInv, FWP!SafeInv
    <3> QED
      BY <3>4, <3>5, SameBoard, DelayAssumption, TimeoutAssumption DEF FW!Expired, StreamAssumption
  <2> QED
    BY <2>1, <2>2
<1> QED
  BY <1>1, <1>2, <1>3, PTL DEF Spec, StreamPreventsTimeout

-----------------------------------------------------------------------------
(* BytecodeWire: the bytes of a frame and their exclusive or. *)

\* What a byte of a frame can be.
Byte == 0 .. 255

\* What & 0xFF keeps.
LowByte(x) == x % 256

LEMMA BytesAreNatural == \A x \in Byte : x \in Nat
BY DEF Byte

\* A byte is the sum of its bits.
BitSum(x) == (x % 2) + 2 * ((x \div 2) % 2) + 4 * ((x \div 4) % 2) + 8 * ((x \div 8) % 2)
               + 16 * ((x \div 16) % 2) + 32 * ((x \div 32) % 2)
               + 64 * ((x \div 64) % 2) + 128 * ((x \div 128) % 2)

LEMMA ByteIsBitSum ==
  ASSUME NEW x \in Byte
  PROVE  x = BitSum(x)
BY SMTT(30) DEF Byte, BitSum

\* Equal parities of sums with one summand in common.
LEMMA ParityOfSum ==
  ASSUME NEW x \in Nat, NEW y \in Nat, NEW z \in Nat, (x + z) % 2 = (y + z) % 2
  PROVE  x % 2 = y % 2
BY SMTT(30)

\* What ByteXor answers is a byte, and in either order the same one.
LEMMA XorIsByte ==
  ASSUME NEW a \in Nat, NEW b \in Nat
  PROVE  ByteXor(a, b) \in Byte
<1> DEFINE Bit(w) == (a \div w + b \div w) % 2
<1>1. /\ Bit(1) \in {0, 1} /\ Bit(2) \in {0, 1} /\ Bit(4) \in {0, 1} /\ Bit(8) \in {0, 1}
      /\ Bit(16) \in {0, 1} /\ Bit(32) \in {0, 1} /\ Bit(64) \in {0, 1} /\ Bit(128) \in {0, 1}
  BY SMTT(30)
<1>2. ByteXor(a, b) = 1 * Bit(1) + 2 * Bit(2) + 4 * Bit(4) + 8 * Bit(8) + 16 * Bit(16)
                        + 32 * Bit(32) + 64 * Bit(64) + 128 * Bit(128)
  BY DEF ByteXor
<1> HIDE DEF Bit
<1>3. QED BY <1>1, <1>2 DEF Byte

LEMMA XorIsSymmetric ==
  ASSUME NEW a \in Nat, NEW b \in Nat
  PROVE  ByteXor(a, b) = ByteXor(b, a)
<1>1. \A w \in {1, 2, 4, 8, 16, 32, 64, 128} : a \div w + b \div w = b \div w + a \div w
  BY SMT
<1>2. QED BY <1>1, Zenon DEF ByteXor

\* Only the low byte of an operand counts.
LEMMA XorOfMasked ==
  ASSUME NEW a \in Nat, NEW b \in Nat
  PROVE  /\ LowByte(a) \in Byte /\ LowByte(a) \in Nat
         /\ ByteXor(LowByte(a), b) = ByteXor(a, b)
<1>1. LowByte(a) \in Byte /\ LowByte(a) \in Nat
  BY DEF Byte, LowByte
<1> DEFINE m == a % 256
<1>2. /\ (m \div 1 + b \div 1) % 2 = (a \div 1 + b \div 1) % 2
      /\ (m \div 2 + b \div 2) % 2 = (a \div 2 + b \div 2) % 2
      /\ (m \div 4 + b \div 4) % 2 = (a \div 4 + b \div 4) % 2
      /\ (m \div 8 + b \div 8) % 2 = (a \div 8 + b \div 8) % 2
      /\ (m \div 16 + b \div 16) % 2 = (a \div 16 + b \div 16) % 2
      /\ (m \div 32 + b \div 32) % 2 = (a \div 32 + b \div 32) % 2
      /\ (m \div 64 + b \div 64) % 2 = (a \div 64 + b \div 64) % 2
      /\ (m \div 128 + b \div 128) % 2 = (a \div 128 + b \div 128) % 2
  BY SMTT(30)
<1> HIDE DEF m
<1>3. ByteXor(m, b) = ByteXor(a, b)
  BY <1>2, Zenon DEF ByteXor
<1>4. QED BY <1>1, <1>3, Zenon DEF m, LowByte

LEMMA XorOfMaskedRight ==
  ASSUME NEW a \in Nat, NEW b \in Nat
  PROVE  ByteXor(a, LowByte(b)) = ByteXor(a, b)
<1> DEFINE m == LowByte(b)
<1>1. m \in Nat
  BY XorOfMasked, Zenon
<1>2. ByteXor(m, a) = ByteXor(b, a)
  BY XorOfMasked, Zenon
<1> HIDE DEF m
<1>3. ByteXor(a, m) = ByteXor(m, a) /\ ByteXor(b, a) = ByteXor(a, b)
  BY <1>1, XorIsSymmetric, Zenon
<1>4. ByteXor(a, m) = ByteXor(a, b)
  BY <1>2, <1>3, Zenon
<1>5. QED BY <1>4, Zenon DEF m

\* Two bytes are told apart whatever they are combined with.
LEMMA XorIsInjective ==
  ASSUME NEW a \in Byte, NEW c \in Byte, NEW b \in Byte,
         ByteXor(a, b) = ByteXor(c, b)
  PROVE  a = c
<1> DEFINE A(w) == (a \div w + b \div w) % 2
           C(w) == (c \div w + b \div w) % 2
<1>1. /\ A(1) \in {0, 1} /\ A(2) \in {0, 1} /\ A(4) \in {0, 1} /\ A(8) \in {0, 1}
      /\ A(16) \in {0, 1} /\ A(32) \in {0, 1} /\ A(64) \in {0, 1} /\ A(128) \in {0, 1}
  BY SMTT(30) DEF Byte
<1>2. /\ C(1) \in {0, 1} /\ C(2) \in {0, 1} /\ C(4) \in {0, 1} /\ C(8) \in {0, 1}
      /\ C(16) \in {0, 1} /\ C(32) \in {0, 1} /\ C(64) \in {0, 1} /\ C(128) \in {0, 1}
  BY SMTT(30) DEF Byte
<1>3. 1 * A(1) + 2 * A(2) + 4 * A(4) + 8 * A(8) + 16 * A(16) + 32 * A(32) + 64 * A(64) + 128 * A(128)
      = 1 * C(1) + 2 * C(2) + 4 * C(4) + 8 * C(8) + 16 * C(16) + 32 * C(32) + 64 * C(64) + 128 * C(128)
  BY DEF ByteXor
<1> HIDE DEF A, C
<1>4. /\ A(1) = C(1) /\ A(2) = C(2) /\ A(4) = C(4) /\ A(8) = C(8)
      /\ A(16) = C(16) /\ A(32) = C(32) /\ A(64) = C(64) /\ A(128) = C(128)
  <2>1. A(1) = C(1) /\ A(2) = C(2)
    BY <1>1, <1>2, <1>3, SMTT(30)
  <2>2. A(4) = C(4) /\ A(8) = C(8)
    BY <1>1, <1>2, <1>3, <2>1, SMTT(30)
  <2>3. A(16) = C(16) /\ A(32) = C(32)
    BY <1>1, <1>2, <1>3, <2>1, <2>2, SMTT(30)
  <2>4. A(64) = C(64) /\ A(128) = C(128)
    BY <1>1, <1>2, <1>3, <2>1, <2>2, <2>3, SMTT(30)
  <2>5. QED BY <2>1, <2>2, <2>3, <2>4, Zenon
<1>5. \A w \in {1, 2, 4, 8, 16, 32, 64, 128} : (a \div w) % 2 = (c \div w) % 2
  <2> SUFFICES ASSUME NEW w \in {1, 2, 4, 8, 16, 32, 64, 128}
               PROVE  (a \div w) % 2 = (c \div w) % 2
    OBVIOUS
  <2> DEFINE x == a \div w
             y == c \div w
             z == b \div w
  <2>1. x \in Nat /\ y \in Nat /\ z \in Nat
    BY DEF Byte
  <2>2. A(w) = C(w)
    BY <1>4
  <2>3. (x + z) % 2 = (y + z) % 2
    BY <2>2, Zenon DEF A, C
  <2> HIDE DEF x, y, z
  <2>4. x % 2 = y % 2
    BY <2>1, <2>3, ParityOfSum, Zenon
  <2>5. QED BY <2>4, Zenon DEF x, y
<1>6. /\ (a \div 2) % 2 = (c \div 2) % 2 /\ (a \div 4) % 2 = (c \div 4) % 2
      /\ (a \div 8) % 2 = (c \div 8) % 2 /\ (a \div 16) % 2 = (c \div 16) % 2
      /\ (a \div 32) % 2 = (c \div 32) % 2 /\ (a \div 64) % 2 = (c \div 64) % 2
      /\ (a \div 128) % 2 = (c \div 128) % 2
  BY <1>5
<1>7. a % 2 = c % 2
  <2>1. a \div 1 = a /\ c \div 1 = c
    BY DEF Byte
  <2>2. (a \div 1) % 2 = (c \div 1) % 2
    BY <1>5
  <2>3. QED BY <2>1, <2>2, Zenon
<1>8. BitSum(a) = BitSum(c)
  BY <1>6, <1>7, Zenon DEF BitSum
<1>9. QED BY <1>8, ByteIsBitSum, Zenon

-----------------------------------------------------------------------------
(* Frames as they leave the encoders. *)

Sent == IF seq = -1 THEN encodeFrame(cmd.op, cmd.left, cmd.right)
                    ELSE encodeFrameV2(seq, cmd.op, cmd.left, cmd.right, ACK_FLAG)

\* What is on the wire is the frame sent, but for one byte at most.
WireInv ==
  /\ cmd \in Commands
  /\ seq \in SeqNumbers \cup {-1}
  /\ garbled = 0 => wire = Sent
  /\ garbled # 0 => /\ garbled \in 1 .. Len(Sent)
                    /\ \E g \in Byte : g # Sent[garbled] /\ wire = [Sent EXCEPT ![garbled] = g]

\* The opcodes fit a byte: masking them changes nothing.
LEMMA OpcodesAreBytes == \A op \in KnownOpcodes : op \in Byte /\ LowByte(op) = op
BY DEF KnownOpcodes, Opcode, ACK_OPCODE, Byte, LowByte

\* The checksum is a byte and that of the masked parameters.
LEMMA ChecksumOfV1 ==
  ASSUME NEW op \in Byte, NEW l \in Nat, NEW r \in Nat
  PROVE  /\ calculateChecksum(op, l, r) \in Byte
         /\ calculateChecksum(op, LowByte(l), LowByte(r)) = calculateChecksum(op, l, r)
<1>1. op \in Nat
  BY DEF Byte
<1> DEFINE x == ByteXor(op, l)
<1>2. x \in Byte
  BY <1>1, XorIsByte, Zenon
<1>3. x \in Nat
  BY <1>2 DEF Byte
<1>4. ByteXor(op, LowByte(l)) = x
  BY <1>1, XorOfMaskedRight, Zenon
<1> HIDE DEF x
<1>5. ByteXor(x, LowByte(r)) = ByteXor(x, r)
  BY <1>3, XorOfMaskedRight, Zenon
<1>6. ByteXor(x, r) \in Byte
  BY <1>3, XorIsByte, Zenon
<1>7. calculateChecksum(op, l, r) = ByteXor(x, r)
  BY Zenon DEF calculateChecksum, x
<1>8. calculateChecksum(op, LowByte(l), LowByte(r)) = ByteXor(x, LowByte(r))
  BY <1>4, Zenon DEF calculateChecksum
<1>9. QED BY <1>5, <1>6, <1>7, <1>8, Zenon

\* A changed operand changes the result, and with it the checksum of the frame.
LEMMA XorTellsApart ==
  ASSUME NEW a \in Byte, NEW b \in Byte, NEW c \in Byte, a # c
  PROVE  ByteXor(a, b) # ByteXor(c, b) /\ ByteXor(b, a) # ByteXor(b, c)
<1>1. a \in Nat /\ b \in Nat /\ c \in Nat
  BY DEF Byte
<1>2. ByteXor(a, b) # ByteXor(c, b)
  BY XorIsInjective, Zenon
<1>3. QED BY <1>1, <1>2, XorIsSymmetric, Zenon

LEMMA BytesXorToByte ==
  ASSUME NEW a \in Byte, NEW b \in Byte
  PROVE  ByteXor(a, b) \in Byte
<1>1. a \in Nat /\ b \in Nat
  BY DEF Byte
<1>2. QED BY <1>1, XorIsByte, Zenon

LEMMA ChecksumV1TellsApart ==
  ASSUME NEW a \in Byte, NEW b \in Byte, NEW c \in Byte, NEW g \in Byte
  PROVE  /\ g # a => calculateChecksum(g, b, c) # calculateChecksum(a, b, c)
         /\ g # b => calculateChecksum(a, g, c) # calculateChecksum(a, b, c)
         /\ g # c => calculateChecksum(a, b, g) # calculateChecksum(a, b, c)
<1>1. ByteXor(a, b) \in Byte /\ ByteXor(g, b) \in Byte /\ ByteXor(a, g) \in Byte
  BY BytesXorToByte, Zenon
<1>2. g # a => ByteXor(g, b) # ByteXor(a, b)
  BY XorTellsApart, Zenon
<1>3. g # b => ByteXor(a, g) # ByteXor(a, b)
  BY XorTellsApart, Zenon
<1>4. QED BY <1>1, <1>2, <1>3, XorTellsApart, Zenon DEF calculateChecksum

\* The frames of V1 are six bytes whose checksum is right.
IsV1(f, op, l, r) ==
  /\ f \in Seq(Byte) /\ Len(f) = 6
  /\ f[1] = 170 /\ f[2] = op /\ f[3] = LowByte(l) /\ f[4] = LowByte(r)
  /\ f[5] = calculateChecksum(f[2], f[3], f[4]) /\ f[6] = 255

LEMMA V1Frames ==
  ASSUME NEW op \in KnownOpcodes, NEW l \in Nat, NEW r \in Nat
  PROVE  IsV1(encodeFrame(op, l, r), op, l, r)
<1>1. op \in Byte
  BY OpcodesAreBytes, Zenon
<1> DEFINE chk == calculateChecksum(op, l, r)
           x == LowByte(l)
           y == LowByte(r)
<1>2. chk \in Byte /\ calculateChecksum(op, x, y) = chk
  BY <1>1, ChecksumOfV1
<1>3. x \in Byte /\ y \in Byte /\ 170 \in Byte /\ 255 \in Byte
  BY DEF Byte, LowByte
<1>4. LowByte(op) = op
  BY OpcodesAreBytes, Zenon
<1> DEFINE f == <<170, op, x, y, chk, 255>>
<1>5. encodeFrame(op, l, r) = f
  BY <1>4 DEF encodeFrame, FRAME_START, FRAME_END, LowByte
<1> HIDE DEF chk, x, y
<1>6. /\ f \in Seq(Byte) /\ Len(f) = 6
      /\ f[1] = 170 /\ f[2] = op /\ f[3] = x /\ f[4] = y /\ f[5] = chk /\ f[6] = 255
  BY <1>1, <1>2, <1>3
<1> HIDE DEF f
<1>7. f[5] = calculateChecksum(f[2], f[3], f[4])
  BY <1>2, <1>6, Zenon
<1>8. IsV1(f, op, l, r)
  BY <1>6, <1>7, Zenon DEF IsV1, x, y
<1>9. QED BY <1>5, <1>8, Zenon

\* What decodeFrame answers for such a frame.
ReadV1(op, l, r) == [opcode |-> op, left |-> LowByte(l), right |-> LowByte(r)]

LEMMA V1Decodes ==
  ASSUME NEW op \in KnownOpcodes, NEW l \in Nat, NEW r \in Nat, NEW f, IsV1(f, op, l, r)
  PROVE  /\ decodeFrame(f) = ReadV1(op, l, r)
         /\ decodeFrame(f) # Null
<1>1. decodeFrame(f) = ReadV1(op, l, r)
  BY DEF decodeFrame, IsV1, ReadV1, FRAME_SIZE, FRAME_START, FRAME_END
<1>2. op # -1
  BY OpcodesAreBytes DEF Byte
<1>3. QED BY <1>1, <1>2 DEF Null, ReadV1

\* One byte of a sequence changed.
LEMMA OneChanged ==
  ASSUME NEW f \in Seq(Byte), NEW i \in 1 .. Len(f), NEW g \in Byte,
         NEW w, w = [f EXCEPT ![i] = g]
  PROVE  /\ w \in Seq(Byte) /\ Len(w) = Len(f) /\ w[i] = g
         /\ \A j \in 1 .. Len(f) : j # i => w[j] = f[j]
<1>1. w \in Seq(Byte) /\ Len(w) = Len(f)
  <2>1. [f EXCEPT ![i] = g] \in Seq(Byte) /\ Len([f EXCEPT ![i] = g]) = Len(f)
    BY ExceptSeq, ZenonT(30)
  <2>2. QED BY <2>1, Zenon
<1>2. w[i] = g /\ \A j \in 1 .. Len(f) : j # i => w[j] = f[j]
  OBVIOUS
<1>3. QED BY <1>1, <1>2, Zenon

\* Another byte at one place, and decodeFrame refuses what was a frame.
LEMMA V1Refuses ==
  ASSUME NEW op, NEW l, NEW r, NEW f, IsV1(f, op, l, r),
         NEW i \in 1 .. 6, NEW g \in Byte, g # f[i], NEW w, w = [f EXCEPT ![i] = g]
  PROVE  decodeFrame(w) = Null
<1>1. /\ f \in Seq(Byte) /\ Len(f) = 6 /\ i \in 1 .. Len(f)
      /\ f[1] = 170 /\ f[6] = 255
      /\ f[5] = calculateChecksum(f[2], f[3], f[4])
  BY DEF IsV1
<1>2. /\ w[i] = g /\ Len(w) = 6 /\ \A j \in 1 .. 6 : j # i => w[j] = f[j]
  <2>1. \A j \in 1 .. Len(f) : j # i => w[j] = f[j]
    BY <1>1, OneChanged
  <2>2. w[i] = g /\ Len(w) = Len(f)
    BY <1>1, OneChanged
  <2>3. QED BY <1>1, <2>1, <2>2, Zenon
<1>3. f[2] \in Byte /\ f[3] \in Byte /\ f[4] \in Byte
  <2>1. f \in Seq(Byte)
    BY <1>1, Zenon
  <2>2. \A n \in 1 .. Len(f) : f[n] \in Byte
    BY <2>1, ElementOfSeq, Zenon
  <2>3. QED BY <1>1, <2>2
<1>4. /\ i # 1 => w[1] = f[1]
      /\ i # 2 => w[2] = f[2]
      /\ i # 3 => w[3] = f[3]
      /\ i # 4 => w[4] = f[4]
      /\ i # 5 => w[5] = f[5]
      /\ i # 6 => w[6] = f[6]
  BY <1>2
<1>5. /\ g # f[2] => calculateChecksum(g, f[3], f[4]) # f[5]
      /\ g # f[3] => calculateChecksum(f[2], g, f[4]) # f[5]
      /\ g # f[4] => calculateChecksum(f[2], f[3], g) # f[5]
  <2> DEFINE a == f[2]
             b == f[3]
             c == f[4]
  <2>1. a \in Byte /\ b \in Byte /\ c \in Byte /\ f[5] = calculateChecksum(a, b, c)
    BY <1>1, <1>3, Zenon
  <2> HIDE DEF a, b, c
  <2>2. /\ g # a => calculateChecksum(g, b, c) # f[5]
        /\ g # b => calculateChecksum(a, g, c) # f[5]
        /\ g # c => calculateChecksum(a, b, g) # f[5]
    BY <2>1, ChecksumV1TellsApart, Zenon
  <2>3. QED BY <2>2, Zenon DEF a, b, c
<1>6. i = 1 \/ i = 2 \/ i = 3 \/ i = 4 \/ i = 5 \/ i = 6
  OBVIOUS
<1>7. w[1] # 170 \/ w[6] # 255 \/ w[5] # calculateChecksum(w[2], w[3], w[4])
  <2>1. CASE i = 1
    BY <1>1, <1>2, <2>1
  <2>2. CASE i = 2
    BY <1>2, <1>4, <1>5, <2>2
  <2>3. CASE i = 3
    BY <1>2, <1>4, <1>5, <2>3
  <2>4. CASE i = 4
    BY <1>2, <1>4, <1>5, <2>4
  <2>5. CASE i = 5
    BY <1>1, <1>2, <1>4, <2>5
  <2>6. CASE i = 6
    BY <1>1, <1>2, <2>6
  <2>7. QED BY <1>6, <2>1, <2>2, <2>3, <2>4, <2>5, <2>6, Zenon
<1>8. QED BY <1>7, Zenon DEF decodeFrame, FRAME_START, FRAME_END

-----------------------------------------------------------------------------
(* The frames of V2. *)

\* The same of the checksum over five bytes.
LEMMA ChecksumOfV2 ==
  ASSUME NEW s \in Byte, NEW op \in Byte, NEW l \in Nat, NEW r \in Nat, NEW t \in Byte
  PROVE  /\ calculateChecksumV2(s, op, l, r, t) \in Byte
         /\ calculateChecksumV2(s, op, LowByte(l), LowByte(r), t) = calculateChecksumV2(s, op, l, r, t)
<1>1. s \in Nat /\ op \in Nat /\ t \in Nat
  BY DEF Byte
<1> DEFINE x == ByteXor(s, op)
           y == ByteXor(x, l)
           z == ByteXor(y, r)
<1>2. x \in Byte
  BY <1>1, XorIsByte, Zenon
<1>3. x \in Nat
  BY <1>2 DEF Byte
<1> HIDE DEF x
<1>4. y \in Byte /\ ByteXor(x, LowByte(l)) = y
  BY <1>3, XorIsByte, XorOfMaskedRight, Zenon
<1>5. y \in Nat
  BY <1>4 DEF Byte
<1> HIDE DEF y
<1>6. z \in Byte /\ ByteXor(y, LowByte(r)) = z
  BY <1>5, XorIsByte, XorOfMaskedRight, Zenon
<1> HIDE DEF z
<1>7. z \in Nat
  BY <1>6 DEF Byte
<1>8. ByteXor(z, t) \in Byte
  BY <1>1, <1>7, XorIsByte, Zenon
<1>9. calculateChecksumV2(s, op, l, r, t) = ByteXor(z, t)
  BY Zenon DEF calculateChecksumV2, x, y, z
<1>10. calculateChecksumV2(s, op, LowByte(l), LowByte(r), t) = ByteXor(z, t)
  BY <1>4, <1>6, Zenon DEF calculateChecksumV2, x
<1>11. QED BY <1>8, <1>9, <1>10, Zenon

LEMMA ChecksumV2TellsApart ==
  ASSUME NEW a \in Byte, NEW b \in Byte, NEW c \in Byte, NEW d \in Byte, NEW e \in Byte, NEW g \in Byte
  PROVE  /\ g # a => calculateChecksumV2(g, b, c, d, e) # calculateChecksumV2(a, b, c, d, e)
         /\ g # b => calculateChecksumV2(a, g, c, d, e) # calculateChecksumV2(a, b, c, d, e)
         /\ g # c => calculateChecksumV2(a, b, g, d, e) # calculateChecksumV2(a, b, c, d, e)
         /\ g # d => calculateChecksumV2(a, b, c, g, e) # calculateChecksumV2(a, b, c, d, e)
         /\ g # e => calculateChecksumV2(a, b, c, d, g) # calculateChecksumV2(a, b, c, d, e)
<1>1. \A x, y \in Byte : ByteXor(x, y) \in Byte
  BY BytesXorToByte, Zenon
<1>2. \A p, q, u, v \in Byte : p # q => ByteXor(ByteXor(p, u), v) # ByteXor(ByteXor(q, u), v)
  BY <1>1, XorTellsApart, Zenon
<1>3. ByteXor(a, b) \in Byte /\ ByteXor(ByteXor(a, b), c) \in Byte
      /\ ByteXor(ByteXor(ByteXor(a, b), c), d) \in Byte
  BY <1>1, Zenon
<1>4. \A p, q \in Byte : p # q =>
        ByteXor(ByteXor(ByteXor(p, c), d), e) # ByteXor(ByteXor(ByteXor(q, c), d), e)
  <2> TAKE p \in Byte, q \in Byte
  <2> HAVE p # q
  <2> DEFINE x == ByteXor(p, c)
             y == ByteXor(q, c)
  <2>1. x \in Byte /\ y \in Byte /\ x # y
    BY <1>1, XorTellsApart, Zenon
  <2> HIDE DEF x, y
  <2>2. ByteXor(ByteXor(x, d), e) # ByteXor(ByteXor(y, d), e)
    BY <1>2, <2>1, Zenon
  <2>3. QED BY <2>2, Zenon DEF x, y
<1>5. ASSUME g # a PROVE calculateChecksumV2(g, b, c, d, e) # calculateChecksumV2(a, b, c, d, e)
  <2>1. ByteXor(g, b) \in Byte /\ ByteXor(g, b) # ByteXor(a, b)
    BY <1>1, <1>5, XorTellsApart, Zenon
  <2>2. QED BY <1>3, <1>4, <2>1, Zenon DEF calculateChecksumV2
<1>6. ASSUME g # b PROVE calculateChecksumV2(a, g, c, d, e) # calculateChecksumV2(a, b, c, d, e)
  <2>1. ByteXor(a, g) \in Byte /\ ByteXor(a, g) # ByteXor(a, b)
    BY <1>1, <1>6, XorTellsApart, Zenon
  <2>2. QED BY <1>3, <1>4, <2>1, Zenon DEF calculateChecksumV2
<1>7. ASSUME g # c PROVE calculateChecksumV2(a, b, g, d, e) # calculateChecksumV2(a, b, c, d, e)
  <2>1. /\ ByteXor(ByteXor(a, b), g) \in Byte
        /\ ByteXor(ByteXor(a, b), g) # ByteXor(ByteXor(a, b), c)
    BY <1>1, <1>3, <1>7, XorTellsApart, Zenon
  <2>2. QED BY <1>2, <1>3, <2>1, Zenon DEF calculateChecksumV2
<1>8. ASSUME g # d PROVE calculateChecksumV2(a, b, c, g, e) # calculateChecksumV2(a, b, c, d, e)
  <2>1. /\ ByteXor(ByteXor(ByteXor(a, b), c), g) \in Byte
        /\ ByteXor(ByteXor(ByteXor(a, b), c), g) # ByteXor(ByteXor(ByteXor(a, b), c), d)
    BY <1>1, <1>3, <1>8, XorTellsApart, Zenon
  <2>2. QED BY <1>3, <2>1, XorTellsApart, Zenon DEF calculateChecksumV2
<1>9. ASSUME g # e PROVE calculateChecksumV2(a, b, c, d, g) # calculateChecksumV2(a, b, c, d, e)
  BY <1>3, <1>9, XorTellsApart, Zenon DEF calculateChecksumV2
<1>10. QED BY <1>5, <1>6, <1>7, <1>8, <1>9, Zenon

\* The frames of V2 are eight bytes whose checksum is right, the flags before it.
IsV2(f, s, op, l, r) ==
  /\ f \in Seq(Byte) /\ Len(f) = 8
  /\ f[1] = 170 /\ f[2] = LowByte(s) /\ f[3] = op /\ f[4] = LowByte(l) /\ f[5] = LowByte(r)
  /\ f[6] = 1 /\ f[7] = calculateChecksumV2(f[2], f[3], f[4], f[5], f[6]) /\ f[8] = 255

LEMMA V2Frames ==
  ASSUME NEW s \in Nat, NEW op \in KnownOpcodes, NEW l \in Nat, NEW r \in Nat
  PROVE  IsV2(encodeFrameV2(s, op, l, r, ACK_FLAG), s, op, l, r)
<1>1. op \in Byte
  BY OpcodesAreBytes, Zenon
<1> DEFINE n == LowByte(s)
           x == LowByte(l)
           y == LowByte(r)
           chk == calculateChecksumV2(n, op, l, r, 1)
<1>2. n \in Byte /\ x \in Byte /\ y \in Byte /\ 170 \in Byte /\ 255 \in Byte /\ 1 \in Byte
  BY DEF Byte, LowByte
<1> HIDE DEF n
<1>3. chk \in Byte /\ calculateChecksumV2(n, op, x, y, 1) = chk
  BY <1>1, <1>2, ChecksumOfV2
<1>4. LowByte(op) = op
  BY OpcodesAreBytes, Zenon
<1> DEFINE f == <<170, n, op, x, y, 1, chk, 255>>
<1>5. encodeFrameV2(s, op, l, r, ACK_FLAG) = f
  <2>1. LowByte(1) = 1
    BY DEF LowByte
  <2>2. QED BY <1>4, <2>1 DEF encodeFrameV2, FRAME_START, FRAME_END, ACK_FLAG, n, LowByte
<1> HIDE DEF chk, x, y
<1>6. /\ f \in Seq(Byte) /\ Len(f) = 8
      /\ f[1] = 170 /\ f[2] = n /\ f[3] = op /\ f[4] = x /\ f[5] = y /\ f[6] = 1
      /\ f[7] = chk /\ f[8] = 255
  BY <1>1, <1>2, <1>3
<1> HIDE DEF f
<1>7. f[7] = calculateChecksumV2(f[2], f[3], f[4], f[5], f[6])
  BY <1>3, <1>6, Zenon
<1>8. IsV2(f, s, op, l, r)
  BY <1>6, <1>7, Zenon DEF IsV2, x, y, n
<1>9. QED BY <1>5, <1>8, Zenon

\* What decodeFrameV2 answers for such a frame.
ReadV2(s, op, l, r) ==
  [opcode |-> op, left |-> LowByte(l), right |-> LowByte(r), seq |-> LowByte(s), flags |-> 1]

LEMMA V2Decodes ==
  ASSUME NEW s, NEW op \in KnownOpcodes, NEW l, NEW r, NEW f, IsV2(f, s, op, l, r)
  PROVE  /\ decodeFrameV2(f) = ReadV2(s, op, l, r)
         /\ decodeFrameV2(f) # Null
         /\ decodeFrame(f) = Null
<1>1. decodeFrameV2(f) = ReadV2(s, op, l, r)
  BY DEF decodeFrameV2, IsV2, ReadV2, FRAME_SIZE_V2, FRAME_START, FRAME_END
<1>2. op # -1
  BY OpcodesAreBytes DEF Byte
<1>3. decodeFrame(f) = Null
  BY DEF decodeFrame, IsV2, FRAME_END
<1>4. QED BY <1>1, <1>2, <1>3 DEF Null, ReadV2

\* Another byte at one place, and decodeFrameV2 refuses what was a frame.
LEMMA V2Refuses ==
  ASSUME NEW s, NEW op, NEW l, NEW r, NEW f, IsV2(f, s, op, l, r),
         NEW i \in 1 .. 8, NEW g \in Byte, g # f[i], NEW w, w = [f EXCEPT ![i] = g]
  PROVE  decodeFrameV2(w) = Null
<1>1. /\ f \in Seq(Byte) /\ Len(f) = 8 /\ i \in 1 .. Len(f)
      /\ f[1] = 170 /\ f[8] = 255
      /\ f[7] = calculateChecksumV2(f[2], f[3], f[4], f[5], f[6])
  BY DEF IsV2
<1>2. /\ w[i] = g /\ \A j \in 1 .. 8 : j # i => w[j] = f[j]
  <2>1. \A j \in 1 .. Len(f) : j # i => w[j] = f[j]
    BY <1>1, OneChanged
  <2>2. w[i] = g
    BY <1>1, OneChanged
  <2>3. QED BY <1>1, <2>1, <2>2, Zenon
<1>3. f[2] \in Byte /\ f[3] \in Byte /\ f[4] \in Byte /\ f[5] \in Byte /\ f[6] \in Byte
  <2>1. f \in Seq(Byte)
    BY <1>1, Zenon
  <2>2. \A n \in 1 .. Len(f) : f[n] \in Byte
    BY <2>1, ElementOfSeq, Zenon
  <2>3. QED BY <1>1, <2>2
<1>4. /\ i # 1 => w[1] = f[1]
      /\ i # 2 => w[2] = f[2]
      /\ i # 3 => w[3] = f[3]
      /\ i # 4 => w[4] = f[4]
      /\ i # 5 => w[5] = f[5]
      /\ i # 6 => w[6] = f[6]
      /\ i # 7 => w[7] = f[7]
      /\ i # 8 => w[8] = f[8]
  BY <1>2
<1>5. /\ g # f[2] => calculateChecksumV2(g, f[3], f[4], f[5], f[6]) # f[7]
      /\ g # f[3] => calculateChecksumV2(f[2], g, f[4], f[5], f[6]) # f[7]
      /\ g # f[4] => calculateChecksumV2(f[2], f[3], g, f[5], f[6]) # f[7]
      /\ g # f[5] => calculateChecksumV2(f[2], f[3], f[4], g, f[6]) # f[7]
      /\ g # f[6] => calculateChecksumV2(f[2], f[3], f[4], f[5], g) # f[7]
  <2> DEFINE a == f[2]
             b == f[3]
             c == f[4]
             d == f[5]
             e == f[6]
  <2>1. /\ a \in Byte /\ b \in Byte /\ c \in Byte /\ d \in Byte /\ e \in Byte
        /\ f[7] = calculateChecksumV2(a, b, c, d, e)
    BY <1>1, <1>3, Zenon
  <2> HIDE DEF a, b, c, d, e
  <2>2. /\ g # a => calculateChecksumV2(g, b, c, d, e) # f[7]
        /\ g # b => calculateChecksumV2(a, g, c, d, e) # f[7]
        /\ g # c => calculateChecksumV2(a, b, g, d, e) # f[7]
        /\ g # d => calculateChecksumV2(a, b, c, g, e) # f[7]
        /\ g # e => calculateChecksumV2(a, b, c, d, g) # f[7]
    BY <2>1, ChecksumV2TellsApart
  <2>3. QED BY <2>2, Zenon DEF a, b, c, d, e
<1>6. i = 1 \/ i = 2 \/ i = 3 \/ i = 4 \/ i = 5 \/ i = 6 \/ i = 7 \/ i = 8
  OBVIOUS
<1>7. \/ w[1] # 170 \/ w[8] # 255
      \/ w[7] # calculateChecksumV2(w[2], w[3], w[4], w[5], w[6])
  <2>1. CASE i = 1
    BY <1>1, <1>2, <2>1
  <2>2. CASE i = 2
    BY <1>2, <1>4, <1>5, <2>2
  <2>3. CASE i = 3
    BY <1>2, <1>4, <1>5, <2>3
  <2>4. CASE i = 4
    BY <1>2, <1>4, <1>5, <2>4
  <2>5. CASE i = 5
    BY <1>2, <1>4, <1>5, <2>5
  <2>6. CASE i = 6
    BY <1>2, <1>4, <1>5, <2>6
  <2>7. CASE i = 7
    BY <1>1, <1>2, <1>4, <2>7
  <2>8. CASE i = 8
    BY <1>1, <1>2, <2>8
  <2>9. QED BY <1>6, <2>1, <2>2, <2>3, <2>4, <2>5, <2>6, <2>7, <2>8, Zenon
<1>8. QED BY <1>7, Zenon DEF decodeFrameV2, FRAME_START, FRAME_END

-----------------------------------------------------------------------------
(* The wire. *)

\* What was sent is a frame of its version.
SentIsWhole ==
  /\ seq = -1 => IsV1(Sent, cmd.op, cmd.left, cmd.right)
  /\ seq # -1 => IsV2(Sent, seq, cmd.op, cmd.left, cmd.right)

LEMMA SentFrames ==
  ASSUME cmd \in Commands, seq \in SeqNumbers \cup {-1}
  PROVE  /\ SentIsWhole
         /\ cmd.op \in KnownOpcodes /\ cmd.left \in Nat /\ cmd.right \in Nat
         /\ seq \in Nat \/ seq = -1
<1>1. /\ cmd.op \in KnownOpcodes /\ cmd.left \in Nat /\ cmd.right \in Nat
      /\ seq \in Nat \/ seq = -1
  BY CommandsAssumption, BytesAssumption
<1>2. CASE seq = -1
  <2>1. Sent = encodeFrame(cmd.op, cmd.left, cmd.right)
    BY <1>2, Zenon DEF Sent
  <2>2. IsV1(Sent, cmd.op, cmd.left, cmd.right)
    BY <1>1, <2>1, V1Frames, Zenon
  <2>3. QED BY <1>1, <1>2, <2>2, Zenon DEF SentIsWhole
<1>3. CASE seq # -1
  <2>1. Sent = encodeFrameV2(seq, cmd.op, cmd.left, cmd.right, ACK_FLAG)
    BY <1>3, Zenon DEF Sent
  <2>2. IsV2(Sent, seq, cmd.op, cmd.left, cmd.right)
    BY <1>1, <1>3, <2>1, V2Frames, Zenon
  <2>3. QED BY <1>1, <1>3, <2>2, Zenon DEF SentIsWhole
<1>4. QED BY <1>2, <1>3, Zenon

\* Garbling changes one byte of an intact frame.
LEMMA GarbleKeeps ==
  ASSUME WireInv, Garble
  PROVE  WireInv'
<1>1. PICK i \in 1 .. Len(wire), g \in Garbage :
        wire[i] # g /\ wire' = [wire EXCEPT ![i] = g] /\ garbled' = i
  BY Zenon DEF Garble
<1>2. garbled = 0 /\ cmd' = cmd /\ seq' = seq
  BY Zenon DEF Garble
<1>3. wire = Sent
  BY <1>2, Zenon DEF WireInv
<1>4. Sent' = Sent
  BY <1>2, Zenon DEF Sent
<1>5. g \in Byte
  BY BytesAssumption DEF Byte
<1>6. i \in 1 .. Len(Sent) /\ i # 0
  <2>1. Len(Sent) \in Nat
    BY SentFrames DEF WireInv, SentIsWhole, IsV1, IsV2
  <2>2. QED BY <1>3, <2>1
<1>7. garbled' # 0 /\ garbled' \in 1 .. Len(Sent')
  BY <1>1, <1>4, <1>6, Zenon
<1>8. g # Sent'[garbled'] /\ wire' = [Sent' EXCEPT ![garbled'] = g]
  BY <1>1, <1>3, <1>4, Zenon
<1>9. cmd' \in Commands /\ seq' \in SeqNumbers \cup {-1}
  BY <1>2, Zenon DEF WireInv
<1>10. QED BY <1>5, <1>7, <1>8, <1>9, Zenon DEF WireInv

\* The three parts of CodecHolds follow from the invariant.
LEMMA IntactFramesArrive ==
  ASSUME WireInv PROVE RoundTrip
<1> SUFFICES ASSUME garbled = 0
             PROVE  /\ Carries(decodeFrameAuto(wire))
                    /\ seq # -1 => /\ decodeFrameAuto(wire).seq = seq % 256
                                   /\ decodeFrameAuto(wire).flags = ACK_FLAG
                                   /\ decodeFrame(wire) = Null
  BY Zenon DEF RoundTrip
<1> DEFINE op == cmd.op
           l == cmd.left
           r == cmd.right
<1>1. /\ SentIsWhole /\ wire = Sent
      /\ op \in KnownOpcodes /\ l \in Nat /\ r \in Nat
      /\ seq \in Nat \/ seq = -1
  BY SentFrames, Zenon DEF WireInv
<1>2. op \in Byte
  BY <1>1, OpcodesAreBytes, Zenon
<1>3. CASE seq = -1
  <2>1. IsV1(wire, op, l, r)
    BY <1>1, <1>3, Zenon DEF SentIsWhole
  <2>2. decodeFrame(wire) = ReadV1(op, l, r)
        /\ decodeFrame(wire) # Null
    <3>1. op \in KnownOpcodes /\ l \in Nat /\ r \in Nat
      BY <1>1, Zenon
    <3>2. QED BY <2>1, <3>1, V1Decodes, Zenon
  <2>3. Len(wire) = 6
    BY <2>1, Zenon DEF IsV1
  <2>4. decodeFrameAuto(wire) = FromV1(wire)
    BY <2>3 DEF decodeFrameAuto, FRAME_SIZE_V2
  <2>5. FromV1(wire) = [opcode |-> op, left |-> LowByte(l), right |-> LowByte(r),
                        seq |-> 0, flags |-> 0]
    BY <2>2 DEF FromV1, ReadV1
  <2>6. Carries(decodeFrameAuto(wire))
    BY <1>2, <2>4, <2>5 DEF Carries, Null, Byte, LowByte
  <2>7. QED BY <1>3, <2>6, Zenon
<1>4. CASE seq # -1
  <2>1. IsV2(wire, seq, op, l, r)
    BY <1>1, <1>4, Zenon DEF SentIsWhole
  <2>2. /\ decodeFrameV2(wire) = ReadV2(seq, op, l, r)
        /\ decodeFrameV2(wire) # Null /\ decodeFrame(wire) = Null
    <3>1. op \in KnownOpcodes
      BY <1>1, Zenon
    <3>2. QED BY <2>1, <3>1, V2Decodes, Zenon
  <2>3. Len(wire) = 8
    BY <2>1, Zenon DEF IsV2
  <2>4. decodeFrameAuto(wire) = decodeFrameV2(wire)
    BY <2>2, <2>3 DEF decodeFrameAuto, FRAME_SIZE_V2
  <2>5. Carries(decodeFrameAuto(wire))
    BY <1>2, <2>2, <2>4 DEF Carries, Null, Byte, LowByte, ReadV2
  <2>6. QED BY <2>2, <2>4, <2>5 DEF ACK_FLAG, LowByte, ReadV2
<1>5. QED BY <1>3, <1>4, Zenon

LEMMA GarbledFramesDoNot ==
  ASSUME WireInv PROVE GarbledIsRefused
<1> SUFFICES ASSUME garbled # 0
             PROVE  IF seq = -1 THEN decodeFrame(wire) = Null ELSE decodeFrameV2(wire) = Null
  BY Zenon DEF GarbledIsRefused
<1>1. SentIsWhole /\ garbled \in 1 .. Len(Sent)
  BY SentFrames, Zenon DEF WireInv
<1>2. PICK g \in Byte : g # Sent[garbled] /\ wire = [Sent EXCEPT ![garbled] = g]
  BY Zenon DEF WireInv
<1>3. CASE seq = -1
  <2>1. IsV1(Sent, cmd.op, cmd.left, cmd.right)
    BY <1>1, <1>3, Zenon DEF SentIsWhole
  <2>2. garbled \in 1 .. 6
    BY <1>1, <2>1, Zenon DEF IsV1
  <2>3. decodeFrame(wire) = Null
    BY <1>2, <2>1, <2>2, V1Refuses, Zenon
  <2>4. QED BY <1>3, <2>3, Zenon
<1>4. CASE seq # -1
  <2>1. IsV2(Sent, seq, cmd.op, cmd.left, cmd.right)
    BY <1>1, <1>4, Zenon DEF SentIsWhole
  <2>2. garbled \in 1 .. 8
    BY <1>1, <2>1, Zenon DEF IsV2
  <2>3. decodeFrameV2(wire) = Null
    BY <1>2, <2>1, <2>2, V2Refuses, Zenon
  <2>4. QED BY <1>4, <2>3, Zenon
<1>5. QED BY <1>3, <1>4, Zenon

\* What a repair returns decodes to the opcode and the parameters it found.
LEMMA RepairsDecode ==
  ASSUME NEW w \in Seq(Byte), Len(w) = 6
  PROVE  /\ tryRepairChecksum(w) # <<>> => decodeFrame(tryRepairChecksum(w)) # Null
         /\ w[1] = 170 /\ w[6] = 255 /\ w[2] \in KnownOpcodes =>
              decodeFrame(tryRepairChecksum(w)) =
                ReadV1(w[2], w[3], w[4])
<1>1. w[3] \in Nat /\ w[4] \in Nat
  <2>1. \A n \in 1 .. Len(w) : w[n] \in Byte
    BY ElementOfSeq, Zenon
  <2>2. w[3] \in Byte /\ w[4] \in Byte
    BY <2>1
  <2>3. QED BY <2>2, BytesAreNatural, Zenon
<1>2. Len(w) >= FRAME_SIZE
  BY DEF FRAME_SIZE
<1>3. ASSUME w[1] = 170, w[6] = 255, w[2] \in KnownOpcodes
      PROVE  /\ decodeFrame(tryRepairChecksum(w)) =
                  ReadV1(w[2], w[3], w[4])
             /\ decodeFrame(tryRepairChecksum(w)) # Null
  <2> DEFINE f == encodeFrame(w[2], w[3], w[4])
  <2>1. tryRepairChecksum(w) = f
    BY <1>2, <1>3, Zenon DEF tryRepairChecksum, FRAME_START, FRAME_END
  <2>2. IsV1(f, w[2], w[3], w[4])
    <3>1. w[2] \in KnownOpcodes /\ w[3] \in Nat /\ w[4] \in Nat
      BY <1>1, <1>3, Zenon
    <3>2. QED BY <3>1, V1Frames, Zenon
  <2> HIDE DEF f
  <2>3. /\ decodeFrame(f) = ReadV1(w[2], w[3], w[4])
        /\ decodeFrame(f) # Null
    BY <1>1, <1>3, <2>2, V1Decodes
  <2>4. QED BY <2>1, <2>3, Zenon
<1>4. ASSUME ~(w[1] = 170 /\ w[6] = 255 /\ w[2] \in KnownOpcodes)
      PROVE  tryRepairChecksum(w) = <<>>
  BY <1>4, Zenon DEF tryRepairChecksum, FRAME_START, FRAME_END
<1>5. QED BY <1>3, <1>4, Zenon

LEMMA RepairsAreRight ==
  ASSUME WireInv PROVE RepairRestores
<1> SUFFICES ASSUME seq = -1
             PROVE  /\ garbled \in {0, 5} => Carries(decodeFrame(tryRepairChecksum(wire)))
                    /\ tryRepairChecksum(wire) # <<>> =>
                         decodeFrame(tryRepairChecksum(wire)) # Null
  BY Zenon DEF RepairRestores
<1> DEFINE op == cmd.op
           l == cmd.left
           r == cmd.right
<1>1. /\ IsV1(Sent, op, l, r)
      /\ op \in KnownOpcodes /\ l \in Nat /\ r \in Nat
  BY SentFrames, Zenon DEF WireInv, SentIsWhole
<1>2. op \in Byte
  BY <1>1, OpcodesAreBytes, Zenon
<1>3. Sent \in Seq(Byte) /\ Len(Sent) = 6
  BY <1>1, Zenon DEF IsV1
<1>4. /\ wire \in Seq(Byte) /\ Len(wire) = 6
      /\ garbled \in {0, 5} => \A n \in 1 .. 4 \cup {6} : wire[n] = Sent[n]
  <2>1. CASE garbled = 0
    BY <1>3, <2>1, Zenon DEF WireInv
  <2>2. CASE garbled # 0
    <3>1. garbled \in 1 .. Len(Sent)
      BY <2>2, Zenon DEF WireInv
    <3>2. PICK g \in Byte : wire = [Sent EXCEPT ![garbled] = g]
      BY <2>2, Zenon DEF WireInv
    <3>3. wire \in Seq(Byte) /\ Len(wire) = Len(Sent)
      <4>1. Sent \in Seq(Byte)
        BY <1>3, Zenon
      <4>2. /\ [Sent EXCEPT ![garbled] = g] \in Seq(Byte)
            /\ Len([Sent EXCEPT ![garbled] = g]) = Len(Sent)
        BY <3>1, <4>1, ExceptSeq, ZenonT(30)
      <4>3. QED BY <3>2, <4>2, Zenon
    <3>4. \A n \in 1 .. Len(Sent) : n # garbled => wire[n] = Sent[n]
      BY <1>3, <3>1, <3>2, OneChanged
    <3>5. QED BY <1>3, <2>2, <3>3, <3>4
  <2>3. QED BY <2>1, <2>2, Zenon
<1>5. tryRepairChecksum(wire) # <<>> => decodeFrame(tryRepairChecksum(wire)) # Null
  BY <1>4, RepairsDecode, Zenon
<1>6. ASSUME garbled \in {0, 5} PROVE Carries(decodeFrame(tryRepairChecksum(wire)))
  <2>1. /\ wire[1] = 170 /\ wire[2] = op /\ wire[6] = 255
        /\ wire[3] = LowByte(l) /\ wire[4] = LowByte(r)
    BY <1>1, <1>4, <1>6 DEF IsV1
  <2>2. decodeFrame(tryRepairChecksum(wire)) =
          ReadV1(op, LowByte(l), LowByte(r))
    <3>2. decodeFrame(tryRepairChecksum(wire)) =
            ReadV1(wire[2], wire[3], wire[4])
      BY <1>1, <1>4, <2>1, RepairsDecode, Zenon
    <3>3. QED BY <2>1, <3>2, Zenon
  <2>3. LowByte(LowByte(l)) = LowByte(l) /\ LowByte(LowByte(r)) = LowByte(r)
    BY <1>1 DEF LowByte
  <2>4. decodeFrame(tryRepairChecksum(wire)) = ReadV1(op, l, r)
    BY <2>2, <2>3, Zenon DEF ReadV1
  <2>5. QED BY <1>2, <2>4 DEF Carries, Null, Byte, ReadV1, LowByte
<1>7. QED BY <1>5, <1>6, Zenon

\* For every set of commands, of sequence numbers and of bytes a garbled one can
\* read as: an intact frame of either version decodes to the command encoded, one
\* garbled byte makes its decoder refuse it, and tryRepairChecksum() restores the
\* command of a frame whose checksum was garbled and returns nothing that
\* decodeFrame() refuses.
THEOREM FramesSurviveTheWire == WireSpec => []CodecHolds
<1>1. WireInit => WireInv
  BY Zenon DEF WireInit, WireInv, Sent
<1>2. WireInv /\ [WireNext]_wireVars => WireInv'
  <2>1. ASSUME WireInv, UNCHANGED wireVars PROVE WireInv'
    BY <2>1, Zenon DEF wireVars, WireInv, Sent
  <2>2. QED BY <2>1, GarbleKeeps, Zenon DEF WireNext
<1>3. WireInv => CodecHolds
  BY IntactFramesArrive, GarbledFramesDoNot, RepairsAreRight, Zenon DEF CodecHolds
<1>4. QED BY <1>1, <1>2, <1>3, PTL DEF WireSpec
=============================================================================
