------------------------------ MODULE MotorLink ------------------------------
(****************************************************************************)
(* The motor link end to end: the host's ReactiveLoop, its                  *)
(* HeartbeatKeepAlive (as index.ts wires it) and status queries hand frames *)
(* to UDPTransmitter.send; UDP loses, delays, reorders and duplicates them; *)
(* the motor task of the board executes what arrives.                       *)
(****************************************************************************)
EXTENDS Integers

CONSTANTS
  StopFrame,          \* what encodeFrame makes of STOP(0, 0)
  MotionFrames,       \* ... and of the motions the controller decides on
  StatusFrame,        \* ... and of GET_STATUS
  Checksum(_, _, _), Timeout, Wrap,   \* see UnifiedFirmware
  MaxDelay,           \* ticks a datagram may spend in the network
  HeartbeatInterval,  \* ticks: HeartbeatConfig.intervalMs
  HeartbeatOn         \* index.ts starts the keepalive, the simulators do not

HostFrames == {StopFrame, StatusFrame} \cup MotionFrames

VARIABLES
  \* the host
  running,    \* ReactiveLoop.running
  goal,       \* ReactiveLoop.goal is not null
  ticked,     \* the loop's timer fired since the clock last advanced
  hbElapsed,  \* ticks since HeartbeatKeepAlive.lastCommandTime, up to the interval
  \* the network: frames in flight with their age
  net,
  \* the firmware
  millis, lastCommandTime, lastOpcode, emergencyStopped, motor, pc, checked,
  \* history, in ticks
  hush,       \* since the loop last ran or a status was asked
  steady,     \* the loop has been running for, up to a delay and one
  clean       \* nothing was lost and no tick late since the loop started

FW == INSTANCE UnifiedFirmware WITH Datagrams <- HostFrames

fwVars   == <<millis, lastCommandTime, lastOpcode, emergencyStopped, motor, pc,
              checked>>
loopVars == <<running, goal, ticked>>
history  == <<hush, steady, clean>>
vars     == <<loopVars, hbElapsed, net, fwVars, history>>

ASSUME FramesAssumption ==
  /\ HostFrames \subseteq FW!Datagram
  /\ StopFrame.op = FW!OP_STOP
  /\ StatusFrame.op = FW!OP_GET_STATUS
  /\ \A f \in MotionFrames : f.op \in FW!MotionOps
ASSUME TimeoutAssumption == Timeout \in Nat \ {0} /\ Wrap \in Nat /\ Wrap > Timeout + 1
ASSUME DelayAssumption ==
  /\ MaxDelay \in Nat
  /\ HeartbeatInterval \in Nat \ {0}
  /\ HeartbeatOn \in BOOLEAN

\* Past this many ticks of hush there is nothing left to distinguish.
HushBound == Timeout + MaxDelay + 2

TypeOK ==
  /\ FW!TypeOK
  /\ running \in BOOLEAN /\ goal \in BOOLEAN /\ ticked \in BOOLEAN
  /\ hbElapsed \in 0 .. HeartbeatInterval
  /\ net \subseteq [frame : HostFrames, age : 0 .. MaxDelay]
  /\ hush \in 0 .. HushBound
  /\ steady \in 0 .. MaxDelay + 1
  /\ clean \in BOOLEAN

Init ==
  /\ FW!Init
  /\ running = FALSE /\ goal = FALSE /\ ticked = FALSE
  /\ hbElapsed = 0
  /\ net = {}
  /\ hush = 0 /\ steady = 0 /\ clean = TRUE

-----------------------------------------------------------------------------
(* The host *)

\* UDPTransmitter.send: its retry after a failed socket.send is a longer
\* delay, its giving up a loss.
Send(f) == net' = net \cup {[frame |-> f, age |-> 0]}

Start ==
  /\ ~running
  /\ running' = TRUE
  /\ goal' \in {goal, TRUE}     \* start() keeps the goal it finds
  /\ ticked' = FALSE
  /\ hush' = 0 /\ steady' = 0 /\ clean' = TRUE
  /\ UNCHANGED <<hbElapsed, net, fwVars>>

Stop ==
  /\ running
  /\ running' = FALSE
  /\ Send(StopFrame)
  /\ hush' = 0 /\ steady' = 0 /\ clean' = TRUE
  /\ UNCHANGED <<goal, ticked, hbElapsed, fwVars>>

\* setGoal() and clearGoal()
ChangeGoal ==
  /\ goal' = ~goal
  /\ UNCHANGED <<running, ticked, hbElapsed, net, fwVars, history>>

\* A slip: a tick without a goal sends nothing.
TickIdleSilent ==
  /\ running
  /\ ticked' = TRUE
  /\ UNCHANGED <<running, goal, hbElapsed, net, fwVars, history>>

\* tick() without a goal, without a target, or with a frame the ReflexGuard
\* vetoed: a STOP goes out.
TickIdle ==
  /\ running
  /\ Send(StopFrame)
  /\ ticked' = TRUE
  /\ UNCHANGED <<running, goal, hbElapsed, fwVars, history>>

\* A slip: the timer outlives stop().
TickMoveUnstopped ==
  /\ goal
  /\ \E f \in MotionFrames : Send(f)
  /\ ticked' = TRUE
  /\ UNCHANGED <<running, goal, hbElapsed, fwVars, history>>

\* tick() towards the goal: a cruise or a rotation.
TickMove ==
  /\ running /\ goal
  /\ \E f \in MotionFrames : Send(f)
  /\ ticked' = TRUE
  /\ UNCHANGED <<running, goal, hbElapsed, fwVars, history>>

\* tick() at the goal: the STOP of the decision, then stop() and its own.
TickArrived ==
  /\ running /\ goal
  /\ running' = FALSE
  /\ Send(StopFrame)
  /\ ticked' = TRUE
  /\ hush' = 0 /\ steady' = 0 /\ clean' = TRUE
  /\ UNCHANGED <<goal, hbElapsed, fwVars>>

\* A slip: the keepalive polls the status instead of stopping the board.
HeartbeatQuery ==
  /\ HeartbeatOn
  /\ hbElapsed >= HeartbeatInterval
  /\ Send(StatusFrame)
  /\ UNCHANGED <<loopVars, hbElapsed, fwVars, history>>

\* The keepalive's timer finds its interval over.  No code calls
\* notifyCommand(), so lastCommandTime is the time of start() for ever.
HeartbeatStop ==
  /\ HeartbeatOn
  /\ hbElapsed >= HeartbeatInterval
  /\ Send(StopFrame)
  /\ UNCHANGED <<loopVars, hbElapsed, fwVars, history>>

\* A tool asks for the robot's status.
QueryStatus ==
  /\ Send(StatusFrame)
  /\ hush' = 0
  /\ UNCHANGED <<loopVars, hbElapsed, fwVars, steady, clean>>

-----------------------------------------------------------------------------
(* The network and the board *)

Lose(m) ==
  /\ net' = net \ {m}
  /\ clean' = ~running
  /\ UNCHANGED <<loopVars, hbElapsed, fwVars, hush, steady>>

\* The motor task polls a datagram; a duplicate may remain in flight.
Receive(m) ==
  /\ FW!PollFrame(m.frame) \/ FW!DropFrame(m.frame)
  /\ net' \in {net, net \ {m}}
  /\ UNCHANGED <<loopVars, hbElapsed, history>>

\* The rest of the motor task's loop.
BoardStep ==
  /\ FW!SafetyCheck \/ FW!RunSteppers \/ FW!TargetReached \/ FW!PollNothing
  /\ UNCHANGED <<loopVars, hbElapsed, net, history>>

Reboot ==
  /\ FW!Reboot
  /\ UNCHANGED <<loopVars, hbElapsed, net, history>>

Upto(bound, n) == IF n < bound THEN n + 1 ELSE bound

Advance ==
  /\ FW!Tick
  /\ \A m \in net : m.age < MaxDelay
  /\ net' = {[m EXCEPT !.age = @ + 1] : m \in net}
  /\ ticked' = FALSE
  /\ hbElapsed' = Upto(HeartbeatInterval, hbElapsed)
  /\ hush' = IF running THEN 0 ELSE Upto(HushBound, hush)
  /\ steady' = IF running THEN Upto(MaxDelay + 1, steady) ELSE 0
  /\ clean' = (clean /\ (running => ticked))
  /\ UNCHANGED <<running, goal>>

Host == Start \/ Stop \/ ChangeGoal \/ TickIdle \/ TickMove \/ TickArrived
          \/ HeartbeatStop \/ QueryStatus

Next ==
  \/ Host
  \/ \E m \in net : Lose(m) \/ Receive(m)
  \/ BoardStep
  \/ Reboot
  \/ Advance

Spec == Init /\ [][Next]_vars

\* The keepalive's interval timer fires, the motor task and the clock run, and
\* a STOP that is in flight at poll after poll is polled in the end.
ReceiveStop == \E m \in net : m.frame = StopFrame /\ Receive(m)
Fairness ==
  /\ WF_vars(HeartbeatStop)
  /\ WF_vars(BoardStep)
  /\ WF_vars(Advance)
  /\ SF_vars(ReceiveStop)

FairSpec == Spec /\ Fairness

-----------------------------------------------------------------------------
(* PROPERTIES *)

\* Whatever the network loses, delays, reorders or repeats, and wherever the
\* last motion frame was when the loop stopped, the motors are at most one
\* network delay plus one heartbeat period (and the check that ends it) behind
\* a host that neither runs its loop nor queries the status.
HushStopsMotors == hush > Timeout + MaxDelay + 1 => ~FW!Driving

\* With the keepalive running, an outage does not end the drive for good: once
\* the network stops losing frames, a latched board is released every time.
Loss == \E m \in net : Lose(m)
LatchClears == <>[][~Loss]_vars => []<>(~emergencyStopped)

\* Frames at 20 Hz inherently prevent the heartbeat timeout: while the loop has
\* been running for longer than a network delay, with nothing lost and no tick
\* missed, the latch is not set, whatever the order the frames arrive in.
StreamPreventsTimeout ==
  [][running /\ clean /\ steady > MaxDelay /\ emergencyStopped'
       => emergencyStopped]_vars
=============================================================================
