------------------------------- MODULE CareRun -------------------------------
(****************************************************************************)
(* The care assistant's simulation (orchestrator/run_sim.ts): the           *)
(* orchestrator takes one opcode at a time, a control loop of twenty ticks  *)
(* a second drives to the goal the last robot.navigate named, and a wait on *)
(* port 3 is to be told of the arrival.  Positions are on the way between   *)
(* the doors; what a browser's physics reports is any position.             *)
(****************************************************************************)
EXTENDS Integers

CONSTANTS
  Doors, Where,  \* nodes of the scene graph, and the position of each
  Spoken, Meant, \* what the model may call a goal; the node found for it, or NoGoal
  NoGoal,        \* null
  RoomEnd,       \* bound: the last position
  Near           \* arrivalThresholdCm

ASSUME CareAssumption ==
  /\ NoGoal \notin Doors /\ Meant \in [Spoken -> Doors \cup {NoGoal}]
  /\ RoomEnd \in Nat /\ Near \in Nat /\ Where \in [Doors -> 0 .. RoomEnd]

VARIABLES
  exec,        \* what the orchestrator is about
  currentGoal, \* of the control loop, or NoGoal
  meant,       \* what the last navigate's name was found to be
  resolver,    \* arrivalResolve is set
  timer,       \* the timeout of a wait is pending
  early,       \* the wait began when there was no goal, or none any more
  pose,        \* the robot's position in the scene graph
  bridged,     \* hasBridgeTelemetry
  linked,      \* there is a transmitter
  sent         \* the last frame sent, "stop" before any

careVars == <<exec, currentGoal, meant, resolver, timer, early, pose, bridged, linked, sent>>
waitVars == <<resolver, timer, early>>
bodyVars == <<pose, bridged, linked>>

CareTypeOK ==
  /\ exec \in {"thinking", "calling", "waiting", "over"}
  /\ currentGoal \in Doors \cup {NoGoal} /\ meant \in Doors \cup {NoGoal}
  /\ {resolver, timer, early, bridged, linked} \subseteq BOOLEAN
  /\ pose \in 0 .. RoomEnd /\ sent \in {"drive", "stop"}

CareInit ==
  /\ exec = "thinking" /\ currentGoal = NoGoal /\ meant = NoGoal
  /\ resolver = FALSE /\ timer = FALSE /\ early = FALSE
  /\ pose = 0 /\ bridged = FALSE /\ linked \in BOOLEAN /\ sent = "stop"

-----------------------------------------------------------------------------
(* The orchestrator *)

\* onOpcode() of a navigate: a name that is found is the new goal before the call is
\* made, which may be refused; one that is not found leaves the goal there was.
NavigateTo(name) ==
  /\ exec = "thinking" /\ exec' \in {"calling", "thinking"}
  /\ meant' = Meant[name]
  /\ currentGoal' = IF Meant[name] # NoGoal THEN Meant[name] ELSE currentGoal
  /\ UNCHANGED <<waitVars, bodyVars, sent>>

\* robot.stop of the cartridge, which knows nothing of this loop and its goal.
StopCalled ==
  /\ exec = "thinking" /\ exec' = "calling"
  /\ sent' = IF linked THEN "stop" ELSE sent
  /\ UNCHANGED <<currentGoal, meant, waitVars, bodyVars>>

\* Another call, a read or a write.
OtherCalled ==
  /\ exec = "thinking" /\ exec' = "calling"
  /\ UNCHANGED <<currentGoal, meant, waitVars, bodyVars, sent>>

CallReturns ==
  /\ exec = "calling" /\ exec' = "thinking"
  /\ UNCHANGED <<currentGoal, meant, waitVars, bodyVars, sent>>

\* wait() of navHandler.
WaitBegins ==
  /\ exec = "thinking" /\ exec' = "waiting"
  /\ resolver' = TRUE /\ timer' = TRUE /\ early' = (currentGoal = NoGoal)
  /\ UNCHANGED <<currentGoal, meant, bodyVars, sent>>

\* The run is over, whatever its status: the interval is cleared before the STOP.
RunEnds ==
  /\ exec = "thinking" /\ exec' = "over"
  /\ sent' = IF linked THEN "stop" ELSE sent
  /\ UNCHANGED <<currentGoal, meant, waitVars, bodyVars>>

-----------------------------------------------------------------------------
(* Timers and the network *)

\* Resolving the promise of a wait lets the orchestrator go on.
WaitResolved == resolver' = FALSE /\ timer' = FALSE /\ exec' = "thinking"

WaitTimesOut ==
  /\ timer /\ timer' = FALSE
  /\ IF resolver THEN resolver' = FALSE /\ exec' = "thinking" ELSE UNCHANGED <<resolver, exec>>
  /\ UNCHANGED <<currentGoal, meant, early, bodyVars, sent>>

Ticking == exec # "over" /\ currentGoal # NoGoal
Away == LET d == Where[currentGoal] - pose IN IF d < 0 THEN -d ELSE d

\* A tick on the way: the pose follows the command, by a turn or by the next bit of
\* the way, unless physics was ever heard of.
Driving ==
  /\ Ticking /\ Away > Near
  /\ pose' \in IF bridged THEN {pose}
               ELSE {pose, IF Where[currentGoal] > pose THEN pose + 1 ELSE pose - 1}
  /\ sent' = IF linked THEN "drive" ELSE sent
  /\ UNCHANGED <<exec, currentGoal, meant, waitVars, bridged, linked>>

\* Slip: whoever waits is left to the timeout.
ArrivingUntold ==
  /\ Ticking /\ Away <= Near
  /\ currentGoal' = NoGoal
  /\ sent' = IF linked THEN "stop" ELSE sent
  /\ UNCHANGED <<exec, meant, waitVars, bodyVars>>

\* The tick that arrives sends STOP twice, and tells whoever waits.
Arriving ==
  /\ Ticking /\ Away <= Near
  /\ currentGoal' = NoGoal
  /\ sent' = IF linked THEN "stop" ELSE sent
  /\ IF resolver THEN WaitResolved ELSE UNCHANGED <<exec, resolver, timer>>
  /\ UNCHANGED <<meant, early, bodyVars>>

\* A pose from the bridge; that of a robot which has not moved is ignored.
TelemetryComes ==
  /\ linked /\ exec # "over"
  /\ pose' \in 0 .. RoomEnd /\ bridged' = TRUE
  /\ UNCHANGED <<exec, currentGoal, meant, waitVars, linked, sent>>

CareNext ==
  \/ \E name \in Spoken : NavigateTo(name)
  \/ StopCalled \/ OtherCalled \/ CallReturns \/ WaitBegins \/ RunEnds
  \/ WaitTimesOut \/ Driving \/ Arriving \/ TelemetryComes

CareSpec == CareInit /\ [][CareNext]_careVars /\ WF_careVars(WaitTimesOut)

-----------------------------------------------------------------------------
(* Properties *)

\* Whoever waits can be told and will be by a timeout at the latest, and nobody else
\* is waited for: no timer of a wait that is over is left to end a later one.
WaitCanEnd == (resolver <=> exec = "waiting") /\ (timer <=> resolver)

\* A wait goes on because the robot is on its way, or began when it was not: an
\* arrival while somebody waits is never left to the timeout.
ArrivalIsHeard == resolver => currentGoal # NoGoal \/ early

\* The robot drives to what the last navigate meant, if that was found.
GoalIsMeant == currentGoal # NoGoal /\ meant # NoGoal => currentGoal = meant

\* Without a goal, and after the run, the last frame sent is STOP.
RestIsOrdered == currentGoal = NoGoal \/ exec = "over" => sent = "stop"

\* A call of robot.navigate and the wait for it are about one journey, which ends with
\* the robot at rest.
JourneyIsWhole == WaitCanEnd /\ ArrivalIsHeard /\ GoalIsMeant /\ RestIsOrdered

\* Every wait ends, also one for an arrival that came before it.
CareWaitEnds == resolver ~> ~resolver
=============================================================================
