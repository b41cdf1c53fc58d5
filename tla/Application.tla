----------------------------- MODULE Application -----------------------------
(****************************************************************************)
(* The life of the program (index.ts): one control loop that clients of the *)
(* cartridge server and the gateway start and stop, a keepalive, a guard    *)
(* around the transmitter, and the shutdown on a signal, which takes them   *)
(* down one after the other and waits for the server's clients to leave.    *)
(* A tool call of the gateway stands for any that leads to a start().       *)
(****************************************************************************)
EXTENDS Integers

CONSTANTS
  Clients,  \* sockets of the cartridge server
  Cortex    \* the connection to the gateway

Callers == Clients \cup {Cortex}

VARIABLES
  stage,      \* how far the shutdown is
  joined,     \* the callers that are connected
  planning,   \* the callers whose call awaits a plan and was not cancelled
  visionOn,   \* the VisionLoop runs
  looping,    \* the ReactiveLoop runs: it is started with the VisionLoop, and may end before
  keeping,    \* the HeartbeatKeepAlive runs
  wrapped,    \* transmitter.send is the guard's
  open,       \* the transmitter is connected
  obstructed, \* the guard foresees a collision
  wire,       \* the last frame sent, "stop" before any
  revived,    \* history: the loop was started after the last signal
  rammed      \* history: a motion was sent that the guard forbids

appVars == <<stage, joined, planning, visionOn, looping, keeping, wrapped, open, obstructed, wire,
             revived, rammed>>

AppTypeOK ==
  /\ stage \in {"up", "closing", "disconnecting", "gone"}
  /\ joined \subseteq Callers /\ planning \subseteq Callers
  /\ {visionOn, looping, keeping, wrapped, open, obstructed, revived, rammed} \subseteq BOOLEAN
  /\ wire \in {"drive", "stop"}

\* The gateway, and the transmitter too, may be missing.
AppInit ==
  /\ stage = "up" /\ joined \in {{}, {Cortex}} /\ planning = {}
  /\ visionOn = FALSE /\ looping = FALSE /\ keeping = TRUE /\ wrapped = TRUE
  /\ open \in BOOLEAN /\ obstructed = FALSE /\ wire = "stop"
  /\ revived = FALSE /\ rammed = FALSE

-----------------------------------------------------------------------------
(* Frames *)

Guarded(frame) == IF obstructed THEN "stop" ELSE frame

\* transmitter.send(), which throws when the socket is closed.
Send(frame) ==
  LET sent == IF wrapped THEN Guarded(frame) ELSE frame IN
  /\ wire' = IF open THEN sent ELSE wire
  /\ rammed' = (rammed \/ (open /\ obstructed /\ sent = "drive"))

Quiet == UNCHANGED <<wire, rammed>>

\* A tick on the way: the loop asks the guard itself, and the transmitter may once more.
\* Without a goal it sends STOP.
TickOnTheWay ==
  /\ stage # "gone" /\ looping
  /\ \E frame \in {"drive", "stop"} : Send(Guarded(frame))
  /\ UNCHANGED <<stage, joined, planning, visionOn, looping, keeping, wrapped, open, obstructed, revived>>

\* ReactiveLoop.stop(): a loop that runs says STOP when it ends.
StopsLoop == looping' = FALSE /\ IF looping THEN Send("stop") ELSE Quiet

\* The last step of the gateway's session stops the VisionLoop as well.
TickArrives ==
  /\ stage # "gone" /\ looping /\ StopsLoop
  /\ visionOn' \in {visionOn, FALSE}
  /\ UNCHANGED <<stage, joined, planning, keeping, wrapped, open, obstructed, revived>>

Beats ==
  /\ keeping /\ Send("stop")
  /\ UNCHANGED <<stage, joined, planning, visionOn, looping, keeping, wrapped, open, obstructed, revived>>

-----------------------------------------------------------------------------
(* Callers *)

\* A server that closes takes no client; the gateway is joined again until the end.
Joins(c) ==
  /\ c \notin joined /\ (stage = "up" \/ (c = Cortex /\ stage = "closing"))
  /\ joined' = joined \cup {c}
  /\ UNCHANGED <<stage, planning, visionOn, looping, keeping, wrapped, open, obstructed, wire, revived, rammed>>

\* A client that leaves cancels the calls of all clients, their ids being different;
\* a connection of the gateway none.
Leaves(c) ==
  /\ c \in joined /\ joined' = joined \ {c}
  /\ planning' = IF c = Cortex THEN planning ELSE planning \ Clients
  /\ UNCHANGED <<stage, visionOn, looping, keeping, wrapped, open, obstructed, wire, revived, rammed>>

\* navigate, or go_to of the gateway.
Asks(c) ==
  /\ stage # "gone" /\ c \in joined /\ planning' = planning \cup {c}
  /\ UNCHANGED <<stage, joined, visionOn, looping, keeping, wrapped, open, obstructed, wire, revived, rammed>>

\* setGoal() and start(), which a VisionLoop that runs ignores.
Planned(c) ==
  /\ stage # "gone" /\ c \in planning /\ planning' = planning \ {c}
  /\ IF visionOn THEN UNCHANGED <<visionOn, looping, revived>>
     ELSE visionOn' = TRUE /\ looping' = TRUE /\ revived' = (stage # "up")
  /\ UNCHANGED <<stage, joined, keeping, wrapped, open, obstructed, wire, rammed>>

PlanFails(c) ==
  /\ stage # "gone" /\ c \in planning /\ planning' = planning \ {c}
  /\ UNCHANGED <<stage, joined, visionOn, looping, keeping, wrapped, open, obstructed, wire, revived, rammed>>

\* robot.stop sends a STOP of its own after the loop's.
StopAsked(c) ==
  /\ stage # "gone" /\ c \in joined
  /\ visionOn' = FALSE /\ looping' = FALSE /\ Send("stop")
  /\ UNCHANGED <<stage, joined, planning, keeping, wrapped, open, obstructed, revived>>

-----------------------------------------------------------------------------
(* Going down *)

\* Slip: the shutdown leaves the loop to itself.
SignalUnstopped ==
  /\ stage \in {"up", "closing"} /\ stage' = "closing"
  /\ keeping' = FALSE /\ wrapped' = FALSE /\ revived' = FALSE
  /\ UNCHANGED <<visionOn, looping, wire, rammed, joined, planning, open, obstructed>>

\* shutdown() up to its first await, the guard still there for the loop's STOP; a second
\* signal does it again.
Signal ==
  /\ stage \in {"up", "closing"} /\ stage' = "closing"
  /\ keeping' = FALSE /\ visionOn' = FALSE /\ StopsLoop /\ wrapped' = FALSE /\ revived' = FALSE
  /\ UNCHANGED <<joined, planning, open, obstructed>>

\* wss.close() calls back once its clients have left; the gateway and the socket follow.
ServerCloses ==
  /\ stage = "closing" /\ joined \cap Clients = {}
  /\ stage' = "disconnecting" /\ joined' = {} /\ open' = FALSE
  /\ UNCHANGED <<planning, visionOn, looping, keeping, wrapped, obstructed, wire, revived, rammed>>

Exits ==
  /\ stage = "disconnecting" /\ stage' = "gone" /\ visionOn' = FALSE /\ looping' = FALSE
  /\ UNCHANGED <<joined, planning, keeping, wrapped, open, obstructed, wire, revived, rammed>>

\* Something comes in the robot's way, or leaves it.
Crosses ==
  /\ obstructed' = ~obstructed
  /\ UNCHANGED <<stage, joined, planning, visionOn, looping, keeping, wrapped, open, wire, revived, rammed>>

AppNext ==
  \/ \E c \in Callers : Joins(c) \/ Leaves(c) \/ Asks(c) \/ Planned(c) \/ PlanFails(c) \/ StopAsked(c)
  \/ TickOnTheWay \/ TickArrives \/ Beats \/ Crosses
  \/ Signal \/ ServerCloses \/ Exits

AppSpec == AppInit /\ [][AppNext]_appVars /\ WF_appVars(ServerCloses) /\ WF_appVars(Exits)

-----------------------------------------------------------------------------
(* Properties *)

\* A robot whose loop does not run was told to stop; a loop that somebody's plan started
\* after the signal is the only one that can leave a motion behind.
NobodyDrives ==
  /\ ~looping /\ ~revived => wire = "stop"
  /\ stage # "up" /\ ~revived => ~looping

\* The loop asks the guard itself: no motion passes it, though the transmitter's guard is
\* off from the signal on.
NothingRammed == ~rammed

\* With one exception, the program that ends leaves a robot that stands.
GoingDownIsSafe == NobodyDrives /\ NothingRammed

\* The shutdown waits for the server's clients, and for nothing else.
ShutdownEnds == (stage = "closing") ~> (stage = "gone" \/ joined \cap Clients # {})
=============================================================================
