----------------------------- MODULE SpinalCord ------------------------------
(****************************************************************************)
(* The two-board firmware (firmware/esp32_s3_spinal_cord, deprecated but    *)
(* kept): loop() polls a datagram, runs the steppers, then makes two        *)
(* heartbeat checks with a latch and a time stamp each: its own, and the    *)
(* one of safety_layer.h, whose clamps turn every motion to zero steps.     *)
(****************************************************************************)
EXTENDS Integers

CONSTANTS
  HostTimeout  \* HOST_TIMEOUT_MS and hostHeartbeatMs, in ticks

ASSUME HostTimeoutAssumption == HostTimeout \in Nat \ {0}

\* What a datagram of at least six bytes makes the firmware do: the six
\* motions, a step count for one motor, STOP with either hold mode, a status
\* query, RESET, a command that moves nothing (SET_SPEED, LED_SET, an unknown
\* opcode), and a frame that fails its tests.
Packets == {"drive", "steps", "stop", "hold", "status", "reset", "other", "junk"}

VARIABLES
  cordPc,               \* where loop() stands
  checks,           \* the checks made since the clock last advanced
  quiet,            \* ticks since lastCommandTime, up to HostTimeout + 1
  layerQuiet,       \* ticks since safetyState.lastHostCommandTime, likewise
  cordStopped, \* the latch of the loop
  layerStopped,     \* safetyState.cordStopped
  motorsRunning,
  toGo,             \* some motor's distanceToGo() is not 0
  powered           \* the coils are energised

cordVars == <<cordPc, checks, quiet, layerQuiet, cordStopped, layerStopped,
          motorsRunning, toGo, powered>>
latches == <<cordStopped, layerStopped>>
motors  == <<motorsRunning, toGo, powered>>
stamps  == <<quiet, layerQuiet>>

Late == HostTimeout + 1

CordTypeOK ==
  /\ cordPc \in {"poll", "run", "host", "layer"}
  /\ checks \subseteq {"host", "layer"}
  /\ quiet \in 0 .. Late /\ layerQuiet \in 0 .. Late
  /\ {cordStopped, layerStopped, motorsRunning, toGo, powered} \subseteq BOOLEAN

\* safety_init() stamps the layer before setup() waits for the WiFi, up to
\* twenty seconds; the loop's own stamp is the last thing setup() does.
CordInit ==
  /\ cordPc = "poll" /\ checks = {}
  /\ quiet = 0
  /\ layerQuiet \in 0 .. Late
  /\ cordStopped = FALSE /\ layerStopped = FALSE
  /\ motorsRunning = FALSE /\ toGo = FALSE /\ powered = FALSE

-----------------------------------------------------------------------------
Halt     == motorsRunning' = FALSE /\ toGo' = FALSE
CoilsOff == powered' = FALSE

\* Any valid command but STOP and GET_STATUS resets a tripped heartbeat, the
\* layer along with it; opReset() does in any case.
Revive(p) ==
  IF p = "reset" \/ (cordStopped /\ p \notin {"stop", "hold", "status", "junk"})
    THEN cordStopped' = FALSE /\ layerStopped' = FALSE
    ELSE UNCHANGED latches

\* Every motion counts as running; a stopped layer clamps its steps to zero.
Execute(p) ==
  CASE p = "drive" ->
         /\ motorsRunning' = TRUE /\ UNCHANGED powered
         /\ toGo' \in IF layerStopped' THEN {FALSE} ELSE BOOLEAN
    [] p = "steps" ->
         /\ motorsRunning' = TRUE /\ UNCHANGED powered
         /\ toGo' \in IF layerStopped' THEN {FALSE, toGo} ELSE BOOLEAN
    [] p = "stop"  -> Halt /\ CoilsOff
    [] p = "hold"  -> Halt /\ UNCHANGED powered
    [] p = "reset" -> Halt /\ CoilsOff
    [] OTHER       -> UNCHANGED motors

\* CORTEX_IP has its default: datagrams of every sender are read.
\* The stamps come before the frame is looked at.
Poll(p) ==
  /\ cordPc = "poll" /\ cordPc' = "run"
  /\ quiet' = 0 /\ layerQuiet' = 0
  /\ Revive(p)
  /\ Execute(p)
  /\ UNCHANGED checks

\* No datagram, or one of less than six bytes.
CordPollNothing ==
  /\ cordPc = "poll" /\ cordPc' = "run"
  /\ UNCHANGED <<checks, stamps, latches, motors>>

SkipSteppers ==
  /\ cordPc = "run" /\ cordPc' = "host"
  /\ cordStopped
  /\ UNCHANGED <<checks, stamps, latches, motors>>

\* run() takes a step or none; motions done are noticed at once.
RunCordSteppers ==
  /\ cordPc = "run" /\ cordPc' = "host"
  /\ ~cordStopped
  /\ \/ /\ toGo
        /\ powered' = TRUE /\ UNCHANGED <<toGo, motorsRunning>>
     \/ /\ motorsRunning
        /\ Halt /\ CoilsOff
     \/ /\ ~motorsRunning /\ ~toGo
        /\ UNCHANGED motors
  /\ UNCHANGED <<checks, stamps, latches>>

\* A slip: the latch is set and the steppers keep their target.
TripLatchOnly ==
  /\ ~cordStopped
  /\ cordStopped' = TRUE /\ layerStopped' = TRUE
  /\ UNCHANGED motors

\* emergencyStop()
Trip ==
  /\ ~cordStopped
  /\ cordStopped' = TRUE /\ layerStopped' = TRUE
  /\ Halt /\ CoilsOff

\* A slip: the heartbeat of a robot at rest is not checked.
HostCheckRunning ==
  /\ cordPc = "host" /\ cordPc' = "layer"
  /\ checks' = checks \cup {"host"}
  /\ IF quiet > HostTimeout /\ ~cordStopped /\ motorsRunning
       THEN Trip
       ELSE UNCHANGED <<latches, motors>>
  /\ UNCHANGED stamps

HostCheck ==
  /\ cordPc = "host" /\ cordPc' = "layer"
  /\ checks' = checks \cup {"host"}
  /\ IF quiet > HostTimeout /\ ~cordStopped
       THEN Trip
       ELSE UNCHANGED <<latches, motors>>
  /\ UNCHANGED stamps

\* stepper_safety_check(), which loop() calls for its effect only.
LayerCheck ==
  /\ cordPc = "layer" /\ cordPc' = "poll"
  /\ checks' = checks \cup {"layer"}
  /\ layerStopped' = (layerStopped \/ layerQuiet > HostTimeout)
  /\ UNCHANGED <<stamps, cordStopped, motors>>

Later(n) == IF n = Late THEN n ELSE n + 1

\* A millisecond passes, between any two statements of loop(), which makes
\* each of its checks at least once a millisecond.
CordTick ==
  /\ checks = {"host", "layer"}
  /\ checks' = {}
  /\ quiet' = Later(quiet) /\ layerQuiet' = Later(layerQuiet)
  /\ UNCHANGED <<cordPc, latches, motors>>

Loop ==
  \/ \E p \in Packets : Poll(p)
  \/ CordPollNothing
  \/ SkipSteppers
  \/ RunCordSteppers
  \/ HostCheck
  \/ LayerCheck

CordNext == Loop \/ CordTick

CordSpec == CordInit /\ [][CordNext]_cordVars

-----------------------------------------------------------------------------
(* PROPERTIES *)

\* Emergency stop if no command for two seconds: past the heartbeat period and
\* its check nothing turns, and no coil is left energised, a STOP that asked
\* to hold the position included.
SilentBoardIsCold ==
  quiet > HostTimeout /\ "host" \in checks => ~toGo /\ ~motorsRunning /\ ~powered

\* The loop's latch never lets go of a robot that the layer would still let
\* move: it holds the layer's, and both motors at rest.
LatchHoldsLayer == cordStopped => layerStopped /\ ~toGo /\ ~motorsRunning

\* A robot that turns with the layer stopped was already turning when the
\* layer stopped: a clamp never lets a motion begin.
LayerBlocksStarts == [][layerStopped' /\ toGo' => toGo]_cordVars

\* Neither latch lets a motion begin, nor is one released under a motion of the other.
LatchesHold == [][LatchHoldsLayer']_cordVars /\ LayerBlocksStarts
=============================================================================
