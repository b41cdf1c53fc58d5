----------------------------- MODULE BoardProofs -----------------------------
(****************************************************************************)
(* Proofs about what runs at the two ends of the robot's sockets: the       *)
(* spinal cord of the two-board firmware, the host's camera loop, the       *)
(* gateway's client and the host's program, for any number of frames,       *)
(* connections, clients and failures.                                       *)
(****************************************************************************)
EXTENDS SpinalCord, CameraStream, GatewayClient, Application, FiniteSetTheorems, TLAPS

(****************************************************************************)
(* The spinal cord and its safety layer                                     *)
(****************************************************************************)

\* A robot that the loop's latch holds has its coils off; past the heartbeat period
\* and the loop's own check, the latch is set.
LatchIsCold == cordStopped => ~powered
SilenceLatches == quiet > HostTimeout /\ "host" \in checks => cordStopped

\* The inductive invariant of the spinal cord.
CordInv == CordTypeOK /\ LatchHoldsLayer /\ LatchIsCold /\ SilenceLatches

LEMMA CordStarting == CordInit => CordInv
<1> SUFFICES ASSUME CordInit PROVE CordInv
  OBVIOUS
<1>1. quiet = 0 /\ quiet \in 0 .. Late /\ layerQuiet \in 0 .. Late /\ ~(quiet > HostTimeout)
  BY HostTimeoutAssumption DEF CordInit, Late
<1> QED
  BY <1>1, Zenon DEF CordInit, CordInv, CordTypeOK, LatchHoldsLayer, LatchIsCold, SilenceLatches

\* A datagram: every case of it leaves a latched robot at rest and cold.
LEMMA StepPoll == CordInv /\ (\E p \in Packets : Poll(p)) => CordInv'
<1> SUFFICES ASSUME CordInv, NEW p \in Packets, Poll(p) PROVE CordInv'
  OBVIOUS
<1>1. quiet' = 0 /\ quiet' \in 0 .. Late /\ layerQuiet' \in 0 .. Late /\ ~(quiet' > HostTimeout)
  BY HostTimeoutAssumption DEF Poll, Late
<1>2. \/ cordStopped' = FALSE /\ layerStopped' = FALSE
      \/ /\ cordStopped' = cordStopped /\ layerStopped' = layerStopped
         /\ cordStopped => p \in {"stop", "hold", "status", "junk"}
  BY DEF Poll, Revive, latches
<1>3. {cordStopped', layerStopped', motorsRunning', toGo', powered'} \subseteq BOOLEAN
  <2>1. {cordStopped, layerStopped, motorsRunning, toGo, powered} \subseteq BOOLEAN
    BY Zenon DEF CordInv, CordTypeOK
  <2>2. cordStopped' \in BOOLEAN /\ layerStopped' \in BOOLEAN
    BY <1>2, <2>1, Zenon
  <2>3. motorsRunning' \in BOOLEAN /\ powered' \in BOOLEAN /\ toGo' \in BOOLEAN
    BY <2>1 DEF Poll, Execute, Halt, CoilsOff, motors
  <2> QED
    BY <2>2, <2>3, Zenon
<1>4. cordStopped' => layerStopped' /\ ~toGo' /\ ~motorsRunning' /\ ~powered'
  BY <1>2 DEF Poll, Execute, Halt, CoilsOff, motors, CordInv, LatchHoldsLayer, LatchIsCold
<1>5. cordPc' \in {"poll", "run", "host", "layer"} /\ checks' \subseteq {"host", "layer"}
  BY Zenon DEF Poll, CordInv, CordTypeOK
<1> QED
  BY <1>1, <1>3, <1>4, <1>5, Zenon DEF CordInv, CordTypeOK, LatchHoldsLayer, LatchIsCold, SilenceLatches

LEMMA StepCordTick == CordInv /\ CordTick => CordInv'
<1> SUFFICES ASSUME CordInv, CordTick PROVE CordInv'
  OBVIOUS
<1>1. quiet' \in 0 .. Late /\ layerQuiet' \in 0 .. Late
  BY HostTimeoutAssumption DEF CordTick, CordInv, CordTypeOK, Later, Late
<1> QED
  BY <1>1, Zenon DEF CordTick, CordInv, CordTypeOK, LatchHoldsLayer, LatchIsCold, SilenceLatches, latches, motors

\* The other statements of loop() leave the clock alone.
LEMMA StepStatement ==
  CordInv /\ (CordPollNothing \/ SkipSteppers \/ RunCordSteppers \/ HostCheck \/ LayerCheck) => CordInv'
<1> SUFFICES ASSUME CordInv, CordPollNothing \/ SkipSteppers \/ RunCordSteppers \/ HostCheck \/ LayerCheck
             PROVE  CordInv'
  OBVIOUS
<1> USE DEF CordInv
<1>1. /\ quiet' = quiet /\ layerQuiet' = layerQuiet
      /\ cordPc' \in {"poll", "run", "host", "layer"} /\ checks' \subseteq {"host", "layer"}
  BY Zenon DEF CordPollNothing, SkipSteppers, RunCordSteppers, HostCheck, LayerCheck, stamps, CordTypeOK
<1>2. {cordStopped', layerStopped', motorsRunning', toGo', powered'} \subseteq BOOLEAN
  <2>1. {cordStopped, layerStopped, motorsRunning, toGo, powered} \subseteq BOOLEAN
    BY Zenon DEF CordTypeOK
  <2>2. /\ cordStopped' \in {TRUE, cordStopped}
        /\ layerStopped' \in {TRUE, FALSE, layerStopped}
        /\ motorsRunning' \in {FALSE, motorsRunning} /\ toGo' \in {FALSE, toGo}
        /\ powered' \in {TRUE, FALSE, powered}
    BY DEF CordPollNothing, SkipSteppers, RunCordSteppers, HostCheck, LayerCheck, Trip, Halt, CoilsOff,
           latches, motors
  <2> QED
    BY <2>1, <2>2, Zenon
<1>3. LatchHoldsLayer' /\ LatchIsCold' /\ SilenceLatches'
  <2>1. CASE CordPollNothing \/ SkipSteppers
    BY <2>1 DEF CordPollNothing, SkipSteppers, stamps, latches, motors, LatchHoldsLayer,
                LatchIsCold, SilenceLatches
  <2>2. CASE RunCordSteppers
    BY <2>2, Zenon DEF RunCordSteppers, Halt, CoilsOff, stamps, latches, motors, CordTypeOK,
                LatchHoldsLayer, LatchIsCold, SilenceLatches
  <2>3. CASE HostCheck
    <3>1. CASE quiet > HostTimeout /\ ~cordStopped
      BY <1>1, <2>3, <3>1, Zenon DEF HostCheck, Trip, Halt, CoilsOff, CordTypeOK, LatchHoldsLayer,
                                     LatchIsCold, SilenceLatches
    <3>2. CASE ~(quiet > HostTimeout /\ ~cordStopped)
      BY <1>1, <2>3, <3>2, Zenon DEF HostCheck, latches, motors, CordTypeOK, LatchHoldsLayer,
                                     LatchIsCold, SilenceLatches
    <3> QED
      BY <3>1, <3>2
  <2>4. CASE LayerCheck
    <3>1. checks' = checks \cup {"layer"} /\ "host" \in checks' => "host" \in checks
      BY <2>4 DEF LayerCheck
    <3> QED
    BY <1>1, <2>4, <3>1, Zenon DEF LayerCheck, motors, CordTypeOK, LatchHoldsLayer, LatchIsCold, SilenceLatches
  <2> QED
    BY <2>1, <2>2, <2>3, <2>4
<1> QED
  BY <1>1, <1>2, <1>3, Zenon DEF CordTypeOK

LEMMA CordStep == CordInv /\ [CordNext]_cordVars => CordInv'
<1>1. ASSUME CordInv, UNCHANGED cordVars PROVE CordInv'
  <2>1. CordTypeOK'
    BY <1>1, Zenon DEF cordVars, CordInv, CordTypeOK
  <2> QED
    BY <1>1, <2>1 DEF cordVars, CordInv, LatchHoldsLayer, LatchIsCold, SilenceLatches
<1> QED
  BY <1>1, StepPoll, StepCordTick, StepStatement DEF CordNext, Loop

\* A two-board robot whose host has been silent past the emergency timeout does not
\* turn, and its coils are off, whatever commands the layer clamped or refused before.
THEOREM SilentCordIsCold == CordSpec => []SilentBoardIsCold
<1>1. CordInv => SilentBoardIsCold
  BY DEF CordInv, LatchHoldsLayer, LatchIsCold, SilenceLatches, SilentBoardIsCold
<1> QED
  BY <1>1, CordStarting, CordStep, PTL DEF CordSpec

LEMMA ClampHolds == CordInv /\ [CordNext]_cordVars => [layerStopped' /\ toGo' => toGo]_cordVars
<1> SUFFICES ASSUME CordInv, CordNext, layerStopped', toGo' PROVE toGo
  BY DEF cordVars
<1>1. ASSUME NEW p \in Packets, Poll(p) PROVE toGo
  BY <1>1 DEF Poll, Execute, Halt, motors
<1>2. ASSUME ~\E p \in Packets : Poll(p) PROVE toGo
  BY <1>2 DEF CordNext, Loop, CordPollNothing, SkipSteppers, RunCordSteppers, HostCheck, LayerCheck,
              CordTick, Trip, Halt, motors
<1> QED
  BY <1>1, <1>2

\* Neither of the two latches begins a motion, and the loop's is never released under
\* a motion of the layer: a step of either leaves the other's promise.
THEOREM CordLatchesHold == CordSpec => LatchesHold
<1>1. CordInv' => LatchHoldsLayer'
  BY DEF CordInv
<1> QED
  BY <1>1, ClampHolds, CordStarting, CordStep, PTL DEF CordSpec, LatchesHold, LayerBlocksStarts

------------------------------------------------------------------------------
(****************************************************************************)
(* The camera's stream                                                      *)
(****************************************************************************)

\* The connections that the host has neither ended nor been told the end of.
LiveStreams == {c \in Conns : conn[c] \in {"connecting", "streaming", "refused"}}

\* A loop left to its timers knows its one request, or its one timer; a stopped
\* loop has neither, and an empty buffer.
OneAtATime ==
  /\ LiveStreams \subseteq {request}
  /\ LiveStreams # {} => running /\ timers = 0
  /\ timers \in {0, 1} /\ (timers = 1 => tracked /\ running)
  /\ ~running => held = None
  /\ running => \A c \in Conns : conn[c] # "destroyed"

\* What the buffer holds is the first half of a frame of the stream, unless the
\* stream is a reconnection that has not delivered a frame yet.
BufferIsOwn == ~torn /\ \A c \in LiveStreams : clean[c] /\ held # None => held = c /\ half[c]

\* The motion after the stop was that of the one frame being thought about.
LateIsLast == late \in {0, 1} /\ (late = 1 /\ ~running => phase = "idle")

\* The inductive invariant of the camera loop.
CameraInv ==
  /\ CameraTypeOK
  /\ tracked => timers > 0
  /\ calm => OneAtATime /\ BufferIsOwn /\ LateIsLast

LEMMA CameraStarting == CameraInit => CameraInv
<1> SUFFICES ASSUME CameraInit PROVE CameraInv
  OBVIOUS
<1>1. /\ conn \in [Conns -> {"unused", "connecting", "streaming", "refused", "destroyed"}]
      /\ half \in [Conns -> BOOLEAN] /\ clean \in [Conns -> BOOLEAN]
      /\ timers \in Nat /\ late \in 0 .. 2
  BY DEF CameraInit
<1>2. CameraTypeOK
  BY <1>1, Zenon DEF CameraInit, CameraTypeOK
<1>3. LiveStreams = {}
  BY DEF CameraInit, LiveStreams
<1> QED
  BY <1>2, <1>3 DEF CameraInit, CameraInv, OneAtATime, BufferIsOwn, LateIsLast

LEMMA OneTimerMore == timers \in Nat => /\ Capped(timers + 1) \in Nat \ {0} /\ Capped(timers + 2) \in Nat \ {0}
                                        /\ (timers = 0 => Capped(timers + 1) = 1)
BY TimersAssumption DEF Capped

\* HandleDisconnect: what the end of a connection does to the timers.
LEMMA Disconnected ==
  ASSUME CameraInv, HandleDisconnect
  PROVE  timers' \in Nat /\ tracked' \in BOOLEAN /\ request' = None /\ (tracked' => timers' > 0)
<1>1. timers \in Nat /\ (tracked => timers > 0)
  BY DEF CameraInv, CameraTypeOK
<1>2. tracked' \in BOOLEAN /\ (tracked' => tracked \/ running) /\ request' = None
  BY Zenon DEF HandleDisconnect
<1>3. timers' \in Nat /\ (running => timers' > 0) /\ (~running => timers' = timers)
  BY <1>1, OneTimerMore DEF HandleDisconnect
<1> QED
  BY <1>1, <1>2, <1>3

LEMMA DestroyedType ==
  ASSUME CameraTypeOK, NEW r
  PROVE  /\ Destroyed(r) \in [Conns -> {"unused", "connecting", "streaming", "refused", "destroyed"}]
         /\ \A c \in Conns \ {r} : Destroyed(r)[c] = conn[c]
         /\ \A c \in Conns : c = r => Destroyed(r)[c] \in {"unused", "destroyed"}
BY DEF CameraTypeOK, Destroyed

-----------------------------------------------------------------------------
(* The user and the timers *)

LEMMA StepStartStream == CameraInv /\ StartStream => CameraInv'
<1> SUFFICES ASSUME CameraInv, StartStream, NEW c \in Free, ConnectToStream(c, TRUE)
             PROVE  CameraInv'
  BY DEF StartStream, ConnectToStream
<1>0. c \in Conns /\ conn[c] = "unused" /\ c # None
  BY ConnsAssumption DEF Free
<1>1. CameraTypeOK'
  <2>1. /\ conn' \in [Conns -> {"unused", "connecting", "streaming", "refused", "destroyed"}]
        /\ half' \in [Conns -> BOOLEAN] /\ clean' \in [Conns -> BOOLEAN] /\ request' \in Conns \cup {None}
        /\ idled' \subseteq Conns
    BY <1>0 DEF ConnectToStream, CameraInv, CameraTypeOK
  <2>2. calm' \in BOOLEAN
    BY DEF StartStream
  <2> QED
    BY <2>1, <2>2, Zenon DEF StartStream, CameraInv, CameraTypeOK, loopVars
<1>2. tracked' => timers' > 0
  BY DEF StartStream, CameraInv
<1>3. ASSUME calm' PROVE OneAtATime' /\ BufferIsOwn' /\ LateIsLast'
  <2>1. /\ calm /\ ~running /\ running' /\ held = None /\ held' = None /\ timers' = timers /\ tracked' = tracked
        /\ torn' = torn /\ late' = late /\ \A d \in Conns : conn[d] # "destroyed"
    BY <1>3 DEF StartStream, loopVars, CameraInv, OneAtATime
  <2>2. LiveStreams = {} /\ timers = 0
    BY <2>1 DEF CameraInv, OneAtATime
  <2>3. LiveStreams' = {c} /\ request' = c
    BY <1>0, <2>2 DEF ConnectToStream, LiveStreams, CameraInv, CameraTypeOK
  <2>4. \A d \in Conns : conn'[d] # "destroyed"
    BY <1>0, <2>1 DEF ConnectToStream, CameraInv, CameraTypeOK
  <2> QED
    BY <2>1, <2>2, <2>3, <2>4 DEF CameraInv, OneAtATime, BufferIsOwn, LateIsLast
<1> QED
  BY <1>1, <1>2, <1>3 DEF CameraInv

LEMMA StepStopStream == CameraInv /\ StopStream => CameraInv'
<1> SUFFICES ASSUME CameraInv, StopStream PROVE CameraInv'
  OBVIOUS
<1>1. CameraTypeOK'
  <2>1. conn' \in [Conns -> {"unused", "connecting", "streaming", "refused", "destroyed"}]
    BY DestroyedType DEF StopStream, CameraInv
  <2>2. timers' \in Nat /\ late' \in 0 .. 2
    BY DEF StopStream, CameraInv, CameraTypeOK
  <2> QED
    BY <2>1, <2>2, Zenon DEF StopStream, CameraInv, CameraTypeOK
<1>2. ~tracked'
  BY DEF StopStream
<1>3. ASSUME calm' PROVE OneAtATime' /\ BufferIsOwn' /\ LateIsLast'
  <2>1. calm
    BY <1>3 DEF StopStream
  <2>2. LiveStreams' = {}
    BY <2>1, DestroyedType DEF StopStream, CameraInv, OneAtATime, LiveStreams
  <2>3. timers' = 0
    BY <2>1 DEF StopStream, CameraInv, OneAtATime
  <2> QED
    BY <2>1, <2>2, <2>3 DEF StopStream, CameraInv, OneAtATime, BufferIsOwn, LateIsLast
<1> QED
  BY <1>1, <1>2, <1>3 DEF CameraInv

LEMMA StepReconnectTimerFires == CameraInv /\ ReconnectTimerFires => CameraInv'
<1> SUFFICES ASSUME CameraInv, ReconnectTimerFires PROVE CameraInv'
  OBVIOUS
<1>1. /\ timers' \in Nat /\ timers' = timers - 1 /\ (tracked' => timers' > 0) /\ tracked' \in BOOLEAN
      /\ UNCHANGED <<running, held, torn, calm, phase, heartbeat, late, serving>>
  <2>1. timers \in Nat /\ timers > 0 /\ timers' = timers - 1
    BY DEF ReconnectTimerFires, CameraInv, CameraTypeOK
  <2>2. tracked' \in BOOLEAN /\ (tracked' => timers > 1)
    BY Zenon DEF ReconnectTimerFires
  <2> QED
    BY <2>1, <2>2 DEF ReconnectTimerFires, loopVars
<1>2. CASE ~running
  <2>1. UNCHANGED <<conn, request, idled, half, clean>>
    BY <1>2 DEF ReconnectTimerFires
  <2>2. CameraTypeOK'
    BY <1>1, <2>1, Zenon DEF CameraInv, CameraTypeOK
  <2>3. ~calm
    BY <1>2 DEF ReconnectTimerFires, CameraInv, OneAtATime
  <2> QED
    BY <1>1, <2>2, <2>3 DEF CameraInv
<1>3. ASSUME running, NEW c \in Free, ConnectToStream(c, FALSE) PROVE CameraInv'
  <2>0. c \in Conns /\ conn[c] = "unused" /\ c # None
    BY ConnsAssumption DEF Free
  <2>1. CameraTypeOK'
    <3>1. /\ conn' \in [Conns -> {"unused", "connecting", "streaming", "refused", "destroyed"}]
          /\ half' \in [Conns -> BOOLEAN] /\ clean' \in [Conns -> BOOLEAN] /\ request' \in Conns \cup {None}
          /\ idled' \subseteq Conns
      BY <1>3, <2>0 DEF ConnectToStream, CameraInv, CameraTypeOK
    <3> QED
      BY <1>1, <3>1, Zenon DEF CameraInv, CameraTypeOK
  <2>2. ASSUME calm' PROVE OneAtATime' /\ BufferIsOwn' /\ LateIsLast'
    <3>1. calm /\ timers = 1 /\ LiveStreams = {}
      BY <1>1, <2>2 DEF ReconnectTimerFires, CameraInv, OneAtATime
    <3>2. LiveStreams' = {c} /\ request' = c /\ ~clean'[c]
      BY <1>3, <2>0, <3>1 DEF ConnectToStream, LiveStreams, CameraInv, CameraTypeOK
    <3>3. \A d \in Conns : conn'[d] # "destroyed"
      BY <1>3, <2>0, <3>1 DEF ConnectToStream, CameraInv, CameraTypeOK, OneAtATime
    <3> QED
      BY <1>1, <1>3, <3>1, <3>2, <3>3 DEF CameraInv, OneAtATime, BufferIsOwn, LateIsLast
  <2> QED
    BY <1>1, <2>1, <2>2 DEF CameraInv
<1> QED
  BY <1>2, <1>3 DEF ReconnectTimerFires

-----------------------------------------------------------------------------
(* The ends of connections *)

\* A connection that the host is told the end of while the loop was left to its timers.
LEMMA EndingStream ==
  ASSUME CameraInv, NEW c \in Conns, conn[c] \in {"connecting", "streaming", "destroyed"},
         conn' = [conn EXCEPT ![c] = "unused"], HandleDisconnect, serving' \in {serving, None},
         UNCHANGED <<running, idled, held, half, clean, torn, calm, loopVars>>
  PROVE  CameraInv'
<1>1. /\ timers' \in Nat /\ tracked' \in BOOLEAN /\ request' = None /\ (tracked' => timers' > 0)
      /\ UNCHANGED <<phase, heartbeat, late>>
  BY Disconnected DEF loopVars
<1>2. CameraTypeOK'
  <2>1. conn' \in [Conns -> {"unused", "connecting", "streaming", "refused", "destroyed"}]
    BY DEF CameraInv, CameraTypeOK
  <2> QED
    BY <1>1, <2>1, Zenon DEF CameraInv, CameraTypeOK
<1>3. ASSUME calm PROVE OneAtATime' /\ BufferIsOwn' /\ LateIsLast'
  <2>1. CASE running
    <3>1. c \in LiveStreams /\ LiveStreams = {c} /\ timers = 0
      BY <1>3, <2>1 DEF CameraInv, OneAtATime, LiveStreams
    <3>2. LiveStreams' = {}
      BY <3>1 DEF LiveStreams, CameraInv, CameraTypeOK
    <3>3. timers' = 1 /\ tracked'
      BY <2>1, <3>1, OneTimerMore DEF HandleDisconnect
    <3>4. \A d \in Conns : conn'[d] # "destroyed"
      BY <1>3, <2>1 DEF CameraInv, CameraTypeOK, OneAtATime
    <3> QED
      BY <1>1, <1>3, <2>1, <3>2, <3>3, <3>4 DEF CameraInv, OneAtATime, BufferIsOwn, LateIsLast
  <2>2. CASE ~running
    <3>1. LiveStreams = {} /\ timers = 0
      BY <1>3, <2>2 DEF CameraInv, OneAtATime
    <3>2. LiveStreams' = {}
      BY <3>1 DEF LiveStreams, CameraInv, CameraTypeOK
    <3>3. timers' = 0
      BY <2>2, <3>1 DEF HandleDisconnect
    <3> QED
      BY <1>1, <1>3, <2>2, <3>2, <3>3 DEF CameraInv, OneAtATime, BufferIsOwn, LateIsLast
  <2> QED
    BY <2>1, <2>2
<1> QED
  BY <1>1, <1>2, <1>3 DEF CameraInv

LEMMA StepEnds ==
  ASSUME CameraInv, NEW c \in Conns, ConnectFails(c) \/ DestroyReported(c) \/ StreamEnds(c)
  PROVE  CameraInv'
BY EndingStream DEF ConnectFails, DestroyReported, StreamEnds

LEMMA StepIdleTimeout == ASSUME CameraInv, NEW c \in Conns, IdleTimeout(c) PROVE CameraInv'
<1>1. /\ timers' \in Nat /\ tracked' \in BOOLEAN /\ request' \in Conns \cup {None}
      /\ (tracked' => timers' > 0)
  <2>1. CASE running
    BY <2>1, Disconnected DEF IdleTimeout
  <2>2. CASE ~running
    BY <2>2, Zenon DEF IdleTimeout, CameraInv, CameraTypeOK
  <2> QED
    BY <2>1, <2>2
<1>2. conn' \in [Conns -> {"unused", "connecting", "streaming", "refused", "destroyed"}]
  BY DestroyedType DEF IdleTimeout, CameraInv
<1>3. idled' \subseteq Conns /\ calm' = FALSE
  BY DEF IdleTimeout, CameraInv, CameraTypeOK
<1>4. CameraTypeOK'
  BY <1>1, <1>2, <1>3, Zenon DEF IdleTimeout, CameraInv, CameraTypeOK, loopVars
<1> QED
  BY <1>1, <1>3, <1>4 DEF CameraInv

LEMMA StepStreamResets == ASSUME CameraInv, NEW c \in Conns, StreamResets(c) PROVE CameraInv'
<1>1. tracked' \in BOOLEAN /\ (tracked' => tracked \/ running) /\ request' = None /\ calm' = FALSE
  BY Zenon DEF StreamResets
<1>2. timers' \in Nat /\ (running => timers' > 0) /\ (~running => timers' = timers)
  BY OneTimerMore DEF StreamResets, CameraInv, CameraTypeOK
<1>3. conn' \in [Conns -> {"unused", "connecting", "streaming", "refused", "destroyed"}]
  BY DEF StreamResets, CameraInv, CameraTypeOK
<1>4. CameraTypeOK'
  BY <1>1, <1>2, <1>3, Zenon DEF StreamResets, CameraInv, CameraTypeOK, loopVars
<1> QED
  BY <1>1, <1>2, <1>4 DEF CameraInv

-----------------------------------------------------------------------------
(* The board, and the frames *)

\* An answer, of whatever kind, ends no connection and begins none.
LEMMA StepAnswered ==
  ASSUME CameraInv, NEW c \in Conns, ServeStream(c) \/ RefuseStream(c) PROVE CameraInv'
<1>1. /\ conn' \in [Conns -> {"unused", "connecting", "streaming", "refused", "destroyed"}]
      /\ idled' \subseteq Conns /\ serving' \in Conns \cup {None}
  BY DEF ServeStream, RefuseStream, CameraInv, CameraTypeOK
<1>2. UNCHANGED <<running, request, timers, tracked, held, half, clean, torn, calm, phase, heartbeat, late>>
  BY DEF ServeStream, RefuseStream, loopVars
<1>3. CameraTypeOK'
  BY <1>1, <1>2, Zenon DEF CameraInv, CameraTypeOK
<1>4. LiveStreams' = LiveStreams /\ \A d \in Conns : conn'[d] = "destroyed" => conn[d] = "destroyed"
  BY DEF ServeStream, RefuseStream, LiveStreams, CameraInv, CameraTypeOK
<1> QED
  BY <1>2, <1>3, <1>4 DEF CameraInv, OneAtATime, BufferIsOwn, LateIsLast

LEMMA StepChunk == ASSUME CameraInv, NEW c \in Conns, Chunk(c) PROVE CameraInv'
<1>1. /\ half' \in [Conns -> BOOLEAN] /\ clean' \in [Conns -> BOOLEAN]
      /\ idled' \subseteq Conns /\ held' \in Conns \cup {None} /\ phase' \in {"idle", "settling", "inferring"}
      /\ UNCHANGED <<running, request, conn, timers, tracked, calm, heartbeat, late, serving>>
  BY DEF Chunk, HandleFrame, CameraInv, CameraTypeOK
<1>2. torn' \in BOOLEAN
  BY Zenon DEF Chunk, CameraInv, CameraTypeOK
<1>3. CameraTypeOK'
  BY <1>1, <1>2, Zenon DEF CameraInv, CameraTypeOK
<1>4. LiveStreams' = LiveStreams /\ c \in LiveStreams
  BY <1>1 DEF Chunk, LiveStreams
<1>5. ASSUME calm PROVE OneAtATime' /\ BufferIsOwn' /\ LateIsLast'
  <2>1. running /\ LiveStreams = {c}
    BY <1>4, <1>5 DEF CameraInv, OneAtATime
  <2>2. held' # None => held' = c /\ half'[c]
    BY DEF Chunk, CameraInv, CameraTypeOK
  <2>3. ~torn'
    BY <1>4, <1>5 DEF Chunk, CameraInv, BufferIsOwn
  <2> QED
    BY <1>1, <1>4, <1>5, <2>1, <2>2, <2>3 DEF CameraInv, OneAtATime, BufferIsOwn, LateIsLast
<1> QED
  BY <1>1, <1>3, <1>5 DEF CameraInv

\* The thinking leaves the connections alone, and so does the board's way back to loop().
LEMMA StepThinks ==
  ASSUME CameraInv, Settled \/ Inferred \/ LeaveHandler \/ UNCHANGED camVars PROVE CameraInv'
<1>1. /\ UNCHANGED streamVars
      /\ phase' \in {"idle", "inferring", phase} /\ late' \in 0 .. 2
      /\ heartbeat' \in {TRUE, FALSE, heartbeat} /\ serving' \in {serving, None}
  <2>1. late \in 0 .. 2
    BY DEF CameraInv, CameraTypeOK
  <2>2. CASE Settled
    BY <2>1, <2>2 DEF Settled
  <2>3. CASE Inferred
    <3>1. late' \in 0 .. 2
      BY <2>1, <2>3 DEF Inferred
    <3> QED
      BY <2>3, <3>1, Zenon DEF Inferred
  <2>4. CASE UNCHANGED <<loopVars, streamVars>> /\ serving' \in {serving, None}
    BY <2>1, <2>4, Zenon DEF loopVars
  <2> QED
    BY <2>2, <2>3, <2>4 DEF LeaveHandler, camVars
<1>2. CameraTypeOK'
  BY <1>1, Zenon DEF streamVars, CameraInv, CameraTypeOK
<1>3. LiveStreams' = LiveStreams
  BY <1>1 DEF streamVars, LiveStreams
<1>4. ASSUME calm PROVE LateIsLast'
  <2>1. CASE Settled
    BY <1>4, <2>1 DEF Settled, streamVars, CameraInv, LateIsLast
  <2>2. CASE Inferred
    BY <1>4, <2>2 DEF Inferred, streamVars, CameraInv, LateIsLast
  <2>3. CASE UNCHANGED <<loopVars, streamVars>>
    BY <1>4, <2>3 DEF loopVars, streamVars, CameraInv, LateIsLast
  <2> QED
    BY <2>1, <2>2, <2>3 DEF LeaveHandler, camVars
<1> QED
  BY <1>1, <1>2, <1>3, <1>4 DEF streamVars, CameraInv, OneAtATime, BufferIsOwn

LEMMA CameraStep == CameraInv /\ [CameraNext]_camVars => CameraInv'
BY StepStartStream, StepStopStream, StepReconnectTimerFires, StepEnds, StepIdleTimeout, StepStreamResets,
   StepAnswered, StepChunk, StepThinks
DEF CameraNext

LEMMA CameraInvariant == CameraSpec => []CameraInv
BY CameraStarting, CameraStep, PTL DEF CameraSpec

\* However reconnections, aborted fetches and late chunks interleave, a loop that was
\* left to its timers reads one stream into one buffer, and after a stop() sends at
\* most the one motion of the frame that was being thought about.
THEOREM CameraStreamIsOwn == CameraSpec => []StreamIsOwn
<1>1. ASSUME CameraInv, calm PROVE Cardinality(Open) + timers <= IF running THEN 1 ELSE 0
  <2>1. Open \subseteq {request} /\ (Open # {} => running /\ timers = 0)
    BY <1>1 DEF CameraInv, OneAtATime, Open, LiveStreams
  <2>2. CASE Open = {}
    BY <1>1, <2>2, FS_EmptySet DEF CameraInv, OneAtATime
  <2>3. CASE Open = {request}
    <3>1. Open # {}
      BY <2>3
    <3>2. running /\ timers = 0
      BY <2>1, <3>1
    <3>3. Cardinality(Open) = 1
      BY <2>3, FS_Singleton
    <3> QED
      BY <3>2, <3>3
  <2> QED
    BY <2>1, <2>2, <2>3
<1>2. CameraInv => StreamIsOwn
  BY <1>1 DEF CameraInv, BufferIsOwn, LateIsLast, StreamIsOwn, OneStream, TearsAreExcused, OneLateMotion
<1> QED
  BY <1>2, CameraInvariant, PTL

------------------------------------------------------------------------------
(****************************************************************************)
(* The gateway's client                                                     *)
(****************************************************************************)

\* What the references and sets of a node say of its connections.
Shape ==
  /\ ws # NoLink => wanted /\ link[ws] \in {"connecting", "open"}
  /\ wanted => begun /\ \A s \in Links : link[s] # "closing"
  /\ ~begun => ~wanted /\ retries = 0 /\ twice = 0 /\ \A s \in Links : link[s] = "unused"
  /\ calls \subseteq {s \in Links : link[s] = "open"}
  /\ registered \subseteq {s \in Links : link[s] = "open"}

\* A node that disconnected had one connection at most to close.
AllClosed == ~wanted /\ twice = 0 => Live = {}

\* The inductive invariant of the gateway's client.
GatewayInv == GatewayTypeOK /\ Shape /\ AllClosed /\ LinkIsTended

LEMMA LiveIsFinite == IsFiniteSet(Live) /\ Cardinality(Live) \in Nat
<1>1. Live \subseteq Links
  BY DEF Live
<1> QED
  BY <1>1, LinksAssumption, FS_Subset, FS_CardinalityType

LEMMA LiveIsFiniteNext == IsFiniteSet(Live') /\ Cardinality(Live') \in Nat
<1>1. Live' \subseteq Links
  BY DEF Live
<1> QED
  BY <1>1, LinksAssumption, FS_Subset, FS_CardinalityType

\* A new connection is one more.
LEMMA OneMore ==
  ASSUME GatewayTypeOK, NEW s \in Links, EstablishConnection(s)
  PROVE  /\ Live' = Live \cup {s} /\ s \notin Live
         /\ Cardinality(Live') = Cardinality(Live) + 1
<1>1. Live' = Live \cup {s} /\ s \notin Live
  BY DEF GatewayTypeOK, EstablishConnection, Live
<1> QED
  BY <1>1, LiveIsFinite, FS_AddElement

\* A live connection that ends is one less.
LEMMA OneLess ==
  ASSUME GatewayTypeOK, NEW s \in Live, link' = [link EXCEPT ![s] = "unused"]
  PROVE  /\ Live' = Live \ {s} /\ Cardinality(Live) > 0
         /\ Cardinality(Live') = Cardinality(Live) - 1
<1>1. Live' = Live \ {s}
  BY DEF GatewayTypeOK, Live
<1>2. Cardinality(Live \ {s}) = Cardinality(Live) - 1
  BY LiveIsFinite, FS_RemoveElement
<1>3. Cardinality(Live') \in Nat
  BY LiveIsFiniteNext
<1> QED
  BY <1>1, <1>2, <1>3, LiveIsFinite

\* Where no failure was scheduled twice the connection of this.ws is the only one.
LEMMA OnlyOne ==
  ASSUME GatewayInv, wanted, twice = 0
  PROVE  /\ ws # NoLink => Live = {ws}
         /\ ws = NoLink => Live = {}
<1>1. Cardinality(Live) + retries = 1 /\ retries \in Nat
  BY DEF GatewayInv, GatewayTypeOK, LinkIsTended, OnlyDoublingMultiplies
<1>2. CASE ws = NoLink
  <2>1. retries > 0
    BY <1>2 DEF GatewayInv, LinkIsTended, NeverGivesUp
  <2>2. Cardinality(Live) = 0
    BY <1>1, <2>1, LiveIsFinite
  <2> QED
    BY <1>2, <2>2, LiveIsFinite, FS_EmptySet
<1>3. CASE ws # NoLink
  <2>1. ws \in Live
    BY <1>3 DEF GatewayInv, LinkIsTended, NeverGivesUp
  <2>2. Cardinality(Live \ {ws}) = Cardinality(Live) - 1 /\ IsFiniteSet(Live \ {ws})
    BY <2>1, LiveIsFinite, FS_RemoveElement
  <2>3. Cardinality(Live \ {ws}) \in Nat
    BY <2>2, FS_CardinalityType
  <2>4. Cardinality(Live \ {ws}) = 0
    BY <1>1, <2>2, <2>3, LiveIsFinite
  <2>5. Live \ {ws} = {}
    BY <2>2, <2>4, FS_EmptySet
  <2> QED
    BY <1>3, <2>1, <2>5
<1> QED
  BY <1>2, <1>3

LEMMA GatewayStarting == GatewayInit => GatewayInv
<1> SUFFICES ASSUME GatewayInit PROVE GatewayInv
  OBVIOUS
<1>1. GatewayTypeOK
  <2>1. retries \in Nat /\ twice \in Nat /\ troubles \in 0 .. TroublesMax
    BY TroublesAssumption DEF GatewayInit
  <2>2. link \in [Links -> {"unused", "connecting", "open", "closing"}]
    BY DEF GatewayInit
  <2> QED
    BY <2>1, <2>2, Zenon DEF GatewayInit, GatewayTypeOK
<1>2. Live = {}
  BY DEF GatewayInit, Live
<1> QED
  BY <1>1, <1>2 DEF GatewayInit, GatewayInv, Shape, AllClosed, LinkIsTended, NeverGivesUp,
                    OnlyDoublingMultiplies, AnswersFindTheirWay

-----------------------------------------------------------------------------
(* What makes and ends connections *)

LEMMA StepConnect == GatewayInv /\ (\E s \in Links : Connect(s)) => GatewayInv'
<1> SUFFICES ASSUME GatewayInv, NEW s \in Links, Connect(s) PROVE GatewayInv'
  OBVIOUS
<1> USE DEF GatewayInv
<1>1. Live = {} /\ retries = 0 /\ twice = 0 /\ registered = {} /\ calls = {}
  BY DEF Connect, Shape, Live
<1>2. Cardinality(Live) = 0
  BY <1>1, FS_EmptySet
<1>3. Cardinality(Live') = 1
  BY <1>2, OneMore DEF Connect
<1>4. s # NoLink
  BY LinksAssumption
<1>5. GatewayTypeOK'
  BY DEF Connect, EstablishConnection, GatewayTypeOK, gatewayEnv
<1>6. Shape' /\ AllClosed'
  BY <1>1, <1>4 DEF Connect, EstablishConnection, Shape, AllClosed, GatewayTypeOK
<1>7. NeverGivesUp'
  BY <1>4 DEF Connect, EstablishConnection, NeverGivesUp, Live, GatewayTypeOK
<1>8. OnlyDoublingMultiplies'
  BY <1>1, <1>3 DEF Connect, OnlyDoublingMultiplies
<1>9. AnswersFindTheirWay'
  BY <1>1 DEF Connect, LinkIsTended, AnswersFindTheirWay
<1> QED
  BY <1>5, <1>6, <1>7, <1>8, <1>9 DEF LinkIsTended

LEMMA StepOpened == GatewayInv /\ (\E s \in Links : Opened(s)) => GatewayInv'
<1> SUFFICES ASSUME GatewayInv, NEW s \in Links, Opened(s) PROVE GatewayInv'
  OBVIOUS
<1> USE DEF GatewayInv
<1>1. Live' = Live
  BY DEF Opened, Live, GatewayTypeOK
<1>2. s \in Live
  BY DEF Opened, Live
<1>3. GatewayTypeOK'
  BY DEF Opened, GatewayTypeOK, gatewayEnv
<1>4. Shape'
  BY DEF Opened, Shape, GatewayTypeOK
<1>5. AllClosed' /\ AnswersFindTheirWay' /\ OnlyDoublingMultiplies'
  BY <1>1 DEF Opened, AllClosed, LinkIsTended, AnswersFindTheirWay, OnlyDoublingMultiplies
<1>6. NeverGivesUp'
  BY <1>1 DEF Opened, LinkIsTended, NeverGivesUp, Live, GatewayTypeOK
<1> QED
  BY <1>3, <1>4, <1>5, <1>6 DEF LinkIsTended

\* What every end of a live connection amounts to.
LEMMA Ending ==
  ASSUME GatewayInv, NEW s \in Live, Over(s), NEW n \in {1, 2}, retries' = Rescheduled(n),
         UNCHANGED <<wanted, begun, astray>>, twice' = IF wanted THEN twice + n - 1 ELSE twice,
         firstLink' \in {firstLink, NoLink}, gatewayUp' \in BOOLEAN, troubles' \in 0 .. TroublesMax
  PROVE  GatewayInv'
<1> USE DEF GatewayInv
<1>1. s \in Links
  BY DEF Live
<1>2. Live' = Live \ {s} /\ Cardinality(Live') = Cardinality(Live) - 1
  BY OneLess DEF Over
<1>3. wanted => retries' = retries + n /\ twice' = twice + n - 1
  BY DEF Rescheduled
<1>4. retries' \in Nat /\ twice' \in Nat
  BY DEF Rescheduled, GatewayTypeOK
<1>5. ~wanted => retries' = retries /\ twice' = twice
  BY DEF Rescheduled, GatewayTypeOK
<1>6. GatewayTypeOK'
  <2>1. link' \in [Links -> {"unused", "connecting", "open", "closing"}]
    BY DEF GatewayTypeOK, Over
  <2>2. ws' \in Links \cup {NoLink} /\ firstLink' \in Links \cup {NoLink}
    BY DEF GatewayTypeOK, Over
  <2>3. registered' \subseteq Links /\ calls' \subseteq Links
    BY DEF GatewayTypeOK, Over
  <2> QED
    BY <1>4, <2>1, <2>2, <2>3, Zenon DEF GatewayTypeOK
<1>7. Shape'
  BY <1>1 DEF Shape, Over, Live, GatewayTypeOK
<1>8. AllClosed'
  BY <1>2, <1>3, <1>5 DEF AllClosed, GatewayTypeOK
<1>9. NeverGivesUp'
  BY <1>3 DEF NeverGivesUp, Over, GatewayTypeOK
<1>10. OnlyDoublingMultiplies'
  BY <1>2, <1>3, LiveIsFinite DEF LinkIsTended, OnlyDoublingMultiplies, GatewayTypeOK
<1>11. AnswersFindTheirWay'
  BY <1>3, <1>5 DEF LinkIsTended, AnswersFindTheirWay, GatewayTypeOK
<1> QED
  BY <1>6, <1>7, <1>8, <1>9, <1>10, <1>11 DEF LinkIsTended

LEMMA StepAttemptFails == GatewayInv /\ (\E s \in Links : AttemptFails(s)) => GatewayInv'
<1> SUFFICES ASSUME GatewayInv, NEW s \in Links, AttemptFails(s) PROVE GatewayInv'
  OBVIOUS
<1>1. s \in Live
  BY DEF AttemptFails, Live
<1>2. /\ Over(s) /\ UNCHANGED <<wanted, begun, gatewayUp, troubles, astray>>
      /\ firstLink' \in {firstLink, NoLink}
  BY DEF AttemptFails, gatewayEnv
<1>3. gatewayUp' \in BOOLEAN /\ troubles' \in 0 .. TroublesMax /\ twice \in Nat
  BY <1>2, Zenon DEF GatewayInv, GatewayTypeOK
<1>4. CASE s # firstLink /\ ~IsOpen(ws)
  <2>1. retries' = Rescheduled(2) /\ twice' = IF wanted THEN twice + 2 - 1 ELSE twice
    BY <1>3, <1>4 DEF AttemptFails
  <2> QED
    BY <1>1, <1>2, <1>3, <2>1, Ending
<1>5. CASE ~(s # firstLink /\ ~IsOpen(ws))
  <2>1. retries' = Rescheduled(1) /\ twice' = IF wanted THEN twice + 1 - 1 ELSE twice
    BY <1>3, <1>5 DEF AttemptFails
  <2> QED
    BY <1>1, <1>2, <1>3, <2>1, Ending
<1> QED
  BY <1>4, <1>5

LEMMA StepLost == GatewayInv /\ (\E s \in Links : Lost(s)) => GatewayInv'
<1> SUFFICES ASSUME GatewayInv, NEW s \in Links, Lost(s) PROVE GatewayInv'
  OBVIOUS
<1>1. s \in Live
  BY DEF Lost, Live
<1>2. Over(s) /\ UNCHANGED <<wanted, begun, firstLink, gatewayUp, astray>> /\ retries' = Rescheduled(1)
  BY DEF Lost
<1>3. troubles' \in 0 .. TroublesMax /\ twice \in Nat
  BY TroublesAssumption DEF Lost, GatewayInv, GatewayTypeOK
<1>4. twice' = IF wanted THEN twice + 1 - 1 ELSE twice
  BY <1>3 DEF Lost
<1>5. gatewayUp' \in BOOLEAN
  BY <1>2, Zenon DEF GatewayInv, GatewayTypeOK
<1> QED
  BY <1>1, <1>2, <1>3, <1>4, <1>5, Ending

LEMMA StepRetryTimer == GatewayInv /\ RetryTimer => GatewayInv'
<1> SUFFICES ASSUME GatewayInv, RetryTimer PROVE GatewayInv'
  OBVIOUS
<1> USE DEF GatewayInv
<1>1. CASE ~wanted
  <2>1. Live' = Live
    BY <1>1 DEF RetryTimer, Live
  <2>2. GatewayTypeOK' /\ Shape' /\ AllClosed'
    BY <1>1, <2>1 DEF RetryTimer, GatewayTypeOK, Shape, AllClosed, gatewayEnv
  <2> QED
    BY <1>1, <2>2 DEF RetryTimer, LinkIsTended, NeverGivesUp, OnlyDoublingMultiplies, AnswersFindTheirWay
<1>2. ASSUME wanted, NEW s \in Links, EstablishConnection(s) PROVE GatewayInv'
  <2>1. Live' = Live \cup {s} /\ Cardinality(Live') = Cardinality(Live) + 1
    BY <1>2, OneMore
  <2>2. s # NoLink
    BY LinksAssumption
  <2>3. retries' \in Nat /\ retries' = retries - 1
    BY DEF RetryTimer, GatewayTypeOK
  <2>4. GatewayTypeOK'
    <3>1. link' \in [Links -> {"unused", "connecting", "open", "closing"}]
      BY <1>2 DEF GatewayTypeOK, EstablishConnection
    <3>2. ws' \in Links \cup {NoLink}
      BY <1>2 DEF EstablishConnection
    <3> QED
      BY <2>3, <3>1, <3>2, Zenon DEF RetryTimer, GatewayTypeOK, gatewayEnv
  <2>5. Shape'
    BY <1>2, <2>2 DEF RetryTimer, EstablishConnection, Shape, GatewayTypeOK
  <2>6. AllClosed' /\ AnswersFindTheirWay'
    BY <1>2 DEF RetryTimer, AllClosed, LinkIsTended, AnswersFindTheirWay
  <2>7. NeverGivesUp'
    BY <1>2, <2>1, <2>2 DEF EstablishConnection, NeverGivesUp, GatewayTypeOK
  <2>8. OnlyDoublingMultiplies'
    BY <1>2, <2>1, <2>3, LiveIsFinite
    DEF RetryTimer, LinkIsTended, OnlyDoublingMultiplies, GatewayTypeOK
  <2> QED
    BY <2>4, <2>5, <2>6, <2>7, <2>8 DEF LinkIsTended
<1> QED
  BY <1>1, <1>2 DEF RetryTimer

LEMMA StepDisconnect == GatewayInv /\ Disconnect => GatewayInv'
<1> SUFFICES ASSUME GatewayInv, Disconnect PROVE GatewayInv'
  OBVIOUS
<1> USE DEF GatewayInv
<1>1. GatewayTypeOK'
  <2>1. link' \in [Links -> {"unused", "connecting", "open", "closing"}]
    BY DEF GatewayTypeOK, Disconnect
  <2>2. retries' \in Nat
    BY DEF GatewayTypeOK, Disconnect
  <2> QED
    BY <2>1, <2>2, Zenon DEF Disconnect, GatewayTypeOK, gatewayEnv
<1>2. Shape'
  BY DEF Disconnect, Shape, GatewayTypeOK
<1>3. AllClosed'
  <2> SUFFICES ASSUME twice = 0 PROVE Live' = {}
    BY DEF AllClosed, Disconnect
  <2>1. Live \subseteq {ws}
    BY OnlyOne DEF Disconnect
  <2> QED
    BY <2>1 DEF Disconnect, Live, GatewayTypeOK
<1> QED
  BY <1>1, <1>2, <1>3
  DEF Disconnect, LinkIsTended, NeverGivesUp, OnlyDoublingMultiplies, AnswersFindTheirWay

LEMMA StepCloseDone == GatewayInv /\ (\E s \in Links : CloseDone(s)) => GatewayInv'
<1> SUFFICES ASSUME GatewayInv, NEW s \in Links, CloseDone(s) PROVE GatewayInv'
  OBVIOUS
<1> USE DEF GatewayInv
<1>1. ~wanted
  BY DEF CloseDone, Shape
<1>2. Live' = Live
  BY DEF CloseDone, Over, Live, GatewayTypeOK
<1>3. retries' = retries
  BY <1>1 DEF CloseDone, Rescheduled, GatewayTypeOK
<1>4. GatewayTypeOK'
  <2>1. link' \in [Links -> {"unused", "connecting", "open", "closing"}]
    BY DEF GatewayTypeOK, CloseDone, Over
  <2>2. registered' \subseteq Links /\ calls' \subseteq Links
    BY DEF GatewayTypeOK, CloseDone, Over
  <2> QED
    BY <1>3, <2>1, <2>2, Zenon DEF CloseDone, Over, GatewayTypeOK, gatewayEnv
<1>5. Shape'
  BY <1>1, <1>3 DEF CloseDone, Over, Shape, GatewayTypeOK
<1> QED
  BY <1>1, <1>2, <1>4, <1>5 DEF CloseDone, AllClosed, LinkIsTended, NeverGivesUp,
                                OnlyDoublingMultiplies, AnswersFindTheirWay

-----------------------------------------------------------------------------
(* Messages, and the gateway *)

LEMMA StepToolDone == GatewayInv /\ (\E s \in Links : ToolDone(s)) => GatewayInv'
<1> SUFFICES ASSUME GatewayInv, NEW s \in Links, ToolDone(s) PROVE GatewayInv'
  OBVIOUS
<1> USE DEF GatewayInv
<1>1. s \in Live
  BY DEF ToolDone, Shape, Live
<1>2. twice = 0 => s = ws
  BY <1>1, OnlyOne DEF AllClosed
<1>3. AnswersFindTheirWay'
  BY <1>2 DEF ToolDone, LinkIsTended, AnswersFindTheirWay, GatewayTypeOK
<1>4. GatewayTypeOK'
  BY Zenon DEF ToolDone, GatewayTypeOK, gatewayEnv
<1>5. Live' = Live
  BY DEF ToolDone, Live
<1>6. Shape' /\ AllClosed' /\ NeverGivesUp' /\ OnlyDoublingMultiplies'
  BY <1>5 DEF ToolDone, Shape, AllClosed, LinkIsTended, NeverGivesUp, OnlyDoublingMultiplies
<1> QED
  BY <1>3, <1>4, <1>6 DEF LinkIsTended

\* An invocation, and a gateway that comes or goes, leave the connections alone.
LEMMA StepElse ==
  ASSUME GatewayInv,
         UNCHANGED <<wanted, begun, ws, link, firstLink, retries, registered, twice, astray>>,
         gatewayUp' \in BOOLEAN, troubles' \in 0 .. TroublesMax,
         calls' \subseteq {s \in Links : link[s] = "open"}
  PROVE  GatewayInv'
<1> USE DEF GatewayInv
<1>1. Live' = Live
  BY DEF Live
<1>2. GatewayTypeOK'
  BY Zenon DEF GatewayTypeOK
<1>3. Shape' /\ AllClosed' /\ LinkIsTended'
  BY <1>1 DEF Shape, AllClosed, LinkIsTended, NeverGivesUp, OnlyDoublingMultiplies, AnswersFindTheirWay
<1> QED
  BY <1>2, <1>3

LEMMA GatewayStep == GatewayInv /\ [GatewayClientNext]_gatewayVars => GatewayInv'
<1> SUFFICES ASSUME GatewayInv, [GatewayClientNext]_gatewayVars PROVE GatewayInv'
  OBVIOUS
<1>1. /\ gatewayUp \in BOOLEAN /\ troubles \in 0 .. TroublesMax
      /\ calls \subseteq {s \in Links : link[s] = "open"}
  BY Zenon DEF GatewayInv, GatewayTypeOK, Shape
<1>2. ASSUME NEW s \in Links, Invoked(s) PROVE GatewayInv'
  BY <1>1, <1>2, StepElse DEF Invoked, gatewayEnv
<1>3. CASE GatewayStops
  <2>1. troubles' \in 0 .. TroublesMax
    BY <1>1, <1>3, TroublesAssumption DEF GatewayStops
  <2> QED
    BY <1>1, <1>3, <2>1, StepElse DEF GatewayStops
<1>4. CASE GatewayStarts
  BY <1>1, <1>4, StepElse DEF GatewayStarts
<1>5. CASE UNCHANGED gatewayVars
  BY <1>1, <1>5, StepElse DEF gatewayVars, gatewayEnv
<1> QED
  BY <1>2, <1>3, <1>4, <1>5, StepConnect, StepOpened, StepAttemptFails, StepLost, StepCloseDone,
     StepToolDone, StepRetryTimer, StepDisconnect
  DEF GatewayClientNext

\* The node never gives up while it is wanted, has one connection or timer and one more
\* for each failure it scheduled twice, and answers where it was asked so long as that
\* never happened: for any number of connections at once and of troubles.
THEOREM GatewayLinkIsTended == GatewayClientSpec => []LinkIsTended
<1>1. GatewayInv => LinkIsTended
  BY DEF GatewayInv
<1> QED
  BY <1>1, GatewayStarting, GatewayStep, PTL DEF GatewayClientSpec

------------------------------------------------------------------------------
(****************************************************************************)
(* The host's program                                                       *)
(****************************************************************************)

\* The loop's own question keeps every motion from a blocked way, so that the guard of
\* the transmitter adds nothing to it.
LEMMA VetoSends ==
  ASSUME AppTypeOK, NothingRammed, NEW frame \in {"drive", "stop"}, Send(frame),
         frame = "drive" => ~obstructed
  PROVE  wire' \in {"drive", "stop"} /\ rammed' = FALSE
BY DEF AppTypeOK, NothingRammed, Send, Guarded

\* A STOP gets out whenever the socket is open, and is no motion when it is not.
LEMMA StopSends ==
  ASSUME AppTypeOK, NothingRammed, Send("stop")
  PROVE  wire' = (IF open THEN "stop" ELSE wire) /\ rammed' = FALSE
BY DEF AppTypeOK, NothingRammed, Send, Guarded

\* Until the shutdown has closed the socket, only a running loop with a socket of its own
\* leaves a motion on the wire: one that ends says STOP. A loop is revived by a plan that
\* comes after the signal.
SocketTells ==
  /\ stage \in {"up", "closing"} /\ (~open \/ ~looping) => wire = "stop"
  /\ stage = "up" => ~revived

\* The inductive invariant of the host's program.
AppInv == AppTypeOK /\ GoingDownIsSafe /\ SocketTells

LEMMA AppStarts == AppInit => AppInv
<1> SUFFICES ASSUME AppInit PROVE AppInv
  OBVIOUS
<1>1. AppTypeOK
  BY Zenon DEF AppInit, AppTypeOK, Callers
<1> QED
  BY <1>1 DEF AppInit, AppInv, GoingDownIsSafe, NobodyDrives, NothingRammed, SocketTells

\* The loop and the keepalive.
LEMMA LoopKeepsApp ==
  ASSUME AppInv, TickOnTheWay \/ TickArrives \/ Beats
  PROVE  AppInv'
<1> USE DEF AppInv, GoingDownIsSafe
<1>1. CASE TickOnTheWay
  <2>1. looping /\ wire' \in {"drive", "stop"} /\ rammed' = FALSE
        /\ (~open => wire' = wire)
    BY <1>1, VetoSends DEF TickOnTheWay, Guarded, Send
  <2>2. UNCHANGED <<stage, joined, planning, visionOn, looping, keeping, wrapped, open, obstructed, revived>>
    BY <1>1 DEF TickOnTheWay
  <2>3. AppTypeOK'
    BY <2>1, <2>2, Zenon DEF AppTypeOK, Callers
  <2> QED
    BY <2>1, <2>2, <2>3 DEF NobodyDrives, NothingRammed, SocketTells
<1>2. CASE TickArrives
  <2>1. looping /\ looping' = FALSE /\ visionOn' \in BOOLEAN /\ wire' = (IF open THEN "stop" ELSE wire) /\ rammed' = FALSE
    BY <1>2, StopSends DEF TickArrives, StopsLoop, AppTypeOK
  <2>2. UNCHANGED <<stage, joined, planning, keeping, wrapped, open, obstructed, revived>>
    BY <1>2 DEF TickArrives
  <2>3. AppTypeOK'
    BY <2>1, <2>2, Zenon DEF AppTypeOK, Callers
  <2>4. ~revived => stage = "up"
    BY <2>1 DEF NobodyDrives, AppTypeOK
  <2> QED
    BY <2>1, <2>2, <2>3, <2>4 DEF NobodyDrives, NothingRammed, SocketTells
<1>3. CASE Beats
  <2>1. wire' = (IF open THEN "stop" ELSE wire) /\ rammed' = FALSE
    BY <1>3, StopSends DEF Beats
  <2>2. UNCHANGED <<stage, joined, planning, visionOn, looping, keeping, wrapped, open, obstructed, revived>>
    BY <1>3 DEF Beats
  <2>3. AppTypeOK'
    BY <2>1, <2>2, Zenon DEF AppTypeOK, Callers
  <2> QED
    BY <2>1, <2>2, <2>3 DEF NobodyDrives, NothingRammed, SocketTells
<1> QED
  BY <1>1, <1>2, <1>3

\* The callers.
LEMMA CallersKeepApp ==
  ASSUME AppInv, NEW c \in Callers,
         Joins(c) \/ Leaves(c) \/ Asks(c) \/ Planned(c) \/ PlanFails(c) \/ StopAsked(c)
  PROVE  AppInv'
<1> USE DEF AppInv, GoingDownIsSafe
<1>1. CASE Joins(c) \/ Leaves(c) \/ Asks(c) \/ PlanFails(c)
  <2>1. joined' \subseteq Callers /\ planning' \subseteq Callers
        /\ UNCHANGED <<stage, visionOn, looping, keeping, wrapped, open, obstructed, wire, revived, rammed>>
    BY <1>1 DEF Joins, Leaves, Asks, PlanFails, AppTypeOK
  <2>2. AppTypeOK'
    BY <2>1, Zenon DEF AppTypeOK, Callers
  <2> QED
    BY <2>1, <2>2 DEF NobodyDrives, NothingRammed, SocketTells
<1>2. CASE Planned(c)
  <2>1. planning' \subseteq Callers /\ visionOn' = TRUE
        /\ \/ UNCHANGED <<looping, revived>>
           \/ looping' = TRUE /\ (revived' <=> stage # "up") /\ revived' \in BOOLEAN
        /\ UNCHANGED <<stage, joined, keeping, wrapped, open, obstructed, wire, rammed>>
    BY <1>2 DEF Planned, AppTypeOK
  <2>2. AppTypeOK'
    BY <2>1, Zenon DEF AppTypeOK, Callers
  <2> QED
    BY <2>1, <2>2 DEF NobodyDrives, NothingRammed, SocketTells
<1>3. CASE StopAsked(c)
  <2>1. stage # "gone" /\ looping' = FALSE /\ visionOn' \in BOOLEAN /\ wire' = (IF open THEN "stop" ELSE wire) /\ rammed' = FALSE
    BY <1>3, StopSends DEF StopAsked
  <2>2. UNCHANGED <<stage, joined, planning, keeping, wrapped, open, obstructed, revived>>
    BY <1>3 DEF StopAsked
  <2>3. AppTypeOK'
    BY <2>1, <2>2, Zenon DEF AppTypeOK, Callers
  <2>4. ~revived /\ ~open => wire = "stop"
    BY DEF NobodyDrives, SocketTells, AppTypeOK
  <2> QED
    BY <2>1, <2>2, <2>3, <2>4 DEF NobodyDrives, NothingRammed, SocketTells
<1> QED
  BY <1>1, <1>2, <1>3

\* The way down, and what crosses the robot's.
LEMMA ShutdownKeepsApp ==
  ASSUME AppInv, Signal \/ ServerCloses \/ Exits \/ Crosses
  PROVE  AppInv'
<1> USE DEF AppInv, GoingDownIsSafe
<1>1. CASE Signal
  <2>1. stage \in {"up", "closing"} /\ stage' = "closing" /\ looping' = FALSE /\ visionOn' = FALSE /\ revived' = FALSE
        /\ keeping' = FALSE /\ wrapped' = FALSE /\ UNCHANGED <<joined, planning, open, obstructed>>
    BY <1>1 DEF Signal, StopsLoop
  <2>2. IF looping THEN wire' = (IF open THEN "stop" ELSE wire) /\ rammed' = FALSE
                   ELSE UNCHANGED <<wire, rammed>>
    BY <1>1, StopSends DEF Signal, StopsLoop, Quiet
  <2>3. wire' = "stop" /\ rammed' = FALSE
    BY <2>1, <2>2 DEF NobodyDrives, NothingRammed, SocketTells, AppTypeOK
  <2>4. AppTypeOK'
    BY <2>1, <2>3, Zenon DEF AppTypeOK, Callers
  <2> QED
    BY <2>1, <2>3, <2>4 DEF NobodyDrives, NothingRammed, SocketTells
<1>2. CASE ServerCloses
  <2>1. stage = "closing" /\ stage' = "disconnecting" /\ joined' = {} /\ open' = FALSE
        /\ UNCHANGED <<planning, visionOn, looping, keeping, wrapped, obstructed, wire, revived, rammed>>
    BY <1>2 DEF ServerCloses
  <2>2. AppTypeOK'
    BY <2>1, Zenon DEF AppTypeOK, Callers
  <2> QED
    BY <2>1, <2>2 DEF NobodyDrives, NothingRammed, SocketTells
<1>3. CASE Exits
  <2>1. stage = "disconnecting" /\ stage' = "gone" /\ visionOn' = FALSE /\ looping' = FALSE
        /\ UNCHANGED <<joined, planning, keeping, wrapped, open, obstructed, wire, revived, rammed>>
    BY <1>3 DEF Exits
  <2>2. AppTypeOK'
    BY <2>1, Zenon DEF AppTypeOK, Callers
  <2> QED
    BY <2>1, <2>2 DEF NobodyDrives, NothingRammed, SocketTells
<1>4. CASE Crosses
  <2>1. obstructed' \in BOOLEAN
        /\ UNCHANGED <<stage, joined, planning, visionOn, looping, keeping, wrapped, open, wire, revived, rammed>>
    BY <1>4, Zenon DEF Crosses, AppTypeOK
  <2>2. AppTypeOK'
    BY <2>1, Zenon DEF AppTypeOK, Callers
  <2> QED
    BY <2>1, <2>2 DEF NobodyDrives, NothingRammed, SocketTells
<1> QED
  BY <1>1, <1>2, <1>3, <1>4

LEMMA AppStep == AppInv /\ [AppNext]_appVars => AppInv'
<1> SUFFICES ASSUME AppInv, [AppNext]_appVars PROVE AppInv'
  OBVIOUS
<1>1. CASE UNCHANGED appVars
  BY <1>1 DEF appVars, AppInv, AppTypeOK, GoingDownIsSafe, NobodyDrives, NothingRammed, SocketTells, Callers
<1> QED
  BY <1>1, LoopKeepsApp, CallersKeepApp, ShutdownKeepsApp DEF AppNext

\* For any number of clients, calls under way and signals: no motion passes the guard,
\* whose wrapper the shutdown takes off, and a program that goes down leaves a standing
\* robot unless a call that was still served started the loop again.
THEOREM ShutdownsAreSafe == AppSpec => []GoingDownIsSafe
<1>1. AppInv => GoingDownIsSafe
  BY DEF AppInv
<1> QED
  BY <1>1, AppStarts, AppStep, PTL DEF AppSpec
==============================================================================
