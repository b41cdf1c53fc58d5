---------------------------- MODULE CameraStream ----------------------------
(****************************************************************************)
(* The camera stream between VisionLoop (brain/perception/vision_loop.ts)   *)
(* and the board's HTTP servers (roclaw_unified.ino, esp32_cam_eyes.ino).   *)
(* The host opens requests, is told of their ends by events that may come   *)
(* late, and reconnects by timers; it cuts the bytes into frames and, in    *)
(* the legacy mode, thinks about one frame at a time.  The board serves one *)
(* client at a time, and nothing else meanwhile.                            *)
(****************************************************************************)
EXTENDS Naturals, FiniteSets

CONSTANTS
  Conns,     \* identities of connections, used again when their ends are reported
  MaxTimers  \* bound: reconnection timers pending at once

None == 0
ASSUME ConnsAssumption == Conns \subseteq Nat \ {None}
ASSUME TimersAssumption == MaxTimers \in Nat \ {0}

VARIABLES
  running,    \* VisionLoop.running
  request,    \* VisionLoop.request
  conn,       \* connection -> its state
  idled,      \* connections whose 'timeout' was emitted since they were last active
  timers,     \* reconnection timers that have not fired
  tracked,    \* reconnectTimer is one of them
  held,       \* the connection whose half frame is in the buffer
  half,       \* connection -> its next bytes are the second half of a frame
  phase,      \* where processFrame() is
  heartbeat,  \* heartbeatTimer is set
  serving,    \* the board is inside the stream handler of this connection
  late,       \* history: motions sent since the loop stopped, up to two
  clean,      \* history: connection -> start() made it, or it delivered a frame
  torn,       \* history: a frame of a clean connection was mixed with other bytes
  calm        \* history: no idle timeout, no reset, no start() before a late error

loopVars == <<phase, heartbeat, late>>
streamVars == <<running, request, conn, idled, timers, tracked, held, half, clean, torn, calm>>
camVars == <<loopVars, streamVars, serving>>

Open == {c \in Conns : conn[c] \in {"connecting", "streaming"}}
Free == {c \in Conns : conn[c] = "unused" /\ c # serving}

CameraTypeOK ==
  /\ running \in BOOLEAN /\ tracked \in BOOLEAN /\ heartbeat \in BOOLEAN
  /\ request \in Conns \cup {None} /\ held \in Conns \cup {None}
  /\ serving \in Conns \cup {None}
  /\ conn \in [Conns -> {"unused", "connecting", "streaming", "refused", "destroyed"}]
  /\ idled \subseteq Conns /\ timers \in Nat /\ late \in 0 .. 2
  /\ half \in [Conns -> BOOLEAN] /\ clean \in [Conns -> BOOLEAN]
  /\ phase \in {"idle", "settling", "inferring"}
  /\ torn \in BOOLEAN /\ calm \in BOOLEAN

CameraInit ==
  /\ running = FALSE /\ request = None
  /\ conn = [c \in Conns |-> "unused"] /\ idled = {}
  /\ timers = 0 /\ tracked = FALSE
  /\ held = None /\ half = [c \in Conns |-> FALSE]
  /\ phase = "idle" /\ heartbeat = FALSE
  /\ serving = None
  /\ late = 0 /\ clean = [c \in Conns |-> FALSE] /\ torn = FALSE /\ calm = TRUE

-----------------------------------------------------------------------------
(* Connections *)

\* connectToStream(): the request of connection c is the one the loop knows.
ConnectToStream(c, first) ==
  /\ c \in Free
  /\ conn' = [conn EXCEPT ![c] = "connecting"]
  /\ request' = c
  /\ idled' = idled \ {c}
  /\ half' = [half EXCEPT ![c] = FALSE]
  /\ clean' = [clean EXCEPT ![c] = first]

\* Timers beyond the bound are not counted.
Capped(n) == IF n > MaxTimers THEN MaxTimers ELSE n

\* Slip: no timer is set.
DisconnectForGood == request' = None /\ UNCHANGED <<timers, tracked>>

\* handleDisconnect(): the handle of an earlier timer is overwritten.
HandleDisconnect ==
  /\ request' = None
  /\ timers' = IF running THEN Capped(timers + 1) ELSE timers
  /\ tracked' = (tracked \/ running)

\* destroy() of a request: its error is delivered later, but for a refused one,
\* to whose response nobody listens.
Destroyed(r) ==
  [c \in Conns |->
    IF c # r THEN conn[c]
    ELSE IF conn[c] \in {"connecting", "streaming"} THEN "destroyed" ELSE "unused"]

\* start(): a running loop ignores it.
StartStream ==
  /\ ~ running
  /\ running' = TRUE
  /\ \E c \in Free : ConnectToStream(c, TRUE)
  /\ calm' = (calm /\ \A c \in Conns : conn[c] # "destroyed")
  /\ UNCHANGED <<timers, tracked, held, torn, loopVars, serving>>

\* Slip: stop() leaves the buffer as it is.
StopKeepingBuffer ==
  /\ running' = FALSE
  /\ heartbeat' = FALSE
  /\ timers' = IF tracked THEN timers - 1 ELSE timers
  /\ tracked' = FALSE
  /\ conn' = Destroyed(request) /\ request' = None
  /\ late' = IF running THEN 0 ELSE late
  /\ UNCHANGED <<held, idled, half, clean, torn, calm, phase, serving>>

\* stop(): the timer it knows, the request it knows, the buffer; a frame being
\* thought about goes on.
StopStream ==
  /\ running' = FALSE
  /\ heartbeat' = FALSE
  /\ timers' = IF tracked THEN timers - 1 ELSE timers
  /\ tracked' = FALSE
  /\ conn' = Destroyed(request) /\ request' = None
  /\ held' = None
  /\ late' = IF running THEN 0 ELSE late
  /\ UNCHANGED <<idled, half, clean, torn, calm, phase, serving>>

\* A timer fires, the oldest first; one that stop() did not clear finds the loop
\* stopped and does nothing.
ReconnectTimerFires ==
  /\ timers > 0
  /\ timers' = timers - 1
  /\ tracked' = (tracked /\ timers > 1)
  /\ IF running
       THEN \E c \in Free : ConnectToStream(c, FALSE)
       ELSE UNCHANGED <<conn, request, idled, half, clean>>
  /\ UNCHANGED <<running, held, torn, calm, loopVars, serving>>

\* The request fails before an answer.
ConnectFails(c) ==
  /\ conn[c] = "connecting"
  /\ conn' = [conn EXCEPT ![c] = "unused"]
  /\ HandleDisconnect
  /\ UNCHANGED <<running, idled, held, half, clean, torn, calm, loopVars, serving>>

\* The error of a destroyed request, or of its response, arrives.
DestroyReported(c) ==
  /\ conn[c] = "destroyed"
  /\ conn' = [conn EXCEPT ![c] = "unused"]
  /\ HandleDisconnect
  /\ UNCHANGED <<running, idled, held, half, clean, torn, calm, loopVars, serving>>

\* 'timeout' of one request destroys the request the loop knows, which may be
\* another; the destroyed one reports its error as well.
IdleTimeout(c) ==
  /\ conn[c] \in {"connecting", "streaming", "refused"} /\ c \notin idled
  /\ idled' = idled \cup {c}
  /\ conn' = Destroyed(request)
  /\ IF running THEN HandleDisconnect ELSE UNCHANGED <<request, timers, tracked>>
  /\ calm' = FALSE
  /\ UNCHANGED <<running, held, half, clean, torn, loopVars, serving>>

\* The board ends the response.
StreamEnds(c) ==
  /\ conn[c] = "streaming" /\ serving = c
  /\ conn' = [conn EXCEPT ![c] = "unused"]
  /\ serving' = None
  /\ HandleDisconnect
  /\ UNCHANGED <<running, idled, held, half, clean, torn, calm, loopVars>>

\* The connection is reset: request and response both report an error.
StreamResets(c) ==
  /\ conn[c] = "streaming"
  /\ conn' = [conn EXCEPT ![c] = "unused"]
  /\ request' = None
  /\ timers' = IF running THEN Capped(timers + 2) ELSE timers
  /\ tracked' = (tracked \/ running)
  /\ calm' = FALSE
  /\ UNCHANGED <<running, idled, held, half, clean, torn, loopVars, serving>>

-----------------------------------------------------------------------------
(* The board's servers, one loop() for both *)

\* handleMJPEGStream() begins: it does not return while its client is connected.
ServeStream(c) ==
  /\ serving = None /\ conn[c] = "connecting"
  /\ serving' = c
  /\ conn' = [conn EXCEPT ![c] = "streaming"]
  /\ idled' = idled \ {c}
  /\ UNCHANGED <<running, request, timers, tracked, held, half, clean, torn, calm, loopVars>>

\* Whatever answers at the URL answers something else than 200: the host only counts it.
RefuseStream(c) ==
  /\ serving = None /\ conn[c] = "connecting"
  /\ conn' = [conn EXCEPT ![c] = "refused"]
  /\ idled' = idled \ {c}
  /\ UNCHANGED <<running, request, timers, tracked, held, half, clean, torn, calm, loopVars, serving>>

\* client.connected() is false: back to loop().
LeaveHandler ==
  /\ serving # None /\ conn[serving] # "streaming"
  /\ serving' = None
  /\ UNCHANGED <<streamVars, loopVars>>

-----------------------------------------------------------------------------
(* Frames *)

\* handleFrame(): the rate limit may drop it; a frame that comes while the last
\* one is thought about is only kept as history.
HandleFrame == phase' \in {phase, IF phase = "idle" THEN "settling" ELSE phase}

\* The next half of a frame arrives and parseFrames() looks at the buffer.  A half
\* with a boundary in front waits for as many bytes as it announced, whoever
\* sends them; bytes without a boundary are no frame.
Chunk(c) ==
  /\ serving = c /\ conn[c] = "streaming"
  /\ half' = [half EXCEPT ![c] = ~ half[c]]
  /\ idled' = idled \ {c}
  /\ IF held = None
       THEN /\ held' = IF half[c] THEN None ELSE c
            /\ UNCHANGED <<phase, clean, torn>>
       ELSE /\ held' = None
            /\ torn' = (torn \/ (clean[c] /\ ~ (held = c /\ half[c])))
            /\ clean' = [clean EXCEPT ![c] = TRUE]
            /\ HandleFrame
  /\ UNCHANGED <<running, request, conn, timers, tracked, calm, heartbeat, late, serving>>

\* stopAndSettle() is over: the heartbeat is started, whoever stopped the loop.
Settled ==
  /\ phase = "settling"
  /\ phase' = "inferring" /\ heartbeat' = TRUE
  /\ UNCHANGED <<late, streamVars, serving>>

\* The policy answered: a motion is sent without a look at running.  An answer
\* without bytecode, or an error, sends nothing.
Inferred ==
  /\ phase = "inferring"
  /\ phase' = "idle" /\ heartbeat' = FALSE
  /\ late' \in {late, IF running \/ late = 2 THEN late ELSE late + 1}
  /\ UNCHANGED <<streamVars, serving>>

-----------------------------------------------------------------------------
CameraNext ==
  \/ StartStream \/ StopStream \/ ReconnectTimerFires
  \/ \E c \in Conns :
       \/ ConnectFails(c) \/ DestroyReported(c) \/ IdleTimeout(c)
       \/ StreamEnds(c) \/ StreamResets(c)
       \/ ServeStream(c) \/ RefuseStream(c) \/ Chunk(c)
  \/ LeaveHandler
  \/ Settled \/ Inferred

\* Timers fire, Node reports errors, the board's loop goes round and takes a client
\* that waits for it again and again; nothing makes the user start the loop or a
\* model answer.
CameraFairness ==
  /\ WF_camVars(ReconnectTimerFires)
  /\ WF_camVars(LeaveHandler)
  /\ \A c \in Conns : WF_camVars(DestroyReported(c)) /\ SF_camVars(ServeStream(c))

CameraSpec == CameraInit /\ [][CameraNext]_camVars /\ CameraFairness

-----------------------------------------------------------------------------
(* Properties *)

\* As long as nothing timed out or was reset and no start() overtook the error of
\* the request that stop() destroyed, a running loop has one connection or one
\* timer, and a stopped one neither.
OneStream ==
  calm => Cardinality(Open) + timers <= IF running THEN 1 ELSE 0

\* Bytes of two connections are mixed into one frame only in the first frame of a
\* reconnection; a loop that was stopped and started again begins with a clean buffer.
TearsAreExcused == calm => ~ torn

\* After stop() at most one motion is still sent: the one of the frame being
\* thought about.
OneLateMotion == calm => late <= 1

\* A running loop whose camera refuses nothing streams again in the end, after
\* any failure.
Recovers ==
  running ~> \/ ~ running
             \/ \E c \in Conns : conn[c] \in {"streaming", "refused"}

\* docs/ARCHITECTURE.md: the board answers telemetry on a port of its own.  loop()
\* gets to telemetryServer.handleClient() only between two streams.
TelemetryHasTurns == []<>(serving = None)

\* A loop left to its timers owns one stream and one buffer, and what it has in hand
\* when it is stopped is the last motion it sends.
StreamIsOwn == OneStream /\ TearsAreExcused /\ OneLateMotion
=============================================================================
