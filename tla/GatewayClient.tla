---------------------------- MODULE GatewayClient ----------------------------
(****************************************************************************)
(* CortexNode (brain/planning/index.ts), the robot as a node of OpenClaw    *)
(* Gateway: a WebSocket kept up by timers of reconnectDelayMs, on which the *)
(* robot registers and answers tool calls.  this.ws is one reference for    *)
(* whatever connections there are: each handler acts on the one it holds    *)
(* at that moment.  index.ts connects once and disconnects at shutdown.     *)
(****************************************************************************)
EXTENDS Naturals, FiniteSets

CONSTANTS
  Links,       \* identities of WebSockets, used again once closed
  NoLink,      \* this.ws = null
  TroublesMax  \* bound: times the gateway goes down or drops a connection

ASSUME LinksAssumption == NoLink \notin Links /\ IsFiniteSet(Links)
ASSUME TroublesAssumption == TroublesMax \in Nat

VARIABLES
  wanted,      \* CortexNode.running
  begun,       \* connect() was called
  ws,          \* this.ws
  link,        \* WebSocket -> its readyState, "unused" when there is none
  firstLink,   \* the attempt whose failure index.ts catches
  retries,     \* timers that will attempt a connection
  registered,  \* open connections on which the robot registered
  calls,       \* open connections whose tool call is being handled
  gatewayUp,   \* the gateway accepts connections
  troubles,    \* times it did not any more, or dropped one
  twice,       \* history: failed attempts that were scheduled again twice
  astray       \* history: an answer was not sent on the open connection that asked

gatewayEnv  == <<gatewayUp, troubles>>
gatewayVars == <<wanted, begun, ws, link, firstLink, retries, registered, calls,
                 gatewayEnv, twice, astray>>

Live == {s \in Links : link[s] \in {"connecting", "open"}}
IsOpen(s) == s # NoLink /\ link[s] = "open"

GatewayTypeOK ==
  /\ wanted \in BOOLEAN /\ begun \in BOOLEAN /\ gatewayUp \in BOOLEAN /\ astray \in BOOLEAN
  /\ ws \in Links \cup {NoLink} /\ firstLink \in Links \cup {NoLink}
  /\ link \in [Links -> {"unused", "connecting", "open", "closing"}]
  /\ registered \subseteq Links /\ calls \subseteq Links
  /\ retries \in Nat /\ twice \in Nat /\ troubles \in 0 .. TroublesMax

GatewayInit ==
  /\ wanted = FALSE /\ begun = FALSE /\ ws = NoLink /\ firstLink = NoLink
  /\ link = [s \in Links |-> "unused"]
  /\ retries = 0 /\ registered = {} /\ calls = {}
  /\ gatewayUp \in BOOLEAN /\ troubles = 0
  /\ twice = 0 /\ astray = FALSE

-----------------------------------------------------------------------------
(* Connections *)

\* establishConnection(): the new WebSocket is this.ws, whatever that was before.
EstablishConnection(s) ==
  /\ link[s] = "unused"
  /\ link' = [link EXCEPT ![s] = "connecting"]
  /\ ws' = s

\* scheduleReconnect(), called n times: each call sets a timer of its own.
\* Slip: the close handler leaves the rescheduling to the caller's catch.
RescheduledByCatch(n) == retries + (IF wanted /\ n = 2 THEN 1 ELSE 0)
Rescheduled(n) == retries + (IF wanted THEN n ELSE 0)

Connect(s) ==
  /\ ~begun /\ begun' = TRUE
  /\ wanted' = TRUE
  /\ firstLink' = s
  /\ EstablishConnection(s)
  /\ UNCHANGED <<retries, registered, calls, gatewayEnv, twice, astray>>

\* The 'open' event: send() registers on this.ws if that is open, which need not be s.
Opened(s) ==
  /\ link[s] = "connecting" /\ gatewayUp
  /\ link' = [link EXCEPT ![s] = "open"]
  /\ registered' = registered \cup {w \in {ws} : w # NoLink /\ link'[w] = "open"}
  /\ firstLink' = IF s = firstLink THEN NoLink ELSE firstLink
  /\ UNCHANGED <<wanted, begun, ws, retries, calls, gatewayEnv, twice, astray>>

\* The connection s is over, and this.ws with it, whichever that is.
Over(s) ==
  /\ link' = [link EXCEPT ![s] = "unused"]
  /\ ws' = NoLink
  /\ registered' = registered \ {s} /\ calls' = calls \ {s}

\* 'error' and at once 'close': the first rejects the promise unless this.ws is open,
\* the second schedules; the catch of the timer that made the attempt schedules again.
AttemptFails(s) ==
  LET again == s # firstLink /\ ~IsOpen(ws) IN
  /\ link[s] = "connecting" /\ ~gatewayUp
  /\ Rescheduled(2) + Cardinality(Live) <= Cardinality(Links) + 1  \* bound
  /\ Over(s)
  /\ retries' = Rescheduled(IF again THEN 2 ELSE 1)
  /\ twice' = IF wanted /\ again THEN twice + 1 ELSE twice
  /\ firstLink' = IF s = firstLink THEN NoLink ELSE firstLink
  /\ UNCHANGED <<wanted, begun, gatewayEnv, astray>>

\* The gateway drops an open connection: 'close', after an 'error' that rejects no more.
Lost(s) ==
  /\ link[s] = "open"
  /\ troubles < TroublesMax /\ troubles' = troubles + 1
  /\ Over(s)
  /\ retries' = Rescheduled(1)
  /\ UNCHANGED <<wanted, begun, firstLink, gatewayUp, twice, astray>>

\* The timer of scheduleReconnect(): nothing once the node was told to disconnect.
RetryTimer ==
  /\ retries > 0 /\ retries' = retries - 1
  /\ IF wanted THEN \E s \in Links : EstablishConnection(s) ELSE UNCHANGED <<link, ws>>
  /\ UNCHANGED <<wanted, begun, firstLink, registered, calls, gatewayEnv, twice, astray>>

\* disconnect(): the last timer and the last connection, of however many there are.
Disconnect ==
  /\ wanted /\ wanted' = FALSE
  /\ retries' = IF retries > 0 THEN retries - 1 ELSE 0
  /\ link' = [s \in Links |-> IF s = ws THEN "closing" ELSE link[s]]
  /\ ws' = NoLink
  /\ registered' = registered \ {ws} /\ calls' = calls \ {ws}
  /\ UNCHANGED <<begun, firstLink, gatewayEnv, twice, astray>>

\* The handshake of that close() ended; a connection that was never made is aborted.
CloseDone(s) ==
  /\ link[s] = "closing"
  /\ Over(s)
  /\ retries' = Rescheduled(1)
  /\ firstLink' = IF s = firstLink THEN NoLink ELSE firstLink
  /\ UNCHANGED <<wanted, begun, gatewayEnv, twice, astray>>

-----------------------------------------------------------------------------
(* Messages *)

\* handleMessage(): an invocation is awaited; a ping, and what is no JSON, changes nothing.
Invoked(s) ==
  /\ link[s] = "open" /\ calls' = calls \cup {s}
  /\ UNCHANGED <<wanted, begun, ws, link, firstLink, retries, registered, gatewayEnv, twice, astray>>

\* Its result goes out on what this.ws is now; a call whose connection closed is forgotten.
ToolDone(s) ==
  /\ s \in calls /\ calls' = calls \ {s}
  /\ astray' = (astray \/ s # ws)
  /\ UNCHANGED <<wanted, begun, ws, link, firstLink, retries, registered, gatewayEnv, twice>>

-----------------------------------------------------------------------------
(* The gateway *)

GatewayStops ==
  /\ gatewayUp /\ troubles < TroublesMax
  /\ gatewayUp' = FALSE /\ troubles' = troubles + 1
  /\ UNCHANGED <<wanted, begun, ws, link, firstLink, retries, registered, calls, twice, astray>>

GatewayStarts ==
  /\ ~gatewayUp /\ gatewayUp' = TRUE
  /\ UNCHANGED <<wanted, begun, ws, link, firstLink, retries, registered, calls, troubles, twice, astray>>

GatewayClientNext ==
  \/ \E s \in Links : \/ Connect(s) \/ Opened(s) \/ AttemptFails(s) \/ Lost(s)
                      \/ CloseDone(s) \/ Invoked(s) \/ ToolDone(s)
  \/ RetryTimer \/ Disconnect
  \/ GatewayStops \/ GatewayStarts

GatewayClientSpec == GatewayInit /\ [][GatewayClientNext]_gatewayVars
GatewayClientFair ==
  GatewayClientSpec /\ WF_gatewayVars(RetryTimer) /\ \A s \in Links : WF_gatewayVars(Opened(s))

-----------------------------------------------------------------------------
(* Properties *)

\* While the node is wanted it never gives up: a reference to a connection that is
\* made or being made, registered once open, or a timer that will make one.
NeverGivesUp ==
  wanted => IF ws = NoLink THEN retries > 0
            ELSE ws \in Live /\ (link[ws] = "open" => ws \in registered)

\* Connections and timers are one, and one more for each failed attempt that both the
\* close handler and the catch scheduled again (index.ts:123 and :179).
OnlyDoublingMultiplies == wanted => Cardinality(Live) + retries = 1 + twice

\* So long as that never happened a tool call that outlives no connection is answered
\* on the connection that asked, but for one that disconnect() closed.
AnswersFindTheirWay == astray => twice > 0

\* What the close handlers, the catch, the timers and the shared reference amount to.
LinkIsTended == NeverGivesUp /\ OnlyDoublingMultiplies /\ AnswersFindTheirWay

\* A gateway that stays up is joined for good by a node that stays wanted, however
\* many attempts and connections there were before (index.ts:171-183).
Rejoins == <>[](gatewayUp /\ wanted) => <>[](IsOpen(ws) /\ ws \in registered)
=============================================================================
