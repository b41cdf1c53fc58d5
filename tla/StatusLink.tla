----------------------------- MODULE StatusLink -----------------------------
(****************************************************************************)
(* Questions over UDP: UDPTransmitter.sendAndReceive and sendWithAck        *)
(* (bridge/udp_transmitter.ts) against the bridge that plays the board      *)
(* (bridge/mjswan_bridge.ts).  All answers come to one socket: a status     *)
(* query takes the first message of any kind, an acknowledged frame the     *)
(* acknowledgement of its sequence number, a byte; and the bridge pushes    *)
(* telemetry to the same socket.                                            *)
(****************************************************************************)
EXTENDS Naturals

CONSTANTS
  Queries,   \* calls of sendAndReceive
  Acked,     \* calls of sendWithAck
  SeqNumber, \* the sequence number each of them is given, of any size
  Nothing

Calls == Queries \cup Acked

\* Two numbers that share their low byte are taken for each other by the listener.
ASSUME CallsAssumption ==
  /\ Queries \cap Acked = {} /\ Nothing \notin Calls
  /\ \A a, b \in Acked : SeqNumber[a] \in Nat /\ (a # b => SeqNumber[a] % 256 # SeqNumber[b] % 256)

VARIABLES
  call,    \* call -> where it is
  got,     \* query -> the message that answered it
  toPeer,  \* calls whose frame is under way to the bridge
  heard,   \* calls whose frame the bridge has received
  owed,    \* status answers the bridge will send 50 ms later
  toHost,  \* messages under way to the host
  alone    \* history: no query was made while anything was under way or awaited

linkVars == <<call, got, toPeer, heard, owed, toHost, alone>>

\* encodeFrameV2 masks the number.
OnWire(c) == SeqNumber[c] % 256

Message ==
  [kind : {"status"}, of : Queries] \cup [kind : {"ack"}, of : Acked]
    \cup [kind : {"telemetry"}, of : {Nothing}]
Telemetry == [kind |-> "telemetry", of |-> Nothing]

Waiting == {c \in Calls : call[c] = "waiting"}

LinkTypeOK ==
  /\ call \in [Calls -> {"new", "waiting", "done", "failed"}]
  /\ got \in [Queries -> Message \cup {Nothing}]
  /\ toPeer \subseteq Calls /\ heard \subseteq Calls /\ owed \subseteq Queries
  /\ toHost \subseteq Message
  /\ alone \in BOOLEAN

LinkInit ==
  /\ call = [c \in Calls |-> "new"]
  /\ got = [q \in Queries |-> Nothing]
  /\ toPeer = {} /\ heard = {} /\ owed = {} /\ toHost = {}
  /\ alone = TRUE

-----------------------------------------------------------------------------
(* The host *)

\* The listener is registered and the frame handed to the socket.
Ask(c) ==
  /\ call[c] = "new"
  /\ call' = [call EXCEPT ![c] = "waiting"]
  /\ toPeer' = toPeer \cup {c}
  /\ alone' = (alone /\ Waiting = {} /\ toPeer = {} /\ owed = {} /\ toHost = {})
  /\ UNCHANGED <<got, heard, owed, toHost>>

\* The socket reports that it could not send.
SendFails(c) ==
  /\ call[c] = "waiting" /\ c \in toPeer
  /\ call' = [call EXCEPT ![c] = "failed"]
  /\ toPeer' = toPeer \ {c}
  /\ UNCHANGED <<got, heard, owed, toHost, alone>>

\* The timer of a call removes its listener and rejects it.
TimesOut(c) ==
  /\ call[c] = "waiting"
  /\ call' = [call EXCEPT ![c] = "failed"]
  /\ UNCHANGED <<got, toPeer, heard, owed, toHost, alone>>

\* Slip: any acknowledgement will do.
MatchesAny(a, m) == m.kind = "ack"

\* The listener of sendWithAck compares its number with the byte that came back.
Matches(a, m) == m.kind = "ack" /\ OnWire(m.of) = SeqNumber[a]

\* The listeners that take a message: every query that waits.
Takers(m) == (Queries \cap Waiting) \cup {a \in Acked \cap Waiting : Matches(a, m)}

Deliver(m) ==
  /\ m \in toHost
  /\ toHost' = toHost \ {m}
  /\ call' = [c \in Calls |-> IF c \in Takers(m) THEN "done" ELSE call[c]]
  /\ got' = [q \in Queries |-> IF q \in Takers(m) THEN m ELSE got[q]]
  /\ UNCHANGED <<toPeer, heard, owed, alone>>

-----------------------------------------------------------------------------
(* The bridge and the network *)

\* A frame arrives: an acknowledgement is sent before the command is looked at, a
\* status answer is left to a timer.
BridgeHears(c) ==
  /\ c \in toPeer
  /\ toPeer' \in {toPeer, toPeer \ {c}}
  /\ heard' = heard \cup {c}
  /\ owed' = IF c \in Queries THEN owed \cup {c} ELSE owed
  /\ toHost' = IF c \in Acked THEN toHost \cup {[kind |-> "ack", of |-> c]} ELSE toHost
  /\ UNCHANGED <<call, got, alone>>

BridgeAnswers(q) ==
  /\ q \in owed
  /\ owed' = owed \ {q}
  /\ toHost' = toHost \cup {[kind |-> "status", of |-> q]}
  /\ UNCHANGED <<call, got, toPeer, heard, alone>>

\* The broadcast goes to the address of the last frame.
PushTelemetry ==
  /\ heard # {}
  /\ toHost' = toHost \cup {Telemetry}
  /\ alone' = FALSE
  /\ UNCHANGED <<call, got, toPeer, heard, owed>>

Lose ==
  /\ \/ \E c \in toPeer : toPeer' = toPeer \ {c} /\ UNCHANGED toHost
     \/ \E m \in toHost : toHost' = toHost \ {m} /\ UNCHANGED toPeer
  /\ UNCHANGED <<call, got, heard, owed, alone>>

LinkNext ==
  \/ \E c \in Calls : Ask(c) \/ SendFails(c) \/ TimesOut(c) \/ BridgeHears(c)
  \/ \E q \in Queries : BridgeAnswers(q)
  \/ \E m \in toHost : Deliver(m)
  \/ PushTelemetry \/ Lose

LinkSpec == LinkInit /\ [][LinkNext]_linkVars

-----------------------------------------------------------------------------
(* Properties *)

\* A query that had the socket for itself is answered with its own status: by no
\* telemetry, no acknowledgement, no answer to a query that gave up.
AnswersMatch == alone => \A q \in Queries : got[q] # Nothing => got[q].of = q

\* A frame reported as acknowledged was received by the bridge: no status, no
\* telemetry and no other frame's acknowledgement ends the wait for it.
AckMeansHeard == \A a \in Acked : call[a] = "done" => a \in heard

\* What one socket for all answers still lets the callers believe.
LinkIsTrue == AnswersMatch /\ AckMeansHeard
=============================================================================
