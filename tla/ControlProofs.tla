---------------------------- MODULE ControlProofs ----------------------------
(****************************************************************************)
(* Proofs about the control loops and what they drive: the status link, the *)
(* stand-ins of the robot, the egocentric and the overhead loop, and the    *)
(* nodes of the things they see, for worlds of any size.                    *)
(****************************************************************************)
EXTENDS StatusLink, SimBridge, EgoLoop, ControlLoop, SceneTracking,
        FiniteSetTheorems, TLAPS

(****************************************************************************)
(* The status link                                                          *)
(****************************************************************************)

\* What is under way or awaited on the way of a call.
Involved == Waiting \cup toPeer \cup owed \cup {m.of : m \in toHost}

\* An acknowledgement on its way is of a frame the bridge has received.
AcksAreHeard == \A m \in toHost : m.kind = "ack" => m.of \in heard

\* So long as every call had the socket for itself, all that is on the way is of one.
OneAtATime ==
  alone => /\ \A x, y \in Involved : x = y
           /\ Nothing \notin Involved

\* The inductive invariant of the status link.
LinkInv == LinkTypeOK /\ AcksAreHeard /\ OneAtATime /\ AnswersMatch /\ AckMeansHeard

\* The listener of sendWithAck takes no acknowledgement but that of its own frame:
\* another's has another low byte, and its own number must be one byte to match at all.
LEMMA MatchesOwn ==
  ASSUME NEW a \in Acked, NEW m \in Message, Matches(a, m)
  PROVE  m.of = a
<1>1. m.kind = "ack" /\ m.of \in Acked
  BY DEF Matches, Message
<1>2. SeqNumber[m.of] % 256 = SeqNumber[a]
  BY DEF Matches, OnWire
<1>3. SeqNumber[a] \in Nat /\ SeqNumber[m.of] \in Nat
  BY <1>1, CallsAssumption
<1>4. SeqNumber[a] % 256 = SeqNumber[a]
  BY <1>2, <1>3, SMT
<1> QED
  BY <1>1, <1>2, <1>4, CallsAssumption

\* Nobody who is no waiting call takes a message.
LEMMA TakersWait ==
  ASSUME NEW m \in Message
  PROVE  /\ Takers(m) \subseteq Waiting
         /\ \A a \in Acked : a \in Takers(m) => m.kind = "ack" /\ m.of = a
<1>1. \A a \in Acked : a \notin Queries
  BY CallsAssumption
<1>2. \A a \in Acked : a \in Takers(m) => Matches(a, m)
  BY <1>1 DEF Takers
<1>3. \A a \in Acked : Matches(a, m) => m.kind = "ack"
  BY DEF Matches
<1>4. \A a \in Acked : Matches(a, m) => m.of = a
  BY MatchesOwn
<1> QED
  BY <1>2, <1>3, <1>4 DEF Takers

LEMMA LinkStarts == LinkInit => LinkInv
<1> SUFFICES ASSUME LinkInit PROVE LinkInv
  OBVIOUS
<1>1. LinkTypeOK
  BY DEF LinkInit, LinkTypeOK
<1>2. Involved = {}
  BY DEF LinkInit, Involved, Waiting
<1>3. AcksAreHeard /\ OneAtATime /\ AnswersMatch /\ AckMeansHeard
  BY <1>2 DEF LinkInit, AcksAreHeard, OneAtATime, AnswersMatch, AckMeansHeard, Calls
<1> QED
  BY <1>1, <1>3 DEF LinkInv

\* A step after which less is on the way, and nothing of another call, and which
\* answers nobody, keeps what is said of that.
LEMMA QuietKeeps ==
  ASSUME LinkInv, LinkTypeOK', Involved' \subseteq Involved, alone' => alone,
         got' = got, toHost' \subseteq toHost, heard \subseteq heard',
         \A a \in Acked : call'[a] = "done" => call[a] = "done"
  PROVE  LinkInv'
<1>1. AcksAreHeard'
  BY DEF LinkInv, AcksAreHeard
<1>2. OneAtATime'
  BY DEF LinkInv, OneAtATime
<1>3. AnswersMatch'
  BY DEF LinkInv, AnswersMatch
<1>4. AckMeansHeard'
  BY DEF LinkInv, AckMeansHeard
<1> QED
  BY <1>1, <1>2, <1>3, <1>4 DEF LinkInv

LEMMA AskKeeps ==
  ASSUME LinkInv, NEW c \in Calls, Ask(c)
  PROVE  LinkInv'
<1>1. LinkTypeOK'
  BY DEF LinkInv, LinkTypeOK, Ask
<1>2. AcksAreHeard' /\ AnswersMatch'
  BY DEF LinkInv, AcksAreHeard, AnswersMatch, Ask
<1>3. AckMeansHeard'
  BY DEF LinkInv, LinkTypeOK, AckMeansHeard, Ask
<1>4. ASSUME alone' PROVE Involved' = {c}
  <2>1. Waiting = {} /\ toPeer = {} /\ owed = {} /\ toHost = {}
    BY <1>4 DEF Ask
  <2>2. Waiting' = {c}
    BY <2>1 DEF Ask, Waiting, LinkInv, LinkTypeOK
  <2> QED
    BY <2>1, <2>2 DEF Involved, Ask
<1>5. OneAtATime'
  <2>1. c # Nothing
    BY CallsAssumption DEF Calls
  <2> QED
    BY <1>4, <2>1 DEF OneAtATime
<1> QED
  BY <1>1, <1>2, <1>3, <1>5 DEF LinkInv

LEMMA FailureKeeps ==
  ASSUME LinkInv, NEW c \in Calls, SendFails(c) \/ TimesOut(c)
  PROVE  LinkInv'
<1>1. LinkTypeOK'
  BY DEF LinkInv, LinkTypeOK, SendFails, TimesOut
<1>2. Involved' \subseteq Involved
  BY DEF LinkInv, LinkTypeOK, Involved, Waiting, SendFails, TimesOut
<1>3. \A a \in Acked : call'[a] = "done" => call[a] = "done"
  BY DEF LinkInv, LinkTypeOK, Calls, SendFails, TimesOut
<1> QED
  BY <1>1, <1>2, <1>3, QuietKeeps DEF SendFails, TimesOut

LEMMA LoseKeeps ==
  ASSUME LinkInv, Lose
  PROVE  LinkInv'
<1>1. LinkTypeOK'
  BY DEF LinkInv, LinkTypeOK, Lose
<1>2. Involved' \subseteq Involved
  BY DEF Involved, Waiting, Lose
<1> QED
  BY <1>1, <1>2, QuietKeeps DEF Lose

LEMMA TelemetryKeeps ==
  ASSUME LinkInv, PushTelemetry
  PROVE  LinkInv'
<1>1. LinkTypeOK'
  <2>1. Telemetry \in Message
    BY DEF Telemetry, Message
  <2> QED
    BY <2>1 DEF LinkInv, LinkTypeOK, PushTelemetry
<1>2. AcksAreHeard'
  BY DEF LinkInv, AcksAreHeard, PushTelemetry, Telemetry
<1>3. OneAtATime' /\ AnswersMatch'
  BY DEF OneAtATime, AnswersMatch, PushTelemetry
<1>4. AckMeansHeard'
  BY DEF LinkInv, AckMeansHeard, PushTelemetry
<1> QED
  BY <1>1, <1>2, <1>3, <1>4 DEF LinkInv

\* What the bridge answers is of the call whose frame it has.
LEMMA BridgeKeeps ==
  ASSUME LinkInv,
         (\E c \in Calls : BridgeHears(c)) \/ (\E q \in Queries : BridgeAnswers(q))
  PROVE  LinkInv'
<1>1. CASE \E c \in Calls : BridgeHears(c)
  <2>1. PICK c \in Calls : BridgeHears(c)
    BY <1>1
  <2>2. c \in Involved
    BY <2>1 DEF Involved, BridgeHears
  <2>3. LinkTypeOK'
    BY <2>1 DEF LinkInv, LinkTypeOK, BridgeHears, Message
  <2>4. AcksAreHeard'
    BY <2>1 DEF LinkInv, AcksAreHeard, BridgeHears
  <2>5. Involved' \subseteq Involved
    BY <2>1, <2>2 DEF Involved, Waiting, BridgeHears
  <2>6. OneAtATime' /\ AnswersMatch'
    BY <2>1, <2>5 DEF LinkInv, OneAtATime, AnswersMatch, BridgeHears
  <2>7. AckMeansHeard'
    BY <2>1 DEF LinkInv, AckMeansHeard, BridgeHears
  <2> QED
    BY <2>3, <2>4, <2>6, <2>7 DEF LinkInv
<1>2. CASE \E q \in Queries : BridgeAnswers(q)
  <2>1. PICK q \in Queries : BridgeAnswers(q)
    BY <1>2
  <2>2. q \in Involved
    BY <2>1 DEF Involved, BridgeAnswers
  <2>3. LinkTypeOK'
    BY <2>1 DEF LinkInv, LinkTypeOK, BridgeAnswers, Message
  <2>4. AcksAreHeard'
    BY <2>1 DEF LinkInv, AcksAreHeard, BridgeAnswers
  <2>5. Involved' \subseteq Involved
    BY <2>1, <2>2 DEF Involved, Waiting, BridgeAnswers
  <2>6. OneAtATime' /\ AnswersMatch' /\ AckMeansHeard'
    BY <2>1, <2>5 DEF LinkInv, OneAtATime, AnswersMatch, AckMeansHeard, BridgeAnswers
  <2> QED
    BY <2>3, <2>4, <2>6 DEF LinkInv
<1> QED
  BY <1>1, <1>2

LEMMA DeliverKeeps ==
  ASSUME LinkInv, NEW m \in toHost, Deliver(m)
  PROVE  LinkInv'
<1>1. m \in Message
  BY DEF LinkInv, LinkTypeOK
<1>2. Takers(m) \subseteq Waiting /\ Waiting \subseteq Calls
  BY <1>1, TakersWait DEF Waiting
<1>3. LinkTypeOK'
  BY <1>1 DEF LinkInv, LinkTypeOK, Deliver
<1>4. AcksAreHeard'
  BY DEF LinkInv, AcksAreHeard, Deliver
<1>5. Involved' \subseteq Involved
  <2>1. Waiting' \subseteq Waiting
    BY <1>2 DEF Waiting, Deliver
  <2> QED
    BY <2>1 DEF Involved, Deliver
<1>6. OneAtATime'
  BY <1>5 DEF LinkInv, OneAtATime, Deliver
<1>7. AnswersMatch'
  <2> SUFFICES ASSUME alone', NEW q \in Queries, got'[q] # Nothing
               PROVE  got'[q].of = q
    BY DEF AnswersMatch
  <2>1. CASE q \in Takers(m)
    <3>1. q \in Involved /\ m.of \in Involved
      BY <1>2, <2>1 DEF Involved
    <3>2. m.of = q
      BY <3>1 DEF LinkInv, OneAtATime, Deliver
    <3> QED
      BY <2>1, <3>2 DEF Deliver
  <2>2. CASE q \notin Takers(m)
    BY <2>2 DEF LinkInv, AnswersMatch, Deliver
  <2> QED
    BY <2>1, <2>2
<1>8. AckMeansHeard'
  <2> SUFFICES ASSUME NEW a \in Acked, call'[a] = "done"
               PROVE  a \in heard'
    BY DEF AckMeansHeard
  <2>1. CASE a \in Takers(m)
    BY <1>1, <2>1, TakersWait DEF LinkInv, AcksAreHeard, Deliver
  <2>2. CASE a \notin Takers(m)
    BY <2>2 DEF LinkInv, AckMeansHeard, Deliver, Calls
  <2> QED
    BY <2>1, <2>2
<1> QED
  BY <1>3, <1>4, <1>6, <1>7, <1>8 DEF LinkInv

LEMMA LinkStep == LinkInv /\ [LinkNext]_linkVars => LinkInv'
<1> SUFFICES ASSUME LinkInv, [LinkNext]_linkVars PROVE LinkInv'
  OBVIOUS
<1>1. CASE \E c \in Calls : Ask(c)
  BY <1>1, AskKeeps
<1>2. CASE \E c \in Calls : SendFails(c) \/ TimesOut(c)
  BY <1>2, FailureKeeps
<1>3. CASE (\E c \in Calls : BridgeHears(c)) \/ (\E q \in Queries : BridgeAnswers(q))
  BY <1>3, BridgeKeeps
<1>4. CASE \E m \in toHost : Deliver(m)
  BY <1>4, DeliverKeeps
<1>5. CASE PushTelemetry \/ Lose
  BY <1>5, TelemetryKeeps, LoseKeeps
<1>6. CASE UNCHANGED linkVars
  BY <1>6 DEF linkVars, LinkInv, LinkTypeOK, AcksAreHeard, OneAtATime, Involved, Waiting,
              AnswersMatch, AckMeansHeard
<1> QED
  BY <1>1, <1>2, <1>3, <1>4, <1>5, <1>6 DEF LinkNext

\* For any number of queries and acknowledged frames under way, whatever is lost,
\* delayed or doubled: a query that had the socket for itself was answered with its own
\* status, and a frame reported as acknowledged was received.
THEOREM LinkTellsTheTruth == LinkSpec => []LinkIsTrue
<1>1. LinkInv => LinkIsTrue
  BY DEF LinkInv, LinkIsTrue
<1> QED
  BY <1>1, LinkStarts, LinkStep, PTL DEF LinkSpec

------------------------------------------------------------------------------
(****************************************************************************)
(* The bridge to the simulators                                             *)
(****************************************************************************)

Fields == {"x", "y", "heading", "running", "left", "right", "led"}

\* A robot of the virtual bridge, as far as the fields that it has.
IsRobot(v) == v = [k \in Fields |-> v[k]]

\* So long as no two pages were connected at once, the one that is open, or was, is
\* the only one, and the socket is its own.
OnePage ==
  ~overlapped =>
    /\ \A b, o \in Browsers : ws[b] \in {"open", "leaving"} /\ ws[o] \in {"open", "leaving"} => b = o
    /\ \A b \in Browsers : ws[b] = "open" => browserSocket = b

\* Once the stall detection has found the robot moved or at rest, it counts no period
\* in which the robot was not driven.
AgeIsDriven == rested => client /\ stallAge <= driven

\* The inductive invariant of the stand-ins.
SimInv ==
  /\ ws \in [Browsers -> {"new", "open", "leaving", "gone"}]
  /\ ctrlHeard \in [Browsers -> Int \X Int] /\ lastCtrl \in Int \X Int
  /\ stallAge \in 0 .. MaxAge /\ driven \in 0 .. MaxAge
  /\ IsRobot(virtual)
  /\ OnePage /\ StandInsObey /\ AgeIsDriven

\* The commands of the two stand-ins, for a frame that steers: the virtual robot runs
\* when the page is told to, and is the same robot after any frame.
LEMMA Applied ==
  ASSUME NEW v, IsRobot(v), NEW f \in Frames
  PROVE  /\ IsRobot(applyCommand(v, f))
         /\ Steers(f) => applyCommand(v, f).running = (bytecodeToCtrl(f) # RestCtrl)
         /\ bytecodeToCtrl(f) \in Int \X Int
<1>0. f.left \in 0 .. 255 /\ f.right \in 0 .. 255
  BY BridgeAssumption
<1>1. \A l, r \in Int : IsRobot(applyDrive(v, l, r))
  BY ZenonT(30) DEF IsRobot, applyDrive, Fields
<1>2. \A u : IsRobot(u) => IsRobot(Rolling(u, f)) /\ Rolling(u, f).running = TRUE
  BY DEF IsRobot, Rolling, Fields
<1>3. IsRobot(Home)
  BY DEF IsRobot, Home, Fields
<1>4. f.left \in Int /\ f.right \in Int /\ -f.left \in Int /\ -f.right \in Int /\ 0 \in Int
  BY <1>0
<1>5. IsRobot(applyCommand(v, f))
  <2>1. CASE f.opcode \in {"MOVE_FORWARD", "TURN_LEFT", "TURN_RIGHT"}
    BY <1>1, <1>2, <1>4, <2>1 DEF applyCommand
  <2>2. CASE f.opcode = "MOVE_BACKWARD"
    BY <1>1, <1>2, <1>4, <2>2 DEF applyCommand
  <2>3. CASE f.opcode \in {"MOVE_STEPS", "MOVE_STEPS_R"}
    <3>1. IsRobot(applyDrive(v, f.left, 0)) /\ IsRobot(applyDrive(v, 0, f.left))
      BY <1>1, <1>4
    <3>2. \A u : IsRobot(u) => IsRobot([u EXCEPT !.running = TRUE])
      BY DEF IsRobot, Fields
    <3> QED
      BY <2>3, <3>1, <3>2 DEF applyCommand
  <2>4. CASE f.opcode \in {"ROTATE_CW", "ROTATE_CCW", "STOP", "SET_SPEED", "LED_SET", "RESET"}
    BY <1>3, <2>4 DEF applyCommand, IsRobot, Fields
  <2>5. CASE f.opcode \notin {"MOVE_FORWARD", "TURN_LEFT", "TURN_RIGHT", "MOVE_BACKWARD", "MOVE_STEPS",
                              "MOVE_STEPS_R", "ROTATE_CW", "ROTATE_CCW", "STOP", "SET_SPEED", "LED_SET", "RESET"}
    BY <2>5 DEF applyCommand
  <2> QED
    BY <2>1, <2>2, <2>3, <2>4, <2>5
<1>6. ASSUME Steers(f) PROVE applyCommand(v, f).running = (bytecodeToCtrl(f) # RestCtrl)
  <2>1. CASE f.opcode = "STOP"
    BY <2>1 DEF applyCommand, bytecodeToCtrl, IsRobot, Fields
  <2>2. CASE f.opcode \in {"MOVE_FORWARD", "TURN_LEFT", "TURN_RIGHT", "MOVE_BACKWARD"}
    <3>1. applyCommand(v, f).running = TRUE
      BY <1>1, <1>2, <1>4, <2>2 DEF applyCommand
    <3>2. bytecodeToCtrl(f) # RestCtrl
      BY <1>0, <1>6, <2>2 DEF bytecodeToCtrl, RestCtrl, Steers
    <3> QED
      BY <3>1, <3>2
  <2>3. CASE f.opcode \in {"ROTATE_CW", "ROTATE_CCW"}
    <3>1. applyCommand(v, f).running = TRUE
      BY <2>3 DEF applyCommand, IsRobot, Fields
    <3>2. bytecodeToCtrl(f) # RestCtrl
      BY <1>0, <1>6, <2>3 DEF bytecodeToCtrl, RestCtrl, Steers, Either
    <3> QED
      BY <3>1, <3>2
  <2> QED
    BY <1>6, <2>1, <2>2, <2>3 DEF Steers, Motions
<1>7. bytecodeToCtrl(f) \in Int \X Int
  BY <1>0 DEF bytecodeToCtrl, RestCtrl, Either
<1> QED
  BY <1>5, <1>6, <1>7

LEMMA SimStarts == SimInit => SimInv
<1> SUFFICES ASSUME SimInit PROVE SimInv
  OBVIOUS
<1>1. IsRobot(virtual)
  BY DEF SimInit, IsRobot, Home, Fields
<1>2. OnePage /\ PageObeys
  BY DEF SimInit, OnePage, PageObeys
<1>3. StandInsAgree
  BY DEF SimInit, Home, StandInsAgree
<1>4. AgeIsDriven /\ stallAge \in 0 .. MaxAge /\ driven \in 0 .. MaxAge
  BY DEF SimInit, AgeIsDriven, MaxAge
<1>5. /\ ws \in [Browsers -> {"new", "open", "leaving", "gone"}]
      /\ ctrlHeard \in [Browsers -> Int \X Int] /\ lastCtrl \in Int \X Int
  BY DEF SimInit, RestCtrl
<1> QED
  BY <1>1, <1>2, <1>3, <1>4, <1>5 DEF SimInv, StandInsObey

\* Steps that leave the frames and the broadcast alone: a page comes, goes, or is
\* known to be gone.
LEMMA PageSteps ==
  ASSUME SimInv, NEW b \in Browsers, Connect(b) \/ Leave(b) \/ CloseReported(b)
  PROVE  SimInv'
<1>1. UNCHANGED <<goalVars, stallVars, wasStalled, boardVars>>
  BY DEF Connect, Leave, CloseReported
<1>2. ws' \in [Browsers -> {"new", "open", "leaving", "gone"}]
  BY DEF SimInv, Connect, Leave, CloseReported
<1>3. ctrlHeard' \in [Browsers -> Int \X Int]
  BY DEF SimInv, Connect, Leave, CloseReported
<1>4. OnePage'
  BY DEF SimInv, OnePage, Connect, Leave, CloseReported
<1>5. PageObeys'
  BY <1>1 DEF SimInv, OnePage, StandInsObey, PageObeys, Connect, Leave, CloseReported, boardVars
<1> QED
  BY <1>1, <1>2, <1>3, <1>4, <1>5
  DEF SimInv, StandInsObey, StandInsAgree, AgeIsDriven, stallVars, boardVars, IsRobot

LEMMA CommandKeeps == ASSUME SimInv, NEW f \in Frames, Command(f) PROVE SimInv'
<1>1. lastCtrl' \in Int \X Int /\ IsRobot(virtual') /\ client' /\ StandInsAgree'
  BY Applied DEF SimInv, Command, StandInsAgree
<1>2. UNCHANGED <<ws, browserSocket, overlapped, stallVars>>
  BY DEF Command
<1>3. ctrlHeard' \in [Browsers -> Int \X Int]
  BY <1>1 DEF SimInv, Command
<1>4. OnePage' /\ AgeIsDriven'
  BY <1>1, <1>2 DEF SimInv, OnePage, AgeIsDriven, stallVars
<1>5. PageObeys'
  BY <1>2 DEF SimInv, OnePage, PageObeys, Command
<1> QED
  BY <1>1, <1>2, <1>3, <1>4, <1>5 DEF SimInv, StandInsObey, stallVars

LEMMA BroadcastKeeps ==
  ASSUME SimInv, Broadcast
  PROVE  SimInv' /\ (~stall /\ stall' /\ rested => driven' >= Late)
<1>1. UNCHANGED <<pageVars, goalVars, boardVars>>
  BY DEF Broadcast
<1>2. /\ Grown(stallAge) \in 0 .. MaxAge /\ driven' \in 0 .. MaxAge
      /\ stallAge <= driven => Grown(stallAge) <= Grown(driven)
      /\ lastCtrl # RestCtrl => driven' = Grown(driven)
  BY DEF Broadcast, SimInv, Grown, MaxAge
<1>3. CASE ~client
  BY <1>1, <1>2, <1>3 DEF Broadcast, SimInv, AgeIsDriven, OnePage, StandInsObey, PageObeys, StandInsAgree,
                          pageVars, boardVars, IsRobot
<1>4. ASSUME client, NEW jitter \in BOOLEAN, DetectStall(Grown(stallAge), jitter)
      PROVE  /\ stallAge' \in 0 .. MaxAge /\ AgeIsDriven'
             /\ ~stall /\ stall' /\ rested => driven' >= Late
  <2>1. CASE pose # stallPose
    BY <1>1, <1>2, <1>4, <2>1 DEF DetectStall, AgeIsDriven, boardVars, MaxAge
  <2>2. CASE pose = stallPose /\ lastCtrl = RestCtrl
    BY <1>1, <1>2, <1>4, <2>2 DEF DetectStall, AgeIsDriven, boardVars, MaxAge
  <2>3. CASE pose = stallPose /\ lastCtrl # RestCtrl
    <3>1. stallAge' = Grown(stallAge) /\ (rested' => rested) /\ client'
      BY <1>1, <1>4, <2>3, Zenon DEF DetectStall, boardVars
    <3>2. stall' => stall \/ Grown(stallAge) > Late \/ Grown(stallAge) = Late
      BY <1>4, <2>3, Zenon DEF DetectStall
    <3> QED
      BY <1>2, <2>3, <3>1, <3>2 DEF SimInv, AgeIsDriven, MaxAge, Late
  <2> QED
    BY <2>1, <2>2, <2>3
<1>5. CASE client
  BY <1>1, <1>2, <1>4, <1>5 DEF Broadcast, SimInv, OnePage, StandInsObey, PageObeys, StandInsAgree,
                          pageVars, boardVars, IsRobot
<1> QED
  BY <1>3, <1>5

LEMMA SimStep ==
  SimInv /\ [SimNext]_simVars => SimInv' /\ [~stall /\ stall' /\ rested => driven' >= Late]_simVars
<1> SUFFICES ASSUME SimInv, [SimNext]_simVars
             PROVE  SimInv' /\ [~stall /\ stall' /\ rested => driven' >= Late]_simVars
  OBVIOUS
<1>1. ASSUME NEW b \in Browsers, Connect(b) \/ Leave(b) \/ CloseReported(b) PROVE SimInv' /\ stall' = stall
  BY <1>1, PageSteps DEF Connect, Leave, CloseReported, stallVars
<1>2. ASSUME NEW f \in Frames, Command(f) PROVE SimInv' /\ stall' = stall
  BY <1>2, CommandKeeps DEF Command, stallVars

\* A pose, or a query, touches nothing that is said here.
<1>3. ASSUME UNCHANGED <<pageVars, stallVars, lastCtrl, virtual, steered>>, client' \in {client, TRUE}
      PROVE  SimInv' /\ stall' = stall
  BY <1>3 DEF SimInv, OnePage, StandInsObey, PageObeys, StandInsAgree, AgeIsDriven, pageVars, stallVars, IsRobot
<1>4. ASSUME NEW f \in Frames, Query(f) PROVE SimInv' /\ stall' = stall
  BY <1>3, <1>4 DEF Query
<1>5. ASSUME NEW b \in Browsers, NEW p \in Places, Pose(b, p) PROVE SimInv' /\ stall' = stall
  BY <1>3, <1>5 DEF Pose, boardVars
<1>6. CASE UNCHANGED simVars
  BY <1>3, <1>6 DEF simVars, pageVars, stallVars
<1> QED
  BY <1>1, <1>2, <1>4, <1>5, <1>6, BroadcastKeeps DEF SimNext

\* Pages come and go while commands are sent: the page that is alone obeys the last
\* one, and the virtual robot runs when the page would.
THEOREM StandInsDoObey == SimSpec => []StandInsObey
<1>1. SimInv => StandInsObey
  BY DEF SimInv
<1> QED
  BY <1>1, SimStarts, SimStep, PTL DEF SimSpec

\* What the stand-ins show is true of the robot: they obey after every step, and no
\* broadcast calls a rested robot stalled that it has not watched being driven for two
\* broadcasts, whatever was commanded between them.
THEOREM StandInsAreTruthful == SimSpec => StandInsAreTrue
<1>1. SimInv' => StandInsObey'
  BY DEF SimInv
<1> QED
  BY <1>1, SimStarts, SimStep, PTL DEF SimSpec, StandInsAreTrue, StallIsEarned

------------------------------------------------------------------------------
(****************************************************************************)
(* The egocentric loop                                                      *)
(****************************************************************************)

\* The slow loop's view is that of its last answer, and the fast loop counts every tick
\* without a target that nobody was told of.
EgoInv ==
  /\ found \in Seq(Finds) /\ lastPerception = convertToEgoPerception(found)
  /\ searchTicks \in Nat /\ lostFor \in Nat
  /\ lostFor <= searchTicks /\ searchTicks < EgoStuckTicks

\* The first find that is marked is the target; the others are obstacles, further finds
\* of the target too.
LEMMA Converted ==
  ASSUME NEW finds \in Seq(Finds), NEW t \in convertToEgoPerception(finds).target
  PROVE  \E i \in DOMAIN finds :
           /\ finds[i] = t /\ finds[i].is_target
           /\ \A j \in DOMAIN finds : j # i => finds[j] \in convertToEgoPerception(finds).obstacles
<1> DEFINE marked == {i \in DOMAIN finds : finds[i].is_target}
           first == {i \in marked : \A j \in marked : i <= j}
<1>1. PICK i \in first : t = finds[i]
  BY DEF convertToEgoPerception
<1>2. \A j \in first : j = i
  <2>1. marked \subseteq Nat
    OBVIOUS
  <2> QED
    BY <2>1
<1>3. \A j \in DOMAIN finds : j # i => j \in DOMAIN finds \ first
  BY <1>2
<1>4. i \in marked
  OBVIOUS
<1> QED
  BY <1>1, <1>3, <1>4 DEF convertToEgoPerception

\* What EgocentricController decides: it searches when it has no target, and moves
\* forward only when the one it has is ahead.
LEMMA Decided ==
  ASSUME NEW p
  PROVE  /\ egoDecide(p) = "search" <=> p.target = {}
         /\ (\A f \in p.target : Centre(f) \in Int) /\ egoDecide(p) = "move_forward" =>
              \E t \in p.target : Centre(t) \in -3 .. 3 /\ p.target # {}
<1>1. CASE p.target = {}
  BY <1>1 DEF egoDecide
<1>2. CASE p.target # {}
  <2> DEFINE t == CHOOSE f \in p.target : TRUE
  <2>1. t \in p.target
    BY <1>2
  <2>2. egoDecide(p) = CASE Size(t) >= 25 /\ Low(t) >= 16 -> "arrived"
                         [] 5 * Centre(t) < -17 -> "turn_left"
                         [] 5 * Centre(t) > 17 -> "turn_right"
                         [] OTHER -> "move_forward"
    BY <1>2 DEF egoDecide
  <2> HIDE DEF t
  <2>3. egoDecide(p) # "search"
    BY <2>2
  <2>4. egoDecide(p) = "move_forward" => ~(5 * Centre(t) < -17) /\ ~(5 * Centre(t) > 17)
    BY <2>2
  <2>5. Centre(t) \in Int /\ egoDecide(p) = "move_forward" => Centre(t) \in -3 .. 3
    BY <2>4
  <2> QED
    BY <1>2, <2>1, <2>3, <2>5
<1> QED
  BY <1>1, <1>2

LEMMA EgoTickKeeps ==
  ASSUME EgoInv, EgoTick
  PROVE  EgoInv'
<1>1. UNCHANGED <<found, lastPerception>> /\ Follow(egoDecide(lastPerception))
  BY DEF EgoTick
<1> DEFINE action == egoDecide(lastPerception)
           searches == IF action = "search" THEN searchTicks + 1 ELSE 0
<1>2. action = "search" <=> lastPerception.target = {}
  BY Decided
<1>3. searches \in Nat /\ (lastPerception.target = {} => searches = searchTicks + 1)
  BY <1>2 DEF EgoInv
<1>4. /\ searchTicks' = CASE action = "arrived" -> searchTicks
                         [] searches >= EgoStuckTicks -> 0
                         [] OTHER -> searches
      /\ lostFor' = IF lastPerception.target # {} \/ searches >= EgoStuckTicks THEN 0
                    ELSE lostFor + 1
  BY <1>1 DEF Follow
<1>5. action = "arrived" => lastPerception.target # {}
  BY <1>2
<1> HIDE DEF action, searches
<1> QED
  BY <1>1, <1>3, <1>4, <1>5, EgoAssumption DEF EgoInv

LEMMA TickSees ==
  ASSUME EgoInv, EgoTick, egoMotor' = "move_forward"
  PROVE  \E i \in DOMAIN found :
           /\ found[i].is_target /\ Centre(found[i]) \in -3 .. 3
           /\ \A j \in DOMAIN found : j # i => ~Blocks(found[j])
<1> DEFINE p == lastPerception
<1>1. /\ egoDecide(p) = "move_forward"
      /\ ~\E f \in p.obstacles : Blocks(f)
  BY DEF EgoTick
<1>2. \A f \in p.target : Centre(f) \in Int
  <2> SUFFICES ASSUME NEW f \in p.target PROVE Centre(f) \in Int
    OBVIOUS
  <2>1. PICK i \in DOMAIN found : found[i] = f
    BY Converted DEF EgoInv
  <2>2. f \in Finds
    BY <2>1 DEF EgoInv
  <2> QED
    BY <2>2, EgoAssumption DEF Centre
<1>3. PICK t \in p.target : Centre(t) \in -3 .. 3
  BY <1>1, <1>2, Decided
<1>4. PICK i \in DOMAIN found : /\ found[i] = t /\ found[i].is_target
                                /\ \A j \in DOMAIN found : j # i => found[j] \in p.obstacles
  BY <1>3, Converted DEF EgoInv
<1> QED
  BY <1>1, <1>3, <1>4

LEMMA EgoStarts == EgoInit => EgoInv
<1>1. <<>> \in Seq(Finds) /\ DOMAIN <<>> = {}
  OBVIOUS
<1>2. convertToEgoPerception(<<>>) = [target |-> {}, obstacles |-> {}]
  <2> DEFINE marked == {i \in DOMAIN <<>> : <<>>[i].is_target}
             first == {i \in marked : \A j \in marked : i <= j}
  <2>1. first = {} /\ DOMAIN <<>> \ first = {}
    BY <1>1
  <2>2. {<<>>[i] : i \in first} = {} /\ {<<>>[i] : i \in DOMAIN <<>> \ first} = {}
    BY <2>1
  <2> QED
    BY <2>2, Zenon DEF convertToEgoPerception
<1> QED
  BY <1>1, <1>2, EgoAssumption DEF EgoInit, EgoInv

LEMMA EgoStep ==
  EgoInv /\ [EgoNext]_egoVars => EgoInv'
<1> SUFFICES ASSUME EgoInv, [EgoNext]_egoVars PROVE EgoInv'
  OBVIOUS
<1>1. CASE EgoStart
  BY <1>1, EgoAssumption DEF EgoStart, EgoInv
<1>2. CASE EgoStop \/ EgoPerceive \/ UNCHANGED egoVars
  BY <1>2 DEF EgoStop, EgoPerceive, egoVars, EgoInv
<1>3. CASE EgoAnswer
  <2>1. \A S : SeqOf(S, FindsMax) \subseteq Seq(S)
    BY EgoAssumption DEF SeqOf
  <2>2. found' \in Seq(Finds) /\ lastPerception' = convertToEgoPerception(found')
    BY <1>3, <2>1 DEF EgoAnswer, EgoInv
  <2> QED
    BY <1>3, <2>2 DEF EgoAnswer, EgoInv
<1> QED
  BY <1>1, <1>2, <1>3, EgoTickKeeps DEF EgoNext

\* The egocentric loops: between the answers of the slow loop and the ticks of the fast
\* one, forward is sent only on a view that shows the way clear, and a loss is told.
THEOREM EgoDoesActOnSight == EgoSpec => EgoActsOnSight
<1>1. EgoInv => LostIsTold
  BY EgoAssumption DEF EgoInv, LostIsTold
<1>2. EgoInv /\ [EgoNext]_egoVars =>
        [EgoTick /\ egoMotor' = "move_forward" =>
           \E i \in DOMAIN found :
             /\ found[i].is_target /\ Centre(found[i]) \in -3 .. 3
             /\ \A j \in DOMAIN found : j # i => ~Blocks(found[j])]_egoVars
  BY TickSees
<1> QED
  BY <1>1, <1>2, EgoStarts, EgoStep, PTL DEF EgoSpec, EgoActsOnSight, AdvanceIsSeen

------------------------------------------------------------------------------
(****************************************************************************)
(* The two loops of the classic controller                                  *)
(****************************************************************************)

\* The ranges of the variables of the overhead loops.
Ops == {"stop", "no_target", "arrived", "rotate_ccw", "rotate_cw", "forward"}
Commands == [op : Ops, speed : 0 .. Cruise]
Views == [pose : Nodes, lag : 0 .. LagMax, turned : BOOLEAN]
Motors == [cmd : Commands, lag : 0 .. LagMax, turned : BOOLEAN, checked : SUBSET Things]

\* A fresh view, with no turn since, is of a place behind the robot, no further than a
\* cruise of its age.
Reached(s, there) ==
  ~s.turned /\ s.lag <= Fresh => \E n \in 0 .. s.lag * Cruise : there = Step(s.pose, n)

\* What the robot executes was decided on such a place, and the sweep from there was clear
\* of all that was known.
Cleared(m, there) ==
  m.cmd.op = "forward" =>
    /\ m.cmd.speed \in {Approach, Cruise}
    /\ ~m.turned /\ m.lag <= Fresh =>
         \E P \in Nodes : \E n \in 0 .. m.lag * Cruise :
           /\ there = Step(P, n)
           /\ \A t \in m.checked : ~aabbIntersect(ForwardSweptAABB(P, Sweep(m.cmd)), WorldAABB(Where[t]))

ControlTypeOK ==
  /\ truth \in Nodes /\ believed \in Views /\ motor \in Motors
  /\ known \subseteq Things /\ wanted \in Goals /\ goal \in Goals \cup {NoGoal}
  /\ asked \in Seq(Views) /\ Len(asked) <= 1

\* The inference in flight began on a frame no older than the last answer's.
AskedLately == \A i \in DOMAIN asked : asked[i].lag <= believed.lag /\ Reached(asked[i], truth)

\* A goal that an answer resolved is one that every later answer resolves to itself.
GoalIsSettled == answered => goal = wanted /\ wanted \in Points \cup known

\* The inductive invariant of the overhead loops.
ControlInv ==
  /\ ControlTypeOK /\ AskedLately /\ GoalIsSettled
  /\ Reached(believed, truth) /\ Cleared(motor, truth)

-----------------------------------------------------------------------------
(* Geometry *)

LEMMA FreshIs == Fresh \in Nat /\ Fresh * Cruise <= Approach * WindowTicks + Margin
<1>1. ASSUME NEW a \in Nat, NEW b \in Nat, b > 0 PROVE (a \div b) * b <= a /\ a \div b \in Nat
  BY ONLY <1>1, SMTT(60)
<1> DEFINE far == Approach * WindowTicks + Margin
<1>2. far \in Nat
  BY ControlAssumption
<1>3. Cruise \in Nat /\ Cruise > 0
  BY ControlAssumption
<1> HIDE DEF far
<1>4. (far \div Cruise) * Cruise <= far /\ far \div Cruise \in Nat
  BY <1>1, <1>2, <1>3
<1> QED
  BY <1>4 DEF Fresh, far

LEMMA Directions ==
  /\ Along[0] = 1 /\ Along[1] = 0 /\ Along[2] = -1 /\ Along[3] = 0
  /\ Across[0] = 0 /\ Across[1] = 1 /\ Across[2] = 0 /\ Across[3] = -1
BY DEF Along, Across

LEMMA Steps ==
  ASSUME NEW P \in Nodes, NEW n \in Nat
  PROVE  /\ Step(P, n) \in Nodes
         /\ Step(P, n).x = P.x + Along[P.heading] * n /\ Step(P, n).y = P.y + Across[P.heading] * n
         /\ Step(P, n).w = P.w /\ Step(P, n).h = P.h /\ Step(P, n).heading = P.heading
<1>1. P.heading \in {0, 1, 2, 3}
  BY DEF Nodes
<1> DEFINE dx == Along[P.heading] * n
           dy == Across[P.heading] * n
<1>2. dx \in Int /\ dy \in Int
  BY <1>1, Directions
<1>3. Step(P, n) = [P EXCEPT !.x = P.x + dx, !.y = P.y + dy]
  BY DEF Step
<1> HIDE DEF dx, dy
<1>4. Step(P, n) = [x |-> P.x + dx, y |-> P.y + dy, w |-> P.w, h |-> P.h, heading |-> P.heading]
  BY <1>3 DEF Nodes
<1>5. P.x + dx \in Int /\ P.y + dy \in Int
  BY <1>2 DEF Nodes
<1> QED
  BY <1>4, <1>5 DEF Nodes, dx, dy

LEMMA StepsAdd ==
  ASSUME NEW P \in Nodes, NEW n \in Nat, NEW k \in Nat
  PROVE  Step(Step(P, n), k) = Step(P, n + k) /\ Step(P, 0) = P
<1>1. P.heading \in {0, 1, 2, 3}
  BY DEF Nodes
<1>2. /\ P.x + Along[P.heading] * n + Along[P.heading] * k = P.x + Along[P.heading] * (n + k)
      /\ P.y + Across[P.heading] * n + Across[P.heading] * k = P.y + Across[P.heading] * (n + k)
      /\ P.x + Along[P.heading] * 0 = P.x /\ P.y + Across[P.heading] * 0 = P.y
  <2>1. P.x \in Int /\ P.y \in Int /\ n \in Int /\ k \in Int
    BY DEF Nodes
  <2>2. \A a, x \in Int : a \in {-1, 0, 1} => x + a * n + a * k = x + a * (n + k) /\ x + a * 0 = x
    BY <2>1
  <2>3. Along[P.heading] \in {-1, 0, 1} /\ Across[P.heading] \in {-1, 0, 1}
    BY <1>1, Directions
  <2> QED
    BY <2>1, <2>2, <2>3
<1>3. \A Q, R \in Nodes : Q.x = R.x /\ Q.y = R.y /\ Q.w = R.w /\ Q.h = R.h /\ Q.heading = R.heading => Q = R
  BY DEF Nodes
<1>4. Step(P, n) \in Nodes /\ Step(Step(P, n), k) \in Nodes /\ Step(P, n + k) \in Nodes /\ Step(P, 0) \in Nodes
  <2>1. n + k \in Nat /\ 0 \in Nat
    OBVIOUS
  <2>2. Step(P, n) \in Nodes /\ Step(P, n + k) \in Nodes /\ Step(P, 0) \in Nodes
    BY <2>1, Steps, Zenon
  <2> QED
    BY <2>2, Steps, Zenon
<1>5. /\ Step(P, n).x = P.x + Along[P.heading] * n /\ Step(P, n).y = P.y + Across[P.heading] * n
      /\ Step(P, n).w = P.w /\ Step(P, n).h = P.h /\ Step(P, n).heading = P.heading
  BY Steps
<1>6. /\ Step(P, n + k).x = P.x + Along[P.heading] * (n + k) /\ Step(P, n + k).y = P.y + Across[P.heading] * (n + k)
      /\ Step(P, n + k).w = P.w /\ Step(P, n + k).h = P.h /\ Step(P, n + k).heading = P.heading
  BY Steps
<1>7. /\ Step(Step(P, n), k).x = P.x + Along[P.heading] * n + Along[P.heading] * k
      /\ Step(Step(P, n), k).y = P.y + Across[P.heading] * n + Across[P.heading] * k
      /\ Step(Step(P, n), k).w = P.w /\ Step(Step(P, n), k).h = P.h /\ Step(Step(P, n), k).heading = P.heading
  <2> DEFINE R == Step(P, n)
  <2>1. R \in Nodes
    BY <1>4
  <2> HIDE DEF R
  <2>2. /\ Step(R, k).x = R.x + Along[R.heading] * k /\ Step(R, k).y = R.y + Across[R.heading] * k
        /\ Step(R, k).w = R.w /\ Step(R, k).h = R.h /\ Step(R, k).heading = R.heading
    BY <2>1, Steps
  <2> QED
    BY <1>5, <2>2 DEF R
<1>8. /\ Step(P, 0).x = P.x + Along[P.heading] * 0 /\ Step(P, 0).y = P.y + Across[P.heading] * 0
      /\ Step(P, 0).w = P.w /\ Step(P, 0).h = P.h /\ Step(P, 0).heading = P.heading
  BY Steps
<1> QED
  BY <1>2, <1>3, <1>4, <1>6, <1>7, <1>8

\* A box that moves ahead stays within its sweep: what the sweep clears, it does not touch.
LEMMA SweepCovers ==
  ASSUME NEW P \in Nodes, NEW d \in Nat, NEW k \in 0 .. d, NEW Q \in Nodes,
         aabbIntersect(WorldAABB(Step(P, k)), WorldAABB(Q))
  PROVE  aabbIntersect(ForwardSweptAABB(P, d), WorldAABB(Q))
<1> DEFINE R == Step(P, k)
<1>1. /\ R \in Nodes /\ R.x = P.x + Along[P.heading] * k /\ R.y = P.y + Across[P.heading] * k
      /\ R.w = P.w /\ R.h = P.h /\ R.heading = P.heading
  BY Steps
<1>2. WorldAABB(Q) \in [left : Int, right : Int, top : Int, bottom : Int]
  BY DEF WorldAABB, Nodes
<1>3. P.heading \in {0, 1, 2, 3}
  BY DEF Nodes
<1> HIDE DEF R
<1>4. /\ WorldAABB(R).left >= ForwardSweptAABB(P, d).left /\ WorldAABB(R).right <= ForwardSweptAABB(P, d).right
      /\ WorldAABB(R).top >= ForwardSweptAABB(P, d).top /\ WorldAABB(R).bottom <= ForwardSweptAABB(P, d).bottom
  <2>1. CASE P.heading = 0
    BY <1>1, <2>1, Directions DEF WorldAABB, ForwardSweptAABB, Least, Greatest, Nodes
  <2>2. CASE P.heading = 1
    BY <1>1, <2>2, Directions DEF WorldAABB, ForwardSweptAABB, Least, Greatest, Nodes
  <2>3. CASE P.heading = 2
    BY <1>1, <2>3, Directions DEF WorldAABB, ForwardSweptAABB, Least, Greatest, Nodes
  <2>4. CASE P.heading = 3
    BY <1>1, <2>4, Directions DEF WorldAABB, ForwardSweptAABB, Least, Greatest, Nodes
  <2> QED
    BY <1>3, <2>1, <2>2, <2>3, <2>4
<1>5. /\ WorldAABB(R) \in [left : Int, right : Int, top : Int, bottom : Int]
      /\ ForwardSweptAABB(P, d) \in [left : Int, right : Int, top : Int, bottom : Int]
  <2>1. Along[P.heading] \in Int /\ Across[P.heading] \in Int
    BY <1>3, Directions
  <2>2. WorldAABB(R) \in [left : Int, right : Int, top : Int, bottom : Int]
    BY <1>1 DEF WorldAABB, Nodes
  <2>3. WorldAABB(P) \in [left : Int, right : Int, top : Int, bottom : Int]
    BY DEF WorldAABB, Nodes
  <2>4. Along[P.heading] * d \in Int /\ Across[P.heading] * d \in Int
    BY <2>1
  <2> QED
    BY <2>2, <2>3, <2>4 DEF ForwardSweptAABB, Least, Greatest
<1> QED
  BY <1>2, <1>4, <1>5 DEF aabbIntersect, R

-----------------------------------------------------------------------------
(* Between two ticks *)

LEMMA LagMaxIs == LagMax \in Nat /\ Fresh < LagMax /\ \A l \in 0 .. LagMax : l < Fresh => l + 1 < LagMax
BY FreshIs DEF LagMax

\* What a tick makes of a view, or of the command being executed.
LEMMA Ages ==
  ASSUME NEW s, NEW turn \in BOOLEAN, s \in Views \/ s \in Motors
  PROVE  /\ s \in Views => Aged(s, turn) \in Views /\ Aged(s, turn).pose = s.pose
         /\ s \in Motors => /\ Aged(s, turn) \in Motors
                            /\ Aged(s, turn).cmd = s.cmd /\ Aged(s, turn).checked = s.checked
         /\ Aged(s, turn).lag \in Nat /\ s.lag \in Nat /\ Aged(s, turn).lag <= s.lag + 1
         /\ Aged(s, turn).lag <= Fresh => Aged(s, turn).lag = s.lag + 1
         /\ Aged(s, turn).turned <=> s.turned \/ turn
<1>1. s.lag \in 0 .. LagMax /\ s.turned \in BOOLEAN
  BY Zenon DEF Views, Motors
<1> DEFINE older == Least(s.lag + 1, LagMax)
<1>2. /\ older \in 0 .. LagMax /\ older <= s.lag + 1 /\ s.lag \in Nat
      /\ older <= Fresh => older = s.lag + 1
  BY <1>1, LagMaxIs, FreshIs DEF Least
<1> HIDE DEF older
<1>3. Aged(s, turn) = [s EXCEPT !.lag = older, !.turned = s.turned \/ turn]
  BY DEF Aged, older
<1>4. s.turned \/ turn \in BOOLEAN
  OBVIOUS
<1>5. CASE s \in Views
  <2>1. Aged(s, turn) = [pose |-> s.pose, lag |-> older, turned |-> s.turned \/ turn]
    BY <1>3, <1>5 DEF Views
  <2>2. s \in Motors => FALSE
    BY <1>5 DEF Views, Motors
  <2> QED
    BY <1>2, <1>4, <1>5, <2>1, <2>2 DEF Views
<1>6. CASE s \in Motors
  <2>1. Aged(s, turn) = [cmd |-> s.cmd, lag |-> older, turned |-> s.turned \/ turn, checked |-> s.checked]
    BY <1>3, <1>6 DEF Motors
  <2>2. s \in Views => FALSE
    BY <1>6 DEF Views, Motors
  <2> QED
    BY <1>2, <1>4, <1>6, <2>1, <2>2 DEF Motors
<1> QED
  BY <1>5, <1>6

\* The robot gets ahead by the cruise there most, turns, or stays.
LEMMA Moves ==
  ASSUME truth \in Nodes, NEW cmd \in Commands, NEW p \in Moved(cmd)
  PROVE  /\ p \in Nodes
         /\ p.heading = truth.heading =>
              \E k \in 0 .. cmd.speed : p = Step(truth, k) /\ (cmd.op # "forward" => p = truth)
<1>0. cmd.speed \in Nat /\ 0 \in 0 .. cmd.speed
  BY ControlAssumption DEF Commands
<1>1. CASE cmd.op = "forward"
  <2>1. PICK k \in 0 .. cmd.speed : p = Step(truth, k)
    BY <1>1 DEF Moved
  <2> QED
    BY <1>0, <1>1, <2>1, Steps
<1>2. CASE cmd.op \in {"rotate_ccw", "rotate_cw"}
  <2>1. PICK turn \in {1, 3} : p \in {truth, [truth EXCEPT !.heading = (truth.heading + turn) % 4]}
    BY <1>2 DEF Moved
  <2>2. CASE p = truth
    BY <1>0, <2>2, StepsAdd
  <2>3. CASE p = [truth EXCEPT !.heading = (truth.heading + turn) % 4]
    <3>1. truth.heading \in 0 .. 3
      BY DEF Nodes
    <3>2. (truth.heading + turn) % 4 \in 0 .. 3 /\ (truth.heading + turn) % 4 # truth.heading
      BY <3>1, SMT
    <3>3. p.heading = (truth.heading + turn) % 4 /\ p \in Nodes
      BY <2>3, <3>2 DEF Nodes
    <3> QED
      BY <3>2, <3>3
  <2> QED
    BY <2>1, <2>2, <2>3
<1>3. CASE cmd.op \notin {"forward", "rotate_ccw", "rotate_cw"}
  <2>1. p = truth
    BY <1>3 DEF Moved
  <2> QED
    BY <1>0, <2>1, StepsAdd
<1> QED
  BY <1>1, <1>2, <1>3

\* What is said of a place behind the robot is said of it still after the step, one tick
\* older.
LEMMA StaysReached ==
  ASSUME NEW P \in Nodes, NEW l \in Nat, NEW n \in 0 .. l * Cruise, NEW k \in 0 .. Cruise,
         NEW q, q = Step(Step(P, n), k)
  PROVE  \E i \in 0 .. (l + 1) * Cruise : q = Step(P, i)
<1>1. n \in Nat /\ k \in Nat /\ n + k \in 0 .. (l + 1) * Cruise
  <2>1. Cruise \in Nat
    BY ControlAssumption
  <2>2. l * Cruise \in Nat /\ (l + 1) * Cruise = l * Cruise + Cruise
    BY <2>1
  <2> QED
    BY <2>1, <2>2
<1>2. q = Step(P, n + k)
  BY <1>1, StepsAdd, Zenon
<1> QED
  BY <1>1, <1>2

LEMMA ViewAges ==
  ASSUME truth \in Nodes, NEW s \in Views, Reached(s, truth), NEW cmd \in Commands, NEW p \in Moved(cmd)
  PROVE  LET turn == p.heading # truth.heading
         IN Aged(s, turn) \in Views /\ Reached(Aged(s, turn), p)
<1> DEFINE turn == p.heading # truth.heading
           t == Aged(s, turn)
<1>1. /\ t \in Views /\ t.pose = s.pose /\ (t.lag <= Fresh => t.lag = s.lag + 1)
      /\ s.lag \in Nat /\ (t.turned <=> s.turned \/ turn)
  BY Ages
<1>2. ASSUME ~t.turned, t.lag <= Fresh PROVE \E i \in 0 .. t.lag * Cruise : p = Step(t.pose, i)
  <2>1. ~s.turned /\ ~turn /\ s.lag <= Fresh /\ t.lag = s.lag + 1
    BY <1>1, <1>2, FreshIs
  <2>2. PICK n \in 0 .. s.lag * Cruise : truth = Step(s.pose, n)
    BY <2>1 DEF Reached
  <2>3. PICK k \in 0 .. cmd.speed : p = Step(truth, k)
    BY <2>1, Moves
  <2>4. k \in 0 .. Cruise /\ s.pose \in Nodes
    BY ControlAssumption DEF Commands, Views
  <2>5. p = Step(Step(s.pose, n), k)
    BY <2>2, <2>3, Zenon
  <2>6. \E i \in 0 .. (s.lag + 1) * Cruise : p = Step(s.pose, i)
    BY <1>1, <2>4, <2>5, StaysReached
  <2> QED
    BY <1>1, <2>1, <2>6
<1> HIDE DEF t, turn
<1>3. Reached(t, p)
  BY <1>2 DEF Reached
<1> QED
  BY <1>1, <1>3 DEF t, turn

LEMMA SweepIsFar ==
  ASSUME NEW cmd \in Commands, cmd.speed \in {Approach, Cruise}
  PROVE  Sweep(cmd) \in Nat /\ Fresh * Cruise <= Sweep(cmd)
<1>1. Sweep(cmd) = cmd.speed * WindowTicks + Margin
  BY DEF Sweep
<1>2. /\ Approach \in Nat /\ Cruise \in Nat /\ Approach <= Cruise /\ WindowTicks \in Nat /\ Margin \in Nat
      /\ Fresh \in Nat
  BY ControlAssumption, FreshIs
<1>3. Approach * WindowTicks <= Cruise * WindowTicks /\ Approach * WindowTicks \in Nat /\ Cruise * WindowTicks \in Nat
  BY <1>2
<1>4. Fresh * Cruise <= Approach * WindowTicks + Margin /\ Fresh * Cruise \in Int
  BY <1>2, FreshIs
<1> QED
  BY <1>1, <1>2, <1>3, <1>4

\* Where it was clear, the robot touches nothing it knew of.
LEMMA ClearedIsClear ==
  ASSUME NEW m \in Motors, NEW there \in Nodes, Cleared(m, there), m.cmd.op = "forward", ~m.turned, m.lag <= Fresh,
         NEW t \in m.checked
  PROVE  ~aabbIntersect(WorldAABB(there), WorldAABB(Where[t]))
<1>1. m.cmd.speed \in {Approach, Cruise}
  BY DEF Cleared
<1>2. PICK P \in Nodes, n \in 0 .. m.lag * Cruise :
        /\ there = Step(P, n)
        /\ ~aabbIntersect(ForwardSweptAABB(P, Sweep(m.cmd)), WorldAABB(Where[t]))
  BY DEF Cleared
<1>3. n \in 0 .. Sweep(m.cmd) /\ Sweep(m.cmd) \in Nat
  <2>1. m.cmd \in Commands /\ m.lag \in Nat /\ Cruise \in Nat /\ Fresh \in Nat
    BY ControlAssumption, FreshIs DEF Motors
  <2>2. m.lag * Cruise <= Fresh * Cruise /\ m.lag * Cruise \in Nat /\ Fresh * Cruise \in Nat
    BY <2>1
  <2>3. Sweep(m.cmd) \in Nat /\ Fresh * Cruise <= Sweep(m.cmd)
    BY <1>1, <2>1, SweepIsFar
  <2> QED
    BY <2>2, <2>3
<1>4. Where[t] \in Nodes
  BY ControlAssumption DEF Motors, Goals
<1> QED
  BY <1>2, <1>3, <1>4, SweepCovers, Zenon

LEMMA MotorAges ==
  ASSUME truth \in Nodes, NEW m \in Motors, Cleared(m, truth), NEW p \in Moved(m.cmd)
  PROVE  LET turn == p.heading # truth.heading
         IN Aged(m, turn) \in Motors /\ Cleared(Aged(m, turn), p)
<1> DEFINE turn == p.heading # truth.heading
           w == Aged(m, turn)
<1>1. /\ w \in Motors /\ w.cmd = m.cmd /\ w.checked = m.checked
      /\ w.lag <= Fresh => w.lag = m.lag + 1
      /\ m.lag \in Nat /\ (w.turned <=> m.turned \/ turn)
  BY Ages
<1>2. ASSUME w.cmd.op = "forward"
      PROVE  /\ w.cmd.speed \in {Approach, Cruise}
             /\ ~w.turned /\ w.lag <= Fresh =>
                  \E P \in Nodes : \E n \in 0 .. w.lag * Cruise :
                    /\ p = Step(P, n)
                    /\ \A t \in w.checked : ~aabbIntersect(ForwardSweptAABB(P, Sweep(w.cmd)), WorldAABB(Where[t]))
  <2>1. w.cmd.speed \in {Approach, Cruise}
    BY <1>1, <1>2 DEF Cleared
  <2>2. ASSUME ~w.turned, w.lag <= Fresh
        PROVE  \E P \in Nodes : \E n \in 0 .. w.lag * Cruise :
                 /\ p = Step(P, n)
                 /\ \A t \in w.checked : ~aabbIntersect(ForwardSweptAABB(P, Sweep(w.cmd)), WorldAABB(Where[t]))
    <3>1. ~m.turned /\ ~turn /\ m.lag <= Fresh /\ w.lag = m.lag + 1
      BY <1>1, <2>2, FreshIs
    <3>2. PICK P \in Nodes, n \in 0 .. m.lag * Cruise :
            /\ truth = Step(P, n)
            /\ \A t \in m.checked : ~aabbIntersect(ForwardSweptAABB(P, Sweep(m.cmd)), WorldAABB(Where[t]))
      BY <1>1, <1>2, <3>1 DEF Cleared
    <3>3. m.cmd \in Commands
      BY DEF Motors
    <3>4. PICK k \in 0 .. m.cmd.speed : p = Step(truth, k)
      BY <3>1, <3>3, Moves
    <3>5. k \in 0 .. Cruise
      BY <3>3, ControlAssumption DEF Commands
    <3>6. p = Step(Step(P, n), k)
      BY <3>2, <3>4, Zenon
    <3>7. PICK i \in 0 .. (m.lag + 1) * Cruise : p = Step(P, i)
      BY <1>1, <3>5, <3>6, StaysReached
    <3> QED
      BY <1>1, <3>1, <3>2, <3>7, Zenon
  <2> QED
    BY <2>1, <2>2
<1> HIDE DEF w, turn
<1>3. Cleared(w, p)
  BY <1>2 DEF Cleared
<1> QED
  BY <1>1, <1>3 DEF w, turn

\* Time passes with a command that was cleared where the robot is: everything gets
\* older together, and what the robot comes to touch it was not told of in time.
LEMMA ElapseKeeps ==
  ASSUME ControlTypeOK, AskedLately, Reached(believed, truth), NEW m \in Motors, Cleared(m, truth), Elapse(m)
  PROVE  /\ truth' \in Nodes /\ believed' \in Views /\ motor' \in Motors
         /\ asked' \in Seq(Views) /\ Len(asked') <= 1
         /\ AskedLately' /\ Reached(believed', truth') /\ Cleared(motor', truth')
         /\ believed'.lag <= believed.lag + 1
         /\ \A t \in motor'.checked \cap (Touching(truth') \ Touching(truth)) :
              motor'.lag > Fresh \/ motor'.turned
<1>1. PICK p \in Moved(m.cmd) :
        LET turn == p.heading # truth.heading
        IN /\ truth' = p
           /\ motor' = Aged(m, turn)
           /\ believed' = Aged(believed, turn)
           /\ asked' = [i \in DOMAIN asked |-> Aged(asked[i], turn)]
  BY DEF Elapse
<1> DEFINE turn == p.heading # truth.heading
<1>2. truth \in Nodes /\ m.cmd \in Commands /\ believed \in Views /\ \A i \in DOMAIN asked : asked[i] \in Views
  BY DEF ControlTypeOK, Motors
<1>3. truth' = p /\ motor' = Aged(m, turn) /\ believed' = Aged(believed, turn)
  BY <1>1
<1>4. asked' = [i \in DOMAIN asked |-> Aged(asked[i], turn)]
  BY <1>1
<1>5. believed' \in Views /\ Reached(believed', truth')
  BY <1>2, <1>3, ViewAges
<1>6. motor' \in Motors /\ Cleared(motor', truth')
  BY <1>2, <1>3, MotorAges
<1>7. \A i \in DOMAIN asked : Aged(asked[i], turn) \in Views /\ Reached(Aged(asked[i], turn), p)
  BY <1>2, ViewAges DEF AskedLately
<1>8. asked' \in Seq(Views) /\ Len(asked') <= 1 /\ DOMAIN asked' = DOMAIN asked
  BY <1>4, <1>7 DEF ControlTypeOK
<1>9. \A i \in DOMAIN asked : Aged(asked[i], turn).lag <= believed'.lag
  <2> SUFFICES ASSUME NEW i \in DOMAIN asked PROVE Aged(asked[i], turn).lag <= believed'.lag
    OBVIOUS
  <2>1. asked[i].lag <= believed.lag /\ asked[i].lag \in 0 .. LagMax /\ believed.lag \in 0 .. LagMax
    BY <1>2 DEF AskedLately, Views
  <2>2. Aged(asked[i], turn).lag = Least(asked[i].lag + 1, LagMax) /\ believed'.lag = Least(believed.lag + 1, LagMax)
    BY <1>2, <1>3 DEF Aged, Views
  <2> QED
    BY <2>1, <2>2, LagMaxIs DEF Least
<1>10. AskedLately'
  BY <1>3, <1>4, <1>7, <1>8, <1>9 DEF AskedLately
<1>11. believed'.lag <= believed.lag + 1
  BY <1>2, <1>3, Ages
<1>12. ASSUME NEW t \in motor'.checked, t \in Touching(truth'), t \notin Touching(truth), ~(motor'.lag > Fresh),
              ~motor'.turned
       PROVE  FALSE
  <2>1. motor'.cmd = m.cmd /\ (motor'.turned <=> m.turned \/ turn) /\ motor'.lag \in Nat
    BY <1>3, Ages
  <2>2. p.heading = truth.heading /\ truth' # truth
    BY <1>12, <2>1, Zenon DEF Touching
  <2>3. motor'.cmd.op = "forward"
    BY <1>2, <1>3, <2>1, <2>2, Moves
  <2>4. truth' \in Nodes /\ motor'.lag <= Fresh
    BY <1>2, <1>3, <1>12, <2>1, FreshIs, Moves
  <2>5. ~aabbIntersect(WorldAABB(truth'), WorldAABB(Where[t]))
    BY <1>6, <1>12, <2>3, <2>4, ClearedIsClear
  <2> QED
    BY <1>12, <2>5 DEF Touching
<1>13. truth' \in Nodes
  BY <1>2, <1>3, Moves
<1> QED
  BY <1>5, <1>6, <1>8, <1>10, <1>11, <1>12, <1>13

-----------------------------------------------------------------------------
(* The actions *)

\* What a step may do to the robot: time passes as above, or the robot stays where it is.
StepIsSafe ==
  /\ believed' = believed \/ believed'.lag <= believed.lag + 1
  /\ \A t \in motor'.checked \cap (Touching(truth') \ Touching(truth)) : motor'.lag > Fresh \/ motor'.turned

LEMMA StopIs == STOP \in Commands /\ STOP.op # "forward"
BY ControlAssumption DEF STOP, Commands, Ops

\* ReflexGuard lets no forward through that its sweep does not clear.
LEMMA RunningIsCleared ==
  ASSUME ControlInv, NEW cmd \in Commands, cmd.op = "forward" => cmd.speed \in {Approach, Cruise} /\ ~Veto(cmd)
  PROVE  Running(cmd) \in Motors /\ Cleared(Running(cmd), truth)
<1> DEFINE r == Running(cmd)
<1>1. /\ r.cmd = cmd /\ r.lag = believed.lag /\ r.turned = believed.turned /\ r.checked = known
      /\ r \in Motors
  BY DEF Running, ControlInv, ControlTypeOK, Motors, Views
<1>2. ASSUME r.cmd.op = "forward", ~r.turned, r.lag <= Fresh
      PROVE  \E P \in Nodes : \E n \in 0 .. r.lag * Cruise :
               /\ truth = Step(P, n)
               /\ \A t \in r.checked : ~aabbIntersect(ForwardSweptAABB(P, Sweep(r.cmd)), WorldAABB(Where[t]))
  <2>1. believed.pose \in Nodes
    BY DEF ControlInv, ControlTypeOK, Views
  <2>2. PICK n \in 0 .. r.lag * Cruise : truth = Step(believed.pose, n)
    BY <1>1, <1>2 DEF ControlInv, Reached
  <2>3. \A t \in r.checked : ~aabbIntersect(ForwardSweptAABB(believed.pose, Sweep(r.cmd)), WorldAABB(Where[t]))
    BY <1>1, <1>2 DEF Veto, predictForwardCollision
  <2> QED
    BY <2>1, <2>2, <2>3
<1> HIDE DEF r
<1>3. Cleared(r, truth)
  BY <1>1, <1>2 DEF Cleared
<1> QED
  BY <1>1, <1>3 DEF r

LEMMA Decision ==
  ASSUME NEW robot, NEW g
  PROVE  /\ decide(robot, g).cmd \in Commands
         /\ decide(robot, g).cmd.op = "forward" => decide(robot, g).cmd.speed \in {Approach, Cruise}
<1>1. \A op \in Ops : [STOP EXCEPT !.op = op] = [op |-> op, speed |-> 0]
  BY DEF STOP
<1>2. 0 \in 0 .. Cruise /\ Approach \in 0 .. Cruise /\ Cruise \in 0 .. Cruise
  BY ControlAssumption
<1> DEFINE dx == Where[g].x - robot.x
           dy == Where[g].y - robot.y
           distance == Hypot(dx, dy)
           aside == dy * Along[robot.heading] - dx * Across[robot.heading]
           cmd == CASE g \in Things \ known -> [STOP EXCEPT !.op = "no_target"]
                    [] Square(dx) + Square(dy) <= Square(Arrival) -> [STOP EXCEPT !.op = "arrived"]
                    [] ~Aligned(dx, dy, robot.heading) ->
                         [op |-> IF aside >= 0 THEN "rotate_ccw" ELSE "rotate_cw", speed |-> 0]
                    [] OTHER -> [op |-> "forward",
                                 speed |-> IF distance < ApproachDistance THEN Approach ELSE Cruise]
<1>3. decide(robot, g).cmd = cmd
  BY DEF decide
<1> HIDE DEF dx, dy, distance, aside
<1>4. cmd \in {[op |-> "no_target", speed |-> 0], [op |-> "arrived", speed |-> 0],
               [op |-> "rotate_ccw", speed |-> 0], [op |-> "rotate_cw", speed |-> 0],
               [op |-> "forward", speed |-> Approach], [op |-> "forward", speed |-> Cruise]}
  BY <1>1 DEF Ops
<1> HIDE DEF cmd
<1> QED
  BY <1>2, <1>3, <1>4 DEF Commands, Ops

\* A tick, of whatever decision, and the time until the next.
LEMMA SendsKeeps ==
  ASSUME ControlInv, UNCHANGED <<known, wanted, answered, goal>>, NEW cmd \in Commands,
         cmd.op = "forward" => cmd.speed \in {Approach, Cruise} /\ ~Veto(cmd),
         Sends(cmd) \/ Elapse(motor)
  PROVE  ControlInv' /\ StepIsSafe
<1>1. PICK m \in {motor, Running(cmd)} : Elapse(m)
  BY DEF Sends
<1>2. m \in Motors /\ Cleared(m, truth)
  BY RunningIsCleared DEF ControlInv, ControlTypeOK
<1>3. /\ truth' \in Nodes /\ believed' \in Views /\ motor' \in Motors
      /\ asked' \in Seq(Views) /\ Len(asked') <= 1
      /\ AskedLately' /\ Reached(believed', truth') /\ Cleared(motor', truth')
      /\ StepIsSafe
  BY <1>1, <1>2, ElapseKeeps DEF ControlInv, StepIsSafe
<1>4. ControlTypeOK' /\ GoalIsSettled'
  BY <1>3 DEF ControlInv, ControlTypeOK, GoalIsSettled
<1> QED
  BY <1>3, <1>4 DEF ControlInv

LEMMA ControlTickKeeps ==
  ASSUME ControlInv, TickIdle \/ TickDecides \/ Rest
  PROVE  ControlInv' /\ StepIsSafe
<1>1. UNCHANGED <<known, wanted, answered, goal>>
  BY DEF TickIdle, TickDecides, Rest
<1>2. CASE TickIdle \/ Rest
  BY <1>1, <1>2, StopIs, SendsKeeps DEF TickIdle, Rest
<1>3. CASE TickDecides
  <2> DEFINE d == decide(believed.pose, goal)
             out == IF Veto(d.cmd) THEN STOP ELSE d.cmd
  <2>1. Sends(STOP) \/ Sends(out)
    BY <1>3 DEF TickDecides
  <2>2. d.cmd \in Commands /\ (d.cmd.op = "forward" => d.cmd.speed \in {Approach, Cruise})
    BY Decision
  <2> HIDE DEF d
  <2>3. out \in Commands /\ (out.op = "forward" => out.speed \in {Approach, Cruise} /\ ~Veto(out))
    BY <2>2, StopIs
  <2> HIDE DEF out
  <2> QED
    BY <1>1, <2>1, <2>3, StopIs, SendsKeeps
<1> QED
  BY <1>2, <1>3

\* The goal that an answer makes of the text.
LEMMA Resolved ==
  ASSUME ControlTypeOK, NEW graph \in SUBSET Things, NEW g \in resolveGoalFromText(wanted, graph)
  PROVE  /\ g = wanted => wanted \in Points \cup graph
         /\ wanted \in Points \cup graph => g = wanted
         /\ g \in Goals \/ g = "explore"
BY ControlAssumption DEF ControlTypeOK, resolveGoalFromText, Goals

LEMMA WithoutOne ==
  ASSUME ControlTypeOK, NEW i \in DOMAIN asked
  PROVE  Without(i) = <<>>
<1>1. Len(asked) \in Nat /\ DOMAIN asked = 1 .. Len(asked) /\ Len(asked) <= 1
  BY DEF ControlTypeOK
<1>2. Len(asked) = 1
  BY <1>1
<1>3. 1 .. Len(asked) - 1 = {}
  BY <1>2
<1>4. Without(i) = [j \in {} |-> asked[IF j < i THEN j ELSE j + 1]]
  BY <1>3, Zenon DEF Without
<1>5. DOMAIN Without(i) = {} /\ Without(i) \in Seq({})
  <2>1. Without(i) \in [1 .. 0 -> {}]
    BY <1>4
  <2> QED
    BY <1>4, <2>1
<1> QED
  BY <1>5

LEMMA AnswerKeeps ==
  ASSUME ControlInv, NEW i \in DOMAIN asked, Answer(i) \/ AnswerFails(i)
  PROVE  ControlInv' /\ StepIsSafe
<1>1. /\ asked' = <<>> /\ truth' = truth /\ motor' = motor /\ wanted' = wanted
      /\ believed' \in {believed, asked[i]} /\ known' \subseteq Things /\ known \subseteq known'
  BY WithoutOne DEF ControlInv, ControlTypeOK, Answer, AnswerFails
<1>2. asked[i] \in Views /\ asked[i].lag <= believed.lag /\ Reached(asked[i], truth)
  BY DEF ControlInv, ControlTypeOK, AskedLately
<1>3. believed' \in Views /\ Reached(believed', truth')
  BY <1>1, <1>2 DEF ControlInv, ControlTypeOK
<1>4. goal' \in Goals \cup {NoGoal} /\ GoalIsSettled'
  <2>1. CASE AnswerFails(i)
    BY <2>1 DEF AnswerFails, ControlInv, ControlTypeOK, GoalIsSettled
  <2>2. CASE Answer(i)
    <3>1. PICK g \in resolveGoalFromText(wanted, known') :
            /\ answered' = (answered \/ g = wanted)
            /\ (g = "explore" /\ goal' = goal) \/ (g # "explore" /\ goal' = g)
      BY <2>2 DEF Answer
    <3>2. /\ g = wanted => wanted \in Points \cup known'
          /\ wanted \in Points \cup known' => g = wanted
          /\ g \in Goals \/ g = "explore"
      BY <1>1, <3>1, Resolved DEF ControlInv
    <3>3. wanted # "explore"
      BY ControlAssumption DEF ControlInv, ControlTypeOK
    <3> QED
      BY <1>1, <3>1, <3>2, <3>3 DEF ControlInv, ControlTypeOK, GoalIsSettled
  <2> QED
    BY <2>1, <2>2
<1>5. ControlTypeOK' /\ AskedLately'
  BY <1>1, <1>3, <1>4 DEF ControlInv, ControlTypeOK, AskedLately
<1>6. StepIsSafe
  <2>1. believed.lag \in Nat /\ asked[i].lag \in Nat
    BY <1>2 DEF ControlInv, ControlTypeOK, Views
  <2> QED
    BY <1>1, <1>2, <2>1 DEF StepIsSafe
<1> QED
  BY <1>1, <1>3, <1>4, <1>5, <1>6 DEF ControlInv

\* Steps in which no time passes.
LEMMA OtherKeeps ==
  ASSUME ControlInv,
         StartLoops \/ StopLoops \/ Perceive \/ (\E w \in Goals : Want(w)) \/ UNCHANGED controlVars
  PROVE  ControlInv' /\ StepIsSafe
<1>1. truth' = truth /\ believed' = believed /\ known' = known
  BY DEF StartLoops, StopLoops, Perceive, Want, controlVars
<1>2. StepIsSafe
  BY <1>1 DEF StepIsSafe
<1>3. motor' \in Motors /\ Cleared(motor', truth')
  <2>1. motor' \in {motor, Running(STOP)}
    BY DEF StartLoops, StopLoops, Perceive, Want, controlVars
  <2> QED
    BY <1>1, <2>1, StopIs, RunningIsCleared DEF ControlInv, ControlTypeOK
<1>4. wanted' \in Goals /\ goal' \in Goals \cup {NoGoal} /\ GoalIsSettled'
  BY <1>1 DEF StartLoops, StopLoops, Perceive, Want, controlVars, ControlInv, ControlTypeOK, GoalIsSettled
<1>5. asked' \in Seq(Views) /\ Len(asked') <= 1 /\ AskedLately'
  <2>1. CASE Perceive
    <3>1. Seen(truth) \in Views /\ Seen(truth).lag = 0 /\ Seen(truth).pose = truth
      BY LagMaxIs DEF Seen, Views, ControlInv, ControlTypeOK
    <3>2. Reached(Seen(truth), truth)
      <4>1. truth = Step(truth, 0) /\ 0 \in 0 .. 0 * Cruise
        BY StepsAdd, ControlAssumption DEF ControlInv, ControlTypeOK
      <4> QED
        BY <3>1, <4>1 DEF Reached
    <3>3. asked' = <<Seen(truth)>>
      BY <2>1 DEF Perceive
    <3>4. believed.lag \in Nat
      BY DEF ControlInv, ControlTypeOK, Views
    <3> QED
      BY <1>1, <3>1, <3>2, <3>3, <3>4 DEF AskedLately
  <2>2. CASE asked' = asked
    BY <1>1, <2>2 DEF ControlInv, ControlTypeOK, AskedLately
  <2> QED
    BY <2>1, <2>2 DEF StartLoops, StopLoops, Want, controlVars
<1>6. ControlTypeOK' /\ Reached(believed', truth')
  BY <1>1, <1>3, <1>4, <1>5 DEF ControlInv, ControlTypeOK
<1> QED
  BY <1>2, <1>3, <1>4, <1>5, <1>6 DEF ControlInv

LEMMA ControlStarts == ControlInit => ControlInv
<1> SUFFICES ASSUME ControlInit PROVE ControlInv
  OBVIOUS
<1>1. believed \in Views /\ believed.lag = 0 /\ believed.pose = truth /\ truth \in Nodes
  BY LagMaxIs, ControlAssumption DEF ControlInit, Seen, Views
<1>2. motor \in Motors /\ motor.cmd = STOP
  BY LagMaxIs, StopIs DEF ControlInit, Motors
<1>3. truth = Step(truth, 0) /\ 0 \in 0 .. 0 * Cruise
  BY <1>1, StepsAdd, ControlAssumption
<1>4. Reached(believed, truth) /\ Cleared(motor, truth)
  BY <1>1, <1>2, <1>3, StopIs DEF Reached, Cleared
<1>5. asked \in Seq(Views) /\ Len(asked) <= 1 /\ AskedLately
  BY DEF ControlInit, AskedLately
<1> QED
  BY <1>1, <1>2, <1>4, <1>5 DEF ControlInit, ControlInv, ControlTypeOK, GoalIsSettled

LEMMA ControlStep == ControlInv /\ [ControlNext]_controlVars => ControlInv' /\ [StepIsSafe]_controlVars
BY ControlTickKeeps, AnswerKeeps, OtherKeeps DEF ControlNext

\* However late the slow loop's answers come, the fast one pursues the goal wanted
\* last and never decides on an older pose than it has.
THEOREM ControlLoopsAgree == ControlSpec => LoopsAgree
<1>1. ControlInv => GoalFollows
  BY DEF ControlInv, GoalIsSettled, GoalFollows
<1>2. [StepIsSafe]_controlVars => [believed' = believed \/ believed'.lag <= believed.lag + 1]_controlVars
  BY DEF StepIsSafe
<1> QED
  BY <1>1, <1>2, ControlStarts, ControlStep, PTL DEF ControlSpec, LoopsAgree, PoseAdvances

\* The reflex guard: a step into a thing is one the guard could not see, by what it
\* knew, by the age of its pose or by a turn since.
THEOREM ControlBumpIsBlind == ControlSpec => BumpIsBlind
<1>1. [StepIsSafe]_controlVars =>
        [\A t \in motor'.checked \cap (Touching(truth') \ Touching(truth)) :
           motor'.lag > Fresh \/ motor'.turned]_controlVars
  BY DEF StepIsSafe
<1> QED
  BY <1>1, ControlStarts, ControlStep, PTL DEF ControlSpec, BumpIsBlind

------------------------------------------------------------------------------
(****************************************************************************)
(* The nodes of things that move                                            *)
(****************************************************************************)

\* The things that were ever detected.
EverSeen == {t \in Wanderers : seenAt[t] # -1}
TrackTypeOK ==
  /\ at \in [Wanderers -> 0 .. Far] /\ seenAt \in [Wanderers -> -1 .. Far]
  /\ queue \in Seq(Wanderers) /\ IsFiniteSet(nodes)

\* What the radius is made for: things of one label do not meet, nor where they were seen.
StayApart ==
  \A t, u \in Wanderers : Alike2(t, u) =>
    /\ Magnitude(at[t] - at[u]) > 2 * TrackRadius
    /\ seenAt[u] # -1 => Magnitude(at[t] - seenAt[u]) > TrackRadius
    /\ seenAt[t] # -1 /\ seenAt[u] # -1 => seenAt[t] # seenAt[u]

\* A thing that was seen is no further than a radius from where it was seen last.
StayNear == \A t \in Wanderers : seenAt[t] # -1 => Magnitude(at[t] - seenAt[t]) <= TrackRadius

IsNodeOf(n, t) == n.label = Label[t] /\ n.x = 2 * seenAt[t]

\* The nodes are of the things that were seen, where they were, one each.
NodesAreThings ==
  /\ \A n \in nodes : n.y = 1 /\ n.id[1] = n.label
  /\ \A n \in nodes : \E t \in EverSeen : IsNodeOf(n, t)
  /\ \A t \in EverSeen : \E n \in nodes : IsNodeOf(n, t)
  /\ \A n, m \in nodes : (n.label = m.label /\ n.x = m.x) \/ n.id = m.id => n = m
  /\ Cardinality(nodes) = Cardinality(EverSeen)

\* The inductive invariant of the tracking.
TrackInv == TrackTypeOK /\ StayApart /\ StayNear /\ NodesAreThings

-----------------------------------------------------------------------------
LEMMA SquareIs ==
  ASSUME NEW d \in Int, NEW r \in Nat
  PROVE  Square(d) <= Square(r) <=> Magnitude(d) <= r
<1>1. CASE d >= 0
  <2>1. d <= r => d * d <= r * r
    BY <1>1
  <2>2. d > r => d * d > r * r
    BY <1>1
  <2> QED
    BY <1>1, <2>1, <2>2 DEF Square, Magnitude
<1>2. CASE d < 0
  <2> DEFINE e == -d
  <2>1. e \in Int /\ e > 0 /\ d * d = e * e
    BY <1>2
  <2> HIDE DEF e
  <2>2. e <= r => e * e <= r * r
    BY <2>1
  <2>3. e > r => e * e > r * r
    BY <2>1
  <2>4. Magnitude(d) = e
    BY <1>2 DEF Magnitude, e
  <2> QED
    BY <2>1, <2>2, <2>3, <2>4 DEF Square
<1> QED
  BY <1>1, <1>2

LEMMA PlaceIs ==
  ASSUME NEW x \in 0 .. Far
  PROVE  projectBox(<<0, x, 1, x>>).x = 2 * x /\ projectBox(<<0, x, 1, x>>).y = 1
BY TrackAssumption DEF projectBox, Clamp, Least, Greatest

-----------------------------------------------------------------------------
LEMMA TrackStarting == TrackInit => TrackInv
<1> SUFFICES ASSUME TrackInit PROVE TrackInv
  OBVIOUS
<1>1. EverSeen = {} /\ nodes = {}
  BY DEF TrackInit, EverSeen
<1>2. TrackTypeOK
  <2>1. seenAt \in [Wanderers -> -1 .. Far] /\ at \in [Wanderers -> 0 .. Far]
    BY TrackAssumption DEF TrackInit
  <2>2. queue \in Seq(Wanderers) /\ IsFiniteSet(nodes)
    BY FS_EmptySet DEF TrackInit
  <2> QED
    BY <2>1, <2>2 DEF TrackTypeOK
<1>3. \A t \in Wanderers : seenAt[t] = -1 /\ at[t] = Start[t]
  BY DEF TrackInit
<1>4. StayApart /\ StayNear
  BY <1>3, TrackAssumption DEF StayApart, StayNear
<1> QED
  BY <1>1, <1>2, <1>4 DEF TrackInv, NodesAreThings

LEMMA StepWander == ASSUME TrackInv, NEW t \in Wanderers, Wander(t) PROVE TrackInv'
<1>1. PICK x \in 0 .. Far :
       /\ seenAt[t] = -1 \/ Square(x - seenAt[t]) <= Square(TrackRadius)
       /\ \A u \in Wanderers : Alike2(t, u) =>
            /\ Magnitude(x - at[u]) > 2 * TrackRadius
            /\ seenAt[u] # -1 => Magnitude(x - seenAt[u]) > TrackRadius
       /\ at' = [at EXCEPT ![t] = x]
  BY DEF Wander
<1>2. UNCHANGED <<seenAt, nodes, queue>>
  BY DEF Wander
<1>3. /\ at \in [Wanderers -> 0 .. Far] /\ seenAt \in [Wanderers -> -1 .. Far]
  BY DEF TrackInv, TrackTypeOK
<1>4. /\ at' \in [Wanderers -> 0 .. Far] /\ at'[t] = x /\ \A u \in Wanderers : u # t => at'[u] = at[u]
  BY <1>1, <1>3
<1>5. TrackTypeOK' /\ NodesAreThings'
  BY <1>2, <1>4 DEF TrackInv, TrackTypeOK, NodesAreThings, EverSeen, IsNodeOf
<1>6. StayNear'
  <2>1. x \in Int /\ seenAt[t] \in Int /\ TrackRadius \in Nat
    BY <1>3, TrackAssumption
  <2>2. seenAt[t] # -1 => Magnitude(x - seenAt[t]) <= TrackRadius
    BY <1>1, <2>1, SquareIs
  <2> QED
    BY <1>2, <1>4, <2>2 DEF TrackInv, StayNear
<1>7. StayApart'
  <2> SUFFICES ASSUME NEW u \in Wanderers, NEW v \in Wanderers, Alike2(u, v)
               PROVE  /\ Magnitude(at'[u] - at'[v]) > 2 * TrackRadius
                      /\ seenAt[v] # -1 => Magnitude(at'[u] - seenAt[v]) > TrackRadius
                      /\ seenAt[u] # -1 /\ seenAt[v] # -1 => seenAt[u] # seenAt[v]
    BY <1>2 DEF StayApart, Alike2
  <2>1. /\ Magnitude(at[u] - at[v]) > 2 * TrackRadius
        /\ seenAt[v] # -1 => Magnitude(at[u] - seenAt[v]) > TrackRadius
        /\ seenAt[u] # -1 /\ seenAt[v] # -1 => seenAt[u] # seenAt[v]
    BY DEF TrackInv, StayApart
  <2>2. u # v /\ Alike2(v, u)
    BY DEF Alike2
  <2>3. at[u] \in Int /\ at[v] \in Int /\ x \in Int
    BY <1>3
  <2>4. CASE u = t
    BY <1>1, <1>4, <2>1, <2>2, <2>4
  <2>5. CASE v = t
    <3>1. Magnitude(x - at[u]) > 2 * TrackRadius
      BY <1>1, <2>2, <2>5
    <3>2. Magnitude(at[u] - x) = Magnitude(x - at[u])
      BY <2>3 DEF Magnitude
    <3> QED
      BY <1>4, <2>1, <2>2, <2>5, <3>1, <3>2
  <2>6. CASE u # t /\ v # t
    BY <1>4, <2>1, <2>6
  <2> QED
    BY <2>4, <2>5, <2>6
<1> QED
  BY <1>5, <1>6, <1>7 DEF TrackInv

LEMMA StepDetect == TrackInv /\ Detect => TrackInv'
<1> SUFFICES ASSUME TrackInv, Detect PROVE TrackInv'
  OBVIOUS
<1>1. UNCHANGED <<at, seenAt, nodes>>
  BY DEF Detect
<1>2. queue' \in Seq(Wanderers)
  <2>1. PICK S \in SUBSET Wanderers : \E f \in [1 .. Cardinality(S) -> S] : queue' = f
    BY DEF Detect
  <2>2. Cardinality(S) \in Nat
    BY TrackAssumption, FS_Subset, FS_CardinalityType
  <2>3. queue' \in [1 .. Cardinality(S) -> Wanderers]
    BY <2>1
  <2> QED
    BY <2>2, <2>3
<1>3. TrackTypeOK'
  BY <1>1, <1>2 DEF TrackInv, TrackTypeOK
<1>4. StayApart' /\ StayNear' /\ NodesAreThings'
  BY <1>1 DEF TrackInv, StayApart, StayNear, NodesAreThings, EverSeen, IsNodeOf, Alike2
<1> QED
  BY <1>3, <1>4 DEF TrackInv

\* The nodes within the radius of where a thing is now are its own.
LEMMA NearIsOwn ==
  ASSUME TrackInv, NEW t \in Wanderers, NEW place, place.x = 2 * at[t], place.y = 1,
         NEW n \in nodes, n.label = Label[t]
  PROVE  Distance2(n, place) <= Square(2 * TrackRadius) <=> t \in EverSeen /\ IsNodeOf(n, t)
<1>1. at[t] \in Int /\ TrackRadius \in Nat /\ 2 * TrackRadius \in Nat
  BY TrackAssumption DEF TrackInv, TrackTypeOK
<1>2. PICK u \in EverSeen : IsNodeOf(n, u)
  BY DEF TrackInv, NodesAreThings
<1>3. n.x = 2 * seenAt[u] /\ n.y = 1 /\ seenAt[u] \in Int /\ seenAt[u] # -1 /\ u \in Wanderers /\ Label[u] = Label[t]
  BY <1>2 DEF EverSeen, IsNodeOf, TrackInv, TrackTypeOK, NodesAreThings
<1> DEFINE d == n.x - place.x
<1>4. d = 2 * (seenAt[u] - at[t]) /\ d \in Int
  BY <1>1, <1>3
<1>5. Distance2(n, place) = Square(d)
  <2>1. n.y - place.y = 0
    BY <1>3
  <2>2. Square(n.y - place.y) = 0
    BY <2>1 DEF Square
  <2>3. Square(d) \in Int
    BY <1>4 DEF Square
  <2> QED
    BY <2>2, <2>3 DEF Distance2
<1> HIDE DEF d
<1>6. Distance2(n, place) <= Square(2 * TrackRadius) <=> Magnitude(d) <= 2 * TrackRadius
  BY <1>1, <1>4, <1>5, SquareIs
<1>7. Magnitude(d) <= 2 * TrackRadius <=> Magnitude(at[t] - seenAt[u]) <= TrackRadius
  BY <1>1, <1>3, <1>4 DEF Magnitude
<1>8. CASE u = t
  <2>1. Magnitude(at[t] - seenAt[u]) <= TrackRadius
    BY <1>3, <1>8 DEF TrackInv, StayNear
  <2> QED
    BY <1>2, <1>6, <1>7, <1>8, <2>1
<1>9. CASE u # t
  <2>1. Magnitude(at[t] - seenAt[u]) > TrackRadius
    BY <1>3, <1>9 DEF TrackInv, StayApart, Alike2
  <2>2. ~(t \in EverSeen /\ IsNodeOf(n, t))
    <3>1. Alike2(u, t)
      BY <1>3, <1>9 DEF Alike2
    <3>2. t \in EverSeen => seenAt[t] # seenAt[u]
      BY <1>3, <3>1 DEF EverSeen, TrackInv, StayApart
    <3>3. seenAt[t] \in Int
      BY DEF TrackInv, TrackTypeOK
    <3> QED
      BY <1>3, <3>2, <3>3 DEF IsNodeOf
  <2>3. Magnitude(at[t] - seenAt[u]) \in Int
    BY <1>1, <1>3 DEF Magnitude
  <2> QED
    BY <1>1, <1>6, <1>7, <2>1, <2>2, <2>3
<1> QED
  BY <1>8, <1>9

\* The id under which a thing is noted: that of its node, or a free one.
LEMMA IdIs ==
  ASSUME TrackInv, NEW t \in Wanderers, NEW place, place.x = 2 * at[t], place.y = 1,
         NEW id \in findOrCreateId(nodes, Label[t], place, 2 * TrackRadius)
  PROVE  /\ id[1] = Label[t]
         /\ t \in EverSeen => \E n \in nodes : IsNodeOf(n, t) /\ n.id = id
         /\ t \notin EverSeen => \A n \in nodes : n.id # id
<1> DEFINE near == {n \in nodes : n.label = Label[t] /\ Distance2(n, place) <= Square(2 * TrackRadius)}
           nearest == {n \in near : \A o \in near : Distance2(n, place) <= Distance2(o, place)}
           taken == {n.id[2] : n \in {m \in nodes : m.id[1] = Label[t]}}
<1>1. \A n \in near : n \in nodes /\ n.label = Label[t] /\ t \in EverSeen /\ IsNodeOf(n, t)
  BY NearIsOwn
<1>2. t \in EverSeen => \E n \in near : IsNodeOf(n, t)
  <2> SUFFICES ASSUME t \in EverSeen PROVE \E n \in near : IsNodeOf(n, t)
    OBVIOUS
  <2>1. PICK n \in nodes : IsNodeOf(n, t)
    BY DEF TrackInv, NodesAreThings
  <2>2. n \in near
    BY <2>1, NearIsOwn DEF IsNodeOf
  <2> QED
    BY <2>1, <2>2
<1>3. \A n, m \in near : n = m
  <2> SUFFICES ASSUME NEW n \in near, NEW m \in near PROVE n = m
    OBVIOUS
  <2>1. n.label = m.label /\ n.x = m.x
    BY <1>1 DEF IsNodeOf
  <2> QED
    BY <1>1, <2>1 DEF TrackInv, NodesAreThings
<1>4. \A n \in near : Distance2(n, place) \in Int
  <2> SUFFICES ASSUME NEW n \in near PROVE Distance2(n, place) \in Int
    OBVIOUS
  <2>1. n.y = 1 /\ n.x \in Int
    BY <1>1 DEF TrackInv, NodesAreThings, IsNodeOf, TrackTypeOK
  <2>2. place.x \in Int /\ place.y \in Int
    BY DEF TrackInv, TrackTypeOK
  <2> QED
    BY <2>1, <2>2 DEF Distance2, Square
<1>5. nearest = near
  BY <1>3, <1>4
<1>6. id \in IF nearest # {} THEN {n.id : n \in nearest}
              ELSE {<<Label[t], i>> : i \in {k \in 0 .. Cardinality(nodes) : k \notin taken /\ 0 .. k - 1 \subseteq taken}}
  BY Zenon DEF findOrCreateId
<1> HIDE DEF near, nearest, taken
<1>7. CASE t \in EverSeen
  <2>1. PICK n \in nearest : n.id = id
    BY <1>2, <1>5, <1>6, <1>7
  <2>2. n \in nodes /\ IsNodeOf(n, t) /\ n.label = Label[t]
    BY <1>1, <1>5, <2>1
  <2>3. id[1] = Label[t]
    BY <2>1, <2>2 DEF TrackInv, NodesAreThings
  <2> QED
    BY <1>7, <2>1, <2>2, <2>3
<1>8. CASE t \notin EverSeen
  <2>1. nearest = {}
    BY <1>1, <1>5, <1>8
  <2>2. PICK i : i \notin taken /\ id = <<Label[t], i>>
    BY <1>6, <2>1
  <2>3. \A n \in nodes : n.id # id
    BY <2>2 DEF taken
  <2> QED
    BY <1>8, <2>2, <2>3
<1> QED
  BY <1>7, <1>8

LEMMA StepProject == TrackInv /\ Project => TrackInv'
<1> SUFFICES ASSUME TrackInv, Project PROVE TrackInv'
  OBVIOUS
<1>1. PICK t \in Wanderers : t = Head(queue) /\ queue # <<>> /\ Tail(queue) \in Seq(Wanderers)
  BY DEF Project, TrackInv, TrackTypeOK
<1>a. PICK place : place = projectBox(<<0, at[t], 1, at[t]>>)
  OBVIOUS
<1>2. PICK id \in findOrCreateId(nodes, Label[t], place, 2 * TrackRadius) :
        nodes' = addOrUpdateNode(nodes, id, Label[t], place)
  BY <1>1, <1>a DEF Project
<1>3. seenAt' = [seenAt EXCEPT ![t] = at[t]] /\ queue' = Tail(queue) /\ at' = at
  BY <1>1, <1>a DEF Project
<1>4. at[t] \in 0 .. Far /\ seenAt \in [Wanderers -> -1 .. Far] /\ at \in [Wanderers -> 0 .. Far]
      /\ IsFiniteSet(nodes)
  BY <1>1 DEF TrackInv, TrackTypeOK
<1>5. place.x = 2 * at[t] /\ place.y = 1
  BY <1>4, <1>a, PlaceIs
<1>6. /\ id[1] = Label[t]
      /\ t \in EverSeen => \E n \in nodes : IsNodeOf(n, t) /\ n.id = id
      /\ t \notin EverSeen => \A n \in nodes : n.id # id
  BY <1>1, <1>2, <1>5, IdIs
<1>7. /\ seenAt'[t] = at[t] /\ at[t] # -1 /\ seenAt' \in [Wanderers -> -1 .. Far]
      /\ \A u \in Wanderers : u # t => seenAt'[u] = seenAt[u]
  <2>1. at[t] \in -1 .. Far /\ at[t] # -1
    BY <1>4, TrackAssumption
  <2> QED
    BY <1>1, <1>3, <1>4, <2>1
<1>8. EverSeen' = EverSeen \cup {t}
  BY <1>1, <1>7 DEF EverSeen
<1>b. PICK new : new = [id |-> id, label |-> Label[t], x |-> place.x, y |-> place.y,
                        w |-> place.w, h |-> place.h, heading |-> 0]
  OBVIOUS
<1>c. PICK others : others = {n \in nodes : n.id # id}
  OBVIOUS
<1>9. nodes' = others \cup {new} /\ new.id = id /\ new.label = Label[t] /\ new.x = 2 * at[t] /\ new.y = 1
  BY <1>2, <1>5, <1>b, <1>c DEF addOrUpdateNode

\* The nodes that stay are those of the other things.
<1>10. \A n \in others : n \in nodes /\ n # new /\ \E u \in EverSeen : u # t /\ IsNodeOf(n, u)
  <2> SUFFICES ASSUME NEW n \in others
               PROVE  n \in nodes /\ n.id # id /\ n # new /\ \E u \in EverSeen : u # t /\ IsNodeOf(n, u)
    OBVIOUS
  <2>0. n \in nodes /\ n.id # id
    BY <1>c
  <2>1. PICK u \in EverSeen : IsNodeOf(n, u)
    BY <2>0 DEF TrackInv, NodesAreThings
  <2>2. u # t
    <3> SUFFICES ASSUME u = t PROVE FALSE
      OBVIOUS
    <3>1. PICK m \in nodes : IsNodeOf(m, t) /\ m.id = id
      BY <1>6, <2>1
    <3>2. n = m
      BY <2>0, <2>1, <3>1 DEF TrackInv, NodesAreThings, IsNodeOf
    <3> QED
      BY <2>0, <3>1, <3>2
  <2> QED
    BY <1>9, <2>0, <2>1, <2>2
<1>11. \A u \in EverSeen : u # t => \E n \in others : IsNodeOf(n, u)
  <2> SUFFICES ASSUME NEW u \in EverSeen, u # t PROVE \E n \in others : IsNodeOf(n, u)
    OBVIOUS
  <2>1. PICK n \in nodes : IsNodeOf(n, u)
    BY DEF TrackInv, NodesAreThings
  <2>2. n.id # id
    <3> SUFFICES ASSUME n.id = id PROVE FALSE
      OBVIOUS
    <3>1. t \in EverSeen
      BY <1>6
    <3>2. PICK m \in nodes : IsNodeOf(m, t) /\ m.id = id
      BY <1>6, <3>1
    <3>3. n = m
      BY <3>2 DEF TrackInv, NodesAreThings
    <3>4. Alike2(t, u) /\ 2 * seenAt[t] = 2 * seenAt[u]
      BY <2>1, <3>2, <3>3 DEF IsNodeOf, Alike2
    <3>5. seenAt[t] # seenAt[u] /\ seenAt[t] \in Int /\ seenAt[u] \in Int
      BY <1>1, <3>1, <3>4 DEF EverSeen, TrackInv, StayApart, TrackTypeOK
    <3> QED
      BY <3>4, <3>5
  <2> QED
    BY <1>c, <2>1, <2>2
<1>12. TrackTypeOK'
  <2>1. IsFiniteSet(others) /\ IsFiniteSet(others \cup {new})
    BY <1>4, <1>c, FS_Subset, FS_AddElement
  <2> QED
    BY <1>1, <1>3, <1>4, <1>7, <1>9, <2>1 DEF TrackTypeOK
<1>13. StayNear'
  <2>1. Magnitude(at[t] - at[t]) = 0 /\ 0 <= TrackRadius
    BY <1>4, TrackAssumption DEF Magnitude
  <2> QED
    BY <1>3, <1>7, <2>1 DEF TrackInv, StayNear
<1>14. StayApart'
  <2> SUFFICES ASSUME NEW u \in Wanderers, NEW v \in Wanderers, Alike2(u, v)
               PROVE  /\ Magnitude(at[u] - at[v]) > 2 * TrackRadius
                      /\ seenAt'[v] # -1 => Magnitude(at[u] - seenAt'[v]) > TrackRadius
                      /\ seenAt'[u] # -1 /\ seenAt'[v] # -1 => seenAt'[u] # seenAt'[v]
    BY <1>3 DEF StayApart, Alike2
  <2>1. /\ Magnitude(at[u] - at[v]) > 2 * TrackRadius
        /\ seenAt[v] # -1 => Magnitude(at[u] - seenAt[v]) > TrackRadius
        /\ seenAt[u] # -1 /\ seenAt[v] # -1 => seenAt[u] # seenAt[v]
        /\ seenAt[u] # -1 => Magnitude(at[v] - seenAt[u]) > TrackRadius
        /\ u # v
    BY DEF TrackInv, StayApart, Alike2
  <2>2. at[u] \in Int /\ at[v] \in Int /\ seenAt[u] \in Int /\ seenAt[v] \in Int /\ TrackRadius \in Nat
    BY <1>4, TrackAssumption
  <2>3. Magnitude(at[u] - at[v]) \in Int
    BY <2>2 DEF Magnitude
  <2>4. CASE u = t
    <3>1. seenAt'[u] = at[u] /\ seenAt'[v] = seenAt[v]
      BY <1>7, <2>1, <2>4
    <3>2. seenAt[v] # -1 => at[u] # seenAt[v]
      BY <2>1, <2>2 DEF Magnitude
    <3> QED
      BY <2>1, <3>1, <3>2
  <2>5. CASE v = t
    <3>1. seenAt'[v] = at[v] /\ seenAt'[u] = seenAt[u]
      BY <1>7, <2>1, <2>5
    <3>2. seenAt[u] # -1 => at[v] # seenAt[u]
      BY <2>1, <2>2 DEF Magnitude
    <3>3. Magnitude(at[u] - at[v]) > TrackRadius
      BY <2>1, <2>2, <2>3
    <3> QED
      BY <2>1, <3>1, <3>2, <3>3
  <2>6. CASE u # t /\ v # t
    BY <1>7, <2>1, <2>6
  <2> QED
    BY <2>4, <2>5, <2>6
<1>15. NodesAreThings'
  <2>1. \A n \in nodes' : n.y = 1 /\ n.id[1] = n.label
    BY <1>6, <1>9, <1>c DEF TrackInv, NodesAreThings
  <2>2. IsNodeOf(new, t)'
    BY <1>7, <1>9 DEF IsNodeOf
  <2>3. \A u \in EverSeen, n \in nodes : u # t /\ IsNodeOf(n, u) => IsNodeOf(n, u)'
    BY <1>7 DEF IsNodeOf, EverSeen
  <2>4. \A n \in nodes' : \E u \in EverSeen' : IsNodeOf(n, u)'
    BY <1>8, <1>9, <1>10, <2>2, <2>3
  <2>5. \A u \in EverSeen' : \E n \in nodes' : IsNodeOf(n, u)'
    BY <1>8, <1>9, <1>10, <1>11, <2>2, <2>3
  <2>6. \A n \in others : ~(n.label = new.label /\ n.x = new.x) /\ n.id # new.id
    <3> SUFFICES ASSUME NEW n \in others, n.label = new.label, n.x = new.x PROVE FALSE
      BY <1>9, <1>c
    <3>1. PICK u \in EverSeen : u # t /\ IsNodeOf(n, u)
      BY <1>10
    <3>2. Alike2(t, u) /\ 2 * seenAt[u] = 2 * at[t]
      BY <1>9, <3>1 DEF IsNodeOf, Alike2
    <3>3. Magnitude(at[t] - seenAt[u]) > TrackRadius /\ seenAt[u] \in Int /\ TrackRadius \in Nat
      BY <1>1, <3>1, <3>2, TrackAssumption DEF EverSeen, TrackInv, StayApart, TrackTypeOK
    <3> QED
      BY <1>4, <3>2, <3>3 DEF Magnitude
  <2>7. \A n, m \in nodes' : (n.label = m.label /\ n.x = m.x) \/ n.id = m.id => n = m
    <3>1. \A n, m \in others : (n.label = m.label /\ n.x = m.x) \/ n.id = m.id => n = m
      BY <1>c DEF TrackInv, NodesAreThings
    <3> QED
      BY <1>9, <2>6, <3>1
  <2>8. Cardinality(nodes') = Cardinality(EverSeen')
    <3>1. /\ IsFiniteSet(others) /\ new \notin others /\ Cardinality(others \cup {new}) = Cardinality(others) + 1
      BY <1>4, <1>c, <1>10, FS_Subset, FS_AddElement
    <3>2. Cardinality(nodes) = Cardinality(EverSeen) /\ IsFiniteSet(EverSeen)
      BY TrackAssumption, FS_Subset DEF TrackInv, NodesAreThings, EverSeen
    <3>3. CASE t \in EverSeen
      <4>1. PICK n \in nodes : n.id = id
        BY <1>6, <3>3
      <4>2. others = nodes \ {n}
        BY <1>c, <4>1 DEF TrackInv, NodesAreThings
      <4>3. Cardinality(others) = Cardinality(nodes) - 1 /\ Cardinality(nodes) \in Nat
        BY <1>4, <4>1, <4>2, FS_RemoveElement, FS_CardinalityType
      <4>4. EverSeen' = EverSeen
        BY <1>8, <3>3
      <4> QED
        BY <1>9, <3>1, <3>2, <4>3, <4>4
    <3>4. CASE t \notin EverSeen
      <4>1. others = nodes
        BY <1>6, <1>c, <3>4
      <4>2. Cardinality(EverSeen \cup {t}) = Cardinality(EverSeen) + 1
        BY <3>2, <3>4, FS_AddElement
      <4> QED
        BY <1>8, <1>9, <3>1, <3>2, <4>1, <4>2
    <3> QED
      BY <3>3, <3>4
  <2> QED
    BY <2>1, <2>4, <2>5, <2>7, <2>8 DEF NodesAreThings
<1> QED
  BY <1>12, <1>13, <1>14, <1>15 DEF TrackInv

\* In the world the radius is made for, detections in any order and things overlooked:
\* what was ever seen has one node, where it was seen last, and nothing else has.
THEOREM ThingsAreTrackedOnce == TrackSpec => []TrackedOnce
<1>1. TrackInv /\ [TrackNext]_trackVars => TrackInv'
  <2> SUFFICES ASSUME TrackInv, [TrackNext]_trackVars PROVE TrackInv'
    OBVIOUS
  <2>1. CASE UNCHANGED trackVars
    BY <2>1 DEF trackVars, TrackInv, TrackTypeOK, StayApart, StayNear, NodesAreThings, EverSeen, IsNodeOf, Alike2
  <2> QED
    BY <2>1, StepDetect, StepProject, StepWander DEF TrackNext
<1>2. TrackInv => TrackedOnce
  BY DEF TrackInv, NodesAreThings, TrackedOnce, EverSeen, IsNodeOf
<1> QED
  BY <1>1, <1>2, TrackStarting, PTL DEF TrackSpec
==============================================================================
