--------------------------- MODULE CartridgeProofs ---------------------------
(****************************************************************************)
(* What holds of the cartridge adapter for every number of sockets, ids and *)
(* requests.  Each property has its strengthening, kept by every step.      *)
(****************************************************************************)
EXTENDS Cartridge, TLAPS

USE DEF Events, InFlight, Planning

LEMMA InitTyped == Init => TypeOK
BY DEF Init, TypeOK

LEMMA StepTyped ==
  ASSUME TypeOK, [Next]_vars
  PROVE  TypeOK'
<1>1. ASSUME NEW r \in Requests, Refuse(r) PROVE TypeOK'
  BY <1>1 DEF Refuse, TypeOK, clients, loop
<1>2. ASSUME NEW r \in Requests, CallQuick(r) PROVE TypeOK'
  BY <1>2 DEF CallQuick, Accept, TypeOK, clients, loop
<1>3. ASSUME NEW r \in Requests, CallNavigate(r) PROVE TypeOK'
  BY <1>3 DEF CallNavigate, Accept, TypeOK, clients, loop
<1>4. ASSUME NEW r \in Requests, CallStop(r) PROVE TypeOK'
  BY <1>4 DEF CallStop, Accept, TypeOK, clients, loop
<1>5. ASSUME NEW r \in Requests, Planned(r) PROVE TypeOK'
  BY <1>5 DEF Planned, Finish, TypeOK, clients
<1>6. ASSUME NEW r \in Requests, GiveUp(r) \/ Sent(r) PROVE TypeOK'
  BY <1>6 DEF GiveUp, Sent, Finish, TypeOK, clients, loop
<1>7. ASSUME NEW w \in Sockets, Closing(w) PROVE TypeOK'
  BY <1>7 DEF Closing, TypeOK, loop
<1>8. ASSUME NEW w \in Sockets, Closed(w) PROVE TypeOK'
  BY <1>8 DEF Closed, TypeOK, loop
<1>9. CASE PerceiveFrame
  BY <1>9 DEF PerceiveFrame, TypeOK, clients
<1>10. ASSUME NEW e \in Events, Raise(e) PROVE TypeOK'
  BY <1>10 DEF Raise, Hearers, Cleanup, TypeOK, clients
<1>11. CASE Pass \/ UNCHANGED vars
  BY <1>11 DEF Pass, vars, TypeOK, clients, loop
<1> QED
  BY <1>1, <1>2, <1>3, <1>4, <1>5, <1>6, <1>7, <1>8, <1>9, <1>10, <1>11 DEF Next

\* For every number of sockets, ids and requests the variables keep their
\* ranges; the table holds requests and nothing else.
THEOREM TypeCorrect == Spec => []TypeOK
BY InitTyped, StepTyped, PTL DEF Spec

-----------------------------------------------------------------------------
(* Cancelling *)

\* As long as clients keep their ids apart, those in flight have different ids,
\* each is in the table or cancelled, and cancelled if its socket has closed.
Tabled ==
  distinct =>
    /\ \A q, r \in InFlight : id[q] = id[r] => q = r
    /\ \A r \in InFlight : r \in cancelled \/ cancelMap[id[r]] = r
    /\ \A r \in InFlight : socket[from[r]] = "closed" => r \in cancelled

\* A new request in flight.
LEMMA AcceptTables ==
  ASSUME TypeOK, Tabled, NEW r \in Requests, NEW where \in {"planning", "sending"},
         Accept(r, where), cancelMap' = [cancelMap EXCEPT ![id[r]] = r]
  PROVE  Tabled'
<1> SUFFICES ASSUME distinct' PROVE Tabled'
  BY DEF Tabled
<1>1. distinct /\ \A q \in InFlight : id[q] # id[r]
  BY DEF Accept
<1>2. InFlight' = InFlight \cup {r} /\ socket[from[r]] = "open"
  BY DEF Accept, TypeOK
<1>3. UNCHANGED <<socket, from, id, cancelled>>
  BY DEF Accept, clients
<1>4. cancelMap'[id[r]] = r /\ \A q \in InFlight : cancelMap'[id[q]] = cancelMap[id[q]]
  BY <1>1 DEF TypeOK
<1> QED BY <1>1, <1>2, <1>3, <1>4 DEF Tabled

\* The end of a request: the entry it deletes is its own.
LEMMA FinishTables ==
  ASSUME TypeOK, Tabled, NEW r \in InFlight, Finish(r),
         UNCHANGED <<socket, from, id, cancelled, distinct>>
  PROVE  Tabled'
<1> SUFFICES ASSUME distinct PROVE Tabled'
  BY DEF Tabled
<1>1. InFlight' = InFlight \ {r}
  BY DEF Finish, TypeOK
<1>2. \A q \in InFlight' : id[q] # id[r]
  BY <1>1 DEF Tabled
<1>3. \A q \in InFlight' : cancelMap'[id[q]] = cancelMap[id[q]]
  BY <1>1, <1>2 DEF Finish, TypeOK
<1> QED BY <1>1, <1>3 DEF Tabled

LEMMA StepTables ==
  ASSUME TypeOK, Tabled, [Next]_vars
  PROVE  Tabled'
<1>1. ASSUME NEW r \in Requests, Refuse(r) PROVE Tabled'
  <2>1. InFlight' = InFlight
    BY <1>1 DEF Refuse, TypeOK
  <2> QED BY <1>1, <2>1 DEF Refuse, Tabled, clients
<1>2. ASSUME NEW r \in Requests, CallQuick(r) PROVE Tabled'
  <2>1. InFlight' = InFlight
    BY <1>2 DEF CallQuick, Accept, TypeOK
  <2>2. distinct' => distinct /\ \A q \in InFlight : id[q] # id[r]
    BY <1>2 DEF CallQuick, Accept
  <2>3. distinct' => \A q \in InFlight : cancelMap'[id[q]] = cancelMap[id[q]]
    BY <1>2, <2>2 DEF CallQuick, TypeOK
  <2> QED BY <1>2, <2>1, <2>2, <2>3 DEF CallQuick, Accept, Tabled, clients
<1>3. ASSUME NEW r \in Requests, CallNavigate(r) PROVE Tabled'
  BY <1>3, AcceptTables DEF CallNavigate
<1>4. ASSUME NEW r \in Requests, CallStop(r) PROVE Tabled'
  BY <1>4, AcceptTables DEF CallStop
<1>5. ASSUME NEW r \in Requests, Planned(r) \/ GiveUp(r) \/ Sent(r) PROVE Tabled'
  <2>1. r \in InFlight
    BY <1>5 DEF Planned, GiveUp, Sent
  <2>2. Finish(r) /\ UNCHANGED <<socket, from, id, cancelled, distinct>>
    BY <1>5 DEF Planned, GiveUp, Sent, clients
  <2> QED BY <2>1, <2>2, FinishTables
<1>6. ASSUME NEW w \in Sockets, Closing(w) PROVE Tabled'
  BY <1>6 DEF Closing, Tabled, TypeOK
<1>7. ASSUME NEW w \in Sockets, Closed(w) PROVE Tabled'
  <2>1. UNCHANGED <<phase, from, id, distinct>>
    BY <1>7 DEF Closed
  <2>2. \A r \in InFlight : cancelMap[id[r]] = r => r \in cancelled'
    BY <1>7, NoneAssumption DEF Closed, TypeOK
  <2>3. distinct => \A r \in InFlight : r \in cancelled'
    BY <1>7, <2>2 DEF Closed, Tabled
  <2> QED BY <2>1, <2>3 DEF Tabled
<1>8. CASE PerceiveFrame \/ Pass
  BY <1>8 DEF PerceiveFrame, Pass, Tabled, clients
<1>9. ASSUME NEW e \in Events, Raise(e) PROVE Tabled'
  BY <1>9 DEF Raise, Tabled, clients
<1>10. CASE UNCHANGED vars
  BY <1>10 DEF vars, Tabled, clients
<1> QED
  BY <1>1, <1>2, <1>3, <1>4, <1>5, <1>6, <1>7, <1>8, <1>9, <1>10 DEF Next

\* For every number of sockets and overlapping requests: a request whose client
\* is gone gives the loop no goal, provided ids in flight are kept apart.
THEOREM TheGoneStartNothing == Spec => GoneStartNothing
<1>1. Init => Tabled
  BY DEF Init, Tabled
<1>2. ASSUME TypeOK, Tabled, [Next]_vars, NEW r \in Requests, loopGoal # r, loopGoal' = r,
             distinct
      PROVE  socket[from[r]] # "closed"
  <2>1. \E q \in Requests : Planned(q)
    BY <1>2 DEF Next, vars, loop, Refuse, CallQuick, CallNavigate, CallStop, GiveUp,
                Sent, Closing, Closed, PerceiveFrame, Pass, Raise
  <2>2. Planned(r)
    BY <1>2, <2>1 DEF Planned
  <2> QED BY <1>2, <2>2 DEF Planned, Tabled
<1>3. TypeOK /\ Tabled /\ [Next]_vars =>
        [\A r \in Requests : loopGoal # r /\ loopGoal' = r /\ distinct =>
           socket[from[r]] # "closed"]_vars
  BY <1>2
<1> QED BY <1>1, <1>3, InitTyped, StepTyped, StepTables, PTL DEF Spec, GoneStartNothing

-----------------------------------------------------------------------------
(* Listening *)

\* Listeners belong to navigations that have been answered, and to no one who
\* was told how his navigation ended.
Told ==
  /\ \A r \in Requests, e \in Events :
       <<r, e>> \in listeners \cup told => phase[r] = "done"
  /\ \A r \in Requests, d, e \in Events : <<r, d>> \in told => <<r, e>> \notin listeners

LInv == Told /\ ToldOnce /\ Attended

\* A step that leaves the loop and its listeners alone, but for a stop.
LEMMA QuietKeepsListening ==
  ASSUME TypeOK, LInv, UNCHANGED <<listeners, told, loopGoal>>, loopRunning' => loopRunning,
         \A r \in Requests : phase[r] = "done" => phase'[r] = "done"
  PROVE  LInv'
BY DEF LInv, Told, ToldOnce, Attended

LEMMA PlannedKeepsListening ==
  ASSUME TypeOK, LInv, NEW r \in Requests, Planned(r)
  PROVE  LInv'
<1>1. phase[r] = "planning" /\ phase' = [phase EXCEPT ![r] = "done"]
      /\ loopGoal' = r /\ listeners' = listeners \cup ({r} \X Events) /\ told' = told
  BY DEF Planned, Finish
<1>2. Told'
  BY <1>1 DEF LInv, Told, TypeOK
<1>3. ToldOnce'
  BY <1>1 DEF LInv, ToldOnce
<1>4. Attended'
  BY <1>1 DEF Attended
<1> QED BY <1>2, <1>3, <1>4 DEF LInv

\* An event tells whoever listens, and takes him off.
LEMMA RaiseKeepsListening ==
  ASSUME TypeOK, LInv, NEW e \in Events, Raise(e)
  PROVE  LInv'
<1> DEFINE hearers == Hearers(e)
<1>1. /\ told' = told \cup (hearers \X {e})
      /\ UNCHANGED <<phase, loopRunning, loopGoal>>
  BY DEF Raise
<1>2. \A r \in hearers : r \in Requests /\ <<r, e>> \in listeners
  BY DEF Hearers
<1>3. \A r \in Requests, d \in Events :
        <<r, d>> \in listeners' <=> <<r, d>> \in listeners /\ r \notin hearers
  BY DEF Raise, Cleanup
<1> HIDE DEF hearers
<1>4. \A r \in Requests, d \in Events :
        <<r, d>> \in told' <=> \/ <<r, d>> \in told
                               \/ r \in hearers /\ d = e
  BY <1>1
<1>5. Told'
  BY <1>1, <1>2, <1>3, <1>4 DEF LInv, Told
<1>6. ToldOnce'
  BY <1>2, <1>4 DEF LInv, Told, ToldOnce
<1>7. Attended'
  <2> SUFFICES ASSUME loopRunning PROVE Attended'
    BY <1>1 DEF Attended
  <2>1. CASE \E d \in Events : <<loopGoal, d>> \in told
    BY <1>1, <2>1 DEF Attended
  <2>2. CASE \A d \in Events : <<loopGoal, d>> \in listeners
    <3>1. loopGoal \in Requests
      BY <2>2 DEF TypeOK
    <3> QED BY <1>1, <1>3, <1>4, <2>2, <3>1 DEF Attended
  <2> QED BY <2>1, <2>2 DEF LInv, Attended
<1> QED BY <1>5, <1>6, <1>7 DEF LInv

LEMMA StepKeepsListening ==
  ASSUME TypeOK, LInv, [Next]_vars
  PROVE  LInv'
<1>1. ASSUME NEW r \in Requests, Planned(r) PROVE LInv'
  BY <1>1, PlannedKeepsListening
<1>2. ASSUME NEW e \in Events, Raise(e) PROVE LInv'
  BY <1>2, RaiseKeepsListening
<1>3. ASSUME NEW r \in Requests,
             Refuse(r) \/ CallQuick(r) \/ CallNavigate(r) \/ CallStop(r)
               \/ GiveUp(r) \/ Sent(r)
      PROVE  LInv'
  <2>1. UNCHANGED <<listeners, told, loopGoal>> /\ (loopRunning' => loopRunning)
    BY <1>3 DEF Refuse, CallQuick, CallNavigate, CallStop, GiveUp, Sent, Accept, loop
  <2>2. phase[r] # "done" /\ \E p : phase' = [phase EXCEPT ![r] = p]
    BY <1>3 DEF Refuse, CallQuick, CallNavigate, CallStop, GiveUp, Sent, Accept, Finish
  <2> QED BY <2>1, <2>2, QuietKeepsListening DEF TypeOK
<1>4. CASE (\E w \in Sockets : Closing(w) \/ Closed(w)) \/ PerceiveFrame \/ Pass
             \/ UNCHANGED vars
  BY <1>4, QuietKeepsListening DEF Closing, Closed, PerceiveFrame, Pass, vars, loop
<1> QED BY <1>1, <1>2, <1>3, <1>4 DEF Next

LEMMA ListeningHolds == Spec => [](TypeOK /\ LInv)
<1>1. Init => LInv
  BY DEF Init, LInv, Told, ToldOnce, Attended
<1> QED BY <1>1, InitTyped, StepTyped, StepKeepsListening, PTL DEF Spec

\* Whatever perceptions find in whatever order, and however many navigations
\* overlap, each caller is told one end.
THEOREM EachIsToldOnce == Spec => []ToldOnce
<1>1. LInv => ToldOnce
  BY DEF LInv
<1> QED BY ListeningHolds, <1>1, PTL

\* The loop drives for no one who would not hear the end.
THEOREM DriversAreAttended == Spec => []Attended
<1>1. LInv => Attended
  BY DEF LInv
<1> QED BY ListeningHolds, <1>1, PTL

-----------------------------------------------------------------------------
(* Stopping *)

\* After an attentive stop there is no planning whose plan would start the loop.
Stopped == halted /\ attentive => ~loopRunning /\ Planning = {}

LEMMA StepKeepsStopped ==
  ASSUME TypeOK, Stopped, [Next]_vars
  PROVE  Stopped'
<1>1. ASSUME NEW r \in Requests, CallNavigate(r) PROVE Stopped'
  BY <1>1 DEF CallNavigate, Stopped
<1>2. ASSUME NEW r \in Requests, CallStop(r) PROVE Stopped'
  BY <1>2 DEF CallStop, Accept, Stopped, TypeOK
<1>3. ASSUME NEW r \in Requests, Planned(r) PROVE Stopped'
  BY <1>3 DEF Planned, Stopped
<1>4. ASSUME NEW r \in Requests, Refuse(r) \/ CallQuick(r) \/ GiveUp(r) \/ Sent(r)
      PROVE  Stopped'
  <2>1. UNCHANGED <<loopRunning, halted, attentive>> /\ phase' = [phase EXCEPT ![r] = "done"]
    BY <1>4 DEF Refuse, CallQuick, GiveUp, Sent, Accept, Finish, loop
  <2>2. Planning' \subseteq Planning
    BY <2>1 DEF TypeOK
  <2> QED BY <2>1, <2>2 DEF Stopped
<1>5. CASE \/ \E w \in Sockets : Closing(w) \/ Closed(w)
           \/ PerceiveFrame \/ Pass \/ \E e \in Events : Raise(e)
           \/ UNCHANGED vars
  BY <1>5 DEF Closing, Closed, PerceiveFrame, Pass, Raise, vars, loop, Stopped
<1> QED BY <1>1, <1>2, <1>3, <1>4, <1>5 DEF Next

\* A stop that interrupts no planning is final until the next call of navigate.
THEOREM StopsHold == Spec => []StopHolds
<1>1. Init => Stopped
  BY DEF Init, Stopped
<1>2. Stopped => StopHolds
  BY DEF Stopped, StopHolds
<1> QED BY <1>1, <1>2, InitTyped, StepTyped, StepKeepsStopped, PTL DEF Spec
=============================================================================
