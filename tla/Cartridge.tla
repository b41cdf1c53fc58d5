------------------------------ MODULE Cartridge ------------------------------
(****************************************************************************)
(* The robot as a cartridge (cartridge/adapter.ts, cartridge/methods.ts):   *)
(* sockets carry calls of robot.navigate, robot.stop and of methods that    *)
(* answer at once.  All sockets share one table of cancel functions, and    *)
(* all calls the one VisionLoop, on which each navigation registers two     *)
(* listeners that outlive its answer.  An action is what JavaScript runs    *)
(* between two awaits.                                                      *)
(****************************************************************************)
CONSTANTS
  Sockets, Ids,  \* connections, and the ids clients give their requests
  Requests,      \* the requests that may be made, each at most once
  None

ASSUME NoneAssumption == None \notin Requests

VARIABLES
  socket,     \* socket -> its readyState
  phase,      \* request -> where its handler is
  from, id,   \* request -> its socket, its id
  cancelMap,  \* id -> the request its cancel function belongs to
  cancelled,  \* the requests whose cancelled() is true
  loopRunning,    \* visionLoop.isRunning()
  loopGoal,       \* the navigation whose first step is the loop's goal
  eye,        \* a perception is under way
  listeners,  \* <<request, event>> registered on the loop
  told,       \* history: <<request, event>> emitted to the caller
  distinct,   \* history: no id was used while a request of that id was in flight
  halted,     \* history: robot.stop came after the last call of navigate
  attentive   \* history: robot.stop never came while a navigation was planned

clients == <<socket, from, id>>
loop    == <<loopRunning, loopGoal, eye>>
vars    == <<clients, phase, cancelMap, cancelled, loop, listeners, told,
             distinct, halted, attentive>>

Events    == {"arrival", "stuck"}
InFlight  == {r \in Requests : phase[r] \in {"planning", "sending"}}
Planning  == {r \in Requests : phase[r] = "planning"}

TypeOK ==
  /\ socket \in [Sockets -> {"open", "closing", "closed"}]
  /\ phase \in [Requests -> {"new", "planning", "sending", "done"}]
  /\ from \in [Requests -> Sockets]
  /\ id \in [Requests -> Ids]
  /\ cancelMap \in [Ids -> Requests \cup {None}]
  /\ cancelled \subseteq Requests
  /\ loopGoal \in Requests \cup {None}
  /\ listeners \subseteq Requests \X Events
  /\ told \subseteq Requests \X Events
  /\ {loopRunning, eye, distinct, halted, attentive} \subseteq BOOLEAN

\* What the clients will put into their requests is chosen at the start.
Init ==
  /\ socket = [w \in Sockets |-> "open"]
  /\ phase = [r \in Requests |-> "new"]
  /\ from \in [Requests -> Sockets]
  /\ id \in [Requests -> Ids]
  /\ cancelMap = [i \in Ids |-> None]
  /\ cancelled = {}
  /\ loopRunning = FALSE /\ loopGoal = None /\ eye = FALSE
  /\ listeners = {} /\ told = {}
  /\ distinct = TRUE /\ halted = FALSE /\ attentive = TRUE

-----------------------------------------------------------------------------
(* The adapter *)

\* A message on an open socket that names a method: its canceller is stored.
Accept(r, where) ==
  /\ phase[r] = "new"
  /\ socket[from[r]] = "open"
  /\ phase' = [phase EXCEPT ![r] = where]
  /\ distinct' = (distinct /\ \A q \in InFlight : id[q] # id[r])
  /\ UNCHANGED <<clients, cancelled, told>>

\* The finally of the handler: the entry of this id goes, whoever owns it.
Finish(r) ==
  /\ phase' = [phase EXCEPT ![r] = "done"]
  /\ cancelMap' = [cancelMap EXCEPT ![id[r]] = None]

\* JSON that does not parse, another cartridge's call, a method there is not.
Refuse(r) ==
  /\ phase[r] = "new"
  /\ socket[from[r]] = "open"
  /\ phase' = [phase EXCEPT ![r] = "done"]
  /\ UNCHANGED <<clients, cancelMap, cancelled, loop, listeners, told, distinct,
                 halted, attentive>>

\* observe, describe, set_speed, and speak and listen without an IOAdapter: the
\* await of their result ends in the same turn.
CallQuick(r) ==
  /\ Accept(r, "done")
  /\ cancelMap' = [cancelMap EXCEPT ![id[r]] = None]
  /\ UNCHANGED <<loop, listeners, halted, attentive>>

CallNavigate(r) ==
  /\ Accept(r, "planning")
  /\ cancelMap' = [cancelMap EXCEPT ![id[r]] = r]
  /\ halted' = FALSE
  /\ UNCHANGED <<loop, listeners, attentive>>

\* robot.stop up to the transmission of its frame.
CallStop(r) ==
  /\ Accept(r, "sending")
  /\ cancelMap' = [cancelMap EXCEPT ![id[r]] = r]
  /\ loopRunning' = FALSE
  /\ halted' = TRUE
  /\ attentive' = (attentive /\ Planning = {})
  /\ UNCHANGED <<loopGoal, eye, listeners>>

\* The client or the network begins to close: nothing is sent any more.
Closing(w) ==
  /\ socket[w] = "open"
  /\ socket' = [socket EXCEPT ![w] = "closing"]
  /\ UNCHANGED <<phase, from, id, cancelMap, cancelled, loop, listeners, told,
                 distinct, halted, attentive>>

\* Slip: the table is emptied and nobody cancelled.
ClosedForgetting(w) ==
  /\ socket[w] # "closed"
  /\ socket' = [socket EXCEPT ![w] = "closed"]
  /\ cancelMap' = [i \in Ids |-> None]
  /\ UNCHANGED <<phase, from, id, cancelled, loop, listeners, told, distinct,
                 halted, attentive>>

\* The close event cancels every request in the table, of whichever socket.
Closed(w) ==
  /\ socket[w] # "closed"
  /\ socket' = [socket EXCEPT ![w] = "closed"]
  /\ cancelled' = cancelled \cup ({cancelMap[i] : i \in Ids} \ {None})
  /\ cancelMap' = [i \in Ids |-> None]
  /\ UNCHANGED <<phase, from, id, loop, listeners, told, distinct, halted,
                 attentive>>

-----------------------------------------------------------------------------
(* robot.navigate and robot.stop after their awaits *)

\* Slip: listeners are registered only with a loop this call starts.
PlannedUnheard(r) ==
  /\ phase[r] = "planning"
  /\ r \notin cancelled
  /\ loopGoal' = r
  /\ loopRunning' = TRUE
  /\ listeners' = IF loopRunning THEN listeners ELSE listeners \cup ({r} \X Events)
  /\ Finish(r)
  /\ UNCHANGED <<clients, cancelled, eye, told, distinct, halted, attentive>>

\* The plan is there: the loop gets the goal, and is started unless it runs.
Planned(r) ==
  /\ phase[r] = "planning"
  /\ r \notin cancelled
  /\ loopGoal' = r
  /\ loopRunning' = TRUE
  /\ listeners' = listeners \cup ({r} \X Events)
  /\ Finish(r)
  /\ UNCHANGED <<clients, cancelled, eye, told, distinct, halted, attentive>>

\* The call was cancelled, or planning threw.
GiveUp(r) ==
  /\ phase[r] = "planning"
  /\ Finish(r)
  /\ UNCHANGED <<clients, cancelled, loop, listeners, told, distinct, halted,
                 attentive>>

\* The frame of robot.stop went out, or the transmitter gave up on it.
Sent(r) ==
  /\ phase[r] = "sending"
  /\ Finish(r)
  /\ UNCHANGED <<clients, cancelled, loop, listeners, told, distinct, halted,
                 attentive>>

-----------------------------------------------------------------------------
(* The loop *)

\* Slip: an arrival takes only its own listener off.
CleanupOwn(ls, rs, e) == ls \ (rs \X {e})

\* cleanup() of the callers that were told e.
Cleanup(ls, rs, e) == {l \in ls : l[1] \notin rs}

Hearers(e) == {r \in Requests : <<r, e>> \in listeners}

PerceiveFrame ==
  /\ loopRunning /\ ~eye
  /\ eye' = TRUE
  /\ UNCHANGED <<clients, phase, cancelMap, cancelled, loopRunning, loopGoal, listeners,
                 told, distinct, halted, attentive>>

\* A frame is answered by a motion that is no reason to raise an event.
Pass ==
  /\ eye
  /\ eye' = FALSE
  /\ UNCHANGED <<clients, phase, cancelMap, cancelled, loopRunning, loopGoal, listeners,
                 told, distinct, halted, attentive>>

\* The robot arrived, or is stuck; a stop does not recall a frame whose inference
\* is under way.
Raise(e) ==
  /\ eye
  /\ eye' = FALSE
  /\ told' = told \cup (Hearers(e) \X {e})
  /\ listeners' = Cleanup(listeners, Hearers(e), e)
  /\ UNCHANGED <<clients, phase, cancelMap, cancelled, loopRunning, loopGoal, distinct,
                 halted, attentive>>

Next ==
  \/ \E r \in Requests : \/ Refuse(r) \/ CallQuick(r) \/ CallNavigate(r)
                         \/ CallStop(r) \/ Planned(r) \/ GiveUp(r) \/ Sent(r)
  \/ \E w \in Sockets : Closing(w) \/ Closed(w)
  \/ PerceiveFrame \/ Pass
  \/ \E e \in Events : Raise(e)

Spec == Init /\ [][Next]_vars

-----------------------------------------------------------------------------
(* Properties *)

\* Whatever socket closes and however calls overlap, a request whose client is
\* gone gives the loop no goal and starts nothing, provided clients do not reuse
\* an id that is in flight: its cancel function is in the shared table until
\* the close, and no other request's finally takes it out.
GoneStartNothing ==
  [][\A r \in Requests : loopGoal # r /\ loopGoal' = r /\ distinct =>
       socket[from[r]] # "closed"]_vars

\* A caller is told how its navigation ended once: cleanup() takes both
\* listeners off, before an event that another caller's navigation raises later
\* can reach the other one.
ToldOnce ==
  \A r \in Requests : ~(<<r, "arrival">> \in told /\ <<r, "stuck">> \in told)

\* The loop never drives for a caller that would not hear the end: whoever's
\* goal the loop has is listening for both events or was told already, although
\* listeners belong to calls and the goal to the last of them.
Attended ==
  loopRunning => \/ \A e \in Events : <<loopGoal, e>> \in listeners
             \/ \E e \in Events : <<loopGoal, e>> \in told

\* After robot.stop the loop stays stopped until navigate is called again, as
\* long as no stop came in the middle of a planning.
StopHolds == halted /\ attentive => ~loopRunning
=============================================================================
