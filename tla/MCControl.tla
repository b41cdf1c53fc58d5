----------------------------- MODULE MCControl -----------------------------
(****************************************************************************)
(* What drives the robot and what stands in for it, one part per behaviour: *)
(* they share no state.  The two dual loops with a cup on the robot's way   *)
(* and a tin behind it, the tracking of things, the status link, and the    *)
(* bridges of the simulations.                                              *)
(****************************************************************************)
EXTENDS ControlLoop, EgoLoop, SceneTracking, StatusLink, SimBridge, TLC

CONSTANTS a1, a2
VARIABLE part
sceneVars == <<controlVars, egoVars, trackVars>>
loopVars == <<part, sceneVars, linkVars, simVars>>

Box(a, b) == [x |-> a, y |-> b, w |-> 0, h |-> 0, heading |-> 0]
MCThings == {"cup", "tin"}
MCWhere == [cup |-> Box(8, 1), tin |-> Box(11, 2)]
MCResembles == [cup |-> {"tin"}, tin |-> {"cup"}]
MCRobotStart == [x |-> 0, y |-> 1, w |-> 1, h |-> 1, heading |-> 0]

MCWanderers == {"cup1", "cup2", "ball"}
MCLabel == [cup1 |-> "cup", cup2 |-> "cup", ball |-> "ball"]
MCStart == [cup1 |-> 0, cup2 |-> 5, ball |-> 1]

Find(l, r, t, b, marked) ==
  [xmin |-> l, xmax |-> r, ymin |-> t, ymax |-> b, is_target |-> marked]
MCFinds == {Find(4, 6, 2, 5, TRUE), Find(3, 8, 6, 10, TRUE), Find(0, 2, 4, 6, TRUE),
            Find(2, 8, 3, 9, TRUE), Find(2, 8, 3, 9, FALSE), Find(8, 10, 4, 6, TRUE),
            Find(0, 3, 7, 10, FALSE)}


MCSeq == (a1 :> 1) @@ (a2 :> 258)
Alike == Permutations(Queries) \cup Permutations(Browsers)

Frame(o, l, r) == [opcode |-> o, left |-> l, right |-> r]
MCFrames == {Frame("MOVE_FORWARD", 1, 1), Frame("ROTATE_CW", 2, 0), Frame("STOP", 0, 0),
             Frame("LED_SET", 0, 0), Frame("GET_STATUS", 0, 0)}
MCTargets == <<1, 0>>

\* Bound: any three of the four calls are made.
AskedEnough == \E c \in Calls : call[c] = "new"

LoopsInit ==
  /\ part \in {"overhead", "ego", "tracking", "link", "sim"}
  /\ ControlInit /\ EgoInit /\ TrackInit /\ LinkInit /\ SimInit
  /\ part # "overhead" => wanted = "cup"

LoopsNext ==
  /\ UNCHANGED part
  /\ \/ part = "overhead" /\ ControlNext /\ UNCHANGED <<egoVars, trackVars, linkVars, simVars>>
     \/ part = "ego" /\ EgoNext /\ UNCHANGED <<controlVars, trackVars, linkVars, simVars>>
     \/ part = "tracking" /\ TrackNext /\ UNCHANGED <<controlVars, egoVars, linkVars, simVars>>
     \/ part = "link" /\ LinkNext /\ AskedEnough' /\ UNCHANGED <<sceneVars, simVars>>
     \/ part = "sim" /\ SimNext /\ UNCHANGED <<sceneVars, linkVars>>

LoopsSpec == LoopsInit /\ [][LoopsNext]_loopVars
=============================================================================
