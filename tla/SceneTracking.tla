--------------------------- MODULE SceneTracking ---------------------------
(****************************************************************************)
(* Things that move while the camera is not looked at, and the nodes that   *)
(* vision_projector.ts keeps for them: a detection updates the nearest node *)
(* of its label within a radius, or makes a new one; nothing removes nodes. *)
(****************************************************************************)
EXTENDS SceneGraph, Sequences

CONSTANTS
  Wanderers, Label,   \* things that move, and what the model calls each of them
  Start,           \* the x of each at first
  TrackRadius,     \* matchRadiusCm
  Far              \* bound: the last x

VARIABLES
  at,       \* thing -> its x
  seenAt,   \* thing -> its x when it was last detected, or -1
  nodes,    \* the graph without the robot
  queue     \* detections of the answer that are not projected yet

trackVars == <<at, seenAt, nodes, queue>>

TrackInit ==
  /\ at = Start /\ seenAt = [t \in Wanderers |-> -1] /\ nodes = {} /\ queue = <<>>

\* Two things of one label.
Alike2(t, u) == t # u /\ Label[t] = Label[u]

ASSUME TrackAssumption ==
  /\ IsFiniteSet(Wanderers) /\ TrackRadius \in Nat
  /\ NormalizedMax \in Nat \ {0} /\ Far \in 0 .. NormalizedMax
  /\ Start \in [Wanderers -> 0 .. Far]
  /\ \A t, u \in Wanderers : Alike2(t, u) => Magnitude(Start[t] - Start[u]) > 2 * TrackRadius

\* The world the radius is made for: between two looks a thing goes no further than
\* the radius, and things of one label stay more than two radii apart.
Wander(t) ==
  /\ queue = <<>>
  /\ \E x \in 0 .. Far :
       /\ seenAt[t] = -1 \/ Square(x - seenAt[t]) <= Square(TrackRadius)
       /\ \A u \in Wanderers : Alike2(t, u) =>
            /\ Magnitude(x - at[u]) > 2 * TrackRadius
            /\ seenAt[u] # -1 => Magnitude(x - seenAt[u]) > TrackRadius
       /\ at' = [at EXCEPT ![t] = x]
  /\ UNCHANGED <<seenAt, nodes, queue>>

\* parseGeminiSceneResponse(): the detections the model gave, in its order; it may
\* overlook things.
Detect ==
  /\ queue = <<>>
  /\ \E S \in SUBSET Wanderers :
       /\ S # {}
       /\ \E f \in [1 .. Cardinality(S) -> S] :
            /\ \A t \in S : \E i \in DOMAIN f : f[i] = t
            /\ queue' = f
  /\ UNCHANGED <<at, seenAt, nodes>>

\* projectGeminiObject() of the next one: a box of two units around it.
Project ==
  /\ queue # <<>>
  /\ LET t == Head(queue)
         place == projectBox(<<0, at[t], 1, at[t]>>)
     IN /\ \E id \in findOrCreateId(nodes, Label[t], place, 2 * TrackRadius) :
             nodes' = addOrUpdateNode(nodes, id, Label[t], place)
        /\ seenAt' = [seenAt EXCEPT ![t] = at[t]]
  /\ queue' = Tail(queue)
  /\ UNCHANGED at

TrackNext == Detect \/ Project \/ \E t \in Wanderers : Wander(t)
TrackSpec == TrackInit /\ [][TrackNext]_trackVars

\* In that world every thing ever seen has one node, where it was seen last, and
\* nothing else has: no ghosts block the way and no two things share a node.
TrackedOnce ==
  /\ Cardinality(nodes) = Cardinality({t \in Wanderers : seenAt[t] # -1})
  /\ \A t \in Wanderers : seenAt[t] # -1 =>
       \E n \in nodes : n.label = Label[t] /\ n.x = 2 * seenAt[t]
=============================================================================
