----------------------------- MODULE SceneGraph -----------------------------
(****************************************************************************)
(* The geometry the fast loop decides on: brain/memory/scene_graph.ts and   *)
(* brain/perception/vision_projector.ts.  Lengths are in half units of the  *)
(* image, so that the centre of a box is a whole number and half its size   *)
(* is its size in units; headings are quarter turns (0 along +X, 1 along    *)
(* +Y); everything stands on the floor, so that heights always overlap.     *)
(****************************************************************************)
EXTENDS Integers, FiniteSetsExt

CONSTANT NormalizedMax   \* NORMALIZED_MAX: the image's range

Along == [q \in 0 .. 3 |-> <<1, 0, -1, 0>>[q + 1]]    \* x of the heading
Across == [q \in 0 .. 3 |-> <<0, 1, 0, -1>>[q + 1]]   \* y of the heading

Least(a, b) == IF a < b THEN a ELSE b
Greatest(a, b) == IF a > b THEN a ELSE b
Magnitude(n) == IF n < 0 THEN -n ELSE n

\* getWorldAABB() of a node [x, y, w, h, heading].
WorldAABB(n) ==
  LET w == IF n.heading % 2 = 0 THEN n.w ELSE n.h
      h == IF n.heading % 2 = 0 THEN n.h ELSE n.w
  IN [left |-> n.x - w, right |-> n.x + w, top |-> n.y - h, bottom |-> n.y + h]

\* getForwardSweptAABB(): the box on its way along the heading; a negative
\* distance is backwards.
ForwardSweptAABB(n, distance) ==
  LET box == WorldAABB(n)
      dx == Along[n.heading] * distance
      dy == Across[n.heading] * distance
  IN [left |-> Least(box.left, box.left + dx), right |-> Greatest(box.right, box.right + dx),
      top |-> Least(box.top, box.top + dy), bottom |-> Greatest(box.bottom, box.bottom + dy)]

\* Touching boxes overlap.
aabbIntersect(a, b) ==
  /\ a.left <= b.right /\ a.right >= b.left
  /\ a.top <= b.bottom /\ a.bottom >= b.top

\* The obstacles a move would touch; the first of them is the one reported.
predictForwardCollision(robot, obstacles, distance) ==
  {n \in obstacles : aabbIntersect(ForwardSweptAABB(robot, distance), WorldAABB(n))}

-----------------------------------------------------------------------------
(* Projection of a detection *)

Clamp(v) == IF v < 0 THEN 0 ELSE IF v > NormalizedMax THEN NormalizedMax ELSE v

\* projectBoxToArenaCm() of [ymin, xmin, ymax, xmax], in any order and a little out
\* of range; projectGeminiObject() makes nothing smaller than one unit.
projectBox(box) ==
  LET y1 == Clamp(Least(box[1], box[3]))   y2 == Clamp(Greatest(box[1], box[3]))
      x1 == Clamp(Least(box[2], box[4]))   x2 == Clamp(Greatest(box[2], box[4]))
  IN [x |-> x1 + x2, y |-> y1 + y2,
      w |-> Greatest(x2 - x1, 1), h |-> Greatest(y2 - y1, 1), heading |-> 0]

Square(n) == n * n
Distance2(a, b) == Square(a.x - b.x) + Square(a.y - b.y)

\* Math.hypot, rounded down to a unit.
Hypot(dx, dy) ==
  CHOOSE d \in 0 .. (Magnitude(dx) + Magnitude(dy)) :
    Square(d) <= Square(dx) + Square(dy) /\ Square(d + 1) > Square(dx) + Square(dy)

\* Slip: what it is called does not matter.
findAnyId(nodes, label, place, radius) ==
  LET near == {n \in nodes : Distance2(n, place) <= Square(radius)}
      nearest == {n \in near : \A o \in near : Distance2(n, place) <= Distance2(o, place)}
      taken == {n.id[2] : n \in {m \in nodes : m.id[1] = label}}
  IN IF nearest # {} THEN {n.id : n \in nearest}
     ELSE {<<label, i>> : i \in {k \in 0 .. Cardinality(nodes) : k \notin taken /\ 0 .. k - 1 \subseteq taken}}

\* findOrCreateId(): the nearest node of the label within the radius, or the first
\* free number.  Of two as near, the one inserted first: any of them here.
findOrCreateId(nodes, label, place, radius) ==
  LET near == {n \in nodes : n.label = label /\ Distance2(n, place) <= Square(radius)}
      nearest == {n \in near : \A o \in near : Distance2(n, place) <= Distance2(o, place)}
      taken == {n.id[2] : n \in {m \in nodes : m.id[1] = label}}
  IN IF nearest # {} THEN {n.id : n \in nearest}
     ELSE {<<label, i>> : i \in {k \in 0 .. Cardinality(nodes) : k \notin taken /\ 0 .. k - 1 \subseteq taken}}

\* addOrUpdateNode() of a detection under an id.
addOrUpdateNode(nodes, id, label, place) ==
  {n \in nodes : n.id # id}
    \cup {[id |-> id, label |-> label, x |-> place.x, y |-> place.y,
           w |-> place.w, h |-> place.h, heading |-> 0]}
=============================================================================
