---------------------------- MODULE SemanticMap ----------------------------
(****************************************************************************)
(* The topological memory (semantic_map.ts) and the background loop that    *)
(* fills it (semantic_map_loop.ts): a frame is described, the pose is read  *)
(* afterwards, the scene is analysed and compared with the known nodes one  *)
(* by one, each of these an await during which the robot moves on.  The     *)
(* process may die at any of them; the map file is what it finds then.      *)
(****************************************************************************)
EXTENDS Integers, FiniteSets

CONSTANTS
  Places,        \* where the robot can be
  Views,         \* place -> the sets of features the model may report of it
  Runs,          \* activations of runAnalysis() that could overlap
  NodesMax       \* bound: nodes of the map

VARIABLES
  robot,         \* where the robot is
  nodes,         \* SemanticMap.nodes: id -> node
  edges,         \* SemanticMap.edges, as pairs of ids
  nextId,
  currentNodeId, \* the node of the last analysis, or -1
  disk,          \* TOPO_MAP_FILE
  unsaved,       \* the last save failed
  listening,     \* SemanticMapLoop.running
  analyzing,     \* the loop's mutex
  run            \* each activation of runAnalysis() and what it has read

mapVars == <<robot, nodes, edges, nextId, currentNodeId, disk, unsaved, listening,
             analyzing, run>>

Nowhere == "nowhere"
Idle == [phase |-> "idle", seen |-> Nowhere, view |-> {}, next |-> 0, best |-> [id |-> -1, confidence |-> 0],
         denied |-> {}]
NoNodes == [i \in {} |-> Idle]

MapInit ==
  /\ robot \in Places
  /\ nodes = NoNodes /\ edges = {} /\ nextId = 0 /\ currentNodeId = -1
  /\ disk = [nodes |-> NoNodes, edges |-> {}, current |-> -1] /\ unsaved = FALSE
  /\ listening = FALSE /\ analyzing = FALSE /\ run = [r \in Runs |-> Idle]

mapMemory == <<nodes, edges, nextId, currentNodeId, disk, unsaved>>

\* The robot drives on while the loop waits.
Walk ==
  /\ \E p \in Places \ {robot} : robot' = p
  /\ UNCHANGED <<mapMemory, listening, analyzing, run>>

StartMapLoop == ~listening /\ listening' = TRUE /\ UNCHANGED <<mapMemory, robot, analyzing, run>>
StopMapLoop == listening /\ listening' = FALSE /\ UNCHANGED <<mapMemory, robot, analyzing, run>>

\* runAnalysis() up to its first await: the mutex, and the frame of this moment.
Analyze(r) ==
  /\ ~analyzing /\ analyzing' = TRUE /\ nextId < NodesMax
  /\ run[r].phase = "idle" /\ \A k \in Runs : k < r => run[k].phase # "idle"
  /\ run' = [run EXCEPT ![r] = [Idle EXCEPT !.phase = "describe", !.seen = robot]]
  /\ UNCHANGED <<mapMemory, robot, listening>>

\* A 'bytecode' event of the vision loop after the interval; explore or the seed of a
\* route asks at once.
OnBytecode(r) == listening /\ Analyze(r)
AnalyzeNow(r) == Analyze(r)

Described(r) ==
  /\ run[r].phase = "describe" /\ run' = [run EXCEPT ![r].phase = "pose"]
  /\ UNCHANGED <<mapMemory, robot, listening, analyzing>>

\* The status poll and the compass, answered or not: only the position of a node, which
\* is left out, depends on them.
PoseRead(r) ==
  /\ run[r].phase = "pose" /\ run' = [run EXCEPT ![r].phase = "analyze"]
  /\ UNCHANGED <<mapMemory, robot, listening, analyzing>>

Analyzed(r) ==
  /\ run[r].phase = "analyze"
  /\ \E v \in Views[run[r].seen] : run' = [run EXCEPT ![r].view = v, ![r].phase = "match"]
  /\ UNCHANGED <<mapMemory, robot, listening, analyzing>>

\* Slip: an analysis that fails leaves the mutex locked.
UnlockOnSuccess == analyzing' = analyzing

\* finally, after an inference that failed or an answer that does not parse.
Unlock == analyzing' = FALSE
AnalysisFails(r) ==
  /\ run[r].phase \in {"describe", "analyze"} /\ run' = [run EXCEPT ![r] = Idle] /\ Unlock
  /\ UNCHANGED <<mapMemory, robot, listening>>

\* compareFeatureSets() < 0.15, in hundredths.
compareFeatureSets(a, b) ==
  IF a = {} /\ b = {} THEN 100 ELSE (100 * Cardinality(a \cap b)) \div Cardinality(a \cup b)
Apart(a, b) == a # {} /\ b # {} /\ compareFeatureSets(a, b) < 15

\* matchLocation() of the next node: a node of the same place may be recognised, more or
\* less surely, or missed, and the request may fail; another place is told apart.
Recognised(r, i) ==
  IF nodes[i].place = run[r].seen THEN {0, 70, 90} ELSE {0}
Sure == 85
Better(best, c) == c > 60 /\ c > best.confidence
MatchNext(r) ==
  LET j == run[r] IN
  /\ j.phase = "match" /\ j.next \in DOMAIN nodes /\ j.best.confidence < Sure
  /\ \/ /\ Apart(j.view, nodes[j.next].features)
        /\ run' = [run EXCEPT ![r].next = @ + 1]
     \/ /\ ~Apart(j.view, nodes[j.next].features)
        /\ \E c \in Recognised(r, j.next) :
             run' = [run EXCEPT
               ![r].next = @ + 1,
               ![r].best = IF Better(@, c) THEN [id |-> j.next, confidence |-> c] ELSE @,
               ![r].denied = IF c > 60 THEN @ ELSE @ \cup {j.next}]
  /\ UNCHANGED <<mapMemory, robot, listening, analyzing>>

\* save(): everything at once, or nothing and only a line in the log.
Save(ns, es, cur) ==
  \/ disk' = [nodes |-> ns, edges |-> es, current |-> cur] /\ unsaved' = FALSE
  \/ disk' = disk /\ unsaved' = TRUE

\* The rest of processScene(): the best match is kept, or a node is made; an edge
\* from the last place only if the caller told the action that led here.
AddNode(j) ==
  [i \in DOMAIN nodes \cup {nextId} |->
     IF i # nextId THEN nodes[i]
     ELSE [place |-> j.seen, features |-> j.view,
           excused |-> \A k \in DOMAIN nodes : nodes[k].place = j.seen =>
                         k \in j.denied \/ Apart(j.view, nodes[k].features)]]
addEdge(to, actionTaken) ==
  IF currentNodeId # -1 /\ currentNodeId # to /\ actionTaken
    THEN edges \cup {<<currentNodeId, to>>} ELSE edges

processScene(r, actionTaken) ==
  LET j == run[r]
      isNew == j.best.id = -1
      id == IF isNew THEN nextId ELSE j.best.id
  IN /\ isNew => nextId < NodesMax
     /\ nodes' = IF isNew THEN AddNode(j) ELSE nodes
     /\ nextId' = IF isNew THEN nextId + 1 ELSE nextId
     /\ edges' = addEdge(id, actionTaken)
     /\ currentNodeId' = id
     /\ Save(nodes', edges', id)

\* The loop does not tell an action.
Analysed(r) ==
  /\ run[r].phase = "match"
  /\ run[r].next \notin DOMAIN nodes \/ run[r].best.confidence >= Sure
  /\ processScene(r, FALSE)
  /\ run' = [run EXCEPT ![r] = Idle] /\ analyzing' = FALSE
  /\ UNCHANGED <<robot, listening>>

\* Slip: the counter starts anew.
restoredNever(ns) == 0

\* loadFromJSON(): the counter goes behind the highest id of the file.
restoredId(ns) == IF ns = NoNodes THEN 0
                  ELSE 1 + (CHOOSE i \in DOMAIN ns : \A k \in DOMAIN ns : k <= i)
Restart ==
  /\ nodes' = disk.nodes /\ edges' = disk.edges /\ currentNodeId' = disk.current
  /\ nextId' = restoredId(disk.nodes)
  /\ unsaved' = FALSE /\ analyzing' = FALSE /\ listening' = FALSE
  /\ run' = [r \in Runs |-> Idle]
  /\ UNCHANGED <<robot, disk>>

Progress(r) == Described(r) \/ PoseRead(r) \/ Analyzed(r) \/ AnalysisFails(r) \/ MatchNext(r)
               \/ Analysed(r)
MapNext ==
  \/ Walk \/ StartMapLoop \/ StopMapLoop \/ Restart
  \/ \E r \in Runs : OnBytecode(r) \/ AnalyzeNow(r) \/ Progress(r)
MapFairness == \A r \in Runs : WF_mapVars(Progress(r))
MapSpec == MapInit /\ [][MapNext]_mapVars /\ MapFairness

-----------------------------------------------------------------------------
\* Two nodes of one place exist only because the later one was made from a view too
\* unlike the earlier, or because the recogniser missed the earlier one just then.
DuplicateIsExcused == \A i \in DOMAIN nodes : nodes[i].excused

\* No step but a restart after a failed save loses a node or gives its id to another
\* place.
NothingForgotten ==
  [][unsaved \/ \A i \in DOMAIN nodes :
       i \in DOMAIN nodes' /\ nodes'[i].place = nodes[i].place]_mapVars

\* An analysis that began ends: the mutex does not stay locked.
MutexIsFreed == analyzing ~> ~analyzing

\* The header of semantic_map.ts: "Nodes are locations identified by visual features;
\* edges are navigation paths": going from one known place to another leaves a path.
PathsAreKept ==
  [][~unsaved /\ currentNodeId # -1 /\ currentNodeId' # currentNodeId =>
       <<currentNodeId, currentNodeId'>> \in edges']_mapVars

\* The map is true to the places: no place is split without an excuse, and none is lost.
MapIsFaithful == []DuplicateIsExcused /\ NothingForgotten
=============================================================================
