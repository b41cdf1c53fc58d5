------------------------------- MODULE MCBrain -------------------------------
(****************************************************************************)
(* The parts that ask a model, those that remember and those that watch,    *)
(* one of them per behaviour: they share no state but what is on disk,      *)
(* which each of them takes as it finds it.                                 *)
(****************************************************************************)
EXTENDS Executor, Inference, SemanticMap, SimRun, StrategyMemory, DreamLoop, ScenarioRun,
  TraceLog, SelfPerception, CareRun

VARIABLE part
brainVars == <<part, execVars, inferVars, mapVars, simRunVars, dreamVars, experimentVars, scenarioVars,
               traceVars, selfVars, careVars>>

\* Answers with words, a function call, both in either order, and a tool call as text.
MCAnswers == {<<"words">>, <<"call">>, <<"words", "call">>,
              <<"words", "py(", "args", ")">>, <<"py(", "args", ")", "words">>,
              <<"tool{", "args{", "}", "}">>}

\* Two places with a view of each other's features, seen with and without them.
MCViews == [kitchen |-> {{"tiles"}, {"stove"}}, hall |-> {{"tiles"}, {"tiles", "door"}}]

\* Two titles of one slug; a sequence that failed before it succeeded, and one
\* of a parent that only failed.
MCTitles == {"hall", "hallway"}
MCSlug == [t \in MCTitles |-> "hall"]
TraceFile(n, p, o) == [id |-> n, parent |-> p, goal |-> "door", outcome |-> o]
MCTraceFiles == {TraceFile(1, Nothing, "success"), TraceFile(2, Nothing, "failure"), TraceFile(3, "session", "failure")}

\* North of the robot, within reach of a run from the south-west and from beside it.
At(x, y) == [x |-> x, y |-> y]
MCTarget == At(0, 5)
MCStarts == {[at |-> At(0, 1), h |-> 0], [at |-> At(1, 3), h |-> 2]}

\* Two doors beyond the arrival threshold of each other, and a garden nobody finds.
MCWhere == [d \in {"blue", "green"} |-> IF d = "blue" THEN 2 ELSE 4]
MCSpoken == {"blue", "green", "the garden"}
MCMeant == [n \in MCSpoken |-> IF n = "the garden" THEN "nowhere" ELSE n]

BrainInit ==
  /\ part \in {"kernel", "inference", "map", "run", "dream", "experiment", "scenario", "traces", "self", "care"}
  /\ ExecInit /\ InferInit /\ MapInit /\ SimRunInit /\ DreamInit /\ LoopInit /\ ScenarioInit
  /\ TraceInit /\ SelfInit /\ CareInit
  /\ part # "inference" => adapter = "gemini"
  /\ part # "map" => robot = "hall"
  /\ part # "dream" => DOMAIN store = {}
  /\ part # "experiment" => logs = <<>> /\ simRobot = [far |-> FALSE, moving |-> FALSE]
  /\ part # "scenario" => scene.h = 0
  /\ part # "traces" => aim = "door"
  /\ part # "care" => linked

BrainNext ==
  /\ UNCHANGED part
  /\ \/ /\ part = "kernel" /\ ExecNext
        /\ UNCHANGED <<inferVars, mapVars, simRunVars, dreamVars, experimentVars, scenarioVars,
                       traceVars, selfVars, careVars>>
     \/ /\ part = "inference" /\ InferNext
        /\ UNCHANGED <<execVars, mapVars, simRunVars, dreamVars, experimentVars, scenarioVars,
                       traceVars, selfVars, careVars>>
     \/ /\ part = "map" /\ MapNext
        /\ UNCHANGED <<execVars, inferVars, simRunVars, dreamVars, experimentVars, scenarioVars,
                       traceVars, selfVars, careVars>>
     \/ /\ part = "run" /\ SimRunNext
        /\ UNCHANGED <<execVars, inferVars, mapVars, dreamVars, experimentVars, scenarioVars,
                       traceVars, selfVars, careVars>>
     \/ /\ part = "dream" /\ DreamNext
        /\ UNCHANGED <<execVars, inferVars, mapVars, simRunVars, experimentVars, scenarioVars,
                       traceVars, selfVars, careVars>>
     \/ /\ part = "experiment" /\ LoopNext
        /\ UNCHANGED <<execVars, inferVars, mapVars, simRunVars, dreamVars, scenarioVars,
                       traceVars, selfVars, careVars>>
     \/ /\ part = "scenario" /\ Frame
        /\ UNCHANGED <<execVars, inferVars, mapVars, simRunVars, dreamVars, experimentVars,
                       traceVars, selfVars, careVars>>
     \/ /\ part = "traces" /\ TraceNext
        /\ UNCHANGED <<execVars, inferVars, mapVars, simRunVars, dreamVars, experimentVars, scenarioVars,
                       selfVars, careVars>>
     \/ /\ part = "self" /\ SelfNext
        /\ UNCHANGED <<execVars, inferVars, mapVars, simRunVars, dreamVars, experimentVars, scenarioVars,
                       traceVars, careVars>>
     \/ /\ part = "care" /\ CareNext
        /\ UNCHANGED <<execVars, inferVars, mapVars, simRunVars, dreamVars, experimentVars, scenarioVars,
                       traceVars, selfVars>>

\* The fairness of each part, for as long as it is the one that runs.
BrainFairness ==
  /\ WF_execVars(part = "kernel" /\ Step) /\ WF_execVars(part = "kernel" /\ Timer)
  /\ \A c \in Calls : WF_inferVars(part = "inference" /\ Proceeds(c))
  /\ \A r \in Runs : WF_mapVars(part = "map" /\ Progress(r))
  /\ WF_simRunVars(part = "run" /\ TargetPose) /\ WF_simRunVars(part = "run" /\ StatusAsked)
  /\ WF_simRunVars(part = "run" /\ StatusHeard) /\ WF_simRunVars(part = "run" /\ Ending)
  /\ SF_simRunVars(part = "run" /\ ConfirmationHeard)
  /\ WF_dreamVars(part = "dream" /\ Engine)
  /\ WF_experimentVars(part = "experiment" /\ Script)
  /\ WF_careVars(part = "care" /\ WaitTimesOut)

BrainSpec == BrainInit /\ [][BrainNext]_brainVars /\ BrainFairness

\* Whatever began ends: a run of the kernel, a call of a model, an analysis, a run to
\* targets at which the robot stays, a dream, an experiment, a wait for the person's
\* arrival.
WorkEnds ==
  /\ ExecutionEnds /\ CallsSettle /\ MutexIsFreed
  /\ SimulationEnds /\ DreamEnds /\ ExperimentEnds /\ CareWaitEnds
=============================================================================
