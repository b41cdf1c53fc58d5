------------------------------ MODULE DreamLoop ------------------------------
(****************************************************************************)
(* The learning experiment of scripts/dream_loop.ts: scatter the robot, run *)
(* baseline trials in processes of their own, learn from the traces they    *)
(* left, scatter and run trials again.  The learnt files outlive the        *)
(* experiment; the next one starts from what it finds.                      *)
(****************************************************************************)
EXTENDS Integers, FiniteSets, Sequences

CONSTANTS
  Trials,        \* TRIALS_PER_PHASE
  Attempts,      \* MAX_SCATTER_ATTEMPTS
  Experiments    \* bound: experiments run one after the other

ASSUME DreamLoopAssumption ==
  Trials \in Nat \ {0} /\ Attempts \in Nat \ {0} /\ Experiments \in Nat \ {0}

VARIABLES
  experiment,    \* which one runs
  phase,         \* where main() is
  attempt,       \* of scatterRobot()
  results,       \* the baseline trials, then those after the dream
  logs,          \* the trace files, in the order they were written
  found,         \* preExistingTraces: the files there were before
  guards,        \* _negative_constraints.md: the traces each entry was learnt from
  routes,        \* LEVEL_2_DIR: the traces each dream_* file was learnt from
  reflexes,      \* LEVEL_4_DIR: the same of its dream_reactive_* files
  simRobot       \* whether it is far from the target, and whether its wheels turn

experimentVars == <<experiment, phase, attempt, results, logs, found, guards, routes, reflexes, simRobot>>
learnt == <<guards, routes, reflexes>>

Outcomes == {"success", "failure", "aborted"}
NoTrace == 0
Baseline == Len(results) < Trials
Alien == [experiment |-> 0, baseline |-> FALSE, outcome |-> "failure"]

LoopInit ==
  /\ experiment = 1 /\ phase = "setup" /\ attempt = 0 /\ results = <<>>
  /\ logs \in {<<>>, <<Alien>>} /\ found = {}
  /\ guards = {} /\ routes = {} /\ reflexes = {}
  /\ simRobot \in [far : BOOLEAN, moving : BOOLEAN]

\* main() up to the first trial: what LEVEL_2_DIR holds of earlier dreams goes.
Setup ==
  /\ phase = "setup"
  /\ routes' = {} /\ found' = DOMAIN logs /\ results' = <<>>
  /\ phase' = "scatter" /\ attempt' = 1
  /\ UNCHANGED <<experiment, logs, guards, reflexes, simRobot>>

\* queryDistance(): far, near, or unknown (no answer in two seconds, or no JSON).
Distances == {IF simRobot.far THEN "far" ELSE "near", "unknown"}
Ready(d) == d = "far"
LastAttempt == attempt = Attempts

\* scatterRobot(): a far robot is left as it is.  Each attempt turns it, drives
\* it and stops it; after the last one the trial begins wherever it is.
Scatter ==
  /\ phase = "scatter"
  /\ \E d \in Distances :
       \/ Ready(d) /\ phase' = "trial" /\ UNCHANGED <<attempt, simRobot>>
       \/ /\ ~Ready(d) /\ \E far \in BOOLEAN : simRobot' = [far |-> far, moving |-> FALSE]
          /\ phase' = IF LastAttempt THEN "trial" ELSE "scatter"
          /\ attempt' = (attempt % (Attempts + 1)) + 1
  /\ UNCHANGED <<experiment, results, logs, found, learnt>>

\* runTrial(): the process may be killed after five minutes or die, its robot
\* running and no trace written.  newTraces[0] is the newest file not there before.
NewestSince(before, files) ==
  LET new == files \ before IN IF new = {} THEN NoTrace ELSE CHOOSE n \in new : \A k \in new : k <= n
NewTrace(before, files) == NewestSince(before, files)
RunTrial ==
  /\ phase = "trial"
  /\ \/ /\ \E o \in Outcomes :
             logs' = Append(logs, [experiment |-> experiment, baseline |-> Baseline, outcome |-> o])
        /\ \E far \in BOOLEAN : simRobot' = [far |-> far, moving |-> FALSE]
     \/ UNCHANGED logs /\ simRobot' \in [far : BOOLEAN, moving : BOOLEAN]
  /\ results' = Append(results, NewTrace(DOMAIN logs, DOMAIN logs'))
  /\ attempt' = 1
  /\ phase' = CASE Len(results') = Trials -> "dream"
                [] Len(results') = 2 * Trials -> "over"
                [] OTHER -> "scatter"
  /\ UNCHANGED <<experiment, found, learnt>>

\* Slip: the traces of earlier experiments are learnt from again.
AllTraces == DOMAIN logs

\* dreamConsolidate(): the traces of this experiment only.  An inference that
\* fails, an answer that is no JSON or a file that cannot be read teach nothing
\* and stop nothing.
NewTraces == DOMAIN logs \ found
Of(outcome) == {n \in NewTraces : logs[n].outcome = outcome}
LearnFromFailures ==
  /\ phase = "dream" /\ phase' = "abstract"
  /\ \/ UNCHANGED <<guards, reflexes>>
     \/ /\ Of("failure") # {} /\ guards' = guards \cup {Of("failure")}
        /\ reflexes' \in {reflexes, reflexes \cup {Of("failure")}}
  /\ UNCHANGED <<experiment, attempt, results, logs, found, routes, simRobot>>
LearnFromSuccesses ==
  /\ phase = "abstract" /\ phase' = "scatter"
  /\ \/ UNCHANGED routes
     \/ Of("success") # {} /\ routes' = routes \cup {Of("success")}
  /\ UNCHANGED <<experiment, attempt, results, logs, found, guards, reflexes, simRobot>>

\* The next experiment; or this one is interrupted, wherever it was.
NextExperiment ==
  /\ experiment < Experiments /\ phase # "setup"
  /\ experiment' = experiment + 1 /\ phase' = "setup"
  /\ UNCHANGED <<attempt, results, logs, found, learnt, simRobot>>

Script == Setup \/ Scatter \/ RunTrial \/ LearnFromFailures \/ LearnFromSuccesses
LoopNext == Script \/ NextExperiment
LoopSpec == LoopInit /\ [][LoopNext]_experimentVars /\ WF_experimentVars(Script)

\* Types of every variable.
LoopTypeOK ==
  /\ experiment \in 1 .. Experiments /\ attempt \in 0 .. Attempts + 1
  /\ phase \in {"setup", "scatter", "trial", "dream", "abstract", "over"}
  /\ results \in Seq(0 .. Len(logs)) /\ found \subseteq DOMAIN logs
  /\ logs \in Seq([experiment : Nat, baseline : BOOLEAN, outcome : Outcomes])
  /\ learnt \in (SUBSET SUBSET DOMAIN logs) \X (SUBSET SUBSET DOMAIN logs) \X (SUBSET SUBSET DOMAIN logs)
  /\ simRobot \in [far : BOOLEAN, moving : BOOLEAN]

\* A trial begins far from the target, unless every attempt to scatter the
\* robot was used up; and a robot that still runs is the one a dead trial
\* left, which was far enough at the first question.
TrialStartsFar ==
  phase = "trial" => (simRobot.far \/ attempt > Attempts) /\ (simRobot.moving => attempt = 1)

\* What is learnt comes from the baseline trials of one experiment: guards from
\* those that failed, routes from those that succeeded, never from the trials
\* that test what was learnt nor from traces that were there before.
LearnsFromOwn ==
  \A kind \in {"failure", "success"} :
    \A entry \in (IF kind = "failure" THEN guards \cup reflexes ELSE routes) : \A n, k \in entry :
      /\ logs[n].outcome = kind /\ logs[n].baseline /\ logs[n].experiment \notin {0}
      /\ logs[n].experiment = logs[k].experiment

\* The report compares trials: each counts the trace it wrote itself, in its
\* own half of the experiment, or none.
ReportIsHonest ==
  \A i, k \in DOMAIN results :
    results[i] # NoTrace =>
      /\ logs[results[i]].baseline = (i <= Trials)
      /\ results[k] = results[i] => k = i

\* The experiment measures what it claims: trials start far from the target, learn from
\* their own failures and successes, and are reported one by one.
ExperimentIsSound == TrialStartsFar /\ LearnsFromOwn /\ ReportIsHonest

\* However the bridge, the trials and the model behave, an experiment that began
\* reports.
ExperimentEnds == (phase = "scatter") ~> (phase = "over")

\* dream_loop.ts: "BASELINE -- 3 trials (no strategies loaded)", the setup
\* cleans up "so baseline is clean".
BaselineIsClean == phase = "trial" /\ Baseline => guards = {} /\ routes = {} /\ reflexes = {}
=============================================================================
