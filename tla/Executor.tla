------------------------------- MODULE Executor ------------------------------
(****************************************************************************)
(* The orchestrator (orchestrator/executor.ts): a language model emits one  *)
(* opcode per step, the executor carries it out and puts the result into    *)
(* the conversation.  Meanwhile the VisionLoop of a navigation started      *)
(* earlier raises its event, the safety timers of navigation waits fire,    *)
(* also those of waits that are over, and people type at the console (io.ts)*)
(* whether or not the robot still listens.                                  *)
(****************************************************************************)
EXTENDS Integers

CONSTANTS
  MaxOps,     \* maxSteps of the configuration: opcodes before the run is ended
  CompactAt,  \* messages beyond which the conversation is compacted
  KeepLast    \* messages that survive it, with the prompt and the task

Retries == 2  \* askings again after an empty response

ASSUME OpsAssumption == MaxOps \in Nat \ {0}
ASSUME CompactionAssumption ==
  KeepLast \in Nat /\ CompactAt \in Nat /\ KeepLast + 2 <= CompactAt

VARIABLES
  execPhase,       \* what step() awaits, or how the run ended
  retry,       \* empty responses to the present step
  stepCount,
  depth,       \* loopStack.length
  messages,    \* messages.length
  waits,       \* navigation waits begun
  waiter,      \* the wait navWaitResolve belongs to, 0 for null
  timers,      \* the waits whose safety timer has not fired
  navigating,  \* a robot.navigate has listeners on the VisionLoop
  listens,     \* listen() calls begun
  question,    \* the listen() whose callback the console holds, 0 for none
  hushes,      \* the listen() calls whose timer has not fired
  silences,    \* history: listen() calls that their timer ended
  unheard      \* history: answers to a question whose listen() was over

earVars == <<listens, question, hushes, silences, unheard>>
execVars == <<execPhase, retry, stepCount, depth, messages, waits, waiter, timers,
          navigating, earVars>>

\* What ends the run, besides an exception ("failed").
Ends == {"halted", "empty_response", "max_steps_reached", "failed"}

ExecTypeOK ==
  /\ execPhase \in {"generating", "calling", "navigating", "talking", "listening", "waiting"} \cup Ends
  /\ retry \in 0 .. Retries
  /\ stepCount \in 0 .. MaxOps
  /\ depth \in 0 .. MaxOps
  /\ messages \in Nat
  /\ waits \in 0 .. MaxOps
  /\ waiter \in 0 .. waits
  /\ timers \subseteq 1 .. waits
  /\ navigating \in BOOLEAN
  /\ listens \in 0 .. MaxOps /\ question \in 0 .. listens /\ hushes \subseteq 1 .. listens
  /\ silences \in 0 .. MaxOps /\ unheard \in 0 .. MaxOps

\* run() puts the system prompt and the task into the conversation.
ExecInit ==
  /\ execPhase = "generating"
  /\ retry = 0 /\ stepCount = 0 /\ depth = 0
  /\ messages = 2
  /\ waits = 0 /\ waiter = 0 /\ timers = {}
  /\ navigating = FALSE
  /\ listens = 0 /\ question = 0 /\ hushes = {} /\ silences = 0 /\ unheard = 0

-----------------------------------------------------------------------------
(* Generation *)

\* The backend threw, its retries used up: run() throws as well.
GenerateFails ==
  /\ execPhase = "generating"
  /\ execPhase' = "failed"
  /\ UNCHANGED <<retry, stepCount, depth, messages, waits, waiter, timers, navigating, earVars>>

EmptyResponse ==
  /\ execPhase = "generating"
  /\ IF retry < Retries
       THEN /\ retry' = retry + 1
            /\ messages' = messages + 1
            /\ UNCHANGED execPhase
       ELSE /\ execPhase' = "empty_response"
            /\ UNCHANGED <<retry, messages>>
  /\ UNCHANGED <<stepCount, depth, waits, waiter, timers, navigating, earVars>>

\* compact(): the prompt, the task and the last messages.
Compacted == IF messages > CompactAt THEN KeepLast + 2 ELSE messages

\* run() goes on with the next step, or ends.
Onward == IF stepCount' < MaxOps THEN "generating" ELSE "max_steps_reached"

\* An opcode was parsed.
Dispatch ==
  /\ execPhase = "generating"
  /\ stepCount' = stepCount + 1
  /\ retry' = 0

\* The opcodes carried out at once: commit, fork and yield leave one message;
\* the others, and what is refused, leave two.
Immediate ==
  /\ Dispatch
  /\ execPhase' = Onward
  /\ \E n \in {1, 2} : messages' = Compacted + n
  /\ UNCHANGED <<depth, waits, waiter, timers, navigating, earVars>>

Loop ==
  /\ Dispatch
  /\ execPhase' = Onward
  /\ depth' = depth + 1
  /\ messages' = Compacted + 1
  /\ UNCHANGED <<waits, waiter, timers, navigating, earVars>>

Break ==
  /\ Dispatch
  /\ execPhase' = Onward
  /\ IF depth = 0 THEN depth' = 0 /\ messages' = Compacted + 2
                  ELSE depth' = depth - 1 /\ messages' = Compacted + 1
  /\ UNCHANGED <<waits, waiter, timers, navigating, earVars>>

\* Inside a loop a halt is refused.
Halt ==
  /\ Dispatch
  /\ IF depth > 0 THEN execPhase' = Onward /\ messages' = Compacted + 2
                  ELSE execPhase' = "halted" /\ messages' = Compacted + 1
  /\ UNCHANGED <<depth, waits, waiter, timers, navigating, earVars>>

\* A call of the cartridge, of robot.navigate among others, and a read or write
\* of the speech ports: the handler awaits.
Call ==
  /\ Dispatch
  /\ execPhase' \in {"calling", "navigating", "talking"}
  /\ messages' = Compacted
  /\ UNCHANGED <<depth, waits, waiter, timers, navigating, earVars>>

\* robot.listen, or a read of port 4, at the console: a timer, and a question, which
\* the console drops while an earlier one is open.
Listen ==
  /\ Dispatch
  /\ execPhase' = "listening"
  /\ messages' = Compacted
  /\ listens' = listens + 1
  /\ question' = IF question = 0 THEN listens + 1 ELSE question
  /\ hushes' = hushes \cup {listens + 1}
  /\ UNCHANGED <<depth, waits, waiter, timers, navigating, silences, unheard>>

\* wait fd=3: a promise that the listeners of a navigation or a timer resolve.
Wait ==
  /\ Dispatch
  /\ execPhase' = "waiting"
  /\ messages' = Compacted
  /\ waits' = waits + 1
  /\ waiter' = waits + 1
  /\ timers' = timers \cup {waits + 1}
  /\ UNCHANGED <<depth, navigating, earVars>>

-----------------------------------------------------------------------------
(* The end of an await *)

\* injectResult(), and the loop of run(), which finds the run not halted.
Resume ==
  /\ messages' = messages + 2
  /\ execPhase' = IF stepCount < MaxOps THEN "generating" ELSE "max_steps_reached"

\* The method or the port answered.
Answered ==
  /\ execPhase \in {"calling", "talking", "navigating"}
  /\ Resume
  /\ navigating' = (navigating \/ execPhase = "navigating")
  /\ UNCHANGED <<retry, stepCount, depth, waits, waiter, timers, earVars>>

\* A call that fails has its error for a result, and so has a navigation that
\* did not come to register listeners; a port that throws ends the run.
AnswerFails ==
  /\ \/ execPhase \in {"calling", "navigating"} /\ Resume
     \/ execPhase = "talking" /\ execPhase' = "failed" /\ UNCHANGED messages
  /\ UNCHANGED <<retry, stepCount, depth, waits, waiter, timers, navigating, earVars>>

\* The VisionLoop arrives or gets stuck: every listener goes, and the wait there
\* is, if there is one, is resolved.
Arrive ==
  /\ navigating
  /\ navigating' = FALSE
  /\ waiter' = 0
  /\ IF waiter # 0 THEN Resume ELSE UNCHANGED <<execPhase, messages>>
  /\ UNCHANGED <<retry, stepCount, depth, waits, timers, earVars>>

\* Timers of one duration fire in the order they were set.
Due(k) == k \in timers /\ \A j \in timers : k <= j

\* Slip: the timer does not ask whose resolver it finds.
TimerUnasked(k) ==
  /\ Due(k)
  /\ timers' = timers \ {k}
  /\ waiter' = 0
  /\ IF waiter = k THEN Resume ELSE UNCHANGED <<execPhase, messages>>
  /\ UNCHANGED <<retry, stepCount, depth, waits, navigating, earVars>>

\* The safety timer of wait k.
TimerFires(k) ==
  /\ Due(k)
  /\ timers' = timers \ {k}
  /\ IF waiter = k THEN waiter' = 0 /\ Resume
                   ELSE UNCHANGED <<waiter, execPhase, messages>>
  /\ UNCHANGED <<retry, stepCount, depth, waits, navigating, earVars>>

\* Who listens, and is the one the console asks for.
Asked == execPhase = "listening" /\ question = listens

\* A line for the open question: its callback clears the timer of its own listen().
LineTyped ==
  /\ question # 0 /\ question' = 0
  /\ hushes' = hushes \ {question}
  /\ IF Asked THEN Resume /\ UNCHANGED unheard
              ELSE unheard' = unheard + 1 /\ UNCHANGED <<execPhase, messages>>
  /\ UNCHANGED <<retry, stepCount, depth, waits, waiter, timers, navigating, listens, silences>>

\* The timer of listen k, which leaves its question open.
HushFires(k) ==
  /\ k \in hushes /\ hushes' = hushes \ {k}
  /\ IF execPhase = "listening" /\ k = listens
       THEN Resume /\ silences' = silences + 1
       ELSE UNCHANGED <<execPhase, messages, silences>>
  /\ UNCHANGED <<retry, stepCount, depth, waits, waiter, timers, navigating, listens, question, unheard>>

Step ==
  \/ GenerateFails \/ EmptyResponse
  \/ Immediate \/ Loop \/ Break \/ Halt \/ Call \/ Listen \/ Wait
  \/ Answered \/ AnswerFails

Timer == (\E k \in 1 .. waits : TimerFires(k)) \/ (\E k \in 1 .. listens : HushFires(k))

ExecNext == Step \/ Arrive \/ LineTyped \/ Timer

ExecSpec == ExecInit /\ [][ExecNext]_execVars

\* The backend, the methods and the speech ports answer or throw, and a timer of
\* the runtime fires; nothing makes a navigation arrive.
ExecFairSpec == ExecSpec /\ WF_execVars(Step) /\ WF_execVars(Timer)

-----------------------------------------------------------------------------
(* Properties *)

\* Whoever waits for a navigation is the one navWaitResolve belongs to, and its
\* own timer is still to fire; when nobody waits there is nothing to resolve.
\* Timers of earlier waits and events of earlier navigations, which come at any
\* time, take neither away.
WaitIsArmed ==
  IF execPhase = "waiting" THEN waiter = waits /\ waits \in timers ELSE waiter = 0

\* Whoever listens has a timer, and timers of listen() calls that are over are gone.
ListenIsArmed == hushes = IF execPhase = "listening" THEN {listens} ELSE {}

\* methods.ts: listen "Blocks until input is received or timeout expires".  A line is
\* lost to a question that a silence left open, and each silence costs one at most.
LinesAreHeard == unheard <= silences

\* What the run awaits comes to the one who awaits it.
AwaitedComes == WaitIsArmed /\ ListenIsArmed /\ LinesAreHeard

\* The conversation never outgrows the threshold by more than the askings again
\* of one step and the two messages of one handler, inside loops or not.
ConversationBounded == messages <= CompactAt + Retries + 2

\* A run whose answers come ends, once it took an opcode: the steps are counted, and
\* so are empty responses and navigations that never arrive.
ExecutionEnds == (stepCount # 0) ~> (execPhase \in Ends)
=============================================================================
