----------------------------- MODULE BrainProofs -----------------------------
(****************************************************************************)
(* Proofs about what decides: the orchestrator's executor, self perception, *)
(* the inference clients, the semantic map, the policy of a simulated run   *)
(* and the care assistant's journeys, for any number of steps and calls.    *)
(****************************************************************************)
EXTENDS Executor, SelfPerception, Inference, SemanticMap, SimRun, CareRun,
        FiniteSetTheorems, SequenceTheorems, TLAPS

(****************************************************************************)
(* The executor                                                             *)
(****************************************************************************)

\* The steps bound what is counted with them, and one is left to generate.
CountedSteps ==
  /\ depth <= stepCount /\ waits <= stepCount /\ listens <= stepCount
  /\ execPhase = "generating" => stepCount < MaxOps

\* A silence ended the listen() it is counted for, and a question that nobody who
\* listens asked is one that a silence left open, whose line is still to come.
EarsOpen ==
  /\ silences <= listens /\ (execPhase = "listening" => silences < listens)
  /\ unheard <= silences /\ (question # 0 /\ ~Asked => unheard < silences)

\* How long the conversation can be: after a step, while a handler awaits, and
\* at the end.  The threshold is looked at after the askings again and before
\* the handler.
RoomLeft ==
  /\ execPhase = "generating" => messages <= CompactAt + retry + 2
  /\ execPhase \in {"calling", "navigating", "talking", "listening", "waiting"} => messages <= CompactAt
  /\ messages <= CompactAt + Retries + 2

\* The inductive invariant of the executor.
IInv == ExecTypeOK /\ AwaitedComes /\ EarsOpen /\ CountedSteps /\ RoomLeft

\* Compaction leaves room for what one handler adds.
LEMMA CompactedFits ==
  ASSUME ExecTypeOK
  PROVE  Compacted \in Nat /\ Compacted <= CompactAt
BY CompactionAssumption DEF ExecTypeOK, Compacted

LEMMA InitHolds == ExecInit => IInv
<1> SUFFICES ASSUME ExecInit PROVE IInv
  OBVIOUS
<1>1. navigating \in BOOLEAN /\ execPhase = "generating"
  BY DEF ExecInit
<1>2. ExecTypeOK
  BY <1>1, OpsAssumption DEF ExecInit, ExecTypeOK, Retries
<1>3. AwaitedComes /\ EarsOpen /\ CountedSteps
  BY OpsAssumption DEF ExecInit, AwaitedComes, WaitIsArmed, ListenIsArmed, LinesAreHeard, EarsOpen, CountedSteps
<1>4. RoomLeft
  BY CompactionAssumption DEF ExecInit, RoomLeft, Retries
<1> QED BY <1>2, <1>3, <1>4 DEF IInv

\* What nobody listens to and is left alone stays as it is.
LEMMA EarsKept ==
  ASSUME IInv, execPhase # "listening", execPhase' # "listening", UNCHANGED earVars
  PROVE  ListenIsArmed' /\ LinesAreHeard' /\ EarsOpen'
BY DEF IInv, AwaitedComes, ListenIsArmed, LinesAreHeard, EarsOpen, Asked, earVars

\* An opcode that is carried out at once: nobody waits before or after it.
LEMMA OpcodeKeeps ==
  ASSUME IInv, Dispatch,
         depth' \in {depth - 1, depth, depth + 1}, depth' \in Nat,
         messages' \in {Compacted + 1, Compacted + 2},
         execPhase' = Onward \/ execPhase' = "halted",
         UNCHANGED <<waits, waiter, timers, navigating, earVars>>
  PROVE  IInv'
<1> USE DEF IInv, AwaitedComes, earVars
<1>1. Compacted \in Nat /\ Compacted <= CompactAt
  BY CompactedFits
<1>2. stepCount' = stepCount + 1 /\ stepCount < MaxOps /\ retry' = 0
  BY DEF Dispatch, CountedSteps
<1>3. execPhase' \in {"generating", "max_steps_reached", "halted"}
  BY DEF Onward
<1>4. execPhase' = "generating" => stepCount' < MaxOps
  BY DEF Onward
<1>5. CountedSteps'
  BY <1>2, <1>4, OpsAssumption DEF CountedSteps, ExecTypeOK
<1>6. messages' \in Nat /\ messages' <= CompactAt + 2
  BY <1>1, CompactionAssumption
<1>7. ExecTypeOK'
  BY <1>2, <1>3, <1>5, <1>6, OpsAssumption DEF ExecTypeOK, CountedSteps, Ends, Retries
<1>8. AwaitedComes' /\ EarsOpen'
  <2>1. WaitIsArmed'
    BY <1>3 DEF Dispatch, WaitIsArmed
  <2>2. execPhase # "listening" /\ execPhase' # "listening"
    BY <1>3 DEF Dispatch
  <2> QED BY <2>1, <2>2, EarsKept
<1>9. RoomLeft'
  BY <1>2, <1>3, <1>6, CompactionAssumption DEF RoomLeft, Retries
<1> QED BY <1>5, <1>7, <1>8, <1>9

\* Two messages and the next step, after an await.
LEMMA ResumeKeeps ==
  ASSUME IInv, Resume, execPhase \in {"calling", "navigating", "talking", "waiting"},
         navigating' \in BOOLEAN, waiter' = 0, timers' \subseteq timers,
         UNCHANGED <<retry, stepCount, depth, waits, earVars>>
  PROVE  IInv'
<1> USE DEF IInv, AwaitedComes, earVars
<1>1. execPhase' \in {"generating", "max_steps_reached"}
      /\ (execPhase' = "generating" => stepCount < MaxOps)
  BY DEF Resume
<1>2. messages' \in Nat /\ messages' <= CompactAt + 2
  BY CompactionAssumption DEF Resume, RoomLeft, ExecTypeOK
<1>3. ExecTypeOK'
  BY <1>1, <1>2 DEF ExecTypeOK, Ends
<1>4. AwaitedComes' /\ EarsOpen'
  BY <1>1, EarsKept DEF WaitIsArmed
<1>5. CountedSteps'
  BY <1>1 DEF CountedSteps
<1>6. RoomLeft'
  BY <1>1, <1>2, CompactionAssumption DEF RoomLeft, ExecTypeOK, Retries
<1> QED BY <1>3, <1>4, <1>5, <1>6

\* The end of a listen(), by a line for its question or by its timer.
LEMMA ListenEnds ==
  ASSUME IInv, Resume, execPhase = "listening", hushes' = {},
         \/ Asked /\ question' = 0 /\ UNCHANGED <<silences, unheard>>
         \/ silences' = silences + 1 /\ UNCHANGED <<question, unheard>>,
         UNCHANGED <<retry, stepCount, depth, waits, waiter, timers, navigating, listens>>
  PROVE  IInv'
<1> USE DEF IInv, AwaitedComes
<1>1. execPhase' \in {"generating", "max_steps_reached"}
      /\ (execPhase' = "generating" => stepCount < MaxOps)
  BY DEF Resume
<1>2. messages' \in Nat /\ messages' <= CompactAt + 2
  BY CompactionAssumption DEF Resume, RoomLeft, ExecTypeOK
<1>3. EarsOpen' /\ LinesAreHeard'
  BY <1>1 DEF EarsOpen, LinesAreHeard, Asked, ExecTypeOK
<1>4. WaitIsArmed' /\ ListenIsArmed'
  BY <1>1 DEF WaitIsArmed, ListenIsArmed
<1>5. CountedSteps'
  BY <1>1 DEF CountedSteps
<1>6. RoomLeft'
  BY <1>1, <1>2, CompactionAssumption DEF RoomLeft, ExecTypeOK, Retries
<1>7. silences' \in 0 .. MaxOps /\ question' \in 0 .. listens'
  BY <1>3, <1>5, OpsAssumption DEF EarsOpen, CountedSteps, ExecTypeOK
<1>8. ExecTypeOK'
  BY <1>1, <1>2, <1>7 DEF ExecTypeOK, Ends
<1> QED BY <1>3, <1>4, <1>5, <1>6, <1>8

\* listen() begins.
LEMMA ListenKeeps ==
  ASSUME IInv, Listen
  PROVE  IInv'
<1> USE DEF IInv, AwaitedComes
<1>1. Compacted \in Nat /\ Compacted <= CompactAt
  BY CompactedFits
<1>2. execPhase = "generating" /\ stepCount' = stepCount + 1 /\ stepCount < MaxOps
      /\ retry' = 0 /\ messages' = Compacted /\ execPhase' = "listening"
      /\ UNCHANGED <<depth, waits, waiter, timers, navigating, silences, unheard>>
  BY DEF Listen, Dispatch, CountedSteps
<1>3. listens \in Nat /\ listens' = listens + 1
      /\ question' = IF question = 0 THEN listens + 1 ELSE question
  BY DEF Listen, ExecTypeOK
<1>4. hushes' = {listens'}
  BY <1>2, <1>3 DEF Listen, ListenIsArmed
<1>5. CountedSteps'
  BY <1>2, <1>3, OpsAssumption DEF CountedSteps, ExecTypeOK
<1>6. ExecTypeOK'
  <2>1. listens' \in 0 .. MaxOps /\ question' \in 0 .. listens'
    BY <1>2, <1>3, <1>5, OpsAssumption DEF ExecTypeOK, CountedSteps
  <2>2. hushes' \subseteq 1 .. listens'
    BY <1>3, <1>4
  <2>3. stepCount' \in 0 .. MaxOps
    BY <1>2, OpsAssumption DEF ExecTypeOK
  <2> QED BY <1>1, <1>2, <2>1, <2>2, <2>3 DEF ExecTypeOK, Retries
<1>7. WaitIsArmed' /\ ListenIsArmed' /\ LinesAreHeard'
  BY <1>2, <1>4 DEF WaitIsArmed, ListenIsArmed, LinesAreHeard
<1>8. EarsOpen'
  BY <1>2, <1>3 DEF EarsOpen, Asked, ExecTypeOK
<1>9. RoomLeft'
  BY <1>1, <1>2, CompactionAssumption DEF RoomLeft, Retries
<1> QED BY <1>5, <1>6, <1>7, <1>8, <1>9

LEMMA StepKeeps ==
  ASSUME IInv, [ExecNext]_execVars
  PROVE  IInv'
<1> USE DEF IInv, AwaitedComes, earVars
<1>1. CASE GenerateFails
  <2>1. ExecTypeOK'
    BY <1>1 DEF GenerateFails, ExecTypeOK, Ends
  <2>2. AwaitedComes' /\ EarsOpen' /\ CountedSteps'
    BY <1>1, EarsKept DEF GenerateFails, WaitIsArmed, CountedSteps
  <2>3. RoomLeft'
    BY <1>1 DEF GenerateFails, RoomLeft
  <2> QED BY <2>1, <2>2, <2>3
<1>2. CASE EmptyResponse
  <2>1. execPhase = "generating" /\ execPhase' \in {"generating", "empty_response"}
        /\ UNCHANGED <<stepCount, depth, waits, waiter, timers, navigating, earVars>>
    BY <1>2 DEF EmptyResponse
  <2>2. \/ retry' = retry + 1 /\ retry < Retries /\ messages' = messages + 1
           /\ execPhase' = "generating"
        \/ retry' = retry /\ messages' = messages /\ execPhase' = "empty_response"
    BY <1>2 DEF EmptyResponse
  <2>3. ExecTypeOK'
    BY <2>1, <2>2 DEF ExecTypeOK, Ends, Retries
  <2>4. AwaitedComes' /\ EarsOpen' /\ CountedSteps'
    BY <2>1, EarsKept DEF WaitIsArmed, CountedSteps
  <2>5. RoomLeft'
    BY <2>1, <2>2, CompactionAssumption DEF RoomLeft, ExecTypeOK, Retries
  <2> QED BY <2>3, <2>4, <2>5
<1>3. CASE Immediate
  BY <1>3, OpcodeKeeps DEF Immediate, ExecTypeOK
<1>4. CASE Loop
  BY <1>4, OpcodeKeeps DEF Loop, ExecTypeOK
<1>5. CASE Break
  BY <1>5, OpcodeKeeps DEF Break, ExecTypeOK
<1>6. CASE Halt
  BY <1>6, OpcodeKeeps DEF Halt, ExecTypeOK
<1>7. CASE Call \/ Wait
  <2>1. Compacted \in Nat /\ Compacted <= CompactAt
    BY CompactedFits
  <2>2. execPhase = "generating" /\ stepCount' = stepCount + 1 /\ stepCount < MaxOps
        /\ retry' = 0 /\ messages' = Compacted /\ UNCHANGED <<depth, navigating, earVars>>
    BY <1>7 DEF Call, Wait, Dispatch, CountedSteps
  <2>3. \/ /\ execPhase' \in {"calling", "navigating", "talking"}
           /\ UNCHANGED <<waits, waiter, timers>>
        \/ /\ execPhase' = "waiting" /\ waits' = waits + 1 /\ waiter' = waits'
           /\ timers' = timers \cup {waits'}
    BY <1>7 DEF Call, Wait
  <2>4. CountedSteps'
    BY <2>2, <2>3, OpsAssumption DEF CountedSteps, ExecTypeOK
  <2>5. execPhase' \in {"calling", "navigating", "talking", "waiting"}
    BY <2>3
  <2>6. waits' \in 0 .. MaxOps /\ waiter' \in 0 .. waits' /\ timers' \subseteq 1 .. waits'
    <3>1. waits \in Nat /\ waits' \in {waits, waits + 1} /\ waits' \in 0 .. MaxOps
      BY <2>2, <2>3, <2>4, OpsAssumption DEF ExecTypeOK, CountedSteps
    <3>2. waiter' \in 0 .. waits'
      BY <2>3, <3>1 DEF ExecTypeOK
    <3>3. timers \subseteq 1 .. waits'
      BY <3>1 DEF ExecTypeOK
    <3>4. CASE timers' = timers
      BY <3>1, <3>2, <3>3, <3>4
    <3>5. CASE waits' = waits + 1 /\ timers' = timers \cup {waits'}
      <4>1. waits' \in 1 .. waits'
        BY <3>1, <3>5
      <4> QED BY <3>1, <3>2, <3>3, <3>5, <4>1
    <3> QED BY <2>3, <3>4, <3>5
  <2>7. ExecTypeOK'
    BY <2>1, <2>2, <2>5, <2>6, OpsAssumption DEF ExecTypeOK, Retries
  <2>8. WaitIsArmed'
    <3>1. waiter = 0
      BY <2>2 DEF WaitIsArmed
    <3>2. CASE execPhase' = "waiting"
      <4>1. waiter' = waits' /\ timers' = timers \cup {waits'}
        BY <2>3, <3>2
      <4>2. waits' \in timers'
        BY <4>1, Zenon
      <4> QED BY <3>2, <4>1, <4>2, Zenon DEF WaitIsArmed
    <3>3. CASE execPhase' # "waiting"
      BY <2>3, <3>1, <3>3, SMT DEF WaitIsArmed
    <3> QED BY <3>2, <3>3
  <2>9. RoomLeft'
    BY <2>1, <2>2, <2>5, CompactionAssumption DEF RoomLeft, Retries
  <2>10. ListenIsArmed' /\ LinesAreHeard' /\ EarsOpen'
    BY <2>2, <2>5, EarsKept
  <2> QED BY <2>4, <2>7, <2>8, <2>9, <2>10
<1>8. CASE Answered
  <2>1. waiter = 0 /\ execPhase \in {"calling", "navigating", "talking"}
    BY <1>8 DEF Answered, WaitIsArmed
  <2>2. navigating' \in BOOLEAN
    BY <1>8 DEF Answered, ExecTypeOK
  <2> QED BY <1>8, <2>1, <2>2, ResumeKeeps DEF Answered
<1>9. CASE AnswerFails
  <2>1. waiter = 0 /\ execPhase \in {"calling", "navigating", "talking"}
    BY <1>9 DEF AnswerFails, WaitIsArmed
  <2>2. CASE Resume
    BY <1>9, <2>1, <2>2, ResumeKeeps DEF AnswerFails, ExecTypeOK
  <2>3. CASE execPhase' = "failed" /\ UNCHANGED messages
    <3>1. ExecTypeOK'
      BY <1>9, <2>3 DEF AnswerFails, ExecTypeOK, Ends
    <3>2. WaitIsArmed' /\ CountedSteps' /\ RoomLeft'
      BY <1>9, <2>1, <2>3 DEF AnswerFails, WaitIsArmed, CountedSteps, RoomLeft
    <3>3. ListenIsArmed' /\ LinesAreHeard' /\ EarsOpen'
      BY <1>9, <2>1, <2>3, EarsKept DEF AnswerFails
    <3> QED BY <3>1, <3>2, <3>3
  <2> QED BY <1>9, <2>2, <2>3 DEF AnswerFails
<1>10. CASE Arrive
  <2>1. CASE waiter = 0
    <3>1. UNCHANGED <<execPhase, retry, stepCount, depth, messages, waits, waiter, timers, earVars>>
          /\ navigating' \in BOOLEAN
      BY <1>10, <2>1 DEF Arrive
    <3>2. ExecTypeOK' /\ WaitIsArmed' /\ CountedSteps' /\ RoomLeft'
      BY <3>1 DEF ExecTypeOK, WaitIsArmed, CountedSteps, RoomLeft
    <3>3. ListenIsArmed' /\ LinesAreHeard' /\ EarsOpen'
      BY <3>1 DEF ListenIsArmed, LinesAreHeard, EarsOpen, Asked
    <3> QED BY <3>2, <3>3
  <2>2. CASE waiter # 0
    <3>1. execPhase = "waiting"
      BY <2>2 DEF WaitIsArmed
    <3> QED BY <1>10, <2>2, <3>1, ResumeKeeps DEF Arrive
  <2> QED BY <2>1, <2>2
<1>11. ASSUME NEW k \in 1 .. waits, TimerFires(k) PROVE IInv'
  <2>1. timers' = timers \ {k}
        /\ UNCHANGED <<retry, stepCount, depth, waits, navigating, earVars>>
    BY <1>11 DEF TimerFires
  <2>2. CASE waiter = k
    <3>1. waiter # 0 /\ execPhase = "waiting"
      BY <2>2 DEF WaitIsArmed, ExecTypeOK
    <3> QED BY <1>11, <2>1, <2>2, <3>1, ResumeKeeps DEF TimerFires, ExecTypeOK
  <2>3. CASE waiter # k
    <3>1. UNCHANGED <<waiter, execPhase, messages>>
      BY <1>11, <2>3 DEF TimerFires
    <3>2. WaitIsArmed'
      BY <2>1, <2>3, <3>1 DEF WaitIsArmed
    <3>3. ExecTypeOK' /\ CountedSteps' /\ RoomLeft'
      BY <2>1, <3>1 DEF ExecTypeOK, CountedSteps, RoomLeft
    <3>4. ListenIsArmed' /\ LinesAreHeard' /\ EarsOpen'
      BY <2>1, <3>1 DEF ListenIsArmed, LinesAreHeard, EarsOpen, Asked
    <3> QED BY <3>2, <3>3, <3>4
  <2> QED BY <2>2, <2>3
<1>12. CASE UNCHANGED execVars
  <2>1. ExecTypeOK' /\ WaitIsArmed' /\ CountedSteps' /\ RoomLeft'
    BY <1>12 DEF execVars, ExecTypeOK, WaitIsArmed, CountedSteps, RoomLeft
  <2>2. ListenIsArmed' /\ LinesAreHeard' /\ EarsOpen'
    BY <1>12 DEF execVars, ListenIsArmed, LinesAreHeard, EarsOpen, Asked
  <2> QED BY <2>1, <2>2
<1>13. CASE Listen
  BY <1>13, ListenKeeps
<1>14. CASE LineTyped
  <2>1. question # 0 /\ question' = 0 /\ hushes' = hushes \ {question}
        /\ UNCHANGED <<retry, stepCount, depth, waits, waiter, timers, navigating, listens, silences>>
    BY <1>14 DEF LineTyped
  <2>2. CASE Asked
    <3>1. execPhase = "listening" /\ hushes' = {}
      BY <2>1, <2>2 DEF Asked, ListenIsArmed
    <3>2. Resume /\ UNCHANGED unheard
      BY <1>14, <2>2 DEF LineTyped
    <3> QED BY <2>1, <2>2, <3>1, <3>2, ListenEnds
  <2>3. CASE ~Asked
    <3>1. unheard' = unheard + 1 /\ UNCHANGED <<execPhase, messages>>
      BY <1>14, <2>3 DEF LineTyped
    <3>2. UNCHANGED hushes
      BY <2>1, <2>3 DEF Asked, ListenIsArmed
    <3>3. unheard < silences
      BY <2>1, <2>3 DEF EarsOpen
    <3>4. ListenIsArmed' /\ LinesAreHeard' /\ EarsOpen'
      BY <2>1, <3>1, <3>2, <3>3 DEF ListenIsArmed, LinesAreHeard, EarsOpen, ExecTypeOK
    <3>5. WaitIsArmed' /\ CountedSteps' /\ RoomLeft'
      BY <2>1, <3>1 DEF WaitIsArmed, CountedSteps, RoomLeft
    <3>6. unheard' \in 0 .. MaxOps /\ question' \in 0 .. listens'
      BY <2>1, <3>1, <3>3, OpsAssumption DEF ExecTypeOK
    <3>7. ExecTypeOK'
      BY <2>1, <3>1, <3>2, <3>6 DEF ExecTypeOK
    <3> QED BY <3>4, <3>5, <3>7
  <2> QED BY <2>2, <2>3
<1>15. ASSUME NEW k \in 1 .. listens, HushFires(k) PROVE IInv'
  <2>1. execPhase = "listening" /\ k = listens /\ hushes' = {}
    BY <1>15 DEF HushFires, ListenIsArmed
  <2> QED BY <1>15, <2>1, ListenEnds DEF HushFires
<1> QED
  BY <1>1, <1>2, <1>3, <1>4, <1>5, <1>6, <1>7, <1>8, <1>9, <1>10, <1>11, <1>12, <1>13, <1>14, <1>15
  DEF ExecNext, Step, Timer

LEMMA Inductive == ExecSpec => []IInv
<1>1. IInv /\ [ExecNext]_execVars => IInv'
  BY StepKeeps
<1> QED BY InitHolds, <1>1, PTL DEF ExecSpec

\* For every configuration of the executor each variable keeps its range; the
\* opcodes carried out never exceed maxSteps.
THEOREM TypeCorrect == ExecSpec => []ExecTypeOK
<1>1. IInv => ExecTypeOK
  BY DEF IInv
<1> QED BY Inductive, <1>1, PTL

\* However often timers of earlier waits fire, earlier navigations end and lines are
\* typed that nobody waits for, a wait for a navigation has its resolver and its own
\* timer, a listen() has its own, and a silence costs one line at most.
THEOREM AwaitedDoesCome == ExecSpec => []AwaitedComes
<1>1. IInv => AwaitedComes
  BY DEF IInv
<1> QED BY Inductive, <1>1, PTL

\* For every threshold and every number of messages kept, the conversation stays
\* within the threshold and one step's additions.
THEOREM ConversationStaysBounded == ExecSpec => []ConversationBounded
<1>1. IInv => ConversationBounded
  BY DEF IInv, RoomLeft, ConversationBounded
<1> QED BY Inductive, <1>1, PTL

------------------------------------------------------------------------------
(****************************************************************************)
(* Self perception                                                          *)
(****************************************************************************)

\* So long as nothing happened during a comparison there is at most one, of the frame
\* that is recorded, which is of the last command, of which there is no verdict yet.
OneComparison ==
  orderly => /\ \A c \in Comparers : comparing[c] # 0 => comparing[c] = pre
             /\ \A c, d \in Comparers : comparing[c] # 0 /\ comparing[d] # 0 => c = d
             /\ pre # 0 => pre = lastCommand /\ pre \notin judged

\* The inductive invariant of self perception.
SelfInv ==
  /\ SelfTypeOK /\ OneComparison /\ StuckIsCounted
  /\ streak \subseteq judged /\ IsFiniteSet(streak)

LEMMA SelfStarts == SelfInit => SelfInv
<1> SUFFICES ASSUME SelfInit PROVE SelfInv
  OBVIOUS
<1> USE DEF SelfInit
<1>1. commands \in Seq(BOOLEAN) /\ Len(commands) = 0
  OBVIOUS
<1>2. SelfTypeOK
  <2>1. lastCommand = 0 /\ Len(commands) <= CommandsMax
    BY <1>1, CommandsAssumption DEF lastCommand
  <2>2. pre \in 0 .. lastCommand /\ 0 \in 0 .. lastCommand /\ consecutive \in Nat
    BY <2>1
  <2>3. comparing \in [Comparers -> 0 .. lastCommand]
    BY <2>2
  <2>4. {settled, twofold, misread, orderly} \subseteq BOOLEAN
    OBVIOUS
  <2> QED
    BY <1>1, <2>1, <2>2, <2>3, <2>4 DEF SelfTypeOK
<1>3. IsFiniteSet(streak) /\ Cardinality(streak) = 0
  BY FS_EmptySet
<1>4. OneComparison /\ StuckIsCounted
  BY <1>3 DEF OneComparison, StuckIsCounted
<1> QED
  BY <1>2, <1>3, <1>4 DEF SelfInv

LEMMA RecordKeeps ==
  ASSUME SelfInv, NEW moves \in BOOLEAN, RecordPreCommandFrame(moves)
  PROVE  SelfInv'
<1>1. /\ commands' \in Seq(BOOLEAN)
      /\ lastCommand \in Nat /\ lastCommand' = lastCommand + 1
  BY DEF SelfInv, SelfTypeOK, RecordPreCommandFrame, lastCommand
<1>2. SelfTypeOK'
  <2>1. 0 .. lastCommand \subseteq 0 .. lastCommand' /\ 1 .. lastCommand \subseteq 1 .. lastCommand'
    BY <1>1
  <2>2. pre' \in 0 .. lastCommand' /\ Len(commands') <= CommandsMax
    BY <1>1, CommandsAssumption DEF RecordPreCommandFrame, lastCommand
  <2>3. comparing' \in [Comparers -> 0 .. lastCommand']
    BY <2>1 DEF SelfInv, SelfTypeOK, RecordPreCommandFrame
  <2>4. streak' \subseteq 1 .. lastCommand' /\ judged' \subseteq 1 .. lastCommand'
    BY <2>1 DEF SelfInv, SelfTypeOK, RecordPreCommandFrame
  <2>5. {settled', twofold', misread', orderly'} \subseteq BOOLEAN
    BY DEF SelfInv, SelfTypeOK, RecordPreCommandFrame, Comparing
  <2>6. consecutive' \in Nat
    BY DEF SelfInv, SelfTypeOK, RecordPreCommandFrame
  <2> QED
    BY <1>1, <2>2, <2>3, <2>4, <2>5, <2>6 DEF SelfTypeOK
<1>3. OneComparison'
  <2>1. orderly' => \A c \in Comparers : comparing'[c] = 0
    BY DEF RecordPreCommandFrame, Comparing
  <2>2. pre' = lastCommand'
    BY DEF RecordPreCommandFrame
  <2>3. lastCommand' \notin judged'
    BY <1>1 DEF SelfInv, SelfTypeOK, RecordPreCommandFrame
  <2> QED
    BY <2>1, <2>2, <2>3 DEF OneComparison
<1>4. StuckIsCounted' /\ (streak \subseteq judged)' /\ IsFiniteSet(streak)'
  BY DEF SelfInv, StuckIsCounted, RecordPreCommandFrame
<1> QED
  BY <1>2, <1>3, <1>4 DEF SelfInv

LEMMA CompareKeeps ==
  ASSUME SelfInv, NEW c \in Comparers, ComparePostFrame(c)
  PROVE  SelfInv'
<1>1. SelfTypeOK'
  <2>1. comparing' \in [Comparers -> 0 .. lastCommand] /\ lastCommand' = lastCommand
    BY DEF SelfInv, SelfTypeOK, ComparePostFrame, lastCommand
  <2>2. {settled', twofold', misread', orderly'} \subseteq BOOLEAN
    BY DEF SelfInv, SelfTypeOK, ComparePostFrame, Comparing
  <2> QED
    BY <2>1, <2>2 DEF SelfInv, SelfTypeOK, ComparePostFrame
<1>2. OneComparison'
  <2>1. orderly' => orderly /\ \A d \in Comparers : comparing[d] = 0
    BY DEF ComparePostFrame, Comparing
  <2>2. \A d \in Comparers : comparing'[d] = IF d = c THEN pre ELSE comparing[d]
    BY DEF SelfInv, SelfTypeOK, ComparePostFrame
  <2>3. pre' = pre /\ judged' = judged /\ lastCommand' = lastCommand
    BY DEF ComparePostFrame, lastCommand
  <2> QED
    BY <2>1, <2>2, <2>3 DEF SelfInv, OneComparison
<1>3. StuckIsCounted' /\ (streak \subseteq judged)' /\ IsFiniteSet(streak)'
  BY DEF SelfInv, StuckIsCounted, ComparePostFrame
<1> QED
  BY <1>1, <1>2, <1>3 DEF SelfInv

LEMMA ComparedKeeps ==
  ASSUME SelfInv, NEW c \in Comparers, Compared(c)
  PROVE  SelfInv'
<1> DEFINE command == comparing[c]
<1>1. command \in 1 .. lastCommand /\ lastCommand \in Nat /\ lastCommand' = lastCommand
  BY DEF SelfInv, SelfTypeOK, Compared, lastCommand
<1>2. SelfTypeOK'
  <2>1. comparing' \in [Comparers -> 0 .. lastCommand] /\ pre' \in 0 .. lastCommand
    BY <1>1 DEF SelfInv, SelfTypeOK, Compared, ConsumedFrame
  <2>2. consecutive' \in Nat
    BY DEF SelfInv, SelfTypeOK, Compared
  <2>3. streak' \subseteq 1 .. lastCommand /\ judged' \subseteq 1 .. lastCommand
    BY <1>1 DEF SelfInv, SelfTypeOK, Compared
  <2>4. {settled', twofold', misread', orderly'} \subseteq BOOLEAN
    BY DEF SelfInv, SelfTypeOK, Compared
  <2>5. commands' \in Seq(BOOLEAN) /\ Len(commands') <= CommandsMax
    BY DEF SelfInv, SelfTypeOK, Compared
  <2> QED
    BY <1>1, <2>1, <2>2, <2>3, <2>4, <2>5 DEF SelfTypeOK
<1>3. OneComparison'
  <2>1. orderly' => orderly /\ \A d \in Comparers : comparing'[d] = 0
    BY DEF SelfInv, SelfTypeOK, OneComparison, Compared
  <2>2. pre' = 0
    BY DEF Compared, ConsumedFrame
  <2> QED
    BY <2>1, <2>2 DEF OneComparison
<1>4. (streak \subseteq judged)' /\ IsFiniteSet(streak)'
  <2>1. IsFiniteSet({}) /\ IsFiniteSet(streak \cup {command})
    BY FS_EmptySet, FS_AddElement DEF SelfInv
  <2> QED
    BY <2>1 DEF SelfInv, Compared
<1>5. StuckIsCounted'
  <2> SUFFICES ASSUME orderly'
               PROVE  consecutive' = Cardinality(streak') /\ ~twofold' /\ ~misread'
    BY DEF StuckIsCounted
  <2>1. orderly /\ command = lastCommand /\ command \notin judged
    BY <1>1 DEF SelfInv, OneComparison, Compared
  <2>2. ~twofold' /\ ~misread'
    BY <2>1 DEF SelfInv, StuckIsCounted, Compared
  <2>3. PICK delta \in Deltas :
          /\ consecutive' = IF interpretDelta(delta, commands[lastCommand]) = "stuck"
                              THEN consecutive + 1 ELSE 0
          /\ streak' = IF commands[command] /\ delta = "none" THEN streak \cup {command} ELSE {}
    BY DEF Compared
  <2>4. CASE commands[command] /\ delta = "none"
    <3>1. interpretDelta(delta, commands[lastCommand]) = "stuck"
      BY <2>1, <2>4 DEF interpretDelta
    <3>2. Cardinality(streak \cup {command}) = Cardinality(streak) + 1
      BY <2>1, FS_AddElement DEF SelfInv
    <3> QED
      BY <2>1, <2>2, <2>3, <2>4, <3>1, <3>2 DEF SelfInv, StuckIsCounted
  <2>5. CASE ~(commands[command] /\ delta = "none")
    <3>1. interpretDelta(delta, commands[lastCommand]) # "stuck"
      BY <2>1, <2>5 DEF interpretDelta
    <3>2. Cardinality({}) = 0
      BY FS_EmptySet
    <3> QED
      BY <2>2, <2>3, <2>5, <3>1, <3>2
  <2> QED
    BY <2>4, <2>5
<1> QED
  BY <1>2, <1>3, <1>4, <1>5 DEF SelfInv

LEMMA OtherStepsKeep ==
  ASSUME SelfInv,
         Settles \/ ResetStuckCounter \/ \E c \in Comparers : CompareFails(c)
  PROVE  SelfInv'
<1>1. CASE Settles
  BY <1>1 DEF Settles, SelfInv, SelfTypeOK, OneComparison, StuckIsCounted, lastCommand
<1>2. CASE ResetStuckCounter
  <2>1. IsFiniteSet({}) /\ Cardinality({}) = 0
    BY FS_EmptySet
  <2>2. SelfTypeOK'
    <3>1. {settled', twofold', misread', orderly'} \subseteq BOOLEAN
      BY <1>2 DEF SelfInv, SelfTypeOK, ResetStuckCounter, Comparing
    <3>2. lastCommand' = lastCommand /\ consecutive' \in Nat /\ streak' \subseteq 1 .. lastCommand
      BY <1>2 DEF ResetStuckCounter, lastCommand
    <3> QED
      BY <1>2, <3>1, <3>2 DEF SelfInv, SelfTypeOK, ResetStuckCounter
  <2>3. OneComparison'
    BY <1>2 DEF SelfInv, OneComparison, ResetStuckCounter, lastCommand
  <2>4. StuckIsCounted' /\ (streak \subseteq judged)' /\ IsFiniteSet(streak)'
    BY <1>2, <2>1 DEF SelfInv, StuckIsCounted, ResetStuckCounter
  <2> QED
    BY <2>2, <2>3, <2>4 DEF SelfInv
<1>3. CASE \E c \in Comparers : CompareFails(c)
  <2>1. PICK c \in Comparers : CompareFails(c)
    BY <1>3
  <2>2. SelfTypeOK'
    <3>1. comparing' \in [Comparers -> 0 .. lastCommand] /\ lastCommand' = lastCommand
      BY <2>1 DEF SelfInv, SelfTypeOK, CompareFails, lastCommand
    <3> QED
      BY <2>1, <3>1 DEF SelfInv, SelfTypeOK, CompareFails
  <2>3. OneComparison'
    BY <2>1 DEF SelfInv, SelfTypeOK, OneComparison, CompareFails, lastCommand
  <2>4. StuckIsCounted' /\ (streak \subseteq judged)' /\ IsFiniteSet(streak)'
    BY <2>1 DEF SelfInv, StuckIsCounted, CompareFails
  <2> QED
    BY <2>2, <2>3, <2>4 DEF SelfInv
<1> QED
  BY <1>1, <1>2, <1>3

LEMMA SelfStep == SelfInv /\ [SelfNext]_selfVars => SelfInv'
<1> SUFFICES ASSUME SelfInv, [SelfNext]_selfVars PROVE SelfInv'
  OBVIOUS
<1>1. CASE \E moves \in BOOLEAN : RecordPreCommandFrame(moves)
  BY <1>1, RecordKeeps
<1>2. CASE \E c \in Comparers : ComparePostFrame(c)
  BY <1>2, CompareKeeps
<1>3. CASE \E c \in Comparers : Compared(c)
  BY <1>3, ComparedKeeps
<1>4. CASE Settles \/ ResetStuckCounter \/ \E c \in Comparers : CompareFails(c)
  BY <1>4, OtherStepsKeep
<1>5. CASE UNCHANGED selfVars
  BY <1>5 DEF selfVars, SelfInv, SelfTypeOK, OneComparison, StuckIsCounted, lastCommand
<1> QED
  BY <1>1, <1>2, <1>3, <1>4, <1>5 DEF SelfNext

\* However many comparisons and commands there are, so long as nothing happens during
\* a comparison: the count of stuck motions is that of different motions, one after the
\* other, each judged once and by its own opcode.
THEOREM StuckCountIsHonest == SelfSpec => []StuckIsCounted
<1>1. SelfInv => StuckIsCounted
  BY DEF SelfInv
<1> QED
  BY <1>1, SelfStarts, SelfStep, PTL DEF SelfSpec

------------------------------------------------------------------------------
(****************************************************************************)
(* The inference clients                                                    *)
(****************************************************************************)

\* What a call of a client is made of: where it is, what it said and what is to come.
Phases == {"idle", "ok", "failed"} \cup Running
Texts == Seq(Parts)
CallRecords == [phase : Phases, attempt : 0 .. MaxRetries, error : Errors \cup {"none"},
                answer : Texts, coming : Texts, text : Texts, content : Texts]

InferTypeOK ==
  /\ adapter \in {"gemini", "openrouter", "ollama", "backend"}
  /\ call \in [Calls -> CallRecords]
  /\ stats = [total |-> stats.total, ok |-> stats.ok, failed |-> stats.failed]

\* What was read and what is still to come are the answer.
ReadInOrder == \A c \in Calls : call[c].phase = "reading" => call[c].answer = call[c].text \o call[c].coming

\* The inductive invariant of the inference clients.
InferInv == InferTypeOK /\ StatsAddUp /\ ReadInOrder /\ ChunksDoNotMatter

-----------------------------------------------------------------------------
LEMMA NativeCall == <<"call">> \in Seq(Parts)
<1>1. "call" \in Parts
  BY DEF Parts
<1>2. ASSUME NEW S, NEW e \in S PROVE <<e>> = Append(<<>>, e)
  OBVIOUS
<1> QED
  BY <1>1, <1>2, AppendProperties, EmptySeq

LEMMA MatchIsOne ==
  ASSUME NEW u \in Seq(Parts), NEW opening, NEW closing, NEW k \in Nat,
         NEW p \in Matched(u, opening, k, closing), NEW q \in Matched(u, opening, k, closing)
  PROVE  p = q
<1>1. /\ p \in Brackets(u, opening, k, closing) /\ q \in Brackets(u, opening, k, closing)
      /\ p[1] <= q[1] /\ q[1] <= p[1]
  BY DEF Matched
<1>2. /\ p \in (DOMAIN u) \X (DOMAIN u) /\ q \in (DOMAIN u) \X (DOMAIN u)
      /\ p[1] + k < p[2] /\ q[1] + k < q[2] /\ u[p[2]] = closing /\ u[q[2]] = closing
      /\ \A m \in p[1] .. p[2] - 1 : u[m] # closing
      /\ \A m \in q[1] .. q[2] - 1 : u[m] # closing
  BY <1>1 DEF Brackets
<1>3. p = <<p[1], p[2]>> /\ q = <<q[1], q[2]>> /\ p[1] \in Int /\ p[2] \in Int /\ q[1] \in Int /\ q[2] \in Int
  BY <1>2, LenProperties
<1>4. p[1] = q[1]
  BY <1>1, <1>3
<1>5. ~ q[2] < p[2] /\ ~ p[2] < q[2]
  BY <1>2, <1>3, <1>4
<1> QED
  BY <1>3, <1>4, <1>5

LEMMA MatchOfPrefix ==
  ASSUME NEW s \in Seq(Parts), NEW t \in Seq(Parts), NEW opening, NEW closing, NEW k \in Nat,
         NEW p \in Matched(s, opening, k, closing)
  PROVE  p \in Matched(s \o t, opening, k, closing)
<1> DEFINE u == s \o t
<1>1. /\ u \in Seq(Parts) /\ DOMAIN u = 1 .. Len(s) + Len(t) /\ DOMAIN s = 1 .. Len(s)
      /\ Len(s) \in Nat /\ Len(t) \in Nat /\ \A i \in 1 .. Len(s) : u[i] = s[i]
  BY ConcatProperties, LenProperties
<1> HIDE DEF u
<1>2. /\ p \in Brackets(s, opening, k, closing)
      /\ \A q \in Brackets(s, opening, k, closing) : p[1] <= q[1]
  BY DEF Matched
<1>3. /\ p = <<p[1], p[2]>> /\ p[1] \in 1 .. Len(s) /\ p[2] \in 1 .. Len(s)
      /\ p[1] + k < p[2] /\ s[p[1]] = opening /\ s[p[2]] = closing
      /\ \A m \in p[1] .. p[2] - 1 : s[m] # closing
  BY <1>1, <1>2 DEF Brackets
<1>4. p \in Brackets(u, opening, k, closing)
  BY <1>1, <1>3 DEF Brackets
<1>5. ASSUME NEW q \in Brackets(u, opening, k, closing) PROVE p[1] <= q[1]
  <2>1. /\ q = <<q[1], q[2]>> /\ q[1] \in 1 .. Len(s) + Len(t) /\ q[2] \in 1 .. Len(s) + Len(t)
        /\ q[1] + k < q[2] /\ u[q[1]] = opening /\ u[q[2]] = closing
        /\ \A m \in q[1] .. q[2] - 1 : u[m] # closing
    BY <1>1, <1>5 DEF Brackets
  <2>2. CASE q[2] <= Len(s)
    <3>1. q[1] \in 1 .. Len(s) /\ q[2] \in 1 .. Len(s) /\ \A m \in q[1] .. q[2] - 1 : m \in 1 .. Len(s)
      BY <1>1, <2>1, <2>2
    <3>2. q \in Brackets(s, opening, k, closing)
      BY <1>1, <2>1, <3>1 DEF Brackets
    <3> QED
      BY <1>2, <3>2
  <2>3. CASE q[2] > Len(s)
    <3>1. u[p[2]] = closing
      BY <1>1, <1>3
    <3>2. ~ p[2] \in q[1] .. q[2] - 1
      BY <2>1, <3>1
    <3> QED
      BY <1>1, <1>3, <2>1, <2>3, <3>2
  <2> QED
    BY <1>1, <2>1, <2>2, <2>3
<1>6. p \in Matched(u, opening, k, closing)
  BY <1>4, <1>5 DEF Matched
<1> QED
  BY <1>6 DEF u

LEMMA RewrittenOfPrefix ==
  ASSUME NEW s \in Seq(Parts), NEW t \in Seq(Parts), NEW content \in Rewritten(s)
  PROVE  /\ Rewritten(s \o t) = {content}
         /\ \E i \in 1 .. Len(s) : s[i] = "py("
<1>1. PICK p \in Matched(s, "py(", 0, ")") : content = <<"call">> \o SubSeq(s, p[1] + 1, p[2] - 1)
  BY DEF Rewritten
<1>2. p[1] \in 1 .. Len(s) /\ p[2] \in 1 .. Len(s) /\ s[p[1]] = "py(" /\ p[1] < p[2] /\ Len(s) \in Nat
  BY LenProperties DEF Matched, Brackets
<1> DEFINE u == s \o t
<1>3. u \in Seq(Parts) /\ p \in Matched(u, "py(", 0, ")")
  BY MatchOfPrefix, ConcatProperties
<1>4. \A q \in Matched(u, "py(", 0, ")") : q = p
  BY <1>3, MatchIsOne
<1>5. SubSeq(u, p[1] + 1, p[2] - 1) = SubSeq(s, p[1] + 1, p[2] - 1)
  <2>1. CASE ~(p[1] + 1 <= p[2] - 1)
    BY <1>2, <2>1, SubSeqEmpty
  <2>2. CASE p[1] + 1 <= p[2] - 1
    <3>1. p[1] + 1 \in 1 .. Len(s) /\ p[2] - 1 \in 1 .. Len(s)
      BY <1>2, <2>2, LenProperties
    <3> QED
      BY <3>1, SubSeqOfConcat1
  <2> QED
    BY <2>1, <2>2, Zenon
<1> HIDE DEF u
<1>6. Rewritten(u) = {content}
  BY <1>1, <1>3, <1>4, <1>5 DEF Rewritten
<1> QED
  BY <1>2, <1>6 DEF u

LEMMA RewrittenType ==
  ASSUME NEW s \in Seq(Parts), NEW r \in Rewritten(s)
  PROVE  r \in Seq(Parts)
<1>1. PICK p \in Matched(s, "py(", 0, ")") : r = <<"call">> \o SubSeq(s, p[1] + 1, p[2] - 1)
  BY DEF Rewritten
<1>2. p[1] \in 1 .. Len(s) /\ p[2] \in 1 .. Len(s)
  BY LenProperties DEF Matched, Brackets
<1>3. \A i \in p[1] + 1 .. p[2] - 1 : s[i] \in Parts
  <2>1. \A i \in p[1] + 1 .. p[2] - 1 : i \in 1 .. Len(s)
    BY <1>2, LenProperties
  <2> QED
    BY <2>1, ElementOfSeq
<1>4. SubSeq(s, p[1] + 1, p[2] - 1) \in Seq(Parts)
  BY <1>2, <1>3, SubSeqProperties
<1>5. <<"call">> \in Seq(Parts)
  BY NativeCall
<1> QED
  BY <1>1, <1>4, <1>5, ConcatProperties

LEMMA PlainType == ASSUME NEW s \in Seq(Parts) PROVE plainContent(s) \in Seq(Parts)
<1>1. <<"call">> \in Seq(Parts)
  BY NativeCall
<1>2. Rewritten(s) # {} => (CHOOSE r \in Rewritten(s) : TRUE) \in Rewritten(s)
  OBVIOUS
<1> QED
  BY <1>1, <1>2, RewrittenType DEF plainContent

-----------------------------------------------------------------------------

LEMMA OneMore ==
  ASSUME NEW A \in SUBSET Calls, NEW c \in Calls, c \notin A
  PROVE  Cardinality(A) \in Nat /\ Cardinality(A \cup {c}) = Cardinality(A) + 1
<1>1. IsFiniteSet(A)
  BY InferenceAssumption, FS_Subset
<1> QED
  BY <1>1, FS_AddElement, FS_CardinalityType

LEMMA StatsFollow ==
  ASSUME InferTypeOK, StatsAddUp, NEW c \in Calls, NEW n,
         call' \in [Calls -> CallRecords], call'[c] = n, \A o \in Calls \ {c} : call'[o] = call[o],
         adapter' = adapter,
         \/ call[c].phase = "idle" /\ n.phase \in Running /\ Counted("total")
         \/ call[c].phase \in Running /\ n.phase \in Running /\ stats' = stats
         \/ call[c].phase \in Running /\ n.phase = "ok" /\ Counted("ok")
         \/ call[c].phase \in Running /\ n.phase = "failed" /\ Counted("failed")
  PROVE  StatsAddUp' /\ (stats = [total |-> stats.total, ok |-> stats.ok, failed |-> stats.failed])'
<1> DEFINE T == {k \in Calls : call[k].phase # "idle"}
           O == {k \in Calls : call[k].phase = "ok"}
           F == {k \in Calls : call[k].phase = "failed"}
<1>1. call \in [Calls -> CallRecords] /\ stats = [total |-> stats.total, ok |-> stats.ok, failed |-> stats.failed]
  BY DEF InferTypeOK
<1>2. call'[c] = n /\ \A o \in Calls \ {c} : call'[o] = call[o]
  OBVIOUS
<1>3. CASE adapter = "backend"
  BY <1>1, <1>3, Zenon DEF StatsAddUp, Counted
<1>4. CASE adapter # "backend"
  <2>1. stats.total = Cardinality(T) /\ stats.ok = Cardinality(O) /\ stats.failed = Cardinality(F)
    BY <1>4, Zenon DEF StatsAddUp
  <2>2. CASE call[c].phase = "idle" /\ n.phase \in Running /\ Counted("total")
    <3>1. T' = T \cup {c} /\ O' = O /\ F' = F /\ c \notin T
      BY <1>2, <2>2 DEF Running
    <3>2. stats' = [total |-> stats.total + 1, ok |-> stats.ok, failed |-> stats.failed]
      BY <1>1, <1>4, <2>2 DEF Counted
    <3>3. Cardinality(T \cup {c}) = Cardinality(T) + 1
      BY <3>1, OneMore
    <3>4. Cardinality(T') = stats'.total /\ Cardinality(O') = stats'.ok /\ Cardinality(F') = stats'.failed
      BY <2>1, <3>1, <3>2, <3>3
    <3> QED
      BY <3>2, <3>4 DEF StatsAddUp
  <2>3. CASE call[c].phase \in Running /\ n.phase \in Running /\ stats' = stats
    <3>1. T' = T /\ O' = O /\ F' = F
      BY <1>2, <2>3 DEF Running
    <3> QED
      BY <1>1, <2>1, <2>3, <3>1 DEF StatsAddUp
  <2>4. CASE call[c].phase \in Running /\ n.phase = "ok" /\ Counted("ok")
    <3>1. T' = T /\ O' = O \cup {c} /\ F' = F /\ c \notin O
      BY <1>2, <2>4 DEF Running
    <3>2. stats' = [total |-> stats.total, ok |-> stats.ok + 1, failed |-> stats.failed]
      BY <1>1, <1>4, <2>4 DEF Counted
    <3>3. Cardinality(O \cup {c}) = Cardinality(O) + 1
      BY <3>1, OneMore
    <3>4. Cardinality(T') = stats'.total /\ Cardinality(O') = stats'.ok /\ Cardinality(F') = stats'.failed
      BY <2>1, <3>1, <3>2, <3>3
    <3> QED
      BY <3>2, <3>4 DEF StatsAddUp
  <2>5. CASE call[c].phase \in Running /\ n.phase = "failed" /\ Counted("failed")
    <3>1. T' = T /\ O' = O /\ F' = F \cup {c} /\ c \notin F
      BY <1>2, <2>5 DEF Running
    <3>2. stats' = [total |-> stats.total, ok |-> stats.ok, failed |-> stats.failed + 1]
      BY <1>1, <1>4, <2>5 DEF Counted
    <3>3. Cardinality(F \cup {c}) = Cardinality(F) + 1
      BY <3>1, OneMore
    <3>4. Cardinality(T') = stats'.total /\ Cardinality(O') = stats'.ok /\ Cardinality(F') = stats'.failed
      BY <2>1, <3>1, <3>2, <3>3
    <3> QED
      BY <3>2, <3>4 DEF StatsAddUp
  <2> QED
    BY <2>2, <2>3, <2>4, <2>5
<1> QED
  BY <1>3, <1>4

-----------------------------------------------------------------------------
LEMMA OneCallChanges ==
  ASSUME InferInv, NEW c \in Calls, NEW n,
         call' \in [Calls -> CallRecords], call'[c] = n, \A o \in Calls \ {c} : call'[o] = call[o],
         adapter' = adapter,
         \/ call[c].phase = "idle" /\ n.phase \in Running /\ Counted("total")
         \/ call[c].phase \in Running /\ n.phase \in Running /\ stats' = stats
         \/ call[c].phase \in Running /\ n.phase = "ok" /\ Counted("ok")
         \/ call[c].phase \in Running /\ n.phase = "failed" /\ Counted("failed"),
         n.phase = "reading" => n.answer = n.text \o n.coming,
         n.phase = "ok" /\ ~Contains(n.answer, "tool{")
           /\ ~(Contains(n.answer, "py(") /\ Contains(n.answer, "call"))
           => n.content = plainContent(n.answer)
  PROVE  InferInv'
<1>1. StatsAddUp' /\ (stats = [total |-> stats.total, ok |-> stats.ok, failed |-> stats.failed])'
  BY StatsFollow DEF InferInv
<1>3. call' \in [Calls -> CallRecords] /\ call'[c] = n /\ \A o \in Calls \ {c} : call'[o] = call[o]
  OBVIOUS
<1>4. InferTypeOK'
  BY <1>1, <1>3 DEF InferInv, InferTypeOK
<1>5. ReadInOrder'
  BY <1>3, Zenon DEF InferInv, ReadInOrder
<1>6. ChunksDoNotMatter'
  BY <1>3, Zenon DEF InferInv, ChunksDoNotMatter
<1> QED
  BY <1>1, <1>4, <1>5, <1>6 DEF InferInv

LEMMA OneCallMoves ==
  ASSUME InferInv, NEW c \in Calls, NEW n \in CallRecords,
         call' = [call EXCEPT ![c] = n], adapter' = adapter,
         \/ call[c].phase = "idle" /\ n.phase \in Running /\ Counted("total")
         \/ call[c].phase \in Running /\ n.phase \in Running /\ stats' = stats
         \/ call[c].phase \in Running /\ n.phase = "ok" /\ Counted("ok")
         \/ call[c].phase \in Running /\ n.phase = "failed" /\ Counted("failed"),
         n.phase = "reading" => n.answer = n.text \o n.coming,
         n.phase = "ok" /\ ~Contains(n.answer, "tool{")
           /\ ~(Contains(n.answer, "py(") /\ Contains(n.answer, "call"))
           => n.content = plainContent(n.answer)
  PROVE  InferInv'
<1>1. call \in [Calls -> CallRecords]
  BY DEF InferInv, InferTypeOK
<1>2. call' \in [Calls -> CallRecords] /\ call'[c] = n /\ \A o \in Calls \ {c} : call'[o] = call[o]
  BY <1>1
<1> QED
  BY <1>2, OneCallChanges

LEMMA CallIs ==
  ASSUME InferInv, NEW c \in Calls
  PROVE  /\ call[c] \in CallRecords /\ call[c].attempt \in 0 .. MaxRetries
         /\ call \in [Calls -> CallRecords] /\ <<>> \in Seq(Parts)
         /\ call[c].answer \in Seq(Parts) /\ call[c].text \in Seq(Parts) /\ call[c].coming \in Seq(Parts)
<1>1. <<>> \in Seq(Parts)
  BY EmptySeq
<1> QED
  BY <1>1 DEF InferInv, InferTypeOK, Texts, CallRecords

LEMMA InferStarting == InferInit => InferInv
<1> SUFFICES ASSUME InferInit PROVE InferInv
  OBVIOUS
<1>1. InferTypeOK
  <2>1. NoCall \in CallRecords
    BY EmptySeq, InferenceAssumption DEF Texts, NoCall, CallRecords, Phases
  <2> QED
    BY <2>1 DEF InferInit, InferTypeOK
<1>2. \A c \in Calls : call[c].phase = "idle"
  BY DEF InferInit, NoCall
<1>3. StatsAddUp
  <2>1. /\ {c \in Calls : call[c].phase # "idle"} = {} /\ {c \in Calls : call[c].phase = "ok"} = {}
        /\ {c \in Calls : call[c].phase = "failed"} = {}
    BY <1>2
  <2> QED
    BY <2>1, FS_EmptySet DEF InferInit, StatsAddUp
<1> QED
  BY <1>1, <1>2, <1>3 DEF InferInv, ReadInOrder, ChunksDoNotMatter

LEMMA StepInfer == ASSUME InferInv, NEW c \in Calls, infer(c) \/ Retry(c) PROVE InferInv'
<1> DEFINE n == [call[c] EXCEPT !.phase = FirstPhase]
<1>1. /\ call[c] \in CallRecords /\ call \in [Calls -> CallRecords]
  BY CallIs
<1>2. call' = [call EXCEPT ![c] = n] /\ adapter' = adapter
  BY <1>1 DEF infer, Retry
<1>3. n \in CallRecords /\ n.phase = FirstPhase /\ FirstPhase \in {"streaming", "asking"}
  BY <1>1 DEF Texts, CallRecords, Phases, Running, FirstPhase
<1>4. \/ call[c].phase = "idle" /\ n.phase \in Running /\ Counted("total")
      \/ call[c].phase \in Running /\ n.phase \in Running /\ stats' = stats
  BY <1>3 DEF infer, Retry, Running
<1> HIDE DEF n
<1> QED
  BY <1>2, <1>3, <1>4, OneCallMoves

LEMMA NoneIsFine == 0 \in 0 .. MaxRetries /\ "none" \in Errors \cup {"none"} /\ "ok" \in Phases
BY InferenceAssumption DEF Phases

\* The records of the replies and of the chunks, field by field.
LEMMA ReplyIs ==
  ASSUME NEW a, NEW content
  PROVE  [NoCall EXCEPT !.phase = "ok", !.answer = a, !.content = content]
           = [phase |-> "ok", attempt |-> 0, error |-> "none", answer |-> a, coming |-> <<>>, text |-> <<>>,
              content |-> content]
<1>1. [NoCall EXCEPT !.phase = "ok"]
        = [phase |-> "ok", attempt |-> 0, error |-> "none", answer |-> <<>>, coming |-> <<>>, text |-> <<>>,
           content |-> <<>>]
  BY DEF NoCall
<1>2. [[phase |-> "ok", attempt |-> 0, error |-> "none", answer |-> <<>>, coming |-> <<>>, text |-> <<>>,
        content |-> <<>>] EXCEPT !.answer = a]
        = [phase |-> "ok", attempt |-> 0, error |-> "none", answer |-> a, coming |-> <<>>, text |-> <<>>,
           content |-> <<>>]
  OBVIOUS
<1>3. [[phase |-> "ok", attempt |-> 0, error |-> "none", answer |-> a, coming |-> <<>>, text |-> <<>>,
        content |-> <<>>] EXCEPT !.content = content]
        = [phase |-> "ok", attempt |-> 0, error |-> "none", answer |-> a, coming |-> <<>>, text |-> <<>>,
           content |-> content]
  OBVIOUS
<1> QED
  BY <1>1, <1>2, <1>3

LEMMA ClosedIs ==
  ASSUME InferInv, NEW c \in Calls, NEW phase \in Phases, NEW e \in Errors, NEW i \in 0 .. MaxRetries
  PROVE  LET n == [NoCall EXCEPT !.phase = phase, !.error = e, !.attempt = i] IN
         n \in CallRecords /\ n.phase = phase
BY CallIs DEF Texts, NoCall, CallRecords

LEMMA StepAskFails == ASSUME InferInv, NEW c \in Calls, AskFails(c) PROVE InferInv'
<1>1. PICK e \in Errors : Catch(c, e)
  BY DEF AskFails
<1>2. call[c].phase = "asking" /\ adapter' = adapter /\ call[c].attempt \in 0 .. MaxRetries /\ MaxRetries \in Nat
  BY CallIs, InferenceAssumption DEF AskFails
<1>3. ASSUME BacksOff(c, e), call[c].attempt < MaxRetries, stats' = stats PROVE InferInv'
  <2> DEFINE n == [NoCall EXCEPT !.phase = "backoff", !.error = e, !.attempt = call[c].attempt + 1]
  <2>1. call[c].attempt + 1 \in 0 .. MaxRetries
    BY <1>2, <1>3
  <2>2. n \in CallRecords /\ n.phase = "backoff"
    BY <2>1, ClosedIs DEF Phases, Running
  <2>3. call' = [call EXCEPT ![c] = n]
    BY <1>3 DEF BacksOff
  <2> HIDE DEF n
  <2> QED
    BY <1>2, <1>3, <2>2, <2>3, OneCallMoves DEF Running
<1>4. ASSUME Closes(c, "failed", e), Counted("failed") PROVE InferInv'
  <2> DEFINE n == [NoCall EXCEPT !.phase = "failed", !.error = e, !.attempt = call[c].attempt]
  <2>1. n \in CallRecords /\ n.phase = "failed"
    BY <1>2, ClosedIs DEF Phases
  <2>2. call' = [call EXCEPT ![c] = n]
    BY <1>4 DEF Closes
  <2> HIDE DEF n
  <2> QED
    BY <1>2, <1>4, <2>1, <2>2, OneCallMoves DEF Running
<1>5. CASE adapter = "backend"
  <2>1. BackendCatch(c, e)
    BY <1>1, <1>5, Zenon DEF Catch
  <2>2. stats' = stats /\ Counted("failed")
    BY <1>5, <2>1 DEF BackendCatch, Counted
  <2>3. Closes(c, "failed", e) \/ (BacksOff(c, e) /\ call[c].attempt < MaxRetries)
    BY <1>2, <2>1 DEF BackendCatch
  <2> QED
    BY <1>3, <1>4, <2>2, <2>3
<1>6. CASE adapter # "backend"
  <2>1. \/ Closes(c, "failed", e) /\ Counted("failed")
        \/ BacksOff(c, e) /\ call[c].attempt < MaxRetries /\ stats' = stats
    BY <1>1, <1>6, Zenon DEF Catch, CatchError, OllamaCatch
  <2> QED
    BY <1>3, <1>4, <2>1
<1> QED
  BY <1>5, <1>6

LEMMA StepReplied == ASSUME InferInv, NEW c \in Calls, Replied(c) PROVE InferInv'
<1>1. PICK a \in Answers :
        call' = [call EXCEPT ![c] = [NoCall EXCEPT !.phase = "ok", !.answer = a, !.content = plainContent(a)]]
  BY DEF Replied
<1> DEFINE n == [NoCall EXCEPT !.phase = "ok", !.answer = a, !.content = plainContent(a)]
<1>2. a \in Seq(Parts) /\ plainContent(a) \in Seq(Parts) /\ <<>> \in Seq(Parts)
  BY InferenceAssumption, PlainType, EmptySeq
<1>3. n \in CallRecords /\ n.phase = "ok" /\ n.answer = a /\ n.content = plainContent(a)
  <2>1. n = [phase |-> "ok", attempt |-> 0, error |-> "none", answer |-> a, coming |-> <<>>, text |-> <<>>,
             content |-> plainContent(a)]
    BY ReplyIs
  <2> HIDE DEF n
  <2>2. 0 \in 0 .. MaxRetries /\ "none" \in Errors \cup {"none"} /\ "ok" \in Phases
    BY NoneIsFine
  <2>3. [phase |-> "ok", attempt |-> 0, error |-> "none", answer |-> a, coming |-> <<>>, text |-> <<>>,
         content |-> plainContent(a)] \in CallRecords
    BY <1>2, <2>2 DEF Texts, CallRecords
  <2> QED
    BY <2>1, <2>3
<1>4. call' = [call EXCEPT ![c] = n]
  BY <1>1
<1> HIDE DEF n
<1>5. call[c].phase = "asking" /\ Counted("ok") /\ adapter' = adapter
  BY DEF Replied
<1> QED
  BY <1>3, <1>4, <1>5, OneCallMoves DEF Running

LEMMA StepStream == ASSUME InferInv, NEW c \in Calls, StreamBegins(c) \/ StreamFails(c) PROVE InferInv'
<1>0. call[c] \in CallRecords /\ call[c].attempt \in 0 .. MaxRetries /\ <<>> \in Seq(Parts)
      /\ call \in [Calls -> CallRecords]
  BY CallIs
<1>1. CASE StreamBegins(c)
  <2>1. PICK a \in Answers : call' = [call EXCEPT ![c].phase = "reading", ![c].answer = a,
                                                  ![c].coming = a, ![c].text = <<>>]
    BY <1>1 DEF StreamBegins
  <2>2. a \in Texts /\ <<>> \in Texts /\ <<>> \o a = a
    BY InferenceAssumption, EmptySeq, ConcatEmptySeq DEF Texts
  <2>3. call' \in [Calls -> CallRecords] /\ \A o \in Calls \ {c} : call'[o] = call[o]
    BY <1>0, <2>1, <2>2 DEF CallRecords, Phases, Running
  <2>4. call'[c].phase = "reading" /\ call'[c].answer = a /\ call'[c].coming = a /\ call'[c].text = <<>>
    BY <1>0, <2>1 DEF CallRecords
  <2>5. call[c].phase = "streaming" /\ stats' = stats /\ adapter' = adapter
    BY <1>1 DEF StreamBegins
  <2> QED
    BY <2>2, <2>3, <2>4, <2>5, OneCallChanges DEF Running
<1>2. CASE StreamFails(c)
  <2> DEFINE n == [NoCall EXCEPT !.phase = "asking", !.attempt = call[c].attempt]
  <2>1. n \in CallRecords /\ n.phase = "asking"
    BY <1>0 DEF Texts, NoCall, CallRecords, Phases, Running
  <2>2. call' = [call EXCEPT ![c] = n] /\ stats' = stats /\ adapter' = adapter
        /\ call[c].phase \in {"streaming", "reading"}
    BY <1>2 DEF StreamFails
  <2> HIDE DEF n
  <2> QED
    BY <2>1, <2>2, OneCallMoves DEF Running
<1> QED
  BY <1>1, <1>2

LEMMA Returned ==
  ASSUME InferInv, NEW c \in Calls, NEW content \in Seq(Parts), Returns(c, content), call[c].phase = "reading",
         ~Contains(call[c].answer, "tool{")
           /\ ~(Contains(call[c].answer, "py(") /\ Contains(call[c].answer, "call"))
           => content = plainContent(call[c].answer)
  PROVE  InferInv'
<1> DEFINE n == [NoCall EXCEPT !.phase = "ok", !.answer = call[c].answer, !.content = content]
<1>1. n \in CallRecords /\ n.phase = "ok" /\ n.answer = call[c].answer /\ n.content = content
  <2>1. n = [phase |-> "ok", attempt |-> 0, error |-> "none", answer |-> call[c].answer, coming |-> <<>>,
             text |-> <<>>, content |-> content]
    BY ReplyIs
  <2> HIDE DEF n
  <2>2. 0 \in 0 .. MaxRetries /\ "none" \in Errors \cup {"none"} /\ "ok" \in Phases
    BY NoneIsFine
  <2>3. call[c].answer \in Seq(Parts) /\ <<>> \in Seq(Parts)
    BY CallIs
  <2>4. [phase |-> "ok", attempt |-> 0, error |-> "none", answer |-> call[c].answer, coming |-> <<>>,
         text |-> <<>>, content |-> content] \in CallRecords
    BY <2>2, <2>3 DEF Texts, CallRecords
  <2> QED
    BY <2>1, <2>4
<1>2. call' = [call EXCEPT ![c] = n] /\ Counted("ok") /\ adapter' = adapter
  BY DEF Returns
<1> HIDE DEF n
<1> QED
  BY <1>1, <1>2, OneCallMoves DEF Running

LEMMA StepStreamEnds == ASSUME InferInv, NEW c \in Calls, StreamEnds(c) PROVE InferInv'
<1>1. call[c].phase = "reading" /\ call[c].coming = <<>> /\ Returns(c, plainContent(call[c].text))
  BY DEF StreamEnds
<1>2. call[c].answer = call[c].text
  <2>1. call[c].answer = call[c].text \o <<>>
    BY <1>1 DEF InferInv, ReadInOrder
  <2> QED
    BY <2>1, CallIs, ConcatEmptySeq
<1>3. plainContent(call[c].text) \in Seq(Parts)
  BY CallIs, PlainType
<1> QED
  BY <1>1, <1>2, <1>3, Returned

\* A chunk: the text so far is a prefix of the answer.
LEMMA ChunkIs ==
  ASSUME NEW text \in Seq(Parts), NEW coming \in Seq(Parts), NEW k \in DOMAIN coming
  PROVE  /\ SubSeq(coming, 1, k) \in Seq(Parts) /\ SubSeq(coming, k + 1, Len(coming)) \in Seq(Parts)
         /\ text \o SubSeq(coming, 1, k) \in Seq(Parts)
         /\ (text \o SubSeq(coming, 1, k)) \o SubSeq(coming, k + 1, Len(coming)) = text \o coming
<1>1. Len(coming) \in Nat /\ DOMAIN coming = 1 .. Len(coming) /\ k \in 1 .. Len(coming)
  BY LenProperties
<1>2. \A i \in 1 .. Len(coming) : coming[i] \in Parts
  BY ElementOfSeq
<1>3. SubSeq(coming, 1, k) \in Seq(Parts)
  BY <1>1, <1>2, SubSeqProperties
<1>4. SubSeq(coming, k + 1, Len(coming)) \in Seq(Parts)
  BY <1>1, <1>2, SubSeqProperties
<1>5. SubSeq(coming, 1, k) \o SubSeq(coming, k + 1, Len(coming)) = coming
  <2>1. 1 \in 1 .. Len(coming) + 1 /\ k \in 1 - 1 .. Len(coming) /\ Len(coming) \in k .. Len(coming)
    BY <1>1
  <2>2. SubSeq(coming, 1, k) \o SubSeq(coming, k + 1, Len(coming)) = SubSeq(coming, 1, Len(coming))
    BY <2>1, ConcatAdjacentSubSeq
  <2> QED
    BY <2>2, SubSeqFull
<1>6. text \o SubSeq(coming, 1, k) \in Seq(Parts)
  BY <1>3, ConcatProperties
<1>7. (text \o SubSeq(coming, 1, k)) \o SubSeq(coming, k + 1, Len(coming))
        = text \o (SubSeq(coming, 1, k) \o SubSeq(coming, k + 1, Len(coming)))
  <2> DEFINE v == SubSeq(coming, 1, k)
             w == SubSeq(coming, k + 1, Len(coming))
  <2>1. v \in Seq(Parts) /\ w \in Seq(Parts)
    BY <1>3, <1>4
  <2> HIDE DEF v, w
  <2>2. (text \o v) \o w = text \o (v \o w)
    BY <2>1, ConcatAssociative
  <2> QED
    BY <2>2 DEF v, w
<1> QED
  BY <1>3, <1>4, <1>5, <1>6, <1>7

LEMMA SliceIs ==
  ASSUME NEW s \in Seq(Parts), NEW m \in 1 .. Len(s), NEW k \in 1 .. Len(s)
  PROVE  SubSeq(s, m, k) \in Seq(Parts)
<1>1. \A i \in m .. k : i \in 1 .. Len(s)
  BY LenProperties
<1>2. \A i \in m .. k : s[i] \in Parts
  BY <1>1, ElementOfSeq
<1> QED
  BY <1>2, SubSeqProperties

LEMMA FirstToolCallIs ==
  ASSUME NEW s \in Seq(Parts), NEW r \in FirstToolCall(s)
  PROVE  r \in Seq(Parts) /\ \E i \in 1 .. Len(s) : s[i] = "tool{"
<1>1. PICK p \in Matched(s, "tool{", 1, "}") : r = SubSeq(s, p[1], p[2])
  BY DEF FirstToolCall
<1>2. p[1] \in 1 .. Len(s) /\ p[2] \in 1 .. Len(s) /\ s[p[1]] = "tool{" /\ Len(s) \in Nat
  BY LenProperties DEF Matched, Brackets
<1> QED
  BY <1>1, <1>2, SliceIs

LEMMA ContainedInConcat ==
  ASSUME NEW s \in Seq(Parts), NEW t \in Seq(Parts), NEW e, Contains(s, e) \/ Contains(t, e)
  PROVE  Contains(s \o t, e)
<1>1. /\ Len(s) \in Nat /\ Len(t) \in Nat /\ Len(s \o t) = Len(s) + Len(t)
      /\ \A i \in 1 .. Len(s) + Len(t) : (s \o t)[i] = IF i <= Len(s) THEN s[i] ELSE t[i - Len(s)]
  BY ConcatProperties, LenProperties
<1>2. CASE Contains(s, e)
  BY <1>1, <1>2 DEF Contains
<1>3. CASE Contains(t, e)
  <2>1. PICK i \in 1 .. Len(t) : t[i] = e
    BY <1>3 DEF Contains
  <2>2. /\ i + Len(s) \in 1 .. Len(s) + Len(t) /\ ~(i + Len(s) <= Len(s)) /\ (i + Len(s)) - Len(s) = i
    BY <1>1, <2>1
  <2>3. (s \o t)[i + Len(s)] = e
    BY <1>1, <2>1, <2>2
  <2> QED
    BY <1>1, <2>2, <2>3 DEF Contains
<1> QED
  BY <1>2, <1>3

LEMMA StepReadChunk == ASSUME InferInv, NEW c \in Calls, ReadChunk(c) PROVE InferInv'
<1>1. /\ call[c].answer \in Seq(Parts) /\ call[c].text \in Seq(Parts) /\ call[c].coming \in Seq(Parts)
      /\ call[c] \in CallRecords /\ call \in [Calls -> CallRecords]
  BY CallIs
<1>2. PICK k \in DOMAIN call[c].coming :
        LET chunk == SubSeq(call[c].coming, 1, k)
            text == call[c].text \o chunk
            exits == EarlyExit(chunk, text)
        IN \/ \E content \in exits : Returns(c, content)
           \/ /\ exits = {}
              /\ call' = [call EXCEPT ![c].text = text,
                            ![c].coming = SubSeq(@, k + 1, Len(@))]
              /\ UNCHANGED <<stats, adapter>>
  BY DEF ReadChunk
<1> DEFINE chunk == SubSeq(call[c].coming, 1, k)
           text == call[c].text \o chunk
           rest == SubSeq(call[c].coming, k + 1, Len(call[c].coming))
<1>3. chunk \in Seq(Parts) /\ rest \in Seq(Parts) /\ text \in Seq(Parts)
      /\ text \o rest = call[c].text \o call[c].coming
  BY <1>1, ChunkIs
<1>4. call[c].phase = "reading" /\ call[c].answer = text \o rest
  BY <1>3 DEF ReadChunk, InferInv, ReadInOrder
<1>5. CASE \E content \in EarlyExit(chunk, text) : Returns(c, content)
  <2> HIDE DEF text, rest
  <2>1. PICK content \in EarlyExit(chunk, text) : Returns(c, content)
    BY <1>5
  <2>2. CASE Contains(chunk, "call")
    <3>1. content = <<"call">> /\ content \in Seq(Parts)
      BY <2>1, <2>2, NativeCall DEF EarlyExit
    <3>2. Contains(text, "call")
      BY <1>1, <1>3, <2>2, ContainedInConcat DEF text
    <3>3. Contains(call[c].answer, "call")
      BY <1>3, <1>4, <3>2, ContainedInConcat
    <3>4. content = plainContent(call[c].answer)
      BY <3>1, <3>3, Zenon DEF plainContent
    <3> QED
      BY <1>4, <2>1, <3>1, <3>4, Returned
  <2>3. CASE ~Contains(chunk, "call") /\ FirstToolCall(text) # {}
    <3>1. content \in FirstToolCall(text)
      BY <2>1, <2>3, Zenon DEF EarlyExit
    <3>2. content \in Seq(Parts) /\ Contains(text, "tool{")
      BY <1>3, <3>1, FirstToolCallIs DEF Contains
    <3>3. Contains(call[c].answer, "tool{")
      BY <1>3, <1>4, <3>2, ContainedInConcat
    <3> QED
      BY <1>4, <2>1, <3>2, <3>3, Returned
  <2>4. CASE ~Contains(chunk, "call") /\ FirstToolCall(text) = {}
    <3>1. content \in Rewritten(text)
      BY <2>1, <2>4, Zenon DEF EarlyExit
    <3>2. content \in Seq(Parts)
      BY <1>3, <3>1, RewrittenType
    <3>3. Rewritten(text \o rest) = {content} /\ Contains(text, "py(")
      BY <1>3, <3>1, RewrittenOfPrefix, Zenon DEF Contains
    <3>4. Contains(call[c].answer, "py(")
      BY <1>3, <1>4, <3>3, ContainedInConcat
    <3>5. ~Contains(call[c].answer, "call") => content = plainContent(call[c].answer)
      BY <1>4, <3>3 DEF plainContent
    <3> QED
      BY <1>4, <2>1, <3>2, <3>4, <3>5, Returned
  <2> QED
    BY <2>2, <2>3, <2>4
<1>6. CASE /\ call' = [call EXCEPT ![c].text = text, ![c].coming = rest]
           /\ UNCHANGED <<stats, adapter>>
  <2> HIDE DEF text, rest
  <2>1. text \in Texts /\ rest \in Texts
    BY <1>3 DEF Texts
  <2>2. call' \in [Calls -> CallRecords] /\ \A o \in Calls \ {c} : call'[o] = call[o]
    BY <1>1, <1>6, <2>1 DEF CallRecords
  <2>3. /\ call'[c].phase = "reading" /\ call'[c].answer = call[c].answer
        /\ call'[c].coming = rest /\ call'[c].text = text
    BY <1>1, <1>4, <1>6 DEF CallRecords
  <2> QED
    BY <1>4, <1>6, <2>2, <2>3, OneCallChanges DEF Running
<1>7. call' = [call EXCEPT ![c].text = text, ![c].coming = SubSeq(@, k + 1, Len(@))]
      => call' = [call EXCEPT ![c].text = text, ![c].coming = rest]
  BY <1>1 DEF Texts, CallRecords
<1> QED
  BY <1>2, <1>5, <1>6, <1>7

\* Retries, failures and streams in any number of pieces: the clients' figures add up,
\* and an answer means the same however it was cut into chunks.
THEOREM InferenceReportsAreTrue == InferSpec => []InferenceIsTrue
<1>1. InferInv /\ [InferNext]_inferVars => InferInv'
  <2> SUFFICES ASSUME InferInv, [InferNext]_inferVars PROVE InferInv'
    OBVIOUS
  <2>1. CASE InferNext
    BY <2>1, StepInfer, StepAskFails, StepReplied, StepStream, StepStreamEnds, StepReadChunk
       DEF InferNext, Proceeds
  <2>2. CASE UNCHANGED inferVars
    BY <2>2, Zenon DEF inferVars, InferInv, InferTypeOK, StatsAddUp, ReadInOrder, ChunksDoNotMatter
  <2> QED
    BY <2>1, <2>2
<1>2. InferInv => InferenceIsTrue
  BY DEF InferInv, InferenceIsTrue
<1> QED
  BY <1>1, <1>2, InferStarting, PTL DEF InferSpec

------------------------------------------------------------------------------
(****************************************************************************)
(* The semantic map                                                         *)
(****************************************************************************)

\* The ranges of the map's variables.
Features == UNION {UNION Views[p] : p \in Places}
Bests == [id : Int, confidence : {0, 70, 90}]
MapRuns == [phase : {"idle", "describe", "pose", "analyze", "match"}, seen : Places \cup {Nowhere},
            view : SUBSET Features, next : Nat, best : Bests, denied : SUBSET Nat]

\* Nodes 0 to k - 1, each with its excuse.
Filled(ns, k) ==
  /\ k \in Nat /\ ns = [i \in 0 .. k - 1 |-> ns[i]]
  /\ \A i \in 0 .. k - 1 : ns[i].excused = TRUE

\* The nodes, those in the file included, have the ids from zero on, each with its excuse.
MapIsWhole ==
  /\ Filled(nodes, nextId) /\ \E k \in Nat : Filled(disk.nodes, k)
  /\ unsaved \in BOOLEAN /\ (unsaved = FALSE => disk.nodes = nodes)

\* The mutex, and what the analysis in hand has found out about the nodes before the next.
OneAnalysis ==
  /\ run \in [Runs -> MapRuns] /\ robot \in Places /\ analyzing \in BOOLEAN
  /\ \A r \in Runs : run[r].phase # "idle" => analyzing = TRUE
  /\ \A r, q \in Runs : run[r].phase # "idle" /\ run[q].phase # "idle" => r = q

\* An analysis before its first node; what it has found out about node k behind it.
Unmatched(j) == j.next = 0 /\ j.best = [id |-> -1, confidence |-> 0] /\ j.denied = {}
Passed(j, k) == nodes[k].place # j.seen \/ k \in j.denied \/ Apart(j.view, nodes[k].features)
MatchedSoFar(j) ==
  /\ j.next \in 0 .. nextId /\ j.best.id \in -1 .. nextId - 1
  /\ (j.best.id = -1 <=> j.best.confidence = 0)
  /\ j.best.id = -1 => \A k \in 0 .. j.next - 1 : Passed(j, k)

\* Whatever analysis is matching has compared what it has passed.
MatchesAreDue ==
  \A r \in Runs : /\ run[r].phase \in {"describe", "pose", "analyze"} => Unmatched(run[r]) /\ run[r].seen \in Places
                  /\ run[r].phase = "match" => MatchedSoFar(run[r])

\* The inductive invariant of the map, and what a step keeps besides.
MapInv == MapIsWhole /\ OneAnalysis /\ MatchesAreDue
MapGood == MapInv' /\ (unsaved \/ \A i \in DOMAIN nodes : i \in DOMAIN nodes' /\ nodes'[i].place = nodes[i].place)

-----------------------------------------------------------------------------
LEMMA EmptyIsFilled == Filled(NoNodes, 0)
<1>1. 0 .. 0 - 1 = {}
  OBVIOUS
<1>2. NoNodes = [i \in 0 .. 0 - 1 |-> NoNodes[i]]
  BY <1>1 DEF NoNodes
<1> QED
  BY <1>1, <1>2 DEF Filled

LEMMA FilledDomain == ASSUME NEW ns, NEW k, Filled(ns, k) PROVE DOMAIN ns = 0 .. k - 1
BY DEF Filled

\* loadFromJSON() counts on from where the file ends.
LEMMA CounterIsRestored == ASSUME NEW ns, NEW k, Filled(ns, k) PROVE restoredId(ns) = k
<1>1. DOMAIN ns = 0 .. k - 1 /\ k \in Nat /\ ns = [i \in 0 .. k - 1 |-> ns[i]]
  BY DEF Filled
<1>2. CASE k = 0
  <2>1. 0 .. k - 1 = {}
    BY <1>2
  <2>2. ns = NoNodes
    BY <1>1, <2>1 DEF NoNodes
  <2> QED
    BY <1>2, <2>2 DEF restoredId
<1>3. CASE k # 0
  <2>1. ns # NoNodes
    <3>1. DOMAIN NoNodes = {} /\ 0 \in DOMAIN ns
      BY <1>1, <1>3 DEF NoNodes
    <3> QED
      BY <3>1
  <2> DEFINE last == CHOOSE i \in DOMAIN ns : \A n \in DOMAIN ns : n <= i
  <2>2. k - 1 \in DOMAIN ns /\ \A n \in DOMAIN ns : n <= k - 1
    BY <1>1, <1>3
  <2>3. last \in DOMAIN ns /\ \A n \in DOMAIN ns : n <= last
    BY <2>2
  <2> HIDE DEF last
  <2>4. last = k - 1
    BY <1>1, <2>2, <2>3
  <2>5. restoredId(ns) = 1 + last
    BY <2>1 DEF restoredId, last
  <2> QED
    BY <1>1, <2>4, <2>5
<1> QED
  BY <1>2, <1>3

LEMMA IdleIs == /\ Idle \in MapRuns /\ Idle.phase = "idle"
BY DEF Idle, MapRuns, Bests

LEMMA MapStarting == MapInit => MapInv
<1> SUFFICES ASSUME MapInit PROVE MapInv
  OBVIOUS
<1>1. MapIsWhole
  BY EmptyIsFilled DEF MapInit, MapIsWhole
<1>2. run \in [Runs -> MapRuns] /\ \A r \in Runs : run[r].phase = "idle"
  BY IdleIs DEF MapInit
<1>3. robot \in Places /\ analyzing \in BOOLEAN
  BY DEF MapInit
<1> QED
  BY <1>1, <1>2, <1>3 DEF MapInv, OneAnalysis, MatchesAreDue

\* The memory is left alone, and one analysis goes on, ends or begins.
LEMMA MemoryStays ==
  ASSUME MapInv, UNCHANGED mapMemory, robot' \in Places, run' \in [Runs -> MapRuns], NEW r \in Runs,
         analyzing' \in {analyzing, TRUE} \/ (analyzing' = FALSE /\ run[r].phase # "idle" /\ run'[r].phase = "idle"), \A q \in Runs \ {r} : run'[q] = run[q],
         run'[r].phase # "idle" => run[r].phase # "idle" \/ (analyzing = FALSE /\ analyzing' = TRUE),
         run'[r].phase \in {"describe", "pose", "analyze"} => Unmatched(run'[r]) /\ run'[r].seen \in Places,
         run'[r].phase = "match" => MatchedSoFar(run'[r])
  PROVE  MapGood
<1>1. MapIsWhole'
  BY DEF MapInv, MapIsWhole, mapMemory, Filled
<1>2. OneAnalysis'
  BY DEF MapInv, OneAnalysis
<1>3. \A j : MatchedSoFar(j) => MatchedSoFar(j)'
  BY DEF MatchedSoFar, Passed, mapMemory
<1>4. \A q \in Runs : /\ run'[q].phase \in {"describe", "pose", "analyze"} => Unmatched(run'[q]) /\ run'[q].seen \in Places
                      /\ run'[q].phase = "match" => MatchedSoFar(run'[q])
  BY Zenon DEF MapInv, MatchesAreDue
<1>5. MatchesAreDue'
  BY <1>4 DEF MatchesAreDue, MatchedSoFar, Passed, mapMemory, Unmatched
<1> QED
  BY <1>1, <1>2, <1>5 DEF MapGood, MapInv, mapMemory

LEMMA RunIs == ASSUME MapInv, NEW r \in Runs
  PROVE run \in [Runs -> MapRuns] /\ run[r] \in MapRuns /\ robot \in Places
BY DEF MapInv, OneAnalysis

LEMMA StepRobot == MapInv /\ (Walk \/ StartMapLoop \/ StopMapLoop \/ UNCHANGED mapVars) => MapGood
<1> SUFFICES ASSUME MapInv, Walk \/ StartMapLoop \/ StopMapLoop \/ UNCHANGED mapVars PROVE MapGood
  OBVIOUS
<1>1. UNCHANGED <<mapMemory, analyzing, run>> /\ robot' \in Places
  BY DEF Walk, StartMapLoop, StopMapLoop, mapVars, mapMemory, MapInv, OneAnalysis
<1>2. MapIsWhole'
  BY <1>1 DEF MapInv, MapIsWhole, mapMemory, Filled
<1>3. OneAnalysis'
  BY <1>1 DEF MapInv, OneAnalysis
<1>4. MatchesAreDue'
  BY <1>1 DEF MapInv, MatchesAreDue, MatchedSoFar, Passed, mapMemory, Unmatched
<1> QED
  BY <1>1, <1>2, <1>3, <1>4 DEF MapGood, MapInv, mapMemory

LEMMA StepAnalyze == ASSUME MapInv, NEW r \in Runs, Analyze(r) PROVE MapGood
<1> DEFINE j == [Idle EXCEPT !.phase = "describe", !.seen = robot]
<1>1. run' = [run EXCEPT ![r] = j] /\ UNCHANGED <<mapMemory, robot>> /\ analyzing' = TRUE /\ analyzing = FALSE
  <2>1. ~analyzing
    BY DEF Analyze
  <2>2. analyzing \in BOOLEAN
    BY DEF MapInv, OneAnalysis
  <2> QED
    BY <2>1, <2>2 DEF Analyze
<1>2. j \in MapRuns /\ j.phase = "describe" /\ Unmatched(j) /\ j.seen \in Places
  <2>1. j \in MapRuns /\ j.phase = "describe" /\ j.seen = robot
    BY IdleIs, RunIs DEF MapRuns
  <2>2. j.next = 0 /\ j.best = [id |-> -1, confidence |-> 0] /\ j.denied = {}
    BY DEF Idle
  <2> QED
    BY <2>1, <2>2, RunIs DEF Unmatched
<1> HIDE DEF j
<1>3. run' \in [Runs -> MapRuns] /\ run'[r] = j /\ \A q \in Runs \ {r} : run'[q] = run[q]
  BY <1>1, <1>2, RunIs
<1> QED
  BY <1>1, <1>2, <1>3, RunIs, MemoryStays

\* The two awaits before the analysis.
LEMMA StepWaits == ASSUME MapInv, NEW r \in Runs, Described(r) \/ PoseRead(r) PROVE MapGood
<1>1. PICK phase \in {"pose", "analyze"} : run' = [run EXCEPT ![r].phase = phase]
  BY DEF Described, PoseRead
<1>2. UNCHANGED <<mapMemory, robot, analyzing>> /\ run[r].phase \in {"describe", "pose"}
  BY DEF Described, PoseRead
<1>3. /\ run' \in [Runs -> MapRuns] /\ \A q \in Runs \ {r} : run'[q] = run[q]
      /\ run'[r].phase = phase /\ run'[r].seen = run[r].seen /\ run'[r].next = run[r].next
      /\ run'[r].best = run[r].best /\ run'[r].denied = run[r].denied
  BY <1>1, RunIs DEF MapRuns
<1>4. Unmatched(run[r]) /\ run[r].seen \in Places
  BY <1>2 DEF MapInv, MatchesAreDue
<1>5. Unmatched(run'[r])
  BY <1>3, <1>4 DEF Unmatched
<1> QED
  BY <1>2, <1>3, <1>4, <1>5, RunIs, MemoryStays

LEMMA StepAnalyzed == ASSUME MapInv, NEW r \in Runs, Analyzed(r) PROVE MapGood
<1>1. PICK v \in Views[run[r].seen] : run' = [run EXCEPT ![r].view = v, ![r].phase = "match"]
  BY DEF Analyzed
<1>2. UNCHANGED <<mapMemory, robot, analyzing>> /\ run[r].phase = "analyze"
  BY DEF Analyzed
<1>3. Unmatched(run[r]) /\ run[r].seen \in Places
  BY <1>2 DEF MapInv, MatchesAreDue
<1>4. v \in SUBSET Features
  BY <1>1, <1>3 DEF Features
<1>5. /\ run' \in [Runs -> MapRuns] /\ \A q \in Runs \ {r} : run'[q] = run[q]
      /\ run'[r].phase = "match" /\ run'[r].next = run[r].next /\ run'[r].best = run[r].best
  BY <1>1, <1>4, RunIs DEF MapRuns
<1>6. MatchedSoFar(run'[r])
  <2>1. nextId \in Nat
    BY DEF MapInv, MapIsWhole, Filled
  <2>2. run'[r].next = 0 /\ run'[r].best.id = -1 /\ run'[r].best.confidence = 0
    BY <1>3, <1>5 DEF Unmatched
  <2> QED
    BY <2>1, <2>2 DEF MatchedSoFar
<1> QED
  BY <1>2, <1>5, <1>6, RunIs, MemoryStays

LEMMA StepAnalysisFails == ASSUME MapInv, NEW r \in Runs, AnalysisFails(r) PROVE MapGood
<1>1. run' = [run EXCEPT ![r] = Idle] /\ UNCHANGED <<mapMemory, robot>> /\ run[r].phase # "idle" /\ analyzing' = FALSE
  BY DEF AnalysisFails, Unlock
<1>2. run' \in [Runs -> MapRuns] /\ run'[r].phase = "idle" /\ \A q \in Runs \ {r} : run'[q] = run[q]
  BY <1>1, RunIs, IdleIs
<1> QED
  BY <1>1, <1>2, RunIs, MemoryStays

\* One more node looked at: it is another place, or told apart, or denied, or the best so far.
LEMMA StepMatchNext == ASSUME MapInv, NEW r \in Runs, MatchNext(r) PROVE MapGood
<1> DEFINE j == run[r]
           k == run[r].next
<1>1. /\ j.phase = "match" /\ k \in DOMAIN nodes /\ j \in MapRuns /\ MatchedSoFar(j)
      /\ UNCHANGED <<mapMemory, robot, analyzing>> /\ run \in [Runs -> MapRuns]
  BY RunIs DEF MatchNext, MapInv, MatchesAreDue
<1>2. k \in 0 .. nextId - 1 /\ nextId \in Nat /\ k + 1 \in 0 .. nextId /\ k \in Nat
  BY <1>1, FilledDomain DEF MapInv, MapIsWhole, Filled
<1>3. CASE Apart(j.view, nodes[k].features) /\ run' = [run EXCEPT ![r].next = @ + 1]
  <2>1. /\ run' \in [Runs -> MapRuns] /\ \A q \in Runs \ {r} : run'[q] = run[q]
        /\ run'[r].phase = "match" /\ run'[r].next = k + 1 /\ run'[r].best = j.best
        /\ run'[r].denied = j.denied /\ run'[r].view = j.view /\ run'[r].seen = j.seen
    BY <1>1, <1>2, <1>3 DEF MapRuns
  <2>2. Passed(run'[r], k) /\ \A n : Passed(j, n) => Passed(run'[r], n)
    BY <1>3, <2>1 DEF Passed
  <2>3. MatchedSoFar(run'[r])
    BY <1>1, <1>2, <2>1, <2>2 DEF MatchedSoFar
  <2> QED
    BY <1>1, <2>1, <2>3, RunIs, MemoryStays
<1>4. ASSUME NEW c \in Recognised(r, k),
             run' = [run EXCEPT
               ![r].next = @ + 1,
               ![r].best = IF Better(@, c) THEN [id |-> k, confidence |-> c] ELSE @,
               ![r].denied = IF c > 60 THEN @ ELSE @ \cup {k}]
      PROVE  MapGood
  <2> DEFINE best == IF Better(j.best, c) THEN [id |-> k, confidence |-> c] ELSE j.best
             denied == IF c > 60 THEN j.denied ELSE j.denied \cup {k}
  <2>1. c \in {0, 70, 90} /\ j.best \in Bests /\ j.denied \in SUBSET Nat
    BY <1>1 DEF Recognised, MapRuns
  <2>2. /\ best \in Bests /\ best.id \in -1 .. nextId - 1 /\ (best.id = -1 <=> best.confidence = 0)
        /\ (best.id = -1 => j.best.id = -1 /\ ~ c > 60)
    BY <1>1, <1>2, <2>1 DEF Better, Bests, MatchedSoFar
  <2>3. denied \in SUBSET Nat /\ j.denied \subseteq denied /\ (~ c > 60 => k \in denied)
    BY <1>2, <2>1
  <2>4. run' = [run EXCEPT ![r].next = k + 1, ![r].best = best, ![r].denied = denied]
    BY <1>1, <1>4 DEF MapRuns
  <2> HIDE DEF best, denied
  <2>5. /\ run' \in [Runs -> MapRuns] /\ \A q \in Runs \ {r} : run'[q] = run[q]
        /\ run'[r].phase = "match" /\ run'[r].next = k + 1 /\ run'[r].best = best
        /\ run'[r].denied = denied /\ run'[r].view = j.view /\ run'[r].seen = j.seen
    <3>1. k + 1 \in Nat /\ best \in Bests /\ denied \in SUBSET Nat
      BY <1>2, <2>2, <2>3
    <3>2. run' \in [Runs -> MapRuns] /\ \A q \in Runs \ {r} : run'[q] = run[q]
      BY <1>1, <2>4, <3>1 DEF MapRuns
    <3>3. run'[r] = [[[j EXCEPT !.next = k + 1] EXCEPT !.best = best] EXCEPT !.denied = denied]
      BY <1>1, <2>4
    <3> QED
      BY <1>1, <3>2, <3>3 DEF MapRuns
  <2>6. /\ ~ c > 60 => Passed(run'[r], k)
        /\ \A n : Passed(j, n) => Passed(run'[r], n)
    BY <2>3, <2>5 DEF Passed
  <2>7. MatchedSoFar(run'[r])
    BY <1>1, <1>2, <2>2, <2>5, <2>6 DEF MatchedSoFar
  <2> QED
    BY <1>1, <2>5, <2>7, RunIs, MemoryStays
<1> QED
  BY <1>1, <1>3, <1>4 DEF MatchNext

\* A node more: it has its excuse, since the nodes of its place were all passed.
LEMMA NodeIsAdded ==
  ASSUME MapInv, NEW j \in MapRuns, MatchedSoFar(j), j.next = nextId, j.best.id = -1
  PROVE  /\ Filled(AddNode(j), nextId + 1)
         /\ \A i \in 0 .. nextId - 1 : AddNode(j)[i] = nodes[i]
<1>1. nextId \in Nat /\ DOMAIN nodes = 0 .. nextId - 1 /\ \A i \in 0 .. nextId - 1 : nodes[i].excused = TRUE
  BY DEF MapInv, MapIsWhole, Filled
<1>2. \A k \in DOMAIN nodes : nodes[k].place = j.seen => k \in j.denied \/ Apart(j.view, nodes[k].features)
  BY <1>1 DEF MatchedSoFar, Passed
<1> DEFINE excused == \A k \in DOMAIN nodes : nodes[k].place = j.seen =>
                        k \in j.denied \/ Apart(j.view, nodes[k].features)
           node == [place |-> j.seen, features |-> j.view, excused |-> excused]
<1>3. excused = TRUE
  BY <1>2
<1>4. DOMAIN nodes \cup {nextId} = 0 .. (nextId + 1) - 1 /\ nextId + 1 \in Nat
  BY <1>1
<1> HIDE DEF excused
<1>5. node.excused = TRUE
  BY <1>3
<1>6. AddNode(j) = [i \in 0 .. (nextId + 1) - 1 |-> IF i # nextId THEN nodes[i] ELSE node]
  BY <1>4, Zenon DEF AddNode, excused
<1> HIDE DEF node
<1>7. \A i \in 0 .. (nextId + 1) - 1 : AddNode(j)[i] = IF i # nextId THEN nodes[i] ELSE node
  BY <1>6
<1>8. AddNode(j) = [i \in 0 .. (nextId + 1) - 1 |-> AddNode(j)[i]]
  BY <1>6
<1>9. \A i \in 0 .. (nextId + 1) - 1 : i # nextId => i \in 0 .. nextId - 1
  BY <1>1
<1>10. \A i \in 0 .. (nextId + 1) - 1 : AddNode(j)[i].excused = TRUE
  BY <1>1, <1>5, <1>7, <1>9
<1>11. \A i \in 0 .. nextId - 1 : i \in 0 .. (nextId + 1) - 1 /\ i # nextId
  BY <1>1
<1> QED
  BY <1>4, <1>7, <1>8, <1>10, <1>11 DEF Filled

LEMMA StepAnalysed == ASSUME MapInv, NEW r \in Runs, Analysed(r) PROVE MapGood
<1> DEFINE j == run[r]
<1>1. /\ j.phase = "match" /\ j \in MapRuns /\ run \in [Runs -> MapRuns] /\ MatchedSoFar(j)
      /\ processScene(r, FALSE) /\ run' = [run EXCEPT ![r] = Idle] /\ analyzing' = FALSE /\ robot' = robot
      /\ (j.next \notin DOMAIN nodes \/ j.best.confidence >= Sure)
  BY RunIs DEF Analysed, MapInv, MatchesAreDue
<1>2. /\ Filled(nodes, nextId) /\ DOMAIN nodes = 0 .. nextId - 1 /\ nextId \in Nat
      /\ \E k \in Nat : Filled(disk.nodes, k)
  BY FilledDomain DEF MapInv, MapIsWhole, Filled
<1>3. Filled(nodes', nextId') /\ \A i \in DOMAIN nodes : i \in DOMAIN nodes' /\ nodes'[i] = nodes[i]
  <2>1. CASE j.best.id = -1
    <3>1. nodes' = AddNode(j) /\ nextId' = nextId + 1
      BY <1>1, <2>1 DEF processScene
    <3>2. j.next = nextId
      BY <1>1, <1>2, <2>1 DEF MatchedSoFar, Sure
    <3>3. /\ Filled(AddNode(j), nextId + 1) /\ \A i \in 0 .. nextId - 1 : AddNode(j)[i] = nodes[i]
      BY <1>1, <2>1, <3>2, NodeIsAdded
    <3>4. DOMAIN AddNode(j) = 0 .. (nextId + 1) - 1
      BY <3>3, FilledDomain
    <3> QED
      BY <1>2, <3>1, <3>3, <3>4
  <2>2. CASE j.best.id # -1
    <3>1. nodes' = nodes /\ nextId' = nextId
      BY <1>1, <2>2 DEF processScene
    <3> QED
      BY <1>2, <3>1
  <2> QED
    BY <2>1, <2>2
<1>4. \/ disk'.nodes = nodes' /\ unsaved' = FALSE
      \/ disk' = disk /\ unsaved' = TRUE
  <2>1. PICK id : Save(nodes', edges', id)
    BY <1>1, Zenon DEF processScene
  <2> QED
    BY <2>1 DEF Save
<1>5. MapIsWhole'
  <2>1. \E k \in Nat : Filled(disk'.nodes, k)
    BY <1>2, <1>3, <1>4 DEF Filled
  <2> QED
    BY <1>3, <1>4, <2>1 DEF MapIsWhole, Filled
<1>6. run' \in [Runs -> MapRuns] /\ \A q \in Runs : run'[q].phase = "idle"
  <2>1. \A q \in Runs : q # r => run[q].phase = "idle"
    BY <1>1 DEF MapInv, OneAnalysis
  <2> QED
    BY <1>1, <2>1, IdleIs
<1>7. OneAnalysis' /\ MatchesAreDue'
  BY <1>1, <1>6, RunIs DEF OneAnalysis, MatchesAreDue
<1> QED
  BY <1>3, <1>5, <1>7 DEF MapGood, MapInv

LEMMA StepRestart == MapInv /\ Restart => MapGood
<1> SUFFICES ASSUME MapInv, Restart PROVE MapGood
  OBVIOUS
<1>1. PICK k \in Nat : Filled(disk.nodes, k)
  BY DEF MapInv, MapIsWhole
<1>2. nodes' = disk.nodes /\ nextId' = k /\ disk' = disk /\ unsaved' = FALSE
  BY <1>1, CounterIsRestored DEF Restart
<1>3. MapIsWhole'
  BY <1>1, <1>2 DEF MapIsWhole, Filled
<1>4. run' \in [Runs -> MapRuns] /\ \A q \in Runs : run'[q].phase = "idle"
  BY IdleIs DEF Restart
<1>5. analyzing' \in BOOLEAN /\ robot' \in Places
  BY RunIs DEF Restart, MapInv, OneAnalysis
<1>6. unsaved \/ nodes' = nodes
  BY <1>2 DEF MapInv, MapIsWhole
<1> QED
  BY <1>3, <1>4, <1>5, <1>6 DEF MapGood, MapInv, OneAnalysis, MatchesAreDue

\* Analyses that wait for one another, fail and are restarted: the map forgets no place
\* and no path, and a place is split only with an excuse.
THEOREM MapsAreFaithful == MapSpec => MapIsFaithful
<1>1. MapInv /\ [MapNext]_mapVars => MapGood
  BY StepRobot, StepAnalyze, StepWaits, StepAnalyzed, StepAnalysisFails, StepMatchNext, StepAnalysed, StepRestart
     DEF MapNext, Progress, OnBytecode, AnalyzeNow
<1>2. MapInv => DuplicateIsExcused
  <2> SUFFICES ASSUME MapInv PROVE DuplicateIsExcused
    OBVIOUS
  <2>1. DOMAIN nodes = 0 .. nextId - 1 /\ \A i \in 0 .. nextId - 1 : nodes[i].excused = TRUE
    BY FilledDomain DEF MapInv, MapIsWhole, Filled
  <2> QED
    BY <2>1 DEF DuplicateIsExcused
<1>3. MapInv /\ [MapNext]_mapVars => MapInv'
  BY <1>1 DEF MapGood
<1>4. MapInv /\ [MapNext]_mapVars
      => [unsaved \/ \A i \in DOMAIN nodes : i \in DOMAIN nodes' /\ nodes'[i].place = nodes[i].place]_mapVars
  BY <1>1 DEF MapGood
<1> QED
  BY <1>2, <1>3, <1>4, MapStarting, PTL DEF MapSpec, MapIsFaithful, NothingForgotten

------------------------------------------------------------------------------
(****************************************************************************)
(* A simulated run and its trace                                            *)
(****************************************************************************)

\* The ranges of the variables of a simulated run.
Labels == {"unknown", "success", "failure"}
Collectors == [collecting : BOOLEAN, frames : Nat, outcome : Labels]
RunTypeOK ==
  /\ target \in 1 .. Targets /\ goal \in 1 .. Targets
  /\ \A a \in answers : a.target \in 1 .. Targets
  /\ collector \in Collectors

\* An answer was true when it was given, and the bridge does not go back.
GoalIsHeard ==
  /\ goal = lastSeen /\ goal <= target
  /\ \A a \in answers : a.target <= target

\* The inductive invariant of a simulated run, and what a step keeps besides.
RunInv == RunTypeOK /\ GoalIsHeard

LEMMA RunStarting == SimRunInit => RunInv
BY SimRunAssumption DEF SimRunInit, RunInv, RunTypeOK, GoalIsHeard, Labels, Collectors

\* What a step that touches neither the goal nor the target may do.
LEMMA GoalStays ==
  ASSUME RunInv, UNCHANGED <<goal, lastSeen, target, collector>>, answers' \subseteq answers
  PROVE  RunInv' /\ goal' >= goal /\ goal' <= target' /\ (collector.outcome = "success" => collector'.outcome = "success")
BY DEF RunInv, RunTypeOK, GoalIsHeard

LEMMA LabelStays ==
  ASSUME RunInv, UNCHANGED <<goal, lastSeen, target, answers>>, NEW c \in Collectors,
         collector' = c, collector.outcome = "success" => c.outcome = "success"
  PROVE  RunInv' /\ goal' >= goal /\ goal' <= target' /\ (collector.outcome = "success" => collector'.outcome = "success")
BY DEF RunInv, RunTypeOK, GoalIsHeard

RunGood == RunInv' /\ goal' >= goal /\ goal' <= target' /\ (collector.outcome = "success" => collector'.outcome = "success")

LEMMA StepTargetPose == RunInv /\ TargetPose => RunGood
<1> SUFFICES ASSUME RunInv, TargetPose PROVE RunGood
  OBVIOUS
<1>1. target' \in 1 .. Targets /\ target' >= target /\ target \in Int
  BY SimRunAssumption DEF TargetPose, RunInv, RunTypeOK
<1>2. UNCHANGED <<goal, lastSeen, answers, collector>>
  BY DEF TargetPose, loopVars, pollVars
<1>3. \A a \in answers : a.target \in Int
  BY SimRunAssumption DEF RunInv, RunTypeOK
<1>4. goal \in Int /\ goal <= target /\ \A a \in answers : a.target <= target
  BY SimRunAssumption DEF RunInv, RunTypeOK, GoalIsHeard
<1>5. GoalIsHeard'
  BY <1>1, <1>2, <1>3, <1>4 DEF RunInv, GoalIsHeard
<1>6. RunTypeOK'
  BY <1>1, <1>2 DEF RunInv, RunTypeOK
<1> QED
  BY <1>1, <1>2, <1>4, <1>5, <1>6 DEF RunGood, RunInv

\* The things that change a collector: none takes a success back.
LEMMA Labelling ==
  ASSUME NEW c \in Collectors
  PROVE  /\ onBytecode(c) \in Collectors /\ onBytecode(c).outcome = c.outcome
         /\ onArrival(c) \in Collectors /\ onArrival(c).outcome = "success"
         /\ onTrouble(c) \in Collectors /\ (c.outcome = "success" => onTrouble(c).outcome = "success")
         /\ [c EXCEPT !.collecting = FALSE] \in Collectors
         /\ [c EXCEPT !.collecting = FALSE].outcome = c.outcome
<1>1. onBytecode(c) \in Collectors /\ onBytecode(c).outcome = c.outcome
  BY DEF onBytecode, Collectors
<1>2. onArrival(c) \in Collectors /\ onArrival(c).outcome = "success"
  BY DEF onArrival, Labels, Collectors
<1>3. c.collecting => onTrouble(c) \in Collectors /\ (c.outcome = "success" => onTrouble(c).outcome = "success")
  BY DEF onTrouble, Labels, Labelled, Collectors
<1>4. ~c.collecting => onTrouble(c) \in Collectors /\ onTrouble(c).outcome = c.outcome
  BY DEF onTrouble, Collectors
<1>5. [c EXCEPT !.collecting = FALSE] \in Collectors /\ [c EXCEPT !.collecting = FALSE].outcome = c.outcome
  BY DEF Collectors
<1> QED
  BY <1>1, <1>2, <1>3, <1>4, <1>5

LEMMA StepPolicyDecides == RunInv /\ PolicyDecides => RunGood
<1> SUFFICES ASSUME RunInv, PolicyDecides PROVE RunGood
  OBVIOUS
<1> DEFINE b == onBytecode(collector)
<1>1. b \in Collectors /\ b.outcome = collector.outcome
  BY Labelling DEF RunInv, RunTypeOK
<1>2. collector' \in {b, onArrival(b), onTrouble(b)} /\ UNCHANGED <<goal, lastSeen, target, answers>>
  BY DEF PolicyDecides, pollVars
<1> HIDE DEF b
<1>3. /\ onArrival(b) \in Collectors /\ onArrival(b).outcome = "success"
      /\ onTrouble(b) \in Collectors /\ (b.outcome = "success" => onTrouble(b).outcome = "success")
  BY <1>1, Labelling
<1> QED
  BY <1>1, <1>2, <1>3, LabelStays DEF RunGood

LEMMA StepStatusAsked == RunInv /\ StatusAsked => RunGood
<1> SUFFICES ASSUME RunInv, StatusAsked PROVE RunGood
  OBVIOUS
<1> DEFINE a == [target |-> target, reached |-> goalReached]
<1>1. answers' = answers \cup {a} /\ UNCHANGED <<goal, lastSeen, target, collector>>
  BY DEF StatusAsked, worldVars, loopVars
<1> QED
  BY <1>1, SimRunAssumption DEF RunInv, RunTypeOK, GoalIsHeard, RunGood

LEMMA StepStatusHeard == RunInv /\ StatusHeard => RunGood
<1> SUFFICES ASSUME RunInv, NEW a \in answers,
               answers' = answers \ {a},
               lastSeen' = (IF Advances(a) THEN a.target ELSE lastSeen),
               goal' = (IF Advances(a) THEN a.target ELSE goal),
               \/ Confirms(a) /\ confirmArrival /\ moving' = FALSE
               \/ ~Confirms(a) /\ UNCHANGED <<running, collector, moving>>,
               target' = target
             PROVE RunGood
  BY DEF StatusHeard
<1>1. /\ a.target \in 1 .. Targets /\ a.target <= target /\ goal = lastSeen /\ goal <= target
      /\ goal \in 1 .. Targets /\ target \in 1 .. Targets
  BY DEF RunInv, RunTypeOK, GoalIsHeard
<1>2. /\ goal' = lastSeen' /\ goal' <= target' /\ goal' >= goal /\ goal' \in 1 .. Targets
  BY <1>1 DEF Advances
<1>3. \A b \in answers' : b \in answers
  OBVIOUS
<1>4. collector' \in {collector, onArrival(collector)}
  BY DEF confirmArrival
<1>5. collector \in Collectors /\ onArrival(collector) \in Collectors /\ onArrival(collector).outcome = "success"
  BY Labelling DEF RunInv, RunTypeOK
<1>7. collector' \in Collectors /\ (collector.outcome = "success" => collector'.outcome = "success")
  BY <1>4, <1>5
<1>8. RunTypeOK' /\ GoalIsHeard'
  BY <1>1, <1>2, <1>3, <1>7 DEF RunInv, RunTypeOK, GoalIsHeard
<1> QED
  BY <1>2, <1>7, <1>8 DEF RunGood, RunInv

\* Written or not, the label is the same.
LEMMA StepEnding == RunInv /\ Ending => RunGood
<1> SUFFICES ASSUME RunInv, Ending PROVE RunGood
  OBVIOUS
<1> DEFINE c == [collector EXCEPT !.collecting = FALSE]
<1>1. c \in Collectors /\ c.outcome = collector.outcome
  BY Labelling DEF RunInv, RunTypeOK
<1>2. collector' \in {collector, c} /\ UNCHANGED <<goal, lastSeen, target, answers>>
  BY DEF Ending, NavigationCompleted, ShutdownWrites, Exit, writeCollectedTraces, worldVars, loopVars, pollVars
<1> HIDE DEF c
<1> QED
  BY <1>1, <1>2, LabelStays, GoalStays DEF RunGood

LEMMA RunStep == RunInv /\ [SimRunNext]_simRunVars => RunGood
<1> SUFFICES ASSUME RunInv, [SimRunNext]_simRunVars PROVE RunGood
  OBVIOUS
<1>1. CASE Drive \/ FrameToPolicy \/ PolicyFails \/ StatusLost \/ Signal \/ UNCHANGED simRunVars
  <2>1. UNCHANGED <<goal, lastSeen, target, collector>> /\ answers' \subseteq answers
    BY <1>1 DEF Drive, FrameToPolicy, PolicyFails, StatusLost, Signal, simRunVars, worldVars, loopVars, pollVars
  <2> QED
    BY <2>1, GoalStays DEF RunGood
<1> QED
  BY <1>1, StepTargetPose, StepPolicyDecides, StepStatusAsked, StepStatusHeard, StepEnding
     DEF SimRunNext, VisionTurn

\* Poses, the policy's decisions and late status answers interleave: the trace of a
\* simulated run goes through its goals in order and keeps its success.
THEOREM TracesTellTheTruth == SimRunSpec => TraceIsTrue
<1>1. RunInv /\ [SimRunNext]_simRunVars => RunInv'
  BY RunStep DEF RunGood
<1>2. RunInv /\ [SimRunNext]_simRunVars => [goal' >= goal /\ goal' <= target']_simRunVars
  BY RunStep DEF RunGood
<1>3. RunInv /\ [SimRunNext]_simRunVars => [collector.outcome = "success" => collector'.outcome = "success"]_simRunVars
  BY RunStep DEF RunGood
<1> QED
  BY <1>1, <1>2, <1>3, RunStarting, PTL DEF SimRunSpec, TraceIsTrue, GoalMovesForward, SuccessIsKept

------------------------------------------------------------------------------
(****************************************************************************)
(* The care assistant's simulation                                          *)
(****************************************************************************)

\* Without a transmitter nothing is sent.
NothingSent == ~linked => sent = "stop"

\* The inductive invariant of the care assistant's simulation.
CareInv == CareTypeOK /\ NothingSent /\ JourneyIsWhole

LEMMA CareStarting == CareInit => CareInv
<1> SUFFICES ASSUME CareInit PROVE CareInv
  OBVIOUS
<1>1. pose \in 0 .. RoomEnd
  BY CareAssumption DEF CareInit
<1>2. CareTypeOK
  BY <1>1, Zenon DEF CareInit, CareTypeOK
<1>3. JourneyIsWhole /\ NothingSent
  BY Zenon DEF CareInit, NothingSent, JourneyIsWhole, WaitCanEnd, ArrivalIsHeard, GoalIsMeant, RestIsOrdered
<1> QED
  BY <1>2, <1>3 DEF CareInv

LEMMA CareStep == CareInv /\ [CareNext]_careVars => CareInv'
<1> SUFFICES ASSUME CareInv, [CareNext]_careVars PROVE CareInv'
  OBVIOUS
<1> USE CareAssumption DEF CareInv, CareTypeOK, NothingSent, JourneyIsWhole, WaitCanEnd, ArrivalIsHeard, GoalIsMeant, RestIsOrdered,
        waitVars, bodyVars
<1>1. ASSUME NEW name \in Spoken, NavigateTo(name) PROVE CareInv'
  BY <1>1 DEF NavigateTo
<1>2. CASE StopCalled
  BY <1>2 DEF StopCalled
<1>3. CASE OtherCalled \/ CallReturns
  BY <1>3 DEF OtherCalled, CallReturns
<1>4. CASE WaitBegins
  BY <1>4 DEF WaitBegins
<1>5. CASE RunEnds
  <2>1. CareTypeOK'
    BY <1>5 DEF RunEnds
  <2>2. ~resolver /\ ~timer /\ exec' = "over" /\ UNCHANGED <<resolver, timer, early, currentGoal, meant>>
    BY <1>5 DEF RunEnds
  <2>3. sent' = "stop"
    BY <1>5, <2>1 DEF RunEnds
  <2>4. NothingSent' /\ WaitCanEnd' /\ ArrivalIsHeard' /\ GoalIsMeant' /\ RestIsOrdered'
    BY <2>2, <2>3
  <2> QED
    BY <2>1, <2>4
<1>6. CASE WaitTimesOut
  BY <1>6 DEF WaitTimesOut
<1>7. CASE Driving
  BY <1>7 DEF Driving, Ticking, Away
<1>8. CASE Arriving
  <2>1. CareTypeOK'
    BY <1>8, Zenon DEF Arriving, Ticking, WaitResolved
  <2>2. currentGoal' = NoGoal /\ UNCHANGED <<meant, early, linked>>
    BY <1>8 DEF Arriving
  <2>3. sent' = "stop"
    BY <1>8 DEF Arriving, Ticking
  <2>4. CASE resolver
    <3>1. ~resolver' /\ ~timer' /\ exec' = "thinking"
      BY <1>8, <2>4 DEF Arriving, WaitResolved
    <3> QED
      BY <2>1, <2>2, <2>3, <3>1
  <2>5. CASE ~resolver
    <3>1. UNCHANGED <<exec, resolver, timer>>
      BY <1>8, <2>5 DEF Arriving
    <3> QED
      BY <2>1, <2>2, <2>3, <2>5, <3>1
  <2> QED
    BY <2>4, <2>5
<1>9. CASE TelemetryComes
  BY <1>9 DEF TelemetryComes
<1>10. CASE UNCHANGED careVars
  BY <1>10 DEF careVars
<1> QED
  BY <1>1, <1>2, <1>3, <1>4, <1>5, <1>6, <1>7, <1>8, <1>9, <1>10 DEF CareNext

\* For any room, any doors and whatever the model calls them, and whatever poses
\* a browser reports: a wait can be told of an arrival and has its timeout, no arrival
\* while somebody waits is left to it, the robot drives where the last navigate that
\* was understood sent it, and at rest the last frame was STOP.
THEOREM JourneysAreWhole == CareSpec => []JourneyIsWhole
<1>1. CareInv => JourneyIsWhole
  BY DEF CareInv
<1> QED
  BY <1>1, CareStarting, CareStep, PTL DEF CareSpec
==============================================================================
