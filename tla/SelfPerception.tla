---------------------------- MODULE SelfPerception ----------------------------
(****************************************************************************)
(* SelfPerceptionMonitor (brain/perception/self_perception.ts), as used by  *)
(* vision_loop.ts beside it: the frame that a command was based             *)
(* on is kept, the next frame is compared with it, and commands of motion   *)
(* after which nothing changed are counted.  The comparison decodes two     *)
(* images and is awaited; frames and commands keep coming meanwhile.        *)
(****************************************************************************)
EXTENDS Naturals, FiniteSets, Sequences

CONSTANTS
  Comparers,   \* comparisons that may be awaited at once
  CommandsMax  \* bound: commands sent

ASSUME CommandsAssumption == CommandsMax \in Nat

VARIABLES
  commands,    \* the commands recorded so far: TRUE for a motion, FALSE for the others
  pre,         \* the command of preCommandFrame, or 0
  settled,     \* minTimeDeltaMs have passed since preCommandTimestamp
  comparing,   \* awaited comparison -> the command of the frame it compares, or 0
  consecutive, \* consecutiveStuck
  streak,      \* history: the motions seen to change nothing since one that did, or a reset
  judged,      \* history: the commands of which there was a verdict
  twofold,     \* history: a command had two verdicts
  misread,     \* history: a verdict was reached with the opcode of another command
  orderly      \* history: nothing happened while a comparison was awaited

selfVars == <<commands, pre, settled, comparing, consecutive, streak, judged, twofold, misread, orderly>>

lastCommand == Len(commands)
Comparing == \E c \in Comparers : comparing[c] # 0

SelfTypeOK ==
  /\ commands \in Seq(BOOLEAN) /\ Len(commands) <= CommandsMax
  /\ pre \in 0 .. lastCommand /\ comparing \in [Comparers -> 0 .. lastCommand]
  /\ consecutive \in Nat /\ streak \subseteq 1 .. lastCommand /\ judged \subseteq 1 .. lastCommand
  /\ {settled, twofold, misread, orderly} \subseteq BOOLEAN

SelfInit ==
  /\ commands = <<>> /\ pre = 0 /\ settled = FALSE
  /\ comparing = [c \in Comparers |-> 0]
  /\ consecutive = 0 /\ streak = {} /\ judged = {}
  /\ twofold = FALSE /\ misread = FALSE /\ orderly = TRUE

\* recordPreCommandFrame(): the frame of a command that had no comparison is forgotten.
RecordPreCommandFrame(moves) ==
  /\ lastCommand < CommandsMax
  /\ commands' = Append(commands, moves)
  /\ pre' = lastCommand'
  /\ settled' = FALSE
  /\ orderly' = (orderly /\ ~Comparing)
  /\ UNCHANGED <<comparing, consecutive, streak, judged, twofold, misread>>

Settles ==
  /\ pre # 0 /\ ~settled /\ settled' = TRUE
  /\ UNCHANGED <<commands, pre, comparing, consecutive, streak, judged, twofold, misread, orderly>>

\* A frame, where there is one to compare it with that is old enough; the frame stays
\* recorded until the comparison is made.
ComparePostFrame(c) ==
  /\ pre # 0 /\ settled
  /\ comparing[c] = 0
  /\ comparing' = [comparing EXCEPT ![c] = pre]
  /\ orderly' = (orderly /\ ~Comparing)
  /\ UNCHANGED <<commands, pre, settled, consecutive, streak, judged, twofold, misread>>

\* The changes the two thresholds tell apart: less than stuckThreshold, more than
\* anomalyThreshold, and between them.
Deltas == {"none", "some", "much"}
interpretDelta(delta, moves) ==
  CASE moves /\ delta = "none"  -> "stuck"
    [] ~moves /\ delta = "much" -> "anomaly"
    [] OTHER                    -> "coherent"

\* Slip: the frame stays for the next one to be compared with as well.
KeptFrame == pre

\* The frame is given up, even if it is of another command by now.
ConsumedFrame == 0

\* The comparison is made, and judged by the opcode of the last command recorded.
Compared(c) ==
  LET command == comparing[c] IN
  /\ command # 0
  /\ comparing' = [comparing EXCEPT ![c] = 0]
  /\ pre' = ConsumedFrame
  /\ \E delta \in Deltas :
       /\ consecutive' = IF interpretDelta(delta, commands[lastCommand]) = "stuck"
                           THEN consecutive + 1 ELSE 0
       /\ streak' = IF commands[command] /\ delta = "none" THEN streak \cup {command} ELSE {}
  /\ judged' = judged \cup {command}
  /\ twofold' = (twofold \/ command \in judged)
  /\ misread' = (misread \/ command # lastCommand)
  /\ UNCHANGED <<commands, settled, orderly>>

\* An image that cannot be decoded: the check failed, and the frame stays recorded.
CompareFails(c) ==
  /\ comparing[c] # 0
  /\ comparing' = [comparing EXCEPT ![c] = 0]
  /\ UNCHANGED <<commands, pre, settled, consecutive, streak, judged, twofold, misread, orderly>>

\* stop() of the loop resets the count, and leaves the frame for the next start.
ResetStuckCounter ==
  /\ consecutive' = 0 /\ streak' = {}
  /\ orderly' = (orderly /\ ~Comparing)
  /\ UNCHANGED <<commands, pre, settled, comparing, judged, twofold, misread>>

SelfNext ==
  \/ \E moves \in BOOLEAN : RecordPreCommandFrame(moves)
  \/ Settles
  \/ \E c \in Comparers : ComparePostFrame(c) \/ Compared(c) \/ CompareFails(c)
  \/ ResetStuckCounter

SelfSpec == SelfInit /\ [][SelfNext]_selfVars

-----------------------------------------------------------------------------
(* Properties *)

\* "isConfirmedStuck() requires consecutive hits to reduce false positives": what is
\* counted is so many different motions, one after the other, each of which changed
\* nothing and was judged once, as what it was; unless something happened while a
\* comparison was awaited.
StuckIsCounted ==
  orderly => consecutive = Cardinality(streak) /\ ~twofold /\ ~misread

\* Contradicted where a command is recorded during a comparison: the verdict is of "the
\* opcode that was being verified".
VerdictIsItsOwn == ~misread
=============================================================================
