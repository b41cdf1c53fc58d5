------------------------------ MODULE TraceLog ------------------------------
(****************************************************************************)
(* What is remembered of a motion: the traces the tools open and close      *)
(* (brain/planning/roclaw_tools.ts), the reactive traces VisionLoop wraps   *)
(* around its bytecodes (brain/perception/vision_loop.ts), and the logger   *)
(* that keeps them and writes each to a file when it ends                   *)
(* (llmunix-core/trace_logger.ts, brain/memory/trace_logger.ts).            *)
(****************************************************************************)
EXTENDS Naturals, FiniteSets

CONSTANTS
  Goals,      \* what traces are started for
  WindowMax,  \* REACTIVE_TRACE_WINDOW
  MotionsMax, \* bound: bytecodes sent
  TracesMax,  \* bound: traces the tools start
  Seconds     \* bound: seconds of the clock, 0 to Seconds

Untraced == 0
ASSUME TraceAssumption ==
  /\ WindowMax \in Nat \ {0} /\ MotionsMax \in Nat
  /\ TracesMax \in Nat /\ Seconds \in Nat

VARIABLES
  active,    \* activeTraces: trace id -> entry
  files,     \* file name -> the entry written last
  lastId,    \* trace ids given out
  toolTrace, \* the trace the tools will end: of the step, or of the exploration
  loopTrace, \* VisionLoop.activeTraceId
  window,    \* VisionLoop.reactiveTraceId
  taken,     \* VisionLoop.reactiveBytecodesCount
  aim,       \* VisionLoop.currentGoal
  second,    \* the clock, in seconds
  motions,   \* bytecodes sent
  started,   \* traces the tools started
  followed,  \* history: the bytecodes that were sent while loopTrace was set
  replaced   \* history: entries whose file was written again

books      == <<active, files, lastId, replaced>>
traceVars  == <<books, toolTrace, loopTrace, window, taken, aim, second, motions, started, followed>>

Empty == [n \in {} |-> n]

TraceInit ==
  /\ active = Empty /\ files = Empty /\ lastId = 0
  /\ toolTrace = Untraced /\ loopTrace = Untraced /\ window = Untraced /\ taken = 0
  /\ aim \in Goals
  /\ second = 0 /\ motions = 0 /\ started = 0
  /\ followed = {} /\ replaced = {}

-----------------------------------------------------------------------------
(* The logger, on a record of its books *)

Books == [active |-> active, files |-> files, last |-> lastId, replaced |-> replaced]

Kept(b) ==
  /\ active' = b.active /\ files' = b.files /\ lastId' = b.last /\ replaced' = b.replaced

Without(f, n) == [k \in DOMAIN f \ {n} |-> f[k]]
With(f, n, v) == [k \in DOMAIN f \cup {n} |-> IF k = n THEN v ELSE f[k]]

\* startTrace(): the new trace has the id b.last + 1.
StartTrace(b, kind, goal) ==
  [b EXCEPT !.last = @ + 1,
            !.active = With(@, b.last + 1, [id |-> b.last + 1, kind |-> kind, goal |-> goal,
                                            second |-> second, motions |-> {}])]

\* appendBytecode(): an action of a trace that is not active is dropped.
AppendBytecode(b, t, n) ==
  IF t \in DOMAIN b.active
    THEN [b EXCEPT !.active = With(@, t, [b.active[t] EXCEPT !.motions = @ \cup {n}])]
    ELSE b

\* The file is named by the second a trace began in and a slug of its goal; what the
\* schema finds wrong is a warning.
FileName(e) == <<e.second, IF e.kind = "window" THEN "motor sequence" ELSE "", e.goal>>
WriteTrace(b, e) ==
  [b EXCEPT !.files = With(@, FileName(e), e),
            !.replaced = @ \cup {b.files[f] : f \in {FileName(e)} \cap DOMAIN b.files}]

\* endTrace(): a trace that is not active has been written.
EndTrace(b, t) ==
  IF t \in DOMAIN b.active
    THEN WriteTrace([b EXCEPT !.active = Without(@, t)], b.active[t])
    ELSE b

-----------------------------------------------------------------------------
(* The tools *)

\* A step or an exploration begins; the loop logs to its trace, and has its goal but
\* where start() finds the loop running.
BeginTrace(g) ==
  /\ started < TracesMax /\ started' = started + 1
  /\ Kept(StartTrace(EndTrace(Books, toolTrace), "tool", g))
  /\ toolTrace' = lastId' /\ loopTrace' = lastId' /\ aim' \in {aim, g}
  /\ UNCHANGED <<window, taken, second, motions, followed>>

\* The trace ends: abortActiveSession() clears the one of the loop, the stop of an
\* exploration and handleStepRetry() do not.
FinishTrace ==
  /\ {toolTrace, loopTrace} # {Untraced} /\ toolTrace' = Untraced
  /\ loopTrace' \in {Untraced, loopTrace}
  /\ Kept(EndTrace(Books, toolTrace))
  /\ UNCHANGED <<window, taken, aim, second, motions, started, followed>>

\* handleStepRetry(), planned: the step has another trace, of which the loop is not told.
RetryTrace(g) ==
  /\ toolTrace = Untraced /\ loopTrace # Untraced
  /\ started < TracesMax /\ started' = started + 1
  /\ Kept(StartTrace(Books, "tool", g)) /\ toolTrace' = lastId' /\ aim' = g
  /\ UNCHANGED <<loopTrace, window, taken, second, motions, followed>>

-----------------------------------------------------------------------------
(* VisionLoop *)

\* Slip: the window is over and its trace ended, and yet the loop goes on with it.
CloseAndKeep(w, n) == [window |-> w, taken |-> n]

\* What the loop remembers of a window whose trace it ended.
CloseWindow(w, n) == [window |-> Untraced, taken |-> 0]

\* closeReactiveTrace() by stop(), by a timeout, by the dual loops.
CloseReactiveTrace ==
  /\ window # Untraced
  /\ Kept(EndTrace(Books, window))
  /\ window' = CloseWindow(window, taken).window /\ taken' = CloseWindow(window, taken).taken
  /\ UNCHANGED <<toolTrace, loopTrace, aim, second, motions, started, followed>>

\* One bytecode, after it was sent.  A STOP closes the window first and tells the
\* listeners, who may end the step, or the session as well, before it is logged; a
\* bytecode that shows the robot stuck closes the window it is in.
LogMotion(stop, stuck, heard) ==
  LET n      == motions + 1
      closed == IF stop THEN EndTrace(Books, window) ELSE Books
      after  == IF stop /\ window # Untraced THEN CloseWindow(window, taken)
                ELSE [window |-> window, taken |-> taken]
      told   == IF heard = "none" THEN closed ELSE EndTrace(closed, toolTrace)
      under  == IF heard = "session" THEN Untraced ELSE loopTrace
      noted  == AppendBytecode(told, under, n)
      opened == IF after.window = Untraced THEN StartTrace(noted, "window", aim) ELSE noted
      adHoc  == StartTrace(told, "frame", aim)
      alone  == under = Untraced
      w      == IF alone \/ after.window # Untraced THEN after.window ELSE opened.last
      length == IF alone THEN after.taken ELSE IF w = after.window THEN after.taken + 1 ELSE 1
      logged == IF alone THEN EndTrace(AppendBytecode(adHoc, adHoc.last, n), adHoc.last)
                ELSE AppendBytecode(opened, w, n)
      over   == w # Untraced /\ (stuck \/ (~alone /\ length >= WindowMax))
  IN
  /\ motions < MotionsMax /\ motions' = n
  /\ loopTrace' = under
  /\ toolTrace' = IF heard = "none" THEN toolTrace ELSE Untraced
  /\ followed' = IF alone THEN followed ELSE followed \cup {n}
  /\ Kept(IF over THEN EndTrace(logged, w) ELSE logged)
  /\ window' = IF over THEN CloseWindow(w, length).window ELSE w
  /\ taken' = IF over THEN CloseWindow(w, length).taken ELSE length
  /\ UNCHANGED <<aim, second, started>>

Motion == LogMotion(FALSE, FALSE, "none")
StuckMotion == LogMotion(FALSE, TRUE, "none")
StopMotion ==
  \/ LogMotion(TRUE, FALSE, "none")
  \/ toolTrace # Untraced /\ \E h \in {"step", "session"} : LogMotion(TRUE, FALSE, h)

SecondPasses ==
  /\ second < Seconds /\ second' = second + 1
  /\ UNCHANGED <<books, toolTrace, loopTrace, window, taken, aim, motions, started, followed>>

TraceNext ==
  \/ \E g \in Goals : BeginTrace(g) \/ RetryTrace(g)
  \/ FinishTrace
  \/ CloseReactiveTrace \/ Motion \/ StuckMotion \/ StopMotion
  \/ SecondPasses

TraceSpec == TraceInit /\ [][TraceNext]_traceVars

-----------------------------------------------------------------------------
(* Properties *)

Written == {files[f] : f \in DOMAIN files} \cup replaced
Recorded == {active[t] : t \in DOMAIN active} \cup Written

TraceTypeOK ==
  /\ DOMAIN active \subseteq 1 .. lastId
  /\ {toolTrace, loopTrace, window} \subseteq 0 .. lastId
  /\ \A t \in DOMAIN active : active[t].id = t

\* A trace is recorded once, as one that is active or as one that was written, and what
\* no file has any more began in the same second for the same goal as another trace.
EachTraceOnce ==
  /\ {e.id : e \in Recorded} = 1 .. lastId
  /\ \A d, e \in Recorded : d.id = e.id => d = e
  /\ DOMAIN active \cap {e.id : e \in Written} = {}
  /\ \A e \in replaced : \E d \in Written \ {e} : FileName(d) = FileName(e)

\* A bytecode sent while the loop had a trace, be it one that ended, is in exactly one
\* reactive trace; no such trace is longer than the window, and none but the loop's
\* stays open.
OneWindowEach ==
  LET windows == {e \in Recorded : e.kind = "window"} IN
  /\ \A n \in followed : Cardinality({e \in windows : n \in e.motions}) = 1
  /\ \A e \in windows : Cardinality(e.motions) <= WindowMax
  /\ \A e \in windows : e.id \in DOMAIN active => e.id = window

\* A trace the tools did not end is active, and nothing else of theirs is.
ToolTraceIsOpen ==
  {t \in DOMAIN active : active[t].kind = "tool"} = {toolTrace} \ {Untraced}

TracesAreKept == EachTraceOnce /\ OneWindowEach /\ ToolTraceIsOpen

\* Contradicted by handleStepRetry(), which tells the loop nothing: what is sent while
\* the tools have a trace open is an action of that trace.
StepSeesItsMotions == toolTrace # Untraced => loopTrace = toolTrace
=============================================================================
