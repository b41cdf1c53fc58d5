----------------------------- MODULE Inference -----------------------------
(****************************************************************************)
(* The adapters that ask a model: Gemini, which streams and falls back to a *)
(* whole answer, OpenRouter, Ollama, and the backend of the orchestrator.   *)
(* Calls of one adapter overlap and share its statistics; each is a loop of *)
(* requests that the server, the network or the timeout may fail.           *)
(****************************************************************************)
EXTENDS Integers, Sequences, SequencesExt, FiniteSets

CONSTANTS
  Calls,         \* calls of infer() that may overlap
  MaxRetries,    \* of the adapters; the backend makes as many attempts
  Answers        \* what the model says, as sequences of parts

\* What an answer is made of: see the section on one request.
Parts == {"words", "call", "py(", "args", ")", "tool{", "args{", "}"}

ASSUME InferenceAssumption ==
  /\ MaxRetries \in Nat /\ IsFiniteSet(Calls)
  /\ Answers \subseteq Seq(Parts) \ {<<>>}

VARIABLES
  adapter,       \* which of the four this process uses
  call,          \* each call
  stats          \* totalCalls, successfulCalls and failedCalls

inferVars == <<adapter, call, stats>>

Running == {"streaming", "reading", "asking", "backoff"}
NoCall == [phase |-> "idle", attempt |-> 0, error |-> "none", answer |-> <<>>,
           coming |-> <<>>, text |-> <<>>, content |-> <<>>]

InferInit ==
  /\ adapter \in {"gemini", "openrouter", "ollama", "backend"}
  /\ call = [c \in Calls |-> NoCall]
  /\ stats = [total |-> 0, ok |-> 0, failed |-> 0]

-----------------------------------------------------------------------------
(* What went wrong, and whether asking again may help.                      *)

\* An HTTP status, the fetch itself, the abort of the timer, or an answer of no use.
Errors == {"503", "429", "401", "TypeError", "AbortError", "empty"}
Statuses == {"503", "429", "401"}
Transient == {"503", "429"}

\* What follows "API error" in the message: a blank and the status.
Message(e) == IF e \in Statuses THEN <<" ", e>> ELSE <<e>>
\* The pattern wants the digits right after "API error".
statusMatch(e) == {Head(Message(e))} \cap Statuses
isRetryableError(e) == e \in {"TypeError", "AbortError"} \/ statusMatch(e) \cap Transient # {}

\* The backend keeps no statistics.
Counted(field) ==
  stats' = IF adapter = "backend" THEN stats ELSE [stats EXCEPT ![field] = @ + 1]

\* The first request of an attempt.
FirstPhase == IF adapter = "gemini" THEN "streaming" ELSE "asking"
Closes(c, phase, e) == call' = [call EXCEPT ![c] = [NoCall EXCEPT
                       !.phase = phase, !.error = e, !.attempt = call[c].attempt]]
BacksOff(c, e) == call' = [call EXCEPT ![c] = [NoCall EXCEPT
                       !.phase = "backoff", !.error = e, !.attempt = call[c].attempt + 1]]

infer(c) ==
  /\ call[c].phase = "idle"
  /\ call' = [call EXCEPT ![c].phase = FirstPhase] /\ Counted("total") /\ UNCHANGED adapter
Retry(c) ==
  /\ call[c].phase = "backoff"
  /\ call' = [call EXCEPT ![c].phase = FirstPhase] /\ UNCHANGED <<stats, adapter>>

\* The catch of the loop: wait and ask again, or break out of it and throw.
CatchError(c, e) ==
  \/ call[c].attempt < MaxRetries /\ isRetryableError(e) /\ BacksOff(c, e) /\ UNCHANGED stats
  \/ call[c].attempt = MaxRetries /\ isRetryableError(e) /\ Closes(c, "failed", e) /\ Counted("failed")
  \/ ~isRetryableError(e) /\ Closes(c, "failed", e) /\ Counted("failed")

\* Ollama asks again whatever went wrong.
OllamaCatch(c, e) ==
  \/ call[c].attempt < MaxRetries /\ BacksOff(c, e) /\ UNCHANGED stats
  \/ call[c].attempt = MaxRetries /\ Closes(c, "failed", e) /\ Counted("failed")

\* The backend counts the first attempt, asks again after 5xx, 429 and the network only,
\* and has no timer of its own.
BackendCatch(c, e) ==
  /\ UNCHANGED stats
  /\ \/ call[c].attempt < MaxRetries - 1 /\ e \in Transient \cup {"TypeError"} /\ BacksOff(c, e)
     \/ call[c].attempt = MaxRetries - 1 /\ e \in Transient \cup {"TypeError"} /\ Closes(c, "failed", e)
     \/ e \in {"401", "empty"} /\ Closes(c, "failed", e)

Catch(c, e) == CASE adapter = "ollama" -> OllamaCatch(c, e)
                 [] adapter = "backend" -> BackendCatch(c, e)
                 [] OTHER -> CatchError(c, e)

-----------------------------------------------------------------------------
(* One request and its answer.  The parts of an answer: "call" is a native  *)
(* function call, "py(" .. ")" a call written in Python, "tool{" .. "}" one *)
(* written out as TOOLCALL:{..., "args":{...}}, and "words" anything else.  *)

\* Where a pattern matches: an opening, at least so many parts of any other kind, and
\* the bracket that closes.  A match is the leftmost.
Brackets(text, opening, parts, closing) ==
  {p \in (DOMAIN text) \X (DOMAIN text) :
     /\ p[1] + parts < p[2] /\ text[p[1]] = opening /\ text[p[2]] = closing
     /\ \A m \in p[1] .. p[2] - 1 : text[m] # closing}
Matched(text, opening, parts, closing) ==
  {p \in Brackets(text, opening, parts, closing) :
     \A q \in Brackets(text, opening, parts, closing) : p[1] <= q[1]}

\* default_api.name(args): rewritten as a call with the arguments up to the bracket.
Rewritten(text) ==
  {<<"call">> \o SubSeq(text, p[1] + 1, p[2] - 1) : p \in Matched(text, "py(", 0, ")")}

\* The answer of generateContent: a function call wins over text, and Python is rewritten.
plainContent(answer) ==
  IF Contains(answer, "call") THEN <<"call">>
  ELSE IF Rewritten(answer) # {} THEN CHOOSE r \in Rewritten(answer) : TRUE ELSE answer

\* A request that is answered as a whole.
Replied(c) ==
  /\ call[c].phase = "asking"
  /\ \E a \in Answers :
       call' = [call EXCEPT ![c] = [NoCall EXCEPT !.phase = "ok", !.answer = a,
                                      !.content = plainContent(a)]]
  /\ Counted("ok") /\ UNCHANGED adapter
AskFails(c) ==
  /\ call[c].phase = "asking"
  /\ \E e \in Errors : (adapter = "backend" => e # "AbortError") /\ Catch(c, e)
  /\ UNCHANGED adapter

\* streamGenerateContent is answered: the chunks come one by one.
StreamBegins(c) ==
  /\ call[c].phase = "streaming"
  /\ \E a \in Answers : call' = [call EXCEPT ![c].phase = "reading", ![c].answer = a,
                                             ![c].coming = a, ![c].text = <<>>]
  /\ UNCHANGED <<stats, adapter>>

\* Whatever fails while streaming, the same is asked again without.
StreamFails(c) ==
  /\ call[c].phase \in {"streaming", "reading"}
  /\ call' = [call EXCEPT ![c] = [NoCall EXCEPT !.phase = "asking", !.attempt = call[c].attempt]]
  /\ UNCHANGED <<stats, adapter>>

\* The text up to the first brace that closes after an opening of TOOLCALL:{.
FirstToolCall(text) ==
  {SubSeq(text, p[1], p[2]) : p \in Matched(text, "tool{", 1, "}")}

\* Slip: an opened tool call is taken for a whole one.
EarlyExitUnclosed(chunk, text) ==
  IF Contains(chunk, "call") THEN {<<"call">>}
  ELSE IF FirstToolCall(text) # {} THEN FirstToolCall(text)
  ELSE Rewritten(text \o <<")">>)
EarlyExit(chunk, text) ==
  IF Contains(chunk, "call") THEN {<<"call">>}
  ELSE IF FirstToolCall(text) # {} THEN FirstToolCall(text)
  ELSE Rewritten(text)

Returns(c, content) ==
  /\ call' = [call EXCEPT ![c] = [NoCall EXCEPT !.phase = "ok", !.answer = call[c].answer,
                                    !.content = content]]
  /\ Counted("ok") /\ UNCHANGED adapter

\* The next chunk, of one part or more: enough to return, or more to come.  A chunk with
\* a function call in it is not added to the text, but then it is enough.
ReadChunk(c) ==
  /\ call[c].phase = "reading" /\ call[c].coming # <<>>
  /\ \E n \in DOMAIN call[c].coming :
       LET chunk == SubSeq(call[c].coming, 1, n)
           text == call[c].text \o chunk
           exits == EarlyExit(chunk, text)
       IN \/ \E content \in exits : Returns(c, content)
          \/ /\ exits = {}
             /\ call' = [call EXCEPT ![c].text = text,
                           ![c].coming = SubSeq(@, n + 1, Len(@))]
             /\ UNCHANGED <<stats, adapter>>

\* The stream ends: the text so far is parsed as a whole answer would be.
StreamEnds(c) ==
  /\ call[c].phase = "reading" /\ call[c].coming = <<>>
  /\ Returns(c, plainContent(call[c].text))

Proceeds(c) == Retry(c) \/ Replied(c) \/ AskFails(c) \/ StreamBegins(c) \/ StreamFails(c)
               \/ ReadChunk(c) \/ StreamEnds(c)
InferNext == \E c \in Calls : infer(c) \/ Proceeds(c)
InferFairness == \A c \in Calls : WF_inferVars(Proceeds(c))
InferSpec == InferInit /\ [][InferNext]_inferVars /\ InferFairness

-----------------------------------------------------------------------------
\* Every call of infer() is counted once when it begins and once when it settles,
\* however its attempts went and whatever other calls do meanwhile.
StatsAddUp ==
  adapter # "backend" =>
    /\ stats.total = Cardinality({c \in Calls : call[c].phase # "idle"})
    /\ stats.ok = Cardinality({c \in Calls : call[c].phase = "ok"})
    /\ stats.failed = Cardinality({c \in Calls : call[c].phase = "failed"})

\* Cutting an answer into chunks changes nothing of it, unless it has a call written out
\* as TOOLCALL text, or one in Python beside a native one.
ChunksDoNotMatter ==
  \A c \in Calls :
    LET answer == call[c].answer IN
    call[c].phase = "ok" /\ ~Contains(answer, "tool{")
      /\ ~(Contains(answer, "py(") /\ Contains(answer, "call"))
      => call[c].content = plainContent(answer)

\* What the clients report of their calls and of their answers.
InferenceIsTrue == StatsAddUp /\ ChunksDoNotMatter

\* Every call is settled in the end: the timers and the bound on attempts see to it.
CallsSettle == \A c \in Calls : call[c].phase \in Running ~> call[c].phase \in {"ok", "failed"}

\* retry.ts: "Only retries on errors classified as retryable (network issues, 429/5xx
\* status codes)": a call given up after such a status has used its attempts.
TransientIsRetried ==
  \A c \in Calls : call[c].phase = "failed" /\ call[c].error \in Transient
                     /\ adapter \in {"gemini", "openrouter"} => call[c].attempt = MaxRetries

\* "returns as soon as a functionCall or TOOLCALL pattern is detected ... when the model
\* has already emitted a motor command": what it returns is a command that compiles.
CommandCompiles ==
  \A c \in Calls : call[c].phase = "ok" /\ call[c].answer = <<"tool{", "args{", "}", "}">>
    => call[c].content = call[c].answer
=============================================================================
