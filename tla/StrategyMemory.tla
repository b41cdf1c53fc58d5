--------------------------- MODULE StrategyMemory ---------------------------
(****************************************************************************)
(* What is learnt from traces: the dream cycle (dream_engine.ts) over the   *)
(* traces on disk, and the store it fills (strategy_store.ts) of strategies,*)
(* one Markdown file per strategy, which robots reinforce meanwhile and     *)
(* which scripts/dream_loop.ts also writes to, with names of its own.       *)
(****************************************************************************)
EXTENDS Integers, FiniteSets

CONSTANTS
  Titles,        \* the titles the model gives to what it abstracts
  Slug,          \* title -> the first 30 characters of it, the name of its file
  TraceFiles,    \* the traces that may be logged, [id, parent, goal, outcome]
  UsesMax,       \* bound: successes counted for one strategy
  VersionsMax    \* bound: versions of one strategy

\* A trace is known by the name of its file.
ASSUME StrategyAssumption ==
  /\ UsesMax \in Nat /\ VersionsMax \in Nat \ {0} /\ IsFiniteSet(TraceFiles)
  /\ \A t, u \in TraceFiles : t.id = u.id => t = u

VARIABLES
  traces,        \* the trace files on disk
  store,         \* name of a file -> the strategy it holds
  constraints,   \* _negative_constraints.md: the traces each was learnt from
  journal,       \* _dream_journal.md has the cycle's entry
  cycle,         \* where dream() is
  todo,          \* the sequences it has not processed
  held           \* the sequence in hand, and the strategy read before the merge is asked for

dreamVars == <<traces, store, constraints, journal, cycle, todo, held>>

Nothing == "nothing"
\* dream_loop.ts writes files of one fixed name per title and no id in them.
Foreign(t) == <<"dream", Slug[t]>>
Own(s) == <<"strat", s>>
Names == {Foreign(t) : t \in Titles} \cup {Own(Slug[t]) : t \in Titles}
None == [title |-> Nothing, covers |-> {}, version |-> 0, uses |-> 0]
NoneHeld == [seq |-> {}, name |-> <<>>, strategy |-> None]

\* The files of a directory in the order readdir() lists them.
Before(a, b) == a[1] = "dream" /\ b[1] = "strat"

\* strategyFromMarkdown(): a file without an id is given the one of its title.
IdOf(name) == IF name[1] = "dream" THEN Slug[store[name].title] ELSE name[2]
findStrategyById(id) ==
  {n \in DOMAIN store : IdOf(n) = id
     /\ \A o \in DOMAIN store : IdOf(o) = id => ~Before(o, n)}
\* findStrategies(): some trigger of the strategy occurs in the title.
findStrategies(title) == {n \in DOMAIN store : title \in store[n].covers}

Saved(name, s) == [n \in DOMAIN store \cup {name} |-> IF n = name THEN s ELSE store[n]]

\* groupIntoSequences(): by the parent, or by the goal of those that have none.
Key(t) == IF t.parent # Nothing THEN <<"parent", t.parent>> ELSE <<"goal", t.goal>>
groupIntoSequences(ts) == {{t \in ts : Key(t) = k} : k \in {Key(t) : t \in ts}}
Has(seq, outcome) == \E t \in seq : t.outcome = outcome

\* Slip: one failure outweighs a success.
OutcomeWorst(seq) ==
  IF Has(seq, "failure") THEN "failure" ELSE IF Has(seq, "success") THEN "success" ELSE "unknown"
Outcome(seq) ==
  IF Has(seq, "success") THEN "success" ELSE IF Has(seq, "failure") THEN "failure" ELSE "unknown"

DreamInit ==
  /\ traces = {} /\ constraints = {} /\ journal = FALSE
  /\ \/ store = [n \in {} |-> None]
     \/ \E t \in Titles :
          store = [n \in {Foreign(t)} |-> [title |-> t, covers |-> {t}, version |-> 1, uses |-> 0]]
  /\ cycle = "idle" /\ todo = {} /\ held = NoneHeld

onDisk == <<traces, store, constraints, journal>>

\* A robot logs a trace, while a cycle runs or not: the cycle has read its own.
LogTrace ==
  /\ \E t \in TraceFiles \ traces : traces' = traces \cup {t}
  /\ UNCHANGED <<store, constraints, journal, cycle, todo, held>>

\* dream() up to its first await: every trace on disk, also those of earlier cycles.
Dream ==
  /\ cycle = "idle" /\ traces # {}
  /\ cycle' = "next" /\ todo' = groupIntoSequences(traces) /\ journal' = FALSE
  /\ UNCHANGED <<traces, store, constraints, held>>

\* The sequences are taken by score, which confidence and age decide: any order.
Skip ==
  /\ cycle = "next"
  /\ \E seq \in todo : Outcome(seq) = "unknown" /\ todo' = todo \ {seq}
  /\ UNCHANGED <<onDisk, cycle, held>>
Abstract ==
  /\ cycle = "next"
  /\ \E seq \in todo :
       /\ Outcome(seq) \in {"success", "failure"}
       /\ cycle' = Outcome(seq) /\ held' = [NoneHeld EXCEPT !.seq = seq] /\ todo' = todo \ {seq}
  /\ UNCHANGED onDisk

NextGroup == cycle' = "next" /\ held' = NoneHeld /\ UNCHANGED todo
\* A rejected inference is the end of dream(): what is saved stays, the journal says nothing.
Abandon == cycle' = "idle" /\ held' = NoneHeld /\ todo' = {}

\* processFailure(): an answer that is no JSON teaches nothing.
ProcessFailure ==
  /\ cycle = "failure"
  /\ \/ constraints' = constraints \cup {{t.id : t \in held.seq}} /\ NextGroup
     \/ UNCHANGED constraints /\ (NextGroup \/ Abandon)
  /\ UNCHANGED <<traces, store, journal>>

\* processSuccess() up to the merge: a new file, unless a strategy claims the title.
Overlapping(title) == findStrategies(title)
ProcessSuccess ==
  /\ cycle = "success"
  /\ \/ \E title \in Titles, covers \in SUBSET Titles :
          \/ /\ Overlapping(title) = {}
             /\ store' = Saved(Own(Slug[title]), [title |-> title, covers |-> covers, version |-> 1,
                                                   uses |-> Cardinality(held.seq)])
             /\ NextGroup
          \/ /\ \E n \in Overlapping(title) :
                  held' = [held EXCEPT !.name = Own(IdOf(n)), !.strategy = store[n]]
             /\ cycle' = "merge" /\ UNCHANGED <<store, todo>>
     \/ UNCHANGED store /\ (NextGroup \/ Abandon)
  /\ UNCHANGED <<traces, constraints, journal>>

\* The merge writes what was read before it was asked for.  Its rejection is
\* caught with the answers that are no JSON.
Merge ==
  /\ cycle = "merge"
  /\ \/ /\ held.strategy.version < VersionsMax
        /\ \E covers \in {held.strategy.covers} \cup SUBSET Titles :
             store' = Saved(held.name, [held.strategy EXCEPT !.covers = covers, !.version = @ + 1])
     \/ UNCHANGED store
  /\ NextGroup /\ UNCHANGED <<traces, constraints, journal>>

WriteJournal ==
  /\ cycle = "next" /\ todo = {}
  /\ journal' \in BOOLEAN /\ Abandon
  /\ UNCHANGED <<traces, store, constraints>>

\* reinforceStrategy(): written under the id, wherever it was read.
Reinforced(s) == [s EXCEPT !.uses = @ + 1]
Reinforce ==
  /\ \E id \in {Slug[t] : t \in Titles} : \E n \in findStrategyById(id) :
       /\ store[n].uses < UsesMax
       /\ store' = Saved(Own(id), Reinforced(store[n]))
  /\ UNCHANGED <<traces, constraints, journal, cycle, todo, held>>

Engine == Dream \/ Skip \/ Abstract \/ ProcessFailure \/ ProcessSuccess \/ Merge \/ WriteJournal
DreamNext == Engine \/ LogTrace \/ Reinforce
DreamSpec == DreamInit /\ [][DreamNext]_dreamVars /\ WF_dreamVars(Engine)

\* Types of every variable.
Strategies == [title : Titles, covers : SUBSET Titles, version : Nat, uses : Nat]
DreamTypeOK ==
  /\ traces \subseteq TraceFiles /\ todo \subseteq SUBSET traces /\ held.seq \subseteq traces
  /\ DOMAIN store \subseteq Names /\ \A n \in DOMAIN store : store[n] \in Strategies
  /\ constraints \subseteq SUBSET {t.id : t \in traces} /\ journal \in BOOLEAN
  /\ cycle \in {"idle", "next", "success", "failure", "merge"}
  /\ cycle = "merge" => held.name \in Names /\ held.strategy \in Strategies

\* What a failure taught is never learnt from a sequence in which the robot
\* also succeeded: groupIntoSequences() lets one success outweigh the failures.
LearntFromFailures ==
  \A c \in constraints : \A t \in traces : t.id \in c => t.outcome # "success"

\* A strategy's history is not thrown away: its count and its version fall
\* only when a strategy of a title none of its triggers occurs in takes its
\* file, when the merge of that very strategy ends, which was read before what
\* happened to it meanwhile (the count), or when a file of dream_loop.ts has the
\* same id: it is the one read, and its history the one written.
Shadowed(n) == \E o \in DOMAIN store : Before(o, n) /\ IdOf(o) = IdOf(n)
HistoryIsKept ==
  [][\A n \in DOMAIN store : n \in DOMAIN store'
       /\ (store'[n].version < store[n].version \/ store'[n].uses < store[n].uses =>
            \/ store'[n].title \notin store[n].covers
            \/ cycle = "merge" /\ held.name = n /\ store'[n].version >= store[n].version
            \/ Shadowed(n))]_dreamVars

\* A dream that began is over: every sequence is taken once, whatever the
\* model answers and whatever traces arrive while it runs.
DreamEnds == (cycle # "idle") ~> (cycle = "idle")

\* What is learnt from traces is borne out by them, and is not thrown away.
MemoryIsKept == [][LearntFromFailures']_dreamVars /\ HistoryIsKept
=============================================================================
