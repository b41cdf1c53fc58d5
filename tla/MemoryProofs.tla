---------------------------- MODULE MemoryProofs -----------------------------
(****************************************************************************)
(* Proofs about what is remembered: the traces, the learning experiment,    *)
(* the strategies a dream makes of traces, and the scenarios it is dreamt   *)
(* in, for any number of windows, trials and files, and any scene.          *)
(****************************************************************************)
EXTENDS TraceLog, DreamLoop, StrategyMemory, ScenarioRun, FiniteSetTheorems,
        SequenceTheorems, TLAPS

(****************************************************************************)
(* The loggers                                                              *)
(****************************************************************************)

\* An entry of the logger's books: whose trace, of which goal and second, with which motions.
Kinds == {"tool", "window", "frame"}
Entry == [id : Nat, kind : Kinds, goal : Goals, second : Nat, motions : SUBSET Nat]
WrittenIn(b)  == {b.files[f] : f \in DOMAIN b.files} \cup b.replaced

\* The entries that are open or on file.
RecordedIn(b) == {b.active[t] : t \in DOMAIN b.active} \cup WrittenIn(b)

\* The books of the logger: every trace is in them once, and one whose file was
\* written again is no longer in it.
BooksAreKept(b) ==
  /\ b = [active |-> b.active, files |-> b.files, last |-> b.last, replaced |-> b.replaced]
  /\ b.last \in Nat /\ DOMAIN b.active \subseteq 1 .. b.last
  /\ RecordedIn(b) \subseteq Entry
  /\ \A t \in DOMAIN b.active : b.active[t].id = t
  /\ \A f \in DOMAIN b.files : FileName(b.files[f]) = f
  /\ \A d \in b.replaced : FileName(d) \in DOMAIN b.files /\ b.files[FileName(d)] # d
  /\ \A k \in 1 .. b.last : \E e \in RecordedIn(b) : e.id = k
  /\ \A e \in RecordedIn(b) : e.id \in 1 .. b.last
  /\ \A d, e \in RecordedIn(b) : d.id = e.id => d = e
  /\ \A e \in WrittenIn(b) : e.id \notin DOMAIN b.active

\* The active traces are at most one of each kind: the ones somebody will end.
Slots == [Kinds -> Nat]
Held(b, slot) ==
  /\ \A t \in DOMAIN b.active : slot[b.active[t].kind] = t
  /\ \A k \in Kinds : slot[k] # Untraced => slot[k] \in DOMAIN b.active /\ b.active[slot[k]].kind = k

\* The windows share no bytecode, and all of theirs are among the first m.
Windowed(b, m) ==
  /\ \A e \in RecordedIn(b) : e.kind = "window" =>
       /\ e.motions \subseteq 1 .. m /\ IsFiniteSet(e.motions)
       /\ Cardinality(e.motions) <= WindowMax
  /\ \A d, e \in RecordedIn(b) :
       d.kind = "window" /\ e.kind = "window" /\ d.motions \cap e.motions # {} => d = e

\* The bytecode is in a window.
Covered(b, m) == \E e \in RecordedIn(b) : e.kind = "window" /\ m \in e.motions

LEMMA StartKeeps ==
  ASSUME NEW b, BooksAreKept(b), NEW kind \in Kinds, NEW goal \in Goals, second \in Nat,
         NEW slot \in Slots, Held(b, slot), slot[kind] = Untraced,
         NEW c, c = StartTrace(b, kind, goal),
         NEW m \in Nat, Windowed(b, m)
  PROVE  /\ BooksAreKept(c) /\ Windowed(c, m)
         /\ [slot EXCEPT ![kind] = c.last] \in Slots /\ Held(c, [slot EXCEPT ![kind] = c.last])
         /\ c.last = b.last + 1 /\ DOMAIN c.active = DOMAIN b.active \cup {c.last}
         /\ \A t \in DOMAIN b.active : c.active[t] = b.active[t]
         /\ c.active[c.last].motions = {} /\ c.active[c.last].kind = kind
         /\ \A n \in Nat : Covered(b, n) => Covered(c, n)
<1> DEFINE new == [id |-> b.last + 1, kind |-> kind, goal |-> goal, second |-> second,
                   motions |-> {}]
<1>1. /\ new \in Entry /\ new.id = b.last + 1 /\ new.kind = kind /\ new.motions = {}
      /\ b.last \in Nat
  BY DEF BooksAreKept, Entry
<1>2. c = [active |-> With(b.active, b.last + 1, new), files |-> b.files,
           last |-> b.last + 1, replaced |-> b.replaced]
  BY DEF StartTrace, BooksAreKept
<1> HIDE DEF new
<1>3. /\ c.active = With(b.active, b.last + 1, new) /\ c.files = b.files /\ c.last = b.last + 1
      /\ c.replaced = b.replaced
  BY <1>2
<1>4. /\ DOMAIN c.active = DOMAIN b.active \cup {c.last} /\ b.last + 1 \notin DOMAIN b.active
      /\ \A t \in DOMAIN b.active : c.active[t] = b.active[t]
      /\ c.active[c.last] = new
  BY <1>1, <1>3 DEF With, BooksAreKept
<1>5. WrittenIn(c) = WrittenIn(b)
  BY <1>3 DEF WrittenIn
<1>6. RecordedIn(c) = RecordedIn(b) \cup {new}
  BY <1>4, <1>5 DEF RecordedIn
<1>7. BooksAreKept(c)
  <2>1. DOMAIN c.active \subseteq 1 .. c.last
    BY <1>1, <1>3, <1>4 DEF BooksAreKept
  <2>2. RecordedIn(c) \subseteq Entry
    BY <1>1, <1>6 DEF BooksAreKept
  <2>3. \A t \in DOMAIN c.active : c.active[t].id = t
    BY <1>1, <1>3, <1>4 DEF BooksAreKept
  <2>4. \A k \in 1 .. c.last : \E e \in RecordedIn(c) : e.id = k
    <3>1. \A k \in 1 .. c.last : k \in 1 .. b.last \/ k = b.last + 1
      BY <1>1, <1>3
    <3> QED
      BY <1>1, <1>6, <3>1 DEF BooksAreKept
  <2>5. \A e \in RecordedIn(c) : e.id \in 1 .. c.last
    BY <1>1, <1>3, <1>6 DEF BooksAreKept
  <2>6. \A d, e \in RecordedIn(c) : d.id = e.id => d = e
    BY <1>1, <1>6 DEF BooksAreKept
  <2>7. \A e \in WrittenIn(c) : e.id \notin DOMAIN c.active
    BY <1>1, <1>3, <1>4, <1>5 DEF BooksAreKept, RecordedIn
  <2>8. c = [active |-> c.active, files |-> c.files, last |-> c.last, replaced |-> c.replaced]
    BY <1>2, <1>3
  <2> QED
    BY <1>1, <1>3, <2>1, <2>2, <2>3, <2>4, <2>5, <2>6, <2>7, <2>8 DEF BooksAreKept
<1>8. [slot EXCEPT ![kind] = c.last] \in Slots /\ Held(c, [slot EXCEPT ![kind] = c.last])
  <2>1. /\ c.last \in Nat /\ c.last # Untraced
        /\ \A t \in DOMAIN b.active : b.active[t].kind \in Kinds /\ b.active[t].kind # kind
    BY <1>1, <1>3 DEF Untraced, Held, BooksAreKept, RecordedIn, Entry
  <2>2. \A k \in Kinds : [slot EXCEPT ![kind] = c.last][k] = IF k = kind THEN c.last ELSE slot[k]
    BY DEF Slots
  <2> QED
    BY <1>1, <1>4, <2>1, <2>2 DEF Held, Slots
<1>9. Windowed(c, m)
  <2>1. IsFiniteSet({}) /\ Cardinality({}) = 0 /\ 0 <= WindowMax
    BY FS_EmptySet, TraceAssumption
  <2> QED
    BY <1>1, <1>6, <2>1 DEF Windowed
<1>10. \A n \in Nat : Covered(b, n) => Covered(c, n)
  BY <1>6 DEF Covered
<1> QED
  BY <1>1, <1>3, <1>4, <1>7, <1>8, <1>9, <1>10

LEMMA EndKeeps ==
  ASSUME NEW b, BooksAreKept(b), NEW kind \in Kinds,
         NEW slot \in Slots, Held(b, slot), NEW c, c = EndTrace(b, slot[kind]),
         NEW m \in Nat, Windowed(b, m)
  PROVE  /\ BooksAreKept(c) /\ Windowed(c, m)
         /\ [slot EXCEPT ![kind] = Untraced] \in Slots /\ Held(c, [slot EXCEPT ![kind] = Untraced])
         /\ c.last = b.last /\ DOMAIN c.active = DOMAIN b.active \ {slot[kind]}
         /\ \A t \in DOMAIN c.active : c.active[t] = b.active[t]
         /\ \A n \in Nat : Covered(b, n) => Covered(c, n)
<1> DEFINE t == slot[kind]
<1>1. Untraced \notin DOMAIN b.active
  BY DEF Untraced, BooksAreKept
<1>2. \A k \in Kinds : [slot EXCEPT ![kind] = Untraced][k] = IF k = kind THEN Untraced ELSE slot[k]
  BY DEF Slots
<1>3. \A u \in DOMAIN b.active : b.active[u].kind \in Kinds /\ b.active[u] \in Entry
  BY DEF BooksAreKept, RecordedIn, Entry
<1>4. [slot EXCEPT ![kind] = Untraced] \in Slots
  BY DEF Slots, Untraced
<1>5. CASE t \notin DOMAIN b.active
  <2>1. c = b
    BY <1>5 DEF EndTrace
  <2>2. t = Untraced
    BY <1>5 DEF Held
  <2> QED
    BY <1>1, <1>2, <1>3, <1>4, <1>5, <2>1, <2>2 DEF Held
<1>6. CASE t \in DOMAIN b.active
  <2> DEFINE e == b.active[t]
  <2>1. e \in RecordedIn(b) /\ e.id = t /\ e.kind = kind
    BY <1>1, <1>6 DEF Held, BooksAreKept, RecordedIn
  <2>2. c = [active |-> Without(b.active, t), files |-> With(b.files, FileName(e), e),
             last |-> b.last,
             replaced |-> b.replaced \cup {b.files[f] : f \in {FileName(e)} \cap DOMAIN b.files}]
    <3>1. [b EXCEPT !.active = Without(@, t)]
            = [active |-> Without(b.active, t), files |-> b.files, last |-> b.last,
               replaced |-> b.replaced]
      BY DEF BooksAreKept
    <3> QED
      BY <1>6, <3>1, ZenonT(30) DEF EndTrace, WriteTrace
  <2> HIDE DEF e
  <2>3. /\ c.active = Without(b.active, t) /\ c.files = With(b.files, FileName(e), e)
        /\ c.last = b.last
        /\ c.replaced = b.replaced \cup {b.files[f] : f \in {FileName(e)} \cap DOMAIN b.files}
    BY <2>2
  <2>4. /\ DOMAIN c.active = DOMAIN b.active \ {t}
        /\ \A u \in DOMAIN c.active : c.active[u] = b.active[u]
    BY <2>3 DEF Without
  <2>5. /\ DOMAIN c.files = DOMAIN b.files \cup {FileName(e)}
        /\ c.files[FileName(e)] = e
        /\ \A f \in DOMAIN b.files : f # FileName(e) => c.files[f] = b.files[f]
    BY <2>3 DEF With
  <2>6. WrittenIn(c) = WrittenIn(b) \cup {e}
    BY <2>3, <2>5 DEF WrittenIn
  <2>7. RecordedIn(c) = RecordedIn(b)
    <3>1. {b.active[u] : u \in DOMAIN b.active} = {c.active[u] : u \in DOMAIN c.active} \cup {e}
      BY <1>6, <2>4 DEF e
    <3> QED
      BY <2>6, <3>1 DEF RecordedIn
  <2>8. BooksAreKept(c)
    <3>1. c = [active |-> c.active, files |-> c.files, last |-> c.last, replaced |-> c.replaced]
      BY <2>2, <2>3
    <3>2. \A f \in DOMAIN c.files : FileName(c.files[f]) = f
      BY <2>5 DEF BooksAreKept
    <3>3. \A d \in WrittenIn(b) : d # e
      BY <1>6, <2>1 DEF BooksAreKept
    <3>4. \A d \in c.replaced : FileName(d) \in DOMAIN c.files /\ c.files[FileName(d)] # d
      <4>1. \A d \in c.replaced : d \in b.replaced \/ (d \in WrittenIn(b) /\ FileName(d) = FileName(e))
        BY <2>3 DEF BooksAreKept, WrittenIn
      <4>2. \A d \in b.replaced : d \in WrittenIn(b)
        BY DEF WrittenIn
      <4> QED
        BY <2>5, <3>3, <4>1, <4>2 DEF BooksAreKept
    <3>5. \A d \in WrittenIn(c) : d.id \notin DOMAIN c.active
      BY <2>1, <2>4, <2>6 DEF BooksAreKept
    <3>6. \A u \in DOMAIN c.active : c.active[u].id = u
      BY <2>4 DEF BooksAreKept
    <3> QED
      BY <2>3, <2>4, <2>7, <3>1, <3>2, <3>4, <3>5, <3>6 DEF BooksAreKept
  <2>9. Held(c, [slot EXCEPT ![kind] = Untraced])
    <3>1. \A u \in DOMAIN c.active : c.active[u].kind # kind
      BY <2>4 DEF Held
    <3>2. \A k \in Kinds : k # kind => slot[k] # t \/ slot[k] = Untraced
      BY <1>1, <1>6, <2>1 DEF Held, e
    <3> QED
      BY <1>2, <1>3, <2>4, <3>1, <3>2 DEF Held
  <2>10. Windowed(c, m) /\ \A n \in Nat : Covered(b, n) => Covered(c, n)
    BY <2>7 DEF Windowed, Covered
  <2> QED
    BY <1>4, <2>3, <2>4, <2>8, <2>9, <2>10
<1> QED
  BY <1>5, <1>6

LEMMA AppendIs ==
  ASSUME NEW b, BooksAreKept(b), NEW slot \in Slots, Held(b, slot),
         NEW t \in DOMAIN b.active, NEW n \in Nat, NEW c, c = AppendBytecode(b, t, n)
  PROVE  \E new \in Entry :
           /\ new = [b.active[t] EXCEPT !.motions = @ \cup {n}]
           /\ new.id = t /\ new.kind = b.active[t].kind /\ new.motions = b.active[t].motions \cup {n}
           /\ BooksAreKept(c) /\ Held(c, slot) /\ c.last = b.last
           /\ DOMAIN c.active = DOMAIN b.active
           /\ \A u \in DOMAIN b.active : c.active[u] = IF u = t THEN new ELSE b.active[u]
           /\ \A e : e \in RecordedIn(c) <=> (e \in RecordedIn(b) /\ e # b.active[t]) \/ e = new
<1> DEFINE old == b.active[t]
           new == [old EXCEPT !.motions = @ \cup {n}]
<1>1. old \in Entry /\ old \in RecordedIn(b) /\ old.id = t
  BY DEF BooksAreKept, RecordedIn
<1>2. /\ new \in Entry /\ new.id = t /\ new.kind = old.kind /\ new.motions = old.motions \cup {n}
      /\ new.second = old.second /\ new.goal = old.goal
  BY <1>1 DEF Entry
<1>3. c = [active |-> With(b.active, t, new), files |-> b.files, last |-> b.last,
           replaced |-> b.replaced]
  BY DEF AppendBytecode, BooksAreKept
<1> HIDE DEF new, old
<1>4. /\ c.active = With(b.active, t, new) /\ c.files = b.files /\ c.last = b.last
      /\ c.replaced = b.replaced
  BY <1>3
<1>5. /\ DOMAIN c.active = DOMAIN b.active
      /\ \A u \in DOMAIN b.active : c.active[u] = IF u = t THEN new ELSE b.active[u]
  BY <1>4 DEF With
<1>6. WrittenIn(c) = WrittenIn(b) /\ \A e \in WrittenIn(b) : e \in RecordedIn(b) /\ e.id # t
  BY <1>4 DEF WrittenIn, BooksAreKept, RecordedIn
<1>7. ASSUME NEW e
      PROVE  e \in RecordedIn(c) <=> (e \in RecordedIn(b) /\ e # old) \/ e = new
  <2>1. CASE e \in WrittenIn(b)
    BY <1>1, <1>6, <2>1 DEF RecordedIn
  <2>2. CASE e \notin WrittenIn(b)
    <3>1. \A u \in DOMAIN b.active : u # t => b.active[u] # old
      BY <1>1 DEF BooksAreKept
    <3>2. e \in RecordedIn(c) <=> \E u \in DOMAIN b.active : e = c.active[u]
      BY <1>5, <1>6, <2>2 DEF RecordedIn
    <3>3. e \in RecordedIn(b) <=> \E u \in DOMAIN b.active : e = b.active[u]
      BY <2>2 DEF RecordedIn
    <3>4. e \in RecordedIn(c) => (e \in RecordedIn(b) /\ e # old) \/ e = new
      BY <1>5, <3>1, <3>2, <3>3
    <3>5. e = new => e \in RecordedIn(c)
      BY <1>5, <3>2
    <3>6. e \in RecordedIn(b) /\ e # old => e \in RecordedIn(c)
      BY <1>5, <3>2, <3>3 DEF old
    <3> QED
      BY <3>4, <3>5, <3>6
  <2> QED
    BY <2>1, <2>2
<1>8. BooksAreKept(c)
  <2>1. RecordedIn(c) \subseteq Entry
    BY <1>2, <1>7 DEF BooksAreKept
  <2>2. \A u \in DOMAIN c.active : c.active[u].id = u
    BY <1>2, <1>5 DEF BooksAreKept
  <2>3. \A k \in 1 .. c.last : \E e \in RecordedIn(c) : e.id = k
    BY <1>1, <1>2, <1>4, <1>7 DEF BooksAreKept
  <2>4. \A e \in RecordedIn(c) : e.id \in 1 .. c.last
    BY <1>1, <1>2, <1>4, <1>7 DEF BooksAreKept
  <2>5. \A d, e \in RecordedIn(c) : d.id = e.id => d = e
    BY <1>1, <1>2, <1>7 DEF BooksAreKept
  <2>6. c = [active |-> c.active, files |-> c.files, last |-> c.last, replaced |-> c.replaced]
    BY <1>3, <1>4
  <2>7. \A e \in WrittenIn(c) : e.id \notin DOMAIN c.active
    BY <1>5, <1>6 DEF BooksAreKept
  <2> QED
    BY <1>4, <1>5, <2>1, <2>2, <2>3, <2>4, <2>5, <2>6, <2>7 DEF BooksAreKept
<1>9. Held(c, slot)
  BY <1>2, <1>5 DEF Held, old
<1> QED
  BY <1>2, <1>4, <1>5, <1>7, <1>8, <1>9 DEF new, old

\* A bytecode in a trace of the tools or of a frame is in no window yet.
LEMMA AppendKeeps ==
  ASSUME NEW b, BooksAreKept(b), NEW slot \in Slots, Held(b, slot),
         NEW t, t \in DOMAIN b.active => b.active[t].kind # "window",
         NEW n \in Nat, NEW c, c = AppendBytecode(b, t, n),
         NEW m \in Nat, Windowed(b, m)
  PROVE  /\ BooksAreKept(c) /\ Windowed(c, m) /\ Held(c, slot) /\ c.last = b.last
         /\ DOMAIN c.active = DOMAIN b.active
         /\ \A u \in DOMAIN b.active : /\ c.active[u].kind = b.active[u].kind
                                       /\ u # t => c.active[u] = b.active[u]
         /\ \A k \in Nat : Covered(b, k) => Covered(c, k)
<1>1. CASE t \notin DOMAIN b.active
  <2>1. c = b
    BY <1>1 DEF AppendBytecode
  <2> QED
    BY <2>1
<1>2. CASE t \in DOMAIN b.active
  <2>1. PICK new \in Entry :
           /\ new.kind = b.active[t].kind
           /\ BooksAreKept(c) /\ Held(c, slot) /\ c.last = b.last
           /\ DOMAIN c.active = DOMAIN b.active
           /\ \A u \in DOMAIN b.active : c.active[u] = IF u = t THEN new ELSE b.active[u]
           /\ \A e : e \in RecordedIn(c) <=> (e \in RecordedIn(b) /\ e # b.active[t]) \/ e = new
    BY <1>2, AppendIs
  <2>2. \A e : e.kind = "window" => (e \in RecordedIn(c) <=> e \in RecordedIn(b))
    BY <1>2, <2>1
  <2>3. Windowed(c, m)
    BY <2>2 DEF Windowed
  <2>4. \A k \in Nat : Covered(b, k) => Covered(c, k)
    BY <2>2 DEF Covered
  <2> QED
    BY <2>1, <2>3, <2>4
<1> QED
  BY <1>1, <1>2

\* The next bytecode in a window that has room for it.
LEMMA WindowGrows ==
  ASSUME NEW b, BooksAreKept(b), NEW slot \in Slots, Held(b, slot),
         NEW t \in DOMAIN b.active, b.active[t].kind = "window",
         NEW m \in Nat, Windowed(b, m), Cardinality(b.active[t].motions) < WindowMax,
         NEW c, c = AppendBytecode(b, t, m + 1)
  PROVE  /\ BooksAreKept(c) /\ Windowed(c, m + 1) /\ Held(c, slot) /\ c.last = b.last
         /\ DOMAIN c.active = DOMAIN b.active /\ c.active[t].kind = "window"
         /\ \A u \in DOMAIN b.active : u # t => c.active[u] = b.active[u]
         /\ Cardinality(c.active[t].motions) = Cardinality(b.active[t].motions) + 1
         /\ Covered(c, m + 1) /\ \A k \in Nat : Covered(b, k) => Covered(c, k)
<1> DEFINE old == b.active[t]
<1>1. PICK new \in Entry :
        /\ new.kind = "window" /\ new.motions = old.motions \cup {m + 1}
        /\ BooksAreKept(c) /\ Held(c, slot) /\ c.last = b.last
        /\ DOMAIN c.active = DOMAIN b.active
        /\ \A u \in DOMAIN b.active : c.active[u] = IF u = t THEN new ELSE b.active[u]
        /\ \A e : e \in RecordedIn(c) <=> (e \in RecordedIn(b) /\ e # old) \/ e = new
  BY AppendIs
<1>2. old \in RecordedIn(b) /\ old.kind = "window"
  BY DEF RecordedIn
<1> HIDE DEF old
<1>3. \A e \in RecordedIn(b) : e.kind = "window" => e.motions \subseteq 1 .. m
  BY DEF Windowed
<1>4. m + 1 \notin old.motions /\ IsFiniteSet(old.motions) /\ Cardinality(old.motions) \in Nat
  <2>1. m + 1 \notin old.motions
    BY <1>2, <1>3
  <2>2. IsFiniteSet(old.motions)
    BY <1>2 DEF Windowed
  <2> QED
    BY <2>1, <2>2, FS_CardinalityType
<1>5. /\ IsFiniteSet(new.motions) /\ Cardinality(new.motions) = Cardinality(old.motions) + 1
      /\ new.motions \subseteq 1 .. m + 1
  <2>1. IsFiniteSet(new.motions) /\ Cardinality(new.motions) = Cardinality(old.motions) + 1
    BY <1>1, <1>4, FS_AddElement
  <2>2. \A k \in 1 .. m : k \in 1 .. m + 1
    OBVIOUS
  <2>3. m + 1 \in 1 .. m + 1
    OBVIOUS
  <2> QED
    BY <1>1, <1>2, <1>3, <2>1, <2>2, <2>3
<1>6. Cardinality(new.motions) <= WindowMax
  BY <1>4, <1>5, TraceAssumption DEF old
<1>7. \A e \in RecordedIn(b) : e.kind = "window" /\ e # old => e.motions \cap new.motions = {}
  <2> SUFFICES ASSUME NEW e \in RecordedIn(b), e.kind = "window", e # old
               PROVE  e.motions \cap new.motions = {}
    OBVIOUS
  <2>1. e.motions \cap old.motions = {}
    BY <1>2 DEF Windowed
  <2>2. m + 1 \notin e.motions
    BY <1>3
  <2> QED
    BY <1>1, <2>1, <2>2
<1>8. Windowed(c, m + 1)
  <2>1. \A e \in RecordedIn(c) : e.kind = "window" =>
          /\ e.motions \subseteq 1 .. m + 1 /\ IsFiniteSet(e.motions)
          /\ Cardinality(e.motions) <= WindowMax
    <3>1. \A e \in RecordedIn(b) : e.kind = "window" => e.motions \subseteq 1 .. m + 1
      BY <1>3
    <3> QED
      BY <1>1, <1>5, <1>6, <3>1 DEF Windowed
  <2>2. \A d, e \in RecordedIn(c) :
          d.kind = "window" /\ e.kind = "window" /\ d.motions \cap e.motions # {} => d = e
    BY <1>1, <1>7 DEF Windowed
  <2> QED
    BY <2>1, <2>2 DEF Windowed
<1>9. Covered(c, m + 1) /\ \A k \in Nat : Covered(b, k) => Covered(c, k)
  <2>1. new \in RecordedIn(c) /\ \A e \in RecordedIn(b) : e # old => e \in RecordedIn(c)
    BY <1>1
  <2> QED
    BY <1>1, <2>1 DEF Covered
<1> QED
  BY <1>1, <1>5, <1>8, <1>9 DEF old

-----------------------------------------------------------------------------
\* The slots by whom they belong to.
Slot(tool, w) == [k \in Kinds |-> CASE k = "tool" -> tool [] k = "window" -> w [] OTHER -> Untraced]

\* The books with what the tools and the loop hold of them.
Hold(b, tool, loop, w, n, m, F) ==
  /\ BooksAreKept(b) /\ Held(b, Slot(tool, w)) /\ Windowed(b, m)
  /\ {tool, loop, w} \subseteq 0 .. b.last
  /\ loop \in DOMAIN b.active => loop = tool
  /\ w # Untraced => n = Cardinality(b.active[w].motions)
  /\ \A k \in F : Covered(b, k)

\* The inductive invariant of the loggers.
LogInv ==
  /\ Hold(Books, toolTrace, loopTrace, window, taken, motions, followed)
  /\ window # Untraced => taken < WindowMax
  /\ taken \in Nat /\ motions \in Nat /\ second \in Nat /\ aim \in Goals /\ followed \subseteq Nat

LEMMA SlotIs ==
  ASSUME NEW tool \in Nat, NEW w \in Nat
  PROVE  /\ Slot(tool, w) \in Slots
         /\ Slot(tool, w)["tool"] = tool /\ Slot(tool, w)["window"] = w
         /\ Slot(tool, w)["frame"] = Untraced /\ {"tool", "window", "frame"} = Kinds
         /\ \A t : [Slot(tool, w) EXCEPT !["tool"] = t] = Slot(t, w)
         /\ \A t : [Slot(tool, w) EXCEPT !["window"] = t] = Slot(tool, t)
<1>1. \A t : [Slot(tool, w) EXCEPT !["tool"] = t] = Slot(t, w)
  BY DEF Slot, Kinds
<1>2. \A t : [Slot(tool, w) EXCEPT !["window"] = t] = Slot(tool, t)
  BY DEF Slot, Kinds
<1> QED
  BY <1>1, <1>2 DEF Slot, Slots, Kinds, Untraced

LEMMA EndToolHolds ==
  ASSUME NEW b, NEW tool, NEW loop, NEW w, NEW n, NEW m \in Nat, NEW F \in SUBSET Nat,
         Hold(b, tool, loop, w, n, m, F)
  PROVE  Hold(EndTrace(b, tool), Untraced, loop, w, n, m, F)
<1> DEFINE c == EndTrace(b, tool)
<1> USE DEF Hold
<1>1. tool \in Nat /\ w \in Nat /\ Slot(tool, w) \in Slots
  BY SlotIs DEF BooksAreKept
<1>2. /\ BooksAreKept(c) /\ Windowed(c, m) /\ Held(c, Slot(Untraced, w))
      /\ c.last = b.last /\ DOMAIN c.active = DOMAIN b.active \ {tool}
      /\ \A t \in DOMAIN c.active : c.active[t] = b.active[t]
      /\ \A k \in Nat : Covered(b, k) => Covered(c, k)
  <2> DEFINE s == Slot(tool, w)
  <2>1. /\ s \in Slots /\ Held(b, s) /\ "tool" \in Kinds /\ s["tool"] = tool
        /\ \A t : [s EXCEPT !["tool"] = t] = Slot(t, w)
    BY <1>1, SlotIs
  <2> HIDE DEF s
  <2>2. c = EndTrace(b, s["tool"])
    BY <2>1
  <2> HIDE DEF c
  <2>3. /\ BooksAreKept(c) /\ Windowed(c, m) /\ Held(c, [s EXCEPT !["tool"] = Untraced])
        /\ c.last = b.last /\ DOMAIN c.active = DOMAIN b.active \ {s["tool"]}
        /\ \A t \in DOMAIN c.active : c.active[t] = b.active[t]
        /\ \A k \in Nat : Covered(b, k) => Covered(c, k)
    BY <2>1, <2>2, EndKeeps
  <2> QED
    BY <2>1, <2>3
<1>3. w # Untraced => w \in DOMAIN c.active
  BY <1>1, <1>2, SlotIs DEF Held, Untraced
<1> HIDE DEF c
<1>4. {Untraced, loop, w} \subseteq 0 .. c.last
  BY <1>2 DEF Untraced, BooksAreKept
<1> QED
  BY <1>2, <1>3, <1>4 DEF c

LEMMA EndWindowHolds ==
  ASSUME NEW b, NEW tool, NEW loop, NEW w, NEW n, NEW m \in Nat, NEW F \in SUBSET Nat,
         Hold(b, tool, loop, w, n, m, F)
  PROVE  \A k : Hold(EndTrace(b, w), tool, loop, Untraced, k, m, F)
<1> DEFINE c == EndTrace(b, w)
<1> USE DEF Hold
<1>1. tool \in Nat /\ w \in Nat /\ Slot(tool, w) \in Slots
  BY SlotIs DEF BooksAreKept
<1>2. /\ BooksAreKept(c) /\ Windowed(c, m) /\ Held(c, Slot(tool, Untraced))
      /\ c.last = b.last /\ DOMAIN c.active = DOMAIN b.active \ {w}
      /\ \A k \in Nat : Covered(b, k) => Covered(c, k)
  <2> DEFINE s == Slot(tool, w)
  <2>1. /\ s \in Slots /\ Held(b, s) /\ "window" \in Kinds /\ s["window"] = w
        /\ \A t : [s EXCEPT !["window"] = t] = Slot(tool, t)
    BY <1>1, SlotIs
  <2> HIDE DEF s
  <2> QED
    BY <2>1, EndKeeps
<1> HIDE DEF c
<1>3. {tool, loop, Untraced} \subseteq 0 .. c.last
  BY <1>2 DEF Untraced, BooksAreKept
<1> QED
  BY <1>2, <1>3 DEF c

LEMMA StartToolHolds ==
  ASSUME NEW b, NEW loop, NEW w, NEW n, NEW m \in Nat, NEW F \in SUBSET Nat,
         Hold(b, Untraced, loop, w, n, m, F), NEW g \in Goals, second \in Nat,
         NEW c, c = StartTrace(b, "tool", g)
  PROVE  Hold(c, c.last, c.last, w, n, m, F) /\ Hold(c, c.last, loop, w, n, m, F)
<1> USE DEF Hold
<1>1. Untraced \in Nat /\ w \in Nat
  BY DEF BooksAreKept, Untraced
<1>2. /\ BooksAreKept(c) /\ Windowed(c, m) /\ Held(c, Slot(c.last, w))
      /\ c.last = b.last + 1 /\ DOMAIN c.active = DOMAIN b.active \cup {c.last}
      /\ \A t \in DOMAIN b.active : c.active[t] = b.active[t]
      /\ \A k \in Nat : Covered(b, k) => Covered(c, k)
  <2> DEFINE s == Slot(Untraced, w)
  <2>1. /\ s \in Slots /\ Held(b, s) /\ "tool" \in Kinds /\ s["tool"] = Untraced
        /\ \A t : [s EXCEPT !["tool"] = t] = Slot(t, w)
    BY <1>1, SlotIs
  <2> HIDE DEF s
  <2>2. /\ BooksAreKept(c) /\ Windowed(c, m) /\ Held(c, [s EXCEPT !["tool"] = c.last])
        /\ c.last = b.last + 1 /\ DOMAIN c.active = DOMAIN b.active \cup {c.last}
        /\ \A t \in DOMAIN b.active : c.active[t] = b.active[t]
        /\ c.active[c.last].motions = {}
        /\ \A k \in Nat : Covered(b, k) => Covered(c, k)
    BY <2>1, StartKeeps
  <2> QED
    BY <2>1, <2>2
<1>3. w # Untraced => w \in DOMAIN b.active
  BY <1>1, SlotIs DEF Held
<1>4. b.last \in Nat /\ loop # c.last /\ Untraced \notin DOMAIN b.active
  BY <1>2 DEF BooksAreKept, Untraced
<1>5. {loop, w, c.last} \subseteq 0 .. c.last
  BY <1>2, <1>4
<1>6. loop \notin DOMAIN c.active
  BY <1>2, <1>4
<1> QED
  BY <1>2, <1>3, <1>5, <1>6

LEMMA StartWindowHolds ==
  ASSUME NEW b, NEW tool, NEW loop, NEW n, NEW m \in Nat, NEW F \in SUBSET Nat,
         Hold(b, tool, loop, Untraced, n, m, F), NEW g \in Goals, second \in Nat,
         NEW c, c = StartTrace(b, "window", g)
  PROVE  Hold(c, tool, loop, c.last, 0, m, F)
<1> USE DEF Hold
<1>1. Untraced \in Nat /\ tool \in Nat /\ Slot(tool, Untraced) \in Slots
  BY SlotIs DEF BooksAreKept, Untraced
<1>2. /\ BooksAreKept(c) /\ Windowed(c, m) /\ Held(c, Slot(tool, c.last))
      /\ c.last = b.last + 1 /\ DOMAIN c.active = DOMAIN b.active \cup {c.last}
      /\ c.active[c.last].motions = {}
      /\ \A k \in Nat : Covered(b, k) => Covered(c, k)
  <2> DEFINE s == Slot(tool, Untraced)
  <2>1. /\ s \in Slots /\ Held(b, s) /\ "window" \in Kinds /\ s["window"] = Untraced
        /\ \A t : [s EXCEPT !["window"] = t] = Slot(tool, t)
    BY <1>1, SlotIs
  <2> HIDE DEF s
  <2>2. /\ BooksAreKept(c) /\ Windowed(c, m) /\ Held(c, [s EXCEPT !["window"] = c.last])
        /\ c.last = b.last + 1 /\ DOMAIN c.active = DOMAIN b.active \cup {c.last}
        /\ \A t \in DOMAIN b.active : c.active[t] = b.active[t]
        /\ c.active[c.last].motions = {}
        /\ \A k \in Nat : Covered(b, k) => Covered(c, k)
    BY <2>1, StartKeeps
  <2> QED
    BY <2>1, <2>2
<1>3. b.last \in Nat /\ {tool, loop, c.last} \subseteq 0 .. c.last /\ loop # c.last
  BY <1>2 DEF BooksAreKept
<1> QED
  BY <1>2, <1>3, FS_EmptySet

\* A bytecode the loop's trace is told of.
LEMMA NoteHolds ==
  ASSUME NEW b, NEW tool, NEW loop, NEW w, NEW n, NEW m \in Nat, NEW F \in SUBSET Nat,
         Hold(b, tool, loop, w, n, m, F), NEW k \in Nat
  PROVE  Hold(AppendBytecode(b, loop, k), tool, loop, w, n, m, F)
<1> DEFINE c == AppendBytecode(b, loop, k)
<1> USE DEF Hold
<1>1. tool \in Nat /\ w \in Nat /\ Slot(tool, w) \in Slots /\ Untraced \notin DOMAIN b.active
  BY SlotIs DEF BooksAreKept, Untraced
<1>2. loop \in DOMAIN b.active => b.active[loop].kind = "tool"
  BY <1>1, SlotIs DEF Held
<1>3. /\ BooksAreKept(c) /\ Windowed(c, m) /\ Held(c, Slot(tool, w)) /\ c.last = b.last
      /\ DOMAIN c.active = DOMAIN b.active
      /\ \A u \in DOMAIN b.active : u # loop => c.active[u] = b.active[u]
      /\ \A i \in Nat : Covered(b, i) => Covered(c, i)
  BY <1>1, <1>2, AppendKeeps
<1>4. w # Untraced => w \in DOMAIN b.active /\ w # loop
  BY <1>1, <1>2, SlotIs DEF Held
<1> HIDE DEF c
<1> QED
  BY <1>3, <1>4 DEF c

LEMMA WindowHolds ==
  ASSUME NEW b, NEW tool, NEW loop, NEW w, NEW n \in Nat, NEW m \in Nat, NEW F \in SUBSET Nat,
         Hold(b, tool, loop, w, n, m, F), w # Untraced, n < WindowMax
  PROVE  Hold(AppendBytecode(b, w, m + 1), tool, loop, w, n + 1, m + 1, F \cup {m + 1})
<1> DEFINE c == AppendBytecode(b, w, m + 1)
<1> USE DEF Hold
<1>1. tool \in Nat /\ w \in Nat /\ Slot(tool, w) \in Slots
  BY SlotIs DEF BooksAreKept
<1>2. w \in DOMAIN b.active /\ b.active[w].kind = "window"
  BY <1>1, SlotIs, SMTT(30) DEF Held
<1>3. /\ BooksAreKept(c) /\ Windowed(c, m + 1) /\ Held(c, Slot(tool, w)) /\ c.last = b.last
      /\ DOMAIN c.active = DOMAIN b.active
      /\ Cardinality(c.active[w].motions) = n + 1
      /\ Covered(c, m + 1) /\ \A k \in Nat : Covered(b, k) => Covered(c, k)
  BY <1>1, <1>2, WindowGrows
<1> HIDE DEF c
<1> QED
  BY <1>3 DEF c

\* A bytecode without a trace of the loop has one of its own.
LEMMA FrameHolds ==
  ASSUME NEW b, NEW tool, NEW loop, NEW w, NEW n, NEW m \in Nat, NEW F \in SUBSET Nat,
         Hold(b, tool, loop, w, n, m, F), NEW k \in Nat, NEW g \in Goals, second \in Nat,
         NEW c, c = StartTrace(b, "frame", g)
  PROVE  Hold(EndTrace(AppendBytecode(c, c.last, k), c.last), tool, loop, w, n, m, F)
<1> USE DEF Hold
<1>1. tool \in Nat /\ w \in Nat /\ Slot(tool, w) \in Slots
  BY SlotIs DEF BooksAreKept
<1> DEFINE slot == [Slot(tool, w) EXCEPT !["frame"] = c.last]
           d == AppendBytecode(c, c.last, k)
           f == EndTrace(d, c.last)
<1>2. /\ BooksAreKept(c) /\ Windowed(c, m) /\ slot \in Slots /\ Held(c, slot)
      /\ c.last = b.last + 1 /\ DOMAIN c.active = DOMAIN b.active \cup {c.last}
      /\ \A t \in DOMAIN b.active : c.active[t] = b.active[t]
      /\ c.active[c.last].kind = "frame"
      /\ \A i \in Nat : Covered(b, i) => Covered(c, i)
  <2> DEFINE s == Slot(tool, w)
  <2>1. s \in Slots /\ Held(b, s) /\ "frame" \in Kinds /\ s["frame"] = Untraced
    BY <1>1, SlotIs
  <2>2. slot = [s EXCEPT !["frame"] = c.last]
    OBVIOUS
  <2> HIDE DEF s, slot
  <2>3. /\ BooksAreKept(c) /\ Windowed(c, m) /\ [s EXCEPT !["frame"] = c.last] \in Slots
        /\ Held(c, [s EXCEPT !["frame"] = c.last])
        /\ c.last = b.last + 1 /\ DOMAIN c.active = DOMAIN b.active \cup {c.last}
        /\ \A t \in DOMAIN b.active : c.active[t] = b.active[t]
        /\ c.active[c.last].kind = "frame"
        /\ \A i \in Nat : Covered(b, i) => Covered(c, i)
    BY <2>1, StartKeeps
  <2> QED
    BY <2>2, <2>3
<1>3. slot["frame"] = c.last /\ [slot EXCEPT !["frame"] = Untraced] = Slot(tool, w)
  BY DEF Slot, Kinds
<1> HIDE DEF slot
<1>4. /\ BooksAreKept(d) /\ Windowed(d, m) /\ Held(d, slot) /\ d.last = c.last
      /\ DOMAIN d.active = DOMAIN c.active
      /\ \A u \in DOMAIN c.active : u # c.last => d.active[u] = c.active[u]
      /\ \A i \in Nat : Covered(c, i) => Covered(d, i)
  BY <1>2, AppendKeeps
<1> HIDE DEF d
<1>5. /\ BooksAreKept(f) /\ Windowed(f, m) /\ Held(f, Slot(tool, w)) /\ f.last = d.last
      /\ DOMAIN f.active = DOMAIN d.active \ {c.last}
      /\ \A u \in DOMAIN f.active : f.active[u] = d.active[u]
      /\ \A i \in Nat : Covered(d, i) => Covered(f, i)
  <2>1. "frame" \in Kinds
    BY DEF Kinds
  <2> QED
    BY <1>2, <1>3, <1>4, <2>1, EndKeeps
<1>6. b.last \in Nat /\ b.last + 1 \notin DOMAIN b.active
  BY DEF BooksAreKept
<1> HIDE DEF f
<1>7. DOMAIN f.active = DOMAIN b.active /\ \A u \in DOMAIN b.active : f.active[u] = b.active[u]
  BY <1>2, <1>4, <1>5, <1>6
<1>8. {tool, loop, w} \subseteq 0 .. f.last
  BY <1>2, <1>4, <1>5, <1>6
<1>9. w # Untraced => w \in DOMAIN b.active
  BY <1>1, SlotIs DEF Held
<1>10. Hold(f, tool, loop, w, n, m, F)
  BY <1>2, <1>4, <1>5, <1>7, <1>8, <1>9
<1> QED
  BY <1>10 DEF d, f

\* The loop is told to forget its trace, or a bytecode goes into no window.
LEMMA LooseHolds ==
  ASSUME NEW b, NEW tool, NEW loop, NEW w, NEW n, NEW m \in Nat, NEW F \in SUBSET Nat,
         Hold(b, tool, loop, w, n, m, F)
  PROVE  Hold(b, tool, Untraced, w, n, m, F) /\ Hold(b, tool, loop, w, n, m + 1, F)
<1> USE DEF Hold
<1>1. {tool, Untraced, w} \subseteq 0 .. b.last /\ Untraced \notin DOMAIN b.active
  BY DEF BooksAreKept, Untraced
<1>2. Windowed(b, m + 1)
  <2>1. \A k \in 1 .. m : k \in 1 .. m + 1
    OBVIOUS
  <2> QED
    BY <2>1 DEF Windowed
<1> QED
  BY <1>1, <1>2

LEMMA KeptIs ==
  ASSUME NEW b, BooksAreKept(b), Kept(b)
  PROVE  Books' = b
BY DEF Kept, Books, BooksAreKept

LEMMA TraceStarts == TraceInit => LogInv
<1> SUFFICES ASSUME TraceInit PROVE LogInv
  OBVIOUS
<1> USE DEF TraceInit
<1>1. /\ Books.active = Empty /\ Books.files = Empty /\ Books.last = 0 /\ Books.replaced = {}
      /\ DOMAIN Empty = {}
  BY DEF Books, Empty
<1>2. RecordedIn(Books) = {} /\ WrittenIn(Books) = {}
  BY <1>1 DEF RecordedIn, WrittenIn
<1>3. BooksAreKept(Books)
  BY <1>1, <1>2 DEF BooksAreKept, Books
<1>4. Held(Books, Slot(Untraced, Untraced)) /\ Windowed(Books, 0)
  BY <1>1, <1>2 DEF Held, Windowed, Slot
<1>5. Hold(Books, toolTrace, loopTrace, window, taken, motions, followed)
  BY <1>1, <1>3, <1>4 DEF Hold, Untraced
<1> QED
  BY <1>5 DEF LogInv, Untraced

LEMMA ToolsKeepBooks ==
  LogInv /\ ((\E g \in Goals : BeginTrace(g) \/ RetryTrace(g)) \/ FinishTrace) => LogInv'
<1> SUFFICES ASSUME LogInv, (\E g \in Goals : BeginTrace(g) \/ RetryTrace(g)) \/ FinishTrace
             PROVE  LogInv'
  OBVIOUS
<1> USE DEF LogInv
<1> DEFINE b == EndTrace(Books, toolTrace)
<1>1. Hold(b, Untraced, loopTrace, window, taken, motions, followed)
  BY EndToolHolds
<1>2. UNCHANGED <<window, taken, motions, second, followed>> /\ aim' \in Goals
  BY DEF BeginTrace, RetryTrace, FinishTrace
<1> HIDE DEF b
<1>3. ASSUME NEW g \in Goals, BeginTrace(g) PROVE LogInv'
  <2> DEFINE c == StartTrace(b, "tool", g)
  <2>1. Hold(c, c.last, c.last, window, taken, motions, followed)
    BY <1>1, StartToolHolds
  <2>2. Kept(c) /\ toolTrace' = lastId' /\ loopTrace' = lastId'
    BY <1>3 DEF BeginTrace, b
  <2> HIDE DEF c
  <2>3. Books' = c /\ lastId' = c.last
    BY <2>1, <2>2, KeptIs DEF Hold, Kept
  <2> QED
    BY <1>2, <2>1, <2>2, <2>3
<1>4. ASSUME NEW g \in Goals, RetryTrace(g) PROVE LogInv'
  <2> DEFINE c == StartTrace(Books, "tool", g)
  <2>1. Hold(c, c.last, loopTrace, window, taken, motions, followed)
    BY <1>4, StartToolHolds DEF RetryTrace
  <2>2. Kept(c) /\ toolTrace' = lastId' /\ loopTrace' = loopTrace
    BY <1>4 DEF RetryTrace
  <2> HIDE DEF c
  <2>3. Books' = c /\ lastId' = c.last
    BY <2>1, <2>2, KeptIs DEF Hold, Kept
  <2> QED
    BY <1>2, <2>1, <2>2, <2>3
<1>5. CASE FinishTrace
  <2>1. Kept(b) /\ toolTrace' = Untraced /\ loopTrace' \in {Untraced, loopTrace}
    BY <1>5 DEF FinishTrace, b
  <2>2. Hold(b, Untraced, Untraced, window, taken, motions, followed)
    BY <1>1, LooseHolds
  <2>3. Books' = b
    BY <1>1, <2>1, KeptIs DEF Hold
  <2> QED
    BY <1>1, <1>2, <2>1, <2>2, <2>3
<1> QED
  BY <1>3, <1>4, <1>5

LEMMA CloseKeepsBooks == LogInv /\ CloseReactiveTrace => LogInv'
<1> SUFFICES ASSUME LogInv, CloseReactiveTrace PROVE LogInv'
  OBVIOUS
<1> USE DEF LogInv
<1> DEFINE b == EndTrace(Books, window)
<1>1. Hold(b, toolTrace, loopTrace, Untraced, 0, motions, followed)
  BY EndWindowHolds
<1>2. /\ Kept(b) /\ window' = Untraced /\ taken' = 0
      /\ UNCHANGED <<toolTrace, loopTrace, aim, second, motions, followed>>
  BY DEF CloseReactiveTrace, CloseWindow
<1> HIDE DEF b
<1>3. Books' = b
  BY <1>1, <1>2, KeptIs DEF Hold
<1> QED
  BY <1>1, <1>2, <1>3

\* One bytecode, through every book it goes into.
LEMMA MotionKeepsBooks ==
  ASSUME LogInv, NEW stop \in BOOLEAN, NEW stuck \in BOOLEAN,
         NEW heard \in {"none", "step", "session"}, LogMotion(stop, stuck, heard)
  PROVE  LogInv'
<1> USE DEF LogInv
<1> DEFINE n      == motions + 1
           closed == IF stop THEN EndTrace(Books, window) ELSE Books
           after  == IF stop /\ window # Untraced THEN CloseWindow(window, taken)
                     ELSE [window |-> window, taken |-> taken]
           told   == IF heard = "none" THEN closed ELSE EndTrace(closed, toolTrace)
           under  == IF heard = "session" THEN Untraced ELSE loopTrace
           noted  == AppendBytecode(told, under, n)
           opened == IF after.window = Untraced THEN StartTrace(noted, "window", aim) ELSE noted
           adHoc  == StartTrace(told, "frame", aim)
           alone  == under = Untraced
           w      == IF alone \/ after.window # Untraced THEN after.window ELSE opened.last
           length == IF alone THEN after.taken ELSE IF w = after.window THEN after.taken + 1 ELSE 1
           logged == IF alone THEN EndTrace(AppendBytecode(adHoc, adHoc.last, n), adHoc.last)
                     ELSE AppendBytecode(opened, w, n)
           over   == w # Untraced /\ (stuck \/ (~alone /\ length >= WindowMax))
           final  == IF over THEN EndTrace(logged, w) ELSE logged
           tool   == IF heard = "none" THEN toolTrace ELSE Untraced
           F      == IF alone THEN followed ELSE followed \cup {n}
<1>1. /\ motions' = n /\ loopTrace' = under /\ toolTrace' = tool /\ followed' = F /\ Kept(final)
      /\ window' = IF over THEN Untraced ELSE w
      /\ taken' = IF over THEN 0 ELSE length
      /\ UNCHANGED <<aim, second>>
  BY DEF LogMotion, CloseWindow
<1>2. /\ Hold(closed, toolTrace, loopTrace, after.window, after.taken, motions, followed)
      /\ after.taken \in Nat /\ (after.window # Untraced => after.taken < WindowMax)
  <2>1. \A k : Hold(EndTrace(Books, window), toolTrace, loopTrace, Untraced, k, motions, followed)
    BY EndWindowHolds
  <2>2. /\ CloseWindow(window, taken).window = Untraced
        /\ CloseWindow(window, taken).taken = 0
    BY DEF CloseWindow
  <2> QED
    BY <2>1, <2>2
<1> HIDE DEF closed, after
<1>3. Hold(told, tool, loopTrace, after.window, after.taken, motions, followed)
  BY <1>2, EndToolHolds
<1> HIDE DEF told, tool
<1>4. Hold(told, tool, under, after.window, after.taken, motions, followed)
  BY <1>3, LooseHolds
<1> HIDE DEF under
<1>5. CASE alone
  <2>1. w = after.window /\ length = after.taken /\ F = followed
    BY <1>5
  <2>2. Hold(logged, tool, under, w, length, motions, followed)
    BY <1>4, <1>5, <2>1, FrameHolds
  <2> HIDE DEF logged, w, length, F
  <2>3. Hold(final, tool, under, IF over THEN Untraced ELSE w, IF over THEN 0 ELSE length, motions, F)
    BY <2>1, <2>2, EndWindowHolds
  <2>4. Hold(final, tool, under, IF over THEN Untraced ELSE w, IF over THEN 0 ELSE length, n, F)
    BY <2>1, <2>3, LooseHolds
  <2> HIDE DEF over, final
  <2>5. Books' = final
    BY <1>1, <2>4, KeptIs DEF Hold
  <2> QED
    BY <1>1, <1>2, <2>1, <2>4, <2>5
<1>6. CASE ~alone
  <2>1. Hold(noted, tool, under, after.window, after.taken, motions, followed)
    BY <1>4, NoteHolds
  <2> DEFINE k == IF after.window = Untraced THEN 0 ELSE after.taken
  <2>2. /\ Hold(opened, tool, under, w, k, motions, followed) /\ w # Untraced
        /\ k \in Nat /\ k < WindowMax /\ length = k + 1
    <3>1. CASE after.window # Untraced
      <4>1. opened = noted /\ w = after.window /\ length = after.taken + 1 /\ k = after.taken
        BY <1>6, <3>1
      <4> QED
        BY <1>2, <2>1, <3>1, <4>1
    <3>2. CASE after.window = Untraced
      <4>1. opened = StartTrace(noted, "window", aim) /\ w = opened.last
        BY <1>6, <3>2
      <4>2. opened.last # Untraced
        <5>1. opened = [noted EXCEPT !.last = @ + 1,
                          !.active = With(@, noted.last + 1, [id |-> noted.last + 1,
                            kind |-> "window", goal |-> aim, second |-> second, motions |-> {}])]
          BY <4>1 DEF StartTrace
        <5> HIDE DEF opened, noted
        <5>2. noted.last \in Nat /\ opened.last = noted.last + 1
          BY <2>1, <5>1 DEF Hold, BooksAreKept
        <5> QED
          BY <5>2 DEF Untraced
      <4>3. Hold(noted, tool, under, Untraced, after.taken, motions, followed)
        BY <2>1, <3>2
      <4> HIDE DEF noted, opened
      <4>4. Hold(opened, tool, under, opened.last, 0, motions, followed)
        BY <4>1, <4>3, StartWindowHolds
      <4> QED
        BY <1>6, <3>2, <4>1, <4>2, <4>4, TraceAssumption
    <3> QED
      BY <3>1, <3>2
  <2>3. logged = AppendBytecode(opened, w, n) /\ F = followed \cup {n}
    BY <1>6
  <2> HIDE DEF opened, w, k, logged, length
  <2>4. Hold(logged, tool, under, w, length, n, F)
    BY <2>2, <2>3, WindowHolds
  <2>5. Hold(final, tool, under, IF over THEN Untraced ELSE w, IF over THEN 0 ELSE length, n, F)
    <3>1. F \in SUBSET Nat
      OBVIOUS
    <3> HIDE DEF F
    <3> QED
      BY <2>4, <3>1, EndWindowHolds
  <2>6. ~over => length < WindowMax
    BY <1>6, <2>2, TraceAssumption
  <2> HIDE DEF over, final
  <2>7. Books' = final
    BY <1>1, <2>5, KeptIs DEF Hold
  <2> QED
    BY <1>1, <2>2, <2>5, <2>6, <2>7
<1> QED
  BY <1>5, <1>6

\* What is kept of the books is what the properties ask for.
LEMMA BooksTell == LogInv => TracesAreKept
<1> SUFFICES ASSUME LogInv PROVE TracesAreKept
  OBVIOUS
<1> DEFINE b == Books
<1>1. /\ b.active = active /\ b.files = files /\ b.last = lastId /\ b.replaced = replaced
  BY DEF Books
<1>2. Recorded = RecordedIn(b) /\ Written = WrittenIn(b)
  BY <1>1 DEF Recorded, Written, RecordedIn, WrittenIn
<1>3. /\ BooksAreKept(b) /\ Held(b, Slot(toolTrace, window)) /\ Windowed(b, motions)
      /\ toolTrace \in Nat /\ window \in Nat
      /\ \A k \in followed : Covered(b, k)
  BY DEF LogInv, Hold, BooksAreKept
<1> HIDE DEF b
<1>4. EachTraceOnce
  <2>1. {e.id : e \in Recorded} = 1 .. lastId
    BY <1>1, <1>2, <1>3 DEF BooksAreKept
  <2>2. \A d, e \in Recorded : d.id = e.id => d = e
    BY <1>2, <1>3 DEF BooksAreKept
  <2>3. DOMAIN active \cap {e.id : e \in Written} = {}
    BY <1>1, <1>2, <1>3 DEF BooksAreKept
  <2>4. ASSUME NEW e \in replaced
        PROVE  \E d \in Written \ {e} : FileName(d) = FileName(e)
    <3>1. FileName(e) \in DOMAIN files /\ files[FileName(e)] # e
      BY <1>1, <1>3, <2>4 DEF BooksAreKept
    <3>2. FileName(files[FileName(e)]) = FileName(e)
      BY <1>1, <1>3, <3>1 DEF BooksAreKept
    <3> QED
      BY <3>1, <3>2 DEF Written
  <2> QED
    BY <2>1, <2>2, <2>3, <2>4 DEF EachTraceOnce
<1>5. OneWindowEach
  <2> DEFINE windows == {e \in Recorded : e.kind = "window"}
  <2>1. ASSUME NEW n \in followed PROVE Cardinality({e \in windows : n \in e.motions}) = 1
    <3>1. PICK e \in windows : n \in e.motions
      BY <1>2, <1>3 DEF Covered
    <3>2. \A d \in windows : n \in d.motions => d = e
      BY <1>2, <1>3, <3>1 DEF Windowed
    <3>3. {d \in windows : n \in d.motions} = {e}
      BY <3>1, <3>2
    <3> QED
      BY <3>3, FS_Singleton
  <2>2. \A e \in windows : Cardinality(e.motions) <= WindowMax
    BY <1>2, <1>3 DEF Windowed
  <2>3. ASSUME NEW e \in windows, e.id \in DOMAIN active PROVE e.id = window
    <3>1. e = active[e.id]
      BY <1>1, <1>2, <1>3, <2>3 DEF BooksAreKept, RecordedIn
    <3> QED
      BY <1>1, <1>3, <2>3, <3>1, SlotIs DEF Held
  <2> QED
    BY <2>1, <2>2, <2>3 DEF OneWindowEach
<1>6. ToolTraceIsOpen
  <2>1. Slot(toolTrace, window)["tool"] = toolTrace /\ "tool" \in Kinds
    BY <1>3, SlotIs
  <2>2. \A t \in DOMAIN active : active[t].kind = "tool" => t = toolTrace /\ t # Untraced
    BY <1>1, <1>3, <2>1 DEF Held, BooksAreKept, Untraced
  <2>3. toolTrace # Untraced => toolTrace \in DOMAIN active /\ active[toolTrace].kind = "tool"
    BY <1>1, <1>3, <2>1 DEF Held
  <2> QED
    BY <2>2, <2>3 DEF ToolTraceIsOpen
<1> QED
  BY <1>4, <1>5, <1>6 DEF TracesAreKept

\* However steps, retries, stops and stuck motions interleave, no trace is lost or
\* written twice but under another's file name, every bytecode sent for a trace is in
\* exactly one window of bounded length, and the tools' trace alone stays open.
THEOREM TracesAreAllKept == TraceSpec => []TracesAreKept
<1>1. LogInv /\ [TraceNext]_traceVars => LogInv'
  <2> SUFFICES ASSUME LogInv, [TraceNext]_traceVars PROVE LogInv'
    OBVIOUS
  <2>1. CASE Motion \/ StuckMotion \/ StopMotion
    <3>1. \E stop, stuck \in BOOLEAN, heard \in {"none", "step", "session"} :
            LogMotion(stop, stuck, heard)
      BY <2>1 DEF Motion, StuckMotion, StopMotion
    <3> QED
      BY <3>1, MotionKeepsBooks
  <2>2. CASE SecondPasses \/ UNCHANGED traceVars
    <3>1. /\ UNCHANGED <<books, toolTrace, loopTrace, window, taken, aim, motions, followed>>
          /\ second' \in {second, second + 1}
      BY <2>2 DEF SecondPasses, traceVars
    <3>2. UNCHANGED Books
      BY <3>1 DEF Books, books
    <3> QED
      BY <3>1, <3>2 DEF LogInv
  <2> QED
    BY <2>1, <2>2, ToolsKeepBooks, CloseKeepsBooks DEF TraceNext
<1> QED
  BY <1>1, TraceStarts, BooksTell, PTL DEF TraceSpec

------------------------------------------------------------------------------
(****************************************************************************)
(* The dream loop                                                           *)
(****************************************************************************)

\* The ranges of the experiment's variables.
Entries == [experiment : Nat, baseline : BOOLEAN, outcome : Outcomes]
LoopShape ==
  /\ experiment \in Nat \ {0}
  /\ phase \in {"setup", "scatter", "trial", "dream", "abstract", "over"}
  /\ logs \in Seq(Entries)
  /\ results \in Seq(0 .. Len(logs))
  /\ learnt \in (SUBSET SUBSET DOMAIN logs) \X (SUBSET SUBSET DOMAIN logs) \X (SUBSET SUBSET DOMAIN logs)

\* A scattering begins at its first attempt, and only then may the robot still run.
Scattering ==
  /\ phase = "scatter" => attempt \in 1 .. Attempts /\ (simRobot.moving => attempt = 1)
  /\ phase \in {"dream", "abstract"} => attempt = 1

\* The traces that were not there before are those of this experiment, and of its
\* baseline while it dreams.
OwnTraces ==
  /\ phase \in {"dream", "abstract"} => Len(results) = Trials
  /\ phase # "setup" => \A n \in NewTraces :
       /\ logs[n].experiment = experiment
       /\ Len(results) <= Trials => logs[n].baseline

\* The inductive invariant of the experiment.
LoopInv == LoopShape /\ Scattering /\ OwnTraces /\ ExperimentIsSound

\* The trace of a trial, if there is one, is the only file not there before.
LEMMA TrialTrace ==
  ASSUME NEW S, NEW s \in Seq(S), NEW e \in S
  PROVE  /\ NewTrace(DOMAIN s, DOMAIN Append(s, e)) = Len(s) + 1
         /\ NewTrace(DOMAIN s, DOMAIN s) = NoTrace
         /\ Append(s, e) \in Seq(S) /\ Len(Append(s, e)) = Len(s) + 1
         /\ DOMAIN Append(s, e) = DOMAIN s \cup {Len(s) + 1}
         /\ DOMAIN s = 1 .. Len(s)
         /\ Append(s, e)[Len(s) + 1] = e
         /\ \A n \in DOMAIN s : Append(s, e)[n] = s[n]
<1>1. /\ Append(s, e) \in Seq(S) /\ Len(Append(s, e)) = Len(s) + 1
      /\ DOMAIN s = 1 .. Len(s) /\ DOMAIN Append(s, e) = 1 .. Len(s) + 1 /\ Len(s) \in Nat
      /\ Append(s, e)[Len(s) + 1] = e
      /\ \A n \in 1 .. Len(s) : Append(s, e)[n] = s[n]
  OBVIOUS
<1>2. 1 .. Len(s) + 1 = (1 .. Len(s)) \cup {Len(s) + 1}
  BY <1>1
<1>3. DOMAIN Append(s, e) \ DOMAIN s = {Len(s) + 1}
  BY <1>1
<1>4. NewTrace(DOMAIN s, DOMAIN Append(s, e)) = Len(s) + 1
  <2>1. (CHOOSE n \in {Len(s) + 1} : \A k \in {Len(s) + 1} : k <= n) = Len(s) + 1
    BY <1>1
  <2> QED
    BY <1>3, <2>1 DEF NewTrace, NewestSince
<1>5. NewTrace(DOMAIN s, DOMAIN s) = NoTrace
  BY DEF NewTrace, NewestSince
<1> QED
  BY <1>1, <1>2, <1>4, <1>5

LEMMA LoopStarts == LoopInit => LoopInv
<1> SUFFICES ASSUME LoopInit PROVE LoopInv
  OBVIOUS
<1>1. LoopShape
  <2>1. Alien \in Entries
    BY DEF Alien, Entries, Outcomes
  <2>2. logs \in Seq(Entries)
    <3>1. <<Alien>> \in Seq(Entries) /\ <<>> \in Seq(Entries)
      BY <2>1
    <3> QED
      BY <3>1 DEF LoopInit
  <2>3. results \in Seq(0 .. Len(logs))
    BY DEF LoopInit
  <2> QED
    BY <2>2, <2>3 DEF LoopInit, LoopShape, learnt
<1>2. Scattering /\ OwnTraces
  BY DEF LoopInit, Scattering, OwnTraces
<1>3. ExperimentIsSound
  BY DEF LoopInit, ExperimentIsSound, TrialStartsFar, LearnsFromOwn, ReportIsHonest
<1> QED
  BY <1>1, <1>2, <1>3 DEF LoopInv

LEMMA StepSetup == LoopInv /\ (Setup \/ NextExperiment) => LoopInv'
<1> SUFFICES ASSUME LoopInv, Setup \/ NextExperiment PROVE LoopInv'
  OBVIOUS
<1> USE DEF LoopInv
<1>1. UNCHANGED <<logs, guards, reflexes, simRobot>> /\ routes' \in {routes, {}}
  BY DEF Setup, NextExperiment, learnt
<1>2. results' \in Seq(0 .. Len(logs)) /\ results' \in {results, <<>>}
  <2>1. <<>> \in Seq(0 .. Len(logs))
    OBVIOUS
  <2> QED
    BY <2>1 DEF Setup, NextExperiment, LoopShape
<1>3. LoopShape'
  BY <1>1, <1>2 DEF Setup, NextExperiment, LoopShape, learnt
<1>4. Scattering' /\ OwnTraces'
  BY <1>1, DreamLoopAssumption DEF Setup, NextExperiment, Scattering, OwnTraces, NewTraces
<1>5. TrialStartsFar'
  BY DEF Setup, NextExperiment, TrialStartsFar
<1>6. LearnsFromOwn'
  BY <1>1 DEF ExperimentIsSound, LearnsFromOwn
<1>7. ReportIsHonest'
  BY <1>1, <1>2 DEF ExperimentIsSound, ReportIsHonest
<1> QED
  BY <1>3, <1>4, <1>5, <1>6, <1>7 DEF ExperimentIsSound

LEMMA StepScatter == LoopInv /\ Scatter => LoopInv'
<1> SUFFICES ASSUME LoopInv, Scatter PROVE LoopInv'
  OBVIOUS
<1> USE DEF LoopInv
<1>1. UNCHANGED <<experiment, results, logs, found, guards, routes, reflexes>>
  BY DEF Scatter, learnt
<1>2. phase = "scatter" /\ phase' \in {"trial", "scatter"} /\ attempt \in 1 .. Attempts
  BY DEF Scatter, Scattering
<1>3. \/ /\ simRobot.far /\ phase' = "trial" /\ UNCHANGED <<attempt, simRobot>>
      \/ /\ ~simRobot'.moving /\ attempt' = attempt + 1
         /\ phase' = "scatter" => attempt # Attempts
         /\ phase' = "trial" => attempt = Attempts
  <2>1. attempt % (Attempts + 1) = attempt
    BY <1>2, DreamLoopAssumption
  <2> QED
    BY <2>1 DEF Scatter, Distances, Ready, LastAttempt
<1>4. LoopShape' /\ OwnTraces'
  BY <1>1, <1>2 DEF LoopShape, OwnTraces, NewTraces, learnt
<1>5. Scattering' /\ TrialStartsFar'
  BY <1>2, <1>3, DreamLoopAssumption DEF Scattering, TrialStartsFar
<1>6. LearnsFromOwn' /\ ReportIsHonest'
  BY <1>1 DEF ExperimentIsSound, LearnsFromOwn, ReportIsHonest
<1> QED
  BY <1>4, <1>5, <1>6 DEF ExperimentIsSound

LEMMA StepRunTrial == LoopInv /\ RunTrial => LoopInv'
<1> SUFFICES ASSUME LoopInv, RunTrial PROVE LoopInv'
  OBVIOUS
<1> USE DEF LoopInv
<1>1. /\ experiment \in Nat \ {0} /\ logs \in Seq(Entries) /\ results \in Seq(0 .. Len(logs))
      /\ Len(logs) \in Nat /\ Len(results) \in Nat
      /\ DOMAIN logs = 1 .. Len(logs) /\ DOMAIN results = 1 .. Len(results)
      /\ UNCHANGED <<experiment, found, guards, routes, reflexes>>
      /\ phase = "trial"
  BY DEF LoopShape, RunTrial, learnt
<1>2. PICK n : results' = Append(results, n) /\ n = NewTrace(DOMAIN logs, DOMAIN logs')
  BY DEF RunTrial
<1>3. /\ logs' \in Seq(Entries)
      /\ DOMAIN logs \subseteq DOMAIN logs' /\ Len(logs) <= Len(logs') /\ Len(logs') \in Nat
      /\ \A k \in DOMAIN logs : logs'[k] = logs[k]
      /\ \A k \in DOMAIN logs' \ DOMAIN logs :
           k = n /\ k = Len(logs) + 1 /\ logs'[k].experiment = experiment
      /\ n # NoTrace =>
           n \in DOMAIN logs' \ DOMAIN logs /\ n > Len(logs) /\ (logs'[n].baseline <=> Len(results) < Trials)
      /\ n \in 0 .. Len(logs')
  <2>1. CASE UNCHANGED logs
    <3>1. n = NoTrace
      BY <1>1, <1>2, <2>1 DEF NewTrace, NewestSince
    <3> QED
      BY <1>1, <2>1, <3>1 DEF NoTrace
  <2>2. CASE \E o \in Outcomes : logs' = Append(logs,
               [experiment |-> experiment, baseline |-> Baseline, outcome |-> o])
    <3>1. PICK o \in Outcomes : logs' = Append(logs,
             [experiment |-> experiment, baseline |-> Baseline, outcome |-> o])
      BY <2>2
    <3> DEFINE e == [experiment |-> experiment, baseline |-> Baseline, outcome |-> o]
    <3>2. e \in Entries /\ e.experiment = experiment /\ (e.baseline <=> Len(results) < Trials)
      <4>1. Baseline \in BOOLEAN /\ (Baseline <=> Len(results) < Trials)
        <5>1. Baseline = TRUE \/ Baseline = FALSE
          BY <1>1, DreamLoopAssumption DEF Baseline
        <5> QED
          BY <5>1 DEF Baseline
      <4>2. e.baseline = Baseline /\ e.experiment = experiment
        OBVIOUS
      <4>3. e \in Entries
        BY <1>1, <4>1, Zenon DEF Entries
      <4> QED
        BY <4>1, <4>2, <4>3
    <3>3. logs' = Append(logs, e)
      BY <3>1
    <3> HIDE DEF e
    <3>4. /\ n = Len(logs) + 1 /\ logs' \in Seq(Entries) /\ Len(logs') = Len(logs) + 1
          /\ DOMAIN logs' = DOMAIN logs \cup {Len(logs) + 1}
          /\ logs'[Len(logs) + 1] = e /\ \A k \in DOMAIN logs : logs'[k] = logs[k]
      BY <1>1, <1>2, <3>2, <3>3, TrialTrace
    <3> QED
      BY <1>1, <3>2, <3>4 DEF NoTrace
  <2> QED
    BY <2>1, <2>2 DEF RunTrial
<1>4. /\ results' \in Seq(0 .. Len(logs')) /\ Len(results') = Len(results) + 1
      /\ DOMAIN results' = 1 .. Len(results) + 1
      /\ results'[Len(results) + 1] = n
      /\ \A i \in 1 .. Len(results) : results'[i] = results[i] /\ results[i] \in 0 .. Len(logs)
  <2>1. results \in Seq(0 .. Len(logs'))
    BY <1>1, <1>3
  <2> QED
    BY <1>1, <1>2, <1>3, <2>1
<1>5. LoopShape'
  <2>1. phase' \in {"dream", "over", "scatter"}
    BY DEF RunTrial
  <2>2. learnt' \in (SUBSET SUBSET DOMAIN logs') \X (SUBSET SUBSET DOMAIN logs') \X (SUBSET SUBSET DOMAIN logs')
    BY <1>1, <1>3 DEF LoopShape, learnt
  <2> QED
    BY <1>1, <1>3, <1>4, <2>1, <2>2 DEF LoopShape
<1>6. Scattering'
  BY DreamLoopAssumption DEF RunTrial, Scattering
<1>7. OwnTraces'
  <2>1. phase' = "dream" => Len(results') = Trials
    BY DEF RunTrial
  <2>2. phase' # "abstract"
    BY DEF RunTrial
  <2>3. ASSUME NEW k \in NewTraces'
        PROVE  logs'[k].experiment = experiment /\ (Len(results') <= Trials => logs'[k].baseline)
    <3>1. CASE k \in DOMAIN logs
      <4>1. k \in NewTraces
        BY <1>1, <3>1 DEF NewTraces
      <4>2. logs[k].experiment = experiment /\ (Len(results) <= Trials => logs[k].baseline)
        BY <1>1, <4>1 DEF OwnTraces
      <4>3. Len(results') <= Trials => Len(results) <= Trials
        BY <1>1, <1>4, DreamLoopAssumption
      <4> QED
        BY <1>3, <3>1, <4>2, <4>3
    <3>2. CASE k \notin DOMAIN logs
      <4>1. k \in DOMAIN logs' \ DOMAIN logs
        BY <3>2 DEF NewTraces
      <4>2. k = n /\ logs'[k].experiment = experiment /\ n # NoTrace
        BY <1>1, <1>3, <4>1 DEF NoTrace
      <4>3. Len(results') <= Trials => Len(results) < Trials
        BY <1>1, <1>4, DreamLoopAssumption
      <4> QED
        BY <1>3, <4>2, <4>3
    <3> QED
      BY <3>1, <3>2
  <2> QED
    BY <1>1, <2>1, <2>2, <2>3 DEF OwnTraces
<1>8. TrialStartsFar'
  BY DEF RunTrial, TrialStartsFar
<1>9. LearnsFromOwn'
  <2>1. \A entry \in guards \cup reflexes \cup routes : entry \subseteq DOMAIN logs
    BY DEF LoopShape, learnt
  <2> QED
    BY <1>1, <1>3, <2>1 DEF ExperimentIsSound, LearnsFromOwn
<1>10. ReportIsHonest'
  <2> SUFFICES ASSUME NEW i \in DOMAIN results', NEW k \in DOMAIN results', results'[i] # NoTrace
               PROVE  /\ logs'[results'[i]].baseline = (i <= Trials)
                      /\ results'[k] = results'[i] => k = i
    BY DEF ReportIsHonest
  <2>1. i \in Nat /\ k \in Nat /\ (i = Len(results) + 1 \/ i \in DOMAIN results)
        /\ (k = Len(results) + 1 \/ k \in DOMAIN results)
    BY <1>1, <1>4
  <2>2. logs'[results'[i]].baseline \in BOOLEAN
    <3>1. results'[i] \in DOMAIN logs'
      BY <1>1, <1>3, <1>4, <2>1 DEF NoTrace
    <3>2. logs'[results'[i]] \in Entries
      BY <1>3, <3>1
    <3> QED
      BY <3>2, Zenon DEF Entries
  <2>3. CASE i = Len(results) + 1
    <3>1. results'[i] = n /\ n > Len(logs) /\ (logs'[n].baseline <=> Len(results) < Trials)
      BY <1>3, <1>4, <2>3
    <3>2. Len(results) < Trials <=> i <= Trials
      BY <1>1, <2>3, DreamLoopAssumption
    <3>3. results'[k] = results'[i] => k = i
      BY <1>1, <1>3, <1>4, <2>1, <2>3, <3>1
    <3> QED
      BY <2>2, <3>1, <3>2, <3>3
  <2>4. CASE i \in DOMAIN results
    <3>1. results'[i] = results[i] /\ results[i] \in DOMAIN logs
      BY <1>1, <1>4, <2>4 DEF NoTrace
    <3>2. logs[results[i]].baseline = (i <= Trials)
      BY <2>4, <3>1 DEF ExperimentIsSound, ReportIsHonest
    <3>3. results'[k] = results'[i] => k = i
      <4>1. CASE k = Len(results) + 1
        BY <1>1, <1>3, <1>4, <3>1, <4>1
      <4>2. CASE k \in DOMAIN results
        BY <1>1, <1>4, <2>4, <3>1, <4>2 DEF ExperimentIsSound, ReportIsHonest
      <4> QED
        BY <2>1, <4>1, <4>2
    <3> QED
      BY <1>3, <3>1, <3>2, <3>3
  <2> QED
    BY <2>1, <2>3, <2>4
<1> QED
  BY <1>5, <1>6, <1>7, <1>8, <1>9, <1>10 DEF ExperimentIsSound

\* What the dream teaches comes from the traces that are new.
LEMMA StepLearn == LoopInv /\ (LearnFromFailures \/ LearnFromSuccesses) => LoopInv'
<1> SUFFICES ASSUME LoopInv, LearnFromFailures \/ LearnFromSuccesses PROVE LoopInv'
  OBVIOUS
<1> USE DEF LoopInv
<1>1. /\ UNCHANGED <<experiment, attempt, results, logs, found, simRobot>>
      /\ phase \in {"dream", "abstract"} /\ phase' \in {"abstract", "scatter"}
      /\ attempt = 1
  BY DEF LearnFromFailures, LearnFromSuccesses, Scattering
<1>2. /\ guards' \subseteq guards \cup {Of("failure")}
      /\ reflexes' \subseteq reflexes \cup {Of("failure")}
      /\ routes' \subseteq routes \cup {Of("success")}
  BY DEF LearnFromFailures, LearnFromSuccesses
<1>3. \A kind \in {"failure", "success"} :
        /\ Of(kind) \subseteq DOMAIN logs
        /\ \A n \in Of(kind) : /\ logs[n].outcome = kind /\ logs[n].baseline
                               /\ logs[n].experiment = experiment
  <2>1. Len(results) <= Trials
    BY <1>1, DreamLoopAssumption DEF OwnTraces
  <2> QED
    BY <1>1, <2>1 DEF Of, NewTraces, OwnTraces
<1>4. LoopShape'
  <2>1. /\ guards' \subseteq SUBSET DOMAIN logs /\ reflexes' \subseteq SUBSET DOMAIN logs
        /\ routes' \subseteq SUBSET DOMAIN logs
    BY <1>2, <1>3 DEF LoopShape, learnt
  <2> QED
    BY <1>1, <2>1 DEF LoopShape, learnt
<1>5. Scattering'
  BY <1>1, DreamLoopAssumption DEF Scattering
<1>6. OwnTraces'
  BY <1>1 DEF LearnFromFailures, LearnFromSuccesses, OwnTraces, NewTraces
<1>7. TrialStartsFar'
  BY <1>1 DEF TrialStartsFar
<1>8. LearnsFromOwn'
  <2>1. experiment # 0
    BY DEF LoopShape
  <2>2. ASSUME NEW entry \in guards' \cup reflexes' PROVE
          entry \in guards \cup reflexes \/ entry = Of("failure")
    BY <1>2
  <2>3. ASSUME NEW entry \in routes' PROVE entry \in routes \/ entry = Of("success")
    BY <1>2
  <2> QED
    BY <1>1, <1>3, <2>1, <2>2, <2>3 DEF ExperimentIsSound, LearnsFromOwn
<1>9. ReportIsHonest'
  BY <1>1 DEF ExperimentIsSound, ReportIsHonest
<1> QED
  BY <1>4, <1>5, <1>6, <1>7, <1>8, <1>9 DEF ExperimentIsSound

\* However trials die, models fail and experiments are interrupted: a trial begins
\* far from the target, the dream learns from the baseline of its own experiment,
\* and the report counts each trial by the trace it wrote itself.
THEOREM ExperimentsAreSound == LoopSpec => []ExperimentIsSound
<1>1. LoopInv /\ UNCHANGED experimentVars => LoopInv'
  BY DEF LoopInv, LoopShape, Scattering, OwnTraces, NewTraces, ExperimentIsSound, TrialStartsFar,
         LearnsFromOwn, ReportIsHonest, experimentVars, learnt
<1>2. LoopInv /\ [LoopNext]_experimentVars => LoopInv'
  BY <1>1, StepSetup, StepScatter, StepRunTrial, StepLearn DEF LoopNext, Script
<1>3. LoopInv => ExperimentIsSound
  BY DEF LoopInv
<1> QED
  BY <1>2, <1>3, LoopStarts, PTL DEF LoopSpec

------------------------------------------------------------------------------
(****************************************************************************)
(* Strategies                                                               *)
(****************************************************************************)

\* The histories of strategies, and the names of the files they are kept in.
Histories == [title : Titles, covers : SUBSET Titles, version : Nat, uses : Nat]
OwnNames == {Own(Slug[t]) : t \in Titles}
ForeignNames == {Foreign(t) : t \in Titles}

\* What is on file is what its name says.
StoreIsWhole ==
  /\ DOMAIN store \subseteq OwnNames \cup ForeignNames
  /\ store = [n \in DOMAIN store |-> store[n]] /\ \A n \in DOMAIN store : store[n] \in Histories

\* The files a robot or a dream may name are never those of dream_loop.ts.
InHand ==
  /\ traces \subseteq TraceFiles /\ \A seq \in todo : seq \subseteq TraceFiles
  /\ held = [seq |-> held.seq, name |-> held.name, strategy |-> held.strategy] /\ held.seq \subseteq TraceFiles
  /\ cycle = "failure" => ~Has(held.seq, "success")
  /\ cycle = "merge" => held.name \in OwnNames /\ held.strategy \in Histories

\* The strategy that is merged is not older than the file, unless another file of its id is read first.
MergeIsRecent ==
  cycle = "merge" /\ held.name \in DOMAIN store =>
    store[held.name].version <= held.strategy.version \/ Shadowed(held.name)

\* No constraint is learnt of a trace that succeeded.
ConstraintsAreLearnt == \A c \in constraints : \A t \in TraceFiles : t.id \in c => t.outcome # "success"

\* The inductive invariant of the store.
StoreInv == StoreIsWhole /\ InHand /\ MergeIsRecent /\ ConstraintsAreLearnt

\* What a step keeps of the file n.
KeptBy(n) ==
  n \in DOMAIN store'
    /\ (store'[n].version < store[n].version \/ store'[n].uses < store[n].uses =>
         \/ store'[n].title \notin store[n].covers
         \/ cycle = "merge" /\ held.name = n /\ store'[n].version >= store[n].version
         \/ Shadowed(n))
AllKept == \A n \in DOMAIN store : KeptBy(n)

-----------------------------------------------------------------------------
LEMMA NamesDiffer ==
  ASSUME NEW n \in OwnNames \cup ForeignNames
  PROVE  /\ n \in OwnNames <=> n[1] = "strat"
         /\ n \in ForeignNames <=> n[1] = "dream"
         /\ n \in OwnNames => Own(n[2]) = n /\ IdOf(n) = n[2]
         /\ n \in ForeignNames => IdOf(n) = Slug[store[n].title]
<1>1. \A m \in OwnNames : m[1] = "strat" /\ Own(m[2]) = m
  BY DEF OwnNames, Own
<1>2. \A m \in ForeignNames : m[1] = "dream"
  BY DEF ForeignNames, Foreign
<1>3. "dream" # "strat"
  OBVIOUS
<1> QED
  BY <1>1, <1>2, <1>3, Zenon DEF IdOf

LEMMA OwnIs ==
  ASSUME NEW s, Own(s) \in OwnNames
  PROVE  IdOf(Own(s)) = s /\ Own(s)[1] = "strat"
BY DEF OwnNames, Own, IdOf

\* A file of dream_loop.ts hides the file that has its id.
LEMMA ForeignShadows ==
  ASSUME StoreInv, NEW n \in DOMAIN store, n \in ForeignNames, Own(IdOf(n)) \in OwnNames
  PROVE  Shadowed(Own(IdOf(n)))
<1>1. n[1] = "dream"
  BY NamesDiffer
<1>2. IdOf(Own(IdOf(n))) = IdOf(n) /\ Own(IdOf(n))[1] = "strat"
  BY OwnIs
<1> QED
  BY <1>1, <1>2 DEF Shadowed, Before

\* Saving under an own name: nothing else changes, and what was hidden stays hidden.
LEMMA SavingKeeps ==
  ASSUME StoreInv, NEW name \in OwnNames, NEW s \in Histories, store' = Saved(name, s)
  PROVE  /\ StoreIsWhole'
         /\ DOMAIN store' = DOMAIN store \cup {name} /\ store'[name] = s
         /\ \A n \in DOMAIN store : n # name => store'[n] = store[n]
         /\ \A n \in OwnNames : Shadowed(n) => Shadowed(n)'
<1>1. /\ DOMAIN store' = DOMAIN store \cup {name} /\ store'[name] = s
      /\ \A n \in DOMAIN store : n # name => store'[n] = store[n]
      /\ store' = [n \in DOMAIN store' |-> store'[n]]
  BY DEF Saved
<1>2. StoreIsWhole'
  BY <1>1 DEF StoreInv, StoreIsWhole
<1>3. ASSUME NEW n \in OwnNames, Shadowed(n) PROVE Shadowed(n)'
  <2>1. PICK o \in DOMAIN store : Before(o, n) /\ IdOf(o) = IdOf(n)
    BY <1>3 DEF Shadowed
  <2>2. o[1] = "dream" /\ n[1] = "strat" /\ name[1] = "strat"
    BY <2>1, NamesDiffer DEF Before
  <2>3. o # name /\ o \in DOMAIN store' /\ store'[o] = store[o]
    BY <1>1, <2>2
  <2>4. IdOf(o)' = IdOf(o) /\ IdOf(n)' = IdOf(n)
    BY <2>2, <2>3 DEF IdOf
  <2> QED
    BY <2>1, <2>3, <2>4 DEF Shadowed, Before
<1> QED
  BY <1>1, <1>2, <1>3

LEMMA StoreStarting == DreamInit => StoreInv
<1> SUFFICES ASSUME DreamInit PROVE StoreInv
  OBVIOUS
<1>1. StoreIsWhole
  <2>1. CASE store = [n \in {} |-> None]
    BY <2>1 DEF StoreIsWhole
  <2>2. ASSUME NEW t \in Titles,
               store = [n \in {Foreign(t)} |-> [title |-> t, covers |-> {t}, version |-> 1, uses |-> 0]]
        PROVE  StoreIsWhole
    BY <2>2 DEF StoreIsWhole, Histories, ForeignNames
  <2> QED
    BY <2>1, <2>2 DEF DreamInit
<1>2. InHand
  BY DEF DreamInit, InHand, NoneHeld
<1>3. MergeIsRecent /\ ConstraintsAreLearnt
  BY DEF DreamInit, MergeIsRecent, ConstraintsAreLearnt
<1> QED
  BY <1>1, <1>2, <1>3 DEF StoreInv

LEMMA StoreStays ==
  ASSUME StoreInv, store' = store
  PROVE  AllKept /\ StoreIsWhole' /\ (cycle' # "merge" => MergeIsRecent')
<1>1. \A n \in DOMAIN store : store[n].version \in Int /\ store[n].uses \in Int
  BY DEF StoreInv, StoreIsWhole, Histories
<1> QED
  BY <1>1 DEF AllKept, KeptBy, StoreInv, StoreIsWhole, MergeIsRecent

LEMMA StepTraces == StoreInv /\ (LogTrace \/ Dream \/ Skip \/ Abstract \/ WriteJournal \/ UNCHANGED dreamVars) => StoreInv' /\ AllKept
<1> SUFFICES ASSUME StoreInv, LogTrace \/ Dream \/ Skip \/ Abstract \/ WriteJournal \/ UNCHANGED dreamVars
             PROVE  StoreInv' /\ AllKept
  OBVIOUS
<1>1. UNCHANGED <<store, constraints>>
  BY DEF LogTrace, Dream, Skip, Abstract, WriteJournal, dreamVars, onDisk
<1>2. ConstraintsAreLearnt'
  BY <1>1 DEF StoreInv, ConstraintsAreLearnt
<1>3. InHand'
  <2>1. CASE LogTrace \/ UNCHANGED dreamVars
    BY <2>1 DEF LogTrace, dreamVars, StoreInv, InHand
  <2>2. CASE Dream
    BY <2>2 DEF Dream, StoreInv, InHand, groupIntoSequences
  <2>3. CASE Skip
    BY <2>3 DEF Skip, StoreInv, InHand, onDisk
  <2>4. CASE Abstract
    <3>1. PICK seq \in todo : /\ Outcome(seq) \in {"success", "failure"} /\ cycle' = Outcome(seq)
                              /\ held' = [NoneHeld EXCEPT !.seq = seq] /\ todo' = todo \ {seq}
      BY <2>4 DEF Abstract
    <3>2. held' = [seq |-> seq, name |-> <<>>, strategy |-> None]
      BY <3>1 DEF NoneHeld
    <3>3. cycle' # "merge" /\ (cycle' = "failure" => ~Has(seq, "success"))
      BY <3>1 DEF Outcome
    <3>4. traces' = traces /\ seq \subseteq TraceFiles
      BY <2>4 DEF Abstract, onDisk, StoreInv, InHand
    <3> QED
      BY <3>1, <3>2, <3>3, <3>4 DEF StoreInv, InHand
  <2>5. CASE WriteJournal
    BY <2>5 DEF WriteJournal, Abandon, NoneHeld, StoreInv, InHand
  <2> QED
    BY <2>1, <2>2, <2>3, <2>4, <2>5
<1>4. MergeIsRecent'
  <2>1. CASE LogTrace \/ UNCHANGED dreamVars
    BY <2>1 DEF LogTrace, dreamVars, StoreInv, MergeIsRecent, Shadowed, IdOf
  <2>2. CASE Dream \/ Skip \/ Abstract \/ WriteJournal
    <3>1. cycle' # "merge"
      BY <2>2 DEF Dream, Skip, Abstract, WriteJournal, Abandon
    <3> QED
      BY <3>1 DEF MergeIsRecent
  <2> QED
    BY <2>1, <2>2
<1> QED
  BY <1>1, <1>2, <1>3, <1>4, StoreStays DEF StoreInv

\* The hand is empty again, or the cycle is over.
LEMMA HandIsEmptied ==
  ASSUME StoreInv, NextGroup \/ Abandon, traces' = traces
  PROVE  InHand' /\ cycle' # "merge"
<1>1. held' = [seq |-> {}, name |-> <<>>, strategy |-> None] /\ cycle' \in {"next", "idle"} /\ todo' \subseteq todo
  BY DEF NextGroup, Abandon, NoneHeld
<1> QED
  BY <1>1 DEF StoreInv, InHand

LEMMA StepFailure == StoreInv /\ ProcessFailure => StoreInv' /\ AllKept
<1> SUFFICES ASSUME StoreInv, ProcessFailure PROVE StoreInv' /\ AllKept
  OBVIOUS
<1>1. InHand' /\ cycle' # "merge" /\ store' = store
  BY HandIsEmptied DEF ProcessFailure
<1>2. ConstraintsAreLearnt'
  <2>1. held.seq \subseteq TraceFiles /\ ~Has(held.seq, "success")
    BY DEF ProcessFailure, StoreInv, InHand
  <2>2. ASSUME NEW t \in TraceFiles, t.id \in {u.id : u \in held.seq} PROVE t.outcome # "success"
    <3>1. PICK u \in held.seq : t.id = u.id
      BY <2>2
    <3>2. t = u
      BY <2>1, <3>1, StrategyAssumption
    <3> QED
      BY <2>1, <3>2 DEF Has
  <2>3. constraints' \in {constraints, constraints \cup {{u.id : u \in held.seq}}}
    BY DEF ProcessFailure
  <2> QED
    BY <2>2, <2>3 DEF StoreInv, ConstraintsAreLearnt
<1> QED
  BY <1>1, <1>2, StoreStays DEF StoreInv

LEMMA StepSuccess == StoreInv /\ ProcessSuccess => StoreInv' /\ AllKept
<1> SUFFICES ASSUME StoreInv, ProcessSuccess PROVE StoreInv' /\ AllKept
  OBVIOUS
<1>0. traces' = traces /\ constraints' = constraints /\ ConstraintsAreLearnt'
  BY DEF ProcessSuccess, StoreInv, ConstraintsAreLearnt
<1>1. ASSUME NEW title \in Titles, NEW covers \in SUBSET Titles, Overlapping(title) = {},
             store' = Saved(Own(Slug[title]), [title |-> title, covers |-> covers, version |-> 1,
                                               uses |-> Cardinality(held.seq)]),
             NextGroup
      PROVE  StoreInv' /\ AllKept
  <2> DEFINE name == Own(Slug[title])
             s == [title |-> title, covers |-> covers, version |-> 1, uses |-> Cardinality(held.seq)]
  <2>1. name \in OwnNames /\ s.title = title
    BY DEF OwnNames
  <2>2. s \in Histories
    <3>1. Cardinality(held.seq) \in Nat
      BY StrategyAssumption, FS_Subset, FS_CardinalityType DEF StoreInv, InHand
    <3> QED
      BY <3>1 DEF Histories
  <2>3. store' = Saved(name, s)
    BY <1>1
  <2> HIDE DEF name, s
  <2>4. /\ StoreIsWhole' /\ DOMAIN store' = DOMAIN store \cup {name} /\ store'[name] = s
        /\ \A n \in DOMAIN store : n # name => store'[n] = store[n]
    BY <2>1, <2>2, <2>3, SavingKeeps
  <2>5. InHand' /\ cycle' # "merge"
    BY <1>0, <1>1, HandIsEmptied
  <2>6. AllKept
    <3>1. \A n \in DOMAIN store : store[n].version \in Int /\ store[n].uses \in Int
      BY DEF StoreInv, StoreIsWhole, Histories
    <3>2. \A n \in DOMAIN store : title \notin store[n].covers
      BY <1>1 DEF Overlapping, findStrategies
    <3> QED
      BY <2>1, <2>4, <3>1, <3>2 DEF AllKept, KeptBy
  <2> QED
    BY <1>0, <2>4, <2>5, <2>6 DEF StoreInv, MergeIsRecent
<1>2. ASSUME NEW title \in Titles, NEW n \in Overlapping(title),
             held' = [held EXCEPT !.name = Own(IdOf(n)), !.strategy = store[n]],
             cycle' = "merge", UNCHANGED <<store, todo>>
      PROVE  StoreInv' /\ AllKept
  <2>1. n \in DOMAIN store /\ n \in OwnNames \cup ForeignNames /\ store[n] \in Histories
    BY <1>2 DEF Overlapping, findStrategies, StoreInv, StoreIsWhole
  <2>2. Own(IdOf(n)) \in OwnNames
    <3>1. CASE n \in OwnNames
      BY <3>1, NamesDiffer
    <3>2. CASE n \in ForeignNames
      BY <2>1, <3>2, NamesDiffer DEF OwnNames, Histories
    <3> QED
      BY <2>1, <3>1, <3>2
  <2>3. held' = [seq |-> held.seq, name |-> Own(IdOf(n)), strategy |-> store[n]]
    <3>1. held = [seq |-> held.seq, name |-> held.name, strategy |-> held.strategy]
      BY DEF StoreInv, InHand
    <3> DEFINE a == held.seq
               b == held.name
               c == held.strategy
               d == Own(IdOf(n))
               e == store[n]
    <3>2. held = [seq |-> a, name |-> b, strategy |-> c] /\ held' = [held EXCEPT !.name = d, !.strategy = e]
      BY <1>2, <3>1
    <3> HIDE DEF a, b, c, d, e
    <3>3. [[seq |-> a, name |-> b, strategy |-> c] EXCEPT !.name = d, !.strategy = e]
            = [seq |-> a, name |-> d, strategy |-> e]
      <4>1. [[seq |-> a, name |-> b, strategy |-> c] EXCEPT !.name = d] = [seq |-> a, name |-> d, strategy |-> c]
        OBVIOUS
      <4>2. [[seq |-> a, name |-> d, strategy |-> c] EXCEPT !.strategy = e] = [seq |-> a, name |-> d, strategy |-> e]
        OBVIOUS
      <4> QED
        BY <4>1, <4>2
    <3>4. held' = [seq |-> a, name |-> d, strategy |-> e]
      BY <3>2, <3>3
    <3> QED
      BY <3>4 DEF a, d, e
  <2>4. InHand'
    BY <1>0, <1>2, <2>1, <2>2, <2>3 DEF StoreInv, InHand
  <2>5. Own(IdOf(n)) \in DOMAIN store => store[Own(IdOf(n))].version <= store[n].version \/ Shadowed(Own(IdOf(n)))
    <3>1. CASE n \in OwnNames
      <4>1. Own(IdOf(n)) = n /\ store[n].version \in Int
        BY <2>1, <3>1, NamesDiffer DEF Histories
      <4> QED
        BY <4>1
    <3>2. CASE n \in ForeignNames
      BY <2>1, <2>2, <3>2, ForeignShadows
    <3> QED
      BY <2>1, <3>1, <3>2
  <2>6. MergeIsRecent'
    <3> DEFINE own == Own(IdOf(n))
    <3>1. held'.name = own /\ held'.strategy = store[n] /\ store' = store
      BY <1>2, <2>3
    <3>2. own \in DOMAIN store => store[own].version <= store[n].version \/ Shadowed(own)
      BY <2>5
    <3> HIDE DEF own
    <3>3. Shadowed(held.name)' <=> \E o \in DOMAIN store : Before(o, own) /\ IdOf(o) = IdOf(own)
      BY <3>1 DEF Shadowed, Before, IdOf
    <3> QED
      BY <3>1, <3>2, <3>3 DEF MergeIsRecent, Shadowed
  <2> QED
    BY <1>0, <1>2, <2>4, <2>6, StoreStays DEF StoreInv
<1>3. ASSUME UNCHANGED store, NextGroup \/ Abandon PROVE StoreInv' /\ AllKept
  BY <1>0, <1>3, HandIsEmptied, StoreStays DEF StoreInv
<1> QED
  BY <1>1, <1>2, <1>3 DEF ProcessSuccess

LEMMA StepMerge == StoreInv /\ Merge => StoreInv' /\ AllKept
<1> SUFFICES ASSUME StoreInv, Merge PROVE StoreInv' /\ AllKept
  OBVIOUS
<1>0. /\ traces' = traces /\ constraints' = constraints /\ ConstraintsAreLearnt' /\ InHand' /\ cycle' # "merge"
      /\ cycle = "merge" /\ held.name \in OwnNames /\ held.strategy \in Histories
  BY HandIsEmptied DEF Merge, StoreInv, ConstraintsAreLearnt, InHand
<1>1. ASSUME NEW covers \in {held.strategy.covers} \cup SUBSET Titles,
             store' = Saved(held.name, [held.strategy EXCEPT !.covers = covers, !.version = @ + 1])
      PROVE  StoreInv' /\ AllKept
  <2> DEFINE s == [held.strategy EXCEPT !.covers = covers, !.version = @ + 1]
  <2>1. s \in Histories /\ s.version = held.strategy.version + 1
    <3>1. covers \in SUBSET Titles /\ held.strategy.version + 1 \in Nat
      BY <1>0, <1>1 DEF Histories
    <3>2. [held.strategy EXCEPT !.covers = covers] \in Histories
      BY <1>0, <3>1 DEF Histories
    <3>3. [held.strategy EXCEPT !.covers = covers].version = held.strategy.version
      BY <1>0 DEF Histories
    <3>4. s = [[held.strategy EXCEPT !.covers = covers] EXCEPT !.version = held.strategy.version + 1]
      BY <3>3
    <3> QED
      BY <3>1, <3>2, <3>4 DEF Histories
  <2>2. store' = Saved(held.name, s)
    BY <1>1
  <2> HIDE DEF s
  <2>3. /\ StoreIsWhole' /\ DOMAIN store' = DOMAIN store \cup {held.name} /\ store'[held.name] = s
        /\ \A n \in DOMAIN store : n # held.name => store'[n] = store[n]
    BY <1>0, <2>1, <2>2, SavingKeeps
  <2>4. /\ \A n \in DOMAIN store : store[n].version \in Int /\ store[n].uses \in Int
        /\ held.strategy.version \in Int
    BY <1>0 DEF StoreInv, StoreIsWhole, Histories
  <2>5. held.name \in DOMAIN store => KeptBy(held.name)
    <3>1. held.name \in DOMAIN store => store[held.name].version <= held.strategy.version \/ Shadowed(held.name)
      BY <1>0 DEF StoreInv, MergeIsRecent
    <3>2. held.name \in DOMAIN store => store'[held.name].version >= store[held.name].version \/ Shadowed(held.name)
      BY <2>1, <2>3, <2>4, <3>1
    <3> QED
      BY <1>0, <2>3, <3>2 DEF KeptBy
  <2>6. \A n \in DOMAIN store : n # held.name => KeptBy(n)
    BY <2>3, <2>4 DEF KeptBy
  <2> QED
    BY <1>0, <2>3, <2>5, <2>6 DEF StoreInv, MergeIsRecent, AllKept
<1>2. CASE UNCHANGED store
  BY <1>0, <1>2, StoreStays DEF StoreInv
<1> QED
  BY <1>1, <1>2 DEF Merge

\* What a robot writes back is newer than what it read; if it read another file, that one hides this.
LEMMA StepReinforce == StoreInv /\ Reinforce => StoreInv' /\ AllKept
<1> SUFFICES ASSUME StoreInv, NEW t \in Titles, NEW m \in findStrategyById(Slug[t]),
                    store' = Saved(Own(Slug[t]), Reinforced(store[m])),
                    UNCHANGED <<traces, constraints, journal, cycle, todo, held>>
             PROVE  StoreInv' /\ AllKept
  BY DEF Reinforce
<1> DEFINE name == Own(Slug[t])
           s == Reinforced(store[m])
<1>1. /\ m \in DOMAIN store /\ m \in OwnNames \cup ForeignNames /\ store[m] \in Histories
      /\ name \in OwnNames /\ IdOf(m) = Slug[t]
  BY DEF findStrategyById, StoreInv, StoreIsWhole, OwnNames
<1>2. s \in Histories /\ s.version = store[m].version /\ s.uses = store[m].uses + 1
  BY <1>1 DEF Reinforced, Histories
<1>3. m = name \/ Shadowed(name)
  <2>1. CASE m \in OwnNames
    BY <1>1, <2>1, NamesDiffer
  <2>2. CASE m \in ForeignNames
    <3>1. Own(IdOf(m)) = name
      BY <1>1
    <3> QED
      BY <1>1, <2>2, <3>1, ForeignShadows
  <2> QED
    BY <1>1, <2>1, <2>2
<1>4. store' = Saved(name, s)
  OBVIOUS
<1> HIDE DEF name, s
<1>5. /\ StoreIsWhole' /\ DOMAIN store' = DOMAIN store \cup {name} /\ store'[name] = s
      /\ \A n \in DOMAIN store : n # name => store'[n] = store[n]
      /\ \A n \in OwnNames : Shadowed(n) => Shadowed(n)'
  BY <1>1, <1>2, <1>4, SavingKeeps
<1>6. \A n \in DOMAIN store : store[n].version \in Int /\ store[n].uses \in Int
  BY DEF StoreInv, StoreIsWhole, Histories
<1>7. AllKept
  BY <1>1, <1>2, <1>3, <1>5, <1>6 DEF AllKept, KeptBy
<1>8. InHand' /\ ConstraintsAreLearnt'
  BY DEF StoreInv, InHand, ConstraintsAreLearnt
<1>9. MergeIsRecent'
  <2> SUFFICES ASSUME cycle = "merge", held.name \in DOMAIN store'
               PROVE  store'[held.name].version <= held.strategy.version \/ Shadowed(held.name)'
    BY DEF MergeIsRecent
  <2>1. held.name \in OwnNames
    BY DEF StoreInv, InHand
  <2>2. CASE Shadowed(held.name)
    BY <1>5, <2>1, <2>2
  <2>3. CASE ~Shadowed(held.name)
    <3>1. CASE held.name = name
      <4>1. m = name
        BY <1>3, <2>3, <3>1
      <4> QED
        BY <1>1, <1>2, <1>5, <2>3, <3>1, <4>1 DEF StoreInv, MergeIsRecent
    <3>2. CASE held.name # name
      BY <1>5, <2>3, <3>2 DEF StoreInv, MergeIsRecent
    <3> QED
      BY <3>1, <3>2
  <2> QED
    BY <2>2, <2>3
<1> QED
  BY <1>5, <1>7, <1>8, <1>9 DEF StoreInv

\* Traces arrive and strategies are merged, reinforced and shadowed while a dream runs:
\* what is learnt was in a trace, and no history shrinks.
THEOREM MemoriesAreKept == DreamSpec => MemoryIsKept
<1>1. StoreInv /\ [DreamNext]_dreamVars => StoreInv' /\ AllKept
  BY StepTraces, StepFailure, StepSuccess, StepMerge, StepReinforce DEF DreamNext, Engine
<1>2. StoreInv => LearntFromFailures
  BY DEF StoreInv, InHand, ConstraintsAreLearnt, LearntFromFailures
<1>3. StoreInv /\ [DreamNext]_dreamVars => StoreInv' /\ LearntFromFailures'
  BY <1>1 DEF StoreInv, InHand, ConstraintsAreLearnt, LearntFromFailures
<1>4. StoreInv /\ [DreamNext]_dreamVars => [LearntFromFailures']_dreamVars
  BY <1>3
<1>5. StoreInv /\ [DreamNext]_dreamVars =>
        [\A n \in DOMAIN store : n \in DOMAIN store'
           /\ (store'[n].version < store[n].version \/ store'[n].uses < store[n].uses =>
                \/ store'[n].title \notin store[n].covers
                \/ cycle = "merge" /\ held.name = n /\ store'[n].version >= store[n].version
                \/ Shadowed(n))]_dreamVars
  BY <1>1, Zenon DEF AllKept, KeptBy
<1> QED
  BY <1>3, <1>4, <1>5, StoreStarting, PTL DEF DreamSpec, MemoryIsKept, HistoryIsKept

------------------------------------------------------------------------------
(****************************************************************************)
(* A dreamt scenario                                                        *)
(****************************************************************************)

\* The least and the greatest of two numbers.
LEMMA LesserIs == ASSUME NEW a \in Int, NEW b \in Int PROVE Min({a, b}) = IF a <= b THEN a ELSE b
<1> DEFINE m == IF a <= b THEN a ELSE b
<1>1. m \in {a, b} /\ \A y \in {a, b} : m <= y
  OBVIOUS
<1>2. Min({a, b}) \in {a, b} /\ \A y \in {a, b} : Min({a, b}) <= y
  BY <1>1 DEF Min
<1> QED
  BY <1>2

LEMMA GreaterIs == ASSUME NEW a \in Int, NEW b \in Int PROVE Max({a, b}) = IF a >= b THEN a ELSE b
<1> DEFINE m == IF a >= b THEN a ELSE b
<1>1. m \in {a, b} /\ \A y \in {a, b} : m >= y
  OBVIOUS
<1>2. Max({a, b}) \in {a, b} /\ \A y \in {a, b} : Max({a, b}) >= y
  BY <1>1 DEF Max
<1> QED
  BY <1>2

\* So many windows of k frames.
LEMMA ManyWindows ==
  ASSUME NEW a \in Nat, NEW b \in Nat, NEW k \in Nat, a >= b
  PROVE  a * k >= b * k /\ (a + 1) * k = a * k + k /\ a * k \in Nat
<1>1. (a - b) * k >= 0 /\ (a - b) * k = a * k - b * k
  OBVIOUS
<1> QED
  BY <1>1

-----------------------------------------------------------------------------
(* The headings *)

\* A heading is one of the eight directions, and every direction has one.
LEMMA Headings == \A h \in Sectors : East(h) \in {-1, 0, 1} /\ North(h) \in {-1, 0, 1}
  BY DEF East, North

LEMMA EveryDirection ==
  ASSUME NEW e \in {-1, 0, 1}, NEW n \in {-1, 0, 1}, e # 0 \/ n # 0
  PROVE  \E h \in Sectors : East(h) = e /\ North(h) = n
<1>1. /\ East(0) = 0 /\ North(0) = 1 /\ East(1) = 1 /\ North(1) = 1
      /\ East(2) = 1 /\ North(2) = 0 /\ East(3) = 1 /\ North(3) = -1
      /\ East(4) = 0 /\ North(4) = -1 /\ East(5) = -1 /\ North(5) = -1
      /\ East(6) = -1 /\ North(6) = 0 /\ East(7) = -1 /\ North(7) = 1
  BY DEF East, North, Turned
<1> HIDE DEF East, North
<1> QED
  BY <1>1 DEF Sectors

\* The target is always in some sector: the larger of the two distances counts.
LEMMA BearingIsSector ==
  ASSUME NEW p \in Points, NEW q \in Points
  PROVE  Bearing(p, q) \in Sectors
<1>1. CASE p = q
  BY <1>1 DEF Bearing, Sectors
<1>2. CASE p # q
  <2> DEFINE dx == q.x - p.x
             dy == q.y - p.y
             most == Max({Magnitude(dx), Magnitude(dy)})
             Part(d) == IF 5 * Magnitude(d) > 2 * most THEN Sign(d) ELSE 0
  <2>1. dx \in Int /\ dy \in Int /\ (dx # 0 \/ dy # 0)
    BY <1>2 DEF Points
  <2>2. Magnitude(dx) \in Nat /\ Magnitude(dy) \in Nat
    BY <2>1 DEF Magnitude
  <2>3. most = IF Magnitude(dx) >= Magnitude(dy) THEN Magnitude(dx) ELSE Magnitude(dy)
    BY <2>2, GreaterIs
  <2> HIDE DEF dx, dy, most
  <2>4. Part(dx) \in {-1, 0, 1} /\ Part(dy) \in {-1, 0, 1} /\ (Part(dx) # 0 \/ Part(dy) # 0)
    BY <2>1, <2>2, <2>3 DEF Magnitude, Sign
  <2>5. \E h \in Sectors : East(h) = Part(dx) /\ North(h) = Part(dy)
    <3> HIDE DEF Part
    <3> QED
      BY <2>4, EveryDirection
  <2>6. Bearing(p, q) = CHOOSE h \in Sectors : East(h) = Part(dx) /\ North(h) = Part(dy)
    BY <1>2 DEF Bearing, dx, dy, most
  <2> QED
    BY <2>5, <2>6
<1> QED
  BY <1>1, <1>2

\* Turning by one sector towards a bearing comes nearer to it, even from behind.
LEMMA RotationHelps ==
  ASSUME NEW b \in Sectors, NEW h \in Sectors
  PROVE  /\ Relative(b, h) > 0 => Magnitude(Relative(b, Turned(h, 1))) < Magnitude(Relative(b, h))
         /\ Relative(b, h) < 0 => Magnitude(Relative(b, Turned(h, -1))) < Magnitude(Relative(b, h))
  BY DEF Sectors, Relative, Turned, Magnitude

-----------------------------------------------------------------------------
(* One frame *)

\* What a frame may be told.
LEMMA MovesAre == \A c \in Moves : c.op \in Ops /\ c.left \in {0, 1} /\ c.right \in {0, 1}
  BY DEF Moves, Ops, Stop, Wheels

LEMMA OpsAre ==
  Ops = {"MOVE_FORWARD", "MOVE_BACKWARD", "ROTATE_CW", "ROTATE_CCW", "STOP"} \cup Turns
<1>1. \A o \in {"MOVE_FORWARD", "MOVE_BACKWARD", "TURN_LEFT", "TURN_RIGHT", "ROTATE_CW", "ROTATE_CCW", "STOP"} :
        \E c \in Moves : c.op = o
  BY DEF Moves, Stop, Wheels
<1>2. \A c \in Moves :
        c.op \in {"MOVE_FORWARD", "MOVE_BACKWARD", "TURN_LEFT", "TURN_RIGHT", "ROTATE_CW", "ROTATE_CCW", "STOP"}
  BY DEF Moves, Stop, Wheels
<1> QED
  BY <1>1, <1>2 DEF Ops, Turns

\* Every command leaves the robot somewhere, with a heading.
LEMMA RobotStays ==
  ASSUME NEW s \in [at : Points, h : Sectors], NEW c \in Moves
  PROVE  applyCommand(s, c) \in [at : Points, h : Sectors]
<1>1. \A n \in Int : Turned(s.h, n) \in Sectors
  BY DEF Turned, Sectors
<1>2. \A n \in {-1, 0, 1} : Shifted(s.at, s.h, n) \in Points
  <2>1. East(s.h) \in {-1, 0, 1} /\ North(s.h) \in {-1, 0, 1} /\ s.at.x \in Int /\ s.at.y \in Int
    BY Headings DEF Points
  <2> HIDE DEF East, North
  <2>2. \A n, m \in {-1, 0, 1} : n * m \in Int
    OBVIOUS
  <2> QED
    BY <2>1, <2>2 DEF Shifted, Points
<1>3. \A l, r \in -1 .. 1 : applyDrive(s, l, r) \in [at : Points, h : Sectors]
  <2>1. \A n \in Int : Sign(n) \in {-1, 0, 1}
    BY DEF Sign
  <2> QED
    BY <1>1, <1>2, <2>1 DEF applyDrive
<1>4. c.left \in -1 .. 1 /\ c.right \in -1 .. 1 /\ -c.left \in -1 .. 1 /\ -c.right \in -1 .. 1
  BY MovesAre
<1>5. \A n \in Int : [s EXCEPT !.h = Turned(s.h, n)] \in [at : Points, h : Sectors]
  BY <1>1
<1>6. c.op \in {"MOVE_FORWARD", "MOVE_BACKWARD", "ROTATE_CW", "ROTATE_CCW", "STOP"} \cup Turns
  BY MovesAre, OpsAre
<1> QED
  BY <1>3, <1>4, <1>5, <1>6 DEF applyCommand, Turns

-----------------------------------------------------------------------------
(* What condemns a run *)

\* Frames that did something else than the one before, of the last four.
Differ(ops, i) == IF Len(ops) > i /\ ops[i] # ops[i + 1] THEN 1 ELSE 0
Changes(ops) == Differ(ops, 1) + Differ(ops, 2) + Differ(ops, 3)

LEMMA ChangesAre == \A ops : Changes(ops) \in 0 .. 3
<1>1. \A ops : \A i \in 1 .. 3 : Differ(ops, i) \in {0, 1}
  BY Zenon DEF Differ
<1> HIDE DEF Differ
<1> QED
  BY <1>1 DEF Changes

\* The command enters the window of the last four, and the oldest leaves it.
LEMMA SlideChanges ==
  ASSUME ScenarioTypeOK, NEW op \in Ops
  PROVE  /\ Slide(op) \in Seq(Ops) /\ Len(Slide(op)) \in 1 .. 4
         /\ Slide(op)[Len(Slide(op))] = op
         /\ Len(Slide(op)) > 1 => /\ Len(recent) > 0
                                  /\ Slide(op)[Len(Slide(op)) - 1] = recent[Len(recent)]
         /\ Changes(Slide(op))
              <= Changes(recent) + (IF Len(recent) > 0 /\ recent[Len(recent)] # op THEN 1 ELSE 0)
<1> DEFINE t == Slide(op)
           n == Len(recent)
<1>1. recent \in Seq(Ops) /\ n <= 4
  BY Zenon DEF ScenarioTypeOK
<1>2. n \in Nat
  BY <1>1, LenProperties, Zenon
<1> HIDE DEF n, t
<1>3. n \in 0 .. 3 \/ n = 4
  BY <1>1, <1>2
<1>4. CASE n = 4
  <2>1. /\ Tail(recent) \in Seq(Ops) /\ Len(Tail(recent)) = 3
        /\ \A i \in 1 .. 3 : Tail(recent)[i] = recent[i + 1]
    <3>1. recent # <<>>
      BY <1>1, <1>4, EmptySeq DEF n
    <3>2. /\ Tail(recent) \in Seq(Ops) /\ Len(Tail(recent)) = n - 1
          /\ \A i \in 1 .. Len(Tail(recent)) : Tail(recent)[i] = recent[i + 1]
      BY <1>1, <3>1, HeadTailProperties, Zenon DEF n
    <3> QED
      BY <1>4, <3>2
  <2>2. t = Append(Tail(recent), op)
    BY <1>4, Zenon DEF Slide, t, n
  <2>3. /\ t \in Seq(Ops) /\ Len(t) = 4 /\ t[4] = op
        /\ t[1] = recent[2] /\ t[2] = recent[3] /\ t[3] = recent[4]
    <3> DEFINE r == Tail(recent)
    <3> HIDE DEF r
    <3>0. r \in Seq(Ops) /\ t = Append(r, op)
      BY <2>1, <2>2 DEF r
    <3>1. /\ t \in Seq(Ops) /\ Len(t) = Len(r) + 1 /\ t[Len(r) + 1] = op
          /\ \A i \in 1 .. Len(r) : t[i] = r[i]
      BY <3>0, AppendProperties, Zenon
    <3>2. Len(r) = 3 /\ \A i \in 1 .. 3 : r[i] = recent[i + 1]
      BY <2>1 DEF r
    <3> QED
      BY <3>1, <3>2
  <2>4. Changes(t) <= Changes(recent) + (IF recent[4] # op THEN 1 ELSE 0)
    BY <1>4, <2>3 DEF Changes, Differ, n
  <2> QED
    BY <1>4, <2>3, <2>4 DEF t, n
<1>5. CASE n \in 0 .. 3
  <2>1. t = Append(recent, op)
    <3>1. n # 4
      BY <1>5
    <3> QED
      BY <3>1, Zenon DEF Slide, t, n
  <2>2. /\ t \in Seq(Ops) /\ Len(t) = n + 1 /\ t[n + 1] = op
        /\ \A i \in 1 .. n : t[i] = recent[i]
    BY <1>1, <2>1, AppendProperties, Zenon DEF n
  <2>3. Changes(t) <= Changes(recent) + (IF n > 0 /\ recent[n] # op THEN 1 ELSE 0)
    <3>1. CASE n = 0
      BY <2>2, <3>1 DEF Changes, Differ, n
    <3>2. CASE n = 1
      BY <2>2, <3>2 DEF Changes, Differ, n
    <3>3. CASE n = 2
      BY <2>2, <3>3 DEF Changes, Differ, n
    <3>4. CASE n = 3
      BY <2>2, <3>4 DEF Changes, Differ, n
    <3> QED
      BY <1>5, <3>1, <3>2, <3>3, <3>4
  <2>4. /\ t \in Seq(Ops) /\ Len(t) \in 1 .. 4 /\ t[Len(t)] = op
        /\ Len(t) > 1 => n > 0 /\ t[Len(t) - 1] = recent[n]
    BY <1>5, <2>2
  <2> QED
    BY <2>3, <2>4, Zenon DEF t, n
<1> QED
  BY <1>3, <1>4, <1>5

\* An oscillation is three changes, the last of them in this frame.
LEMMA OscillationChanges ==
  ASSUME NEW ops, isOscillating(ops)
  PROVE  Changes(ops) = 3 /\ Len(ops) = 4 /\ ops[3] # ops[4]
<1>1. ops[1] # ops[2]
  BY DEF isOscillating, isComplementaryPair, Rotations, Turns
<1> QED
  BY <1>1 DEF isOscillating, Changes, Differ

-----------------------------------------------------------------------------
\* What is counted in stuckCount, the window under
\* way and the changes still remembered are frames of their own, and the first
\* frame is in none of them.
ShortestWindow == Min({StuckAfter, 3})
FramesAreSpent ==
  /\ frames >= stuckCount * ShortestWindow + repeats + Changes(recent) + (IF frames = 0 THEN 0 ELSE 1)
  /\ frames = 0 => recent = <<>> /\ last = "none"
  /\ Len(recent) > 0 => recent[Len(recent)] = last
  /\ outcome = "running" => stuckCount < MaxStuck

\* The inductive invariant of a scenario.
ScenarioInv == ScenarioTypeOK /\ FramesAreSpent /\ OutcomeIsRight /\ AbortIsEarned

LEMMA ShortestWindowIs == ShortestWindow \in Nat \ {0} /\ ShortestWindow <= StuckAfter /\ ShortestWindow <= 3
  BY LesserIs, ScenarioAssumption DEF ShortestWindow

LEMMA ScenarioStarts == ScenarioInit => ScenarioInv
<1> SUFFICES ASSUME ScenarioInit PROVE ScenarioInv
  OBVIOUS
<1>1. scene \in [at : Points, h : Sectors] /\ checked \in Points
  BY ScenarioAssumption DEF ScenarioInit
<1>2. recent \in Seq(Ops) /\ Len(recent) = 0
  BY DEF ScenarioInit
<1>3. ScenarioTypeOK
  BY <1>1, <1>2, ScenarioAssumption DEF ScenarioInit, ScenarioTypeOK
<1>4. Changes(recent) = 0
  BY <1>2 DEF Changes, Differ
<1>5. FramesAreSpent
  BY <1>2, <1>4, ShortestWindowIs, ScenarioAssumption DEF ScenarioInit, FramesAreSpent
<1> QED
  BY <1>3, <1>5 DEF ScenarioInv, ScenarioInit, OutcomeIsRight, AbortIsEarned

\* What a turn does to the count, whichever window it completes.
LEMMA TurnSpends == ScenarioInv /\ Frame => FramesAreSpent' /\ ScenarioTypeOK'
<1> SUFFICES ASSUME ScenarioTypeOK, FramesAreSpent, outcome = "running", frames < MaxFrames,
                    NEW c \in Moves, Turn(c)
             PROVE  FramesAreSpent' /\ ScenarioTypeOK'
  BY DEF ScenarioInv, Frame
<1> DEFINE t == Slide(c.op)
           was == Changes(recent)
           now == Changes(t)
           spent == stuckCount * ShortestWindow
<1>1. c.op \in Ops
  BY MovesAre
<1>2. /\ scene \in [at : Points, h : Sectors] /\ checked \in Points
      /\ frames \in Nat /\ repeats \in 0 .. StuckAfter - 1 /\ repeats \in Nat
      /\ recent \in Seq(Ops) /\ Len(recent) <= 4 /\ stuckCount \in 0 .. MaxStuck
      /\ last \in Ops \cup {"none"} /\ stuckCount < MaxStuck
  BY ScenarioAssumption DEF ScenarioTypeOK, FramesAreSpent
<1>3. frames \in Nat /\ repeats \in Nat /\ repeats <= StuckAfter - 1 /\ StuckAfter \in Nat
      /\ stuckCount \in Nat /\ stuckCount < MaxStuck /\ MaxStuck \in Nat
  BY <1>2, ScenarioAssumption
<1>4. /\ t \in Seq(Ops) /\ Len(t) \in 1 .. 4 /\ t[Len(t)] = c.op
      /\ Len(t) > 1 => Len(recent) > 0 /\ t[Len(t) - 1] = last
      /\ now <= was + (IF Len(recent) > 0 /\ last # c.op THEN 1 ELSE 0)
  BY <1>1, SlideChanges DEF FramesAreSpent
<1>5. was \in Nat /\ now \in Nat /\ ShortestWindow \in Nat /\ ShortestWindow <= StuckAfter /\ ShortestWindow <= 3
  BY ChangesAre, ShortestWindowIs
<1>6. spent \in Nat /\ (stuckCount + 1) * ShortestWindow = spent + ShortestWindow
  BY <1>2, <1>5, ManyWindows
<1>7. frames >= spent + repeats + was + (IF frames = 0 THEN 0 ELSE 1)
  BY DEF FramesAreSpent
<1>8. Oscillates(c) => now = 3 /\ c.op # last /\ Len(recent) > 0
  BY <1>4, OscillationChanges DEF Oscillates
<1>9. Full(c) => c.op = last /\ Repeated(c) = repeats + 1 /\ repeats + 1 = StuckAfter
  BY <1>2, ScenarioAssumption DEF Full, Repeated
<1>10. Repeated(c) \in 0 .. repeats + 1 /\ (c.op # last => Repeated(c) = 0)
  BY <1>2, ScenarioAssumption DEF Repeated
<1>11. /\ frames' = frames + 1 /\ last' = c.op
       /\ repeats' = IF Full(c) THEN 0 ELSE Repeated(c)
       /\ recent' = IF Oscillates(c) THEN <<>> ELSE t
       /\ stuckCount' = stuckCount + (IF Stuck(c) THEN 1 ELSE 0) + (IF Oscillates(c) THEN 1 ELSE 0)
  BY DEF Turn, AfterWindow, Full, Detections
<1>12. Changes(<<>>) = 0
  BY DEF Changes, Differ
<1> DEFINE later == Changes(recent')
           after == stuckCount' * ShortestWindow
           streak == repeats'
<1>13. streak = IF Full(c) THEN 0 ELSE Repeated(c)
  BY <1>11
<1>14. later = IF Oscillates(c) THEN 0 ELSE now
  BY <1>11, <1>12
<1>15. Stuck(c) => Full(c)
  BY DEF Stuck
<1> HIDE DEF t, was, now, spent, later, after, streak
<1>16. frames = 0 => c.op # last /\ Len(recent) = 0
  BY <1>1, OpsAre DEF FramesAreSpent, Turns
<1>17. /\ frames + 1 >= after + streak + later + 1 /\ stuckCount' \in 0 .. MaxStuck
       /\ streak \in 0 .. StuckAfter - 1
  <2>1. CASE Stuck(c)
    <3>1. ~Oscillates(c) /\ Full(c) /\ c.op = last /\ repeats + 1 = StuckAfter
      BY <1>8, <1>9, <1>15, <2>1
    <3>2. stuckCount' = stuckCount + 1 /\ streak = 0 /\ later = now
      BY <1>3, <1>11, <1>13, <1>14, <2>1, <3>1
    <3>3. after = spent + ShortestWindow
      BY <1>6, <3>2 DEF after
    <3>4. now <= was
      BY <1>4, <1>5, <3>1
    <3>5. frames >= spent + repeats + was + 1
      BY <1>7, <1>16, <3>1
    <3> QED
      BY <1>3, <1>5, <1>6, <3>1, <3>2, <3>3, <3>4, <3>5
  <2>2. CASE Oscillates(c)
    <3>1. ~Stuck(c) /\ ~Full(c) /\ Repeated(c) = 0 /\ c.op # last /\ now = 3 /\ was >= 2
      BY <1>4, <1>5, <1>8, <1>9, <1>10, <1>15, <2>2
    <3>2. stuckCount' = stuckCount + 1 /\ streak = 0 /\ later = 0
      BY <1>3, <1>11, <1>13, <1>14, <2>2, <3>1
    <3>3. after = spent + ShortestWindow
      BY <1>6, <3>2 DEF after
    <3>4. frames >= spent + repeats + was + 1
      BY <1>7, <1>8, <1>16, <2>2
    <3> QED
      BY <1>3, <1>5, <1>6, <3>1, <3>2, <3>3, <3>4
  <2>3. CASE ~Stuck(c) /\ ~Oscillates(c)
    <3>1. stuckCount' = stuckCount /\ later = now /\ streak \in 0 .. Repeated(c)
      BY <1>3, <1>10, <1>11, <1>13, <1>14, <2>3
    <3>2. after = spent
      BY <3>1 DEF spent, after
    <3>3. /\ streak \in Nat /\ streak <= StuckAfter - 1
          /\ streak + now <= repeats + was + (IF frames = 0 THEN 0 ELSE 1)
      <4>1. streak \in Nat /\ streak <= StuckAfter - 1 /\ streak <= repeats + 1
        BY <1>3, <1>9, <1>10, <1>13 DEF Full
      <4>2. CASE c.op = last
        <5>1. now <= was /\ frames # 0
          BY <1>4, <1>5, <1>16, <4>2
        <5> QED
          BY <1>3, <1>5, <4>1, <5>1
      <4>3. CASE c.op # last
        <5>1. streak = 0
          BY <1>10, <1>11, <1>13, <4>3
        <5> QED
          BY <1>3, <1>4, <1>5, <1>16, <4>1, <4>3, <5>1
      <4> QED
        BY <4>2, <4>3
    <3> DEFINE first == IF frames = 0 THEN 0 ELSE 1
    <3>4. first \in Nat /\ frames >= spent + repeats + was + first /\ streak + now <= repeats + was + first
      BY <1>7, <3>3
    <3> HIDE DEF first
    <3>5. frames + 1 >= after + streak + later + 1
      BY <1>3, <1>5, <1>6, <3>1, <3>2, <3>3, <3>4
    <3> QED
      BY <1>3, <3>1, <3>3, <3>5
  <2> QED
    BY <2>1, <2>2, <2>3
<1>18. outcome' = "running" => stuckCount' < MaxStuck
  <2>1. outcome' = "running" => ~GaveUp(c)
    BY DEF Turn, Verdict
  <2>2. ~Stuck(c) /\ ~Oscillates(c) => stuckCount' = stuckCount
    BY <1>3, <1>11
  <2>3. Stuck(c) => ~Oscillates(c)
    BY <1>8, <1>9, <1>15
  <2>4. ~GaveUp(c) => stuckCount' < MaxStuck
    BY <1>3, <1>11, <1>17, <2>2, <2>3 DEF GaveUp, StuckTooOften, Detections
  <2> QED
    BY <2>1, <2>4
<1>19. FramesAreSpent'
  <2>1. frames' = frames + 1 /\ frames' # 0
    BY <1>2, <1>11
  <2>2. Len(recent') > 0 => recent'[Len(recent')] = last'
    <3>1. CASE Oscillates(c)
      BY <1>11, <3>1
    <3>2. CASE ~Oscillates(c)
      BY <1>4, <1>11, <3>2
    <3> QED
      BY <3>1, <3>2
  <2>3. frames' >= stuckCount' * ShortestWindow' + repeats' + Changes(recent)' + 1
    BY <1>17, <2>1 DEF later, after, streak
  <2> QED
    BY <1>18, <2>1, <2>2, <2>3 DEF FramesAreSpent
<1>20. ScenarioTypeOK'
  <2>1. applyCommand(scene, c) \in [at : Points, h : Sectors]
    BY <1>2, RobotStays
  <2>2. scene' \in [at : Points, h : Sectors] /\ checked' \in Points
    BY <1>2, <2>1 DEF Turn
  <2>3. recent' \in Seq(Ops) /\ Len(recent') <= 4
    BY <1>4, <1>11
  <2>4. outcome' \in {"running", "success", "failure", "partial"}
    BY DEF Turn, Verdict
  <2> QED
    BY <1>1, <1>2, <1>11, <1>17, <2>2, <2>3, <2>4, ScenarioAssumption DEF ScenarioTypeOK, streak
<1> QED
  BY <1>19, <1>20

LEMMA FrameStep == ScenarioInv /\ Frame => ScenarioInv'
<1> SUFFICES ASSUME ScenarioInv, Frame PROVE OutcomeIsRight' /\ AbortIsEarned'
  BY TurnSpends DEF ScenarioInv
<1>1. PICK c \in Moves : Turn(c)
  BY DEF Frame
<1>2. ScenarioTypeOK' /\ FramesAreSpent'
  BY TurnSpends
<1>3. GaveUp(c) => stuckCount' >= MaxStuck
  <2>1. stuckCount' = Detections(c) /\ stuckCount \in Int
    BY <1>1 DEF Turn, ScenarioInv, ScenarioTypeOK
  <2> QED
    BY <2>1, ScenarioAssumption DEF GaveUp, StuckTooOften, Detections
<1>4. /\ outcome' = "success" => Arrived(scene', c)
      /\ outcome' \in {"failure", "partial"} => GaveUp(c) \/ ~Arrived(scene', c)
      /\ outcome' = "failure" => GaveUp(c) \/ ~(frames' < MaxFrames)
  BY <1>1 DEF Turn, Verdict
<1>5. Arrived(scene', c) => 4 * Square(scene'.at, Target) <= 9 * (Threshold * Threshold)
  <2> DEFINE far == Square(scene'.at, Target)
             near == Threshold * Threshold
  <2>1. far \in Int /\ near \in Nat
    <3>1. scene'.at \in Points /\ Target \in Points /\ Threshold \in Nat
      BY <1>2, SceneAssumption DEF ScenarioTypeOK
    <3> QED
      BY <3>1 DEF Square, Points
  <2>2. Arrived(scene', c) => far <= near \/ 4 * far <= 9 * near
    BY DEF Arrived, GoalReached, TargetWithin, Believed
  <2> HIDE DEF far, near
  <2>3. Arrived(scene', c) => 4 * far <= 9 * near
    BY <2>1, <2>2
  <2> QED
    BY <2>3 DEF far, near
<1>6. OutcomeIsRight'
  BY <1>3, <1>4, <1>5 DEF OutcomeIsRight, Arrived, GoalReached, TargetWithin
<1>7. ASSUME stuckCount' >= MaxStuck PROVE frames' > MaxStuck * ShortestWindow
  <2>1. /\ stuckCount' \in Nat /\ frames' \in Nat /\ repeats' \in Nat /\ Changes(recent') \in Nat
        /\ frames' >= stuckCount' * ShortestWindow + repeats' + Changes(recent') + (IF frames' = 0 THEN 0 ELSE 1)
    BY <1>2, ChangesAre, ScenarioAssumption DEF ScenarioTypeOK, FramesAreSpent, ShortestWindow
  <2>2. frames' # 0
    <3>1. frames \in Nat /\ frames' = frames + 1
      BY <1>1 DEF ScenarioInv, ScenarioTypeOK, Turn
    <3> QED
      BY <3>1
  <2> DEFINE spent == stuckCount' * ShortestWindow
             least == MaxStuck * ShortestWindow
  <2>3. spent >= least /\ spent \in Nat /\ least \in Nat
    <3>1. \A a, b, k \in Nat : a >= b => a * k >= b * k /\ a * k \in Nat /\ b * k \in Nat
      BY ManyWindows
    <3>2. MaxStuck \in Nat /\ ShortestWindow \in Nat
      BY ShortestWindowIs, ScenarioAssumption
    <3> QED
      BY <1>7, <2>1, <3>1, <3>2
  <2> HIDE DEF spent, least
  <2>4. frames' > least
    BY <2>1, <2>2, <2>3 DEF spent
  <2> QED
    BY <2>4 DEF least
<1>8. AbortIsEarned'
  BY <1>3, <1>4, <1>7 DEF AbortIsEarned, ShortestWindow
<1> QED
  BY <1>6, <1>8

LEMMA ScenarioStep == ScenarioInv /\ [Frame]_scenarioVars => ScenarioInv'
<1>1. ScenarioInv /\ UNCHANGED scenarioVars => ScenarioInv'
  BY DEF scenarioVars, ScenarioInv, ScenarioTypeOK, FramesAreSpent, OutcomeIsRight, AbortIsEarned
<1> QED
  BY <1>1, FrameStep

\* A rotation the text recommended turns towards the target.
LEMMA RecommendedTurns ==
  ASSUME ScenarioInv, Frame, last' \in Rotations \cap Recommended(scene)
  PROVE  Magnitude(Relative(Bearing(scene.at, Target), scene'.h)) < Magnitude(Offset(scene))
<1>1. PICK c \in Moves : scene' = applyCommand(scene, c) /\ last' = c.op
  BY DEF Frame, Turn
<1>2. scene.h \in Sectors /\ Bearing(scene.at, Target) \in Sectors
  BY BearingIsSector, SceneAssumption DEF ScenarioInv, ScenarioTypeOK
<1>3. CASE last' = "ROTATE_CW"
  <2>1. scene'.h = Turned(scene.h, 1)
    BY <1>1, <1>3 DEF applyCommand, Turns, ScenarioInv, ScenarioTypeOK
  <2>2. Offset(scene) > 0
    BY <1>3 DEF Recommended
  <2> QED
    BY <1>2, <2>1, <2>2, RotationHelps DEF Offset
<1>4. CASE last' = "ROTATE_CCW"
  <2>1. scene'.h = Turned(scene.h, -1)
    BY <1>1, <1>4 DEF applyCommand, Turns, ScenarioInv, ScenarioTypeOK
  <2>2. Offset(scene) < 0
    BY <1>4 DEF Recommended
  <2> QED
    BY <1>2, <2>1, <2>2, RotationHelps DEF Offset
<1> QED
  BY <1>3, <1>4 DEF Rotations

\* A dreamt run is called a success only near the target, is given up for being
\* stuck or oscillating only after the frames its windows take, and the rotation
\* its text recommends turns the robot towards the target: for every target,
\* threshold, start and length of the windows.
THEOREM DreamtRunsAreFair == ScenarioSpec => ScenarioIsFair
<1>1. ScenarioInv /\ [Frame]_scenarioVars => [OutcomeIsRight' /\ AbortIsEarned']_scenarioVars
  BY ScenarioStep DEF ScenarioInv
<1>2. ScenarioInv /\ [Frame]_scenarioVars
        => [last' \in Rotations \cap Recommended(scene) =>
              Magnitude(Relative(Bearing(scene.at, Target), scene'.h)) < Magnitude(Offset(scene))]_scenarioVars
  BY RecommendedTurns, Zenon
<1> QED
  BY <1>1, <1>2, ScenarioStarts, ScenarioStep, PTL DEF ScenarioSpec, ScenarioIsFair, RotationFacesTarget
=============================================================================
