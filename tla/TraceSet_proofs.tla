--------------------------- MODULE TraceSet_proofs ---------------------------
(***************************************************************************)
(* The labels of a trace set lead to directives of all its particles,      *)
(* these have the same directives, and each weight is that of its own      *)
(* trace: for any labels, bounds and number of particles.                  *)
(***************************************************************************)
EXTENDS TraceSet, FiniteSetTheorems, TLAPS

(* The types of traces, models, loops and of the work of an instruction,   *)
(* given the set of the traces that these may hold.                        *)
Trace ==
  [evaluated : SUBSET Did, observed : SUBSET Did, pending : SUBSET Did, due : SUBSET Did]
Weight == SUBSET Did
Models(T) ==
  [backend : Backend, mode : Mode, traces : Seq(T), weights : Seq(Weight),
   labelToDid : [Label -> Did \cup {0}], didToLabel : [Did -> Label \cup {None}]]
Loops(T) ==
  [each : BOOLEAN, mode : Mode, at : Nat, self : Nat, originals : Seq(T),
   weights : Seq(Weight), done : Seq(T), doneWeights : Seq(Weight)]
Works(T) ==
  [model : Models(T), loop : Loops(T) \cup {None}, torn : SUBSET Did, failed : BOOLEAN]

(* The current trace of a loop is one of its originals, and may be one of  *)
(* the model's; each trace of a loop and, between the steps of an          *)
(* instruction that replaces them, of the model has its weight.            *)
Placed(m, l) ==
  l # None =>
    /\ l.at \in 1..Len(l.originals)
    /\ l.self \in 0..Len(m.traces)
    /\ Len(l.weights) = Len(l.originals)
    /\ Len(l.doneWeights) = Len(l.done)
Typed(x, T) == x \in Works(T) /\ Placed(x.model, x.loop)
Weighed(x) == Len(x.model.weights) = Len(x.model.traces)

(* A set of traces that tells them apart by their directives only.         *)
Closed(T) ==
  /\ T \subseteq Trace
  /\ \A t \in T, u \in Trace : u.evaluated = t.evaluated /\ u.observed = t.observed => u \in T

Same(x, y) ==
  /\ y.model.labelToDid = x.model.labelToDid
  /\ y.model.didToLabel = x.model.didToLabel

(* What only changes traces leaves alone.                                  *)
Redone(x, y, T) ==
  /\ Typed(y, T) /\ Same(x, y)
  /\ DOMAIN y.model.traces = DOMAIN x.model.traces
  /\ Len(y.model.traces) = Len(x.model.traces)
  /\ y.model.weights = x.model.weights
  /\ y.model.mode = x.model.mode
  /\ y.loop = x.loop
  /\ y.torn = x.torn

-----------------------------------------------------------------------------
LEMMA RedoneTrans ==
  ASSUME NEW T, NEW x, NEW y, NEW z, Redone(x, y, T), Redone(y, z, T)
  PROVE  Redone(x, z, T)
BY DEF Redone, Same

LEMMA RedoneRefl ==
  ASSUME NEW T, NEW x, Typed(x, T)
  PROVE  Redone(x, x, T)
BY DEF Redone, Same

LEMMA OnTyped ==
  ASSUME NEW T, NEW x, Typed(x, T), NEW some, NEW after,
         \A i \in some \cap DOMAIN x.model.traces : after[i] \in T
  PROVE  /\ Redone(x, On(x, some, after), T)
         /\ On(x, some, after).failed = x.failed
         /\ On(x, some, after).torn = x.torn
         /\ \A i \in DOMAIN x.model.traces :
              On(x, some, after).model.traces[i] = IF i \in some THEN after[i] ELSE x.model.traces[i]
<1> DEFINE ts == [i \in DOMAIN x.model.traces |-> IF i \in some THEN after[i] ELSE x.model.traces[i]]
           y == On(x, some, after)
<1>1. x.model \in Models(T) /\ x \in Works(T) /\ x.model.traces \in Seq(T)
  BY DEF Typed, Works, Models
<1>2. ts \in Seq(T) /\ Len(ts) = Len(x.model.traces)
  BY <1>1
<1>3. /\ DOMAIN ts = DOMAIN x.model.traces
      /\ \A i \in DOMAIN x.model.traces : ts[i] = IF i \in some THEN after[i] ELSE x.model.traces[i]
  OBVIOUS
<1>4. y = [x EXCEPT !.model = [x.model EXCEPT !.traces = ts]]
  BY <1>1 DEF On, Works, Models
<1> HIDE DEF ts
<1>5. [x.model EXCEPT !.traces = ts] \in Models(T)
  BY <1>1, <1>2 DEF Models
<1>6. y \in Works(T) /\ y.model.traces = ts /\ y.loop = x.loop
  BY <1>1, <1>4, <1>5 DEF Works, Models
<1>7. y.model = [x.model EXCEPT !.traces = ts] /\ y.failed = x.failed /\ y.torn = x.torn
  BY <1>1, <1>4, <1>5 DEF Works, Models
<1>8. /\ y.model.labelToDid = x.model.labelToDid
      /\ y.model.didToLabel = x.model.didToLabel
      /\ y.model.weights = x.model.weights
      /\ y.model.mode = x.model.mode
  BY <1>1, <1>7 DEF Models
<1>9. Placed(y.model, y.loop)
  BY <1>1, <1>2, <1>6 DEF Typed, Placed
<1> QED
  BY <1>2, <1>3, <1>6, <1>7, <1>8, <1>9 DEF Typed, Same, Redone

LEMMA TracesTyped ==
  ASSUME NEW T, NEW x, Typed(x, T)
  PROVE  /\ \A i \in Particles(x.model) : x.model.traces[i] \in T
         /\ Particles(x.model) = 1..Len(x.model.traces)
         /\ Len(x.model.traces) \in Nat
BY DEF Typed, Works, Models, Particles

LEMMA WeightsTyped ==
  ASSUME NEW T, NEW x, Typed(x, T), Weighed(x)
  PROVE  \A i \in Particles(x.model) : x.model.weights[i] \in Weight
<1>1. x.model.weights \in Seq(Weight) /\ x.model.traces \in Seq(T)
  BY DEF Typed, Works, Models
<1> QED
  BY <1>1 DEF Weighed, Particles

(* What leaves a trace its directives.                                     *)
Alikeness(t, u) == u \in Trace /\ u.evaluated = t.evaluated /\ u.observed = t.observed

LEMMA DirectivesKept ==
  ASSUME NEW t \in Trace
  PROVE  /\ Alikeness(t, Lose(t)) /\ Alikeness(t, Incorporated(t)) /\ Alikeness(t, Told(t))
         /\ \A w \in Weight : Alikeness(t, Accounting(t, w))
<1>1. Alikeness(t, Lose(t))
  BY DEF Lose, Trace, Alikeness
<1>2. Alikeness(t, Incorporated(t))
  BY DEF Incorporated, Trace, Alikeness
<1>3. Alikeness(t, Told(t))
  BY DEF Told, Trace, Alikeness
<1>4. ASSUME NEW w \in Weight
      PROVE  Alikeness(t, Accounting(t, w))
  <2>1. w \cup t.pending \in SUBSET Did
    BY DEF Weight, Trace
  <2> QED
    BY <2>1 DEF Accounting, Trace, Alikeness
<1> QED
  BY <1>1, <1>2, <1>3, <1>4

LEMMA TraceKept ==
  ASSUME NEW T, Closed(T), NEW t \in T
  PROVE  /\ Lose(t) \in T /\ Incorporated(t) \in T /\ Told(t) \in T
         /\ \A w \in Weight : Accounting(t, w) \in T
BY DirectivesKept DEF Closed, Alikeness

LEMMA DumpKept ==
  ASSUME NEW T, Closed(T), NEW x, Typed(x, T), NEW some
  PROVE  /\ Redone(x, dump(x, some), T) /\ dump(x, some).failed = x.failed
         /\ Redone(x, retrieve(x, some), T) /\ retrieve(x, some).failed = x.failed
<1>1. \A i \in some \cap DOMAIN x.model.traces : lose(x)[i] \in T
  BY TraceKept, TracesTyped DEF lose, Particles
<1>2. Redone(x, On(x, some, lose(x)), T) /\ On(x, some, lose(x)).failed = x.failed
  BY <1>1, OnTyped
<1> QED
  BY <1>2, RedoneRefl DEF dump, retrieve

LEMMA MapKept ==
  ASSUME NEW T, NEW x, Typed(x, T), NEW s, NEW after,
         \A i \in Ran(x.model, s) : after[i] \in T
  PROVE  /\ Redone(x, Map(x, s, after), T)
         /\ Map(x, s, after).failed = (s # {})
         /\ Map(x, s, after).torn = x.torn
         /\ \A i \in Particles(x.model) :
              Map(x, s, after).model.traces[i] = IF i \in Ran(x.model, s) THEN after[i] ELSE x.model.traces[i]
<1> DEFINE y == On(x, Ran(x.model, s), after)
           z == Map(x, s, after)
<1>1. /\ Redone(x, y, T) /\ y.failed = x.failed /\ y.torn = x.torn
      /\ \A i \in DOMAIN x.model.traces :
           y.model.traces[i] = IF i \in Ran(x.model, s) THEN after[i] ELSE x.model.traces[i]
  BY OnTyped
<1>2. y \in Works(T) /\ Placed(y.model, y.loop)
  BY <1>1 DEF Redone, Typed
<1>3. z = [y EXCEPT !.failed = (s # {})]
  BY DEF Map
<1> HIDE DEF y, z
<1>4. /\ z \in Works(T) /\ z.model = y.model /\ z.loop = y.loop
      /\ z.failed = (s # {}) /\ z.torn = y.torn
  <2>1. (s # {}) \in BOOLEAN
    OBVIOUS
  <2> QED
    BY <1>2, <1>3, <2>1 DEF Works
<1>5. Redone(x, z, T)
  BY <1>1, <1>2, <1>4 DEF Redone, Typed, Same
<1> QED
  BY <1>1, <1>4, <1>5 DEF z, Particles

-----------------------------------------------------------------------------
(* What ends with weights for all its traces.                              *)
Reworked(x, y, T) == Typed(y, T) /\ Same(x, y) /\ Weighed(y) /\ y.torn = x.torn

LEMMA ReworkedTrans ==
  ASSUME NEW T, NEW x, NEW y, NEW z, Reworked(x, y, T), Reworked(y, z, T)
  PROVE  Reworked(x, z, T)
BY DEF Reworked, Same

LEMMA RedoneReworked ==
  ASSUME NEW T, NEW x, NEW y, Weighed(x), Redone(x, y, T)
  PROVE  Reworked(x, y, T)
BY DEF Redone, Reworked, Weighed

WithWeights(x, w) == [x EXCEPT !.model.weights = w]

LEMMA WithWeightsTyped ==
  ASSUME NEW T, NEW x, Typed(x, T), NEW w \in Seq(Weight), Len(w) = Len(x.model.traces)
  PROVE  /\ Reworked(x, WithWeights(x, w), T)
         /\ WithWeights(x, w).model.traces = x.model.traces
         /\ WithWeights(x, w).model.weights = w
         /\ WithWeights(x, w).failed = x.failed
         /\ WithWeights(x, w).loop = x.loop
<1> DEFINE m == [x.model EXCEPT !.weights = w]
           y == WithWeights(x, w)
<1>1. x \in Works(T) /\ x.model \in Models(T)
  BY DEF Typed, Works
<1>2. m \in Models(T)
  BY <1>1 DEF Models
<1>3. /\ m.traces = x.model.traces /\ m.weights = w
      /\ m.labelToDid = x.model.labelToDid /\ m.didToLabel = x.model.didToLabel
  BY <1>1 DEF Models
<1>4. y = [x EXCEPT !.model = m]
  BY <1>1 DEF WithWeights, Works
<1> HIDE DEF m, y
<1>5. y \in Works(T) /\ y.model = m /\ y.loop = x.loop /\ y.failed = x.failed /\ y.torn = x.torn
  BY <1>1, <1>2, <1>4 DEF Works
<1>6. Placed(y.model, y.loop)
  BY <1>3, <1>5 DEF Typed, Placed
<1> QED
  BY <1>3, <1>5, <1>6 DEF Reworked, Typed, Same, Weighed, y

LEMMA IncorporateKept ==
  ASSUME NEW T, Closed(T), NEW x, Typed(x, T), Weighed(x), NEW s
  PROVE  /\ Reworked(x, incorporate(x, s), T)
         /\ incorporate(x, s).failed = (s # {})
         /\ incorporate(x, s).loop = x.loop
         /\ Len(incorporate(x, s).model.traces) = Len(x.model.traces)
         /\ s = {} => \A i \in Particles(x.model) :
              /\ incorporate(x, s).model.traces[i] = Incorporated(x.model.traces[i])
              /\ incorporate(x, s).model.weights[i] = x.model.weights[i] \cup x.model.traces[i].pending
<1>1. CASE s # {}
  <2>1. \A i \in Ran(x.model, s) : lose(x)[i] \in T
    BY TraceKept, TracesTyped DEF lose, Ran
  <2>2. Redone(x, Map(x, s, lose(x)), T) /\ Map(x, s, lose(x)).failed = (s # {})
    BY <2>1, MapKept
  <2>3. incorporate(x, s) = Map(x, s, lose(x))
    BY <1>1 DEF incorporate
  <2> QED
    BY <1>1, <2>2, <2>3 DEF Redone, Reworked, Weighed
<1>2. CASE s = {}
  <2> DEFINE m == x.model
             y == Map(x, s, [i \in Particles(m) |-> Incorporated(m.traces[i])])
             w == [i \in Particles(m) |-> m.weights[i] \cup m.traces[i].pending]
  <2>1. \A i \in Ran(x.model, s) : [j \in Particles(m) |-> Incorporated(m.traces[j])][i] \in T
    BY TraceKept, TracesTyped DEF Ran
  <2>2. /\ Redone(x, y, T) /\ y.failed = (s # {})
        /\ \A i \in Particles(m) : y.model.traces[i] = Incorporated(m.traces[i])
    <3>1. Ran(m, s) = Particles(m)
      BY <1>2 DEF Ran
    <3> QED
      BY <2>1, <3>1, MapKept
  <2>3. ASSUME NEW i \in Particles(m)
        PROVE  m.weights[i] \cup m.traces[i].pending \in Weight
    <3>1. m.traces[i] \in Trace
      BY TracesTyped DEF Closed
    <3>2. m.weights[i] \in Weight
      BY WeightsTyped
    <3> QED
      BY <3>1, <3>2 DEF Trace, Weight
  <2>4. w \in Seq(Weight) /\ Len(w) = Len(y.model.traces)
    <3>1. /\ Particles(m) = 1..Len(m.traces) /\ Len(m.traces) \in Nat
          /\ Len(y.model.traces) = Len(m.traces)
      BY <2>2, TracesTyped DEF Redone
    <3>2. PICK n \in Nat : n = Len(m.traces)
      BY <3>1
    <3>3. w = [i \in 1..n |-> m.weights[i] \cup m.traces[i].pending]
      BY <3>1, <3>2
    <3>4. \A i \in 1..n : m.weights[i] \cup m.traces[i].pending \in Weight
      BY <2>3, <3>1, <3>2
    <3> HIDE DEF w, m, y
    <3>5. w \in Seq(Weight) /\ Len(w) = n
      BY <3>3, <3>4
    <3> QED
      BY <3>1, <3>2, <3>5
  <2>5. incorporate(x, s) = WithWeights(y, w)
    BY <1>2 DEF incorporate, WithWeights
  <2>7. \A i \in Particles(m) : w[i] = m.weights[i] \cup m.traces[i].pending
    OBVIOUS
  <2> HIDE DEF y, w
  <2>6. /\ Reworked(y, incorporate(x, s), T)
        /\ incorporate(x, s).model.traces = y.model.traces
        /\ incorporate(x, s).model.weights = w
        /\ incorporate(x, s).failed = y.failed /\ incorporate(x, s).loop = y.loop
    <3>1. Typed(y, T)
      BY <2>2 DEF Redone
    <3> QED
      BY <2>4, <2>5, <3>1, WithWeightsTyped
  <2> QED
    BY <2>2, <2>6, <2>7 DEF Redone, Reworked, Same
<1> QED
  BY <1>1, <1>2

LEMMA ReweightedKept ==
  ASSUME NEW T, Closed(T), NEW x, Typed(x, T), NEW w,
         w \in Seq(Weight), Len(w) = Len(x.model.traces),
         NEW o \in Seq(Weight), Len(o) = Len(x.model.traces)
  PROVE  /\ Reworked(x, Reweighted(x, w, o), T)
         /\ Reweighted(x, w, o).failed = x.failed
         /\ Reweighted(x, w, o).loop = x.loop
         /\ Len(Reweighted(x, w, o).model.traces) = Len(x.model.traces)
         /\ Reweighted(x, w, o).model.weights = w
         /\ \A i \in Particles(x.model) :
              Reweighted(x, w, o).model.traces[i] = Accounting(x.model.traces[i], o[i])
<1> DEFINE after == [i \in DOMAIN x.model.traces |-> Accounting(x.model.traces[i], o[i])]
           y == WithWeights(x, w)
           z == On(y, DOMAIN x.model.traces, after)
           m == [x.model EXCEPT !.weights = w, !.traces = after]
<1>1. \A i \in DOMAIN x.model.traces : after[i] \in T
  <2>1. ASSUME NEW i \in DOMAIN x.model.traces
        PROVE  x.model.traces[i] \in T /\ o[i] \in Weight
    <3>1. i \in 1..Len(o)
      BY TracesTyped DEF Particles
    <3> QED
      BY <3>1, TracesTyped DEF Particles
  <2> QED
    BY <2>1, TraceKept
<1>2. /\ Reworked(x, y, T) /\ y.model.traces = x.model.traces /\ y.model.weights = w
      /\ y.failed = x.failed /\ y.loop = x.loop
  BY WithWeightsTyped
<1>3. /\ Redone(y, z, T) /\ z.failed = x.failed
      /\ \A i \in Particles(x.model) : z.model.traces[i] = after[i]
  <2>1. Typed(y, T)
    BY <1>2 DEF Reworked
  <2>2. \A i \in DOMAIN x.model.traces \cap DOMAIN y.model.traces : after[i] \in T
    BY <1>1
  <2> HIDE DEF y, after
  <2> QED
    BY <1>2, <2>1, <2>2, OnTyped DEF Particles
<1>4. x \in Works(T) /\ x.model \in Models(T)
  BY DEF Typed, Works
<1>5. Reweighted(x, w, o) = [x EXCEPT !.model = m]
  BY <1>4 DEF Reweighted, Works, Models
<1>6. z = [x EXCEPT !.model = m]
  <2>1. y = [x EXCEPT !.model = [x.model EXCEPT !.weights = w]]
    BY <1>4 DEF Works, WithWeights
  <2>2. [i \in DOMAIN y.model.traces |->
           IF i \in DOMAIN x.model.traces THEN after[i] ELSE y.model.traces[i]] = after
    BY <1>2
  <2>3. z = [y EXCEPT !.model = [y.model EXCEPT !.traces = after]]
    BY <1>2, <1>4, <2>1, <2>2 DEF On, Works, Models
  <2> HIDE DEF z, after
  <2> QED
    BY <1>4, <2>1, <2>3 DEF Works, Models
<1>7. \A i \in Particles(x.model) : after[i] = Accounting(x.model.traces[i], o[i])
  BY DEF Particles
<1> HIDE DEF z, y, after
<1>8. Reweighted(x, w, o) = z
  BY <1>5, <1>6
<1> QED
  BY <1>2, <1>3, <1>7, <1>8 DEF Redone, Reworked, Same, Weighed

-----------------------------------------------------------------------------
(* The loop of Placed, when there is one.                                  *)
Looping(l, T) ==
  /\ l \in Loops(T)
  /\ l.at \in 1..Len(l.originals)
  /\ Len(l.weights) = Len(l.originals)
  /\ Len(l.doneWeights) = Len(l.done)

(* What a loop is when the original of its turn is as it is by now.        *)
Following(x, k) ==
  LET l == x.loop IN
  /\ k.at = l.at /\ k.self = l.self /\ k.weights = l.weights
  /\ k.done = l.done /\ k.doneWeights = l.doneWeights /\ Len(k.originals) = Len(l.originals)
  /\ \A i \in 1..Len(l.originals) :
       k.originals[i] = IF i = l.at /\ l.self # 0 THEN x.model.traces[l.self] ELSE l.originals[i]

LEMMA SyncedKept ==
  ASSUME NEW T, NEW x, Typed(x, T)
  PROVE  /\ Typed(Synced(x), T)
         /\ Synced(x).model = x.model
         /\ Synced(x).failed = x.failed
         /\ Synced(x).torn = x.torn
         /\ x.loop = None => Synced(x).loop = None
         /\ x.loop # None => Looping(Synced(x).loop, T) /\ Following(x, Synced(x).loop)
<1>1. CASE x.loop = None \/ x.loop.self = 0
  <2>1. x.loop # None => Looping(x.loop, T) /\ Following(x, x.loop)
    BY <1>1 DEF Typed, Works, Placed, Looping, Following
  <2> QED
    BY <1>1, <2>1 DEF Synced
<1>2. CASE x.loop # None /\ x.loop.self # 0
  <2> DEFINE l == x.loop
             t == x.model.traces[x.loop.self]
             os == [l.originals EXCEPT ![l.at] = t]
             k == [l EXCEPT !.originals = os]
             y == Synced(x)
  <2>1. x \in Works(T) /\ l \in Loops(T)
    BY <1>2 DEF Typed, Works
  <2>2. t \in T
    <3>1. x.loop.self \in 1..Len(x.model.traces)
      BY <1>2, <2>1, TracesTyped DEF Typed, Placed, Loops
    <3> QED
      BY <3>1, TracesTyped
  <2>3. /\ os \in Seq(T) /\ Len(os) = Len(l.originals)
        /\ \A i \in 1..Len(l.originals) : os[i] = IF i = l.at THEN t ELSE l.originals[i]
    <3>1. l.originals \in Seq(T)
      BY <2>1 DEF Loops
    <3>2. os = [i \in 1..Len(l.originals) |-> IF i = l.at THEN t ELSE l.originals[i]]
      BY <3>1
    <3> HIDE DEF os, t
    <3> QED
      BY <2>2, <3>1, <3>2
  <2>4. y = [x EXCEPT !.loop = k]
    <3>1. y = [x EXCEPT !.loop.originals[l.at] = t]
      BY <1>2 DEF Synced
    <3> HIDE DEF t, y
    <3>2. "loop" \in DOMAIN x /\ "originals" \in DOMAIN l
      BY <2>1 DEF Works, Loops
    <3> QED
      BY <3>1, <3>2
  <2> HIDE DEF t, os, y
  <2>5. /\ k \in Loops(T) /\ k.originals = os /\ k.at = l.at /\ k.self = l.self
        /\ k.weights = l.weights /\ k.done = l.done /\ k.doneWeights = l.doneWeights
    BY <2>1, <2>3 DEF Loops
  <2> HIDE DEF k
  <2>6. /\ y \in Works(T) /\ y.model = x.model /\ y.loop = k
        /\ y.failed = x.failed /\ y.torn = x.torn
    BY <2>1, <2>4, <2>5 DEF Works
  <2>7. Placed(y.model, y.loop)
    BY <1>2, <2>3, <2>5, <2>6 DEF Typed, Placed
  <2>8. Looping(k, T)
    BY <1>2, <2>1, <2>3, <2>5 DEF Typed, Placed, Looping
  <2>9. Following(x, k)
    BY <1>2, <2>3, <2>5 DEF Following, t
  <2> QED
    BY <1>2, <2>6, <2>7, <2>8, <2>9 DEF Typed, y
<1> QED
  BY <1>1, <1>2

(* A pool of traces of these parents, with the loop that is under way.     *)
Pooled(x, r, n, parents) ==
  /\ \A p \in 1..n : r.model.traces[p] = x.model.traces[parents[p]]
  /\ \E self \in 0..n :
       /\ self # 0 => parents[self] = x.loop.self
       /\ r.loop = IF x.loop = None THEN None ELSE [Synced(x).loop EXCEPT !.self = self]

LEMMA PoolKept ==
  ASSUME NEW T, NEW x, Typed(x, T), NEW n \in Nat, NEW parents \in [1..n -> Particles(x.model)],
         NEW kept \in SUBSET (1..n), NEW w \in Seq(Weight)
  PROVE  /\ Typed(create_trace_pool(x, parents, kept, w), T)
         /\ Same(x, create_trace_pool(x, parents, kept, w))
         /\ create_trace_pool(x, parents, kept, w).model.weights = w
         /\ Len(create_trace_pool(x, parents, kept, w).model.traces) = n
         /\ create_trace_pool(x, parents, kept, w).failed = x.failed
         /\ create_trace_pool(x, parents, kept, w).torn = x.torn
         /\ Pooled(x, create_trace_pool(x, parents, kept, w), n, parents)
<1> DEFINE y == Synced(x)
           selves == {p \in kept : x.loop # None /\ parents[p] = x.loop.self}
           self == IF selves = {} THEN 0 ELSE CHOOSE p \in selves : TRUE
           z == IF x.loop = None THEN y ELSE [y EXCEPT !.loop.self = self]
           ts == [p \in 1..n |-> x.model.traces[parents[p]]]
           m == [x.model EXCEPT !.traces = ts, !.weights = w]
           r == create_trace_pool(x, parents, kept, w)
<1>1. /\ Typed(y, T) /\ y.model = x.model /\ y.failed = x.failed /\ y.torn = x.torn
      /\ x.loop = None => y.loop = None
      /\ x.loop # None => Looping(y.loop, T)
  BY SyncedKept
<1>2. self \in 0..n /\ (self # 0 => parents[self] = x.loop.self)
  <2>1. CASE selves = {}
    BY <2>1
  <2>2. CASE selves # {}
    <3>1. self \in selves
      BY <2>2
    <3>2. selves \subseteq 1..n /\ \A p \in selves : parents[p] = x.loop.self
      OBVIOUS
    <3> HIDE DEF self, selves
    <3> QED
      BY <3>1, <3>2
  <2> QED
    BY <2>1, <2>2
<1>3. r = [z EXCEPT !.model.traces = ts, !.model.weights = w]
  <2>1. DOMAIN parents = 1..n
    OBVIOUS
  <2> QED
    BY <2>1 DEF create_trace_pool
<1>0. y = Synced(x)
  OBVIOUS
<1> HIDE DEF y, selves, self, r
<1>9. \A p \in 1..n : ts[p] = x.model.traces[parents[p]]
  OBVIOUS
<1>4. ts \in Seq(T) /\ Len(ts) = n
  <2>1. \A p \in 1..n : x.model.traces[parents[p]] \in T
    BY TracesTyped
  <2> QED
    BY <2>1
<1>5. x \in Works(T) /\ x.model \in Models(T) /\ y \in Works(T)
  BY <1>1 DEF Typed, Works
<1> HIDE DEF ts
<1>6. /\ m \in Models(T) /\ m.traces = ts /\ m.weights = w
      /\ m.labelToDid = x.model.labelToDid /\ m.didToLabel = x.model.didToLabel
  BY <1>4, <1>5 DEF Models
<1>7. CASE x.loop = None
  <2>1. z = y
    BY <1>7
  <2>2. r = [y EXCEPT !.model = m]
    BY <1>1, <1>3, <1>5, <2>1 DEF Works, Models
  <2> HIDE DEF m
  <2>3. r \in Works(T) /\ r.model = m /\ r.loop = y.loop /\ r.failed = x.failed /\ r.torn = x.torn
    BY <1>1, <1>5, <1>6, <2>2 DEF Works
  <2>4. Typed(r, T)
    BY <1>1, <1>4, <1>6, <1>7, <2>3 DEF Typed, Placed
  <2> QED
    BY <1>1, <1>2, <1>4, <1>6, <1>7, <1>9, <2>3, <2>4 DEF Same, Pooled, r
<1>8. CASE x.loop # None
  <2> DEFINE k == [y.loop EXCEPT !.self = self]
  <2>1. y.loop \in Loops(T)
    BY <1>1, <1>8 DEF Looping
  <2>2. /\ k \in Loops(T) /\ k.self = self /\ k.at = y.loop.at /\ k.originals = y.loop.originals
        /\ k.weights = y.loop.weights /\ k.done = y.loop.done /\ k.doneWeights = y.loop.doneWeights
    <3>1. self \in Nat
      BY <1>2
    <3> QED
      BY <2>1, <3>1 DEF Loops
  <2>3. r = [y EXCEPT !.model = m, !.loop = k]
    <3>1. z = [y EXCEPT !.loop = k]
      BY <1>5, <1>8 DEF Works
    <3> HIDE DEF k, z
    <3> QED
      BY <1>1, <1>3, <1>5, <3>1 DEF Works, Models
  <2> HIDE DEF k, m
  <2>4. r \in Works(T) /\ r.model = m /\ r.loop = k /\ r.failed = x.failed /\ r.torn = x.torn
    BY <1>1, <1>5, <1>6, <2>2, <2>3 DEF Works
  <2>5. Placed(m, k)
    BY <1>1, <1>2, <1>4, <1>6, <1>8, <2>2 DEF Placed, Looping
  <2>6. Typed(r, T)
    BY <2>4, <2>5 DEF Typed
  <2>7. r.loop = [Synced(x).loop EXCEPT !.self = self]
    BY <1>0, <2>4 DEF k
  <2> QED
    BY <1>1, <1>2, <1>4, <1>6, <1>8, <1>9, <2>4, <2>6, <2>7 DEF Same, Pooled, r
<1> QED
  BY <1>7, <1>8

LEMMA EvenTyped ==
  ASSUME NEW w
  PROVE  Even(w) \in Weight
BY DEF Even, Weight

(* What a trace has counted is a weight, too.                              *)
LEMMA CountedTyped ==
  ASSUME NEW T, Closed(T), NEW x, Typed(x, T)
  PROVE  \A i \in Particles(x.model) : Counted(x.model)[i] \in Weight
<1>1. \A t \in Trace : t.due \ t.pending \in Weight
  BY DEF Trace, Weight
<1> QED
  BY <1>1, TracesTyped DEF Counted, Closed

LEMMA UseParentKept ==
  ASSUME NEW T, Closed(T), NEW x, Typed(x, T), NEW parents
  PROVE  Redone(x, _use_parent(x, parents), T) /\ _use_parent(x, parents).failed = x.failed
<1> DEFINE copied == {i \in Range(parents) : Cardinality(Uses(parents, i)) > 1}
           y == retrieve(x, Range(parents))
<1>1. Redone(x, y, T) /\ y.failed = x.failed
  BY DumpKept
<1>2. Redone(y, dump(y, copied), T) /\ dump(y, copied).failed = y.failed
  <2>1. Typed(y, T)
    BY <1>1 DEF Redone
  <2> HIDE DEF y, copied
  <2> QED
    BY <2>1, DumpKept
<1>3. _use_parent(x, parents) = IF x.model.backend = "lite" THEN dump(y, copied) ELSE y
  BY DEF _use_parent
<1> HIDE DEF y, copied
<1>4. Redone(x, dump(y, copied), T)
  BY <1>1, <1>2, RedoneTrans
<1> QED
  BY <1>1, <1>2, <1>3, <1>4

LEMMA ResampleKept ==
  ASSUME NEW T, Closed(T), NEW x, Typed(x, T), Weighed(x), NEW n \in Nat,
         NEW parents \in [1..n -> Particles(x.model)], NEW mode \in Mode, NEW s
  PROVE  /\ Reworked(x, resample(x, parents, mode, s), T)
         /\ resample(x, parents, mode, s).failed = (s # {})
         /\ Len(resample(x, parents, mode, s).model.traces) = n
         /\ x.loop = None => resample(x, parents, mode, s).loop = None
<1> DEFINE kept == IF mode = "multiprocess" THEN {}
                   ELSE {p \in DOMAIN parents : p = First(Uses(parents, parents[p]))}
           even == [p \in DOMAIN parents |-> Even(x.model.weights)]
           owed == [p \in DOMAIN parents |-> Even(Counted(x.model))]
           u == _use_parent(x, parents)
           y == create_trace_pool(u, parents, kept, even)
           z == [y EXCEPT !.model.mode = mode]
           r == Reweighted(z, even, owed)
<1>1. resample(x, parents, mode, s) = incorporate(r, s)
  BY DEF resample
<1>2. kept \in SUBSET (1..n)
  OBVIOUS
<1>3. even \in Seq(Weight) /\ Len(even) = n /\ owed \in Seq(Weight) /\ Len(owed) = n
  <2>1. /\ even = [p \in 1..n |-> Even(x.model.weights)]
        /\ owed = [p \in 1..n |-> Even(Counted(x.model))]
    OBVIOUS
  <2> QED
    BY <2>1, EvenTyped
<1>4. Redone(x, u, T) /\ u.failed = x.failed
  BY UseParentKept
<1>5. Typed(u, T) /\ parents \in [1..n -> Particles(u.model)]
  BY <1>4 DEF Redone, Particles
<1> HIDE DEF kept, even, owed, u
<1>6. /\ Typed(y, T) /\ Same(u, y) /\ y.model.weights = even
      /\ Len(y.model.traces) = n /\ y.failed = u.failed /\ y.torn = u.torn
      /\ Pooled(u, y, n, parents)
  BY <1>2, <1>3, <1>5, PoolKept
<1> HIDE DEF y
<1>7. /\ Typed(z, T) /\ Same(y, z) /\ z.model.traces = y.model.traces /\ z.failed = y.failed
      /\ z.torn = y.torn /\ z.loop = y.loop
  <2> DEFINE m == [y.model EXCEPT !.mode = mode]
  <2>1. y \in Works(T) /\ y.model \in Models(T)
    BY <1>6 DEF Typed, Works
  <2>2. /\ m \in Models(T) /\ m.traces = y.model.traces
        /\ m.labelToDid = y.model.labelToDid /\ m.didToLabel = y.model.didToLabel
    BY <2>1 DEF Models
  <2>3. z = [y EXCEPT !.model = m]
    BY <2>1 DEF Works, Models
  <2> HIDE DEF m, z
  <2>4. z \in Works(T) /\ z.model = m /\ z.loop = y.loop /\ z.failed = y.failed /\ z.torn = y.torn
    BY <2>1, <2>2, <2>3 DEF Works
  <2> QED
    BY <1>6, <2>2, <2>4 DEF Typed, Placed, Same
<1> HIDE DEF z
<1>8. Reworked(z, r, T) /\ Len(r.model.traces) = n /\ r.loop = z.loop
  BY <1>3, <1>6, <1>7, ReweightedKept
<1> HIDE DEF r
<1>9. /\ Reworked(r, incorporate(r, s), T) /\ incorporate(r, s).failed = (s # {})
      /\ Len(incorporate(r, s).model.traces) = n /\ incorporate(r, s).loop = r.loop
  BY <1>8, IncorporateKept DEF Reworked
<1>10. x.loop = None => y.loop = None
  BY <1>4, <1>6 DEF Redone, Pooled
<1> QED
  BY <1>1, <1>4, <1>6, <1>7, <1>8, <1>9, <1>10 DEF Redone, Reworked, Same

-----------------------------------------------------------------------------
(* The state that an instruction leaves is as its work was.                *)
Left == [model |-> model', loop |-> loop', torn |-> torn', failed |-> FALSE]

LEMMA FinishKept ==
  ASSUME NEW T, Closed(T), NEW x, Typed(x, T), Weighed(x), Finish(x)
  PROVE  Reworked(x, Left, T)
<1> DEFINE y == Synced(x)
           l == y.loop
           ts == [i \in DOMAIN l.originals |-> Accounting(l.originals[i], l.weights[i])]
           m == [x.model EXCEPT !.mode = l.mode, !.weights = l.weights, !.traces = ts]
<1>1. /\ Typed(y, T) /\ y.model = x.model /\ y.torn = x.torn
      /\ x.loop = None => y.loop = None
      /\ x.loop # None => Looping(y.loop, T)
  BY SyncedKept
<1>2. /\ x \in Works(T) /\ x.model \in Models(T) /\ x.torn \in SUBSET Did
      /\ y \in Works(T) /\ y.loop \in Loops(T) \cup {None}
  BY <1>1 DEF Typed, Works
<1>3. CASE ~x.failed
  <2>1. model' = x.model /\ loop' = y.loop /\ torn' = x.torn
    BY <1>3 DEF Finish
  <2> HIDE DEF y
  <2> QED
    BY <1>1, <1>2, <2>1 DEF Left, Reworked, Typed, Works, Same, Weighed
<1>4. CASE x.failed
  <2>1. model' = Unwound(y) /\ loop' = None /\ torn' = x.torn
    BY <1>4 DEF Finish
  <2>2. CASE y.loop = None
    <3>1. model' = x.model
      BY <1>1, <2>1, <2>2 DEF Unwound
    <3> QED
      BY <1>2, <2>1, <3>1 DEF Left, Reworked, Typed, Placed, Works, Same, Weighed
  <2>3. CASE y.loop # None
    <3>1. model' = m
      BY <1>1, <2>1, <2>3 DEF Unwound
    <3>2. l \in Loops(T) /\ Len(l.weights) = Len(l.originals)
      BY <1>1, <2>3 DEF Looping
    <3>3. ts \in Seq(T) /\ Len(ts) = Len(l.originals)
      <4>1. l.originals \in Seq(T) /\ l.weights \in Seq(Weight)
        BY <3>2 DEF Loops
      <4>2. PICK n \in Nat : n = Len(l.originals)
        BY <4>1
      <4>3. \A i \in 1..n : Accounting(l.originals[i], l.weights[i]) \in T
        <5>1. \A i \in 1..n : l.originals[i] \in T /\ l.weights[i] \in Weight
          BY <3>2, <4>1, <4>2
        <5> QED
          BY <5>1, TraceKept
      <4>4. ts = [i \in 1..n |-> Accounting(l.originals[i], l.weights[i])]
        BY <4>1, <4>2
      <4> HIDE DEF ts, l
      <4> QED
        BY <4>2, <4>3, <4>4
    <3> HIDE DEF ts, l
    <3>4. /\ m \in Models(T) /\ m.traces = ts /\ m.weights = l.weights
          /\ m.labelToDid = x.model.labelToDid /\ m.didToLabel = x.model.didToLabel
      BY <1>2, <3>2, <3>3 DEF Models, Loops
    <3> HIDE DEF m
    <3> QED
      BY <1>2, <2>1, <3>1, <3>2, <3>3, <3>4 DEF Left, Reworked, Typed, Placed, Works, Same, Weighed
  <2> QED
    BY <2>2, <2>3
<1> QED
  BY <1>3, <1>4

-----------------------------------------------------------------------------
(* The steps that only change, copy, reorder or replace traces keep        *)
(* directives as they are: they keep any closed set of traces.             *)
Holds(T)  == Closed(T) /\ Typed(Start, T) /\ Weighed(Start)
Leaves(T) == Reworked(Start, Left, T)

LEMMA StartModel ==
  /\ Start.model = model /\ Start.loop = loop /\ Start.torn = torn /\ ~Start.failed
BY DEF Start

LEMMA FinishLeaves ==
  ASSUME NEW T, Closed(T), NEW x, Reworked(Start, x, T), Finish(x)
  PROVE  Leaves(T)
<1>1. Reworked(x, Left, T)
  BY FinishKept DEF Reworked
<1> QED
  BY <1>1, ReworkedTrans DEF Leaves

LEMMA IncorporateLeaves ==
  ASSUME NEW T, Holds(T), NEW r, Incorporate(r)
  PROVE  Leaves(T)
<1>1. Reworked(Start, incorporate(Start, r), T)
  BY IncorporateKept DEF Holds
<1> QED
  BY <1>1, FinishLeaves DEF Incorporate, Holds

LEMMA LikelihoodWeightLeaves ==
  ASSUME NEW T, Holds(T), LikelihoodWeight
  PROVE  Leaves(T)
<1> DEFINE w == [i \in Particles(model) |-> model.traces[i].observed \ model.traces[i].pending]
<1>1. Finish(Reweighted(Start, w, w))
  BY DEF LikelihoodWeight
<1>2. PICK n \in Nat : n = Len(model.traces) /\ Particles(model) = 1..n
  BY StartModel, TracesTyped DEF Holds
<1>3. \A i \in 1..n : model.traces[i].observed \ model.traces[i].pending \in Weight
  <2>1. \A i \in 1..n : model.traces[i] \in Trace
    BY <1>2, StartModel, TracesTyped DEF Holds, Closed
  <2> QED
    BY <2>1 DEF Trace, Weight
<1>4. w = [i \in 1..n |-> model.traces[i].observed \ model.traces[i].pending]
  BY <1>2
<1> HIDE DEF w
<1>5. w \in Seq(Weight) /\ Len(w) = n
  BY <1>3, <1>4
<1>6. Reworked(Start, Reweighted(Start, w, w), T)
  BY <1>2, <1>5, StartModel, ReweightedKept DEF Holds
<1> QED
  BY <1>1, <1>6, FinishLeaves DEF Holds

LEMMA EqualizeLeaves ==
  ASSUME NEW T, Holds(T), Equalize
  PROVE  Leaves(T)
<1> DEFINE w == [i \in Particles(model) |-> Even(model.weights)]
           o == [i \in Particles(model) |-> Even(Counted(model))]
<1>1. Finish(Reweighted(Start, w, o))
  BY DEF Equalize
<1>2. PICK n \in Nat : n = Len(model.traces) /\ Particles(model) = 1..n
  BY StartModel, TracesTyped DEF Holds
<1>3. w = [i \in 1..n |-> Even(model.weights)] /\ o = [i \in 1..n |-> Even(Counted(model))]
  BY <1>2
<1> HIDE DEF w, o
<1>4. w \in Seq(Weight) /\ Len(w) = n /\ o \in Seq(Weight) /\ Len(o) = n
  BY <1>3, EvenTyped
<1>5. Reworked(Start, Reweighted(Start, w, o), T)
  BY <1>2, <1>4, StartModel, ReweightedKept DEF Holds
<1> QED
  BY <1>1, <1>5, FinishLeaves DEF Holds

LEMMA ResampleLeaves ==
  ASSUME NEW T, Holds(T), NEW n \in Nat, NEW parents \in [1..n -> Particles(model)],
         NEW mode \in Mode, NEW s, Resample(parents, mode, s)
  PROVE  Leaves(T)
<1>1. Reworked(Start, resample(Start, parents, mode, s), T)
  BY StartModel, ResampleKept DEF Holds
<1> QED
  BY <1>1, FinishLeaves DEF Resample, Holds

LEMMA ReinitLeaves ==
  ASSUME NEW T, Holds(T), NEW n \in Nat, NEW parents \in [1..n -> Particles(model)], Reinit(parents)
  PROVE  Leaves(T)
<1> DEFINE x == resample(Start, parents, "sequential", {})
           after == [p \in DOMAIN parents |-> Told(x.model.traces[p])]
           y == On(x, DOMAIN parents, after)
           w == [p \in DOMAIN parents |-> {}]
<1>1. Finish(Reweighted(y, w, w)) /\ Closed(T)
  BY DEF Reinit, Holds
<1>2. Reworked(Start, x, T) /\ Len(x.model.traces) = n
  BY StartModel, ResampleKept DEF Mode, Holds
<1> HIDE DEF x
<1>3. Redone(x, y, T)
  <2>1. \A i \in DOMAIN parents \cap DOMAIN x.model.traces : after[i] \in T
    BY <1>1, <1>2, TraceKept, TracesTyped DEF Particles, Reworked
  <2> HIDE DEF after
  <2> QED
    BY <1>2, <2>1, OnTyped DEF Reworked
<1>4. Reworked(x, y, T) /\ Len(y.model.traces) = n
  BY <1>2, <1>3, RedoneReworked DEF Redone, Reworked
<1>5. w \in Seq(Weight) /\ Len(w) = n
  <2>1. w = [p \in 1..n |-> {}]
    OBVIOUS
  <2>2. {} \in Weight
    BY DEF Weight
  <2> QED
    BY <2>1, <2>2
<1> HIDE DEF y, w
<1>6. Reworked(y, Reweighted(y, w, w), T)
  BY <1>1, <1>4, <1>5, ReweightedKept DEF Reworked
<1>7. Reworked(Start, Reweighted(y, w, w), T)
  BY <1>2, <1>4, <1>6, ReworkedTrans
<1> QED
  BY <1>1, <1>7, FinishLeaves

LEMMA RetrieveKept ==
  ASSUME NEW T, Holds(T)
  PROVE  /\ Reworked(Start, retrieve_traces(Start), T)
         /\ Particles(retrieve_traces(Start).model) = Particles(model)
         /\ retrieve_traces(Start).loop = loop
<1>1. Redone(Start, retrieve_traces(Start), T)
  BY DumpKept DEF retrieve_traces, Holds
<1> QED
  BY <1>1, RedoneReworked, StartModel DEF Holds, Redone, Particles

LEMMA DumpReworked ==
  ASSUME NEW T, Closed(T), NEW x, Typed(x, T), Weighed(x), NEW some
  PROVE  Reworked(x, dump(x, some), T) /\ Particles(dump(x, some).model) = Particles(x.model)
<1>1. Redone(x, dump(x, some), T)
  BY DumpKept
<1> QED
  BY <1>1, RedoneReworked DEF Redone, Particles

LEMMA DiversifyLeaves ==
  ASSUME NEW T, Holds(T), NEW parents \in Diversified, NEW still, Diversify(parents, still)
  PROVE  Leaves(T)
<1> DEFINE kept == {p \in DOMAIN parents : parents[p] \in still}
           u == retrieve_traces(Start)
           x == dump(u, Particles(model) \ still)
           w == [p \in DOMAIN parents |-> model.weights[parents[p]]]
           y == create_trace_pool(x, parents, kept, w)
<1>1. Finish(y) /\ Closed(T)
  BY DEF Diversify, Holds
<1>2. PICK n \in Nat : parents \in [1..n -> Particles(model)]
  BY BoundsAssumption DEF Diversified
<1>3. Reworked(Start, u, T) /\ Particles(u.model) = Particles(model)
  BY RetrieveKept
<1>4. Reworked(u, x, T) /\ Particles(x.model) = Particles(model)
  <2> HIDE DEF u
  <2> QED
    BY <1>1, <1>3, DumpReworked DEF Reworked
<1> HIDE DEF u
<1>5. kept \in SUBSET (1..n)
  BY <1>2
<1>6. w \in Seq(Weight) /\ Len(w) = n
  <2>1. \A i \in Particles(model) : model.weights[i] \in Weight
    BY StartModel, WeightsTyped DEF Holds
  <2>2. \A p \in 1..n : model.weights[parents[p]] \in Weight
    BY <1>2, <2>1
  <2>3. w = [p \in 1..n |-> model.weights[parents[p]]]
    BY <1>2
  <2> HIDE DEF w
  <2> QED
    BY <2>2, <2>3
<1> HIDE DEF x, kept, w
<1>7. parents \in [1..n -> Particles(x.model)]
  BY <1>2, <1>4
<1>8. Reworked(x, y, T)
  BY <1>4, <1>5, <1>6, <1>7, PoolKept DEF Reworked, Weighed
<1> HIDE DEF y
<1>9. Reworked(Start, y, T)
  BY <1>3, <1>4, <1>8, ReworkedTrans
<1> QED
  BY <1>1, <1>9, FinishLeaves

LEMMA NoWeights ==
  \E none \in Seq(Weight) : none = <<>>
<1>1. <<>> \in Seq(Weight)
  OBVIOUS
<1> QED
  BY <1>1

LEMMA CollapseLeaves ==
  ASSUME NEW T, Holds(T), NEW group \in Groupings, NEW keepers \in Keepers(group),
         NEW map \in BOOLEAN, Collapse(group, keepers, map)
  PROVE  Leaves(T)
<1> DEFINE total(i) == IF map THEN model.weights[i]
                       ELSE Even([k \in {k \in DOMAIN group : group[k] = group[i]} |-> model.weights[k]])
           x == retrieve_traces(Start)
           y == IF model.backend = "lite" THEN dump(x, Range(keepers)) ELSE x
           u == create_trace_pool(y, keepers, {}, <<>>)
           z == dump(u, DOMAIN keepers)
           w == [j \in DOMAIN keepers |-> total(keepers[j])]
           shared(j, d) == \A k \in DOMAIN group :
                             group[k] = group[keepers[j]] => d \in Counted(model)[k]
           owed(j) == {d \in Counted(z.model)[j] : map \/ shared(j, d)}
           o == [j \in DOMAIN keepers |-> owed(j)]
<1>1. Finish(Reweighted(z, w, o)) /\ Closed(T)
  BY DEF Collapse, Holds
<1>2. PICK n \in Nat : keepers \in [1..n -> Particles(model)]
  <2>1. IsFiniteSet(Range(group))
    <3>1. PICK k \in Nat : Particles(model) = 1..k
      BY StartModel, TracesTyped DEF Holds
    <3>2. Range(group) \subseteq 1..k
      BY <3>1 DEF Groupings, Range
    <3>3. IsFiniteSet(1..k)
      BY FS_Interval
    <3> QED
      BY <3>2, <3>3, FS_Subset
  <2>2. Cardinality(Range(group)) \in Nat
    BY <2>1, FS_CardinalityType
  <2> QED
    BY <2>2 DEF Keepers
<1>3. Reworked(Start, x, T) /\ Particles(x.model) = Particles(model)
  BY RetrieveKept
<1> HIDE DEF x
<1>4. Reworked(Start, y, T) /\ Particles(y.model) = Particles(model)
  <2>1. Reworked(x, dump(x, Range(keepers)), T) /\ Particles(dump(x, Range(keepers)).model) = Particles(x.model)
    BY <1>1, <1>3, DumpReworked DEF Reworked
  <2>2. Reworked(Start, dump(x, Range(keepers)), T)
    BY <1>3, <2>1, ReworkedTrans
  <2> QED
    BY <1>3, <2>1, <2>2
<1>5. w \in Seq(Weight) /\ Len(w) = n
  <2>1. \A i \in Particles(model) : model.weights[i] \in Weight
    BY StartModel, WeightsTyped DEF Holds
  <2>2. \A i \in Particles(model) : total(i) \in Weight
    BY <2>1, EvenTyped
  <2> HIDE DEF total
  <2>3. \A j \in 1..n : total(keepers[j]) \in Weight
    BY <1>2, <2>2
  <2>4. w = [j \in 1..n |-> total(keepers[j])]
    BY <1>2
  <2> HIDE DEF w
  <2> QED
    BY <2>3, <2>4
<1> HIDE DEF y, w, shared
<1>6. Typed(u, T) /\ Same(y, u) /\ Len(u.model.traces) = n /\ u.torn = y.torn
  <2>1. PICK none \in Seq(Weight) : none = <<>>
    BY NoWeights
  <2>2. PICK kept \in SUBSET (1..n) : kept = {}
    OBVIOUS
  <2>3. u = create_trace_pool(y, keepers, kept, none)
    BY <2>1, <2>2
  <2>4. keepers \in [1..n -> Particles(y.model)]
    BY <1>2, <1>4
  <2> HIDE DEF u
  <2> QED
    BY <1>4, <2>3, <2>4, PoolKept DEF Reworked
<1> HIDE DEF u
<1>7. Redone(u, z, T)
  BY <1>1, <1>6, DumpKept
<1> HIDE DEF z
<1>10. o \in Seq(Weight) /\ Len(o) = n
  <2>1. Typed(z, T) /\ Particles(z.model) = 1..n
    BY <1>6, <1>7, TracesTyped DEF Redone
  <2>2. \A j \in 1..n : Counted(z.model)[j] \in Weight
    BY <1>1, <2>1, CountedTyped
  <2>3. \A j \in 1..n : owed(j) \in Weight
    BY <2>2 DEF Weight
  <2>4. o = [j \in 1..n |-> owed(j)]
    BY <1>2
  <2> HIDE DEF owed, o
  <2> QED
    BY <2>3, <2>4
<1> HIDE DEF o
<1>8. Reworked(z, Reweighted(z, w, o), T)
  BY <1>1, <1>5, <1>6, <1>7, <1>10, ReweightedKept DEF Redone
<1>9. Reworked(Start, Reweighted(z, w, o), T)
  BY <1>4, <1>6, <1>7, <1>8 DEF Redone, Reworked, Same
<1> QED
  BY <1>1, <1>9, FinishLeaves

(* A turn of a loop, given the model and the loop so far.                  *)
LEMMA TurnLeaves ==
  ASSUME NEW T, NEW x, Reworked(Start, x, T), torn' = torn,
         NEW m \in Models(T), m.labelToDid = x.model.labelToDid, m.didToLabel = x.model.didToLabel,
         NEW l \in Loops(T), NEW i \in 1..Len(l.originals), Len(l.weights) = Len(l.originals),
         Len(l.doneWeights) = Len(l.done), Turn(m, l, i)
  PROVE  Leaves(T)
<1> DEFINE ts == <<l.originals[i]>>
           ws == <<l.weights[i]>>
           n == [m EXCEPT !.traces = ts, !.weights = ws]
           self == IF m.mode = "sequential" THEN 1 ELSE 0
           k == [l EXCEPT !.at = i, !.self = self]
<1>1. model' = n /\ loop' = k
  BY DEF Turn
<1>2. l.originals \in Seq(T) /\ l.weights \in Seq(Weight)
  BY DEF Loops
<1>3. ts \in Seq(T) /\ Len(ts) = 1 /\ ws \in Seq(Weight) /\ Len(ws) = 1
  BY <1>2
<1>4. self \in 0..1 /\ i \in Nat
  BY <1>2
<1> HIDE DEF ts, ws, self
<1>5. /\ n \in Models(T) /\ n.traces = ts /\ n.weights = ws
      /\ n.labelToDid = x.model.labelToDid /\ n.didToLabel = x.model.didToLabel
  BY <1>3 DEF Models
<1>6. /\ k \in Loops(T) /\ k.at = i /\ k.self = self /\ k.originals = l.originals
      /\ k.weights = l.weights /\ k.done = l.done /\ k.doneWeights = l.doneWeights
  <2>1. self \in Nat
    BY <1>4
  <2> QED
    BY <1>4, <2>1 DEF Loops
<1> HIDE DEF n, k
<1>7. torn \in SUBSET Did /\ x.torn = torn
  BY StartModel DEF Reworked, Typed, Works
<1>8. Typed(Left, T) /\ Weighed(Left) /\ Left.model = n /\ Left.torn = torn
  BY <1>1, <1>3, <1>4, <1>5, <1>6, <1>7 DEF Left, Typed, Works, Placed, Weighed
<1> QED
  BY <1>5, <1>7, <1>8, StartModel DEF Leaves, Reworked, Same

LEMMA TurnRaisesLeaves ==
  ASSUME NEW T, Holds(T), TurnRaises
  PROVE  Leaves(T)
<1> DEFINE x == [Start EXCEPT !.failed = TRUE]
<1>1. Reworked(Start, x, T)
  BY DEF Holds, Start, Reworked, Typed, Works, Same, Weighed
<1> HIDE DEF x
<1> QED
  BY <1>1, FinishLeaves DEF TurnRaises, Holds, x

LEMMA BeginLeaves ==
  ASSUME NEW T, Holds(T), NEW each \in BOOLEAN, NEW i \in Particles(model), Begin(each, i)
  PROVE  Leaves(T)
<1> DEFINE x == retrieve_traces(Start)
           m == [x.model EXCEPT !.mode = "sequential"]
           done == SubSeq(x.model.traces, 1, i - 1)
           doneWeights == SubSeq(x.model.weights, 1, i - 1)
           l == [each |-> each, mode |-> x.model.mode, at |-> i, self |-> 0,
                 originals |-> x.model.traces, weights |-> x.model.weights,
                 done |-> done, doneWeights |-> doneWeights]
<1>1. Turn(m, l, i) /\ torn' = torn
  BY DEF Begin
<1>2. Reworked(Start, x, T) /\ Particles(x.model) = Particles(model)
  BY RetrieveKept
<1> HIDE DEF x
<1>3. x.model \in Models(T) /\ Len(x.model.weights) = Len(x.model.traces)
  BY <1>2 DEF Reworked, Typed, Works, Weighed
<1>4. /\ x.model.traces \in Seq(T) /\ x.model.weights \in Seq(Weight) /\ x.model.mode \in Mode
      /\ i \in 1..Len(x.model.traces)
  BY <1>2, <1>3 DEF Models, Particles
<1>5. m \in Models(T) /\ m.labelToDid = x.model.labelToDid /\ m.didToLabel = x.model.didToLabel
  BY <1>3 DEF Models, Mode
<1>6. /\ done \in Seq(T) /\ Len(done) = i - 1
      /\ doneWeights \in Seq(Weight) /\ Len(doneWeights) = i - 1
  <2>1. i - 1 \in 0..Len(x.model.traces) /\ i - 1 \in 0..Len(x.model.weights)
    BY <1>3, <1>4
  <2> QED
    BY <1>3, <1>4, <2>1
<1> HIDE DEF m, done, doneWeights
<1>7. /\ l \in Loops(T) /\ i \in 1..Len(l.originals) /\ Len(l.weights) = Len(l.originals)
      /\ Len(l.doneWeights) = Len(l.done)
  BY <1>3, <1>4, <1>6 DEF Loops
<1> HIDE DEF l
<1> QED
  BY <1>1, <1>2, <1>5, <1>7, TurnLeaves

LEMMA JoinTyped ==
  ASSUME NEW S, NEW a \in Seq(S), NEW b \in Seq(S)
  PROVE  a \o b \in Seq(S) /\ Len(a \o b) = Len(a) + Len(b)
OBVIOUS

LEMMA EndTurnLeaves ==
  ASSUME NEW T, Holds(T), EndTurn
  PROVE  Leaves(T)
<1> DEFINE x == retrieve_traces(Start)
           done == x.loop.done \o x.model.traces
           doneWeights == x.loop.doneWeights \o x.model.weights
           l == Gathered(x.loop, x.model)
           n == Len(l.originals)
           ts == l.done \o SubSeq(l.originals, l.at + 1, n)
           ws == l.doneWeights \o SubSeq(l.weights, l.at + 1, n)
           m == [x.model EXCEPT !.mode = l.mode, !.traces = ts, !.weights = ws]
<1>1. /\ loop # None /\ torn' = torn
      /\ IF l.each /\ l.at < n THEN Turn(x.model, l, l.at + 1) ELSE loop' = None /\ model' = m
  BY DEF EndTurn
<1>2. Reworked(Start, x, T) /\ x.loop = loop
  BY RetrieveKept
<1> HIDE DEF x
<1>3. x.model \in Models(T) /\ Len(x.model.weights) = Len(x.model.traces) /\ Looping(x.loop, T)
  BY <1>1, <1>2 DEF Reworked, Typed, Works, Placed, Weighed, Looping
<1>4. /\ l \in Loops(T) /\ l.at \in 1..n /\ Len(l.weights) = n
      /\ Len(l.doneWeights) = Len(l.done)
  <2>1. /\ x.model.traces \in Seq(T) /\ x.model.weights \in Seq(Weight)
        /\ x.loop.done \in Seq(T) /\ x.loop.doneWeights \in Seq(Weight) /\ x.loop \in Loops(T)
    BY <1>3 DEF Models, Loops, Looping
  <2>2. done \in Seq(T) /\ doneWeights \in Seq(Weight) /\ Len(doneWeights) = Len(done)
    <3>1. done \in Seq(T) /\ Len(done) = Len(x.loop.done) + Len(x.model.traces)
      BY <2>1, JoinTyped, Zenon
    <3>2. /\ doneWeights \in Seq(Weight)
          /\ Len(doneWeights) = Len(x.loop.doneWeights) + Len(x.model.weights)
      BY <2>1, JoinTyped, Zenon
    <3>3. Len(x.loop.doneWeights) = Len(x.loop.done) /\ Len(x.model.weights) = Len(x.model.traces)
      BY <1>3 DEF Looping
    <3> HIDE DEF done, doneWeights
    <3> QED
      BY <3>1, <3>2, <3>3
  <2>3. l = [x.loop EXCEPT !.done = done, !.doneWeights = doneWeights]
    BY <2>1 DEF Gathered, Loops
  <2> HIDE DEF done, doneWeights, l
  <2>4. /\ l \in Loops(T) /\ l.done = done /\ l.doneWeights = doneWeights /\ l.at = x.loop.at
        /\ l.originals = x.loop.originals /\ l.weights = x.loop.weights
    BY <2>1, <2>2, <2>3 DEF Loops
  <2> QED
    BY <1>3, <2>2, <2>4 DEF Looping
<1> HIDE DEF l
<1>5. CASE l.each /\ l.at < n
  <2>1. l.at + 1 \in 1..Len(l.originals)
    BY <1>4, <1>5 DEF Loops
  <2>2. Turn(x.model, l, l.at + 1)
    BY <1>1, <1>5
  <2> QED
    BY <1>1, <1>2, <1>3, <1>4, <2>1, <2>2, TurnLeaves
<1>6. CASE ~(l.each /\ l.at < n)
  <2>1. loop' = None /\ model' = m
    BY <1>1, <1>6
  <2>2. /\ l.originals \in Seq(T) /\ l.weights \in Seq(Weight) /\ l.done \in Seq(T)
        /\ l.doneWeights \in Seq(Weight) /\ l.mode \in Mode /\ n \in Nat /\ l.at \in 1..n
    BY <1>4 DEF Loops
  <2>3. ts \in Seq(T) /\ ws \in Seq(Weight) /\ Len(ws) = Len(ts)
    <3> DEFINE rest == SubSeq(l.originals, l.at + 1, n)
               restWeights == SubSeq(l.weights, l.at + 1, n)
    <3>1. rest \in Seq(T) /\ Len(rest) = n - l.at /\ restWeights \in Seq(Weight) /\ Len(restWeights) = n - l.at
      BY <1>4, <2>2
    <3> HIDE DEF rest, restWeights
    <3>2. l.done \o rest \in Seq(T) /\ Len(l.done \o rest) = Len(l.done) + Len(rest)
      BY <2>2, <3>1, JoinTyped, Zenon
    <3>3. /\ l.doneWeights \o restWeights \in Seq(Weight)
          /\ Len(l.doneWeights \o restWeights) = Len(l.doneWeights) + Len(restWeights)
      BY <2>2, <3>1, JoinTyped, Zenon
    <3>4. ts = l.done \o rest /\ ws = l.doneWeights \o restWeights
      BY DEF rest, restWeights
    <3> HIDE DEF ts, ws
    <3> QED
      BY <1>4, <3>1, <3>2, <3>3, <3>4
  <2> HIDE DEF ts, ws
  <2>4. /\ m \in Models(T) /\ m.traces = ts /\ m.weights = ws
        /\ m.labelToDid = x.model.labelToDid /\ m.didToLabel = x.model.didToLabel
    BY <1>3, <2>2, <2>3 DEF Models
  <2> HIDE DEF m
  <2>5. torn \in SUBSET Did /\ x.torn = torn
    BY <1>2, StartModel DEF Reworked, Typed, Works
  <2>6. Typed(Left, T) /\ Weighed(Left) /\ Left.model = m /\ Left.torn = torn
    BY <1>1, <2>1, <2>3, <2>4, <2>5 DEF Left, Typed, Works, Placed, Weighed
  <2> QED
    BY <1>2, <2>4, <2>5, <2>6, StartModel DEF Leaves, Reworked, Same
<1> QED
  BY <1>5, <1>6

LEMMA SaveLeaves ==
  ASSUME NEW T, Holds(T), NEW backend \in Backend, Save \/ Restore(backend)
  PROVE  Leaves(T)
<1> DEFINE x == dump(Start, Particles(model))
<1>1. /\ model' = x.model \/ model' = [x.model EXCEPT !.backend = backend]
      /\ loop' = loop /\ torn' = torn
  BY DEF Save, Restore, Dumped
<1>2. Redone(Start, x, T)
  BY DumpKept DEF Holds
<1> HIDE DEF x
<1>3. x.model \in Models(T) /\ Placed(x.model, loop) /\ loop \in Loops(T) \cup {None} /\ torn \in SUBSET Did
  BY <1>2, StartModel DEF Redone, Typed, Works
<1>4. /\ model' \in Models(T) /\ model'.traces = x.model.traces /\ model'.weights = x.model.weights
      /\ model'.labelToDid = x.model.labelToDid /\ model'.didToLabel = x.model.didToLabel
  <2>1. CASE model' = x.model
    BY <1>3, <2>1
  <2>2. CASE model' = [x.model EXCEPT !.backend = backend]
    BY <1>3, <2>2 DEF Models
  <2> QED
    BY <1>1, <2>1, <2>2
<1>5. Typed(Left, T) /\ Left.model = model' /\ Left.torn = torn
  BY <1>1, <1>3, <1>4 DEF Left, Typed, Works, Placed
<1>6. Weighed(Left)
  BY <1>2, <1>4, <1>5 DEF Holds, Weighed, Redone
<1> QED
  BY <1>2, <1>4, <1>5, <1>6, StartModel DEF Leaves, Reworked, Redone, Same

-----------------------------------------------------------------------------
(* The traces that the labels and the number of directives fit: they have  *)
(* the directives with a label, and none that a label leads to in vain.    *)
Fitting(l2d, d2l, c) ==
  {t \in Trace :
     /\ directives(t) \subseteq 1..c
     /\ \A d \in Did : d2l[d] # None => d \in directives(t)
     /\ \A l \in Label : l2d[l] # 0 /\ d2l[l2d[l]] # l => l2d[l] \notin directives(t)}

Labels(l2d, d2l, c) ==
  /\ \A l \in Label : l2d[l] \in 0..c
  /\ \A d \in Did : d2l[d] # None => d2l[d] \in Label /\ l2d[d2l[d]] = d

(* All the traces of x, the model's and the loop's, fit its labels.        *)
Sound(x, c) ==
  /\ Typed(x, Fitting(x.model.labelToDid, x.model.didToLabel, c))
  /\ Weighed(x)
  /\ Labels(x.model.labelToDid, x.model.didToLabel, c)

IInv == counter \in 0..MaxDid /\ Sound(Start, counter)

LEMMA FittingClosed ==
  ASSUME NEW l2d, NEW d2l, NEW c
  PROVE  Closed(Fitting(l2d, d2l, c))
BY DEF Closed, Fitting, directives

LEMMA TypedGrows ==
  ASSUME NEW T, NEW U, T \subseteq U, NEW x, Typed(x, T)
  PROVE  Typed(x, U)
<1>1. \A s : s \in Seq(T) => s \in Seq(U)
  OBVIOUS
<1>2. \A m : m \in Models(T) => m \in Models(U)
  BY <1>1 DEF Models
<1>3. \A l : l \in Loops(T) => l \in Loops(U)
  BY <1>1 DEF Loops
<1>4. x \in Works(U)
  BY <1>2, <1>3 DEF Typed, Works
<1> QED
  BY <1>4 DEF Typed

LEMMA SoundReworked ==
  ASSUME NEW x, NEW y, NEW c,
         Sound(x, c), Reworked(x, y, Fitting(x.model.labelToDid, x.model.didToLabel, c))
  PROVE  Sound(y, c)
BY DEF Sound, Reworked, Same

LEMMA FinishSound ==
  ASSUME NEW x, NEW c, Sound(x, c), Finish(x)
  PROVE  Sound(Left, c)
<1>1. Reworked(x, Left, Fitting(x.model.labelToDid, x.model.didToLabel, c))
  BY FinishKept, FittingClosed DEF Sound
<1> QED
  BY <1>1, SoundReworked

(* A new directive, that no label leads to, fits all labels.               *)
LEMMA FittingGrows ==
  ASSUME NEW l2d, NEW d2l, NEW c \in Nat, Labels(l2d, d2l, c), c + 1 \in Did,
         NEW t \in Fitting(l2d, d2l, c)
  PROVE  /\ t \in Fitting(l2d, d2l, c + 1)
         /\ Evaluated(t, c + 1) \in Fitting(l2d, d2l, c + 1)
         /\ Observed(t, c + 1) \in Fitting(l2d, d2l, c + 1)
         /\ c + 1 \in directives(Evaluated(t, c + 1))
         /\ c + 1 \in directives(Observed(t, c + 1))
<1> DEFINE d == c + 1
           e == Evaluated(t, d)
           o == Observed(t, d)
<1>1. t \in Trace /\ directives(t) \subseteq 1..c
  BY DEF Fitting
<1>2. e \in Trace /\ directives(e) = directives(t) \cup {d}
  <2> HIDE DEF d
  <2> QED
    BY <1>1 DEF Evaluated, Trace, directives, d
<1>3. o \in Trace /\ directives(o) = directives(t) \cup {d}
  <2>1. d \in Did
    OBVIOUS
  <2> HIDE DEF d
  <2>2. o \in Trace
    BY <1>1, <2>1 DEF Observed, Trace
  <2>3. o.evaluated = t.evaluated /\ o.observed = t.observed \cup {d}
    BY <1>1 DEF Observed, Trace
  <2> QED
    BY <2>2, <2>3 DEF directives
<1>4. directives(t) \cup {d} \subseteq 1..d
  BY <1>1
<1>5. \A l \in Label : l2d[l] # d
  BY DEF Labels
<1>6. ASSUME NEW u \in Trace, directives(u) \in {directives(t), directives(t) \cup {d}}
      PROVE  u \in Fitting(l2d, d2l, d)
  <2>1. directives(u) \subseteq 1..d
    BY <1>4, <1>6
  <2> HIDE DEF d
  <2> QED
    BY <1>5, <1>6, <2>1 DEF Fitting
<1> HIDE DEF e, o
<1>7. t \in Fitting(l2d, d2l, d) /\ e \in Fitting(l2d, d2l, d) /\ o \in Fitting(l2d, d2l, d)
  BY <1>1, <1>2, <1>3, <1>6
<1> QED
  BY <1>2, <1>3, <1>7 DEF e, o

LEMMA TearKept ==
  ASSUME NEW T, NEW x, Typed(x, T), NEW d \in Did
  PROVE  /\ Typed(Tear(x, d), T) /\ Tear(x, d).model = x.model
         /\ Tear(x, d).loop = x.loop /\ Tear(x, d).failed = x.failed
<1>1. x \in Works(T)
  BY DEF Typed
<1>2. x.torn \cup {d} \in SUBSET Did
  BY <1>1 DEF Works
<1>3. /\ Tear(x, d) \in Works(T) /\ Tear(x, d).model = x.model
      /\ Tear(x, d).loop = x.loop /\ Tear(x, d).failed = x.failed
  BY <1>1, <1>2 DEF Tear, Works
<1> QED
  BY <1>3 DEF Typed

(* Every trace has the directive.                                          *)
Everywhere(x, d) == \A i \in Particles(x.model) : d \in directives(x.model.traces[i])

LEMMA TearSound ==
  ASSUME NEW x, NEW c, Sound(x, c), NEW d \in Did
  PROVE  Sound(Tear(x, d), c)
BY TearKept DEF Sound, Weighed

LEMMA TellSound ==
  ASSUME NEW x, NEW c \in Nat, Sound(x, c), c + 1 \in Did, NEW s, NEW y,
         y \in {evaluate(x, s, c + 1), observe(x, s, c + 1)}
  PROVE  /\ Sound(y, c + 1) /\ Same(x, y) /\ y.loop = x.loop
         /\ ~y.failed => Everywhere(y, c + 1)
         /\ DOMAIN y.model.traces = DOMAIN x.model.traces
<1> DEFINE d == c + 1
           l2d == x.model.labelToDid
           d2l == x.model.didToLabel
           T == Fitting(l2d, d2l, c)
           U == Fitting(l2d, d2l, d)
           k == s \cup Having(x, d)
<1>1. Typed(x, T) /\ Labels(l2d, d2l, c) /\ Weighed(x)
  BY DEF Sound
<1>2. PICK after : /\ y = Tear(Map(x, k, after), d)
                   /\ \A i \in Particles(x.model) : after[i] \in U /\ d \in directives(after[i])
  <2>1. ASSUME NEW i \in Particles(x.model)
        PROVE  /\ Evaluated(x.model.traces[i], d) \in U
               /\ d \in directives(Evaluated(x.model.traces[i], d))
               /\ Observed(x.model.traces[i], d) \in U
               /\ d \in directives(Observed(x.model.traces[i], d))
    <3>1. x.model.traces[i] \in T
      BY <1>1, TracesTyped
    <3> QED
      BY <1>1, <3>1, FittingGrows
  <2>2. CASE y = evaluate(x, s, d)
    <3> WITNESS [i \in Particles(x.model) |-> Evaluated(x.model.traces[i], d)]
    <3> QED
      BY <2>1, <2>2 DEF evaluate
  <2>3. CASE y = observe(x, s, d)
    <3> WITNESS [i \in Particles(x.model) |-> Observed(x.model.traces[i], d)]
    <3> QED
      BY <2>1, <2>3 DEF observe
  <2> QED
    BY <2>2, <2>3
<1> DEFINE z == Map(x, k, after)
<1>3. Typed(x, U)
  <2>1. T \subseteq U
    BY <1>1, FittingGrows
  <2> HIDE DEF T, U
  <2> QED
    BY <1>1, <2>1, TypedGrows
<1>4. /\ Redone(x, z, U) /\ z.failed = (k # {})
      /\ \A i \in Particles(x.model) : z.model.traces[i] = IF i \in Ran(x.model, k) THEN after[i] ELSE x.model.traces[i]
  <2>1. \A i \in Ran(x.model, k) : after[i] \in U
    BY <1>2 DEF Ran
  <2> HIDE DEF U, k
  <2> QED
    BY <1>3, <2>1, MapKept
<1> HIDE DEF k, z
<1>5. Typed(z, U) /\ d \in Did
  BY <1>4 DEF Redone
<1>6. Typed(y, U) /\ y.model = z.model /\ y.loop = z.loop /\ y.failed = z.failed
  <2> HIDE DEF U, d
  <2> QED
    BY <1>2, <1>5, TearKept DEF z
<1>7. Labels(l2d, d2l, d)
  BY <1>1 DEF Labels
<1>8. Weighed(y)
  BY <1>1, <1>4, <1>6 DEF Redone, Weighed
<1>9. Same(x, y) /\ y.loop = x.loop /\ DOMAIN y.model.traces = DOMAIN x.model.traces
  BY <1>4, <1>6 DEF Redone, Same
<1>10. ~y.failed => Everywhere(y, d)
  <2>1. SUFFICES ASSUME k = {} PROVE Everywhere(y, d)
    BY <1>4, <1>6
  <2>2. Ran(x.model, k) = Particles(x.model)
    BY <2>1 DEF Ran
  <2> HIDE DEF d
  <2> QED
    BY <1>2, <1>4, <1>6, <1>9, <2>2 DEF Everywhere, Particles
<1> QED
  BY <1>6, <1>7, <1>8, <1>9, <1>10 DEF Sound, Same

(* Out of a loop, a directive that all the particles have can be labelled. *)
LEMMA PutSound ==
  ASSUME NEW x, NEW c \in Nat, Sound(x, c), c \in Did, NEW l \in Label \cup {None},
         l # None => x.model.labelToDid[l] = 0 /\ x.model.didToLabel[c] = None,
         x.loop = None, ~x.failed => Everywhere(x, c)
  PROVE  /\ Sound(Put(x, l, c), c) /\ Put(x, l, c).loop = None
         /\ Put(x, l, c).failed = x.failed
         /\ Put(x, l, c).model.traces = x.model.traces
<1>1. CASE x.failed \/ l = None
  BY <1>1 DEF Put
<1>2. CASE ~x.failed /\ l # None
  <2> DEFINE l2d == x.model.labelToDid
             d2l == x.model.didToLabel
             l2e == [l2d EXCEPT ![l] = c]
             e2l == [d2l EXCEPT ![c] = l]
             m == [x.model EXCEPT !.labelToDid = l2e, !.didToLabel = e2l]
             T == Fitting(l2d, d2l, c)
             U == Fitting(l2e, e2l, c)
             y == Put(x, l, c)
  <2>1. /\ x \in Works(T) /\ x.model \in Models(T) /\ Weighed(x) /\ Labels(l2d, d2l, c)
        /\ x.model.traces \in Seq(T)
    BY DEF Sound, Typed, Works, Models
  <2>2. /\ l2d \in [Label -> Did \cup {0}] /\ d2l \in [Did -> Label \cup {None}]
        /\ l2d[l] = 0 /\ d2l[c] = None /\ l \in Label
    BY <1>2, <2>1 DEF Models
  <2>3. Labels(l2e, e2l, c)
    <3> HIDE DEF l2d, d2l
    <3> QED
      <4>1. \A k \in Label : l2e[k] \in 0..c
        BY <2>1, <2>2 DEF Labels
      <4>2. ASSUME NEW d \in Did, e2l[d] # None
            PROVE  e2l[d] \in Label /\ l2e[e2l[d]] = d
        <5>1. CASE d = c
          BY <2>2, <5>1
        <5>2. CASE d # c
          <6>1. e2l[d] = d2l[d] /\ d2l[d] \in Label /\ l2d[d2l[d]] = d
            BY <2>1, <2>2, <4>2, <5>2 DEF Labels
          <6>2. d # 0
            BY DEF Did
          <6> QED
            BY <2>2, <6>1, <6>2
        <5> QED
          BY <5>1, <5>2
      <4> QED
        BY <4>1, <4>2 DEF Labels
  <2>4. x.model.traces \in Seq(U)
    <3>1. ASSUME NEW t \in T, c \in directives(t) PROVE t \in U
      <4> HIDE DEF l2d, d2l
      <4>1. \A d \in Did : e2l[d] # None => d \in directives(t)
        BY <2>2, <3>1 DEF Fitting
      <4>2. ASSUME NEW k \in Label, l2e[k] # 0, e2l[l2e[k]] # k
            PROVE  l2e[k] \notin directives(t)
        <5>1. k # l
          BY <2>2, <4>2
        <5>2. l2e[k] = l2d[k] /\ l2d[k] \in Did
          BY <2>2, <4>2, <5>1
        <5>3. d2l[l2d[k]] # k
          BY <2>2, <4>2, <5>2, NoneAssumption
        <5> QED
          BY <4>2, <5>2, <5>3 DEF Fitting
      <4> QED
        BY <4>1, <4>2 DEF Fitting
    <3>2. \A i \in Particles(x.model) : x.model.traces[i] \in T /\ c \in directives(x.model.traces[i])
      BY <1>2, <2>1 DEF Everywhere, Particles
    <3>3. \A i \in 1..Len(x.model.traces) : x.model.traces[i] \in U
      BY <2>1, <3>1, <3>2 DEF Particles
    <3> HIDE DEF T, U
    <3> QED
      BY <2>1, <3>3
  <2>5. y = [x EXCEPT !.model = m]
    BY <1>2, <2>1 DEF Put, Works, Models
  <2>6. l2e \in [Label -> Did \cup {0}] /\ e2l \in [Did -> Label \cup {None}]
    <3> HIDE DEF l2d, d2l
    <3> QED
      BY <2>2
  <2> HIDE DEF l2e, e2l
  <2>7. /\ m \in Models(U) /\ m.traces = x.model.traces /\ m.weights = x.model.weights
        /\ m.labelToDid = l2e /\ m.didToLabel = e2l
    <3> HIDE DEF U
    <3> QED
      BY <2>1, <2>4, <2>6 DEF Models
  <2> HIDE DEF m
  <2>8. y \in Works(U) /\ y.model = m /\ y.loop = None /\ y.failed = x.failed
    <3> HIDE DEF U
    <3> QED
      BY <2>1, <2>5, <2>7 DEF Works
  <2> QED
    BY <2>1, <2>3, <2>7, <2>8 DEF Sound, Typed, Placed, Weighed
<1> QED
  BY <1>1, <1>2

(* Without a directive that is forgotten with its label.                   *)
LEMMA FittingShrinks ==
  ASSUME NEW l2d \in [Label -> Did \cup {0}], NEW d2l \in [Did -> Label \cup {None}], NEW c,
         NEW d \in Did, NEW t \in Fitting(l2d, d2l, c)
  PROVE  Forgotten(t, d) \in Fitting(l2d, [d2l EXCEPT ![d] = None], c)
<1> DEFINE e2l == [d2l EXCEPT ![d] = None]
           u == Forgotten(t, d)
<1>1. t \in Trace /\ directives(t) \subseteq 1..c
  BY DEF Fitting
<1>2. u \in Trace /\ directives(u) = directives(t) \ {d}
  <2>1. u \in Trace
    BY <1>1 DEF Forgotten, Trace
  <2>2. u.evaluated = t.evaluated \ {d} /\ u.observed = t.observed \ {d}
    BY <1>1 DEF Forgotten, Trace
  <2> QED
    BY <2>1, <2>2 DEF directives
<1>3. \A e \in Did : e2l[e] # None => e \in directives(u)
  BY <1>2 DEF Fitting
<1>4. ASSUME NEW l \in Label, l2d[l] # 0, e2l[l2d[l]] # l
      PROVE  l2d[l] \notin directives(u)
  <2>1. CASE l2d[l] = d
    BY <1>2, <2>1
  <2>2. CASE l2d[l] # d
    <3>1. l2d[l] \in Did
      BY <1>4
    <3>2. d2l[l2d[l]] # l
      BY <1>4, <2>2, <3>1
    <3> QED
      BY <1>2, <1>4, <3>2 DEF Fitting
  <2> QED
    BY <2>1, <2>2
<1> HIDE DEF e2l, u
<1>5. directives(u) \subseteq 1..c
  BY <1>1, <1>2
<1>6. u \in Fitting(l2d, e2l, c)
  BY <1>2, <1>3, <1>4, <1>5 DEF Fitting
<1> QED
  BY <1>6 DEF e2l, u

LEMMA ForgetSound ==
  ASSUME NEW x, NEW c, Sound(x, c), NEW d \in Did,
         x.loop = None \/ x.model.didToLabel[d] = None
  PROVE  /\ Sound(forget(x, d), c)
         /\ forget(x, d).model.labelToDid = x.model.labelToDid
         /\ ~forget(x, d).failed => forget(x, d).model.didToLabel[d] = None
<1> DEFINE l2d == x.model.labelToDid
           d2l == x.model.didToLabel
           e2l == [d2l EXCEPT ![d] = None]
           T == Fitting(l2d, d2l, c)
           U == Fitting(l2d, e2l, c)
           k == Particles(x.model) \ Having(x, d)
           after == [i \in Particles(x.model) |-> Forgotten(x.model.traces[i], d)]
           z == Map(x, k, after)
           y == forget(x, d)
<1>1. /\ Typed(x, T) /\ Weighed(x) /\ Labels(l2d, d2l, c)
      /\ x \in Works(T) /\ x.model \in Models(T) /\ x.model.traces \in Seq(T)
  BY DEF Sound, Typed, Works, Models
<1>2. l2d \in [Label -> Did \cup {0}] /\ d2l \in [Did -> Label \cup {None}]
  BY <1>1 DEF Models
<1>3. \A i \in Particles(x.model) : after[i] \in U
  <2>1. \A i \in Particles(x.model) : x.model.traces[i] \in T
    BY <1>1, TracesTyped
  <2> HIDE DEF l2d, d2l
  <2> QED
    BY <1>2, <2>1, FittingShrinks
<1>4. y = IF z.failed THEN z ELSE [z EXCEPT !.model.didToLabel[d] = None]
  BY DEF forget, Then, Unlabelled
<1>5. CASE d2l[d] = None
  <2>1. e2l = d2l
    <3> HIDE DEF d2l
    <3> QED
      BY <1>2, <1>5
  <2>2. \A i \in Ran(x.model, k) : after[i] \in T
    BY <1>3, <2>1 DEF Ran
  <2>3. Redone(x, z, T)
    <3> HIDE DEF T, after, k
    <3> QED
      BY <1>1, <2>2, MapKept
  <2>4. y = z
    <3>1. z \in Works(T) /\ z.model \in Models(T) /\ z.model.didToLabel = d2l
      BY <2>3 DEF Redone, Typed, Works, Same
    <3> HIDE DEF z, T, d2l
    <3>2. [z EXCEPT !.model.didToLabel[d] = None] = [z EXCEPT !.model = [z.model EXCEPT !.didToLabel = e2l]]
      BY <3>1 DEF Works, Models
    <3>3. [z.model EXCEPT !.didToLabel = d2l] = z.model
      BY <3>1 DEF Models
    <3>4. [z EXCEPT !.model = z.model] = z
      BY <3>1 DEF Works
    <3> QED
      BY <1>4, <2>1, <3>2, <3>3, <3>4
  <2> HIDE DEF z, y, T, d2l, l2d
  <2>5. Reworked(x, y, T)
    BY <1>1, <2>3, <2>4 DEF Redone, Reworked, Weighed
  <2>6. Sound(y, c)
    BY <2>5, SoundReworked DEF T, d2l, l2d
  <2> QED
    BY <1>5, <2>5, <2>6 DEF Reworked, Same, y, d2l
<1>6. CASE d2l[d] # None
  <2>1. k = {}
    BY <1>1, <1>6 DEF Having, Particles, Fitting
  <2>2. Ran(x.model, k) = Particles(x.model)
    BY <2>1 DEF Ran
  <2>3. Typed(x, Trace)
    <3>1. T \subseteq Trace
      BY DEF Fitting
    <3> HIDE DEF T
    <3> QED
      BY <1>1, <3>1, TypedGrows
  <2>4. /\ Redone(x, z, Trace) /\ ~z.failed
        /\ \A i \in Particles(x.model) : z.model.traces[i] = after[i]
    <3>1. \A i \in Ran(x.model, k) : after[i] \in Trace
      BY <1>3, <2>2 DEF Fitting
    <3> HIDE DEF k, after
    <3>2. /\ Redone(x, z, Trace) /\ z.failed = (k # {})
          /\ \A i \in Particles(x.model) :
               z.model.traces[i] = IF i \in Ran(x.model, k) THEN after[i] ELSE x.model.traces[i]
      BY <2>3, <3>1, MapKept
    <3> HIDE DEF z
    <3> QED
      BY <2>1, <2>2, <3>2
  <2>5. z \in Works(Trace) /\ z.model \in Models(Trace) /\ z.model.traces \in Seq(Trace) /\ z.loop = None
    BY <1>6, <2>4 DEF Redone, Typed, Works, Models
  <2>6. z.model.traces \in Seq(U)
    <3>1. \A i \in 1..Len(z.model.traces) : z.model.traces[i] \in U
      <4>1. 1..Len(z.model.traces) = Particles(x.model)
        BY <2>4, <2>5 DEF Redone, Particles
      <4> HIDE DEF z, U, after
      <4> QED
        BY <1>3, <2>4, <4>1
    <3> HIDE DEF U, z
    <3> QED
      BY <2>5, <3>1
  <2> DEFINE m == [z.model EXCEPT !.didToLabel = e2l]
  <2>7. z.model.labelToDid = l2d /\ z.model.didToLabel = d2l /\ z.model.weights = x.model.weights
        /\ Len(z.model.traces) = Len(x.model.traces)
    BY <2>4 DEF Redone, Same
  <2>8. y = [z EXCEPT !.model = m]
    <3> HIDE DEF z, d2l
    <3> QED
      BY <1>4, <2>4, <2>5, <2>7 DEF Works, Models
  <2>9. e2l \in [Did -> Label \cup {None}] /\ e2l[d] = None
    <3> HIDE DEF d2l
    <3> QED
      BY <1>2
  <2>10. Labels(l2d, e2l, c)
    <3> HIDE DEF l2d, d2l
    <3> QED
      BY <1>1, <1>2 DEF Labels
  <2> HIDE DEF z, U, e2l
  <2>11. /\ m \in Models(U) /\ m.traces = z.model.traces /\ m.weights = z.model.weights
         /\ m.labelToDid = l2d /\ m.didToLabel = e2l
    BY <2>5, <2>6, <2>7, <2>9 DEF Models
  <2> HIDE DEF m, y
  <2>12. y \in Works(U) /\ y.model = m /\ y.loop = None
    BY <2>5, <2>8, <2>11 DEF Works
  <2>13. Sound(y, c)
    BY <1>1, <2>7, <2>10, <2>11, <2>12 DEF Sound, Typed, Placed, Weighed, U
  <2> QED
    BY <2>9, <2>11, <2>12, <2>13 DEF y
<1> QED
  BY <1>5, <1>6

LEMMA UnputSound ==
  ASSUME NEW x, NEW c, Sound(x, c), NEW l \in Label, x.model.labelToDid[l] \in Did, c \in Nat,
         x.model.didToLabel[x.model.labelToDid[l]] = None
  PROVE  Sound([x EXCEPT !.model.labelToDid[l] = 0], c)
<1> DEFINE l2d == x.model.labelToDid
           d2l == x.model.didToLabel
           l2e == [l2d EXCEPT ![l] = 0]
           T == Fitting(l2d, d2l, c)
           U == Fitting(l2e, d2l, c)
           m == [x.model EXCEPT !.labelToDid = l2e]
           y == [x EXCEPT !.model.labelToDid[l] = 0]
<1>1. /\ Typed(x, T) /\ Weighed(x) /\ Labels(l2d, d2l, c)
      /\ x \in Works(T) /\ x.model \in Models(T)
  BY DEF Sound, Typed, Works
<1>2. l2d \in [Label -> Did \cup {0}] /\ d2l \in [Did -> Label \cup {None}]
  BY <1>1 DEF Models
<1>3. T \subseteq U
  <2> HIDE DEF l2d, d2l
  <2> QED
    BY <1>2 DEF Fitting
<1>4. Labels(l2e, d2l, c)
  <2>1. l2d[l] \in Did /\ d2l[l2d[l]] = None
    OBVIOUS
  <2> HIDE DEF l2d, d2l
  <2> QED
    BY <1>1, <1>2, <2>1 DEF Labels
<1>5. Typed(x, U)
  <2> HIDE DEF T, U
  <2> QED
    BY <1>1, <1>3, TypedGrows
<1>6. l2e \in [Label -> Did \cup {0}]
  <2> HIDE DEF l2d
  <2> QED
    BY <1>2
<1>7. y = [x EXCEPT !.model = m]
  <2>1. x \in Works(T) /\ x.model \in Models(T)
    BY <1>1
  <2> HIDE DEF T
  <2> QED
    BY <2>1 DEF Works, Models
<1>8. x \in Works(U) /\ x.model \in Models(U)
  BY <1>5 DEF Typed, Works
<1> HIDE DEF l2e, U, y
<1>9. /\ m \in Models(U) /\ m.traces = x.model.traces /\ m.weights = x.model.weights
      /\ m.labelToDid = l2e /\ m.didToLabel = d2l
  BY <1>6, <1>8 DEF Models
<1> HIDE DEF m
<1>10. y \in Works(U) /\ y.model = m /\ y.loop = x.loop
  BY <1>7, <1>8, <1>9 DEF Works
<1>11. Sound(y, c)
  BY <1>1, <1>4, <1>5, <1>9, <1>10 DEF Sound, Typed, Placed, Weighed, U
<1> QED
  BY <1>11 DEF y

-----------------------------------------------------------------------------
LEMMA LeftIs ==
  ASSUME counter' \in 0..MaxDid, Sound(Left, counter')
  PROVE  IInv'
BY DEF IInv, Left, Start

LEMMA StartIs ==
  ASSUME IInv
  PROVE  /\ Sound(Start, counter) /\ counter \in Nat /\ counter \in 0..MaxDid
         /\ Start.model = model /\ Start.loop = loop /\ Start.torn = torn /\ ~Start.failed
BY BoundsAssumption DEF IInv, Start

LEMMA NumberedIs ==
  ASSUME IInv, Numbered
  PROVE  /\ counter + 1 \in Did /\ Next1 = counter + 1 /\ counter' = counter + 1
         /\ counter' \in 0..MaxDid
BY BoundsAssumption DEF IInv, Numbered, Within, Next1, Did

LEMMA FinishInv ==
  ASSUME NEW x, Sound(x, counter'), counter' \in 0..MaxDid, Finish(x)
  PROVE  IInv'
BY FinishSound, LeftIs

LEMMA FinishSame ==
  ASSUME IInv, NEW x, Sound(x, counter), Unnumbered, Finish(x)
  PROVE  IInv'
BY StartIs, FinishInv DEF Unnumbered

LEMMA LeavesInv ==
  ASSUME IInv, counter' = counter, \A T : Holds(T) => Leaves(T)
  PROVE  IInv'
<1> DEFINE T == Fitting(model.labelToDid, model.didToLabel, counter)
<1>1. Holds(T)
  BY StartIs, FittingClosed DEF Holds, Sound
<1>2. Leaves(T)
  BY <1>1
<1>3. Sound(Left, counter)
  BY <1>2, StartIs, SoundReworked DEF Leaves
<1> QED
  BY <1>3, StartIs, LeftIs

LEMMA IncorporateSound ==
  ASSUME NEW x, NEW c, Sound(x, c), NEW s
  PROVE  Sound(incorporate(x, s), c) /\ Same(x, incorporate(x, s))
<1>1. Reworked(x, incorporate(x, s), Fitting(x.model.labelToDid, x.model.didToLabel, c))
  BY IncorporateKept, FittingClosed DEF Sound
<1> QED
  BY <1>1, SoundReworked DEF Reworked

LEMMA RefusedInv ==
  ASSUME IInv, NEW l \in Label, Refused(l)
  PROVE  IInv'
<1> DEFINE c == counter
           T == Fitting(model.labelToDid, model.didToLabel, c)
           U == Fitting(model.labelToDid, model.didToLabel, c + 1)
<1>1. c + 1 \in Did /\ counter' = c + 1 /\ counter' \in 0..MaxDid /\ Left = Start
  BY NumberedIs DEF Refused, Left, Start
<1>2. Typed(Start, T) /\ Weighed(Start) /\ Labels(model.labelToDid, model.didToLabel, c) /\ c \in Nat
  BY StartIs DEF Sound
<1>3. T \subseteq U
  BY <1>1, <1>2, FittingGrows
<1>4. Typed(Start, U)
  <2> HIDE DEF T, U
  <2> QED
    BY <1>2, <1>3, TypedGrows
<1>5. Labels(model.labelToDid, model.didToLabel, c + 1)
  BY <1>2 DEF Labels
<1>6. Sound(Start, c + 1)
  BY <1>2, <1>4, <1>5, StartIs DEF Sound
<1> QED
  BY <1>1, <1>6, LeftIs

LEMMA EvaluateInv ==
  ASSUME IInv, NEW l \in Label \cup {None}, NEW s, Evaluate(l, s)
  PROVE  IInv'
<1> DEFINE d == counter + 1
           y == evaluate(Start, s, d)
<1>1. /\ loop = None /\ d \in Did /\ d = Next1 /\ counter' = d /\ d \in 0..MaxDid /\ d \in Nat
      /\ ~Taken(l, d) /\ Finish(Put(y, l, d))
  BY NumberedIs, StartIs DEF Evaluate
<1>2. /\ Sound(y, d) /\ Same(Start, y) /\ y.loop = None
      /\ ~y.failed => Everywhere(y, d)
  BY <1>1, StartIs, TellSound
<1>3. l # None => y.model.labelToDid[l] = 0 /\ y.model.didToLabel[d] = None
  BY <1>1, <1>2, StartIs DEF Taken, Same
<1> HIDE DEF d, y
<1>4. Sound(Put(y, l, d), d)
  BY <1>1, <1>2, <1>3, PutSound
<1> QED
  BY <1>1, <1>4, FinishInv

LEMMA ObserveInv ==
  ASSUME IInv, NEW l \in Label \cup {None}, NEW s, NEW r, Observe(l, s, r)
  PROVE  IInv'
<1> DEFINE d == counter + 1
           y == observe(Start, s, d)
           x == Put(y, l, d)
           z == Tear(incorporate(x, r), d)
<1>1. /\ loop = None /\ d \in Did /\ d = Next1 /\ counter' = d /\ d \in 0..MaxDid /\ d \in Nat
      /\ ~Taken(l, d) /\ Finish(Then(x, z))
  BY NumberedIs, StartIs DEF Observe
<1>2. /\ Sound(y, d) /\ Same(Start, y) /\ y.loop = None
      /\ ~y.failed => Everywhere(y, d)
  BY <1>1, StartIs, TellSound
<1>3. l # None => y.model.labelToDid[l] = 0 /\ y.model.didToLabel[d] = None
  BY <1>1, <1>2, StartIs DEF Taken, Same
<1> HIDE DEF d, y
<1>4. Sound(x, d)
  BY <1>1, <1>2, <1>3, PutSound
<1> HIDE DEF x
<1>5. Sound(z, d)
  BY <1>1, <1>4, IncorporateSound, TearSound
<1> HIDE DEF z
<1>6. Sound(Then(x, z), d)
  BY <1>4, <1>5 DEF Then
<1> QED
  BY <1>1, <1>6, FinishInv

LEMMA ForgetInv ==
  ASSUME IInv, NEW d \in Did, Forget(d)
  PROVE  IInv'
<1>1. Sound(forget(Start, d), counter)
  BY StartIs, ForgetSound DEF Forget
<1> QED
  BY <1>1, FinishSame DEF Forget

LEMMA ForgetLabeledInv ==
  ASSUME IInv, NEW l \in Label, ForgetLabeled(l)
  PROVE  IInv'
<1> DEFINE d == model.labelToDid[l]
           x == forget(Start, d)
           y == [x EXCEPT !.model.labelToDid[l] = 0]
<1>1. loop = None /\ d # 0 /\ Finish(Then(x, y)) /\ Unnumbered
  BY DEF ForgetLabeled
<1>2. d \in Did
  <2>1. model.labelToDid \in [Label -> Did \cup {0}]
    BY StartIs DEF Sound, Typed, Works, Models
  <2> QED
    BY <1>1, <2>1
<1>3. /\ Sound(x, counter) /\ x.model.labelToDid = model.labelToDid
      /\ ~x.failed => x.model.didToLabel[d] = None
  BY <1>1, <1>2, StartIs, ForgetSound
<1>4. x.model.labelToDid[l] = d
  BY <1>3
<1> HIDE DEF x, d
<1>5. ~x.failed => Sound(y, counter)
  BY <1>2, <1>3, <1>4, StartIs, UnputSound
<1> HIDE DEF y
<1>6. Sound(Then(x, y), counter)
  BY <1>3, <1>5 DEF Then
<1> QED
  BY <1>1, <1>6, FinishSame

(* A number that is not given yet has no label.                            *)
LEMMA NewUnlabelled ==
  ASSUME IInv, counter + 1 \in Did
  PROVE  model.didToLabel[counter + 1] = None
<1>1. Labels(model.labelToDid, model.didToLabel, counter) /\ counter \in Nat
  BY StartIs DEF Sound
<1> QED
  BY <1>1 DEF Labels

LEMMA ForgetAgainSound ==
  ASSUME NEW x, NEW c, Sound(x, c), NEW d \in Did, x.model.didToLabel[d] = None
  PROVE  Sound(forgetAgain(x, d), c)
BY ForgetSound DEF forgetAgain, Then

LEMMA SampleInv ==
  ASSUME IInv, NEW s, Sample(s)
  PROVE  IInv'
<1> DEFINE d == counter + 1
           x == evaluate(Start, s, d)
<1>1. d \in Did /\ d = Next1 /\ counter' = d /\ d \in 0..MaxDid /\ Finish(forgetAgain(x, d))
  BY NumberedIs DEF Sample
<1>2. Sound(x, d) /\ Same(Start, x)
  BY <1>1, StartIs, TellSound
<1>3. x.model.didToLabel[d] = None
  BY <1>1, <1>2, StartIs, NewUnlabelled DEF Same
<1> HIDE DEF d, x
<1>4. Sound(forgetAgain(x, d), d)
  BY <1>1, <1>2, <1>3, ForgetAgainSound
<1> QED
  BY <1>1, <1>4, FinishInv

LEMMA ForceInv ==
  ASSUME IInv, NEW s, NEW r, ForceValue(s, r)
  PROVE  IInv'
<1> DEFINE d == counter + 1
           x == observe(Start, s, d)
           y == Tear(incorporate(x, r), d)
<1>1. d \in Did /\ d = Next1 /\ counter' = d /\ d \in 0..MaxDid /\ Finish(Then(x, forgetAgain(y, d)))
  BY NumberedIs DEF ForceValue
<1>2. Sound(x, d) /\ Same(Start, x)
  BY <1>1, StartIs, TellSound
<1>3. x.model.didToLabel[d] = None
  BY <1>1, <1>2, StartIs, NewUnlabelled DEF Same
<1> HIDE DEF d, x
<1>4. Sound(y, d) /\ y.model.didToLabel[d] = None
  <2>1. Sound(incorporate(x, r), d) /\ incorporate(x, r).model.didToLabel[d] = None
    BY <1>2, <1>3, IncorporateSound DEF Same
  <2>2. Tear(incorporate(x, r), d).model = incorporate(x, r).model
    BY <1>1, <2>1, TearKept DEF Sound
  <2> QED
    BY <1>1, <2>1, <2>2, TearSound
<1> HIDE DEF y
<1>5. Sound(Then(x, forgetAgain(y, d)), d)
  BY <1>1, <1>2, <1>4, ForgetAgainSound DEF Then
<1> QED
  BY <1>1, <1>5, FinishInv

-----------------------------------------------------------------------------
(* A new model has one trace, with no directives.                          *)
LEMMA NewModelSound ==
  ASSUME NEW backend \in Backend, NEW mode \in Mode
  PROVE  Sound([model |-> NewModel(backend, mode), loop |-> None, torn |-> {}, failed |-> FALSE], 0)
<1> DEFINE m == NewModel(backend, mode)
           x == [model |-> m, loop |-> None, torn |-> {}, failed |-> FALSE]
           T == Fitting(m.labelToDid, m.didToLabel, 0)
<1>1. Blank \in Trace /\ directives(Blank) = {}
  BY DEF Blank, Trace, directives
<1>2. /\ m.labelToDid = [l \in Label |-> 0] /\ m.didToLabel = [d \in Did |-> None]
      /\ m.traces = <<Blank>> /\ m.weights = <<{}>> /\ m.backend = backend /\ m.mode = mode
  BY DEF NewModel
<1>3. Blank \in T
  BY <1>1, <1>2 DEF Fitting
<1>4. Labels(m.labelToDid, m.didToLabel, 0)
  BY <1>2 DEF Labels
<1> HIDE DEF T
<1>5. m.traces \in Seq(T) /\ Len(m.traces) = 1 /\ m.weights \in Seq(Weight) /\ Len(m.weights) = 1
  <2>1. {} \in Weight
    BY DEF Weight
  <2> QED
    BY <1>2, <1>3, <2>1
<1>6. m.labelToDid \in [Label -> Did \cup {0}] /\ m.didToLabel \in [Did -> Label \cup {None}]
  BY <1>2
<1>7. m \in Models(T)
  <2>1. m = [backend |-> m.backend, mode |-> m.mode, traces |-> m.traces, weights |-> m.weights,
             labelToDid |-> m.labelToDid, didToLabel |-> m.didToLabel]
    BY DEF NewModel
  <2> HIDE DEF m
  <2> QED
    BY <1>2, <1>5, <1>6, <2>1 DEF Models
<1>8. x \in Works(T) /\ x.loop = None /\ x.model = m
  <2> HIDE DEF m
  <2> QED
    BY <1>7 DEF Works
<1> HIDE DEF x, m
<1>9. Sound(x, 0)
  BY <1>4, <1>5, <1>8 DEF Sound, Typed, Placed, Weighed, T
<1> QED
  BY <1>9 DEF x, m

LEMMA InitInv ==
  ASSUME Init
  PROVE  IInv
<1>1. PICK backend \in Backend : model = NewModel(backend, "sequential")
  BY DEF Init
<1>2. Start = [model |-> model, loop |-> None, torn |-> {}, failed |-> FALSE]
  BY DEF Init, Start
<1>3. Sound(Start, 0)
  BY <1>1, <1>2, NewModelSound DEF Mode
<1> QED
  BY <1>3, BoundsAssumption DEF Init, IInv

-----------------------------------------------------------------------------
(* The traces that have the directives E and O, apart from broken ones.    *)
(* All the traces of a model and of its loop are such.                     *)
Alike(E, O, broken) ==
  {t \in Trace : t.evaluated \ broken = E /\ t.observed \ broken = O}
InStep(x) == \E E, O \in SUBSET Did : Typed(x, Alike(E, O, x.torn))

LEMMA AlikeClosed ==
  ASSUME NEW E, NEW O, NEW broken
  PROVE  Closed(Alike(E, O, broken)) /\ Alike(E, O, broken) \subseteq Trace
BY DEF Closed, Alike

LEMMA ReworkedInStep ==
  ASSUME NEW x, NEW y, InStep(x),
         \A T : Closed(T) /\ Typed(x, T) => Typed(y, T) /\ y.torn = x.torn
  PROVE  InStep(y)
<1>1. PICK E, O \in SUBSET Did : Typed(x, Alike(E, O, x.torn))
  BY DEF InStep
<1>2. Typed(y, Alike(E, O, x.torn)) /\ y.torn = x.torn
  BY <1>1, AlikeClosed
<1> QED
  BY <1>2 DEF InStep

LEMMA LeavesInStep ==
  ASSUME IInv, InStep(Start), \A T : Holds(T) => Leaves(T)
  PROVE  InStep(Left)
<1>1. \A T : Closed(T) /\ Typed(Start, T) => Typed(Left, T) /\ Left.torn = Start.torn
  BY StartIs DEF Holds, Leaves, Reworked, Sound
<1> QED
  BY <1>1, ReworkedInStep

LEMMA FinishInStep ==
  ASSUME NEW x, Weighed(x), InStep(x), Finish(x)
  PROVE  InStep(Left)
<1>1. \A T : Closed(T) /\ Typed(x, T) => Typed(Left, T) /\ Left.torn = x.torn
  BY FinishKept DEF Reworked
<1> QED
  BY <1>1, ReworkedInStep

LEMMA IncorporateInStep ==
  ASSUME NEW x, Weighed(x), InStep(x), NEW s
  PROVE  InStep(incorporate(x, s))
<1>1. \A T : Closed(T) /\ Typed(x, T) =>
        Typed(incorporate(x, s), T) /\ incorporate(x, s).torn = x.torn
  BY IncorporateKept DEF Reworked
<1> QED
  BY <1>1, ReworkedInStep

(* A directive that fails is broken.                                       *)
LEMMA TearTorn ==
  ASSUME NEW T, NEW x, Typed(x, T), NEW d \in Did
  PROVE  Tear(x, d).torn = IF x.failed THEN x.torn \cup {d} ELSE x.torn
BY DEF Tear, Typed, Works

LEMMA AlikeBreaks ==
  ASSUME NEW E, NEW O, NEW broken, NEW d, d \notin E, d \notin O
  PROVE  Alike(E, O, broken) \subseteq Alike(E, O, broken \cup {d})
<1> SUFFICES ASSUME NEW t \in Alike(E, O, broken)
             PROVE  t \in Alike(E, O, broken \cup {d})
  OBVIOUS
<1>1. t \in Trace /\ t.evaluated \ broken = E /\ t.observed \ broken = O
  BY DEF Alike
<1>2. t.evaluated \ (broken \cup {d}) = E /\ t.observed \ (broken \cup {d}) = O
  BY <1>1
<1> QED
  BY <1>1, <1>2 DEF Alike

LEMMA TearInStep ==
  ASSUME NEW x, InStep(x), NEW d \in Did
  PROVE  InStep(Tear(x, d))
<1>1. PICK E, O \in SUBSET Did : Typed(x, Alike(E, O, x.torn))
  BY DEF InStep
<1> DEFINE T == Alike(E, O, x.torn)
<1>2. Typed(Tear(x, d), T) /\ Tear(x, d).torn = IF x.failed THEN x.torn \cup {d} ELSE x.torn
  <2> HIDE DEF T
  <2> QED
    BY <1>1, TearKept, TearTorn DEF T
<1>3. CASE ~x.failed
  BY <1>2, <1>3 DEF InStep
<1>4. CASE x.failed
  <2> DEFINE U == Alike(E \ {d}, O \ {d}, x.torn \cup {d})
  <2>1. T \subseteq U
    <3> SUFFICES ASSUME NEW t \in T PROVE t \in U
      OBVIOUS
    <3>1. t \in Trace /\ t.evaluated \ x.torn = E /\ t.observed \ x.torn = O
      BY DEF Alike
    <3>2. /\ t.evaluated \ (x.torn \cup {d}) = E \ {d}
          /\ t.observed \ (x.torn \cup {d}) = O \ {d}
      BY <3>1
    <3> QED
      BY <3>1, <3>2 DEF Alike
  <2> HIDE DEF T, U
  <2>2. Typed(Tear(x, d), U)
    BY <1>2, <2>1, TypedGrows
  <2> QED
    BY <1>2, <1>4, <2>2 DEF InStep, U
<1> QED
  BY <1>3, <1>4

(* All that holds of a typed state whose model's traces are in T, too.     *)
LEMMA Retyped ==
  ASSUME NEW T, NEW U, NEW x, Typed(x, U), x.loop \in Loops(T) \cup {None},
         \A i \in Particles(x.model) : x.model.traces[i] \in T
  PROVE  Typed(x, T)
<1>1. x \in Works(U) /\ x.model \in Models(U) /\ x.model.traces \in Seq(U) /\ Placed(x.model, x.loop)
  BY DEF Typed, Works, Models
<1>2. \A i \in 1..Len(x.model.traces) : x.model.traces[i] \in T
  BY <1>1 DEF Particles
<1>3. x.model.traces \in Seq(T)
  BY <1>1, <1>2
<1>4. x.model \in Models(T)
  BY <1>1, <1>3 DEF Models
<1>5. x \in Works(T)
  BY <1>1, <1>4 DEF Works
<1> QED
  BY <1>1, <1>5 DEF Typed

LEMMA TypedBoth ==
  ASSUME NEW T, NEW U, NEW x, Typed(x, T), Typed(x, U)
  PROVE  Typed(x, T \cap U)
<1>1. \A s : s \in Seq(T) /\ s \in Seq(U) => s \in Seq(T \cap U)
  <2> SUFFICES ASSUME NEW s, s \in Seq(T), s \in Seq(U) PROVE s \in Seq(T \cap U)
    OBVIOUS
  <2>1. \A i \in 1..Len(s) : s[i] \in T \cap U
    OBVIOUS
  <2> QED
    BY <2>1
<1>2. x \in Works(T) /\ x \in Works(U)
  BY DEF Typed
<1>3. x.loop \in Loops(T \cap U) \cup {None}
  <2>1. ASSUME NEW l, l \in Loops(T), l \in Loops(U) PROVE l \in Loops(T \cap U)
    <3>1. l.originals \in Seq(T \cap U) /\ l.done \in Seq(T \cap U)
      <4>1. l.originals \in Seq(T) /\ l.originals \in Seq(U) /\ l.done \in Seq(T) /\ l.done \in Seq(U)
        BY <2>1 DEF Loops
      <4> QED
        BY <1>1, <4>1
    <3>2. l = [each |-> l.each, mode |-> l.mode, at |-> l.at, self |-> l.self, originals |-> l.originals,
               weights |-> l.weights, done |-> l.done, doneWeights |-> l.doneWeights]
      BY <2>1 DEF Loops
    <3>3. /\ l.each \in BOOLEAN /\ l.mode \in Mode /\ l.at \in Nat /\ l.self \in Nat
          /\ l.weights \in Seq(Weight) /\ l.doneWeights \in Seq(Weight)
      BY <2>1 DEF Loops
    <3> QED
      BY <3>1, <3>2, <3>3 DEF Loops
  <2>2. x.loop \in Loops(T) \cup {None} /\ x.loop \in Loops(U) \cup {None}
    BY <1>2 DEF Works
  <2> QED
    BY <2>1, <2>2
<1>4. \A i \in Particles(x.model) : x.model.traces[i] \in T \cap U
  BY TracesTyped
<1> QED
  BY <1>3, <1>4, Retyped

(* A new directive is in none of the traces.                               *)
LEMMA NewDirective ==
  ASSUME NEW x, NEW c \in Nat, Sound(x, c), InStep(x)
  PROVE  \E E, O \in SUBSET Did :
           c + 1 \notin E /\ c + 1 \notin O /\ Typed(x, Alike(E, O, x.torn))
<1>1. PICK E, O \in SUBSET Did : Typed(x, Alike(E, O, x.torn))
  BY DEF InStep
<1> DEFINE d == c + 1
           T == Alike(E, O, x.torn)
           U == Fitting(x.model.labelToDid, x.model.didToLabel, c)
           V == Alike(E \ {d}, O \ {d}, x.torn)
<1>2. T \cap U \subseteq V
  <2> SUFFICES ASSUME NEW t \in T, t \in U PROVE t \in V
    OBVIOUS
  <2>1. directives(t) \subseteq 1..c /\ d \notin 1..c
    BY DEF Fitting
  <2>2. d \notin t.evaluated /\ d \notin t.observed
    BY <2>1 DEF directives
  <2>3. t \in Trace /\ t.evaluated \ x.torn = E /\ t.observed \ x.torn = O
    BY DEF Alike
  <2>4. E \ {d} = E /\ O \ {d} = O
    BY <2>2, <2>3
  <2> QED
    BY <2>3, <2>4 DEF Alike
<1>3. Typed(x, U)
  BY DEF Sound
<1> HIDE DEF T, U, V
<1>4. Typed(x, T \cap U)
  BY <1>1, <1>3, TypedBoth DEF T
<1>5. Typed(x, V)
  BY <1>2, <1>4, TypedGrows
<1> QED
  BY <1>5 DEF V

(* Telling a directive that is new.                                        *)
LEMMA ToldAlike ==
  ASSUME NEW E, NEW O, NEW broken, NEW d \in Did, d \notin E, d \notin O,
         NEW t \in Alike(E, O, broken)
  PROVE  /\ Evaluated(t, d) \in Alike(E, O, broken \cup {d})
         /\ Observed(t, d) \in Alike(E, O, broken \cup {d})
         /\ Evaluated(t, d) \in Alike(E \cup ({d} \ broken), O, broken)
         /\ Observed(t, d) \in Alike(E, O \cup ({d} \ broken), broken)
<1>1. t \in Trace /\ t.evaluated \ broken = E /\ t.observed \ broken = O
  BY DEF Alike
<1>2. /\ Evaluated(t, d) \in Trace /\ Evaluated(t, d).evaluated = t.evaluated \cup {d}
      /\ Evaluated(t, d).observed = t.observed
  BY <1>1 DEF Evaluated, Trace
<1>3. /\ Observed(t, d) \in Trace /\ Observed(t, d).observed = t.observed \cup {d}
      /\ Observed(t, d).evaluated = t.evaluated
  <2>1. /\ Observed(t, d).observed = t.observed \cup {d} /\ Observed(t, d).evaluated = t.evaluated
        /\ Observed(t, d).pending = t.pending \cup {d} /\ Observed(t, d).due = t.due \cup {d}
    BY <1>1 DEF Observed, Trace
  <2>2. Observed(t, d) \in Trace
    BY <1>1 DEF Observed, Trace
  <2> QED
    BY <2>1, <2>2
<1>4. /\ (t.evaluated \cup {d}) \ (broken \cup {d}) = E /\ t.evaluated \ (broken \cup {d}) = E
      /\ (t.observed \cup {d}) \ (broken \cup {d}) = O /\ t.observed \ (broken \cup {d}) = O
  BY <1>1
<1>5. /\ (t.evaluated \cup {d}) \ broken = E \cup ({d} \ broken)
      /\ (t.observed \cup {d}) \ broken = O \cup ({d} \ broken)
  BY <1>1
<1> QED
  BY <1>1, <1>2, <1>3, <1>4, <1>5 DEF Alike

LEMMA ForgottenAlike ==
  ASSUME NEW E, NEW O, NEW broken, NEW d
  PROVE  /\ \A t \in Alike(E, O, broken) : Forgotten(t, d) \in Alike(E \ {d}, O \ {d}, broken)
         /\ d \notin E /\ d \notin O =>
              \A t \in Alike(E, O, broken \cup {d}) : Forgotten(t, d) \in Alike(E, O, broken)
<1>1. ASSUME NEW t \in Trace
      PROVE  /\ Forgotten(t, d) \in Trace /\ Forgotten(t, d).evaluated = t.evaluated \ {d}
             /\ Forgotten(t, d).observed = t.observed \ {d}
  BY <1>1 DEF Forgotten, Trace
<1>2. ASSUME NEW t \in Alike(E, O, broken)
      PROVE  Forgotten(t, d) \in Alike(E \ {d}, O \ {d}, broken)
  <2>1. t \in Trace /\ t.evaluated \ broken = E /\ t.observed \ broken = O
    BY DEF Alike
  <2>2. (t.evaluated \ {d}) \ broken = E \ {d} /\ (t.observed \ {d}) \ broken = O \ {d}
    BY <2>1
  <2> QED
    BY <1>1, <2>1, <2>2 DEF Alike
<1>3. ASSUME NEW t \in Alike(E, O, broken \cup {d})
      PROVE  Forgotten(t, d) \in Alike(E, O, broken)
  <2>1. t \in Trace /\ t.evaluated \ (broken \cup {d}) = E /\ t.observed \ (broken \cup {d}) = O
    BY DEF Alike
  <2>2. (t.evaluated \ {d}) \ broken = E /\ (t.observed \ {d}) \ broken = O
    BY <2>1
  <2> QED
    BY <1>1, <2>1, <2>2 DEF Alike
<1> QED
  BY <1>2, <1>3

LEMMA TellAlike ==
  ASSUME NEW x, NEW E, NEW O, Typed(x, Alike(E, O, x.torn)),
         E \in SUBSET Did, O \in SUBSET Did, NEW d \in Did, d \notin E, d \notin O, NEW s, NEW y,
         y \in {evaluate(x, s, d), observe(x, s, d)}
  PROVE  /\ Typed(y, Alike(E, O, x.torn \cup {d}))
         /\ y.torn = IF y.failed THEN x.torn \cup {d} ELSE x.torn
         /\ x.loop = None => InStep(y)
<1> DEFINE k == s \cup Having(x, d)
           T == Alike(E, O, x.torn)
           U == Alike(E, O, x.torn \cup {d})
<1>0. PICK after :
        /\ y = Tear(Map(x, k, after), d)
        /\ \E E2, O2 \in SUBSET Did :
             \A i \in Particles(x.model) : after[i] \in U /\ after[i] \in Alike(E2, O2, x.torn)
  <2>1. ASSUME NEW i \in Particles(x.model)
        PROVE  /\ Evaluated(x.model.traces[i], d) \in U
               /\ Observed(x.model.traces[i], d) \in U
               /\ Evaluated(x.model.traces[i], d) \in Alike(E \cup ({d} \ x.torn), O, x.torn)
               /\ Observed(x.model.traces[i], d) \in Alike(E, O \cup ({d} \ x.torn), x.torn)
    <3>1. x.model.traces[i] \in T
      <4> HIDE DEF T
      <4> QED
        BY TracesTyped DEF T
    <3> QED
      BY <3>1, ToldAlike
  <2>2. CASE y = evaluate(x, s, d)
    <3> WITNESS [i \in Particles(x.model) |-> Evaluated(x.model.traces[i], d)]
    <3>1. E \cup ({d} \ x.torn) \in SUBSET Did
      OBVIOUS
    <3> QED
      BY <2>1, <2>2, <3>1 DEF evaluate
  <2>3. CASE y = observe(x, s, d)
    <3> WITNESS [i \in Particles(x.model) |-> Observed(x.model.traces[i], d)]
    <3>1. O \cup ({d} \ x.torn) \in SUBSET Did
      OBVIOUS
    <3> QED
      BY <2>1, <2>3, <3>1 DEF observe
  <2> QED
    BY <2>2, <2>3
<1>1. PICK E2, O2 \in SUBSET Did :
        \A i \in Particles(x.model) : after[i] \in U /\ after[i] \in Alike(E2, O2, x.torn)
  BY <1>0
<1> DEFINE z == Map(x, k, after)
           V == Alike(E2, O2, x.torn)
<1>2. Typed(x, U)
  <2>1. T \subseteq U
    BY AlikeBreaks
  <2> HIDE DEF T, U
  <2> QED
    BY <2>1, TypedGrows DEF T
<1>3. /\ Redone(x, z, U) /\ z.failed = (k # {}) /\ z.torn = x.torn
      /\ \A i \in Particles(x.model) : z.model.traces[i] = IF i \in Ran(x.model, k) THEN after[i] ELSE x.model.traces[i]
  <2>1. \A i \in Ran(x.model, k) : after[i] \in U
    BY <1>1 DEF Ran
  <2> HIDE DEF U, k
  <2> QED
    BY <1>2, <2>1, MapKept
<1> HIDE DEF z, k, U
<1>4. Typed(z, U)
  BY <1>3 DEF Redone
<1>5. /\ Typed(y, U) /\ y.model = z.model /\ y.loop = x.loop /\ y.failed = z.failed
      /\ y.torn = IF z.failed THEN x.torn \cup {d} ELSE x.torn
  BY <1>0, <1>3, <1>4, TearKept, TearTorn DEF z, Redone
<1>6. ASSUME x.loop = None PROVE InStep(y)
  <2>1. CASE y.failed
    BY <1>5, <2>1 DEF InStep, U
  <2>2. CASE ~y.failed
    <3>1. Ran(x.model, k) = Particles(x.model)
      BY <1>3, <1>5, <2>2 DEF Ran
    <3>2. \A i \in Particles(y.model) : y.model.traces[i] \in V
      <4>1. Particles(y.model) = Particles(x.model)
        BY <1>3, <1>5 DEF Redone, Particles
      <4> HIDE DEF V
      <4> QED
        BY <1>1, <1>3, <1>5, <3>1, <4>1 DEF V
    <3> HIDE DEF V
    <3>3. Typed(y, V)
      BY <1>5, <1>6, <3>2, Retyped
    <3> QED
      BY <1>5, <2>2, <3>3 DEF InStep, V
  <2> QED
    BY <2>1, <2>2
<1> QED
  BY <1>5, <1>6 DEF U

(* A label is put or taken away.                                           *)
Relabelled(x, l2d, d2l) ==
  [x EXCEPT !.model = [x.model EXCEPT !.labelToDid = l2d, !.didToLabel = d2l]]

Unmoved(x, y) ==
  /\ y.loop = x.loop /\ y.failed = x.failed
  /\ y.model.traces = x.model.traces /\ y.model.weights = x.model.weights

LEMMA LabelTyped ==
  ASSUME NEW T, NEW x, Typed(x, T), NEW l2d \in [Label -> Did \cup {0}],
         NEW d2l \in [Did -> Label \cup {None}]
  PROVE  /\ Typed(Relabelled(x, l2d, d2l), T)
         /\ Relabelled(x, l2d, d2l).torn = x.torn
         /\ Weighed(x) => Weighed(Relabelled(x, l2d, d2l))
         /\ Unmoved(x, Relabelled(x, l2d, d2l))
<1> DEFINE y == Relabelled(x, l2d, d2l)
           m == [x.model EXCEPT !.labelToDid = l2d, !.didToLabel = d2l]
<1>1. x \in Works(T) /\ x.model \in Models(T) /\ Placed(x.model, x.loop)
  BY DEF Typed, Works
<1>2. m \in Models(T) /\ m.traces = x.model.traces /\ m.weights = x.model.weights
  BY <1>1 DEF Models
<1> HIDE DEF m
<1>3. /\ y \in Works(T) /\ y.model = m /\ y.torn = x.torn /\ y.loop = x.loop
      /\ y.failed = x.failed
  BY <1>1, <1>2 DEF Works, m, Relabelled
<1> HIDE DEF y
<1> QED
  BY <1>1, <1>2, <1>3 DEF Typed, Placed, Weighed, Unmoved, y

LEMMA PutTyped ==
  ASSUME NEW T, NEW x, Typed(x, T), NEW l \in Label \cup {None}, NEW d \in Did
  PROVE  /\ Typed(Put(x, l, d), T) /\ Put(x, l, d).torn = x.torn
         /\ Weighed(x) => Weighed(Put(x, l, d))
         /\ Unmoved(x, Put(x, l, d))
<1>1. CASE x.failed \/ l = None
  BY <1>1 DEF Put, Unmoved
<1>2. CASE ~x.failed /\ l # None
  <2> DEFINE l2d == [x.model.labelToDid EXCEPT ![l] = d]
             d2l == [x.model.didToLabel EXCEPT ![d] = l]
  <2>1. x \in Works(T) /\ x.model \in Models(T)
    BY DEF Typed, Works
  <2>2. l2d \in [Label -> Did \cup {0}] /\ d2l \in [Did -> Label \cup {None}]
    BY <1>2, <2>1 DEF Models
  <2>3. Put(x, l, d) = Relabelled(x, l2d, d2l)
    BY <1>2, <2>1 DEF Put, Relabelled, Works, Models
  <2> HIDE DEF l2d, d2l
  <2> QED
    BY <2>2, <2>3, LabelTyped
<1> QED
  BY <1>1, <1>2

LEMMA PutInStep ==
  ASSUME NEW x, InStep(x), NEW l \in Label \cup {None}, NEW d \in Did
  PROVE  InStep(Put(x, l, d))
<1>1. PICK E, O \in SUBSET Did : Typed(x, Alike(E, O, x.torn))
  BY DEF InStep
<1>2. Typed(Put(x, l, d), Alike(E, O, x.torn)) /\ Put(x, l, d).torn = x.torn
  BY <1>1, PutTyped
<1> QED
  BY <1>2 DEF InStep

LEMMA UnputTyped ==
  ASSUME NEW T, NEW x, Typed(x, T), NEW l \in Label, NEW y, y = [x EXCEPT !.model.labelToDid[l] = 0]
  PROVE  Typed(y, T) /\ y.torn = x.torn /\ (Weighed(x) => Weighed(y)) /\ Unmoved(x, y)
<1> DEFINE l2d == [x.model.labelToDid EXCEPT ![l] = 0]
           d2l == x.model.didToLabel
<1>1. x \in Works(T) /\ x.model \in Models(T)
  BY DEF Typed, Works
<1>2. l2d \in [Label -> Did \cup {0}] /\ d2l \in [Did -> Label \cup {None}]
  BY <1>1 DEF Models
<1>3. y = Relabelled(x, l2d, d2l)
  BY <1>1 DEF Relabelled, Works, Models
<1> HIDE DEF l2d, d2l
<1> QED
  BY <1>2, <1>3, LabelTyped

(* forget, where all the traces it leaves are in T.                        *)
LEMMA ForgetTyped ==
  ASSUME NEW T, T \subseteq Trace, NEW x, Typed(x, Trace), x.loop \in Loops(T) \cup {None},
         NEW d \in Did,
         \A i \in Particles(x.model) : Forgotten(x.model.traces[i], d) \in T,
         Everywhere(x, d) \/ \A i \in Particles(x.model) : x.model.traces[i] \in T
  PROVE  /\ Typed(forget(x, d), T) /\ forget(x, d).torn = x.torn
         /\ Weighed(x) => Weighed(forget(x, d))
<1> DEFINE k == Particles(x.model) \ Having(x, d)
           after == [i \in Particles(x.model) |-> Forgotten(x.model.traces[i], d)]
           z == Map(x, k, after)
<1>1. /\ Redone(x, z, Trace) /\ z.torn = x.torn
      /\ \A i \in Particles(x.model) : z.model.traces[i] = IF i \in Ran(x.model, k) THEN after[i] ELSE x.model.traces[i]
  <2>1. \A i \in Ran(x.model, k) : after[i] \in Trace
    BY DEF Ran
  <2> HIDE DEF after, k
  <2> QED
    BY <2>1, MapKept
<1>2. \A i \in Particles(z.model) : z.model.traces[i] \in T
  <2>1. Particles(z.model) = Particles(x.model)
    BY <1>1 DEF Redone, Particles
  <2>2. CASE Everywhere(x, d)
    <3>1. k = {}
      BY <2>2 DEF Everywhere, Having
    <3>2. Ran(x.model, k) = Particles(x.model)
      BY <3>1 DEF Ran
    <3> HIDE DEF z, k
    <3> QED
      BY <1>1, <2>1, <3>2
  <2>3. CASE \A i \in Particles(x.model) : x.model.traces[i] \in T
    <3> HIDE DEF z, k
    <3> QED
      BY <1>1, <2>1, <2>3
  <2> QED
    BY <2>2, <2>3
<1> HIDE DEF z, k, after
<1>3. Typed(z, T)
  BY <1>1, <1>2, Retyped DEF Redone
<1>4. CASE z.failed
  <2>1. forget(x, d) = z
    BY <1>4 DEF forget, Then, z, k, after
  <2> QED
    BY <1>1, <1>3, <2>1 DEF Redone, Weighed
<1>5. CASE ~z.failed
  <2> DEFINE l2d == z.model.labelToDid
             d2l == [z.model.didToLabel EXCEPT ![d] = None]
  <2>1. z \in Works(T) /\ z.model \in Models(T)
    BY <1>3 DEF Typed, Works
  <2>2. l2d \in [Label -> Did \cup {0}] /\ d2l \in [Did -> Label \cup {None}]
    BY <2>1 DEF Models
  <2>3. [z EXCEPT !.model.didToLabel[d] = None] = Relabelled(z, l2d, d2l)
    BY <2>1 DEF Relabelled, Works, Models
  <2>4. forget(x, d) = [z EXCEPT !.model.didToLabel[d] = None]
    BY <1>5 DEF forget, Then, Unlabelled, z, k, after
  <2> HIDE DEF l2d, d2l
  <2>5. /\ Typed(forget(x, d), T) /\ forget(x, d).torn = z.torn
        /\ Weighed(z) => Weighed(forget(x, d))
    BY <1>3, <2>2, <2>3, <2>4, LabelTyped
  <2> QED
    BY <1>1, <2>5 DEF Redone, Weighed
<1> QED
  BY <1>4, <1>5

-----------------------------------------------------------------------------
(* The instructions that add or remove directives.                         *)
LEMMA BrokenInStep ==
  ASSUME NEW x, NEW E, NEW O, NEW broken, NEW d \in Did, E \in SUBSET Did, O \in SUBSET Did,
         Typed(x, Alike(E, O, broken \cup {d})), x.torn = broken \cup {d}
  PROVE  InStep(x)
BY DEF InStep

LEMMA EvaluateInStep ==
  ASSUME IInv, InStep(Start), NEW l \in Label \cup {None}, NEW s, Evaluate(l, s)
  PROVE  InStep(Left)
<1> DEFINE d == counter + 1
           y == evaluate(Start, s, d)
<1>1. Start.loop = None /\ d \in Did /\ d = Next1 /\ counter \in Nat /\ Finish(Put(y, l, d))
  BY NumberedIs, StartIs DEF Evaluate
<1>2. Sound(y, d)
  BY <1>1, StartIs, TellSound
<1>3. InStep(y)
  <2>1. PICK E, O \in SUBSET Did : d \notin E /\ d \notin O /\ Typed(Start, Alike(E, O, Start.torn))
    BY <1>1, StartIs, NewDirective
  <2> QED
    BY <1>1, <2>1, TellAlike
<1> HIDE DEF d, y
<1>4. Weighed(Put(y, l, d)) /\ InStep(Put(y, l, d))
  BY <1>1, <1>2, <1>3, PutTyped, PutInStep DEF Sound
<1> QED
  BY <1>1, <1>4, FinishInStep

LEMMA ObserveInStep ==
  ASSUME IInv, InStep(Start), NEW l \in Label \cup {None}, NEW s, NEW r, Observe(l, s, r)
  PROVE  InStep(Left)
<1> DEFINE d == counter + 1
           y == observe(Start, s, d)
           x == Put(y, l, d)
           u == incorporate(x, r)
           z == Tear(u, d)
<1>1. Start.loop = None /\ d \in Did /\ d = Next1 /\ counter \in Nat /\ Finish(Then(x, z))
  BY NumberedIs, StartIs DEF Observe
<1>2. Sound(y, d)
  BY <1>1, StartIs, TellSound
<1>3. InStep(y)
  <2>1. PICK E, O \in SUBSET Did : d \notin E /\ d \notin O /\ Typed(Start, Alike(E, O, Start.torn))
    BY <1>1, StartIs, NewDirective
  <2> QED
    BY <1>1, <2>1, TellAlike
<1> HIDE DEF d, y
<1>4. Weighed(x) /\ InStep(x)
  BY <1>1, <1>2, <1>3, PutTyped, PutInStep DEF Sound
<1> HIDE DEF x
<1>5. InStep(u) /\ Weighed(u)
  <2>1. PICK E, O \in SUBSET Did : Typed(x, Alike(E, O, x.torn))
    BY <1>4 DEF InStep
  <2> QED
    BY <1>4, <2>1, AlikeClosed, IncorporateInStep, IncorporateKept DEF Reworked
<1> HIDE DEF u
<1>6. InStep(z)
  BY <1>1, <1>5, TearInStep
<1>7. Weighed(z)
  <2>1. PICK E, O \in SUBSET Did : Typed(u, Alike(E, O, u.torn))
    BY <1>5 DEF InStep
  <2> QED
    BY <1>1, <1>5, <2>1, TearKept DEF Weighed
<1> HIDE DEF z
<1>8. InStep(Then(x, z)) /\ Weighed(Then(x, z))
  BY <1>4, <1>6, <1>7 DEF Then
<1> QED
  BY <1>1, <1>8, FinishInStep

(* forget fails in some particles only where the directive is broken.      *)
LEMMA ForgetKept ==
  ASSUME NEW x, Weighed(x), InStep(x), x.loop = None, NEW d \in Did, Having(x, d) # {}
  PROVE  InStep(forget(x, d)) /\ Weighed(forget(x, d))
<1>1. PICK E, O \in SUBSET Did : Typed(x, Alike(E, O, x.torn))
  BY DEF InStep
<1> DEFINE T == Alike(E \ {d}, O \ {d}, x.torn)
           W == Alike(E, O, x.torn)
<1>2. \A i \in Particles(x.model) : x.model.traces[i] \in W
  <2> HIDE DEF W
  <2> QED
    BY <1>1, TracesTyped DEF W
<1>3. \A i \in Particles(x.model) : Forgotten(x.model.traces[i], d) \in T
  BY <1>2, ForgottenAlike
<1>4. Everywhere(x, d) \/ \A i \in Particles(x.model) : x.model.traces[i] \in T
  <2> SUFFICES ASSUME ~Everywhere(x, d)
               PROVE  \A i \in Particles(x.model) : x.model.traces[i] \in T
    OBVIOUS
  <2>1. PICK i \in Particles(x.model) : d \in directives(x.model.traces[i])
    BY DEF Having
  <2>2. PICK j \in Particles(x.model) : d \notin directives(x.model.traces[j])
    BY DEF Everywhere
  <2>3. /\ x.model.traces[i].evaluated \ x.torn = E /\ x.model.traces[i].observed \ x.torn = O
        /\ x.model.traces[j].evaluated \ x.torn = E /\ x.model.traces[j].observed \ x.torn = O
    BY <1>2 DEF Alike
  <2>4. d \notin E /\ d \notin O
    BY <2>2, <2>3 DEF directives
  <2>5. E \ {d} = E /\ O \ {d} = O
    BY <2>4
  <2> QED
    BY <1>2, <2>5
<1>5. Typed(x, Trace)
  <2>1. W \subseteq Trace
    BY AlikeClosed
  <2> HIDE DEF W
  <2> QED
    BY <1>1, <2>1, TypedGrows DEF W
<1>6. T \subseteq Trace
  BY AlikeClosed
<1>7. Typed(forget(x, d), T) /\ forget(x, d).torn = x.torn /\ Weighed(forget(x, d))
  <2> HIDE DEF T
  <2> QED
    BY <1>3, <1>4, <1>5, <1>6, ForgetTyped
<1> QED
  BY <1>7 DEF InStep

LEMMA ForgetInStep ==
  ASSUME IInv, InStep(Start), NEW d \in Did, Forget(d)
  PROVE  InStep(Left)
<1>1. InStep(forget(Start, d)) /\ Weighed(forget(Start, d))
  BY StartIs, ForgetKept DEF Forget, Sound
<1> QED
  BY <1>1, FinishInStep DEF Forget

LEMMA ForgetLabeledInStep ==
  ASSUME IInv, InStep(Start), NEW l \in Label, ForgetLabeled(l)
  PROVE  InStep(Left)
<1> DEFINE d == model.labelToDid[l]
           x == forget(Start, d)
           y == [x EXCEPT !.model.labelToDid[l] = 0]
<1>1. loop = None /\ d # 0 /\ Having(Start, d) # {} /\ Finish(Then(x, y))
  BY DEF ForgetLabeled
<1>2. d \in Did
  <2>1. model.labelToDid \in [Label -> Did \cup {0}]
    BY StartIs DEF Sound, Typed, Works, Models
  <2> QED
    BY <1>1, <2>1
<1>3. InStep(x) /\ Weighed(x)
  BY <1>1, <1>2, StartIs, ForgetKept DEF Sound
<1> HIDE DEF x, d
<1>4. InStep(y) /\ Weighed(y)
  <2>1. PICK E, O \in SUBSET Did : Typed(x, Alike(E, O, x.torn))
    BY <1>3 DEF InStep
  <2>2. Typed(y, Alike(E, O, x.torn)) /\ y.torn = x.torn /\ Weighed(y)
    BY <1>3, <2>1, UnputTyped
  <2> QED
    BY <2>2 DEF InStep
<1> HIDE DEF y
<1>5. InStep(Then(x, y)) /\ Weighed(Then(x, y))
  BY <1>3, <1>4 DEF Then
<1> QED
  BY <1>1, <1>5, FinishInStep

(* What is told and forgotten again leaves the traces as they were, with   *)
(* the loop that is under way.                                             *)
LEMMA ForgetAgainInStep ==
  ASSUME NEW w, NEW E, NEW O, Typed(w, Alike(E, O, w.torn)),
         E \in SUBSET Did, O \in SUBSET Did, NEW d \in Did, d \notin E, d \notin O,
         NEW x, Typed(x, Alike(E, O, w.torn \cup {d})), x.loop = w.loop, x.torn = w.torn,
         Weighed(x), Everywhere(x, d)
  PROVE  InStep(forget(x, d)) /\ Weighed(forget(x, d))
<1> DEFINE T == Alike(E, O, w.torn)
           U == Alike(E, O, w.torn \cup {d})
<1>1. Typed(x, Trace)
  <2>1. U \subseteq Trace
    BY AlikeClosed
  <2> HIDE DEF U
  <2> QED
    BY <2>1, TypedGrows DEF U
<1>2. x.loop \in Loops(T) \cup {None}
  BY DEF Typed, Works
<1>3. \A i \in Particles(x.model) : Forgotten(x.model.traces[i], d) \in T
  <2>1. \A i \in Particles(x.model) : x.model.traces[i] \in U
    <3> HIDE DEF U
    <3> QED
      BY TracesTyped DEF U
  <2> QED
    BY <2>1, ForgottenAlike
<1>4. T \subseteq Trace
  BY AlikeClosed
<1>5. Typed(forget(x, d), T) /\ forget(x, d).torn = x.torn /\ Weighed(forget(x, d))
  <2> HIDE DEF T
  <2> QED
    BY <1>1, <1>2, <1>3, <1>4, ForgetTyped
<1> QED
  BY <1>5 DEF InStep

LEMMA SampleInStep ==
  ASSUME IInv, InStep(Start), NEW s, Sample(s)
  PROVE  InStep(Left)
<1> DEFINE d == counter + 1
           x == evaluate(Start, s, d)
<1>1. d \in Did /\ d = Next1 /\ counter \in Nat /\ Finish(forgetAgain(x, d))
  BY NumberedIs, StartIs DEF Sample
<1>2. Sound(x, d) /\ x.loop = Start.loop /\ (~x.failed => Everywhere(x, d))
  BY <1>1, StartIs, TellSound
<1>3. PICK E, O \in SUBSET Did : d \notin E /\ d \notin O /\ Typed(Start, Alike(E, O, Start.torn))
  BY <1>1, StartIs, NewDirective
<1>4. /\ Typed(x, Alike(E, O, Start.torn \cup {d}))
      /\ x.torn = IF x.failed THEN Start.torn \cup {d} ELSE Start.torn
  BY <1>1, <1>3, TellAlike
<1> HIDE DEF d, x
<1>5. CASE x.failed
  <2>1. InStep(x) /\ Weighed(x)
    BY <1>1, <1>2, <1>4, <1>5, BrokenInStep DEF Sound
  <2> QED
    BY <1>1, <1>5, <2>1, FinishInStep DEF forgetAgain, Then
<1>6. CASE ~x.failed
  <2>1. InStep(forget(x, d)) /\ Weighed(forget(x, d))
    BY <1>1, <1>2, <1>3, <1>4, <1>6, ForgetAgainInStep DEF Sound
  <2> QED
    BY <1>1, <1>6, <2>1, FinishInStep DEF forgetAgain, Then
<1> QED
  BY <1>5, <1>6

LEMMA ForceInStep ==
  ASSUME IInv, InStep(Start), NEW s, NEW r, ForceValue(s, r)
  PROVE  InStep(Left)
<1> DEFINE d == counter + 1
           x == observe(Start, s, d)
           u == incorporate(x, r)
           y == Tear(u, d)
<1>1. d \in Did /\ d = Next1 /\ counter \in Nat /\ Finish(Then(x, forgetAgain(y, d)))
  BY NumberedIs, StartIs DEF ForceValue
<1>2. Sound(x, d) /\ x.loop = Start.loop /\ (~x.failed => Everywhere(x, d))
  BY <1>1, StartIs, TellSound
<1>3. PICK E, O \in SUBSET Did : d \notin E /\ d \notin O /\ Typed(Start, Alike(E, O, Start.torn))
  BY <1>1, StartIs, NewDirective
<1> DEFINE T == Alike(E, O, Start.torn \cup {d})
<1>4. Typed(x, T) /\ x.torn = IF x.failed THEN Start.torn \cup {d} ELSE Start.torn
  BY <1>1, <1>3, TellAlike
<1> HIDE DEF d, x, T
<1>5. CASE x.failed
  <2>1. InStep(x) /\ Weighed(x)
    BY <1>1, <1>2, <1>4, <1>5, BrokenInStep DEF Sound, T
  <2> QED
    BY <1>1, <1>5, <2>1, FinishInStep DEF Then
<1>6. CASE ~x.failed
  <2>1. /\ Typed(u, T) /\ Weighed(u) /\ u.torn = Start.torn /\ u.loop = x.loop
        /\ u.failed = (r # {}) /\ Len(u.model.traces) = Len(x.model.traces)
        /\ r = {} => \A i \in Particles(x.model) : u.model.traces[i] = Incorporated(x.model.traces[i])
    <3>1. Closed(T)
      BY AlikeClosed DEF T
    <3>2. /\ Reworked(x, u, T) /\ u.loop = x.loop /\ u.failed = (r # {})
          /\ Len(u.model.traces) = Len(x.model.traces)
          /\ r = {} => \A i \in Particles(x.model) : u.model.traces[i] = Incorporated(x.model.traces[i])
      BY <1>2, <1>4, <3>1, IncorporateKept DEF Sound
    <3> QED
      BY <1>4, <1>6, <3>2 DEF Reworked
  <2>2. CASE r # {}
    <3> HIDE DEF u
    <3>1. /\ Typed(y, T) /\ Weighed(y) /\ y.failed /\ y.torn = Start.torn \cup {d}
      <4>1. Typed(y, T) /\ y.model = u.model /\ y.failed = u.failed
        BY <1>1, <2>1, TearKept
      <4>2. y.torn = IF u.failed THEN u.torn \cup {d} ELSE u.torn
        BY <1>1, <2>1, TearTorn
      <4>3. u.failed
        BY <2>1, <2>2
      <4> HIDE DEF y
      <4> QED
        BY <2>1, <4>1, <4>2, <4>3 DEF Weighed
    <3> HIDE DEF y
    <3>2. InStep(y)
      BY <1>1, <3>1, BrokenInStep DEF T
    <3>3. Then(x, forgetAgain(y, d)) = y
      BY <1>6, <3>1 DEF Then, forgetAgain
    <3> QED
      BY <1>1, <3>1, <3>2, <3>3, FinishInStep
  <2>3. CASE r = {}
    <3>1. Everywhere(u, d)
      <4>1. Particles(u.model) = Particles(x.model)
        BY <1>4, <2>1, TracesTyped
      <4>2. ASSUME NEW i \in Particles(x.model)
            PROVE  d \in directives(Incorporated(x.model.traces[i]))
        <5>1. x.model.traces[i] \in Trace /\ d \in directives(x.model.traces[i])
          BY <1>2, <1>4, <1>6, TracesTyped, AlikeClosed DEF Everywhere, T
        <5> QED
          BY <5>1, DirectivesKept DEF Alikeness, directives
      <4> HIDE DEF u
      <4> QED
        BY <2>1, <2>3, <4>1, <4>2 DEF Everywhere
    <3> HIDE DEF u
    <3>2. y = u
      BY <2>1, <2>3 DEF Tear
    <3> HIDE DEF y
    <3>3. InStep(forget(u, d)) /\ Weighed(forget(u, d))
      BY <1>1, <1>2, <1>3, <2>1, <3>1, ForgetAgainInStep DEF T
    <3>4. Then(x, forgetAgain(y, d)) = forget(u, d)
      BY <1>6, <2>1, <2>3, <3>2 DEF Then, forgetAgain
    <3> QED
      BY <1>1, <3>3, <3>4, FinishInStep
  <2> QED
    BY <2>2, <2>3
<1> QED
  BY <1>5, <1>6

(* A new model's only trace is like itself.                                *)
LEMMA NewModelInStep ==
  ASSUME NEW x, NEW backend \in Backend, NEW mode \in Mode,
         x = [model |-> NewModel(backend, mode), loop |-> None, torn |-> {}, failed |-> FALSE]
  PROVE  InStep(x)
<1> DEFINE T == Alike({}, {}, {})
<1>1. Blank \in T /\ T \subseteq Trace
  BY DEF Blank, Trace, Alike
<1>2. x.model.traces = <<Blank>> /\ x.loop = None /\ x.torn = {}
  BY DEF NewModel
<1>3. \A i \in Particles(x.model) : x.model.traces[i] \in T
  BY <1>1, <1>2 DEF Particles
<1>4. \E U : Typed(x, U)
  BY NewModelSound DEF Sound
<1> HIDE DEF T
<1>5. Typed(x, T)
  BY <1>2, <1>3, <1>4, Retyped
<1> QED
  BY <1>2, <1>5 DEF InStep, T

-----------------------------------------------------------------------------
(* With every particle's directives in step, besides.                      *)
JInv == IInv /\ InStep(Start)

LEMMA InitInStep ==
  ASSUME Init
  PROVE  JInv
<1>1. PICK backend \in Backend : model = NewModel(backend, "sequential")
  BY DEF Init
<1>2. Start = [model |-> model, loop |-> None, torn |-> {}, failed |-> FALSE]
  BY DEF Init, Start
<1>3. InStep(Start)
  BY <1>1, <1>2, NewModelInStep DEF Mode
<1> QED
  BY <1>3, InitInv DEF JInv

LEMMA ClearInStep ==
  ASSUME IInv, Clear
  PROVE  IInv' /\ InStep(Left)
<1>1. /\ model' = NewModel(model.backend, model.mode) /\ loop' = None
      /\ counter' = 0 /\ torn' = {}
  BY DEF Clear
<1>2. model.backend \in Backend /\ model.mode \in Mode
  BY StartIs DEF Sound, Typed, Works, Models
<1>3. Left = [model |-> model', loop |-> None, torn |-> {}, failed |-> FALSE]
  BY <1>1 DEF Left
<1>4. Sound(Left, 0)
  BY <1>1, <1>2, <1>3, NewModelSound
<1>5. InStep(Left)
  BY <1>1, <1>2, <1>3, NewModelInStep
<1> QED
  BY <1>1, <1>4, <1>5, BoundsAssumption, LeftIs

LEMMA KeptInStep ==
  ASSUME JInv, counter' = counter, \A T : Holds(T) => Leaves(T)
  PROVE  IInv' /\ InStep(Left)
BY LeavesInv, LeavesInStep DEF JInv

LEMMA NextInStep ==
  ASSUME JInv, [Next]_vars
  PROVE  JInv'
<1>1. SUFFICES IInv' /\ InStep(Left)
  BY DEF JInv, Left, Start
<1>2. CASE UNCHANGED vars
  BY <1>2 DEF vars, IInv, JInv, Start, Left
<1>3. CASE Model
  <2>1. ASSUME NEW l \in Label, Refused(l)
        PROVE  IInv' /\ InStep(Left)
    BY <2>1, RefusedInv DEF JInv, Refused, Left, Start
  <2>2. ASSUME NEW l \in Label \cup {None}, NEW s, Evaluate(l, s)
        PROVE  IInv' /\ InStep(Left)
    BY <2>2, EvaluateInv, EvaluateInStep DEF JInv
  <2>3. ASSUME NEW s, Sample(s)
        PROVE  IInv' /\ InStep(Left)
    BY <2>3, SampleInv, SampleInStep DEF JInv
  <2>4. ASSUME NEW s, Incorporate(s)
        PROVE  IInv' /\ InStep(Left)
    <3>1. counter' = counter
      BY <2>4 DEF Incorporate, Unnumbered
    <3> QED
      BY <2>4, <3>1, IncorporateLeaves, KeptInStep
  <2>5. ASSUME NEW l \in Label \cup {None}, NEW s, NEW r, Observe(l, s, r)
        PROVE  IInv' /\ InStep(Left)
    BY <2>5, ObserveInv, ObserveInStep DEF JInv
  <2>6. ASSUME NEW s, NEW r, ForceValue(s, r)
        PROVE  IInv' /\ InStep(Left)
    BY <2>6, ForceInv, ForceInStep DEF JInv
  <2>7. ASSUME NEW d \in Did, Forget(d)
        PROVE  IInv' /\ InStep(Left)
    BY <2>7, ForgetInv, ForgetInStep DEF JInv
  <2>8. ASSUME NEW l \in Label, ForgetLabeled(l)
        PROVE  IInv' /\ InStep(Left)
    BY <2>8, ForgetLabeledInv, ForgetLabeledInStep DEF JInv
  <2> QED
    BY <1>3, <2>1, <2>2, <2>3, <2>4, <2>5, <2>6, <2>7, <2>8 DEF Model
<1>4. CASE Reshape
  <2>1. SUFFICES counter' = counter /\ \A T : Holds(T) => Leaves(T)
    BY KeptInStep
  <2>2. CASE LikelihoodWeight \/ Equalize
    BY <2>2, LikelihoodWeightLeaves, EqualizeLeaves DEF LikelihoodWeight, Equalize, Unnumbered
  <2>3. ASSUME NEW n \in 1..MaxParticles, NEW parents \in [1..n -> Particles(model)],
               Reinit(parents) \/ \E mode \in Mode, s \in Failing(n) : Resample(parents, mode, s)
        PROVE  counter' = counter /\ \A T : Holds(T) => Leaves(T)
    <3>1. n \in Nat
      OBVIOUS
    <3>2. counter' = counter
      BY <2>3 DEF Reinit, Resample, Unnumbered
    <3> QED
      BY <2>3, <3>1, <3>2, ReinitLeaves, ResampleLeaves
  <2>4. ASSUME NEW group \in Groupings, NEW map \in BOOLEAN, NEW keepers \in Keepers(group),
               Collapse(group, keepers, map)
        PROVE  counter' = counter /\ \A T : Holds(T) => Leaves(T)
    <3>1. counter' = counter
      BY <2>4 DEF Collapse, Unnumbered
    <3> QED
      BY <2>4, <3>1, CollapseLeaves
  <2>5. ASSUME NEW parents \in Diversified, NEW still \in SUBSET Particles(model), Diversify(parents, still)
        PROVE  counter' = counter /\ \A T : Holds(T) => Leaves(T)
    <3>1. counter' = counter
      BY <2>5 DEF Diversify, Unnumbered
    <3> QED
      BY <2>5, <3>1, DiversifyLeaves
  <2> QED
    BY <1>4, <2>2, <2>3, <2>4, <2>5 DEF Reshape
<1>5. CASE Loop
  <2>1. SUFFICES counter' = counter /\ \A T : Holds(T) => Leaves(T)
    BY KeptInStep
  <2>2. ASSUME NEW each \in BOOLEAN, NEW i \in Particles(model), Begin(each, i)
        PROVE  counter' = counter /\ \A T : Holds(T) => Leaves(T)
    <3>1. counter' = counter
      BY <2>2 DEF Begin
    <3> QED
      BY <2>2, <3>1, BeginLeaves
  <2>3. CASE EndTurn
    BY <2>3, EndTurnLeaves DEF EndTurn
  <2>4. CASE TurnRaises
    BY <2>4, TurnRaisesLeaves DEF TurnRaises, Unnumbered
  <2> QED
    BY <1>5, <2>2, <2>3, <2>4 DEF Loop
<1>6. CASE Others
  <2>1. ASSUME NEW backend \in Backend, Save \/ Restore(backend)
        PROVE  IInv' /\ InStep(Left)
    <3>1. counter' = counter
      BY <2>1 DEF Save, Restore
    <3> QED
      BY <2>1, <3>1, SaveLeaves, KeptInStep
  <2>2. \E backend : backend \in Backend
    BY DEF Backend
  <2>3. CASE Clear
    BY <2>3, ClearInStep DEF JInv
  <2> QED
    BY <1>6, <2>1, <2>2, <2>3 DEF Others
<1> QED
  BY <1>2, <1>3, <1>4, <1>5, <1>6 DEF Next

(* The labels of a trace set fit what its particles hold: a label whose    *)
(* directive is not forgotten leads to it, and all the particles have it,  *)
(* whatever was done, inside a loop or out of it, and whichever            *)
(* instruction has failed (trace_set.py).                                  *)
THEOREM LabelsMatch == Spec => []LabelsLead
<1>1. JInv => LabelsLead
  <2> SUFFICES ASSUME IInv PROVE LabelsLead
    BY DEF JInv
  <2> DEFINE T == Fitting(model.labelToDid, model.didToLabel, counter)
  <2>1. Labels(model.labelToDid, model.didToLabel, counter)
    BY StartIs DEF Sound
  <2>2. \A i \in Particles(model) : model.traces[i] \in T
    BY StartIs, TracesTyped DEF Sound
  <2> QED
    BY <2>1, <2>2 DEF LabelsLead, Labels, Fitting
<1> QED
  BY <1>1, InitInStep, NextInStep, PTL DEF Spec

(* The particles of a model have the same directives, but for those whose  *)
(* instruction has failed in some: whatever the masters, the copies, the   *)
(* loops over single traces, which a failure may cut off, and the          *)
(* instructions that are taken back make of them (trace_set.py).           *)
THEOREM ParticlesAgree == Spec => []Lockstep
<1>1. JInv => Lockstep
  <2> SUFFICES ASSUME JInv PROVE Lockstep
    OBVIOUS
  <2>1. PICK E, O \in SUBSET Did : Typed(Start, Alike(E, O, torn))
    BY StartModel DEF JInv, InStep
  <2>2. \A i \in Particles(model) : model.traces[i] \in Alike(E, O, torn)
    BY <2>1, StartModel, TracesTyped
  <2> QED
    BY <2>2 DEF Lockstep, Alike
<1> QED
  BY <1>1, InitInStep, NextInStep, PTL DEF Spec

-----------------------------------------------------------------------------
(* A weight counts what is due to its trace, but for what is pending, and  *)
(* of that nothing; it may be apart from what is pending without.          *)
Apart(t, w, c) == w \cup t.pending \subseteq 1..c /\ w \cap t.pending = {}
Owed(t, w, c)  == Apart(t, w, c) /\ t.due = w \cup t.pending

(* So it is of the traces of the model; and of those of a loop, which have *)
(* their weights while their turn is to come and when it is done.  If an   *)
(* instruction fails the loop gives the model the weights it began with,   *)
(* so that the trace of the turn must be apart from its own, too.          *)
Owing(m, c) == \A i \in Particles(m) : Owed(m.traces[i], m.weights[i], c)
Sparing(l, m, c) ==
  /\ \A i \in 1..Len(l.originals) : Apart(l.originals[i], l.weights[i], c)
  /\ \A i \in 1..Len(l.originals) : i > l.at => Owed(l.originals[i], l.weights[i], c)
  /\ \A i \in 1..Len(l.done) : Owed(l.done[i], l.doneWeights[i], c)
  /\ l.self # 0 => Apart(m.traces[l.self], l.weights[l.at], c)
Spared(l, m, c) == l # None => Sparing(l, m, c)
Due(x, c) == Owing(x.model, c) /\ Spared(x.loop, x.model, c)

(* A trace may become another.                                             *)
Succeeds(t, u, c, e) ==
  \A w : (Apart(t, w, c) => Apart(u, w, e)) /\ (Owed(t, w, c) => Owed(u, w, e))

LEMMA TraceSucceeds ==
  ASSUME NEW t \in Trace, NEW c \in Nat
  PROVE  /\ Succeeds(t, t, c, c) /\ Succeeds(t, t, c, c + 1)
         /\ Succeeds(t, Lose(t), c, c)
         /\ Succeeds(t, Evaluated(t, c + 1), c, c + 1)
         /\ Succeeds(t, Observed(t, c + 1), c, c + 1)
         /\ \A d : Succeeds(t, Forgotten(t, d), c, c)
<1>1. 1..c \subseteq 1..(c + 1) /\ c + 1 \in 1..(c + 1) /\ c + 1 \notin 1..c
  OBVIOUS
<1>2. Succeeds(t, t, c, c) /\ Succeeds(t, t, c, c + 1)
  BY <1>1 DEF Succeeds, Owed, Apart
<1>3. Lose(t).pending = {} /\ Lose(t).due = t.due \ t.pending
  BY DEF Lose, Trace
<1>4. Succeeds(t, Lose(t), c, c)
  <2>1. ASSUME NEW w, Apart(t, w, c) PROVE Apart(Lose(t), w, c)
    BY <1>3, <2>1 DEF Apart
  <2>2. ASSUME NEW w, Owed(t, w, c) PROVE Owed(Lose(t), w, c)
    BY <1>3, <2>1, <2>2 DEF Apart, Owed
  <2> QED
    BY <2>1, <2>2 DEF Succeeds
<1>5. Evaluated(t, c + 1).pending = t.pending /\ Evaluated(t, c + 1).due = t.due
  BY DEF Evaluated, Trace
<1>6. Succeeds(t, Evaluated(t, c + 1), c, c + 1)
  BY <1>1, <1>5 DEF Succeeds, Owed, Apart
<1>7. PICK d : d = c + 1
  OBVIOUS
<1>8. Observed(t, d).pending = t.pending \cup {d} /\ Observed(t, d).due = t.due \cup {d}
  BY DEF Observed, Trace
<1>9. Succeeds(t, Observed(t, d), c, c + 1)
  <2>1. ASSUME NEW w, Apart(t, w, c) PROVE Apart(Observed(t, d), w, c + 1)
    BY <1>1, <1>7, <1>8, <2>1 DEF Apart
  <2>2. ASSUME NEW w, Owed(t, w, c) PROVE Owed(Observed(t, d), w, c + 1)
    BY <1>8, <2>1, <2>2 DEF Owed
  <2> QED
    BY <2>1, <2>2 DEF Succeeds
<1>10. ASSUME NEW e PROVE Succeeds(t, Forgotten(t, e), c, c)
  <2>1. /\ Forgotten(t, e).pending = t.pending \ {e}
        /\ Forgotten(t, e).due = t.due \ ({e} \cap t.pending)
    BY DEF Forgotten, Trace
  <2>2. ASSUME NEW w, Apart(t, w, c) PROVE Apart(Forgotten(t, e), w, c)
    BY <2>1, <2>2 DEF Apart
  <2>3. ASSUME NEW w, Owed(t, w, c) PROVE Owed(Forgotten(t, e), w, c)
    <3>1. t.due \ ({e} \cap t.pending) = w \cup (t.pending \ {e})
      BY <2>3 DEF Owed, Apart
    <3> QED
      BY <2>1, <2>2, <2>3, <3>1 DEF Owed
  <2> QED
    BY <2>2, <2>3 DEF Succeeds
<1> QED
  BY <1>2, <1>4, <1>6, <1>7, <1>9, <1>10

LEMMA SparedGrows ==
  ASSUME NEW l, NEW m, NEW n, NEW c \in Nat, Spared(l, m, c), NEW e \in {c, c + 1},
         l # None /\ l.self # 0 /\ Apart(m.traces[l.self], l.weights[l.at], c)
           => Apart(n.traces[l.self], l.weights[l.at], e)
  PROVE  Spared(l, n, e)
<1>1. 1..c \subseteq 1..e
  OBVIOUS
<1>2. \A t, w : (Apart(t, w, c) => Apart(t, w, e)) /\ (Owed(t, w, c) => Owed(t, w, e))
  BY <1>1 DEF Apart, Owed
<1> QED
  BY <1>2 DEF Spared, Sparing

LEMMA SelfIn ==
  ASSUME NEW T, NEW x, Typed(x, T), x.loop # None, x.loop.self # 0
  PROVE  x.loop.self \in Particles(x.model)
BY TracesTyped DEF Typed, Works, Placed, Loops

(* Each trace may become another in its place.                             *)
LEMMA ChangedDue ==
  ASSUME NEW T, NEW x, Typed(x, T), NEW c \in Nat, Due(x, c), NEW e \in {c, c + 1}, NEW y,
         y.loop = x.loop, y.model.weights = x.model.weights, Particles(y.model) = Particles(x.model),
         \A i \in Particles(x.model) : Succeeds(x.model.traces[i], y.model.traces[i], c, e)
  PROVE  Due(y, e)
<1>1. Owing(y.model, e)
  BY DEF Due, Owing, Succeeds
<1>2. ASSUME x.loop # None, x.loop.self # 0
      PROVE  x.loop.self \in Particles(x.model)
  BY <1>2, SelfIn
<1>3. Spared(x.loop, y.model, e)
  <2>1. ASSUME x.loop # None, x.loop.self # 0, Apart(x.model.traces[x.loop.self], x.loop.weights[x.loop.at], c)
        PROVE  Apart(y.model.traces[x.loop.self], x.loop.weights[x.loop.at], e)
    BY <1>2, <2>1 DEF Succeeds
  <2> QED
    BY <2>1, SparedGrows DEF Due
<1> QED
  BY <1>1, <1>3 DEF Due

LEMMA DueSame ==
  ASSUME NEW x, NEW y, NEW c, Due(x, c), y.loop = x.loop,
         y.model.weights = x.model.weights, y.model.traces = x.model.traces
  PROVE  Due(y, c)
BY DEF Due, Owing, Spared, Sparing, Particles

(* What registers observations whose increments are dropped.               *)
Eased(x, y) ==
  /\ y.loop = x.loop /\ y.model.weights = x.model.weights
  /\ Particles(y.model) = Particles(x.model)
  /\ \A i \in Particles(x.model) : y.model.traces[i] \in {x.model.traces[i], Lose(x.model.traces[i])}

LEMMA EasedDue ==
  ASSUME NEW x, Typed(x, Trace), NEW c \in Nat, Due(x, c), NEW y, Eased(x, y)
  PROVE  Due(y, c)
<1>1. \A i \in Particles(x.model) : x.model.traces[i] \in Trace
  BY TracesTyped
<1>2. \A i \in Particles(x.model) : Succeeds(x.model.traces[i], y.model.traces[i], c, c)
  BY <1>1, TraceSucceeds DEF Eased
<1>3. c \in {c, c + 1}
  OBVIOUS
<1> QED
  BY <1>2, <1>3, ChangedDue DEF Eased

LEMMA TraceClosed == Closed(Trace)
BY DEF Closed

LEMMA EasedTrans ==
  ASSUME NEW x, Typed(x, Trace), NEW y, Eased(x, y), NEW z, Eased(y, z)
  PROVE  Eased(x, z)
<1>1. \A i \in Particles(x.model) : Lose(Lose(x.model.traces[i])) = Lose(x.model.traces[i])
  <2>1. \A t \in Trace : Lose(Lose(t)) = Lose(t)
    BY DEF Lose, Trace
  <2> QED
    BY <2>1, TracesTyped
<1> QED
  BY <1>1 DEF Eased

LEMMA DumpEased ==
  ASSUME NEW x, Typed(x, Trace), NEW some
  PROVE  /\ Eased(x, dump(x, some)) /\ Typed(dump(x, some), Trace)
         /\ Eased(x, retrieve(x, some)) /\ Typed(retrieve(x, some), Trace)
<1>1. \A i \in some \cap DOMAIN x.model.traces : lose(x)[i] \in Trace
  BY TraceKept, TraceClosed, TracesTyped DEF lose, Particles
<1>2. /\ Redone(x, On(x, some, lose(x)), Trace)
      /\ \A i \in DOMAIN x.model.traces :
           On(x, some, lose(x)).model.traces[i] = IF i \in some THEN lose(x)[i] ELSE x.model.traces[i]
  BY <1>1, OnTyped
<1>3. \A i \in DOMAIN x.model.traces : lose(x)[i] = Lose(x.model.traces[i])
  BY DEF lose, Particles
<1>4. Redone(x, dump(x, some), Trace) /\ Eased(x, dump(x, some))
  BY <1>2, <1>3 DEF Eased, Redone, Particles, dump
<1>5. Eased(x, x)
  BY DEF Eased
<1> QED
  BY <1>4, <1>5 DEF Redone, retrieve

LEMMA UseParentEased ==
  ASSUME NEW x, Typed(x, Trace), NEW parents
  PROVE  Eased(x, _use_parent(x, parents)) /\ Typed(_use_parent(x, parents), Trace)
<1> DEFINE copied == {i \in Range(parents) : Cardinality(Uses(parents, i)) > 1}
           y == retrieve(x, Range(parents))
<1>1. Eased(x, y) /\ Typed(y, Trace)
  BY DumpEased
<1>2. _use_parent(x, parents) = IF x.model.backend = "lite" THEN dump(y, copied) ELSE y
  BY DEF _use_parent
<1> HIDE DEF y, copied
<1>3. Eased(y, dump(y, copied)) /\ Typed(dump(y, copied), Trace)
  BY <1>1, DumpEased
<1>4. Eased(x, dump(y, copied))
  BY <1>1, <1>3, EasedTrans
<1> QED
  BY <1>1, <1>2, <1>3, <1>4

LEMMA IncorporateDue ==
  ASSUME NEW x, Typed(x, Trace), Weighed(x), NEW c \in Nat, Due(x, c), NEW s
  PROVE  Due(incorporate(x, s), c)
<1>0. \A i \in Particles(x.model) : x.model.traces[i] \in Trace
  BY TracesTyped
<1>1. CASE s # {}
  <2>1. \A i \in Ran(x.model, s) : lose(x)[i] \in Trace
    BY TraceKept, TraceClosed, TracesTyped DEF lose, Ran
  <2>2. /\ Redone(x, Map(x, s, lose(x)), Trace)
        /\ \A i \in Particles(x.model) :
             Map(x, s, lose(x)).model.traces[i] = IF i \in Ran(x.model, s) THEN lose(x)[i] ELSE x.model.traces[i]
    BY <2>1, MapKept
  <2>3. \A i \in Particles(x.model) : lose(x)[i] = Lose(x.model.traces[i])
    BY DEF lose
  <2>4. Eased(x, Map(x, s, lose(x)))
    BY <2>2, <2>3 DEF Eased, Redone, Particles
  <2>5. incorporate(x, s) = Map(x, s, lose(x))
    BY <1>1 DEF incorporate
  <2> QED
    BY <2>4, <2>5, EasedDue
<1>2. CASE s = {}
  <2> DEFINE y == incorporate(x, s)
  <2>1. /\ Reworked(x, y, Trace) /\ y.loop = x.loop /\ Len(y.model.traces) = Len(x.model.traces)
        /\ \A i \in Particles(x.model) :
             /\ y.model.traces[i] = Incorporated(x.model.traces[i])
             /\ y.model.weights[i] = x.model.weights[i] \cup x.model.traces[i].pending
    BY <1>2, IncorporateKept, TraceClosed
  <2>2. Particles(y.model) = Particles(x.model)
    BY <2>1, TracesTyped DEF Reworked
  <2>3. ASSUME NEW i \in Particles(x.model)
        PROVE  /\ y.model.traces[i].pending = {}
               /\ y.model.traces[i].due = x.model.traces[i].due
    <3>1. x.model.traces[i] \in Trace /\ y.model.traces[i] = Incorporated(x.model.traces[i])
      BY <1>0, <2>1
    <3> HIDE DEF y
    <3> QED
      BY <3>1 DEF Incorporated, Trace
  <2> HIDE DEF y
  <2>4. Owing(y.model, c)
    BY <2>1, <2>2, <2>3 DEF Due, Owing, Owed, Apart
  <2>5. Spared(y.loop, y.model, c)
    <3>1. ASSUME x.loop # None, x.loop.self # 0
          PROVE  x.loop.self \in Particles(x.model)
      BY <3>1, SelfIn
    <3>2. ASSUME x.loop # None, x.loop.self # 0, Apart(x.model.traces[x.loop.self], x.loop.weights[x.loop.at], c)
          PROVE  Apart(y.model.traces[x.loop.self], x.loop.weights[x.loop.at], c)
      BY <2>3, <3>1, <3>2 DEF Apart
    <3> QED
      BY <2>1, <3>2, SparedGrows DEF Due
  <2> QED
    BY <2>4, <2>5 DEF Due, y
<1> QED
  BY <1>1, <1>2

LEMMA ReweightedDue ==
  ASSUME NEW x, Typed(x, Trace), NEW c \in Nat, Spared(x.loop, x.model, c),
         NEW w \in Seq(Weight), Len(w) = Len(x.model.traces),
         \A i \in Particles(x.model) : Apart(x.model.traces[i], w[i], c)
  PROVE  Due(Reweighted(x, w, w), c)
<1> DEFINE y == Reweighted(x, w, w)
<1>1. /\ Reworked(x, y, Trace) /\ y.loop = x.loop /\ Len(y.model.traces) = Len(x.model.traces)
      /\ y.model.weights = w
      /\ \A i \in Particles(x.model) : y.model.traces[i] = Accounting(x.model.traces[i], w[i])
  BY ReweightedKept, TraceClosed
<1>2. Particles(y.model) = Particles(x.model)
  BY <1>1, TracesTyped DEF Reworked
<1>3. ASSUME NEW i \in Particles(x.model)
      PROVE  /\ y.model.traces[i].pending = x.model.traces[i].pending
             /\ y.model.traces[i].due = w[i] \cup x.model.traces[i].pending
  <2>1. x.model.traces[i] \in Trace /\ y.model.traces[i] = Accounting(x.model.traces[i], w[i])
    BY <1>1, TracesTyped
  <2> HIDE DEF y
  <2> QED
    BY <2>1 DEF Accounting, Trace
<1> HIDE DEF y
<1>4. Owing(y.model, c)
  BY <1>1, <1>2, <1>3 DEF Owing, Owed, Apart
<1>5. Spared(y.loop, y.model, c)
  <2>1. ASSUME x.loop # None, x.loop.self # 0
        PROVE  x.loop.self \in Particles(x.model)
    BY <2>1, SelfIn
  <2>2. ASSUME x.loop # None, x.loop.self # 0, Apart(x.model.traces[x.loop.self], x.loop.weights[x.loop.at], c)
        PROVE  Apart(y.model.traces[x.loop.self], x.loop.weights[x.loop.at], c)
    BY <1>3, <2>1, <2>2 DEF Apart
  <2> QED
    BY <1>1, <2>2, SparedGrows
<1> QED
  BY <1>4, <1>5 DEF Due, y

LEMMA SyncedSpared ==
  ASSUME NEW x, Typed(x, Trace), NEW c, Spared(x.loop, x.model, c), x.loop # None
  PROVE  Sparing(Synced(x).loop, x.model, c)
<1> DEFINE k == Synced(x).loop
           l == x.loop
<1>1. Following(x, k) /\ Looping(k, Trace)
  BY SyncedKept
<1> HIDE DEF k
<1>2. l \in Loops(Trace) /\ l.at \in 1..Len(l.originals)
  BY DEF Typed, Works, Placed
<1>3. /\ k.at = l.at /\ k.self = l.self /\ k.weights = l.weights
      /\ k.done = l.done /\ k.doneWeights = l.doneWeights /\ Len(k.originals) = Len(l.originals)
      /\ \A i \in 1..Len(l.originals) :
           k.originals[i] = IF i = l.at /\ l.self # 0 THEN x.model.traces[l.self] ELSE l.originals[i]
  BY <1>1 DEF Following
<1>4. Sparing(l, x.model, c)
  BY DEF Spared
<1> HIDE DEF l
<1>5. \A i \in 1..Len(k.originals) : Apart(k.originals[i], k.weights[i], c)
  BY <1>2, <1>3, <1>4 DEF Sparing
<1>6. \A i \in 1..Len(k.originals) : i > k.at => Owed(k.originals[i], k.weights[i], c)
  BY <1>2, <1>3, <1>4 DEF Sparing, Loops
<1>7. Sparing(k, x.model, c)
  BY <1>3, <1>4, <1>5, <1>6 DEF Sparing
<1> QED
  BY <1>7 DEF k

LEMMA PoolSpared ==
  ASSUME NEW x, Typed(x, Trace), NEW c, Spared(x.loop, x.model, c), NEW n \in Nat,
         NEW parents \in [1..n -> Particles(x.model)], NEW r, Pooled(x, r, n, parents)
  PROVE  Spared(r.loop, r.model, c)
<1>1. PICK self \in 0..n :
        /\ self # 0 => parents[self] = x.loop.self
        /\ r.loop = IF x.loop = None THEN None ELSE [Synced(x).loop EXCEPT !.self = self]
  BY DEF Pooled
<1>2. CASE x.loop = None
  BY <1>1, <1>2 DEF Spared
<1>3. CASE x.loop # None
  <2> DEFINE k == Synced(x).loop
             l == r.loop
  <2>1. k \in Loops(Trace) /\ k.self = x.loop.self
    BY <1>3, SyncedKept DEF Looping, Following
  <2>2. Sparing(k, x.model, c)
    BY <1>3, SyncedSpared
  <2> HIDE DEF k
  <2>3. /\ l.at = k.at /\ l.self = self /\ l.weights = k.weights /\ l.originals = k.originals
        /\ l.done = k.done /\ l.doneWeights = k.doneWeights
    BY <1>1, <1>3, <2>1 DEF Loops, k
  <2>4. l.self # 0 => Apart(r.model.traces[l.self], l.weights[l.at], c)
    <3> SUFFICES ASSUME self # 0
                 PROVE  Apart(r.model.traces[self], k.weights[k.at], c)
      BY <2>3
    <3>1. self \in 1..n /\ parents[self] = k.self /\ parents[self] \in Particles(x.model)
      BY <1>1, <2>1
    <3>2. k.self # 0
      BY <3>1, TracesTyped
    <3>3. r.model.traces[self] = x.model.traces[k.self]
      BY <3>1 DEF Pooled
    <3> QED
      BY <2>2, <3>2, <3>3 DEF Sparing
  <2> HIDE DEF l
  <2>5. Spared(l, r.model, c)
    BY <2>2, <2>3, <2>4 DEF Spared, Sparing
  <2> QED
    BY <2>5 DEF l
<1> QED
  BY <1>2, <1>3

LEMMA EasedSpared ==
  ASSUME NEW x, Typed(x, Trace), NEW c \in Nat, Spared(x.loop, x.model, c), NEW y, Eased(x, y)
  PROVE  Spared(y.loop, y.model, c)
<1>1. ASSUME x.loop # None, x.loop.self # 0, Apart(x.model.traces[x.loop.self], x.loop.weights[x.loop.at], c)
      PROVE  Apart(y.model.traces[x.loop.self], x.loop.weights[x.loop.at], c)
  <2>1. x.loop.self \in Particles(x.model) /\ x.model.traces[x.loop.self] \in Trace
    BY <1>1, SelfIn, TracesTyped
  <2>2. \A t \in Trace : Succeeds(t, t, c, c) /\ Succeeds(t, Lose(t), c, c)
    BY TraceSucceeds
  <2>3. Succeeds(x.model.traces[x.loop.self], y.model.traces[x.loop.self], c, c)
    BY <2>1, <2>2 DEF Eased
  <2> QED
    BY <1>1, <2>3 DEF Succeeds
<1> QED
  BY <1>1, SparedGrows DEF Eased

(* The state that an instruction leaves.                                   *)
LEMMA FinishDue ==
  ASSUME NEW x, Typed(x, Trace), Weighed(x), NEW c \in Nat, Due(x, c), Finish(x)
  PROVE  Due(Left, c)
<1> DEFINE y == Synced(x)
           l == y.loop
<1>1. /\ y.model = x.model /\ (x.loop = None => l = None)
      /\ x.loop # None => Looping(l, Trace) /\ Sparing(l, x.model, c)
  BY SyncedKept, SyncedSpared DEF Due
<1> HIDE DEF y
<1>2. CASE ~x.failed
  <2>1. model' = x.model /\ loop' = l
    BY <1>2 DEF Finish, y
  <2> HIDE DEF l
  <2> QED
    BY <1>1, <2>1 DEF Left, Due, Spared
<1>3. CASE x.failed
  <2>1. model' = Unwound(y) /\ loop' = None
    BY <1>3 DEF Finish, y
  <2>2. Spared(Left.loop, Left.model, c)
    BY <2>1 DEF Left, Spared
  <2>3. Owing(model', c)
    <3>1. CASE l = None
      <4>1. model' = x.model
        BY <1>1, <2>1, <3>1 DEF Unwound
      <4> QED
        BY <4>1 DEF Due
    <3>2. CASE l # None
      <4> DEFINE ts == [i \in DOMAIN l.originals |-> Accounting(l.originals[i], l.weights[i])]
      <4>1. Looping(l, Trace) /\ Sparing(l, x.model, c)
        BY <1>1, <3>2
      <4>2. x.model \in Models(Trace)
        BY DEF Typed, Works
      <4>3. model'.traces = ts /\ model'.weights = l.weights
        BY <1>1, <2>1, <3>2, <4>2 DEF Unwound, Models
      <4>4. l.originals \in Seq(Trace) /\ l.weights \in Seq(Weight)
        BY <4>1 DEF Looping, Loops
      <4>5. ASSUME NEW i \in 1..Len(l.originals)
            PROVE  Owed(ts[i], l.weights[i], c)
        <5>1. l.originals[i] \in Trace /\ Apart(l.originals[i], l.weights[i], c)
          BY <4>1, <4>4 DEF Sparing
        <5>2. \A t \in Trace : \A w : Apart(t, w, c) => Owed(Accounting(t, w), w, c)
          BY DEF Accounting, Trace, Owed, Apart
        <5>3. ts[i] = Accounting(l.originals[i], l.weights[i])
          BY <4>4
        <5> HIDE DEF ts, l
        <5> QED
          BY <5>1, <5>2, <5>3
      <4>6. DOMAIN ts = 1..Len(l.originals)
        BY <4>4
      <4> HIDE DEF ts, l
      <4> QED
        BY <4>3, <4>5, <4>6 DEF Owing, Particles
    <3> QED
      BY <3>1, <3>2
  <2> QED
    BY <2>2, <2>3 DEF Left, Due
<1> QED
  BY <1>2, <1>3

LEMMA SoundTyped ==
  ASSUME NEW x, NEW c, Sound(x, c)
  PROVE  Typed(x, Trace) /\ Weighed(x)
<1> DEFINE T == Fitting(x.model.labelToDid, x.model.didToLabel, c)
<1>1. Typed(x, T) /\ Weighed(x)
  BY DEF Sound
<1>2. T \subseteq Trace
  BY DEF Fitting
<1> HIDE DEF T
<1> QED
  BY <1>1, <1>2, TypedGrows

-----------------------------------------------------------------------------
(* The instructions on directives.                                         *)
LEMMA ToldTyped ==
  ASSUME NEW t \in Trace, NEW d \in Did
  PROVE  Evaluated(t, d) \in Trace /\ Observed(t, d) \in Trace /\ Forgotten(t, d) \in Trace
<1>1. Evaluated(t, d) \in Trace
  BY DEF Evaluated, Trace
<1>2. Observed(t, d) \in Trace
  BY DEF Observed, Trace
<1>3. Forgotten(t, d) \in Trace
  BY DEF Forgotten, Trace
<1> QED
  BY <1>1, <1>2, <1>3

LEMMA MapDue ==
  ASSUME NEW x, Typed(x, Trace), NEW c \in Nat, Due(x, c), NEW e \in {c, c + 1}, NEW s, NEW after,
         \A i \in Particles(x.model) :
           /\ after[i] \in Trace /\ Succeeds(x.model.traces[i], after[i], c, e)
           /\ Succeeds(x.model.traces[i], x.model.traces[i], c, e)
  PROVE  Due(Map(x, s, after), e) /\ Typed(Map(x, s, after), Trace)
<1>1. \A i \in Ran(x.model, s) : after[i] \in Trace
  BY DEF Ran
<1>2. /\ Redone(x, Map(x, s, after), Trace)
      /\ \A i \in Particles(x.model) :
           Map(x, s, after).model.traces[i] = IF i \in Ran(x.model, s) THEN after[i] ELSE x.model.traces[i]
  BY <1>1, MapKept
<1> DEFINE y == Map(x, s, after)
<1> HIDE DEF y
<1>3. /\ y.loop = x.loop /\ y.model.weights = x.model.weights /\ Particles(y.model) = Particles(x.model)
      /\ Typed(y, Trace)
  BY <1>2 DEF Redone, Particles, y
<1>4. \A i \in Particles(x.model) : Succeeds(x.model.traces[i], y.model.traces[i], c, e)
  BY <1>2 DEF y
<1>5. Due(y, e)
  BY <1>3, <1>4, ChangedDue
<1> QED
  BY <1>3, <1>5 DEF y

LEMMA TellDue ==
  ASSUME NEW x, Typed(x, Trace), NEW c \in Nat, Due(x, c), c + 1 \in Did, NEW s, NEW y,
         y \in {evaluate(x, s, c + 1), observe(x, s, c + 1)}
  PROVE  Due(y, c + 1)
<1> DEFINE d == c + 1
           k == s \cup Having(x, d)
<1>1. PICK after :
        /\ y = Tear(Map(x, k, after), d)
        /\ \A i \in Particles(x.model) :
             /\ after[i] \in Trace /\ Succeeds(x.model.traces[i], after[i], c, d)
             /\ Succeeds(x.model.traces[i], x.model.traces[i], c, d)
  <2>1. ASSUME NEW i \in Particles(x.model)
        PROVE  /\ Evaluated(x.model.traces[i], d) \in Trace
               /\ Observed(x.model.traces[i], d) \in Trace
               /\ Succeeds(x.model.traces[i], Evaluated(x.model.traces[i], d), c, d)
               /\ Succeeds(x.model.traces[i], Observed(x.model.traces[i], d), c, d)
               /\ Succeeds(x.model.traces[i], x.model.traces[i], c, d)
    <3>1. x.model.traces[i] \in Trace
      BY TracesTyped
    <3> QED
      BY <3>1, ToldTyped, TraceSucceeds
  <2>2. CASE y = evaluate(x, s, d)
    <3> WITNESS [i \in Particles(x.model) |-> Evaluated(x.model.traces[i], d)]
    <3> QED
      BY <2>1, <2>2 DEF evaluate
  <2>3. CASE y = observe(x, s, d)
    <3> WITNESS [i \in Particles(x.model) |-> Observed(x.model.traces[i], d)]
    <3> QED
      BY <2>1, <2>3 DEF observe
  <2> QED
    BY <2>2, <2>3
<1> DEFINE z == Map(x, k, after)
<1>2. Due(z, d) /\ Typed(z, Trace)
  <2>1. d \in {c, c + 1}
    OBVIOUS
  <2> HIDE DEF d, k
  <2> QED
    BY <1>1, <2>1, MapDue
<1> HIDE DEF z, k
<1>3. y.model = z.model /\ y.loop = z.loop
  BY <1>1, <1>2, TearKept DEF z
<1>4. y.loop = z.loop /\ y.model.weights = z.model.weights /\ y.model.traces = z.model.traces
  BY <1>3
<1> QED
  BY <1>2, <1>4, DueSame

LEMMA ForgetDue ==
  ASSUME NEW x, Typed(x, Trace), NEW c \in Nat, Due(x, c), NEW d \in Did
  PROVE  Due(forget(x, d), c)
<1> DEFINE k == Particles(x.model) \ Having(x, d)
           after == [i \in Particles(x.model) |-> Forgotten(x.model.traces[i], d)]
           z == Map(x, k, after)
<1>1. \A i \in Particles(x.model) :
        /\ after[i] \in Trace /\ Succeeds(x.model.traces[i], after[i], c, c)
        /\ Succeeds(x.model.traces[i], x.model.traces[i], c, c)
  BY TracesTyped, ToldTyped, TraceSucceeds
<1>2. Due(z, c) /\ Typed(z, Trace)
  <2>1. c \in {c, c + 1}
    OBVIOUS
  <2> HIDE DEF k, after
  <2> QED
    BY <1>1, <2>1, MapDue
<1>3. forget(x, d) = IF z.failed THEN z ELSE [z EXCEPT !.model.didToLabel[d] = None]
  BY DEF forget, Then, Unlabelled
<1> HIDE DEF z, k, after
<1> DEFINE l2d == z.model.labelToDid
           d2l == [z.model.didToLabel EXCEPT ![d] = None]
<1>4. z \in Works(Trace) /\ z.model \in Models(Trace)
  BY <1>2 DEF Typed, Works
<1>5. l2d \in [Label -> Did \cup {0}] /\ d2l \in [Did -> Label \cup {None}]
  BY <1>4 DEF Models
<1>6. [z EXCEPT !.model.didToLabel[d] = None] = Relabelled(z, l2d, d2l)
  BY <1>4 DEF Relabelled, Works, Models
<1> HIDE DEF l2d, d2l
<1>7. Unmoved(z, Relabelled(z, l2d, d2l))
  BY <1>2, <1>5, LabelTyped
<1>8. Due(Relabelled(z, l2d, d2l), c)
  BY <1>2, <1>7, DueSame DEF Unmoved
<1> QED
  BY <1>2, <1>3, <1>6, <1>8

LEMMA TearDue ==
  ASSUME NEW x, Typed(x, Trace), NEW c, Due(x, c), NEW d \in Did
  PROVE  Due(Tear(x, d), c)
<1>1. Tear(x, d).model = x.model /\ Tear(x, d).loop = x.loop
  BY TearKept
<1> QED
  BY <1>1, DueSame

LEMMA RefusedDue ==
  ASSUME IInv, Due(Start, counter), NEW l \in Label, Refused(l)
  PROVE  Due(Left, counter')
<1>1. counter' = counter + 1 /\ Left = Start
  BY NumberedIs DEF Refused, Left, Start
<1>2. Typed(Start, Trace) /\ counter \in Nat
  BY StartIs, SoundTyped
<1>3. \A i \in Particles(Start.model) : Succeeds(Start.model.traces[i], Start.model.traces[i], counter, counter + 1)
  BY <1>2, TracesTyped, TraceSucceeds
<1>4. Due(Start, counter + 1)
  <2>1. counter + 1 \in {counter, counter + 1}
    OBVIOUS
  <2> QED
    BY <1>2, <1>3, <2>1, ChangedDue
<1> QED
  BY <1>1, <1>4

LEMMA EvaluateDue ==
  ASSUME IInv, Due(Start, counter), NEW l \in Label \cup {None}, NEW s, Evaluate(l, s)
  PROVE  Due(Left, counter')
<1> DEFINE d == counter + 1
           y == evaluate(Start, s, d)
<1>1. d \in Did /\ d = Next1 /\ counter' = d /\ counter \in Nat /\ d \in Nat /\ Finish(Put(y, l, d))
  BY NumberedIs, StartIs DEF Evaluate
<1>2. Typed(y, Trace) /\ Weighed(y) /\ Due(y, d)
  <2>1. Sound(y, d)
    BY <1>1, StartIs, TellSound
  <2>2. Due(y, d)
    BY <1>1, StartIs, SoundTyped, TellDue
  <2> QED
    BY <2>1, <2>2, SoundTyped
<1> HIDE DEF d, y
<1>3. Typed(Put(y, l, d), Trace) /\ Weighed(Put(y, l, d)) /\ Unmoved(y, Put(y, l, d))
  BY <1>1, <1>2, PutTyped
<1>4. Due(Put(y, l, d), d)
  BY <1>2, <1>3, DueSame DEF Unmoved
<1> QED
  BY <1>1, <1>3, <1>4, FinishDue

LEMMA ObserveDue ==
  ASSUME IInv, Due(Start, counter), NEW l \in Label \cup {None}, NEW s, NEW r, Observe(l, s, r)
  PROVE  Due(Left, counter')
<1> DEFINE d == counter + 1
           y == observe(Start, s, d)
           x == Put(y, l, d)
           u == incorporate(x, r)
           z == Tear(u, d)
<1>1. d \in Did /\ d = Next1 /\ counter' = d /\ counter \in Nat /\ d \in Nat /\ Finish(Then(x, z))
  BY NumberedIs, StartIs DEF Observe
<1>2. Typed(y, Trace) /\ Weighed(y) /\ Due(y, d)
  <2>1. Sound(y, d)
    BY <1>1, StartIs, TellSound
  <2>2. Due(y, d)
    BY <1>1, StartIs, SoundTyped, TellDue
  <2> QED
    BY <2>1, <2>2, SoundTyped
<1> HIDE DEF d, y
<1>3. Typed(x, Trace) /\ Weighed(x) /\ Due(x, d)
  <2>1. Typed(x, Trace) /\ Weighed(x) /\ Unmoved(y, x)
    BY <1>1, <1>2, PutTyped
  <2> QED
    BY <1>2, <2>1, DueSame DEF Unmoved
<1> HIDE DEF x
<1>4. Typed(u, Trace) /\ Weighed(u) /\ Due(u, d)
  BY <1>1, <1>3, IncorporateDue, IncorporateKept, TraceClosed DEF Reworked
<1> HIDE DEF u
<1>5. Typed(z, Trace) /\ Weighed(z) /\ Due(z, d)
  <2>1. Typed(z, Trace) /\ z.model = u.model
    BY <1>1, <1>4, TearKept
  <2> QED
    BY <1>1, <1>4, <2>1, TearDue DEF Weighed
<1> HIDE DEF z
<1>6. Typed(Then(x, z), Trace) /\ Weighed(Then(x, z)) /\ Due(Then(x, z), d)
  BY <1>3, <1>5 DEF Then
<1> QED
  BY <1>1, <1>6, FinishDue

LEMMA ForgetWeighed ==
  ASSUME NEW x, Typed(x, Trace), Weighed(x), NEW c \in Nat, Due(x, c), NEW d \in Did
  PROVE  Typed(forget(x, d), Trace) /\ Weighed(forget(x, d)) /\ Due(forget(x, d), c)
<1>1. x.loop \in Loops(Trace) \cup {None}
  BY DEF Typed, Works
<1>2. \A i \in Particles(x.model) : x.model.traces[i] \in Trace /\ Forgotten(x.model.traces[i], d) \in Trace
  BY TracesTyped, ToldTyped
<1>3. Typed(forget(x, d), Trace) /\ Weighed(forget(x, d))
  BY <1>1, <1>2, ForgetTyped
<1> QED
  BY <1>3, ForgetDue

LEMMA ForgetLeavesDue ==
  ASSUME IInv, Due(Start, counter), NEW d \in Did, Forget(d)
  PROVE  Due(Left, counter)
<1>1. Finish(forget(Start, d))
  BY DEF Forget
<1>2. Typed(forget(Start, d), Trace) /\ Weighed(forget(Start, d)) /\ Due(forget(Start, d), counter)
  BY StartIs, SoundTyped, ForgetWeighed
<1> QED
  BY <1>1, <1>2, StartIs, FinishDue

LEMMA ForgetLabeledDue ==
  ASSUME IInv, Due(Start, counter), NEW l \in Label, ForgetLabeled(l)
  PROVE  Due(Left, counter)
<1> DEFINE d == model.labelToDid[l]
           x == forget(Start, d)
           y == [x EXCEPT !.model.labelToDid[l] = 0]
<1>1. d # 0 /\ Finish(Then(x, y)) /\ counter \in Nat
  BY StartIs DEF ForgetLabeled
<1>2. d \in Did
  <2>1. model.labelToDid \in [Label -> Did \cup {0}]
    BY StartIs DEF Sound, Typed, Works, Models
  <2> QED
    BY <1>1, <2>1
<1>3. Typed(x, Trace) /\ Weighed(x) /\ Due(x, counter)
  BY <1>2, StartIs, SoundTyped, ForgetWeighed
<1> HIDE DEF x, d
<1>4. Typed(y, Trace) /\ Weighed(y) /\ Unmoved(x, y)
  BY <1>3, UnputTyped
<1> HIDE DEF y
<1>5. Due(y, counter)
  BY <1>3, <1>4, DueSame DEF Unmoved
<1>6. Typed(Then(x, y), Trace) /\ Weighed(Then(x, y)) /\ Due(Then(x, y), counter)
  BY <1>3, <1>4, <1>5 DEF Then
<1> QED
  BY <1>1, <1>6, FinishDue

LEMMA ForgetAgainDue ==
  ASSUME NEW x, Typed(x, Trace), Weighed(x), NEW c \in Nat, Due(x, c), NEW d \in Did
  PROVE  /\ Typed(forgetAgain(x, d), Trace) /\ Weighed(forgetAgain(x, d))
         /\ Due(forgetAgain(x, d), c)
BY ForgetWeighed DEF forgetAgain, Then

LEMMA SampleDue ==
  ASSUME IInv, Due(Start, counter), NEW s, Sample(s)
  PROVE  Due(Left, counter')
<1> DEFINE d == counter + 1
           x == evaluate(Start, s, d)
<1>1. d \in Did /\ d = Next1 /\ counter' = d /\ counter \in Nat /\ d \in Nat /\ Finish(forgetAgain(x, d))
  BY NumberedIs, StartIs DEF Sample
<1>2. Typed(x, Trace) /\ Weighed(x) /\ Due(x, d)
  <2>1. Sound(x, d)
    BY <1>1, StartIs, TellSound
  <2>2. Due(x, d)
    BY <1>1, StartIs, SoundTyped, TellDue
  <2> QED
    BY <2>1, <2>2, SoundTyped
<1> HIDE DEF d, x
<1> QED
  BY <1>1, <1>2, ForgetAgainDue, FinishDue

LEMMA ForceDue ==
  ASSUME IInv, Due(Start, counter), NEW s, NEW r, ForceValue(s, r)
  PROVE  Due(Left, counter')
<1> DEFINE d == counter + 1
           x == observe(Start, s, d)
           u == incorporate(x, r)
           y == Tear(u, d)
           z == forgetAgain(y, d)
<1>1. d \in Did /\ d = Next1 /\ counter' = d /\ counter \in Nat /\ d \in Nat /\ Finish(Then(x, z))
  BY NumberedIs, StartIs DEF ForceValue
<1>2. Typed(x, Trace) /\ Weighed(x) /\ Due(x, d)
  <2>1. Sound(x, d)
    BY <1>1, StartIs, TellSound
  <2>2. Due(x, d)
    BY <1>1, StartIs, SoundTyped, TellDue
  <2> QED
    BY <2>1, <2>2, SoundTyped
<1> HIDE DEF d, x
<1>3. Typed(u, Trace) /\ Weighed(u) /\ Due(u, d)
  BY <1>1, <1>2, IncorporateDue, IncorporateKept, TraceClosed DEF Reworked
<1> HIDE DEF u
<1>4. Typed(y, Trace) /\ Weighed(y) /\ Due(y, d)
  <2>1. Typed(y, Trace) /\ y.model = u.model
    BY <1>1, <1>3, TearKept
  <2> QED
    BY <1>1, <1>3, <2>1, TearDue DEF Weighed
<1> HIDE DEF y
<1>5. Typed(z, Trace) /\ Weighed(z) /\ Due(z, d)
  BY <1>1, <1>4, ForgetAgainDue
<1> HIDE DEF z
<1>6. Typed(Then(x, z), Trace) /\ Weighed(Then(x, z)) /\ Due(Then(x, z), d)
  BY <1>2, <1>5 DEF Then
<1> QED
  BY <1>1, <1>6, FinishDue

-----------------------------------------------------------------------------
(* What replaces weights and traces.                                       *)
LEMMA StartWeighed ==
  ASSUME IInv
  PROVE  /\ Typed(Start, Trace) /\ Weighed(Start) /\ counter \in Nat
         /\ Start.model = model /\ Start.loop = loop /\ ~Start.failed /\ Holds(Trace)
<1>1. Typed(Start, Trace) /\ Weighed(Start)
  BY StartIs, SoundTyped
<1> QED
  BY <1>1, StartIs, TraceClosed DEF Holds

LEMMA FinishReweighted ==
  ASSUME NEW x, Typed(x, Trace), NEW c \in Nat, Spared(x.loop, x.model, c),
         NEW w \in Seq(Weight), Len(w) = Len(x.model.traces),
         \A i \in Particles(x.model) : Apart(x.model.traces[i], w[i], c),
         Finish(Reweighted(x, w, w))
  PROVE  Due(Left, c)
<1>1. Typed(Reweighted(x, w, w), Trace) /\ Weighed(Reweighted(x, w, w))
  BY ReweightedKept, TraceClosed DEF Reworked
<1>2. Due(Reweighted(x, w, w), c)
  BY ReweightedDue
<1> QED
  BY <1>1, <1>2, FinishDue

LEMMA EvenWithin ==
  ASSUME NEW w, NEW i \in DOMAIN w
  PROVE  Even(w) \subseteq w[i]
BY DEF Even

(* Traces that are owed their weights have counted just these.             *)
LEMMA CountedIs ==
  ASSUME NEW m, NEW c, Owing(m, c)
  PROVE  \A i \in Particles(m) : Counted(m)[i] = m.weights[i]
BY DEF Counted, Owing, Owed, Apart

LEMMA EvenCounted ==
  ASSUME NEW m, NEW c, Owing(m, c), DOMAIN m.weights = Particles(m)
  PROVE  Even(Counted(m)) = Even(m.weights)
<1>1. DOMAIN Counted(m) = Particles(m)
  BY DEF Counted
<1> QED
  BY <1>1, CountedIs DEF Even

LEMMA ApartWithin ==
  ASSUME NEW t, NEW w, NEW c, Apart(t, w, c), NEW v, v \subseteq w
  PROVE  Apart(t, v, c)
BY DEF Apart

LEMMA IncorporateLeavesDue ==
  ASSUME IInv, Due(Start, counter), NEW r, Incorporate(r)
  PROVE  Due(Left, counter)
<1> DEFINE x == incorporate(Start, r)
<1>1. Typed(x, Trace) /\ Weighed(x)
  BY StartWeighed, IncorporateKept, TraceClosed DEF Reworked
<1>2. Due(x, counter)
  BY StartWeighed, IncorporateDue
<1>3. Finish(x)
  BY DEF Incorporate
<1> HIDE DEF x
<1> QED
  BY <1>1, <1>2, <1>3, StartWeighed, FinishDue

LEMMA LikelihoodWeightDue ==
  ASSUME IInv, Due(Start, counter), LikelihoodWeight
  PROVE  Due(Left, counter)
<1> DEFINE w == [i \in Particles(model) |-> model.traces[i].observed \ model.traces[i].pending]
<1>1. Finish(Reweighted(Start, w, w))
  BY DEF LikelihoodWeight
<1>2. PICK n \in Nat : n = Len(model.traces) /\ Particles(model) = 1..n
  BY StartWeighed, TracesTyped
<1>3. \A i \in 1..n : model.traces[i] \in Fitting(model.labelToDid, model.didToLabel, counter)
  BY <1>2, StartIs, TracesTyped DEF Sound
<1>4. \A i \in 1..n : model.traces[i].observed \ model.traces[i].pending \in Weight
  BY <1>3 DEF Fitting, Trace, Weight
<1>5. w = [i \in 1..n |-> model.traces[i].observed \ model.traces[i].pending]
  BY <1>2
<1> HIDE DEF w
<1>6. w \in Seq(Weight) /\ Len(w) = n
  BY <1>4, <1>5
<1>7. \A i \in Particles(model) : Apart(model.traces[i], w[i], counter)
  <2>1. \A i \in 1..n : model.traces[i].observed \subseteq 1..counter
    BY <1>3 DEF Fitting, directives
  <2>2. \A i \in 1..n : model.traces[i].pending \subseteq 1..counter
    BY <1>2, StartWeighed DEF Due, Owing, Owed, Apart
  <2> QED
    BY <1>2, <1>5, <2>1, <2>2 DEF Apart
<1>8. Spared(Start.loop, Start.model, counter)
  BY DEF Due
<1> QED
  BY <1>1, <1>2, <1>6, <1>7, <1>8, StartWeighed, FinishReweighted

LEMMA EqualizeDue ==
  ASSUME IInv, Due(Start, counter), Equalize
  PROVE  Due(Left, counter)
<1> DEFINE w == [i \in Particles(model) |-> Even(model.weights)]
<1>1. Finish(Reweighted(Start, w, w))
  <2>1. DOMAIN model.weights = Particles(model)
    BY StartWeighed DEF Weighed, Typed, Works, Models, Particles
  <2>2. Even(Counted(model)) = Even(model.weights)
    BY <2>1, StartWeighed, EvenCounted DEF Due
  <2> QED
    BY <2>2 DEF Equalize
<1>2. PICK n \in Nat : n = Len(model.traces) /\ Particles(model) = 1..n
  BY StartWeighed, TracesTyped
<1>3. w = [i \in 1..n |-> Even(model.weights)]
  BY <1>2
<1> HIDE DEF w
<1>4. w \in Seq(Weight) /\ Len(w) = n
  BY <1>3, EvenTyped
<1>5. DOMAIN model.weights = 1..n
  BY <1>2, StartWeighed DEF Weighed, Typed, Works, Models
<1>6. \A i \in Particles(model) : Apart(model.traces[i], w[i], counter)
  <2>1. \A i \in 1..n : Apart(model.traces[i], model.weights[i], counter)
    BY <1>2, StartWeighed DEF Due, Owing, Owed
  <2>2. \A i \in 1..n : w[i] \subseteq model.weights[i]
    BY <1>3, <1>5, EvenWithin
  <2> QED
    BY <1>2, <2>1, <2>2, ApartWithin
<1>7. Spared(Start.loop, Start.model, counter)
  BY DEF Due
<1> QED
  BY <1>1, <1>2, <1>4, <1>6, <1>7, StartWeighed, FinishReweighted

LEMMA ResampledDue ==
  ASSUME NEW x, Typed(x, Trace), Weighed(x), NEW c \in Nat, Due(x, c), NEW n \in Nat,
         NEW parents \in [1..n -> Particles(x.model)], NEW mode \in Mode, NEW s
  PROVE  Due(resample(x, parents, mode, s), c)
<1> DEFINE kept == IF mode = "multiprocess" THEN {}
                   ELSE {p \in DOMAIN parents : p = First(Uses(parents, parents[p]))}
           even == [p \in DOMAIN parents |-> Even(x.model.weights)]
           u == _use_parent(x, parents)
           y == create_trace_pool(u, parents, kept, even)
           z == [y EXCEPT !.model.mode = mode]
           r == Reweighted(z, even, even)
<1>1. resample(x, parents, mode, s) = incorporate(r, s)
  <2>1. DOMAIN x.model.weights = Particles(x.model)
    BY DEF Weighed, Typed, Works, Models, Particles
  <2>2. Even(Counted(x.model)) = Even(x.model.weights)
    BY <2>1, EvenCounted DEF Due
  <2> QED
    BY <2>2 DEF resample
<1>2. kept \in SUBSET (1..n)
  OBVIOUS
<1>3. even \in Seq(Weight) /\ Len(even) = n /\ \A p \in 1..n : even[p] = Even(x.model.weights)
  <2>1. even = [p \in 1..n |-> Even(x.model.weights)]
    OBVIOUS
  <2> HIDE DEF even
  <2> QED
    BY <2>1, EvenTyped
<1>4. Eased(x, u) /\ Typed(u, Trace)
  BY UseParentEased
<1> HIDE DEF kept, even, u
<1>5. Due(u, c) /\ u.model.weights = x.model.weights /\ parents \in [1..n -> Particles(u.model)]
  BY <1>4, EasedDue DEF Eased
<1>6. Typed(y, Trace) /\ Len(y.model.traces) = n /\ Pooled(u, y, n, parents)
  BY <1>2, <1>3, <1>4, <1>5, PoolKept
<1>7. Spared(y.loop, y.model, c)
  BY <1>4, <1>5, <1>6, PoolSpared DEF Due
<1> HIDE DEF y
<1>8. Typed(z, Trace) /\ z.model.traces = y.model.traces /\ z.loop = y.loop
  <2> DEFINE m == [y.model EXCEPT !.mode = mode]
  <2>1. y \in Works(Trace) /\ y.model \in Models(Trace)
    BY <1>6 DEF Typed, Works
  <2>2. m \in Models(Trace) /\ m.traces = y.model.traces
    BY <2>1 DEF Models
  <2>3. z = [y EXCEPT !.model = m]
    BY <2>1 DEF Works, Models
  <2> HIDE DEF m, z
  <2>4. z \in Works(Trace) /\ z.model = m /\ z.loop = y.loop
    BY <2>1, <2>2, <2>3 DEF Works
  <2> QED
    BY <1>6, <2>2, <2>4 DEF Typed, Placed
<1> HIDE DEF z
<1>9. Spared(z.loop, z.model, c)
  BY <1>7, <1>8 DEF Spared, Sparing
<1>10. \A p \in Particles(z.model) : Apart(z.model.traces[p], even[p], c)
  <2>1. Particles(z.model) = 1..n
    BY <1>6, <1>8, TracesTyped
  <2>2. \A p \in 1..n : z.model.traces[p] = u.model.traces[parents[p]]
    BY <1>6, <1>8 DEF Pooled
  <2>3. \A q \in Particles(u.model) : Apart(u.model.traces[q], u.model.weights[q], c)
    BY <1>5 DEF Due, Owing, Owed
  <2>4. \A q \in Particles(u.model) : Even(x.model.weights) \subseteq u.model.weights[q]
    <3>1. Particles(u.model) = DOMAIN x.model.weights
      BY <1>4 DEF Eased, Weighed, Typed, Works, Models, Particles
    <3> QED
      BY <1>5, <3>1, EvenWithin
  <2>5. \A q \in Particles(u.model) : Apart(u.model.traces[q], Even(x.model.weights), c)
    BY <2>3, <2>4, ApartWithin
  <2> QED
    BY <1>3, <1>5, <2>1, <2>2, <2>5
<1>11. Typed(r, Trace) /\ Weighed(r)
  BY <1>3, <1>6, <1>8, ReweightedKept, TraceClosed DEF Reworked
<1>12. Due(r, c)
  BY <1>3, <1>6, <1>8, <1>9, <1>10, ReweightedDue
<1> HIDE DEF r
<1>13. Due(incorporate(r, s), c)
  BY <1>11, <1>12, IncorporateDue
<1> QED
  BY <1>1, <1>13

LEMMA ResampleDue ==
  ASSUME IInv, Due(Start, counter), NEW n \in Nat, NEW parents \in [1..n -> Particles(model)],
         NEW mode \in Mode, NEW s, Resample(parents, mode, s)
  PROVE  Due(Left, counter)
<1> DEFINE x == resample(Start, parents, mode, s)
<1>1. Typed(x, Trace) /\ Weighed(x)
  BY StartWeighed, ResampleKept, TraceClosed DEF Reworked
<1>2. Due(x, counter)
  BY StartWeighed, ResampledDue
<1>3. Finish(x)
  BY DEF Resample
<1> HIDE DEF x
<1> QED
  BY <1>1, <1>2, <1>3, StartWeighed, FinishDue

LEMMA ReinitDue ==
  ASSUME IInv, NEW n \in Nat, NEW parents \in [1..n -> Particles(model)], Reinit(parents)
  PROVE  Due(Left, counter)
<1> DEFINE T == Fitting(model.labelToDid, model.didToLabel, counter)
           x == resample(Start, parents, "sequential", {})
           after == [p \in DOMAIN parents |-> Told(x.model.traces[p])]
           y == On(x, DOMAIN parents, after)
           w == [p \in DOMAIN parents |-> {}]
<1>1. Finish(Reweighted(y, w, w)) /\ loop = None
  BY DEF Reinit
<1>2. Closed(T) /\ Typed(Start, T) /\ Weighed(Start)
  BY StartIs, FittingClosed DEF Sound
<1> HIDE DEF T
<1>3. Reworked(Start, x, T) /\ Len(x.model.traces) = n /\ x.loop = None
  BY <1>1, <1>2, StartWeighed, ResampleKept DEF Mode
<1>4. DOMAIN parents = 1..n /\ Particles(x.model) = 1..n /\ \A p \in 1..n : x.model.traces[p] \in T
  BY <1>3, TracesTyped DEF Reworked
<1> HIDE DEF x
<1>5. /\ Redone(x, y, T)
      /\ \A i \in 1..n : y.model.traces[i] = Told(x.model.traces[i])
  <2>1. \A i \in DOMAIN parents \cap DOMAIN x.model.traces : after[i] \in T
    BY <1>2, <1>4, TraceKept
  <2>2. \A i \in 1..n : after[i] = Told(x.model.traces[i])
    BY <1>4
  <2> HIDE DEF after
  <2>3. /\ Redone(x, y, T)
        /\ \A i \in DOMAIN x.model.traces :
             y.model.traces[i] = IF i \in DOMAIN parents THEN after[i] ELSE x.model.traces[i]
    BY <1>3, <2>1, OnTyped DEF Reworked
  <2> HIDE DEF y
  <2> QED
    BY <1>4, <2>2, <2>3 DEF Particles
<1> HIDE DEF y
<1>6. w \in Seq(Weight) /\ Len(w) = n /\ \A i \in 1..n : w[i] = {}
  <2>1. w = [p \in 1..n |-> {}]
    BY <1>4
  <2>2. {} \in Weight
    BY DEF Weight
  <2> QED
    BY <2>1, <2>2
<1> HIDE DEF w
<1>7. Typed(y, Trace) /\ Len(y.model.traces) = n /\ y.loop = None /\ Particles(y.model) = 1..n
  <2>1. Typed(y, T) /\ Len(y.model.traces) = n /\ y.loop = None
    BY <1>3, <1>5 DEF Redone
  <2> QED
    BY <1>2, <2>1, TypedGrows, TracesTyped DEF Closed
<1>8. \A i \in 1..n : Apart(y.model.traces[i], w[i], counter)
  <2>1. ASSUME NEW t \in T
        PROVE  Told(t).pending \subseteq 1..counter
    BY DEF T, Fitting, directives, Told, Trace
  <2> QED
    BY <1>4, <1>5, <1>6, <2>1 DEF Apart
<1>9. Spared(y.loop, y.model, counter)
  BY <1>7 DEF Spared
<1> QED
  BY <1>1, <1>6, <1>7, <1>8, <1>9, StartWeighed, FinishReweighted

LEMMA RetrieveEased ==
  ASSUME IInv, Due(Start, counter)
  PROVE  LET x == retrieve_traces(Start)
         IN Eased(Start, x) /\ Typed(x, Trace) /\ Due(x, counter)
<1> DEFINE x == retrieve_traces(Start)
<1>1. Eased(Start, x) /\ Typed(x, Trace)
  BY StartWeighed, DumpEased DEF retrieve_traces
<1> HIDE DEF x
<1>2. Due(x, counter)
  BY <1>1, StartWeighed, EasedDue
<1> QED
  BY <1>1, <1>2 DEF x

LEMMA DumpLoses ==
  ASSUME NEW x, Typed(x, Trace), NEW some
  PROVE  \A i \in Particles(x.model) \cap some : dump(x, some).model.traces[i].pending = {}
<1>1. \A i \in some \cap DOMAIN x.model.traces : lose(x)[i] \in Trace
  BY TraceKept, TraceClosed, TracesTyped DEF lose, Particles
<1>2. \A i \in Particles(x.model) \cap some : dump(x, some).model.traces[i] = lose(x)[i]
  BY <1>1, OnTyped DEF dump, Particles
<1>3. \A t \in Trace : Lose(t).pending = {}
  BY DEF Lose, Trace
<1>4. \A i \in Particles(x.model) : lose(x)[i].pending = {}
  BY <1>3, TracesTyped DEF lose
<1> QED
  BY <1>2, <1>4

LEMMA DiversifyDue ==
  ASSUME IInv, Due(Start, counter), NEW parents \in Diversified, NEW still, Diversify(parents, still)
  PROVE  Due(Left, counter)
<1> DEFINE kept == {p \in DOMAIN parents : parents[p] \in still}
           u == retrieve_traces(Start)
           x == dump(u, Particles(model) \ still)
           w == [p \in DOMAIN parents |-> model.weights[parents[p]]]
           y == create_trace_pool(x, parents, kept, w)
<1>1. Finish(y)
  BY DEF Diversify
<1>2. PICK n \in Nat : parents \in [1..n -> Particles(model)]
  BY BoundsAssumption DEF Diversified
<1>3. Eased(Start, u) /\ Typed(u, Trace)
  BY RetrieveEased
<1> HIDE DEF u
<1>4. Eased(u, x) /\ Typed(x, Trace)
  BY <1>3, DumpEased
<1> HIDE DEF x
<1>5. Eased(Start, x)
  BY <1>3, <1>4, StartWeighed, EasedTrans
<1>6. Due(x, counter) /\ x.model.weights = model.weights /\ Particles(x.model) = Particles(model)
  BY <1>4, <1>5, StartWeighed, EasedDue DEF Eased
<1>7. kept \in SUBSET (1..n)
  BY <1>2
<1>8. w \in Seq(Weight) /\ Len(w) = n /\ \A p \in 1..n : w[p] = model.weights[parents[p]]
  <2>1. \A i \in Particles(model) : model.weights[i] \in Weight
    BY StartWeighed, WeightsTyped
  <2>2. \A p \in 1..n : model.weights[parents[p]] \in Weight
    BY <1>2, <2>1
  <2>3. w = [p \in 1..n |-> model.weights[parents[p]]]
    BY <1>2
  <2> HIDE DEF w
  <2> QED
    BY <2>2, <2>3
<1> HIDE DEF kept, w
<1>9. parents \in [1..n -> Particles(x.model)]
  BY <1>2, <1>6
<1>10. Typed(y, Trace) /\ y.model.weights = w /\ Len(y.model.traces) = n /\ Pooled(x, y, n, parents)
  BY <1>4, <1>7, <1>8, <1>9, PoolKept
<1> HIDE DEF y
<1>11. Spared(y.loop, y.model, counter)
  BY <1>4, <1>6, <1>9, <1>10, PoolSpared DEF Due
<1>12. Owing(y.model, counter)
  <2>1. Particles(y.model) = 1..n
    BY <1>10, TracesTyped
  <2>2. \A p \in 1..n : y.model.traces[p] = x.model.traces[parents[p]]
    BY <1>10 DEF Pooled
  <2>3. \A q \in Particles(x.model) : Owed(x.model.traces[q], x.model.weights[q], counter)
    BY <1>6 DEF Due, Owing
  <2> QED
    BY <1>6, <1>8, <1>9, <1>10, <2>1, <2>2, <2>3 DEF Owing
<1>13. Weighed(y) /\ Due(y, counter)
  BY <1>8, <1>10, <1>11, <1>12 DEF Weighed, Due
<1> QED
  BY <1>1, <1>10, <1>13, StartWeighed, FinishDue

LEMMA KeepersFinite ==
  ASSUME IInv, NEW group \in Groupings, NEW keepers \in Keepers(group)
  PROVE  \E n \in Nat : keepers \in [1..n -> Particles(model)]
<1>1. IsFiniteSet(Range(group))
  <2>1. PICK k \in Nat : Particles(model) = 1..k
    BY StartWeighed, TracesTyped
  <2>2. Range(group) \subseteq 1..k
    BY <2>1 DEF Groupings, Range
  <2>3. IsFiniteSet(1..k)
    BY FS_Interval
  <2> QED
    BY <2>2, <2>3, FS_Subset
<1>2. Cardinality(Range(group)) \in Nat
  BY <1>1, FS_CardinalityType
<1> QED
  BY <1>2 DEF Keepers

LEMMA CollapseDue ==
  ASSUME IInv, Due(Start, counter), NEW group \in Groupings, NEW keepers \in Keepers(group),
         NEW map \in BOOLEAN, Collapse(group, keepers, map)
  PROVE  Due(Left, counter)
<1> DEFINE peers(i) == [k \in {k \in DOMAIN group : group[k] = group[i]} |-> model.weights[k]]
           total(i) == IF map THEN model.weights[i] ELSE Even(peers(i))
           x == retrieve_traces(Start)
           v == dump(x, Range(keepers))
           y == IF model.backend = "lite" THEN v ELSE x
           u == create_trace_pool(y, keepers, {}, <<>>)
           z == dump(u, DOMAIN keepers)
           w == [j \in DOMAIN keepers |-> total(keepers[j])]
           shared(j, d) == \A k \in DOMAIN group :
                             group[k] = group[keepers[j]] => d \in Counted(model)[k]
           owed(j) == {d \in Counted(z.model)[j] : map \/ shared(j, d)}
<1>1. Finish(Reweighted(z, w, [j \in DOMAIN keepers |-> owed(j)]))
  BY DEF Collapse
<1>2. PICK n \in Nat : keepers \in [1..n -> Particles(model)]
  BY KeepersFinite
<1>3. Eased(Start, x) /\ Typed(x, Trace)
  BY RetrieveEased
<1> HIDE DEF x
<1>4. Eased(x, v) /\ Typed(v, Trace)
  BY <1>3, DumpEased
<1> HIDE DEF v
<1>5. Eased(Start, v)
  BY <1>3, <1>4, StartWeighed, EasedTrans
<1>6. Eased(Start, y) /\ Typed(y, Trace)
  BY <1>3, <1>4, <1>5
<1>7. \A i \in Particles(model) : total(i) \subseteq model.weights[i] /\ total(i) \in Weight
  <2> TAKE i \in Particles(model)
  <2>1. model.weights[i] \in Weight
    BY StartWeighed, WeightsTyped
  <2>2. i \in DOMAIN peers(i) /\ peers(i)[i] = model.weights[i]
    BY DEF Groupings
  <2>3. Even(peers(i)) \subseteq model.weights[i]
    <3> HIDE DEF peers
    <3> QED
      BY <2>2, EvenWithin
  <2> QED
    BY <2>1, <2>3 DEF Weight
<1>17. ASSUME NEW i \in Particles(model)
       PROVE  total(i) = {d \in model.weights[i] : map \/ \A k \in DOMAIN group :
                            group[k] = group[i] => d \in Counted(model)[k]}
  <2>1. \A k \in Particles(model) : Counted(model)[k] = model.weights[k]
    BY StartWeighed, CountedIs DEF Due
  <2>2. DOMAIN group = Particles(model) /\ model.weights[i] \subseteq Did
    BY StartWeighed, WeightsTyped DEF Groupings, Weight
  <2>3. DOMAIN peers(i) = {k \in DOMAIN group : group[k] = group[i]}
        /\ \A k \in DOMAIN peers(i) : peers(i)[k] = Counted(model)[k]
    BY <2>1, <2>2
  <2>4. CASE map
    BY <2>4
  <2>5. CASE ~map
    <3>1. total(i) = {d \in Did : \A k \in DOMAIN peers(i) : d \in peers(i)[k]}
      BY <2>5 DEF Even
    <3>2. i \in DOMAIN peers(i) /\ peers(i)[i] = model.weights[i]
      BY <2>2
    <3> HIDE DEF peers, total
    <3> QED
      BY <2>2, <2>3, <2>5, <3>1, <3>2
  <2> QED
    BY <2>4, <2>5
<1> HIDE DEF y, total
<1>8. w \in Seq(Weight) /\ Len(w) = n /\ \A j \in 1..n : w[j] = total(keepers[j])
  <2>1. \A j \in 1..n : total(keepers[j]) \in Weight
    BY <1>2, <1>7
  <2>2. w = [j \in 1..n |-> total(keepers[j])]
    BY <1>2
  <2> HIDE DEF w
  <2> QED
    BY <2>1, <2>2
<1> HIDE DEF w
<1>9. Due(y, counter) /\ keepers \in [1..n -> Particles(y.model)]
  BY <1>2, <1>6, StartWeighed, EasedDue DEF Eased
<1>10. Typed(u, Trace) /\ Len(u.model.traces) = n /\ Pooled(y, u, n, keepers)
  <2>1. PICK none \in Seq(Weight) : none = <<>>
    BY NoWeights
  <2>2. PICK kept \in SUBSET (1..n) : kept = {}
    OBVIOUS
  <2>3. u = create_trace_pool(y, keepers, kept, none)
    BY <2>1, <2>2
  <2> HIDE DEF u
  <2> QED
    BY <1>6, <1>9, <2>3, PoolKept
<1> HIDE DEF u
<1>11. Spared(u.loop, u.model, counter)
  BY <1>6, <1>9, <1>10, StartWeighed, PoolSpared DEF Due
<1>12. Eased(u, z) /\ Typed(z, Trace)
  BY <1>10, DumpEased
<1>13. Particles(u.model) = 1..n /\ Particles(z.model) = 1..n /\ Len(z.model.traces) = n
  <2>1. Particles(u.model) = 1..n
    BY <1>10, TracesTyped
  <2>2. Particles(z.model) = 1..n
    BY <1>12, <2>1 DEF Eased
  <2>3. Particles(z.model) = 1..Len(z.model.traces) /\ Len(z.model.traces) \in Nat
    BY <1>12, TracesTyped
  <2> QED
    BY <2>1, <2>2, <2>3
<1>14. \A j \in 1..n : z.model.traces[j].pending = {}
  BY <1>2, <1>10, <1>13, DumpLoses
<1> HIDE DEF z
<1>15. Spared(z.loop, z.model, counter)
  BY <1>10, <1>11, <1>12, StartWeighed, EasedSpared
<1>16. \A j \in 1..n : Apart(z.model.traces[j], w[j], counter)
  <2>1. \A i \in Particles(model) : model.weights[i] \subseteq 1..counter
    BY StartWeighed DEF Due, Owing, Owed, Apart
  <2>2. \A j \in 1..n : w[j] \subseteq 1..counter
    BY <1>2, <1>7, <1>8, <2>1
  <2> QED
    BY <1>14, <2>2 DEF Apart
<1>18. \A j \in 1..n : Counted(z.model)[j] = model.weights[keepers[j]]
  <2> TAKE j \in 1..n
  <2> DEFINE t == u.model.traces[j]
  <2>1. Owed(y.model.traces[keepers[j]], y.model.weights[keepers[j]], counter)
    BY <1>9 DEF Due, Owing
  <2>2. t \in Trace /\ Owed(t, model.weights[keepers[j]], counter)
    BY <1>6, <1>10, <1>13, <2>1, StartWeighed, TracesTyped DEF Eased, Pooled
  <2>3. z.model.traces[j] = t \/ z.model.traces[j] = Lose(t)
    BY <1>12, <1>13 DEF Eased
  <2> HIDE DEF t
  <2>4. Owed(z.model.traces[j], model.weights[keepers[j]], counter)
    BY <2>2, <2>3, StartWeighed, TraceSucceeds DEF Succeeds
  <2> QED
    BY <1>13, <2>4 DEF Counted, Owed, Apart
<1>19. \A j \in 1..n : owed(j) = total(keepers[j])
  <2> TAKE j \in 1..n
  <2>1. keepers[j] \in Particles(model)
    BY <1>2
  <2> QED
    BY <1>17, <1>18, <2>1
<1>20. Finish(Reweighted(z, w, w))
  <2>1. [j \in DOMAIN keepers |-> owed(j)] = w
    BY <1>2, <1>19 DEF w
  <2> QED
    BY <1>1, <2>1
<1> QED
  BY <1>20, <1>8, <1>12, <1>13, <1>15, <1>16, StartWeighed, FinishReweighted

-----------------------------------------------------------------------------
(* The turns of a loop.                                                    *)
LEMMA TurnDue ==
  ASSUME NEW m \in Models(Trace), NEW l \in Loops(Trace), NEW i \in 1..Len(l.originals),
         Len(l.weights) = Len(l.originals), NEW c,
         \A k \in 1..Len(l.originals) : Apart(l.originals[k], l.weights[k], c),
         \A k \in 1..Len(l.originals) : k >= i => Owed(l.originals[k], l.weights[k], c),
         \A k \in 1..Len(l.done) : Owed(l.done[k], l.doneWeights[k], c),
         Turn(m, l, i)
  PROVE  Due(Left, c)
<1> DEFINE ts == <<l.originals[i]>>
           ws == <<l.weights[i]>>
           n == [m EXCEPT !.traces = ts, !.weights = ws]
           self == IF m.mode = "sequential" THEN 1 ELSE 0
           k == [l EXCEPT !.at = i, !.self = self]
<1>1. model' = n /\ loop' = k
  BY DEF Turn
<1>2. l.originals \in Seq(Trace) /\ l.weights \in Seq(Weight) /\ i \in Nat
  BY DEF Loops
<1>3. Owed(ts[1], ws[1], c) /\ DOMAIN ts = {1} /\ Apart(ts[1], l.weights[i], c)
  BY <1>2
<1>4. self \in {0, 1}
  OBVIOUS
<1> HIDE DEF ts, ws, self
<1>5. n.traces = ts /\ n.weights = ws
  BY DEF Models
<1>6. /\ k.at = i /\ k.self = self /\ k.originals = l.originals
      /\ k.weights = l.weights /\ k.done = l.done /\ k.doneWeights = l.doneWeights
  BY DEF Loops
<1> HIDE DEF n, k
<1>7. Owing(n, c)
  BY <1>3, <1>5 DEF Owing, Particles
<1>8. Sparing(k, n, c)
  <2>1. \A j \in 1..Len(l.originals) : j > i => j >= i
    BY <1>2
  <2>2. k.self # 0 => Apart(n.traces[k.self], k.weights[k.at], c)
    BY <1>3, <1>4, <1>5, <1>6
  <2> QED
    BY <1>6, <2>1, <2>2 DEF Sparing
<1> QED
  BY <1>1, <1>7, <1>8 DEF Due, Left, Spared

LEMMA BeginDue ==
  ASSUME IInv, Due(Start, counter), NEW each \in BOOLEAN, NEW i \in Particles(model), Begin(each, i)
  PROVE  Due(Left, counter)
<1> DEFINE x == retrieve_traces(Start)
           m == [x.model EXCEPT !.mode = "sequential"]
           done == SubSeq(x.model.traces, 1, i - 1)
           doneWeights == SubSeq(x.model.weights, 1, i - 1)
           l == [each |-> each, mode |-> x.model.mode, at |-> i, self |-> 0,
                 originals |-> x.model.traces, weights |-> x.model.weights,
                 done |-> done, doneWeights |-> doneWeights]
<1>1. Turn(m, l, i)
  BY DEF Begin
<1>2. Eased(Start, x) /\ Typed(x, Trace) /\ Due(x, counter) /\ Weighed(x)
  BY RetrieveEased, RetrieveKept, StartWeighed DEF Reworked
<1> HIDE DEF x
<1>3. /\ x.model \in Models(Trace) /\ Len(x.model.weights) = Len(x.model.traces)
      /\ i \in 1..Len(x.model.traces)
  BY <1>2, StartWeighed, TracesTyped DEF Typed, Works, Weighed, Eased
<1>4. /\ x.model.traces \in Seq(Trace) /\ x.model.weights \in Seq(Weight) /\ x.model.mode \in Mode
      /\ i \in Nat
  BY <1>3 DEF Models
<1>5. m \in Models(Trace)
  BY <1>3 DEF Models, Mode
<1>6. /\ done \in Seq(Trace) /\ Len(done) = i - 1 /\ doneWeights \in Seq(Weight)
      /\ \A k \in 1..(i - 1) : done[k] = x.model.traces[k] /\ doneWeights[k] = x.model.weights[k]
  <2>1. i - 1 \in 0..Len(x.model.traces) /\ i - 1 \in 0..Len(x.model.weights)
    BY <1>3, <1>4
  <2> QED
    BY <1>3, <1>4, <2>1
<1> HIDE DEF m, done, doneWeights
<1>7. /\ l \in Loops(Trace) /\ l.originals = x.model.traces /\ l.weights = x.model.weights
      /\ l.done = done /\ l.doneWeights = doneWeights
  BY <1>3, <1>4, <1>6 DEF Loops
<1> HIDE DEF l
<1>8. \A k \in 1..Len(x.model.traces) : Owed(x.model.traces[k], x.model.weights[k], counter)
  BY <1>2, <1>4 DEF Due, Owing, Particles
<1>9. \A k \in 1..Len(x.model.traces) : Apart(x.model.traces[k], x.model.weights[k], counter)
  BY <1>8 DEF Owed
<1>10. \A k \in 1..Len(l.done) : Owed(l.done[k], l.doneWeights[k], counter)
  BY <1>3, <1>4, <1>6, <1>7, <1>8
<1> QED
  BY <1>1, <1>3, <1>5, <1>7, <1>8, <1>9, <1>10, TurnDue

LEMMA JoinOwed ==
  ASSUME NEW c, NEW ts \in Seq(Trace), NEW us \in Seq(Trace), NEW v \in Seq(Weight), NEW w \in Seq(Weight),
         Len(v) = Len(ts), Len(w) = Len(us),
         \A k \in 1..Len(ts) : Owed(ts[k], v[k], c),
         \A k \in 1..Len(us) : Owed(us[k], w[k], c)
  PROVE  /\ ts \o us \in Seq(Trace) /\ v \o w \in Seq(Weight) /\ Len(v \o w) = Len(ts \o us)
         /\ \A k \in 1..Len(ts \o us) : Owed((ts \o us)[k], (v \o w)[k], c)
<1>1. /\ ts \o us \in Seq(Trace) /\ Len(ts \o us) = Len(ts) + Len(us)
      /\ v \o w \in Seq(Weight) /\ Len(v \o w) = Len(v) + Len(w)
  <2>1. ts \o us \in Seq(Trace) /\ Len(ts \o us) = Len(ts) + Len(us)
    BY JoinTyped, Zenon
  <2>2. v \o w \in Seq(Weight) /\ Len(v \o w) = Len(v) + Len(w)
    BY JoinTyped, Zenon
  <2> QED
    BY <2>1, <2>2
<1>2. ASSUME NEW k \in 1..Len(ts \o us)
      PROVE  Owed((ts \o us)[k], (v \o w)[k], c)
  <2>1. k \in 1..(Len(ts) + Len(us))
    BY <1>1
  <2>2. CASE k \in 1..Len(ts)
    <3>1. (ts \o us)[k] = ts[k] /\ (v \o w)[k] = v[k]
      BY <2>1, <2>2
    <3> QED
      BY <2>2, <3>1
  <2>3. CASE k \notin 1..Len(ts)
    <3>1. (ts \o us)[k] = us[k - Len(ts)] /\ (v \o w)[k] = w[k - Len(ts)] /\ k - Len(ts) \in 1..Len(us)
      BY <2>1, <2>3
    <3> QED
      BY <3>1
  <2> QED
    BY <2>2, <2>3
<1> QED
  BY <1>1, <1>2

LEMMA SuffixTyped ==
  ASSUME NEW S, NEW s \in Seq(S), NEW n \in Nat, Len(s) = n, NEW i \in 1..n
  PROVE  /\ SubSeq(s, i + 1, n) \in Seq(S) /\ Len(SubSeq(s, i + 1, n)) = n - i
         /\ \A k \in 1..(n - i) : SubSeq(s, i + 1, n)[k] = s[i + k]
<1>1. /\ SubSeq(s, i + 1, n) \in Seq(S) /\ Len(SubSeq(s, i + 1, n)) = n - i
  OBVIOUS
<1>2. ASSUME NEW k \in 1..(n - i)
      PROVE  SubSeq(s, i + 1, n)[k] = s[i + k]
  <2>1. SubSeq(s, i + 1, n)[k] = s[i + 1 + k - 1]
    BY <1>1
  <2>2. i + 1 + k - 1 = i + k
    OBVIOUS
  <2> QED
    BY <2>1, <2>2
<1> QED
  BY <1>1, <1>2

LEMMA EndTurnDue ==
  ASSUME IInv, Due(Start, counter), EndTurn
  PROVE  Due(Left, counter)
<1> DEFINE x == retrieve_traces(Start)
           done == x.loop.done \o x.model.traces
           doneWeights == x.loop.doneWeights \o x.model.weights
           l == Gathered(x.loop, x.model)
           n == Len(l.originals)
           rest == SubSeq(l.originals, l.at + 1, n)
           restWeights == SubSeq(l.weights, l.at + 1, n)
           ts == l.done \o rest
           ws == l.doneWeights \o restWeights
           m == [x.model EXCEPT !.mode = l.mode, !.traces = ts, !.weights = ws]
<1>1. /\ loop # None
      /\ IF l.each /\ l.at < n THEN Turn(x.model, l, l.at + 1) ELSE loop' = None /\ model' = m
  BY DEF EndTurn
<1>2. Eased(Start, x) /\ Typed(x, Trace) /\ Due(x, counter) /\ Weighed(x) /\ x.loop = loop
  BY RetrieveEased, RetrieveKept, StartWeighed DEF Reworked
<1> HIDE DEF x
<1>3. /\ x.model \in Models(Trace) /\ x.loop \in Loops(Trace)
      /\ Len(x.model.weights) = Len(x.model.traces)
      /\ x.loop.at \in 1..Len(x.loop.originals) /\ Len(x.loop.weights) = Len(x.loop.originals)
      /\ Len(x.loop.doneWeights) = Len(x.loop.done)
  BY <1>1, <1>2 DEF Typed, Works, Weighed, Placed
<1>4. /\ x.model.traces \in Seq(Trace) /\ x.model.weights \in Seq(Weight)
      /\ x.loop.done \in Seq(Trace) /\ x.loop.doneWeights \in Seq(Weight)
  BY <1>3 DEF Models, Loops
<1>5. Sparing(x.loop, x.model, counter)
  BY <1>1, <1>2 DEF Due, Spared
<1>6. \A k \in 1..Len(x.model.traces) : Owed(x.model.traces[k], x.model.weights[k], counter)
  BY <1>2, <1>4 DEF Due, Owing, Particles
<1>7. \A k \in 1..Len(x.loop.done) : Owed(x.loop.done[k], x.loop.doneWeights[k], counter)
  BY <1>5 DEF Sparing
<1>8. /\ done \in Seq(Trace) /\ doneWeights \in Seq(Weight) /\ Len(doneWeights) = Len(done)
      /\ \A k \in 1..Len(done) : Owed(done[k], doneWeights[k], counter)
  BY <1>3, <1>4, <1>6, <1>7, JoinOwed
<1>9. l = [x.loop EXCEPT !.done = done, !.doneWeights = doneWeights]
  BY <1>3 DEF Gathered, Loops
<1> HIDE DEF done, doneWeights, l
<1>10. /\ l \in Loops(Trace) /\ l.done = done /\ l.doneWeights = doneWeights /\ l.at = x.loop.at
       /\ l.originals = x.loop.originals /\ l.weights = x.loop.weights
  BY <1>3, <1>8, <1>9 DEF Loops
<1>11. /\ l.originals \in Seq(Trace) /\ l.weights \in Seq(Weight) /\ l.at \in 1..n /\ n \in Nat
       /\ Len(l.weights) = n
  BY <1>3, <1>10 DEF Loops
<1>12. /\ \A k \in 1..n : Apart(l.originals[k], l.weights[k], counter)
       /\ \A k \in 1..n : k > l.at => Owed(l.originals[k], l.weights[k], counter)
  BY <1>5, <1>10 DEF Sparing
<1>13. CASE l.each /\ l.at < n
  <2>1. Turn(x.model, l, l.at + 1) /\ l.at + 1 \in 1..n
    BY <1>1, <1>11, <1>13
  <2>2. \A k \in 1..n : k >= l.at + 1 => Owed(l.originals[k], l.weights[k], counter)
    BY <1>11, <1>12
  <2>3. \A k \in 1..Len(l.done) : Owed(l.done[k], l.doneWeights[k], counter)
    BY <1>8, <1>10
  <2> QED
    BY <1>3, <1>10, <1>11, <1>12, <2>1, <2>2, <2>3, TurnDue
<1>14. CASE ~(l.each /\ l.at < n)
  <2>1. loop' = None /\ model' = m
    BY <1>1, <1>14
  <2>2. /\ rest \in Seq(Trace) /\ Len(rest) = n - l.at
        /\ restWeights \in Seq(Weight) /\ Len(restWeights) = n - l.at
        /\ \A k \in 1..(n - l.at) :
             rest[k] = l.originals[l.at + k] /\ restWeights[k] = l.weights[l.at + k]
    <3>1. /\ rest \in Seq(Trace) /\ Len(rest) = n - l.at
          /\ \A k \in 1..(n - l.at) : rest[k] = l.originals[l.at + k]
      BY <1>11, SuffixTyped, Zenon
    <3>2. /\ restWeights \in Seq(Weight) /\ Len(restWeights) = n - l.at
          /\ \A k \in 1..(n - l.at) : restWeights[k] = l.weights[l.at + k]
      BY <1>11, SuffixTyped, Zenon
    <3> QED
      BY <3>1, <3>2
  <2>3. \A k \in 1..Len(rest) : Owed(rest[k], restWeights[k], counter)
    <3>1. \A k \in 1..(n - l.at) : l.at + k \in 1..n /\ l.at + k > l.at
      BY <1>11
    <3> QED
      BY <1>12, <2>2, <3>1
  <2> HIDE DEF rest, restWeights
  <2>4. /\ ts \in Seq(Trace) /\ \A k \in 1..Len(ts) : Owed(ts[k], ws[k], counter)
    <3>1. Len(restWeights) = Len(rest)
      BY <2>2
    <3> QED
      BY <1>8, <1>10, <2>2, <2>3, <3>1, JoinOwed
  <2> HIDE DEF ts, ws
  <2>5. m.traces = ts /\ m.weights = ws
    BY <1>3 DEF Models
  <2> HIDE DEF m
  <2>6. Owing(m, counter)
    BY <2>4, <2>5 DEF Owing, Particles
  <2> QED
    BY <2>1, <2>6 DEF Left, Due, Spared
<1> QED
  BY <1>13, <1>14

LEMMA TurnRaisesDue ==
  ASSUME IInv, Due(Start, counter), TurnRaises
  PROVE  Due(Left, counter)
<1> DEFINE x == [Start EXCEPT !.failed = TRUE]
<1>1. Typed(x, Trace) /\ Weighed(x) /\ x.model = Start.model /\ x.loop = Start.loop
  BY StartWeighed DEF Typed, Works, Weighed
<1>2. Finish(x)
  BY DEF TurnRaises
<1> HIDE DEF x
<1>3. Due(x, counter)
  BY <1>1, DueSame
<1> QED
  BY <1>1, <1>2, <1>3, StartWeighed, FinishDue

-----------------------------------------------------------------------------
LEMMA SaveDue ==
  ASSUME IInv, Due(Start, counter), NEW backend \in Backend, Save \/ Restore(backend)
  PROVE  Due(Left, counter)
<1> DEFINE x == dump(Start, Particles(model))
<1>1. /\ model' = x.model \/ model' = [x.model EXCEPT !.backend = backend]
      /\ loop' = loop
  BY DEF Save, Restore, Dumped
<1>2. Eased(Start, x) /\ Typed(x, Trace)
  BY StartWeighed, DumpEased
<1> HIDE DEF x
<1>3. Due(x, counter) /\ x.loop = loop
  BY <1>2, StartWeighed, EasedDue DEF Eased
<1>4. x.model \in Models(Trace)
  BY <1>2 DEF Typed, Works
<1>5. model'.traces = x.model.traces /\ model'.weights = x.model.weights
  BY <1>1, <1>4 DEF Models
<1>6. Left.model = model' /\ Left.loop = loop'
  BY DEF Left
<1> QED
  BY <1>1, <1>3, <1>5, <1>6, DueSame

LEMMA NewModelDue ==
  ASSUME NEW x, NEW backend, NEW mode, x.model = NewModel(backend, mode), x.loop = None
  PROVE  Due(x, 0)
<1>1. x.model.traces = <<Blank>> /\ x.model.weights = <<{}>>
  BY DEF NewModel
<1>2. Owed(Blank, {}, 0)
  BY DEF Owed, Apart, Blank
<1> QED
  BY <1>1, <1>2 DEF Due, Owing, Particles, Spared

(* With weights that follow their traces, besides.                         *)
KInv == JInv /\ Due(Start, counter)

LEMMA InitDue ==
  ASSUME Init
  PROVE  KInv
<1>1. PICK backend \in Backend : model = NewModel(backend, "sequential")
  BY DEF Init
<1>2. Start.model = model /\ Start.loop = None /\ counter = 0
  BY StartModel DEF Init
<1>3. Due(Start, 0)
  BY <1>1, <1>2, NewModelDue
<1> QED
  BY <1>2, <1>3, InitInStep DEF KInv

LEMMA ClearDue ==
  ASSUME Clear
  PROVE  Due(Left, counter')
<1>1. Left.model = NewModel(model.backend, model.mode) /\ Left.loop = None /\ counter' = 0
  BY DEF Clear, Left
<1>2. Due(Left, 0)
  BY <1>1, NewModelDue
<1> QED
  BY <1>1, <1>2

LEMMA NextDue ==
  ASSUME KInv, [Next]_vars
  PROVE  KInv'
<1>1. JInv'
  BY NextInStep DEF KInv
<1>2. SUFFICES Due(Left, counter')
  BY <1>1 DEF KInv, Left, Start
<1>3. IInv /\ Due(Start, counter)
  BY DEF KInv, JInv
<1>4. CASE UNCHANGED vars
  BY <1>3, <1>4 DEF vars, Start, Left
<1>5. CASE Model
  <2>1. ASSUME NEW l \in Label, Refused(l)
        PROVE  Due(Left, counter')
    BY <1>3, <2>1, RefusedDue
  <2>2. ASSUME NEW l \in Label \cup {None}, NEW s, Evaluate(l, s)
        PROVE  Due(Left, counter')
    BY <1>3, <2>2, EvaluateDue
  <2>3. ASSUME NEW s, Sample(s)
        PROVE  Due(Left, counter')
    BY <1>3, <2>3, SampleDue
  <2>4. ASSUME NEW s, Incorporate(s)
        PROVE  Due(Left, counter')
    BY <1>3, <2>4, IncorporateLeavesDue DEF Incorporate, Unnumbered
  <2>5. ASSUME NEW l \in Label \cup {None}, NEW s, NEW r, Observe(l, s, r)
        PROVE  Due(Left, counter')
    BY <1>3, <2>5, ObserveDue
  <2>6. ASSUME NEW s, NEW r, ForceValue(s, r)
        PROVE  Due(Left, counter')
    BY <1>3, <2>6, ForceDue
  <2>7. ASSUME NEW d \in Did, Forget(d)
        PROVE  Due(Left, counter')
    BY <1>3, <2>7, ForgetLeavesDue DEF Forget, Unnumbered
  <2>8. ASSUME NEW l \in Label, ForgetLabeled(l)
        PROVE  Due(Left, counter')
    BY <1>3, <2>8, ForgetLabeledDue DEF ForgetLabeled, Unnumbered
  <2> QED
    BY <1>5, <2>1, <2>2, <2>3, <2>4, <2>5, <2>6, <2>7, <2>8 DEF Model
<1>6. CASE Reshape
  <2>1. CASE LikelihoodWeight \/ Equalize
    BY <1>3, <2>1, LikelihoodWeightDue, EqualizeDue DEF LikelihoodWeight, Equalize, Unnumbered
  <2>2. ASSUME NEW n \in 1..MaxParticles, NEW parents \in [1..n -> Particles(model)], Reinit(parents)
        PROVE  Due(Left, counter')
    <3>1. counter' = counter /\ n \in Nat
      BY <2>2 DEF Reinit, Unnumbered
    <3> QED
      BY <1>3, <2>2, <3>1, ReinitDue
  <2>3. ASSUME NEW n \in 1..MaxParticles, NEW parents \in [1..n -> Particles(model)],
               NEW mode \in Mode, NEW s, Resample(parents, mode, s)
        PROVE  Due(Left, counter')
    <3>1. counter' = counter /\ n \in Nat
      BY <2>3 DEF Resample, Unnumbered
    <3> QED
      BY <1>3, <2>3, <3>1, ResampleDue
  <2>4. ASSUME NEW group \in Groupings, NEW map \in BOOLEAN, NEW keepers \in Keepers(group),
               Collapse(group, keepers, map)
        PROVE  Due(Left, counter')
    <3>1. counter' = counter
      BY <2>4 DEF Collapse, Unnumbered
    <3> QED
      BY <1>3, <2>4, <3>1, CollapseDue
  <2>5. ASSUME NEW parents \in Diversified, NEW still \in SUBSET Particles(model), Diversify(parents, still)
        PROVE  Due(Left, counter')
    <3>1. counter' = counter
      BY <2>5 DEF Diversify, Unnumbered
    <3> QED
      BY <1>3, <2>5, <3>1, DiversifyDue
  <2> QED
    BY <1>6, <2>1, <2>2, <2>3, <2>4, <2>5 DEF Reshape
<1>7. CASE Loop
  <2>1. ASSUME NEW each \in BOOLEAN, NEW i \in Particles(model), Begin(each, i)
        PROVE  Due(Left, counter')
    <3>1. counter' = counter
      BY <2>1 DEF Begin
    <3> QED
      BY <1>3, <2>1, <3>1, BeginDue
  <2>2. CASE EndTurn
    BY <1>3, <2>2, EndTurnDue DEF EndTurn
  <2>3. CASE TurnRaises
    BY <1>3, <2>3, TurnRaisesDue DEF TurnRaises, Unnumbered
  <2> QED
    BY <1>7, <2>1, <2>2, <2>3 DEF Loop
<1>8. CASE Others
  <2>1. ASSUME NEW backend \in Backend, Save \/ Restore(backend)
        PROVE  Due(Left, counter')
    <3>1. counter' = counter
      BY <2>1 DEF Save, Restore
    <3> QED
      BY <1>3, <2>1, <3>1, SaveDue
  <2>2. \E backend : backend \in Backend
    BY DEF Backend
  <2> QED
    BY <1>8, <2>1, <2>2, ClearDue DEF Others
<1> QED
  BY <1>4, <1>5, <1>6, <1>7, <1>8 DEF Next

(* Every weight counts each observation made of its own trace once, unless *)
(* that is still pending: through resampling, collapsing, diversifying and *)
(* the loops over single traces, that may be cut off anywhere, no weight   *)
(* goes to another trace and no increment is added twice (trace_set.py).   *)
THEOREM WeightsAccount == Spec => []WeightsFollow
<1>1. KInv => WeightsFollow
  <2>1. KInv => Owing(model, counter)
    BY StartModel DEF KInv, Due
  <2> QED
    BY <2>1 DEF WeightsFollow, Owing, Owed, Apart
<1> QED
  BY <1>1, InitDue, NextDue, PTL DEF Spec
=============================================================================
