------------------------------ MODULE TraceSet ------------------------------
(***************************************************************************)
(* The particles of a model and its directives (python/lib/engine:         *)
(* trace_set.py, trace.py, engine.py).  A trace set maps each instruction  *)
(* over its traces with a master (Workers), keeps a weight for each, and   *)
(* the labels of directives.  What a directive evaluates to is left out.   *)
(***************************************************************************)
EXTENDS Integers, FiniteSets, Sequences, Functions

CONSTANTS
  Label,         \* labels of directives
  MaxDid,        \* bounds the model: directives numbered,
  MaxFailures,   \* instructions that fail of themselves,
  MaxParticles,  \* traces of the model,
  MaxSize,       \* and all these together
  None

ASSUME BoundsAssumption ==
  MaxDid \in Nat /\ MaxFailures \in Nat /\ MaxParticles \in Nat /\ MaxSize \in Nat
ASSUME NoneAssumption == None \notin Label

Did     == 1..MaxDid
Mode    == {"sequential", "multiprocess"}  \* and, to the model, threaded and thread_ser
Backend == {"lite", "puma"}

VARIABLES
  counter,   \* directiveCounter
  model,     \* the trace set
  loop,      \* for_each_trace_sequential or on_trace under way
  failures,
  torn       \* ghost: the directives whose instruction failed

vars == <<counter, model, loop, failures, torn>>

(* A trace: its directives, the observations not incorporated yet, and, a  *)
(* ghost, the observations its weight has to account for.  A weight is the *)
(* set of the observations whose increments are in it.                     *)
Blank == [evaluated |-> {}, observed |-> {}, pending |-> {}, due |-> {}]
directives(trace) == trace.evaluated \cup trace.observed

NewModel(backend, mode) ==
  [backend |-> backend, mode |-> mode, traces |-> <<Blank>>, weights |-> <<{}>>,
   labelToDid |-> [l \in Label |-> 0], didToLabel |-> [d \in Did |-> None]]

Init ==
  /\ counter = 0 /\ loop = None /\ failures = 0 /\ torn = {}
  /\ \E backend \in Backend : model = NewModel(backend, "sequential")

Particles(m) == DOMAIN m.traces

-----------------------------------------------------------------------------
(* An instruction works on the current traces.  In a loop one of them, at  *)
(* loop.self, may be the very object that the loop took out of the model   *)
(* (loop.originals, as they are now); other work leaves that as it is.     *)
Start == [model |-> model, loop |-> loop, torn |-> torn, failed |-> FALSE]
Synced(x) ==
  IF x.loop = None \/ x.loop.self = 0 THEN x
  ELSE [x EXCEPT !.loop.originals[x.loop.at] = x.model.traces[x.loop.self]]

(* An instruction that fails leaves for_each_trace_sequential or on_trace, *)
(* which put back the traces and weights they found: these traces as they  *)
(* are by now, so that the weights account for what they did before.       *)
Accounting(trace, weight) == [trace EXCEPT !.due = weight \cup trace.pending]
Unwound(x) ==
  IF x.loop = None THEN x.model
  ELSE [x.model EXCEPT
          !.mode = x.loop.mode, !.weights = x.loop.weights,
          !.traces = [i \in DOMAIN x.loop.originals |-> Accounting(x.loop.originals[i], x.loop.weights[i])]]

Finish(x) ==
  /\ torn' = x.torn
  /\ IF x.failed THEN model' = Unwound(Synced(x)) /\ loop' = None
     ELSE model' = x.model /\ loop' = Synced(x).loop

(* A command mapped over the traces fails on some.  The others have run it *)
(* all the same, but in sequential mode only those before the first that   *)
(* fails: and there, outside of a loop, whose master is dropped, the model *)
(* looks only at the first trace's failing, as another's leaves answers in *)
(* the pipes (Workers, AnswersMatch).                                      *)
First(s) == CHOOSE i \in s : \A j \in s : i <= j
MayFail(m, s) == m.mode = "sequential" /\ loop = None => (s = {} \/ 1 \in s)
Ran(m, s) ==
  IF s # {} /\ m.mode = "sequential" THEN {i \in Particles(m) : i < First(s)} ELSE Particles(m) \ s
On(x, some, after) ==
  [x EXCEPT !.model.traces = [i \in DOMAIN @ |-> IF i \in some THEN after[i] ELSE @[i]]]
Map(x, s, after) == [On(x, Ran(x.model, s), after) EXCEPT !.failed = s # {}]

(* The bounds, given a number of current traces; and the sets of these     *)
(* that a command can fail on without an assertion's or a check's making   *)
(* it.                                                                     *)
Within(dids, fails, n) ==
  LET all == n + IF loop = None THEN 0 ELSE Len(loop.done) + Len(loop.originals) - loop.at
  IN /\ dids <= MaxDid /\ fails <= MaxFailures /\ all <= MaxParticles
     /\ dids + fails + all <= MaxSize
Fits(n) == Within(counter, failures, n)
Failing(n) == IF Within(counter, failures + 1, n) THEN SUBSET (1..n) ELSE {{}}
Count(s) == failures' = failures + (IF s = {} THEN 0 ELSE 1)
Then(x, y) == IF x.failed THEN x ELSE y
Tear(x, d) == IF x.failed THEN [x EXCEPT !.torn = @ \cup {d}] ELSE x

-----------------------------------------------------------------------------
(* Trace.evaluate (and define), observe and forget: they assert that the   *)
(* id is new, or check that it is one.                                     *)
Having(x, d) == {i \in Particles(x.model) : d \in directives(x.model.traces[i])}

Evaluated(trace, d) == [trace EXCEPT !.evaluated = @ \cup {d}]
evaluate(x, s, d) ==
  Tear(Map(x, s \cup Having(x, d), [i \in Particles(x.model) |-> Evaluated(x.model.traces[i], d)]), d)

Observed(trace, d) == [trace EXCEPT !.observed = @ \cup {d}, !.pending = @ \cup {d}, !.due = @ \cup {d}]
observe(x, s, d) ==
  Tear(Map(x, s \cup Having(x, d), [i \in Particles(x.model) |-> Observed(x.model.traces[i], d)]), d)

(* An increment of the weight for what is forgotten is dropped.            *)
Forgotten(trace, d) ==
  [trace EXCEPT !.evaluated = @ \ {d}, !.observed = @ \ {d}, !.pending = @ \ {d},
                !.due = @ \ ({d} \cap trace.pending)]
Unlabelled(x, d) == [x EXCEPT !.model.didToLabel[d] = None]
forget(x, d) ==
  LET y == Map(x, Particles(x.model) \ Having(x, d),
               [i \in Particles(x.model) |-> Forgotten(x.model.traces[i], d)])
  IN Then(y, Unlabelled(y, d))

(* A trace that registers its pending observations while nobody adds up    *)
(* its weight: they are not accounted for any more.                        *)
Lose(trace) == [trace EXCEPT !.pending = {}, !.due = @ \ trace.pending]
lose(x) == [i \in Particles(x.model) |-> Lose(x.model.traces[i])]

(* incorporate: an observation that contradicts the trace fails, and the   *)
(* increments of all the traces are lost with it.                          *)
Incorporated(trace) == [trace EXCEPT !.pending = {}]
incorporate(x, s) ==
  LET m == x.model
      y == Map(x, s, [i \in Particles(m) |-> Incorporated(m.traces[i])])
  IN IF s # {} THEN Map(x, s, lose(x))
     ELSE [y EXCEPT !.model.weights = [i \in Particles(m) |-> m.weights[i] \cup m.traces[i].pending]]
Unsure(x) == {i \in Particles(x.model) : x.model.traces[i].pending # {}}

(* Dumping a trace, to copy it (on Lite) or to hand it to another process, *)
(* registers its observations.                                             *)
dump(x, some) == On(x, some, lose(x))
retrieve(x, some) == IF x.model.mode = "sequential" THEN x ELSE dump(x, some)
retrieve_traces(x) == retrieve(x, Particles(x.model))

(* A new trace pool: the p-th trace is the parents[p]-th, or a copy of it. *)
create_trace_pool(x, parents, kept, weights) ==
  LET y == Synced(x)
      selves == {p \in kept : x.loop # None /\ parents[p] = x.loop.self}
      z == IF x.loop = None THEN y ELSE [y EXCEPT !.loop.self = IF selves = {} THEN 0 ELSE CHOOSE p \in selves : TRUE]
  IN [z EXCEPT !.model.traces = [p \in DOMAIN parents |-> x.model.traces[parents[p]]],
               !.model.weights = weights]

(* log_domain_even_out: what all the weights have in common.               *)
Even(weights) == {d \in Did : \A i \in DOMAIN weights : d \in weights[i]}

(* Weights that take the place of others, and what the traces owe from     *)
(* then on: that follows from what they owed, which the ghost tells, and   *)
(* not from the weights, which may have been given to the wrong traces.    *)
Counted(m) == [i \in Particles(m) |-> m.traces[i].due \ m.traces[i].pending]
Reweighted(x, weights, owed) ==
  [x EXCEPT !.model.weights = weights,
            !.model.traces = [i \in DOMAIN @ |-> Accounting(@[i], owed[i])]]

(* resample: the parents are drawn; the first use of one takes it over,    *)
(* unless it goes to a process of its own.                                 *)
Uses(parents, i) == {p \in DOMAIN parents : parents[p] = i}
_use_parent(x, parents) ==
  LET copied == {i \in Range(parents) : Cardinality(Uses(parents, i)) > 1}
      y == retrieve(x, Range(parents))
  IN IF x.model.backend = "lite" THEN dump(y, copied) ELSE y
resample(x, parents, mode, s) ==
  LET kept == IF mode = "multiprocess" THEN {}
              ELSE {p \in DOMAIN parents : p = First(Uses(parents, parents[p]))}
      even == [p \in DOMAIN parents |-> Even(x.model.weights)]
      owed == [p \in DOMAIN parents |-> Even(Counted(x.model))]
      y == create_trace_pool(_use_parent(x, parents), parents, kept, even)
  IN incorporate(Reweighted([y EXCEPT !.model.mode = mode], even, owed), s)

-----------------------------------------------------------------------------
(* What the user's instructions and inference actions do.  Modeling        *)
(* commands are refused in a loop.                                         *)
Next1 == counter + 1
Numbered == Within(Next1, failures, Len(model.traces)) /\ counter' = Next1
Unnumbered == counter' = counter

(* _putting_label: the label is put when the body has not raised.          *)
(* Mutation: or if it has.                                                 *)
Taken(l, d) == l # None /\ (model.labelToDid[l] # 0 \/ model.didToLabel[d] # None)
Put_finally(x, l, d) ==
  IF l = None THEN x ELSE [x EXCEPT !.model.labelToDid[l] = d, !.model.didToLabel[d] = l]
Put(x, l, d) ==
  IF x.failed \/ l = None THEN x
  ELSE [x EXCEPT !.model.labelToDid[l] = d, !.model.didToLabel[d] = l]

Refused(l) ==
  /\ loop = None /\ Numbered /\ Taken(l, Next1)
  /\ UNCHANGED <<model, loop, failures, torn>>

Evaluate(l, s) ==
  /\ loop = None /\ Numbered /\ ~Taken(l, Next1)
  /\ MayFail(model, s \cup Having(Start, Next1))
  /\ Finish(Put(evaluate(Start, s, Next1), l, Next1))
  /\ Count(s)

(* Engine.observe incorporates after the trace set has put the label.      *)
Observe(l, s, r) ==
  LET x == Put(observe(Start, s, Next1), l, Next1)
  IN /\ loop = None /\ Numbered /\ ~Taken(l, Next1) /\ {} \in {s, r}
     /\ MayFail(model, s \cup Having(Start, Next1)) /\ MayFail(model, r) /\ r \subseteq Unsure(x)
     /\ Finish(Then(x, Tear(incorporate(x, r), Next1)))
     /\ Count(s \cup r)

(* forget by id, and by label, which must lead to an id that leads back.   *)
Forget(d) ==
  /\ loop = None /\ Having(Start, d) # {} /\ MayFail(model, Particles(model) \ Having(Start, d))
  /\ Finish(forget(Start, d))
  /\ Unnumbered /\ UNCHANGED failures

ForgetLabeled(l) ==
  LET d == model.labelToDid[l]
      x == forget(Start, d)
  IN /\ loop = None /\ d # 0 /\ model.didToLabel[d] = l
     /\ Having(Start, d) # {} /\ MayFail(model, Particles(model) \ Having(Start, d))
     /\ Finish(Then(x, [x EXCEPT !.model.labelToDid[l] = 0]))
     /\ Unnumbered /\ UNCHANGED failures

(* sample and force are forgotten again, unless they have failed.          *)
(* Mutation: they are not.                                                 *)
forgetAgain_not(x, d) == x
forgetAgain(x, d) == Then(x, forget(x, d))

Sample(s) ==
  LET x == evaluate(Start, s, Next1)
  IN /\ Numbered /\ MayFail(model, s \cup Having(Start, Next1))
     /\ Finish(forgetAgain(x, Next1))
     /\ Count(s)

ForceValue(s, r) ==
  LET x == observe(Start, s, Next1)
      y == Tear(incorporate(x, r), Next1)
  IN /\ Numbered /\ MayFail(model, s \cup Having(Start, Next1)) /\ MayFail(model, r)
     /\ r \subseteq Unsure(x) /\ {} \in {s, r}
     /\ Finish(Then(x, forgetAgain(y, Next1)))
     /\ Count(s \cup r)

Incorporate(r) ==
  /\ MayFail(model, r) /\ r \subseteq Unsure(Start) /\ Unsure(Start) # {}
  /\ Finish(incorporate(Start, r)) /\ Unnumbered /\ Count(r)

(* likelihood_weight draws the trace from the prior; its weight is that of *)
(* the observations incorporated.                                          *)
LikelihoodWeight ==
  LET weights == [i \in Particles(model) |-> model.traces[i].observed \ model.traces[i].pending]
  IN Finish(Reweighted(Start, weights, weights)) /\ Unnumbered /\ UNCHANGED failures

Equalize ==
  /\ Finish(Reweighted(Start, [i \in Particles(model) |-> Even(model.weights)],
                              [i \in Particles(model) |-> Even(Counted(model))]))
  /\ Unnumbered /\ UNCHANGED failures

Resample(parents, mode, s) ==
  /\ Fits(Len(parents)) /\ MayFail([model EXCEPT !.mode = mode], s)
  /\ \A p \in s : model.traces[parents[p]].pending # {}
  /\ Finish(resample(Start, parents, mode, s)) /\ Unnumbered /\ Count(s)

(* reinit_inference_problem: a resample, after which every directive is    *)
(* forgotten and told again, which leaves its observation pending.         *)
Told(trace) == [trace EXCEPT !.pending = trace.observed]
Reinit(parents) ==
  LET x == resample(Start, parents, "sequential", {})
      y == On(x, DOMAIN parents, [p \in DOMAIN parents |-> Told(x.model.traces[p])])
      none == [p \in DOMAIN parents |-> {}]
  IN /\ loop = None /\ Fits(Len(parents))
     /\ Finish(Reweighted(y, none, none))
     /\ Unnumbered /\ UNCHANGED failures

(* collapse and collapse_map: of the particles that agree on a block (are  *)
(* in a group, named by its first) one is kept, as a copy that is made     *)
(* consistent, and none of whose increments count.  It owes what it has    *)
(* counted itself, of which collapse leaves what all its group have.       *)
Groupings ==
  {group \in [Particles(model) -> Particles(model)] :
     \A i \in Particles(model) : group[i] <= i /\ group[group[i]] = group[i]}
Keepers(group) ==
  {keepers \in [1..Cardinality(Range(group)) -> Particles(model)] :
     \A j, k \in DOMAIN keepers : j < k => group[keepers[j]] < group[keepers[k]]}

Collapse(group, keepers, map) ==
  LET total(i) == IF map THEN model.weights[i]
                  ELSE Even([k \in {k \in DOMAIN group : group[k] = group[i]} |-> model.weights[k]])
      x == retrieve_traces(Start)
      y == IF model.backend = "lite" THEN dump(x, Range(keepers)) ELSE x
      z == dump(create_trace_pool(y, keepers, {}, <<>>), DOMAIN keepers)
      shared(j, d) == \A k \in DOMAIN group : group[k] = group[keepers[j]] => d \in Counted(model)[k]
      owed(j) == {d \in Counted(z.model)[j] : map \/ shared(j, d)}
  IN /\ Finish(Reweighted(z, [j \in DOMAIN keepers |-> total(keepers[j])],
                             [j \in DOMAIN keepers |-> owed(j)]))
     /\ Unnumbered /\ UNCHANGED failures

(* diversify, on Lite: a trace becomes copies in its place, one for each   *)
(* value its choices can take, or stays if it has none to make.            *)
Diversified ==
  UNION {{parents \in [1..n -> Particles(model)] :
            /\ \A p, q \in 1..n : p < q => parents[p] <= parents[q]
            /\ Range(parents) = Particles(model)} : n \in 1..MaxParticles}

Diversify(parents, still) ==
  LET kept == {p \in DOMAIN parents : parents[p] \in still}
      x == dump(retrieve_traces(Start), Particles(model) \ still)
  IN /\ model.backend = "lite" /\ Fits(Len(parents))
     /\ \A i \in still : Cardinality(Uses(parents, i)) = 1
     /\ Finish(create_trace_pool(x, parents, kept, [p \in DOMAIN parents |-> model.weights[parents[p]]]))
     /\ Unnumbered /\ UNCHANGED failures

-----------------------------------------------------------------------------
(* for_each_trace_sequential and on_trace: the traces one by one become    *)
(* the current model, with their weights; what is made of them is put      *)
(* together in the end, around the ones that had no turn.  A mode left by  *)
(* a resample in a turn holds for the next, whose trace then is a copy in  *)
(* a process.                                                              *)
Turn(m, l, i) ==
  /\ model' = [m EXCEPT !.traces = <<l.originals[i]>>, !.weights = <<l.weights[i]>>]
  /\ loop' = [l EXCEPT !.at = i, !.self = IF m.mode = "sequential" THEN 1 ELSE 0]

Begin(each, i) ==
  LET m == retrieve_traces(Start).model
  IN /\ loop = None /\ each => i = 1
     /\ Turn([m EXCEPT !.mode = "sequential"],
             [each |-> each, mode |-> m.mode, at |-> i, self |-> 0,
              originals |-> m.traces, weights |-> m.weights,
              done |-> SubSeq(m.traces, 1, i - 1), doneWeights |-> SubSeq(m.weights, 1, i - 1)],
             i)
     /\ UNCHANGED <<counter, failures, torn>>

(* Mutation: the weights of the turn are put before the others'.           *)
Gathered_before(l, m) == [l EXCEPT !.done = @ \o m.traces, !.doneWeights = m.weights \o @]
Gathered(l, m) == [l EXCEPT !.done = @ \o m.traces, !.doneWeights = @ \o m.weights]

EndTurn ==
  LET x == retrieve_traces(Start)
      l == Gathered(x.loop, x.model)
      n == Len(l.originals)
  IN /\ loop # None
     /\ IF l.each /\ l.at < n THEN Turn(x.model, l, l.at + 1)
        ELSE /\ loop' = None
             /\ model' = [x.model EXCEPT !.mode = l.mode,
                                         !.traces  = l.done \o SubSeq(l.originals, l.at + 1, n),
                                         !.weights = l.doneWeights \o SubSeq(l.weights, l.at + 1, n)]
     /\ UNCHANGED <<counter, failures, torn>>

(* The action raises, as when it contains a modeling command.              *)
TurnRaises ==
  /\ loop # None /\ Finish([Start EXCEPT !.failed = TRUE]) /\ Unnumbered /\ UNCHANGED failures

-----------------------------------------------------------------------------
(* Saving a model, and making another of it, dumps its traces.  Converting *)
(* it, and loading it into an engine just made, goes on with the other.    *)
Dumped == dump(Start, Particles(model)).model

Save == loop = None /\ model' = Dumped /\ UNCHANGED <<counter, loop, failures, torn>>

Restore(backend) ==
  /\ loop = None /\ model' = [Dumped EXCEPT !.backend = backend]
  /\ UNCHANGED <<counter, loop, failures, torn>>

Clear ==
  /\ loop = None /\ model' = NewModel(model.backend, model.mode)
  /\ counter' = 0 /\ torn' = {} /\ UNCHANGED <<loop, failures>>

-----------------------------------------------------------------------------
Model ==
  \/ \E l \in Label : Refused(l)
  \/ \E s \in Failing(Len(model.traces)) :
       \/ \E l \in Label \cup {None} : Evaluate(l, s)
       \/ Sample(s)
       \/ Incorporate(s)
  \/ \E s, r \in Failing(Len(model.traces)) :
       \/ \E l \in Label \cup {None} : Observe(l, s, r)
       \/ ForceValue(s, r)
  \/ \E d \in Did : Forget(d)
  \/ \E l \in Label : ForgetLabeled(l)

Reshape ==
  \/ LikelihoodWeight
  \/ Equalize
  \/ \E n \in 1..MaxParticles : \E parents \in [1..n -> Particles(model)] :
       \/ Reinit(parents)
       \/ \E mode \in Mode, s \in Failing(n) : Resample(parents, mode, s)
  \/ \E group \in Groupings, map \in BOOLEAN : \E keepers \in Keepers(group) : Collapse(group, keepers, map)
  \/ \E parents \in Diversified, still \in SUBSET Particles(model) : Diversify(parents, still)

Loop ==
  \/ \E each \in BOOLEAN, i \in Particles(model) : Begin(each, i)
  \/ EndTurn
  \/ TurnRaises

Others ==
  \/ Save
  \/ \E backend \in Backend : Restore(backend)
  \/ Clear

Next == Model \/ Reshape \/ Loop \/ Others

Spec == Init /\ [][Next]_vars

-----------------------------------------------------------------------------
TypeOK ==
  /\ counter \in 0..MaxDid /\ failures \in 0..MaxFailures /\ torn \subseteq Did
  /\ model.backend \in Backend /\ model.mode \in Mode
  /\ Len(model.traces) \in 1..MaxParticles /\ DOMAIN model.weights = DOMAIN model.traces
  /\ \A i \in Particles(model) :
       LET trace == model.traces[i] IN
       /\ trace.pending \subseteq trace.observed
       /\ directives(trace) \cup trace.due \cup model.weights[i] \subseteq Did
  /\ model.labelToDid \in [Label -> Did \cup {0}]
  /\ model.didToLabel \in [Did -> Label \cup {None}]

(* The particles of the model have the same directives, but for those      *)
(* whose instruction failed: whatever was done to one or to all of them.   *)
Lockstep ==
  loop = None =>
    \A i, j \in Particles(model) :
      /\ model.traces[i].evaluated \ torn = model.traces[j].evaluated \ torn
      /\ model.traces[i].observed \ torn = model.traces[j].observed \ torn

(* Every weight counts the observations that were made of its own trace,   *)
(* and each once: it has been counted or is pending.  (Not those whose     *)
(* increments the code drops: Lose and Unwound.)                           *)
WeightsFollow ==
  \A i \in Particles(model) :
    LET trace == model.traces[i] IN
    /\ trace.due = model.weights[i] \cup trace.pending
    /\ model.weights[i] \cap trace.pending = {}

(* The two maps of labels fit: a directive that has a label is that of its *)
(* label and is in all particles, and a label leads to no other.  (One     *)
(* whose directive was forgotten by its id leads to none.)                 *)
LabelsLead ==
  /\ \A d \in Did : model.didToLabel[d] # None =>
       /\ model.labelToDid[model.didToLabel[d]] = d
       /\ \A i \in Particles(model) : d \in directives(model.traces[i])
  /\ \A l \in Label : LET d == model.labelToDid[l] IN
       d # 0 /\ model.didToLabel[d] # l =>
         \A i \in Particles(model) : d \notin directives(model.traces[i])
=============================================================================
