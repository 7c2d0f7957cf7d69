---------------------------- MODULE Exchangeable ----------------------------
(***************************************************************************)
(* The statistics and the latent states that made procedures of the Puma   *)
(* backend keep about their applications (sps/crp.cxx, sps/dir_mult.cxx,   *)
(* sps/hmm.cxx), under the moves of Metropolis-Hastings (gkernels/mh.cxx): *)
(* applications are detached in reverse order, proposed in order, and, if  *)
(* the move is rejected, detached again and restored.                      *)
(***************************************************************************)
EXTENDS Integers, SequencesExt

CONSTANTS
  Procedures, \* the procedures tried: of "crp", "dir_cat", "hmm"
  App,        \* the applications of the procedure
  Fixed,      \* per application of the hmm, a constant index or None
  MaxIndex,   \* the largest index drawn, else
  Hidden,     \* hidden states
  Out,        \* what a dir_cat draws and an hmm emits: 1, 2, ...
  Alpha,      \* the pseudo-counts of the dir_cat, in halves
  Mass, Discount, \* the parameters of the crp, in halves
  Blocks,     \* what moves do to the hmm's applications, see Begin
  MaxTable,   \* no new table after that: bounds the model, not the code
  None        \* no value; a matrix no entry of the latent database has set

ASSUME AppAssumption     == IsFiniteSet(App) /\ Procedures \subseteq {"crp", "dir_cat", "hmm"}
ASSUME NoneAssumption    == None \notin Nat \cup Out \cup {"state of index"}
ASSUME IndicesAssumption == Fixed \in [App -> Nat \cup {None}] /\ MaxIndex \in Nat /\ MaxTable \in Nat
ASSUME BlocksAssumption  ==
  \A b \in Blocks : DOMAIN b \subseteq App /\ DOMAIN b # {} /\ \A a \in DOMAIN b : b[a] \in {"output", "operand", "both"}

VARIABLES
  procedure,   \* the one applied
  aux,         \* its SPAux
  index, value, \* per application, the operand it has and its value
  constrained, \* the applications that are observed
  phase,       \* "idle", "detach", "propose", "undo", "restore"
  order, block, next, \* the applications of a move, what it does to each, the next one
  db,          \* what was detached: indices, values, latent states
  before,      \* history: aux, indices and values before the move
  failed       \* the assertion of the procedure that has failed, or None

moveVars == <<order, block, before>>
vars == <<procedure, aux, index, value, constrained, phase, moveVars, next, db, failed>>

-----------------------------------------------------------------------------
(* The Chinese restaurant process.                                         *)
NewCRP == [nextIndex |-> 1, numCustomers |-> 0, numTables |-> 0, tableCounts |-> <<>>]

(* Mutation: nextIndex follows the number of tables.                       *)
NextIndex_count(x, table) == x.numTables + 2
NextIndex(x, table) == Max({x.nextIndex, table + 1})

Sit(x, table) ==
  IF table \in DOMAIN x.tableCounts
  THEN [x EXCEPT !.numCustomers = @ + 1, !.tableCounts[table] = @ + 1]
  ELSE [nextIndex |-> NextIndex(x, table), numCustomers |-> x.numCustomers + 1, numTables |-> x.numTables + 1,
        tableCounts |-> [t \in DOMAIN x.tableCounts \cup {table} |-> IF t = table THEN 1 ELSE x.tableCounts[t]]]

(* Mutation: a table that is erased is still counted.                      *)
Leave_counted(x, table) ==
  [x EXCEPT !.numCustomers = @ - 1,
            !.tableCounts = IF @[table] > 1 THEN [@ EXCEPT ![table] = @ - 1] ELSE [t \in DOMAIN @ \ {table} |-> @[t]]]
Leave(x, table) ==
  IF x.tableCounts[table] > 1
  THEN [x EXCEPT !.numCustomers = @ - 1, !.tableCounts[table] = @ - 1]
  ELSE [x EXCEPT !.numCustomers = @ - 1, !.numTables = @ - 1,
                 !.tableCounts = [t \in DOMAIN @ \ {table} |-> @[t]]]

Tables(x) == DOMAIN x.tableCounts \cup {x.nextIndex}

-----------------------------------------------------------------------------
(* The Dirichlet-categorical.  The sum of the pseudo-counts is taken by    *)
(* accumulate(alpha, 0), whose accumulator is an int: it is cut to a whole *)
(* number at each step.                                                    *)
NewDirCat  == [counts |-> [v \in Out |-> 0], total |-> 0]
Tally(x, v, n) == [x EXCEPT !.counts[v] = @ + n, !.total = @ + n]

Whole(sum, a) == (2 * sum + a) \div 2
WholeTotal    == FoldLeft(Whole, 0, Alpha)

-----------------------------------------------------------------------------
(* The hidden Markov model: xs has the hidden states up to the largest     *)
(* index that was requested, os how often each index emitted each output.  *)
NewHMM == [xs |-> <<>>, os |-> <<>>]
NotSeen == [v \in Out |-> 0]

Observe(x, i, v) ==
  [x EXCEPT !.os = [j \in DOMAIN @ \cup {i} |->
                      LET seen == IF j \in DOMAIN @ THEN @[j] ELSE NotSeen
                      IN IF j = i THEN [seen EXCEPT ![v] = @ + 1] ELSE seen]]
Unobserve(x, i, v) ==
  LET left == [x.os[i] EXCEPT ![v] = @ - 1] IN
  [x EXCEPT !.os = [j \in IF left = NotSeen THEN DOMAIN @ \ {i} ELSE DOMAIN @ |-> IF j = i THEN left ELSE @[j]]]

(* simulateLatents: the states that are missing, up to the index.          *)
Missing(x, i) == Len(x.xs)..i
Extended(x, i, states) ==
  [x EXCEPT !.xs = [j \in 1..Max({Len(@), i + 1}) |-> IF j <= Len(@) THEN @[j] ELSE states[j - 1]]]

(* detachLatents: the states beyond the last output go, when the index is  *)
(* the last one and has no output left.                                    *)
(* Mutation: whatever outputs the index has.                               *)
Needed_unobserved(x, i) ==
  IF Len(x.xs) # i + 1 THEN Len(x.xs) ELSE IF i = 0 THEN 0 ELSE i
Needed(x, i) ==
  IF Len(x.xs) # i + 1 \/ i \in DOMAIN x.os THEN Len(x.xs)
  ELSE IF x.os = <<>> THEN 0 ELSE Max(DOMAIN x.os) + 1
Trimmed(x, i) == [x EXCEPT !.xs = SubSeq(@, 1, Needed(x, i))]

(* Mutation: the last state that goes is forgotten.                        *)
Gone_last(x, i) == Needed(x, i)..(Len(x.xs) - 2)
Gone(x, i)      == Needed(x, i)..(Len(x.xs) - 1)
Saved(x, i, latents) ==
  [j \in DOMAIN latents \cup Gone(x, i) |-> IF j \in Gone(x, i) THEN x.xs[j + 1] ELSE latents[j]]

-----------------------------------------------------------------------------
(* What regen and detach ask of the procedure.                             *)
New == CASE procedure = "crp"     -> NewCRP
         [] procedure = "dir_cat" -> NewDirCat
         [] procedure = "hmm"     -> NewHMM

incorporate(x, i, v) == CASE procedure = "crp"     -> Sit(x, v)
                          [] procedure = "dir_cat" -> Tally(x, v, 1)
                          [] procedure = "hmm"     -> Observe(x, i, v)
unincorporate(x, i, v) == CASE procedure = "crp"     -> Leave(x, v)
                            [] procedure = "dir_cat" -> Tally(x, v, -1)
                            [] procedure = "hmm"     -> Unobserve(x, i, v)

HasLatents == procedure = "hmm"
simulateLatents(x, i, states) == IF HasLatents THEN Extended(x, i, states) ELSE x
detachLatents(x, i)           == IF HasLatents THEN Trimmed(x, i) ELSE x

(* simulate and logDensity assert that the state of the index is there.    *)
CanApply(x, i) == HasLatents => Len(x.xs) > i
Drawn(x)   == IF procedure = "crp" THEN Tables(x) ELSE Out
Indices(a) == IF ~HasLatents THEN {0} ELSE IF Fixed[a] # None THEN {Fixed[a]} ELSE 0..MaxIndex
States(x, i) == IF HasLatents THEN [Missing(x, i) -> Hidden] ELSE {<<>>}

-----------------------------------------------------------------------------
NoDB == [index |-> [a \in App |-> None], value |-> [a \in App |-> None], latents |-> <<>>]

Init ==
  /\ procedure \in Procedures /\ aux = New
  /\ index = [a \in App |-> None] /\ value = [a \in App |-> None]
  /\ constrained = {} /\ phase = "idle" /\ order = <<>> /\ block = <<>> /\ next = 0
  /\ db = NoDB /\ before = <<>> /\ failed = None

TablesLeft(n) == procedure = "crp" => aux.nextIndex + n <= MaxTable + 1

(* An application is evaluated: its request, then its output.              *)
Evaluate(a, i, states, v) ==
  LET x == simulateLatents(aux, i, states) IN
  /\ phase = "idle" /\ index[a] = None /\ TablesLeft(1)
  /\ CanApply(x, i) /\ v \in Drawn(x)
  /\ index' = [index EXCEPT ![a] = i] /\ value' = [value EXCEPT ![a] = v]
  /\ aux' = incorporate(x, i, v)
  /\ UNCHANGED <<procedure, constrained, phase, moveVars, next, db, failed>>

(* constrain, of an observation.                                           *)
Constrain(a, v) ==
  /\ phase = "idle" /\ index[a] # None /\ a \notin constrained
  /\ v \in IF procedure = "crp" THEN 1..MaxTable ELSE Out
  /\ aux' = incorporate(unincorporate(aux, index[a], value[a]), index[a], v)
  /\ value' = [value EXCEPT ![a] = v] /\ constrained' = constrained \cup {a}
  /\ UNCHANGED <<procedure, index, phase, moveVars, next, db, failed>>

(* The arbitrary ergodic kernel of an hmm draws all its states anew.  It   *)
(* asserts that each index has one output.                                 *)
OneOutput(seen) == FoldFunction(LAMBDA n, sum : n + sum, 0, seen) = 1
AEInfer(states) ==
  /\ phase = "idle" /\ HasLatents /\ aux.os # <<>>
  /\ IF \A i \in DOMAIN aux.os : OneOutput(aux.os[i])
     THEN /\ states \in [1..Max(DOMAIN aux.os) + 1 -> Hidden]
          /\ aux' = [aux EXCEPT !.xs = states] /\ UNCHANGED failed
     ELSE failed' = "one output" /\ UNCHANGED aux
  /\ UNCHANGED <<procedure, index, value, constrained, phase, moveVars, next, db>>

(* A move does to each of its applications one of three things: "output",  *)
(* the value is drawn anew; "operand", the index is drawn anew, with it    *)
(* the request, and the value is absorbed; or "both".                      *)
Redrawn(a)   == block[a] \in {"output", "both"}
Rerequested(a) == block[a] \in {"operand", "both"}

Movable(b) ==
  \A a \in DOMAIN b :
    /\ index[a] # None
    /\ b[a] \in {"output", "both"}  => a \notin constrained
    /\ b[a] \in {"operand", "both"} => HasLatents /\ Fixed[a] = None

Begin(b, seq) ==
  /\ phase = "idle" /\ Movable(b) /\ TablesLeft(Cardinality(DOMAIN b))
  /\ seq \in SetToSeqs(DOMAIN b)
  /\ phase' = "detach" /\ block' = b /\ order' = seq /\ next' = Len(seq)
  /\ before' = [aux |-> aux, index |-> index, value |-> value]
  /\ UNCHANGED <<procedure, aux, index, value, constrained, db, failed>>

(* detachAndExtract of the next application: its output, then its request. *)
Detached(a) ==
  LET x == unincorporate(aux, index[a], value[a]) IN
  /\ aux'   = IF Rerequested(a) THEN detachLatents(x, index[a]) ELSE x
  /\ value' = IF Redrawn(a) THEN [value EXCEPT ![a] = None] ELSE value
  /\ index' = IF Rerequested(a) THEN [index EXCEPT ![a] = None] ELSE index

Extract(a) ==
  LET x == unincorporate(aux, index[a], value[a]) IN
  [index   |-> IF Rerequested(a) THEN [db.index EXCEPT ![a] = index[a]] ELSE db.index,
   value   |-> IF Redrawn(a) THEN [db.value EXCEPT ![a] = value[a]] ELSE db.value,
   latents |-> IF Rerequested(a) THEN Saved(x, index[a], db.latents) ELSE db.latents]

DetachStep ==
  LET a == order[next] IN
  /\ phase = "detach"
  /\ Detached(a) /\ db' = Extract(a)
  /\ phase' = IF next > 1 THEN "detach" ELSE "propose"
  /\ next'  = IF next > 1 THEN next - 1 ELSE 1
  /\ UNCHANGED <<procedure, constrained, moveVars, failed>>

(* In a rejected move, what was proposed is extracted and forgotten.       *)
UndoStep ==
  LET a == order[next] IN
  /\ phase = "undo"
  /\ Detached(a)
  /\ phase' = IF next > 1 THEN "undo" ELSE "restore"
  /\ next'  = IF next > 1 THEN next - 1 ELSE 1
  /\ UNCHANGED <<procedure, constrained, moveVars, db, failed>>

(* regenAndAttach of the next application: its request, then its output.   *)
Regen(a, i, states, v) ==
  LET x == IF Rerequested(a) THEN simulateLatents(aux, i, states) ELSE aux IN
  /\ ~Rerequested(a) => i = index[a]
  /\ \/ /\ ~CanApply(x, i)
        /\ failed' = "state of index" /\ UNCHANGED <<aux, index, value>>
     \/ /\ CanApply(x, i)
        /\ IF Redrawn(a) THEN v \in (IF phase = "restore" THEN {db.value[a]} ELSE Drawn(x)) ELSE v = value[a]
        /\ index' = [index EXCEPT ![a] = i] /\ value' = [value EXCEPT ![a] = v]
        /\ aux' = incorporate(x, i, v) /\ UNCHANGED failed

ProposeStep(i, states, v) ==
  /\ phase = "propose" /\ next <= Len(order)
  /\ Rerequested(order[next]) => i \in Indices(order[next]) /\ states \in States(aux, i)
  /\ Regen(order[next], i, states, v)
  /\ next' = next + 1
  /\ UNCHANGED <<procedure, constrained, phase, moveVars, db>>

(* An entry of the latent database that was not set is an empty matrix.    *)
SavedStates(i) == [j \in Missing(aux, i) |-> IF j \in DOMAIN db.latents THEN db.latents[j] ELSE None]

EndMove == phase' = "idle" /\ order' = <<>> /\ block' = <<>> /\ next' = 0 /\ db' = NoDB /\ before' = <<>>

RestoreStep ==
  LET a == order[next]
      i == IF Rerequested(a) THEN db.index[a] ELSE index[a]
      states == IF Rerequested(a) /\ HasLatents THEN SavedStates(i) ELSE <<>>
  IN
  /\ phase = "restore"
  /\ \E v \in {db.value[a], value[a]} : Regen(a, i, states, v)
  /\ IF next < Len(order) THEN next' = next + 1 /\ UNCHANGED <<phase, moveVars, db>> ELSE EndMove
  /\ UNCHANGED <<procedure, constrained>>

Accept ==
  /\ phase = "propose" /\ next > Len(order)
  /\ EndMove /\ UNCHANGED <<procedure, aux, index, value, constrained, failed>>

Reject ==
  /\ phase = "propose" /\ next > Len(order)
  /\ phase' = "undo" /\ next' = Len(order)
  /\ UNCHANGED <<procedure, aux, index, value, constrained, moveVars, db, failed>>

BlocksOf == IF HasLatents THEN Blocks ELSE {[a \in S |-> "output"] : S \in (SUBSET App) \ {{}}}

Values == Out \cup 1..MaxTable
Next ==
  /\ failed = None
  /\ \/ \E a \in App : \E i \in Indices(a) : \E states \in States(aux, i), v \in Values : Evaluate(a, i, states, v)
     \/ \E a \in App, v \in Values : Constrain(a, v)
     \/ HasLatents /\ aux.os # <<>> /\ \E states \in [1..Max(DOMAIN aux.os) + 1 -> Hidden] : AEInfer(states)
     \/ \E b \in BlocksOf : \E seq \in SetToSeqs(DOMAIN b) : Begin(b, seq)
     \/ DetachStep \/ UndoStep \/ RestoreStep \/ Accept \/ Reject
     \/ \E i \in 0..MaxIndex : \E states \in States(aux, i), v \in Values : ProposeStep(i, states, v)

Spec == Init /\ [][Next]_vars

-----------------------------------------------------------------------------
Applied(a) == index[a] # None /\ value[a] # None
Having(v)  == {a \in App : Applied(a) /\ value[a] = v}
Emitting(i, v) == {a \in Having(v) : index[a] = i}

(* At every moment of a move the statistics are exactly those of the       *)
(* applications that are attached, in whatever order they came and went,   *)
(* and the number of the next table is above that of every table there is: *)
(* a new table is new.                                                     *)
Sufficient ==
  CASE procedure = "crp" ->
         /\ aux.tableCounts = [t \in {value[a] : a \in {b \in App : Applied(b)}} |-> Cardinality(Having(t))]
         /\ \A t \in DOMAIN aux.tableCounts : t < aux.nextIndex
    [] procedure = "dir_cat" -> aux.counts = [v \in Out |-> Cardinality(Having(v))]
    [] procedure = "hmm" ->
         aux.os = [i \in {index[a] : a \in {b \in App : Applied(b)}} |-> [v \in Out |-> Cardinality(Emitting(i, v))]]

(* The weights that simulate draws by sum to what logDensity divides by.   *)
Weights(X, w(_)) == FoldSet(LAMBDA t, sum : w(t) + sum, 0, X)
Normalized ==
  CASE procedure = "crp" ->
         Weights(DOMAIN aux.tableCounts, LAMBDA t : 2 * aux.tableCounts[t] - Discount) + Mass + aux.numTables * Discount
           = 2 * aux.numCustomers + Mass
    [] procedure = "dir_cat" ->
         Weights(Out, LAMBDA v : 2 * aux.counts[v] + Alpha[v]) = 2 * (aux.total + WholeTotal)
    [] procedure = "hmm" -> TRUE

(* Between moves an hmm has a state for every index that is requested, and *)
(* none beyond.                                                            *)
Requested == {index[a] : a \in App} \ {None}
LatentsCover ==
  HasLatents /\ phase = "idle" => Len(aux.xs) = IF Requested = {} THEN 0 ELSE Max(Requested) + 1

(* A rejected move leaves everything as it was, but for the number of the  *)
(* next table, which is never taken back.                                  *)
RejectRestores ==
  [][phase = "restore" /\ phase' = "idle" =>
       /\ index' = before.index /\ value' = before.value
       /\ procedure # "crp" => aux' = before.aux
       /\ procedure = "crp" => aux'.tableCounts = before.aux.tableCounts /\ aux'.nextIndex >= before.aux.nextIndex]_vars

(* An application that is drawn or absorbed finds the hidden state of its  *)
(* index: the assertions of simulate and logDensity hold in every move.    *)
StateOfIndex == failed # "state of index"
=============================================================================
