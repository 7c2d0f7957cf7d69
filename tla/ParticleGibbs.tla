--------------------------- MODULE ParticleGibbs ---------------------------
(***************************************************************************)
(* The particle Gibbs move of the Puma backend (gkernels/pgibbs.cxx) over  *)
(* the trace it detaches from (concrete_trace.cxx) and the particles that  *)
(* record their changes to it (particle.cxx), with the calls of regen and  *)
(* detach that the move makes.  A particle holds only what it changes: its *)
(* variables are blank where it agrees with the trace.  The statistics of  *)
(* procedures are objects in a heap, shared by whoever points to them.     *)
(***************************************************************************)
EXTENDS Torus, SamplableMap

VARIABLES
  phase,        \* "regen" in place, "detach", "propose" particles, "commit" one
  round, group, live, at,
  db,           \* what was detached
  ucs, ccs,     \* unconstrainedChoices, constrainedChoices
  scopes,       \* of the trace, each a SamplableMap from blocks to nodes
  tags,         \* of particles, <<scope, block, node>>
  values, esrRoots, numRequests, children,
  sps, families,
  aux,          \* the statistics a maker points to
  heap,         \* the statistics there are
  aaa,          \* aaaMadeSPAuxs of the trace
  discarded,    \* discardedAAAMakerNodes of particles
  committing,   \* the particle that is committed
  toTag, toConstrain, \* what is left of its scopes and constrained choices
  saved, before \* history: the statistics at detachment, the trace before it

gibbsVars    == <<phase, round, group, live, db, committing, toTag, toConstrain, saved, before>>
registerVars == <<ucs, ccs, scopes, tags>>
nodeVars     == <<values, esrRoots, numRequests, children>>
spVars       == <<sps, families, aux, heap, aaa, discarded>>
vars         == <<gibbsVars, at, registerVars, nodeVars, spVars>>

NoDB == [values |-> [c \in Choice |-> None], requests |-> [o \in Output |-> None],
         sps |-> [m \in Maker |-> None], aux |-> [m \in Maker |-> None]]

Init ==
  /\ phase = "regen" /\ round = 0 /\ group = 0 /\ live = {} /\ db = NoDB
  /\ committing = None /\ toTag = {} /\ toConstrain = {}
  /\ at          = [t \in Trace |-> 0]
  /\ ucs         = [t \in Trace |-> {}]
  /\ ccs         = [t \in Trace |-> {}]
  /\ scopes      = <<>>
  /\ tags        = [p \in Particle |-> {}]
  /\ values      = [t \in Trace |-> [c \in Choice |-> None]]
  /\ esrRoots    = [t \in Trace |-> [o \in Output |-> None]]
  /\ numRequests = [t \in Trace |-> [c \in Choice |-> IF t = Base THEN 0 ELSE None]]
  /\ children    = [t \in Trace |-> [c \in Choice |-> {}]]
  /\ sps         = [t \in Trace |-> [m \in Maker |-> None]]
  /\ families    = [t \in Trace |-> [m \in Maker |-> [i \in Id |-> None]]]
  /\ aux         = [t \in Trace |-> [m \in Maker |-> None]]
  /\ heap        = <<>>
  /\ aaa         = [m \in Maker |-> None]
  /\ discarded   = [p \in Particle |-> {}]
  /\ saved       = [m \in Maker |-> None]
  /\ before      = <<>>

-----------------------------------------------------------------------------
(* What a trace or a particle answers: a particle looks in its own record  *)
(* first, and asks the trace for what it does not find there.              *)
getValue(t, c)        == IF values[t][c] # None THEN values[t][c] ELSE values[Base][c]
getESRParent(t, o)    == IF esrRoots[t][o] # None THEN esrRoots[t][o] ELSE esrRoots[Base][o]
getNumRequests(t, c)  == IF numRequests[t][c] # None THEN numRequests[t][c] ELSE numRequests[Base][c]
getChildren(t, c)     == children[Base][c] \cup children[t][c]
getMadeSP(t, m)       == IF sps[t][m] # None THEN sps[t][m] ELSE sps[Base][m]
getMadeSPFamilyRoot(t, m, i) ==
  IF families[t][m][i] # None THEN families[t][m][i] ELSE families[Base][m][i]
getAAAMadeSPAux(t, m) == IF t # Base /\ m \in discarded[t] THEN None ELSE aaa[m]

(* The first look at the statistics of the trace clones them.              *)
getMadeSPAux(t, m) == IF aux[t][m] # None THEN aux[t][m] ELSE aux[Base][m]
NewAux(t, m)       == <<round, t, m>>
(* Mutation: a particle changes those of the trace.                        *)
OwnAux_shared(t, m) == getMadeSPAux(t, m)
OwnAux(t, m)       == IF aux[t][m] # None THEN aux[t][m] ELSE NewAux(t, m)

Allocate(a, s) == [b \in DOMAIN heap \cup {a} |-> IF b = a THEN s ELSE heap[b]]
Update(t, m, s) ==
  /\ heap' = Allocate(OwnAux(t, m), s)
  /\ aux'  = [aux EXCEPT ![t][m] = OwnAux(t, m)]

StatisticsAt(a)   == IF a = None THEN None ELSE heap[a]
StatisticsOf(t, m) == StatisticsAt(getMadeSPAux(t, m))

(* The registers of the trace.                                             *)
InScope(S, s, b) == s \in DOMAIN S /\ contains(S[s], b)
NodesIn(S, s, b) == IF InScope(S, s, b) THEN get(S[s], b) ELSE {}
WithScope(S, s, m) == [r \in DOMAIN S \cup {s} |-> IF r = s THEN m ELSE S[r]]

Registered(S, s, b, n) ==
  LET scope == IF s \in DOMAIN S THEN S[s] ELSE Empty
      block == IF contains(scope, b) THEN scope ELSE set(scope, b, {})
  IN WithScope(S, s, assign(block, b, get(block, b) \cup {n}))

Unregistered(S, s, b, n) ==
  LET block == assign(S[s], b, get(S[s], b) \ {n})
      scope == IF get(block, b) = {} THEN erase(block, b) ELSE block
  IN IF size(scope) = 0 THEN [r \in DOMAIN S \ {s} |-> S[r]] ELSE WithScope(S, s, scope)

RegisterInScope(t, s, b, n) ==
  IF t = Base
  THEN n \notin NodesIn(scopes, s, b) /\ scopes' = Registered(scopes, s, b, n) /\ UNCHANGED tags
  ELSE tags' = [tags EXCEPT ![t] = @ \cup {<<s, b, n>>}] /\ UNCHANGED scopes
UnregisterInScope(s, b, n) ==
  n \in NodesIn(scopes, s, b) /\ scopes' = Unregistered(scopes, s, b, n) /\ UNCHANGED tags

registerUnconstrainedChoice(t, c) ==
  /\ c \notin ucs[t] /\ ucs' = [ucs EXCEPT ![t] = @ \cup {c}]
  /\ RegisterInScope(t, Default, c, c)
unregisterUnconstrainedChoice(c) ==
  /\ UnregisterInScope(Default, c, c)
  /\ c \in ucs[Base] /\ ucs' = [ucs EXCEPT ![Base] = @ \ {c}]

(* A particle leaves the unregistering to the commit.                      *)
registerConstrainedChoice(t, c) ==
  /\ c \notin ccs[t] /\ ccs' = [ccs EXCEPT ![t] = @ \cup {c}]
  /\ IF t = Base THEN unregisterUnconstrainedChoice(c) ELSE UNCHANGED <<ucs, scopes, tags>>

Blocks(s) == IF s \in DOMAIN scopes THEN DOMAIN scopes[s].d ELSE {}
(* Mutation: constrained choices count as blocks of the default scope.     *)
numBlocksInScope_constrained(p, s) ==
  IF s = Default THEN Cardinality(ucs[Base] \cup ucs[p])
  ELSE Cardinality(Blocks(s) \cup {b \in Value : \E n \in Choice : <<s, b, n>> \in tags[p]})
numBlocksInScope(p, s) ==
  IF s = Default THEN Cardinality((ucs[Base] \cup ucs[p]) \ ccs[p])
  ELSE Cardinality(Blocks(s) \cup {b \in Value : \E n \in Choice : <<s, b, n>> \in tags[p]})

-----------------------------------------------------------------------------
(* Regeneration, in the trace or in a particle.                            *)
Running(t) == IF t = Base THEN phase = "regen" /\ at[Base] < Len(Program)
              ELSE phase = "propose" /\ t \in live /\ at[t] < Ends[t[1]]
Due(t, s)  == Running(t) /\ Program[at[t] + 1] = s
Done(t)    == at' = [at EXCEPT ![t] = @ + 1]

(* processMadeSP: the statistics are those detached, those the kernel of   *)
(* an AAA maker finds set aside, or new.                                   *)
MadeAux(t, m) == CASE Restores(t) /\ db.aux[m] # None               -> db.aux[m]
                   [] ~Restores(t) /\ getAAAMadeSPAux(t, m) # None  -> getAAAMadeSPAux(t, m)
                   [] OTHER                                         -> NewAux(t, m)
MakeStep(t, m, sp) ==
  /\ Due(t, Make(m)) /\ getMadeSP(t, m) = None
  /\ IF Restores(t) THEN sp = db.sps[m] ELSE sp \in Proc
  /\ sps'      = [sps EXCEPT ![t][m] = sp]
  /\ families' = [families EXCEPT ![t][m] = [i \in Id |-> None]]
  /\ aux'      = [aux EXCEPT ![t][m] = MadeAux(t, m)]
  /\ heap'     = IF MadeAux(t, m) \in DOMAIN heap THEN heap ELSE Allocate(MadeAux(t, m), NoData)
  /\ IF t = Base THEN aaa' = [aaa EXCEPT ![m] = None] /\ UNCHANGED discarded
     ELSE discarded' = [discarded EXCEPT ![t] = IF m \in AAA THEN @ \cup {m} ELSE @] /\ UNCHANGED aaa
  /\ Done(t) /\ UNCHANGED <<gibbsVars, registerVars, nodeVars>>

(* applyPSP of a random procedure: it may be that of any choice.           *)
Apply(t, c, v) ==
  /\ getValue(t, c) = None /\ getMadeSP(t, Op[c]) # None
  /\ values' = [values EXCEPT ![t][c] = v]
  /\ Update(t, Op[c], Incorporate(StatisticsOf(t, Op[c]), v))
  /\ registerUnconstrainedChoice(t, c)

DrawStep(t, c, v) ==
  /\ Due(t, Draw(c)) \/ Due(t, Absorb(c))
  /\ IF Restores(t) THEN v = db.values[c] ELSE v \in Value
  /\ Apply(t, c, v)
  /\ Done(t) /\ UNCHANGED <<gibbsVars, ccs, esrRoots, numRequests, children, sps, families, aaa, discarded>>

addESREdge(t, c, o) ==
  /\ esrRoots[Base][o] = None
  /\ esrRoots'    = [esrRoots EXCEPT ![t][o] = c]
  /\ children'    = [children EXCEPT ![t][c] = @ \cup {o}]
  /\ numRequests' = [numRequests EXCEPT ![t][c] = getNumRequests(t, c) + 1]

ShareStep(t, o, m, id) ==
  /\ Due(t, Request(o, m)) /\ getMadeSP(t, m) # None /\ getMadeSPFamilyRoot(t, m, id) # None
  /\ IF Restores(t) THEN id = db.requests[o] ELSE id \in Id
  /\ addESREdge(t, getMadeSPFamilyRoot(t, m, id), o)
  /\ Done(t) /\ UNCHANGED <<gibbsVars, registerVars, values, spVars>>

FamilyStep(t, o, m, id, v) ==
  /\ Due(t, Request(o, m)) /\ getMadeSP(t, m) # None /\ getMadeSPFamilyRoot(t, m, id) = None
  /\ IF Restores(t) THEN id = db.requests[o] /\ v = db.values[Root[id]] ELSE id \in Id /\ v \in Value
  /\ Apply(t, Root[id], v)
  /\ families' = [families EXCEPT ![t][m][id] = Root[id]]
  /\ addESREdge(t, Root[id], o)
  /\ Done(t) /\ UNCHANGED <<gibbsVars, ccs, sps, aaa, discarded>>

TagStep(t, s, b, c) ==
  /\ Due(t, Tag(s, b, c)) /\ getValue(t, b) # None
  /\ RegisterInScope(t, s, getValue(t, b), c)
  /\ Done(t) /\ UNCHANGED <<gibbsVars, ucs, ccs, nodeVars, spVars>>

Constrainable(t, n) == IF n \in Choice THEN n ELSE getESRParent(t, n)

(* Mutation: the value that was drawn stays in the statistics.             *)
Constrained_still_counted(t, c, v) == Incorporate(StatisticsOf(t, Op[c]), v)
Constrained(t, c, v) ==
  Incorporate(Unincorporate(StatisticsOf(t, Op[c]), getValue(t, c)), v)

ObserveStep(t, n, c, v) ==
  /\ Due(t, Observe(n, v)) /\ c = Constrainable(t, n) /\ c # None /\ getValue(t, c) # None
  /\ Update(t, Op[c], Constrained(t, c, v))
  /\ values' = [values EXCEPT ![t][c] = v]
  /\ registerConstrainedChoice(t, c)
  /\ Done(t)
  /\ UNCHANGED <<gibbsVars, esrRoots, numRequests, children, sps, families, aaa, discarded>>

AbsorbStep(t, c) ==
  /\ Due(t, Absorb(c)) /\ getValue(t, c) # None
  /\ Update(t, Op[c], Incorporate(StatisticsOf(t, Op[c]), getValue(t, c)))
  /\ Done(t) /\ UNCHANGED <<gibbsVars, registerVars, nodeVars, sps, families, aaa, discarded>>

-----------------------------------------------------------------------------
(* detachAndExtract, from the last border group to the first.              *)
Latest(s) == phase = "detach" /\ at[Base] > First /\ Program[at[Base]] = s
Undo(d) ==
  /\ db' = d /\ at' = [at EXCEPT ![Base] = @ - 1]
  /\ UNCHANGED <<phase, round, group, live, committing, toTag, toConstrain, before>>

UnmakeStep(m) ==
  /\ Latest(Make(m))
  /\ Undo([db EXCEPT !.sps[m] = sps[Base][m], !.aux[m] = aux[Base][m]])
  /\ saved'    = [saved EXCEPT ![m] = StatisticsOf(Base, m)]
  /\ aaa'      = IF m \in AAA THEN [aaa EXCEPT ![m] = aux[Base][m]] ELSE aaa
  /\ sps'      = [sps EXCEPT ![Base][m] = None]
  /\ families' = [families EXCEPT ![Base][m] = [i \in Id |-> None]]
  /\ aux'      = [aux EXCEPT ![Base][m] = None]
  /\ UNCHANGED <<registerVars, nodeVars, heap, discarded>>

Unapply(c) ==
  /\ unregisterUnconstrainedChoice(c)
  /\ Update(Base, Op[c], Unincorporate(StatisticsOf(Base, Op[c]), values[Base][c]))
  /\ values' = [values EXCEPT ![Base][c] = None]

UndrawStep(c) ==
  /\ Latest(Draw(c))
  /\ Undo([db EXCEPT !.values[c] = values[Base][c]])
  /\ Unapply(c)
  /\ UNCHANGED <<saved, ccs, esrRoots, numRequests, children, sps, families, aaa, discarded>>

(* popLastESRParent, and the family goes with the last request for it.     *)
UnrequestStep(o, m) ==
  LET c  == esrRoots[Base][o]
      id == CHOOSE i \in Id : Root[i] = c
  IN
  /\ Latest(Request(o, m)) /\ o \in children[Base][c]
  /\ esrRoots'    = [esrRoots EXCEPT ![Base][o] = None]
  /\ children'    = [children EXCEPT ![Base][c] = @ \ {o}]
  /\ numRequests' = [numRequests EXCEPT ![Base][c] = @ - 1]
  /\ \/ /\ numRequests[Base][c] > 1
        /\ Undo([db EXCEPT !.requests[o] = id])
        /\ UNCHANGED <<registerVars, values, spVars>>
     \/ /\ numRequests[Base][c] = 1
        /\ Undo([db EXCEPT !.requests[o] = id, !.values[c] = values[Base][c]])
        /\ families' = [families EXCEPT ![Base][m][id] = None]
        /\ Unapply(c)
        /\ UNCHANGED <<ccs, sps, aaa, discarded>>
  /\ UNCHANGED saved

UntagStep(s, b, c) ==
  /\ Latest(Tag(s, b, c))
  /\ UnregisterInScope(s, values[Base][b], c)
  /\ Undo(db) /\ UNCHANGED <<saved, ucs, ccs, nodeVars, spVars>>

(* unconstrain                                                             *)
UnobserveStep(n, v) ==
  /\ Latest(Observe(n, v))
  /\ LET c == Constrainable(Base, n) IN
       /\ c \in ccs[Base] /\ ccs' = [ccs EXCEPT ![Base] = @ \ {c}]
       /\ registerUnconstrainedChoice(Base, c)
  /\ Undo(db) /\ UNCHANGED <<saved, nodeVars, spVars>>

UnabsorbStep(c) ==
  /\ Latest(Absorb(c))
  /\ Update(Base, Op[c], Unincorporate(StatisticsOf(Base, Op[c]), values[Base][c]))
  /\ Undo(db) /\ UNCHANGED <<saved, registerVars, nodeVars, sps, families, aaa, discarded>>

-----------------------------------------------------------------------------
(* What a particle stands for: the trace, with its record over it.         *)
UcsOf(t)  == (ucs[Base] \cup ucs[t]) \ (IF t = Base THEN {} ELSE ccs[t])
CcsOf(t)  == ccs[Base] \cup ccs[t]
default(c) == <<Default, c, c>>
BaseTags  == UNION {UNION {{<<s, b, n>> : n \in get(scopes[s], b)} : b \in DOMAIN scopes[s].d} :
                    s \in DOMAIN scopes}
TagsOf(t) == IF t = Base THEN BaseTags ELSE (BaseTags \cup tags[t]) \ {default(c) : c \in ccs[t]}

Overlaid(X, t) == [k \in DOMAIN X[t] |-> IF X[t][k] # None THEN X[t][k] ELSE X[Base][k]]
ChildrenOf(t)   == [c \in Choice |-> getChildren(t, c)]
FamiliesOf(t)   == [m \in Maker |-> [i \in Id |-> getMadeSPFamilyRoot(t, m, i)]]
AllStatisticsOf(t) == [m \in Maker |-> StatisticsOf(t, m)]
AAAOf(t)        == [m \in Maker |-> StatisticsAt(getAAAMadeSPAux(t, m))]

Whole(t) == [ucs |-> UcsOf(t), ccs |-> CcsOf(t), tags |-> TagsOf(t),
             values |-> Overlaid(values, t), esrRoots |-> Overlaid(esrRoots, t),
             numRequests |-> Overlaid(numRequests, t), children |-> ChildrenOf(t),
             sps |-> Overlaid(sps, t), families |-> FamiliesOf(t), stats |-> AllStatisticsOf(t)]

-----------------------------------------------------------------------------
(* The move: PGibbsGKernel::propose, accept and reject.                    *)
BeginDetach ==
  /\ phase = "regen" /\ at[Base] = Len(Program) /\ round < MaxRounds
  /\ phase' = "detach" /\ round' = round + 1
  /\ at' = [at EXCEPT ![Base] = TorusEnd]
  /\ before' = Whole(Base) /\ saved' = [m \in Maker |-> None]
  /\ UNCHANGED <<group, live, db, committing, toTag, toConstrain, registerVars, nodeVars, spVars>>

BeginPropose ==
  /\ phase = "detach" /\ at[Base] = First
  /\ phase' = "propose" /\ group' = 1
  /\ UNCHANGED <<round, live, db, committing, toTag, toConstrain, saved, before, at, registerVars, nodeVars, spVars>>

Generation(g) == {g} \X (0..NumNew)
Ended(t)      == t \in live /\ at[t] = Ends[t[1]]

(* doPGibbsInitial; the particle that restores starts after the join.      *)
Spawn(p) ==
  /\ phase = "propose" /\ group = 1 /\ p \in Generation(1) \ live
  /\ Restores(p) => \A q \in Generation(1) \ {p} : Ended(q)
  /\ live' = live \cup {p}
  /\ at' = [at EXCEPT ![p] = First]
  /\ UNCHANGED <<phase, round, group, db, committing, toTag, toConstrain, saved, before, registerVars, nodeVars, spVars>>

(* The copy constructor shares everything but the statistics, since only   *)
(* they are changed in place.                                              *)
Copied(X, p, q) == [X EXCEPT ![q] = X[p]]

(* Mutation: the one that restores is copied from any particle.            *)
Parent_any(p, q) == p \in Generation(group - 1)
Parent(p, q) == p \in Generation(group - 1) /\ (Restores(q) => Restores(p))

(* doPGibbsPropagate                                                       *)
Clone(p, q) ==
  /\ phase = "propose" /\ group > 1 /\ group <= Len(Ends) /\ Parent(p, q) /\ q \in Generation(group) \ live
  /\ live' = live \cup {q}
  /\ at'  = Copied(at, p, q)
  /\ ucs' = Copied(ucs, p, q) /\ ccs' = Copied(ccs, p, q) /\ tags' = Copied(tags, p, q)
  /\ values' = Copied(values, p, q) /\ esrRoots' = Copied(esrRoots, p, q)
  /\ numRequests' = Copied(numRequests, p, q) /\ children' = Copied(children, p, q)
  /\ sps' = Copied(sps, p, q) /\ families' = Copied(families, p, q)
  /\ discarded' = Copied(discarded, p, q)
  /\ aux' = [aux EXCEPT ![q] = [m \in Maker |-> IF aux[p][m] = None THEN None ELSE NewAux(q, m)]]
  /\ heap' = [b \in DOMAIN heap \cup {NewAux(q, m) : m \in {n \in Maker : aux[p][n] # None}} |->
                IF \E m \in Maker : b = NewAux(q, m) THEN heap[aux[p][b[3]]] ELSE heap[b]]
  /\ UNCHANGED <<phase, round, group, db, committing, toTag, toConstrain, saved, before, scopes, aaa>>

(* Particles and statistics that nothing refers to are gone.               *)
Blank(X, gone, x) == [t \in DOMAIN X |-> IF t \in gone THEN x ELSE X[t]]
Kept(pointers)    == [b \in DOMAIN heap \cap pointers |-> heap[b]]
Pointers(f)       == {f[m] : m \in Maker}

Referenced(gone) ==
  Pointers(aaa) \cup Pointers(db.aux) \cup UNION {Pointers(aux[t]) : t \in Trace \ gone}

DropOverlays(gone) ==
  /\ tags' = Blank(tags, gone, {}) /\ discarded' = Blank(discarded, gone, {})

(* The generation before goes when the new one is complete.                *)
Advance ==
  LET gone == live \ Generation(group) IN
  /\ phase = "propose" /\ group <= Len(Ends) /\ \A p \in Generation(group) : Ended(p)
  /\ group' = group + 1 /\ live' = live \ gone
  /\ at' = Blank(at, gone, 0)
  /\ ucs' = Blank(ucs, gone, {}) /\ ccs' = Blank(ccs, gone, {})
  /\ values' = Blank(values, gone, [c \in Choice |-> None])
  /\ esrRoots' = Blank(esrRoots, gone, [o \in Output |-> None])
  /\ numRequests' = Blank(numRequests, gone, [c \in Choice |-> None])
  /\ children' = Blank(children, gone, [c \in Choice |-> {}])
  /\ sps' = Blank(sps, gone, [m \in Maker |-> None])
  /\ families' = Blank(families, gone, [m \in Maker |-> [i \in Id |-> None]])
  /\ aux' = Blank(aux, gone, [m \in Maker |-> None])
  /\ heap' = Kept(Referenced(gone))
  /\ DropOverlays(gone)
  /\ UNCHANGED <<phase, round, db, committing, toTag, toConstrain, saved, before, scopes, aaa>>

(* Particle::commit, of a new particle (accept) or of the one that         *)
(* restored (reject).                                                      *)
(* Mutation: the trace is not told of the unconstrained choices.           *)
WithChoices_none(p) == ucs
WithChoices(p) == [ucs EXCEPT ![Base] = @ \cup ucs[p]]

CommitChoices(p) ==
  /\ phase = "propose" /\ group = Len(Ends) + 1 /\ p \in live
  /\ phase' = "commit" /\ committing' = p
  /\ ucs' = WithChoices(p)
  /\ toTag' = tags[p] /\ toConstrain' = ccs[p]
  /\ db' = NoDB /\ saved' = [m \in Maker |-> None] /\ before' = <<>>
  /\ UNCHANGED <<round, group, live, at, ccs, scopes, tags, nodeVars, spVars>>

CommitTag(s, b, n) ==
  /\ phase = "commit" /\ <<s, b, n>> \in toTag
  /\ toTag' = toTag \ {<<s, b, n>>}
  /\ RegisterInScope(Base, s, b, n)
  /\ UNCHANGED <<phase, round, group, live, db, committing, toConstrain, saved, before, at, ucs, ccs, nodeVars, spVars>>

CommitConstraint(c) ==
  /\ phase = "commit" /\ toTag = {} /\ c \in toConstrain
  /\ toConstrain' = toConstrain \ {c}
  /\ registerConstrainedChoice(Base, c)
  /\ UNCHANGED <<phase, round, group, live, db, committing, toTag, saved, before, at, nodeVars, spVars>>

(* What remains overwrites what the trace has, but children are added to.  *)
Merged(X, new, x) == [t \in DOMAIN X |-> IF t = Base THEN new ELSE x]

CommitRest ==
  LET p == committing IN
  /\ phase = "commit" /\ toTag = {} /\ toConstrain = {}
  /\ phase' = "regen" /\ group' = 0 /\ live' = {} /\ committing' = None
  /\ at' = Merged(at, Len(Program), 0)
  /\ ucs' = Merged(ucs, ucs[Base], {}) /\ ccs' = Merged(ccs, ccs[Base], {})
  /\ values'      = Merged(values, Overlaid(values, p), [c \in Choice |-> None])
  /\ esrRoots'    = Merged(esrRoots, Overlaid(esrRoots, p), [o \in Output |-> None])
  /\ numRequests' = Merged(numRequests, Overlaid(numRequests, p), [c \in Choice |-> None])
  /\ children'    = Merged(children, ChildrenOf(p), [c \in Choice |-> {}])
  /\ sps'         = Merged(sps, Overlaid(sps, p), [m \in Maker |-> None])
  /\ families'    = Merged(families, FamiliesOf(p), [m \in Maker |-> [i \in Id |-> None]])
  /\ aux'         = Merged(aux, Overlaid(aux, p), [m \in Maker |-> None])
  /\ aaa'         = [m \in Maker |-> IF m \in discarded[p] THEN None ELSE aaa[m]]
  /\ heap'        = Kept(Pointers(Overlaid(aux, p)) \cup Pointers(aaa'))
  /\ DropOverlays(Particle)
  /\ UNCHANGED <<round, db, toTag, toConstrain, saved, before, scopes>>

-----------------------------------------------------------------------------
Regen(t) ==
  \/ \E m \in Maker, sp \in Proc : MakeStep(t, m, sp)
  \/ \E c \in Choice, v \in Value : DrawStep(t, c, v)
  \/ \E o \in Output, m \in Maker, id \in Id :
       ShareStep(t, o, m, id) \/ \E v \in Value : FamilyStep(t, o, m, id, v)
  \/ \E s \in Scope, b, c \in Choice : TagStep(t, s, b, c)
  \/ \E n \in Choice \cup Output, c \in Choice, v \in Value : ObserveStep(t, n, c, v)
  \/ \E c \in Choice : AbsorbStep(t, c)

Detach ==
  \/ \E m \in Maker : UnmakeStep(m) \/ \E o \in Output : UnrequestStep(o, m)
  \/ \E c \in Choice : UndrawStep(c) \/ UnabsorbStep(c)
  \/ \E s \in Scope, b, c \in Choice : UntagStep(s, b, c)
  \/ \E n \in Choice \cup Output, v \in Value : UnobserveStep(n, v)

Move ==
  \/ BeginDetach \/ BeginPropose \/ Advance \/ CommitRest
  \/ \E p \in Particle : Spawn(p) \/ CommitChoices(p) \/ \E q \in Particle : Clone(p, q)
  \/ \E tag \in toTag : CommitTag(tag[1], tag[2], tag[3])
  \/ \E c \in toConstrain : CommitConstraint(c)

Next == (\E t \in Trace : Regen(t)) \/ Detach \/ Move

Spec == Init /\ [][Next]_vars
FairSpec == Spec /\ WF_vars(Next)
=============================================================================
