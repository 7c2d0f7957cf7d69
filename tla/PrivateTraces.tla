--------------------------- MODULE PrivateTraces ----------------------------
(***************************************************************************)
(* What particles promise: each is a complete trace of its own, a copy of  *)
(* the one it was started from, on which it regenerates the torus alone.   *)
(* A particle that is not running is a copy of the trace.                  *)
(***************************************************************************)
EXTENDS Torus

VARIABLES
  phase,        \* "regen" in place, "detach", or "propose" particles
  round,        \* moves begun
  group,        \* the border group that is proposed
  live,         \* the particles there are
  at,           \* per trace, the steps of the program it has done
  db,           \* what was detached
  ucs, ccs,     \* unconstrained and constrained choices
  tags,         \* <<scope, block, node>>: the nodes registered in scopes
  values,       \* values of the choices
  esrRoots,     \* the family an output refers to
  numRequests,  \* how many outputs refer to a family
  children,     \* and which they are
  sps,          \* the procedures made
  families,     \* per maker, the families by id
  stats,        \* per maker, the statistics of the procedure made
  aaa           \* per maker, the statistics set aside for the next

traceVars == <<ucs, ccs, tags, values, esrRoots, numRequests, children, sps, families, stats, aaa>>
vars == <<phase, round, group, live, at, db, traceVars>>

NoDB == [values |-> [c \in Choice |-> None], requests |-> [o \in Output |-> None],
         sps |-> [m \in Maker |-> None], stats |-> [m \in Maker |-> None]]

Init ==
  /\ phase = "regen" /\ round = 0 /\ group = 0 /\ live = {} /\ db = NoDB
  /\ at          = [t \in Trace |-> 0]
  /\ ucs         = [t \in Trace |-> {}]
  /\ ccs         = [t \in Trace |-> {}]
  /\ tags        = [t \in Trace |-> {}]
  /\ values      = [t \in Trace |-> [c \in Choice |-> None]]
  /\ esrRoots    = [t \in Trace |-> [o \in Output |-> None]]
  /\ numRequests = [t \in Trace |-> [c \in Choice |-> 0]]
  /\ children    = [t \in Trace |-> [c \in Choice |-> {}]]
  /\ sps         = [t \in Trace |-> [m \in Maker |-> None]]
  /\ families    = [t \in Trace |-> [m \in Maker |-> [i \in Id |-> None]]]
  /\ stats       = [t \in Trace |-> [m \in Maker |-> None]]
  /\ aaa         = [t \in Trace |-> [m \in Maker |-> None]]

(* What is done to the trace shows in every copy of it.                    *)
Acts(t) == IF t = Base THEN Trace ELSE {t}
Put(X, t, k, v)  == [u \in Trace |-> IF u \in Acts(t) THEN [X[u] EXCEPT ![k] = v] ELSE X[u]]
With(X, t, s)    == [u \in Trace |-> IF u \in Acts(t) THEN X[u] \cup s ELSE X[u]]
Without(X, t, s) == [u \in Trace |-> IF u \in Acts(t) THEN X[u] \ s ELSE X[u]]
Done(t)          == at' = [u \in Trace |-> IF u \in Acts(t) THEN at[t] + 1 ELSE at[u]]

Running(t) == IF t = Base THEN phase = "regen" /\ at[Base] < Len(Program)
              ELSE phase = "propose" /\ t \in live /\ at[t] < Ends[t[1]]
Due(t, s)  == Running(t) /\ Program[at[t] + 1] = s
Latest(s)    == phase = "detach" /\ at[Base] > First /\ Program[at[Base]] = s

default(c) == <<Default, c, c>>

-----------------------------------------------------------------------------
(* The steps.                                                              *)
MakeStep(t, m, sp) ==
  /\ Due(t, Make(m)) /\ sps[t][m] = None
  /\ IF Restores(t) THEN sp = db.sps[m] ELSE sp \in Proc
  /\ sps'   = Put(sps, t, m, sp)
  /\ families' = Put(families, t, m, [i \in Id |-> None])
  /\ stats' = Put(stats, t, m, CASE Restores(t) /\ db.stats[m] # None -> db.stats[m]
                                 [] ~Restores(t) /\ aaa[t][m] # None  -> aaa[t][m]
                                 [] OTHER                             -> NoData)
  /\ aaa'   = Put(aaa, t, m, None)
  /\ Done(t)
  /\ UNCHANGED <<phase, round, group, live, db, ucs, ccs, tags, values, esrRoots, numRequests, children>>

(* An application that absorbs is drawn once, and then only put back.      *)
DrawStep(t, c, v) ==
  /\ Due(t, Draw(c)) \/ Due(t, Absorb(c))
  /\ values[t][c] = None /\ sps[t][Op[c]] # None
  /\ IF Restores(t) THEN v = db.values[c] ELSE v \in Value
  /\ values' = Put(values, t, c, v)
  /\ stats'  = Put(stats, t, Op[c], Incorporate(stats[t][Op[c]], v))
  /\ ucs'    = With(ucs, t, {c})
  /\ tags'   = With(tags, t, {default(c)})
  /\ Done(t)
  /\ UNCHANGED <<phase, round, group, live, db, ccs, esrRoots, numRequests, children, sps, families, aaa>>

AddEdge(t, c, o) ==
  /\ esrRoots[t][o] = None
  /\ esrRoots'    = Put(esrRoots, t, o, c)
  /\ numRequests' = Put(numRequests, t, c, numRequests[t][c] + 1)
  /\ children'    = Put(children, t, c, children[t][c] \cup {o})

(* A request for a family that is there.                                   *)
ShareStep(t, o, m, id) ==
  /\ Due(t, Request(o, m)) /\ sps[t][m] # None /\ families[t][m][id] # None
  /\ IF Restores(t) THEN id = db.requests[o] ELSE id \in Id
  /\ AddEdge(t, families[t][m][id], o)
  /\ Done(t)
  /\ UNCHANGED <<phase, round, group, live, db, ucs, ccs, tags, values, sps, families, stats, aaa>>

(* A request for one that is not: its root is evaluated first.             *)
FamilyStep(t, o, m, id, v) ==
  /\ Due(t, Request(o, m)) /\ sps[t][m] # None /\ families[t][m][id] = None
  /\ IF Restores(t) THEN id = db.requests[o] /\ v = db.values[Root[id]] ELSE id \in Id /\ v \in Value
  /\ LET c == Root[id] IN
       /\ values[t][c] = None /\ sps[t][Op[c]] # None
       /\ values'   = Put(values, t, c, v)
       /\ stats'    = Put(stats, t, Op[c], Incorporate(stats[t][Op[c]], v))
       /\ ucs'      = With(ucs, t, {c})
       /\ tags'     = With(tags, t, {default(c)})
       /\ families' = Put(families, t, m, [families[t][m] EXCEPT ![id] = c])
       /\ AddEdge(t, c, o)
  /\ Done(t)
  /\ UNCHANGED <<phase, round, group, live, db, ccs, sps, aaa>>

TagStep(t, s, b, c) ==
  /\ Due(t, Tag(s, b, c)) /\ values[t][b] # None
  /\ tags' = With(tags, t, {<<s, values[t][b], c>>})
  /\ Done(t)
  /\ UNCHANGED <<phase, round, group, live, db, ucs, ccs, values, esrRoots, numRequests, children, sps, families, stats, aaa>>

(* What an observation of n reaches: a choice, or that at the root of the  *)
(* family an output refers to.                                             *)
Constrainable(t, n) == IF n \in Choice THEN n ELSE esrRoots[t][n]

(* A particle does not ask whether the trace has constrained the choice.   *)
ObserveStep(t, n, c, v) ==
  /\ Due(t, Observe(n, v)) /\ c = Constrainable(t, n) /\ c # None /\ values[t][c] # None
  /\ stats'  = Put(stats, t, Op[c], Incorporate(Unincorporate(stats[t][Op[c]], values[t][c]), v))
  /\ values' = Put(values, t, c, v)
  /\ ccs'    = With(ccs, t, {c})
  /\ ucs'    = Without(ucs, t, {c})
  /\ tags'   = Without(tags, t, {default(c)})
  /\ Done(t)
  /\ UNCHANGED <<phase, round, group, live, db, esrRoots, numRequests, children, sps, families, aaa>>

AbsorbStep(t, c) ==
  /\ Due(t, Absorb(c)) /\ values[t][c] # None
  /\ stats' = Put(stats, t, Op[c], Incorporate(stats[t][Op[c]], values[t][c]))
  /\ Done(t)
  /\ UNCHANGED <<phase, round, group, live, db, ucs, ccs, tags, values, esrRoots, numRequests, children, sps, families, aaa>>

-----------------------------------------------------------------------------
(* The detachment, the steps of the torus from the last to the first.      *)
Undo == phase' = phase /\ at' = [u \in Trace |-> at[Base] - 1]

UnmakeStep(m) ==
  /\ Latest(Make(m)) /\ Undo
  /\ db'  = [db EXCEPT !.sps[m] = sps[Base][m], !.stats[m] = stats[Base][m]]
  /\ aaa' = IF m \in AAA THEN Put(aaa, Base, m, stats[Base][m]) ELSE aaa
  /\ sps' = Put(sps, Base, m, None)
  /\ families' = Put(families, Base, m, [i \in Id |-> None])
  /\ stats' = Put(stats, Base, m, None)
  /\ UNCHANGED <<round, group, live, ucs, ccs, tags, values, esrRoots, numRequests, children>>

Unapply(c) ==
  /\ values' = Put(values, Base, c, None)
  /\ stats'  = Put(stats, Base, Op[c], Unincorporate(stats[Base][Op[c]], values[Base][c]))
  /\ ucs'    = Without(ucs, Base, {c})
  /\ tags'   = Without(tags, Base, {default(c)})

UndrawStep(c) ==
  /\ Latest(Draw(c)) /\ Undo
  /\ db' = [db EXCEPT !.values[c] = values[Base][c]]
  /\ Unapply(c)
  /\ UNCHANGED <<round, group, live, ccs, esrRoots, numRequests, children, sps, families, aaa>>

(* The family is torn down with the last request for it.                   *)
UnrequestStep(o, m) ==
  /\ Latest(Request(o, m)) /\ Undo
  /\ LET c  == esrRoots[Base][o]
         id == CHOOSE i \in Id : Root[i] = c
     IN
       /\ esrRoots'    = Put(esrRoots, Base, o, None)
       /\ children'    = Put(children, Base, c, children[Base][c] \ {o})
       /\ numRequests' = Put(numRequests, Base, c, numRequests[Base][c] - 1)
       /\ \/ /\ numRequests[Base][c] > 1
             /\ db' = [db EXCEPT !.requests[o] = id]
             /\ UNCHANGED <<families, values, stats, ucs, tags>>
          \/ /\ numRequests[Base][c] = 1
             /\ db' = [db EXCEPT !.requests[o] = id, !.values[c] = values[Base][c]]
             /\ families' = Put(families, Base, m, [families[Base][m] EXCEPT ![id] = None])
             /\ Unapply(c)
  /\ UNCHANGED <<round, group, live, ccs, sps, aaa>>

UntagStep(s, b, c) ==
  /\ Latest(Tag(s, b, c)) /\ Undo
  /\ tags' = Without(tags, Base, {<<s, values[Base][b], c>>})
  /\ UNCHANGED <<round, group, live, db, ucs, ccs, values, esrRoots, numRequests, children, sps, families, stats, aaa>>

UnobserveStep(n, v) ==
  /\ Latest(Observe(n, v)) /\ Undo
  /\ LET c == Constrainable(Base, n) IN
       /\ ccs'  = Without(ccs, Base, {c})
       /\ ucs'  = With(ucs, Base, {c})
       /\ tags' = With(tags, Base, {default(c)})
  /\ UNCHANGED <<round, group, live, db, values, esrRoots, numRequests, children, sps, families, stats, aaa>>

UnabsorbStep(c) ==
  /\ Latest(Absorb(c)) /\ Undo
  /\ stats' = Put(stats, Base, Op[c], Unincorporate(stats[Base][Op[c]], values[Base][c]))
  /\ UNCHANGED <<round, group, live, db, ucs, ccs, tags, values, esrRoots, numRequests, children, sps, families, aaa>>

-----------------------------------------------------------------------------
(* The move.                                                               *)
BeginDetach ==
  /\ phase = "regen" /\ at[Base] = Len(Program) /\ round < MaxRounds
  /\ phase' = "detach" /\ round' = round + 1 /\ db' = NoDB
  /\ at' = [t \in Trace |-> TorusEnd]
  /\ UNCHANGED <<group, live, traceVars>>

BeginPropose ==
  /\ phase = "detach" /\ at[Base] = First
  /\ phase' = "propose" /\ group' = 1
  /\ UNCHANGED <<round, live, at, db, traceVars>>

Ended(t) == t \in live /\ at[t] = Ends[t[1]]
Generation(g) == {g} \X (0..NumNew)

(* The first generation starts from the trace; the particle that restores  *)
(* starts when the others have ended.                                      *)
Spawn(p) ==
  /\ phase = "propose" /\ group = 1 /\ p \in Generation(1) \ live
  /\ Restores(p) => \A q \in Generation(1) \ {p} : Ended(q)
  /\ live' = live \cup {p}
  /\ UNCHANGED <<phase, round, group, at, db, traceVars>>

Copied(X, p, q) == [X EXCEPT ![q] = X[p]]

(* A later one starts from a particle of the generation before, the one    *)
(* that restores from the one that restored.                               *)
Clone(p, q) ==
  /\ phase = "propose" /\ group > 1 /\ group <= Len(Ends)
  /\ p \in Generation(group - 1) /\ q \in Generation(group) \ live
  /\ Restores(q) => Restores(p)
  /\ live' = live \cup {q}
  /\ at' = Copied(at, p, q)
  /\ ucs' = Copied(ucs, p, q) /\ ccs' = Copied(ccs, p, q) /\ tags' = Copied(tags, p, q)
  /\ values' = Copied(values, p, q) /\ esrRoots' = Copied(esrRoots, p, q)
  /\ numRequests' = Copied(numRequests, p, q) /\ children' = Copied(children, p, q)
  /\ sps' = Copied(sps, p, q) /\ families' = Copied(families, p, q)
  /\ stats' = Copied(stats, p, q) /\ aaa' = Copied(aaa, p, q)
  /\ UNCHANGED <<phase, round, group, db>>

(* A particle that is dropped is a copy of the trace again.                *)
Dropped(X, gone) == [t \in Trace |-> IF t \in gone THEN X[Base] ELSE X[t]]

Drop(gone) ==
  /\ live' = live \ gone
  /\ at' = Dropped(at, gone)
  /\ ucs' = Dropped(ucs, gone) /\ ccs' = Dropped(ccs, gone) /\ tags' = Dropped(tags, gone)
  /\ values' = Dropped(values, gone) /\ esrRoots' = Dropped(esrRoots, gone)
  /\ numRequests' = Dropped(numRequests, gone) /\ children' = Dropped(children, gone)
  /\ sps' = Dropped(sps, gone) /\ families' = Dropped(families, gone)
  /\ stats' = Dropped(stats, gone) /\ aaa' = Dropped(aaa, gone)

Advance ==
  /\ phase = "propose" /\ group <= Len(Ends)
  /\ \A p \in Generation(group) : Ended(p)
  /\ group' = group + 1
  /\ Drop(live \ Generation(group))
  /\ UNCHANGED <<phase, round, db>>

(* The trace becomes what the particle p was.                              *)
Became(X, p) == [t \in Trace |-> X[p]]

Commit(p) ==
  /\ phase = "propose" /\ group = Len(Ends) + 1 /\ p \in live
  /\ phase' = "regen" /\ group' = 0 /\ live' = {} /\ db' = NoDB
  /\ at' = [t \in Trace |-> Len(Program)]
  /\ ucs' = Became(ucs, p) /\ ccs' = Became(ccs, p) /\ tags' = Became(tags, p)
  /\ values' = Became(values, p) /\ esrRoots' = Became(esrRoots, p)
  /\ numRequests' = Became(numRequests, p) /\ children' = Became(children, p)
  /\ sps' = Became(sps, p) /\ families' = Became(families, p)
  /\ stats' = Became(stats, p) /\ aaa' = Became(aaa, p)
  /\ UNCHANGED round

-----------------------------------------------------------------------------
Regen(t) ==
  \/ \E m \in Maker, sp \in Proc : MakeStep(t, m, sp)
  \/ \E c \in Choice, v \in Value : DrawStep(t, c, v)
  \/ \E o \in Output, m \in Maker, id \in Id :
       ShareStep(t, o, m, id) \/ \E v \in Value : FamilyStep(t, o, m, id, v)
  \/ \E s \in Scope, b, c \in Choice : TagStep(t, s, b, c)
  \/ \E n \in Choice \cup Output, c \in Choice, v \in Value : ObserveStep(t, n, c, v)
  \/ \E c \in Choice : AbsorbStep(t, c)

Detach ==
  \/ \E m \in Maker : UnmakeStep(m) \/ \E o \in Output : UnrequestStep(o, m)
  \/ \E c \in Choice : UndrawStep(c) \/ UnabsorbStep(c)
  \/ \E s \in Scope, b, c \in Choice : UntagStep(s, b, c)
  \/ \E n \in Choice \cup Output, v \in Value : UnobserveStep(n, v)

Move ==
  \/ BeginDetach \/ BeginPropose \/ Advance
  \/ \E p \in Particle : Spawn(p) \/ Commit(p) \/ \E q \in Particle : Clone(p, q)

Next == (\E t \in Trace : Regen(t)) \/ Detach \/ Move

Spec == Init /\ [][Next]_vars
=============================================================================
