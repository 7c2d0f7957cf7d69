--------------------------- MODULE ParticleProps ---------------------------
(***************************************************************************)
(* What the particle Gibbs move has to satisfy.                            *)
(***************************************************************************)
EXTENDS ParticleGibbs

(* A particle that is not live, and every particle during the commit of    *)
(* one, stands for the trace; the trace, while p is committed, for p.      *)
Seen(t) == IF phase = "commit" THEN committing ELSE IF t \in live THEN t ELSE Base

(* What the traces and the particles show.                                 *)
committed == phase = "commit"

SeenPhase    == IF committed THEN "regen" ELSE phase
SeenGroup    == IF committed THEN 0 ELSE group
SeenLive     == IF committed THEN {} ELSE live
SeenDB       == [values |-> db.values, requests |-> db.requests, sps |-> db.sps, stats |-> saved]
SeenAt       == [t \in Trace |-> IF committed THEN Len(Program) ELSE at[Seen(t)]]
SeenUcs      == [t \in Trace |-> UcsOf(Seen(t))]
SeenCcs      == [t \in Trace |-> CcsOf(Seen(t))]
SeenTags     == [t \in Trace |-> TagsOf(Seen(t))]
SeenValues   == [t \in Trace |-> Overlaid(values, Seen(t))]
SeenRoots    == [t \in Trace |-> Overlaid(esrRoots, Seen(t))]
SeenRequests == [t \in Trace |-> Overlaid(numRequests, Seen(t))]
SeenChildren == [t \in Trace |-> ChildrenOf(Seen(t))]
SeenSPs      == [t \in Trace |-> Overlaid(sps, Seen(t))]
SeenFamilies == [t \in Trace |-> FamiliesOf(Seen(t))]
SeenStats    == [t \in Trace |-> AllStatisticsOf(Seen(t))]
SeenAAA      == [t \in Trace |-> AAAOf(Seen(t))]

Private == INSTANCE PrivateTraces WITH
  phase <- SeenPhase, group <- SeenGroup, live <- SeenLive, db <- SeenDB, at <- SeenAt,
  ucs <- SeenUcs, ccs <- SeenCcs, tags <- SeenTags, values <- SeenValues, esrRoots <- SeenRoots,
  numRequests <- SeenRequests, children <- SeenChildren, sps <- SeenSPs, families <- SeenFamilies,
  stats <- SeenStats, aaa <- SeenAAA

(* Particles over one trace are as good as copies of the trace: whatever   *)
(* order their threads take, no particle and no copy of one shows what     *)
(* another does, and the trace does not change before the commit, which    *)
(* makes it what the particle was and nothing in between.                  *)
Refines == Private!Spec

-----------------------------------------------------------------------------
(* Once the particle that restores has been through the last border group, *)
(* it is the trace that was detached, whatever the others did: this is     *)
(* what reject commits, and what makes its weight the one of the state the *)
(* chain is in (pgibbs.cxx:120).                                           *)
RestoredAsBefore ==
  LET rho == <<Len(Ends), NumNew>> IN
  phase = "propose" /\ Ended(rho) => Whole(rho) = before

(* The scopes of the trace hold no empty block and are none of them empty, *)
(* their dictionaries and arrays agree, and the blocks of the default one  *)
(* are the unconstrained choices: a block drawn from a scope has a choice  *)
(* to move, drawn as often as it should be.                                *)
ScopesWellFormed ==
  /\ \A s \in DOMAIN scopes :
       /\ Indexed(scopes[s]) /\ size(scopes[s]) > 0
       /\ \A b \in DOMAIN scopes[s].d : get(scopes[s], b) # {}
  /\ phase # "commit" =>
       {tag \in BaseTags : tag[1] = Default} = {default(c) : c \in ucs[Base]}

(* In a complete trace the statistics of each procedure are those of the   *)
(* applications it has, also in a particle that took them from the trace,  *)
(* from another particle, or from what was set aside.                      *)
Applications(t, m, v) == {c \in Choice : Op[c] = m /\ getValue(t, c) = v}
Complete(t) == \/ t = Base /\ phase = "regen" /\ at[Base] = Len(Program)
               \/ t # Base /\ phase = "propose" /\ t[1] = Len(Ends) /\ Ended(t)
StatisticsCount ==
  \A t \in Trace : Complete(t) =>
    \A m \in Maker : StatisticsOf(t, m) = [v \in Value |-> Cardinality(Applications(t, m, v))]

(* The number of blocks the weight of a block proposal takes from a        *)
(* particle is the number the trace has after the particle is committed.   *)
BlocksAgree ==
  \A p \in live, s \in Scope \cup {Default} : phase = "propose" =>
    numBlocksInScope(p, s) = Cardinality({tag[2] : tag \in {g \in TagsOf(p) : g[1] = s}})

(* Every move ends with a complete trace: no assertion of the register and *)
(* unregister methods stops a detachment, a particle or a commit half way. *)
MovesEnd == []<>(phase = "regen" /\ at[Base] = Len(Program))
=============================================================================
