-------------------------- MODULE ParticleInvariant ------------------------
(***************************************************************************)
(* The inductive invariant of the particle Gibbs move: what the scopes,    *)
(* the trace, the particles that overlay it and the statistics they point  *)
(* to are between two steps, and what each kind of step does to them.      *)
(***************************************************************************)
EXTENDS ParticleProps

(* Samplable maps: every key has its one place to be drawn from.           *)
IsSeq(q)  == \E S : q \in Seq(S)
WellFormed(m) == IsSeq(m.a) /\ Indexed(m)

-----------------------------------------------------------------------------
(* The scopes of the trace.                                                *)
BlocksOK(m) == WellFormed(m) /\ size(m) > 0 /\ \A b \in DOMAIN m.d : get(m, b) # {}
ScopesOK(S) == \A s \in DOMAIN S : BlocksOK(S[s])

Holds(S, s, b, n) == s \in DOMAIN S /\ b \in DOMAIN S[s].d /\ n \in get(S[s], b)
TagsIn(S) == UNION {UNION {{<<s, b, n>> : n \in get(S[s], b)} : b \in DOMAIN S[s].d} : s \in DOMAIN S}

(* The tags T have the blocks of the default scope that the choices U ask  *)
(* for.                                                                    *)
Matches(T, U) == {tag \in T : tag[1] = Default} = {default(c) : c \in U}

(* Each particle registers its choices in its tags; while one is committed *)
(* the tags that are left make up for those the trace has not yet.         *)
Records ==
  /\ DOMAIN tags = Particle /\ DOMAIN ucs = Trace /\ live \subseteq Particle
  /\ \A p \in Particle : Matches(tags[p], ucs[p])
  /\ Matches(TagsIn(scopes) \cup toTag, ucs[Base])
  /\ phase # "commit" => toTag = {}

IInv == ScopesOK(scopes) /\ Records

(* A choice has a value or none, and a tag of the program a value for its  *)
(* block: what TagStep reads of the trace, or of what a particle copied.   *)
Committing == phase = "commit" => committing \in Particle
ValuesOK == values \in [Trace -> [Choice -> Value \cup {None}]]
TagsOK   == \A p \in Particle : \A tag \in tags[p] :
              tag[1] # Default => tag \in Scope \X Value \X Choice

JInv == IInv /\ Committing /\ ValuesOK /\ TagsOK

-----------------------------------------------------------------------------
(* What the variables hold.                                                *)
Maybe(S) == S \cup {None}
Pointer  == Nat \X Trace \X Maker

RegisterTypes == ucs \in [Trace -> SUBSET Choice] /\ ccs \in [Trace -> SUBSET Choice]
NodeTypes ==
  /\ esrRoots \in [Trace -> [Output -> Maybe(Roots)]]
  /\ numRequests \in [Trace -> [Choice -> Maybe(Int)]] /\ numRequests[Base] \in [Choice -> Int]
  /\ children \in [Trace -> [Choice -> SUBSET Output]]
MakerTypes ==
  /\ sps \in [Trace -> [Maker -> Maybe(Proc)]]
  /\ families \in [Trace -> [Maker -> [Id -> Maybe(Roots)]]]
  /\ discarded \in [Particle -> SUBSET AAA]
PointerTypes ==
  /\ aux \in [Trace -> [Maker -> Maybe(Pointer)]] /\ aaa \in [Maker -> Maybe(Pointer)]
  /\ heap \in [DOMAIN heap -> Statistics] /\ DOMAIN heap \subseteq Pointer
Detached(v, r, s, x) == [values |-> v, requests |-> r, sps |-> s, aux |-> x]
DBTypes ==
  /\ db = Detached(db.values, db.requests, db.sps, db.aux)
  /\ db.aux \in [Maker -> Maybe(Pointer)] /\ saved \in [Maker -> Maybe(Statistics)]
MoveTypes ==
  /\ phase \in {"regen", "detach", "propose", "commit"} /\ round \in Nat /\ group \in Nat
  /\ at \in [Trace -> Nat]

(* Where a move is, and what the particles there are have done.            *)
Recordless(p) ==
  /\ ucs[p] = {} /\ ccs[p] = {} /\ tags[p] = {} /\ discarded[p] = {}
  /\ values[p] = [c \in Choice |-> None] /\ esrRoots[p] = [o \in Output |-> None]
  /\ numRequests[p] = [c \in Choice |-> None] /\ children[p] = [c \in Choice |-> {}]
  /\ sps[p] = [m \in Maker |-> None] /\ families[p] = [m \in Maker |-> [i \in Id |-> None]]
  /\ aux[p] = [m \in Maker |-> None]
Proposing ==
  /\ group \in 1 .. Len(Ends) + 1
  /\ \A p \in live : p[1] \in {group - 1, group} /\ at[p] \in First .. TorusEnd
  /\ group > 1 => \A p \in Generation(group - 1) : Ended(p)
Stages ==
  /\ phase \in {"regen", "detach"} => live = {} /\ group = 0
  /\ phase \in {"regen", "commit"} => db = NoDB /\ saved = [m \in Maker |-> None]
  /\ phase = "regen" => at[Base] <= Len(Program)
  /\ phase = "detach" => at[Base] \in First .. TorusEnd
  /\ phase \in {"propose", "commit"} => at[Base] = First
  /\ phase = "propose" => Proposing
  /\ phase = "commit" => committing \in live /\ at[committing] = TorusEnd
  /\ \A p \in Particle \ live : Recordless(p)

(* The steps whose effects a trace has, and what these say of makers.      *)
Present(t) ==
  IF t = Base THEN {j \in DOMAIN Program : j <= at[Base] \/ (phase # "regen" /\ j > TorusEnd)}
  ELSE First + 1 .. at[t]
MadeOK ==
  \A t \in {Base} \cup live, m \in Maker : \A j \in Present(t) : Program[j] = Make(m) => getMadeSP(t, m) # None
RequestedOK ==
  /\ \A t \in {Base} \cup live, o \in Output, m \in Maker : \A j \in Present(t) :
       Program[j] = Request(o, m) => getESRParent(t, o) # None
  /\ \A t \in live, o \in Output :
       esrRoots[t][o] # None => \E j \in Present(t), m \in Maker : Program[j] = Request(o, m)
ValuedOK == \A t \in live : \A c \in ccs[t] : getValue(t, c) # None

MakersOK ==
  /\ \A t \in Trace, m \in Maker : /\ sps[t][m] # None => aux[t][m] # None
                                   /\ aux[t][m] # None => getMadeSP(t, m) # None
                                   /\ getMadeSP(t, m) = None => families[t][m] = [i \in Id |-> None]
  /\ \A t \in Particle, m \in Maker : m \in AAA => (m \in discarded[t] <=> sps[t][m] # None)
  /\ \A m \in Maker : aaa[m] # None =>
       m \in AAA /\ sps[Base][m] = None /\ \E j \in InTorus : Program[j] = Make(m)
  /\ \A m \in Maker : db.aux[m] # None =>
       sps[Base][m] = None /\ \E j \in InTorus : Program[j] = Make(m)

(* The statistics pointed to are there, and are those of the maker.  What  *)
(* the trace has and what was set aside is older than the move; a particle *)
(* points to its own, or those set aside, or restored them.                *)
PointsTo(a, m) == a \in DOMAIN heap /\ a[3] = m /\ (phase # "regen" => a[1] < round)
OldPointers ==
  /\ \A m \in Maker : /\ aux[Base][m] # None => PointsTo(aux[Base][m], m)
                      /\ aaa[m] # None => PointsTo(aaa[m], m)
                      /\ db.aux[m] # None => PointsTo(db.aux[m], m)
  /\ \A a \in DOMAIN heap : a[1] <= round /\ (phase = "detach" => a[1] < round)
  /\ Running(Base) => \A m \in Maker : NewAux(Base, m) \in DOMAIN heap => aux[Base][m] = NewAux(Base, m)
OwnPointers ==
  \A t \in Particle, m \in Maker :
    /\ aux[t][m] # None => aux[t][m] \in DOMAIN heap /\ aux[t][m][3] = m
    /\ phase = "propose" =>
         /\ aux[t][m] # None => \/ aux[t][m] = NewAux(t, m)
                                \/ m \in AAA /\ aux[t][m] = aaa[m]
                                \/ Restores(t) /\ aux[t][m] = db.aux[m]
         /\ NewAux(t, m) \in DOMAIN heap => aux[t][m] = NewAux(t, m)

(* What was detached stays as it was until the particle that restores      *)
(* takes it; that particle alone has it then.                              *)
Restoring == IF <<group, NumNew>> \in live THEN <<group, NumNew>> ELSE <<group - 1, NumNew>>
Taken(m) == m \notin AAA /\ Restoring \in live /\ sps[Restoring][m] # None
SetAside ==
  /\ \A m \in Maker : db.aux[m] = None <=> saved[m] = None
  /\ phase \in {"detach", "propose"} =>
       \A m \in Maker : db.aux[m] # None =>
         heap[db.aux[m]] = saved[m] \/ (phase = "propose" /\ Taken(m))
  /\ phase = "propose" =>
       \A t \in Particle, m \in Maker : m \notin AAA /\ db.aux[m] # None /\ aux[t][m] = db.aux[m] =>
         Taken(m) /\ \A u \in Particle : aux[u][m] = db.aux[m] => u = t

(* What the commit has done so far.                                        *)
CommitOK ==
  phase = "commit" =>
    LET p == committing
        done == ccs[p] \ toConstrain
    IN /\ toTag \subseteq tags[p] /\ toConstrain \subseteq ccs[p]
       /\ toTag # {} => done = {}
       /\ done \subseteq ccs[Base] /\ done \cap ucs[Base] = {}
       /\ ucs[p] \subseteq ucs[Base] \cup done
       /\ tags[p] \subseteq TagsIn(scopes) \cup toTag \cup {default(c) : c \in done}

Statics == PointerTypes /\ MakersOK /\ OldPointers /\ OwnPointers /\ SetAside
Consistent ==
  /\ RegisterTypes /\ NodeTypes /\ MakerTypes /\ DBTypes /\ MoveTypes
  /\ Stages /\ MadeOK /\ RequestedOK /\ ValuedOK /\ Statics /\ CommitOK
KInv == JInv /\ Consistent

-----------------------------------------------------------------------------
(* The trace that regenerates: the trace itself when there are no          *)
(* particles, or a particle of the group that is proposed.                 *)
Steady == MoveTypes /\ Stages /\ live \subseteq Particle

(* The statistics a step changes are there, and no other particle's.       *)
Sole(t, m) == t # Base /\ m \in AAA => \A j \in InTorus : Program[j] # Make(m)

(* Statistics are changed in an object that nobody else points to, except  *)
(* the one that was detached, in the particle that restores it.            *)
OthersPoint(a, t, m) ==
  /\ \A u \in Trace, n \in Maker : aux[u][n] = a => (u = t /\ n = m) \/ (t = Base /\ u # Base)
  /\ \A n \in Maker : aaa[n] # a
  /\ \A n \in Maker : db.aux[n] = a => n = m /\ t # Base /\ Taken(m) /\ aux[t][m] = a

-----------------------------------------------------------------------------
(* What Update does to the statistics: those of t and of what shows t.     *)
Shows(t, w) == w = t \/ (t # Base /\ w \in Trace)
UpdatedTo(t, m, s) ==
  \A w \in Trace : Shows(t, w) =>
    /\ (AllStatisticsOf(w))' = IF w = t THEN [AllStatisticsOf(w) EXCEPT ![m] = s] ELSE AllStatisticsOf(w)
    /\ (AAAOf(w))' = AAAOf(w)

(* The statistics s are written to the object a, which is t's own.         *)
Writes(t, m, s, a) ==
  /\ a # None /\ a[3] = m /\ a[1] <= round /\ OthersPoint(a, t, m)
  /\ t = Base => a = aux[Base][m] /\ a \in DOMAIN heap
  /\ t # Base => a = NewAux(t, m) \/ (Restores(t) /\ a = aux[t][m])
  /\ DOMAIN heap' = DOMAIN heap \cup {a} /\ heap'[a] = s
  /\ heap' \in [DOMAIN heap' -> Statistics]
  /\ \A b \in DOMAIN heap : b # a => heap'[b] = heap[b]
  /\ aux' \in [Trace -> [Maker -> Maybe(Pointer)]] /\ aux'[t][m] = a
  /\ \A u \in Trace, n \in Maker : u # t \/ n # m => aux'[u][n] = aux[u][n]

(* A procedure that is made finds the statistics it should, and nothing    *)
(* that is in use.                                                         *)
MadeStatistics(t, m) ==
  CASE Restores(t) /\ saved[m] # None                             -> saved[m]
    [] ~Restores(t) /\ StatisticsAt(getAAAMadeSPAux(t, m)) # None -> StatisticsAt(getAAAMadeSPAux(t, m))
    [] OTHER                                                      -> NoData

(* What processMadeSP does to the statistics: a is where they are then.    *)
Makes(t, m, sp, a) ==
  /\ a # None /\ a[3] = m /\ a[1] <= round /\ sp # None
  /\ aux[t][m] = None /\ getMadeSP(t, m) = None
  /\ DOMAIN heap' = DOMAIN heap \cup {a} /\ heap' \in [DOMAIN heap' -> Statistics]
  /\ \A b \in DOMAIN heap : heap'[b] = heap[b]
  /\ heap'[a] = MadeStatistics(t, m)
  /\ \/ a = NewAux(t, m) /\ a \notin DOMAIN heap
     \/ Restores(t) /\ a = db.aux[m] /\ a \in DOMAIN heap
     \/ ~Restores(t) /\ m \in AAA /\ a = aaa[m] /\ a \in DOMAIN heap
  /\ Restores(t) /\ a = db.aux[m] => ~Taken(m)
  /\ aux' \in [Trace -> [Maker -> Maybe(Pointer)]] /\ aux'[t][m] = a
  /\ \A u \in Trace, n \in Maker : u # t \/ n # m => aux'[u][n] = aux[u][n]

MadeShows(t, m) ==
  \A w \in Trace : Shows(t, w) =>
    /\ (AllStatisticsOf(w))' =
         IF w = t THEN [AllStatisticsOf(w) EXCEPT ![m] = MadeStatistics(t, m)] ELSE AllStatisticsOf(w)
    /\ (AAAOf(w))' = IF w = t THEN [AAAOf(w) EXCEPT ![m] = None] ELSE AAAOf(w)

-----------------------------------------------------------------------------
(* A copy of a particle has copies of the statistics.                      *)
CloneDoes(p, q) ==
  /\ phase = "propose" /\ UNCHANGED <<phase, round, group, db, saved, aaa>>
  /\ live' = live \cup {q} /\ q \notin live /\ q \in Generation(group)
  /\ p \in Generation(group - 1) /\ p \in live /\ p # q /\ (Restores(q) => Restores(p))
  /\ \A m \in Maker : aux[q][m] = None /\ NewAux(q, m) \notin DOMAIN heap /\ NewAux(q, m)[3] = m
  /\ \A m \in Maker : aux'[q][m] = IF aux[p][m] = None THEN None ELSE NewAux(q, m)
  /\ \A u \in Trace : u # q => /\ aux'[u] = aux[u] /\ sps'[u] = sps[u] /\ families'[u] = families[u]
                               /\ u \in Particle => discarded'[u] = discarded[u]
  /\ sps'[q] = sps[p] /\ families'[q] = families[p] /\ discarded'[q] = discarded[p]
  /\ DOMAIN heap' = DOMAIN heap \cup {NewAux(q, m) : m \in {n \in Maker : aux[p][n] # None}}
  /\ \A b \in DOMAIN heap : heap'[b] = heap[b]
  /\ \A m \in Maker : aux[p][m] # None =>
       NewAux(q, m) \in DOMAIN heap' /\ heap'[NewAux(q, m)] = heap[aux[p][m]] /\ aux[p][m] \in DOMAIN heap
  /\ \A u, m : NewAux(u, m)' = NewAux(u, m)
  /\ PointerTypes'

(* The particles of a generation that is complete keep what they have.     *)
AdvanceDoes(gone) ==
  /\ gone = live \ Generation(group) /\ gone \subseteq Particle /\ live' = live \ gone
  /\ phase = "propose" /\ UNCHANGED <<phase, round, db, saved, aaa>> /\ group' = group + 1
  /\ group \in 1 .. Len(Ends)
  /\ Generation(group) \subseteq live /\ <<group, NumNew>> \in Generation(group)
  /\ \A u \in Trace \ gone : aux'[u] = aux[u] /\ sps'[u] = sps[u] /\ families'[u] = families[u]
  /\ \A u \in Particle \ gone : discarded'[u] = discarded[u]
  /\ \A u \in gone : /\ aux'[u] = [m \in Maker |-> None] /\ sps'[u] = [m \in Maker |-> None]
                     /\ families'[u] = [m \in Maker |-> [i \in Id |-> None]] /\ discarded'[u] = {}
  /\ DOMAIN heap' \subseteq DOMAIN heap /\ \A b \in DOMAIN heap' : heap'[b] = heap[b]
  /\ \A u \in Trace \ gone, m \in Maker : aux[u][m] \in DOMAIN heap => aux[u][m] \in DOMAIN heap'
  /\ \A m \in Maker : /\ aaa[m] \in DOMAIN heap => aaa[m] \in DOMAIN heap'
                      /\ db.aux[m] \in DOMAIN heap => db.aux[m] \in DOMAIN heap'
  /\ \A b \in DOMAIN heap' : \/ \E u \in Trace \ gone, m \in Maker : b = aux[u][m]
                             \/ \E m \in Maker : b = aaa[m] \/ b = db.aux[m]
  /\ PointerTypes'

(* What is committed is all that is kept.                                  *)
CommitRestDoes(p) ==
  /\ p = committing /\ phase = "commit" /\ phase' = "regen" /\ live' = {} /\ group' = 0
  /\ UNCHANGED <<round, db, saved>> /\ db = NoDB /\ saved = [m \in Maker |-> None]
  /\ at'[Base] = Len(Program)
  /\ \A m \in Maker : aux'[Base][m] = getMadeSPAux(p, m) /\ sps'[Base][m] = getMadeSP(p, m)
  /\ families'[Base] = [m \in Maker |-> [i \in Id |-> getMadeSPFamilyRoot(p, m, i)]]
  /\ \A u \in Particle : /\ aux'[u] = [m \in Maker |-> None] /\ sps'[u] = [m \in Maker |-> None]
                         /\ families'[u] = [m \in Maker |-> [i \in Id |-> None]] /\ discarded'[u] = {}
  /\ \A m \in Maker : aaa'[m] = IF m \in discarded[p] THEN None ELSE aaa[m]
  /\ DOMAIN heap' \subseteq DOMAIN heap /\ \A b \in DOMAIN heap' : heap'[b] = heap[b]
  /\ \A m \in Maker : /\ aaa'[m] \in DOMAIN heap => aaa'[m] \in DOMAIN heap'
                      /\ aux'[Base][m] \in DOMAIN heap => aux'[Base][m] \in DOMAIN heap'
  /\ PointerTypes'

-----------------------------------------------------------------------------
(* A step of t leaves the others as they are.                              *)
Untouched(t) ==
  /\ \A u \in Trace : u # t =>
       /\ ucs'[u] = ucs[u] /\ ccs'[u] = ccs[u] /\ values'[u] = values[u] /\ esrRoots'[u] = esrRoots[u]
       /\ numRequests'[u] = numRequests[u] /\ children'[u] = children[u] /\ sps'[u] = sps[u]
       /\ families'[u] = families[u] /\ aux'[u] = aux[u]
  /\ \A u \in Particle : u # t => tags'[u] = tags[u] /\ discarded'[u] = discarded[u]

(* A step of the program is done.                                          *)
Advanced(t) ==
  /\ at'[t] = at[t] + 1 /\ \A u \in Trace : u # t => at'[u] = at[u]
  /\ at' \in [Trace -> Nat]
  /\ UNCHANGED <<phase, round, group, live, db, committing, toTag, toConstrain, saved>>

(* What a step of t adds to what is already there.                         *)
Added(t) ==
  /\ \A u \in Trace, m \in Maker : getMadeSP(u, m) # None => getMadeSP(u, m)' # None
  /\ \A m \in Maker : Program[at[t] + 1] = Make(m) => getMadeSP(t, m)' # None
  /\ \A u \in Trace, o \in Output : getESRParent(u, o) # None => getESRParent(u, o)' # None
  /\ \A o \in Output, m \in Maker : Program[at[t] + 1] = Request(o, m) => getESRParent(t, o)' # None
  /\ \A o \in Output : esrRoots'[t][o] # None =>
       esrRoots[t][o] # None \/ \E m \in Maker : Program[at[t] + 1] = Request(o, m)
  /\ \A u \in Trace, c \in Choice : getValue(u, c) # None => getValue(u, c)' # None
  /\ \A c \in ccs'[t] : c \in ccs[t] \/ getValue(t, c)' # None

(* A step of the detachment takes away what the last step of the program   *)
(* that stands did, and nothing another step did.                          *)
Retreated ==
  /\ phase = "detach" /\ at[Base] > First /\ at' = [at EXCEPT ![Base] = @ - 1]
  /\ UNCHANGED <<phase, round, group, live>>
  /\ \A m \in Maker : sps[Base][m] # None => sps'[Base][m] # None \/ Program[at[Base]] = Make(m)
  /\ \A o \in Output : esrRoots[Base][o] # None =>
       esrRoots'[Base][o] # None \/ \E m \in Maker : Program[at[Base]] = Request(o, m)

(* A request that is taken back had its family, and the last one takes the *)
(* family with it.                                                         *)
LastRequest(o, m, c, id) ==
  /\ numRequests[Base][c] = 1
  /\ db' = Detached([db.values EXCEPT ![c] = values[Base][c]], [db.requests EXCEPT ![o] = id], db.sps, db.aux)
  /\ families' = [families EXCEPT ![Base][m][id] = None]
  /\ Unapply(c)
  /\ UNCHANGED <<ccs, sps, aaa, discarded>>
SharedRequest(o, c, id) ==
  /\ numRequests[Base][c] > 1
  /\ db' = Detached(db.values, [db.requests EXCEPT ![o] = id], db.sps, db.aux)
  /\ UNCHANGED registerVars /\ UNCHANGED values /\ UNCHANGED spVars

-----------------------------------------------------------------------------
(* While trace t regenerates or detaches, what stands for what stays, and  *)
(* those that stand for t are the ones it acts on.                         *)
Watches(t) ==
  /\ t \in Trace
  /\ \A u \in Trace : /\ Seen(u) \in Trace /\ Seen(u)' = Seen(u) /\ Shows(t, Seen(u))
                      /\ u \in Private!Acts(t) <=> Seen(u) = t
  /\ Seen(t) = t

-----------------------------------------------------------------------------
(* What a trace comes to show is what it, or another, showed: as operators *)
(* of the state, and in the tables of what is seen.                        *)
Becomes(w, v) ==
  /\ (UcsOf(w))' = UcsOf(v) /\ (CcsOf(w))' = CcsOf(v)
  /\ (TagsOf(w))' = TagsOf(v) /\ (Overlaid(values, w))' = Overlaid(values, v)
  /\ (Overlaid(esrRoots, w))' = Overlaid(esrRoots, v)
  /\ (Overlaid(numRequests, w))' = Overlaid(numRequests, v)
  /\ (ChildrenOf(w))' = ChildrenOf(v) /\ (Overlaid(sps, w))' = Overlaid(sps, v)
  /\ (FamiliesOf(w))' = FamiliesOf(v) /\ (AllStatisticsOf(w))' = AllStatisticsOf(v)
  /\ (AAAOf(w))' = AAAOf(v)

Follows(u, x) ==
  /\ SeenUcs'[u] = SeenUcs[x] /\ SeenCcs'[u] = SeenCcs[x] /\ SeenTags'[u] = SeenTags[x]
  /\ SeenValues'[u] = SeenValues[x] /\ SeenRoots'[u] = SeenRoots[x] /\ SeenRequests'[u] = SeenRequests[x]
  /\ SeenChildren'[u] = SeenChildren[x] /\ SeenSPs'[u] = SeenSPs[x] /\ SeenFamilies'[u] = SeenFamilies[x]
  /\ SeenStats'[u] = SeenStats[x] /\ SeenAAA'[u] = SeenAAA[x]

(* The tables of w are those v had.                                        *)
Carried(w, v) ==
  /\ values'[w] = values[v] /\ esrRoots'[w] = esrRoots[v] /\ numRequests'[w] = numRequests[v]
  /\ children'[w] = children[v] /\ sps'[w] = sps[v] /\ families'[w] = families[v]
  /\ ucs'[w] = ucs[v] /\ ccs'[w] = ccs[v] /\ (w # Base => tags'[w] = tags[v])
  /\ values'[Base] = values[Base] /\ esrRoots'[Base] = esrRoots[Base]
  /\ numRequests'[Base] = numRequests[Base]
  /\ children'[Base] = children[Base] /\ sps'[Base] = sps[Base] /\ families'[Base] = families[Base]
  /\ ucs'[Base] = ucs[Base] /\ ccs'[Base] = ccs[Base] /\ scopes' = scopes

(* A particle without a record is the trace.                               *)
Alike(w, v) ==
  /\ UcsOf(w) = UcsOf(v) /\ CcsOf(w) = CcsOf(v) /\ TagsOf(w) = TagsOf(v)
  /\ Overlaid(values, w) = Overlaid(values, v) /\ Overlaid(esrRoots, w) = Overlaid(esrRoots, v)
  /\ Overlaid(numRequests, w) = Overlaid(numRequests, v) /\ ChildrenOf(w) = ChildrenOf(v)
  /\ Overlaid(sps, w) = Overlaid(sps, v) /\ FamiliesOf(w) = FamiliesOf(v)
  /\ AllStatisticsOf(w) = AllStatisticsOf(v) /\ AAAOf(w) = AAAOf(v)
=============================================================================
