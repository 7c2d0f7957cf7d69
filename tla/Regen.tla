------------------------------- MODULE Regen -------------------------------
(***************************************************************************)
(* Regeneration (backend/lite/regen.py): values flow from parents to       *)
(* children, the families that requests ask for come into being, and every *)
(* choice registers itself.  The same code simulates a new state and, when *)
(* todo says so, restores the old one from an OmegaDB.                     *)
(***************************************************************************)
EXTENDS Drg

(* A pending call: its node and, in r, shouldRestore.  exp and env are     *)
(* evalFamily's arguments; i is a loop's index, and m the choice that an   *)
(* observation constrains.                                                 *)
Call(t, n, r)     == [t |-> t, n |-> n, r |-> r, i |-> 1, m |-> NoNode,
                      exp |-> Con(None), env |-> NoEnv]
Eval(exp, env, r) == [Call("evalFamily", NoNode, r) EXCEPT !.exp = exp, !.env = env]
Calls(t, ns, r)   == [i \in 1..Len(ns) |-> Call(t, ns[i], r)]

Top      == Head(todo)
Running(t) == err = "" /\ todo # <<>> /\ Top.t = t
(* The running call returns, after making the calls cs in order; a loop    *)
(* makes the calls cs and then goes round again.                           *)
ReturnAfter(cs) == todo' = cs \o Tail(todo)
Return          == todo' = Tail(todo)
LoopAfter(cs)   == todo' = Append(cs, [Top EXCEPT !.i = @ + 1]) \o Tail(todo)

Raise(e) == /\ err' = e
            /\ todo' = <<>>
            /\ results' = <<>>
            /\ UNCHANGED <<traceVars, envVars, scaffold, dbVars, weight>>

isResampling(n) == n \in scaffold.drg
regenCount(n)   == scaffold.regenCounts[n]
isAAA(n)        == n \in scaffold.aaa
hasLKernel(n)   == isAAA(n) \/ scaffold.lkernel[n] # None

(* maybeRegenStaleAAA / maybeExtractStaleAAA: n refers to a procedure      *)
(* whose maker is collapsed in this scaffold.                              *)
refersToAAA(n)  == value[n].t = "spref" /\ value[n].maker # n /\ isAAA(value[n].maker)

(* A term of the weight: the density of v at n, given the operands and the *)
(* statistics it was computed from.                                        *)
Term(n, v, aux) == [n |-> n, v |-> v, args |-> operandValues(n), aux |-> aux]
GroundValue(n)  == IF value[n].t = "spref"
                     THEN Record(madeSP[value[n].maker], ZeroAux) ELSE value[n]

(* psp.incorporate and unincorporate of v at node n, by the auxiliary      *)
(* statistics of the procedure applied.                                    *)
Counted(n)             == isOutputNode(n) /\ spAt(n).k \in CountingKinds
incorporate(aux, n, v)   == IF Counted(n) THEN [aux EXCEPT ![makerOf(n)][v.v] = @ + 1] ELSE aux

unincorporate(aux, n, v) == IF Counted(n) THEN [aux EXCEPT ![makerOf(n)][v.v] = @ - 1] ELSE aux

(* maybeRegisterRandomChoiceInScope and its reverse, for tags.             *)
ScopeEntry(n) == <<value[operandNodes(n)[1]], value[operandNodes(n)[2]], operandNodes(n)[3]>>

registerInScope(n) == IF isTag(n) THEN scopes \cup {ScopeEntry(n)} ELSE scopes

(* Mutation: a tag whose block changes stays in the old one as well.       *)
unregisterInScope_kept(n) == scopes
unregisterInScope(n) == IF isTag(n) THEN scopes \ {ScopeEntry(n)} ELSE scopes

Ready(n) == /\ isApplicable(n)
            /\ \A i \in DOMAIN operandNodes(n) : value[operandNodes(n)[i]] # None

-----------------------------------------------------------------------------
(* attach: bring the parents back, then absorb at the node.                *)
regenParents(n, r) == Calls("regen", definiteParents(n), r) \o <<Call("regenESRParents", n, r)>>

Attach ==
  /\ Running("attach")
  /\ ReturnAfter(regenParents(Top.n, Top.r) \o <<Call("absorb", Top.n, Top.r)>>)
  /\ UNCHANGED <<traceVars, envVars, results, err, scaffold, dbVars, weight>>

RegenESRParents ==
  /\ Running("regenESRParents")
  /\ ReturnAfter(Calls("regen", esrParentsAt(Top.n), Top.r))
  /\ UNCHANGED <<traceVars, envVars, results, err, scaffold, dbVars, weight>>

Absorb ==
  /\ Running("absorb")
  /\ LET n == Top.n IN
     IF ~Ready(n) \/ value[n] = None THEN Raise("absorb: detached operand")
     ELSE IF isTag(n) /\ ScopeEntry(n) \in scopes
            THEN Raise("assert node not in self.scopes[scope][block]")
     ELSE /\ weight' = Append(weight, Term(n, GroundValue(n), spAux[makerOf(n)]))
          /\ spAux'  = incorporate(spAux, n, value[n])
          /\ scopes' = registerInScope(n)
          /\ Return
          /\ UNCHANGED <<graphVars, value, esrVars, madeSP, aaaAux, rcs, ccs, envVars,
                         results, err, scaffold, dbVars>>

(* regen: a node outside the scaffold has its value already; a resampling  *)
(* one is computed on the first visit and only counted on the others.      *)
Regen ==
  /\ Running("regen")
  /\ LET n == Top.n
         first == isResampling(n) /\ regenCount(n) = 0
         compute == IF isLookupNode(n) THEN <<Call("propagateLookup", n, Top.r)>>
                    ELSE IF isRequestNode(n)
                           THEN <<Call("applyPSP", n, Top.r), Call("evalRequests", n, Top.r)>>
                           ELSE <<Call("applyPSP", n, Top.r)>>
     IN ReturnAfter((IF first THEN regenParents(n, Top.r) \o compute ELSE <<>>)
                    \o <<Call("regenned", n, Top.r)>>)
  /\ UNCHANGED <<traceVars, envVars, results, err, scaffold, dbVars, weight>>

(* The end of regen: incRegenCountAt, then maybeRegenStaleAAA.             *)
Regenned ==
  /\ Running("regenned")
  /\ scaffold' = IF isResampling(Top.n)
                   THEN [scaffold EXCEPT !.regenCounts[Top.n] = @ + 1] ELSE scaffold
  /\ ReturnAfter(IF refersToAAA(Top.n) THEN <<Call("regen", value[Top.n].maker, Top.r)>> ELSE <<>>)
  /\ UNCHANGED <<traceVars, envVars, results, err, dbVars, weight>>

PropagateLookup ==
  /\ Running("propagateLookup")
  /\ value' = [value EXCEPT ![Top.n] = value[sourceNode(Top.n)]]
  /\ Return
  /\ UNCHANGED <<graphVars, esrVars, spVars, choiceVars, envVars, results, err, scaffold,
                 dbVars, weight>>

-----------------------------------------------------------------------------
(* evalFamily: parents before children, the operator first.                *)
Blank(n)      == node[n].c = "blank"
FirstBlank(n) == Blank(n) /\ \A m \in 1..(n - 1) : ~Blank(m)

(* A symbol: its node has to be up to date before a lookup of it exists.   *)
(* Mutation: it is taken to be.                                            *)
evalLookup_stale(source, r) == <<Call("createLookupNode", source, r)>>
evalLookup(source, r) == <<Call("regen", source, r), Call("createLookupNode", source, r)>>

EvalFamily ==
  /\ Running("evalFamily")
  /\ LET x == Top.exp
         source == findSymbol(Top.env, x.s)
     IN \/ /\ x.e = "var"
           /\ IF source = NoNode THEN Raise("Cannot find symbol")
              ELSE /\ ReturnAfter(evalLookup(source, Top.r))
                   /\ UNCHANGED <<traceVars, envVars, results, err, scaffold, dbVars, weight>>
        \/ /\ x.e = "builtin"
           /\ \E n \in Builtins : n = x.n /\ results' = Append(results, n)
           /\ Return
           /\ UNCHANGED <<traceVars, envVars, err, scaffold, dbVars, weight>>
        \/ /\ x.e = "con"
           /\ \E n \in Node :
                /\ FirstBlank(n)
                /\ node'    = [node EXCEPT ![n] = ConstantNode]
                /\ live'    = live \cup {n}
                /\ value'   = [value EXCEPT ![n] = x.v]
                /\ results' = Append(results, n)
           /\ Return
           /\ UNCHANGED <<children, esrVars, spVars, choiceVars, envVars, err, scaffold, dbVars, weight>>
        \/ /\ x.e = "app"
           /\ IF Top.i <= Len(x.exps)
                THEN LoopAfter(<<Eval(x.exps[Top.i], Top.env, Top.r)>>)
                ELSE ReturnAfter(<<[Top EXCEPT !.t = "createApplicationNodes"]>>)
           /\ UNCHANGED <<traceVars, envVars, results, err, scaffold, dbVars, weight>>

CreateLookupNode ==
  /\ Running("createLookupNode")
  /\ \E n \in Node :
       /\ FirstBlank(n)
       /\ node'     = [node EXCEPT ![n] = LookupNode(Top.n)]
       /\ live'     = live \cup {n}
       /\ value'    = [value EXCEPT ![n] = value[Top.n]]
       /\ children' = [children EXCEPT ![Top.n] = Add(@, n)]
       /\ results'  = Append(results, n)
  /\ Return
  /\ UNCHANGED <<esrVars, spVars, choiceVars, envVars, err, scaffold, dbVars, weight>>

(* createApplicationNodes, then apply, which asserts that the requests     *)
(* have brought the output node its parents.                               *)
apply(req, out, r) == <<Call("applyPSP", req, r), Call("evalRequests", req, r),
                        Call("checkRequests", out, r), Call("applyPSP", out, r)>>

CheckRequests ==
  /\ Running("checkRequests")
  /\ IF Len(esrParentsAt(Top.n)) # Len(value[requestNode(Top.n)].esrs)
       THEN Raise("assert len(esrParents) == len(esrs)")
     ELSE /\ ReturnAfter(<<Call("regenESRParents", Top.n, Top.r)>>)
          /\ UNCHANGED <<traceVars, envVars, results, err, scaffold, dbVars, weight>>

FreePair(n) == n + 1 \in Node /\ Blank(n) /\ Blank(n + 1)

CreateApplicationNodes ==
  /\ Running("createApplicationNodes")
  /\ \E first \in 1..Len(results), req \in Node :
       LET subs == SubSeq(results, first, Len(results))
           op   == Head(subs)
           args == Tail(subs)
       IN /\ Len(subs) = Len(Top.exp.exps)
          /\ FreePair(req) /\ \A m \in 1..(req - 1) : ~FreePair(m)
          /\ LET out == outputNode(req) IN
             /\ node'     = [node EXCEPT ![req] = RequestNode(op, args, Top.env),
                                         ![out] = OutputNode(op, args, Top.env)]
             /\ live'     = live \cup {req, out}
             /\ children' = [p \in Node |->
                               IF p \in Range(subs) \ Builtins THEN children[p] \o <<req, out>>
                               ELSE IF p = req THEN <<out>> ELSE children[p]]
             /\ results'  = Append(SubSeq(results, 1, first - 1), out)
             /\ ReturnAfter(apply(req, out, Top.r))
  /\ UNCHANGED <<value, esrVars, spVars, choiceVars, envVars, err, scaffold, dbVars, weight>>

-----------------------------------------------------------------------------
(* applyPSP: choose the value (from the OmegaDB, a kernel or the PSP), set *)
(* it, incorporate it, and make and register what it brings into being.    *)
(* Mutation: a restore simulates again, as a proposal does.                *)
NewValues_resimulated(n, r) == simulate(n)

(* A record shares its statistics with those that detach keeps aside, and  *)
(* so with the record that an AAA kernel makes of them: it is restored     *)
(* with what has become of them.                                           *)
NewValues(n, r) ==
  CASE r /\ isAAA(n) -> {[rhoDB.values[n] EXCEPT !.aux = aaaAux[n]]}
    [] r /\ ~isAAA(n) -> {rhoDB.values[n]}
    [] ~r /\ scaffold.lkernel[n] # None -> {scaffold.lkernel[n]}
    [] ~r /\ isAAA(n) -> {[v EXCEPT !.aux = aaaAux[n]] : v \in simulate(n)}
    [] OTHER -> simulate(n)

(* Mutation: an AAA maker is scored without the statistics kept aside.     *)
KernelTerm_fresh(n, v) == IF isAAA(n) THEN <<Term(n, Record(v.sp, ZeroAux), ZeroAux)>>
                          ELSE IF scaffold.lkernel[n] # None THEN <<Term(n, v, spAux[makerOf(n)])>>
                          ELSE <<>>
KernelTerm(n, v) == IF isAAA(n) THEN <<Term(n, Record(v.sp, ZeroAux), aaaAux[n])>>
                    ELSE IF scaffold.lkernel[n] # None THEN <<Term(n, v, spAux[makerOf(n)])>>
                    ELSE <<>>

ApplyPSP ==
  /\ Running("applyPSP")
  /\ LET n == Top.n
         made(v) == v.t = "sprecord"
     IN IF ~Ready(n) THEN Raise("applyPSP: detached operand")
        ELSE IF isESRRef(n) /\ Len(esrParents[n]) # 1 THEN Raise("assert len(args.esrNodes()) == 1")
        ELSE IF Top.r /\ rhoDB.values[n] = None THEN Raise("restore: no value in the OmegaDB")
        ELSE IF isRandom(n) /\ n \in rcs THEN Raise("assert node not in self.rcs")
        ELSE IF isTag(n) /\ ScopeEntry(n) \in scopes THEN Raise("assert node not in self.scopes[scope][block]")
        ELSE \E v \in NewValues(n, Top.r) :
               /\ value'  = [value EXCEPT ![n] = IF made(v) THEN Ref(n) ELSE v]
               /\ weight' = weight \o KernelTerm(n, v)
               /\ madeSP' = IF made(v) THEN [madeSP EXCEPT ![n] = v.sp] ELSE madeSP
               /\ spAux'  = IF made(v) THEN [spAux EXCEPT ![n] = v.aux] ELSE incorporate(spAux, n, v)
               /\ aaaAux' = IF made(v) /\ isAAA(n) THEN [aaaAux EXCEPT ![n] = ZeroAux] ELSE aaaAux
               /\ rcs'    = IF isRandom(n) THEN rcs \cup {n} ELSE rcs
               /\ scopes' = registerInScope(n)
               /\ Return
               /\ UNCHANGED <<graphVars, esrVars, ccs, envVars, results, err, scaffold, dbVars>>
-----------------------------------------------------------------------------
(* evalRequests.  The request PSPs modelled (csp, msp) ask for at most one *)
(* exposed simulation.                                                     *)

(* Mutation: a second request for a family is not counted.                 *)
addESREdge_uncounted(root, out) ==
  /\ numRequests' = [numRequests EXCEPT ![root] = 1]
  /\ children'    = [children EXCEPT ![root] = Add(@, out)]
  /\ esrParents'  = [esrParents EXCEPT ![out] = Append(@, root)]

(* Mutation: the family does not learn of its new child.                   *)
addESREdge_oneWay(root, out) ==
  /\ numRequests' = [numRequests EXCEPT ![root] = @ + 1]
  /\ esrParents'  = [esrParents EXCEPT ![out] = Append(@, root)]
  /\ UNCHANGED children
addESREdge(root, out) ==
  /\ numRequests' = [numRequests EXCEPT ![root] = @ + 1]
  /\ children'    = [children EXCEPT ![root] = Add(@, out)]
  /\ esrParents'  = [esrParents EXCEPT ![out] = Append(@, root)]

Family(maker, id) == {f \in spFamilies : f.maker = maker /\ f.id = id}
Stored(maker, id) == {f \in rhoDB.families : f.maker = maker /\ f.id = id}

EvalRequests ==
  /\ Running("evalRequests")
  /\ LET n == Top.n
         esrs == value[n].esrs
         esr == Head(esrs)
     IN IF esrs = <<>>
          THEN /\ Return
               /\ UNCHANGED <<traceVars, envVars, results, err, scaffold, dbVars, weight>>
        ELSE IF Family(makerOf(n), esr.id) # {}
          THEN /\ \E f \in Family(makerOf(n), esr.id) : addESREdge(f.root, outputNode(n))
               /\ Return
               /\ UNCHANGED <<node, live, value, spFamilies, spVars, choiceVars, envVars,
                              results, err, scaffold, dbVars, weight>>
        ELSE IF Top.r /\ Stored(makerOf(n), esr.id) # {}
          THEN \E f \in Stored(makerOf(n), esr.id) :
                 /\ ReturnAfter(<<Call("restore", f.root, Top.r), Call("registerFamily", n, Top.r)>>)
                 /\ results' = Append(results, f.root)
                 /\ UNCHANGED <<traceVars, envVars, err, scaffold, dbVars, weight>>
        ELSE /\ ReturnAfter(<<Eval(esr.exp, esr.env, Top.r), Call("registerFamily", n, Top.r)>>)
             /\ UNCHANGED <<traceVars, envVars, results, err, scaffold, dbVars, weight>>

(* The rest of evalRequests once the family exists.                        *)
RegisterFamily ==
  /\ Running("registerFamily") /\ results # <<>>
  /\ LET n == Top.n
         id == Head(value[n].esrs).id
         root == Last(results)
     IN IF Family(makerOf(n), id) # {} THEN Raise("Recursive mem argument loop detected.")
        ELSE /\ spFamilies' = spFamilies \cup {[maker |-> makerOf(n), id |-> id, root |-> root]}
             /\ addESREdge(root, outputNode(n))
             /\ results' = Front(results)
             /\ Return
             /\ UNCHANGED <<node, live, value, spVars, choiceVars, envVars, err, scaffold,
                            dbVars, weight>>

(* The nodes evaluating n created; builtins are never created or removed.  *)
NodesOf(n) == IF isOutputNode(n) THEN {n, requestNode(n)} ELSE {n} \ Builtins

(* restore: put a detached family back, parents first.                     *)
Restore ==
  /\ Running("restore")
  /\ LET n == Top.n IN
     /\ ReturnAfter(
          CASE isLookupNode(n) -> regenParents(n, TRUE) \o <<Call("reconnectLookup", n, TRUE)>>
            [] isOutputNode(n) -> Calls("restore", <<operatorNode(n)>> \o operandNodes(n), TRUE)
                                  \o apply(requestNode(n), n, TRUE)
            [] OTHER           -> <<>>)
     /\ live' = live \cup NodesOf(n)
  /\ UNCHANGED <<node, children, value, esrVars, spVars, choiceVars, envVars, results, err,
                 scaffold, dbVars, weight>>

ReconnectLookup ==
  /\ Running("reconnectLookup")
  /\ children' = [children EXCEPT ![sourceNode(Top.n)] = Add(@, Top.n)]
  /\ value'    = [value EXCEPT ![Top.n] = value[sourceNode(Top.n)]]
  /\ Return
  /\ UNCHANGED <<node, live, esrVars, spVars, choiceVars, envVars, results, err,
                 scaffold, dbVars, weight>>

-----------------------------------------------------------------------------
(* Observations.  The node whose value an observation fixes is found by    *)
(* following references (getOutermostNonReferenceNode); a chain is no      *)
(* longer than the trace.                                                  *)
Outermost[n \in Node, fuel \in Nat] ==
  IF fuel = 0 THEN n
  ELSE IF isLookupNode(n) THEN Outermost[sourceNode(n), fuel - 1]
  ELSE IF isESRRef(n) THEN Outermost[esrParents[n][1], fuel - 1]
  ELSE IF isTag(n) THEN Outermost[operandNodes(n)[3], fuel - 1]
  ELSE n
getConstrainableNode(n) == Outermost[n, MaxNodes]
isConstrainable(n)      == isOutputNode(n) /\ isApplicable(n) /\ isRandom(n)

(* constrain: replace the value by the observed one, score it, and move    *)
(* the choice from rcs to ccs.                                             *)
(* Mutation: the constrained choice keeps the value it was regenerated with. *)
constrain_keepsValue(app, v) ==
  LET aux == unincorporate(spAux, app, value[app]) IN
  /\ weight' = Append(weight, Term(app, v, aux[makerOf(app)]))
  /\ spAux'  = incorporate(aux, app, v)
  /\ ccs'    = ccs \cup {app}
  /\ rcs'    = rcs \ {app}
  /\ UNCHANGED <<graphVars, value, esrVars, madeSP, aaaAux, scopes>>

constrain(app, v) ==
  LET aux == unincorporate(spAux, app, value[app]) IN
  /\ weight' = Append(weight, Term(app, v, aux[makerOf(app)]))
  /\ value'  = [value EXCEPT ![app] = v]
  /\ spAux'  = incorporate(aux, app, v)
  /\ ccs'    = ccs \cup {app}
  /\ rcs'    = rcs \ {app}
  /\ UNCHANGED <<graphVars, esrVars, madeSP, aaaAux, scopes>>

ConstrainAt(app, v) ==
  IF ~isConstrainable(app) THEN Raise("Cannot constrain a deterministic value.")
  ELSE IF app \in ccs THEN Raise("Cannot constrain the same random choice twice.")
  ELSE IF app \notin rcs THEN Raise("assert node in self.rcs")
  ELSE /\ constrain(app, v)
       /\ Return
       /\ UNCHANGED <<envVars, results, err, scaffold, dbVars>>

(* During regeneration the choice is looked up afresh; makeConsistent      *)
(* constrains the choice it found before it forced its value.              *)
GetAndConstrain ==
  /\ Running("getAndConstrain")
  /\ ConstrainAt(getConstrainableNode(Top.n), observed[Top.n])

Constrain ==
  /\ Running("constrain")
  /\ ConstrainAt(Top.m, observed[Top.n])

(* propagateConstraints runs once the border has been regenerated, over    *)
(* the children of each choice it constrained; propagateConstraint hands   *)
(* the observed value on to every lookup below it.                         *)

(* Mutation: nothing is handed on.                                         *)
ConstrainedBy_never(n) == FALSE
ConstrainedBy(n) == n \notin scaffold.absorbing /\ observed[n] # None

PropagateConstraints ==
  /\ Running("propagateConstraints")
  /\ IF Top.i > Len(scaffold.border) THEN Return
     ELSE LET n == scaffold.border[Top.i] IN
          LoopAfter(IF ConstrainedBy(n)
                      THEN <<[Call("propagateToChildren", getConstrainableNode(n), FALSE)
                                EXCEPT !.exp = Con(observed[n])]>>
                      ELSE <<>>)
  /\ UNCHANGED <<traceVars, envVars, results, err, scaffold, dbVars, weight>>

PropagateToChildren ==
  /\ Running("propagateToChildren")
  /\ IF Top.i > Len(children[Top.n]) THEN Return
     ELSE LoopAfter(<<[Top EXCEPT !.t = "propagateConstraint", !.n = children[Top.n][Top.i], !.i = 1]>>)
  /\ UNCHANGED <<traceVars, envVars, results, err, scaffold, dbVars, weight>>

PropagateConstraint ==
  /\ Running("propagateConstraint")
  /\ LET n == Top.n
     IN IF isRequestNode(n) /\ ~isNullRequest(n) THEN Raise("Cannot make requests downstream")
        ELSE IF isRandom(n) THEN Raise("Cannot make random choices downstream")
        ELSE /\ \E v \in (IF isLookupNode(n) THEN {Top.exp.v}
                           ELSE IF isRequestNode(n) THEN {value[n]} ELSE simulate(n)) :
                  value' = [value EXCEPT ![n] = v]
             /\ ReturnAfter(<<[Top EXCEPT !.t = "propagateToChildren"]>>)
             /\ UNCHANGED <<graphVars, esrVars, spVars, choiceVars, envVars, results, err, scaffold,
                            dbVars, weight>>

RegenStep ==
  \/ Attach \/ RegenESRParents \/ Absorb \/ Regen \/ Regenned \/ PropagateLookup
  \/ EvalFamily \/ CreateLookupNode \/ CreateApplicationNodes \/ CheckRequests \/ ApplyPSP
  \/ EvalRequests \/ RegisterFamily \/ Restore \/ ReconnectLookup
  \/ GetAndConstrain \/ Constrain \/ PropagateConstraints
  \/ PropagateToChildren \/ PropagateConstraint
=============================================================================
