----------------------------- MODULE LiteTrace -----------------------------
(***************************************************************************)
(* A Lite trace and the operations the engine runs on it: evaluating,      *)
(* forgetting and freezing directives, incorporating observations          *)
(* (Trace.makeConsistent), and resimulation Metropolis-Hastings            *)
(* (infer/mh.py: InPlaceOperator, MHOperator).  The last two detach a      *)
(* scaffold and regenerate it.                                             *)
(***************************************************************************)
EXTENDS Scaffold

CONSTANT Directives  \* the program, run in order, inference in between

VARIABLES
  pc,           \* directives executed so far
  unpropagated, \* Trace.unpropagatedObservations: roots and values, in order
  saved,        \* ghost: the trace when the current move began
  rhoWeight,    \* the weight of the move's detach
  verdict       \* how the last move ended

moveVars == <<pc, unpropagated, saved, rhoWeight, verdict>>
vars == <<traceVars, envVars, todo, results, err, scaffold, dbVars, weight, moveVars>>

Directive(d, x)  == [d |-> d, sym |-> "", exp |-> x, val |-> None, of |-> 0]
Assume(s, x)     == [Directive("assume", x) EXCEPT !.sym = s]
Predict(x)       == Directive("predict", x)
Observe(x, v)    == [Directive("observe", x) EXCEPT !.val = v]
Forget(i)        == [Directive("forget", Con(None)) EXCEPT !.of = i]
Freeze(i)        == [Directive("freeze", Con(None)) EXCEPT !.of = i]

Init ==
  /\ node   = [n \in Node |-> IF n \in Builtins THEN ConstantNode ELSE BlankNode]
  /\ value  = [n \in Node |-> IF n \in Builtins THEN Ref(n) ELSE None]
  /\ madeSP = [n \in Node |-> IF n \in Builtins THEN SP(Prelude[n]) ELSE NoSP]
  /\ live = {}
  /\ children    = [n \in Node |-> <<>>]
  /\ esrParents  = [n \in Node |-> <<>>]
  /\ numRequests = [n \in Node |-> 0]
  /\ spFamilies  = {}
  /\ spAux  = [n \in Node |-> ZeroAux]
  /\ aaaAux = [n \in Node |-> ZeroAux]
  /\ rcs = {} /\ ccs = {} /\ scopes = {}
  /\ observed  = [n \in Node |-> None]
  /\ globalEnv = NoEnv
  /\ families  = [i \in DOMAIN Directives |-> NoNode]
  /\ todo = <<>> /\ results = <<>> /\ err = ""
  /\ scaffold = EmptyScaffold
  /\ omega = EmptyDB /\ rhoDB = EmptyDB /\ weight = <<>>
  /\ pc = 0 /\ unpropagated = <<>> /\ saved = <<>> /\ rhoWeight = <<>> /\ verdict = ""

Idle    == todo = <<>> /\ err = ""
Step(t) == Call(t, NoNode, FALSE)
At(t, n, v) == [Call(t, n, FALSE) EXCEPT !.exp = Con(v)]

(* The end of every operation: its scaffold and its databases go, and      *)
(* Python's collector takes the nodes nothing refers to any more.          *)
Collect ==
  /\ Running("collect")
  /\ LET dead == {n \in Node \ Builtins : n \notin live}
         Reset(f, x) == [n \in Node |-> IF n \in dead THEN x ELSE f[n]]
     IN /\ node'     = Reset(node, BlankNode)
        /\ children' = Reset(children, <<>>)
        /\ value'    = Reset(value, None)
        /\ madeSP'   = Reset(madeSP, NoSP)
        /\ spAux'    = Reset(spAux, ZeroAux)
        /\ aaaAux'   = Reset(aaaAux, ZeroAux)
  /\ scaffold' = EmptyScaffold /\ omega' = EmptyDB /\ rhoDB' = EmptyDB
  /\ Return
  /\ UNCHANGED <<live, esrVars, choiceVars, envVars, results, err, weight, moveVars>>

-----------------------------------------------------------------------------
(* Directives (engine/trace.py over Trace.eval, bindInGlobalEnv, observe,  *)
(* unobserve, uneval, unbindInGlobalEnv and freeze).                       *)
Begin == /\ saved' = <<>> /\ rhoWeight' = <<>> /\ verdict' = "" /\ weight' = <<>>

NextDirective == Directives[pc + 1]

forgetting(i) ==
  (IF Directives[i].d = "observe" THEN <<Call("unobserve", families[i], FALSE)>> ELSE <<>>)
  \o <<Call("unevalFamily", families[i], FALSE), Step("forget"), Step("collect")>>

Execute ==
  /\ Idle /\ pc < Len(Directives)
  /\ todo' = CASE NextDirective.d = "forget" -> forgetting(NextDirective.of)
                [] NextDirective.d = "freeze" ->
                     <<Call("freeze", families[NextDirective.of], FALSE), Step("collect")>>
                [] OTHER -> <<Eval(NextDirective.exp, NoEnv, FALSE), Step("define")>>
  /\ pc' = pc + 1
  /\ Begin
  /\ UNCHANGED <<traceVars, envVars, results, err, scaffold, dbVars, unpropagated>>

Define ==
  /\ Running("define") /\ results # <<>>
  /\ LET d == Directives[pc]
         root == Last(results)
     IN /\ families' = [families EXCEPT ![pc] = root]
        /\ globalEnv' = IF d.d = "assume" THEN [globalEnv EXCEPT ![d.sym] = root] ELSE globalEnv
        /\ unpropagated' = IF d.d = "observe"
                             THEN Append(unpropagated, [root |-> root, val |-> d.val])
                             ELSE unpropagated
  /\ results' = Front(results)
  /\ Return
  /\ UNCHANGED <<traceVars, observed, err, scaffold, dbVars, weight, pc, saved, rhoWeight, verdict>>

Unobserve ==
  /\ Running("unobserve")
  /\ LET n == Top.n IN
     IF ~isConstrainable(getConstrainableNode(n))
       THEN Raise("Cannot constrain a deterministic value.") /\ UNCHANGED moveVars
     ELSE /\ unpropagated' = SelectSeq(unpropagated, LAMBDA u : u.root # n)
          /\ ReturnAfter(IF observed[n] # None
                           THEN <<Call("unconstrain", n, FALSE), At("mark", n, None)>> ELSE <<>>)
          /\ UNCHANGED <<traceVars, envVars, results, err, scaffold, dbVars, weight,
                         pc, saved, rhoWeight, verdict>>

ForgetFamily ==
  /\ Running("forget")
  /\ LET i == Directives[pc].of IN
     /\ families'  = [families EXCEPT ![i] = NoNode]
     /\ globalEnv' = IF Directives[i].d = "assume"
                       THEN [globalEnv EXCEPT ![Directives[i].sym] = NoNode] ELSE globalEnv
  /\ Return
  /\ UNCHANGED <<traceVars, observed, results, err, scaffold, dbVars, weight, moveVars>>

FreezeFamily ==
  /\ Running("freeze")
  /\ LET n == Top.n IN
     IF ~(isConstantNode(n) \/ isOutputNode(n)) THEN Raise("assert isOutputNode(node)")
     ELSE /\ ReturnAfter(IF isConstantNode(n) THEN <<>>
                         ELSE <<Call("unevalFamily", n, FALSE), At("frozen", n, value[n])>>)
          /\ UNCHANGED <<traceVars, envVars, results, err, scaffold, dbVars, weight>>
  /\ UNCHANGED moveVars

(* A frozen output node keeps its value and its children, and is constant. *)
Frozen ==
  /\ Running("frozen")
  /\ node'  = [node EXCEPT ![Top.n] = ConstantNode]
  /\ live'  = live \cup {Top.n}
  /\ value' = [value EXCEPT ![Top.n] = Top.exp.v]
  /\ Return
  /\ UNCHANGED <<children, esrVars, spVars, choiceVars, envVars, results, err, scaffold, dbVars,
                 weight, moveVars>>

-----------------------------------------------------------------------------
(* detachAndExtract and regenAndAttach, with their assertions.             *)
DetachAndExtract ==
  /\ Running("detachAndExtract")
  /\ IF \E n \in scaffold.drg : value[n] = None THEN Raise("assertTrace")
     ELSE /\ ReturnAfter(<<Step("detachBorder"), Step("detached")>>)
          /\ omega' = EmptyDB
          /\ weight' = <<>>
          /\ UNCHANGED <<traceVars, envVars, results, err, scaffold, rhoDB>>
  /\ UNCHANGED moveVars

DetachBorder ==
  /\ Running("detachBorder")
  /\ IF Top.i > Len(scaffold.border) THEN Return
     ELSE LET n == scaffold.border[Len(scaffold.border) - Top.i + 1] IN
          LoopAfter(IF n \in scaffold.absorbing THEN <<Call("detach", n, FALSE)>>
                    ELSE (IF observed[n] # None THEN <<Call("unconstrain", n, FALSE)>> ELSE <<>>)
                         \o <<Call("extract", n, FALSE)>>)
  /\ UNCHANGED <<traceVars, envVars, results, err, scaffold, dbVars, weight, moveVars>>

Detached ==
  /\ Running("detached")
  /\ IF \E n \in scaffold.drg : regenCount(n) # 0 THEN Raise("assertTorus") ELSE
       /\ Return
       /\ UNCHANGED <<traceVars, envVars, results, err, scaffold, dbVars, weight>>
  /\ UNCHANGED moveVars

RegenAndAttach ==
  /\ Running("regenAndAttach")
  /\ ReturnAfter(<<Call("regenBorder", NoNode, Top.r), Step("propagateConstraints"), Step("regenerated")>>)
  /\ weight' = <<>>
  /\ UNCHANGED <<traceVars, envVars, results, err, scaffold, dbVars, moveVars>>

RegenBorder ==
  /\ Running("regenBorder")
  /\ IF Top.i > Len(scaffold.border) THEN Return
     ELSE LET n == scaffold.border[Top.i] IN
          LoopAfter(IF n \in scaffold.absorbing THEN <<Call("attach", n, Top.r)>>
                    ELSE <<Call("regen", n, Top.r)>>
                         \o (IF observed[n] # None THEN <<Call("getAndConstrain", n, Top.r)>> ELSE <<>>))
  /\ UNCHANGED <<traceVars, envVars, results, err, scaffold, dbVars, weight, moveVars>>

Regenerated ==
  /\ Running("regenerated")
  /\ IF \E n \in scaffold.drg : value[n] = None THEN Raise("assertTrace") ELSE
       /\ Return
       /\ UNCHANGED <<traceVars, envVars, results, err, scaffold, dbVars, weight>>
  /\ UNCHANGED moveVars

-----------------------------------------------------------------------------
(* makeConsistent: one observation after another; regenerate from the      *)
(* observed choice with its value forced, then constrain it.               *)
MakeConsistent ==
  /\ Idle /\ unpropagated # <<>>
  /\ todo' = <<Step("makeConsistent")>>
  /\ Begin
  /\ UNCHANGED <<traceVars, envVars, results, err, scaffold, dbVars, pc, unpropagated>>

Incorporate ==
  /\ Running("makeConsistent")
  /\ IF Top.i > Len(unpropagated)
       THEN /\ unpropagated' = <<>>
            /\ Return
            /\ UNCHANGED <<traceVars, envVars, results, err, scaffold, dbVars, weight>>
     ELSE LET u == unpropagated[Top.i]
              app == getConstrainableNode(u.root)
              For(t) == [At(t, u.root, u.val) EXCEPT !.m = app]
          IN /\ IF ~isConstrainable(app) THEN Raise("Cannot constrain a deterministic value.")
                ELSE /\ scaffold' = NewScaffold(<<app>>)
                     /\ LoopAfter(<<Step("extendCandidateScaffold"), Step("detachAndExtract"),
                                    For("forceValue"), Step("regenAndAttach"), For("mark"),
                                    For("constrain"), Step("collect")>>)
                     /\ UNCHANGED <<traceVars, envVars, results, err, dbVars, weight>>
             /\ UNCHANGED unpropagated
  /\ UNCHANGED <<pc, saved, rhoWeight, verdict>>

ForceValue ==
  /\ Running("forceValue")
  /\ scaffold' = [scaffold EXCEPT !.lkernel[Top.m] = Top.exp.v]
  /\ Return
  /\ UNCHANGED <<traceVars, envVars, results, err, dbVars, weight, moveVars>>

(* Node.observe, and in unobserve its reverse.                             *)
Mark ==
  /\ Running("mark")
  /\ observed' = [observed EXCEPT ![Top.n] = Top.exp.v]
  /\ Return
  /\ UNCHANGED <<traceVars, globalEnv, families, results, err, scaffold, dbVars, weight, moveVars>>

-----------------------------------------------------------------------------
(* mixMH with MHOperator: propose from the prior, then accept or reject.   *)
(* Acceptance is decided by a random number, so both are possible.  The    *)
(* engine incorporates observations before it infers.                      *)
Snapshot == [live |-> live, value |-> value, esrParents |-> esrParents,
             children |-> [n \in Node |-> Range(children[n])],
             numRequests |-> numRequests, madeSP |-> madeSP, spFamilies |-> spFamilies,
             spAux |-> spAux, rcs |-> rcs, ccs |-> ccs, scopes |-> scopes]

(* The order of the principal nodes is that of a SamplableMap's keys, which *)
(* depends on the past: any order is possible.                             *)
Propose(pnodes) ==
  /\ Idle /\ unpropagated = <<>>
  /\ \E order \in SetToSeqs(pnodes) : scaffold' = NewScaffold(order)
  /\ todo' = <<Step("extendCandidateScaffold"), Step("detachAndExtract"), Step("keepRho"),
               Step("regenAndAttach"), Step("decide"), Step("collect")>>
  /\ saved' = Snapshot
  /\ rhoWeight' = <<>> /\ verdict' = "" /\ weight' = <<>>
  /\ UNCHANGED <<traceVars, envVars, results, err, dbVars, pc, unpropagated>>

(* getNodesInBlock: the unconstrained choices in the dynamic extent of the *)
(* tagged nodes, less what a tag puts in another block of the scope.       *)
Within(n, scope, block) ==
  IF ~isOutputNode(n) THEN {}
  ELSE Range(esrParents[n]) \cup {operatorNode(n)} \cup
       {operandNodes(n)[i] : i \in {j \in DOMAIN operandNodes(n) :
          ~(j = 3 /\ isTag(n) /\ operandValues(n)[1] = scope /\ operandValues(n)[2] # block)}}

getNodesInBlock(scope, block) ==
  LET tagged == {e[3] : e \in {f \in scopes : f[1] = scope /\ f[2] = block}}
      Extent[k \in Nat] == IF k = 0 THEN tagged
                           ELSE UNION {x \cup UNION {Within(n, scope, block) : n \in x} :
                                         x \in {Extent[k - 1]}}
  IN {n \in Extent[MaxNodes] : isRandom(n) /\ n \notin ccs}

(* The default scope has a block for each choice; "one" picks a block,     *)
(* "all" takes every one.                                                  *)
ProposeOne   == \E n \in rcs : Propose({n})
ProposeAll   == Cardinality(rcs) > 1 /\ Propose(rcs)
ProposeBlock == \E e \in scopes : Propose(getNodesInBlock(e[1], e[2]))

KeepRho ==
  /\ Running("keepRho")
  /\ rhoDB' = omega
  /\ rhoWeight' = weight
  /\ Return
  /\ UNCHANGED <<traceVars, envVars, results, err, scaffold, omega, weight, pc, unpropagated, saved,
                 verdict>>

Accept ==
  /\ Running("decide")
  /\ Return
  /\ saved' = <<>> /\ rhoWeight' = <<>> /\ weight' = <<>> /\ verdict' = "accepted"
  /\ UNCHANGED <<traceVars, envVars, results, err, scaffold, dbVars, pc, unpropagated>>

Reject ==
  /\ Running("decide")
  /\ ReturnAfter(<<Step("detachAndExtract"), Call("regenAndAttach", NoNode, TRUE)>>)
  /\ verdict' = "rejected"
  /\ UNCHANGED <<traceVars, envVars, results, err, scaffold, dbVars, weight, pc, unpropagated, saved,
                 rhoWeight>>

(* An exception unwinds to the user and leaves the trace as it stands.     *)
Stopped == err # "" /\ UNCHANGED vars

Next ==
  \/ Execute \/ Define \/ Unobserve \/ ForgetFamily \/ FreezeFamily \/ Frozen \/ Collect
  \/ MakeConsistent \/ Incorporate \/ ForceValue \/ Mark
  \/ ProposeOne \/ ProposeAll \/ ProposeBlock \/ KeepRho \/ Accept \/ Reject
  \/ DetachAndExtract \/ DetachBorder \/ Detached \/ RegenAndAttach \/ RegenBorder \/ Regenerated
  \/ (RegenStep \/ DetachStep \/ ExtendCandidateScaffold \/ ConstructScaffold) /\ UNCHANGED moveVars
  \/ Stopped

Spec == Init /\ [][Next]_vars

(* A call that is running keeps running: nothing else owns the thread.     *)
FairSpec == Spec /\ WF_vars(Next)
=============================================================================
