------------------------------- MODULE Detach -------------------------------
(***************************************************************************)
(* Detaching (backend/lite/detach.py): regeneration run backwards.  Values *)
(* leave the trace for the OmegaDB, families that nobody requests any more *)
(* are unevaluated, and every choice unregisters itself.                   *)
(***************************************************************************)
EXTENDS Regen

EmptyDB == [values |-> [n \in Node |-> None], families |-> {}]

(* extractParents: ESR parents, then definite ones, each in reverse.       *)
extractParents(n) == <<Call("extractESRParents", n, FALSE)>>
                     \o Calls("extract", Reverse(definiteParents(n)), FALSE)

DetachNode ==
  /\ Running("detach")
  /\ ReturnAfter(<<Call("unabsorb", Top.n, FALSE)>> \o extractParents(Top.n))
  /\ UNCHANGED <<traceVars, envVars, results, err, scaffold, dbVars, weight>>

ExtractESRParents ==
  /\ Running("extractESRParents")
  /\ ReturnAfter(Calls("extract", Reverse(esrParentsAt(Top.n)), FALSE))
  /\ UNCHANGED <<traceVars, envVars, results, err, scaffold, dbVars, weight>>

Unabsorb ==
  /\ Running("unabsorb")
  /\ LET n == Top.n IN
     IF ~Ready(n) \/ value[n] = None THEN Raise("unabsorb: detached operand")
     ELSE IF isTag(n) /\ ScopeEntry(n) \notin scopes THEN Raise("unregisterRandomChoiceInScope: KeyError")
     ELSE LET aux == unincorporate(spAux, n, value[n]) IN
          /\ spAux'  = aux
          /\ weight' = Append(weight, Term(n, GroundValue(n), aux[makerOf(n)]))
          /\ scopes' = unregisterInScope(n)
          /\ Return
          /\ UNCHANGED <<graphVars, value, esrVars, madeSP, aaaAux, rcs, ccs, envVars,
                         results, err, scaffold, dbVars>>

(* extract: maybeExtractStaleAAA first; then one regen of n is taken back, *)
(* and the last one detaches n and goes on to its parents.                 *)
Extract ==
  /\ Running("extract")
  /\ ReturnAfter((IF refersToAAA(Top.n) THEN <<Call("extract", value[Top.n].maker, FALSE)>> ELSE <<>>)
                 \o <<Call("uncount", Top.n, FALSE)>>)
  /\ UNCHANGED <<traceVars, envVars, results, err, scaffold, dbVars, weight>>

Uncount ==
  /\ Running("uncount")
  /\ LET n == Top.n
         last == regenCount(n) = 1
         clear == IF isRequestNode(n)
                    THEN <<Call("unevalRequests", n, FALSE), Call("unapplyPSP", n, FALSE)>>
                    ELSE <<Call("unapplyPSP", n, FALSE)>>
     IN IF isResampling(n) /\ regenCount(n) = 0 THEN Raise("assert regenCountAt(scaffold, node) >= 0")
        ELSE /\ scaffold' = IF isResampling(n)
                              THEN [scaffold EXCEPT !.regenCounts[n] = @ - 1] ELSE scaffold
             /\ value'    = IF isResampling(n) /\ last /\ isLookupNode(n)
                              THEN [value EXCEPT ![n] = None] ELSE value
             /\ ReturnAfter(IF ~(isResampling(n) /\ last) THEN <<>>
                            ELSE (IF isApplicationNode(n) THEN clear ELSE <<>>) \o extractParents(n))
             /\ UNCHANGED <<graphVars, esrVars, spVars, choiceVars, envVars, results, err, dbVars, weight>>

-----------------------------------------------------------------------------
(* unapplyPSP, with teardownMadeSP: a made procedure goes back into the    *)
(* node as a record, its statistics kept aside when the maker is AAA.      *)
UnapplyPSP ==
  /\ Running("unapplyPSP")
  /\ LET n == Top.n
         isMaker == value[n] = Ref(n)
         v == IF isMaker THEN Record(madeSP[n], spAux[n]) ELSE value[n]
         kept == IF isMaker /\ isAAA(n) THEN [aaaAux EXCEPT ![n] = spAux[n]] ELSE aaaAux
     IN IF ~Ready(n) THEN Raise("unapplyPSP: detached operand")
        ELSE IF isTag(n) /\ ScopeEntry(n) \notin scopes THEN Raise("unregisterRandomChoiceInScope: KeyError")
        ELSE IF isRandom(n) /\ n \notin rcs THEN Raise("assert node in self.rcs")
        ELSE IF isMaker /\ \E f \in spFamilies : f.maker = n THEN Raise("assert len(spRecord.spFamilies.families) == 0")
        ELSE IF v # None /\ omega.values[n] # None THEN Raise("assert node not in self.values")
        ELSE /\ scopes' = unregisterInScope(n)
             /\ rcs'    = IF isRandom(n) THEN rcs \ {n} ELSE rcs
             /\ madeSP' = IF isMaker THEN [madeSP EXCEPT ![n] = NoSP] ELSE madeSP
             /\ aaaAux' = kept
             /\ spAux'  = IF isMaker THEN [spAux EXCEPT ![n] = ZeroAux]
                          ELSE unincorporate(spAux, n, v)
             /\ weight' = weight \o
                  (IF isAAA(n) THEN <<Term(n, Record(v.sp, ZeroAux), kept[n])>>
                   ELSE IF scaffold.lkernel[n] # None
                     THEN <<Term(n, v, unincorporate(spAux, n, v)[makerOf(n)])>> ELSE <<>>)
             /\ omega'  = [omega EXCEPT !.values[n] = v]
             /\ value'  = [value EXCEPT ![n] = None]
             /\ Return
             /\ UNCHANGED <<graphVars, esrVars, ccs, envVars, results, err, scaffold, rhoDB>>

-----------------------------------------------------------------------------
(* unevalFamily: children before parents, the operator last.               *)

unapply(out) == <<Call("unapplyPSP", out, FALSE), Call("extractESRParents", out, FALSE),
                  Call("unevalRequests", requestNode(out), FALSE),
                  Call("unapplyPSP", requestNode(out), FALSE)>>

UnevalFamily ==
  /\ Running("unevalFamily")
  /\ LET n == Top.n IN
     \/ /\ isConstantNode(n)
        /\ live' = live \ NodesOf(n)
        /\ Return
        /\ UNCHANGED <<node, children, value, esrVars, spVars, choiceVars, envVars, results, err, scaffold, dbVars, weight>>
     \/ /\ isLookupNode(n)
        /\ children' = [children EXCEPT ![sourceNode(n)] = Discard(@, n)]
        /\ value'    = [value EXCEPT ![n] = None]
        /\ live'     = live \ NodesOf(n)
        /\ ReturnAfter(extractParents(n))
        /\ UNCHANGED <<node, esrVars, spVars, choiceVars, envVars, results, err, scaffold, dbVars, weight>>
     \/ /\ isOutputNode(n)
        /\ live' = live \ NodesOf(n)
        /\ ReturnAfter(unapply(n) \o Calls("unevalFamily", Reverse(<<operatorNode(n)>> \o operandNodes(n)), FALSE))
        /\ UNCHANGED <<node, children, value, esrVars, spVars, choiceVars, envVars, results, err, scaffold,
                       dbVars, weight>>

(* unevalRequests, with popLastESRParent: the edge goes, and with the last *)
(* edge the family.                                                        *)
UnevalRequests ==
  /\ Running("unevalRequests")
  /\ LET n == Top.n
         out == outputNode(n)
         root == Last(esrParents[out])
         maker == makerOf(n)
         id == Head(value[n].esrs).id
     IN IF value[n].esrs = <<>>
          THEN /\ Return
               /\ UNCHANGED <<traceVars, envVars, results, err, scaffold, dbVars, weight>>
        ELSE IF ~isApplicable(n) THEN Raise("unevalRequests: detached operator")
        ELSE IF esrParents[out] = <<>> THEN Raise("assert self.esrParentsAt(outputNode)")
        ELSE IF numRequests[root] = 1 /\ \E f \in omega.families : f.maker = maker /\ f.id = id
          THEN Raise("assert (sp,id) not in self.spFamilyDBs")
        ELSE /\ esrParents'  = [esrParents EXCEPT ![out] = Front(@)]
             /\ children'    = [children EXCEPT ![root] = Discard(@, out)]
             /\ numRequests' = [numRequests EXCEPT ![root] = @ - 1]
             /\ IF numRequests[root] = 1
                  THEN /\ spFamilies' = spFamilies \ Family(maker, id)
                       /\ omega' = [omega EXCEPT !.families =
                                      @ \cup {[maker |-> maker, id |-> id, root |-> root]}]
                       /\ ReturnAfter(<<Call("unevalFamily", root, FALSE)>>)
                  ELSE /\ UNCHANGED <<spFamilies, omega>>
                       /\ Return
             /\ UNCHANGED <<node, live, value, spVars, choiceVars, envVars, results, err, scaffold,
                            rhoDB, weight>>

(* unconstrain: the choice goes back from ccs to rcs, its value kept.      *)
Unconstrain ==
  /\ Running("unconstrain")
  /\ LET app == getConstrainableNode(Top.n) IN
     IF ~isConstrainable(app) THEN Raise("Cannot constrain a deterministic value.")
     ELSE IF app \notin ccs THEN Raise("assert node in self.ccs")
     ELSE IF app \in rcs THEN Raise("assert node not in self.rcs")
     ELSE /\ ccs'    = ccs \ {app}
          /\ rcs'    = rcs \cup {app}
          /\ weight' = Append(weight, Term(app, value[app],
                                unincorporate(spAux, app, value[app])[makerOf(app)]))
          /\ Return
          /\ UNCHANGED <<graphVars, value, esrVars, spVars, scopes, envVars, results, err, scaffold, dbVars>>

DetachStep ==
  \/ DetachNode \/ ExtractESRParents \/ Unabsorb \/ Extract \/ Uncount
  \/ UnapplyPSP \/ UnevalFamily \/ UnevalRequests \/ Unconstrain
=============================================================================
