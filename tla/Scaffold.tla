------------------------------ MODULE Scaffold ------------------------------
(***************************************************************************)
(* Scaffold construction (backend/lite/scaffold.py): which nodes a move    *)
(* away from its principal nodes has to recompute (drg), which absorb the  *)
(* change (absorbing), which procedures are collapsed (aaa), which nodes   *)
(* may cease to exist (brush), where regeneration starts (border), and how *)
(* often each node will be reached (regenCounts).                          *)
(***************************************************************************)
EXTENDS Detach

Visit(n, principal, parent) == [n |-> n, principal |-> principal, parent |-> parent]

EmptyScaffold ==
  [queue |-> <<>>, cDRG |-> <<>>, cAbsorbing |-> <<>>, cAAA |-> <<>>,
   drg |-> {}, absorbing |-> {}, aaa |-> {}, brush |-> {}, border |-> <<>>,
   regenCounts |-> [n \in Node |-> 0], lkernel |-> [n \in Node |-> None]]

(* constructScaffold for one set of principal nodes, in some order.        *)
NewScaffold(pnodes) ==
  [EmptyScaffold EXCEPT !.queue = [i \in DOMAIN pnodes |-> Visit(pnodes[i], TRUE, NoNode)]]

(* The work list is a stack.  Mutation: it is read and not popped.         *)
Popped_not(queue) == queue
Popped(queue) == Front(queue)

(* One iteration of extendCandidateScaffold's loop.                        *)
ExtendCandidateScaffold ==
  /\ Running("extendCandidateScaffold") /\ scaffold.queue # <<>>
  /\ LET visit == Last(scaffold.queue)
         n     == visit.n
         q     == Popped(scaffold.queue)
         inDRG == Contains(scaffold.cDRG, n)
         inAAA == Contains(scaffold.cAAA, n)
         inAbs == Contains(scaffold.cAbsorbing, n)
         known == inDRG /\ ~inAAA
         forced == isLookupNode(n) \/ Contains(scaffold.cDRG, operatorNode(n))
         absorbs == ~visit.principal /\ canAbsorb(n, visit.parent)
         addResampling ==
           [scaffold EXCEPT
              !.queue = IF ~inDRG \/ inAbs \/ inAAA
                          THEN q \o [i \in DOMAIN children[n] |-> Visit(children[n][i], FALSE, n)]
                          ELSE q,
              !.cAbsorbing = Discard(@, n), !.cAAA = Discard(@, n), !.cDRG = Add(@, n)]
         addAbsorbing == [scaffold EXCEPT !.queue = q, !.cAbsorbing = Add(@, n)]
         addAAA == [scaffold EXCEPT !.queue = q, !.cAbsorbing = Discard(@, n),
                                    !.cDRG = Add(@, n), !.cAAA = Add(@, n)]
     IN scaffold' = CASE known \/ forced                 -> addResampling
                      [] ~(known \/ forced) /\ inAAA     -> addAAA
                      [] ~(known \/ forced) /\ ~inAAA /\ absorbs -> addAbsorbing
                      [] ~(known \/ forced) /\ ~inAAA /\ ~absorbs /\ childrenCanAAA(n) -> addAAA
                      [] OTHER -> addResampling
  /\ UNCHANGED <<traceVars, envVars, todo, results, err, dbVars, weight>>

-----------------------------------------------------------------------------
(* findBrush: an ESR family all of whose requests are disabled goes, and   *)
(* with it the requests made inside it.                                    *)
Places(x, s) == {i \in DOMAIN s : s[i] = x}
Disabled(requests, root) ==
  Cardinality(UNION {{r} \X Places(root, esrParents[outputNode(r)]) : r \in requests})

BrushStep(drg, brush) ==
  LET requests == {r \in drg \cup brush : isRequestNode(r)}
      roots    == {n \in Node : numRequests[n] > 0 /\ Disabled(requests, n) = numRequests[n]}
      within   == UNION {{requestNode(n), operatorNode(n)} \cup Range(operandNodes(n)) :
                           n \in {m \in brush : isOutputNode(m)}}
  IN brush \cup roots \cup within

findBrush(drg) ==
  LET Grow[k \in Nat] == IF k = 0 THEN {} ELSE UNION {BrushStep(drg, b) : b \in {Grow[k - 1]}}
  IN Grow[MaxNodes]

(* findBorder: absorbing and AAA nodes, and the DRG nodes that end there.  *)
findBorder(drg, absorbing, aaa) ==
  LET within   == Range(drg) \cup Range(absorbing)
      terminal(n) == ~\E i \in DOMAIN children[n] : children[n][i] \in within
  IN absorbing \o aaa \o SelectSeq(drg, LAMBDA n : ~Contains(aaa, n) /\ terminal(n))

(* computeRegenCounts: a node is reached once per child and, on the        *)
(* border, once from there; an AAA maker once from the border and once per *)
(* reference through which something may dereference it.                   *)
valuesAt(ns) == [i \in DOMAIN ns |-> value[ns[i]]]

(* Mutation: references that are dereferenced in the brush are not counted, *)
(* nor those of the nodes that remain.                                      *)
References_none(maker, readers, brush) == 0
References(maker, readers, brush) ==
  Cardinality(UNION {{n} \X Places(Ref(maker), valuesAt(parents(n))) : n \in readers})
  + Cardinality(UNION {{n} \X Places(Ref(maker), valuesAt(esrParentsAt(n))) : n \in brush})
  + Cardinality({n \in brush : isLookupNode(n) /\ value[sourceNode(n)] = Ref(maker)})

computeRegenCounts(drg, absorbing, aaa, border, brush) ==
  [n \in Node |->
     IF n \notin drg THEN 0
     ELSE IF n \in aaa THEN 1 + References(n, drg \cup absorbing, brush)
     ELSE Len(children[n]) + (IF n \in border THEN 1 ELSE 0)]

(* removeBrush and what follows it.                                        *)
ConstructScaffold ==
  /\ Running("extendCandidateScaffold") /\ scaffold.queue = <<>>
  /\ LET brush     == findBrush(Range(scaffold.cDRG))
         keep(s)   == SelectSeq(s, LAMBDA n : n \notin brush)
         drg       == keep(scaffold.cDRG)
         absorbing == keep(scaffold.cAbsorbing)
         aaa       == keep(scaffold.cAAA)
         border    == findBorder(drg, absorbing, aaa)
     IN scaffold' = [EmptyScaffold EXCEPT
                       !.drg = Range(drg), !.absorbing = Range(absorbing), !.aaa = Range(aaa),
                       !.brush = brush, !.border = border,
                       !.regenCounts = computeRegenCounts(Range(drg), Range(absorbing), Range(aaa),
                                                          Range(border), brush)]
  /\ Return
  /\ UNCHANGED <<traceVars, envVars, results, err, dbVars, weight>>
=============================================================================
