----------------------------- MODULE TraceProps -----------------------------
(***************************************************************************)
(* What a Lite trace promises.  Idle states are the ones the user sees     *)
(* between operations; the others are inside a detach or a regeneration.   *)
(***************************************************************************)
EXTENDS LiteTrace

(* Type invariant: every application node has operand nodes, requests and  *)
(* outputs come in adjacent pairs, ESR edges lead to nodes, and so do the  *)
(* families registered in the trace or kept in a database, the registries  *)
(* of choices, and the values evalFamily has returned.                     *)
Graph == /\ DOMAIN node = Node
         /\ \A n \in Node : /\ operandNodes(n) \in Seq(Node)
                            /\ isRequestNode(n) => outputNode(n) \in Node
                            /\ isOutputNode(n) => requestNode(n) \in Node
Edges == /\ esrParents \in [Node -> Seq(Node)]
         /\ numRequests \in [Node -> Int]
         /\ \A f \in spFamilies \cup omega.families \cup rhoDB.families : f.root \in Node
TypeOK == Graph /\ Edges /\ results \in Seq(Node) /\ rcs \subseteq Node /\ ccs \subseteq Node

-----------------------------------------------------------------------------
(* No program drives detach, regen or the scaffold into a failing          *)
(* assertion or into reading a node that is still detached: a program is   *)
(* stopped only by an exception that says what is wrong with it; "no user  *)
(* program should trigger assertion errors in the engine"                  *)
(* (doc/on-the-indian-gpa-problem.md).                                     *)
UserErrors == {"Cannot find symbol", "Cannot constrain a deterministic value.",
               "Cannot constrain the same random choice twice.", "Cannot make requests downstream",
               "Cannot make random choices downstream", "Recursive mem argument loop detected."}
NoAssertionFails == err \in UserErrors \cup {""}

(* The number of requests a family counts, which decides when it is        *)
(* unevaluated, is at every step the number of ESR edges into its root.    *)
ESREdges(esrs) == UNION {{<<n, i, esrs[n][i]>> : i \in DOMAIN esrs[n]} : n \in Node}
EdgesTo(root, edges) == {e \in edges : e[3] = root}
RequestAccounting ==
  LET edges == ESREdges(esrParents)
  IN \A root \in Node : numRequests[root] = Cardinality(EdgesTo(root, edges))

(* A node of the scaffold is never reached more often than                 *)
(* computeRegenCounts foresaw, also in the state just proposed, whose      *)
(* structure differs from the one the scaffold was built from: when        *)
(* regeneration is over, every count is again what the trace demands.      *)
CountsMatchTrace ==
  Running("decide") =>
    \A n \in scaffold.drg \ scaffold.aaa :
      regenCount(n) = Len(children[n]) + (IF n \in Range(scaffold.border) THEN 1 ELSE 0)

(* Between operations every value is the one its parents determine: no     *)
(* node is detached, lookups agree with their sources, and requests and    *)
(* deterministic outputs with their operands.                              *)
Coherent ==
  Idle => \A n \in live :
    /\ value[n] # None
    /\ isLookupNode(n) => value[n] = value[sourceNode(n)]
    /\ isApplicationNode(n) =>
         /\ isApplicable(n)
         /\ isRandom(n) \/ value[n] = Ref(n) \/ value[n] \in simulate(n)

(* Between operations the two directions of every edge agree, nothing      *)
(* refers to a node that is gone, and a procedure's families are exactly   *)
(* the ones its live applications requested: no family outlives the last   *)
(* request for it, and none disappears before.                             *)
Requested(maker) ==
  {[maker |-> maker, id |-> Head(value[r].esrs).id, root |-> Last(esrParents[outputNode(r)])] :
     r \in {n \in live : isRequestNode(n) /\ value[n].esrs # <<>> /\ makerOf(n) = maker}}

WellLinked ==
  Idle => \A n \in live :
    /\ \A p \in Range(parents(n)) : p \in Builtins \/ (p \in live /\ n \in Range(children[p]))
    /\ \A c \in Range(children[n]) : c \in live /\ n \in Range(parents(c))
    /\ {f \in spFamilies : f.maker = n} = Requested(n)

(* Between operations the registries are exactly the trace's contents:     *)
(* each random choice is in rcs or, if an observation constrains it, in    *)
(* ccs; each live tag is in its scope and block under their current        *)
(* values; each procedure's statistics count its applications.             *)
Registered ==
  Idle =>
    LET random == {n \in live : isRandom(n)}
    IN /\ rcs \cup ccs = random /\ rcs \cap ccs = {}
       /\ scopes = {ScopeEntry(n) : n \in {m \in live : isTag(m)}}
       /\ \A n \in live : \A k \in Outcomes :
            spAux[n][k] = Cardinality({m \in live : /\ Counted(m) /\ makerOf(m) = n
                                                    /\ value[m] = Num(k)})

(* Between operations every observation holds: the choice it resolves to   *)
(* is constrained to the observed value, the node observed shows it, and   *)
(* nothing else is constrained, whatever path a move took to the choice.   *)
ObservationsHold ==
  Idle =>
    LET roots == {n \in Node : observed[n] # None}
    IN /\ \A n \in roots : LET app == getConstrainableNode(n)
                            IN app \in ccs /\ {value[n], value[app]} = {observed[n]}
       /\ ccs = {getConstrainableNode(n) : n \in roots}

(* A rejected move leaves the trace as it was: the same nodes, values,     *)
(* edges, families, statistics and registries.                             *)
RejectRestores == Idle /\ verdict = "rejected" => Snapshot = saved

(* A rejected move restores the weight it detached, term by term, in the   *)
(* reverse order: restore visits what detach visited.                      *)
RestoreMirrorsDetach == Idle /\ verdict = "rejected" => weight = Reverse(rhoWeight)

(* Every operation returns, with a result or an exception: the recursion   *)
(* of detach, regen and the scaffold's construction ends.                  *)
Terminates == []<>(todo = <<>>)
=============================================================================
