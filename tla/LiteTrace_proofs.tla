-------------------------- MODULE LiteTrace_proofs --------------------------
(***************************************************************************)
(* Proofs about the Lite trace, for every program and every number of      *)
(* nodes: it stays well typed, and the requests a family counts are always *)
(* the ESR edges into its root.                                            *)
(***************************************************************************)
EXTENDS TraceProps, FiniteSetTheorems, SequenceTheorems, TLAPS

(* What typing needs to know of the call stack: the functions that add and *)
(* drop ESR edges are called on request nodes, which have an output node.  *)
RequestCalls == {"evalRequests", "registerFamily", "unevalRequests"}
CallOK(c)    == /\ DOMAIN c = {"t", "n", "r", "i", "m", "exp", "env"}
                /\ c.t \in RequestCalls => c.n \in Node /\ outputNode(c.n) \in Node
Calling(cs)  == cs \in Seq({c \in Range(cs) : CallOK(c)})
StackOK      == Calling(todo)

(* ESR edges are finitely many, so that they can be counted.               *)
EdgesFinite == \A root \in Node : IsFiniteSet(EdgesTo(root, ESREdges(esrParents)))

(* A database's families are one of its fields.                            *)
DatabaseOK == "families" \in DOMAIN omega

IInv == TypeOK /\ StackOK /\ DatabaseOK /\ EdgesFinite /\ RequestAccounting

-----------------------------------------------------------------------------
(* Stacks.                                                                 *)

(* Pending calls from any set of legal calls make a legal stack.           *)
LEMMA CallingFrom ==
  ASSUME NEW S, \A c \in S : CallOK(c), NEW cs \in Seq(S)
  PROVE  Calling(cs)
<1>1. \A i \in 1..Len(cs) : cs[i] \in {c \in Range(cs) : CallOK(c)}
  BY DEF Range
<1> QED  BY <1>1 DEF Calling

(* No call is a legal stack.                                               *)
LEMMA CallingNothing == Calling(<<>>)
BY DEF Calling

(* One legal call is a legal stack.                                        *)
LEMMA CallingOne ==
  ASSUME NEW c, CallOK(c)
  PROVE  Calling(<<c>>)
<1>1. <<c>> \in Seq({c})
  OBVIOUS
<1> QED  BY <1>1, CallingFrom

(* And so are two.                                                         *)
LEMMA CallingTwo ==
  ASSUME NEW a, NEW b, CallOK(a), CallOK(b)
  PROVE  Calling(<<a, b>>)
<1>1. <<a, b>> \in Seq({a, b})
  OBVIOUS
<1> QED  BY <1>1, CallingFrom

(* Two legal stacks, one on top of the other, are a legal stack.           *)
LEMMA CallingBoth ==
  ASSUME NEW a, NEW b, Calling(a), Calling(b)
  PROVE  Calling(a \o b)
<1> DEFINE S == {c \in Range(a) : CallOK(c)} \cup {c \in Range(b) : CallOK(c)}
<1>1. a \in Seq(S) /\ b \in Seq(S)
  BY SeqMonotonic DEF Calling
<1>2. a \o b \in Seq(S)
  BY <1>1
<1>3. \A c \in S : CallOK(c)
  OBVIOUS
<1> HIDE DEF S
<1> QED  BY <1>2, <1>3, CallingFrom

(* A run of calls of one function, which is not one of RequestCalls.       *)
LEMMA CallingEach ==
  ASSUME NEW t, t \notin RequestCalls, NEW ns, Len(ns) \in Nat, NEW r
  PROVE  Calling(Calls(t, ns, r))
<1> DEFINE S == {Call(t, ns[i], r) : i \in 1..Len(ns)}
<1>1. \A c \in S : CallOK(c)
  BY DEF CallOK, Call
<1>2. Calls(t, ns, r) \in Seq(S)
  BY DEF Calls
<1> HIDE DEF S
<1> QED  BY <1>1, <1>2, CallingFrom

(* The running call is legal; it returns; it leaves calls cs in its place; *)
(* or it makes them and goes round again.                                  *)
LEMMA TopOK ==
  ASSUME StackOK, todo # <<>>
  PROVE  CallOK(Top) /\ Calling(Tail(todo))
<1>1. Top \in {c \in Range(todo) : CallOK(c)} /\ Tail(todo) \in Seq({c \in Range(todo) : CallOK(c)})
  BY DEF StackOK, Calling, Top
<1> QED  BY <1>1, CallingFrom

(* A return leaves a legal stack.                                          *)
LEMMA Returned ==
  ASSUME StackOK, todo # <<>>, Return
  PROVE  StackOK'
BY TopOK DEF StackOK, Return, Calling, CallOK, RequestCalls, outputNode, Node

(* And so does a return after legal calls.                                 *)
LEMMA ReturnedAfter ==
  ASSUME StackOK, todo # <<>>, NEW cs, Calling(cs), ReturnAfter(cs)
  PROVE  StackOK'
<1>1. Calling(cs \o Tail(todo))
  BY TopOK, CallingBoth
<1> QED  BY <1>1 DEF StackOK, ReturnAfter, Calling, CallOK, RequestCalls, outputNode, Node

(* And so does another round of a loop after legal calls.                  *)
LEMMA LoopedAfter ==
  ASSUME StackOK, todo # <<>>, NEW cs, Calling(cs), LoopAfter(cs)
  PROVE  StackOK'
<1> DEFINE again == [Top EXCEPT !.i = @ + 1]
<1>1. CallOK(again)
  BY TopOK DEF CallOK
<1>2. cs \in Seq(Range(cs))
  BY SeqMonotonic DEF Calling
<1>3. Append(cs, again) = cs \o <<again>>
  BY <1>2, AppendIsConcat
<1> HIDE DEF again
<1>4. Calling(Append(cs, again) \o Tail(todo))
  BY <1>1, <1>3, TopOK, CallingOne, CallingBoth
<1> QED  BY <1>4 DEF again, StackOK, LoopAfter, Calling, CallOK, RequestCalls, outputNode, Node

(* One call of a function that is not one of RequestCalls.                 *)
LEMMA CallingTask ==
  ASSUME NEW t, t \notin RequestCalls, NEW n, NEW r
  PROVE  Calling(<<Call(t, n, r)>>)
BY CallingOne DEF CallOK, Call

-----------------------------------------------------------------------------
(* ESR edges.                                                              *)

(* A new last ESR parent is one more edge, which was not there before.     *)
LEMMA EdgeAdded ==
  ASSUME Edges, NEW out \in Node, NEW root \in Node, addESREdge(root, out)
  PROVE  LET e == <<out, Len(esrParents[out]) + 1, root>>
         IN ESREdges(esrParents') = ESREdges(esrParents) \cup {e} /\ e \notin ESREdges(esrParents)
<1> DEFINE f == esrParents
           g == esrParents'
           e == <<out, Len(f[out]) + 1, root>>
<1>1. /\ DOMAIN g[out] = DOMAIN f[out] \cup {Len(f[out]) + 1}
      /\ g[out][Len(f[out]) + 1] = root
      /\ \A i \in DOMAIN f[out] : g[out][i] = f[out][i]
      /\ Len(f[out]) + 1 \notin DOMAIN f[out]
  <2>1. f[out] \in Seq(Node) /\ g[out] = Append(f[out], root)
    BY DEF Edges, addESREdge
  <2> QED  BY <2>1, AppendProperties
<1>2. \A n \in Node \ {out} : g[n] = f[n]
  BY DEF Edges, addESREdge
<1> HIDE DEF f, g
<1>3. ESREdges(g) \subseteq ESREdges(f) \cup {e}
  BY <1>1, <1>2 DEF ESREdges
<1>4. ESREdges(f) \cup {e} \subseteq ESREdges(g)
  BY <1>1, <1>2 DEF ESREdges
<1>5. e \notin ESREdges(f)
  BY <1>1 DEF ESREdges
<1> QED  BY <1>3, <1>4, <1>5 DEF f, g

(* Popping the last ESR parent removes one edge.                           *)
LEMMA EdgeDropped ==
  ASSUME NEW f \in [Node -> Seq(Node)], NEW out \in Node, f[out] # <<>>,
         NEW g, g = [f EXCEPT ![out] = Front(@)]
  PROVE  LET e == <<out, Len(f[out]), Last(f[out])>>
         IN ESREdges(g) = ESREdges(f) \ {e} /\ e \in ESREdges(f)
<1> DEFINE e == <<out, Len(f[out]), Last(f[out])>>
<1>1. /\ DOMAIN g[out] = DOMAIN f[out] \ {Len(f[out])}
      /\ \A i \in DOMAIN g[out] : g[out][i] = f[out][i]
      /\ Len(f[out]) \in DOMAIN f[out]
  <2>1. f[out] \in Seq(Node) /\ g[out] = Front(f[out])
    OBVIOUS
  <2>2. Len(f[out]) \in Nat \ {0} /\ DOMAIN f[out] = 1..Len(f[out])
    BY <2>1
  <2>3. DOMAIN g[out] = 1..(Len(f[out]) - 1)
    BY <2>1, <2>2 DEF Front
  <2>4. \A i \in 1..(Len(f[out]) - 1) : g[out][i] = f[out][i]
    BY <2>1, <2>2 DEF Front
  <2> QED  BY <2>2, <2>3, <2>4
<1>2. \A n \in Node \ {out} : g[n] = f[n]
  OBVIOUS
<1>3. ESREdges(g) \subseteq ESREdges(f) \ {e}
  BY <1>1, <1>2 DEF ESREdges
<1>4. ESREdges(f) \ {e} \subseteq ESREdges(g)
  BY <1>1, <1>2 DEF ESREdges, Last
<1>5. e \in ESREdges(f)
  BY <1>1 DEF ESREdges, Last
<1> QED  BY <1>3, <1>4, <1>5

(* Adding an edge and counting it keeps the accounts.                      *)
LEMMA AddKeepsAccounts ==
  ASSUME Edges, EdgesFinite, RequestAccounting,
         NEW root \in Node, NEW out \in Node, addESREdge(root, out)
  PROVE  /\ esrParents' \in [Node -> Seq(Node)] /\ numRequests' \in [Node -> Int]
         /\ EdgesFinite' /\ RequestAccounting'
<1> DEFINE E == ESREdges(esrParents)
           e == <<out, Len(esrParents[out]) + 1, root>>
<1>1. esrParents' \in [Node -> Seq(Node)] /\ numRequests' \in [Node -> Int]
  BY DEF Edges, addESREdge
<1>2. ESREdges(esrParents') = E \cup {e} /\ e \notin E
  BY EdgeAdded
<1>3. ASSUME NEW x \in Node
      PROVE  /\ IsFiniteSet(EdgesTo(x, E \cup {e}))
             /\ numRequests'[x] = Cardinality(EdgesTo(x, E \cup {e}))
  <2>1. IsFiniteSet(EdgesTo(x, E)) /\ numRequests[x] = Cardinality(EdgesTo(x, E))
    BY DEF EdgesFinite, RequestAccounting
  <2>2. CASE x = root
    <3>1. EdgesTo(x, E \cup {e}) = EdgesTo(x, E) \cup {e} /\ e \notin EdgesTo(x, E)
      BY <1>2, <2>2 DEF EdgesTo
    <3>2. numRequests'[x] = numRequests[x] + 1
      BY <2>2 DEF Edges, addESREdge
    <3>3. /\ IsFiniteSet(EdgesTo(x, E) \cup {e})
          /\ Cardinality(EdgesTo(x, E) \cup {e}) = Cardinality(EdgesTo(x, E)) + 1
      <4> HIDE DEF e, E
      <4> QED  BY <2>1, <3>1, FS_AddElement
    <3> QED  BY <2>1, <3>1, <3>2, <3>3
  <2>3. CASE x # root
    <3>1. EdgesTo(x, E \cup {e}) = EdgesTo(x, E)
      BY <2>3 DEF EdgesTo
    <3>2. numRequests'[x] = numRequests[x]
      BY <2>3 DEF Edges, addESREdge
    <3> QED  BY <2>1, <3>1, <3>2
  <2> QED  BY <2>2, <2>3
<1> HIDE DEF E, e
<1>4. EdgesFinite'
  BY <1>2, <1>3 DEF EdgesFinite
<1>5. RequestAccounting'
  BY <1>2, <1>3 DEF RequestAccounting
<1> QED  BY <1>1, <1>4, <1>5

(* And so does dropping the last edge of a node and counting down.         *)
LEMMA DropKeepsAccounts ==
  ASSUME Edges, EdgesFinite, RequestAccounting,
         NEW out \in Node, esrParents[out] # <<>>,
         esrParents' = [esrParents EXCEPT ![out] = Front(@)],
         numRequests' = [numRequests EXCEPT ![Last(esrParents[out])] = @ - 1]
  PROVE  /\ esrParents' \in [Node -> Seq(Node)] /\ numRequests' \in [Node -> Int]
         /\ EdgesFinite' /\ RequestAccounting'
<1> DEFINE E == ESREdges(esrParents)
           root == Last(esrParents[out])
           e == <<out, Len(esrParents[out]), root>>
<1>0. esrParents[out] \in Seq(Node) /\ root \in Node /\ Front(esrParents[out]) \in Seq(Node)
  <2>1. esrParents[out] \in Seq(Node) /\ Len(esrParents[out]) \in Nat \ {0}
    BY DEF Edges
  <2> QED  BY <2>1 DEF Last, Front
<1>1. esrParents' \in [Node -> Seq(Node)] /\ numRequests' \in [Node -> Int]
  BY <1>0 DEF Edges
<1>2. ESREdges(esrParents') = E \ {e} /\ e \in E
  BY EdgeDropped DEF Edges
<1>3. ASSUME NEW x \in Node
      PROVE  /\ IsFiniteSet(EdgesTo(x, E \ {e}))
             /\ numRequests'[x] = Cardinality(EdgesTo(x, E \ {e}))
  <2>1. IsFiniteSet(EdgesTo(x, E)) /\ numRequests[x] = Cardinality(EdgesTo(x, E))
    BY DEF EdgesFinite, RequestAccounting
  <2>2. CASE x = root
    <3>1. EdgesTo(x, E \ {e}) = EdgesTo(x, E) \ {e} /\ e \in EdgesTo(x, E)
      BY <1>2, <2>2 DEF EdgesTo
    <3>2. numRequests'[x] = numRequests[x] - 1
      BY <1>0, <2>2 DEF Edges
    <3> QED  BY <2>1, <3>1, <3>2, FS_RemoveElement
  <2>3. CASE x # root
    <3>1. EdgesTo(x, E \ {e}) = EdgesTo(x, E)
      BY <2>3 DEF EdgesTo
    <3>2. numRequests'[x] = numRequests[x]
      BY <2>3 DEF Edges
    <3> QED  BY <2>1, <3>1, <3>2
  <2> QED  BY <2>2, <2>3
<1> HIDE DEF E, e, root
<1>4. EdgesFinite'
  BY <1>2, <1>3 DEF EdgesFinite
<1>5. RequestAccounting'
  BY <1>2, <1>3 DEF RequestAccounting
<1> QED  BY <1>1, <1>4, <1>5

-----------------------------------------------------------------------------
(* The last of a sequence of nodes, and the rest.                          *)
LEMMA FrontAndLast ==
  ASSUME NEW s \in Seq(Node), s # <<>>
  PROVE  Last(s) \in Node /\ Front(s) \in Seq(Node)
<1>1. Len(s) \in Nat \ {0}
  OBVIOUS
<1> QED  BY <1>1 DEF Last, Front

(* Nodes have finitely many parents, so visiting them is a stack of calls. *)
LEMMA ParentsFinite ==
  ASSUME Graph, Edges, NEW n
  PROVE  Len(definiteParents(n)) \in Nat /\ Len(esrParentsAt(n)) \in Nat
<1>1. n \in Node => operandNodes(n) \in Seq(Node)
  BY DEF Graph
<1>2. isLookupNode(n) \/ isRequestNode(n) \/ isOutputNode(n) => n \in Node
  BY DEF isLookupNode, isRequestNode, isOutputNode, IsA
<1>3. n \in Node => Len(<<operatorNode(n)>> \o operandNodes(n)) \in Nat
  BY <1>1
<1>4. n \in Node => Len(<<operatorNode(n)>> \o operandNodes(n) \o <<requestNode(n)>>) \in Nat
  BY <1>1
<1>5. Len(definiteParents(n)) \in Nat
  BY <1>2, <1>3, <1>4 DEF definiteParents
<1>6. Len(esrParentsAt(n)) \in Nat
  BY <1>2 DEF esrParentsAt, Edges
<1> QED  BY <1>5, <1>6

(* A finite sequence of nodes can be visited in reverse.                   *)
LEMMA ReverseFinite ==
  ASSUME NEW s, Len(s) \in Nat
  PROVE  Len(Reverse(s)) \in Nat
BY DEF Reverse

(* Regenerating a node's parents is a legal stack.                         *)
LEMMA RegenParentsCalling ==
  ASSUME Graph, Edges, NEW n, NEW r
  PROVE  Calling(regenParents(n, r))
<1>1. Calling(Calls("regen", definiteParents(n), r))
  BY ParentsFinite, CallingEach DEF RequestCalls
<1>2. Calling(<<Call("regenESRParents", n, r)>>)
  BY CallingTask DEF RequestCalls
<1> QED  BY <1>1, <1>2, CallingBoth DEF regenParents

(* And so is extracting them.                                              *)
LEMMA ExtractParentsCalling ==
  ASSUME Graph, Edges, NEW n
  PROVE  Calling(extractParents(n))
<1>1. Calling(Calls("extract", Reverse(definiteParents(n)), FALSE))
  BY ParentsFinite, ReverseFinite, CallingEach DEF RequestCalls
<1>2. Calling(<<Call("extractESRParents", n, FALSE)>>)
  BY CallingTask DEF RequestCalls
<1> QED  BY <1>1, <1>2, CallingBoth DEF extractParents

(* An output node and its request node are nodes, and neighbours.          *)
LEMMA Paired ==
  ASSUME Graph, NEW out, isOutputNode(out)
  PROVE  out \in Node /\ requestNode(out) \in Node /\ outputNode(requestNode(out)) = out
BY NodesAssumption DEF Graph, isOutputNode, IsA, requestNode, outputNode, Node

(* apply and unapply call evalRequests and unevalRequests on a request     *)
(* node whose output node exists.                                          *)
LEMMA ApplyCalling ==
  ASSUME NEW req \in Node, outputNode(req) \in Node, NEW out, NEW r
  PROVE  Calling(apply(req, out, r))
BY DEF Calling, CallOK, Call, Range, RequestCalls, apply

(* The same for unapply.                                                   *)
LEMMA UnapplyCalling ==
  ASSUME Graph, NEW out, isOutputNode(out)
  PROVE  Calling(unapply(out))
<1>1. requestNode(out) \in Node /\ outputNode(requestNode(out)) = out /\ out \in Node
  BY Paired
<1> DEFINE S == {Call("unapplyPSP", out, FALSE), Call("extractESRParents", out, FALSE),
                 Call("unevalRequests", requestNode(out), FALSE),
                 Call("unapplyPSP", requestNode(out), FALSE)}
<1>2. \A c \in S : CallOK(c)
  BY <1>1 DEF CallOK, Call, RequestCalls
<1>3. unapply(out) \in Seq(S)
  BY DEF unapply
<1> HIDE DEF S
<1> QED  BY <1>2, <1>3, CallingFrom

-----------------------------------------------------------------------------
(* Steps that leave the nodes and the ESR edges alone.                     *)
LEMMA QuietButDatabases ==
  ASSUME IInv, UNCHANGED <<node, esrVars>>, StackOK', DatabaseOK',
         omega'.families \cup rhoDB'.families \subseteq omega.families \cup rhoDB.families,
         results' \in Seq(Node), rcs' \subseteq Node, ccs' \subseteq Node
  PROVE  IInv'
<1>1. Graph'
  BY DEF IInv, TypeOK, Graph, isRequestNode, isOutputNode, IsA, operandNodes
<1>2. Edges'
  BY DEF IInv, TypeOK, Edges, esrVars
<1>3. EdgesFinite' /\ RequestAccounting'
  BY DEF IInv, EdgesFinite, RequestAccounting, esrVars
<1> QED  BY <1>1, <1>2, <1>3 DEF IInv, TypeOK

(* The same when the databases stay as they are too.                       *)
LEMMA Quiet ==
  ASSUME IInv, UNCHANGED <<node, esrVars, dbVars>>, StackOK',
         results' \in Seq(Node), rcs' \subseteq Node, ccs' \subseteq Node
  PROVE  IInv'
<1>1. DatabaseOK' /\ omega'.families = omega.families /\ rhoDB'.families = rhoDB.families
  BY DEF IInv, DatabaseOK, dbVars
<1> QED  BY <1>1, QuietButDatabases

(* A quiet step that pushes legal calls keeps the invariant.               *)
LEMMA Pushed ==
  ASSUME IInv, todo # <<>>, NEW cs, Calling(cs), ReturnAfter(cs) \/ LoopAfter(cs),
         UNCHANGED <<node, esrVars, dbVars, results, rcs, ccs>>
  PROVE  IInv'
<1>1. StackOK'
  BY ReturnedAfter, LoopedAfter DEF IInv
<1> QED  BY <1>1, Quiet DEF IInv, TypeOK

(* A quiet step that returns keeps the invariant.                          *)
LEMMA Popped1 ==
  ASSUME IInv, todo # <<>>, Return,
         UNCHANGED <<node, esrVars, dbVars>>,
         results' \in Seq(Node), rcs' \subseteq Node, ccs' \subseteq Node
  PROVE  IInv'
BY Returned, Quiet DEF IInv

(* An exception keeps the invariant.                                       *)
LEMMA Raised ==
  ASSUME IInv, NEW e, Raise(e)
  PROVE  IInv'
<1>1. StackOK'
  BY CallingNothing DEF Raise, StackOK, Calling, CallOK, RequestCalls, outputNode, Node
<1>2. UNCHANGED <<node, esrVars, dbVars, rcs, ccs>> /\ results' \in Seq(Node)
  BY DEF Raise, traceVars, graphVars, choiceVars
<1> QED  BY <1>1, <1>2, Quiet DEF IInv, TypeOK

(* The empty trace satisfies the invariant.                                *)
LEMMA InitIInv == Init => IInv
<1> SUFFICES ASSUME Init PROVE IInv
  OBVIOUS
<1>1. Graph
  <2>1. DOMAIN node = Node
    BY DEF Init
  <2>2. \A n \in Node : node[n] \in {BlankNode, ConstantNode}
    BY DEF Init
  <2>3. \A x \in {BlankNode, ConstantNode} : x.operands = <<>> /\ x.c \notin {"request", "output"}
    BY DEF BlankNode, ConstantNode
  <2>4. \A n \in Node : operandNodes(n) \in Seq(Node)
    BY <2>2, <2>3, EmptySeq DEF operandNodes
  <2>5. \A n \in Node : ~isRequestNode(n) /\ ~isOutputNode(n)
    BY <2>2, <2>3 DEF isRequestNode, isOutputNode, IsA
  <2> QED  BY <2>1, <2>4, <2>5 DEF Graph
<1>2. Edges
  <2>1. esrParents = [n \in Node |-> <<>>] /\ numRequests = [n \in Node |-> 0]
    BY DEF Init
  <2>2. spFamilies = {} /\ omega.families = {} /\ rhoDB.families = {}
    BY DEF Init, EmptyDB
  <2> QED  BY <2>1, <2>2 DEF Edges
<1>3. ESREdges(esrParents) = {}
  <2>1. \A n \in Node : esrParents[n] = <<>>
    BY DEF Init
  <2> QED  BY <2>1 DEF ESREdges
<1>4. \A root \in Node : EdgesTo(root, ESREdges(esrParents)) = {}
  BY <1>3 DEF EdgesTo
<1>5. EdgesFinite /\ RequestAccounting
  BY <1>4, FS_EmptySet DEF EdgesFinite, RequestAccounting, Init
<1>6. StackOK
  BY CallingNothing DEF StackOK, Init
<1>7. results = <<>> /\ rcs = {} /\ ccs = {}
  BY DEF Init
<1>8. results \in Seq(Node) /\ rcs \subseteq Node /\ ccs \subseteq Node
  BY <1>7, EmptySeq
<1>9. DatabaseOK
  BY DEF Init, EmptyDB, DatabaseOK
<1> QED  BY <1>1, <1>2, <1>5, <1>6, <1>8, <1>9 DEF IInv, TypeOK

-----------------------------------------------------------------------------
(* Nodes that come into being.                                             *)
LEMMA NodeSet ==
  ASSUME Graph, NEW n, NEW x, x.operands = <<>>, x.c \notin {"request", "output"},
         node' = [node EXCEPT ![n] = x]
  PROVE  Graph'
<1>1. \A m \in Node : node'[m] = IF m = n THEN x ELSE node[m]
  BY DEF Graph
<1>2. DOMAIN node' = Node
  BY DEF Graph
<1>3. ASSUME NEW m \in Node
      PROVE  /\ node'[m].operands \in Seq(Node)
             /\ node'[m].c = "request" => outputNode(m) \in Node
             /\ node'[m].c = "output" => requestNode(m) \in Node
  <2>1. CASE m = n
    BY <1>1, <2>1, EmptySeq
  <2>2. CASE m # n
    BY <1>1, <2>2 DEF Graph, operandNodes, isRequestNode, isOutputNode, IsA
  <2> QED  BY <2>1, <2>2
<1> QED  BY <1>2, <1>3 DEF Graph, operandNodes, isRequestNode, isOutputNode, IsA

(* A request node and its output node come into being together.            *)
LEMMA PairSet ==
  ASSUME Graph, NEW n \in Node, outputNode(n) \in Node, NEW args \in Seq(Node), NEW op, NEW env,
         node' = [node EXCEPT ![n] = RequestNode(op, args, env),
                              ![outputNode(n)] = OutputNode(op, args, env)]
  PROVE  Graph'
<1>1. requestNode(outputNode(n)) = n /\ outputNode(n) # n
  BY NodesAssumption DEF requestNode, outputNode, Node
<1>2. \A m \in Node : node'[m] = IF m = outputNode(n) THEN OutputNode(op, args, env)
                                 ELSE IF m = n THEN RequestNode(op, args, env) ELSE node[m]
  BY <1>1 DEF Graph
<1>3. DOMAIN node' = Node
  BY DEF Graph
<1>4. /\ RequestNode(op, args, env).operands = args /\ RequestNode(op, args, env).c = "request"
      /\ OutputNode(op, args, env).operands = args /\ OutputNode(op, args, env).c = "output"
  BY DEF RequestNode, OutputNode
<1>5. ASSUME NEW m \in Node
      PROVE  /\ node'[m].operands \in Seq(Node)
             /\ node'[m].c = "request" => outputNode(m) \in Node
             /\ node'[m].c = "output" => requestNode(m) \in Node
  <2>1. CASE m = n
    BY <1>1, <1>2, <1>4, <2>1
  <2>2. CASE m = outputNode(n)
    BY <1>1, <1>2, <1>4, <2>2
  <2>3. CASE m # n /\ m # outputNode(n)
    BY <1>2, <2>3 DEF Graph, operandNodes, isRequestNode, isOutputNode, IsA
  <2> QED  BY <2>1, <2>2, <2>3
<1> QED  BY <1>3, <1>5 DEF Graph, operandNodes, isRequestNode, isOutputNode, IsA

(* Collecting a node makes it blank.                                       *)
LEMMA NodesReset ==
  ASSUME Graph, DOMAIN node' = Node, \A n \in Node : node'[n] \in {BlankNode, node[n]}
  PROVE  Graph'
<1>1. BlankNode.operands = <<>> /\ BlankNode.c = "blank"
  BY DEF BlankNode
<1>2. ASSUME NEW n \in Node
      PROVE  /\ node'[n].operands \in Seq(Node)
             /\ node'[n].c = "request" => outputNode(n) \in Node
             /\ node'[n].c = "output" => requestNode(n) \in Node
  <2>1. CASE node'[n] = BlankNode
    BY <1>1, <2>1, EmptySeq
  <2>2. CASE node'[n] = node[n]
    BY <2>2 DEF Graph, operandNodes, isRequestNode, isOutputNode, IsA
  <2> QED  BY <2>1, <2>2
<1> QED  BY <1>2 DEF Graph, operandNodes, isRequestNode, isOutputNode, IsA

(* A step that sets nodes and returns some, and pushes legal calls.        *)
LEMMA Grown ==
  ASSUME IInv, Graph', StackOK', results' \in Seq(Node), UNCHANGED <<esrVars, dbVars, rcs, ccs>>
  PROVE  IInv'
<1>1. Edges'
  BY DEF IInv, TypeOK, Edges, esrVars, dbVars
<1>2. EdgesFinite' /\ RequestAccounting'
  BY DEF IInv, EdgesFinite, RequestAccounting, esrVars
<1> QED  BY <1>1, <1>2 DEF IInv, TypeOK, DatabaseOK, dbVars

(* A step that changes ESR edges and keeps their accounts.                 *)
Accounts == /\ esrParents \in [Node -> Seq(Node)] /\ numRequests \in [Node -> Int]
            /\ EdgesFinite /\ RequestAccounting

(* Edges and counts that stay the same stay in agreement.                  *)
LEMMA Recounted ==
  ASSUME IInv, Accounts', StackOK', DatabaseOK', UNCHANGED node,
         \A f \in spFamilies' \cup omega'.families \cup rhoDB'.families : f.root \in Node,
         results' \in Seq(Node), rcs' \subseteq Node, ccs' \subseteq Node
  PROVE  IInv'
<1>1. Graph'
  BY DEF IInv, TypeOK, Graph, isRequestNode, isOutputNode, IsA, operandNodes
<1>2. Edges'
  BY DEF Edges, Accounts
<1> QED  BY <1>1, <1>2 DEF IInv, TypeOK, Accounts

-----------------------------------------------------------------------------
(* Constraining a choice keeps the nodes and their registries.             *)
LEMMA ConstrainedKeeps ==
  ASSUME IInv, todo # <<>>, NEW app, NEW v, ConstrainAt(app, v)
  PROVE  IInv'
<1>1. CASE \E e : Raise(e)
  BY <1>1, Raised
<1>2. CASE ~\E e : Raise(e)
  <2>1. /\ isConstrainable(app) /\ ccs' = ccs \cup {app} /\ rcs' = rcs \ {app} /\ Return
        /\ UNCHANGED <<node, esrVars, dbVars, results>>
    BY <1>2 DEF ConstrainAt, constrain, graphVars
  <2>2. app \in Node
    BY <2>1 DEF isConstrainable, isOutputNode, IsA
  <2> QED  BY <2>1, <2>2, Popped1 DEF IInv, TypeOK
<1> QED  BY <1>1, <1>2

(* Every step of regeneration keeps the invariant.                         *)
LEMMA RegenKeepsIInv ==
  ASSUME IInv, RegenStep
  PROVE  IInv'
<1> USE DEF Running
<1>0. Graph /\ Edges /\ StackOK /\ results \in Seq(Node) /\ rcs \subseteq Node /\ ccs \subseteq Node
  BY DEF IInv, TypeOK
<1>1. CASE Attach
  <2>1. Calling(regenParents(Top.n, Top.r) \o <<Call("absorb", Top.n, Top.r)>>)
    BY <1>0, RegenParentsCalling, CallingTask, CallingBoth DEF RequestCalls
  <2> QED  BY <1>1, <2>1, Pushed DEF Attach, traceVars, graphVars, choiceVars
<1>2. CASE RegenESRParents
  <2>1. Calling(Calls("regen", esrParentsAt(Top.n), Top.r))
    BY <1>0, ParentsFinite, CallingEach DEF RequestCalls
  <2> QED  BY <1>2, <2>1, Pushed DEF RegenESRParents, traceVars, graphVars, choiceVars
<1>3. CASE Absorb
  <2>1. CASE \E e : Raise(e)
    BY <2>1, Raised
  <2>2. CASE ~\E e : Raise(e)
    BY <1>0, <1>3, <2>2, Popped1 DEF Absorb, graphVars
  <2> QED  BY <2>1, <2>2
<1>4. CASE Regen
  <2> DEFINE n == Top.n
             compute == IF isLookupNode(n) THEN <<Call("propagateLookup", n, Top.r)>>
                        ELSE IF isRequestNode(n)
                               THEN <<Call("applyPSP", n, Top.r), Call("evalRequests", n, Top.r)>>
                               ELSE <<Call("applyPSP", n, Top.r)>>
             first == isResampling(n) /\ regenCount(n) = 0
             cs == (IF first THEN regenParents(n, Top.r) \o compute ELSE <<>>)
                   \o <<Call("regenned", n, Top.r)>>
  <2>1. isRequestNode(n) => n \in Node /\ outputNode(n) \in Node
    BY <1>0 DEF Graph, isRequestNode, IsA
  <2>2. isRequestNode(n) => Calling(<<Call("applyPSP", n, Top.r), Call("evalRequests", n, Top.r)>>)
    BY <2>1 DEF Calling, CallOK, Call, Range, RequestCalls
  <2>3. Calling(compute)
    BY <2>2, CallingTask DEF RequestCalls
  <2>4. Calling(IF first THEN regenParents(n, Top.r) \o compute ELSE <<>>)
    <3> HIDE DEF compute, first, n
    <3> QED  BY <1>0, <2>3, CallingBoth, CallingNothing, RegenParentsCalling
  <2>5. Calling(cs)
    BY <2>4, CallingTask, CallingBoth DEF RequestCalls
  <2>6. ReturnAfter(cs) /\ todo # <<>> /\ UNCHANGED <<node, esrVars, dbVars, results, rcs, ccs>>
    BY <1>4 DEF Regen, traceVars, graphVars, choiceVars
  <2> HIDE DEF cs
  <2> QED  BY <2>5, <2>6, Pushed
<1>5. CASE Regenned
  <2>1. Calling(<<Call("regen", value[Top.n].maker, Top.r)>>) /\ Calling(<<>>)
    BY CallingTask, CallingNothing DEF RequestCalls
  <2> QED  BY <1>5, <2>1, Pushed DEF Regenned, traceVars, graphVars, choiceVars
<1>6. CASE PropagateLookup
  BY <1>0, <1>6, Popped1 DEF PropagateLookup, graphVars, choiceVars
<1>7. CASE EvalFamily
  <2> DEFINE x == Top.exp
             source == findSymbol(Top.env, x.s)
  <2>1. CASE \E e : Raise(e)
    BY <2>1, Raised
  <2>2. CASE ReturnAfter(evalLookup(source, Top.r)) /\ UNCHANGED <<traceVars, dbVars, results>>
    <3>1. Calling(evalLookup(source, Top.r))
      BY DEF Calling, CallOK, Call, Range, RequestCalls, evalLookup
    <3> QED  BY <1>7, <2>2, <3>1, Pushed DEF EvalFamily, traceVars, graphVars, choiceVars
  <2>3. CASE /\ \E n \in Builtins : n = x.n /\ results' = Append(results, n)
             /\ Return /\ UNCHANGED <<traceVars, dbVars>>
    <3>1. Builtins \subseteq Node
      BY NodesAssumption DEF Builtins, Node
    <3>2. results' \in Seq(Node)
      BY <1>0, <2>3, <3>1
    <3> QED  BY <1>0, <1>7, <2>3, <3>2, Popped1 DEF EvalFamily, traceVars, graphVars, choiceVars
  <2>4. CASE /\ \E n \in Node : /\ node'    = [node EXCEPT ![n] = ConstantNode]
                                 /\ results' = Append(results, n)
             /\ Return /\ UNCHANGED <<esrVars, choiceVars, dbVars>>
    <3>1. PICK n \in Node : node' = [node EXCEPT ![n] = ConstantNode] /\ results' = Append(results, n)
      BY <2>4
    <3>2. Graph'
      BY <1>0, <3>1, NodeSet DEF ConstantNode, BlankNode
    <3>3. results' \in Seq(Node)
      BY <1>0, <3>1
    <3>4. StackOK'
      BY <1>0, <1>7, <2>4, Returned DEF EvalFamily
    <3> QED  BY <2>4, <3>2, <3>3, <3>4, Grown DEF choiceVars
  <2>5. CASE LoopAfter(<<Eval(x.exps[Top.i], Top.env, Top.r)>>) /\ UNCHANGED <<traceVars, dbVars, results>>
    <3>1. Calling(<<Eval(x.exps[Top.i], Top.env, Top.r)>>)
      BY CallingOne DEF CallOK, Call, Eval, RequestCalls
    <3> QED  BY <1>7, <2>5, <3>1, Pushed DEF EvalFamily, traceVars, graphVars, choiceVars
  <2>6. CASE ReturnAfter(<<[Top EXCEPT !.t = "createApplicationNodes"]>>) /\ UNCHANGED <<traceVars, dbVars, results>>
    <3>1. Calling(<<[Top EXCEPT !.t = "createApplicationNodes"]>>)
      BY <1>0, <1>7, TopOK, CallingOne DEF CallOK, RequestCalls, EvalFamily
    <3> QED  BY <1>7, <2>6, <3>1, Pushed DEF EvalFamily, traceVars, graphVars, choiceVars
  <2> QED  BY <1>7, <2>1, <2>2, <2>3, <2>4, <2>5, <2>6 DEF EvalFamily
<1>8. CASE CreateLookupNode
  <2>1. PICK n \in Node : node' = [node EXCEPT ![n] = LookupNode(Top.n)] /\ results' = Append(results, n)
    BY <1>8 DEF CreateLookupNode
  <2>2. Graph'
    BY <1>0, <2>1, NodeSet DEF LookupNode, BlankNode
  <2>3. results' \in Seq(Node)
    BY <1>0, <2>1
  <2>4. StackOK'
    BY <1>0, <1>8, Returned DEF CreateLookupNode
  <2> QED  BY <1>8, <2>2, <2>3, <2>4, Grown DEF CreateLookupNode, choiceVars
<1>9. CASE CreateApplicationNodes
  <2>1. PICK first \in 1..Len(results), req \in Node :
          LET subs == SubSeq(results, first, Len(results))
              out  == outputNode(req)
          IN /\ FreePair(req)
             /\ node' = [node EXCEPT ![req] = RequestNode(Head(subs), Tail(subs), Top.env),
                                     ![out] = OutputNode(Head(subs), Tail(subs), Top.env)]
             /\ results' = Append(SubSeq(results, 1, first - 1), out)
             /\ ReturnAfter(apply(req, out, Top.r))
    BY <1>9 DEF CreateApplicationNodes
  <2> DEFINE subs == SubSeq(results, first, Len(results))
  <2>2. outputNode(req) \in Node
    BY <2>1 DEF FreePair, outputNode
  <2>3. subs \in Seq(Node) /\ subs # <<>>
    <3>1. subs \in Seq(Node)
      BY <1>0
    <3>2. Len(subs) = Len(results) - first + 1
      BY <1>0
    <3>3. Len(subs) > 0
      BY <1>0, <3>2
    <3> HIDE DEF subs
    <3> QED  BY <3>1, <3>3
  <2>4. Tail(subs) \in Seq(Node)
    BY <2>3
  <2>5. Graph'
    BY <1>0, <2>1, <2>2, <2>4, PairSet
  <2>6. results' \in Seq(Node)
    <3>1. SubSeq(results, 1, first - 1) \in Seq(Node)
      BY <1>0
    <3> QED  BY <2>1, <2>2, <3>1
  <2>7. StackOK'
    <3>1. Calling(apply(req, outputNode(req), Top.r))
      BY <2>2, ApplyCalling
    <3> QED  BY <1>0, <1>9, <2>1, <3>1, ReturnedAfter DEF CreateApplicationNodes
  <2> QED  BY <1>9, <2>5, <2>6, <2>7, Grown DEF CreateApplicationNodes, choiceVars
<1>10. CASE ApplyPSP
  <2>1. CASE \E e : Raise(e)
    BY <2>1, Raised
  <2>2. CASE ~\E e : Raise(e)
    <3>1. /\ todo # <<>> /\ Return /\ UNCHANGED <<node, esrVars, dbVars, results, ccs>>
          /\ rcs' = IF isRandom(Top.n) THEN rcs \cup {Top.n} ELSE rcs
      BY <1>10, <2>2 DEF ApplyPSP, graphVars
    <3>2. rcs' \subseteq Node
      BY <1>0, <3>1 DEF isRandom, isOutputNode, IsA
    <3> QED  BY <1>0, <3>1, <3>2, Popped1
  <2> QED  BY <2>1, <2>2
<1>11. CASE EvalRequests
  <2> DEFINE n == Top.n
             esr == Head(value[n].esrs)
  <2>1. n \in Node /\ outputNode(n) \in Node
    BY <1>0, <1>11, TopOK DEF EvalRequests, CallOK, RequestCalls
  <2>2. CASE Return /\ UNCHANGED <<traceVars, dbVars, results>>
    BY <1>0, <1>11, <2>2, Popped1 DEF EvalRequests, traceVars, graphVars, choiceVars
  <2>3. CASE /\ \E f \in Family(makerOf(n), esr.id) : addESREdge(f.root, outputNode(n))
             /\ Return /\ UNCHANGED <<node, spFamilies, choiceVars, dbVars, results>>
    <3>1. PICK f \in Family(makerOf(n), esr.id) : addESREdge(f.root, outputNode(n))
      BY <2>3
    <3>2. f.root \in Node
      BY <1>0 DEF Family, Edges
    <3>3. StackOK'
      BY <1>0, <1>11, <2>3, Returned DEF EvalRequests
    <3>4. Accounts'
      BY <1>0, <2>1, <3>1, <3>2, AddKeepsAccounts DEF IInv, Accounts
    <3> QED  BY <1>0, <2>3, <3>3, <3>4, Recounted DEF choiceVars, dbVars, IInv, DatabaseOK, Edges
  <2>4. CASE \E f \in Stored(makerOf(n), esr.id) :
               /\ ReturnAfter(<<Call("restore", f.root, Top.r), Call("registerFamily", n, Top.r)>>)
               /\ results' = Append(results, f.root)
               /\ UNCHANGED <<traceVars, dbVars>>
    <3>1. PICK f \in Stored(makerOf(n), esr.id) :
               /\ ReturnAfter(<<Call("restore", f.root, Top.r), Call("registerFamily", n, Top.r)>>)
               /\ results' = Append(results, f.root)
      BY <2>4
    <3>2. results' \in Seq(Node)
      BY <1>0, <3>1 DEF Stored, Edges
    <3>3. Calling(<<Call("restore", f.root, Top.r), Call("registerFamily", n, Top.r)>>)
      BY <2>1 DEF Calling, CallOK, Call, Range, RequestCalls
    <3>4. StackOK'
      BY <1>0, <1>11, <3>1, <3>3, ReturnedAfter DEF EvalRequests
    <3> QED  BY <1>0, <2>4, <3>2, <3>4, Quiet DEF traceVars, graphVars, choiceVars
  <2>5. CASE /\ ReturnAfter(<<Eval(esr.exp, esr.env, Top.r), Call("registerFamily", n, Top.r)>>)
             /\ UNCHANGED <<traceVars, dbVars, results>>
    <3>1. CallOK(Eval(esr.exp, esr.env, Top.r)) /\ CallOK(Call("registerFamily", n, Top.r))
      BY <2>1 DEF CallOK, Call, Eval, RequestCalls
    <3>2. Calling(<<Eval(esr.exp, esr.env, Top.r), Call("registerFamily", n, Top.r)>>)
      BY <3>1, CallingTwo
    <3> QED  BY <1>11, <2>5, <3>2, Pushed DEF EvalRequests, traceVars, graphVars, choiceVars
  <2> QED  BY <1>11, <2>2, <2>3, <2>4, <2>5 DEF EvalRequests
<1>12. CASE RegisterFamily
  <2> DEFINE n == Top.n
             root == Last(results)
  <2>1. n \in Node /\ outputNode(n) \in Node
    BY <1>0, <1>12, TopOK DEF RegisterFamily, CallOK, RequestCalls
  <2>2. root \in Node /\ Front(results) \in Seq(Node)
    BY <1>0, <1>12, FrontAndLast DEF RegisterFamily
  <2>3. CASE \E e : Raise(e)
    BY <2>3, Raised
  <2>4. CASE ~\E e : Raise(e)
    <3>1. \E id : spFamilies' = spFamilies \cup {[maker |-> makerOf(n), id |-> id, root |-> root]}
      BY <1>12, <2>4 DEF RegisterFamily
    <3>2. /\ addESREdge(root, outputNode(n)) /\ results' = Front(results) /\ Return
          /\ UNCHANGED <<node, choiceVars, dbVars>>
      BY <1>12, <2>4 DEF RegisterFamily
    <3>3. StackOK'
      BY <1>0, <1>12, <3>2, Returned DEF RegisterFamily
    <3>4. Accounts'
      BY <1>0, <2>1, <2>2, <3>2, AddKeepsAccounts DEF IInv, Accounts
    <3>5. \A f \in spFamilies' : f.root \in Node
      BY <1>0, <2>2, <3>1 DEF Edges
    <3> QED  BY <1>0, <2>2, <3>2, <3>3, <3>4, <3>5, Recounted DEF choiceVars, dbVars, IInv, DatabaseOK, Edges
  <2> QED  BY <2>3, <2>4
<1>13. CASE Restore
  <2> DEFINE n == Top.n
             cs == CASE isLookupNode(n) -> regenParents(n, TRUE) \o <<Call("reconnectLookup", n, TRUE)>>
                     [] isOutputNode(n) -> Calls("restore", <<operatorNode(n)>> \o operandNodes(n), TRUE)
                                           \o apply(requestNode(n), n, TRUE)
                     [] OTHER           -> <<>>
  <2>1. Calling(regenParents(n, TRUE) \o <<Call("reconnectLookup", n, TRUE)>>)
    BY <1>0, RegenParentsCalling, CallingTask, CallingBoth DEF RequestCalls
  <2>2. isOutputNode(n) => Calling(Calls("restore", <<operatorNode(n)>> \o operandNodes(n), TRUE)
                                   \o apply(requestNode(n), n, TRUE))
    <3> SUFFICES ASSUME isOutputNode(n)
                 PROVE  Calling(Calls("restore", <<operatorNode(n)>> \o operandNodes(n), TRUE)
                                \o apply(requestNode(n), n, TRUE))
      OBVIOUS
    <3> HIDE DEF cs
    <3>1. n \in Node /\ requestNode(n) \in Node /\ outputNode(requestNode(n)) = n
      BY <1>0, Paired
    <3>2. Len(<<operatorNode(n)>> \o operandNodes(n)) \in Nat
      BY <1>0, <3>1 DEF Graph
    <3>3. Calling(apply(requestNode(n), n, TRUE))
      BY <3>1, ApplyCalling
    <3> QED  BY <3>2, <3>3, CallingEach, CallingBoth DEF RequestCalls
  <2>3. Calling(cs)
    BY <2>1, <2>2, CallingNothing
  <2>4. ReturnAfter(cs) /\ todo # <<>> /\ UNCHANGED <<node, esrVars, dbVars, results, rcs, ccs>>
    BY <1>13 DEF Restore, choiceVars
  <2> HIDE DEF cs
  <2> QED  BY <2>3, <2>4, Pushed
<1>14. CASE ReconnectLookup
  BY <1>0, <1>14, Popped1 DEF ReconnectLookup, graphVars, choiceVars
<1>15. CASE GetAndConstrain
  BY <1>0, <1>15, ConstrainedKeeps DEF GetAndConstrain
<1>16. CASE Constrain
  BY <1>0, <1>16, ConstrainedKeeps DEF Constrain
<1>17. CASE PropagateConstraints
  <2>1. CASE Return
    BY <1>0, <1>17, <2>1, Popped1 DEF PropagateConstraints, traceVars, graphVars, choiceVars
  <2>2. CASE \E cs : Calling(cs) /\ LoopAfter(cs)
    BY <1>17, <2>2, Pushed DEF PropagateConstraints, traceVars, graphVars, choiceVars
  <2>3. \A n, m, x : Calling(<<[Call("propagateToChildren", n, FALSE) EXCEPT !.exp = x]>>)
    BY CallingOne DEF CallOK, Call, RequestCalls
  <2>4. Return \/ \E cs : Calling(cs) /\ LoopAfter(cs)
    BY <1>17, <2>3, CallingNothing DEF PropagateConstraints
  <2> QED  BY <2>1, <2>2, <2>4
<1>18. CASE PropagateToChildren
  <2>1. Calling(<<[Top EXCEPT !.t = "propagateConstraint", !.n = children[Top.n][Top.i], !.i = 1]>>)
    BY <1>0, <1>18, TopOK, CallingOne DEF CallOK, RequestCalls, PropagateToChildren
  <2>2. CASE Return
    BY <1>0, <1>18, <2>2, Popped1 DEF PropagateToChildren, traceVars, graphVars, choiceVars
  <2>3. CASE ~Return
    BY <1>18, <2>1, <2>3, Pushed DEF PropagateToChildren, traceVars, graphVars, choiceVars
  <2> QED  BY <2>2, <2>3
<1>19. CASE PropagateConstraint
  <2>1. CASE \E e : Raise(e)
    BY <2>1, Raised
  <2>2. CASE ~\E e : Raise(e)
    <3>1. Calling(<<[Top EXCEPT !.t = "propagateToChildren"]>>)
      BY <1>0, <1>19, TopOK, CallingOne DEF CallOK, RequestCalls, PropagateConstraint
    <3>2. /\ todo # <<>> /\ ReturnAfter(<<[Top EXCEPT !.t = "propagateToChildren"]>>)
          /\ UNCHANGED <<node, esrVars, dbVars, results, rcs, ccs>>
      BY <1>19, <2>2 DEF PropagateConstraint, graphVars, choiceVars
    <3> QED  BY <3>1, <3>2, Pushed
  <2> QED  BY <2>1, <2>2
<1>20. CASE CheckRequests
  <2>1. CASE \E e : Raise(e)
    BY <2>1, Raised
  <2>2. CASE ~\E e : Raise(e)
    <3>1. Calling(<<Call("regenESRParents", Top.n, Top.r)>>)
      BY CallingTask DEF RequestCalls
    <3> QED  BY <1>20, <2>2, <3>1, Pushed DEF CheckRequests, traceVars, graphVars, choiceVars
  <2> QED  BY <2>1, <2>2
<1> QED
  BY <1>1, <1>2, <1>3, <1>4, <1>5, <1>6, <1>7, <1>8, <1>9, <1>10, <1>11, <1>12, <1>13, <1>14,
     <1>15, <1>16, <1>17, <1>18, <1>19, <1>20 DEF RegenStep
-----------------------------------------------------------------------------
(* Every step of detach and uneval keeps the invariant.                    *)
LEMMA DetachKeepsIInv ==
  ASSUME IInv, DetachStep
  PROVE  IInv'
<1> USE DEF Running
<1>0. /\ Graph /\ Edges /\ StackOK /\ DatabaseOK
      /\ results \in Seq(Node) /\ rcs \subseteq Node /\ ccs \subseteq Node
  BY DEF IInv, TypeOK
<1>1. CASE DetachNode
  <2>1. Calling(<<Call("unabsorb", Top.n, FALSE)>> \o extractParents(Top.n))
    BY <1>0, ExtractParentsCalling, CallingTask, CallingBoth DEF RequestCalls
  <2> QED  BY <1>1, <2>1, Pushed DEF DetachNode, traceVars, graphVars, choiceVars
<1>2. CASE ExtractESRParents
  <2>1. Calling(Calls("extract", Reverse(esrParentsAt(Top.n)), FALSE))
    BY <1>0, ParentsFinite, ReverseFinite, CallingEach DEF RequestCalls
  <2> QED  BY <1>2, <2>1, Pushed DEF ExtractESRParents, traceVars, graphVars, choiceVars
<1>3. CASE Unabsorb
  <2>1. CASE \E e : Raise(e)
    BY <2>1, Raised
  <2>2. CASE ~\E e : Raise(e)
    BY <1>0, <1>3, <2>2, Popped1 DEF Unabsorb, graphVars
  <2> QED  BY <2>1, <2>2
<1>4. CASE Extract
  <2> DEFINE cs == (IF refersToAAA(Top.n) THEN <<Call("extract", value[Top.n].maker, FALSE)>> ELSE <<>>)
                   \o <<Call("uncount", Top.n, FALSE)>>
  <2>1. Calling(cs)
    BY CallingTask, CallingNothing, CallingBoth DEF RequestCalls
  <2>2. ReturnAfter(cs) /\ todo # <<>> /\ UNCHANGED <<node, esrVars, dbVars, results, rcs, ccs>>
    BY <1>4 DEF Extract, traceVars, graphVars, choiceVars
  <2> HIDE DEF cs
  <2> QED  BY <2>1, <2>2, Pushed
<1>5. CASE Uncount
  <2>1. CASE \E e : Raise(e)
    BY <2>1, Raised
  <2>2. CASE ~\E e : Raise(e)
    <3> DEFINE n == Top.n
               clear == IF isRequestNode(n)
                          THEN <<Call("unevalRequests", n, FALSE), Call("unapplyPSP", n, FALSE)>>
                          ELSE <<Call("unapplyPSP", n, FALSE)>>
               last == isResampling(n) /\ regenCount(n) = 1
               undo == IF isApplicationNode(n) THEN clear ELSE <<>>
               cs == IF ~last THEN <<>> ELSE undo \o extractParents(n)
    <3>1. isRequestNode(n) => n \in Node /\ outputNode(n) \in Node
      BY <1>0 DEF Graph, isRequestNode, IsA
    <3>2. isRequestNode(n) => Calling(<<Call("unevalRequests", n, FALSE), Call("unapplyPSP", n, FALSE)>>)
      <4>1. CallOK(Call("unapplyPSP", n, FALSE)) /\ (isRequestNode(n) => CallOK(Call("unevalRequests", n, FALSE)))
        BY <3>1 DEF CallOK, Call, RequestCalls
      <4> QED  BY <4>1, CallingTwo
    <3>3. Calling(undo)
      BY <3>2, CallingTask, CallingNothing DEF RequestCalls
    <3>4. Calling(cs)
      <4> HIDE DEF undo, last, n
      <4> QED  BY <1>0, <3>3, CallingBoth, CallingNothing, ExtractParentsCalling
    <3>5. ReturnAfter(cs) /\ todo # <<>> /\ UNCHANGED <<node, esrVars, dbVars, results, rcs, ccs>>
      BY <1>5, <2>2 DEF Uncount, graphVars, choiceVars
    <3> HIDE DEF cs
    <3> QED  BY <3>4, <3>5, Pushed
  <2> QED  BY <2>1, <2>2
<1>6. CASE UnapplyPSP
  <2>1. CASE \E e : Raise(e)
    BY <2>1, Raised
  <2>2. CASE ~\E e : Raise(e)
    <3>1. /\ todo # <<>> /\ Return
          /\ UNCHANGED <<node, esrVars, results, ccs, rhoDB>>
          /\ rcs' = IF isRandom(Top.n) THEN rcs \ {Top.n} ELSE rcs
          /\ \E v : omega' = [omega EXCEPT !.values[Top.n] = v]
      BY <1>6, <2>2 DEF UnapplyPSP, graphVars
    <3>2. omega'.families = omega.families /\ DatabaseOK'
      BY <1>0, <3>1 DEF DatabaseOK
    <3>3. rcs' \subseteq Node
      BY <1>0, <3>1
    <3>4. StackOK'
      BY <1>0, <3>1, Returned
    <3> QED  BY <1>0, <3>1, <3>2, <3>3, <3>4, QuietButDatabases
  <2> QED  BY <2>1, <2>2
<1>7. CASE UnevalFamily
  <2> DEFINE n == Top.n
             back == Calls("unevalFamily", Reverse(<<operatorNode(n)>> \o operandNodes(n)), FALSE)
  <2>1. CASE isConstantNode(n) /\ Return /\ UNCHANGED <<node, esrVars, choiceVars, dbVars, results>>
    BY <1>0, <1>7, <2>1, Popped1 DEF UnevalFamily, choiceVars
  <2>2. CASE ReturnAfter(extractParents(n)) /\ UNCHANGED <<node, esrVars, choiceVars, dbVars, results>>
    BY <1>0, <1>7, <2>2, ExtractParentsCalling, Pushed DEF UnevalFamily, choiceVars
  <2>3. CASE /\ isOutputNode(n) /\ ReturnAfter(unapply(n) \o back)
             /\ UNCHANGED <<node, esrVars, choiceVars, dbVars, results>>
    <3>1. Len(<<operatorNode(n)>> \o operandNodes(n)) \in Nat
      BY <1>0, <2>3, Paired DEF Graph
    <3>2. Calling(back)
      BY <3>1, ReverseFinite, CallingEach DEF RequestCalls
    <3>3. Calling(unapply(n) \o back)
      BY <1>0, <2>3, <3>2, UnapplyCalling, CallingBoth
    <3> QED  BY <1>7, <2>3, <3>3, Pushed DEF UnevalFamily, choiceVars
  <2> QED  BY <1>7, <2>1, <2>2, <2>3 DEF UnevalFamily
<1>8. CASE UnevalRequests
  <2> DEFINE n == Top.n
             out == outputNode(n)
             root == Last(esrParents[out])
  <2>1. CASE \E e : Raise(e)
    BY <2>1, Raised
  <2>2. CASE Return /\ UNCHANGED <<traceVars, dbVars, results>>
    BY <1>0, <1>8, <2>2, Popped1 DEF UnevalRequests, traceVars, graphVars, choiceVars
  <2>3. CASE /\ esrParents[out] # <<>>
             /\ esrParents'  = [esrParents EXCEPT ![out] = Front(@)]
             /\ numRequests' = [numRequests EXCEPT ![root] = @ - 1]
             /\ IF numRequests[root] = 1
                  THEN /\ \E F : spFamilies' = spFamilies \ F
                       /\ \E m, id : omega' = [omega EXCEPT !.families =
                                      @ \cup {[maker |-> m, id |-> id, root |-> root]}]
                       /\ ReturnAfter(<<Call("unevalFamily", root, FALSE)>>)
                  ELSE UNCHANGED <<spFamilies, omega>> /\ Return
             /\ UNCHANGED <<node, choiceVars, results, rhoDB>>
    <3>1. n \in Node /\ out \in Node
      BY <1>0, <1>8, TopOK DEF UnevalRequests, CallOK, RequestCalls
    <3>2. root \in Node
      BY <1>0, <2>3, <3>1, FrontAndLast DEF Edges
    <3>3. Accounts'
      BY <1>0, <2>3, <3>1, DropKeepsAccounts DEF IInv, Accounts
    <3>4. Calling(<<Call("unevalFamily", root, FALSE)>>)
      BY CallingTask DEF RequestCalls
    <3>5. StackOK'
      BY <1>0, <1>8, <2>3, <3>4, Returned, ReturnedAfter DEF UnevalRequests
    <3>6. DatabaseOK' /\ \A f \in omega'.families : f.root \in Node
      BY <1>0, <2>3, <3>2 DEF DatabaseOK, Edges
    <3>7. \A f \in spFamilies' \cup rhoDB'.families : f.root \in Node
      BY <1>0, <2>3 DEF Edges
    <3> QED  BY <1>0, <2>3, <3>3, <3>5, <3>6, <3>7, Recounted DEF choiceVars
  <2> QED  BY <1>8, <2>1, <2>2, <2>3 DEF UnevalRequests
<1>9. CASE Unconstrain
  <2>1. CASE \E e : Raise(e)
    BY <2>1, Raised
  <2>2. CASE ~\E e : Raise(e)
    <3>1. PICK app \in Node : ccs' = ccs \ {app} /\ rcs' = rcs \cup {app}
      BY <1>9, <2>2 DEF Unconstrain, isConstrainable, isOutputNode, IsA
    <3> QED  BY <1>0, <1>9, <2>2, <3>1, Popped1 DEF Unconstrain, graphVars
  <2> QED  BY <2>1, <2>2
<1> QED
  BY <1>1, <1>2, <1>3, <1>4, <1>5, <1>6, <1>7, <1>8, <1>9 DEF DetachStep

-----------------------------------------------------------------------------
(* The construction of a scaffold keeps the invariant.                     *)
LEMMA ScaffoldKeepsIInv ==
  ASSUME IInv, ExtendCandidateScaffold \/ ConstructScaffold
  PROVE  IInv'
<1> USE DEF Running
<1>0. StackOK /\ results \in Seq(Node) /\ rcs \subseteq Node /\ ccs \subseteq Node
  BY DEF IInv, TypeOK
<1>1. CASE ExtendCandidateScaffold
  <2>1. UNCHANGED <<todo, results, node, esrVars, dbVars, rcs, ccs>>
    BY <1>1 DEF ExtendCandidateScaffold, traceVars, graphVars, choiceVars
  <2>2. StackOK'
    BY <1>0, <2>1 DEF StackOK, Calling, CallOK, RequestCalls, outputNode, Node
  <2> QED  BY <1>0, <2>1, <2>2, Quiet
<1>2. CASE ConstructScaffold
  BY <1>0, <1>2, Popped1 DEF ConstructScaffold, traceVars, graphVars, choiceVars
<1> QED  BY <1>1, <1>2

-----------------------------------------------------------------------------
(* The engine's steps.                                                     *)

(* A step outside every call pushes the calls of a new operation.          *)
LEMMA Started ==
  ASSUME IInv, NEW cs, Calling(cs), todo' = cs,
         UNCHANGED <<node, esrVars, dbVars, results, rcs, ccs>>
  PROVE  IInv'
<1>1. StackOK'
  BY DEF StackOK, Calling, CallOK, RequestCalls, outputNode, Node
<1> QED  BY <1>1, Quiet DEF IInv, TypeOK

(* Beginning a directive keeps the invariant.                              *)
LEMMA ExecuteKeepsIInv ==
  ASSUME IInv, Execute
  PROVE  IInv'
<1>1. /\ Calling(forgetting(NextDirective.of))
      /\ Calling(<<Call("freeze", families[NextDirective.of], FALSE), Step("collect")>>)
      /\ Calling(<<Eval(NextDirective.exp, NoEnv, FALSE), Step("define")>>)
  <2>1. CallOK(Eval(NextDirective.exp, NoEnv, FALSE)) /\ CallOK(Step("define"))
    BY DEF CallOK, Call, Eval, Step, RequestCalls
  <2>2. \A i : /\ CallOK(Call("freeze", families[i], FALSE)) /\ CallOK(Step("collect"))
               /\ CallOK(Call("unobserve", families[i], FALSE)) /\ CallOK(Step("forget"))
               /\ CallOK(Call("unevalFamily", families[i], FALSE))
    BY DEF CallOK, Call, Step, RequestCalls
  <2>3. ASSUME NEW i PROVE Calling(forgetting(i))
    <3> DEFINE observing == IF Directives[i].d = "observe"
                              THEN <<Call("unobserve", families[i], FALSE)>> ELSE <<>>
               going == <<Call("unevalFamily", families[i], FALSE), Step("forget"), Step("collect")>>
    <3>1. Calling(observing)
      BY <2>2, CallingOne, CallingNothing
    <3>2. Calling(going)
      <4> DEFINE S == {Call("unevalFamily", families[i], FALSE), Step("forget"), Step("collect")}
      <4>1. \A c \in S : CallOK(c)
        BY <2>2
      <4>2. going \in Seq(S)
        OBVIOUS
      <4> HIDE DEF S, going
      <4> QED  BY <4>1, <4>2, CallingFrom
    <3>3. forgetting(i) = observing \o going
      BY DEF forgetting
    <3> HIDE DEF observing, going
    <3> QED  BY <3>1, <3>2, <3>3, CallingBoth
  <2> QED  BY <2>1, <2>2, <2>3, CallingTwo
<1>2. /\ \/ todo' = forgetting(NextDirective.of)
         \/ todo' = <<Call("freeze", families[NextDirective.of], FALSE), Step("collect")>>
         \/ todo' = <<Eval(NextDirective.exp, NoEnv, FALSE), Step("define")>>
      /\ UNCHANGED <<node, esrVars, dbVars, results, rcs, ccs>>
  <2>1. UNCHANGED <<node, esrVars, dbVars, results, rcs, ccs>>
    BY DEF Execute, traceVars, graphVars, choiceVars
  <2>2. CASE NextDirective.d = "forget"
    BY <2>1, <2>2 DEF Execute
  <2>3. CASE NextDirective.d = "freeze"
    BY <2>1, <2>3 DEF Execute
  <2>4. CASE NextDirective.d \notin {"forget", "freeze"}
    BY <2>1, <2>4 DEF Execute
  <2> QED  BY <2>2, <2>3, <2>4
<1> QED  BY <1>1, <1>2, Started

(* Ending a directive, forgetting, freezing and collecting keep the        *)
(* invariant.                                                              *)
LEMMA DirectivesKeepIInv ==
  ASSUME IInv, Define \/ Unobserve \/ ForgetFamily \/ FreezeFamily \/ Frozen \/ Collect
  PROVE  IInv'
<1> USE DEF Running
<1>0. Graph /\ StackOK /\ results \in Seq(Node) /\ rcs \subseteq Node /\ ccs \subseteq Node
  BY DEF IInv, TypeOK
<1>1. CASE Define
  <2>1. Front(results) \in Seq(Node)
    BY <1>0, <1>1, FrontAndLast DEF Define
  <2> QED  BY <1>0, <1>1, <2>1, Popped1 DEF Define, traceVars, graphVars, choiceVars
<1>2. CASE Unobserve
  <2>1. CASE \E e : Raise(e)
    BY <2>1, Raised
  <2>2. CASE ~\E e : Raise(e)
    <3>1. Calling(<<Call("unconstrain", Top.n, FALSE), At("mark", Top.n, None)>>) /\ Calling(<<>>)
      BY CallingTwo, CallingNothing DEF CallOK, Call, At, RequestCalls
    <3>2. \E cs : Calling(cs) /\ ReturnAfter(cs)
      BY <1>2, <2>2, <3>1 DEF Unobserve
    <3>3. todo # <<>> /\ UNCHANGED <<node, esrVars, dbVars, results, rcs, ccs>>
      BY <1>2, <2>2 DEF Unobserve, traceVars, graphVars, choiceVars
    <3> QED  BY <3>2, <3>3, Pushed
  <2> QED  BY <2>1, <2>2
<1>3. CASE ForgetFamily
  BY <1>0, <1>3, Popped1 DEF ForgetFamily, traceVars, graphVars, choiceVars
<1>4. CASE FreezeFamily
  <2>1. CASE \E e : Raise(e)
    BY <2>1, Raised
  <2>2. CASE ~\E e : Raise(e)
    <3>1. Calling(<<Call("unevalFamily", Top.n, FALSE), At("frozen", Top.n, value[Top.n])>>) /\ Calling(<<>>)
      BY CallingTwo, CallingNothing DEF CallOK, Call, At, RequestCalls
    <3>2. \E cs : Calling(cs) /\ ReturnAfter(cs)
      BY <1>4, <2>2, <3>1 DEF FreezeFamily
    <3>3. todo # <<>> /\ UNCHANGED <<node, esrVars, dbVars, results, rcs, ccs>>
      BY <1>4, <2>2 DEF FreezeFamily, traceVars, graphVars, choiceVars
    <3> QED  BY <3>2, <3>3, Pushed
  <2> QED  BY <2>1, <2>2
<1>5. CASE Frozen
  <2>1. PICK n : node' = [node EXCEPT ![n] = ConstantNode]
    BY <1>5 DEF Frozen
  <2>2. Graph'
    BY <1>0, <2>1, NodeSet DEF ConstantNode, BlankNode
  <2>3. StackOK'
    BY <1>0, <1>5, Returned DEF Frozen
  <2> QED  BY <1>0, <1>5, <2>2, <2>3, Grown DEF Frozen, choiceVars
<1>6. CASE Collect
  <2>1. /\ DOMAIN node' = Node
        /\ \A n \in Node : node'[n] \in {BlankNode, node[n]}
    BY <1>6 DEF Collect
  <2>2. Graph'
    BY <1>0, <2>1, NodesReset
  <2>3. StackOK'
    BY <1>0, <1>6, Returned DEF Collect
  <2>4. DatabaseOK' /\ omega'.families = {} /\ rhoDB'.families = {}
    BY <1>6 DEF Collect, EmptyDB, DatabaseOK
  <2>5. Edges'
    BY <1>6, <2>4 DEF Collect, IInv, TypeOK, Edges, esrVars
  <2>6. EdgesFinite' /\ RequestAccounting'
    BY <1>6 DEF Collect, IInv, EdgesFinite, RequestAccounting, esrVars
  <2>7. results' \in Seq(Node) /\ rcs' \subseteq Node /\ ccs' \subseteq Node
    BY <1>0, <1>6 DEF Collect, choiceVars
  <2> QED  BY <2>2, <2>3, <2>4, <2>5, <2>6, <2>7 DEF IInv, TypeOK
<1> QED  BY <1>1, <1>2, <1>3, <1>4, <1>5, <1>6

(* detachAndExtract and regenAndAttach keep the invariant.                 *)
LEMMA SweepsKeepIInv ==
  ASSUME IInv, \/ DetachAndExtract \/ DetachBorder \/ Detached
               \/ RegenAndAttach \/ RegenBorder \/ Regenerated
  PROVE  IInv'
<1> USE DEF Running
<1>0. /\ StackOK /\ DatabaseOK
      /\ results \in Seq(Node) /\ rcs \subseteq Node /\ ccs \subseteq Node
  BY DEF IInv, TypeOK
<1>1. CASE DetachAndExtract
  <2>1. CASE \E e : Raise(e)
    BY <2>1, Raised
  <2>2. CASE ~\E e : Raise(e)
    <3>1. /\ ReturnAfter(<<Step("detachBorder"), Step("detached")>>)
          /\ omega' = EmptyDB /\ UNCHANGED <<node, esrVars, rhoDB, results, rcs, ccs>>
      BY <1>1, <2>2 DEF DetachAndExtract, traceVars, graphVars, choiceVars
    <3>2. Calling(<<Step("detachBorder"), Step("detached")>>)
      BY CallingTwo DEF CallOK, Call, Step, RequestCalls
    <3>3. StackOK'
      BY <1>0, <1>1, <3>1, <3>2, ReturnedAfter DEF DetachAndExtract
    <3>4. DatabaseOK' /\ omega'.families = {}
      BY <3>1 DEF EmptyDB, DatabaseOK
    <3> QED  BY <1>0, <3>1, <3>3, <3>4, QuietButDatabases
  <2> QED  BY <2>1, <2>2
<1>2. CASE DetachBorder
  <2> DEFINE n == scaffold.border[Len(scaffold.border) - Top.i + 1]
             first == IF observed[n] # None THEN <<Call("unconstrain", n, FALSE)>> ELSE <<>>
             cs == IF n \in scaffold.absorbing THEN <<Call("detach", n, FALSE)>>
                   ELSE first \o <<Call("extract", n, FALSE)>>
  <2>1. Calling(first)
    BY CallingTask, CallingNothing DEF RequestCalls
  <2>2. Calling(cs)
    <3> HIDE DEF first, n
    <3> QED  BY <2>1, CallingTask, CallingBoth DEF RequestCalls
  <2>3. /\ todo # <<>> /\ (Return \/ LoopAfter(cs))
        /\ UNCHANGED <<node, esrVars, dbVars, results, rcs, ccs>>
    BY <1>2 DEF DetachBorder, traceVars, graphVars, choiceVars
  <2> HIDE DEF cs
  <2> QED  BY <1>0, <2>2, <2>3, Pushed, Popped1
<1>3. CASE Detached
  <2>1. CASE \E e : Raise(e)
    BY <2>1, Raised
  <2>2. CASE ~\E e : Raise(e)
    BY <1>0, <1>3, <2>2, Popped1 DEF Detached, traceVars, graphVars, choiceVars
  <2> QED  BY <2>1, <2>2
<1>4. CASE RegenAndAttach
  <2> DEFINE cs == <<Call("regenBorder", NoNode, Top.r), Step("propagateConstraints"), Step("regenerated")>>
             S == {Call("regenBorder", NoNode, Top.r), Step("propagateConstraints"), Step("regenerated")}
  <2>1. \A c \in S : CallOK(c)
    BY DEF CallOK, Call, Step, RequestCalls
  <2>2. cs \in Seq(S)
    OBVIOUS
  <2>3. Calling(cs)
    <3> HIDE DEF cs, S
    <3> QED  BY <2>1, <2>2, CallingFrom
  <2> QED  BY <1>4, <2>3, Pushed DEF RegenAndAttach, traceVars, graphVars, choiceVars
<1>5. CASE RegenBorder
  <2> DEFINE n == scaffold.border[Top.i]
             then == IF observed[n] # None THEN <<Call("getAndConstrain", n, Top.r)>> ELSE <<>>
             cs == IF n \in scaffold.absorbing THEN <<Call("attach", n, Top.r)>>
                   ELSE <<Call("regen", n, Top.r)>> \o then
  <2>1. Calling(then)
    BY CallingTask, CallingNothing DEF RequestCalls
  <2>2. Calling(cs)
    <3> HIDE DEF then, n
    <3> QED  BY <2>1, CallingTask, CallingBoth DEF RequestCalls
  <2>3. /\ todo # <<>> /\ (Return \/ LoopAfter(cs))
        /\ UNCHANGED <<node, esrVars, dbVars, results, rcs, ccs>>
    BY <1>5 DEF RegenBorder, traceVars, graphVars, choiceVars
  <2> HIDE DEF cs
  <2> QED  BY <1>0, <2>2, <2>3, Pushed, Popped1
<1>6. CASE Regenerated
  <2>1. CASE \E e : Raise(e)
    BY <2>1, Raised
  <2>2. CASE ~\E e : Raise(e)
    BY <1>0, <1>6, <2>2, Popped1 DEF Regenerated, traceVars, graphVars, choiceVars
  <2> QED  BY <2>1, <2>2
<1> QED  BY <1>1, <1>2, <1>3, <1>4, <1>5, <1>6

(* makeConsistent keeps the invariant.                                     *)
LEMMA IncorporateKeepsIInv ==
  ASSUME IInv, MakeConsistent \/ Incorporate \/ ForceValue \/ Mark
  PROVE  IInv'
<1> USE DEF Running
<1>0. StackOK /\ results \in Seq(Node) /\ rcs \subseteq Node /\ ccs \subseteq Node
  BY DEF IInv, TypeOK
<1>1. CASE MakeConsistent
  <2>1. Calling(<<Step("makeConsistent")>>)
    BY CallingOne DEF CallOK, Call, Step, RequestCalls
  <2> QED  BY <1>1, <2>1, Started DEF MakeConsistent, traceVars, graphVars, choiceVars
<1>2. CASE Incorporate
  <2>1. CASE \E e : Raise(e)
    BY <2>1, Raised
  <2>2. CASE ~(\E e : Raise(e)) /\ Top.i > Len(unpropagated)
    BY <1>0, <1>2, <2>2, Popped1 DEF Incorporate, traceVars, graphVars, choiceVars
  <2>3. CASE ~(\E e : Raise(e)) /\ ~(Top.i > Len(unpropagated))
    <3> DEFINE u == unpropagated[Top.i]
               app == getConstrainableNode(u.root)
               For(t) == [At(t, u.root, u.val) EXCEPT !.m = app]
               cs == <<Step("extendCandidateScaffold"), Step("detachAndExtract"),
                       For("forceValue"), Step("regenAndAttach"), For("mark"),
                       For("constrain"), Step("collect")>>
               S == {Step("extendCandidateScaffold"), Step("detachAndExtract"),
                     For("forceValue"), Step("regenAndAttach"), For("mark"),
                     For("constrain"), Step("collect")}
    <3>1. \A t \in {"extendCandidateScaffold", "detachAndExtract", "regenAndAttach", "collect"} : CallOK(Step(t))
      BY DEF CallOK, Call, Step, RequestCalls
    <3>2. \A t \in {"forceValue", "mark", "constrain"} : CallOK(For(t))
      <4> HIDE DEF u, app
      <4> QED  BY DEF CallOK, Call, At, RequestCalls
    <3>3. \A c \in S : CallOK(c)
      <4> HIDE DEF For
      <4> QED  BY <3>1, <3>2
    <3>4. cs \in Seq(S)
      <4> HIDE DEF For
      <4> QED  OBVIOUS
    <3>5. LoopAfter(cs) /\ todo # <<>> /\ UNCHANGED <<node, esrVars, dbVars, results, rcs, ccs>>
      BY <1>2, <2>3 DEF Incorporate, traceVars, graphVars, choiceVars
    <3> HIDE DEF cs, S
    <3> QED  BY <3>3, <3>4, <3>5, CallingFrom, Pushed
  <2> QED  BY <2>1, <2>2, <2>3
<1>3. CASE ForceValue
  BY <1>0, <1>3, Popped1 DEF ForceValue, traceVars, graphVars, choiceVars
<1>4. CASE Mark
  BY <1>0, <1>4, Popped1 DEF Mark, traceVars, graphVars, choiceVars
<1> QED  BY <1>1, <1>2, <1>3, <1>4

(* Metropolis-Hastings keeps the invariant.                                *)
LEMMA MoveKeepsIInv ==
  ASSUME IInv, ProposeOne \/ ProposeAll \/ ProposeBlock \/ KeepRho \/ Accept \/ Reject
  PROVE  IInv'
<1> USE DEF Running
<1>0. /\ StackOK /\ DatabaseOK
      /\ results \in Seq(Node) /\ rcs \subseteq Node /\ ccs \subseteq Node
  BY DEF IInv, TypeOK
<1>1. CASE ProposeOne \/ ProposeAll \/ ProposeBlock
  <2> DEFINE cs == <<Step("extendCandidateScaffold"), Step("detachAndExtract"), Step("keepRho"),
                     Step("regenAndAttach"), Step("decide"), Step("collect")>>
             S == {Step("extendCandidateScaffold"), Step("detachAndExtract"), Step("keepRho"),
                   Step("regenAndAttach"), Step("decide"), Step("collect")}
  <2>1. PICK pnodes : Propose(pnodes)
    BY <1>1 DEF ProposeOne, ProposeAll, ProposeBlock
  <2>2. \A c \in S : CallOK(c)
    BY DEF CallOK, Call, Step, RequestCalls
  <2>3. cs \in Seq(S)
    OBVIOUS
  <2>4. todo' = cs /\ UNCHANGED <<node, esrVars, dbVars, results, rcs, ccs>>
    BY <2>1 DEF Propose, traceVars, graphVars, choiceVars
  <2> HIDE DEF cs, S
  <2> QED  BY <2>2, <2>3, <2>4, CallingFrom, Started
<1>2. CASE KeepRho
  <2>1. Return /\ todo # <<>> /\ rhoDB' = omega /\ UNCHANGED <<node, esrVars, omega, results, rcs, ccs>>
    BY <1>2 DEF KeepRho, traceVars, graphVars, choiceVars
  <2>2. StackOK' /\ DatabaseOK'
    BY <1>0, <2>1, Returned DEF DatabaseOK
  <2> QED  BY <1>0, <2>1, <2>2, QuietButDatabases
<1>3. CASE Accept
  BY <1>0, <1>3, Popped1 DEF Accept, traceVars, graphVars, choiceVars
<1>4. CASE Reject
  <2>1. Calling(<<Step("detachAndExtract"), Call("regenAndAttach", NoNode, TRUE)>>)
    BY CallingTwo DEF CallOK, Call, Step, RequestCalls
  <2> QED  BY <1>4, <2>1, Pushed DEF Reject, traceVars, graphVars, choiceVars
<1> QED  BY <1>1, <1>2, <1>3, <1>4

-----------------------------------------------------------------------------
(* Every step keeps the invariant.                                         *)
LEMMA StepKeepsIInv == IInv /\ [Next]_vars => IInv'
<1> SUFFICES ASSUME IInv, [Next]_vars PROVE IInv'
  OBVIOUS
<1>1. CASE UNCHANGED vars
  <2>1. UNCHANGED <<todo, results, node, esrVars, dbVars, rcs, ccs>>
    BY <1>1 DEF vars, traceVars, graphVars, choiceVars
  <2>2. StackOK'
    BY <2>1 DEF IInv, StackOK, Calling, CallOK, RequestCalls, outputNode, Node
  <2> QED  BY <2>1, <2>2, Quiet DEF IInv, TypeOK
<1>2. CASE Next
  BY <1>1, <1>2, ExecuteKeepsIInv, DirectivesKeepIInv, SweepsKeepIInv, IncorporateKeepsIInv,
     MoveKeepsIInv, RegenKeepsIInv, DetachKeepsIInv, ScaffoldKeepsIInv DEF Next, Stopped
<1> QED  BY <1>1, <1>2

(* Type correctness, for every program: in particular every operand, ESR   *)
(* parent and family root is a node of the trace at every step of eval,    *)
(* detach and regen, and no request node is without its output node.       *)
THEOREM TypeCorrect == Spec => []TypeOK
<1>1. IInv => TypeOK
  BY DEF IInv
<1> QED  BY <1>1, InitIInv, StepKeepsIInv, PTL DEF Spec

(* At every step of every program the number of requests a family counts,  *)
(* which addESREdge (regen.py) and popLastESRParent (detach.py) keep and   *)
(* which decides when the family is unevaluated, is the number of ESR      *)
(* edges into its root.                                                    *)
THEOREM RequestsCounted == Spec => []RequestAccounting
<1>1. IInv => RequestAccounting
  BY DEF IInv
<1> QED  BY <1>1, InitIInv, StepKeepsIInv, PTL DEF Spec
=============================================================================
