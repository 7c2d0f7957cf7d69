----------------------------- MODULE MCCopying -----------------------------
(***************************************************************************)
(* The trace of                                                            *)
(*   [assume f (mem list)]  [predict (f f)]  [predict (flip)]              *)
(* The family of f is kept under an array that refers to f, its value is a *)
(* pair that does, too, and the default scope has the flip.                *)
(***************************************************************************)
EXTENDS StopAndCopy

(* A built-in procedure is the constant of a record.                       *)
BuiltIn(node, record, sp, families, children) ==
  (node :> [kind |-> "constant", points |-> [exp |-> <<record>>, children |-> children]])
  @@ (record :> [kind |-> "spRecord", points |-> [sp |-> <<sp>>, spAux |-> <<>>, spFamilies |-> <<families>>]])
  @@ (sp :> [kind |-> "sp", points |-> [requestPSP |-> <<>>, outputPSP |-> <<>>]])
  @@ (families :> [kind |-> "spFamilies", points |-> [families |-> <<>>]])

Lookup(node, source, children) ==
  node :> [kind |-> "lookup", points |-> [exp |-> <<"symbol">>, sourceNode |-> <<source>>, children |-> children]]

Application(req, out, operator, operands, env, children) ==
  (req :> [kind |-> "request", points |->
     [exp |-> <<>>, outputNode |-> <<out>>, operatorNode |-> <<operator>>, operandNodes |-> operands,
      env |-> <<env>>, children |-> <<out>>]])
  @@ (out :> [kind |-> "output", points |->
     [exp |-> <<"symbol">>, requestNode |-> <<req>>, operatorNode |-> <<operator>>, operandNodes |-> operands,
      env |-> <<env>>, children |-> children]])

Ref(ref, maker) == ref :> [kind |-> "spRef", points |-> [makerNode |-> <<maker>>]]
Env(env, outer, frame) == env :> [kind |-> "environment", points |-> [outerEnv |-> outer, frame |-> frame]]
Plain(o) == o :> [kind |-> "plain", points |-> [nothing |-> <<>>]]

Heap ==
  BuiltIn("mem", "memRecord", "memSP", "memFamilies", <<"lookMem">>)
  @@ BuiltIn("list", "listRecord", "listSP", "listFamilies", <<"lookList">>)
  @@ BuiltIn("flip", "flipRecord", "flipSP", "flipFamilies", <<"lookFlip">>)
  @@ Ref("memRef", "mem") @@ Ref("listRef", "list") @@ Ref("flipRef", "flip") @@ Ref("fRef", "outF")
  @@ Env("builtins", <<>>, <<"mem", "list", "flip">>) @@ Env("global", <<"builtins">>, <<"outF">>)
  @@ Env("memoized", <<>>, <<"lookList">>)
  @@ Lookup("lookMem", "mem", <<"reqF", "outF">>) @@ Lookup("lookList", "list", <<"reqF", "outF", "lookOp">>)
  @@ Application("reqF", "outF", "lookMem", <<"lookList">>, "global", <<"lookF", "lookArg">>)
  @@ Lookup("lookF", "outF", <<"reqCall", "outCall">>) @@ Lookup("lookArg", "outF", <<"reqCall", "outCall">>)
  @@ Application("reqCall", "outCall", "lookF", <<"lookArg">>, "global", <<>>)
  @@ Lookup("lookOp", "lookList", <<"reqFam", "outFam">>)
  @@ ("quoted" :> [kind |-> "constant", points |-> [exp |-> <<"fRef">>, children |-> <<"reqFam", "outFam">>]])
  @@ Application("reqFam", "outFam", "lookOp", <<"quoted">>, "memoized", <<"outCall">>)
  @@ Lookup("lookFlip", "flip", <<"reqFlip", "outFlip">>)
  @@ Application("reqFlip", "outFlip", "lookFlip", <<>>, "global", <<>>)
  @@ ("fRecord" :> [kind |-> "spRecord", points |-> [sp |-> <<"fSP">>, spAux |-> <<>>, spFamilies |-> <<"fFamilies">>]])
  @@ ("fSP" :> [kind |-> "sp", points |-> [requestPSP |-> <<"fPSP">>, outputPSP |-> <<>>]])
  @@ ("fPSP" :> [kind |-> "msp", points |-> [sharedOperatorNode |-> <<"lookList">>]])
  @@ ("fFamilies" :> [kind |-> "spFamilies", points |-> [families |-> <<"key", "outFam">>]])
  @@ ("key" :> [kind |-> "array", points |-> [xs |-> <<"fRef">>]])
  @@ ("pair" :> [kind |-> "pair", points |-> [car |-> <<"fRef">>, cdr |-> <<"nil">>]])
  @@ ("block" :> [kind |-> "node", points |-> [node |-> <<"outFlip">>]])
  @@ ("asked" :> [kind |-> "ventureRequest", points |-> [id |-> <<"key">>, env |-> <<"memoized">>]])
  @@ Plain("symbol") @@ Plain("nil") @@ Plain("number") @@ Plain("noRequest")
  @@ ("trace" :> [kind |-> "trace", points |->
       [globalEnvironment |-> <<"global">>, unconstrainedChoices |-> <<"outFlip">>, constrainedChoices |-> <<>>,
        arbitraryErgodicKernels |-> <<>>, unpropagatedObservations |-> <<>>, aaaMadeSPAuxs |-> <<>>,
        directives |-> <<"outF", "outCall", "outFlip">>, scopes |-> <<"block", "outFlip">>,
        esrRoots |-> <<"outCall", "outFam">>, numRequests |-> <<"outFam">>,
        madeSPRecords |-> <<"mem", "memRecord", "list", "listRecord", "flip", "flipRecord", "outF", "fRecord">>,
        values |-> <<"mem", "memRef", "list", "listRef", "flip", "flipRef", "lookMem", "memRef", "lookList", "listRef",
                     "reqF", "noRequest", "outF", "fRef", "lookF", "fRef", "lookArg", "fRef", "reqCall", "asked",
                     "outCall", "pair", "lookOp", "listRef", "quoted", "fRef", "reqFam", "noRequest", "outFam", "pair",
                     "lookFlip", "flipRef", "reqFlip", "noRequest", "outFlip", "number">>,
        observedValues |-> <<>>, builtInNodes |-> <<"mem", "list", "flip">>, boundForeignSPNodes |-> <<>>]])

MCObject == DOMAIN Heap
MCKind   == [o \in DOMAIN Heap |-> Heap[o].kind]
MCPoints == [o \in DOMAIN Heap |-> Heap[o].points]

(* Reached, computed: paths of up to as many pointers as there are objects. *)
PointedTo(o) == IF Copied(o) THEN {Target(o, p) : p \in Places(o)} ELSE {}
MCReached ==
  [o \in Object |->
     LET After[k \in 0..Cardinality(Object)] ==
           IF k = 0 THEN {o}
           ELSE LET S == After[k - 1] IN S \cup UNION {PointedTo(q) : q \in S}
     IN After[Cardinality(Object)]]

(* The heap keeps the contract of copy_help, has one owner for each object *)
(* and no key that leads back to its table.                                *)
ASSUME HeapCovered   == Covered
ASSUME ReachedClosed == \A o \in Object : Closed(MCReached[o])
ASSUME HeapOwned     == OwnedOriginally(MCReached[Trace])
ASSUME HeapKeys      == KeysApart(MCReached)
=============================================================================
