-------------------------------- MODULE Drg --------------------------------
(***************************************************************************)
(* The probabilistic execution trace (PET) of the Lite backend: its nodes, *)
(* what each node remembers, and the stochastic procedures (SPs) whose     *)
(* applications it records (backend/lite/node.py, trace.py, sp.py,         *)
(* psp.py).  Regen.tla, Detach.tla and Scaffold.tla are the algorithms     *)
(* that run over this state; LiteTrace.tla composes them.                  *)
(*                                                                         *)
(* The code recurses in Python.  Here the call stack is the variable todo, *)
(* a sequence of pending calls whose head runs next: a function that makes *)
(* calls and then goes on pushes those calls, followed by a task for what  *)
(* remains of it.  Every read the code makes after a call returns is       *)
(* therefore a read of the state that call left behind.                    *)
(***************************************************************************)
EXTENDS Integers, Sequences, FiniteSets, Functions, SequencesExt

CONSTANTS
  MaxNodes,   \* nodes a trace can hold: bounds the model, not the code
  Prelude,    \* the builtin SPs' nodes, each named by its SP's kind
  Syms,       \* the program's variables
  Outcomes    \* the numbers a random choice can produce

Node     == 1..MaxNodes
NoNode   == 0
Builtins == 1..Len(Prelude)

(* The prelude fits into the trace.                                        *)
ASSUME NodesAssumption == MaxNodes \in Nat /\ Len(Prelude) \in 0..MaxNodes

VARIABLES
  node,        \* what __init__ fixes of each Node: its class, operator, ...
  live,        \* ghost: the nodes evaluated and not unevaluated since
  value,       \* Node.value
  children,    \* Node.children, an OrderedSet
  esrParents,  \* OutputNode.esrParents
  numRequests, \* Node.numRequests
  madeSP,      \* Node.madeSPRecord.sp
  spFamilies,  \* Node.madeSPRecord.spFamilies: maker, request id, family root
  spAux,       \* Node.madeSPRecord.spAux: applications counted per outcome
  aaaAux,      \* Node.aaaMadeSPAux
  rcs,         \* Trace.rcs, the unconstrained random choices (and the default scope)
  ccs,         \* Trace.ccs, the constrained ones
  scopes,      \* Trace.scopes less the default one: <<scope, block, node>>
  observed,    \* Node.observedValue where Node.isObservation
  globalEnv,   \* Trace.globalEnv, the user frame
  families,    \* Trace.families, the directives' roots
  todo,        \* the call stack
  results,     \* nodes returned by evalFamily and not yet consumed
  err,         \* the exception that stopped the program, if any
  scaffold,    \* the Scaffold in use
  omega,       \* the OmegaDB being written by detach
  rhoDB,       \* the OmegaDB a restore reads
  weight       \* the terms summed into the weight of the current pass

graphVars  == <<node, live, children>>
esrVars    == <<esrParents, numRequests, spFamilies>>
spVars     == <<madeSP, spAux, aaaAux>>
choiceVars == <<rcs, ccs, scopes>>
envVars    == <<observed, globalEnv, families>>
dbVars     == <<omega, rhoDB>>
traceVars  == <<graphVars, value, esrVars, spVars, choiceVars>>

-----------------------------------------------------------------------------
(* Values.  None stands for Python's None, which a node holds while it is  *)
(* detached.                                                               *)

None                == [t |-> "none"]
Num(k)              == [t |-> "num", v |-> k]
Ref(n)              == [t |-> "spref", maker |-> n]
Quote(params, body) == [t |-> "quote", params |-> params, body |-> body]
Request(esrs)       == [t |-> "request", esrs |-> esrs]
Record(sp, aux)     == [t |-> "sprecord", sp |-> sp, aux |-> aux]

ZeroAux == [k \in Outcomes |-> 0]
NoEnv   == [s \in Syms |-> NoNode]
MemSym  == "memoizedSP"

(* An SP, named by its kind.  A compound procedure closes over an          *)
(* environment, a memoized one over the node of the procedure it shares, a *)
(* made coin over its pseudocounts or its weight.                          *)
SP(kind)                 == [k |-> kind, params |-> <<>>, body |-> <<>>, env |-> NoEnv]
Compound(quote, env)     == [k |-> "csp", params |-> quote.params, body |-> quote.body, env |-> env]
Memoized(shared)         == [SP("msp") EXCEPT !.env = [NoEnv EXCEPT ![MemSym] = shared]]
Coin(kind, params)       == [SP(kind) EXCEPT !.params = params]
NoSP                     == SP("none")

Con(v)     == [e |-> "con", v |-> v]      \* self-evaluating or quoted
Builtin(n) == [e |-> "builtin", n |-> n]  \* a symbol of the prelude
Var(s)     == [e |-> "var", s |-> s]
App(exps)  == [e |-> "app", exps |-> exps]

-----------------------------------------------------------------------------
(* Nodes.  A request node and its output node are allocated together.      *)

BlankNode                 == [c |-> "blank", operator |-> NoNode, operands |-> <<>>,
                              source |-> NoNode, env |-> NoEnv]
ConstantNode              == [BlankNode EXCEPT !.c = "constant"]
LookupNode(source)        == [BlankNode EXCEPT !.c = "lookup", !.source = source]
RequestNode(op, args, env) == [c |-> "request", operator |-> op, operands |-> args,
                               source |-> NoNode, env |-> env]

OutputNode(op, args, env) == [RequestNode(op, args, env) EXCEPT !.c = "output"]

IsA(n, class)        == n \in Node /\ node[n].c = class
isConstantNode(n)    == IsA(n, "constant")
isLookupNode(n)      == IsA(n, "lookup")
isRequestNode(n)     == IsA(n, "request")
isOutputNode(n)      == IsA(n, "output")
isApplicationNode(n) == isRequestNode(n) \/ isOutputNode(n)
outputNode(n)        == n + 1
requestNode(n)       == n - 1
operatorNode(n)      == node[n].operator
operandNodes(n)      == node[n].operands
sourceNode(n)        == node[n].source

definiteParents(n) ==
  CASE isLookupNode(n)  -> <<sourceNode(n)>>
    [] isRequestNode(n) -> <<operatorNode(n)>> \o operandNodes(n)
    [] isOutputNode(n)  -> <<operatorNode(n)>> \o operandNodes(n) \o <<requestNode(n)>>
    [] OTHER            -> <<>>
esrParentsAt(n) == IF isOutputNode(n) THEN esrParents[n] ELSE <<>>
parents(n)      == definiteParents(n) \o esrParentsAt(n)

(* OrderedSet: a sequence without repetitions.                             *)
Add(s, x)     == IF Contains(s, x) THEN s ELSE Append(s, x)
Discard(s, x) == IF Contains(s, x) THEN RemoveAt(s, CHOOSE i \in DOMAIN s : s[i] = x) ELSE s

-----------------------------------------------------------------------------
(* The SP a node applies, and what its two PSPs do.                        *)

spRefAt(n)   == value[operatorNode(n)]
makerOf(n)   == spRefAt(n).maker
isApplicable(n) == /\ spRefAt(n).t = "spref"
                   /\ madeSP[makerOf(n)] # NoSP
spAt(n)      == madeSP[makerOf(n)]

RandomKinds  == {"bernoulli", "cbeta_bernoulli", "suff_bernoulli", "make_uc_beta_bernoulli"}
AAAMakers    == {"make_beta_bernoulli", "make_uc_beta_bernoulli"}
CountingKinds == {"cbeta_bernoulli", "suff_bernoulli"}  \* keep a BetaBernoulliSPAux
RefKinds     == {"csp", "msp"}            \* outputPSP is ESRRefOutputPSP
isRandom(n)  == isOutputNode(n) /\ spAt(n).k \in RandomKinds
isESRRef(n)  == isOutputNode(n) /\ spAt(n).k \in RefKinds
isTag(n)     == isOutputNode(n) /\ spAt(n).k = "tag"
childrenCanAAA(n) == isOutputNode(n) /\ spAt(n).k \in AAAMakers
isNullRequest(n)  == isRequestNode(n) /\ spAt(n).k \notin RefKinds

operandValues(n) == [i \in DOMAIN operandNodes(n) |-> value[operandNodes(n)[i]]]

canAbsorb(n, parent) ==
  CASE isRequestNode(n) -> spAt(n).k # "msp"
    [] isRandom(n)      -> TRUE
    [] isESRRef(n)      -> parent # esrParents[n][1] /\ parent # requestNode(n)
    [] isTag(n)         -> parent # operandNodes(n)[3]
    [] OTHER            -> FALSE

(* The frame a call of a compound procedure runs in.                       *)
Extend(env, params, args) ==
  [s \in Syms |-> IF \E i \in DOMAIN params : params[i] = s
                    THEN args[CHOOSE i \in DOMAIN params : params[i] = s]
                    ELSE env[s]]

(* Environment.findSymbol: the local frames, then the global one.  Local   *)
(* frames never change once built, so they are flattened into one.         *)
findSymbol(env, s) == IF env[s] # NoNode THEN env[s] ELSE globalEnv[s]

(* The outcomes of psp.simulate at node n: one when the PSP is             *)
(* deterministic, any supported outcome when it is random.                 *)
simulate(n) ==
  LET args == operandValues(n)
      kind == spAt(n).k
  IN CASE isNullRequest(n) -> {Request(<<>>)}
       [] isRequestNode(n) /\ kind = "csp" ->
            {Request(<<[id  |-> [node |-> n, args |-> <<>>], exp |-> spAt(n).body,
                        env |-> Extend(spAt(n).env, spAt(n).params, operandNodes(n))]>>)}
       [] isRequestNode(n) /\ kind = "msp" ->
            {Request(<<[id  |-> [node |-> NoNode, args |-> args],
                        exp |-> App(<<Var(MemSym)>> \o [i \in DOMAIN args |-> Con(args[i])]),
                        env |-> spAt(n).env]>>)}
       [] isESRRef(n)             -> {value[esrParents[n][1]]}
       [] kind \in {"bernoulli", "cbeta_bernoulli", "suff_bernoulli"} -> {Num(k) : k \in Outcomes}
       [] kind = "biplex"         -> {IF args[1] = Num(1) THEN args[2] ELSE args[3]}
       [] kind = "not"            -> {Num(1 - args[1].v)}
       [] kind = "tag"            -> {args[3]}
       [] kind = "make_csp"       -> {Record(Compound(args[1], node[n].env), ZeroAux)}
       [] kind = "mem"            -> {Record(Memoized(operandNodes(n)[1]), ZeroAux)}
       [] kind = "make_beta_bernoulli"    -> {Record(Coin("cbeta_bernoulli", args), ZeroAux)}
       [] kind = "make_uc_beta_bernoulli" -> {Record(Coin("suff_bernoulli", <<Num(k)>>), ZeroAux) : k \in Outcomes}
=============================================================================
