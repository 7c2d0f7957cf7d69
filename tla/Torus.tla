------------------------------- MODULE Torus --------------------------------
(***************************************************************************)
(* What a move of the Puma backend takes out of the trace and puts back.   *)
(* A program is a sequence of steps, the calls of regenAndAttach in the    *)
(* order of the border: those of the prelude and of the coda stay where    *)
(* they are, those of the border groups are detached in reverse order and  *)
(* then regenerated in particles over the trace, one group after another.  *)
(***************************************************************************)
EXTENDS Integers, Sequences, FiniteSets

CONSTANTS
  Choice,     \* random applications
  Maker,      \* nodes that make the procedures these apply
  Output,     \* applications that request a family
  Id,         \* family ids
  Scope,      \* the scopes of tags
  Value,      \* the values of choices, which also serve as blocks
  Proc,       \* procedures
  None,       \* no value, no procedure, no node: a null pointer
  Default,    \* the default scope
  Op,         \* the maker of the procedure a choice applies
  Root,       \* the choice at the root of the family of an id
  AAA,        \* the makers whose statistics absorb at their applications
  Program,    \* the steps, in order
  First,      \* how many come before the torus
  Ends,       \* how many are done with each border group
  NumNew,     \* numNewParticles of PGibbsGKernel
  MaxRounds   \* moves, at most: bounds the model, not the code

(* No tag names the default scope: the trace keeps its blocks itself.      *)
ASSUME ScopesAssumption == Default \notin Scope

Base     == <<0, 0>>                   \* the ConcreteTrace
Particle == (1..Len(Ends)) \X (0..NumNew)
Trace    == {Base} \cup Particle

(* Steps.                                                                  *)
Make(m)         == [kind |-> "make", node |-> m]
Draw(c)         == [kind |-> "draw", node |-> c]
Request(o, m)   == [kind |-> "request", node |-> o, maker |-> m]
Tag(s, b, c)    == [kind |-> "tag", node |-> c, scope |-> s, block |-> b]
Observe(n, v)   == [kind |-> "observe", node |-> n, value |-> v]
Absorb(c)       == [kind |-> "absorb", node |-> c]

TorusEnd == Ends[Len(Ends)]

(* The statistics of an exchangeable procedure: how often each value.      *)
Statistics == [Value -> Int]
NoData     == [v \in Value |-> 0]
Incorporate(s, v)   == [s EXCEPT ![v] = @ + 1]
Unincorporate(s, v) == [s EXCEPT ![v] = @ - 1]

(* The particle that restores what was detached is the last of its group.  *)
Restores(t) == t # Base /\ t[2] = NumNew

-----------------------------------------------------------------------------
(* What the proofs ask of a program.  Its border groups are consecutive.   *)
Step == {Make(m) : m \in Maker} \cup {Draw(c) : c \in Choice} \cup {Absorb(c) : c \in Choice}
        \cup {Request(o, m) : o \in Output, m \in Maker}
        \cup {Tag(s, b, c) : s \in Scope, b \in Choice, c \in Choice}
        \cup {Observe(n, v) : n \in Choice \cup Output, v \in Value}
InTorus == First + 1 .. TorusEnd

ASSUME ProgramAssumption ==
  /\ Program \in Seq(Step) /\ Ends \in Seq(Nat) /\ Ends # <<>> /\ First \in Nat
  /\ \A g \in DOMAIN Ends : First <= Ends[g] /\ Ends[g] <= TorusEnd
  /\ TorusEnd <= Len(Program)
  /\ NumNew \in Nat /\ Op \in [Choice -> Maker] /\ Root \in [Id -> Choice]

ASSUME NoneAssumption ==
  /\ None \notin Value \cup Proc \cup Choice /\ None \notin Int /\ None \notin Statistics
  /\ None \notin Nat \X Trace \X Maker

(* A procedure is made once, and before its applications, and a node       *)
(* requests once.                                                          *)
Roots == {Root[i] : i \in Id}
Applies(step, c) ==
  \/ step \in {Draw(c), Absorb(c)}
  \/ \E o \in Output, m \in Maker : step = Request(o, m) /\ c \in Roots
  \/ \E n \in Choice \cup Output, v \in Value :
       step = Observe(n, v) /\ (c = n \/ (n \notin Choice /\ c \in Roots))

ASSUME OrderAssumption ==
  /\ \A i, j \in DOMAIN Program, m \in Maker : Program[i] = Make(m) /\ Program[j] = Make(m) => i = j
  /\ \A i \in DOMAIN Program, c \in Choice :
       Applies(Program[i], c) => \E j \in 1 .. i - 1 : Program[j] = Make(Op[c])
  /\ \A i, j \in DOMAIN Program, o \in Output, m, n \in Maker :
       Program[i] = Request(o, m) /\ Program[j] = Request(o, n) => i = j

(* The torus applies no procedure whose statistics it takes out, absorbs   *)
(* and puts back: each particle would change those set aside.              *)
ASSUME UnsharedAssumption ==
  \A i, j \in InTorus, c \in Choice :
    Applies(Program[i], c) /\ Op[c] \in AAA => Program[j] # Make(Op[c])
=============================================================================
