---------------------------- MODULE StopAndCopy ----------------------------
(***************************************************************************)
(* The copy of a trace of the Puma backend (stop_and_copy.cxx): a walk     *)
(* over everything the trace refers to, cycles included, which copies each *)
(* object once and translates the pointers in it.  The recursion of the    *)
(* copy_help methods is a stack of the objects whose copies are under way. *)
(* Null pointers are left out of the fields.                               *)
(***************************************************************************)
EXTENDS Integers, Sequences, FiniteSets, TLC

CONSTANTS
  Object,   \* everything there is in the memory the trace refers to
  Trace,    \* the trace itself
  Kind,     \* what each object is
  Points,   \* per object and field, the objects it points to
  None      \* not forwarded

VARIABLES
  forward,    \* ForwardingMap.pointers: the copy of each object
  wrote,      \* per object, the pointers written in its copy so far
  owners,     \* how many shared pointers were made of each copy
  allocated,  \* how many copies
  stack       \* what is being copied, and for which place of the one below

vars == <<forward, wrote, owners, allocated, stack>>

(* A pointer: to an object as it was, or to the n-th copy made, of it.     *)
Original(o) == <<0, o>>
Copy(n, o)  == <<n, o>>

(* The fields that the copy_help of each kind of object translates, in     *)
(* order.  Any other kind inherits a copy_help that returns the object.    *)
(* "directives" are the families of the trace.                             *)
NodeFields == [constant |-> <<"exp", "children">>,
               lookup   |-> <<"exp", "sourceNode", "children">>,
               request  |-> <<"exp", "outputNode", "operatorNode", "operandNodes", "env", "children">>,
               output   |-> <<"exp", "requestNode", "operatorNode", "operandNodes", "env", "children">>]
SPFields   == [sp         |-> <<"requestPSP", "outputPSP">>,
               spRef      |-> <<"makerNode">>,
               spRecord   |-> <<"sp", "spAux", "spFamilies">>,
               spFamilies |-> <<"families">>,
               spAux      |-> <<>>,
               csp        |-> <<"expression", "environment">>,
               msp        |-> <<"sharedOperatorNode">>]
ValueFields == [environment |-> <<"outerEnv", "frame">>,
                array       |-> <<"xs">>,
                pair        |-> <<"car", "cdr">>,
                dictionary  |-> <<"dict">>,
                node        |-> <<"node">>]
TraceFields == [trace |->
  <<"globalEnvironment", "unconstrainedChoices", "constrainedChoices", "arbitraryErgodicKernels",
    "unpropagatedObservations", "aaaMadeSPAuxs", "directives", "scopes", "esrRoots", "numRequests", "madeSPRecords", "values",
    "observedValues", "builtInNodes", "boundForeignSPNodes">>]

CopiedFields == NodeFields @@ SPFields @@ ValueFields @@ TraceFields

Copied(o) == Kind[o] \in DOMAIN CopiedFields

(* Every object has the fields of its kind, and the trace is one.          *)
ASSUME HeapAssumption ==
  /\ Trace \in Object /\ Copied(Trace) /\ None \notin Nat \X Object
  /\ \A o \in Object : Copied(o) => \A k \in DOMAIN CopiedFields[Kind[o]] :
       /\ CopiedFields[Kind[o]][k] \in DOMAIN Points[o]
       /\ Points[o][CopiedFields[Kind[o]][k]] \in Seq(Object)

(* The fields that copy_help does not translate hold nothing that is       *)
(* copied: what the contract of copy_help (stop_and_copy.cxx:34-36) asks   *)
(* of it.                                                                  *)
Translates(o, f) == \E k \in DOMAIN CopiedFields[Kind[o]] : CopiedFields[Kind[o]][k] = f
Covered ==
  \A o \in Object : Copied(o) => \A f \in DOMAIN Points[o] : ~Translates(o, f) =>
    \A i \in DOMAIN Points[o][f] : ~Copied(Points[o][f][i])

(* Fields are read in the order their containers iterate: maps as keys and *)
(* values in turn.  The order of the addresses of children may be any.     *)
Maps == {"unpropagatedObservations", "aaaMadeSPAuxs", "scopes", "esrRoots", "madeSPRecords",
         "values", "observedValues", "families", "dict"}
IsKey(f, i) == f \in Maps /\ i % 2 = 1

(* Where the copy holds a shared pointer: copy_shared, not copy_pointer.   *)
RawKeys == {"unpropagatedObservations", "aaaMadeSPAuxs", "esrRoots", "madeSPRecords", "values", "observedValues"}
Raw     == {"children", "sourceNode", "outputNode", "requestNode", "operatorNode", "operandNodes",
            "makerNode", "sharedOperatorNode", "frame", "node", "unconstrainedChoices", "constrainedChoices",
            "arbitraryErgodicKernels"}
IsShared(f, i) == /\ f \notin Raw
                  /\ f \in RawKeys => i % 2 = 0
                  /\ f = "scopes"  => i % 2 = 1

(* A place in the copy of o: a field and an index in it.                   *)
Places(o) == UNION {{<<k, i>> : i \in DOMAIN Points[o][CopiedFields[Kind[o]][k]]} :
                    k \in DOMAIN CopiedFields[Kind[o]]}
Field(o, p)  == CopiedFields[Kind[o]][p[1]]
Target(o, p) == Points[o][Field(o, p)][p[2]]

(* What an object leads to by way of what is copied.                       *)
Closed(S)  == \A o \in S : Copied(o) => \A p \in Places(o) : Target(o, p) \in S
Reached(o) == {q \in Object : \A S \in SUBSET Object : o \in S /\ Closed(S) => q \in S}

Top == stack[Len(stack)].object
InProgress == {stack[i].object : i \in DOMAIN stack}

(* The places whose turn it is.  The compiler chooses which of a key and   *)
(* its value is copied first.                                              *)
PairOf(i) == (i + 1) \div 2
(* Mutation: the loop over a container stops before its last element.      *)
Open_butLast(o) ==
  {p \in Places(o) \ DOMAIN wrote[o] :
     LET pointers == Points[o][Field(o, p)] IN Len(pointers) > 1 => p[2] # Len(pointers)}
Open(o)   == Places(o) \ DOMAIN wrote[o]
Due(o)    ==
  {p \in Open(o) : \A q \in Open(o) :
     \/ p[1] < q[1]
     \/ p[1] = q[1] /\ \/ p[2] <= q[2] \/ Field(o, p) = "children"
                       \/ Field(o, p) \in Maps /\ PairOf(p[2]) <= PairOf(q[2])}

Forwarded(t) == forward[t] # None

(* Mutation: what is still being copied does not count as copied.          *)
New_incomplete(t) == forward[t] = None \/ t \in InProgress
New(t) == forward[t] = None

Image(t) == IF Copied(t) THEN forward[t] ELSE Original(t)

(* copy_shared makes the shared pointer of a copy where it is first asked  *)
(* for, and returns a copy of that one later.                              *)
(* Mutation: it makes a new one each time.                                 *)
Owned_again(t) == owners[t] + 1
Owned(t) == IF owners[t] = 0 THEN 1 ELSE owners[t]

Write(o, p, pointer) ==
  /\ wrote'  = [wrote EXCEPT ![o] = [q \in DOMAIN wrote[o] \cup {p} |-> IF q = p THEN pointer ELSE wrote[o][q]]]
  /\ owners' = IF IsShared(Field(o, p), p[2]) /\ Copied(Target(o, p))
               THEN [owners EXCEPT ![Target(o, p)] = Owned(Target(o, p))] ELSE owners

-----------------------------------------------------------------------------
Init ==
  /\ forward = [o \in Object |-> IF o = Trace THEN Copy(1, Trace) ELSE None]
  /\ wrote = [o \in Object |-> <<>>] /\ allocated = 1
  /\ owners = [o \in Object |-> 0]
  /\ stack = <<[object |-> Trace, place |-> None]>>

(* What has a copy, or needs none, is written at once.                     *)
Translate(p) ==
  /\ Copied(Target(Top, p)) => Forwarded(Target(Top, p))
  /\ Write(Top, p, Image(Target(Top, p)))
  /\ UNCHANGED <<forward, allocated, stack>>

(* Else copy_help is called: the new object, and the forwarding pointer to *)
(* it, come before its fields.                                             *)
(* Mutation: the new object is also written where it was asked for, as in  *)
(* a copy that keeps a list of what is left to do.                         *)
Ask_eager(o, p) == Write(o, p, Copy(allocated + 1, Target(o, p)))
Ask(o, p) == UNCHANGED <<wrote, owners>>

Forward(t) ==
  /\ allocated' = allocated + 1
  /\ forward'   = [forward EXCEPT ![t] = Copy(allocated + 1, t)]

Descend(p) ==
  LET t == Target(Top, p) IN
  /\ Copied(t) /\ New(t)
  /\ Forward(t)
  /\ stack' = Append(stack, [object |-> t, place |-> p])
  /\ Ask(Top, p)

(* The copy is complete and goes where it was asked for.                   *)
Return ==
  /\ Open(Top) = {}
  /\ stack' = SubSeq(stack, 1, Len(stack) - 1)
  /\ IF Len(stack) > 1
     THEN Write(stack[Len(stack) - 1].object, stack[Len(stack)].place, forward[Top])
     ELSE UNCHANGED <<wrote, owners>>
  /\ UNCHANGED <<forward, allocated>>

Step == Open(Top) # {} /\ \E p \in Due(Top) : Translate(p) \/ Descend(p)

Next == stack # <<>> /\ (Return \/ Step)

Spec == Init /\ [][Next]_vars

-----------------------------------------------------------------------------
Pointer == (0..allocated) \X Object

TypeOK ==
  /\ allocated \in Nat
  /\ \A o \in Object : forward[o] # None => forward[o] \in Pointer
  /\ owners \in [Object -> Nat]
  /\ \A i \in DOMAIN stack : stack[i].object \in Object /\ forward[stack[i].object] # None
  /\ \A o \in Object : /\ DOMAIN wrote[o] \subseteq IF Copied(o) THEN Places(o) ELSE {}
                       /\ \A p \in DOMAIN wrote[o] : wrote[o][p] \in Pointer

(* Each object is copied at most once, whatever cycles lead back to it     *)
(* while its copy is under way: every pointer already written to a copy of *)
(* it is to the one it is forwarded to, and no two objects share a copy.   *)
CopiedOnce ==
  /\ \A o \in Object : \A p \in DOMAIN wrote[o] : wrote[o][p] = Image(Target(o, p))
  /\ \A o, q \in Object : forward[o] # None /\ forward[o] = forward[q] => o = q

(* An output node deletes the other nodes of its application.              *)
IsDeleted(o, p) == Kind[o] = "output" /\ Field(o, p) \in {"requestNode", "operatorNode", "operandNodes"}
Deletes(o) == {p \in DOMAIN wrote[o] : IsDeleted(o, p)}

(* So it is among the objects R the trace leads to: what has a copy is     *)
(* kept by shared pointers or deleted by one output node.                  *)
OwnedOriginally(R) ==
  \A t \in R \ {Trace} : Copied(t) =>
    LET Place(q) == IF Copied(q) THEN {p \in Places(q) : Target(q, p) = t} ELSE {}
        kept     == \E q \in R : \E p \in Place(q) : IsShared(Field(q, p), p[2])
    IN (IF kept THEN 1 ELSE 0) + Cardinality({q \in R : \E p \in Place(q) : IsDeleted(q, p)}) = 1

(* In the end every copy but the trace's has one owner, as its original    *)
(* has, so that it is deleted and deleted once: the shared pointers made   *)
(* of it, all from the same first one, or an output node.                  *)
OwnedOnce ==
  stack = <<>> =>
    \A o \in Object \ {Trace} : forward[o] # None =>
      owners[o] + Cardinality({q \in Object : \E p \in Deletes(q) : wrote[q][p] = forward[o]}) = 1

(* What a field of the copy of o holds: what was written there, or what    *)
(* the copy constructor took over from the original.                       *)
Holds(o, f, i) ==
  IF \E p \in DOMAIN wrote[o] : Field(o, p) = f /\ p[2] = i
  THEN wrote[o][CHOOSE p \in DOMAIN wrote[o] : Field(o, p) = f /\ p[2] = i]
  ELSE Original(Points[o][f][i])

(* In the end the copy has the shape of the trace: every pointer of every  *)
(* copied object, in whatever field, is in its copy a pointer to the copy  *)
(* of what it pointed to.                                                  *)
Isomorphic ==
  stack = <<>> =>
    \A o \in Object : forward[o] # None =>
      \A f \in DOMAIN Points[o] : \A i \in DOMAIN Points[o][f] :
        Holds(o, f, i) = Image(Points[o][f][i])

(* Nothing of the trace can be reached and changed through its copy: what  *)
(* the copy shares with it points to nothing that is copied.               *)
SelfContained ==
  stack = <<>> =>
    \A o \in Object : \A p \in DOMAIN wrote[o] :
      LET t == Target(o, p) IN
      wrote[o][p] = Original(t) => \A f \in DOMAIN Points[t] : \A i \in DOMAIN Points[t][f] : ~Copied(Points[t][f][i])

(* What the hash of a key is computed from: itself and, in an array or a   *)
(* pair, its elements.                                                     *)
Elements(o)  == UNION {{Points[o][f][i] : i \in DOMAIN Points[o][f]} :
                       f \in DOMAIN Points[o] \cap {"xs", "car", "cdr"}}
HashParts(o) == {o} \cup Elements(o) \cup UNION {Elements(e) : e \in Elements(o)}
IsHashed(f, i) == IsKey(f, i) /\ f \in {"families", "scopes", "dict"}

(* No part of a key leads back to the table it is a key of.                *)
KeysApart(reached) ==
  \A o \in Object : Copied(o) => \A p \in Places(o) : IsHashed(Field(o, p), p[2]) =>
    \A h \in HashParts(Target(o, p)) : o \notin reached[h]

(* A key is put in a hash table when nothing that its hash is computed     *)
(* from is under way any more: otherwise the table of the copy would not   *)
(* find it again.                                                          *)
KeysFinal ==
  [][\A o \in Object : wrote'[o] # wrote[o] => \A p \in DOMAIN wrote'[o] :
       IsHashed(Field(o, p), p[2]) /\ p \notin DOMAIN wrote[o] => HashParts(Target(o, p)) \cap InProgress' = {}]_vars
=============================================================================
