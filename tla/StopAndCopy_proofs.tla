------------------------ MODULE StopAndCopy_proofs -------------------------
(***************************************************************************)
(* Proofs about the copy of a trace, for every heap: cyclic or not, of any *)
(* size, and with any of the orders the containers may have.               *)
(***************************************************************************)
EXTENDS StopAndCopy, SequenceTheorems, WellFoundedInduction, TLAPS

Place == UNION {Places(o) : o \in {q \in Object : Copied(q)}}
Frame == [object : Object, place : Place \cup {None}]

(* Forwarding pointers lead to the copy of the object they are kept for.   *)
Forwards ==
  /\ allocated \in Nat /\ forward \in [Object -> (Nat \X Object) \cup {None}]
  /\ \A o \in Object : forward[o] # None =>
       Copied(o) /\ \E n \in 0..allocated : forward[o] = <<n, o>>

(* What is being copied has its forwarding pointer, and each place on the  *)
(* stack asks for the object above.                                        *)
Stacked ==
  /\ stack \in Seq(Frame)
  /\ \A i \in 1..Len(stack) : forward[stack[i].object] # None
  /\ \A i \in 1..Len(stack) : i > 1 =>
       /\ stack[i].place \in Places(stack[i - 1].object)
       /\ Target(stack[i - 1].object, stack[i].place) = stack[i].object

(* What is written points to what it should, which has been forwarded.     *)
WrittenAt(o, p) ==
  /\ p \in Places(o)
  /\ wrote[o][p] = Image(Target(o, p))
  /\ Copied(Target(o, p)) => forward[Target(o, p)] # None
Written ==
  /\ DOMAIN wrote = Object
  /\ \A o \in Object : \A p \in DOMAIN wrote[o] : Copied(o) /\ WrittenAt(o, p)

(* What is forwarded and not under way is complete.                        *)
Complete ==
  \A o \in Object : forward[o] # None /\ o \notin InProgress => Places(o) \subseteq DOMAIN wrote[o]

Owners == owners \in [Object -> Nat]

IInv == Forwards /\ Stacked /\ Written /\ Complete /\ Owners

-----------------------------------------------------------------------------
(* A place of an object that is copied has a target.                       *)
LEMMA TargetIsObject ==
  ASSUME NEW o \in Object, Copied(o), NEW p \in Places(o)
  PROVE  Target(o, p) \in Object /\ p = <<p[1], p[2]>>
<1>1. PICK k \in DOMAIN CopiedFields[Kind[o]] :
        \E i \in DOMAIN Points[o][CopiedFields[Kind[o]][k]] : p = <<k, i>>
  BY DEF Places
<1>2. PICK i \in DOMAIN Points[o][CopiedFields[Kind[o]][k]] : p = <<k, i>>
  BY <1>1
<1>3. Points[o][CopiedFields[Kind[o]][k]] \in Seq(Object)
  BY HeapAssumption
<1>4. Points[o][CopiedFields[Kind[o]][k]][i] \in Object
  BY <1>2, <1>3, ElementOfSeq
<1> QED
  BY <1>2, <1>4 DEF Target, Field

(* What is due is open, and so a place.                                    *)
LEMMA DueIsOpen == ASSUME NEW o \in Object PROVE Due(o) \subseteq Open(o) /\ Open(o) \subseteq Places(o)
BY DEF Due, Open

(* The object on top of the stack.                                         *)
LEMMA TopOfStack ==
  ASSUME IInv, stack # <<>>
  PROVE  /\ Len(stack) \in Nat /\ Len(stack) > 0
         /\ Top \in Object /\ Copied(Top) /\ forward[Top] # None /\ Top \in InProgress
<1>1. stack \in Seq(Frame) /\ Len(stack) \in Nat /\ Len(stack) > 0
  BY EmptySeq, LenProperties DEF IInv, Stacked
<1>2. stack[Len(stack)] \in Frame
  BY <1>1, ElementOfSeq
<1>3. Top \in Object
  BY <1>2 DEF Top, Frame
<1>4. forward[Top] # None
  BY <1>1 DEF IInv, Stacked, Top
<1>5. Top \in InProgress
  BY <1>1, LenProperties DEF InProgress, Top
<1> QED
  BY <1>1, <1>3, <1>4, <1>5 DEF IInv, Forwards

-----------------------------------------------------------------------------
(* The trace is forwarded to its copy at the start, with nothing written.  *)
LEMMA InitIInv == Init => IInv
<1> SUFFICES ASSUME Init PROVE IInv
  OBVIOUS
<1> USE DEF Init
<1>1. Forwards
  <2>1. forward \in [Object -> (Nat \X Object) \cup {None}]
    BY HeapAssumption DEF Copy
  <2>2. \A o \in Object : forward[o] # None => o = Trace /\ forward[o] = <<1, Trace>>
    BY DEF Copy
  <2>3. \A o \in Object : forward[o] # None => Copied(o) /\ \E n \in 0..allocated : forward[o] = <<n, o>>
    BY <2>2, HeapAssumption
  <2> QED
    BY <2>1, <2>3 DEF Forwards
<1>2. forward[Trace] # None
  BY HeapAssumption DEF Copy
<1>3. /\ Len(stack) = 1
      /\ stack[1] = [object |-> Trace, place |-> None]
  OBVIOUS
<1>4. Stacked
  <2>1. [object |-> Trace, place |-> None] \in Frame
    BY HeapAssumption DEF Frame
  <2> QED
    BY <1>2, <1>3, <2>1 DEF Stacked
<1>5. Written
  BY DEF Written
<1>6. Complete
  <2>1. InProgress = {Trace}
    BY <1>3 DEF InProgress
  <2> QED
    BY <2>1 DEF Complete
<1>7. Owners
  BY DEF Owners
<1> QED
  BY <1>1, <1>4, <1>5, <1>6, <1>7 DEF IInv

(* What is written at a place is added to what is there.                   *)
LEMMA WriteAdds ==
  ASSUME IInv, NEW o \in Object, Copied(o), NEW p \in Places(o), UNCHANGED forward,
         NEW pointer, pointer = Image(Target(o, p)),
         Copied(Target(o, p)) => forward[Target(o, p)] # None,
         Write(o, p, pointer)
  PROVE  /\ Written' /\ Owners'
         /\ \A q \in Object : DOMAIN wrote[q] \subseteq DOMAIN wrote'[q]
<1>1. Written
  BY DEF IInv
<1>2. wrote' = [wrote EXCEPT ![o] = [q \in DOMAIN wrote[o] \cup {p} |-> IF q = p THEN pointer ELSE wrote[o][q]]]
  BY DEF Write
<1>3. /\ DOMAIN wrote' = Object
      /\ wrote'[o] = [q \in DOMAIN wrote[o] \cup {p} |-> IF q = p THEN pointer ELSE wrote[o][q]]
      /\ \A q \in Object \ {o} : wrote'[q] = wrote[q]
  BY <1>1, <1>2 DEF Written
<1>4. \A q \in Object : DOMAIN wrote[q] \subseteq DOMAIN wrote'[q]
  BY <1>3
<1>5. \A t : Image(t)' = Image(t)
  BY DEF Image
<1>6. ASSUME NEW q \in Object, NEW r \in DOMAIN wrote'[q] PROVE Copied(q) /\ WrittenAt(q, r)'
  <2>1. CASE q = o /\ r = p
    <3>1. wrote'[q][r] = Image(Target(q, r))'
      BY <1>3, <1>5, <2>1 DEF Target
    <3> QED
      BY <2>1, <3>1 DEF WrittenAt, Target
  <2>2. CASE ~(q = o /\ r = p)
    <3>1. r \in DOMAIN wrote[q] /\ wrote'[q][r] = wrote[q][r]
      BY <1>3, <2>2
    <3>2. Copied(q) /\ WrittenAt(q, r)
      BY <1>1, <3>1 DEF Written
    <3> QED
      BY <1>5, <3>1, <3>2 DEF WrittenAt, Target
  <2> QED
    BY <2>1, <2>2
<1>7. Written'
  BY <1>3, <1>6 DEF Written
<1>8. Target(o, p) \in Object
  BY TargetIsObject
<1>9. Owned(Target(o, p)) \in Nat
  BY <1>8 DEF IInv, Owners, Owned
<1>10. Owners'
  BY <1>8, <1>9 DEF Write, IInv, Owners
<1> QED
  BY <1>4, <1>7, <1>10

(* A step that leaves the stack as it is.                                  *)
LEMMA TranslateKeeps ==
  ASSUME IInv, stack # <<>>, NEW p \in Due(Top), Translate(p)
  PROVE  IInv'
<1> DEFINE o == Top
<1>1. o \in Object /\ Copied(o) /\ p \in Places(o)
  BY TopOfStack, DueIsOpen
<1>2. UNCHANGED <<forward, allocated, stack>> /\ Write(o, p, Image(Target(o, p)))
  BY DEF Translate
<1>3. Copied(Target(o, p)) => forward[Target(o, p)] # None
  BY DEF Translate, Forwarded
<1> HIDE DEF o
<1>4. Written' /\ Owners' /\ \A q \in Object : DOMAIN wrote[q] \subseteq DOMAIN wrote'[q]
  BY <1>1, <1>2, <1>3, WriteAdds
<1>5. Forwards'
  BY <1>2 DEF IInv, Forwards
<1>6. Stacked'
  BY <1>2 DEF IInv, Stacked, Target
<1>7. InProgress' = InProgress
  BY <1>2 DEF InProgress
<1>8. Complete'
  BY <1>2, <1>4, <1>7 DEF IInv, Complete
<1> QED
  BY <1>4, <1>5, <1>6, <1>8 DEF IInv

(* A step down to an object that has no copy yet.                          *)
LEMMA DescendKeeps ==
  ASSUME IInv, stack # <<>>, NEW p \in Due(Top), Descend(p)
  PROVE  IInv'
<1> DEFINE o == Top
           t == Target(o, p)
           frame == [object |-> t, place |-> p]
<1>1. /\ o \in Object /\ Copied(o) /\ p \in Places(o)
      /\ stack \in Seq(Frame) /\ Len(stack) \in Nat /\ Len(stack) > 0
  BY TopOfStack, DueIsOpen DEF IInv, Stacked
<1>2. /\ Copied(t) /\ forward[t] = None
      /\ allocated' = allocated + 1 /\ forward' = [forward EXCEPT ![t] = Copy(allocated + 1, t)]
      /\ stack' = Append(stack, frame)
      /\ UNCHANGED <<wrote, owners>>
  BY DEF Descend, New, Forward, Ask
<1>3. o = stack[Len(stack)].object
  BY DEF Top
<1> HIDE DEF o
<1>4. t \in Object
  BY <1>1, TargetIsObject
<1>5. /\ Forwards
      /\ forward'[t] = <<allocated + 1, t>>
      /\ \A q \in Object \ {t} : forward'[q] = forward[q]
      /\ \A q \in Object : forward[q] # None => forward'[q] = forward[q] /\ q # t
  BY <1>2, <1>4 DEF IInv, Forwards, Copy
<1>6. forward'[t] # None
  BY <1>4, <1>5, HeapAssumption DEF Forwards
<1>7. Forwards'
  <2>1. allocated' \in Nat /\ forward' \in [Object -> (Nat \X Object) \cup {None}]
    BY <1>2, <1>4, <1>5 DEF Forwards, Copy
  <2>2. ASSUME NEW q \in Object, forward'[q] # None
        PROVE  Copied(q) /\ \E n \in 0..allocated' : forward'[q] = <<n, q>>
    <3>1. CASE q = t
      BY <1>2, <1>5, <3>1 DEF Forwards
    <3>2. CASE q # t
      <4>1. Copied(q) /\ \E n \in 0..allocated : forward[q] = <<n, q>>
        BY <1>5, <2>2, <3>2 DEF Forwards
      <4>2. \A n \in 0..allocated : n \in 0..allocated'
        BY <1>2, <1>5 DEF Forwards
      <4> QED
        BY <1>5, <3>2, <4>1, <4>2
    <3> QED
      BY <3>1, <3>2
  <2> QED
    BY <2>1, <2>2 DEF Forwards
<1>8. frame \in Frame
  BY <1>1, <1>4 DEF Frame, Place
<1> HIDE DEF frame
<1>9. /\ stack' \in Seq(Frame) /\ Len(stack') = Len(stack) + 1
      /\ \A i \in 1..Len(stack) : stack'[i] = stack[i]
      /\ stack'[Len(stack) + 1] = frame
  BY <1>1, <1>2, <1>8, AppendProperties
<1>10. frame.object = t /\ frame.place = p
  BY DEF frame
<1>11. Stacked'
  <2>1. ASSUME NEW i \in 1..Len(stack')
        PROVE  /\ forward'[stack'[i].object] # None
               /\ i > 1 => /\ stack'[i].place \in Places(stack'[i - 1].object)
                           /\ Target(stack'[i - 1].object, stack'[i].place) = stack'[i].object
    <3>1. CASE i \in 1..Len(stack)
      <4>1. stack'[i] = stack[i] /\ (i > 1 => stack'[i - 1] = stack[i - 1])
        BY <1>1, <1>9, <3>1
      <4>2. forward[stack[i].object] # None /\ stack[i].object \in Object
        <5>1. stack[i] \in Frame
          BY <1>1, <3>1, ElementOfSeq
        <5> QED
          BY <3>1, <5>1 DEF IInv, Stacked, Frame
      <4>3. forward'[stack[i].object] = forward[stack[i].object]
        BY <1>5, <4>2
      <4> QED
        BY <3>1, <4>1, <4>2, <4>3 DEF IInv, Stacked, Target
    <3>2. CASE i = Len(stack) + 1
      <4>1. i - 1 \in 1..Len(stack) /\ i - 1 = Len(stack)
        BY <1>1, <3>2
      <4>2. stack'[i] = frame /\ stack'[i - 1] = stack[Len(stack)]
        BY <1>9, <3>2, <4>1
      <4> QED
        BY <1>1, <1>3, <1>6, <1>10, <4>2 DEF Target
    <3> QED
      BY <1>1, <1>9, <2>1, <3>1, <3>2
  <2> QED
    BY <1>9, <2>1 DEF Stacked, Target
<1>12. Written'
  <2>1. ASSUME NEW q \in Object, NEW r \in DOMAIN wrote'[q] PROVE Copied(q) /\ WrittenAt(q, r)'
    <3>1. Copied(q) /\ WrittenAt(q, r) /\ wrote' = wrote
      BY <1>2, <2>1 DEF IInv, Written
    <3>2. Target(q, r) \in Object
      BY <3>1, TargetIsObject DEF WrittenAt
    <3>3. Copied(Target(q, r)) => forward'[Target(q, r)] = forward[Target(q, r)]
      BY <1>5, <3>1, <3>2 DEF WrittenAt
    <3>4. Image(Target(q, r))' = Image(Target(q, r))
      BY <3>3 DEF Image, Target
    <3> QED
      BY <3>1, <3>3, <3>4 DEF WrittenAt, Target
  <2> QED
    BY <1>2, <2>1 DEF IInv, Written
<1>13. InProgress' = InProgress \cup {t}
  <2>1. InProgress' = {stack'[i].object : i \in 1..Len(stack')}
    BY <1>9, LenProperties DEF InProgress
  <2>2. InProgress = {stack[i].object : i \in 1..Len(stack)}
    BY <1>1, LenProperties DEF InProgress
  <2>3. 1..Len(stack') = 1..Len(stack) \cup {Len(stack) + 1}
    BY <1>1, <1>9
  <2> QED
    BY <1>9, <1>10, <2>1, <2>2, <2>3
<1>14. Complete'
  BY <1>2, <1>5, <1>13 DEF IInv, Complete
<1>15. Owners'
  BY <1>2 DEF IInv, Owners
<1> QED
  BY <1>7, <1>11, <1>12, <1>14, <1>15 DEF IInv

(* A copy that is complete, and what is written of it below.               *)
LEMMA ReturnKeeps ==
  ASSUME IInv, stack # <<>>, Return
  PROVE  IInv'
<1> DEFINE n == Len(stack)
<1>1. /\ stack \in Seq(Frame) /\ n \in Nat /\ n > 0
      /\ Top \in Object /\ Copied(Top) /\ forward[Top] # None
  BY TopOfStack DEF IInv, Stacked
<1>2. UNCHANGED <<forward, allocated>> /\ stack' = SubSeq(stack, 1, n - 1) /\ Open(Top) = {}
  BY DEF Return
<1>3. /\ stack' \in Seq(Frame) /\ Len(stack') = n - 1
      /\ \A i \in 1..(n - 1) : stack'[i] = stack[i]
  <2>1. \A i \in 1..(n - 1) : stack[i] \in Frame
    BY <1>1, ElementOfSeq
  <2> DEFINE below == SubSeq(stack, 1, n - 1)
  <2>2. /\ below \in Seq(Frame)
        /\ Len(below) = IF 1 <= n - 1 THEN n - 1 - 1 + 1 ELSE 0
        /\ \A i \in 1..(n - 1 - 1 + 1) : below[i] = stack[1 + i - 1]
    <3>1. 1 \in Int /\ n - 1 \in Int
      BY <1>1
    <3> QED
      BY <2>1, <3>1, SubSeqProperties
  <2> HIDE DEF below
  <2>3. stack' = below
    BY <1>2 DEF below
  <2> QED
    BY <1>1, <2>2, <2>3
<1>4. Written' /\ Owners' /\ \A q \in Object : DOMAIN wrote[q] \subseteq DOMAIN wrote'[q]
  <2>1. CASE n > 1
    <3> DEFINE o == stack[n - 1].object
               p == stack[n].place
    <3>1. stack[n - 1] \in Frame /\ o \in Object /\ forward[o] # None
      <4>1. n - 1 \in 1..n
        BY <1>1, <2>1
      <4>2. stack[n - 1] \in Frame
        BY <1>1, <4>1, ElementOfSeq
      <4> QED
        BY <4>1, <4>2 DEF IInv, Stacked, Frame
    <3>2. p \in Places(o) /\ Target(o, p) = Top
      <4>1. n \in 1..Len(stack) /\ n > 1
        BY <1>1, <2>1
      <4> QED
        BY <4>1 DEF IInv, Stacked, Top
    <3>3. Copied(o)
      BY <3>1 DEF IInv, Forwards
    <3>4. Write(o, p, Image(Target(o, p)))
      BY <1>1, <2>1, <3>2 DEF Return, Image
    <3> HIDE DEF o, p
    <3> QED
      BY <1>1, <1>2, <3>1, <3>2, <3>3, <3>4, WriteAdds
  <2>2. CASE ~(n > 1)
    <3>1. UNCHANGED <<wrote, owners>>
      BY <2>2 DEF Return
    <3>2. Written'
      BY <1>2, <3>1 DEF IInv, Written, WrittenAt, Target, Image
    <3> QED
      BY <3>1, <3>2 DEF IInv, Owners
  <2> QED
    BY <2>1, <2>2
<1>5. Forwards'
  BY <1>2 DEF IInv, Forwards
<1>6. Stacked'
  <2>1. ASSUME NEW i \in 1..Len(stack')
        PROVE  /\ forward'[stack'[i].object] # None
               /\ i > 1 => /\ stack'[i].place \in Places(stack'[i - 1].object)
                           /\ Target(stack'[i - 1].object, stack'[i].place) = stack'[i].object
    <3>1. i \in 1..n /\ stack'[i] = stack[i] /\ (i > 1 => stack'[i - 1] = stack[i - 1])
      BY <1>1, <1>3, <2>1
    <3> QED
      BY <1>2, <3>1 DEF IInv, Stacked, Target
  <2> QED
    BY <1>3, <2>1 DEF Stacked, Target
<1>7. InProgress \subseteq InProgress' \cup {Top}
  <2>1. InProgress' = {stack'[i].object : i \in 1..(n - 1)}
    BY <1>3, LenProperties DEF InProgress
  <2>2. InProgress = {stack[i].object : i \in 1..n}
    BY <1>1, LenProperties DEF InProgress
  <2>3. 1..n = 1..(n - 1) \cup {n}
    BY <1>1
  <2> QED
    BY <1>3, <2>1, <2>2, <2>3 DEF Top
<1>8. Complete'
  <2>1. Places(Top) \subseteq DOMAIN wrote[Top]
    BY <1>2 DEF Open
  <2> QED
    BY <1>2, <1>4, <1>7, <2>1 DEF IInv, Complete
<1> QED
  BY <1>4, <1>5, <1>6, <1>8 DEF IInv

(* The inductive invariant holds throughout.                               *)
THEOREM CopyInvariant == Spec => []IInv
<1>1. IInv /\ [Next]_vars => IInv'
  <2> SUFFICES ASSUME IInv, [Next]_vars PROVE IInv'
    OBVIOUS
  <2>1. CASE UNCHANGED vars
    BY <2>1 DEF vars, IInv, Forwards, Stacked, Written, WrittenAt, Complete, Owners, InProgress, Target, Image
  <2>2. CASE Next
    <3>1. stack # <<>> /\ (Return \/ Step)
      BY <2>2 DEF Next
    <3>2. CASE Return
      BY <3>1, <3>2, ReturnKeeps
    <3>3. CASE Step
      <4>1. PICK p \in Due(Top) : Translate(p) \/ Descend(p)
        BY <3>3 DEF Step
      <4> QED
        BY <3>1, <4>1, TranslateKeeps, DescendKeeps
    <3> QED
      BY <3>1, <3>2, <3>3
  <2> QED
    BY <2>1, <2>2
<1> QED
  BY InitIInv, <1>1, PTL DEF Spec

-----------------------------------------------------------------------------
(* The variables keep their types: every pointer written leads to an object *)
(* as it was or to a copy that was made.                                   *)
THEOREM CopyTyped == Spec => []TypeOK
<1>1. IInv => TypeOK
  <2> SUFFICES ASSUME IInv PROVE TypeOK
    OBVIOUS
  <2>1. allocated \in Nat /\ owners \in [Object -> Nat]
    BY DEF IInv, Forwards, Owners
  <2>2. \A o \in Object : forward[o] # None => forward[o] \in Pointer
    BY DEF IInv, Forwards, Pointer
  <2>3. \A i \in DOMAIN stack : stack[i].object \in Object /\ forward[stack[i].object] # None
    <3> SUFFICES ASSUME NEW i \in DOMAIN stack
                 PROVE  stack[i].object \in Object /\ forward[stack[i].object] # None
      OBVIOUS
    <3>1. stack \in Seq(Frame) /\ i \in 1..Len(stack)
      BY LenProperties DEF IInv, Stacked
    <3>2. stack[i] \in Frame
      BY <3>1, ElementOfSeq
    <3> QED
      BY <3>1, <3>2 DEF IInv, Stacked, Frame
  <2>4. ASSUME NEW o \in Object, NEW p \in DOMAIN wrote[o]
        PROVE  Copied(o) /\ p \in Places(o) /\ wrote[o][p] \in Pointer
    <3>1. Copied(o) /\ WrittenAt(o, p)
      BY DEF IInv, Written
    <3>2. Target(o, p) \in Object
      BY <3>1, TargetIsObject DEF WrittenAt
    <3>3. CASE Copied(Target(o, p))
      BY <2>2, <3>1, <3>2, <3>3 DEF WrittenAt, Image
    <3>4. CASE ~Copied(Target(o, p))
      BY <2>1, <3>1, <3>2, <3>4 DEF WrittenAt, Image, Original, Pointer
    <3> QED
      BY <3>1, <3>3, <3>4 DEF WrittenAt
  <2>5. \A o \in Object : /\ DOMAIN wrote[o] \subseteq IF Copied(o) THEN Places(o) ELSE {}
                          /\ \A p \in DOMAIN wrote[o] : wrote[o][p] \in Pointer
    BY <2>4
  <2> QED
    BY <2>1, <2>2, <2>3, <2>5 DEF TypeOK
<1> QED
  BY CopyInvariant, <1>1, PTL

(* Whatever cycles lead back to an object whose copy is under way, it is   *)
(* copied once, and every pointer to it in the copy leads to that copy.    *)
THEOREM EachCopiedOnce == Spec => []CopiedOnce
<1>1. IInv => CopiedOnce
  <2> SUFFICES ASSUME IInv PROVE CopiedOnce
    OBVIOUS
  <2>1. \A o \in Object : \A p \in DOMAIN wrote[o] : wrote[o][p] = Image(Target(o, p))
    BY DEF IInv, Written, WrittenAt
  <2>2. \A o, q \in Object : forward[o] # None /\ forward[o] = forward[q] => o = q
    BY DEF IInv, Forwards
  <2> QED
    BY <2>1, <2>2 DEF CopiedOnce
<1> QED
  BY CopyInvariant, <1>1, PTL

(* A field that is translated is complete, one that is not holds nothing   *)
(* that is copied.                                                         *)
LEMMA HoldsImage ==
  ASSUME Covered, IInv, stack = <<>>,
         NEW o \in Object, forward[o] # None, NEW f \in DOMAIN Points[o], NEW i \in DOMAIN Points[o][f]
  PROVE  Holds(o, f, i) = Image(Points[o][f][i])
<1> DEFINE Here(p) == Field(o, p) = f /\ p[2] = i
<1>1. Copied(o)
  BY DEF IInv, Forwards
<1>2. \A p \in DOMAIN wrote[o] : p \in Places(o) /\ wrote[o][p] = Image(Target(o, p))
  BY DEF IInv, Written, WrittenAt
<1>3. \A p \in Places(o) : p[1] \in DOMAIN CopiedFields[Kind[o]]
  BY DEF Places
<1>4. CASE \E p \in DOMAIN wrote[o] : Here(p)
  <2>1. PICK c : c = CHOOSE p \in DOMAIN wrote[o] : Here(p)
    OBVIOUS
  <2>2. c \in DOMAIN wrote[o] /\ Here(c)
    BY <1>4, <2>1
  <2>3. Holds(o, f, i) = wrote[o][c]
    BY <1>4, <2>1 DEF Holds
  <2> QED
    BY <1>2, <2>2, <2>3 DEF Target
<1>5. CASE ~\E p \in DOMAIN wrote[o] : Here(p)
  <2>1. Holds(o, f, i) = Original(Points[o][f][i])
    BY <1>5 DEF Holds
  <2>2. ~Translates(o, f)
    <3> SUFFICES ASSUME Translates(o, f) PROVE FALSE
      OBVIOUS
    <3>1. PICK k \in DOMAIN CopiedFields[Kind[o]] : CopiedFields[Kind[o]][k] = f
      BY DEF Translates
    <3>2. <<k, i>> \in Places(o)
      BY <3>1 DEF Places
    <3>3. Here(<<k, i>>)
      BY <3>1 DEF Field
    <3>4. InProgress = {}
      BY DEF InProgress
    <3> QED
      BY <1>5, <3>2, <3>3, <3>4 DEF IInv, Complete
  <2> QED
    BY <1>1, <2>1, <2>2 DEF Covered, Image
<1> QED
  BY <1>4, <1>5

(* When the fields that copy_help leaves out hold nothing that is copied,  *)
(* the copy has the shape of the trace.                                    *)
THEOREM SameShape == ASSUME Covered PROVE Spec => []Isomorphic
<1>1. IInv => Isomorphic
  BY HoldsImage DEF Isomorphic
<1> QED
  BY CopyInvariant, <1>1, PTL

-----------------------------------------------------------------------------
(* Who keeps the copies.  Only what has a copy is written in; what has one *)
(* is part of the trace; and a copy has been given to a shared pointer     *)
(* when one that is written holds it.                                      *)
KeptAt(o, p, t) == IsShared(Field(o, p), p[2]) /\ Copied(Target(o, p)) /\ Target(o, p) = t
Kept(t) == \E o \in Object : \E p \in DOMAIN wrote[o] : KeptAt(o, p, t)

WroteForwarded == \A o \in Object : forward[o] = None => DOMAIN wrote[o] = {}
FromTrace      == forward[Trace] # None /\ \A o \in Object : forward[o] # None => o \in Reached(Trace)
Counted        == \A t \in Object : owners[t] = IF Kept(t) THEN 1 ELSE 0

OwnInv == WroteForwarded /\ FromTrace /\ Counted

(* Writing a pointer counts its target when the pointer is shared.         *)
LEMMA WriteCounts ==
  ASSUME IInv, OwnInv, NEW o \in Object, Copied(o), NEW p \in Places(o), forward[o] # None,
         UNCHANGED forward, NEW pointer, Write(o, p, pointer)
  PROVE  OwnInv'
<1>1. DOMAIN wrote = Object /\ owners \in [Object -> Nat]
  BY DEF IInv, Written, Owners
<1>2. wrote' = [wrote EXCEPT ![o] = [q \in DOMAIN wrote[o] \cup {p} |-> IF q = p THEN pointer ELSE wrote[o][q]]]
  BY DEF Write
<1>3. /\ DOMAIN wrote'[o] = DOMAIN wrote[o] \cup {p}
      /\ \A q \in Object : q # o => wrote'[q] = wrote[q]
  BY <1>1, <1>2
<1>4. WroteForwarded' /\ FromTrace'
  BY <1>3 DEF OwnInv, WroteForwarded, FromTrace, Reached, Closed, Places, Target, Field
<1>5. \A t : Kept(t)' <=> Kept(t) \/ KeptAt(o, p, t)
  BY <1>3 DEF Kept, KeptAt, Target, Field
<1>6. Target(o, p) \in Object
  BY TargetIsObject
<1>7. CASE IsShared(Field(o, p), p[2]) /\ Copied(Target(o, p))
  <2>1. owners' = [owners EXCEPT ![Target(o, p)] = Owned(Target(o, p))]
    BY <1>7 DEF Write
  <2>2. PICK u \in Object : u = Target(o, p)
    BY <1>6
  <2>3. Owned(u) = 1
    BY <2>2 DEF OwnInv, Counted, Owned
  <2>4. owners'[u] = 1 /\ \A t \in Object : t # u => owners'[t] = owners[t]
    BY <1>1, <2>1, <2>2, <2>3
  <2>5. \A t : KeptAt(o, p, t) <=> t = u
    BY <1>7, <2>2 DEF KeptAt
  <2>6. ASSUME NEW t \in Object PROVE owners'[t] = IF Kept(t)' THEN 1 ELSE 0
    BY <1>5, <2>4, <2>5 DEF OwnInv, Counted
  <2> QED
    BY <1>4, <2>6 DEF OwnInv, Counted
<1>8. CASE ~(IsShared(Field(o, p), p[2]) /\ Copied(Target(o, p)))
  <2>1. owners' = owners
    BY <1>8 DEF Write
  <2>2. \A t : ~KeptAt(o, p, t)
    BY <1>8 DEF KeptAt
  <2> QED
    BY <1>4, <1>5, <2>1, <2>2 DEF OwnInv, Counted
<1> QED
  BY <1>7, <1>8

(* The owners are counted throughout.                                      *)
LEMMA StepCounts == IInv /\ OwnInv /\ [Next]_vars => OwnInv'
<1> SUFFICES ASSUME IInv, OwnInv, [Next]_vars PROVE OwnInv'
  OBVIOUS
<1>1. CASE UNCHANGED vars
  BY <1>1 DEF vars, OwnInv, WroteForwarded, FromTrace, Counted, Kept, KeptAt, Reached, Closed, Places, Target, Field
<1>2. ASSUME stack # <<>>, NEW p \in Due(Top), Translate(p) PROVE OwnInv'
  <2>1. Top \in Object /\ Copied(Top) /\ forward[Top] # None /\ p \in Places(Top)
    BY <1>2, TopOfStack, DueIsOpen
  <2>2. UNCHANGED forward /\ Write(Top, p, Image(Target(Top, p)))
    BY <1>2 DEF Translate
  <2>3. PICK o \in Object : o = Top
    BY <2>1
  <2> QED
    BY <2>1, <2>2, <2>3, WriteCounts
<1>3. ASSUME stack # <<>>, NEW p \in Due(Top), Descend(p) PROVE OwnInv'
  <2>1. Top \in Object /\ Copied(Top) /\ forward[Top] # None /\ p \in Places(Top)
    BY <1>3, TopOfStack, DueIsOpen
  <2> DEFINE t == Target(Top, p)
  <2>2. /\ forward' = [forward EXCEPT ![t] = Copy(allocated + 1, t)] /\ forward[t] = None
        /\ UNCHANGED <<wrote, owners>>
    BY <1>3 DEF Descend, New, Forward, Ask
  <2>3. t \in Object
    BY <2>1, TargetIsObject
  <2>4. t \in Reached(Trace)
    <3> SUFFICES ASSUME NEW S \in SUBSET Object, Trace \in S, Closed(S) PROVE t \in S
      BY <2>3 DEF Reached
    <3>1. Top \in S
      BY <2>1 DEF OwnInv, FromTrace, Reached
    <3> QED
      BY <2>1, <3>1 DEF Closed
  <2> HIDE DEF t
  <2>5. \A q \in Object : q # t => forward'[q] = forward[q]
    BY <2>2 DEF IInv, Forwards
  <2>6. FromTrace'
    BY <2>2, <2>4, <2>5, HeapAssumption DEF OwnInv, FromTrace, Reached, Closed, Places, Target, Field
  <2>7. WroteForwarded'
    BY <2>2, <2>5 DEF OwnInv, WroteForwarded
  <2>8. Counted'
    BY <2>2 DEF OwnInv, Counted, Kept, KeptAt, Target, Field
  <2> QED
    BY <2>6, <2>7, <2>8 DEF OwnInv
<1>4. ASSUME stack # <<>>, Return PROVE OwnInv'
  <2>1. stack \in Seq(Frame) /\ Len(stack) \in Nat /\ Len(stack) > 0
    BY <1>4, TopOfStack DEF IInv, Stacked
  <2>2. CASE Len(stack) > 1
    <3>1. PICK n \in Nat : n = Len(stack)
      BY <2>1
    <3>2. stack[n - 1] \in Frame
      BY <2>1, <2>2, <3>1, ElementOfSeq
    <3>3. PICK o \in Object : o = stack[n - 1].object
      BY <3>2 DEF Frame
    <3>8. PICK p : p = stack[n].place
      OBVIOUS
    <3>4. forward[o] # None /\ p \in Places(o)
      <4>1. n \in 1..Len(stack) /\ n - 1 \in 1..Len(stack) /\ n > 1
        BY <2>1, <2>2, <3>1
      <4> QED
        BY <3>3, <3>8, <4>1 DEF IInv, Stacked
    <3>5. Copied(o)
      BY <3>4 DEF IInv, Forwards
    <3>6. UNCHANGED forward /\ Write(o, p, forward[Top])
      BY <1>4, <2>2, <3>1, <3>3, <3>8 DEF Return
    <3>7. PICK pointer : pointer = forward[Top]
      OBVIOUS
    <3> QED
      BY <3>4, <3>5, <3>6, <3>7, WriteCounts
  <2>3. CASE ~(Len(stack) > 1)
    <3>1. UNCHANGED <<forward, wrote, owners>>
      BY <1>4, <2>3 DEF Return
    <3> QED
      BY <3>1 DEF OwnInv, WroteForwarded, FromTrace, Counted, Kept, KeptAt, Reached, Closed, Places, Target, Field
  <2> QED
    BY <2>2, <2>3
<1> QED
  BY <1>1, <1>2, <1>3, <1>4 DEF Next, Step

(* In the end what has a copy is what the trace leads to and is copied.    *)
LEMMA CopiedIsReached ==
  ASSUME IInv, OwnInv, stack = <<>>, NEW o \in Object, Copied(o)
  PROVE  /\ forward[o] # None <=> o \in Reached(Trace)
         /\ DOMAIN wrote[o] = IF o \in Reached(Trace) THEN Places(o) ELSE {}
<1> DEFINE S == {q \in Object : Copied(q) => forward[q] # None}
<1>1. InProgress = {}
  BY DEF InProgress
<1>2. ASSUME NEW q \in Object, forward[q] # None PROVE DOMAIN wrote[q] = Places(q)
  BY <1>1, <1>2 DEF IInv, Complete, Written, WrittenAt
<1>3. Closed(S)
  <2> SUFFICES ASSUME NEW q \in Object, Copied(q), forward[q] # None, NEW p \in Places(q)
               PROVE  Target(q, p) \in Object /\ (Copied(Target(q, p)) => forward[Target(q, p)] # None)
    BY DEF Closed
  <2>1. Target(q, p) \in Object
    BY TargetIsObject
  <2>2. p \in DOMAIN wrote[q]
    BY <1>2
  <2> QED
    BY <2>1, <2>2 DEF IInv, Written, WrittenAt
<1>4. Trace \in S
  BY HeapAssumption DEF OwnInv, FromTrace
<1>5. o \in Reached(Trace) => forward[o] # None
  BY <1>3, <1>4 DEF Reached
<1>6. forward[o] # None <=> o \in Reached(Trace)
  BY <1>5 DEF OwnInv, FromTrace
<1>7. forward[o] = None => DOMAIN wrote[o] = {}
  BY DEF OwnInv, WroteForwarded
<1> QED
  BY <1>2, <1>6, <1>7

(* At the start the trace alone has a copy.                                *)
LEMMA InitCounts == Init => OwnInv
<1> SUFFICES ASSUME Init PROVE OwnInv
  OBVIOUS
<1>1. forward[Trace] # None /\ \A o \in Object : forward[o] # None => o = Trace
  BY HeapAssumption DEF Init, Copy
<1>2. Trace \in Reached(Trace)
  BY HeapAssumption DEF Reached
<1>3. \A o \in Object : DOMAIN wrote[o] = {} /\ owners[o] = 0
  BY DEF Init
<1> QED
  BY <1>1, <1>2, <1>3 DEF OwnInv, WroteForwarded, FromTrace, Counted, Kept

(* When each object the trace leads to is either kept by shared pointers   *)
(* or deleted by one output node, so is each copy: copy_shared gives out   *)
(* the same first pointer however often and in whatever order it is asked, *)
(* and no copy is left without an owner.                                   *)
THEOREM CopiesOwnedOnce == ASSUME OwnedOriginally(Reached(Trace)) PROVE Spec => []OwnedOnce
<1>1. IInv /\ OwnInv => OwnedOnce
  <2> SUFFICES ASSUME IInv, OwnInv, stack = <<>>, NEW t \in Object \ {Trace}, forward[t] # None
               PROVE  owners[t] + Cardinality({q \in Object : \E p \in Deletes(q) : wrote[q][p] = forward[t]}) = 1
    BY DEF OwnedOnce
  <2> DEFINE R == Reached(Trace)
             At(q) == IF Copied(q) THEN {p \in Places(q) : Target(q, p) = t} ELSE {}
             D == {q \in R : \E p \in At(q) : IsDeleted(q, p)}
             W == {q \in Object : \E p \in Deletes(q) : wrote[q][p] = forward[t]}
  <2>1. Copied(t) /\ t \in R /\ R \subseteq Object
    BY DEF IInv, Forwards, OwnInv, FromTrace, Reached
  <2>2. \A q \in Object : \A p : p \in DOMAIN wrote[q] <=> Copied(q) /\ q \in R /\ p \in Places(q)
    <3> SUFFICES ASSUME NEW q \in Object
                 PROVE  \A p : p \in DOMAIN wrote[q] <=> Copied(q) /\ q \in R /\ p \in Places(q)
      OBVIOUS
    <3>1. CASE Copied(q)
      BY <3>1, CopiedIsReached
    <3>2. CASE ~Copied(q)
      BY <3>2 DEF IInv, Written
    <3> QED
      BY <3>1, <3>2
  <2>3. ASSUME NEW q \in Object, NEW p \in DOMAIN wrote[q]
        PROVE  wrote[q][p] = forward[t] <=> Target(q, p) = t
    <3>1. Copied(q) /\ p \in Places(q) /\ wrote[q][p] = Image(Target(q, p))
          /\ (Copied(Target(q, p)) => forward[Target(q, p)] # None)
      BY DEF IInv, Written, WrittenAt
    <3>2. PICK u \in Object : u = Target(q, p)
      BY <3>1, TargetIsObject
    <3>3. PICK n : forward[t] = <<n, t>>
      BY DEF IInv, Forwards
    <3>4. CASE Copied(u)
      <4>1. PICK m : forward[u] = <<m, u>>
        BY <3>1, <3>2, <3>4 DEF IInv, Forwards
      <4> QED
        BY <3>1, <3>2, <3>3, <3>4, <4>1 DEF Image
    <3>5. CASE ~Copied(u)
      <4>1. wrote[q][p] = <<0, u>> /\ u # t
        BY <2>1, <3>1, <3>2, <3>5 DEF Image, Original
      <4> QED
        BY <3>2, <3>3, <4>1
    <3> QED
      BY <3>4, <3>5
  <2>4. W = D
    <3>1. ASSUME NEW q \in Object, NEW p PROVE p \in Deletes(q) /\ wrote[q][p] = forward[t] <=> q \in R /\ p \in At(q) /\ IsDeleted(q, p)
      BY <2>2, <2>3 DEF Deletes
    <3> HIDE DEF At, R
    <3> QED
      BY <2>1, <3>1
  <2>5. Kept(t) <=> \E q \in R : \E p \in At(q) : IsShared(Field(q, p), p[2])
    <3>1. ASSUME NEW q \in Object, NEW p PROVE p \in DOMAIN wrote[q] /\ KeptAt(q, p, t) <=> q \in R /\ p \in At(q) /\ IsShared(Field(q, p), p[2])
      BY <2>1, <2>2 DEF KeptAt
    <3> HIDE DEF At, R
    <3> QED
      BY <2>1, <3>1 DEF Kept
  <2>6. (IF \E q \in R : \E p \in At(q) : IsShared(Field(q, p), p[2]) THEN 1 ELSE 0) + Cardinality(D) = 1
    BY <2>1 DEF OwnedOriginally
  <2> HIDE DEF D, W, At, R
  <2>7. owners[t] = IF Kept(t) THEN 1 ELSE 0
    BY DEF OwnInv, Counted
  <2> QED
    BY <2>4, <2>5, <2>6, <2>7 DEF W
<1>2. Init => IInv /\ OwnInv
  BY InitIInv, InitCounts
<1> QED
  BY CopyInvariant, <1>1, InitCounts, StepCounts, PTL DEF Spec

-----------------------------------------------------------------------------
(* A set of natural numbers has a least element.                           *)
LEMMA Least ==
  ASSUME NEW S, S \subseteq Nat, S # {}
  PROVE  \E i \in S : \A j \in S : i <= j
<1> DEFINE R == OpToRel(<, Nat)
<1>1. IsWellFoundedOn(R, Nat)
  BY NatLessThanWellFounded
<1>2. \E x \in S : \A y \in S : ~(<<y, x>> \in R)
  <2> HIDE DEF R
  <2> QED
    BY <1>1, WFMin
<1>3. \A x \in Nat, y \in Nat : <<y, x>> \in R <=> y < x
  BY DEF OpToRel
<1> HIDE DEF R
<1>4. PICK x \in S : \A y \in S : ~(<<y, x>> \in R)
  BY <1>2
<1>5. \A y \in S : ~(y < x)
  BY <1>4, <1>3, Zenon
<1>6. \A y \in S : x <= y
  BY <1>5
<1> QED
  BY <1>6

(* What is under way leads to what is being copied on top of it.           *)
LEMMA LeadsUp ==
  ASSUME NEW s \in Seq(Frame),
         \A i \in 1..Len(s) : Copied(s[i].object),
         \A i \in 1..Len(s) : i > 1 =>
            /\ s[i].place \in Places(s[i - 1].object)
            /\ Target(s[i - 1].object, s[i].place) = s[i].object,
         NEW b \in 1..Len(s)
  PROVE  s[Len(s)].object \in Reached(s[b].object)
<1>0. Len(s) \in Nat /\ Len(s) \in 1..Len(s) /\ \A i \in 1..Len(s) : s[i].object \in Object
  <2>1. Len(s) \in Nat
    OBVIOUS
  <2>2. \A i \in 1..Len(s) : s[i] \in Frame
    BY <2>1, ElementOfSeq
  <2> QED
    BY <2>1, <2>2 DEF Frame
<1> SUFFICES ASSUME NEW S \in SUBSET Object, s[b].object \in S, Closed(S), s[Len(s)].object \notin S
             PROVE  FALSE
  BY <1>0 DEF Reached
<1> DEFINE Left == {i \in 1..Len(s) : i > b /\ s[i].object \notin S}
<1>1. Len(s) \in Left
  <2>1. b # Len(s)
    OBVIOUS
  <2> QED
    BY <1>0, <2>1
<1>2. PICK i \in Left : \A j \in Left : i <= j
  <2>1. Left \subseteq Nat /\ Left # {}
    BY <1>0, <1>1
  <2> HIDE DEF Left
  <2> QED
    BY <2>1, Least
<1>3. i - 1 \in 1..Len(s) /\ i > 1 /\ i \in 1..Len(s) /\ i - 1 \notin Left
  BY <1>0, <1>2
<1>4. s[i - 1].object \in S
  BY <1>0, <1>2, <1>3
<1>5. s[i].object \in S
  BY <1>3, <1>4 DEF Closed
<1> QED
  BY <1>2, <1>5

(* A step writes, if anything, in the copy that is then on top.            *)
LEMMA WritesOnTop ==
  ASSUME IInv, Next, NEW o \in Object, wrote'[o] # wrote[o]
  PROVE  Len(stack') \in 1..Len(stack') /\ o = stack'[Len(stack')].object
<1>1. DOMAIN wrote = Object /\ stack # <<>>
  BY DEF IInv, Written, Next
<1>2. stack \in Seq(Frame) /\ Len(stack) \in Nat /\ Len(stack) > 0
  BY <1>1, TopOfStack DEF IInv, Stacked
<1>3. \A q, p, pointer : Write(q, p, pointer) => \A x \in Object : x # q => wrote'[x] = wrote[x]
  BY <1>1 DEF Write
<1>4. CASE Step
  <2>1. PICK p \in Due(Top) : Translate(p) \/ Descend(p)
    BY <1>4 DEF Step
  <2>2. CASE Translate(p)
    <3>1. o = Top /\ stack' = stack
      BY <1>3, <2>2 DEF Translate
    <3> QED
      BY <1>2, <3>1 DEF Top
  <2>3. CASE Descend(p)
    BY <2>3 DEF Descend, Ask
  <2> QED
    BY <2>1, <2>2, <2>3
<1>5. CASE Return
  <2>1. Len(stack) > 1 /\ o = stack[Len(stack) - 1].object /\ stack' = SubSeq(stack, 1, Len(stack) - 1)
    BY <1>3, <1>5 DEF Return
  <2>2. PICK n \in Nat : n = Len(stack) - 1
    BY <1>2, <2>1
  <2>3. n >= 1 /\ n <= Len(stack)
    BY <1>2, <2>1, <2>2
  <2>4. stack' = SubSeq(stack, 1, n) /\ o = stack[n].object
    BY <2>1, <2>2
  <2>5. \A i \in 1..n : stack[i] \in Frame
    BY <1>2, <2>3, ElementOfSeq
  <2>6. Len(SubSeq(stack, 1, n)) = n /\ SubSeq(stack, 1, n)[n] = stack[n]
    <3>1. 1 \in Int /\ n \in Int /\ n \in 1..n
      BY <2>3
    <3>2. /\ Len(SubSeq(stack, 1, n)) = IF 1 <= n THEN n - 1 + 1 ELSE 0
          /\ \A i \in 1..(n - 1 + 1) : SubSeq(stack, 1, n)[i] = stack[1 + i - 1]
      BY <2>5, <3>1, SubSeqProperties
    <3>3. n - 1 + 1 = n /\ 1 + n - 1 = n
      OBVIOUS
    <3> QED
      BY <2>3, <3>1, <3>2, <3>3
  <2> QED
    BY <2>3, <2>4, <2>6
<1> QED
  BY <1>4, <1>5 DEF Next

(* When no part of a key leads back to the table that it is a key of, a    *)
(* key is put in a hash table only when its hash can be computed: nothing  *)
(* it is computed from is still being copied.                              *)
THEOREM KeysComplete == ASSUME KeysApart([o \in Object |-> Reached(o)]) PROVE Spec => KeysFinal
<1>1. IInv /\ IInv' /\ Next =>
        \A o \in Object : wrote'[o] # wrote[o] => \A p \in DOMAIN wrote'[o] :
          IsHashed(Field(o, p), p[2]) /\ p \notin DOMAIN wrote[o] => HashParts(Target(o, p)) \cap InProgress' = {}
  <2> SUFFICES ASSUME IInv, IInv', Next, NEW o \in Object, wrote'[o] # wrote[o], NEW p \in DOMAIN wrote'[o],
                      IsHashed(Field(o, p), p[2]), NEW h \in HashParts(Target(o, p)), h \in InProgress'
               PROVE  FALSE
    OBVIOUS
  <2>1. Copied(o) /\ p \in Places(o)
    BY DEF IInv, Written, WrittenAt
  <2>2. PICK s \in Seq(Frame) : s = stack'
    BY DEF IInv, Stacked
  <2>3. /\ \A i \in 1..Len(s) : Copied(s[i].object) /\ s[i].object \in Object
        /\ \A i \in 1..Len(s) : i > 1 =>
             /\ s[i].place \in Places(s[i - 1].object)
             /\ Target(s[i - 1].object, s[i].place) = s[i].object
    <3>1. \A i \in 1..Len(s) : s[i] \in Frame
      BY ElementOfSeq
    <3>2. Stacked' /\ Forwards'
      BY DEF IInv
    <3>3. \A i \in 1..Len(s) : s[i].object \in Object /\ forward'[s[i].object] # None
      BY <2>2, <3>1, <3>2 DEF Stacked, Frame
    <3>4. \A i \in 1..Len(s) : Copied(s[i].object)
      BY <3>2, <3>3 DEF Forwards, Copied
    <3>5. \A i \in 1..Len(s) : i > 1 =>
             /\ s[i].place \in Places(s[i - 1].object)
             /\ Target(s[i - 1].object, s[i].place) = s[i].object
      BY <2>2, <3>2 DEF Stacked, Target
    <3> QED
      BY <3>3, <3>4, <3>5
  <2>4. PICK b \in 1..Len(s) : h = s[b].object
    <3>1. InProgress' = {s[i].object : i \in DOMAIN s}
      BY <2>2 DEF InProgress
    <3> QED
      BY <3>1
  <2>5. o = s[Len(s)].object
    BY <2>2, WritesOnTop
  <2>6. o \in Reached(h) /\ h \in Object
    BY <2>3, <2>4, <2>5, LeadsUp
  <2> QED
    BY <2>1, <2>6 DEF KeysApart
<1> QED
  BY CopyInvariant, <1>1, PTL DEF Spec, KeysFinal
=============================================================================
