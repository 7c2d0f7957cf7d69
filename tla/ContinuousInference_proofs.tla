--------------------- MODULE ContinuousInference_proofs ---------------------
(***************************************************************************)
(* Proofs about continuous inference, for any number of loops and of       *)
(* instructions and whatever the loops' programs do: there is one loop at  *)
(* a time, and it works only while no instruction of the user does.        *)
(*                                                                         *)
(* The argument is about the order of tasks on the user's stack: what      *)
(* needs the loops to be gone is right behind a stop, or begins when a     *)
(* stop has just ended, and a new loop is launched only when nothing of    *)
(* that kind is left.                                                      *)
(***************************************************************************)
EXTENDS ContinuousInference, SequenceTheorems, FiniteSetTheorems, FunctionTheorems,
        WellFoundedInduction, TLAPS

Types == {"read", "grab", "release", "join", "joinNone", "forget", "make", "launch", "loop",
          "execute", "pause", "enter", "exit", "restart", "reraise", "count", "drop", "want",
          "work", "raise"}
Kinds == {"none", "infer", "loop", "start", "stop", "list", "status", "assume"}
Names == Programs \cup {"none", "outer"}
TaskSet == [t : Types, kind : Kinds, prog : Names, i : Nat]

(* The user's instructions pause, but for those that only ask for loops.   *)
Unpaused == {"status", "start", "stop"}
UserTask == {x \in TaskSet : x.t = "enter" => x.kind \in Unpaused}

(* A loop infers, and its program gives commands; it stops no loop but     *)
(* itself, which fails, and starts none.                                   *)
LoopTypes == {"loop", "execute", "enter", "work", "raise", "exit", "restart", "reraise", "count",
              "drop", "read", "grab", "release", "join", "joinNone", "want"}
Commands  == {"infer", "assume", "stop"}
LoopTask(o) ==
  {x \in TaskSet : /\ x.t \in LoopTypes
                   /\ x.t \in {"execute", "enter"} => x.kind \in Commands
                   /\ x.t \in {"exit", "restart"} => x.prog = "none"
                   /\ x.t \in {"grab", "release", "join", "joinNone"} => x.i = o}
LoopStack(o) == {s \in Seq(LoopTask(o)) : \A j \in 1 .. Len(s) - 1 : s[j].t # "loop"}

(* Which task may be behind which on the user's stack.                     *)
Stopping == {"read", "grab", "release", "join", "joinNone", "forget"}
Adjacent(a, b) ==
  /\ b.t \in {"make", "pause"} => a.t \in Stopping
  /\ b.t = "launch" => a.t = "make"
  /\ b.t = "join" => a.t = "release" /\ a.i = b.i
  /\ a.t = "release" => b.t \in {"join", "joinNone"}
  /\ b.t \notin {"work", "forget", "grab", "release"}
Follows(s) == \A j \in 1 .. Len(s) - 1 : Adjacent(s[j], s[j + 1])

(* What holds when a task of the user is about to run.                     *)
NoLoop == \A o \in Loop : todo[o] = <<>>
Alone  == {"work", "make", "pause", "launch", "forget"}
Ready(x) == /\ x.t \in Alone => NoLoop
            /\ x.t \in {"grab", "release", "join"} => x.i = current /\ current \in Loop
            /\ x.t = "launch" => current \in Loop /\ crashed[current] = FALSE

Plain == /\ program \in [Loop -> Names] /\ ret \in [Thread -> Names]
         /\ stack \in Seq(Thread \X Nat)
         /\ current \in 0..made /\ made \in 0..MaxLoops
         /\ crashed \in [Loop -> BOOLEAN] /\ DOMAIN todo = Thread
UserInv == /\ todo[User] \in Seq(UserTask) /\ Follows(todo[User])
           /\ todo[User] # <<>> => Ready(Head(todo[User]))
LoopInv == \A o \in Loop :
             /\ todo[o] \in LoopStack(o)
             /\ todo[o] # <<>> => o = current /\ crashed[o] = FALSE
             /\ o > made => crashed[o] = FALSE
AtWork  == \A th \in working : th \in Thread /\ todo[th] # <<>> /\ Head(todo[th]).t = "work"

IInv == Plain /\ UserInv /\ LoopInv /\ AtWork

-----------------------------------------------------------------------------
(* Sequences.                                                              *)

(* A set of natural numbers has a least element.                           *)
LEMMA Least ==
  ASSUME NEW S, S \subseteq Nat, S # {}
  PROVE  \E i \in S : \A j \in S : i <= j
<1> DEFINE R == OpToRel(<, Nat)
<1>1. IsWellFoundedOn(R, Nat)
  BY NatLessThanWellFounded
<1>2. \E x \in S : \A y \in S : ~(<<y, x>> \in R)
  <2> HIDE DEF R
  <2> QED  BY <1>1, WFMin
<1>3. \A x \in Nat, y \in Nat : <<y, x>> \in R <=> y < x
  BY DEF OpToRel
<1> HIDE DEF R
<1>4. PICK x \in S : \A y \in S : ~(<<y, x>> \in R)
  BY <1>2
<1>5. \A y \in S : ~(y < x)
  BY <1>4, <1>3, Zenon
<1>6. \A y \in S : x <= y
  BY <1>5
<1> QED  BY <1>6

(* Replacing the head of a stack.                                          *)
LEMMA Replaced ==
  ASSUME NEW S, NEW s \in Seq(S), s # <<>>, NEW cs \in Seq(S)
  PROVE  /\ cs \o Tail(s) \in Seq(S)
         /\ Len(cs \o Tail(s)) = Len(cs) + Len(s) - 1
         /\ \A j \in 1..Len(cs) : (cs \o Tail(s))[j] = cs[j]
         /\ \A j \in 2..Len(s) : (cs \o Tail(s))[Len(cs) + j - 1] = s[j]
<1>1. Tail(s) \in Seq(S) /\ Len(Tail(s)) = Len(s) - 1 /\ Len(s) \in Nat \ {0}
  OBVIOUS
<1>2. \A j \in 1 .. Len(s) - 1 : Tail(s)[j] = s[j + 1]
  OBVIOUS
<1>3. /\ cs \o Tail(s) \in Seq(S) /\ Len(cs \o Tail(s)) = Len(cs) + Len(Tail(s))
      /\ \A j \in 1..Len(cs) : (cs \o Tail(s))[j] = cs[j]
      /\ \A j \in 1..Len(Tail(s)) : (cs \o Tail(s))[Len(cs) + j] = Tail(s)[j]
  BY <1>1
<1>4. ASSUME NEW j \in 2..Len(s) PROVE (cs \o Tail(s))[Len(cs) + j - 1] = s[j]
  <2>1. j - 1 \in 1..Len(Tail(s)) /\ Len(cs) + (j - 1) = Len(cs) + j - 1
    BY <1>1
  <2>2. (cs \o Tail(s))[Len(cs) + (j - 1)] = Tail(s)[j - 1]
    BY <2>1, <1>3
  <2>3. Tail(s)[j - 1] = s[j - 1 + 1]
    BY <2>1, <1>1, <1>2
  <2> QED  BY <2>1, <2>2, <2>3
<1> QED  BY <1>1, <1>3, <1>4

(* The tasks put in place of the head may be followed by what followed it. *)
LEMMA ReplacedFollows ==
  ASSUME NEW S, NEW s \in Seq(S), s # <<>>, NEW cs \in Seq(S), Follows(s), Follows(cs), cs # <<>>,
         \A b \in S : Adjacent(Head(s), b) => Adjacent(cs[Len(cs)], b)
  PROVE  Follows(cs \o Tail(s)) /\ Head(cs \o Tail(s)) = cs[1]
<1> DEFINE r == cs \o Tail(s)
<1>1. /\ r \in Seq(S) /\ Len(r) = Len(cs) + Len(s) - 1
      /\ \A j \in 1..Len(cs) : r[j] = cs[j]
      /\ \A j \in 2..Len(s) : r[Len(cs) + j - 1] = s[j]
  BY Replaced
<1>2. Len(cs) \in Nat \ {0} /\ Len(s) \in Nat \ {0} /\ Head(s) = s[1]
  OBVIOUS
<1> HIDE DEF r
<1>3. ASSUME NEW j \in 1 .. Len(r) - 1 PROVE Adjacent(r[j], r[j + 1])
  <2>1. CASE j < Len(cs)
    <3>1. j \in 1 .. Len(cs) - 1 /\ j \in 1..Len(cs) /\ j + 1 \in 1..Len(cs)
      BY <2>1, <1>2
    <3> QED  BY <3>1, <1>1 DEF Follows
  <2>2. CASE j = Len(cs)
    <3>1. 2 \in 2..Len(s) /\ 1 \in 1 .. Len(s) - 1 /\ s[2] \in S
      BY <2>2, <1>1, <1>2
    <3>2. r[Len(cs) + 2 - 1] = s[2] /\ r[j] = cs[Len(cs)]
      BY <2>2, <3>1, <1>1, <1>2
    <3>3. Adjacent(s[1], s[1 + 1])
      BY <3>1 DEF Follows
    <3>4. Adjacent(cs[Len(cs)], s[2])
      BY <3>3, <3>1, <1>2
    <3>5. Len(cs) + 2 - 1 = j + 1
      BY <2>2, <1>2
    <3> QED  BY <3>2, <3>4, <3>5
  <2>3. CASE j > Len(cs)
    <3> DEFINE k == j + 1 - Len(cs)
    <3>1. /\ k \in 2..Len(s) /\ k + 1 \in 2..Len(s) /\ k \in 1 .. Len(s) - 1
          /\ Len(cs) + k - 1 = j /\ Len(cs) + (k + 1) - 1 = j + 1
      BY <2>3, <1>1, <1>2
    <3> HIDE DEF k
    <3>2. r[Len(cs) + k - 1] = s[k] /\ r[Len(cs) + (k + 1) - 1] = s[k + 1]
      BY <3>1, <1>1
    <3>3. Adjacent(s[k], s[k + 1])
      BY <3>1 DEF Follows
    <3> QED  BY <3>1, <3>2, <3>3
  <2> QED  BY <2>1, <2>2, <2>3, <1>1, <1>2
<1>4. Head(r) = cs[1]
  <2>1. r # <<>> /\ 1 \in 1..Len(cs)
    BY <1>1, <1>2
  <2> QED  BY <2>1, <1>1
<1> QED  BY <1>3, <1>4 DEF Follows, r

(* What is left of a stack is in the same order.                           *)
LEMMA SuffixFollows ==
  ASSUME NEW S, NEW s \in Seq(S), NEW k \in 1 .. Len(s) + 1, Follows(s)
  PROVE  LET r == SubSeq(s, k, Len(s))
         IN /\ r \in Seq(S) /\ Follows(r)
            /\ (r # <<>> => k \in 1..Len(s) /\ Head(r) = s[k])
<1> DEFINE r == SubSeq(s, k, Len(s))
<1>1. r \in Seq(S) /\ Len(r) = Len(s) - k + 1 /\ \A j \in 1..Len(r) : r[j] = s[k + j - 1]
  <2>1. k \in Int /\ Len(s) \in Nat /\ k >= 1 /\ k <= Len(s) + 1
    OBVIOUS
  <2> QED  BY <2>1, SubSeqProperties
<1> HIDE DEF r
<1>2. ASSUME NEW j \in 1 .. Len(r) - 1 PROVE Adjacent(r[j], r[j + 1])
  <2>1. /\ j \in 1..Len(r) /\ j + 1 \in 1..Len(r) /\ k + j - 1 \in 1 .. Len(s) - 1
        /\ k + (j + 1) - 1 = (k + j - 1) + 1
    BY <1>1
  <2> QED  BY <2>1, <1>1 DEF Follows
<1>3. ASSUME r # <<>> PROVE k \in 1..Len(s) /\ Head(r) = s[k]
  <2>1. Len(r) > 0 /\ 1 \in 1..Len(r) /\ k + 1 - 1 = k
    BY <1>1, <1>3
  <2> QED  BY <2>1, <1>1
<1> QED  BY <1>1, <1>2, <1>3 DEF Follows, r

(* An exception unwinds to an exit or to the loop, or past all tasks.      *)
LEMMA UnwoundSuffix ==
  ASSUME NEW S, NEW s \in Seq(S)
  PROVE  \E k \in 1 .. Len(s) + 1 :
           /\ Unwound(s) = SubSeq(s, k, Len(s))
           /\ k \in 1..Len(s) => s[k].t \in {"exit", "loop"}
<1>1. CASE Handlers(s) = {}
  <2>1. SubSeq(s, Len(s) + 1, Len(s)) = <<>>
    <3>1. Len(s) + 1 \in Int /\ Len(s) \in Nat /\ Len(s) + 1 > Len(s)
      OBVIOUS
    <3> QED  BY <3>1
  <2>2. Unwound(s) = SubSeq(s, Len(s) + 1, Len(s))
    BY <1>1, <2>1 DEF Unwound
  <2>3. Len(s) + 1 \in 1 .. Len(s) + 1 /\ Len(s) + 1 \notin 1..Len(s)
    OBVIOUS
  <2> QED  BY <2>2, <2>3
<1>2. CASE Handlers(s) # {}
  <2> DEFINE k == CHOOSE i \in Handlers(s) : \A j \in Handlers(s) : i <= j
  <2>1. Handlers(s) \subseteq Nat
    BY DEF Handlers
  <2>2. \E i \in Handlers(s) : \A j \in Handlers(s) : i <= j
    BY <2>1, <1>2, Least
  <2>3. k \in Handlers(s)
    BY <2>2
  <2>4. Unwound(s) = SubSeq(s, k, Len(s))
    BY <1>2 DEF Unwound
  <2> HIDE DEF k
  <2>5. k \in 1..Len(s) /\ s[k].t \in {"exit", "loop"}
    BY <2>3 DEF Handlers
  <2> QED  BY <2>4, <2>5
<1> QED  BY <1>1, <1>2

-----------------------------------------------------------------------------
(* Steps of a thread that change its own stack of tasks.                   *)

(* What such a step leaves as it was.                                      *)
Kept(th) == /\ current' = current /\ made' = made /\ crashed' = crashed /\ program' = program
            /\ ret' \in [Thread -> Names] /\ stack' \in Seq(Thread \X Nat)
            /\ working' \subseteq working \ {th}

(* A thread that is to do something else is not at work.                   *)
LEMMA NotAtWork ==
  ASSUME IInv, NEW th \in Thread, todo[th] # <<>>, Head(todo[th]).t # "work",
         current' = current, made' = made, crashed' = crashed, program' = program,
         working' = working, ret' \in [Thread -> Names], stack' \in Seq(Thread \X Nat)
  PROVE  Kept(th)
BY DEF IInv, AtWork, Kept

(* The user has other tasks to do, all as they should be.                  *)
LEMMA UserStep ==
  ASSUME IInv, NEW s, s \in Seq(UserTask), Follows(s), s # <<>> => Ready(Head(s)),
         todo' = [todo EXCEPT ![User] = s], Kept(User)
  PROVE  IInv'
<1>1. User \in Thread /\ User \notin Loop /\ Loop \subseteq Thread /\ DOMAIN todo = Thread
  BY DEF IInv, Plain, User, Loop, Thread
<1>2. todo'[User] = s /\ DOMAIN todo' = Thread /\ \A th \in Thread \ {User} : todo'[th] = todo[th]
  BY <1>1
<1>3. Plain'
  BY <1>2 DEF IInv, Plain, Kept
<1>4. NoLoop' <=> NoLoop
  BY <1>1, <1>2 DEF NoLoop
<1>5. UserInv'
  BY <1>2, <1>4 DEF UserInv, Ready, Kept
<1>6. LoopInv'
  BY <1>1, <1>2 DEF IInv, LoopInv, Kept
<1>7. AtWork'
  BY <1>1, <1>2 DEF IInv, AtWork, Kept
<1> QED  BY <1>3, <1>5, <1>6, <1>7 DEF IInv

(* The user's next task is replaced by others.                             *)
LEMMA UserPush ==
  ASSUME IInv, todo[User] # <<>>,
         NEW cs, cs \in Seq(UserTask), cs # <<>>, Follows(cs), Ready(cs[1]),
         \A b \in UserTask : Adjacent(Head(todo[User]), b) => Adjacent(cs[Len(cs)], b),
         todo' = [todo EXCEPT ![User] = cs \o Tail(@)], Kept(User)
  PROVE  IInv'
<1>1. todo[User] \in Seq(UserTask) /\ Follows(todo[User])
  BY DEF IInv, UserInv
<1> DEFINE s == cs \o Tail(todo[User])
<1>2. s \in Seq(UserTask)
  BY <1>1, Replaced
<1>3. Follows(s) /\ Head(s) = cs[1]
  BY <1>1, ReplacedFollows
<1>4. todo' = [todo EXCEPT ![User] = s]
  OBVIOUS
<1> HIDE DEF s
<1> QED  BY <1>2, <1>3, <1>4, UserStep

(* What is behind a task that is neither part of a stop nor makes a loop   *)
(* may run at any time.                                                    *)
LEMMA Behind ==
  ASSUME NEW s \in Seq(UserTask), s # <<>>, Follows(s)
  PROVE  /\ Tail(s) \in Seq(UserTask) /\ Follows(Tail(s)) /\ <<>> \o Tail(s) = Tail(s)
         /\ Tail(s) # <<>> => Adjacent(Head(s), Head(Tail(s))) /\ Head(Tail(s)) \in UserTask
<1>1. /\ Tail(s) \in Seq(UserTask) /\ Len(Tail(s)) = Len(s) - 1 /\ Len(s) \in Nat \ {0}
      /\ Head(s) = s[1]
      /\ \A j \in 1 .. Len(s) - 1 : Tail(s)[j] = s[j + 1]
  OBVIOUS
<1>2. ASSUME NEW j \in 1 .. Len(Tail(s)) - 1 PROVE Adjacent(Tail(s)[j], Tail(s)[j + 1])
  <2>1. /\ j \in 1 .. Len(s) - 1 /\ j + 1 \in 1 .. Len(s) - 1
        /\ Tail(s)[j] = s[j + 1] /\ Tail(s)[j + 1] = s[(j + 1) + 1]
    BY <1>1
  <2> QED  BY <2>1 DEF Follows
<1>3. ASSUME Tail(s) # <<>> PROVE Adjacent(Head(s), Head(Tail(s))) /\ Head(Tail(s)) \in UserTask
  <2>1. 1 \in 1 .. Len(s) - 1 /\ Head(Tail(s)) = Tail(s)[1] /\ Tail(s)[1] = s[1 + 1]
    BY <1>1, <1>3
  <2>2. Adjacent(s[1], s[1 + 1])
    BY <2>1 DEF Follows
  <2>3. s[1 + 1] \in UserTask
    BY <2>1, <1>1
  <2> QED  BY <2>1, <2>2, <2>3, <1>1
<1>4. <<>> \o Tail(s) = Tail(s)
  BY <1>1
<1> QED  BY <1>1, <1>2, <1>3, <1>4 DEF Follows

(* The user's next task is done.                                           *)
LEMMA UserPop ==
  ASSUME IInv, todo[User] # <<>>, \A b \in UserTask : Adjacent(Head(todo[User]), b) => Ready(b),
         todo' = [todo EXCEPT ![User] = <<>> \o Tail(@)], Kept(User)
  PROVE  IInv'
<1>1. todo[User] \in Seq(UserTask) /\ Follows(todo[User])
  BY DEF IInv, UserInv
<1> DEFINE s == Tail(todo[User])
<1>2. /\ s \in Seq(UserTask) /\ Follows(s) /\ <<>> \o s = s
      /\ s # <<>> => Adjacent(Head(todo[User]), Head(s)) /\ Head(s) \in UserTask
  BY <1>1, Behind
<1>3. todo' = [todo EXCEPT ![User] = s]
  BY <1>2
<1> HIDE DEF s
<1> QED  BY <1>2, <1>3, UserStep

(* The user's next task is done, and the loops it has seen are gone.       *)
LEMMA UserAlone ==
  ASSUME IInv, NoLoop, todo[User] # <<>>, Head(todo[User]).t # "work",
         \A b \in UserTask : Adjacent(Head(todo[User]), b) => b.t \notin {"grab", "release", "join"},
         \A b \in UserTask : Adjacent(Head(todo[User]), b) /\ b.t = "launch" =>
           current' \in Loop /\ crashed[current'] = FALSE,
         todo' = [todo EXCEPT ![User] = <<>> \o Tail(@)], Plain',
         crashed' = crashed, made' >= made, working' = working
  PROVE  IInv'
<1>1. User \in Thread /\ User \notin Loop /\ Loop \subseteq Thread /\ DOMAIN todo = Thread
  BY DEF IInv, Plain, User, Loop, Thread
<1>2. todo[User] \in Seq(UserTask) /\ Follows(todo[User])
  BY DEF IInv, UserInv
<1>3. /\ Tail(todo[User]) \in Seq(UserTask) /\ Follows(Tail(todo[User]))
      /\ <<>> \o Tail(todo[User]) = Tail(todo[User])
      /\ Tail(todo[User]) # <<>> =>
           /\ Adjacent(Head(todo[User]), Head(Tail(todo[User])))
           /\ Head(Tail(todo[User])) \in UserTask
  BY <1>2, Behind
<1>4. todo'[User] = Tail(todo[User]) /\ \A th \in Thread \ {User} : todo'[th] = todo[th]
  BY <1>1, <1>3
<1>5. NoLoop'
  BY <1>1, <1>4 DEF NoLoop
<1>6. UserInv'
  <2>1. todo'[User] \in Seq(UserTask) /\ Follows(todo'[User])
    BY <1>3, <1>4
  <2>2. ASSUME NEW b \in UserTask, Adjacent(Head(todo[User]), b) PROVE Ready(b)'
    BY <2>2, <1>5 DEF Ready
  <2>3. todo'[User] # <<>> => Ready(Head(todo[User]))'
    <3>1. SUFFICES ASSUME todo'[User] # <<>> PROVE Ready(Head(todo[User]))'
      OBVIOUS
    <3>2. PICK b \in UserTask : b = Head(todo'[User]) /\ Adjacent(Head(todo[User]), b)
      BY <3>1, <1>3, <1>4
    <3> QED  BY <3>2, <2>2
  <2> QED  BY <2>1, <2>3 DEF UserInv
<1>7. LoopInv'
  <2>1. ASSUME NEW o \in Loop
        PROVE  todo'[o] \in LoopStack(o) /\ todo'[o] = <<>> /\ (o > made' => crashed[o] = FALSE)
    BY <1>1, <1>4 DEF IInv, LoopInv, NoLoop, Plain, Loop
  <2> QED  BY <2>1 DEF LoopInv
<1>8. AtWork'
  BY <1>1, <1>4 DEF IInv, AtWork
<1> QED  BY <1>6, <1>7, <1>8 DEF IInv

(* An instruction of the user's fails.                                     *)
LEMMA UserRaise ==
  ASSUME IInv, todo[User] # <<>>,
         todo' = [todo EXCEPT ![User] = Unwound(Tail(@))], Kept(User)
  PROVE  IInv'
<1>1. todo[User] \in Seq(UserTask) /\ Follows(todo[User])
  BY DEF IInv, UserInv
<1> DEFINE q == Tail(todo[User])
           s == Unwound(q)
<1>2. q \in Seq(UserTask) /\ Follows(q)
  BY <1>1, Behind
<1>4. todo' = [todo EXCEPT ![User] = s]
  OBVIOUS
<1> HIDE DEF q
<1>5. PICK k \in 1 .. Len(q) + 1 :
        /\ Unwound(q) = SubSeq(q, k, Len(q))
        /\ k \in 1..Len(q) => q[k].t \in {"exit", "loop"}
  BY <1>2, UnwoundSuffix
<1>6. /\ s \in Seq(UserTask) /\ Follows(s)
      /\ (s # <<>> => k \in 1..Len(q) /\ Head(s) = q[k])
  <2>1. s = SubSeq(q, k, Len(q))
    BY <1>5
  <2> HIDE DEF s
  <2> QED  BY <2>1, <1>2, SuffixFollows
<1> HIDE DEF s
<1>7. s # <<>> => Ready(Head(s))
  <2>1. s # <<>> => Head(s).t \in {"exit", "loop"}
    BY <1>5, <1>6, Zenon
  <2> QED  BY <2>1 DEF Ready, Alone
<1> QED  BY <1>4, <1>6, <1>7, UserStep

(* A step of the loop may turn a task of the user's into another.          *)
LEMMA LoopUserStep ==
  ASSUME IInv, NEW o \in Loop, todo[o] # <<>>, NEW s, s \in LoopStack(o),
         NEW u, u \in Seq(UserTask), Follows(u), u # <<>> => Ready(Head(u)),
         todo[User] # <<>> => u # <<>> /\ Head(u).t = Head(todo[User]).t,
         todo' = [todo EXCEPT ![User] = u, ![o] = s], Kept(o)
  PROVE  IInv'
<1>1. User \in Thread /\ User \notin Loop /\ o \in Thread /\ Loop \subseteq Thread /\ DOMAIN todo = Thread
  BY DEF IInv, Plain, User, Loop, Thread
<1>2. /\ todo'[o] = s /\ todo'[User] = u /\ DOMAIN todo' = Thread
      /\ \A th \in Thread \ {User, o} : todo'[th] = todo[th]
  BY <1>1
<1>3. Plain'
  BY <1>2 DEF IInv, Plain, Kept
<1>4. ~NoLoop
  BY DEF NoLoop
<1>5. u # <<>> => Head(u).t \notin Alone
  BY <1>4 DEF Ready
<1>6. UserInv'
  BY <1>2, <1>5 DEF UserInv, Ready, Kept
<1>7. LoopInv'
  BY <1>1, <1>2 DEF IInv, LoopInv, Kept
<1>8. AtWork'
  <2>1. ASSUME NEW w \in working' PROVE w \in Thread /\ todo'[w] # <<>> /\ Head(todo'[w]).t = "work"
    BY <1>2 DEF IInv, AtWork, Kept
  <2> QED  BY <2>1 DEF AtWork
<1> QED  BY <1>3, <1>6, <1>7, <1>8 DEF IInv

(* The loop has other tasks to do.                                         *)
LEMMA LoopStep ==
  ASSUME IInv, NEW o \in Loop, todo[o] # <<>>, NEW s, s \in LoopStack(o),
         todo' = [todo EXCEPT ![o] = s], Kept(o)
  PROVE  IInv'
<1>1. o # User /\ DOMAIN todo = Thread /\ User \in Thread
  BY DEF Loop, User, Thread, IInv, Plain
<1>2. todo' = [todo EXCEPT ![User] = todo[User], ![o] = s]
  BY <1>1
<1>3. /\ todo[User] \in Seq(UserTask) /\ Follows(todo[User])
      /\ todo[User] # <<>> => Ready(Head(todo[User]))
  BY DEF IInv, UserInv
<1> QED  BY <1>2, <1>3, LoopUserStep

(* The loop's next task is replaced by others, or ended.                   *)
LEMMA LoopPush ==
  ASSUME IInv, NEW o \in Loop, todo[o] # <<>>,
         NEW cs, cs \in Seq(LoopTask(o)), \A j \in 1..Len(cs) : cs[j].t # "loop",
         todo' = [todo EXCEPT ![o] = cs \o Tail(@)], Kept(o)
  PROVE  IInv'
<1>1. todo[o] \in Seq(LoopTask(o)) /\ \A j \in 1 .. Len(todo[o]) - 1 : todo[o][j].t # "loop"
  BY DEF IInv, LoopInv, LoopStack
<1> DEFINE s == cs \o Tail(todo[o])
<1>2. /\ s \in Seq(LoopTask(o)) /\ Len(s) = Len(cs) + Len(todo[o]) - 1
      /\ \A j \in 1..Len(cs) : s[j] = cs[j]
      /\ \A j \in 2..Len(todo[o]) : s[Len(cs) + j - 1] = todo[o][j]
  BY <1>1, Replaced
<1>3. todo' = [todo EXCEPT ![o] = s]
  OBVIOUS
<1> HIDE DEF s
<1>4. ASSUME NEW j \in 1 .. Len(s) - 1 PROVE s[j].t # "loop"
  <2>0. Len(cs) \in Nat /\ Len(todo[o]) \in Nat \ {0}
    BY <1>1
  <2>1. CASE j <= Len(cs)
    BY <2>0, <2>1, <1>2
  <2>2. CASE j > Len(cs)
    <3> DEFINE k == j + 1 - Len(cs)
    <3>1. k \in 2..Len(todo[o]) /\ k \in 1 .. Len(todo[o]) - 1 /\ Len(cs) + k - 1 = j
      BY <2>0, <2>2, <1>2
    <3> HIDE DEF k
    <3> QED  BY <3>1, <1>1, <1>2
  <2> QED  BY <2>0, <2>1, <2>2, <1>2
<1> QED  BY <1>2, <1>3, <1>4, LoopStep DEF LoopStack

(* The loop's program fails.                                               *)
LEMMA LoopRaise ==
  ASSUME IInv, NEW o \in Loop, todo[o] # <<>>,
         todo' = [todo EXCEPT ![o] = Unwound(Tail(@))], Kept(o)
  PROVE  IInv'
<1>1. todo[o] \in Seq(LoopTask(o)) /\ \A j \in 1 .. Len(todo[o]) - 1 : todo[o][j].t # "loop"
  BY DEF IInv, LoopInv, LoopStack
<1> DEFINE q == Tail(todo[o])
           s == Unwound(q)
<1>2. /\ q \in Seq(LoopTask(o)) /\ Len(q) = Len(todo[o]) - 1 /\ Len(todo[o]) \in Nat \ {0}
      /\ \A j \in 1..Len(q) : q[j] = todo[o][j + 1]
  BY <1>1
<1>3. todo' = [todo EXCEPT ![o] = s]
  OBVIOUS
<1> HIDE DEF q
<1>4. PICK k \in 1 .. Len(q) + 1 : Unwound(q) = SubSeq(q, k, Len(q))
  BY <1>2, UnwoundSuffix
<1>5. s \in Seq(LoopTask(o)) /\ Len(s) = Len(q) - k + 1 /\ \A j \in 1..Len(s) : s[j] = q[k + j - 1]
  <2>1. k \in Int /\ Len(q) \in Nat /\ k >= 1 /\ k <= Len(q) + 1
    BY <1>2
  <2> QED  BY <2>1, <1>2, <1>4, SubSeqProperties
<1> HIDE DEF s
<1>6. ASSUME NEW j \in 1 .. Len(s) - 1 PROVE s[j].t # "loop"
  <2>1. j \in 1..Len(s) /\ k + j - 1 \in 1..Len(q) /\ (k + j - 1) + 1 \in 1 .. Len(todo[o]) - 1
    BY <1>2, <1>5
  <2> QED  BY <2>1, <1>1, <1>2, <1>5
<1> QED  BY <1>3, <1>5, <1>6, LoopStep DEF LoopStack

-----------------------------------------------------------------------------
(* One task in the place of another, and what is known of the next task.   *)
LEMMA UserPut ==
  ASSUME IInv, todo[User] # <<>>, NEW a, a \in UserTask, Ready(a),
         \A b \in UserTask : Adjacent(Head(todo[User]), b) => Adjacent(a, b),
         todo' = [todo EXCEPT ![User] = <<a>> \o Tail(@)], Kept(User)
  PROVE  IInv'
<1> DEFINE cs == <<a>>
<1>1. cs \in Seq(UserTask) /\ cs # <<>> /\ Follows(cs) /\ cs[1] = a /\ cs[Len(cs)] = a
  BY DEF Follows
<1>2. todo' = [todo EXCEPT ![User] = cs \o Tail(@)]
  OBVIOUS
<1> HIDE DEF cs
<1> QED  BY <1>1, <1>2, UserPush

(* One task of the loop's in the place of another.                         *)
LEMMA LoopPut ==
  ASSUME IInv, NEW o \in Loop, todo[o] # <<>>, NEW a, a \in LoopTask(o), a.t # "loop",
         todo' = [todo EXCEPT ![o] = <<a>> \o Tail(@)], Kept(o)
  PROVE  IInv'
<1> DEFINE cs == <<a>>
<1>1. cs \in Seq(LoopTask(o)) /\ \A j \in 1..Len(cs) : cs[j].t # "loop"
  OBVIOUS
<1>2. todo' = [todo EXCEPT ![o] = cs \o Tail(@)]
  OBVIOUS
<1> HIDE DEF cs
<1> QED  BY <1>1, <1>2, LoopPush

(* The loop's next task is done.                                           *)
LEMMA LoopPop ==
  ASSUME IInv, NEW o \in Loop, todo[o] # <<>>,
         todo' = [todo EXCEPT ![o] = <<>> \o Tail(@)], Kept(o)
  PROVE  IInv'
<1>1. <<>> \in Seq(LoopTask(o)) /\ \A j \in 1..Len(<<>>) : <<>>[j].t # "loop"
  OBVIOUS
<1> QED  BY <1>1, LoopPush

(* A thread is the user's or a loop's.                                     *)
LEMMA Roles ==
  User \in Thread /\ Loop \subseteq Thread /\ \A th \in Thread : th = User \/ th \in Loop
BY DEF Thread

(* What the loops' numbers are.                                            *)
LEMMA Numbers ==
  ASSUME IInv
  PROVE  /\ made \in Nat /\ current \in Nat /\ (current # 0 => current \in Loop)
         /\ made < MaxLoops => made + 1 \in Loop
         /\ \A o \in Loop : o \in Nat \ {0}
<1>1. MaxLoops \in Nat /\ made \in 0..MaxLoops /\ current \in 0..made
  BY LoopsAssumption DEF IInv, Plain
<1> QED  BY <1>1 DEF Loop

(* The tasks that the code makes.                                          *)
LEMMA Tasks ==
  /\ \A t \in Types : Task(t) \in TaskSet /\ Task(t).t = t
  /\ \A t \in Types, i \in Nat : On(t, i) \in TaskSet /\ On(t, i).t = t /\ On(t, i).i = i
  /\ \A k \in Kinds, p \in Names :
       Execute(k, p) \in TaskSet /\ Execute(k, p).t = "execute" /\ Execute(k, p).kind = k
  /\ \A p \in Names : Exit(p) \in TaskSet /\ Exit(p).t = "exit" /\ Exit(p).prog = p
<1> SUFFICES ASSUME NEW t \in Types, NEW p \in Names, NEW k \in Kinds, NEW i \in Nat
             PROVE  /\ Task(t) \in TaskSet /\ Task(t).t = t
                    /\ On(t, i) \in TaskSet /\ On(t, i).t = t /\ On(t, i).i = i
                    /\ Execute(k, p) \in TaskSet /\ Execute(k, p).t = "execute"
                    /\ Execute(k, p).kind = k
                    /\ Exit(p) \in TaskSet /\ Exit(p).t = "exit" /\ Exit(p).prog = p
  BY DEF Types, Names, Kinds
<1>1. Task(t) = [t |-> t, kind |-> "none", prog |-> "none", i |-> 0]
  BY DEF Task
<1>2. On(t, i) = [t |-> t, kind |-> "none", prog |-> "none", i |-> i]
  BY DEF On, Task
<1>3. Execute(k, p) = [t |-> "execute", kind |-> k, prog |-> p, i |-> 0]
  BY DEF Execute
<1>4. Exit(p) = [t |-> "exit", kind |-> "none", prog |-> p, i |-> 0]
  BY DEF Exit, Task
<1>5. "none" \in Kinds /\ "none" \in Names /\ "execute" \in Types /\ "exit" \in Types
  BY DEF Kinds, Names, Types
<1> QED  BY <1>1, <1>2, <1>3, <1>4, <1>5 DEF TaskSet

(* What is known of the user's next task.                                  *)
LEMMA UserTop ==
  ASSUME IInv, todo[User] # <<>>
  PROVE  Head(todo[User]) \in UserTask /\ Ready(Head(todo[User]))
BY DEF IInv, UserInv

(* What is known of a loop that has a next task: it is the one.            *)
LEMMA LoopTop ==
  ASSUME IInv, NEW o \in Loop, todo[o] # <<>>
  PROVE  Head(todo[o]) \in LoopTask(o) /\ o = current /\ crashed[o] = FALSE
<1>1. todo[o] \in Seq(LoopTask(o))
  BY DEF IInv, LoopInv, LoopStack
<1>2. Head(todo[o]) \in LoopTask(o)
  BY <1>1
<1> QED  BY <1>2 DEF IInv, LoopInv

-----------------------------------------------------------------------------
(* The steps of a stop.                                                    *)
LEMMA ReadCurrentKeeps ==
  ASSUME IInv, NEW th \in Thread, ReadCurrent(th)
  PROVE  IInv'
<1>1. todo[th] # <<>> /\ Head(todo[th]).t = "read"
  BY DEF ReadCurrent, Running, Top
<1>2. Kept(th)
  <2>1. ret \in [Thread -> Names] /\ stack \in Seq(Thread \X Nat)
    BY DEF IInv, Plain
  <2>2. ret' = [ret EXCEPT ![th] = "none"] /\ stack' = stack
    BY DEF ReadCurrent
  <2>3. ret' \in [Thread -> Names] /\ stack' \in Seq(Thread \X Nat)
    BY <2>1, <2>2 DEF Names
  <2> QED  BY <1>1, <2>3, NotAtWork DEF ReadCurrent, loopVars
<1>3. CASE current = 0
  <2>1. todo' = [todo EXCEPT ![th] = <<>> \o Tail(@)] /\ NoLoop
    <3>1. todo' = [todo EXCEPT ![th] = <<>> \o Tail(@)]
      BY <1>3 DEF ReadCurrent, Then
    <3>2. NoLoop
      BY <1>3 DEF IInv, LoopInv, NoLoop, Loop
    <3> QED  BY <3>1, <3>2
  <2>2. CASE th = User
    <3>1. \A b \in UserTask : Adjacent(Head(todo[User]), b) => Ready(b)
      BY <1>1, <2>1, <2>2 DEF Adjacent, Ready
    <3> QED  BY <1>1, <1>2, <2>1, <2>2, <3>1, UserPop
  <2>3. CASE th \in Loop
    BY <1>1, <1>2, <2>1, <2>3, LoopPop
  <2> QED  BY <2>2, <2>3, Roles
<1>4. CASE current # 0
  <2> DEFINE a == On("grab", current)
  <2>1. todo' = [todo EXCEPT ![th] = <<a>> \o Tail(@)]
    BY <1>4 DEF ReadCurrent, Then
  <2>2. current \in Loop
    BY <1>4, Numbers
  <2>3. a \in TaskSet /\ a.t = "grab" /\ a.i = current
    BY Numbers, Tasks DEF Types, Names, Kinds
  <2> HIDE DEF a
  <2>4. CASE th = User
    <3>1. a \in UserTask /\ Ready(a)
      BY <2>2, <2>3 DEF UserTask, Ready, Alone
    <3>2. \A b \in UserTask : Adjacent(Head(todo[User]), b) => Adjacent(a, b)
      BY <1>1, <2>3, <2>4 DEF Adjacent, Stopping
    <3> QED  BY <1>1, <1>2, <2>1, <2>4, <3>1, <3>2, UserPut
  <2>5. CASE th \in Loop
    <3>1. th = current
      BY <1>1, <2>5, LoopTop
    <3>2. a \in LoopTask(th) /\ a.t # "loop"
      BY <2>3, <3>1 DEF LoopTask, LoopTypes
    <3> QED  BY <1>1, <1>2, <2>1, <2>5, <3>2, LoopPut
  <2> QED  BY <2>4, <2>5, Roles
<1> QED  BY <1>3, <1>4

(* A stop takes the loop's thread.                                         *)
LEMMA GrabHandleKeeps ==
  ASSUME IInv, NEW th \in Thread, GrabHandle(th)
  PROVE  IInv'
<1>1. todo[th] # <<>> /\ Head(todo[th]).t = "grab"
  BY DEF GrabHandle, Running, Top
<1>2. Kept(th)
  BY <1>1, NotAtWork DEF GrabHandle, loopVars, IInv, Plain
<1> DEFINE x == Head(todo[th])
           a == On("release", x.i)
           b == On(IF handle[x.i] THEN "join" ELSE "joinNone", x.i)
           cs == <<a, b>>
<1>3. todo' = [todo EXCEPT ![th] = cs \o Tail(@)]
  BY DEF GrabHandle, Then, Top
<1>4. x \in TaskSet /\ x.i \in Nat
  BY <1>1, UserTop, LoopTop, Roles DEF UserTask, LoopTask, TaskSet
<1>5. /\ a \in TaskSet /\ a.t = "release" /\ a.i = x.i
      /\ b \in TaskSet /\ b.t \in {"join", "joinNone"} /\ b.i = x.i
  <2> HIDE DEF x
  <2> QED  BY <1>4, Tasks DEF Types, Names, Kinds
<1> HIDE DEF a, b
<1>6. /\ cs # <<>> /\ cs[1] = a /\ cs[2] = b /\ Len(cs) = 2 /\ cs[Len(cs)] = b
      /\ \A S : a \in S /\ b \in S => cs \in Seq(S)
      /\ \A j \in 1..Len(cs) : j = 1 \/ j = 2
  OBVIOUS
<1>7. CASE th = User
  <2>1. a \in UserTask /\ b \in UserTask
    BY <1>5 DEF UserTask
  <2>2. Ready(a)
    BY <1>1, <1>5, <1>7, UserTop DEF Ready, Alone
  <2>3. Adjacent(a, b)
    BY <1>5 DEF Adjacent, Stopping
  <2> HIDE DEF x, cs
  <2>4. Follows(cs)
    <3>1. \A j \in 1 .. Len(cs) - 1 : j = 1 /\ j + 1 = 2
      BY <1>6
    <3> QED  BY <1>6, <2>3, <3>1 DEF Follows
  <2>5. \A c \in UserTask : Adjacent(Head(todo[User]), c) => Adjacent(b, c)
    BY <1>1, <1>5, <1>7 DEF Adjacent, Stopping
  <2>6. cs \in Seq(UserTask)
    BY <1>6, <2>1
  <2> QED  BY <1>1, <1>2, <1>3, <1>6, <1>7, <2>2, <2>4, <2>5, <2>6, UserPush
<1>8. CASE th \in Loop
  <2>1. x.i = th
    BY <1>1, <1>8, LoopTop DEF LoopTask
  <2> HIDE DEF x, cs
  <2>2. a \in LoopTask(th) /\ b \in LoopTask(th) /\ a.t # "loop" /\ b.t # "loop"
    BY <1>5, <2>1 DEF LoopTask, LoopTypes
  <2>3. cs \in Seq(LoopTask(th)) /\ \A j \in 1..Len(cs) : cs[j].t # "loop"
    BY <1>6, <2>2
  <2> QED  BY <1>1, <1>2, <1>3, <1>8, <2>3, LoopPush
<1> QED  BY <1>7, <1>8, Roles

(* A stop tells the loop to end.                                           *)
LEMMA ReleaseHandleKeeps ==
  ASSUME IInv, NEW th \in Thread, ReleaseHandle(th)
  PROVE  IInv'
<1>1. todo[th] # <<>> /\ Head(todo[th]).t = "release"
  BY DEF ReleaseHandle, Running, Top
<1>2. Kept(th)
  BY <1>1, NotAtWork DEF ReleaseHandle, IInv, Plain
<1>3. todo' = [todo EXCEPT ![th] = <<>> \o Tail(@)]
  BY DEF ReleaseHandle, Return, Then
<1>4. CASE th = User
  <2>1. Head(todo[User]).i = current /\ current \in Loop
    BY <1>1, <1>4, UserTop DEF Ready
  <2>2. \A b \in UserTask : Adjacent(Head(todo[User]), b) => Ready(b)
    BY <1>1, <1>4, <2>1 DEF Adjacent, Ready, Alone
  <2> QED  BY <1>1, <1>2, <1>3, <1>4, <2>2, UserPop
<1>5. CASE th \in Loop
  BY <1>1, <1>2, <1>3, <1>5, LoopPop
<1> QED  BY <1>4, <1>5, Roles

(* A stop has waited for the loop, which has gone.                         *)
LEMMA JoinKeeps ==
  ASSUME IInv, NEW th \in Thread, Join(th)
  PROVE  IInv'
<1>1. todo[th] # <<>> /\ Head(todo[th]).t = "join" /\ Head(todo[th]).i # th
  BY DEF Join, Running, Top
<1>2. th = User
  BY <1>1, LoopTop, Roles DEF LoopTask
<1>3. Head(todo[User]).i = current /\ current \in Loop
  BY <1>1, <1>2, UserTop DEF Ready
<1>4. Kept(th)
  <2>0. ret \in [Thread -> Names] /\ program \in [Loop -> Names] /\ Head(todo[User]).i \in Loop
    BY <1>3 DEF IInv, Plain
  <2>1. ret' \in [Thread -> Names]
    BY <2>0, <1>2 DEF Join, Top, Names
  <2> QED  BY <1>1, <2>1, NotAtWork DEF Join, loopVars, IInv, Plain
<1>5. NoLoop
  BY <1>2, <1>3 DEF Join, Joined, Top, NoLoop, IInv, LoopInv
<1> DEFINE a == Task("forget")
<1>6. todo' = [todo EXCEPT ![User] = <<a>> \o Tail(@)]
  BY <1>2 DEF Join, Then
<1>7. a \in TaskSet /\ a.t = "forget"
  BY Tasks DEF Types, Names, Kinds
<1> HIDE DEF a
<1>8. a \in UserTask /\ Ready(a)
  BY <1>5, <1>7 DEF UserTask, Ready
<1>9. \A b \in UserTask : Adjacent(Head(todo[User]), b) => Adjacent(a, b)
  BY <1>1, <1>2, <1>7 DEF Adjacent, Stopping
<1> QED  BY <1>1, <1>2, <1>4, <1>6, <1>8, <1>9, UserPut

(* A step that raises.                                                     *)
LEMMA RaiseKeeps ==
  ASSUME IInv, NEW th \in Thread, NEW e, todo[th] # <<>>, Raise(th, e), Kept(th)
  PROVE  IInv'
<1>1. todo' = [todo EXCEPT ![th] = Unwound(Tail(@))]
  BY DEF Raise
<1> QED  BY <1>1, UserRaise, LoopRaise, Roles

(* A stop fails to wait.                                                   *)
LEMMA JoinFailsKeeps ==
  ASSUME IInv, NEW th \in Thread, JoinFails(th)
  PROVE  IInv'
<1>1. todo[th] # <<>> /\ Head(todo[th]).t \in {"join", "joinNone"} /\ \E e : Raise(th, e)
  BY DEF JoinFails, Running, Top
<1>2. Kept(th)
  BY <1>1, NotAtWork DEF JoinFails, loopVars, IInv, Plain
<1> QED  BY <1>1, <1>2, RaiseKeeps

(* A stop forgets the loop.                                                *)
LEMMA ForgetLoopKeeps ==
  ASSUME IInv, NEW th \in Thread, ForgetLoop(th)
  PROVE  IInv'
<1>1. todo[th] # <<>> /\ Head(todo[th]).t = "forget"
  BY DEF ForgetLoop, Running, Top
<1>2. th = User
  BY <1>1, LoopTop, Roles DEF LoopTask, LoopTypes
<1>3. NoLoop
  BY <1>1, <1>2, UserTop DEF Ready, Alone
<1>4. todo' = [todo EXCEPT ![User] = <<>> \o Tail(@)]
  BY <1>2 DEF ForgetLoop, Return, Then
<1>5. Plain' /\ crashed' = crashed /\ made' >= made /\ working' = working
  <2>1. current' = 0 /\ made' = made /\ crashed' = crashed /\ program' = program /\ ret' = ret
        /\ stack' = stack /\ working' = working
    BY DEF ForgetLoop, loopVars
  <2> QED  BY <1>4, <2>1 DEF IInv, Plain
<1>6. \A b \in UserTask : Adjacent(Head(todo[User]), b) =>
        b.t \notin {"launch", "grab", "release", "join"}
  BY <1>1, <1>2 DEF Adjacent
<1> QED  BY <1>1, <1>2, <1>3, <1>4, <1>5, <1>6, UserAlone

-----------------------------------------------------------------------------
(* The steps of a start.                                                   *)
LEMMA MakeKeeps ==
  ASSUME IInv, NEW th \in Thread, Make(th)
  PROVE  IInv'
<1>1. todo[th] # <<>> /\ Head(todo[th]).t = "make"
  BY DEF Make, Running, Top
<1>2. th = User
  BY <1>1, LoopTop, Roles DEF LoopTask, LoopTypes
<1>3. NoLoop /\ Head(todo[User]).prog \in Names
  BY <1>1, <1>2, UserTop DEF Ready, Alone, UserTask, TaskSet
<1>4. todo' = [todo EXCEPT ![User] = <<>> \o Tail(@)]
  BY <1>2 DEF Make, Return, Then
<1>5. made + 1 \in Loop /\ current' = made + 1 /\ made' = made + 1
  BY Numbers DEF Make
<1>6. Plain' /\ crashed' = crashed /\ made' >= made /\ working' = working
  <2>1. program' \in [Loop -> Names]
    BY <1>2, <1>3, <1>5 DEF Make, Top, IInv, Plain
  <2>2. ret' = ret /\ stack' = stack /\ crashed' = crashed /\ working' = working
    BY DEF Make
  <2> QED  BY <1>4, <1>5, <2>1, <2>2 DEF IInv, Plain, Loop
<1>7. \A b \in UserTask : Adjacent(Head(todo[User]), b) =>
        b.t \notin {"grab", "release", "join"}
  BY <1>1, <1>2 DEF Adjacent, Stopping
<1>8. current' \in Loop /\ crashed[current'] = FALSE
  <2>1. made + 1 > made
    BY DEF IInv, Plain
  <2> QED  BY <1>5, <2>1 DEF IInv, LoopInv
<1> QED  BY <1>1, <1>2, <1>3, <1>4, <1>6, <1>7, <1>8, UserAlone

(* A start lets the new loop run, when no other does.                      *)
LEMMA LaunchKeeps ==
  ASSUME IInv, NEW th \in Thread, Launch(th)
  PROVE  IInv'
<1>1. todo[th] # <<>> /\ Head(todo[th]).t = "launch"
  BY DEF Launch, Running, Top
<1>2. th = User
  BY <1>1, LoopTop, Roles DEF LoopTask, LoopTypes
<1>3. NoLoop /\ current \in Loop /\ crashed[current] = FALSE
  BY <1>1, <1>2, UserTop DEF Ready, Alone
<1>4. todo[User] \in Seq(UserTask) /\ Follows(todo[User]) /\ todo[User] # <<>>
  BY <1>1, <1>2 DEF IInv, UserInv
<1> DEFINE s == Tail(todo[User])
<1>5. /\ s \in Seq(UserTask) /\ Follows(s)
      /\ s # <<>> => Adjacent(Head(todo[User]), Head(s)) /\ Head(s) \in UserTask
  BY <1>4, Behind
<1>6. todo' = [todo EXCEPT ![User] = s, ![current] = <<Task("loop")>>]
  BY <1>2 DEF Launch
<1> HIDE DEF s
<1>7. User # current /\ User \notin Loop /\ DOMAIN todo = Thread /\ Loop \subseteq Thread
  BY <1>3 DEF IInv, Plain, User, Loop, Thread
<1>8. /\ todo'[User] = s /\ todo'[current] = <<Task("loop")>> /\ DOMAIN todo' = Thread
      /\ \A o \in Loop \ {current} : todo'[o] = todo[o]
  BY <1>3, <1>6, <1>7, Roles
<1>9. /\ current' = current /\ made' = made /\ crashed' = crashed /\ program' = program
      /\ ret' = ret /\ stack' = stack /\ working' = working
  BY DEF Launch, loopVars
<1>10. Plain'
  BY <1>8, <1>9 DEF IInv, Plain
<1>11. UserInv'
  <2>1. s # <<>> => Head(s).t \notin Alone \cup {"grab", "release", "join"}
    BY <1>1, <1>2, <1>5 DEF Adjacent, Alone, Stopping
  <2>2. todo'[User] # <<>> => Head(todo'[User]).t \notin Alone \cup {"grab", "release", "join"}
    BY <2>1, <1>8
  <2>3. todo'[User] \in Seq(UserTask) /\ Follows(todo'[User])
    BY <1>5, <1>8
  <2> QED  BY <2>2, <2>3 DEF UserInv, Ready, Alone
<1>12. LoopInv'
  <2>1. <<Task("loop")>> \in LoopStack(current)
    <3>1. Task("loop") \in TaskSet /\ Task("loop").t = "loop"
      BY Tasks DEF Types, Kinds, Names
    <3>2. Task("loop") \in LoopTask(current)
      BY <3>1 DEF LoopTask, LoopTypes
    <3> QED  BY <3>2 DEF LoopStack
  <2> QED  BY <2>1, <1>3, <1>8, <1>9 DEF IInv, LoopInv, NoLoop
<1>13. AtWork'
  <2>1. ASSUME NEW w \in working' PROVE FALSE
    <3>1. w \in Thread /\ todo[w] # <<>> /\ Head(todo[w]).t = "work"
      BY <1>9 DEF IInv, AtWork
    <3> QED  BY <3>1, <1>1, <1>2, <1>3, Roles DEF NoLoop
  <2> QED  BY <2>1 DEF AtWork
<1> QED  BY <1>10, <1>11, <1>12, <1>13 DEF IInv

-----------------------------------------------------------------------------
(* An instruction begins: the user's pauses what it finds, the loop's does *)
(* not pause itself.                                                       *)
LEMMA BeginKeeps ==
  ASSUME IInv, NEW th \in Thread, Begin(th)
  PROVE  IInv'
<1>1. todo[th] # <<>> /\ Head(todo[th]).t = "execute"
  BY DEF Begin, Running, Top
<1>2. Kept(th)
  BY <1>1, NotAtWork DEF Begin, loopVars, IInv, Plain
<1>6. Task("read") \in TaskSet /\ Task("read").t = "read"
  BY Tasks DEF Types, Kinds, Names
<1> DEFINE x == Head(todo[th])
           a == [x EXCEPT !.t = IF Pauses(th, x.kind) THEN "pause" ELSE "enter"]
           cs == <<Task("read")>> \o <<a>>
<1>3. todo' = [todo EXCEPT ![th] = ((IF Pauses(th, x.kind) THEN Stop ELSE <<>>) \o <<a>>) \o Tail(@)]
  BY DEF Begin, Then, Top
<1>4. x \in TaskSet
  BY <1>1, UserTop, LoopTop, Roles DEF UserTask, LoopTask
<1>5. /\ a \in TaskSet /\ a.kind = x.kind
      /\ a.t = IF Pauses(th, x.kind) THEN "pause" ELSE "enter"
  <2> HIDE DEF x
  <2> QED  BY <1>4 DEF TaskSet, Types
<1> HIDE DEF a
<1>7. CASE th = User
  <2>1. ~Pauses(User, x.kind) => x.kind \in Unpaused
    BY DEF Pauses, onContinuousInferenceThread, Unpaused, User
  <2>2. a \in UserTask
    BY <1>5, <1>7, <2>1 DEF UserTask
  <2>3. \A b \in UserTask : Adjacent(Head(todo[User]), b) => Adjacent(a, b)
    BY <1>1, <1>5, <1>7 DEF Adjacent, Stopping
  <2>4. CASE Pauses(th, x.kind)
    <3>1. cs # <<>> /\ cs[1] = Task("read") /\ cs[2] = a /\ Len(cs) = 2 /\ cs[Len(cs)] = a
      OBVIOUS
    <3>2. todo' = [todo EXCEPT ![User] = cs \o Tail(@)]
      BY <1>3, <1>7, <2>4 DEF Stop
    <3>3. Task("read") \in UserTask /\ Ready(Task("read"))
      BY <1>6 DEF UserTask, Ready, Alone
    <3>4. cs \in Seq(UserTask)
      BY <2>2, <3>3
    <3>5. Adjacent(Task("read"), a)
      BY <1>5, <1>6, <2>4 DEF Adjacent, Stopping
    <3> HIDE DEF cs, x
    <3>6. Follows(cs)
      <4>1. \A j \in 1 .. Len(cs) - 1 : j = 1 /\ j + 1 = 2
        BY <3>1
      <4> QED  BY <3>1, <3>5, <4>1 DEF Follows
    <3> QED  BY <1>1, <1>2, <1>7, <2>3, <3>1, <3>2, <3>3, <3>4, <3>6, UserPush
  <2>5. CASE ~Pauses(th, x.kind)
    <3>1. <<>> \o <<a>> = <<a>>
      OBVIOUS
    <3>2. todo' = [todo EXCEPT ![User] = <<a>> \o Tail(@)]
      BY <1>3, <1>7, <2>5, <3>1
    <3>3. Ready(a)
      BY <1>5, <2>5 DEF Ready, Alone
    <3> QED  BY <1>1, <1>2, <1>7, <2>2, <2>3, <3>2, <3>3, UserPut
  <2> QED  BY <2>4, <2>5
<1>8. CASE th \in Loop
  <2>1. x \in LoopTask(th) /\ th = current /\ crashed[th] = FALSE
    BY <1>1, <1>8, LoopTop
  <2>2. x.kind \in Commands
    BY <1>1, <2>1 DEF LoopTask
  <2>3. ~Pauses(th, x.kind)
    BY <1>8, <2>1, <2>2, Numbers DEF Pauses, onContinuousInferenceThread, Commands
  <2>4. <<>> \o <<a>> = <<a>>
    OBVIOUS
  <2>5. todo' = [todo EXCEPT ![th] = <<a>> \o Tail(@)]
    BY <1>3, <2>3, <2>4
  <2>6. a \in LoopTask(th) /\ a.t # "loop"
    BY <1>5, <2>2, <2>3 DEF LoopTask, LoopTypes
  <2> QED  BY <1>1, <1>2, <1>8, <2>5, <2>6, LoopPut
<1> QED  BY <1>7, <1>8, Roles

(* Tasks that may be next and that end in the exit e.                      *)
GoodBody(cs, e) ==
  cs \in Seq(UserTask) /\ cs # <<>> /\ Follows(cs) /\ Ready(cs[1]) /\ cs[Len(cs)] = e

(* What an instruction of the user's does in its pauser.                   *)
LEMMA UserBody ==
  ASSUME IInv, todo[User] # <<>>, Head(todo[User]).t \in {"pause", "enter"}, NEW p \in Names
  PROVE  GoodBody(Body(Head(todo[User]).kind, Head(todo[User]).prog) \o <<Exit(p)>>, Exit(p))
<1> DEFINE x == Head(todo[User])
           e == Exit(p)
<1>1. x \in UserTask /\ Ready(x)
  BY UserTop
<1>2. x \in TaskSet /\ x.kind \in Kinds /\ x.prog \in Names
  BY <1>1 DEF UserTask, TaskSet
<1>3. e \in UserTask /\ e.t = "exit"
  BY Tasks DEF UserTask, Types, Kinds
<1>4. x.kind \notin Unpaused => NoLoop
  BY <1>1 DEF UserTask, Ready, Alone
<1> HIDE DEF e
<1>5. \A a : a \in UserTask /\ Ready(a) /\ a.t # "release" =>
        GoodBody(<<a>> \o <<e>>, e)
  <2>1. SUFFICES ASSUME NEW a \in UserTask, Ready(a), a.t # "release"
                 PROVE  GoodBody(<<a>> \o <<e>>, e)
    OBVIOUS
  <2> DEFINE cs == <<a>> \o <<e>>
  <2>2. /\ cs \in Seq(UserTask) /\ cs # <<>> /\ cs[1] = a /\ cs[2] = e /\ Len(cs) = 2
        /\ cs[Len(cs)] = e
    BY <1>3
  <2>3. Adjacent(a, e)
    BY <1>3, <2>1 DEF Adjacent
  <2> HIDE DEF cs
  <2>4. Follows(cs)
    <3>1. \A j \in 1 .. Len(cs) - 1 : j = 1 /\ j + 1 = 2
      BY <2>2
    <3> QED  BY <2>2, <2>3, <3>1 DEF Follows
  <2>5. GoodBody(cs, e)
    BY <2>1, <2>2, <2>4 DEF GoodBody
  <2> QED  BY <2>5 DEF cs
<1>6. \A k \in Kinds, q \in Names :
        Execute(k, q) \in UserTask /\ Ready(Execute(k, q)) /\ Execute(k, q).t # "release"
  BY Tasks DEF UserTask, Ready, Alone
<1>7. /\ Task("raise") \in UserTask /\ Ready(Task("raise")) /\ Task("raise").t # "release"
      /\ Task("work") \in UserTask /\ Task("work").t # "release" /\ (NoLoop => Ready(Task("work")))
  <2>1. Task("raise") \in TaskSet /\ Task("raise").t = "raise" /\ Task("work") \in TaskSet
        /\ Task("work").t = "work"
    BY Tasks DEF Types, Kinds, Names
  <2> QED  BY <2>1 DEF UserTask, Ready, Alone
<1> DEFINE body == Body(x.kind, x.prog)
<1>8. ASSUME x.kind = "infer" PROVE GoodBody(body \o <<e>>, e)
  <2>1. body = Inferring(x.prog)
    BY <1>8 DEF Body
  <2>2. NoLoop
    BY <1>4, <1>8 DEF Unpaused
  <2>3. Inferring(x.prog) \in {<<Task("work")>>, <<Execute("assume", "none")>>,
                               <<Execute("stop", "none")>>, <<Task("raise")>>}
    BY DEF Inferring
  <2>4. {"assume", "stop"} \subseteq Kinds /\ "none" \in Names
    BY DEF Kinds, Names
  <2> HIDE DEF x, body
  <2> QED  BY <1>5, <1>6, <1>7, <2>1, <2>2, <2>3, <2>4
<1>9. ASSUME x.kind \in {"loop", "start"} PROVE GoodBody(body \o <<e>>, e)
  <2> DEFINE m == [Task("make") EXCEPT !.prog = x.prog]
             w == [Task("want") EXCEPT !.prog = x.prog]
             r == Task("read")
             l == Task("launch")
             cs == ((<<r>> \o <<m, l>>) \o <<w>>) \o <<e>>
  <2>1. body = (<<r>> \o <<m, l>>) \o <<w>>
    BY <1>9 DEF Body, Start, Stop
  <2>2. /\ r \in TaskSet /\ r.t = "read" /\ l \in TaskSet /\ l.t = "launch"
        /\ Task("make") \in TaskSet /\ Task("make").t = "make"
        /\ Task("want") \in TaskSet /\ Task("want").t = "want"
    BY Tasks DEF Types, Kinds, Names
  <2>3. m \in TaskSet /\ m.t = "make" /\ w \in TaskSet /\ w.t = "want"
    <3> HIDE DEF x
    <3> QED  BY <1>2, <2>2 DEF TaskSet
  <2>4. r \in UserTask /\ m \in UserTask /\ l \in UserTask /\ w \in UserTask /\ Ready(r)
    BY <2>2, <2>3 DEF UserTask, Ready, Alone
  <2>5. Adjacent(r, m) /\ Adjacent(m, l) /\ Adjacent(l, w) /\ Adjacent(w, e)
    BY <1>3, <2>2, <2>3 DEF Adjacent, Stopping
  <2> HIDE DEF x, body, r, m, l, w
  <2>6. /\ cs # <<>> /\ Len(cs) = 5 /\ cs[Len(cs)] = e
        /\ cs[1] = r /\ cs[2] = m /\ cs[3] = l /\ cs[4] = w /\ cs[5] = e
    OBVIOUS
  <2>7. cs \in Seq(UserTask)
    BY <1>3, <2>4
  <2> HIDE DEF cs
  <2>8. Follows(cs)
    <3>1. \A j \in 1 .. Len(cs) - 1 : j = 1 \/ j = 2 \/ j = 3 \/ j = 4
      BY <2>6
    <3>2. 1 + 1 = 2 /\ 2 + 1 = 3 /\ 3 + 1 = 4 /\ 4 + 1 = 5
      OBVIOUS
    <3> QED  BY <2>5, <2>6, <3>1, <3>2 DEF Follows
  <2>9. GoodBody(cs, e)
    BY <2>4, <2>6, <2>7, <2>8 DEF GoodBody
  <2> QED  BY <2>1, <2>9 DEF cs
<1>10. ASSUME x.kind = "stop" PROVE GoodBody(body \o <<e>>, e)
  <2> DEFINE c == Task("count")
             r == Task("read")
             w == Task("want")
             cs == ((<<c>> \o <<r>>) \o <<w>>) \o <<e>>
  <2>1. body = (<<c>> \o <<r>>) \o <<w>>
    BY <1>10 DEF Body, Stop
  <2>2. /\ c \in TaskSet /\ c.t = "count" /\ r \in TaskSet /\ r.t = "read"
        /\ w \in TaskSet /\ w.t = "want"
    BY Tasks DEF Types, Kinds, Names
  <2>3. c \in UserTask /\ r \in UserTask /\ w \in UserTask /\ Ready(c)
    BY <2>2 DEF UserTask, Ready, Alone
  <2>4. Adjacent(c, r) /\ Adjacent(r, w) /\ Adjacent(w, e)
    BY <1>3, <2>2 DEF Adjacent, Stopping
  <2> HIDE DEF x, body, c, r, w
  <2>5. /\ cs # <<>> /\ Len(cs) = 4 /\ cs[Len(cs)] = e
        /\ cs[1] = c /\ cs[2] = r /\ cs[3] = w /\ cs[4] = e
    OBVIOUS
  <2>6. cs \in Seq(UserTask)
    BY <1>3, <2>3
  <2> HIDE DEF cs
  <2>7. Follows(cs)
    <3>1. \A j \in 1 .. Len(cs) - 1 : j = 1 \/ j = 2 \/ j = 3
      BY <2>5
    <3>2. 1 + 1 = 2 /\ 2 + 1 = 3 /\ 3 + 1 = 4
      OBVIOUS
    <3> QED  BY <2>4, <2>5, <3>1, <3>2 DEF Follows
  <2>8. GoodBody(cs, e)
    BY <2>3, <2>5, <2>6, <2>7 DEF GoodBody
  <2> QED  BY <2>1, <2>8 DEF cs
<1>11. ASSUME x.kind = "status" PROVE GoodBody(body \o <<e>>, e)
  <2> DEFINE cs == <<e>>
  <2>1. body = <<>>
    BY <1>11 DEF Body
  <2>2. /\ cs \in Seq(UserTask) /\ <<>> \o <<e>> = cs /\ cs # <<>> /\ cs[1] = e /\ cs[Len(cs)] = e
        /\ Follows(cs)
    BY <1>3 DEF Follows
  <2>3. Ready(e)
    BY <1>3 DEF Ready, Alone
  <2> HIDE DEF cs
  <2>4. GoodBody(cs, e)
    BY <2>2, <2>3 DEF GoodBody
  <2>5. body \o <<e>> = cs
    BY <2>1, <2>2
  <2> QED  BY <2>4, <2>5
<1>12. ASSUME x.kind \in {"none", "list", "assume"} PROVE GoodBody(body \o <<e>>, e)
  <2>1. body \in {<<Task("work")>>, <<Execute("list", "none")>>}
    BY <1>12 DEF Body
  <2>2. NoLoop
    BY <1>4, <1>12 DEF Unpaused
  <2>3. "list" \in Kinds /\ "none" \in Names
    BY DEF Kinds, Names
  <2> HIDE DEF x, body
  <2> QED  BY <1>5, <1>6, <1>7, <2>1, <2>2, <2>3
<1>13. GoodBody(body \o <<e>>, e)
  <2> HIDE DEF x, body
  <2> QED  BY <1>2, <1>8, <1>9, <1>10, <1>11, <1>12 DEF Kinds
<1> QED  BY <1>13 DEF e

(* What the loop does in its pauser starts nothing.                        *)
LEMMA LoopBody ==
  ASSUME IInv, NEW o \in Loop, todo[o] # <<>>, Head(todo[o]).t = "enter"
  PROVE  LET cs == Body(Head(todo[o]).kind, Head(todo[o]).prog) \o <<Exit("none")>>
         IN cs \in Seq(LoopTask(o)) /\ \A j \in 1..Len(cs) : cs[j].t # "loop"
<1> DEFINE x    == Head(todo[o])
           e    == Exit("none")
           body == Body(x.kind, x.prog)
<1>1. x \in LoopTask(o) /\ x.kind \in Commands
  BY LoopTop DEF LoopTask
<1> DEFINE U == {y \in LoopTask(o) : y.t # "loop"}
<1>2. /\ Task("work") \in U /\ Task("raise") \in U /\ Task("count") \in U
      /\ Task("read") \in U /\ Task("want") \in U
      /\ Execute("assume", "none") \in U /\ Execute("stop", "none") \in U /\ e \in U
  <2>1. /\ Task("work") \in TaskSet /\ Task("work").t = "work"
        /\ Task("raise") \in TaskSet /\ Task("raise").t = "raise"
        /\ Task("count") \in TaskSet /\ Task("count").t = "count"
        /\ Task("read") \in TaskSet /\ Task("read").t = "read"
        /\ Task("want") \in TaskSet /\ Task("want").t = "want"
    BY Tasks DEF Types
  <2>2. \A k \in {"assume", "stop"} :
          /\ Execute(k, "none") \in TaskSet /\ Execute(k, "none").t = "execute"
          /\ Execute(k, "none").kind = k
    BY Tasks DEF Kinds, Names
  <2>3. e \in TaskSet /\ e.t = "exit" /\ e.prog = "none"
    BY Tasks DEF Names
  <2> HIDE DEF e
  <2> QED  BY <2>1, <2>2, <2>3 DEF LoopTask, LoopTypes, Commands
<1> HIDE DEF e
<1>3. body \in Seq(U)
  <2>1. CASE x.kind = "infer"
    <3>1. body = Inferring(x.prog)
      BY <2>1 DEF Body
    <3>2. Inferring(x.prog) \in {<<Task("work")>>, <<Execute("assume", "none")>>,
                                 <<Execute("stop", "none")>>, <<Task("raise")>>}
      BY DEF Inferring
    <3> HIDE DEF x, body, U
    <3>3. \A q \in U : <<q>> \in Seq(U)
      OBVIOUS
    <3> QED  BY <1>2, <3>1, <3>2, <3>3
  <2>2. CASE x.kind = "assume"
    <3>1. body = <<Task("work")>>
      BY <2>2 DEF Body
    <3> HIDE DEF x, body, U
    <3> QED  BY <1>2, <3>1
  <2>3. CASE x.kind = "stop"
    <3>1. body = (<<Task("count")>> \o <<Task("read")>>) \o <<Task("want")>>
      BY <2>3 DEF Body, Stop
    <3> HIDE DEF x, body, U
    <3> QED  BY <1>2, <3>1
  <2> QED  BY <1>1, <2>1, <2>2, <2>3 DEF Commands
<1> DEFINE cs == body \o <<e>>
<1>4. cs \in Seq(U)
  <2> HIDE DEF body, U
  <2> QED  BY <1>2, <1>3
<1> HIDE DEF cs
<1>5. cs \in Seq(LoopTask(o)) /\ \A j \in 1..Len(cs) : cs[j].t # "loop"
  <2>1. \A j \in 1..Len(cs) : cs[j] \in U
    <3> HIDE DEF U
    <3> QED  BY <1>4
  <2>2. cs \in Seq(LoopTask(o))
    <3> DEFINE L == LoopTask(o)
    <3>1. U \subseteq L
      OBVIOUS
    <3> HIDE DEF U, L
    <3>2. cs \in Seq(L)
      BY <1>4, <3>1
    <3> QED  BY <3>2 DEF L
  <2> QED  BY <2>1, <2>2
<1> QED  BY <1>5 DEF cs, e

(* An instruction enters its pauser.                                       *)
LEMMA EnterKeeps ==
  ASSUME IInv, NEW th \in Thread, Enter(th)
  PROVE  IInv'
<1> DEFINE x == Head(todo[th])
           p == IF x.t = "pause" THEN ret[th] ELSE "none"
           cs == Body(x.kind, x.prog) \o <<Exit(p)>>
<1>1. todo[th] # <<>> /\ x.t \in {"pause", "enter"}
  BY DEF Enter, Running, Top
<1>2. Kept(th)
  <2>1. stack \in Seq(Thread \X Nat) /\ ret \in [Thread -> Names]
    BY DEF IInv, Plain
  <2>2. Len(todo[th]) \in Nat
    BY Roles DEF IInv, UserInv, LoopInv, LoopStack
  <2>3. stack' \in Seq(Thread \X Nat)
    <3> DEFINE ref == <<th, Len(todo[th])>>
    <3>1. ref \in Thread \X Nat /\ stack' = Append(stack, ref)
      BY <2>2 DEF Enter
    <3> HIDE DEF ref
    <3> QED  BY <2>1, <3>1
  <2>4. ret' \in [Thread -> Names]
    BY <2>1 DEF Enter
  <2> QED  BY <1>1, <2>3, <2>4, NotAtWork DEF Enter, loopVars
<1>3. todo' = [todo EXCEPT ![th] = cs \o Tail(@)]
  BY DEF Enter, Then, Top
<1>4. p \in Names
  BY DEF IInv, Plain, Names
<1>5. CASE th = User
  <2>1. GoodBody(Body(Head(todo[User]).kind, Head(todo[User]).prog) \o <<Exit(p)>>, Exit(p))
    <3> HIDE DEF p
    <3> QED  BY <1>1, <1>4, <1>5, UserBody
  <2>2. GoodBody(cs, Exit(p))
    BY <2>1, <1>5
  <2>3. Exit(p).t = "exit"
    <3> HIDE DEF p
    <3> QED  BY <1>4, Tasks
  <2>4. \A b \in UserTask : Adjacent(Head(todo[User]), b) => Adjacent(Exit(p), b)
    <3>1. Head(todo[User]).t \in {"pause", "enter"}
      BY <1>1, <1>5
    <3> HIDE DEF p
    <3> QED  BY <3>1, <2>3 DEF Adjacent, Stopping
  <2>5. /\ cs \in Seq(UserTask) /\ cs # <<>> /\ Follows(cs) /\ Ready(cs[1])
        /\ \A b \in UserTask : Adjacent(Head(todo[User]), b) => Adjacent(cs[Len(cs)], b)
    <3> HIDE DEF cs, p
    <3> QED  BY <2>2, <2>4 DEF GoodBody
  <2> HIDE DEF cs, p, x
  <2>6. todo[User] # <<>> /\ Kept(User) /\ todo' = [todo EXCEPT ![User] = cs \o Tail(@)]
    BY <1>1, <1>2, <1>3, <1>5
  <2> QED  BY <2>5, <2>6, UserPush
<1>6. CASE th \in Loop
  <2>1. x.t = "enter"
    BY <1>1, <1>6, LoopTop DEF LoopTask, LoopTypes
  <2>2. cs = Body(x.kind, x.prog) \o <<Exit("none")>>
    BY <2>1
  <2>3. cs \in Seq(LoopTask(th)) /\ \A j \in 1..Len(cs) : cs[j].t # "loop"
    BY <1>1, <1>6, <2>1, <2>2, LoopBody
  <2> HIDE DEF cs, x
  <2> QED  BY <1>1, <1>2, <1>3, <1>6, <2>3, LoopPush
<1> QED  BY <1>5, <1>6, Roles

-----------------------------------------------------------------------------
(* An instruction ends.                                                    *)
LEMMA LeaveKeeps ==
  ASSUME IInv, NEW th \in Thread, Leave(th)
  PROVE  IInv'
<1>1. todo[th] # <<>> /\ Head(todo[th]).t = "exit"
  BY DEF Leave, Running, Top
<1>2. Kept(th)
  <2>1. stack \in Seq(Thread \X Nat) /\ ret' \in [Thread -> Names]
    BY DEF Leave, IInv, Plain
  <2>2. stack' = SubSeq(stack, 1, Len(stack) - 1)
    BY DEF Leave, Front
  <2>3. stack' \in Seq(Thread \X Nat)
    BY <2>1, <2>2
  <2> QED  BY <1>1, <2>1, <2>3, NotAtWork DEF Leave, loopVars
<1> DEFINE x == Head(todo[th])
           a == [x EXCEPT !.t = "restart"]
<1>3. todo' = [todo EXCEPT ![th] = <<a>> \o Tail(@)]
  BY DEF Leave, Then, Top
<1>4. x \in TaskSet
  BY <1>1, UserTop, LoopTop, Roles DEF UserTask, LoopTask
<1>5. a \in TaskSet /\ a.t = "restart" /\ a.prog = x.prog
  <2> HIDE DEF x
  <2> QED  BY <1>4 DEF TaskSet, Types
<1> HIDE DEF a
<1>6. CASE th = User
  <2>1. a \in UserTask /\ Ready(a)
    BY <1>5 DEF UserTask, Ready, Alone
  <2>2. \A b \in UserTask : Adjacent(Head(todo[User]), b) => Adjacent(a, b)
    BY <1>1, <1>5, <1>6 DEF Adjacent, Stopping
  <2> QED  BY <1>1, <1>2, <1>3, <1>6, <2>1, <2>2, UserPut
<1>7. CASE th \in Loop
  <2>1. x.prog = "none"
    BY <1>1, <1>7, LoopTop DEF LoopTask
  <2>2. a \in LoopTask(th) /\ a.t # "loop"
    BY <1>5, <2>1 DEF LoopTask, LoopTypes
  <2> QED  BY <1>1, <1>2, <1>3, <1>7, <2>2, LoopPut
<1> QED  BY <1>6, <1>7, Roles

(* A pauser restarts the loop it has paused.                               *)
LEMMA RestartKeeps ==
  ASSUME IInv, NEW th \in Thread, Restart(th)
  PROVE  IInv'
<1> DEFINE x  == Head(todo[th])
           a  == Task("reraise")
           no == (current # 0 /\ ~crashed[current]) \/ x.prog = "none"
<1>1. todo[th] # <<>> /\ x.t = "restart"
  BY DEF Restart, Running, Top
<1>2. Kept(th)
  BY <1>1, NotAtWork DEF Restart, loopVars, IInv, Plain
<1>3. todo' = [todo EXCEPT ![th] = ((IF no THEN <<>> ELSE Start(x.prog)) \o <<a>>) \o Tail(@)]
  BY DEF Restart, Then, Top
<1>4. a \in TaskSet /\ a.t = "reraise"
  BY Tasks DEF Types
<1> HIDE DEF a
<1>5. CASE no
  <2>1. <<>> \o <<a>> = <<a>>
    OBVIOUS
  <2>2. todo' = [todo EXCEPT ![th] = <<a>> \o Tail(@)]
    BY <1>3, <1>5, <2>1
  <2>3. CASE th = User
    <3>1. a \in UserTask /\ Ready(a)
      BY <1>4 DEF UserTask, Ready, Alone
    <3>2. \A b \in UserTask : Adjacent(Head(todo[User]), b) => Adjacent(a, b)
      BY <1>1, <1>4, <2>3 DEF Adjacent, Stopping
    <3> QED  BY <1>1, <1>2, <2>2, <2>3, <3>1, <3>2, UserPut
  <2>4. CASE th \in Loop
    <3>1. a \in LoopTask(th) /\ a.t # "loop"
      BY <1>4 DEF LoopTask, LoopTypes
    <3> QED  BY <1>1, <1>2, <2>2, <2>4, <3>1, LoopPut
  <2> QED  BY <2>3, <2>4, Roles
<1>6. CASE ~no
  <2> DEFINE m == [Task("make") EXCEPT !.prog = x.prog]
             r == Task("read")
             l == Task("launch")
             cs == (<<r>> \o <<m, l>>) \o <<a>>
  <2>1. th = User
    BY <1>1, <1>6, LoopTop, Roles DEF LoopTask
  <2>2. todo' = [todo EXCEPT ![User] = cs \o Tail(@)]
    BY <1>3, <1>6, <2>1 DEF Start, Stop
  <2>3. x \in TaskSet /\ x.prog \in Names
    BY <1>1, <2>1, UserTop DEF UserTask, TaskSet
  <2>4. /\ r \in TaskSet /\ r.t = "read" /\ l \in TaskSet /\ l.t = "launch"
        /\ Task("make") \in TaskSet /\ Task("make").t = "make"
    BY Tasks DEF Types
  <2>5. m \in TaskSet /\ m.t = "make"
    <3> HIDE DEF x
    <3> QED  BY <2>3, <2>4 DEF TaskSet
  <2>6. r \in UserTask /\ m \in UserTask /\ l \in UserTask /\ a \in UserTask /\ Ready(r)
    BY <1>4, <2>4, <2>5 DEF UserTask, Ready, Alone
  <2>7. Adjacent(r, m) /\ Adjacent(m, l) /\ Adjacent(l, a)
    BY <1>4, <2>4, <2>5 DEF Adjacent, Stopping
  <2>8. \A b \in UserTask : Adjacent(Head(todo[User]), b) => Adjacent(a, b)
    BY <1>1, <1>4, <2>1 DEF Adjacent, Stopping
  <2> HIDE DEF x, no, r, m, l
  <2>9. /\ cs # <<>> /\ Len(cs) = 4 /\ cs[Len(cs)] = a
        /\ cs[1] = r /\ cs[2] = m /\ cs[3] = l /\ cs[4] = a
    OBVIOUS
  <2>10. cs \in Seq(UserTask)
    BY <2>6
  <2> HIDE DEF cs
  <2>11. Follows(cs)
    <3>1. \A j \in 1 .. Len(cs) - 1 : j = 1 \/ j = 2 \/ j = 3
      BY <2>9
    <3>2. 1 + 1 = 2 /\ 2 + 1 = 3 /\ 3 + 1 = 4
      OBVIOUS
    <3> QED  BY <2>7, <2>9, <3>1, <3>2 DEF Follows
  <2> QED  BY <1>1, <1>2, <2>1, <2>2, <2>6, <2>8, <2>9, <2>10, <2>11, UserPush
<1> QED  BY <1>5, <1>6

(* A step that only ends a task, which is none of a stop or a start.       *)
LEMMA ReturnKeeps ==
  ASSUME IInv, NEW th \in Thread, todo[th] # <<>>, Return(th), Kept(th),
         Head(todo[th]).t \notin Stopping \cup {"make"}
  PROVE  IInv'
<1>1. todo' = [todo EXCEPT ![th] = <<>> \o Tail(@)]
  BY DEF Return, Then
<1>2. CASE th = User
  <2>1. \A b \in UserTask : Adjacent(Head(todo[User]), b) => Ready(b)
    BY <1>2 DEF Adjacent, Ready, Stopping, Alone
  <2> QED  BY <1>1, <1>2, <2>1, UserPop
<1>3. CASE th \in Loop
  BY <1>1, <1>3, LoopPop
<1> QED  BY <1>2, <1>3, Roles

(* An instruction that has failed fails further up.                        *)
LEMMA ReraiseKeeps ==
  ASSUME IInv, NEW th \in Thread, Reraise(th)
  PROVE  IInv'
<1>1. todo[th] # <<>> /\ Head(todo[th]).t = "reraise"
  BY DEF Reraise, Running, Top
<1>2. Kept(th)
  BY <1>1, NotAtWork DEF Reraise, loopVars, IInv, Plain
<1>3. Return(th) \/ Raise(th, exc[th])
  BY DEF Reraise
<1> QED  BY <1>1, <1>2, <1>3, ReturnKeeps, RaiseKeeps DEF Stopping

-----------------------------------------------------------------------------
(* The search for what is paused.                                          *)
LEMMA SearchKeeps ==
  ASSUME IInv, NEW th \in Thread, todo[th] # <<>>, Head(todo[th]).t \in {"count", "drop"},
         NEW i \in Nat, Then(th, <<On("drop", i)>>), Kept(th)
  PROVE  IInv'
<1> DEFINE a == On("drop", i)
<1>1. a \in TaskSet /\ a.t = "drop"
  BY Tasks DEF Types
<1>2. todo' = [todo EXCEPT ![th] = <<a>> \o Tail(@)]
  BY DEF Then
<1> HIDE DEF a
<1>3. CASE th = User
  <2>1. a \in UserTask /\ Ready(a)
    BY <1>1 DEF UserTask, Ready, Alone
  <2>2. \A b \in UserTask : Adjacent(Head(todo[User]), b) => Adjacent(a, b)
    BY <1>1, <1>3 DEF Adjacent, Stopping
  <2> QED  BY <1>2, <1>3, <2>1, <2>2, UserPut
<1>4. CASE th \in Loop
  <2>1. a \in LoopTask(th) /\ a.t # "loop"
    BY <1>1 DEF LoopTask, LoopTypes
  <2> QED  BY <1>2, <1>4, <2>1, LoopPut
<1> QED  BY <1>3, <1>4, Roles

(* The search begins at the top of the stack.                              *)
LEMMA CountKeeps ==
  ASSUME IInv, NEW th \in Thread, Count(th)
  PROVE  IInv'
<1>1. todo[th] # <<>> /\ Head(todo[th]).t = "count"
  BY DEF Count, Running, Top
<1>2. Kept(th)
  BY <1>1, NotAtWork DEF Count, loopVars, IInv, Plain
<1>3. Len(stack) \in Nat
  BY DEF IInv, Plain
<1>4. Then(th, <<On("drop", Len(stack))>>)
  BY DEF Count
<1> QED  BY <1>1, <1>2, <1>3, <1>4, SearchKeeps

(* What is dropped is a pauser of the user's: the loop pauses nothing.     *)
LEMMA Settled ==
  ASSUME NEW s \in Seq(UserTask), Follows(s), s # <<>> => Ready(Head(s)),
         NEW k \in 1..Len(s), s[k].t \in {"exit", "restart"}
  PROVE  LET u == [s EXCEPT ![k] = [s[k] EXCEPT !.prog = "none"]]
         IN /\ u \in Seq(UserTask) /\ Follows(u) /\ Len(u) = Len(s) /\ u # <<>> /\ s # <<>>
            /\ Ready(Head(u)) /\ Head(u).t = Head(s).t
            /\ Head(s).t \notin {"exit", "restart"} => Head(u) = Head(s)
<1> DEFINE e == [s[k] EXCEPT !.prog = "none"]
           u == [s EXCEPT ![k] = e]
<1>1. e \in UserTask /\ e.t = s[k].t
  <2>1. s[k] \in TaskSet
    BY DEF UserTask
  <2>2. e \in TaskSet /\ e.t = s[k].t
    BY <2>1 DEF TaskSet, Names
  <2> QED  BY <2>2 DEF UserTask
<1> HIDE DEF e
<1>2. /\ u \in Seq(UserTask) /\ Len(u) = Len(s) /\ u # <<>> /\ s # <<>>
      /\ \A j \in 1..Len(s) : u[j] = IF j = k THEN e ELSE s[j]
      /\ Head(u) = u[1] /\ Head(s) = s[1] /\ 1 \in 1..Len(s)
  BY <1>1
<1> HIDE DEF u
<1>3. ASSUME NEW j \in 1 .. Len(u) - 1 PROVE Adjacent(u[j], u[j + 1])
  <2>1. j \in 1..Len(s) /\ j + 1 \in 1..Len(s) /\ j \in 1 .. Len(s) - 1
    BY <1>2
  <2>2. Adjacent(s[j], s[j + 1])
    BY <2>1 DEF Follows
  <2>3. /\ u[j] = s[j] \/ (u[j] = e /\ s[j].t = e.t)
        /\ u[j + 1] = s[j + 1] \/ (u[j + 1] = e /\ s[j + 1].t = e.t)
    BY <1>1, <1>2, <2>1
  <2> QED  BY <1>1, <2>2, <2>3 DEF Adjacent, Stopping
<1>4. Head(u) = Head(s) \/ (Head(u) = e /\ Head(s).t = e.t)
  BY <1>1, <1>2
<1>5. Ready(Head(u)) /\ Head(u).t = Head(s).t
  BY <1>1, <1>2, <1>4 DEF Ready, Alone
<1>6. Head(s).t \notin {"exit", "restart"} => Head(u) = Head(s)
  BY <1>1, <1>4
<1>7. Follows(u)
  BY <1>3 DEF Follows
<1> QED  BY <1>2, <1>5, <1>6, <1>7 DEF u, e

(* The search goes on, or ends at what it drops.                           *)
LEMMA DropOnKeeps ==
  ASSUME IInv, NEW th \in Thread, DropOn(th)
  PROVE  IInv'
<1> DEFINE i == Head(todo[th]).i
<1>1. todo[th] # <<>> /\ Head(todo[th]).t = "drop" /\ i \in 1..Len(stack)
  BY DEF DropOn, Running, Top
<1>2. Kept(th)
  BY <1>1, NotAtWork DEF DropOn, loopVars, IInv, Plain
<1>3. stack \in Seq(Thread \X Nat) /\ stack[i] \in Thread \X Nat /\ stack[i][1] \in Thread
  <2>1. stack \in Seq(Thread \X Nat)
    BY DEF IInv, Plain
  <2>2. stack[i] \in Thread \X Nat
    BY <1>1, <2>1
  <2> QED  BY <2>1, <2>2
<1>4. CASE ~Paused(stack[i])
  <2>1. Then(th, <<On("drop", i - 1)>>)
    BY <1>4 DEF DropOn, Top
  <2>2. i - 1 \in Nat
    BY <1>1, <1>3
  <2> QED  BY <1>1, <1>2, <2>1, <2>2, SearchKeeps
<1>5. CASE Paused(stack[i])
  <2> DEFINE w == stack[i][1]
             k == Place(stack[i])
             s == todo[User]
             u == [s EXCEPT ![k] = [s[k] EXCEPT !.prog = "none"]]
  <2>1. k \in DOMAIN todo[w] /\ todo[w][k].t \in {"exit", "restart"} /\ todo[w][k].prog # "none"
    BY <1>5 DEF Paused
  <2>2. w = User
    <3>1. ASSUME w \in Loop PROVE FALSE
      <4>1. todo[w] \in Seq(LoopTask(w))
        BY <3>1 DEF IInv, LoopInv, LoopStack
      <4> HIDE DEF k, w
      <4>2. todo[w][k] \in LoopTask(w)
        BY <2>1, <4>1
      <4> QED  BY <2>1, <4>2 DEF LoopTask
    <3> QED  BY <3>1, <1>3, Roles
  <2>3. todo' = [[todo EXCEPT ![w] = [@ EXCEPT ![k].prog = "none"]] EXCEPT ![th] = Tail(@)]
    BY <1>5 DEF DropOn, Dropped, Top
  <2>4. todo' = [[todo EXCEPT ![User] = u] EXCEPT ![th] = Tail(@)]
    BY <2>2, <2>3
  <2>5. s \in Seq(UserTask) /\ Follows(s) /\ (s # <<>> => Ready(Head(s)))
    BY DEF IInv, UserInv
  <2>6. DOMAIN todo = Thread /\ User \in Thread /\ User \notin Loop
    BY DEF IInv, Plain, User, Thread, Loop
  <2>7. k \in 1..Len(s) /\ s[k].t \in {"exit", "restart"}
    BY <2>1, <2>2, <2>5
  <2> HIDE DEF k, w
  <2>8. /\ u \in Seq(UserTask) /\ Follows(u) /\ Len(u) = Len(s) /\ u # <<>> /\ s # <<>>
        /\ Ready(Head(u)) /\ Head(u).t = Head(s).t
        /\ Head(s).t \notin {"exit", "restart"} => Head(u) = Head(s)
    BY <2>5, <2>7, Settled
  <2> HIDE DEF u
  <2>9. CASE th = User
    <3>1. todo' = [todo EXCEPT ![User] = Tail(u)]
      BY <2>4, <2>6, <2>9
    <3>2. /\ Tail(u) \in Seq(UserTask) /\ Follows(Tail(u))
          /\ Tail(u) # <<>> => Adjacent(Head(u), Head(Tail(u))) /\ Head(Tail(u)) \in UserTask
      BY <2>8, Behind
    <3>3. Tail(u) # <<>> => Ready(Head(Tail(u)))
      BY <1>1, <2>8, <2>9, <3>2 DEF Adjacent, Ready, Stopping, Alone
    <3> QED  BY <1>2, <2>9, <3>1, <3>2, <3>3, UserStep
  <2>10. CASE th \in Loop
    <3>1. todo' = [todo EXCEPT ![User] = u, ![th] = Tail(todo[th])]
      BY <2>4, <2>6, <2>10
    <3>2. Tail(todo[th]) \in LoopStack(th)
      <4>1. todo[th] \in Seq(LoopTask(th)) /\ \A j \in 1 .. Len(todo[th]) - 1 : todo[th][j].t # "loop"
        BY <2>10 DEF IInv, LoopInv, LoopStack
      <4> DEFINE q == Tail(todo[th])
      <4>2. /\ q \in Seq(LoopTask(th)) /\ Len(q) = Len(todo[th]) - 1 /\ Len(todo[th]) \in Nat \ {0}
            /\ \A j \in 1..Len(q) : q[j] = todo[th][j + 1]
        BY <1>1, <4>1
      <4> HIDE DEF q
      <4>3. ASSUME NEW j \in 1 .. Len(q) - 1 PROVE q[j].t # "loop"
        <5>1. j \in 1..Len(q) /\ j + 1 \in 1 .. Len(todo[th]) - 1
          BY <4>2
        <5> QED  BY <4>1, <4>2, <5>1
      <4> QED  BY <4>2, <4>3 DEF LoopStack, q
    <3> QED  BY <1>1, <1>2, <2>8, <2>10, <3>1, <3>2, LoopUserStep
  <2> QED  BY <2>9, <2>10, Roles
<1> QED  BY <1>4, <1>5

(* The search finds nothing, or fails; the ghost is set.                   *)
LEMMA DropEndsKeeps ==
  ASSUME IInv, NEW th \in Thread, DropNone(th) \/ DropFails(th) \/ Want(th)
  PROVE  IInv'
<1>1. todo[th] # <<>> /\ Head(todo[th]).t \in {"drop", "want"}
  BY DEF DropNone, DropFails, Want, Running, Top
<1>2. Kept(th)
  <2>1. /\ current' = current /\ made' = made /\ crashed' = crashed /\ program' = program
        /\ working' = working /\ ret' = ret /\ stack' = stack
    BY DEF DropNone, DropFails, Want, loopVars
  <2> QED  BY <1>1, <2>1, NotAtWork DEF IInv, Plain
<1>3. Return(th) \/ \E e : Raise(th, e)
  BY DEF DropNone, DropFails, Want
<1> QED  BY <1>1, <1>2, <1>3, ReturnKeeps, RaiseKeeps DEF Stopping

-----------------------------------------------------------------------------
(* Work on the traces, and the loop's own steps.                           *)
LEMMA WorkKeeps ==
  ASSUME IInv, NEW th \in Thread, Work(th)
  PROVE  IInv'
<1>1. /\ todo' = todo /\ current' = current /\ made' = made /\ crashed' = crashed
      /\ program' = program /\ ret' = ret /\ stack' = stack
  BY DEF Work, loopVars
<1>2. working' = working \cup {th} /\ todo[th] # <<>> /\ Head(todo[th]).t = "work"
  BY DEF Work, Running, Top
<1>3. Plain' /\ LoopInv'
  BY <1>1 DEF IInv, Plain, LoopInv
<1>4. UserInv'
  BY <1>1 DEF IInv, UserInv, Ready, NoLoop
<1>5. AtWork'
  BY <1>1, <1>2 DEF IInv, AtWork
<1> QED  BY <1>3, <1>4, <1>5 DEF IInv

(* Work on the traces ends, or fails.                                      *)
LEMMA WorkedKeeps ==
  ASSUME IInv, NEW th \in Thread, Worked(th) \/ WorkFails(th)
  PROVE  IInv'
<1>1. todo[th] # <<>> /\ Head(todo[th]).t \in {"work", "raise"}
  BY DEF Worked, WorkFails, Running, Top
<1>2. Kept(th)
  BY DEF Worked, WorkFails, loopVars, IInv, Plain, Kept
<1>3. Return(th) \/ Raise(th, "failed")
  BY DEF Worked, WorkFails
<1> QED  BY <1>1, <1>2, <1>3, ReturnKeeps, RaiseKeeps DEF Stopping

(* The loop infers once more, or ends.                                     *)
LEMMA IterateKeeps ==
  ASSUME IInv, NEW o \in Loop, Iterate(o)
  PROVE  IInv'
<1>1. todo[o] # <<>> /\ Head(todo[o]).t = "loop" /\ o \in Thread
  BY Roles DEF Iterate, Running, Top
<1>2. Kept(o)
  BY <1>1, NotAtWork DEF Iterate, loopVars, IInv, Plain
<1>3. CASE Proceeds(o)
  <2> DEFINE a == Execute("infer", program[o])
             s == <<a>> \o todo[o]
  <2>1. todo' = [todo EXCEPT ![o] = s]
    BY <1>3 DEF Iterate
  <2>2. program[o] \in Names
    BY DEF IInv, Plain
  <2>3. a \in TaskSet /\ a.t = "execute" /\ a.kind = "infer"
    BY <2>2, Tasks DEF Kinds
  <2> HIDE DEF a
  <2>4. a \in LoopTask(o) /\ a.t # "loop"
    BY <2>3 DEF LoopTask, LoopTypes, Commands
  <2>5. todo[o] \in Seq(LoopTask(o)) /\ \A j \in 1 .. Len(todo[o]) - 1 : todo[o][j].t # "loop"
    BY DEF IInv, LoopInv, LoopStack
  <2>6. /\ s \in Seq(LoopTask(o)) /\ Len(s) = Len(todo[o]) + 1 /\ Len(todo[o]) \in Nat
        /\ s[1] = a /\ \A j \in 2..Len(s) : s[j] = todo[o][j - 1]
    BY <2>4, <2>5
  <2> HIDE DEF s
  <2>7. ASSUME NEW j \in 1 .. Len(s) - 1 PROVE s[j].t # "loop"
    <3>1. CASE j = 1
      BY <3>1, <2>4, <2>6
    <3>2. CASE j # 1
      <4>1. j \in 2..Len(s) /\ j - 1 \in 1 .. Len(todo[o]) - 1
        BY <3>2, <2>6
      <4> QED  BY <4>1, <2>5, <2>6
    <3> QED  BY <3>1, <3>2
  <2>8. s \in LoopStack(o)
    BY <2>6, <2>7 DEF LoopStack
  <2> QED  BY <1>1, <1>2, <2>1, <2>8, LoopStep
<1>4. CASE ~Proceeds(o)
  <2>1. Return(o)
    BY <1>4 DEF Iterate
  <2> QED  BY <1>1, <1>2, <2>1, ReturnKeeps DEF Stopping
<1> QED  BY <1>3, <1>4

(* Only an idle stack is left of a loop that crashes.                      *)
LEMMA CrashKeeps ==
  ASSUME IInv, NEW o \in Loop, Crash(o)
  PROVE  IInv'
<1>1. todo[o] # <<>> /\ Head(todo[o]).t = "loop"
  BY DEF Crash, Running, Top
<1>2. todo[o] \in Seq(LoopTask(o)) /\ \A j \in 1 .. Len(todo[o]) - 1 : todo[o][j].t # "loop"
  BY DEF IInv, LoopInv, LoopStack
<1>3. <<>> \o Tail(todo[o]) = <<>>
  <2>1. Head(todo[o]) = todo[o][1] /\ Len(todo[o]) \in Nat \ {0}
    BY <1>1, <1>2
  <2>2. 1 \notin 1 .. Len(todo[o]) - 1
    BY <1>1, <1>2, <2>1
  <2>3. Len(todo[o]) = 1
    <3> DEFINE n == Len(todo[o])
    <3>1. n \in Nat \ {0} /\ 1 \notin 1 .. n - 1
      BY <2>1, <2>2
    <3> HIDE DEF n
    <3>2. n = 1
      BY <3>1
    <3> QED  BY <3>2 DEF n
  <2>4. Tail(todo[o]) = <<>>
    <3>1. Tail(todo[o]) \in Seq(LoopTask(o)) /\ Len(Tail(todo[o])) = 0
      BY <1>1, <1>2, <2>3
    <3> QED  BY <3>1, EmptySeq
  <2> QED  BY <2>4
<1>4. User \in Thread /\ User \notin Loop /\ o \in Thread /\ Loop \subseteq Thread /\ DOMAIN todo = Thread
  BY DEF IInv, Plain, User, Loop, Thread
<1>5. /\ todo'[o] = <<>> /\ DOMAIN todo' = Thread
      /\ \A th \in Thread \ {o} : todo'[th] = todo[th]
  BY <1>3, <1>4 DEF Crash, Return, Then
<1>6. /\ current' = current /\ made' = made /\ crashed' = [crashed EXCEPT ![o] = TRUE]
      /\ program' = program /\ ret' = ret /\ stack' = stack /\ working' = working
  BY DEF Crash
<1>7. o = current /\ o <= made /\ ~NoLoop
  BY <1>1, Numbers DEF IInv, LoopInv, Plain, NoLoop
<1>8. Plain'
  BY <1>5, <1>6 DEF IInv, Plain
<1>9. UserInv'
  <2>1. todo'[User] = todo[User]
    BY <1>4, <1>5
  <2>2. todo[User] # <<>> => Head(todo[User]).t \notin Alone
    BY <1>7 DEF IInv, UserInv, Ready
  <2> QED  BY <1>6, <2>1, <2>2 DEF IInv, UserInv, Ready, Alone
<1>10. LoopInv'
  <2>1. \A q \in Loop : q # o => todo'[q] = todo[q] /\ todo'[q] = <<>> /\ crashed'[q] = crashed[q]
    BY <1>4, <1>5, <1>6, <1>7 DEF IInv, LoopInv, Plain
  <2>2. <<>> \in LoopStack(o)
    BY DEF LoopStack
  <2>3. ~(o > made)
    BY <1>7, Numbers
  <2> QED  BY <1>5, <1>6, <2>1, <2>2, <2>3 DEF IInv, LoopInv
<1>11. AtWork'
  BY <1>1, <1>5, <1>6 DEF IInv, AtWork
<1> QED  BY <1>8, <1>9, <1>10, <1>11 DEF IInv

(* The user executes an instruction.                                       *)
LEMMA InstructKeeps ==
  ASSUME IInv, Instruct
  PROVE  IInv'
<1>1. PICK a \in Instructions : todo' = [todo EXCEPT ![User] = <<a>>]
  BY DEF Instruct
<1>2. a \in TaskSet /\ a.t = "execute"
  <2>1. \A k \in Kinds, p \in Names : Execute(k, p) \in TaskSet /\ Execute(k, p).t = "execute"
    BY Tasks
  <2>2. \E k \in Kinds, p \in Names : a = Execute(k, p)
    <3>1. Programs \subseteq Names /\ {"none", "outer"} \subseteq Names /\ Loops \subseteq Names
      BY LoopsAssumption DEF Names
    <3>2. {"assume", "stop", "status", "list", "infer", "loop", "start"} \subseteq Kinds
      BY DEF Kinds
    <3> QED  BY <3>1, <3>2 DEF Instructions
  <2> QED  BY <2>1, <2>2
<1> DEFINE s == <<a>>
<1>3. s \in Seq(UserTask) /\ Follows(s) /\ Head(s) = a
  BY <1>2 DEF UserTask, Follows
<1>4. Ready(a)
  BY <1>2 DEF Ready, Alone
<1>5. Kept(User)
  <2>1. todo[User] = <<>>
    BY DEF Instruct
  <2>2. working' = working /\ User \notin working
    BY <2>1 DEF Instruct, IInv, AtWork
  <2> QED  BY <2>2 DEF Instruct, loopVars, Kept, IInv, Plain
<1> HIDE DEF s
<1>6. todo' = [todo EXCEPT ![User] = s]
  BY <1>1 DEF s
<1> QED  BY <1>3, <1>4, <1>5, <1>6, UserStep

-----------------------------------------------------------------------------
(* No thread has anything to do at first.                                  *)
LEMMA Starts ==
  ASSUME Init
  PROVE  IInv
<1>1. Plain
  <2>1. MaxLoops \in Nat
    BY LoopsAssumption
  <2> QED  BY <2>1 DEF Init, Plain, Names
<1>2. \A th \in Thread : todo[th] = <<>>
  BY DEF Init
<1>3. UserInv
  <2>1. <<>> \in Seq(UserTask) /\ \A j \in 1 .. Len(<<>>) - 1 : Adjacent(<<>>[j], <<>>[j + 1])
    OBVIOUS
  <2>2. todo[User] = <<>>
    BY <1>2, Roles
  <2> QED  BY <2>1, <2>2 DEF UserInv, Follows
<1>4. LoopInv
  BY <1>2, Roles DEF Init, LoopInv, LoopStack
<1>5. AtWork
  BY DEF Init, AtWork
<1> QED  BY <1>1, <1>3, <1>4, <1>5 DEF IInv

(* Nothing happens.                                                        *)
LEMMA Stays ==
  ASSUME IInv, UNCHANGED vars
  PROVE  IInv'
<1>1. /\ todo' = todo /\ current' = current /\ made' = made /\ crashed' = crashed
      /\ program' = program /\ ret' = ret /\ stack' = stack /\ working' = working
  BY DEF vars, loopVars
<1>2. Plain' /\ LoopInv' /\ AtWork'
  BY <1>1 DEF IInv, Plain, LoopInv, AtWork
<1>3. UserInv'
  BY <1>1 DEF IInv, UserInv, Ready, NoLoop
<1> QED  BY <1>2, <1>3 DEF IInv

(* No step breaks the order.                                               *)
LEMMA Keeps ==
  ASSUME IInv, [Next]_vars
  PROVE  IInv'
<1>1. CASE Instruct
  BY <1>1, InstructKeeps
<1>2. ASSUME NEW th \in Thread, Step(th) PROVE IInv'
  BY <1>2, ReadCurrentKeeps, GrabHandleKeeps, ReleaseHandleKeeps, JoinKeeps, JoinFailsKeeps,
     ForgetLoopKeeps, MakeKeeps, LaunchKeeps, BeginKeeps, EnterKeeps, LeaveKeeps, RestartKeeps,
     ReraiseKeeps, CountKeeps, DropOnKeeps, DropEndsKeeps, WorkKeeps, WorkedKeeps DEF Step
<1>3. ASSUME NEW o \in Loop, Iterate(o) \/ Crash(o) PROVE IInv'
  BY <1>3, IterateKeeps, CrashKeeps
<1>4. CASE Rest
  BY <1>4, Stays DEF Rest
<1>5. CASE UNCHANGED vars
  BY <1>5, Stays
<1> QED  BY <1>1, <1>2, <1>3, <1>4, <1>5 DEF Next

(* The order of the tasks is kept.                                         *)
THEOREM Ordered == Spec => []IInv
<1>1. Init => IInv
  BY Starts
<1>2. IInv /\ [Next]_vars => IInv'
  BY Keeps
<1> QED  BY <1>1, <1>2, PTL DEF Spec

(* There is one loop at a time, the one the engine knows: every loop that  *)
(* is started can be stopped.                                              *)
THEOREM LoopsKnown == Spec => []OneLoop
<1>1. IInv => OneLoop
  BY DEF IInv, LoopInv, OneLoop, Looping
<1> QED  BY <1>1, Ordered, PTL

(* The traces are worked on by one thread at a time.                       *)
THEOREM WorkExcludes == Spec => []Exclusive
<1>1. ASSUME IInv PROVE Exclusive
  <2>1. ASSUME NEW a \in working, NEW b \in working PROVE a = b
    <3>1. /\ a \in Thread /\ todo[a] # <<>> /\ Head(todo[a]).t = "work"
          /\ b \in Thread /\ todo[b] # <<>> /\ Head(todo[b]).t = "work"
      BY <1>1 DEF IInv, AtWork
    <3>2. User \in working => NoLoop
      BY <1>1, UserTop DEF IInv, AtWork, Ready, Alone
    <3>3. CASE a = User \/ b = User
      BY <3>1, <3>2, <3>3, Roles DEF NoLoop
    <3>4. CASE a \in Loop /\ b \in Loop
      BY <1>1, <3>1, <3>4 DEF IInv, LoopInv
    <3> QED  BY <3>1, <3>3, <3>4, Roles
  <2> QED  BY <2>1 DEF Exclusive
<1> QED  BY <1>1, Ordered, PTL

-----------------------------------------------------------------------------
(* The type invariant: each exit that is to come has a reference.          *)

(* The places of the exits on a stack of tasks, and on all stacks.         *)
ExitsOf(s) == {i \in DOMAIN s : s[i].t = "exit"}
Waiting(f) == UNION {{th} \X ExitsOf(f[th]) : th \in Thread}

(* Only instructions that start a loop name one.                           *)
AskedTask == {x \in TaskSet :
                /\ x.t = "want" => x.prog \in Programs \cup {"none"}
                /\ x.t \in {"execute", "pause", "enter"} /\ x.kind \in {"loop", "start"} => x.prog \in Programs}
QuietTask == {x \in AskedTask : x.t # "exit"}
Wishes    == Programs \cup {"none", "crashed"}

Counted == /\ wanted \in Wishes /\ \A th \in Thread : todo[th] \in Seq(AskedTask)
           /\ stack \in Seq(Thread \X Nat) /\ Len(stack) = Cardinality(Waiting(todo))

(* Sets of the same size.                                                  *)
LEMMA SameSize ==
  ASSUME NEW S, IsFiniteSet(S), NEW T, NEW f \in [S -> T],
         \A a, b \in S : f[a] = f[b] => a = b, \A t \in T : \E s \in S : f[s] = t
  PROVE  IsFiniteSet(T) /\ Cardinality(T) = Cardinality(S)
<1>1. f \in Bijection(S, T)
  BY Fun_IsBij
<1>2. ExistsBijection(S, T)
  BY <1>1, Fun_ExistsBij
<1> QED  BY <1>2, FS_Bijection

LEMMA ExitsFinite ==
  ASSUME NEW S, NEW s \in Seq(S)
  PROVE  IsFiniteSet(ExitsOf(s)) /\ ExitsOf(s) \subseteq 1..Len(s) /\ Cardinality(ExitsOf(s)) \in Nat
<1>1. Len(s) \in Int /\ ExitsOf(s) \in SUBSET (1..Len(s))
  BY DEF ExitsOf
<1>2. IsFiniteSet(1..Len(s))
  BY <1>1, FS_Interval
<1> QED  BY <1>1, <1>2, FS_Subset, FS_CardinalityType

(* The exits of a stack put on another.                                    *)
LEMMA JoinedExits ==
  ASSUME NEW S, NEW s \in Seq(S), NEW r \in Seq(S)
  PROVE  Cardinality(ExitsOf(s \o r)) = Cardinality(ExitsOf(s)) + Cardinality(ExitsOf(r))
<1> DEFINE n == Len(s)
           R == {n + i : i \in ExitsOf(r)}
           f == [i \in ExitsOf(r) |-> n + i]
<1>1. /\ IsFiniteSet(ExitsOf(s)) /\ ExitsOf(s) \subseteq 1..n
      /\ IsFiniteSet(ExitsOf(r)) /\ ExitsOf(r) \subseteq 1..Len(r)
      /\ Cardinality(ExitsOf(s)) \in Nat /\ Cardinality(ExitsOf(r)) \in Nat
  BY ExitsFinite
<1>2. n \in Nat /\ Len(r) \in Nat
  OBVIOUS
<1>3. IsFiniteSet(R) /\ Cardinality(R) = Cardinality(ExitsOf(r))
  <2>1. f \in [ExitsOf(r) -> R]
    OBVIOUS
  <2>2. \A a, b \in ExitsOf(r) : f[a] = f[b] => a = b
    <3> HIDE DEF n
    <3> QED  BY <1>1, <1>2
  <2>3. \A t \in R : \E i \in ExitsOf(r) : f[i] = t
    OBVIOUS
  <2> HIDE DEF f, R
  <2> QED  BY <1>1, <2>1, <2>2, <2>3, SameSize
<1>4. ExitsOf(s \o r) = ExitsOf(s) \cup R
  <2>1. /\ s \o r \in Seq(S) /\ Len(s \o r) = n + Len(r)
        /\ \A i \in 1..n + Len(r) : (s \o r)[i] = IF i <= n THEN s[i] ELSE r[i - n]
    BY ConcatProperties
  <2>2. ASSUME NEW i \in ExitsOf(s \o r) PROVE i \in ExitsOf(s) \cup R
    <3>1. i \in 1..n + Len(r) /\ (s \o r)[i].t = "exit"
      BY <2>1 DEF ExitsOf
    <3>2. CASE i <= n
      BY <1>2, <2>1, <3>1, <3>2 DEF ExitsOf
    <3>3. CASE ~(i <= n)
      <4>1. i - n \in 1..Len(r) /\ n + (i - n) = i
        BY <1>2, <3>1, <3>3
      <4>2. i - n \in ExitsOf(r)
        BY <2>1, <3>1, <3>3, <4>1 DEF ExitsOf
      <4> QED  BY <4>1, <4>2
    <3> QED  BY <3>2, <3>3
  <2>3. ASSUME NEW i \in ExitsOf(s) PROVE i \in ExitsOf(s \o r)
    <3>1. i \in 1..n /\ s[i].t = "exit" /\ i \in 1..n + Len(r) /\ i <= n
      BY <1>1, <1>2 DEF ExitsOf
    <3> QED  BY <2>1, <3>1 DEF ExitsOf
  <2>4. ASSUME NEW i \in R PROVE i \in ExitsOf(s \o r)
    <3>1. PICK j \in ExitsOf(r) : i = n + j
      OBVIOUS
    <3>2. j \in 1..Len(r) /\ r[j].t = "exit"
      BY <1>1 DEF ExitsOf
    <3>3. i \in 1..n + Len(r) /\ ~(i <= n) /\ i - n = j
      BY <1>2, <3>1, <3>2
    <3> QED  BY <2>1, <3>2, <3>3 DEF ExitsOf
  <2> QED  BY <2>2, <2>3, <2>4
<1>5. ExitsOf(s) \cap R = {}
  <2>1. \A i \in R : i > n
    BY <1>1, <1>2
  <2>2. \A i \in ExitsOf(s) : i \in Nat /\ i <= n
    BY <1>1, <1>2
  <2> HIDE DEF R, n
  <2> QED  BY <1>2, <2>1, <2>2
<1> HIDE DEF R
<1>6. Cardinality(ExitsOf(s) \cup R) = Cardinality(ExitsOf(s)) + Cardinality(R) - Cardinality(ExitsOf(s) \cap R)
  BY <1>1, <1>3, FS_Union
<1>7. Cardinality(ExitsOf(s) \cap R) = 0
  BY <1>5, FS_EmptySet
<1> QED  BY <1>1, <1>3, <1>4, <1>6, <1>7

(* Tasks that are no exits.                                                *)
LEMMA QuietExits ==
  ASSUME NEW cs \in Seq(QuietTask)
  PROVE  Cardinality(ExitsOf(cs)) = 0 /\ cs \in Seq(AskedTask)
<1>1. \A i \in DOMAIN cs : cs[i] \in QuietTask
  OBVIOUS
<1>2. ExitsOf(cs) = {}
  BY <1>1 DEF ExitsOf, QuietTask
<1>3. cs \in Seq(AskedTask)
  BY DEF QuietTask
<1> QED  BY <1>2, <1>3, FS_EmptySet

(* The next task and the others.                                           *)
LEMMA NextExits ==
  ASSUME NEW s \in Seq(AskedTask), s # <<>>
  PROVE  /\ Tail(s) \in Seq(AskedTask) /\ Head(s) \in AskedTask
         /\ Cardinality(ExitsOf(s)) = Cardinality(ExitsOf(Tail(s))) + (IF Head(s).t = "exit" THEN 1 ELSE 0)
<1> DEFINE h == <<Head(s)>>
<1>1. Tail(s) \in Seq(AskedTask) /\ Head(s) \in AskedTask /\ s = h \o Tail(s)
  BY HeadTailProperties
<1>2. h \in Seq(AskedTask) /\ Len(h) = 1 /\ h[1] = Head(s) /\ DOMAIN h = {1}
  BY <1>1
<1>3. ExitsOf(h) = IF Head(s).t = "exit" THEN {1} ELSE {}
  BY <1>2 DEF ExitsOf
<1>4. Cardinality(ExitsOf(h)) = IF Head(s).t = "exit" THEN 1 ELSE 0
  BY <1>3, FS_EmptySet, FS_Singleton
<1>5. Cardinality(ExitsOf(s)) = Cardinality(ExitsOf(h)) + Cardinality(ExitsOf(Tail(s)))
  <2> HIDE DEF h
  <2> QED  BY <1>1, <1>2, JoinedExits
<1>6. Cardinality(ExitsOf(Tail(s))) \in Nat
  BY <1>1, ExitsFinite
<1> HIDE DEF h
<1> QED  BY <1>1, <1>4, <1>5, <1>6

(* An exception unwinds past no exit.                                      *)
LEMMA UnwoundExits ==
  ASSUME NEW s \in Seq(AskedTask)
  PROVE  Unwound(s) \in Seq(AskedTask) /\ Cardinality(ExitsOf(Unwound(s))) = Cardinality(ExitsOf(s))
<1>0. ExitsOf(s) \subseteq Handlers(s) /\ Handlers(s) \subseteq Nat /\ Handlers(s) \subseteq 1..Len(s)
  BY DEF ExitsOf, Handlers
<1>1. CASE Handlers(s) = {}
  <2>1. ExitsOf(s) = {} /\ Unwound(s) = <<>> /\ ExitsOf(<<>>) = {}
    BY <1>0, <1>1 DEF Unwound, ExitsOf
  <2>2. <<>> \in Seq(AskedTask)
    OBVIOUS
  <2> QED  BY <2>1, <2>2
<1>2. CASE Handlers(s) # {}
  <2>1. PICK m \in Handlers(s) : Unwound(s) = SubSeq(s, m, Len(s)) /\ \A j \in Handlers(s) : m <= j
    <3>1. \E m \in Handlers(s) : \A j \in Handlers(s) : m <= j
      BY <1>0, <1>2, Least
    <3> QED  BY <1>2, <3>1 DEF Unwound
  <2> DEFINE n == m - 1
             p == SubSeq(s, 1, n)
             r == SubSeq(s, m, Len(s))
  <2>2. m \in 1..Len(s) /\ Len(s) \in Nat /\ n + 1 = m /\ n \in 0..Len(s)
    BY <1>0
  <2>3. p \in Seq(AskedTask) /\ r \in Seq(AskedTask) /\ Len(p) = n /\ \A i \in 1..n : p[i] = s[i]
    <3>1. 1 \in Int /\ n \in Int /\ m \in Int /\ Len(s) \in Int
      BY <2>2
    <3> HIDE DEF n
    <3>2. \A i \in 1 .. n : i \in DOMAIN s
      BY <2>2
    <3>3. \A i \in m .. Len(s) : i \in DOMAIN s
      BY <2>2
    <3>4. p \in Seq(AskedTask) /\ Len(p) = (IF 1 <= n THEN n - 1 + 1 ELSE 0) /\ \A i \in 1..Len(p) : p[i] = s[1 + i - 1]
      BY <2>2, <3>1, <3>2, SubSeqProperties
    <3>5. r \in Seq(AskedTask)
      BY <2>2, <3>1, <3>3, SubSeqProperties
    <3>6. Len(p) = n
      BY <2>2, <3>4
    <3>7. \A i \in 1..n : 1 + i - 1 = i
      BY <2>2
    <3> QED  BY <3>4, <3>5, <3>6, <3>7
  <2>4. s = p \o r
    <3>1. SubSeq(s, 1, n) \o SubSeq(s, n + 1, Len(s)) = SubSeq(s, 1, Len(s))
      <4> HIDE DEF n, p, r
      <4>1. 1 \in 1 .. Len(s) + 1 /\ n \in 1 - 1 .. Len(s) /\ Len(s) \in n .. Len(s)
        BY <2>2
      <4> QED  BY <4>1, ConcatAdjacentSubSeq
    <3>2. SubSeq(s, 1, Len(s)) = s
      OBVIOUS
    <3> QED  BY <3>1, <3>2, <2>2
  <2>5. ExitsOf(p) = {}
    <3>1. ASSUME NEW i \in ExitsOf(p) PROVE FALSE
      <4>1. i \in 1..n /\ s[i].t = "exit"
        BY <2>3 DEF ExitsOf
      <4>2. i \in 1..Len(s) /\ i < m /\ i \in Nat
        BY <2>2, <4>1
      <4>3. i \in Handlers(s)
        BY <4>1, <4>2 DEF Handlers
      <4> QED  BY <2>1, <2>2, <4>2, <4>3
    <3> QED  BY <3>1
  <2>6. Cardinality(ExitsOf(s)) = Cardinality(ExitsOf(p)) + Cardinality(ExitsOf(r))
    <3> HIDE DEF p, r
    <3> QED  BY <2>3, <2>4, JoinedExits
  <2>7. Cardinality(ExitsOf(r)) \in Nat /\ Cardinality(ExitsOf(p)) = 0
    BY <2>3, <2>5, ExitsFinite, FS_EmptySet
  <2> HIDE DEF r, p
  <2>8. Unwound(s) = r
    BY <2>1 DEF r
  <2> QED  BY <2>3, <2>6, <2>7, <2>8
<1> QED  BY <1>1, <1>2

(* The exits of one thread, and of all.                                    *)
LEMMA PairedSize ==
  ASSUME NEW u, NEW S, IsFiniteSet(S)
  PROVE  IsFiniteSet({u} \X S) /\ Cardinality({u} \X S) = Cardinality(S)
<1> DEFINE f == [i \in S |-> <<u, i>>]
<1>1. f \in [S -> {u} \X S]
  OBVIOUS
<1>2. (\A a, b \in S : f[a] = f[b] => a = b) /\ \A t \in {u} \X S : \E i \in S : f[i] = t
  OBVIOUS
<1> HIDE DEF f
<1> QED  BY <1>1, <1>2, SameSize

LEMMA WaitingFinite ==
  ASSUME NEW f, \A th \in Thread : f[th] \in Seq(AskedTask), NEW T \in SUBSET Thread
  PROVE  IsFiniteSet(UNION {{th} \X ExitsOf(f[th]) : th \in T})
<1>1. IsFiniteSet(Thread)
  <2>1. MaxLoops \in Nat
    BY LoopsAssumption
  <2>2. Thread \in SUBSET (0..MaxLoops)
    BY <2>1 DEF Thread, User, Loop
  <2>3. IsFiniteSet(0..MaxLoops)
    BY <2>1, FS_Interval
  <2> QED  BY <2>2, <2>3, FS_Subset
<1> DEFINE W == {{th} \X ExitsOf(f[th]) : th \in T}
<1>2. IsFiniteSet(W)
  <2>1. IsFiniteSet(T)
    BY <1>1, FS_Subset
  <2> DEFINE h == [th \in T |-> {th} \X ExitsOf(f[th])]
  <2>2. h \in Surjection(T, W)
    <3>1. h \in [T -> W] /\ \A t \in W : \E s \in T : h[s] = t
      OBVIOUS
    <3> HIDE DEF h, W
    <3> QED  BY <3>1, Fun_IsSurj
  <2> HIDE DEF h, W
  <2> QED  BY <2>1, <2>2, FS_Surjection
<1>3. \A X \in W : IsFiniteSet(X)
  <2>1. SUFFICES ASSUME NEW th \in T PROVE IsFiniteSet({th} \X ExitsOf(f[th]))
    OBVIOUS
  <2>2. f[th] \in Seq(AskedTask)
    OBVIOUS
  <2>3. IsFiniteSet(ExitsOf(f[th]))
    BY <2>2, ExitsFinite
  <2> QED  BY <2>3, PairedSize
<1> HIDE DEF W
<1>4. IsFiniteSet(UNION W)
  BY <1>2, <1>3, FS_UNION
<1> QED  BY <1>4 DEF W

LEMMA OneThread ==
  ASSUME NEW f, \A th \in Thread : f[th] \in Seq(AskedTask), NEW u \in Thread
  PROVE  LET Rest1 == UNION {{th} \X ExitsOf(f[th]) : th \in Thread \ {u}}
         IN  Cardinality(Waiting(f)) = Cardinality(Rest1) + Cardinality(ExitsOf(f[u]))
             /\ Cardinality(Rest1) \in Nat /\ Cardinality(ExitsOf(f[u])) \in Nat
<1> DEFINE Rest1 == UNION {{th} \X ExitsOf(f[th]) : th \in Thread \ {u}}
           X == {u} \X ExitsOf(f[u])
<1>1. IsFiniteSet(Rest1)
  BY WaitingFinite, Thread \ {u} \in SUBSET Thread
<1>2. f[u] \in Seq(AskedTask)
  OBVIOUS
<1>3. IsFiniteSet(ExitsOf(f[u])) /\ Cardinality(ExitsOf(f[u])) \in Nat
  BY <1>2, ExitsFinite
<1>4. IsFiniteSet(X) /\ Cardinality(X) = Cardinality(ExitsOf(f[u]))
  BY <1>3, PairedSize
<1>5. Waiting(f) = Rest1 \cup X
  BY DEF Waiting
<1>6. Rest1 \cap X = {}
  OBVIOUS
<1> HIDE DEF Rest1, X
<1>7. Cardinality(Rest1 \cup X) = Cardinality(Rest1) + Cardinality(X) - Cardinality(Rest1 \cap X)
  BY <1>1, <1>4, FS_Union
<1>8. Cardinality(Rest1 \cap X) = 0 /\ Cardinality(Rest1) \in Nat
  BY <1>1, <1>6, FS_EmptySet, FS_CardinalityType
<1>9. Cardinality(Waiting(f)) = Cardinality(Rest1) + Cardinality(ExitsOf(f[u]))
  BY <1>3, <1>4, <1>5, <1>7, <1>8
<1> QED  BY <1>3, <1>8, <1>9 DEF Rest1

(* A step changes the exits of one thread.                                 *)
LEMMA OneStack ==
  ASSUME NEW f, NEW g, \A th \in Thread : f[th] \in Seq(AskedTask) /\ g[th] \in Seq(AskedTask),
         NEW u \in Thread, \A th \in Thread \ {u} : ExitsOf(g[th]) = ExitsOf(f[th]),
         NEW k \in Int, Cardinality(ExitsOf(g[u])) = Cardinality(ExitsOf(f[u])) + k
  PROVE  Cardinality(Waiting(g)) = Cardinality(Waiting(f)) + k
<1> DEFINE F == UNION {{th} \X ExitsOf(f[th]) : th \in Thread \ {u}}
           G == UNION {{th} \X ExitsOf(g[th]) : th \in Thread \ {u}}
<1>1. Cardinality(Waiting(f)) = Cardinality(F) + Cardinality(ExitsOf(f[u]))
      /\ Cardinality(F) \in Nat /\ Cardinality(ExitsOf(f[u])) \in Nat
  BY OneThread
<1>2. Cardinality(Waiting(g)) = Cardinality(G) + Cardinality(ExitsOf(g[u]))
  BY OneThread
<1>3. F = G
  <2>1. F \subseteq G
    OBVIOUS
  <2>2. G \subseteq F
    OBVIOUS
  <2> HIDE DEF F, G
  <2> QED  BY <2>1, <2>2
<1> HIDE DEF F, G
<1> QED  BY <1>1, <1>2, <1>3

(* So does a thread that has other tasks to do.                            *)
LEMMA StackCounts ==
  ASSUME Counted, DOMAIN todo = Thread, NEW th \in Thread, NEW s, s \in Seq(AskedTask), NEW k \in Int,
         Cardinality(ExitsOf(s)) = Cardinality(ExitsOf(todo[th])) + k,
         todo' = [todo EXCEPT ![th] = s], stack' \in Seq(Thread \X Nat), Len(stack') = Len(stack) + k,
         wanted' \in Wishes
  PROVE  Counted'
<1> PICK g : g = todo'
  OBVIOUS
<1>1. \A t \in Thread : g[t] = IF t = th THEN s ELSE todo[t]
  OBVIOUS
<1>2. \A t \in Thread : todo[t] \in Seq(AskedTask)
  BY DEF Counted
<1>3. \A t \in Thread : todo[t] \in Seq(AskedTask) /\ g[t] \in Seq(AskedTask)
  BY <1>1, <1>2
<1>4. (\A t \in Thread \ {th} : ExitsOf(g[t]) = ExitsOf(todo[t]))
      /\ Cardinality(ExitsOf(g[th])) = Cardinality(ExitsOf(todo[th])) + k
  BY <1>1
<1>5. Cardinality(Waiting(g)) = Cardinality(Waiting(todo)) + k
  BY <1>3, <1>4, OneStack
<1> QED  BY <1>3, <1>5 DEF Counted

(* A task is replaced by others, which are no exits.                       *)
LEMMA QuietStep ==
  ASSUME Counted, DOMAIN todo = Thread, NEW th \in Thread, todo[th] # <<>>, Head(todo[th]).t # "exit",
         NEW cs, cs \in Seq(QuietTask),
         todo' = [todo EXCEPT ![th] = cs \o Tail(@)], stack' = stack, wanted' \in Wishes
  PROVE  Counted'
<1> DEFINE r == Tail(todo[th])
           s == cs \o r
<1>1. todo[th] \in Seq(AskedTask)
  BY DEF Counted
<1>2. r \in Seq(AskedTask) /\ Cardinality(ExitsOf(todo[th])) = Cardinality(ExitsOf(r)) + 0
  BY <1>1, NextExits
<1>3. Cardinality(ExitsOf(cs)) = 0 /\ cs \in Seq(AskedTask)
  BY QuietExits
<1> HIDE DEF r
<1>4. s \in Seq(AskedTask) /\ Cardinality(ExitsOf(s)) = Cardinality(ExitsOf(cs)) + Cardinality(ExitsOf(r))
  BY <1>2, <1>3, JoinedExits, ConcatProperties
<1>5. Cardinality(ExitsOf(r)) \in Nat
  BY <1>2, ExitsFinite
<1>6. todo' = [todo EXCEPT ![th] = s]
  BY DEF r
<1> HIDE DEF s
<1>7. Cardinality(ExitsOf(s)) = Cardinality(ExitsOf(todo[th])) + 0
  BY <1>2, <1>3, <1>4, <1>5
<1>8. stack' \in Seq(Thread \X Nat) /\ Len(stack') = Len(stack) + 0
  BY DEF Counted
<1>9. 0 \in Int
  OBVIOUS
<1> QED  BY <1>4, <1>6, <1>7, <1>8, <1>9, StackCounts, Zenon

(* A task fails.                                                           *)
LEMMA RaiseCounts ==
  ASSUME Counted, DOMAIN todo = Thread, NEW th \in Thread, todo[th] # <<>>, Head(todo[th]).t # "exit",
         NEW e, Raise(th, e), stack' = stack, wanted' \in Wishes
  PROVE  Counted'
<1> DEFINE r == Tail(todo[th])
           s == Unwound(r)
<1>1. todo[th] \in Seq(AskedTask)
  BY DEF Counted
<1>2. r \in Seq(AskedTask) /\ Cardinality(ExitsOf(todo[th])) = Cardinality(ExitsOf(r)) + 0
  BY <1>1, NextExits
<1>3. s \in Seq(AskedTask) /\ Cardinality(ExitsOf(s)) = Cardinality(ExitsOf(r))
  BY <1>2, UnwoundExits
<1>4. Cardinality(ExitsOf(r)) \in Nat
  BY <1>2, ExitsFinite
<1>5. todo' = [todo EXCEPT ![th] = s]
  BY DEF Raise
<1> HIDE DEF s, r
<1>6. Cardinality(ExitsOf(s)) = Cardinality(ExitsOf(todo[th])) + 0
  BY <1>2, <1>3, <1>4
<1>7. stack' \in Seq(Thread \X Nat) /\ Len(stack') = Len(stack) + 0
  BY DEF Counted
<1>8. 0 \in Int
  OBVIOUS
<1> QED  BY <1>3, <1>5, <1>6, <1>7, <1>8, StackCounts, Zenon

(* The tasks that the code makes.                                          *)
LEMMA QuietTasks ==
  /\ \A t \in Types \ {"exit"} : Task(t) \in QuietTask
  /\ \A t \in Types \ {"exit"}, i \in Nat : On(t, i) \in QuietTask
  /\ \A p \in Names : [Task("make") EXCEPT !.prog = p] \in QuietTask
  /\ \A p \in Programs : [Task("want") EXCEPT !.prog = p] \in QuietTask
  /\ \A k \in {"loop", "start"}, p \in Programs : Execute(k, p) \in QuietTask
  /\ \A k \in Kinds \ {"loop", "start"}, p \in Names : Execute(k, p) \in QuietTask
<1>1. ASSUME NEW t \in Types, t # "exit", NEW i \in Nat PROVE Task(t) \in QuietTask /\ On(t, i) \in QuietTask
  BY <1>1 DEF QuietTask, AskedTask, TaskSet, Task, On, Kinds, Names
<1>2. ASSUME NEW p \in Names PROVE [Task("make") EXCEPT !.prog = p] \in QuietTask
  <2>1. [Task("make") EXCEPT !.prog = p] = [t |-> "make", kind |-> "none", prog |-> p, i |-> 0]
    BY DEF Task
  <2>2. [t |-> "make", kind |-> "none", prog |-> p, i |-> 0] \in TaskSet
    BY DEF TaskSet, Types, Kinds
  <2> QED  BY <2>1, <2>2 DEF QuietTask, AskedTask
<1>3. ASSUME NEW p \in Programs PROVE [Task("want") EXCEPT !.prog = p] \in QuietTask
  <2>1. [Task("want") EXCEPT !.prog = p] = [t |-> "want", kind |-> "none", prog |-> p, i |-> 0]
    BY DEF Task
  <2>2. [t |-> "want", kind |-> "none", prog |-> p, i |-> 0] \in TaskSet
    BY DEF TaskSet, Types, Kinds, Names
  <2> QED  BY <2>1, <2>2 DEF QuietTask, AskedTask
<1>4. ASSUME NEW k \in Kinds, NEW p \in Names, k \in {"loop", "start"} => p \in Programs
      PROVE  Execute(k, p) \in QuietTask
  <2>1. [t |-> "execute", kind |-> k, prog |-> p, i |-> 0] \in TaskSet
    BY DEF TaskSet, Types
  <2> QED  BY <2>1, <1>4 DEF QuietTask, AskedTask, Execute
<1>5. Programs \subseteq Names /\ {"loop", "start"} \subseteq Kinds
  BY DEF Names, Kinds
<1> QED  BY <1>1, <1>2, <1>3, <1>4, <1>5

LEMMA QuietStart ==
  ASSUME NEW p \in Names
  PROVE  Stop \in Seq(QuietTask) /\ Start(p) \in Seq(QuietTask)
<1> DEFINE m == [Task("make") EXCEPT !.prog = p]
<1>1. Task("read") \in QuietTask /\ m \in QuietTask /\ Task("launch") \in QuietTask
  BY QuietTasks DEF Types
<1> HIDE DEF m
<1>2. Stop \in Seq(QuietTask) /\ <<m, Task("launch")>> \in Seq(QuietTask)
  BY <1>1 DEF Stop
<1> HIDE DEF Stop
<1>3. Stop \o <<m, Task("launch")>> \in Seq(QuietTask)
  BY <1>2, ConcatProperties
<1> QED  BY <1>2, <1>3 DEF Start, m

LEMMA QuietBody ==
  ASSUME NEW x \in AskedTask, x.t \in {"pause", "enter"}
  PROVE  Body(x.kind, x.prog) \in Seq(QuietTask)
<1>1. x.kind \in Kinds /\ x.prog \in Names /\ (x.kind \in {"loop", "start"} => x.prog \in Programs)
  BY DEF AskedTask, TaskSet
<1>2. /\ \A t \in {"count", "want", "work", "raise"} : Task(t) \in QuietTask
      /\ Execute("assume", "none") \in QuietTask /\ Execute("stop", "none") \in QuietTask
      /\ Execute("list", "none") \in QuietTask
  <2>1. {"count", "want", "work", "raise"} \subseteq Types \ {"exit"} /\ "none" \in Names
        /\ {"assume", "stop", "list"} \subseteq Kinds \ {"loop", "start"}
    BY DEF Types, Kinds, Names
  <2> QED  BY <2>1, QuietTasks
<1> PICK k, p : k = x.kind /\ p = x.prog
  OBVIOUS
<1>3. CASE k \in {"loop", "start"}
  <2> DEFINE w == [Task("want") EXCEPT !.prog = p]
  <2>1. Body(k, p) = Start(p) \o <<w>>
    BY <1>3 DEF Body
  <2>2. w \in QuietTask /\ Start(p) \in Seq(QuietTask)
    BY <1>1, <1>3, QuietTasks, QuietStart
  <2> HIDE DEF w
  <2>3. <<w>> \in Seq(QuietTask)
    BY <2>2
  <2> QED  BY <2>1, <2>2, <2>3, ConcatProperties
<1>4. CASE k = "stop"
  <2>1. Body(k, p) = <<Task("count")>> \o Stop \o <<Task("want")>>
    BY <1>4 DEF Body
  <2>2. Stop \in Seq(QuietTask) /\ <<Task("count")>> \in Seq(QuietTask) /\ <<Task("want")>> \in Seq(QuietTask)
    BY <1>1, <1>2, QuietStart
  <2>3. <<Task("count")>> \o Stop \in Seq(QuietTask)
    BY <2>2, ConcatProperties
  <2> QED  BY <2>1, <2>2, <2>3, ConcatProperties
<1>5. CASE k = "infer"
  <2>1. Body(k, p) = Inferring(p)
    BY <1>5 DEF Body
  <2>2. Inferring(p) \in {<<Task("work")>>, <<Execute("assume", "none")>>,
                          <<Execute("stop", "none")>>, <<Task("raise")>>}
    BY DEF Inferring
  <2> QED  BY <1>2, <2>1, <2>2
<1>6. CASE k \notin {"loop", "start", "stop", "infer"}
  <2>1. Body(k, p) \in {<<Execute("list", "none")>>, <<>>, <<Task("work")>>}
    BY <1>6 DEF Body
  <2>2. Task("work") \in QuietTask /\ Execute("list", "none") \in QuietTask
    BY <1>2
  <2> DEFINE b == Execute("list", "none")
             c == Task("work")
  <2> HIDE DEF b, c
  <2>3. <<b>> \in Seq(QuietTask) /\ <<>> \in Seq(QuietTask) /\ <<c>> \in Seq(QuietTask)
    BY <2>2 DEF b, c
  <2> QED  BY <2>1, <2>3 DEF b, c
<1> QED  BY <1>3, <1>4, <1>5, <1>6

-----------------------------------------------------------------------------
(* Steps that only replace a task.                                         *)
LEMMA QuietThen ==
  ASSUME IInv, Counted, NEW th \in Thread, NEW t, Running(th, t), t # "exit", NEW cs, cs \in Seq(QuietTask),
         Then(th, cs), stack' = stack, wanted' \in Wishes
  PROVE  Counted'
<1>1. todo[th] # <<>> /\ Head(todo[th]).t # "exit" /\ DOMAIN todo = Thread
  BY DEF Running, Top, IInv, Plain
<1>2. todo' = [todo EXCEPT ![th] = cs \o Tail(@)]
  BY DEF Then
<1> QED  BY <1>1, <1>2, QuietStep

LEMMA QuietReturn ==
  ASSUME IInv, Counted, NEW th \in Thread, NEW t, Running(th, t), t # "exit",
         Return(th), stack' = stack, wanted' \in Wishes
  PROVE  Counted'
<1>1. <<>> \in Seq(QuietTask) /\ Then(th, <<>>)
  BY DEF Return
<1> QED  BY <1>1, QuietThen

LEMMA QuietRaise ==
  ASSUME IInv, Counted, NEW th \in Thread, NEW t, Running(th, t), t # "exit", NEW e,
         Raise(th, e), stack' = stack, wanted' = wanted
  PROVE  Counted'
<1>1. todo[th] # <<>> /\ Head(todo[th]).t # "exit" /\ DOMAIN todo = Thread
  BY DEF Running, Top, IInv, Plain
<1>2. wanted' \in Wishes
  BY DEF Counted
<1> QED  BY <1>1, <1>2, RaiseCounts

LEMMA TopAsked ==
  ASSUME Counted, NEW th \in Thread, NEW t, Running(th, t)
  PROVE  Top(th) \in AskedTask /\ Top(th).t = t
<1>1. todo[th] \in Seq(AskedTask) /\ todo[th] # <<>>
  BY DEF Counted, Running
<1> QED  BY <1>1, HeadTailProperties DEF Top, Running

LEMMA StopCounts ==
  ASSUME IInv, Counted, NEW th \in Thread,
         ReadCurrent(th) \/ GrabHandle(th) \/ ReleaseHandle(th) \/ Join(th) \/ JoinFails(th) \/ ForgetLoop(th)
  PROVE  Counted'
<1>0. wanted \in Wishes /\ current \in Nat
  BY Numbers DEF Counted
<1>1. CASE ReadCurrent(th)
  <2> DEFINE cs == IF current = 0 THEN <<>> ELSE <<On("grab", current)>>
  <2>1. On("grab", current) \in QuietTask
    BY <1>0, QuietTasks DEF Types
  <2>2. cs \in Seq(QuietTask)
    BY <2>1
  <2> HIDE DEF cs
  <2>3. Running(th, "read") /\ Then(th, cs) /\ stack' = stack /\ wanted' \in Wishes
    BY <1>0, <1>1 DEF ReadCurrent, cs
  <2> QED  BY <2>2, <2>3, QuietThen
<1>2. CASE GrabHandle(th)
  <2> DEFINE a == On("release", Top(th).i)
             b == On(IF handle[Top(th).i] THEN "join" ELSE "joinNone", Top(th).i)
  <2>1. Running(th, "grab") /\ Then(th, <<a, b>>) /\ stack' = stack /\ wanted' \in Wishes
    BY <1>0, <1>2 DEF GrabHandle
  <2>2. Top(th).i \in Nat
    BY <2>1, TopAsked DEF AskedTask, TaskSet
  <2>3. a \in QuietTask /\ b \in QuietTask
    BY <2>2, QuietTasks DEF Types
  <2> HIDE DEF a, b
  <2>4. <<a, b>> \in Seq(QuietTask)
    BY <2>3
  <2> QED  BY <2>1, <2>4, QuietThen
<1>3. CASE ReleaseHandle(th)
  <2>1. Running(th, "release") /\ Return(th) /\ stack' = stack /\ wanted' \in Wishes
    BY <1>0, <1>3 DEF ReleaseHandle
  <2> QED  BY <2>1, QuietReturn
<1>4. CASE Join(th)
  <2>1. Running(th, "join") /\ Then(th, <<Task("forget")>>) /\ stack' = stack /\ wanted' \in Wishes
    BY <1>0, <1>4 DEF Join
  <2>2. Task("forget") \in QuietTask
    BY QuietTasks DEF Types
  <2>3. <<Task("forget")>> \in Seq(QuietTask)
    BY <2>2
  <2> QED  BY <2>1, <2>3, QuietThen
<1>5. CASE JoinFails(th)
  <2>1. stack' = stack /\ wanted' = wanted
    BY <1>5 DEF JoinFails
  <2>2. CASE Running(th, "join") /\ Raise(th, "cannot join current thread")
    BY <2>1, <2>2, QuietRaise
  <2>3. CASE Running(th, "joinNone") /\ Raise(th, "None has no attribute join")
    BY <2>1, <2>3, QuietRaise
  <2> QED  BY <1>5, <2>2, <2>3 DEF JoinFails
<1>6. CASE ForgetLoop(th)
  <2>1. Running(th, "forget") /\ Return(th) /\ stack' = stack /\ wanted' \in Wishes
    BY <1>0, <1>6 DEF ForgetLoop
  <2> QED  BY <2>1, QuietReturn
<1> QED  BY <1>1, <1>2, <1>3, <1>4, <1>5, <1>6

LEMMA StartCounts ==
  ASSUME IInv, Counted, NEW th \in Thread, Make(th) \/ Launch(th)
  PROVE  Counted'
<1>0. wanted \in Wishes
  BY DEF Counted
<1>1. CASE Make(th)
  <2>1. Running(th, "make") /\ Return(th) /\ stack' = stack /\ wanted' \in Wishes
    BY <1>0, <1>1 DEF Make
  <2> QED  BY <2>1, QuietReturn
<1>2. CASE Launch(th)
  <2> DEFINE one == <<Task("loop")>>
             mid == [todo EXCEPT ![th] = Tail(@)]
  <2>1. todo[th] # <<>> /\ Head(todo[th]).t = "launch" /\ stack' = stack /\ wanted' = wanted
    BY <1>2 DEF Launch, Running, Top
  <2>2. th = User /\ Ready(Head(todo[User]))
    <3>1. th \notin Loop
      BY <2>1, LoopTop DEF LoopTask, LoopTypes
    <3> QED  BY <2>1, <3>1, Roles, UserTop
  <2>3. current \in Loop /\ todo[current] = <<>> /\ current # th /\ current \in Thread /\ th \notin Loop
    BY <2>1, <2>2, Roles DEF Ready, Alone, NoLoop, User, Loop
  <2>4. todo' = [[todo EXCEPT ![th] = Tail(@)] EXCEPT ![current] = one]
    BY <1>2 DEF Launch
  <2>5. DOMAIN todo = Thread /\ todo[th] \in Seq(AskedTask)
    BY DEF IInv, Plain, Counted
  <2>6. one \in Seq(AskedTask) /\ ExitsOf(one) = {} /\ ExitsOf(<<>>) = {}
    <3>1. Task("loop") \in QuietTask
      BY QuietTasks DEF Types
    <3> QED  BY <3>1 DEF QuietTask, ExitsOf
  <2>7. Tail(todo[th]) \in Seq(AskedTask)
        /\ Cardinality(ExitsOf(todo[th])) = Cardinality(ExitsOf(Tail(todo[th]))) + 0
    BY <2>1, <2>5, NextExits
  <2>8. Cardinality(ExitsOf(Tail(todo[th]))) \in Nat
    BY <2>7, ExitsFinite
  <2> HIDE DEF one
  <2> PICK g : g = todo'
    OBVIOUS
  <2>9. \A t \in Thread : g[t] = IF t = th THEN Tail(todo[th]) ELSE IF t = current THEN one ELSE todo[t]
    BY <2>3, <2>4, <2>5
  <2>10. \A t \in Thread : todo[t] \in Seq(AskedTask)
    BY DEF Counted
  <2>11. \A t \in Thread : g[t] \in Seq(AskedTask)
    BY <2>6, <2>7, <2>9, <2>10
  <2>12. \A t \in Thread \ {th} : ExitsOf(g[t]) = ExitsOf(todo[t])
    BY <2>3, <2>6, <2>9
  <2>13. Cardinality(ExitsOf(g[th])) = Cardinality(ExitsOf(todo[th])) + 0
    BY <2>7, <2>8, <2>9
  <2>14. Cardinality(Waiting(g)) = Cardinality(Waiting(todo)) + 0
    <3>1. 0 \in Int
      OBVIOUS
    <3> QED  BY <2>10, <2>11, <2>12, <2>13, <3>1, OneStack, Zenon
  <2> QED  BY <1>0, <2>1, <2>11, <2>14 DEF Counted
<1> QED  BY <1>1, <1>2

(* An instruction begins, and enters its pauser.                           *)
LEMMA EnterCounts ==
  ASSUME IInv, Counted, NEW th \in Thread, Begin(th) \/ Enter(th)
  PROVE  Counted'
<1>0. wanted \in Wishes
  BY DEF Counted
<1>1. CASE Begin(th)
  <2> DEFINE u == IF Pauses(th, Top(th).kind) THEN "pause" ELSE "enter"
             e == [Top(th) EXCEPT !.t = u]
             cs == (IF Pauses(th, Top(th).kind) THEN Stop ELSE <<>>) \o <<e>>
  <2>1. Running(th, "execute") /\ Then(th, cs) /\ stack' = stack /\ wanted' \in Wishes
    BY <1>0, <1>1 DEF Begin
  <2>2. Top(th) \in AskedTask /\ Top(th).t = "execute"
    BY <2>1, TopAsked
  <2>3. e \in QuietTask
    <3>1. u \in {"pause", "enter"}
      OBVIOUS
    <3> HIDE DEF u
    <3>2. e = [t |-> u, kind |-> Top(th).kind, prog |-> Top(th).prog, i |-> Top(th).i]
      BY <2>2 DEF AskedTask, TaskSet
    <3>3. [t |-> u, kind |-> Top(th).kind, prog |-> Top(th).prog, i |-> Top(th).i] \in TaskSet
      BY <2>2, <3>1 DEF AskedTask, TaskSet, Types
    <3> HIDE DEF e
    <3> QED  BY <2>2, <3>1, <3>2, <3>3 DEF QuietTask, AskedTask
  <2>4. Stop \in Seq(QuietTask)
    BY QuietStart DEF Names
  <2>5. <<e>> \in Seq(QuietTask)
    <3> HIDE DEF e
    <3> QED  BY <2>3
  <2>6. cs \in Seq(QuietTask)
    <3> HIDE DEF e
    <3>1. (IF Pauses(th, Top(th).kind) THEN Stop ELSE <<>>) \in Seq(QuietTask)
      BY <2>4
    <3> QED  BY <2>5, <3>1, ConcatProperties
  <2> HIDE DEF cs
  <2> QED  BY <2>1, <2>6, QuietThen
<1>2. CASE Enter(th)
  <2> DEFINE x == Top(th)
             p == IF x.t = "pause" THEN ret[th] ELSE "none"
             b == Body(x.kind, x.prog)
             e == <<Exit(p)>>
             r == Tail(todo[th])
             s == (b \o e) \o r
  <2>1. todo[th] # <<>> /\ x.t \in {"pause", "enter"} /\ x.t # "exit" /\ x = Head(todo[th])
    BY <1>2 DEF Enter, Running, Top
  <2>2. todo' = [todo EXCEPT ![th] = s] /\ wanted' = wanted
    BY <1>2 DEF Enter, Then
  <2>3. stack' = Append(stack, <<th, Len(todo[th])>>)
    BY <1>2 DEF Enter
  <2>4. todo[th] \in Seq(AskedTask) /\ stack \in Seq(Thread \X Nat) /\ DOMAIN todo = Thread
    BY DEF Counted, IInv, Plain
  <2>5. stack' \in Seq(Thread \X Nat) /\ Len(stack') = Len(stack) + 1
    <3>1. Len(todo[th]) \in Nat
      BY <2>4
    <3> DEFINE ref == <<th, Len(todo[th])>>
    <3>2. ref \in Thread \X Nat
      BY <3>1
    <3> HIDE DEF ref
    <3>3. Append(stack, ref) \in Seq(Thread \X Nat) /\ Len(Append(stack, ref)) = Len(stack) + 1
      BY <2>4, <3>2
    <3> QED  BY <2>3, <3>3 DEF ref
  <2>6. x \in AskedTask /\ r \in Seq(AskedTask) /\ Cardinality(ExitsOf(todo[th])) = Cardinality(ExitsOf(r)) + 0
    BY <2>1, <2>4, NextExits
  <2>7. b \in Seq(QuietTask)
    BY <2>1, <2>6, QuietBody
  <2>8. e \in Seq(AskedTask) /\ Cardinality(ExitsOf(e)) = 1
    <3>1. p \in Names
      BY DEF IInv, Plain, Names
    <3> HIDE DEF p
    <3>2. Exit(p) \in AskedTask /\ Exit(p).t = "exit"
      BY <3>1, Tasks DEF AskedTask
    <3>3. e \in Seq(AskedTask) /\ DOMAIN e = {1} /\ e[1].t = "exit"
      BY <3>2
    <3>4. ExitsOf(e) = {1}
      BY <3>3 DEF ExitsOf
    <3> QED  BY <3>3, <3>4, FS_Singleton
  <2> HIDE DEF b, e, r, x
  <2>9. b \in Seq(AskedTask) /\ Cardinality(ExitsOf(b)) = 0
    BY <2>7, QuietExits
  <2>10. b \o e \in Seq(AskedTask) /\ Cardinality(ExitsOf(b \o e)) = 0 + 1
    BY <2>8, <2>9, JoinedExits, ConcatProperties
  <2> DEFINE be == b \o e
  <2>11. be \in Seq(AskedTask) /\ Cardinality(ExitsOf(be)) = 1
    BY <2>10
  <2> HIDE DEF be
  <2>12. be \o r \in Seq(AskedTask) /\ Cardinality(ExitsOf(be \o r)) = 1 + Cardinality(ExitsOf(r))
    BY <2>6, <2>11, JoinedExits, ConcatProperties
  <2>13. s = be \o r
    BY DEF be
  <2>14. Cardinality(ExitsOf(r)) \in Nat
    BY <2>6, ExitsFinite
  <2> HIDE DEF s
  <2>15. s \in Seq(AskedTask) /\ Cardinality(ExitsOf(s)) = Cardinality(ExitsOf(todo[th])) + 1
    BY <2>6, <2>12, <2>13, <2>14
  <2>16. 1 \in Int /\ wanted' \in Wishes
    BY <1>0, <2>2
  <2> QED  BY <2>2, <2>4, <2>5, <2>15, <2>16, StackCounts, Zenon
<1> QED  BY <1>1, <1>2

(* An instruction leaves its pauser: the reference is there to pop.        *)
LEMMA LeaveCounts ==
  ASSUME IInv, Counted, NEW th \in Thread, Leave(th)
  PROVE  Counted' /\ stack # <<>>
<1> DEFINE x == Top(th)
           a == [x EXCEPT !.t = "restart"]
           r == Tail(todo[th])
           s == <<a>> \o r
<1>1. todo[th] # <<>> /\ x.t = "exit" /\ x = Head(todo[th])
  BY DEF Leave, Running, Top
<1>2. todo' = [todo EXCEPT ![th] = s] /\ wanted' = wanted /\ stack' = Front(stack)
  BY DEF Leave, Then
<1>3. todo[th] \in Seq(AskedTask) /\ stack \in Seq(Thread \X Nat) /\ DOMAIN todo = Thread
      /\ wanted \in Wishes /\ Len(stack) = Cardinality(Waiting(todo)) /\ Len(stack) \in Nat
  BY DEF Counted, IInv, Plain
<1>4. x \in AskedTask /\ r \in Seq(AskedTask) /\ Cardinality(ExitsOf(todo[th])) = Cardinality(ExitsOf(r)) + 1
  BY <1>1, <1>3, NextExits
<1>5. Cardinality(ExitsOf(r)) \in Nat
  BY <1>4, ExitsFinite
<1>6. stack # <<>>
  <2>1. \A t \in Thread : todo[t] \in Seq(AskedTask)
    BY DEF Counted
  <2> DEFINE R == UNION {{t} \X ExitsOf(todo[t]) : t \in Thread \ {th}}
  <2>2. Cardinality(Waiting(todo)) = Cardinality(R) + Cardinality(ExitsOf(todo[th])) /\ Cardinality(R) \in Nat
    BY <2>1, OneThread
  <2> HIDE DEF R, r
  <2>3. Len(stack) > 0
    BY <1>3, <1>4, <1>5, <2>2
  <2> QED  BY <1>3, <2>3
<1>7. stack' \in Seq(Thread \X Nat) /\ Len(stack') = Len(stack) - 1
  <2>1. Front(stack) = SubSeq(stack, 1, Len(stack) - 1)
    BY DEF Front
  <2>2. Len(stack) > 0
    BY <1>3, <1>6
  <2>3. 1 \in Int /\ Len(stack) - 1 \in Int /\ \A i \in 1 .. Len(stack) - 1 : stack[i] \in Thread \X Nat
    BY <1>3
  <2>4. /\ SubSeq(stack, 1, Len(stack) - 1) \in Seq(Thread \X Nat)
        /\ Len(SubSeq(stack, 1, Len(stack) - 1)) = IF 1 <= Len(stack) - 1 THEN Len(stack) - 1 - 1 + 1 ELSE 0
    BY <2>3, SubSeqProperties
  <2> QED  BY <1>2, <1>3, <2>1, <2>2, <2>4
<1>8. a \in QuietTask
  <2>1. a = [t |-> "restart", kind |-> x.kind, prog |-> x.prog, i |-> x.i]
    BY <1>4 DEF AskedTask, TaskSet
  <2>2. [t |-> "restart", kind |-> x.kind, prog |-> x.prog, i |-> x.i] \in TaskSet
    BY <1>4 DEF AskedTask, TaskSet, Types
  <2> HIDE DEF a
  <2> QED  BY <2>1, <2>2 DEF QuietTask, AskedTask
<1> HIDE DEF a, r, x
<1>9. <<a>> \in Seq(QuietTask)
  BY <1>8
<1>10. <<a>> \in Seq(AskedTask) /\ Cardinality(ExitsOf(<<a>>)) = 0
  BY <1>9, QuietExits
<1>11. s \in Seq(AskedTask) /\ Cardinality(ExitsOf(s)) = 0 + Cardinality(ExitsOf(r))
  BY <1>4, <1>10, JoinedExits, ConcatProperties
<1> HIDE DEF s
<1>12. Cardinality(ExitsOf(s)) = Cardinality(ExitsOf(todo[th])) + (-1) /\ Len(stack') = Len(stack) + (-1) /\ -1 \in Int
  BY <1>3, <1>4, <1>5, <1>7, <1>11
<1> QED  BY <1>2, <1>3, <1>6, <1>7, <1>11, <1>12, StackCounts

LEMMA ResumeCounts ==
  ASSUME IInv, Counted, NEW th \in Thread, Restart(th) \/ Reraise(th)
  PROVE  Counted'
<1>0. wanted \in Wishes
  BY DEF Counted
<1>1. CASE Restart(th)
  <2> DEFINE st == IF (current # 0 /\ ~crashed[current]) \/ Top(th).prog = "none" THEN <<>>
                   ELSE Start(Top(th).prog)
             b == Task("reraise")
  <2>1. Running(th, "restart") /\ Then(th, st \o <<b>>) /\ stack' = stack /\ wanted' \in Wishes
    BY <1>0, <1>1 DEF Restart
  <2>2. Top(th).prog \in Names
    BY <2>1, TopAsked DEF AskedTask, TaskSet
  <2>3. b \in QuietTask
    BY QuietTasks DEF Types
  <2>4. st \in Seq(QuietTask)
    BY <2>2, QuietStart
  <2> HIDE DEF b, st
  <2>5. <<b>> \in Seq(QuietTask)
    BY <2>3
  <2>6. st \o <<b>> \in Seq(QuietTask)
    BY <2>4, <2>5, ConcatProperties
  <2> QED  BY <2>1, <2>6, QuietThen
<1>2. CASE Reraise(th)
  <2>1. Running(th, "reraise") /\ stack' = stack /\ wanted' = wanted
    BY <1>2 DEF Reraise
  <2>2. Return(th) \/ Raise(th, exc[th])
    BY <1>2 DEF Reraise
  <2> QED  BY <1>0, <2>1, <2>2, QuietReturn, QuietRaise
<1> QED  BY <1>1, <1>2

(* The search for what is paused.                                          *)
LEMMA SearchCounts ==
  ASSUME IInv, Counted, NEW th \in Thread, Count(th) \/ DropNone(th) \/ DropFails(th) \/ Want(th)
  PROVE  Counted'
<1>0. wanted \in Wishes /\ Len(stack) \in Nat
  BY DEF Counted
<1>1. CASE Count(th)
  <2> DEFINE a == On("drop", Len(stack))
  <2>1. Running(th, "count") /\ Then(th, <<a>>) /\ stack' = stack /\ wanted' \in Wishes
    BY <1>0, <1>1 DEF Count
  <2>2. a \in QuietTask
    BY <1>0, QuietTasks DEF Types
  <2> HIDE DEF a
  <2>3. <<a>> \in Seq(QuietTask)
    BY <2>2
  <2> QED  BY <2>1, <2>3, QuietThen
<1>2. CASE DropNone(th)
  <2>1. Running(th, "drop") /\ Return(th) /\ stack' = stack /\ wanted' \in Wishes
    BY <1>0, <1>2 DEF DropNone
  <2> QED  BY <2>1, QuietReturn
<1>3. CASE DropFails(th)
  <2>1. Running(th, "drop") /\ Raise(th, "list index out of range") /\ stack' = stack /\ wanted' = wanted
    BY <1>3 DEF DropFails
  <2> QED  BY <2>1, QuietRaise
<1>4. CASE Want(th)
  <2>1. Running(th, "want") /\ Return(th) /\ stack' = stack
    BY <1>4 DEF Want
  <2>2. Top(th).prog \in Programs \cup {"none"}
    BY <2>1, TopAsked DEF AskedTask
  <2>3. wanted' \in Wishes
    BY <1>4, <2>2 DEF Want, Wishes
  <2> QED  BY <2>1, <2>3, QuietReturn
<1> QED  BY <1>1, <1>2, <1>3, <1>4

LEMMA DropCounts ==
  ASSUME IInv, Counted, NEW th \in Thread, DropOn(th)
  PROVE  Counted'
<1> DEFINE i == Top(th).i
           ref == stack[i]
<1>0. wanted' \in Wishes /\ stack' = stack /\ Running(th, "drop") /\ i \in 1..Len(stack) /\ DOMAIN todo = Thread
  BY DEF Counted, DropOn, IInv, Plain
<1>1. CASE ~Paused(ref)
  <2> DEFINE a == On("drop", i - 1)
  <2>1. Then(th, <<a>>)
    BY <1>1 DEF DropOn
  <2>2. a \in QuietTask
    <3>1. i - 1 \in Nat
      BY <1>0
    <3> QED  BY <3>1, QuietTasks DEF Types
  <2> HIDE DEF a
  <2>3. <<a>> \in Seq(QuietTask)
    BY <2>2
  <2> QED  BY <1>0, <2>1, <2>3, QuietThen
<1>2. CASE Paused(ref)
  <2> DEFINE w == ref[1]
             k == Place(ref)
             s == todo[w]
             e == [s[k] EXCEPT !.prog = "none"]
             u == [s EXCEPT ![k] = e]
  <2>1. w \in Thread
    <3>1. stack \in Seq(Thread \X Nat)
      BY DEF Counted
    <3>2. stack[i] \in Thread \X Nat
      BY <1>0, <3>1
    <3> QED  BY <3>2
  <2>2. k \in DOMAIN s /\ s[k].t \in {"exit", "restart"} /\ s \in Seq(AskedTask)
    BY <1>2, <2>1 DEF Paused, Counted
  <2>3. todo' = [[todo EXCEPT ![w] = [@ EXCEPT ![k].prog = "none"]] EXCEPT ![th] = Tail(@)]
    BY <1>2 DEF DropOn, Dropped
  <2>4. [s EXCEPT ![k].prog = "none"] = u
    OBVIOUS
  <2>5. todo' = [[todo EXCEPT ![w] = u] EXCEPT ![th] = Tail(@)]
    BY <2>3, <2>4
  <2> HIDE DEF w, k
  <2>6. e \in AskedTask /\ e.t = s[k].t
    <3>1. s[k] \in AskedTask
      BY <2>2
    <3>2. e = [t |-> s[k].t, kind |-> s[k].kind, prog |-> "none", i |-> s[k].i]
      BY <3>1 DEF AskedTask, TaskSet
    <3>3. [t |-> s[k].t, kind |-> s[k].kind, prog |-> "none", i |-> s[k].i] \in TaskSet
      BY <3>1 DEF AskedTask, TaskSet, Names
    <3> HIDE DEF e
    <3> QED  BY <2>2, <3>2, <3>3 DEF AskedTask
  <2> HIDE DEF e
  <2>7. /\ u \in Seq(AskedTask) /\ Len(u) = Len(s) /\ DOMAIN u = DOMAIN s
        /\ \A j \in DOMAIN s : u[j] = IF j = k THEN e ELSE s[j]
    BY <2>2, <2>6
  <2>8. ExitsOf(u) = ExitsOf(s)
    BY <2>6, <2>7 DEF ExitsOf
  <2> HIDE DEF u, s
  (* first the task is dropped, then the search is over *)
  <2> DEFINE f == [todo EXCEPT ![w] = u]
  <2>9. \A t \in Thread : f[t] = IF t = w THEN u ELSE todo[t]
    BY <1>0, <2>1
  <2>10. \A t \in Thread : f[t] \in Seq(AskedTask) /\ ExitsOf(f[t]) = ExitsOf(todo[t])
    BY <2>7, <2>8, <2>9 DEF Counted, s
  <2>11. Waiting(f) = Waiting(todo)
    BY <2>10 DEF Waiting
  <2>12. f[th] # <<>> /\ Head(f[th]).t = "drop"
    <3>1. todo[th] # <<>> /\ Head(todo[th]).t = "drop" /\ todo[th] \in Seq(AskedTask)
      BY <1>0 DEF Running, Top, Counted
    <3>2. CASE w # th
      BY <2>9, <3>1, <3>2
    <3>3. CASE w = th
      <4>1. s = todo[th] /\ f[th] = u
        BY <2>9, <3>3 DEF s
      <4>2. 1 \in DOMAIN s /\ s[1].t = "drop" /\ Len(s) > 0
        BY <3>1, <4>1
      <4>3. k # 1
        BY <2>2, <4>2
      <4>4. u[1] = s[1] /\ u # <<>>
        BY <2>7, <4>2, <4>3
      <4> QED  BY <2>7, <4>1, <4>2, <4>4
    <3> QED  BY <3>2, <3>3
  <2>13. todo' = [f EXCEPT ![th] = Tail(@)] /\ DOMAIN f = Thread
    BY <1>0, <2>5
  <2> HIDE DEF f
  <2>14. Tail(f[th]) \in Seq(AskedTask)
         /\ Cardinality(ExitsOf(f[th])) = Cardinality(ExitsOf(Tail(f[th]))) + 0
    BY <2>10, <2>12, NextExits
  <2>15. Cardinality(ExitsOf(Tail(f[th]))) \in Nat
    BY <2>14, ExitsFinite
  <2> PICK g : g = todo'
    OBVIOUS
  <2>16. \A t \in Thread : g[t] = IF t = th THEN Tail(f[th]) ELSE f[t]
    BY <2>13
  <2>17. \A t \in Thread : f[t] \in Seq(AskedTask) /\ g[t] \in Seq(AskedTask)
    BY <2>10, <2>14, <2>16
  <2>18. (\A t \in Thread \ {th} : ExitsOf(g[t]) = ExitsOf(f[t]))
         /\ Cardinality(ExitsOf(g[th])) = Cardinality(ExitsOf(f[th])) + 0
    BY <2>14, <2>15, <2>16
  <2>19. Cardinality(Waiting(g)) = Cardinality(Waiting(f)) + 0
    <3>1. 0 \in Int
      OBVIOUS
    <3> QED  BY <2>17, <2>18, <3>1, OneStack, Zenon
  <2> QED  BY <1>0, <2>11, <2>17, <2>19 DEF Counted
<1> QED  BY <1>1, <1>2

(* Work, and the loop's own steps.                                         *)
LEMMA WorkCounts ==
  ASSUME IInv, Counted, NEW th \in Thread, Work(th) \/ Worked(th) \/ WorkFails(th)
  PROVE  Counted'
<1>1. CASE Work(th)
  BY <1>1 DEF Work, Counted
<1>2. CASE Worked(th)
  <2>1. Running(th, "work") /\ Return(th) /\ stack' = stack /\ wanted' \in Wishes
    BY <1>2 DEF Worked, Counted
  <2> QED  BY <2>1, QuietReturn
<1>3. CASE WorkFails(th)
  <2>1. Raise(th, "failed") /\ stack' = stack /\ wanted' = wanted
    BY <1>3 DEF WorkFails
  <2>2. Running(th, "work") \/ Running(th, "raise")
    BY <1>3 DEF WorkFails
  <2> QED  BY <2>1, <2>2, QuietRaise
<1> QED  BY <1>1, <1>2, <1>3

LEMMA LoopCounts ==
  ASSUME IInv, Counted, NEW o \in Loop, Iterate(o) \/ Crash(o)
  PROVE  Counted'
<1>0. o \in Thread /\ wanted \in Wishes /\ DOMAIN todo = Thread /\ program[o] \in Names
  BY Roles DEF Counted, IInv, Plain
<1>1. CASE Crash(o)
  <2>1. Running(o, "loop") /\ Return(o) /\ stack' = stack
    BY <1>1 DEF Crash
  <2>2. wanted' \in Wishes
    BY <1>0, <1>1 DEF Crash, Wishes
  <2> QED  BY <1>0, <2>1, <2>2, QuietReturn
<1>2. CASE Iterate(o) /\ ~Proceeds(o)
  <2>1. Running(o, "loop") /\ Return(o) /\ stack' = stack /\ wanted' \in Wishes
    BY <1>0, <1>2 DEF Iterate
  <2> QED  BY <1>0, <2>1, QuietReturn
<1>3. CASE Iterate(o) /\ Proceeds(o)
  <2> DEFINE a == Execute("infer", program[o])
             s == <<a>> \o todo[o]
  <2>1. todo' = [todo EXCEPT ![o] = s] /\ stack' = stack /\ wanted' \in Wishes
    BY <1>0, <1>3 DEF Iterate
  <2>2. a \in QuietTask
    BY <1>0, QuietTasks DEF Kinds
  <2> HIDE DEF a
  <2>3. <<a>> \in Seq(QuietTask) /\ todo[o] \in Seq(AskedTask)
    BY <1>0, <2>2 DEF Counted
  <2>4. <<a>> \in Seq(AskedTask) /\ Cardinality(ExitsOf(<<a>>)) = 0
    BY <2>3, QuietExits
  <2>5. Cardinality(ExitsOf(todo[o])) \in Nat
    BY <2>3, ExitsFinite
  <2>6. s \in Seq(AskedTask) /\ Cardinality(ExitsOf(s)) = 0 + Cardinality(ExitsOf(todo[o]))
    BY <2>3, <2>4, JoinedExits, ConcatProperties
  <2> HIDE DEF s
  <2>7. Cardinality(ExitsOf(s)) = Cardinality(ExitsOf(todo[o])) + 0 /\ 0 \in Int
    BY <2>5, <2>6
  <2>8. stack' \in Seq(Thread \X Nat) /\ Len(stack') = Len(stack) + 0
    BY <2>1 DEF Counted
  <2> QED  BY <1>0, <2>1, <2>6, <2>7, <2>8, StackCounts, Zenon
<1> QED  BY <1>1, <1>2, <1>3

LEMMA InstructCounts ==
  ASSUME IInv, Counted, Instruct
  PROVE  Counted'
<1>0. wanted \in Wishes /\ DOMAIN todo = Thread /\ User \in Thread
  BY Roles DEF Counted, IInv, Plain
<1>1. PICK a \in Instructions : todo' = [todo EXCEPT ![User] = <<a>>]
  BY DEF Instruct
<1>2. a \in QuietTask
  <2>1. Programs \subseteq Names /\ {"none", "outer"} \subseteq Names /\ Loops \subseteq Programs
    BY LoopsAssumption DEF Names
  <2>2. {"assume", "stop", "status", "list", "infer"} \subseteq Kinds \ {"loop", "start"}
        /\ {"loop", "start"} \subseteq Kinds
    BY DEF Kinds
  <2>3. (\E k \in Kinds \ {"loop", "start"}, p \in Names : a = Execute(k, p))
        \/ \E k \in {"loop", "start"}, p \in Programs : a = Execute(k, p)
    BY <2>1, <2>2 DEF Instructions
  <2>4. CASE \E k \in Kinds \ {"loop", "start"}, p \in Names : a = Execute(k, p)
    BY <2>4, QuietTasks
  <2>5. CASE \E k \in {"loop", "start"}, p \in Programs : a = Execute(k, p)
    BY <2>1, <2>2, <2>5, QuietTasks
  <2> QED  BY <2>3, <2>4, <2>5
<1> DEFINE s == <<a>>
<1>3. s \in Seq(QuietTask)
  BY <1>2
<1> HIDE DEF s
<1>4. s \in Seq(AskedTask) /\ Cardinality(ExitsOf(s)) = 0
  BY <1>3, QuietExits
<1>5. Cardinality(ExitsOf(todo[User])) = 0
  <2>1. ExitsOf(<<>>) = {}
    BY DEF ExitsOf
  <2> QED  BY <2>1, FS_EmptySet DEF Instruct
<1>6. stack' \in Seq(Thread \X Nat) /\ Len(stack') = Len(stack) + 0 /\ wanted' \in Wishes
  BY <1>0 DEF Counted, Instruct
<1>7. Cardinality(ExitsOf(s)) = Cardinality(ExitsOf(todo[User])) + 0 /\ 0 \in Int
  BY <1>4, <1>5
<1> QED  BY <1>0, <1>1, <1>4, <1>6, <1>7, StackCounts DEF s

(* No step loses a reference.                                              *)
LEMMA StepCounts ==
  ASSUME IInv, Counted, [Next]_vars
  PROVE  Counted'
<1>1. CASE Instruct
  BY <1>1, InstructCounts
<1>2. ASSUME NEW th \in Thread, Step(th) PROVE Counted'
  BY <1>2, StopCounts, StartCounts, EnterCounts, LeaveCounts, ResumeCounts, SearchCounts, DropCounts,
     WorkCounts DEF Step
<1>3. ASSUME NEW o \in Loop, Iterate(o) \/ Crash(o) PROVE Counted'
  BY <1>3, LoopCounts
<1>4. CASE UNCHANGED vars
  BY <1>4 DEF vars, Counted
<1> QED  BY <1>1, <1>2, <1>3, <1>4 DEF Next, Rest

LEMMA InitCounts ==
  ASSUME Init
  PROVE  Counted
<1>1. \A th \in Thread : todo[th] = <<>>
  BY DEF Init
<1>2. Waiting(todo) = {}
  BY <1>1 DEF Waiting, ExitsOf
<1>3. Len(stack) = Cardinality(Waiting(todo)) /\ stack \in Seq(Thread \X Nat)
  BY <1>2, FS_EmptySet DEF Init
<1> QED  BY <1>1, <1>3 DEF Init, Counted, Wishes

(* The pausers' references: for any number of loops, whatever their        *)
(* programs do and in every interleaving, the SIVM's stack of pausers has  *)
(* one for each __exit__ to come.  So none pops an empty stack, though     *)
(* each takes the one on top, whoever has put it there.                    *)
THEOREM PausersCounted == Spec => []TypeOK
<1>1. IInv /\ Counted => TypeOK
  <2>1. SUFFICES ASSUME IInv, Counted PROVE TypeOK
    OBVIOUS
  <2>2. current \in {0} \cup Loop /\ working \subseteq Thread
    BY <2>1, Numbers DEF IInv, AtWork
  <2>3. \A i \in DOMAIN stack : stack[i] \in Thread \X Nat
    BY <2>1 DEF Counted
  <2>4. Waiting(todo) = UNION {{th} \X Exits(th) : th \in Thread}
    BY DEF Waiting, Exits, ExitsOf
  <2> QED  BY <2>1, <2>2, <2>3, <2>4 DEF TypeOK, Counted, Wishes
<1>2. Init => IInv /\ Counted
  BY Starts, InitCounts
<1>3. IInv /\ Counted /\ [Next]_vars => (IInv /\ Counted)'
  BY Keeps, StepCounts
<1> QED  BY <1>1, <1>2, <1>3, PTL DEF Spec
-----------------------------------------------------------------------------
(* The loop that is wanted: where the user's instruction stands.           *)

Promised == Programs \ {"endloop"}
Wish(p)  == [Task("want") EXCEPT !.prog = p]
Again(p) == [Exit(p) EXCEPT !.t = "restart"]
New(p)   == [Task("make") EXCEPT !.prog = p]
Command(t, k, p) == [t |-> t, kind |-> k, prog |-> p, i |-> 0]

(* The user's stack is what is left of a stop, on what is left of an       *)
(* instruction, on the exits to come, the outermost of which has paused q. *)
Stops == {"none", "read", "grab", "release", "releaseNone", "join", "joinNone", "forget"}
StopOn(a, c, R) ==
  CASE a \in {"read", "forget"}           -> Cons(Task(a), R)
    [] a \in {"grab", "join", "joinNone"} -> Cons(On(a, c), R)
    [] a = "release"     -> Cons(On("release", c), Cons(On("join", c), R))
    [] a = "releaseNone" -> Cons(On("release", c), Cons(On("joinNone", c), R))
    [] OTHER             -> R

Commanding == {"execute", "pause", "enter"}
Blocks == Commanding \cup {"none", "work", "raise", "reraise", "start", "launch", "started", "count", "drop",
                           "stopped", "restart", "again", "relaunch"}
BlockOn(b, k, p, i, R) ==
  CASE b \in Commanding -> Cons(Command(b, k, p), R)
    [] b \in {"work", "raise", "reraise"} -> Cons(Task(b), R)
    [] b = "start"    -> Cons(New(p), Cons(Task("launch"), Cons(Wish(p), R)))
    [] b = "launch"   -> Cons(Task("launch"), Cons(Wish(p), R))
    [] b = "started"  -> Cons(Wish(p), R)
    [] b = "count"    -> Cons(Task("count"), Cons(Task("read"), Cons(Task("want"), R)))
    [] b = "drop"     -> Cons(On("drop", i), Cons(Task("read"), Cons(Task("want"), R)))
    [] b = "stopped"  -> Cons(Task("want"), R)
    [] b = "restart"  -> Cons(Again(p), R)
    [] b = "again"    -> Cons(New(p), Cons(Task("launch"), Cons(Task("reraise"), R)))
    [] b = "relaunch" -> Cons(Task("launch"), Cons(Task("reraise"), R))
    [] OTHER          -> R

Left(q, n) == IF n = 0 THEN <<>> ELSE IF n = 1 THEN Cons(Exit(q), <<>>) ELSE Cons(Exit("none"), Cons(Exit(q), <<>>))

(* A task on top of others.                                                *)
LEMMA Pushed ==
  ASSUME NEW S, NEW x \in S, NEW r \in Seq(S)
  PROVE  LET s == Cons(x, r)
         IN /\ s \in Seq(S) /\ s # <<>> /\ Head(s) = x /\ Tail(s) = r /\ Len(s) = Len(r) + 1
            /\ s[1] = x /\ \A j \in 1..Len(r) : s[j + 1] = r[j]
<1> DEFINE s == Cons(x, r)
<1>1. /\ s \in Seq(S) /\ Len(s) = Len(r) + 1 /\ Len(r) \in Nat
      /\ \A j \in 1 .. Len(r) + 1 : s[j] = IF j <= 1 THEN x ELSE r[j - 1]
  BY DEF Cons
<1> HIDE DEF s
<1>2. s # <<>> /\ s[1] = x /\ \A j \in 1..Len(r) : s[j + 1] = r[j]
  BY <1>1
<1>3. Head(s) = x
  BY <1>1, <1>2
<1>4. Tail(s) = r
  <2>1. Tail(s) \in Seq(S) /\ Len(Tail(s)) = Len(r) /\ \A j \in 1..Len(r) : Tail(s)[j] = s[j + 1]
    BY <1>1, <1>2
  <2>2. \A j \in 1..Len(r) : Tail(s)[j] = r[j]
    BY <1>2, <2>1
  <2> QED  BY <2>1, <2>2, SeqEqual
<1> QED  BY <1>1, <1>2, <1>3, <1>4 DEF s

(* An exception passes over a task, but for an exit or the loop.           *)
LEMMA UnwoundPushed ==
  ASSUME NEW S, NEW x \in S, NEW r \in Seq(S)
  PROVE  /\ Unwound(<<>>) = <<>>
         /\ x.t \notin {"exit", "loop"} => Unwound(Cons(x, r)) = Unwound(r)
         /\ x.t \in {"exit", "loop"} => Unwound(Cons(x, r)) = Cons(x, r)
<1> DEFINE s == Cons(x, r)
           H == {"exit", "loop"}
<1>0. Len(r) \in Nat
  OBVIOUS
<1>1. s \in Seq(S) /\ Len(s) = Len(r) + 1 /\ s[1] = x /\ \A j \in 1..Len(r) : s[j + 1] = r[j]
  BY Pushed
<1> HIDE DEF s
<1>2. Unwound(<<>>) = <<>>
  BY DEF Unwound, Handlers
<1>3. ASSUME x.t \in H PROVE Unwound(s) = s
  <2>1. 1 \in Handlers(s) /\ \A j \in Handlers(s) : 1 <= j
    BY <1>0, <1>1, <1>3 DEF Handlers
  <2>2. (CHOOSE i \in Handlers(s) : \A j \in Handlers(s) : i <= j) = 1
    <3>1. Handlers(s) \subseteq Nat
      BY <1>0, <1>1 DEF Handlers
    <3>2. \A i \in Nat : i <= 1 /\ 1 <= i => i = 1
      OBVIOUS
    <3> QED  BY <2>1, <3>1, <3>2
  <2>3. SubSeq(s, 1, Len(s)) = s
    BY <1>0, <1>1
  <2> QED  BY <2>1, <2>2, <2>3 DEF Unwound
<1>4. ASSUME x.t \notin H PROVE Unwound(s) = Unwound(r)
  <2>1. \A j \in Nat : j + 1 \in Handlers(s) <=> j \in Handlers(r)
    <3>1. ASSUME NEW j \in Nat PROVE j + 1 \in Handlers(s) <=> j \in Handlers(r)
      <4>1. CASE j = 0
        BY <1>0, <1>1, <1>4, <4>1 DEF Handlers
      <4>2. CASE j # 0
        BY <1>0, <1>1, <4>2 DEF Handlers
      <4> QED  BY <4>1, <4>2
    <3> QED  BY <3>1
  <2>2. Handlers(s) \subseteq 1..Len(s) /\ Handlers(r) \subseteq 1..Len(r)
    BY <1>0, <1>1 DEF Handlers
  <2>3. \A i \in Handlers(s) : i - 1 \in Handlers(r)
    <3>1. ASSUME NEW i \in Handlers(s) PROVE i - 1 \in Handlers(r)
      <4>1. i - 1 \in Nat /\ (i - 1) + 1 = i
        BY <1>0, <1>1, <2>2
      <4> QED  BY <2>1, <4>1
    <3> QED  BY <3>1
  <2>4. CASE Handlers(r) = {}
    <3>1. Handlers(s) = {}
      BY <2>3, <2>4
    <3> QED  BY <2>4, <3>1 DEF Unwound
  <2>5. CASE Handlers(r) # {}
    <3>1. PICK m \in Handlers(r) : \A j \in Handlers(r) : m <= j
      BY <2>2, <2>5, Least
    <3>2. m \in 1..Len(r)
      BY <2>2
    <3>3. m + 1 \in Handlers(s) /\ \A j \in Handlers(s) : m + 1 <= j
      <4>1. ASSUME NEW j \in Handlers(s) PROVE m + 1 <= j
        <5>1. m <= j - 1 /\ j \in Nat
          BY <1>0, <1>1, <2>2, <2>3, <3>1
        <5> QED  BY <3>2, <5>1
      <4> QED  BY <2>1, <3>2, <4>1
    <3>4. (CHOOSE i \in Handlers(r) : \A j \in Handlers(r) : i <= j) = m
      <4>1. \A i \in 1..Len(r) : i <= m /\ m <= i => i = m
        BY <3>2
      <4> QED  BY <2>2, <3>1, <3>2, <4>1
    <3>5. (CHOOSE i \in Handlers(s) : \A j \in Handlers(s) : i <= j) = m + 1
      <4>1. \A i \in 1..Len(s) : i <= m + 1 /\ m + 1 <= i => i = m + 1
        BY <3>2
      <4> QED  BY <2>2, <3>3, <3>2, <4>1
    <3>6. Unwound(r) = SubSeq(r, m, Len(r)) /\ Unwound(s) = SubSeq(s, m + 1, Len(s))
      BY <2>5, <3>3, <3>4, <3>5 DEF Unwound
    <3>7. SubSeq(s, m + 1, Len(s)) = SubSeq(r, m, Len(r))
      <4> DEFINE u == SubSeq(s, m + 1, Len(s))
                 v == SubSeq(r, m, Len(r))
      <4>1. /\ m + 1 \in Int /\ Len(s) \in Int /\ m + 1 <= Len(s)
            /\ \A j \in m + 1 .. Len(s) : j \in DOMAIN s /\ s[j] \in S
        BY <1>0, <1>1, <3>2
      <4>2. u \in Seq(S) /\ Len(u) = Len(s) - (m + 1) + 1 /\ \A j \in 1..Len(u) : u[j] = s[(m + 1) + j - 1]
        BY <4>1, SubSeqProperties
      <4>3. v \in Seq(S) /\ Len(v) = Len(r) - m + 1 /\ \A j \in 1..Len(v) : v[j] = r[m + j - 1]
        <5>1. m \in Int /\ Len(r) \in Int /\ m <= Len(r) /\ \A j \in m .. Len(r) : j \in DOMAIN r /\ r[j] \in S
          BY <1>0, <1>1, <3>2
        <5> QED  BY <5>1, SubSeqProperties
      <4> HIDE DEF u, v
      <4>4. Len(u) = Len(v)
        BY <1>0, <1>1, <3>2, <4>2, <4>3
      <4>5. ASSUME NEW j \in 1..Len(u) PROVE u[j] = v[j]
        <5>1. m + j - 1 \in 1..Len(r) /\ (m + 1) + j - 1 = (m + j - 1) + 1
          BY <1>0, <1>1, <3>2, <4>2, <4>5
        <5> QED  BY <1>0, <1>1, <4>2, <4>3, <4>4, <4>5, <5>1
      <4> QED  BY <4>2, <4>3, <4>4, <4>5, SeqEqual DEF u, v
    <3> QED  BY <3>6, <3>7
  <2> QED  BY <2>4, <2>5
<1> QED  BY <1>2, <1>3, <1>4 DEF s

(* The tasks of the user's stack.                                          *)
LEMMA PartTasks ==
  /\ \A t \in Types : Task(t) \in TaskSet /\ Task(t).t = t
  /\ \A t \in Types, i \in Nat : On(t, i) \in TaskSet /\ On(t, i).t = t /\ On(t, i).i = i
  /\ \A t \in Types, k \in Kinds, p \in Names :
       LET x == Command(t, k, p) IN x \in TaskSet /\ x.t = t /\ x.kind = k /\ x.prog = p
  /\ \A p \in Names : /\ New(p) \in TaskSet /\ New(p).t = "make" /\ New(p).prog = p
                      /\ Wish(p) \in TaskSet /\ Wish(p).t = "want" /\ Wish(p).prog = p
                      /\ Exit(p) \in TaskSet /\ Exit(p).t = "exit" /\ Exit(p).prog = p
                      /\ Again(p) \in TaskSet /\ Again(p).t = "restart" /\ Again(p).prog = p
<1>1. ASSUME NEW t \in Types, NEW i \in Nat
      PROVE  /\ Task(t) = [t |-> t, kind |-> "none", prog |-> "none", i |-> 0]
             /\ On(t, i) = [t |-> t, kind |-> "none", prog |-> "none", i |-> i]
  BY DEF Task, On
<1>2. "none" \in Names /\ "none" \in Kinds /\ {"make", "want", "exit", "restart"} \subseteq Types
  BY DEF Names, Kinds, Types
<1>3. \A t \in Types : Task(t) \in TaskSet /\ Task(t).t = t
  BY <1>1, <1>2 DEF TaskSet
<1>4. \A t \in Types, i \in Nat : On(t, i) \in TaskSet /\ On(t, i).t = t /\ On(t, i).i = i
  BY <1>1, <1>2 DEF TaskSet
<1>5. \A t \in Types, k \in Kinds, p \in Names :
        LET x == Command(t, k, p) IN x \in TaskSet /\ x.t = t /\ x.kind = k /\ x.prog = p
  BY DEF TaskSet, Command
<1>6. ASSUME NEW p \in Names
      PROVE  /\ New(p) \in TaskSet /\ New(p).t = "make" /\ New(p).prog = p
             /\ Wish(p) \in TaskSet /\ Wish(p).t = "want" /\ Wish(p).prog = p
             /\ Exit(p) \in TaskSet /\ Exit(p).t = "exit" /\ Exit(p).prog = p
             /\ Again(p) \in TaskSet /\ Again(p).t = "restart" /\ Again(p).prog = p
  <2>1. New(p) = [t |-> "make", kind |-> "none", prog |-> p, i |-> 0]
    BY DEF New, Task
  <2>2. Wish(p) = [t |-> "want", kind |-> "none", prog |-> p, i |-> 0]
    BY DEF Wish, Task
  <2>3. Exit(p) = [t |-> "exit", kind |-> "none", prog |-> p, i |-> 0]
    BY DEF Exit, Task
  <2>4. Again(p) = [t |-> "restart", kind |-> "none", prog |-> p, i |-> 0]
    BY <2>3 DEF Again
  <2> QED  BY <1>2, <2>1, <2>2, <2>3, <2>4 DEF TaskSet
<1> QED  BY <1>3, <1>4, <1>5, <1>6

LEMMA LeftTop ==
  ASSUME NEW q \in Names, NEW n \in 0..2
  PROVE  LET s == Left(q, n)
         IN /\ s \in Seq(TaskSet) /\ (s = <<>> <=> n = 0) /\ Len(s) = n /\ Unwound(s) = s
            /\ n # 0 => s[n] = Exit(q)
            /\ n = 1 => Head(s) = Exit(q) /\ Tail(s) = Left("none", 0)
            /\ n = 2 => Head(s) = Exit("none") /\ Tail(s) = Left(q, 1)
<1>1. Exit(q) \in TaskSet /\ Exit("none") \in TaskSet /\ Exit(q).t = "exit" /\ Exit("none").t = "exit"
  BY PartTasks DEF Names
<1> DEFINE e == Cons(Exit(q), <<>>)
           d == Cons(Exit("none"), e)
<1>2. <<>> \in Seq(TaskSet) /\ Len(<<>>) = 0
  OBVIOUS
<1>3. e \in Seq(TaskSet) /\ e # <<>> /\ Len(e) = 1 /\ e[1] = Exit(q) /\ Head(e) = Exit(q) /\ Tail(e) = <<>>
  <2>1. /\ e \in Seq(TaskSet) /\ e # <<>> /\ Len(e) = Len(<<>>) + 1 /\ e[1] = Exit(q)
        /\ Head(e) = Exit(q) /\ Tail(e) = <<>>
    BY <1>1, <1>2, Pushed
  <2> QED  BY <1>2, <2>1
<1>4. Unwound(<<>>) = <<>> /\ Unwound(e) = e
  BY <1>1, <1>2, UnwoundPushed
<1> HIDE DEF e
<1>5. d \in Seq(TaskSet) /\ d # <<>> /\ Len(d) = 2 /\ Head(d) = Exit("none") /\ Tail(d) = e /\ d[2] = Exit(q)
  <2>0. Exit("none") \in TaskSet /\ e \in Seq(TaskSet)
    BY <1>1, <1>3
  <2>1. d \in Seq(TaskSet) /\ d # <<>> /\ Len(d) = Len(e) + 1 /\ Head(d) = Exit("none") /\ Tail(d) = e
    BY <2>0, Pushed
  <2>2. \A j \in 1..Len(e) : d[j + 1] = e[j]
    BY <2>0, Pushed
  <2> HIDE DEF d
  <2>3. d[1 + 1] = e[1]
    BY <1>3, <2>2
  <2> QED  BY <1>3, <2>1, <2>3
<1>6. Unwound(d) = d
  BY <1>1, <1>3, UnwoundPushed
<1> HIDE DEF d
<1>7. Left(q, 1) = e /\ Left(q, 2) = d /\ Left(q, 0) = <<>> /\ Left("none", 0) = <<>>
  BY DEF Left, d, e
<1>8. n = 0 \/ n = 1 \/ n = 2
  OBVIOUS
<1>9. CASE n = 0
  <2>1. Left(q, n) = <<>> /\ n # 1 /\ n # 2 /\ Len(<<>>) = 0
    BY <1>7, <1>9
  <2> QED  BY <1>2, <1>4, <1>9, <2>1
<1>10. CASE n = 1
  <2>1. Left(q, n) = e /\ n # 0 /\ n # 2
    BY <1>7, <1>10
  <2> QED  BY <1>3, <1>4, <1>7, <1>10, <2>1
<1>11. CASE n = 2
  BY <1>5, <1>6, <1>7, <1>11
<1> QED  BY <1>8, <1>9, <1>10, <1>11

(* A task x on top of others, which an exception passes over.              *)
Onto(s, x, r) == /\ s \in Seq(TaskSet) /\ s # <<>> /\ Head(s) = x /\ Tail(s) = r
                 /\ Unwound(s) = Unwound(r) /\ Unwound(Tail(s)) = Unwound(r)

LEMMA OnTop ==
  ASSUME NEW x \in TaskSet, x.t \notin {"exit", "loop"}, NEW r \in Seq(TaskSet)
  PROVE  Onto(Cons(x, r), x, r)
<1> DEFINE s == Cons(x, r)
<1>1. s \in Seq(TaskSet) /\ s # <<>> /\ Head(s) = x /\ Tail(s) = r
  BY Pushed
<1>2. Unwound(s) = Unwound(r)
  BY UnwoundPushed
<1> HIDE DEF s
<1>3. Unwound(Tail(s)) = Unwound(r)
  BY <1>1
<1> QED  BY <1>1, <1>2, <1>3 DEF s, Onto

(* What is at the head of a stop, and what follows.                        *)
LEMMA StopTop ==
  ASSUME NEW a \in Stops, NEW c \in Nat, NEW R \in Seq(TaskSet)
  PROVE  LET s == StopOn(a, c, R)
         IN /\ s \in Seq(TaskSet) /\ Unwound(s) = Unwound(R)
            /\ a # "none" => Unwound(Tail(s)) = Unwound(R) /\ s # <<>>
            /\ StopOn("none", c, R) = R
            /\ a \in {"read", "forget"} => Onto(s, Task(a), R)
            /\ a \in {"grab", "join", "joinNone"} => Onto(s, On(a, c), R)
            /\ a = "release" => Onto(s, On("release", c), StopOn("join", c, R))
            /\ a = "releaseNone" => Onto(s, On("release", c), StopOn("joinNone", c, R))
<1> DEFINE s == StopOn(a, c, R)
           Joining == StopOn("join", c, R)
           Failing == StopOn("joinNone", c, R)
<1>0. {"read", "forget", "grab", "join", "joinNone", "release"} \subseteq Types \ {"exit", "loop"}
  BY DEF Types
<1>1. /\ \A t \in {"read", "forget"} : Task(t) \in TaskSet /\ Task(t).t \notin {"exit", "loop"}
      /\ \A t \in {"grab", "join", "joinNone", "release"} : On(t, c) \in TaskSet /\ On(t, c).t \notin {"exit", "loop"}
  BY <1>0, PartTasks
<1>2. Joining = Cons(On("join", c), R) /\ Failing = Cons(On("joinNone", c), R) /\ StopOn("none", c, R) = R
  BY DEF StopOn
<1>3. /\ a \in {"read", "forget"} => s = Cons(Task(a), R)
      /\ a \in {"grab", "join", "joinNone"} => s = Cons(On(a, c), R)
      /\ a = "release" => s = Cons(On("release", c), Joining)
      /\ a = "releaseNone" => s = Cons(On("release", c), Failing)
      /\ a = "none" => s = R
  BY DEF StopOn
<1> HIDE DEF s, Joining, Failing
<1>4. Onto(Joining, On("join", c), R) /\ Onto(Failing, On("joinNone", c), R)
  BY <1>1, <1>2, OnTop
<1>5. /\ Joining \in Seq(TaskSet) /\ Unwound(Joining) = Unwound(R)
      /\ Failing \in Seq(TaskSet) /\ Unwound(Failing) = Unwound(R)
  BY <1>4 DEF Onto
<1>6. a \in {"read", "forget"} => Onto(s, Task(a), R)
  BY <1>1, <1>3, OnTop
<1>7. a \in {"grab", "join", "joinNone"} => Onto(s, On(a, c), R)
  BY <1>1, <1>3, OnTop
<1>8. a = "release" => Onto(s, On("release", c), Joining)
  BY <1>1, <1>3, <1>5, OnTop
<1>9. a = "releaseNone" => Onto(s, On("release", c), Failing)
  BY <1>1, <1>3, <1>5, OnTop
<1>10. /\ s \in Seq(TaskSet) /\ Unwound(s) = Unwound(R)
       /\ a # "none" => Unwound(Tail(s)) = Unwound(R) /\ s # <<>>
  <2>1. a = "none" \/ a \in {"read", "forget"} \/ a \in {"grab", "join", "joinNone"} \/ a = "release" \/ a = "releaseNone"
    BY DEF Stops
  <2> QED  BY <1>3, <1>5, <1>6, <1>7, <1>8, <1>9, <2>1 DEF Onto
<1> QED  BY <1>2, <1>6, <1>7, <1>8, <1>9, <1>10 DEF s, Joining, Failing

(* What is at the head of an instruction, and what follows.                *)
LEMMA BlockTop ==
  ASSUME NEW b \in Blocks, NEW k \in Kinds, NEW p \in Names, NEW i \in Nat, NEW R \in Seq(TaskSet)
  PROVE  LET s     == BlockOn(b, k, p, i, R)
             At(d) == BlockOn(d, k, p, i, R)
             Ended == StopOn("read", 0, At("stopped"))
         IN /\ s \in Seq(TaskSet) /\ Unwound(s) = Unwound(R)
            /\ b # "none" => Unwound(Tail(s)) = Unwound(R) /\ s # <<>>
            /\ BlockOn("none", k, p, i, R) = R
            /\ b \in Commanding => Onto(s, Command(b, k, p), R)
            /\ b \in {"work", "raise", "reraise"} => Onto(s, Task(b), R)
            /\ b = "start" => Onto(s, New(p), At("launch"))
            /\ b = "launch" => Onto(s, Task("launch"), At("started"))
            /\ b = "started" => Onto(s, Wish(p), R)
            /\ b = "count" => Onto(s, Task("count"), Ended)
            /\ b = "drop" => Onto(s, On("drop", i), Ended)
            /\ b = "stopped" => Onto(s, Task("want"), R)
            /\ b = "restart" => Onto(s, Again(p), R)
            /\ b = "again" => Onto(s, New(p), At("relaunch"))
            /\ b = "relaunch" => Onto(s, Task("launch"), At("reraise"))
<1> DEFINE s == BlockOn(b, k, p, i, R)
           Started    == BlockOn("started", k, p, i, R)
           Launched   == BlockOn("launch", k, p, i, R)
           Ending0    == BlockOn("stopped", k, p, i, R)
           Ending     == StopOn("read", 0, Ending0)
           Raised     == BlockOn("reraise", k, p, i, R)
           Relaunched == BlockOn("relaunch", k, p, i, R)
<1>0. /\ {"work", "raise", "reraise", "launch", "count", "want", "read", "make", "restart", "drop"} \subseteq Types \ {"exit", "loop"}
      /\ Commanding \subseteq Types \ {"exit", "loop"}
  BY DEF Types, Commanding
<1>1. /\ \A t \in {"work", "raise", "reraise", "launch", "count", "want", "read"} :
           Task(t) \in TaskSet /\ Task(t).t \notin {"exit", "loop"}
      /\ \A t \in Commanding : Command(t, k, p) \in TaskSet /\ Command(t, k, p).t \notin {"exit", "loop"}
      /\ On("drop", i) \in TaskSet /\ On("drop", i).t \notin {"exit", "loop"}
      /\ New(p) \in TaskSet /\ New(p).t \notin {"exit", "loop"}
      /\ Wish(p) \in TaskSet /\ Wish(p).t \notin {"exit", "loop"}
      /\ Again(p) \in TaskSet /\ Again(p).t \notin {"exit", "loop"}
  BY <1>0, PartTasks
<1>2. /\ Started = Cons(Wish(p), R) /\ Launched = Cons(Task("launch"), Started)
      /\ Ending0 = Cons(Task("want"), R) /\ Ending = Cons(Task("read"), Ending0)
      /\ Raised = Cons(Task("reraise"), R) /\ Relaunched = Cons(Task("launch"), Raised)
  BY DEF BlockOn, StopOn, Commanding
<1>3. /\ b = "none" => s = R
      /\ b \in Commanding => s = Cons(Command(b, k, p), R)
      /\ b \in {"work", "raise", "reraise"} => s = Cons(Task(b), R)
      /\ b = "start" => s = Cons(New(p), Launched)
      /\ b = "launch" => s = Cons(Task("launch"), Started)
      /\ b = "started" => s = Cons(Wish(p), R)
      /\ b = "count" => s = Cons(Task("count"), Ending)
      /\ b = "drop" => s = Cons(On("drop", i), Ending)
      /\ b = "stopped" => s = Cons(Task("want"), R)
      /\ b = "restart" => s = Cons(Again(p), R)
      /\ b = "again" => s = Cons(New(p), Relaunched)
      /\ b = "relaunch" => s = Cons(Task("launch"), Raised)
      /\ BlockOn("none", k, p, i, R) = R
  BY DEF BlockOn, StopOn, Commanding
<1> HIDE DEF s, Started, Launched, Ending0, Ending, Raised, Relaunched
<1>4. Onto(Started, Wish(p), R) /\ Onto(Ending0, Task("want"), R) /\ Onto(Raised, Task("reraise"), R)
  BY <1>1, <1>2, OnTop
<1>5. /\ Started \in Seq(TaskSet) /\ Unwound(Started) = Unwound(R)
      /\ Ending0 \in Seq(TaskSet) /\ Unwound(Ending0) = Unwound(R)
      /\ Raised \in Seq(TaskSet) /\ Unwound(Raised) = Unwound(R)
  BY <1>4 DEF Onto
<1>6. /\ Onto(Launched, Task("launch"), Started) /\ Onto(Ending, Task("read"), Ending0)
      /\ Onto(Relaunched, Task("launch"), Raised)
  BY <1>1, <1>2, <1>5, OnTop
<1>7. /\ Launched \in Seq(TaskSet) /\ Unwound(Launched) = Unwound(R)
      /\ Ending \in Seq(TaskSet) /\ Unwound(Ending) = Unwound(R)
      /\ Relaunched \in Seq(TaskSet) /\ Unwound(Relaunched) = Unwound(R)
  BY <1>5, <1>6 DEF Onto
<1>8. b \in Commanding => Onto(s, Command(b, k, p), R)
  BY <1>1, <1>3, <1>5, <1>7, OnTop
<1>9. b \in {"work", "raise", "reraise"} => Onto(s, Task(b), R)
  BY <1>1, <1>3, <1>5, <1>7, OnTop
<1>10. b = "start" => Onto(s, New(p), Launched)
  BY <1>1, <1>3, <1>5, <1>7, OnTop
<1>11. b = "launch" => Onto(s, Task("launch"), Started)
  BY <1>1, <1>3, <1>5, <1>7, OnTop
<1>12. b = "started" => Onto(s, Wish(p), R)
  BY <1>1, <1>3, <1>5, <1>7, OnTop
<1>13. b = "count" => Onto(s, Task("count"), Ending)
  BY <1>1, <1>3, <1>5, <1>7, OnTop
<1>14. b = "drop" => Onto(s, On("drop", i), Ending)
  BY <1>1, <1>3, <1>5, <1>7, OnTop
<1>15. b = "stopped" => Onto(s, Task("want"), R)
  BY <1>1, <1>3, <1>5, <1>7, OnTop
<1>16. b = "restart" => Onto(s, Again(p), R)
  BY <1>1, <1>3, <1>5, <1>7, OnTop
<1>17. b = "again" => Onto(s, New(p), Relaunched)
  BY <1>1, <1>3, <1>5, <1>7, OnTop
<1>18. b = "relaunch" => Onto(s, Task("launch"), Raised)
  BY <1>1, <1>3, <1>5, <1>7, OnTop
<1>19. /\ s \in Seq(TaskSet) /\ Unwound(s) = Unwound(R)
       /\ b # "none" => Unwound(Tail(s)) = Unwound(R) /\ s # <<>>
  <2>1. \/ b = "none" \/ b \in Commanding \/ b \in {"work", "raise", "reraise"} \/ b = "start" \/ b = "launch"
        \/ b = "started" \/ b = "count" \/ b = "drop" \/ b = "stopped" \/ b = "restart" \/ b = "again"
        \/ b = "relaunch"
    BY DEF Blocks
  <2> QED  BY <1>3, <1>5, <1>7, <1>8, <1>9, <1>10, <1>11, <1>12, <1>13, <1>14, <1>15, <1>16, <1>17, <1>18, <2>1 DEF Onto
<1> QED  BY <1>3, <1>8, <1>9, <1>10, <1>11, <1>12, <1>13, <1>14, <1>15, <1>16, <1>17, <1>18, <1>19 DEF s, Started, Launched, Ending0, Ending, Raised, Relaunched

(* Which stops, instructions and exits there are together.  An instruction *)
(* of the user is in one pauser, and a command of its program in two.      *)
Outer == {<<k, "none">> : k \in {"assume", "stop", "status"}} \cup {<<"list", "outer">>}
         \cup {<<"infer", p>> : p \in Programs} \cup {<<k, p>> : k \in {"loop", "start"}, p \in Programs}
Inner == {<<k, "none">> : k \in {"assume", "stop", "list"}}
Shaped(a, b, k, p, q, n) ==
  /\ a # "none" => b \in {"pause", "start", "stopped", "again"}
  /\ n = 0 => q = "none" /\ b \in Commanding \cup {"none", "restart", "again", "relaunch", "reraise"}
  /\ n = 2 => b \in {"none", "work", "raise", "count", "drop", "stopped", "restart", "reraise"}
  /\ b \in {"again", "relaunch"} => n = 0
  /\ b \in {"start", "launch", "started"} => n = 1 /\ p \in Programs
  /\ b \in Commanding => <<k, p>> \in IF n = 0 THEN Outer ELSE Inner
  /\ b = "enter" => k \in Unpaused
  /\ b = "pause" => k \notin Unpaused
  /\ b = "restart" /\ n > 0 => p = "none"
  /\ b = "stopped" => q = "none"

(* Where the engine's loop stands, as far as the instruction knows.        *)
Standing(a, b, p, n) ==
  /\ n = 2 \/ (n = 1 /\ b \in Commanding) => current = 0 /\ a \in {"none", "read"}
  /\ a = "none" /\ b \in {"pause", "start", "stopped", "again"} => current = 0
  /\ a \notin {"none", "read"} => current # 0
  /\ a \in {"join", "joinNone", "releaseNone", "forget"} => ~handle[current]
  /\ b \in {"launch", "started"} => current # 0 /\ program[current] = p /\ (p # "endloop" => handle[current])
  /\ b = "again" => wanted # "none" /\ (current = 0 \/ wanted \notin Promised)
  /\ b = "pause" /\ n = 1 /\ a = "none" => ret[User] = "none"

(* What is paused is in reach of a search down the stack of pausers.       *)
Pausing(b, i, q, n) ==
  q # "none" => /\ current # 0 => b \in {"launch", "started", "none"} /\ n = 1
                /\ current = 0 => stack # <<>> /\ stack[1] = <<User, 1>>
                /\ b = "drop" => i > 0

(* The loop that is wanted is running, or is being stopped, or paused, or  *)
(* about to be started again or replaced; if none is, nothing starts one.  *)
Good == current # 0 /\ program[current] = wanted /\ handle[current] /\ ~crashed[current]
Wanting(a, b, p, q) ==
  /\ wanted \in Promised =>
       \/ Good
       \/ a = "join" /\ program[current] = wanted /\ ~crashed[current]
       \/ a = "forget" /\ ret[User] = wanted
       \/ a = "none" /\ b = "pause" /\ ret[User] = wanted
       \/ current = 0 /\ q = wanted
       \/ current = 0 /\ b \in {"restart", "again"} /\ p = wanted
       \/ current = 0 /\ b \in {"start", "stopped"}
       \/ a = "forget" /\ b \in {"start", "stopped"}
       \/ b \in {"launch", "started"}
  /\ wanted = "none" =>
       /\ q = "none" /\ (b = "restart" => p = "none") /\ b \notin {"again", "relaunch"}
       /\ b = "pause" /\ a = "none" => ret[User] = "none"
       /\ current = 0 \/ b \in {"launch", "started"}

Fine(a, b, k, p, i, q, n) ==
  /\ todo[User] = StopOn(a, current, BlockOn(b, k, p, i, Left(q, n)))
  /\ Shaped(a, b, k, p, q, n) /\ Standing(a, b, p, n) /\ Pausing(b, i, q, n) /\ Wanting(a, b, p, q)
Planned == \E a \in Stops, b \in Blocks, k \in Kinds, p \in Names, i \in Nat, q \in Names, n \in 0..2 :
             Fine(a, b, k, p, i, q, n)

(* What the user's next task is a part of.                                 *)
LEMMA UserHead ==
  ASSUME IInv, NEW a \in Stops, NEW b \in Blocks, NEW k \in Kinds, NEW p \in Names, NEW i \in Nat,
         NEW q \in Names, NEW n \in 0..2, Fine(a, b, k, p, i, q, n),
         NEW t, Running(User, t)
  PROVE  /\ t \in {"read", "grab", "join", "joinNone", "forget"} => a = t
         /\ t = "release" => a \in {"release", "releaseNone"}
         /\ t \notin Stopping => a = "none"
         /\ t = "make" => b \in {"start", "again"}
         /\ t = "launch" => b \in {"launch", "relaunch"}
         /\ t = "want" => b \in {"started", "stopped"}
         /\ t \in Commanding \cup {"work", "raise", "reraise", "count", "drop", "restart"} => b = t
         /\ t = "exit" => b = "none" /\ n # 0
         /\ t # "exit" => a # "none" \/ b # "none"
<1> DEFINE R == BlockOn(b, k, p, i, Left(q, n))
           s == StopOn(a, current, R)
<1>1. current \in Nat
  BY Numbers
<1>2. Left(q, n) \in Seq(TaskSet) /\ (n = 0 => Left(q, n) = <<>>)
      /\ (n = 1 => Head(Left(q, n)) = Exit(q)) /\ (n = 2 => Head(Left(q, n)) = Exit("none"))
  BY LeftTop
<1>3. R \in Seq(TaskSet)
  BY <1>2, BlockTop
<1>4. s # <<>> /\ Head(s).t = t
  BY DEF Fine, Running, Top
<1>5. \A u \in Types, j \in Nat : Task(u).t = u /\ On(u, j).t = u
  BY PartTasks
<1>6. CASE a # "none"
  <2>1. t = IF a = "releaseNone" THEN "release" ELSE a
    <3> HIDE DEF R
    <3>1. /\ a \in {"read", "forget"} => Head(s) = Task(a)
          /\ a \in {"grab", "join", "joinNone"} => Head(s) = On(a, current)
          /\ a \in {"release", "releaseNone"} => Head(s) = On("release", current)
      BY <1>1, <1>3, StopTop DEF Onto
    <3> HIDE DEF s
    <3>2. Stops \ {"none", "releaseNone"} \subseteq Types /\ "release" \in Types
      BY DEF Stops, Types
    <3>3. a \in {"read", "forget", "grab", "join", "joinNone", "release", "releaseNone"}
      BY <1>6 DEF Stops
    <3>4. a \in {"read", "forget"} => Head(s).t = a
      BY <1>1, <1>5, <3>1, <3>2
    <3>5. a \in {"grab", "join", "joinNone"} => Head(s).t = a
      BY <1>1, <1>5, <3>1, <3>2
    <3>6. a \in {"release", "releaseNone"} => Head(s).t = "release"
      BY <1>1, <1>5, <3>1, <3>2
    <3> QED  BY <1>4, <3>3, <3>4, <3>5, <3>6
  <2> QED  BY <1>6, <2>1 DEF Stops, Stopping, Commanding
<1>7. CASE a = "none" /\ b # "none"
  <2>1. s = R
    BY <1>1, <1>3, <1>7, StopTop
  <2>2. /\ b \in Commanding => Head(R) = Command(b, k, p)
        /\ b \in {"work", "raise", "reraise"} => Head(R) = Task(b)
        /\ b \in {"launch", "relaunch"} => Head(R) = Task("launch")
        /\ b \in {"start", "again"} => Head(R) = New(p)
        /\ b = "started" => Head(R) = Wish(p)
        /\ b = "stopped" => Head(R) = Task("want")
        /\ b = "count" => Head(R) = Task("count")
        /\ b = "drop" => Head(R) = On("drop", i)
        /\ b = "restart" => Head(R) = Again(p)
    BY <1>2, BlockTop DEF Onto
  <2> HIDE DEF s, R
  <2>3. /\ \A u \in Commanding : Command(u, k, p).t = u
        /\ New(p).t = "make" /\ Wish(p).t = "want" /\ Again(p).t = "restart"
    BY PartTasks DEF Commanding, Types
  <2>4. {"work", "raise", "reraise", "launch", "want", "count", "drop"} \subseteq Types
    BY DEF Types
  <2>5. /\ b \in Commanding => t = b
        /\ b \in {"work", "raise", "reraise"} => t = b
        /\ b \in {"launch", "relaunch"} => t = "launch"
        /\ b \in {"start", "again"} => t = "make"
        /\ b \in {"started", "stopped"} => t = "want"
        /\ b \in {"count", "drop", "restart"} => t = b
    BY <1>4, <1>5, <2>1, <2>2, <2>3, <2>4
  <2> QED  BY <1>7, <2>5 DEF Blocks, Stopping, Commanding
<1>8. CASE a = "none" /\ b = "none"
  <2>1. s = R
    BY <1>1, <1>3, <1>8, StopTop
  <2>2. R = Left(q, n)
    BY <1>2, <1>8, BlockTop
  <2> HIDE DEF s, R
  <2>3. Exit(q).t = "exit" /\ Exit("none").t = "exit"
    BY PartTasks DEF Names
  <2>4. n # 0 /\ t = "exit"
    BY <1>2, <1>4, <2>1, <2>2, <2>3
  <2> QED  BY <1>8, <2>4 DEF Stopping, Commanding
<1> QED  BY <1>6, <1>7, <1>8

(* Tasks put in place of the head.                                         *)
LEMMA Prefixed ==
  ASSUME NEW r \in Seq(TaskSet)
  PROVE  /\ <<>> \o r = r
         /\ \A x \in TaskSet : <<x>> \o r = Cons(x, r)
         /\ \A x, y \in TaskSet : <<x, y>> \o r = Cons(x, Cons(y, r))
         /\ \A s \in Seq(TaskSet), x \in TaskSet : Cons(x, s) \o r = Cons(x, s \o r)
         /\ \A x \in TaskSet : <<x>> = Cons(x, <<>>)
         /\ \A x, y \in TaskSet : <<x, y>> = Cons(x, <<y>>)
<1>1. <<>> \o r = r
  OBVIOUS
<1>2. \A x \in TaskSet : <<x>> \o r = Cons(x, r) /\ <<x>> = Cons(x, <<>>)
  BY DEF Cons
<1>3. ASSUME NEW x \in TaskSet, NEW s \in Seq(TaskSet) PROVE Cons(x, s) \o r = Cons(x, s \o r)
  <2>1. <<x>> \in Seq(TaskSet)
    OBVIOUS
  <2>2. (<<x>> \o s) \o r = <<x>> \o (s \o r)
    BY <2>1, ConcatAssociative
  <2> QED  BY <2>2 DEF Cons
<1>4. ASSUME NEW x \in TaskSet, NEW y \in TaskSet PROVE <<x, y>> = Cons(x, <<y>>)
  <2> DEFINE z == <<y>>
             s == Cons(x, z)
             u == <<x, y>>
  <2>0. z \in Seq(TaskSet)
    OBVIOUS
  <2>1. Len(z) = 1 /\ z[1] = y
    OBVIOUS
  <2> HIDE DEF z
  <2>2. s \in Seq(TaskSet) /\ Len(s) = Len(z) + 1 /\ s[1] = x
    BY <2>0, Pushed
  <2>3. \A j \in 1..Len(z) : s[j + 1] = z[j]
    BY <2>0, Pushed
  <2>4. u \in Seq(TaskSet) /\ Len(u) = 2 /\ u[1] = x /\ u[2] = y
    OBVIOUS
  <2> HIDE DEF s, u
  <2>5. Len(s) = 2 /\ s[1 + 1] = y
    BY <2>1, <2>2, <2>3
  <2>6. s[1] = u[1] /\ s[2] = u[2] /\ Len(s) = Len(u)
    <3>1. s[2] = y
      BY <2>5
    <3> QED  BY <2>2, <2>4, <2>5, <3>1
  <2>7. \A j \in 1..Len(s) : j = 1 \/ j = 2
    BY <2>5
  <2>8. s = u
    BY <2>2, <2>4, <2>6, <2>7, SeqEqual
  <2> QED  BY <2>8 DEF s, u, z
<1>5. ASSUME NEW x \in TaskSet, NEW y \in TaskSet PROVE <<x, y>> \o r = Cons(x, Cons(y, r))
  <2>1. <<y>> \in Seq(TaskSet)
    OBVIOUS
  <2>2. Cons(x, <<y>>) \o r = Cons(x, <<y>> \o r) /\ <<y>> \o r = Cons(y, r)
    BY <1>2, <1>3, <2>1
  <2> QED  BY <1>4, <2>2
<1> QED  BY <1>1, <1>2, <1>3, <1>4, <1>5

LEMMA UserThen ==
  ASSUME IInv
  PROVE  /\ \A s : todo' = [todo EXCEPT ![User] = s] => todo'[User] = s
         /\ \A s : Then(User, s) => todo'[User] = s \o Tail(todo[User])
         /\ Return(User) => todo'[User] = <<>> \o Tail(todo[User])
         /\ \A e : Raise(User, e) => todo'[User] = Unwound(Tail(todo[User]))
<1>1. User \in DOMAIN todo
  BY Roles DEF IInv, Plain
<1> QED  BY <1>1 DEF Then, Return, Raise

(* Parts of the user's stack.                                              *)
LEMMA UserRest ==
  ASSUME IInv, NEW a \in Stops, NEW b \in Blocks, NEW k \in Kinds, NEW p \in Names, NEW i \in Nat,
         NEW q \in Names, NEW n \in 0..2, Fine(a, b, k, p, i, q, n)
  PROVE  LET L == Left(q, n)
             R == BlockOn(b, k, p, i, L)
         IN /\ current \in Nat /\ L \in Seq(TaskSet) /\ R \in Seq(TaskSet)
            /\ todo[User] = StopOn(a, current, R)
            /\ a = "none" => todo[User] = R
            /\ a # "none" \/ b # "none" => Unwound(Tail(todo[User])) = L
            /\ a = "none" /\ b = "none" => todo[User] = L
<1> DEFINE L == Left(q, n)
           R == BlockOn(b, k, p, i, L)
           U == todo[User]
<1>1. current \in Nat /\ L \in Seq(TaskSet) /\ Unwound(L) = L
  BY Numbers, LeftTop
<1> HIDE DEF L
<1>2. R \in Seq(TaskSet) /\ Unwound(R) = L /\ (b # "none" => Unwound(Tail(R)) = L) /\ (b = "none" => R = L)
  <2>1. R \in Seq(TaskSet) /\ Unwound(R) = Unwound(L)
    BY <1>1, BlockTop
  <2>2. b # "none" => Unwound(Tail(R)) = Unwound(L)
    BY <1>1, BlockTop
  <2>3. b = "none" => R = L
    BY DEF BlockOn, Commanding
  <2> QED  BY <1>1, <2>1, <2>2, <2>3
<1>3. U = StopOn(a, current, R)
  BY DEF Fine, L
<1> HIDE DEF R
<1>4. (a = "none" => U = R) /\ (a # "none" => Unwound(Tail(U)) = Unwound(R))
  BY <1>1, <1>2, <1>3, StopTop
<1> HIDE DEF U
<1>5. a # "none" \/ b # "none" => Unwound(Tail(U)) = L
  BY <1>2, <1>4
<1>6. a = "none" /\ b = "none" => U = L
  BY <1>2, <1>4
<1> QED  BY <1>1, <1>2, <1>3, <1>4, <1>5, <1>6 DEF U, R, L

(* A step of the user to a stack that is planned.                          *)
LEMMA Replanned ==
  ASSUME NEW a \in Stops, NEW b \in Blocks, NEW k \in Kinds, NEW p \in Names, NEW i \in Nat,
         NEW q \in Names, NEW n \in 0..2, Fine(a, b, k, p, i, q, n)'
  PROVE  Planned'
BY DEF Planned

(* The user's instruction raises.                                          *)
LEMMA RaisePlanned ==
  ASSUME IInv, Planned, NEW e, Raise(User, e), NEW t, Running(User, t), t # "exit",
         UNCHANGED <<stack, current, handle, program, crashed, wanted, ret>>,
         t \in {"joinNone", "reraise", "drop", "work", "raise"}
  PROVE  Planned'
<1>1. PICK a \in Stops, b \in Blocks, k \in Kinds, p \in Names, i \in Nat, q \in Names, n \in 0..2 :
        Fine(a, b, k, p, i, q, n)
  BY DEF Planned
<1>2. /\ a # "none" => a = "joinNone"
      /\ a = "none" => b = t /\ t # "joinNone"
  BY <1>1, UserHead DEF Stopping, Commanding, Stops
<1>3. todo'[User] = Left(q, n) /\ current \in Nat
  BY <1>1, <1>2, UserRest, UserThen
<1>4. todo'[User] = StopOn("none", current', BlockOn("none", k, p, i, Left(q, n)))
  <2>1. Left(q, n) \in Seq(TaskSet) /\ current' \in Nat
    BY <1>3, LeftTop
  <2>2. BlockOn("none", k, p, i, Left(q, n)) = Left(q, n)
    BY <2>1, BlockTop DEF Blocks
  <2>3. StopOn("none", current', Left(q, n)) = Left(q, n)
    BY <2>1, StopTop DEF Stops
  <2> QED  BY <1>3, <2>2, <2>3
<1>5. Shaped("none", "none", k, p, q, n) /\ Pausing("none", i, q, n)'
  BY <1>1, <1>2 DEF Fine, Shaped, Pausing, Standing, Commanding
<1>6. Standing("none", "none", p, n)'
  BY <1>1, <1>2 DEF Fine, Shaped, Standing, Commanding
<1>7. Wanting("none", "none", p, q)'
  BY <1>1, <1>2 DEF Fine, Shaped, Standing, Wanting, Good
<1>8. Fine("none", "none", k, p, i, q, n)'
  BY <1>4, <1>5, <1>6, <1>7 DEF Fine
<1> QED  BY <1>8, Replanned DEF Stops, Blocks

(* The steps of a stop.                                                    *)
LEMMA ReadPlanned ==
  ASSUME IInv, Planned, ReadCurrent(User)
  PROVE  Planned'
<1>1. PICK a \in Stops, b \in Blocks, k \in Kinds, p \in Names, i \in Nat, q \in Names, n \in 0..2 :
        Fine(a, b, k, p, i, q, n)
  BY DEF Planned
<1> DEFINE R == BlockOn(b, k, p, i, Left(q, n))
<1> PICK d : d = IF current = 0 THEN "none" ELSE "grab"
  OBVIOUS
<1>2. a = "read"
  BY <1>1, UserHead DEF ReadCurrent
<1>3. current \in Nat /\ R \in Seq(TaskSet) /\ todo[User] = StopOn("read", current, R)
  BY <1>1, <1>2, UserRest
<1>4. todo'[User] = (IF current = 0 THEN <<>> ELSE <<On("grab", current)>>) \o Tail(todo[User])
  BY UserThen DEF ReadCurrent
<1>5. current' = current /\ ret'[User] = "none" /\ stack' = stack
      /\ handle' = handle /\ program' = program /\ crashed' = crashed /\ wanted' = wanted
  <2>1. ret \in [Thread -> Names]
    BY DEF IInv, Plain
  <2> QED  BY <2>1, Roles DEF ReadCurrent, loopVars
<1> HIDE DEF R
<1>6. Tail(todo[User]) = R
  BY <1>3, StopTop DEF Stops, Onto
<1>7. todo'[User] = StopOn(d, current', R)
  <2>1. On("grab", current) \in TaskSet
    BY <1>3, PartTasks DEF Types
  <2>2. <<>> \o R = R /\ <<On("grab", current)>> \o R = Cons(On("grab", current), R)
    BY <1>3, <2>1, Prefixed
  <2> QED  BY <1>4, <1>5, <1>6, <2>2 DEF StopOn
<1>8. Shaped(d, b, k, p, q, n) /\ Pausing(b, i, q, n)'
  BY <1>1, <1>2, <1>5 DEF Fine, Shaped, Pausing
<1>9. Standing(d, b, p, n)'
  BY <1>1, <1>2, <1>5 DEF Fine, Shaped, Standing
<1>10. Wanting(d, b, p, q)'
  BY <1>1, <1>2, <1>5 DEF Fine, Shaped, Standing, Wanting, Good, Promised
<1>11. Fine(d, b, k, p, i, q, n)'
  BY <1>7, <1>8, <1>9, <1>10 DEF Fine, R
<1> QED  BY <1>11, Replanned DEF Stops

LEMMA GrabPlanned ==
  ASSUME IInv, Planned, GrabHandle(User)
  PROVE  Planned'
<1>1. PICK a \in Stops, b \in Blocks, k \in Kinds, p \in Names, i \in Nat, q \in Names, n \in 0..2 :
        Fine(a, b, k, p, i, q, n)
  BY DEF Planned
<1> DEFINE R == BlockOn(b, k, p, i, Left(q, n))
<1> PICK d, j : \/ handle[current] /\ d = "release" /\ j = "join"
                \/ ~handle[current] /\ d = "releaseNone" /\ j = "joinNone"
  OBVIOUS
<1>2. a = "grab"
  BY <1>1, UserHead DEF GrabHandle
<1>3. current \in Nat /\ R \in Seq(TaskSet) /\ todo[User] = StopOn("grab", current, R)
  BY <1>1, <1>2, UserRest
<1>4. current' = current /\ ret' = ret /\ stack' = stack
      /\ handle' = handle /\ program' = program /\ crashed' = crashed /\ wanted' = wanted
  BY DEF GrabHandle, loopVars
<1> HIDE DEF R
<1>5. Head(todo[User]) = On("grab", current) /\ Tail(todo[User]) = R
  <2>1. "grab" \in Stops
    BY DEF Stops
  <2>2. Onto(todo[User], On("grab", current), R)
    BY <1>3, <2>1, StopTop
  <2> QED  BY <2>2 DEF Onto
<1>6. Top(User).i = current
  BY <1>3, <1>5, PartTasks DEF Top, Types
<1>7. todo'[User] = <<On("release", current), On(j, current)>> \o R
  BY <1>5, <1>6, UserThen DEF GrabHandle
<1>8. todo'[User] = StopOn(d, current', R)
  <2>1. On("release", current) \in TaskSet /\ On(j, current) \in TaskSet
    BY <1>3, PartTasks DEF Types
  <2>2. <<On("release", current), On(j, current)>> \o R = Cons(On("release", current), Cons(On(j, current), R))
    <3>1. \A f, g \in TaskSet : <<f, g>> \o R = Cons(f, Cons(g, R))
      BY <1>3, Prefixed
    <3> QED  BY <2>1, <3>1
  <2>3. StopOn(d, current, R) = Cons(On("release", current), Cons(On(j, current), R))
    BY DEF StopOn
  <2> QED  BY <1>4, <1>7, <2>2, <2>3
<1>9. Shaped(d, b, k, p, q, n) /\ Pausing(b, i, q, n)'
  BY <1>1, <1>2, <1>4 DEF Fine, Shaped, Pausing
<1>10. Standing(d, b, p, n)'
  BY <1>1, <1>2, <1>4 DEF Fine, Shaped, Standing
<1>11. Wanting(d, b, p, q)'
  BY <1>1, <1>2, <1>4 DEF Fine, Shaped, Standing, Wanting, Good, Promised
<1>12. Fine(d, b, k, p, i, q, n)'
  BY <1>8, <1>9, <1>10, <1>11 DEF Fine, R
<1> QED  BY <1>12, Replanned DEF Stops

LEMMA ReleasePlanned ==
  ASSUME IInv, handle \in [Loop -> BOOLEAN], Planned, ReleaseHandle(User)
  PROVE  Planned'
<1>1. PICK a \in Stops, b \in Blocks, k \in Kinds, p \in Names, i \in Nat, q \in Names, n \in 0..2 :
        Fine(a, b, k, p, i, q, n)
  BY DEF Planned
<1> DEFINE R == BlockOn(b, k, p, i, Left(q, n))
           d == IF a = "release" THEN "join" ELSE "joinNone"
<1>2. a \in {"release", "releaseNone"}
  BY <1>1, UserHead DEF ReleaseHandle
<1>3. current \in Nat /\ R \in Seq(TaskSet) /\ todo[User] = StopOn(a, current, R)
  BY <1>1, UserRest
<1>4. current' = current /\ ret' = ret /\ stack' = stack
      /\ program' = program /\ crashed' = crashed /\ wanted' = wanted
  BY DEF ReleaseHandle
<1> HIDE DEF R
<1>5. Head(todo[User]) = On("release", current) /\ Tail(todo[User]) = StopOn(d, current, R)
  BY <1>2, <1>3, StopTop DEF Onto
<1>6. Top(User).i = current
  BY <1>3, <1>5, PartTasks DEF Top, Types
<1>7. ~handle'[current] /\ current # 0
  <2>1. current # 0
    BY <1>1, <1>2 DEF Fine, Standing
  <2>2. current \in Loop
    BY <2>1, Numbers
  <2> QED  BY <1>6, <2>1, <2>2 DEF ReleaseHandle
<1>8. todo'[User] = StopOn(d, current', R)
  <2>1. StopOn(d, current, R) \in Seq(TaskSet)
    BY <1>3, StopTop DEF Stops
  <2>2. <<>> \o StopOn(d, current, R) = StopOn(d, current, R)
    BY <2>1, Prefixed
  <2> QED  BY <1>4, <1>5, <2>2, UserThen DEF ReleaseHandle
<1>9. Shaped(d, b, k, p, q, n) /\ Pausing(b, i, q, n)'
  BY <1>1, <1>2, <1>4 DEF Fine, Shaped, Pausing
<1>10. Standing(d, b, p, n)'
  BY <1>1, <1>2, <1>4, <1>7 DEF Fine, Shaped, Standing
<1>11. Wanting(d, b, p, q)'
  BY <1>1, <1>2, <1>4, <1>7 DEF Fine, Shaped, Standing, Wanting, Good, Promised
<1>12. Fine(d, b, k, p, i, q, n)'
  BY <1>8, <1>9, <1>10, <1>11 DEF Fine, R
<1> QED  BY <1>12, Replanned DEF Stops

LEMMA JoinPlanned ==
  ASSUME IInv, Planned, Join(User)
  PROVE  Planned'
<1>1. PICK a \in Stops, b \in Blocks, k \in Kinds, p \in Names, i \in Nat, q \in Names, n \in 0..2 :
        Fine(a, b, k, p, i, q, n)
  BY DEF Planned
<1> DEFINE R == BlockOn(b, k, p, i, Left(q, n))
<1>2. a = "join"
  BY <1>1, UserHead DEF Join
<1>3. current \in Nat /\ R \in Seq(TaskSet) /\ todo[User] = StopOn("join", current, R)
  BY <1>1, <1>2, UserRest
<1>4. current' = current /\ stack' = stack /\ handle' = handle
      /\ program' = program /\ crashed' = crashed /\ wanted' = wanted
  BY DEF Join, loopVars
<1> HIDE DEF R
<1>5. Head(todo[User]) = On("join", current) /\ Tail(todo[User]) = R
  <2>1. "join" \in Stops
    BY DEF Stops
  <2>2. Onto(todo[User], On("join", current), R)
    BY <1>3, <2>1, StopTop
  <2> QED  BY <2>2 DEF Onto
<1>6. Top(User).i = current
  BY <1>3, <1>5, PartTasks DEF Top, Types
<1>7. ret'[User] = IF crashed[current] THEN "none" ELSE program[current]
  <2>1. ret \in [Thread -> Names]
    BY DEF IInv, Plain
  <2> QED  BY <1>6, <2>1, Roles DEF Join
<1>8. todo'[User] = StopOn("forget", current', R)
  <2>1. Task("forget") \in TaskSet
    BY PartTasks DEF Types
  <2>2. <<Task("forget")>> \o R = Cons(Task("forget"), R)
    BY <1>3, <2>1, Prefixed
  <2> QED  BY <1>4, <1>5, <2>2, UserThen DEF Join, StopOn
<1>9. Shaped("forget", b, k, p, q, n) /\ Pausing(b, i, q, n)'
  BY <1>1, <1>2, <1>4 DEF Fine, Shaped, Pausing
<1>10. Standing("forget", b, p, n)'
  BY <1>1, <1>2, <1>4 DEF Fine, Shaped, Standing
<1>11. Wanting("forget", b, p, q)'
  BY <1>1, <1>2, <1>4, <1>7 DEF Fine, Shaped, Standing, Wanting, Good, Promised
<1>12. Fine("forget", b, k, p, i, q, n)'
  BY <1>8, <1>9, <1>10, <1>11 DEF Fine, R
<1> QED  BY <1>12, Replanned DEF Stops

LEMMA ForgetPlanned ==
  ASSUME IInv, Planned, ForgetLoop(User)
  PROVE  Planned'
<1>1. PICK a \in Stops, b \in Blocks, k \in Kinds, p \in Names, i \in Nat, q \in Names, n \in 0..2 :
        Fine(a, b, k, p, i, q, n)
  BY DEF Planned
<1> DEFINE R == BlockOn(b, k, p, i, Left(q, n))
<1>2. a = "forget"
  BY <1>1, UserHead DEF ForgetLoop
<1>3. current \in Nat /\ R \in Seq(TaskSet) /\ todo[User] = StopOn("forget", current, R)
  BY <1>1, <1>2, UserRest
<1>4. current' = 0 /\ ret' = ret /\ stack' = stack /\ handle' = handle
      /\ program' = program /\ crashed' = crashed /\ wanted' = wanted
  BY DEF ForgetLoop, loopVars
<1> HIDE DEF R
<1>5. Tail(todo[User]) = R
  <2>1. "forget" \in Stops
    BY DEF Stops
  <2>2. Onto(todo[User], Task("forget"), R)
    BY <1>3, <2>1, StopTop
  <2> QED  BY <2>2 DEF Onto
<1>6. todo'[User] = StopOn("none", current', R)
  <2>1. <<>> \o R = R
    BY <1>3, Prefixed
  <2> QED  BY <1>5, <2>1, UserThen DEF ForgetLoop, StopOn
<1>7. Shaped("none", b, k, p, q, n) /\ Pausing(b, i, q, n)'
  BY <1>1, <1>2, <1>4 DEF Fine, Shaped, Standing, Pausing
<1>8. Standing("none", b, p, n)'
  BY <1>1, <1>2, <1>4 DEF Fine, Shaped, Standing, Wanting, Commanding
<1>9. Wanting("none", b, p, q)'
  BY <1>1, <1>2, <1>4 DEF Fine, Shaped, Standing, Wanting, Good, Promised
<1>10. Fine("none", b, k, p, i, q, n)'
  BY <1>6, <1>7, <1>8, <1>9 DEF Fine, R
<1> QED  BY <1>10, Replanned DEF Stops

LEMMA JoinFailsPlanned ==
  ASSUME IInv, Planned, JoinFails(User)
  PROVE  Planned'
<1>1. PICK a \in Stops, b \in Blocks, k \in Kinds, p \in Names, i \in Nat, q \in Names, n \in 0..2 :
        Fine(a, b, k, p, i, q, n)
  BY DEF Planned
<1>2. ~(Running(User, "join") /\ Top(User).i = User)
  <2>1. SUFFICES ASSUME Running(User, "join"), Top(User).i = User PROVE FALSE
    OBVIOUS
  <2>2. a = "join"
    BY <1>1, <2>1, UserHead
  <2> DEFINE R == BlockOn(b, k, p, i, Left(q, n))
  <2>3. current \in Nat /\ R \in Seq(TaskSet) /\ todo[User] = StopOn("join", current, R)
    BY <1>1, <2>2, UserRest
  <2> HIDE DEF R
  <2>4. Head(todo[User]) = On("join", current)
    BY <2>3, StopTop DEF Stops, Onto
  <2>5. Top(User).i = current
    BY <2>3, <2>4, PartTasks DEF Top, Types
  <2>6. current # 0
    BY <1>1, <2>2 DEF Fine, Standing
  <2> QED  BY <2>1, <2>5, <2>6 DEF User
<1>3. Running(User, "joinNone") /\ Raise(User, "None has no attribute join")
  BY <1>2 DEF JoinFails
<1>4. UNCHANGED <<stack, current, handle, program, crashed, wanted, ret>>
  BY DEF JoinFails, loopVars
<1> QED  BY <1>3, <1>4, RaisePlanned

(* No stop is left on the user's stack.                                    *)
LEMMA Bared ==
  ASSUME current' \in Nat, NEW b \in Blocks, NEW k \in Kinds, NEW p \in Names, NEW i \in Nat,
         NEW q \in Names, NEW n \in 0..2, todo'[User] = BlockOn(b, k, p, i, Left(q, n)),
         Shaped("none", b, k, p, q, n), Standing("none", b, p, n)', Pausing(b, i, q, n)',
         Wanting("none", b, p, q)'
  PROVE  Planned'
<1> DEFINE R == BlockOn(b, k, p, i, Left(q, n))
<1>1. R \in Seq(TaskSet)
  BY LeftTop, BlockTop
<1> HIDE DEF R
<1>2. StopOn("none", current', R) = R
  BY <1>1, StopTop DEF Stops
<1>3. Fine("none", b, k, p, i, q, n)'
  BY <1>2 DEF Fine, R
<1> QED  BY <1>3, Replanned DEF Stops

(* What the user's next task is, when no stop is left, and what follows.   *)
LEMMA BareTop ==
  ASSUME IInv, NEW b \in Blocks, NEW k \in Kinds, NEW p \in Names, NEW i \in Nat,
         NEW q \in Names, NEW n \in 0..2, Fine("none", b, k, p, i, q, n)
  PROVE  LET L     == Left(q, n)
             At(d) == BlockOn(d, k, p, i, L)
             Ended == StopOn("read", 0, At("stopped"))
             U     == todo[User]
         IN /\ \A d \in Blocks : At(d) \in Seq(TaskSet)
            /\ L \in Seq(TaskSet) /\ At("none") = L /\ <<>> \o L = L
            /\ b \in Commanding => Top(User) = Command(b, k, p) /\ Tail(U) = L
            /\ b \in {"work", "raise", "reraise"} => Tail(U) = L
            /\ b = "start" => Top(User) = New(p) /\ Tail(U) = At("launch")
            /\ b = "launch" => Tail(U) = At("started")
            /\ b = "started" => Top(User) = Wish(p) /\ Tail(U) = L
            /\ b = "count" => Tail(U) = Ended
            /\ b = "drop" => Top(User) = On("drop", i) /\ Tail(U) = Ended
            /\ b = "stopped" => Top(User) = Task("want") /\ Tail(U) = L
            /\ b = "restart" => Top(User) = Again(p) /\ Tail(U) = L
            /\ b = "again" => Top(User) = New(p) /\ Tail(U) = At("relaunch")
            /\ b = "relaunch" => Tail(U) = At("reraise")
            /\ b = "none" => U = L
<1> DEFINE L == Left(q, n)
<1>1. L \in Seq(TaskSet) /\ todo[User] = BlockOn(b, k, p, i, L)
  BY UserRest DEF Stops
<1> HIDE DEF L
<1>2. \A d \in Blocks : BlockOn(d, k, p, i, L) \in Seq(TaskSet)
  BY <1>1, BlockTop
<1>3. BlockOn("none", k, p, i, L) = L /\ <<>> \o L = L
  <2>1. BlockOn("none", k, p, i, L) = L
    BY DEF BlockOn, Commanding
  <2>2. <<>> \o L = L
    BY <1>1, Prefixed
  <2> QED  BY <2>1, <2>2
<1> DEFINE U == todo[User]
           At(d) == BlockOn(d, k, p, i, L)
           Ended == StopOn("read", 0, At("stopped"))
<1> HIDE DEF U
<1>4. U = At(b)
  BY <1>1 DEF U
<1>5. \A x, r : Onto(U, x, r) => Top(User) = x /\ Tail(U) = r
  BY DEF Onto, Top, U
<1>6. /\ b \in Commanding => Onto(U, Command(b, k, p), L)
      /\ b \in {"work", "raise", "reraise"} => Onto(U, Task(b), L)
  BY <1>1, <1>4, BlockTop
<1>7. /\ b = "start" => Onto(U, New(p), At("launch"))
      /\ b = "launch" => Onto(U, Task("launch"), At("started"))
      /\ b = "started" => Onto(U, Wish(p), L)
  BY <1>1, <1>4, BlockTop
<1>8. /\ b = "count" => Onto(U, Task("count"), Ended)
      /\ b = "drop" => Onto(U, On("drop", i), Ended)
      /\ b = "stopped" => Onto(U, Task("want"), L)
  BY <1>1, <1>4, BlockTop
<1>9. /\ b = "restart" => Onto(U, Again(p), L)
      /\ b = "again" => Onto(U, New(p), At("relaunch"))
      /\ b = "relaunch" => Onto(U, Task("launch"), At("reraise"))
  BY <1>1, <1>4, BlockTop
<1>10. /\ b \in Commanding => Top(User) = Command(b, k, p) /\ Tail(U) = L
       /\ b \in {"work", "raise", "reraise"} => Tail(U) = L
       /\ b = "start" => Top(User) = New(p) /\ Tail(U) = At("launch")
       /\ b = "launch" => Tail(U) = At("started")
       /\ b = "started" => Top(User) = Wish(p) /\ Tail(U) = L
  BY <1>5, <1>6, <1>7
<1>11. /\ b = "count" => Tail(U) = Ended
       /\ b = "drop" => Top(User) = On("drop", i) /\ Tail(U) = Ended
       /\ b = "stopped" => Top(User) = Task("want") /\ Tail(U) = L
       /\ b = "restart" => Top(User) = Again(p) /\ Tail(U) = L
       /\ b = "again" => Top(User) = New(p) /\ Tail(U) = At("relaunch")
       /\ b = "relaunch" => Tail(U) = At("reraise")
  BY <1>5, <1>8, <1>9
<1>12. b = "none" => U = L
  BY <1>3, <1>4
<1> QED  BY <1>1, <1>2, <1>3, <1>10, <1>11, <1>12 DEF L, U

(* The user's thread makes a loop and launches it.                         *)
LEMMA MakePlanned ==
  ASSUME IInv, handle \in [Loop -> BOOLEAN], Planned, Make(User)
  PROVE  Planned'
<1>1. PICK a \in Stops, b \in Blocks, k \in Kinds, p \in Names, i \in Nat, q \in Names, n \in 0..2 :
        Fine(a, b, k, p, i, q, n)
  BY DEF Planned
<1> PICK d : (b = "start" /\ d = "launch") \/ (b # "start" /\ d = "relaunch")
  OBVIOUS
<1>2. a = "none" /\ b \in {"start", "again"}
  BY <1>1, UserHead DEF Make, Stopping
<1>3. Fine("none", b, k, p, i, q, n)
  BY <1>1, <1>2
<1>4. Top(User).prog = p /\ Tail(todo[User]) = BlockOn(d, k, p, i, Left(q, n))
  <2>1. Top(User) = New(p) /\ New(p).prog = p
    BY <1>2, <1>3, BareTop, PartTasks
  <2>2. CASE b = "start"
    BY <1>3, <2>1, <2>2, BareTop
  <2>3. CASE b = "again"
    BY <1>3, <2>1, <2>3, BareTop
  <2> QED  BY <1>2, <2>2, <2>3
<1>5. BlockOn(d, k, p, i, Left(q, n)) \in Seq(TaskSet)
  BY <1>3, BareTop DEF Blocks
<1>6. todo'[User] = BlockOn(d, k, p, i, Left(q, n))
  <2>1. <<>> \o BlockOn(d, k, p, i, Left(q, n)) = BlockOn(d, k, p, i, Left(q, n))
    BY <1>5, Prefixed
  <2> QED  BY <1>4, <2>1, UserThen DEF Make
<1>7. /\ current' = made + 1 /\ made + 1 \in Loop /\ made + 1 # 0 /\ made + 1 \in Nat
      /\ handle'[made + 1] = TRUE /\ program'[made + 1] = p /\ crashed[made + 1] = FALSE
      /\ crashed' = crashed /\ wanted' = wanted /\ ret' = ret /\ stack' = stack
  <2>1. made \in Nat /\ made + 1 \in Loop /\ made + 1 # 0
    BY Numbers DEF Make
  <2>2. program \in [Loop -> Names] /\ crashed[made + 1] = FALSE
    <3>1. made + 1 > made
      BY <2>1
    <3> QED  BY <2>1, <3>1 DEF IInv, Plain, LoopInv
  <2> QED  BY <1>4, <2>1, <2>2 DEF Make
<1>8. Shaped("none", d, k, p, q, n) /\ Pausing(d, i, q, n)'
  BY <1>2, <1>3, <1>7 DEF Fine, Shaped, Pausing, Commanding
<1>9. Standing("none", d, p, n)'
  BY <1>2, <1>3, <1>7 DEF Fine, Shaped, Standing, Commanding
<1>10. Wanting("none", d, p, q)'
  BY <1>2, <1>3, <1>7 DEF Fine, Shaped, Standing, Wanting, Good, Promised, Programs
<1> QED  BY <1>6, <1>7, <1>8, <1>9, <1>10, Bared DEF Blocks

LEMMA LaunchPlanned ==
  ASSUME IInv, Planned, Launch(User)
  PROVE  Planned'
<1>1. PICK a \in Stops, b \in Blocks, k \in Kinds, p \in Names, i \in Nat, q \in Names, n \in 0..2 :
        Fine(a, b, k, p, i, q, n)
  BY DEF Planned
<1> PICK d : (b = "launch" /\ d = "started") \/ (b # "launch" /\ d = "reraise")
  OBVIOUS
<1>2. a = "none" /\ b \in {"launch", "relaunch"}
  BY <1>1, UserHead DEF Launch, Stopping
<1>3. Fine("none", b, k, p, i, q, n)
  BY <1>1, <1>2
<1>4. Tail(todo[User]) = BlockOn(d, k, p, i, Left(q, n))
  <2>1. CASE b = "launch"
    BY <1>3, <2>1, BareTop
  <2>2. CASE b = "relaunch"
    BY <1>3, <2>2, BareTop
  <2> QED  BY <1>2, <2>1, <2>2
<1>5. current \in Loop
  BY UserTop DEF Launch, Running, Top, Ready
<1>6. todo'[User] = BlockOn(d, k, p, i, Left(q, n))
  <2>1. current # User /\ User \in DOMAIN todo
    BY <1>5, Roles, Numbers DEF IInv, Plain, User
  <2> QED  BY <1>4, <2>1 DEF Launch
<1>7. /\ current' = current /\ current \in Nat /\ stack' = stack /\ handle' = handle
      /\ program' = program /\ crashed' = crashed /\ wanted' = wanted /\ ret' = ret
  BY Numbers DEF Launch, loopVars
<1>8. Shaped("none", d, k, p, q, n) /\ Pausing(d, i, q, n)'
  BY <1>2, <1>3, <1>7 DEF Fine, Shaped, Pausing, Commanding
<1>9. Standing("none", d, p, n)'
  BY <1>2, <1>3, <1>7 DEF Fine, Shaped, Standing, Commanding
<1>10. Wanting("none", d, p, q)'
  BY <1>2, <1>3, <1>7 DEF Fine, Shaped, Standing, Wanting, Good, Promised
<1> QED  BY <1>6, <1>7, <1>8, <1>9, <1>10, Bared DEF Blocks

(* The user's thread begins an instruction.                                *)
LEMMA BeginPlanned ==
  ASSUME IInv, Planned, Begin(User)
  PROVE  Planned'
<1>1. PICK a \in Stops, b \in Blocks, k \in Kinds, p \in Names, i \in Nat, q \in Names, n \in 0..2 :
        Fine(a, b, k, p, i, q, n)
  BY DEF Planned
<1> DEFINE L == Left(q, n)
           x == Command("execute", k, p)
           pause == Command("pause", k, p)
           enter == Command("enter", k, p)
<1>2. a = "none" /\ b = "execute"
  BY <1>1, UserHead DEF Begin, Stopping, Commanding
<1>3. Fine("none", "execute", k, p, i, q, n)
  BY <1>1, <1>2
<1>4. Top(User) = x /\ Tail(todo[User]) = L /\ L \in Seq(TaskSet)
  BY <1>2, <1>3, BareTop DEF Commanding
<1>5. pause \in TaskSet /\ enter \in TaskSet /\ x.kind = k
  BY PartTasks DEF Types
<1>6. [x EXCEPT !.t = "pause"] = pause /\ [x EXCEPT !.t = "enter"] = enter
  BY DEF Command
<1>7. Pauses(User, k) <=> k \notin Unpaused
  BY DEF Pauses, onContinuousInferenceThread, User, Unpaused
<1>8. /\ current' = current /\ current \in Nat /\ stack' = stack /\ handle' = handle
      /\ program' = program /\ crashed' = crashed /\ wanted' = wanted /\ ret' = ret
  BY Numbers DEF Begin, loopVars
<1> HIDE DEF L, x, pause, enter
<1>9. CASE k \notin Unpaused
  <2>1. todo'[User] = (<<Task("read")>> \o <<pause>>) \o L
    BY <1>4, <1>5, <1>6, <1>7, <1>9, UserThen DEF Begin, Stop
  <2>2. todo'[User] = Cons(Task("read"), Cons(pause, L))
    <3>1. Task("read") \in TaskSet /\ <<pause>> \in Seq(TaskSet)
      BY <1>5, PartTasks DEF Types
    <3>2. <<Task("read")>> \o <<pause>> = Cons(Task("read"), <<pause>>)
      BY <3>1, Prefixed
    <3>3. Cons(Task("read"), <<pause>>) \o L = Cons(Task("read"), <<pause>> \o L)
      BY <1>4, <3>1, Prefixed
    <3>4. <<pause>> \o L = Cons(pause, L)
      BY <1>4, <1>5, Prefixed
    <3> QED  BY <2>1, <3>2, <3>3, <3>4
  <2>3. todo'[User] = StopOn("read", current', BlockOn("pause", k, p, i, L))
    BY <2>2 DEF StopOn, BlockOn, Commanding, pause
  <2>4. Shaped("read", "pause", k, p, q, n) /\ Pausing("pause", i, q, n)'
    BY <1>3, <1>8, <1>9 DEF Fine, Shaped, Pausing, Commanding
  <2>5. Standing("read", "pause", p, n)'
    BY <1>3, <1>8 DEF Fine, Shaped, Standing, Commanding
  <2>6. Wanting("read", "pause", p, q)'
    BY <1>3, <1>8 DEF Fine, Shaped, Standing, Wanting, Good, Promised
  <2>7. Fine("read", "pause", k, p, i, q, n)'
    BY <2>3, <2>4, <2>5, <2>6 DEF Fine, L
  <2> QED  BY <2>7, Replanned DEF Stops, Blocks, Commanding
<1>10. CASE k \in Unpaused
  <2>1. todo'[User] = (<<>> \o <<enter>>) \o L
    BY <1>4, <1>5, <1>6, <1>7, <1>10, UserThen DEF Begin
  <2>2. todo'[User] = BlockOn("enter", k, p, i, L)
    <3>1. <<enter>> \in Seq(TaskSet)
      BY <1>5
    <3>2. <<>> \o <<enter>> = <<enter>> /\ <<enter>> \o L = Cons(enter, L)
      BY <1>4, <1>5, <3>1, Prefixed
    <3> QED  BY <2>1, <3>2 DEF BlockOn, Commanding, enter
  <2>3. Shaped("none", "enter", k, p, q, n) /\ Pausing("enter", i, q, n)'
    BY <1>3, <1>8, <1>10 DEF Fine, Shaped, Pausing, Commanding
  <2>4. Standing("none", "enter", p, n)'
    BY <1>3, <1>8 DEF Fine, Shaped, Standing, Commanding
  <2>5. Wanting("none", "enter", p, q)'
    BY <1>3, <1>8 DEF Fine, Shaped, Standing, Wanting, Good, Promised
  <2> QED  BY <1>8, <2>2, <2>3, <2>4, <2>5, Bared DEF Blocks, Commanding, L
<1> QED  BY <1>9, <1>10

(* A pauser starts what it has paused, and the instruction goes on raising *)
(* what it raised.                                                         *)
LEMMA RestartPlanned ==
  ASSUME IInv, Planned, Restart(User)
  PROVE  Planned'
<1>1. PICK a \in Stops, b \in Blocks, k \in Kinds, p \in Names, i \in Nat, q \in Names, n \in 0..2 :
        Fine(a, b, k, p, i, q, n)
  BY DEF Planned
<1> DEFINE L == Left(q, n)
           reraise == Task("reraise")
           st == IF (current # 0 /\ ~crashed[current]) \/ p = "none" THEN <<>> ELSE Start(p)
<1>2. a = "none" /\ b = "restart"
  BY <1>1, UserHead DEF Restart, Stopping
<1>3. Fine("none", "restart", k, p, i, q, n)
  BY <1>1, <1>2
<1>4. Top(User).prog = p /\ Tail(todo[User]) = L /\ L \in Seq(TaskSet)
  BY <1>2, <1>3, BareTop, PartTasks
<1>5. reraise \in TaskSet /\ <<reraise>> \in Seq(TaskSet)
  BY PartTasks DEF Types
<1>6. /\ current' = current /\ current \in Nat /\ stack' = stack /\ handle' = handle
      /\ program' = program /\ crashed' = crashed /\ wanted' = wanted /\ ret' = ret
  BY Numbers DEF Restart, loopVars
<1>7. todo'[User] = (st \o <<reraise>>) \o L
  BY <1>4, UserThen DEF Restart
<1> HIDE DEF L, reraise
<1>8. CASE (current # 0 /\ ~crashed[current]) \/ p = "none"
  <2>1. todo'[User] = BlockOn("reraise", k, p, i, L)
    <3>1. <<>> \o <<reraise>> = <<reraise>> /\ <<reraise>> \o L = Cons(reraise, L)
      BY <1>4, <1>5, Prefixed
    <3> QED  BY <1>7, <1>8, <3>1 DEF BlockOn, Commanding, reraise
  <2>2. Shaped("none", "reraise", k, p, q, n) /\ Pausing("reraise", i, q, n)'
    BY <1>3, <1>6 DEF Fine, Shaped, Pausing, Commanding
  <2>3. Standing("none", "reraise", p, n)'
    BY <1>3, <1>6 DEF Fine, Shaped, Standing, Commanding
  <2>4. Wanting("none", "reraise", p, q)'
    BY <1>3, <1>6, <1>8 DEF Fine, Shaped, Standing, Wanting, Good, Promised, Programs
  <2> QED  BY <1>6, <2>1, <2>2, <2>3, <2>4, Bared DEF Blocks, L
<1>9. CASE ~((current # 0 /\ ~crashed[current]) \/ p = "none")
  <2> DEFINE new == New(p)
             launch == Task("launch")
             rest == Cons(launch, <<reraise>>)
  <2>1. todo'[User] = ((<<Task("read")>> \o <<new, launch>>) \o <<reraise>>) \o L
    BY <1>7, <1>9 DEF Start, Stop, New
  <2>2. Task("read") \in TaskSet /\ new \in TaskSet /\ launch \in TaskSet
    BY PartTasks DEF Types
  <2> HIDE DEF new, launch
  <2>3. todo'[User] = Cons(Task("read"), Cons(new, Cons(launch, Cons(reraise, L))))
    <3>1. <<new, launch>> \in Seq(TaskSet) /\ <<launch>> \in Seq(TaskSet)
      BY <2>2
    <3>2. <<Task("read")>> \o <<new, launch>> = Cons(Task("read"), <<new, launch>>)
      BY <2>2, <3>1, Prefixed
    <3>3. Cons(Task("read"), <<new, launch>>) \o <<reraise>> = Cons(Task("read"), <<new, launch>> \o <<reraise>>)
      BY <1>5, <2>2, <3>1, Prefixed
    <3>4. <<new, launch>> \o <<reraise>> = Cons(new, Cons(launch, <<reraise>>))
      <4>1. \A f, g \in TaskSet : <<f, g>> \o <<reraise>> = Cons(f, Cons(g, <<reraise>>))
        BY <1>5, <2>2, <3>1, Prefixed
      <4> QED  BY <1>5, <2>2, <4>1
    <3>5. Cons(launch, <<reraise>>) \in Seq(TaskSet) /\ Cons(new, Cons(launch, <<reraise>>)) \in Seq(TaskSet)
      BY <1>5, <2>2, Pushed
    <3>6. Cons(Task("read"), Cons(new, Cons(launch, <<reraise>>))) \o L
            = Cons(Task("read"), Cons(new, Cons(launch, <<reraise>>)) \o L)
      BY <1>4, <2>2, <3>5, Prefixed
    <3>7. Cons(new, Cons(launch, <<reraise>>)) \o L = Cons(new, Cons(launch, <<reraise>>) \o L)
      BY <1>4, <2>2, <3>5, Prefixed
    <3>8. Cons(launch, <<reraise>>) \o L = Cons(launch, <<reraise>> \o L) /\ <<reraise>> \o L = Cons(reraise, L)
      BY <1>4, <1>5, <2>2, Prefixed
    <3> QED  BY <2>1, <3>2, <3>3, <3>4, <3>6, <3>7, <3>8
  <2>4. todo'[User] = StopOn("read", current', BlockOn("again", k, p, i, L))
    BY <2>3 DEF StopOn, BlockOn, Commanding, new, launch, reraise
  <2>5. Shaped("read", "again", k, p, q, n) /\ Pausing("again", i, q, n)'
    BY <1>3, <1>6, <1>9 DEF Fine, Shaped, Pausing, Commanding
  <2>6. Standing("read", "again", p, n)'
    BY <1>3, <1>6, <1>9 DEF Fine, Shaped, Standing, Wanting, Good, Promised, Commanding, Programs
  <2>7. Wanting("read", "again", p, q)'
    BY <1>3, <1>6, <1>9 DEF Fine, Shaped, Standing, Wanting, Good, Promised
  <2>8. Fine("read", "again", k, p, i, q, n)'
    BY <2>4, <2>5, <2>6, <2>7 DEF Fine, L
  <2> QED  BY <2>8, Replanned DEF Stops, Blocks
<1> QED  BY <1>8, <1>9

LEMMA ReraisePlanned ==
  ASSUME IInv, Planned, Reraise(User)
  PROVE  Planned'
<1>1. PICK a \in Stops, b \in Blocks, k \in Kinds, p \in Names, i \in Nat, q \in Names, n \in 0..2 :
        Fine(a, b, k, p, i, q, n)
  BY DEF Planned
<1>2. a = "none" /\ b = "reraise"
  BY <1>1, UserHead DEF Reraise, Stopping
<1>3. Fine("none", "reraise", k, p, i, q, n)
  BY <1>1, <1>2
<1>4. /\ current' = current /\ current \in Nat /\ stack' = stack /\ handle' = handle
      /\ program' = program /\ crashed' = crashed /\ wanted' = wanted /\ ret' = ret
  BY Numbers DEF Reraise, loopVars
<1>5. CASE exc[User] = "none"
  <2>1. todo'[User] = BlockOn("none", k, p, i, Left(q, n))
    <3>0. "reraise" \in Blocks
      BY DEF Blocks
    <3>1. Tail(todo[User]) = Left(q, n)
      BY <1>3, <3>0, BareTop
    <3>2. BlockOn("none", k, p, i, Left(q, n)) = Left(q, n)
      BY DEF BlockOn, Commanding
    <3>4. <<>> \o Left(q, n) = Left(q, n)
      BY LeftTop, Prefixed
    <3>3. todo'[User] = <<>> \o Tail(todo[User])
      BY <1>5, UserThen DEF Reraise
    <3> QED  BY <3>1, <3>2, <3>3, <3>4
  <2>2. Shaped("none", "none", k, p, q, n) /\ Pausing("none", i, q, n)'
    BY <1>3, <1>4 DEF Fine, Shaped, Pausing, Commanding
  <2>3. Standing("none", "none", p, n)'
    BY <1>3, <1>4 DEF Fine, Shaped, Standing, Commanding
  <2>4. Wanting("none", "none", p, q)'
    BY <1>3, <1>4 DEF Fine, Shaped, Standing, Wanting, Good, Promised
  <2> QED  BY <1>4, <2>1, <2>2, <2>3, <2>4, Bared DEF Blocks
<1>6. CASE exc[User] # "none"
  <2>1. Running(User, "reraise") /\ Raise(User, exc[User])
    BY <1>6 DEF Reraise
  <2> QED  BY <1>4, <2>1, RaisePlanned
<1> QED  BY <1>5, <1>6

(* Work, and what is executed next.                                        *)
LEMMA WorkPlanned ==
  ASSUME IInv, Planned, Work(User) \/ Worked(User) \/ WorkFails(User)
  PROVE  Planned'
<1>1. CASE Work(User)
  BY <1>1 DEF Work, loopVars, Planned, Fine, Standing, Pausing, Wanting, Good
<1>2. CASE Worked(User)
  <2>1. PICK a \in Stops, b \in Blocks, k \in Kinds, p \in Names, i \in Nat, q \in Names, n \in 0..2 :
          Fine(a, b, k, p, i, q, n)
    BY DEF Planned
  <2>2. a = "none" /\ b = "work"
    BY <1>2, <2>1, UserHead DEF Worked, Stopping
  <2>3. Fine("none", "work", k, p, i, q, n)
    BY <2>1, <2>2
  <2>4. /\ current' = current /\ current \in Nat /\ stack' = stack /\ handle' = handle
        /\ program' = program /\ crashed' = crashed /\ wanted' = wanted /\ ret' = ret
    BY <1>2, Numbers DEF Worked, loopVars
  <2>5. todo'[User] = BlockOn("none", k, p, i, Left(q, n))
    <3>0. "work" \in Blocks
      BY DEF Blocks
    <3>1. Tail(todo[User]) = Left(q, n)
      BY <2>3, <3>0, BareTop
    <3>2. BlockOn("none", k, p, i, Left(q, n)) = Left(q, n)
      BY DEF BlockOn, Commanding
    <3>4. <<>> \o Left(q, n) = Left(q, n)
      BY LeftTop, Prefixed
    <3>3. todo'[User] = <<>> \o Tail(todo[User])
      BY <1>2, UserThen DEF Worked
    <3> QED  BY <3>1, <3>2, <3>3, <3>4
  <2>6. Shaped("none", "none", k, p, q, n) /\ Pausing("none", i, q, n)'
    BY <2>3, <2>4 DEF Fine, Shaped, Pausing, Commanding
  <2>7. Standing("none", "none", p, n)'
    BY <2>3, <2>4 DEF Fine, Shaped, Standing, Commanding
  <2>8. Wanting("none", "none", p, q)'
    BY <2>3, <2>4 DEF Fine, Shaped, Standing, Wanting, Good, Promised
  <2> QED  BY <2>4, <2>5, <2>6, <2>7, <2>8, Bared DEF Blocks
<1>3. CASE WorkFails(User)
  <2>1. Raise(User, "failed") /\ UNCHANGED <<stack, current, handle, program, crashed, wanted, ret>>
    BY <1>3 DEF WorkFails, loopVars
  <2>2. Running(User, "work") \/ Running(User, "raise")
    BY <1>3 DEF WorkFails
  <2> QED  BY <2>1, <2>2, RaisePlanned
<1> QED  BY <1>1, <1>2, <1>3

LEMMA InstructPlanned ==
  ASSUME IInv, Planned, Instruct
  PROVE  Planned'
<1>1. PICK a \in Stops, b \in Blocks, k \in Kinds, p \in Names, i \in Nat, q \in Names, n \in 0..2 :
        Fine(a, b, k, p, i, q, n)
  BY DEF Planned
<1>2. a = "none" /\ b = "none" /\ n = 0
  <2> DEFINE R == BlockOn(b, k, p, i, Left(q, n))
  <2>1. Left(q, n) \in Seq(TaskSet) /\ (Left(q, n) = <<>> <=> n = 0)
    BY LeftTop
  <2>2. R \in Seq(TaskSet) /\ (b # "none" => R # <<>>) /\ (b = "none" => R = Left(q, n))
    BY <2>1, BlockTop
  <2>3. current \in Nat /\ todo[User] = StopOn(a, current, R) /\ todo[User] = <<>>
    BY <1>1, Numbers DEF Fine, Instruct
  <2> HIDE DEF R
  <2>4. a = "none"
    BY <2>2, <2>3, StopTop
  <2>5. todo[User] = R
    BY <2>3, <2>4 DEF StopOn
  <2> QED  BY <2>1, <2>2, <2>3, <2>4, <2>5
<1>3. PICK x \in Instructions : todo' = [todo EXCEPT ![User] = <<x>>]
  BY DEF Instruct
<1>4. PICK kk \in Kinds, pp \in Names : x = Command("execute", kk, pp) /\ <<kk, pp>> \in Outer
  <2>1. Loops \subseteq Programs /\ Programs \subseteq Names /\ {"none", "outer"} \subseteq Names
    BY LoopsAssumption DEF Names
  <2>2. {"assume", "stop", "status", "list", "infer", "loop", "start"} \subseteq Kinds
    BY DEF Kinds
  <2>3. \A kk, pp : Execute(kk, pp) = Command("execute", kk, pp)
    BY DEF Execute, Command
  <2>4. CASE \E kk \in {"assume", "stop", "status"} : x = Execute(kk, "none")
    BY <2>1, <2>2, <2>3, <2>4 DEF Outer
  <2>5. CASE x = Execute("list", "outer")
    BY <2>1, <2>2, <2>3, <2>5 DEF Outer
  <2>6. CASE \E pp \in Programs : x = Execute("infer", pp)
    BY <2>1, <2>2, <2>3, <2>6 DEF Outer
  <2>7. CASE \E kk \in {"loop", "start"}, pp \in Loops : x = Execute(kk, pp)
    BY <2>1, <2>2, <2>3, <2>7 DEF Outer
  <2> QED  BY <2>4, <2>5, <2>6, <2>7 DEF Instructions
<1>5. /\ current' = current /\ current \in Nat /\ stack' = stack /\ handle' = handle
      /\ program' = program /\ crashed' = crashed /\ wanted' = wanted /\ ret' = ret
  BY Numbers DEF Instruct, loopVars
<1>6. todo'[User] = BlockOn("execute", kk, pp, i, Left(q, n))
  <2>1. x \in TaskSet /\ Left(q, n) = <<>>
    BY <1>2, <1>4, PartTasks DEF Types, Left
  <2>2. <<>> \in Seq(TaskSet)
    OBVIOUS
  <2>3. <<x>> = Cons(x, <<>>)
    BY <2>1, <2>2, Prefixed
  <2>4. todo'[User] = <<x>>
    BY <1>3, UserThen
  <2> QED  BY <1>4, <2>1, <2>3, <2>4 DEF BlockOn, Commanding
<1>7. Shaped("none", "execute", kk, pp, q, n) /\ Pausing("execute", i, q, n)'
  BY <1>1, <1>2, <1>4, <1>5 DEF Fine, Shaped, Pausing, Commanding
<1>8. Standing("none", "execute", pp, n)'
  BY <1>1, <1>2, <1>5 DEF Fine, Shaped, Standing, Commanding
<1>9. Wanting("none", "execute", pp, q)'
  BY <1>1, <1>2, <1>5 DEF Fine, Shaped, Standing, Wanting, Good, Promised
<1> QED  BY <1>5, <1>6, <1>7, <1>8, <1>9, Bared DEF Blocks, Commanding

(* What is paused on the user's stack.                                     *)
HasPaused(x) == x.t \in {"exit", "restart"} /\ x.prog # "none"
Settling     == {x \in TaskSet : ~HasPaused(x)}
Undo(s)      == [s EXCEPT ![Len(s)].prog = "none"]

(* A stack ends in e, which alone may have paused a loop; without that, it *)
(* is u.                                                                   *)
EndsIn(s, e, u) == /\ s \in Seq(TaskSet) /\ s # <<>> /\ s[Len(s)] = e
                   /\ u \in Seq(TaskSet) /\ Undo(s) = u
                   /\ \A j \in 1..Len(s) : HasPaused(s[j]) => j = Len(s)

LEMMA UndoneTask ==
  ASSUME NEW x \in TaskSet
  PROVE  [x EXCEPT !.prog = "none"] \in TaskSet
<1>1. [x EXCEPT !.prog = "none"] = [t |-> x.t, kind |-> x.kind, prog |-> "none", i |-> x.i]
  BY DEF TaskSet
<1> QED  BY <1>1 DEF TaskSet, Names

LEMMA UndoAt ==
  ASSUME NEW s \in Seq(TaskSet), s # <<>>
  PROVE  /\ Len(s) \in Nat \ {0} /\ Undo(s) \in Seq(TaskSet) /\ Len(Undo(s)) = Len(s)
         /\ \A j \in 1..Len(s) : Undo(s)[j] = IF j = Len(s) THEN [s[j] EXCEPT !.prog = "none"] ELSE s[j]
<1>1. Len(s) \in Nat \ {0} /\ DOMAIN s = 1..Len(s) /\ \A j \in 1..Len(s) : s[j] \in TaskSet
  OBVIOUS
<1> DEFINE x == s[Len(s)]
           y == [x EXCEPT !.prog = "none"]
<1>2. Undo(s) = [s EXCEPT ![Len(s)] = y]
  BY DEF Undo
<1>3. x \in TaskSet
  BY <1>1
<1> HIDE DEF x
<1>4. y \in TaskSet
  BY <1>3, UndoneTask
<1> HIDE DEF y
<1>5. Undo(s) \in Seq(TaskSet) /\ Len(Undo(s)) = Len(s)
  BY <1>1, <1>2, <1>4
<1>6. \A j \in 1..Len(s) : Undo(s)[j] = IF j = Len(s) THEN y ELSE s[j]
  BY <1>1, <1>2
<1> QED  BY <1>1, <1>5, <1>6 DEF x, y

LEMMA ConsEnds ==
  ASSUME NEW x \in Settling, NEW R, NEW e, NEW u, EndsIn(R, e, u)
  PROVE  EndsIn(Cons(x, R), e, Cons(x, u))
<1> DEFINE s == Cons(x, R)
           v == Cons(x, u)
<1>1. x \in TaskSet /\ ~HasPaused(x) /\ R \in Seq(TaskSet) /\ R # <<>> /\ R[Len(R)] = e
      /\ u \in Seq(TaskSet) /\ Undo(R) = u /\ \A j \in 1..Len(R) : HasPaused(R[j]) => j = Len(R)
  BY DEF EndsIn, Settling
<1>2. /\ Len(R) \in Nat \ {0} /\ Len(u) = Len(R)
      /\ \A j \in 1..Len(R) : u[j] = IF j = Len(R) THEN [R[j] EXCEPT !.prog = "none"] ELSE R[j]
  BY <1>1, UndoAt
<1>3. s \in Seq(TaskSet) /\ s # <<>> /\ Len(s) = Len(R) + 1 /\ s[1] = x
  BY <1>1, Pushed
<1>4. \A j \in 1..Len(R) : s[j + 1] = R[j]
  BY <1>1, Pushed
<1>5. v \in Seq(TaskSet) /\ Len(v) = Len(u) + 1 /\ v[1] = x
  BY <1>1, Pushed
<1>6. \A j \in 1..Len(u) : v[j + 1] = u[j]
  BY <1>1, Pushed
<1> HIDE DEF s, v
<1>7. s[Len(s)] = e
  BY <1>1, <1>2, <1>3, <1>4
<1>8. ASSUME NEW j \in 1..Len(s), HasPaused(s[j]) PROVE j = Len(s)
  <2>1. j # 1
    BY <1>1, <1>3, <1>8
  <2>2. j - 1 \in 1..Len(R) /\ (j - 1) + 1 = j
    BY <1>2, <1>3, <2>1
  <2>3. HasPaused(R[j - 1])
    BY <1>4, <1>8, <2>2
  <2>4. j - 1 = Len(R)
    BY <1>1, <2>2, <2>3
  <2> QED  BY <1>2, <1>3, <2>4
<1>9. Undo(s) = v
  <2>1. /\ Undo(s) \in Seq(TaskSet) /\ Len(Undo(s)) = Len(s)
        /\ \A j \in 1..Len(s) : Undo(s)[j] = IF j = Len(s) THEN [s[j] EXCEPT !.prog = "none"] ELSE s[j]
    BY <1>3, UndoAt
  <2>2. ASSUME NEW j \in 1..Len(s) PROVE Undo(s)[j] = v[j]
    <3>1. CASE j = 1
      <4>1. j # Len(s)
        BY <1>2, <1>3, <3>1
      <4> QED  BY <1>3, <1>5, <2>1, <3>1, <4>1
    <3>2. CASE j # 1
      <4>1. j - 1 \in 1..Len(R) /\ (j - 1) + 1 = j /\ (j = Len(s) <=> j - 1 = Len(R))
        BY <1>2, <1>3, <3>2
      <4>2. s[j] = R[j - 1] /\ v[j] = u[j - 1]
        BY <1>2, <1>4, <1>6, <4>1
      <4>3. u[j - 1] = IF j - 1 = Len(R) THEN [R[j - 1] EXCEPT !.prog = "none"] ELSE R[j - 1]
        BY <1>2, <4>1
      <4> QED  BY <2>1, <4>1, <4>2, <4>3
    <3> QED  BY <3>1, <3>2
  <2>3. Len(Undo(s)) = Len(v)
    BY <1>2, <1>3, <1>5, <2>1
  <2> QED  BY <1>5, <2>1, <2>2, <2>3, SeqEqual
<1> QED  BY <1>3, <1>5, <1>7, <1>8, <1>9 DEF EndsIn, s, v

LEMMA SettlingTasks ==
  /\ \A t \in Types \ {"exit", "restart"} : Task(t) \in Settling
  /\ \A t \in Types \ {"exit", "restart"}, i \in Nat : On(t, i) \in Settling
  /\ \A t \in Types \ {"exit", "restart"}, k \in Kinds, p \in Names : Command(t, k, p) \in Settling
  /\ \A p \in Names : New(p) \in Settling /\ Wish(p) \in Settling
  /\ Exit("none") \in Settling /\ Again("none") \in Settling
<1>1. "none" \in Names
  BY DEF Names
<1> QED  BY <1>1, PartTasks DEF Settling, HasPaused

LEMMA BlockEnds ==
  ASSUME NEW b \in Blocks, NEW k \in Kinds, NEW p \in Names, NEW i \in Nat, b = "restart" => p = "none"
  PROVE  /\ \A R, e, u : EndsIn(R, e, u) => EndsIn(BlockOn(b, k, p, i, R), e, BlockOn(b, k, p, i, u))
         /\ BlockOn(b, k, p, i, <<>>) \in Seq(Settling)
<1>0. /\ {"work", "raise", "reraise", "launch", "count", "want", "read", "drop"} \subseteq Types \ {"exit", "restart"}
      /\ Commanding \subseteq Types \ {"exit", "restart"}
  BY DEF Types, Commanding
<1>1. /\ \A t \in {"work", "raise", "reraise", "launch", "count", "want", "read"} : Task(t) \in Settling
      /\ \A t \in Commanding : Command(t, k, p) \in Settling
      /\ On("drop", i) \in Settling /\ New(p) \in Settling /\ Wish(p) \in Settling
      /\ b = "restart" => Again(p) \in Settling
  BY <1>0, SettlingTasks
<1>2. \A x \in Settling, r \in Seq(Settling) : Cons(x, r) \in Seq(Settling)
  BY Pushed
<1>3. <<>> \in Seq(Settling)
  OBVIOUS
<1>4. b \in Commanding \/ b \in {"work", "raise", "reraise"} \/ b = "start" \/ b = "launch" \/ b = "started"
      \/ b = "count" \/ b = "drop" \/ b = "stopped" \/ b = "restart" \/ b = "again" \/ b = "relaunch" \/ b = "none"
  BY DEF Blocks
<1>5. ASSUME NEW R, NEW e, NEW u, EndsIn(R, e, u)
      PROVE  EndsIn(BlockOn(b, k, p, i, R), e, BlockOn(b, k, p, i, u))
  <2>1. CASE b \in Commanding
    BY <1>1, <1>5, <2>1, ConsEnds DEF BlockOn
  <2>2. CASE b \in {"work", "raise", "reraise"}
    BY <1>1, <1>5, <2>2, ConsEnds DEF BlockOn, Commanding
  <2>3. CASE b = "start"
    BY <1>1, <1>5, <2>3, ConsEnds DEF BlockOn, Commanding
  <2>4. CASE b = "launch"
    BY <1>1, <1>5, <2>4, ConsEnds DEF BlockOn, Commanding
  <2>5. CASE b = "started"
    BY <1>1, <1>5, <2>5, ConsEnds DEF BlockOn, Commanding
  <2>6. CASE b = "count"
    BY <1>1, <1>5, <2>6, ConsEnds DEF BlockOn, Commanding
  <2>7. CASE b = "drop"
    BY <1>1, <1>5, <2>7, ConsEnds DEF BlockOn, Commanding
  <2>8. CASE b = "stopped"
    BY <1>1, <1>5, <2>8, ConsEnds DEF BlockOn, Commanding
  <2>9. CASE b = "restart"
    BY <1>1, <1>5, <2>9, ConsEnds DEF BlockOn, Commanding
  <2>10. CASE b = "again"
    BY <1>1, <1>5, <2>10, ConsEnds DEF BlockOn, Commanding
  <2>11. CASE b = "relaunch"
    BY <1>1, <1>5, <2>11, ConsEnds DEF BlockOn, Commanding
  <2>12. CASE b = "none"
    BY <1>5, <2>12 DEF BlockOn, Commanding
  <2> QED  BY <1>4, <2>1, <2>2, <2>3, <2>4, <2>5, <2>6, <2>7, <2>8, <2>9, <2>10, <2>11, <2>12
<1>6. BlockOn(b, k, p, i, <<>>) \in Seq(Settling)
  <2>1. CASE b \in Commanding
    BY <1>1, <1>2, <1>3, <2>1 DEF BlockOn
  <2>2. CASE b \in {"work", "raise", "reraise", "started", "stopped", "restart", "none"}
    BY <1>1, <1>2, <1>3, <2>2 DEF BlockOn, Commanding
  <2>3. CASE b \in {"start", "again"}
    BY <1>1, <1>2, <1>3, <2>3 DEF BlockOn, Commanding
  <2>4. CASE b \in {"launch", "relaunch"}
    BY <1>1, <1>2, <1>3, <2>4 DEF BlockOn, Commanding
  <2>5. CASE b \in {"count", "drop"}
    BY <1>1, <1>2, <1>3, <2>5 DEF BlockOn, Commanding
  <2> QED  BY <1>4, <2>1, <2>2, <2>3, <2>4, <2>5
<1> QED  BY <1>5, <1>6

LEMMA StopEnds ==
  ASSUME NEW a \in Stops, NEW c \in Nat
  PROVE  /\ \A R, e, u : EndsIn(R, e, u) => EndsIn(StopOn(a, c, R), e, StopOn(a, c, u))
         /\ \A R \in Seq(Settling) : StopOn(a, c, R) \in Seq(Settling)
<1>0. {"read", "forget", "grab", "join", "joinNone", "release"} \subseteq Types \ {"exit", "restart"}
  BY DEF Types
<1>1. /\ \A t \in {"read", "forget"} : Task(t) \in Settling
      /\ \A t \in {"grab", "join", "joinNone", "release"} : On(t, c) \in Settling
  BY <1>0, SettlingTasks
<1>2. \A x \in Settling, r \in Seq(Settling) : Cons(x, r) \in Seq(Settling)
  BY Pushed
<1>3. a \in {"read", "forget"} \/ a \in {"grab", "join", "joinNone"} \/ a = "release" \/ a = "releaseNone" \/ a = "none"
  BY DEF Stops
<1>4. ASSUME NEW R, NEW e, NEW u, EndsIn(R, e, u)
      PROVE  EndsIn(StopOn(a, c, R), e, StopOn(a, c, u))
  <2>1. CASE a \in {"read", "forget"}
    BY <1>1, <1>4, <2>1, ConsEnds DEF StopOn
  <2>2. CASE a \in {"grab", "join", "joinNone"}
    BY <1>1, <1>4, <2>2, ConsEnds DEF StopOn
  <2>3. CASE a = "release"
    BY <1>1, <1>4, <2>3, ConsEnds DEF StopOn
  <2>4. CASE a = "releaseNone"
    BY <1>1, <1>4, <2>4, ConsEnds DEF StopOn
  <2>5. CASE a = "none"
    BY <1>4, <2>5 DEF StopOn
  <2> QED  BY <1>3, <2>1, <2>2, <2>3, <2>4, <2>5
<1>5. ASSUME NEW R \in Seq(Settling) PROVE StopOn(a, c, R) \in Seq(Settling)
  BY <1>1, <1>2, <1>3 DEF StopOn
<1> QED  BY <1>4, <1>5

(* One task is all that is left.                                           *)
LEMMA LastEnds ==
  ASSUME NEW e \in TaskSet, NEW f \in TaskSet
  PROVE  f = [e EXCEPT !.prog = "none"] => EndsIn(Cons(e, <<>>), e, Cons(f, <<>>))
<1> DEFINE s == Cons(e, <<>>)
           u == Cons(f, <<>>)
<1>0. <<>> \in Seq(TaskSet) /\ Len(<<>>) = 0
  OBVIOUS
<1>1. s \in Seq(TaskSet) /\ s # <<>> /\ Len(s) = 0 + 1 /\ s[1] = e
  BY <1>0, Pushed
<1>2. u \in Seq(TaskSet) /\ u # <<>> /\ Len(u) = 0 + 1 /\ u[1] = f
  BY <1>0, Pushed
<1> HIDE DEF s, u
<1>3. /\ Undo(s) \in Seq(TaskSet) /\ Len(Undo(s)) = Len(s)
      /\ \A j \in 1..Len(s) : Undo(s)[j] = IF j = Len(s) THEN [s[j] EXCEPT !.prog = "none"] ELSE s[j]
  BY <1>1, UndoAt
<1>4. Len(s) = 1 /\ Len(u) = 1
  BY <1>1, <1>2
<1>5. \A j \in 1..Len(s) : j = 1 /\ j = Len(s)
  BY <1>4
<1> SUFFICES ASSUME f = [e EXCEPT !.prog = "none"] PROVE EndsIn(s, e, u)
  BY DEF s, u
<1>6. \A j \in 1..Len(s) : Undo(s)[j] = u[j]
  BY <1>1, <1>2, <1>3, <1>5
<1>7. Undo(s) = u
  BY <1>2, <1>3, <1>4, <1>6, SeqEqual
<1> QED  BY <1>1, <1>2, <1>4, <1>5, <1>7 DEF EndsIn

LEMMA LeftEnds ==
  ASSUME NEW q \in Names, NEW n \in 1..2
  PROVE  EndsIn(Left(q, n), Exit(q), Left("none", n))
<1>1. Exit(q) \in TaskSet /\ Exit("none") \in TaskSet /\ Exit("none") \in Settling
  BY PartTasks, SettlingTasks DEF Names
<1>2. Exit("none") = [Exit(q) EXCEPT !.prog = "none"]
  BY DEF Exit, Task
<1>3. EndsIn(Cons(Exit(q), <<>>), Exit(q), Cons(Exit("none"), <<>>))
  BY <1>1, <1>2, LastEnds
<1>4. EndsIn(Cons(Exit("none"), Cons(Exit(q), <<>>)), Exit(q), Cons(Exit("none"), Cons(Exit("none"), <<>>)))
  BY <1>1, <1>3, ConsEnds
<1>5. CASE n = 1
  BY <1>3, <1>5 DEF Left
<1>6. CASE n = 2
  BY <1>4, <1>6 DEF Left
<1> QED  BY <1>5, <1>6

(* Where something is paused on the user's stack.                          *)
LEMMA UserEnds ==
  ASSUME IInv, NEW a \in Stops, NEW b \in Blocks, NEW k \in Kinds, NEW p \in Names, NEW i \in Nat,
         NEW q \in Names, NEW n \in 0..2, Fine(a, b, k, p, i, q, n)
  PROVE  LET U == todo[User]
         IN /\ n # 0 => EndsIn(U, Exit(q), StopOn(a, current, BlockOn(b, k, p, i, Left("none", n))))
            /\ n = 0 /\ b = "restart" =>
                 EndsIn(U, Again(p), StopOn(a, current, BlockOn(b, k, "none", i, Left("none", n))))
            /\ n = 0 /\ b # "restart" => U \in Seq(Settling)
<1> DEFINE U == todo[User]
<1>1. current \in Nat /\ U = StopOn(a, current, BlockOn(b, k, p, i, Left(q, n)))
  BY UserRest
<1>2. "none" \in Names
  BY DEF Names
<1>3. CASE n # 0
  <2>1. n \in 1..2
    BY <1>3
  <2>2. EndsIn(Left(q, n), Exit(q), Left("none", n))
    BY <2>1, LeftEnds
  <2>3. b = "restart" => p = "none"
    BY <1>3 DEF Fine, Shaped
  <2>4. EndsIn(BlockOn(b, k, p, i, Left(q, n)), Exit(q), BlockOn(b, k, p, i, Left("none", n)))
    BY <2>2, <2>3, BlockEnds
  <2>5. EndsIn(U, Exit(q), StopOn(a, current, BlockOn(b, k, p, i, Left("none", n))))
    BY <1>1, <2>4, StopEnds
  <2> QED  BY <1>3, <2>5
<1>4. CASE n = 0 /\ b = "restart"
  <2>1. Again(p) \in TaskSet /\ Again("none") \in TaskSet
    BY <1>2, PartTasks
  <2>2. Again("none") = [Again(p) EXCEPT !.prog = "none"]
    BY DEF Again, Exit, Task
  <2>3. EndsIn(Cons(Again(p), <<>>), Again(p), Cons(Again("none"), <<>>))
    BY <2>1, <2>2, LastEnds
  <2>4. /\ BlockOn(b, k, p, i, Left(q, n)) = Cons(Again(p), <<>>)
        /\ BlockOn(b, k, "none", i, Left("none", n)) = Cons(Again("none"), <<>>)
    BY <1>4 DEF BlockOn, Left, Commanding
  <2>5. EndsIn(U, Again(p), StopOn(a, current, BlockOn(b, k, "none", i, Left("none", n))))
    BY <1>1, <2>3, <2>4, StopEnds
  <2> QED  BY <1>4, <2>5
<1>5. CASE n = 0 /\ b # "restart"
  <2>1. Left(q, n) = <<>>
    BY <1>5 DEF Left
  <2>2. BlockOn(b, k, p, i, Left(q, n)) \in Seq(Settling)
    BY <1>5, <2>1, BlockEnds
  <2>3. U \in Seq(Settling)
    BY <1>1, <2>2, StopEnds
  <2> QED  BY <1>5, <2>3
<1> QED  BY <1>3, <1>4, <1>5

(* A task of the user's that has paused something.                         *)
LEMMA PausedLast ==
  ASSUME IInv, NEW a \in Stops, NEW b \in Blocks, NEW k \in Kinds, NEW p \in Names, NEW i \in Nat,
         NEW q \in Names, NEW n \in 0..2, Fine(a, b, k, p, i, q, n),
         NEW j \in 1..Len(todo[User]), HasPaused(todo[User][j])
  PROVE  /\ j = Len(todo[User])
         /\ n # 0 => Undo(todo[User]) = StopOn(a, current, BlockOn(b, k, p, i, Left("none", n)))
         /\ n = 0 => /\ b = "restart"
                     /\ Undo(todo[User]) = StopOn(a, current, BlockOn(b, k, "none", i, Left("none", n)))
<1> DEFINE U == todo[User]
           V == StopOn(a, current, BlockOn(b, k, p, i, Left("none", n)))
           W == StopOn(a, current, BlockOn(b, k, "none", i, Left("none", n)))
<1>1. /\ n # 0 => EndsIn(U, Exit(q), V)
      /\ n = 0 /\ b = "restart" => EndsIn(U, Again(p), W)
      /\ n = 0 /\ b # "restart" => U \in Seq(Settling)
  BY UserEnds
<1> HIDE DEF V, W
<1>2. n = 0 => b = "restart"
  <2>1. U \in Seq(Settling) => U[j] \in Settling
    OBVIOUS
  <2> QED  BY <1>1, <2>1 DEF Settling
<1>3. /\ n # 0 => j = Len(U) /\ Undo(U) = V
      /\ n = 0 => j = Len(U) /\ Undo(U) = W
  BY <1>1, <1>2 DEF EndsIn
<1> QED  BY <1>2, <1>3 DEF V, W

(* A reference leads to what is paused on the user's stack, if it does to  *)
(* anything that is.                                                       *)
LEMMA ReferredTo ==
  ASSUME IInv, NEW ref \in Thread \X Nat, Paused(ref)
  PROVE  /\ ref[1] = User /\ Place(ref) \in 1..Len(todo[User]) /\ HasPaused(todo[User][Place(ref)])
         /\ Dropped(ref) = [todo EXCEPT ![User] = [@ EXCEPT ![Place(ref)].prog = "none"]]
<1> DEFINE w == ref[1]
           m == Place(ref)
<1>1. w \in Thread /\ m \in DOMAIN todo[w] /\ todo[w][m].t \in {"exit", "restart"} /\ todo[w][m].prog # "none"
  BY DEF Paused
<1>2. ASSUME w \in Loop PROVE FALSE
  <2>1. todo[w] \in Seq(LoopTask(w))
    BY <1>2 DEF IInv, LoopInv, LoopStack
  <2> HIDE DEF w, m
  <2>2. todo[w][m] \in LoopTask(w)
    BY <1>1, <2>1
  <2> QED  BY <1>1, <2>2 DEF LoopTask
<1>3. w = User
  BY <1>1, <1>2, Roles
<1>4. todo[User] \in Seq(UserTask)
  BY DEF IInv, UserInv
<1>5. m \in 1..Len(todo[User])
  BY <1>1, <1>3, <1>4
<1>6. Dropped(ref) = [todo EXCEPT ![w] = [@ EXCEPT ![m].prog = "none"]]
  BY DEF Dropped
<1> QED  BY <1>1, <1>3, <1>5, <1>6 DEF HasPaused

(* The search for what is paused.                                          *)
LEMMA CountPlanned ==
  ASSUME IInv, Planned, Count(User)
  PROVE  Planned'
<1>1. PICK a \in Stops, b \in Blocks, k \in Kinds, p \in Names, i \in Nat, q \in Names, n \in 0..2 :
        Fine(a, b, k, p, i, q, n)
  BY DEF Planned
<1> DEFINE L == Left(q, n)
<1>0. Len(stack) \in Nat
  BY DEF IInv, Plain
<1> PICK m \in Nat : m = Len(stack)
  BY <1>0
<1>2. a = "none" /\ b = "count"
  BY <1>1, UserHead DEF Count, Stopping
<1>3. Fine("none", "count", k, p, i, q, n)
  BY <1>1, <1>2
<1>4. /\ current' = current /\ current \in Nat /\ stack' = stack /\ handle' = handle
      /\ program' = program /\ crashed' = crashed /\ wanted' = wanted /\ ret' = ret
  BY Numbers DEF Count, loopVars
<1>5. m \in Nat /\ (stack # <<>> => m > 0)
  BY DEF IInv, Plain
<1>6. todo'[User] = BlockOn("drop", k, p, m, L)
  <2>0. "count" \in Blocks /\ "stopped" \in Blocks
    BY DEF Blocks
  <2>1. Tail(todo[User]) = StopOn("read", 0, BlockOn("stopped", k, p, i, L)) /\ L \in Seq(TaskSet)
    <3>1. L \in Seq(TaskSet)
      BY LeftTop
    <3>2. Fine("none", b, k, p, i, q, n)
      BY <1>1, <1>2
    <3>3. b = "count" => Tail(todo[User]) = StopOn("read", 0, BlockOn("stopped", k, p, i, Left(q, n)))
      BY <3>2, BareTop
    <3> QED  BY <1>2, <3>1, <3>3
  <2>2. StopOn("read", 0, BlockOn("stopped", k, p, i, L)) = Cons(Task("read"), Cons(Task("want"), L))
    BY DEF StopOn, BlockOn, Commanding
  <2> DEFINE r == Cons(Task("read"), Cons(Task("want"), L))
  <2>3. r \in Seq(TaskSet) /\ On("drop", m) \in TaskSet
    <3>1. Task("read") \in TaskSet /\ Task("want") \in TaskSet
      BY PartTasks DEF Types
    <3>2. Cons(Task("want"), L) \in Seq(TaskSet)
      BY <2>1, <3>1, Pushed
    <3>3. On("drop", m) \in TaskSet
      BY <1>5, PartTasks DEF Types
    <3> QED  BY <3>1, <3>2, <3>3, Pushed
  <2>4. todo'[User] = <<On("drop", m)>> \o r
    BY <2>1, <2>2, UserThen DEF Count
  <2> HIDE DEF r
  <2>5. todo'[User] = Cons(On("drop", m), r)
    BY <2>3, <2>4, Prefixed
  <2> QED  BY <2>5 DEF BlockOn, Commanding, r
<1> HIDE DEF L
<1>7. Shaped("none", "drop", k, p, q, n) /\ Pausing("drop", m, q, n)'
  BY <1>3, <1>4, <1>5 DEF Fine, Shaped, Pausing, Commanding
<1>8. Standing("none", "drop", p, n)'
  BY <1>3, <1>4 DEF Fine, Shaped, Standing, Commanding
<1>9. Wanting("none", "drop", p, q)'
  BY <1>3, <1>4 DEF Fine, Shaped, Standing, Wanting, Good, Promised
<1>10. "drop" \in Blocks /\ m \in Nat /\ current' \in Nat /\ todo'[User] = BlockOn("drop", k, p, m, Left(q, n))
  BY <1>4, <1>5, <1>6 DEF Blocks, L
<1> QED  BY <1>7, <1>8, <1>9, <1>10, Bared

(* What is paused is found, or there is nothing: the stop goes on.         *)
LEMMA Ended ==
  ASSUME IInv, NEW k \in Kinds, NEW p \in Names, NEW i \in Nat,
         NEW q \in Names, NEW n \in 0..2, Fine("none", "drop", k, p, i, q, n),
         todo'[User] = StopOn("read", 0, BlockOn("stopped", k, p, i, Left("none", n))),
         UNCHANGED <<stack, current, handle, program, crashed, wanted, ret>>
  PROVE  Planned'
<1> DEFINE R == BlockOn("stopped", k, p, i, Left("none", n))
<1>1. todo'[User] = StopOn("read", current', R)
  BY DEF StopOn
<1>2. Shaped("read", "stopped", k, p, "none", n) /\ Pausing("stopped", i, "none", n)'
  BY DEF Fine, Shaped, Pausing, Commanding
<1>3. Standing("read", "stopped", p, n)'
  BY DEF Fine, Shaped, Standing, Commanding
<1>4. Wanting("read", "stopped", p, "none")'
  BY DEF Fine, Shaped, Standing, Wanting, Good, Promised
<1>5. Fine("read", "stopped", k, p, i, "none", n)'
  BY <1>1, <1>2, <1>3, <1>4 DEF Fine
<1>6. "read" \in Stops /\ "stopped" \in Blocks /\ "none" \in Names
  BY DEF Stops, Blocks, Names
<1> QED  BY <1>5, <1>6, Replanned

LEMMA DropEndsPlanned ==
  ASSUME IInv, Planned, DropNone(User) \/ DropFails(User)
  PROVE  Planned'
<1>1. PICK a \in Stops, b \in Blocks, k \in Kinds, p \in Names, i \in Nat, q \in Names, n \in 0..2 :
        Fine(a, b, k, p, i, q, n)
  BY DEF Planned
<1> DEFINE L == Left(q, n)
<1>2. a = "none" /\ b = "drop"
  <2>1. Running(User, "drop")
    BY DEF DropNone, DropFails
  <2> QED  BY <1>1, <2>1, UserHead DEF Stopping
<1>3. Fine("none", "drop", k, p, i, q, n)
  BY <1>1, <1>2
<1>4. UNCHANGED <<stack, current, handle, program, crashed, wanted, ret>>
  BY DEF DropNone, DropFails, loopVars
<1>5. CASE DropNone(User)
  <2>1. Top(User) = On("drop", i) /\ Tail(todo[User]) = StopOn("read", 0, BlockOn("stopped", k, p, i, L))
    <3>1. "drop" \in Blocks
      BY DEF Blocks
    <3> QED  BY <1>3, <3>1, BareTop
  <2>2. i = 0
    BY <1>5, <2>1, PartTasks DEF DropNone, Types
  <2>3. q = "none"
    BY <1>3, <2>2 DEF Fine, Pausing
  <2>4. todo'[User] = <<>> \o Tail(todo[User])
    BY <1>5, UserThen DEF DropNone
  <2>5. StopOn("read", 0, BlockOn("stopped", k, p, i, L)) \in Seq(TaskSet)
    <3>1. BlockOn("stopped", k, p, i, L) \in Seq(TaskSet)
      BY LeftTop, BlockTop DEF Blocks
    <3> QED  BY <3>1, StopTop DEF Stops
  <2>6. todo'[User] = StopOn("read", 0, BlockOn("stopped", k, p, i, L))
    BY <2>1, <2>4, <2>5, Prefixed
  <2> QED  BY <1>3, <1>4, <2>3, <2>6, Ended
<1>6. CASE DropFails(User)
  <2>1. Running(User, "drop") /\ Raise(User, "list index out of range")
    BY <1>6 DEF DropFails
  <2> QED  BY <1>4, <2>1, RaisePlanned
<1> QED  BY <1>5, <1>6

LEMMA DropOnPlanned ==
  ASSUME IInv, Planned, DropOn(User)
  PROVE  Planned'
<1>1. PICK a \in Stops, b \in Blocks, k \in Kinds, p \in Names, i \in Nat, q \in Names, n \in 0..2 :
        Fine(a, b, k, p, i, q, n)
  BY DEF Planned
<1> DEFINE L == Left(q, n)
           U == todo[User]
           ref == stack[i]
<1>2. a = "none" /\ b = "drop"
  BY <1>1, UserHead DEF DropOn, Stopping
<1>3. Fine("none", "drop", k, p, i, q, n)
  BY <1>1, <1>2
<1>4. UNCHANGED <<stack, current, handle, program, crashed, wanted, ret>> /\ current \in Nat
  BY Numbers DEF DropOn, loopVars
<1>5. /\ Top(User) = On("drop", i) /\ Tail(U) = StopOn("read", 0, BlockOn("stopped", k, p, i, L))
      /\ Top(User).i = i /\ L \in Seq(TaskSet)
  <2>1. "drop" \in Blocks
    BY DEF Blocks
  <2>2. Top(User) = On("drop", i) /\ Tail(U) = StopOn("read", 0, BlockOn("stopped", k, p, i, L))
        /\ L \in Seq(TaskSet)
    BY <1>3, <2>1, BareTop
  <2> QED  BY <2>2, PartTasks DEF Types
<1>6. i \in 1..Len(stack) /\ ref \in Thread \X Nat
  <2>1. stack \in Seq(Thread \X Nat) /\ i \in 1..Len(stack)
    BY <1>5 DEF DropOn, IInv, Plain
  <2> QED  BY <2>1
<1>7. U = BlockOn("drop", k, p, i, L)
  <2>1. "none" \in Stops /\ "drop" \in Blocks
    BY DEF Stops, Blocks
  <2> QED  BY <1>3, <2>1, UserRest
<1>8. n # 0 /\ EndsIn(U, Exit(q), StopOn("none", current, BlockOn("drop", k, p, i, Left("none", n))))
  <2>1. n # 0
    BY <1>3 DEF Fine, Shaped, Commanding
  <2>2. "none" \in Stops /\ "drop" \in Blocks
    BY DEF Stops, Blocks
  <2> QED  BY <1>3, <2>1, <2>2, UserEnds
<1> HIDE DEF L
<1>9. CASE ~Paused(ref)
  <2>1. Then(User, <<On("drop", i - 1)>>)
    BY <1>5, <1>9 DEF DropOn
  <2>2. i - 1 \in Nat
    BY <1>6
  <2>3. q # "none" => i - 1 > 0
    <3> SUFFICES ASSUME q # "none", i - 1 = 0 PROVE FALSE
      BY <2>2
    <3>1. current = 0 /\ stack[1] = <<User, 1>> /\ i = 1
      BY <1>3, <2>2 DEF Fine, Pausing
    <3>2. ref[1] = User /\ Place(ref) = Len(U)
      <4>1. Len(U) \in Nat
        BY <1>8 DEF EndsIn
      <4> QED  BY <3>1, <4>1 DEF Place
    <3>3. Len(U) \in DOMAIN U /\ U[Len(U)] = Exit(q)
      BY <1>8 DEF EndsIn
    <3>4. Exit(q).t = "exit" /\ Exit(q).prog = q
      BY PartTasks
    <3> QED  BY <1>9, <3>2, <3>3, <3>4 DEF Paused
  <2>4. todo'[User] = BlockOn("drop", k, p, i - 1, L)
    <3> DEFINE r == Cons(Task("read"), Cons(Task("want"), L))
    <3>1. Tail(U) = r
      BY <1>5 DEF StopOn, BlockOn, Commanding
    <3>2. r \in Seq(TaskSet) /\ On("drop", i - 1) \in TaskSet
      <4>1. Task("read") \in TaskSet /\ Task("want") \in TaskSet
        BY PartTasks DEF Types
      <4>2. Cons(Task("want"), L) \in Seq(TaskSet)
        BY <1>5, <4>1, Pushed
      <4>3. On("drop", i - 1) \in TaskSet
        BY <2>2, PartTasks DEF Types
      <4> QED  BY <4>1, <4>2, <4>3, Pushed
    <3>3. todo'[User] = <<On("drop", i - 1)>> \o r
      BY <2>1, <3>1, UserThen
    <3> HIDE DEF r
    <3>4. todo'[User] = Cons(On("drop", i - 1), r)
      BY <3>2, <3>3, Prefixed
    <3> QED  BY <3>4 DEF BlockOn, Commanding, r
  <2>5. Shaped("none", "drop", k, p, q, n) /\ Pausing("drop", i - 1, q, n)'
    BY <1>3, <1>4, <2>3 DEF Fine, Shaped, Pausing, Commanding
  <2>6. Standing("none", "drop", p, n)' /\ Wanting("none", "drop", p, q)'
    BY <1>3, <1>4 DEF Fine, Standing, Wanting, Good, Promised
  <2>7. "drop" \in Blocks /\ current' \in Nat
    BY <1>4 DEF Blocks
  <2> QED  BY <2>2, <2>4, <2>5, <2>6, <2>7, Bared DEF L
<1>10. CASE Paused(ref)
  <2> DEFINE m == Place(ref)
             V == BlockOn("drop", k, p, i, Left("none", n))
  <2>1. m \in 1..Len(U) /\ HasPaused(U[m])
        /\ Dropped(ref) = [todo EXCEPT ![User] = [@ EXCEPT ![m].prog = "none"]]
    BY <1>6, <1>10, ReferredTo
  <2>2. V \in Seq(TaskSet) /\ Tail(V) = StopOn("read", 0, BlockOn("stopped", k, p, i, Left("none", n)))
    <3>1. Left("none", n) \in Seq(TaskSet) /\ "drop" \in Blocks
      BY LeftTop DEF Names, Blocks
    <3> QED  BY <3>1, BlockTop DEF Onto
  <2>3. m = Len(U) /\ Undo(U) = V
    <3>1. "none" \in Stops
      BY DEF Stops
    <3>2. m = Len(U)
      BY <1>8, <2>1 DEF EndsIn
    <3>3. Undo(U) = StopOn("none", current, V)
      BY <1>8 DEF EndsIn
    <3> HIDE DEF V, U
    <3>4. StopOn("none", current, V) = V
      BY <1>4, <2>2, <3>1, StopTop
    <3> QED  BY <3>2, <3>3, <3>4
  <2>4. todo' = [Dropped(ref) EXCEPT ![User] = Tail(@)]
    BY <1>5, <1>10 DEF DropOn
  <2>5. todo'[User] = Tail([U EXCEPT ![m].prog = "none"])
    <3>1. User \in DOMAIN todo
      BY Roles DEF IInv, Plain
    <3> HIDE DEF m
    <3> QED  BY <2>1, <2>4, <3>1
  <2>6. todo'[User] = Tail(V)
    BY <2>3, <2>5 DEF Undo
  <2> HIDE DEF V, m
  <2> QED  BY <1>3, <1>4, <2>2, <2>6, Ended
<1> QED  BY <1>9, <1>10

(* What is wanted from now on.                                             *)
LEMMA WantPlanned ==
  ASSUME IInv, Planned, Want(User)
  PROVE  Planned'
<1>1. PICK a \in Stops, b \in Blocks, k \in Kinds, p \in Names, i \in Nat, q \in Names, n \in 0..2 :
        Fine(a, b, k, p, i, q, n)
  BY DEF Planned
<1>2. a = "none" /\ b \in {"started", "stopped"}
  BY <1>1, UserHead DEF Want, Stopping
<1>3. Fine("none", b, k, p, i, q, n)
  BY <1>1, <1>2
<1>4. /\ current' = current /\ current \in Nat /\ stack' = stack /\ handle' = handle
      /\ program' = program /\ crashed' = crashed /\ ret' = ret
      /\ wanted' = IF Top(User).prog # "none" /\ crashed[current] THEN "crashed" ELSE Top(User).prog
  BY Numbers DEF Want, loopVars
<1>6. Tail(todo[User]) = Left(q, n) /\ (b = "started" => Top(User).prog = p) /\ (b = "stopped" => Top(User).prog = "none")
  <2>1. Tail(todo[User]) = Left(q, n) /\ (b = "started" => Top(User) = Wish(p))
        /\ (b = "stopped" => Top(User) = Task("want"))
    BY <1>2, <1>3, BareTop
  <2>2. Wish(p).prog = p /\ Task("want").prog = "none"
    BY PartTasks DEF Task
  <2> QED  BY <2>1, <2>2
<1>7. todo'[User] = BlockOn("none", k, p, i, Left(q, n))
  <2>1. todo'[User] = <<>> \o Tail(todo[User])
    BY UserThen DEF Want
  <2>2. <<>> \o Left(q, n) = Left(q, n)
    BY LeftTop, Prefixed
  <2> QED  BY <1>6, <2>1, <2>2 DEF BlockOn, Commanding
<1>8. Shaped("none", "none", k, p, q, n) /\ Pausing("none", i, q, n)'
  BY <1>2, <1>3, <1>4 DEF Fine, Shaped, Pausing, Commanding
<1>9. Standing("none", "none", p, n)'
  BY <1>2, <1>3, <1>4 DEF Fine, Shaped, Standing, Commanding
<1>10. Wanting("none", "none", p, q)'
  <2>1. CASE b = "started"
    BY <1>3, <1>4, <1>6, <2>1 DEF Fine, Shaped, Standing, Wanting, Good, Promised, Programs
  <2>2. CASE b = "stopped"
    BY <1>3, <1>4, <1>6, <2>2 DEF Fine, Shaped, Standing, Wanting, Good, Promised, Programs
  <2> QED  BY <1>2, <2>1, <2>2
<1>11. "none" \in Blocks /\ current' \in Nat
  BY <1>4 DEF Blocks
<1> QED  BY <1>7, <1>8, <1>9, <1>10, <1>11, Bared

(* What an instruction does inside of its pauser, on what is to come.      *)
Doing(k, p, a, b, kk, pp) ==
  \/ a = "read" /\ b = "start" /\ k \in {"loop", "start"} /\ pp = p
  \/ a = "none" /\ b = "count" /\ k = "stop"
  \/ a = "none" /\ b = "none" /\ k = "status"
  \/ a = "none" /\ b \in {"work", "raise"} /\ k \in {"infer", "list", "assume"}
  \/ a = "none" /\ b = "execute" /\ <<kk, pp>> \in Inner /\ k \in {"infer", "list"} /\ <<k, p>> \notin Inner
Done(k, p, R, a, b, kk, pp) ==
  /\ a \in Stops /\ b \in Blocks /\ kk \in Kinds /\ pp \in Names /\ Doing(k, p, a, b, kk, pp)
  /\ \A c \in Nat : Body(k, p) \o R = StopOn(a, c, BlockOn(b, kk, pp, 0, R))

LEMMA OneDone ==
  ASSUME NEW k \in Kinds, NEW p \in Names, NEW R \in Seq(TaskSet), NEW b \in {"work", "raise"},
         k \in {"infer", "list", "assume"}, Body(k, p) = <<Task(b)>>
  PROVE  Done(k, p, R, "none", b, k, p)
<1>1. Task(b) \in TaskSet
  BY PartTasks DEF Types
<1>2. Body(k, p) \o R = Cons(Task(b), R)
  BY <1>1, Prefixed
<1>3. "none" \in Stops /\ b \in Blocks
  BY DEF Stops, Blocks
<1> QED  BY <1>2, <1>3 DEF Done, Doing, StopOn, BlockOn, Commanding

LEMMA NextDone ==
  ASSUME NEW k \in Kinds, NEW p \in Names, NEW R \in Seq(TaskSet), NEW kk, <<kk, "none">> \in Inner,
         k \in {"infer", "list"}, <<k, p>> \notin Inner, Body(k, p) = <<Execute(kk, "none")>>
  PROVE  Done(k, p, R, "none", "execute", kk, "none")
<1>1. kk \in Kinds /\ "none" \in Names
  BY DEF Inner, Kinds, Names
<1>2. Execute(kk, "none") = Command("execute", kk, "none")
  BY DEF Execute, Command
<1>3. Command("execute", kk, "none") \in TaskSet
  BY <1>1, PartTasks DEF Types
<1>4. Body(k, p) \o R = Cons(Command("execute", kk, "none"), R)
  BY <1>2, <1>3, Prefixed
<1>5. "none" \in Stops /\ "execute" \in Blocks
  BY DEF Stops, Blocks, Commanding
<1> QED  BY <1>1, <1>4, <1>5 DEF Done, Doing, StopOn, BlockOn, Commanding

LEMMA BodyOn ==
  ASSUME NEW k \in Kinds, NEW p \in Names, <<k, p>> \in Outer \cup Inner, NEW R \in Seq(TaskSet)
  PROVE  \E a, b, kk, pp : Done(k, p, R, a, b, kk, pp)
<1>0. /\ k \in {"infer", "loop", "start", "stop", "list", "assume", "status"}
      /\ k = "infer" => p \in Programs
      /\ k = "list" => p \in {"none", "outer"}
  BY DEF Outer, Inner
<1>1. CASE k = "assume" \/ (k = "list" /\ p # "outer")
  <2>1. Body(k, p) = <<Task("work")>>
    BY <1>1 DEF Body
  <2> QED  BY <1>1, <2>1, OneDone
<1>2. CASE k = "list" /\ p = "outer"
  <2>1. Body(k, p) = <<Execute("list", "none")>>
    BY <1>2 DEF Body
  <2>2. <<"list", "none">> \in Inner /\ <<"list", "outer">> \notin Inner
    BY DEF Inner
  <2> QED  BY <1>2, <2>1, <2>2, NextDone
<1>3. CASE k = "infer" /\ p = "mh"
  <2>1. Body(k, p) = <<Task("work")>>
    BY <1>3 DEF Body, Inferring
  <2> QED  BY <1>3, <2>1, OneDone
<1>4. CASE k = "infer" /\ p = "nested"
  <2>1. Body(k, p) = <<Execute("assume", "none")>>
    BY <1>4 DEF Body, Inferring
  <2>2. <<"assume", "none">> \in Inner /\ <<k, p>> \notin Inner
    BY <1>4 DEF Inner
  <2> QED  BY <1>4, <2>1, <2>2, NextDone
<1>5. CASE k = "infer" /\ p = "endloop"
  <2>1. Body(k, p) = <<Execute("stop", "none")>>
    BY <1>5 DEF Body, Inferring
  <2>2. <<"stop", "none">> \in Inner /\ <<k, p>> \notin Inner
    BY <1>5 DEF Inner
  <2> QED  BY <1>5, <2>1, <2>2, NextDone
<1>6. CASE k = "infer" /\ p = "crash"
  <2>1. Body(k, p) = <<Task("raise")>>
    BY <1>6 DEF Body, Inferring
  <2> QED  BY <1>6, <2>1, OneDone
<1>7. CASE k = "status"
  <2>1. Body(k, p) = <<>>
    BY <1>7 DEF Body
  <2>2. <<>> \o R = R
    BY Prefixed
  <2>3. "none" \in Stops /\ "none" \in Blocks
    BY DEF Stops, Blocks
  <2>4. Done(k, p, R, "none", "none", k, p)
    BY <1>7, <2>1, <2>2, <2>3 DEF Done, Doing, StopOn, BlockOn, Commanding
  <2> QED  BY <2>4
<1>8. CASE k = "stop"
  <2>0. Task("count") \in TaskSet /\ Task("read") \in TaskSet /\ Task("want") \in TaskSet
    BY PartTasks DEF Types
  <2>1. Body(k, p) = (<<Task("count")>> \o <<Task("read")>>) \o <<Task("want")>>
    BY <1>8 DEF Body, Stop
  <2> DEFINE x == Task("count")
             y == Task("read")
             z == Task("want")
  <2>2. Body(k, p) = (<<x>> \o <<y>>) \o <<z>> /\ x \in TaskSet /\ y \in TaskSet /\ z \in TaskSet
    BY <2>0, <2>1
  <2> HIDE DEF x, y, z
  <2>3. ((<<x>> \o <<y>>) \o <<z>>) \o R = Cons(x, Cons(y, Cons(z, R)))
    <3>1. <<y>> \in Seq(TaskSet) /\ <<z>> \in Seq(TaskSet)
      BY <2>2
    <3>2. <<x>> \o <<y>> = Cons(x, <<y>>)
      BY <2>2, <3>1, Prefixed
    <3>3. Cons(x, <<y>>) \o <<z>> = Cons(x, <<y>> \o <<z>>)
      BY <2>2, <3>1, Prefixed
    <3>4. <<y>> \o <<z>> = Cons(y, <<z>>) /\ Cons(y, <<z>>) \in Seq(TaskSet)
      BY <2>2, <3>1, Prefixed, Pushed
    <3>5. Cons(x, Cons(y, <<z>>)) \o R = Cons(x, Cons(y, <<z>>) \o R)
      BY <2>2, <3>4, Prefixed
    <3>6. Cons(y, <<z>>) \o R = Cons(y, <<z>> \o R)
      BY <2>2, <3>1, Prefixed
    <3>7. <<z>> \o R = Cons(z, R)
      BY <2>2, Prefixed
    <3> QED  BY <3>2, <3>3, <3>4, <3>5, <3>6, <3>7
  <2>4. "none" \in Stops /\ "count" \in Blocks
    BY DEF Stops, Blocks
  <2>5. Done(k, p, R, "none", "count", k, p)
    BY <1>8, <2>2, <2>3, <2>4 DEF Done, Doing, StopOn, BlockOn, Commanding, x, y, z
  <2> QED  BY <2>5
<1>9. CASE k \in {"loop", "start"}
  <2> DEFINE x == Task("read")
             y == New(p)
             z == Task("launch")
             w == Wish(p)
  <2>1. Body(k, p) = (<<x>> \o <<y, z>>) \o <<w>>
    BY <1>9 DEF Body, Start, Stop, New, Wish
  <2>2. x \in TaskSet /\ y \in TaskSet /\ z \in TaskSet /\ w \in TaskSet
    BY PartTasks DEF Types
  <2> HIDE DEF x, y, z, w
  <2>3. ((<<x>> \o <<y, z>>) \o <<w>>) \o R = Cons(x, Cons(y, Cons(z, Cons(w, R))))
    <3>1. <<y, z>> \in Seq(TaskSet) /\ <<z>> \in Seq(TaskSet) /\ <<w>> \in Seq(TaskSet)
      BY <2>2
    <3>2. <<x>> \o <<y, z>> = Cons(x, <<y, z>>)
      BY <2>2, <3>1, Prefixed
    <3>3. Cons(x, <<y, z>>) \o <<w>> = Cons(x, <<y, z>> \o <<w>>)
      BY <2>2, <3>1, Prefixed
    <3>4. <<y, z>> \o <<w>> = Cons(y, Cons(z, <<w>>))
      <4>1. \A f, g \in TaskSet : <<f, g>> \o <<w>> = Cons(f, Cons(g, <<w>>))
        BY <3>1, Prefixed
      <4> QED  BY <2>2, <4>1
    <3>5. Cons(z, <<w>>) \in Seq(TaskSet)
      BY <2>2, <3>1, Pushed
    <3>6. Cons(y, Cons(z, <<w>>)) \in Seq(TaskSet)
      BY <2>2, <3>5, Pushed
    <3>7. Cons(x, Cons(y, Cons(z, <<w>>))) \o R = Cons(x, Cons(y, Cons(z, <<w>>)) \o R)
      BY <2>2, <3>6, Prefixed
    <3>8. Cons(y, Cons(z, <<w>>)) \o R = Cons(y, Cons(z, <<w>>) \o R)
      BY <2>2, <3>5, Prefixed
    <3>9. Cons(z, <<w>>) \o R = Cons(z, <<w>> \o R) /\ <<w>> \o R = Cons(w, R)
      BY <2>2, <3>1, Prefixed
    <3> QED  BY <3>2, <3>3, <3>4, <3>7, <3>8, <3>9
  <2>4. "read" \in Stops /\ "start" \in Blocks
    BY DEF Stops, Blocks
  <2>5. \A c \in Nat : Cons(x, Cons(y, Cons(z, Cons(w, R)))) = StopOn("read", c, BlockOn("start", k, p, 0, R))
    BY DEF StopOn, BlockOn, Commanding, x, y, z, w
  <2>6. Done(k, p, R, "read", "start", k, p)
    BY <1>9, <2>1, <2>3, <2>4, <2>5 DEF Done, Doing
  <2> QED  BY <2>6
<1> QED  BY <1>0, <1>1, <1>2, <1>3, <1>4, <1>5, <1>6, <1>7, <1>8, <1>9 DEF Programs

(* The exits to come, and the references there are.                        *)
LEMMA NothingWaits ==
  ASSUME IInv, Counted, current = 0, ExitsOf(todo[User]) = {}
  PROVE  stack = <<>>
<1>1. \A o \in Loop : todo[o] = <<>>
  BY Numbers DEF IInv, LoopInv
<1>2. \A th \in Thread : ExitsOf(todo[th]) = {}
  BY <1>1, Roles DEF ExitsOf
<1>3. Waiting(todo) = {}
  BY <1>2 DEF Waiting
<1>4. stack \in Seq(Thread \X Nat) /\ Len(stack) = 0
  BY <1>3, FS_EmptySet DEF Counted
<1> QED  BY <1>4

LEMMA TwoWait ==
  ASSUME Counted, todo[User] # <<>>, Tail(todo[User]) # <<>>,
         Head(todo[User]).t = "exit", Head(Tail(todo[User])).t = "exit"
  PROVE  Len(stack) \in Nat /\ Len(stack) > 1
<1> DEFINE U == todo[User]
           R == UNION {{th} \X ExitsOf(todo[th]) : th \in Thread \ {User}}
<1>1. U \in Seq(AskedTask) /\ (\A th \in Thread : todo[th] \in Seq(AskedTask)) /\ User \in Thread
  BY Roles DEF Counted
<1>2. Tail(U) \in Seq(AskedTask) /\ Cardinality(ExitsOf(U)) = Cardinality(ExitsOf(Tail(U))) + 1
  BY <1>1, NextExits
<1>3. Tail(Tail(U)) \in Seq(AskedTask)
      /\ Cardinality(ExitsOf(Tail(U))) = Cardinality(ExitsOf(Tail(Tail(U)))) + 1
  BY <1>2, NextExits
<1>4. Cardinality(ExitsOf(Tail(Tail(U)))) \in Nat
  BY <1>3, ExitsFinite
<1>5. Cardinality(Waiting(todo)) = Cardinality(R) + Cardinality(ExitsOf(U)) /\ Cardinality(R) \in Nat
  BY <1>1, OneThread
<1>6. Len(stack) = Cardinality(Waiting(todo))
  BY DEF Counted
<1> HIDE DEF U, R
<1> QED  BY <1>2, <1>3, <1>4, <1>5, <1>6

(* The user's thread enters a pauser and leaves it.                        *)
LEMMA EnterPlanned ==
  ASSUME IInv, Counted, Planned, Enter(User)
  PROVE  Planned'
<1>1. PICK a \in Stops, b \in Blocks, k \in Kinds, p \in Names, i \in Nat, q \in Names, n \in 0..2 :
        Fine(a, b, k, p, i, q, n)
  BY DEF Planned
<1>2. a = "none" /\ b \in {"pause", "enter"}
  <2>1. Running(User, "pause") \/ Running(User, "enter")
    BY DEF Enter
  <2>2. Running(User, "pause") => a = "none" /\ b = "pause"
    BY <1>1, UserHead DEF Stopping, Commanding
  <2>3. Running(User, "enter") => a = "none" /\ b = "enter"
    BY <1>1, UserHead DEF Stopping, Commanding
  <2> QED  BY <2>1, <2>2, <2>3
<1>3. Fine("none", b, k, p, i, q, n) /\ b \in Commanding
  BY <1>1, <1>2 DEF Commanding
<1>4. ret[User] \in Names
  BY Roles DEF IInv, Plain
<1> PICK e \in Names : e = IF b = "pause" THEN ret[User] ELSE "none"
  BY <1>4 DEF Names
<1> PICK m \in 1..2, d \in Names : (n = 0 /\ m = 1 /\ d = e) \/ (n = 1 /\ m = 2 /\ d = q)
  <2>1. n \in {0, 1}
    BY <1>2, <1>3 DEF Fine, Shaped
  <2> QED  BY <2>1
<1>5. current' = current /\ current \in Nat /\ handle' = handle /\ program' = program
      /\ crashed' = crashed /\ wanted' = wanted /\ ret' = ret
      /\ stack' = Append(stack, <<User, Len(todo[User])>>)
  BY Numbers DEF Enter, loopVars
<1>6. n = 1 => e = "none"
  BY <1>2, <1>3 DEF Fine, Standing
<1>7. Top(User) = Command(b, k, p) /\ Tail(todo[User]) = Left(q, n) /\ Left(q, n) \in Seq(TaskSet)
  BY <1>3, BareTop
<1>8. Top(User).t = b /\ Top(User).kind = k /\ Top(User).prog = p
  BY <1>7 DEF Command
<1>9. todo'[User] = (Body(k, p) \o <<Exit(e)>>) \o Left(q, n)
  BY <1>2, <1>7, <1>8, UserThen DEF Enter
<1>10. <<k, p>> \in Outer \cup Inner /\ (n = 1 => <<k, p>> \in Inner) /\ (n = 0 => <<k, p>> \in Outer)
  BY <1>3 DEF Fine, Shaped
<1>11. Exit(e) \in TaskSet /\ Left(d, m) \in Seq(TaskSet) /\ <<Exit(e)>> \o Left(q, n) = Left(d, m)
  <2>0. m \in 0..2
    OBVIOUS
  <2>1. Exit(e) \in TaskSet /\ Left(d, m) \in Seq(TaskSet)
    BY <2>0, PartTasks, LeftTop
  <2>2. <<Exit(e)>> \o Left(q, n) = Cons(Exit(e), Left(q, n))
    BY <1>7, <2>1, Prefixed
  <2> QED  BY <1>6, <2>1, <2>2 DEF Left
<1>12. PICK aa, bb, kk, pp : Done(k, p, Left(d, m), aa, bb, kk, pp)
  BY <1>10, <1>11, BodyOn
<1>13. Body(k, p) \in Seq(TaskSet)
  <2>0. <<>> \in Seq(TaskSet) /\ 0 \in Nat
    OBVIOUS
  <2>1. PICK aaa, bbb, kkk, ppp : Done(k, p, <<>>, aaa, bbb, kkk, ppp)
    BY <1>10, <2>0, BodyOn
  <2> DEFINE R == BlockOn(bbb, kkk, ppp, 0, <<>>)
  <2>2. R \in Seq(TaskSet)
    <3>1. bbb \in Blocks /\ kkk \in Kinds /\ ppp \in Names
      BY <2>1 DEF Done
    <3> QED  BY <2>0, <3>1, BlockTop
  <2> HIDE DEF R
  <2>3. StopOn(aaa, 0, R) \in Seq(TaskSet)
    BY <2>1, <2>2, StopTop DEF Done
  <2>4. Body(k, p) \o <<>> \in Seq(TaskSet)
    BY <2>1, <2>3 DEF Done, R
  <2>5. Body(k, p) \o <<>> = Body(k, p)
    BY <1>10 DEF Body, Inferring, Start, Stop
  <2> QED  BY <2>4, <2>5
<1>14. todo'[User] = StopOn(aa, current', BlockOn(bb, kk, pp, 0, Left(d, m)))
  <2>1. (Body(k, p) \o <<Exit(e)>>) \o Left(q, n) = Body(k, p) \o (<<Exit(e)>> \o Left(q, n))
    <3> DEFINE x == <<Exit(e)>>
    <3>1. x \in Seq(TaskSet)
      BY <1>11
    <3> HIDE DEF x
    <3>2. (Body(k, p) \o x) \o Left(q, n) = Body(k, p) \o (x \o Left(q, n))
      BY <1>7, <1>13, <3>1, ConcatAssociative
    <3> QED  BY <3>2 DEF x
  <2>2. Body(k, p) \o Left(d, m) = StopOn(aa, current, BlockOn(bb, kk, pp, 0, Left(d, m)))
    BY <1>5, <1>12 DEF Done
  <2> QED  BY <1>5, <1>9, <1>11, <2>1, <2>2
<1>15. aa \in Stops /\ bb \in Blocks /\ kk \in Kinds /\ pp \in Names /\ Doing(k, p, aa, bb, kk, pp)
  BY <1>12 DEF Done
<1>16. k = "infer" \/ k = "list" => b = "pause"
  BY <1>2, <1>3 DEF Fine, Shaped, Unpaused
<1>17. m = 2 => k \in {"assume", "stop", "list"} /\ <<k, p>> \in Inner
  BY <1>10 DEF Inner
<1>18. Shaped(aa, bb, kk, pp, d, m)
  <2>1. k \in {"loop", "start"} => p \in Programs
    BY <1>10 DEF Outer, Inner
  <2> QED  BY <1>15, <1>17, <2>1 DEF Shaped, Doing, Commanding
<1>19. Standing(aa, bb, pp, m)'
  BY <1>2, <1>3, <1>5, <1>15, <1>16, <1>17 DEF Fine, Standing, Doing, Commanding
<1>20. d # "none" => current = 0 /\ stack' # <<>> /\ stack'[1] = <<User, 1>>
  <2> SUFFICES ASSUME d # "none" PROVE current = 0 /\ stack' # <<>> /\ stack'[1] = <<User, 1>>
    OBVIOUS
  <2>0. stack \in Seq(Thread \X Nat) /\ Len(stack) \in Nat
    BY DEF Counted
  <2>1. CASE n = 0
    <3>1. b = "pause" /\ current = 0
      BY <1>3, <2>1 DEF Fine, Standing
    <3>2. todo[User] # <<>> /\ Head(todo[User]).t # "exit" /\ Tail(todo[User]) = <<>>
      <4>1. todo[User] # <<>>
        BY DEF Enter, Running
      <4>2. Tail(todo[User]) = <<>>
        BY <1>7, <2>1 DEF Left
      <4> QED  BY <1>8, <3>1, <4>1, <4>2 DEF Top
    <3>3. todo[User] \in Seq(TaskSet)
      BY DEF IInv, UserInv, UserTask
    <3>4. Len(todo[User]) = 1 /\ todo[User][1] = Head(todo[User])
      <4> DEFINE s == todo[User]
      <4>1. s \in Seq(TaskSet) /\ s # <<>> /\ Tail(s) = <<>>
        BY <3>2, <3>3
      <4> HIDE DEF s
      <4>2. Len(s) \in Nat \ {0} /\ Len(Tail(s)) = Len(s) - 1 /\ Head(s) = s[1]
        BY <4>1
      <4>4. Len(<<>>) = 0
        OBVIOUS
      <4>5. Len(s) - 1 = 0
        BY <4>1, <4>2, <4>4, Zenon
      <4> DEFINE l == Len(s)
      <4>6. l \in Nat /\ l - 1 = 0
        BY <4>2, <4>5
      <4> HIDE DEF l
      <4>7. l = 1
        BY <4>6
      <4>3. Len(s) = 1 /\ s[1] = Head(s)
        BY <4>2, <4>7, Zenon DEF l
      <4> QED  BY <4>3 DEF s
    <3>5. ExitsOf(todo[User]) = {}
      BY <3>2, <3>3, <3>4 DEF ExitsOf
    <3>6. stack = <<>>
      BY <3>1, <3>5, NothingWaits
    <3> QED  BY <1>5, <3>1, <3>4, <3>6
  <2>2. CASE n = 1
    <3>1. d = q /\ current = 0
      BY <1>3, <2>2 DEF Fine, Standing
    <3>2. stack # <<>> /\ stack[1] = <<User, 1>>
      BY <1>3, <3>1 DEF Fine, Pausing
    <3> DEFINE x == <<User, Len(todo[User])>>
    <3>3. Append(stack, x) # <<>> /\ Append(stack, x)[1] = stack[1]
      <4> HIDE DEF x
      <4>1. Len(stack) > 0
        BY <2>0, <3>2
      <4>2. 1 \in 1..Len(stack)
        BY <2>0, <4>1
      <4> QED  BY <2>0, <4>1, <4>2
    <3> QED  BY <1>5, <3>1, <3>2, <3>3
  <2> QED  BY <2>1, <2>2
<1>21. Pausing(bb, 0, d, m)'
  BY <1>5, <1>15, <1>20 DEF Pausing, Doing
<1>22. Wanting(aa, bb, pp, d)'
  <2>1. b = "pause" => current = 0
    BY <1>3 DEF Fine, Standing
  <2>2. wanted \in Promised => Good \/ (current = 0 /\ d = wanted)
    BY <1>2, <1>3, <1>6, <2>1 DEF Fine, Shaped, Wanting, Promised, Programs
  <2>3. wanted = "none" => d = "none" /\ current = 0
    BY <1>2, <1>3 DEF Fine, Wanting
  <2>4. Good' <=> Good
    BY <1>5 DEF Good
  <2> QED  BY <1>5, <1>15, <2>2, <2>3, <2>4 DEF Wanting, Doing
<1>23. Fine(aa, bb, kk, pp, 0, d, m)'
  BY <1>14, <1>18, <1>19, <1>21, <1>22 DEF Fine
<1> QED  BY <1>15, <1>23, Replanned

LEMMA LeavePlanned ==
  ASSUME IInv, Counted, Planned, Leave(User)
  PROVE  Planned'
<1>1. PICK a \in Stops, b \in Blocks, k \in Kinds, p \in Names, i \in Nat, q \in Names, n \in 0..2 :
        Fine(a, b, k, p, i, q, n)
  BY DEF Planned
<1>2. a = "none" /\ b = "none" /\ n # 0
  BY <1>1, UserHead DEF Leave, Stopping, Commanding
<1>3. Fine("none", "none", k, p, i, q, n)
  BY <1>1, <1>2
<1>4. current' = current /\ current \in Nat /\ handle' = handle /\ program' = program
      /\ crashed' = crashed /\ wanted' = wanted /\ ret' = ret /\ stack' = Front(stack)
  BY Numbers DEF Leave, loopVars
<1>5. todo[User] = Left(q, n)
  <2>1. "none" \in Stops /\ "none" \in Blocks
    BY DEF Stops, Blocks
  <2> QED  BY <1>3, <2>1, UserRest
<1> PICK pp \in Names, d \in Names, m \in 0..1 :
      (n = 1 /\ pp = q /\ d = "none" /\ m = 0) \/ (n = 2 /\ pp = "none" /\ d = q /\ m = 1)
  BY <1>2 DEF Names
<1>6. Top(User) = Exit(pp) /\ Tail(todo[User]) = Left(d, m) /\ Left(d, m) \in Seq(TaskSet)
  <2>0. m \in 0..2
    OBVIOUS
  <2>1. Head(Left(q, n)) = Exit(pp) /\ Tail(Left(q, n)) = Left(d, m)
    <3>1. /\ n = 1 => Head(Left(q, n)) = Exit(q) /\ Tail(Left(q, n)) = Left("none", 0)
          /\ n = 2 => Head(Left(q, n)) = Exit("none") /\ Tail(Left(q, n)) = Left(q, 1)
      BY LeftTop
    <3> QED  BY <3>1
  <2>2. Left(d, m) \in Seq(TaskSet)
    BY <2>0, LeftTop
  <2> QED  BY <1>5, <2>1, <2>2 DEF Top
<1>7. todo'[User] = BlockOn("restart", k, pp, i, Left(d, m))
  <2>1. Again(pp) \in TaskSet /\ [Exit(pp) EXCEPT !.t = "restart"] = Again(pp)
    BY PartTasks DEF Again
  <2>2. todo'[User] = <<Again(pp)>> \o Left(d, m)
    BY <1>6, <2>1, UserThen DEF Leave
  <2>3. todo'[User] = Cons(Again(pp), Left(d, m))
    BY <1>6, <2>1, <2>2, Prefixed
  <2> QED  BY <2>3 DEF BlockOn, Commanding
<1>8. d # "none" => current = 0 /\ stack' # <<>> /\ stack'[1] = <<User, 1>>
  <2> SUFFICES ASSUME d # "none" PROVE current = 0 /\ stack' # <<>> /\ stack'[1] = <<User, 1>>
    OBVIOUS
  <2>1. n = 2 /\ d = q
    OBVIOUS
  <2>2. current = 0 /\ stack[1] = <<User, 1>>
    BY <1>3, <2>1 DEF Fine, Pausing
  <2>3. Len(stack) \in Nat /\ Len(stack) > 1
    <3>1. todo[User] # <<>> /\ Head(todo[User]).t = "exit"
      BY DEF Leave, Running, Top
    <3>2. Left(q, 1) # <<>> /\ Head(Left(q, 1)) = Exit(q) /\ Exit(q).t = "exit"
      BY LeftTop, PartTasks
    <3>4. Tail(todo[User]) = Left(q, 1)
      BY <1>6, <2>1
    <3>3. Tail(todo[User]) # <<>> /\ Head(Tail(todo[User])).t = "exit"
      BY <3>2, <3>4
    <3> QED  BY <3>1, <3>3, TwoWait
  <2>4. stack \in Seq(Thread \X Nat)
    BY DEF Counted
  <2>5. stack' = SubSeq(stack, 1, Len(stack) - 1)
    BY <1>4 DEF Front
  <2>6. Len(stack') = Len(stack) - 1 /\ stack'[1] = stack[1]
    <3>1. 1 \in Int /\ Len(stack) - 1 \in Int /\ \A j \in 1 .. Len(stack) - 1 : j \in DOMAIN stack /\ stack[j] \in Thread \X Nat
      BY <2>3, <2>4
    <3> DEFINE w == SubSeq(stack, 1, Len(stack) - 1)
    <3>2. Len(w) = Len(stack) - 1 /\ \A j \in 1..Len(w) : w[j] = stack[1 + j - 1]
      BY <2>3, <2>4, <3>1, SubSeqProperties
    <3> HIDE DEF w
    <3>3. w[1] = stack[1]
      BY <2>3, <3>2
    <3> QED  BY <2>5, <3>2, <3>3 DEF w
  <2>7. stack' # <<>>
    BY <2>3, <2>6
  <2> QED  BY <2>2, <2>6, <2>7
<1>9. Shaped("none", "restart", k, pp, d, m) /\ Pausing("restart", i, d, m)'
  BY <1>3, <1>4, <1>8 DEF Fine, Shaped, Pausing, Commanding
<1>10. Standing("none", "restart", pp, m)'
  BY <1>3, <1>4 DEF Fine, Standing, Commanding
<1>11. Wanting("none", "restart", pp, d)'
  <2>1. wanted \in Promised => Good \/ (current = 0 /\ q = wanted)
    BY <1>3 DEF Fine, Wanting
  <2>2. wanted = "none" => q = "none" /\ current = 0
    BY <1>3 DEF Fine, Wanting
  <2>3. Good' <=> Good
    BY <1>4 DEF Good
  <2> QED  BY <1>4, <2>1, <2>2, <2>3 DEF Wanting
<1>12. "restart" \in Blocks /\ m \in 0..2 /\ current' \in Nat
  BY <1>4 DEF Blocks
<1> QED  BY <1>7, <1>9, <1>10, <1>11, <1>12, Bared

(* What a loop has to do: it stops, or is stopped, only by its own         *)
(* program, and the stop fails before it is told what is wanted.           *)
Joining == {"read", "grab", "join", "joinNone"}
Fits(x, p) ==
  /\ x.t \in {"execute", "enter"} => (x.kind = "stop" => p = "endloop") /\ (x.kind = "infer" => x.prog = p)
  /\ x.t \in Joining \cup {"release", "count", "drop", "want"} => p = "endloop"
Fitted(s, p) == /\ s \in Seq(TaskSet) /\ \A j \in 1..Len(s) : Fits(s[j], p)
                /\ \A j \in 1..Len(s) : s[j].t = "want" => j = 1 \/ s[j - 1].t \in Joining
Stands(s, p) == Fitted(s, p) /\ (s # <<>> => Head(s).t # "want")
Programmed   == handle \in [Loop -> BOOLEAN] /\ \A o \in Loop : Stands(todo[o], program[o])

LEMMA FittedCons ==
  ASSUME NEW p, NEW r, Fitted(r, p), NEW x \in TaskSet, Fits(x, p),
         r # <<>> /\ Head(r).t = "want" => x.t \in Joining
  PROVE  Fitted(Cons(x, r), p)
<1> DEFINE s == Cons(x, r)
<1>1. r \in Seq(TaskSet) /\ Len(r) \in Nat
  BY DEF Fitted
<1>2. s \in Seq(TaskSet) /\ Len(s) = Len(r) + 1 /\ s[1] = x
  BY <1>1, Pushed
<1>3. \A j \in 1..Len(r) : s[j + 1] = r[j]
  BY <1>1, Pushed
<1> HIDE DEF s
<1>4. ASSUME NEW j \in 1..Len(s) PROVE Fits(s[j], p) /\ (s[j].t = "want" => j = 1 \/ s[j - 1].t \in Joining)
  <2>1. CASE j = 1
    BY <1>2, <2>1
  <2>2. CASE j # 1
    <3>1. j - 1 \in 1..Len(r) /\ (j - 1) + 1 = j
      BY <1>1, <1>2, <2>2
    <3>2. s[j] = r[j - 1] /\ Fits(r[j - 1], p)
      BY <1>3, <3>1 DEF Fitted
    <3>3. CASE j - 1 = 1
      <4>1. r # <<>> /\ Head(r) = r[1] /\ s[j] = r[1] /\ s[j - 1] = x
        BY <1>1, <1>2, <3>1, <3>2, <3>3
      <4> QED  BY <3>2, <4>1
    <3>4. CASE j - 1 # 1
      <4>1. (j - 1) - 1 \in 1..Len(r) /\ ((j - 1) - 1) + 1 = j - 1
        BY <1>1, <3>1, <3>4
      <4>2. s[j - 1] = r[(j - 1) - 1]
        BY <1>3, <4>1
      <4>3. r[j - 1].t = "want" => r[(j - 1) - 1].t \in Joining
        BY <3>1, <3>4 DEF Fitted
      <4> QED  BY <3>2, <4>2, <4>3
    <3> QED  BY <3>3, <3>4
  <2> QED  BY <2>1, <2>2
<1> QED  BY <1>2, <1>4 DEF Fitted, s

LEMMA FittedFrom ==
  ASSUME NEW p, NEW s, Fitted(s, p), NEW k \in 1 .. Len(s) + 1
  PROVE  LET r == SubSeq(s, k, Len(s))
         IN Fitted(r, p) /\ Len(r) = Len(s) - k + 1 /\ (r # <<>> => k \in 1..Len(s) /\ Head(r) = s[k])
<1> DEFINE r == SubSeq(s, k, Len(s))
<1>0. s \in Seq(TaskSet) /\ Len(s) \in Nat
  BY DEF Fitted
<1>1. r \in Seq(TaskSet) /\ Len(r) = Len(s) - k + 1 /\ \A j \in 1..Len(r) : r[j] = s[k + j - 1]
  <2>1. k \in Int /\ k >= 1 /\ k <= Len(s) + 1
    BY <1>0
  <2> QED  BY <1>0, <2>1, SubSeqProperties
<1> HIDE DEF r
<1>2. ASSUME NEW j \in 1..Len(r) PROVE Fits(r[j], p) /\ (r[j].t = "want" => j = 1 \/ r[j - 1].t \in Joining)
  <2>1. k + j - 1 \in 1..Len(s)
    BY <1>0, <1>1
  <2>2. r[j] = s[k + j - 1] /\ Fits(s[k + j - 1], p)
    BY <1>1, <2>1 DEF Fitted
  <2>3. CASE j = 1
    BY <2>2, <2>3
  <2>4. CASE j # 1
    <3>1. j - 1 \in 1..Len(r) /\ k + (j - 1) - 1 = (k + j - 1) - 1 /\ k + j - 1 # 1
      BY <1>0, <1>1, <2>4
    <3>2. r[j - 1] = s[(k + j - 1) - 1]
      BY <1>1, <3>1
    <3> QED  BY <2>1, <2>2, <3>1, <3>2 DEF Fitted
  <2> QED  BY <2>3, <2>4
<1>3. ASSUME r # <<>> PROVE k \in 1..Len(s) /\ Head(r) = s[k]
  <2>1. Len(r) > 0 /\ 1 \in 1..Len(r) /\ k + 1 - 1 = k
    BY <1>0, <1>1, <1>3
  <2> QED  BY <2>1, <1>0, <1>1
<1> QED  BY <1>1, <1>2, <1>3 DEF Fitted, r

LEMMA FittedTail ==
  ASSUME NEW p, NEW s, Fitted(s, p), s # <<>>
  PROVE  /\ Fitted(Tail(s), p) /\ Fits(Head(s), p) /\ Head(s) \in TaskSet
         /\ Tail(s) # <<>> /\ Head(Tail(s)).t = "want" => Head(s).t \in Joining
<1>0. s \in Seq(TaskSet) /\ Len(s) \in Nat \ {0} /\ Head(s) = s[1] /\ s[1] \in TaskSet
  BY DEF Fitted
<1>1. Tail(s) = SubSeq(s, 2, Len(s))
  BY <1>0
<1>2. 2 \in 1 .. Len(s) + 1
  BY <1>0
<1> DEFINE r == SubSeq(s, 2, Len(s))
<1>3. Fitted(r, p) /\ (r # <<>> => 2 \in 1..Len(s) /\ Head(r) = s[2])
  BY <1>2, FittedFrom
<1> HIDE DEF r
<1>4. Fits(Head(s), p)
  BY <1>0 DEF Fitted
<1>5. r # <<>> /\ Head(r).t = "want" => Head(s).t \in Joining
  <2> SUFFICES ASSUME r # <<>>, Head(r).t = "want" PROVE Head(s).t \in Joining
    OBVIOUS
  <2>1. s[2].t = "want" => 2 = 1 \/ s[2 - 1].t \in Joining
    BY <1>3 DEF Fitted
  <2> QED  BY <1>0, <1>3, <2>1
<1> QED  BY <1>0, <1>1, <1>3, <1>4, <1>5 DEF r

LEMMA FittedUnwound ==
  ASSUME NEW p, NEW s, Fitted(s, p)
  PROVE  Stands(Unwound(s), p)
<1>0. s \in Seq(TaskSet)
  BY DEF Fitted
<1>1. PICK k \in 1 .. Len(s) + 1 : /\ Unwound(s) = SubSeq(s, k, Len(s))
                                   /\ k \in 1..Len(s) => s[k].t \in {"exit", "loop"}
  BY <1>0, UnwoundSuffix
<1> DEFINE r == SubSeq(s, k, Len(s))
<1>2. Fitted(r, p) /\ (r # <<>> => k \in 1..Len(s) /\ Head(r) = s[k])
  BY FittedFrom
<1> HIDE DEF r
<1> QED  BY <1>1, <1>2 DEF Stands, r

(* A thread's step leaves the other threads' tasks as they are.            *)
LEMMA OwnStep ==
  ASSUME IInv, NEW th \in Thread
  PROVE  /\ \A cs : Then(th, cs) => /\ todo'[th] = cs \o Tail(todo[th])
                                    /\ \A u \in Thread \ {th} : todo'[u] = todo[u]
         /\ Return(th) => /\ todo'[th] = <<>> \o Tail(todo[th])
                          /\ \A u \in Thread \ {th} : todo'[u] = todo[u]
         /\ \A e : Raise(th, e) => /\ todo'[th] = Unwound(Tail(todo[th]))
                                   /\ \A u \in Thread \ {th} : todo'[u] = todo[u]
<1>1. DOMAIN todo = Thread
  BY DEF IInv, Plain
<1> QED  BY <1>1 DEF Then, Return, Raise

(* What follows a loop's next task.                                        *)
LEMMA LoopRest ==
  ASSUME IInv, Programmed, NEW o \in Loop, NEW t, Running(o, t)
  PROVE  LET r == Tail(todo[o])
         IN /\ Top(o) \in LoopTask(o) /\ Top(o) \in TaskSet /\ Top(o).t = t /\ t # "want" /\ t \in LoopTypes
            /\ Fits(Top(o), program[o]) /\ Fitted(r, program[o])
            /\ r # <<>> /\ Head(r).t = "want" => t \in Joining
            /\ o = current /\ crashed[o] = FALSE /\ current # 0
<1>1. todo[o] # <<>> /\ Top(o) = Head(todo[o]) /\ Top(o).t = t
  BY DEF Running, Top
<1>2. Top(o) \in LoopTask(o) /\ o = current /\ crashed[o] = FALSE /\ current # 0
  BY <1>1, LoopTop, Numbers
<1>3. Fitted(todo[o], program[o]) /\ Head(todo[o]).t # "want"
  BY <1>1 DEF Programmed, Stands
<1>4. /\ Fitted(Tail(todo[o]), program[o]) /\ Fits(Head(todo[o]), program[o]) /\ Head(todo[o]) \in TaskSet
      /\ Tail(todo[o]) # <<>> /\ Head(Tail(todo[o])).t = "want" => Head(todo[o]).t \in Joining
  BY <1>1, <1>3, FittedTail
<1> QED  BY <1>1, <1>2, <1>3, <1>4 DEF LoopTask

LEMMA LoopProgrammed ==
  ASSUME IInv, Programmed, NEW o \in Loop, \A u \in Thread \ {o} : todo'[u] = todo[u] \/ u = User,
         program' = program, handle' \in [Loop -> BOOLEAN], Stands(todo'[o], program[o])
  PROVE  Programmed'
<1>1. \A u \in Loop \ {o} : todo'[u] = todo[u]
  BY Roles DEF User, Loop
<1> QED  BY <1>1 DEF Programmed

(* A loop's task is replaced by another, is done, or fails.                *)
LEMMA LoopPuts ==
  ASSUME IInv, Programmed, NEW o \in Loop, NEW t, Running(o, t), NEW x \in TaskSet, Then(o, <<x>>),
         Fits(x, program[o]), x.t # "want", t \in Joining => x.t \in Joining,
         program' = program, handle' = handle
  PROVE  Programmed'
<1> DEFINE r == Tail(todo[o])
<1>1. Fitted(r, program[o]) /\ (r # <<>> /\ Head(r).t = "want" => t \in Joining) /\ r \in Seq(TaskSet)
  BY LoopRest DEF Fitted
<1>2. o \in Thread
  BY Roles
<1>3. todo'[o] = <<x>> \o r /\ \A u \in Thread \ {o} : todo'[u] = todo[u]
  BY <1>2, OwnStep
<1> HIDE DEF r
<1>4. todo'[o] = Cons(x, r)
  BY <1>1, <1>3, Prefixed
<1>5. Fitted(Cons(x, r), program[o])
  BY <1>1, FittedCons
<1>6. Head(Cons(x, r)) = x
  BY <1>1, Pushed
<1>7. Stands(todo'[o], program[o]) /\ handle' \in [Loop -> BOOLEAN]
  BY <1>4, <1>5, <1>6 DEF Stands, Programmed
<1> QED  BY <1>3, <1>7, LoopProgrammed

LEMMA LoopEnds ==
  ASSUME IInv, Programmed, NEW o \in Loop, NEW t, Running(o, t), t \notin Joining, Return(o),
         program' = program, handle' \in [Loop -> BOOLEAN]
  PROVE  Programmed'
<1> DEFINE r == Tail(todo[o])
<1>1. Fitted(r, program[o]) /\ (r # <<>> /\ Head(r).t = "want" => t \in Joining) /\ r \in Seq(TaskSet)
  BY LoopRest DEF Fitted
<1>2. o \in Thread
  BY Roles
<1>3. todo'[o] = <<>> \o r /\ \A u \in Thread \ {o} : todo'[u] = todo[u]
  BY <1>2, OwnStep
<1> HIDE DEF r
<1>4. todo'[o] = r
  BY <1>1, <1>3, Prefixed
<1>5. Stands(todo'[o], program[o])
  BY <1>1, <1>4 DEF Stands
<1> QED  BY <1>3, <1>5, LoopProgrammed

LEMMA LoopFails ==
  ASSUME IInv, Programmed, NEW o \in Loop, NEW t, Running(o, t), NEW e, Raise(o, e),
         program' = program, handle' = handle
  PROVE  Programmed'
<1>1. Fitted(Tail(todo[o]), program[o])
  BY LoopRest
<1>2. o \in Thread
  BY Roles
<1>3. todo'[o] = Unwound(Tail(todo[o])) /\ \A u \in Thread \ {o} : todo'[u] = todo[u]
  BY <1>2, OwnStep
<1>4. Stands(todo'[o], program[o]) /\ handle' \in [Loop -> BOOLEAN]
  BY <1>1, <1>3, FittedUnwound DEF Programmed
<1> QED  BY <1>3, <1>4, LoopProgrammed

LEMMA LoopStops ==
  ASSUME IInv, Programmed, NEW o \in Loop,
         ReadCurrent(o) \/ GrabHandle(o) \/ ReleaseHandle(o) \/ Join(o) \/ JoinFails(o) \/ ForgetLoop(o)
  PROVE  Programmed' /\ ~Join(o) /\ ~ForgetLoop(o)
<1>1. ~Join(o)
  <2> SUFFICES ASSUME Join(o) PROVE FALSE
    OBVIOUS
  <2>1. Running(o, "join") /\ Top(o).i # o
    BY DEF Join
  <2> QED  BY <2>1, LoopRest DEF LoopTask
<1>2. ~ForgetLoop(o)
  <2> SUFFICES ASSUME ForgetLoop(o) PROVE FALSE
    OBVIOUS
  <2>1. Running(o, "forget")
    BY DEF ForgetLoop
  <2>2. "forget" \in LoopTypes
    BY <2>1, LoopRest
  <2> QED  BY <2>2 DEF LoopTypes
<1>3. CASE ReadCurrent(o)
  <2>1. Running(o, "read")
    BY <1>3 DEF ReadCurrent
  <2>2. current \in Nat /\ current # 0 /\ Fits(Top(o), program[o]) /\ Top(o).t = "read"
    BY <2>1, LoopRest, Numbers
  <2> DEFINE x == On("grab", current)
  <2>3. x \in TaskSet /\ x.t = "grab"
    BY <2>2, PartTasks DEF Types
  <2>4. Then(o, <<x>>) /\ program' = program /\ handle' = handle
    BY <1>3, <2>2 DEF ReadCurrent, loopVars
  <2> HIDE DEF x
  <2>5. Fits(x, program[o])
    BY <2>2, <2>3 DEF Fits, Joining
  <2> QED  BY <1>1, <1>2, <2>1, <2>3, <2>4, <2>5, LoopPuts DEF Joining
<1>4. CASE GrabHandle(o)
  <2> DEFINE r == Tail(todo[o])
             x == On("release", Top(o).i)
             y == On(IF handle[Top(o).i] THEN "join" ELSE "joinNone", Top(o).i)
  <2>1. Running(o, "grab") /\ Then(o, <<x, y>>) /\ program' = program /\ handle' = handle
    BY <1>4 DEF GrabHandle, loopVars
  <2>2. /\ Top(o) \in TaskSet /\ Fits(Top(o), program[o]) /\ Top(o).t = "grab"
        /\ Fitted(r, program[o]) /\ r \in Seq(TaskSet)
    BY <2>1, LoopRest DEF Fitted
  <2>3. /\ x \in TaskSet /\ x.t = "release" /\ y \in TaskSet /\ y.t \in {"join", "joinNone"}
    <3>1. Top(o).i \in Nat
      BY <2>2 DEF TaskSet
    <3> QED  BY <3>1, PartTasks DEF Types
  <2>4. o \in Thread
    BY Roles
  <2>5. todo'[o] = <<x, y>> \o r /\ \A u \in Thread \ {o} : todo'[u] = todo[u]
    BY <2>1, <2>4, OwnStep
  <2> HIDE DEF x, y, r
  <2>6. todo'[o] = Cons(x, Cons(y, r))
    BY <2>2, <2>3, <2>5, Prefixed, Zenon
  <2>7. Fits(x, program[o]) /\ Fits(y, program[o])
    BY <2>2, <2>3 DEF Fits, Joining
  <2>8. Fitted(Cons(y, r), program[o]) /\ Head(Cons(y, r)) = y /\ Cons(y, r) \in Seq(TaskSet)
    <3>1. y.t \in Joining
      BY <2>3 DEF Joining
    <3>2. Fitted(Cons(y, r), program[o])
      BY <2>2, <2>3, <2>7, <3>1, FittedCons
    <3> QED  BY <2>2, <2>3, <3>2, Pushed
  <2>9. Fitted(Cons(x, Cons(y, r)), program[o]) /\ Head(Cons(x, Cons(y, r))) = x
    <3>1. Head(Cons(y, r)).t # "want"
      BY <2>3, <2>8
    <3>2. Fitted(Cons(x, Cons(y, r)), program[o])
      BY <2>3, <2>7, <2>8, <3>1, FittedCons
    <3> QED  BY <2>3, <2>8, <3>2, Pushed
  <2>10. Stands(todo'[o], program[o]) /\ handle' \in [Loop -> BOOLEAN]
    BY <2>1, <2>3, <2>6, <2>9 DEF Stands, Programmed
  <2> QED  BY <1>1, <1>2, <2>1, <2>5, <2>10, LoopProgrammed
<1>5. CASE ReleaseHandle(o)
  <2>1. Running(o, "release") /\ Return(o) /\ program' = program
    BY <1>5 DEF ReleaseHandle
  <2>2. handle' \in [Loop -> BOOLEAN]
    <3>1. handle' = [handle EXCEPT ![Top(o).i] = FALSE] /\ handle \in [Loop -> BOOLEAN]
      BY <1>5 DEF ReleaseHandle, Programmed
    <3> QED  BY <3>1
  <2> QED  BY <1>1, <1>2, <2>1, <2>2, LoopEnds DEF Joining
<1>6. CASE JoinFails(o)
  <2>1. program' = program /\ handle' = handle
    BY <1>6 DEF JoinFails, loopVars
  <2>2. CASE Running(o, "join") /\ Raise(o, "cannot join current thread")
    BY <1>1, <1>2, <2>1, <2>2, LoopFails
  <2>3. CASE Running(o, "joinNone") /\ Raise(o, "None has no attribute join")
    BY <1>1, <1>2, <2>1, <2>3, LoopFails
  <2> QED  BY <1>6, <2>2, <2>3 DEF JoinFails
<1> QED  BY <1>1, <1>2, <1>3, <1>4, <1>5, <1>6

LEMMA LoopBegins ==
  ASSUME IInv, Programmed, NEW o \in Loop, Begin(o)
  PROVE  Programmed'
<1> DEFINE x == Top(o)
           e == [x EXCEPT !.t = "enter"]
<1>1. Running(o, "execute") /\ program' = program /\ handle' = handle
  BY DEF Begin, loopVars
<1>2. x \in LoopTask(o) /\ x \in TaskSet /\ x.t = "execute" /\ Fits(x, program[o])
      /\ o = current /\ crashed[o] = FALSE /\ current # 0
  BY <1>1, LoopRest
<1>3. ~Pauses(o, x.kind)
  BY <1>2 DEF Pauses, onContinuousInferenceThread, Commands, LoopTask
<1>4. Then(o, <<e>>)
  <2>1. Then(o, <<>> \o <<e>>)
    BY <1>3 DEF Begin
  <2>2. <<>> \o <<e>> = <<e>>
    OBVIOUS
  <2> QED  BY <2>1, <2>2
<1> HIDE DEF x
<1>5. e \in TaskSet /\ e.t = "enter" /\ e.kind = x.kind /\ e.prog = x.prog
  <2>1. e = [t |-> "enter", kind |-> x.kind, prog |-> x.prog, i |-> x.i]
    BY <1>2 DEF TaskSet
  <2> QED  BY <1>2, <2>1 DEF TaskSet, Types
<1> HIDE DEF e
<1>6. Fits(e, program[o])
  BY <1>2, <1>5 DEF Fits, Joining
<1> QED  BY <1>1, <1>4, <1>5, <1>6, LoopPuts DEF Joining

(* What a loop's command does inside of its pauser.                        *)
LEMMA FittedBody ==
  ASSUME NEW p, NEW x \in TaskSet, Fits(x, p), x.t = "enter", x.kind \in Commands,
         NEW r, Fitted(r, p), r # <<>> => Head(r).t # "want"
  PROVE  Stands(Body(x.kind, x.prog) \o r, p)
<1>0. r \in Seq(TaskSet)
  BY DEF Fitted
<1>1. ASSUME NEW y \in TaskSet, Fits(y, p), y.t # "want" PROVE Stands(<<y>> \o r, p)
  <2>1. <<y>> \o r = Cons(y, r) /\ Head(Cons(y, r)) = y
    <3>1. <<y>> \o r = Cons(y, r)
      BY <1>0, Prefixed
    <3>2. Head(Cons(y, r)) = y
      BY <1>0, Pushed
    <3> QED  BY <3>1, <3>2
  <2>2. Fitted(Cons(y, r), p)
    BY <1>1, FittedCons
  <2> QED  BY <1>1, <2>1, <2>2 DEF Stands
<1>2. /\ Task("work") \in TaskSet /\ Task("work").t = "work"
      /\ Task("raise") \in TaskSet /\ Task("raise").t = "raise"
  BY PartTasks DEF Types
<1>3. Stands(<<Task("work")>> \o r, p) /\ Stands(<<Task("raise")>> \o r, p)
  BY <1>1, <1>2 DEF Fits, Joining
<1>4. ASSUME NEW k \in {"assume", "stop"}, k = "stop" => p = "endloop"
      PROVE  Stands(<<Execute(k, "none")>> \o r, p)
  <2> DEFINE y == Execute(k, "none")
  <2>1. y = Command("execute", k, "none")
    BY DEF Execute, Command
  <2>2. y \in TaskSet /\ y.t = "execute" /\ y.kind = k
    BY <2>1, PartTasks DEF Types, Kinds, Names
  <2> HIDE DEF y
  <2>3. Fits(y, p)
    BY <1>4, <2>2 DEF Fits, Joining
  <2>4. Stands(<<y>> \o r, p)
    BY <1>1, <2>2, <2>3
  <2> QED  BY <2>4 DEF y
<1>5. CASE x.kind = "assume"
  <2>1. Body(x.kind, x.prog) = <<Task("work")>>
    BY <1>5 DEF Body
  <2> QED  BY <1>3, <2>1
<1>6. CASE x.kind = "infer"
  <2>1. Body(x.kind, x.prog) = Inferring(p)
    BY <1>6 DEF Body, Fits
  <2>2. CASE p = "mh"
    BY <1>3, <2>1, <2>2 DEF Inferring
  <2>3. CASE p = "nested"
    <3>1. Stands(<<Execute("assume", "none")>> \o r, p)
      BY <1>4
    <3> QED  BY <2>1, <2>3, <3>1 DEF Inferring
  <2>4. CASE p = "endloop"
    <3>1. Stands(<<Execute("stop", "none")>> \o r, p)
      BY <1>4, <2>4
    <3> QED  BY <2>1, <2>4, <3>1 DEF Inferring
  <2>5. CASE p \notin {"mh", "nested", "endloop"}
    <3>1. Inferring(p) = <<Task("raise")>>
      BY <2>5 DEF Inferring
    <3> QED  BY <1>3, <2>1, <3>1
  <2> QED  BY <2>2, <2>3, <2>4, <2>5
<1>7. CASE x.kind = "stop"
  <2> DEFINE u == Task("count")
             v == Task("read")
             w == Task("want")
  <2>1. Body(x.kind, x.prog) = (<<u>> \o <<v>>) \o <<w>>
    BY <1>7 DEF Body, Stop
  <2>2. /\ u \in TaskSet /\ v \in TaskSet /\ w \in TaskSet
        /\ u.t = "count" /\ v.t = "read" /\ w.t = "want"
    BY PartTasks DEF Types
  <2> HIDE DEF u, v, w
  <2>3. ((<<u>> \o <<v>>) \o <<w>>) \o r = Cons(u, Cons(v, Cons(w, r)))
    <3>1. <<v>> \in Seq(TaskSet) /\ <<w>> \in Seq(TaskSet)
      BY <2>2
    <3>2. <<u>> \o <<v>> = Cons(u, <<v>>)
      BY <2>2, <3>1, Prefixed
    <3>3. Cons(u, <<v>>) \o <<w>> = Cons(u, <<v>> \o <<w>>)
      BY <2>2, <3>1, Prefixed
    <3>4. <<v>> \o <<w>> = Cons(v, <<w>>) /\ Cons(v, <<w>>) \in Seq(TaskSet)
      BY <2>2, <3>1, Prefixed, Pushed
    <3>5. Cons(u, Cons(v, <<w>>)) \o r = Cons(u, Cons(v, <<w>>) \o r)
      BY <1>0, <2>2, <3>4, Prefixed
    <3>6. Cons(v, <<w>>) \o r = Cons(v, <<w>> \o r)
      BY <1>0, <2>2, <3>1, Prefixed
    <3>7. <<w>> \o r = Cons(w, r)
      BY <1>0, <2>2, Prefixed
    <3> QED  BY <3>2, <3>3, <3>4, <3>5, <3>6, <3>7
  <2>4. p = "endloop"
    BY <1>7 DEF Fits
  <2>5. Fits(u, p) /\ Fits(v, p) /\ Fits(w, p)
    BY <2>2, <2>4 DEF Fits, Joining
  <2>6. Fitted(Cons(w, r), p) /\ Cons(w, r) \in Seq(TaskSet)
    <3>1. Fitted(Cons(w, r), p)
      BY <2>2, <2>5, FittedCons
    <3> QED  BY <3>1 DEF Fitted
  <2>7. Fitted(Cons(v, Cons(w, r)), p) /\ Cons(v, Cons(w, r)) \in Seq(TaskSet) /\ Head(Cons(v, Cons(w, r))) = v
    <3>1. v.t \in Joining
      BY <2>2 DEF Joining
    <3>2. Fitted(Cons(v, Cons(w, r)), p)
      BY <2>2, <2>5, <2>6, <3>1, FittedCons
    <3>3. Head(Cons(v, Cons(w, r))) = v
      BY <2>2, <2>6, Pushed
    <3> QED  BY <3>2, <3>3 DEF Fitted
  <2>8. Fitted(Cons(u, Cons(v, Cons(w, r))), p) /\ Head(Cons(u, Cons(v, Cons(w, r)))) = u
    <3>1. Head(Cons(v, Cons(w, r))).t # "want"
      BY <2>2, <2>7
    <3>2. Fitted(Cons(u, Cons(v, Cons(w, r))), p)
      BY <2>2, <2>5, <2>7, <3>1, FittedCons
    <3> QED  BY <2>2, <2>7, <3>2, Pushed
  <2> QED  BY <2>1, <2>2, <2>3, <2>8 DEF Stands
<1> QED  BY <1>5, <1>6, <1>7 DEF Commands

LEMMA LoopEnters ==
  ASSUME IInv, Programmed, NEW o \in Loop, Enter(o)
  PROVE  Programmed'
<1> DEFINE x == Top(o)
           r == Tail(todo[o])
           e == Exit("none")
<1>1. Running(o, "enter")
  <2>1. ~Running(o, "pause")
    <3> SUFFICES ASSUME Running(o, "pause") PROVE FALSE
      OBVIOUS
    <3>1. "pause" \in LoopTypes
      BY LoopRest
    <3> QED  BY <3>1 DEF LoopTypes
  <2> QED  BY <2>1 DEF Enter
<1>2. /\ x \in LoopTask(o) /\ x \in TaskSet /\ x.t = "enter" /\ Fits(x, program[o])
      /\ Fitted(r, program[o]) /\ (r # <<>> => Head(r).t # "want") /\ r \in Seq(TaskSet)
  BY <1>1, LoopRest DEF Joining, Fitted
<1>3. o \in Thread
  BY Roles
<1>4. program' = program /\ handle' = handle /\ Then(o, Body(x.kind, x.prog) \o <<e>>)
  BY <1>2 DEF Enter, loopVars
<1>5. todo'[o] = (Body(x.kind, x.prog) \o <<e>>) \o r /\ \A u \in Thread \ {o} : todo'[u] = todo[u]
  BY <1>3, <1>4, OwnStep
<1>6. e \in TaskSet /\ e.t = "exit"
  BY PartTasks DEF Names
<1>7. x.kind \in Commands
  BY <1>2 DEF LoopTask
<1> HIDE DEF x, r, e
<1>8. <<e>> \o r = Cons(e, r) /\ Head(Cons(e, r)) = e
  <2>1. <<e>> \o r = Cons(e, r)
    BY <1>2, <1>6, Prefixed
  <2>2. Head(Cons(e, r)) = e
    BY <1>2, <1>6, Pushed
  <2> QED  BY <2>1, <2>2
<1>9. Fitted(Cons(e, r), program[o])
  <2>1. Fits(e, program[o])
    BY <1>6 DEF Fits, Joining
  <2> QED  BY <1>2, <1>6, <2>1, FittedCons
<1>10. Stands(Body(x.kind, x.prog) \o Cons(e, r), program[o])
  BY <1>2, <1>6, <1>7, <1>8, <1>9, FittedBody
<1>11. (Body(x.kind, x.prog) \o <<e>>) \o r = Body(x.kind, x.prog) \o (<<e>> \o r)
  <2>1. Body(x.kind, x.prog) \in Seq(TaskSet)
    <3>1. Fitted(<<>>, program[o]) /\ <<>> \in Seq(TaskSet)
      BY DEF Fitted
    <3>2. Body(x.kind, x.prog) \o <<>> \in Seq(TaskSet)
      BY <1>2, <1>7, <3>1, FittedBody DEF Stands, Fitted
    <3>3. Body(x.kind, x.prog) \o <<>> = Body(x.kind, x.prog)
      BY <1>7 DEF Body, Commands, Inferring, Stop
    <3> QED  BY <3>2, <3>3
  <2> DEFINE y == <<e>>
  <2>2. y \in Seq(TaskSet)
    BY <1>6
  <2> HIDE DEF y
  <2>3. (Body(x.kind, x.prog) \o y) \o r = Body(x.kind, x.prog) \o (y \o r)
    BY <1>2, <2>1, <2>2, ConcatAssociative
  <2> QED  BY <2>3 DEF y
<1>12. Stands(todo'[o], program[o]) /\ handle' \in [Loop -> BOOLEAN]
  BY <1>4, <1>5, <1>8, <1>10, <1>11 DEF Programmed
<1> QED  BY <1>4, <1>5, <1>12, LoopProgrammed

LEMMA LoopLeaves ==
  ASSUME IInv, Programmed, NEW o \in Loop, Leave(o) \/ Restart(o) \/ Reraise(o)
  PROVE  Programmed'
<1>1. program' = program /\ handle' = handle
  BY DEF Leave, Restart, Reraise, loopVars
<1>2. CASE Leave(o)
  <2> DEFINE x == Top(o)
             e == [x EXCEPT !.t = "restart"]
  <2>1. Running(o, "exit") /\ Then(o, <<e>>)
    BY <1>2 DEF Leave
  <2>2. x \in TaskSet
    BY <2>1, LoopRest
  <2> HIDE DEF x
  <2>3. e \in TaskSet /\ e.t = "restart"
    <3>1. e = [t |-> "restart", kind |-> x.kind, prog |-> x.prog, i |-> x.i]
      BY <2>2 DEF TaskSet
    <3> QED  BY <2>2, <3>1 DEF TaskSet, Types
  <2> HIDE DEF e
  <2>4. Fits(e, program[o])
    BY <2>3 DEF Fits, Joining
  <2> QED  BY <1>1, <2>1, <2>3, <2>4, LoopPuts DEF Joining
<1>3. CASE Restart(o)
  <2>1. Running(o, "restart")
    BY <1>3 DEF Restart
  <2>2. Top(o).prog = "none"
    BY <2>1, LoopRest DEF LoopTask
  <2> DEFINE e == Task("reraise")
  <2>3. Then(o, <<e>>)
    <3>1. Then(o, <<>> \o <<e>>)
      BY <1>3, <2>2 DEF Restart
    <3>2. <<>> \o <<e>> = <<e>>
      OBVIOUS
    <3> QED  BY <3>1, <3>2
  <2>4. e \in TaskSet /\ e.t = "reraise"
    BY PartTasks DEF Types
  <2> HIDE DEF e
  <2>5. Fits(e, program[o])
    BY <2>4 DEF Fits, Joining
  <2> QED  BY <1>1, <2>1, <2>3, <2>4, <2>5, LoopPuts DEF Joining
<1>4. CASE Reraise(o)
  <2>1. Running(o, "reraise") /\ (Return(o) \/ Raise(o, exc[o])) /\ handle' \in [Loop -> BOOLEAN]
    BY <1>1, <1>4 DEF Reraise, Programmed
  <2>2. CASE Return(o)
    BY <1>1, <2>1, <2>2, LoopEnds DEF Joining
  <2>3. CASE Raise(o, exc[o])
    BY <1>1, <2>1, <2>3, LoopFails
  <2> QED  BY <2>1, <2>2, <2>3
<1> QED  BY <1>2, <1>3, <1>4

LEMMA LoopSearches ==
  ASSUME IInv, Programmed, NEW o \in Loop,
         Count(o) \/ DropOn(o) \/ DropNone(o) \/ DropFails(o) \/ Want(o)
  PROVE  Programmed' /\ ~Want(o)
<1>1. ~Want(o)
  <2> SUFFICES ASSUME Running(o, "want") PROVE FALSE
    BY DEF Want
  <2> QED  BY LoopRest
<1>2. program' = program /\ handle' = handle /\ handle' \in [Loop -> BOOLEAN]
  BY DEF Count, DropOn, DropNone, DropFails, Want, loopVars, Programmed
<1>3. ASSUME NEW t \in {"count", "drop"}, Running(o, t), NEW i \in Nat, Then(o, <<On("drop", i)>>)
      PROVE  Programmed'
  <2> DEFINE e == On("drop", i)
  <2>1. e \in TaskSet /\ e.t = "drop"
    BY PartTasks DEF Types
  <2>2. Fits(Top(o), program[o]) /\ Top(o).t = t
    BY <1>3, LoopRest
  <2>3. Then(o, <<e>>)
    BY <1>3
  <2> HIDE DEF e
  <2>4. Fits(e, program[o])
    BY <2>1, <2>2 DEF Fits, Joining
  <2> QED  BY <1>2, <1>3, <2>1, <2>3, <2>4, LoopPuts DEF Joining
<1>4. CASE Count(o)
  <2>1. Running(o, "count") /\ Then(o, <<On("drop", Len(stack))>>) /\ Len(stack) \in Nat
    BY <1>4 DEF Count, IInv, Plain
  <2>2. PICK i \in Nat : i = Len(stack)
    BY <2>1
  <2> QED  BY <1>1, <1>3, <2>1, <2>2
<1>5. CASE DropOn(o)
  <2> DEFINE i == Top(o).i
             ref == stack[i]
  <2>1. Running(o, "drop") /\ i \in 1..Len(stack) /\ stack \in Seq(Thread \X Nat)
    BY <1>5 DEF DropOn, IInv, Plain
  <2>2. ref \in Thread \X Nat /\ i - 1 \in Nat
    BY <2>1
  <2>3. CASE ~Paused(ref)
    <3>1. Then(o, <<On("drop", i - 1)>>)
      BY <1>5, <2>3 DEF DropOn
    <3>2. PICK m \in Nat : m = i - 1
      BY <2>2
    <3> HIDE DEF i
    <3>3. Then(o, <<On("drop", m)>>)
      BY <3>1, <3>2
    <3> QED  BY <1>1, <1>3, <2>1, <3>3
  <2>4. CASE Paused(ref)
    <3>1. Dropped(ref) = [todo EXCEPT ![User] = [@ EXCEPT ![Place(ref)].prog = "none"]]
      BY <2>2, <2>4, ReferredTo
    <3>2. todo' = [Dropped(ref) EXCEPT ![o] = Tail(@)]
      BY <1>5, <2>4 DEF DropOn
    <3>3. DOMAIN todo = Thread /\ User \in Thread /\ o \in Thread /\ o # User
      BY Roles, Numbers DEF IInv, Plain, User
    <3> DEFINE s == [todo[User] EXCEPT ![Place(ref)].prog = "none"]
    <3>4. Dropped(ref) = [todo EXCEPT ![User] = s]
      BY <3>1
    <3> HIDE DEF ref, s
    <3>5. todo'[o] = Tail(todo[o]) /\ \A u \in Thread \ {o} : todo'[u] = todo[u] \/ u = User
      BY <3>2, <3>3, <3>4
    <3>6. Stands(Tail(todo[o]), program[o])
      <4>1. "drop" \notin Joining
        BY DEF Joining
      <4> QED  BY <2>1, <4>1, LoopRest DEF Stands
    <3> QED  BY <1>1, <1>2, <3>5, <3>6, LoopProgrammed
  <2> QED  BY <2>3, <2>4
<1>6. CASE DropNone(o)
  <2>1. Running(o, "drop") /\ Return(o)
    BY <1>6 DEF DropNone
  <2> QED  BY <1>1, <1>2, <2>1, LoopEnds DEF Joining
<1>7. CASE DropFails(o)
  <2>1. Running(o, "drop") /\ Raise(o, "list index out of range")
    BY <1>7 DEF DropFails
  <2> QED  BY <1>1, <1>2, <2>1, LoopFails
<1> QED  BY <1>1, <1>4, <1>5, <1>6, <1>7

LEMMA LoopWorks ==
  ASSUME IInv, Programmed, NEW o \in Loop, Work(o) \/ Worked(o) \/ WorkFails(o)
  PROVE  Programmed'
<1>1. program' = program /\ handle' = handle /\ handle' \in [Loop -> BOOLEAN]
  BY DEF Work, Worked, WorkFails, loopVars, Programmed
<1>2. CASE Work(o)
  BY <1>1, <1>2 DEF Work, Programmed
<1>3. CASE Worked(o)
  <2>1. Running(o, "work") /\ Return(o)
    BY <1>3 DEF Worked
  <2> QED  BY <1>1, <2>1, LoopEnds DEF Joining
<1>4. CASE WorkFails(o)
  <2>1. Raise(o, "failed") /\ (Running(o, "work") \/ Running(o, "raise"))
    BY <1>4 DEF WorkFails
  <2> QED  BY <1>1, <2>1, LoopFails
<1> QED  BY <1>2, <1>3, <1>4

LEMMA LoopIterates ==
  ASSUME IInv, Programmed, NEW o \in Loop, Iterate(o) \/ Crash(o)
  PROVE  Programmed'
<1>1. program' = program /\ handle' = handle /\ handle' \in [Loop -> BOOLEAN] /\ Running(o, "loop")
  BY DEF Iterate, Crash, loopVars, Programmed
<1>2. CASE Return(o)
  BY <1>1, <1>2, LoopEnds DEF Joining
<1>3. CASE Iterate(o) /\ ~Return(o)
  <2> DEFINE x == Execute("infer", program[o])
             s == todo[o]
  <2>1. todo' = [todo EXCEPT ![o] = <<x>> \o @]
    BY <1>3 DEF Iterate
  <2>2. x \in TaskSet /\ x.t = "execute" /\ x.kind = "infer" /\ x.prog = program[o]
    <3>1. program[o] \in Names
      BY DEF IInv, Plain
    <3>2. x = Command("execute", "infer", program[o])
      BY DEF Execute, Command
    <3> QED  BY <3>1, <3>2, PartTasks DEF Types, Kinds
  <2>3. Fitted(s, program[o]) /\ s # <<>> /\ Head(s).t = "loop" /\ s \in Seq(TaskSet)
    BY <1>1 DEF Programmed, Stands, Running, Top, Fitted
  <2>4. DOMAIN todo = Thread /\ o \in Thread
    BY Roles DEF IInv, Plain
  <2> HIDE DEF x
  <2>5. todo'[o] = <<x>> \o s /\ \A u \in Thread \ {o} : todo'[u] = todo[u]
    BY <2>1, <2>4
  <2> HIDE DEF s
  <2>6. todo'[o] = Cons(x, s)
    BY <2>2, <2>3, <2>5, Prefixed
  <2>7. Head(Cons(x, s)) = x
    BY <2>2, <2>3, Pushed
  <2>8. Fits(x, program[o])
    BY <2>2 DEF Fits, Joining
  <2>9. Fitted(Cons(x, s), program[o])
    BY <2>2, <2>3, <2>8, FittedCons
  <2>10. Stands(todo'[o], program[o])
    BY <2>2, <2>6, <2>7, <2>9 DEF Stands
  <2> QED  BY <1>1, <2>5, <2>10, LoopProgrammed
<1> QED  BY <1>2, <1>3 DEF Iterate, Crash

LEMMA LoopStepProgrammed ==
  ASSUME IInv, Programmed, NEW o \in Loop, Step(o)
  PROVE  Programmed' /\ ~Join(o) /\ ~ForgetLoop(o) /\ ~Want(o) /\ ~Make(o) /\ ~Launch(o)
<1>1. ~Join(o) /\ ~ForgetLoop(o)
  BY LoopStops
<1>2. ~Want(o)
  BY LoopSearches
<1>3. ~Make(o) /\ ~Launch(o)
  <2>1. Running(o, "make") => "make" \in LoopTypes
    BY LoopRest
  <2>2. Running(o, "launch") => "launch" \in LoopTypes
    BY LoopRest
  <2>3. "make" \notin LoopTypes /\ "launch" \notin LoopTypes
    BY DEF LoopTypes
  <2> QED  BY <2>1, <2>2, <2>3 DEF Make, Launch
<1>4. Programmed'
  BY <1>1, <1>2, <1>3, LoopStops, LoopBegins, LoopEnters, LoopLeaves, LoopSearches, LoopWorks DEF Step
<1> QED  BY <1>1, <1>2, <1>3, <1>4

(* The user's steps.                                                       *)
LEMMA UserProgrammed ==
  ASSUME IInv, Programmed, Step(User) \/ Instruct
  PROVE  Programmed'
<1>0. DOMAIN todo = Thread /\ User \in Thread /\ User \notin Loop /\ Loop \subseteq Thread
      /\ handle \in [Loop -> BOOLEAN]
  BY Roles DEF IInv, Plain, User, Loop, Programmed
<1>1. CASE Launch(User)
  <2>1. todo' = [todo EXCEPT ![User] = Tail(@), ![current] = <<Task("loop")>>]
        /\ program' = program /\ handle' = handle
    BY <1>1 DEF Launch, loopVars
  <2> DEFINE x == Task("loop")
  <2>2. x \in TaskSet /\ x.t = "loop"
    BY PartTasks DEF Types
  <2> HIDE DEF x
  <2>3. \A p : Stands(<<x>>, p)
    <3>0. <<>> \in Seq(TaskSet)
      OBVIOUS
    <3>1. <<x>> = Cons(x, <<>>) /\ <<>> \in Seq(TaskSet)
      <4>1. <<x>> \o <<>> = Cons(x, <<>>)
        BY <2>2, <3>0, Prefixed
      <4>2. <<x>> \o <<>> = <<x>>
        OBVIOUS
      <4> QED  BY <3>0, <4>1, <4>2
    <3>2. \A p : Fitted(<<>>, p)
      BY DEF Fitted
    <3>3. \A p : Fits(x, p)
      BY <2>2 DEF Fits, Joining
    <3>4. \A p : Fitted(Cons(x, <<>>), p)
      BY <2>2, <3>2, <3>3, FittedCons
    <3>5. Head(Cons(x, <<>>)) = x
      BY <2>2, <3>1, Pushed
    <3> QED  BY <2>2, <3>1, <3>4, <3>5 DEF Stands
  <2>4. \A o \in Loop : todo'[o] = IF o = current THEN <<x>> ELSE todo[o]
    BY <1>0, <2>1 DEF x
  <2> QED  BY <2>1, <2>3, <2>4 DEF Programmed
<1>2. CASE Make(User)
  <2>1. made + 1 \in Loop /\ made < MaxLoops /\ made \in Nat
    BY <1>2, Numbers DEF Make
  <2>2. \A u \in Thread \ {User} : todo'[u] = todo[u]
    BY <1>0, <1>2, OwnStep DEF Make
  <2>3. handle' = [handle EXCEPT ![made + 1] = TRUE] /\ program' = [program EXCEPT ![made + 1] = Top(User).prog]
    BY <1>2 DEF Make
  <2>4. todo[made + 1] = <<>>
    <3>1. current \in 0..made
      BY DEF IInv, Plain
    <3> QED  BY <2>1, <3>1 DEF IInv, LoopInv
  <2>5. \A p : Stands(<<>>, p)
    BY DEF Stands, Fitted
  <2>6. handle' \in [Loop -> BOOLEAN]
    BY <1>0, <2>3
  <2>7. ASSUME NEW o \in Loop PROVE Stands(todo'[o], program'[o])
    <3>1. todo'[o] = todo[o]
      BY <1>0, <2>2
    <3>2. CASE o = made + 1
      BY <2>4, <2>5, <3>1, <3>2
    <3>3. CASE o # made + 1
      <4>1. program'[o] = program[o]
        BY <2>3, <3>3 DEF IInv, Plain
      <4> QED  BY <3>1, <4>1 DEF Programmed
    <3> QED  BY <3>2, <3>3
  <2> QED  BY <2>6, <2>7 DEF Programmed
<1>3. CASE ~Launch(User) /\ ~Make(User)
  <2>1. program' = program
    BY <1>3 DEF Step, Instruct, ReadCurrent, GrabHandle, ReleaseHandle, Join, JoinFails, ForgetLoop, Begin, Enter,
                Leave, Restart, Reraise, Count, DropOn, DropNone, DropFails, Want, Work, Worked, WorkFails, loopVars
  <2>2. handle' \in [Loop -> BOOLEAN]
    <3>1. handle' = handle \/ handle' = [handle EXCEPT ![Top(User).i] = FALSE]
      BY <1>3 DEF Step, Instruct, ReadCurrent, GrabHandle, ReleaseHandle, Join, JoinFails, ForgetLoop, Begin, Enter,
                Leave, Restart, Reraise, Count, DropOn, DropNone, DropFails, Want, Work, Worked, WorkFails, loopVars
    <3> QED  BY <1>0, <3>1
  <2>3. \A u \in Thread \ {User} : todo'[u] = todo[u]
    <3>1. CASE DropOn(User)
      <4> DEFINE i == Top(User).i
                 ref == stack[i]
      <4>1. i \in 1..Len(stack) /\ stack \in Seq(Thread \X Nat)
        BY <3>1 DEF DropOn, IInv, Plain
      <4>2. ref \in Thread \X Nat
        BY <4>1
      <4>3. CASE ~Paused(ref)
        <5>1. Then(User, <<On("drop", i - 1)>>)
          BY <3>1, <4>3 DEF DropOn
        <5> QED  BY <1>0, <5>1 DEF Then
      <4>4. CASE Paused(ref)
        <5>1. Dropped(ref) = [todo EXCEPT ![User] = [@ EXCEPT ![Place(ref)].prog = "none"]]
          BY <4>2, <4>4, ReferredTo
        <5>2. todo' = [Dropped(ref) EXCEPT ![User] = Tail(@)]
          BY <3>1, <4>4 DEF DropOn
        <5> HIDE DEF ref
        <5> QED  BY <1>0, <5>1, <5>2
      <4> QED  BY <4>3, <4>4
    <3>2. CASE Work(User)
      BY <3>2 DEF Work
    <3>3. CASE Instruct
      BY <1>0, <3>3 DEF Instruct
    <3>4. CASE Step(User) /\ ~DropOn(User) /\ ~Work(User)
      <4>1. (\E cs : Then(User, cs)) \/ Return(User) \/ (\E e : Raise(User, e))
        BY <1>3, <3>4 DEF Step, ReadCurrent, GrabHandle, ReleaseHandle, Join, JoinFails, ForgetLoop, Begin, Enter,
                Leave, Restart, Reraise, Count, DropNone, DropFails, Want, Worked, WorkFails
      <4> QED  BY <1>0, <4>1, OwnStep
    <3> QED  BY <3>1, <3>2, <3>3, <3>4
  <2> QED  BY <1>0, <2>1, <2>2, <2>3 DEF Programmed
<1> QED  BY <1>1, <1>2, <1>3

(* A loop's step leaves the user's tasks as they are, or has one of its    *)
(* pausers restart nothing; it stops, or crashes, only the loop it is.     *)
LEMMA LoopKeepsFine ==
  ASSUME NEW a \in Stops, NEW b \in Blocks, NEW k \in Kinds, NEW p \in Names, NEW i \in Nat,
         NEW q \in Names, NEW n \in 0..2, Fine(a, b, k, p, i, q, n),
         NEW pp \in Names, pp = p \/ (b = "restart" /\ pp = "none"), NEW qq \in Names, qq \in {q, "none"},
         todo'[User] = StopOn(a, current, BlockOn(b, k, pp, i, Left(qq, n))),
         current # 0, current' = current, program' = program, ret'[User] = ret[User],
         handle' = handle \/ (program[current] = "endloop" /\ ~handle'[current]),
         (wanted' = wanted /\ crashed' = crashed) \/ wanted' = IF wanted = "none" THEN "none" ELSE "crashed"
  PROVE  Planned'
<1>1. Shaped(a, b, k, pp, qq, n)
  BY DEF Fine, Shaped, Commanding
<1>2. Standing(a, b, pp, n)'
  BY DEF Fine, Shaped, Standing, Commanding, Promised, Programs
<1>3. Pausing(b, i, qq, n)'
  BY DEF Fine, Pausing
<1>4. Wanting(a, b, pp, qq)'
  <2>1. CASE wanted' = wanted /\ crashed' = crashed
    <3>1. wanted \in Promised => wanted # "endloop"
      BY DEF Promised
    <3> QED  BY <2>1, <3>1 DEF Fine, Wanting, Good
  <2>2. CASE wanted' = "none" /\ wanted = "none"
    BY <2>2 DEF Fine, Wanting, Promised, Programs
  <2>3. CASE wanted' = "crashed"
    BY <2>3 DEF Wanting, Promised, Programs
  <2> QED  BY <2>1, <2>2, <2>3
<1>5. (todo[User] = StopOn(a, current, BlockOn(b, k, pp, i, Left(qq, n))))'
  OBVIOUS
<1>6. Fine(a, b, k, pp, i, qq, n)'
  BY <1>1, <1>2, <1>3, <1>4, <1>5 DEF Fine
<1> QED  BY <1>6, Replanned

LEMMA LoopKeepsPlanned ==
  ASSUME Planned, todo'[User] = todo[User],
         current # 0, current' = current, program' = program, ret'[User] = ret[User],
         handle' = handle \/ (program[current] = "endloop" /\ ~handle'[current]),
         (wanted' = wanted /\ crashed' = crashed) \/ wanted' = IF wanted = "none" THEN "none" ELSE "crashed"
  PROVE  Planned'
<1>1. PICK a \in Stops, b \in Blocks, k \in Kinds, p \in Names, i \in Nat, q \in Names, n \in 0..2 :
        Fine(a, b, k, p, i, q, n)
  BY DEF Planned
<1>2. todo'[User] = StopOn(a, current, BlockOn(b, k, p, i, Left(q, n)))
  BY <1>1 DEF Fine
<1> QED  BY <1>1, <1>2, LoopKeepsFine

LEMMA LoopDropPlanned ==
  ASSUME IInv, Programmed, Planned, NEW o \in Loop, DropOn(o)
  PROVE  Planned'
<1> DEFINE j == Top(o).i
           ref == stack[j]
           U == todo[User]
<1>1. Running(o, "drop") /\ j \in 1..Len(stack) /\ stack \in Seq(Thread \X Nat)
  BY DEF DropOn, IInv, Plain
<1>2. ref \in Thread \X Nat /\ current # 0 /\ User \in Thread /\ o \in Thread /\ o # User /\ DOMAIN todo = Thread
  <2>1. ref \in Thread \X Nat
    BY <1>1
  <2> QED  BY <1>1, <2>1, LoopRest, Roles, Numbers DEF User, IInv, Plain
<1>3. current' = current /\ program' = program /\ ret' = ret /\ handle' = handle /\ wanted' = wanted /\ crashed' = crashed
  BY DEF DropOn, loopVars
<1>4. CASE ~Paused(ref)
  <2>1. Then(o, <<On("drop", j - 1)>>)
    BY <1>4 DEF DropOn
  <2>2. todo'[User] = todo[User]
    BY <1>2, <2>1, OwnStep
  <2> QED  BY <1>2, <1>3, <2>2, LoopKeepsPlanned
<1>5. CASE Paused(ref)
  <2> DEFINE m == Place(ref)
  <2>1. m \in 1..Len(U) /\ HasPaused(U[m])
        /\ Dropped(ref) = [todo EXCEPT ![User] = [@ EXCEPT ![m].prog = "none"]]
    BY <1>2, <1>5, ReferredTo
  <2>2. todo' = [Dropped(ref) EXCEPT ![o] = Tail(@)]
    BY <1>5 DEF DropOn
  <2> HIDE DEF m
  <2>3. todo'[User] = [U EXCEPT ![m].prog = "none"]
    BY <1>2, <2>1, <2>2
  <2>4. PICK a \in Stops, b \in Blocks, k \in Kinds, p \in Names, i \in Nat, q \in Names, n \in 0..2 :
          Fine(a, b, k, p, i, q, n)
    BY DEF Planned
  <2>5. /\ m = Len(U)
        /\ n # 0 => Undo(U) = StopOn(a, current, BlockOn(b, k, p, i, Left("none", n)))
        /\ n = 0 => /\ b = "restart"
                    /\ Undo(U) = StopOn(a, current, BlockOn(b, k, "none", i, Left("none", n)))
    BY <2>1, <2>4, PausedLast
  <2>6. todo'[User] = Undo(U) /\ "none" \in Names
    BY <2>3, <2>5 DEF Undo, Names
  <2>7. CASE n # 0
    <3>1. todo'[User] = StopOn(a, current, BlockOn(b, k, p, i, Left("none", n)))
      BY <2>5, <2>6, <2>7
    <3> QED  BY <1>2, <1>3, <2>4, <2>6, <3>1, LoopKeepsFine
  <2>8. CASE n = 0
    <3>1. todo'[User] = StopOn(a, current, BlockOn(b, k, "none", i, Left("none", n))) /\ b = "restart"
      BY <2>5, <2>6, <2>8
    <3> QED  BY <1>2, <1>3, <2>4, <2>6, <3>1, LoopKeepsFine
  <2> QED  BY <2>7, <2>8
<1> QED  BY <1>4, <1>5

LEMMA LoopStepPlanned ==
  ASSUME IInv, Programmed, Planned, NEW o \in Loop, Step(o) \/ Iterate(o) \/ Crash(o)
  PROVE  Planned'
<1>0. /\ \A t : Running(o, t) => current # 0 /\ o = current /\ Top(o) \in LoopTask(o) /\ Top(o).t = t
                                 /\ Fits(Top(o), program[o]) /\ t \in LoopTypes
      /\ o \in Thread /\ User \in Thread \ {o}
  <2>1. o \in Thread /\ User \in Thread \ {o}
    BY Roles, Numbers DEF User
  <2> QED  BY <2>1, LoopRest
<1>1. CASE DropOn(o)
  BY <1>1, LoopDropPlanned
<1>2. CASE Iterate(o)
  <2>1. Running(o, "loop") /\ (Return(o) \/ todo' = [todo EXCEPT ![o] = <<Execute("infer", program[o])>> \o @])
    BY <1>2 DEF Iterate
  <2>2. todo'[User] = todo[User]
    <3>1. DOMAIN todo = Thread
      BY DEF IInv, Plain
    <3> QED  BY <1>0, <2>1, <3>1 DEF Return, Then
  <2>3. UNCHANGED <<current, program, ret, handle, wanted, crashed>>
    BY <1>2 DEF Iterate, loopVars
  <2> QED  BY <1>0, <2>1, <2>2, <2>3, LoopKeepsPlanned
<1>3. CASE Crash(o)
  <2>1. Running(o, "loop") /\ todo'[User] = todo[User]
    BY <1>0, <1>3, OwnStep DEF Crash
  <2>2. UNCHANGED <<current, program, ret, handle>> /\ wanted' = IF wanted = "none" THEN "none" ELSE "crashed"
    BY <1>3 DEF Crash
  <2> QED  BY <1>0, <2>1, <2>2, LoopKeepsPlanned
<1>4. CASE ReleaseHandle(o)
  <2>1. Running(o, "release") /\ todo'[User] = todo[User]
    BY <1>0, <1>4, OwnStep DEF ReleaseHandle
  <2>2. UNCHANGED <<current, program, ret, wanted, crashed>> /\ handle' = [handle EXCEPT ![Top(o).i] = FALSE]
    BY <1>4 DEF ReleaseHandle
  <2>3. program[current] = "endloop" /\ Top(o).i = current
    <3>1. program[o] = "endloop"
      BY <1>0, <2>1 DEF Fits
    <3>2. Top(o).i = o
      BY <1>0, <2>1 DEF LoopTask
    <3> QED  BY <1>0, <2>1, <3>1, <3>2
  <2>4. ~handle'[current]
    <3>1. handle \in [Loop -> BOOLEAN] /\ current \in Loop
      BY <1>0, <2>1, Numbers DEF Programmed
    <3> QED  BY <2>2, <2>3, <3>1
  <2> QED  BY <1>0, <2>1, <2>2, <2>3, <2>4, LoopKeepsPlanned
<1>5. CASE Step(o) /\ ~DropOn(o) /\ ~ReleaseHandle(o)
  <2>1. ~Join(o) /\ ~ForgetLoop(o) /\ ~Want(o) /\ ~Make(o) /\ ~Launch(o)
    BY <1>5, LoopStepProgrammed
  <2>2. UNCHANGED <<current, program, handle, wanted, crashed>> /\ ret'[User] = ret[User]
    <3>1. current' = current
      BY <1>5, <2>1 DEF Step, ReadCurrent, GrabHandle, JoinFails, Begin, Enter, Leave, Restart, Reraise, Count,
                        DropNone, DropFails, Work, Worked, WorkFails
    <3>2. wanted' = wanted
      BY <1>5, <2>1 DEF Step, ReadCurrent, GrabHandle, JoinFails, Begin, Enter, Leave, Restart, Reraise, Count,
                        DropNone, DropFails, Work, Worked, WorkFails
    <3>3. loopVars' = loopVars
      BY <1>5, <2>1 DEF Step, ReadCurrent, GrabHandle, JoinFails, Begin, Enter, Leave, Restart, Reraise, Count,
                        DropNone, DropFails, Work, Worked, WorkFails
    <3>4. ret' = ret \/ ret' = [ret EXCEPT ![o] = "none"]
      BY <1>5, <2>1 DEF Step, ReadCurrent, GrabHandle, JoinFails, Begin, Enter, Leave, Restart, Reraise, Count,
                        DropNone, DropFails, Work, Worked, WorkFails
    <3>5. ret \in [Thread -> Names] /\ User \in Thread
      BY <1>0 DEF IInv, Plain
    <3> QED  BY <1>0, <3>1, <3>2, <3>3, <3>4, <3>5 DEF loopVars
  <2>3. \E t : Running(o, t)
    BY <1>5, <2>1 DEF Step, ReadCurrent, GrabHandle, JoinFails, Begin, Enter, Leave, Restart, Reraise, Count,
                      DropNone, DropFails, Work, Worked, WorkFails
  <2>4. todo'[User] = todo[User]
    <3>1. (\E cs : Then(o, cs)) \/ Return(o) \/ (\E e : Raise(o, e)) \/ todo' = todo
      BY <1>5, <2>1 DEF Step, ReadCurrent, GrabHandle, JoinFails, Begin, Enter, Leave, Restart, Reraise, Count,
                        DropNone, DropFails, Work, Worked, WorkFails
    <3> QED  BY <1>0, <3>1, OwnStep
  <2> QED  BY <1>0, <2>2, <2>3, <2>4, LoopKeepsPlanned
<1> QED  BY <1>1, <1>2, <1>3, <1>4, <1>5

(* Every step keeps to the plan.                                           *)
LEMMA StepPlanned ==
  ASSUME IInv, Counted, Programmed, Planned, [Next]_vars
  PROVE  Programmed' /\ Planned'
<1>0. handle \in [Loop -> BOOLEAN]
  BY DEF Programmed
<1>1. CASE Instruct
  BY <1>1, InstructPlanned, UserProgrammed
<1>2. CASE Step(User)
  <2>1. Programmed'
    BY <1>2, UserProgrammed
  <2>2. Planned'
    BY <1>0, <1>2, ReadPlanned, GrabPlanned, ReleasePlanned, JoinPlanned, JoinFailsPlanned, ForgetPlanned,
       MakePlanned, LaunchPlanned, BeginPlanned, EnterPlanned, LeavePlanned, RestartPlanned, ReraisePlanned,
       CountPlanned, DropOnPlanned, DropEndsPlanned, WantPlanned, WorkPlanned DEF Step
  <2> QED  BY <2>1, <2>2
<1>3. ASSUME NEW o \in Loop, Step(o) \/ Iterate(o) \/ Crash(o) PROVE Programmed' /\ Planned'
  BY <1>3, LoopStepProgrammed, LoopIterates, LoopStepPlanned
<1>4. CASE UNCHANGED vars
  BY <1>4 DEF vars, loopVars, Programmed, Planned, Fine, Standing, Pausing, Wanting, Good
<1>5. \A th \in Thread : th = User \/ th \in Loop
  BY Roles
<1> QED  BY <1>1, <1>2, <1>3, <1>4, <1>5 DEF Next, Rest

LEMMA StartsPlanned ==
  ASSUME Init
  PROVE  Programmed /\ Planned
<1>1. \A th \in Thread : todo[th] = <<>>
  BY DEF Init
<1>2. Programmed
  <2>1. \A p : Stands(<<>>, p)
    BY DEF Stands, Fitted
  <2>2. \A o \in Loop : todo[o] = <<>>
    BY <1>1, Roles
  <2> QED  BY <2>1, <2>2 DEF Init, Programmed
<1>3. "none" \in Stops /\ "none" \in Blocks /\ "none" \in Kinds /\ "none" \in Names /\ 0 \in Nat /\ 0 \in 0..2
  BY DEF Stops, Blocks, Kinds, Names
<1>4. todo[User] = StopOn("none", current, BlockOn("none", "none", "none", 0, Left("none", 0)))
  BY <1>1, Roles DEF StopOn, BlockOn, Left, Commanding
<1>5. Shaped("none", "none", "none", "none", "none", 0)
  BY DEF Shaped, Commanding
<1>6. Standing("none", "none", "none", 0) /\ Pausing("none", 0, "none", 0) /\ Wanting("none", "none", "none", "none")
  BY DEF Init, Standing, Pausing, Wanting, Promised, Programs, Commanding
<1>7. Fine("none", "none", "none", "none", 0, "none", 0)
  BY <1>4, <1>5, <1>6 DEF Fine
<1> QED  BY <1>2, <1>3, <1>7 DEF Planned

(* Between instructions there is nothing left of a plan.                   *)
LEMMA IdlePlan ==
  ASSUME IInv, Planned, Idle
  PROVE  LoopAsWanted
<1>1. PICK a \in Stops, b \in Blocks, k \in Kinds, p \in Names, i \in Nat, q \in Names, n \in 0..2 :
        Fine(a, b, k, p, i, q, n)
  BY DEF Planned
<1>2. a = "none" /\ b = "none" /\ n = 0
  <2> DEFINE R == BlockOn(b, k, p, i, Left(q, n))
  <2>1. Left(q, n) \in Seq(TaskSet) /\ (Left(q, n) = <<>> <=> n = 0)
    BY LeftTop
  <2>2. R \in Seq(TaskSet) /\ (b # "none" => R # <<>>) /\ (b = "none" => R = Left(q, n))
    BY <2>1, BlockTop
  <2>3. current \in Nat /\ todo[User] = StopOn(a, current, R) /\ todo[User] = <<>>
    BY <1>1, Numbers DEF Fine, Idle
  <2> HIDE DEF R
  <2>4. a = "none"
    BY <2>2, <2>3, StopTop
  <2>5. todo[User] = R
    BY <2>3, <2>4 DEF StopOn
  <2> QED  BY <2>1, <2>2, <2>3, <2>4, <2>5
<1>3. q = "none" /\ Wanting("none", "none", p, "none")
  BY <1>1, <1>2 DEF Fine, Shaped
<1>4. wanted \in Promised => wanted # "none"
  BY DEF Promised, Programs
<1> QED  BY <1>3, <1>4 DEF LoopAsWanted, Wanting, Good, Promised

(* The loop that was asked for: for any number of loops and instructions,  *)
(* in every interleaving of the user's thread with the loops', the loop    *)
(* that the user started last is running whenever no instruction is,       *)
(* though list_directives pauses it twice over, the program of `infer` may *)
(* itself give commands, and any of these may fail at any point and unwind *)
(* through the pausers' __exit__; and once the user has stopped inference, *)
(* no pauser starts it again.                                              *)
THEOREM LoopWanted == Spec => []LoopAsWanted
<1> DEFINE Inv == IInv /\ Counted /\ Programmed /\ Planned
<1>1. Init => Inv
  BY Starts, InitCounts, StartsPlanned
<1>2. Inv /\ [Next]_vars => Inv'
  BY Keeps, StepCounts, StepPlanned
<1>3. Inv => LoopAsWanted
  BY IdlePlan DEF LoopAsWanted
<1> QED  BY <1>1, <1>2, <1>3, PTL DEF Spec
=============================================================================
