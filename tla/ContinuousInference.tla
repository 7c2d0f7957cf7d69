------------------------ MODULE ContinuousInference ------------------------
(***************************************************************************)
(* Continuous inference: a program that the engine infers over and over on *)
(* a thread of its own (engine/engine.py, ContinuousInferrer), and how the *)
(* SIVM pauses it around the instructions the user's thread executes       *)
(* (sivm/venture_sivm.py, execute_instruction).                            *)
(*                                                                         *)
(* Each thread has a stack of tasks; a task is a piece of Python between   *)
(* two accesses of state that another thread can change as well.           *)
(***************************************************************************)
EXTENDS Integers, Sequences, FiniteSets, SequencesExt

CONSTANTS
  Loops,     \* the programs that are looped
  MaxLoops,  \* ContinuousInferrers that are made: bounds the model
  MaxCalls   \* instructions of the user: bounds the model

(* A program resimulates (mh), gives the ripl a modelling command          *)
(* (nested), stops continuous inference (endloop), or raises (crash).      *)
Programs == {"mh", "nested", "endloop", "crash"}

ASSUME LoopsAssumption == Loops \subseteq Programs /\ MaxLoops \in Nat /\ MaxCalls \in Nat

User   == 0
Loop   == 1..MaxLoops   \* ContinuousInferrers, each with its thread
Thread == {User} \cup Loop

VARIABLES
  todo,     \* per thread, its pending tasks
  exc,      \* per thread, the exception it is unwinding
  ret,      \* per thread, what its last stop returned: a program or "none"
  stack,    \* VentureSivm._ci_pauser_stack: references to pausers
  current,  \* Engine.inferrer
  handle,   \* per loop, whether its inferrer field still holds the thread
  program,  \* per loop, what it infers
  crashed,  \* per loop, its crashed flag
  made,     \* loops made so far
  working,  \* the threads that are working on the traces
  calls,    \* instructions of the user so far
  wanted    \* ghost: the loop the user asked for last; "none" after a stop

loopVars  == <<handle, program, crashed, made>>
vars == <<todo, exc, ret, stack, current, loopVars, working, calls, wanted>>

Task(t)    == [t |-> t, kind |-> "none", prog |-> "none", i |-> 0]
On(t, i)   == [Task(t) EXCEPT !.i = i]
Execute(kind, p) == [t |-> "execute", kind |-> kind, prog |-> p, i |-> 0]

Init ==
  /\ todo = [th \in Thread |-> <<>>] /\ exc = [th \in Thread |-> "none"]
  /\ ret = [th \in Thread |-> "none"]
  /\ stack = <<>>
  /\ current = 0 /\ made = 0
  /\ handle  = [o \in Loop |-> FALSE] /\ crashed = [o \in Loop |-> FALSE]
  /\ program = [o \in Loop |-> "none"]
  /\ working = {} /\ calls = 0 /\ wanted = "none"

Top(th)          == Head(todo[th])
Running(th, t)   == todo[th] # <<>> /\ Top(th).t = t
Then(th, tasks)  == todo' = [todo EXCEPT ![th] = tasks \o Tail(@)]
Return(th)       == Then(th, <<>>)

(* An exception unwinds to the next pauser's __exit__, or to the handler   *)
(* around the loop.                                                        *)
Handlers(tasks) == {i \in DOMAIN tasks : tasks[i].t \in {"exit", "loop"}}
(* Mutation: the pausers' exits are passed over.                           *)
Unwound_past(tasks) == SelectSeq(tasks, LAMBDA task : task.t = "loop")
Unwound(tasks)  ==
  IF Handlers(tasks) = {} THEN <<>>
  ELSE SubSeq(tasks, CHOOSE i \in Handlers(tasks) : \A j \in Handlers(tasks) : i <= j, Len(tasks))
Raise(th, e) == /\ todo' = [todo EXCEPT ![th] = Unwound(Tail(@))]
                /\ exc'  = [exc EXCEPT ![th] = e]

-----------------------------------------------------------------------------
(* Engine.stop_continuous_inference and ContinuousInferrer.stop: read the  *)
(* engine's loop, take its thread, wait for the thread, forget the loop.   *)
Stop == <<Task("read")>>

ReadCurrent(th) ==
  /\ Running(th, "read")
  /\ Then(th, IF current = 0 THEN <<>> ELSE <<On("grab", current)>>)
  /\ ret' = [ret EXCEPT ![th] = "none"]
  /\ UNCHANGED <<exc, stack, current, loopVars, working, calls, wanted>>

GrabHandle(th) ==
  /\ Running(th, "grab")
  /\ Then(th, <<On("release", Top(th).i), On(IF handle[Top(th).i] THEN "join" ELSE "joinNone", Top(th).i)>>)
  /\ UNCHANGED <<exc, ret, stack, current, loopVars, working, calls, wanted>>

ReleaseHandle(th) ==
  /\ Running(th, "release")
  /\ handle' = [handle EXCEPT ![Top(th).i] = FALSE]
  /\ Return(th)
  /\ UNCHANGED <<exc, ret, stack, current, program, crashed, made, working, calls, wanted>>

(* Mutation: the thread is told to stop and not waited for.                *)
Joined_atOnce(o) == TRUE
Joined(o) == todo[o] = <<>>

Join(th) ==
  /\ Running(th, "join") /\ Top(th).i # th /\ Joined(Top(th).i)
  /\ ret' = [ret EXCEPT ![th] = IF crashed[Top(th).i] THEN "none" ELSE program[Top(th).i]]
  /\ Then(th, <<Task("forget")>>)
  /\ UNCHANGED <<exc, stack, current, loopVars, working, calls, wanted>>

JoinFails(th) ==
  /\ \/ Running(th, "join") /\ Top(th).i = th /\ Raise(th, "cannot join current thread")
     \/ Running(th, "joinNone") /\ Raise(th, "None has no attribute join")
  /\ UNCHANGED <<ret, stack, current, loopVars, working, calls, wanted>>

ForgetLoop(th) ==
  /\ Running(th, "forget")
  /\ current' = 0
  /\ Return(th)
  /\ UNCHANGED <<exc, ret, stack, loopVars, working, calls, wanted>>

-----------------------------------------------------------------------------
(* Engine.start_continuous_inference.  Mutation: a loop that is running is *)
(* not stopped.                                                            *)
Start_over(p) == <<[Task("make") EXCEPT !.prog = p], Task("launch")>>
Start(p) == Stop \o <<[Task("make") EXCEPT !.prog = p], Task("launch")>>

Make(th) ==
  /\ Running(th, "make") /\ made < MaxLoops
  /\ made'    = made + 1
  /\ current' = made + 1
  /\ handle'  = [handle EXCEPT ![made + 1] = TRUE]
  /\ program' = [program EXCEPT ![made + 1] = Top(th).prog]
  /\ Return(th)
  /\ UNCHANGED <<exc, ret, stack, crashed, working, calls, wanted>>

Launch(th) ==
  /\ Running(th, "launch")
  /\ todo' = [todo EXCEPT ![th] = Tail(@), ![current] = <<Task("loop")>>]
  /\ UNCHANGED <<exc, ret, stack, current, loopVars, working, calls, wanted>>

(* infer_continuously: go on while the thread has not been taken.          *)
(* Mutation: the loop goes on whatever happens.                            *)
Proceeds_always(o) == TRUE
Proceeds(o) == handle[o]

Iterate(o) ==
  /\ Running(o, "loop") /\ exc[o] = "none"
  /\ IF Proceeds(o) THEN todo' = [todo EXCEPT ![o] = <<Execute("infer", program[o])>> \o @]
                    ELSE Return(o)
  /\ UNCHANGED <<exc, ret, stack, current, loopVars, working, calls, wanted>>

Crash(o) ==
  /\ Running(o, "loop") /\ exc[o] # "none"
  /\ crashed' = [crashed EXCEPT ![o] = TRUE]
  /\ wanted' = IF wanted = "none" THEN "none" ELSE "crashed"
  /\ Return(o)
  /\ UNCHANGED <<exc, ret, stack, current, handle, program, made, working, calls>>

-----------------------------------------------------------------------------
(* execute_instruction.                                                    *)
onContinuousInferenceThread(th) == current # 0 /\ ~crashed[current] /\ current = th

Pauses(th, kind) == \/ kind = "list"
                    \/ kind \notin {"status", "start", "stop"} /\ ~onContinuousInferenceThread(th)

Begin(th) ==
  /\ Running(th, "execute")
  /\ LET kind == Top(th).kind
         enter == [Top(th) EXCEPT !.t = IF Pauses(th, kind) THEN "pause" ELSE "enter"]
     IN Then(th, (IF Pauses(th, kind) THEN Stop ELSE <<>>) \o <<enter>>)
  /\ UNCHANGED <<exc, ret, stack, current, loopVars, working, calls, wanted>>

(* What an instruction does inside of its pauser.  list_directives pauses  *)
(* again inside of the ripl's pause.                                       *)
Inferring(p) == CASE p = "mh"      -> <<Task("work")>>
                  [] p = "nested"  -> <<Execute("assume", "none")>>
                  [] p = "endloop" -> <<Execute("stop", "none")>>
                  [] OTHER         -> <<Task("raise")>>
Body(kind, p) == CASE kind = "infer"               -> Inferring(p)
                   [] kind = "loop"                -> Start(p) \o <<[Task("want") EXCEPT !.prog = p]>>
                   [] kind = "start"               -> Start(p) \o <<[Task("want") EXCEPT !.prog = p]>>
                   [] kind = "stop"                -> <<Task("count")>> \o Stop \o <<Task("want")>>
                   [] kind = "list" /\ p = "outer" -> <<Execute("list", "none")>>
                   [] kind = "status"              -> <<>>
                   [] OTHER                        -> <<Task("work")>>

(* A pauser is the exit that waits on its thread's stack of tasks, and the *)
(* restart that this becomes; prog is the loop it has paused.  A reference *)
(* to it is the place where it waits, counted from the bottom.             *)
Exit(p) == [Task("exit") EXCEPT !.prog = p]

Enter(th) ==
  /\ Running(th, "pause") \/ Running(th, "enter")
  /\ stack' = Append(stack, <<th, Len(todo[th])>>)
  /\ Then(th, Body(Top(th).kind, Top(th).prog)
               \o <<Exit(IF Top(th).t = "pause" THEN ret[th] ELSE "none")>>)
  /\ UNCHANGED <<exc, ret, current, loopVars, working, calls, wanted>>

(* __exit__ pops whatever is on top of the stack, which another thread may *)
(* have put there, and then asks its own pauser.                           *)
Leave(th) ==
  /\ Running(th, "exit")
  /\ stack' = Front(stack)
  /\ Then(th, <<[Top(th) EXCEPT !.t = "restart"]>>)
  /\ UNCHANGED <<exc, ret, current, loopVars, working, calls, wanted>>

(* A loop that runs by now was started by the instruction, and wins.       *)
Restart(th) ==
  /\ Running(th, "restart")
  /\ Then(th, (IF (current # 0 /\ ~crashed[current]) \/ Top(th).prog = "none" THEN <<>>
               ELSE Start(Top(th).prog)) \o <<Task("reraise")>>)
  /\ UNCHANGED <<exc, ret, stack, current, loopVars, working, calls, wanted>>

Reraise(th) ==
  /\ Running(th, "reraise")
  /\ IF exc[th] = "none" THEN Return(th) /\ UNCHANGED exc ELSE Raise(th, exc[th])
  /\ UNCHANGED <<ret, stack, current, loopVars, working, calls, wanted>>

-----------------------------------------------------------------------------
(* _drop_top_paused_ci: down the stack, to a pauser that has paused a      *)
(* loop, which is not to be restarted.  (A reference may outlive its       *)
(* pauser; what that one had paused is of no consequence any more.)        *)
Count(th) ==
  /\ Running(th, "count")
  /\ Then(th, <<On("drop", Len(stack))>>)
  /\ UNCHANGED <<exc, ret, stack, current, loopVars, working, calls, wanted>>

Place(ref)  == Len(todo[ref[1]]) + 1 - ref[2]
Paused(ref) == /\ Place(ref) \in DOMAIN todo[ref[1]]
               /\ todo[ref[1]][Place(ref)].t \in {"exit", "restart"}
               /\ todo[ref[1]][Place(ref)].prog # "none"

(* Mutation: what is paused stays paused.                                  *)
Dropped_kept(ref) == todo
Dropped(ref) == [todo EXCEPT ![ref[1]][Place(ref)].prog = "none"]

DropOn(th) == LET i == Top(th).i IN
  /\ Running(th, "drop") /\ i \in 1..Len(stack)
  /\ IF Paused(stack[i])
       THEN todo' = [Dropped(stack[i]) EXCEPT ![th] = Tail(@)]
       ELSE Then(th, <<On("drop", i - 1)>>)
  /\ UNCHANGED <<exc, ret, stack, current, loopVars, working, calls, wanted>>

DropNone(th) ==
  /\ Running(th, "drop") /\ Top(th).i = 0
  /\ Return(th)
  /\ UNCHANGED <<exc, ret, stack, current, loopVars, working, calls, wanted>>

DropFails(th) ==
  /\ Running(th, "drop") /\ Top(th).i > Len(stack)
  /\ Raise(th, "list index out of range")
  /\ UNCHANGED <<ret, stack, current, loopVars, working, calls, wanted>>

(* Ghost: the user's instruction has started or stopped a loop.  A loop    *)
(* that has crashed in the meantime is wanted no longer.                   *)
Want(th) ==
  /\ Running(th, "want")
  /\ wanted' = IF Top(th).prog # "none" /\ crashed[current] THEN "crashed" ELSE Top(th).prog
  /\ Return(th)
  /\ UNCHANGED <<exc, ret, stack, current, loopVars, working, calls>>

-----------------------------------------------------------------------------
(* Work on the traces, which may raise.                                    *)
Work(th) ==
  /\ Running(th, "work") /\ th \notin working
  /\ working' = working \cup {th}
  /\ UNCHANGED <<todo, exc, ret, stack, current, loopVars, calls, wanted>>

Worked(th) ==
  /\ Running(th, "work") /\ th \in working
  /\ working' = working \ {th}
  /\ Return(th)
  /\ UNCHANGED <<exc, ret, stack, current, loopVars, calls, wanted>>

WorkFails(th) ==
  /\ \/ Running(th, "work") /\ th \in working
     \/ Running(th, "raise")
  /\ working' = working \ {th}
  /\ Raise(th, "failed")
  /\ UNCHANGED <<ret, stack, current, loopVars, calls, wanted>>

(* The user executes an instruction.                                       *)
Instructions == {Execute(k, "none") : k \in {"assume", "stop", "status"}}
                \cup {Execute("list", "outer")}
                \cup {Execute("infer", p) : p \in Programs}
                \cup {Execute(k, p) : k \in {"loop", "start"}, p \in Loops}

Instruct ==
  /\ todo[User] = <<>> /\ calls < MaxCalls
  /\ \E instruction \in Instructions : todo' = [todo EXCEPT ![User] = <<instruction>>]
  /\ calls' = calls + 1
  /\ exc' = [exc EXCEPT ![User] = "none"]
  /\ UNCHANGED <<ret, stack, current, loopVars, working, wanted>>

(* The user executes no more instructions, and nothing is looping.         *)
Rest == /\ calls = MaxCalls /\ \A th \in Thread : todo[th] = <<>>
        /\ UNCHANGED vars

Step(th) ==
  \/ ReadCurrent(th) \/ GrabHandle(th) \/ ReleaseHandle(th) \/ Join(th) \/ JoinFails(th)
  \/ ForgetLoop(th) \/ Make(th) \/ Launch(th)
  \/ Begin(th) \/ Enter(th) \/ Leave(th) \/ Restart(th) \/ Reraise(th)
  \/ Count(th) \/ DropOn(th) \/ DropNone(th) \/ DropFails(th) \/ Want(th) \/ Work(th) \/ Worked(th) \/ WorkFails(th)

Next == \/ Instruct
        \/ \E th \in Thread : Step(th)
        \/ \E o \in Loop : Iterate(o) \/ Crash(o)
        \/ Rest

Spec == Init /\ [][Next]_vars

(* Every thread runs while it can: Python switches between them.           *)
FairSpec == /\ Spec
            /\ WF_vars(Step(User))
            /\ \A o \in Loop : WF_vars(Step(o) \/ Iterate(o) \/ Crash(o))

-----------------------------------------------------------------------------
Idle    == todo[User] = <<>>
Looping == {o \in Loop : todo[o] # <<>>}

(* Type invariant: the stack has a reference for each exit to come: no     *)
(* exit pops an empty stack, whichever pauser's reference it takes.        *)
Exits(th) == {i \in DOMAIN todo[th] : todo[th][i].t = "exit"}
TypeOK ==
  /\ current \in {0} \cup Loop /\ wanted \in Programs \cup {"none", "crashed"}
  /\ working \subseteq Thread
  /\ \A i \in DOMAIN stack : stack[i] \in Thread \X Nat
  /\ Len(stack) = Cardinality(UNION {{th} \X Exits(th) : th \in Thread})

(* The traces are worked on by one thread at a time: an instruction of the *)
(* user works while no loop does.                                          *)
Exclusive == \A s, t \in working : s = t

(* There is one loop at a time, and it is the one the engine knows: no     *)
(* loop escapes it and goes on where no stop reaches it.                   *)
OneLoop == Looping \subseteq {current}

(* Between instructions the loop that was asked for last is running, after *)
(* whatever instructions paused it, also when they failed; a stop or an    *)
(* endloop has ended it for good; only a crash ends it otherwise.  (A loop *)
(* whose own program says endloop fails to join its own thread, and leaves *)
(* an inferrer without a thread that every later stop fails on, too.)      *)
LoopAsWanted ==
  Idle => /\ wanted \in Programs \ {"endloop"} =>
               /\ current # 0 /\ program[current] = wanted
               /\ handle[current] /\ ~crashed[current]
          /\ wanted = "none" => current = 0

(* Every instruction returns, whatever the loop is doing when it comes.    *)
InstructionReturns == ~Idle ~> Idle
=============================================================================
