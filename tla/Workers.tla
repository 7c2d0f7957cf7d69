------------------------------ MODULE Workers -------------------------------
(***************************************************************************)
(* The master and the workers over which the engine maps an operation on   *)
(* its particles (python/lib/multiprocess.py).  A worker holds a chunk of  *)
(* the objects, polls its pipe for a command, runs it on its objects and   *)
(* sends the results back.  The master sends to every worker it addresses  *)
(* and then collects the answers.  It is used by one thread at a time.     *)
(***************************************************************************)
EXTENDS Integers, Sequences, SequencesExt

CONSTANTS
  NumObjects,  \* the particles
  ProcessCap,  \* the most workers allowed; 0 is Python's None
  Mode,        \* which master: multiprocess, threaded, serializing or sequential
  MaxCalls     \* calls the client makes: bounds the model, not the code

Modes == {"multiprocess", "threaded", "serializing", "sequential"}

ASSUME PoolAssumption == /\ NumObjects \in Nat \ {0} /\ ProcessCap \in Nat
                         /\ Mode \in Modes /\ MaxCalls \in Nat

Object   == 1..NumObjects
InThread == Mode \in {"serializing", "sequential"}  \* SynchronousPipe

VARIABLES
  phase,     \* what the client's thread is doing in the master
  current,   \* the call it has made
  turn,      \* the next of the workers addressed
  answers,   \* the answers received
  raised,    \* the exception that ended the call, if one did
  commands,  \* per worker, its end of the pipe
  replies,   \* per worker, the master's end of the pipe
  worker,    \* per worker, the poll it is in
  ran        \* ghost: the commands each object has run, and whether it succeeded

masterVars == <<phase, current, turn, answers, raised>>
vars == <<masterVars, commands, replies, worker, ran>>

-----------------------------------------------------------------------------
(* _create_processes: contiguous chunks, the first extras one longer.      *)
baseSize == IF ProcessCap = 0 THEN 1 ELSE NumObjects \div ProcessCap
extras   == IF ProcessCap = 0 THEN 0 ELSE NumObjects % ProcessCap
chunkCount == IF ProcessCap = 0 \/ NumObjects < ProcessCap THEN NumObjects ELSE ProcessCap
Worker   == 1..chunkCount

chunkStart(w) == IF w <= extras THEN (w - 1) * (baseSize + 1) ELSE extras + (w - 1) * baseSize
chunkSize(w)  == IF w <= extras THEN baseSize + 1 ELSE baseSize
Chunk(w) == [i \in 1..chunkSize(w) |-> chunkStart(w) + i]

-----------------------------------------------------------------------------
(* A call of the client.  map runs a command on every object, at on one;   *)
(* set_seeds (map_chunk, in reset_seeds) is run by a worker as a whole.    *)
Calls(id) == {[id |-> id, cmd |-> "map", to |-> 0], [id |-> id, cmd |-> "stop", to |-> 0]}
             \cup [id : {id}, cmd : {"at"}, to : Object]
             \cup [id : {id}, cmd : {"set_seeds"}, to : Worker]

(* The workers a call is sent to, and the objects one of them runs it on.  *)
chunkIndex(o) == CHOOSE w \in Worker : o \in chunkStart(w) + 1 .. chunkStart(w) + chunkSize(w)
targets(call) == CASE call.cmd \in {"map", "stop"} -> [w \in Worker |-> w]
                   [] call.cmd = "at"              -> <<chunkIndex(call.to)>>
                   [] call.cmd = "set_seeds"       -> <<call.to>>
                   [] OTHER                        -> <<>>

(* Mutation: the index is dropped, and the whole chunk runs the command.   *)
addressed_chunk(call, w) == Chunk(w)
addressed(call, w) == IF call.cmd = "at" THEN <<call.to>> ELSE Chunk(w)

(* Safely turns an exception into a Failure, Confidently lets it pass;     *)
(* set_seeds is wrapped by safely whatever the mode.                       *)
Passes(call) == Mode = "sequential" /\ call.cmd # "set_seeds"

Result(o, call, ok) == [obj |-> o, call |-> call.id, ok |-> ok]

NoCall  == [id |-> 0, cmd |-> "none", to |-> 0]
Polling == [state |-> "polling", call |-> NoCall, done |-> <<>>]

Init ==
  /\ phase = "idle" /\ current = NoCall /\ turn = 1 /\ answers = <<>> /\ raised = <<>>
  /\ commands = [w \in Worker |-> <<>>]
  /\ replies  = [w \in Worker |-> <<>>]
  /\ worker   = [w \in Worker |-> Polling]
  /\ ran      = [o \in Object |-> <<>>]

(* A SynchronousPipe's send returns when the worker's poll, its callback,  *)
(* has returned.                                                           *)
SendReturned == InThread => \A w \in Worker : commands[w] = <<>> /\ worker[w].state # "running"
Due(p)       == phase = p /\ SendReturned
target       == targets(current)[turn]

-----------------------------------------------------------------------------
(* The master.                                                             *)
Call ==
  /\ phase = "idle" /\ current.id < MaxCalls
  /\ \E call \in Calls(current.id + 1) : current' = call
  /\ phase' = "sending" /\ turn' = 1 /\ answers' = <<>> /\ raised' = <<>>
  /\ UNCHANGED <<commands, replies, worker, ran>>

Send ==
  /\ Due("sending") /\ turn <= Len(targets(current))
  /\ commands' = [commands EXCEPT ![target] = Append(@, current)]
  /\ turn' = turn + 1
  /\ UNCHANGED <<phase, current, answers, raised, replies, worker, ran>>

(* Everything is sent; a stop has no answer.                               *)
Sent ==
  /\ Due("sending") /\ turn > Len(targets(current))
  /\ phase' = IF current.cmd = "stop" THEN "stopped" ELSE "receiving"
  /\ turn'  = 1
  /\ UNCHANGED <<current, answers, raised, commands, replies, worker, ran>>

Receive ==
  /\ Due("receiving") /\ turn <= Len(targets(current))
  /\ replies[target] # <<>>
  /\ answers' = Append(answers, Head(replies[target]))
  /\ replies' = [replies EXCEPT ![target] = Tail(@)]
  /\ turn'    = turn + 1
  /\ UNCHANGED <<phase, current, raised, commands, worker, ran>>

(* handle_result_list raises the first failure there is: answers come in   *)
(* the order of the workers, and so of the objects.                        *)
Failures(lists) == {r \in UNION {Range(lists[k]) : k \in DOMAIN lists} : ~r.ok}

(* Mutation: the last one.                                                 *)
reraise_last(lists) ==
  IF Failures(lists) = {} THEN <<>>
  ELSE <<CHOOSE r \in Failures(lists) : \A q \in Failures(lists) : q.obj <= r.obj>>
reraise(lists) ==
  IF Failures(lists) = {} THEN <<>>
  ELSE <<CHOOSE r \in Failures(lists) : \A q \in Failures(lists) : r.obj <= q.obj>>

(* Mutation: the master stops collecting at the first failure it sees.     *)
Collected_untilFailure == \/ turn > Len(targets(current))
                          \/ Failures(answers) # {}
Collected == turn > Len(targets(current))

Return ==
  /\ Due("receiving") /\ Collected
  /\ phase'  = "idle"
  /\ raised' = reraise(answers)
  /\ UNCHANGED <<current, turn, answers, commands, replies, worker, ran>>

-----------------------------------------------------------------------------
(* A worker.                                                               *)
(* Mutation: a worker told to stop polls again.                            *)
polled_again(call) ==
  IF call.cmd = "stop" THEN Polling ELSE [state |-> "running", call |-> call, done |-> <<>>]
polled(call) ==
  IF call.cmd = "stop" THEN [Polling EXCEPT !.state = "stopped"]
  ELSE [state |-> "running", call |-> call, done |-> <<>>]

Poll(w) ==
  /\ worker[w].state = "polling" /\ commands[w] # <<>>
  /\ worker'   = [worker EXCEPT ![w] = polled(Head(commands[w]))]
  /\ commands' = [commands EXCEPT ![w] = Tail(@)]
  /\ UNCHANGED <<masterVars, replies, ran>>

(* The next object of a running worker, and whether there is one: after a  *)
(* failure there is none for a command that is run as a whole.             *)
nextObject(w) == addressed(worker[w].call, w)[Len(worker[w].done) + 1]
Broken(w) == worker[w].call.cmd = "set_seeds" /\ \E i \in DOMAIN worker[w].done : ~worker[w].done[i].ok
GoesOn(w) == /\ worker[w].state = "running" /\ ~Broken(w)
             /\ Len(worker[w].done) < Len(addressed(worker[w].call, w))

RunOn(w, ok) ==
  LET call == worker[w].call
      o    == nextObject(w)
  IN /\ ran' = [ran EXCEPT ![o] = Append(@, [call |-> call.id, ok |-> ok])]
     /\ IF ok \/ ~Passes(call)
          THEN /\ worker' = [worker EXCEPT ![w].done = Append(@, Result(o, call, ok))]
               /\ UNCHANGED masterVars
          ELSE \* the exception passes through poll and send into the master
               /\ worker' = [worker EXCEPT ![w] = Polling]
               /\ phase' = "idle" /\ raised' = <<Result(o, call, ok)>>
               /\ UNCHANGED <<current, turn, answers>>
     /\ UNCHANGED <<commands, replies>>

Run(w) == GoesOn(w) /\ \E ok \in BOOLEAN : RunOn(w, ok)

(* The results go back, a failure of the whole command alone.  Results go  *)
(* to another process pickled; one that cannot be pickled raises in        *)
(* pipe.send, outside of safely, and ends the process.                     *)
answer(w)   == IF Broken(w) THEN <<CHOOSE r \in Range(worker[w].done) : ~r.ok>> ELSE worker[w].done

Finished(w) == worker[w].state = "running" /\ ~GoesOn(w)

Reply(w) ==
  /\ Finished(w)
  /\ replies' = [replies EXCEPT ![w] = Append(@, answer(w))]
  /\ worker'  = [worker EXCEPT ![w] = Polling]
  /\ UNCHANGED <<masterVars, commands, ran>>

ReplyFails(w) ==
  /\ Finished(w) /\ Mode = "multiprocess" /\ worker[w].call.cmd # "set_seeds"
  /\ worker' = [worker EXCEPT ![w] = [Polling EXCEPT !.state = "dead"]]
  /\ UNCHANGED <<masterVars, commands, replies, ran>>

(* The client makes no more calls, or has stopped the pool.                *)
Rest ==
  /\ \/ phase = "idle" /\ current.id = MaxCalls
     \/ phase = "stopped" /\ \A w \in Worker : worker[w].state = "dead" \/ commands[w] = <<>>
  /\ UNCHANGED vars

Master    == Call \/ Send \/ Sent \/ Receive \/ Return
Working(w) == Poll(w) \/ Run(w) \/ Reply(w) \/ ReplyFails(w)

Next == Master \/ (\E w \in Worker : Working(w)) \/ Rest

Spec == Init /\ [][Next]_vars

(* The client's thread and every worker go on while they can; the client   *)
(* need not call again.                                                    *)
FairSpec == /\ Spec
            /\ WF_vars(Send \/ Sent \/ Receive \/ Return)
            /\ \A w \in Worker : WF_vars(Working(w))

-----------------------------------------------------------------------------
(* Type invariant: pipes carry calls one way and lists of results back.    *)
TypeOK ==
  /\ phase \in {"idle", "sending", "receiving", "stopped"} /\ turn \in Nat
  /\ current \in Calls(current.id) \cup {NoCall}
  /\ \A w \in Worker :
       /\ \A call \in Range(commands[w]) : call \in Calls(call.id)
       /\ worker[w].state \in {"polling", "running", "stopped", "dead"}
       /\ \A list \in Range(replies[w]) \cup {worker[w].done} :
            \A r \in Range(list) : r.obj \in Object /\ r.call \in Nat /\ r.ok \in BOOLEAN

Idle == phase = "idle"

(* The client is given the results of the call it made: one for each       *)
(* object addressed, in the order of the objects; never one that an        *)
(* earlier call left behind in a pipe.                                     *)
AnswersMatch ==
  Idle /\ raised = <<>> =>
    LET answerOf(w) == [j \in DOMAIN addressed(current, w) |->
                          Result(addressed(current, w)[j], current, TRUE)]
    IN answers = [k \in DOMAIN targets(current) |-> answerOf(targets(current)[k])]

(* When a call is over every object addressed has run its command, one     *)
(* that failed elsewhere included, and no other object has; no object has  *)
(* run a command twice or out of order.                                    *)
Has(o, id) == \E i \in DOMAIN ran[o] : ran[o][i].call = id
RanEverywhere ==
  /\ \A o \in Object : \A i, j \in DOMAIN ran[o] : i < j => ran[o][i].call < ran[o][j].call
  /\ Idle /\ current.cmd \in {"map", "at"} =>
       {o \in Object : Has(o, current.id)} =
         (IF current.cmd = "at" THEN {current.to} ELSE Object)

(* A call raises exactly when its command failed on some object, and       *)
(* raises what happened to the first of them.                              *)
Failed(id) == {o \in Object : \E i \in DOMAIN ran[o] : ran[o][i] = [call |-> id, ok |-> FALSE]}
FirstFailureRaised ==
  Idle =>
    \/ Failed(current.id) = {} /\ raised = <<>>
    \/ \E o \in Failed(current.id) :
         /\ \A p \in Failed(current.id) : o <= p
         /\ raised = <<Result(o, current, FALSE)>>

(* Between calls nothing is under way: no command waits in a pipe, no      *)
(* answer is left over, no worker works on the objects.                    *)
Quiescent == Idle => \A w \in Worker : /\ commands[w] = <<>> /\ replies[w] = <<>>
                                         /\ worker[w].state # "running"

(* Every call returns, and stopping the pool stops every worker, unless a  *)
(* worker process has died: the master holds the other end of the pipe,    *)
(* and waits in recv without a timeout.                                    *)
Died == \E w \in Worker : worker[w].state = "dead"
CallReturns ==
  /\ phase \in {"sending", "receiving"} ~> phase \in {"idle", "stopped"} \/ Died
  /\ phase = "stopped" ~> \A w \in Worker : worker[w].state \in {"stopped", "dead"}
=============================================================================
