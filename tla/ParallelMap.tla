----------------------------- MODULE ParallelMap -----------------------------
(***************************************************************************)
(* parallel_map of the Lite backend (lite/parallel_map.py): the caller     *)
(* deals the indices of a list to processes that it forks, over a pipe of  *)
(* its own for each, and gathers the answers.  Each process announces its  *)
(* answer in a pipe that all share.  What is computed for an index is, to  *)
(* the model, the index itself.                                            *)
(***************************************************************************)
EXTENDS Integers, FiniteSets, Sequences

CONSTANTS
  MaxTasks,   \* bounds the model: the length of the list,
  MaxCpu,     \* the parallelism,
  MaxDeaths,  \* and the processes that die of themselves
  Cancel      \* None, sent to a process that is done

ASSUME BoundsAssumption == MaxTasks \in Nat /\ MaxCpu \in Nat /\ MaxDeaths \in Nat
ASSUME CancelAssumption == Cancel \notin Nat

VARIABLES
  n,        \* the length of the list
  ncpu,
  pc,       \* of the caller
  next,     \* the tasks that the iterator has given
  at,       \* the process whose announcement is read, or 0
  fl,       \* the results; 0 is None
  ctr,      \* the count of those missing
  process,  \* each with where it is, its task, and whether that went well
  inq, outq, retq,
  deaths

args == <<n, ncpu>>
caller == <<pc, next, at, fl, ctr>>
pipes == <<inq, outq, retq>>
vars == <<args, caller, process, pipes, deaths>>

Cpu   == 1..MaxCpu
Tasks == 1..n
Idle(where) == [where |-> where, task |-> 0, ok |-> TRUE, big |-> FALSE]
Running == {"waiting", "computing", "announcing", "sending"}
Alive(p) == process[p].where \in Running

Init ==
  /\ n \in 0..MaxTasks /\ ncpu \in 0..MaxCpu
  /\ pc = "start" /\ next = 0 /\ at = 0 /\ fl = [i \in Tasks |-> 0] /\ ctr = n
  /\ process = [p \in Cpu |-> Idle("unstarted")]
  /\ inq = [p \in Cpu |-> <<>>] /\ outq = [p \in Cpu |-> <<>>] /\ retq = <<>>
  /\ deaths = 0

-----------------------------------------------------------------------------
(* What a process does with a task: the announcement is written before the *)
(* answer, which may not fit the pipe.                                     *)
(* Mutation: when the answer is in the pipe.                               *)
Following_sent == [computing |-> "sending", sending |-> "announcing", announcing |-> "waiting"]
Following == [computing |-> "announcing", announcing |-> "sending", sending |-> "waiting"]
Onward(proc) ==
  LET where == Following[proc.where]
  IN IF where = "waiting" THEN Idle(where) ELSE [proc EXCEPT !.where = where]

(* The caller.  An exception terminates the processes that are alive.      *)
Terminated(procs) ==
  [p \in Cpu |-> IF procs[p].where \in Running THEN [procs[p] EXCEPT !.where = "terminated"] ELSE procs[p]]

Unstarted == {p \in 1..ncpu : process[p].where = "unstarted"}

Start ==
  /\ pc = "start"
  /\ \E p \in Unstarted : /\ \A q \in Unstarted : p <= q
                          /\ process' = [process EXCEPT ![p] = Idle("waiting")]
  /\ UNCHANGED <<args, caller, pipes, deaths>>

StartFails ==
  /\ pc = "start" /\ Unstarted # {}
  /\ pc' = "raised" /\ process' = Terminated(process)
  /\ UNCHANGED <<args, next, at, fl, ctr, pipes, deaths>>

(* The first tasks are zipped with the processes, which are asked for      *)
(* first: no task is taken when they have run out.                         *)
(* Mutation: the tasks are asked for first.                                *)
Zipped_tasks(cpus, tasks) == IF tasks <= cpus THEN tasks ELSE cpus + 1
Zipped(cpus, tasks) == IF tasks <= cpus THEN tasks ELSE cpus

Deal ==
  LET dealt == IF n <= ncpu THEN n ELSE ncpu IN
  /\ pc = "start" /\ Unstarted = {}
  /\ inq' = [p \in Cpu |-> IF p <= dealt THEN Append(inq[p], p) ELSE inq[p]]
  /\ next' = Zipped(ncpu, n) /\ pc' = "gather"
  /\ UNCHANGED <<args, at, fl, ctr, process, outq, retq, deaths>>

(* While there is a task to give, and then while a result is missing.      *)
(* Mutation: the last one is not waited for.                               *)
Wanting_last == next < n \/ 1 < ctr
Wanting == next < n \/ 0 < ctr

ReadAnnouncement ==
  /\ pc = "gather" /\ Wanting /\ at = 0 /\ retq # <<>>
  /\ at' = Head(retq) /\ retq' = Tail(retq)
  /\ UNCHANGED <<args, pc, next, fl, ctr, process, inq, outq, deaths>>

(* recv of an answer: one that is too big for the pipe is read while it is *)
(* being sent.  process_output, and the next task goes to the process.     *)
Receive ==
  LET sent   == outq[at] # <<>>
      answer == IF sent THEN Head(outq[at]) ELSE [task |-> process[at].task, ok |-> process[at].ok]
      after  == IF sent THEN process ELSE [process EXCEPT ![at] = Onward(process[at])]
  IN /\ pc = "gather" /\ at # 0
     /\ sent \/ (process[at].where = "sending" /\ process[at].big)
     /\ outq' = IF sent THEN [outq EXCEPT ![at] = Tail(@)] ELSE outq
     /\ IF answer.ok
        THEN /\ fl' = [fl EXCEPT ![answer.task] = answer.task] /\ ctr' = ctr - 1 /\ at' = 0
             /\ process' = after /\ UNCHANGED pc
             /\ next' = IF next < n THEN next + 1 ELSE next
             /\ inq' = IF next < n THEN [inq EXCEPT ![at] = Append(@, next + 1)] ELSE inq
        ELSE /\ pc' = "raised" /\ process' = Terminated(after)
             /\ UNCHANGED <<next, at, fl, ctr, inq>>
     /\ UNCHANGED <<args, retq, deaths>>

CancelAll ==
  /\ pc = "gather" /\ ~Wanting /\ at = 0
  /\ inq' = [p \in Cpu |-> IF p <= ncpu THEN Append(inq[p], Cancel) ELSE inq[p]]
  /\ pc' = "join"
  /\ UNCHANGED <<args, next, at, fl, ctr, process, outq, retq, deaths>>

Join ==
  /\ pc = "join" /\ \A p \in Cpu : ~Alive(p)
  /\ pc' = "returned"
  /\ UNCHANGED <<args, next, at, fl, ctr, process, pipes, deaths>>

-----------------------------------------------------------------------------
(* process_input of a process.                                             *)
Input(p) ==
  /\ process[p].where = "waiting" /\ inq[p] # <<>>
  /\ inq' = [inq EXCEPT ![p] = Tail(@)]
  /\ process' = [process EXCEPT ![p] =
       IF Head(inq[p]) = Cancel THEN Idle("exited")
       ELSE [Idle("computing") EXCEPT !.task = Head(inq[p])]]
  /\ UNCHANGED <<args, caller, outq, retq, deaths>>

(* f returns, or raises an Exception, which is the answer then.            *)
Compute(p) ==
  /\ process[p].where = "computing"
  /\ \E ok, big \in BOOLEAN :
       process' = [process EXCEPT ![p] = [Onward(process[p]) EXCEPT !.ok = ok, !.big = big]]
  /\ UNCHANGED <<args, caller, pipes, deaths>>

Announce(p) ==
  /\ process[p].where = "announcing"
  /\ retq' = Append(retq, p)
  /\ process' = [process EXCEPT ![p] = Onward(process[p])]
  /\ UNCHANGED <<args, caller, inq, outq, deaths>>

(* An answer that cannot be pickled is replaced by the failure to.         *)
Send(p) ==
  /\ process[p].where = "sending" /\ ~process[p].big
  /\ \E pickles \in BOOLEAN :
       outq' = [outq EXCEPT ![p] = Append(@, [task |-> process[p].task, ok |-> process[p].ok /\ pickles])]
  /\ process' = [process EXCEPT ![p] = Onward(process[p])]
  /\ UNCHANGED <<args, caller, inq, retq, deaths>>

(* A process that is killed, or gets an exception it does not catch.       *)
Die(p) ==
  /\ Alive(p) /\ deaths < MaxDeaths
  /\ process' = [process EXCEPT ![p].where = "dead"] /\ deaths' = deaths + 1
  /\ UNCHANGED <<args, caller, pipes>>

-----------------------------------------------------------------------------
Caller ==
  \/ Start \/ StartFails \/ Deal
  \/ ReadAnnouncement \/ Receive
  \/ CancelAll \/ Join

Works(p) == Input(p) \/ Compute(p) \/ Announce(p) \/ Send(p)

Next == Caller \/ \E p \in Cpu : Works(p) \/ Die(p)

Spec == Init /\ [][Next]_vars

(* The caller goes on, and so does a process that computes: f ends.        *)
FairSpec == Spec /\ WF_vars(Caller) /\ \A p \in Cpu : WF_vars(Works(p))

-----------------------------------------------------------------------------
Answer == [task : Tasks, ok : BOOLEAN]
Where  == Running \cup {"unstarted", "exited", "terminated", "dead"}
Proc   == [where : Where, task : 0..n, ok : BOOLEAN, big : BOOLEAN]
TypeOK ==
  /\ n \in Nat /\ ncpu \in Nat /\ ncpu <= MaxCpu
  /\ pc \in {"start", "gather", "join", "returned", "raised"}
  /\ next \in 0..n /\ at \in Cpu \cup {0} /\ fl \in [Tasks -> 0..n] /\ ctr \in Nat
  /\ process \in [Cpu -> Proc]
  /\ inq \in [Cpu -> Seq(Tasks \cup {Cancel})] /\ outq \in [Cpu -> Seq(Answer)]
  /\ retq \in Seq(Cpu)

(* The tasks that are with a process: in its pipe, at work, or answered.   *)
Given(p)  == {i \in Tasks : \E k \in DOMAIN inq[p] : inq[p][k] = i}
AtWork(p) == IF process[p].task = 0 THEN {} ELSE {process[p].task}
Sent(p)   == {i \in Tasks : \E k \in DOMAIN outq[p] : outq[p][k].task = i}
Has(p)    == Given(p) \cup AtWork(p) \cup Sent(p)
Done      == {i \in Tasks : fl[i] # 0}

(* A task that is dealt is with one process or has its result, one that is *)
(* not is nowhere; and the count is of the results that are missing.       *)
EachInOnePlace ==
  /\ Cardinality(Tasks \ Done) = ctr
  /\ \A p \in Cpu :
       /\ Has(p) \cap Done = {}
       /\ \A q \in Cpu \ {p} : Has(p) \cap Has(q) = {}
       /\ Len(inq[p]) + Cardinality(AtWork(p)) + Len(outq[p]) <= 1
  /\ pc = "gather" => Done \cup UNION {Has(p) : p \in Cpu} = 1..next

(* Announcements, read or not, are of answers that are sent or being sent, *)
(* and those of no process twice: the caller waits in recv for an answer   *)
(* that comes, unless the process dies while sending it.                   *)
Announced  == {retq[k] : k \in DOMAIN retq} \cup ({at} \ {0})
Answers(p) == outq[p] # <<>> \/ process[p].where = "sending"
AnswersAnnounced ==
  pc # "raised" =>
    /\ \A p \in Cpu : Answers(p) => p \in Announced
    /\ \A p \in Announced : Answers(p) \/ (process[p].where = "dead" /\ AtWork(p) # {})
    /\ \A j, k \in DOMAIN retq : j # k => retq[j] # retq[k]
    /\ \A k \in DOMAIN retq : retq[k] # at

(* When the map returns it has every result at its index, and neither      *)
(* processes nor answers are left.                                         *)
MappedAll ==
  pc = "returned" =>
    /\ fl = [i \in Tasks |-> i]
    /\ retq = <<>> /\ \A p \in Cpu : ~Alive(p) /\ outq[p] = <<>>

(* The map ends, unless it has no processes, or one has died with a task.  *)
Ends ==
  (n = 0 \/ ncpu > 0) =>
    <>(pc \in {"returned", "raised"} \/ \E p \in Cpu : process[p].where = "dead" /\ Has(p) # {})
=============================================================================
