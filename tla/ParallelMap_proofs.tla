-------------------------- MODULE ParallelMap_proofs --------------------------
(***************************************************************************)
(* Proofs about parallel_map for lists of any length, and any number of    *)
(* processes and of deaths.                                                *)
(***************************************************************************)
EXTENDS ParallelMap, FiniteSetTheorems, SequenceTheorems, TLAPS

(* TypeOK and what follows is inductive.  Each part is about a process or  *)
(* about the caller; Places and AnswersAnnounced are about all of them.    *)
(*                                                                         *)
(* A process has one thing at most, in the place that its own tells.       *)
Slot(p) ==
  /\ inq[p] = <<>> \/ (Len(inq[p]) = 1 /\ process[p].task = 0 /\ outq[p] = <<>>)
  /\ outq[p] = <<>> \/ (Len(outq[p]) = 1 /\ process[p].task = 0 /\ inq[p] = <<>>)
  /\ process[p].where \in {"computing", "announcing", "sending"} => process[p].task # 0
  /\ process[p].where \in {"unstarted", "waiting", "exited"} => process[p].task = 0
  /\ inq[p] # <<>> /\ pc \in {"start", "gather"} => inq[p][1] # Cancel
Slots == \A p \in Cpu : Slot(p)

(* No one has anything before the tasks are dealt.                         *)
Fresh ==
  pc = "start" =>
    /\ next = 0 /\ at = 0 /\ retq = <<>> /\ fl = [i \in Tasks |-> 0] /\ ctr = n
    /\ \A p \in Cpu : /\ inq[p] = <<>> /\ outq[p] = <<>> /\ process[p].task = 0
                      /\ process[p].where \in {"unstarted", "waiting", "dead"}

Finished == pc \in {"join", "returned"} => ctr = 0 /\ at = 0
Results == \A i \in Tasks : fl[i] \in {0, i}
Joined == pc = "returned" => \A p \in Cpu : ~Alive(p)

(* EachInOnePlace without the lengths, which are Slots.                    *)
Places ==
  /\ Cardinality(Tasks \ Done) = ctr
  /\ \A p \in Cpu :
       /\ Has(p) \cap Done = {}
       /\ \A q \in Cpu \ {p} : Has(p) \cap Has(q) = {}
  /\ pc = "gather" => Done \cup UNION {Has(p) : p \in Cpu} = 1..next

IInv == TypeOK /\ Slots /\ Fresh /\ Finished /\ Results /\ Joined /\ Places /\ AnswersAnnounced

-----------------------------------------------------------------------------
LEMMA TakenFromOne ==
  ASSUME NEW S, NEW s \in Seq(S), Len(s) = 1
  PROVE  Tail(s) = <<>> /\ Head(s) = s[1] /\ s[1] \in S /\ s # <<>> /\ DOMAIN s = {1}
<1>1. s # <<>> /\ Head(s) = s[1] /\ s[1] \in S
  OBVIOUS
<1>2. Tail(s) \in Seq(S) /\ Len(Tail(s)) = 0
  BY <1>1
<1>3. Tail(s) = <<>>
  BY <1>2, EmptySeq
<1>4. DOMAIN s = 1..1 /\ 1..1 = {1}
  OBVIOUS
<1> QED
  BY <1>1, <1>3, <1>4

LEMMA PutInNone ==
  ASSUME NEW S, NEW x \in S
  PROVE  /\ Append(<<>>, x) \in Seq(S) /\ Append(<<>>, x) # <<>>
         /\ Len(Append(<<>>, x)) = 1 /\ Append(<<>>, x)[1] = x
OBVIOUS

(* What a process has, given its pipes and its task.                       *)
Content(i, t, o) ==
  IF i # <<>> THEN {i[1]} ELSE IF o # <<>> THEN {o[1].task} ELSE {t} \ {0}

Contents(p) == Content(inq[p], process[p].task, outq[p]) \cap Tasks

HasAre == \A p \in Cpu : Has(p) = Contents(p)

LEMMA HasIs ==
  TypeOK /\ Slots => HasAre
<1> SUFFICES ASSUME TypeOK, Slots, NEW p \in Cpu
             PROVE  Has(p) = Contents(p)
  BY DEF HasAre
<1>1. /\ inq[p] \in Seq(Tasks \cup {Cancel}) /\ outq[p] \in Seq(Answer)
      /\ process[p].task \in Tasks \cup {0}
  BY DEF TypeOK, Proc, Tasks
<1>2. /\ inq[p] = <<>> \/ (Len(inq[p]) = 1 /\ process[p].task = 0 /\ outq[p] = <<>>)
      /\ outq[p] = <<>> \/ (Len(outq[p]) = 1 /\ process[p].task = 0 /\ inq[p] = <<>>)
  BY DEF Slots, Slot
<1>3. CASE inq[p] # <<>>
  <2>1. DOMAIN inq[p] = {1} /\ AtWork(p) = {} /\ DOMAIN outq[p] = {}
    BY <1>1, <1>2, <1>3, TakenFromOne DEF AtWork
  <2>2. Given(p) = {inq[p][1]} \cap Tasks /\ Sent(p) = {}
    BY <2>1 DEF Given, Sent
  <2> QED
    BY <1>3, <2>1, <2>2 DEF Content, Contents, Has
<1>4. CASE outq[p] # <<>>
  <2>1. DOMAIN outq[p] = {1} /\ AtWork(p) = {} /\ inq[p] = <<>> /\ DOMAIN inq[p] = {}
    BY <1>1, <1>2, <1>4, TakenFromOne DEF AtWork
  <2>2. Sent(p) = {outq[p][1].task} \cap Tasks /\ Given(p) = {}
    BY <2>1 DEF Given, Sent
  <2> QED
    BY <1>4, <2>1, <2>2 DEF Content, Contents, Has
<1>5. CASE inq[p] = <<>> /\ outq[p] = <<>>
  <2>1. Given(p) = {} /\ Sent(p) = {}
    BY <1>5 DEF Given, Sent
  <2>2. AtWork(p) = {process[p].task} \cap Tasks
    BY <1>1 DEF AtWork, Tasks, TypeOK
  <2>3. Content(inq[p], process[p].task, outq[p]) = {process[p].task} \ {0}
    BY <1>5 DEF Content
  <2> QED
    BY <1>1, <2>1, <2>2, <2>3 DEF Contents, Has, Tasks, TypeOK
<1> QED
  BY <1>3, <1>4, <1>5

LEMMA HasIsNext ==
  (TypeOK /\ Slots)' => HasAre'
BY HasIs, PTL

(* A step that moves things within the processes only.                     *)
LEMMA PlacesKept ==
  ASSUME IInv, TypeOK', Slots', UNCHANGED <<n, next, fl, ctr>>,
         \A p \in Cpu : Contents(p)' = Contents(p), pc' = "gather" => pc = "gather"
  PROVE  Places'
<1>1. Done' = Done /\ Tasks' = Tasks
  BY DEF Done, Tasks
<1>2. \A p \in Cpu : Has(p)' = Has(p)
  BY HasIs, HasIsNext DEF IInv, HasAre
<1> QED
  BY <1>1, <1>2 DEF IInv, Places

(* One that neither announces nor answers.                                 *)
LEMMA AnnouncedKept ==
  ASSUME IInv, UNCHANGED <<retq, at>>, \A p \in Cpu : Answers(p)' <=> Answers(p),
         \A p \in Cpu : process[p].where = "dead" /\ process[p].task # 0 =>
                          process'[p].where = "dead" /\ process'[p].task # 0,
         pc' # "raised" => pc # "raised"
  PROVE  AnswersAnnounced'
<1>1. Announced' = Announced /\ Announced \subseteq Cpu
  BY DEF Announced, IInv, TypeOK
<1>2. \A p \in Cpu : AtWork(p) # {} <=> process[p].task # 0
  BY DEF AtWork
<1>3. \A p \in Cpu : AtWork(p)' # {} <=> process'[p].task # 0
  BY DEF AtWork
<1> QED
  BY <1>1, <1>2, <1>3 DEF IInv, AnswersAnnounced

Quiet == UNCHANGED <<args, next, at, fl, ctr>>

(* A step that leaves the pipes of tasks and answers alone, and the task   *)
(* of each process.                                                        *)
LEMMA OnlyWhere ==
  ASSUME IInv, Quiet, UNCHANGED <<inq, outq>>, retq' \in Seq(Cpu), process' \in [Cpu -> Proc],
         pc' = pc \/ pc' = "raised" \/ (pc = "join" /\ pc' = "returned"),
         \A p \in Cpu : process'[p].task = process[p].task,
         Slots', Fresh', Joined', AnswersAnnounced'
  PROVE  IInv'
<1>1. TypeOK'
  BY DEF IInv, TypeOK, Quiet, args, pipes, Cpu, Tasks, Answer, Proc, Where
<1>2. Finished' /\ Results'
  BY DEF IInv, Finished, Results, Quiet, args, Tasks
<1>3. \A p \in Cpu : Contents(p)' = Contents(p)
  BY DEF Contents, Tasks, Quiet, pipes, args
<1>4. Places'
  BY <1>1, <1>3, PlacesKept DEF Quiet, args
<1> QED
  BY <1>1, <1>2, <1>4 DEF IInv

LEMMA StartKeeps == IInv /\ Start => IInv'
<1> SUFFICES ASSUME IInv, Start PROVE IInv'
  OBVIOUS
<1> PICK c \in Unstarted : process' = [process EXCEPT ![c] = Idle("waiting")]
  BY DEF Start
<1>1. c \in Cpu /\ process[c].where = "unstarted"
  BY BoundsAssumption DEF Unstarted, IInv, TypeOK, Cpu
<1>2. Quiet /\ UNCHANGED pipes /\ pc' = pc /\ pc = "start" /\ process' = [process EXCEPT ![c] = Idle("waiting")]
  BY DEF Start, Quiet, caller
<1>3. process' \in [Cpu -> Proc] /\ \A p \in Cpu : process'[p] = IF p = c THEN Idle("waiting") ELSE process[p]
  BY <1>1, <1>2 DEF IInv, TypeOK, Proc, Idle, Where, Running
<1>4. \A p \in Cpu : process'[p].task = process[p].task
  BY <1>1, <1>3 DEF IInv, Slots, Slot, Idle
<1>5. Slots'
  BY <1>1, <1>2, <1>3, <1>4 DEF IInv, Slots, Slot, Idle, pipes
<1>6. Fresh' /\ Joined'
  BY <1>1, <1>2, <1>3, <1>4 DEF IInv, Fresh, Joined, Idle, pipes, Quiet, args, Tasks
<1>7. AnswersAnnounced'
  <2>1. \A p \in Cpu : Answers(p)' <=> Answers(p)
    BY <1>1, <1>2, <1>3 DEF Answers, Idle, pipes
  <2> QED
    BY <1>1, <1>2, <1>3, <1>4, <2>1, AnnouncedKept DEF Quiet, pipes, args
<1> QED
  BY <1>2, <1>3, <1>4, <1>5, <1>6, <1>7, OnlyWhere DEF IInv, TypeOK, pipes

LEMMA TerminatedIs ==
  ASSUME NEW procs \in [Cpu -> Proc]
  PROVE  /\ Terminated(procs) \in [Cpu -> Proc]
         /\ \A p \in Cpu : /\ Terminated(procs)[p].task = procs[p].task
                           /\ \/ Terminated(procs)[p].where = procs[p].where
                              \/ Terminated(procs)[p].where = "terminated"
BY DEF Terminated, Proc, Where, Running

LEMMA StartFailsKeeps == IInv /\ StartFails => IInv'
<1> SUFFICES ASSUME IInv, StartFails PROVE IInv'
  OBVIOUS
<1>1. Quiet /\ UNCHANGED pipes /\ pc' = "raised" /\ process' = Terminated(process)
  BY DEF StartFails, Quiet
<1>2. process \in [Cpu -> Proc] /\ retq \in Seq(Cpu)
  BY DEF IInv, TypeOK
<1>3. /\ process' \in [Cpu -> Proc]
      /\ \A p \in Cpu : /\ process'[p].task = process[p].task
                        /\ process'[p].where = process[p].where \/ process'[p].where = "terminated"
  BY <1>1, <1>2, TerminatedIs
<1>4. Slots'
  BY <1>1, <1>3 DEF IInv, Slots, Slot, pipes
<1>5. Fresh' /\ Joined' /\ AnswersAnnounced'
  BY <1>1 DEF Fresh, Joined, AnswersAnnounced
<1> QED
  BY <1>1, <1>2, <1>3, <1>4, <1>5, OnlyWhere DEF pipes

LEMMA JoinKeeps == IInv /\ Join => IInv'
<1> SUFFICES ASSUME IInv, Join PROVE IInv'
  OBVIOUS
<1>1. /\ Quiet /\ UNCHANGED pipes /\ UNCHANGED process /\ pc = "join" /\ pc' = "returned"
      /\ process \in [Cpu -> Proc] /\ retq \in Seq(Cpu)
  BY DEF Join, Quiet, IInv, TypeOK
<1>2. Slots' /\ Fresh'
  BY <1>1 DEF IInv, Slots, Slot, Fresh, pipes
<1>3. Joined'
  BY <1>1 DEF Join, Joined, Alive
<1>4. AnswersAnnounced'
  BY <1>1, AnnouncedKept DEF Answers, Quiet, pipes
<1> QED
  BY <1>1, <1>2, <1>3, <1>4, OnlyWhere DEF pipes

LEMMA ComputeKeeps ==
  ASSUME NEW c \in Cpu
  PROVE  IInv /\ Compute(c) => IInv'
<1> SUFFICES ASSUME IInv, Compute(c) PROVE IInv'
  OBVIOUS
<1>1. /\ Quiet /\ UNCHANGED pipes /\ pc' = pc /\ process[c].where = "computing"
      /\ process \in [Cpu -> Proc] /\ retq \in Seq(Cpu)
  BY DEF Compute, Quiet, IInv, TypeOK, caller
<1>2. PICK ok \in BOOLEAN, big \in BOOLEAN :
        process' = [process EXCEPT ![c] = [Onward(process[c]) EXCEPT !.ok = ok, !.big = big]]
  BY DEF Compute
<1>3. Onward(process[c]) = [process[c] EXCEPT !.where = "announcing"]
  BY <1>1 DEF Onward, Following
<1>4. /\ process' \in [Cpu -> Proc]
      /\ process'[c].where = "announcing" /\ process'[c].task = process[c].task
      /\ \A p \in Cpu \ {c} : process'[p] = process[p]
  BY <1>1, <1>2, <1>3 DEF Proc, Where, Running
<1>5. pc # "start" /\ pc # "returned"
  BY <1>1 DEF IInv, Fresh, Joined, Alive, Running
<1>6. Slots' /\ Fresh' /\ Joined'
  BY <1>1, <1>4, <1>5 DEF IInv, Slots, Slot, Fresh, Joined, pipes
<1>7. AnswersAnnounced'
  BY <1>1, <1>4, AnnouncedKept DEF Answers, Quiet, pipes
<1> QED
  BY <1>1, <1>4, <1>6, <1>7, OnlyWhere DEF pipes

LEMMA DieKeeps ==
  ASSUME NEW c \in Cpu
  PROVE  IInv /\ Die(c) => IInv'
<1> SUFFICES ASSUME IInv, Die(c) PROVE IInv'
  OBVIOUS
<1>1. /\ Quiet /\ UNCHANGED pipes /\ pc' = pc /\ Alive(c)
      /\ process \in [Cpu -> Proc] /\ retq \in Seq(Cpu)
      /\ process' = [process EXCEPT ![c].where = "dead"]
  BY DEF Die, Quiet, IInv, TypeOK, caller
<1>2. /\ process' \in [Cpu -> Proc]
      /\ process'[c].where = "dead" /\ process'[c].task = process[c].task
      /\ \A p \in Cpu \ {c} : process'[p] = process[p]
  BY <1>1 DEF Proc, Where
<1>3. Slots'
  BY <1>1, <1>2 DEF IInv, Slots, Slot, pipes
<1>4. Fresh' /\ Joined'
  BY <1>1, <1>2 DEF IInv, Fresh, Joined, Alive, pipes, Quiet, args, Tasks
<1>5. AnswersAnnounced'
  <2>1. CASE process[c].where # "sending"
    BY <1>1, <1>2, <2>1, AnnouncedKept DEF Answers, Quiet, pipes, Alive, Running
  <2>2. CASE process[c].where = "sending"
    <3>1. Announced' = Announced
      BY <1>1 DEF Announced, Quiet, pipes
    <3>2. AtWork(c)' # {}
      BY <1>1, <1>2, <2>2 DEF AtWork, IInv, Slots, Slot
    <3>3. \A p \in Cpu : (Answers(p)' => Answers(p)) /\ (p # c => Answers(p)' = Answers(p) /\ AtWork(p)' = AtWork(p))
      BY <1>1, <1>2 DEF Answers, AtWork, pipes
    <3>4. Announced \subseteq Cpu
      BY DEF Announced, IInv, TypeOK
    <3> QED
      BY <1>1, <1>2, <3>1, <3>2, <3>3, <3>4 DEF IInv, AnswersAnnounced, Quiet, pipes
  <2> QED
    BY <2>1, <2>2
<1> QED
  BY <1>1, <1>2, <1>3, <1>4, <1>5, OnlyWhere DEF pipes

LEMMA AnnounceKeeps ==
  ASSUME NEW c \in Cpu
  PROVE  IInv /\ Announce(c) => IInv'
<1> SUFFICES ASSUME IInv, Announce(c) PROVE IInv'
  OBVIOUS
<1>1. /\ Quiet /\ UNCHANGED <<inq, outq>> /\ pc' = pc /\ process[c].where = "announcing"
      /\ process \in [Cpu -> Proc] /\ retq \in Seq(Cpu) /\ retq' = Append(retq, c)
      /\ process' = [process EXCEPT ![c] = Onward(process[c])]
  BY DEF Announce, Quiet, IInv, TypeOK, caller
<1>2. Onward(process[c]) = [process[c] EXCEPT !.where = "sending"]
  BY <1>1 DEF Onward, Following
<1>3. /\ process' \in [Cpu -> Proc]
      /\ process'[c].where = "sending" /\ process'[c].task = process[c].task
      /\ \A p \in Cpu \ {c} : process'[p] = process[p]
  BY <1>1, <1>2 DEF Proc, Where, Running
<1>4. pc # "start" /\ pc # "returned"
  BY <1>1 DEF IInv, Fresh, Joined, Alive, Running
<1>5. Slots' /\ Fresh' /\ Joined'
  BY <1>1, <1>3, <1>4 DEF IInv, Slots, Slot, Fresh, Joined
<1>6. retq' \in Seq(Cpu)
  BY <1>1
<1>7. AnswersAnnounced'
  <2> SUFFICES ASSUME pc # "raised" PROVE AnswersAnnounced'
    BY <1>1 DEF AnswersAnnounced
  <2>1. ~Answers(c) /\ c \notin Announced
    BY <1>1 DEF IInv, AnswersAnnounced, Answers, Slots, Slot
  <2>2. /\ DOMAIN retq' = DOMAIN retq \cup {Len(retq) + 1} /\ Len(retq) + 1 \notin DOMAIN retq
        /\ retq'[Len(retq) + 1] = c /\ \A k \in DOMAIN retq : retq'[k] = retq[k]
    BY <1>1
  <2>3. Announced' = Announced \cup {c}
    BY <1>1, <2>2 DEF Announced, Quiet
  <2>4. /\ Answers(c)' /\ Announced \subseteq Cpu
        /\ \A p \in Cpu \ {c} : Answers(p)' = Answers(p) /\ AtWork(p)' = AtWork(p)
    BY <1>1, <1>3 DEF Answers, AtWork, Announced, IInv, TypeOK
  <2>5. c # at /\ \A k \in DOMAIN retq : retq[k] # c
    BY <2>1, <1>1 DEF Announced, IInv, TypeOK, Cpu
  <2>6. /\ \A j, k \in DOMAIN retq' : j # k => retq'[j] # retq'[k]
        /\ \A k \in DOMAIN retq' : retq'[k] # at'
    BY <1>1, <2>2, <2>5 DEF IInv, AnswersAnnounced, Quiet
  <2>7. \A p \in Cpu : Answers(p)' => p \in Announced'
    BY <2>3, <2>4 DEF IInv, AnswersAnnounced
  <2>8. \A p \in Announced' : Answers(p)' \/ (process'[p].where = "dead" /\ AtWork(p)' # {})
    BY <1>3, <2>3, <2>4 DEF IInv, AnswersAnnounced
  <2> QED
    BY <2>6, <2>7, <2>8 DEF AnswersAnnounced
<1> QED
  BY <1>1, <1>3, <1>5, <1>6, <1>7, OnlyWhere

(* A step that moves the one thing of a process.                           *)
LEMMA OnlyWithin ==
  ASSUME IInv, Quiet, pc' = pc, TypeOK', Slots', Fresh', Joined', AnswersAnnounced',
         \A p \in Cpu : Contents(p)' = Contents(p)
  PROVE  IInv'
<1>1. Finished' /\ Results'
  BY DEF IInv, Finished, Results, Quiet, args, Tasks
<1>2. Places'
  BY PlacesKept DEF Quiet, args
<1> QED
  BY <1>1, <1>2 DEF IInv

LEMMA InputKeeps ==
  ASSUME NEW c \in Cpu
  PROVE  IInv /\ Input(c) => IInv'
<1> SUFFICES ASSUME IInv, Input(c) PROVE IInv'
  OBVIOUS
<1> DEFINE x == inq[c][1]
<1>1. /\ Quiet /\ UNCHANGED <<outq, retq>> /\ pc' = pc /\ process[c].where = "waiting" /\ inq[c] # <<>>
      /\ process \in [Cpu -> Proc] /\ retq \in Seq(Cpu) /\ inq \in [Cpu -> Seq(Tasks \cup {Cancel})]
      /\ inq' = [inq EXCEPT ![c] = Tail(@)] /\ UNCHANGED args
  BY DEF Input, Quiet, IInv, TypeOK, caller
<1>2. Len(inq[c]) = 1 /\ outq[c] = <<>> /\ process[c].task = 0
  BY <1>1 DEF IInv, Slots, Slot
<1>3. Tail(inq[c]) = <<>> /\ Head(inq[c]) = x /\ x \in Tasks \cup {Cancel}
  BY <1>1, <1>2, TakenFromOne
<1>4. PICK r \in Proc : /\ process' = [process EXCEPT ![c] = r]
                        /\ x = Cancel => r.where = "exited" /\ r.task = 0
                        /\ x # Cancel => r.where = "computing" /\ r.task = x
  <2> DEFINE r == IF x = Cancel THEN Idle("exited") ELSE [Idle("computing") EXCEPT !.task = x]
  <2>1. process' = [process EXCEPT ![c] = r]
    BY <1>3 DEF Input
  <2>2. CASE x = Cancel
    <3>1. r = Idle("exited") /\ r.where = "exited" /\ r.task = 0
      BY <2>2 DEF Idle
    <3>2. Idle("exited") \in Proc
      BY DEF Idle, Proc, Where, IInv, TypeOK
    <3> QED
      BY <2>1, <2>2, <3>1, <3>2
  <2>3. CASE x # Cancel
    <3>1. r = [where |-> "computing", task |-> x, ok |-> TRUE, big |-> FALSE]
      BY <2>3 DEF Idle
    <3>2. [where |-> "computing", task |-> x, ok |-> TRUE, big |-> FALSE] \in Proc
      <4>1. x \in Tasks /\ n \in Nat
        BY <1>3, <2>3 DEF IInv, TypeOK
      <4>2. x \in 0..n /\ "computing" \in Where
        BY <4>1 DEF Tasks, Where, Running
      <4> QED
        BY <4>2 DEF Proc
    <3> QED
      BY <2>1, <2>3, <3>1, <3>2
  <2> QED
    BY <2>2, <2>3
<1> HIDE DEF x
<1>5. /\ process' \in [Cpu -> Proc] /\ process'[c] = r
      /\ \A p \in Cpu \ {c} : process'[p] = process[p]
  BY <1>1, <1>4
<1>6. /\ inq'[c] = <<>> /\ \A p \in Cpu \ {c} : inq'[p] = inq[p]
      /\ inq' \in [Cpu -> Seq(Tasks \cup {Cancel})]
  BY <1>1, <1>3
<1>7. x # Cancel => x \in Tasks /\ x # 0
  BY <1>3 DEF Tasks
<1>8. TypeOK'
  BY <1>1, <1>5, <1>6 DEF IInv, TypeOK, Quiet, args, Cpu, Tasks, Answer, Proc, Where
<1>9. pc # "start" /\ pc # "returned"
  BY <1>1 DEF IInv, Fresh, Joined, Alive, Running
<1>10. Slots'
  BY <1>1, <1>2, <1>4, <1>5, <1>6, <1>7 DEF IInv, Slots, Slot
<1>11. Fresh' /\ Joined'
  BY <1>1, <1>9 DEF Fresh, Joined
<1>12. AnswersAnnounced'
  <2>1. \A p \in Cpu : Answers(p)' <=> Answers(p)
    BY <1>1, <1>4, <1>5 DEF Answers
  <2> QED
    BY <1>1, <1>5, <2>1, AnnouncedKept DEF Quiet
<1>13. \A p \in Cpu : Contents(p)' = Contents(p)
  <2>1. Tasks' = Tasks /\ Cancel \notin Tasks /\ 0 \notin Tasks
    BY <1>1, CancelAssumption DEF Tasks, args, IInv, TypeOK
  <2>2. Contents(c) = {x} \cap Tasks
    BY <1>1 DEF Contents, Content, x
  <2>3. Contents(c)' = ({process'[c].task} \ {0}) \cap Tasks
    BY <1>1, <1>2, <1>6, <2>1 DEF Contents, Content
  <2>4. Contents(c)' = Contents(c)
    BY <1>4, <1>5, <1>7, <2>1, <2>2, <2>3
  <2>5. \A p \in Cpu \ {c} : Contents(p)' = Contents(p)
    BY <1>1, <1>5, <1>6, <2>1 DEF Contents
  <2> QED
    BY <2>4, <2>5
<1> QED
  BY <1>1, <1>8, <1>10, <1>11, <1>12, <1>13, OnlyWithin

LEMMA SendKeeps ==
  ASSUME NEW c \in Cpu
  PROVE  IInv /\ Send(c) => IInv'
<1> SUFFICES ASSUME IInv, Send(c) PROVE IInv'
  OBVIOUS
<1> DEFINE t == process[c].task
<1>1. /\ Quiet /\ UNCHANGED <<inq, retq>> /\ pc' = pc /\ process[c].where = "sending"
      /\ process \in [Cpu -> Proc] /\ retq \in Seq(Cpu) /\ outq \in [Cpu -> Seq(Answer)]
      /\ process' = [process EXCEPT ![c] = Onward(process[c])] /\ UNCHANGED args
  BY DEF Send, Quiet, IInv, TypeOK, caller
<1>2. t # 0 /\ t \in Tasks /\ inq[c] = <<>> /\ outq[c] = <<>>
  BY <1>1 DEF IInv, Slots, Slot, TypeOK, Proc, Tasks
<1>3. PICK a \in Answer : a.task = t /\ outq' = [outq EXCEPT ![c] = Append(@, a)]
  <2>1. PICK pickles \in BOOLEAN :
          outq' = [outq EXCEPT ![c] = Append(@, [task |-> t, ok |-> process[c].ok /\ pickles])]
    BY DEF Send
  <2>2. [task |-> t, ok |-> process[c].ok /\ pickles] \in Answer
    BY <1>2 DEF Answer
  <2> QED
    BY <2>1, <2>2
<1>4. Onward(process[c]) = Idle("waiting")
  BY <1>1 DEF Onward, Following
<1> HIDE DEF t
<1>5. /\ process' \in [Cpu -> Proc] /\ process'[c] = Idle("waiting")
      /\ \A p \in Cpu \ {c} : process'[p] = process[p]
  BY <1>1, <1>4 DEF Proc, Where, Running, Idle, IInv, TypeOK
<1>6. /\ Len(outq'[c]) = 1 /\ outq'[c] # <<>> /\ outq'[c][1] = a
      /\ \A p \in Cpu \ {c} : outq'[p] = outq[p]
      /\ outq' \in [Cpu -> Seq(Answer)]
  BY <1>1, <1>2, <1>3, PutInNone
<1>7. TypeOK'
  BY <1>1, <1>5, <1>6 DEF IInv, TypeOK, Quiet, args, Cpu, Tasks, Answer, Proc, Where
<1>8. pc # "start" /\ pc # "returned"
  BY <1>1 DEF IInv, Fresh, Joined, Alive, Running
<1>9. Slots'
  BY <1>1, <1>2, <1>5, <1>6 DEF IInv, Slots, Slot, Idle
<1>10. Fresh' /\ Joined'
  BY <1>1, <1>8 DEF Fresh, Joined
<1>11. AnswersAnnounced'
  <2>1. \A p \in Cpu : Answers(p)' <=> Answers(p)
    BY <1>1, <1>5, <1>6 DEF Answers, Idle
  <2> QED
    BY <1>1, <1>5, <2>1, AnnouncedKept DEF Quiet
<1>12. \A p \in Cpu : Contents(p)' = Contents(p)
  <2>1. Tasks' = Tasks
    BY <1>1 DEF Tasks, args
  <2>2. Contents(c) = ({t} \ {0}) \cap Tasks /\ Contents(c)' = {t} \cap Tasks
    BY <1>1, <1>2, <1>3, <1>6, <2>1 DEF Contents, Content, t
  <2>3. Contents(c)' = Contents(c)
    BY <1>2, <2>2
  <2>4. \A p \in Cpu \ {c} : Contents(p)' = Contents(p)
    BY <1>1, <1>5, <1>6, <2>1 DEF Contents
  <2> QED
    BY <2>3, <2>4
<1> QED
  BY <1>1, <1>7, <1>9, <1>10, <1>11, <1>12, OnlyWithin

LEMMA DealKeeps == IInv /\ Deal => IInv'
<1> SUFFICES ASSUME IInv, Deal PROVE IInv'
  OBVIOUS
<1> DEFINE d == IF n <= ncpu THEN n ELSE ncpu
<1>1. /\ pc = "start" /\ pc' = "gather" /\ UNCHANGED <<args, at, fl, ctr, process, outq, retq>>
      /\ inq' = [p \in Cpu |-> IF p <= d THEN Append(inq[p], p) ELSE inq[p]]
      /\ next' = d /\ n' = n /\ ncpu' = ncpu
  BY DEF Deal, Zipped, args
<1>2. d \in 0..n /\ 1..d \subseteq Cpu /\ 1..d \subseteq Tasks /\ Cpu \subseteq Nat
  BY BoundsAssumption DEF IInv, TypeOK, Cpu, Tasks
<1> HIDE DEF d
<1>3. \A p \in Cpu : inq[p] = <<>> /\ outq[p] = <<>> /\ process[p].task = 0
  BY <1>1 DEF IInv, Fresh
<1>4. fl = [i \in Tasks |-> 0]
  BY <1>1 DEF IInv, Fresh
<1>13. d \in Nat /\ \A p \in Cpu : p \in 1..d <=> p <= d
  BY <1>2, BoundsAssumption DEF Cpu, IInv, TypeOK
<1>5. \A p \in Cpu : p \in 1..d => /\ inq'[p] # <<>> /\ Len(inq'[p]) = 1 /\ inq'[p][1] = p
                                   /\ inq'[p] \in Seq(Tasks \cup {Cancel})
  <2> SUFFICES ASSUME NEW p \in Cpu, p \in 1..d
               PROVE  /\ inq'[p] # <<>> /\ Len(inq'[p]) = 1 /\ inq'[p][1] = p
                      /\ inq'[p] \in Seq(Tasks \cup {Cancel})
    OBVIOUS
  <2>1. inq'[p] = Append(<<>>, p)
    BY <1>1, <1>3, <1>13
  <2>2. p \in Tasks \cup {Cancel}
    BY <1>2
  <2> QED
    BY <2>1, <2>2, PutInNone
<1>6. \A p \in Cpu : p \notin 1..d => inq'[p] = <<>>
  BY <1>1, <1>3, <1>13
<1>7. inq' \in [Cpu -> Seq(Tasks \cup {Cancel})]
  <2>1. \A p \in Cpu : inq'[p] \in Seq(Tasks \cup {Cancel})
    BY <1>5, <1>6, EmptySeq
  <2> QED
    BY <1>1, <2>1
<1>8. TypeOK'
  BY <1>1, <1>2, <1>7 DEF IInv, TypeOK, args, Cpu, Tasks, Answer, Proc, Where
<1>9. Slots'
  <2> SUFFICES ASSUME NEW p \in Cpu PROVE Slot(p)'
    BY DEF Slots
  <2>1. CASE p \in 1..d
    <3>1. p # Cancel
      BY <1>2, CancelAssumption
    <3> QED
      BY <1>1, <1>3, <1>5, <2>1, <3>1 DEF IInv, Slots, Slot
  <2>2. CASE p \notin 1..d
    BY <1>1, <1>3, <1>6, <2>2 DEF IInv, Slots, Slot
  <2> QED
    BY <2>1, <2>2
<1>10. Fresh' /\ Finished' /\ Results' /\ Joined'
  BY <1>1 DEF IInv, Fresh, Finished, Results, Joined, Tasks
<1>11. AnswersAnnounced'
  BY <1>1, AnnouncedKept DEF Answers
<1>12. Places'
  <2>1. Tasks' = Tasks /\ Done' = Done /\ Done = {}
    BY <1>1, <1>4 DEF Done, Tasks
  <2>2. \A p \in Cpu : Has(p)' = {p} \cap 1..d
    <3> SUFFICES ASSUME NEW p \in Cpu PROVE Contents(p)' = {p} \cap 1..d
      BY <1>8, <1>9, HasIsNext DEF HasAre
    <3>1. CASE p \in 1..d
      BY <1>2, <1>5, <2>1, <3>1 DEF Contents, Content
    <3>2. CASE p \notin 1..d
      BY <1>1, <1>3, <1>6, <2>1, <3>2 DEF Contents, Content
    <3> QED
      BY <3>1, <3>2
  <2>3. UNION {Has(p)' : p \in Cpu} = 1..d
    BY <1>2, <2>2
  <2>4. Cardinality(Tasks' \ Done') = ctr'
    BY <1>1, <2>1 DEF IInv, Places
  <2> QED
    BY <1>1, <2>1, <2>2, <2>3, <2>4 DEF Places
<1> QED
  BY <1>8, <1>9, <1>10, <1>11, <1>12 DEF IInv

LEMMA ReadAnnouncementKeeps == IInv /\ ReadAnnouncement => IInv'
<1> SUFFICES ASSUME IInv, ReadAnnouncement PROVE IInv'
  OBVIOUS
<1>1. /\ pc = "gather" /\ pc' = pc /\ at = 0 /\ retq # <<>> /\ at' = Head(retq) /\ retq' = Tail(retq)
      /\ UNCHANGED <<args, next, fl, ctr, process, inq, outq>> /\ n' = n /\ retq \in Seq(Cpu)
  BY DEF ReadAnnouncement, IInv, TypeOK, args
<1>2. /\ Head(retq) = retq[1] /\ retq[1] \in Cpu /\ Tail(retq) \in Seq(Cpu)
      /\ 1 \in DOMAIN retq
      /\ DOMAIN retq' = 1 .. Len(retq) - 1 /\ DOMAIN retq = 1 .. Len(retq)
      /\ \A k \in 1 .. Len(retq) - 1 : retq'[k] = retq[k + 1]
  BY <1>1
<1>3. TypeOK'
  BY <1>1, <1>2 DEF IInv, TypeOK, args, Cpu, Tasks, Answer, Proc, Where
<1>4. Slots' /\ Fresh' /\ Finished' /\ Results' /\ Joined'
  BY <1>1 DEF IInv, Slots, Slot, Fresh, Finished, Results, Joined, Tasks
<1>5. Places'
  BY <1>1, <1>3, <1>4, PlacesKept DEF Contents, Tasks
<1>6. AnswersAnnounced'
  <2>1. Announced = {retq[k] : k \in DOMAIN retq} /\ Announced' = {retq'[k] : k \in DOMAIN retq'} \cup {retq[1]}
    BY <1>1, <1>2 DEF Announced, Cpu
  <2>2. {retq[k] : k \in DOMAIN retq} = {retq'[k] : k \in DOMAIN retq'} \cup {retq[1]}
    <3>1. \A k \in DOMAIN retq : k = 1 \/ (k - 1 \in DOMAIN retq' /\ retq[k] = retq'[k - 1])
      BY <1>1, <1>2
    <3>2. \A k \in DOMAIN retq' : k + 1 \in DOMAIN retq /\ retq'[k] = retq[k + 1]
      BY <1>1, <1>2
    <3> QED
      BY <1>2, <3>1, <3>2
  <2>3. Announced' = Announced
    BY <2>1, <2>2
  <2>4. \A j, k \in DOMAIN retq' : j # k => retq'[j] # retq'[k]
    BY <1>1, <1>2 DEF IInv, AnswersAnnounced
  <2>5. \A k \in DOMAIN retq' : retq'[k] # at'
    BY <1>1, <1>2 DEF IInv, AnswersAnnounced
  <2>6. \A p \in Cpu : Answers(p)' = Answers(p) /\ AtWork(p)' = AtWork(p)
    BY <1>1 DEF Answers, AtWork
  <2>7. Announced \subseteq Cpu
    BY DEF Announced, IInv, TypeOK
  <2> QED
    BY <1>1, <2>3, <2>4, <2>5, <2>6, <2>7 DEF IInv, AnswersAnnounced
<1> QED
  BY <1>3, <1>4, <1>5, <1>6 DEF IInv

LEMMA AllDone ==
  ASSUME IInv, ctr = 0
  PROVE  Done = Tasks /\ \A p \in Cpu : Has(p) = {} /\ Contents(p) = {}
<1>1. IsFiniteSet(Tasks)
  BY FS_Interval DEF Tasks, IInv, TypeOK
<1>2. IsFiniteSet(Tasks \ Done) /\ Cardinality(Tasks \ Done) = 0
  BY <1>1, FS_Difference DEF IInv, Places
<1>3. Tasks \ Done = {}
  BY <1>2, FS_EmptySet
<1>4. \A p \in Cpu : Has(p) = Contents(p) /\ Has(p) \cap Done = {}
  BY HasIs DEF HasAre, IInv, Places
<1> QED
  BY <1>3, <1>4 DEF Done, Contents

LEMMA CancelAllKeeps == IInv /\ CancelAll => IInv'
<1> SUFFICES ASSUME IInv, CancelAll PROVE IInv'
  OBVIOUS
<1>1. /\ pc = "gather" /\ pc' = "join" /\ at = 0 /\ ~Wanting /\ n' = n /\ ncpu' = ncpu
      /\ UNCHANGED <<next, at, fl, ctr, process, outq, retq>>
      /\ inq' = [p \in Cpu |-> IF p <= ncpu THEN Append(inq[p], Cancel) ELSE inq[p]]
      /\ inq \in [Cpu -> Seq(Tasks \cup {Cancel})] /\ outq \in [Cpu -> Seq(Answer)]
      /\ process \in [Cpu -> Proc]
  BY DEF CancelAll, args, IInv, TypeOK
<1>2. ctr = 0
  BY <1>1 DEF Wanting, IInv, TypeOK
<1>3. \A p \in Cpu : inq[p] = <<>> /\ outq[p] = <<>> /\ process[p].task = 0
  <2> SUFFICES ASSUME NEW p \in Cpu PROVE inq[p] = <<>> /\ outq[p] = <<>> /\ process[p].task = 0
    OBVIOUS
  <2>1. Content(inq[p], process[p].task, outq[p]) \cap Tasks = {}
    BY <1>2, AllDone DEF Contents
  <2>2. inq[p] = <<>>
    <3> SUFFICES ASSUME inq[p] # <<>> PROVE FALSE
      OBVIOUS
    <3>1. Len(inq[p]) = 1 /\ inq[p][1] # Cancel
      BY <1>1 DEF IInv, Slots, Slot
    <3>2. inq[p][1] \in Tasks
      BY <1>1, <3>1, TakenFromOne
    <3> QED
      BY <2>1, <3>2 DEF Content
  <2>3. outq[p] = <<>>
    <3> SUFFICES ASSUME outq[p] # <<>> PROVE FALSE
      OBVIOUS
    <3>1. Len(outq[p]) = 1
      BY DEF IInv, Slots, Slot
    <3>2. outq[p][1] \in Answer
      BY <1>1, <3>1, TakenFromOne
    <3> QED
      BY <2>1, <2>2, <3>2 DEF Content, Answer
  <2>4. process[p].task \in Tasks \cup {0}
    BY <1>1 DEF Proc, Tasks, IInv, TypeOK
  <2> QED
    BY <2>1, <2>2, <2>3, <2>4 DEF Content
<1>12. Append(<<>>, Cancel) # <<>> /\ Len(Append(<<>>, Cancel)) = 1 /\ Append(<<>>, Cancel)[1] = Cancel
       /\ Append(<<>>, Cancel) \in Seq(Tasks \cup {Cancel})
  BY PutInNone
<1>4. \A p \in Cpu : inq'[p] = <<>> \/ (inq'[p] # <<>> /\ Len(inq'[p]) = 1 /\ inq'[p][1] = Cancel
                                         /\ inq'[p] \in Seq(Tasks \cup {Cancel}))
  <2>1. \A p \in Cpu : inq'[p] = <<>> \/ inq'[p] = Append(<<>>, Cancel)
    BY <1>1, <1>3
  <2> QED
    BY <1>12, <2>1
<1>5. inq' \in [Cpu -> Seq(Tasks \cup {Cancel})]
  <2>1. \A p \in Cpu : inq'[p] \in Seq(Tasks \cup {Cancel})
    BY <1>4, EmptySeq
  <2> QED
    BY <1>1, <2>1
<1>6. TypeOK'
  BY <1>1, <1>5 DEF IInv, TypeOK, Cpu, Tasks, Answer, Proc, Where
<1>7. Slots'
  BY <1>1, <1>3, <1>4 DEF IInv, Slots, Slot
<1>8. Fresh' /\ Finished' /\ Results' /\ Joined'
  BY <1>1, <1>2 DEF IInv, Fresh, Finished, Results, Joined, Tasks
<1>9. AnswersAnnounced'
  BY <1>1, AnnouncedKept DEF Answers
<1>10. \A p \in Cpu : Contents(p)' = Contents(p)
  <2>1. Tasks' = Tasks /\ Cancel \notin Tasks
    BY <1>1, CancelAssumption DEF Tasks, IInv, TypeOK
  <2>2. \A p \in Cpu : Contents(p)' = {}
    BY <1>1, <1>3, <1>4, <2>1 DEF Contents, Content
  <2> QED
    BY <1>2, <2>2, AllDone
<1>11. Places'
  BY <1>1, <1>6, <1>7, <1>10, PlacesKept
<1> QED
  BY <1>6, <1>7, <1>8, <1>9, <1>11 DEF IInv

(* What is received: the one thing of the process announced, of which      *)
(* nothing is left there.                                                  *)
LEMMA Received ==
  ASSUME IInv, Receive
  PROVE  \E t \in Tasks, ok \in BOOLEAN, after \in [Cpu -> Proc] :
           /\ Contents(at) = {t} /\ outq' = [outq EXCEPT ![at] = <<>>] /\ inq[at] = <<>>
           /\ after[at].task = 0 /\ after[at].where \notin {"computing", "announcing", "sending"}
           /\ \A p \in Cpu \ {at} : after[p] = process[p]
           /\ ok => /\ fl' = [fl EXCEPT ![t] = t] /\ ctr' = ctr - 1 /\ at' = 0
                    /\ process' = after /\ pc' = pc
                    /\ next' = IF next < n THEN next + 1 ELSE next
                    /\ inq' = IF next < n THEN [inq EXCEPT ![at] = Append(@, next + 1)] ELSE inq
           /\ ~ok => /\ pc' = "raised" /\ process' = Terminated(after)
                     /\ UNCHANGED <<next, at, fl, ctr, inq>>
<1>1. /\ at \in Cpu /\ process \in [Cpu -> Proc] /\ outq \in [Cpu -> Seq(Answer)]
      /\ inq \in [Cpu -> Seq(Tasks \cup {Cancel})]
  BY DEF Receive, IInv, TypeOK
<1>2. CASE outq[at] # <<>>
  <2> DEFINE o == outq[at][1]
  <2>1. Len(outq[at]) = 1 /\ process[at].task = 0 /\ inq[at] = <<>>
    BY <1>1, <1>2 DEF IInv, Slots, Slot
  <2>2. Tail(outq[at]) = <<>> /\ Head(outq[at]) = o /\ o \in Answer
    BY <1>1, <2>1, TakenFromOne
  <2>3. o.task \in Tasks /\ o.ok \in BOOLEAN
    BY <2>2 DEF Answer
  <2>4. outq' = [outq EXCEPT ![at] = <<>>]
    BY <1>2, <2>2 DEF Receive
  <2>5. process[at].where \notin {"computing", "announcing", "sending"}
    BY <1>1, <2>1 DEF IInv, Slots, Slot
  <2>6. Contents(at) = {o.task}
    BY <1>2, <2>1, <2>3 DEF Contents, Content
  <2>7. /\ o.ok => /\ fl' = [fl EXCEPT ![o.task] = o.task] /\ ctr' = ctr - 1 /\ at' = 0
                   /\ process' = process /\ pc' = pc
                   /\ next' = IF next < n THEN next + 1 ELSE next
                   /\ inq' = IF next < n THEN [inq EXCEPT ![at] = Append(@, next + 1)] ELSE inq
        /\ ~o.ok => /\ pc' = "raised" /\ process' = Terminated(process)
                    /\ UNCHANGED <<next, at, fl, ctr, inq>>
    BY <1>2, <2>2, Zenon DEF Receive
  <2> HIDE DEF o
  <2> QED
    BY <1>1, <2>1, <2>3, <2>4, <2>5, <2>6, <2>7
<1>3. CASE outq[at] = <<>>
  <2> DEFINE t == process[at].task
             k == process[at].ok
  <2>1. process[at].where = "sending"
    BY <1>3 DEF Receive
  <2>2. t \in Tasks /\ t # 0 /\ k \in BOOLEAN /\ inq[at] = <<>>
    BY <1>1, <2>1 DEF IInv, Slots, Slot, TypeOK, Proc, Tasks
  <2>3. Onward(process[at]) = Idle("waiting")
    BY <2>1 DEF Onward, Following
  <2> DEFINE after == [process EXCEPT ![at] = Idle("waiting")]
  <2>4. outq' = [outq EXCEPT ![at] = <<>>]
    BY <1>1, <1>3 DEF Receive
  <2>5. /\ after \in [Cpu -> Proc] /\ after[at] = Idle("waiting")
        /\ \A p \in Cpu \ {at} : after[p] = process[p]
    BY <1>1 DEF Proc, Where, Running, Idle, IInv, TypeOK
  <2>6. Contents(at) = {t}
    BY <1>3, <2>2 DEF Contents, Content
  <2>7. /\ k => /\ fl' = [fl EXCEPT ![t] = t] /\ ctr' = ctr - 1 /\ at' = 0
                /\ process' = after /\ pc' = pc
                /\ next' = IF next < n THEN next + 1 ELSE next
                /\ inq' = IF next < n THEN [inq EXCEPT ![at] = Append(@, next + 1)] ELSE inq
        /\ ~k => /\ pc' = "raised" /\ process' = Terminated(after)
                 /\ UNCHANGED <<next, at, fl, ctr, inq>>
    BY <1>3, <2>3 DEF Receive
  <2> HIDE DEF t, k, after
  <2>8. after[at].task = 0 /\ after[at].where \notin {"computing", "announcing", "sending"}
    BY <2>5 DEF Idle
  <2> QED
    BY <1>1, <2>2, <2>4, <2>5, <2>6, <2>7, <2>8
<1> QED
  BY <1>2, <1>3

(* A failure: the task is nowhere then, and the processes are terminated.  *)
LEMMA ReceiveFailed ==
  ASSUME IInv, UNCHANGED args, at \in Cpu, NEW after \in [Cpu -> Proc],
         outq' = [outq EXCEPT ![at] = <<>>], inq[at] = <<>>,
         after[at].task = 0, after[at].where \notin {"computing", "announcing", "sending"},
         \A p \in Cpu \ {at} : after[p] = process[p],
         pc' = "raised", process' = Terminated(after), UNCHANGED <<next, at, fl, ctr, inq, retq>>
  PROVE  IInv'
<1>1. /\ process' \in [Cpu -> Proc] /\ outq \in [Cpu -> Seq(Answer)]
      /\ \A p \in Cpu : /\ process'[p].task = after[p].task
                        /\ process'[p].where = after[p].where \/ process'[p].where = "terminated"
  BY TerminatedIs DEF IInv, TypeOK
<1>2. /\ outq'[at] = <<>> /\ \A p \in Cpu \ {at} : outq'[p] = outq[p]
      /\ outq' \in [Cpu -> Seq(Answer)]
  BY <1>1, EmptySeq
<1>3. TypeOK'
  BY <1>1, <1>2 DEF IInv, TypeOK, args, Cpu, Tasks, Answer, Proc, Where
<1>4. Slots'
  BY <1>1, <1>2 DEF IInv, Slots, Slot
<1>5. Fresh' /\ Finished' /\ Results' /\ Joined' /\ AnswersAnnounced'
  BY DEF IInv, Fresh, Finished, Results, Joined, AnswersAnnounced, Tasks, args
<1>6. Places'
  <2>1. Tasks' = Tasks /\ Done' = Done /\ 0 \notin Tasks
    BY DEF Done, Tasks, args, IInv, TypeOK
  <2>2. Contents(at)' = {}
    BY <1>1, <1>2, <2>1 DEF Contents, Content
  <2>3. \A p \in Cpu \ {at} : Contents(p)' = Contents(p)
    BY <1>1, <1>2, <2>1 DEF Contents
  <2>4. \A p \in Cpu : Has(p)' \subseteq Has(p)
    BY <1>3, <1>4, <2>2, <2>3, HasIs, HasIsNext DEF HasAre, IInv
  <2>5. /\ \A p \in Cpu : Has(p) \cap Done = {} /\ \A q \in Cpu \ {p} : Has(p) \cap Has(q) = {}
        /\ Cardinality(Tasks \ Done) = ctr
    BY DEF IInv, Places
  <2>6. \A p \in Cpu : Has(p)' \cap Done' = {} /\ \A q \in Cpu \ {p} : Has(p)' \cap Has(q)' = {}
    BY <2>1, <2>4, <2>5
  <2> QED
    BY <2>1, <2>5, <2>6 DEF Places
<1> QED
  BY <1>3, <1>4, <1>5, <1>6 DEF IInv

(* A result: it is put at its index, and the process has the next task.    *)
LEMMA ReceivedWell ==
  ASSUME IInv, UNCHANGED args, pc = "gather", NEW c \in Cpu, at = c, NEW t \in Tasks,
         process' \in [Cpu -> Proc],
         Contents(c) = {t}, outq' = [outq EXCEPT ![c] = <<>>], inq[c] = <<>>,
         process'[c].task = 0, process'[c].where \notin {"computing", "announcing", "sending"},
         \A p \in Cpu \ {c} : process'[p] = process[p],
         fl' = [fl EXCEPT ![t] = t], ctr' = ctr - 1, at' = 0, pc' = pc, UNCHANGED retq,
         next' = IF next < n THEN next + 1 ELSE next,
         inq' = IF next < n THEN [inq EXCEPT ![c] = Append(@, next + 1)] ELSE inq
  PROVE  IInv'
<1> DEFINE given == IF next < n THEN {next + 1} ELSE {}
<1>1. /\ outq \in [Cpu -> Seq(Answer)] /\ inq \in [Cpu -> Seq(Tasks \cup {Cancel})]
      /\ fl \in [Tasks -> 0..n] /\ n \in Nat /\ next \in 0..n /\ ctr \in Nat
      /\ n' = n /\ ncpu' = ncpu /\ retq \in Seq(Cpu)
  BY DEF IInv, TypeOK, args
<1>2. Tasks' = Tasks /\ 0 \notin Tasks /\ Cancel \notin Tasks
  BY <1>1, CancelAssumption DEF Tasks
<1>3. given \subseteq Tasks /\ given \cap 1..next = {} /\ 1..next \cup given = 1..next'
  <2>1. CASE next < n
    <3>1. given = {next + 1} /\ next' = next + 1
      BY <2>1
    <3> HIDE DEF given
    <3> QED
      BY <1>1, <2>1, <3>1 DEF Tasks
  <2>2. CASE ~(next < n)
    BY <2>2
  <2> QED
    BY <2>1, <2>2
<1>4. /\ outq'[c] = <<>> /\ \A p \in Cpu \ {c} : outq'[p] = outq[p]
      /\ outq' \in [Cpu -> Seq(Answer)]
  BY <1>1, EmptySeq
<1>5. /\ \A p \in Cpu \ {c} : inq'[p] = inq[p]
      /\ inq' \in [Cpu -> Seq(Tasks \cup {Cancel})]
      /\ inq'[c] # <<>> => Len(inq'[c]) = 1 /\ inq'[c][1] # Cancel /\ given = {inq'[c][1]}
      /\ inq'[c] = <<>> => given = {}
  <2>1. CASE next < n
    <3>1. next + 1 \in Tasks
      BY <1>1, <2>1 DEF Tasks
    <3>2. /\ Append(<<>>, next + 1) \in Seq(Tasks \cup {Cancel}) /\ Append(<<>>, next + 1) # <<>>
          /\ Len(Append(<<>>, next + 1)) = 1 /\ Append(<<>>, next + 1)[1] = next + 1
      BY <3>1, PutInNone
    <3>3. inq' = [inq EXCEPT ![c] = Append(<<>>, next + 1)]
      BY <2>1
    <3>4. /\ inq'[c] = Append(<<>>, next + 1) /\ \A p \in Cpu \ {c} : inq'[p] = inq[p]
          /\ inq' \in [Cpu -> Seq(Tasks \cup {Cancel})]
      BY <1>1, <3>2, <3>3
    <3>5. next + 1 # Cancel /\ given = {next + 1}
      BY <1>2, <2>1, <3>1
    <3> HIDE DEF given
    <3> QED
      BY <3>2, <3>4, <3>5
  <2>2. CASE ~(next < n)
    BY <1>1, <2>2
  <2> QED
    BY <2>1, <2>2
<1> HIDE DEF given
<1>6. fl' \in [Tasks -> 0..n] /\ fl'[t] = t /\ \A i \in Tasks \ {t} : fl'[i] = fl[i]
  BY <1>1 DEF Tasks
<1>7. Has(c) = {t} /\ t \notin Done
  BY HasIs DEF HasAre, IInv, Places
<1>8. Done' = Done \cup {t}
  BY <1>2, <1>6 DEF Done
<1>9. Cardinality(Tasks \ Done') = ctr' /\ ctr' \in Nat
  <2>1. IsFiniteSet(Tasks)
    BY <1>1, FS_Interval DEF Tasks
  <2>2. IsFiniteSet(Tasks \ Done) /\ t \in Tasks \ Done
    BY <1>7, <2>1, FS_Difference
  <2>3. Tasks \ Done' = (Tasks \ Done) \ {t}
    BY <1>8
  <2>4. IsFiniteSet((Tasks \ Done) \ {t}) /\ Cardinality((Tasks \ Done) \ {t}) = Cardinality(Tasks \ Done) - 1
    BY <2>2, FS_RemoveElement
  <2>5. Cardinality(Tasks \ Done) = ctr
    BY DEF IInv, Places
  <2>6. Cardinality((Tasks \ Done) \ {t}) \in Nat
    BY <2>4, FS_CardinalityType
  <2> QED
    BY <2>3, <2>4, <2>5, <2>6
<1>10. TypeOK'
  <2>1. next' \in 0..n
    BY <1>1
  <2> QED
    BY <1>1, <1>2, <1>4, <1>5, <1>6, <1>9, <2>1 DEF IInv, TypeOK, Cpu, Answer, Proc, Where
<1>11. Slots'
  <2>1. Slot(c)'
    BY <1>4, <1>5 DEF Slot
  <2>2. \A p \in Cpu \ {c} : Slot(p)'
    BY <1>4, <1>5 DEF IInv, Slots, Slot
  <2> QED
    BY <2>1, <2>2 DEF Slots, Cpu
<1>12. Fresh' /\ Finished' /\ Joined'
  BY DEF Fresh, Finished, Joined
<1>13. Results'
  BY <1>2, <1>6 DEF IInv, Results
<1>14. Places'
  <2>1. Contents(c)' = given
    BY <1>2, <1>3, <1>4, <1>5 DEF Contents, Content
  <2>2. \A p \in Cpu \ {c} : Contents(p)' = Contents(p)
    BY <1>2, <1>4, <1>5 DEF Contents
  <2>3. Has(c)' = given /\ \A p \in Cpu \ {c} : Has(p)' = Has(p)
    BY <1>10, <1>11, <2>1, <2>2, HasIs, HasIsNext DEF HasAre, IInv
  <2>4. /\ \A p \in Cpu : Has(p) \cap Done = {} /\ \A q \in Cpu \ {p} : Has(p) \cap Has(q) = {}
        /\ Done \cup UNION {Has(p) : p \in Cpu} = 1..next
    BY DEF IInv, Places
  <2>5. \A p \in Cpu : Has(p) \subseteq 1..next /\ Done \subseteq 1..next /\ t \in 1..next
    BY <1>7, <2>4
  <2>6. \A p \in Cpu : Has(p)' \cap Done' = {}
    BY <1>3, <1>7, <1>8, <2>3, <2>4, <2>5
  <2>7. \A p \in Cpu : \A q \in Cpu \ {p} : Has(p)' \cap Has(q)' = {}
    BY <1>3, <2>3, <2>4, <2>5
  <2>8. Done' \cup UNION {Has(p)' : p \in Cpu} = 1..next'
    <3> DEFINE others == UNION {Has(p) : p \in Cpu \ {c}}
    <3>1. UNION {Has(p) : p \in Cpu} = others \cup {t}
      BY <1>7
    <3>2. UNION {Has(p)' : p \in Cpu} = others \cup given
      BY <2>3
    <3> HIDE DEF others
    <3> QED
      BY <1>3, <1>8, <2>4, <3>1, <3>2
  <2> QED
    BY <1>2, <1>9, <2>6, <2>7, <2>8 DEF Places, Cpu
<1>15. AnswersAnnounced'
  <2>1. /\ \A p \in Cpu : Answers(p) => p \in Announced
        /\ \A p \in Announced : Answers(p) \/ (process[p].where = "dead" /\ AtWork(p) # {})
        /\ \A j, k \in DOMAIN retq : j # k => retq[j] # retq[k]
        /\ \A k \in DOMAIN retq : retq[k] # c
    BY DEF IInv, AnswersAnnounced
  <2>6. 0 \notin Cpu
    BY DEF Cpu
  <2>2. \A k \in DOMAIN retq : retq[k] \in Cpu /\ retq[k] # 0
    BY <1>1, <2>6
  <2>3. Announced' = Announced \ {c}
    BY <2>1, <2>2 DEF Announced
  <2>4. ~Answers(c)' /\ \A p \in Cpu \ {c} : Answers(p)' = Answers(p) /\ AtWork(p)' = AtWork(p)
    BY <1>4 DEF Answers, AtWork
  <2>5. Announced \subseteq Cpu
    BY <2>2 DEF Announced
  <2> QED
    BY <2>1, <2>2, <2>3, <2>4, <2>5 DEF AnswersAnnounced, Cpu
<1> QED
  BY <1>10, <1>11, <1>12, <1>13, <1>14, <1>15 DEF IInv

LEMMA ReceiveKeeps == IInv /\ Receive => IInv'
<1> SUFFICES ASSUME IInv, Receive PROVE IInv'
  OBVIOUS
<1>1. UNCHANGED args /\ UNCHANGED retq /\ pc = "gather" /\ at \in Cpu
  BY DEF Receive, IInv, TypeOK
<1>2. PICK t \in Tasks, ok \in BOOLEAN, after \in [Cpu -> Proc] :
        /\ Contents(at) = {t} /\ outq' = [outq EXCEPT ![at] = <<>>] /\ inq[at] = <<>>
        /\ after[at].task = 0 /\ after[at].where \notin {"computing", "announcing", "sending"}
        /\ \A p \in Cpu \ {at} : after[p] = process[p]
        /\ ok => /\ fl' = [fl EXCEPT ![t] = t] /\ ctr' = ctr - 1 /\ at' = 0
                 /\ process' = after /\ pc' = pc
                 /\ next' = IF next < n THEN next + 1 ELSE next
                 /\ inq' = IF next < n THEN [inq EXCEPT ![at] = Append(@, next + 1)] ELSE inq
        /\ ~ok => /\ pc' = "raised" /\ process' = Terminated(after)
                  /\ UNCHANGED <<next, at, fl, ctr, inq>>
  BY Received, Zenon
<1>3. CASE ok
  BY <1>1, <1>2, <1>3, ReceivedWell
<1>4. CASE ~ok
  BY <1>1, <1>2, <1>4, ReceiveFailed
<1> QED
  BY <1>3, <1>4

-----------------------------------------------------------------------------
LEMMA InitIInv == Init => IInv
<1> SUFFICES ASSUME Init PROVE IInv
  OBVIOUS
<1>1. /\ n \in Nat /\ n \in 0..MaxTasks /\ ncpu \in 0..MaxCpu /\ pc = "start" /\ next = 0 /\ at = 0
      /\ fl = [i \in Tasks |-> 0] /\ ctr = n /\ retq = <<>>
      /\ process = [p \in Cpu |-> Idle("unstarted")] /\ Idle("unstarted") \in [where : Where, task : 0..n, ok : BOOLEAN, big : BOOLEAN]
      /\ inq = [p \in Cpu |-> <<>>] /\ outq = [p \in Cpu |-> <<>>]
  BY BoundsAssumption DEF Init, Idle, Where
<1>2. TypeOK
  BY <1>1, BoundsAssumption, EmptySeq DEF TypeOK, Proc
<1>3. Slots
  BY <1>1 DEF Slots, Slot, Idle
<1>4. Fresh /\ Finished /\ Results /\ Joined
  BY <1>1 DEF Fresh, Finished, Results, Joined, Idle
<1>5. Places
  <2>1. Done = {} /\ \A p \in Cpu : Has(p) = {}
    BY <1>1 DEF Done, Has, Given, AtWork, Sent, Idle
  <2>2. Cardinality(Tasks) = n
    BY <1>1, FS_Interval DEF Tasks
  <2> QED
    BY <1>1, <2>1, <2>2 DEF Places
<1>6. AnswersAnnounced
  BY <1>1 DEF AnswersAnnounced, Answers, Announced, Idle
<1> QED
  BY <1>2, <1>3, <1>4, <1>5, <1>6 DEF IInv

LEMMA NextIInv == IInv /\ [Next]_vars => IInv'
<1> SUFFICES ASSUME IInv, [Next]_vars PROVE IInv'
  OBVIOUS
<1>1. CASE Caller
  BY <1>1, StartKeeps, StartFailsKeeps, DealKeeps, ReadAnnouncementKeeps, ReceiveKeeps,
     CancelAllKeeps, JoinKeeps DEF Caller
<1>2. ASSUME NEW p \in Cpu, Works(p) \/ Die(p) PROVE IInv'
  BY <1>2, InputKeeps, ComputeKeeps, AnnounceKeeps, SendKeeps, DieKeeps DEF Works
<1>3. CASE UNCHANGED vars
  <2>1. UNCHANGED <<n, ncpu, pc, next, at, fl, ctr, process, inq, outq, retq>> /\ Quiet
    BY <1>3 DEF vars, args, caller, pipes, Quiet
  <2>2. TypeOK'
    BY <2>1 DEF IInv, TypeOK, Tasks, Answer, Proc
  <2>3. Slots' /\ Fresh' /\ Joined'
    BY <2>1 DEF IInv, Slots, Slot, Fresh, Joined, Alive, Tasks
  <2>4. AnswersAnnounced'
    BY <2>1, AnnouncedKept DEF Answers
  <2>5. \A p \in Cpu : Contents(p)' = Contents(p)
    BY <2>1 DEF Contents, Tasks
  <2> QED
    BY <2>1, <2>2, <2>3, <2>4, <2>5, OnlyWithin
<1> QED
  BY <1>1, <1>2, <1>3 DEF Next

LEMMA AlwaysIInv == Spec => []IInv
BY InitIInv, NextIInv, PTL DEF Spec

(* No task is lost, given to two processes, or given again when its result *)
(* is there; none is in a process's way: for any number of tasks and       *)
(* processes, whichever fail or die.                                       *)
THEOREM TasksInOnePlace == Spec => []EachInOnePlace
<1>1. IInv => EachInOnePlace
  <2> SUFFICES ASSUME IInv, NEW p \in Cpu
               PROVE  Len(inq[p]) + Cardinality(AtWork(p)) + Len(outq[p]) <= 1
    BY DEF IInv, EachInOnePlace, Places
  <2>1. Slot(p)
    BY DEF IInv, Slots
  <2>2. CASE process[p].task = 0
    <3>1. Cardinality(AtWork(p)) = 0
      BY <2>2, FS_EmptySet DEF AtWork
    <3>2. \/ Len(inq[p]) = 0 /\ Len(outq[p]) = 0
          \/ Len(inq[p]) = 1 /\ Len(outq[p]) = 0
          \/ Len(inq[p]) = 0 /\ Len(outq[p]) = 1
      BY <2>1, EmptySeq DEF Slot
    <3>3. CASE Len(inq[p]) = 0 /\ Len(outq[p]) = 0
      BY <3>1, <3>3
    <3>4. CASE Len(inq[p]) = 1 /\ Len(outq[p]) = 0
      BY <3>1, <3>4
    <3>5. CASE Len(inq[p]) = 0 /\ Len(outq[p]) = 1
      BY <3>1, <3>5
    <3> QED
      BY <3>2, <3>3, <3>4, <3>5
  <2>3. CASE process[p].task # 0
    <3>1. Cardinality(AtWork(p)) = 1
      BY <2>3, FS_Singleton DEF AtWork
    <3>2. inq[p] = <<>> /\ outq[p] = <<>>
      BY <2>1, <2>3 DEF Slot
    <3> QED
      BY <3>1, <3>2, EmptySeq
  <2> QED
    BY <2>2, <2>3
<1> QED
  BY <1>1, AlwaysIInv, PTL

(* What is announced is sent or being sent, or its process died sending    *)
(* it: the caller never waits for the answer of a process that lives.      *)
THEOREM AnnouncementsTrue == Spec => []AnswersAnnounced
<1>1. IInv => AnswersAnnounced
  BY DEF IInv
<1> QED
  BY <1>1, AlwaysIInv, PTL

(* When the map returns, every result is there and at its index, and there *)
(* is nothing left in the pipes, nor a process.                            *)
THEOREM MapsAll == Spec => []MappedAll
<1>1. IInv => MappedAll
  <2> SUFFICES ASSUME IInv, pc = "returned"
               PROVE  /\ fl = [i \in Tasks |-> i]
                      /\ retq = <<>> /\ \A p \in Cpu : ~Alive(p) /\ outq[p] = <<>>
    BY DEF MappedAll
  <2>1. ctr = 0 /\ at = 0 /\ \A p \in Cpu : ~Alive(p)
    BY DEF IInv, Finished, Joined
  <2>2. Done = Tasks /\ \A p \in Cpu : Has(p) = {}
    BY <2>1, AllDone
  <2>3. fl = [i \in Tasks |-> i]
    BY <2>2 DEF Done, IInv, Results, TypeOK
  <2>4. \A p \in Cpu : AtWork(p) = {} /\ outq[p] = <<>>
    <3> SUFFICES ASSUME NEW p \in Cpu PROVE outq[p] = <<>>
      BY <2>2 DEF Has
    <3> SUFFICES ASSUME outq[p] # <<>> PROVE FALSE
      OBVIOUS
    <3>1. Len(outq[p]) = 1 /\ outq[p] \in Seq(Answer)
      BY DEF IInv, Slots, Slot, TypeOK
    <3>2. outq[p][1] \in Answer /\ 1 \in DOMAIN outq[p]
      BY <3>1, TakenFromOne
    <3>3. outq[p][1].task \in Sent(p)
      BY <3>2 DEF Sent, Answer
    <3> QED
      BY <2>2, <3>3 DEF Has
  <2>5. \A p \in Cpu : ~Answers(p)
    BY <2>1, <2>4 DEF Answers, Alive, Running
  <2>6. Announced = {}
    <3>1. Announced \subseteq Cpu
      BY DEF Announced, IInv, TypeOK
    <3> QED
      BY <2>4, <2>5, <3>1 DEF IInv, AnswersAnnounced
  <2>7. retq = <<>>
    <3>1. DOMAIN retq = {}
      BY <2>6 DEF Announced
    <3>2. retq \in Seq(Cpu)
      BY DEF IInv, TypeOK
    <3> QED
      BY <3>1, <3>2
  <2> QED
    BY <2>1, <2>3, <2>4, <2>7
<1> QED
  BY <1>1, AlwaysIInv, PTL
=============================================================================
