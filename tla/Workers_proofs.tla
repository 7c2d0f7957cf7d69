--------------------------- MODULE Workers_proofs ---------------------------
(***************************************************************************)
(* Proofs about the pool of workers, for every number of objects, every    *)
(* cap and every mode that captures exceptions (all but "sequential").     *)
(***************************************************************************)
EXTENDS Workers, SequenceTheorems, WellFoundedInduction, TLAPS

-----------------------------------------------------------------------------
(* Chunks.                                                                 *)

(* Every object is in a longer chunk or a shorter one.                     *)
LEMMA Sizes ==
  /\ baseSize \in Nat /\ extras \in Nat /\ chunkCount \in Nat
  /\ extras <= chunkCount
  /\ NumObjects = extras * (baseSize + 1) + (chunkCount - extras) * baseSize
<1> USE PoolAssumption
<1>1. CASE ProcessCap = 0
  BY <1>1 DEF baseSize, extras, chunkCount
<1>2. CASE ProcessCap # 0 /\ NumObjects < ProcessCap
  <2>1. NumObjects \div ProcessCap = 0 /\ NumObjects % ProcessCap = NumObjects
    BY <1>2
  <2> QED  BY <1>2, <2>1 DEF baseSize, extras, chunkCount
<1>3. CASE ProcessCap # 0 /\ NumObjects >= ProcessCap
  <2> DEFINE b == NumObjects \div ProcessCap
             e == NumObjects % ProcessCap
  <2>1. b \in Nat /\ e \in 0..(ProcessCap - 1) /\ NumObjects = ProcessCap * b + e
    BY <1>3
  <2>2. baseSize = b /\ extras = e /\ chunkCount = ProcessCap
    BY <1>3 DEF baseSize, extras, chunkCount
  <2> HIDE DEF b, e
  <2>3. e * (b + 1) + (ProcessCap - e) * b = ProcessCap * b + e
    BY <2>1
  <2> QED  BY <2>1, <2>2, <2>3
<1> QED  BY <1>1, <1>2, <1>3

(* One chunk starts where the one before it ends.                          *)
LEMMA ChunksAdjacent ==
  ASSUME NEW w \in Worker
  PROVE  /\ chunkStart(w) \in Nat /\ chunkSize(w) \in Nat
         /\ chunkStart(w) + chunkSize(w) = chunkStart(w + 1)
<1>1. w \in Nat \ {0} /\ w <= chunkCount
  BY Sizes DEF Worker
<1> DEFINE b == baseSize
           e == extras
<1>2. b \in Nat /\ e \in Nat
  BY Sizes
<1> HIDE DEF b, e
<1>3. /\ (w - 1) * (b + 1) \in Nat /\ (w - 1) * b \in Nat
      /\ (w - 1) * (b + 1) + (b + 1) = w * (b + 1)
      /\ (w - 1) * b + b = w * b
  BY <1>1, <1>2
<1>4. w * (b + 1) = w * b + w
  BY <1>1, <1>2
<1>5. /\ chunkStart(w) = IF w <= e THEN (w - 1) * (b + 1) ELSE e + (w - 1) * b
      /\ chunkStart(w + 1) = IF w + 1 <= e THEN w * (b + 1) ELSE e + w * b
      /\ chunkSize(w) = IF w <= e THEN b + 1 ELSE b
  <2>1. (w + 1) - 1 = w
    BY <1>1
  <2> QED  BY <2>1 DEF chunkStart, chunkSize, b, e
<1> QED  BY <1>1, <1>2, <1>3, <1>4, <1>5

(* Where the chunk of a number starts, which later chunks do not precede.  *)
LEMMA ChunkStarts ==
  ASSUME NEW w \in Nat \ {0}
  PROVE  chunkStart(w) = (w - 1) * baseSize + (IF w <= extras THEN w - 1 ELSE extras)
<1>1. (w - 1) * (baseSize + 1) = (w - 1) * baseSize + (w - 1)
  BY Sizes
<1>2. (w - 1) * baseSize \in Nat
  BY Sizes
<1> QED  BY <1>1, <1>2, Sizes DEF chunkStart

(* Chunks of later workers start later.                                   *)
LEMMA ChunkStartsGrow ==
  ASSUME NEW w \in Nat \ {0}, NEW v \in Nat \ {0}, w <= v
  PROVE  chunkStart(w) <= chunkStart(v)
<1>1. PICK d \in Nat : v = w + d
  <2>1. v - w \in Nat /\ v = w + (v - w)
    OBVIOUS
  <2> QED  BY <2>1
<1>2. /\ (v - 1) * baseSize = (w - 1) * baseSize + d * baseSize
      /\ d * baseSize \in Nat /\ (w - 1) * baseSize \in Nat
  BY <1>1, Sizes
<1> QED  BY <1>1, <1>2, ChunkStarts, Sizes

(* Chunks are apart, and made of objects.                                  *)
LEMMA ChunksApart ==
  ASSUME NEW w \in Worker, NEW v \in Worker, w < v
  PROVE  chunkStart(w) + chunkSize(w) <= chunkStart(v)
<1>1. w + 1 \in Nat \ {0} /\ v \in Nat \ {0} /\ w + 1 <= v
  BY Sizes DEF Worker
<1> QED  BY <1>1, ChunksAdjacent, ChunkStartsGrow

(* Every object of a chunk is one of the pool's objects.                  *)
LEMMA ChunksWithin ==
  ASSUME NEW w \in Worker
  PROVE  chunkStart(w) + chunkSize(w) <= NumObjects
<1>1. w + 1 \in Nat \ {0} /\ chunkCount + 1 \in Nat \ {0} /\ w + 1 <= chunkCount + 1
  BY Sizes DEF Worker
<1>2. chunkStart(chunkCount + 1) = NumObjects
  <2> DEFINE b == baseSize
             e == extras
             c == chunkCount
  <2>1. b \in Nat /\ e \in Nat /\ c \in Nat /\ e <= c /\ NumObjects = e * (b + 1) + (c - e) * b
    BY Sizes
  <2>2. chunkStart(c + 1) = c * b + e
    <3>1. (c + 1) - 1 = c /\ c + 1 \in Nat \ {0} /\ ~(c + 1 <= e)
      BY <2>1
    <3> QED  BY <3>1, ChunkStarts
  <2> HIDE DEF b, e, c
  <2>3. e * (b + 1) + (c - e) * b = c * b + e
    BY <2>1
  <2> QED  BY <2>1, <2>2, <2>3 DEF c
<1>3. chunkStart(w + 1) <= chunkStart(chunkCount + 1)
  BY <1>1, ChunkStartsGrow
<1> QED  BY <1>2, <1>3, ChunksAdjacent

(* Every object is in a chunk.                                             *)
LEMMA ChunksCover ==
  ASSUME NEW o \in Object
  PROVE  \E w \in Worker : o \in chunkStart(w) + 1 .. chunkStart(w) + chunkSize(w)
<1> DEFINE b == baseSize
           e == extras
           c == chunkCount
<1>1. /\ b \in Nat /\ e \in Nat /\ c \in Nat /\ e <= c /\ NumObjects = e * (b + 1) + (c - e) * b
      /\ o \in Nat \ {0} /\ o <= NumObjects
  BY Sizes, PoolAssumption DEF Object
<1>2. ASSUME NEW w \in Nat \ {0}
      PROVE  /\ chunkStart(w) = IF w <= e THEN (w - 1) * (b + 1) ELSE e + (w - 1) * b
             /\ chunkSize(w) = IF w <= e THEN b + 1 ELSE b
             /\ w <= c => w \in Worker
  BY Sizes DEF chunkStart, chunkSize, Worker
<1> HIDE DEF b, e, c
<1>3. CASE o <= e * (b + 1)
  <2> DEFINE d == (o - 1) \div (b + 1)
             m == (o - 1) % (b + 1)
  <2>1. d \in Nat /\ m \in 0..b /\ o - 1 = (b + 1) * d + m
    BY <1>1
  <2> HIDE DEF d, m
  <2>2. d < e
    <3>1. SUFFICES ASSUME d >= e PROVE FALSE
      BY <1>1, <2>1
    <3>2. (b + 1) * d >= e * (b + 1)
      BY <1>1, <2>1, <3>1
    <3>3. (b + 1) * d \in Nat /\ e * (b + 1) \in Nat
      BY <1>1, <2>1
    <3> QED  BY <1>1, <1>3, <2>1, <3>2, <3>3
  <2>3. d + 1 \in Nat \ {0} /\ d + 1 <= e /\ (d + 1) - 1 = d /\ d * (b + 1) = (b + 1) * d
    BY <1>1, <2>1, <2>2
  <2>4. chunkStart(d + 1) = (b + 1) * d /\ chunkSize(d + 1) = b + 1 /\ d + 1 \in Worker
    BY <1>1, <1>2, <2>3
  <2>5. (b + 1) * d \in Nat
    BY <1>1, <2>1
  <2> QED  BY <1>1, <2>1, <2>4, <2>5
<1>4. CASE o > e * (b + 1)
  <2>1. b # 0
    <3>1. SUFFICES ASSUME b = 0 PROVE FALSE
      OBVIOUS
    <3>2. NumObjects = e * (b + 1)
      BY <1>1, <3>1
    <3> QED  BY <1>1, <1>4, <3>2
  <2> DEFINE x == o - 1 - e * (b + 1)
             d == x \div b
             m == x % b
  <2>2. e * (b + 1) \in Nat /\ x \in Nat
    BY <1>1, <1>4
  <2>3. d \in Nat /\ m \in 0..(b - 1) /\ x = b * d + m
    BY <1>1, <2>1, <2>2
  <2>4. o = e * (b + 1) + 1 + x /\ x < (c - e) * b
    BY <1>1, <2>2
  <2> HIDE DEF x, d, m
  <2>5. d < c - e
    <3>1. SUFFICES ASSUME d >= c - e PROVE FALSE
      BY <1>1, <2>3
    <3>2. b * d >= (c - e) * b
      BY <1>1, <2>3, <3>1
    <3>3. b * d \in Nat /\ (c - e) * b \in Nat
      BY <1>1, <2>3
    <3> QED  BY <1>1, <2>2, <2>3, <2>4, <3>2, <3>3
  <2> DEFINE w == e + d + 1
  <2>6. w \in Nat \ {0} /\ ~(w <= e) /\ w <= c /\ w - 1 = e + d
    BY <1>1, <2>3, <2>5
  <2>7. e + (e + d) * b = e * (b + 1) + b * d /\ b * d \in Nat
    BY <1>1, <2>3
  <2>8. chunkStart(w) = e + (w - 1) * b /\ chunkSize(w) = b /\ w \in Worker
    BY <1>2, <2>6
  <2>9. chunkStart(w) = e * (b + 1) + b * d
    BY <2>6, <2>7, <2>8
  <2> HIDE DEF w
  <2> QED  BY <1>1, <2>2, <2>3, <2>4, <2>7, <2>8, <2>9
<1> QED  BY <1>1, <1>3, <1>4

-----------------------------------------------------------------------------
(* The invariant.  A worker that a call is under way at is at one point of *)
(* one round: the command is in its pipe, it is running it, its answer is  *)
(* in the pipe, or it died of it.  A worker the call has not reached yet,  *)
(* or has left, is quiet.                                                  *)
ACall     == UNION {Calls(id) : id \in Nat}
AResult   == [obj : Object, call : Nat, ok : BOOLEAN]
States    == {"polling", "running", "stopped", "dead"}
Phases    == {"idle", "sending", "receiving", "stopped"}

WState    == [state : States, call : ACall \cup {NoCall}, done : Seq(AResult)]

MasterTyped ==
  /\ phase \in Phases /\ current \in ACall \cup {NoCall} /\ turn \in Nat \ {0}
  /\ answers \in Seq(Seq(AResult))
Typed ==
  /\ MasterTyped
  /\ commands \in [Worker -> Seq(ACall)]
  /\ replies \in [Worker -> Seq(Seq(AResult))]
  /\ worker \in [Worker -> WState]

(* The results of the first objects addressed, and a worker's answer.      *)
Results(call, w, list) ==
  /\ Len(list) <= Len(addressed(call, w))
  /\ \A j \in 1..Len(list) : list[j] = Result(addressed(call, w)[j], call, list[j].ok)
Whole(call, w, list) == Results(call, w, list) /\ Len(list) = Len(addressed(call, w))
IsAnswer(call, w, list) == Whole(call, w, list) \/ \E j \in 1..Len(list) : ~list[j].ok

Quiet(w)   == commands[w] = <<>> /\ replies[w] = <<>> /\ worker[w].state # "running"
Told(w)    == commands[w] = <<current>> /\ replies[w] = <<>> /\ worker[w].state # "running"
Busy(w)    == /\ commands[w] = <<>> /\ replies[w] = <<>> /\ worker[w].state = "running"
              /\ worker[w].call = current /\ Results(current, w, worker[w].done)
Done(w)    == /\ commands[w] = <<>> /\ worker[w].state # "running"
              /\ \E list \in Seq(AResult) : replies[w] = <<list>> /\ IsAnswer(current, w, list)
Asked(w)   == Told(w) \/ Busy(w) \/ Done(w) \/ Quiet(w)

(* The call has been sent to w, and its answer has not been received.      *)
Waiting(w) == \E k \in 1..Len(targets(current)) :
                /\ targets(current)[k] = w
                /\ \/ phase = "sending" /\ k < turn
                   \/ phase = "receiving" /\ k >= turn

Rounds ==
  phase # "stopped" =>
    \A w \in Worker : Asked(w) /\ (~Waiting(w) => Quiet(w))

Answered(n) ==
  /\ Len(answers) = n
  /\ \A k \in 1..n : IsAnswer(current, targets(current)[k], answers[k])

Collecting ==
  /\ phase \in {"sending", "receiving"} => turn <= Len(targets(current)) + 1
  /\ phase = "receiving" => Answered(turn - 1)
  /\ phase = "sending" => answers = <<>>
  /\ phase = "idle" => /\ Answered(Len(targets(current)))
                              /\ (raised = <<>> => Failures(answers) = {})

IInv == Typed /\ Rounds /\ Collecting

-----------------------------------------------------------------------------
(* A call is sent to workers, to each at most once.                        *)
LEMMA Targets ==
  ASSUME NEW call \in ACall \cup {NoCall}
  PROVE  /\ targets(call) \in Seq(Worker)
         /\ \A j, k \in 1..Len(targets(call)) : targets(call)[j] = targets(call)[k] => j = k
<1>1. CASE call.cmd \in {"map", "stop"}
  <2>1. targets(call) = [w \in Worker |-> w]
    BY <1>1 DEF targets
  <2>2. [w \in Worker |-> w] \in Seq(Worker) /\ Len([w \in Worker |-> w]) = chunkCount
    BY Sizes DEF Worker
  <2> QED  BY <2>1, <2>2 DEF Worker
<1>2. CASE call.cmd = "at"
  <2>1. call.to \in Object
    BY <1>2 DEF ACall, Calls, NoCall
  <2>2. chunkIndex(call.to) \in Worker
    BY <2>1, ChunksCover DEF chunkIndex
  <2> QED  BY <1>2, <2>2 DEF targets
<1>3. CASE call.cmd = "set_seeds"
  <2>1. call.to \in Worker
    BY <1>3 DEF ACall, Calls, NoCall
  <2> QED  BY <1>3, <2>1 DEF targets
<1>4. CASE call = NoCall
  BY <1>4 DEF targets, NoCall
<1> QED  BY <1>1, <1>2, <1>3, <1>4 DEF ACall, Calls

(* It is run on objects.                                                   *)
LEMMA Addressed ==
  ASSUME NEW call \in ACall \cup {NoCall}, NEW w \in Worker
  PROVE  addressed(call, w) \in Seq(Object)
<1>1. Chunk(w) \in Seq(Object)
  <2>1. chunkSize(w) \in Nat /\ chunkStart(w) \in Nat
    BY ChunksAdjacent
  <2>2. \A i \in 1..chunkSize(w) : chunkStart(w) + i \in Object
    BY <2>1, ChunksWithin, PoolAssumption DEF Object
  <2> QED  BY <2>1, <2>2 DEF Chunk
<1>2. call.cmd = "at" => call.to \in Object
  BY DEF ACall, Calls, NoCall
<1> QED  BY <1>1, <1>2 DEF addressed

(* A result of an object is a result, and its fields are what it is of.    *)
LEMMA ResultTyped ==
  ASSUME NEW o \in Object, NEW call \in ACall \cup {NoCall}, NEW ok \in BOOLEAN
  PROVE  Result(o, call, ok) \in AResult /\ Result(o, call, ok).ok = ok
<1>1. call.id \in Nat
  BY DEF ACall, Calls, NoCall
<1> QED  BY <1>1 DEF Result, AResult

(* The pool stays well typed, in every mode.                               *)
LEMMA TypedKept == Typed /\ [Next]_vars => Typed'
<1> SUFFICES ASSUME Typed, [Next]_vars PROVE Typed'
  OBVIOUS
<1>t. MasterTyped /\ commands \in [Worker -> Seq(ACall)] /\ replies \in [Worker -> Seq(Seq(AResult))]
      /\ worker \in [Worker -> WState]
  BY DEF Typed
<1>m. /\ phase \in Phases /\ current \in ACall \cup {NoCall} /\ turn \in Nat \ {0}
      /\ answers \in Seq(Seq(AResult)) /\ turn + 1 \in Nat \ {0}
  BY <1>t DEF MasterTyped
<1>p. /\ Polling \in WState /\ [Polling EXCEPT !.state = "dead"] \in WState
      /\ [Polling EXCEPT !.state = "stopped"] \in WState
  <2>1. Polling = [state |-> "polling", call |-> NoCall, done |-> <<>>]
        /\ [Polling EXCEPT !.state = "dead"] = [state |-> "dead", call |-> NoCall, done |-> <<>>]
        /\ [Polling EXCEPT !.state = "stopped"] = [state |-> "stopped", call |-> NoCall, done |-> <<>>]
    BY DEF Polling
  <2>2. \A st \in States : [state |-> st, call |-> NoCall, done |-> <<>>] \in WState
    BY DEF WState
  <2>3. "polling" \in States /\ "dead" \in States /\ "stopped" \in States
    BY DEF States
  <2> QED  BY <2>1, <2>2, <2>3
<1>1. CASE Call
  <2>1. current' \in Calls(current.id + 1) /\ current.id + 1 \in Nat
    BY <1>1, <1>m DEF Call, ACall, Calls, NoCall
  <2>4. MasterTyped'
    BY <1>1, <2>1 DEF Call, MasterTyped, Phases, ACall
  <2> QED  BY <1>1, <1>t, <2>4 DEF Call, Typed
<1>2. CASE Send
  <2>1. current \in ACall
    <3>1. Len(targets(NoCall)) = 0
      BY DEF targets, NoCall
    <3>2. current # NoCall
      BY <1>2, <1>m, <3>1 DEF Send
    <3> QED  BY <3>2, <1>m
  <2>2. target \in Worker
    BY <1>2, <1>m, Targets DEF Send, target
  <2>3. commands' \in [Worker -> Seq(ACall)]
    BY <1>2, <1>t, <2>1, <2>2 DEF Send
  <2>4. MasterTyped'
    BY <1>2, <1>m DEF Send, MasterTyped
  <2> QED  BY <1>2, <1>t, <2>3, <2>4 DEF Send, Typed
<1>3. CASE Sent
  <2>1. MasterTyped'
    BY <1>3, <1>t DEF Sent, MasterTyped, Phases
  <2> QED  BY <1>3, <1>t, <2>1 DEF Sent, Typed
<1>4. CASE Receive
  <2>1. target \in Worker
    BY <1>4, <1>m, Targets DEF Receive, target
  <2>2. Head(replies[target]) \in Seq(AResult) /\ Tail(replies[target]) \in Seq(Seq(AResult))
    BY <1>4, <1>t, <2>1 DEF Receive
  <2>3. Append(answers, Head(replies[target])) \in Seq(Seq(AResult))
    BY <1>m, <2>2
  <2>4. MasterTyped'
    BY <1>4, <1>m, <2>3 DEF Receive, MasterTyped
  <2>5. replies' \in [Worker -> Seq(Seq(AResult))]
    BY <1>4, <1>t, <2>1, <2>2 DEF Receive
  <2> QED  BY <1>4, <1>t, <2>4, <2>5 DEF Receive, Typed
<1>5. CASE Return
  <2>1. MasterTyped'
    BY <1>5, <1>m DEF Return, MasterTyped, Phases
  <2> QED  BY <1>5, <1>t, <2>1 DEF Return, Typed
<1>6. ASSUME NEW w \in Worker, Poll(w) PROVE Typed'
  <2>1. Head(commands[w]) \in ACall /\ Tail(commands[w]) \in Seq(ACall)
    BY <1>6, <1>t DEF Poll
  <2>2. polled(Head(commands[w])) \in WState
    BY <2>1, <1>p DEF polled, WState, States
  <2>3. worker' \in [Worker -> WState] /\ commands' \in [Worker -> Seq(ACall)]
    BY <1>6, <1>t, <2>1, <2>2 DEF Poll
  <2> QED  BY <1>6, <1>t, <2>3 DEF Poll, Typed, MasterTyped, masterVars
<1>7. ASSUME NEW w \in Worker, Run(w) PROVE Typed'
  <2>1. PICK ok \in BOOLEAN : RunOn(w, ok)
    BY <1>7 DEF Run
  <2>2. worker[w].call \in ACall \cup {NoCall} /\ worker[w].done \in Seq(AResult)
    BY <1>t DEF WState
  <2>3. nextObject(w) \in Object
    <3>1. addressed(worker[w].call, w) \in Seq(Object)
      BY <2>2, Addressed
    <3>2. Len(worker[w].done) + 1 \in 1..Len(addressed(worker[w].call, w))
      BY <1>7, <2>2, <3>1 DEF Run, GoesOn
    <3> QED  BY <3>1, <3>2 DEF nextObject
  <2> DEFINE r == Result(nextObject(w), worker[w].call, ok)
  <2>4. r \in AResult
    BY <2>2, <2>3, ResultTyped
  <2> HIDE DEF r
  <2>5. CASE ok \/ ~Passes(worker[w].call)
    <3>1. worker' = [worker EXCEPT ![w].done = Append(@, r)] /\ UNCHANGED <<masterVars, commands, replies>>
      BY <2>1, <2>5 DEF RunOn, r
    <3>2. Append(worker[w].done, r) \in Seq(AResult)
      BY <2>2, <2>4
    <3>3. worker' \in [Worker -> WState]
      BY <3>1, <3>2, <1>t DEF WState
    <3> QED  BY <3>1, <3>3, <1>t DEF Typed, MasterTyped, masterVars
  <2>6. CASE ~(ok \/ ~Passes(worker[w].call))
    <3>1. worker' = [worker EXCEPT ![w] = Polling] /\ UNCHANGED <<commands, replies>>
          /\ phase' = "idle" /\ UNCHANGED <<current, turn, answers>>
      BY <2>1, <2>6 DEF RunOn, r
    <3>2. MasterTyped'
      BY <3>1, <1>m DEF MasterTyped, Phases
    <3> QED  BY <3>1, <3>2, <1>p, <1>t DEF Typed
  <2> QED  BY <2>5, <2>6
<1>8. ASSUME NEW w \in Worker, Reply(w) PROVE Typed'
  <2>0. worker[w].done \in Seq(AResult)
    BY <1>t DEF WState
  <2>1. answer(w) \in Seq(AResult)
    <3>1. CASE Broken(w)
      <4>1. \E r \in Range(worker[w].done) : ~r.ok
        BY <3>1 DEF Broken, Range
      <4>2. Range(worker[w].done) \subseteq AResult
        BY <2>0 DEF Range
      <4> QED  BY <3>1, <4>1, <4>2 DEF answer
    <3>2. CASE ~Broken(w)
      BY <2>0, <3>2 DEF answer
    <3> QED  BY <3>1, <3>2
  <2>2. replies' \in [Worker -> Seq(Seq(AResult))] /\ worker' \in [Worker -> WState]
    BY <1>8, <1>t, <1>p, <2>1 DEF Reply
  <2> QED  BY <1>8, <1>t, <2>2 DEF Reply, Typed, MasterTyped, masterVars
<1>9. ASSUME NEW w \in Worker, ReplyFails(w) PROVE Typed'
  <2>1. worker' \in [Worker -> WState]
    BY <1>9, <1>t, <1>p DEF ReplyFails
  <2> QED  BY <1>9, <1>t, <2>1 DEF ReplyFails, Typed, MasterTyped, masterVars
<1>10. CASE Rest \/ UNCHANGED vars
  BY <1>10, <1>t DEF Rest, vars, Typed, MasterTyped, masterVars
<1> QED
  BY <1>1, <1>2, <1>3, <1>4, <1>5, <1>6, <1>7, <1>8, <1>9, <1>10 DEF Next, Master, Working

-----------------------------------------------------------------------------
(* An empty pool satisfies the invariant.                                  *)
LEMMA InitIInv == Init => IInv
<1> SUFFICES ASSUME Init PROVE IInv
  OBVIOUS
<1>1. targets(NoCall) = <<>>
  BY DEF targets, NoCall
<1>2. Typed
  BY DEF Init, Typed, MasterTyped, Phases, States, WState, Polling
<1>3. Rounds
  BY DEF Init, Rounds, Asked, Quiet, Polling
<1>4. Collecting
  BY <1>1 DEF Init, Collecting, Answered, Failures
<1> QED  BY <1>2, <1>3, <1>4 DEF IInv

(* The master's steps.                                                     *)
LEMMA MasterKeeps == IInv /\ Master => Rounds' /\ Collecting'
<1> SUFFICES ASSUME IInv, Master PROVE Rounds' /\ Collecting'
  OBVIOUS
<1>t. /\ Typed /\ Rounds /\ Collecting
      /\ current \in ACall \cup {NoCall} /\ turn \in Nat \ {0} /\ answers \in Seq(Seq(AResult))
      /\ commands \in [Worker -> Seq(ACall)] /\ replies \in [Worker -> Seq(Seq(AResult))]
  BY DEF IInv, Typed, MasterTyped
<1>T. /\ targets(current) \in Seq(Worker) /\ Len(targets(current)) \in Nat
      /\ \A j, k \in 1..Len(targets(current)) : targets(current)[j] = targets(current)[k] => j = k
  BY <1>t, Targets
<1>1. CASE Call
  <2>1. \A w \in Worker : Quiet(w)
    BY <1>1, <1>t DEF Call, Rounds, Waiting
  <2>2. \A w \in Worker : Quiet(w)'
    BY <1>1, <2>1 DEF Call, Quiet
  <2>3. current'.id \in Nat /\ current' \in ACall \cup {NoCall}
    <3>1. current.id + 1 \in Nat
      BY <1>t DEF ACall, Calls, NoCall
    <3> QED  BY <1>1, <3>1 DEF Call, Calls, ACall
  <2>4. Len(targets(current)') \in Nat
    BY <2>3, Targets
  <2> QED  BY <1>1, <2>2, <2>4 DEF Call, Rounds, Collecting, Asked
<1>2. CASE Send
  <2>0. PICK w0 \in Worker : w0 = target
    BY <1>2, <1>t, <1>T DEF Send, target
  <2>1. w0 = targets(current)[turn] /\ turn \in 1..Len(targets(current)) /\ current' = current
    BY <1>2, <1>t, <1>T, <2>0 DEF Send, target
  <2>2. Quiet(w0)
    <3>1. ~Waiting(w0)
      BY <1>2, <1>t, <1>T, <2>1 DEF Send, Due, Waiting
    <3> QED  BY <1>2, <1>t, <2>1, <3>1 DEF Rounds, Send, Due
  <2>3. Told(w0)' /\ \A w \in Worker \ {w0} : commands'[w] = commands[w]
    BY <1>2, <1>t, <2>0, <2>1, <2>2 DEF Send, Told, Quiet
  <2>4. ASSUME NEW w \in Worker \ {w0} PROVE Asked(w)' /\ (~Waiting(w)' => Quiet(w)')
    <3>1. Asked(w)' /\ (Quiet(w) => Quiet(w)')
      BY <1>2, <1>t, <2>3 DEF Send, Due, Rounds, Asked, Told, Busy, Done, Quiet
    <3>2. Waiting(w) => Waiting(w)'
      BY <1>2, <1>t, <1>T DEF Send, Due, Waiting
    <3> QED  BY <1>2, <1>t, <3>1, <3>2 DEF Rounds, Send, Due
  <2>5. Waiting(w0)'
    BY <1>2, <1>t, <2>1 DEF Send, Due, Waiting
  <2>6. Rounds'
    BY <2>3, <2>4, <2>5 DEF Rounds, Asked
  <2>7. Collecting'
    BY <1>2, <1>t, <2>1 DEF Send, Due, Collecting
  <2> QED  BY <2>6, <2>7
<1>3. CASE Sent
  <2>1. phase = "sending" /\ turn = Len(targets(current)) + 1 /\ current' = current
    BY <1>3, <1>t, <1>T DEF Sent, Due, Collecting
  <2>2. CASE current.cmd = "stop"
    BY <1>3, <2>2 DEF Sent, Rounds, Collecting
  <2>3. CASE current.cmd # "stop"
    <3>1. phase' = "receiving" /\ turn' = 1 /\ answers' = <<>>
      BY <1>3, <1>t, <2>1, <2>3 DEF Sent, Collecting
    <3>2. ASSUME NEW w \in Worker PROVE Asked(w)' /\ (~Waiting(w)' => Quiet(w)')
      <4>1. Asked(w)' /\ (Quiet(w) => Quiet(w)')
        BY <1>3, <1>t, <2>1 DEF Sent, Rounds, Asked, Told, Busy, Done, Quiet
      <4>2. Waiting(w) => Waiting(w)'
        BY <2>1, <3>1, <1>T DEF Waiting
      <4> QED  BY <1>t, <2>1, <4>1, <4>2 DEF Rounds
    <3> QED  BY <2>1, <3>1, <3>2, <1>T DEF Rounds, Collecting, Answered
  <2> QED  BY <2>2, <2>3
<1>4. CASE Receive
  <2>0. PICK w0 \in Worker : w0 = target
    BY <1>4, <1>t, <1>T DEF Receive, target
  <2>1. /\ turn \in 1..Len(targets(current)) /\ phase = "receiving"
        /\ w0 = targets(current)[turn] /\ phase' = "receiving" /\ current' = current
        /\ turn' = turn + 1
    BY <1>4, <1>t, <1>T, <2>0 DEF Receive, Due, target
  <2>2. PICK list \in Seq(AResult) : replies[w0] = <<list>> /\ IsAnswer(current, w0, list)
    BY <1>4, <1>t, <2>0, <2>1 DEF Receive, Rounds, Asked, Told, Busy, Done, Quiet
  <2>3. commands[w0] = <<>> /\ worker[w0].state # "running"
    BY <1>4, <1>t, <2>0, <2>1 DEF Receive, Rounds, Asked, Told, Busy, Done, Quiet
  <2>4. answers' = Append(answers, list) /\ replies' = [replies EXCEPT ![w0] = <<>>]
    BY <1>4, <2>0, <2>2 DEF Receive
  <2>5. Quiet(w0)'
    BY <1>4, <1>t, <2>1, <2>3, <2>4 DEF Receive, Quiet
  <2>6. ASSUME NEW w \in Worker \ {w0} PROVE Asked(w)' /\ (~Waiting(w)' => Quiet(w)')
    <3>1. replies'[w] = replies[w]
      BY <1>t, <2>1, <2>4
    <3>2. Asked(w)' /\ (Quiet(w) => Quiet(w)')
      BY <1>4, <1>t, <2>1, <3>1 DEF Receive, Rounds, Asked, Told, Busy, Done, Quiet
    <3>3. Waiting(w) => Waiting(w)'
      BY <1>t, <1>T, <2>1 DEF Waiting
    <3> QED  BY <1>t, <2>1, <3>2, <3>3 DEF Rounds
  <2>7. Rounds'
    BY <2>5, <2>6 DEF Rounds, Asked
  <2>8. Collecting'
    <3>1. Len(answers) = turn - 1 /\ \A k \in 1..(turn - 1) : IsAnswer(current, targets(current)[k], answers[k])
      BY <1>t, <2>1 DEF Collecting, Answered
    <3>2. Len(answers') = turn /\ answers'[turn] = list /\ \A k \in 1..(turn - 1) : answers'[k] = answers[k]
      BY <1>t, <2>1, <2>4, <3>1
    <3>3. ASSUME NEW k \in 1..turn PROVE IsAnswer(current, targets(current)[k], answers'[k])
      <4>1. CASE k = turn
        BY <2>1, <2>2, <3>2, <4>1
      <4>2. CASE k # turn
        <5>1. k \in 1..(turn - 1)
          BY <1>t, <4>2
        <5> QED  BY <3>1, <3>2, <5>1
      <4> QED  BY <4>1, <4>2
    <3>4. turn' - 1 = turn
      BY <1>t, <2>1
    <3> QED  BY <1>t, <1>T, <2>1, <3>2, <3>3, <3>4 DEF Collecting, Answered, IsAnswer, Whole, Results
  <2> QED  BY <2>7, <2>8
<1>5. CASE Return
  <2>1. /\ phase = "receiving" /\ turn = Len(targets(current)) + 1 /\ phase' = "idle"
        /\ current' = current /\ answers' = answers /\ raised' = reraise(answers)
    BY <1>5, <1>t, <1>T DEF Return, Due, Collected, Collecting
  <2>2. \A w \in Worker : ~Waiting(w)
    BY <2>1, <1>T DEF Waiting
  <2>3. \A w \in Worker : Quiet(w)'
    BY <1>5, <1>t, <2>1, <2>2 DEF Return, Rounds, Quiet
  <2>4. Answered(Len(targets(current)))
    BY <1>t, <1>T, <2>1 DEF Collecting
  <2>5. raised' = <<>> => Failures(answers') = {}
    BY <2>1 DEF reraise
  <2> QED
    BY <2>1, <2>3, <2>4, <2>5 DEF Rounds, Asked, Collecting, Answered, IsAnswer, Whole, Results
<1> QED  BY <1>1, <1>2, <1>3, <1>4, <1>5 DEF Master

(* The workers' steps, in the modes that capture exceptions.               *)
LEMMA WorkersKeep ==
  ASSUME IInv, Mode # "sequential", NEW w \in Worker, Working(w)
  PROVE  Rounds' /\ Collecting'
<1>t. /\ Typed /\ Rounds /\ Collecting
      /\ current \in ACall \cup {NoCall}
      /\ commands \in [Worker -> Seq(ACall)] /\ replies \in [Worker -> Seq(Seq(AResult))]
      /\ worker \in [Worker -> WState]
  BY DEF IInv, Typed, MasterTyped
<1>d. worker[w].done \in Seq(AResult) /\ worker[w].call \in ACall \cup {NoCall}
  BY <1>t DEF WState
(* It is enough that the worker itself goes through its round, and the     *)
(* others are left alone.                                                  *)
<1>1. ASSUME UNCHANGED masterVars,
             \A v \in Worker \ {w} : /\ commands'[v] = commands[v] /\ replies'[v] = replies[v]
                                      /\ worker'[v] = worker[v],
             phase # "stopped" => Asked(w)' /\ (~Waiting(w) => Quiet(w)')
      PROVE  Rounds' /\ Collecting'
  <2>1. Collecting'
    BY <1>t, <1>1 DEF masterVars, Collecting, Answered, IsAnswer, Whole, Results
  <2>2. \A v \in Worker : Waiting(v)' <=> Waiting(v)
    BY <1>1 DEF masterVars, Waiting
  <2>3. ASSUME phase # "stopped", NEW v \in Worker \ {w} PROVE Asked(v)' /\ (Quiet(v) => Quiet(v)')
    BY <1>t, <1>1, <2>3 DEF masterVars, Rounds, Asked, Told, Busy, Done, Quiet
  <2> QED  BY <1>t, <1>1, <2>1, <2>2, <2>3 DEF Rounds, masterVars
<1>2. CASE Poll(w)
  <2>1. /\ commands' = [commands EXCEPT ![w] = Tail(@)] /\ UNCHANGED <<masterVars, replies>>
        /\ worker' = [worker EXCEPT ![w] = polled(Head(commands[w]))]
    BY <1>2 DEF Poll
  <2>2. ASSUME phase # "stopped" PROVE Asked(w)' /\ Waiting(w)
    <3>1. Told(w) /\ Waiting(w)
      BY <1>2, <1>t, <2>2 DEF Poll, Rounds, Asked, Told, Busy, Done, Quiet
    <3>2. commands'[w] = <<>> /\ replies'[w] = <<>> /\ worker'[w] = polled(current) /\ current' = current
      BY <1>t, <2>1, <3>1 DEF Told, masterVars
    <3>3. CASE current.cmd = "stop"
      <4>1. worker'[w].state = "stopped"
        BY <3>2, <3>3 DEF polled, Polling
      <4> QED  BY <3>1, <3>2, <4>1 DEF Asked, Quiet
    <3>4. CASE current.cmd # "stop"
      <4>1. worker'[w] = [state |-> "running", call |-> current, done |-> <<>>]
        BY <3>2, <3>4 DEF polled
      <4>2. Len(addressed(current, w)) \in Nat
        BY <1>t, Addressed
      <4>3. /\ worker'[w].state = "running" /\ worker'[w].call = current /\ worker'[w].done = <<>>
        BY <4>1
      <4>4. Len(worker'[w].done) <= Len(addressed(current, w)) /\ 1..Len(worker'[w].done) = {}
        BY <4>2, <4>3
      <4> QED  BY <3>1, <3>2, <4>3, <4>4 DEF Asked, Busy, Results
    <3> QED  BY <3>1, <3>3, <3>4
  <2> QED  BY <1>1, <1>t, <2>1, <2>2
<1>3. CASE Run(w)
  <2>1. PICK ok \in BOOLEAN : RunOn(w, ok)
    BY <1>3 DEF Run
  <2> DEFINE o == nextObject(w)
             call == worker[w].call
             r == Result(o, call, ok)
  <2>2. worker' = [worker EXCEPT ![w].done = Append(@, r)] /\ UNCHANGED <<masterVars, commands, replies>>
    BY <2>1 DEF RunOn, Passes
  <2>3. addressed(call, w) \in Seq(Object) /\ Len(worker[w].done) < Len(addressed(call, w))
    BY <1>3, <1>d, Addressed DEF Run, GoesOn
  <2>4. o = addressed(call, w)[Len(worker[w].done) + 1] /\ o \in Object
    BY <1>d, <2>3 DEF nextObject
  <2>5. r \in AResult /\ r.ok = ok
    BY <1>d, <2>4, ResultTyped
  <2>6. worker[w].state = "running"
    BY <1>3 DEF Run, GoesOn
  <2>7. ASSUME phase # "stopped" PROVE Asked(w)' /\ Waiting(w)
    <3>1. Busy(w) /\ Waiting(w)
      BY <1>t, <2>6, <2>7 DEF Rounds, Asked, Told, Busy, Done, Quiet
    <3>2. /\ worker'[w].done = Append(worker[w].done, r) /\ worker'[w].state = "running"
          /\ worker'[w].call = call /\ current' = current /\ call = current
      BY <1>t, <2>2, <2>6, <3>1 DEF Busy, masterVars, WState
    <3>3. Results(current, w, Append(worker[w].done, r))
      <4> DEFINE n == Len(worker[w].done)
      <4>1. n \in Nat /\ Len(Append(worker[w].done, r)) = n + 1 /\ n + 1 <= Len(addressed(current, w))
        BY <1>d, <2>3, <2>5, <3>2
      <4>2. ASSUME NEW j \in 1..(n + 1)
            PROVE  Append(worker[w].done, r)[j] =
                     Result(addressed(current, w)[j], current, Append(worker[w].done, r)[j].ok)
        <5>1. CASE j = n + 1
          <6>1. Append(worker[w].done, r)[j] = r
            BY <1>d, <2>5, <5>1
          <6>2. r = Result(addressed(current, w)[j], current, r.ok)
            BY <2>4, <2>5, <3>2, <5>1
          <6> QED  BY <6>1, <6>2
        <5>2. CASE j # n + 1
          <6>1. j \in 1..n /\ Append(worker[w].done, r)[j] = worker[w].done[j]
            BY <1>d, <2>5, <4>1, <5>2
          <6> QED  BY <3>1, <6>1 DEF Busy, Results
        <5> QED  BY <5>1, <5>2
      <4> HIDE DEF r
      <4> QED  BY <4>1, <4>2 DEF Results
    <3> QED  BY <2>2, <3>1, <3>2, <3>3 DEF Asked, Busy, Results
  <2> HIDE DEF o, call, r
  <2> QED  BY <1>1, <1>t, <2>2, <2>7
<1>4. CASE Reply(w)
  <2>1. /\ worker' = [worker EXCEPT ![w] = Polling] /\ UNCHANGED <<masterVars, commands>>
        /\ replies' = [replies EXCEPT ![w] = Append(@, answer(w))]
    BY <1>4 DEF Reply
  <2>2. ASSUME phase # "stopped" PROVE Asked(w)' /\ Waiting(w)
    <3>1. Busy(w) /\ Waiting(w)
      BY <1>4, <1>t, <2>2 DEF Reply, Finished, Rounds, Asked, Told, Busy, Done, Quiet
    <3>2. answer(w) \in Seq(AResult) /\ IsAnswer(current, w, answer(w))
      <4>1. CASE Broken(w)
        <5>1. \E r \in Range(worker[w].done) : ~r.ok
          BY <4>1 DEF Broken, Range
        <5>2. Range(worker[w].done) \subseteq AResult
          BY <1>d DEF Range
        <5>3. PICK r \in AResult : answer(w) = <<r>> /\ ~r.ok
          BY <4>1, <5>1, <5>2 DEF answer
        <5>4. 1 \in 1..Len(answer(w)) /\ answer(w)[1] = r
          BY <5>3
        <5> QED  BY <5>3, <5>4 DEF IsAnswer
      <4>2. CASE ~Broken(w)
        <5>1. Len(addressed(current, w)) \in Nat
          BY <1>t, Addressed
        <5>2. Len(worker[w].done) = Len(addressed(current, w))
          BY <1>4, <1>d, <3>1, <4>2, <5>1 DEF Reply, Finished, GoesOn, Busy, Results
        <5> QED  BY <1>d, <3>1, <4>2, <5>2 DEF answer, Busy, IsAnswer, Whole
      <4> QED  BY <4>1, <4>2
    <3>3. /\ replies'[w] = <<answer(w)>> /\ commands'[w] = <<>> /\ worker'[w] = Polling
          /\ current' = current
      BY <1>t, <2>1, <3>1, <3>2 DEF Busy, masterVars
    <3>4. Done(w)'
      <4>1. IsAnswer(current', w, answer(w))
        BY <3>2, <3>3
      <4>2. worker'[w].state # "running"
        BY <3>3 DEF Polling
      <4> QED  BY <3>2, <3>3, <4>1, <4>2 DEF Done, IsAnswer, Whole, Results
    <3> QED  BY <3>1, <3>4 DEF Asked
  <2> QED  BY <1>1, <1>t, <2>1, <2>2
<1>5. CASE ReplyFails(w)
  <2>1. /\ worker' = [worker EXCEPT ![w] = [Polling EXCEPT !.state = "dead"]]
        /\ UNCHANGED <<masterVars, commands, replies>>
    BY <1>5 DEF ReplyFails
  <2>2. ASSUME phase # "stopped" PROVE Quiet(w)'
    <3>1. Busy(w)
      BY <1>5, <1>t, <2>2 DEF ReplyFails, Finished, Rounds, Asked, Told, Busy, Done, Quiet
    <3>2. worker'[w].state = "dead"
      BY <1>t, <2>1 DEF Polling
    <3> QED  BY <2>1, <3>1, <3>2 DEF Busy, Quiet
  <2> QED  BY <1>1, <1>t, <2>1, <2>2 DEF Asked
<1> QED  BY <1>2, <1>3, <1>4, <1>5 DEF Working

(* Every step keeps the invariant.                                         *)
LEMMA StepKeepsIInv == Mode # "sequential" /\ IInv /\ [Next]_vars => IInv'
<1> SUFFICES ASSUME Mode # "sequential", IInv, [Next]_vars PROVE IInv'
  OBVIOUS
<1>1. Typed'
  BY TypedKept DEF IInv
<1>2. CASE Master
  BY <1>1, <1>2, MasterKeeps DEF IInv
<1>3. ASSUME NEW w \in Worker, Working(w) PROVE IInv'
  BY <1>1, <1>3, WorkersKeep DEF IInv
<1>4. CASE Rest \/ UNCHANGED vars
  <2>1. UNCHANGED <<masterVars, commands, replies, worker>> /\ Rounds /\ Collecting
    BY <1>4 DEF IInv, Rest, vars
  <2>2. Collecting'
    BY <2>1 DEF masterVars, Collecting, Answered, IsAnswer, Whole, Results
  <2>3. ASSUME NEW w \in Worker
        PROVE  (Asked(w) => Asked(w)') /\ (Quiet(w) => Quiet(w)') /\ (Waiting(w) => Waiting(w)')
    BY <2>1 DEF masterVars, Asked, Told, Busy, Done, Quiet, Waiting
  <2> QED  BY <1>1, <2>1, <2>2, <2>3 DEF IInv, Rounds, masterVars
<1> QED  BY <1>2, <1>3, <1>4 DEF Next

(* Type correctness, in every mode: pipes carry commands to the workers    *)
(* and lists of results of objects back.                                   *)
THEOREM PoolTyped == Spec => []TypeOK
<1>1. Init => Typed
  BY InitIInv DEF IInv
<1>2. Typed /\ [Next]_vars => Typed'
  BY TypedKept
<1>3. Typed => TypeOK
  <2> SUFFICES ASSUME Typed PROVE TypeOK
    OBVIOUS
  <2>1. \A call \in ACall : call \in Calls(call.id)
    BY DEF ACall, Calls
  <2>2. \A w \in Worker : \A list \in Range(replies[w]) \cup {worker[w].done} : list \in Seq(AResult)
    BY DEF Typed, WState, Range
  <2>3. \A list \in Seq(AResult) : \A r \in Range(list) : r.obj \in Object /\ r.call \in Nat /\ r.ok \in BOOLEAN
    <3> SUFFICES ASSUME NEW list \in Seq(AResult), NEW r \in Range(list) PROVE r \in AResult
      BY DEF AResult
    <3>1. PICK i \in DOMAIN list : r = list[i]
      BY DEF Range
    <3> QED  BY <3>1
  <2>4. \A w \in Worker : \A call \in Range(commands[w]) : call \in ACall
    BY DEF Typed, Range
  <2>5. \A w \in Worker : worker[w].state \in {"polling", "running", "stopped", "dead"}
    BY DEF Typed, WState, States
  <2>6. /\ phase \in {"idle", "sending", "receiving", "stopped"} /\ turn \in Nat
        /\ current \in Calls(current.id) \cup {NoCall}
    BY <2>1 DEF Typed, MasterTyped, Phases
  <2> QED  BY <2>1, <2>2, <2>3, <2>4, <2>5, <2>6 DEF TypeOK
<1> QED  BY <1>1, <1>2, <1>3, PTL DEF Spec

(* When exceptions are captured, the answers MasterBase.map, map_chunk and *)
(* at return are those of the call made: one result for each object        *)
(* addressed, in the order of the objects.                                 *)
THEOREM AnswersBelong == ASSUME Mode # "sequential" PROVE Spec => []AnswersMatch
<1>1. IInv => AnswersMatch
  <2> SUFFICES ASSUME IInv, Idle, raised = <<>> PROVE AnswersMatch
    BY DEF AnswersMatch
  <2>1. /\ current \in ACall \cup {NoCall} /\ answers \in Seq(Seq(AResult))
        /\ Failures(answers) = {} /\ Answered(Len(targets(current)))
    BY DEF IInv, Typed, MasterTyped, Collecting, Idle
  <2>2. targets(current) \in Seq(Worker)
    BY <2>1, Targets
  <2>3. ASSUME NEW k \in 1..Len(targets(current))
        PROVE  answers[k] = [j \in DOMAIN addressed(current, targets(current)[k]) |->
                               Result(addressed(current, targets(current)[k])[j], current, TRUE)]
    <3> DEFINE w == targets(current)[k]
               list == answers[k]
               objs == addressed(current, w)
    <3>1. w \in Worker /\ k \in DOMAIN answers /\ list \in Seq(AResult) /\ IsAnswer(current, w, list)
      BY <2>1, <2>2 DEF Answered
    <3>2. objs \in Seq(Object)
      BY <2>1, <3>1, Addressed
    <3>3. \A j \in 1..Len(list) : list[j].ok = TRUE
      <4>1. \A j \in 1..Len(list) : list[j] \in Range(answers[k]) /\ list[j] \in AResult
        BY <3>1 DEF Range
      <4>2. \A r \in Range(answers[k]) : r.ok
        BY <2>1, <3>1 DEF Failures
      <4> HIDE DEF list
      <4> QED  BY <4>1, <4>2 DEF AResult
    <3> HIDE DEF w, list
    <3>4. Len(list) = Len(objs) /\ \A j \in 1..Len(list) : list[j] = Result(objs[j], current, TRUE)
      BY <3>1, <3>3 DEF IsAnswer, Whole, Results
    <3> HIDE DEF objs
    <3>5. list = [j \in DOMAIN objs |-> Result(objs[j], current, TRUE)]
      <4>1. list = [j \in 1..Len(list) |-> list[j]] /\ DOMAIN objs = 1..Len(list)
        BY <3>1, <3>2, <3>4
      <4> QED  BY <3>4, <4>1
    <3> QED  BY <3>5 DEF w, list, objs
  <2>4. answers = [k \in DOMAIN targets(current) |-> answers[k]]
    BY <2>1, <2>2 DEF Answered
  <2>5. DOMAIN targets(current) = 1..Len(targets(current))
    BY <2>2
  <2> DEFINE answerOf(w) == [j \in DOMAIN addressed(current, w) |->
                               Result(addressed(current, w)[j], current, TRUE)]
  <2>6. \A k \in DOMAIN targets(current) : answers[k] = answerOf(targets(current)[k])
    BY <2>3, <2>5
  <2> HIDE DEF answerOf
  <2>7. answers = [k \in DOMAIN targets(current) |-> answerOf(targets(current)[k])]
    BY <2>4, <2>6
  <2> QED  BY <2>7 DEF AnswersMatch, answerOf
<1> QED  BY <1>1, InitIInv, StepKeepsIInv, PTL DEF Spec

(* When exceptions are captured, nothing is under way between calls, so    *)
(* that no answer can be left to a later call and no object is worked on   *)
(* while the client thinks it idle.                                        *)
THEOREM QuietBetweenCalls == ASSUME Mode # "sequential" PROVE Spec => []Quiescent
<1>1. IInv => Quiescent
  BY DEF IInv, Rounds, Waiting, Quiescent, Idle, Quiet
<1> QED  BY <1>1, InitIInv, StepKeepsIInv, PTL DEF Spec

-----------------------------------------------------------------------------
(* What the objects have run.  r stands for ran, or for what it becomes.   *)
Entry   == [call : Nat, ok : BOOLEAN]
Records == [Object -> Seq(Entry)]

HasRun(r, o, id)   == \E i \in DOMAIN r[o] : r[o][i].call = id
Ended(r, o, id, ok) == \E i \in DOMAIN r[o] : r[o][i] = [call |-> id, ok |-> ok]

InOrder(r, id) ==
  \A o \in Object :
    /\ \A i, j \in DOMAIN r[o] : i < j => r[o][i].call < r[o][j].call
    /\ \A i \in DOMAIN r[o] : r[o][i].call <= id

(* The first objects addressed at w have run the command, with the         *)
(* outcomes in list, and the rest have not.                                *)
Recorded(r, call, w, list) ==
  \A j \in 1..Len(addressed(call, w)) :
    IF j <= Len(list) THEN Ended(r, addressed(call, w)[j], call.id, list[j].ok)
                      ELSE ~HasRun(r, addressed(call, w)[j], call.id)

(* A command that is run as a whole ends with the first failure.           *)
EndsAtFailure(call, list) ==
  call.cmd = "set_seeds" => \A j \in 1..Len(list) : ~list[j].ok => j = Len(list)

(* What w answers: a result of every object, or its only failure alone.    *)
OnlyFailure(r, call, w, list) ==
  /\ call.cmd = "set_seeds"
  /\ \E o \in Object :
       /\ list = <<Result(o, call, FALSE)>> /\ Ended(r, o, call.id, FALSE)
       /\ \A p \in Range(addressed(call, w)) : Ended(r, p, call.id, FALSE) => p = o
Final(r, call, w, list) ==
  \/ Whole(call, w, list) /\ Recorded(r, call, w, list)
  \/ OnlyFailure(r, call, w, list)

Unsent(k)   == phase = "sending" /\ k >= turn
Received(k) == \/ phase = "receiving" /\ k < turn
               \/ phase = "idle"

RecordedAt(k, w) ==
  /\ Unsent(k) \/ commands[w] # <<>> => Recorded(ran, current, w, <<>>)
  /\ worker[w].state = "running" =>
       Recorded(ran, current, w, worker[w].done) /\ EndsAtFailure(current, worker[w].done)
  /\ replies[w] # <<>> => Final(ran, current, w, replies[w][1])
  /\ Received(k) => Final(ran, current, w, answers[k])
Recording ==
  phase # "stopped" =>
    \A k \in 1..Len(targets(current)) : RecordedAt(k, targets(current)[k])

(* Only objects that a call addresses run it.                              *)
OnlyAddressed(r, call) ==
  \A o \in Object : HasRun(r, o, call.id) =>
    \E k \in 1..Len(targets(call)) : o \in Range(addressed(call, targets(call)[k]))

(* Nothing runs a stop, and a stopped pool has nothing else to do.         *)
Stopping ==
  /\ \A w \in Worker : worker[w].state = "running" => worker[w].call.cmd # "stop"
  /\ phase = "stopped" =>
       /\ current.cmd = "stop"
       /\ \A w \in Worker : worker[w].state # "running" /\ commands[w] \in {<<>>, <<current>>}

Raising == phase = "idle" => raised = reraise(answers)

RanInv == /\ ran \in Records /\ InOrder(ran, current.id) /\ OnlyAddressed(ran, current)
          /\ Recording /\ Stopping /\ Raising

-----------------------------------------------------------------------------
(* No object is addressed twice by a call, at one worker or at two.        *)
LEMMA AddressedOnce ==
  ASSUME NEW call \in ACall \cup {NoCall}, NEW k \in 1..Len(targets(call)),
         NEW l \in 1..Len(targets(call)),
         NEW i \in 1..Len(addressed(call, targets(call)[k])),
         NEW j \in 1..Len(addressed(call, targets(call)[l])),
         addressed(call, targets(call)[k])[i] = addressed(call, targets(call)[l])[j]
  PROVE  k = l /\ i = j
<1> DEFINE v == targets(call)[k]
           w == targets(call)[l]
<1>1. v \in Worker /\ w \in Worker /\ (v = w => k = l)
  BY Targets
<1>2. CASE call.cmd = "at"
  <2>1. Len(targets(call)) = 1
    BY <1>2 DEF targets
  <2>2. Len(addressed(call, v)) = 1 /\ Len(addressed(call, w)) = 1
    BY <1>2 DEF addressed
  <2> QED  BY <2>1, <2>2
<1>3. CASE call.cmd # "at"
  <2>1. addressed(call, v) = Chunk(v) /\ addressed(call, w) = Chunk(w)
    BY <1>3 DEF addressed
  <2>2. /\ chunkStart(v) \in Nat /\ chunkSize(v) \in Nat /\ chunkStart(w) \in Nat /\ chunkSize(w) \in Nat
    BY <1>1, ChunksAdjacent
  <2>3. /\ i \in 1..chunkSize(v) /\ j \in 1..chunkSize(w)
        /\ Chunk(v)[i] = chunkStart(v) + i /\ Chunk(w)[j] = chunkStart(w) + j
    <3>1. \A x \in Worker : chunkSize(x) \in Nat => Chunk(x) \in Seq(Nat) /\ Len(Chunk(x)) = chunkSize(x)
      <4> SUFFICES ASSUME NEW x \in Worker, chunkSize(x) \in Nat
                   PROVE  Chunk(x) \in Seq(Nat) /\ Len(Chunk(x)) = chunkSize(x)
        OBVIOUS
      <4>1. \A m \in 1..chunkSize(x) : chunkStart(x) + m \in Nat
        BY ChunksAdjacent
      <4> QED  BY <4>1 DEF Chunk
    <3>2. i \in 1..chunkSize(v) /\ j \in 1..chunkSize(w)
      BY <1>1, <2>1, <2>2, <3>1
    <3> QED  BY <3>2 DEF Chunk
  <2>4. chunkStart(v) + i = chunkStart(w) + j
    BY <2>1, <2>3
  <2>5. v = w
    <3>1. ASSUME NEW x \in Worker, NEW y \in Worker, NEW m \in 1..chunkSize(x), NEW n \in 1..chunkSize(y),
                 x < y
          PROVE  chunkStart(x) + m # chunkStart(y) + n
      <4>1. chunkStart(x) + chunkSize(x) <= chunkStart(y)
        BY <3>1, ChunksApart
      <4>2. /\ chunkStart(x) \in Nat /\ chunkSize(x) \in Nat
            /\ chunkStart(y) \in Nat /\ chunkSize(y) \in Nat
        BY ChunksAdjacent
      <4> QED  BY <4>1, <4>2
    <3> HIDE DEF v, w
    <3>2. ~(v < w) /\ ~(w < v)
      BY <1>1, <2>3, <2>4, <3>1
    <3> QED  BY <1>1, <3>2, Sizes DEF Worker
  <2> QED  BY <1>1, <2>2, <2>3, <2>4, <2>5
<1> QED  BY <1>2, <1>3

(* What is recorded at a worker depends on the objects it works on alone.  *)
LEMMA RecordedFrame ==
  ASSUME NEW r, NEW q, NEW call \in ACall \cup {NoCall}, NEW w \in Worker, NEW list,
         \A j \in 1..Len(addressed(call, w)) : q[addressed(call, w)[j]] = r[addressed(call, w)[j]],
         Recorded(r, call, w, list)
  PROVE  Recorded(q, call, w, list)
BY DEF Recorded, Ended, HasRun

(* An entry is one of the calls made so far.                               *)
LEMMA Entries ==
  ASSUME NEW r \in Records, NEW id, InOrder(r, id), NEW o \in Object, NEW i \in DOMAIN r[o]
  PROVE  r[o][i] \in Entry /\ r[o][i].call \in Nat /\ r[o][i].call <= id
<1>1. r[o] \in Seq(Entry)
  BY DEF Records
<1>2. r[o][i] \in Entry
  BY <1>1
<1> QED  BY <1>2 DEF Entry, InOrder

(* An object has one outcome of one call.                                  *)
LEMMA OneOutcome ==
  ASSUME NEW r \in Records, NEW id \in Nat, InOrder(r, id), NEW o \in Object, NEW c \in Nat,
         NEW ok, NEW ko, Ended(r, o, c, ok), Ended(r, o, c, ko)
  PROVE  ok = ko
<1>1. PICK i \in DOMAIN r[o] : r[o][i] = [call |-> c, ok |-> ok]
  BY DEF Ended
<1>2. PICK j \in DOMAIN r[o] : r[o][j] = [call |-> c, ok |-> ko]
  BY DEF Ended
<1>3. r[o][i].call = c /\ r[o][j].call = c
  BY <1>1, <1>2
<1>4. i \in Nat /\ j \in Nat
  BY DEF Records
<1>5. ~(c < c)
  OBVIOUS
<1>6. ~(i < j) /\ ~(j < i)
  BY <1>3, <1>5 DEF InOrder
<1>7. i = j
  BY <1>4, <1>6
<1>8. [call |-> c, ok |-> ok] = [call |-> c, ok |-> ko]
  BY <1>1, <1>2, <1>7
<1>9. [call |-> c, ok |-> ok].ok = ok /\ [call |-> c, ok |-> ko].ok = ko
  OBVIOUS
<1> QED  BY <1>8, <1>9

(* An object that ended a call has run it.                                 *)
LEMMA EndedRan ==
  ASSUME NEW r, NEW o, NEW id, NEW ok, Ended(r, o, id, ok)
  PROVE  HasRun(r, o, id)
BY DEF Ended, HasRun

(* One object runs a call that it has not run yet.                         *)
LEMMA OneMore ==
  ASSUME NEW r \in Records, NEW call \in ACall \cup {NoCall}, InOrder(r, call.id),
         NEW o \in Object, ~HasRun(r, o, call.id), NEW e \in Entry, e.call = call.id,
         NEW q \in Records, q[o] = Append(r[o], e), \A p \in Object : p # o => q[p] = r[p]
  PROVE  InOrder(q, call.id) /\ \E i \in DOMAIN q[o] : q[o][i] = e
<1>0. call.id \in Nat
  BY DEF ACall, Calls, NoCall
<1> DEFINE s == r[o]
           n == Len(s)
<1>1. s \in Seq(Entry) /\ n \in Nat
  BY <1>0 DEF Records
<1>2. q[o] = Append(s, e) /\ \A p \in Object : p # o => q[p] = r[p]
  OBVIOUS
<1> HIDE DEF s
<1>3. /\ Len(q[o]) = n + 1 /\ DOMAIN q[o] = 1..(n + 1) /\ q[o][n + 1] = e
      /\ \A i \in 1..n : q[o][i] = s[i] /\ s[i] \in Entry
  BY <1>1, <1>2
<1>4. DOMAIN s = 1..n
  BY <1>1
<1>5. \A i \in 1..n : s[i].call < call.id
  <2> SUFFICES ASSUME NEW i \in 1..n PROVE s[i].call < call.id
    OBVIOUS
  <2>1. s[i].call <= call.id /\ s[i].call # call.id
    BY <1>4 DEF InOrder, HasRun, s
  <2>2. s[i].call \in Nat
    BY <1>3 DEF Entry
  <2> QED  BY <1>0, <2>1, <2>2
<1>6. ASSUME NEW i \in DOMAIN q[o], NEW j \in DOMAIN q[o], i < j PROVE q[o][i].call < q[o][j].call
  <2>1. i \in 1..n
    BY <1>1, <1>3, <1>6
  <2>2. CASE j = n + 1
    BY <1>1, <1>3, <1>5, <2>1, <2>2
  <2>3. CASE j # n + 1
    <3>1. j \in 1..n
      BY <1>1, <1>3, <2>3
    <3>2. s[i].call < s[j].call
      BY <1>4, <1>6, <2>1, <3>1 DEF InOrder, s
    <3> QED  BY <1>3, <2>1, <3>1, <3>2
  <2> QED  BY <2>2, <2>3
<1>7. ASSUME NEW i \in DOMAIN q[o] PROVE q[o][i].call <= call.id
  <2>1. CASE i = n + 1
    BY <1>0, <1>1, <1>3, <2>1
  <2>2. CASE i # n + 1
    <3>1. i \in 1..n
      BY <1>1, <1>3, <2>2
    <3> QED  BY <1>3, <1>4, <3>1 DEF InOrder, s
  <2> QED  BY <2>1, <2>2
<1>8. InOrder(q, call.id)
  BY <1>2, <1>6, <1>7 DEF InOrder
<1>9. \E i \in DOMAIN q[o] : q[o][i] = e
  <2>1. n + 1 \in DOMAIN q[o]
    BY <1>1, <1>3
  <2> QED  BY <1>3, <2>1
<1> QED  BY <1>8, <1>9

-----------------------------------------------------------------------------
(* Nothing has been run at the start.                                      *)
LEMMA InitRan == Init => RanInv
<1> SUFFICES ASSUME Init PROVE RanInv
  OBVIOUS
<1>1. Len(targets(NoCall)) = 0 /\ NoCall.id = 0
  BY DEF targets, NoCall
<1>2. ran \in Records /\ \A o \in Object : DOMAIN ran[o] = {}
  BY DEF Init, Records
<1>3. InOrder(ran, current.id) /\ OnlyAddressed(ran, current)
  BY <1>2 DEF InOrder, OnlyAddressed, HasRun
<1>4. Recording /\ Stopping
  BY <1>1 DEF Init, Recording, Stopping, Polling
<1>5. Raising
  BY DEF Init, Raising, reraise, Failures
<1> QED  BY <1>2, <1>3, <1>4, <1>5 DEF RanInv

(* The master's steps run nothing.                                         *)
LEMMA MasterRan == IInv /\ RanInv /\ Master => RanInv'
<1> SUFFICES ASSUME IInv, RanInv, Master PROVE RanInv'
  OBVIOUS
<1>t. /\ Typed /\ Rounds /\ Collecting
      /\ current \in ACall \cup {NoCall} /\ turn \in Nat \ {0} /\ answers \in Seq(Seq(AResult))
      /\ commands \in [Worker -> Seq(ACall)] /\ replies \in [Worker -> Seq(Seq(AResult))]
  BY DEF IInv, Typed, MasterTyped
<1>T. /\ targets(current) \in Seq(Worker) /\ Len(targets(current)) \in Nat
      /\ \A j, k \in 1..Len(targets(current)) : targets(current)[j] = targets(current)[k] => j = k
  BY <1>t, Targets
<1>r. /\ ran \in Records /\ InOrder(ran, current.id) /\ OnlyAddressed(ran, current)
      /\ Recording /\ Stopping /\ Raising
  BY DEF RanInv
<1>i. current.id \in Nat
  BY <1>t DEF ACall, Calls, NoCall
<1>1. CASE Call
  <2>1. PICK call \in Calls(current.id + 1) : current' = call
    BY <1>1 DEF Call
  <2>2. call.id = current.id + 1 /\ call \in ACall
    BY <1>i, <2>1 DEF Calls, ACall
  <2>3. /\ phase' = "sending" /\ turn' = 1 /\ commands' = commands /\ replies' = replies
        /\ worker' = worker /\ ran' = ran
    BY <1>1 DEF Call
  <2>4. \A o \in Object : ~HasRun(ran, o, call.id)
    <3> SUFFICES ASSUME NEW o \in Object, NEW i \in DOMAIN ran[o] PROVE ran[o][i].call # call.id
      BY DEF HasRun
    <3>1. ran[o][i].call <= current.id /\ ran[o][i].call \in Nat
      BY <1>r, Entries
    <3> QED  BY <1>i, <2>2, <3>1
  <2>5. InOrder(ran, call.id)
    <3> SUFFICES ASSUME NEW o \in Object, NEW i \in DOMAIN ran[o] PROVE ran[o][i].call <= call.id
      BY <1>r DEF InOrder
    <3>1. ran[o][i].call <= current.id /\ ran[o][i].call \in Nat
      BY <1>r, Entries
    <3> QED  BY <1>i, <2>2, <3>1
  <2>6. \A w \in Worker : Quiet(w)
    BY <1>1, <1>t DEF Call, Rounds, Waiting
  <2>7. targets(call) \in Seq(Worker)
    BY <2>2, Targets
  <2>8. ASSUME NEW k \in 1..Len(targets(call)) PROVE Recorded(ran, call, targets(call)[k], <<>>)
    <3>1. targets(call)[k] \in Worker
      BY <2>7
    <3>2. addressed(call, targets(call)[k]) \in Seq(Object)
      BY <2>2, <3>1, Addressed
    <3> QED  BY <2>4, <3>2 DEF Recorded
  <2>9. Recording'
    <3> SUFFICES ASSUME NEW k \in 1..Len(targets(call)) PROVE RecordedAt(k, targets(call)[k])'
      BY <2>1 DEF Recording
    <3>1. Quiet(targets(call)[k])
      BY <2>6, <2>7
    <3> QED  BY <2>1, <2>3, <2>8, <3>1 DEF RecordedAt, Quiet, Received
  <2>10. Stopping' /\ Raising'
    BY <1>r, <2>3 DEF Stopping, Raising
  <2> QED  BY <1>r, <2>1, <2>3, <2>4, <2>5, <2>9, <2>10 DEF RanInv, OnlyAddressed
<1>2. CASE Send
  <2>0. PICK w0 \in Worker : w0 = target
    BY <1>2, <1>t, <1>T DEF Send, target
  <2>1. /\ w0 = targets(current)[turn] /\ turn \in 1..Len(targets(current)) /\ current' = current
        /\ phase = "sending" /\ phase' = phase /\ turn' = turn + 1 /\ answers' = answers
        /\ replies' = replies /\ worker' = worker /\ ran' = ran /\ raised' = raised
        /\ commands' = [commands EXCEPT ![w0] = Append(@, current)]
    BY <1>2, <1>t, <1>T, <2>0 DEF Send, Due, target
  <2>2. ASSUME NEW k \in 1..Len(targets(current)) PROVE RecordedAt(k, targets(current)[k])'
    <3> DEFINE w == targets(current)[k]
    <3>1. RecordedAt(k, w) /\ w \in Worker
      BY <1>T, <1>r, <2>1 DEF Recording
    <3>2. Unsent(k)' \/ commands'[w] # <<>> => Unsent(k) \/ commands[w] # <<>>
      <4>1. CASE k = turn
        BY <2>1, <4>1 DEF Unsent
      <4>2. CASE k # turn
        <5>1. w # w0
          BY <1>T, <2>1, <4>2
        <5>2. commands'[w] = commands[w]
          BY <1>t, <2>1, <3>1, <5>1
        <5>3. turn \in Nat /\ turn' = turn + 1 /\ phase' = phase /\ k \in Nat
          BY <1>t, <2>1
        <5>4. k >= turn + 1 => k >= turn
          BY <5>3
        <5>5. Unsent(k)' => Unsent(k)
          BY <5>3, <5>4 DEF Unsent
        <5> QED  BY <5>2, <5>5
      <4> QED  BY <4>1, <4>2
    <3>3. Received(k)' => Received(k)
      BY <2>1 DEF Received
    <3> QED  BY <2>1, <3>1, <3>2, <3>3 DEF RecordedAt
  <2>3. Recording' /\ Stopping' /\ Raising'
    BY <1>r, <2>1, <2>2 DEF Recording, Stopping, Raising
  <2> QED  BY <1>r, <2>1, <2>3 DEF RanInv
<1>3. CASE Sent
  <2>1. /\ phase = "sending" /\ turn = Len(targets(current)) + 1 /\ turn' = 1 /\ current' = current
        /\ answers' = answers /\ raised' = raised /\ commands' = commands /\ replies' = replies
        /\ worker' = worker /\ ran' = ran
        /\ phase' = IF current.cmd = "stop" THEN "stopped" ELSE "receiving"
    BY <1>3, <1>t, <1>T DEF Sent, Due, Collecting
  <2>2. Recording'
    <3> SUFFICES ASSUME NEW k \in 1..Len(targets(current)) PROVE RecordedAt(k, targets(current)[k])'
      BY <2>1 DEF Recording
    <3>1. RecordedAt(k, targets(current)[k])
      BY <1>r, <2>1 DEF Recording
    <3>2. ~Unsent(k)' /\ ~Received(k)'
      BY <1>T, <2>1 DEF Unsent, Received
    <3> QED  BY <2>1, <3>1, <3>2 DEF RecordedAt
  <2>3. Stopping'
    <3>1. current.cmd = "stop" => \A w \in Worker : worker[w].state # "running" /\ commands[w] \in {<<>>, <<current>>}
      <4> SUFFICES ASSUME current.cmd = "stop", NEW w \in Worker
                   PROVE  worker[w].state # "running" /\ commands[w] \in {<<>>, <<current>>}
        OBVIOUS
      <4>1. Asked(w)
        BY <1>t, <2>1 DEF Rounds
      <4>2. ~Busy(w)
        BY <1>r DEF Stopping, Busy
      <4> QED  BY <4>1, <4>2 DEF Asked, Told, Done, Quiet
    <3> QED  BY <1>r, <2>1, <3>1 DEF Stopping
  <2>4. Raising'
    BY <2>1 DEF Raising
  <2> QED  BY <1>r, <2>1, <2>2, <2>3, <2>4 DEF RanInv
<1>4. CASE Receive
  <2>0. PICK w0 \in Worker : w0 = target
    BY <1>4, <1>t, <1>T DEF Receive, target
  <2>1. /\ turn \in 1..Len(targets(current)) /\ phase = "receiving" /\ replies[w0] # <<>>
        /\ w0 = targets(current)[turn] /\ phase' = "receiving" /\ current' = current
        /\ turn' = turn + 1 /\ commands' = commands /\ worker' = worker /\ ran' = ran /\ raised' = raised
        /\ answers' = Append(answers, Head(replies[w0]))
        /\ replies' = [replies EXCEPT ![w0] = Tail(@)]
    BY <1>4, <1>t, <1>T, <2>0 DEF Receive, Due, target
  <2>2. PICK list \in Seq(AResult) : replies[w0] = <<list>>
    BY <1>t, <2>0, <2>1 DEF Rounds, Asked, Told, Busy, Done, Quiet
  <2>3. Len(answers) = turn - 1
    BY <1>t, <2>1 DEF Collecting, Answered
  <2>4. answers'[turn] = list /\ \A k \in 1..(turn - 1) : answers'[k] = answers[k]
    BY <1>t, <2>1, <2>2, <2>3
  <2>5. replies'[w0] = <<>> /\ \A w \in Worker \ {w0} : replies'[w] = replies[w]
    BY <1>t, <2>1, <2>2
  <2>6. ASSUME NEW k \in 1..Len(targets(current)) PROVE RecordedAt(k, targets(current)[k])'
    <3> DEFINE w == targets(current)[k]
    <3>1. RecordedAt(k, w) /\ w \in Worker
      BY <1>T, <1>r, <2>1 DEF Recording
    <3>2. CASE k = turn
      <4>0. w = w0 /\ <<list>>[1] = list
        BY <2>1, <3>2
      <4>1. w = w0 /\ replies[w][1] = list
        BY <2>2, <4>0
      <4>2. Final(ran, current, w, list)
        BY <2>1, <3>1, <4>1 DEF RecordedAt
      <4> QED  BY <2>1, <2>4, <2>5, <3>1, <3>2, <4>1, <4>2 DEF RecordedAt, Unsent
    <3>3. CASE k # turn
      <4>1. w # w0
        BY <1>T, <2>1, <3>3
      <4>2. replies'[w] = replies[w]
        BY <2>5, <3>1, <4>1
      <4>a. k \in Nat /\ 1 <= k
        BY <1>T
      <4>b. Received(k)' => k < turn + 1
        BY <2>1 DEF Received
      <4>c. k < turn + 1 => k \in 1..(turn - 1) /\ k < turn
        BY <1>t, <3>3, <4>a
      <4>3. Received(k)' => Received(k) /\ answers'[k] = answers[k]
        BY <2>1, <2>4, <4>b, <4>c DEF Received
      <4> QED  BY <2>1, <3>1, <4>2, <4>3 DEF RecordedAt, Unsent
    <3> QED  BY <3>2, <3>3
  <2>7. Recording' /\ Stopping' /\ Raising'
    BY <1>r, <2>1, <2>6 DEF Recording, Stopping, Raising
  <2> QED  BY <1>r, <2>1, <2>7 DEF RanInv
<1>5. CASE Return
  <2>1. /\ phase = "receiving" /\ turn = Len(targets(current)) + 1 /\ phase' = "idle" /\ turn' = turn
        /\ current' = current /\ answers' = answers /\ raised' = reraise(answers)
        /\ commands' = commands /\ replies' = replies /\ worker' = worker /\ ran' = ran
    BY <1>5, <1>t, <1>T DEF Return, Due, Collected, Collecting
  <2>2. ASSUME NEW k \in 1..Len(targets(current)) PROVE RecordedAt(k, targets(current)[k])'
    <3>1. RecordedAt(k, targets(current)[k])
      BY <1>r, <2>1 DEF Recording
    <3>2. Received(k) /\ ~Unsent(k)'
      BY <1>T, <2>1 DEF Received, Unsent
    <3> QED  BY <2>1, <3>1, <3>2 DEF RecordedAt
  <2>3. Recording' /\ Stopping' /\ Raising'
    BY <1>r, <2>1, <2>2 DEF Recording, Stopping, Raising, reraise, Failures
  <2> QED  BY <1>r, <2>1, <2>3 DEF RanInv
<1> QED  BY <1>1, <1>2, <1>3, <1>4, <1>5 DEF Master

(* The workers' steps, in the modes that capture exceptions.               *)
LEMMA WorkersRan ==
  ASSUME IInv, RanInv, Mode # "sequential", NEW w \in Worker, Working(w)
  PROVE  RanInv'
<1>t. /\ Typed /\ Rounds /\ Collecting
      /\ current \in ACall \cup {NoCall}
      /\ commands \in [Worker -> Seq(ACall)] /\ replies \in [Worker -> Seq(Seq(AResult))]
      /\ worker \in [Worker -> WState] /\ turn \in Nat
  BY DEF IInv, Typed, MasterTyped
<1>T. /\ targets(current) \in Seq(Worker) /\ Len(targets(current)) \in Nat
      /\ \A j, k \in 1..Len(targets(current)) : targets(current)[j] = targets(current)[k] => j = k
  BY <1>t, Targets
<1>r. /\ ran \in Records /\ InOrder(ran, current.id) /\ OnlyAddressed(ran, current)
      /\ Recording /\ Stopping /\ Raising
  BY DEF RanInv
<1>i. current.id \in Nat
  BY <1>t DEF ACall, Calls, NoCall
<1>d. worker[w].done \in Seq(AResult) /\ worker[w].call \in ACall \cup {NoCall}
  BY <1>t DEF WState
(* A call is under way at a worker with a command or at work.              *)
<1>w. ASSUME phase # "stopped", commands[w] # <<>> \/ worker[w].state = "running"
      PROVE  \E k \in 1..Len(targets(current)) : targets(current)[k] = w /\ ~Received(k)
  <2>1. Waiting(w)
    BY <1>t, <1>w DEF Rounds, Quiet
  <2> QED  BY <1>t, <1>T, <2>1 DEF Waiting, Received
(* If no object runs anything, it is enough to look at the worker.         *)
<1>0. ASSUME UNCHANGED <<masterVars, ran>>,
             \A v \in Worker \ {w} : /\ commands'[v] = commands[v] /\ replies'[v] = replies[v]
                                      /\ worker'[v] = worker[v],
             \A k \in 1..Len(targets(current)) :
                phase # "stopped" /\ targets(current)[k] = w /\ RecordedAt(k, w) => RecordedAt(k, w)',
             worker'[w].state = "running" => worker'[w].call.cmd # "stop",
             phase = "stopped" => worker'[w].state # "running" /\ commands'[w] \in {<<>>, <<current>>}
      PROVE  RanInv'
  <2>1. Recording'
    <3> SUFFICES ASSUME phase # "stopped", NEW k \in 1..Len(targets(current))
                 PROVE  RecordedAt(k, targets(current)[k])'
      BY <1>0 DEF Recording, masterVars
    <3>1. RecordedAt(k, targets(current)[k]) /\ targets(current)[k] \in Worker
      BY <1>T, <1>r DEF Recording
    <3>2. CASE targets(current)[k] = w
      <4>1. RecordedAt(k, w)'
        BY <1>0, <3>1, <3>2
      <4>2. current' = current
        BY <1>0 DEF masterVars
      <4> QED  BY <3>2, <4>1, <4>2
    <3>3. CASE targets(current)[k] # w
      BY <1>0, <3>1, <3>3 DEF RecordedAt, Unsent, Received, masterVars
    <3> QED  BY <3>2, <3>3
  <2>2. Stopping' /\ Raising'
    BY <1>0, <1>r DEF Stopping, Raising, masterVars
  <2> QED  BY <1>0, <1>r, <2>1, <2>2 DEF RanInv, masterVars
<1>1. CASE Poll(w)
  <2>1. /\ commands[w] # <<>> /\ commands' = [commands EXCEPT ![w] = Tail(@)]
        /\ UNCHANGED <<masterVars, replies, ran>>
        /\ worker' = [worker EXCEPT ![w] = polled(Head(commands[w]))]
        /\ worker[w].state = "polling"
    BY <1>1 DEF Poll
  <2>2. commands[w] = <<current>>
    <3>1. CASE phase = "stopped"
      BY <1>r, <2>1, <3>1 DEF Stopping
    <3>2. CASE phase # "stopped"
      BY <1>t, <2>1, <3>2 DEF Rounds, Asked, Told, Busy, Done, Quiet
    <3> QED  BY <3>1, <3>2
  <2>3. commands'[w] = <<>> /\ worker'[w] = polled(current) /\ replies' = replies
    BY <1>t, <2>1, <2>2
  <2>4. CASE current.cmd = "stop"
    <3>1. worker'[w].state # "running"
      BY <2>3, <2>4 DEF polled, Polling
    <3>2. ASSUME NEW k \in 1..Len(targets(current)), phase # "stopped", RecordedAt(k, w)
          PROVE  RecordedAt(k, w)'
      BY <2>1, <2>2, <2>3, <3>1, <3>2 DEF RecordedAt, Unsent, Received, masterVars
    <3> QED  BY <1>0, <1>t, <2>1, <2>3, <3>1, <3>2
  <2>5. CASE current.cmd # "stop"
    <3>1. worker'[w] = [state |-> "running", call |-> current, done |-> <<>>]
      BY <2>3, <2>5 DEF polled
    <3>2. worker'[w].call = current /\ worker'[w].done = <<>>
      BY <3>1
    <3>3. ASSUME NEW k \in 1..Len(targets(current)), phase # "stopped", RecordedAt(k, w)
          PROVE  RecordedAt(k, w)'
      <4>1. Recorded(ran, current, w, <<>>)
        BY <2>2, <3>3 DEF RecordedAt
      <4>2. EndsAtFailure(current, <<>>)
        BY DEF EndsAtFailure
      <4> QED  BY <2>1, <2>3, <3>2, <3>3, <4>1, <4>2 DEF RecordedAt, Unsent, Received, masterVars
    <3>4. phase # "stopped"
      BY <1>r, <2>5 DEF Stopping
    <3> QED  BY <1>0, <1>t, <2>1, <2>5, <3>2, <3>3, <3>4
  <2> QED  BY <2>4, <2>5
<1>2. CASE Reply(w)
  <2>1. /\ worker' = [worker EXCEPT ![w] = Polling] /\ UNCHANGED <<masterVars, commands, ran>>
        /\ replies' = [replies EXCEPT ![w] = Append(@, answer(w))]
        /\ worker[w].state = "running" /\ ~GoesOn(w)
    BY <1>2 DEF Reply, Finished
  <2>2. worker'[w].state # "running" /\ phase # "stopped" /\ Busy(w)
    BY <1>r, <1>t, <2>1 DEF Polling, Stopping, Rounds, Asked, Told, Busy, Done, Quiet
  <2>3. PICK d \in Seq(AResult) : d = worker[w].done
    BY <1>d
  <2>4. /\ worker[w].call = current /\ Results(current, w, d) /\ replies[w] = <<>> /\ commands[w] = <<>>
    BY <2>2, <2>3 DEF Busy
  <2>5. PICK k0 \in 1..Len(targets(current)) : targets(current)[k0] = w /\ ~Received(k0)
    BY <1>w, <2>1, <2>2
  <2>6. Recorded(ran, current, w, d) /\ EndsAtFailure(current, d)
    BY <1>r, <2>1, <2>2, <2>3, <2>5 DEF Recording, RecordedAt
  <2>7. PICK list : list = answer(w)
    OBVIOUS
  <2>b. addressed(current, w) \in Seq(Object)
    BY <1>t, Addressed
  <2>a. Len(addressed(current, w)) \in Nat /\ DOMAIN addressed(current, w) = 1..Len(addressed(current, w))
    BY <2>b
  <2>8. Final(ran, current, w, list)
    <3>1. CASE Broken(w)
      <4> DEFINE n == Len(d)
      <4>1. current.cmd = "set_seeds" /\ \E i \in 1..n : ~d[i].ok
        BY <2>3, <2>4, <3>1 DEF Broken
      <4>2. n \in 1..Len(addressed(current, w)) /\ ~d[n].ok /\ \A i \in 1..n : ~d[i].ok => i = n
        BY <2>3, <2>4, <2>6, <2>a, <4>1 DEF EndsAtFailure, Results
      <4>3. d[n].ok = FALSE /\ n \in 1..Len(d)
        <5>1. n \in 1..Len(d) /\ d[n] \in AResult
          BY <2>3, <4>2
        <5> QED  BY <4>2, <5>1 DEF AResult
      <4>r. d[n] = Result(addressed(current, w)[n], current, FALSE)
        BY <2>4, <4>3 DEF Results
      <4>4. PICK o \in Object : o = addressed(current, w)[n]
        BY <2>b, <4>2
      <4>5. list = <<d[n]>>
        <5>1. \A x \in Range(d) : ~x.ok => x = d[n]
          BY <4>2 DEF Range
        <5>2. d[n] \in Range(d)
          BY <2>3, <4>2 DEF Range
        <5>3. (CHOOSE x \in Range(d) : ~x.ok) = d[n]
          BY <4>2, <5>1, <5>2
        <5> QED  BY <2>3, <2>7, <3>1, <5>3 DEF answer
      <4>6. Ended(ran, o, current.id, FALSE)
        <5>1. Ended(ran, addressed(current, w)[n], current.id, d[n].ok)
          BY <2>6, <4>2, <4>3 DEF Recorded
        <5> QED  BY <4>3, <4>4, <5>1
      <4>7. ASSUME NEW p \in Range(addressed(current, w)), Ended(ran, p, current.id, FALSE)
            PROVE  p = o
        <5>1. PICK j \in 1..Len(addressed(current, w)) : p = addressed(current, w)[j]
          BY <2>a DEF Range
        <5>2. HasRun(ran, p, current.id)
          BY <4>7, EndedRan
        <5>p. p \in Object
          BY <2>b, <5>1
        <5>3. j <= n
          BY <2>6, <5>1, <5>2 DEF Recorded
        <5>4. Ended(ran, p, current.id, d[j].ok)
          BY <2>6, <5>1, <5>3 DEF Recorded
        <5>5. d[j].ok = FALSE
          BY <1>i, <1>r, <4>7, <5>p, <5>4, OneOutcome
        <5>6. j = n
          BY <4>2, <5>3, <5>5
        <5> QED  BY <4>4, <5>1, <5>6
      <4> HIDE DEF n
      <4> QED  BY <4>1, <4>r, <4>4, <4>5, <4>6, <4>7 DEF Final, OnlyFailure
    <3>2. CASE ~Broken(w)
      <4>1. list = d
        BY <2>3, <2>7, <3>2 DEF answer
      <4>2. Len(d) = Len(addressed(current, w))
        BY <2>1, <2>3, <2>4, <2>a, <3>2 DEF GoesOn, Results
      <4> QED  BY <2>4, <2>6, <4>1, <4>2 DEF Final, Whole
    <3> QED  BY <3>1, <3>2
  <2>9. replies'[w] = <<list>>
    BY <1>t, <2>1, <2>4, <2>7
  <2>10. replies'[w][1] = list
    BY <2>9
  <2>11. ASSUME NEW k \in 1..Len(targets(current)), phase # "stopped", RecordedAt(k, w)
         PROVE  RecordedAt(k, w)'
    BY <2>1, <2>2, <2>8, <2>10, <2>11 DEF RecordedAt, Unsent, Received, masterVars
  <2> QED  BY <1>0, <1>t, <2>1, <2>2, <2>11
<1>3. CASE ReplyFails(w)
  <2>1. /\ worker' = [worker EXCEPT ![w] = [Polling EXCEPT !.state = "dead"]]
        /\ UNCHANGED <<masterVars, commands, replies, ran>> /\ worker[w].state = "running"
    BY <1>3 DEF ReplyFails, Finished
  <2>2. worker'[w].state # "running" /\ phase # "stopped"
    BY <1>r, <1>t, <2>1 DEF Polling, Stopping
  <2>3. ASSUME NEW k \in 1..Len(targets(current)), phase # "stopped", RecordedAt(k, w)
        PROVE  RecordedAt(k, w)'
    BY <2>1, <2>2, <2>3 DEF RecordedAt, Unsent, Received, masterVars
  <2> QED  BY <1>0, <1>t, <2>1, <2>2, <2>3
<1>4. CASE Run(w)
  <2>1. PICK ok \in BOOLEAN : RunOn(w, ok)
    BY <1>4 DEF Run
  <2>2. PICK d \in Seq(AResult) : d = worker[w].done
    BY <1>d
  <2>3. worker[w].state = "running" /\ phase # "stopped"
    BY <1>4, <1>r DEF Run, GoesOn, Stopping
  <2>4. Busy(w)
    BY <1>t, <2>3 DEF Rounds, Asked, Told, Busy, Done, Quiet
  <2>5. /\ worker[w].call = current /\ Results(current, w, d) /\ replies[w] = <<>> /\ commands[w] = <<>>
    BY <2>2, <2>4 DEF Busy
  <2>6. PICK k0 \in 1..Len(targets(current)) : targets(current)[k0] = w /\ ~Received(k0)
    BY <1>w, <2>3
  <2>7. Recorded(ran, current, w, d) /\ EndsAtFailure(current, d)
    BY <1>r, <2>2, <2>3, <2>6 DEF Recording, RecordedAt
  <2>8. addressed(current, w) \in Seq(Object)
    BY <1>t, Addressed
  <2>9. /\ Len(addressed(current, w)) \in Nat
        /\ \A j \in 1..Len(addressed(current, w)) : addressed(current, w)[j] \in Object
    BY <2>8
  <2> DEFINE n == Len(d)
             o == addressed(current, w)[n + 1]
             res == Result(o, current, ok)
  <2>10. n \in Nat /\ n < Len(addressed(current, w)) /\ n + 1 \in 1..Len(addressed(current, w))
    BY <1>4, <2>2, <2>5, <2>9 DEF Run, GoesOn
  <2>11. o \in Object /\ nextObject(w) = o
    BY <2>2, <2>5, <2>9, <2>10 DEF nextObject
  <2>12. res \in AResult /\ res.ok = ok
    BY <1>t, <2>11, ResultTyped
  <2>13. /\ UNCHANGED <<masterVars, commands, replies>>
         /\ worker' = [worker EXCEPT ![w].done = Append(@, res)]
         /\ ran' = [ran EXCEPT ![o] = Append(@, [call |-> current.id, ok |-> ok])]
    BY <2>1, <2>5, <2>11 DEF RunOn, Passes
  <2>14. ~HasRun(ran, o, current.id)
    BY <2>7, <2>10 DEF Recorded
  <2>15. PICK q : q = ran'
    OBVIOUS
  <2> HIDE DEF res, o, n
  <2>16. /\ q \in Records /\ InOrder(q, current.id) /\ Ended(q, o, current.id, ok)
         /\ \A p \in Object : p # o => q[p] = ran[p]
    <3>1. PICK e \in Entry : e = [call |-> current.id, ok |-> ok]
      BY <1>i DEF Entry
    <3>2. e.call = current.id
      BY <3>1
    <3>3. q = [ran EXCEPT ![o] = Append(@, e)]
      BY <2>13, <2>15, <3>1
    <3>4. o \in Object
      BY <2>11
    <3>5. ran \in Records /\ InOrder(ran, current.id) /\ current \in ACall \cup {NoCall}
      BY <1>r, <1>t
    <3>6. Append(ran[o], e) \in Seq(Entry)
      BY <3>4, <3>5 DEF Records
    <3>7. q \in Records /\ q[o] = Append(ran[o], e) /\ \A p \in Object : p # o => q[p] = ran[p]
      BY <3>3, <3>4, <3>5, <3>6 DEF Records
    <3>8. InOrder(q, current.id) /\ \E i \in DOMAIN q[o] : q[o][i] = e
      BY <2>14, <3>2, <3>4, <3>5, <3>7, OneMore
    <3> QED  BY <3>1, <3>7, <3>8 DEF Ended
  <2>17. /\ worker'[w].done = Append(d, res) /\ worker'[w].state = "running" /\ worker'[w].call = current
         /\ \A v \in Worker \ {w} : worker'[v] = worker[v]
    BY <1>t, <2>2, <2>3, <2>5, <2>13 DEF WState
  <2>18. current' = current /\ phase' = phase /\ turn' = turn /\ answers' = answers /\ raised' = raised
         /\ commands' = commands /\ replies' = replies
    BY <2>13 DEF masterVars
  <2>19. PICK e : e = Append(d, res)
    OBVIOUS
  <2>20. Len(e) = n + 1 /\ e[n + 1] = res /\ \A j \in 1..n : e[j] = d[j]
    BY <2>12, <2>19, <2>2 DEF n
  <2>21. ASSUME NEW j \in 1..Len(addressed(current, w)), j # n + 1
         PROVE  addressed(current, w)[j] # o
    BY <2>6, <2>10, <2>21, <1>t, AddressedOnce DEF o
  <2>22. Recorded(q, current, w, e)
    <3> SUFFICES ASSUME NEW j \in 1..Len(addressed(current, w))
                 PROVE  IF j <= Len(e) THEN Ended(q, addressed(current, w)[j], current.id, e[j].ok)
                                       ELSE ~HasRun(q, addressed(current, w)[j], current.id)
      BY DEF Recorded
    <3>1. CASE j = n + 1
      BY <2>10, <2>12, <2>16, <2>20, <3>1 DEF o
    <3>2. CASE j # n + 1
      <4>1. q[addressed(current, w)[j]] = ran[addressed(current, w)[j]]
        BY <2>9, <2>16, <2>21, <3>2
      <4>2. IF j <= n THEN Ended(ran, addressed(current, w)[j], current.id, d[j].ok)
                      ELSE ~HasRun(ran, addressed(current, w)[j], current.id)
        BY <2>7 DEF Recorded, n
      <4>3. CASE j <= n
        <5>1. j <= Len(e) /\ e[j] = d[j]
          BY <2>9, <2>10, <2>20, <4>3
        <5> QED  BY <4>1, <4>2, <4>3, <5>1 DEF Ended
      <4>4. CASE ~(j <= n)
        <5>1. ~(j <= Len(e))
          BY <2>9, <2>10, <2>20, <3>2, <4>4
        <5> QED  BY <4>1, <4>2, <4>4, <5>1 DEF HasRun
      <4> QED  BY <4>3, <4>4
    <3> QED  BY <3>1, <3>2
  <2>23. EndsAtFailure(current, e)
    <3> SUFFICES ASSUME current.cmd = "set_seeds", NEW j \in 1..Len(e), ~e[j].ok PROVE j = Len(e)
      BY DEF EndsAtFailure
    <3>1. \A i \in DOMAIN d : d[i].ok
      BY <1>4, <2>2, <2>5 DEF Run, GoesOn, Broken
    <3>2. DOMAIN d = 1..n
      BY <2>2 DEF n
    <3> QED  BY <2>10, <2>20, <3>1, <3>2
  <2>24. ASSUME NEW k \in 1..Len(targets(current)) PROVE RecordedAt(k, targets(current)[k])'
    <3>1. RecordedAt(k, targets(current)[k]) /\ targets(current)[k] \in Worker
      BY <1>T, <1>r, <2>3 DEF Recording
    <3>2. CASE targets(current)[k] = w
      <4>1. k = k0
        BY <1>T, <2>6, <3>2
      <4>2. ~Received(k)' /\ ~Unsent(k)'
        <5>1. ~Unsent(k)
          <6>1. Waiting(w)
            BY <1>t, <2>3 DEF Rounds, Quiet
          <6>2. PICK l \in 1..Len(targets(current)) : targets(current)[l] = w /\ ~Unsent(l)
            BY <1>t, <1>T, <6>1 DEF Waiting, Unsent
          <6> QED  BY <1>T, <3>2, <6>2
        <5> QED  BY <2>6, <2>18, <4>1, <5>1 DEF Received, Unsent
      <4>3. Recorded(ran, current, w, worker[w].done)' /\ EndsAtFailure(current, worker[w].done)'
        <5>1. Recorded(ran', current', w, worker'[w].done) /\ EndsAtFailure(current', worker'[w].done)
          BY <2>15, <2>17, <2>18, <2>19, <2>22, <2>23
        <5> QED  BY <5>1
      <4> QED  BY <2>5, <2>18, <3>2, <4>2, <4>3 DEF RecordedAt
    <3>3. CASE targets(current)[k] # w
      <4> DEFINE v == targets(current)[k]
      <4>1. \A j \in 1..Len(addressed(current, v)) : addressed(current, v)[j] # o
        BY <1>t, <2>6, <2>10, <3>3, AddressedOnce DEF o
      <4>2. addressed(current, v) \in Seq(Object)
        BY <1>t, <3>1, Addressed
      <4>3. \A j \in 1..Len(addressed(current, v)) : q[addressed(current, v)[j]] = ran[addressed(current, v)[j]]
        BY <2>16, <4>1, <4>2
      <4> HIDE DEF v
      <4>4. \A l : Recorded(ran, current, v, l) => Recorded(q, current, v, l)
        BY <1>t, <3>1, <4>3, RecordedFrame DEF v
      <4>5. \A l : OnlyFailure(ran, current, v, l) => OnlyFailure(q, current, v, l)
        <5> SUFFICES ASSUME NEW l, OnlyFailure(ran, current, v, l) PROVE OnlyFailure(q, current, v, l)
          OBVIOUS
        <5>1. PICK x \in Object : /\ l = <<Result(x, current, FALSE)>> /\ Ended(ran, x, current.id, FALSE)
                                  /\ \A p \in Range(addressed(current, v)) : Ended(ran, p, current.id, FALSE) => p = x
          BY DEF OnlyFailure
        <5>2. x # o
          BY <2>14, <5>1, EndedRan
        <5>3. Ended(q, x, current.id, FALSE)
          BY <2>16, <5>1, <5>2 DEF Ended
        <5>4. \A p \in Range(addressed(current, v)) : q[p] = ran[p]
          BY <4>2, <4>3 DEF Range
        <5>5. \A p \in Range(addressed(current, v)) : Ended(q, p, current.id, FALSE) => p = x
          BY <5>1, <5>4 DEF Ended
        <5> QED  BY <5>1, <5>3, <5>5 DEF OnlyFailure
      <4>6. \A l : Final(ran, current, v, l) => Final(q, current, v, l)
        BY <4>4, <4>5 DEF Final
      <4>7. worker'[v] = worker[v]
        BY <2>17, <3>1, <3>3 DEF v
      <4>8. RecordedAt(k, v)'
        BY <2>15, <2>18, <3>1, <4>4, <4>6, <4>7 DEF RecordedAt, Unsent, Received, v
      <4> QED  BY <2>18, <4>8 DEF v
    <3> QED  BY <3>2, <3>3
  <2>25. OnlyAddressed(q, current)
    <3> SUFFICES ASSUME NEW p \in Object, HasRun(q, p, current.id)
                 PROVE  \E k \in 1..Len(targets(current)) : p \in Range(addressed(current, targets(current)[k]))
      BY DEF OnlyAddressed
    <3>1. CASE p = o
      <4>1. n + 1 \in DOMAIN addressed(current, w)
        BY <2>8, <2>10
      <4>2. p \in Range(addressed(current, w))
        BY <3>1, <4>1 DEF o, Range
      <4> QED  BY <2>6, <4>2
    <3>2. CASE p # o
      <4>1. HasRun(ran, p, current.id)
        BY <2>16, <3>2 DEF HasRun
      <4> QED  BY <1>r, <4>1 DEF OnlyAddressed
    <3> QED  BY <3>1, <3>2
  <2>26. Recording'
    BY <2>18, <2>24 DEF Recording
  <2>27. Stopping' /\ Raising'
    BY <1>r, <2>3, <2>5, <2>17, <2>18 DEF Stopping, Raising, reraise, Failures
  <2> QED  BY <2>15, <2>16, <2>18, <2>25, <2>26, <2>27 DEF RanInv
<1> QED  BY <1>1, <1>2, <1>3, <1>4 DEF Working

(* Every step keeps what is known of the runs.                             *)
LEMMA StepKeepsRan == Mode # "sequential" /\ IInv /\ RanInv /\ [Next]_vars => RanInv'
<1> SUFFICES ASSUME Mode # "sequential", IInv, RanInv, [Next]_vars PROVE RanInv'
  OBVIOUS
<1>1. CASE Master
  BY <1>1, MasterRan
<1>2. ASSUME NEW w \in Worker, Working(w) PROVE RanInv'
  BY <1>2, WorkersRan
<1>3. CASE Rest \/ UNCHANGED vars
  <2>1. /\ phase' = phase /\ current' = current /\ turn' = turn /\ answers' = answers /\ raised' = raised
        /\ commands' = commands /\ replies' = replies /\ worker' = worker /\ ran' = ran
    BY <1>3 DEF Rest, vars, masterVars
  <2>2. \A k, w : RecordedAt(k, w) => RecordedAt(k, w)'
    BY <2>1 DEF RecordedAt, Unsent, Received
  <2>3. Recording' /\ Stopping' /\ Raising'
    BY <2>1, <2>2 DEF RanInv, Recording, Stopping, Raising, reraise, Failures
  <2> QED  BY <2>1, <2>3 DEF RanInv
<1> QED  BY <1>1, <1>2, <1>3 DEF Next

(* When exceptions are captured, a command that fails on one object is     *)
(* still run on the others: when the call returns each object it addresses *)
(* has run it, no other has, and none has run one twice or out of order.   *)
THEOREM RunsEverywhere == ASSUME Mode # "sequential" PROVE Spec => []RanEverywhere
<1>1. IInv /\ RanInv => RanEverywhere
  <2> SUFFICES ASSUME IInv, RanInv PROVE RanEverywhere
    OBVIOUS
  <2>1. \A o \in Object : \A i, j \in DOMAIN ran[o] : i < j => ran[o][i].call < ran[o][j].call
    BY DEF RanInv, InOrder
  <2>2. ASSUME Idle, current.cmd \in {"map", "at"}
        PROVE  {o \in Object : Has(o, current.id)} =
                 (IF current.cmd = "at" THEN {current.to} ELSE Object)
    <3>0. phase = "idle" /\ current.cmd # "set_seeds" /\ current \in ACall
      BY <2>2 DEF Idle, IInv, Typed, MasterTyped, NoCall
    <3>1. targets(current) \in Seq(Worker) /\ Len(targets(current)) \in Nat
      BY <3>0, Targets
    <3>2. ASSUME NEW k \in 1..Len(targets(current)),
                 NEW j \in 1..Len(addressed(current, targets(current)[k]))
          PROVE  Has(addressed(current, targets(current)[k])[j], current.id)
      <4> DEFINE w == targets(current)[k]
      <4>1. Final(ran, current, w, answers[k])
        BY <3>0 DEF RanInv, Recording, RecordedAt, Received
      <4>2. Whole(current, w, answers[k]) /\ Recorded(ran, current, w, answers[k])
        BY <3>0, <4>1 DEF Final, OnlyFailure
      <4>3. w \in Worker
        BY <3>1
      <4>4. addressed(current, w) \in Seq(Object)
        BY <3>0, <4>3, Addressed
      <4>5. j <= Len(answers[k])
        BY <4>2, <4>4 DEF Whole
      <4>6. Ended(ran, addressed(current, w)[j], current.id, answers[k][j].ok)
        BY <4>2, <4>5 DEF Recorded
      <4> QED  BY <4>6 DEF Ended, Has
    <3>3. \A o \in Object : Has(o, current.id) =>
            \E k \in 1..Len(targets(current)) : o \in Range(addressed(current, targets(current)[k]))
      BY DEF RanInv, OnlyAddressed, Has, HasRun
    <3>4. CASE current.cmd = "at"
      <4>1. current.to \in Object
        BY <3>0, <3>4 DEF ACall, Calls
      <4>2. Len(targets(current)) = 1
        BY <3>4 DEF targets
      <4>3. \A w : addressed(current, w) = <<current.to>>
        BY <3>4 DEF addressed
      <4>4. Has(current.to, current.id)
        <5>1. 1 \in 1..Len(targets(current)) /\ 1 \in 1..Len(addressed(current, targets(current)[1]))
              /\ addressed(current, targets(current)[1])[1] = current.to
          BY <4>2, <4>3
        <5> QED  BY <3>2, <5>1
      <4>5. Range(<<current.to>>) = {current.to}
        BY DEF Range
      <4> QED  BY <3>3, <3>4, <4>1, <4>3, <4>4, <4>5
    <3>5. CASE current.cmd = "map"
      <4>1. targets(current) = [w \in Worker |-> w] /\ \A w : addressed(current, w) = Chunk(w)
        BY <3>5 DEF targets, addressed
      <4>2. Len(targets(current)) = chunkCount
        <5>1. DOMAIN targets(current) = 1..chunkCount
          BY <4>1 DEF Worker
        <5> QED  BY <3>1, <5>1, Sizes
      <4>3. ASSUME NEW o \in Object PROVE Has(o, current.id)
        <5>1. PICK w \in Worker : o \in chunkStart(w) + 1 .. chunkStart(w) + chunkSize(w)
          BY ChunksCover
        <5>2. w \in 1..Len(targets(current)) /\ targets(current)[w] = w
          BY <4>1, <4>2 DEF Worker
        <5>3. chunkStart(w) \in Nat /\ chunkSize(w) \in Nat
          BY ChunksAdjacent
        <5>4. PICK j \in 1..chunkSize(w) : o = chunkStart(w) + j
          <6>1. o - chunkStart(w) \in 1..chunkSize(w) /\ o = chunkStart(w) + (o - chunkStart(w))
            BY <5>1, <5>3
          <6> QED  BY <6>1
        <5>5. Chunk(w)[j] = o /\ addressed(current, w) = Chunk(w)
          BY <4>1, <5>4 DEF Chunk
        <5>6. j \in 1..Len(addressed(current, w))
          <6>1. addressed(current, w) \in Seq(Object)
            BY <3>0, Addressed
          <6>2. j \in DOMAIN addressed(current, w)
            BY <5>4, <5>5 DEF Chunk
          <6> QED  BY <6>1, <6>2
        <5> QED  BY <3>2, <5>2, <5>5, <5>6
      <4> QED  BY <3>5, <4>3
    <3> QED  BY <2>2, <3>4, <3>5
  <2> QED  BY <2>1, <2>2 DEF RanEverywhere
<1> QED  BY <1>1, InitIInv, InitRan, StepKeepsIInv, StepKeepsRan, PTL DEF Spec

(* A set of results of objects has one of the least object.                *)
LEMMA LeastResult ==
  ASSUME NEW S \in SUBSET AResult, S # {}
  PROVE  \E r \in S : \A q \in S : r.obj <= q.obj
<1> DEFINE L == OpToRel(<, Nat)
           T == {r.obj : r \in S}
<1>1. IsWellFoundedOn(L, Nat)
  BY NatLessThanWellFounded
<1>2. \A r \in S : r.obj \in Nat
  BY PoolAssumption DEF AResult, Object
<1>3. T \subseteq Nat /\ T # {}
  BY <1>2
<1>4. \A x \in Nat, y \in Nat : <<y, x>> \in L <=> y < x
  BY DEF OpToRel
<1> HIDE DEF L, T
<1>5. \E x \in T : \A y \in T : ~(<<y, x>> \in L)
  BY <1>1, <1>3, WFMin
<1>6. PICK x \in T : \A y \in T : ~(<<y, x>> \in L)
  BY <1>5
<1>7. \A y \in T : ~(y < x)
  BY <1>3, <1>4, <1>6, Zenon
<1>8. \A y \in T : x <= y
  BY <1>3, <1>7
<1>9. PICK r \in S : x = r.obj
  BY <1>6 DEF T
<1>10. \A q \in S : q.obj \in T
  BY DEF T
<1>11. \A q \in S : r.obj <= q.obj
  BY <1>8, <1>9, <1>10
<1> QED  BY <1>11

(* When exceptions are captured, a call raises exactly when its command    *)
(* failed on some object, and raises the failure of the first of them,     *)
(* wherever they are and whichever worker answered first.                  *)
THEOREM RaisesFirst == ASSUME Mode # "sequential" PROVE Spec => []FirstFailureRaised
<1>1. IInv /\ RanInv => FirstFailureRaised
  <2> SUFFICES ASSUME IInv, RanInv, Idle PROVE FirstFailureRaised
    BY DEF FirstFailureRaised
  <2>1. /\ current \in ACall \cup {NoCall} /\ answers \in Seq(Seq(AResult))
        /\ Len(answers) = Len(targets(current)) /\ phase = "idle" /\ raised = reraise(answers)
    BY DEF IInv, Typed, MasterTyped, Collecting, Answered, Idle, RanInv, Raising
  <2>2. targets(current) \in Seq(Worker) /\ Len(targets(current)) \in Nat
        /\ DOMAIN answers = 1..Len(targets(current))
    BY <2>1, Targets
  <2>3. current.id \in Nat /\ ran \in Records /\ InOrder(ran, current.id)
    BY <2>1 DEF ACall, Calls, NoCall, RanInv
  <2> DEFINE id == current.id
             F == Failures(answers)
  <2>4. \A o : o \in Failed(id) <=> o \in Object /\ Ended(ran, o, id, FALSE)
    BY DEF Failed, Ended
  <2>5. ASSUME NEW k \in 1..Len(targets(current))
        PROVE  /\ Final(ran, current, targets(current)[k], answers[k])
               /\ answers[k] \in Seq(AResult) /\ DOMAIN answers[k] = 1..Len(answers[k])
               /\ targets(current)[k] \in Worker
               /\ addressed(current, targets(current)[k]) \in Seq(Object)
    <3>1. targets(current)[k] \in Worker /\ answers[k] \in Seq(AResult)
      BY <2>1, <2>2
    <3>2. Final(ran, current, targets(current)[k], answers[k])
      BY <2>1 DEF RanInv, Recording, RecordedAt, Received
    <3> QED  BY <2>1, <3>1, <3>2, Addressed
  <2>6. F \subseteq AResult
    BY <2>2, <2>5 DEF Failures, Range
  (* What is raised happened.                                              *)
  <2>7. ASSUME NEW f \in F PROVE \E o \in Failed(id) : f = Result(o, current, FALSE)
    <3>1. PICK k \in 1..Len(targets(current)) : f \in Range(answers[k]) /\ ~f.ok
      BY <2>2 DEF Failures
    <3> DEFINE w == targets(current)[k]
    <3>2. PICK j \in 1..Len(answers[k]) : f = answers[k][j]
      BY <2>5, <3>1 DEF Range
    <3>3. f.ok = FALSE
      BY <2>6, <3>1 DEF AResult
    <3>4. CASE Whole(current, w, answers[k]) /\ Recorded(ran, current, w, answers[k])
      <4>1. PICK a \in Seq(Object) : a = addressed(current, w)
        BY <2>5
      <4>2. j \in 1..Len(a) /\ Len(answers[k]) = Len(a)
        BY <3>2, <3>4, <4>1 DEF Whole
      <4>3. f = Result(a[j], current, FALSE)
        BY <3>2, <3>3, <3>4, <4>1 DEF Whole, Results
      <4>4. Ended(ran, a[j], id, FALSE)
        <5>1. j <= Len(answers[k]) /\ j \in 1..Len(addressed(current, w))
          BY <4>1, <4>2
        <5>2. Ended(ran, addressed(current, w)[j], id, answers[k][j].ok)
          BY <3>4, <5>1 DEF Recorded
        <5>3. answers[k][j].ok = FALSE
          BY <3>2, <3>3
        <5> QED  BY <4>1, <5>2, <5>3
      <4>5. a[j] \in Object
        BY <4>1, <4>2
      <4> QED  BY <2>4, <4>3, <4>4, <4>5
    <3>5. CASE OnlyFailure(ran, current, w, answers[k])
      <4>1. PICK o \in Object : answers[k] = <<Result(o, current, FALSE)>> /\ Ended(ran, o, id, FALSE)
        BY <3>5 DEF OnlyFailure
      <4>2. f = Result(o, current, FALSE)
        <5>1. \A x : Len(<<x>>) = 1 /\ <<x>>[1] = x
          OBVIOUS
        <5>2. j = 1
          BY <3>2, <4>1, <5>1
        <5> QED  BY <3>2, <4>1, <5>1, <5>2
      <4> QED  BY <2>4, <4>1, <4>2
    <3> QED  BY <2>5, <3>4, <3>5 DEF Final
  (* What happened is among the answers.                                   *)
  <2>8. ASSUME NEW p \in Failed(id) PROVE \E f \in F : f.obj = p
    <3>1. p \in Object /\ Ended(ran, p, id, FALSE) /\ HasRun(ran, p, id)
      BY <2>4, EndedRan
    <3>2. PICK k \in 1..Len(targets(current)) : p \in Range(addressed(current, targets(current)[k]))
      BY <3>1 DEF RanInv, OnlyAddressed
    <3> DEFINE w == targets(current)[k]
    <3>3. \A f : f \in Range(answers[k]) /\ ~f.ok => f \in F
      BY <2>2 DEF Failures
    <3>4. CASE Whole(current, w, answers[k]) /\ Recorded(ran, current, w, answers[k])
      <4>1. PICK a \in Seq(Object) : a = addressed(current, w)
        BY <2>5
      <4>2. PICK j \in 1..Len(a) : p = a[j]
        BY <3>2, <4>1 DEF Range
      <4>3. j \in 1..Len(answers[k])
        BY <3>4, <4>1, <4>2 DEF Whole
      <4>4. Ended(ran, p, id, answers[k][j].ok)
        BY <3>4, <4>1, <4>2, <4>3 DEF Recorded
      <4>5. answers[k][j].ok = FALSE
        BY <2>3, <3>1, <4>4, OneOutcome
      <4>6. answers[k][j] = Result(p, current, FALSE)
        BY <3>4, <4>1, <4>2, <4>3, <4>5 DEF Whole, Results
      <4>7. answers[k][j] \in F
        BY <2>5, <3>3, <4>3, <4>5 DEF Range
      <4> QED  BY <4>6, <4>7 DEF Result
    <3>5. CASE OnlyFailure(ran, current, w, answers[k])
      <4>1. PICK o \in Object : /\ answers[k] = <<Result(o, current, FALSE)>>
                                /\ \A x \in Range(addressed(current, w)) : Ended(ran, x, id, FALSE) => x = o
        BY <3>5 DEF OnlyFailure
      <4>2. p = o
        BY <3>1, <3>2, <4>1
      <4>3. Result(p, current, FALSE) \in Range(answers[k])
        <5>1. \A x : x \in Range(<<x>>)
          <6> SUFFICES ASSUME NEW x PROVE \E i \in DOMAIN <<x>> : <<x>>[i] = x
            BY DEF Range
          <6>1. 1 \in DOMAIN <<x>> /\ <<x>>[1] = x
            OBVIOUS
          <6> QED  BY <6>1
        <5> QED  BY <4>1, <4>2, <5>1
      <4>4. Result(p, current, FALSE).obj = p /\ ~Result(p, current, FALSE).ok
        BY DEF Result
      <4> QED  BY <3>3, <4>3, <4>4
    <3> QED  BY <2>5, <3>4, <3>5 DEF Final
  <2>9. CASE F = {}
    BY <2>1, <2>8, <2>9 DEF FirstFailureRaised, reraise
  <2>10. CASE F # {}
    <3>1. \E r \in F : \A q \in F : r.obj <= q.obj
      BY <2>6, <2>10, LeastResult
    <3>2. PICK r \in F : raised = <<r>> /\ \A q \in F : r.obj <= q.obj
      BY <2>1, <2>10, <3>1 DEF reraise
    <3>3. PICK o \in Failed(id) : r = Result(o, current, FALSE)
      BY <2>7
    <3>4. r.obj = o
      BY <3>3 DEF Result
    <3>5. \A p \in Failed(id) : o <= p
      BY <2>8, <3>2, <3>4
    <3> QED  BY <3>2, <3>3, <3>5 DEF FirstFailureRaised
  <2> QED  BY <2>9, <2>10
<1> QED  BY <1>1, InitIInv, InitRan, StepKeepsIInv, StepKeepsRan, PTL DEF Spec
=============================================================================
