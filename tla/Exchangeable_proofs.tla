------------------------ MODULE Exchangeable_proofs ------------------------
(***************************************************************************)
(* What Exchangeable keeps of its applications, proved.                    *)
(*                                                                         *)
(* IInv: the statistics are those of the applications attached (KeepsAll); *)
(* in a move the applications before a place are attached and the others   *)
(* are not (Positions), and what has to be put back is in place or in the  *)
(* database (Recorded, Untouched, PutBack, Extracted).  It holds for any   *)
(* blocks.                                                                 *)
(*                                                                         *)
(* JInv: there are as many hidden states as requests (Depth), and those of *)
(* before a move are in place or in the latent database (Latents).  It     *)
(* holds for blocks that are Unmixed: with others an assertion of the hmm  *)
(* fails, see StateOfIndex.                                                *)
(***************************************************************************)
EXTENDS Exchangeable, FiniteSetTheorems, SequenceTheorems, WellFoundedInduction, TLAPS

(* How many of the applications A have the value v.                        *)
Count(A, w, v)   == Cardinality({a \in A : w[a] = v})
ValuesOf(A, w)   == {w[a] : a \in A}
Counts(A, w, S)  == [v \in S |-> Count(A, w, v)]
At(A, k, i)      == {a \in A : k[a] = i}
AppliedIn(k, w)  == {a \in App : k[a] # None /\ w[a] # None}
RequestedIn(k)   == {k[a] : a \in App} \ {None}

(* Of B, which has a besides the applications A, u are the values that w   *)
(* are of A.                                                               *)
Joins(A, a, w, u) == IsFiniteSet(A) /\ a \notin A /\ \A b \in A : u[b] = w[b]
JoinsIn(A, a, w, u, S) == Joins(A, a, w, u) /\ u[a] \in S
Plus(f, t, n) == [f EXCEPT ![t] = @ + n]

(* The statistics x are those of the applications A, by their indices k    *)
(* and values w.                                                           *)
Seats(x, A, w)    ==
  /\ x = [nextIndex |-> x.nextIndex, numCustomers |-> x.numCustomers, numTables |-> x.numTables,
          tableCounts |-> Counts(A, w, ValuesOf(A, w))]
  /\ x.nextIndex \in Nat /\ \A a \in A : w[a] \in Nat /\ w[a] < x.nextIndex
Tallies(x, A, w)  == x = [counts |-> Counts(A, w, Out), total |-> Cardinality(A)]
Outputs(A, k, w)  == [i \in ValuesOf(A, k) |-> Counts(At(A, k, i), w, Out)]
Emits(x, A, k, w) == x = [xs |-> x.xs, os |-> Outputs(A, k, w)]

Keeps(p, x, A, k, w) ==
  /\ p \in {"crp", "dir_cat", "hmm"}
  /\ p = "crp"     => Seats(x, A, w)
  /\ p = "dir_cat" => Tallies(x, A, w)
  /\ p = "hmm"     => Emits(x, A, k, w)
KeepsAll(p, x, k, w) == Keeps(p, x, AppliedIn(k, w), k, w)

Draws(p)    == IF p = "crp" THEN Nat ELSE Out
Typed(p, k, w) == k \in [App -> Nat \cup {None}] /\ w \in [App -> Draws(p) \cup {None}]
Evaluated(k, w, a) == k[a] = None <=> w[a] = None

(* The applications of a move before the place n are attached, the others  *)
(* are not: their indices k or values w are missing.                       *)
Pending    == IF phase \in {"detach", "undo"} THEN next + 1 ELSE next
Moved      == {order[j] : j \in 1..Len(order)}
OutFrom(n) == {order[j] : j \in n..Len(order)}

Ordered ==
  /\ order \in Seq(App) /\ Len(order) > 0
  /\ next \in 1..(IF phase = "propose" THEN Len(order) + 1 ELSE Len(order))
  /\ \A i, j \in 1..Len(order) : order[i] = order[j] => i = j
  /\ \A a \in Moved : block[a] \in {"output", "operand", "both"}
Stands(n, k, w, a) ==
  IF a \in OutFrom(n) THEN (Redrawn(a) <=> w[a] = None) /\ (Rerequested(a) <=> k[a] = None) ELSE Evaluated(k, w, a)
Positions(n, k, w) ==
  (\A a \in App : Stands(n, k, w, a)) /\ \A j \in 1..n - 1 : k[order[j]] # None

(* What a move has to put back is still there, or in the database d.       *)
Recorded(x) ==
  /\ Typed(procedure, before.index, before.value)
  /\ KeepsAll(procedure, before.aux, before.index, before.value)
  /\ \A a \in App : Evaluated(before.index, before.value, a)
  /\ \A a \in Moved : before.index[a] # None
  /\ procedure = "crp" => x.nextIndex >= before.aux.nextIndex
Untouched(k, w) ==
  \A a \in App : /\ k[a] = before.index[a] \/ (a \in Moved /\ Rerequested(a))
                 /\ w[a] = before.value[a] \/ (a \in Moved /\ Redrawn(a))
PutBack(n, k, w) ==
  \A j \in 1..n - 1 : k[order[j]] = before.index[order[j]] /\ w[order[j]] = before.value[order[j]]
Extracted(d, n) ==
  \A a \in OutFrom(n) : /\ Rerequested(a) => d.index[a] = before.index[a]
                        /\ Redrawn(a) => d.value[a] = before.value[a]

Phases == {"idle", "detach", "propose", "undo", "restore"}
Moving ==
  /\ Ordered /\ Recorded(aux) /\ Positions(Pending, index, value) /\ Untouched(index, value)
  /\ phase \in {"detach", "restore"} => PutBack(Pending, index, value)
  /\ Extracted(db, IF phase = "detach" THEN Pending ELSE 1)
AllEvaluated(k, w) == \A a \in App : Evaluated(k, w, a)
Extractable == DOMAIN db.index = App /\ DOMAIN db.value = App
MoveInv == IF phase = "idle" THEN AllEvaluated(index, value) ELSE Moving

IInv == /\ phase \in Phases /\ Typed(procedure, index, value) /\ KeepsAll(procedure, aux, index, value)
        /\ Extractable
        /\ StateOfIndex => MoveInv

(* No block has applications that keep their request and others that do    *)
(* not.                                                                    *)
Unmixed == \A b \in Blocks : (\A a \in DOMAIN b : b[a] = "output") \/ (\A a \in DOMAIN b : b[a] # "output")

(* The hidden states go as far as the requests R do.  What the move does   *)
(* not touch needs n of them, which it leaves alone; those beyond that     *)
(* were there before the move are in the latent database d.                *)
IsDepth(n, R) == n \in Nat /\ (\A r \in R : r < n) /\ (n > 0 => n - 1 \in R)
Depth(x, k)   == x.xs \in Seq(Hidden) /\ IsDepth(Len(x.xs), RequestedIn(k))
Stays         == {before.index[a] : a \in App \ Moved} \ {None}
Agrees(n, x)  == n <= Len(x.xs) /\ \A j \in 1..n : j <= Len(before.aux.xs) /\ x.xs[j] = before.aux.xs[j]
Saves(n, d)   == \A j \in n..Len(before.aux.xs) - 1 : j \in DOMAIN d /\ d[j] = before.aux.xs[j + 1]
Bottom(n, x, d) == IsDepth(n, Stays) /\ Agrees(n, x) /\ Saves(n, d)
Latents(ph, x, d) ==
  /\ Depth(before.aux, before.index)
  /\ \/ (\A a \in Moved : ~Rerequested(a)) /\ x.xs = before.aux.xs
     \/ /\ \A a \in Moved : Rerequested(a)
        /\ ph \in {"detach", "restore"} => Agrees(Len(x.xs), x)
        /\ IF ph = "detach" THEN Saves(Len(x.xs), d) ELSE \E n \in Nat : Bottom(n, x, d)
JInv == IInv /\ StateOfIndex
        /\ (HasLatents => Depth(aux, index) /\ (phase # "idle" => Latents(phase, aux, db.latents)))
-----------------------------------------------------------------------------
(* Counting the applications that have a value.                            *)
LEMMA CountJoin ==
  ASSUME NEW A, NEW a, NEW w, NEW u, Joins(A, a, w, u), NEW v
  PROVE  /\ Count(A, w, v) \in Nat
         /\ Count(A \cup {a}, u, v) = IF u[a] = v THEN Count(A, w, v) + 1 ELSE Count(A, w, v)
<1>1. PICK S : S = {b \in A : w[b] = v}
  OBVIOUS
<1>2. IsFiniteSet(S) /\ a \notin S
  BY <1>1, FS_Subset DEF Joins
<1>3. {b \in A \cup {a} : u[b] = v} = IF u[a] = v THEN S \cup {a} ELSE S
  BY <1>1 DEF Joins
<1>4. Cardinality(S) \in Nat /\ Cardinality(S \cup {a}) = Cardinality(S) + 1
  BY <1>2, FS_AddElement, FS_CardinalityType
<1> QED
  BY <1>1, <1>3, <1>4 DEF Count

LEMMA CountZero ==
  ASSUME NEW A, IsFiniteSet(A), NEW w, NEW v
  PROVE  Count(A, w, v) \in Nat /\ (Count(A, w, v) = 0 <=> v \notin {w[a] : a \in A})
<1>1. PICK S : S = {b \in A : w[b] = v}
  OBVIOUS
<1>2. IsFiniteSet(S)
  BY <1>1, FS_Subset
<1>3. Cardinality(S) \in Nat /\ (Cardinality(S) = 0 <=> S = {})
  BY <1>2, FS_EmptySet, FS_CardinalityType
<1> QED
  BY <1>1, <1>3 DEF Count

LEMMA CountsJoin ==
  ASSUME NEW A, NEW a, NEW w, NEW u, NEW S, JoinsIn(A, a, w, u, S)
  PROVE  /\ DOMAIN Counts(A, w, S) = S
         /\ Plus(Counts(A, w, S), u[a], 1) = Counts(A \cup {a}, u, S)
         /\ Plus(Counts(A \cup {a}, u, S), u[a], -1) = Counts(A, w, S)
<1>1. ASSUME NEW t
      PROVE  /\ Count(A, w, t) \in Nat
             /\ Count(A \cup {a}, u, t) = IF u[a] = t THEN Count(A, w, t) + 1 ELSE Count(A, w, t)
  BY CountJoin DEF JoinsIn
<1>2. PICK f, g : f = Counts(A, w, S) /\ g = Counts(A \cup {a}, u, S)
  OBVIOUS
<1>3. /\ f = [t \in S |-> f[t]] /\ g = [t \in S |-> g[t]]
      /\ \A t \in S : f[t] \in Nat /\ g[t] = IF u[a] = t THEN f[t] + 1 ELSE f[t]
  BY <1>1, <1>2 DEF Counts
<1>4. Plus(f, u[a], 1) = g
  BY <1>3 DEF Plus, JoinsIn
<1>5. Plus(g, u[a], -1) = f
  BY <1>3 DEF Plus, JoinsIn
<1> QED
  BY <1>2, <1>3, <1>4, <1>5

LEMMA CountNone ==
  ASSUME NEW A, NEW a, NEW w, NEW u, Joins(A, a, w, u), NEW t
  PROVE  Count(A, w, t) \in Nat /\ (Count(A, w, t) = 0 <=> t \notin ValuesOf(A, w))
BY CountZero DEF ValuesOf, Joins

LEMMA ValuesJoin ==
  ASSUME NEW A, NEW a, NEW w, NEW u, Joins(A, a, w, u)
  PROVE  ValuesOf(A \cup {a}, u) = ValuesOf(A, w) \cup {u[a]}
BY DEF ValuesOf, Joins
-----------------------------------------------------------------------------
(* An application comes or goes, and the statistics with it.               *)
LEMMA MaxOfTwo ==
  ASSUME NEW m \in Int, NEW n \in Int
  PROVE  Max({m, n}) \in {m, n} /\ Max({m, n}) >= m /\ Max({m, n}) >= n
<1> DEFINE S == {m, n}
<1>1. \E x \in S : \A y \in S : x >= y
  <2>1. CASE m >= n
    BY <2>1
  <2>2. CASE n >= m
    BY <2>2
  <2> QED
    BY <2>1, <2>2
<1>2. Max(S) = CHOOSE x \in S : \A y \in S : x >= y
  BY DEF Max
<1>3. PICK k : k = Max(S)
  OBVIOUS
<1> HIDE DEF S
<1>4. k \in S /\ \A y \in S : k >= y
  BY <1>1, <1>2, <1>3
<1> QED
  BY <1>3, <1>4 DEF S

LEMMA SeatsJoin ==
  ASSUME NEW A, NEW a, NEW w, NEW u, Joins(A, a, w, u),
         NEW x, Seats(x, A, w), u[a] \in Nat
  PROVE  Seats(Sit(x, u[a]), A \cup {a}, u) /\ Sit(x, u[a]).nextIndex >= x.nextIndex
<1>1. PICK T, B, old, new : /\ T = ValuesOf(A, w) /\ B = A \cup {a}
                            /\ old = Counts(A, w, T) /\ new = Counts(B, u, ValuesOf(B, u))
  OBVIOUS
<1>2. PICK n, c, k : x = [nextIndex |-> n, numCustomers |-> c, numTables |-> k, tableCounts |-> old]
  BY <1>1 DEF Seats
<1>3. n \in Nat /\ (\A b \in A : w[b] \in Nat /\ w[b] < n) /\ x.nextIndex = n
  BY <1>2 DEF Seats
<1>4. ValuesOf(B, u) = T \cup {u[a]} /\ DOMAIN old = T
  BY <1>1, ValuesJoin DEF Counts
<1>5. ASSUME NEW y, NEW m \in Nat, m >= n, \A b \in B : u[b] < m, NEW d, NEW e,
             y = [nextIndex |-> m, numCustomers |-> d, numTables |-> e, tableCounts |-> new]
      PROVE  Seats(y, B, u) /\ y.nextIndex >= x.nextIndex
  <2>1. \A b \in B : u[b] \in Nat
    BY <1>1, <1>3 DEF Joins
  <2> QED
    BY <1>1, <1>3, <1>5, <2>1 DEF Seats
<1>6. CASE u[a] \in T
  <2>1. Sit(x, u[a]) = [nextIndex |-> n, numCustomers |-> c + 1, numTables |-> k, tableCounts |-> Plus(old, u[a], 1)]
    BY <1>2, <1>4, <1>6 DEF Sit, Plus
  <2>2. Plus(old, u[a], 1) = new
    <3>1. Plus(Counts(A, w, T), u[a], 1) = Counts(A \cup {a}, u, T)
      BY <1>6, CountsJoin DEF JoinsIn
    <3>2. ValuesOf(B, u) = T
      BY <1>4, <1>6
    <3> QED
      BY <1>1, <3>1, <3>2
  <2>3. \A b \in B : u[b] < n
    BY <1>1, <1>3, <1>6 DEF ValuesOf, Joins
  <2> QED
    BY <1>1, <1>3, <1>5, <2>1, <2>2, <2>3
<1>7. CASE u[a] \notin T
  <2>1. PICK m : m = Max({n, u[a] + 1})
    OBVIOUS
  <2>2. m \in Nat /\ m >= n /\ u[a] < m
    <3>1. n \in Int /\ u[a] + 1 \in Int
      BY <1>3
    <3>2. Max({n, u[a] + 1}) \in {n, u[a] + 1} /\ Max({n, u[a] + 1}) >= n /\ Max({n, u[a] + 1}) >= u[a] + 1
      BY <3>1, MaxOfTwo
    <3> QED
      BY <1>3, <2>1, <3>2
  <2>3. Sit(x, u[a]) = [nextIndex |-> m, numCustomers |-> c + 1, numTables |-> k + 1,
                        tableCounts |-> [t \in T \cup {u[a]} |-> IF t = u[a] THEN 1 ELSE old[t]]]
    BY <1>2, <1>4, <1>7, <2>1 DEF Sit, NextIndex
  <2>4. [t \in T \cup {u[a]} |-> IF t = u[a] THEN 1 ELSE old[t]] = new
    <3>1. PICK V : V = T \cup {u[a]}
      OBVIOUS
    <3>2. JoinsIn(A, a, w, u, V) /\ u[a] \notin ValuesOf(A, w)
      BY <1>1, <1>7, <3>1 DEF JoinsIn
    <3>3. ASSUME NEW t \in V PROVE Counts(A \cup {a}, u, V)[t] = IF t = u[a] THEN 1 ELSE Count(A, w, t)
      <4>1. Count(A \cup {a}, u, t) = IF u[a] = t THEN Count(A, w, t) + 1 ELSE Count(A, w, t)
        BY CountJoin
      <4>2. Count(A, w, u[a]) = 0
        BY <3>2, CountNone
      <4> QED
        BY <4>1, <4>2 DEF Counts
    <3>4. new = [t \in V |-> new[t]] /\ \A t \in T : old[t] = Count(A, w, t)
      BY <1>1, <1>4, <3>1 DEF Counts
    <3>5. new = Counts(A \cup {a}, u, V)
      BY <1>1, <1>4, <3>1
    <3>6. \A t \in V : new[t] = IF t = u[a] THEN 1 ELSE old[t]
      BY <1>7, <3>1, <3>3, <3>4, <3>5
    <3> QED
      BY <3>1, <3>4, <3>6
  <2>5. \A b \in B : u[b] < m
    BY <1>1, <1>3, <2>2 DEF Joins
  <2> QED
    BY <1>1, <1>5, <2>2, <2>3, <2>4, <2>5
<1> QED
  BY <1>6, <1>7

LEMMA SeatsLeave ==
  ASSUME NEW A, NEW a, NEW w, NEW u, Joins(A, a, w, u),
         NEW x, Seats(x, A \cup {a}, u)
  PROVE  Seats(Leave(x, u[a]), A, w) /\ Leave(x, u[a]).nextIndex = x.nextIndex
<1>1. PICK B, T, R, old, new : /\ B = A \cup {a} /\ T = ValuesOf(B, u) /\ R = ValuesOf(A, w)
                               /\ old = Counts(B, u, T) /\ new = Counts(A, w, R)
  OBVIOUS
<1>2. PICK n, c, k : x = [nextIndex |-> n, numCustomers |-> c, numTables |-> k, tableCounts |-> old]
  BY <1>1 DEF Seats
<1>3. n \in Nat /\ (\A b \in A : w[b] \in Nat /\ w[b] < n) /\ x.nextIndex = n
  BY <1>2 DEF Seats, Joins
<1>4. T = R \cup {u[a]} /\ old = [t \in T |-> old[t]] /\ new = [t \in R |-> new[t]] /\ \A t \in R : new[t] = Count(A, w, t)
  BY <1>1, ValuesJoin DEF Counts
<1>5. PICK d, e : Leave(x, u[a]) =
        [nextIndex |-> n, numCustomers |-> d, numTables |-> e,
         tableCounts |-> IF old[u[a]] > 1 THEN Plus(old, u[a], -1) ELSE [t \in T \ {u[a]} |-> old[t]]]
  BY <1>2, <1>4 DEF Leave, Plus
<1>6. (IF old[u[a]] > 1 THEN Plus(old, u[a], -1) ELSE [t \in T \ {u[a]} |-> old[t]]) = new
  <2>1. CASE u[a] \in R
    <3>1. T = R
      BY <1>4, <2>1
    <3>2. Plus(Counts(A \cup {a}, u, R), u[a], -1) = Counts(A, w, R)
      BY <2>1, CountsJoin DEF JoinsIn
    <3>3. Count(A, w, u[a]) \in Nat /\ Count(A, w, u[a]) # 0
      BY <1>1, <2>1, CountNone
    <3>4. Plus(old, u[a], -1) = new
      BY <1>1, <3>1, <3>2
    <3>5. old[u[a]] > 1
      <4>1. Count(A \cup {a}, u, u[a]) = Count(A, w, u[a]) + 1
        BY CountJoin
      <4>2. old[u[a]] = Count(A \cup {a}, u, u[a])
        BY <1>1, <1>4 DEF Counts
      <4> QED
        BY <3>3, <4>1, <4>2
    <3> QED
      BY <3>4, <3>5
  <2>2. CASE u[a] \notin R
    <3>0. JoinsIn(A, a, w, u, T) /\ u[a] \notin ValuesOf(A, w)
      BY <1>1, <1>4, <2>2 DEF JoinsIn
    <3>1. ASSUME NEW t \in T PROVE Counts(A \cup {a}, u, T)[t] = IF t = u[a] THEN 1 ELSE Count(A, w, t)
      <4>1. Count(A \cup {a}, u, t) = IF u[a] = t THEN Count(A, w, t) + 1 ELSE Count(A, w, t)
        BY CountJoin
      <4>2. Count(A, w, u[a]) = 0
        BY <3>0, CountNone
      <4> QED
        BY <4>1, <4>2 DEF Counts
    <3>2. old[u[a]] = 1 /\ T \ {u[a]} = R /\ \A t \in R : old[t] = new[t]
      BY <1>1, <1>4, <2>2, <3>1
    <3>3. [t \in T \ {u[a]} |-> old[t]] = new
      BY <1>4, <3>2
    <3> QED
      BY <3>2, <3>3
  <2> QED
    BY <2>1, <2>2
<1>7. PICK y : y = [nextIndex |-> n, numCustomers |-> d, numTables |-> e, tableCounts |-> new]
  OBVIOUS
<1>8. Seats(y, A, w) /\ y.nextIndex = x.nextIndex
  BY <1>1, <1>3, <1>7 DEF Seats
<1> QED
  BY <1>5, <1>6, <1>7, <1>8

LEMMA TallyIs ==
  ASSUME NEW x, NEW c, NEW n, x = [counts |-> c, total |-> n], NEW v \in DOMAIN c, NEW k
  PROVE  Tally(x, v, k) = [counts |-> Plus(c, v, k), total |-> n + k]
<1>1. x.counts = c /\ x.total = n
  OBVIOUS
<1>2. Tally(x, v, k) = [x EXCEPT !.counts = [x.counts EXCEPT ![v] = x.counts[v] + k], !.total = x.total + k]
  BY DEF Tally
<1> QED
  BY <1>1, <1>2 DEF Plus

LEMMA TalliesJoin ==
  ASSUME NEW A, NEW a, NEW w, NEW u, Joins(A, a, w, u),
         u[a] \in Out, NEW x
  PROVE  /\ Tallies(x, A, w) => Tallies(Tally(x, u[a], 1), A \cup {a}, u)
         /\ Tallies(x, A \cup {a}, u) => Tallies(Tally(x, u[a], -1), A, w)
<1>1. PICK B, old, new, n : /\ B = A \cup {a} /\ n = Cardinality(A)
                            /\ old = Counts(A, w, Out) /\ new = Counts(B, u, Out)
  OBVIOUS
<1>2. n \in Nat /\ Cardinality(B) = n + 1
  BY <1>1, FS_AddElement, FS_CardinalityType DEF Joins
<1>3. /\ Plus(old, u[a], 1) = new /\ Plus(new, u[a], -1) = old
      /\ u[a] \in DOMAIN old /\ u[a] \in DOMAIN new
  <2>1. Plus(old, u[a], 1) = new /\ Plus(new, u[a], -1) = old
    BY <1>1, CountsJoin DEF JoinsIn
  <2> QED
    BY <1>1, <2>1 DEF Counts
<1>4. ASSUME x = [counts |-> old, total |-> n] PROVE Tally(x, u[a], 1) = [counts |-> new, total |-> n + 1]
  BY <1>3, <1>4, TallyIs
<1>5. ASSUME x = [counts |-> new, total |-> n + 1] PROVE Tally(x, u[a], -1) = [counts |-> old, total |-> n]
  <2>1. n + 1 + -1 = n
    BY <1>2
  <2> QED
    BY <1>3, <1>5, <2>1, TallyIs
<1> QED
  BY <1>1, <1>2, <1>4, <1>5 DEF Tallies
-----------------------------------------------------------------------------
(* The outputs of each index.                                              *)
LEMMA CountsAgree ==
  ASSUME NEW A, NEW w, NEW u, \A b \in A : u[b] = w[b]
  PROVE  Counts(A, u, Out) = Counts(A, w, Out)
<1>1. ASSUME NEW v PROVE {b \in A : u[b] = v} = {b \in A : w[b] = v}
  OBVIOUS
<1> QED
  BY <1>1 DEF Counts, Count

LEMMA CountsNot ==
  ASSUME NEW A, IsFiniteSet(A), NEW w, \A b \in A : w[b] \in Out
  PROVE  Counts(A, w, Out) = NotSeen <=> A = {}
<1>1. ASSUME NEW v PROVE Count(A, w, v) \in Nat /\ (Count(A, w, v) = 0 <=> v \notin ValuesOf(A, w))
  BY CountZero DEF ValuesOf
<1>2. CASE A = {}
  <2>1. \A v \in Out : Count(A, w, v) = 0
    BY <1>1, <1>2 DEF ValuesOf
  <2> QED
    BY <1>2, <2>1 DEF Counts, NotSeen
<1>3. CASE A # {}
  <2>1. PICK b \in A : TRUE
    BY <1>3
  <2>2. w[b] \in Out /\ w[b] \in ValuesOf(A, w)
    BY DEF ValuesOf
  <2>3. Counts(A, w, Out)[w[b]] # 0 /\ NotSeen[w[b]] = 0
    BY <1>1, <2>2 DEF Counts, NotSeen
  <2> QED
    BY <1>3, <2>3
<1> QED
  BY <1>2, <1>3

(* The parts of the outputs of A and of B, which has a besides.            *)
JoinsBoth(A, B, a, k, l, w, u) ==
  Joins(A, a, k, l) /\ JoinsIn(A, a, w, u, Out) /\ B = A \cup {a} /\ \A b \in A : w[b] \in Out

LEMMA OtherOutputs ==
  ASSUME NEW A, NEW B, NEW a, NEW k, NEW l, NEW w, NEW u, JoinsBoth(A, B, a, k, l, w, u), NEW j, j # l[a]
  PROVE  Counts(At(B, l, j), u, Out) = Counts(At(A, k, j), w, Out)
<1>1. At(B, l, j) = At(A, k, j)
  BY DEF At, JoinsBoth, Joins
<1>2. \A b \in At(A, k, j) : u[b] = w[b]
  BY DEF At, JoinsBoth, JoinsIn, Joins
<1>3. Counts(At(A, k, j), u, Out) = Counts(At(A, k, j), w, Out)
  BY <1>2, CountsAgree
<1> QED
  BY <1>1, <1>3

LEMMA OwnOutputs ==
  ASSUME NEW A, NEW B, NEW a, NEW k, NEW l, NEW w, NEW u, JoinsBoth(A, B, a, k, l, w, u),
         NEW C, C = Counts(At(A, k, l[a]), w, Out), NEW D, D = Counts(At(B, l, l[a]), u, Out)
  PROVE  D = Plus(C, u[a], 1) /\ C = Plus(D, u[a], -1) /\ (C = NotSeen <=> l[a] \notin ValuesOf(A, k))
<1>1. PICK S : S = At(A, k, l[a])
  OBVIOUS
<1>2. At(B, l, l[a]) = S \cup {a}
  BY <1>1 DEF At, JoinsBoth, Joins
<1>3. S \subseteq A /\ IsFiniteSet(S) /\ \A b \in S : w[b] \in Out
  <2>1. S \subseteq A /\ IsFiniteSet(A) /\ \A b \in A : w[b] \in Out
    BY <1>1 DEF At, Joins, JoinsBoth
  <2> QED
    BY <2>1, FS_Subset
<1>4. JoinsIn(S, a, w, u, Out)
  BY <1>3 DEF JoinsBoth, JoinsIn, Joins
<1>5. Plus(Counts(S, w, Out), u[a], 1) = Counts(S \cup {a}, u, Out)
  BY <1>4, CountsJoin
<1>6. Plus(Counts(S \cup {a}, u, Out), u[a], -1) = Counts(S, w, Out)
  BY <1>4, CountsJoin
<1>7. Counts(S, w, Out) = NotSeen <=> S = {}
  BY <1>3, CountsNot
<1>8. S = {} <=> l[a] \notin ValuesOf(A, k)
  BY <1>1 DEF At, ValuesOf
<1> QED
  BY <1>1, <1>2, <1>5, <1>6, <1>7, <1>8

LEMMA EmitsJoin ==
  ASSUME NEW A, NEW B, NEW a, NEW k, NEW l, NEW w, NEW u, JoinsBoth(A, B, a, k, l, w, u), NEW x
  PROVE  /\ Emits(x, A, k, w) => Emits(Observe(x, l[a], u[a]), B, l, u) /\ Observe(x, l[a], u[a]).xs = x.xs
         /\ Emits(x, B, l, u) => Emits(Unobserve(x, l[a], u[a]), A, k, w) /\ Unobserve(x, l[a], u[a]).xs = x.xs
<1>1. PICK K, L, i, v : K = ValuesOf(A, k) /\ L = ValuesOf(B, l) /\ i = l[a] /\ v = u[a]
  OBVIOUS
<1>2. PICK f, g : f = Outputs(A, k, w) /\ g = Outputs(B, l, u)
  OBVIOUS
<1>3. L = K \cup {i} /\ i \in L
  BY <1>1, ValuesJoin DEF JoinsBoth
<1>4. PICK C, D : C = Counts(At(A, k, i), w, Out) /\ D = Counts(At(B, l, i), u, Out)
  OBVIOUS
<1>5. D = Plus(C, v, 1) /\ C = Plus(D, v, -1) /\ (C = NotSeen <=> i \notin K)
  BY <1>1, <1>4, OwnOutputs
<1>8. /\ DOMAIN f = K /\ f = [j \in K |-> f[j]] /\ DOMAIN g = L /\ g = [j \in L |-> g[j]]
      /\ (i \in K => f[i] = C) /\ g[i] = D
  BY <1>1, <1>2, <1>3, <1>4 DEF Outputs
<1>9. ASSUME NEW j \in K, j # i PROVE g[j] = f[j]
  <2>1. Counts(At(B, l, j), u, Out) = Counts(At(A, k, j), w, Out)
    BY <1>1, <1>9, OtherOutputs
  <2>2. f[j] = Counts(At(A, k, j), w, Out)
    BY <1>1, <1>2, <1>9 DEF Outputs
  <2>3. j \in L /\ g[j] = Counts(At(B, l, j), u, Out)
    BY <1>1, <1>2, <1>3, <1>9 DEF Outputs
  <2> QED
    BY <2>1, <2>2, <2>3
<1>10. ASSUME NEW y, x = [xs |-> y, os |-> f] PROVE Observe(x, i, v) = [xs |-> y, os |-> g]
  <2>1. Observe(x, i, v) = [xs |-> y, os |-> [j \in K \cup {i} |-> IF j = i THEN Plus(IF i \in K THEN f[i] ELSE NotSeen, v, 1) ELSE f[j]]]
    <3>1. x.os = f /\ DOMAIN x.os = K
      BY <1>8, <1>10
    <3>2. ASSUME NEW j \in K \cup {i}
          PROVE  (LET seen == IF j \in DOMAIN x.os THEN x.os[j] ELSE NotSeen
                  IN IF j = i THEN [seen EXCEPT ![v] = @ + 1] ELSE seen)
                 = IF j = i THEN Plus(IF i \in K THEN f[i] ELSE NotSeen, v, 1) ELSE f[j]
      BY <3>1 DEF Plus
    <3>3. Observe(x, i, v) = [x EXCEPT !.os = [j \in K \cup {i} |-> LET seen == IF j \in DOMAIN x.os THEN x.os[j] ELSE NotSeen
                                               IN IF j = i THEN [seen EXCEPT ![v] = @ + 1] ELSE seen]]
      BY <3>1 DEF Observe
    <3>4. Observe(x, i, v) = [x EXCEPT !.os = [j \in K \cup {i} |-> IF j = i THEN Plus(IF i \in K THEN f[i] ELSE NotSeen, v, 1) ELSE f[j]]]
      BY <3>2, <3>3
    <3> QED
      BY <1>10, <3>4
  <2>2. \A j \in K \cup {i} : g[j] = IF j = i THEN Plus(IF i \in K THEN f[i] ELSE NotSeen, v, 1) ELSE f[j]
    BY <1>5, <1>8, <1>9
  <2>3. [j \in K \cup {i} |-> IF j = i THEN Plus(IF i \in K THEN f[i] ELSE NotSeen, v, 1) ELSE f[j]] = g
    BY <1>3, <1>8, <2>2
  <2> QED
    BY <2>1, <2>3
<1>11. ASSUME NEW y, x = [xs |-> y, os |-> g] PROVE Unobserve(x, i, v) = [xs |-> y, os |-> f]
  <2>1. PICK R : R = IF i \notin K THEN L \ {i} ELSE L
    OBVIOUS
  <2>2. Unobserve(x, i, v) = [xs |-> y, os |-> [j \in IF C = NotSeen THEN L \ {i} ELSE L |-> IF j = i THEN C ELSE g[j]]]
    <3>1. [x.os[i] EXCEPT ![v] = @ - 1] = C
      <4>1. x.os[i] = D
        BY <1>8, <1>11
      <4>2. Plus(D, v, -1) = [D EXCEPT ![v] = @ - 1]
        BY DEF Plus
      <4> QED
        BY <1>5, <4>1, <4>2
    <3>2. Unobserve(x, i, v) = [x EXCEPT !.os = [j \in IF C = NotSeen THEN DOMAIN @ \ {i} ELSE DOMAIN @ |-> IF j = i THEN C ELSE @[j]]]
      BY <3>1 DEF Unobserve
    <3>3. x.os = g /\ DOMAIN x.os = L
      BY <1>8, <1>11
    <3> QED
      BY <1>11, <3>2, <3>3
  <2>3. (IF C = NotSeen THEN L \ {i} ELSE L) = K
    BY <1>3, <1>5
  <2>4. \A j \in K : f[j] = IF j = i THEN C ELSE g[j]
    BY <1>8, <1>9
  <2>5. [j \in K |-> IF j = i THEN C ELSE g[j]] = f
    BY <1>8, <2>4
  <2> QED
    BY <2>2, <2>3, <2>5
<1>12. ASSUME Emits(x, A, k, w) PROVE Emits(Observe(x, i, v), B, l, u) /\ Observe(x, i, v).xs = x.xs
  <2>1. x = [xs |-> x.xs, os |-> f]
    BY <1>2, <1>12 DEF Emits
  <2>2. Observe(x, i, v) = [xs |-> x.xs, os |-> g]
    BY <1>10, <2>1
  <2> QED
    BY <1>2, <2>2 DEF Emits
<1>13. ASSUME Emits(x, B, l, u) PROVE Emits(Unobserve(x, i, v), A, k, w) /\ Unobserve(x, i, v).xs = x.xs
  <2>1. x = [xs |-> x.xs, os |-> g]
    BY <1>2, <1>13 DEF Emits
  <2>2. Unobserve(x, i, v) = [xs |-> x.xs, os |-> f]
    BY <1>11, <2>1
  <2> QED
    BY <1>2, <2>2 DEF Emits
<1> QED
  BY <1>1, <1>12, <1>13
-----------------------------------------------------------------------------
(* Whatever the procedure.                                                 *)
Grows(x, y) == (procedure = "crp" => y.nextIndex >= x.nextIndex) /\ (procedure = "hmm" => y.xs = x.xs)

LEMMA KeepsJoin ==
  ASSUME NEW A, NEW a, NEW k, NEW l, NEW w, NEW u, Joins(A, a, k, l), Joins(A, a, w, u),
         \A b \in A : w[b] \in Draws(procedure), u[a] \in Draws(procedure), NEW x, Keeps(procedure, x, A, k, w)
  PROVE  /\ Keeps(procedure, incorporate(x, l[a], u[a]), A \cup {a}, l, u)
         /\ Grows(x, incorporate(x, l[a], u[a]))
<1>1. CASE procedure = "crp"
  <2>1. Seats(x, A, w) /\ u[a] \in Nat
    BY <1>1 DEF Keeps, Draws
  <2>2. Seats(Sit(x, u[a]), A \cup {a}, u) /\ Sit(x, u[a]).nextIndex >= x.nextIndex
    BY <2>1, SeatsJoin
  <2> QED
    BY <1>1, <2>2 DEF Keeps, Grows, incorporate
<1>2. CASE procedure = "dir_cat"
  <2>1. Tallies(x, A, w) /\ u[a] \in Out
    BY <1>2 DEF Keeps, Draws
  <2>2. Tallies(Tally(x, u[a], 1), A \cup {a}, u)
    BY <2>1, TalliesJoin
  <2> QED
    BY <1>2, <2>2 DEF Keeps, Grows, incorporate
<1>3. CASE procedure = "hmm"
  <2>1. Emits(x, A, k, w) /\ JoinsBoth(A, A \cup {a}, a, k, l, w, u)
    BY <1>3 DEF Keeps, Draws, JoinsIn, JoinsBoth
  <2>2. Emits(Observe(x, l[a], u[a]), A \cup {a}, l, u) /\ Observe(x, l[a], u[a]).xs = x.xs
    BY <2>1, EmitsJoin
  <2> QED
    BY <1>3, <2>2 DEF Keeps, Grows, incorporate
<1> QED
  BY <1>1, <1>2, <1>3 DEF Keeps

LEMMA KeepsLeave ==
  ASSUME NEW A, NEW a, NEW k, NEW l, NEW w, NEW u, Joins(A, a, k, l), Joins(A, a, w, u),
         \A b \in A : w[b] \in Draws(procedure), u[a] \in Draws(procedure),
         NEW x, Keeps(procedure, x, A \cup {a}, l, u)
  PROVE  /\ Keeps(procedure, unincorporate(x, l[a], u[a]), A, k, w)
         /\ Grows(x, unincorporate(x, l[a], u[a]))
<1>1. CASE procedure = "crp"
  <2>1. Seats(x, A \cup {a}, u)
    BY <1>1 DEF Keeps
  <2>2. Seats(Leave(x, u[a]), A, w) /\ Leave(x, u[a]).nextIndex = x.nextIndex
    BY <2>1, SeatsLeave
  <2>3. x.nextIndex \in Nat
    BY <2>1 DEF Seats
  <2> QED
    BY <1>1, <2>2, <2>3 DEF Keeps, Grows, unincorporate
<1>2. CASE procedure = "dir_cat"
  <2>1. Tallies(x, A \cup {a}, u) /\ u[a] \in Out
    BY <1>2 DEF Keeps, Draws
  <2>2. Tallies(Tally(x, u[a], -1), A, w)
    BY <2>1, TalliesJoin
  <2> QED
    BY <1>2, <2>2 DEF Keeps, Grows, unincorporate
<1>3. CASE procedure = "hmm"
  <2>1. Emits(x, A \cup {a}, l, u) /\ JoinsBoth(A, A \cup {a}, a, k, l, w, u)
    BY <1>3 DEF Keeps, Draws, JoinsIn, JoinsBoth
  <2>2. Emits(Unobserve(x, l[a], u[a]), A, k, w) /\ Unobserve(x, l[a], u[a]).xs = x.xs
    BY <2>1, EmitsJoin
  <2> QED
    BY <1>3, <2>2 DEF Keeps, Grows, unincorporate
<1> QED
  BY <1>1, <1>2, <1>3 DEF Keeps

(* With l and u an application a is attached that is not with k and w.     *)
Attaches(a, k, w, l, u) ==
  /\ a \in App /\ Typed(procedure, k, w) /\ Typed(procedure, l, u)
  /\ (k[a] = None \/ w[a] = None) /\ l[a] # None /\ u[a] # None
  /\ \A b \in App \ {a} : l[b] = k[b] /\ u[b] = w[b]

LEMMA AttachJoins ==
  ASSUME NEW a, NEW k, NEW w, NEW l, NEW u, Attaches(a, k, w, l, u)
  PROVE  /\ AppliedIn(l, u) = AppliedIn(k, w) \cup {a}
         /\ Joins(AppliedIn(k, w), a, k, l) /\ Joins(AppliedIn(k, w), a, w, u)
         /\ \A b \in AppliedIn(k, w) : w[b] \in Draws(procedure)
         /\ u[a] \in Draws(procedure)
<1>1. IsFiniteSet(AppliedIn(k, w))
  <2>1. AppliedIn(k, w) \subseteq App
    BY DEF AppliedIn
  <2> QED
    BY <2>1, AppAssumption, FS_Subset
<1> QED
  BY <1>1 DEF Attaches, AppliedIn, Joins, Typed

LEMMA AttachKeeps ==
  ASSUME NEW a, NEW k, NEW w, NEW l, NEW u, Attaches(a, k, w, l, u), NEW x, KeepsAll(procedure, x, k, w),
         NEW i, i = l[a], NEW v, v = u[a]
  PROVE  KeepsAll(procedure, incorporate(x, i, v), l, u) /\ Grows(x, incorporate(x, i, v))
<1>1. PICK A : A = AppliedIn(k, w)
  OBVIOUS
<1>2. /\ AppliedIn(l, u) = A \cup {a} /\ Joins(A, a, k, l) /\ Joins(A, a, w, u)
      /\ (\A b \in A : w[b] \in Draws(procedure)) /\ u[a] \in Draws(procedure)
  BY <1>1, AttachJoins
<1>3. Keeps(procedure, x, A, k, w)
  BY <1>1 DEF KeepsAll
<1>4. /\ Keeps(procedure, incorporate(x, l[a], u[a]), A \cup {a}, l, u)
      /\ Grows(x, incorporate(x, l[a], u[a]))
  BY <1>2, <1>3, KeepsJoin
<1> QED
  BY <1>2, <1>4 DEF KeepsAll

LEMMA DetachKeeps ==
  ASSUME NEW a, NEW k, NEW w, NEW l, NEW u, Attaches(a, k, w, l, u), NEW x, KeepsAll(procedure, x, l, u),
         NEW i, i = l[a], NEW v, v = u[a]
  PROVE  KeepsAll(procedure, unincorporate(x, i, v), k, w) /\ Grows(x, unincorporate(x, i, v))
<1>1. PICK A : A = AppliedIn(k, w)
  OBVIOUS
<1>2. /\ AppliedIn(l, u) = A \cup {a} /\ Joins(A, a, k, l) /\ Joins(A, a, w, u)
      /\ (\A b \in A : w[b] \in Draws(procedure)) /\ u[a] \in Draws(procedure)
  BY <1>1, AttachJoins
<1>3. Keeps(procedure, x, A \cup {a}, l, u)
  BY <1>2 DEF KeepsAll
<1>4. /\ Keeps(procedure, unincorporate(x, l[a], u[a]), A, k, w)
      /\ Grows(x, unincorporate(x, l[a], u[a]))
  BY <1>2, <1>3, KeepsLeave
<1> QED
  BY <1>1, <1>4 DEF KeepsAll

(* Hidden states come and go without the statistics.                       *)
LEMMA LatentsKeep ==
  ASSUME NEW k, NEW w, NEW x, KeepsAll(procedure, x, k, w), NEW i, NEW states
  PROVE  /\ KeepsAll(procedure, simulateLatents(x, i, states), k, w) /\ KeepsAll(procedure, detachLatents(x, i), k, w)
         /\ procedure = "hmm" => simulateLatents(x, i, states).os = x.os /\ detachLatents(x, i).os = x.os
         /\ procedure # "hmm" => simulateLatents(x, i, states) = x /\ detachLatents(x, i) = x
<1>1. CASE procedure # "hmm"
  BY <1>1 DEF simulateLatents, detachLatents, HasLatents
<1>2. CASE procedure = "hmm"
  <2>1. PICK O : x = [xs |-> x.xs, os |-> O] /\ O = Outputs(AppliedIn(k, w), k, w)
    BY <1>2 DEF KeepsAll, Keeps, Emits
  <2>2. ASSUME NEW y, NEW z, z = [x EXCEPT !.xs = y] PROVE KeepsAll(procedure, z, k, w) /\ z.os = x.os
    <3>1. z = [xs |-> y, os |-> O]
      BY <2>1, <2>2
    <3>2. Emits(z, AppliedIn(k, w), k, w)
      BY <2>1, <3>1 DEF Emits
    <3> QED
      BY <1>2, <2>1, <3>1, <3>2 DEF KeepsAll, Keeps
  <2>3. /\ \E y : simulateLatents(x, i, states) = [x EXCEPT !.xs = y]
        /\ \E y : detachLatents(x, i) = [x EXCEPT !.xs = y]
    BY <1>2 DEF simulateLatents, detachLatents, HasLatents, Extended, Trimmed
  <2> QED
    BY <1>2, <2>2, <2>3
<1> QED
  BY <1>1, <1>2
-----------------------------------------------------------------------------
(* The place in a move.                                                    *)
LEMMA PlaceIs ==
  ASSUME Ordered, NEW n \in 1..Len(order), NEW a, a = order[n]
  PROVE  /\ a \in App /\ a \in Moved /\ a \notin OutFrom(n + 1) /\ OutFrom(n) = OutFrom(n + 1) \cup {a}
         /\ Redrawn(a) \/ Rerequested(a)
         /\ \A j \in 1..n - 1 : order[j] # a
<1>1. /\ Len(order) \in Nat /\ n \in Nat /\ \A j \in 1..Len(order) : order[j] \in App
      /\ \A i, j \in 1..Len(order) : order[i] = order[j] => i = j
  BY DEF Ordered
<1>2. a \in Moved /\ a \in App
  BY <1>1 DEF Moved
<1>3. a \notin OutFrom(n + 1) /\ \A j \in 1..n - 1 : order[j] # a
  BY <1>1 DEF OutFrom
<1>4. OutFrom(n) = OutFrom(n + 1) \cup {a}
  <2>1. n..Len(order) = (n + 1)..Len(order) \cup {n}
    BY <1>1
  <2> QED
    BY <2>1 DEF OutFrom
<1>5. Redrawn(a) \/ Rerequested(a)
  BY <1>2 DEF Ordered, Redrawn, Rerequested
<1> QED
  BY <1>2, <1>3, <1>4, <1>5

(* k and w are those of a move that has come back to n, l and u those of   *)
(* one that goes on from there.                                            *)
Turns(n, a, k, w, l, u) ==
  /\ n \in 1..Len(order) /\ a = order[n] /\ Typed(procedure, k, w) /\ Typed(procedure, l, u)
  /\ Rerequested(a) <=> k[a] = None
  /\ Redrawn(a) <=> w[a] = None
  /\ l[a] # None /\ u[a] # None
  /\ ~Rerequested(a) => l[a] = k[a]
  /\ ~Redrawn(a) => u[a] = w[a]
  /\ \A b \in App \ {a} : l[b] = k[b] /\ u[b] = w[b]

LEMMA TurnAttaches ==
  ASSUME Ordered, NEW n, NEW a, NEW k, NEW w, NEW l, NEW u, Turns(n, a, k, w, l, u)
  PROVE  Attaches(a, k, w, l, u)
<1>1. a \in App /\ (Redrawn(a) \/ Rerequested(a))
  BY PlaceIs DEF Turns
<1> QED
  BY <1>1 DEF Turns, Attaches

LEMMA TurnOn ==
  ASSUME Ordered, NEW n, NEW a, NEW k, NEW w, NEW l, NEW u, Turns(n, a, k, w, l, u)
  PROVE  /\ Positions(n, k, w) <=> Positions(n + 1, l, u)
         /\ Untouched(k, w) /\ (~Rerequested(a) => l[a] = before.index[a]) /\ (~Redrawn(a) => u[a] = before.value[a]) => Untouched(l, u)
         /\ Untouched(l, u) => Untouched(k, w)
         /\ PutBack(n + 1, l, u) => PutBack(n, k, w) /\ l[a] = before.index[a] /\ u[a] = before.value[a]
         /\ PutBack(n, k, w) /\ l[a] = before.index[a] /\ u[a] = before.value[a] => PutBack(n + 1, l, u)
<1>1. n \in 1..Len(order) /\ a = order[n] /\ Len(order) \in Nat /\ n \in Nat
  BY DEF Turns, Ordered
<1>2. /\ a \in App /\ a \in Moved /\ a \notin OutFrom(n + 1) /\ OutFrom(n) = OutFrom(n + 1) \cup {a}
      /\ \A j \in 1..n - 1 : order[j] # a /\ order[j] \in App
  <2>1. \A j \in 1..n - 1 : order[j] \in App
    BY <1>1 DEF Ordered
  <2> QED
    BY <1>1, <2>1, PlaceIs
<1>3. \A j \in 1..(n + 1) - 1 : j \in 1..n - 1 \/ j = n
  BY <1>1
<1>4. n \in 1..(n + 1) - 1 /\ \A j \in 1..n - 1 : j \in 1..(n + 1) - 1
  BY <1>1
<1>5. Positions(n, k, w) <=> Positions(n + 1, l, u)
  <2>1. ASSUME NEW b \in App, b # a PROVE Stands(n, k, w, b) <=> Stands(n + 1, l, u, b)
    BY <1>2, <2>1 DEF Stands, Evaluated, Turns
  <2>2. Stands(n, k, w, a) /\ Stands(n + 1, l, u, a)
    BY <1>2 DEF Stands, Evaluated, Turns
  <2>3. (\A j \in 1..n - 1 : k[order[j]] # None) <=> (\A j \in 1..(n + 1) - 1 : l[order[j]] # None)
    BY <1>1, <1>2, <1>3, <1>4 DEF Turns
  <2>4. (\A b \in App : Stands(n, k, w, b)) <=> (\A b \in App : Stands(n + 1, l, u, b))
    BY <2>1, <2>2
  <2> QED
    BY <2>3, <2>4 DEF Positions
<1>6. Untouched(k, w) /\ (~Rerequested(a) => l[a] = before.index[a]) /\ (~Redrawn(a) => u[a] = before.value[a]) => Untouched(l, u)
  BY <1>2 DEF Untouched, Turns
<1>7. Untouched(l, u) => Untouched(k, w)
  BY <1>2 DEF Untouched, Turns
<1>8. PutBack(n + 1, l, u) => PutBack(n, k, w) /\ l[a] = before.index[a] /\ u[a] = before.value[a]
  BY <1>1, <1>2, <1>4 DEF PutBack, Turns
<1>9. PutBack(n, k, w) /\ l[a] = before.index[a] /\ u[a] = before.value[a] => PutBack(n + 1, l, u)
  BY <1>1, <1>2, <1>3 DEF PutBack, Turns
<1> QED
  BY <1>5, <1>6, <1>7, <1>8, <1>9
-----------------------------------------------------------------------------
(* Between moves.                                                          *)
LEMMA StatesKeep ==
  ASSUME procedure = "hmm", NEW k, NEW w, NEW x, KeepsAll(procedure, x, k, w), NEW y, NEW z, z = [x EXCEPT !.xs = y]
  PROVE  KeepsAll(procedure, z, k, w) /\ z.os = x.os /\ z.xs = y
<1>1. PICK O : x = [xs |-> x.xs, os |-> O] /\ O = Outputs(AppliedIn(k, w), k, w)
  BY DEF KeepsAll, Keeps, Emits
<1>2. z = [xs |-> y, os |-> O]
  BY <1>1
<1>3. Emits(z, AppliedIn(k, w), k, w)
  BY <1>1, <1>2 DEF Emits
<1> QED
  BY <1>1, <1>2, <1>3 DEF KeepsAll, Keeps

LEMMA DrawnIsValue ==
  ASSUME NEW k, NEW w, Typed(procedure, k, w), NEW x, KeepsAll(procedure, x, k, w), NEW v \in Drawn(x)
  PROVE  v \in Draws(procedure)
<1>1. CASE procedure = "crp"
  <2>1. PICK A : A = AppliedIn(k, w)
    OBVIOUS
  <2>2. Seats(x, A, w)
    BY <1>1, <2>1 DEF KeepsAll, Keeps
  <2>3. x.nextIndex \in Nat /\ DOMAIN x.tableCounts = ValuesOf(A, w) /\ \A b \in A : w[b] \in Nat
    BY <2>2 DEF Seats, Counts
  <2> QED
    BY <1>1, <2>3 DEF Drawn, Tables, Draws, ValuesOf
<1> QED
  BY <1>1 DEF Drawn, Draws

LEMMA NoneIsNoValue == None \notin Nat /\ None \notin Draws(procedure)
BY NoneAssumption DEF Draws

LEMMA IndexIsNat ==
  ASSUME NEW a \in App, NEW i \in Indices(a)
  PROVE  i \in Nat
BY IndicesAssumption DEF Indices

(* What holds when nothing is under way.                                   *)
Resting(x, k, w) == Typed(procedure, k, w) /\ KeepsAll(procedure, x, k, w) /\ AllEvaluated(k, w)

LEMMA NotFailed ==
  ASSUME failed = None
  PROVE  StateOfIndex
BY NoneAssumption DEF StateOfIndex

LEMMA RestingIs ==
  ASSUME IInv, failed = None, phase = "idle"
  PROVE  Resting(aux, index, value)
BY NotFailed DEF IInv, MoveInv, Resting

LEMMA RestsKeep ==
  ASSUME IInv, phase' = "idle", procedure' = procedure, Resting(aux', index', value'), db' = db
  PROVE  IInv'
BY DEF IInv, MoveInv, Resting, Phases, AllEvaluated, Extractable

LEMMA EvaluateKeeps ==
  ASSUME IInv, failed = None, NEW a \in App, NEW i \in Indices(a), NEW states, NEW v, Evaluate(a, i, states, v)
  PROVE  IInv'
<1>1. PICK x, l, u : /\ x = simulateLatents(aux, i, states)
                     /\ l = [index EXCEPT ![a] = i] /\ u = [value EXCEPT ![a] = v]
  OBVIOUS
<1>2. /\ phase = "idle" /\ phase' = "idle" /\ procedure' = procedure /\ db' = db /\ index[a] = None /\ v \in Drawn(x)
      /\ index' = l /\ value' = u /\ aux' = incorporate(x, i, v)
  BY <1>1 DEF Evaluate
<1>3. Resting(aux, index, value) /\ KeepsAll(procedure, x, index, value)
  BY <1>1, <1>2, RestingIs, LatentsKeep DEF Resting
<1>4. v \in Draws(procedure) /\ i \in Nat /\ v # None /\ i # None
  <2>1. v \in Draws(procedure)
    BY <1>2, <1>3, DrawnIsValue DEF Resting
  <2> QED
    BY <2>1, IndexIsNat, NoneIsNoValue
<1>5. Attaches(a, index, value, l, u) /\ i = l[a] /\ v = u[a]
  BY <1>1, <1>2, <1>3, <1>4 DEF Attaches, Resting, Typed
<1>6. KeepsAll(procedure, incorporate(x, i, v), l, u)
  BY <1>3, <1>5, AttachKeeps
<1>7. AllEvaluated(l, u) /\ Typed(procedure, l, u)
  BY <1>1, <1>3, <1>4, <1>5 DEF AllEvaluated, Evaluated, Resting, Attaches
<1> QED
  BY <1>2, <1>6, <1>7, RestsKeep DEF Resting

LEMMA ConstrainKeeps ==
  ASSUME IInv, failed = None, NEW a \in App, NEW v, Constrain(a, v)
  PROVE  IInv'
<1>1. PICK i, o, w, u : /\ i = index[a] /\ o = value[a]
                        /\ w = [value EXCEPT ![a] = None] /\ u = [value EXCEPT ![a] = v]
  OBVIOUS
<1>2. /\ phase = "idle" /\ phase' = "idle" /\ procedure' = procedure /\ db' = db /\ i # None
      /\ index' = index /\ value' = u /\ aux' = incorporate(unincorporate(aux, i, o), i, v)
  BY <1>1 DEF Constrain
<1>3. v \in Draws(procedure) /\ v # None
  <2>1. v \in Draws(procedure)
    BY IndicesAssumption DEF Constrain, Draws
  <2> QED
    BY <2>1, NoneIsNoValue
<1>4. Resting(aux, index, value) /\ o # None
  BY <1>1, <1>2, RestingIs DEF Resting, AllEvaluated, Evaluated
<1>5. Attaches(a, index, w, index, value) /\ Attaches(a, index, w, index, u) /\ v = u[a]
  BY <1>1, <1>2, <1>3, <1>4 DEF Attaches, Resting, Typed
<1>6. KeepsAll(procedure, unincorporate(aux, i, o), index, w)
  BY <1>1, <1>4, <1>5, DetachKeeps DEF Resting
<1>7. KeepsAll(procedure, incorporate(unincorporate(aux, i, o), i, v), index, u)
  BY <1>1, <1>5, <1>6, AttachKeeps
<1>8. AllEvaluated(index, u) /\ Typed(procedure, index, u)
  BY <1>1, <1>2, <1>3, <1>4, <1>5 DEF AllEvaluated, Evaluated, Resting, Attaches
<1> QED
  BY <1>2, <1>7, <1>8, RestsKeep DEF Resting

LEMMA InferKeeps ==
  ASSUME IInv, failed = None, NEW states, AEInfer(states)
  PROVE  IInv'
<1>1. /\ phase = "idle" /\ phase' = "idle" /\ procedure' = procedure /\ db' = db /\ index' = index /\ value' = value
      /\ procedure = "hmm" /\ (aux' = [aux EXCEPT !.xs = states] \/ aux' = aux)
  BY DEF AEInfer, HasLatents
<1>2. PICK y : y = aux'
  OBVIOUS
<1>3. Resting(aux, index, value)
  BY <1>1, RestingIs
<1>4. KeepsAll(procedure, y, index, value)
  BY <1>1, <1>2, <1>3, StatesKeep DEF Resting
<1> QED
  BY <1>1, <1>2, <1>3, <1>4, RestsKeep DEF Resting

LEMMA BeginKeeps ==
  ASSUME IInv, failed = None, NEW b \in BlocksOf, NEW seq, Begin(b, seq)
  PROVE  IInv'
<1>1. /\ DOMAIN b \subseteq App /\ DOMAIN b # {} /\ IsFiniteSet(DOMAIN b)
      /\ \A a \in DOMAIN b : b[a] \in {"output", "operand", "both"}
  <2>1. DOMAIN b \subseteq App /\ DOMAIN b # {} /\ \A a \in DOMAIN b : b[a] \in {"output", "operand", "both"}
    BY BlocksAssumption DEF BlocksOf
  <2> QED
    BY <2>1, AppAssumption, FS_Subset
<1>2. PICK n : n = Cardinality(DOMAIN b) /\ n \in Nat /\ n > 0
  <2>1. Cardinality(DOMAIN b) \in Nat /\ Cardinality(DOMAIN b) # 0
    BY <1>1, FS_CardinalityType, FS_EmptySet
  <2> QED
    BY <2>1
<1>3. seq \in [1..n -> DOMAIN b] /\ \A i, j \in 1..n : i # j => seq[i] # seq[j]
  BY <1>2 DEF Begin, SetToSeqs
<1>4. seq \in Seq(App) /\ Len(seq) = n
  BY <1>1, <1>2, <1>3
<1>5. /\ phase = "idle" /\ phase' = "detach" /\ block' = b /\ order' = seq /\ next' = n
      /\ before'.aux = aux /\ before'.index = index /\ before'.value = value
      /\ procedure' = procedure /\ aux' = aux /\ index' = index /\ value' = value /\ db' = db
  BY <1>4 DEF Begin
<1>6. Resting(aux, index, value)
  BY <1>5, RestingIs
<1>7. Ordered' /\ \A a : a \in Moved' <=> \E j \in 1..n : a = seq[j]
  BY <1>1, <1>2, <1>3, <1>4, <1>5 DEF Ordered, Moved
<1>8. \A j \in 1..n : index[seq[j]] # None
  BY <1>3 DEF Begin, Movable
<1>9. Pending' = n + 1 /\ OutFrom(n + 1)' = {}
  BY <1>2, <1>4, <1>5 DEF Pending, OutFrom
<1>10. Recorded(aux)'
  <2>1. procedure = "crp" => aux.nextIndex >= aux.nextIndex
    BY <1>6 DEF Resting, KeepsAll, Keeps, Seats
  <2> QED
    BY <1>5, <1>6, <1>7, <1>8, <2>1 DEF Resting, AllEvaluated, Recorded
<1>11. Positions(n + 1, index, value)'
  BY <1>2, <1>5, <1>6, <1>8, <1>9 DEF Positions, Stands, Resting, AllEvaluated
<1>12. Untouched(index, value)' /\ PutBack(n + 1, index, value)' /\ Extracted(db, n + 1)'
  BY <1>5, <1>9 DEF Untouched, PutBack, Extracted
<1>13. Moving'
  BY <1>5, <1>7, <1>9, <1>10, <1>11, <1>12 DEF Moving
<1> QED
  BY <1>5, <1>6, <1>13 DEF IInv, MoveInv, Phases, Resting, Extractable
-----------------------------------------------------------------------------
(* In a move that has come to the place n, with statistics y.              *)
Standing(n, y, k, w) ==
  /\ Typed(procedure, k, w) /\ KeepsAll(procedure, y, k, w)
  /\ Positions(n, k, w) /\ Untouched(k, w) /\ Recorded(y)

LEMMA MovingIs ==
  ASSUME IInv, StateOfIndex, phase # "idle"
  PROVE  /\ Ordered /\ Standing(Pending, aux, index, value) /\ Extractable /\ Moving
         /\ next \in Nat /\ Len(order) \in Nat
<1>1. Ordered /\ Standing(Pending, aux, index, value) /\ Extractable /\ Moving
  BY DEF IInv, MoveInv, Moving, Standing
<1>2. next \in Nat /\ Len(order) \in Nat
  BY <1>1 DEF Ordered
<1> QED
  BY <1>1, <1>2

LEMMA MovesOn ==
  ASSUME IInv, StateOfIndex, phase # "idle", UNCHANGED <<procedure, order, block, before>>,
         phase' \in Phases \ {"idle"}, NEW n, n = Pending',
         next' \in 1..(IF phase' = "propose" THEN Len(order) + 1 ELSE Len(order)),
         Standing(n, aux', index', value'), phase' \in {"detach", "restore"} => PutBack(n, index', value'),
         Extracted(db', IF phase' = "detach" THEN n ELSE 1), Extractable'
  PROVE  IInv'
<1>1. PICK y, k, w, d, m : /\ y = aux' /\ k = index' /\ w = value' /\ d = db'
                           /\ m = IF phase' = "detach" THEN n ELSE 1
  OBVIOUS
<1>2. Ordered'
  BY MovingIs DEF Ordered, Moved
<1>3. Positions(n, k, w)'
  BY <1>1 DEF Standing, Positions, Stands, Evaluated, OutFrom, Redrawn, Rerequested
<1>4. Recorded(y)' /\ Untouched(k, w)'
  BY <1>1 DEF Standing, Recorded, Untouched, Moved, Evaluated, Redrawn, Rerequested
<1>5. phase' \in {"detach", "restore"} => PutBack(n, k, w)'
  BY <1>1 DEF PutBack
<1>6. Extracted(d, m)'
  BY <1>1 DEF Extracted, OutFrom, Redrawn, Rerequested
<1>7. Moving'
  BY <1>1, <1>2, <1>3, <1>4, <1>5, <1>6 DEF Moving
<1> QED
  BY <1>1, <1>7 DEF IInv, MoveInv, Standing, Phases

(* An application is detached.                                             *)
LEMMA StepBack ==
  ASSUME IInv, failed = None, phase \in {"detach", "undo"}, NEW a, a = order[next], Detached(a)
  PROVE  /\ Turns(next, a, index', value', index, value) /\ next \in 1..Len(order)
         /\ Standing(next, aux', index', value')
         /\ KeepsAll(procedure, unincorporate(aux, index[a], value[a]), index', value')
         /\ Grows(aux, unincorporate(aux, index[a], value[a]))
         /\ phase = "detach" => /\ PutBack(next, index', value')
                                /\ index[a] = before.index[a] /\ value[a] = before.value[a]
<1>1. PICK n, x, i, v, y, k, w : /\ n = next /\ i = index[a] /\ v = value[a] /\ x = unincorporate(aux, i, v)
                                 /\ y = aux' /\ k = index' /\ w = value'
  OBVIOUS
<1>2. /\ Ordered /\ Standing(n + 1, aux, index, value) /\ n \in 1..Len(order) /\ n \in Nat
      /\ phase = "detach" => PutBack(n + 1, index, value)
  BY <1>1, NotFailed, MovingIs DEF Moving, Ordered, Pending
<1>3. /\ a \in App /\ a \in Moved /\ a \notin OutFrom(n + 1) /\ n \in 1..(n + 1) - 1
  BY <1>1, <1>2, PlaceIs
<1>4. i # None /\ v # None
  BY <1>1, <1>2, <1>3 DEF Standing, Positions, Stands, Evaluated
<1>5. /\ y = (IF Rerequested(a) THEN detachLatents(x, i) ELSE x)
      /\ w = (IF Redrawn(a) THEN [value EXCEPT ![a] = None] ELSE value)
      /\ k = (IF Rerequested(a) THEN [index EXCEPT ![a] = None] ELSE index)
  BY <1>1 DEF Detached
<1>6. Typed(procedure, k, w) /\ Typed(procedure, index, value)
  BY <1>2, <1>5 DEF Standing, Typed
<1>7. Turns(n, a, k, w, index, value)
  BY <1>1, <1>2, <1>3, <1>4, <1>5, <1>6 DEF Turns, Typed
<1>8. KeepsAll(procedure, x, k, w) /\ Grows(aux, x)
  BY <1>1, <1>2, <1>7, TurnAttaches, DetachKeeps DEF Standing
<1>9. KeepsAll(procedure, y, k, w) /\ (procedure = "crp" => y = x)
  BY <1>5, <1>8, LatentsKeep
<1>10. Recorded(y)
  <2>1. procedure = "crp" => aux.nextIndex \in Nat /\ x.nextIndex \in Nat
    BY <1>2, <1>8 DEF Standing, KeepsAll, Keeps, Seats
  <2>2. procedure = "crp" => before.aux.nextIndex \in Nat
    BY <1>2 DEF Standing, Recorded, KeepsAll, Keeps, Seats
  <2> QED
    BY <1>2, <1>8, <1>9, <2>1, <2>2 DEF Standing, Recorded, Grows
<1>11. Standing(n, y, k, w)
  BY <1>2, <1>6, <1>7, <1>9, <1>10, TurnOn DEF Standing
<1>12. phase = "detach" => PutBack(n, k, w) /\ i = before.index[a] /\ v = before.value[a]
  BY <1>1, <1>2, <1>7, TurnOn
<1> QED
  BY <1>1, <1>2, <1>7, <1>8, <1>11, <1>12

LEMMA DetachStepKeeps ==
  ASSUME IInv, failed = None, DetachStep
  PROVE  IInv'
<1>1. PICK n, a, d : n = next /\ a = order[n] /\ d = db'
  OBVIOUS
<1>2. /\ phase = "detach" /\ Detached(a) /\ d = Extract(a) /\ UNCHANGED <<procedure, order, block, before>>
      /\ phase' = (IF n > 1 THEN "detach" ELSE "propose") /\ next' = (IF n > 1 THEN n - 1 ELSE 1)
  BY <1>1 DEF DetachStep, moveVars
<1>3. /\ Turns(n, a, index', value', index, value) /\ n \in 1..Len(order)
      /\ Standing(n, aux', index', value') /\ PutBack(n, index', value')
      /\ index[a] = before.index[a] /\ value[a] = before.value[a]
  BY <1>1, <1>2, StepBack
<1>4. Ordered /\ Extractable /\ Extracted(db, n + 1) /\ n \in Nat /\ Len(order) \in Nat
  BY <1>1, <1>2, NotFailed, MovingIs DEF Moving, Pending
<1>5. a \in App /\ OutFrom(n) = OutFrom(n + 1) \cup {a} /\ OutFrom(n) \subseteq App
  <2>1. \A j \in 1..Len(order) : order[j] \in App
    BY <1>4 DEF Ordered
  <2>2. OutFrom(n) \subseteq App
    BY <1>3, <1>4, <2>1 DEF OutFrom
  <2> QED
    BY <1>1, <1>3, <1>4, <2>2, PlaceIs
<1>6. Extracted(d, n) /\ DOMAIN d.index = App /\ DOMAIN d.value = App
  <2>1. /\ d.index = (IF Rerequested(a) THEN [db.index EXCEPT ![a] = index[a]] ELSE db.index)
        /\ d.value = (IF Redrawn(a) THEN [db.value EXCEPT ![a] = value[a]] ELSE db.value)
    BY <1>2 DEF Extract
  <2> QED
    BY <1>3, <1>4, <1>5, <2>1 DEF Extracted, Extractable
<1>7. next' \in 1..Len(order) /\ Pending' = n /\ Len(order) \in Nat /\ (n > 1 \/ n = 1)
  BY <1>2, <1>3, <1>4 DEF Pending
<1>8. next' \in 1..(IF phase' = "propose" THEN Len(order) + 1 ELSE Len(order))
  BY <1>7
<1>9. Extracted(d, IF phase' = "detach" THEN n ELSE 1)
  BY <1>2, <1>6, <1>7
<1>10. Extractable' /\ phase' \in Phases \ {"idle"}
  BY <1>1, <1>2, <1>6 DEF Extractable, Phases
<1> QED
  BY <1>1, <1>2, <1>3, <1>7, <1>8, <1>9, <1>10, NotFailed, MovesOn

LEMMA UndoStepKeeps ==
  ASSUME IInv, failed = None, UndoStep
  PROVE  IInv'
<1>1. PICK n, a : n = next /\ a = order[n]
  OBVIOUS
<1>2. /\ phase = "undo" /\ Detached(a) /\ db' = db /\ UNCHANGED <<procedure, order, block, before>>
      /\ phase' = (IF n > 1 THEN "undo" ELSE "restore") /\ next' = (IF n > 1 THEN n - 1 ELSE 1)
  BY <1>1 DEF UndoStep, moveVars
<1>3. n \in 1..Len(order) /\ Standing(n, aux', index', value')
  BY <1>1, <1>2, StepBack
<1>4. Extractable /\ Extracted(db, 1) /\ n \in Nat /\ Len(order) \in Nat
  BY <1>1, <1>2, NotFailed, MovingIs DEF Moving
<1>5. next' \in 1..Len(order) /\ Pending' = n /\ (n > 1 \/ n = 1)
  BY <1>2, <1>3, <1>4 DEF Pending
<1>6. phase' \in {"detach", "restore"} => PutBack(n, index', value')
  BY <1>2, <1>5 DEF PutBack
<1>7. Extractable' /\ phase' \in Phases \ {"idle"} /\ phase' # "detach" /\ phase' # "propose"
  BY <1>2, <1>4 DEF Extractable, Phases
<1> QED
  BY <1>2, <1>3, <1>4, <1>5, <1>6, <1>7, NotFailed, MovesOn
LEMMA RegenCases ==
  ASSUME NEW a, NEW i, NEW states, NEW v, Regen(a, i, states, v), failed = None,
         NEW x, x = IF Rerequested(a) THEN simulateLatents(aux, i, states) ELSE aux
  PROVE  /\ ~Rerequested(a) => i = index[a]
         /\ ~StateOfIndex' => UNCHANGED <<aux, index, value>> /\ ~CanApply(x, i)
         /\ StateOfIndex' =>
              /\ IF Redrawn(a) THEN v \in (IF phase = "restore" THEN {db.value[a]} ELSE Drawn(x)) ELSE v = value[a]
              /\ index' = [index EXCEPT ![a] = i] /\ value' = [value EXCEPT ![a] = v]
              /\ aux' = incorporate(x, i, v) /\ failed' = None
<1>1. StateOfIndex
  BY NotFailed
<1> QED
  BY <1>1, Zenon DEF Regen, StateOfIndex

(* An application is proposed or restored, and finds its hidden state.     *)
Regenerates(a, i, states, v) ==
  /\ a = order[next] /\ next \in 1..Len(order) /\ phase \in {"propose", "restore"} /\ Regen(a, i, states, v)
  /\ i \in Nat
  /\ phase = "restore" /\ Redrawn(a) /\ StateOfIndex' => v = before.value[a]

LEMMA StepForward ==
  ASSUME IInv, failed = None, NEW a, NEW i, NEW states, NEW v, Regenerates(a, i, states, v),
         StateOfIndex'
  PROVE  /\ Turns(next, a, index, value, index', value') /\ index'[a] = i /\ value'[a] = v
         /\ Standing(next + 1, aux', index', value')
<1>1. PICK n, x, y, l, u : /\ n = next /\ x = (IF Rerequested(a) THEN simulateLatents(aux, i, states) ELSE aux)
                           /\ y = aux' /\ l = index' /\ u = value'
  OBVIOUS
<1>2. /\ ~Rerequested(a) => i = index[a]
      /\ IF Redrawn(a) THEN v \in (IF phase = "restore" THEN {db.value[a]} ELSE Drawn(x)) ELSE v = value[a]
      /\ l = [index EXCEPT ![a] = i] /\ u = [value EXCEPT ![a] = v] /\ y = incorporate(x, i, v)
  <2>1. Regen(a, i, states, v)
    BY DEF Regenerates
  <2> QED
    BY <1>1, <2>1, RegenCases
<1>3. Ordered /\ Standing(n, aux, index, value) /\ n \in 1..Len(order) /\ n \in Nat
  BY <1>1, NotFailed, MovingIs DEF Pending, Regenerates
<1>4. a \in App /\ a \in Moved /\ a \in OutFrom(n) /\ a = order[n]
  <2>1. a = order[n]
    BY <1>1 DEF Regenerates
  <2>2. a \in App /\ a \in Moved /\ OutFrom(n) = OutFrom(n + 1) \cup {a}
    BY <1>3, <2>1, PlaceIs
  <2> QED
    BY <2>1, <2>2
<1>5. /\ Typed(procedure, index, value) /\ KeepsAll(procedure, aux, index, value)
      /\ Redrawn(a) <=> value[a] = None
      /\ Rerequested(a) <=> index[a] = None
  BY <1>3, <1>4 DEF Standing, Positions, Stands
<1>6. KeepsAll(procedure, x, index, value) /\ (procedure = "crp" => x = aux)
  BY <1>1, <1>5, LatentsKeep
<1>7. v \in Draws(procedure)
  <2>1. CASE Redrawn(a) /\ phase = "restore"
    <3>1. Typed(procedure, before.index, before.value) /\ before.index[a] # None
          /\ Evaluated(before.index, before.value, a)
      BY <1>3, <1>4 DEF Standing, Recorded
    <3> QED
      BY <1>4, <2>1, <3>1 DEF Regenerates, Typed, Evaluated
  <2>2. CASE Redrawn(a) /\ phase # "restore"
    BY <1>2, <1>5, <1>6, <2>2, DrawnIsValue
  <2>3. CASE ~Redrawn(a)
    BY <1>2, <1>4, <1>5, <2>3 DEF Typed
  <2> QED
    BY <2>1, <2>2, <2>3
<1>8. i \in Nat /\ i # None /\ v # None
  BY <1>7, NoneIsNoValue DEF Regenerates
<1>9. Typed(procedure, l, u) /\ l[a] = i /\ u[a] = v /\ \A b \in App \ {a} : l[b] = index[b] /\ u[b] = value[b]
  BY <1>2, <1>4, <1>5, <1>7, <1>8 DEF Typed
<1>10. Turns(n, a, index, value, l, u)
  BY <1>2, <1>3, <1>4, <1>5, <1>8, <1>9 DEF Turns
<1>11. KeepsAll(procedure, y, l, u) /\ Grows(x, y)
  <2>1. Attaches(a, index, value, l, u)
    BY <1>3, <1>10, TurnAttaches
  <2>2. KeepsAll(procedure, incorporate(x, i, v), l, u) /\ Grows(x, incorporate(x, i, v))
    BY <1>6, <1>9, <2>1, AttachKeeps
  <2> QED
    BY <1>2, <2>2
<1>12. Recorded(y)
  <2>1. procedure = "crp" => x.nextIndex \in Nat /\ y.nextIndex \in Nat
    BY <1>6, <1>11 DEF KeepsAll, Keeps, Seats
  <2>2. procedure = "crp" => before.aux.nextIndex \in Nat
    BY <1>3 DEF Standing, Recorded, KeepsAll, Keeps, Seats
  <2> QED
    <3>1. Recorded(aux)
      BY <1>3 DEF Standing
    <3>2. ASSUME procedure = "crp" PROVE y.nextIndex >= before.aux.nextIndex
      <4>1. aux.nextIndex >= before.aux.nextIndex
        BY <3>1, <3>2 DEF Recorded
      <4>2. y.nextIndex >= x.nextIndex /\ x = aux
        BY <1>6, <1>11, <3>2 DEF Grows
      <4> QED
        BY <2>1, <2>2, <3>2, <4>1, <4>2
    <3> QED
      BY <3>1, <3>2 DEF Recorded
<1>13. Untouched(l, u)
  <2>1. Untouched(index, value)
    BY <1>3 DEF Standing
  <2>2. (~Rerequested(a) => l[a] = before.index[a]) /\ (~Redrawn(a) => u[a] = before.value[a])
    BY <1>4, <1>10, <2>1 DEF Untouched, Turns
  <2> QED
    BY <1>3, <1>10, <2>1, <2>2, TurnOn
<1>14. Positions(n + 1, l, u)
  BY <1>3, <1>10, TurnOn DEF Standing
<1>15. Standing(n + 1, y, l, u)
  BY <1>9, <1>11, <1>12, <1>13, <1>14 DEF Standing
<1> QED
  BY <1>1, <1>9, <1>10, <1>15

(* One that does not find it changes nothing but failed.                   *)
LEMMA StepFails ==
  ASSUME IInv, failed = None, NEW a, NEW i, NEW states, NEW v, Regen(a, i, states, v),
         ~StateOfIndex', phase' \in Phases, procedure' = procedure, Extractable'
  PROVE  IInv'
<1>1. aux' = aux /\ index' = index /\ value' = value
  <2>1. PICK x : x = IF Rerequested(a) THEN simulateLatents(aux, i, states) ELSE aux
    OBVIOUS
  <2> QED
    BY <2>1, RegenCases
<1> QED
  BY <1>1 DEF IInv

LEMMA ProposeStepKeeps ==
  ASSUME IInv, failed = None, NEW i \in Nat, NEW states, NEW v, ProposeStep(i, states, v)
  PROVE  IInv'
<1>1. PICK n, a, j : n = next /\ a = order[n] /\ j = (IF Rerequested(a) THEN i ELSE index[a])
  OBVIOUS
<1>2. /\ phase = "propose" /\ phase' = "propose" /\ n <= Len(order) /\ next' = n + 1 /\ db' = db
      /\ UNCHANGED <<procedure, order, block, before>> /\ Regen(a, i, states, v)
  BY <1>1 DEF ProposeStep, moveVars
<1>3. Ordered /\ Standing(n, aux, index, value) /\ Extractable /\ Extracted(db, 1) /\ n \in Nat /\ Len(order) \in Nat
  BY <1>1, <1>2, NotFailed, MovingIs DEF Moving, Pending
<1>4. n \in 1..Len(order)
  BY <1>1, <1>2, <1>3 DEF Ordered
<1>5. Extractable' /\ phase' \in Phases
  BY <1>2, <1>3 DEF Extractable, Phases
<1>6. CASE ~StateOfIndex'
  BY <1>2, <1>5, <1>6, StepFails
<1>7. CASE StateOfIndex'
  <2>1. Regenerates(a, i, states, v)
    BY <1>1, <1>2, <1>4 DEF Regenerates
  <2>2. Standing(n + 1, aux', index', value')
    BY <1>1, <1>7, <2>1, StepForward
  <2>3. Pending' = n + 1 /\ next' \in 1..Len(order) + 1
    BY <1>2, <1>3, <1>4 DEF Pending
  <2> QED
    BY <1>2, <1>3, <1>5, <2>2, <2>3, NotFailed, MovesOn
<1> QED
  BY <1>6, <1>7

(* The last step of a move that is rejected leaves what was before it.     *)
LEMMA RestoreStepKeeps ==
  ASSUME IInv, failed = None, RestoreStep
  PROVE  /\ IInv'
         /\ StateOfIndex' /\ phase' = "idle" => index' = before.index /\ value' = before.value /\ Recorded(aux')
<1>1. PICK n, a, i, states : /\ n = next /\ a = order[n] /\ i = (IF Rerequested(a) THEN db.index[a] ELSE index[a])
                             /\ states = (IF Rerequested(a) /\ HasLatents THEN SavedStates(i) ELSE <<>>)
  OBVIOUS
<1>2. /\ phase = "restore" /\ procedure' = procedure
      /\ \E v \in {db.value[a], value[a]} : Regen(a, i, states, v)
      /\ IF n < Len(order) THEN next' = n + 1 /\ UNCHANGED <<phase, order, block, before, db>> ELSE EndMove
  BY <1>1 DEF RestoreStep, moveVars
<1>3. PICK v : Regen(a, i, states, v)
  BY <1>2
<1>4. /\ Ordered /\ Standing(n, aux, index, value) /\ Extractable /\ Extracted(db, 1) /\ PutBack(n, index, value)
      /\ n \in Nat /\ Len(order) \in Nat
  BY <1>1, <1>2, NotFailed, MovingIs DEF Moving, Pending
<1>5. n \in 1..Len(order) /\ a \in App /\ a \in Moved /\ a \in OutFrom(1) /\ a \in OutFrom(n)
  <2>1. n \in 1..Len(order)
    BY <1>1, <1>2, <1>4 DEF Ordered
  <2>2. a \in App /\ a \in Moved /\ a \in OutFrom(n)
    BY <1>1, <1>4, <2>1, PlaceIs
  <2> QED
    BY <2>1, <2>2 DEF Moved, OutFrom
<1>6. Typed(procedure, before.index, before.value) /\ before.index[a] # None
  BY <1>4, <1>5 DEF Standing, Recorded
<1>7. /\ i = before.index[a] /\ i \in Nat
      /\ Redrawn(a) => db.value[a] = before.value[a]
      /\ ~Redrawn(a) => value[a] = before.value[a]
  <2>1. /\ Rerequested(a) => db.index[a] = before.index[a]
        /\ Redrawn(a) => db.value[a] = before.value[a]
    BY <1>4, <1>5 DEF Extracted
  <2>2. /\ ~Rerequested(a) => index[a] = before.index[a]
        /\ ~Redrawn(a) => value[a] = before.value[a]
    BY <1>4, <1>5 DEF Standing, Untouched
  <2> QED
    BY <1>1, <1>5, <1>6, <2>1, <2>2 DEF Typed
<1>8. phase' \in Phases /\ Extractable'
  BY <1>2, <1>4 DEF Phases, Extractable, EndMove, NoDB
<1>9. ASSUME ~StateOfIndex' PROVE IInv'
  BY <1>2, <1>3, <1>8, <1>9, StepFails
<1>10. ASSUME StateOfIndex'
       PROVE  Standing(n + 1, aux', index', value') /\ PutBack(n + 1, index', value')
  <2>1. v = before.value[a]
    <3>1. PICK x : x = IF Rerequested(a) THEN simulateLatents(aux, i, states) ELSE aux
      OBVIOUS
    <3> QED
      BY <1>2, <1>3, <1>7, <1>10, <3>1, RegenCases
  <2>2. Regenerates(a, i, states, v)
    BY <1>1, <1>2, <1>3, <1>5, <1>7, <2>1 DEF Regenerates
  <2>3. PICK l, u : l = index' /\ u = value'
    OBVIOUS
  <2>4. Turns(n, a, index, value, l, u) /\ l[a] = i /\ u[a] = v /\ Standing(n + 1, aux', l, u)
    <3>1. /\ Turns(next, a, index, value, index', value') /\ index'[a] = i /\ value'[a] = v
          /\ Standing(next + 1, aux', index', value')
      BY <1>10, <2>2, StepForward
    <3> QED
      BY <1>1, <2>3, <3>1
  <2>5. PutBack(n + 1, l, u)
    BY <1>4, <1>7, <2>1, <2>4, TurnOn
  <2> QED
    BY <2>3, <2>4, <2>5
<1>11. CASE n < Len(order)
  <2>1. phase' # "idle"
    BY <1>2, <1>11
  <2>2. ASSUME StateOfIndex' PROVE IInv'
    <3>1. Pending' = n + 1 /\ next' \in 1..Len(order) /\ phase' = "restore" /\ db' = db
      BY <1>2, <1>4, <1>5, <1>11 DEF Pending
    <3> QED
      BY <1>2, <1>4, <1>8, <1>10, <1>11, <2>2, <3>1, NotFailed, MovesOn
  <2> QED
    BY <1>9, <2>1, <2>2
<1>12. CASE ~(n < Len(order))
  <2>1. phase' = "idle" /\ n = Len(order) /\ db' = NoDB
    BY <1>2, <1>4, <1>5, <1>12 DEF EndMove
  <2>2. PICK y, l, u : y = aux' /\ l = index' /\ u = value'
    OBVIOUS
  <2>3. ASSUME StateOfIndex'
        PROVE  /\ Typed(procedure, l, u) /\ KeepsAll(procedure, y, l, u) /\ Recorded(y)
               /\ AllEvaluated(l, u) /\ l = before.index /\ u = before.value
    <3>1. Standing(n + 1, y, l, u) /\ PutBack(n + 1, l, u) /\ OutFrom(n + 1) = {}
      <4>1. OutFrom(n + 1) = {}
        BY <1>4, <2>1 DEF OutFrom
      <4> QED
        BY <1>10, <2>2, <2>3, <4>1
    <3>2. /\ Typed(procedure, l, u) /\ KeepsAll(procedure, y, l, u) /\ Recorded(y) /\ Untouched(l, u)
          /\ AllEvaluated(l, u)
      BY <3>1 DEF Standing, Positions, Stands, AllEvaluated
    <3>3. \A b \in Moved : l[b] = before.index[b] /\ u[b] = before.value[b]
      BY <1>4, <2>1, <3>1 DEF Moved, PutBack
    <3>4. \A b \in App : l[b] = before.index[b] /\ u[b] = before.value[b]
      BY <3>2, <3>3 DEF Untouched
    <3> QED
      BY <1>6, <3>2, <3>4 DEF Typed
  <2>4. ASSUME StateOfIndex' PROVE IInv'
    BY <1>2, <1>8, <2>1, <2>2, <2>3, <2>4 DEF IInv, MoveInv
  <2> QED
    BY <1>9, <2>2, <2>3, <2>4
<1> QED
  BY <1>11, <1>12

LEMMA AcceptKeeps ==
  ASSUME IInv, failed = None, Accept
  PROVE  IInv'
<1>1. /\ phase = "propose" /\ phase' = "idle" /\ next > Len(order) /\ db' = NoDB
      /\ UNCHANGED <<procedure, aux, index, value, failed>>
  BY DEF Accept, EndMove
<1>2. Ordered /\ Standing(next, aux, index, value) /\ next \in Nat /\ Len(order) \in Nat
  BY <1>1, NotFailed, MovingIs DEF Pending
<1>3. OutFrom(next) = {}
  BY <1>1, <1>2 DEF OutFrom
<1>4. AllEvaluated(index, value)
  BY <1>2, <1>3 DEF Standing, Positions, Stands, AllEvaluated
<1> QED
  BY <1>1, <1>4 DEF IInv, MoveInv, AllEvaluated, Phases, Extractable, NoDB

LEMMA RejectKeeps ==
  ASSUME IInv, failed = None, Reject
  PROVE  IInv'
<1>1. /\ phase = "propose" /\ phase' = "undo" /\ next > Len(order) /\ next' = Len(order)
      /\ UNCHANGED <<procedure, aux, index, value, order, block, before, db, failed>>
  BY DEF Reject, moveVars
<1>2. /\ Ordered /\ Standing(next, aux, index, value) /\ next \in Nat /\ Len(order) \in Nat
      /\ Extractable /\ Extracted(db, 1)
  BY <1>1, NotFailed, MovingIs DEF Pending, Moving
<1>3. next = Len(order) + 1 /\ Pending' = next
  BY <1>1, <1>2 DEF Ordered, Pending
<1>4. Len(order) >= 1
  BY <1>2 DEF Ordered
<1> QED
  BY <1>1, <1>2, <1>3, <1>4, NotFailed, MovesOn DEF Phases, Extractable
-----------------------------------------------------------------------------
(* In the beginning nothing is applied.                                    *)
LEMMA NoneApplied ==
  ASSUME NEW w
  PROVE  /\ Counts({}, w, ValuesOf({}, w)) = <<>> /\ Outputs({}, w, w) = <<>>
         /\ Counts({}, w, Out) = [v \in Out |-> 0] /\ Cardinality({}) = 0
<1>1. Cardinality({}) = 0
  BY FS_EmptySet
<1>2. ValuesOf({}, w) = {}
  BY DEF ValuesOf
<1>3. \A v : Count({}, w, v) = 0
  <2>1. \A v : {a \in {} : w[a] = v} = {}
    OBVIOUS
  <2> QED
    BY <1>1, <2>1 DEF Count
<1> QED
  BY <1>1, <1>2, <1>3 DEF Counts, Outputs

LEMMA InitIInv == Init => IInv
<1> SUFFICES ASSUME Init PROVE IInv
  OBVIOUS
<1>1. PICK w : w = [a \in App |-> None]
  OBVIOUS
<1>2. /\ procedure \in {"crp", "dir_cat", "hmm"} /\ aux = New /\ index = w /\ value = w /\ phase = "idle" /\ db = NoDB
  BY <1>1, AppAssumption DEF Init
<1>3. AppliedIn(w, w) = {}
  BY <1>1 DEF AppliedIn
<1>4. KeepsAll(procedure, New, w, w)
  <2>1. CASE procedure = "crp"
    <3>1. Seats(NewCRP, {}, w)
      BY NoneApplied DEF Seats, NewCRP
    <3> QED
      BY <1>3, <2>1, <3>1 DEF KeepsAll, Keeps, New
  <2>2. CASE procedure = "dir_cat"
    <3>1. Tallies(NewDirCat, {}, w)
      BY NoneApplied DEF Tallies, NewDirCat
    <3> QED
      BY <1>3, <2>2, <3>1 DEF KeepsAll, Keeps, New
  <2>3. CASE procedure = "hmm"
    <3>1. Emits(NewHMM, {}, w, w)
      BY NoneApplied DEF Emits, NewHMM
    <3> QED
      BY <1>3, <2>3, <3>1 DEF KeepsAll, Keeps, New
  <2> QED
    BY <1>2, <2>1, <2>2, <2>3
<1>5. Typed(procedure, w, w) /\ AllEvaluated(w, w)
  BY <1>1 DEF Typed, AllEvaluated, Evaluated
<1> QED
  BY <1>2, <1>4, <1>5 DEF IInv, MoveInv, Phases, Extractable, NoDB

LEMMA IInvKeeps ==
  ASSUME IInv, [Next]_vars
  PROVE  IInv'
<1>1. CASE UNCHANGED vars
  <2>1. UNCHANGED <<procedure, aux, index, value, phase, order, block, before, next, db, failed>>
    BY <1>1 DEF vars, moveVars
  <2>2. CASE ~StateOfIndex \/ phase = "idle"
    BY <2>1, <2>2 DEF IInv, MoveInv, StateOfIndex, Extractable, AllEvaluated, Evaluated
  <2>3. CASE StateOfIndex /\ phase # "idle"
    <3>1. Ordered /\ Standing(Pending, aux, index, value) /\ Moving /\ Extractable
      BY <2>3, MovingIs
    <3>2. PICK n : n = Pending /\ n = Pending'
      BY <2>1 DEF Pending
    <3>3. next' \in 1..(IF phase' = "propose" THEN Len(order) + 1 ELSE Len(order))
      BY <2>1, <3>1 DEF Ordered
    <3>4. Standing(n, aux', index', value') /\ (phase' \in {"detach", "restore"} => PutBack(n, index', value'))
      BY <2>1, <3>1, <3>2 DEF Moving
    <3>5. Extracted(db', IF phase' = "detach" THEN n ELSE 1) /\ Extractable'
      BY <2>1, <3>1, <3>2 DEF Moving, Extractable
    <3>6. phase' \in Phases \ {"idle"}
      BY <2>1, <2>3 DEF IInv
    <3> QED
      BY <2>1, <2>3, <3>2, <3>3, <3>4, <3>5, <3>6, MovesOn
  <2> QED
    BY <2>2, <2>3
<1>2. CASE Next
  <2> USE <1>2
  <2>1. failed = None
    BY DEF Next
  <2>2. ASSUME NEW a \in App, NEW i \in Indices(a), NEW states, NEW v, Evaluate(a, i, states, v) PROVE IInv'
    BY <2>1, <2>2, EvaluateKeeps
  <2>3. ASSUME NEW a \in App, NEW v, Constrain(a, v) PROVE IInv'
    BY <2>1, <2>3, ConstrainKeeps
  <2>4. ASSUME NEW states, AEInfer(states) PROVE IInv'
    BY <2>1, <2>4, InferKeeps
  <2>5. ASSUME NEW b \in BlocksOf, NEW seq, Begin(b, seq) PROVE IInv'
    BY <2>1, <2>5, BeginKeeps
  <2>6. ASSUME NEW i \in 0..MaxIndex, NEW states, NEW v, ProposeStep(i, states, v) PROVE IInv'
    <3>1. i \in Nat
      BY IndicesAssumption
    <3> QED
      BY <2>1, <2>6, <3>1, ProposeStepKeeps
  <2> QED
    BY <2>1, <2>2, <2>3, <2>4, <2>5, <2>6, DetachStepKeeps, UndoStepKeeps, RestoreStepKeeps, AcceptKeeps, RejectKeeps DEF Next
<1> QED
  BY <1>1, <1>2

(* The statistics and the place of a move fit what is attached, at every   *)
(* step.                                                                   *)
THEOREM StatisticsInvariant == Spec => []IInv
BY InitIInv, IInvKeeps, PTL DEF Spec

(* For every set of applications, blocks and proposals, accepted or        *)
(* rejected, and whatever order a move takes its applications in, the      *)
(* statistics are at every step those of the applications attached, and a  *)
(* new table of the restaurant is new.                                     *)
THEOREM CountsSuffice == Spec => []Sufficient
<1>1. IInv => Sufficient
  <2> SUFFICES ASSUME IInv PROVE Sufficient
    OBVIOUS
  <2>1. PICK A : A = AppliedIn(index, value) /\ A = {a \in App : Applied(a)}
    BY DEF AppliedIn, Applied
  <2>2. Keeps(procedure, aux, A, index, value)
    BY <2>1 DEF IInv, KeepsAll
  <2>3. \A v : Having(v) = {a \in A : value[a] = v}
    BY <2>1 DEF Having
  <2>4. \A v : Cardinality(Having(v)) = Count(A, value, v)
    BY <2>3 DEF Count
  <2>5. CASE procedure = "crp"
    <3>1. Seats(aux, A, value)
      BY <2>2, <2>5 DEF Keeps
    <3>2. aux.tableCounts = [v \in ValuesOf(A, value) |-> Count(A, value, v)]
      BY <3>1 DEF Seats, Counts
    <3>3. \A t \in DOMAIN aux.tableCounts : t < aux.nextIndex
      BY <3>1, <3>2 DEF Seats, ValuesOf
    <3> QED
      BY <2>1, <2>4, <2>5, <3>2, <3>3 DEF Sufficient, ValuesOf
  <2>6. CASE procedure = "dir_cat"
    <3>1. aux.counts = [v \in Out |-> Count(A, value, v)]
      BY <2>2, <2>6 DEF Keeps, Tallies, Counts
    <3> QED
      BY <2>4, <2>6, <3>1 DEF Sufficient
  <2>7. CASE procedure = "hmm"
    <3>1. aux.os = [i \in ValuesOf(A, index) |-> [v \in Out |-> Count(At(A, index, i), value, v)]]
      BY <2>2, <2>7 DEF Keeps, Emits, Outputs, Counts
    <3>2. \A i, v : Emitting(i, v) = {a \in At(A, index, i) : value[a] = v}
      BY <2>3 DEF Emitting, At
    <3>3. \A i, v : Cardinality(Emitting(i, v)) = Count(At(A, index, i), value, v)
      BY <3>2 DEF Count
    <3> QED
      BY <2>1, <2>7, <3>1, <3>3 DEF Sufficient, ValuesOf
  <2> QED
    BY <2>2, <2>5, <2>6, <2>7 DEF Keeps
<1> QED
  BY StatisticsInvariant, <1>1, PTL
-----------------------------------------------------------------------------
(* How far the hidden states go.                                           *)
LEMMA LessThan == IsWellFoundedOn({ss \in Nat \X Nat : ss[1] < ss[2]}, Nat)
BY NatLessThanWellFounded, Zenon DEF OpToRel
LEMMA Largest ==
  ASSUME NEW S, S \subseteq Nat, NEW n \in Nat, \A s \in S : s < n, S # {}
  PROVE  \E m \in S : \A s \in S : s <= m
<1>1. PICK T : T = {n - s : s \in S}
  OBVIOUS
<1>2. T \subseteq Nat /\ T # {}
  <2>1. \A s \in S : n - s \in Nat
    OBVIOUS
  <2>2. \A t \in T : \E s \in S : t = n - s
    BY <1>1
  <2> QED
    BY <1>1, <2>1, <2>2
<1>3. PICK R : R = {ss \in Nat \X Nat : ss[1] < ss[2]}
  OBVIOUS
<1>4. PICK t \in T : \A u \in T : ~ (<<u, t>> \in R)
  BY <1>2, <1>3, LessThan, WFMin
<1>5. \A u \in T : ~(u < t)
  BY <1>2, <1>3, <1>4
<1>6. PICK m \in S : t = n - m
  BY <1>1
<1>7. ASSUME NEW s \in S PROVE s <= m
  <2>1. n - s \in T
    BY <1>1
  <2> QED
    BY <1>5, <1>6, <2>1
<1> QED
  BY <1>7

LEMMA DepthIs ==
  ASSUME NEW R, R \subseteq Nat, NEW n, IsDepth(n, R)
  PROVE  n = IF R = {} THEN 0 ELSE Max(R) + 1
<1>1. n \in Nat /\ (\A r \in R : r < n) /\ (n > 0 => n - 1 \in R)
  BY DEF IsDepth
<1>2. CASE R = {}
  BY <1>1, <1>2
<1>3. CASE R # {}
  <2>1. n > 0 /\ n - 1 \in R /\ \A r \in R : n - 1 >= r
    <3>1. PICK r \in R : r \in Nat /\ r < n
      BY <1>1, <1>3
    <3>2. ASSUME NEW s \in R PROVE n - 1 >= s
      <4>1. s \in Nat /\ s < n
        BY <1>1
      <4> QED
        BY <1>1, <4>1
    <3>3. n > 0
      BY <1>1, <3>1
    <3> QED
      BY <1>1, <3>2, <3>3
  <2>2. PICK m : m = Max(R)
    OBVIOUS
  <2>3. m \in R /\ \A r \in R : m >= r
    BY <2>1, <2>2 DEF Max
  <2>4. m = n - 1
    <3>1. m \in Nat /\ m >= n - 1 /\ n - 1 >= m
      BY <2>1, <2>3
    <3> QED
      BY <1>1, <3>1
  <2> QED
    BY <1>1, <1>3, <2>2, <2>4
<1> QED
  BY <1>2, <1>3

LEMMA DepthOfMax ==
  ASSUME NEW R, R \subseteq Nat, NEW n \in Nat, \A r \in R : r < n, R # {}
  PROVE  IsDepth(Max(R) + 1, R) /\ Max(R) + 1 <= n
<1>1. PICK k \in R : \A r \in R : r <= k
  BY Largest
<1>2. PICK m : m = Max(R)
  OBVIOUS
<1>3. m \in R /\ \A r \in R : m >= r
  <2>1. \A r \in R : k >= r
    BY <1>1
  <2> QED
    BY <1>2, <2>1 DEF Max
<1>4. \A r \in R : r < m + 1
  BY <1>3
<1>5. m \in Nat /\ m < n /\ (m + 1) - 1 = m
  BY <1>3
<1> QED
  BY <1>2, <1>3, <1>4, <1>5 DEF IsDepth

(* The states of x suffice for the requests R, and with states for one of  *)
(* i, too; or they suffice for R and i, and R is what has outputs.         *)
HasStates(x)  == x = [xs |-> x.xs, os |-> x.os] /\ x.xs \in Seq(Hidden)
CanExtend(x, R, i, states) ==
  /\ HasStates(x) /\ i \in Nat /\ R \subseteq Nat /\ IsDepth(Len(x.xs), R)
  /\ \A j \in Missing(x, i) : states[j] \in Hidden
CanTrim(x, R, i) ==
  /\ HasStates(x) /\ i \in Nat /\ R \subseteq Nat /\ IsDepth(Len(x.xs), R \cup {i})
  /\ DOMAIN x.os = R /\ (x.os = <<>> <=> R = {})

Continues(x, i, states, y) ==
  \A j \in 1..Len(y.xs) : IF j <= Len(x.xs) THEN y.xs[j] = x.xs[j]
                          ELSE j - 1 \in Missing(x, i) /\ y.xs[j] = states[j - 1]

LEMMA ExtendedIs ==
  ASSUME NEW x, NEW R, NEW i, NEW states, CanExtend(x, R, i, states), NEW y, y = Extended(x, i, states)
  PROVE  /\ y.xs \in Seq(Hidden) /\ IsDepth(Len(y.xs), R \cup {i}) /\ i < Len(y.xs) /\ Len(x.xs) <= Len(y.xs)
         /\ Continues(x, i, states, y)
<1>1. PICK X, n, m : X = x.xs /\ n = Len(X) /\ m = Max({n, i + 1})
  OBVIOUS
<1>2. X \in Seq(Hidden) /\ n \in Nat /\ i \in Nat /\ IsDepth(n, R) /\ R \subseteq Nat
  BY <1>1 DEF CanExtend, HasStates
<1>3. m \in Nat /\ m >= n /\ m >= i + 1 /\ (m = n \/ m = i + 1)
  <2>1. n \in Int /\ i + 1 \in Int
    BY <1>2
  <2>2. m \in {n, i + 1} /\ m >= n /\ m >= i + 1
    BY <1>1, <2>1, MaxOfTwo
  <2> QED
    BY <1>2, <2>2
<1>4. PICK Y : Y = [j \in 1..m |-> IF j <= n THEN X[j] ELSE states[j - 1]]
  OBVIOUS
<1>5. y.xs = Y
  <2>1. y = [x EXCEPT !.xs = Y]
    BY <1>1, <1>4 DEF Extended
  <2> QED
    BY <2>1 DEF CanExtend, HasStates
<1>6. \A j \in 1..m : j > n => j - 1 \in Missing(x, i)
  <2>1. Missing(x, i) = n..i
    BY <1>1 DEF Missing
  <2> QED
    BY <1>2, <1>3, <2>1
<1>7. \A j \in 1..m : Y[j] \in Hidden
  <2>1. \A j \in 1..n : X[j] \in Hidden
    BY <1>1, <1>2
  <2> QED
    BY <1>2, <1>3, <1>4, <1>6, <2>1 DEF CanExtend
<1>8. Y \in [1..m -> Hidden]
  BY <1>4, <1>7
<1>9. Y \in Seq(Hidden) /\ Len(Y) = m
  BY <1>3, <1>8
<1>10. IsDepth(m, R \cup {i})
  BY <1>2, <1>3 DEF IsDepth
<1>11. \A j \in 1..m : IF j <= n THEN Y[j] = X[j] ELSE j - 1 \in Missing(x, i) /\ Y[j] = states[j - 1]
  BY <1>2, <1>3, <1>4, <1>6
<1>12. i < m
  BY <1>2, <1>3
<1>13. Continues(x, i, states, y)
  BY <1>1, <1>5, <1>9, <1>11 DEF Continues
<1> QED
  BY <1>1, <1>3, <1>5, <1>9, <1>10, <1>12, <1>13

LEMMA TrimmedIs ==
  ASSUME NEW x, NEW R, NEW i, CanTrim(x, R, i), NEW y, y = Trimmed(x, i)
  PROVE  /\ y.xs \in Seq(Hidden) /\ IsDepth(Len(y.xs), R) /\ Len(y.xs) <= Len(x.xs) /\ Len(y.xs) = Needed(x, i)
         /\ \A j \in 1..Len(y.xs) : y.xs[j] = x.xs[j]
<1>1. PICK X, n, m : X = x.xs /\ n = Len(X) /\ m = Needed(x, i)
  OBVIOUS
<1>2. X \in Seq(Hidden) /\ n \in Nat /\ i \in Nat /\ IsDepth(n, R \cup {i}) /\ R \subseteq Nat
  BY <1>1 DEF CanTrim, HasStates
<1>3. IsDepth(m, R) /\ m <= n
  <2>1. CASE n # i + 1 \/ i \in R
    <3>1. m = n
      BY <1>1, <2>1 DEF Needed, CanTrim
    <3> QED
      BY <1>2, <2>1, <3>1 DEF IsDepth
  <2>2. CASE n = i + 1 /\ R = {}
    <3>1. m = 0
      BY <1>1, <2>2 DEF Needed, CanTrim
    <3> QED
      BY <1>2, <2>2, <3>1 DEF IsDepth
  <2>3. CASE n = i + 1 /\ i \notin R /\ R # {}
    <3>1. m = Max(R) + 1
      BY <1>1, <2>3 DEF Needed, CanTrim
    <3>2. \A r \in R : r < n
      BY <1>2 DEF IsDepth
    <3> QED
      BY <1>2, <2>3, <3>1, <3>2, DepthOfMax
  <2> QED
    BY <2>1, <2>2, <2>3
<1>4. m \in 0..n
  BY <1>2, <1>3 DEF IsDepth
<1>5. y.xs = SubSeq(X, 1, m)
  BY <1>1 DEF Trimmed, CanTrim, HasStates
<1>6. y.xs \in Seq(Hidden) /\ Len(y.xs) = m /\ \A j \in 1..m : y.xs[j] = X[j]
  BY <1>1, <1>2, <1>4, <1>5
<1> QED
  BY <1>1, <1>3, <1>6
-----------------------------------------------------------------------------
(* Hidden states and requests.                                             *)
LEMMA StatesIs ==
  ASSUME HasLatents, NEW k, NEW w, NEW x, KeepsAll(procedure, x, k, w), x.xs \in Seq(Hidden)
  PROVE  /\ HasStates(x) /\ DOMAIN x.os = ValuesOf(AppliedIn(k, w), k)
         /\ x.os = <<>> <=> ValuesOf(AppliedIn(k, w), k) = {}
<1>1. PICK I, O : I = ValuesOf(AppliedIn(k, w), k) /\ O = Outputs(AppliedIn(k, w), k, w)
  OBVIOUS
<1>2. x = [xs |-> x.xs, os |-> O]
  BY <1>1 DEF HasLatents, KeepsAll, Keeps, Emits
<1>3. x.os = O /\ HasStates(x)
  BY <1>2 DEF HasStates
<1>4. O = [i \in I |-> Counts(At(AppliedIn(k, w), k, i), w, Out)]
  BY <1>1 DEF Outputs
<1>5. DOMAIN O = I /\ (I = {} => O = <<>>)
  BY <1>4
<1>6. DOMAIN <<>> = {}
  OBVIOUS
<1> QED
  BY <1>1, <1>3, <1>5, <1>6

LEMMA StatisticsHaveNoStates ==
  ASSUME HasLatents, NEW x, HasStates(x), NEW i, NEW v
  PROVE  incorporate(x, i, v).xs = x.xs /\ unincorporate(x, i, v).xs = x.xs
<1>1. PICK X, O : x = [xs |-> X, os |-> O]
  BY DEF HasStates
<1>2. incorporate(x, i, v) = Observe(x, i, v) /\ unincorporate(x, i, v) = Unobserve(x, i, v)
  BY DEF HasLatents, incorporate, unincorporate
<1>3. Observe(x, i, v).xs = X
  BY <1>1 DEF Observe
<1>4. Unobserve(x, i, v).xs = X
  BY <1>1 DEF Unobserve
<1> QED
  BY <1>1, <1>2, <1>3, <1>4

LEMMA RequestsApplied ==
  ASSUME NEW k, NEW w, \A b \in App : k[b] # None => w[b] # None
  PROVE  ValuesOf(AppliedIn(k, w), k) = RequestedIn(k)
BY DEF ValuesOf, AppliedIn, RequestedIn

LEMMA RequestsAreNat ==
  ASSUME NEW k, NEW w, Typed(procedure, k, w)
  PROVE  RequestedIn(k) \subseteq Nat
BY DEF Typed, RequestedIn

LEMMA TurnRequests ==
  ASSUME Ordered, NEW n, NEW a, NEW k, NEW w, NEW l, NEW u, Turns(n, a, k, w, l, u)
  PROVE  /\ RequestedIn(l) = IF Rerequested(a) THEN RequestedIn(k) \cup {l[a]} ELSE RequestedIn(k)
         /\ l[a] \in RequestedIn(l) /\ a \in Moved /\ l[a] \in Nat
<1>1. a \in App /\ a \in Moved
  BY PlaceIs DEF Turns
<1>2. \A b \in App \ {a} : l[b] = k[b]
  BY DEF Turns
<1>3. l[a] # None /\ (Rerequested(a) <=> k[a] = None) /\ (~Rerequested(a) => l[a] = k[a])
  BY DEF Turns
<1>4. l[a] \in Nat
  BY <1>1, <1>3 DEF Turns, Typed
<1>5. l[a] \in RequestedIn(l)
  BY <1>1, <1>3 DEF RequestedIn
<1>6. CASE Rerequested(a)
  BY <1>1, <1>2, <1>3, <1>4, <1>5, <1>6 DEF RequestedIn
<1>7. CASE ~Rerequested(a)
  BY <1>1, <1>2, <1>3, <1>4, <1>5, <1>7 DEF RequestedIn
<1> QED
  BY <1>1, <1>4, <1>5, <1>6, <1>7

(* In a move of requests.                                                  *)
LEMMA StandingRequests ==
  ASSUME Ordered, NEW n \in 1..Len(order), NEW y, NEW k, NEW w, Standing(n, y, k, w), \A b \in Moved : Rerequested(b)
  PROVE  /\ ValuesOf(AppliedIn(k, w), k) = RequestedIn(k)
         /\ Stays \subseteq RequestedIn(k) /\ Stays \subseteq Nat
         /\ n = 1 => Stays = RequestedIn(k)
<1>1. n \in Nat /\ Len(order) \in Nat
  BY DEF Ordered
<1>2. OutFrom(n) \subseteq Moved /\ (n = 1 => OutFrom(n) = Moved)
  BY <1>1 DEF OutFrom, Moved
<1>3. \A b \in App : Stands(n, k, w, b)
  BY DEF Standing, Positions
<1>4. \A b \in OutFrom(n) : b \in App => k[b] = None
  BY <1>2, <1>3 DEF Stands
<1>5. \A b \in App : k[b] # None => w[b] # None
  BY <1>3, <1>4 DEF Stands, Evaluated
<1>6. \A b \in App \ Moved : k[b] = before.index[b]
  BY DEF Standing, Untouched
<1>7. Stays \subseteq RequestedIn(k) /\ (n = 1 => Stays = RequestedIn(k))
  BY <1>2, <1>4, <1>6 DEF Stays, RequestedIn
<1>8. RequestedIn(k) \subseteq Nat
  BY RequestsAreNat DEF Standing
<1> QED
  BY <1>5, <1>7, <1>8, RequestsApplied

LEMMA JInvIs ==
  ASSUME JInv, HasLatents
  PROVE  IInv /\ StateOfIndex /\ Depth(aux, index) /\ (phase # "idle" => Latents(phase, aux, db.latents))
BY DEF JInv

LEMMA LatentsIs ==
  ASSUME NEW ph, NEW x, NEW d, Latents(ph, x, d)
  PROVE  /\ Depth(before.aux, before.index)
         /\ \/ (\A a \in Moved : ~Rerequested(a)) /\ x.xs = before.aux.xs
            \/ /\ \A a \in Moved : Rerequested(a)
               /\ ph \in {"detach", "restore"} => Agrees(Len(x.xs), x)
               /\ ph = "detach" => Saves(Len(x.xs), d)
               /\ ph # "detach" => \E n \in Nat : Bottom(n, x, d)
BY DEF Latents
(* An application is detached: the states that its request needed go, and  *)
(* those of before the move are in the latent database.                    *)
LEMMA StepBackStates ==
  ASSUME JInv, failed = None, HasLatents, phase \in {"detach", "undo"}, NEW a, a = order[next], Detached(a),
         NEW d, d = IF phase = "detach" THEN Extract(a).latents ELSE db.latents
  PROVE  Depth(aux', index') /\ Latents(phase, aux', d)
<1>1. PICK n, x, i, y, k, w : /\ n = next /\ i = index[a] /\ x = unincorporate(aux, i, value[a])
                              /\ y = aux' /\ k = index' /\ w = value'
  OBVIOUS
<1>2. IInv /\ Depth(aux, index) /\ Latents(phase, aux, db.latents) /\ Depth(before.aux, before.index)
  <2>1. IInv /\ Depth(aux, index) /\ Latents(phase, aux, db.latents)
    BY JInvIs
  <2> QED
    BY <2>1 DEF Latents
<1>3. Ordered /\ n \in 1..Len(order)
  BY <1>1, <1>2, NotFailed, MovingIs, StepBack
<1>4. Turns(n, a, k, w, index, value) /\ Standing(n, y, k, w) /\ KeepsAll(procedure, x, k, w)
  BY <1>1, <1>2, StepBack
<1>5. /\ RequestedIn(index) = IF Rerequested(a) THEN RequestedIn(k) \cup {i} ELSE RequestedIn(k)
      /\ a \in Moved /\ i \in Nat
  BY <1>1, <1>3, <1>4, TurnRequests
<1>6. y = IF Rerequested(a) THEN Trimmed(x, i) ELSE x
  BY <1>1 DEF Detached, HasLatents, detachLatents
<1>7. x.xs = aux.xs /\ x.xs \in Seq(Hidden) /\ IsDepth(Len(x.xs), RequestedIn(index))
  <2>1. KeepsAll(procedure, aux, index, value) /\ aux.xs \in Seq(Hidden) /\ IsDepth(Len(aux.xs), RequestedIn(index))
    BY <1>2 DEF IInv, Depth
  <2>2. HasStates(aux)
    BY <2>1, StatesIs
  <2> QED
    BY <1>1, <2>1, <2>2, StatisticsHaveNoStates
<1>8. CASE (\A b \in Moved : ~Rerequested(b)) /\ aux.xs = before.aux.xs
  <2>1. ~Rerequested(a) /\ y.xs = aux.xs
    BY <1>5, <1>6, <1>7, <1>8
  <2>2. Depth(y, k)
    BY <1>5, <1>7, <2>1 DEF Depth
  <2>3. Latents(phase, y, d)
    BY <1>2, <1>8, <2>1 DEF Latents
  <2> QED
    BY <1>1, <2>2, <2>3
<1>9. CASE \A b \in Moved : Rerequested(b)
  <2>1. Rerequested(a) /\ y = Trimmed(x, i)
    BY <1>5, <1>6, <1>9
  <2>2. PICK R : R = RequestedIn(k)
    OBVIOUS
  <2>3. ValuesOf(AppliedIn(k, w), k) = R /\ Stays \subseteq R
    BY <1>3, <1>4, <1>9, <2>2, StandingRequests
  <2>4. CanTrim(x, R, i)
    <3>1. R \subseteq Nat
      BY <1>4, <2>2, RequestsAreNat DEF Standing
    <3>2. HasStates(x) /\ DOMAIN x.os = R /\ (x.os = <<>> <=> R = {})
      BY <1>4, <1>7, <2>3, StatesIs
    <3>3. RequestedIn(index) = R \cup {i}
      BY <1>5, <2>1, <2>2
    <3> QED
      BY <1>5, <1>7, <3>1, <3>2, <3>3 DEF CanTrim
  <2>5. PICK m, N : m = Len(y.xs) /\ N = Len(x.xs)
    OBVIOUS
  <2>6. /\ y.xs \in Seq(Hidden) /\ IsDepth(m, R) /\ m <= N /\ m = Needed(x, i)
        /\ \A j \in 1..m : y.xs[j] = x.xs[j]
    BY <2>1, <2>4, <2>5, TrimmedIs
  <2>7. m \in Nat /\ N \in Nat
    BY <1>7, <2>5, <2>6 DEF IsDepth
  <2>8. Depth(y, k)
    BY <2>2, <2>5, <2>6 DEF Depth
  <2>9. CASE phase = "detach"
    <3>1. Agrees(N, aux) /\ Saves(N, db.latents)
      BY <1>2, <1>5, <1>7, <2>1, <2>5, <2>9 DEF Latents
    <3>2. Agrees(m, y)
      BY <1>7, <2>5, <2>6, <2>7, <3>1 DEF Agrees
    <3>3. d = Saved(x, i, db.latents) /\ Gone(x, i) = m..N - 1
      BY <1>1, <2>1, <2>5, <2>6, <2>9 DEF Extract, Gone
    <3>4. Saves(m, d)
      <4>1. Len(before.aux.xs) \in Nat
        BY <1>2 DEF Depth
      <4>2. ASSUME NEW j \in m..Len(before.aux.xs) - 1 PROVE j \in DOMAIN d /\ d[j] = before.aux.xs[j + 1]
        <5>1. CASE j \in m..N - 1
          <6>1. d[j] = x.xs[j + 1] /\ j \in DOMAIN d
            BY <3>3, <5>1 DEF Saved
          <6>2. j + 1 \in 1..N
            BY <2>7, <5>1
          <6> QED
            BY <1>7, <3>1, <6>1, <6>2 DEF Agrees
        <5>2. CASE j \notin m..N - 1
          <6>1. j \in N..Len(before.aux.xs) - 1
            BY <2>7, <4>1, <4>2, <5>2
          <6> QED
            BY <3>1, <3>3, <5>2, <6>1 DEF Saves, Saved
        <5> QED
          BY <5>1, <5>2
      <4> QED
        BY <4>2 DEF Saves
    <3> QED
      BY <1>1, <1>2, <1>9, <2>5, <2>8, <2>9, <3>2, <3>4 DEF Latents
  <2>10. CASE phase = "undo"
    <3>1. PICK f \in Nat : Bottom(f, aux, db.latents)
      BY <1>2, <1>5, <2>1, <2>10 DEF Latents
    <3>2. f <= m
      <4>1. CASE f = 0
        BY <2>7, <4>1
      <4>2. CASE f > 0
        <5>1. f - 1 \in R
          BY <2>3, <3>1, <4>2 DEF Bottom, IsDepth
        <5>2. f - 1 < m
          BY <2>6, <5>1 DEF IsDepth
        <5> QED
          BY <2>7, <5>2
      <4> QED
        BY <4>1, <4>2
    <3>3. Agrees(f, y)
      <4>1. \A j \in 1..f : j \in 1..m
        BY <2>7, <3>2
      <4> QED
        BY <1>7, <2>5, <2>6, <3>1, <3>2, <4>1 DEF Bottom, Agrees
    <3>4. Bottom(f, y, d)
      BY <2>10, <3>1, <3>3 DEF Bottom
    <3> QED
      BY <1>1, <1>2, <1>9, <2>8, <2>10, <3>4 DEF Latents
  <2> QED
    BY <2>9, <2>10
<1> QED
  BY <1>2, <1>8, <1>9, LatentsIs

(* When everything that moves is detached, exactly the states are left     *)
(* that the others need.                                                   *)
LEMMA TurnStates ==
  ASSUME Ordered, HasLatents, NEW y, NEW k, NEW w, Standing(1, y, k, w), Depth(y, k),
         NEW ph \in {"detach", "undo"}, NEW d, Latents(ph, y, d)
  PROVE  Latents(IF ph = "detach" THEN "propose" ELSE "restore", y, d)
<1>1. Depth(before.aux, before.index)
  BY DEF Latents
<1>2. CASE (\A b \in Moved : ~Rerequested(b)) /\ y.xs = before.aux.xs
  BY <1>1, <1>2 DEF Latents
<1>3. CASE \A b \in Moved : Rerequested(b)
  <2>1. PICK m : m = Len(y.xs)
    OBVIOUS
  <2>2. 1 \in 1..Len(order) /\ \E j : j \in 1..Len(order)
    BY DEF Ordered
  <2>3. m \in Nat /\ IsDepth(m, Stays) /\ Stays \subseteq Nat
    <3>1. Stays = RequestedIn(k) /\ Stays \subseteq Nat
      BY <1>3, <2>2, StandingRequests
    <3> QED
      BY <2>1, <3>1 DEF Depth
  <2>4. \E b \in Moved : TRUE
    BY <2>2 DEF Moved
  <2>5. CASE ph = "detach"
    <3>1. Agrees(m, y) /\ Saves(m, d)
      BY <1>3, <2>1, <2>4, <2>5 DEF Latents
    <3>2. Bottom(m, y, d)
      BY <2>3, <3>1 DEF Bottom
    <3> QED
      BY <1>1, <1>3, <2>3, <2>5, <3>2 DEF Latents
  <2>6. CASE ph = "undo"
    <3>1. PICK f \in Nat : Bottom(f, y, d)
      BY <1>3, <2>4, <2>6 DEF Latents
    <3>2. f = m
      <4>1. f = (IF Stays = {} THEN 0 ELSE Max(Stays) + 1) /\ m = (IF Stays = {} THEN 0 ELSE Max(Stays) + 1)
        BY <2>3, <3>1, DepthIs DEF Bottom
      <4> QED
        BY <4>1
    <3>3. Agrees(m, y)
      BY <3>1, <3>2 DEF Bottom
    <3> QED
      BY <1>1, <1>3, <2>1, <2>6, <3>1, <3>3 DEF Latents
  <2> QED
    BY <2>5, <2>6
<1> QED
  BY <1>2, <1>3, LatentsIs
(* An application is proposed or restored with states for its request, in  *)
(* a restoration those of before the move: its hidden state is there.      *)
StatesFit(a, i, states) ==
  Rerequested(a) => \A j \in Missing(aux, i) :
    /\ states[j] \in Hidden
    /\ phase = "restore" => j + 1 <= Len(before.aux.xs) /\ states[j] = before.aux.xs[j + 1]

LEMMA StepForwardStates ==
  ASSUME JInv, failed = None, HasLatents, NEW a, NEW i, NEW states, NEW v, Regenerates(a, i, states, v),
         StatesFit(a, i, states)
  PROVE  StateOfIndex' /\ Depth(aux', index') /\ Latents(phase, aux', db.latents)
<1>1. PICK n, x : n = next /\ x = (IF Rerequested(a) THEN simulateLatents(aux, i, states) ELSE aux)
  OBVIOUS
<1>2. /\ phase \in {"propose", "restore"} /\ Regen(a, i, states, v) /\ i \in Nat
      /\ a = order[n] /\ n \in 1..Len(order)
  BY <1>1 DEF Regenerates
<1>3. IInv /\ Depth(aux, index) /\ Latents(phase, aux, db.latents) /\ Depth(before.aux, before.index)
  <2>1. IInv /\ Depth(aux, index) /\ Latents(phase, aux, db.latents)
    BY <1>2, JInvIs
  <2> QED
    BY <2>1 DEF Latents
<1>4. Ordered /\ Standing(n, aux, index, value)
  BY <1>1, <1>2, <1>3, NotFailed, MovingIs DEF Pending
<1>5. a \in App /\ a \in Moved /\ (Rerequested(a) <=> index[a] = None)
  <2>1. a \in App /\ a \in Moved /\ OutFrom(n) = OutFrom(n + 1) \cup {a}
    BY <1>2, <1>4, PlaceIs
  <2> QED
    BY <1>4, <2>1 DEF Standing, Positions, Stands
<1>6. HasStates(aux) /\ aux.xs \in Seq(Hidden) /\ RequestedIn(index) \subseteq Nat /\ IsDepth(Len(aux.xs), RequestedIn(index))
  <2>1. KeepsAll(procedure, aux, index, value) /\ aux.xs \in Seq(Hidden) /\ Typed(procedure, index, value)
    BY <1>3 DEF IInv, Depth
  <2> QED
    BY <1>3, <2>1, StatesIs, RequestsAreNat DEF Depth
<1>7. Rerequested(a) => CanExtend(aux, RequestedIn(index), i, states) /\ x = Extended(aux, i, states)
  BY <1>1, <1>2, <1>6 DEF CanExtend, StatesFit, simulateLatents
<1>8. HasStates(x) /\ i < Len(x.xs)
  <2>1. CASE Rerequested(a)
    <3>0. CanExtend(aux, RequestedIn(index), i, states) /\ x = Extended(aux, i, states)
      BY <1>7, <2>1
    <3>1. i < Len(x.xs) /\ x.xs \in Seq(Hidden)
      BY <3>0, ExtendedIs
    <3>2. x = [aux EXCEPT !.xs = x.xs] /\ x.xs \in Seq(Hidden)
      <4>1. \E X : x = [aux EXCEPT !.xs = X]
        BY <3>0 DEF Extended
      <4> QED
        BY <1>6, <3>1, <4>1 DEF HasStates
    <3>3. x = [xs |-> x.xs, os |-> x.os]
      BY <1>6, <3>2 DEF HasStates
    <3> QED
      BY <3>1, <3>2, <3>3 DEF HasStates
  <2>2. CASE ~Rerequested(a)
    <3>1. i = index[a] /\ x = aux
      BY <1>1, <1>2, <2>2, RegenCases
    <3>2. i \in RequestedIn(index)
      BY <1>5, <2>2, <3>1 DEF RequestedIn
    <3> QED
      BY <1>6, <3>1, <3>2 DEF IsDepth
  <2> QED
    BY <2>1, <2>2
<1>9. StateOfIndex' /\ aux' = incorporate(x, i, v)
  <2>1. CanApply(x, i)
    <3>1. Len(x.xs) \in Nat
      BY <1>8 DEF HasStates
    <3> QED
      BY <1>2, <1>8, <3>1 DEF CanApply
  <2>2. StateOfIndex'
    BY <1>1, <1>2, <2>1, RegenCases
  <2> QED
    BY <1>1, <1>2, <2>2, RegenCases
<1>10. PICK y, l, u : y = aux' /\ l = index' /\ u = value'
  OBVIOUS
<1>11. y.xs = x.xs
  BY <1>8, <1>9, <1>10, StatisticsHaveNoStates
<1>12. /\ RequestedIn(l) = (IF Rerequested(a) THEN RequestedIn(index) \cup {i} ELSE RequestedIn(index))
  <2>1. Turns(n, a, index, value, l, u) /\ l[a] = i
    BY <1>1, <1>3, <1>9, <1>10, StepForward
  <2> QED
    BY <1>4, <2>1, TurnRequests
<1>13. CASE (\A b \in Moved : ~Rerequested(b)) /\ aux.xs = before.aux.xs
  <2>1. ~Rerequested(a) /\ x = aux
    BY <1>1, <1>5, <1>13
  <2>2. Depth(y, l)
    BY <1>6, <1>11, <1>12, <2>1 DEF Depth
  <2>3. Latents(phase, y, db.latents)
    BY <1>3, <1>11, <1>13, <2>1 DEF Latents
  <2> QED
    BY <1>9, <1>10, <2>2, <2>3
<1>14. CASE \A b \in Moved : Rerequested(b)
  <2>1. PICK N, m : N = Len(aux.xs) /\ m = Len(y.xs)
    OBVIOUS
  <2>2. Rerequested(a)
    BY <1>5, <1>14
  <2>3. /\ y.xs \in Seq(Hidden) /\ IsDepth(m, RequestedIn(index) \cup {i}) /\ N <= m
        /\ \A j \in 1..m : IF j <= N THEN y.xs[j] = aux.xs[j] ELSE j - 1 \in Missing(aux, i) /\ y.xs[j] = states[j - 1]
    <3>1. CanExtend(aux, RequestedIn(index), i, states) /\ x = Extended(aux, i, states)
      BY <1>7, <2>2
    <3>2. /\ x.xs \in Seq(Hidden) /\ IsDepth(Len(x.xs), RequestedIn(index) \cup {i}) /\ Len(aux.xs) <= Len(x.xs)
          /\ Continues(aux, i, states, x)
      BY <3>1, ExtendedIs
    <3> QED
      BY <1>11, <2>1, <3>2 DEF Continues
  <2>4. Depth(y, l)
    BY <1>12, <2>1, <2>2, <2>3 DEF Depth
  <2>5. N \in Nat /\ m \in Nat
    BY <1>6, <2>1, <2>3 DEF IsDepth
  <2>6. PICK f \in Nat : Bottom(f, aux, db.latents)
    BY <1>2, <1>3, <1>5, <2>2 DEF Latents
  <2>7. Bottom(f, y, db.latents)
    <3>1. f <= N /\ \A j \in 1..f : j \in 1..N /\ j \in 1..m /\ j <= N
      <4>1. f <= N
        BY <2>1, <2>6 DEF Bottom, Agrees
      <4> QED
        BY <2>3, <2>5, <4>1
    <3>2. f <= m
      BY <2>3, <2>5, <3>1
    <3>3. Agrees(f, y)
      BY <2>1, <2>3, <2>6, <3>1, <3>2 DEF Bottom, Agrees
    <3> QED
      BY <2>6, <3>3 DEF Bottom
  <2>8. phase = "restore" => Agrees(m, y)
    <3> SUFFICES ASSUME phase = "restore" PROVE Agrees(m, y)
      OBVIOUS
    <3>1. Agrees(N, aux)
      BY <1>3, <1>5, <2>1, <2>2 DEF Latents
    <3>2. ASSUME NEW j \in 1..m PROVE j <= Len(before.aux.xs) /\ y.xs[j] = before.aux.xs[j]
      <4>1. CASE j <= N
        <5>1. j \in 1..N
          BY <2>5, <4>1
        <5> QED
          BY <2>3, <3>1, <4>1, <5>1 DEF Agrees
      <4>2. CASE ~(j <= N)
        <5>1. j - 1 \in Missing(aux, i) /\ y.xs[j] = states[j - 1] /\ (j - 1) + 1 = j
          BY <2>3, <4>2
        <5> QED
          BY <2>2, <5>1 DEF StatesFit
      <4> QED
        BY <4>1, <4>2
    <3> QED
      BY <2>1, <2>5, <3>2 DEF Agrees
  <2>9. Latents(phase, y, db.latents)
    BY <1>2, <1>3, <1>14, <2>1, <2>7, <2>8 DEF Latents
  <2> QED
    BY <1>9, <1>10, <2>4, <2>9
<1> QED
  BY <1>3, <1>13, <1>14, LatentsIs

(* A move that has taken a step.                                           *)
LEMMA StatesOn ==
  ASSUME IInv', StateOfIndex', UNCHANGED <<procedure, order, block, before>>, Depth(aux', index'),
         NEW d, d = db'.latents, phase' # "idle" => Latents(phase', aux', d)
  PROVE  JInv'
<1>1. PICK ph, y, k : ph = phase' /\ y = aux' /\ k = index'
  OBVIOUS
<1>2. ph # "idle" => Latents(ph, y, d)'
  <2>1. Depth(before.aux, before.index)' <=> Depth(before.aux, before.index)
    BY DEF Depth, RequestedIn
  <2>2. \A n : (Agrees(n, y)' <=> Agrees(n, y)) /\ (Saves(n, d)' <=> Saves(n, d))
    BY DEF Agrees, Saves
  <2>3. Stays' = Stays
    BY DEF Stays, Moved
  <2>4. \A n : Bottom(n, y, d)' <=> Bottom(n, y, d)
    BY <2>2, <2>3 DEF Bottom
  <2>5. Moved' = Moved /\ \A b : (Rerequested(b)' <=> Rerequested(b))
    BY DEF Moved, Rerequested
  <2>6. ((\A b \in Moved : ~Rerequested(b)) /\ y.xs = before.aux.xs)' <=> ((\A b \in Moved : ~Rerequested(b)) /\ y.xs = before.aux.xs)
    BY <2>5
  <2>7. (\A b \in Moved : Rerequested(b))' <=> (\A b \in Moved : Rerequested(b))
    BY <2>5
  <2> QED
    BY <1>1, <2>1, <2>2, <2>4, <2>6, <2>7 DEF Latents
<1> QED
  BY <1>1, <1>2 DEF JInv, HasLatents, Depth

LEMMA StatesRest ==
  ASSUME IInv', StateOfIndex', phase' = "idle", procedure' = procedure, HasLatents => Depth(aux', index')
  PROVE  JInv'
BY DEF JInv, HasLatents, Depth
-----------------------------------------------------------------------------
(* Each action keeps as many hidden states as there are requests for.      *)
LEMMA EvaluateStates ==
  ASSUME JInv, failed = None, NEW a \in App, NEW i \in Indices(a), NEW states \in States(aux, i), NEW v,
         Evaluate(a, i, states, v)
  PROVE  JInv'
<1>1. PICK x, y, l : x = simulateLatents(aux, i, states) /\ y = aux' /\ l = index'
  OBVIOUS
<1>2. /\ phase = "idle" /\ phase' = "idle" /\ procedure' = procedure /\ failed' = failed
      /\ l = [index EXCEPT ![a] = i] /\ index[a] = None /\ y = incorporate(x, i, v)
  BY <1>1 DEF Evaluate
<1>3. IInv /\ IInv' /\ StateOfIndex'
  <2>1. IInv
    BY DEF JInv
  <2> QED
    BY <1>2, <2>1, EvaluateKeeps, NotFailed DEF StateOfIndex
<1>4. ASSUME HasLatents PROVE Depth(y, l)
  <2>1. PICK R : R = RequestedIn(index)
    OBVIOUS
  <2>2. Typed(procedure, index, value) /\ KeepsAll(procedure, aux, index, value) /\ Depth(aux, index)
    BY <1>3, <1>4, JInvIs DEF IInv
  <2>3. HasStates(aux) /\ R \subseteq Nat /\ IsDepth(Len(aux.xs), R)
    BY <1>4, <2>1, <2>2, StatesIs, RequestsAreNat DEF Depth
  <2>4. CanExtend(aux, R, i, states) /\ x = Extended(aux, i, states)
    <3>1. i \in Nat /\ \A j \in Missing(aux, i) : states[j] \in Hidden
      BY <1>4, IndexIsNat DEF States
    <3> QED
      BY <1>1, <1>4, <2>3, <3>1 DEF CanExtend, simulateLatents
  <2>5. x.xs \in Seq(Hidden) /\ IsDepth(Len(x.xs), R \cup {i})
    BY <2>4, ExtendedIs
  <2>6. HasStates(x)
    <3>1. \E X : x = [aux EXCEPT !.xs = X]
      BY <2>4 DEF Extended
    <3>2. x = [xs |-> x.xs, os |-> x.os]
      BY <2>3, <3>1 DEF HasStates
    <3> QED
      BY <2>5, <3>2 DEF HasStates
  <2>7. y.xs = x.xs
    BY <1>2, <1>4, <2>6, StatisticsHaveNoStates
  <2>8. RequestedIn(l) = R \cup {i}
    <3>1. i # None /\ DOMAIN index = App
      BY <2>2, IndexIsNat, NoneIsNoValue DEF Typed
    <3>2. l[a] = i /\ \A b \in App \ {a} : l[b] = index[b]
      BY <1>2, <3>1
    <3> QED
      BY <1>2, <2>1, <3>1, <3>2 DEF RequestedIn
  <2> QED
    BY <2>5, <2>7, <2>8 DEF Depth
<1> QED
  BY <1>1, <1>2, <1>3, <1>4, StatesRest

LEMMA ConstrainStates ==
  ASSUME JInv, failed = None, NEW a \in App, NEW v, Constrain(a, v)
  PROVE  JInv'
<1>1. PICK i, x, y : i = index[a] /\ x = unincorporate(aux, i, value[a]) /\ y = aux'
  OBVIOUS
<1>2. /\ phase' = "idle" /\ procedure' = procedure /\ failed' = failed /\ index' = index
      /\ y = incorporate(x, i, v)
  BY <1>1 DEF Constrain
<1>3. IInv /\ IInv' /\ StateOfIndex'
  <2>1. IInv
    BY DEF JInv
  <2> QED
    BY <1>2, <2>1, ConstrainKeeps, NotFailed DEF StateOfIndex
<1>4. ASSUME HasLatents PROVE Depth(y, index)
  <2>1. KeepsAll(procedure, aux, index, value) /\ Depth(aux, index)
    BY <1>3, <1>4, JInvIs DEF IInv
  <2>2. HasStates(aux)
    BY <1>4, <2>1, StatesIs DEF Depth
  <2>3. x.xs = aux.xs
    BY <1>1, <1>4, <2>2, StatisticsHaveNoStates
  <2>4. HasStates(x)
    <3>1. \E O : x = [aux EXCEPT !.os = O]
      BY <1>1, <1>4 DEF unincorporate, Unobserve, HasLatents
    <3>2. x = [xs |-> x.xs, os |-> x.os]
      BY <2>2, <3>1 DEF HasStates
    <3> QED
      BY <2>2, <2>3, <3>2 DEF HasStates
  <2>5. y.xs = aux.xs
    BY <1>2, <1>4, <2>3, <2>4, StatisticsHaveNoStates
  <2> QED
    BY <2>1, <2>5 DEF Depth
<1> QED
  BY <1>1, <1>2, <1>3, <1>4, StatesRest

LEMMA InferStates ==
  ASSUME JInv, failed = None, NEW states, AEInfer(states)
  PROVE  JInv'
<1>1. PICK y : y = aux'
  OBVIOUS
<1>2. /\ phase = "idle" /\ phase' = "idle" /\ procedure' = procedure /\ index' = index /\ HasLatents /\ aux.os # <<>>
      /\ y = aux \/ (states \in [1..Max(DOMAIN aux.os) + 1 -> Hidden] /\ y = [aux EXCEPT !.xs = states])
  BY <1>1 DEF AEInfer
<1>3. StateOfIndex'
  <2>1. failed' = failed \/ failed' = "one output"
    BY DEF AEInfer
  <2>2. CASE failed' = failed
    BY <2>2, NotFailed DEF StateOfIndex
  <2>3. CASE failed' = "one output"
    BY <2>3, Zenon DEF StateOfIndex
  <2> QED
    BY <2>1, <2>2, <2>3
<1>4. IInv /\ IInv' /\ Depth(aux, index)
  <2>1. IInv /\ Depth(aux, index)
    BY <1>2, JInvIs
  <2> QED
    BY <2>1, InferKeeps
<1>5. CASE y = aux
  BY <1>1, <1>2, <1>3, <1>4, <1>5, StatesRest
<1>6. CASE states \in [1..Max(DOMAIN aux.os) + 1 -> Hidden] /\ y = [aux EXCEPT !.xs = states]
  <2>1. PICK R, n : R = RequestedIn(index) /\ n = Len(aux.xs)
    OBVIOUS
  <2>2. Resting(aux, index, value)
    BY <1>2, <1>4, RestingIs
  <2>3. ValuesOf(AppliedIn(index, value), index) = R /\ R \subseteq Nat
    BY <2>1, <2>2, RequestsApplied, RequestsAreNat DEF Resting, AllEvaluated, Evaluated
  <2>4. HasStates(aux) /\ DOMAIN aux.os = R /\ R # {} /\ n \in Nat /\ IsDepth(n, R)
    <3>1. KeepsAll(procedure, aux, index, value) /\ aux.xs \in Seq(Hidden)
      BY <1>4, <2>2 DEF Resting, Depth
    <3> QED
      BY <1>2, <1>4, <2>1, <2>3, <3>1, StatesIs DEF Depth
  <2>5. n = Max(R) + 1
    BY <2>3, <2>4, DepthIs
  <2>6. states \in [1..n -> Hidden]
    BY <1>6, <2>4, <2>5
  <2>7. states \in Seq(Hidden) /\ Len(states) = n
    BY <2>4, <2>6
  <2>8. y.xs = states
    BY <1>6, <2>4 DEF HasStates
  <2>9. Depth(y, index)
    BY <2>1, <2>4, <2>7, <2>8 DEF Depth
  <2> QED
    BY <1>1, <1>2, <1>3, <1>4, <2>9, StatesRest
<1> QED
  BY <1>2, <1>5, <1>6

LEMMA BeginStates ==
  ASSUME Unmixed, JInv, failed = None, NEW b \in BlocksOf, NEW seq, Begin(b, seq)
  PROVE  JInv'
<1>1. /\ phase = "idle" /\ phase' = "detach" /\ block' = b /\ order' = seq
      /\ before' = [aux |-> aux, index |-> index, value |-> value]
      /\ UNCHANGED <<procedure, aux, index, value, db, failed>>
  BY DEF Begin
<1>2. IInv /\ IInv' /\ StateOfIndex'
  <2>1. IInv
    BY DEF JInv
  <2> QED
    BY <1>1, <2>1, BeginKeeps, NotFailed DEF StateOfIndex
<1>3. ASSUME HasLatents PROVE Depth(aux, index) /\ Latents(phase, aux, db.latents)'
  <2>1. Depth(aux, index)
    BY <1>3, JInvIs
  <2>2. Depth(before.aux, before.index)'
    BY <1>1, <2>1 DEF Depth, RequestedIn
  <2>3. b \in Blocks
    BY <1>3 DEF BlocksOf
  <2>4. \A a \in Moved' : a \in DOMAIN b
    <3>1. PICK m : m = Cardinality(DOMAIN b)
      OBVIOUS
    <3>2. seq \in [1..m -> DOMAIN b]
      BY <3>1 DEF Begin, SetToSeqs
    <3>3. \A j \in 1..Len(seq) : seq[j] \in DOMAIN b
      <4>1. IsFiniteSet(DOMAIN b)
        BY <2>3, BlocksAssumption, AppAssumption, FS_Subset
      <4>2. m \in Nat
        BY <3>1, <4>1, FS_CardinalityType
      <4> QED
        BY <3>2, <4>2
    <3> QED
      BY <1>1, <3>3 DEF Moved
  <2>5. \/ \A a \in DOMAIN b : b[a] = "output"
        \/ \A a \in DOMAIN b : b[a] \in {"operand", "both"}
    BY <2>3, BlocksAssumption DEF Unmixed
  <2>6. (\A a \in Moved : ~Rerequested(a))' \/ (\A a \in Moved : Rerequested(a))'
    BY <1>1, <2>4, <2>5 DEF Rerequested
  <2>7. before'.aux = aux /\ aux' = aux /\ db' = db /\ phase' = "detach"
    BY <1>1
  <2>8. PICK X, n : X = aux.xs /\ n = Len(X) /\ n \in Nat
    BY <2>1 DEF Depth
  <2>9. Agrees(n, aux)' /\ Saves(n, db.latents)'
    <3>1. n <= n /\ \A j \in 1..n : j <= n
      BY <2>8
    <3>2. n..n - 1 = {}
      BY <2>8
    <3> QED
      BY <2>7, <2>8, <3>1, <3>2 DEF Agrees, Saves
  <2>10. Latents(phase, aux, db.latents)'
    BY <2>2, <2>6, <2>7, <2>8, <2>9 DEF Latents
  <2> QED
    BY <2>1, <2>10
<1> QED
  BY <1>1, <1>2, <1>3 DEF JInv, HasLatents, Depth, RequestedIn

LEMMA DetachStepStates ==
  ASSUME JInv, failed = None, DetachStep
  PROVE  JInv'
<1>1. PICK n, a, d, y, k : n = next /\ a = order[n] /\ d = db'.latents /\ y = aux' /\ k = index'
  OBVIOUS
<1>2. /\ phase = "detach" /\ Detached(a) /\ d = Extract(a).latents
      /\ UNCHANGED <<procedure, order, block, before, failed>>
      /\ phase' = IF n > 1 THEN "detach" ELSE "propose"
  BY <1>1 DEF DetachStep, moveVars
<1>3. IInv /\ IInv' /\ StateOfIndex'
  <2>1. IInv
    BY DEF JInv
  <2> QED
    BY <1>2, <2>1, DetachStepKeeps, NotFailed DEF StateOfIndex
<1>4. ASSUME HasLatents PROVE Depth(y, k) /\ Latents(phase', y, d)
  <2>1. Depth(y, k) /\ Latents("detach", y, d)
    BY <1>1, <1>2, <1>4, StepBackStates
  <2>2. Ordered /\ n \in 1..Len(order) /\ Len(order) \in Nat
    BY <1>1, <1>2, <1>3, NotFailed, MovingIs, StepBack
  <2>3. CASE n > 1
    BY <1>2, <2>1, <2>3
  <2>4. CASE ~(n > 1)
    <3>1. n = 1
      BY <2>2, <2>4
    <3>2. PICK w : w = value'
      OBVIOUS
    <3>3. Standing(1, y, k, w)
      BY <1>1, <1>2, <1>3, <3>1, <3>2, StepBack
    <3>4. Latents("propose", y, d)
      BY <1>4, <2>1, <2>2, <3>3, TurnStates
    <3> QED
      BY <1>2, <2>1, <2>4, <3>4
  <2> QED
    BY <2>3, <2>4
<1>5. CASE HasLatents
  BY <1>1, <1>2, <1>3, <1>4, <1>5, StatesOn
<1>6. CASE ~HasLatents
  BY <1>2, <1>3, <1>6 DEF JInv, HasLatents
<1> QED
  BY <1>5, <1>6

LEMMA UndoStepStates ==
  ASSUME JInv, failed = None, UndoStep
  PROVE  JInv'
<1>1. PICK n, a, d, y, k : n = next /\ a = order[n] /\ d = db'.latents /\ y = aux' /\ k = index'
  OBVIOUS
<1>2. /\ phase = "undo" /\ Detached(a) /\ d = db.latents
      /\ UNCHANGED <<procedure, order, block, before, failed>>
      /\ phase' = IF n > 1 THEN "undo" ELSE "restore"
  BY <1>1 DEF UndoStep, moveVars
<1>3. IInv /\ IInv' /\ StateOfIndex'
  <2>1. IInv
    BY DEF JInv
  <2> QED
    BY <1>2, <2>1, UndoStepKeeps, NotFailed DEF StateOfIndex
<1>4. ASSUME HasLatents PROVE Depth(y, k) /\ Latents(phase', y, d)
  <2>1. Depth(y, k) /\ Latents("undo", y, d)
    BY <1>1, <1>2, <1>4, StepBackStates
  <2>2. Ordered /\ n \in 1..Len(order) /\ Len(order) \in Nat
    BY <1>1, <1>2, <1>3, NotFailed, MovingIs, StepBack
  <2>3. CASE n > 1
    BY <1>2, <2>1, <2>3
  <2>4. CASE ~(n > 1)
    <3>1. n = 1
      BY <2>2, <2>4
    <3>2. PICK w : w = value'
      OBVIOUS
    <3>3. Standing(1, y, k, w)
      BY <1>1, <1>2, <1>3, <3>1, <3>2, StepBack
    <3>4. Latents("restore", y, d)
      BY <1>4, <2>1, <2>2, <3>3, TurnStates
    <3> QED
      BY <1>2, <2>1, <2>4, <3>4
  <2> QED
    BY <2>3, <2>4
<1>5. CASE HasLatents
  BY <1>1, <1>2, <1>3, <1>4, <1>5, StatesOn
<1>6. CASE ~HasLatents
  BY <1>2, <1>3, <1>6 DEF JInv, HasLatents
<1> QED
  BY <1>5, <1>6

(* Without latent states there is nothing to find.                         *)
LEMMA NothingToFind ==
  ASSUME ~HasLatents, failed = None, NEW a, NEW i, NEW states, NEW v, Regen(a, i, states, v)
  PROVE  StateOfIndex'
<1>1. PICK x : x = IF Rerequested(a) THEN simulateLatents(aux, i, states) ELSE aux
  OBVIOUS
<1> QED
  BY <1>1, RegenCases DEF CanApply

LEMMA ProposeStepStates ==
  ASSUME JInv, failed = None, NEW i \in Nat, NEW states \in States(aux, i), NEW v, ProposeStep(i, states, v)
  PROVE  JInv'
<1>1. PICK n, a, d : n = next /\ a = order[n] /\ d = db'.latents
  OBVIOUS
<1>2. /\ phase = "propose" /\ phase' = "propose" /\ n <= Len(order) /\ d = db.latents
      /\ UNCHANGED <<procedure, order, block, before>> /\ Regen(a, i, states, v)
  BY <1>1 DEF ProposeStep, moveVars
<1>3. IInv /\ IInv'
  <2>1. IInv
    BY DEF JInv
  <2> QED
    BY <2>1, ProposeStepKeeps
<1>4. CASE HasLatents
  <2>1. n \in 1..Len(order)
    <3>1. Ordered /\ n \in Nat /\ Len(order) \in Nat
      BY <1>1, <1>2, <1>3, NotFailed, MovingIs
    <3> QED
      BY <1>1, <1>2, <3>1 DEF Ordered
  <2>2. Regenerates(a, i, states, v)
    BY <1>1, <1>2, <2>1 DEF Regenerates
  <2>3. StatesFit(a, i, states)
    BY <1>2, <1>4 DEF StatesFit, States
  <2>4. StateOfIndex' /\ Depth(aux', index') /\ Latents(phase, aux', db.latents)
    BY <1>4, <2>2, <2>3, StepForwardStates
  <2> QED
    BY <1>1, <1>2, <1>3, <2>4, StatesOn
<1>5. CASE ~HasLatents
  BY <1>2, <1>3, <1>5, NothingToFind DEF JInv, HasLatents
<1> QED
  BY <1>4, <1>5

(* The states of a restored request are all in the latent database.        *)
LEMMA RestoreStepStates ==
  ASSUME JInv, failed = None, RestoreStep
  PROVE  /\ JInv'
         /\ HasLatents /\ phase' = "idle" => aux'.xs = before.aux.xs
<1>1. PICK n, a, i, states : /\ n = next /\ a = order[n] /\ i = (IF Rerequested(a) THEN db.index[a] ELSE index[a])
                             /\ states = (IF Rerequested(a) /\ HasLatents THEN SavedStates(i) ELSE <<>>)
  OBVIOUS
<1>2. /\ phase = "restore" /\ procedure' = procedure
      /\ \E v \in {db.value[a], value[a]} : Regen(a, i, states, v)
      /\ IF n < Len(order) THEN UNCHANGED <<phase, order, block, before, db>> ELSE EndMove
  BY <1>1 DEF RestoreStep, moveVars
<1>3. PICK v : Regen(a, i, states, v)
  BY <1>2
<1>4. IInv /\ IInv'
  <2>1. IInv
    BY DEF JInv
  <2> QED
    BY <2>1, RestoreStepKeeps
<1>5. CASE HasLatents
  <2>1. /\ Ordered /\ Standing(n, aux, index, value) /\ Extracted(db, 1) /\ n \in 1..Len(order) /\ Len(order) \in Nat
    <3>1. Ordered /\ Standing(n, aux, index, value) /\ Extracted(db, 1) /\ n \in Nat /\ Len(order) \in Nat
      BY <1>1, <1>2, <1>4, NotFailed, MovingIs DEF Moving, Pending
    <3> QED
      BY <1>1, <1>2, <3>1 DEF Ordered
  <2>2. Depth(aux, index) /\ Latents(phase, aux, db.latents) /\ Depth(before.aux, before.index)
    <3>1. Depth(aux, index) /\ Latents(phase, aux, db.latents)
      BY <1>2, <1>5, JInvIs
    <3> QED
      BY <3>1 DEF Latents
  <2>3. a \in App /\ a \in Moved /\ a \in OutFrom(1) /\ a \in OutFrom(n)
    <3>1. a \in App /\ a \in Moved /\ OutFrom(n) = OutFrom(n + 1) \cup {a}
      BY <1>1, <2>1, PlaceIs
    <3> QED
      BY <3>1 DEF Moved, OutFrom
  <2>4. /\ i = before.index[a] /\ i \in Nat
        /\ Redrawn(a) => db.value[a] = before.value[a]
        /\ ~Redrawn(a) => value[a] = before.value[a]
    <3>1. Typed(procedure, before.index, before.value) /\ before.index[a] # None
      BY <2>1, <2>3 DEF Standing, Recorded
    <3>2. /\ Rerequested(a) => db.index[a] = before.index[a]
          /\ Redrawn(a) => db.value[a] = before.value[a]
      BY <2>1, <2>3 DEF Extracted
    <3>3. /\ ~Rerequested(a) => index[a] = before.index[a]
          /\ ~Redrawn(a) => value[a] = before.value[a]
      BY <2>1, <2>3 DEF Standing, Untouched
    <3> QED
      BY <1>1, <2>3, <3>1, <3>2, <3>3 DEF Typed
  <2>5. StatesFit(a, i, states)
    <3> SUFFICES ASSUME Rerequested(a), NEW j \in Missing(aux, i)
                 PROVE  /\ states[j] \in Hidden
                        /\ j + 1 <= Len(before.aux.xs) /\ states[j] = before.aux.xs[j + 1]
      BY DEF StatesFit
    <3>1. PICK X, N, Z, M : X = aux.xs /\ N = Len(X) /\ Z = before.aux.xs /\ M = Len(Z)
      OBVIOUS
    <3>2. X \in Seq(Hidden) /\ Z \in Seq(Hidden) /\ N \in Nat /\ M \in Nat
      BY <2>2, <3>1 DEF Depth
    <3>3. i < M
      <4>1. i \in RequestedIn(before.index)
        BY <2>3, <2>4, NoneIsNoValue DEF RequestedIn
      <4> QED
        BY <2>2, <3>1, <4>1 DEF Depth, IsDepth
    <3>4. PICK f \in Nat : Bottom(f, aux, db.latents)
      BY <1>2, <2>2, <2>3 DEF Latents
    <3>5. f <= N
      BY <3>1, <3>4 DEF Bottom, Agrees
    <3>6. j \in N..i
      BY <3>1 DEF Missing
    <3>7. j \in f..M - 1 /\ j + 1 \in 1..M /\ j + 1 <= M
      BY <2>4, <3>2, <3>3, <3>5, <3>6
    <3>8. j \in DOMAIN db.latents /\ db.latents[j] = Z[j + 1]
      BY <3>1, <3>4, <3>7 DEF Bottom, Saves
    <3>9. states[j] = Z[j + 1]
      BY <1>1, <1>5, <3>8 DEF SavedStates
    <3> QED
      BY <3>1, <3>2, <3>7, <3>9
  <2>6. StateOfIndex' /\ Depth(aux', index') /\ Latents("restore", aux', db.latents)
    <3>1. PICK x : x = IF Rerequested(a) THEN simulateLatents(aux, i, states) ELSE aux
      OBVIOUS
    <3>2. ASSUME StateOfIndex' PROVE v = before.value[a]
      BY <1>2, <1>3, <2>4, <3>1, <3>2, RegenCases
    <3>3. Regenerates(a, i, states, v)
      BY <1>1, <1>2, <1>3, <2>1, <2>4, <3>2 DEF Regenerates
    <3> QED
      BY <1>2, <1>5, <2>5, <3>3, StepForwardStates
  <2>7. CASE n < Len(order)
    <3>1. PICK d : d = db'.latents
      OBVIOUS
    <3>2. UNCHANGED <<phase, order, block, before, db>> /\ phase' # "idle"
      BY <1>2, <2>7
    <3>3. JInv'
      BY <1>2, <1>4, <2>6, <3>1, <3>2, StatesOn
    <3> QED
      BY <3>2, <3>3
  <2>8. CASE ~(n < Len(order))
    <3>1. phase' = "idle"
      BY <1>2, <2>8 DEF EndMove
    <3>2. JInv'
      BY <1>2, <1>4, <2>6, <3>1, StatesRest
    <3>3. PICK X, Z, m, r : X = aux'.xs /\ Z = before.aux.xs /\ m = Len(X) /\ r = Len(Z)
      OBVIOUS
    <3>4. index' = before.index
      BY <1>4, <2>6, <3>1, NotFailed, RestoreStepKeeps
    <3>5. RequestedIn(before.index) \subseteq Nat
      BY <2>1, RequestsAreNat DEF Standing, Recorded
    <3>6. /\ X \in Seq(Hidden) /\ IsDepth(m, RequestedIn(before.index))
          /\ Z \in Seq(Hidden) /\ IsDepth(r, RequestedIn(before.index))
      BY <2>2, <2>6, <3>3, <3>4 DEF Depth
    <3>7. m = r
      <4>1. PICK R : R = RequestedIn(before.index)
        OBVIOUS
      <4>2. m = (IF R = {} THEN 0 ELSE Max(R) + 1) /\ r = (IF R = {} THEN 0 ELSE Max(R) + 1)
        BY <3>5, <3>6, <4>1, DepthIs
      <4> QED
        BY <4>2
    <3>8. X = Z
      <4>1. CASE X = Z
        BY <4>1
      <4>2. CASE X # Z
        <5>1. PICK y : y = aux'
          OBVIOUS
        <5>2. Agrees(m, y)
          BY <2>3, <2>6, <3>3, <4>2, <5>1 DEF Latents
        <5>3. \A j \in 1..m : X[j] = Z[j]
          BY <3>3, <5>1, <5>2 DEF Agrees
        <5> QED
          BY <3>3, <3>6, <3>7, <5>3, SeqEqual
      <4> QED
        BY <4>1, <4>2
    <3> QED
      BY <3>2, <3>3, <3>8
  <2> QED
    BY <2>7, <2>8
<1>6. CASE ~HasLatents
  BY <1>2, <1>3, <1>4, <1>6, NothingToFind DEF JInv, HasLatents
<1> QED
  BY <1>5, <1>6

LEMMA AcceptStates ==
  ASSUME JInv, failed = None, Accept
  PROVE  JInv'
<1>1. phase = "propose" /\ phase' = "idle" /\ UNCHANGED <<procedure, aux, index, failed>>
  BY DEF Accept, EndMove
<1>2. IInv /\ IInv' /\ StateOfIndex'
  <2>1. IInv
    BY DEF JInv
  <2> QED
    BY <1>1, <2>1, AcceptKeeps, NotFailed DEF StateOfIndex
<1>3. HasLatents => Depth(aux', index')
  BY <1>1, JInvIs
<1> QED
  BY <1>1, <1>2, <1>3, StatesRest

LEMMA RejectStates ==
  ASSUME JInv, failed = None, Reject
  PROVE  JInv'
<1>1. /\ phase = "propose" /\ phase' = "undo"
      /\ UNCHANGED <<procedure, aux, index, order, block, before, db, failed>>
  BY DEF Reject, moveVars
<1>2. IInv /\ IInv' /\ StateOfIndex'
  <2>1. IInv
    BY DEF JInv
  <2> QED
    BY <1>1, <2>1, RejectKeeps, NotFailed DEF StateOfIndex
<1>3. PICK d : d = db'.latents /\ d = db.latents
  BY <1>1
<1>4. CASE HasLatents
  <2>1. Depth(aux, index) /\ Latents("propose", aux, d)
    BY <1>1, <1>3, <1>4, JInvIs
  <2>2. Latents("undo", aux, d)
    BY <2>1 DEF Latents
  <2> QED
    BY <1>1, <1>2, <1>3, <2>1, <2>2, StatesOn
<1>5. CASE ~HasLatents
  BY <1>1, <1>2, <1>5 DEF JInv, HasLatents
<1> QED
  BY <1>4, <1>5
-----------------------------------------------------------------------------
LEMMA InitJInv == Init => JInv
<1> SUFFICES ASSUME Init PROVE JInv
  OBVIOUS
<1>1. IInv
  BY InitIInv
<1>2. StateOfIndex /\ phase = "idle"
  <2>1. failed = None
    BY DEF Init
  <2> QED
    BY <2>1, NotFailed DEF Init
<1>3. ASSUME HasLatents PROVE Depth(aux, index)
  <2>1. aux.xs = <<>>
    BY <1>3 DEF Init, New, NewHMM, HasLatents
  <2>2. RequestedIn(index) = {}
    BY DEF Init, RequestedIn
  <2>3. <<>> \in Seq(Hidden) /\ Len(<<>>) = 0
    OBVIOUS
  <2> QED
    BY <2>1, <2>2, <2>3 DEF Depth, IsDepth
<1> QED
  BY <1>1, <1>2, <1>3 DEF JInv

LEMMA JInvKeeps ==
  ASSUME Unmixed, JInv, [Next]_vars
  PROVE  JInv'
<1>1. CASE UNCHANGED vars
  <2>1. UNCHANGED <<procedure, aux, index, value, phase, order, block, before, next, db, failed>>
    BY <1>1 DEF vars, moveVars
  <2>2. IInv' /\ StateOfIndex'
    BY <2>1, IInvKeeps DEF JInv, StateOfIndex
  <2>3. PICK d : d = db'.latents /\ d = db.latents
    BY <2>1
  <2>4. CASE HasLatents
    <3>1. Depth(aux', index') /\ (phase' # "idle" => Latents(phase', aux', d))
      BY <2>1, <2>3, <2>4, JInvIs
    <3> QED
      BY <2>1, <2>2, <2>3, <3>1, StatesOn
  <2>5. CASE ~HasLatents
    BY <2>1, <2>2, <2>5 DEF JInv, HasLatents
  <2> QED
    BY <2>4, <2>5
<1>2. CASE Next
  <2> USE <1>2
  <2>1. failed = None
    BY DEF Next
  <2>2. ASSUME NEW a \in App, NEW i \in Indices(a), NEW states \in States(aux, i), NEW v, Evaluate(a, i, states, v) PROVE JInv'
    BY <2>1, <2>2, EvaluateStates
  <2>3. ASSUME NEW a \in App, NEW v, Constrain(a, v) PROVE JInv'
    BY <2>1, <2>3, ConstrainStates
  <2>4. ASSUME NEW states, AEInfer(states) PROVE JInv'
    BY <2>1, <2>4, InferStates
  <2>5. ASSUME NEW b \in BlocksOf, NEW seq, Begin(b, seq) PROVE JInv'
    BY <2>1, <2>5, BeginStates
  <2>6. ASSUME NEW i \in 0..MaxIndex, NEW states \in States(aux, i), NEW v, ProposeStep(i, states, v) PROVE JInv'
    <3>1. i \in Nat
      BY IndicesAssumption
    <3> QED
      BY <2>1, <2>6, <3>1, ProposeStepStates
  <2> QED
    BY <2>1, <2>2, <2>3, <2>4, <2>5, <2>6, DetachStepStates, UndoStepStates, RestoreStepStates, AcceptStates, RejectStates DEF Next
<1> QED
  BY <1>1, <1>2

(* So do the hidden states and what is saved of them, for unmixed blocks.  *)
THEOREM LatentsInvariant ==
  ASSUME Unmixed
  PROVE  Spec => []JInv
<1>1. Init => JInv
  BY InitJInv
<1>2. JInv /\ [Next]_vars => JInv'
  BY JInvKeeps
<1> QED
  BY <1>1, <1>2, PTL DEF Spec

(* Where no block moves the outputs of some applications and the requests  *)
(* of others, an hmm has between moves exactly the hidden states that are  *)
(* requested, whatever was detached, rejected and restored before.         *)
THEOREM LatentsFollow ==
  ASSUME Unmixed
  PROVE  Spec => []LatentsCover
<1>1. JInv => LatentsCover
  <2> SUFFICES ASSUME JInv, HasLatents, phase = "idle"
               PROVE  Len(aux.xs) = IF Requested = {} THEN 0 ELSE Max(Requested) + 1
    BY DEF LatentsCover
  <2>1. PICK R : R = Requested
    OBVIOUS
  <2>2. R \subseteq Nat /\ IsDepth(Len(aux.xs), R)
    <3>1. Requested = RequestedIn(index)
      BY DEF Requested, RequestedIn
    <3>2. Typed(procedure, index, value) /\ Depth(aux, index)
      BY JInvIs DEF IInv
    <3> QED
      BY <2>1, <3>1, <3>2, RequestsAreNat DEF Depth
  <2> QED
    BY <2>1, <2>2, DepthIs
<1> QED
  BY LatentsInvariant, <1>1, PTL

(* Then every application finds the hidden state of its index: the         *)
(* assertions of simulate and logDensity hold.                             *)
THEOREM StatesFound ==
  ASSUME Unmixed
  PROVE  Spec => []StateOfIndex
<1>1. JInv => StateOfIndex
  BY DEF JInv
<1> QED
  BY LatentsInvariant, <1>1, PTL

(* The same statistics for the same applications.                          *)
LEMMA SameStatistics ==
  ASSUME NEW k, NEW w, NEW x, NEW y, KeepsAll(procedure, x, k, w), KeepsAll(procedure, y, k, w)
  PROVE  /\ procedure = "crp" => y.tableCounts = x.tableCounts
         /\ procedure = "dir_cat" => y = x
         /\ procedure = "hmm" => y = [xs |-> y.xs, os |-> x.os] /\ x = [xs |-> x.xs, os |-> x.os]
<1>1. PICK A : A = AppliedIn(k, w)
  OBVIOUS
<1>2. Keeps(procedure, x, A, k, w) /\ Keeps(procedure, y, A, k, w)
  BY <1>1 DEF KeepsAll
<1>3. CASE procedure = "crp"
  BY <1>2, <1>3 DEF Keeps, Seats
<1>4. CASE procedure = "dir_cat"
  BY <1>2, <1>4 DEF Keeps, Tallies
<1>5. CASE procedure = "hmm"
  <2>1. PICK O : O = Outputs(A, k, w)
    OBVIOUS
  <2>2. x = [xs |-> x.xs, os |-> O] /\ y = [xs |-> y.xs, os |-> O]
    BY <1>2, <1>5, <2>1 DEF Keeps, Emits
  <2> QED
    BY <1>5, <2>2
<1> QED
  BY <1>2, <1>3, <1>4, <1>5 DEF Keeps

(* A move that is rejected leaves the applications, the statistics and the *)
(* hidden states as they were before it, whatever was proposed.            *)
THEOREM RejectUndoes ==
  ASSUME Unmixed
  PROVE  Spec => RejectRestores
<1>1. ASSUME JInv, [Next]_vars, phase = "restore", phase' = "idle"
      PROVE  /\ index' = before.index /\ value' = before.value
             /\ procedure # "crp" => aux' = before.aux
             /\ procedure = "crp" => aux'.tableCounts = before.aux.tableCounts /\ aux'.nextIndex >= before.aux.nextIndex
  <2> USE <1>1
  <2>1. failed = None /\ RestoreStep
    <3>1. phase' # phase
      OBVIOUS
    <3>2. Next
      BY <3>1 DEF vars
    <3> QED
      BY <3>2 DEF Next, Evaluate, Constrain, AEInfer, Begin, DetachStep, UndoStep, Accept, Reject, ProposeStep
  <2>2. IInv /\ procedure' = procedure
    BY <2>1 DEF JInv, RestoreStep
  <2>3. JInv' /\ (HasLatents => aux'.xs = before.aux.xs)
    BY <2>1, RestoreStepStates
  <2>4. PICK x, y, k, w : x = before.aux /\ y = aux' /\ k = index' /\ w = value'
    OBVIOUS
  <2>5. k = before.index /\ w = before.value /\ Recorded(y)
    BY <2>1, <2>2, <2>3, <2>4, RestoreStepKeeps DEF JInv
  <2>6. KeepsAll(procedure, x, k, w) /\ KeepsAll(procedure, y, k, w)
    <3>1. KeepsAll(procedure', aux', index', value')
      BY <2>3 DEF JInv, IInv
    <3> QED
      BY <2>2, <2>4, <2>5, <3>1 DEF Recorded
  <2>7. CASE procedure = "crp"
    <3>1. y.tableCounts = x.tableCounts
      BY <2>6, <2>7, SameStatistics
    <3>2. y.nextIndex >= x.nextIndex
      BY <2>4, <2>5, <2>7 DEF Recorded
    <3> QED
      BY <2>4, <2>5, <2>7, <3>1, <3>2
  <2>8. CASE procedure = "dir_cat"
    <3>1. y = x
      BY <2>6, <2>8, SameStatistics
    <3> QED
      BY <2>4, <2>5, <2>8, <3>1
  <2>9. CASE procedure = "hmm"
    <3>1. y.xs = x.xs
      BY <2>3, <2>4, <2>9 DEF HasLatents
    <3>2. y = [xs |-> y.xs, os |-> x.os] /\ x = [xs |-> x.xs, os |-> x.os]
      BY <2>6, <2>9, SameStatistics
    <3> QED
      BY <2>4, <2>5, <2>9, <3>1, <3>2
  <2> QED
    BY <2>6, <2>7, <2>8, <2>9 DEF KeepsAll, Keeps
<1> QED
  BY LatentsInvariant, <1>1, PTL DEF Spec, RejectRestores
=============================================================================
