------------------------ MODULE ParticleGibbs_proofs -----------------------
(***************************************************************************)
(* Proofs about the particle Gibbs move, for every program, torus and      *)
(* number of particles: that its scopes stay in order, and that particles  *)
(* over one trace implement private copies of it.                          *)
(***************************************************************************)
EXTENDS ParticleInvariant, SequenceTheorems, TLAPS

(* A SamplableMap behaves as a map: whatever is set, changed through a     *)
(* reference or erased, every other key keeps its value and its one place  *)
(* to be drawn from.                                                       *)

LEMMA SeqFacts ==
  ASSUME NEW q, IsSeq(q)
  PROVE  Len(q) \in Nat /\ DOMAIN q = 1..Len(q)
<1>1. PICK S : q \in Seq(S) BY DEF IsSeq
<1> QED BY <1>1, LenProperties

LEMMA AppendFacts ==
  ASSUME NEW q, IsSeq(q), NEW e
  PROVE  /\ IsSeq(Append(q, e)) /\ Len(Append(q, e)) = Len(q) + 1
         /\ \A i \in 1..Len(q) : Append(q, e)[i] = q[i]
         /\ Append(q, e)[Len(q) + 1] = e
<1>1. PICK S : q \in Seq(S) BY DEF IsSeq
<1>2. q \in Seq(S \cup {e})
  <2>1. /\ q \in [1..Len(q) -> S] /\ Len(q) \in Nat BY <1>1, LenProperties
  <2>2. q \in [1..Len(q) -> S \cup {e}] BY <2>1
  <2> QED BY <2>1, <2>2, IsASeq
<1> DEFINE r == Append(q, e)
<1>3. /\ r \in Seq(S \cup {e}) /\ Len(r) = Len(q) + 1
      /\ \A i \in 1..Len(q) : r[i] = q[i]
      /\ r[Len(q) + 1] = e
  BY <1>2, AppendProperties
<1> QED BY <1>3 DEF IsSeq

LEMMA FunctionFacts ==
  ASSUME NEW n \in Nat, NEW T, NEW r \in [1..n -> T]
  PROVE  IsSeq(r) /\ Len(r) = n
<1>1. r \in Seq(T) /\ Len(r) = n BY IsASeq, LenProperties
<1> QED BY <1>1 DEF IsSeq

LEMMA AsFunction ==
  ASSUME NEW q, IsSeq(q)
  PROVE  \E S : q \in [1..Len(q) -> S] /\ Len(q) \in Nat
<1>1. PICK S : q \in Seq(S) BY DEF IsSeq
<1> QED BY <1>1, LenProperties

(* All but the last.                                                       *)
LEMMA ButLast ==
  ASSUME NEW q, IsSeq(q), Len(q) > 0
  PROVE  /\ IsSeq(SubSeq(q, 1, Len(q) - 1)) /\ Len(SubSeq(q, 1, Len(q) - 1)) = Len(q) - 1
         /\ \A i \in 1..(Len(q) - 1) : SubSeq(q, 1, Len(q) - 1)[i] = q[i]
<1>1. PICK S : q \in Seq(S) BY DEF IsSeq
<1>2. Len(q) \in Nat /\ \A i \in 1..(Len(q) - 1) : q[i] \in S
  BY <1>1, LenProperties, ElementOfSeq
<1> DEFINE n == Len(q) - 1
           r == SubSeq(q, 1, n)
<1>3. n \in Nat BY <1>2
<1>4. /\ r \in Seq(S)
      /\ Len(r) = IF 1 <= n THEN n - 1 + 1 ELSE 0
      /\ \A i \in 1..(n - 1 + 1) : r[i] = q[1 + i - 1]
  <2>1. \A i \in 1..n : q[i] \in S BY <1>2
  <2> HIDE DEF n
  <2> QED BY <1>3, <2>1, SubSeqProperties
<1> HIDE DEF r, n
<1>5. Len(r) = n BY <1>3, <1>4
<1>6. \A i \in 1..n : i \in 1..(n - 1 + 1) /\ 1 + i - 1 = i BY <1>3
<1>7. \A i \in 1..n : r[i] = q[i] BY <1>4, <1>6
<1> QED BY <1>4, <1>5, <1>7 DEF IsSeq, r, n

-----------------------------------------------------------------------------
(* A new map is empty.                                                     *)
LEMMA EmptyMap == WellFormed(Empty) /\ DOMAIN Empty.d = {} /\ size(Empty) = 0
<1>1. Empty.a = <<>> /\ Empty.d = <<>> BY DEF Empty
<1>2. Empty.a \in Seq({}) BY <1>1
<1> QED BY <1>1, <1>2 DEF WellFormed, IsSeq, Indexed, size

(* A key that is set is there with its value, the others as before.        *)
LEMMA SetAdds ==
  ASSUME NEW m, WellFormed(m), NEW k, ~contains(m, k), NEW v
  PROVE  /\ WellFormed(set(m, k, v)) /\ size(set(m, k, v)) = size(m) + 1
         /\ DOMAIN set(m, k, v).d = DOMAIN m.d \cup {k}
         /\ get(set(m, k, v), k) = v
         /\ \A j \in DOMAIN m.d : get(set(m, k, v), j) = get(m, j)
<1> DEFINE e == [key |-> k, value |-> v]
           x == set(m, k, v)
<1>1. /\ x.d = [j \in DOMAIN m.d \cup {k} |-> IF j = k THEN Len(m.a) + 1 ELSE m.d[j]]
      /\ x.a = Append(m.a, e)
  BY DEF set
<1>2. IsSeq(m.a) /\ Indexed(m) /\ k \notin DOMAIN m.d BY DEF WellFormed, contains
<1>3. Len(m.a) \in Nat /\ DOMAIN m.a = 1..Len(m.a) BY <1>2, SeqFacts
<1>4. e.key = k /\ e.value = v OBVIOUS
<1> HIDE DEF e, x
<1>5. /\ IsSeq(x.a) /\ Len(x.a) = Len(m.a) + 1
      /\ \A i \in 1..Len(m.a) : x.a[i] = m.a[i]
      /\ x.a[Len(m.a) + 1] = e
  BY <1>1, <1>2, AppendFacts
<1>6. DOMAIN x.a = 1..(Len(m.a) + 1) BY <1>5, SeqFacts
<1>7. /\ DOMAIN x.d = DOMAIN m.d \cup {k} /\ x.d[k] = Len(m.a) + 1
      /\ \A j \in DOMAIN m.d : x.d[j] = m.d[j] /\ m.d[j] \in 1..Len(m.a)
  BY <1>1, <1>2, <1>3 DEF Indexed
<1>8. Indexed(x)
  <2>1. ASSUME NEW i \in DOMAIN x.a PROVE x.a[i].key \in DOMAIN x.d /\ x.d[x.a[i].key] = i
    <3>1. CASE i = Len(m.a) + 1 BY <1>4, <1>5, <1>7, <3>1
    <3>2. CASE i \in 1..Len(m.a) BY <1>2, <1>3, <1>5, <1>7, <3>2 DEF Indexed
    <3> QED BY <1>3, <1>6, <3>1, <3>2
  <2>2. ASSUME NEW j \in DOMAIN x.d PROVE x.d[j] \in DOMAIN x.a /\ x.a[x.d[j]].key = j
    <3>1. CASE j = k BY <1>3, <1>4, <1>5, <1>6, <1>7, <3>1
    <3>2. CASE j \in DOMAIN m.d
      <4>1. x.d[j] = m.d[j] /\ m.d[j] \in 1..Len(m.a) /\ m.a[m.d[j]].key = j
        BY <1>2, <1>7, <3>2 DEF Indexed
      <4> QED BY <1>3, <1>5, <1>6, <4>1
    <3> QED BY <1>7, <3>1, <3>2
  <2> QED BY <2>1, <2>2 DEF Indexed
<1> QED BY <1>4, <1>5, <1>7, <1>8 DEF WellFormed, size, get, x

(* Through the reference that get returns the one value changes.           *)
LEMMA AssignChanges ==
  ASSUME NEW m, WellFormed(m), NEW k, contains(m, k), NEW v
  PROVE  /\ WellFormed(assign(m, k, v)) /\ size(assign(m, k, v)) = size(m)
         /\ DOMAIN assign(m, k, v).d = DOMAIN m.d
         /\ get(assign(m, k, v), k) = v
         /\ \A j \in DOMAIN m.d \ {k} : get(assign(m, k, v), j) = get(m, j)
<1> DEFINE e == [key |-> k, value |-> v]
           x == assign(m, k, v)
<1>1. x.d = m.d /\ x.a = [m.a EXCEPT ![m.d[k]] = e] BY DEF assign
<1>2. IsSeq(m.a) /\ Indexed(m) /\ k \in DOMAIN m.d BY DEF WellFormed, contains
<1>3. Len(m.a) \in Nat /\ DOMAIN m.a = 1..Len(m.a) /\ m.d[k] \in 1..Len(m.a)
  BY <1>2, SeqFacts DEF Indexed
<1>4. e.key = k /\ e.value = v OBVIOUS
<1> HIDE DEF e, x
<1>5. /\ IsSeq(x.a) /\ Len(x.a) = Len(m.a)
      /\ \A i \in 1..Len(m.a) : x.a[i] = IF i = m.d[k] THEN e ELSE m.a[i]
  <2>1. PICK q, g, r : q = m.a /\ g = m.d[k] /\ r = [i \in 1..Len(q) |-> IF i = g THEN e ELSE q[i]]
    OBVIOUS
  <2>2. r = [q EXCEPT ![g] = e] /\ IsSeq(r) /\ Len(r) = Len(q)
    <3>1. IsSeq(q) /\ g \in 1..Len(q) BY <1>2, <1>3, <2>1
    <3>2. PICK S : q \in [1..Len(q) -> S] /\ Len(q) \in Nat BY <3>1, AsFunction
    <3>3. r \in [1..Len(q) -> S \cup {e}] BY <2>1, <3>1, <3>2
    <3>4. r = [q EXCEPT ![g] = e] BY <2>1, <3>1, <3>2
    <3> QED BY <3>2, <3>3, <3>4, FunctionFacts
  <2>3. x.a = r BY <1>1, <2>1, <2>2
  <2> QED BY <2>1, <2>2, <2>3
<1>6. DOMAIN x.a = 1..Len(m.a) BY <1>5, SeqFacts
<1>7. \A i \in 1..Len(m.a) : x.a[i].key = m.a[i].key
  <2>1. m.a[m.d[k]].key = k BY <1>2 DEF Indexed
  <2> QED BY <1>3, <1>4, <1>5, <2>1
<1>8. Indexed(x) BY <1>1, <1>2, <1>3, <1>6, <1>7 DEF Indexed
<1>9. \A j \in DOMAIN m.d \ {k} : m.d[j] # m.d[k] /\ m.d[j] \in 1..Len(m.a)
  BY <1>2, <1>3 DEF Indexed
<1> QED BY <1>1, <1>3, <1>4, <1>5, <1>8, <1>9 DEF WellFormed, size, get, x

(* A pair is taken out of q at g, and the last one moves there: dictionary *)
(* d becomes x.                                                            *)
LEMMA GapFilled ==
  ASSUME NEW q, NEW d, NEW n \in Nat, NEW k \in DOMAIN d,
         \A i \in 1..n : q[i].key \in DOMAIN d /\ d[q[i].key] = i,
         \A j \in DOMAIN d : d[j] \in 1..n /\ q[d[j]].key = j,
         NEW x, x = [j \in DOMAIN d \ {k} |-> IF j = q[n].key THEN d[k] ELSE d[j]],
         NEW r, \A i \in 1..(n - 1) : r[i] = IF i = d[k] THEN q[n] ELSE q[i]
  PROVE  /\ DOMAIN x = DOMAIN d \ {k}
         /\ \A i \in 1..(n - 1) : r[i].key \in DOMAIN x /\ x[r[i].key] = i
         /\ \A j \in DOMAIN x : x[j] \in 1..(n - 1) /\ r[x[j]] = q[d[j]] /\ r[x[j]].key = j
<1> DEFINE g == d[k]
           last == q[n].key
<1>1. g \in 1..n /\ n \in 1..n /\ q[g].key = k /\ last \in DOMAIN d /\ d[last] = n
  OBVIOUS
<1>2. DOMAIN x = DOMAIN d \ {k} /\ \A j \in DOMAIN x : x[j] = IF j = last THEN g ELSE d[j]
  OBVIOUS
<1>3. ASSUME NEW j \in DOMAIN x PROVE x[j] \in 1..(n - 1) /\ r[x[j]] = q[d[j]]
  <2>1. d[j] # g /\ d[j] \in 1..n BY <1>1, <1>2
  <2>2. CASE j = last
    <3>1. x[j] = g /\ d[j] = n /\ g \in 1..(n - 1) BY <1>1, <1>2, <2>1, <2>2
    <3> QED BY <3>1
  <2>3. CASE j # last
    <3>1. x[j] = d[j] /\ d[j] # n BY <1>1, <1>2, <2>3
    <3>2. d[j] \in 1..(n - 1) BY <2>1, <3>1
    <3> QED BY <2>1, <3>1, <3>2
  <2> QED BY <2>2, <2>3
<1>4. ASSUME NEW i \in 1..(n - 1) PROVE r[i].key \in DOMAIN x /\ x[r[i].key] = i
  <2>1. i \in 1..n /\ i # n OBVIOUS
  <2>2. CASE i = g
    <3>1. r[i] = q[n] /\ last # k BY <1>1, <2>1, <2>2
    <3> QED BY <1>1, <1>2, <2>2, <3>1
  <2>3. CASE i # g
    <3>1. r[i] = q[i] /\ q[i].key # k /\ q[i].key # last /\ q[i].key \in DOMAIN d
      BY <1>1, <2>1, <2>3
    <3> QED BY <1>2, <2>1, <3>1
  <2> QED BY <2>2, <2>3
<1> QED BY <1>2, <1>3, <1>4

(* A key that is erased is gone, and the others are where the dictionary   *)
(* says, the one whose pair was moved into the gap too.                    *)
THEOREM EraseRemoves ==
  ASSUME NEW m, WellFormed(m), NEW k, contains(m, k)
  PROVE  /\ WellFormed(erase(m, k)) /\ size(erase(m, k)) = size(m) - 1
         /\ DOMAIN erase(m, k).d = DOMAIN m.d \ {k}
         /\ \A j \in DOMAIN m.d \ {k} : get(erase(m, k), j) = get(m, j)
<1>1. PICK q, d, n, w, y, x :
        /\ q = m.a /\ d = m.d /\ n = Len(q)
        /\ w = [i \in 1..n |-> IF i = d[k] THEN q[n] ELSE q[i]] /\ y = SubSeq(w, 1, n - 1)
        /\ x = [j \in DOMAIN d \ {k} |-> IF j = q[n].key THEN d[k] ELSE d[j]]
  OBVIOUS
<1>3. IsSeq(q) /\ k \in DOMAIN d /\ Indexed(m) BY <1>1 DEF WellFormed, contains
<1>4. n \in Nat /\ DOMAIN q = 1..n BY <1>1, <1>3, SeqFacts
<1>5. /\ \A i \in 1..n : q[i].key \in DOMAIN d /\ d[q[i].key] = i
      /\ \A j \in DOMAIN d : d[j] \in 1..n /\ q[d[j]].key = j
  BY <1>1, <1>3, <1>4 DEF Indexed
<1>6. w = [q EXCEPT ![d[k]] = q[n]] /\ IsSeq(w) /\ Len(w) = n
  <2>1. d[k] \in 1..Len(q) /\ n = Len(q) BY <1>1, <1>3, <1>5
  <2>2. PICK S : q \in [1..Len(q) -> S] /\ Len(q) \in Nat BY <1>3, AsFunction
  <2>3. w \in [1..n -> S \cup {q[n]}] BY <1>1, <2>1, <2>2
  <2>4. w = [q EXCEPT ![d[k]] = q[n]] BY <1>1, <2>1, <2>2
  <2> QED BY <1>4, <2>3, <2>4, FunctionFacts
<1>2. erase(m, k).d = x /\ erase(m, k).a = y BY <1>1, <1>6 DEF erase, moved
<1>7. IsSeq(y) /\ Len(y) = n - 1 /\ \A i \in 1..(n - 1) : y[i] = IF i = d[k] THEN q[n] ELSE q[i]
  <2>1. Len(w) > 0 BY <1>3, <1>4, <1>5, <1>6
  <2>2. IsSeq(y) /\ Len(y) = n - 1 /\ \A i \in 1..(n - 1) : y[i] = w[i]
    BY <1>1, <1>6, <2>1, ButLast
  <2> QED BY <1>1, <1>4, <1>6, <2>2
<1>8. DOMAIN y = 1..(n - 1) BY <1>7, SeqFacts
<1>9. /\ DOMAIN x = DOMAIN d \ {k}
      /\ \A i \in 1..(n - 1) : y[i].key \in DOMAIN x /\ x[y[i].key] = i
      /\ \A j \in DOMAIN x : x[j] \in 1..(n - 1) /\ y[x[j]] = q[d[j]] /\ y[x[j]].key = j
  <2>1. n \in Nat /\ k \in DOMAIN d BY <1>3, <1>4
  <2>2. \A i \in 1..n : q[i].key \in DOMAIN d /\ d[q[i].key] = i BY <1>5
  <2>3. \A j \in DOMAIN d : d[j] \in 1..n /\ q[d[j]].key = j BY <1>5
  <2>4. x = [j \in DOMAIN d \ {k} |-> IF j = q[n].key THEN d[k] ELSE d[j]] BY <1>1
  <2>5. \A i \in 1..(n - 1) : y[i] = IF i = d[k] THEN q[n] ELSE q[i] BY <1>7
  <2> QED BY <2>1, <2>2, <2>3, <2>4, <2>5, GapFilled
<1>10. Indexed(erase(m, k)) BY <1>2, <1>8, <1>9 DEF Indexed
<1>11. WellFormed(erase(m, k)) /\ size(erase(m, k)) = size(m) - 1
  BY <1>1, <1>2, <1>7, <1>10 DEF WellFormed, size
<1>12. DOMAIN erase(m, k).d = DOMAIN m.d \ {k} BY <1>1, <1>2, <1>9
<1>13. ASSUME NEW j \in DOMAIN m.d \ {k} PROVE get(erase(m, k), j) = get(m, j)
  <2>1. y[x[j]] = q[d[j]] BY <1>1, <1>9
  <2>2. get(erase(m, k), j) = y[x[j]].value /\ get(m, j) = q[d[j]].value
    BY <1>1, <1>2 DEF get
  <2> QED BY <2>1, <2>2
<1> QED BY <1>11, <1>12, <1>13

(* A map is empty when its array is.                                       *)
LEMMA SizeZero ==
  ASSUME NEW m, WellFormed(m)
  PROVE  size(m) \in Nat /\ (size(m) = 0 <=> DOMAIN m.d = {})
<1>1. Len(m.a) \in Nat /\ DOMAIN m.a = 1..Len(m.a) BY SeqFacts DEF WellFormed
<1> QED BY <1>1 DEF WellFormed, Indexed, size

-----------------------------------------------------------------------------
-----------------------------------------------------------------------------
LEMMA TagsAre ==
  ASSUME NEW S, NEW tag
  PROVE  tag \in TagsIn(S) <=> \E s, b, n : tag = <<s, b, n>> /\ Holds(S, s, b, n)
BY DEF TagsIn, Holds

(* Registering adds the one tag, and no empty block or scope.              *)
LEMMA RegisteredAdds ==
  ASSUME NEW S, ScopesOK(S), NEW s, NEW b, NEW n
  PROVE  /\ ScopesOK(Registered(S, s, b, n))
         /\ TagsIn(Registered(S, s, b, n)) = TagsIn(S) \cup {<<s, b, n>>}
<1>1. PICK scope : scope = IF s \in DOMAIN S THEN S[s] ELSE Empty OBVIOUS
<1>2. PICK block : block = IF contains(scope, b) THEN scope ELSE set(scope, b, {})
  OBVIOUS
<1>3. PICK m : m = assign(block, b, get(block, b) \cup {n}) OBVIOUS
<1>4. PICK R : R = WithScope(S, s, m) OBVIOUS
<1>5. Registered(S, s, b, n) = R BY <1>1, <1>2, <1>3, <1>4 DEF Registered
<1>6. /\ WellFormed(scope)
      /\ \A k \in DOMAIN scope.d : get(scope, k) # {}
      /\ \A k, x : Holds(S, s, k, x) <=> k \in DOMAIN scope.d /\ x \in get(scope, k)
  BY <1>1, EmptyMap DEF ScopesOK, BlocksOK, Holds
<1>7. /\ WellFormed(block) /\ contains(block, b) /\ DOMAIN block.d = DOMAIN scope.d \cup {b}
      /\ \A k \in DOMAIN scope.d : get(block, k) = get(scope, k)
      /\ b \notin DOMAIN scope.d => get(block, b) = {}
  <2>1. CASE contains(scope, b) BY <1>2, <1>6, <2>1 DEF contains
  <2>2. CASE ~contains(scope, b)
    <3>1. /\ WellFormed(set(scope, b, {})) /\ DOMAIN set(scope, b, {}).d = DOMAIN scope.d \cup {b}
          /\ get(set(scope, b, {}), b) = {}
          /\ \A k \in DOMAIN scope.d : get(set(scope, b, {}), k) = get(scope, k)
      BY <1>6, <2>2, SetAdds
    <3> QED BY <1>2, <2>2, <3>1 DEF contains
  <2> QED BY <2>1, <2>2
<1>8. /\ WellFormed(m) /\ DOMAIN m.d = DOMAIN block.d
      /\ get(m, b) = get(block, b) \cup {n}
      /\ \A k \in DOMAIN block.d \ {b} : get(m, k) = get(block, k)
  BY <1>3, <1>7, AssignChanges
<1>9. BlocksOK(m)
  <2>1. size(m) > 0 BY <1>7, <1>8, SizeZero
  <2>2. \A k \in DOMAIN m.d : get(m, k) # {} BY <1>6, <1>7, <1>8
  <2> QED BY <1>8, <2>1, <2>2 DEF BlocksOK
<1>10. DOMAIN R = DOMAIN S \cup {s} /\ R[s] = m /\ \A r \in DOMAIN S \ {s} : R[r] = S[r]
  BY <1>4 DEF WithScope
<1>11. ScopesOK(R) BY <1>9, <1>10 DEF ScopesOK
<1>12. ASSUME NEW r, NEW k, NEW x
       PROVE  Holds(R, r, k, x) <=> Holds(S, r, k, x) \/ (r = s /\ k = b /\ x = n)
  <2>1. CASE r # s BY <1>10, <2>1 DEF Holds
  <2>2. CASE r = s
    <3>1. Holds(R, s, k, x) <=> k \in DOMAIN m.d /\ x \in get(m, k) BY <1>10 DEF Holds
    <3>2. k \in DOMAIN m.d /\ x \in get(m, k) <=>
            (k \in DOMAIN scope.d /\ x \in get(scope, k)) \/ (k = b /\ x = n)
      <4>1. CASE k = b BY <1>7, <1>8, <4>1
      <4>2. CASE k # b BY <1>7, <1>8, <4>2
      <4> QED BY <4>1, <4>2
    <3> QED BY <1>6, <2>2, <3>1, <3>2
  <2> QED BY <2>1, <2>2
<1>13. TagsIn(R) = TagsIn(S) \cup {<<s, b, n>>}
  <2>1. ASSUME NEW tag PROVE tag \in TagsIn(R) <=> tag \in TagsIn(S) \cup {<<s, b, n>>}
    <3>1. tag \in TagsIn(R) <=> \E r, k, x : tag = <<r, k, x>> /\ Holds(R, r, k, x)
      BY TagsAre
    <3>2. tag \in TagsIn(S) <=> \E r, k, x : tag = <<r, k, x>> /\ Holds(S, r, k, x)
      BY TagsAre
    <3> QED BY <1>12, <3>1, <3>2
  <2> QED BY <2>1
<1> QED BY <1>5, <1>11, <1>13

(* Unregistering takes the one tag away, and a block or a scope that is    *)
(* left without any.                                                       *)
LEMMA UnregisteredRemoves ==
  ASSUME NEW S, ScopesOK(S), NEW s, NEW b, NEW n, n \in NodesIn(S, s, b)
  PROVE  /\ ScopesOK(Unregistered(S, s, b, n))
         /\ TagsIn(Unregistered(S, s, b, n)) = TagsIn(S) \ {<<s, b, n>>}
<1>1. PICK old : old = S[s] OBVIOUS
<1>2. PICK block : block = assign(old, b, get(old, b) \ {n}) OBVIOUS
<1>3. PICK m : m = IF get(block, b) = {} THEN erase(block, b) ELSE block OBVIOUS
<1>4. PICK R : R = IF size(m) = 0 THEN [r \in DOMAIN S \ {s} |-> S[r]] ELSE WithScope(S, s, m)
  OBVIOUS
<1>5. Unregistered(S, s, b, n) = R BY <1>1, <1>2, <1>3, <1>4 DEF Unregistered
<1>6. /\ s \in DOMAIN S /\ contains(old, b) /\ b \in DOMAIN old.d /\ n \in get(old, b) /\ BlocksOK(old)
      /\ \A k, x : Holds(S, s, k, x) <=> k \in DOMAIN old.d /\ x \in get(old, k)
  BY <1>1 DEF NodesIn, InScope, contains, ScopesOK, Holds
<1>7. /\ WellFormed(block) /\ contains(block, b) /\ DOMAIN block.d = DOMAIN old.d
      /\ get(block, b) = get(old, b) \ {n}
      /\ \A k \in DOMAIN old.d \ {b} : get(block, k) = get(old, k)
  BY <1>2, <1>6, AssignChanges DEF BlocksOK, contains
<1>8. /\ WellFormed(m) /\ DOMAIN m.d \subseteq DOMAIN old.d
      /\ \A k \in DOMAIN old.d : k \in DOMAIN m.d <=> get(block, k) # {}
      /\ \A k \in DOMAIN m.d : get(m, k) = get(block, k)
  <2>0. \A k \in DOMAIN old.d \ {b} : get(block, k) # {} BY <1>6, <1>7 DEF BlocksOK
  <2>1. CASE get(block, b) = {}
    <3>1. /\ WellFormed(erase(block, b)) /\ DOMAIN erase(block, b).d = DOMAIN block.d \ {b}
          /\ \A k \in DOMAIN block.d \ {b} : get(erase(block, b), k) = get(block, k)
      BY <1>7, EraseRemoves
    <3> QED BY <1>3, <1>6, <1>7, <2>0, <2>1, <3>1
  <2>2. CASE get(block, b) # {} BY <1>3, <1>6, <1>7, <2>0, <2>2
  <2> QED BY <2>1, <2>2
<1>9. \A k, x : k \in DOMAIN m.d /\ x \in get(m, k) <=>
                  k \in DOMAIN old.d /\ x \in get(old, k) /\ ~(k = b /\ x = n)
  <2> TAKE k, x
  <2>1. CASE k = b BY <1>6, <1>7, <1>8, <2>1
  <2>2. CASE k # b BY <1>7, <1>8, <2>2
  <2> QED BY <2>1, <2>2
<1>10. size(m) \in Nat /\ (size(m) = 0 <=> DOMAIN m.d = {}) BY <1>8, SizeZero
<1>11. /\ ScopesOK(R)
       /\ \A r, k, x : Holds(R, r, k, x) <=>
            IF r = s THEN k \in DOMAIN m.d /\ x \in get(m, k) ELSE Holds(S, r, k, x)
  <2>1. CASE size(m) = 0
    <3>1. DOMAIN R = DOMAIN S \ {s} /\ \A r \in DOMAIN R : R[r] = S[r] BY <1>4, <2>1
    <3> QED BY <1>10, <2>1, <3>1 DEF ScopesOK, Holds
  <2>2. CASE size(m) # 0
    <3>1. DOMAIN R = DOMAIN S \cup {s} /\ R[s] = m /\ \A r \in DOMAIN S \ {s} : R[r] = S[r]
      BY <1>4, <2>2 DEF WithScope
    <3>2. BlocksOK(m) BY <1>8, <1>10, <2>2 DEF BlocksOK
    <3> QED BY <3>1, <3>2 DEF ScopesOK, Holds
  <2> QED BY <2>1, <2>2
<1>12. \A r, k, x : Holds(R, r, k, x) <=> Holds(S, r, k, x) /\ <<r, k, x>> # <<s, b, n>>
  BY <1>6, <1>9, <1>11
<1>13. TagsIn(R) = TagsIn(S) \ {<<s, b, n>>}
  <2>1. ASSUME NEW tag PROVE tag \in TagsIn(R) <=> tag \in TagsIn(S) \ {<<s, b, n>>}
    <3>1. tag \in TagsIn(R) <=> \E r, k, x : tag = <<r, k, x>> /\ Holds(R, r, k, x)
      BY TagsAre
    <3>2. tag \in TagsIn(S) <=> \E r, k, x : tag = <<r, k, x>> /\ Holds(S, r, k, x)
      BY TagsAre
    <3> QED BY <1>12, <3>1, <3>2
  <2> QED BY <2>1
<1> QED BY <1>5, <1>11, <1>13

-----------------------------------------------------------------------------
(* Tags and choices that match go on matching.                             *)
LEMMA MatchAdd ==
  ASSUME NEW T, NEW U, NEW c, Matches(T, U)
  PROVE  Matches(T \cup {default(c)}, U \cup {c})
BY DEF Matches, default

LEMMA MatchRemove ==
  ASSUME NEW T, NEW U, NEW c, Matches(T, U)
  PROVE  Matches(T \ {default(c)}, U \ {c})
<1> DEFINE D(X) == {default(x) : x \in X}
<1>1. D(U \ {c}) = D(U) \ {default(c)} BY DEF default
<1>2. {tag \in T \ {default(c)} : tag[1] = Default} = {tag \in T : tag[1] = Default} \ {default(c)}
  OBVIOUS
<1> QED BY <1>1, <1>2 DEF Matches

LEMMA MatchOther ==
  ASSUME NEW T, NEW U, NEW s, NEW b, NEW n, s # Default, Matches(T, U)
  PROVE  Matches(T \cup {<<s, b, n>>}, U) /\ Matches(T \ {<<s, b, n>>}, U)
<1>1. <<s, b, n>>[1] # Default OBVIOUS
<1>2. /\ {tag \in T \cup {<<s, b, n>>} : tag[1] = Default} = {tag \in T : tag[1] = Default}
      /\ {tag \in T \ {<<s, b, n>>} : tag[1] = Default} = {tag \in T : tag[1] = Default}
  BY <1>1
<1> QED BY <1>2 DEF Matches

LEMMA MatchUnion ==
  ASSUME NEW T, NEW U, NEW S, NEW V, Matches(T, U), Matches(S, V)
  PROVE  Matches(T \cup S, U \cup V)
<1>1. {tag \in T \cup S : tag[1] = Default} = {tag \in T : tag[1] = Default} \cup {tag \in S : tag[1] = Default}
  OBVIOUS
<1>2. {default(c) : c \in U \cup V} = {default(c) : c \in U} \cup {default(c) : c \in V}
  OBVIOUS
<1> QED BY <1>1, <1>2 DEF Matches

LEMMA BaseIsNoParticle == Base \notin Particle /\ Base \in Trace /\ \A t \in Trace : t # Base => t \in Particle
BY DEF Base, Particle, Trace

(* A registration goes to the scopes of the trace or to the tags of the    *)
(* particle.                                                               *)
LEMMA RegisterEffect ==
  ASSUME IInv, NEW t \in Trace, NEW s, NEW b, NEW n, RegisterInScope(t, s, b, n)
  PROVE  /\ ScopesOK(scopes') /\ DOMAIN tags' = Particle
         /\ t = Base => tags' = tags /\ TagsIn(scopes') = TagsIn(scopes) \cup {<<s, b, n>>}
         /\ t # Base => /\ scopes' = scopes
                        /\ tags'[t] = tags[t] \cup {<<s, b, n>>}
                        /\ \A p \in Particle \ {t} : tags'[p] = tags[p]
<1>1. ScopesOK(scopes) /\ DOMAIN tags = Particle BY DEF IInv, Records
<1>2. CASE t = Base
  <2>1. scopes' = Registered(scopes, s, b, n) /\ tags' = tags
    BY <1>2 DEF RegisterInScope
  <2>2. /\ ScopesOK(Registered(scopes, s, b, n))
        /\ TagsIn(Registered(scopes, s, b, n)) = TagsIn(scopes) \cup {<<s, b, n>>}
    BY <1>1, RegisteredAdds
  <2> QED BY <1>1, <1>2, <2>1, <2>2
<1>3. CASE t # Base
  <2>1. tags' = [tags EXCEPT ![t] = @ \cup {<<s, b, n>>}] /\ scopes' = scopes
    BY <1>3 DEF RegisterInScope
  <2>2. t \in Particle BY <1>3, BaseIsNoParticle
  <2> QED BY <1>1, <1>3, <2>1, <2>2
<1> QED BY <1>2, <1>3

LEMMA UnregisterEffect ==
  ASSUME IInv, NEW s, NEW b, NEW n, UnregisterInScope(s, b, n)
  PROVE  /\ ScopesOK(scopes') /\ tags' = tags
         /\ TagsIn(scopes') = TagsIn(scopes) \ {<<s, b, n>>}
<1>1. ScopesOK(scopes) /\ n \in NodesIn(scopes, s, b) BY DEF IInv, UnregisterInScope
<1>2. scopes' = Unregistered(scopes, s, b, n) /\ tags' = tags BY DEF UnregisterInScope
<1>3. /\ ScopesOK(Unregistered(scopes, s, b, n))
      /\ TagsIn(Unregistered(scopes, s, b, n)) = TagsIn(scopes) \ {<<s, b, n>>}
  BY <1>1, UnregisteredRemoves
<1> QED BY <1>2, <1>3

-----------------------------------------------------------------------------
(* A step that registers nothing.                                          *)
LEMMA OthersKeep ==
  ASSUME IInv, UNCHANGED <<scopes, tags, ucs, toTag>>, live' \subseteq Particle,
         phase' = phase \/ phase # "commit"
  PROVE  IInv'
<1>1. phase' # "commit" => toTag' = {} BY DEF IInv, Records
<1> QED BY <1>1 DEF IInv, Records

LEMMA UnconstrainedKeeps ==
  ASSUME IInv, NEW t \in Trace, NEW c, registerUnconstrainedChoice(t, c), UNCHANGED <<phase, live, toTag>>
  PROVE  IInv'
<1>1. /\ ucs' = [ucs EXCEPT ![t] = @ \cup {c}] /\ RegisterInScope(t, Default, c, c)
      /\ DOMAIN ucs = Trace /\ Particle \subseteq Trace
  BY DEF registerUnconstrainedChoice, IInv, Records, Trace
<1>2. /\ DOMAIN ucs' = Trace /\ ucs'[t] = ucs[t] \cup {c}
      /\ \A u \in Trace \ {t} : ucs'[u] = ucs[u]
  BY <1>1
<1>3. /\ ScopesOK(scopes') /\ DOMAIN tags' = Particle
      /\ t = Base => tags' = tags /\ TagsIn(scopes') = TagsIn(scopes) \cup {default(c)}
      /\ t # Base => /\ scopes' = scopes
                     /\ tags'[t] = tags[t] \cup {default(c)}
                     /\ \A p \in Particle \ {t} : tags'[p] = tags[p]
  BY <1>1, RegisterEffect DEF default
<1>4. ASSUME NEW p \in Particle PROVE Matches(tags'[p], ucs'[p])
  <2>1. Matches(tags[p], ucs[p]) /\ p # Base BY BaseIsNoParticle DEF IInv, Records
  <2>2. CASE p = t BY <1>2, <1>3, <2>1, <2>2, MatchAdd
  <2>3. CASE p # t BY <1>1, <1>2, <1>3, <2>1, <2>3
  <2> QED BY <2>2, <2>3
<1>5. Matches(TagsIn(scopes') \cup toTag', ucs'[Base])
  <2>1. Matches(TagsIn(scopes) \cup toTag, ucs[Base]) BY DEF IInv, Records
  <2>2. CASE t = Base
    <3>1. TagsIn(scopes') \cup toTag' = (TagsIn(scopes) \cup toTag) \cup {default(c)}
      BY <1>3, <2>2
    <3> QED BY <1>2, <2>1, <2>2, <3>1, MatchAdd
  <2>3. CASE t # Base BY <1>2, <1>3, <2>1, <2>3, BaseIsNoParticle
  <2> QED BY <2>2, <2>3
<1> QED BY <1>2, <1>3, <1>4, <1>5 DEF IInv, Records

(* A tag of the program is not one of the default scope.                   *)
LEMMA TagKeeps ==
  ASSUME IInv, NEW t \in Trace, NEW s \in Scope, NEW b, NEW n, RegisterInScope(t, s, b, n),
         UNCHANGED <<phase, live, toTag, ucs>>
  PROVE  IInv'
<1>1. s # Default BY ScopesAssumption
<1>2. /\ ScopesOK(scopes') /\ DOMAIN tags' = Particle
      /\ t = Base => tags' = tags /\ TagsIn(scopes') = TagsIn(scopes) \cup {<<s, b, n>>}
      /\ t # Base => /\ scopes' = scopes
                     /\ tags'[t] = tags[t] \cup {<<s, b, n>>}
                     /\ \A p \in Particle \ {t} : tags'[p] = tags[p]
  BY RegisterEffect
<1>3. ASSUME NEW p \in Particle PROVE Matches(tags'[p], ucs'[p])
  <2>1. Matches(tags[p], ucs[p]) /\ p # Base BY BaseIsNoParticle DEF IInv, Records
  <2>2. CASE p = t
    <3>1. Matches(tags[p] \cup {<<s, b, n>>}, ucs[p]) BY <1>1, <2>1, MatchOther
    <3>2. ucs'[p] = ucs[p] /\ tags'[p] = tags[p] \cup {<<s, b, n>>} BY <1>2, <2>1, <2>2
    <3> QED BY <3>1, <3>2
  <2>3. CASE p # t BY <1>2, <2>1, <2>3
  <2> QED BY <2>2, <2>3
<1>4. Matches(TagsIn(scopes') \cup toTag', ucs'[Base])
  <2>1. Matches(TagsIn(scopes) \cup toTag, ucs[Base]) BY DEF IInv, Records
  <2>2. CASE t = Base
    <3>1. TagsIn(scopes') \cup toTag' = (TagsIn(scopes) \cup toTag) \cup {<<s, b, n>>}
      BY <1>2, <2>2
    <3> QED BY <1>1, <2>1, <3>1, MatchOther
  <2>3. CASE t # Base BY <1>2, <2>1, <2>3
  <2> QED BY <2>2, <2>3
<1> QED BY <1>2, <1>3, <1>4 DEF IInv, Records

(* The trace forgets an unconstrained choice, or a tag of the program.     *)
LEMMA UnregisterKeeps ==
  ASSUME IInv, toTag = {}, NEW c, unregisterUnconstrainedChoice(c), UNCHANGED <<phase, live, toTag>>
  PROVE  IInv'
<1>1. /\ ucs' = [ucs EXCEPT ![Base] = @ \ {c}] /\ UnregisterInScope(Default, c, c)
      /\ DOMAIN ucs = Trace /\ Particle \subseteq Trace
  BY DEF unregisterUnconstrainedChoice, IInv, Records, Trace
<1>2. /\ DOMAIN ucs' = Trace /\ ucs'[Base] = ucs[Base] \ {c}
      /\ \A p \in Particle : ucs'[p] = ucs[p]
  BY <1>1, BaseIsNoParticle
<1>3. /\ ScopesOK(scopes') /\ tags' = tags
      /\ TagsIn(scopes') = TagsIn(scopes) \ {default(c)}
  BY <1>1, UnregisterEffect DEF default
<1>4. Matches(TagsIn(scopes') \cup toTag', ucs'[Base])
  <2>1. Matches(TagsIn(scopes), ucs[Base]) BY DEF IInv, Records
  <2>2. TagsIn(scopes') \cup toTag' = TagsIn(scopes) \ {default(c)} BY <1>3
  <2> QED BY <1>2, <2>1, <2>2, MatchRemove
<1> QED BY <1>2, <1>3, <1>4 DEF IInv, Records

LEMMA UntagKeeps ==
  ASSUME IInv, toTag = {}, NEW s \in Scope, NEW b, NEW n, UnregisterInScope(s, b, n),
         UNCHANGED <<phase, live, toTag, ucs>>
  PROVE  IInv'
<1>1. s # Default BY ScopesAssumption
<1>2. /\ ScopesOK(scopes') /\ tags' = tags
      /\ TagsIn(scopes') = TagsIn(scopes) \ {<<s, b, n>>}
  BY UnregisterEffect
<1>3. Matches(TagsIn(scopes') \cup toTag', ucs'[Base])
  <2>1. Matches(TagsIn(scopes), ucs[Base]) BY DEF IInv, Records
  <2>2. TagsIn(scopes') \cup toTag' = TagsIn(scopes) \ {<<s, b, n>>} BY <1>2
  <2>3. Matches(TagsIn(scopes) \ {<<s, b, n>>}, ucs[Base]) BY <1>1, <2>1, MatchOther
  <2> QED BY <2>2, <2>3
<1> QED BY <1>2, <1>3 DEF IInv, Records

LEMMA ConstrainedKeeps ==
  ASSUME IInv, toTag = {}, NEW t \in Trace, NEW c, registerConstrainedChoice(t, c),
         UNCHANGED <<phase, live, toTag>>
  PROVE  IInv'
<1>1. CASE t = Base BY <1>1, UnregisterKeeps DEF registerConstrainedChoice
<1>2. CASE t # Base
  <2>1. UNCHANGED <<ucs, scopes, tags>> BY <1>2 DEF registerConstrainedChoice
  <2>2. live \subseteq Particle BY DEF IInv, Records
  <2> QED BY <2>1, <2>2, OthersKeep
<1> QED BY <1>1, <1>2

-----------------------------------------------------------------------------
(* A call of regen, in the trace or in a particle.                         *)
LEMMA RegenKeeps ==
  ASSUME IInv, NEW t \in Trace, Regen(t)
  PROVE  IInv'
<1>0. live \subseteq Particle /\ (phase # "commit" => toTag = {}) BY DEF IInv, Records
<1>1. ASSUME NEW m \in Maker, NEW sp \in Proc, MakeStep(t, m, sp) PROVE IInv'
  <2>1. UNCHANGED <<phase, live, toTag, ucs, scopes, tags>>
    BY <1>1 DEF MakeStep, gibbsVars, registerVars
  <2> QED BY <1>0, <2>1, OthersKeep
<1>2. ASSUME NEW c \in Choice, NEW v \in Value, DrawStep(t, c, v) PROVE IInv'
  <2>1. registerUnconstrainedChoice(t, c) /\ UNCHANGED <<phase, live, toTag>>
    BY <1>2 DEF DrawStep, Apply, gibbsVars
  <2> QED BY <2>1, UnconstrainedKeeps
<1>3. ASSUME NEW o \in Output, NEW m \in Maker, NEW id \in Id, ShareStep(t, o, m, id) PROVE IInv'
  <2>1. UNCHANGED <<phase, live, toTag, ucs, scopes, tags>>
    BY <1>3 DEF ShareStep, gibbsVars, registerVars
  <2> QED BY <1>0, <2>1, OthersKeep
<1>4. ASSUME NEW o \in Output, NEW m \in Maker, NEW id \in Id, NEW v \in Value, FamilyStep(t, o, m, id, v)
      PROVE  IInv'
  <2>1. registerUnconstrainedChoice(t, Root[id]) /\ UNCHANGED <<phase, live, toTag>>
    BY <1>4 DEF FamilyStep, Apply, gibbsVars
  <2> QED BY <2>1, UnconstrainedKeeps
<1>5. ASSUME NEW s \in Scope, NEW b \in Choice, NEW c \in Choice, TagStep(t, s, b, c) PROVE IInv'
  <2>1. RegisterInScope(t, s, getValue(t, b), c) /\ UNCHANGED <<phase, live, toTag, ucs>>
    BY <1>5 DEF TagStep, gibbsVars
  <2> QED BY <2>1, TagKeeps
<1>6. ASSUME NEW n \in Choice \cup Output, NEW c \in Choice, NEW v \in Value, ObserveStep(t, n, c, v)
      PROVE  IInv'
  <2>1. registerConstrainedChoice(t, c) /\ UNCHANGED <<phase, live, toTag>>
    BY <1>6 DEF ObserveStep, gibbsVars
  <2>2. phase # "commit" BY <1>6 DEF ObserveStep, Due, Running
  <2> QED BY <1>0, <2>1, <2>2, ConstrainedKeeps
<1>7. ASSUME NEW c \in Choice, AbsorbStep(t, c) PROVE IInv'
  <2>1. UNCHANGED <<phase, live, toTag, ucs, scopes, tags>>
    BY <1>7 DEF AbsorbStep, gibbsVars, registerVars
  <2> QED BY <1>0, <2>1, OthersKeep
<1> QED BY <1>1, <1>2, <1>3, <1>4, <1>5, <1>6, <1>7 DEF Regen

(* A call of detach.                                                       *)
LEMMA DetachKeeps ==
  ASSUME IInv, Detach
  PROVE  IInv'
<1>0. live \subseteq Particle /\ (phase # "commit" => toTag = {}) /\ Base \in Trace
  BY BaseIsNoParticle DEF IInv, Records
<1>1. ASSUME NEW m \in Maker, UnmakeStep(m) PROVE IInv'
  <2>1. UNCHANGED <<phase, live, toTag, ucs, scopes, tags>>
    BY <1>1 DEF UnmakeStep, Undo, registerVars
  <2> QED BY <1>0, <2>1, OthersKeep
<1>2. ASSUME NEW c, Unapply(c), phase = "detach", UNCHANGED <<phase, live, toTag>> PROVE IInv'
  <2>1. unregisterUnconstrainedChoice(c) /\ toTag = {} BY <1>0, <1>2 DEF Unapply
  <2> QED BY <1>2, <2>1, UnregisterKeeps
<1>3. ASSUME NEW o \in Output, NEW m \in Maker, UnrequestStep(o, m) PROVE IInv'
  <2>1. phase = "detach" /\ UNCHANGED <<phase, live, toTag>>
    BY <1>3 DEF UnrequestStep, Latest, Undo
  <2>2. UNCHANGED registerVars \/ Unapply(esrRoots[Base][o]) BY <1>3 DEF UnrequestStep
  <2>3. CASE UNCHANGED registerVars
    <3>1. UNCHANGED <<ucs, scopes, tags>> BY <2>3 DEF registerVars
    <3> QED BY <1>0, <2>1, <3>1, OthersKeep
  <2>4. CASE Unapply(esrRoots[Base][o]) BY <1>2, <2>1, <2>4
  <2> QED BY <2>2, <2>3, <2>4
<1>4. ASSUME NEW c \in Choice, UndrawStep(c) PROVE IInv'
  <2>1. Unapply(c) /\ phase = "detach" /\ UNCHANGED <<phase, live, toTag>>
    BY <1>4 DEF UndrawStep, Latest, Undo
  <2> QED BY <1>2, <2>1
<1>5. ASSUME NEW c \in Choice, UnabsorbStep(c) PROVE IInv'
  <2>1. UNCHANGED <<phase, live, toTag, ucs, scopes, tags>>
    BY <1>5 DEF UnabsorbStep, Undo, registerVars
  <2> QED BY <1>0, <2>1, OthersKeep
<1>6. ASSUME NEW s \in Scope, NEW b \in Choice, NEW c \in Choice, UntagStep(s, b, c) PROVE IInv'
  <2>1. phase = "detach" /\ UnregisterInScope(s, values[Base][b], c) /\ UNCHANGED <<phase, live, toTag, ucs>>
    BY <1>6 DEF UntagStep, Latest, Undo
  <2> QED BY <1>0, <2>1, UntagKeeps
<1>7. ASSUME NEW n \in Choice \cup Output, NEW v \in Value, UnobserveStep(n, v) PROVE IInv'
  <2>1. registerUnconstrainedChoice(Base, Constrainable(Base, n)) /\ UNCHANGED <<phase, live, toTag>>
    BY <1>7 DEF UnobserveStep, Undo
  <2> QED BY <1>0, <2>1, UnconstrainedKeeps
<1> QED BY <1>1, <1>3, <1>4, <1>5, <1>6, <1>7 DEF Detach

-----------------------------------------------------------------------------
(* A particle is copied from another, with its choices and tags.           *)
LEMMA CloneKeeps ==
  ASSUME IInv, NEW p \in Particle, NEW q \in Particle, Clone(p, q)
  PROVE  IInv'
<1>1. /\ ucs' = [ucs EXCEPT ![q] = ucs[p]] /\ tags' = [tags EXCEPT ![q] = tags[p]]
      /\ live' = live \cup {q} /\ UNCHANGED <<phase, toTag, scopes>>
      /\ DOMAIN tags = Particle /\ DOMAIN ucs = Trace /\ Particle \subseteq Trace /\ Base # q
  BY BaseIsNoParticle DEF Clone, Copied, IInv, Records, Trace
<1>2. \A r \in Particle : /\ ucs'[r] = IF r = q THEN ucs[p] ELSE ucs[r]
                          /\ tags'[r] = IF r = q THEN tags[p] ELSE tags[r]
  BY <1>1
<1>3. DOMAIN tags' = Particle /\ DOMAIN ucs' = Trace /\ ucs'[Base] = ucs[Base]
  BY <1>1, BaseIsNoParticle
<1> QED BY <1>1, <1>2, <1>3 DEF IInv, Records

(* A particle that is gone has neither choices nor tags.                   *)
LEMMA AdvanceKeeps ==
  ASSUME IInv, Advance
  PROVE  IInv'
<1>1. PICK gone : gone = live \ Generation(group) OBVIOUS
<1>2. /\ ucs' = Blank(ucs, gone, {}) /\ tags' = Blank(tags, gone, {})
      /\ live' = live \ gone /\ UNCHANGED <<phase, toTag, scopes>>
  BY <1>1 DEF Advance, DropOverlays
<1>3. /\ DOMAIN tags = Particle /\ DOMAIN ucs = Trace /\ Particle \subseteq Trace
      /\ gone \subseteq Particle
  BY <1>1 DEF IInv, Records, Trace
<1>4. /\ DOMAIN tags' = Particle /\ DOMAIN ucs' = Trace /\ ucs'[Base] = ucs[Base]
      /\ \A r \in Particle : /\ ucs'[r] = IF r \in gone THEN {} ELSE ucs[r]
                             /\ tags'[r] = IF r \in gone THEN {} ELSE tags[r]
  BY <1>2, <1>3, BaseIsNoParticle DEF Blank
<1>5. Matches({}, {}) BY DEF Matches
<1> QED BY <1>2, <1>4, <1>5 DEF IInv, Records

(* The commit takes over the choices of the particle and, one by one, its  *)
(* tags, before it removes those of its constrained choices.               *)
LEMMA CommitChoicesKeeps ==
  ASSUME IInv, NEW p \in Particle, CommitChoices(p)
  PROVE  IInv'
<1>1. /\ ucs' = [ucs EXCEPT ![Base] = @ \cup ucs[p]] /\ toTag' = tags[p]
      /\ phase = "propose" /\ phase' = "commit" /\ UNCHANGED <<live, scopes, tags>>
      /\ DOMAIN ucs = Trace /\ Particle \subseteq Trace
  BY DEF CommitChoices, WithChoices, IInv, Records, Trace
<1>2. /\ DOMAIN ucs' = Trace /\ ucs'[Base] = ucs[Base] \cup ucs[p]
      /\ \A q \in Particle : ucs'[q] = ucs[q]
  BY <1>1, BaseIsNoParticle
<1>3. toTag = {} /\ Matches(TagsIn(scopes), ucs[Base]) /\ Matches(tags[p], ucs[p])
  <2>1. toTag = {} /\ Matches(TagsIn(scopes) \cup toTag, ucs[Base]) /\ Matches(tags[p], ucs[p])
    BY <1>1 DEF IInv, Records
  <2>2. TagsIn(scopes) \cup toTag = TagsIn(scopes) BY <2>1
  <2> QED BY <2>1, <2>2
<1>4. Matches(TagsIn(scopes') \cup toTag', ucs'[Base]) BY <1>1, <1>2, <1>3, MatchUnion
<1> QED BY <1>1, <1>2, <1>4 DEF IInv, Records

LEMMA CommitTagKeeps ==
  ASSUME IInv, NEW s, NEW b, NEW n, CommitTag(s, b, n)
  PROVE  IInv'
<1>1. /\ toTag' = toTag \ {<<s, b, n>>} /\ <<s, b, n>> \in toTag
      /\ phase = "commit" /\ UNCHANGED <<phase, live, ucs>>
      /\ RegisterInScope(Base, s, b, n)
  BY DEF CommitTag
<1>2. /\ ScopesOK(scopes') /\ tags' = tags
      /\ TagsIn(scopes') = TagsIn(scopes) \cup {<<s, b, n>>}
  BY <1>1, RegisterEffect, BaseIsNoParticle
<1>3. TagsIn(scopes') \cup toTag' = TagsIn(scopes) \cup toTag BY <1>1, <1>2
<1> QED BY <1>1, <1>2, <1>3 DEF IInv, Records

LEMMA CommitRestKeeps ==
  ASSUME IInv, CommitRest
  PROVE  IInv'
<1>1. /\ ucs' = Merged(ucs, ucs[Base], {}) /\ tags' = Blank(tags, Particle, {})
      /\ phase' = "regen" /\ toTag = {} /\ live' = {} /\ UNCHANGED <<toTag, scopes>>
      /\ DOMAIN tags = Particle /\ DOMAIN ucs = Trace /\ Particle \subseteq Trace
  BY DEF CommitRest, DropOverlays, IInv, Records, Trace
<1>2. /\ DOMAIN tags' = Particle /\ DOMAIN ucs' = Trace /\ ucs'[Base] = ucs[Base]
      /\ \A r \in Particle : ucs'[r] = {} /\ tags'[r] = {}
  BY <1>1, BaseIsNoParticle DEF Merged, Blank
<1>3. Matches({}, {}) BY DEF Matches
<1> QED BY <1>1, <1>2, <1>3 DEF IInv, Records

LEMMA MoveKeeps ==
  ASSUME IInv, Move
  PROVE  IInv'
<1>0. live \subseteq Particle BY DEF IInv, Records
<1>1. CASE BeginDetach
  <2>1. UNCHANGED <<scopes, tags, ucs, toTag, live>> /\ phase # "commit"
    BY <1>1 DEF BeginDetach, registerVars
  <2> QED BY <1>0, <2>1, OthersKeep
<1>2. CASE BeginPropose
  <2>1. UNCHANGED <<scopes, tags, ucs, toTag, live>> /\ phase # "commit"
    BY <1>2 DEF BeginPropose, registerVars
  <2> QED BY <1>0, <2>1, OthersKeep
<1>3. ASSUME NEW p \in Particle, Spawn(p) PROVE IInv'
  <2>1. UNCHANGED <<scopes, tags, ucs, toTag>> /\ phase # "commit" /\ live' = live \cup {p}
    BY <1>3 DEF Spawn, registerVars
  <2> QED BY <1>0, <2>1, OthersKeep
<1>4. ASSUME NEW c, CommitConstraint(c) PROVE IInv'
  <2>1. registerConstrainedChoice(Base, c) /\ toTag = {} /\ UNCHANGED <<phase, live, toTag>>
    BY <1>4 DEF CommitConstraint
  <2> QED BY <2>1, ConstrainedKeeps, BaseIsNoParticle
<1> QED
  BY <1>1, <1>2, <1>3, <1>4, CloneKeeps, AdvanceKeeps, CommitChoicesKeeps, CommitTagKeeps,
     CommitRestKeeps DEF Move

(* In the beginning there is no scope and no choice.                       *)
LEMMA InitIInv == Init => IInv
<1> SUFFICES ASSUME Init PROVE IInv OBVIOUS
<1>1. /\ scopes = <<>> /\ toTag = {} /\ live = {}
      /\ tags = [p \in Particle |-> {}] /\ ucs = [t \in Trace |-> {}]
  BY DEF Init
<1>2. ScopesOK(scopes) /\ TagsIn(scopes) = {} BY <1>1 DEF ScopesOK, TagsIn
<1>3. DOMAIN tags = Particle /\ DOMAIN ucs = Trace /\ ucs[Base] = {}
      /\ \A p \in Particle : tags[p] = {} /\ ucs[p] = {}
  BY <1>1, BaseIsNoParticle DEF Trace
<1>4. Matches({}, {}) /\ TagsIn(scopes) \cup toTag = {} BY <1>1, <1>2 DEF Matches
<1> QED BY <1>1, <1>2, <1>3, <1>4 DEF IInv, Records

LEMMA ScopesKeep ==
  ASSUME IInv, [Next]_vars
  PROVE  IInv'
<1>1. CASE UNCHANGED vars
  <2>1. UNCHANGED <<scopes, tags, ucs, toTag, live, phase>> /\ live \subseteq Particle
    BY <1>1 DEF vars, gibbsVars, registerVars, IInv, Records
  <2> QED BY <2>1, OthersKeep
<1>2. CASE Next BY <1>2, RegenKeeps, DetachKeeps, MoveKeeps DEF Next
<1> QED BY <1>1, <1>2

(* The inductive invariant of the scopes: what is registered of a choice   *)
(* is what is constrained and unconstrained, and what a commit has left.   *)
THEOREM ScopesInvariant == Spec => []IInv
BY InitIInv, ScopesKeep, PTL DEF Spec

(* Whatever the particles register and the commit merges, a scope has no   *)
(* empty block, its dictionary and its array agree, and the default one    *)
(* has the unconstrained choices: every draw of a block is uniform over    *)
(* blocks with something to move.                                          *)
THEOREM BlocksToDraw == Spec => []ScopesWellFormed
<1>1. IInv => ScopesWellFormed
  <2> SUFFICES ASSUME IInv PROVE ScopesWellFormed OBVIOUS
  <2>1. \A s \in DOMAIN scopes :
          /\ Indexed(scopes[s]) /\ size(scopes[s]) > 0
          /\ \A b \in DOMAIN scopes[s].d : get(scopes[s], b) # {}
    BY DEF IInv, ScopesOK, BlocksOK, WellFormed
  <2>2. ASSUME phase # "commit"
        PROVE  {tag \in BaseTags : tag[1] = Default} = {default(c) : c \in ucs[Base]}
    <3>1. BaseTags = TagsIn(scopes) \cup toTag
      BY <2>2 DEF IInv, Records, BaseTags, TagsIn
    <3>2. Matches(TagsIn(scopes) \cup toTag, ucs[Base]) BY DEF IInv, Records
    <3> QED BY <3>1, <3>2 DEF Matches
  <2> QED BY <2>1, <2>2 DEF ScopesWellFormed
<1> QED BY ScopesInvariant, <1>1, PTL
-----------------------------------------------------------------------------
LEMMA SetValueKeeps ==
  ASSUME NEW X \in [Trace -> [Choice -> Value \cup {None}]], NEW t \in Trace, NEW c,
         NEW v \in Value \cup {None}
  PROVE  [X EXCEPT ![t][c] = v] \in [Trace -> [Choice -> Value \cup {None}]]
<1>1. [X[t] EXCEPT ![c] = v] \in [Choice -> Value \cup {None}] OBVIOUS
<1> QED BY <1>1

LEMMA RegenValues ==
  ASSUME ValuesOK, NEW t \in Trace, Regen(t)
  PROVE  ValuesOK'
<1>1. ASSUME values' = values PROVE ValuesOK' BY <1>1 DEF ValuesOK
<1>2. ASSUME NEW c, NEW v \in Value, values' = [values EXCEPT ![t][c] = v] PROVE ValuesOK'
  BY <1>2, SetValueKeeps DEF ValuesOK
<1>3. ASSUME NEW c \in Choice, NEW v \in Value, DrawStep(t, c, v) PROVE ValuesOK'
  BY <1>2, <1>3 DEF DrawStep, Apply
<1>4. ASSUME NEW o \in Output, NEW m \in Maker, NEW id \in Id, NEW v \in Value, FamilyStep(t, o, m, id, v)
      PROVE  ValuesOK'
  BY <1>2, <1>4 DEF FamilyStep, Apply
<1>5. ASSUME NEW n \in Choice \cup Output, NEW c \in Choice, NEW v \in Value, ObserveStep(t, n, c, v)
      PROVE  ValuesOK'
  BY <1>2, <1>5 DEF ObserveStep
<1>6. ASSUME NEW m \in Maker, NEW sp \in Proc, MakeStep(t, m, sp) PROVE ValuesOK'
  BY <1>1, <1>6 DEF MakeStep, nodeVars
<1>7. ASSUME NEW o \in Output, NEW m \in Maker, NEW id \in Id, ShareStep(t, o, m, id) PROVE ValuesOK'
  BY <1>1, <1>7 DEF ShareStep
<1>8. ASSUME NEW s \in Scope, NEW b \in Choice, NEW c \in Choice, TagStep(t, s, b, c) PROVE ValuesOK'
  BY <1>1, <1>8 DEF TagStep, nodeVars
<1>9. ASSUME NEW c \in Choice, AbsorbStep(t, c) PROVE ValuesOK'
  BY <1>1, <1>9 DEF AbsorbStep, nodeVars
<1> QED BY <1>3, <1>4, <1>5, <1>6, <1>7, <1>8, <1>9 DEF Regen

LEMMA DetachValues ==
  ASSUME ValuesOK, Detach
  PROVE  ValuesOK'
<1>1. values' = values \/ \E c : values' = [values EXCEPT ![Base][c] = None]
  <2>1. ASSUME NEW m \in Maker, UnmakeStep(m) PROVE values' = values
    BY <2>1 DEF UnmakeStep, nodeVars
  <2>2. ASSUME NEW o \in Output, NEW m \in Maker, UnrequestStep(o, m)
        PROVE  values' = values \/ \E c : values' = [values EXCEPT ![Base][c] = None]
    BY <2>2 DEF UnrequestStep, Unapply
  <2>3. ASSUME NEW c \in Choice, UndrawStep(c) PROVE values' = [values EXCEPT ![Base][c] = None]
    BY <2>3 DEF UndrawStep, Unapply
  <2>4. ASSUME NEW c \in Choice, UnabsorbStep(c) PROVE values' = values
    BY <2>4 DEF UnabsorbStep, nodeVars
  <2>5. ASSUME NEW s \in Scope, NEW b \in Choice, NEW c \in Choice, UntagStep(s, b, c) PROVE values' = values
    BY <2>5 DEF UntagStep, nodeVars
  <2>6. ASSUME NEW n \in Choice \cup Output, NEW v \in Value, UnobserveStep(n, v) PROVE values' = values
    BY <2>6 DEF UnobserveStep, nodeVars
  <2> QED BY <2>1, <2>2, <2>3, <2>4, <2>5, <2>6 DEF Detach
<1>2. ASSUME NEW c, values' = [values EXCEPT ![Base][c] = None] PROVE ValuesOK'
  BY <1>2, SetValueKeeps, BaseIsNoParticle DEF ValuesOK
<1> QED BY <1>1, <1>2 DEF ValuesOK

LEMMA MoveValues ==
  ASSUME ValuesOK, Committing, Move
  PROVE  ValuesOK'
<1>0. Base \in Trace /\ Particle \subseteq Trace BY BaseIsNoParticle DEF Trace
<1>1. CASE BeginDetach BY <1>1 DEF BeginDetach, nodeVars, ValuesOK
<1>2. CASE BeginPropose BY <1>2 DEF BeginPropose, nodeVars, ValuesOK
<1>3. ASSUME NEW p \in Particle, Spawn(p) PROVE ValuesOK'
  BY <1>3 DEF Spawn, nodeVars, ValuesOK
<1>4. ASSUME NEW p \in Particle, NEW q \in Particle, Clone(p, q) PROVE ValuesOK'
  <2>1. values' = [values EXCEPT ![q] = values[p]] /\ values[p] \in [Choice -> Value \cup {None}]
    BY <1>0, <1>4 DEF Clone, Copied, ValuesOK
  <2> QED BY <2>1 DEF ValuesOK
<1>5. CASE Advance
  <2>1. PICK gone : gone = live \ Generation(group) OBVIOUS
  <2>2. values' = [t \in DOMAIN values |-> IF t \in gone THEN [c \in Choice |-> None] ELSE values[t]]
    BY <1>5, <2>1 DEF Advance, Blank
  <2>3. DOMAIN values = Trace /\ \A t \in Trace : values[t] \in [Choice -> Value \cup {None}]
    BY DEF ValuesOK
  <2> QED BY <2>2, <2>3 DEF ValuesOK
<1>6. ASSUME NEW p \in Particle, CommitChoices(p) PROVE ValuesOK'
  BY <1>6 DEF CommitChoices, nodeVars, ValuesOK
<1>7. ASSUME NEW s, NEW b, NEW n, CommitTag(s, b, n) PROVE ValuesOK'
  BY <1>7 DEF CommitTag, nodeVars, ValuesOK
<1>8. ASSUME NEW c, CommitConstraint(c) PROVE ValuesOK'
  BY <1>8 DEF CommitConstraint, nodeVars, ValuesOK
<1>9. CASE CommitRest
  <2>1. PICK p : p = committing OBVIOUS
  <2>2. values' = [t \in DOMAIN values |-> IF t = Base THEN Overlaid(values, p) ELSE [c \in Choice |-> None]]
    BY <1>9, <2>1 DEF CommitRest, Merged
  <2>3. DOMAIN values = Trace /\ \A t \in Trace : values[t] \in [Choice -> Value \cup {None}]
    BY DEF ValuesOK
  <2>4. p \in Trace BY <1>0, <1>9, <2>1 DEF CommitRest, Committing
  <2>5. Overlaid(values, p) \in [Choice -> Value \cup {None}]
    BY <1>0, <2>3, <2>4 DEF Overlaid
  <2> QED BY <2>2, <2>3, <2>5 DEF ValuesOK
<1> QED BY <1>1, <1>2, <1>3, <1>4, <1>5, <1>6, <1>7, <1>8, <1>9 DEF Move

LEMMA CommittingKeeps ==
  ASSUME Committing, Next
  PROVE  Committing'
<1>1. UNCHANGED <<phase, committing>> \/ phase' # "commit" \/ committing' \in Particle
  <2>1. ASSUME NEW t \in Trace, Regen(t) PROVE UNCHANGED <<phase, committing>>
    BY <2>1 DEF Regen, MakeStep, DrawStep, ShareStep, FamilyStep, TagStep, ObserveStep, AbsorbStep, gibbsVars
  <2>2. CASE Detach
    BY <2>2 DEF Detach, UnmakeStep, UnrequestStep, UndrawStep, UntagStep, UnobserveStep, UnabsorbStep, Undo
  <2>3. CASE Move
    <3>1. CASE BeginDetach \/ BeginPropose \/ CommitRest
      BY <3>1 DEF BeginDetach, BeginPropose, CommitRest
    <3>2. CASE Advance BY <3>2 DEF Advance
    <3>3. ASSUME NEW p \in Particle, Spawn(p) \/ CommitChoices(p) \/ \E q \in Particle : Clone(p, q)
          PROVE  UNCHANGED <<phase, committing>> \/ committing' \in Particle
      BY <3>3 DEF Spawn, CommitChoices, Clone
    <3>4. ASSUME NEW s, NEW b, NEW n, CommitTag(s, b, n) PROVE UNCHANGED <<phase, committing>>
      BY <3>4 DEF CommitTag
    <3>5. ASSUME NEW c, CommitConstraint(c) PROVE UNCHANGED <<phase, committing>>
      BY <3>5 DEF CommitConstraint
    <3> QED BY <2>3, <3>1, <3>2, <3>3, <3>4, <3>5 DEF Move
  <2> QED BY <2>1, <2>2, <2>3 DEF Next
<1> QED BY <1>1 DEF Committing

-----------------------------------------------------------------------------
(* The tags of particles: each is registered with a value for its block.   *)
LEMMA TagsKeep ==
  ASSUME TagsOK, IInv, ValuesOK, Next
  PROVE  TagsOK'
<1>0. DOMAIN tags = Particle /\ Base \in Trace /\ Base \notin Particle
  BY BaseIsNoParticle DEF IInv, Records
<1>1. ASSUME NEW t \in Trace, NEW s, NEW b, NEW n, RegisterInScope(t, s, b, n),
             s # Default => <<s, b, n>> \in Scope \X Value \X Choice
      PROVE  TagsOK'
  <2>1. CASE t = Base BY <1>1, <2>1 DEF RegisterInScope, TagsOK
  <2>2. CASE t # Base
    <3>1. tags' = [tags EXCEPT ![t] = @ \cup {<<s, b, n>>}]
      BY <1>1, <2>2 DEF RegisterInScope
    <3>2. \A p \in Particle : \A tag \in tags'[p] : tag \in tags[p] \/ tag = <<s, b, n>>
      BY <1>0, <3>1
    <3> QED BY <1>1, <3>2 DEF TagsOK
  <2> QED BY <2>1, <2>2
<1>2. ASSUME tags' = tags PROVE TagsOK' BY <1>2 DEF TagsOK
<1>3. ASSUME NEW s, NEW b, NEW n, UnregisterInScope(s, b, n) PROVE TagsOK'
  BY <1>2, <1>3 DEF UnregisterInScope
<1>4. ASSUME NEW t \in Trace, NEW c, registerUnconstrainedChoice(t, c) PROVE TagsOK'
  BY <1>1, <1>4 DEF registerUnconstrainedChoice
<1>5. ASSUME NEW t \in Trace, NEW c, registerConstrainedChoice(t, c) PROVE TagsOK'
  <2>1. tags' = tags \/ unregisterUnconstrainedChoice(c)
    BY <1>5 DEF registerConstrainedChoice
  <2> QED BY <1>2, <1>3, <2>1 DEF unregisterUnconstrainedChoice
<1>6. ASSUME NEW t \in Trace, Regen(t) PROVE TagsOK'
  <2>1. ASSUME NEW s \in Scope, NEW b \in Choice, NEW c \in Choice, TagStep(t, s, b, c) PROVE TagsOK'
    <3>1. getValue(t, b) # None /\ RegisterInScope(t, s, getValue(t, b), c)
      BY <2>1 DEF TagStep
    <3>2. getValue(t, b) \in Value BY <1>0, <3>1 DEF ValuesOK, getValue
    <3> QED BY <1>1, <3>1, <3>2
  <2>2. ASSUME NEW m \in Maker, NEW sp \in Proc, MakeStep(t, m, sp) PROVE tags' = tags
    BY <2>2 DEF MakeStep, registerVars
  <2>3. ASSUME NEW c \in Choice, NEW v \in Value, DrawStep(t, c, v) PROVE TagsOK'
    BY <1>4, <2>3 DEF DrawStep, Apply
  <2>4. ASSUME NEW o \in Output, NEW m \in Maker, NEW id \in Id, ShareStep(t, o, m, id) PROVE tags' = tags
    BY <2>4 DEF ShareStep, registerVars
  <2>5. ASSUME NEW o \in Output, NEW m \in Maker, NEW id \in Id, NEW v \in Value, FamilyStep(t, o, m, id, v)
        PROVE  TagsOK'
    BY <1>4, <2>5 DEF FamilyStep, Apply
  <2>6. ASSUME NEW n \in Choice \cup Output, NEW c \in Choice, NEW v \in Value, ObserveStep(t, n, c, v)
        PROVE  TagsOK'
    BY <1>5, <2>6 DEF ObserveStep
  <2>7. ASSUME NEW c \in Choice, AbsorbStep(t, c) PROVE tags' = tags
    BY <2>7 DEF AbsorbStep, registerVars
  <2> QED BY <1>2, <1>6, <2>1, <2>2, <2>3, <2>4, <2>5, <2>6, <2>7 DEF Regen
<1>7. CASE Detach
  <2>1. ASSUME NEW m \in Maker, UnmakeStep(m) PROVE tags' = tags
    BY <2>1 DEF UnmakeStep, registerVars
  <2>2. ASSUME NEW c, Unapply(c) PROVE TagsOK'
    BY <1>3, <2>2 DEF Unapply, unregisterUnconstrainedChoice
  <2>3. ASSUME NEW o \in Output, NEW m \in Maker, UnrequestStep(o, m) PROVE TagsOK'
    <3>1. tags' = tags \/ \E c : Unapply(c) BY <2>3 DEF UnrequestStep, registerVars
    <3> QED BY <1>2, <2>2, <3>1
  <2>4. ASSUME NEW c \in Choice, UndrawStep(c) PROVE TagsOK'
    BY <2>2, <2>4 DEF UndrawStep
  <2>5. ASSUME NEW c \in Choice, UnabsorbStep(c) PROVE tags' = tags
    BY <2>5 DEF UnabsorbStep, registerVars
  <2>6. ASSUME NEW s \in Scope, NEW b \in Choice, NEW c \in Choice, UntagStep(s, b, c) PROVE TagsOK'
    BY <1>3, <2>6 DEF UntagStep
  <2>7. ASSUME NEW n \in Choice \cup Output, NEW v \in Value, UnobserveStep(n, v) PROVE TagsOK'
    <3>1. registerUnconstrainedChoice(Base, Constrainable(Base, n))
      BY <2>7 DEF UnobserveStep
    <3> QED BY <1>0, <1>4, <3>1
  <2> QED BY <1>2, <1>7, <2>1, <2>3, <2>4, <2>5, <2>6, <2>7 DEF Detach
<1>8. CASE Move
  <2>1. CASE BeginDetach \/ BeginPropose
    BY <1>2, <2>1 DEF BeginDetach, BeginPropose, registerVars
  <2>2. ASSUME NEW p \in Particle, Spawn(p) \/ CommitChoices(p) PROVE tags' = tags
    BY <2>2 DEF Spawn, CommitChoices, registerVars
  <2>3. ASSUME NEW p \in Particle, NEW q \in Particle, Clone(p, q) PROVE TagsOK'
    <3>1. tags' = [tags EXCEPT ![q] = tags[p]] BY <2>3 DEF Clone, Copied
    <3>2. \A r \in Particle : tags'[r] = tags[r] \/ tags'[r] = tags[p] BY <1>0, <3>1
    <3> QED BY <3>2 DEF TagsOK
  <2>4. ASSUME NEW gone, tags' = Blank(tags, gone, {}) PROVE TagsOK'
    <3>1. \A r \in Particle : tags'[r] = tags[r] \/ tags'[r] = {}
      BY <1>0, <2>4 DEF Blank
    <3> QED BY <3>1 DEF TagsOK
  <2>5. CASE Advance \/ CommitRest
    <3>1. \E gone : tags' = Blank(tags, gone, {})
      BY <2>5 DEF Advance, CommitRest, DropOverlays
    <3> QED BY <2>4, <3>1
  <2>6. ASSUME NEW s, NEW b, NEW n, CommitTag(s, b, n) PROVE TagsOK'
    <3>1. RegisterInScope(Base, s, b, n) BY <2>6 DEF CommitTag
    <3>2. tags' = tags BY <3>1 DEF RegisterInScope
    <3> QED BY <1>2, <3>2
  <2>7. ASSUME NEW c, CommitConstraint(c) PROVE TagsOK'
    BY <1>0, <1>5, <2>7 DEF CommitConstraint
  <2> QED BY <1>2, <1>8, <2>1, <2>2, <2>3, <2>5, <2>6, <2>7 DEF Move
<1> QED BY <1>6, <1>7, <1>8 DEF Next

-----------------------------------------------------------------------------
(* With it, what the records of the particles hold.                        *)
THEOREM BlocksInvariant == Spec => []JInv
<1>1. Init => JInv
  <2> SUFFICES ASSUME Init PROVE JInv OBVIOUS
  <2>1. /\ phase = "regen" /\ tags = [p \in Particle |-> {}]
        /\ values = [t \in Trace |-> [c \in Choice |-> None]]
    BY DEF Init
  <2>2. Committing /\ ValuesOK /\ TagsOK BY <2>1 DEF Committing, ValuesOK, TagsOK
  <2> QED BY <2>2, InitIInv DEF JInv
<1>2. JInv /\ [Next]_vars => JInv'
  <2> SUFFICES ASSUME JInv, [Next]_vars PROVE JInv' OBVIOUS
  <2>0. IInv' BY ScopesKeep DEF JInv
  <2>1. CASE UNCHANGED vars
    BY <2>0, <2>1 DEF JInv, vars, gibbsVars, nodeVars, registerVars, Committing, ValuesOK, TagsOK
  <2>2. CASE Next
    <3>1. IInv /\ Committing /\ ValuesOK /\ TagsOK BY DEF JInv
    <3>2. ValuesOK' BY <2>2, <3>1, RegenValues, DetachValues, MoveValues DEF Next
    <3> QED BY <2>0, <2>2, <3>1, <3>2, CommittingKeeps, TagsKeep DEF JInv
  <2> QED BY <2>1, <2>2
<1> QED BY <1>1, <1>2, PTL DEF Spec

(* The number of blocks a particle reports, from what the trace has and    *)
(* what it adds, is that of the scope it stands for: the weight of a block *)
(* proposal is that of the trace after the commit.                         *)
THEOREM BlocksCounted == Spec => []BlocksAgree
<1>1. JInv => BlocksAgree
  <2> SUFFICES ASSUME JInv, NEW p \in live, NEW s \in Scope \cup {Default}, phase = "propose"
               PROVE  numBlocksInScope(p, s) = Cardinality({tag[2] : tag \in {g \in TagsOf(p) : g[1] = s}})
    BY DEF BlocksAgree
  <2> DEFINE of == {tag[2] : tag \in {g \in TagsOf(p) : g[1] = s}}
  <2>1. /\ p \in Particle /\ p # Base /\ ScopesOK(scopes)
        /\ Matches(tags[p], ucs[p]) /\ Matches(TagsIn(scopes), ucs[Base])
    <3>1. p \in Particle /\ ScopesOK(scopes) /\ Records /\ toTag = {}
      BY DEF JInv, IInv, Records
    <3>2. TagsIn(scopes) \cup toTag = TagsIn(scopes) BY <3>1
    <3> QED BY <3>1, <3>2, BaseIsNoParticle DEF Records
  <2>2. TagsOf(p) = (TagsIn(scopes) \cup tags[p]) \ {default(c) : c \in ccs[p]}
    BY <2>1 DEF TagsOf, BaseTags, TagsIn
  <2>3. CASE s = Default
    <3>1. {g \in TagsOf(p) : g[1] = s} = {default(c) : c \in (ucs[Base] \cup ucs[p]) \ ccs[p]}
      <4>1. Matches(TagsIn(scopes) \cup tags[p], ucs[Base] \cup ucs[p])
        BY <2>1, MatchUnion
      <4>2. \A g : g \in TagsOf(p) /\ g[1] = s <=>
                   g \in {default(c) : c \in ucs[Base] \cup ucs[p]} /\ g \notin {default(c) : c \in ccs[p]}
        BY <2>2, <2>3, <4>1 DEF Matches
      <4> QED BY <4>2 DEF default
    <3>2. PICK T : T = {g \in TagsOf(p) : g[1] = s} OBVIOUS
    <3>3. T = {default(c) : c \in (ucs[Base] \cup ucs[p]) \ ccs[p]} /\ of = {tag[2] : tag \in T}
      BY <3>1, <3>2
    <3>4. of = (ucs[Base] \cup ucs[p]) \ ccs[p]
      <4>1. PICK U : U = (ucs[Base] \cup ucs[p]) \ ccs[p] OBVIOUS
      <4>2. T = {<<Default, c, c>> : c \in U} BY <3>3, <4>1 DEF default
      <4>3. {tag[2] : tag \in T} = U
        <5>1. ASSUME NEW c \in U PROVE c \in {tag[2] : tag \in T}
          <6>1. PICK tag : tag = <<Default, c, c>> OBVIOUS
          <6>2. tag \in T /\ tag[2] = c BY <4>2, <6>1
          <6> QED BY <6>2
        <5>2. \A tag \in T : tag[2] \in U BY <4>2
        <5> QED BY <5>1, <5>2
      <4> QED BY <3>3, <4>1, <4>3
    <3> QED BY <2>3, <3>4 DEF numBlocksInScope
  <2>4. CASE s # Default
    <3>1. \A g : g \in TagsOf(p) /\ g[1] = s <=> g \in TagsIn(scopes) \cup tags[p] /\ g[1] = s
      BY <2>2, <2>4 DEF default
    <3>2. \A b : b \in of <=> b \in Blocks(s) \/ b \in {a \in Value : \E n \in Choice : <<s, a, n>> \in tags[p]}
      <4> TAKE b
      <4>1. ASSUME b \in of PROVE b \in Blocks(s) \/ (b \in Value /\ \E n \in Choice : <<s, b, n>> \in tags[p])
        <5>1. PICK g \in TagsIn(scopes) \cup tags[p] : g[1] = s /\ g[2] = b
          BY <3>1, <4>1
        <5>2. CASE g \in TagsIn(scopes)
          <6>1. PICK r, a, n : g = <<r, a, n>> /\ Holds(scopes, r, a, n)
            BY <5>2, TagsAre
          <6> QED BY <5>1, <6>1 DEF Holds, Blocks
        <5>3. CASE g \in tags[p]
          <6>1. g \in Scope \X Value \X Choice
            BY <2>1, <2>4, <5>1, <5>3 DEF JInv, TagsOK
          <6>2. b \in Value /\ g[3] \in Choice /\ g = <<s, b, g[3]>> BY <5>1, <6>1
          <6> QED BY <5>3, <6>2
        <5> QED BY <5>2, <5>3
      <4>2. ASSUME b \in Blocks(s) PROVE b \in of
        <5>1. s \in DOMAIN scopes /\ b \in DOMAIN scopes[s].d /\ get(scopes[s], b) # {}
          BY <2>1, <4>2 DEF Blocks, ScopesOK, BlocksOK
        <5>2. PICK n : Holds(scopes, s, b, n) BY <5>1 DEF Holds
        <5>3. PICK g : g = <<s, b, n>> /\ g \in TagsIn(scopes) BY <5>2, TagsAre
        <5>4. g \in TagsOf(p) /\ g[1] = s /\ g[2] = b BY <3>1, <5>3
        <5> QED BY <5>4
      <4>3. ASSUME b \in Value, NEW n \in Choice, <<s, b, n>> \in tags[p] PROVE b \in of
        <5>1. PICK g : g = <<s, b, n>> /\ g \in tags[p] BY <4>3
        <5>2. g \in TagsOf(p) /\ g[1] = s /\ g[2] = b BY <3>1, <5>1
        <5> QED BY <5>2
      <4> HIDE DEF of
      <4> QED BY <4>1, <4>2, <4>3
    <3>3. of = Blocks(s) \cup {b \in Value : \E n \in Choice : <<s, b, n>> \in tags[p]}
      <4> HIDE DEF of
      <4> QED BY <3>2
    <3> QED BY <2>4, <3>3 DEF numBlocksInScope
  <2> QED BY <2>3, <2>4
<1> QED BY BlocksInvariant, <1>1, PTL

-----------------------------------------------------------------------------
-----------------------------------------------------------------------------
(* What the assumptions say, in the form in which it is used.              *)
LEMMA TorusFacts ==
  /\ First \in Nat /\ TorusEnd \in Nat /\ Len(Program) \in Nat /\ Len(Ends) \in Nat \ {0}
  /\ First <= TorusEnd /\ TorusEnd <= Len(Program)
  /\ DOMAIN Program = 1 .. Len(Program) /\ DOMAIN Ends = 1 .. Len(Ends)
  /\ \A g \in 1 .. Len(Ends) : Ends[g] \in Nat /\ First <= Ends[g] /\ Ends[g] <= TorusEnd
  /\ TorusEnd = Ends[Len(Ends)] /\ NumNew \in Nat
  /\ Op \in [Choice -> Maker] /\ Root \in [Id -> Choice]
<1>1. /\ Program \in Seq(Step) /\ Ends \in Seq(Nat) /\ Ends # <<>> /\ First \in Nat
      /\ \A g \in DOMAIN Ends : First <= Ends[g] /\ Ends[g] <= TorusEnd
      /\ TorusEnd <= Len(Program)
      /\ NumNew \in Nat /\ Op \in [Choice -> Maker] /\ Root \in [Id -> Choice]
  BY ProgramAssumption
<1>2. Len(Program) \in Nat /\ DOMAIN Program = 1 .. Len(Program) BY <1>1, LenProperties
<1>3. Len(Ends) \in Nat \ {0} /\ DOMAIN Ends = 1 .. Len(Ends) /\ \A g \in 1 .. Len(Ends) : Ends[g] \in Nat
  BY <1>1, LenProperties, EmptySeq
<1>4. TorusEnd = Ends[Len(Ends)] BY DEF TorusEnd
<1>5. Len(Ends) \in 1 .. Len(Ends) BY <1>3
<1> QED BY <1>1, <1>2, <1>3, <1>4, <1>5

LEMMA NoneFacts ==
  /\ None \notin Value /\ None \notin Proc /\ None \notin Choice /\ None \notin Int
  /\ None \notin Statistics /\ None \notin Pointer
BY NoneAssumption DEF Pointer

(* A function of traces to functions: one entry is changed, one trace is   *)
(* copied, some are blanked, or the trace takes over.                      *)
LEMMA SetTyped ==
  ASSUME NEW D, NEW V, NEW X \in [Trace -> [D -> V]], NEW t \in Trace, NEW k, NEW v \in V
  PROVE  [X EXCEPT ![t][k] = v] \in [Trace -> [D -> V]]
<1>1. [X[t] EXCEPT ![k] = v] \in [D -> V] OBVIOUS
<1> QED BY <1>1

LEMMA CopyTyped ==
  ASSUME NEW V, NEW X \in [Trace -> V], NEW p \in Trace, NEW q \in Trace
  PROVE  Copied(X, p, q) \in [Trace -> V]
BY DEF Copied

LEMMA BlankTyped ==
  ASSUME NEW V, NEW X \in [Trace -> V], NEW gone, NEW x \in V
  PROVE  Blank(X, gone, x) \in [Trace -> V]
BY DEF Blank

LEMMA MergedTyped ==
  ASSUME NEW V, NEW X \in [Trace -> V], NEW new \in V, NEW x \in V
  PROVE  Merged(X, new, x) \in [Trace -> V]
BY DEF Merged

LEMMA OverlaidTyped ==
  ASSUME NEW D, NEW V, NEW X \in [Trace -> [D -> V]], NEW t \in Trace
  PROVE  Overlaid(X, t) \in [D -> V]
BY BaseIsNoParticle DEF Overlaid

LEMMA BlankTable == \A S, V : [k \in S |-> None] \in [S -> Maybe(V)]
BY DEF Maybe

(* What was detached, as it is added to.                                   *)
LEMMA DetachedParts ==
  ASSUME NEW v, NEW r, NEW s, NEW x, NEW d, d = Detached(v, r, s, x)
  PROVE  d.values = v /\ d.requests = r /\ d.sps = s /\ d.aux = x
BY DEF Detached

LEMMA RunningFacts ==
  ASSUME Steady, NEW t \in Trace, Running(t)
  PROVE  /\ at[t] \in Nat /\ at[t] + 1 \in DOMAIN Program
         /\ t = Base => phase = "regen" /\ live = {}
         /\ t # Base => /\ t \in Particle /\ t \in live /\ phase = "propose" /\ t[1] = group
                        /\ at[Base] = First /\ at[t] + 1 \in InTorus /\ at[t] + 1 <= Ends[t[1]]
                        /\ Restores(t) => t = Restoring
<1>1. /\ at \in [Trace -> Nat] /\ live \subseteq Particle
      /\ phase = "regen" => live = {}
      /\ phase = "propose" => at[Base] = First /\ Proposing
  BY DEF Steady, MoveTypes, Stages
<1>2. CASE t = Base
  <2>1. phase = "regen" /\ at[Base] < Len(Program) BY <1>2 DEF Running
  <2> QED BY <1>1, <1>2, <2>1, TorusFacts
<1>3. CASE t # Base
  <2>1. phase = "propose" /\ t \in live /\ at[t] < Ends[t[1]] /\ t \in Particle
    BY <1>1, <1>3 DEF Running
  <2>2. t[1] \in 1 .. Len(Ends) /\ t[2] \in 0 .. NumNew /\ t = <<t[1], t[2]>>
    BY <2>1 DEF Particle
  <2>3. Proposing BY <1>1, <2>1
  <2>4. t[1] \in {group - 1, group} /\ at[t] >= First /\ group \in Nat
    <3>1. t[1] \in {group - 1, group} /\ at[t] \in First .. TorusEnd /\ group \in 1 .. Len(Ends) + 1
      BY <2>1, <2>3 DEF Proposing
    <3> QED BY <3>1, TorusFacts
  <2>5. t[1] = group
    <3> SUFFICES ASSUME t[1] = group - 1 PROVE FALSE BY <2>4
    <3>1. group > 1 BY <2>2, <2>4
    <3>2. t \in Generation(group - 1) BY <2>2 DEF Generation
    <3>3. at[t] = Ends[t[1]] BY <2>3, <3>1, <3>2 DEF Proposing, Ended
    <3> QED BY <2>1, <2>2, <3>3, TorusFacts
  <2>6. at[t] + 1 \in InTorus /\ at[t] + 1 \in DOMAIN Program /\ at[t] + 1 <= Ends[t[1]]
    <3>1. Ends[t[1]] \in Nat /\ Ends[t[1]] <= TorusEnd /\ at[t] \in Nat
      BY <1>1, <2>2, TorusFacts
    <3> QED BY <2>1, <2>4, <3>1, TorusFacts DEF InTorus
  <2>7. Restores(t) => t = Restoring
    <3>1. Restores(t) => t = <<group, NumNew>> BY <2>2, <2>5 DEF Restores
    <3> QED BY <2>1, <3>1 DEF Restoring
  <2> QED BY <1>1, <1>3, <2>1, <2>5, <2>6, <2>7
<1> QED BY <1>2, <1>3

LEMMA AppliedIsMade ==
  ASSUME Steady, MadeOK, NEW t \in Trace, Running(t), NEW c \in Choice, Applies(Program[at[t] + 1], c)
  PROVE  Op[c] \in Maker /\ getMadeSP(t, Op[c]) # None /\ Sole(t, Op[c])
<1>1. /\ at[t] \in Nat /\ at[t] + 1 \in DOMAIN Program
      /\ t = Base => phase = "regen" /\ live = {}
      /\ t # Base => /\ t \in Particle /\ t \in live /\ phase = "propose"
                     /\ at[Base] = First /\ at[t] + 1 \in InTorus
  BY RunningFacts
<1>2. PICK j \in 1 .. at[t] + 1 - 1 : Program[j] = Make(Op[c]) BY <1>1, OrderAssumption
<1>3. j \in 1 .. at[t] /\ j \in DOMAIN Program BY <1>1, <1>2, TorusFacts
<1>4. Op[c] \in Maker BY TorusFacts
<1>5. CASE t = Base
  <2>1. j \in Present(Base) BY <1>1, <1>3, <1>5 DEF Present
  <2> QED BY <1>2, <1>4, <1>5, <2>1 DEF MadeOK, Sole
<1>6. CASE t # Base
  <2>1. Sole(t, Op[c]) BY <1>1, <1>6, UnsharedAssumption DEF Sole
  <2>2. CASE j <= First
    <3>1. j \in Present(Base) BY <1>1, <1>3, <1>6, <2>2 DEF Present
    <3>2. getMadeSP(Base, Op[c]) # None BY <1>2, <1>4, <3>1 DEF MadeOK
    <3> QED BY <1>4, <2>1, <3>2 DEF getMadeSP
  <2>3. CASE j > First
    <3>1. j \in Present(t) BY <1>1, <1>3, <1>6, <2>3, TorusFacts DEF Present
    <3> QED BY <1>1, <1>2, <1>4, <1>6, <2>1, <3>1 DEF MadeOK
  <2> QED BY <1>3, <2>2, <2>3, TorusFacts
<1> QED BY <1>5, <1>6

LEMMA UndoneIsMade ==
  ASSUME Steady, MadeOK, phase = "detach", at[Base] > First,
         NEW c \in Choice, Applies(Program[at[Base]], c)
  PROVE  Op[c] \in Maker /\ sps[Base][Op[c]] # None
<1>1. at[Base] \in Nat /\ at[Base] \in First .. TorusEnd
  BY BaseIsNoParticle DEF Steady, MoveTypes, Stages
<1>2. at[Base] \in DOMAIN Program BY <1>1, TorusFacts
<1>3. PICK j \in 1 .. at[Base] - 1 : Program[j] = Make(Op[c]) BY <1>2, OrderAssumption
<1>4. j \in Present(Base) /\ Op[c] \in Maker BY <1>1, <1>2, <1>3, TorusFacts DEF Present
<1>5. getMadeSP(Base, Op[c]) # None BY <1>3, <1>4 DEF MadeOK
<1> QED BY <1>4, <1>5 DEF getMadeSP

-----------------------------------------------------------------------------
LEMMA OwnObject ==
  ASSUME Steady, Statics, DBTypes, NEW t \in Trace, NEW m \in Maker,
         t = Base => phase # "propose", t # Base => phase = "propose",
         getMadeSP(t, m) # None, Sole(t, m)
  PROVE  /\ OwnAux(t, m) \in Pointer /\ OwnAux(t, m)[3] = m /\ OwnAux(t, m) # None
         /\ t = Base => OwnAux(t, m) = aux[Base][m]
         /\ t # Base => OwnAux(t, m) = NewAux(t, m) \/ (Restores(t) /\ OwnAux(t, m) = aux[t][m])
         /\ OwnAux(t, m)[1] <= round
         /\ OthersPoint(OwnAux(t, m), t, m)
<1> DEFINE a == OwnAux(t, m)
<1>0. Base \in Trace /\ (t # Base => t \in Particle) /\ Particle \subseteq Trace /\ Base \notin Particle
  BY BaseIsNoParticle DEF Trace
<1>1. /\ round \in Nat
      /\ aux \in [Trace -> [Maker -> Maybe(Pointer)]] /\ aaa \in [Maker -> Maybe(Pointer)]
      /\ db.aux \in [Maker -> Maybe(Pointer)] /\ DOMAIN heap \subseteq Pointer
  BY DEF Steady, MoveTypes, Statics, PointerTypes, DBTypes
<1>2. /\ \A n \in Maker : /\ aux[Base][n] # None => PointsTo(aux[Base][n], n)
                          /\ aaa[n] # None => PointsTo(aaa[n], n)
                          /\ db.aux[n] # None => PointsTo(db.aux[n], n)
      /\ \A b \in DOMAIN heap : b[1] <= round
  BY DEF Statics, OldPointers
<1>3. \A u \in Particle, n \in Maker : aux[u][n] # None => aux[u][n] \in DOMAIN heap /\ aux[u][n][3] = n
  BY DEF Statics, OwnPointers
<1>4. /\ sps[Base][m] # None => aux[Base][m] # None
      /\ aux[Base][m] # None => getMadeSP(Base, m) # None
      /\ aaa[m] # None => m \in AAA /\ sps[Base][m] = None /\ \E j \in InTorus : Program[j] = Make(m)
      /\ db.aux[m] # None => sps[Base][m] = None /\ \E j \in InTorus : Program[j] = Make(m)
  BY <1>0 DEF Statics, MakersOK
<1>5. /\ NewAux(t, m) \in Pointer /\ NewAux(t, m)[3] = m /\ NewAux(t, m)[1] = round
      /\ None \notin Pointer
  BY <1>1, NoneFacts DEF NewAux, Pointer
<1>6. a \in Pointer /\ a # None /\ a[3] = m /\ a[1] <= round
  <2>1. CASE aux[t][m] = None BY <1>1, <1>5, <2>1 DEF OwnAux
  <2>2. CASE aux[t][m] # None
    <3>1. a = aux[t][m] /\ aux[t][m] \in DOMAIN heap /\ aux[t][m][3] = m
      BY <1>0, <1>2, <1>3, <2>2 DEF OwnAux, PointsTo
    <3> QED BY <1>1, <1>2, <1>5, <3>1
  <2> QED BY <2>1, <2>2
<1>7. /\ \A u \in Trace, n \in Maker : aux[u][n] = a => n = m
      /\ \A n \in Maker : aaa[n] = a => n = m
      /\ \A n \in Maker : db.aux[n] = a => n = m
  <2>1. \A u \in Trace, n \in Maker : aux[u][n] # None => aux[u][n][3] = n
    BY <1>0, <1>2, <1>3 DEF PointsTo, Trace
  <2>2. \A n \in Maker : (aaa[n] # None => aaa[n][3] = n) /\ (db.aux[n] # None => db.aux[n][3] = n)
    BY <1>2 DEF PointsTo
  <2> QED BY <1>6, <2>1, <2>2
<1>8. CASE t = Base
  <2>1. sps[Base][m] # None BY <1>8 DEF getMadeSP
  <2>2. a = aux[Base][m] /\ aaa[m] = None /\ db.aux[m] = None
    BY <1>4, <1>8, <2>1 DEF OwnAux
  <2>3. OthersPoint(a, t, m) BY <1>6, <1>7, <1>8, <2>2 DEF OthersPoint
  <2> QED BY <1>6, <1>8, <2>2, <2>3
<1>9. CASE t # Base
  <2>0. phase = "propose" /\ t \in Particle BY <1>0, <1>9
  <2>1. /\ aux[Base][m] # None => aux[Base][m][1] < round
        /\ aaa[m] # None => aaa[m][1] < round
        /\ db.aux[m] # None => db.aux[m][1] < round
    BY <1>2, <2>0 DEF PointsTo
  <2>2. \A u \in Particle :
          aux[u][m] # None => \/ aux[u][m] = NewAux(u, m)
                              \/ m \in AAA /\ aux[u][m] = aaa[m]
                              \/ Restores(u) /\ aux[u][m] = db.aux[m]
    BY <2>0 DEF Statics, OwnPointers
  <2>3. aaa[m] = None BY <1>4, <1>9 DEF Sole
  <2>4. CASE a = NewAux(t, m)
    <3>1. aux[Base][m] # a /\ aaa[m] # a /\ db.aux[m] # a
      BY <1>1, <1>5, <1>6, <2>1, <2>4
    <3>2. \A u \in Particle : aux[u][m] = a => u = t
      BY <1>6, <2>2, <2>3, <2>4, <3>1 DEF NewAux
    <3>3. OthersPoint(a, t, m) BY <1>0, <1>7, <3>1, <3>2 DEF OthersPoint, Trace
    <3> QED BY <1>6, <1>9, <2>4, <3>3
  <2>5. CASE a # NewAux(t, m)
    <3>1. a = aux[t][m] /\ Restores(t) /\ a = db.aux[m]
      BY <1>6, <2>0, <2>2, <2>3, <2>5 DEF OwnAux
    <3>2. m \notin AAA /\ sps[Base][m] = None BY <1>4, <1>6, <1>9, <3>1 DEF Sole
    <3>3. Taken(m) /\ \A u \in Particle : aux[u][m] = db.aux[m] => u = t
      BY <1>6, <2>0, <3>1, <3>2 DEF Statics, SetAside
    <3>4. aux[Base][m] = None BY <1>4, <3>2 DEF getMadeSP
    <3>5. OthersPoint(a, t, m)
      BY <1>0, <1>6, <1>7, <1>9, <2>3, <3>1, <3>3, <3>4 DEF OthersPoint, Trace
    <3> QED BY <1>6, <1>9, <3>1, <3>5
  <2> QED BY <2>4, <2>5
<1> QED BY <1>8, <1>9

LEMMA UpdateEffect ==
  ASSUME Steady, Statics, DBTypes, NEW t \in Trace, NEW m \in Maker, NEW s \in Statistics,
         t = Base => phase # "propose", t # Base => phase = "propose",
         getMadeSP(t, m) # None, Sole(t, m), Update(t, m, s)
  PROVE  \E a \in Pointer : Writes(t, m, s, a)
<1>1. PICK a : a = OwnAux(t, m) OBVIOUS
<1>2. /\ a \in Pointer /\ a[3] = m /\ a # None /\ a[1] <= round /\ OthersPoint(a, t, m)
      /\ t = Base => a = aux[Base][m]
      /\ t # Base => a = NewAux(t, m) \/ (Restores(t) /\ a = aux[t][m])
  BY <1>1, OwnObject
<1>3. t = Base => a \in DOMAIN heap BY <1>2 DEF Statics, OldPointers, PointsTo
<1>4. heap' = [b \in DOMAIN heap \cup {a} |-> IF b = a THEN s ELSE heap[b]] /\ aux' = [aux EXCEPT ![t][m] = a]
  BY <1>1 DEF Update, Allocate
<1>5. /\ aux \in [Trace -> [Maker -> Maybe(Pointer)]] /\ heap \in [DOMAIN heap -> Statistics]
      /\ a \in Maybe(Pointer)
  BY <1>2 DEF Statics, PointerTypes, Maybe
<1>6. /\ DOMAIN heap' = DOMAIN heap \cup {a} /\ heap'[a] = s
      /\ heap' \in [DOMAIN heap' -> Statistics]
      /\ \A b \in DOMAIN heap : b # a => heap'[b] = heap[b]
  BY <1>4, <1>5
<1>7. aux' \in [Trace -> [Maker -> Maybe(Pointer)]] BY <1>4, <1>5, SetTyped
<1>8. /\ aux'[t][m] = a
      /\ \A u \in Trace, n \in Maker : u # t \/ n # m => aux'[u][n] = aux[u][n]
  BY <1>4, <1>5
<1>9. Writes(t, m, s, a) BY <1>2, <1>3, <1>6, <1>7, <1>8 DEF Writes
<1> QED BY <1>2, <1>9

LEMMA UpdateShows ==
  ASSUME Steady, Statics, DBTypes, NEW t \in Trace, NEW m \in Maker, NEW s \in Statistics,
         t = Base => phase # "propose", t # Base => phase = "propose",
         getMadeSP(t, m) # None, Sole(t, m), Update(t, m, s), UNCHANGED <<aaa, discarded>>
  PROVE  UpdatedTo(t, m, s)
<1>0. Base \in Trace /\ (t # Base => t \in Particle) /\ Particle \subseteq Trace /\ Base \notin Particle
  BY BaseIsNoParticle DEF Trace
<1>1a. PICK a \in Pointer : Writes(t, m, s, a)
  BY UpdateEffect
<1>1. /\ a # None /\ a[3] = m /\ a[1] <= round /\ OthersPoint(a, t, m)
      /\ t = Base => a = aux[Base][m] /\ a \in DOMAIN heap
      /\ t # Base => a = NewAux(t, m) \/ (Restores(t) /\ a = aux[t][m])
      /\ DOMAIN heap' = DOMAIN heap \cup {a} /\ heap'[a] = s
      /\ heap' \in [DOMAIN heap' -> Statistics]
      /\ \A b \in DOMAIN heap : b # a => heap'[b] = heap[b]
      /\ aux' \in [Trace -> [Maker -> Maybe(Pointer)]] /\ aux'[t][m] = a
      /\ \A u \in Trace, n \in Maker : u # t \/ n # m => aux'[u][n] = aux[u][n]
  BY <1>1a DEF Writes
<1>2. /\ \A u \in Trace, n \in Maker : aux[u][n] # None => aux[u][n] \in DOMAIN heap
      /\ \A n \in Maker : aaa[n] # None => aaa[n] \in DOMAIN heap
  BY <1>0 DEF Statics, OldPointers, OwnPointers, PointsTo, Trace
<1>3. ASSUME NEW w \in Trace, Shows(t, w), NEW n \in Maker, w # t \/ n # m
      PROVE  getMadeSPAux(w, n)' = getMadeSPAux(w, n) /\ getMadeSPAux(w, n) # a
  <2>1. /\ aux'[w][n] = aux[w][n] /\ (w # t => t # Base)
        /\ aux[w][n] # a
    BY <1>1, <1>3 DEF Shows, OthersPoint
  <2>2. aux'[Base][n] = aux[Base][n]
    <3>1. CASE t = Base BY <1>0, <1>1, <1>3, <2>1, <3>1
    <3>2. CASE t # Base BY <1>0, <1>1, <3>2
    <3> QED BY <3>1, <3>2
  <2>3. aux[w][n] = None => aux[Base][n] # a
    <3>1. CASE t = Base BY <1>0, <1>1, <1>3, <2>1, <3>1
    <3>2. CASE t # Base BY <1>0, <1>1, <3>2 DEF OthersPoint
    <3> QED BY <3>1, <3>2
  <2> QED BY <2>1, <2>2, <2>3 DEF getMadeSPAux
<1>4. ASSUME NEW w \in Trace, NEW n \in Maker
      PROVE  getMadeSPAux(w, n) = None \/ getMadeSPAux(w, n) \in DOMAIN heap
  BY <1>0, <1>2 DEF getMadeSPAux
<1>5. ASSUME NEW w \in Trace, Shows(t, w), NEW n \in Maker, w # t \/ n # m
      PROVE  StatisticsOf(w, n)' = StatisticsOf(w, n)
  <2>1. PICK b : b = getMadeSPAux(w, n) OBVIOUS
  <2>2. b # a /\ getMadeSPAux(w, n)' = b /\ (b = None \/ b \in DOMAIN heap)
    BY <1>3, <1>4, <1>5, <2>1
  <2>3. b # None => heap'[b] = heap[b] BY <1>1, <2>2
  <2> QED BY <2>1, <2>2, <2>3 DEF StatisticsOf, StatisticsAt
<1>6. StatisticsOf(t, m)' = s BY <1>1 DEF StatisticsOf, StatisticsAt, getMadeSPAux
<1>7. ASSUME NEW w \in Trace PROVE (AAAOf(w))' = AAAOf(w)
  <2>1. ASSUME NEW n \in Maker PROVE StatisticsAt(getAAAMadeSPAux(w, n))' = StatisticsAt(getAAAMadeSPAux(w, n))
    <3>1. PICK b : b = getAAAMadeSPAux(w, n) OBVIOUS
    <3>2. getAAAMadeSPAux(w, n)' = b BY <3>1 DEF getAAAMadeSPAux
    <3>3. b = None \/ (b \in DOMAIN heap /\ b # a)
      BY <1>1, <1>2, <3>1 DEF getAAAMadeSPAux, OthersPoint
    <3>4. b # None => heap'[b] = heap[b] BY <1>1, <3>3
    <3> QED BY <3>1, <3>2, <3>4 DEF StatisticsAt
  <2> QED BY <2>1 DEF AAAOf
<1>8. ASSUME NEW w \in Trace, Shows(t, w)
      PROVE  (AllStatisticsOf(w))' = IF w = t THEN [AllStatisticsOf(w) EXCEPT ![m] = s] ELSE AllStatisticsOf(w)
  <2>1. CASE w = t
    <3>1. \A n \in Maker : StatisticsOf(t, n)' = IF n = m THEN s ELSE StatisticsOf(t, n)
      BY <1>5, <1>6, <1>8, <2>1
    <3> QED BY <2>1, <3>1 DEF AllStatisticsOf
  <2>2. CASE w # t
    <3>1. \A n \in Maker : StatisticsOf(w, n)' = StatisticsOf(w, n) BY <1>5, <1>8, <2>2
    <3> QED BY <2>2, <3>1 DEF AllStatisticsOf
  <2> QED BY <2>1, <2>2
<1> QED BY <1>7, <1>8 DEF UpdatedTo

LEMMA UpdateKeeps ==
  ASSUME Steady, Statics, DBTypes, NEW t \in Trace, NEW m \in Maker, NEW s \in Statistics,
         t = Base => phase # "propose", t # Base => phase = "propose",
         getMadeSP(t, m) # None, Sole(t, m), Update(t, m, s),
         UNCHANGED <<aaa, discarded, sps, saved, phase, round, group, live>>, db'.aux = db.aux,
         \A u \in Trace, n \in Maker : getMadeSP(u, n) = None => families'[u][n] = families[u][n],
         Running(Base)' => Running(Base)
  PROVE  Statics'
<1>0. Base \in Trace /\ (t # Base => t \in Particle) /\ Particle \subseteq Trace /\ Base \notin Particle
  BY BaseIsNoParticle DEF Trace
<1>1a. PICK a \in Pointer : Writes(t, m, s, a)
  BY UpdateEffect
<1>1. /\ a # None /\ a[3] = m /\ a[1] <= round /\ OthersPoint(a, t, m)
      /\ t = Base => a = aux[Base][m] /\ a \in DOMAIN heap
      /\ t # Base => a = NewAux(t, m) \/ (Restores(t) /\ a = aux[t][m])
      /\ DOMAIN heap' = DOMAIN heap \cup {a} /\ heap'[a] = s
      /\ heap' \in [DOMAIN heap' -> Statistics]
      /\ \A b \in DOMAIN heap : b # a => heap'[b] = heap[b]
      /\ aux' \in [Trace -> [Maker -> Maybe(Pointer)]] /\ aux'[t][m] = a
      /\ \A u \in Trace, n \in Maker : u # t \/ n # m => aux'[u][n] = aux[u][n]
  BY <1>1a DEF Writes
<1>2. /\ UNCHANGED <<aaa, discarded, sps, saved, phase, round, group, live>> /\ db'.aux = db.aux
      /\ \A u \in Trace, n \in Maker : getMadeSP(u, n)' = getMadeSP(u, n)
      /\ \A u \in Trace, n \in Maker : NewAux(u, n)' = NewAux(u, n)
      /\ \A n \in Maker : Taken(n)' = Taken(n)
  BY DEF getMadeSP, NewAux, Taken, Restoring
<1>3. t = Base => DOMAIN heap' = DOMAIN heap /\ aux'[Base][m] = aux[Base][m] BY <1>1
<1>4. PointerTypes'
  <2>1. aaa \in [Maker -> Maybe(Pointer)] /\ DOMAIN heap \subseteq Pointer
    BY DEF Statics, PointerTypes
  <2> QED BY <1>1, <1>2, <2>1 DEF PointerTypes
<1>5. MakersOK'
  <2>1. MakersOK BY DEF Statics
  <2>2. ASSUME NEW u \in Trace, NEW n \in Maker
        PROVE  /\ sps'[u][n] # None => aux'[u][n] # None
               /\ aux'[u][n] # None => getMadeSP(u, n)' # None
               /\ getMadeSP(u, n)' = None => families'[u][n] = [i \in Id |-> None]
    <3>0. getMadeSP(u, n)' = None => families'[u][n] = [i \in Id |-> None]
      BY <1>2, <2>1 DEF MakersOK
    <3>1. CASE u = t /\ n = m BY <1>1, <1>2, <3>0, <3>1
    <3>2. CASE u # t \/ n # m BY <1>1, <1>2, <2>1, <3>0, <3>2 DEF MakersOK
    <3> QED BY <3>1, <3>2
  <2>4. /\ \A u \in Particle, n \in Maker : n \in AAA => (n \in discarded'[u] <=> sps'[u][n] # None)
        /\ \A n \in Maker : aaa'[n] # None =>
             n \in AAA /\ sps'[Base][n] = None /\ \E j \in InTorus : Program[j] = Make(n)
        /\ \A n \in Maker : db'.aux[n] # None =>
             sps'[Base][n] = None /\ \E j \in InTorus : Program[j] = Make(n)
    BY <1>2, <2>1 DEF MakersOK
  <2> QED BY <2>2, <2>4 DEF MakersOK
<1>6. OldPointers'
  <2>1. OldPointers BY DEF Statics
  <2>2. \A b, n : PointsTo(b, n) => b \in DOMAIN heap' /\ b[3] = n /\ (phase' # "regen" => b[1] < round')
    BY <1>1, <1>2 DEF PointsTo
  <2>3. \A n \in Maker : aux'[Base][n] # None =>
         aux'[Base][n] \in DOMAIN heap' /\ aux'[Base][n][3] = n /\ (phase' # "regen" => aux'[Base][n][1] < round')
    <3> SUFFICES ASSUME NEW n \in Maker, aux'[Base][n] # None
                 PROVE  aux'[Base][n] \in DOMAIN heap' /\ aux'[Base][n][3] = n /\ (phase' # "regen" => aux'[Base][n][1] < round')
      OBVIOUS
    <3>1. aux'[Base][n] = aux[Base][n] BY <1>0, <1>1, <1>3
    <3> QED BY <2>1, <2>2, <3>1 DEF OldPointers
  <2>4. \A n \in Maker : /\ aaa'[n] # None =>
                              aaa'[n] \in DOMAIN heap' /\ aaa'[n][3] = n /\ (phase' # "regen" => aaa'[n][1] < round')
                         /\ db'.aux[n] # None =>
                              db'.aux[n] \in DOMAIN heap' /\ db'.aux[n][3] = n /\ (phase' # "regen" => db'.aux[n][1] < round')
    BY <1>2, <2>1, <2>2 DEF OldPointers
  <2>5. \A b \in DOMAIN heap' : b[1] <= round' /\ (phase' = "detach" => b[1] < round')
    <3>1. \A b \in DOMAIN heap : b[1] <= round /\ (phase = "detach" => b[1] < round)
      BY <2>1 DEF OldPointers
    <3>2. phase = "detach" => t = Base OBVIOUS
    <3> QED BY <1>1, <1>2, <1>3, <3>1, <3>2
  <2>6. Running(Base)' => \A n \in Maker : NewAux(Base, n)' \in DOMAIN heap' => aux'[Base][n] = NewAux(Base, n)'
    <3> SUFFICES ASSUME Running(Base)', NEW n \in Maker, NewAux(Base, n)' \in DOMAIN heap'
                 PROVE  aux'[Base][n] = NewAux(Base, n)'
      OBVIOUS
    <3>1. Running(Base) /\ t = Base BY DEF Running
    <3>2. NewAux(Base, n) \in DOMAIN heap BY <1>0, <1>2, <1>3, <3>1
    <3> QED BY <1>0, <1>1, <1>2, <1>3, <2>1, <3>1, <3>2 DEF OldPointers
  <2> QED BY <2>3, <2>4, <2>5, <2>6 DEF OldPointers, PointsTo
<1>7. OwnPointers'
  <2>1. OwnPointers /\ OldPointers BY DEF Statics
  <2> SUFFICES ASSUME NEW u \in Particle, NEW n \in Maker
               PROVE  /\ aux'[u][n] # None => aux'[u][n] \in DOMAIN heap' /\ aux'[u][n][3] = n
                      /\ phase = "propose" =>
                           /\ aux'[u][n] # None => \/ aux'[u][n] = NewAux(u, n)
                                                   \/ n \in AAA /\ aux'[u][n] = aaa[n]
                                                   \/ Restores(u) /\ aux'[u][n] = db.aux[n]
                           /\ NewAux(u, n) \in DOMAIN heap' => aux'[u][n] = NewAux(u, n)
    BY <1>0, <1>2 DEF OwnPointers
  <2>2. CASE u = t /\ n = m
    <3>1. aux'[u][n] = a /\ a \in DOMAIN heap' /\ a[3] = n /\ t # Base
      BY <1>0, <1>1, <2>2
    <3>2. a = NewAux(t, m) \/ (Restores(t) /\ a = aux[t][m]) BY <1>1, <3>1
    <3>3. phase = "propose" BY <3>1
    <3>4. /\ aux[t][m] # None => \/ aux[t][m] = NewAux(t, m)
                                 \/ m \in AAA /\ aux[t][m] = aaa[m]
                                 \/ Restores(t) /\ aux[t][m] = db.aux[m]
          /\ NewAux(t, m) \in DOMAIN heap => aux[t][m] = NewAux(t, m)
      BY <2>1, <2>2, <3>3 DEF OwnPointers
    <3>5. NewAux(t, m) \in DOMAIN heap' => a = NewAux(t, m) BY <1>1, <3>2, <3>4
    <3> QED BY <1>1, <2>2, <3>1, <3>2, <3>4, <3>5
  <2>3. CASE u # t \/ n # m
    <3>1. aux'[u][n] = aux[u][n] BY <1>0, <1>1, <2>3
    <3>2. /\ aux[u][n] # None => aux[u][n] \in DOMAIN heap /\ aux[u][n][3] = n
          /\ phase = "propose" =>
               /\ aux[u][n] # None => \/ aux[u][n] = NewAux(u, n)
                                      \/ n \in AAA /\ aux[u][n] = aaa[n]
                                      \/ Restores(u) /\ aux[u][n] = db.aux[n]
               /\ NewAux(u, n) \in DOMAIN heap => aux[u][n] = NewAux(u, n)
      BY <2>1 DEF OwnPointers
    <3>3. phase = "propose" => NewAux(u, n) # a
      <4> SUFFICES ASSUME phase = "propose", NewAux(u, n) = a PROVE FALSE OBVIOUS
      <4>1. t # Base OBVIOUS
      <4>2. a # NewAux(t, m) BY <2>3 DEF NewAux
      <4>3. Restores(t) /\ a = aux[t][m] BY <1>1, <4>1, <4>2
      <4>4. (m \in AAA /\ a = aaa[m]) \/ a = db.aux[m]
        BY <1>0, <1>1, <2>1, <4>1, <4>2, <4>3 DEF OwnPointers
      <4>5. a[1] < round BY <1>1, <2>1, <4>4 DEF OldPointers, PointsTo
      <4>6. a[1] = round /\ round \in Nat BY DEF NewAux, Steady, MoveTypes
      <4> QED BY <4>5, <4>6
    <3> QED BY <1>1, <3>1, <3>2, <3>3
  <2> QED BY <2>2, <2>3
<1>8. SetAside'
  <2>1. SetAside /\ OldPointers /\ OwnPointers BY DEF Statics
  <2>2. \A n \in Maker : db'.aux[n] = None <=> saved'[n] = None
    BY <1>2, <2>1 DEF SetAside
  <2>3. phase' \in {"detach", "propose"} =>
          \A n \in Maker : db'.aux[n] # None =>
            heap'[db'.aux[n]] = saved'[n] \/ (phase' = "propose" /\ Taken(n)')
    <3> SUFFICES ASSUME phase \in {"detach", "propose"}, NEW n \in Maker, db.aux[n] # None
                 PROVE  heap'[db.aux[n]] = saved[n] \/ (phase = "propose" /\ Taken(n))
      BY <1>2
    <3>1. heap[db.aux[n]] = saved[n] \/ (phase = "propose" /\ Taken(n))
      BY <2>1 DEF SetAside
    <3>2. db.aux[n] \in DOMAIN heap BY <2>1 DEF OldPointers, PointsTo
    <3>3. db.aux[n] = a => n = m /\ t # Base /\ Taken(m) BY <1>1 DEF OthersPoint
    <3> QED BY <1>1, <3>1, <3>2, <3>3
  <2>4. phase' = "propose" =>
          \A u \in Particle, n \in Maker : n \notin AAA /\ db'.aux[n] # None /\ aux'[u][n] = db'.aux[n] =>
            Taken(n)' /\ \A v \in Particle : aux'[v][n] = db'.aux[n] => v = u
    <3>1. ASSUME NEW u \in Particle, NEW n \in Maker, db.aux[n] # None, aux'[u][n] = db.aux[n]
          PROVE  aux[u][n] = db.aux[n]
      BY <1>0, <1>1, <3>1 DEF OthersPoint
    <3> SUFFICES ASSUME phase = "propose", NEW u \in Particle, NEW n \in Maker,
                        n \notin AAA, db.aux[n] # None, aux'[u][n] = db.aux[n]
                 PROVE  Taken(n) /\ \A v \in Particle : aux'[v][n] = db.aux[n] => v = u
      BY <1>2
    <3>2. Taken(n) /\ \A v \in Particle : aux[v][n] = db.aux[n] => v = u
      BY <2>1, <3>1 DEF SetAside
    <3> QED BY <3>1, <3>2
  <2> QED BY <2>2, <2>3, <2>4 DEF SetAside
<1> QED BY <1>4, <1>5, <1>6, <1>7, <1>8 DEF Statics

-----------------------------------------------------------------------------
LEMMA MakeEffect ==
  ASSUME Steady, Statics, DBTypes, MakerTypes, NEW t \in Trace, NEW m \in Maker, NEW sp \in Proc,
         MakeStep(t, m, sp)
  PROVE  \E a \in Pointer : Makes(t, m, sp, a)
<1>0. Base \in Trace /\ (t # Base => t \in Particle) /\ Particle \subseteq Trace /\ Base \notin Particle
  BY BaseIsNoParticle DEF Trace
<1>1. PICK a : a = MadeAux(t, m) OBVIOUS
<1>2. /\ Due(t, Make(m)) /\ getMadeSP(t, m) = None
      /\ aux' = [aux EXCEPT ![t][m] = a]
      /\ heap' = IF a \in DOMAIN heap THEN heap ELSE [b \in DOMAIN heap \cup {a} |-> IF b = a THEN NoData ELSE heap[b]]
  BY <1>1 DEF MakeStep, Allocate
<1>3. /\ round \in Nat /\ sp # None
      /\ aux \in [Trace -> [Maker -> Maybe(Pointer)]] /\ aaa \in [Maker -> Maybe(Pointer)]
      /\ db.aux \in [Maker -> Maybe(Pointer)] /\ DOMAIN heap \subseteq Pointer
      /\ heap \in [DOMAIN heap -> Statistics] /\ None \notin Statistics /\ None \notin Pointer
  BY NoneFacts DEF Steady, MoveTypes, Statics, PointerTypes, DBTypes
<1>4. /\ aaa[m] # None => PointsTo(aaa[m], m)
      /\ db.aux[m] # None => PointsTo(db.aux[m], m)
      /\ \A b \in DOMAIN heap : b[1] <= round
      /\ Running(Base) => \A n \in Maker : NewAux(Base, n) \in DOMAIN heap => aux[Base][n] = NewAux(Base, n)
  BY DEF Statics, OldPointers
<1>5. /\ Running(t)
      /\ t # Base => phase = "propose" /\ (Restores(t) => t = Restoring)
  BY <1>2, RunningFacts DEF Due
<1>6. aux[t][m] = None BY <1>2 DEF Statics, MakersOK
<1>7. /\ NewAux(t, m) \in Pointer /\ NewAux(t, m)[3] = m /\ NewAux(t, m)[1] = round
  BY <1>3 DEF NewAux, Pointer
<1>8. NewAux(t, m) \notin DOMAIN heap
  <2>1. CASE t = Base BY <1>3, <1>4, <1>5, <1>6, <1>7, <2>1
  <2>2. CASE t # Base
    <3>1. NewAux(t, m) \in DOMAIN heap => aux[t][m] = NewAux(t, m)
      BY <1>0, <1>5, <2>2 DEF Statics, OwnPointers
    <3> QED BY <1>3, <1>6, <1>7, <3>1
  <2> QED BY <2>1, <2>2
<1>9. (db.aux[m] = None <=> saved[m] = None) /\ (aaa[m] # None => m \in AAA)
  BY DEF Statics, SetAside, MakersOK
<1>10. ~Restores(t) \/ ~Taken(m)
  <2> SUFFICES ASSUME Restores(t), Taken(m) PROVE FALSE OBVIOUS
  <2>1. t = Restoring /\ sps[t][m] # None BY <1>5 DEF Restores, Taken
  <2> QED BY <1>2, <2>1 DEF getMadeSP
<1>11. \A b \in DOMAIN heap : heap[b] # None BY <1>3
<1>12. \/ /\ Restores(t) /\ db.aux[m] # None /\ a = db.aux[m] /\ heap[a] = saved[m] /\ saved[m] # None
       \/ /\ ~Restores(t) /\ getAAAMadeSPAux(t, m) # None
          /\ a = aaa[m] /\ a = getAAAMadeSPAux(t, m) /\ heap[a] = StatisticsAt(getAAAMadeSPAux(t, m))
       \/ /\ a = NewAux(t, m) /\ (Restores(t) => saved[m] = None)
          /\ ~Restores(t) => StatisticsAt(getAAAMadeSPAux(t, m)) = None
  <2>1. CASE Restores(t) /\ db.aux[m] # None
    <3>1. a = db.aux[m] BY <1>1, <2>1 DEF MadeAux
    <3>2. phase = "propose" BY <1>5, <2>1 DEF Restores
    <3>3. heap[a] = saved[m] BY <1>10, <2>1, <3>1, <3>2 DEF Statics, SetAside
    <3> QED BY <1>9, <2>1, <3>1, <3>3
  <2>2. CASE ~Restores(t) /\ getAAAMadeSPAux(t, m) # None
    <3>1. a = getAAAMadeSPAux(t, m) BY <1>1, <2>2 DEF MadeAux
    <3>2. getAAAMadeSPAux(t, m) = aaa[m] BY <2>2 DEF getAAAMadeSPAux
    <3> QED BY <2>2, <3>1, <3>2 DEF StatisticsAt
  <2>3. CASE Restores(t) /\ db.aux[m] = None BY <1>1, <1>9, <2>3 DEF MadeAux
  <2>4. CASE ~Restores(t) /\ getAAAMadeSPAux(t, m) = None
    BY <1>1, <2>4 DEF MadeAux, StatisticsAt
  <2> QED BY <2>1, <2>2, <2>3, <2>4
<1>13. /\ a \in Pointer /\ a[3] = m /\ a[1] <= round
       /\ \/ a = NewAux(t, m) /\ a \notin DOMAIN heap
          \/ Restores(t) /\ a = db.aux[m] /\ a \in DOMAIN heap
          \/ ~Restores(t) /\ m \in AAA /\ a = aaa[m] /\ a \in DOMAIN heap
  BY <1>3, <1>4, <1>7, <1>8, <1>9, <1>12 DEF PointsTo
<1>14. /\ DOMAIN heap' = DOMAIN heap \cup {a}
       /\ \A b \in DOMAIN heap : heap'[b] = heap[b]
       /\ a \notin DOMAIN heap => heap'[a] = NoData
  BY <1>2, <1>3
<1>15. heap'[a] = MadeStatistics(t, m)
  <2>1. CASE a \in DOMAIN heap
    <3>1. heap'[a] = heap[a] /\ heap[a] # None /\ a # NewAux(t, m)
      BY <1>8, <1>11, <1>14, <2>1
    <3> QED BY <1>12, <3>1 DEF MadeStatistics
  <2>2. CASE a \notin DOMAIN heap
    <3>1. a = NewAux(t, m) /\ heap'[a] = NoData BY <1>13, <1>14, <2>2
    <3>2. /\ Restores(t) => saved[m] = None
          /\ ~Restores(t) => StatisticsAt(getAAAMadeSPAux(t, m)) = None
      <4>1. db.aux[m] # None => a # db.aux[m] BY <1>4, <2>2 DEF PointsTo
      <4>2. aaa[m] # None => a # aaa[m] BY <1>4, <2>2 DEF PointsTo
      <4>3. a # None BY <1>3, <1>13
      <4> QED BY <1>12, <4>1, <4>2, <4>3
    <3> QED BY <3>1, <3>2 DEF MadeStatistics
  <2> QED BY <2>1, <2>2
<1>16. heap' \in [DOMAIN heap' -> Statistics]
  <2>1. NoData \in Statistics BY DEF NoData, Statistics
  <2> QED BY <1>2, <1>3, <2>1
<1>17. /\ aux' \in [Trace -> [Maker -> Maybe(Pointer)]] /\ aux'[t][m] = a
       /\ \A u \in Trace, n \in Maker : u # t \/ n # m => aux'[u][n] = aux[u][n]
  <2>1. a \in Maybe(Pointer) BY <1>13 DEF Maybe
  <2>2. aux' \in [Trace -> [Maker -> Maybe(Pointer)]] BY <1>2, <1>3, <2>1, SetTyped
  <2> QED BY <1>2, <1>3, <2>2
<1>18. a # None BY <1>3, <1>13
<1>19. Makes(t, m, sp, a)
  BY <1>2, <1>3, <1>6, <1>10, <1>13, <1>14, <1>15, <1>16, <1>17, <1>18 DEF Makes
<1> QED BY <1>13, <1>19

LEMMA MakeShows ==
  ASSUME Steady, Statics, DBTypes, MakerTypes, NEW t \in Trace, NEW m \in Maker, NEW sp \in Proc,
         MakeStep(t, m, sp)
  PROVE  MadeShows(t, m)
<1>0. Base \in Trace /\ (t # Base => t \in Particle) /\ Particle \subseteq Trace /\ Base \notin Particle
  BY BaseIsNoParticle DEF Trace
<1>1a. PICK a \in Pointer : Makes(t, m, sp, a)
  BY MakeEffect
<1>1. /\ a # None /\ a[3] = m /\ a[1] <= round /\ sp # None
      /\ aux[t][m] = None /\ getMadeSP(t, m) = None
      /\ DOMAIN heap' = DOMAIN heap \cup {a} /\ heap' \in [DOMAIN heap' -> Statistics]
      /\ \A b \in DOMAIN heap : heap'[b] = heap[b]
      /\ heap'[a] = MadeStatistics(t, m)
      /\ \/ a = NewAux(t, m) /\ a \notin DOMAIN heap
         \/ Restores(t) /\ a = db.aux[m] /\ a \in DOMAIN heap
         \/ ~Restores(t) /\ m \in AAA /\ a = aaa[m] /\ a \in DOMAIN heap
      /\ Restores(t) /\ a = db.aux[m] => ~Taken(m)
      /\ aux' \in [Trace -> [Maker -> Maybe(Pointer)]] /\ aux'[t][m] = a
      /\ \A u \in Trace, n \in Maker : u # t \/ n # m => aux'[u][n] = aux[u][n]
  BY <1>1a DEF Makes
<1>2. /\ \A u \in Trace, n \in Maker : aux[u][n] # None => aux[u][n] \in DOMAIN heap
      /\ \A n \in Maker : aaa[n] # None => aaa[n] \in DOMAIN heap /\ n \in AAA
  BY <1>0 DEF Statics, MakersOK, OldPointers, OwnPointers, PointsTo, Trace
<1>3. \A b : (b = None \/ b \in DOMAIN heap) => StatisticsAt(b)' = StatisticsAt(b)
  BY <1>1 DEF StatisticsAt
<1>4. ASSUME NEW w \in Trace, Shows(t, w), NEW n \in Maker
      PROVE  StatisticsOf(w, n)' = IF w = t /\ n = m THEN MadeStatistics(t, m) ELSE StatisticsOf(w, n)
  <2>1. CASE w = t /\ n = m BY <1>1, <2>1 DEF StatisticsOf, StatisticsAt, getMadeSPAux
  <2>2. CASE w # t \/ n # m
    <3>1. aux'[w][n] = aux[w][n] /\ aux'[Base][n] = aux[Base][n]
      BY <1>0, <1>1, <1>4, <2>2 DEF Shows
    <3>2. PICK b : b = getMadeSPAux(w, n) OBVIOUS
    <3>3. getMadeSPAux(w, n)' = b /\ (b = None \/ b \in DOMAIN heap)
      BY <1>0, <1>2, <3>1, <3>2 DEF getMadeSPAux
    <3>4. StatisticsOf(w, n)' = StatisticsAt(b)' /\ StatisticsOf(w, n) = StatisticsAt(b)
      BY <3>2, <3>3 DEF StatisticsOf, StatisticsAt
    <3> QED BY <1>3, <2>2, <3>3, <3>4
  <2> QED BY <2>1, <2>2
<1>5. ASSUME NEW w \in Trace, Shows(t, w), NEW n \in Maker
      PROVE  StatisticsAt(getAAAMadeSPAux(w, n))' =
               IF w = t /\ n = m THEN None ELSE StatisticsAt(getAAAMadeSPAux(w, n))
  <2>1. /\ t = Base => aaa' = [aaa EXCEPT ![m] = None] /\ discarded' = discarded
        /\ t # Base => aaa' = aaa /\ discarded' = [discarded EXCEPT ![t] = IF m \in AAA THEN @ \cup {m} ELSE @]
    BY DEF MakeStep
  <2>2. aaa \in [Maker -> Maybe(Pointer)] /\ discarded \in [Particle -> SUBSET AAA]
    BY DEF Statics, PointerTypes, MakerTypes
  <2>3. CASE w = t /\ n = m
    <3>1. getAAAMadeSPAux(w, n)' = None
      BY <1>0, <1>2, <2>1, <2>2, <2>3 DEF getAAAMadeSPAux
    <3> QED BY <2>3, <3>1 DEF StatisticsAt
  <2>4. CASE w # t \/ n # m
    <3>1. PICK b : b = getAAAMadeSPAux(w, n) OBVIOUS
    <3>2. getAAAMadeSPAux(w, n)' = b /\ (b = None \/ b \in DOMAIN heap)
      BY <1>0, <1>2, <1>5, <2>1, <2>2, <2>4, <3>1 DEF getAAAMadeSPAux, Shows, Trace
    <3>3. StatisticsAt(getAAAMadeSPAux(w, n))' = StatisticsAt(b)'
      BY <3>2 DEF StatisticsAt
    <3> QED BY <1>3, <2>4, <3>1, <3>2, <3>3
  <2> QED BY <2>3, <2>4
<1>6. ASSUME NEW w \in Trace, Shows(t, w)
      PROVE  /\ (AllStatisticsOf(w))' =
                  IF w = t THEN [AllStatisticsOf(w) EXCEPT ![m] = MadeStatistics(t, m)] ELSE AllStatisticsOf(w)
             /\ (AAAOf(w))' = IF w = t THEN [AAAOf(w) EXCEPT ![m] = None] ELSE AAAOf(w)
  <2>1. /\ \A n \in Maker : StatisticsOf(w, n)' = IF w = t /\ n = m THEN MadeStatistics(t, m) ELSE StatisticsOf(w, n)
        /\ \A n \in Maker : StatisticsAt(getAAAMadeSPAux(w, n))' =
                              IF w = t /\ n = m THEN None ELSE StatisticsAt(getAAAMadeSPAux(w, n))
    BY <1>4, <1>5, <1>6
  <2>2. /\ (AllStatisticsOf(w))' = [n \in Maker |-> StatisticsOf(w, n)']
        /\ (AAAOf(w))' = [n \in Maker |-> StatisticsAt(getAAAMadeSPAux(w, n))']
    BY DEF AllStatisticsOf, AAAOf
  <2> QED BY <2>1, <2>2 DEF AllStatisticsOf, AAAOf
<1> QED BY <1>6 DEF MadeShows

LEMMA MakeKeeps ==
  ASSUME Steady, Statics, DBTypes, MakerTypes, NEW t \in Trace, NEW m \in Maker, NEW sp \in Proc,
         MakeStep(t, m, sp)
  PROVE  Statics'
<1>0. Base \in Trace /\ (t # Base => t \in Particle) /\ Particle \subseteq Trace /\ Base \notin Particle
  BY BaseIsNoParticle DEF Trace
<1>1a. PICK a \in Pointer : Makes(t, m, sp, a)
  BY MakeEffect
<1>1. /\ a # None /\ a[3] = m /\ a[1] <= round /\ sp # None
      /\ aux[t][m] = None /\ getMadeSP(t, m) = None
      /\ DOMAIN heap' = DOMAIN heap \cup {a} /\ heap' \in [DOMAIN heap' -> Statistics]
      /\ \A b \in DOMAIN heap : heap'[b] = heap[b]
      /\ heap'[a] = MadeStatistics(t, m)
      /\ \/ a = NewAux(t, m) /\ a \notin DOMAIN heap
         \/ Restores(t) /\ a = db.aux[m] /\ a \in DOMAIN heap
         \/ ~Restores(t) /\ m \in AAA /\ a = aaa[m] /\ a \in DOMAIN heap
      /\ Restores(t) /\ a = db.aux[m] => ~Taken(m)
      /\ aux' \in [Trace -> [Maker -> Maybe(Pointer)]] /\ aux'[t][m] = a
      /\ \A u \in Trace, n \in Maker : u # t \/ n # m => aux'[u][n] = aux[u][n]
  BY <1>1a DEF Makes
<1>2. /\ UNCHANGED <<db, saved, phase, round, group, live>>
      /\ Running(t) /\ round \in Nat
      /\ t = Base => phase = "regen" /\ live = {}
      /\ t # Base => phase = "propose" /\ (Restores(t) => t = Restoring)
      /\ t = Base => aaa' = [aaa EXCEPT ![m] = None] /\ discarded' = discarded
      /\ t # Base => aaa' = aaa /\ discarded' = [discarded EXCEPT ![t] = IF m \in AAA THEN @ \cup {m} ELSE @]
      /\ sps' = [sps EXCEPT ![t][m] = sp] /\ families' = [families EXCEPT ![t][m] = [i \in Id |-> None]]
  BY RunningFacts DEF MakeStep, Due, gibbsVars, Steady, MoveTypes
<1>3. /\ aaa \in [Maker -> Maybe(Pointer)] /\ discarded \in [Particle -> SUBSET AAA]
      /\ sps \in [Trace -> [Maker -> Maybe(Proc)]]
      /\ families \in [Trace -> [Maker -> [Id -> Maybe(Roots)]]]
      /\ DOMAIN heap \subseteq Pointer
  BY DEF Statics, PointerTypes, MakerTypes
<1>4. /\ sps'[t][m] = sp /\ \A u \in Trace, n \in Maker : u # t \/ n # m => sps'[u][n] = sps[u][n]
      /\ \A u \in Trace, n \in Maker : u # t \/ n # m => families'[u][n] = families[u][n]
      /\ \A n \in Maker : aaa'[n] = IF t = Base /\ n = m THEN None ELSE aaa[n]
      /\ \A u \in Particle, n \in AAA : n \in discarded'[u] <=> (n \in discarded[u] \/ (u = t /\ n = m))
  <2>1. /\ sps'[t][m] = sp /\ \A u \in Trace, n \in Maker : u # t \/ n # m => sps'[u][n] = sps[u][n]
        /\ \A u \in Trace, n \in Maker : u # t \/ n # m => families'[u][n] = families[u][n]
    BY <1>0, <1>2, <1>3
  <2>2. \A n \in Maker : aaa'[n] = IF t = Base /\ n = m THEN None ELSE aaa[n]
    BY <1>2, <1>3
  <2>3. \A u \in Particle, n \in AAA : n \in discarded'[u] <=> (n \in discarded[u] \/ (u = t /\ n = m))
    BY <1>0, <1>2, <1>3
  <2> QED BY <2>1, <2>2, <2>3
<1>5. /\ \A u \in Trace, n \in Maker : getMadeSP(u, n) # None => getMadeSP(u, n)' # None
      /\ getMadeSP(t, m)' # None
      /\ \A u, n : NewAux(u, n)' = NewAux(u, n)
      /\ \A n \in Maker : Taken(n) => Taken(n)'
  <2>1. \A u \in Trace, n \in Maker : sps[u][n] # None => sps'[u][n] # None
    BY <1>1, <1>4
  <2>2. \A u \in Trace, n \in Maker : getMadeSP(u, n) # None => getMadeSP(u, n)' # None
    BY <1>0, <2>1 DEF getMadeSP
  <2>3. getMadeSP(t, m)' # None BY <1>1, <1>4 DEF getMadeSP
  <2>4. \A n \in Maker : Taken(n) => Taken(n)'
    <3>1. PICK r : r = Restoring OBVIOUS
    <3>2. Restoring' = r BY <1>2, <3>1 DEF Restoring
    <3>3. live \subseteq Trace BY <1>0 DEF Steady
    <3> QED BY <1>2, <2>1, <3>1, <3>2, <3>3 DEF Taken
  <2> QED BY <1>2, <2>2, <2>3, <2>4 DEF NewAux
<1>6. PointerTypes'
  <2>1. aaa' \in [Maker -> Maybe(Pointer)] BY <1>2, <1>3 DEF Maybe
  <2> QED BY <1>1, <1>3, <2>1 DEF PointerTypes
<1>7. MakersOK'
  <2>1. MakersOK BY DEF Statics
  <2>2. ASSUME NEW u \in Trace, NEW n \in Maker
        PROVE  /\ sps'[u][n] # None => aux'[u][n] # None
               /\ aux'[u][n] # None => getMadeSP(u, n)' # None
               /\ getMadeSP(u, n)' = None => families'[u][n] = [i \in Id |-> None]
    <3>1. CASE u = t /\ n = m BY <1>1, <1>5, <3>1
    <3>2. CASE u # t \/ n # m
      <4>1. families'[u][n] = families[u][n] BY <1>4, <3>2
      <4> QED BY <1>1, <1>4, <1>5, <2>1, <3>2, <4>1 DEF MakersOK
    <3> QED BY <3>1, <3>2
  <2>4. ASSUME NEW u \in Particle, NEW n \in Maker, n \in AAA PROVE n \in discarded'[u] <=> sps'[u][n] # None
    <3>1. n \in discarded[u] <=> sps[u][n] # None BY <2>1, <2>4 DEF MakersOK
    <3>2. CASE u = t /\ n = m BY <1>1, <1>4, <2>4, <3>2
    <3>3. CASE u # t \/ n # m BY <1>0, <1>4, <2>4, <3>1, <3>3
    <3> QED BY <3>2, <3>3
  <2>5. ASSUME NEW n \in Maker, aaa'[n] # None
        PROVE  n \in AAA /\ sps'[Base][n] = None /\ \E j \in InTorus : Program[j] = Make(n)
    <3>1. aaa[n] # None /\ (t # Base \/ n # m) BY <1>4, <2>5
    <3>2. sps'[Base][n] = sps[Base][n] BY <1>0, <1>4, <3>1
    <3> QED BY <2>1, <3>1, <3>2 DEF MakersOK
  <2>6. ASSUME NEW n \in Maker, db.aux[n] # None
        PROVE  sps'[Base][n] = None /\ \E j \in InTorus : Program[j] = Make(n)
    <3>1. t # Base
      <4>1. phase = "regen" => db = NoDB BY DEF Steady, Stages
      <4> QED BY <1>2, <2>6, <4>1 DEF NoDB
    <3>2. sps'[Base][n] = sps[Base][n] BY <1>0, <1>4, <3>1
    <3> QED BY <2>1, <2>6, <3>2 DEF MakersOK
  <2> QED BY <1>2, <2>2, <2>4, <2>5, <2>6 DEF MakersOK
<1>8. OldPointers'
  <2>1. OldPointers BY DEF Statics
  <2>2. \A b, n : PointsTo(b, n) => b \in DOMAIN heap' /\ b[3] = n /\ (phase' # "regen" => b[1] < round')
    BY <1>1, <1>2 DEF PointsTo
  <2>3. ASSUME NEW n \in Maker, aux'[Base][n] # None
        PROVE  aux'[Base][n] \in DOMAIN heap' /\ aux'[Base][n][3] = n /\ (phase' # "regen" => aux'[Base][n][1] < round')
    <3>1. CASE t = Base /\ n = m BY <1>1, <1>2, <3>1
    <3>2. CASE t # Base \/ n # m
      <4>1. aux'[Base][n] = aux[Base][n] BY <1>0, <1>1, <3>2
      <4> QED BY <2>1, <2>2, <2>3, <4>1 DEF OldPointers
    <3> QED BY <3>1, <3>2
  <2>4. ASSUME NEW n \in Maker
        PROVE  /\ aaa'[n] # None => aaa'[n] \in DOMAIN heap' /\ aaa'[n][3] = n /\ (phase' # "regen" => aaa'[n][1] < round')
               /\ db'.aux[n] # None => db'.aux[n] \in DOMAIN heap' /\ db'.aux[n][3] = n /\ (phase' # "regen" => db'.aux[n][1] < round')
    <3>1. (aaa'[n] # None => aaa'[n] = aaa[n]) /\ db' = db BY <1>2, <1>4
    <3> QED BY <2>1, <2>2, <3>1 DEF OldPointers
  <2>5. \A b \in DOMAIN heap' : b[1] <= round' /\ (phase' = "detach" => b[1] < round')
    BY <1>1, <1>2, <2>1 DEF OldPointers
  <2>6. ASSUME Running(Base)', NEW n \in Maker, NewAux(Base, n)' \in DOMAIN heap'
        PROVE  aux'[Base][n] = NewAux(Base, n)'
    <3>1. phase = "regen" BY <1>2, <2>6 DEF Running
    <3>2. t = Base BY <1>2, <3>1
    <3>3. NewAux(Base, n)' = NewAux(Base, n) /\ NewAux(Base, n)[3] = n /\ NewAux(Base, n) # None
      <4>1. None \notin Pointer /\ NewAux(Base, n) \in Pointer
        BY <1>0, <1>2, NoneFacts DEF NewAux, Pointer
      <4> QED BY <1>5, <4>1 DEF NewAux
    <3>4. CASE NewAux(Base, n) \in DOMAIN heap
      <4>1. aux[Base][n] = NewAux(Base, n) BY <1>2, <2>1, <3>2, <3>4 DEF OldPointers
      <4>2. n # m BY <1>1, <3>2, <3>3, <4>1
      <4> QED BY <1>0, <1>1, <3>3, <4>1, <4>2
    <3>5. CASE NewAux(Base, n) \notin DOMAIN heap
      <4>1. NewAux(Base, n) = a BY <1>1, <2>6, <3>3, <3>5
      <4>2. n = m BY <1>1, <3>3, <4>1
      <4> QED BY <1>1, <3>2, <3>3, <4>1, <4>2
    <3> QED BY <3>4, <3>5
  <2> QED BY <2>3, <2>4, <2>5, <2>6 DEF OldPointers, PointsTo
<1>9. OwnPointers'
  <2>1. OwnPointers /\ OldPointers BY DEF Statics
  <2> SUFFICES ASSUME NEW u \in Particle, NEW n \in Maker
               PROVE  /\ aux'[u][n] # None => aux'[u][n] \in DOMAIN heap' /\ aux'[u][n][3] = n
                      /\ phase = "propose" =>
                           /\ aux'[u][n] # None => \/ aux'[u][n] = NewAux(u, n)
                                                   \/ n \in AAA /\ aux'[u][n] = aaa'[n]
                                                   \/ Restores(u) /\ aux'[u][n] = db.aux[n]
                           /\ NewAux(u, n) \in DOMAIN heap' => aux'[u][n] = NewAux(u, n)
    BY <1>2, <1>5 DEF OwnPointers
  <2>2. CASE u = t /\ n = m
    <3>1. aux'[u][n] = a /\ a \in DOMAIN heap' /\ a[3] = n /\ t # Base /\ phase = "propose" /\ aaa' = aaa
      BY <1>0, <1>1, <1>2, <2>2
    <3>2. NewAux(t, m) \in DOMAIN heap => FALSE
      <4>1. NewAux(t, m) \in DOMAIN heap => aux[t][m] = NewAux(t, m)
        BY <2>1, <2>2, <3>1 DEF OwnPointers
      <4> QED BY <1>1, <1>3, <4>1, NoneFacts
    <3> QED BY <1>1, <2>2, <3>1, <3>2
  <2>3. CASE u # t \/ n # m
    <3>1. aux'[u][n] = aux[u][n] /\ (phase = "propose" => aaa' = aaa)
      BY <1>0, <1>1, <1>2, <2>3
    <3>2. /\ aux[u][n] # None => aux[u][n] \in DOMAIN heap /\ aux[u][n][3] = n
          /\ phase = "propose" =>
               /\ aux[u][n] # None => \/ aux[u][n] = NewAux(u, n)
                                      \/ n \in AAA /\ aux[u][n] = aaa[n]
                                      \/ Restores(u) /\ aux[u][n] = db.aux[n]
               /\ NewAux(u, n) \in DOMAIN heap => aux[u][n] = NewAux(u, n)
      BY <2>1 DEF OwnPointers
    <3>3. NewAux(u, n) \in DOMAIN heap' => NewAux(u, n) \in DOMAIN heap
      <4>1. NewAux(u, n) # NewAux(t, m) BY <2>3 DEF NewAux
      <4> QED BY <1>1, <4>1
    <3> QED BY <1>1, <3>1, <3>2, <3>3
  <2> QED BY <2>2, <2>3
<1>10. SetAside'
  <2>1. SetAside /\ OldPointers BY DEF Statics
  <2>2. \A n \in Maker : db'.aux[n] = None <=> saved'[n] = None
    BY <1>2, <2>1 DEF SetAside
  <2>3. ASSUME phase \in {"detach", "propose"}, NEW n \in Maker, db.aux[n] # None
        PROVE  heap'[db.aux[n]] = saved[n] \/ (phase = "propose" /\ Taken(n)')
    <3>1. heap[db.aux[n]] = saved[n] \/ (phase = "propose" /\ Taken(n))
      BY <2>1, <2>3 DEF SetAside
    <3>2. db.aux[n] \in DOMAIN heap BY <2>1, <2>3 DEF OldPointers, PointsTo
    <3> QED BY <1>1, <1>5, <3>1, <3>2
  <2>4. ASSUME phase = "propose", NEW u \in Particle, NEW n \in Maker, n \notin AAA, db.aux[n] # None,
               aux'[u][n] = db.aux[n]
        PROVE  Taken(n)' /\ \A v \in Particle : aux'[v][n] = db.aux[n] => v = u
    <3>0. t # Base /\ t \in Particle BY <1>0, <1>2, <2>4
    <3>1. db.aux[n][1] < round /\ NewAux(t, n)[1] = round
      BY <2>1, <2>4 DEF OldPointers, PointsTo, NewAux
    <3>2. \A v \in Particle : aux[v][n] = db.aux[n] => Taken(n)
          /\ \A w \in Particle : aux[w][n] = db.aux[n] => w = v
      BY <2>1, <2>4 DEF SetAside
    <3>3. CASE n # m
      <4>1. \A v \in Particle : aux'[v][n] = aux[v][n] BY <1>0, <1>1, <3>3
      <4> QED BY <1>5, <2>4, <3>2, <4>1
    <3>4. CASE n = m
      <4>1. \A v \in Particle : v # t => aux'[v][m] = aux[v][m] BY <1>0, <1>1
      <4>2. a = db.aux[m] => Restores(t) BY <1>1, <1>2, <2>4, <3>1, <3>4
      <4>3. CASE a = db.aux[m]
        <5>1. ~Taken(m) /\ t = Restoring BY <1>1, <1>2, <3>0, <4>2, <4>3
        <5>2. \A v \in Particle : aux[v][m] # db.aux[m] BY <3>2, <3>4, <5>1
        <5>3. Taken(m)'
          <6>1. Restoring' = t BY <1>2, <5>1 DEF Restoring
          <6>2. t \in live /\ m \notin AAA BY <1>2, <2>4, <3>0, <3>4, RunningFacts
          <6> QED BY <1>1, <1>2, <1>4, <6>1, <6>2 DEF Taken
        <5> QED BY <2>4, <3>4, <4>1, <5>2, <5>3
      <4>4. CASE a # db.aux[m]
        <5>1. \A v \in Particle : aux'[v][m] = db.aux[m] => aux[v][m] = db.aux[m]
          BY <1>1, <4>1, <4>4
        <5> QED BY <1>5, <2>4, <3>2, <3>4, <5>1
      <4> QED BY <4>3, <4>4
    <3> QED BY <3>3, <3>4
  <2> QED BY <1>2, <2>2, <2>3, <2>4 DEF SetAside
<1> QED BY <1>6, <1>7, <1>8, <1>9, <1>10 DEF Statics

-----------------------------------------------------------------------------
(* Steps that leave the procedures and their statistics as they are.       *)
LEMMA QuietKeeps ==
  ASSUME Statics, UNCHANGED spVars, UNCHANGED <<saved, phase, round, group, live>>, db'.aux = db.aux,
         Running(Base)' => Running(Base)
  PROVE  Statics'
<1>1. /\ UNCHANGED <<sps, families, aux, heap, aaa, discarded>>
      /\ UNCHANGED <<saved, phase, round, group, live>> /\ db'.aux = db.aux
  BY DEF spVars
<1>2. PointerTypes' /\ MakersOK' BY <1>1 DEF Statics, PointerTypes, MakersOK, getMadeSP
<1>3. OldPointers' BY <1>1 DEF Statics, OldPointers, PointsTo, NewAux
<1>4. OwnPointers' BY <1>1 DEF Statics, OwnPointers, NewAux
<1>5. SetAside' BY <1>1 DEF Statics, SetAside, Taken, Restoring
<1> QED BY <1>2, <1>3, <1>4, <1>5 DEF Statics

LEMMA BeginDetachStatics ==
  ASSUME Steady, Statics, BeginDetach
  PROVE  Statics'
<1>1. /\ UNCHANGED <<sps, families, aux, heap, aaa, discarded, db, live>>
      /\ phase = "regen" /\ phase' = "detach" /\ round' = round + 1 /\ saved' = [m \in Maker |-> None]
      /\ db = NoDB /\ round \in Nat
  BY DEF BeginDetach, spVars, Steady, Stages, MoveTypes
<1>2. PointerTypes' /\ MakersOK' BY <1>1 DEF Statics, PointerTypes, MakersOK, getMadeSP
<1>3. OldPointers'
  <2>1. \A b \in DOMAIN heap : b[1] <= round /\ b \in Pointer
    BY DEF Statics, OldPointers, PointerTypes
  <2>2. \A b \in DOMAIN heap : b[1] < round + 1 /\ b[1] <= round + 1
    BY <1>1, <2>1 DEF Pointer
  <2>3. ~Running(Base)' BY <1>1 DEF Running
  <2> QED BY <1>1, <2>2, <2>3 DEF Statics, OldPointers, PointsTo
<1>4. OwnPointers' BY <1>1 DEF Statics, OwnPointers
<1>5. SetAside' BY <1>1 DEF SetAside, NoDB
<1> QED BY <1>2, <1>3, <1>4, <1>5 DEF Statics

LEMMA BeginProposeStatics ==
  ASSUME Steady, Statics, BeginPropose
  PROVE  Statics'
<1>1. /\ UNCHANGED <<sps, families, aux, heap, aaa, discarded, db, live, saved, round>>
      /\ phase = "detach" /\ phase' = "propose"
      /\ live = {} /\ \A p \in Particle : aux[p] = [m \in Maker |-> None]
  BY DEF BeginPropose, spVars, Steady, Stages, Recordless
<1>2. PointerTypes' /\ MakersOK' BY <1>1 DEF Statics, PointerTypes, MakersOK, getMadeSP
<1>3. OldPointers' BY <1>1 DEF Statics, OldPointers, PointsTo, Running
<1>4. OwnPointers'
  <2>1. \A t \in Particle, m \in Maker : NewAux(t, m)' \notin DOMAIN heap
    <3>1. \A b \in DOMAIN heap : b[1] < round /\ b \in Pointer
      BY <1>1 DEF Statics, OldPointers, PointerTypes
    <3> QED BY <1>1, <3>1 DEF NewAux, Steady, MoveTypes
  <2> QED BY <1>1, <2>1 DEF OwnPointers
<1>5. SetAside' BY <1>1 DEF Statics, SetAside
<1> QED BY <1>2, <1>3, <1>4, <1>5 DEF Statics

LEMMA SpawnStatics ==
  ASSUME Steady, Statics, MakerTypes, NEW p \in Particle, Spawn(p)
  PROVE  Statics'
<1>1. /\ UNCHANGED <<sps, families, aux, heap, aaa, discarded, db, saved, round, phase, group>>
      /\ phase = "propose" /\ live' = live \cup {p} /\ group = 1 /\ p \notin live /\ p \in Generation(1)
      /\ sps[p] = [m \in Maker |-> None] /\ live \subseteq Particle
  BY DEF Spawn, spVars, Steady, Stages, Recordless
<1>2. PointerTypes' /\ MakersOK' BY <1>1 DEF Statics, PointerTypes, MakersOK, getMadeSP
<1>3. OldPointers' BY <1>1 DEF Statics, OldPointers, PointsTo, Running
<1>4. OwnPointers' BY <1>1 DEF Statics, OwnPointers, NewAux
<1>5. \A m \in Maker : Taken(m)' = Taken(m)
  <2>1. <<0, NumNew>> \notin Particle BY DEF Particle
  <2>2. Restoring = IF <<1, NumNew>> \in live THEN <<1, NumNew>> ELSE <<0, NumNew>>
    BY <1>1 DEF Restoring
  <2>3. Restoring' = IF <<1, NumNew>> \in live' THEN <<1, NumNew>> ELSE <<0, NumNew>>
    BY <1>1 DEF Restoring
  <2> QED BY <1>1, <2>1, <2>2, <2>3 DEF Taken
<1>6. SetAside' BY <1>1, <1>5 DEF Statics, SetAside
<1> QED BY <1>2, <1>3, <1>4, <1>6 DEF Statics

LEMMA CommitChoicesStatics ==
  ASSUME Steady, Statics, NEW p \in Particle, CommitChoices(p)
  PROVE  Statics'
<1>1. /\ UNCHANGED <<sps, families, aux, heap, aaa, discarded, round>>
      /\ phase = "propose" /\ phase' = "commit" /\ db' = NoDB /\ saved' = [m \in Maker |-> None]
  BY DEF CommitChoices, spVars
<1>2. PointerTypes' /\ MakersOK'
  BY <1>1 DEF Statics, PointerTypes, MakersOK, getMadeSP, NoDB
<1>3. OldPointers' BY <1>1 DEF Statics, OldPointers, PointsTo, Running, NoDB
<1>4. OwnPointers' BY <1>1 DEF Statics, OwnPointers
<1>5. SetAside' BY <1>1 DEF SetAside, NoDB
<1> QED BY <1>2, <1>3, <1>4, <1>5 DEF Statics

(* A procedure that is unmade: its statistics are detached and, those of   *)
(* an AAA maker, set aside.                                                *)
LEMMA UnmakeEffect ==
  ASSUME Steady, DBTypes, NEW m \in Maker, UnmakeStep(m)
  PROVE  /\ phase = "detach" /\ live = {} /\ UNCHANGED <<phase, round, live, group, heap, discarded>>
         /\ \E j \in InTorus : Program[j] = Make(m)
         /\ \A t \in Particle, n \in Maker : aux[t][n] = None /\ sps[t][n] = None
         /\ db' = Detached(db.values, db.requests, [db.sps EXCEPT ![m] = sps[Base][m]],
                           [db.aux EXCEPT ![m] = aux[Base][m]])
         /\ db'.aux = [db.aux EXCEPT ![m] = aux[Base][m]]
         /\ saved' = [saved EXCEPT ![m] = StatisticsOf(Base, m)]
         /\ aaa' = IF m \in AAA THEN [aaa EXCEPT ![m] = aux[Base][m]] ELSE aaa
         /\ sps' = [sps EXCEPT ![Base][m] = None] /\ aux' = [aux EXCEPT ![Base][m] = None]
         /\ families' = [families EXCEPT ![Base][m] = [i \in Id |-> None]]
<1>1. /\ Latest(Make(m)) /\ UNCHANGED <<phase, round, live, group, heap, discarded>>
      /\ db' = [db EXCEPT !.sps[m] = sps[Base][m], !.aux[m] = aux[Base][m]]
      /\ saved' = [saved EXCEPT ![m] = StatisticsOf(Base, m)]
      /\ aaa' = IF m \in AAA THEN [aaa EXCEPT ![m] = aux[Base][m]] ELSE aaa
      /\ sps' = [sps EXCEPT ![Base][m] = None] /\ aux' = [aux EXCEPT ![Base][m] = None]
      /\ families' = [families EXCEPT ![Base][m] = [i \in Id |-> None]]
  BY DEF UnmakeStep, Undo
<1>2. phase = "detach" /\ at[Base] > First /\ Program[at[Base]] = Make(m)
  BY <1>1 DEF Latest
<1>3. /\ live = {} /\ at[Base] \in First .. TorusEnd /\ \A p \in Particle \ live : Recordless(p)
  BY <1>2 DEF Steady, Stages
<1>4. at[Base] \in InTorus BY <1>2, <1>3, TorusFacts DEF InTorus
<1>5. \A t \in Particle, n \in Maker : aux[t][n] = None /\ sps[t][n] = None
  BY <1>3 DEF Recordless
<1>6. /\ db' = Detached(db.values, db.requests, [db.sps EXCEPT ![m] = sps[Base][m]],
                         [db.aux EXCEPT ![m] = aux[Base][m]])
      /\ db'.aux = [db.aux EXCEPT ![m] = aux[Base][m]]
  <2> DEFINE d == [db EXCEPT !.sps[m] = sps[Base][m]]
  <2>1. PICK v, r, s, x : v = db.values /\ r = db.requests /\ s = db.sps /\ x = db.aux /\ db = Detached(v, r, s, x)
    BY DEF DBTypes
  <2>2. d = Detached(v, r, [s EXCEPT ![m] = sps[Base][m]], x) BY <2>1 DEF Detached
  <2>3. db' = [d EXCEPT !.aux[m] = aux[Base][m]] BY <1>1
  <2> HIDE DEF d
  <2>4. db' = Detached(v, r, [s EXCEPT ![m] = sps[Base][m]], [x EXCEPT ![m] = aux[Base][m]])
    BY <2>2, <2>3 DEF Detached
  <2> QED BY <2>1, <2>4, DetachedParts
<1> QED BY <1>1, <1>2, <1>3, <1>4, <1>5, <1>6

LEMMA UnmakeStatics ==
  ASSUME Steady, Statics, DBTypes, MakerTypes, NEW m \in Maker, UnmakeStep(m)
  PROVE  Statics'
<1>0. Base \in Trace /\ Particle \subseteq Trace /\ Base \notin Particle
      /\ \A t \in Trace : t # Base => t \in Particle
  BY BaseIsNoParticle DEF Trace
<1>1. /\ phase = "detach" /\ live = {} /\ UNCHANGED <<phase, round, live, group, heap, discarded>>
      /\ \E j \in InTorus : Program[j] = Make(m)
      /\ \A t \in Particle, n \in Maker : aux[t][n] = None /\ sps[t][n] = None
      /\ db'.aux = [db.aux EXCEPT ![m] = aux[Base][m]]
      /\ saved' = [saved EXCEPT ![m] = StatisticsOf(Base, m)]
      /\ aaa' = IF m \in AAA THEN [aaa EXCEPT ![m] = aux[Base][m]] ELSE aaa
      /\ sps' = [sps EXCEPT ![Base][m] = None] /\ aux' = [aux EXCEPT ![Base][m] = None]
      /\ families' = [families EXCEPT ![Base][m] = [i \in Id |-> None]]
  BY UnmakeEffect
<1>2. /\ aux \in [Trace -> [Maker -> Maybe(Pointer)]] /\ aaa \in [Maker -> Maybe(Pointer)]
      /\ heap \in [DOMAIN heap -> Statistics] /\ DOMAIN heap \subseteq Pointer
      /\ db.aux \in [Maker -> Maybe(Pointer)] /\ saved \in [Maker -> Maybe(Statistics)]
      /\ sps \in [Trace -> [Maker -> Maybe(Proc)]]
      /\ families \in [Trace -> [Maker -> [Id -> Maybe(Roots)]]]
      /\ None \notin Statistics /\ None \notin Pointer
  BY NoneFacts DEF Statics, PointerTypes, DBTypes, MakerTypes
<1>3. /\ aux'[Base][m] = None /\ \A u \in Trace, n \in Maker : u # Base \/ n # m => aux'[u][n] = aux[u][n]
      /\ sps'[Base][m] = None /\ \A u \in Trace, n \in Maker : u # Base \/ n # m => sps'[u][n] = sps[u][n]
      /\ families'[Base][m] = [i \in Id |-> None]
      /\ \A u \in Trace, n \in Maker : u # Base \/ n # m => families'[u][n] = families[u][n]
  BY <1>0, <1>1, <1>2
<1>4. /\ \A n \in Maker : db'.aux[n] = IF n = m THEN aux[Base][m] ELSE db.aux[n]
      /\ \A n \in Maker : saved'[n] = IF n = m THEN StatisticsOf(Base, m) ELSE saved[n]
      /\ \A n \in Maker : aaa'[n] = IF n = m /\ m \in AAA THEN aux[Base][m] ELSE aaa[n]
  BY <1>1, <1>2
<1>5. \A u \in Trace, n \in Maker : u = Base \/ n # m => getMadeSP(u, n)' = IF n = m THEN None ELSE getMadeSP(u, n)
  BY <1>0, <1>3 DEF getMadeSP
<1>6. \A u \in Trace : getMadeSP(u, m)' = None BY <1>0, <1>1, <1>3 DEF getMadeSP
<1>7. PointerTypes'
  <2>1. aux' \in [Trace -> [Maker -> Maybe(Pointer)]]
    <3>1. None \in Maybe(Pointer) BY DEF Maybe
    <3> QED BY <1>0, <1>1, <1>2, <3>1, SetTyped
  <2>2. aaa' \in [Maker -> Maybe(Pointer)] BY <1>0, <1>1, <1>2
  <2> QED BY <1>1, <1>2, <2>1, <2>2 DEF PointerTypes
<1>8. MakersOK'
  <2>1. MakersOK BY DEF Statics
  <2>2. ASSUME NEW u \in Trace, NEW n \in Maker
        PROVE  /\ sps'[u][n] # None => aux'[u][n] # None
               /\ aux'[u][n] # None => getMadeSP(u, n)' # None
               /\ getMadeSP(u, n)' = None => families'[u][n] = [i \in Id |-> None]
    <3>1. CASE n # m BY <1>3, <1>5, <2>1, <3>1 DEF MakersOK
    <3>2. CASE n = m /\ u = Base BY <1>3, <3>2
    <3>3. CASE n = m /\ u # Base
      <4>1. aux'[u][n] = None /\ sps'[u][n] = None /\ families'[u][n] = families[u][n] /\ u \in Particle
        BY <1>0, <1>1, <1>3, <3>3
      <4>2. families[u][n] = [i \in Id |-> None]
        <5>1. Recordless(u) BY <1>1, <4>1 DEF Steady, Stages
        <5> QED BY <5>1 DEF Recordless
      <4> QED BY <4>1, <4>2
    <3> QED BY <3>1, <3>2, <3>3
  <2>3. \A u \in Particle, n \in Maker : n \in AAA => (n \in discarded'[u] <=> sps'[u][n] # None)
    BY <1>0, <1>1, <1>3, <2>1 DEF MakersOK
  <2>4. \A n \in Maker : aaa'[n] # None =>
             n \in AAA /\ sps'[Base][n] = None /\ \E j \in InTorus : Program[j] = Make(n)
    <3> SUFFICES ASSUME NEW n \in Maker, aaa'[n] # None
                 PROVE  n \in AAA /\ sps'[Base][n] = None /\ \E j \in InTorus : Program[j] = Make(n)
      OBVIOUS
    <3>1. CASE n = m /\ m \in AAA BY <1>1, <1>3, <3>1
    <3>2. CASE n # m \/ m \notin AAA BY <1>0, <1>3, <1>4, <2>1, <3>2 DEF MakersOK
    <3> QED BY <3>1, <3>2
  <2>5. \A n \in Maker : db'.aux[n] # None =>
             sps'[Base][n] = None /\ \E j \in InTorus : Program[j] = Make(n)
    BY <1>0, <1>1, <1>3, <1>4, <2>1 DEF MakersOK
  <2> QED BY <2>2, <2>3, <2>4, <2>5 DEF MakersOK
<1>9. OldPointers'
  <2>1. OldPointers BY DEF Statics
  <2>2. \A b, n : (b \in DOMAIN heap' /\ b[3] = n /\ (phase' # "regen" => b[1] < round')) <=> PointsTo(b, n)
    BY <1>1 DEF PointsTo
  <2>3. \A n \in Maker : /\ aux'[Base][n] # None => PointsTo(aux'[Base][n], n)
                         /\ aaa'[n] # None => PointsTo(aaa'[n], n)
                         /\ db'.aux[n] # None => PointsTo(db'.aux[n], n)
    BY <1>0, <1>3, <1>4, <2>1 DEF OldPointers
  <2>4. ~Running(Base)' BY <1>1 DEF Running
  <2>5. \A b \in DOMAIN heap' : b[1] <= round' /\ (phase' = "detach" => b[1] < round')
    BY <1>1, <2>1 DEF OldPointers
  <2> QED BY <2>2, <2>3, <2>4, <2>5 DEF OldPointers, PointsTo
<1>10. OwnPointers' BY <1>0, <1>1, <1>3 DEF OwnPointers
<1>11. SetAside'
  <2>1. SetAside /\ OldPointers BY DEF Statics
  <2>2. aux[Base][m] # None => StatisticsOf(Base, m) = heap[aux[Base][m]] /\ StatisticsOf(Base, m) # None
    BY <1>2, <2>1 DEF StatisticsOf, StatisticsAt, getMadeSPAux, OldPointers, PointsTo
  <2>3. aux[Base][m] = None => StatisticsOf(Base, m) = None
    BY DEF StatisticsOf, StatisticsAt, getMadeSPAux
  <2>4. \A n \in Maker : db'.aux[n] = None <=> saved'[n] = None
    BY <1>4, <2>1, <2>2, <2>3 DEF SetAside
  <2>5. \A n \in Maker : db'.aux[n] # None => heap'[db'.aux[n]] = saved'[n]
    BY <1>1, <1>4, <2>1, <2>2 DEF SetAside
  <2> QED BY <1>1, <2>4, <2>5 DEF SetAside
<1> QED BY <1>7, <1>8, <1>9, <1>10, <1>11 DEF Statics

LEMMA UnmakeShows ==
  ASSUME Steady, Statics, DBTypes, NEW m \in Maker, UnmakeStep(m)
  PROVE  /\ (AllStatisticsOf(Base))' = [AllStatisticsOf(Base) EXCEPT ![m] = None]
         /\ (AAAOf(Base))' = IF m \in AAA THEN [AAAOf(Base) EXCEPT ![m] = StatisticsOf(Base, m)] ELSE AAAOf(Base)
<1>1. /\ heap' = heap
      /\ aaa' = IF m \in AAA THEN [aaa EXCEPT ![m] = aux[Base][m]] ELSE aaa
      /\ aux' = [aux EXCEPT ![Base][m] = None]
  BY UnmakeEffect
<1>2. aux \in [Trace -> [Maker -> Maybe(Pointer)]] /\ aaa \in [Maker -> Maybe(Pointer)] /\ Base \in Trace
  BY BaseIsNoParticle DEF Statics, PointerTypes
<1>3. \A n \in Maker : aux'[Base][n] = IF n = m THEN None ELSE aux[Base][n]
  BY <1>1, <1>2
<1>4. \A n \in Maker : aaa'[n] = IF n = m /\ m \in AAA THEN aux[Base][m] ELSE aaa[n]
  BY <1>1, <1>2
<1>5. \A n \in Maker : StatisticsOf(Base, n)' = IF n = m THEN None ELSE StatisticsOf(Base, n)
  BY <1>1, <1>3 DEF StatisticsOf, StatisticsAt, getMadeSPAux
<1>6. \A n \in Maker : StatisticsAt(getAAAMadeSPAux(Base, n))' =
        IF n = m /\ m \in AAA THEN StatisticsOf(Base, m) ELSE StatisticsAt(getAAAMadeSPAux(Base, n))
  BY <1>1, <1>4 DEF StatisticsOf, StatisticsAt, getMadeSPAux, getAAAMadeSPAux
<1>7. /\ (AllStatisticsOf(Base))' = [n \in Maker |-> StatisticsOf(Base, n)']
      /\ (AAAOf(Base))' = [n \in Maker |-> StatisticsAt(getAAAMadeSPAux(Base, n))']
  BY DEF AllStatisticsOf, AAAOf
<1> QED BY <1>5, <1>6, <1>7 DEF AllStatisticsOf, AAAOf

-----------------------------------------------------------------------------
(* A copy of a particle has copies of the statistics.                      *)

LEMMA CloneEffect ==
  ASSUME Steady, Statics, MakerTypes, NEW p \in Particle, NEW q \in Particle, Clone(p, q)
  PROVE  CloneDoes(p, q)
<1>0. Base \in Trace /\ Particle \subseteq Trace /\ Base \notin Particle /\ p \in Trace /\ q \in Trace
  BY BaseIsNoParticle DEF Trace
<1>1. /\ phase = "propose" /\ UNCHANGED <<phase, round, group, db, saved, aaa>>
      /\ live' = live \cup {q} /\ q \notin live /\ q \in Generation(group) /\ group > 1
      /\ p \in Generation(group - 1) /\ (Restores(q) => Restores(p))
      /\ aux' = [aux EXCEPT ![q] = [m \in Maker |-> IF aux[p][m] = None THEN None ELSE NewAux(q, m)]]
      /\ heap' = [b \in DOMAIN heap \cup {NewAux(q, m) : m \in {n \in Maker : aux[p][n] # None}} |->
                   IF \E m \in Maker : b = NewAux(q, m) THEN heap[aux[p][b[3]]] ELSE heap[b]]
      /\ sps' = [sps EXCEPT ![q] = sps[p]] /\ families' = [families EXCEPT ![q] = families[p]]
      /\ discarded' = [discarded EXCEPT ![q] = discarded[p]]
  BY DEF Clone, Parent, Copied
<1>2. /\ aux \in [Trace -> [Maker -> Maybe(Pointer)]] /\ aaa \in [Maker -> Maybe(Pointer)]
      /\ heap \in [DOMAIN heap -> Statistics] /\ DOMAIN heap \subseteq Pointer
      /\ sps \in [Trace -> [Maker -> Maybe(Proc)]] /\ discarded \in [Particle -> SUBSET AAA]
      /\ families \in [Trace -> [Maker -> [Id -> Maybe(Roots)]]]
      /\ round \in Nat /\ group \in Nat /\ None \notin Pointer
  BY NoneFacts DEF Statics, PointerTypes, MakerTypes, Steady, MoveTypes
<1>3. p \in live
  <2>1. Proposing BY <1>1 DEF Steady, Stages
  <2> QED BY <1>1, <2>1 DEF Proposing, Ended
<1>4. p # q BY <1>1, <1>3
<1>5. \A m \in Maker : aux[q][m] = None BY <1>1 DEF Steady, Stages, Recordless
<1>6. \A m \in Maker : NewAux(q, m) \in Pointer /\ NewAux(q, m)[3] = m /\ NewAux(q, m) \notin DOMAIN heap
  <2>1. \A m \in Maker : NewAux(q, m) \in Pointer /\ NewAux(q, m)[3] = m
    BY <1>0, <1>2 DEF NewAux, Pointer
  <2>2. \A m \in Maker : NewAux(q, m) \in DOMAIN heap => aux[q][m] = NewAux(q, m)
    BY <1>1 DEF Statics, OwnPointers
  <2> QED BY <1>2, <1>5, <2>1, <2>2
<1>7. /\ \A m \in Maker : aux'[q][m] = IF aux[p][m] = None THEN None ELSE NewAux(q, m)
      /\ \A u \in Trace : u # q => aux'[u] = aux[u] /\ sps'[u] = sps[u] /\ families'[u] = families[u]
      /\ \A u \in Particle : u # q => discarded'[u] = discarded[u]
      /\ sps'[q] = sps[p] /\ families'[q] = families[p] /\ discarded'[q] = discarded[p]
  BY <1>0, <1>1, <1>2
<1>8. \A m \in Maker : aux[p][m] # None => aux[p][m] \in DOMAIN heap
  BY DEF Statics, OwnPointers
<1>9. DOMAIN heap' = DOMAIN heap \cup {NewAux(q, m) : m \in {n \in Maker : aux[p][n] # None}}
  BY <1>1
<1>10. \A b \in DOMAIN heap : heap'[b] = heap[b] BY <1>1, <1>6
<1>11. \A m \in Maker : aux[p][m] # None =>
         NewAux(q, m) \in DOMAIN heap' /\ heap'[NewAux(q, m)] = heap[aux[p][m]] /\ aux[p][m] \in DOMAIN heap
  BY <1>1, <1>6, <1>8
<1>12. \A u, m : NewAux(u, m)' = NewAux(u, m) BY <1>1 DEF NewAux
<1>13. PointerTypes'
  <2>1. aux' \in [Trace -> [Maker -> Maybe(Pointer)]]
    <3>1. [m \in Maker |-> IF aux[p][m] = None THEN None ELSE NewAux(q, m)] \in [Maker -> Maybe(Pointer)]
      BY <1>6 DEF Maybe
    <3> QED BY <1>0, <1>1, <1>2, <3>1
  <2>2. DOMAIN heap' \subseteq Pointer BY <1>2, <1>6, <1>9
  <2>3. \A b \in DOMAIN heap' : heap'[b] \in Statistics
    <3>1. \A b \in DOMAIN heap : heap[b] \in Statistics BY <1>2
    <3>2. ASSUME NEW b \in DOMAIN heap' PROVE heap'[b] \in Statistics
      <4>1. CASE b \in DOMAIN heap BY <1>10, <3>1, <4>1
      <4>2. CASE b \notin DOMAIN heap
        <5>1. PICK m \in Maker : aux[p][m] # None /\ b = NewAux(q, m) BY <1>9, <4>2
        <5> QED BY <1>11, <3>1, <5>1
      <4> QED BY <4>1, <4>2
    <3> QED BY <3>2
  <2>4. heap' \in [DOMAIN heap' -> Statistics]
    <3>1. heap' = [b \in DOMAIN heap' |-> heap'[b]] BY <1>1
    <3> QED BY <2>3, <3>1
  <2> QED BY <1>1, <1>2, <2>1, <2>2, <2>4 DEF PointerTypes
<1> QED
  BY <1>0, <1>1, <1>3, <1>4, <1>5, <1>6, <1>7, <1>9, <1>10, <1>11, <1>12, <1>13 DEF CloneDoes

LEMMA CloneStatics ==
  ASSUME Steady, Statics, DBTypes, MakerTypes, NEW p \in Particle, NEW q \in Particle, Clone(p, q)
  PROVE  Statics'
<1>0. Base \in Trace /\ Particle \subseteq Trace /\ Base \notin Particle /\ p \in Trace /\ q \in Trace
      /\ \A t \in Trace : t # Base => t \in Particle
  BY BaseIsNoParticle DEF Trace
<1>1. CloneDoes(p, q) BY CloneEffect
<1> USE DEF CloneDoes
<1>2. round \in Nat /\ group \in Nat /\ group > 1 /\ NumNew \in Nat /\ None \notin Pointer
  <2>1. group > 1 BY DEF Clone
  <2> QED BY <2>1, TorusFacts, NoneFacts DEF Steady, MoveTypes
<1>3. MakersOK'
  <2>1. MakersOK BY DEF Statics
  <2>2. ASSUME NEW u \in Trace, NEW n \in Maker
        PROVE  /\ sps'[u][n] # None => aux'[u][n] # None
               /\ aux'[u][n] # None => getMadeSP(u, n)' # None
               /\ getMadeSP(u, n)' = None => families'[u][n] = [i \in Id |-> None]
    <3>1. sps'[Base] = sps[Base] BY <1>0, <1>1
    <3>2. CASE u # q
      <4>1. getMadeSP(u, n)' = getMadeSP(u, n) BY <1>1, <3>1, <3>2 DEF getMadeSP
      <4> QED BY <1>1, <2>1, <3>2, <4>1 DEF MakersOK
    <3>3. CASE u = q
      <4>1. getMadeSP(u, n)' = getMadeSP(p, n) BY <1>1, <3>1, <3>3 DEF getMadeSP
      <4>2. aux'[u][n] # None <=> aux[p][n] # None
        <5>1. NewAux(q, n) \in Pointer BY <1>0, <1>2 DEF NewAux, Pointer
        <5> QED BY <1>1, <1>2, <3>3, <5>1
      <4> QED BY <1>0, <1>1, <2>1, <3>3, <4>1, <4>2 DEF MakersOK
    <3> QED BY <3>2, <3>3
  <2>3. \A u \in Particle, n \in Maker : n \in AAA => (n \in discarded'[u] <=> sps'[u][n] # None)
    <3> SUFFICES ASSUME NEW u \in Particle, NEW n \in Maker,
                        n \in AAA PROVE n \in discarded'[u] <=> sps'[u][n] # None
      OBVIOUS
    <3>1. CASE u = q BY <1>1, <2>1, <3>1 DEF MakersOK
    <3>2. CASE u # q BY <1>0, <1>1, <2>1, <3>2 DEF MakersOK
    <3> QED BY <3>1, <3>2
  <2>4. /\ \A n \in Maker : aaa'[n] # None =>
             n \in AAA /\ sps'[Base][n] = None /\ \E j \in InTorus : Program[j] = Make(n)
        /\ \A n \in Maker : db'.aux[n] # None =>
             sps'[Base][n] = None /\ \E j \in InTorus : Program[j] = Make(n)
    BY <1>0, <1>1, <2>1 DEF MakersOK
  <2> QED BY <2>2, <2>3, <2>4 DEF MakersOK
<1>4. OldPointers'
  <2>1. OldPointers BY DEF Statics
  <2>2. \A b, n : PointsTo(b, n) => b \in DOMAIN heap' /\ b[3] = n /\ (phase' # "regen" => b[1] < round')
    BY <1>1 DEF PointsTo
  <2>3. \A n \in Maker :
          /\ aux'[Base][n] # None =>
               aux'[Base][n] \in DOMAIN heap' /\ aux'[Base][n][3] = n /\ (phase' # "regen" => aux'[Base][n][1] < round')
          /\ aaa'[n] # None =>
               aaa'[n] \in DOMAIN heap' /\ aaa'[n][3] = n /\ (phase' # "regen" => aaa'[n][1] < round')
          /\ db'.aux[n] # None =>
               db'.aux[n] \in DOMAIN heap' /\ db'.aux[n][3] = n /\ (phase' # "regen" => db'.aux[n][1] < round')
    <3>1. aux'[Base] = aux[Base] /\ aaa' = aaa /\ db' = db BY <1>0, <1>1
    <3> QED BY <2>1, <2>2, <3>1 DEF OldPointers
  <2>4. \A b \in DOMAIN heap' : b[1] <= round'
    <3>1. \A n \in Maker : NewAux(q, n)[1] = round BY DEF NewAux
    <3> QED BY <1>1, <1>2, <2>1, <3>1 DEF OldPointers
  <2>5. ~Running(Base)' BY <1>1 DEF Running
  <2> QED BY <1>1, <2>3, <2>4, <2>5 DEF OldPointers, PointsTo
<1>5. OwnPointers'
  <2>1. OwnPointers BY DEF Statics
  <2> SUFFICES ASSUME NEW u \in Particle, NEW n \in Maker
               PROVE  /\ aux'[u][n] # None => aux'[u][n] \in DOMAIN heap' /\ aux'[u][n][3] = n
                      /\ phase = "propose" =>
                           /\ aux'[u][n] # None => \/ aux'[u][n] = NewAux(u, n)
                                                   \/ n \in AAA /\ aux'[u][n] = aaa[n]
                                                   \/ Restores(u) /\ aux'[u][n] = db.aux[n]
                           /\ NewAux(u, n) \in DOMAIN heap' => aux'[u][n] = NewAux(u, n)
    BY <1>1 DEF OwnPointers
  <2>2. CASE u = q
    <3>1. NewAux(q, n) \in DOMAIN heap' => aux[p][n] # None
      <4> SUFFICES ASSUME NewAux(q, n) \in DOMAIN heap' PROVE aux[p][n] # None OBVIOUS
      <4>1. PICK m \in Maker : aux[p][m] # None /\ NewAux(q, n) = NewAux(q, m) BY <1>1
      <4>2. m = n BY <1>1, <4>1
      <4> QED BY <4>1, <4>2
    <3> QED BY <1>1, <2>2, <3>1
  <2>3. CASE u # q
    <3>1. aux'[u] = aux[u] BY <1>0, <1>1, <2>3
    <3>2. NewAux(u, n) \in DOMAIN heap' => NewAux(u, n) \in DOMAIN heap
      <4>1. \A m \in Maker : NewAux(u, n) # NewAux(q, m) BY <2>3 DEF NewAux
      <4> QED BY <1>1, <4>1
    <3> QED BY <1>1, <2>1, <3>1, <3>2 DEF OwnPointers
  <2> QED BY <2>2, <2>3
<1>6. \A m \in Maker : Taken(m) => Taken(m)'
  <2>1. Restoring' = IF <<group, NumNew>> \in live' THEN <<group, NumNew>> ELSE <<group - 1, NumNew>>
    BY <1>1 DEF Restoring
  <2>2. CASE Restoring' = Restoring
    <3>1. PICK r : r = Restoring OBVIOUS
    <3>2. Restoring' = r /\ Restoring = r BY <2>2, <3>1
    <3>3. r \in live => r \in Trace /\ r # q BY <1>0, <1>1 DEF Steady
    <3> QED BY <1>1, <3>2, <3>3 DEF Taken
  <2>3. CASE Restoring' # Restoring
    <3>1. q = <<group, NumNew>> /\ Restoring = <<group - 1, NumNew>> /\ Restoring' = q
      BY <1>1, <2>1, <2>3 DEF Restoring
    <3>2. Restores(q) BY <1>0, <3>1 DEF Restores
    <3>3. p = <<group - 1, NumNew>>
      <4>1. p[2] = NumNew /\ p \in {group - 1} \X (0..NumNew)
        BY <1>1, <3>2 DEF Restores, Generation
      <4> QED BY <4>1
    <3> QED BY <1>1, <3>1, <3>3 DEF Taken
  <2> QED BY <2>2, <2>3
<1>7. SetAside'
  <2>1. SetAside /\ OldPointers BY DEF Statics
  <2>2. \A n \in Maker : db'.aux[n] = None <=> saved'[n] = None
    BY <1>1, <2>1 DEF SetAside
  <2>3. \A n \in Maker : db.aux[n] # None => heap'[db.aux[n]] = saved[n] \/ Taken(n)'
    BY <1>1, <1>6, <2>1 DEF SetAside, OldPointers, PointsTo
  <2>4. \A n \in Maker : db.aux[n] # None => db.aux[n] \in DOMAIN heap
    BY <2>1 DEF OldPointers, PointsTo
  <2>5. ASSUME NEW u \in Particle, NEW n \in Maker, n \notin AAA, db.aux[n] # None, aux'[u][n] = db.aux[n]
        PROVE  Taken(n)' /\ \A v \in Particle : aux'[v][n] = db.aux[n] => v = u
    <3>1. \A v \in Particle : aux'[v][n] = db.aux[n] => v # q /\ aux[v][n] = db.aux[n]
      BY <1>0, <1>1, <2>4, <2>5
    <3>2. Taken(n) /\ \A v \in Particle : aux[v][n] = db.aux[n] => v = u
      BY <1>1, <2>1, <2>5, <3>1 DEF SetAside
    <3> QED BY <1>6, <3>1, <3>2
  <2> QED BY <1>1, <2>2, <2>3, <2>5 DEF SetAside
<1> QED BY <1>1, <1>3, <1>4, <1>5, <1>7 DEF Statics

LEMMA CloneShows ==
  ASSUME Steady, Statics, MakerTypes, NEW p \in Particle, NEW q \in Particle, Clone(p, q)
  PROVE  \A w \in Trace :
           /\ (AllStatisticsOf(w))' = AllStatisticsOf(IF w = q THEN p ELSE w)
           /\ (AAAOf(w))' = AAAOf(IF w = q THEN p ELSE w)
<1>0. Base \in Trace /\ Particle \subseteq Trace /\ Base \notin Particle /\ p \in Trace /\ q \in Trace
      /\ \A t \in Trace : t # Base => t \in Particle
  BY BaseIsNoParticle DEF Trace
<1>1. CloneDoes(p, q) BY CloneEffect
<1> USE DEF CloneDoes
<1>2. /\ \A u \in Trace, n \in Maker : aux[u][n] # None => aux[u][n] \in DOMAIN heap
      /\ \A n \in Maker : aaa[n] # None => aaa[n] \in DOMAIN heap
      /\ None \notin Pointer
  BY <1>0, NoneFacts DEF Statics, OldPointers, OwnPointers, PointsTo, Trace
<1>3. \A b : (b = None \/ b \in DOMAIN heap) => StatisticsAt(b)' = StatisticsAt(b)
  BY <1>1 DEF StatisticsAt
<1>4. ASSUME NEW w \in Trace, NEW n \in Maker
      PROVE  StatisticsOf(w, n)' = StatisticsOf(IF w = q THEN p ELSE w, n)
  <2>1. aux'[Base] = aux[Base] BY <1>0, <1>1
  <2>2. CASE w # q
    <3>1. PICK b : b = getMadeSPAux(w, n) OBVIOUS
    <3>2. getMadeSPAux(w, n)' = b /\ (b = None \/ b \in DOMAIN heap)
      BY <1>0, <1>1, <1>2, <2>1, <2>2, <3>1 DEF getMadeSPAux
    <3> QED BY <1>3, <2>2, <3>1, <3>2 DEF StatisticsOf, StatisticsAt
  <2>3. CASE w = q /\ aux[p][n] = None
    <3>1. PICK b : b = aux[Base][n] OBVIOUS
    <3>2. getMadeSPAux(w, n)' = b /\ getMadeSPAux(p, n) = b /\ (b = None \/ b \in DOMAIN heap)
      BY <1>0, <1>1, <1>2, <2>1, <2>3, <3>1 DEF getMadeSPAux
    <3> QED BY <1>3, <2>3, <3>2 DEF StatisticsOf, StatisticsAt
  <2>4. CASE w = q /\ aux[p][n] # None
    <3>1. PICK b : b = NewAux(q, n) OBVIOUS
    <3>2. b # None /\ aux'[w][n] = b /\ heap'[b] = heap[aux[p][n]]
      <4>1. NewAux(q, n) \in Pointer BY <1>0 DEF NewAux, Pointer, Steady, MoveTypes
      <4> QED BY <1>1, <1>2, <2>4, <3>1, <4>1
    <3>3. StatisticsOf(w, n)' = heap'[b]
      BY <3>2 DEF StatisticsOf, StatisticsAt, getMadeSPAux
    <3>4. StatisticsOf(p, n) = heap[aux[p][n]]
      BY <2>4 DEF StatisticsOf, StatisticsAt, getMadeSPAux
    <3> QED BY <2>4, <3>2, <3>3, <3>4
  <2> QED BY <2>2, <2>3, <2>4
<1>5. ASSUME NEW w \in Trace, NEW n \in Maker
      PROVE  StatisticsAt(getAAAMadeSPAux(w, n))' = StatisticsAt(getAAAMadeSPAux(IF w = q THEN p ELSE w, n))
  <2>1. PICK b : b = getAAAMadeSPAux(IF w = q THEN p ELSE w, n) OBVIOUS
  <2>2. getAAAMadeSPAux(w, n)' = b /\ (b = None \/ b \in DOMAIN heap)
    BY <1>0, <1>1, <1>2, <2>1 DEF getAAAMadeSPAux
  <2> QED BY <1>3, <2>1, <2>2 DEF StatisticsAt
<1>6. ASSUME NEW w \in Trace
      PROVE  /\ (AllStatisticsOf(w))' = [n \in Maker |-> StatisticsOf(w, n)']
             /\ (AAAOf(w))' = [n \in Maker |-> StatisticsAt(getAAAMadeSPAux(w, n))']
  BY DEF AllStatisticsOf, AAAOf
<1> QED BY <1>4, <1>5, <1>6 DEF AllStatisticsOf, AAAOf

-----------------------------------------------------------------------------
(* The particles of a generation that is complete keep what they have.     *)

LEMMA AdvanceEffect ==
  ASSUME Steady, Statics, DBTypes, MakerTypes, Advance
  PROVE  \E gone : AdvanceDoes(gone)
<1>0. Base \in Trace /\ Particle \subseteq Trace BY BaseIsNoParticle DEF Trace
<1>1. PICK gone : gone = live \ Generation(group) OBVIOUS
<1>2. /\ phase = "propose" /\ UNCHANGED <<phase, round, db, saved, aaa>> /\ group' = group + 1
      /\ live' = live \ gone
      /\ group <= Len(Ends) /\ \A p \in Generation(group) : Ended(p)
      /\ aux' = Blank(aux, gone, [m \in Maker |-> None]) /\ sps' = Blank(sps, gone, [m \in Maker |-> None])
      /\ families' = Blank(families, gone, [m \in Maker |-> [i \in Id |-> None]])
      /\ heap' = Kept(Referenced(gone)) /\ discarded' = Blank(discarded, gone, {})
  BY <1>1 DEF Advance, DropOverlays
<1>3. /\ aux \in [Trace -> [Maker -> Maybe(Pointer)]] /\ aaa \in [Maker -> Maybe(Pointer)]
      /\ heap \in [DOMAIN heap -> Statistics] /\ DOMAIN heap \subseteq Pointer
      /\ sps \in [Trace -> [Maker -> Maybe(Proc)]] /\ discarded \in [Particle -> SUBSET AAA]
      /\ families \in [Trace -> [Maker -> [Id -> Maybe(Roots)]]] /\ live \subseteq Particle
  BY DEF Statics, PointerTypes, MakerTypes, Steady
<1>4. gone \subseteq Particle /\ group \in 1 .. Len(Ends) /\ Generation(group) \subseteq live
      /\ <<group, NumNew>> \in Generation(group)
  <2>1. Proposing BY <1>2 DEF Steady, Stages
  <2>2. group \in 1 .. Len(Ends) + 1 BY <2>1 DEF Proposing
  <2> QED BY <1>1, <1>2, <1>3, <2>2, TorusFacts DEF Generation, Ended
<1>5. /\ \A u \in Trace \ gone : aux'[u] = aux[u] /\ sps'[u] = sps[u] /\ families'[u] = families[u]
      /\ \A u \in Particle \ gone : discarded'[u] = discarded[u]
      /\ \A u \in gone : /\ aux'[u] = [m \in Maker |-> None] /\ sps'[u] = [m \in Maker |-> None]
                         /\ families'[u] = [m \in Maker |-> [i \in Id |-> None]] /\ discarded'[u] = {}
  BY <1>0, <1>2, <1>3, <1>4 DEF Blank
<1>6. /\ DOMAIN heap' = DOMAIN heap \cap Referenced(gone) /\ \A b \in DOMAIN heap' : heap'[b] = heap[b]
      /\ heap' \in [DOMAIN heap' -> Statistics]
  BY <1>2, <1>3 DEF Kept
<1>7. /\ \A u \in Trace \ gone, m \in Maker : aux[u][m] \in Referenced(gone)
      /\ \A m \in Maker : aaa[m] \in Referenced(gone) /\ db.aux[m] \in Referenced(gone)
  BY DEF Referenced, Pointers
<1>10. \A b \in Referenced(gone) : \/ \E u \in Trace \ gone, m \in Maker : b = aux[u][m]
                                   \/ \E m \in Maker : b = aaa[m] \/ b = db.aux[m]
  <2> SUFFICES ASSUME NEW b \in Referenced(gone)
               PROVE  \/ \E u \in Trace \ gone, m \in Maker : b = aux[u][m]
                      \/ \E m \in Maker : b = aaa[m] \/ b = db.aux[m]
    OBVIOUS
  <2>1. b \in Pointers(aaa) \/ b \in Pointers(db.aux) \/ \E u \in Trace \ gone : b \in Pointers(aux[u])
    BY DEF Referenced
  <2> QED BY <2>1 DEF Pointers
<1>11. /\ DOMAIN heap' \subseteq DOMAIN heap /\ \A b \in DOMAIN heap' : heap'[b] = heap[b]
       /\ \A u \in Trace \ gone, m \in Maker : aux[u][m] \in DOMAIN heap => aux[u][m] \in DOMAIN heap'
       /\ \A m \in Maker : /\ aaa[m] \in DOMAIN heap => aaa[m] \in DOMAIN heap'
                           /\ db.aux[m] \in DOMAIN heap => db.aux[m] \in DOMAIN heap'
       /\ \A b \in DOMAIN heap' : \/ \E u \in Trace \ gone, m \in Maker : b = aux[u][m]
                                  \/ \E m \in Maker : b = aaa[m] \/ b = db.aux[m]
  <2>1. /\ DOMAIN heap' \subseteq DOMAIN heap /\ \A b \in DOMAIN heap' : heap'[b] = heap[b]
        /\ \A b \in Referenced(gone) : b \in DOMAIN heap => b \in DOMAIN heap'
        /\ \A b \in DOMAIN heap' : b \in Referenced(gone)
    BY <1>6
  <2> QED BY <1>7, <1>10, <2>1
<1>8. aux' \in [Trace -> [Maker -> Maybe(Pointer)]]
  <2>1. [m \in Maker |-> None] \in [Maker -> Maybe(Pointer)] BY BlankTable
  <2> QED BY <1>2, <1>3, <2>1, BlankTyped
<1>9. PointerTypes' BY <1>2, <1>3, <1>6, <1>8 DEF PointerTypes
<1> WITNESS gone
<1> QED BY <1>1, <1>2, <1>4, <1>5, <1>9, <1>11 DEF AdvanceDoes

LEMMA AdvanceStatics ==
  ASSUME Steady, Statics, DBTypes, MakerTypes, Advance
  PROVE  Statics'
<1>0. Base \in Trace /\ Particle \subseteq Trace /\ Base \notin Particle
      /\ \A t \in Trace : t # Base => t \in Particle
  BY BaseIsNoParticle DEF Trace
<1>1. PICK gone : AdvanceDoes(gone) BY AdvanceEffect
<1> USE DEF AdvanceDoes
<1>2. round \in Nat /\ group \in Nat /\ NumNew \in Nat /\ None \notin Pointer
  BY TorusFacts, NoneFacts DEF Steady, MoveTypes
<1>3. Base \in Trace \ gone /\ \A u \in Trace : u \in gone \/ u \in Trace \ gone
  BY <1>0, <1>1
<1>4. MakersOK'
  <2>1. MakersOK BY DEF Statics
  <2>2. ASSUME NEW u \in Trace, NEW n \in Maker
        PROVE  /\ sps'[u][n] # None => aux'[u][n] # None
               /\ aux'[u][n] # None => getMadeSP(u, n)' # None
               /\ getMadeSP(u, n)' = None => families'[u][n] = [i \in Id |-> None]
    <3>1. CASE u \in gone BY <1>1, <3>1
    <3>2. CASE u \notin gone
      <4>1. getMadeSP(u, n)' = getMadeSP(u, n) BY <1>1, <1>3, <3>2 DEF getMadeSP
      <4> QED BY <1>1, <2>1, <3>2, <4>1 DEF MakersOK
    <3> QED BY <3>1, <3>2
  <2>3. ASSUME NEW u \in Particle, NEW n \in Maker, n \in AAA PROVE n \in discarded'[u] <=> sps'[u][n] # None
    <3>1. CASE u \in gone BY <1>1, <3>1
    <3>2. CASE u \notin gone BY <1>0, <1>1, <2>1, <2>3, <3>2 DEF MakersOK
    <3> QED BY <3>1, <3>2
  <2>4. /\ \A n \in Maker : aaa'[n] # None =>
             n \in AAA /\ sps'[Base][n] = None /\ \E j \in InTorus : Program[j] = Make(n)
        /\ \A n \in Maker : db'.aux[n] # None =>
             sps'[Base][n] = None /\ \E j \in InTorus : Program[j] = Make(n)
    BY <1>1, <1>3, <2>1 DEF MakersOK
  <2> QED BY <2>2, <2>3, <2>4 DEF MakersOK
<1>5. OldPointers'
  <2>1. OldPointers BY DEF Statics
  <2>2. \A b, n : PointsTo(b, n) /\ b \in DOMAIN heap' => b \in DOMAIN heap' /\ b[3] = n
        /\ (phase' # "regen" => b[1] < round')
    BY <1>1 DEF PointsTo
  <2>3. \A n \in Maker :
          /\ aux'[Base][n] # None =>
               aux'[Base][n] \in DOMAIN heap' /\ aux'[Base][n][3] = n /\ (phase' # "regen" => aux'[Base][n][1] < round')
          /\ aaa'[n] # None =>
               aaa'[n] \in DOMAIN heap' /\ aaa'[n][3] = n /\ (phase' # "regen" => aaa'[n][1] < round')
          /\ db'.aux[n] # None =>
               db'.aux[n] \in DOMAIN heap' /\ db'.aux[n][3] = n /\ (phase' # "regen" => db'.aux[n][1] < round')
    <3>1. aux'[Base] = aux[Base] /\ aaa' = aaa /\ db' = db BY <1>1, <1>3
    <3>2. \A b, n : PointsTo(b, n) => b \in DOMAIN heap BY DEF PointsTo
    <3> QED BY <1>1, <1>3, <2>1, <2>2, <3>1, <3>2 DEF OldPointers
  <2>4. \A b \in DOMAIN heap' : b[1] <= round' BY <1>1, <2>1 DEF OldPointers
  <2>5. ~Running(Base)' BY <1>1 DEF Running
  <2> QED BY <1>1, <2>3, <2>4, <2>5 DEF OldPointers, PointsTo
<1>6. OwnPointers'
  <2>1. OwnPointers /\ OldPointers BY DEF Statics
  <2>2. \A u, m : NewAux(u, m)' = NewAux(u, m) BY <1>1 DEF NewAux
  <2> SUFFICES ASSUME NEW u \in Particle, NEW n \in Maker
               PROVE  /\ aux'[u][n] # None => aux'[u][n] \in DOMAIN heap' /\ aux'[u][n][3] = n
                      /\ phase = "propose" =>
                           /\ aux'[u][n] # None => \/ aux'[u][n] = NewAux(u, n)
                                                   \/ n \in AAA /\ aux'[u][n] = aaa[n]
                                                   \/ Restores(u) /\ aux'[u][n] = db.aux[n]
                           /\ NewAux(u, n) \in DOMAIN heap' => aux'[u][n] = NewAux(u, n)
    BY <1>1, <2>2 DEF OwnPointers
  <2>3. CASE u \notin gone BY <1>0, <1>1, <2>1, <2>3 DEF OwnPointers
  <2>4. CASE u \in gone
    <3>1. NewAux(u, n) \notin DOMAIN heap'
      <4> SUFFICES ASSUME NewAux(u, n) \in DOMAIN heap' PROVE FALSE OBVIOUS
      <4>1. NewAux(u, n)[1] = round /\ NewAux(u, n) \in Pointer /\ NewAux(u, n) # None
        BY <1>0, <1>2 DEF NewAux, Pointer
      <4>2. \A m \in Maker : NewAux(u, n) # aaa[m] /\ NewAux(u, n) # db.aux[m] /\ NewAux(u, n) # aux[Base][m]
        BY <1>1, <1>2, <2>1, <4>1 DEF OldPointers, PointsTo
      <4>3. PICK v \in Trace \ gone, m \in Maker : NewAux(u, n) = aux[v][m]
        BY <1>1, <4>2
      <4>4. v \in Particle /\ v # u BY <1>0, <2>4, <4>2, <4>3
      <4>5. aux[v][m] = NewAux(v, m)
        BY <1>1, <2>1, <4>1, <4>2, <4>3, <4>4 DEF OwnPointers
      <4> QED BY <4>3, <4>4, <4>5 DEF NewAux
    <3> QED BY <1>1, <2>4, <3>1
  <2> QED BY <2>3, <2>4
<1>7. \A m \in Maker : Taken(m)' = Taken(m)
  <2>1. Restoring = <<group, NumNew>> /\ <<group, NumNew>> \in live
    BY <1>1 DEF Restoring
  <2>2. <<group + 1, NumNew>> \notin live' BY <1>1, <1>2 DEF Generation
  <2>3. Restoring' = <<group, NumNew>> BY <1>1, <1>2, <2>2 DEF Restoring
  <2>4. <<group, NumNew>> \notin gone /\ <<group, NumNew>> \in Trace
    BY <1>0, <1>1, <2>1 DEF Steady
  <2> QED BY <1>1, <2>1, <2>3, <2>4 DEF Taken
<1>8. SetAside'
  <2>1. SetAside /\ OldPointers BY DEF Statics
  <2>2. \A n \in Maker : db'.aux[n] = None <=> saved'[n] = None
    BY <1>1, <2>1 DEF SetAside
  <2>3. \A n \in Maker : db.aux[n] # None => heap'[db.aux[n]] = saved[n] \/ Taken(n)'
    BY <1>1, <1>7, <2>1 DEF SetAside, OldPointers, PointsTo
  <2>5. ASSUME NEW u \in Particle, NEW n \in Maker, n \notin AAA, db.aux[n] # None, aux'[u][n] = db.aux[n]
        PROVE  Taken(n)' /\ \A v \in Particle : aux'[v][n] = db.aux[n] => v = u
    <3>1. \A v \in Particle : aux'[v][n] = db.aux[n] => aux[v][n] = db.aux[n]
      BY <1>0, <1>1, <2>5
    <3>2. Taken(n) /\ \A v \in Particle : aux[v][n] = db.aux[n] => v = u
      BY <1>1, <2>1, <2>5, <3>1 DEF SetAside
    <3> QED BY <1>7, <3>1, <3>2
  <2> QED BY <1>1, <2>2, <2>3, <2>5 DEF SetAside
<1> QED BY <1>1, <1>4, <1>5, <1>6, <1>8 DEF Statics

LEMMA AdvanceShows ==
  ASSUME Steady, Statics, DBTypes, MakerTypes, Advance
  PROVE  \A w \in Trace \ (live \ Generation(group)) :
           (AllStatisticsOf(w))' = AllStatisticsOf(w) /\ (AAAOf(w))' = AAAOf(w)
<1>0. Base \in Trace /\ Base \notin Particle /\ \A t \in Trace : t # Base => t \in Particle
  BY BaseIsNoParticle
<1>1. PICK gone : AdvanceDoes(gone) BY AdvanceEffect
<1> USE DEF AdvanceDoes
<1>2. /\ \A u \in Trace, n \in Maker : aux[u][n] # None => aux[u][n] \in DOMAIN heap
      /\ \A n \in Maker : aaa[n] # None => aaa[n] \in DOMAIN heap
  BY <1>0 DEF Statics, OldPointers, OwnPointers, PointsTo
<1>3. \A b : (b = None \/ b \in DOMAIN heap') => StatisticsAt(b)' = StatisticsAt(b)
  BY <1>1 DEF StatisticsAt
<1>4. ASSUME NEW w \in Trace \ gone, NEW n \in Maker
      PROVE  StatisticsOf(w, n)' = StatisticsOf(w, n)
  <2>1. PICK b : b = getMadeSPAux(w, n) OBVIOUS
  <2>2. getMadeSPAux(w, n)' = b /\ (b = None \/ b \in DOMAIN heap')
    BY <1>0, <1>1, <1>2, <2>1 DEF getMadeSPAux
  <2> QED BY <1>3, <2>1, <2>2 DEF StatisticsOf, StatisticsAt
<1>5. ASSUME NEW w \in Trace \ gone, NEW n \in Maker
      PROVE  StatisticsAt(getAAAMadeSPAux(w, n))' = StatisticsAt(getAAAMadeSPAux(w, n))
  <2>1. PICK b : b = getAAAMadeSPAux(w, n) OBVIOUS
  <2>2. getAAAMadeSPAux(w, n)' = b /\ (b = None \/ b \in DOMAIN heap')
    BY <1>0, <1>1, <1>2, <2>1 DEF getAAAMadeSPAux
  <2> QED BY <1>3, <2>1, <2>2 DEF StatisticsAt
<1> QED BY <1>1, <1>4, <1>5 DEF AllStatisticsOf, AAAOf

-----------------------------------------------------------------------------
(* What is committed is all that is kept.                                  *)

LEMMA CommitRestEffect ==
  ASSUME Steady, Statics, MakerTypes, Committing, CommitRest
  PROVE  \E p \in Particle : CommitRestDoes(p)
<1>0. Base \in Trace /\ Particle \subseteq Trace /\ Base \notin Particle
  BY BaseIsNoParticle DEF Trace
<1>1. PICK p \in Particle : p = committing BY DEF CommitRest, Committing
<1>2. /\ phase = "commit" /\ phase' = "regen" /\ live' = {} /\ group' = 0 /\ UNCHANGED <<round, db, saved>>
      /\ db = NoDB /\ saved = [m \in Maker |-> None]
  BY DEF CommitRest, Steady, Stages
<1>3. /\ at' = Merged(at, Len(Program), 0)
      /\ sps'         = Merged(sps, Overlaid(sps, p), [m \in Maker |-> None])
      /\ families'    = Merged(families, FamiliesOf(p), [m \in Maker |-> [i \in Id |-> None]])
      /\ aux'         = Merged(aux, Overlaid(aux, p), [m \in Maker |-> None])
      /\ aaa'         = [m \in Maker |-> IF m \in discarded[p] THEN None ELSE aaa[m]]
      /\ heap'        = Kept(Pointers(Overlaid(aux, p)) \cup Pointers(aaa'))
      /\ discarded' = Blank(discarded, Particle, {})
  BY <1>1 DEF CommitRest, DropOverlays
<1>4. /\ aux \in [Trace -> [Maker -> Maybe(Pointer)]] /\ aaa \in [Maker -> Maybe(Pointer)]
      /\ heap \in [DOMAIN heap -> Statistics] /\ DOMAIN heap \subseteq Pointer
      /\ sps \in [Trace -> [Maker -> Maybe(Proc)]] /\ discarded \in [Particle -> SUBSET AAA]
      /\ families \in [Trace -> [Maker -> [Id -> Maybe(Roots)]]] /\ at \in [Trace -> Nat]
  BY DEF Statics, PointerTypes, MakerTypes, Steady, MoveTypes
<1>5. Overlaid(aux, p) \in [Maker -> Maybe(Pointer)] BY <1>0, <1>4, OverlaidTyped
<1>6. /\ \A m \in Maker : Overlaid(aux, p)[m] = getMadeSPAux(p, m)
      /\ \A m \in Maker : Overlaid(sps, p)[m] = getMadeSP(p, m)
  BY <1>0, <1>4 DEF Overlaid, getMadeSPAux, getMadeSP
<1>7. /\ aux'[Base] = Overlaid(aux, p) /\ sps'[Base] = Overlaid(sps, p) /\ at'[Base] = Len(Program)
      /\ families'[Base] = [m \in Maker |-> [i \in Id |-> getMadeSPFamilyRoot(p, m, i)]]
      /\ \A u \in Particle : /\ aux'[u] = [m \in Maker |-> None] /\ sps'[u] = [m \in Maker |-> None]
                             /\ families'[u] = [m \in Maker |-> [i \in Id |-> None]] /\ discarded'[u] = {}
  BY <1>0, <1>3, <1>4 DEF Merged, Blank, FamiliesOf
<1>8. aux' \in [Trace -> [Maker -> Maybe(Pointer)]]
  <2>1. [m \in Maker |-> None] \in [Maker -> Maybe(Pointer)] BY BlankTable
  <2> QED BY <1>3, <1>4, <1>5, <2>1, MergedTyped
<1>9. /\ aaa' \in [Maker -> Maybe(Pointer)]
      /\ \A m \in Maker : aaa'[m] = IF m \in discarded[p] THEN None ELSE aaa[m]
  BY <1>3, <1>4 DEF Maybe
<1>10. /\ DOMAIN heap' \subseteq DOMAIN heap /\ \A b \in DOMAIN heap' : heap'[b] = heap[b]
       /\ heap' \in [DOMAIN heap' -> Statistics]
       /\ \A m \in Maker : /\ aaa'[m] \in DOMAIN heap => aaa'[m] \in DOMAIN heap'
                           /\ Overlaid(aux, p)[m] \in DOMAIN heap => Overlaid(aux, p)[m] \in DOMAIN heap'
  <2>1. PICK f : f = Overlaid(aux, p) OBVIOUS
  <2>2. PICK P : P = Pointers(f) \cup Pointers(aaa') OBVIOUS
  <2>3. heap' = [b \in DOMAIN heap \cap P |-> heap[b]] BY <1>3, <2>1, <2>2 DEF Kept
  <2>4. \A m \in Maker : aaa'[m] \in P /\ f[m] \in P BY <2>2 DEF Pointers
  <2>5. /\ DOMAIN heap' = DOMAIN heap \cap P /\ \A b \in DOMAIN heap' : heap'[b] = heap[b]
        /\ heap' \in [DOMAIN heap' -> Statistics]
    BY <1>4, <2>3
  <2> QED BY <2>1, <2>4, <2>5
<1>11. PointerTypes' BY <1>4, <1>8, <1>9, <1>10 DEF PointerTypes
<1> QED BY <1>1, <1>2, <1>6, <1>7, <1>9, <1>10, <1>11 DEF CommitRestDoes

LEMMA CommitRestStatics ==
  ASSUME Steady, Statics, MakerTypes, Committing, CommitRest
  PROVE  Statics'
<1>0. Base \in Trace /\ Particle \subseteq Trace /\ Base \notin Particle
      /\ \A t \in Trace : t # Base => t \in Particle
  BY BaseIsNoParticle DEF Trace
<1>1. PICK p \in Particle : CommitRestDoes(p) BY CommitRestEffect
<1> USE DEF CommitRestDoes
<1>2. \A u \in Trace, n \in Maker : aux[u][n] # None => aux[u][n] \in DOMAIN heap /\ aux[u][n][3] = n
  BY <1>0 DEF Statics, OldPointers, OwnPointers, PointsTo
<1>3. \A n \in Maker : getMadeSPAux(p, n) # None => getMadeSPAux(p, n) \in DOMAIN heap
      /\ getMadeSPAux(p, n)[3] = n
  BY <1>0, <1>1, <1>2 DEF getMadeSPAux
<1>4. MakersOK'
  <2>1. MakersOK BY DEF Statics
  <2>2. \A u \in Trace, n \in Maker : getMadeSP(u, n)' = getMadeSP(p, n)
    BY <1>0, <1>1 DEF getMadeSP
  <2>3. ASSUME NEW u \in Trace, NEW n \in Maker
        PROVE  /\ sps'[u][n] # None => aux'[u][n] # None
               /\ aux'[u][n] # None => getMadeSP(u, n)' # None
               /\ getMadeSP(u, n)' = None => families'[u][n] = [i \in Id |-> None]
    <3>1. CASE u # Base BY <1>0, <1>1, <3>1
    <3>2. CASE u = Base
      <4>1. /\ getMadeSP(p, n) # None <=> getMadeSPAux(p, n) # None
        BY <1>0, <1>1, <2>1 DEF MakersOK, getMadeSP, getMadeSPAux
      <4>2. getMadeSP(p, n) = None => \A i \in Id : getMadeSPFamilyRoot(p, n, i) = None
        <5>1. getMadeSP(p, n) = None => getMadeSP(Base, n) = None BY DEF getMadeSP
        <5>2. getMadeSP(p, n) = None => families[p][n] = [i \in Id |-> None] /\ families[Base][n] = [i \in Id |-> None]
          BY <1>0, <1>1, <2>1, <5>1 DEF MakersOK
        <5> QED BY <5>2 DEF getMadeSPFamilyRoot
      <4>3. families'[u][n] = [i \in Id |-> getMadeSPFamilyRoot(p, n, i)] BY <1>1, <3>2
      <4>4. getMadeSP(u, n)' = getMadeSP(p, n) /\ sps'[u][n] = getMadeSP(p, n)
            /\ aux'[u][n] = getMadeSPAux(p, n)
        BY <1>0, <1>1, <2>2, <3>2
      <4> QED BY <4>1, <4>2, <4>3, <4>4
    <3> QED BY <3>1, <3>2
  <2>4. \A u \in Particle, n \in Maker : n \in AAA => (n \in discarded'[u] <=> sps'[u][n] # None)
    BY <1>1
  <2>5. ASSUME NEW n \in Maker, aaa'[n] # None
        PROVE  n \in AAA /\ sps'[Base][n] = None /\ \E j \in InTorus : Program[j] = Make(n)
    <3>1. aaa[n] # None /\ n \notin discarded[p] BY <1>1, <2>5
    <3>2. n \in AAA /\ sps[Base][n] = None /\ \E j \in InTorus : Program[j] = Make(n)
      BY <2>1, <3>1 DEF MakersOK
    <3>3. sps[p][n] = None BY <1>1, <2>1, <3>1, <3>2 DEF MakersOK
    <3>4. getMadeSP(p, n) = None BY <3>2, <3>3 DEF getMadeSP
    <3> QED BY <1>1, <3>2, <3>4
  <2>6. \A n \in Maker : db'.aux[n] = None BY <1>1 DEF NoDB
  <2> QED BY <2>3, <2>4, <2>5, <2>6 DEF MakersOK
<1>5. OldPointers'
  <2>1. OldPointers BY DEF Statics
  <2>2. \A n \in Maker : aux'[Base][n] # None => aux'[Base][n] \in DOMAIN heap' /\ aux'[Base][n][3] = n
    BY <1>1, <1>3
  <2>3. \A n \in Maker : aaa'[n] # None => aaa'[n] \in DOMAIN heap' /\ aaa'[n][3] = n
    BY <1>1, <2>1 DEF OldPointers, PointsTo
  <2>4. \A n \in Maker : db'.aux[n] = None BY <1>1 DEF NoDB
  <2>5. \A b \in DOMAIN heap' : b[1] <= round' BY <1>1, <2>1 DEF OldPointers
  <2>6. ~Running(Base)' BY <1>1, TorusFacts DEF Running
  <2> QED BY <1>1, <2>2, <2>3, <2>4, <2>5, <2>6 DEF OldPointers, PointsTo
<1>6. OwnPointers' BY <1>1 DEF OwnPointers
<1>7. SetAside' BY <1>1 DEF SetAside, NoDB
<1> QED BY <1>1, <1>4, <1>5, <1>6, <1>7 DEF Statics

LEMMA CommitRestShows ==
  ASSUME Steady, Statics, MakerTypes, Committing, CommitRest
  PROVE  (AllStatisticsOf(Base))' = AllStatisticsOf(committing) /\ (AAAOf(Base))' = AAAOf(committing)
<1>0. Base \in Trace /\ Particle \subseteq Trace /\ Base \notin Particle
      /\ \A t \in Trace : t # Base => t \in Particle
  BY BaseIsNoParticle DEF Trace
<1>1. PICK p \in Particle : CommitRestDoes(p) BY CommitRestEffect
<1> USE DEF CommitRestDoes
<1>2. /\ \A u \in Trace, n \in Maker : aux[u][n] # None => aux[u][n] \in DOMAIN heap
      /\ \A n \in Maker : aaa[n] # None => aaa[n] \in DOMAIN heap
  BY <1>0 DEF Statics, OldPointers, OwnPointers, PointsTo
<1>3. \A b : (b = None \/ b \in DOMAIN heap') => StatisticsAt(b)' = StatisticsAt(b)
  BY <1>1 DEF StatisticsAt
<1>4. ASSUME NEW n \in Maker PROVE StatisticsOf(Base, n)' = StatisticsOf(p, n)
  <2>1. PICK b : b = getMadeSPAux(p, n) OBVIOUS
  <2>2. getMadeSPAux(Base, n)' = b /\ (b = None \/ b \in DOMAIN heap')
    BY <1>0, <1>1, <1>2, <2>1 DEF getMadeSPAux
  <2> QED BY <1>3, <2>1, <2>2 DEF StatisticsOf, StatisticsAt
<1>5. ASSUME NEW n \in Maker
      PROVE  StatisticsAt(getAAAMadeSPAux(Base, n))' = StatisticsAt(getAAAMadeSPAux(p, n))
  <2>1. PICK b : b = getAAAMadeSPAux(p, n) OBVIOUS
  <2>2. getAAAMadeSPAux(Base, n)' = b /\ (b = None \/ b \in DOMAIN heap')
    BY <1>0, <1>1, <1>2, <2>1 DEF getAAAMadeSPAux
  <2> QED BY <1>3, <2>1, <2>2 DEF StatisticsAt
<1> QED BY <1>1, <1>4, <1>5 DEF AllStatisticsOf, AAAOf

-----------------------------------------------------------------------------
LEMMA RecordlessStays ==
  ASSUME NEW t \in Trace, Untouched(t), NEW p \in Particle, p # t, Recordless(p)
  PROVE  Recordless(p)'
<1>1. p \in Trace BY BaseIsNoParticle DEF Trace
<1>2. /\ ucs'[p] = ucs[p] /\ ccs'[p] = ccs[p] /\ values'[p] = values[p] /\ esrRoots'[p] = esrRoots[p]
      /\ numRequests'[p] = numRequests[p] /\ children'[p] = children[p] /\ sps'[p] = sps[p]
      /\ families'[p] = families[p] /\ aux'[p] = aux[p] /\ tags'[p] = tags[p] /\ discarded'[p] = discarded[p]
  BY <1>1 DEF Untouched
<1> QED BY <1>2 DEF Recordless

LEMMA DoneAdvances ==
  ASSUME MoveTypes, NEW t \in Trace, Done(t), UNCHANGED gibbsVars
  PROVE  Advanced(t)
BY DEF MoveTypes, Done, gibbsVars, Advanced

LEMMA RegenStages ==
  ASSUME Steady, NEW t \in Trace, Running(t), Advanced(t), Untouched(t)
  PROVE  MoveTypes' /\ Stages'
<1>0. Base \in Trace /\ Base \notin Particle /\ Particle \subseteq Trace
  BY BaseIsNoParticle DEF Trace
<1>1. MoveTypes /\ Stages /\ live \subseteq Particle BY DEF Steady
<1>2. /\ at'[t] = at[t] + 1 /\ \A u \in Trace : u # t => at'[u] = at[u]
      /\ at' \in [Trace -> Nat]
      /\ UNCHANGED <<phase, round, group, live, db, committing, toTag, toConstrain, saved>>
  BY DEF Advanced
<1>3. MoveTypes' BY <1>1, <1>2 DEF MoveTypes
<1>4. \A p \in Particle \ live' : Recordless(p)'
  <2> SUFFICES ASSUME NEW p \in Particle, p \notin live PROVE Recordless(p)' BY <1>2
  <2>1. p # t BY <1>0, RunningFacts
  <2>2. Recordless(p) BY <1>1 DEF Stages
  <2> QED BY <2>1, <2>2, RecordlessStays
<1>5. CASE t = Base
  <2>1. phase = "regen" /\ at[Base] < Len(Program) BY <1>5 DEF Running
  <2>2. at[Base] + 1 <= Len(Program) BY <1>0, <1>1, <2>1, TorusFacts DEF MoveTypes
  <2> QED BY <1>1, <1>2, <1>3, <1>4, <1>5, <2>1, <2>2 DEF Stages
<1>6. CASE t # Base
  <2>1. /\ phase = "propose" /\ t \in live /\ at[t] + 1 \in InTorus
    BY <1>6, RunningFacts
  <2>2. Proposing'
    <3>1. /\ group \in 1 .. Len(Ends) + 1
          /\ \A p \in live : p[1] \in {group - 1, group} /\ at[p] \in First .. TorusEnd
          /\ group > 1 => \A p \in Generation(group - 1) : Ended(p)
      BY <1>1, <2>1 DEF Stages, Proposing
    <3>2. \A p \in live : at'[p] \in First .. TorusEnd
      BY <1>0, <1>1, <1>2, <2>1, <3>1, TorusFacts DEF InTorus
    <3>3. \A p \in Generation(group - 1) : Ended(p) /\ p \in live => Ended(p)'
      <4> SUFFICES ASSUME NEW p \in Generation(group - 1), Ended(p), p \in live PROVE Ended(p)'
        OBVIOUS
      <4>1. p # t BY <1>1, RunningFacts, <1>6 DEF Ended, Running
      <4> QED BY <1>0, <1>1, <1>2, <4>1 DEF Ended
    <3> QED BY <1>2, <3>1, <3>2, <3>3 DEF Proposing, Ended
  <2>3. at'[Base] = at[Base] BY <1>0, <1>2, <1>6
  <2> QED BY <1>1, <1>2, <1>3, <1>4, <2>1, <2>2, <2>3 DEF Stages
<1> QED BY <1>5, <1>6

LEMMA RegenPresent ==
  ASSUME Steady, NEW t \in Trace, Running(t), Advanced(t)
  PROVE  /\ Present(t)' = Present(t) \cup {at[t] + 1}
         /\ \A u \in {Base} \cup live : u # t => Present(u)' = Present(u)
         /\ t \in {Base} \cup live /\ {Base} \cup live \subseteq Trace
<1>0. Base \in Trace /\ Base \notin Particle /\ Particle \subseteq Trace
  BY BaseIsNoParticle DEF Trace
<1>1. MoveTypes /\ Stages /\ live \subseteq Particle BY DEF Steady
<1>2. /\ at'[t] = at[t] + 1 /\ \A u \in Trace : u # t => at'[u] = at[u] /\ UNCHANGED <<phase, live>>
  BY DEF Advanced
<1>3. /\ at[t] \in Nat /\ at[t] + 1 \in DOMAIN Program /\ phase' = phase
      /\ t = Base => phase = "regen"
      /\ t # Base => t \in live /\ at[t] + 1 \in InTorus
  BY RunningFacts DEF Advanced
<1>4. Present(t)' = Present(t) \cup {at[t] + 1}
  <2>1. CASE t = Base
    <3>1. \A j \in DOMAIN Program : j \in Nat BY TorusFacts
    <3> QED BY <1>2, <1>3, <2>1, <3>1 DEF Present
  <2>2. CASE t # Base
    <3>1. at[t] + 1 \in Nat /\ First + 1 <= at[t] + 1 /\ First \in Nat
      BY <1>3, <2>2, TorusFacts DEF InTorus
    <3>2. First + 1 .. at[t] + 1 = (First + 1 .. at[t]) \cup {at[t] + 1} BY <1>3, <3>1
    <3> QED BY <1>2, <1>3, <2>2, <3>2 DEF Present
  <2> QED BY <2>1, <2>2
<1>5. \A u \in {Base} \cup live : u # t => Present(u)' = Present(u)
  BY <1>0, <1>1, <1>2, <1>3 DEF Present
<1> QED BY <1>0, <1>1, <1>3, <1>4, <1>5

(* What was made and requested stands, and what the step makes or requests *)
(* is added to it.                                                         *)
LEMMA RegenMade ==
  ASSUME Steady, MadeOK, NEW t \in Trace, Running(t), Advanced(t),
         \A u \in Trace, m \in Maker : getMadeSP(u, m) # None => getMadeSP(u, m)' # None,
         \A m \in Maker : Program[at[t] + 1] = Make(m) => getMadeSP(t, m)' # None
  PROVE  MadeOK'
<1>1. /\ Present(t)' = Present(t) \cup {at[t] + 1} /\ live' = live
      /\ \A u \in {Base} \cup live : u # t => Present(u)' = Present(u)
      /\ t \in {Base} \cup live /\ {Base} \cup live \subseteq Trace
  BY RegenPresent DEF Advanced
<1>2. ASSUME NEW u \in {Base} \cup live, NEW m \in Maker, NEW j \in Present(u)', Program[j] = Make(m)
      PROVE  getMadeSP(u, m)' # None
  <2>1. CASE j \in Present(u) BY <1>1, <1>2, <2>1 DEF MadeOK
  <2>2. CASE j \notin Present(u) BY <1>1, <1>2, <2>2
  <2> QED BY <2>1, <2>2
<1> QED BY <1>1, <1>2 DEF MadeOK

LEMMA RegenRequested ==
  ASSUME Steady, RequestedOK, NEW t \in Trace, Running(t), Advanced(t), Untouched(t),
         \A u \in Trace, o \in Output : getESRParent(u, o) # None => getESRParent(u, o)' # None,
         \A o \in Output, m \in Maker : Program[at[t] + 1] = Request(o, m) => getESRParent(t, o)' # None,
         \A o \in Output : esrRoots'[t][o] # None =>
            esrRoots[t][o] # None \/ \E m \in Maker : Program[at[t] + 1] = Request(o, m)
  PROVE  RequestedOK'
<1>1. /\ Present(t)' = Present(t) \cup {at[t] + 1} /\ live' = live
      /\ \A u \in {Base} \cup live : u # t => Present(u)' = Present(u)
      /\ t \in {Base} \cup live /\ {Base} \cup live \subseteq Trace
  BY RegenPresent DEF Advanced
<1>2. ASSUME NEW u \in {Base} \cup live, NEW o \in Output, NEW m \in Maker, NEW j \in Present(u)',
             Program[j] = Request(o, m)
      PROVE  getESRParent(u, o)' # None
  <2>1. CASE j \in Present(u) BY <1>1, <1>2, <2>1 DEF RequestedOK
  <2>2. CASE j \notin Present(u) BY <1>1, <1>2, <2>2
  <2> QED BY <2>1, <2>2
<1>3. ASSUME NEW u \in live, NEW o \in Output, esrRoots'[u][o] # None
      PROVE  \E j \in Present(u)', m \in Maker : Program[j] = Request(o, m)
  <2>1. CASE esrRoots[u][o] # None BY <1>1, <2>1 DEF RequestedOK
  <2>2. CASE esrRoots[u][o] = None
    <3>1. u = t BY <1>1, <1>3, <2>2 DEF Untouched
    <3> QED BY <1>1, <1>3, <2>2, <3>1
  <2> QED BY <2>1, <2>2
<1> QED BY <1>1, <1>2, <1>3 DEF RequestedOK

LEMMA SteadyThere ==
  ASSUME KInv
  PROVE  Steady /\ Base \in Trace /\ Base \notin Particle /\ Particle \subseteq Trace
BY BaseIsNoParticle DEF KInv, Consistent, JInv, IInv, Records, Steady, Trace

LEMMA RegenRest ==
  ASSUME KInv, NEW t \in Trace, Running(t), Advanced(t), Untouched(t), Added(t)
  PROVE  /\ DBTypes' /\ MoveTypes' /\ Stages' /\ MadeOK' /\ RequestedOK' /\ ValuedOK' /\ CommitOK'
         /\ Running(Base)' => Running(Base)
<1>0. Steady /\ Base \in Trace /\ Base \notin Particle /\ Particle \subseteq Trace
  BY SteadyThere
<1>1. /\ RegisterTypes /\ DBTypes /\ MoveTypes /\ Stages /\ MadeOK /\ RequestedOK /\ ValuedOK
      /\ live \subseteq Trace
  BY <1>0 DEF KInv, Consistent, Steady
<1>2. MoveTypes' /\ Stages' BY <1>0, RegenStages
<1>3. MadeOK' BY <1>0, <1>1, RegenMade DEF Added
<1>4. RequestedOK' BY <1>0, <1>1, RegenRequested DEF Added
<1>5. /\ UNCHANGED <<phase, live, db, saved>>
      /\ t = Base => phase = "regen" /\ live = {}
      /\ t # Base => phase = "propose"
  BY <1>0, RunningFacts DEF Advanced
<1>6. ValuedOK'
  <2> SUFFICES ASSUME NEW u \in live, NEW c \in ccs'[u] PROVE getValue(u, c)' # None
    BY <1>5 DEF ValuedOK
  <2>1. u \in Trace /\ ccs \in [Trace -> SUBSET Choice] BY <1>1 DEF RegisterTypes
  <2>2. CASE c \in ccs[u]
    <3>1. getValue(u, c) # None /\ c \in Choice BY <1>1, <2>1, <2>2 DEF ValuedOK
    <3> QED BY <2>1, <3>1 DEF Added
  <2>3. CASE c \notin ccs[u]
    <3>1. u = t BY <2>1, <2>3 DEF Untouched
    <3> QED BY <2>3, <3>1 DEF Added
  <2> QED BY <2>2, <2>3
<1>7. CommitOK' BY <1>5 DEF CommitOK
<1>8. DBTypes' BY <1>1, <1>5 DEF DBTypes
<1>9. Running(Base)' => Running(Base)
  <2>1. at \in [Trace -> Nat] /\ at'[Base] \in {at[Base], at[Base] + 1}
    BY <1>0, <1>1 DEF Advanced, MoveTypes
  <2> QED BY <1>0, <1>5, <2>1, TorusFacts DEF Running
<1> QED BY <1>2, <1>3, <1>4, <1>6, <1>7, <1>8, <1>9

(* The statistics of what is made are there.                               *)
LEMMA StatisticsThere ==
  ASSUME KInv, NEW t \in Trace, NEW m \in Maker, getMadeSP(t, m) # None
  PROVE  StatisticsOf(t, m) \in Statistics
<1>0. Base \in Trace /\ (t # Base => t \in Particle) BY BaseIsNoParticle
<1>1. PointerTypes /\ MakersOK /\ OldPointers /\ OwnPointers
  BY DEF KInv, Consistent, Statics
<1>2. \A u \in Trace : aux[u][m] # None => aux[u][m] \in DOMAIN heap
  BY <1>1, BaseIsNoParticle DEF OldPointers, OwnPointers, PointsTo
<1>3. getMadeSPAux(t, m) # None /\ getMadeSPAux(t, m) \in DOMAIN heap
  BY <1>0, <1>1, <1>2 DEF MakersOK, getMadeSP, getMadeSPAux
<1> QED BY <1>1, <1>3 DEF StatisticsOf, StatisticsAt, PointerTypes

LEMMA CountsTyped ==
  ASSUME NEW s \in Statistics, NEW v
  PROVE  Incorporate(s, v) \in Statistics /\ Unincorporate(s, v) \in Statistics
<1>1. s \in [Value -> Int] BY DEF Statistics
<1>2. \A w \in Value : s[w] + 1 \in Int /\ s[w] - 1 \in Int BY <1>1
<1>3. [s EXCEPT ![v] = s[v] + 1] \in [Value -> Int] /\ [s EXCEPT ![v] = s[v] - 1] \in [Value -> Int]
  BY <1>1, <1>2
<1> QED BY <1>3 DEF Incorporate, Unincorporate, Statistics

-----------------------------------------------------------------------------
(* The steps of a regeneration, one by one.                                *)
LEMMA RegenDone ==
  ASSUME KInv, NEW t \in Trace, Running(t), Done(t), UNCHANGED gibbsVars, Untouched(t), Added(t)
  PROVE  /\ DBTypes' /\ MoveTypes' /\ Stages' /\ MadeOK' /\ RequestedOK' /\ ValuedOK' /\ CommitOK'
         /\ Running(Base)' => Running(Base)
         /\ Steady /\ Statics /\ DBTypes /\ MakerTypes /\ db'.aux = db.aux
         /\ t = Base => phase # "propose"
         /\ t # Base => phase = "propose"
<1>1. Steady /\ MoveTypes /\ Statics /\ DBTypes /\ MakerTypes
  BY SteadyThere DEF KInv, Consistent
<1>2. Advanced(t) BY <1>1, DoneAdvances
<1>3. db'.aux = db.aux BY DEF gibbsVars
<1>4. t = Base => phase # "propose" BY <1>1, RunningFacts
<1>5. t # Base => phase = "propose" BY <1>1, RunningFacts
<1> QED BY <1>1, <1>2, <1>3, <1>4, <1>5, RegenRest

LEMMA MakeRest ==
  ASSUME KInv, NEW t \in Trace, NEW m \in Maker, NEW sp \in Proc, MakeStep(t, m, sp)
  PROVE  Consistent'
<1>0. Steady /\ Base \in Trace /\ Base \notin Particle /\ Particle \subseteq Trace
  BY SteadyThere
<1>1. /\ RegisterTypes /\ NodeTypes /\ MakerTypes /\ DBTypes /\ Statics
      /\ sps \in [Trace -> [Maker -> Maybe(Proc)]] /\ families \in [Trace -> [Maker -> [Id -> Maybe(Roots)]]]
      /\ aux \in [Trace -> [Maker -> Maybe(Pointer)]] /\ discarded \in [Particle -> SUBSET AAA]
  BY DEF KInv, Consistent, MakerTypes, Statics, PointerTypes
<1>2. /\ Running(t) /\ Program[at[t] + 1] = Make(m) /\ Done(t)
      /\ sps' = [sps EXCEPT ![t][m] = sp]
      /\ families' = [families EXCEPT ![t][m] = [i \in Id |-> None]]
      /\ aux' = [aux EXCEPT ![t][m] = MadeAux(t, m)]
      /\ IF t = Base THEN UNCHANGED discarded
         ELSE discarded' = [discarded EXCEPT ![t] = IF m \in AAA THEN @ \cup {m} ELSE @]
      /\ UNCHANGED gibbsVars /\ UNCHANGED registerVars /\ UNCHANGED nodeVars
  BY DEF MakeStep, Due
<1>3. UNCHANGED <<ucs, ccs, tags, values, esrRoots, numRequests, children>>
  BY <1>2 DEF registerVars, nodeVars
<1>4. sp # None /\ sp \in Maybe(Proc) BY NoneFacts DEF Maybe
<1>5. Untouched(t) BY <1>1, <1>2, <1>3 DEF Untouched
<1>6. Added(t)
  <2>1. /\ \A u \in Trace, k \in Maker : sps[u][k] # None => sps'[u][k] # None
        /\ sps'[t][m] = sp
    BY <1>1, <1>2, <1>4
  <2>2. \A u \in Trace, k \in Maker : getMadeSP(u, k) # None => getMadeSP(u, k)' # None
    BY <1>0, <2>1 DEF getMadeSP
  <2>3. \A k \in Maker : Program[at[t] + 1] = Make(k) => getMadeSP(t, k)' # None
    BY <1>2, <1>4, <2>1 DEF Make, getMadeSP
  <2>4. \A u \in Trace : /\ \A o \in Output : getESRParent(u, o)' = getESRParent(u, o)
                         /\ \A c \in Choice : getValue(u, c)' = getValue(u, c)
    BY <1>3 DEF getESRParent, getValue
  <2>5. \A o \in Output, n \in Maker : Program[at[t] + 1] # Request(o, n)
    BY <1>2 DEF Make, Request
  <2> QED BY <1>3, <2>2, <2>3, <2>4, <2>5 DEF Added
<1>7. /\ DBTypes' /\ MoveTypes' /\ Stages' /\ MadeOK' /\ RequestedOK' /\ ValuedOK' /\ CommitOK'
  BY <1>2, <1>5, <1>6, RegenDone
<1>8. RegisterTypes' /\ NodeTypes' BY <1>1, <1>3 DEF RegisterTypes, NodeTypes
<1>9. MakerTypes'
  <2>1. sps' \in [Trace -> [Maker -> Maybe(Proc)]] BY <1>1, <1>2, <1>4, SetTyped
  <2>2. families' \in [Trace -> [Maker -> [Id -> Maybe(Roots)]]]
    <3>1. [i \in Id |-> None] \in [Id -> Maybe(Roots)] BY BlankTable
    <3> QED BY <1>1, <1>2, <3>1, SetTyped
  <2>3. discarded' \in [Particle -> SUBSET AAA]
    <3>1. CASE t = Base BY <1>1, <1>2, <3>1
    <3>2. CASE t # Base
      <4>1. discarded' = [discarded EXCEPT ![t] = IF m \in AAA THEN @ \cup {m} ELSE @]
        BY <1>2, <3>2
      <4>2. (IF m \in AAA THEN discarded[t] \cup {m} ELSE discarded[t]) \subseteq AAA
        BY <1>1, <3>2, BaseIsNoParticle
      <4> QED BY <1>1, <4>1, <4>2
    <3> QED BY <3>1, <3>2
  <2> QED BY <2>1, <2>2, <2>3 DEF MakerTypes
<1>10. Statics' BY <1>0, <1>1, MakeKeeps
<1> QED BY <1>7, <1>8, <1>9, <1>10 DEF Consistent

(* What a random procedure is applied to: the choice gets a value, and is  *)
(* registered.                                                             *)
LEMMA ApplyEffect ==
  ASSUME KInv, NEW t \in Trace, NEW c \in Choice, NEW v \in Value, Apply(t, c, v)
  PROVE  /\ values' = [values EXCEPT ![t][c] = v] /\ ucs' = [ucs EXCEPT ![t] = @ \cup {c}]
         /\ getValue(t, c) = None /\ getMadeSP(t, Op[c]) # None /\ Op[c] \in Maker
         /\ Update(t, Op[c], Incorporate(StatisticsOf(t, Op[c]), v))
         /\ Incorporate(StatisticsOf(t, Op[c]), v) \in Statistics
         /\ RegisterInScope(t, Default, c, c) /\ c \notin ucs[t]
         /\ \A u \in Particle : u # t => tags'[u] = tags[u]
         /\ \A u \in Trace : u # t => values'[u] = values[u] /\ ucs'[u] = ucs[u] /\ aux'[u] = aux[u]
         /\ ucs' \in [Trace -> SUBSET Choice]
         /\ \A u \in Trace, k \in Choice : getValue(u, k) # None => getValue(u, k)' # None
<1>0. Base \in Trace /\ (t # Base => t \in Particle) /\ IInv
  BY BaseIsNoParticle DEF KInv, JInv
<1>1. /\ getValue(t, c) = None /\ getMadeSP(t, Op[c]) # None
      /\ values' = [values EXCEPT ![t][c] = v]
      /\ Update(t, Op[c], Incorporate(StatisticsOf(t, Op[c]), v))
      /\ c \notin ucs[t] /\ ucs' = [ucs EXCEPT ![t] = @ \cup {c}]
      /\ RegisterInScope(t, Default, c, c)
  BY DEF Apply, registerUnconstrainedChoice
<1>2. /\ values \in [Trace -> [Choice -> Value \cup {None}]] /\ ucs \in [Trace -> SUBSET Choice]
      /\ aux \in [Trace -> [Maker -> Maybe(Pointer)]]
  BY DEF KInv, JInv, ValuesOK, Consistent, RegisterTypes, Statics, PointerTypes
<1>3. Op[c] \in Maker BY TorusFacts
<1>4. StatisticsOf(t, Op[c]) \in Statistics BY <1>1, <1>3, StatisticsThere
<1>5. Incorporate(StatisticsOf(t, Op[c]), v) \in Statistics BY <1>4, CountsTyped
<1>6. \A u \in Particle : u # t => tags'[u] = tags[u] BY <1>0, <1>1, RegisterEffect
<1>7. \A u \in Trace : u # t => values'[u] = values[u] /\ ucs'[u] = ucs[u] /\ aux'[u] = aux[u]
  BY <1>1, <1>2 DEF Update
<1>8. ucs' \in [Trace -> SUBSET Choice] BY <1>1, <1>2
<1>9. \A u \in Trace, k \in Choice : getValue(u, k) # None => getValue(u, k)' # None
  <2>1. \A u \in Trace, k \in Choice : values[u][k] # None => values'[u][k] # None
    BY <1>1, <1>2, NoneFacts
  <2> QED BY <1>0, <2>1 DEF getValue
<1> QED BY <1>1, <1>3, <1>5, <1>6, <1>7, <1>8, <1>9

(* A step that changes statistics keeps the pointers in order.             *)
LEMMA AppliedStatics ==
  ASSUME KInv, NEW t \in Trace, Running(t), Done(t), UNCHANGED gibbsVars, Untouched(t), Added(t),
         NEW c \in Choice, Applies(Program[at[t] + 1], c), NEW s \in Statistics, Update(t, Op[c], s),
         UNCHANGED <<aaa, discarded, sps>>,
         \A u \in Trace, n \in Maker : getMadeSP(u, n) = None => families'[u][n] = families[u][n]
  PROVE  Statics'
<1>1. /\ Running(Base)' => Running(Base)
      /\ Steady /\ Statics /\ DBTypes /\ db'.aux = db.aux
      /\ t = Base => phase # "propose"
      /\ t # Base => phase = "propose"
  BY RegenDone
<1>2. Op[c] \in Maker /\ getMadeSP(t, Op[c]) # None /\ Sole(t, Op[c])
  BY <1>1, AppliedIsMade DEF KInv, Consistent
<1>3. UNCHANGED <<aaa, discarded, sps, saved, phase, round, group, live>>
  BY DEF gibbsVars
<1> QED BY <1>1, <1>2, <1>3, UpdateKeeps

LEMMA DrawRest ==
  ASSUME KInv, NEW t \in Trace, NEW c \in Choice, NEW v \in Value, DrawStep(t, c, v)
  PROVE  Consistent'
<1>0. Base \in Trace /\ Base \notin Particle /\ Particle \subseteq Trace BY SteadyThere
<1>1. RegisterTypes /\ NodeTypes /\ MakerTypes BY DEF KInv, Consistent
<1>2. /\ Running(t) /\ Program[at[t] + 1] \in {Draw(c), Absorb(c)} /\ Done(t) /\ Apply(t, c, v)
      /\ UNCHANGED gibbsVars
      /\ UNCHANGED <<ccs, esrRoots, numRequests, children, sps, families, aaa, discarded>>
  BY DEF DrawStep, Due
<1>3. /\ Update(t, Op[c], Incorporate(StatisticsOf(t, Op[c]), v))
      /\ Incorporate(StatisticsOf(t, Op[c]), v) \in Statistics
      /\ \A u \in Particle : u # t => tags'[u] = tags[u]
      /\ \A u \in Trace : u # t => values'[u] = values[u] /\ ucs'[u] = ucs[u] /\ aux'[u] = aux[u]
      /\ ucs' \in [Trace -> SUBSET Choice]
      /\ \A u \in Trace, k \in Choice : getValue(u, k) # None => getValue(u, k)' # None
  BY <1>2, ApplyEffect
<1>4. Untouched(t) BY <1>2, <1>3 DEF Untouched
<1>5. Added(t)
  <2>1. \A u \in Trace : /\ \A o \in Output : getESRParent(u, o)' = getESRParent(u, o)
                         /\ \A m \in Maker : getMadeSP(u, m)' = getMadeSP(u, m)
    BY <1>2 DEF getESRParent, getMadeSP
  <2>2. \A m \in Maker : /\ Program[at[t] + 1] # Make(m)
                         /\ \A o \in Output : Program[at[t] + 1] # Request(o, m)
    BY <1>2 DEF Draw, Absorb, Make, Request
  <2> QED BY <1>2, <1>3, <2>1, <2>2 DEF Added
<1>6. /\ DBTypes' /\ MoveTypes' /\ Stages' /\ MadeOK' /\ RequestedOK' /\ ValuedOK' /\ CommitOK'
  BY <1>2, <1>4, <1>5, RegenDone
<1>7. Statics'
  <2>1. Applies(Program[at[t] + 1], c) BY <1>2 DEF Applies
  <2> QED BY <1>2, <1>3, <1>4, <1>5, <2>1, AppliedStatics
<1>8. RegisterTypes' /\ NodeTypes' /\ MakerTypes'
  BY <1>1, <1>2, <1>3 DEF RegisterTypes, NodeTypes, MakerTypes
<1> QED BY <1>6, <1>7, <1>8 DEF Consistent

(* A request adds an edge from the root of the family.                     *)
LEMMA EdgeEffect ==
  ASSUME KInv, NEW t \in Trace, NEW c \in Roots, NEW o \in Output, addESREdge(t, c, o)
  PROVE  /\ NodeTypes' /\ esrRoots'[t][o] = c /\ c # None /\ c \in Choice
         /\ \A u \in Trace : u # t => /\ esrRoots'[u] = esrRoots[u] /\ numRequests'[u] = numRequests[u]
                                      /\ children'[u] = children[u]
         /\ \A k \in Output : k # o => esrRoots'[t][k] = esrRoots[t][k]
         /\ \A u \in Trace, k \in Output : getESRParent(u, k) # None => getESRParent(u, k)' # None
<1>0. Base \in Trace BY SteadyThere
<1>1. /\ esrRoots \in [Trace -> [Output -> Maybe(Roots)]]
      /\ numRequests \in [Trace -> [Choice -> Maybe(Int)]] /\ numRequests[Base] \in [Choice -> Int]
      /\ children \in [Trace -> [Choice -> SUBSET Output]]
  BY DEF KInv, Consistent, NodeTypes
<1>2. /\ esrRoots' = [esrRoots EXCEPT ![t][o] = c]
      /\ children' = [children EXCEPT ![t][c] = @ \cup {o}]
      /\ numRequests' = [numRequests EXCEPT ![t][c] = getNumRequests(t, c) + 1]
  BY DEF addESREdge
<1>3. c \in Choice /\ c # None /\ c \in Maybe(Roots)
  BY TorusFacts, NoneFacts DEF Roots, Maybe
<1>4. getNumRequests(t, c) + 1 \in Int
  <2>1. getNumRequests(t, c) \in Int BY <1>1, <1>3 DEF getNumRequests, Maybe
  <2> QED BY <2>1
<1>5. esrRoots' \in [Trace -> [Output -> Maybe(Roots)]] BY <1>1, <1>2, <1>3, SetTyped
<1>6. numRequests' \in [Trace -> [Choice -> Maybe(Int)]] /\ numRequests'[Base] \in [Choice -> Int]
  <2>1. PICK n \in Int : n = getNumRequests(t, c) + 1 BY <1>4
  <2>2. numRequests' = [numRequests EXCEPT ![t][c] = n] /\ n \in Maybe(Int)
    BY <1>2, <2>1 DEF Maybe
  <2>3. numRequests' \in [Trace -> [Choice -> Maybe(Int)]] BY <1>1, <2>2, SetTyped
  <2>4. numRequests'[Base] \in [Choice -> Int] BY <1>0, <1>1, <2>1, <2>2
  <2> QED BY <2>3, <2>4
<1>7. children' \in [Trace -> [Choice -> SUBSET Output]]
  <2>1. children' = [children EXCEPT ![t][c] = children[t][c] \cup {o}] BY <1>2
  <2>2. children[t][c] \cup {o} \in SUBSET Output BY <1>1, <1>3
  <2> QED BY <1>1, <2>1, <2>2, SetTyped
<1>8. NodeTypes' BY <1>5, <1>6, <1>7 DEF NodeTypes
<1>9. \A u \in Trace : u # t => /\ esrRoots'[u] = esrRoots[u] /\ numRequests'[u] = numRequests[u]
                                /\ children'[u] = children[u]
  BY <1>1, <1>2
<1>10. /\ esrRoots'[t][o] = c
       /\ \A k \in Output : k # o => esrRoots'[t][k] = esrRoots[t][k]
       /\ \A u \in Trace, k \in Output : esrRoots[u][k] # None => esrRoots'[u][k] # None
  BY <1>1, <1>2, <1>3
<1>11. \A u \in Trace, k \in Output : getESRParent(u, k) # None => getESRParent(u, k)' # None
  BY <1>0, <1>10 DEF getESRParent
<1> QED BY <1>3, <1>8, <1>9, <1>10, <1>11

LEMMA ShareRest ==
  ASSUME KInv, NEW t \in Trace, NEW o \in Output, NEW m \in Maker, NEW id \in Id, ShareStep(t, o, m, id)
  PROVE  Consistent'
<1>0. Base \in Trace /\ Base \notin Particle /\ Particle \subseteq Trace BY SteadyThere
<1>1. RegisterTypes /\ NodeTypes /\ MakerTypes /\ Statics BY DEF KInv, Consistent
<1>2. /\ Running(t) /\ Program[at[t] + 1] = Request(o, m) /\ Done(t)
      /\ getMadeSPFamilyRoot(t, m, id) # None /\ addESREdge(t, getMadeSPFamilyRoot(t, m, id), o)
      /\ UNCHANGED gibbsVars /\ UNCHANGED registerVars /\ UNCHANGED spVars /\ UNCHANGED values
  BY DEF ShareStep, Due
<1>3. UNCHANGED <<ucs, ccs, tags, sps, families, aux, discarded>>
  BY <1>2 DEF registerVars, spVars
<1>4. getMadeSPFamilyRoot(t, m, id) \in Roots
  BY <1>0, <1>1, <1>2 DEF MakerTypes, getMadeSPFamilyRoot, Maybe
<1>5. PICK c \in Roots : c = getMadeSPFamilyRoot(t, m, id) BY <1>4
<1>6. /\ NodeTypes' /\ esrRoots'[t][o] = c /\ c # None
      /\ \A u \in Trace : u # t => /\ esrRoots'[u] = esrRoots[u] /\ numRequests'[u] = numRequests[u]
                                   /\ children'[u] = children[u]
      /\ \A k \in Output : k # o => esrRoots'[t][k] = esrRoots[t][k]
      /\ \A u \in Trace, k \in Output : getESRParent(u, k) # None => getESRParent(u, k)' # None
  <2>1. addESREdge(t, c, o) BY <1>2, <1>5
  <2> QED BY <2>1, EdgeEffect
<1>7. Untouched(t) BY <1>2, <1>3, <1>6 DEF Untouched
<1>8. Added(t)
  <2>1. \A u \in Trace : /\ \A k \in Choice : getValue(u, k)' = getValue(u, k)
                         /\ \A n \in Maker : getMadeSP(u, n)' = getMadeSP(u, n)
    BY <1>2, <1>3 DEF getValue, getMadeSP
  <2>2. \A n \in Maker : /\ Program[at[t] + 1] # Make(n)
                         /\ \A k \in Output : Program[at[t] + 1] = Request(k, n) => k = o /\ n = m
    BY <1>2 DEF Make, Request
  <2>3. getESRParent(t, o)' # None BY <1>6 DEF getESRParent
  <2>4. \A k \in Output : esrRoots'[t][k] # None =>
          esrRoots[t][k] # None \/ \E n \in Maker : Program[at[t] + 1] = Request(k, n)
    BY <1>2, <1>6
  <2> QED BY <1>3, <1>6, <2>1, <2>2, <2>3, <2>4 DEF Added
<1>9. /\ DBTypes' /\ MoveTypes' /\ Stages' /\ MadeOK' /\ RequestedOK' /\ ValuedOK' /\ CommitOK'
      /\ Running(Base)' => Running(Base)
      /\ db'.aux = db.aux
  BY <1>2, <1>7, <1>8, RegenDone
<1>10. Statics' BY <1>1, <1>2, <1>9, QuietKeeps DEF gibbsVars
<1>11. RegisterTypes' /\ MakerTypes' BY <1>1, <1>3 DEF RegisterTypes, MakerTypes
<1> QED BY <1>6, <1>9, <1>10, <1>11 DEF Consistent

LEMMA FamilyRest ==
  ASSUME KInv, NEW t \in Trace, NEW o \in Output, NEW m \in Maker, NEW id \in Id, NEW v \in Value,
         FamilyStep(t, o, m, id, v)
  PROVE  Consistent'
<1>0. Base \in Trace /\ Base \notin Particle /\ Particle \subseteq Trace BY SteadyThere
<1>1. RegisterTypes /\ MakerTypes BY DEF KInv, Consistent
<1>2. PICK c : c = Root[id] OBVIOUS
<1>3. /\ Running(t) /\ Program[at[t] + 1] = Request(o, m) /\ Done(t)
      /\ getMadeSP(t, m) # None /\ Apply(t, c, v) /\ addESREdge(t, c, o)
      /\ families' = [families EXCEPT ![t][m][id] = c]
      /\ UNCHANGED gibbsVars /\ UNCHANGED <<ccs, sps, aaa, discarded>>
  BY <1>2 DEF FamilyStep, Due
<1>4. c \in Roots /\ c \in Choice BY <1>2, TorusFacts DEF Roots
<1>5. /\ Update(t, Op[c], Incorporate(StatisticsOf(t, Op[c]), v))
      /\ Incorporate(StatisticsOf(t, Op[c]), v) \in Statistics
      /\ \A u \in Particle : u # t => tags'[u] = tags[u]
      /\ \A u \in Trace : u # t => values'[u] = values[u] /\ ucs'[u] = ucs[u] /\ aux'[u] = aux[u]
      /\ ucs' \in [Trace -> SUBSET Choice]
      /\ \A u \in Trace, k \in Choice : getValue(u, k) # None => getValue(u, k)' # None
  BY <1>3, <1>4, ApplyEffect
<1>6. /\ NodeTypes' /\ esrRoots'[t][o] = c /\ c # None
      /\ \A u \in Trace : u # t => /\ esrRoots'[u] = esrRoots[u] /\ numRequests'[u] = numRequests[u]
                                   /\ children'[u] = children[u]
      /\ \A k \in Output : k # o => esrRoots'[t][k] = esrRoots[t][k]
      /\ \A u \in Trace, k \in Output : getESRParent(u, k) # None => getESRParent(u, k)' # None
  BY <1>3, <1>4, EdgeEffect
<1>7. /\ families' \in [Trace -> [Maker -> [Id -> Maybe(Roots)]]]
      /\ \A u \in Trace, n \in Maker : u # t \/ n # m => families'[u][n] = families[u][n]
      /\ \A u \in Trace : u # t => families'[u] = families[u]
  <2>1. families \in [Trace -> [Maker -> [Id -> Maybe(Roots)]]] /\ c \in Maybe(Roots)
    BY <1>1, <1>4 DEF MakerTypes, Maybe
  <2>2. PICK f : f = [families[t][m] EXCEPT ![id] = c] OBVIOUS
  <2>3. f \in [Id -> Maybe(Roots)] /\ families' = [families EXCEPT ![t][m] = f]
    BY <1>3, <2>1, <2>2
  <2>4. families' \in [Trace -> [Maker -> [Id -> Maybe(Roots)]]] BY <2>1, <2>3, SetTyped
  <2> QED BY <2>1, <2>3, <2>4
<1>8. Untouched(t) BY <1>3, <1>5, <1>6, <1>7 DEF Untouched
<1>9. Added(t)
  <2>1. \A u \in Trace, n \in Maker : getMadeSP(u, n)' = getMadeSP(u, n)
    BY <1>3 DEF getMadeSP
  <2>2. \A n \in Maker : /\ Program[at[t] + 1] # Make(n)
                         /\ \A k \in Output : Program[at[t] + 1] = Request(k, n) => k = o /\ n = m
    BY <1>3 DEF Make, Request
  <2>3. getESRParent(t, o)' # None BY <1>6 DEF getESRParent
  <2>4. \A k \in Output : esrRoots'[t][k] # None =>
          esrRoots[t][k] # None \/ \E n \in Maker : Program[at[t] + 1] = Request(k, n)
    BY <1>3, <1>6
  <2> QED BY <1>3, <1>5, <1>6, <2>1, <2>2, <2>3, <2>4 DEF Added
<1>10. /\ DBTypes' /\ MoveTypes' /\ Stages' /\ MadeOK' /\ RequestedOK' /\ ValuedOK' /\ CommitOK'
  BY <1>3, <1>8, <1>9, RegenDone
<1>11. Statics'
  <2>1. Applies(Program[at[t] + 1], c) BY <1>3, <1>4 DEF Applies
  <2>2. \A u \in Trace, n \in Maker : getMadeSP(u, n) = None => families'[u][n] = families[u][n]
    BY <1>3, <1>7
  <2> QED BY <1>3, <1>4, <1>5, <1>8, <1>9, <2>1, <2>2, AppliedStatics
<1>12. RegisterTypes' /\ MakerTypes'
  BY <1>1, <1>3, <1>5, <1>7 DEF RegisterTypes, MakerTypes
<1> QED BY <1>6, <1>10, <1>11, <1>12 DEF Consistent

LEMMA TagRest ==
  ASSUME KInv, NEW t \in Trace, NEW s \in Scope, NEW b \in Choice, NEW c \in Choice, TagStep(t, s, b, c)
  PROVE  Consistent'
<1>0. Base \in Trace /\ Base \notin Particle /\ Particle \subseteq Trace /\ IInv /\ (t # Base => t \in Particle)
  BY SteadyThere, BaseIsNoParticle DEF KInv, JInv
<1>1. RegisterTypes /\ NodeTypes /\ MakerTypes /\ Statics BY DEF KInv, Consistent
<1>2. /\ Running(t) /\ Program[at[t] + 1] = Tag(s, b, c) /\ Done(t)
      /\ RegisterInScope(t, s, getValue(t, b), c)
      /\ UNCHANGED gibbsVars /\ UNCHANGED nodeVars /\ UNCHANGED spVars /\ UNCHANGED <<ucs, ccs>>
  BY DEF TagStep, Due
<1>3. UNCHANGED <<ucs, ccs, values, esrRoots, numRequests, children, sps, families, aux, discarded>>
  BY <1>2 DEF nodeVars, spVars
<1>4. \A u \in Particle : u # t => tags'[u] = tags[u] BY <1>0, <1>2, RegisterEffect
<1>5. Untouched(t) BY <1>3, <1>4 DEF Untouched
<1>6. Added(t)
  <2>1. \A u \in Trace : /\ \A o \in Output : getESRParent(u, o)' = getESRParent(u, o)
                         /\ \A k \in Choice : getValue(u, k)' = getValue(u, k)
                         /\ \A m \in Maker : getMadeSP(u, m)' = getMadeSP(u, m)
    BY <1>3 DEF getESRParent, getValue, getMadeSP
  <2>2. \A m \in Maker : /\ Program[at[t] + 1] # Make(m)
                         /\ \A o \in Output : Program[at[t] + 1] # Request(o, m)
    BY <1>2 DEF Tag, Make, Request
  <2> QED BY <1>3, <2>1, <2>2 DEF Added
<1>7. /\ DBTypes' /\ MoveTypes' /\ Stages' /\ MadeOK' /\ RequestedOK' /\ ValuedOK' /\ CommitOK'
      /\ Running(Base)' => Running(Base)
      /\ db'.aux = db.aux
  BY <1>2, <1>5, <1>6, RegenDone
<1>8. Statics' BY <1>1, <1>2, <1>7, QuietKeeps DEF gibbsVars
<1>9. RegisterTypes' /\ NodeTypes' /\ MakerTypes'
  BY <1>1, <1>3 DEF RegisterTypes, NodeTypes, MakerTypes
<1> QED BY <1>7, <1>8, <1>9 DEF Consistent

(* An observation reaches the choice itself, or the root of a family.      *)
LEMMA ObservedChoice ==
  ASSUME KInv, NEW t \in Trace, NEW n \in Choice \cup Output, NEW c, c = Constrainable(t, n), c # None,
         NEW v \in Value
  PROVE  Applies(Observe(n, v), c)
<1>0. Base \in Trace /\ esrRoots \in [Trace -> [Output -> Maybe(Roots)]]
  BY SteadyThere DEF KInv, Consistent, NodeTypes
<1>1. CASE n \in Choice BY <1>1 DEF Constrainable, Applies
<1>2. CASE n \notin Choice
  <2>1. n \in Output /\ c = getESRParent(t, n) BY <1>2 DEF Constrainable
  <2>2. c \in Roots BY <1>0, <2>1 DEF getESRParent, Maybe
  <2> QED BY <1>2, <2>2 DEF Applies
<1> QED BY <1>1, <1>2

LEMMA ConstrainedEffect ==
  ASSUME KInv, NEW t \in Trace, NEW c \in Choice, registerConstrainedChoice(t, c)
  PROVE  /\ ccs' = [ccs EXCEPT ![t] = @ \cup {c}]
         /\ t = Base => ucs' = [ucs EXCEPT ![Base] = @ \ {c}] /\ c \in ucs[Base]
         /\ t # Base => UNCHANGED <<ucs, scopes, tags>>
         /\ tags' = tags /\ RegisterTypes'
         /\ \A u \in Trace : u # t => ucs'[u] = ucs[u] /\ ccs'[u] = ccs[u]
<1>1. ucs \in [Trace -> SUBSET Choice] /\ ccs \in [Trace -> SUBSET Choice]
  BY DEF KInv, Consistent, RegisterTypes
<1>2. ccs' = [ccs EXCEPT ![t] = @ \cup {c}] BY DEF registerConstrainedChoice
<1>3. CASE t = Base
  <2>1. ucs' = [ucs EXCEPT ![Base] = @ \ {c}] /\ c \in ucs[Base] /\ tags' = tags
    BY <1>3 DEF registerConstrainedChoice, unregisterUnconstrainedChoice, UnregisterInScope
  <2> QED BY <1>1, <1>2, <1>3, <2>1 DEF RegisterTypes
<1>4. CASE t # Base
  <2>1. UNCHANGED <<ucs, scopes, tags>> BY <1>4 DEF registerConstrainedChoice
  <2> QED BY <1>1, <1>2, <1>4, <2>1 DEF RegisterTypes
<1> QED BY <1>3, <1>4

LEMMA ObserveRest ==
  ASSUME KInv, NEW t \in Trace, NEW n \in Choice \cup Output, NEW c \in Choice, NEW v \in Value,
         ObserveStep(t, n, c, v)
  PROVE  Consistent'
<1>0. Base \in Trace /\ Base \notin Particle /\ Particle \subseteq Trace BY SteadyThere
<1>1. /\ NodeTypes /\ MakerTypes
      /\ values \in [Trace -> [Choice -> Value \cup {None}]] /\ aux \in [Trace -> [Maker -> Maybe(Pointer)]]
  BY DEF KInv, Consistent, JInv, ValuesOK, Statics, PointerTypes
<1>2. /\ Running(t) /\ Program[at[t] + 1] = Observe(n, v) /\ Done(t)
      /\ c = Constrainable(t, n) /\ c # None
      /\ Update(t, Op[c], Constrained(t, c, v))
      /\ values' = [values EXCEPT ![t][c] = v] /\ registerConstrainedChoice(t, c)
      /\ UNCHANGED gibbsVars
      /\ UNCHANGED <<esrRoots, numRequests, children, sps, families, aaa, discarded>>
  BY DEF ObserveStep, Due
<1>3. Applies(Program[at[t] + 1], c) BY <1>2, ObservedChoice
<1>4. Constrained(t, c, v) \in Statistics
  <2>1. Op[c] \in Maker /\ getMadeSP(t, Op[c]) # None
    BY <1>2, <1>3, SteadyThere, AppliedIsMade DEF KInv, Consistent
  <2>2. StatisticsOf(t, Op[c]) \in Statistics BY <2>1, StatisticsThere
  <2>3. Unincorporate(StatisticsOf(t, Op[c]), getValue(t, c)) \in Statistics
    BY <2>2, CountsTyped
  <2> QED BY <2>3, CountsTyped DEF Constrained
<1>5. /\ RegisterTypes' /\ ccs' = [ccs EXCEPT ![t] = @ \cup {c}] /\ tags' = tags
      /\ \A u \in Trace : u # t => ucs'[u] = ucs[u] /\ ccs'[u] = ccs[u]
  BY <1>2, ConstrainedEffect
<1>6. Untouched(t) BY <1>1, <1>2, <1>5 DEF Untouched, Update
<1>7. Added(t)
  <2>1. \A u \in Trace : /\ \A o \in Output : getESRParent(u, o)' = getESRParent(u, o)
                         /\ \A m \in Maker : getMadeSP(u, m)' = getMadeSP(u, m)
    BY <1>2 DEF getESRParent, getMadeSP
  <2>2. \A m \in Maker : /\ Program[at[t] + 1] # Make(m)
                         /\ \A o \in Output : Program[at[t] + 1] # Request(o, m)
    BY <1>2 DEF Observe, Make, Request
  <2>3. \A u \in Trace, k \in Choice : getValue(u, k) # None => getValue(u, k)' # None
    <3>1. \A u \in Trace, k \in Choice : values[u][k] # None => values'[u][k] # None
      BY <1>1, <1>2, NoneFacts
    <3> QED BY <1>0, <3>1 DEF getValue
  <2>4. getValue(t, c)' # None BY <1>1, <1>2, NoneFacts DEF getValue
  <2>5. \A k \in ccs'[t] : k \in ccs[t] \/ k = c
    <3>1. ccs \in [Trace -> SUBSET Choice] BY DEF KInv, Consistent, RegisterTypes
    <3> QED BY <1>5, <3>1
  <2> QED BY <1>2, <2>1, <2>2, <2>3, <2>4, <2>5 DEF Added
<1>8. /\ DBTypes' /\ MoveTypes' /\ Stages' /\ MadeOK' /\ RequestedOK' /\ ValuedOK' /\ CommitOK'
  BY <1>2, <1>6, <1>7, RegenDone
<1>9. Statics' BY <1>2, <1>3, <1>4, <1>6, <1>7, AppliedStatics
<1>10. NodeTypes' /\ MakerTypes' BY <1>1, <1>2 DEF NodeTypes, MakerTypes
<1> QED BY <1>5, <1>8, <1>9, <1>10 DEF Consistent

LEMMA AbsorbRest ==
  ASSUME KInv, NEW t \in Trace, NEW c \in Choice, AbsorbStep(t, c)
  PROVE  Consistent'
<1>0. Base \in Trace /\ Base \notin Particle /\ Particle \subseteq Trace BY SteadyThere
<1>1. /\ RegisterTypes /\ NodeTypes /\ MakerTypes /\ aux \in [Trace -> [Maker -> Maybe(Pointer)]]
  BY DEF KInv, Consistent, Statics, PointerTypes
<1>2. PICK s : s = Incorporate(StatisticsOf(t, Op[c]), getValue(t, c)) OBVIOUS
<1>3. /\ Running(t) /\ Program[at[t] + 1] = Absorb(c) /\ Done(t) /\ Update(t, Op[c], s)
      /\ UNCHANGED gibbsVars /\ UNCHANGED registerVars /\ UNCHANGED nodeVars
      /\ UNCHANGED <<sps, families, aaa, discarded>>
  BY <1>2 DEF AbsorbStep, Due
<1>4. UNCHANGED <<ucs, ccs, tags, values, esrRoots, numRequests, children>>
  BY <1>3 DEF registerVars, nodeVars
<1>5. Applies(Program[at[t] + 1], c) BY <1>3 DEF Applies
<1>6. s \in Statistics
  <2>1. Op[c] \in Maker /\ getMadeSP(t, Op[c]) # None
    BY <1>3, <1>5, SteadyThere, AppliedIsMade DEF KInv, Consistent
  <2> QED BY <1>2, <2>1, StatisticsThere, CountsTyped
<1>7. Untouched(t) BY <1>1, <1>3, <1>4 DEF Untouched, Update
<1>8. Added(t)
  <2>1. \A u \in Trace : /\ \A o \in Output : getESRParent(u, o)' = getESRParent(u, o)
                         /\ \A k \in Choice : getValue(u, k)' = getValue(u, k)
                         /\ \A m \in Maker : getMadeSP(u, m)' = getMadeSP(u, m)
    BY <1>3, <1>4 DEF getESRParent, getValue, getMadeSP
  <2>2. \A m \in Maker : /\ Program[at[t] + 1] # Make(m)
                         /\ \A o \in Output : Program[at[t] + 1] # Request(o, m)
    BY <1>3 DEF Absorb, Make, Request
  <2> QED BY <1>4, <2>1, <2>2 DEF Added
<1>9. /\ DBTypes' /\ MoveTypes' /\ Stages' /\ MadeOK' /\ RequestedOK' /\ ValuedOK' /\ CommitOK'
  BY <1>3, <1>7, <1>8, RegenDone
<1>10. Statics' BY <1>3, <1>5, <1>6, <1>7, <1>8, AppliedStatics
<1>11. RegisterTypes' /\ NodeTypes' /\ MakerTypes'
  BY <1>1, <1>3, <1>4 DEF RegisterTypes, NodeTypes, MakerTypes
<1> QED BY <1>9, <1>10, <1>11 DEF Consistent

LEMMA RegenConsistent ==
  ASSUME KInv, NEW t \in Trace, Regen(t)
  PROVE  Consistent'
BY MakeRest, DrawRest, ShareRest, FamilyRest, TagRest, ObserveRest, AbsorbRest DEF Regen

-----------------------------------------------------------------------------
LEMMA DetachFacts ==
  ASSUME KInv, phase = "detach", at[Base] > First
  PROVE  /\ live = {} /\ at[Base] \in Nat /\ at[Base] \in InTorus /\ at[Base] \in DOMAIN Program
         /\ Steady /\ Base \in Trace /\ ~Running(Base)
<1>1. /\ Steady /\ Base \in Trace
      /\ live = {} /\ at[Base] \in First .. TorusEnd /\ at[Base] \in Nat
  BY SteadyThere DEF KInv, Consistent, Stages, MoveTypes
<1> QED BY <1>1, TorusFacts DEF InTorus, Running

LEMMA DetachRest ==
  ASSUME KInv, Retreated, Untouched(Base)
  PROVE  /\ MoveTypes' /\ Stages' /\ MadeOK' /\ RequestedOK' /\ ValuedOK' /\ CommitOK'
         /\ Running(Base)' => Running(Base)
<1>0. Base \in Trace /\ Base \notin Particle /\ Particle \subseteq Trace BY SteadyThere
<1>1. /\ MoveTypes /\ Stages /\ MadeOK /\ RequestedOK
      /\ phase = "detach" /\ phase' = "detach" /\ live = {} /\ live' = {}
      /\ UNCHANGED <<round, group>> /\ group = 0
      /\ at[Base] \in Nat /\ at[Base] \in InTorus /\ at[Base] \in DOMAIN Program
      /\ at' = [at EXCEPT ![Base] = at[Base] - 1]
  BY DetachFacts DEF KInv, Consistent, Retreated, Stages
<1>2. at[Base] - 1 \in Nat /\ at[Base] - 1 \in First .. TorusEnd
  BY <1>1, TorusFacts DEF InTorus
<1>3. at'[Base] = at[Base] - 1 /\ at' \in [Trace -> Nat]
  BY <1>0, <1>1, <1>2 DEF MoveTypes
<1>4. MoveTypes' BY <1>1, <1>3 DEF MoveTypes
<1>5. Stages'
  <2>1. \A p \in Particle : Recordless(p)' BY <1>0, <1>1, RecordlessStays DEF Stages
  <2> QED BY <1>1, <1>2, <1>3, <2>1 DEF Stages
<1>6. Present(Base)' = Present(Base) \ {at[Base]}
  <2>1. \A j \in DOMAIN Program : j \in Nat BY TorusFacts
  <2>2. \A j \in DOMAIN Program : (j <= at[Base] - 1 \/ j > TorusEnd) <=> (j <= at[Base] \/ j > TorusEnd)
        /\ j # at[Base]
    BY <1>1, <2>1, TorusFacts DEF InTorus
  <2> QED BY <1>1, <1>3, <2>2 DEF Present
<1>7. Present(Base) \subseteq DOMAIN Program BY DEF Present
<1>8. MadeOK'
  <2> SUFFICES ASSUME NEW m \in Maker, NEW j \in Present(Base) \ {at[Base]}, Program[j] = Make(m)
               PROVE  getMadeSP(Base, m)' # None
    BY <1>1, <1>6 DEF MadeOK
  <2>1. getMadeSP(Base, m) # None BY <1>1 DEF MadeOK
  <2>2. Program[at[Base]] # Make(m) BY <1>1, <1>7, OrderAssumption
  <2> QED BY <2>1, <2>2 DEF getMadeSP, Retreated
<1>9. RequestedOK'
  <2> SUFFICES ASSUME NEW o \in Output, NEW m \in Maker, NEW j \in Present(Base) \ {at[Base]},
                      Program[j] = Request(o, m)
               PROVE  getESRParent(Base, o)' # None
    BY <1>1, <1>6 DEF RequestedOK
  <2>1. getESRParent(Base, o) # None BY <1>1 DEF RequestedOK
  <2>2. \A n \in Maker : Program[at[Base]] # Request(o, n)
    BY <1>1, <1>7, OrderAssumption
  <2> QED BY <2>1, <2>2 DEF getESRParent, Retreated
<1>10. ValuedOK' /\ CommitOK' BY <1>1 DEF ValuedOK, CommitOK
<1>11. ~Running(Base)' BY <1>1 DEF Running
<1> QED BY <1>4, <1>5, <1>8, <1>9, <1>10, <1>11

(* What a step of the detachment always does.                              *)
LEMMA UndoEffect ==
  ASSUME KInv, NEW s, Latest(s), NEW d, Undo(d)
  PROVE  /\ phase = "detach" /\ at[Base] > First /\ Program[at[Base]] = s
         /\ at' = [at EXCEPT ![Base] = @ - 1] /\ db' = d
         /\ UNCHANGED <<phase, round, group, live, committing, toTag, toConstrain>>
         /\ live = {} /\ at[Base] \in Nat /\ at[Base] \in InTorus
         /\ Steady /\ ~Running(Base)
<1>1. /\ phase = "detach" /\ at[Base] > First /\ Program[at[Base]] = s
      /\ at' = [at EXCEPT ![Base] = @ - 1] /\ db' = d
      /\ UNCHANGED <<phase, round, group, live, committing, toTag, toConstrain>>
  BY DEF Latest, Undo
<1> QED BY <1>1, DetachFacts

LEMMA UnmakeRest ==
  ASSUME KInv, NEW m \in Maker, UnmakeStep(m)
  PROVE  Consistent'
<1>0. Base \in Trace /\ Base \notin Particle /\ Particle \subseteq Trace BY SteadyThere
<1>1. /\ RegisterTypes /\ NodeTypes /\ MakerTypes /\ DBTypes /\ Statics
      /\ sps \in [Trace -> [Maker -> Maybe(Proc)]] /\ families \in [Trace -> [Maker -> [Id -> Maybe(Roots)]]]
      /\ aux \in [Trace -> [Maker -> Maybe(Pointer)]] /\ discarded \in [Particle -> SUBSET AAA]
  BY DEF KInv, Consistent, MakerTypes, Statics, PointerTypes
<1>2. PICK d : d = [db EXCEPT !.sps[m] = sps[Base][m], !.aux[m] = aux[Base][m]] OBVIOUS
<1>3. /\ Latest(Make(m)) /\ Undo(d)
      /\ saved' = [saved EXCEPT ![m] = StatisticsOf(Base, m)]
      /\ sps' = [sps EXCEPT ![Base][m] = None]
      /\ families' = [families EXCEPT ![Base][m] = [i \in Id |-> None]]
      /\ aux' = [aux EXCEPT ![Base][m] = None]
      /\ UNCHANGED registerVars /\ UNCHANGED nodeVars /\ UNCHANGED discarded
  BY <1>2 DEF UnmakeStep
<1>4. UNCHANGED <<ucs, ccs, tags, values, esrRoots, numRequests, children>>
  BY <1>3 DEF registerVars, nodeVars
<1>5. /\ phase = "detach" /\ at[Base] > First /\ Program[at[Base]] = Make(m)
      /\ at' = [at EXCEPT ![Base] = @ - 1]
      /\ UNCHANGED <<phase, round, group, live>> /\ Steady
  BY <1>3, UndoEffect
<1>6. Retreated BY <1>1, <1>3, <1>4, <1>5 DEF Retreated
<1>7. Untouched(Base) BY <1>1, <1>3, <1>4 DEF Untouched
<1>8. MoveTypes' /\ Stages' /\ MadeOK' /\ RequestedOK' /\ ValuedOK' /\ CommitOK'
  BY <1>6, <1>7, DetachRest
<1>9. Statics' BY <1>1, <1>5, UnmakeStatics
<1>10. RegisterTypes' /\ NodeTypes' BY <1>1, <1>4 DEF RegisterTypes, NodeTypes
<1>11. MakerTypes'
  <2>1. None \in Maybe(Proc) /\ [i \in Id |-> None] \in [Id -> Maybe(Roots)]
    BY BlankTable DEF Maybe
  <2>2. sps' \in [Trace -> [Maker -> Maybe(Proc)]] BY <1>0, <1>1, <1>3, <2>1, SetTyped
  <2>3. families' \in [Trace -> [Maker -> [Id -> Maybe(Roots)]]]
    BY <1>0, <1>1, <1>3, <2>1, SetTyped
  <2> QED BY <1>1, <1>3, <2>2, <2>3 DEF MakerTypes
<1>12. DBTypes'
  <2>1. /\ db' = Detached(db.values, db.requests, [db.sps EXCEPT ![m] = sps[Base][m]],
                           [db.aux EXCEPT ![m] = aux[Base][m]])
        /\ db'.aux = [db.aux EXCEPT ![m] = aux[Base][m]]
    BY <1>1, <1>5, UnmakeEffect
  <2>2. db' = Detached(db'.values, db'.requests, db'.sps, db'.aux)
    BY <2>1, DetachedParts
  <2>3. aux[Base][m] \in Maybe(Pointer) /\ db.aux \in [Maker -> Maybe(Pointer)]
        /\ saved \in [Maker -> Maybe(Statistics)]
    BY <1>0, <1>1 DEF DBTypes
  <2>4. StatisticsOf(Base, m) \in Maybe(Statistics)
    <3>1. aux[Base][m] # None => aux[Base][m] \in DOMAIN heap
      BY <1>1 DEF Statics, OldPointers, PointsTo
    <3>2. StatisticsOf(Base, m) = StatisticsAt(aux[Base][m])
      BY DEF StatisticsOf, getMadeSPAux
    <3> QED BY <1>1, <3>1, <3>2 DEF StatisticsAt, Maybe, Statics, PointerTypes
  <2>5. db'.aux \in [Maker -> Maybe(Pointer)] /\ saved' \in [Maker -> Maybe(Statistics)]
    BY <1>3, <2>1, <2>3, <2>4
  <2> QED BY <2>2, <2>5 DEF DBTypes
<1> QED BY <1>8, <1>9, <1>10, <1>11, <1>12 DEF Consistent

(* A choice that is taken out is out of the registers, and out of the      *)
(* statistics.                                                             *)
LEMMA UnapplyEffect ==
  ASSUME KInv, phase = "detach", at[Base] > First, NEW c \in Choice, Applies(Program[at[Base]], c), Unapply(c)
  PROVE  /\ values' = [values EXCEPT ![Base][c] = None] /\ ucs' = [ucs EXCEPT ![Base] = @ \ {c}]
         /\ c \in ucs[Base] /\ UnregisterInScope(Default, c, c) /\ tags' = tags
         /\ Op[c] \in Maker /\ getMadeSP(Base, Op[c]) # None
         /\ Update(Base, Op[c], Unincorporate(StatisticsOf(Base, Op[c]), values[Base][c]))
         /\ Unincorporate(StatisticsOf(Base, Op[c]), values[Base][c]) \in Statistics
         /\ \A u \in Trace : u # Base => values'[u] = values[u] /\ ucs'[u] = ucs[u] /\ aux'[u] = aux[u]
         /\ ucs' \in [Trace -> SUBSET Choice]
<1>0. Steady /\ Base \in Trace BY SteadyThere
<1>1. /\ values' = [values EXCEPT ![Base][c] = None] /\ ucs' = [ucs EXCEPT ![Base] = @ \ {c}]
      /\ c \in ucs[Base] /\ UnregisterInScope(Default, c, c) /\ tags' = tags
      /\ Update(Base, Op[c], Unincorporate(StatisticsOf(Base, Op[c]), values[Base][c]))
  BY DEF Unapply, unregisterUnconstrainedChoice, UnregisterInScope
<1>2. /\ values \in [Trace -> [Choice -> Value \cup {None}]] /\ ucs \in [Trace -> SUBSET Choice]
      /\ aux \in [Trace -> [Maker -> Maybe(Pointer)]]
  BY DEF KInv, JInv, ValuesOK, Consistent, RegisterTypes, Statics, PointerTypes
<1>3. Op[c] \in Maker /\ getMadeSP(Base, Op[c]) # None
  BY <1>0, UndoneIsMade DEF KInv, Consistent, getMadeSP
<1>4. Unincorporate(StatisticsOf(Base, Op[c]), values[Base][c]) \in Statistics
  BY <1>0, <1>3, StatisticsThere, CountsTyped
<1>5. \A u \in Trace : u # Base => values'[u] = values[u] /\ ucs'[u] = ucs[u] /\ aux'[u] = aux[u]
  BY <1>1, <1>2 DEF Update
<1>6. ucs' \in [Trace -> SUBSET Choice] BY <1>0, <1>1, <1>2
<1> QED BY <1>1, <1>3, <1>4, <1>5, <1>6

LEMMA UndoneStatics ==
  ASSUME KInv, Retreated, NEW c \in Choice, Applies(Program[at[Base]], c),
         NEW s \in Statistics, Update(Base, Op[c], s),
         UNCHANGED <<aaa, discarded, sps, saved>>, db'.aux = db.aux,
         \A u \in Trace, n \in Maker : getMadeSP(u, n) = None => families'[u][n] = families[u][n]
  PROVE  Statics'
<1>1. Steady /\ Base \in Trace /\ MadeOK /\ Statics /\ DBTypes
  BY SteadyThere DEF KInv, Consistent
<1>2. Op[c] \in Maker /\ getMadeSP(Base, Op[c]) # None
  BY <1>1, UndoneIsMade DEF getMadeSP, Retreated
<1>3. Sole(Base, Op[c]) BY DEF Sole
<1>4. UNCHANGED <<aaa, discarded, sps, saved, phase, round, group, live>> /\ phase = "detach"
  BY DEF Retreated
<1>5. Running(Base)' => Running(Base) BY <1>4 DEF Running
<1> QED BY <1>1, <1>2, <1>3, <1>4, <1>5, UpdateKeeps

LEMMA UndrawEffect ==
  ASSUME KInv, NEW c \in Choice, UndrawStep(c)
  PROVE  /\ Latest(Draw(c)) /\ Undo(db') /\ Unapply(c)
         /\ db' = Detached([db.values EXCEPT ![c] = values[Base][c]], db.requests, db.sps, db.aux)
         /\ db'.aux = db.aux
         /\ UNCHANGED <<saved, ccs, esrRoots, numRequests, children, sps, families, aaa, discarded>>
<1>1. PICK d : d = [db EXCEPT !.values[c] = values[Base][c]] OBVIOUS
<1>2. /\ Latest(Draw(c)) /\ Undo(d) /\ Unapply(c)
      /\ UNCHANGED <<saved, ccs, esrRoots, numRequests, children, sps, families, aaa, discarded>>
  BY <1>1 DEF UndrawStep
<1>3. db' = d BY <1>2 DEF Undo
<1>4. PICK v, r, s, x : v = db.values /\ r = db.requests /\ s = db.sps /\ x = db.aux /\ db = Detached(v, r, s, x)
  BY DEF KInv, Consistent, DBTypes
<1>5. d = Detached([v EXCEPT ![c] = values[Base][c]], r, s, x)
  BY <1>1, <1>4 DEF Detached
<1> QED BY <1>2, <1>3, <1>4, <1>5, DetachedParts

LEMMA UndrawRest ==
  ASSUME KInv, NEW c \in Choice, UndrawStep(c)
  PROVE  Consistent'
<1>0. Base \in Trace /\ Base \notin Particle /\ Particle \subseteq Trace BY SteadyThere
<1>1. RegisterTypes /\ NodeTypes /\ MakerTypes /\ DBTypes BY DEF KInv, Consistent
<1>2. /\ Latest(Draw(c)) /\ Undo(db') /\ Unapply(c)
      /\ db' = Detached([db.values EXCEPT ![c] = values[Base][c]], db.requests, db.sps, db.aux)
      /\ db'.aux = db.aux
      /\ UNCHANGED <<saved, ccs, esrRoots, numRequests, children, sps, families, aaa, discarded>>
  BY UndrawEffect
<1>3. /\ phase = "detach" /\ at[Base] > First /\ Program[at[Base]] = Draw(c)
      /\ at' = [at EXCEPT ![Base] = @ - 1]
      /\ UNCHANGED <<phase, round, group, live>>
  BY <1>2, UndoEffect
<1>4. Applies(Program[at[Base]], c) BY <1>3 DEF Applies
<1>5. /\ tags' = tags
      /\ Update(Base, Op[c], Unincorporate(StatisticsOf(Base, Op[c]), values[Base][c]))
      /\ Unincorporate(StatisticsOf(Base, Op[c]), values[Base][c]) \in Statistics
      /\ \A u \in Trace : u # Base => values'[u] = values[u] /\ ucs'[u] = ucs[u] /\ aux'[u] = aux[u]
      /\ ucs' \in [Trace -> SUBSET Choice]
  BY <1>2, <1>3, <1>4, UnapplyEffect
<1>6. Retreated BY <1>2, <1>3 DEF Retreated
<1>7. Untouched(Base) BY <1>2, <1>5 DEF Untouched
<1>8. MoveTypes' /\ Stages' /\ MadeOK' /\ RequestedOK' /\ ValuedOK' /\ CommitOK'
  BY <1>6, <1>7, DetachRest
<1>9. Statics' BY <1>2, <1>4, <1>5, <1>6, UndoneStatics
<1>10. RegisterTypes' /\ NodeTypes' /\ MakerTypes'
  BY <1>1, <1>2, <1>5 DEF RegisterTypes, NodeTypes, MakerTypes
<1>11. DBTypes'
  <2>1. db' = Detached(db'.values, db'.requests, db'.sps, db'.aux)
    BY <1>2, DetachedParts
  <2> QED BY <1>1, <1>2, <2>1 DEF DBTypes
<1> QED BY <1>8, <1>9, <1>10, <1>11 DEF Consistent

LEMMA UntagRest ==
  ASSUME KInv, NEW s \in Scope, NEW b \in Choice, NEW c \in Choice, UntagStep(s, b, c)
  PROVE  Consistent'
<1>0. Base \in Trace /\ Base \notin Particle /\ Particle \subseteq Trace BY SteadyThere
<1>1. RegisterTypes /\ NodeTypes /\ MakerTypes /\ DBTypes /\ Statics
  BY DEF KInv, Consistent
<1>2. /\ Latest(Tag(s, b, c)) /\ Undo(db) /\ UNCHANGED saved /\ UNCHANGED <<ucs, ccs, tags>>
      /\ UNCHANGED nodeVars /\ UNCHANGED spVars
  BY DEF UntagStep, UnregisterInScope
<1>3. /\ phase = "detach" /\ at[Base] > First /\ at' = [at EXCEPT ![Base] = @ - 1]
      /\ UNCHANGED <<phase, round, group, live>> /\ db' = db
  BY <1>2, UndoEffect
<1>4. UNCHANGED <<ucs, ccs, tags, values, esrRoots, numRequests, children, sps, families, aux, discarded>>
  BY <1>2 DEF nodeVars, spVars
<1>5. Retreated /\ Untouched(Base) BY <1>3, <1>4 DEF Retreated, Untouched
<1>6. /\ MoveTypes' /\ Stages' /\ MadeOK' /\ RequestedOK' /\ ValuedOK' /\ CommitOK'
      /\ Running(Base)' => Running(Base)
  BY <1>5, DetachRest
<1>7. Statics' BY <1>1, <1>2, <1>3, <1>6, QuietKeeps
<1>8. RegisterTypes' /\ NodeTypes' /\ MakerTypes' /\ DBTypes'
  BY <1>1, <1>2, <1>3, <1>4 DEF RegisterTypes, NodeTypes, MakerTypes, DBTypes
<1> QED BY <1>6, <1>7, <1>8 DEF Consistent

LEMMA UnabsorbRest ==
  ASSUME KInv, NEW c \in Choice, UnabsorbStep(c)
  PROVE  Consistent'
<1>0. Base \in Trace /\ Base \notin Particle /\ Particle \subseteq Trace BY SteadyThere
<1>1. /\ RegisterTypes /\ NodeTypes /\ MakerTypes /\ DBTypes /\ MadeOK
      /\ aux \in [Trace -> [Maker -> Maybe(Pointer)]]
  BY DEF KInv, Consistent, Statics, PointerTypes
<1>2. PICK s : s = Unincorporate(StatisticsOf(Base, Op[c]), values[Base][c]) OBVIOUS
<1>3. /\ Latest(Absorb(c)) /\ Undo(db) /\ Update(Base, Op[c], s)
      /\ UNCHANGED saved /\ UNCHANGED registerVars /\ UNCHANGED nodeVars
      /\ UNCHANGED <<sps, families, aaa, discarded>>
  BY <1>2 DEF UnabsorbStep
<1>4. UNCHANGED <<ucs, ccs, tags, values, esrRoots, numRequests, children>>
  BY <1>3 DEF registerVars, nodeVars
<1>5. /\ phase = "detach" /\ at[Base] > First /\ Program[at[Base]] = Absorb(c)
      /\ at' = [at EXCEPT ![Base] = @ - 1]
      /\ UNCHANGED <<phase, round, group, live>> /\ db' = db /\ Steady
  BY <1>3, UndoEffect
<1>6. Applies(Program[at[Base]], c) BY <1>5 DEF Applies
<1>7. s \in Statistics
  <2>1. Op[c] \in Maker /\ getMadeSP(Base, Op[c]) # None
    BY <1>1, <1>5, <1>6, UndoneIsMade DEF getMadeSP
  <2> QED BY <1>0, <1>2, <2>1, StatisticsThere, CountsTyped
<1>8. Retreated /\ Untouched(Base)
  BY <1>1, <1>3, <1>4, <1>5 DEF Retreated, Untouched, Update
<1>9. MoveTypes' /\ Stages' /\ MadeOK' /\ RequestedOK' /\ ValuedOK' /\ CommitOK'
  BY <1>8, DetachRest
<1>10. Statics' BY <1>3, <1>5, <1>6, <1>7, <1>8, UndoneStatics
<1>11. RegisterTypes' /\ NodeTypes' /\ MakerTypes' /\ DBTypes'
  BY <1>1, <1>3, <1>4, <1>5 DEF RegisterTypes, NodeTypes, MakerTypes, DBTypes
<1> QED BY <1>9, <1>10, <1>11 DEF Consistent

LEMMA UnobserveRest ==
  ASSUME KInv, NEW n \in Choice \cup Output, NEW v \in Value, UnobserveStep(n, v)
  PROVE  Consistent'
<1>0. Base \in Trace /\ Base \notin Particle /\ Particle \subseteq Trace BY SteadyThere
<1>1. RegisterTypes /\ NodeTypes /\ MakerTypes /\ DBTypes /\ Statics
  BY DEF KInv, Consistent
<1>2. PICK c : c = Constrainable(Base, n) OBVIOUS
<1>3. /\ Latest(Observe(n, v)) /\ Undo(db) /\ UNCHANGED saved
      /\ c \in ccs[Base] /\ ccs' = [ccs EXCEPT ![Base] = @ \ {c}]
      /\ ucs' = [ucs EXCEPT ![Base] = @ \cup {c}] /\ tags' = tags
      /\ UNCHANGED nodeVars /\ UNCHANGED spVars
  BY <1>2 DEF UnobserveStep, registerUnconstrainedChoice, RegisterInScope
<1>4. /\ phase = "detach" /\ at[Base] > First /\ at' = [at EXCEPT ![Base] = @ - 1]
      /\ UNCHANGED <<phase, round, group, live>> /\ db' = db
  BY <1>3, UndoEffect
<1>5. UNCHANGED <<values, esrRoots, numRequests, children, sps, families, aux, discarded>>
  BY <1>3 DEF nodeVars, spVars
<1>6. Retreated /\ Untouched(Base)
  BY <1>1, <1>3, <1>4, <1>5 DEF Retreated, Untouched, RegisterTypes
<1>7. /\ MoveTypes' /\ Stages' /\ MadeOK' /\ RequestedOK' /\ ValuedOK' /\ CommitOK'
      /\ Running(Base)' => Running(Base)
  BY <1>6, DetachRest
<1>8. Statics' BY <1>1, <1>3, <1>4, <1>7, QuietKeeps
<1>9. RegisterTypes' BY <1>0, <1>1, <1>3 DEF RegisterTypes
<1>10. NodeTypes' /\ MakerTypes' /\ DBTypes'
  BY <1>1, <1>3, <1>4, <1>5 DEF NodeTypes, MakerTypes, DBTypes
<1> QED BY <1>7, <1>8, <1>9, <1>10 DEF Consistent

LEMMA UnrequestEffect ==
  ASSUME KInv, NEW o \in Output, NEW m \in Maker, UnrequestStep(o, m)
  PROVE  \E c, id :
           /\ c = esrRoots[Base][o] /\ c \in Roots /\ c \in Choice /\ id \in Id /\ Root[id] = c
           /\ id = (CHOOSE i \in Id : Root[i] = c)
           /\ Latest(Request(o, m)) /\ Undo(db') /\ o \in children[Base][c]
           /\ esrRoots' = [esrRoots EXCEPT ![Base][o] = None]
           /\ children' = [children EXCEPT ![Base][c] = @ \ {o}]
           /\ numRequests' = [numRequests EXCEPT ![Base][c] = @ - 1]
           /\ saved' = saved /\ db'.aux = db.aux
           /\ SharedRequest(o, c, id) \/ LastRequest(o, m, c, id)
<1>1. PICK c, id : c = esrRoots[Base][o] /\ id = CHOOSE i \in Id : Root[i] = c OBVIOUS
<1>2. PICK d, e : /\ d = [db EXCEPT !.requests[o] = id]
                  /\ e = [db EXCEPT !.requests[o] = id, !.values[c] = values[Base][c]]
  OBVIOUS
<1>3. /\ Latest(Request(o, m)) /\ o \in children[Base][c]
      /\ esrRoots' = [esrRoots EXCEPT ![Base][o] = None]
      /\ children' = [children EXCEPT ![Base][c] = @ \ {o}]
      /\ numRequests' = [numRequests EXCEPT ![Base][c] = @ - 1]
      /\ saved' = saved
      /\ \/ /\ numRequests[Base][c] > 1 /\ Undo(d)
            /\ UNCHANGED <<registerVars, values, spVars>>
         \/ /\ numRequests[Base][c] = 1 /\ Undo(e)
            /\ families' = [families EXCEPT ![Base][m][id] = None]
            /\ Unapply(c)
            /\ UNCHANGED <<ccs, sps, aaa, discarded>>
  BY <1>1, <1>2 DEF UnrequestStep
<1>4. /\ phase = "detach" /\ at[Base] > First /\ Program[at[Base]] = Request(o, m)
  BY <1>3 DEF Latest
<1>5. c \in Roots /\ c \in Choice
  <2>1. at[Base] \in Present(Base) BY <1>4, DetachFacts DEF Present
  <2>2. getESRParent(Base, o) # None BY <1>4, <2>1 DEF KInv, Consistent, RequestedOK
  <2>3. c # None /\ c \in Maybe(Roots)
    BY <1>1, <2>2, SteadyThere DEF getESRParent, KInv, Consistent, NodeTypes
  <2> QED BY <2>3, TorusFacts DEF Roots, Maybe
<1>6. id \in Id /\ Root[id] = c
  <2>1. \E i \in Id : Root[i] = c BY <1>5 DEF Roots
  <2> QED BY <1>1, <2>1
<1>7. PICK v, r, s, x : v = db.values /\ r = db.requests /\ s = db.sps /\ x = db.aux /\ db = Detached(v, r, s, x)
  BY DEF KInv, Consistent, DBTypes
<1>8. d = Detached(v, [r EXCEPT ![o] = id], s, x) BY <1>2, <1>7 DEF Detached
<1>9. e = Detached([v EXCEPT ![c] = values[Base][c]], [r EXCEPT ![o] = id], s, x)
  <2>1. e = [d EXCEPT !.values[c] = values[Base][c]] BY <1>2
  <2> QED BY <1>8, <2>1 DEF Detached
<1>10. Undo(db') /\ db'.aux = db.aux /\ (SharedRequest(o, c, id) \/ LastRequest(o, m, c, id))
  <2>1. CASE numRequests[Base][c] > 1 /\ Undo(d) /\ UNCHANGED <<registerVars, values, spVars>>
    <3>1. db' = d /\ Undo(db') BY <2>1 DEF Undo
    <3>2. db'.aux = db.aux BY <1>7, <1>8, <3>1, DetachedParts
    <3>3. SharedRequest(o, c, id) BY <1>7, <1>8, <2>1, <3>1 DEF SharedRequest
    <3> QED BY <3>1, <3>2, <3>3
  <2>2. CASE /\ numRequests[Base][c] = 1 /\ Undo(e)
             /\ families' = [families EXCEPT ![Base][m][id] = None]
             /\ Unapply(c)
             /\ UNCHANGED <<ccs, sps, aaa, discarded>>
    <3>1. db' = e /\ Undo(db') BY <2>2 DEF Undo
    <3>2. db'.aux = db.aux BY <1>7, <1>9, <3>1, DetachedParts
    <3>3. LastRequest(o, m, c, id) BY <1>7, <1>9, <2>2, <3>1 DEF LastRequest
    <3> QED BY <3>1, <3>2, <3>3
  <2> QED BY <1>3, <2>1, <2>2
<1> QED BY <1>1, <1>3, <1>5, <1>6, <1>10

LEMMA UnrequestRest ==
  ASSUME KInv, NEW o \in Output, NEW m \in Maker, UnrequestStep(o, m)
  PROVE  Consistent'
<1>0. Base \in Trace /\ Base \notin Particle /\ Particle \subseteq Trace BY SteadyThere
<1>1. /\ RegisterTypes /\ NodeTypes /\ MakerTypes /\ DBTypes /\ Statics
      /\ esrRoots \in [Trace -> [Output -> Maybe(Roots)]]
      /\ numRequests \in [Trace -> [Choice -> Maybe(Int)]] /\ numRequests[Base] \in [Choice -> Int]
      /\ children \in [Trace -> [Choice -> SUBSET Output]]
      /\ families \in [Trace -> [Maker -> [Id -> Maybe(Roots)]]]
  BY DEF KInv, Consistent, NodeTypes, MakerTypes
<1>2. PICK c, id :
        /\ c = esrRoots[Base][o] /\ c \in Roots /\ c \in Choice /\ id \in Id /\ Root[id] = c
        /\ id = (CHOOSE i \in Id : Root[i] = c)
        /\ Latest(Request(o, m)) /\ Undo(db') /\ o \in children[Base][c]
        /\ esrRoots' = [esrRoots EXCEPT ![Base][o] = None]
        /\ children' = [children EXCEPT ![Base][c] = @ \ {o}]
        /\ numRequests' = [numRequests EXCEPT ![Base][c] = @ - 1]
        /\ saved' = saved /\ db'.aux = db.aux
        /\ SharedRequest(o, c, id) \/ LastRequest(o, m, c, id)
  BY UnrequestEffect
<1>3. /\ phase = "detach" /\ at[Base] > First /\ Program[at[Base]] = Request(o, m)
      /\ at' = [at EXCEPT ![Base] = @ - 1]
      /\ UNCHANGED <<phase, round, group, live>>
  BY <1>2, UndoEffect
<1>4. Applies(Program[at[Base]], c) BY <1>2, <1>3 DEF Applies
<1>5. NodeTypes'
  <2>1. esrRoots' \in [Trace -> [Output -> Maybe(Roots)]]
    <3>1. None \in Maybe(Roots) BY DEF Maybe
    <3> QED BY <1>0, <1>1, <1>2, <3>1, SetTyped
  <2>2. numRequests' \in [Trace -> [Choice -> Maybe(Int)]] /\ numRequests'[Base] \in [Choice -> Int]
    <3>1. PICK n \in Int : n = numRequests[Base][c] - 1 BY <1>1, <1>2
    <3>2. numRequests' = [numRequests EXCEPT ![Base][c] = n] /\ n \in Maybe(Int)
      BY <1>2, <3>1 DEF Maybe
    <3>3. numRequests' \in [Trace -> [Choice -> Maybe(Int)]]
      BY <1>0, <1>1, <3>2, SetTyped
    <3>4. numRequests'[Base] \in [Choice -> Int] BY <1>0, <1>1, <3>1, <3>2
    <3> QED BY <3>3, <3>4
  <2>3. children' \in [Trace -> [Choice -> SUBSET Output]]
    <3>1. children' = [children EXCEPT ![Base][c] = children[Base][c] \ {o}] BY <1>2
    <3>2. PICK s : s = children[Base][c] \ {o} OBVIOUS
    <3>3. s \in SUBSET Output BY <1>0, <1>1, <1>2, <3>2
    <3>4. children' = [children EXCEPT ![Base][c] = s] BY <3>1, <3>2
    <3>5. children \in [Trace -> [Choice -> SUBSET Output]] BY <1>1
    <3> QED BY <1>0, <3>3, <3>4, <3>5, SetTyped
  <2> QED BY <2>1, <2>2, <2>3 DEF NodeTypes
<1>6. \A u \in Trace : u # Base => /\ esrRoots'[u] = esrRoots[u] /\ numRequests'[u] = numRequests[u]
                                   /\ children'[u] = children[u]
  BY <1>1, <1>2
<1>7. \A k \in Output : esrRoots[Base][k] # None =>
        esrRoots'[Base][k] # None \/ \E n \in Maker : Program[at[Base]] = Request(k, n)
  BY <1>0, <1>1, <1>2, <1>3
<1>8. DBTypes'
  <2>1. db' = Detached(db'.values, db'.requests, db'.sps, db'.aux)
    <3>1. \E v, r, s, x : db' = Detached(v, r, s, x)
      BY <1>2 DEF SharedRequest, LastRequest
    <3> QED BY <3>1, DetachedParts
  <2> QED BY <1>1, <1>2, <2>1 DEF DBTypes
<1>9. CASE SharedRequest(o, c, id)
  <2>1. /\ UNCHANGED <<ucs, ccs, tags, values, sps, families, aux, discarded>>
        /\ UNCHANGED spVars
    BY <1>9 DEF SharedRequest, registerVars, spVars
  <2>2. Retreated /\ Untouched(Base) BY <1>3, <1>6, <1>7, <2>1 DEF Retreated, Untouched
  <2>3. /\ MoveTypes' /\ Stages' /\ MadeOK' /\ RequestedOK' /\ ValuedOK' /\ CommitOK'
        /\ Running(Base)' => Running(Base)
    BY <2>2, DetachRest
  <2>4. Statics' BY <1>1, <1>2, <1>3, <2>1, <2>3, QuietKeeps
  <2>5. RegisterTypes' /\ MakerTypes' BY <1>1, <2>1 DEF RegisterTypes, MakerTypes
  <2> QED BY <1>5, <1>8, <2>3, <2>4, <2>5 DEF Consistent
<1>10. CASE LastRequest(o, m, c, id)
  <2>1. /\ families' = [families EXCEPT ![Base][m][id] = None] /\ Unapply(c)
        /\ UNCHANGED <<ccs, sps, aaa, discarded>>
    BY <1>10 DEF LastRequest
  <2>2. /\ tags' = tags
        /\ Update(Base, Op[c], Unincorporate(StatisticsOf(Base, Op[c]), values[Base][c]))
        /\ Unincorporate(StatisticsOf(Base, Op[c]), values[Base][c]) \in Statistics
        /\ \A u \in Trace : u # Base => values'[u] = values[u] /\ ucs'[u] = ucs[u] /\ aux'[u] = aux[u]
        /\ ucs' \in [Trace -> SUBSET Choice]
    BY <1>2, <1>3, <1>4, <2>1, UnapplyEffect
  <2>3. /\ families' \in [Trace -> [Maker -> [Id -> Maybe(Roots)]]]
        /\ \A u \in Trace, n \in Maker : u # Base \/ n # m => families'[u][n] = families[u][n]
        /\ \A u \in Trace : u # Base => families'[u] = families[u]
    <3>1. PICK f : f = [families[Base][m] EXCEPT ![id] = None] OBVIOUS
    <3>2. f \in [Id -> Maybe(Roots)] /\ families' = [families EXCEPT ![Base][m] = f]
      BY <1>0, <1>1, <1>2, <2>1, <3>1 DEF Maybe
    <3>3. families' \in [Trace -> [Maker -> [Id -> Maybe(Roots)]]]
      BY <1>0, <1>1, <3>2, SetTyped
    <3> QED BY <1>1, <3>2, <3>3
  <2>4. Retreated /\ Untouched(Base)
    BY <1>3, <1>6, <1>7, <2>1, <2>2, <2>3 DEF Retreated, Untouched
  <2>5. MoveTypes' /\ Stages' /\ MadeOK' /\ RequestedOK' /\ ValuedOK' /\ CommitOK'
    BY <2>4, DetachRest
  <2>6. Statics'
    <3>1. \A u \in Trace, n \in Maker : getMadeSP(u, n) = None => families'[u][n] = families[u][n]
      <4> SUFFICES ASSUME NEW n \in Maker, getMadeSP(Base, n) = None, n = m
                   PROVE  families'[Base][n] = families[Base][n]
        BY <2>3
      <4>1. families[Base][m] = [i \in Id |-> None] BY <1>0, <1>1 DEF Statics, MakersOK
      <4> QED BY <1>0, <1>1, <1>2, <2>1, <4>1
    <3> QED BY <1>2, <1>4, <2>1, <2>2, <2>4, <3>1, UndoneStatics
  <2>7. RegisterTypes' /\ MakerTypes'
    BY <1>1, <2>1, <2>2, <2>3 DEF RegisterTypes, MakerTypes
  <2> QED BY <1>5, <1>8, <2>5, <2>6, <2>7 DEF Consistent
<1> QED BY <1>2, <1>9, <1>10

LEMMA DetachConsistent ==
  ASSUME KInv, Detach
  PROVE  Consistent'
BY UnmakeRest, UnrequestRest, UndrawRest, UnabsorbRest, UntagRest, UnobserveRest DEF Detach

-----------------------------------------------------------------------------
(* The move itself.                                                        *)
LEMMA BeginDetachRest ==
  ASSUME KInv, BeginDetach
  PROVE  Consistent'
<1>0. Steady /\ Base \in Trace /\ Base \notin Particle /\ Particle \subseteq Trace
  BY SteadyThere
<1>1. /\ RegisterTypes /\ NodeTypes /\ MakerTypes /\ DBTypes /\ MoveTypes /\ Stages /\ MadeOK /\ RequestedOK
      /\ Statics
  BY DEF KInv, Consistent
<1>2. /\ phase = "regen" /\ at[Base] = Len(Program) /\ phase' = "detach" /\ round' = round + 1
      /\ at' = [at EXCEPT ![Base] = TorusEnd] /\ saved' = [m \in Maker |-> None]
      /\ UNCHANGED <<group, live, db, committing, toTag, toConstrain>>
      /\ UNCHANGED <<ucs, ccs, scopes, tags, values, esrRoots, numRequests, children>>
      /\ UNCHANGED <<sps, families, aux, heap, aaa, discarded>>
  BY DEF BeginDetach, registerVars, nodeVars, spVars
<1>3. RegisterTypes' /\ NodeTypes' /\ MakerTypes'
  BY <1>1, <1>2 DEF RegisterTypes, NodeTypes, MakerTypes
<1>4. DBTypes' BY <1>1, <1>2, BlankTable DEF DBTypes
<1>5. MoveTypes' /\ at'[Base] = TorusEnd BY <1>0, <1>1, <1>2, TorusFacts DEF MoveTypes
<1>6. Stages'
  <2>1. \A p \in Particle \ live' : Recordless(p)' BY <1>1, <1>2 DEF Stages, Recordless
  <2>2. live = {} /\ group = 0 BY <1>1, <1>2 DEF Stages
  <2> QED BY <1>2, <1>5, <2>1, <2>2, TorusFacts DEF Stages
<1>7. Present(Base)' = Present(Base) /\ live = {}
  <2>1. \A j \in DOMAIN Program : j \in Nat /\ j <= Len(Program) /\ (j <= TorusEnd \/ j > TorusEnd)
    BY TorusFacts
  <2> QED BY <1>1, <1>2, <1>5, <2>1 DEF Present, Stages
<1>8. MadeOK' /\ RequestedOK'
  BY <1>1, <1>2, <1>7 DEF MadeOK, RequestedOK, getMadeSP, getESRParent
<1>9. ValuedOK' /\ CommitOK' BY <1>2, <1>7 DEF ValuedOK, CommitOK
<1>10. Statics' BY <1>0, <1>1, BeginDetachStatics
<1> QED BY <1>3, <1>4, <1>5, <1>6, <1>8, <1>9, <1>10 DEF Consistent

LEMMA BeginProposeRest ==
  ASSUME KInv, BeginPropose
  PROVE  Consistent'
<1>0. Steady /\ Base \in Trace /\ Base \notin Particle /\ Particle \subseteq Trace
  BY SteadyThere
<1>1. /\ RegisterTypes /\ NodeTypes /\ MakerTypes /\ DBTypes /\ MoveTypes /\ Stages /\ MadeOK /\ RequestedOK
      /\ Statics
  BY DEF KInv, Consistent
<1>2. /\ phase = "detach" /\ at[Base] = First /\ phase' = "propose" /\ group' = 1
      /\ UNCHANGED <<round, live, at, db, committing, toTag, toConstrain, saved>>
      /\ UNCHANGED <<ucs, ccs, scopes, tags, values, esrRoots, numRequests, children>>
      /\ UNCHANGED <<sps, families, aux, heap, aaa, discarded>>
  BY DEF BeginPropose, registerVars, nodeVars, spVars
<1>3. RegisterTypes' /\ NodeTypes' /\ MakerTypes' /\ DBTypes' /\ MoveTypes'
  BY <1>1, <1>2 DEF RegisterTypes, NodeTypes, MakerTypes, DBTypes, MoveTypes
<1>4. live = {} BY <1>1, <1>2 DEF Stages
<1>5. Stages'
  <2>1. \A p \in Particle \ live' : Recordless(p)' BY <1>1, <1>2 DEF Stages, Recordless
  <2>2. Proposing'
    <3>1. 1 \in 1 .. Len(Ends) + 1 BY TorusFacts
    <3> QED BY <1>2, <1>4, <3>1 DEF Proposing
  <2> QED BY <1>2, <2>1, <2>2 DEF Stages
<1>6. Present(Base)' = Present(Base) BY <1>2 DEF Present
<1>7. MadeOK' /\ RequestedOK'
  BY <1>1, <1>2, <1>4, <1>6 DEF MadeOK, RequestedOK, getMadeSP, getESRParent
<1>8. ValuedOK' /\ CommitOK' BY <1>2, <1>4 DEF ValuedOK, CommitOK
<1>9. Statics' BY <1>0, <1>1, BeginProposeStatics
<1> QED BY <1>3, <1>5, <1>7, <1>8, <1>9 DEF Consistent

LEMMA SpawnRest ==
  ASSUME KInv, NEW p \in Particle, Spawn(p)
  PROVE  Consistent'
<1>0. Steady /\ Base \in Trace /\ Base \notin Particle /\ Particle \subseteq Trace
  BY SteadyThere
<1>1. /\ RegisterTypes /\ NodeTypes /\ MakerTypes /\ DBTypes /\ MoveTypes /\ Stages /\ MadeOK /\ RequestedOK
      /\ ValuedOK /\ Statics
      /\ live \subseteq Particle
  BY <1>0 DEF KInv, Consistent, Steady
<1>2. /\ phase = "propose" /\ group = 1 /\ p \in Generation(1) /\ p \notin live
      /\ live' = live \cup {p} /\ at' = [at EXCEPT ![p] = First]
      /\ UNCHANGED <<phase, round, group, db, committing, toTag, toConstrain, saved>>
      /\ UNCHANGED <<ucs, ccs, scopes, tags, values, esrRoots, numRequests, children>>
      /\ UNCHANGED <<sps, families, aux, heap, aaa, discarded>>
  BY DEF Spawn, registerVars, nodeVars, spVars
<1>3. RegisterTypes' /\ NodeTypes' /\ MakerTypes' /\ DBTypes'
  BY <1>1, <1>2 DEF RegisterTypes, NodeTypes, MakerTypes, DBTypes
<1>4. MoveTypes' /\ at'[p] = First /\ \A u \in Trace : u # p => at'[u] = at[u]
  BY <1>0, <1>1, <1>2, TorusFacts DEF MoveTypes
<1>5. Recordless(p) /\ \A q \in Particle \ live : Recordless(q)'
  BY <1>1, <1>2 DEF Stages, Recordless
<1>6. Stages'
  <2>1. Proposing'
    <3>1. p[1] = 1 /\ First \in First .. TorusEnd BY <1>2, TorusFacts DEF Generation
    <3>2. /\ group \in 1 .. Len(Ends) + 1
          /\ \A q \in live : q[1] \in {group - 1, group} /\ at[q] \in First .. TorusEnd
      BY <1>1, <1>2 DEF Stages, Proposing
    <3>3. \A q \in live' : q[1] \in {group - 1, group} /\ at'[q] \in First .. TorusEnd
      BY <1>0, <1>1, <1>2, <1>4, <3>1, <3>2
    <3> QED BY <1>2, <3>2, <3>3 DEF Proposing
  <2>2. at'[Base] = at[Base] BY <1>0, <1>4
  <2> QED BY <1>1, <1>2, <1>5, <2>1, <2>2 DEF Stages
<1>7. /\ \A u \in {Base} \cup live : Present(u)' = Present(u)
      /\ Present(p)' = {}
  <2>1. First + 1 .. First = {} BY TorusFacts
  <2> QED BY <1>0, <1>1, <1>2, <1>4, <2>1 DEF Present
<1>8. MadeOK' /\ RequestedOK'
  <2>1. /\ \A u \in Trace, m \in Maker : getMadeSP(u, m)' = getMadeSP(u, m)
        /\ \A u \in Trace, o \in Output : getESRParent(u, o)' = getESRParent(u, o)
        /\ \A o \in Output : esrRoots[p][o] = None
    BY <1>2, <1>5 DEF getMadeSP, getESRParent, Recordless
  <2>2. {Base} \cup live' = {Base} \cup live \cup {p} /\ {Base} \cup live' \subseteq Trace
    BY <1>0, <1>1, <1>2
  <2>3. MadeOK'
    <3> SUFFICES ASSUME NEW u \in {Base} \cup live', NEW m \in Maker, NEW j \in Present(u)',
                        Program[j] = Make(m)
                 PROVE  getMadeSP(u, m)' # None
      BY DEF MadeOK
    <3>1. u \in {Base} \cup live /\ j \in Present(u) BY <1>7, <2>2
    <3> QED BY <1>1, <2>1, <2>2, <3>1 DEF MadeOK
  <2>4. RequestedOK'
    <3>1. ASSUME NEW u \in {Base} \cup live', NEW o \in Output, NEW m \in Maker, NEW j \in Present(u)',
                 Program[j] = Request(o, m)
          PROVE  getESRParent(u, o)' # None
      <4>1. u \in {Base} \cup live /\ j \in Present(u) BY <1>7, <2>2
      <4> QED BY <1>1, <2>1, <2>2, <3>1, <4>1 DEF RequestedOK
    <3>2. ASSUME NEW u \in live', NEW o \in Output, esrRoots'[u][o] # None
          PROVE  \E j \in Present(u)', m \in Maker : Program[j] = Request(o, m)
      <4>1. u \in live /\ esrRoots[u][o] # None BY <1>2, <2>1, <3>2
      <4> QED BY <1>1, <1>7, <4>1 DEF RequestedOK
    <3> QED BY <3>1, <3>2 DEF RequestedOK
  <2> QED BY <2>3, <2>4
<1>9. ValuedOK' /\ CommitOK'
  BY <1>1, <1>2, <1>5 DEF ValuedOK, CommitOK, Recordless, getValue
<1>10. Statics' BY <1>0, <1>1, SpawnStatics
<1> QED BY <1>3, <1>4, <1>6, <1>8, <1>9, <1>10 DEF Consistent

(* A particle and its copy answer alike.                                   *)
LEMMA CopiedAnswers ==
  ASSUME NEW X, DOMAIN X = Trace, NEW p \in Trace, NEW q \in Trace, NEW Y, Y = Copied(X, p, q)
  PROVE  Y[q] = X[p] /\ \A u \in Trace : u # q => Y[u] = X[u]
BY DEF Copied

LEMMA CloneRest ==
  ASSUME KInv, NEW p \in Particle, NEW q \in Particle, Clone(p, q)
  PROVE  Consistent'
<1>0. Steady /\ Base \in Trace /\ Base \notin Particle /\ Particle \subseteq Trace
  BY SteadyThere
<1>1. /\ RegisterTypes /\ NodeTypes /\ MakerTypes /\ DBTypes /\ MoveTypes /\ Stages /\ MadeOK /\ RequestedOK
      /\ ValuedOK /\ Statics
      /\ live \subseteq Particle
  BY <1>0 DEF KInv, Consistent, Steady
<1>2. /\ phase = "propose" /\ group > 1 /\ group <= Len(Ends) /\ p \in Generation(group - 1)
      /\ q \in Generation(group) /\ q \notin live
      /\ live' = live \cup {q} /\ at' = Copied(at, p, q)
      /\ UNCHANGED <<phase, round, group, db, committing, toTag, toConstrain, saved>>
      /\ ucs' = Copied(ucs, p, q) /\ ccs' = Copied(ccs, p, q) /\ tags' = Copied(tags, p, q)
      /\ values' = Copied(values, p, q) /\ esrRoots' = Copied(esrRoots, p, q)
      /\ numRequests' = Copied(numRequests, p, q) /\ children' = Copied(children, p, q)
      /\ sps' = Copied(sps, p, q) /\ families' = Copied(families, p, q)
      /\ discarded' = Copied(discarded, p, q)
  BY DEF Clone, Parent
<1>3. RegisterTypes' BY <1>0, <1>1, <1>2, CopyTyped DEF RegisterTypes
<1>4. p \in Trace /\ q \in Trace /\ p # Base /\ q # Base BY <1>0
<1>5. /\ /\ ucs'[q] = ucs[p] /\ ccs'[q] = ccs[p] /\ values'[q] = values[p] /\ esrRoots'[q] = esrRoots[p]
         /\ numRequests'[q] = numRequests[p] /\ children'[q] = children[p] /\ sps'[q] = sps[p]
         /\ families'[q] = families[p] /\ at'[q] = at[p]
      /\ \A u \in Trace : u # q =>
           /\ ucs'[u] = ucs[u] /\ ccs'[u] = ccs[u] /\ values'[u] = values[u] /\ esrRoots'[u] = esrRoots[u]
           /\ numRequests'[u] = numRequests[u] /\ children'[u] = children[u] /\ sps'[u] = sps[u]
           /\ families'[u] = families[u] /\ at'[u] = at[u]
  <2>1. /\ DOMAIN ucs = Trace /\ DOMAIN ccs = Trace /\ DOMAIN values = Trace /\ DOMAIN esrRoots = Trace
        /\ DOMAIN numRequests = Trace /\ DOMAIN children = Trace /\ DOMAIN sps = Trace
        /\ DOMAIN families = Trace /\ DOMAIN at = Trace
    BY <1>1 DEF KInv, JInv, ValuesOK, RegisterTypes, NodeTypes, MakerTypes, MoveTypes
  <2> QED BY <1>2, <1>4, <2>1, CopiedAnswers
<1>6. \A u \in Particle : u # q => tags'[u] = tags[u] /\ discarded'[u] = discarded[u]
  <2>1. DOMAIN tags = Particle /\ DOMAIN discarded = Particle
    BY <1>1 DEF KInv, JInv, IInv, Records, MakerTypes
  <2> QED BY <1>2, <2>1 DEF Copied
<1>7. NodeTypes'
  <2>1. /\ esrRoots' \in [Trace -> [Output -> Maybe(Roots)]]
        /\ numRequests' \in [Trace -> [Choice -> Maybe(Int)]]
        /\ children' \in [Trace -> [Choice -> SUBSET Output]]
    BY <1>1, <1>2, <1>4, CopyTyped DEF NodeTypes
  <2> QED BY <1>0, <1>1, <1>4, <1>5, <2>1 DEF NodeTypes
<1>8. MakerTypes'
  <2>1. sps' \in [Trace -> [Maker -> Maybe(Proc)]] /\ families' \in [Trace -> [Maker -> [Id -> Maybe(Roots)]]]
    BY <1>1, <1>2, <1>4, CopyTyped DEF MakerTypes
  <2>2. discarded' \in [Particle -> SUBSET AAA] BY <1>1, <1>2 DEF MakerTypes, Copied
  <2> QED BY <2>1, <2>2 DEF MakerTypes
<1>9. DBTypes' /\ MoveTypes'
  <2>1. at' \in [Trace -> Nat] BY <1>1, <1>2, <1>4, CopyTyped DEF MoveTypes
  <2> QED BY <1>1, <1>2, <2>1 DEF DBTypes, MoveTypes
<1>10. p \in live /\ Ended(p) BY <1>1, <1>2 DEF Stages, Proposing, Ended
<1>11. Stages'
  <2>1. Proposing'
    <3>1. /\ group \in 1 .. Len(Ends) + 1
          /\ \A r \in live : r[1] \in {group - 1, group} /\ at[r] \in First .. TorusEnd
          /\ \A r \in Generation(group - 1) : Ended(r)
      BY <1>1, <1>2 DEF Stages, Proposing
    <3>2. q[1] = group BY <1>2 DEF Generation
    <3>3. \A r \in live' : r[1] \in {group - 1, group} /\ at'[r] \in First .. TorusEnd
      BY <1>0, <1>1, <1>2, <1>5, <1>10, <3>1, <3>2
    <3>4. \A r \in Generation(group - 1) : Ended(r)'
      <4> SUFFICES ASSUME NEW r \in Generation(group - 1) PROVE Ended(r)' OBVIOUS
      <4>1. Ended(r) /\ r \in live /\ r # q /\ r \in Trace
        BY <1>0, <1>1, <1>2, <3>1 DEF Ended
      <4> QED BY <1>2, <1>5, <4>1 DEF Ended
    <3> QED BY <1>2, <3>1, <3>3, <3>4 DEF Proposing
  <2>2. \A r \in Particle \ live' : Recordless(r)'
    <3> SUFFICES ASSUME NEW r \in Particle, r \notin live, r # q PROVE Recordless(r)'
      BY <1>2
    <3>1. Recordless(r) /\ r \in Trace BY <1>0, <1>1 DEF Stages
    <3>2. aux'[r] = aux[r]
      <4>1. aux' = [aux EXCEPT ![q] = [m \in Maker |-> IF aux[p][m] = None THEN None ELSE NewAux(q, m)]]
        BY DEF Clone
      <4>2. DOMAIN aux = Trace BY <1>1 DEF Statics, PointerTypes
      <4> QED BY <3>1, <4>1, <4>2
    <3> QED BY <1>5, <1>6, <3>1, <3>2 DEF Recordless
  <2>3. at'[Base] = at[Base] BY <1>0, <1>4, <1>5
  <2> QED BY <1>1, <1>2, <2>1, <2>2, <2>3 DEF Stages
<1>12. /\ \A u \in {Base} \cup live : Present(u)' = Present(u)
       /\ Present(q)' = Present(p)
       /\ {Base} \cup live' = {Base} \cup live \cup {q} /\ {Base} \cup live' \subseteq Trace
       /\ p \in {Base} \cup live
  BY <1>0, <1>1, <1>2, <1>4, <1>5, <1>10 DEF Present
<1>13. MadeOK' /\ RequestedOK' /\ ValuedOK'
  <2> DEFINE w(u) == IF u = q THEN p ELSE u
  <2>1. \A u \in {Base} \cup live' :
          /\ w(u) \in {Base} \cup live /\ Present(u)' = Present(w(u)) /\ (u \in live' => w(u) \in live)
          /\ \A m \in Maker : getMadeSP(u, m)' = getMadeSP(w(u), m)
          /\ \A o \in Output : getESRParent(u, o)' = getESRParent(w(u), o) /\ esrRoots'[u][o] = esrRoots[w(u)][o]
          /\ \A c \in Choice : getValue(u, c)' = getValue(w(u), c)
          /\ ccs'[u] = ccs[w(u)]
    BY <1>0, <1>2, <1>4, <1>5, <1>10, <1>12 DEF getMadeSP, getESRParent, getValue
  <2>2. \A u \in Trace : ccs[u] \subseteq Choice BY <1>1 DEF RegisterTypes
  <2> HIDE DEF w
  <2>3. MadeOK' BY <1>1, <2>1 DEF MadeOK
  <2>4. RequestedOK' BY <1>1, <2>1 DEF RequestedOK
  <2>5. ValuedOK' BY <1>0, <1>1, <1>12, <2>1, <2>2 DEF ValuedOK
  <2> QED BY <2>3, <2>4, <2>5
<1>14. CommitOK' BY <1>2 DEF CommitOK
<1>15. Statics' BY <1>0, <1>1, CloneStatics
<1> QED BY <1>3, <1>7, <1>8, <1>9, <1>11, <1>13, <1>14, <1>15 DEF Consistent

LEMMA AdvanceRest ==
  ASSUME KInv, Advance
  PROVE  Consistent'
<1>0. Steady /\ Base \in Trace /\ Base \notin Particle /\ Particle \subseteq Trace
  BY SteadyThere
<1>1. /\ RegisterTypes /\ NodeTypes /\ MakerTypes /\ DBTypes /\ MoveTypes /\ Stages /\ MadeOK /\ RequestedOK
      /\ ValuedOK /\ Statics
      /\ live \subseteq Particle
  BY <1>0 DEF KInv, Consistent, Steady
<1>2. PICK gone : gone = live \ Generation(group) OBVIOUS
<1>3. /\ phase = "propose" /\ group <= Len(Ends) /\ \A r \in Generation(group) : Ended(r)
      /\ group' = group + 1 /\ live' = live \ gone
      /\ UNCHANGED <<phase, round, db, committing, toTag, toConstrain, saved>>
      /\ at' = Blank(at, gone, 0) /\ ucs' = Blank(ucs, gone, {}) /\ ccs' = Blank(ccs, gone, {})
      /\ values' = Blank(values, gone, [c \in Choice |-> None])
      /\ esrRoots' = Blank(esrRoots, gone, [o \in Output |-> None])
      /\ numRequests' = Blank(numRequests, gone, [c \in Choice |-> None])
      /\ children' = Blank(children, gone, [c \in Choice |-> {}])
      /\ sps' = Blank(sps, gone, [m \in Maker |-> None])
      /\ families' = Blank(families, gone, [m \in Maker |-> [i \in Id |-> None]])
      /\ aux' = Blank(aux, gone, [m \in Maker |-> None])
      /\ tags' = Blank(tags, gone, {}) /\ discarded' = Blank(discarded, gone, {})
  BY <1>2 DEF Advance, DropOverlays
<1>4. /\ gone \subseteq Particle /\ group \in Nat /\ group \in 1 .. Len(Ends) + 1
      /\ \A r \in live : r[1] \in {group - 1, group} /\ at[r] \in First .. TorusEnd
  BY <1>1, <1>2, <1>3 DEF Stages, Proposing, MoveTypes
<1>5. /\ \A u \in Trace : u \notin gone =>
           /\ ucs'[u] = ucs[u] /\ ccs'[u] = ccs[u] /\ values'[u] = values[u] /\ esrRoots'[u] = esrRoots[u]
           /\ numRequests'[u] = numRequests[u] /\ children'[u] = children[u] /\ sps'[u] = sps[u]
           /\ families'[u] = families[u] /\ aux'[u] = aux[u] /\ at'[u] = at[u]
      /\ \A u \in gone :
           /\ ucs'[u] = {} /\ ccs'[u] = {} /\ values'[u] = [c \in Choice |-> None]
           /\ esrRoots'[u] = [o \in Output |-> None] /\ numRequests'[u] = [c \in Choice |-> None]
           /\ children'[u] = [c \in Choice |-> {}] /\ sps'[u] = [m \in Maker |-> None]
           /\ families'[u] = [m \in Maker |-> [i \in Id |-> None]] /\ aux'[u] = [m \in Maker |-> None]
  <2>1. /\ DOMAIN ucs = Trace /\ DOMAIN ccs = Trace /\ DOMAIN values = Trace /\ DOMAIN esrRoots = Trace
        /\ DOMAIN numRequests = Trace /\ DOMAIN children = Trace /\ DOMAIN sps = Trace
        /\ DOMAIN families = Trace /\ DOMAIN aux = Trace /\ DOMAIN at = Trace
    BY <1>1 DEF KInv, JInv, ValuesOK, RegisterTypes, NodeTypes, MakerTypes, MoveTypes, Statics, PointerTypes
  <2>2. \A u \in gone : u \in Trace BY <1>0, <1>4
  <2>3. ASSUME NEW X, DOMAIN X = Trace, NEW x, NEW Y, Y = Blank(X, gone, x)
        PROVE  (\A u \in Trace : u \notin gone => Y[u] = X[u]) /\ (\A u \in gone : Y[u] = x)
    BY <2>2, <2>3 DEF Blank
  <2> QED BY <1>3, <2>1, <2>3
<1>6. \A u \in Particle : /\ u \notin gone => tags'[u] = tags[u] /\ discarded'[u] = discarded[u]
                          /\ u \in gone => tags'[u] = {} /\ discarded'[u] = {}
  <2>1. DOMAIN tags = Particle /\ DOMAIN discarded = Particle
    BY <1>1 DEF KInv, JInv, IInv, Records, MakerTypes
  <2> QED BY <1>3, <2>1 DEF Blank
<1>7. RegisterTypes' BY <1>1, <1>3, BlankTyped DEF RegisterTypes
<1>8. NodeTypes'
  <2>1. esrRoots' \in [Trace -> [Output -> Maybe(Roots)]]
        /\ numRequests' \in [Trace -> [Choice -> Maybe(Int)]]
    BY <1>1, <1>3, BlankTyped, BlankTable DEF NodeTypes
  <2>2. children' \in [Trace -> [Choice -> SUBSET Output]]
    <3>1. [c \in Choice |-> {}] \in [Choice -> SUBSET Output] OBVIOUS
    <3> QED BY <1>1, <1>3, <3>1, BlankTyped DEF NodeTypes
  <2>3. numRequests'[Base] = numRequests[Base] BY <1>0, <1>4, <1>5
  <2> QED BY <1>1, <2>1, <2>2, <2>3 DEF NodeTypes
<1>9. MakerTypes'
  <2>1. sps' \in [Trace -> [Maker -> Maybe(Proc)]]
    BY <1>1, <1>3, BlankTyped, BlankTable DEF MakerTypes
  <2>2. families' \in [Trace -> [Maker -> [Id -> Maybe(Roots)]]]
    <3>1. [m \in Maker |-> [i \in Id |-> None]] \in [Maker -> [Id -> Maybe(Roots)]]
      BY BlankTable
    <3> QED BY <1>1, <1>3, <3>1, BlankTyped DEF MakerTypes
  <2>3. discarded' \in [Particle -> SUBSET AAA] BY <1>1, <1>3 DEF MakerTypes, Blank
  <2> QED BY <2>1, <2>2, <2>3 DEF MakerTypes
<1>10. DBTypes' /\ MoveTypes'
  <2>1. at' \in [Trace -> Nat] BY <1>1, <1>3, BlankTyped DEF MoveTypes
  <2> QED BY <1>1, <1>3, <1>4, <2>1 DEF DBTypes, MoveTypes
<1>11. live' \subseteq live /\ \A u \in live' : u \notin gone /\ u \in Generation(group) /\ u[1] = group
  BY <1>1, <1>2, <1>3 DEF Generation
<1>12. Stages'
  <2>1. Proposing'
    <3>1. group + 1 \in 1 .. Len(Ends) + 1 /\ group + 1 - 1 = group
      BY <1>3, <1>4, TorusFacts
    <3>2. \A r \in live' : r[1] \in {group + 1 - 1, group + 1} /\ at'[r] \in First .. TorusEnd
      BY <1>0, <1>1, <1>4, <1>5, <1>11, <3>1
    <3>3. \A r \in Generation(group) : Ended(r)'
      <4> SUFFICES ASSUME NEW r \in Generation(group) PROVE Ended(r)' OBVIOUS
      <4>1. Ended(r) /\ r \in live /\ r \in live' /\ r \notin gone /\ r \in Trace
        BY <1>0, <1>1, <1>2, <1>3 DEF Ended
      <4> QED BY <1>5, <4>1 DEF Ended
    <3>4. group' = group + 1 /\ group' - 1 = group
      <4>1. group' = group + 1 /\ group \in Nat BY <1>3, <1>4
      <4> QED BY <4>1
    <3>5. Generation(group - 1)' = Generation(group) BY <3>4 DEF Generation
    <3> QED BY <3>1, <3>2, <3>3, <3>4, <3>5 DEF Proposing
  <2>2. \A r \in Particle \ live' : Recordless(r)'
    <3> SUFFICES ASSUME NEW r \in Particle, r \notin live' PROVE Recordless(r)' OBVIOUS
    <3>1. CASE r \in gone BY <1>5, <1>6, <3>1 DEF Recordless
    <3>2. CASE r \notin gone
      <4>1. Recordless(r) /\ r \in Trace BY <1>0, <1>1, <1>3, <3>2 DEF Stages
      <4> QED BY <1>5, <1>6, <3>2, <4>1 DEF Recordless
    <3> QED BY <3>1, <3>2
  <2>3. at'[Base] = at[Base] BY <1>0, <1>4, <1>5
  <2> QED BY <1>1, <1>3, <2>1, <2>2, <2>3 DEF Stages
<1>13. MadeOK' /\ RequestedOK' /\ ValuedOK'
  <2>1. \A u \in {Base} \cup live' :
          /\ u \in {Base} \cup live /\ Present(u)' = Present(u) /\ (u \in live' => u \in live)
          /\ \A m \in Maker : getMadeSP(u, m)' = getMadeSP(u, m)
          /\ \A o \in Output : getESRParent(u, o)' = getESRParent(u, o) /\ esrRoots'[u][o] = esrRoots[u][o]
          /\ \A c \in Choice : getValue(u, c)' = getValue(u, c)
          /\ ccs'[u] = ccs[u]
    <3> SUFFICES ASSUME NEW u \in {Base} \cup live'
                 PROVE  /\ u \in {Base} \cup live /\ Present(u)' = Present(u) /\ (u \in live' => u \in live)
                        /\ \A m \in Maker : getMadeSP(u, m)' = getMadeSP(u, m)
                        /\ \A o \in Output : getESRParent(u, o)' = getESRParent(u, o) /\ esrRoots'[u][o] = esrRoots[u][o]
                        /\ \A c \in Choice : getValue(u, c)' = getValue(u, c)
                        /\ ccs'[u] = ccs[u]
      OBVIOUS
    <3>1. u \in Trace /\ u \notin gone /\ Base \notin gone /\ u \in {Base} \cup live /\ (u \in live' => u \in live)
      BY <1>0, <1>1, <1>4, <1>11
    <3> QED
      <4>1. /\ at'[u] = at[u] /\ at'[Base] = at[Base] /\ values'[u] = values[u] /\ values'[Base] = values[Base]
            /\ esrRoots'[u] = esrRoots[u] /\ esrRoots'[Base] = esrRoots[Base]
            /\ sps'[u] = sps[u] /\ sps'[Base] = sps[Base] /\ ccs'[u] = ccs[u]
        BY <1>0, <1>5, <3>1
      <4>2. Present(u)' = Present(u) BY <1>3, <4>1 DEF Present
      <4> QED BY <3>1, <4>1, <4>2 DEF getMadeSP, getESRParent, getValue
  <2>2. \A u \in live : ccs[u] \subseteq Choice BY <1>0, <1>1 DEF RegisterTypes
  <2>3. MadeOK' BY <1>1, <2>1 DEF MadeOK
  <2>4. RequestedOK' BY <1>1, <2>1 DEF RequestedOK
  <2>5. ValuedOK' BY <1>1, <2>1, <2>2 DEF ValuedOK
  <2> QED BY <2>3, <2>4, <2>5
<1>14. CommitOK' BY <1>3 DEF CommitOK
<1>15. Statics' BY <1>0, <1>1, AdvanceStatics
<1> QED BY <1>7, <1>8, <1>9, <1>10, <1>12, <1>13, <1>14, <1>15 DEF Consistent

(* A particle that is committed has been through the torus.                *)
LEMMA CommitChoicesRest ==
  ASSUME KInv, NEW p \in Particle, CommitChoices(p)
  PROVE  Consistent'
<1>0. Steady /\ Base \in Trace /\ Base \notin Particle /\ Particle \subseteq Trace
  BY SteadyThere
<1>1. /\ RegisterTypes /\ NodeTypes /\ MakerTypes /\ DBTypes /\ MoveTypes /\ Stages /\ MadeOK /\ RequestedOK
      /\ ValuedOK /\ Statics
      /\ live \subseteq Particle
  BY <1>0 DEF KInv, Consistent, Steady
<1>2. /\ phase = "propose" /\ group = Len(Ends) + 1 /\ p \in live /\ phase' = "commit" /\ committing' = p
      /\ ucs' = [ucs EXCEPT ![Base] = @ \cup ucs[p]] /\ toTag' = tags[p] /\ toConstrain' = ccs[p]
      /\ db' = NoDB /\ saved' = [m \in Maker |-> None]
      /\ UNCHANGED <<round, group, live, at>>
      /\ UNCHANGED <<ccs, scopes, tags, values, esrRoots, numRequests, children>>
      /\ UNCHANGED <<sps, families, aux, heap, aaa, discarded>>
  BY DEF CommitChoices, WithChoices, nodeVars, spVars
<1>3. RegisterTypes' /\ ucs'[Base] = ucs[Base] \cup ucs[p] /\ \A u \in Particle : ucs'[u] = ucs[u]
  BY <1>0, <1>1, <1>2 DEF RegisterTypes
<1>4. NodeTypes' /\ MakerTypes' /\ MoveTypes'
  BY <1>1, <1>2 DEF NodeTypes, MakerTypes, MoveTypes
<1>5. DBTypes'
  <2>1. db' = Detached([c \in Choice |-> None], [o \in Output |-> None], [m \in Maker |-> None], [m \in Maker |-> None])
    BY <1>2 DEF NoDB, Detached
  <2>2. db' = Detached(db'.values, db'.requests, db'.sps, db'.aux) /\ db'.aux = [m \in Maker |-> None]
    BY <2>1, DetachedParts
  <2> QED BY <1>2, <2>2, BlankTable DEF DBTypes
<1>6. at[p] = TorusEnd
  <2>1. /\ \A r \in live : r[1] \in {group - 1, group}
        /\ group > 1 => \A r \in Generation(group - 1) : Ended(r)
    BY <1>1, <1>2 DEF Stages, Proposing
  <2>2. p[1] \in 1 .. Len(Ends) /\ p[2] \in 0 .. NumNew /\ p = <<p[1], p[2]>>
    BY DEF Particle
  <2>3. group > 1 /\ p[1] = Len(Ends) /\ group - 1 = Len(Ends)
    BY <1>2, <2>1, <2>2, TorusFacts
  <2>4. p \in Generation(group - 1) BY <2>2, <2>3 DEF Generation
  <2> QED BY <2>1, <2>3, <2>4, TorusFacts DEF Ended
<1>7. Stages'
  <2>1. \A r \in Particle \ live' : Recordless(r)'
    BY <1>1, <1>2, <1>3 DEF Stages, Recordless
  <2> QED BY <1>1, <1>2, <1>6, <2>1 DEF Stages
<1>8. MadeOK' /\ RequestedOK' /\ ValuedOK'
  <2>1. \A u \in {Base} \cup live : Present(u)' = Present(u) BY <1>2 DEF Present
  <2> QED
    BY <1>1, <1>2, <2>1 DEF MadeOK, RequestedOK, ValuedOK, getMadeSP, getESRParent, getValue
<1>9. CommitOK'
  <2>1. ccs'[p] \ toConstrain' = {} BY <1>2
  <2> QED BY <1>2, <1>3, <2>1 DEF CommitOK
<1>10. Statics' BY <1>0, <1>1, CommitChoicesStatics
<1> QED BY <1>3, <1>4, <1>5, <1>7, <1>8, <1>9, <1>10 DEF Consistent

(* What the tags say of the trace while a particle is committed.           *)
LEMMA CommitFacts ==
  ASSUME KInv, phase = "commit"
  PROVE  /\ committing \in live /\ committing \in Particle /\ committing # Base /\ at[committing] = TorusEnd
         /\ IInv /\ db = NoDB /\ saved = [m \in Maker |-> None] /\ at[Base] = First
         /\ toTag \subseteq tags[committing] /\ toConstrain \subseteq ccs[committing]
         /\ toTag # {} => ccs[committing] \ toConstrain = {}
         /\ ccs[committing] \ toConstrain \subseteq ccs[Base]
         /\ (ccs[committing] \ toConstrain) \cap ucs[Base] = {}
         /\ ucs[committing] \subseteq ucs[Base] \cup (ccs[committing] \ toConstrain)
         /\ tags[committing] \subseteq
              TagsIn(scopes) \cup toTag \cup {default(c) : c \in ccs[committing] \ toConstrain}
<1>1. committing \in Particle /\ committing # Base /\ IInv
  BY SteadyThere DEF KInv, JInv, Committing
<1>2. /\ committing \in live /\ at[committing] = TorusEnd
      /\ db = NoDB /\ saved = [m \in Maker |-> None] /\ at[Base] = First
  BY DEF KInv, Consistent, Stages
<1> QED BY <1>1, <1>2 DEF KInv, Consistent, CommitOK

LEMMA CommitTagRest ==
  ASSUME KInv, NEW s, NEW b, NEW n, CommitTag(s, b, n)
  PROVE  Consistent'
<1>0. Steady /\ Base \in Trace /\ Base \notin Particle /\ Particle \subseteq Trace
  BY SteadyThere
<1>1. /\ RegisterTypes /\ NodeTypes /\ MakerTypes /\ DBTypes /\ MoveTypes /\ Stages /\ MadeOK /\ RequestedOK
      /\ ValuedOK /\ Statics
  BY DEF KInv, Consistent
<1>2. /\ phase = "commit" /\ <<s, b, n>> \in toTag /\ toTag' = toTag \ {<<s, b, n>>}
      /\ RegisterInScope(Base, s, b, n)
      /\ UNCHANGED <<phase, round, group, live, db, committing, toConstrain, saved, at, ucs, ccs>>
      /\ UNCHANGED <<values, esrRoots, numRequests, children>>
      /\ UNCHANGED <<sps, families, aux, heap, aaa, discarded>>
  BY DEF CommitTag, nodeVars, spVars
<1>3. tags' = tags /\ TagsIn(scopes') = TagsIn(scopes) \cup {<<s, b, n>>}
  BY <1>0, <1>2, CommitFacts, RegisterEffect
<1>4. RegisterTypes' /\ NodeTypes' /\ MakerTypes' /\ DBTypes' /\ MoveTypes'
  BY <1>1, <1>2 DEF RegisterTypes, NodeTypes, MakerTypes, DBTypes, MoveTypes
<1>5. Stages'
  <2>1. \A r \in Particle \ live' : Recordless(r)'
    BY <1>1, <1>2, <1>3 DEF Stages, Recordless
  <2> QED BY <1>1, <1>2, <2>1 DEF Stages
<1>6. MadeOK' /\ RequestedOK' /\ ValuedOK'
  <2>1. \A u \in {Base} \cup live : Present(u)' = Present(u) BY <1>2 DEF Present
  <2> QED
    BY <1>1, <1>2, <2>1 DEF MadeOK, RequestedOK, ValuedOK, getMadeSP, getESRParent, getValue
<1>7. CommitOK'
  <2>1. PICK p, done : p = committing /\ done = ccs[p] \ toConstrain OBVIOUS
  <2>2. /\ toTag \subseteq tags[p] /\ toConstrain \subseteq ccs[p] /\ done = {}
        /\ done \subseteq ccs[Base] /\ done \cap ucs[Base] = {} /\ ucs[p] \subseteq ucs[Base] \cup done
        /\ tags[p] \subseteq TagsIn(scopes) \cup toTag \cup {default(c) : c \in done}
    BY <1>2, <2>1, CommitFacts
  <2>3. /\ toTag' \subseteq tags'[p] /\ toConstrain' \subseteq ccs'[p] /\ done = ccs'[p] \ toConstrain'
        /\ done \subseteq ccs'[Base] /\ done \cap ucs'[Base] = {} /\ ucs'[p] \subseteq ucs'[Base] \cup done
        /\ tags'[p] \subseteq TagsIn(scopes') \cup toTag' \cup {default(c) : c \in done}
        /\ p = committing'
    BY <1>2, <1>3, <2>1, <2>2
  <2> QED BY <2>2, <2>3 DEF CommitOK, default
<1>8. Statics'
  <2>1. UNCHANGED spVars /\ UNCHANGED <<saved, phase, round, group, live>> /\ db'.aux = db.aux
    BY <1>2 DEF spVars
  <2>2. Running(Base)' => Running(Base) BY <1>2 DEF Running
  <2> QED BY <1>1, <2>1, <2>2, QuietKeeps
<1> QED BY <1>4, <1>5, <1>6, <1>7, <1>8 DEF Consistent

LEMMA CommitConstraintRest ==
  ASSUME KInv, NEW c, CommitConstraint(c)
  PROVE  Consistent'
<1>0. Steady /\ Base \in Trace /\ Base \notin Particle /\ Particle \subseteq Trace
  BY SteadyThere
<1>1. /\ RegisterTypes /\ NodeTypes /\ MakerTypes /\ DBTypes /\ MoveTypes /\ Stages /\ MadeOK /\ RequestedOK
      /\ ValuedOK /\ Statics
  BY DEF KInv, Consistent
<1>2. /\ phase = "commit" /\ toTag = {} /\ c \in toConstrain /\ toConstrain' = toConstrain \ {c}
      /\ registerConstrainedChoice(Base, c)
      /\ UNCHANGED <<phase, round, group, live, db, committing, toTag, saved, at>>
      /\ UNCHANGED <<values, esrRoots, numRequests, children>>
      /\ UNCHANGED <<sps, families, aux, heap, aaa, discarded>>
  BY DEF CommitConstraint, nodeVars, spVars
<1>3. PICK p, done : p = committing /\ done = ccs[p] \ toConstrain OBVIOUS
<1>4. /\ p \in live /\ p \in Particle /\ p # Base /\ IInv
      /\ toTag \subseteq tags[p] /\ toConstrain \subseteq ccs[p]
      /\ done \subseteq ccs[Base] /\ done \cap ucs[Base] = {} /\ ucs[p] \subseteq ucs[Base] \cup done
      /\ tags[p] \subseteq TagsIn(scopes) \cup toTag \cup {default(k) : k \in done}
  BY <1>2, <1>3, CommitFacts
<1>5. c \in Choice BY <1>0, <1>1, <1>2, <1>4 DEF RegisterTypes
<1>6. /\ ccs' = [ccs EXCEPT ![Base] = @ \cup {c}] /\ ucs' = [ucs EXCEPT ![Base] = @ \ {c}]
      /\ UnregisterInScope(Default, c, c) /\ tags' = tags
  BY <1>2 DEF registerConstrainedChoice, unregisterUnconstrainedChoice, UnregisterInScope
<1>7. TagsIn(scopes') = TagsIn(scopes) \ {default(c)}
  BY <1>4, <1>6, UnregisterEffect DEF default
<1>8. /\ RegisterTypes' /\ ccs'[Base] = ccs[Base] \cup {c} /\ ucs'[Base] = ucs[Base] \ {c}
      /\ \A u \in Particle : ccs'[u] = ccs[u] /\ ucs'[u] = ucs[u]
  BY <1>0, <1>1, <1>5, <1>6 DEF RegisterTypes
<1>9. NodeTypes' /\ MakerTypes' /\ DBTypes' /\ MoveTypes'
  BY <1>1, <1>2 DEF NodeTypes, MakerTypes, DBTypes, MoveTypes
<1>10. Stages'
  <2>1. \A r \in Particle \ live' : Recordless(r)'
    BY <1>1, <1>2, <1>6, <1>8 DEF Stages, Recordless
  <2> QED BY <1>1, <1>2, <2>1 DEF Stages
<1>11. MadeOK' /\ RequestedOK'
  <2>1. \A u \in {Base} \cup live : Present(u)' = Present(u) BY <1>2 DEF Present
  <2> QED BY <1>1, <1>2, <2>1 DEF MadeOK, RequestedOK, getMadeSP, getESRParent
<1>12. ValuedOK' BY <1>0, <1>1, <1>2, <1>8 DEF ValuedOK, getValue, Steady
<1>13. CommitOK'
  <2>1. PICK more : more = done \cup {c} OBVIOUS
  <2>2. more = ccs'[p] \ toConstrain' /\ toTag' = {} /\ p = committing'
    BY <1>2, <1>3, <1>4, <1>8, <2>1
  <2>3. /\ toTag' \subseteq tags'[p] /\ toConstrain' \subseteq ccs'[p]
        /\ more \subseteq ccs'[Base] /\ more \cap ucs'[Base] = {} /\ ucs'[p] \subseteq ucs'[Base] \cup more
    BY <1>2, <1>4, <1>8, <2>1, <2>2
  <2>4. tags'[p] \subseteq TagsIn(scopes') \cup toTag' \cup {default(k) : k \in more}
    <3>1. ASSUME NEW tag \in tags[p], tag \notin TagsIn(scopes') PROVE tag \in {default(k) : k \in more}
      <4>1. tag = default(c) \/ tag \in {default(k) : k \in done}
        BY <1>2, <1>4, <1>7, <3>1
      <4> QED BY <2>1, <4>1
    <3> QED BY <1>6, <3>1
  <2> QED BY <2>2, <2>3, <2>4 DEF CommitOK, default
<1>14. Statics'
  <2>1. UNCHANGED spVars /\ UNCHANGED <<saved, phase, round, group, live>> /\ db'.aux = db.aux
    BY <1>2 DEF spVars
  <2>2. Running(Base)' => Running(Base) BY <1>2 DEF Running
  <2> QED BY <1>1, <2>1, <2>2, QuietKeeps
<1> QED BY <1>8, <1>9, <1>10, <1>11, <1>12, <1>13, <1>14 DEF Consistent

(* The trace answers what the particle answered.                           *)
LEMMA MergedAnswers ==
  ASSUME NEW X, DOMAIN X = Trace, NEW new, NEW x, NEW Y, Y = Merged(X, new, x)
  PROVE  Y[Base] = new /\ \A u \in Particle : Y[u] = x
BY BaseIsNoParticle DEF Merged, Trace

LEMMA CommittedTables ==
  ASSUME KInv, CommitRest, NEW p, p = committing
  PROVE  /\ p \in Particle /\ p \in live /\ p # Base /\ at[p] = TorusEnd /\ at[Base] = First
         /\ phase = "commit" /\ toTag = {} /\ toConstrain = {}
         /\ phase' = "regen" /\ group' = 0 /\ live' = {}
         /\ UNCHANGED <<round, db, saved, toTag, toConstrain, scopes>>
         /\ at'[Base] = Len(Program) /\ ucs'[Base] = ucs[Base] /\ ccs'[Base] = ccs[Base]
         /\ values'[Base] = Overlaid(values, p) /\ esrRoots'[Base] = Overlaid(esrRoots, p)
         /\ numRequests'[Base] = Overlaid(numRequests, p) /\ children'[Base] = ChildrenOf(p)
         /\ sps'[Base] = Overlaid(sps, p) /\ families'[Base] = FamiliesOf(p)
         /\ \A u \in Particle :
              /\ ucs'[u] = {} /\ ccs'[u] = {} /\ tags'[u] = {} /\ discarded'[u] = {}
              /\ values'[u] = [c \in Choice |-> None] /\ esrRoots'[u] = [o \in Output |-> None]
              /\ numRequests'[u] = [c \in Choice |-> None] /\ children'[u] = [c \in Choice |-> {}]
              /\ sps'[u] = [m \in Maker |-> None] /\ families'[u] = [m \in Maker |-> [i \in Id |-> None]]
              /\ aux'[u] = [m \in Maker |-> None]
<1>1. /\ phase = "commit" /\ toTag = {} /\ toConstrain = {}
      /\ phase' = "regen" /\ group' = 0 /\ live' = {}
      /\ UNCHANGED <<round, db, saved, toTag, toConstrain, scopes>>
      /\ at' = Merged(at, Len(Program), 0)
      /\ ucs' = Merged(ucs, ucs[Base], {}) /\ ccs' = Merged(ccs, ccs[Base], {})
      /\ values'      = Merged(values, Overlaid(values, p), [c \in Choice |-> None])
      /\ esrRoots'    = Merged(esrRoots, Overlaid(esrRoots, p), [o \in Output |-> None])
      /\ numRequests' = Merged(numRequests, Overlaid(numRequests, p), [c \in Choice |-> None])
      /\ children'    = Merged(children, ChildrenOf(p), [c \in Choice |-> {}])
      /\ sps'         = Merged(sps, Overlaid(sps, p), [m \in Maker |-> None])
      /\ families'    = Merged(families, FamiliesOf(p), [m \in Maker |-> [i \in Id |-> None]])
      /\ aux'         = Merged(aux, Overlaid(aux, p), [m \in Maker |-> None])
      /\ tags' = Blank(tags, Particle, {}) /\ discarded' = Blank(discarded, Particle, {})
  BY DEF CommitRest, DropOverlays
<1>2. p \in Particle /\ p \in live /\ p # Base /\ at[p] = TorusEnd /\ at[Base] = First
  BY <1>1, CommitFacts
<1>3. /\ DOMAIN ucs = Trace /\ DOMAIN ccs = Trace /\ DOMAIN values = Trace /\ DOMAIN esrRoots = Trace
      /\ DOMAIN numRequests = Trace /\ DOMAIN children = Trace /\ DOMAIN sps = Trace
      /\ DOMAIN families = Trace /\ DOMAIN aux = Trace /\ DOMAIN at = Trace
      /\ DOMAIN tags = Particle /\ DOMAIN discarded = Particle
  BY DEF KInv, Consistent, JInv, IInv, Records, ValuesOK, RegisterTypes, NodeTypes, MakerTypes, MoveTypes,
         Statics, PointerTypes
<1>4. /\ at'[Base] = Len(Program) /\ ucs'[Base] = ucs[Base] /\ ccs'[Base] = ccs[Base]
      /\ values'[Base] = Overlaid(values, p) /\ esrRoots'[Base] = Overlaid(esrRoots, p)
      /\ numRequests'[Base] = Overlaid(numRequests, p) /\ children'[Base] = ChildrenOf(p)
      /\ sps'[Base] = Overlaid(sps, p) /\ families'[Base] = FamiliesOf(p)
      /\ \A u \in Particle :
              /\ ucs'[u] = {} /\ ccs'[u] = {}
              /\ values'[u] = [c \in Choice |-> None] /\ esrRoots'[u] = [o \in Output |-> None]
              /\ numRequests'[u] = [c \in Choice |-> None] /\ children'[u] = [c \in Choice |-> {}]
              /\ sps'[u] = [m \in Maker |-> None] /\ families'[u] = [m \in Maker |-> [i \in Id |-> None]]
              /\ aux'[u] = [m \in Maker |-> None]
  BY <1>1, <1>3, MergedAnswers
<1>5. \A u \in Particle : tags'[u] = {} /\ discarded'[u] = {} BY <1>1, <1>3 DEF Blank
<1> QED BY <1>1, <1>2, <1>4, <1>5

LEMMA CommitRestRest ==
  ASSUME KInv, CommitRest
  PROVE  Consistent'
<1>0. Steady /\ Base \in Trace /\ Base \notin Particle /\ Particle \subseteq Trace
  BY SteadyThere
<1>1. /\ RegisterTypes /\ NodeTypes /\ MakerTypes /\ DBTypes /\ MoveTypes /\ Stages /\ MadeOK /\ RequestedOK
      /\ ValuedOK /\ Statics
      /\ Committing
  BY DEF KInv, Consistent, JInv
<1>2. PICK p : p = committing OBVIOUS
<1>3. /\ p \in Particle /\ p \in live /\ p # Base /\ at[p] = TorusEnd /\ at[Base] = First
      /\ phase = "commit" /\ toTag = {} /\ toConstrain = {}
      /\ phase' = "regen" /\ group' = 0 /\ live' = {}
      /\ UNCHANGED <<round, db, saved, toTag, toConstrain, scopes>>
      /\ at'[Base] = Len(Program) /\ ucs'[Base] = ucs[Base] /\ ccs'[Base] = ccs[Base]
      /\ values'[Base] = Overlaid(values, p) /\ esrRoots'[Base] = Overlaid(esrRoots, p)
      /\ numRequests'[Base] = Overlaid(numRequests, p) /\ children'[Base] = ChildrenOf(p)
      /\ sps'[Base] = Overlaid(sps, p) /\ families'[Base] = FamiliesOf(p)
      /\ \A u \in Particle :
              /\ ucs'[u] = {} /\ ccs'[u] = {} /\ tags'[u] = {} /\ discarded'[u] = {}
              /\ values'[u] = [c \in Choice |-> None] /\ esrRoots'[u] = [o \in Output |-> None]
              /\ numRequests'[u] = [c \in Choice |-> None] /\ children'[u] = [c \in Choice |-> {}]
              /\ sps'[u] = [m \in Maker |-> None] /\ families'[u] = [m \in Maker |-> [i \in Id |-> None]]
              /\ aux'[u] = [m \in Maker |-> None]
  BY <1>2, CommittedTables
<1>4. /\ at' = Merged(at, Len(Program), 0)
      /\ ucs' = Merged(ucs, ucs[Base], {}) /\ ccs' = Merged(ccs, ccs[Base], {})
      /\ esrRoots'    = Merged(esrRoots, Overlaid(esrRoots, p), [o \in Output |-> None])
      /\ numRequests' = Merged(numRequests, Overlaid(numRequests, p), [c \in Choice |-> None])
      /\ children'    = Merged(children, ChildrenOf(p), [c \in Choice |-> {}])
      /\ sps'         = Merged(sps, Overlaid(sps, p), [m \in Maker |-> None])
      /\ families'    = Merged(families, FamiliesOf(p), [m \in Maker |-> [i \in Id |-> None]])
      /\ discarded' = Blank(discarded, Particle, {})
  BY <1>2 DEF CommitRest, DropOverlays
<1>5. p \in Trace BY <1>0, <1>3
<1>6. RegisterTypes'
  <2>1. ucs[Base] \in SUBSET Choice /\ ccs[Base] \in SUBSET Choice /\ {} \in SUBSET Choice
    BY <1>0, <1>1 DEF RegisterTypes
  <2> QED BY <1>1, <1>4, <2>1, MergedTyped DEF RegisterTypes
<1>7. NodeTypes'
  <2>1. esrRoots' \in [Trace -> [Output -> Maybe(Roots)]]
    <3>1. esrRoots \in [Trace -> [Output -> Maybe(Roots)]] BY <1>1 DEF NodeTypes
    <3>2. Overlaid(esrRoots, p) \in [Output -> Maybe(Roots)]
          /\ [o \in Output |-> None] \in [Output -> Maybe(Roots)]
      BY <1>5, <3>1, OverlaidTyped, BlankTable
    <3> QED BY <1>4, <3>1, <3>2, MergedTyped
  <2>2. numRequests' \in [Trace -> [Choice -> Maybe(Int)]] /\ numRequests'[Base] \in [Choice -> Int]
    <3>1. numRequests \in [Trace -> [Choice -> Maybe(Int)]] /\ numRequests[Base] \in [Choice -> Int]
      BY <1>1 DEF NodeTypes
    <3>2. Overlaid(numRequests, p) \in [Choice -> Maybe(Int)]
          /\ [c \in Choice |-> None] \in [Choice -> Maybe(Int)]
      BY <1>5, <3>1, OverlaidTyped, BlankTable
    <3>3. Overlaid(numRequests, p) \in [Choice -> Int] BY <1>5, <3>1 DEF Overlaid, Maybe
    <3>4. numRequests' \in [Trace -> [Choice -> Maybe(Int)]]
      BY <1>4, <3>1, <3>2, MergedTyped
    <3> QED BY <1>3, <3>3, <3>4
  <2>3. children' \in [Trace -> [Choice -> SUBSET Output]]
    <3>1. children \in [Trace -> [Choice -> SUBSET Output]] BY <1>1 DEF NodeTypes
    <3>2. ChildrenOf(p) \in [Choice -> SUBSET Output] /\ [c \in Choice |-> {}] \in [Choice -> SUBSET Output]
      <4>1. \A c \in Choice : children[Base][c] \cup children[p][c] \in SUBSET Output
        BY <1>0, <1>5, <3>1
      <4> QED BY <4>1 DEF ChildrenOf, getChildren
    <3> QED BY <1>4, <3>1, <3>2, MergedTyped
  <2> QED BY <2>1, <2>2, <2>3 DEF NodeTypes
<1>8. MakerTypes'
  <2>1. sps' \in [Trace -> [Maker -> Maybe(Proc)]]
    <3>1. sps \in [Trace -> [Maker -> Maybe(Proc)]] BY <1>1 DEF MakerTypes
    <3>2. Overlaid(sps, p) \in [Maker -> Maybe(Proc)] /\ [m \in Maker |-> None] \in [Maker -> Maybe(Proc)]
      BY <1>5, <3>1, OverlaidTyped, BlankTable
    <3> QED BY <1>4, <3>1, <3>2, MergedTyped
  <2>2. families' \in [Trace -> [Maker -> [Id -> Maybe(Roots)]]]
    <3>1. families \in [Trace -> [Maker -> [Id -> Maybe(Roots)]]] BY <1>1 DEF MakerTypes
    <3>2. FamiliesOf(p) \in [Maker -> [Id -> Maybe(Roots)]]
      <4>1. \A m \in Maker, i \in Id : getMadeSPFamilyRoot(p, m, i) \in Maybe(Roots)
        BY <1>0, <1>5, <3>1 DEF getMadeSPFamilyRoot
      <4> QED BY <4>1 DEF FamiliesOf
    <3>3. [m \in Maker |-> [i \in Id |-> None]] \in [Maker -> [Id -> Maybe(Roots)]]
      BY BlankTable
    <3> QED BY <1>4, <3>1, <3>2, <3>3, MergedTyped
  <2>3. discarded' \in [Particle -> SUBSET AAA] BY <1>1, <1>4 DEF MakerTypes, Blank
  <2> QED BY <2>1, <2>2, <2>3 DEF MakerTypes
<1>9. DBTypes' /\ MoveTypes'
  <2>1. at' \in [Trace -> Nat] BY <1>1, <1>4, MergedTyped, TorusFacts DEF MoveTypes
  <2> QED BY <1>1, <1>3, <2>1 DEF DBTypes, MoveTypes
<1>10. Stages'
  <2>1. \A r \in Particle \ live' : Recordless(r)' BY <1>3 DEF Recordless
  <2>2. db = NoDB /\ saved = [m \in Maker |-> None] /\ NoDB' = NoDB
    BY <1>1, <1>3 DEF Stages, NoDB
  <2> QED BY <1>3, <2>1, <2>2, TorusFacts DEF Stages
<1>11. /\ \A m \in Maker : getMadeSP(Base, m)' = getMadeSP(p, m)
       /\ \A o \in Output : getESRParent(Base, o)' = getESRParent(p, o)
  <2>1. DOMAIN sps[p] = Maker /\ DOMAIN esrRoots[p] = Output
    BY <1>1, <1>5 DEF MakerTypes, NodeTypes
  <2> QED BY <1>3, <2>1 DEF getMadeSP, getESRParent, Overlaid
<1>12. \A j \in DOMAIN Program : j \in Present(Base) \/ j \in Present(p)
  <2>1. \A j \in DOMAIN Program : j \in Nat /\ (j <= First \/ j > TorusEnd \/ j \in First + 1 .. TorusEnd)
    BY TorusFacts
  <2> QED BY <1>3, <2>1 DEF Present
<1>13. Present(Base)' \subseteq DOMAIN Program BY DEF Present
<1>14. MadeOK'
  <2> SUFFICES ASSUME NEW m \in Maker, NEW j \in DOMAIN Program, Program[j] = Make(m)
               PROVE  getMadeSP(p, m) # None
    BY <1>3, <1>11, <1>13 DEF MadeOK
  <2>1. getMadeSP(Base, m) # None \/ getMadeSP(p, m) # None
    BY <1>1, <1>3, <1>12 DEF MadeOK
  <2> QED BY <2>1 DEF getMadeSP
<1>15. RequestedOK'
  <2> SUFFICES ASSUME NEW o \in Output, NEW m \in Maker, NEW j \in DOMAIN Program, Program[j] = Request(o, m)
               PROVE  getESRParent(p, o) # None
    BY <1>3, <1>11, <1>13 DEF RequestedOK
  <2>1. getESRParent(Base, o) # None \/ getESRParent(p, o) # None
    BY <1>1, <1>3, <1>12 DEF RequestedOK
  <2> QED BY <2>1 DEF getESRParent
<1>16. ValuedOK' /\ CommitOK' BY <1>3 DEF ValuedOK, CommitOK
<1>17. Statics' BY <1>0, <1>1, CommitRestStatics
<1> QED BY <1>6, <1>7, <1>8, <1>9, <1>10, <1>14, <1>15, <1>16, <1>17 DEF Consistent

LEMMA MoveConsistent ==
  ASSUME KInv, Move
  PROVE  Consistent'
BY BeginDetachRest, BeginProposeRest, SpawnRest, CloneRest, AdvanceRest, CommitChoicesRest,
   CommitTagRest, CommitConstraintRest, CommitRestRest DEF Move

LEMMA InitConsistent == Init => Consistent
<1> SUFFICES ASSUME Init PROVE Consistent OBVIOUS
<1>0. Base \in Trace /\ Base \notin Particle /\ Particle \subseteq Trace
  BY BaseIsNoParticle DEF Trace
<1>1. /\ phase = "regen" /\ round = 0 /\ group = 0 /\ live = {} /\ db = NoDB
      /\ at = [t \in Trace |-> 0] /\ ucs = [t \in Trace |-> {}] /\ ccs = [t \in Trace |-> {}]
      /\ tags = [p \in Particle |-> {}] /\ discarded = [p \in Particle |-> {}]
      /\ values = [t \in Trace |-> [c \in Choice |-> None]]
      /\ esrRoots = [t \in Trace |-> [o \in Output |-> None]]
      /\ numRequests = [t \in Trace |-> [c \in Choice |-> IF t = Base THEN 0 ELSE None]]
      /\ children = [t \in Trace |-> [c \in Choice |-> {}]]
      /\ sps = [t \in Trace |-> [m \in Maker |-> None]]
      /\ families = [t \in Trace |-> [m \in Maker |-> [i \in Id |-> None]]]
      /\ aux = [t \in Trace |-> [m \in Maker |-> None]]
      /\ heap = <<>> /\ aaa = [m \in Maker |-> None] /\ saved = [m \in Maker |-> None]
  BY DEF Init
<1>2. RegisterTypes BY <1>1 DEF RegisterTypes
<1>3. NodeTypes
  <2>1. numRequests \in [Trace -> [Choice -> Maybe(Int)]] /\ numRequests[Base] \in [Choice -> Int]
    BY <1>0, <1>1 DEF Maybe
  <2>2. esrRoots \in [Trace -> [Output -> Maybe(Roots)]] /\ children \in [Trace -> [Choice -> SUBSET Output]]
    BY <1>1, BlankTable
  <2> QED BY <2>1, <2>2 DEF NodeTypes
<1>4. MakerTypes BY <1>1, BlankTable DEF MakerTypes
<1>5. DBTypes
  <2>1. db = Detached([c \in Choice |-> None], [o \in Output |-> None], [m \in Maker |-> None], [m \in Maker |-> None])
    BY <1>1 DEF NoDB, Detached
  <2>2. db = Detached(db.values, db.requests, db.sps, db.aux) /\ db.aux = [m \in Maker |-> None]
    BY <2>1, DetachedParts
  <2> QED BY <1>1, <2>2, BlankTable DEF DBTypes
<1>6. MoveTypes BY <1>1 DEF MoveTypes
<1>7. Stages
  <2>1. \A p \in Particle : Recordless(p) BY <1>0, <1>1 DEF Recordless
  <2>2. at[Base] = 0 BY <1>0, <1>1
  <2> QED BY <1>1, <2>1, <2>2, TorusFacts DEF Stages
<1>8. Present(Base) = {}
  <2>1. \A j \in DOMAIN Program : ~(j <= 0) BY TorusFacts
  <2> QED BY <1>0, <1>1, <2>1 DEF Present
<1>9. MadeOK /\ RequestedOK /\ ValuedOK /\ CommitOK
  BY <1>1, <1>8 DEF MadeOK, RequestedOK, ValuedOK, CommitOK
<1>10. Statics
  <2>1. DOMAIN heap = {} BY <1>1
  <2>2. PointerTypes BY <1>1, <2>1, BlankTable DEF PointerTypes
  <2>3. db.aux = [m \in Maker |-> None] BY <1>1 DEF NoDB
  <2>4. MakersOK BY <1>0, <1>1, <2>3 DEF MakersOK, getMadeSP
  <2>5. OldPointers /\ OwnPointers
    BY <1>0, <1>1, <2>1, <2>3 DEF OldPointers, OwnPointers
  <2>6. SetAside BY <1>1, <2>3 DEF SetAside
  <2> QED BY <2>2, <2>4, <2>5, <2>6 DEF Statics
<1> QED BY <1>2, <1>3, <1>4, <1>5, <1>6, <1>7, <1>9, <1>10 DEF Consistent

(* What the particles record and point to is in order: nobody writes to    *)
(* the statistics of another, what is set aside stays as it was until the  *)
(* particle that restores takes it, and the commit tells the trace of all. *)
THEOREM RecordsInvariant == Spec => []KInv
<1>1. Init => Consistent BY InitConsistent
<1>2. JInv /\ JInv' /\ Consistent /\ [Next]_vars => Consistent'
  <2> SUFFICES ASSUME JInv, Consistent, [Next]_vars PROVE Consistent' OBVIOUS
  <2>0. KInv BY DEF KInv
  <2>1. CASE Next
    BY <2>0, <2>1, RegenConsistent, DetachConsistent, MoveConsistent DEF Next
  <2>2. CASE UNCHANGED vars
    <3>1. /\ UNCHANGED <<phase, round, group, live, db, committing, toTag, toConstrain, saved, at, ucs, ccs, scopes, tags>>
          /\ UNCHANGED <<values, esrRoots, numRequests, children, sps, families, aux, heap, aaa, discarded>>
      BY <2>2 DEF vars, gibbsVars, registerVars, nodeVars, spVars
    <3>2. /\ RegisterTypes /\ NodeTypes /\ MakerTypes /\ DBTypes /\ MoveTypes /\ Stages /\ MadeOK
          /\ RequestedOK
          /\ ValuedOK /\ Statics /\ CommitOK
      BY DEF Consistent
    <3>3. RegisterTypes' /\ NodeTypes' /\ MakerTypes' /\ DBTypes' /\ MoveTypes'
      BY <3>1, <3>2 DEF RegisterTypes, NodeTypes, MakerTypes, DBTypes, MoveTypes
    <3>4. Stages'
      <4>1. (\A p \in Particle : Recordless(p)' <=> Recordless(p)) /\ (Proposing' <=> Proposing)
            /\ NoDB' = NoDB
        BY <3>1 DEF Recordless, Proposing, Ended, Generation, NoDB
      <4> QED BY <3>1, <3>2, <4>1 DEF Stages
    <3>5. MadeOK' /\ RequestedOK' /\ ValuedOK' /\ CommitOK'
      <4>1. \A u \in {Base} \cup live : Present(u)' = Present(u) BY <3>1 DEF Present
      <4> QED
        BY <3>1, <3>2, <4>1 DEF MadeOK, RequestedOK, ValuedOK, CommitOK, getMadeSP, getESRParent, getValue,
           default
    <3>6. Statics'
      <4>1. UNCHANGED spVars /\ UNCHANGED <<saved, phase, round, group, live>> /\ db'.aux = db.aux
        BY <3>1 DEF spVars
      <4>2. Running(Base)' => Running(Base) BY <3>1 DEF Running
      <4> QED BY <3>2, <4>1, <4>2, QuietKeeps
    <3> QED BY <3>3, <3>4, <3>5, <3>6 DEF Consistent
  <2> QED BY <2>1, <2>2
<1> QED BY BlocksInvariant, <1>1, <1>2, PTL DEF Spec, KInv

-----------------------------------------------------------------------------
(* The particles show what copies of the trace would: what a trace stands  *)
(* for is read off its record.                                             *)
LEMMA TorusSame ==
  /\ Private!Base = Base /\ Private!Trace = Trace /\ Private!Particle = Particle
  /\ Private!TorusEnd = TorusEnd /\ Private!NoData = NoData
  /\ \A m : Private!Make(m) = Make(m) /\ \A o : Private!Request(o, m) = Request(o, m)
  /\ \A c : Private!Draw(c) = Draw(c) /\ Private!Absorb(c) = Absorb(c) /\ Private!default(c) = default(c)
  /\ \A s, b, c : Private!Tag(s, b, c) = Tag(s, b, c)
  /\ \A n, v : Private!Observe(n, v) = Observe(n, v)
  /\ \A s, v : Private!Incorporate(s, v) = Incorporate(s, v) /\ Private!Unincorporate(s, v) = Unincorporate(s, v)
  /\ \A t : Private!Restores(t) <=> Restores(t)
  /\ \A g : Private!Generation(g) = Generation(g)
BY DEF Private!Base, Base, Private!Trace, Trace, Private!Particle, Particle, Private!TorusEnd, TorusEnd,
       Private!NoData, NoData, Private!Make, Make, Private!Request, Request, Private!Draw, Draw,
       Private!Absorb, Absorb, Private!default, default, Private!Tag, Tag, Private!Observe, Observe,
       Private!Incorporate, Incorporate, Private!Unincorporate, Unincorporate, Private!Restores, Restores,
       Private!Generation, Generation

LEMMA SeenAs ==
  ASSUME NEW u \in Trace, NEW w, Seen(u) = w
  PROVE  /\ SeenUcs[u] = UcsOf(w) /\ SeenCcs[u] = CcsOf(w) /\ SeenTags[u] = TagsOf(w)
         /\ SeenValues[u] = Overlaid(values, w) /\ SeenRoots[u] = Overlaid(esrRoots, w)
         /\ SeenRequests[u] = Overlaid(numRequests, w) /\ SeenChildren[u] = ChildrenOf(w)
         /\ SeenSPs[u] = Overlaid(sps, w) /\ SeenFamilies[u] = FamiliesOf(w)
         /\ SeenStats[u] = AllStatisticsOf(w) /\ SeenAAA[u] = AAAOf(w)
         /\ SeenAt[u] = IF phase = "commit" THEN Len(Program) ELSE at[w]
BY DEF SeenUcs, SeenCcs, SeenTags, SeenValues, SeenRoots, SeenRequests, SeenChildren, SeenSPs, SeenFamilies,
       SeenStats, SeenAAA, SeenAt, committed

LEMMA SeenAsNext ==
  ASSUME NEW u \in Trace, NEW w, Seen(u)' = w
  PROVE  /\ SeenUcs'[u] = UcsOf(w)' /\ SeenCcs'[u] = CcsOf(w)' /\ SeenTags'[u] = TagsOf(w)'
         /\ SeenValues'[u] = Overlaid(values, w)' /\ SeenRoots'[u] = Overlaid(esrRoots, w)'
         /\ SeenRequests'[u] = Overlaid(numRequests, w)' /\ SeenChildren'[u] = ChildrenOf(w)'
         /\ SeenSPs'[u] = Overlaid(sps, w)' /\ SeenFamilies'[u] = FamiliesOf(w)'
         /\ SeenStats'[u] = AllStatisticsOf(w)' /\ SeenAAA'[u] = AAAOf(w)'
         /\ SeenAt'[u] = IF phase' = "commit" THEN Len(Program) ELSE at'[w]
<1>1. SeenUcs'[u] = UcsOf(w)' /\ SeenCcs'[u] = CcsOf(w)'
  BY DEF SeenUcs, SeenCcs, UcsOf, CcsOf
<1>2. SeenTags'[u] = TagsOf(w)' BY DEF SeenTags, TagsOf
<1>3. SeenValues'[u] = Overlaid(values, w)' /\ SeenRoots'[u] = Overlaid(esrRoots, w)'
  BY DEF SeenValues, SeenRoots, Overlaid
<1>4. SeenRequests'[u] = Overlaid(numRequests, w)' /\ SeenSPs'[u] = Overlaid(sps, w)'
  BY DEF SeenRequests, SeenSPs, Overlaid
<1>5. SeenChildren'[u] = ChildrenOf(w)' BY DEF SeenChildren, ChildrenOf, getChildren
<1>6. SeenFamilies'[u] = FamiliesOf(w)'
  BY DEF SeenFamilies, FamiliesOf, getMadeSPFamilyRoot
<1>7. SeenStats'[u] = AllStatisticsOf(w)'
  BY DEF SeenStats, AllStatisticsOf, StatisticsOf, StatisticsAt, getMadeSPAux
<1>8. SeenAAA'[u] = AAAOf(w)' BY DEF SeenAAA, AAAOf, StatisticsAt, getAAAMadeSPAux
<1>9. SeenAt'[u] = IF phase' = "commit" THEN Len(Program) ELSE at'[w]
  BY DEF SeenAt, committed
<1> QED BY <1>1, <1>2, <1>3, <1>4, <1>5, <1>6, <1>7, <1>8, <1>9

LEMMA SteadyWatches ==
  ASSUME KInv, phase # "commit", UNCHANGED <<phase, live, committing>>, NEW t \in Trace,
         t = Base => live = {}, t # Base => t \in live
  PROVE  Watches(t)
<1>1. Base \in Trace /\ Base \notin Particle /\ live \subseteq Particle /\ Particle \subseteq Trace
  BY SteadyThere DEF Steady
<1>2. ASSUME NEW u \in Trace
      PROVE  Seen(u) = IF u \in live THEN u ELSE Base
  BY DEF Seen
<1>3. ASSUME NEW u \in Trace
      PROVE  Seen(u)' = Seen(u)
  BY DEF Seen
<1>4. Seen(t) = t BY <1>1, <1>2
<1>5. ASSUME NEW u \in Trace
      PROVE  Seen(u) \in Trace /\ Shows(t, Seen(u)) /\ (u \in Private!Acts(t) <=> Seen(u) = t)
  BY <1>1, <1>2, TorusSame DEF Shows, Private!Acts
<1> QED BY <1>3, <1>4, <1>5 DEF Watches

LEMMA RegenWatches ==
  ASSUME KInv, NEW t \in Trace, Running(t), UNCHANGED gibbsVars, Done(t)
  PROVE  /\ Watches(t) /\ Private!Done(t)
         /\ UNCHANGED <<SeenPhase, round, SeenGroup, SeenLive, SeenDB>>
         /\ \A s : Due(t, s) => Private!Due(t, s)
<1>1. Steady /\ Base \in Trace /\ Base \notin Particle /\ live \subseteq Particle /\ Particle \subseteq Trace
  BY SteadyThere DEF Steady
<1>2. /\ at[t] \in Nat /\ (t = Base => phase = "regen" /\ live = {})
      /\ t # Base => t \in live /\ phase = "propose"
  BY <1>1, RunningFacts
<1>3. phase # "commit" /\ UNCHANGED <<phase, live, committing, round, group, db, saved>>
  BY <1>2 DEF gibbsVars
<1>4. Watches(t) BY <1>2, <1>3, SteadyWatches
<1>5. MoveTypes BY <1>1 DEF Steady
<1>6. Advanced(t) BY <1>5, DoneAdvances
<1>7. UNCHANGED <<SeenPhase, round, SeenGroup, SeenLive, SeenDB>>
  BY <1>3 DEF SeenPhase, SeenGroup, SeenLive, SeenDB, committed
<1>8. SeenPhase = phase /\ SeenLive = live /\ SeenAt[t] = at[t]
  BY <1>3, <1>4 DEF SeenPhase, SeenLive, SeenAt, committed, Watches
<1>9. Private!Running(t)
  <2>1. CASE t = Base BY <2>1, <1>8, TorusSame DEF Private!Running, Running
  <2>2. CASE t # Base BY <2>2, <1>8, TorusSame DEF Private!Running, Running
  <2> QED BY <2>1, <2>2
<1>10. ASSUME NEW s, Due(t, s)
       PROVE  Private!Due(t, s)
  BY <1>8, <1>9, <1>10 DEF Due, Private!Due
<1>11. Private!Done(t)
  <2>1. ASSUME NEW u \in Trace
        PROVE  /\ SeenAt'[u] = at'[Seen(u)] /\ SeenAt[u] = at[Seen(u)]
               /\ (u \in Private!Acts(t) <=> Seen(u) = t) /\ Seen(u) \in Trace
    BY <1>3, <1>4 DEF SeenAt, committed, Watches
  <2>2. at'[t] = at[t] + 1 /\ \A u \in Trace : u # t => at'[u] = at[u]
    BY <1>6 DEF Advanced
  <2>3. SeenAt' = [u \in Trace |-> SeenAt'[u]] BY DEF SeenAt
  <2> QED BY <2>1, <2>2, <2>3, <1>8, TorusSame DEF Private!Done
<1> QED BY <1>4, <1>7, <1>10, <1>11

(* What a change of one field, or none, of what t shows does to the traces *)
(* that show it.                                                           *)
ShownBy(f, A) == A = [u \in Trace |-> f[Seen(u)]]
Sets(t, f, g, k, v) == \A w \in Trace : Shows(t, w) => g[w] = IF w = t THEN [f[w] EXCEPT ![k] = v] ELSE f[w]
TableOf(X, D)       == \E V : X \in [Trace -> [D -> V]]
Assigned(Y, X, t, k, v) == Y = [X EXCEPT ![t][k] = v]
Overlays(A, X)      == A = [u \in Trace |-> Overlaid(X, Seen(u))]

LEMMA PutShows ==
  ASSUME NEW t \in Trace, Watches(t), NEW f, NEW g, NEW k, NEW v,
         Sets(t, f, g, k, v),
         NEW A, ShownBy(f, A), NEW B, ShownBy(g, B)
  PROVE  B = Private!Put(A, t, k, v)
<1>1. ASSUME NEW u \in Trace
      PROVE  /\ A[u] = f[Seen(u)] /\ B[u] = g[Seen(u)] /\ (u \in Private!Acts(t) <=> Seen(u) = t)
             /\ Seen(u) \in Trace /\ Shows(t, Seen(u))
  BY DEF Watches, ShownBy
<1>2. ASSUME NEW u \in Trace
      PROVE  B[u] = IF u \in Private!Acts(t) THEN [A[u] EXCEPT ![k] = v] ELSE A[u]
  BY <1>1 DEF Sets
<1> QED BY <1>2, TorusSame DEF Private!Put, ShownBy

LEMMA OverlaidPut ==
  ASSUME NEW D, NEW X, TableOf(X, D), NEW t \in Trace, Watches(t), NEW k \in D, NEW v,
         v # None \/ t = Base, NEW Y, Assigned(Y, X, t, k, v),
         NEW A, Overlays(A, X), NEW B, Overlays(B, Y)
  PROVE  B = Private!Put(A, t, k, v)
<1>1. PICK f : f = [w \in Trace |-> Overlaid(X, w)] OBVIOUS
<1>2. PICK g : g = [w \in Trace |-> Overlaid(Y, w)] OBVIOUS
<1>3. ASSUME NEW w \in Trace, Shows(t, w)
      PROVE  Overlaid(Y, w) = IF w = t THEN [Overlaid(X, w) EXCEPT ![k] = v] ELSE Overlaid(X, w)
  <2>1. /\ DOMAIN Y[w] = D /\ DOMAIN X[w] = D /\ Y[t][k] = v /\ Base \in Trace
        /\ \A u \in Trace, j \in D : u # t \/ j # k => Y[u][j] = X[u][j]
    BY BaseIsNoParticle DEF TableOf, Assigned
  <2>2. CASE w = t
    <3>1. ASSUME NEW j \in D
          PROVE  (IF Y[t][j] # None THEN Y[t][j] ELSE Y[Base][j]) =
                 (IF j = k THEN v ELSE IF X[t][j] # None THEN X[t][j] ELSE X[Base][j])
      BY <2>1
    <3>2. Overlaid(Y, t) = [j \in D |-> IF Y[t][j] # None THEN Y[t][j] ELSE Y[Base][j]]
      BY <2>1, <2>2 DEF Overlaid
    <3>3. Overlaid(X, t) = [j \in D |-> IF X[t][j] # None THEN X[t][j] ELSE X[Base][j]]
      BY <2>1, <2>2 DEF Overlaid
    <3> QED BY <2>2, <3>1, <3>2, <3>3
  <2>3. CASE w # t
    <3>1. ASSUME NEW j \in D
          PROVE  Y[w][j] = X[w][j] /\ Y[Base][j] = X[Base][j]
      BY <1>3, <2>1, <2>3 DEF Shows
    <3> QED BY <2>1, <2>3, <3>1 DEF Overlaid
  <2> QED BY <2>2, <2>3
<1>4. Sets(t, f, g, k, v) BY <1>1, <1>2, <1>3 DEF Sets
<1>5. \A u \in Trace : Seen(u) \in Trace BY DEF Watches
<1>6. ShownBy(f, A) /\ ShownBy(g, B) BY <1>1, <1>2, <1>5 DEF ShownBy, Overlays
<1> QED BY <1>4, <1>6, PutShows

LEMMA TablePut ==
  ASSUME KInv, NEW t \in Trace, Watches(t), NEW k, NEW v, v # None \/ t = Base
  PROVE  /\ k \in Choice /\ values' = [values EXCEPT ![t][k] = v] => SeenValues' = Private!Put(SeenValues, t, k, v)
         /\ k \in Output /\ esrRoots' = [esrRoots EXCEPT ![t][k] = v] => SeenRoots' = Private!Put(SeenRoots, t, k, v)
         /\ k \in Choice /\ numRequests' = [numRequests EXCEPT ![t][k] = v] =>
              SeenRequests' = Private!Put(SeenRequests, t, k, v)
         /\ k \in Maker /\ sps' = [sps EXCEPT ![t][k] = v] => SeenSPs' = Private!Put(SeenSPs, t, k, v)
<1>1. TableOf(values, Choice) /\ TableOf(esrRoots, Output) /\ TableOf(numRequests, Choice)
      /\ TableOf(sps, Maker)
  BY DEF KInv, JInv, ValuesOK, Consistent, NodeTypes, MakerTypes, TableOf
<1>2. \A u \in Trace : Seen(u)' = Seen(u) BY DEF Watches
<1>3. /\ Overlays(SeenValues', values') /\ Overlays(SeenValues, values)
      /\ Overlays(SeenRoots', esrRoots') /\ Overlays(SeenRoots, esrRoots)
      /\ Overlays(SeenRequests', numRequests') /\ Overlays(SeenRequests, numRequests)
      /\ Overlays(SeenSPs', sps') /\ Overlays(SeenSPs, sps)
  BY <1>2 DEF SeenValues, SeenRoots, SeenRequests, SeenSPs, Overlaid, Overlays
<1>4. ASSUME k \in Choice, values' = [values EXCEPT ![t][k] = v]
      PROVE  SeenValues' = Private!Put(SeenValues, t, k, v)
  <2>1. Assigned(values', values, t, k, v) BY <1>4 DEF Assigned
  <2> QED BY <1>1, <1>3, <1>4, <2>1, OverlaidPut
<1>5. ASSUME k \in Output, esrRoots' = [esrRoots EXCEPT ![t][k] = v]
      PROVE  SeenRoots' = Private!Put(SeenRoots, t, k, v)
  <2>1. Assigned(esrRoots', esrRoots, t, k, v) BY <1>5 DEF Assigned
  <2> QED BY <1>1, <1>3, <1>5, <2>1, OverlaidPut
<1>6. ASSUME k \in Choice, numRequests' = [numRequests EXCEPT ![t][k] = v]
      PROVE  SeenRequests' = Private!Put(SeenRequests, t, k, v)
  <2>1. Assigned(numRequests', numRequests, t, k, v) BY <1>6 DEF Assigned
  <2> QED BY <1>1, <1>3, <1>6, <2>1, OverlaidPut
<1>7. ASSUME k \in Maker, sps' = [sps EXCEPT ![t][k] = v]
      PROVE  SeenSPs' = Private!Put(SeenSPs, t, k, v)
  <2>1. Assigned(sps', sps, t, k, v) BY <1>7 DEF Assigned
  <2> QED BY <1>1, <1>3, <1>7, <2>1, OverlaidPut
<1> QED BY <1>4, <1>5, <1>6, <1>7

LEMMA StillShows ==
  ASSUME \A u \in Trace : Seen(u)' = Seen(u)
  PROVE  /\ values' = values => SeenValues' = SeenValues
         /\ esrRoots' = esrRoots => SeenRoots' = SeenRoots
         /\ numRequests' = numRequests => SeenRequests' = SeenRequests
         /\ children' = children => SeenChildren' = SeenChildren
         /\ sps' = sps => SeenSPs' = SeenSPs
         /\ families' = families => SeenFamilies' = SeenFamilies
         /\ UNCHANGED <<ucs, ccs>> => SeenUcs' = SeenUcs
         /\ ccs' = ccs => SeenCcs' = SeenCcs
         /\ UNCHANGED <<scopes, tags, ccs>> => SeenTags' = SeenTags
         /\ UNCHANGED <<aux, heap>> => SeenStats' = SeenStats
         /\ UNCHANGED <<aaa, discarded, heap>> => SeenAAA' = SeenAAA
<1>1. \A u \in Trace : Seen(u)' = Seen(u) OBVIOUS
<1>2. values' = values => SeenValues' = SeenValues BY <1>1 DEF SeenValues, Overlaid
<1>3. esrRoots' = esrRoots => SeenRoots' = SeenRoots BY <1>1 DEF SeenRoots, Overlaid
<1>4. numRequests' = numRequests => SeenRequests' = SeenRequests
  BY <1>1 DEF SeenRequests, Overlaid
<1>5. children' = children => SeenChildren' = SeenChildren
  BY <1>1 DEF SeenChildren, ChildrenOf, getChildren
<1>6. sps' = sps => SeenSPs' = SeenSPs BY <1>1 DEF SeenSPs, Overlaid
<1>7. families' = families => SeenFamilies' = SeenFamilies
  BY <1>1 DEF SeenFamilies, FamiliesOf, getMadeSPFamilyRoot
<1>8. UNCHANGED <<ucs, ccs>> => SeenUcs' = SeenUcs BY <1>1 DEF SeenUcs, UcsOf
<1>9. ccs' = ccs => SeenCcs' = SeenCcs BY <1>1 DEF SeenCcs, CcsOf
<1>10. UNCHANGED <<scopes, tags, ccs>> => SeenTags' = SeenTags
  <2>1. scopes' = scopes => BaseTags' = BaseTags BY DEF BaseTags
  <2> QED BY <1>1, <2>1 DEF SeenTags, TagsOf
<1>11. UNCHANGED <<aux, heap>> => SeenStats' = SeenStats
  BY <1>1 DEF SeenStats, AllStatisticsOf, StatisticsOf, StatisticsAt, getMadeSPAux
<1>12. UNCHANGED <<aaa, discarded, heap>> => SeenAAA' = SeenAAA
  BY <1>1 DEF SeenAAA, AAAOf, StatisticsAt, getAAAMadeSPAux
<1> QED BY <1>2, <1>3, <1>4, <1>5, <1>6, <1>7, <1>8, <1>9, <1>10, <1>11, <1>12

LEMMA SameShows ==
  ASSUME NEW t, Watches(t)
  PROVE  /\ values' = values => SeenValues' = SeenValues
         /\ esrRoots' = esrRoots => SeenRoots' = SeenRoots
         /\ numRequests' = numRequests => SeenRequests' = SeenRequests
         /\ children' = children => SeenChildren' = SeenChildren
         /\ sps' = sps => SeenSPs' = SeenSPs
         /\ families' = families => SeenFamilies' = SeenFamilies
         /\ UNCHANGED <<ucs, ccs>> => SeenUcs' = SeenUcs
         /\ ccs' = ccs => SeenCcs' = SeenCcs
         /\ UNCHANGED <<scopes, tags, ccs>> => SeenTags' = SeenTags
         /\ UNCHANGED <<aux, heap>> => SeenStats' = SeenStats
         /\ UNCHANGED <<aaa, discarded, heap>> => SeenAAA' = SeenAAA
BY StillShows DEF Watches

Showing(t, f, x)     == \A w \in Trace : Shows(t, w) => f[w] = AllStatisticsOf(w) /\ x[w] = AAAOf(w)
ShowingNext(t, g, y) == \A w \in Trace : Shows(t, w) => g[w] = (AllStatisticsOf(w))' /\ y[w] = (AAAOf(w))'

LEMMA StatisticsSeen ==
  ASSUME NEW t, Watches(t), NEW f, NEW g, NEW x, NEW y,
         Showing(t, f, x), ShowingNext(t, g, y)
  PROVE  ShownBy(f, SeenStats) /\ ShownBy(g, SeenStats') /\ ShownBy(x, SeenAAA) /\ ShownBy(y, SeenAAA')
<1>1. ASSUME NEW u \in Trace
      PROVE  /\ SeenStats[u] = f[Seen(u)] /\ SeenStats'[u] = g[Seen(u)]
             /\ SeenAAA[u] = x[Seen(u)] /\ SeenAAA'[u] = y[Seen(u)]
  <2>1. PICK w : w = Seen(u) OBVIOUS
  <2>2. w \in Trace /\ Shows(t, w) /\ Seen(u)' = w BY <2>1 DEF Watches
  <2>3. /\ SeenStats[u] = AllStatisticsOf(w) /\ SeenStats'[u] = (AllStatisticsOf(w))'
        /\ SeenAAA[u] = AAAOf(w) /\ SeenAAA'[u] = (AAAOf(w))'
    BY <2>1, <2>2, SeenAs, SeenAsNext
  <2> QED BY <2>1, <2>2, <2>3 DEF Showing, ShowingNext
<1>2. /\ SeenStats = [u \in Trace |-> SeenStats[u]] /\ SeenStats' = [u \in Trace |-> SeenStats'[u]]
      /\ SeenAAA = [u \in Trace |-> SeenAAA[u]] /\ SeenAAA' = [u \in Trace |-> SeenAAA'[u]]
  BY DEF SeenStats, SeenAAA
<1> QED BY <1>1, <1>2 DEF ShownBy

LEMMA UpdatedSeen ==
  ASSUME NEW t \in Trace, Watches(t), NEW m, NEW s, UpdatedTo(t, m, s)
  PROVE  SeenStats' = Private!Put(SeenStats, t, m, s) /\ SeenAAA' = SeenAAA
<1>1. PICK f : f = [w \in Trace |-> AllStatisticsOf(w)] OBVIOUS
<1>2. PICK g : g = [w \in Trace |-> IF w = t THEN [AllStatisticsOf(w) EXCEPT ![m] = s] ELSE AllStatisticsOf(w)]
  OBVIOUS
<1>3. PICK x : x = [w \in Trace |-> AAAOf(w)] OBVIOUS
<1>4. ASSUME NEW w \in Trace, Shows(t, w)
      PROVE  /\ f[w] = AllStatisticsOf(w) /\ g[w] = (AllStatisticsOf(w))'
             /\ x[w] = AAAOf(w) /\ x[w] = (AAAOf(w))'
             /\ g[w] = IF w = t THEN [f[w] EXCEPT ![m] = s] ELSE f[w]
  BY <1>1, <1>2, <1>3, <1>4 DEF UpdatedTo
<1>5. ShownBy(f, SeenStats) /\ ShownBy(g, SeenStats') /\ ShownBy(x, SeenAAA) /\ ShownBy(x, SeenAAA')
  <2>1. Showing(t, f, x) /\ ShowingNext(t, g, x) BY <1>4 DEF Showing, ShowingNext
  <2> QED BY <2>1, StatisticsSeen
<1>6. Sets(t, f, g, m, s) BY <1>4 DEF Sets
<1>7. SeenStats' = Private!Put(SeenStats, t, m, s) BY <1>5, <1>6, PutShows
<1> QED BY <1>5, <1>7 DEF ShownBy

LEMMA MadeSeen ==
  ASSUME NEW t \in Trace, Watches(t), NEW m, MadeShows(t, m)
  PROVE  /\ SeenStats' = Private!Put(SeenStats, t, m, MadeStatistics(t, m))
         /\ SeenAAA' = Private!Put(SeenAAA, t, m, None)
<1>1. PICK f : f = [w \in Trace |-> AllStatisticsOf(w)] OBVIOUS
<1>2. PICK g : g = [w \in Trace |-> IF w = t THEN [AllStatisticsOf(w) EXCEPT ![m] = MadeStatistics(t, m)]
                                    ELSE AllStatisticsOf(w)]
  OBVIOUS
<1>3. PICK x : x = [w \in Trace |-> AAAOf(w)] OBVIOUS
<1>4. PICK y : y = [w \in Trace |-> IF w = t THEN [AAAOf(w) EXCEPT ![m] = None] ELSE AAAOf(w)]
  OBVIOUS
<1>5. ASSUME NEW w \in Trace, Shows(t, w)
      PROVE  /\ f[w] = AllStatisticsOf(w) /\ g[w] = (AllStatisticsOf(w))'
             /\ x[w] = AAAOf(w) /\ y[w] = (AAAOf(w))'
             /\ g[w] = IF w = t THEN [f[w] EXCEPT ![m] = MadeStatistics(t, m)] ELSE f[w]
             /\ y[w] = IF w = t THEN [x[w] EXCEPT ![m] = None] ELSE x[w]
  BY <1>1, <1>2, <1>3, <1>4, <1>5 DEF MadeShows
<1>6. ShownBy(f, SeenStats) /\ ShownBy(g, SeenStats') /\ ShownBy(x, SeenAAA) /\ ShownBy(y, SeenAAA')
  <2>1. Showing(t, f, x) /\ ShowingNext(t, g, y) BY <1>5 DEF Showing, ShowingNext
  <2> QED BY <2>1, StatisticsSeen
<1>7. Sets(t, f, g, m, MadeStatistics(t, m)) /\ Sets(t, x, y, m, None) BY <1>5 DEF Sets
<1> QED BY <1>6, <1>7, PutShows

(* The registers.                                                          *)
LEMMA UcsSeen ==
  ASSUME NEW t \in Trace, Watches(t), NEW s
  PROVE  /\ (\A w \in Trace : Shows(t, w) => (UcsOf(w))' = IF w = t THEN UcsOf(w) \cup s ELSE UcsOf(w)) =>
              SeenUcs' = Private!With(SeenUcs, t, s)
         /\ (\A w \in Trace : Shows(t, w) => (UcsOf(w))' = IF w = t THEN UcsOf(w) \ s ELSE UcsOf(w)) =>
              SeenUcs' = Private!Without(SeenUcs, t, s)
<1>1. ASSUME NEW u \in Trace
      PROVE  \E w \in Trace : /\ Shows(t, w) /\ SeenUcs[u] = UcsOf(w) /\ SeenUcs'[u] = (UcsOf(w))'
                              /\ (u \in Private!Acts(t) <=> w = t)
  <2>1. PICK w : w = Seen(u) OBVIOUS
  <2>2. w \in Trace /\ Shows(t, w) /\ Seen(u)' = w /\ (u \in Private!Acts(t) <=> w = t)
    BY <2>1 DEF Watches
  <2>3. SeenUcs[u] = UcsOf(w) /\ SeenUcs'[u] = (UcsOf(w))'
    BY <2>1, <2>2, SeenAs, SeenAsNext
  <2> QED BY <2>2, <2>3
<1>2. SeenUcs' = [u \in Trace |-> SeenUcs'[u]] BY DEF SeenUcs
<1>3. ASSUME \A w \in Trace : Shows(t, w) => (UcsOf(w))' = IF w = t THEN UcsOf(w) \cup s ELSE UcsOf(w)
      PROVE  SeenUcs' = Private!With(SeenUcs, t, s)
  <2>1. ASSUME NEW u \in Trace
        PROVE  SeenUcs'[u] = IF u \in Private!Acts(t) THEN SeenUcs[u] \cup s ELSE SeenUcs[u]
    BY <1>1, <1>3
  <2> QED BY <1>2, <2>1, TorusSame DEF Private!With
<1>4. ASSUME \A w \in Trace : Shows(t, w) => (UcsOf(w))' = IF w = t THEN UcsOf(w) \ s ELSE UcsOf(w)
      PROVE  SeenUcs' = Private!Without(SeenUcs, t, s)
  <2>1. ASSUME NEW u \in Trace
        PROVE  SeenUcs'[u] = IF u \in Private!Acts(t) THEN SeenUcs[u] \ s ELSE SeenUcs[u]
    BY <1>1, <1>4
  <2> QED BY <1>2, <2>1, TorusSame DEF Private!Without
<1> QED BY <1>3, <1>4

LEMMA CcsSeen ==
  ASSUME NEW t \in Trace, Watches(t), NEW s
  PROVE  /\ (\A w \in Trace : Shows(t, w) => (CcsOf(w))' = IF w = t THEN CcsOf(w) \cup s ELSE CcsOf(w)) =>
              SeenCcs' = Private!With(SeenCcs, t, s)
         /\ (\A w \in Trace : Shows(t, w) => (CcsOf(w))' = IF w = t THEN CcsOf(w) \ s ELSE CcsOf(w)) =>
              SeenCcs' = Private!Without(SeenCcs, t, s)
<1>1. ASSUME NEW u \in Trace
      PROVE  \E w \in Trace : /\ Shows(t, w) /\ SeenCcs[u] = CcsOf(w) /\ SeenCcs'[u] = (CcsOf(w))'
                              /\ (u \in Private!Acts(t) <=> w = t)
  <2>1. PICK w : w = Seen(u) OBVIOUS
  <2>2. w \in Trace /\ Shows(t, w) /\ Seen(u)' = w /\ (u \in Private!Acts(t) <=> w = t)
    BY <2>1 DEF Watches
  <2>3. SeenCcs[u] = CcsOf(w) /\ SeenCcs'[u] = (CcsOf(w))'
    BY <2>1, <2>2, SeenAs, SeenAsNext
  <2> QED BY <2>2, <2>3
<1>2. SeenCcs' = [u \in Trace |-> SeenCcs'[u]] BY DEF SeenCcs
<1>3. ASSUME \A w \in Trace : Shows(t, w) => (CcsOf(w))' = IF w = t THEN CcsOf(w) \cup s ELSE CcsOf(w)
      PROVE  SeenCcs' = Private!With(SeenCcs, t, s)
  <2>1. ASSUME NEW u \in Trace
        PROVE  SeenCcs'[u] = IF u \in Private!Acts(t) THEN SeenCcs[u] \cup s ELSE SeenCcs[u]
    BY <1>1, <1>3
  <2> QED BY <1>2, <2>1, TorusSame DEF Private!With
<1>4. ASSUME \A w \in Trace : Shows(t, w) => (CcsOf(w))' = IF w = t THEN CcsOf(w) \ s ELSE CcsOf(w)
      PROVE  SeenCcs' = Private!Without(SeenCcs, t, s)
  <2>1. ASSUME NEW u \in Trace
        PROVE  SeenCcs'[u] = IF u \in Private!Acts(t) THEN SeenCcs[u] \ s ELSE SeenCcs[u]
    BY <1>1, <1>4
  <2> QED BY <1>2, <2>1, TorusSame DEF Private!Without
<1> QED BY <1>3, <1>4

LEMMA TagsSeen ==
  ASSUME NEW t \in Trace, Watches(t), NEW s
  PROVE  /\ (\A w \in Trace : Shows(t, w) => (TagsOf(w))' = IF w = t THEN TagsOf(w) \cup s ELSE TagsOf(w)) =>
              SeenTags' = Private!With(SeenTags, t, s)
         /\ (\A w \in Trace : Shows(t, w) => (TagsOf(w))' = IF w = t THEN TagsOf(w) \ s ELSE TagsOf(w)) =>
              SeenTags' = Private!Without(SeenTags, t, s)
<1>1. ASSUME NEW u \in Trace
      PROVE  \E w \in Trace : /\ Shows(t, w) /\ SeenTags[u] = TagsOf(w) /\ SeenTags'[u] = (TagsOf(w))'
                              /\ (u \in Private!Acts(t) <=> w = t)
  <2>1. PICK w : w = Seen(u) OBVIOUS
  <2>2. w \in Trace /\ Shows(t, w) /\ Seen(u)' = w /\ (u \in Private!Acts(t) <=> w = t)
    BY <2>1 DEF Watches
  <2>3. SeenTags[u] = TagsOf(w) /\ SeenTags'[u] = (TagsOf(w))'
    BY <2>1, <2>2, SeenAs, SeenAsNext
  <2> QED BY <2>2, <2>3
<1>2. SeenTags' = [u \in Trace |-> SeenTags'[u]] BY DEF SeenTags
<1>3. ASSUME \A w \in Trace : Shows(t, w) => (TagsOf(w))' = IF w = t THEN TagsOf(w) \cup s ELSE TagsOf(w)
      PROVE  SeenTags' = Private!With(SeenTags, t, s)
  <2>1. ASSUME NEW u \in Trace
        PROVE  SeenTags'[u] = IF u \in Private!Acts(t) THEN SeenTags[u] \cup s ELSE SeenTags[u]
    BY <1>1, <1>3
  <2> QED BY <1>2, <2>1, TorusSame DEF Private!With
<1>4. ASSUME \A w \in Trace : Shows(t, w) => (TagsOf(w))' = IF w = t THEN TagsOf(w) \ s ELSE TagsOf(w)
      PROVE  SeenTags' = Private!Without(SeenTags, t, s)
  <2>1. ASSUME NEW u \in Trace
        PROVE  SeenTags'[u] = IF u \in Private!Acts(t) THEN SeenTags[u] \ s ELSE SeenTags[u]
    BY <1>1, <1>4
  <2> QED BY <1>2, <2>1, TorusSame DEF Private!Without
<1> QED BY <1>3, <1>4

LEMMA BaseTagsAre == BaseTags = TagsIn(scopes) /\ BaseTags' = TagsIn(scopes')
BY DEF BaseTags, TagsIn

(* A tag is added.                                                         *)
LEMMA TagAdds ==
  ASSUME KInv, NEW t \in Trace, Watches(t), NEW s, NEW b, NEW n, RegisterInScope(t, s, b, n),
         NEW old, ccs' = [ccs EXCEPT ![t] = @ \ old], old # {} => t = Base,
         t # Base => \A c \in ccs[t] : default(c) # <<s, b, n>>
  PROVE  SeenTags' = Private!With(SeenTags, t, {<<s, b, n>>})
<1>1. IInv /\ Base \in Trace /\ Base \notin Particle /\ ccs \in [Trace -> SUBSET Choice]
  BY SteadyThere DEF KInv, JInv, Consistent, RegisterTypes
<1>2. /\ t = Base => tags' = tags /\ TagsIn(scopes') = TagsIn(scopes) \cup {<<s, b, n>>}
      /\ t # Base => /\ scopes' = scopes
                     /\ tags'[t] = tags[t] \cup {<<s, b, n>>}
                     /\ \A p \in Particle \ {t} : tags'[p] = tags[p]
  BY <1>1, RegisterEffect
<1>3. \A u \in Trace : t # Base \/ u # Base => ccs'[u] = ccs[u] BY <1>1
<1>4. ASSUME NEW w \in Trace, Shows(t, w)
      PROVE  (TagsOf(w))' = IF w = t THEN TagsOf(w) \cup {<<s, b, n>>} ELSE TagsOf(w)
  <2>1. BaseTags = TagsIn(scopes) /\ BaseTags' = TagsIn(scopes') BY BaseTagsAre
  <2>2. CASE t = Base BY <1>2, <1>4, <2>1, <2>2 DEF TagsOf, Shows
  <2>3. CASE t # Base /\ w = Base BY <1>2, <2>1, <2>3 DEF TagsOf
  <2>4. CASE t # Base /\ w # Base /\ w # t
    BY <1>2, <1>3, <2>1, <2>4, BaseIsNoParticle DEF TagsOf
  <2>5. CASE t # Base /\ w = t
    <3>1. <<s, b, n>> \notin {default(c) : c \in ccs[t]} BY <2>5
    <3>2. (TagsOf(t))' = (BaseTags \cup tags[t] \cup {<<s, b, n>>}) \ {default(c) : c \in ccs[t]}
      BY <1>2, <1>3, <2>1, <2>5 DEF TagsOf, default
    <3> QED BY <2>5, <3>1, <3>2 DEF TagsOf
  <2> QED BY <2>2, <2>3, <2>4, <2>5
<1> QED BY <1>4, TagsSeen

LEMMA TagTakes ==
  ASSUME KInv, Watches(Base), NEW s, NEW b, NEW n, UnregisterInScope(s, b, n)
  PROVE  SeenTags' = Private!Without(SeenTags, Base, {<<s, b, n>>})
<1>1. IInv /\ Base \in Trace BY SteadyThere DEF KInv, JInv
<1>2. TagsIn(scopes') = TagsIn(scopes) \ {<<s, b, n>>} BY <1>1, UnregisterEffect
<1>3. ASSUME NEW w \in Trace, Shows(Base, w)
      PROVE  (TagsOf(w))' = IF w = Base THEN TagsOf(w) \ {<<s, b, n>>} ELSE TagsOf(w)
  BY <1>2, <1>3, BaseTagsAre DEF TagsOf, Shows
<1> QED BY <1>1, <1>3, TagsSeen

LEMMA ChoiceAdds ==
  ASSUME KInv, NEW t \in Trace, Watches(t), NEW c \in Choice, RegisterInScope(t, Default, c, c),
         ucs' = [ucs EXCEPT ![t] = @ \cup {c}], ccs' = ccs, t # Base => c \notin ccs[t]
  PROVE  /\ SeenUcs' = Private!With(SeenUcs, t, {c}) /\ SeenTags' = Private!With(SeenTags, t, {default(c)})
         /\ SeenCcs' = SeenCcs
<1>1. Base \in Trace /\ ccs \in [Trace -> SUBSET Choice] /\ ucs \in [Trace -> SUBSET Choice]
  BY SteadyThere DEF KInv, Consistent, RegisterTypes
<1>2. ASSUME NEW w \in Trace, Shows(t, w)
      PROVE  (UcsOf(w))' = IF w = t THEN UcsOf(w) \cup {c} ELSE UcsOf(w)
  BY <1>1, <1>2 DEF UcsOf, Shows
<1>3. SeenUcs' = Private!With(SeenUcs, t, {c}) BY <1>2, UcsSeen
<1>4. ccs' = [ccs EXCEPT ![t] = @ \ {}] BY <1>1
<1>5. t # Base => \A k \in ccs[t] : default(k) # <<Default, c, c>> BY DEF default
<1>6. SeenTags' = Private!With(SeenTags, t, {<<Default, c, c>>}) BY <1>4, <1>5, TagAdds
<1> QED BY <1>3, <1>6, SameShows DEF default

LEMMA ChoiceTakes ==
  ASSUME KInv, Watches(Base), NEW c, UnregisterInScope(Default, c, c), ucs' = [ucs EXCEPT ![Base] = @ \ {c}]
  PROVE  /\ SeenUcs' = Private!Without(SeenUcs, Base, {c})
         /\ SeenTags' = Private!Without(SeenTags, Base, {default(c)})
<1>1. Base \in Trace /\ ucs \in [Trace -> SUBSET Choice]
  BY SteadyThere DEF KInv, Consistent, RegisterTypes
<1>2. ASSUME NEW w \in Trace, Shows(Base, w)
      PROVE  (UcsOf(w))' = IF w = Base THEN UcsOf(w) \ {c} ELSE UcsOf(w)
  BY <1>1, <1>2 DEF UcsOf, Shows
<1> QED BY <1>1, <1>2, UcsSeen, TagTakes DEF default

LEMMA ConstrainedSeen ==
  ASSUME KInv, NEW t \in Trace, Watches(t), NEW c \in Choice, registerConstrainedChoice(t, c)
  PROVE  /\ SeenCcs' = Private!With(SeenCcs, t, {c}) /\ SeenUcs' = Private!Without(SeenUcs, t, {c})
         /\ SeenTags' = Private!Without(SeenTags, t, {default(c)})
<1>1. Base \in Trace /\ ccs \in [Trace -> SUBSET Choice] /\ ucs \in [Trace -> SUBSET Choice]
  BY SteadyThere DEF KInv, Consistent, RegisterTypes
<1>2. /\ ccs' = [ccs EXCEPT ![t] = @ \cup {c}]
      /\ t = Base => ucs' = [ucs EXCEPT ![Base] = @ \ {c}] /\ c \in ucs[Base]
      /\ t # Base => UNCHANGED <<ucs, scopes, tags>>
      /\ tags' = tags /\ RegisterTypes'
      /\ \A u \in Trace : u # t => ucs'[u] = ucs[u] /\ ccs'[u] = ccs[u]
  BY ConstrainedEffect
<1>3. ASSUME NEW w \in Trace, Shows(t, w)
      PROVE  (CcsOf(w))' = IF w = t THEN CcsOf(w) \cup {c} ELSE CcsOf(w)
  BY <1>1, <1>2, <1>3 DEF CcsOf, Shows
<1>4. SeenCcs' = Private!With(SeenCcs, t, {c}) BY <1>3, CcsSeen
<1>5. CASE t = Base
  <2>1. UnregisterInScope(Default, c, c)
    BY <1>5 DEF registerConstrainedChoice, unregisterUnconstrainedChoice
  <2> QED BY <1>2, <1>4, <1>5, <2>1, ChoiceTakes
<1>6. CASE t # Base
  <2>1. ASSUME NEW w \in Trace, Shows(t, w)
        PROVE  (UcsOf(w))' = IF w = t THEN UcsOf(w) \ {c} ELSE UcsOf(w)
    BY <1>1, <1>2, <1>6 DEF UcsOf
  <2>2. ASSUME NEW w \in Trace, Shows(t, w)
        PROVE  (TagsOf(w))' = IF w = t THEN TagsOf(w) \ {default(c)} ELSE TagsOf(w)
    <3>1. BaseTags' = BaseTags /\ tags' = tags BY <1>2, <1>6, BaseTagsAre
    <3>2. CASE w # t BY <1>2, <3>1, <3>2 DEF TagsOf
    <3>3. CASE w = t
      <4>1. ccs'[t] = ccs[t] \cup {c} BY <1>1, <1>2
      <4>2. {default(k) : k \in ccs[t] \cup {c}} = {default(k) : k \in ccs[t]} \cup {default(c)}
        OBVIOUS
      <4>3. (TagsOf(t))' = (BaseTags \cup tags[t]) \ {default(k) : k \in ccs[t] \cup {c}}
        BY <1>6, <3>1, <4>1 DEF TagsOf, default
      <4> QED BY <1>6, <3>3, <4>2, <4>3 DEF TagsOf
    <3> QED BY <3>2, <3>3
  <2>3. SeenUcs' = Private!Without(SeenUcs, t, {c}) BY <2>1, UcsSeen
  <2>4. SeenTags' = Private!Without(SeenTags, t, {default(c)}) BY <2>2, TagsSeen
  <2> QED BY <1>4, <2>3, <2>4
<1> QED BY <1>5, <1>6

LEMMA UnconstrainedSeen ==
  ASSUME KInv, Watches(Base), NEW c \in Choice, registerUnconstrainedChoice(Base, c),
         ccs' = [ccs EXCEPT ![Base] = @ \ {c}]
  PROVE  /\ SeenCcs' = Private!Without(SeenCcs, Base, {c}) /\ SeenUcs' = Private!With(SeenUcs, Base, {c})
         /\ SeenTags' = Private!With(SeenTags, Base, {default(c)})
<1>1. Base \in Trace /\ ccs \in [Trace -> SUBSET Choice] /\ ucs \in [Trace -> SUBSET Choice]
  BY SteadyThere DEF KInv, Consistent, RegisterTypes
<1>2. ucs' = [ucs EXCEPT ![Base] = @ \cup {c}] /\ RegisterInScope(Base, Default, c, c)
  BY DEF registerUnconstrainedChoice
<1>3. ASSUME NEW w \in Trace, Shows(Base, w)
      PROVE  /\ (CcsOf(w))' = IF w = Base THEN CcsOf(w) \ {c} ELSE CcsOf(w)
             /\ (UcsOf(w))' = IF w = Base THEN UcsOf(w) \cup {c} ELSE UcsOf(w)
  BY <1>1, <1>2, <1>3 DEF CcsOf, UcsOf, Shows
<1>4. SeenTags' = Private!With(SeenTags, Base, {<<Default, c, c>>})
  BY <1>1, <1>2, TagAdds
<1>5. SeenCcs' = Private!Without(SeenCcs, Base, {c}) BY <1>1, <1>3, CcsSeen
<1>6. SeenUcs' = Private!With(SeenUcs, Base, {c}) BY <1>1, <1>3, UcsSeen
<1> QED BY <1>4, <1>5, <1>6 DEF default

(* Families, and the requests for them.                                    *)
LEMMA ChildrenPut ==
  ASSUME KInv, NEW t \in Trace, t # Base, Watches(t), NEW c \in Choice, NEW s,
         children' = [children EXCEPT ![t][c] = s]
  PROVE  SeenChildren' = Private!Put(SeenChildren, t, c, children[Base][c] \cup s)
<1>1. PICK f : f = [w \in Trace |-> ChildrenOf(w)] OBVIOUS
<1>2. PICK C : C = children' OBVIOUS
<1>3. PICK g : g = [w \in Trace |-> [k \in Choice |-> C[Base][k] \cup C[w][k]]] OBVIOUS
<1>4. children \in [Trace -> [Choice -> SUBSET Output]] /\ Base \in Trace
  BY SteadyThere DEF KInv, Consistent, NodeTypes
<1>5. /\ C[t][c] = s /\ \A u \in Trace : u # t => C[u] = children[u]
      /\ \A k \in Choice : k # c => C[t][k] = children[t][k]
  BY <1>2, <1>4
<1>6. ASSUME NEW w \in Trace, Shows(t, w)
      PROVE  g[w] = IF w = t THEN [f[w] EXCEPT ![c] = children[Base][c] \cup s] ELSE f[w]
  <2>1. f[w] = [k \in Choice |-> children[Base][k] \cup children[w][k]]
    BY <1>1 DEF ChildrenOf, getChildren
  <2>2. ASSUME NEW k \in Choice
        PROVE  C[Base][k] \cup C[w][k] = IF w = t /\ k = c THEN children[Base][c] \cup s ELSE f[w][k]
    <3>1. f[w][k] = children[Base][k] \cup children[w][k] /\ C[Base] = children[Base]
      BY <1>4, <1>5, <2>1
    <3>2. CASE w = t BY <1>5, <3>1, <3>2
    <3>3. CASE w # t BY <1>5, <3>1, <3>3
    <3> QED BY <3>2, <3>3
  <2> QED BY <1>3, <2>1, <2>2
<1>7. Sets(t, f, g, c, children[Base][c] \cup s) BY <1>6 DEF Sets
<1>8. \A u \in Trace : Seen(u) \in Trace /\ Seen(u)' = Seen(u) BY DEF Watches
<1>9. SeenChildren = [u \in Trace |-> f[Seen(u)]] BY <1>1, <1>8 DEF SeenChildren
<1>10. SeenChildren' = [u \in Trace |-> g[Seen(u)]]
  BY <1>2, <1>3, <1>8 DEF SeenChildren, ChildrenOf, getChildren
<1> QED BY <1>7, <1>9, <1>10, PutShows DEF ShownBy

LEMMA BaseChildrenPut ==
  ASSUME KInv, Watches(Base), NEW c \in Choice, NEW s, children' = [children EXCEPT ![Base][c] = s]
  PROVE  SeenChildren' = Private!Put(SeenChildren, Base, c, s)
<1>1. PICK f : f = [w \in Trace |-> ChildrenOf(w)] OBVIOUS
<1>2. PICK C : C = children' OBVIOUS
<1>3. PICK g : g = [w \in Trace |-> [k \in Choice |-> C[Base][k] \cup C[w][k]]] OBVIOUS
<1>4. children \in [Trace -> [Choice -> SUBSET Output]] /\ Base \in Trace
  BY SteadyThere DEF KInv, Consistent, NodeTypes
<1>5. C[Base][c] = s /\ \A k \in Choice : k # c => C[Base][k] = children[Base][k]
  BY <1>2, <1>4
<1>6. ASSUME NEW w \in Trace, Shows(Base, w)
      PROVE  g[w] = IF w = Base THEN [f[w] EXCEPT ![c] = s] ELSE f[w]
  <2>1. f[Base] = [k \in Choice |-> children[Base][k]]
    BY <1>1, <1>4 DEF ChildrenOf, getChildren
  <2>2. ASSUME NEW k \in Choice
        PROVE  C[Base][k] \cup C[Base][k] = IF k = c THEN s ELSE f[Base][k]
    BY <1>5, <2>1
  <2>3. w = Base BY <1>6 DEF Shows
  <2> QED BY <1>3, <1>4, <2>1, <2>2, <2>3
<1>7. Sets(Base, f, g, c, s) BY <1>6 DEF Sets
<1>8. \A u \in Trace : Seen(u) \in Trace /\ Seen(u)' = Seen(u) BY DEF Watches
<1>9. SeenChildren = [u \in Trace |-> f[Seen(u)]] BY <1>1, <1>8 DEF SeenChildren
<1>10. SeenChildren' = [u \in Trace |-> g[Seen(u)]]
  BY <1>2, <1>3, <1>8 DEF SeenChildren, ChildrenOf, getChildren
<1>11. ShownBy(f, SeenChildren) /\ ShownBy(g, SeenChildren') BY <1>9, <1>10 DEF ShownBy
<1> QED BY <1>4, <1>7, <1>11, PutShows

LEMMA FamiliesPut ==
  ASSUME KInv, NEW t \in Trace, Watches(t), NEW m \in Maker, NEW row,
         \A u \in Trace, n \in Maker : u # t \/ n # m => families'[u][n] = families[u][n],
         row = [i \in Id |-> getMadeSPFamilyRoot(t, m, i)']
  PROVE  SeenFamilies' = Private!Put(SeenFamilies, t, m, row)
<1>1. PICK f : f = [w \in Trace |-> FamiliesOf(w)] OBVIOUS
<1>2. PICK F : F = families' OBVIOUS
<1>3. PICK g : g = [w \in Trace |-> [n \in Maker |-> [i \in Id |-> IF F[w][n][i] # None THEN F[w][n][i] ELSE F[Base][n][i]]]]
  OBVIOUS
<1>4. Base \in Trace BY SteadyThere
<1>5. /\ \A u \in Trace, n \in Maker : u # t \/ n # m => F[u][n] = families[u][n]
      /\ row = [i \in Id |-> IF F[t][m][i] # None THEN F[t][m][i] ELSE F[Base][m][i]]
  BY <1>2 DEF getMadeSPFamilyRoot
<1>6. ASSUME NEW w \in Trace, Shows(t, w)
      PROVE  g[w] = IF w = t THEN [f[w] EXCEPT ![m] = row] ELSE f[w]
  <2>1. f[w] = [n \in Maker |-> [i \in Id |-> IF families[w][n][i] # None THEN families[w][n][i]
                                             ELSE families[Base][n][i]]]
    BY <1>1 DEF FamiliesOf, getMadeSPFamilyRoot
  <2>2. ASSUME NEW n \in Maker, w = t => n # m
        PROVE  F[w][n] = families[w][n] /\ F[Base][n] = families[Base][n]
    BY <1>4, <1>5, <1>6, <2>2 DEF Shows
  <2>3. ASSUME NEW n \in Maker
        PROVE  g[w][n] = IF w = t /\ n = m THEN row ELSE f[w][n]
    <3>1. g[w][n] = [i \in Id |-> IF F[w][n][i] # None THEN F[w][n][i] ELSE F[Base][n][i]]
      BY <1>3
    <3>2. CASE w = t /\ n = m BY <1>5, <3>1, <3>2
    <3>3. CASE ~(w = t /\ n = m)
      <4>1. F[w][n] = families[w][n] /\ F[Base][n] = families[Base][n]
        BY <2>2, <3>3, <1>4, <1>5, <1>6 DEF Shows
      <4> QED BY <2>1, <3>1, <3>3, <4>1
    <3> QED BY <3>2, <3>3
  <2>4. DOMAIN g[w] = Maker /\ g[w] = [n \in Maker |-> g[w][n]] /\ f[w] = [n \in Maker |-> f[w][n]]
    BY <1>3, <2>1
  <2> QED BY <2>3, <2>4
<1>7. Sets(t, f, g, m, row) BY <1>6 DEF Sets
<1>8. \A u \in Trace : Seen(u) \in Trace /\ Seen(u)' = Seen(u) BY DEF Watches
<1>9. SeenFamilies = [u \in Trace |-> f[Seen(u)]] BY <1>1, <1>8 DEF SeenFamilies
<1>10. SeenFamilies' = [u \in Trace |-> g[Seen(u)]]
  <2>1. ASSUME NEW u \in Trace
        PROVE  SeenFamilies'[u] = g[Seen(u)]
    <3>1. PICK w \in Trace : w = Seen(u) /\ Seen(u)' = w BY <1>8
    <3>2. SeenFamilies'[u] = (FamiliesOf(w))' BY <3>1, SeenAsNext
    <3>3. (FamiliesOf(w))' = [n \in Maker |-> [i \in Id |-> IF F[w][n][i] # None THEN F[w][n][i] ELSE F[Base][n][i]]]
      BY <1>2 DEF FamiliesOf, getMadeSPFamilyRoot
    <3> QED BY <1>3, <3>1, <3>2, <3>3
  <2>2. SeenFamilies' = [u \in Trace |-> SeenFamilies'[u]] BY DEF SeenFamilies
  <2> QED BY <2>1, <2>2
<1> QED BY <1>7, <1>9, <1>10, PutShows DEF ShownBy

(* What a trace answers is what it shows.                                  *)
LEMMA SeenAnswers ==
  ASSUME KInv, NEW t \in Trace, Watches(t)
  PROVE  /\ \A c \in Choice : /\ SeenValues[t][c] = getValue(t, c) /\ SeenRequests[t][c] = getNumRequests(t, c)
                              /\ SeenChildren[t][c] = getChildren(t, c)
         /\ \A o \in Output : SeenRoots[t][o] = getESRParent(t, o)
         /\ \A m \in Maker : /\ SeenSPs[t][m] = getMadeSP(t, m) /\ SeenStats[t][m] = StatisticsOf(t, m)
                             /\ SeenAAA[t][m] = StatisticsAt(getAAAMadeSPAux(t, m))
                             /\ SeenFamilies[t][m] = [i \in Id |-> getMadeSPFamilyRoot(t, m, i)]
<1>1. /\ values \in [Trace -> [Choice -> Value \cup {None}]]
      /\ esrRoots \in [Trace -> [Output -> Maybe(Roots)]]
      /\ numRequests \in [Trace -> [Choice -> Maybe(Int)]] /\ sps \in [Trace -> [Maker -> Maybe(Proc)]]
  BY DEF KInv, JInv, ValuesOK, Consistent, NodeTypes, MakerTypes
<1>2. Seen(t) = t BY DEF Watches
<1>3. /\ SeenValues[t] = Overlaid(values, t) /\ SeenRoots[t] = Overlaid(esrRoots, t)
      /\ SeenRequests[t] = Overlaid(numRequests, t) /\ SeenSPs[t] = Overlaid(sps, t)
      /\ SeenChildren[t] = ChildrenOf(t) /\ SeenFamilies[t] = FamiliesOf(t)
      /\ SeenStats[t] = AllStatisticsOf(t) /\ SeenAAA[t] = AAAOf(t)
  BY <1>2, SeenAs
<1>4. \A c \in Choice : SeenValues[t][c] = getValue(t, c)
  BY <1>1, <1>3 DEF Overlaid, getValue
<1>5. \A c \in Choice : SeenRequests[t][c] = getNumRequests(t, c)
  BY <1>1, <1>3 DEF Overlaid, getNumRequests
<1>6. \A c \in Choice : SeenChildren[t][c] = getChildren(t, c) BY <1>3 DEF ChildrenOf
<1>7. \A o \in Output : SeenRoots[t][o] = getESRParent(t, o)
  BY <1>1, <1>3 DEF Overlaid, getESRParent
<1>8. \A m \in Maker : SeenSPs[t][m] = getMadeSP(t, m)
  BY <1>1, <1>3 DEF Overlaid, getMadeSP
<1>9. ASSUME NEW m \in Maker
      PROVE  /\ SeenStats[t][m] = StatisticsOf(t, m) /\ SeenAAA[t][m] = StatisticsAt(getAAAMadeSPAux(t, m))
             /\ SeenFamilies[t][m] = [i \in Id |-> getMadeSPFamilyRoot(t, m, i)]
  BY <1>3 DEF AllStatisticsOf, AAAOf, FamiliesOf
<1> QED BY <1>4, <1>5, <1>6, <1>7, <1>8, <1>9

(* The steps of the regeneration.                                          *)
LEMMA MakeSimulated ==
  ASSUME KInv, NEW t \in Trace, NEW m \in Maker, NEW sp \in Proc, MakeStep(t, m, sp)
  PROVE  Private!MakeStep(t, m, sp)
<1>1. /\ Due(t, Make(m)) /\ getMadeSP(t, m) = None
      /\ IF Restores(t) THEN sp = db.sps[m] ELSE sp \in Proc
      /\ sps' = [sps EXCEPT ![t][m] = sp] /\ families' = [families EXCEPT ![t][m] = [i \in Id |-> None]]
      /\ Done(t) /\ UNCHANGED gibbsVars /\ UNCHANGED <<ucs, ccs, scopes, tags>>
      /\ UNCHANGED <<values, esrRoots, numRequests, children>>
  BY DEF MakeStep, registerVars, nodeVars
<1>2. Running(t) BY <1>1 DEF Due
<1>3. /\ Watches(t) /\ Private!Done(t)
      /\ UNCHANGED <<SeenPhase, round, SeenGroup, SeenLive, SeenDB>>
      /\ \A s : Due(t, s) => Private!Due(t, s)
  BY <1>1, <1>2, RegenWatches
<1>4. Private!Due(t, Private!Make(m)) BY <1>1, <1>3, TorusSame
<1>5. Steady /\ Statics /\ DBTypes /\ MakerTypes /\ Base \in Trace
  BY SteadyThere DEF KInv, Consistent
<1>6. MadeShows(t, m) BY <1>5, MakeShows
<1>7. SeenStats' = Private!Put(SeenStats, t, m, MadeStatistics(t, m))
      /\ SeenAAA' = Private!Put(SeenAAA, t, m, None)
  BY <1>3, <1>6, MadeSeen
<1>8. SeenSPs' = Private!Put(SeenSPs, t, m, sp) BY <1>1, <1>3, NoneFacts, TablePut
<1>9. families \in [Trace -> [Maker -> [Id -> Maybe(Roots)]]] BY <1>5 DEF MakerTypes
<1>10. SeenFamilies' = Private!Put(SeenFamilies, t, m, [i \in Id |-> None])
  <2>1. /\ families'[t][m] = [i \in Id |-> None]
        /\ \A u \in Trace, n \in Maker : u # t \/ n # m => families'[u][n] = families[u][n]
    BY <1>1, <1>9
  <2>2. t # Base => families[Base][m] = [i \in Id |-> None]
    BY <1>1, <1>5, NoneFacts DEF Statics, MakersOK, getMadeSP
  <2>3. families'[Base][m] = [i \in Id |-> None] BY <1>5, <2>1, <2>2
  <2>4. [i \in Id |-> None] = [i \in Id |-> getMadeSPFamilyRoot(t, m, i)']
    BY <2>1, <2>3 DEF getMadeSPFamilyRoot
  <2> QED BY <1>3, <2>1, <2>4, FamiliesPut
<1>11. SeenSPs[t][m] = None /\ SeenAAA[t][m] = StatisticsAt(getAAAMadeSPAux(t, m))
  BY <1>1, <1>3, SeenAnswers
<1>12. IF Private!Restores(t) THEN sp = SeenDB.sps[m] ELSE sp \in Proc
  BY <1>1, TorusSame DEF SeenDB
<1>13. MadeStatistics(t, m) =
         CASE Private!Restores(t) /\ SeenDB.stats[m] # None -> SeenDB.stats[m]
           [] ~Private!Restores(t) /\ SeenAAA[t][m] # None  -> SeenAAA[t][m]
           [] OTHER                                         -> Private!NoData
  BY <1>11, TorusSame DEF MadeStatistics, SeenDB
<1>14. /\ SeenUcs' = SeenUcs /\ SeenCcs' = SeenCcs /\ SeenTags' = SeenTags /\ SeenValues' = SeenValues
       /\ SeenRoots' = SeenRoots /\ SeenRequests' = SeenRequests /\ SeenChildren' = SeenChildren
  BY <1>1, <1>3, SameShows
<1> QED
  BY <1>3, <1>4, <1>7, <1>8, <1>10, <1>11, <1>12, <1>13, <1>14 DEF Private!MakeStep

LEMMA ApplySimulated ==
  ASSUME KInv, NEW t \in Trace, Running(t), Watches(t), NEW c \in Choice, Applies(Program[at[t] + 1], c),
         NEW v \in Value, Apply(t, c, v), UNCHANGED <<ccs, aaa, discarded>>
  PROVE  /\ SeenValues[t][c] = None /\ SeenSPs[t][Op[c]] # None
         /\ SeenValues' = Private!Put(SeenValues, t, c, v)
         /\ SeenStats' = Private!Put(SeenStats, t, Op[c], Private!Incorporate(SeenStats[t][Op[c]], v))
         /\ SeenUcs' = Private!With(SeenUcs, t, {c})
         /\ SeenTags' = Private!With(SeenTags, t, {Private!default(c)})
         /\ SeenCcs' = SeenCcs /\ SeenAAA' = SeenAAA
<1>1. /\ values' = [values EXCEPT ![t][c] = v] /\ ucs' = [ucs EXCEPT ![t] = @ \cup {c}]
      /\ getValue(t, c) = None /\ getMadeSP(t, Op[c]) # None /\ Op[c] \in Maker
      /\ Update(t, Op[c], Incorporate(StatisticsOf(t, Op[c]), v))
      /\ Incorporate(StatisticsOf(t, Op[c]), v) \in Statistics
      /\ RegisterInScope(t, Default, c, c) /\ c \notin ucs[t]
      /\ \A u \in Particle : u # t => tags'[u] = tags[u]
      /\ \A u \in Trace : u # t => values'[u] = values[u] /\ ucs'[u] = ucs[u] /\ aux'[u] = aux[u]
      /\ ucs' \in [Trace -> SUBSET Choice]
      /\ \A u \in Trace, k \in Choice : getValue(u, k) # None => getValue(u, k)' # None
  BY ApplyEffect
<1>2. Steady /\ Statics /\ DBTypes /\ MadeOK /\ ValuedOK
  BY SteadyThere DEF KInv, Consistent
<1>3. Sole(t, Op[c]) BY <1>2, AppliedIsMade
<1>4. (t = Base => phase # "propose") /\ (t # Base => phase = "propose" /\ t \in live)
  BY <1>2, RunningFacts
<1>5. UpdatedTo(t, Op[c], Incorporate(StatisticsOf(t, Op[c]), v))
  BY <1>1, <1>2, <1>3, <1>4, UpdateShows
<1>6. /\ SeenStats' = Private!Put(SeenStats, t, Op[c], Incorporate(StatisticsOf(t, Op[c]), v))
      /\ SeenAAA' = SeenAAA
  BY <1>5, UpdatedSeen
<1>7. SeenValues[t][c] = None /\ SeenSPs[t][Op[c]] # None /\ SeenStats[t][Op[c]] = StatisticsOf(t, Op[c])
  <2>1. Op[c] \in Maker /\ getValue(t, c) = None /\ getMadeSP(t, Op[c]) # None BY <1>1
  <2> QED BY <2>1, SeenAnswers
<1>8. SeenValues' = Private!Put(SeenValues, t, c, v) BY <1>1, NoneFacts, TablePut
<1>9. t # Base => c \notin ccs[t] BY <1>1, <1>2, <1>4 DEF ValuedOK
<1>10. /\ SeenUcs' = Private!With(SeenUcs, t, {c}) /\ SeenTags' = Private!With(SeenTags, t, {default(c)})
       /\ SeenCcs' = SeenCcs
  BY <1>1, <1>9, ChoiceAdds
<1> QED BY <1>6, <1>7, <1>8, <1>10, TorusSame

LEMMA DrawSimulated ==
  ASSUME KInv, NEW t \in Trace, NEW c \in Choice, NEW v \in Value, DrawStep(t, c, v)
  PROVE  Private!DrawStep(t, c, v)
<1>1. /\ Due(t, Draw(c)) \/ Due(t, Absorb(c))
      /\ IF Restores(t) THEN v = db.values[c] ELSE v \in Value
      /\ Apply(t, c, v) /\ Done(t) /\ UNCHANGED gibbsVars
      /\ UNCHANGED <<ccs, esrRoots, numRequests, children, sps, families, aaa, discarded>>
  BY DEF DrawStep
<1>2. Running(t) /\ Applies(Program[at[t] + 1], c) BY <1>1 DEF Due, Applies
<1>3. /\ Watches(t) /\ Private!Done(t)
      /\ UNCHANGED <<SeenPhase, round, SeenGroup, SeenLive, SeenDB>>
      /\ \A s : Due(t, s) => Private!Due(t, s)
  BY <1>1, <1>2, RegenWatches
<1>4. Private!Due(t, Private!Draw(c)) \/ Private!Due(t, Private!Absorb(c))
  BY <1>1, <1>3, TorusSame
<1>5. /\ SeenValues[t][c] = None /\ SeenSPs[t][Op[c]] # None
      /\ SeenValues' = Private!Put(SeenValues, t, c, v)
      /\ SeenStats' = Private!Put(SeenStats, t, Op[c], Private!Incorporate(SeenStats[t][Op[c]], v))
      /\ SeenUcs' = Private!With(SeenUcs, t, {c})
      /\ SeenTags' = Private!With(SeenTags, t, {Private!default(c)})
      /\ SeenCcs' = SeenCcs /\ SeenAAA' = SeenAAA
  BY <1>1, <1>2, <1>3, ApplySimulated
<1>6. IF Private!Restores(t) THEN v = SeenDB.values[c] ELSE v \in Value
  BY <1>1, TorusSame DEF SeenDB
<1>7. /\ SeenRoots' = SeenRoots /\ SeenRequests' = SeenRequests /\ SeenChildren' = SeenChildren
      /\ SeenSPs' = SeenSPs /\ SeenFamilies' = SeenFamilies
  BY <1>1, <1>3, SameShows
<1> QED BY <1>3, <1>4, <1>5, <1>6, <1>7 DEF Private!DrawStep

LEMMA AbsorbSimulated ==
  ASSUME KInv, NEW t \in Trace, NEW c \in Choice, AbsorbStep(t, c)
  PROVE  Private!AbsorbStep(t, c)
<1>1. /\ Due(t, Absorb(c)) /\ getValue(t, c) # None
      /\ Update(t, Op[c], Incorporate(StatisticsOf(t, Op[c]), getValue(t, c)))
      /\ Done(t) /\ UNCHANGED gibbsVars /\ UNCHANGED <<ucs, ccs, scopes, tags>>
      /\ UNCHANGED <<values, esrRoots, numRequests, children, sps, families, aaa, discarded>>
  BY DEF AbsorbStep, registerVars, nodeVars
<1>2. Running(t) /\ Applies(Program[at[t] + 1], c) BY <1>1 DEF Due, Applies
<1>3. /\ Watches(t) /\ Private!Done(t)
      /\ UNCHANGED <<SeenPhase, round, SeenGroup, SeenLive, SeenDB>>
      /\ \A s : Due(t, s) => Private!Due(t, s)
  BY <1>1, <1>2, RegenWatches
<1>4. Private!Due(t, Private!Absorb(c)) BY <1>1, <1>3, TorusSame
<1>5. Steady /\ Statics /\ DBTypes /\ MadeOK BY SteadyThere DEF KInv, Consistent
<1>6. Op[c] \in Maker /\ getMadeSP(t, Op[c]) # None /\ Sole(t, Op[c])
  BY <1>2, <1>5, AppliedIsMade
<1>7. (t = Base => phase # "propose") /\ (t # Base => phase = "propose")
  BY <1>2, <1>5, RunningFacts
<1>8. Incorporate(StatisticsOf(t, Op[c]), getValue(t, c)) \in Statistics
  BY <1>6, StatisticsThere, CountsTyped
<1>9. UpdatedTo(t, Op[c], Incorporate(StatisticsOf(t, Op[c]), getValue(t, c)))
  BY <1>1, <1>5, <1>6, <1>7, <1>8, UpdateShows
<1>10. /\ SeenStats' = Private!Put(SeenStats, t, Op[c], Incorporate(StatisticsOf(t, Op[c]), getValue(t, c)))
       /\ SeenAAA' = SeenAAA
  BY <1>3, <1>9, UpdatedSeen
<1>11. SeenStats[t][Op[c]] = StatisticsOf(t, Op[c]) /\ SeenValues[t][c] = getValue(t, c)
  BY <1>3, <1>6, SeenAnswers
<1>12. SeenStats' = Private!Put(SeenStats, t, Op[c], Private!Incorporate(SeenStats[t][Op[c]], SeenValues[t][c]))
  BY <1>10, <1>11, TorusSame
<1>13. /\ SeenUcs' = SeenUcs /\ SeenCcs' = SeenCcs /\ SeenTags' = SeenTags /\ SeenValues' = SeenValues
       /\ SeenRoots' = SeenRoots /\ SeenRequests' = SeenRequests /\ SeenChildren' = SeenChildren
       /\ SeenSPs' = SeenSPs /\ SeenFamilies' = SeenFamilies
  BY <1>1, <1>3, SameShows
<1> QED BY <1>1, <1>3, <1>4, <1>10, <1>11, <1>12, <1>13 DEF Private!AbsorbStep

LEMMA TagSimulated ==
  ASSUME KInv, NEW t \in Trace, NEW s \in Scope, NEW b \in Choice, NEW c \in Choice, TagStep(t, s, b, c)
  PROVE  Private!TagStep(t, s, b, c)
<1>1. /\ Due(t, Tag(s, b, c)) /\ getValue(t, b) # None
      /\ RegisterInScope(t, s, getValue(t, b), c)
      /\ Done(t) /\ UNCHANGED gibbsVars /\ UNCHANGED <<ucs, ccs, values, esrRoots, numRequests, children>>
      /\ UNCHANGED <<sps, families, aux, heap, aaa, discarded>>
  BY DEF TagStep, nodeVars, spVars
<1>2. Running(t) BY <1>1 DEF Due
<1>3. /\ Watches(t) /\ Private!Done(t)
      /\ UNCHANGED <<SeenPhase, round, SeenGroup, SeenLive, SeenDB>>
      /\ \A r : Due(t, r) => Private!Due(t, r)
  BY <1>1, <1>2, RegenWatches
<1>4. Private!Due(t, Private!Tag(s, b, c)) BY <1>1, <1>3, TorusSame
<1>5. SeenValues[t][b] = getValue(t, b) BY <1>3, SeenAnswers
<1>6. ccs' = [ccs EXCEPT ![t] = @ \ {}] BY <1>1 DEF KInv, Consistent, RegisterTypes
<1>7. \A k \in ccs[t] : default(k) # <<s, getValue(t, b), c>>
  BY ScopesAssumption DEF default
<1>8. SeenTags' = Private!With(SeenTags, t, {<<s, getValue(t, b), c>>})
  BY <1>1, <1>3, <1>6, <1>7, TagAdds
<1>9. /\ SeenUcs' = SeenUcs /\ SeenCcs' = SeenCcs /\ SeenValues' = SeenValues
      /\ SeenRoots' = SeenRoots /\ SeenRequests' = SeenRequests /\ SeenChildren' = SeenChildren
      /\ SeenSPs' = SeenSPs /\ SeenFamilies' = SeenFamilies /\ SeenStats' = SeenStats /\ SeenAAA' = SeenAAA
  BY <1>1, <1>3, SameShows
<1> QED BY <1>1, <1>3, <1>4, <1>5, <1>8, <1>9 DEF Private!TagStep

LEMMA EdgeSimulated ==
  ASSUME KInv, NEW t \in Trace, Running(t), Watches(t), NEW o \in Output, NEW m \in Maker,
         Program[at[t] + 1] = Request(o, m), NEW c \in Roots, addESREdge(t, c, o)
  PROVE  Private!AddEdge(t, c, o)
<1>1. /\ esrRoots[Base][o] = None /\ esrRoots' = [esrRoots EXCEPT ![t][o] = c]
      /\ children' = [children EXCEPT ![t][c] = @ \cup {o}]
      /\ numRequests' = [numRequests EXCEPT ![t][c] = getNumRequests(t, c) + 1]
  BY DEF addESREdge
<1>2. Steady /\ NodeTypes /\ RequestedOK BY SteadyThere DEF KInv, Consistent
<1>3. c \in Choice /\ c # None /\ Base \in Trace /\ Base \notin Particle
  BY SteadyThere, NoneFacts, TorusFacts DEF Roots
<1>4. getESRParent(t, o) = None
  <2>1. CASE t = Base BY <1>1, <2>1 DEF getESRParent
  <2>2. CASE t # Base
    <3>1. t \in live /\ at[t] \in Nat /\ at[t] + 1 \in DOMAIN Program /\ at[t] + 1 \in InTorus
      BY <1>2, <2>2, RunningFacts
    <3>2. SUFFICES ASSUME esrRoots[t][o] # None
                   PROVE  FALSE
      BY <1>1 DEF getESRParent
    <3>3. PICK j \in Present(t), n \in Maker : Program[j] = Request(o, n)
      BY <1>2, <3>1, <3>2 DEF RequestedOK
    <3>4. j \in Nat /\ j <= at[t] /\ j \in First + 1 .. at[t]
      BY <2>2, <3>1, TorusFacts DEF Present
    <3>5. j \in DOMAIN Program BY <3>1, <3>4, TorusFacts
    <3>6. j = at[t] + 1 BY <3>1, <3>3, <3>5, OrderAssumption
    <3> QED BY <3>1, <3>4, <3>6
  <2> QED BY <2>1, <2>2
<1>5. SeenRoots[t][o] = None BY <1>4, SeenAnswers
<1>6. SeenRoots' = Private!Put(SeenRoots, t, o, c) BY <1>1, <1>3, TablePut
<1>7. SeenRequests[t][c] = getNumRequests(t, c) /\ SeenChildren[t][c] = getChildren(t, c)
  BY <1>3, SeenAnswers
<1>8. getNumRequests(t, c) \in Int BY <1>2, <1>3 DEF NodeTypes, getNumRequests, Maybe
<1>9. getNumRequests(t, c) + 1 # None BY <1>8, NoneFacts
<1>10. SeenRequests' = Private!Put(SeenRequests, t, c, SeenRequests[t][c] + 1)
  BY <1>1, <1>3, <1>7, <1>9, TablePut
<1>11. SeenChildren' = Private!Put(SeenChildren, t, c, SeenChildren[t][c] \cup {o})
  <2>1. children' = [children EXCEPT ![t][c] = children[t][c] \cup {o}] BY <1>1
  <2>2. CASE t = Base
    <3>1. children[t][c] \cup {o} = getChildren(t, c) \cup {o} BY <2>2 DEF getChildren
    <3> QED BY <1>3, <1>7, <2>1, <2>2, <3>1, BaseChildrenPut
  <2>3. CASE t # Base
    <3>1. children[Base][c] \cup (children[t][c] \cup {o}) = getChildren(t, c) \cup {o}
      BY DEF getChildren
    <3> QED BY <1>3, <1>7, <2>1, <2>3, <3>1, ChildrenPut
  <2> QED BY <2>2, <2>3
<1> QED BY <1>5, <1>6, <1>10, <1>11 DEF Private!AddEdge

LEMMA ShareSimulated ==
  ASSUME KInv, NEW t \in Trace, NEW o \in Output, NEW m \in Maker, NEW id \in Id, ShareStep(t, o, m, id)
  PROVE  Private!ShareStep(t, o, m, id)
<1> DEFINE c == getMadeSPFamilyRoot(t, m, id)
<1>1. /\ Due(t, Request(o, m)) /\ getMadeSP(t, m) # None /\ c # None
      /\ IF Restores(t) THEN id = db.requests[o] ELSE id \in Id
      /\ addESREdge(t, c, o)
      /\ Done(t) /\ UNCHANGED gibbsVars /\ UNCHANGED <<ucs, ccs, scopes, tags, values>>
      /\ UNCHANGED <<sps, families, aux, heap, aaa, discarded>>
  BY DEF ShareStep, registerVars, spVars
<1>2. Running(t) /\ Program[at[t] + 1] = Request(o, m) BY <1>1 DEF Due
<1>3. /\ Watches(t) /\ Private!Done(t)
      /\ UNCHANGED <<SeenPhase, round, SeenGroup, SeenLive, SeenDB>>
      /\ \A s : Due(t, s) => Private!Due(t, s)
  BY <1>1, <1>2, RegenWatches
<1>4. Private!Due(t, Private!Request(o, m)) BY <1>1, <1>3, TorusSame
<1>5. c \in Roots
  BY <1>1, SteadyThere DEF KInv, Consistent, MakerTypes, getMadeSPFamilyRoot, Maybe
<1> HIDE DEF c
<1>6. Private!AddEdge(t, c, o) BY <1>1, <1>2, <1>3, <1>5, EdgeSimulated
<1>7. SeenSPs[t][m] = getMadeSP(t, m) /\ SeenFamilies[t][m][id] = c
  <2>1. /\ SeenSPs[t][m] = getMadeSP(t, m)
        /\ SeenFamilies[t][m] = [i \in Id |-> getMadeSPFamilyRoot(t, m, i)]
    BY <1>3, SeenAnswers
  <2> QED BY <2>1 DEF c
<1>8. IF Private!Restores(t) THEN id = SeenDB.requests[o] ELSE id \in Id
  BY <1>1, TorusSame DEF SeenDB
<1>9. /\ SeenUcs' = SeenUcs /\ SeenCcs' = SeenCcs /\ SeenTags' = SeenTags /\ SeenValues' = SeenValues
      /\ SeenSPs' = SeenSPs /\ SeenFamilies' = SeenFamilies /\ SeenStats' = SeenStats /\ SeenAAA' = SeenAAA
  BY <1>1, <1>3, SameShows
<1> QED BY <1>1, <1>3, <1>4, <1>6, <1>7, <1>8, <1>9 DEF Private!ShareStep

LEMMA FamilySimulated ==
  ASSUME KInv, NEW t \in Trace, NEW o \in Output, NEW m \in Maker, NEW id \in Id, NEW v \in Value,
         FamilyStep(t, o, m, id, v)
  PROVE  Private!FamilyStep(t, o, m, id, v)
<1>1. /\ Due(t, Request(o, m)) /\ getMadeSP(t, m) # None /\ getMadeSPFamilyRoot(t, m, id) = None
      /\ IF Restores(t) THEN id = db.requests[o] /\ v = db.values[Root[id]] ELSE id \in Id /\ v \in Value
      /\ Apply(t, Root[id], v) /\ families' = [families EXCEPT ![t][m][id] = Root[id]]
      /\ addESREdge(t, Root[id], o)
      /\ Done(t) /\ UNCHANGED gibbsVars /\ UNCHANGED <<ccs, sps, aaa, discarded>>
  BY DEF FamilyStep
<1>2. PICK c : c = Root[id] OBVIOUS
<1>3. c \in Roots /\ c \in Choice /\ c # None /\ Base \in Trace
  BY <1>2, SteadyThere, TorusFacts, NoneFacts DEF Roots
<1>4. Running(t) /\ Program[at[t] + 1] = Request(o, m) BY <1>1 DEF Due
<1>5. Applies(Program[at[t] + 1], c) BY <1>3, <1>4 DEF Applies
<1>6. /\ Watches(t) /\ Private!Done(t)
      /\ UNCHANGED <<SeenPhase, round, SeenGroup, SeenLive, SeenDB>>
      /\ \A s : Due(t, s) => Private!Due(t, s)
  BY <1>1, <1>4, RegenWatches
<1>7. Private!Due(t, Private!Request(o, m)) BY <1>1, <1>6, TorusSame
<1>8. /\ SeenValues[t][c] = None /\ SeenSPs[t][Op[c]] # None
      /\ SeenValues' = Private!Put(SeenValues, t, c, v)
      /\ SeenStats' = Private!Put(SeenStats, t, Op[c], Private!Incorporate(SeenStats[t][Op[c]], v))
      /\ SeenUcs' = Private!With(SeenUcs, t, {c})
      /\ SeenTags' = Private!With(SeenTags, t, {Private!default(c)})
      /\ SeenCcs' = SeenCcs /\ SeenAAA' = SeenAAA
  <2>1. Apply(t, c, v) /\ UNCHANGED <<ccs, aaa, discarded>> BY <1>1, <1>2
  <2> QED BY <1>3, <1>4, <1>5, <1>6, <2>1, ApplySimulated
<1>9. Private!AddEdge(t, c, o)
  <2>1. addESREdge(t, c, o) BY <1>1, <1>2
  <2> QED BY <1>3, <1>4, <1>6, <2>1, EdgeSimulated
<1>10. SeenSPs[t][m] = getMadeSP(t, m) /\ SeenFamilies[t][m] = [i \in Id |-> getMadeSPFamilyRoot(t, m, i)]
  BY <1>6, SeenAnswers
<1>11. SeenFamilies' = Private!Put(SeenFamilies, t, m, [SeenFamilies[t][m] EXCEPT ![id] = c])
  <2>1. families \in [Trace -> [Maker -> [Id -> Maybe(Roots)]]]
    BY DEF KInv, Consistent, MakerTypes
  <2>2. PICK F : F = families' OBVIOUS
  <2>3. /\ \A u \in Trace, n \in Maker : u # t \/ n # m => F[u][n] = families[u][n]
        /\ F[t][m][id] = c /\ \A i \in Id : i # id => F[t][m][i] = families[t][m][i]
    BY <1>1, <1>2, <2>1, <2>2
  <2>4. ASSUME NEW i \in Id
        PROVE  (IF F[t][m][i] # None THEN F[t][m][i] ELSE F[Base][m][i]) =
                 IF i = id THEN c ELSE getMadeSPFamilyRoot(t, m, i)
    BY <1>3, <2>3 DEF getMadeSPFamilyRoot
  <2>5. [i \in Id |-> IF F[t][m][i] # None THEN F[t][m][i] ELSE F[Base][m][i]] =
          [SeenFamilies[t][m] EXCEPT ![id] = c]
    BY <1>10, <2>4
  <2>6. [SeenFamilies[t][m] EXCEPT ![id] = c] = [i \in Id |-> getMadeSPFamilyRoot(t, m, i)']
    BY <2>2, <2>5 DEF getMadeSPFamilyRoot
  <2>7. \A u \in Trace, n \in Maker : u # t \/ n # m => families'[u][n] = families[u][n]
    BY <2>2, <2>3
  <2> QED BY <1>6, <2>6, <2>7, FamiliesPut
<1>12. /\ IF Private!Restores(t) THEN id = SeenDB.requests[o] /\ v = SeenDB.values[Root[id]]
          ELSE id \in Id /\ v \in Value
       /\ SeenFamilies[t][m][id] = None
  BY <1>1, <1>10, TorusSame DEF SeenDB
<1>13. SeenSPs' = SeenSPs BY <1>1, <1>6, SameShows
<1> QED
  BY <1>1, <1>2, <1>6, <1>7, <1>8, <1>9, <1>10, <1>11, <1>12, <1>13 DEF Private!FamilyStep

LEMMA ObserveSimulated ==
  ASSUME KInv, NEW t \in Trace, NEW n \in Choice \cup Output, NEW c \in Choice, NEW v \in Value,
         ObserveStep(t, n, c, v)
  PROVE  Private!ObserveStep(t, n, c, v)
<1>1. /\ Due(t, Observe(n, v)) /\ c = Constrainable(t, n) /\ c # None /\ getValue(t, c) # None
      /\ Update(t, Op[c], Constrained(t, c, v))
      /\ values' = [values EXCEPT ![t][c] = v] /\ registerConstrainedChoice(t, c)
      /\ Done(t) /\ UNCHANGED gibbsVars
      /\ UNCHANGED <<esrRoots, numRequests, children, sps, families, aaa, discarded>>
  BY DEF ObserveStep
<1>2. Running(t) /\ Program[at[t] + 1] = Observe(n, v) BY <1>1 DEF Due
<1>3. /\ Watches(t) /\ Private!Done(t)
      /\ UNCHANGED <<SeenPhase, round, SeenGroup, SeenLive, SeenDB>>
      /\ \A s : Due(t, s) => Private!Due(t, s)
  BY <1>1, <1>2, RegenWatches
<1>4. Private!Due(t, Private!Observe(n, v)) BY <1>1, <1>3, TorusSame
<1>5. Applies(Program[at[t] + 1], c) BY <1>1, <1>2, ObservedChoice
<1>6. Steady /\ Statics /\ DBTypes /\ MadeOK BY SteadyThere DEF KInv, Consistent
<1>7. Op[c] \in Maker /\ getMadeSP(t, Op[c]) # None /\ Sole(t, Op[c])
  BY <1>2, <1>5, <1>6, AppliedIsMade
<1>8. (t = Base => phase # "propose") /\ (t # Base => phase = "propose")
  BY <1>2, <1>6, RunningFacts
<1>9. Constrained(t, c, v) \in Statistics
  BY <1>7, StatisticsThere, CountsTyped DEF Constrained
<1>10. UpdatedTo(t, Op[c], Constrained(t, c, v))
  BY <1>1, <1>6, <1>7, <1>8, <1>9, UpdateShows
<1>11. SeenStats' = Private!Put(SeenStats, t, Op[c], Constrained(t, c, v)) /\ SeenAAA' = SeenAAA
  BY <1>3, <1>10, UpdatedSeen
<1>12. SeenStats[t][Op[c]] = StatisticsOf(t, Op[c]) /\ SeenValues[t][c] = getValue(t, c)
  BY <1>3, <1>7, SeenAnswers
<1>13. Constrained(t, c, v) =
         Private!Incorporate(Private!Unincorporate(SeenStats[t][Op[c]], SeenValues[t][c]), v)
  BY <1>12, TorusSame DEF Constrained
<1>14. SeenValues' = Private!Put(SeenValues, t, c, v) BY <1>1, <1>3, NoneFacts, TablePut
<1>15. /\ SeenCcs' = Private!With(SeenCcs, t, {c}) /\ SeenUcs' = Private!Without(SeenUcs, t, {c})
       /\ SeenTags' = Private!Without(SeenTags, t, {Private!default(c)})
  BY <1>1, <1>3, ConstrainedSeen, TorusSame
<1>16. c = Private!Constrainable(t, n)
  BY <1>1, <1>3, SeenAnswers DEF Constrainable, Private!Constrainable
<1>17. /\ SeenRoots' = SeenRoots /\ SeenRequests' = SeenRequests /\ SeenChildren' = SeenChildren
       /\ SeenSPs' = SeenSPs /\ SeenFamilies' = SeenFamilies
  BY <1>1, <1>3, SameShows
<1> QED
  BY <1>1, <1>3, <1>4, <1>11, <1>12, <1>13, <1>14, <1>15, <1>16, <1>17 DEF Private!ObserveStep

(* The steps of the detachment.                                            *)
LEMMA DetachWatches ==
  ASSUME KInv, NEW s, Latest(s), NEW d, Undo(d)
  PROVE  /\ Watches(Base) /\ Private!Latest(s) /\ Private!Undo
         /\ UNCHANGED <<round, SeenGroup, SeenLive>> /\ db' = d
         /\ Seen(Base) = Base
<1>1. /\ phase = "detach" /\ at[Base] > First /\ Program[at[Base]] = s
      /\ at' = [at EXCEPT ![Base] = @ - 1] /\ db' = d
      /\ UNCHANGED <<phase, round, group, live, committing, toTag, toConstrain>>
      /\ live = {} /\ at[Base] \in Nat /\ at[Base] \in InTorus
      /\ Steady /\ ~Running(Base)
  BY UndoEffect
<1>2. Base \in Trace /\ at \in [Trace -> Nat] BY <1>1, SteadyThere DEF Steady, MoveTypes
<1>3. Watches(Base) BY <1>1, <1>2, SteadyWatches
<1>4. \A u \in Trace : Seen(u) = Base /\ Seen(u)' = Base BY <1>1 DEF Seen
<1>5. SeenPhase = "detach" /\ UNCHANGED <<SeenPhase, SeenGroup, SeenLive>>
  BY <1>1 DEF SeenPhase, SeenGroup, SeenLive, committed
<1>6. SeenAt[Base] = at[Base] /\ SeenAt' = [u \in Trace |-> at[Base] - 1]
  BY <1>1, <1>2, <1>4 DEF SeenAt, committed
<1>7. Private!Latest(s) BY <1>1, <1>5, <1>6, TorusSame DEF Private!Latest
<1>8. Private!Undo BY <1>5, <1>6, TorusSame DEF Private!Undo
<1> QED BY <1>1, <1>2, <1>3, <1>4, <1>5, <1>7, <1>8

ShownDB(v, r, s, x) == [values |-> v, requests |-> r, sps |-> s, stats |-> x]

LEMMA DBShows ==
  /\ SeenDB = ShownDB(db.values, db.requests, db.sps, saved)
  /\ \A v, r, s, x : db' = Detached(v, r, s, x) => SeenDB' = ShownDB(v, r, s, saved')
<1>1. SeenDB = ShownDB(db.values, db.requests, db.sps, saved) BY DEF SeenDB, ShownDB
<1>2. ASSUME NEW v, NEW r, NEW s, NEW x, db' = Detached(v, r, s, x)
      PROVE  SeenDB' = ShownDB(v, r, s, saved')
  <2>1. db'.values = v /\ db'.requests = r /\ db'.sps = s BY <1>2, DetachedParts
  <2> QED BY <2>1 DEF SeenDB, ShownDB
<1> QED BY <1>1, <1>2

LEMMA UnmakeSimulated ==
  ASSUME KInv, NEW m \in Maker, UnmakeStep(m)
  PROVE  Private!UnmakeStep(m)
<1>1. PICK d : d = [db EXCEPT !.sps[m] = sps[Base][m], !.aux[m] = aux[Base][m]] OBVIOUS
<1>2. /\ Latest(Make(m)) /\ Undo(d)
      /\ UNCHANGED <<ucs, ccs, scopes, tags, values, esrRoots, numRequests, children>>
  BY <1>1 DEF UnmakeStep, registerVars, nodeVars
<1>3. /\ Watches(Base) /\ Private!Latest(Make(m)) /\ Private!Undo
      /\ UNCHANGED <<round, SeenGroup, SeenLive>> /\ db' = d
      /\ Seen(Base) = Base
  BY <1>2, DetachWatches
<1>4. Steady /\ Statics /\ DBTypes /\ MakerTypes /\ Base \in Trace
  BY SteadyThere DEF KInv, Consistent
<1>5. /\ phase = "detach" /\ live = {} /\ UNCHANGED <<phase, round, live, group, heap, discarded>>
      /\ \E j \in InTorus : Program[j] = Make(m)
      /\ \A t \in Particle, n \in Maker : aux[t][n] = None /\ sps[t][n] = None
      /\ db' = Detached(db.values, db.requests, [db.sps EXCEPT ![m] = sps[Base][m]],
                        [db.aux EXCEPT ![m] = aux[Base][m]])
      /\ db'.aux = [db.aux EXCEPT ![m] = aux[Base][m]]
      /\ saved' = [saved EXCEPT ![m] = StatisticsOf(Base, m)]
      /\ aaa' = IF m \in AAA THEN [aaa EXCEPT ![m] = aux[Base][m]] ELSE aaa
      /\ sps' = [sps EXCEPT ![Base][m] = None] /\ aux' = [aux EXCEPT ![Base][m] = None]
      /\ families' = [families EXCEPT ![Base][m] = [i \in Id |-> None]]
  BY <1>4, UnmakeEffect
<1>6. SeenSPs[Base][m] = sps[Base][m] /\ SeenStats[Base][m] = StatisticsOf(Base, m)
  BY <1>3, <1>4, SeenAnswers DEF getMadeSP
<1>7. SeenDB' = [SeenDB EXCEPT !.sps[m] = SeenSPs[Base][m], !.stats[m] = SeenStats[Base][m]]
  <2>1. SeenDB' = ShownDB(db.values, db.requests, [db.sps EXCEPT ![m] = sps[Base][m]],
                          [saved EXCEPT ![m] = StatisticsOf(Base, m)])
    BY <1>5, DBShows
  <2>2. PICK y, z : y = SeenSPs[Base][m] /\ z = SeenStats[Base][m] OBVIOUS
  <2>3. [SeenDB EXCEPT !.sps[m] = y, !.stats[m] = z] =
          ShownDB(db.values, db.requests, [db.sps EXCEPT ![m] = y], [saved EXCEPT ![m] = z])
    <3>1. PICK v, r, s, x : v = db.values /\ r = db.requests /\ s = db.sps /\ x = saved /\ SeenDB = ShownDB(v, r, s, x)
      BY DBShows
    <3>2. [SeenDB EXCEPT !.sps[m] = y, !.stats[m] = z] = ShownDB(v, r, [s EXCEPT ![m] = y], [x EXCEPT ![m] = z])
      <4>1. PICK e : e = [SeenDB EXCEPT !.sps[m] = y] OBVIOUS
      <4>2. [SeenDB EXCEPT !.sps[m] = y, !.stats[m] = z] = [e EXCEPT !.stats[m] = z]
        BY <4>1
      <4>3. e = ShownDB(v, r, [s EXCEPT ![m] = y], x) BY <3>1, <4>1 DEF ShownDB
      <4> QED BY <4>2, <4>3 DEF ShownDB
    <3> QED BY <3>1, <3>2
  <2> QED BY <1>6, <2>1, <2>2, <2>3
<1>8. /\ (AllStatisticsOf(Base))' = [AllStatisticsOf(Base) EXCEPT ![m] = None]
      /\ (AAAOf(Base))' = IF m \in AAA THEN [AAAOf(Base) EXCEPT ![m] = StatisticsOf(Base, m)] ELSE AAAOf(Base)
  BY <1>4, UnmakeShows
<1>9. PICK f, g, x, y : /\ f = [w \in Trace |-> AllStatisticsOf(Base)]
                        /\ g = [w \in Trace |-> [AllStatisticsOf(Base) EXCEPT ![m] = None]]
                        /\ x = [w \in Trace |-> AAAOf(Base)]
                        /\ y = [w \in Trace |-> IF m \in AAA THEN [AAAOf(Base) EXCEPT ![m] = StatisticsOf(Base, m)]
                                                ELSE AAAOf(Base)]
  OBVIOUS
<1>10. Showing(Base, f, x) BY <1>9 DEF Showing, Shows
<1>11. ShowingNext(Base, g, y) BY <1>8, <1>9 DEF ShowingNext, Shows
<1>12. ShownBy(f, SeenStats) /\ ShownBy(g, SeenStats') /\ ShownBy(x, SeenAAA) /\ ShownBy(y, SeenAAA')
  BY <1>3, <1>10, <1>11, StatisticsSeen
<1>13. SeenStats' = Private!Put(SeenStats, Base, m, None)
  <2>1. Sets(Base, f, g, m, None) BY <1>9 DEF Sets, Shows
  <2> QED BY <1>3, <1>4, <1>12, <2>1, PutShows
<1>14. SeenAAA' = IF m \in AAA THEN Private!Put(SeenAAA, Base, m, SeenStats[Base][m]) ELSE SeenAAA
  <2>1. CASE m \in AAA
    <3>1. Sets(Base, x, y, m, SeenStats[Base][m]) BY <1>6, <1>9, <2>1 DEF Sets, Shows
    <3> QED BY <1>3, <1>4, <1>12, <2>1, <3>1, PutShows
  <2>2. CASE m \notin AAA BY <1>9, <1>12, <2>2 DEF ShownBy
  <2> QED BY <2>1, <2>2
<1>15. SeenSPs' = Private!Put(SeenSPs, Base, m, None)
  <2>1. sps' = [sps EXCEPT ![Base][m] = None] /\ Base \in Trace BY <1>4, <1>5
  <2> QED BY <1>3, <2>1, TablePut
<1>16. SeenFamilies' = Private!Put(SeenFamilies, Base, m, [i \in Id |-> None])
  <2>1. /\ families'[Base][m] = [i \in Id |-> None]
        /\ \A u \in Trace, n \in Maker : u # Base \/ n # m => families'[u][n] = families[u][n]
    BY <1>4, <1>5 DEF MakerTypes
  <2>2. [i \in Id |-> None] = [i \in Id |-> getMadeSPFamilyRoot(Base, m, i)']
    BY <2>1 DEF getMadeSPFamilyRoot
  <2> QED BY <1>3, <1>4, <2>1, <2>2, FamiliesPut
<1>17. /\ SeenUcs' = SeenUcs /\ SeenCcs' = SeenCcs /\ SeenTags' = SeenTags /\ SeenValues' = SeenValues
       /\ SeenRoots' = SeenRoots /\ SeenRequests' = SeenRequests /\ SeenChildren' = SeenChildren
  BY <1>2, <1>3, SameShows
<1> QED
  BY <1>3, <1>7, <1>13, <1>14, <1>15, <1>16, <1>17, TorusSame DEF Private!UnmakeStep

LEMMA UnapplySimulated ==
  ASSUME KInv, phase = "detach", at[Base] > First, Watches(Base), NEW c \in Choice,
         Applies(Program[at[Base]], c),
         Unapply(c), UNCHANGED <<aaa, discarded>>
  PROVE  Private!Unapply(c) /\ SeenAAA' = SeenAAA
<1>1. /\ values' = [values EXCEPT ![Base][c] = None] /\ ucs' = [ucs EXCEPT ![Base] = @ \ {c}]
      /\ c \in ucs[Base] /\ UnregisterInScope(Default, c, c) /\ tags' = tags
      /\ Op[c] \in Maker /\ getMadeSP(Base, Op[c]) # None
      /\ Update(Base, Op[c], Unincorporate(StatisticsOf(Base, Op[c]), values[Base][c]))
      /\ Unincorporate(StatisticsOf(Base, Op[c]), values[Base][c]) \in Statistics
      /\ \A u \in Trace : u # Base => values'[u] = values[u] /\ ucs'[u] = ucs[u] /\ aux'[u] = aux[u]
      /\ ucs' \in [Trace -> SUBSET Choice]
  BY UnapplyEffect
<1>2. Steady /\ Statics /\ DBTypes /\ Base \in Trace BY SteadyThere DEF KInv, Consistent
<1>3. Sole(Base, Op[c]) BY DEF Sole
<1>4. UpdatedTo(Base, Op[c], Unincorporate(StatisticsOf(Base, Op[c]), values[Base][c]))
  BY <1>1, <1>2, <1>3, UpdateShows
<1>5. /\ SeenStats' = Private!Put(SeenStats, Base, Op[c], Unincorporate(StatisticsOf(Base, Op[c]), values[Base][c]))
      /\ SeenAAA' = SeenAAA
  BY <1>2, <1>4, UpdatedSeen
<1>6. SeenStats[Base][Op[c]] = StatisticsOf(Base, Op[c]) /\ SeenValues[Base][c] = values[Base][c]
  <2>1. Op[c] \in Maker BY <1>1
  <2> QED BY <1>2, <2>1, SeenAnswers DEF getValue
<1>7. SeenValues' = Private!Put(SeenValues, Base, c, None)
  <2>1. values' = [values EXCEPT ![Base][c] = None] BY <1>1
  <2> QED BY <1>2, <2>1, TablePut
<1>8. /\ SeenUcs' = Private!Without(SeenUcs, Base, {c})
      /\ SeenTags' = Private!Without(SeenTags, Base, {default(c)})
  BY <1>1, ChoiceTakes
<1> QED BY <1>5, <1>6, <1>7, <1>8, TorusSame DEF Private!Unapply

LEMMA UndrawSimulated ==
  ASSUME KInv, NEW c \in Choice, UndrawStep(c)
  PROVE  Private!UndrawStep(c)
<1>1. /\ Latest(Draw(c)) /\ Undo(db') /\ Unapply(c)
      /\ db' = Detached([db.values EXCEPT ![c] = values[Base][c]], db.requests, db.sps, db.aux)
      /\ db'.aux = db.aux
      /\ UNCHANGED <<saved, ccs, esrRoots, numRequests, children, sps, families, aaa, discarded>>
  BY UndrawEffect
<1>2. PICK d : d = db' OBVIOUS
<1>3. Undo(d) BY <1>1, <1>2
<1>4. /\ Watches(Base) /\ Private!Latest(Draw(c)) /\ Private!Undo
      /\ UNCHANGED <<round, SeenGroup, SeenLive>> /\ db' = d
      /\ Seen(Base) = Base
  BY <1>1, <1>3, DetachWatches
<1>5. phase = "detach" /\ at[Base] > First /\ Applies(Program[at[Base]], c)
  BY <1>1 DEF Latest, Applies
<1>6. Private!Unapply(c) /\ SeenAAA' = SeenAAA BY <1>1, <1>4, <1>5, UnapplySimulated
<1>7. SeenDB' = [SeenDB EXCEPT !.values[c] = SeenValues[Base][c]]
  <2>1. SeenValues[Base][c] = values[Base][c]
    BY <1>4, SteadyThere, SeenAnswers DEF getValue
  <2>2. PICK v, r, s, x : v = db.values /\ r = db.requests /\ s = db.sps /\ x = saved /\ SeenDB = ShownDB(v, r, s, x)
    BY DBShows
  <2>3. SeenDB' = ShownDB([v EXCEPT ![c] = values[Base][c]], r, s, x)
    BY <1>1, <2>2, DBShows
  <2>4. [SeenDB EXCEPT !.values[c] = values[Base][c]] = ShownDB([v EXCEPT ![c] = values[Base][c]], r, s, x)
    BY <2>2 DEF ShownDB
  <2> QED BY <2>1, <2>3, <2>4
<1>8. /\ SeenCcs' = SeenCcs /\ SeenRoots' = SeenRoots /\ SeenRequests' = SeenRequests
      /\ SeenChildren' = SeenChildren /\ SeenSPs' = SeenSPs /\ SeenFamilies' = SeenFamilies
  BY <1>1, <1>4, SameShows
<1> QED BY <1>4, <1>6, <1>7, <1>8, TorusSame DEF Private!UndrawStep

LEMMA DBKept == db' = db /\ saved' = saved => SeenDB' = SeenDB
BY DEF SeenDB

LEMMA UntagSimulated ==
  ASSUME KInv, NEW s \in Scope, NEW b \in Choice, NEW c \in Choice, UntagStep(s, b, c)
  PROVE  Private!UntagStep(s, b, c)
<1>1. /\ Latest(Tag(s, b, c)) /\ UnregisterInScope(s, values[Base][b], c) /\ Undo(db)
      /\ UNCHANGED <<saved, ucs, ccs, values, esrRoots, numRequests, children>>
      /\ UNCHANGED <<sps, families, aux, heap, aaa, discarded>>
  BY DEF UntagStep, nodeVars, spVars
<1>2. /\ Watches(Base) /\ Private!Latest(Tag(s, b, c)) /\ Private!Undo
      /\ UNCHANGED <<round, SeenGroup, SeenLive>> /\ db' = db
      /\ Seen(Base) = Base
  BY <1>1, DetachWatches
<1>3. SeenTags' = Private!Without(SeenTags, Base, {<<s, values[Base][b], c>>})
  BY <1>1, <1>2, TagTakes
<1>4. SeenValues[Base][b] = values[Base][b]
  BY <1>2, SteadyThere, SeenAnswers DEF getValue
<1>5. /\ SeenUcs' = SeenUcs /\ SeenCcs' = SeenCcs /\ SeenValues' = SeenValues
      /\ SeenRoots' = SeenRoots /\ SeenRequests' = SeenRequests /\ SeenChildren' = SeenChildren
      /\ SeenSPs' = SeenSPs /\ SeenFamilies' = SeenFamilies /\ SeenStats' = SeenStats /\ SeenAAA' = SeenAAA
  BY <1>1, <1>2, SameShows
<1>6. SeenDB' = SeenDB BY <1>1, <1>2, DBKept
<1> QED BY <1>2, <1>3, <1>4, <1>5, <1>6, TorusSame DEF Private!UntagStep

LEMMA UnobserveSimulated ==
  ASSUME KInv, NEW n \in Choice \cup Output, NEW v \in Value, UnobserveStep(n, v)
  PROVE  Private!UnobserveStep(n, v)
<1>1. PICK c : c = Constrainable(Base, n) OBVIOUS
<1>2. /\ Latest(Observe(n, v)) /\ c \in ccs[Base] /\ ccs' = [ccs EXCEPT ![Base] = @ \ {c}]
      /\ registerUnconstrainedChoice(Base, c) /\ Undo(db)
      /\ UNCHANGED <<saved, values, esrRoots, numRequests, children>>
      /\ UNCHANGED <<sps, families, aux, heap, aaa, discarded>>
  BY <1>1 DEF UnobserveStep, nodeVars, spVars
<1>3. /\ Watches(Base) /\ Private!Latest(Observe(n, v)) /\ Private!Undo
      /\ UNCHANGED <<round, SeenGroup, SeenLive>> /\ db' = db
      /\ Seen(Base) = Base
  BY <1>2, DetachWatches
<1>4. c \in Choice BY <1>2, SteadyThere DEF KInv, Consistent, RegisterTypes
<1>5. /\ SeenCcs' = Private!Without(SeenCcs, Base, {c}) /\ SeenUcs' = Private!With(SeenUcs, Base, {c})
      /\ SeenTags' = Private!With(SeenTags, Base, {default(c)})
  BY <1>2, <1>3, <1>4, UnconstrainedSeen
<1>6. Private!Constrainable(Base, n) = c
  BY <1>1, <1>3, SteadyThere, SeenAnswers DEF Constrainable, Private!Constrainable
<1>7. /\ SeenValues' = SeenValues
      /\ SeenRoots' = SeenRoots /\ SeenRequests' = SeenRequests /\ SeenChildren' = SeenChildren
      /\ SeenSPs' = SeenSPs /\ SeenFamilies' = SeenFamilies /\ SeenStats' = SeenStats /\ SeenAAA' = SeenAAA
  BY <1>2, <1>3, SameShows
<1>8. SeenDB' = SeenDB BY <1>2, <1>3, DBKept
<1> QED BY <1>3, <1>5, <1>6, <1>7, <1>8, TorusSame DEF Private!UnobserveStep

LEMMA UnabsorbSimulated ==
  ASSUME KInv, NEW c \in Choice, UnabsorbStep(c)
  PROVE  Private!UnabsorbStep(c)
<1>1. /\ Latest(Absorb(c))
      /\ Update(Base, Op[c], Unincorporate(StatisticsOf(Base, Op[c]), values[Base][c])) /\ Undo(db)
      /\ UNCHANGED <<saved, ucs, ccs, scopes, tags, values, esrRoots, numRequests, children>>
      /\ UNCHANGED <<sps, families, aaa, discarded>>
  BY DEF UnabsorbStep, nodeVars, registerVars
<1>2. /\ Watches(Base) /\ Private!Latest(Absorb(c)) /\ Private!Undo
      /\ UNCHANGED <<round, SeenGroup, SeenLive>> /\ db' = db
      /\ Seen(Base) = Base
  BY <1>1, DetachWatches
<1>3. Steady /\ Statics /\ DBTypes /\ MadeOK /\ Base \in Trace
  BY SteadyThere DEF KInv, Consistent
<1>4. phase = "detach" /\ at[Base] > First /\ Applies(Program[at[Base]], c)
  BY <1>1 DEF Latest, Applies
<1>5. Op[c] \in Maker /\ sps[Base][Op[c]] # None BY <1>3, <1>4, UndoneIsMade
<1>6. getMadeSP(Base, Op[c]) # None /\ Sole(Base, Op[c]) BY <1>5 DEF getMadeSP, Sole
<1>7. Unincorporate(StatisticsOf(Base, Op[c]), values[Base][c]) \in Statistics
  BY <1>3, <1>5, <1>6, StatisticsThere, CountsTyped
<1>8. UpdatedTo(Base, Op[c], Unincorporate(StatisticsOf(Base, Op[c]), values[Base][c]))
  BY <1>1, <1>3, <1>4, <1>5, <1>6, <1>7, UpdateShows
<1>9. /\ SeenStats' = Private!Put(SeenStats, Base, Op[c], Unincorporate(StatisticsOf(Base, Op[c]), values[Base][c]))
      /\ SeenAAA' = SeenAAA
  BY <1>2, <1>3, <1>8, UpdatedSeen
<1>10. SeenStats[Base][Op[c]] = StatisticsOf(Base, Op[c]) /\ SeenValues[Base][c] = values[Base][c]
  BY <1>2, <1>3, <1>5, SeenAnswers DEF getValue
<1>11. /\ SeenUcs' = SeenUcs /\ SeenCcs' = SeenCcs /\ SeenTags' = SeenTags /\ SeenValues' = SeenValues
       /\ SeenRoots' = SeenRoots /\ SeenRequests' = SeenRequests /\ SeenChildren' = SeenChildren
       /\ SeenSPs' = SeenSPs /\ SeenFamilies' = SeenFamilies
  BY <1>1, <1>2, SameShows
<1>12. SeenDB' = SeenDB BY <1>1, <1>2, DBKept
<1> QED BY <1>2, <1>9, <1>10, <1>11, <1>12, TorusSame DEF Private!UnabsorbStep

(* The family goes with the last request for it.                           *)
LEMMA SharedSimulated ==
  ASSUME KInv, NEW o \in Output, NEW c, NEW id, SharedRequest(o, c, id), saved' = saved, c \in Choice,
         Watches(Base)
  PROVE  /\ SeenRequests[Base][c] > 1
         /\ SeenDB' = [SeenDB EXCEPT !.requests[o] = id]
         /\ UNCHANGED <<SeenFamilies, SeenValues, SeenStats, SeenUcs, SeenTags, SeenCcs, SeenSPs, SeenAAA>>
<1>1. /\ numRequests[Base][c] > 1
      /\ db' = Detached(db.values, [db.requests EXCEPT ![o] = id], db.sps, db.aux)
      /\ UNCHANGED <<ucs, ccs, scopes, tags, values, sps, families, aux, heap, aaa, discarded>>
  BY DEF SharedRequest, registerVars, spVars
<1>2. SeenRequests[Base][c] = numRequests[Base][c]
  BY SteadyThere, SeenAnswers DEF getNumRequests
<1>3. SeenDB' = [SeenDB EXCEPT !.requests[o] = id]
  <2>1. PICK v, r, s, x : v = db.values /\ r = db.requests /\ s = db.sps /\ x = saved /\ SeenDB = ShownDB(v, r, s, x)
    BY DBShows
  <2>2. SeenDB' = ShownDB(v, [r EXCEPT ![o] = id], s, x) BY <1>1, <2>1, DBShows
  <2> QED BY <2>1, <2>2 DEF ShownDB
<1>4. /\ SeenUcs' = SeenUcs /\ SeenCcs' = SeenCcs /\ SeenTags' = SeenTags /\ SeenValues' = SeenValues
      /\ SeenSPs' = SeenSPs /\ SeenFamilies' = SeenFamilies /\ SeenStats' = SeenStats /\ SeenAAA' = SeenAAA
  BY <1>1, SameShows
<1> QED BY <1>1, <1>2, <1>3, <1>4

LEMMA LastSimulated ==
  ASSUME KInv, NEW o \in Output, NEW m \in Maker, NEW c \in Roots, NEW id \in Id,
         LastRequest(o, m, c, id), saved' = saved, Watches(Base),
         phase = "detach", at[Base] > First, Program[at[Base]] = Request(o, m)
  PROVE  /\ SeenRequests[Base][c] = 1
         /\ SeenDB' = [SeenDB EXCEPT !.requests[o] = id, !.values[c] = SeenValues[Base][c]]
         /\ SeenFamilies' = Private!Put(SeenFamilies, Base, m, [SeenFamilies[Base][m] EXCEPT ![id] = None])
         /\ Private!Unapply(c) /\ UNCHANGED <<SeenCcs, SeenSPs, SeenAAA>>
<1>1. /\ numRequests[Base][c] = 1
      /\ db' = Detached([db.values EXCEPT ![c] = values[Base][c]], [db.requests EXCEPT ![o] = id], db.sps, db.aux)
      /\ families' = [families EXCEPT ![Base][m][id] = None]
      /\ Unapply(c) /\ UNCHANGED <<ccs, sps, aaa, discarded>>
  BY DEF LastRequest
<1>2. c \in Choice /\ Applies(Program[at[Base]], c) /\ Base \in Trace
  BY SteadyThere, TorusFacts DEF Roots, Applies
<1>3. Private!Unapply(c) /\ SeenAAA' = SeenAAA BY <1>1, <1>2, UnapplySimulated
<1>4. SeenRequests[Base][c] = numRequests[Base][c] /\ SeenValues[Base][c] = values[Base][c]
  BY <1>2, SeenAnswers DEF getNumRequests, getValue
<1>5. SeenDB' = [SeenDB EXCEPT !.requests[o] = id, !.values[c] = SeenValues[Base][c]]
  <2>1. PICK v, r, s, x : v = db.values /\ r = db.requests /\ s = db.sps /\ x = saved /\ SeenDB = ShownDB(v, r, s, x)
    BY DBShows
  <2>2. PICK y : y = values[Base][c] OBVIOUS
  <2>3. SeenDB' = ShownDB([v EXCEPT ![c] = y], [r EXCEPT ![o] = id], s, x)
    BY <1>1, <2>1, <2>2, DBShows
  <2>4. PICK e : e = [SeenDB EXCEPT !.requests[o] = id] OBVIOUS
  <2>5. e = ShownDB(v, [r EXCEPT ![o] = id], s, x) BY <2>1, <2>4 DEF ShownDB
  <2>6. [SeenDB EXCEPT !.requests[o] = id, !.values[c] = y] = [e EXCEPT !.values[c] = y]
    BY <2>4
  <2>7. [e EXCEPT !.values[c] = y] = ShownDB([v EXCEPT ![c] = y], [r EXCEPT ![o] = id], s, x)
    BY <2>5 DEF ShownDB
  <2> QED BY <1>4, <2>2, <2>3, <2>6, <2>7
<1>6. SeenFamilies' = Private!Put(SeenFamilies, Base, m, [SeenFamilies[Base][m] EXCEPT ![id] = None])
  <2>1. families \in [Trace -> [Maker -> [Id -> Maybe(Roots)]]]
    BY DEF KInv, Consistent, MakerTypes
  <2>2. PICK F : F = families' OBVIOUS
  <2>3. /\ \A u \in Trace, n \in Maker : u # Base \/ n # m => F[u][n] = families[u][n]
        /\ F[Base][m][id] = None /\ \A i \in Id : i # id => F[Base][m][i] = families[Base][m][i]
    BY <1>1, <1>2, <2>1, <2>2
  <2>4. SeenFamilies[Base][m] = [i \in Id |-> getMadeSPFamilyRoot(Base, m, i)]
    BY <1>2, SeenAnswers
  <2>5. ASSUME NEW i \in Id
        PROVE  (IF F[Base][m][i] # None THEN F[Base][m][i] ELSE F[Base][m][i]) =
                 IF i = id THEN None ELSE getMadeSPFamilyRoot(Base, m, i)
    BY <2>3 DEF getMadeSPFamilyRoot
  <2>6. [i \in Id |-> IF F[Base][m][i] # None THEN F[Base][m][i] ELSE F[Base][m][i]] =
          [SeenFamilies[Base][m] EXCEPT ![id] = None]
    BY <2>4, <2>5
  <2>7. [SeenFamilies[Base][m] EXCEPT ![id] = None] = [i \in Id |-> getMadeSPFamilyRoot(Base, m, i)']
    BY <2>2, <2>6 DEF getMadeSPFamilyRoot
  <2>8. \A u \in Trace, n \in Maker : u # Base \/ n # m => families'[u][n] = families[u][n]
    BY <2>2, <2>3
  <2> QED BY <1>2, <2>7, <2>8, FamiliesPut
<1>7. SeenCcs' = SeenCcs /\ SeenSPs' = SeenSPs BY <1>1, SameShows
<1> QED BY <1>1, <1>3, <1>4, <1>5, <1>6, <1>7

LEMMA UnrequestSimulated ==
  ASSUME KInv, NEW o \in Output, NEW m \in Maker, UnrequestStep(o, m)
  PROVE  Private!UnrequestStep(o, m)
<1>1. PICK c, id :
        /\ c = esrRoots[Base][o] /\ c \in Roots /\ c \in Choice /\ id \in Id /\ Root[id] = c
        /\ id = (CHOOSE i \in Id : Root[i] = c)
        /\ Latest(Request(o, m)) /\ Undo(db') /\ o \in children[Base][c]
        /\ esrRoots' = [esrRoots EXCEPT ![Base][o] = None]
        /\ children' = [children EXCEPT ![Base][c] = @ \ {o}]
        /\ numRequests' = [numRequests EXCEPT ![Base][c] = @ - 1]
        /\ saved' = saved /\ db'.aux = db.aux
        /\ SharedRequest(o, c, id) \/ LastRequest(o, m, c, id)
  BY UnrequestEffect
<1>2. PICK d : d = db' OBVIOUS
<1>3. Undo(d) BY <1>1, <1>2
<1>4. /\ Watches(Base) /\ Private!Latest(Request(o, m)) /\ Private!Undo
      /\ UNCHANGED <<round, SeenGroup, SeenLive>> /\ db' = d
      /\ Seen(Base) = Base
  BY <1>1, <1>3, DetachWatches
<1>5. Base \in Trace /\ phase = "detach" /\ at[Base] > First /\ Program[at[Base]] = Request(o, m)
  BY <1>1, SteadyThere DEF Latest
<1>6. /\ SeenRoots[Base][o] = c /\ SeenChildren[Base][c] = children[Base][c]
      /\ SeenRequests[Base][c] = numRequests[Base][c]
  <2>1. c \in Choice /\ Watches(Base) /\ esrRoots[Base][o] = c BY <1>1, <1>4
  <2>2. /\ SeenRoots[Base][o] = getESRParent(Base, o) /\ SeenChildren[Base][c] = getChildren(Base, c)
        /\ SeenRequests[Base][c] = getNumRequests(Base, c)
    BY <1>5, <2>1, SeenAnswers
  <2> QED BY <2>1, <2>2 DEF getESRParent, getChildren, getNumRequests
<1>7. SeenRoots' = Private!Put(SeenRoots, Base, o, None) BY <1>1, <1>4, <1>5, TablePut
<1>8. SeenRequests' = Private!Put(SeenRequests, Base, c, SeenRequests[Base][c] - 1)
  <2>1. numRequests' = [numRequests EXCEPT ![Base][c] = numRequests[Base][c] - 1]
    BY <1>1
  <2>2. PICK v : v = numRequests[Base][c] - 1 OBVIOUS
  <2>3. numRequests' = [numRequests EXCEPT ![Base][c] = v] BY <2>1, <2>2
  <2>4. c \in Choice BY <1>1
  <2>5. SeenRequests' = Private!Put(SeenRequests, Base, c, v)
    BY <1>4, <1>5, <2>3, <2>4, TablePut
  <2> QED BY <1>6, <2>2, <2>5
<1>9. SeenChildren' = Private!Put(SeenChildren, Base, c, SeenChildren[Base][c] \ {o})
  <2>1. children' = [children EXCEPT ![Base][c] = children[Base][c] \ {o}] BY <1>1
  <2> QED BY <1>1, <1>4, <1>6, <2>1, BaseChildrenPut
<1>10. CASE SharedRequest(o, c, id)
  <2>1. /\ SeenRequests[Base][c] > 1
        /\ SeenDB' = [SeenDB EXCEPT !.requests[o] = id]
        /\ UNCHANGED <<SeenFamilies, SeenValues, SeenStats, SeenUcs, SeenTags, SeenCcs, SeenSPs, SeenAAA>>
    BY <1>1, <1>4, <1>10, SharedSimulated
  <2> QED
    BY <1>1, <1>4, <1>6, <1>7, <1>8, <1>9, <2>1, TorusSame DEF Private!UnrequestStep
<1>11. CASE LastRequest(o, m, c, id)
  <2>1. /\ SeenRequests[Base][c] = 1
        /\ SeenDB' = [SeenDB EXCEPT !.requests[o] = id, !.values[c] = SeenValues[Base][c]]
        /\ SeenFamilies' = Private!Put(SeenFamilies, Base, m, [SeenFamilies[Base][m] EXCEPT ![id] = None])
        /\ Private!Unapply(c) /\ UNCHANGED <<SeenCcs, SeenSPs, SeenAAA>>
    <3>1. c \in Roots /\ id \in Id /\ saved' = saved /\ Watches(Base) BY <1>1, <1>4
    <3> QED BY <1>5, <1>11, <3>1, LastSimulated
  <2> QED
    BY <1>1, <1>4, <1>6, <1>7, <1>8, <1>9, <2>1, TorusSame DEF Private!UnrequestStep
<1> QED BY <1>1, <1>10, <1>11

LEMMA FollowsFrom ==
  ASSUME NEW u \in Trace, NEW x \in Trace, NEW w, NEW v, Seen(u)' = w, Seen(x) = v, Becomes(w, v)
  PROVE  Follows(u, x)
<1>1. /\ SeenUcs'[u] = (UcsOf(w))' /\ SeenCcs'[u] = (CcsOf(w))'
      /\ SeenTags'[u] = (TagsOf(w))' /\ SeenValues'[u] = (Overlaid(values, w))'
      /\ SeenRoots'[u] = (Overlaid(esrRoots, w))' /\ SeenRequests'[u] = (Overlaid(numRequests, w))'
      /\ SeenChildren'[u] = (ChildrenOf(w))' /\ SeenSPs'[u] = (Overlaid(sps, w))'
      /\ SeenFamilies'[u] = (FamiliesOf(w))' /\ SeenStats'[u] = (AllStatisticsOf(w))'
      /\ SeenAAA'[u] = (AAAOf(w))'
  BY SeenAsNext
<1>2. /\ SeenUcs[x] = UcsOf(v) /\ SeenCcs[x] = CcsOf(v)
      /\ SeenTags[x] = TagsOf(v) /\ SeenValues[x] = Overlaid(values, v)
      /\ SeenRoots[x] = Overlaid(esrRoots, v) /\ SeenRequests[x] = Overlaid(numRequests, v)
      /\ SeenChildren[x] = ChildrenOf(v) /\ SeenSPs[x] = Overlaid(sps, v)
      /\ SeenFamilies[x] = FamiliesOf(v) /\ SeenStats[x] = AllStatisticsOf(v)
      /\ SeenAAA[x] = AAAOf(v)
  BY SeenAs
<1> QED BY <1>1, <1>2 DEF Becomes, Follows

LEMMA Followed ==
  ASSUME NEW from \in [Trace -> Trace], \A u \in Trace : Follows(u, from[u])
  PROVE  /\ SeenUcs' = [u \in Trace |-> SeenUcs[from[u]]] /\ SeenCcs' = [u \in Trace |-> SeenCcs[from[u]]]
         /\ SeenTags' = [u \in Trace |-> SeenTags[from[u]]]
         /\ SeenValues' = [u \in Trace |-> SeenValues[from[u]]]
         /\ SeenRoots' = [u \in Trace |-> SeenRoots[from[u]]]
         /\ SeenRequests' = [u \in Trace |-> SeenRequests[from[u]]]
         /\ SeenChildren' = [u \in Trace |-> SeenChildren[from[u]]]
         /\ SeenSPs' = [u \in Trace |-> SeenSPs[from[u]]]
         /\ SeenFamilies' = [u \in Trace |-> SeenFamilies[from[u]]]
         /\ SeenStats' = [u \in Trace |-> SeenStats[from[u]]]
         /\ SeenAAA' = [u \in Trace |-> SeenAAA[from[u]]]
<1>1. /\ SeenUcs' = [u \in Trace |-> SeenUcs'[u]] /\ SeenCcs' = [u \in Trace |-> SeenCcs'[u]]
      /\ SeenTags' = [u \in Trace |-> SeenTags'[u]] /\ SeenValues' = [u \in Trace |-> SeenValues'[u]]
      /\ SeenRoots' = [u \in Trace |-> SeenRoots'[u]] /\ SeenRequests' = [u \in Trace |-> SeenRequests'[u]]
      /\ SeenChildren' = [u \in Trace |-> SeenChildren'[u]] /\ SeenSPs' = [u \in Trace |-> SeenSPs'[u]]
      /\ SeenFamilies' = [u \in Trace |-> SeenFamilies'[u]] /\ SeenStats' = [u \in Trace |-> SeenStats'[u]]
      /\ SeenAAA' = [u \in Trace |-> SeenAAA'[u]]
  BY DEF SeenUcs, SeenCcs, SeenTags, SeenValues, SeenRoots, SeenRequests, SeenChildren, SeenSPs, SeenFamilies,
         SeenStats, SeenAAA
<1> QED BY <1>1 DEF Follows

LEMMA SeenTables ==
  /\ SeenUcs = [u \in Trace |-> SeenUcs[u]] /\ SeenCcs = [u \in Trace |-> SeenCcs[u]]
  /\ SeenTags = [u \in Trace |-> SeenTags[u]] /\ SeenValues = [u \in Trace |-> SeenValues[u]]
  /\ SeenRoots = [u \in Trace |-> SeenRoots[u]] /\ SeenRequests = [u \in Trace |-> SeenRequests[u]]
  /\ SeenChildren = [u \in Trace |-> SeenChildren[u]] /\ SeenSPs = [u \in Trace |-> SeenSPs[u]]
  /\ SeenFamilies = [u \in Trace |-> SeenFamilies[u]] /\ SeenStats = [u \in Trace |-> SeenStats[u]]
  /\ SeenAAA = [u \in Trace |-> SeenAAA[u]]
BY DEF SeenUcs, SeenCcs, SeenTags, SeenValues, SeenRoots, SeenRequests, SeenChildren, SeenSPs, SeenFamilies,
       SeenStats, SeenAAA

LEMMA SameFollowed ==
  ASSUME NEW from, from = [u \in Trace |-> u], \A u \in Trace : Follows(u, from[u])
  PROVE  UNCHANGED <<SeenUcs, SeenCcs, SeenTags, SeenValues, SeenRoots, SeenRequests, SeenChildren,
                   SeenSPs, SeenFamilies, SeenStats, SeenAAA>>
<1>1. /\ SeenUcs' = [u \in Trace |-> SeenUcs[from[u]]] /\ SeenCcs' = [u \in Trace |-> SeenCcs[from[u]]]
      /\ SeenTags' = [u \in Trace |-> SeenTags[from[u]]]
      /\ SeenValues' = [u \in Trace |-> SeenValues[from[u]]]
      /\ SeenRoots' = [u \in Trace |-> SeenRoots[from[u]]]
      /\ SeenRequests' = [u \in Trace |-> SeenRequests[from[u]]]
      /\ SeenChildren' = [u \in Trace |-> SeenChildren[from[u]]]
      /\ SeenSPs' = [u \in Trace |-> SeenSPs[from[u]]]
      /\ SeenFamilies' = [u \in Trace |-> SeenFamilies[from[u]]]
      /\ SeenStats' = [u \in Trace |-> SeenStats[from[u]]]
      /\ SeenAAA' = [u \in Trace |-> SeenAAA[from[u]]]
  BY Followed
<1>2. /\ [u \in Trace |-> SeenUcs[from[u]]] = [u \in Trace |-> SeenUcs[u]]
      /\ [u \in Trace |-> SeenCcs[from[u]]] = [u \in Trace |-> SeenCcs[u]]
      /\ [u \in Trace |-> SeenTags[from[u]]] = [u \in Trace |-> SeenTags[u]]
      /\ [u \in Trace |-> SeenValues[from[u]]] = [u \in Trace |-> SeenValues[u]]
      /\ [u \in Trace |-> SeenRoots[from[u]]] = [u \in Trace |-> SeenRoots[u]]
      /\ [u \in Trace |-> SeenRequests[from[u]]] = [u \in Trace |-> SeenRequests[u]]
      /\ [u \in Trace |-> SeenChildren[from[u]]] = [u \in Trace |-> SeenChildren[u]]
      /\ [u \in Trace |-> SeenSPs[from[u]]] = [u \in Trace |-> SeenSPs[u]]
      /\ [u \in Trace |-> SeenFamilies[from[u]]] = [u \in Trace |-> SeenFamilies[u]]
      /\ [u \in Trace |-> SeenStats[from[u]]] = [u \in Trace |-> SeenStats[u]]
      /\ [u \in Trace |-> SeenAAA[from[u]]] = [u \in Trace |-> SeenAAA[u]]
  OBVIOUS
<1> QED BY <1>1, <1>2, SeenTables

Table(X)       == X = [u \in Trace |-> X[u]]
Along(Y, X, f) == Y = [u \in Trace |-> X[f[u]]]

FromCopied(f, p, q) == f = [u \in Trace |-> IF u = q THEN p ELSE u]

LEMMA CopiedAs ==
  ASSUME NEW p \in Trace, NEW q \in Trace, NEW X, NEW Y, NEW from, Table(X), Along(Y, X, from),
         FromCopied(from, p, q)
  PROVE  Y = Private!Copied(X, p, q)
BY TorusSame DEF Private!Copied, Table, Along, FromCopied

LEMMA CopiedFollowed ==
  ASSUME NEW p \in Trace, NEW q \in Trace, NEW from, FromCopied(from, p, q),
         \A u \in Trace : Follows(u, from[u])
  PROVE  /\ SeenUcs' = Private!Copied(SeenUcs, p, q) /\ SeenCcs' = Private!Copied(SeenCcs, p, q)
         /\ SeenTags' = Private!Copied(SeenTags, p, q) /\ SeenValues' = Private!Copied(SeenValues, p, q)
         /\ SeenRoots' = Private!Copied(SeenRoots, p, q) /\ SeenRequests' = Private!Copied(SeenRequests, p, q)
         /\ SeenChildren' = Private!Copied(SeenChildren, p, q) /\ SeenSPs' = Private!Copied(SeenSPs, p, q)
         /\ SeenFamilies' = Private!Copied(SeenFamilies, p, q) /\ SeenStats' = Private!Copied(SeenStats, p, q)
         /\ SeenAAA' = Private!Copied(SeenAAA, p, q)
<1>1. from \in [Trace -> Trace] BY BaseIsNoParticle DEF FromCopied
<1>2. /\ SeenUcs' = [u \in Trace |-> SeenUcs[from[u]]] /\ SeenCcs' = [u \in Trace |-> SeenCcs[from[u]]]
      /\ SeenTags' = [u \in Trace |-> SeenTags[from[u]]]
      /\ SeenValues' = [u \in Trace |-> SeenValues[from[u]]]
      /\ SeenRoots' = [u \in Trace |-> SeenRoots[from[u]]]
      /\ SeenRequests' = [u \in Trace |-> SeenRequests[from[u]]]
      /\ SeenChildren' = [u \in Trace |-> SeenChildren[from[u]]]
      /\ SeenSPs' = [u \in Trace |-> SeenSPs[from[u]]]
      /\ SeenFamilies' = [u \in Trace |-> SeenFamilies[from[u]]]
      /\ SeenStats' = [u \in Trace |-> SeenStats[from[u]]]
      /\ SeenAAA' = [u \in Trace |-> SeenAAA[from[u]]]
  BY <1>1, Followed
<1>3. /\ Along(SeenUcs', SeenUcs, from) /\ Along(SeenCcs', SeenCcs, from) /\ Along(SeenTags', SeenTags, from)
      /\ Along(SeenValues', SeenValues, from) /\ Along(SeenRoots', SeenRoots, from)
      /\ Along(SeenRequests', SeenRequests, from)
      /\ Along(SeenChildren', SeenChildren, from) /\ Along(SeenSPs', SeenSPs, from)
      /\ Along(SeenFamilies', SeenFamilies, from)
      /\ Along(SeenStats', SeenStats, from) /\ Along(SeenAAA', SeenAAA, from)
  BY <1>2 DEF Along
<1>4. /\ Table(SeenUcs) /\ Table(SeenCcs) /\ Table(SeenTags) /\ Table(SeenValues)
      /\ Table(SeenRoots) /\ Table(SeenRequests) /\ Table(SeenChildren) /\ Table(SeenSPs)
      /\ Table(SeenFamilies) /\ Table(SeenStats) /\ Table(SeenAAA)
  BY SeenTables DEF Table
<1> QED BY <1>3, <1>4, CopiedAs

FromDropped(f, gone) == f = [u \in Trace |-> IF u \in gone THEN Base ELSE u]

LEMMA DroppedAs ==
  ASSUME NEW gone, NEW X, NEW Y, NEW from, Table(X), Along(Y, X, from), FromDropped(from, gone)
  PROVE  Y = Private!Dropped(X, gone)
BY TorusSame, BaseIsNoParticle DEF Private!Dropped, Table, Along, FromDropped

LEMMA DroppedFollowed ==
  ASSUME NEW gone, NEW from, FromDropped(from, gone), \A u \in Trace : Follows(u, from[u])
  PROVE  /\ SeenUcs' = Private!Dropped(SeenUcs, gone) /\ SeenCcs' = Private!Dropped(SeenCcs, gone)
         /\ SeenTags' = Private!Dropped(SeenTags, gone) /\ SeenValues' = Private!Dropped(SeenValues, gone)
         /\ SeenRoots' = Private!Dropped(SeenRoots, gone)
         /\ SeenRequests' = Private!Dropped(SeenRequests, gone)
         /\ SeenChildren' = Private!Dropped(SeenChildren, gone) /\ SeenSPs' = Private!Dropped(SeenSPs, gone)
         /\ SeenFamilies' = Private!Dropped(SeenFamilies, gone)
         /\ SeenStats' = Private!Dropped(SeenStats, gone)
         /\ SeenAAA' = Private!Dropped(SeenAAA, gone)
<1>1. from \in [Trace -> Trace] BY BaseIsNoParticle DEF FromDropped
<1>2. /\ SeenUcs' = [u \in Trace |-> SeenUcs[from[u]]] /\ SeenCcs' = [u \in Trace |-> SeenCcs[from[u]]]
      /\ SeenTags' = [u \in Trace |-> SeenTags[from[u]]]
      /\ SeenValues' = [u \in Trace |-> SeenValues[from[u]]]
      /\ SeenRoots' = [u \in Trace |-> SeenRoots[from[u]]]
      /\ SeenRequests' = [u \in Trace |-> SeenRequests[from[u]]]
      /\ SeenChildren' = [u \in Trace |-> SeenChildren[from[u]]]
      /\ SeenSPs' = [u \in Trace |-> SeenSPs[from[u]]]
      /\ SeenFamilies' = [u \in Trace |-> SeenFamilies[from[u]]]
      /\ SeenStats' = [u \in Trace |-> SeenStats[from[u]]]
      /\ SeenAAA' = [u \in Trace |-> SeenAAA[from[u]]]
  BY <1>1, Followed
<1>3. /\ Along(SeenUcs', SeenUcs, from) /\ Along(SeenCcs', SeenCcs, from) /\ Along(SeenTags', SeenTags, from)
      /\ Along(SeenValues', SeenValues, from) /\ Along(SeenRoots', SeenRoots, from)
      /\ Along(SeenRequests', SeenRequests, from)
      /\ Along(SeenChildren', SeenChildren, from) /\ Along(SeenSPs', SeenSPs, from)
      /\ Along(SeenFamilies', SeenFamilies, from)
      /\ Along(SeenStats', SeenStats, from) /\ Along(SeenAAA', SeenAAA, from)
  BY <1>2 DEF Along
<1>4. /\ Table(SeenUcs) /\ Table(SeenCcs) /\ Table(SeenTags) /\ Table(SeenValues)
      /\ Table(SeenRoots) /\ Table(SeenRequests) /\ Table(SeenChildren) /\ Table(SeenSPs)
      /\ Table(SeenFamilies) /\ Table(SeenStats) /\ Table(SeenAAA)
  BY SeenTables DEF Table
<1> QED BY <1>3, <1>4, DroppedAs

FromBecame(f, p) == f = [u \in Trace |-> p]

LEMMA BecameAs ==
  ASSUME NEW p \in Trace, NEW X, NEW Y, NEW from, Table(X), Along(Y, X, from), FromBecame(from, p)
  PROVE  Y = Private!Became(X, p)
BY TorusSame DEF Private!Became, Table, Along, FromBecame

LEMMA BecameFollowed ==
  ASSUME NEW p \in Trace, NEW from, FromBecame(from, p), \A u \in Trace : Follows(u, from[u])
  PROVE  /\ SeenUcs' = Private!Became(SeenUcs, p) /\ SeenCcs' = Private!Became(SeenCcs, p)
         /\ SeenTags' = Private!Became(SeenTags, p) /\ SeenValues' = Private!Became(SeenValues, p)
         /\ SeenRoots' = Private!Became(SeenRoots, p) /\ SeenRequests' = Private!Became(SeenRequests, p)
         /\ SeenChildren' = Private!Became(SeenChildren, p) /\ SeenSPs' = Private!Became(SeenSPs, p)
         /\ SeenFamilies' = Private!Became(SeenFamilies, p) /\ SeenStats' = Private!Became(SeenStats, p)
         /\ SeenAAA' = Private!Became(SeenAAA, p)
<1>1. from \in [Trace -> Trace] BY BaseIsNoParticle DEF FromBecame
<1>2. /\ SeenUcs' = [u \in Trace |-> SeenUcs[from[u]]] /\ SeenCcs' = [u \in Trace |-> SeenCcs[from[u]]]
      /\ SeenTags' = [u \in Trace |-> SeenTags[from[u]]]
      /\ SeenValues' = [u \in Trace |-> SeenValues[from[u]]]
      /\ SeenRoots' = [u \in Trace |-> SeenRoots[from[u]]]
      /\ SeenRequests' = [u \in Trace |-> SeenRequests[from[u]]]
      /\ SeenChildren' = [u \in Trace |-> SeenChildren[from[u]]]
      /\ SeenSPs' = [u \in Trace |-> SeenSPs[from[u]]]
      /\ SeenFamilies' = [u \in Trace |-> SeenFamilies[from[u]]]
      /\ SeenStats' = [u \in Trace |-> SeenStats[from[u]]]
      /\ SeenAAA' = [u \in Trace |-> SeenAAA[from[u]]]
  BY <1>1, Followed
<1>3. /\ Along(SeenUcs', SeenUcs, from) /\ Along(SeenCcs', SeenCcs, from) /\ Along(SeenTags', SeenTags, from)
      /\ Along(SeenValues', SeenValues, from) /\ Along(SeenRoots', SeenRoots, from)
      /\ Along(SeenRequests', SeenRequests, from)
      /\ Along(SeenChildren', SeenChildren, from) /\ Along(SeenSPs', SeenSPs, from)
      /\ Along(SeenFamilies', SeenFamilies, from)
      /\ Along(SeenStats', SeenStats, from) /\ Along(SeenAAA', SeenAAA, from)
  BY <1>2 DEF Along
<1>4. /\ Table(SeenUcs) /\ Table(SeenCcs) /\ Table(SeenTags) /\ Table(SeenValues)
      /\ Table(SeenRoots) /\ Table(SeenRequests) /\ Table(SeenChildren) /\ Table(SeenSPs)
      /\ Table(SeenFamilies) /\ Table(SeenStats) /\ Table(SeenAAA)
  BY SeenTables DEF Table
<1> QED BY <1>3, <1>4, BecameAs

LEMMA CarriedBecomes ==
  ASSUME NEW w \in Trace, NEW v \in Trace, w = Base <=> v = Base, Carried(w, v),
         (AllStatisticsOf(w))' = AllStatisticsOf(v), (AAAOf(w))' = AAAOf(v)
  PROVE  Becomes(w, v)
<1>1. (UcsOf(w))' = UcsOf(v) /\ (CcsOf(w))' = CcsOf(v) BY DEF Carried, UcsOf, CcsOf
<1>2. (TagsOf(w))' = TagsOf(v)
  <2>1. BaseTags' = BaseTags BY DEF Carried, BaseTags
  <2> QED BY <2>1 DEF Carried, TagsOf
<1>3. (Overlaid(values, w))' = Overlaid(values, v) /\ (Overlaid(esrRoots, w))' = Overlaid(esrRoots, v)
  BY DEF Carried, Overlaid
<1>4. (Overlaid(numRequests, w))' = Overlaid(numRequests, v) /\ (Overlaid(sps, w))' = Overlaid(sps, v)
  BY DEF Carried, Overlaid
<1>5. (ChildrenOf(w))' = ChildrenOf(v) BY DEF Carried, ChildrenOf, getChildren
<1>6. (FamiliesOf(w))' = FamiliesOf(v) BY DEF Carried, FamiliesOf, getMadeSPFamilyRoot
<1> QED BY <1>1, <1>2, <1>3, <1>4, <1>5, <1>6 DEF Becomes

LEMMA UnmovedBecomes ==
  ASSUME NEW w \in Trace, UNCHANGED <<ucs, ccs, scopes, tags, values, esrRoots, numRequests, children>>,
         UNCHANGED <<sps, families, aux, heap, aaa, discarded>>
  PROVE  Becomes(w, w)
<1>1. Carried(w, w) BY DEF Carried
<1>2. (AllStatisticsOf(w))' = AllStatisticsOf(w)
  BY DEF AllStatisticsOf, StatisticsOf, StatisticsAt, getMadeSPAux
<1>3. (AAAOf(w))' = AAAOf(w) BY DEF AAAOf, StatisticsAt, getAAAMadeSPAux
<1> QED BY <1>1, <1>2, <1>3, CarriedBecomes

LEMMA RecordlessAlike ==
  ASSUME KInv, NEW p \in Particle, Recordless(p)
  PROVE  Alike(p, Base)
<1>0. Base \in Trace /\ Base \notin Particle /\ Particle \subseteq Trace /\ p # Base
  BY SteadyThere
<1>1. /\ values \in [Trace -> [Choice -> Value \cup {None}]]
      /\ esrRoots \in [Trace -> [Output -> Maybe(Roots)]]
      /\ numRequests \in [Trace -> [Choice -> Maybe(Int)]] /\ sps \in [Trace -> [Maker -> Maybe(Proc)]]
      /\ children \in [Trace -> [Choice -> SUBSET Output]] /\ RegisterTypes
  BY DEF KInv, JInv, ValuesOK, Consistent, NodeTypes, MakerTypes, Statics, MakersOK
<1>2. UcsOf(p) = UcsOf(Base) /\ CcsOf(p) = CcsOf(Base)
  BY <1>0, <1>1 DEF UcsOf, CcsOf, RegisterTypes, Recordless
<1>3. TagsOf(p) = TagsOf(Base) BY <1>0 DEF TagsOf, Recordless
<1>4. Overlaid(values, p) = Overlaid(values, Base)
  BY <1>0, <1>1 DEF Overlaid, Recordless
<1>5. Overlaid(esrRoots, p) = Overlaid(esrRoots, Base)
  BY <1>0, <1>1 DEF Overlaid, Recordless
<1>6. Overlaid(numRequests, p) = Overlaid(numRequests, Base)
  BY <1>0, <1>1 DEF Overlaid, Recordless
<1>7. Overlaid(sps, p) = Overlaid(sps, Base) BY <1>0, <1>1 DEF Overlaid, Recordless
<1>8. ChildrenOf(p) = ChildrenOf(Base)
  BY <1>0, <1>1 DEF ChildrenOf, getChildren, Recordless
<1>9. FamiliesOf(p) = FamiliesOf(Base)
  BY <1>0 DEF FamiliesOf, getMadeSPFamilyRoot, Recordless
<1>10. AllStatisticsOf(p) = AllStatisticsOf(Base)
  BY <1>0 DEF AllStatisticsOf, StatisticsOf, getMadeSPAux, Recordless
<1>11. AAAOf(p) = AAAOf(Base) BY <1>0 DEF AAAOf, getAAAMadeSPAux, Recordless
<1> QED BY <1>2, <1>3, <1>4, <1>5, <1>6, <1>7, <1>8, <1>9, <1>10, <1>11 DEF Alike

LEMMA AlikeBecomes ==
  ASSUME NEW w, NEW v, NEW x, Becomes(w, v), Alike(v, x)
  PROVE  Becomes(w, x)
BY DEF Becomes, Alike

(* The phases of the move.                                                 *)
LEMMA BeginDetachSimulated ==
  ASSUME KInv, BeginDetach
  PROVE  Private!BeginDetach
<1>1. /\ phase = "regen" /\ at[Base] = Len(Program) /\ round < MaxRounds
      /\ phase' = "detach" /\ round' = round + 1
      /\ at' = [at EXCEPT ![Base] = TorusEnd] /\ saved' = [m \in Maker |-> None]
      /\ UNCHANGED <<group, live, db, committing, toTag, toConstrain>>
      /\ UNCHANGED <<ucs, ccs, scopes, tags, values, esrRoots, numRequests, children>>
      /\ UNCHANGED <<sps, families, aux, heap, aaa, discarded>>
  BY DEF BeginDetach, registerVars, nodeVars, spVars
<1>2. live = {} /\ db = NoDB /\ DOMAIN at = Trace /\ Base \in Trace
  BY <1>1, SteadyThere DEF KInv, Consistent, Stages, MoveTypes
<1>3. \A u \in Trace : Seen(u) = Base /\ Seen(u)' = Base BY <1>1, <1>2 DEF Seen
<1>4. UNCHANGED <<SeenUcs, SeenCcs, SeenTags, SeenValues, SeenRoots, SeenRequests, SeenChildren,
                  SeenSPs, SeenFamilies, SeenStats, SeenAAA>>
  BY <1>1, <1>3, StillShows
<1>5. /\ SeenPhase = "regen" /\ SeenPhase' = "detach" /\ UNCHANGED <<SeenGroup, SeenLive>>
      /\ SeenAt[Base] = Len(Program) /\ SeenAt' = [t \in Trace |-> TorusEnd]
  BY <1>1, <1>2, <1>3 DEF SeenPhase, SeenGroup, SeenLive, SeenAt, committed
<1>6. SeenDB' = Private!NoDB BY <1>1, <1>2 DEF SeenDB, NoDB, Private!NoDB
<1> QED BY <1>1, <1>4, <1>5, <1>6, TorusSame DEF Private!BeginDetach, Private!traceVars

LEMMA BeginProposeSimulated ==
  ASSUME KInv, BeginPropose
  PROVE  Private!BeginPropose
<1>1. /\ phase = "detach" /\ at[Base] = First /\ phase' = "propose" /\ group' = 1
      /\ UNCHANGED <<round, live, db, committing, toTag, toConstrain, saved, at>>
      /\ UNCHANGED <<ucs, ccs, scopes, tags, values, esrRoots, numRequests, children>>
      /\ UNCHANGED <<sps, families, aux, heap, aaa, discarded>>
  BY DEF BeginPropose, registerVars, nodeVars, spVars
<1>2. live = {} /\ Base \in Trace BY <1>1, SteadyThere DEF KInv, Consistent, Stages
<1>3. \A u \in Trace : Seen(u) = Base /\ Seen(u)' = Base BY <1>1, <1>2 DEF Seen
<1>4. UNCHANGED <<SeenUcs, SeenCcs, SeenTags, SeenValues, SeenRoots, SeenRequests, SeenChildren,
                  SeenSPs, SeenFamilies, SeenStats, SeenAAA>>
  BY <1>1, <1>3, StillShows
<1>5. /\ SeenPhase = "detach" /\ SeenPhase' = "propose" /\ SeenGroup' = 1 /\ UNCHANGED <<SeenLive, SeenDB>>
      /\ SeenAt[Base] = First /\ SeenAt' = SeenAt
  BY <1>1, <1>2, <1>3 DEF SeenPhase, SeenGroup, SeenLive, SeenAt, SeenDB, committed
<1> QED BY <1>1, <1>4, <1>5, TorusSame DEF Private!BeginPropose, Private!traceVars

(* While particles are proposed, those that are live stand for themselves. *)
LEMMA ProposeSees ==
  ASSUME KInv, phase = "propose"
  PROVE  /\ \A u \in Trace : Seen(u) = (IF u \in live THEN u ELSE Base) /\ Seen(u) \in Trace
         /\ SeenPhase = "propose" /\ SeenGroup = group /\ SeenLive = live
         /\ \A u \in Trace : SeenAt[u] = at[Seen(u)]
         /\ live \subseteq Particle /\ Base \notin live /\ Base \in Trace /\ Particle \subseteq Trace
         /\ \A q : Private!Ended(q) <=> Ended(q)
<1>1. live \subseteq Particle /\ Base \notin live /\ Base \in Trace /\ Particle \subseteq Trace
  BY SteadyThere DEF Steady
<1>2. \A u \in Trace : Seen(u) = (IF u \in live THEN u ELSE Base) /\ Seen(u) \in Trace
  BY <1>1 DEF Seen
<1>3. SeenPhase = "propose" /\ SeenGroup = group /\ SeenLive = live
      /\ \A u \in Trace : SeenAt[u] = at[Seen(u)]
  BY DEF SeenPhase, SeenGroup, SeenLive, SeenAt, committed
<1>4. \A q : q \in live => SeenAt[q] = at[q] BY <1>1, <1>2, <1>3
<1>5. \A q : Private!Ended(q) <=> Ended(q) BY <1>3, <1>4 DEF Private!Ended, Ended
<1> QED BY <1>1, <1>2, <1>3, <1>5

LEMMA ProposedNext ==
  ASSUME phase' = "propose"
  PROVE  /\ \A u \in Trace : Seen(u)' = (IF u \in live' THEN u ELSE Base)
         /\ SeenPhase' = "propose" /\ SeenGroup' = group' /\ SeenLive' = live'
         /\ SeenAt' = [u \in Trace |-> at'[IF u \in live' THEN u ELSE Base]]
<1>1. \A u \in Trace : Seen(u)' = (IF u \in live' THEN u ELSE Base) BY DEF Seen
<1> QED BY <1>1 DEF SeenPhase, SeenGroup, SeenLive, SeenAt, committed

LEMMA SpawnSimulated ==
  ASSUME KInv, NEW p \in Particle, Spawn(p)
  PROVE  Private!Spawn(p)
<1>1. /\ phase = "propose" /\ group = 1 /\ p \in Generation(1) /\ p \notin live
      /\ Restores(p) => \A q \in Generation(1) \ {p} : Ended(q)
      /\ live' = live \cup {p} /\ at' = [at EXCEPT ![p] = First]
      /\ UNCHANGED <<phase, round, group, db, committing, toTag, toConstrain, saved>>
      /\ UNCHANGED <<ucs, ccs, scopes, tags, values, esrRoots, numRequests, children>>
      /\ UNCHANGED <<sps, families, aux, heap, aaa, discarded>>
  BY DEF Spawn, registerVars, nodeVars, spVars
<1>2. /\ \A u \in Trace : Seen(u) = (IF u \in live THEN u ELSE Base) /\ Seen(u) \in Trace
      /\ SeenPhase = "propose" /\ SeenGroup = group /\ SeenLive = live
      /\ \A u \in Trace : SeenAt[u] = at[Seen(u)]
      /\ live \subseteq Particle /\ Base \notin live /\ Base \in Trace /\ Particle \subseteq Trace
      /\ \A q : Private!Ended(q) <=> Ended(q)
  BY <1>1, ProposeSees
<1>3. /\ \A u \in Trace : Seen(u)' = (IF u \in live' THEN u ELSE Base)
      /\ SeenPhase' = "propose" /\ SeenGroup' = group' /\ SeenLive' = live'
      /\ SeenAt' = [u \in Trace |-> at'[IF u \in live' THEN u ELSE Base]]
  BY <1>1, ProposedNext
<1>4. Recordless(p) /\ at[Base] = First /\ DOMAIN at = Trace
  BY <1>1 DEF KInv, Consistent, Stages, MoveTypes
<1>5. SeenAt' = SeenAt
  <2>1. \A u \in Trace : at'[IF u \in live' THEN u ELSE Base] = SeenAt[u]
    BY <1>1, <1>2, <1>4
  <2>2. SeenAt = [u \in Trace |-> SeenAt[u]] BY DEF SeenAt
  <2> QED BY <1>3, <2>1, <2>2
<1>6. \A w \in Trace : Becomes(w, w) BY <1>1, UnmovedBecomes
<1>7. PICK from : from = [u \in Trace |-> u] OBVIOUS
<1>8. ASSUME NEW u \in Trace
      PROVE  Follows(u, from[u])
  <2>1. CASE u = p
    <3>1. Seen(p)' = p /\ Seen(p) = Base BY <1>1, <1>2, <1>3
    <3>2. Becomes(p, Base)
      <4>1. Alike(p, Base) BY <1>4, RecordlessAlike
      <4> QED BY <1>2, <1>6, <4>1, AlikeBecomes
    <3>3. Follows(p, p) BY <1>2, <3>1, <3>2, FollowsFrom
    <3> QED BY <1>7, <2>1, <3>3
  <2>2. CASE u # p
    <3>1. PICK w : w = Seen(u) OBVIOUS
    <3>2. Seen(u)' = w /\ w \in Trace BY <1>1, <1>2, <1>3, <2>2, <3>1
    <3>3. Follows(u, u) BY <1>6, <3>1, <3>2, FollowsFrom
    <3> QED BY <1>7, <3>3
  <2> QED BY <2>1, <2>2
<1>9. UNCHANGED <<SeenUcs, SeenCcs, SeenTags, SeenValues, SeenRoots, SeenRequests, SeenChildren,
                  SeenSPs, SeenFamilies, SeenStats, SeenAAA>>
  BY <1>7, <1>8, SameFollowed
<1>10. UNCHANGED <<SeenPhase, round, SeenGroup, SeenDB>> /\ SeenLive' = SeenLive \cup {p}
  BY <1>1, <1>2, <1>3 DEF SeenDB
<1> QED BY <1>1, <1>2, <1>5, <1>9, <1>10, TorusSame DEF Private!Spawn, Private!traceVars

LEMMA ClonedTables ==
  ASSUME KInv, NEW p \in Particle, NEW q \in Particle, Clone(p, q)
  PROVE  /\ p # q /\ p # Base /\ q # Base
         /\ Carried(q, p) /\ at'[q] = at[p]
         /\ \A w \in Trace : w # q => Carried(w, w) /\ at'[w] = at[w]
<1>0. Steady /\ Base \in Trace /\ Base \notin Particle /\ Particle \subseteq Trace
  BY SteadyThere
<1>1. RegisterTypes /\ NodeTypes /\ MakerTypes /\ MoveTypes /\ Statics
  BY DEF KInv, Consistent
<1>2. /\ at' = Copied(at, p, q) /\ scopes' = scopes
      /\ ucs' = Copied(ucs, p, q) /\ ccs' = Copied(ccs, p, q) /\ tags' = Copied(tags, p, q)
      /\ values' = Copied(values, p, q) /\ esrRoots' = Copied(esrRoots, p, q)
      /\ numRequests' = Copied(numRequests, p, q) /\ children' = Copied(children, p, q)
      /\ sps' = Copied(sps, p, q) /\ families' = Copied(families, p, q)
  BY DEF Clone
<1>3. p # q
  <2>1. CloneDoes(p, q) BY <1>0, <1>1, CloneEffect
  <2> USE DEF CloneDoes
  <2> QED BY <2>1
<1>4. p \in Trace /\ q \in Trace /\ p # Base /\ q # Base BY <1>0
<1>5. /\ /\ ucs'[q] = ucs[p] /\ ccs'[q] = ccs[p] /\ values'[q] = values[p] /\ esrRoots'[q] = esrRoots[p]
         /\ numRequests'[q] = numRequests[p] /\ children'[q] = children[p] /\ sps'[q] = sps[p]
         /\ families'[q] = families[p] /\ at'[q] = at[p]
      /\ \A u \in Trace : u # q =>
           /\ ucs'[u] = ucs[u] /\ ccs'[u] = ccs[u] /\ values'[u] = values[u] /\ esrRoots'[u] = esrRoots[u]
           /\ numRequests'[u] = numRequests[u] /\ children'[u] = children[u] /\ sps'[u] = sps[u]
           /\ families'[u] = families[u] /\ at'[u] = at[u]
  <2>1. /\ DOMAIN ucs = Trace /\ DOMAIN ccs = Trace /\ DOMAIN values = Trace /\ DOMAIN esrRoots = Trace
        /\ DOMAIN numRequests = Trace /\ DOMAIN children = Trace /\ DOMAIN sps = Trace
        /\ DOMAIN families = Trace /\ DOMAIN at = Trace
    BY <1>1 DEF KInv, JInv, ValuesOK, RegisterTypes, NodeTypes, MakerTypes, MoveTypes
  <2> QED BY <1>2, <1>4, <2>1, CopiedAnswers
<1>6. tags'[q] = tags[p] /\ \A u \in Particle : u # q => tags'[u] = tags[u]
  <2>1. DOMAIN tags = Particle BY DEF KInv, JInv, IInv, Records
  <2> QED BY <1>2, <2>1 DEF Copied
<1>7. Carried(q, p) BY <1>0, <1>2, <1>4, <1>5, <1>6 DEF Carried
<1>8. ASSUME NEW w \in Trace, w # q
      PROVE  Carried(w, w) /\ at'[w] = at[w]
  <2>1. w # Base => w \in Particle BY DEF Trace
  <2> QED BY <1>0, <1>2, <1>4, <1>5, <1>6, <1>8, <2>1 DEF Carried
<1> QED BY <1>3, <1>4, <1>5, <1>7, <1>8

LEMMA CloneSimulated ==
  ASSUME KInv, NEW p \in Particle, NEW q \in Particle, Clone(p, q)
  PROVE  Private!Clone(p, q)
<1>1. /\ phase = "propose" /\ group > 1 /\ group <= Len(Ends) /\ p \in Generation(group - 1)
      /\ q \in Generation(group) /\ q \notin live /\ (Restores(q) => Restores(p))
      /\ live' = live \cup {q}
      /\ UNCHANGED <<phase, round, group, db, committing, toTag, toConstrain, saved>>
  BY DEF Clone, Parent
<1>2. /\ \A u \in Trace : Seen(u) = (IF u \in live THEN u ELSE Base) /\ Seen(u) \in Trace
      /\ SeenPhase = "propose" /\ SeenGroup = group /\ SeenLive = live
      /\ \A u \in Trace : SeenAt[u] = at[Seen(u)]
      /\ live \subseteq Particle /\ Base \notin live /\ Base \in Trace /\ Particle \subseteq Trace
      /\ \A r : Private!Ended(r) <=> Ended(r)
  BY <1>1, ProposeSees
<1>3. /\ \A u \in Trace : Seen(u)' = (IF u \in live' THEN u ELSE Base)
      /\ SeenPhase' = "propose" /\ SeenGroup' = group' /\ SeenLive' = live'
      /\ SeenAt' = [u \in Trace |-> at'[IF u \in live' THEN u ELSE Base]]
  BY <1>1, ProposedNext
<1>4. p \in live
  <2>1. Proposing BY <1>1 DEF KInv, Consistent, Stages
  <2> QED BY <1>1, <2>1 DEF Proposing, Ended
<1>5. /\ p # q /\ p # Base /\ q # Base
      /\ Carried(q, p) /\ at'[q] = at[p]
      /\ \A w \in Trace : w # q => Carried(w, w) /\ at'[w] = at[w]
  BY ClonedTables
<1>6. \A w \in Trace :
        /\ (AllStatisticsOf(w))' = AllStatisticsOf(IF w = q THEN p ELSE w)
        /\ (AAAOf(w))' = AAAOf(IF w = q THEN p ELSE w)
  BY CloneShows, SteadyThere DEF KInv, Consistent
<1>7. Becomes(q, p)
  <2>1. (AllStatisticsOf(q))' = AllStatisticsOf(p) /\ (AAAOf(q))' = AAAOf(p)
    BY <1>2, <1>6
  <2> QED BY <1>2, <1>5, <2>1, CarriedBecomes
<1>8. ASSUME NEW w \in Trace, w # q
      PROVE  Becomes(w, w)
  <2>1. (AllStatisticsOf(w))' = AllStatisticsOf(w) /\ (AAAOf(w))' = AAAOf(w)
    BY <1>6, <1>8
  <2>2. Carried(w, w) BY <1>5, <1>8
  <2> QED BY <2>1, <2>2, CarriedBecomes
<1>9. SeenAt' = Private!Copied(SeenAt, p, q)
  <2>1. \A u \in Trace : at'[IF u \in live' THEN u ELSE Base] = IF u = q THEN SeenAt[p] ELSE SeenAt[u]
    BY <1>1, <1>2, <1>4, <1>5
  <2>2. SeenAt' = [u \in Trace |-> IF u = q THEN SeenAt[p] ELSE SeenAt[u]] BY <1>3, <2>1
  <2>3. SeenAt = [u \in Trace |-> SeenAt[u]] BY DEF SeenAt
  <2>4. Private!Copied(SeenAt, p, q) = [u \in Trace |-> IF u = q THEN SeenAt[p] ELSE SeenAt[u]]
    BY <2>3 DEF Private!Copied
  <2> QED BY <2>2, <2>4
<1>10. PICK from : from = [u \in Trace |-> IF u = q THEN p ELSE u] OBVIOUS
<1>11. ASSUME NEW u \in Trace
       PROVE  Follows(u, from[u])
  <2>1. CASE u = q
    <3>1. Seen(q)' = q /\ Seen(p) = p BY <1>1, <1>2, <1>3, <1>4
    <3>2. Follows(q, p) BY <1>2, <1>7, <3>1, FollowsFrom
    <3> QED BY <1>10, <2>1, <3>2
  <2>2. CASE u # q
    <3>1. PICK w : w = Seen(u) OBVIOUS
    <3>2. Seen(u)' = w /\ w \in Trace /\ w # q BY <1>1, <1>2, <1>3, <1>5, <2>2, <3>1
    <3>3. Follows(u, u) BY <1>8, <3>1, <3>2, FollowsFrom
    <3> QED BY <1>10, <2>2, <3>3
  <2> QED BY <2>1, <2>2
<1>12. FromCopied(from, p, q) BY <1>10 DEF FromCopied
<1>13. /\ SeenUcs' = Private!Copied(SeenUcs, p, q) /\ SeenCcs' = Private!Copied(SeenCcs, p, q)
       /\ SeenTags' = Private!Copied(SeenTags, p, q) /\ SeenValues' = Private!Copied(SeenValues, p, q)
       /\ SeenRoots' = Private!Copied(SeenRoots, p, q) /\ SeenRequests' = Private!Copied(SeenRequests, p, q)
       /\ SeenChildren' = Private!Copied(SeenChildren, p, q) /\ SeenSPs' = Private!Copied(SeenSPs, p, q)
       /\ SeenFamilies' = Private!Copied(SeenFamilies, p, q) /\ SeenStats' = Private!Copied(SeenStats, p, q)
       /\ SeenAAA' = Private!Copied(SeenAAA, p, q)
  <2>1. p \in Trace /\ q \in Trace BY <1>2
  <2> QED BY <1>11, <1>12, <2>1, CopiedFollowed
<1>14. UNCHANGED <<SeenPhase, round, SeenGroup, SeenDB>> /\ SeenLive' = SeenLive \cup {q}
  BY <1>1, <1>2, <1>3 DEF SeenDB
<1> QED BY <1>1, <1>2, <1>9, <1>13, <1>14, TorusSame DEF Private!Clone

LEMMA AdvancedTables ==
  ASSUME KInv, Advance, NEW w \in Trace, w \notin live \ Generation(group)
  PROVE  Carried(w, w) /\ at'[w] = at[w]
<1>0. Steady /\ Base \in Trace /\ Base \notin Particle /\ Particle \subseteq Trace /\ live \subseteq Particle
  BY SteadyThere DEF Steady
<1>1. RegisterTypes /\ NodeTypes /\ MakerTypes /\ MoveTypes /\ Statics
  BY DEF KInv, Consistent
<1>2. PICK gone : gone = live \ Generation(group) OBVIOUS
<1>3. /\ at' = Blank(at, gone, 0) /\ ucs' = Blank(ucs, gone, {}) /\ ccs' = Blank(ccs, gone, {})
      /\ values' = Blank(values, gone, [c \in Choice |-> None])
      /\ esrRoots' = Blank(esrRoots, gone, [o \in Output |-> None])
      /\ numRequests' = Blank(numRequests, gone, [c \in Choice |-> None])
      /\ children' = Blank(children, gone, [c \in Choice |-> {}])
      /\ sps' = Blank(sps, gone, [m \in Maker |-> None])
      /\ families' = Blank(families, gone, [m \in Maker |-> [i \in Id |-> None]])
      /\ tags' = Blank(tags, gone, {}) /\ scopes' = scopes
  BY <1>2 DEF Advance, DropOverlays
<1>4. ASSUME NEW u \in Trace, u \notin gone
      PROVE  /\ ucs'[u] = ucs[u] /\ ccs'[u] = ccs[u] /\ values'[u] = values[u] /\ esrRoots'[u] = esrRoots[u]
             /\ numRequests'[u] = numRequests[u] /\ children'[u] = children[u] /\ sps'[u] = sps[u]
             /\ families'[u] = families[u] /\ at'[u] = at[u]
  <2>1. /\ DOMAIN ucs = Trace /\ DOMAIN ccs = Trace /\ DOMAIN values = Trace /\ DOMAIN esrRoots = Trace
        /\ DOMAIN numRequests = Trace /\ DOMAIN children = Trace /\ DOMAIN sps = Trace
        /\ DOMAIN families = Trace /\ DOMAIN at = Trace
    BY <1>1 DEF KInv, JInv, ValuesOK, RegisterTypes, NodeTypes, MakerTypes, MoveTypes
  <2>2. ASSUME NEW X, DOMAIN X = Trace, NEW x, NEW Y, Y = Blank(X, gone, x)
        PROVE  Y[u] = X[u]
    BY <1>4, <2>2 DEF Blank
  <2> QED BY <1>3, <2>1, <2>2
<1>5. w # Base => tags'[w] = tags[w]
  <2>1. DOMAIN tags = Particle /\ (w # Base => w \in Particle)
    BY DEF KInv, JInv, IInv, Records, Trace
  <2> QED BY <1>2, <1>3, <2>1 DEF Blank
<1>6. w \notin gone /\ Base \notin gone BY <1>0, <1>2
<1> QED BY <1>0, <1>3, <1>4, <1>5, <1>6 DEF Carried

LEMMA AdvanceSimulated ==
  ASSUME KInv, Advance
  PROVE  Private!Advance
<1>1. PICK gone : gone = live \ Generation(group) OBVIOUS
<1>2. /\ phase = "propose" /\ group <= Len(Ends) /\ \A r \in Generation(group) : Ended(r)
      /\ group' = group + 1 /\ live' = live \ gone
      /\ UNCHANGED <<phase, round, db, saved>>
  BY <1>1 DEF Advance
<1>3. /\ \A u \in Trace : Seen(u) = (IF u \in live THEN u ELSE Base) /\ Seen(u) \in Trace
      /\ SeenPhase = "propose" /\ SeenGroup = group /\ SeenLive = live
      /\ \A u \in Trace : SeenAt[u] = at[Seen(u)]
      /\ live \subseteq Particle /\ Base \notin live /\ Base \in Trace /\ Particle \subseteq Trace
      /\ \A q : Private!Ended(q) <=> Ended(q)
  BY <1>2, ProposeSees
<1>4. /\ \A u \in Trace : Seen(u)' = (IF u \in live' THEN u ELSE Base)
      /\ SeenPhase' = "propose" /\ SeenGroup' = group' /\ SeenLive' = live'
      /\ SeenAt' = [u \in Trace |-> at'[IF u \in live' THEN u ELSE Base]]
  BY <1>2, ProposedNext
<1>5. \A w \in Trace \ (live \ Generation(group)) :
        (AllStatisticsOf(w))' = AllStatisticsOf(w) /\ (AAAOf(w))' = AAAOf(w)
  BY AdvanceShows, SteadyThere DEF KInv, Consistent
<1>6. ASSUME NEW w \in Trace, w \notin gone
      PROVE  Becomes(w, w) /\ at'[w] = at[w]
  <2>1. Carried(w, w) /\ at'[w] = at[w] BY <1>1, <1>6, AdvancedTables
  <2>2. (AllStatisticsOf(w))' = AllStatisticsOf(w) /\ (AAAOf(w))' = AAAOf(w)
    BY <1>1, <1>5, <1>6
  <2> QED BY <2>1, <2>2, CarriedBecomes
<1>7. Base \notin gone /\ gone \subseteq live BY <1>1, <1>3
<1>8. SeenAt' = Private!Dropped(SeenAt, gone)
  <2>1. \A u \in Trace : at'[IF u \in live' THEN u ELSE Base] = IF u \in gone THEN SeenAt[Base] ELSE SeenAt[u]
    BY <1>2, <1>3, <1>6, <1>7
  <2> QED BY <1>4, <2>1, TorusSame DEF Private!Dropped
<1>9. PICK from : from = [u \in Trace |-> IF u \in gone THEN Base ELSE u] OBVIOUS
<1>10. ASSUME NEW u \in Trace
       PROVE  Follows(u, from[u])
  <2>1. CASE u \in gone
    <3>1. Seen(u)' = Base /\ Seen(Base) = Base BY <1>2, <1>3, <1>4, <2>1
    <3>2. Follows(u, Base) BY <1>3, <1>6, <1>7, <3>1, FollowsFrom
    <3> QED BY <1>9, <2>1, <3>2
  <2>2. CASE u \notin gone
    <3>1. PICK w : w = Seen(u) OBVIOUS
    <3>2. Seen(u)' = w /\ w \in Trace /\ w \notin gone
      BY <1>2, <1>3, <1>4, <1>7, <2>2, <3>1
    <3>3. Follows(u, u) BY <1>6, <3>1, <3>2, FollowsFrom
    <3> QED BY <1>9, <2>2, <3>3
  <2> QED BY <2>1, <2>2
<1>11. FromDropped(from, gone) BY <1>9 DEF FromDropped
<1>12. /\ SeenUcs' = Private!Dropped(SeenUcs, gone) /\ SeenCcs' = Private!Dropped(SeenCcs, gone)
       /\ SeenTags' = Private!Dropped(SeenTags, gone) /\ SeenValues' = Private!Dropped(SeenValues, gone)
       /\ SeenRoots' = Private!Dropped(SeenRoots, gone) /\ SeenRequests' = Private!Dropped(SeenRequests, gone)
       /\ SeenChildren' = Private!Dropped(SeenChildren, gone) /\ SeenSPs' = Private!Dropped(SeenSPs, gone)
       /\ SeenFamilies' = Private!Dropped(SeenFamilies, gone) /\ SeenStats' = Private!Dropped(SeenStats, gone)
       /\ SeenAAA' = Private!Dropped(SeenAAA, gone)
  BY <1>10, <1>11, DroppedFollowed
<1>13. UNCHANGED <<SeenPhase, round, SeenDB>> /\ SeenLive' = SeenLive \ gone /\ SeenGroup' = SeenGroup + 1
  BY <1>2, <1>3, <1>4 DEF SeenDB
<1>14. Private!Drop(gone) BY <1>8, <1>12, <1>13 DEF Private!Drop
<1>15. gone = SeenLive \ Private!Generation(SeenGroup) BY <1>1, <1>3, TorusSame
<1> QED BY <1>2, <1>3, <1>13, <1>14, <1>15, TorusSame DEF Private!Advance

(* The commit: the trace shows the particle from the first step on, and    *)
(* the other steps show nothing.                                           *)
LEMMA CommitChoicesBecomes ==
  ASSUME KInv, NEW p \in Particle, CommitChoices(p)
  PROVE  Becomes(p, p)
<1>0. Base \in Trace /\ Base \notin Particle /\ Particle \subseteq Trace /\ p # Base
  BY SteadyThere
<1>1. /\ ucs' = [ucs EXCEPT ![Base] = @ \cup ucs[p]] /\ UNCHANGED <<ccs, scopes, tags>>
      /\ UNCHANGED <<values, esrRoots, numRequests, children>>
      /\ UNCHANGED <<sps, families, aux, heap, aaa, discarded>>
  BY DEF CommitChoices, WithChoices, nodeVars, spVars
<1>2. DOMAIN ucs = Trace BY DEF KInv, Consistent, RegisterTypes
<1>3. (UcsOf(p))' = UcsOf(p) /\ (CcsOf(p))' = CcsOf(p)
  BY <1>0, <1>1, <1>2 DEF UcsOf, CcsOf
<1>4. (TagsOf(p))' = TagsOf(p)
  <2>1. BaseTags' = BaseTags BY <1>1 DEF BaseTags
  <2> QED BY <1>1, <2>1 DEF TagsOf
<1>5. (Overlaid(values, p))' = Overlaid(values, p) /\ (Overlaid(esrRoots, p))' = Overlaid(esrRoots, p)
  BY <1>1 DEF Overlaid
<1>6. (Overlaid(numRequests, p))' = Overlaid(numRequests, p) /\ (Overlaid(sps, p))' = Overlaid(sps, p)
  BY <1>1 DEF Overlaid
<1>7. (ChildrenOf(p))' = ChildrenOf(p) /\ (FamiliesOf(p))' = FamiliesOf(p)
  BY <1>1 DEF ChildrenOf, getChildren, FamiliesOf, getMadeSPFamilyRoot
<1>8. (AllStatisticsOf(p))' = AllStatisticsOf(p) /\ (AAAOf(p))' = AAAOf(p)
  BY <1>1 DEF AllStatisticsOf, StatisticsOf, StatisticsAt, getMadeSPAux, AAAOf, getAAAMadeSPAux
<1> QED BY <1>3, <1>4, <1>5, <1>6, <1>7, <1>8 DEF Becomes

LEMMA CommitSees ==
  ASSUME phase = "commit"
  PROVE  /\ \A u \in Trace : Seen(u) = committing
         /\ SeenPhase = "regen" /\ SeenGroup = 0 /\ SeenLive = {} /\ SeenAt = [u \in Trace |-> Len(Program)]
BY DEF Seen, SeenPhase, SeenGroup, SeenLive, SeenAt, committed

LEMMA CommitSeesNext ==
  ASSUME phase' = "commit"
  PROVE  /\ \A u \in Trace : Seen(u)' = committing'
         /\ SeenPhase' = "regen" /\ SeenGroup' = 0 /\ SeenLive' = {}
         /\ SeenAt' = [u \in Trace |-> Len(Program)]
BY DEF Seen, SeenPhase, SeenGroup, SeenLive, SeenAt, committed

LEMMA CommitChoicesSimulated ==
  ASSUME KInv, NEW p \in Particle, CommitChoices(p)
  PROVE  Private!Commit(p)
<1>1. /\ phase = "propose" /\ group = Len(Ends) + 1 /\ p \in live
      /\ phase' = "commit" /\ committing' = p
      /\ db' = NoDB /\ saved' = [m \in Maker |-> None] /\ UNCHANGED round
  BY DEF CommitChoices
<1>2. /\ \A u \in Trace : Seen(u) = (IF u \in live THEN u ELSE Base) /\ Seen(u) \in Trace
      /\ SeenPhase = "propose" /\ SeenGroup = group /\ SeenLive = live
      /\ \A u \in Trace : SeenAt[u] = at[Seen(u)]
      /\ live \subseteq Particle /\ Base \notin live /\ Base \in Trace /\ Particle \subseteq Trace
      /\ \A q : Private!Ended(q) <=> Ended(q)
  BY <1>1, ProposeSees
<1>3. /\ \A u \in Trace : Seen(u)' = p
      /\ SeenPhase' = "regen" /\ SeenGroup' = 0 /\ SeenLive' = {} /\ SeenAt' = [u \in Trace |-> Len(Program)]
  <2>1. /\ \A u \in Trace : Seen(u)' = committing'
        /\ SeenPhase' = "regen" /\ SeenGroup' = 0 /\ SeenLive' = {}
        /\ SeenAt' = [u \in Trace |-> Len(Program)]
    BY <1>1, CommitSeesNext
  <2> QED BY <1>1, <2>1
<1>4. SeenDB' = Private!NoDB BY <1>1 DEF SeenDB, NoDB, Private!NoDB
<1>5. PICK from : from = [u \in Trace |-> p] OBVIOUS
<1>6. ASSUME NEW u \in Trace
      PROVE  Follows(u, from[u])
  <2>1. Seen(u)' = p /\ Seen(p) = p /\ p \in Trace BY <1>1, <1>2, <1>3
  <2>2. Becomes(p, p) BY CommitChoicesBecomes
  <2>3. Follows(u, p) BY <2>1, <2>2, FollowsFrom
  <2> QED BY <1>5, <2>3
<1>7. FromBecame(from, p) BY <1>5 DEF FromBecame
<1>8. /\ SeenUcs' = Private!Became(SeenUcs, p) /\ SeenCcs' = Private!Became(SeenCcs, p)
      /\ SeenTags' = Private!Became(SeenTags, p) /\ SeenValues' = Private!Became(SeenValues, p)
      /\ SeenRoots' = Private!Became(SeenRoots, p) /\ SeenRequests' = Private!Became(SeenRequests, p)
      /\ SeenChildren' = Private!Became(SeenChildren, p) /\ SeenSPs' = Private!Became(SeenSPs, p)
      /\ SeenFamilies' = Private!Became(SeenFamilies, p) /\ SeenStats' = Private!Became(SeenStats, p)
      /\ SeenAAA' = Private!Became(SeenAAA, p)
  <2>1. p \in Trace BY <1>2
  <2> QED BY <1>6, <1>7, <2>1, BecameFollowed
<1> QED BY <1>1, <1>2, <1>3, <1>4, <1>8, TorusSame DEF Private!Commit

ShowsNothing ==
  /\ UNCHANGED <<SeenPhase, round, SeenGroup, SeenLive, SeenAt, SeenDB>>
  /\ UNCHANGED <<SeenUcs, SeenCcs, SeenTags, SeenValues, SeenRoots, SeenRequests, SeenChildren,
                 SeenSPs, SeenFamilies, SeenStats, SeenAAA>>

LEMMA NothingShown ==
  ASSUME ShowsNothing
  PROVE  UNCHANGED Private!vars
BY DEF ShowsNothing, Private!vars, Private!traceVars

(* While p is committed, what remains to be done to the registers makes no *)
(* difference to what p has.                                               *)
LEMMA CommittingShows ==
  ASSUME KInv, phase = "commit", NEW p, p = committing,
         UNCHANGED <<phase, round, db, committing, saved, values, esrRoots, numRequests, children>>,
         UNCHANGED <<sps, families, aux, heap, aaa, discarded>>,
         (UcsOf(p))' = UcsOf(p), (CcsOf(p))' = CcsOf(p), (TagsOf(p))' = TagsOf(p)
  PROVE  ShowsNothing
<1>1. /\ \A u \in Trace : Seen(u) = p
      /\ SeenPhase = "regen" /\ SeenGroup = 0 /\ SeenLive = {} /\ SeenAt = [u \in Trace |-> Len(Program)]
  BY CommitSees
<1>2. /\ \A u \in Trace : Seen(u)' = p
      /\ SeenPhase' = "regen" /\ SeenGroup' = 0 /\ SeenLive' = {} /\ SeenAt' = [u \in Trace |-> Len(Program)]
  <2>1. /\ \A u \in Trace : Seen(u)' = committing'
        /\ SeenPhase' = "regen" /\ SeenGroup' = 0 /\ SeenLive' = {}
        /\ SeenAt' = [u \in Trace |-> Len(Program)]
    BY CommitSeesNext
  <2> QED BY <2>1
<1>3. UNCHANGED <<SeenPhase, round, SeenGroup, SeenLive, SeenAt, SeenDB>>
  BY <1>1, <1>2 DEF SeenDB
<1>4. UNCHANGED <<SeenValues, SeenRoots, SeenRequests, SeenChildren, SeenSPs, SeenFamilies, SeenStats, SeenAAA>>
  <2>1. \A u \in Trace : Seen(u)' = Seen(u) BY <1>1, <1>2
  <2> QED BY <2>1, StillShows
<1>5. UNCHANGED <<SeenUcs, SeenCcs, SeenTags>>
  <2>1. ASSUME NEW u \in Trace
        PROVE  SeenUcs'[u] = SeenUcs[u] /\ SeenCcs'[u] = SeenCcs[u] /\ SeenTags'[u] = SeenTags[u]
    <3>1. Seen(u) = p /\ Seen(u)' = p BY <1>1, <1>2
    <3>2. SeenUcs[u] = UcsOf(p) /\ SeenCcs[u] = CcsOf(p) /\ SeenTags[u] = TagsOf(p)
      BY <3>1, SeenAs
    <3>3. SeenUcs'[u] = (UcsOf(p))' /\ SeenCcs'[u] = (CcsOf(p))' /\ SeenTags'[u] = (TagsOf(p))'
      BY <3>1, SeenAsNext
    <3> QED BY <3>2, <3>3
  <2>2. /\ SeenUcs = [u \in Trace |-> SeenUcs[u]] /\ SeenUcs' = [u \in Trace |-> SeenUcs'[u]]
        /\ SeenCcs = [u \in Trace |-> SeenCcs[u]] /\ SeenCcs' = [u \in Trace |-> SeenCcs'[u]]
        /\ SeenTags = [u \in Trace |-> SeenTags[u]] /\ SeenTags' = [u \in Trace |-> SeenTags'[u]]
    BY DEF SeenUcs, SeenCcs, SeenTags
  <2> QED BY <2>1, <2>2
<1> QED BY <1>3, <1>4, <1>5 DEF ShowsNothing

LEMMA CommitTagShows ==
  ASSUME KInv, NEW s, NEW b, NEW n, CommitTag(s, b, n)
  PROVE  ShowsNothing
<1>1. /\ phase = "commit" /\ <<s, b, n>> \in toTag /\ RegisterInScope(Base, s, b, n)
      /\ UNCHANGED <<phase, round, live, db, committing, saved, ucs, ccs>>
      /\ UNCHANGED <<values, esrRoots, numRequests, children>>
      /\ UNCHANGED <<sps, families, aux, heap, aaa, discarded>>
  BY DEF CommitTag, nodeVars, spVars
<1>2. PICK p : p = committing OBVIOUS
<1>3. p # Base /\ toTag \subseteq tags[p] /\ IInv BY <1>1, <1>2, CommitFacts
<1>4. tags' = tags /\ TagsIn(scopes') = TagsIn(scopes) \cup {<<s, b, n>>}
  BY <1>1, <1>3, RegisterEffect, SteadyThere
<1>5. (UcsOf(p))' = UcsOf(p) /\ (CcsOf(p))' = CcsOf(p) BY <1>1 DEF UcsOf, CcsOf
<1>6. (TagsOf(p))' = TagsOf(p)
  <2>1. BaseTags' = BaseTags \cup {<<s, b, n>>} BY <1>4, BaseTagsAre
  <2>2. <<s, b, n>> \in tags[p] BY <1>1, <1>3
  <2> QED BY <1>1, <1>3, <1>4, <2>1, <2>2 DEF TagsOf
<1> QED BY <1>1, <1>2, <1>5, <1>6, CommittingShows

LEMMA CommitConstraintShows ==
  ASSUME KInv, NEW c, CommitConstraint(c)
  PROVE  ShowsNothing
<1>1. /\ phase = "commit" /\ c \in toConstrain /\ registerConstrainedChoice(Base, c)
      /\ UNCHANGED <<phase, round, live, db, committing, saved>>
      /\ UNCHANGED <<values, esrRoots, numRequests, children>>
      /\ UNCHANGED <<sps, families, aux, heap, aaa, discarded>>
  BY DEF CommitConstraint, nodeVars, spVars
<1>2. PICK p : p = committing OBVIOUS
<1>3. p # Base /\ p \in Particle /\ toConstrain \subseteq ccs[p] /\ IInv /\ Base \in Trace /\ p \in Trace
  BY <1>1, <1>2, CommitFacts, SteadyThere
<1>4. /\ ccs' = [ccs EXCEPT ![Base] = @ \cup {c}] /\ ucs' = [ucs EXCEPT ![Base] = @ \ {c}]
      /\ UnregisterInScope(Default, c, c) /\ tags' = tags
  BY <1>1 DEF registerConstrainedChoice, unregisterUnconstrainedChoice, UnregisterInScope
<1>5. /\ ccs'[Base] = ccs[Base] \cup {c} /\ ucs'[Base] = ucs[Base] \ {c}
      /\ ccs'[p] = ccs[p] /\ ucs'[p] = ucs[p] /\ c \in ccs[p]
  BY <1>1, <1>3, <1>4 DEF KInv, Consistent, RegisterTypes
<1>6. (UcsOf(p))' = UcsOf(p) /\ (CcsOf(p))' = CcsOf(p) BY <1>3, <1>5 DEF UcsOf, CcsOf
<1>7. (TagsOf(p))' = TagsOf(p)
  <2>1. BaseTags' = BaseTags \ {default(c)}
    <3>1. TagsIn(scopes') = TagsIn(scopes) \ {default(c)}
      BY <1>3, <1>4, UnregisterEffect DEF default
    <3> QED BY <3>1, BaseTagsAre
  <2>2. PICK D : D = {default(k) : k \in ccs[p]} OBVIOUS
  <2>3. default(c) \in D /\ {default(k)' : k \in ccs'[p]} = D BY <1>5, <2>2 DEF default
  <2>4. TagsOf(p) = (BaseTags \cup tags[p]) \ D /\ (TagsOf(p))' = (BaseTags' \cup tags'[p]) \ D
    BY <1>3, <2>2, <2>3 DEF TagsOf
  <2> QED BY <1>4, <2>1, <2>3, <2>4
<1> QED BY <1>1, <1>2, <1>6, <1>7, CommittingShows

LEMMA CommitRestBecomes ==
  ASSUME KInv, CommitRest, NEW p, p = committing
  PROVE  Becomes(Base, p)
<1>1. /\ p \in Particle /\ p \in live /\ p # Base /\ at[p] = TorusEnd /\ at[Base] = First
      /\ phase = "commit" /\ toTag = {} /\ toConstrain = {}
      /\ phase' = "regen" /\ group' = 0 /\ live' = {}
      /\ UNCHANGED <<round, db, saved, toTag, toConstrain, scopes>>
      /\ at'[Base] = Len(Program) /\ ucs'[Base] = ucs[Base] /\ ccs'[Base] = ccs[Base]
      /\ values'[Base] = Overlaid(values, p) /\ esrRoots'[Base] = Overlaid(esrRoots, p)
      /\ numRequests'[Base] = Overlaid(numRequests, p) /\ children'[Base] = ChildrenOf(p)
      /\ sps'[Base] = Overlaid(sps, p) /\ families'[Base] = FamiliesOf(p)
      /\ \A u \in Particle :
           /\ ucs'[u] = {} /\ ccs'[u] = {} /\ tags'[u] = {} /\ discarded'[u] = {}
           /\ values'[u] = [c \in Choice |-> None] /\ esrRoots'[u] = [o \in Output |-> None]
           /\ numRequests'[u] = [c \in Choice |-> None] /\ children'[u] = [c \in Choice |-> {}]
           /\ sps'[u] = [m \in Maker |-> None] /\ families'[u] = [m \in Maker |-> [i \in Id |-> None]]
           /\ aux'[u] = [m \in Maker |-> None]
  BY CommittedTables
<1>2. /\ ccs[p] \subseteq ccs[Base] /\ ccs[p] \cap ucs[Base] = {} /\ ucs[p] \subseteq ucs[Base] \cup ccs[p]
      /\ tags[p] \subseteq TagsIn(scopes) \cup {default(c) : c \in ccs[p]}
      /\ Matches(TagsIn(scopes), ucs[Base])
  <2>1. /\ ccs[p] \ toConstrain \subseteq ccs[Base]
        /\ (ccs[p] \ toConstrain) \cap ucs[Base] = {}
        /\ ucs[p] \subseteq ucs[Base] \cup (ccs[p] \ toConstrain)
        /\ tags[p] \subseteq TagsIn(scopes) \cup toTag \cup {default(c) : c \in ccs[p] \ toConstrain}
    BY <1>1, CommitFacts
  <2>2. ccs[p] \ toConstrain = ccs[p] /\ TagsIn(scopes) \cup toTag = TagsIn(scopes)
    BY <1>1
  <2>3. Matches(TagsIn(scopes) \cup toTag, ucs[Base]) BY DEF KInv, JInv, IInv, Records
  <2> QED BY <2>1, <2>2, <2>3
<1>3. (UcsOf(Base))' = UcsOf(p) /\ (CcsOf(Base))' = CcsOf(p)
  BY <1>1, <1>2 DEF UcsOf, CcsOf
<1>4. (TagsOf(Base))' = TagsOf(p)
  <2>1. (TagsOf(Base))' = TagsIn(scopes)
        /\ TagsOf(p) = (TagsIn(scopes) \cup tags[p]) \ {default(c) : c \in ccs[p]}
    <3>1. BaseTags = TagsIn(scopes) /\ BaseTags' = TagsIn(scopes) BY <1>1, BaseTagsAre
    <3> QED BY <1>1, <3>1 DEF TagsOf
  <2>2. ASSUME NEW c \in ccs[p]
        PROVE  default(c) \notin TagsIn(scopes)
    <3>1. SUFFICES ASSUME default(c) \in TagsIn(scopes) PROVE FALSE OBVIOUS
    <3>2. default(c) \in {default(k) : k \in ucs[Base]}
      BY <1>2, <3>1 DEF Matches, default
    <3>3. PICK k \in ucs[Base] : default(c) = default(k) BY <3>2
    <3> QED BY <1>2, <3>3 DEF default
  <2>3. PICK T, D : T = TagsIn(scopes) /\ D = {default(c) : c \in ccs[p]} OBVIOUS
  <2>4. T \cap D = {} BY <2>2, <2>3
  <2> QED BY <1>2, <2>1, <2>3, <2>4
<1>5. /\ values \in [Trace -> [Choice -> Value \cup {None}]]
      /\ esrRoots \in [Trace -> [Output -> Maybe(Roots)]]
      /\ numRequests \in [Trace -> [Choice -> Maybe(Int)]] /\ sps \in [Trace -> [Maker -> Maybe(Proc)]]
      /\ p \in Trace
  BY <1>1, SteadyThere DEF KInv, JInv, ValuesOK, Consistent, NodeTypes, MakerTypes
<1>6. (Overlaid(values, Base))' = Overlaid(values, p)
  <2>1. PICK F : F = Overlaid(values, p) OBVIOUS
  <2>2. F = [k \in Choice |-> F[k]] BY <1>5, <2>1 DEF Overlaid
  <2> QED BY <1>1, <2>1, <2>2 DEF Overlaid
<1>7. (Overlaid(esrRoots, Base))' = Overlaid(esrRoots, p)
  <2>1. PICK F : F = Overlaid(esrRoots, p) OBVIOUS
  <2>2. F = [k \in Output |-> F[k]] BY <1>5, <2>1 DEF Overlaid
  <2> QED BY <1>1, <2>1, <2>2 DEF Overlaid
<1>8. (Overlaid(numRequests, Base))' = Overlaid(numRequests, p)
  <2>1. PICK F : F = Overlaid(numRequests, p) OBVIOUS
  <2>2. F = [k \in Choice |-> F[k]] BY <1>5, <2>1 DEF Overlaid
  <2> QED BY <1>1, <2>1, <2>2 DEF Overlaid
<1>9. (Overlaid(sps, Base))' = Overlaid(sps, p)
  <2>1. PICK F : F = Overlaid(sps, p) OBVIOUS
  <2>2. F = [k \in Maker |-> F[k]] BY <1>5, <2>1 DEF Overlaid
  <2> QED BY <1>1, <2>1, <2>2 DEF Overlaid
<1>10. (ChildrenOf(Base))' = ChildrenOf(p)
  <2>1. PICK F : F = ChildrenOf(p) OBVIOUS
  <2>2. F = [k \in Choice |-> F[k]] BY <2>1 DEF ChildrenOf
  <2>3. (ChildrenOf(Base))' = [k \in Choice |-> F[k] \cup F[k]]
    BY <1>1, <2>1 DEF ChildrenOf, getChildren
  <2> QED BY <2>1, <2>2, <2>3
<1>11. (FamiliesOf(Base))' = FamiliesOf(p)
  <2>1. PICK F : F = FamiliesOf(p) OBVIOUS
  <2>2. F = [m \in Maker |-> [i \in Id |-> F[m][i]]] BY <2>1 DEF FamiliesOf
  <2>3. (FamiliesOf(Base))' = [m \in Maker |-> [i \in Id |-> F[m][i]]]
    BY <1>1, <2>1 DEF FamiliesOf, getMadeSPFamilyRoot
  <2> QED BY <2>1, <2>2, <2>3
<1>12. (AllStatisticsOf(Base))' = AllStatisticsOf(p) /\ (AAAOf(Base))' = AAAOf(p)
  BY CommitRestShows, SteadyThere DEF KInv, JInv, Consistent
<1> QED BY <1>3, <1>4, <1>6, <1>7, <1>8, <1>9, <1>10, <1>11, <1>12 DEF Becomes

LEMMA CommitRestShowsNothing ==
  ASSUME KInv, CommitRest
  PROVE  ShowsNothing
<1>1. /\ phase = "commit" /\ phase' = "regen" /\ group' = 0 /\ live' = {} /\ at' = Merged(at, Len(Program), 0)
      /\ UNCHANGED <<round, db, saved>>
  BY DEF CommitRest
<1>2. PICK p : p = committing OBVIOUS
<1>3. p \in Particle /\ Base \in Trace /\ DOMAIN at = Trace
  BY <1>1, <1>2, CommitFacts, SteadyThere DEF KInv, Consistent, MoveTypes
<1>4. /\ \A u \in Trace : Seen(u) = p
      /\ SeenPhase = "regen" /\ SeenGroup = 0 /\ SeenLive = {} /\ SeenAt = [u \in Trace |-> Len(Program)]
  BY <1>1, <1>2, CommitSees
<1>5. \A u \in Trace : Seen(u)' = Base BY <1>1 DEF Seen
<1>6. /\ SeenPhase' = "regen" /\ SeenGroup' = 0 /\ SeenLive' = {} /\ SeenAt' = [u \in Trace |-> Len(Program)]
      /\ SeenDB' = SeenDB
  <2>1. at'[Base] = Len(Program) BY <1>1, <1>3 DEF Merged
  <2>2. SeenAt' = [u \in Trace |-> at'[Base]] BY <1>1, <1>5 DEF SeenAt, committed
  <2> QED BY <1>1, <2>1, <2>2 DEF SeenPhase, SeenGroup, SeenLive, SeenDB, committed
<1>7. PICK from : from = [u \in Trace |-> u] OBVIOUS
<1>8. ASSUME NEW u \in Trace
      PROVE  Follows(u, from[u])
  <2>1. Becomes(Base, p) BY <1>2, CommitRestBecomes
  <2>2. Follows(u, u) BY <1>4, <1>5, <2>1, FollowsFrom
  <2> QED BY <1>7, <2>2
<1>9. UNCHANGED <<SeenUcs, SeenCcs, SeenTags, SeenValues, SeenRoots, SeenRequests, SeenChildren,
                  SeenSPs, SeenFamilies, SeenStats, SeenAAA>>
  BY <1>7, <1>8, SameFollowed
<1> QED BY <1>1, <1>4, <1>6, <1>9 DEF ShowsNothing

-----------------------------------------------------------------------------
(* Every step is one of the private traces, or shows nothing.              *)
LEMMA RegenSimulated ==
  ASSUME KInv, NEW t \in Trace, Regen(t)
  PROVE  Private!Regen(t)
<1>1. CASE \E m \in Maker, sp \in Proc : MakeStep(t, m, sp)
  BY <1>1, MakeSimulated DEF Private!Regen
<1>2. CASE \E c \in Choice, v \in Value : DrawStep(t, c, v)
  BY <1>2, DrawSimulated DEF Private!Regen
<1>3. CASE \E o \in Output, m \in Maker, id \in Id : ShareStep(t, o, m, id)
  BY <1>3, ShareSimulated DEF Private!Regen
<1>4. CASE \E o \in Output, m \in Maker, id \in Id, v \in Value : FamilyStep(t, o, m, id, v)
  BY <1>4, FamilySimulated DEF Private!Regen
<1>5. CASE \E s \in Scope, b, c \in Choice : TagStep(t, s, b, c)
  BY <1>5, TagSimulated DEF Private!Regen
<1>6. CASE \E n \in Choice \cup Output, c \in Choice, v \in Value : ObserveStep(t, n, c, v)
  BY <1>6, ObserveSimulated DEF Private!Regen
<1>7. CASE \E c \in Choice : AbsorbStep(t, c) BY <1>7, AbsorbSimulated DEF Private!Regen
<1> QED BY <1>1, <1>2, <1>3, <1>4, <1>5, <1>6, <1>7 DEF Regen

LEMMA DetachSimulated ==
  ASSUME KInv, Detach
  PROVE  Private!Detach
<1>1. CASE \E m \in Maker : UnmakeStep(m) BY <1>1, UnmakeSimulated DEF Private!Detach
<1>2. CASE \E o \in Output, m \in Maker : UnrequestStep(o, m)
  BY <1>2, UnrequestSimulated DEF Private!Detach
<1>3. CASE \E c \in Choice : UndrawStep(c) BY <1>3, UndrawSimulated DEF Private!Detach
<1>4. CASE \E c \in Choice : UnabsorbStep(c)
  BY <1>4, UnabsorbSimulated DEF Private!Detach
<1>5. CASE \E s \in Scope, b, c \in Choice : UntagStep(s, b, c)
  BY <1>5, UntagSimulated DEF Private!Detach
<1>6. CASE \E n \in Choice \cup Output, v \in Value : UnobserveStep(n, v)
  BY <1>6, UnobserveSimulated DEF Private!Detach
<1> QED BY <1>1, <1>2, <1>3, <1>4, <1>5, <1>6 DEF Detach

LEMMA MoveSimulated ==
  ASSUME KInv, Move
  PROVE  Private!Move \/ ShowsNothing
<1>1. CASE BeginDetach BY <1>1, BeginDetachSimulated DEF Private!Move
<1>2. CASE BeginPropose BY <1>2, BeginProposeSimulated DEF Private!Move
<1>3. CASE Advance BY <1>3, AdvanceSimulated DEF Private!Move
<1>4. CASE CommitRest BY <1>4, CommitRestShowsNothing
<1>5. CASE \E p \in Particle : Spawn(p)
  BY <1>5, SpawnSimulated, TorusSame DEF Private!Move
<1>6. CASE \E p \in Particle : CommitChoices(p)
  BY <1>6, CommitChoicesSimulated, TorusSame DEF Private!Move
<1>7. CASE \E p \in Particle, q \in Particle : Clone(p, q)
  BY <1>7, CloneSimulated, TorusSame DEF Private!Move
<1>8. CASE \E tag \in toTag : CommitTag(tag[1], tag[2], tag[3]) BY <1>8, CommitTagShows
<1>9. CASE \E c \in toConstrain : CommitConstraint(c) BY <1>9, CommitConstraintShows
<1> QED BY <1>1, <1>2, <1>3, <1>4, <1>5, <1>6, <1>7, <1>8, <1>9 DEF Move

LEMMA StepSimulated ==
  ASSUME KInv, [Next]_vars
  PROVE  Private!Next \/ UNCHANGED Private!vars
<1>1. CASE \E t \in Trace : Regen(t) BY <1>1, RegenSimulated, TorusSame DEF Private!Next
<1>2. CASE Detach BY <1>2, DetachSimulated DEF Private!Next
<1>3. CASE Move BY <1>3, MoveSimulated, NothingShown DEF Private!Next
<1>4. CASE UNCHANGED vars
  <2>1. /\ UNCHANGED <<phase, round, group, live, db, committing, toTag, toConstrain, saved, at>>
        /\ UNCHANGED <<ucs, ccs, scopes, tags, values, esrRoots, numRequests, children>>
        /\ UNCHANGED <<sps, families, aux, heap, aaa, discarded>>
    BY <1>4 DEF vars, gibbsVars, registerVars, nodeVars, spVars
  <2>2. \A u \in Trace : Seen(u)' = Seen(u) BY <2>1 DEF Seen
  <2>3. UNCHANGED <<SeenUcs, SeenCcs, SeenTags, SeenValues, SeenRoots, SeenRequests, SeenChildren,
                    SeenSPs, SeenFamilies, SeenStats, SeenAAA>>
    BY <2>1, <2>2, StillShows
  <2>4. UNCHANGED <<SeenPhase, round, SeenGroup, SeenLive, SeenDB>>
    BY <2>1 DEF SeenPhase, SeenGroup, SeenLive, SeenDB, committed
  <2>5. SeenAt' = SeenAt BY <2>1, <2>2 DEF SeenAt, committed
  <2> QED BY <2>1, <2>3, <2>4, <2>5, NothingShown DEF ShowsNothing
<1> QED BY <1>1, <1>2, <1>3, <1>4 DEF Next

LEMMA InitSimulated == Init => Private!Init
<1> SUFFICES ASSUME Init PROVE Private!Init OBVIOUS
<1>0. Base \in Trace BY BaseIsNoParticle DEF Trace
<1>1. /\ phase = "regen" /\ round = 0 /\ group = 0 /\ live = {} /\ db = NoDB /\ saved = [m \in Maker |-> None]
      /\ at[Base] = 0 /\ ucs[Base] = {} /\ ccs[Base] = {} /\ scopes = <<>>
      /\ values[Base] = [c \in Choice |-> None] /\ esrRoots[Base] = [o \in Output |-> None]
      /\ numRequests[Base] = [c \in Choice |-> 0] /\ children[Base] = [c \in Choice |-> {}]
      /\ sps[Base] = [m \in Maker |-> None] /\ families[Base] = [m \in Maker |-> [i \in Id |-> None]]
      /\ aux[Base] = [m \in Maker |-> None] /\ aaa = [m \in Maker |-> None]
  BY <1>0 DEF Init
<1>2. \A u \in Trace : Seen(u) = Base BY <1>1 DEF Seen
<1>3. UcsOf(Base) = {} /\ CcsOf(Base) = {} BY <1>1 DEF UcsOf, CcsOf
<1>4. TagsOf(Base) = {}
  <2>1. DOMAIN scopes = {} BY <1>1
  <2>2. BaseTags = {} BY <2>1 DEF BaseTags
  <2> QED BY <2>2 DEF TagsOf
<1>5. /\ Overlaid(values, Base) = [c \in Choice |-> None]
      /\ Overlaid(esrRoots, Base) = [o \in Output |-> None]
      /\ Overlaid(sps, Base) = [m \in Maker |-> None]
  BY <1>1 DEF Overlaid
<1>6. Overlaid(numRequests, Base) = [c \in Choice |-> 0] BY <1>1, NoneFacts DEF Overlaid
<1>7. ChildrenOf(Base) = [c \in Choice |-> {}] /\ FamiliesOf(Base) = [m \in Maker |-> [i \in Id |-> None]]
  BY <1>1 DEF ChildrenOf, getChildren, FamiliesOf, getMadeSPFamilyRoot
<1>8. AllStatisticsOf(Base) = [m \in Maker |-> None] /\ AAAOf(Base) = [m \in Maker |-> None]
  BY <1>1 DEF AllStatisticsOf, StatisticsOf, StatisticsAt, getMadeSPAux, AAAOf, getAAAMadeSPAux
<1>9. /\ SeenPhase = "regen" /\ SeenGroup = 0 /\ SeenLive = {} /\ SeenAt = [t \in Trace |-> 0]
      /\ SeenDB = Private!NoDB
  BY <1>1, <1>2 DEF SeenPhase, SeenGroup, SeenLive, SeenAt, committed, SeenDB, NoDB, Private!NoDB
<1>10. /\ SeenUcs = [t \in Trace |-> {}] /\ SeenCcs = [t \in Trace |-> {}] /\ SeenTags = [t \in Trace |-> {}]
       /\ SeenValues = [t \in Trace |-> [c \in Choice |-> None]]
       /\ SeenRoots = [t \in Trace |-> [o \in Output |-> None]]
       /\ SeenRequests = [t \in Trace |-> [c \in Choice |-> 0]]
       /\ SeenChildren = [t \in Trace |-> [c \in Choice |-> {}]]
       /\ SeenSPs = [t \in Trace |-> [m \in Maker |-> None]]
       /\ SeenFamilies = [t \in Trace |-> [m \in Maker |-> [i \in Id |-> None]]]
       /\ SeenStats = [t \in Trace |-> [m \in Maker |-> None]]
       /\ SeenAAA = [t \in Trace |-> [m \in Maker |-> None]]
  BY <1>2, <1>3, <1>4, <1>5, <1>6, <1>7, <1>8 DEF SeenUcs, SeenCcs, SeenTags, SeenValues, SeenRoots,
     SeenRequests,
     SeenChildren, SeenSPs, SeenFamilies, SeenStats, SeenAAA
<1> QED BY <1>1, <1>9, <1>10, TorusSame DEF Private!Init

(* Particles over one trace are as good as copies of it (ParticleProps),   *)
(* in every program the assumptions of Torus allow, however many there are *)
(* of particles, border groups and moves: no particle shows what another   *)
(* one did (omegadb.cxx, particle.cxx), and none of the steps by which one *)
(* is committed can be seen (particle.cxx:214).                            *)
THEOREM ParticlesPrivate == Spec => Refines
<1>1. Init => Private!Init BY InitSimulated
<1>2. KInv /\ [Next]_vars => [Private!Next]_(Private!vars) BY StepSimulated
<1>3. Spec => []KInv BY RecordsInvariant
<1> QED BY <1>1, <1>2, <1>3, PTL DEF Spec, Refines, Private!Spec
=============================================================================
