---------------------------- MODULE SamplableMap ----------------------------
(***************************************************************************)
(* The map of the Puma backend from which a key can be drawn uniformly     *)
(* (inc/smap.h): an array a of pairs, and a dictionary d from each key to  *)
(* its place in the array.  A scope is such a map from blocks to nodes.    *)
(***************************************************************************)
EXTENDS Integers, Sequences

Empty == [d |-> <<>>, a |-> <<>>]

contains(m, k) == k \in DOMAIN m.d
size(m)        == Len(m.a)
get(m, k)      == m.a[m.d[k]].value

set(m, k, v) ==
  [d |-> [j \in DOMAIN m.d \cup {k} |-> IF j = k THEN Len(m.a) + 1 ELSE m.d[j]],
   a |-> Append(m.a, [key |-> k, value |-> v])]

(* get returns a reference, through which the caller changes the value.    *)
assign(m, k, v) ==
  [d |-> m.d, a |-> [m.a EXCEPT ![m.d[k]] = [key |-> k, value |-> v]]]

(* The last pair moves into the gap.                                       *)
moved(m, k) == [m.a EXCEPT ![m.d[k]] = m.a[Len(m.a)]]

(* Mutation: the dictionary still has the place the last pair was at.      *)
erase_stale(m, k) ==
  [d |-> [j \in DOMAIN m.d \ {k} |-> m.d[j]],
   a |-> SubSeq(moved(m, k), 1, Len(m.a) - 1)]
erase(m, k) ==
  [d |-> [j \in DOMAIN m.d \ {k} |-> IF j = m.a[Len(m.a)].key THEN m.d[k] ELSE m.d[j]],
   a |-> SubSeq(moved(m, k), 1, Len(m.a) - 1)]

(* What the map holds, and the places a draw can return.                   *)
Contents(m) == [k \in DOMAIN m.d |-> get(m, k)]

(* The dictionary and the array are inverse to each other: a lookup finds  *)
(* the pair of its key, and every draw returns a key of the map.           *)
Indexed(m) ==
  /\ \A i \in DOMAIN m.a : m.a[i].key \in DOMAIN m.d /\ m.d[m.a[i].key] = i
  /\ \A k \in DOMAIN m.d : m.d[k] \in DOMAIN m.a /\ m.a[m.d[k]].key = k
=============================================================================
