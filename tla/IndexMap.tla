------------------------------ MODULE IndexMap ------------------------------
(* indexmap::IndexMap with numbers as keys: a map that remembers the order of
   insertion.  An entry has its value v and its place in that order.  Of the places
   only the order counts; a key that is above all places is its own place.     *)
EXTENDS Integers, Functions

EmptyMap == [k \in {} |-> 0]

FirstKey(m) == CHOOSE k \in DOMAIN m : \A j \in DOMAIN m : m[k].at <= m[j].at
LastKey(m)  == CHOOSE k \in DOMAIN m : \A j \in DOMAIN m : m[j].at <= m[k].at

NewPlace(m, k) == IF \A j \in DOMAIN m : m[j].at < k THEN k ELSE m[LastKey(m)].at + 1

\* IndexMap::insert: a key that is there keeps its place.
Insert(m, k, v) ==
  [j \in DOMAIN m \cup {k} |->
     IF j # k THEN m[j]
     ELSE [v |-> v, at |-> IF k \in DOMAIN m THEN m[k].at ELSE NewPlace(m, k)]]

\* What get_index finds after the place of a key.
KeysAfter(m, k) == {j \in DOMAIN m : m[j].at > m[k].at}
NextKey(m, k)   == FirstKey(Restrict(m, KeysAfter(m, k)))
=============================================================================
