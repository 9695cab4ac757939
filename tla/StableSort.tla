------------------------------- MODULE StableSort -------------------------------
(* Python's sorted and list.sort: by a key, elements with the same key in the  *)
(* order they had. The key of the element at place i of a sequence is key[i].  *)
EXTENDS Integers, Sequences, FiniteSets

Precedes(key, i, j) == key[i] < key[j] \/ (key[i] = key[j] /\ i < j)
Place(key, i) == 1 + Cardinality({j \in DOMAIN key : Precedes(key, j, i)})
Order(key) == [k \in DOMAIN key |-> CHOOSE i \in DOMAIN key : Place(key, i) = k]
StableSort(s, key) == LET order == Order(key) IN [k \in DOMAIN s |-> s[order[k]]]
=============================================================================
