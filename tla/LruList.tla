------------------------------- MODULE LruList -------------------------------
(***************************************************************************)
(* What an LRU cache promises: its keys in order of use, the most recent   *)
(* first, never more than its capacity, the least recent one evicted.      *)
(***************************************************************************)
EXTENDS Naturals, Sequences

CONSTANTS LruKeys, LruCapacity

VARIABLE order

LruListInit == order = <<>>

Without(s, i) == [j \in 1 .. Len(s) - 1 |-> IF j < i THEN s[j] ELSE s[j + 1]]

Use(k) == \E i \in DOMAIN order : order[i] = k /\ order' = <<k>> \o Without(order, i)
Add(k) ==
    /\ \A i \in DOMAIN order : order[i] # k
    /\ order' = <<k>> \o (IF Len(order) < LruCapacity THEN order ELSE Without(order, Len(order)))
Drop(k) == \E i \in DOMAIN order : order[i] = k /\ order' = Without(order, i)

LruListNext == \E k \in LruKeys : Use(k) \/ Add(k) \/ Drop(k)
LruListSpec == LruListInit /\ [][LruListNext]_order

============================================================================
