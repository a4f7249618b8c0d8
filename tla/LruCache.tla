------------------------------ MODULE LruCache -------------------------------
(***************************************************************************)
(* crates/galaxdb-storage/src/buffer_pool/lru_cache.rs: an LRU cache kept  *)
(* as a map of keys to slots of an arena, the slots linked into a list     *)
(* from the most to the least recently used, freed slots recycled.         *)
(* Slots are numbered from 1 here; 0 is None.                              *)
(***************************************************************************)
EXTENDS Naturals, Sequences, FiniteSets

CONSTANTS LruKeys, LruCapacity

ASSUME LruConstants == LruCapacity \in Nat \ {0}

VARIABLES
    lru         \* [map, slots, free, head, tail]

FreeSlot == [key |-> {}, prev |-> 0, next |-> 0]
LruNew == [map |-> <<>>, slots |-> <<>>, free |-> <<>>, head |-> 0, tail |-> 0]

LruInit == lru = LruNew

----------------------------------------------------------------------------
(* The list operations, from one cache to the next                         *)

Unlink(c, i) ==
    LET p == c.slots[i].prev  n == c.slots[i].next
    IN  [map |-> c.map, free |-> c.free,
         head |-> IF p = 0 THEN n ELSE c.head, tail |-> IF n = 0 THEN p ELSE c.tail,
         slots |-> [j \in DOMAIN c.slots |->
             [key |-> c.slots[j].key,
              next |-> IF j = i THEN 0 ELSE IF j = p THEN n ELSE c.slots[j].next,
              prev |-> IF j = i THEN 0 ELSE IF j = n THEN p ELSE c.slots[j].prev]]]

PushHead(c, i) ==
    [map |-> c.map, free |-> c.free, head |-> i, tail |-> IF c.tail = 0 THEN i ELSE c.tail,
     slots |-> [j \in DOMAIN c.slots |->
         [key |-> c.slots[j].key,
          next |-> IF j = i THEN c.head ELSE c.slots[j].next,
          prev |-> IF j = i THEN 0 ELSE IF j = c.head THEN i ELSE c.slots[j].prev]]]

MoveToHead(c, i) == IF c.head = i THEN c ELSE PushHead(Unlink(c, i), i)

AllocIndex(c) == IF c.free # <<>> THEN c.free[Len(c.free)] ELSE Len(c.slots) + 1
AllocNode(c, k) ==
    LET n == [FreeSlot EXCEPT !.key = {k}]
    IN  IF c.free # <<>>
        THEN [c EXCEPT !.slots[AllocIndex(c)] = n, !.free = SubSeq(@, 1, Len(@) - 1)]
        ELSE [c EXCEPT !.slots = Append(@, n)]

TakeNode(c, i) == [c EXCEPT !.slots[i] = FreeSlot, !.free = Append(@, i)]

Forget(c, k) == [c EXCEPT !.map = [j \in DOMAIN c.map \ {k} |-> c.map[j]]]

RemoveSlot(c, k, i) == TakeNode(Unlink(Forget(c, k), i), i)

EvictHead(c) ==
    IF c.head = 0 THEN c
    ELSE RemoveSlot(c, CHOOSE k \in c.slots[c.head].key : TRUE, c.head)

EvictLru(c) ==
    IF c.tail = 0 THEN c
    ELSE RemoveSlot(c, CHOOSE k \in c.slots[c.tail].key : TRUE, c.tail)

----------------------------------------------------------------------------
(* The operations of the cache                                             *)

LruGet(k) ==
    /\ k \in DOMAIN lru.map
    /\ lru' = MoveToHead(lru, lru.map[k])

LruPut(k) ==
    IF k \in DOMAIN lru.map THEN lru' = MoveToHead(lru, lru.map[k])
    ELSE LET c == IF Cardinality(DOMAIN lru.map) >= LruCapacity THEN EvictLru(lru) ELSE lru
             i == AllocIndex(c)
             d == PushHead(AllocNode(c, k), i)
         IN  lru' = [d EXCEPT !.map = [j \in DOMAIN @ \cup {k} |-> IF j = k THEN i ELSE @[j]]]

LruRemove(k) ==
    /\ k \in DOMAIN lru.map
    /\ lru' = RemoveSlot(lru, k, lru.map[k])

LruNext == \E k \in LruKeys : LruGet(k) \/ LruPut(k) \/ LruRemove(k)
LruSpec == LruInit /\ [][LruNext]_lru

----------------------------------------------------------------------------
(* Properties                                                              *)

\* lru_tail_keys: the slots met from the tail along prev, as far as there are
\* slots to meet and one more, which shows a cycle; and the keys of at most n
\* of them.
Walk(c) ==
    LET at[i \in 1 .. Len(c.slots) + 1] == IF i = 1 THEN c.tail
                                           ELSE IF at[i-1] = 0 THEN 0 ELSE c.slots[at[i-1]].prev
    IN  at
TailKeys(c, n) ==
    LET at == Walk(c)
        len == Cardinality({i \in DOMAIN at : i <= n /\ at[i] # 0})
    IN  [i \in 1 .. len |-> CHOOSE k \in c.slots[at[i]].key : TRUE]

UseOrder(c) ==
    LET t == TailKeys(c, LruCapacity + 1) IN [i \in 1 .. Len(t) |-> t[Len(t) + 1 - i]]

Abstract == INSTANCE LruList WITH order <- UseOrder(lru)

\* The linked list, its map and its free list behave as the keys in order of
\* use: the walk from the tail that eviction sampling makes is that order,
\* and what get, put, remove and eviction do to it is what an LRU cache does.
LruRefines == Abstract!LruListSpec

============================================================================
