----------------------------- MODULE LruProofs ------------------------------
(***************************************************************************)
(* Proofs about the LRU cache, for any set of keys and any capacity: its   *)
(* arena of linked slots, its map and its free list behave as a list of the*)
(* keys in order of use.                                                   *)
(***************************************************************************)
EXTENDS LruCache, FiniteSetTheorems, TLAPS

\* A slot of the arena: no key or one, and the indices of its neighbours; an
\* arena, a list of free slots, the map of keys to slots, and the cache.
Slot == [key : SUBSET LruKeys, prev : Nat, next : Nat]
Maps == UNION {[S -> Nat] : S \in SUBSET LruKeys}
Arenas == Seq(Slot)
Frees == Seq(Nat)
Caches == [map : Maps, slots : Arenas, free : Frees, head : Nat, tail : Nat]

\* The list is the n slots of s, from head to tail.
Linked(c, s, n) ==
    /\ s \in [1 .. n -> DOMAIN c.slots]
    /\ \A i, j \in 1 .. n : s[i] = s[j] => i = j
    /\ c.head = IF n = 0 THEN 0 ELSE s[1]
    /\ c.tail = IF n = 0 THEN 0 ELSE s[n]
    /\ \A i \in 1 .. n :
          /\ c.slots[s[i]].prev = IF i = 1 THEN 0 ELSE s[i - 1]
          /\ c.slots[s[i]].next = IF i = n THEN 0 ELSE s[i + 1]

\* The list without its element i, and with a new head.
Out(s, n, i) == [j \in 1 .. n - 1 |-> IF j < i THEN s[j] ELSE s[j + 1]]
In(s, n, x) == [j \in 1 .. n + 1 |-> IF j = 1 THEN x ELSE s[j - 1]]

\* An arena is a function on 1 .. m.
LEMMA ArenaIs ==
    ASSUME NEW a
    PROVE  a \in Arenas <=> \E m \in Nat : a \in [1 .. m -> Slot]
BY DEF Arenas

\* No slot has index 0, which stands for no slot.
LEMMA SlotIndex ==
    ASSUME NEW c \in Caches, NEW j \in DOMAIN c.slots
    PROVE  j \in Nat \ {0} /\ c.slots[j] \in Slot
<1>1. PICK m \in Nat : c.slots \in [1 .. m -> Slot]
  BY ArenaIs, Zenon DEF Caches
<1>2. QED
  BY <1>1

\* unlink, field by field.
LEMMA UnlinkIs ==
    ASSUME NEW c \in Caches, NEW i \in DOMAIN c.slots
    PROVE  /\ Unlink(c, i) \in Caches
           /\ Unlink(c, i).map = c.map
           /\ Unlink(c, i).free = c.free
           /\ Unlink(c, i).head = IF c.slots[i].prev = 0 THEN c.slots[i].next ELSE c.head
           /\ Unlink(c, i).tail = IF c.slots[i].next = 0 THEN c.slots[i].prev ELSE c.tail
           /\ DOMAIN Unlink(c, i).slots = DOMAIN c.slots
           /\ \A j \in DOMAIN c.slots :
                 /\ Unlink(c, i).slots[j].key = c.slots[j].key
                 /\ Unlink(c, i).slots[j].next =
                       IF j = i THEN 0 ELSE IF j = c.slots[i].prev THEN c.slots[i].next
                       ELSE c.slots[j].next
                 /\ Unlink(c, i).slots[j].prev =
                       IF j = i THEN 0 ELSE IF j = c.slots[i].next THEN c.slots[i].prev
                       ELSE c.slots[j].prev
<1> DEFINE p == c.slots[i].prev
           n == c.slots[i].next
           u == Unlink(c, i)
           new == u.slots
<1>1. /\ u.map = c.map /\ u.free = c.free
      /\ u.head = IF p = 0 THEN n ELSE c.head
      /\ u.tail = IF n = 0 THEN p ELSE c.tail
      /\ new = [j \in DOMAIN c.slots |->
                  [key |-> c.slots[j].key,
                   next |-> IF j = i THEN 0 ELSE IF j = p THEN n ELSE c.slots[j].next,
                   prev |-> IF j = i THEN 0 ELSE IF j = n THEN p ELSE c.slots[j].prev]]
  BY Zenon DEF Unlink
<1>2. u = [map |-> u.map, slots |-> new, free |-> u.free, head |-> u.head, tail |-> u.tail]
  BY Zenon DEF Unlink
<1> HIDE DEF u
<1>3. PICK m \in Nat : c.slots \in [1 .. m -> Slot]
  BY ArenaIs, Zenon DEF Caches
<1>4. DOMAIN new = DOMAIN c.slots /\ DOMAIN c.slots = 1 .. m
  BY <1>1, <1>3, Zenon
<1>5. p \in Nat /\ n \in Nat
  BY <1>3, Zenon DEF Slot
<1> HIDE DEF p, n
<1>6. ASSUME NEW j \in DOMAIN c.slots
      PROVE  /\ new[j].key = c.slots[j].key
             /\ new[j].next = IF j = i THEN 0 ELSE IF j = p THEN n ELSE c.slots[j].next
             /\ new[j].prev = IF j = i THEN 0 ELSE IF j = n THEN p ELSE c.slots[j].prev
             /\ new[j] \in Slot
  <2>1. c.slots[j] \in Slot
    BY <1>3, Zenon
  <2>2. new[j] = [key |-> c.slots[j].key,
                  next |-> IF j = i THEN 0 ELSE IF j = p THEN n ELSE c.slots[j].next,
                  prev |-> IF j = i THEN 0 ELSE IF j = n THEN p ELSE c.slots[j].prev]
    BY <1>1, Zenon
  <2>3. QED
    BY <1>5, <2>1, <2>2 DEF Slot
<1>7. new \in Arenas
  <2>1. new \in [1 .. m -> Slot]
    BY <1>1, <1>4, <1>6, Zenon
  <2>2. QED
    BY <1>3, <2>1, ArenaIs, Zenon
<1>8. u \in Caches
  BY <1>1, <1>2, <1>5, <1>7, Zenon DEF Caches
<1>9. QED
  BY <1>1, <1>4, <1>6, <1>8, Zenon DEF p, n, u

\* push_head, field by field.
LEMMA PushHeadIs ==
    ASSUME NEW c \in Caches, NEW i \in DOMAIN c.slots
    PROVE  /\ PushHead(c, i) \in Caches
           /\ PushHead(c, i).map = c.map
           /\ PushHead(c, i).free = c.free
           /\ PushHead(c, i).head = i
           /\ PushHead(c, i).tail = IF c.tail = 0 THEN i ELSE c.tail
           /\ DOMAIN PushHead(c, i).slots = DOMAIN c.slots
           /\ \A j \in DOMAIN c.slots :
                 /\ PushHead(c, i).slots[j].key = c.slots[j].key
                 /\ PushHead(c, i).slots[j].next = IF j = i THEN c.head ELSE c.slots[j].next
                 /\ PushHead(c, i).slots[j].prev =
                       IF j = i THEN 0 ELSE IF j = c.head THEN i ELSE c.slots[j].prev
<1> DEFINE u == PushHead(c, i)
           new == u.slots
<1>1. /\ u.map = c.map /\ u.free = c.free /\ u.head = i
      /\ u.tail = IF c.tail = 0 THEN i ELSE c.tail
      /\ new = [j \in DOMAIN c.slots |->
                  [key |-> c.slots[j].key,
                   next |-> IF j = i THEN c.head ELSE c.slots[j].next,
                   prev |-> IF j = i THEN 0 ELSE IF j = c.head THEN i ELSE c.slots[j].prev]]
  BY Zenon DEF PushHead
<1>2. u = [map |-> u.map, slots |-> new, free |-> u.free, head |-> u.head, tail |-> u.tail]
  BY Zenon DEF PushHead
<1> HIDE DEF u
<1>3. PICK m \in Nat : c.slots \in [1 .. m -> Slot]
  BY ArenaIs, Zenon DEF Caches
<1>4. DOMAIN new = DOMAIN c.slots /\ DOMAIN c.slots = 1 .. m
  BY <1>1, <1>3, Zenon
<1>5. c.head \in Nat /\ i \in Nat
  BY <1>3 DEF Caches
<1>6. ASSUME NEW j \in DOMAIN c.slots
      PROVE  /\ new[j].key = c.slots[j].key
             /\ new[j].next = IF j = i THEN c.head ELSE c.slots[j].next
             /\ new[j].prev = IF j = i THEN 0 ELSE IF j = c.head THEN i ELSE c.slots[j].prev
             /\ new[j] \in Slot
  <2>1. c.slots[j] \in Slot
    BY <1>3, Zenon
  <2>2. new[j] = [key |-> c.slots[j].key,
                  next |-> IF j = i THEN c.head ELSE c.slots[j].next,
                  prev |-> IF j = i THEN 0 ELSE IF j = c.head THEN i ELSE c.slots[j].prev]
    BY <1>1, Zenon
  <2>3. QED
    BY <1>5, <2>1, <2>2 DEF Slot
<1>7. new \in Arenas
  <2>1. new \in [1 .. m -> Slot]
    BY <1>1, <1>4, <1>6, Zenon
  <2>2. QED
    BY <1>3, <2>1, ArenaIs, Zenon
<1>8. u \in Caches
  BY <1>1, <1>2, <1>5, <1>7, Zenon DEF Caches
<1>9. QED
  BY <1>1, <1>4, <1>6, <1>8, Zenon DEF u

\* What unlinking the slot at i leaves of the list.
LEMMA UnlinkLinked ==
    ASSUME NEW c \in Caches, NEW n \in Nat, NEW s, Linked(c, s, n), NEW i \in 1 .. n
    PROVE  /\ Linked(Unlink(c, s[i]), Out(s, n, i), n - 1)
           /\ \A j \in 1 .. n - 1 : Out(s, n, i)[j] # s[i]
<1> DEFINE u == Unlink(c, s[i])
           r == Out(s, n, i)
           p == c.slots[s[i]].prev
           q == c.slots[s[i]].next
<1>1. s[i] \in DOMAIN c.slots
  BY Zenon DEF Linked
<1>2. \A j \in 1 .. n - 1 : r[j] = IF j < i THEN s[j] ELSE s[j + 1]
  BY Zenon DEF Out
<1>3. /\ u.head = IF p = 0 THEN q ELSE c.head
      /\ u.tail = IF q = 0 THEN p ELSE c.tail
      /\ DOMAIN u.slots = DOMAIN c.slots
      /\ \A j \in DOMAIN c.slots :
            /\ u.slots[j].next = IF j = s[i] THEN 0 ELSE IF j = p THEN q ELSE c.slots[j].next
            /\ u.slots[j].prev = IF j = s[i] THEN 0 ELSE IF j = q THEN p ELSE c.slots[j].prev
  BY <1>1, UnlinkIs
<1>4. p = (IF i = 1 THEN 0 ELSE s[i - 1]) /\ q = (IF i = n THEN 0 ELSE s[i + 1])
  BY Zenon DEF Linked
<1>5. /\ \A j \in 1 .. n : s[j] \in DOMAIN c.slots /\ s[j] # 0
      /\ \A j, k \in 1 .. n : s[j] = s[k] => j = k
      /\ c.head = s[1] /\ c.tail = s[n]
  BY SlotIndex DEF Linked
<1>6. r \in [1 .. n - 1 -> DOMAIN c.slots]
  <2>1. \A j \in 1 .. n - 1 : r[j] \in DOMAIN c.slots
    BY <1>2, <1>5
  <2>2. QED
    BY <2>1, Zenon DEF Out
<1> HIDE DEF u, r, p, q
<1>7. \A j \in 1 .. n - 1 : r[j] # s[i]
  BY <1>2, <1>5
<1>8. \A j, k \in 1 .. n - 1 : r[j] = r[k] => j = k
  BY <1>2, <1>5
<1>9. u.head = IF n - 1 = 0 THEN 0 ELSE r[1]
  BY <1>2, <1>3, <1>4, <1>5
<1>10. u.tail = IF n - 1 = 0 THEN 0 ELSE r[n - 1]
  BY <1>2, <1>3, <1>4, <1>5
<1>11. ASSUME NEW j \in 1 .. n - 1
       PROVE  /\ u.slots[r[j]].prev = IF j = 1 THEN 0 ELSE r[j - 1]
              /\ u.slots[r[j]].next = IF j = n - 1 THEN 0 ELSE r[j + 1]
  <2>1. PICK k \in 1 .. n : k = (IF j < i THEN j ELSE j + 1) /\ r[j] = s[k] /\ k # i
    BY <1>2
  <2>2. /\ c.slots[s[k]].prev = IF k = 1 THEN 0 ELSE s[k - 1]
        /\ c.slots[s[k]].next = IF k = n THEN 0 ELSE s[k + 1]
    BY Zenon DEF Linked
  <2>3. s[k] \in DOMAIN c.slots /\ s[k] # s[i]
    BY <1>5, <2>1, Zenon
  <2>4. u.slots[s[k]].prev = IF k = i + 1 THEN p ELSE c.slots[s[k]].prev
    BY <1>3, <1>4, <1>5, <2>3
  <2>5. u.slots[s[k]].next = IF k = i - 1 THEN q ELSE c.slots[s[k]].next
    BY <1>3, <1>4, <1>5, <2>3
  <2>6. QED
    BY <1>2, <1>4, <2>1, <2>2, <2>4, <2>5
<1>12. QED
  BY <1>3, <1>6, <1>7, <1>8, <1>9, <1>10, <1>11, Zenon DEF Linked, u, r

\* What pushing a slot that is not of the list makes of it.
LEMMA PushLinked ==
    ASSUME NEW c \in Caches, NEW n \in Nat, NEW s, Linked(c, s, n), NEW x \in DOMAIN c.slots,
           \A i \in 1 .. n : s[i] # x
    PROVE  Linked(PushHead(c, x), In(s, n, x), n + 1)
<1> DEFINE u == PushHead(c, x)
           r == In(s, n, x)
<1>1. x # 0
  BY SlotIndex, Zenon
<1>2. \A j \in 1 .. n + 1 : r[j] = IF j = 1 THEN x ELSE s[j - 1]
  BY Zenon DEF In
<1>3. /\ u.head = x
      /\ u.tail = IF c.tail = 0 THEN x ELSE c.tail
      /\ DOMAIN u.slots = DOMAIN c.slots
      /\ \A j \in DOMAIN c.slots :
            /\ u.slots[j].next = IF j = x THEN c.head ELSE c.slots[j].next
            /\ u.slots[j].prev = IF j = x THEN 0 ELSE IF j = c.head THEN x ELSE c.slots[j].prev
  BY PushHeadIs
<1>4. /\ \A j \in 1 .. n : s[j] \in DOMAIN c.slots /\ s[j] # 0
      /\ \A j, k \in 1 .. n : s[j] = s[k] => j = k
      /\ c.head = IF n = 0 THEN 0 ELSE s[1]
      /\ c.tail = IF n = 0 THEN 0 ELSE s[n]
  BY SlotIndex, Zenon DEF Linked
<1>5. r \in [1 .. n + 1 -> DOMAIN c.slots]
  <2>1. \A j \in 1 .. n + 1 : r[j] \in DOMAIN c.slots
    BY <1>2, <1>4
  <2>2. QED
    BY <2>1, Zenon DEF In
<1> HIDE DEF u, r
<1>6. \A j, k \in 1 .. n + 1 : r[j] = r[k] => j = k
  BY <1>2, <1>4
<1>7. u.tail = r[n + 1] /\ u.head = r[1]
  BY <1>2, <1>3, <1>4
<1>8. ASSUME NEW j \in 1 .. n + 1
      PROVE  /\ u.slots[r[j]].prev = IF j = 1 THEN 0 ELSE r[j - 1]
             /\ u.slots[r[j]].next = IF j = n + 1 THEN 0 ELSE r[j + 1]
  <2>1. CASE j = 1
    BY <1>2, <1>3, <1>4, <2>1
  <2>2. CASE j # 1
    <3>1. PICK k \in 1 .. n : k = j - 1 /\ r[j] = s[k]
      BY <1>2, <2>2
    <3>2. /\ c.slots[s[k]].prev = IF k = 1 THEN 0 ELSE s[k - 1]
          /\ c.slots[s[k]].next = IF k = n THEN 0 ELSE s[k + 1]
      BY Zenon DEF Linked
    <3>3. /\ u.slots[s[k]].next = c.slots[s[k]].next
          /\ u.slots[s[k]].prev = IF k = 1 THEN x ELSE c.slots[s[k]].prev
      BY <1>3, <1>4
    <3>4. QED
      BY <1>2, <3>1, <3>2, <3>3
  <2>3. QED
    BY <2>1, <2>2, Zenon
<1>9. n + 1 # 0
  OBVIOUS
<1>10. QED
  BY <1>3, <1>5, <1>6, <1>7, <1>8, <1>9, Zenon DEF Linked, u, r

\* The cache holds the keys q, the slots s in the same order.
Keyed(c, s, q, n) ==
    /\ q \in [1 .. n -> LruKeys]
    /\ \A i, j \in 1 .. n : q[i] = q[j] => i = j
    /\ \A i \in 1 .. n : c.slots[s[i]].key = {q[i]}

\* The map sends every key to its slot.
Mapped(c, s, q, n) ==
    /\ DOMAIN c.map = {q[i] : i \in 1 .. n}
    /\ \A i \in 1 .. n : c.map[q[i]] = s[i]

\* The free list has no slot twice, and none of the list.
Spare(c, s, n) ==
    /\ \A f \in DOMAIN c.free : c.free[f] \in DOMAIN c.slots /\ \A i \in 1 .. n : s[i] # c.free[f]
    /\ \A f, g \in DOMAIN c.free : c.free[f] = c.free[g] => f = g

\* A set of naturals has a least element.
LEMMA LeastNatural ==
    ASSUME NEW D \in SUBSET Nat, D # {}
    PROVE  \E d \in D : \A e \in D : d <= e
<1>1. PICK d \in D : \A e \in D : <<e, d>> \notin OpToRel(<, Nat)
  BY NatLessThanWellFounded, WFMin, Zenon
<1>2. \A e \in D : ~(e < d)
  BY <1>1, Zenon DEF OpToRel
<1>3. QED
  BY <1>2

\* The walk from the tail along prev meets the slots of the list, last first.
LEMMA WalkIs ==
    ASSUME NEW c \in Caches, NEW n \in Nat, NEW s, Linked(c, s, n), NEW m \in Nat,
           Len(c.slots) = m
    PROVE  Walk(c) = [i \in 1 .. m + 1 |-> IF i <= n THEN s[n + 1 - i] ELSE 0]
<1> DEFINE D == 1 .. m + 1
           w == [i \in D |-> IF i <= n THEN s[n + 1 - i] ELSE 0]
           Rec(f) == [i \in D |-> IF i = 1 THEN c.tail
                                  ELSE IF f[i - 1] = 0 THEN 0 ELSE c.slots[f[i - 1]].prev]
<1>1. Walk(c) = CHOOSE f : f = Rec(f)
  BY Zenon DEF Walk
<1>2. DOMAIN c.slots = 1 .. m
  <2>1. c.slots \in Seq(Slot)
    BY Zenon DEF Caches, Arenas
  <2>2. QED
    BY <2>1
<1>3. n <= m
  <2>1. s \in Injection(1 .. n, 1 .. m)
    BY <1>2, Zenon DEF Linked, Injection, IsInjective
  <2>2. IsFiniteSet(1 .. m) /\ Cardinality(1 .. m) = m /\ Cardinality(1 .. n) = n
    BY FS_Interval
  <2>3. Cardinality(1 .. n) <= Cardinality(1 .. m)
    BY <2>1, <2>2, FS_Injection, Zenon
  <2>4. QED
    BY <2>2, <2>3, Zenon
<1>4. /\ c.tail = IF n = 0 THEN 0 ELSE s[n]
      /\ \A i \in 1 .. n : s[i] # 0 /\ c.slots[s[i]].prev = IF i = 1 THEN 0 ELSE s[i - 1]
  BY SlotIndex, Zenon DEF Linked
<1>5. \A i \in D : w[i] = IF i <= n THEN s[n + 1 - i] ELSE 0
  BY Zenon
<1>6. \A i \in D : w[i] = IF i = 1 THEN c.tail
                          ELSE IF w[i - 1] = 0 THEN 0 ELSE c.slots[w[i - 1]].prev
  <2> SUFFICES ASSUME NEW i \in D
               PROVE  w[i] = IF i = 1 THEN c.tail
                             ELSE IF w[i - 1] = 0 THEN 0 ELSE c.slots[w[i - 1]].prev
    BY Zenon
  <2> HIDE DEF w
  <2>1. CASE i = 1
    BY <1>4, <1>5, <2>1
  <2>2. CASE i # 1 /\ i - 1 <= n
    <3>1. w[i - 1] = s[n + 2 - i]
      BY <1>5, <2>2
    <3>2. n + 2 - i \in 1 .. n
      BY <2>2
    <3>3. w[i - 1] # 0 /\ c.slots[w[i - 1]].prev = IF n + 2 - i = 1 THEN 0 ELSE s[n + 1 - i]
      BY <1>4, <3>1, <3>2
    <3>4. QED
      BY <1>5, <2>2, <3>3
  <2>3. CASE i # 1 /\ ~(i - 1 <= n)
    BY <1>5, <2>3
  <2>4. QED
    BY <2>1, <2>2, <2>3, Zenon
<1>7. w = Rec(w)
  BY <1>6, Zenon
<1>8. PICK f : f = Walk(c) /\ f = Rec(f)
  <2> HIDE DEF w, Rec
  <2>1. \E f : f = Rec(f)
    BY <1>7, Zenon
  <2>2. QED
    BY <1>1, <2>1, Zenon
<1>9. /\ \A i \in D : f[i] = IF i = 1 THEN c.tail
                            ELSE IF f[i - 1] = 0 THEN 0 ELSE c.slots[f[i - 1]].prev
      /\ f = [i \in D |-> f[i]]
  BY <1>8, Zenon
<1> HIDE DEF w
<1>10. \A i \in D : f[i] = w[i]
  <2> DEFINE Bad == {i \in D : f[i] # w[i]}
  <2>1. SUFFICES ASSUME Bad # {} PROVE FALSE
    BY Zenon
  <2>2. Bad \subseteq Nat
    OBVIOUS
  <2>3. PICK d \in Bad : \A e \in Bad : d <= e
    BY <2>1, <2>2, LeastNatural, Zenon
  <2>4. d \in D /\ f[d] # w[d]
    BY Zenon
  <2>5. d # 1 => d - 1 \in D /\ d - 1 \notin Bad
    BY <2>3, <2>4
  <2>6. d # 1 => f[d - 1] = w[d - 1]
    BY <2>5, Zenon
  <2>7. /\ f[d] = IF d = 1 THEN c.tail
                 ELSE IF f[d - 1] = 0 THEN 0 ELSE c.slots[f[d - 1]].prev
        /\ w[d] = IF d = 1 THEN c.tail
                 ELSE IF w[d - 1] = 0 THEN 0 ELSE c.slots[w[d - 1]].prev
    BY <1>6, <1>9, <2>4, Zenon
  <2>8. QED
    BY <2>4, <2>6, <2>7, Zenon
<1>11. f = w
  BY <1>9, <1>10, Zenon DEF w
<1>12. QED
  BY <1>8, <1>11, Zenon DEF w

\* The order of use that the walk finds is the order of the list.
LEMMA OrderIs ==
    ASSUME NEW c \in Caches, NEW n \in Nat, n <= LruCapacity, NEW s, Linked(c, s, n),
           NEW q, Keyed(c, s, q, n)
    PROVE  UseOrder(c) = q
<1> DEFINE m == Len(c.slots)
           at == Walk(c)
           t == TailKeys(c, LruCapacity + 1)
<1>1. m \in Nat /\ DOMAIN c.slots = 1 .. m
  <2>1. c.slots \in Seq(Slot)
    BY Zenon DEF Caches, Arenas
  <2>2. QED
    BY <2>1
<1> HIDE DEF m
<1>2. at = [i \in 1 .. m + 1 |-> IF i <= n THEN s[n + 1 - i] ELSE 0]
  BY <1>1, WalkIs DEF m
<1> HIDE DEF at
<1>3. \A i \in 1 .. n : s[i] # 0 /\ c.slots[s[i]].key = {q[i]}
  BY SlotIndex, Zenon DEF Linked, Keyed
<1>4. n <= m
  <2>1. s \in Injection(1 .. n, 1 .. m)
    BY <1>1, Zenon DEF Linked, Injection, IsInjective
  <2>2. IsFiniteSet(1 .. m) /\ Cardinality(1 .. m) = m /\ Cardinality(1 .. n) = n
    BY <1>1, FS_Interval
  <2>3. Cardinality(1 .. n) <= Cardinality(1 .. m)
    BY <2>1, <2>2, FS_Injection, Zenon
  <2>4. QED
    BY <2>2, <2>3, Zenon
<1>5. {i \in DOMAIN at : i <= LruCapacity + 1 /\ at[i] # 0} = 1 .. n
  <2>1. DOMAIN at = 1 .. m + 1 /\ \A i \in 1 .. m + 1 : at[i] # 0 <=> i <= n
    BY <1>1, <1>2, <1>3
  <2>2. QED
    BY <1>1, <1>4, <2>1, LruConstants
<1>6. Cardinality(1 .. n) = n
  BY FS_Interval
<1>7. t = [i \in 1 .. n |-> CHOOSE k \in c.slots[at[i]].key : TRUE]
  BY <1>5, <1>6, Zenon DEF TailKeys, at
<1>8. \A i \in 1 .. n : c.slots[at[i]].key = {q[n + 1 - i]}
  <2> SUFFICES ASSUME NEW i \in 1 .. n
               PROVE  c.slots[at[i]].key = {q[n + 1 - i]}
    BY Zenon
  <2>1. n + 1 - i \in 1 .. n /\ i \in 1 .. m + 1 /\ i <= n
    BY <1>1, <1>4
  <2>2. at[i] = s[n + 1 - i]
    BY <1>2, <2>1, Zenon
  <2>3. QED
    BY <1>3, <2>1, <2>2, Zenon
<1>9. \A i \in 1 .. n : t[i] = q[n + 1 - i]
  <2>1. \A x : (CHOOSE k \in {x} : TRUE) = x
    BY Zenon
  <2>2. QED
    BY <1>7, <1>8, <2>1, Zenon
<1>10. Len(t) = n
  BY <1>7
<1> HIDE DEF t
<1>11. UseOrder(c) = [i \in 1 .. n |-> t[n + 1 - i]]
  BY <1>10, Zenon DEF UseOrder, t
<1>12. \A i \in 1 .. n : t[n + 1 - i] = q[i]
  BY <1>9
<1>13. q = [i \in 1 .. n |-> q[i]]
  BY Zenon DEF Keyed
<1>14. QED
  BY <1>11, <1>12, <1>13, Zenon

\* The cache c is the list q of n keys, in the slots s.
Holds(c, s, q, n) ==
    /\ c \in Caches
    /\ Linked(c, s, n)
    /\ Keyed(c, s, q, n)
    /\ Mapped(c, s, q, n)
    /\ Spare(c, s, n)

\* n distinct elements of S; r without the one at i, and r with x before them.
Distinct(q, n, S) ==
    /\ n \in Nat /\ q \in [1 .. n -> S]
    /\ \A i, j \in 1 .. n : q[i] = q[j] => i = j
Shorter(r, q, n, i) ==
    /\ \A j \in 1 .. n - 1 : r[j] = IF j < i THEN q[j] ELSE q[j + 1]
    /\ \A j \in 1 .. n - 1 : r[j] # q[i]
    /\ {r[j] : j \in 1 .. n - 1} = {q[j] : j \in 1 .. n} \ {q[i]}
Longer(r, q, n, x) ==
    /\ \A j \in 1 .. n + 1 : r[j] = IF j = 1 THEN x ELSE q[j - 1]
    /\ {r[j] : j \in 1 .. n + 1} = {q[j] : j \in 1 .. n} \cup {x}

\* A list without one of its elements.
LEMMA OutIs ==
    ASSUME NEW n, NEW S, NEW q, Distinct(q, n, S), NEW i \in 1 .. n
    PROVE  Distinct(Out(q, n, i), n - 1, S) /\ Shorter(Out(q, n, i), q, n, i)
<1> DEFINE r == Out(q, n, i)
<1> USE DEF Distinct
<1>1. \A j \in 1 .. n - 1 : r[j] = IF j < i THEN q[j] ELSE q[j + 1]
  BY Zenon DEF Out
<1>2. r \in [1 .. n - 1 -> S]
  <2>1. \A j \in 1 .. n - 1 : r[j] \in S
    BY <1>1
  <2>2. QED
    BY <2>1, Zenon DEF Out
<1> HIDE DEF r
<1>3. \A j, k \in 1 .. n - 1 : r[j] = r[k] => j = k
  BY <1>1
<1>4. \A j \in 1 .. n - 1 : r[j] # q[i]
  BY <1>1
<1>5. \A j \in 1 .. n : j # i => \E k \in 1 .. n - 1 : r[k] = q[j]
  <2> SUFFICES ASSUME NEW j \in 1 .. n, j # i
               PROVE  \E k \in 1 .. n - 1 : r[k] = q[j]
    BY Zenon
  <2>1. CASE j < i
    <3>1. j \in 1 .. n - 1 /\ r[j] = q[j]
      BY <1>1, <2>1
    <3>2. QED
      BY <3>1, Zenon
  <2>2. CASE j > i
    <3>1. j - 1 \in 1 .. n - 1 /\ r[j - 1] = q[j]
      BY <1>1, <2>2
    <3>2. QED
      BY <3>1, Zenon
  <2>3. QED
    BY <2>1, <2>2
<1>6. \A j \in 1 .. n - 1 : \E k \in 1 .. n : r[j] = q[k]
  <2> SUFFICES ASSUME NEW j \in 1 .. n - 1
               PROVE  \E k \in 1 .. n : r[j] = q[k]
    BY Zenon
  <2>1. PICK k \in 1 .. n : k = IF j < i THEN j ELSE j + 1
    OBVIOUS
  <2>2. r[j] = q[k]
    BY <1>1, <2>1, Zenon
  <2>3. QED
    BY <2>2, Zenon
<1>7. {r[j] : j \in 1 .. n - 1} = {q[j] : j \in 1 .. n} \ {q[i]}
  <2>1. ASSUME NEW y \in {r[j] : j \in 1 .. n - 1} PROVE y \in {q[j] : j \in 1 .. n} \ {q[i]}
    BY <1>4, <1>6, Zenon
  <2>2. ASSUME NEW y \in {q[j] : j \in 1 .. n} \ {q[i]} PROVE y \in {r[j] : j \in 1 .. n - 1}
    <3>1. PICK j \in 1 .. n : y = q[j] /\ j # i
      BY Zenon
    <3>2. QED
      BY <1>5, <3>1, Zenon
  <2>3. QED
    BY <2>1, <2>2, Zenon
<1>8. n - 1 \in Nat
  OBVIOUS
<1>9. QED
  BY <1>1, <1>2, <1>3, <1>4, <1>7, <1>8, Zenon DEF r, Shorter

\* A list with a new head.
LEMMA InIs ==
    ASSUME NEW n, NEW S, NEW q, Distinct(q, n, S), NEW x \in S, \A j \in 1 .. n : q[j] # x
    PROVE  Distinct(In(q, n, x), n + 1, S) /\ Longer(In(q, n, x), q, n, x)
<1> DEFINE r == In(q, n, x)
<1> USE DEF Distinct
<1>1. \A j \in 1 .. n + 1 : r[j] = IF j = 1 THEN x ELSE q[j - 1]
  BY Zenon DEF In
<1>2. r \in [1 .. n + 1 -> S]
  <2>1. \A j \in 1 .. n + 1 : r[j] \in S
    BY <1>1
  <2>2. QED
    BY <2>1, Zenon DEF In
<1> HIDE DEF r
<1>3. \A j, k \in 1 .. n + 1 : r[j] = r[k] => j = k
  BY <1>1
<1>4. r[1] = x /\ 1 \in 1 .. n + 1
  BY <1>1
<1>5. \A j \in 1 .. n : j + 1 \in 1 .. n + 1 /\ r[j + 1] = q[j]
  BY <1>1
<1>6. \A j \in 1 .. n + 1 : r[j] = x \/ \E k \in 1 .. n : r[j] = q[k]
  <2> SUFFICES ASSUME NEW j \in 1 .. n + 1, j # 1
               PROVE  \E k \in 1 .. n : r[j] = q[k]
    BY <1>4, Zenon
  <2>1. j - 1 \in 1 .. n /\ r[j] = q[j - 1]
    BY <1>1
  <2>2. QED
    BY <2>1, Zenon
<1>7. {r[j] : j \in 1 .. n + 1} = {q[j] : j \in 1 .. n} \cup {x}
  <2>1. ASSUME NEW y \in {r[j] : j \in 1 .. n + 1} PROVE y \in {q[j] : j \in 1 .. n} \cup {x}
    BY <1>6
  <2>2. ASSUME NEW y \in {q[j] : j \in 1 .. n} \cup {x} PROVE y \in {r[j] : j \in 1 .. n + 1}
    BY <1>4, <1>5
  <2>3. QED
    BY <2>1, <2>2, Zenon
<1>8. n + 1 \in Nat
  OBVIOUS
<1>9. QED
  BY <1>1, <1>2, <1>3, <1>7, <1>8, Zenon DEF r, Longer

\* The slots, and the keys, of a cache are distinct.
LEMMA AllDistinct ==
    ASSUME NEW c, NEW n \in Nat, NEW s, NEW q, Holds(c, s, q, n)
    PROVE  Distinct(s, n, DOMAIN c.slots) /\ Distinct(q, n, LruKeys)
BY Zenon DEF Holds, Linked, Keyed, Distinct

\* Using the key at i: its slot moves to the head.
LEMMA MoveHolds ==
    ASSUME NEW c, NEW n \in Nat, NEW s, NEW q, Holds(c, s, q, n), NEW i \in 1 .. n
    PROVE  \E r : Holds(MoveToHead(c, s[i]), r, In(Out(q, n, i), n - 1, q[i]), n)
<1> DEFINE o == Out(s, n, i)
           t == In(o, n - 1, s[i])
           p == Out(q, n, i)
           z == In(p, n - 1, q[i])
           u == Unlink(c, s[i])
           v == PushHead(u, s[i])
<1>1. /\ c \in Caches /\ Linked(c, s, n) /\ Keyed(c, s, q, n)
      /\ Mapped(c, s, q, n) /\ Spare(c, s, n)
  BY Zenon DEF Holds
<1>2. s[i] \in DOMAIN c.slots /\ q[i] \in LruKeys /\ n - 1 \in Nat /\ (n - 1) + 1 = n
  BY <1>1 DEF Linked, Keyed
<1>3. Distinct(p, n - 1, LruKeys) /\ Shorter(p, q, n, i)
  BY AllDistinct, OutIs, Zenon
<1>4. Distinct(o, n - 1, DOMAIN c.slots) /\ Shorter(o, s, n, i)
  BY AllDistinct, OutIs, Zenon
<1>5. Distinct(z, (n - 1) + 1, LruKeys) /\ Longer(z, p, n - 1, q[i])
  BY <1>2, <1>3, InIs, Zenon DEF Shorter
<1>6. Distinct(t, (n - 1) + 1, DOMAIN c.slots) /\ Longer(t, o, n - 1, s[i])
  BY <1>2, <1>4, InIs, Zenon DEF Shorter
<1>7. /\ p \in [1 .. n - 1 -> LruKeys] /\ z \in [1 .. n -> LruKeys]
      /\ \A j, k \in 1 .. n : z[j] = z[k] => j = k
      /\ \A j \in 1 .. n - 1 : p[j] = IF j < i THEN q[j] ELSE q[j + 1]
      /\ \A j \in 1 .. n : z[j] = IF j = 1 THEN q[i] ELSE p[j - 1]
  BY <1>2, <1>3, <1>5, Zenon DEF Distinct, Shorter, Longer
<1>8. \A j \in 1 .. n : z[j] = IF j = 1 THEN q[i] ELSE IF j <= i THEN q[j - 1] ELSE q[j]
  BY <1>7
<1>9. /\ \A j \in 1 .. n - 1 : o[j] = IF j < i THEN s[j] ELSE s[j + 1]
      /\ \A j \in 1 .. n : t[j] = IF j = 1 THEN s[i] ELSE o[j - 1]
  BY <1>2, <1>4, <1>6, Zenon DEF Distinct, Shorter, Longer
<1>10. \A j \in 1 .. n : t[j] = IF j = 1 THEN s[i] ELSE IF j <= i THEN s[j - 1] ELSE s[j]
  BY <1>9
<1>11. {z[j] : j \in 1 .. n} = {q[j] : j \in 1 .. n}
  <2>1. /\ {p[j] : j \in 1 .. n - 1} = {q[j] : j \in 1 .. n} \ {q[i]}
        /\ {z[j] : j \in 1 .. n} = {p[j] : j \in 1 .. n - 1} \cup {q[i]}
    BY <1>2, <1>3, <1>5, Zenon DEF Shorter, Longer
  <2>2. q[i] \in {q[j] : j \in 1 .. n}
    BY Zenon
  <2>3. QED
    BY <2>1, <2>2, Zenon
<1>12. \A j \in 1 .. n : \E k \in 1 .. n : z[j] = q[k] /\ t[j] = s[k]
  <2> SUFFICES ASSUME NEW j \in 1 .. n
               PROVE  \E k \in 1 .. n : z[j] = q[k] /\ t[j] = s[k]
    BY Zenon
  <2>1. PICK k \in 1 .. n : k = IF j = 1 THEN i ELSE IF j <= i THEN j - 1 ELSE j
    OBVIOUS
  <2>2. z[j] = q[k] /\ t[j] = s[k]
    BY <1>8, <1>10, <2>1, Zenon
  <2>3. QED
    BY <2>2, Zenon
<1> HIDE DEF o, t, p, z
<1>13. CASE c.head = s[i]
  <2>1. i = 1 /\ MoveToHead(c, s[i]) = c
    BY <1>1, <1>13 DEF Linked, MoveToHead
  <2>2. \A j \in 1 .. n : z[j] = q[j]
    BY <1>8, <2>1
  <2>3. z = q
    BY <1>1, <1>7, <2>2 DEF Keyed
  <2>4. QED
    BY <2>1, <2>3, Zenon DEF p, z
<1>14. CASE c.head # s[i]
  <2>1. MoveToHead(c, s[i]) = v
    BY <1>14, Zenon DEF MoveToHead
  <2>2. /\ u \in Caches /\ u.map = c.map /\ u.free = c.free
        /\ DOMAIN u.slots = DOMAIN c.slots
        /\ \A j \in DOMAIN c.slots : u.slots[j].key = c.slots[j].key
    BY <1>1, <1>2, UnlinkIs
  <2>3. Linked(u, o, n - 1) /\ \A j \in 1 .. n - 1 : o[j] # s[i]
    BY <1>1, UnlinkLinked, Zenon DEF o
  <2> HIDE DEF u
  <2>4. /\ v \in Caches /\ v.map = c.map /\ v.free = c.free
        /\ DOMAIN v.slots = DOMAIN c.slots
        /\ \A j \in DOMAIN c.slots : v.slots[j].key = c.slots[j].key
    BY <1>2, <2>2, PushHeadIs
  <2>5. Linked(v, t, n)
    BY <1>2, <2>2, <2>3, PushLinked, Zenon DEF t
  <2> HIDE DEF v
  <2>6. Keyed(v, t, z, n)
    <3>1. \A j \in 1 .. n : v.slots[t[j]].key = {z[j]}
      <4> SUFFICES ASSUME NEW j \in 1 .. n PROVE v.slots[t[j]].key = {z[j]}
        BY Zenon
      <4>1. PICK k \in 1 .. n : z[j] = q[k] /\ t[j] = s[k]
        BY <1>12, Zenon
      <4>2. s[k] \in DOMAIN c.slots /\ c.slots[s[k]].key = {q[k]}
        BY <1>1, Zenon DEF Keyed, Linked
      <4>3. QED
        BY <2>4, <4>1, <4>2, Zenon
    <3>2. QED
      BY <1>7, <3>1, Zenon DEF Keyed
  <2>7. Mapped(v, t, z, n)
    <3>1. \A j \in 1 .. n : v.map[z[j]] = t[j]
      <4> SUFFICES ASSUME NEW j \in 1 .. n PROVE v.map[z[j]] = t[j]
        BY Zenon
      <4>1. PICK k \in 1 .. n : z[j] = q[k] /\ t[j] = s[k]
        BY <1>12, Zenon
      <4>2. QED
        BY <1>1, <2>4, <4>1, Zenon DEF Mapped
    <3>2. DOMAIN v.map = {z[j] : j \in 1 .. n}
      BY <1>1, <1>11, <2>4, Zenon DEF Mapped
    <3>3. QED
      BY <3>1, <3>2, Zenon DEF Mapped
  <2>8. Spare(v, t, n)
    <3> SUFFICES ASSUME NEW f \in DOMAIN c.free, NEW j \in 1 .. n PROVE t[j] # c.free[f]
      BY <1>1, <2>4, Zenon DEF Spare
    <3>1. PICK k \in 1 .. n : t[j] = s[k]
      BY <1>12, Zenon
    <3>2. QED
      BY <1>1, <3>1, Zenon DEF Spare
  <2>9. Holds(v, t, z, n)
    BY <2>4, <2>5, <2>6, <2>7, <2>8, Zenon DEF Holds
  <2>10. QED
    BY <2>1, <2>9, Zenon DEF p, z
<1>15. QED
  BY <1>13, <1>14, Zenon

\* What Append does to a sequence.
LEMMA AppendIs ==
    ASSUME NEW S, NEW a \in Seq(S), NEW x
    PROVE  /\ DOMAIN a = 1 .. Len(a) /\ DOMAIN Append(a, x) = 1 .. Len(a) + 1
           /\ \A i \in 1 .. Len(a) : Append(a, x)[i] = a[i]
           /\ Append(a, x)[Len(a) + 1] = x
OBVIOUS

\* Removing a key from the map.
LEMMA ForgetIs ==
    ASSUME NEW c \in Caches, NEW k
    PROVE  /\ Forget(c, k) \in Caches
           /\ Forget(c, k).slots = c.slots /\ Forget(c, k).free = c.free
           /\ Forget(c, k).head = c.head /\ Forget(c, k).tail = c.tail
           /\ Forget(c, k).map = [j \in DOMAIN c.map \ {k} |-> c.map[j]]
<1> DEFINE new == [j \in DOMAIN c.map \ {k} |-> c.map[j]]
<1>1. PICK S \in SUBSET LruKeys : c.map \in [S -> Nat]
  BY Zenon DEF Caches, Maps
<1>2. new \in [S \ {k} -> Nat]
  BY <1>1, Zenon
<1>3. new \in Maps
  BY <1>2, Zenon DEF Maps
<1>4. Forget(c, k) = [c EXCEPT !.map = new]
  BY Zenon DEF Forget
<1> HIDE DEF new
<1>5. QED
  BY <1>3, <1>4, Zenon DEF Caches, new

\* Freeing a slot.
LEMMA TakeNodeIs ==
    ASSUME NEW c \in Caches, NEW x \in DOMAIN c.slots
    PROVE  /\ TakeNode(c, x) \in Caches
           /\ TakeNode(c, x).map = c.map
           /\ TakeNode(c, x).head = c.head /\ TakeNode(c, x).tail = c.tail
           /\ DOMAIN TakeNode(c, x).slots = DOMAIN c.slots
           /\ \A j \in DOMAIN c.slots : j # x => TakeNode(c, x).slots[j] = c.slots[j]
           /\ TakeNode(c, x).free = Append(c.free, x)
<1> DEFINE new == [c.slots EXCEPT ![x] = FreeSlot]
<1>1. PICK m \in Nat : c.slots \in [1 .. m -> Slot]
  BY ArenaIs, Zenon DEF Caches
<1>2. FreeSlot \in Slot
  BY Zenon DEF FreeSlot, Slot
<1>3. new \in [1 .. m -> Slot]
  BY <1>1, <1>2, Zenon
<1>4. new \in Arenas
  BY <1>3, ArenaIs, Zenon
<1>5. Append(c.free, x) \in Frees
  BY SlotIndex DEF Caches, Frees
<1>6. TakeNode(c, x) = [c EXCEPT !.slots = new, !.free = Append(c.free, x)]
  BY Zenon DEF TakeNode, Caches
<1>7. DOMAIN new = DOMAIN c.slots /\ \A j \in DOMAIN c.slots : j # x => new[j] = c.slots[j]
  BY Zenon
<1> HIDE DEF new
<1>8. /\ TakeNode(c, x) \in Caches
      /\ TakeNode(c, x).map = c.map
      /\ TakeNode(c, x).head = c.head /\ TakeNode(c, x).tail = c.tail
      /\ TakeNode(c, x).slots = new
      /\ TakeNode(c, x).free = Append(c.free, x)
  BY <1>4, <1>5, <1>6, Zenon DEF Caches
<1>9. QED
  BY <1>7, <1>8, Zenon

\* Removing the key at i.
LEMMA RemoveHolds ==
    ASSUME NEW c, NEW n \in Nat, NEW s, NEW q, Holds(c, s, q, n), NEW i \in 1 .. n
    PROVE  Holds(RemoveSlot(c, q[i], s[i]), Out(s, n, i), Out(q, n, i), n - 1)
<1> DEFINE o == Out(s, n, i)
           p == Out(q, n, i)
           x == s[i]
           f == Forget(c, q[i])
           u == Unlink(f, x)
           d == TakeNode(u, x)
<1>1. /\ c \in Caches /\ Linked(c, s, n) /\ Keyed(c, s, q, n)
      /\ Mapped(c, s, q, n) /\ Spare(c, s, n)
  BY Zenon DEF Holds
<1>2. x \in DOMAIN c.slots /\ n - 1 \in Nat
  BY <1>1 DEF Linked
<1>3. Distinct(p, n - 1, LruKeys) /\ Shorter(p, q, n, i)
  BY AllDistinct, OutIs, Zenon
<1>4. Distinct(o, n - 1, DOMAIN c.slots) /\ Shorter(o, s, n, i)
  BY AllDistinct, OutIs, Zenon
<1>5. \A j \in 1 .. n - 1 : \E k \in 1 .. n : k # i /\ p[j] = q[k] /\ o[j] = s[k]
  <2> SUFFICES ASSUME NEW j \in 1 .. n - 1
               PROVE  \E k \in 1 .. n : k # i /\ p[j] = q[k] /\ o[j] = s[k]
    BY Zenon
  <2>1. PICK k \in 1 .. n : k # i /\ k = IF j < i THEN j ELSE j + 1
    OBVIOUS
  <2>2. /\ p[j] = IF j < i THEN q[j] ELSE q[j + 1]
        /\ o[j] = IF j < i THEN s[j] ELSE s[j + 1]
    BY <1>3, <1>4, Zenon DEF Shorter
  <2>3. QED
    BY <2>1, <2>2, Zenon
<1>6. /\ f \in Caches /\ f.slots = c.slots /\ f.free = c.free
      /\ f.head = c.head /\ f.tail = c.tail
      /\ f.map = [j \in DOMAIN c.map \ {q[i]} |-> c.map[j]]
  BY <1>1, ForgetIs, Zenon
<1> HIDE DEF f
<1>7. Linked(f, s, n)
  BY <1>1, <1>6, Zenon DEF Linked
<1>8. /\ u \in Caches /\ u.map = f.map /\ u.free = c.free
      /\ DOMAIN u.slots = DOMAIN c.slots
      /\ \A j \in DOMAIN c.slots : u.slots[j].key = c.slots[j].key
  BY <1>2, <1>6, UnlinkIs
<1>9. Linked(u, o, n - 1) /\ \A j \in 1 .. n - 1 : o[j] # x
  BY <1>6, <1>7, UnlinkLinked
<1> HIDE DEF u, o, p
<1>10. /\ d \in Caches /\ d.map = f.map /\ d.head = u.head /\ d.tail = u.tail
       /\ DOMAIN d.slots = DOMAIN c.slots
       /\ \A j \in DOMAIN c.slots : j # x => d.slots[j] = u.slots[j]
       /\ d.free = Append(c.free, x)
  BY <1>2, <1>8, TakeNodeIs
<1> HIDE DEF d
<1>11. \A j \in 1 .. n - 1 : o[j] \in DOMAIN c.slots /\ d.slots[o[j]] = u.slots[o[j]]
  BY <1>4, <1>9, <1>10, Zenon DEF Distinct
<1>12. Linked(d, o, n - 1)
  <2>1. \A j \in 1 .. n - 1 :
           /\ d.slots[o[j]].prev = IF j = 1 THEN 0 ELSE o[j - 1]
           /\ d.slots[o[j]].next = IF j = n - 1 THEN 0 ELSE o[j + 1]
    BY <1>9, <1>11 DEF Linked
  <2>2. /\ o \in [1 .. n - 1 -> DOMAIN d.slots]
        /\ \A j, k \in 1 .. n - 1 : o[j] = o[k] => j = k
    BY <1>8, <1>9, <1>10, Zenon DEF Linked
  <2>3. /\ d.head = IF n - 1 = 0 THEN 0 ELSE o[1]
        /\ d.tail = IF n - 1 = 0 THEN 0 ELSE o[n - 1]
    BY <1>9, <1>10, Zenon DEF Linked
  <2>4. QED
    BY <2>1, <2>2, <2>3, Zenon DEF Linked
<1>13. Keyed(d, o, p, n - 1)
  <2>1. \A j \in 1 .. n - 1 : d.slots[o[j]].key = {p[j]}
    <3> SUFFICES ASSUME NEW j \in 1 .. n - 1 PROVE d.slots[o[j]].key = {p[j]}
      BY Zenon
    <3>1. PICK k \in 1 .. n : k # i /\ p[j] = q[k] /\ o[j] = s[k]
      BY <1>5, Zenon
    <3>2. c.slots[s[k]].key = {q[k]}
      BY <1>1, Zenon DEF Keyed
    <3>3. QED
      BY <1>8, <1>11, <3>1, <3>2
  <2>2. QED
    BY <1>3, <2>1, Zenon DEF Keyed, Distinct
<1>14. Mapped(d, o, p, n - 1)
  <2>1. DOMAIN d.map = {p[j] : j \in 1 .. n - 1}
    <3>1. DOMAIN d.map = DOMAIN c.map \ {q[i]}
      BY <1>6, <1>10, Zenon
    <3>2. QED
      BY <1>1, <1>3, <3>1, Zenon DEF Mapped, Shorter
  <2>2. \A j \in 1 .. n - 1 : d.map[p[j]] = o[j]
    <3> SUFFICES ASSUME NEW j \in 1 .. n - 1 PROVE d.map[p[j]] = o[j]
      BY Zenon
    <3>1. PICK k \in 1 .. n : k # i /\ p[j] = q[k] /\ o[j] = s[k]
      BY <1>5, Zenon
    <3>2. q[k] \in DOMAIN c.map \ {q[i]} /\ c.map[q[k]] = s[k]
      BY <1>1, <3>1, Zenon DEF Mapped, Keyed
    <3>3. QED
      BY <1>6, <1>10, <3>1, <3>2
  <2>3. QED
    BY <2>1, <2>2, Zenon DEF Mapped
<1>15. Spare(d, o, n - 1)
  <2>1. PICK l \in Nat : /\ DOMAIN c.free = 1 .. l /\ DOMAIN d.free = 1 .. l + 1
                         /\ \A g \in 1 .. l : d.free[g] = c.free[g]
                         /\ d.free[l + 1] = x
    <3>1. c.free \in Seq(Nat) /\ x \in Nat
      BY <1>1, <1>2, SlotIndex, Zenon DEF Caches, Frees
    <3>2. Len(c.free) \in Nat
      BY <3>1
    <3>3. /\ DOMAIN c.free = 1 .. Len(c.free) /\ DOMAIN d.free = 1 .. Len(c.free) + 1
          /\ \A g \in 1 .. Len(c.free) : d.free[g] = c.free[g]
          /\ d.free[Len(c.free) + 1] = x
      BY <1>10, <3>1, AppendIs
    <3>4. QED
      BY <3>2, <3>3, Zenon
  <2>2. \A g \in 1 .. l : /\ c.free[g] \in DOMAIN c.slots /\ c.free[g] # x
                          /\ \A k \in 1 .. n : s[k] # c.free[g]
    BY <1>1, <2>1, Zenon DEF Spare
  <2>3. \A g \in 1 .. l, j \in 1 .. n - 1 : o[j] # c.free[g]
    BY <1>5, <2>2
  <2>4. \A g \in 1 .. l + 1 : /\ d.free[g] \in DOMAIN d.slots
                              /\ \A j \in 1 .. n - 1 : o[j] # d.free[g]
    BY <1>2, <1>9, <1>10, <2>1, <2>2, <2>3
  <2>5. \A g, h \in 1 .. l : c.free[g] = c.free[h] => g = h
    BY <1>1, <2>1, Zenon DEF Spare
  <2>6. \A g, h \in 1 .. l + 1 : d.free[g] = d.free[h] => g = h
    BY <2>1, <2>2, <2>5, SMTT(30)
  <2>7. QED
    BY <2>1, <2>4, <2>6, Zenon DEF Spare
<1>16. RemoveSlot(c, q[i], s[i]) = d
  BY Zenon DEF RemoveSlot, f, u, d
<1>17. QED
  BY <1>10, <1>12, <1>13, <1>14, <1>15, <1>16, Zenon DEF Holds, o, p

\* What a sequence is without its last element.
LEMMA FrontIs ==
    ASSUME NEW S, NEW a \in Seq(S), a # <<>>
    PROVE  /\ Len(a) \in Nat \ {0} /\ DOMAIN a = 1 .. Len(a)
           /\ SubSeq(a, 1, Len(a) - 1) \in Seq(S)
           /\ DOMAIN SubSeq(a, 1, Len(a) - 1) = 1 .. Len(a) - 1
           /\ \A i \in 1 .. Len(a) - 1 : SubSeq(a, 1, Len(a) - 1)[i] = a[i]
OBVIOUS

\* A slot for a new key: the last one freed, or a new one.
LEMMA AllocIs ==
    ASSUME NEW c, NEW n \in Nat, NEW s, NEW q, Holds(c, s, q, n), NEW k \in LruKeys
    PROVE  /\ AllocNode(c, k) \in Caches
           /\ AllocNode(c, k).map = c.map
           /\ AllocIndex(c) \in DOMAIN AllocNode(c, k).slots
           /\ AllocNode(c, k).slots[AllocIndex(c)].key = {k}
           /\ \A j \in 1 .. n : s[j] # AllocIndex(c)
           /\ Linked(AllocNode(c, k), s, n)
           /\ Keyed(AllocNode(c, k), s, q, n)
           /\ Spare(AllocNode(c, k), s, n)
           /\ \A f \in DOMAIN AllocNode(c, k).free : AllocNode(c, k).free[f] # AllocIndex(c)
<1> DEFINE a == AllocNode(c, k)
           x == AllocIndex(c)
           nu == [FreeSlot EXCEPT !.key = {k}]
<1>1. /\ c \in Caches /\ Linked(c, s, n) /\ Keyed(c, s, q, n)
      /\ Mapped(c, s, q, n) /\ Spare(c, s, n)
  BY Zenon DEF Holds
<1>2. c.slots \in Seq(Slot) /\ c.free \in Seq(Nat)
  BY <1>1, Zenon DEF Caches, Arenas, Frees
<1>3. nu \in Slot /\ nu.key = {k}
  BY Zenon DEF FreeSlot, Slot
<1> HIDE DEF nu
<1>4. \E new, fr :
         /\ a = [c EXCEPT !.slots = new, !.free = fr]
         /\ new \in Arenas /\ fr \in Frees
         /\ x \in DOMAIN new /\ new[x] = nu
         /\ DOMAIN c.slots \subseteq DOMAIN new
         /\ \A j \in DOMAIN c.slots : j # x => new[j] = c.slots[j]
         /\ \A j \in 1 .. n : s[j] # x
         /\ DOMAIN fr \subseteq DOMAIN c.free
         /\ \A f \in DOMAIN fr : fr[f] = c.free[f] /\ fr[f] # x
  <2>1. CASE c.free # <<>>
    <3> DEFINE l == Len(c.free)
               new == [c.slots EXCEPT ![x] = nu]
               fr == SubSeq(c.free, 1, l - 1)
    <3>1. /\ l \in Nat \ {0} /\ DOMAIN c.free = 1 .. l /\ fr \in Seq(Nat)
          /\ DOMAIN fr = 1 .. l - 1 /\ \A f \in 1 .. l - 1 : fr[f] = c.free[f]
      BY <1>2, <2>1, FrontIs, Zenon
    <3> HIDE DEF fr
    <3>2. x = c.free[l] /\ l \in DOMAIN c.free
      BY <2>1, <3>1 DEF AllocIndex
    <3> HIDE DEF l
    <3>3. x \in DOMAIN c.slots /\ \A j \in 1 .. n : s[j] # x
      BY <1>1, <3>2, Zenon DEF Spare
    <3>4. \A f \in 1 .. l - 1 : f \in DOMAIN c.free /\ c.free[f] # x
      <4> SUFFICES ASSUME NEW f \in 1 .. l - 1 PROVE f \in DOMAIN c.free /\ c.free[f] # x
        BY Zenon
      <4>1. f \in DOMAIN c.free /\ f # l
        BY <3>1
      <4>2. QED
        BY <1>1, <3>2, <4>1, Zenon DEF Spare
    <3>5. a = [c EXCEPT !.slots = new, !.free = fr]
      BY <1>1, <2>1, Zenon DEF AllocNode, Caches, nu, fr, l
    <3>6. new \in Arenas
      <4>1. PICK m \in Nat : c.slots \in [1 .. m -> Slot]
        BY <1>1, ArenaIs, Zenon DEF Caches
      <4>2. new \in [1 .. m -> Slot]
        BY <1>3, <4>1, Zenon
      <4>3. QED
        BY <4>2, ArenaIs, Zenon
    <3>7. /\ DOMAIN new = DOMAIN c.slots /\ new[x] = nu
          /\ \A j \in DOMAIN c.slots : j # x => new[j] = c.slots[j]
      BY <3>3, Zenon
    <3> HIDE DEF new, x, a
    <3>8. fr \in Frees /\ DOMAIN fr \subseteq DOMAIN c.free
      BY <3>1, <3>4, Zenon DEF Frees
    <3>9. \A f \in DOMAIN fr : fr[f] = c.free[f] /\ fr[f] # x
      BY <3>1, <3>4, Zenon
    <3>10. DOMAIN c.slots \subseteq DOMAIN new /\ x \in DOMAIN new
      BY <3>3, <3>7, Zenon
    <3>11. QED
      BY <3>3, <3>5, <3>6, <3>7, <3>8, <3>9, <3>10, ZenonT(60)
  <2>2. CASE c.free = <<>>
    <3> DEFINE new == Append(c.slots, nu)
    <3>1. x = Len(c.slots) + 1 /\ Len(c.slots) \in Nat
      BY <1>2, <2>2 DEF AllocIndex
    <3>2. /\ DOMAIN c.slots = 1 .. Len(c.slots) /\ DOMAIN new = 1 .. Len(c.slots) + 1
          /\ \A j \in DOMAIN c.slots : new[j] = c.slots[j]
          /\ new[x] = nu
      BY <1>2, <3>1, AppendIs
    <3>3. new \in Arenas
      BY <1>2, <1>3 DEF Arenas
    <3>4. a = [c EXCEPT !.slots = new, !.free = c.free]
      BY <1>1, <2>2, Zenon DEF AllocNode, Caches, nu
    <3>5. x \notin DOMAIN c.slots /\ x \in DOMAIN new /\ DOMAIN c.slots \subseteq DOMAIN new
      BY <3>1, <3>2
    <3> HIDE DEF new, x, a
    <3>6. \A j \in 1 .. n : s[j] # x
      <4>1. \A j \in 1 .. n : s[j] \in DOMAIN c.slots
        BY <1>1, Zenon DEF Linked
      <4>2. QED
        BY <3>5, <4>1, Zenon
    <3>7. DOMAIN c.free = {} /\ c.free \in Frees
      BY <1>2, <2>2 DEF Frees
    <3>8. QED
      BY <3>2, <3>3, <3>4, <3>5, <3>6, <3>7, Zenon
  <2>3. QED
    BY <2>1, <2>2, Zenon
<1>5. PICK new, fr :
         /\ a = [c EXCEPT !.slots = new, !.free = fr]
         /\ new \in Arenas /\ fr \in Frees
         /\ x \in DOMAIN new /\ new[x] = nu
         /\ DOMAIN c.slots \subseteq DOMAIN new
         /\ \A j \in DOMAIN c.slots : j # x => new[j] = c.slots[j]
         /\ \A j \in 1 .. n : s[j] # x
         /\ DOMAIN fr \subseteq DOMAIN c.free
         /\ \A f \in DOMAIN fr : fr[f] = c.free[f] /\ fr[f] # x
  BY <1>4, Zenon
<1> HIDE DEF a, x
<1>6. /\ a \in Caches /\ a.map = c.map /\ a.slots = new /\ a.free = fr
      /\ a.head = c.head /\ a.tail = c.tail
  BY <1>1, <1>5, Zenon DEF Caches
<1>7. \A j \in 1 .. n : s[j] \in DOMAIN c.slots /\ a.slots[s[j]] = c.slots[s[j]]
  BY <1>1, <1>5, <1>6 DEF Linked
<1>8. Linked(a, s, n)
  <2>1. s \in [1 .. n -> DOMAIN a.slots]
    BY <1>1, <1>5, <1>6, Zenon DEF Linked
  <2>2. QED
    BY <1>1, <1>6, <1>7, <2>1 DEF Linked
<1>9. Keyed(a, s, q, n)
  BY <1>1, <1>7, Zenon DEF Keyed
<1>10. Spare(a, s, n)
  <2>1. \A f \in DOMAIN fr :
           fr[f] \in DOMAIN new /\ \A i \in 1 .. n : s[i] # fr[f]
    BY <1>1, <1>5 DEF Spare
  <2>2. \A f, g \in DOMAIN fr : fr[f] = fr[g] => f = g
    <3> SUFFICES ASSUME NEW f \in DOMAIN fr, NEW g \in DOMAIN fr, fr[f] = fr[g] PROVE f = g
      BY Zenon
    <3>1. f \in DOMAIN c.free /\ g \in DOMAIN c.free /\ c.free[f] = c.free[g]
      BY <1>5, Zenon
    <3>2. QED
      BY <1>1, <3>1, Zenon DEF Spare
  <2>3. QED
    BY <1>6, <2>1, <2>2, Zenon DEF Spare
<1>11. QED
  BY <1>3, <1>5, <1>6, <1>8, <1>9, <1>10, Zenon DEF a, x

\* A new key goes before the others.
Added(c, k) ==
    LET i == AllocIndex(c)
        d == PushHead(AllocNode(c, k), i)
    IN  [d EXCEPT !.map = [j \in DOMAIN @ \cup {k} |-> IF j = k THEN i ELSE @[j]]]

\* Inserting a key that the cache does not have puts it before the others.
LEMMA AddHolds ==
    ASSUME NEW c, NEW n \in Nat, NEW s, NEW q, Holds(c, s, q, n), NEW k \in LruKeys,
           \A j \in 1 .. n : q[j] # k
    PROVE  Holds(Added(c, k), In(s, n, AllocIndex(c)), In(q, n, k), n + 1)
<1> DEFINE a == AllocNode(c, k)
           x == AllocIndex(c)
           d == PushHead(a, x)
           map == [j \in DOMAIN d.map \cup {k} |-> IF j = k THEN x ELSE d.map[j]]
           e == Added(c, k)
           t == In(s, n, x)
           z == In(q, n, k)
<1>1. /\ c \in Caches /\ Linked(c, s, n) /\ Keyed(c, s, q, n)
      /\ Mapped(c, s, q, n) /\ Spare(c, s, n)
  BY Zenon DEF Holds
<1>2. /\ a \in Caches /\ a.map = c.map /\ x \in DOMAIN a.slots /\ a.slots[x].key = {k}
      /\ \A j \in 1 .. n : s[j] # x
      /\ Linked(a, s, n) /\ Keyed(a, s, q, n) /\ Spare(a, s, n)
      /\ \A f \in DOMAIN a.free : a.free[f] # x
  BY AllocIs
<1> HIDE DEF a, x
<1>3. Distinct(s, n, DOMAIN a.slots) /\ Distinct(q, n, LruKeys)
  BY <1>2, Zenon DEF Linked, Keyed, Distinct
<1>4. Distinct(t, n + 1, DOMAIN a.slots) /\ Longer(t, s, n, x)
  BY <1>2, <1>3, InIs, Zenon
<1>5. Distinct(z, n + 1, LruKeys) /\ Longer(z, q, n, k)
  BY <1>3, InIs, Zenon
<1>6. Linked(d, t, n + 1)
  BY <1>2, PushLinked, Zenon
<1>7. /\ d \in Caches /\ d.map = c.map /\ d.free = a.free
      /\ DOMAIN d.slots = DOMAIN a.slots
      /\ \A j \in DOMAIN a.slots : d.slots[j].key = a.slots[j].key
  BY <1>2, PushHeadIs
<1> HIDE DEF d, t, z
<1>8. x \in Nat
  BY <1>2, SlotIndex, Zenon
<1>9. map \in Maps
  <2>1. PICK S \in SUBSET LruKeys : d.map \in [S -> Nat]
    BY <1>7, Zenon DEF Caches, Maps
  <2>2. map \in [S \cup {k} -> Nat]
    BY <1>8, <2>1, Zenon
  <2>3. S \cup {k} \in SUBSET LruKeys
    BY Zenon
  <2>4. QED
    BY <2>2, <2>3, Zenon DEF Maps
<1>10. e = [d EXCEPT !.map = map]
  BY Zenon DEF Added, d, a, x
<1>11. \A j \in DOMAIN c.map \cup {k} : map[j] = IF j = k THEN x ELSE c.map[j]
  BY <1>7, Zenon
<1>12. DOMAIN map = DOMAIN c.map \cup {k}
  BY <1>7, Zenon
<1> HIDE DEF map, e
<1>13. /\ e \in Caches /\ e.map = map /\ e.slots = d.slots /\ e.free = a.free
       /\ e.head = d.head /\ e.tail = d.tail
  BY <1>7, <1>9, <1>10, Zenon DEF Caches
<1>14. Linked(e, t, n + 1)
  BY <1>6, <1>13 DEF Linked
<1>15. \A j \in 1 .. n + 1 :
          \/ z[j] = k /\ t[j] = x
          \/ \E i \in 1 .. n : z[j] = q[i] /\ t[j] = s[i]
  <2> SUFFICES ASSUME NEW j \in 1 .. n + 1, j # 1
               PROVE  \E i \in 1 .. n : z[j] = q[i] /\ t[j] = s[i]
    BY <1>4, <1>5, Zenon DEF Longer
  <2>1. j - 1 \in 1 .. n
    OBVIOUS
  <2>2. z[j] = q[j - 1] /\ t[j] = s[j - 1]
    BY <1>4, <1>5, Zenon DEF Longer
  <2>3. QED
    BY <2>1, <2>2, Zenon
<1>16. Keyed(e, t, z, n + 1)
  <2>1. \A j \in 1 .. n + 1 : e.slots[t[j]].key = {z[j]}
    <3> SUFFICES ASSUME NEW j \in 1 .. n + 1 PROVE e.slots[t[j]].key = {z[j]}
      BY Zenon
    <3>1. CASE z[j] = k /\ t[j] = x
      BY <1>2, <1>7, <1>13, <3>1, Zenon
    <3>2. ASSUME NEW i \in 1 .. n, z[j] = q[i], t[j] = s[i] PROVE e.slots[t[j]].key = {z[j]}
      <4>1. s[i] \in DOMAIN a.slots /\ a.slots[s[i]].key = {q[i]}
        BY <1>2, Zenon DEF Keyed, Linked
      <4>2. QED
        BY <1>7, <1>13, <3>2, <4>1, Zenon
    <3>3. QED
      BY <1>15, <3>1, <3>2, Zenon
  <2>2. QED
    BY <1>5, <2>1, Zenon DEF Keyed, Distinct
<1>17. Mapped(e, t, z, n + 1)
  <2>1. DOMAIN e.map = {z[j] : j \in 1 .. n + 1}
    BY <1>1, <1>5, <1>12, <1>13, Zenon DEF Longer, Mapped
  <2>2. \A j \in 1 .. n + 1 : e.map[z[j]] = t[j]
    <3> SUFFICES ASSUME NEW j \in 1 .. n + 1 PROVE e.map[z[j]] = t[j]
      BY Zenon
    <3>1. CASE z[j] = k /\ t[j] = x
      BY <1>11, <1>13, <3>1, Zenon
    <3>2. ASSUME NEW i \in 1 .. n, z[j] = q[i], t[j] = s[i] PROVE e.map[z[j]] = t[j]
      <4>1. q[i] \in DOMAIN c.map /\ q[i] # k /\ c.map[q[i]] = s[i]
        BY <1>1, Zenon DEF Mapped
      <4>2. QED
        BY <1>11, <1>13, <3>2, <4>1, Zenon
    <3>3. QED
      BY <1>15, <3>1, <3>2, Zenon
  <2>3. QED
    BY <2>1, <2>2, Zenon DEF Mapped
<1>18. Spare(e, t, n + 1)
  <2>1. \A f \in DOMAIN a.free, j \in 1 .. n + 1 : t[j] # a.free[f]
    <3> SUFFICES ASSUME NEW f \in DOMAIN a.free, NEW j \in 1 .. n + 1 PROVE t[j] # a.free[f]
      BY Zenon
    <3>1. ASSUME NEW i \in 1 .. n, z[j] = q[i], t[j] = s[i] PROVE t[j] # a.free[f]
      BY <1>2, <3>1, Zenon DEF Spare
    <3>2. QED
      BY <1>2, <1>15, <3>1, Zenon
  <2>2. QED
    BY <1>2, <1>7, <1>13, <2>1, Zenon DEF Spare
<1>19. QED
  BY <1>13, <1>14, <1>16, <1>17, <1>18, Zenon DEF Holds, e, t, z, x

\* The map holds as many keys as the list.
LEMMA Counted ==
    ASSUME NEW c, NEW n \in Nat, NEW s, NEW q, Holds(c, s, q, n)
    PROVE  Cardinality(DOMAIN c.map) = n
<1>1. Distinct(q, n, LruKeys) /\ DOMAIN c.map = {q[i] : i \in 1 .. n}
  BY AllDistinct, Zenon DEF Holds, Mapped
<1>2. q \in Bijection(1 .. n, DOMAIN c.map)
  BY <1>1, Zenon DEF Distinct, Bijection, Injection, Surjection, IsInjective
<1>3. ExistsBijection(1 .. n, DOMAIN c.map)
  BY <1>2, Zenon DEF ExistsBijection
<1>4. QED
  BY <1>3, FS_CountingElements, Zenon

\* Evicting takes the last key.
LEMMA EvictHolds ==
    ASSUME NEW c, NEW n \in Nat \ {0}, NEW s, NEW q, Holds(c, s, q, n)
    PROVE  Holds(EvictLru(c), Out(s, n, n), Out(q, n, n), n - 1)
<1>1. n \in 1 .. n /\ n # 0
  OBVIOUS
<1>2. c.tail = s[n] /\ c.tail # 0
  <2>1. c \in Caches /\ c.tail = s[n] /\ s[n] \in DOMAIN c.slots
    BY <1>1, Zenon DEF Holds, Linked
  <2>2. QED
    BY <2>1, SlotIndex, Zenon
<1>3. c.slots[c.tail].key = {q[n]}
  BY <1>1, <1>2, Zenon DEF Holds, Keyed
<1>4. (CHOOSE k \in {q[n]} : TRUE) = q[n]
  BY Zenon
<1>5. EvictLru(c) = RemoveSlot(c, q[n], s[n])
  BY <1>2, <1>3, <1>4, Zenon DEF EvictLru
<1>6. QED
  BY <1>1, <1>5, RemoveHolds, Zenon

\* The list operations on sequences are those on the keys of the cache.
LEMMA Sequences ==
    ASSUME NEW n \in Nat, NEW q \in [1 .. n -> LruKeys]
    PROVE  /\ Len(q) = n /\ DOMAIN q = 1 .. n
           /\ \A i \in 1 .. n : Abstract!Without(q, i) = Out(q, n, i)
           /\ \A x : In(q, n, x) = <<x>> \o q
<1>1. q \in Seq(LruKeys) /\ Len(q) = n /\ DOMAIN q = 1 .. n
  OBVIOUS
<1>2. \A i \in 1 .. n : Abstract!Without(q, i) = Out(q, n, i)
  BY <1>1, Zenon DEF Abstract!Without, Out
<1>3. ASSUME NEW x PROVE In(q, n, x) = <<x>> \o q
  <2>1. <<x>> \o q = [i \in 1 .. n + 1 |-> IF i = 1 THEN x ELSE q[i - 1]]
    BY <1>1
  <2>2. QED
    BY <2>1, Zenon DEF In
<1>4. QED
  BY <1>1, <1>2, <1>3, Zenon

\* The list z is q after a use, an addition or a removal of a key.
Moved(q, z) ==
    \E k \in LruKeys :
       \/ \E i \in DOMAIN q : q[i] = k /\ z = <<k>> \o Abstract!Without(q, i)
       \/ /\ \A i \in DOMAIN q : q[i] # k
          /\ z = <<k>> \o (IF Len(q) < LruCapacity THEN q ELSE Abstract!Without(q, Len(q)))
       \/ \E i \in DOMAIN q : q[i] = k /\ z = Abstract!Without(q, i)

\* The cache has a list of its keys, at most as long as the capacity.
LruInv == \E n \in Nat : \E s, q : n <= LruCapacity /\ Holds(lru, s, q, n)

\* A step of the cache moves its keys as a step of the list does.
LEMMA StepHolds ==
    ASSUME NEW n \in Nat, n <= LruCapacity, NEW s, NEW q, Holds(lru, s, q, n), LruNext
    PROVE  \E m \in Nat : \E r, z :
              /\ m <= LruCapacity /\ Holds(lru', r, z, m)
              /\ Moved(q, z)
<1>1. PICK k \in LruKeys : LruGet(k) \/ LruPut(k) \/ LruRemove(k)
  BY Zenon DEF LruNext
<1>2. /\ q \in [1 .. n -> LruKeys] /\ DOMAIN lru.map = {q[i] : i \in 1 .. n}
      /\ \A i \in 1 .. n : lru.map[q[i]] = s[i]
  BY Zenon DEF Holds, Keyed, Mapped
<1>3. /\ Len(q) = n /\ DOMAIN q = 1 .. n
      /\ \A i \in 1 .. n : Abstract!Without(q, i) = Out(q, n, i)
      /\ \A x : In(q, n, x) = <<x>> \o q
  BY <1>2, Sequences, Zenon
<1>4. CASE k \in DOMAIN lru.map /\ lru' = MoveToHead(lru, lru.map[k])
  <2>1. PICK i \in 1 .. n : k = q[i]
    BY <1>2, <1>4
  <2>2. lru' = MoveToHead(lru, s[i])
    BY <1>2, <1>4, <2>1, Zenon
  <2>3. PICK r : Holds(lru', r, In(Out(q, n, i), n - 1, q[i]), n)
    BY <2>2, MoveHolds, Zenon
  <2>4. Distinct(Out(q, n, i), n - 1, LruKeys)
    BY AllDistinct, OutIs, Zenon
  <2>5. In(Out(q, n, i), n - 1, q[i]) = <<k>> \o Out(q, n, i)
    BY <2>1, <2>4, Sequences DEF Distinct
  <2>6. PICK z : z = In(Out(q, n, i), n - 1, q[i])
    BY Zenon
  <2>7. Holds(lru', r, z, n)
    BY <2>3, <2>6, Zenon
  <2>8. i \in DOMAIN q /\ q[i] = k /\ z = <<k>> \o Abstract!Without(q, i)
    BY <1>3, <2>1, <2>5, <2>6, Zenon
  <2>9. \E j \in DOMAIN q : q[j] = k /\ z = <<k>> \o Abstract!Without(q, j)
    BY <2>8, Zenon
  <2>10. n <= LruCapacity /\ Holds(lru', r, z, n)
    BY <2>7, Zenon
  <2>11. QED
    BY <2>9, <2>10, Zenon DEF Moved
<1>5. CASE LruPut(k) /\ k \notin DOMAIN lru.map
  <2> DEFINE c == IF Cardinality(DOMAIN lru.map) >= LruCapacity THEN EvictLru(lru) ELSE lru
  <2>1. lru' = Added(c, k)
    BY <1>5, Zenon DEF LruPut, Added
  <2>2. \A i \in 1 .. n : q[i] # k
    BY <1>2, <1>5, Zenon
  <2>3. Cardinality(DOMAIN lru.map) = n
    BY Counted, Zenon
  <2>4. CASE n < LruCapacity
    <3>1. c = lru
      BY <2>3, <2>4, LruConstants
    <3>2. Holds(lru', In(s, n, AllocIndex(lru)), In(q, n, k), n + 1)
      BY <2>1, <2>2, <3>1, AddHolds, Zenon
    <3>3. n + 1 \in Nat /\ n + 1 <= LruCapacity
      BY <2>4, LruConstants
    <3>4. In(q, n, k) = <<k>> \o (IF Len(q) < LruCapacity THEN q
                                  ELSE Abstract!Without(q, Len(q)))
      BY <1>3, <2>4, Zenon
    <3>5. QED
      BY <1>3, <2>2, <3>2, <3>3, <3>4, ZenonT(60) DEF Moved
  <2>5. CASE ~(n < LruCapacity)
    <3> DEFINE p == Out(q, n, n)
    <3>1. n = LruCapacity /\ n \in Nat \ {0} /\ n - 1 \in Nat /\ (n - 1) + 1 = n /\ n \in 1 .. n
      BY <2>5, LruConstants
    <3>2. c = EvictLru(lru)
      BY <2>3, <3>1, Zenon
    <3>3. Holds(c, Out(s, n, n), p, n - 1)
      BY <3>1, <3>2, EvictHolds, Zenon
    <3>4. Distinct(p, n - 1, LruKeys) /\ Shorter(p, q, n, n)
      BY <3>1, AllDistinct, OutIs, Zenon
    <3>5. \A i \in 1 .. n - 1 : p[i] # k
      <4>1. {p[i] : i \in 1 .. n - 1} = {q[i] : i \in 1 .. n} \ {q[n]}
        BY <3>4, Zenon DEF Shorter
      <4>2. QED
        BY <2>2, <4>1, Zenon
    <3> HIDE DEF c, p
    <3>6. Holds(lru', In(Out(s, n, n), n - 1, AllocIndex(c)), In(p, n - 1, k), n)
      BY <2>1, <3>1, <3>3, <3>5, AddHolds, Zenon
    <3>7. In(p, n - 1, k) = <<k>> \o p
      BY <3>1, <3>4, Sequences, Zenon DEF Distinct
    <3>8. In(p, n - 1, k) = <<k>> \o (IF Len(q) < LruCapacity THEN q
                                      ELSE Abstract!Without(q, Len(q)))
      BY <1>3, <2>5, <3>1, <3>7, Zenon DEF p
    <3>9. PICK z : z = In(p, n - 1, k)
      BY Zenon
    <3>10. Holds(lru', In(Out(s, n, n), n - 1, AllocIndex(c)), z, n)
      BY <3>6, <3>9, Zenon
    <3>11. /\ \A i \in DOMAIN q : q[i] # k
           /\ z = <<k>> \o (IF Len(q) < LruCapacity THEN q ELSE Abstract!Without(q, Len(q)))
      BY <1>3, <2>2, <3>8, <3>9, Zenon
    <3>12. QED
      BY <3>10, <3>11, Zenon DEF Moved
  <2>6. QED
    BY <2>4, <2>5, Zenon
<1>6. CASE LruRemove(k)
  <2>1. PICK i \in 1 .. n : k = q[i]
    BY <1>2, <1>6 DEF LruRemove
  <2>2. lru' = RemoveSlot(lru, q[i], s[i])
    BY <1>2, <1>6, <2>1, Zenon DEF LruRemove
  <2>3. Holds(lru', Out(s, n, i), Out(q, n, i), n - 1)
    BY <2>2, RemoveHolds, Zenon
  <2>4. n - 1 \in Nat /\ n - 1 <= LruCapacity
    BY LruConstants
  <2>5. QED
    BY <1>3, <2>1, <2>3, <2>4 DEF Moved
<1>7. QED
  BY <1>1, <1>4, <1>5, <1>6, Zenon DEF LruGet, LruPut

\* The empty cache.
LEMMA EmptyHolds == LruInit => Holds(lru, <<>>, <<>>, 0)
<1> SUFFICES ASSUME LruInit PROVE Holds(lru, <<>>, <<>>, 0)
  BY Zenon
<1>1. lru \in Caches
  <2>1. <<>> \in Maps
    BY DEF Maps
  <2>2. QED
    BY <2>1 DEF LruInit, LruNew, Caches, Arenas, Frees
<1>2. 1 .. 0 = {}
  OBVIOUS
<1>3. Linked(lru, <<>>, 0)
  BY <1>2 DEF LruInit, LruNew, Linked
<1>4. Keyed(lru, <<>>, <<>>, 0) /\ Mapped(lru, <<>>, <<>>, 0) /\ Spare(lru, <<>>, 0)
  BY <1>2 DEF LruInit, LruNew, Keyed, Mapped, Spare
<1>5. QED
  BY <1>1, <1>3, <1>4, Zenon DEF Holds

\* For any keys and any capacity, the linked list, its map and its free list
\* behave as the keys in order of use: LruCache implements LruList
\* (buffer_pool/lru_cache.rs).
THEOREM LruIsList == LruSpec => LruRefines
<1>1. LruInit => LruInv /\ Abstract!LruListInit
  <2> SUFFICES ASSUME LruInit PROVE LruInv /\ Abstract!LruListInit
    BY Zenon
  <2>1. 0 \in Nat /\ 0 <= LruCapacity
    BY LruConstants
  <2>2. Holds(lru, <<>>, <<>>, 0)
    BY EmptyHolds, Zenon
  <2>3. UseOrder(lru) = <<>>
    BY <2>1, <2>2, OrderIs, Zenon DEF Holds
  <2>4. QED
    BY <2>1, <2>2, <2>3, Zenon DEF LruInv, Abstract!LruListInit
<1>2. LruInv /\ [LruNext]_lru => LruInv' /\ [Abstract!LruListNext]_(UseOrder(lru))
  <2> SUFFICES ASSUME LruInv, [LruNext]_lru
               PROVE  LruInv' /\ [Abstract!LruListNext]_(UseOrder(lru))
    BY Zenon
  <2> PICK n \in Nat : \E s, q : n <= LruCapacity /\ Holds(lru, s, q, n)
    BY Zenon DEF LruInv
  <2>1. PICK s, q : n <= LruCapacity /\ Holds(lru, s, q, n)
    BY Zenon
  <2>2. CASE UNCHANGED lru
    <3>1. LruInv'
      BY <2>2, Zenon DEF LruInv
    <3>2. UseOrder(lru)' = UseOrder(lru)
      BY <2>2, Zenon
    <3>3. QED
      BY <3>1, <3>2, Zenon
  <2>3. CASE LruNext
    <3> PICK m \in Nat : \E r, z : m <= LruCapacity /\ Holds(lru', r, z, m) /\ Moved(q, z)
      BY <2>1, <2>3, StepHolds, Zenon
    <3>1. PICK r, z : m <= LruCapacity /\ Holds(lru', r, z, m) /\ Moved(q, z)
      BY Zenon
    <3>2. LruInv'
      BY <3>1, Zenon DEF LruInv
    <3>3. UseOrder(lru) = q
      BY <2>1, OrderIs, Zenon DEF Holds
    <3>4. UseOrder(lru') = z
      BY <3>1, OrderIs, Zenon DEF Holds
    <3>5. UseOrder(lru)' = z
      BY <3>4, Zenon
    <3>6. Abstract!LruListNext
      BY <3>1, <3>3, <3>5, Zenon
         DEF Moved, Abstract!LruListNext, Abstract!Use, Abstract!Add, Abstract!Drop
    <3>7. QED
      BY <3>2, <3>6, Zenon
  <2>4. QED
    BY <2>2, <2>3, Zenon
<1>3. QED
  BY <1>1, <1>2, PTL DEF LruSpec, LruRefines, Abstract!LruListSpec

=============================================================================
