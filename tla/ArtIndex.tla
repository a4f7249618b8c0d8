------------------------------ MODULE ArtIndex ------------------------------
(***************************************************************************)
(* The adaptive radix tree that maps primary keys to row locations:        *)
(* crates/galaxdb-storage/src/art/mod.rs and art/node.rs.                  *)
(*                                                                         *)
(* Keys are sequences of bytes.  The sizes at which a node changes its     *)
(* layout (4, 16 and 48 children) are constants, so that a small tree goes *)
(* through all four.  Each operation runs under one lock and is one step.  *)
(***************************************************************************)
EXTENDS Naturals, Sequences, SequencesExt, FiniteSets

CONSTANTS
    LastByte,           \* bytes are 0 .. LastByte
    ArtKeys,            \* keys in use
    Cap4, Cap16, Cap48, \* children a node of each layout has room for
    Ssts                \* SST files; a location is one of them or 0, the memtable

ASSUME ArtConstants ==
    /\ LastByte \in Nat /\ ArtKeys \subseteq Seq(0 .. LastByte)
    /\ Ssts \subseteq Nat \ {0}
    /\ {Cap4, Cap16, Cap48} \subseteq Nat \ {0} /\ Cap4 < Cap16 /\ Cap16 < Cap48

ByteRange == 0 .. LastByte
Locations == Ssts \cup {0}
None == <<>>            \* Option: <<>> or <<x>>

VARIABLES
    root, artLen,       \* the tree: an optional node, and its count of keys
    rows,               \* history: the map the tree stands for
    nul                 \* history: a key was inserted beside one that continues
                        \* it with a zero byte

artVars == <<root, artLen, rows, nul>>

ArtInit == root = None /\ artLen = 0 /\ rows = <<>> /\ nul = FALSE

----------------------------------------------------------------------------
(* Nodes: LeafNode, and InnerNode with one of four layouts                 *)

Leaf(k, v) == [leaf |-> TRUE, key |-> k, value |-> v]
Inner(p, n) == [leaf |-> FALSE, prefix |-> p, node |-> n]

\* Node4 and Node16 keep <<byte, child>> sorted by byte, Node48 an index from
\* bytes to slots (0 for none), Node256 a slot for every byte.
Node4 == [kind |-> "n4", kids |-> <<>>]
HasPairs(n) == n.kind \in {"n4", "n16"}

\* The bytes that have a child.
BytesOf(n) ==
    CASE HasPairs(n) -> {n.kids[i][1] : i \in DOMAIN n.kids}
      [] n.kind = "n48" -> {b \in ByteRange : n.index[b] # 0}
      [] n.kind = "n256" -> {b \in ByteRange : n.slots[b] # None}
NumChildren(n) == IF HasPairs(n) THEN Len(n.kids) ELSE Cardinality(BytesOf(n))

\* The position of the first entry of a byte, 0 for none.
Position(n, b) == SelectInSeq(n.kids, LAMBDA e : e[1] = b)

FindSorted(n, b) == IF Position(n, b) = 0 THEN None ELSE <<n.kids[Position(n, b)][2]>>
FindIndexed(n, b) == IF n.index[b] = 0 THEN None ELSE n.slots[n.index[b]]
FindDirect(n, b) == n.slots[b]
FindChild(n, b) ==
    CASE HasPairs(n) -> FindSorted(n, b)
      [] n.kind = "n48" -> FindIndexed(n, b)
      [] n.kind = "n256" -> FindDirect(n, b)

\* find_child_mut and an assignment through it.
SetChild(n, b, c) ==
    CASE HasPairs(n) -> [n EXCEPT !.kids[Position(n, b)] = <<b, c>>]
      [] n.kind = "n48" -> [n EXCEPT !.slots[n.index[b]] = <<c>>]
      [] n.kind = "n256" -> [n EXCEPT !.slots[b] = <<c>>]

InsertSorted(n, b, c) ==
    LET after == SelectInSeq(n.kids, LAMBDA e : e[1] > b)
    IN  [n EXCEPT !.kids = InsertAt(@, IF after = 0 THEN Len(@) + 1 ELSE after, <<b, c>>)]
InsertFree(n, b, c) ==
    LET slot == SelectInSeq(n.slots, LAMBDA o : o = None)
    IN  [n EXCEPT !.index[b] = slot, !.slots[slot] = <<c>>]
InsertDirect(n, b, c) == [n EXCEPT !.slots[b] = <<c>>]

InsertChild(n, b, c) ==
    CASE HasPairs(n) -> InsertSorted(n, b, c)
      [] n.kind = "n48" -> InsertFree(n, b, c)
      [] n.kind = "n256" -> InsertDirect(n, b, c)

RemoveSorted(n, b) ==
    [n EXCEPT !.kids = RemoveAt(@, Position(n, b))]
RemoveIndexed(n, b) == [n EXCEPT !.slots[n.index[b]] = None, !.index[b] = 0]
RemoveDirect(n, b) == [n EXCEPT !.slots[b] = None]

----------------------------------------------------------------------------
(* Changes of layout                                                       *)

\* The children in byte order.
InOrder(n) ==
    LET bs == SetToSortSeq(BytesOf(n), <)
    IN  [i \in DOMAIN bs |-> <<bs[i], FindChild(n, bs[i])[1]>>]

ToNode16(n) == [kind |-> "n16", kids |-> n.kids]
Node16ToNode48(n) ==
    [kind  |-> "n48",
     index |-> [b \in ByteRange |-> Position(n, b)],
     slots |-> [i \in 1 .. Cap48 |->
                  IF i \in DOMAIN n.kids THEN <<n.kids[i][2]>> ELSE None]]
Node48ToNode256(n) == [kind |-> "n256", slots |-> [b \in ByteRange |-> FindChild(n, b)]]

Node256ToNode48(n) == Node16ToNode48([kids |-> InOrder(n)])
Node48ToNode16(n) == [kind |-> "n16", kids |-> InOrder(n)]
ToNode4(n) == [kind |-> "n4", kids |-> n.kids]

IsFull(n) ==
    \/ n.kind = "n4" /\ NumChildren(n) >= Cap4
    \/ n.kind = "n16" /\ NumChildren(n) >= Cap16
    \/ n.kind = "n48" /\ NumChildren(n) >= Cap48
ShouldShrink(n) ==
    \/ n.kind = "n16" /\ NumChildren(n) <= Cap4
    \/ n.kind = "n48" /\ NumChildren(n) <= Cap16
    \/ n.kind = "n256" /\ NumChildren(n) <= Cap48
Grow(n) ==
    CASE n.kind = "n4" -> ToNode16(n)
      [] n.kind = "n16" -> Node16ToNode48(n)
      [] n.kind = "n48" -> Node48ToNode256(n)
Shrink(n) ==
    CASE n.kind = "n16" -> ToNode4(n)
      [] n.kind = "n48" -> Node48ToNode16(n)
      [] n.kind = "n256" -> Node256ToNode48(n)

AddChild(n, b, c) == InsertChild(IF IsFull(n) THEN Grow(n) ELSE n, b, c)

RemoveChild(n, b) ==
    LET m == CASE HasPairs(n) -> RemoveSorted(n, b)
               [] n.kind = "n48" -> RemoveIndexed(n, b)
               [] n.kind = "n256" -> RemoveDirect(n, b)
    IN  IF ShouldShrink(m) THEN Shrink(m) ELSE m

----------------------------------------------------------------------------
(* Descent.  `d` bytes of the key are behind; a key is read past its end   *)
(* as zeros.                                                               *)

ByteAt(k, i) == IF i \in DOMAIN k THEN k[i] ELSE 0
Rest(k, d) == SubSeq(k, d + 1, Len(k))
CommonPrefixLen(a, b) == Len(LongestCommonPrefix({a, b}))
Passes(n, k, d) == CommonPrefixLen(n.prefix, Rest(k, d)) = Len(n.prefix)
NextByte(n, k, d) == ByteAt(k, d + Len(n.prefix) + 1)

RECURSIVE InsertRec(_, _, _, _), LookupRec(_, _, _), DeleteRec(_, _, _)

\* A leaf gives way to a node for it and the new leaf.
SplitLeaf(n, k, v, d) ==
    LET p == CommonPrefixLen(Rest(n.key, d), Rest(k, d))
        at == d + p + 1
    IN  Inner(SubSeq(k, d + 1, d + p),
              AddChild(AddChild(Node4, ByteAt(n.key, at), n), ByteAt(k, at), Leaf(k, v)))

\* A node gives way to one for the part of its prefix that matches.
SplitPrefix(n, k, v, d) ==
    LET p == CommonPrefixLen(n.prefix, Rest(k, d))
        below == [n EXCEPT !.prefix = SubSeq(@, p + 2, Len(@))]
    IN  Inner(SubSeq(n.prefix, 1, p),
              AddChild(AddChild(Node4, n.prefix[p + 1], below),
                       ByteAt(k, d + p + 1), Leaf(k, v)))

\* The node, and whether a value was replaced.
InsertRec(n, k, v, d) ==
    IF n.leaf
    THEN IF n.key = k THEN <<Leaf(k, v), TRUE>> ELSE <<SplitLeaf(n, k, v, d), FALSE>>
    ELSE IF ~Passes(n, k, d) THEN <<SplitPrefix(n, k, v, d), FALSE>>
    ELSE LET b == NextByte(n, k, d)
             c == FindChild(n.node, b)
         IN  IF c = None THEN <<[n EXCEPT !.node = AddChild(@, b, Leaf(k, v))], FALSE>>
             ELSE LET r == InsertRec(c[1], k, v, d + Len(n.prefix) + 1)
                  IN  <<[n EXCEPT !.node = SetChild(@, b, r[1])], r[2]>>

LookupRec(o, k, d) ==
    IF o = None THEN None
    ELSE LET n == o[1]
         IN  IF n.leaf THEN IF n.key = k THEN <<n.value>> ELSE None
             ELSE IF ~Passes(n, k, d) THEN None
             ELSE LookupRec(FindChild(n.node, NextByte(n, k, d)), k,
                            d + Len(n.prefix) + 1)

TakeSingleChild(n) == InOrder(n)[1]

\* The prefix of the child taken over without the byte that led to it.
CollapseShort(n, m) ==
    LET c == TakeSingleChild(m)[2]
    IN  IF c.leaf THEN c ELSE [c EXCEPT !.prefix = n.prefix \o @]
\* A node left with one child is replaced by it.
Collapse(n, m) ==
    LET b == TakeSingleChild(m)[1]
        c == TakeSingleChild(m)[2]
    IN  IF c.leaf THEN c ELSE [c EXCEPT !.prefix = n.prefix \o <<b>> \o @]

\* The optional node that is left, and whether the key was there.
DeleteRec(o, k, d) ==
    IF o = None THEN <<None, FALSE>>
    ELSE LET n == o[1]
         IN  IF n.leaf THEN IF n.key = k THEN <<None, TRUE>> ELSE <<o, FALSE>>
             ELSE IF ~Passes(n, k, d) THEN <<o, FALSE>>
             ELSE LET b == NextByte(n, k, d)
                      r == DeleteRec(FindChild(n.node, b), k, d + Len(n.prefix) + 1)
                      m == RemoveChild(n.node, b)
                  IN  CASE ~r[2] -> <<o, FALSE>>
                        [] r[2] /\ r[1] # None ->
                             <<<<[n EXCEPT !.node = SetChild(@, b, r[1][1])]>>, TRUE>>
                        [] r[2] /\ r[1] = None /\ NumChildren(m) = 0 -> <<None, TRUE>>
                        [] r[2] /\ r[1] = None /\ NumChildren(m) = 1 -> <<<<Collapse(n, m)>>, TRUE>>
                        [] OTHER -> <<<<[n EXCEPT !.node = m]>>, TRUE>>

----------------------------------------------------------------------------
(* ArtIndex                                                                *)

Lookup(k) == LookupRec(root, k, 0)

\* b continues a with a zero byte.
NulExtends(a, b) == IsPrefix(Append(a, 0), b)
Clashes(k, ks) == \E j \in ks : NulExtends(j, k) \/ NulExtends(k, j)

\* AdaptiveRadixTree::insert on an optional tree and its count.
Inserted(o, l, k, v) ==
    IF o = None THEN [root |-> <<Leaf(k, v)>>, len |-> l + 1]
    ELSE LET r == InsertRec(o[1], k, v, 0)
         IN  [root |-> <<r[1]>>, len |-> IF r[2] THEN l ELSE l + 1]

Put(k, v) ==
    /\ LET t == Inserted(root, artLen, k, v) IN root' = t.root /\ artLen' = t.len
    /\ rows' = [j \in DOMAIN rows \cup {k} |-> IF j = k THEN v ELSE rows[j]]
    /\ nul' = (nul \/ Clashes(k, DOMAIN rows))

\* What the tree does after such an insert is left out: the next descent to
\* either key may index past a key's end and panic.
Insert(k, v) == ~nul /\ Put(k, v)

Delete(k) ==
    /\ ~nul
    /\ LET r == DeleteRec(root, k, 0)
       IN  root' = r[1] /\ artLen' = IF r[2] THEN artLen - 1 ELSE artLen
    /\ rows' = [j \in DOMAIN rows \ {k} |-> rows[j]]
    /\ UNCHANGED nul

\* relocate_if_points_to: compaction moves a key that is still in its inputs.
Relocate(k, from, to) ==
    /\ ~nul /\ \E v \in from : Lookup(k) = <<v>>
    /\ Put(k, to)

ArtNext ==
    \E k \in ArtKeys : \/ \E v \in Locations : Insert(k, v)
                       \/ Delete(k)
                       \/ \E from \in SUBSET Ssts, to \in Ssts : Relocate(k, from, to)

ArtSpec == ArtInit /\ [][ArtNext]_artVars

----------------------------------------------------------------------------
(* Properties                                                              *)

\* After any sequence of inserts, deletes and relocations, through
\* every split, collapse and change of layout, the tree is the map it stands
\* for: lookup finds exactly the keys that are there, each with its last
\* location, and len counts them; unless a key was inserted beside one that
\* continues it with a zero byte, which the tree cannot tell apart.
ArtIsMapUnlessNul ==
    nul \/ /\ \A k \in ArtKeys :
                 Lookup(k) = IF k \in DOMAIN rows THEN <<rows[k]>> ELSE None
           /\ artLen = Cardinality(DOMAIN rows)

=============================================================================
