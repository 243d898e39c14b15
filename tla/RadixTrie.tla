------------------------------ MODULE RadixTrie -------------------------------
(* The adaptive radix trie of cell.c: inner nodes of four sizes that grow    *)
(* and shrink, path compression with a bounded stored prefix, a terminator   *)
(* child (byte 0) for a key that ends at an inner node.  It is compared with *)
(* a function from keys to values.                                           *)
(*                                                                           *)
(* A key is the sequence of bytes art_key_from_cell gives a symbol or a      *)
(* string.  Reference counts are left out.                                   *)
EXTENDS Integers, Sequences, FiniteSetsExt, SequencesExt

CONSTANTS
  NBytes,       \* the bytes of keys are 1..NBytes
  TrieKeys,     \* the keys a program uses, sequences of bytes
  TrieValues,   \* the values stored
  Nil,          \* the nil cell, also the answer NULL
  N4, N16, N48, \* children of the three smaller nodes (4, 16, 48 in the code)
  MaxPrefix,    \* ART_MAX_PREFIX, bytes of a compressed path that are stored (8)
  TriePreloads, \* the key sequences a trie may have been filled with at the start
  MaxTrieOps    \* bound on the operations after that

VARIABLES
  obj,          \* the trie: root and size
  spec          \* ghost: the function, and whether a slot was overwritten

Byte0 == 0..NBytes
BytesWith(P(_)) == SelectSeq([i \in 1..NBytes + 1 |-> i - 1], P)
Absent == -1
Null == [tag |-> "null"]
LeafNode(k, v) == [tag |-> "leaf", key |-> k, value |-> v]

\* Nodes of 4 and 16 keep sorted bytes, 48 an index of slots, 256 a slot a byte.
Sorted(tag, prefix, full, keys, kids) ==
  [tag |-> tag, prefix |-> prefix, full |-> full, num |-> Len(keys), keys |-> keys, kids |-> kids]
Indexed(prefix, full, num, index, kids) ==
  [tag |-> "node48", prefix |-> prefix, full |-> full, num |-> num, index |-> index, kids |-> kids]
Direct(prefix, full, num, kids) ==
  [tag |-> "node256", prefix |-> prefix, full |-> full, num |-> num, kids |-> kids]

IsInner(n) == n.tag \notin {"null", "leaf"}
HasKeys(n) == n.tag \in {"node4", "node16"}

-----------------------------------------------------------------------------
(* Node operations. *)

art_find_child(n, b) ==
  IF HasKeys(n)
  THEN IF b \in ToSet(n.keys) THEN Min({i \in DOMAIN n.keys : n.keys[i] = b}) ELSE Absent
  ELSE IF n.tag = "node48" THEN n.index[b]
  ELSE IF n.kids[b] = Null THEN Absent ELSE b

\* How many bytes of the stored prefix the key has at this depth.
art_check_prefix(n, key, depth) ==
  LET cmp == Min({Len(n.prefix), Len(key) - depth})
      differ == {i \in 1..cmp : n.prefix[i] # key[depth + i]}
  IN  IF differ = {} THEN cmp ELSE Min(differ) - 1

ByteAt(key, depth) == IF depth < Len(key) THEN key[depth + 1] ELSE 0
LowerBound(keys, b) == Cardinality({i \in DOMAIN keys : keys[i] < b}) + 1

InsertSorted(n, tag, b, c) ==
  Sorted(tag, n.prefix, n.full, InsertAt(n.keys, LowerBound(n.keys, b), b),
         InsertAt(n.kids, LowerBound(n.keys, b), c))

art_add_child4(n, b, c) == InsertSorted(n, IF n.num < N4 THEN "node4" ELSE "node16", b, c)

art_add_child16(n, b, c) ==
  IF n.num < N16 THEN InsertSorted(n, "node16", b, c)
  ELSE Indexed(n.prefix, n.full, N16 + 1,
               [x \in Byte0 |-> IF x = b THEN N16 + 1
                                ELSE IF x \in ToSet(n.keys) THEN art_find_child(n, x) ELSE Absent],
               [s \in 1..N48 |-> IF s <= N16 THEN n.kids[s] ELSE IF s = N16 + 1 THEN c ELSE Null])

\* The slot after the last one counted, taken whether or not it is free.
art_add_child48(n, b, c) ==
  IF n.num < N48
  THEN [n EXCEPT !.index[b] = n.num + 1, !.kids[n.num + 1] = c, !.num = @ + 1]
  ELSE Direct(n.prefix, n.full, N48 + 1,
              [x \in Byte0 |-> IF x = b THEN c
                               ELSE IF n.index[x] = Absent THEN Null ELSE n.kids[n.index[x]]])

art_add_child256(n, b, c) == [n EXCEPT !.kids[b] = c, !.num = @ + 1]

art_add_child(n, b, c) ==
  CASE n.tag = "node4" -> art_add_child4(n, b, c)
    [] n.tag = "node16" -> art_add_child16(n, b, c)
    [] n.tag = "node48" -> art_add_child48(n, b, c)
    [] n.tag = "node256" -> art_add_child256(n, b, c)

\* A node of 4 left with one inner child gives its place to the child, whose
\* prefix becomes the node's, the byte between them and its own.
Prefixed(n, b, child) ==
  LET whole == n.prefix \o <<b>> \o child.prefix
  IN  [child EXCEPT !.full = n.full + 1 + @,
                    !.prefix = SubSeq(whole, 1, Min({Len(whole), MaxPrefix}))]

art_remove_child4(n, b) ==
  LET i == art_find_child(n, b)
      r == Sorted("node4", n.prefix, n.full, RemoveAt(n.keys, i), RemoveAt(n.kids, i))
  IN  IF r.num = 1 /\ IsInner(r.kids[1]) THEN Prefixed(r, r.keys[1], r.kids[1]) ELSE r

art_remove_child16(n, b) ==
  LET i == art_find_child(n, b)
  IN  Sorted(IF n.num - 1 <= N4 THEN "node4" ELSE "node16", n.prefix, n.full,
             RemoveAt(n.keys, i), RemoveAt(n.kids, i))

art_remove_child48(n, b) ==
  LET r == [n EXCEPT !.kids[n.index[b]] = Null, !.index[b] = Absent, !.num = @ - 1]
      bs == BytesWith(LAMBDA x : r.index[x] # Absent)
  IN  IF r.num > N16 THEN r
      ELSE Sorted("node16", n.prefix, n.full, bs, [i \in DOMAIN bs |-> r.kids[r.index[bs[i]]]])


art_remove_child256(n, b) ==
  LET r == [n EXCEPT !.kids[b] = Null, !.num = @ - 1]
      bs == BytesWith(LAMBDA x : r.kids[x] # Null)
  IN  IF r.num > N48 THEN r
      ELSE Indexed(n.prefix, n.full, r.num,
                   [x \in Byte0 |-> IF x \in ToSet(bs) THEN Min({i \in DOMAIN bs : bs[i] = x}) ELSE Absent],
                   [s \in 1..N48 |-> IF s <= Len(bs) THEN r.kids[bs[s]] ELSE Null])

RemoveChild(n, b) ==
  CASE n.tag = "node4" -> art_remove_child4(n, b)
    [] n.tag = "node16" -> art_remove_child16(n, b)
    [] n.tag = "node48" -> art_remove_child48(n, b)
    [] n.tag = "node256" -> art_remove_child256(n, b)

-----------------------------------------------------------------------------
(* Search, insertion, deletion.                                              *)

PrefixFits(n, key, depth) == art_check_prefix(n, key, depth) = Len(n.prefix)
Below(n, depth) == IF n.prefix = << >> THEN depth ELSE depth + n.full

\* The leaf of the key, or Null.
RECURSIVE art_search(_, _, _)
art_search(n, key, depth) ==
  LET d == Below(n, depth)
      at == art_find_child(n, ByteAt(key, d))
  IN  IF n = Null THEN Null
      ELSE IF n.tag = "leaf" THEN IF n.key = key THEN n ELSE Null
      ELSE IF ~PrefixFits(n, key, depth) \/ at = Absent THEN Null
      ELSE art_search(n.kids[at], key, d + 1)

CommonLength(a, b) ==
  LET m == Min({Len(a), Len(b)})
      differ == {i \in 1..m : a[i] # b[i]}
  IN  IF differ = {} THEN m ELSE Min(differ) - 1

Stored(bytes) == SubSeq(bytes, 1, Min({Len(bytes), MaxPrefix}))

\* A leaf with another key is put under a new node with their common bytes.
ExpandLeaf(leaf, key, v, depth) ==
  LET rest == SubSeq(key, depth + 1, Len(key))
      lcp == CommonLength(SubSeq(leaf.key, depth + 1, Len(leaf.key)), rest)
      node == Sorted("node4", Stored(SubSeq(rest, 1, lcp)), lcp,
                     <<ByteAt(leaf.key, depth + lcp)>>, <<leaf>>)
  IN  art_add_child(node, ByteAt(key, depth + lcp), LeafNode(key, v))

\* Mutant: the part of the path below the split keeps its first byte.
SplitPrefix_keep(n, key, v, depth, match) ==
  LET old == [n EXCEPT !.prefix = SubSeq(@, match + 1, Len(@)), !.full = @ - match]
      node == Sorted("node4", SubSeq(n.prefix, 1, match), match, <<n.prefix[match + 1]>>, <<old>>)
  IN  art_add_child(node, ByteAt(key, depth + match), LeafNode(key, v))

\* A key that leaves the compressed path splits it.
SplitPrefix(n, key, v, depth, match) ==
  LET old == [n EXCEPT !.prefix = SubSeq(@, match + 2, Len(@)), !.full = @ - (match + 1)]
      node == Sorted("node4", SubSeq(n.prefix, 1, match), match, <<n.prefix[match + 1]>>, <<old>>)
  IN  art_add_child(node, ByteAt(key, depth + match), LeafNode(key, v))

RECURSIVE art_insert_recursive(_, _, _, _)
art_insert_recursive(n, key, v, depth) ==
  LET match == art_check_prefix(n, key, depth)
      d == Below(n, depth)
      b == ByteAt(key, d)
      at == art_find_child(n, b)
  IN  IF n = Null THEN LeafNode(key, v)
      ELSE IF n.tag = "leaf"
      THEN IF n.key = key THEN LeafNode(key, v) ELSE ExpandLeaf(n, key, v, depth)
      ELSE IF match # Len(n.prefix) THEN SplitPrefix(n, key, v, depth, match)
      ELSE IF at = Absent THEN art_add_child(n, b, LeafNode(key, v))
      ELSE [n EXCEPT !.kids[at] = art_insert_recursive(@, key, v, d + 1)]

RECURSIVE art_delete_recursive(_, _, _)
art_delete_recursive(n, key, depth) ==
  LET d == Below(n, depth)
      b == ByteAt(key, d)
      at == art_find_child(n, b)
      child == n.kids[at]
  IN  IF n = Null THEN n
      ELSE IF n.tag = "leaf" THEN IF n.key = key THEN Null ELSE n
      ELSE IF ~PrefixFits(n, key, depth) \/ at = Absent THEN n
      ELSE IF child.tag = "leaf" THEN IF child.key = key THEN RemoveChild(n, b) ELSE n
      ELSE [n EXCEPT !.kids[at] = art_delete_recursive(@, key, d + 1)]

-----------------------------------------------------------------------------
(* Walks. *)

\* The children in the order of their bytes.
KidsInOrder(n) ==
  IF HasKeys(n) THEN n.kids
  ELSE LET bs == BytesWith(LAMBDA x : art_find_child(n, x) # Absent)
       IN  [i \in DOMAIN bs |-> n.kids[art_find_child(n, bs[i])]]

RECURSIVE art_iter_node(_)
art_iter_node(n) ==
  IF n = Null THEN << >>
  ELSE IF n.tag = "leaf" THEN <<n>>
  ELSE FoldLeft(LAMBDA acc, c : acc \o art_iter_node(c), << >>, KidsInOrder(n))

RECURSIVE art_find_prefix_node(_, _, _)
art_find_prefix_node(n, p, depth) ==
  LET cmp == Min({Len(n.prefix), Len(p) - depth})
      d == Below(n, depth)
      at == art_find_child(n, p[d + 1])
  IN  IF n = Null THEN Null
      ELSE IF n.tag = "leaf" THEN IF IsPrefix(p, n.key) THEN n ELSE Null
      ELSE IF depth >= Len(p) THEN n
      ELSE IF \E i \in 1..cmp : n.prefix[i] # p[depth + i] THEN Null
      ELSE IF d >= Len(p) THEN n
      ELSE IF at = Absent THEN Null
      ELSE art_find_prefix_node(n.kids[at], p, d + 1)

\* The terminator child is never looked at; the stored prefix is skipped.
RECURSIVE art_longest_prefix_match(_, _, _)
art_longest_prefix_match(n, key, depth) ==
  LET d == depth + Len(n.prefix)
      at == art_find_child(n, key[d + 1])
  IN  IF n = Null THEN Null
      ELSE IF n.tag = "leaf" THEN IF IsPrefix(n.key, key) THEN n ELSE Null
      ELSE IF ~PrefixFits(n, key, depth) \/ d >= Len(key) THEN Null
      ELSE IF at = Absent THEN Null
      ELSE art_longest_prefix_match(n.kids[at], key, d + 1)

-----------------------------------------------------------------------------
(* The cells and the primitives. *)

cell_trie_new == [root |-> Null, size |-> 0]

cell_trie_get(t, k) ==
  LET leaf == art_search(t.root, k, 0) IN IF leaf = Null THEN Nil ELSE leaf.value

cell_trie_put(t, k, v) ==
  [root |-> art_insert_recursive(t.root, k, v, 0),
   size |-> IF art_search(t.root, k, 0) = Null THEN t.size + 1 ELSE t.size]

cell_trie_del(t, k) ==
  [root |-> art_delete_recursive(t.root, k, 0),
   size |-> IF art_search(t.root, k, 0) = Null THEN t.size ELSE t.size - 1]

cell_trie_entries(t) == art_iter_node(t.root)
KeysOf(leaves) == [i \in DOMAIN leaves |-> leaves[i].key]
cell_trie_prefix_keys(t, p) == KeysOf(art_iter_node(art_find_prefix_node(t.root, p, 0)))

cell_trie_longest_prefix(t, q) ==
  LET leaf == art_longest_prefix_match(t.root, q, 0) IN IF leaf = Null THEN Nil ELSE leaf.key

PutLeaves(t, ls) == FoldLeft(LAMBDA u, e : cell_trie_put(u, e.key, e.value), t, ls)
cell_trie_merge(t1, t2) ==
  PutLeaves(PutLeaves(cell_trie_new, cell_trie_entries(t1)), cell_trie_entries(t2))

RECURSIVE InnerNodes(_)
InnerNodes(n) ==
  IF ~IsInner(n) THEN {}
  ELSE {n} \cup UNION {InnerNodes(KidsInOrder(n)[i]) : i \in DOMAIN KidsInOrder(n)}

\* Two bytes of a node of 48 share a slot: one child has been overwritten.
SharedSlot(t) ==
  \E n \in InnerNodes(t.root) :
    n.tag = "node48" /\ \E x, y \in Byte0 : x # y /\ n.index[x] # Absent /\ n.index[x] = n.index[y]

\* A compressed path longer than what is stored: its tail is never compared.
Overlong(t) == \E n \in InnerNodes(t.root) : n.full > Len(n.prefix)

AnyValue == CHOOSE v \in TrieValues : TRUE

Init ==
  \E ks \in TriePreloads :
    /\ obj = PutLeaves(cell_trie_new, [i \in DOMAIN ks |-> LeafNode(ks[i], AnyValue)])
    /\ spec = [fun |-> [k \in TrieKeys |-> IF k \in ToSet(ks) THEN AnyValue ELSE Nil],
               clobbered |-> FALSE, ops |-> 0]

\* With an unchecked tail a key can be compared past its end; with a shared
\* slot a child can be missing: what follows is not explored.
Exact == ~spec.clobbered /\ ~Overlong(obj)

Step(t, f) ==
  /\ obj' = t
  /\ spec' = [fun |-> f, clobbered |-> SharedSlot(t), ops |-> spec.ops + 1]

prim_trie_put(k, v) == Step(cell_trie_put(obj, k, v), [spec.fun EXCEPT ![k] = v])
prim_trie_del(k) == Step(cell_trie_del(obj, k), [spec.fun EXCEPT ![k] = Nil])
prim_trie_merge(k, v) ==
  Step(cell_trie_merge(obj, PutLeaves(cell_trie_new, <<LeafNode(k, v)>>)), [spec.fun EXCEPT ![k] = v])

Next ==
  /\ Exact /\ spec.ops < MaxTrieOps
  /\ \E k \in TrieKeys :
       \/ \E v \in TrieValues : prim_trie_put(k, v) \/ prim_trie_merge(k, v)
       \/ prim_trie_del(k)

-----------------------------------------------------------------------------
(* Properties. *)

Held == {k \in TrieKeys : spec.fun[k] # Nil}
LexLess(a, b) ==
  LET c == CommonLength(a, b)
  IN  IF c = Len(a) THEN c < Len(b) ELSE c < Len(b) /\ a[c + 1] < b[c + 1]

TrieAgrees ==
  Exact =>
    LET keys == KeysOf(cell_trie_entries(obj))
    IN  /\ \A k \in TrieKeys : cell_trie_get(obj, k) = spec.fun[k]
        /\ obj.size = Cardinality(Held)
        /\ ToSet(keys) = Held
        /\ \A i \in 1..Len(keys)-1 : LexLess(keys[i], keys[i + 1])
        /\ \A p \in TrieKeys :
             cell_trie_prefix_keys(obj, p) = SelectSeq(keys, LAMBDA k : IsPrefix(p, k))

\* A key under a terminator child: the walk for the longest prefix skips it.
AtTerminator(k) ==
  \E n \in InnerNodes(obj.root) :
    art_find_child(n, 0) # Absent /\ n.kids[art_find_child(n, 0)].key = k

LongestPrefixSound ==
  Exact => \A q \in TrieKeys :
    LET stored == {k \in Held : IsPrefix(k, q)}
        a == cell_trie_longest_prefix(obj, q)
    IN  /\ a # Nil => a \in stored
        /\ \A k \in stored : (a = Nil \/ Len(k) > Len(a)) => AtTerminator(k)
=============================================================================
