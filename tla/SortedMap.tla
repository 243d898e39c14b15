------------------------------ MODULE SortedMap -------------------------------
(* The B-tree map of cell.c: values in the leaves, leaves chained, nodes in  *)
(* a pool with a free list.  It is compared with a function from keys to     *)
(* values; what the code loses on the way is kept in a ghost.                *)
(*                                                                           *)
(* Two orders are at work.  The nodes are in the order of cell_sort_key,     *)
(* which ranks types by their number in the enumeration, cuts numbers and    *)
(* strings short and takes a pair by its address.  Ties, and the bounds of a *)
(* range, are decided by cell_compare, which ranks nil before booleans,      *)
(* numbers, symbols and strings, takes an integer for the number it equals   *)
(* and compares pairs by content.  Nothing relates the two: keys that        *)
(* cell_compare calls equal may be stored side by side.                      *)
(*                                                                           *)
(* Sort keys past n_keys are left out: a node is filled with UINT64_MAX, and *)
(* those a split leaves behind are not below any key routed to the node, so  *)
(* sm_rank16, which counts smaller sort keys, never counts one.              *)
EXTENDS Integers, Sequences, FiniteSetsExt, SequencesExt

CONSTANTS
  TreeKeys,     \* the keys a program uses; cells alike in both orders are one
  SortKey,      \* cell_sort_key of each cell, not injective
  TermOrder,    \* the place of each cell in the order of cell_compare
  TreeValues,   \* the values stored
  Nil,          \* the nil cell, also the answer NULL
  BTreeB,       \* BTREE_B, keys per node (16 in the code)
  MaxTreeOps,   \* bound on the operations after the preload
  Preloads      \* the numbers n for which a map preloaded with 1..n is a start

VARIABLES
  obj,          \* the map: node pool, root, height, size, first and last leaf
  spec          \* ghost: the function, the keys ever put, the keys lost

NoNode == 0     \* SM_NIL; nodes are numbered from 1
Mid == BTreeB \div 2

-----------------------------------------------------------------------------
(* The pool. *)

Leaf == [is_leaf |-> TRUE, keys |-> << >>, vals |-> << >>, kids |-> << >>,
         next |-> NoNode, prev |-> NoNode]

\* The last node freed is used again before the pool is extended.
sm_pool_alloc(m) ==
  IF m.free # << >>
  THEN [map |-> [m EXCEPT !.free = Front(@), !.nodes[Last(m.free)] = Leaf],
        idx |-> Last(m.free)]
  ELSE [map |-> [m EXCEPT !.nodes = Append(@, Leaf)], idx |-> Len(m.nodes) + 1]

sm_pool_free(m, n) == [m EXCEPT !.free = Append(@, n)]

cell_sorted_map_new ==
  [nodes |-> <<Leaf>>, free |-> << >>, root |-> 1, height |-> 0,
   size |-> 0, first |-> 1, last |-> 1, dropped |-> << >>]

-----------------------------------------------------------------------------
(* Search. *)

\* sm_rank16: how many keys of the node have a smaller sort key.
Rank(node, k) == Cardinality({i \in DOMAIN node.keys : SortKey[node.keys[i]] < SortKey[k]})
Exact(node, k) == {i \in DOMAIN node.keys : node.keys[i] = k}

\* Position of the key or of its insertion, from 0, and whether it was found.
sm_node_find(m, n, k) ==
  LET node == m.nodes[n]
  IN  IF Exact(node, k) # {}
      THEN [leaf |-> n, pos |-> Min(Exact(node, k)) - 1, found |-> TRUE]
      ELSE [leaf |-> n, pos |-> Rank(node, k), found |-> FALSE]

\* One level down: a key equal to the separator is to the left of it.
Child(node, k) ==
  node.kids[1 + IF Exact(node, k) # {} THEN Min(Exact(node, k)) - 1 ELSE Rank(node, k)]

RECURSIVE Descend(_, _, _, _)
Descend(m, n, h, k) == IF h = 0 THEN n ELSE Descend(m, Child(m.nodes[n], k), h - 1, k)

sm_search(m, k) == sm_node_find(m, Descend(m, m.root, m.height, k), k)

-----------------------------------------------------------------------------
(* Insertion. *)

From(s, i) == SubSeq(s, i, Len(s))
Upto(s, n) == SubSeq(s, 1, Min({n, Len(s)}))

\* The left node keeps the first Mid entries, a new node takes those after the
\* median.  The median key goes to the caller for the parent; of a leaf, its
\* value goes nowhere.
sm_split(m, n) ==
  LET a == sm_pool_alloc(m)
      new == a.idx
      node == m.nodes[n]
      right == [is_leaf |-> node.is_leaf, keys |-> From(node.keys, Mid + 2),
                vals |-> From(node.vals, Mid + 2), kids |-> From(node.kids, Mid + 2),
                next |-> IF node.is_leaf THEN node.next ELSE NoNode,
                prev |-> IF node.is_leaf THEN n ELSE NoNode]
      left == [node EXCEPT !.keys = Upto(@, Mid), !.vals = Upto(@, Mid),
                           !.kids = Upto(@, Mid + 1),
                           !.next = IF node.is_leaf THEN new ELSE @]
      halves == [a.map EXCEPT !.nodes[n] = left, !.nodes[new] = right,
                              !.dropped = IF node.is_leaf THEN Append(@, node.keys[Mid + 1]) ELSE @]
  IN  [map |-> IF node.is_leaf /\ node.next # NoNode
               THEN [halves EXCEPT !.nodes[node.next].prev = new] ELSE halves,
       new |-> new, median |-> node.keys[Mid + 1]]

sm_leaf_insert_at(node, pos, k, v) ==
  [node EXCEPT !.keys = InsertAt(@, pos + 1, k), !.vals = InsertAt(@, pos + 1, v)]

sm_internal_insert_at(node, pos, k, right) ==
  [node EXCEPT !.keys = InsertAt(@, pos + 1, k), !.kids = InsertAt(@, pos + 2, right)]

RECURSIVE sm_insert_nonfull(_, _, _, _)
sm_insert_nonfull(m, n, k, v) ==
  LET node == m.nodes[n]
      at == sm_node_find(m, n, k)
      pos == Rank(node, k)
      child == node.kids[pos + 1]
      split == sm_split(m, child)
      parent == [split.map EXCEPT !.nodes[n] = sm_internal_insert_at(node, pos, split.median, split.new)]
      goesRight == \/ SortKey[k] > SortKey[split.median]
                   \/ SortKey[k] = SortKey[split.median] /\ TermOrder[k] > TermOrder[split.median]
  IN  IF node.is_leaf
      THEN IF at.found THEN [m EXCEPT !.nodes[n].vals[at.pos + 1] = v]
           ELSE [m EXCEPT !.nodes[n] = sm_leaf_insert_at(node, at.pos, k, v)]
      ELSE IF Len(m.nodes[child].keys) = BTreeB
      THEN sm_insert_nonfull(parent, IF goesRight THEN split.new ELSE child, k, v)
      ELSE sm_insert_nonfull(m, child, k, v)

RECURSIVE EdgeLeaf(_, _, _)
EdgeLeaf(m, n, rightmost) ==
  LET node == m.nodes[n]
  IN  IF node.is_leaf THEN n
      ELSE EdgeLeaf(m, IF rightmost THEN Last(node.kids) ELSE Head(node.kids), rightmost)

\* A full root is split under a new root; the new root is allocated first.
SplitRoot(m) ==
  LET a == sm_pool_alloc(m)
      split == sm_split(a.map, m.root)
  IN  [split.map EXCEPT !.root = a.idx, !.height = @ + 1,
                        !.nodes[a.idx] = [Leaf EXCEPT !.is_leaf = FALSE, !.keys = <<split.median>>,
                                                      !.kids = <<m.root, split.new>>]]

\* An entry dropped by a split below the root while it is being overwritten is
\* stored again at once: the ghost does not count it.
cell_sorted_map_put(m, k, v) ==
  LET r == IF Len(m.nodes[m.root].keys) = BTreeB THEN SplitRoot(m) ELSE m
      isNew == ~sm_search(r, k).found
      t == sm_insert_nonfull(r, r.root, k, v)
      overwritten(j) == ~isNew /\ j = k
  IN  [t EXCEPT !.size = IF isNew THEN @ + 1 ELSE @,
                !.dropped = r.dropped \o SelectSeq(From(@, Len(r.dropped) + 1),
                                                   LAMBDA j : ~overwritten(j)),
                !.first = EdgeLeaf(t, t.root, FALSE), !.last = EdgeLeaf(t, t.root, TRUE)]

-----------------------------------------------------------------------------
(* Deletion: an emptied leaf leaves the chain and goes to the free list; the *)
(* parent keeps its child pointer.                                           *)

Unlink(m, n) ==
  LET node == m.nodes[n]
      p == IF node.prev = NoNode THEN m ELSE [m EXCEPT !.nodes[node.prev].next = node.next]
      q == IF node.next = NoNode THEN p ELSE [p EXCEPT !.nodes[node.next].prev = node.prev]
  IN  sm_pool_free([q EXCEPT !.first = IF @ = n THEN node.next ELSE @,
                             !.last = IF @ = n THEN node.prev ELSE @], n)

cell_sorted_map_del(m, k) ==
  LET at == sm_search(m, k)
      n == at.leaf
      t == [m EXCEPT !.nodes[n].keys = RemoveAt(@, at.pos + 1),
                     !.nodes[n].vals = RemoveAt(@, at.pos + 1), !.size = @ - 1]
  IN  IF ~at.found THEN m
      ELSE IF t.nodes[n].keys = << >> /\ t.size > 0 THEN Unlink(t, n) ELSE t

-----------------------------------------------------------------------------
(* Queries. *)

cell_sorted_map_get(m, k) ==
  LET at == sm_search(m, k) IN IF at.found THEN m.nodes[at.leaf].vals[at.pos + 1] ELSE Nil

KV(node, i) == <<node.keys[i], node.vals[i]>>

RECURSIVE ChainFrom(_, _)
ChainFrom(m, n) ==
  IF n = NoNode THEN << >>
  ELSE [i \in DOMAIN m.nodes[n].keys |-> KV(m.nodes[n], i)] \o ChainFrom(m, m.nodes[n].next)

\* Keys, values and entries are read backwards from the last leaf.
RECURSIVE ChainTo(_, _)
ChainTo(m, n) ==
  IF n = NoNode THEN << >>
  ELSE ChainTo(m, m.nodes[n].prev) \o [i \in DOMAIN m.nodes[n].keys |-> KV(m.nodes[n], i)]

cell_sorted_map_entries(m) == ChainTo(m, m.last)

cell_sorted_map_min(m) ==
  IF m.size = 0 \/ m.nodes[m.first].keys = << >> THEN Nil ELSE KV(m.nodes[m.first], 1)

cell_sorted_map_max(m) ==
  LET node == m.nodes[m.last]
  IN  IF m.size = 0 \/ node.keys = << >> THEN Nil ELSE KV(node, Len(node.keys))

\* From the place of lo in the one order to the first key above hi in the other.
cell_sorted_map_range(m, lo, hi) ==
  LET at == sm_search(m, lo)
      tail == From(ChainFrom(m, at.leaf), at.pos + 1)
      above == {i \in DOMAIN tail : TermOrder[tail[i][1]] > TermOrder[hi]}
      below == SubSeq(tail, 1, IF above = {} THEN Len(tail) ELSE Min(above) - 1)
  IN  IF m.size = 0 THEN << >> ELSE SelectSeq(below, LAMBDA e : TermOrder[e[1]] >= TermOrder[lo])

cell_sorted_map_floor(m, k) ==
  LET at == sm_search(m, k)
      node == m.nodes[at.leaf]
      prev == m.nodes[node.prev]
  IN  IF m.size = 0 THEN Nil
      ELSE IF at.found THEN KV(node, at.pos + 1)
      ELSE IF at.pos > 0 THEN KV(node, at.pos)
      ELSE IF node.prev # NoNode /\ prev.keys # << >> THEN KV(prev, Len(prev.keys))
      ELSE Nil

cell_sorted_map_ceiling(m, k) ==
  LET at == sm_search(m, k)
      node == m.nodes[at.leaf]
      next == m.nodes[node.next]
  IN  IF m.size = 0 THEN Nil
      ELSE IF at.found \/ at.pos < Len(node.keys) THEN KV(node, at.pos + 1)
      ELSE IF node.next # NoNode /\ next.keys # << >> THEN KV(next, 1)
      ELSE Nil

PutAll(m, es) == FoldLeft(LAMBDA t, e : cell_sorted_map_put(t, e[1], e[2]), m, es)

cell_sorted_map_merge(m1, m2) ==
  PutAll(PutAll(cell_sorted_map_new, ChainFrom(m1, m1.first)), ChainFrom(m2, m2.first))

-----------------------------------------------------------------------------
(* The primitives. *)

AnyValue == CHOOSE v \in TreeValues : TRUE
Ascending(n) == [i \in 1..n |-> <<i, AnyValue>>]
AllKeys == TreeKeys \cup 1..Max(Preloads \cup {0})

Init ==
  \E n \in Preloads :
    /\ obj = PutAll(cell_sorted_map_new, Ascending(n))
    /\ spec = [fun |-> [k \in AllKeys |-> IF \E j \in 1..n : TermOrder[j] = TermOrder[k]
                                         THEN AnyValue ELSE Nil],
               used |-> 1..n, lost |-> ToSet(obj.dropped), ops |-> 0]

\* The function is on keys as cell_compare tells them apart.
Assign(k, v) == [j \in AllKeys |-> IF TermOrder[j] = TermOrder[k] THEN v ELSE spec.fun[j]]

Used(k, v) ==
  spec' = [fun |-> Assign(k, v), used |-> spec.used \cup {k},
           lost |-> spec.lost \cup ToSet(obj'.dropped), ops |-> spec.ops + 1]

\* A node on the key's path is full, so a put allocates.
Splits(m, k) ==
  \E h \in 0..m.height : Len(m.nodes[Descend(m, m.root, h, k)].keys) = BTreeB

\* A freed leaf is still in the tree.  Used again as another node it can make
\* the tree cyclic and the next descent endless: such a put is not taken.
Explored(k) == obj.free # << >> => ~Splits(obj, k)

prim_sorted_map_put(k, v) ==
  /\ Explored(k)
  /\ obj' = cell_sorted_map_put(obj, k, v)
  /\ Used(k, v)

prim_sorted_map_del(k) ==
  /\ obj' = cell_sorted_map_del(obj, k)
  /\ Used(k, Nil)

\* The variable is rebound to the merge with a map of one entry.  A map with
\* a detached leaf is left to the other operations.
prim_sorted_map_merge(k, v) ==
  /\ obj.free = << >>
  /\ obj' = cell_sorted_map_merge(obj, PutAll(cell_sorted_map_new, <<<<k, v>>>>))
  /\ Used(k, v)

Next ==
  /\ spec.ops < MaxTreeOps
  /\ \E k \in TreeKeys :
       \/ \E v \in TreeValues : prim_sorted_map_put(k, v) \/ prim_sorted_map_merge(k, v)
       \/ prim_sorted_map_del(k)

-----------------------------------------------------------------------------
(* Properties. *)

LeafNodes(m) == {n \in DOMAIN m.nodes : m.nodes[n].is_leaf}
StoredKeys == UNION {ToSet(obj.nodes[n].keys) : n \in LeafNodes(obj)}

\* Another key with the same sort key was used: the two share a search place.
Tied(k) == \E j \in spec.used \ {k} : SortKey[j] = SortKey[k]

\* A key that cell_compare calls equal was used under another sort key, as the
\* number 1 for the integer 1 or a second pair for one of the same content:
\* the map has them as two keys.
Twin(k) == \E j \in spec.used \ {k} : TermOrder[j] = TermOrder[k]

LookupAgrees ==
  \A k \in AllKeys :
    cell_sorted_map_get(obj, k) = spec.fun[k] \/ k \in spec.lost \/ Tied(k) \/ Twin(k)

SizeDriftExplained ==
  (\A k \in AllKeys : ~Tied(k))
    => obj.size = Cardinality(StoredKeys) + Len(obj.dropped)

\* The two orders agree on these keys: neither tied, nor twins, nor swapped.
Alike(j, k) == /\ SortKey[j] < SortKey[k] <=> TermOrder[j] < TermOrder[k]
               /\ SortKey[k] < SortKey[j] <=> TermOrder[k] < TermOrder[j]
Consistent == \A j, k \in spec.used : Alike(j, k)

Answer(k) == <<k, cell_sorted_map_get(obj, k)>>
Least(S) == IF S = {} THEN Nil ELSE Answer(CHOOSE k \in S : \A j \in S : TermOrder[k] <= TermOrder[j])
Greatest(S) == IF S = {} THEN Nil ELSE Answer(CHOOSE k \in S : \A j \in S : TermOrder[j] <= TermOrder[k])

\* The entries are in the order of the sort keys whatever was used; where the
\* two orders agree they are in the order of cell_compare, and the queries
\* answer by that order.
OrderAgrees ==
  LET es == cell_sorted_map_entries(obj)
      fitting == {q \in AllKeys : \A k \in spec.used : Alike(q, k)}
      notAbove(q) == {k \in StoredKeys : TermOrder[k] <= TermOrder[q]}
      notBelow(q) == {k \in StoredKeys : TermOrder[k] >= TermOrder[q]}
  IN  obj.free = << >> =>
        /\ \A i \in 1..Len(es) - 1 : SortKey[es[i][1]] <= SortKey[es[i + 1][1]]
        /\ Consistent =>
             /\ \A i \in 1..Len(es) - 1 : TermOrder[es[i][1]] < TermOrder[es[i + 1][1]]
             /\ ToSet(es) = {Answer(k) : k \in StoredKeys}
             /\ cell_sorted_map_min(obj) = Least(StoredKeys)
             /\ cell_sorted_map_max(obj) = Greatest(StoredKeys)
             /\ \A q \in fitting :
                  /\ cell_sorted_map_floor(obj, q) = Greatest(notAbove(q))
                  /\ cell_sorted_map_ceiling(obj, q) = Least(notBelow(q))
                  /\ \A r \in fitting \cap TreeKeys :
                       Alike(q, r) =>
                         cell_sorted_map_range(obj, q, r)
                           = SelectSeq(es, LAMBDA e : /\ TermOrder[e[1]] >= TermOrder[q]
                                                      /\ TermOrder[e[1]] <= TermOrder[r])

\* What was put and not deleted is answered.
NeverForgets ==
  \A k \in AllKeys : cell_sorted_map_get(obj, k) = spec.fun[k] \/ Tied(k) \/ Twin(k)
=============================================================================
