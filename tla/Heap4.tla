-------------------------------- MODULE Heap4 ---------------------------------
(* The 4-ary min-heap of cell.c: two arrays moved together, an element       *)
(* sifted up when pushed and the last one sifted down when the root leaves.  *)
(* It is compared with a bag of <<priority, value>> pairs.  Growth copies    *)
(* both arrays and shows nothing else, so capacity is left out.              *)
EXTENDS Integers, Sequences, Bags, FiniteSetsExt, SequencesExt

CONSTANTS
  Priorities,   \* the priorities used, integers
  HeapValues,   \* the values pushed with them
  MaxHeap       \* bound on the number of elements

VARIABLES
  obj,          \* the heap: its array as a sequence, element i at index i + 1
  spec          \* ghost: the bag of pairs pushed and not popped

Pair(p, v) == [key |-> p, val |-> v]

heap4_parent(i) == (i - 1) \div 4
heap4_first_child(i) == 4 * i + 1
Swap(h, i, j) == [h EXCEPT ![i + 1] = h[j + 1], ![j + 1] = h[i + 1]]

\* The first of the children with the smallest key.
heap4_min_child(h, first, count) ==
  CHOOSE c \in first .. first + count - 1 :
    \A d \in first .. first + count - 1 :
      h[c + 1].key < h[d + 1].key \/ (h[c + 1].key = h[d + 1].key /\ c <= d)

RECURSIVE heap4_sift_up(_, _)
heap4_sift_up(h, pos) ==
  LET p == heap4_parent(pos)
  IN  IF pos = 0 \/ h[p + 1].key <= h[pos + 1].key THEN h
      ELSE heap4_sift_up(Swap(h, pos, p), p)

RECURSIVE heap4_sift_down(_, _)
heap4_sift_down(h, pos) ==
  LET first == heap4_first_child(pos)
      child == heap4_min_child(h, first, Min({4, Len(h) - first}))
  IN  IF first >= Len(h) \/ h[child + 1].key >= h[pos + 1].key THEN h
      ELSE heap4_sift_down(Swap(h, pos, child), child)

cell_heap_push(h, p, v) == heap4_sift_up(Append(h, Pair(p, v)), Len(h))

cell_heap_pop(h) ==
  IF Len(h) <= 1 THEN << >>
  ELSE heap4_sift_down([Front(h) EXCEPT ![1] = Last(h)], 0)

cell_heap_peek(h) == h[1]

\* A copy is popped until it is empty.
RECURSIVE cell_heap_to_list(_)
cell_heap_to_list(h) ==
  IF h = << >> THEN << >> ELSE <<h[1]>> \o cell_heap_to_list(cell_heap_pop(h))

PushAll(h, es) == FoldLeft(LAMBDA g, e : cell_heap_push(g, e.key, e.val), h, es)
cell_heap_merge(h1, h2) == PushAll(PushAll(<< >>, h1), h2)

-----------------------------------------------------------------------------
(* The primitives; popping an empty heap is an error.                        *)

Init == obj = << >> /\ spec = EmptyBag

prim_heap_push(p, v) ==
  /\ Len(obj) < MaxHeap
  /\ obj' = cell_heap_push(obj, p, v)
  /\ spec' = spec (+) SetToBag({Pair(p, v)})

prim_heap_pop ==
  /\ obj # << >>
  /\ obj' = cell_heap_pop(obj)
  /\ spec' = spec (-) SetToBag({cell_heap_peek(obj)})

\* The variable is rebound to the merge of the heap with a heap of two.
prim_heap_merge(p, q, v) ==
  LET other == PushAll(<< >>, <<Pair(p, v), Pair(q, v)>>)
  IN  /\ Len(obj) + 2 <= MaxHeap
      /\ obj' = cell_heap_merge(obj, other)
      /\ spec' = spec (+) (SetToBag({Pair(p, v)}) (+) SetToBag({Pair(q, v)}))

Next ==
  \/ \E p \in Priorities, v \in HeapValues : prim_heap_push(p, v)
  \/ prim_heap_pop
  \/ \E p, q \in Priorities, v \in HeapValues : prim_heap_merge(p, q, v)

-----------------------------------------------------------------------------
BagOf(h) == [e \in ToSet(h) |-> Cardinality({i \in DOMAIN h : h[i] = e})]

\* Every pair once, the smallest at the root, the list in order of priority.
Agrees ==
  LET list == cell_heap_to_list(obj)
  IN  /\ BagOf(obj) = spec /\ BagOf(list) = spec
      /\ \A i \in 1..Len(list)-1 : list[i].key <= list[i + 1].key
      /\ obj # << >> => \A e \in BagToSet(spec) : cell_heap_peek(obj).key <= e.key
=============================================================================
