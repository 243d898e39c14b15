------------------------------ MODULE Iterators -------------------------------
(* The lazy iterators of cell.c: a source is read in batches, a transformer  *)
(* asks its upstream to fill a batch of its own, and next hands out the      *)
(* elements of the last batch.  They are compared with the list each         *)
(* pipeline stands for.                                                      *)
(*                                                                           *)
(* An element is a sequence of integers, so that zip may pair two of them;   *)
(* a batch is the sequence of its selected elements; nil elements, which     *)
(* the terminal operations take for the end, are not among the sources.      *)
EXTENDS Integers, Sequences, FiniteSetsExt, SequencesExt

CONSTANTS
  IterSources,   \* a sequence of collections [kind, slots]
  IterMates,     \* bound: the pairs of sources that are used together
  Hole,          \* an empty slot of a hash table
  BatchCap,      \* ITER_BATCH_CAP (256 in the code)
  IterGroup,     \* GROUP_WIDTH, control bytes of a hash map read at once
  TakeCounts,    \* the numbers given to take and drop
  MaxIters,      \* bound on the iterators made
  MaxReads,      \* bound on the operations that consume
  MaxPushes      \* bound on the changes of a vector under iteration

VARIABLES
  obj,           \* [src, it]: the collections and the iterators made so far
  spec           \* ghost: what every iterator delivered, and what went astray

Aux == INSTANCE Heap4 WITH Priorities <- {}, HeapValues <- {}, MaxHeap <- 0

Fn(x) == <<10>> \o x  \* the function given to map
Pred(x) == Last(x) % 2 = 1

IndexKinds == {"vector", "deque", "buffer"}
SourceKinds == IndexKinds \cup {"list", "hashmap", "slots", "trie", "heap"}

Source(o, i) == o.src[o.it[i].src]
Filled(o, out) == [o |-> o, out |-> out, lost |-> FALSE]
Dry(o, i) == Filled([o EXCEPT !.it[i].exhausted = TRUE], << >>)
Fewest(a, b) == IF a < b THEN a ELSE b
First(s, n) == SubSeq(s, 1, Fewest(n, Len(s)))

-----------------------------------------------------------------------------
(* One fill function per kind of source.                                     *)

\* A list, and the node list of a graph: known to be over when it ends here.
fill_list(o, i) ==
  LET s == Source(o, i).slots
      n == Fewest(BatchCap, Len(s) - o.it[i].pos)
  IN  Filled([o EXCEPT !.it[i].pos = @ + n,
                       !.it[i].exhausted = @ \/ o.it[i].pos + n = Len(s)],
             SubSeq(s, o.it[i].pos + 1, o.it[i].pos + n))

\* Indexed sources; the end is noticed by the fill that finds nothing.
fill_vector(o, i) ==
  LET s == Source(o, i).slots
      n == Fewest(BatchCap, Len(s) - o.it[i].pos)
  IN  IF n = 0 THEN Dry(o, i)
      ELSE Filled([o EXCEPT !.it[i].pos = @ + n],
                  SubSeq(s, o.it[i].pos + 1, o.it[i].pos + n))

\* A vector that shrank behind the index: size - idx wraps around and memory
\* behind the end is read.  What follows is undefined and not looked at.
Overrun(o, i) == o.it[i].kind \in IndexKinds /\ o.it[i].pos > Len(Source(o, i).slots)

\* Whole control groups; what a full batch leaves of a group is skipped.
fill_hashmap(o, i) ==
  LET s == Source(o, i).slots
      Occupied(from, to) == SelectSeq(SubSeq(s, from + 1, to), LAMBDA e : e # Hole)
      pos == o.it[i].pos
      ends == {e \in {pos + IterGroup * g : g \in 0..Len(s)} :
                 e <= Len(s) /\ (e = Len(s) \/ Len(Occupied(pos, e)) >= BatchCap)}
      end == IF pos >= Len(s) THEN pos ELSE Min(ends)
      found == IF pos >= Len(s) THEN << >> ELSE Occupied(pos, end)
  IN  [o |-> [o EXCEPT !.it[i].pos = end, !.it[i].exhausted = @ \/ end >= Len(s)],
       out |-> First(found, BatchCap), lost |-> Len(found) > BatchCap]

\* A hash set by group and slot, a sorted map by leaf and key: resumable.
fill_hashset(o, i) ==
  LET s == Source(o, i).slots
      pos == o.it[i].pos
      Taken(e) == SelectSeq(SubSeq(s, pos + 1, e), LAMBDA x : x # Hole)
      end == Min({e \in pos..Len(s) : e = Len(s) \/ Len(Taken(e)) = BatchCap})
  IN  Filled([o EXCEPT !.it[i].pos = end, !.it[i].exhausted = @ \/ end = Len(s)], Taken(end))

\* One walk of the whole trie; entries beyond the batch are left out.
fill_trie(o, i) ==
  LET s == Source(o, i).slots
      o1 == [o EXCEPT !.it[i].exhausted = TRUE]
  IN  IF o.it[i].exhausted THEN Dry(o, i)
      ELSE [o |-> o1, out |-> First(s, BatchCap), lost |-> Len(s) > BatchCap]

heap_aux_push(aux, key, idx) == Aux!cell_heap_push(aux, key, idx)
heap_aux_pop(aux) == Aux!cell_heap_pop(aux)

\* The heap is drained in order through a second heap of its indices.
RECURSIVE DrainHeap(_, _, _)
DrainHeap(keys, aux, out) ==
  IF aux = << >> \/ Len(out) = BatchCap THEN [aux |-> aux, out |-> out]
  ELSE LET idx == aux[1].val
           kids == SelectSeq([c \in 1..4 |-> 4 * idx + c], LAMBDA c : c < Len(keys))
           next == FoldLeft(LAMBDA a, c : heap_aux_push(a, keys[c + 1], c),
                            heap_aux_pop(aux), kids)
       IN  DrainHeap(keys, next, Append(out, <<aux[1].key>>))

fill_heap(o, i) ==
  LET keys == [j \in DOMAIN Source(o, i).slots |-> Source(o, i).slots[j][1]]
      d == DrainHeap(keys, o.it[i].aux, << >>)
  IN  Filled([o EXCEPT !.it[i].aux = d.aux, !.it[i].exhausted = @ \/ d.aux = << >>], d.out)

-----------------------------------------------------------------------------
(* Transformers.                                                             *)

Map(s) == [j \in DOMAIN s |-> Fn(s[j])]

RECURSIVE Fill(_, _)

fill_map(o, i) ==
  LET f == Fill(o, o.it[i].up[1])
  IN  IF f.out = << >> THEN Dry(f.o, i) ELSE [f EXCEPT !.out = Map(f.out)]

\* Batches of which nothing passes are dropped and the next one is asked for.
RECURSIVE fill_filter(_, _)
fill_filter(o, i) ==
  LET f == Fill(o, o.it[i].up[1])
      kept == SelectSeq(f.out, Pred)
      rest == fill_filter(f.o, i)
  IN  IF o.it[i].exhausted THEN Filled(o, << >>)
      ELSE IF f.out = << >> THEN Dry(f.o, i)
      ELSE IF kept # << >> THEN [f EXCEPT !.out = kept]
      ELSE [rest EXCEPT !.lost = @ \/ f.lost]

fill_take(o, i) ==
  LET f == Fill(o, o.it[i].up[1])
      n == Fewest(Len(f.out), o.it[i].pos)
  IN  IF o.it[i].pos = 0 THEN Dry(o, i)
      ELSE IF f.out = << >> THEN Dry(f.o, i)
      ELSE [f EXCEPT !.o.it[i].pos = @ - n, !.out = First(f.out, n)]

\* Mutant: the switch to the second iterator ends the first batch.
fill_chain_stop(o, i) ==
  LET f == Fill(o, o.it[i].up[1])
      o2 == IF o.it[i].pos = 0 THEN [f.o EXCEPT !.it[i].pos = 1] ELSE o
      g == Fill(o2, o.it[i].up[2])
  IN  IF o.it[i].pos = 0 /\ f.out # << >> THEN [f EXCEPT !.o.it[i].pos = 1]
      ELSE IF g.out = << >> THEN Dry(g.o, i) ELSE g

\* The first iterator is left for good at the first fill that finds nothing.
fill_chain(o, i) ==
  LET f == Fill(o, o.it[i].up[1])
      o2 == IF o.it[i].pos = 0 THEN [f.o EXCEPT !.it[i].pos = 1] ELSE o
      g == Fill(o2, o.it[i].up[2])
  IN  IF o.it[i].pos = 0 /\ f.out # << >> THEN f
      ELSE IF g.out = << >> THEN Dry(g.o, i) ELSE g

\* One batch of each side is paired; the surplus of the longer one is dropped.
fill_zip(o, i) ==
  LET l == Fill(o, o.it[i].up[1])
      r == Fill(l.o, o.it[i].up[2])
      n == Fewest(Len(l.out), Len(r.out))
      shorter == IF n = Len(l.out) THEN o.it[i].up[1] ELSE o.it[i].up[2]
  IN  IF n = 0 THEN Dry(r.o, i)
      ELSE [o |-> r.o, out |-> [j \in 1..n |-> l.out[j] \o r.out[j]],
            lost |-> \/ l.lost \/ r.lost
                     \/ Len(l.out) # Len(r.out) /\ Fill(r.o, shorter).out # << >>]

\* d->fill, the function chosen when the iterator was made.
Fill(o, i) ==
  LET k == o.it[i].kind
  IN  CASE k = "list" -> fill_list(o, i)
        [] k \in IndexKinds -> fill_vector(o, i)
        [] k = "hashmap" -> fill_hashmap(o, i)
        [] k = "slots" -> fill_hashset(o, i)
        [] k = "trie" -> fill_trie(o, i)
        [] k = "heap" -> fill_heap(o, i)
        [] k = "map" -> fill_map(o, i)
        [] k = "filter" -> fill_filter(o, i)
        [] k = "take" -> fill_take(o, i)
        [] k = "chain" -> fill_chain(o, i)
        [] k = "zip" -> fill_zip(o, i)

\* next: the batch at hand, or else a new one; an empty one is the end.
Buffered(o, i) == o.it[i].cursor < Len(o.it[i].batch)

HandOut(f, i) ==
  IF f.out = << >> THEN [Dry(f.o, i) EXCEPT !.lost = f.lost]
  ELSE [o |-> [f.o EXCEPT !.it[i].batch = f.out, !.it[i].cursor = 1],
        out |-> <<Head(f.out)>>, lost |-> f.lost]

cell_iterator_next(o, i) ==
  IF Buffered(o, i)
  THEN [o |-> [o EXCEPT !.it[i].cursor = @ + 1],
        out |-> <<o.it[i].batch[o.it[i].cursor + 1]>>, lost |-> FALSE]
  ELSE HandOut(Fill([o EXCEPT !.it[i].batch = << >>, !.it[i].cursor = 0], i), i)

cell_iterator_done(o, i) == o.it[i].exhausted /\ ~Buffered(o, i)

\* Repeats next until it answers nil, or n elements were taken, or, for find
\* and its kin, an element satisfies the predicate.
Joined(f, g) == [g EXCEPT !.out = f.out \o g.out, !.lost = @ \/ f.lost]
RECURSIVE Consume(_, _, _, _), ConsumeOn(_, _, _, _, _)
ConsumeOn(f, g, i, n, find) ==
  IF g.out = << >> \/ (find /\ Pred(Head(g.out))) THEN Joined(f, g)
  ELSE Consume(Joined(f, g), i, n - 1, find)
Consume(f, i, n, find) ==
  IF n = 0 THEN f ELSE ConsumeOn(f, cell_iterator_next(f.o, i), i, n, find)

All == 100     \* more than any source delivers
cell_iterator_collect(o, i) == Consume(Filled(o, << >>), i, All, FALSE)
iter_find(o, i) == Consume(Filled(o, << >>), i, All, TRUE)
cell_iterator_drop(o, i, n) == Consume(Filled(o, << >>), i, n, FALSE)

-----------------------------------------------------------------------------
(* The list a pipeline stands for.                                           *)

RECURSIVE Up(_, _)
Up(o, i) == {i} \cup UNION {Up(o, j) : j \in ToSet(o.it[i].up)}
Related(o, i) == {j \in DOMAIN o.it : Up(o, j) \cap Up(o, i) # {}}

RECURSIVE Ref(_)
Ref(i) ==
  LET n == obj.it[i]
      s == obj.src[n.src].slots
      In(j) == SubSeq(Ref(n.up[j]), spec.from[i][j] + 1, Len(Ref(n.up[j])))
  IN  CASE n.kind = "heap" -> SortSeq(s, LAMBDA x, y : x[1] < y[1])
        [] n.kind \in SourceKinds \ {"heap"} -> SelectSeq(s, LAMBDA e : e # Hole)
        [] n.kind = "map" -> Map(In(1))
        [] n.kind = "filter" -> SelectSeq(In(1), Pred)
        [] n.kind = "take" -> First(In(1), n.arg)
        [] n.kind = "chain" -> In(1) \o In(2)
        [] n.kind = "zip" -> [j \in 1..Fewest(Len(In(1)), Len(In(2))) |-> In(1)[j] \o In(2)[j]]

-----------------------------------------------------------------------------
(* The primitives.  A collection given where an iterator is wanted is made   *)
(* into one first; the wrong type of argument is answered with an error.     *)

Init ==
  /\ obj = [src |-> IterSources, it |-> << >>]
  /\ spec = [got |-> << >>, from |-> << >>, astray |-> {}, ended |-> {},
             reads |-> 0, pushes |-> 0]

Node(kind, src, up, arg, aux) ==
  [kind |-> kind, src |-> src, up |-> up, arg |-> arg, pos |-> arg, aux |-> aux,
   batch |-> << >>, cursor |-> 0, exhausted |-> kind = "heap" /\ aux = << >>]

Make(node, astray) ==
  /\ Len(obj.it) < MaxIters
  /\ obj' = [obj EXCEPT !.it = Append(@, node)]
  /\ spec' = [spec EXCEPT !.got = Append(@, << >>),
                          !.from = Append(@, [j \in DOMAIN node.up |-> Len(spec.got[node.up[j]])]),
                          !.astray = IF astray THEN @ \cup {Len(obj.it) + 1} ELSE @]

cell_iterator_new(s) ==
  LET c == obj.src[s]
      aux == IF c.kind = "heap" /\ c.slots # << >>
             THEN heap_aux_push(<< >>, c.slots[1][1], 0) ELSE << >>
  IN  /\ obj.it = << >> \/ (Len(obj.it) = 1 /\ <<obj.it[1].src, s>> \in IterMates)
      /\ spec.reads = 0
      /\ Make(Node(c.kind, s, << >>, 0, aux), FALSE)

\* The elements an upstream has in its own batch are passed over.
PassedOver(i) == i \in spec.astray \/ Buffered(obj, i)

prim_iter_transform(kind, i, n) == Make(Node(kind, 1, <<i>>, n, << >>), PassedOver(i))

prim_iter_join(kind, i, j) ==
  Make(Node(kind, 1, <<i, j>>, 0, << >>),
       PassedOver(i) \/ PassedOver(j) \/ Up(obj, i) \cap Up(obj, j) # {})

\* Delivery through i takes elements from every iterator related to it.
Delivered(i, f, ended) ==
  /\ spec.reads < MaxReads
  /\ ~\E j \in Up(obj, i) : Overrun(obj, j)
  /\ obj' = f.o
  /\ spec' = [spec EXCEPT !.got[i] = @ \o f.out, !.reads = @ + 1,
                          !.astray = @ \cup (Related(obj, i) \ {i}) \cup (IF f.lost THEN {i} ELSE {}),
                          !.ended = IF ended THEN @ \cup {i} ELSE @]

NextAnswer(i, f) == Delivered(i, f, f.out = << >>)
prim_iter_next(i) == NextAnswer(i, cell_iterator_next(obj, i))

prim_iter_collect(i) == Delivered(i, cell_iterator_collect(obj, i), TRUE)

FindAnswer(i, f) == Delivered(i, f, f.out = << >> \/ ~Pred(Last(f.out)))
prim_iter_find(i) == FindAnswer(i, iter_find(obj, i))

DropAnswer(i, f, n) == Delivered(i, f, Len(f.out) < n)
prim_iter_drop(i, n) == DropAnswer(i, cell_iterator_drop(obj, i, n), n)

\* The vector changes under its iterators: the simple ones that are not over
\* see it, nothing is promised for the others.
Simple(i) ==
  \A j \in Up(obj, i) : /\ obj.it[j].kind \in {"vector", "map", "filter"}
                        /\ ~obj.it[j].exhausted

Changed(s, slots) ==
  /\ spec.pushes < MaxPushes
  /\ spec.reads > 0
  /\ obj.src[s].kind = "vector"
  /\ \E i \in DOMAIN obj.it : obj.it[i].kind = "vector" /\ obj.it[i].src = s
  /\ obj' = [obj EXCEPT !.src[s].slots = slots]
  /\ spec' = [spec EXCEPT
                !.pushes = @ + 1,
                !.astray = @ \cup {i \in DOMAIN obj.it :
                    \E j \in Up(obj, i) : /\ obj.it[j].src = s
                                          /\ obj.it[j].kind = "vector"
                                          /\ ~Simple(i) \/ obj.it[j].pos > Len(slots)}]

prim_vector_push_back(s) == Changed(s, Append(obj.src[s].slots, <<20 + spec.pushes>>))
prim_vector_pop_back(s) == obj.src[s].slots # << >> /\ Changed(s, Front(obj.src[s].slots))

Next ==
  \/ \E s \in DOMAIN IterSources : cell_iterator_new(s)
  \/ \E i \in DOMAIN obj.it :
       \/ prim_iter_transform("map", i, 0)
       \/ prim_iter_transform("filter", i, 0)
       \/ \E n \in TakeCounts : prim_iter_transform("take", i, n)
       \/ \E j \in DOMAIN obj.it : prim_iter_join("chain", i, j) \/ prim_iter_join("zip", i, j)
       \/ prim_iter_next(i)
       \/ prim_iter_collect(i)
       \/ prim_iter_find(i)
       \/ \E n \in TakeCounts : prim_iter_drop(i, n)
  \/ \E s \in DOMAIN IterSources : prim_vector_push_back(s) \/ prim_vector_pop_back(s)

-----------------------------------------------------------------------------
(* Properties. *)

Exact ==
  \A i \in DOMAIN obj.it \ spec.astray :
    /\ IsPrefix(spec.got[i], Ref(i))
    /\ i \in spec.ended \/ cell_iterator_done(obj, i) => spec.got[i] = Ref(i)

\* The collections an iterator reads, when no two of its parts read the same.
Unary(i) == \A j \in Up(obj, i) : Len(obj.it[j].up) <= 1
Ids(i) == {Last(e) : e \in ToSet(spec.got[i])}

NoRepeat ==
  \A i \in DOMAIN obj.it :
    Unary(i) =>
      /\ Cardinality(Ids(i)) = Len(spec.got[i])
      /\ \A j \in Related(obj, i) \ {i} :
           Unary(j) => Ids(i) \cap Ids(j) = {}
=============================================================================
