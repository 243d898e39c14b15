----------------------------- MODULE LinearCells ------------------------------
(* The linear containers of cell.c: the double-ended queue (a ring with      *)
(* free-running indices), the vector (four inline slots, then heap buffers   *)
(* growing by half) and the byte buffer (doubling).  Each is compared with a *)
(* sequence.                                                                 *)
EXTENDS Integers, Sequences, FiniteSetsExt, SequencesExt

CONSTANTS
  CellItems,    \* what a deque or a vector holds; numbers of a byte, 0 included
  NoItem,       \* a cleared slot
  DequeMinCap,  \* DEQUE_MIN_CAP, 8 in the code
  IndexMod,     \* the indices of a deque are counted modulo this (2^32)
  InlineCap,    \* VEC_SBO_CAP, 4 in the code
  HeapCap,      \* VEC_INITIAL_HEAP_CAP, 8 in the code
  BufferMinCap, \* BUFFER_MIN_CAP, 64 in the code
  MaxLen        \* bound on the length of every container

VARIABLES
  obj,          \* the container
  spec          \* ghost: the sequence it stands for

PowerOfTwo(n) == \A d \in 2..n : n % d = 0 => d % 2 = 0

\* What is assumed of the constants.  A container holds at most half of what
\* an index counts, so that no capacity overflows when it grows.
LinearConstants ==
  /\ NoItem \notin CellItems /\ MaxLen \in Nat
  /\ DequeMinCap \in Nat \ {0} /\ IndexMod \in Nat \ {0} /\ PowerOfTwo(IndexMod)
  /\ IndexMod % DequeMinCap = 0 /\ 2 * MaxLen <= IndexMod
  /\ InlineCap \in Nat /\ HeapCap \in Nat /\ HeapCap >= 2 /\ InlineCap < HeapCap
  /\ BufferMinCap \in Nat \ {0}

\* The capacities doubled from min, and the first of them that holds n.
Doublings(min, n) ==
  LET cap[k \in 0..n] == IF k = 0 THEN min ELSE 2 * cap[k - 1] IN cap
Doubled(min, n) == Min({c \in {Doublings(min, n)[k] : k \in 0..n} : c >= n})

-----------------------------------------------------------------------------
(* Deque: buffer[head .. tail-1], indices masked by the capacity.            *)

cell_deque_new(n) ==
  LET cap == Doubled(DequeMinCap, n)
  IN  [kind |-> "deque", cap |-> cap, head |-> 0, tail |-> 0,
       buffer |-> [i \in 0..cap-1 |-> NoItem]]

cell_deque_size(d) == (d.tail - d.head) % IndexMod
Slot(d, i) == (i % IndexMod) % d.cap

\* Mutant: the second part is copied over the first.
deque_grow_overlap(d) ==
  LET h == Slot(d, d.head)
      size == cell_deque_size(d)
  IN  [d EXCEPT !.cap = 2 * @, !.head = 0, !.tail = size,
                !.buffer = [i \in 0..2 * d.cap - 1 |->
                              IF i < d.cap - h THEN d.buffer[h + i] ELSE NoItem]]

\* The ring is unwrapped into the front of a buffer of twice the capacity: one
\* copy when head is below tail, else the end of the old buffer and its start.
deque_grow(d) ==
  LET h == Slot(d, d.head)
      t == Slot(d, d.tail)
      size == cell_deque_size(d)
      first == d.cap - h
      at(i) == IF h < t THEN d.buffer[h + i]
               ELSE IF i < first THEN d.buffer[h + i] ELSE d.buffer[i - first]
  IN  [d EXCEPT !.cap = 2 * @, !.head = 0, !.tail = size,
                !.buffer = [i \in 0..2 * d.cap - 1 |-> IF i < size THEN at(i) ELSE NoItem]]

Roomy(d) == IF cell_deque_size(d) = d.cap THEN deque_grow(d) ELSE d

cell_deque_push_front(d, v) ==
  LET r == Roomy(d)
      head == (r.head - 1) % IndexMod
  IN  [r EXCEPT !.head = head, !.buffer[Slot(r, head)] = v]

cell_deque_push_back(d, v) ==
  LET r == Roomy(d)
  IN  [r EXCEPT !.tail = (@ + 1) % IndexMod, !.buffer[Slot(r, r.tail)] = v]

cell_deque_pop_front(d) ==
  IF cell_deque_size(d) = 0 THEN d
  ELSE [d EXCEPT !.buffer[Slot(d, d.head)] = NoItem, !.head = (@ + 1) % IndexMod]

cell_deque_pop_back(d) ==
  LET tail == (d.tail - 1) % IndexMod
  IN  IF cell_deque_size(d) = 0 THEN d
      ELSE [d EXCEPT !.tail = tail, !.buffer[Slot(d, tail)] = NoItem]

cell_deque_peek_front(d) ==
  IF cell_deque_size(d) = 0 THEN NoItem ELSE d.buffer[Slot(d, d.head)]

cell_deque_peek_back(d) ==
  IF cell_deque_size(d) = 0 THEN NoItem ELSE d.buffer[Slot(d, d.tail - 1)]

cell_deque_to_list(d) ==
  [i \in 1..cell_deque_size(d) |-> d.buffer[Slot(d, d.head + i - 1)]]

\* The primitives that change a deque; popping an empty one is an error.
prim_deque(v) ==
  \/ /\ Len(spec) < MaxLen
     /\ \/ obj' = cell_deque_push_front(obj, v) /\ spec' = <<v>> \o spec
        \/ obj' = cell_deque_push_back(obj, v) /\ spec' = Append(spec, v)
  \/ /\ spec # << >>
     /\ \/ obj' = cell_deque_pop_front(obj) /\ spec' = Tail(spec)
        \/ obj' = cell_deque_pop_back(obj) /\ spec' = Front(spec)

-----------------------------------------------------------------------------
(* Vector.  buf numbers the heap buffer in use, 0 for the inline slots.      *)

vec_next_cap(n) == n + n \div 2

HeapCaps(n) ==
  LET cap[k \in 0..n] == IF k = 0 THEN HeapCap ELSE vec_next_cap(cap[k - 1]) IN cap

VectorCap(n) ==
  IF n <= InlineCap THEN InlineCap
  ELSE Min({c \in {HeapCaps(n)[k] : k \in 0..n} : c >= n})

cell_vector_new(n) ==
  [kind |-> "vector", cap |-> VectorCap(n), size |-> 0, buf |-> IF n <= InlineCap THEN 0 ELSE 1,
   elems |-> [i \in 0..VectorCap(n)-1 |-> NoItem]]

vector_grow(v) ==
  LET cap == IF v.cap <= InlineCap THEN HeapCap ELSE vec_next_cap(v.cap)
  IN  [v EXCEPT !.cap = cap, !.buf = @ + 1,
                !.elems = [i \in 0..cap-1 |-> IF i < v.size THEN v.elems[i] ELSE NoItem]]

cell_vector_push(v, x) ==
  LET r == IF v.size = v.cap THEN vector_grow(v) ELSE v
  IN  [r EXCEPT !.elems[r.size] = x, !.size = @ + 1]

cell_vector_pop(v) ==
  IF v.size = 0 THEN v ELSE [v EXCEPT !.size = @ - 1, !.elems[v.size - 1] = NoItem]

cell_vector_get(v, i) == IF i >= v.size THEN NoItem ELSE v.elems[i]
cell_vector_set(v, i, x) == IF i >= v.size THEN v ELSE [v EXCEPT !.elems[i] = x]
cell_vector_to_list(v) == [i \in 1..v.size |-> v.elems[i - 1]]

\* The bounds of a slice are clamped to the size, an inverted one is empty.
Clamped(size, from, to) ==
  LET s == Min({from, size})
  IN  [start |-> s, len |-> Max({s, Min({to, size})}) - s]

cell_vector_slice(v, from, to) ==
  LET c == Clamped(v.size, from, to)
  IN  [cell_vector_new(c.len) EXCEPT
         !.size = c.len,
         !.elems = [i \in DOMAIN @ |-> IF i < c.len THEN v.elems[c.start + i] ELSE NoItem]]

\* vector-map keeps the size and the buffer it started with while it calls the
\* function.  Here the function pushes x on the mapped vector at its first
\* call and returns its argument.  Elements are then read from the old buffer,
\* which has been freed when the push moved a heap buffer; the inline slots
\* stay, except the first, which has been read by then.
MappedWhilePushing(v, x) ==
  LET w == cell_vector_push(v, x)
      live == w.buf = v.buf \/ v.buf = 0
  IN  [freed |-> ~live,
       result |-> [i \in 1..v.size |-> IF i = 1 \/ live THEN v.elems[i - 1] ELSE NoItem]]

prim_vector(x) ==
  \/ /\ Len(spec) < MaxLen
     /\ obj' = cell_vector_push(obj, x) /\ spec' = Append(spec, x)
  \/ /\ spec # << >>
     /\ \/ obj' = cell_vector_pop(obj) /\ spec' = Front(spec)
        \/ \E i \in 0..Len(spec)-1 :
             obj' = cell_vector_set(obj, i, x) /\ spec' = [spec EXCEPT ![i + 1] = x]
  \/ \E from, to \in 0..MaxLen :
       /\ obj' = cell_vector_slice(obj, from, to)
       /\ spec' = SubSeq(spec, from + 1, Min({to, Len(spec)}))

-----------------------------------------------------------------------------
(* Byte buffer. *)

cell_buffer_new(n) ==
  LET cap == Doubled(BufferMinCap, n)
  IN  [kind |-> "buffer", cap |-> cap, size |-> 0, bytes |-> [i \in 0..cap-1 |-> 0]]

buffer_grow(b) ==
  [b EXCEPT !.cap = 2 * @,
            !.bytes = [i \in 0..2 * b.cap - 1 |-> IF i < b.size THEN b.bytes[i] ELSE 0]]

cell_buffer_append(b, x) ==
  LET r == IF b.size >= b.cap THEN buffer_grow(b) ELSE b
  IN  [r EXCEPT !.bytes[r.size] = x, !.size = @ + 1]

cell_buffer_set(b, i, x) == [b EXCEPT !.bytes[i] = x]
cell_buffer_to_list(b) == [i \in 1..b.size |-> b.bytes[i - 1]]

Filled(bs) ==
  LET b == cell_buffer_new(Len(bs))
  IN  [b EXCEPT !.size = Len(bs),
                !.bytes = [i \in DOMAIN @ |-> IF i < Len(bs) THEN bs[i + 1] ELSE 0]]

cell_buffer_concat(a, b) == Filled(cell_buffer_to_list(a) \o cell_buffer_to_list(b))

cell_buffer_slice(b, from, to) ==
  LET c == Clamped(b.size, from, to)
  IN  Filled(SubSeq(cell_buffer_to_list(b), c.start + 1, c.start + c.len))

\* A string ends at the first zero byte; the way back stores its bytes.
cell_buffer_to_string(b) ==
  LET zeros == {i \in 1..b.size : b.bytes[i - 1] = 0}
  IN  SubSeq(cell_buffer_to_list(b), 1, IF zeros = {} THEN b.size ELSE Min(zeros) - 1)

cell_buffer_from_string(str) == Filled(str)

prim_buffer(x) ==
  \/ /\ Len(spec) < MaxLen
     /\ obj' = cell_buffer_append(obj, x) /\ spec' = Append(spec, x)
  \/ \E i \in 0..Len(spec)-1 :
       obj' = cell_buffer_set(obj, i, x) /\ spec' = [spec EXCEPT ![i + 1] = x]
  \/ \E from, to \in 0..MaxLen :
       /\ obj' = cell_buffer_slice(obj, from, to)
       /\ spec' = SubSeq(spec, from + 1, Min({to, Len(spec)}))
  \/ /\ 2 * Len(spec) <= MaxLen
     /\ obj' = cell_buffer_concat(obj, obj) /\ spec' = spec \o spec

-----------------------------------------------------------------------------
Init ==
  /\ obj \in {cell_deque_new(0), cell_vector_new(InlineCap), cell_buffer_new(0)}
  /\ spec = << >>

Next ==
  \E x \in CellItems :
    \/ obj.kind = "deque" /\ prim_deque(x)
    \/ obj.kind = "vector" /\ prim_vector(x)
    \/ obj.kind = "buffer" /\ prim_buffer(x)

-----------------------------------------------------------------------------
DequeAgrees ==
  obj.kind = "deque" =>
    /\ cell_deque_to_list(obj) = spec
    /\ cell_deque_peek_front(obj) = IF spec = << >> THEN NoItem ELSE Head(spec)
    /\ cell_deque_peek_back(obj) = IF spec = << >> THEN NoItem ELSE Last(spec)
    /\ {i \in 0..obj.cap-1 : obj.buffer[i] # NoItem}
         = {Slot(obj, obj.head + i) : i \in 0..Len(spec)-1}

VectorAgrees ==
  obj.kind = "vector" =>
    /\ cell_vector_to_list(obj) = spec
    /\ \A i \in 0..MaxLen : cell_vector_get(obj, i) = IF i < Len(spec) THEN spec[i + 1] ELSE NoItem
    /\ \A x \in CellItems :
         LET m == MappedWhilePushing(obj, x)
         IN  m.result = spec \/ (m.freed /\ obj.size = obj.cap /\ obj.cap > InlineCap)

BufferAgrees ==
  obj.kind = "buffer" =>
    /\ cell_buffer_to_list(obj) = spec
    /\ (cell_buffer_to_list(cell_buffer_from_string(cell_buffer_to_string(obj))) = spec)
         <=> (0 \notin ToSet(spec))
=============================================================================
