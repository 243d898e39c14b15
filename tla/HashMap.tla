------------------------------- MODULE HashMap --------------------------------
(* The open-addressing hash map of cell.c: control groups probed in          *)
(* triangular order, tombstones, growth by doubling.  The map is compared    *)
(* with a plain function from keys to values.                                *)
(*                                                                           *)
(* Data left out: the 7-bit tag h2 (it only narrows the keys compared), the  *)
(* mirror control bytes (never read), reference counts.                      *)
EXTENDS Integers, Sequences, FiniteSetsExt, SequencesExt

CONSTANTS
  MapKeys,      \* the keys a program uses
  MapValues,    \* the values it stores
  Nil,          \* the nil cell, the answer for an absent key
  MapOperands,  \* the lists of entries the second map of a merge is built from
  MapHash,      \* [MapKeys -> Nat], the part H1 of the hash that picks a group
  GroupWidth,   \* GROUP_WIDTH, slots per control group (16 or 8 in the code)
  MaxMapCap     \* bound: no operation is taken that would grow past it

VARIABLES
  obj,          \* the map: capacity, growth_left, size and slots
  spec          \* ghost: the function it stands for, and the keys overtaken

Empty == [ctrl |-> "EMPTY"]
Deleted == [ctrl |-> "DELETED"]
Entry(k, v) == [ctrl |-> "FULL", key |-> k, value |-> v]
NotFound == -1
Hangs == -2     \* the probe loop has no exit

-----------------------------------------------------------------------------
(* The table. *)

RoundUp(n) == Min({c \in {GroupWidth * 2^i : i \in 0..4} : c >= n})

cell_hashmap_new(n) ==
  LET cap == RoundUp(n)
  IN  [cap |-> cap, size |-> 0, growth_left |-> (cap * 7) \div 8,
       slots |-> [s \in 0..cap-1 |-> Empty]]

Full(m, s) == m.slots[s].ctrl = "FULL"
FullSlots(m) == {s \in 0..m.cap-1 : Full(m, s)}
Tombstones(m) == {s \in 0..m.cap-1 : m.slots[s] = Deleted}
Groups(m) == m.cap \div GroupWidth
GroupOf(m, s) == s \div GroupWidth
SlotsOf(g) == g * GroupWidth .. g * GroupWidth + GroupWidth - 1
HasEmpty(m, g) == \E s \in SlotsOf(g) : m.slots[s] = Empty

\* The group inspected at the i-th step for a key (offsets 0, 1, 3, 6, ...).
Probe(m, k, i) == (MapHash[k] + (i * (i + 1)) \div 2) % Groups(m)

\* A power of two of groups is covered by the first Groups(m) steps.
Steps(m) == 0..Groups(m)-1

hashmap_find(m, k) ==
  LET hits(i) == {s \in SlotsOf(Probe(m, k, i)) : Full(m, s) /\ m.slots[s].key = k}
      ends == {i \in Steps(m) : hits(i) # {} \/ HasEmpty(m, Probe(m, k, i))}
  IN  IF ends = {} THEN Hangs
      ELSE IF hits(Min(ends)) = {} THEN NotFound
      ELSE Min(hits(Min(ends)))

hashmap_find_insert_slot(m, k) ==
  LET free(i) == {s \in SlotsOf(Probe(m, k, i)) : ~Full(m, s)}
      ends == {i \in Steps(m) : free(i) # {}}
  IN  Min(free(Min(ends)))

\* The entries in the order the loops over the slots meet them.
Entries(m) == SelectSeq([i \in 1..m.cap |-> m.slots[i-1]], LAMBDA e : e.ctrl = "FULL")

hashmap_resize(m, newcap) ==
  LET moved == FoldLeft(LAMBDA t, e :
                          [t EXCEPT !.slots[hashmap_find_insert_slot(t, e.key)] = e],
                        cell_hashmap_new(newcap), Entries(m))
  IN  [moved EXCEPT !.size = m.size,
                    !.growth_left = (newcap * 7) \div 8 - m.size]

cell_hashmap_put(m, k, v) ==
  LET at == hashmap_find(m, k)
      t == IF m.growth_left = 0 THEN hashmap_resize(m, 2 * m.cap) ELSE m
      s == hashmap_find_insert_slot(t, k)
  IN  IF at >= 0
      THEN [m EXCEPT !.slots[at].value = v]
      ELSE [t EXCEPT !.slots[s] = Entry(k, v),
                     !.size = @ + 1,
                     !.growth_left = IF t.slots[s] = Empty THEN @ - 1 ELSE @]

\* A freed slot becomes empty again when the NEXT group has an empty slot.
NextGroupHasEmpty(m, s) == HasEmpty(m, (GroupOf(m, s) + 1) % Groups(m))

\* Mutant: a tombstone gives its growth back too.
cell_hashmap_delete_credit(m, k) ==
  LET s == hashmap_find(m, k)
  IN  IF s < 0 THEN m
      ELSE [m EXCEPT !.slots[s] = IF NextGroupHasEmpty(m, s) THEN Empty ELSE Deleted,
                     !.growth_left = @ + 1, !.size = @ - 1]

cell_hashmap_delete(m, k) ==
  LET s == hashmap_find(m, k)
  IN  IF s < 0 THEN m
      ELSE IF NextGroupHasEmpty(m, s)
      THEN [m EXCEPT !.slots[s] = Empty, !.growth_left = @ + 1, !.size = @ - 1]
      ELSE [m EXCEPT !.slots[s] = Deleted, !.size = @ - 1]

cell_hashmap_get(m, k) ==
  IF m.size = 0 THEN Nil
  ELSE LET s == hashmap_find(m, k)
       IN  IF s = Hangs THEN Hangs ELSE IF s < 0 THEN Nil ELSE m.slots[s].value

cell_hashmap_has(m, k) == m.size # 0 /\ hashmap_find(m, k) >= 0

\* Lists are consed while walking the slots upwards.
cell_hashmap_entries(m) == Reverse(Entries(m))
KeyCount(m, k) == Len(SelectSeq(cell_hashmap_entries(m), LAMBDA e : e.key = k))

PutAll(m, es) == FoldLeft(LAMBDA t, e : cell_hashmap_put(t, e.key, e.value), m, es)

cell_hashmap_merge(m1, m2) ==
  LET est == m1.size + m2.size
      new == cell_hashmap_new(IF est < GroupWidth THEN GroupWidth ELSE est * 2)
  IN  PutAll(PutAll(new, Entries(m1)), Entries(m2))

-----------------------------------------------------------------------------
(* The primitives.  An argument of another type is answered with an error    *)
(* before anything changes, so it is no step; the queries are the operators  *)
(* the properties compare.                                                   *)

\* Keys stored beyond group g on their probe path: they needed g to stay full.
Beyond(m, s) ==
  {m.slots[t].key : t \in {u \in FullSlots(m) :
      LET k == m.slots[u].key
          reached == Min({i \in Steps(m) : Probe(m, k, i) = GroupOf(m, u)})
      IN  \E i \in Steps(m) : i < reached /\ Probe(m, k, i) = GroupOf(m, s)}}

Init ==
  /\ obj = cell_hashmap_new(GroupWidth)
  /\ spec = [fun |-> [k \in MapKeys |-> Nil], overtaken |-> {}]

prim_hashmap_put(k, v) ==
  /\ obj' = cell_hashmap_put(obj, k, v)
  /\ obj'.cap <= MaxMapCap
  /\ spec' = [spec EXCEPT !.fun[k] = v]

prim_hashmap_del(k) ==
  LET s == hashmap_find(obj, k)
  IN  /\ obj' = cell_hashmap_delete(obj, k)
      /\ spec' = [fun |-> [spec.fun EXCEPT ![k] = Nil],
                  overtaken |-> spec.overtaken \cup
                    (IF s >= 0 /\ obj'.slots[s] = Empty /\ ~HasEmpty(obj, GroupOf(obj, s))
                     THEN Beyond(obj, s) ELSE {})]

\* hashmap-merge with a map built from a list of pairs, the variable rebound.
prim_hashmap_merge(es) ==
  LET m2 == PutAll(cell_hashmap_new(GroupWidth), es)
  IN  /\ obj' = cell_hashmap_merge(obj, m2)
      /\ obj'.cap <= MaxMapCap
      /\ spec' = [spec EXCEPT !.fun = [k \in MapKeys |->
                    IF cell_hashmap_has(m2, k) THEN cell_hashmap_get(m2, k) ELSE @[k]]]

Next ==
  \/ \E k \in MapKeys, v \in MapValues : prim_hashmap_put(k, v)
  \/ \E k \in MapKeys : prim_hashmap_del(k)
  \/ \E es \in MapOperands : prim_hashmap_merge(es)

-----------------------------------------------------------------------------
(* Properties. *)

Answer(k) == cell_hashmap_get(obj, k)

Agrees ==
  \A k \in MapKeys \ spec.overtaken :
    /\ Answer(k) = spec.fun[k]
    /\ cell_hashmap_has(obj, k) <=> spec.fun[k] # Nil
    /\ KeyCount(obj, k) = (IF spec.fun[k] = Nil THEN 0 ELSE 1)

Accounted ==
  /\ obj.size = Cardinality(FullSlots(obj))
  /\ obj.growth_left + obj.size + Cardinality(Tombstones(obj)) = (obj.cap * 7) \div 8
  /\ \A k \in MapKeys : hashmap_find(obj, k) # Hangs

NeverForgets == \A k \in MapKeys : Answer(k) = spec.fun[k]
=============================================================================
