------------------------------- MODULE HashSet --------------------------------
(* The hash set of cell.c: groups of slots, each with an overflow byte that  *)
(* says, by hash class, whether an element was ever displaced past the       *)
(* group.  Removal clears the slot and leaves the overflow bits.             *)
EXTENDS Integers, Sequences, FiniteSetsExt, SequencesExt

CONSTANTS
  SetValues,    \* the elements a program uses
  SetOrder,     \* the elements as a sequence, the order operands are built in
  SetOperands,  \* the sets used as second operands
  NoElem,       \* HS_TAG_EMPTY, a slot without an element
  SetHash,      \* [SetValues -> [group: Nat, bit: Nat]]: home group, overflow bit
  GroupSlots,   \* HS_GROUP_SLOTS, 15 in the code
  GroupLoad,    \* elements allowed per group before growing, 13 in the code
  MaxGroups     \* bound: no element is added that would grow past it

VARIABLES
  obj,          \* the set: n_groups, ml_left, size, tags and overflow bytes
  spec          \* ghost: the elements it should hold

NotFound == -1
Hangs == -2

-----------------------------------------------------------------------------
RoundUp(n) == Min({c \in {2^i : i \in 0..4} : c >= n})

cell_hashset_new(n) ==
  LET ng == RoundUp(n)
  IN  [n_groups |-> ng, size |-> 0, ml_left |-> ng * GroupLoad,
       elem |-> [s \in 0..ng * GroupSlots - 1 |-> NoElem],
       ofw |-> [g \in 0..ng-1 |-> {}]]

SlotsOf(g) == g * GroupSlots .. g * GroupSlots + GroupSlots - 1
Probe(t, v, i) == (SetHash[v].group + (i * (i + 1)) \div 2) % t.n_groups
Steps(t) == 0..t.n_groups-1
Stored(t) == {s \in DOMAIN t.elem : t.elem[s] # NoElem}

hashset_find(t, v) ==
  LET hits(i) == {s \in SlotsOf(Probe(t, v, i)) : t.elem[s] = v}
      ends == {i \in Steps(t) : hits(i) # {} \/ SetHash[v].bit \notin t.ofw[Probe(t, v, i)]}
  IN  IF ends = {} THEN Hangs
      ELSE IF hits(Min(ends)) = {} THEN NotFound
      ELSE Min(hits(Min(ends)))

\* The first free slot on the probe path, and the full groups passed on it.
FreeSlots(t, v, i) == {s \in SlotsOf(Probe(t, v, i)) : t.elem[s] = NoElem}
FirstFree(t, v) == Min({i \in Steps(t) : FreeSlots(t, v, i) # {}})

hashset_find_insert_slot(t, v) ==
  [slot |-> Min(FreeSlots(t, v, FirstFree(t, v))),
   ofw |-> [g \in DOMAIN t.ofw |->
              IF \E i \in 0..FirstFree(t, v)-1 : Probe(t, v, i) = g
              THEN t.ofw[g] \cup {SetHash[v].bit} ELSE t.ofw[g]]]

Place(t, v) ==
  LET at == hashset_find_insert_slot(t, v)
  IN  [t EXCEPT !.elem[at.slot] = v, !.ofw = at.ofw]

\* The elements in the order the loops visit them.
Elements(t) == SelectSeq([i \in 1..t.n_groups * GroupSlots |-> t.elem[i-1]],
                         LAMBDA v : v # NoElem)

hashset_resize(t, ng) ==
  [FoldLeft(Place, cell_hashset_new(ng), Elements(t))
     EXCEPT !.size = t.size, !.ml_left = ng * GroupLoad - t.size]

cell_hashset_add(t, v) ==
  LET r == IF t.ml_left = 0 THEN hashset_resize(t, 2 * t.n_groups) ELSE t
  IN  IF hashset_find(t, v) # NotFound THEN t
      ELSE [Place(r, v) EXCEPT !.size = @ + 1, !.ml_left = @ - 1]

cell_hashset_remove(t, v) ==
  LET s == hashset_find(t, v)
  IN  IF s < 0 THEN t ELSE [t EXCEPT !.elem[s] = NoElem, !.size = @ - 1]

cell_hashset_has(t, v) == t.size # 0 /\ hashset_find(t, v) >= 0

AddAll(t, vs) == FoldLeft(cell_hashset_add, t, vs)

cell_hashset_union(t1, t2) ==
  LET groups == RoundUp((t1.size + t2.size + GroupLoad - 1) \div GroupLoad)
  IN  AddAll(AddAll(cell_hashset_new(groups), Elements(t1)), Elements(t2))

cell_hashset_intersection(t1, t2) ==
  AddAll(cell_hashset_new(1), SelectSeq(Elements(t1), LAMBDA v : cell_hashset_has(t2, v)))

cell_hashset_difference(t1, t2) ==
  AddAll(cell_hashset_new(1), SelectSeq(Elements(t1), LAMBDA v : ~cell_hashset_has(t2, v)))

cell_hashset_subset(t1, t2) ==
  t1.size <= t2.size /\ \A s \in Stored(t1) : cell_hashset_has(t2, t1.elem[s])

-----------------------------------------------------------------------------
(* The primitives; see HashMap for arguments of another type and queries.    *)

Of(S) == AddAll(cell_hashset_new(1), SelectSeq(SetOrder, LAMBDA v : v \in S))

Init == obj = cell_hashset_new(1) /\ spec = {}

prim_set_add(v) ==
  /\ obj' = cell_hashset_add(obj, v)
  /\ obj'.n_groups <= MaxGroups
  /\ spec' = spec \cup {v}

prim_set_remove(v) == obj' = cell_hashset_remove(obj, v) /\ spec' = spec \ {v}

\* The variable is rebound to the result of a set operation.
Combine(S) ==
  \/ obj' = cell_hashset_union(obj, Of(S)) /\ spec' = spec \cup S /\ obj'.n_groups <= MaxGroups
  \/ obj' = cell_hashset_intersection(obj, Of(S)) /\ spec' = spec \cap S
  \/ obj' = cell_hashset_difference(obj, Of(S)) /\ spec' = spec \ S

Next ==
  \/ \E v \in SetValues : prim_set_add(v) \/ prim_set_remove(v)
  \/ \E S \in SetOperands : Combine(S)

-----------------------------------------------------------------------------
Agrees ==
  /\ \A v \in SetValues : cell_hashset_has(obj, v) <=> v \in spec
  /\ obj.size = Cardinality(spec)
  /\ ToSet(Elements(obj)) = spec /\ IsInjective(Elements(obj))
  /\ \A S \in SetOperands :
       /\ cell_hashset_subset(obj, Of(S)) <=> spec \subseteq S
       /\ cell_hashset_subset(Of(S), obj) <=> S \subseteq spec

\* A miss is always answered: no hash class has its bit in every group.
ProbesEnd == \A v \in SetValues : hashset_find(obj, v) # Hangs
=============================================================================
