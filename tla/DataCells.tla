------------------------------ MODULE DataCells ------------------------------
(* The cells that hold data side by side: a behaviour picks one kind of cell *)
(* and applies the primitives of that kind to it.  Each one is compared with *)
(* the mathematical object it stands for.                                    *)
EXTENDS Integers, Sequences, FiniteSets, TLC

CONSTANTS
  DataKinds,                                       \* the kinds of cells looked at
  MapKeys, MapValues, MapOperands, MapHash, GroupWidth, MaxMapCap,
  SetValues, SetOrder, SetOperands, NoElem, SetHash, GroupSlots, GroupLoad, MaxGroups,
  Priorities, HeapValues, MaxHeap,
  TreeKeys, SortKey, TermOrder, TreeValues, BTreeB, MaxTreeOps, Preloads,
  NBytes, TrieKeys, TrieValues, N4, N16, N48, MaxPrefix, TriePreloads, MaxTrieOps,
  IterSources, IterMates, Hole, BatchCap, IterGroup, TakeCounts, MaxIters, MaxReads, MaxPushes,
  Words, Counts, ChunkWidth, MaxText, MaxTextOps, NoIndex,
  GraphSize, MaxGraphNodes, MaxGraphEdges,
  TypeTags, Schemas, VariantTags, FieldLists, NewValues, TypeWorkers,
  MaxDefinitions, MaxStructs, MaxUpdates,
  MatchPatterns, MatchValues, MatchGuards, MaxClauses,
  Nil

VARIABLES kind, obj, spec
vars == <<kind, obj, spec>>

HM == INSTANCE HashMap
HS == INSTANCE HashSet
HP == INSTANCE Heap4
SM == INSTANCE SortedMap
RT == INSTANCE RadixTrie
IT == INSTANCE Iterators
SR == INSTANCE Strings
GR == INSTANCE GraphCells
ST == INSTANCE Structures
PM == INSTANCE PatternMatch

Init ==
  /\ kind \in DataKinds
  /\ \/ kind = "hashmap" /\ HM!Init
     \/ kind = "hashset" /\ HS!Init
     \/ kind = "heap" /\ HP!Init
     \/ kind = "sorted_map" /\ SM!Init
     \/ kind = "trie" /\ RT!Init
     \/ kind = "iterator" /\ IT!Init
     \/ kind = "string" /\ SR!Init
     \/ kind = "graph" /\ GR!Init
     \/ kind = "structure" /\ ST!Init
     \/ kind = "pattern" /\ PM!Init

Next ==
  /\ UNCHANGED kind
  /\ \/ kind = "hashmap" /\ HM!Next
     \/ kind = "hashset" /\ HS!Next
     \/ kind = "heap" /\ HP!Next
     \/ kind = "sorted_map" /\ SM!Next
     \/ kind = "trie" /\ RT!Next
     \/ kind = "iterator" /\ IT!Next
     \/ kind = "string" /\ SR!Next
     \/ kind = "graph" /\ GR!Next
     \/ kind = "structure" /\ ST!Next
     \/ kind = "pattern" /\ PM!Next

Spec == Init /\ [][Next]_vars

-----------------------------------------------------------------------------
(* Properties. *)

\* A hash map answers get, has and the listings like a function and a hash set
\* like a set, whatever puts, removals, growths and merges came before; the
\* load counts add up, so that every probe ends, and the overflow bits never
\* end one too early.  Keys of a map are exempt once a removal has turned a
\* slot they had been displaced by into an empty one: the code asks the next
\* group, not the removed slot's own, whether that is allowed.
HashTablesAgree ==
  /\ kind = "hashmap" => HM!Agrees /\ HM!Accounted
  /\ kind = "hashset" => HS!Agrees /\ HS!ProbesEnd

\* The heap holds the bag of what was pushed and not popped, its root is a
\* least one, and heap-to-list is ascending.  A sorted map answers like a
\* function on keys as cell_compare tells them apart, for every key that was
\* not dropped by the split of a leaf, shares its sort key with no other key
\* used and has no equal used under another sort key; its size is off by
\* exactly the dropped ones; the leaf chain is in the order of the sort keys,
\* and it, minimum, maximum, range, floor and ceiling agree with cell_compare
\* wherever the two orders agree on the keys used.  A trie answers like a function on byte strings over all four
\* node sizes, prefix splits and collapses, unless a compressed path is longer
\* than what a node stores of it or a removal has left a 48-slot node with a
\* slot in use twice; its longest-prefix query answers a stored prefix.
OrderedAgree ==
  /\ kind = "heap" => HP!Agrees
  /\ kind = "sorted_map" => SM!LookupAgrees /\ SM!SizeDriftExplained /\ SM!OrderAgrees
  /\ kind = "trie" => RT!TrieAgrees /\ RT!LongestPrefixSound

\* An iterator pipeline delivers the list it stands for, a prefix of it while
\* it runs and all of it when it says that it is over, unless elements were
\* passed over by design of the batches (see Iterators); and no element of a
\* collection is delivered twice, neither by one iterator nor by two that
\* share an upstream.
IteratorAgrees == kind = "iterator" => IT!Exact /\ IT!NoRepeat

\* The string searches that look at first and last bytes and at whole chunks
\* find the first or last occurrence there is; split, join, count and replace
\* fit together; slices, padding, trimming and repetition keep their lengths,
\* also at negative and excessive numbers.  Graph traversals visit each node
\* that can be reached once, in their order; a path answered is a shortest one
\* and missing only if there is none; the cycle search answers cycles that
\* exist, and at least one if there is any.
SearchesAgree ==
  /\ kind = "string" => SR!StringsSound
  /\ kind = "graph" => GR!SearchesSound

\* A context finds the last definition of a type made in it or before its run
\* began, a structure keeps the fields of its definition over updates; a match
\* binds what its pattern says, the first clause that fits is the one taken,
\* and a clause list accepted as exhaustive has an answer for every value.
StructuresSound ==
  /\ kind = "structure" => ST!StructuresSound
  /\ kind = "pattern" => PM!PatternsSound

\* Nothing put into a sorted map is forgotten.
SortedMapKeepsAll == kind = "sorted_map" => SM!NeverForgets
=============================================================================
