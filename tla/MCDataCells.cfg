SPECIFICATION Spec
CONSTANTS
  DataKinds = {"hashmap", "hashset", "heap", "sorted_map", "trie", "iterator",
               "string", "graph", "structure", "pattern"}
  MapKeys = {"a", "b", "c", "d"}
  MapValues = {1, 2}
  MapHash <- MCMapHash
  MapOperands <- MCMapOperands
  GroupWidth = 2
  MaxMapCap = 4
  SetValues = {1, 2, 3, 4, 5}
  SetOrder <- MCSetOrder
  SetOperands <- MCSetOperands
  NoElem = NoElem
  SetHash <- MCSetHash
  GroupSlots = 3
  GroupLoad = 2
  MaxGroups = 4
  Priorities = {1, 2, 3}
  HeapValues = {7, 8}
  MaxHeap = 6
  TreeKeys = {1, 2, 3, 7, 18, 19, 20, 21}
  SortKey <- MCSortKey
  TermOrder <- MCTermOrder
  TreeValues = {101, 102}
  BTreeB = 4
  MaxTreeOps = 3
  Preloads = {4, 5, 17}
  NBytes = 6
  TrieKeys <- MCTrieKeys
  TrieValues = {101}
  N4 = 2
  N16 = 3
  N48 = 5
  MaxPrefix = 1
  TriePreloads <- MCTriePreloads
  MaxTrieOps = 4
  IterSources <- MCIterSources
  IterMates <- MCIterMates
  Hole = Hole
  BatchCap = 2
  IterGroup = 2
  TakeCounts = {3}
  MaxIters = 3
  MaxReads = 2
  MaxPushes = 1
  Words <- MCWords
  Counts <- MCCounts
  ChunkWidth = 2
  MaxText = 6
  MaxTextOps = 3
  NoIndex = NoIndex
  GraphSize = 3
  MaxGraphNodes = 2
  MaxGraphEdges = 4
  TypeTags = {"P", "Q"}
  Schemas <- MCSchemas
  VariantTags = {"A", "B"}
  FieldLists <- MCFieldLists
  NewValues = {3}
  TypeWorkers = {"w"}
  MaxDefinitions = 3
  MaxStructs = 1
  MaxUpdates = 1
  MatchPatterns <- MCPatterns
  MatchValues <- MCMatchValues
  MatchGuards = {"none", "true", "false"}
  MaxClauses = 2
  Nil = Nil
INVARIANTS
  HashTablesAgree OrderedAgree IteratorAgrees SearchesAgree StructuresSound
CHECK_DEADLOCK FALSE
