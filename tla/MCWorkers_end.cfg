SPECIFICATION WorkersSpec
CONSTANTS
  Parts = {"dispatch"}
  WakeScheds = {h1, h2}
  Senders = {n1, n2}
  MailboxCap = 2
  Primitives = {"receive", "call"}
  StoreModels = {"ordered", "buffered"}
  MaxSends = 3
  MaxYields = 2
  Scheds = {k0, k1}
  Zero = k0
  Actors = {a1, a2}
  NoActor = NoActor
  RetireCap = 2
  MaxEpoch = 2
  MaxEntries = 2
  Thieves = {t1}
  NE = 2
  B = 2
  MaxPush = 5
  Workers = {1}
  RunActors = {"a", "b"}
  HomeOf <- MCHomeOf
  TimerTargets = {"a"}
  MaxMessages = 2
  MaxPreempts = 1
  RefThreads = {"o", "u", "v"}
  RefOwner = "o"
  CountMod = 32
  MaxRefs = 3
  MaxRefOps = 6
  CellItems = {0, 1, 2}
  NoItem = NoItem
  DequeMinCap = 2
  IndexMod = 16
  InlineCap = 2
  HeapCap = 4
  BufferMinCap = 2
  MaxLen = 5
  MaxRuns = 2
  Nil = Nil
INVARIANT EndsWhenIdle
CHECK_DEADLOCK FALSE
