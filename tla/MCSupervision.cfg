SPECIFICATION DeathSpec
CONSTANTS
  Actors = {a1, a2, a3}
  Threads = {t1, t2}
  MaxLinks = 2
  MaxMonitors = 2
  MaxCalls = 4
  SupThreads = {s1}
  Kinds = {"one_for_one", "one_for_all", "rest_for_one", "dynamic"}
  InitChildren = 3
  MaxActors = 7
  MaxSupChildren = 3
  SupMaxRestarts = 2
  MaxSupCalls = 4
  Awaiters = {"v", "w"}
  AwaitModes = {"poll", "threads"}
  MaxMail = 2
  Nil = Nil
SYMMETRY Symmetry
INVARIANTS AliveExact DownExactlyOnce LinksPropagate NoOrphans FailedAreReplaced TableStaysTrue AwaitSound
PROPERTIES SiblingsSpared
CHECK_DEADLOCK FALSE
