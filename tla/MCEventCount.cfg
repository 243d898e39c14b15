SPECIFICATION Spec
CONSTANTS
  Waiters = {w1, w2}
  Notifiers = {n1, n2}
  Platforms = {"apple", "fallback"}
  MaxPosts = 2
INVARIANTS WaitersExact
PROPERTIES WorkIsTaken ShutdownCompletes
CHECK_DEADLOCK FALSE
