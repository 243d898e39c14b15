SPECIFICATION Spec
CONSTANTS
  Waiters = {w1, w2}
  Notifiers = {n1, n2}
  Platforms = {"linux"}
  MaxPosts = 2
INVARIANTS NoLostWakeup
CHECK_DEADLOCK FALSE
