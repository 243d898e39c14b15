SPECIFICATION Spec
CONSTANTS
  Capacity = 2
  Senders = {s1, s2}
  Receivers = {r1, r2}
  Msg = {m1, m2}
  None = None
  CountGated = FALSE
  MaxPos = 3
SYMMETRY Symmetry
INVARIANTS TypeOK SlotExclusive RingInv ReceivedIsSent CountAccurate NothingLeaks
PROPERTIES RefusalJustified ImplementsFifo
CHECK_DEADLOCK FALSE
