SPECIFICATION Spec
CONSTANTS
  Actors = {a1, a2, a3}
  Chans = {c1, c2}
  NoActor = NoActor
  Capacity = 2
  Modes = {"poll", "wake"}
  MaxOps <- MCMaxOps
INVARIANTS LossOnlyByClose OneEntryPerWait
PROPERTIES ReceiveNeverNil CloseEndsReceive
CHECK_DEADLOCK FALSE
