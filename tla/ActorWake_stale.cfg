SPECIFICATION Spec
CONSTANTS
  Scheds = {k1}
  Senders = {n1, n2}
  MailboxCap = 2
  Primitives = {"receive"}
  StoreModels = {"ordered"}
  MaxSends = 4
  MaxYields = 2
INVARIANTS NoStrandedMessage
CHECK_DEADLOCK FALSE
