----------------------------- MODULE BoundedFifo -----------------------------
(***************************************************************************)
(* What a Guage queue promises its callers, whichever of the three queues  *)
(* it is (channel buffer, actor mailbox, global run queue): a FIFO of at   *)
(* most Capacity messages.  A send that succeeds appends one message, a    *)
(* receive that succeeds removes the oldest one and gives it to exactly    *)
(* one caller, and nothing is queued once the queue is destroyed.          *)
(* VyukovRing is shown to implement this specification.                    *)
(***************************************************************************)
EXTENDS Naturals, Sequences

CONSTANTS Capacity,    \* the largest number of queued messages
          Receivers,   \* the callers of the receive operation
          Msg,         \* the messages
          None         \* "no message in hand"

VARIABLES queue,       \* the messages sent and not yet received, oldest first
          hand         \* hand[r]: the message receiver r obtained and will return

fifoVars == <<queue, hand>>

FifoInit == /\ queue = <<>>
            /\ hand = [r \in Receivers |-> None]

(* A successful send. *)
Enqueue == /\ Len(queue) < Capacity
           /\ \E m \in Msg : queue' = Append(queue, m)
           /\ UNCHANGED hand

(* A successful receive: the oldest message changes hands. *)
Dequeue == /\ queue # <<>>
           /\ \E r \in Receivers : /\ hand[r] = None
                                   /\ hand' = [hand EXCEPT ![r] = Head(queue)]
           /\ queue' = Tail(queue)

(* The receive call returns the message to its caller. *)
Return == /\ \E r \in Receivers : /\ hand[r] # None
                                  /\ hand' = [hand EXCEPT ![r] = None]
          /\ UNCHANGED queue

(* The queue is destroyed with whatever it still holds. *)
Destroy == /\ queue' = <<>>
           /\ UNCHANGED hand

FifoNext == Enqueue \/ Dequeue \/ Return \/ Destroy

FifoSpec == FifoInit /\ [][FifoNext]_fifoVars
=============================================================================
