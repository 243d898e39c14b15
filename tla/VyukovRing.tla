----------------------------- MODULE VyukovRing ------------------------------
(***************************************************************************)
(* The Vyukov multi-producer multi-consumer ring that Guage uses three     *)
(* times: channel_try_send/channel_try_recv (channel.c), the mailbox of    *)
(* actor_send/actor_receive (actor.c) and global_queue_push/_pop           *)
(* (scheduler.c).  One action per shared-memory access of the C code, so   *)
(* that every interleaving of the callers is a behaviour.                  *)
(*                                                                         *)
(* Each slot carries a generation counter: seq = p means "free for the     *)
(* send at position p", seq = p + 1 means "holds the message of position   *)
(* p".  Positions are claimed by a compare-and-swap on enqueue_pos or      *)
(* dequeue_pos; the slot itself is written with plain stores, which is     *)
(* sound only if the counters keep every other thread out of it.           *)
(***************************************************************************)
EXTENDS Integers, Sequences, FiniteSets

CONSTANTS
  Capacity,    \* slots in the ring
  Senders,     \* threads that call the send operation
  Receivers,   \* threads that call the receive operation
  Msg,         \* message identities
  None,        \* the NULL pointer
  CountGated,  \* TRUE for the mailbox: actor_receive looks at count first
  MaxPos       \* bound: no send starts once MaxPos positions are claimed

(* next_pow2 never returns less than 2 (channel.c:21); MAILBOX_DEFAULT_CAP  *)
(* and GLOBAL_QUEUE_CAP are larger still.  With one slot, "free for p + 1"  *)
(* and "holds the message of p" would be the same counter value.            *)
ASSUME CapacityAssumption == Capacity \in Nat /\ Capacity >= 2
ASSUME NoneAssumption == None \notin Msg
ASSUME GateAssumption == CountGated \in BOOLEAN
ASSUME MaxPosAssumption == MaxPos \in Nat

VARIABLES
  enqueue_pos, dequeue_pos,  \* the two position counters
  sequence,                  \* sequence[i]: generation counter of slot i
  value,                     \* value[i]: payload pointer of slot i
  count,                     \* the approximate element count
  spc, spos, smsg,           \* a sender's program counter, local pos, message
  rpc, rpos, rval,           \* a receiver's program counter, local pos, result
  life,                      \* "live", or "freed" once the ring is destroyed
  drained,                   \* <<position, message>> pairs the destroy operation released
  sent                       \* history: sent[p + 1] is the message of position p

ringVars == <<enqueue_pos, dequeue_pos, sequence, value, count>>
sendVars == <<spc, spos, smsg>>
recvVars == <<rpc, rpos, rval>>
endVars  == <<life, drained>>
vars     == <<ringVars, sendVars, recvVars, endVars, sent>>

Slots == 0 .. (Capacity - 1)
SlotOf(p) == p % Capacity

SendPC == {"idle", "load", "read", "cas", "write", "publish", "count"}
RecvPC == {"idle", "load", "read", "cas", "take", "release", "count", "return"}

Init ==
  /\ enqueue_pos = 0 /\ dequeue_pos = 0 /\ count = 0
  /\ sequence = [i \in Slots |-> i]
  /\ value = [i \in Slots |-> None]
  /\ spc = [s \in Senders |-> "idle"]
  /\ spos = [s \in Senders |-> 0]
  /\ smsg = [s \in Senders |-> None]
  /\ rpc = [r \in Receivers |-> "idle"]
  /\ rpos = [r \in Receivers |-> 0]
  /\ rval = [r \in Receivers |-> None]
  /\ life = "live" /\ drained = {} /\ sent = <<>>

-----------------------------------------------------------------------------
(* Send *)

(* Entry of the call and its first load of enqueue_pos.  The load is        *)
(* memory_order_relaxed: it may return any earlier value of the counter.    *)
SendCall(s) ==
  /\ spc[s] = "idle" /\ life = "live" /\ enqueue_pos < MaxPos
  /\ \E m \in Msg : smsg' = [smsg EXCEPT ![s] = m]
  /\ \E p \in 0 .. enqueue_pos : spos' = [spos EXCEPT ![s] = p]
  /\ spc' = [spc EXCEPT ![s] = "read"]
  /\ UNCHANGED <<ringVars, recvVars, endVars, sent>>

(* Mutant of SendDiff: compares with pos + 1, as the receiver does. *)
SendDiffLikeRecv(s) == sequence[SlotOf(spos[s])] - (spos[s] + 1)

SendDiff(s) == sequence[SlotOf(spos[s])] - spos[s]

(* Mutant of SendSeesFree: no test for a full ring. *)
SendSeesFreeNoFullTest(s) ==
  /\ spc[s] = "read" /\ SendDiff(s) <= 0
  /\ spc' = [spc EXCEPT ![s] = "cas"]
  /\ UNCHANGED <<ringVars, spos, smsg, recvVars, endVars, sent>>

(* diff == 0: the slot is free for this position, try to claim it. *)
SendSeesFree(s) ==
  /\ spc[s] = "read" /\ SendDiff(s) = 0
  /\ spc' = [spc EXCEPT ![s] = "cas"]
  /\ UNCHANGED <<ringVars, spos, smsg, recvVars, endVars, sent>>

(* diff < 0: full, the call returns without sending. *)
SendRefused(s) ==
  /\ spc[s] = "read" /\ SendDiff(s) < 0
  /\ spc' = [spc EXCEPT ![s] = "idle"]
  /\ spos' = [spos EXCEPT ![s] = 0]
  /\ smsg' = [smsg EXCEPT ![s] = None]
  /\ UNCHANGED <<ringVars, recvVars, endVars, sent>>

(* diff > 0: another sender has this position, reload. *)
SendOvertaken(s) ==
  /\ spc[s] = "read" /\ SendDiff(s) > 0
  /\ spc' = [spc EXCEPT ![s] = "load"]
  /\ UNCHANGED <<ringVars, spos, smsg, recvVars, endVars, sent>>

SendReload(s) ==
  /\ spc[s] = "load"
  /\ \E p \in 0 .. enqueue_pos : spos' = [spos EXCEPT ![s] = p]
  /\ spc' = [spc EXCEPT ![s] = "read"]
  /\ UNCHANGED <<ringVars, smsg, recvVars, endVars, sent>>

(* Mutant of SendClaim: the sequence is stored before the payload. *)
SendClaimPublishFirst(s) ==
  /\ spc[s] = "cas" /\ enqueue_pos = spos[s]
  /\ enqueue_pos' = enqueue_pos + 1
  /\ sent' = Append(sent, smsg[s])
  /\ sequence' = [sequence EXCEPT ![SlotOf(spos[s])] = spos[s] + 1]
  /\ spc' = [spc EXCEPT ![s] = "write"]
  /\ UNCHANGED <<dequeue_pos, value, count, spos, smsg, recvVars, endVars>>

SendClaim(s) ==
  /\ spc[s] = "cas" /\ enqueue_pos = spos[s]
  /\ enqueue_pos' = enqueue_pos + 1
  /\ sent' = Append(sent, smsg[s])
  /\ spc' = [spc EXCEPT ![s] = "write"]
  /\ UNCHANGED <<dequeue_pos, sequence, value, count, spos, smsg, recvVars, endVars>>

(* compare_exchange_weak fails when another thread moved the counter, or   *)
(* spuriously; either way it refreshes pos.                                *)
SendClaimFail(s) ==
  /\ spc[s] = "cas"
  /\ spos' = [spos EXCEPT ![s] = enqueue_pos]
  /\ spc' = [spc EXCEPT ![s] = "read"]
  /\ UNCHANGED <<ringVars, smsg, recvVars, endVars, sent>>

SendWrite(s) ==
  /\ spc[s] = "write"
  /\ value' = [value EXCEPT ![SlotOf(spos[s])] = smsg[s]]
  /\ spc' = [spc EXCEPT ![s] = "publish"]
  /\ UNCHANGED <<enqueue_pos, dequeue_pos, sequence, count, spos, smsg, recvVars, endVars, sent>>

SendPublish(s) ==
  /\ spc[s] = "publish"
  /\ sequence' = [sequence EXCEPT ![SlotOf(spos[s])] = spos[s] + 1]
  /\ spc' = [spc EXCEPT ![s] = "count"]
  /\ UNCHANGED <<enqueue_pos, dequeue_pos, value, count, spos, smsg, recvVars, endVars, sent>>

SendCount(s) ==
  /\ spc[s] = "count"
  /\ count' = count + 1
  /\ spc' = [spc EXCEPT ![s] = "idle"]
  /\ spos' = [spos EXCEPT ![s] = 0]
  /\ smsg' = [smsg EXCEPT ![s] = None]
  /\ UNCHANGED <<enqueue_pos, dequeue_pos, sequence, value, recvVars, endVars, sent>>

-----------------------------------------------------------------------------
(* Receive *)

(* Entry and first load.  actor_receive returns NULL at once when count is  *)
(* not positive, which changes nothing.                                     *)
RecvCall(r) ==
  /\ rpc[r] = "idle" /\ life = "live"
  /\ CountGated => count > 0
  /\ \E p \in 0 .. dequeue_pos : rpos' = [rpos EXCEPT ![r] = p]
  /\ rpc' = [rpc EXCEPT ![r] = "read"]
  /\ UNCHANGED <<ringVars, sendVars, rval, endVars, sent>>

RecvDiff(r) == sequence[SlotOf(rpos[r])] - (rpos[r] + 1)

(* diff == 0: the slot holds the message of this position. *)
RecvSeesData(r) ==
  /\ rpc[r] = "read" /\ RecvDiff(r) = 0
  /\ rpc' = [rpc EXCEPT ![r] = "cas"]
  /\ UNCHANGED <<ringVars, sendVars, rpos, rval, endVars, sent>>

(* diff < 0: empty, the call returns NULL. *)
RecvRefused(r) ==
  /\ rpc[r] = "read" /\ RecvDiff(r) < 0
  /\ rpc' = [rpc EXCEPT ![r] = "idle"]
  /\ rpos' = [rpos EXCEPT ![r] = 0]
  /\ UNCHANGED <<ringVars, sendVars, rval, endVars, sent>>

(* diff > 0: another receiver has this position, reload. *)
RecvOvertaken(r) ==
  /\ rpc[r] = "read" /\ RecvDiff(r) > 0
  /\ rpc' = [rpc EXCEPT ![r] = "load"]
  /\ UNCHANGED <<ringVars, sendVars, rpos, rval, endVars, sent>>

RecvReload(r) ==
  /\ rpc[r] = "load"
  /\ \E p \in 0 .. dequeue_pos : rpos' = [rpos EXCEPT ![r] = p]
  /\ rpc' = [rpc EXCEPT ![r] = "read"]
  /\ UNCHANGED <<ringVars, sendVars, rval, endVars, sent>>

RecvClaim(r) ==
  /\ rpc[r] = "cas" /\ dequeue_pos = rpos[r]
  /\ dequeue_pos' = dequeue_pos + 1
  /\ rpc' = [rpc EXCEPT ![r] = "take"]
  /\ UNCHANGED <<enqueue_pos, sequence, value, count, sendVars, rpos, rval, endVars, sent>>

(* Mutant of RecvClaimFail: the failed compare-and-swap is not noticed. *)
RecvClaimFailUnnoticed(r) ==
  /\ rpc[r] = "cas"
  /\ rpc' = [rpc EXCEPT ![r] = "take"]
  /\ UNCHANGED <<ringVars, sendVars, rpos, rval, endVars, sent>>

RecvClaimFail(r) ==
  /\ rpc[r] = "cas"
  /\ rpos' = [rpos EXCEPT ![r] = dequeue_pos]
  /\ rpc' = [rpc EXCEPT ![r] = "read"]
  /\ UNCHANGED <<ringVars, sendVars, rval, endVars, sent>>

RecvTake(r) ==
  /\ rpc[r] = "take"
  /\ rval' = [rval EXCEPT ![r] = value[SlotOf(rpos[r])]]
  /\ value' = [value EXCEPT ![SlotOf(rpos[r])] = None]
  /\ rpc' = [rpc EXCEPT ![r] = "release"]
  /\ UNCHANGED <<enqueue_pos, dequeue_pos, sequence, count, sendVars, rpos, endVars, sent>>

(* Mutant of RecvRelease: the generation goes backwards. *)
RecvReleaseBackwards(r) ==
  /\ rpc[r] = "release"
  /\ sequence' = [sequence EXCEPT ![SlotOf(rpos[r])] = rpos[r] - Capacity]
  /\ rpc' = [rpc EXCEPT ![r] = "count"]
  /\ UNCHANGED <<enqueue_pos, dequeue_pos, value, count, sendVars, rpos, rval, endVars, sent>>

RecvRelease(r) ==
  /\ rpc[r] = "release"
  /\ sequence' = [sequence EXCEPT ![SlotOf(rpos[r])] = rpos[r] + Capacity]
  /\ rpc' = [rpc EXCEPT ![r] = "count"]
  /\ UNCHANGED <<enqueue_pos, dequeue_pos, value, count, sendVars, rpos, rval, endVars, sent>>

(* Mutant of RecvCount: the decrement is forgotten. *)
RecvCountForgotten(r) ==
  /\ rpc[r] = "count"
  /\ rpc' = [rpc EXCEPT ![r] = "return"]
  /\ UNCHANGED <<ringVars, sendVars, rpos, rval, endVars, sent>>

RecvCount(r) ==
  /\ rpc[r] = "count"
  /\ count' = count - 1
  /\ rpc' = [rpc EXCEPT ![r] = "return"]
  /\ UNCHANGED <<enqueue_pos, dequeue_pos, sequence, value, sendVars, rpos, rval, endVars, sent>>

RecvReturn(r) ==
  /\ rpc[r] = "return"
  /\ rval' = [rval EXCEPT ![r] = None]
  /\ rpos' = [rpos EXCEPT ![r] = 0]
  /\ rpc' = [rpc EXCEPT ![r] = "idle"]
  /\ UNCHANGED <<ringVars, sendVars, endVars, sent>>

-----------------------------------------------------------------------------
(* Mutant of DrainedPayloads: stops one position short. *)
DrainedPayloadsShort(lo, hi) ==
  {<<p, value[SlotOf(p)]>> : p \in {q \in lo .. (hi - 2) : value[SlotOf(q)] # None}}

(* The non-NULL payloads of positions lo .. hi - 1, each with its position. *)
DrainedPayloads(lo, hi) ==
  {<<p, value[SlotOf(p)]>> : p \in {q \in lo .. (hi - 1) : value[SlotOf(q)] # None}}

(* channel_destroy / mailbox_destroy: walk dequeue_pos .. enqueue_pos - 1,  *)
(* release every non-NULL payload, free the slots.  Callers destroy a ring  *)
(* only when no operation on it is in flight.                               *)
DestroyRing ==
  /\ life = "live"
  /\ \A s \in Senders : spc[s] = "idle"
  /\ \A r \in Receivers : rpc[r] = "idle"
  /\ drained' = DrainedPayloads(dequeue_pos, enqueue_pos)
  /\ value' = [i \in Slots |->
                 IF \E p \in dequeue_pos .. (enqueue_pos - 1) : SlotOf(p) = i
                 THEN None ELSE value[i]]
  /\ life' = "freed"
  /\ UNCHANGED <<enqueue_pos, dequeue_pos, sequence, count, sendVars, recvVars, sent>>

SendStep(s) == \/ SendCall(s) \/ SendSeesFree(s) \/ SendRefused(s)
               \/ SendOvertaken(s) \/ SendReload(s) \/ SendClaim(s)
               \/ SendClaimFail(s) \/ SendWrite(s) \/ SendPublish(s) \/ SendCount(s)
RecvStep(r) == \/ RecvCall(r) \/ RecvSeesData(r) \/ RecvRefused(r)
               \/ RecvOvertaken(r) \/ RecvReload(r) \/ RecvClaim(r)
               \/ RecvClaimFail(r) \/ RecvTake(r) \/ RecvRelease(r) \/ RecvCount(r)
               \/ RecvReturn(r)

Next == \/ \E s \in Senders : SendStep(s)
        \/ \E r \in Receivers : RecvStep(r)
        \/ DestroyRing

Spec == Init /\ [][Next]_vars

-----------------------------------------------------------------------------
(* A thread owns a slot from its successful compare-and-swap until it      *)
(* stores the next generation number.                                      *)
SenderHolds(s) == spc[s] \in {"write", "publish"}
ReceiverHolds(r) == rpc[r] \in {"take", "release"}

(* Every variable of the model keeps its type. *)
TypeOK ==
  /\ enqueue_pos \in Nat /\ dequeue_pos \in Nat /\ count \in Int
  /\ sequence \in [Slots -> Nat]
  /\ value \in [Slots -> Msg \cup {None}]
  /\ spc \in [Senders -> SendPC] /\ rpc \in [Receivers -> RecvPC]
  /\ spos \in [Senders -> Nat] /\ rpos \in [Receivers -> Nat]
  /\ smsg \in [Senders -> Msg \cup {None}]
  /\ rval \in [Receivers -> Msg \cup {None}]
  /\ life \in {"live", "freed"}
  /\ drained \subseteq (Nat \X Msg)
  /\ sent \in Seq(Msg)

(* The plain accesses to slot->value in channel_try_send and               *)
(* channel_try_recv are exclusive: no two threads are between their        *)
(* compare-and-swap and their sequence store on the same slot.             *)
SlotExclusive ==
  /\ \A s, t \in Senders : SenderHolds(s) /\ SenderHolds(t) /\ s # t
                             => SlotOf(spos[s]) # SlotOf(spos[t])
  /\ \A r, t \in Receivers : ReceiverHolds(r) /\ ReceiverHolds(t) /\ r # t
                             => SlotOf(rpos[r]) # SlotOf(rpos[t])
  /\ \A s \in Senders, r \in Receivers : SenderHolds(s) /\ ReceiverHolds(r)
                             => SlotOf(spos[s]) # SlotOf(rpos[r])

(* A receiver returns the message that was sent at its position: nothing   *)
(* is lost, duplicated, reordered or replaced by NULL on the way.          *)
ReceivedIsSent ==
  \A r \in Receivers : rpc[r] \in {"release", "count", "return"}
                         => rpos[r] < Len(sent) /\ rval[r] = sent[rpos[r] + 1]

(* The counter that actor_receive and the scheduler look at differs from   *)
(* the number of queued messages by exactly the operations in flight, so   *)
(* it is exact whenever no operation is.                                   *)
CountAccurate ==
  LET uncounted == {s \in Senders : spc[s] \in {"write", "publish", "count"}}
      undone    == {r \in Receivers : rpc[r] \in {"take", "release", "count"}}
  IN  count = (enqueue_pos - dequeue_pos) - Cardinality(uncounted) + Cardinality(undone)

(* A send reports "full" only if all slots are taken or a receiver is just  *)
(* now emptying one; a receive reports "empty" only if nothing is queued or *)
(* a sender is just now filling the oldest position.                       *)
RefusalJustified ==
  [][/\ \A s \in Senders : spc[s] = "read" /\ spc'[s] = "idle"
          => \/ enqueue_pos - dequeue_pos = Capacity
             \/ \E r \in Receivers : ReceiverHolds(r)
     /\ \A r \in Receivers : rpc[r] = "read" /\ rpc'[r] = "idle"
          => \/ enqueue_pos = dequeue_pos
             \/ \E s \in Senders : SenderHolds(s) /\ spos[s] = dequeue_pos]_vars

(* Destroying the ring leaves no payload behind: every message ever sent    *)
(* was returned by a receive or is released here, exactly once.             *)
NothingLeaks ==
  life = "freed" => /\ \A i \in Slots : value[i] = None
           /\ drained = {<<p, sent[p + 1]>> : p \in dequeue_pos .. (enqueue_pos - 1)}

-----------------------------------------------------------------------------
(* The inductive invariant of the ring, in terms of positions.  Positions  *)
(* dequeue_pos .. enqueue_pos - 1 are queued, the following ones up to     *)
(* dequeue_pos + Capacity - 1 are free; together they name every slot once. *)

Window == /\ dequeue_pos <= enqueue_pos
          /\ enqueue_pos <= dequeue_pos + Capacity
          /\ Len(sent) = enqueue_pos

(* A queued position holds its message, or its sender is still at work. *)
QueuedSlots ==
  \A p \in dequeue_pos .. (enqueue_pos - 1) :
     \/ /\ sequence[SlotOf(p)] = p + 1
        /\ life = "live" => value[SlotOf(p)] = sent[p + 1]
     \/ /\ sequence[SlotOf(p)] = p
        /\ \E s \in Senders : SenderHolds(s) /\ spos[s] = p

(* A free position's slot is empty, or the receiver of the message one lap *)
(* earlier is still at work.                                               *)
FreeSlots ==
  \A p \in enqueue_pos .. (dequeue_pos + Capacity - 1) :
     \/ sequence[SlotOf(p)] = p /\ value[SlotOf(p)] = None
     \/ /\ sequence[SlotOf(p)] = (p - Capacity) + 1
        /\ \E r \in Receivers : ReceiverHolds(r) /\ rpos[r] = p - Capacity

SenderOwns ==
  \A s \in Senders :
     SenderHolds(s) => /\ dequeue_pos <= spos[s] /\ spos[s] < enqueue_pos
                       /\ sequence[SlotOf(spos[s])] = spos[s]
                       /\ smsg[s] = sent[spos[s] + 1]
                       /\ spc[s] = "publish" => value[SlotOf(spos[s])] = smsg[s]
ReceiverOwns ==
  \A r \in Receivers :
     ReceiverHolds(r) => /\ enqueue_pos <= rpos[r] + Capacity /\ rpos[r] < dequeue_pos
                         /\ sequence[SlotOf(rpos[r])] = rpos[r] + 1
                         /\ rpc[r] = "take" => value[SlotOf(rpos[r])] = sent[rpos[r] + 1]
                         /\ rpc[r] = "release" => value[SlotOf(rpos[r])] = None

(* Two owners never share a position. *)
OwnersDistinct ==
  /\ \A s, t \in Senders : SenderHolds(s) /\ SenderHolds(t) /\ s # t => spos[s] # spos[t]
  /\ \A r, t \in Receivers : ReceiverHolds(r) /\ ReceiverHolds(t) /\ r # t => rpos[r] # rpos[t]

(* What a thread saw in the slot before its compare-and-swap still holds   *)
(* unless the position counter has moved on.                               *)
StillAsSeen ==
  /\ \A s \in Senders :
        /\ spos[s] <= enqueue_pos
        /\ spc[s] # "idle" => smsg[s] \in Msg
        /\ spc[s] = "cas" => \/ spos[s] < enqueue_pos
                             \/ sequence[SlotOf(spos[s])] = spos[s]
  /\ \A r \in Receivers :
        /\ rpos[r] <= dequeue_pos
        /\ rpc[r] = "cas" => \/ rpos[r] < dequeue_pos
                             \/ sequence[SlotOf(rpos[r])] = rpos[r] + 1

QuietWhenFreed == life = "freed" => /\ \A s \in Senders : spc[s] = "idle"
                           /\ \A r \in Receivers : rpc[r] = "idle"

(* Every slot is in one of the three states the generation counters allow,  *)
(* with at most one thread at work on it: the invariant on which            *)
(* exclusiveness and FIFO order rest.                                       *)
RingInv == /\ Window /\ QueuedSlots /\ FreeSlots /\ SenderOwns /\ ReceiverOwns
           /\ OwnersDistinct /\ StillAsSeen /\ QuietWhenFreed /\ ReceivedIsSent

-----------------------------------------------------------------------------
(* Refinement: the queue is what is claimed by senders and not by           *)
(* receivers; a receiver has a message in hand from its claim on.           *)
Fifo == INSTANCE BoundedFifo WITH
  queue    <- IF life = "freed" THEN <<>> ELSE SubSeq(sent, dequeue_pos + 1, enqueue_pos),
  hand     <- [r \in Receivers |-> IF rpc[r] = "take" THEN sent[rpos[r] + 1] ELSE rval[r]]

(* The ring implements the bounded FIFO: with the send taking effect at     *)
(* the compare-and-swap on enqueue_pos and the receive at the one on        *)
(* dequeue_pos.                                                             *)
ImplementsFifo == Fifo!FifoSpec
=============================================================================
