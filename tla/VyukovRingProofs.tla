--------------------------- MODULE VyukovRingProofs --------------------------
(* Proofs, for every capacity and every number of threads, that the ring   *)
(* of VyukovRing keeps its slots exclusive and its messages in order, that *)
(* its counter and its refusals are right, that its destruction leaves     *)
(* nothing behind, and that it implements BoundedFifo.                     *)
EXTENDS VyukovRing, TLAPS, FiniteSetTheorems, SequenceTheorems

(* Division with remainder by the capacity. *)
LEMMA DivMod ==
  \A p \in Nat : /\ (p \div Capacity) \in Nat
                 /\ (p % Capacity) \in 0 .. (Capacity - 1)
                 /\ p = (Capacity * (p \div Capacity)) + (p % Capacity)
  BY CapacityAssumption

(* Multiples of the capacity are at least the capacity apart. *)
LEMMA MultiplesApart ==
  ASSUME NEW a \in Int, NEW b \in Int, a < b
  PROVE  (Capacity * b) >= (Capacity * a) + Capacity
  BY CapacityAssumption

(* Two positions that share a slot are a whole lap apart: what the mask    *)
(* arithmetic of channel.c relies on.                                      *)
LEMMA SlotsApart ==
  \A p, q \in Nat : SlotOf(p) = SlotOf(q) /\ p < q => q >= p + Capacity
<1> SUFFICES ASSUME NEW p \in Nat, NEW q \in Nat, p % Capacity = q % Capacity, p < q
             PROVE  q >= p + Capacity
  BY DEF SlotOf
<1> DEFINE a == p \div Capacity
           b == q \div Capacity
<1>1. /\ a \in Nat /\ b \in Nat /\ (p % Capacity) \in Int
      /\ p = (Capacity * a) + (p % Capacity)
      /\ q = (Capacity * b) + (q % Capacity)
  BY DivMod, CapacityAssumption
<1> HIDE DEF a, b
<1>2. (Capacity * a) < (Capacity * b)
  BY <1>1, CapacityAssumption
<1>3. a < b
  BY <1>1, <1>2, MultiplesApart, CapacityAssumption
<1>4. (Capacity * b) >= (Capacity * a) + Capacity
  BY <1>1, <1>3, MultiplesApart
<1> QED
  BY <1>1, <1>4, CapacityAssumption

(* One lap later the same slot comes round again. *)
LEMMA NextLap ==
  \A p \in Nat : SlotOf(p + Capacity) = SlotOf(p)
<1> SUFFICES ASSUME NEW p \in Nat PROVE (p + Capacity) % Capacity = p % Capacity
  BY DEF SlotOf
<1> DEFINE q == p + Capacity
           a == p \div Capacity
           b == q \div Capacity
<1>1. /\ q \in Nat /\ a \in Nat /\ b \in Nat
      /\ p = (Capacity * a) + (p % Capacity) /\ (p % Capacity) \in 0 .. (Capacity - 1)
      /\ q = (Capacity * b) + (q % Capacity) /\ (q % Capacity) \in 0 .. (Capacity - 1)
  BY DivMod, CapacityAssumption
<1> HIDE DEF a, b
<1>2. Capacity * (a + 1) = (Capacity * a) + Capacity
  BY <1>1, CapacityAssumption
<1>3. b = a + 1
  <2>1. CASE b < a + 1
    <3>1. (Capacity * (a + 1)) >= (Capacity * b) + Capacity
      BY <1>1, <2>1, MultiplesApart
    <3> QED BY <3>1, <1>1, <1>2, CapacityAssumption
  <2>2. CASE b > a + 1
    <3>1. (Capacity * b) >= (Capacity * (a + 1)) + Capacity
      BY <1>1, <2>2, MultiplesApart
    <3> QED BY <3>1, <1>1, <1>2, CapacityAssumption
  <2> QED BY <2>1, <2>2, <1>1
<1> QED
  BY <1>1, <1>2, <1>3, CapacityAssumption

LEMMA SlotType == \A p \in Nat : SlotOf(p) \in Slots
  BY DivMod DEF SlotOf, Slots

LEMMA FirstLap == \A i \in Slots : i \in Nat /\ SlotOf(i) = i
  BY CapacityAssumption DEF SlotOf, Slots

-----------------------------------------------------------------------------
(* Every step keeps the types. *)
LEMMA TypeStep == TypeOK /\ RingInv /\ [Next]_vars => TypeOK'
<1> SUFFICES ASSUME TypeOK, RingInv, [Next]_vars PROVE TypeOK'
  OBVIOUS
<1>1. ASSUME NEW s \in Senders, SendStep(s) PROVE TypeOK'
  <2>1. CASE SendCall(s)
    BY <2>1 DEF SendCall, TypeOK, SendPC, ringVars, recvVars, endVars
  <2>2. CASE SendSeesFree(s)
    BY <2>2 DEF SendSeesFree, TypeOK, SendPC, ringVars, recvVars, endVars
  <2>3. CASE SendRefused(s)
    BY <2>3 DEF SendRefused, TypeOK, SendPC, ringVars, recvVars, endVars
  <2>4. CASE SendOvertaken(s)
    BY <2>4 DEF SendOvertaken, TypeOK, SendPC, ringVars, recvVars, endVars
  <2>5. CASE SendReload(s)
    BY <2>5 DEF SendReload, TypeOK, SendPC, ringVars, recvVars, endVars
  <2>6. CASE SendClaim(s)
    <3>1. smsg[s] \in Msg
      BY <2>6 DEF SendClaim, RingInv, StillAsSeen
    <3> QED BY <2>6, <3>1 DEF SendClaim, TypeOK, SendPC, recvVars, endVars
  <2>7. CASE SendClaimFail(s)
    BY <2>7 DEF SendClaimFail, TypeOK, SendPC, ringVars, recvVars, endVars
  <2>8. CASE SendWrite(s)
    BY <2>8 DEF SendWrite, TypeOK, SendPC, recvVars, endVars
  <2>9. CASE SendPublish(s)
    <3>1. spos[s] + 1 \in Nat
      BY DEF TypeOK
    <3> QED BY <2>9, <3>1 DEF SendPublish, TypeOK, SendPC, recvVars, endVars
  <2>10. CASE SendCount(s)
    BY <2>10 DEF SendCount, TypeOK, SendPC, recvVars, endVars
  <2> QED BY <1>1, <2>1, <2>2, <2>3, <2>4, <2>5, <2>6, <2>7, <2>8, <2>9, <2>10 DEF SendStep
<1>2. ASSUME NEW r \in Receivers, RecvStep(r) PROVE TypeOK'
  <2>1. CASE RecvCall(r)
    BY <2>1 DEF RecvCall, TypeOK, RecvPC, ringVars, sendVars, endVars
  <2>2. CASE RecvSeesData(r)
    BY <2>2 DEF RecvSeesData, TypeOK, RecvPC, ringVars, sendVars, endVars
  <2>3. CASE RecvRefused(r)
    BY <2>3 DEF RecvRefused, TypeOK, RecvPC, ringVars, sendVars, endVars
  <2>4. CASE RecvOvertaken(r)
    BY <2>4 DEF RecvOvertaken, TypeOK, RecvPC, ringVars, sendVars, endVars
  <2>5. CASE RecvReload(r)
    BY <2>5 DEF RecvReload, TypeOK, RecvPC, ringVars, sendVars, endVars
  <2>6. CASE RecvClaim(r)
    BY <2>6 DEF RecvClaim, TypeOK, RecvPC, sendVars, endVars
  <2>7. CASE RecvClaimFail(r)
    BY <2>7 DEF RecvClaimFail, TypeOK, RecvPC, ringVars, sendVars, endVars
  <2>8. CASE RecvTake(r)
    <3>1. value[SlotOf(rpos[r])] \in Msg \cup {None}
      BY SlotType DEF TypeOK
    <3> QED BY <2>8, <3>1 DEF RecvTake, TypeOK, RecvPC, sendVars, endVars
  <2>9. CASE RecvRelease(r)
    <3>1. rpos[r] + Capacity \in Nat
      BY CapacityAssumption DEF TypeOK
    <3> QED BY <2>9, <3>1 DEF RecvRelease, TypeOK, RecvPC, sendVars, endVars
  <2>10. CASE RecvCount(r)
    BY <2>10 DEF RecvCount, TypeOK, RecvPC, sendVars, endVars
  <2>11. CASE RecvReturn(r)
    BY <2>11 DEF RecvReturn, TypeOK, RecvPC, ringVars, sendVars, endVars
  <2> QED BY <1>2, <2>1, <2>2, <2>3, <2>4, <2>5, <2>6, <2>7, <2>8, <2>9, <2>10, <2>11 DEF RecvStep
<1>3. CASE DestroyRing
  <2>1. value' \in [Slots -> Msg \cup {None}]
    BY <1>3 DEF DestroyRing, TypeOK
  <2>2. drained' \subseteq (Nat \X Msg)
    <3>1. \A p \in dequeue_pos .. (enqueue_pos - 1) : p \in Nat /\ value[SlotOf(p)] \in Msg \cup {None}
      BY SlotType DEF TypeOK
    <3> QED BY <1>3, <3>1 DEF DestroyRing, DrainedPayloads
  <2> QED BY <1>3, <2>1, <2>2 DEF DestroyRing, TypeOK, sendVars, recvVars
<1>4. CASE UNCHANGED vars
  BY <1>4 DEF TypeOK, vars, ringVars, sendVars, recvVars, endVars
<1> QED BY <1>1, <1>2, <1>3, <1>4 DEF Next

-----------------------------------------------------------------------------
(* A step of one sender that touches neither the ring nor the set of slot  *)
(* owners.                                                                 *)
SendsLocally(s) ==
  /\ UNCHANGED <<enqueue_pos, dequeue_pos, sequence, value, recvVars, endVars, sent>>
  /\ \A t \in Senders \ {s} : spc'[t] = spc[t] /\ spos'[t] = spos[t] /\ smsg'[t] = smsg[t]
  /\ spc[s] \notin {"write", "publish"} /\ spc'[s] \notin {"write", "publish"}
  /\ spos'[s] <= enqueue_pos
  /\ spc'[s] # "idle" => smsg'[s] \in Msg /\ life = "live"
  /\ spc'[s] = "cas" => \/ spos'[s] < enqueue_pos
                        \/ sequence[SlotOf(spos'[s])] = spos'[s]

LEMMA LocalSendStep ==
  ASSUME TypeOK, TypeOK', RingInv, NEW s \in Senders, SendsLocally(s)
  PROVE  RingInv'
<1> USE DEF SendsLocally
<1>1. \A t \in Senders : /\ SenderHolds(t)' <=> SenderHolds(t)
                         /\ SenderHolds(t) => spc'[t] = spc[t] /\ spos'[t] = spos[t] /\ smsg'[t] = smsg[t]
  BY DEF SenderHolds
<1>2. Window' /\ FreeSlots' /\ ReceiverOwns' /\ ReceivedIsSent'
  BY DEF RingInv, Window, FreeSlots, ReceiverOwns, ReceiverHolds, ReceivedIsSent, recvVars
<1>3. QueuedSlots'
  BY <1>1 DEF RingInv, QueuedSlots, endVars
<1>4. SenderOwns'
  BY <1>1 DEF RingInv, SenderOwns
<1>5. OwnersDistinct'
  BY <1>1 DEF RingInv, OwnersDistinct, ReceiverHolds, recvVars
<1>6. StillAsSeen'
  BY DEF RingInv, StillAsSeen, recvVars
<1>7. QuietWhenFreed'
  BY DEF RingInv, QuietWhenFreed, recvVars, endVars
<1> QED BY <1>2, <1>3, <1>4, <1>5, <1>6, <1>7 DEF RingInv

(* The same for a receiver. *)
ReceivesLocally(r) ==
  /\ UNCHANGED <<enqueue_pos, dequeue_pos, sequence, value, sendVars, endVars, sent>>
  /\ \A t \in Receivers \ {r} : rpc'[t] = rpc[t] /\ rpos'[t] = rpos[t] /\ rval'[t] = rval[t]
  /\ rpc[r] \notin {"take", "release"} /\ rpc'[r] \notin {"take", "release"}
  /\ rpos'[r] <= dequeue_pos
  /\ rpc'[r] # "idle" => life = "live"
  /\ rpc'[r] = "cas" => \/ rpos'[r] < dequeue_pos
                        \/ sequence[SlotOf(rpos'[r])] = rpos'[r] + 1
  /\ rpc'[r] \in {"count", "return"} => rpos'[r] < Len(sent) /\ rval'[r] = sent[rpos'[r] + 1]

LEMMA LocalRecvStep ==
  ASSUME TypeOK, TypeOK', RingInv, NEW r \in Receivers, ReceivesLocally(r)
  PROVE  RingInv'
<1> USE DEF ReceivesLocally
<1>1. \A t \in Receivers : /\ ReceiverHolds(t)' <=> ReceiverHolds(t)
                           /\ ReceiverHolds(t) => rpc'[t] = rpc[t] /\ rpos'[t] = rpos[t] /\ rval'[t] = rval[t]
  BY DEF ReceiverHolds
<1>2. Window' /\ QueuedSlots' /\ SenderOwns'
  BY DEF RingInv, Window, QueuedSlots, SenderOwns, SenderHolds, sendVars, endVars
<1>3. FreeSlots'
  BY <1>1 DEF RingInv, FreeSlots
<1>4. ReceiverOwns'
  BY <1>1 DEF RingInv, ReceiverOwns
<1>5. OwnersDistinct'
  BY <1>1 DEF RingInv, OwnersDistinct, SenderHolds, sendVars
<1>6. StillAsSeen'
  BY DEF RingInv, StillAsSeen, sendVars
<1>7. QuietWhenFreed'
  BY DEF RingInv, QuietWhenFreed, sendVars, endVars
<1>8. ReceivedIsSent'
  BY DEF RingInv, ReceivedIsSent, ReceiverHolds
<1> QED BY <1>2, <1>3, <1>4, <1>5, <1>6, <1>7, <1>8 DEF RingInv

(* A sender whose compare-and-swap succeeds really has a free slot. *)
LEMMA ClaimedSlotIsFree ==
  ASSUME TypeOK, RingInv, NEW s \in Senders, SendClaim(s)
  PROVE  /\ spos[s] = enqueue_pos
         /\ enqueue_pos < dequeue_pos + Capacity
         /\ sequence[SlotOf(enqueue_pos)] = enqueue_pos
         /\ \A r \in Receivers : ReceiverHolds(r) => enqueue_pos < rpos[r] + Capacity
<1>1. spos[s] = enqueue_pos /\ sequence[SlotOf(enqueue_pos)] = enqueue_pos
  BY DEF SendClaim, RingInv, StillAsSeen, TypeOK
<1>2. enqueue_pos # dequeue_pos + Capacity
  <2> SUFFICES ASSUME enqueue_pos = dequeue_pos + Capacity PROVE FALSE
    OBVIOUS
  <2>1. SlotOf(enqueue_pos) = SlotOf(dequeue_pos)
    BY NextLap DEF TypeOK
  <2>2. sequence[SlotOf(dequeue_pos)] \in {dequeue_pos, dequeue_pos + 1}
    BY CapacityAssumption DEF TypeOK, RingInv, QueuedSlots
  <2> QED BY <1>1, <2>1, <2>2, CapacityAssumption DEF TypeOK
<1>3. ASSUME NEW r \in Receivers, ReceiverHolds(r), enqueue_pos = rpos[r] + Capacity
      PROVE  FALSE
  <2>1. SlotOf(enqueue_pos) = SlotOf(rpos[r])
    BY <1>3, NextLap DEF TypeOK
  <2>2. sequence[SlotOf(rpos[r])] = rpos[r] + 1
    BY <1>3 DEF RingInv, ReceiverOwns
  <2> QED BY <1>1, <1>3, <2>1, <2>2, CapacityAssumption DEF TypeOK
<1>4. enqueue_pos < dequeue_pos + Capacity
  BY <1>2, CapacityAssumption DEF TypeOK, RingInv, Window
<1>5. ASSUME NEW r \in Receivers, ReceiverHolds(r)
      PROVE  enqueue_pos < rpos[r] + Capacity
  <2>1. enqueue_pos <= rpos[r] + Capacity
    BY <1>5 DEF RingInv, ReceiverOwns
  <2>2. enqueue_pos # rpos[r] + Capacity
    BY <1>3, <1>5
  <2>3. rpos[r] + Capacity \in Nat /\ enqueue_pos \in Nat
    BY CapacityAssumption DEF TypeOK
  <2> QED BY <2>1, <2>2, <2>3
<1> QED BY <1>1, <1>4, <1>5

LEMMA SendClaimStep ==
  ASSUME TypeOK, TypeOK', RingInv, NEW s \in Senders, SendClaim(s)
  PROVE  RingInv'
<1> USE DEF TypeOK
<1>1. /\ spos[s] = enqueue_pos
      /\ enqueue_pos < dequeue_pos + Capacity
      /\ sequence[SlotOf(enqueue_pos)] = enqueue_pos
      /\ \A r \in Receivers : ReceiverHolds(r) => enqueue_pos < rpos[r] + Capacity
  BY ClaimedSlotIsFree
<1>2. /\ enqueue_pos' = enqueue_pos + 1 /\ dequeue_pos' = dequeue_pos
      /\ sequence' = sequence /\ value' = value /\ spos' = spos /\ smsg' = smsg
      /\ rpc' = rpc /\ rpos' = rpos /\ rval' = rval /\ life' = life
      /\ spc[s] = "cas" /\ spc' = [spc EXCEPT ![s] = "write"]
  BY DEF SendClaim, recvVars, endVars
<1>3. /\ SenderHolds(s)' /\ ~SenderHolds(s) /\ spc'[s] = "write"
      /\ \A t \in Senders \ {s} : spc'[t] = spc[t] /\ (SenderHolds(t)' <=> SenderHolds(t))
      /\ \A r \in Receivers : ReceiverHolds(r)' <=> ReceiverHolds(r)
  BY <1>2 DEF SenderHolds, ReceiverHolds
<1>4. /\ Len(sent) = enqueue_pos /\ smsg[s] \in Msg
      /\ Len(sent') = enqueue_pos + 1 /\ sent'[enqueue_pos + 1] = smsg[s]
      /\ \A i \in 1 .. enqueue_pos : sent'[i] = sent[i]
  <2>1. Len(sent) = enqueue_pos /\ smsg[s] \in Msg
    BY DEF RingInv, Window, StillAsSeen, SendClaim
  <2> QED BY <2>1 DEF SendClaim
<1>5. Window'
  BY <1>1, <1>2, <1>4, CapacityAssumption DEF RingInv, Window
<1>6. QueuedSlots'
  <2> SUFFICES ASSUME NEW p \in dequeue_pos .. enqueue_pos
               PROVE  \/ /\ sequence[SlotOf(p)] = p + 1
                         /\ life = "live" => value[SlotOf(p)] = sent'[p + 1]
                      \/ /\ sequence[SlotOf(p)] = p
                         /\ \E t \in Senders : SenderHolds(t)' /\ spos[t] = p
    BY <1>2 DEF QueuedSlots
  <2>1. CASE p = enqueue_pos
    BY <2>1, <1>1, <1>3
  <2>2. CASE p < enqueue_pos
    BY <2>2, <1>3, <1>4 DEF RingInv, QueuedSlots
  <2> QED BY <2>1, <2>2
<1>7. FreeSlots'
  BY <1>2, <1>3, CapacityAssumption DEF RingInv, FreeSlots
<1>8. SenderOwns'
  BY <1>1, <1>2, <1>3, <1>4 DEF RingInv, SenderOwns, Window
<1>9. ReceiverOwns'
  BY <1>1, <1>2, <1>3, <1>4, CapacityAssumption DEF RingInv, ReceiverOwns, Window
<1>10. OwnersDistinct'
  BY <1>1, <1>2, <1>3 DEF RingInv, OwnersDistinct, SenderOwns
<1>11. StillAsSeen'
  BY <1>2, <1>3, <1>4 DEF RingInv, StillAsSeen
<1>12. QuietWhenFreed'
  BY <1>2 DEF RingInv, QuietWhenFreed
<1>13. ReceivedIsSent'
  BY <1>2, <1>4 DEF RingInv, ReceivedIsSent
<1> QED BY <1>5, <1>6, <1>7, <1>8, <1>9, <1>10, <1>11, <1>12, <1>13 DEF RingInv

(* Inside the window, and for an owning receiver one lap later, a slot     *)
(* names its position.                                                     *)
LEMMA SlotNamesPosition ==
  ASSUME TypeOK, RingInv
  PROVE  /\ \A p, q \in Nat : ( /\ dequeue_pos <= p /\ p < dequeue_pos + Capacity
                                /\ dequeue_pos <= q /\ q < dequeue_pos + Capacity
                                /\ SlotOf(p) = SlotOf(q) ) => p = q
         /\ \A r \in Receivers : ReceiverHolds(r) =>
               /\ SlotOf(rpos[r] + Capacity) = SlotOf(rpos[r])
               /\ enqueue_pos <= rpos[r] + Capacity
               /\ rpos[r] + Capacity < dequeue_pos + Capacity
<1>1. ASSUME NEW p \in Nat, NEW q \in Nat, SlotOf(p) = SlotOf(q),
             dequeue_pos <= p, p < dequeue_pos + Capacity,
             dequeue_pos <= q, q < dequeue_pos + Capacity
      PROVE  p = q
  <2>1. ~(p < q) /\ ~(q < p)
    BY <1>1, SlotsApart, CapacityAssumption DEF TypeOK
  <2> QED BY <2>1
<1>2. ASSUME NEW r \in Receivers, ReceiverHolds(r)
      PROVE  /\ SlotOf(rpos[r] + Capacity) = SlotOf(rpos[r])
             /\ enqueue_pos <= rpos[r] + Capacity
             /\ rpos[r] + Capacity < dequeue_pos + Capacity
  <2>1. rpos[r] \in Nat
    BY DEF TypeOK
  <2>2. enqueue_pos <= rpos[r] + Capacity /\ rpos[r] < dequeue_pos
    BY <1>2 DEF RingInv, ReceiverOwns
  <2> QED BY <2>1, <2>2, NextLap, CapacityAssumption DEF TypeOK
<1> QED BY <1>1, <1>2

(* A queued position shares its slot with no other position of the window  *)
(* and with no receiver at work.                                           *)
LEMMA QueuedSlotIsAlone ==
  ASSUME TypeOK, RingInv, NEW x \in Nat, dequeue_pos <= x, x < enqueue_pos
  PROVE  /\ \A p \in Nat : (dequeue_pos <= p /\ p < dequeue_pos + Capacity /\ p # x)
                              => SlotOf(p) # SlotOf(x)
         /\ \A r \in Receivers : ReceiverHolds(r) => SlotOf(rpos[r]) # SlotOf(x)
<1>1. x < dequeue_pos + Capacity /\ dequeue_pos <= enqueue_pos
  BY CapacityAssumption DEF TypeOK, RingInv, Window
<1>2. ASSUME NEW p \in Nat, dequeue_pos <= p, p < dequeue_pos + Capacity, p # x
      PROVE  SlotOf(p) # SlotOf(x)
  BY <1>1, <1>2, SlotNamesPosition
<1>3. ASSUME NEW r \in Receivers, ReceiverHolds(r)
      PROVE  SlotOf(rpos[r]) # SlotOf(x)
  <2>1. /\ SlotOf(rpos[r] + Capacity) = SlotOf(rpos[r])
        /\ enqueue_pos <= rpos[r] + Capacity
        /\ rpos[r] + Capacity < dequeue_pos + Capacity
    BY <1>3, SlotNamesPosition
  <2>2. rpos[r] + Capacity \in Nat /\ enqueue_pos \in Nat /\ dequeue_pos \in Nat
    BY CapacityAssumption DEF TypeOK
  <2>3. dequeue_pos <= rpos[r] + Capacity /\ rpos[r] + Capacity # x
    BY <1>1, <2>1, <2>2
  <2> QED BY <1>2, <2>1, <2>2, <2>3
<1> QED BY <1>2, <1>3

(* A receiver at work shares its slot with no queued position, and with    *)
(* the free position one lap later only.                                   *)
LEMMA TakenSlotIsAlone ==
  ASSUME TypeOK, RingInv, NEW r \in Receivers, ReceiverHolds(r)
  PROVE  /\ \A p \in Nat : (dequeue_pos <= p /\ p < dequeue_pos + Capacity /\ p # rpos[r] + Capacity)
                              => SlotOf(p) # SlotOf(rpos[r])
         /\ \A t \in Receivers : ReceiverHolds(t) /\ t # r => SlotOf(rpos[t]) # SlotOf(rpos[r])
<1>1. /\ SlotOf(rpos[r] + Capacity) = SlotOf(rpos[r])
      /\ enqueue_pos <= rpos[r] + Capacity
      /\ rpos[r] + Capacity < dequeue_pos + Capacity
  BY SlotNamesPosition
<1>2. rpos[r] + Capacity \in Nat /\ dequeue_pos <= rpos[r] + Capacity
  BY <1>1, CapacityAssumption DEF TypeOK, RingInv, Window
<1>3. ASSUME NEW p \in Nat, dequeue_pos <= p, p < dequeue_pos + Capacity, p # rpos[r] + Capacity
      PROVE  SlotOf(p) # SlotOf(rpos[r])
  BY <1>1, <1>2, <1>3, SlotNamesPosition
<1>4. ASSUME NEW t \in Receivers, ReceiverHolds(t), t # r
      PROVE  SlotOf(rpos[t]) # SlotOf(rpos[r])
  <2>1. /\ sequence[SlotOf(rpos[t])] = rpos[t] + 1
        /\ sequence[SlotOf(rpos[r])] = rpos[r] + 1
        /\ rpos[t] # rpos[r]
    BY <1>4 DEF RingInv, ReceiverOwns, OwnersDistinct
  <2>2. rpos[t] \in Nat /\ rpos[r] \in Nat
    BY DEF TypeOK
  <2> QED BY <2>1, <2>2
<1> QED BY <1>3, <1>4

LEMMA SendWriteStep ==
  ASSUME TypeOK, TypeOK', RingInv, NEW s \in Senders, SendWrite(s)
  PROVE  RingInv'
<1> USE DEF TypeOK
<1> DEFINE i == SlotOf(spos[s])
<1>1. /\ dequeue_pos <= spos[s] /\ spos[s] < enqueue_pos
      /\ sequence[i] = spos[s] /\ smsg[s] = sent[spos[s] + 1] /\ i \in Slots
  BY SlotType DEF SendWrite, SenderHolds, RingInv, SenderOwns
<1>2. /\ enqueue_pos' = enqueue_pos /\ dequeue_pos' = dequeue_pos
      /\ sequence' = sequence /\ value' = [value EXCEPT ![i] = smsg[s]]
      /\ spos' = spos /\ smsg' = smsg /\ sent' = sent
      /\ rpc' = rpc /\ rpos' = rpos /\ rval' = rval /\ life' = life
      /\ spc[s] = "write" /\ spc' = [spc EXCEPT ![s] = "publish"]
  BY DEF SendWrite, recvVars, endVars
<1>3. /\ SenderHolds(s)' /\ SenderHolds(s)
      /\ \A t \in Senders : (SenderHolds(t)' <=> SenderHolds(t)) /\ (t # s => spc'[t] = spc[t])
      /\ \A r \in Receivers : ReceiverHolds(r)' <=> ReceiverHolds(r)
  BY <1>2 DEF SenderHolds, ReceiverHolds
<1>4. \A p \in Nat : dequeue_pos <= p /\ p < dequeue_pos + Capacity /\ p # spos[s]
                       => value'[SlotOf(p)] = value[SlotOf(p)]
  BY <1>1, <1>2, QueuedSlotIsAlone, SlotType
<1>5. \A r \in Receivers : ReceiverHolds(r) => value'[SlotOf(rpos[r])] = value[SlotOf(rpos[r])]
  BY <1>1, <1>2, QueuedSlotIsAlone, SlotType
<1>6. Window' /\ QuietWhenFreed' /\ ReceivedIsSent' /\ StillAsSeen' /\ OwnersDistinct'
  BY <1>2, <1>3 DEF RingInv, Window, QuietWhenFreed, ReceivedIsSent, StillAsSeen, OwnersDistinct
<1>7. QueuedSlots'
  <2> SUFFICES ASSUME NEW p \in dequeue_pos .. (enqueue_pos - 1)
               PROVE  \/ /\ sequence[SlotOf(p)] = p + 1
                         /\ life = "live" => value'[SlotOf(p)] = sent[p + 1]
                      \/ /\ sequence[SlotOf(p)] = p
                         /\ \E t \in Senders : SenderHolds(t)' /\ spos[t] = p
    BY <1>2 DEF QueuedSlots
  <2>1. CASE p = spos[s]
    BY <2>1, <1>1, <1>3
  <2>2. CASE p # spos[s]
    BY <2>2, <1>3, <1>4, CapacityAssumption DEF RingInv, QueuedSlots, Window
  <2> QED BY <2>1, <2>2
<1>8. FreeSlots'
  BY <1>1, <1>2, <1>3, <1>4, CapacityAssumption DEF RingInv, FreeSlots, Window
<1>9. SenderOwns'
  <2> SUFFICES ASSUME NEW t \in Senders, SenderHolds(t)
               PROVE  /\ dequeue_pos <= spos[t] /\ spos[t] < enqueue_pos
                      /\ sequence[SlotOf(spos[t])] = spos[t]
                      /\ smsg[t] = sent[spos[t] + 1]
                      /\ spc'[t] = "publish" => value'[SlotOf(spos[t])] = smsg[t]
    BY <1>2, <1>3 DEF SenderOwns
  <2>1. CASE t = s
    BY <2>1, <1>1, <1>2
  <2>2. CASE t # s
    BY <2>2, <1>3, <1>4, CapacityAssumption DEF RingInv, SenderOwns, OwnersDistinct, Window
  <2> QED BY <2>1, <2>2
<1>10. ReceiverOwns'
  BY <1>2, <1>3, <1>5 DEF RingInv, ReceiverOwns
<1> QED BY <1>6, <1>7, <1>8, <1>9, <1>10 DEF RingInv

LEMMA SendPublishStep ==
  ASSUME TypeOK, TypeOK', RingInv, NEW s \in Senders, SendPublish(s)
  PROVE  RingInv'
<1> USE DEF TypeOK
<1> DEFINE i == SlotOf(spos[s])
<1>1. /\ dequeue_pos <= spos[s] /\ spos[s] < enqueue_pos /\ i \in Slots
      /\ sequence[i] = spos[s] /\ smsg[s] = sent[spos[s] + 1] /\ value[i] = smsg[s]
  BY SlotType DEF SendPublish, SenderHolds, RingInv, SenderOwns
<1>2. /\ enqueue_pos' = enqueue_pos /\ dequeue_pos' = dequeue_pos
      /\ value' = value /\ sequence' = [sequence EXCEPT ![i] = spos[s] + 1]
      /\ spos' = spos /\ smsg' = smsg /\ sent' = sent
      /\ rpc' = rpc /\ rpos' = rpos /\ rval' = rval /\ life' = life
      /\ spc[s] = "publish" /\ spc' = [spc EXCEPT ![s] = "count"]
  BY DEF SendPublish, recvVars, endVars
<1>3. /\ ~SenderHolds(s)' /\ SenderHolds(s)
      /\ \A t \in Senders \ {s} : (SenderHolds(t)' <=> SenderHolds(t)) /\ spc'[t] = spc[t]
      /\ \A r \in Receivers : ReceiverHolds(r)' <=> ReceiverHolds(r)
  BY <1>2 DEF SenderHolds, ReceiverHolds
<1>4. \A p \in Nat : dequeue_pos <= p /\ p < dequeue_pos + Capacity /\ p # spos[s]
                       => sequence'[SlotOf(p)] = sequence[SlotOf(p)]
  BY <1>1, <1>2, QueuedSlotIsAlone, SlotType
<1>5. ASSUME NEW r \in Receivers, ReceiverHolds(r)
      PROVE  sequence'[SlotOf(rpos[r])] = sequence[SlotOf(rpos[r])]
  BY <1>1, <1>2, <1>5, QueuedSlotIsAlone, SlotType
<1>6. Window' /\ QuietWhenFreed' /\ ReceivedIsSent' /\ OwnersDistinct'
  BY <1>2, <1>3 DEF RingInv, Window, QuietWhenFreed, ReceivedIsSent, OwnersDistinct
<1>7. QueuedSlots'
  <2> SUFFICES ASSUME NEW p \in dequeue_pos .. (enqueue_pos - 1)
               PROVE  \/ /\ sequence'[SlotOf(p)] = p + 1
                         /\ life = "live" => value[SlotOf(p)] = sent[p + 1]
                      \/ /\ sequence'[SlotOf(p)] = p
                         /\ \E t \in Senders : SenderHolds(t)' /\ spos[t] = p
    BY <1>2 DEF QueuedSlots
  <2>1. CASE p = spos[s]
    BY <2>1, <1>1, <1>2
  <2>2. CASE p # spos[s]
    BY <2>2, <1>3, <1>4, CapacityAssumption DEF RingInv, QueuedSlots, Window
  <2> QED BY <2>1, <2>2
<1>8. FreeSlots'
  <2>1. ASSUME NEW p \in enqueue_pos .. (dequeue_pos + Capacity - 1)
        PROVE  sequence'[SlotOf(p)] = sequence[SlotOf(p)]
    BY <1>1, <1>4, CapacityAssumption DEF RingInv, Window
  <2> QED BY <1>2, <1>3, <2>1 DEF RingInv, FreeSlots
<1>9. SenderOwns'
  BY <1>2, <1>3, <1>4, CapacityAssumption DEF RingInv, SenderOwns, OwnersDistinct, Window
<1>10. ReceiverOwns'
  BY <1>2, <1>3, <1>5 DEF RingInv, ReceiverOwns
<1>11. StillAsSeen'
  <2>1. ASSUME NEW t \in Senders
        PROVE  /\ spos[t] <= enqueue_pos
               /\ spc'[t] # "idle" => smsg[t] \in Msg
               /\ spc'[t] = "cas" => spos[t] < enqueue_pos \/ sequence'[SlotOf(spos[t])] = spos[t]
    BY <1>1, <1>2, <1>4, CapacityAssumption DEF RingInv, StillAsSeen, Window
  <2>2. ASSUME NEW r \in Receivers
        PROVE  /\ rpos[r] <= dequeue_pos
               /\ rpc[r] = "cas" => rpos[r] < dequeue_pos \/ sequence'[SlotOf(rpos[r])] = rpos[r] + 1
    BY <1>1, <1>2, <1>4, CapacityAssumption DEF RingInv, StillAsSeen, Window
  <2> QED BY <1>2, <2>1, <2>2 DEF StillAsSeen
<1> QED BY <1>6, <1>7, <1>8, <1>9, <1>10, <1>11 DEF RingInv

(* A receiver whose compare-and-swap succeeds really has a message. *)
LEMMA RecvClaimStep ==
  ASSUME TypeOK, TypeOK', RingInv, NEW r \in Receivers, RecvClaim(r)
  PROVE  RingInv'
<1> USE DEF TypeOK
<1>1. /\ enqueue_pos' = enqueue_pos /\ dequeue_pos' = dequeue_pos + 1
      /\ sequence' = sequence /\ value' = value /\ sent' = sent /\ life' = life
      /\ spc' = spc /\ spos' = spos /\ smsg' = smsg
      /\ rpos' = rpos /\ rval' = rval /\ rpos[r] = dequeue_pos
      /\ rpc[r] = "cas" /\ rpc' = [rpc EXCEPT ![r] = "take"]
  BY DEF RecvClaim, sendVars, endVars
<1>2. /\ ReceiverHolds(r)' /\ ~ReceiverHolds(r) /\ rpc'[r] = "take"
      /\ \A t \in Receivers \ {r} : (ReceiverHolds(t)' <=> ReceiverHolds(t)) /\ rpc'[t] = rpc[t]
      /\ \A s \in Senders : SenderHolds(s)' <=> SenderHolds(s)
  BY <1>1 DEF SenderHolds, ReceiverHolds
<1>3. sequence[SlotOf(dequeue_pos)] = dequeue_pos + 1
  <2>1. rpos[r] < dequeue_pos \/ sequence[SlotOf(rpos[r])] = rpos[r] + 1
    BY <1>1 DEF RingInv, StillAsSeen
  <2>2. rpos[r] = dequeue_pos /\ dequeue_pos \in Nat
    BY <1>1
  <2> QED BY <2>1, <2>2
<1>4. dequeue_pos < enqueue_pos
  <2> SUFFICES ASSUME dequeue_pos = enqueue_pos PROVE FALSE
    BY DEF RingInv, Window
  <2>1. sequence[SlotOf(dequeue_pos)] \in {dequeue_pos, (dequeue_pos - Capacity) + 1}
    BY CapacityAssumption DEF RingInv, FreeSlots
  <2> QED BY <1>3, <2>1, CapacityAssumption
<1>5. life = "live"
  BY <1>1 DEF RingInv, QuietWhenFreed
<1>6. value[SlotOf(dequeue_pos)] = sent[dequeue_pos + 1]
  BY <1>3, <1>4, <1>5 DEF RingInv, QueuedSlots
<1>7. Window'
  BY <1>1, <1>4, CapacityAssumption DEF RingInv, Window
<1>8. QueuedSlots'
  BY <1>1, <1>2 DEF RingInv, QueuedSlots
<1>9. FreeSlots'
  <2> SUFFICES ASSUME NEW p \in enqueue_pos .. (dequeue_pos + Capacity)
               PROVE  \/ sequence[SlotOf(p)] = p /\ value[SlotOf(p)] = None
                      \/ /\ sequence[SlotOf(p)] = (p - Capacity) + 1
                         /\ \E t \in Receivers : ReceiverHolds(t)' /\ rpos[t] = p - Capacity
    BY <1>1, CapacityAssumption DEF FreeSlots
  <2>1. CASE p = dequeue_pos + Capacity
    <3>1. SlotOf(p) = SlotOf(dequeue_pos) /\ p - Capacity = dequeue_pos
      BY <2>1, NextLap, CapacityAssumption
    <3> QED BY <3>1, <1>1, <1>2, <1>3
  <2>2. CASE p # dequeue_pos + Capacity
    <3>1. p \in enqueue_pos .. (dequeue_pos + Capacity - 1)
      BY <2>2, CapacityAssumption
    <3> QED BY <3>1, <1>2 DEF RingInv, FreeSlots
  <2> QED BY <2>1, <2>2
<1>10. SenderOwns'
  <2>1. ASSUME NEW s \in Senders, SenderHolds(s) PROVE dequeue_pos < spos[s]
    BY <2>1, <1>3 DEF RingInv, SenderOwns
  <2> QED BY <1>1, <1>2, <2>1 DEF RingInv, SenderOwns, SenderHolds
<1>11. ReceiverOwns'
  <2> SUFFICES ASSUME NEW t \in Receivers, ReceiverHolds(t)'
               PROVE  /\ enqueue_pos <= rpos[t] + Capacity /\ rpos[t] < dequeue_pos + 1
                      /\ sequence[SlotOf(rpos[t])] = rpos[t] + 1
                      /\ rpc'[t] = "take" => value[SlotOf(rpos[t])] = sent[rpos[t] + 1]
                      /\ rpc'[t] = "release" => value[SlotOf(rpos[t])] = None
    BY <1>1 DEF ReceiverOwns
  <2>1. CASE t = r
    BY <2>1, <1>1, <1>2, <1>3, <1>6 DEF RingInv, Window
  <2>2. CASE t # r
    BY <2>2, <1>2 DEF RingInv, ReceiverOwns
  <2> QED BY <2>1, <2>2
<1>12. OwnersDistinct'
  <2>1. ASSUME NEW t \in Receivers, NEW u \in Receivers, t # u, ReceiverHolds(t)', ReceiverHolds(u)'
        PROVE  rpos[t] # rpos[u]
    <3>1. \A v \in Receivers \ {r} : ReceiverHolds(v)' => rpos[v] < dequeue_pos
      BY <1>2 DEF RingInv, ReceiverOwns
    <3>2. CASE t = r \/ u = r
      BY <2>1, <3>1, <3>2, <1>1
    <3>3. CASE t # r /\ u # r
      BY <2>1, <3>3, <1>2 DEF RingInv, OwnersDistinct
    <3> QED BY <3>2, <3>3
  <2> QED BY <1>1, <1>2, <2>1 DEF RingInv, OwnersDistinct
<1>13. StillAsSeen'
  BY <1>1, <1>2 DEF RingInv, StillAsSeen
<1>14. QuietWhenFreed' /\ ReceivedIsSent'
  BY <1>1, <1>5, <1>2 DEF RingInv, QuietWhenFreed, ReceivedIsSent
<1> QED BY <1>7, <1>8, <1>9, <1>10, <1>11, <1>12, <1>13, <1>14 DEF RingInv

LEMMA RecvTakeStep ==
  ASSUME TypeOK, TypeOK', RingInv, NEW r \in Receivers, RecvTake(r)
  PROVE  RingInv'
<1> USE DEF TypeOK
<1> DEFINE i == SlotOf(rpos[r])
<1>1. /\ enqueue_pos' = enqueue_pos /\ dequeue_pos' = dequeue_pos
      /\ sequence' = sequence /\ value' = [value EXCEPT ![i] = None]
      /\ sent' = sent /\ life' = life /\ spc' = spc /\ spos' = spos /\ smsg' = smsg
      /\ rpos' = rpos /\ rval' = [rval EXCEPT ![r] = value[i]]
      /\ rpc[r] = "take" /\ rpc' = [rpc EXCEPT ![r] = "release"]
  BY DEF RecvTake, sendVars, endVars
<1>2. /\ ReceiverHolds(r) /\ rpc'[r] = "release"
      /\ \A t \in Receivers : ReceiverHolds(t)' <=> ReceiverHolds(t)
      /\ \A t \in Receivers \ {r} : rpc'[t] = rpc[t] /\ rval'[t] = rval[t]
      /\ \A s \in Senders : SenderHolds(s)' <=> SenderHolds(s)
  BY <1>1 DEF SenderHolds, ReceiverHolds
<1>3. /\ enqueue_pos <= rpos[r] + Capacity /\ rpos[r] < dequeue_pos
      /\ sequence[i] = rpos[r] + 1 /\ value[i] = sent[rpos[r] + 1] /\ i \in Slots
  BY <1>1, <1>2, SlotType DEF RingInv, ReceiverOwns
<1>4. /\ value'[i] = None
      /\ \A p \in Nat : dequeue_pos <= p /\ p < dequeue_pos + Capacity /\ p # rpos[r] + Capacity
                          => value'[SlotOf(p)] = value[SlotOf(p)]
      /\ \A t \in Receivers : ReceiverHolds(t) /\ t # r
                          => value'[SlotOf(rpos[t])] = value[SlotOf(rpos[t])]
  BY <1>1, <1>2, <1>3, TakenSlotIsAlone, SlotType, ZenonT(40)
<1>5. Window' /\ QuietWhenFreed' /\ OwnersDistinct' /\ StillAsSeen'
  BY <1>1, <1>2 DEF RingInv, Window, QuietWhenFreed, OwnersDistinct, StillAsSeen
<1>6. QueuedSlots'
  <2>1. ASSUME NEW p \in dequeue_pos .. (enqueue_pos - 1)
        PROVE  value'[SlotOf(p)] = value[SlotOf(p)]
    BY <1>3, <1>4, CapacityAssumption DEF RingInv, Window
  <2> QED BY <1>1, <1>2, <2>1 DEF RingInv, QueuedSlots
<1>7. FreeSlots'
  <2>1. ASSUME NEW p \in enqueue_pos .. (dequeue_pos + Capacity - 1)
        PROVE  value[SlotOf(p)] = None => value'[SlotOf(p)] = None
    BY <1>1, SlotType, SMTT(30) DEF RingInv, Window
  <2> QED BY <1>1, <1>2, <2>1 DEF RingInv, FreeSlots
<1>8. SenderOwns'
  <2>1. ASSUME NEW s \in Senders, SenderHolds(s)
        PROVE  value'[SlotOf(spos[s])] = value[SlotOf(spos[s])]
    <3>1. /\ spos[s] \in Nat /\ dequeue_pos <= spos[s] /\ spos[s] < enqueue_pos
          /\ enqueue_pos <= dequeue_pos + Capacity
      BY <2>1 DEF RingInv, SenderOwns, Window
    <3>2. spos[s] # rpos[r] + Capacity /\ spos[s] < dequeue_pos + Capacity
      BY <3>1, <1>3, CapacityAssumption, SMTT(30)
    <3> QED BY <3>1, <3>2, <1>4
  <2> QED BY <1>1, <1>2, <2>1 DEF RingInv, SenderOwns, SenderHolds
<1>9. ReceiverOwns'
  <2> SUFFICES ASSUME NEW t \in Receivers, ReceiverHolds(t)
               PROVE  /\ enqueue_pos <= rpos[t] + Capacity /\ rpos[t] < dequeue_pos
                      /\ sequence[SlotOf(rpos[t])] = rpos[t] + 1
                      /\ rpc'[t] = "take" => value'[SlotOf(rpos[t])] = sent[rpos[t] + 1]
                      /\ rpc'[t] = "release" => value'[SlotOf(rpos[t])] = None
    BY <1>1, <1>2 DEF ReceiverOwns
  <2>1. CASE t = r
    BY <2>1, <1>2, <1>3, <1>4
  <2>2. CASE t # r
    BY <2>2, <1>2, <1>4 DEF RingInv, ReceiverOwns
  <2> QED BY <2>1, <2>2
<1>10. ReceivedIsSent'
  <2>1. rpos[r] < Len(sent) /\ rval'[r] = sent[rpos[r] + 1]
    BY <1>1, <1>3 DEF RingInv, Window
  <2> QED BY <1>1, <1>2, <2>1 DEF RingInv, ReceivedIsSent
<1> QED BY <1>5, <1>6, <1>7, <1>8, <1>9, <1>10 DEF RingInv

LEMMA RecvReleaseStep ==
  ASSUME TypeOK, TypeOK', RingInv, NEW r \in Receivers, RecvRelease(r)
  PROVE  RingInv'
<1> USE DEF TypeOK
<1> DEFINE i == SlotOf(rpos[r])
           q == rpos[r] + Capacity
<1>1. /\ enqueue_pos' = enqueue_pos /\ dequeue_pos' = dequeue_pos
      /\ value' = value /\ sequence' = [sequence EXCEPT ![i] = q]
      /\ sent' = sent /\ life' = life /\ spc' = spc /\ spos' = spos /\ smsg' = smsg
      /\ rpos' = rpos /\ rval' = rval
      /\ rpc[r] = "release" /\ rpc' = [rpc EXCEPT ![r] = "count"]
  BY DEF RecvRelease, sendVars, endVars
<1>2. /\ ReceiverHolds(r) /\ ~ReceiverHolds(r)' /\ rpc'[r] = "count"
      /\ \A t \in Receivers \ {r} : (ReceiverHolds(t)' <=> ReceiverHolds(t)) /\ rpc'[t] = rpc[t]
      /\ \A s \in Senders : SenderHolds(s)' <=> SenderHolds(s)
  BY <1>1 DEF SenderHolds, ReceiverHolds
<1>3. /\ enqueue_pos <= q /\ rpos[r] < dequeue_pos /\ q \in Nat
      /\ sequence[i] = rpos[r] + 1 /\ value[i] = None /\ i \in Slots
      /\ SlotOf(q) = i /\ q < dequeue_pos + Capacity /\ rpos[r] = q - Capacity
  <2>1. /\ enqueue_pos <= q /\ rpos[r] < dequeue_pos
        /\ sequence[i] = rpos[r] + 1 /\ value[i] = None
    BY <1>1, <1>2 DEF RingInv, ReceiverOwns
  <2>2. i \in Slots /\ q \in Nat /\ SlotOf(q) = i /\ rpos[r] \in Nat
    <3>1. rpos[r] \in Nat
      OBVIOUS
    <3>2. i \in Slots
      BY <3>1, SlotType
    <3>3. q \in Nat
      BY <3>1, CapacityAssumption
    <3>4. SlotOf(q) = i
      BY <3>1, NextLap
    <3> QED BY <3>1, <3>2, <3>3, <3>4
  <2>3. q < dequeue_pos + Capacity /\ rpos[r] = q - Capacity
    BY <2>1, <2>2, CapacityAssumption, SMTT(30)
  <2> QED BY <2>1, <2>2, <2>3
<1> HIDE DEF q
<1>4. /\ sequence'[i] = q
      /\ \A p \in Nat : dequeue_pos <= p /\ p < dequeue_pos + Capacity /\ p # q
                          => sequence'[SlotOf(p)] = sequence[SlotOf(p)]
      /\ \A t \in Receivers : ReceiverHolds(t) /\ t # r
                          => sequence'[SlotOf(rpos[t])] = sequence[SlotOf(rpos[t])]
  BY <1>1, <1>2, <1>3, TakenSlotIsAlone, SlotType DEF q
<1>5. Window' /\ QuietWhenFreed' /\ OwnersDistinct'
  BY <1>1, <1>2 DEF RingInv, Window, QuietWhenFreed, OwnersDistinct
<1>6. QueuedSlots'
  <2>1. ASSUME NEW p \in dequeue_pos .. (enqueue_pos - 1)
        PROVE  sequence'[SlotOf(p)] = sequence[SlotOf(p)]
    BY <1>3, <1>4, CapacityAssumption DEF RingInv, Window
  <2> QED BY <1>1, <1>2, <2>1 DEF RingInv, QueuedSlots
<1>7. FreeSlots'
  <2> SUFFICES ASSUME NEW p \in enqueue_pos .. (dequeue_pos + Capacity - 1)
               PROVE  \/ sequence'[SlotOf(p)] = p /\ value[SlotOf(p)] = None
                      \/ /\ sequence'[SlotOf(p)] = (p - Capacity) + 1
                         /\ \E t \in Receivers : ReceiverHolds(t)' /\ rpos[t] = p - Capacity
    BY <1>1 DEF FreeSlots
  <2>1. CASE p = q
    BY <2>1, <1>3, <1>4
  <2>2. CASE p # q
    <3>1. sequence'[SlotOf(p)] = sequence[SlotOf(p)]
      BY <2>2, <1>4, CapacityAssumption DEF RingInv, Window
    <3>2. rpos[r] # p - Capacity
      BY <2>2, <1>3, CapacityAssumption
    <3> QED BY <3>1, <3>2, <1>2 DEF RingInv, FreeSlots
  <2> QED BY <2>1, <2>2
<1>8. SenderOwns'
  <2>1. ASSUME NEW s \in Senders, SenderHolds(s)
        PROVE  sequence'[SlotOf(spos[s])] = sequence[SlotOf(spos[s])]
    <3>1. /\ spos[s] \in Nat /\ dequeue_pos <= spos[s] /\ spos[s] < enqueue_pos
          /\ enqueue_pos <= dequeue_pos + Capacity
      BY <2>1 DEF RingInv, SenderOwns, Window
    <3>2. spos[s] # q /\ spos[s] < dequeue_pos + Capacity
      BY <3>1, <1>3, CapacityAssumption, SMTT(30)
    <3> QED BY <3>1, <3>2, <1>4
  <2> QED BY <1>1, <1>2, <2>1 DEF RingInv, SenderOwns, SenderHolds
<1>9. ReceiverOwns'
  BY <1>1, <1>2, <1>4 DEF RingInv, ReceiverOwns
<1>10. StillAsSeen'
  <2>1. ASSUME NEW t \in Senders
        PROVE  spc[t] = "cas" => spos[t] < enqueue_pos \/ sequence'[SlotOf(spos[t])] = spos[t]
    <3> SUFFICES ASSUME spc[t] = "cas", ~(spos[t] < enqueue_pos)
                 PROVE  sequence'[SlotOf(spos[t])] = spos[t]
      OBVIOUS
    <3>1. spos[t] = enqueue_pos /\ sequence[SlotOf(enqueue_pos)] = enqueue_pos
      BY DEF RingInv, StillAsSeen
    <3>2. SlotOf(enqueue_pos) # i
      BY <1>3, <3>1, SlotsApart, CapacityAssumption DEF RingInv, Window
    <3> QED BY <3>1, <3>2, <1>1, SlotType
  <2>2. ASSUME NEW t \in Receivers
        PROVE  rpc'[t] = "cas" => rpos[t] < dequeue_pos \/ sequence'[SlotOf(rpos[t])] = rpos[t] + 1
    <3> SUFFICES ASSUME rpc'[t] = "cas", ~(rpos[t] < dequeue_pos)
                 PROVE  sequence'[SlotOf(rpos[t])] = rpos[t] + 1
      OBVIOUS
    <3>1. rpos[t] = dequeue_pos /\ sequence[SlotOf(dequeue_pos)] = dequeue_pos + 1
      <4>1. t # r /\ rpc[t] = "cas"
        BY <1>2
      <4>2. /\ rpos[t] <= dequeue_pos
            /\ rpos[t] < dequeue_pos \/ sequence[SlotOf(rpos[t])] = rpos[t] + 1
        BY <4>1 DEF RingInv, StillAsSeen
      <4>3. rpos[t] = dequeue_pos
        BY <4>2
      <4> QED BY <4>2, <4>3
    <3>2. SlotOf(dequeue_pos) # i
      BY <1>3, <3>1
    <3> QED BY <3>1, <3>2, <1>1, SlotType
  <2> QED BY <1>1, <1>2, <2>1, <2>2 DEF RingInv, StillAsSeen
<1>11. ReceivedIsSent'
  BY <1>1, <1>2 DEF RingInv, ReceivedIsSent
<1> QED BY <1>5, <1>6, <1>7, <1>8, <1>9, <1>10, <1>11 DEF RingInv

LEMMA DestroyStep ==
  ASSUME TypeOK, TypeOK', RingInv, DestroyRing
  PROVE  RingInv'
<1> USE DEF TypeOK
<1>1. /\ enqueue_pos' = enqueue_pos /\ dequeue_pos' = dequeue_pos /\ sequence' = sequence
      /\ sent' = sent /\ life' = "freed" /\ spc' = spc /\ spos' = spos /\ smsg' = smsg
      /\ rpc' = rpc /\ rpos' = rpos /\ rval' = rval
      /\ \A s \in Senders : spc[s] = "idle"
      /\ \A r \in Receivers : rpc[r] = "idle"
      /\ \A i \in Slots : value'[i] \in {None, value[i]}
  BY DEF DestroyRing, sendVars, recvVars
<1>2. /\ \A s \in Senders : ~SenderHolds(s) /\ ~SenderHolds(s)'
      /\ \A r \in Receivers : ~ReceiverHolds(r) /\ ~ReceiverHolds(r)'
  BY <1>1 DEF SenderHolds, ReceiverHolds
<1>3. Window' /\ StillAsSeen' /\ QuietWhenFreed' /\ ReceivedIsSent'
  BY <1>1 DEF RingInv, Window, StillAsSeen, QuietWhenFreed, ReceivedIsSent
<1>4. SenderOwns' /\ ReceiverOwns' /\ OwnersDistinct'
  BY <1>2 DEF SenderOwns, ReceiverOwns, OwnersDistinct
<1>5. QueuedSlots'
  BY <1>1, <1>2 DEF RingInv, QueuedSlots
<1>6. FreeSlots'
  BY <1>1, <1>2, SlotType, CapacityAssumption DEF RingInv, FreeSlots, Window
<1> QED BY <1>3, <1>4, <1>5, <1>6 DEF RingInv

-----------------------------------------------------------------------------
LEMMA InitEstablishes == Init => TypeOK /\ RingInv
<1> SUFFICES ASSUME Init PROVE TypeOK /\ RingInv
  OBVIOUS
<1>1. TypeOK
  BY CapacityAssumption DEF Init, TypeOK, SendPC, RecvPC, Slots
<1>2. /\ \A s \in Senders : ~SenderHolds(s) /\ spc[s] = "idle" /\ spos[s] = 0
      /\ \A r \in Receivers : ~ReceiverHolds(r) /\ rpc[r] = "idle" /\ rpos[r] = 0
  BY DEF Init, SenderHolds, ReceiverHolds
<1>3. Window /\ QueuedSlots
  BY CapacityAssumption DEF Init, Window, QueuedSlots
<1>4. FreeSlots
  BY FirstLap, CapacityAssumption DEF Init, FreeSlots, Slots
<1>5. SenderOwns /\ ReceiverOwns /\ OwnersDistinct /\ QuietWhenFreed /\ ReceivedIsSent
  BY <1>2 DEF SenderOwns, ReceiverOwns, OwnersDistinct, QuietWhenFreed, ReceivedIsSent
<1>6. StillAsSeen
  BY <1>2 DEF Init, StillAsSeen
<1> QED BY <1>1, <1>3, <1>4, <1>5, <1>6 DEF RingInv

LEMMA InvStep == TypeOK /\ RingInv /\ [Next]_vars => RingInv'
<1> SUFFICES ASSUME TypeOK, RingInv, [Next]_vars PROVE RingInv'
  OBVIOUS
<1>0. TypeOK'
  BY TypeStep
<1>1. ASSUME NEW s \in Senders, SendStep(s) PROVE RingInv'
  <2>1. CASE SendCall(s)
    <3>1. SendsLocally(s)
      BY <2>1 DEF SendsLocally, SendCall, TypeOK, ringVars, RingInv, Window, StillAsSeen, QuietWhenFreed
    <3> QED BY <3>1, <1>0, LocalSendStep
  <2>2. CASE SendSeesFree(s)
    <3>0. sequence[SlotOf(spos[s])] = spos[s]
      BY <2>2, SlotType DEF SendSeesFree, SendDiff, TypeOK
    <3>1. SendsLocally(s)
      BY <2>2, <3>0 DEF SendsLocally, SendSeesFree, TypeOK, ringVars, RingInv, StillAsSeen, QuietWhenFreed
    <3> QED BY <3>1, <1>0, LocalSendStep
  <2>3. CASE SendRefused(s)
    <3>1. SendsLocally(s)
      BY <2>3 DEF SendsLocally, SendRefused, TypeOK, ringVars, RingInv, StillAsSeen, QuietWhenFreed
    <3> QED BY <3>1, <1>0, LocalSendStep
  <2>4. CASE SendOvertaken(s)
    <3>1. SendsLocally(s)
      BY <2>4 DEF SendsLocally, SendOvertaken, TypeOK, ringVars, RingInv, StillAsSeen, QuietWhenFreed
    <3> QED BY <3>1, <1>0, LocalSendStep
  <2>5. CASE SendReload(s)
    <3>1. SendsLocally(s)
      BY <2>5 DEF SendsLocally, SendReload, TypeOK, ringVars, RingInv, StillAsSeen, QuietWhenFreed
    <3> QED BY <3>1, <1>0, LocalSendStep
  <2>6. CASE SendClaim(s)
    BY <2>6, <1>0, SendClaimStep
  <2>7. CASE SendClaimFail(s)
    <3>1. SendsLocally(s)
      BY <2>7 DEF SendsLocally, SendClaimFail, TypeOK, ringVars, RingInv, StillAsSeen, QuietWhenFreed
    <3> QED BY <3>1, <1>0, LocalSendStep
  <2>8. CASE SendWrite(s)
    BY <2>8, <1>0, SendWriteStep
  <2>9. CASE SendPublish(s)
    BY <2>9, <1>0, SendPublishStep
  <2>10. CASE SendCount(s)
    <3>1. SendsLocally(s)
      BY <2>10 DEF SendsLocally, SendCount, TypeOK, RingInv, StillAsSeen, QuietWhenFreed
    <3> QED BY <3>1, <1>0, LocalSendStep
  <2> QED BY <1>1, <2>1, <2>2, <2>3, <2>4, <2>5, <2>6, <2>7, <2>8, <2>9, <2>10 DEF SendStep
<1>2. ASSUME NEW r \in Receivers, RecvStep(r) PROVE RingInv'
  <2>1. CASE RecvCall(r)
    <3>1. ReceivesLocally(r)
      BY <2>1 DEF ReceivesLocally, RecvCall, TypeOK, ringVars, RingInv, StillAsSeen, QuietWhenFreed
    <3> QED BY <3>1, <1>0, LocalRecvStep
  <2>2. CASE RecvSeesData(r)
    <3>0. sequence[SlotOf(rpos[r])] = rpos[r] + 1
      BY <2>2, SlotType DEF RecvSeesData, RecvDiff, TypeOK
    <3>1. ReceivesLocally(r)
      BY <2>2, <3>0 DEF ReceivesLocally, RecvSeesData, TypeOK, ringVars, RingInv, StillAsSeen, QuietWhenFreed
    <3> QED BY <3>1, <1>0, LocalRecvStep
  <2>3. CASE RecvRefused(r)
    <3>1. ReceivesLocally(r)
      BY <2>3 DEF ReceivesLocally, RecvRefused, TypeOK, ringVars, RingInv, StillAsSeen, QuietWhenFreed
    <3> QED BY <3>1, <1>0, LocalRecvStep
  <2>4. CASE RecvOvertaken(r)
    <3>1. ReceivesLocally(r)
      BY <2>4 DEF ReceivesLocally, RecvOvertaken, TypeOK, ringVars, RingInv, StillAsSeen, QuietWhenFreed
    <3> QED BY <3>1, <1>0, LocalRecvStep
  <2>5. CASE RecvReload(r)
    <3>1. ReceivesLocally(r)
      BY <2>5 DEF ReceivesLocally, RecvReload, TypeOK, ringVars, RingInv, StillAsSeen, QuietWhenFreed
    <3> QED BY <3>1, <1>0, LocalRecvStep
  <2>6. CASE RecvClaim(r)
    BY <2>6, <1>0, RecvClaimStep
  <2>7. CASE RecvClaimFail(r)
    <3>1. ReceivesLocally(r)
      BY <2>7 DEF ReceivesLocally, RecvClaimFail, TypeOK, ringVars, RingInv, StillAsSeen, QuietWhenFreed
    <3> QED BY <3>1, <1>0, LocalRecvStep
  <2>8. CASE RecvTake(r)
    BY <2>8, <1>0, RecvTakeStep
  <2>9. CASE RecvRelease(r)
    BY <2>9, <1>0, RecvReleaseStep
  <2>10. CASE RecvCount(r)
    <3>1. ReceivesLocally(r)
      BY <2>10 DEF ReceivesLocally, RecvCount, TypeOK, RingInv, StillAsSeen, QuietWhenFreed, ReceivedIsSent
    <3> QED BY <3>1, <1>0, LocalRecvStep
  <2>11. CASE RecvReturn(r)
    <3>1. ReceivesLocally(r)
      BY <2>11 DEF ReceivesLocally, RecvReturn, TypeOK, ringVars, RingInv, StillAsSeen, QuietWhenFreed
    <3> QED BY <3>1, <1>0, LocalRecvStep
  <2> QED BY <1>2, <2>1, <2>2, <2>3, <2>4, <2>5, <2>6, <2>7, <2>8, <2>9, <2>10, <2>11 DEF RecvStep
<1>3. CASE DestroyRing
  BY <1>0, <1>3, DestroyStep
<1>4. CASE UNCHANGED vars
  BY <1>4 DEF vars, ringVars, sendVars, recvVars, endVars, RingInv, Window, QueuedSlots, FreeSlots,
     SenderOwns, ReceiverOwns, OwnersDistinct, StillAsSeen, QuietWhenFreed, ReceivedIsSent,
     SenderHolds, ReceiverHolds
<1> QED BY <1>1, <1>2, <1>3, <1>4 DEF Next

(* The ring's invariant holds in every reachable state, whatever the        *)
(* capacity and the number of threads.                                      *)
THEOREM RingInvariant == Spec => [](TypeOK /\ RingInv)
<1>1. TypeOK /\ RingInv /\ [Next]_vars => (TypeOK /\ RingInv)'
  BY TypeStep, InvStep
<1> QED BY InitEstablishes, <1>1, PTL DEF Spec

(* Every variable keeps its type: in particular no generation counter of    *)
(* channel_try_send / channel_try_recv goes below zero.                     *)
THEOREM RingTypes == Spec => []TypeOK
  BY RingInvariant, PTL

(* channel_try_recv and actor_receive return the message that was sent at   *)
(* the position they claimed.                                               *)
THEOREM MessagesArrive == Spec => []ReceivedIsSent
<1>1. TypeOK /\ RingInv => ReceivedIsSent
  BY DEF RingInv
<1> QED BY RingInvariant, <1>1, PTL

(* No two threads ever access the payload of one slot at the same time.     *)
THEOREM SlotsAreExclusive == Spec => []SlotExclusive
<1>1. TypeOK /\ RingInv => SlotExclusive
  <2> SUFFICES ASSUME TypeOK, RingInv PROVE SlotExclusive
    OBVIOUS
  <2>1. \A s, t \in Senders : SenderHolds(s) /\ SenderHolds(t) /\ s # t
                               => SlotOf(spos[s]) # SlotOf(spos[t])
    BY DEF RingInv, SenderOwns, OwnersDistinct
  <2>2. \A r, t \in Receivers : ReceiverHolds(r) /\ ReceiverHolds(t) /\ r # t
                               => SlotOf(rpos[r]) # SlotOf(rpos[t])
    BY TakenSlotIsAlone
  <2>3. ASSUME NEW s \in Senders, NEW r \in Receivers, SenderHolds(s), ReceiverHolds(r)
        PROVE  SlotOf(spos[s]) # SlotOf(rpos[r])
    <3>1. spos[s] \in Nat /\ dequeue_pos <= spos[s] /\ spos[s] < enqueue_pos
      BY <2>3 DEF TypeOK, RingInv, SenderOwns
    <3> QED BY <2>3, <3>1, QueuedSlotIsAlone
  <2> QED BY <2>1, <2>2, <2>3 DEF SlotExclusive
<1> QED BY RingInvariant, <1>1, PTL

-----------------------------------------------------------------------------
(* The count.  Only the four steps that claim a position or touch the       *)
(* counter change one of the two sets of threads that CountAccurate counts. *)

Uncounted == {s \in Senders : spc[s] \in {"write", "publish", "count"}}
Undone == {r \in Receivers : rpc[r] \in {"take", "release", "count"}}

(* The two sets stay finite, as one thread at a time enters them. *)
CountInv == /\ IsFiniteSet(Uncounted) /\ IsFiniteSet(Undone)
            /\ CountAccurate

(* Adding or removing one thread keeps a set finite and moves its size by   *)
(* one.                                                                     *)
LEMMA OneMoreOrLess ==
  ASSUME NEW S, NEW x, IsFiniteSet(S)
  PROVE  /\ Cardinality(S) \in Int
         /\ IsFiniteSet(S \cup {x}) /\ IsFiniteSet(S \ {x})
         /\ x \notin S => Cardinality(S \cup {x}) = Cardinality(S) + 1
         /\ x \in S => Cardinality(S \ {x}) = Cardinality(S) - 1
BY FS_AddElement, FS_RemoveElement, FS_CardinalityType

LEMMA CountStep ==
  ASSUME TypeOK, CountInv, [Next]_vars
  PROVE  CountInv'
<1> USE DEF TypeOK
<1>0. IsFiniteSet(Uncounted) /\ IsFiniteSet(Undone)
  BY DEF CountInv
<1>1. count = (enqueue_pos - dequeue_pos) - Cardinality(Uncounted) + Cardinality(Undone)
  BY DEF CountInv, CountAccurate, Uncounted, Undone
<1>2. Cardinality(Uncounted) \in Int /\ Cardinality(Undone) \in Int
  BY <1>0, FS_CardinalityType
<1>3. ASSUME IsFiniteSet(Uncounted'), IsFiniteSet(Undone'),
             count' = (enqueue_pos' - dequeue_pos') - Cardinality(Uncounted') + Cardinality(Undone')
      PROVE  CountInv'
  BY <1>3 DEF CountInv, CountAccurate, Uncounted, Undone
<1>4. ASSUME NEW s \in Senders, SendClaim(s)
      PROVE  CountInv'
  <2>1. Uncounted' = Uncounted \cup {s} /\ s \notin Uncounted /\ Undone' = Undone
    BY <1>4 DEF SendClaim, Uncounted, Undone, recvVars
  <2>2. /\ IsFiniteSet(Uncounted \cup {s}) /\ Cardinality(Uncounted \cup {s}) = Cardinality(Uncounted) + 1
    BY <1>0, <2>1, OneMoreOrLess
  <2>3. count' = count /\ enqueue_pos' = enqueue_pos + 1 /\ dequeue_pos' = dequeue_pos
    BY <1>4 DEF SendClaim
  <2> QED BY <1>0, <1>1, <1>2, <1>3, <2>1, <2>2, <2>3
<1>5. ASSUME NEW s \in Senders, SendCount(s)
      PROVE  CountInv'
  <2>1. Uncounted' = Uncounted \ {s} /\ s \in Uncounted /\ Undone' = Undone
    BY <1>5 DEF SendCount, Uncounted, Undone, recvVars
  <2>2. /\ IsFiniteSet(Uncounted \ {s}) /\ Cardinality(Uncounted \ {s}) = Cardinality(Uncounted) - 1
    BY <1>0, <2>1, OneMoreOrLess
  <2>3. count' = count + 1 /\ enqueue_pos' = enqueue_pos /\ dequeue_pos' = dequeue_pos
    BY <1>5 DEF SendCount
  <2> QED BY <1>0, <1>1, <1>2, <1>3, <2>1, <2>2, <2>3
<1>6. ASSUME NEW r \in Receivers, RecvClaim(r)
      PROVE  CountInv'
  <2>1. Undone' = Undone \cup {r} /\ r \notin Undone /\ Uncounted' = Uncounted
    BY <1>6 DEF RecvClaim, Uncounted, Undone, sendVars
  <2>2. /\ IsFiniteSet(Undone \cup {r}) /\ Cardinality(Undone \cup {r}) = Cardinality(Undone) + 1
    BY <1>0, <2>1, OneMoreOrLess
  <2>3. count' = count /\ enqueue_pos' = enqueue_pos /\ dequeue_pos' = dequeue_pos + 1
    BY <1>6 DEF RecvClaim
  <2> QED BY <1>0, <1>1, <1>2, <1>3, <2>1, <2>2, <2>3
<1>7. ASSUME NEW r \in Receivers, RecvCount(r)
      PROVE  CountInv'
  <2>1. Undone' = Undone \ {r} /\ r \in Undone /\ Uncounted' = Uncounted
    BY <1>7 DEF RecvCount, Uncounted, Undone, sendVars
  <2>2. /\ IsFiniteSet(Undone \ {r}) /\ Cardinality(Undone \ {r}) = Cardinality(Undone) - 1
    BY <1>0, <2>1, OneMoreOrLess
  <2>3. count' = count - 1 /\ enqueue_pos' = enqueue_pos /\ dequeue_pos' = dequeue_pos
    BY <1>7 DEF RecvCount
  <2> QED BY <1>0, <1>1, <1>2, <1>3, <2>1, <2>2, <2>3
<1>8. ASSUME UNCHANGED <<count, enqueue_pos, dequeue_pos>>,
             Uncounted' = Uncounted, Undone' = Undone
      PROVE  CountInv'
  BY <1>0, <1>1, <1>3, <1>8
<1>9. ASSUME NEW s \in Senders, SendStep(s), ~SendClaim(s), ~SendCount(s)
      PROVE  CountInv'
  <2>1. Undone' = Undone /\ UNCHANGED <<count, enqueue_pos, dequeue_pos>>
    BY <1>9 DEF SendStep, SendCall, SendSeesFree, SendRefused, SendOvertaken, SendReload,
       SendClaimFail, SendWrite, SendPublish, Undone, ringVars, recvVars
  <2>2. Uncounted' = Uncounted
    BY <1>9 DEF SendStep, SendCall, SendSeesFree, SendRefused, SendOvertaken, SendReload,
       SendClaimFail, SendWrite, SendPublish, Uncounted
  <2> QED BY <1>8, <2>1, <2>2
<1>10. ASSUME NEW r \in Receivers, RecvStep(r), ~RecvClaim(r), ~RecvCount(r)
       PROVE  CountInv'
  <2>1. Uncounted' = Uncounted /\ UNCHANGED <<count, enqueue_pos, dequeue_pos>>
    BY <1>10 DEF RecvStep, RecvCall, RecvSeesData, RecvRefused, RecvOvertaken, RecvReload,
       RecvClaimFail, RecvTake, RecvRelease, RecvReturn, Uncounted, ringVars, sendVars
  <2>2. Undone' = Undone
    BY <1>10 DEF RecvStep, RecvCall, RecvSeesData, RecvRefused, RecvOvertaken, RecvReload,
       RecvClaimFail, RecvTake, RecvRelease, RecvReturn, Undone
  <2> QED BY <1>8, <2>1, <2>2
<1>11. CASE DestroyRing \/ UNCHANGED vars
  <2>1. UNCHANGED <<count, enqueue_pos, dequeue_pos, spc, rpc>>
    BY <1>11 DEF DestroyRing, vars, ringVars, sendVars, recvVars
  <2> QED BY <1>8, <2>1 DEF Uncounted, Undone
<1> QED BY <1>4, <1>5, <1>6, <1>7, <1>9, <1>10, <1>11 DEF Next

(* The counter that actor_receive and sched_actor_runnable look at is exact *)
(* up to the operations in flight, however many threads there are.          *)
THEOREM CounterAccurate == Spec => []CountAccurate
<1>1. Init => CountInv
  <2> SUFFICES ASSUME Init PROVE CountInv
    OBVIOUS
  <2>1. Uncounted = {} /\ Undone = {} /\ count = 0 /\ enqueue_pos = 0 /\ dequeue_pos = 0
    BY DEF Init, Uncounted, Undone
  <2>2. IsFiniteSet({}) /\ Cardinality({}) = 0
    BY FS_EmptySet
  <2> QED BY <2>1, <2>2 DEF CountInv, CountAccurate, Uncounted, Undone
<1>2. TypeOK /\ CountInv /\ [Next]_vars => CountInv'
  BY CountStep
<1>3. CountInv => CountAccurate
  BY DEF CountInv
<1> QED BY <1>1, <1>2, <1>3, RingTypes, PTL DEF Spec

-----------------------------------------------------------------------------
(* Refusals.  The window covers the slots: whichever position a thread      *)
(* holds, its slot belongs to exactly one position of the window.           *)
LEMMA WindowCovers ==
  ASSUME NEW d \in Nat, NEW i \in Slots
  PROVE  \E p \in d .. (d + Capacity - 1) : SlotOf(p) = i
<1> DEFINE a == d \div Capacity
           r == d % Capacity
<1>1. a \in Nat /\ r \in 0 .. (Capacity - 1) /\ d = (Capacity * a) + r /\ Capacity \in Nat /\ i \in Nat /\ i < Capacity
  BY DivMod, CapacityAssumption DEF Slots
<1> HIDE DEF a, r
<1>2. ASSUME NEW p \in Nat, NEW b \in Nat, p = (Capacity * b) + i
      PROVE  SlotOf(p) = i
  <2> DEFINE c == p \div Capacity
  <2>1. c \in Nat /\ p % Capacity \in 0 .. (Capacity - 1) /\ p = (Capacity * c) + (p % Capacity)
    BY DivMod, CapacityAssumption
  <2> HIDE DEF c
  <2>2. Capacity * b \in Nat /\ Capacity * c \in Nat
    BY <1>1, <2>1
  <2>3. b = c
    <3>1. CASE b < c
      <4>1. Capacity * c >= (Capacity * b) + Capacity
        BY <3>1, <2>1, MultiplesApart
      <4> QED BY <4>1, <1>1, <1>2, <2>1, <2>2
    <3>2. CASE c < b
      <4>1. Capacity * b >= (Capacity * c) + Capacity
        BY <3>2, <2>1, MultiplesApart
      <4> QED BY <4>1, <1>1, <1>2, <2>1, <2>2
    <3> QED BY <3>1, <3>2, <2>1
  <2> QED BY <1>1, <1>2, <2>1, <2>2, <2>3 DEF SlotOf
<1>3. CASE r <= i
  <2>1. (Capacity * a) + i \in d .. (d + Capacity - 1) /\ (Capacity * a) + i \in Nat
    BY <1>1, <1>3
  <2> QED BY <2>1, <1>1, <1>2
<1>4. CASE i < r
  <2>1. Capacity * (a + 1) = (Capacity * a) + Capacity
    BY <1>1
  <2>2. (Capacity * (a + 1)) + i \in d .. (d + Capacity - 1) /\ (Capacity * (a + 1)) + i \in Nat /\ a + 1 \in Nat
    BY <1>1, <1>4, <2>1
  <2> QED BY <2>2, <1>2
<1> QED BY <1>1, <1>3, <1>4

(* What a slot's generation counter can be, seen from a position at or      *)
(* before the end of the window.                                            *)
LEMMA GenerationOf ==
  ASSUME TypeOK, RingInv, NEW p \in Nat
  PROVE  \E q \in dequeue_pos .. (dequeue_pos + Capacity - 1) :
            /\ SlotOf(q) = SlotOf(p)
            /\ p < q => q >= p + Capacity
            /\ q < p => p >= q + Capacity
            /\ \/ sequence[SlotOf(p)] = q
               \/ q < enqueue_pos /\ sequence[SlotOf(p)] = q + 1
               \/ /\ q >= enqueue_pos /\ sequence[SlotOf(p)] = (q - Capacity) + 1
                  /\ \E r \in Receivers : ReceiverHolds(r)
            /\ q < enqueue_pos /\ sequence[SlotOf(p)] = q
                 => \E s \in Senders : SenderHolds(s) /\ spos[s] = q
<1> USE DEF TypeOK
<1>1. PICK q \in dequeue_pos .. (dequeue_pos + Capacity - 1) : SlotOf(q) = SlotOf(p)
  BY WindowCovers, SlotType
<1>2. q \in Nat
  BY <1>1, CapacityAssumption
<1>3. (p < q => q >= p + Capacity) /\ (q < p => p >= q + Capacity)
  BY <1>1, <1>2, SlotsApart
<1>4. CASE q < enqueue_pos
  <2>1. \/ sequence[SlotOf(q)] = q + 1
        \/ sequence[SlotOf(q)] = q /\ \E s \in Senders : SenderHolds(s) /\ spos[s] = q
    BY <1>4, <1>2 DEF RingInv, QueuedSlots
  <2> QED BY <1>1, <1>2, <1>3, <1>4, <2>1
<1>5. CASE q >= enqueue_pos
  <2>1. \/ sequence[SlotOf(q)] = q
        \/ /\ sequence[SlotOf(q)] = (q - Capacity) + 1
           /\ \E r \in Receivers : ReceiverHolds(r)
    BY <1>5, <1>2 DEF RingInv, FreeSlots
  <2> QED BY <1>1, <1>2, <1>3, <1>5, <2>1
<1> QED BY <1>2, <1>4, <1>5

(* A refused send saw a full ring, or one that a receiver is just emptying. *)
LEMMA SendRefusedJustified ==
  ASSUME TypeOK, RingInv, NEW s \in Senders, SendRefused(s)
  PROVE  enqueue_pos - dequeue_pos = Capacity \/ \E r \in Receivers : ReceiverHolds(r)
<1>1. /\ spos[s] \in Nat /\ spos[s] <= enqueue_pos /\ sequence[SlotOf(spos[s])] < spos[s]
      /\ sequence[SlotOf(spos[s])] \in Nat
  BY SlotType DEF SendRefused, SendDiff, TypeOK, RingInv, StillAsSeen
<1>2. enqueue_pos \in Nat /\ dequeue_pos \in Nat /\ Capacity \in Nat /\ enqueue_pos <= dequeue_pos + Capacity
  BY CapacityAssumption DEF TypeOK, RingInv, Window
<1>3. PICK q \in dequeue_pos .. (dequeue_pos + Capacity - 1) :
            /\ spos[s] < q => q >= spos[s] + Capacity
            /\ q < spos[s] => spos[s] >= q + Capacity
            /\ \/ sequence[SlotOf(spos[s])] = q
               \/ sequence[SlotOf(spos[s])] = q + 1
               \/ \E r \in Receivers : ReceiverHolds(r)
  BY <1>1, GenerationOf
<1> QED BY <1>1, <1>2, <1>3

(* A refused receive saw an empty ring, or the oldest position being        *)
(* written.                                                                 *)
LEMMA RecvRefusedJustified ==
  ASSUME TypeOK, RingInv, NEW r \in Receivers, RecvRefused(r)
  PROVE  enqueue_pos = dequeue_pos \/ \E s \in Senders : SenderHolds(s) /\ spos[s] = dequeue_pos
<1>1. /\ rpos[r] \in Nat /\ rpos[r] <= dequeue_pos /\ sequence[SlotOf(rpos[r])] <= rpos[r]
      /\ sequence[SlotOf(rpos[r])] \in Nat
  BY SlotType DEF RecvRefused, RecvDiff, TypeOK, RingInv, StillAsSeen
<1>2. enqueue_pos \in Nat /\ dequeue_pos \in Nat /\ Capacity \in Nat /\ dequeue_pos <= enqueue_pos
  BY CapacityAssumption DEF TypeOK, RingInv, Window
<1>3. PICK q \in dequeue_pos .. (dequeue_pos + Capacity - 1) :
            /\ rpos[r] < q => q >= rpos[r] + Capacity
            /\ q < rpos[r] => rpos[r] >= q + Capacity
            /\ \/ sequence[SlotOf(rpos[r])] = q
               \/ q < enqueue_pos /\ sequence[SlotOf(rpos[r])] = q + 1
               \/ q >= enqueue_pos /\ sequence[SlotOf(rpos[r])] = (q - Capacity) + 1
            /\ q < enqueue_pos /\ sequence[SlotOf(rpos[r])] = q
                 => \E s \in Senders : SenderHolds(s) /\ spos[s] = q
  BY <1>1, GenerationOf
<1>4. CASE q = dequeue_pos
  BY <1>1, <1>2, <1>3, <1>4
<1>5. CASE q # dequeue_pos
  BY <1>1, <1>2, <1>3, <1>5, CapacityAssumption
<1> QED BY <1>4, <1>5

(* channel_try_send and channel_try_recv report full and empty only when    *)
(* that is so, or is just now changing.                                     *)
THEOREM RefusalsJustified == Spec => RefusalJustified
<1> DEFINE A ==
       /\ \A s \in Senders : spc[s] = "read" /\ spc'[s] = "idle"
             => \/ enqueue_pos - dequeue_pos = Capacity
                \/ \E r \in Receivers : ReceiverHolds(r)
       /\ \A r \in Receivers : rpc[r] = "read" /\ rpc'[r] = "idle"
             => \/ enqueue_pos = dequeue_pos
                \/ \E s \in Senders : SenderHolds(s) /\ spos[s] = dequeue_pos
<1>1. ASSUME TypeOK, RingInv, [Next]_vars
      PROVE  [A]_vars
  <2>1. ASSUME NEW s \in Senders, Next, spc[s] = "read", spc'[s] = "idle"
        PROVE  SendRefused(s)
    <3>1. ASSUME NEW t \in Senders, SendStep(t)
          PROVE  SendRefused(s)
      <4>1. CASE t # s
        BY <1>1, <2>1, <3>1, <4>1 DEF TypeOK, SendStep, SendCall, SendSeesFree, SendRefused, SendOvertaken, SendReload,
           SendClaim, SendClaimFail, SendWrite, SendPublish, SendCount
      <4>2. CASE t = s
        BY <1>1, <2>1, <3>1, <4>2 DEF TypeOK, SendStep, SendCall, SendSeesFree, SendRefused, SendOvertaken, SendReload,
           SendClaim, SendClaimFail, SendWrite, SendPublish, SendCount
      <4> QED BY <4>1, <4>2
    <3>2. ~UNCHANGED spc
      BY <2>1
    <3>3. ASSUME NEW r \in Receivers, RecvStep(r)
          PROVE  UNCHANGED spc
      BY <3>3 DEF RecvStep, RecvCall, RecvSeesData, RecvRefused, RecvOvertaken, RecvReload,
         RecvClaim, RecvClaimFail, RecvTake, RecvRelease, RecvCount, RecvReturn, sendVars
    <3>4. DestroyRing => UNCHANGED spc
      BY DEF DestroyRing, sendVars
    <3> QED BY <2>1, <3>1, <3>2, <3>3, <3>4 DEF Next
  <2>2. ASSUME NEW r \in Receivers, Next, rpc[r] = "read", rpc'[r] = "idle"
        PROVE  RecvRefused(r)
    <3>1. ASSUME NEW t \in Receivers, RecvStep(t)
          PROVE  RecvRefused(r)
      <4>1. CASE t # r
        BY <1>1, <2>2, <3>1, <4>1 DEF TypeOK, RecvStep, RecvCall, RecvSeesData, RecvRefused, RecvOvertaken, RecvReload,
           RecvClaim, RecvClaimFail, RecvTake, RecvRelease, RecvCount, RecvReturn
      <4>2. CASE t = r
        BY <1>1, <2>2, <3>1, <4>2 DEF TypeOK, RecvStep, RecvCall, RecvSeesData, RecvRefused, RecvOvertaken, RecvReload,
           RecvClaim, RecvClaimFail, RecvTake, RecvRelease, RecvCount, RecvReturn
      <4> QED BY <4>1, <4>2
    <3>2. ~UNCHANGED rpc
      BY <2>2
    <3>3. ASSUME NEW s \in Senders, SendStep(s)
          PROVE  UNCHANGED rpc
      BY <3>3 DEF SendStep, SendCall, SendSeesFree, SendRefused, SendOvertaken, SendReload,
         SendClaim, SendClaimFail, SendWrite, SendPublish, SendCount, recvVars
    <3>4. DestroyRing => UNCHANGED rpc
      BY DEF DestroyRing, recvVars
    <3> QED BY <2>2, <3>1, <3>2, <3>3, <3>4 DEF Next
  <2>3. Next => A
    BY <1>1, <2>1, <2>2, SendRefusedJustified, RecvRefusedJustified
  <2> QED BY <1>1, <2>3
<1>2. [][A]_vars => RefusalJustified
  BY DEF RefusalJustified
<1> QED BY <1>1, <1>2, RingInvariant, PTL DEF Spec

-----------------------------------------------------------------------------
(* Destruction.  No call is in flight, so the queued slots hold exactly the *)
(* messages of their positions and the others nothing.                      *)
LEMMA DestroyLeavesNothing ==
  ASSUME TypeOK, RingInv, DestroyRing
  PROVE  NothingLeaks'
<1> USE DEF TypeOK
<1>1. /\ life = "live" /\ enqueue_pos' = enqueue_pos /\ dequeue_pos' = dequeue_pos /\ sent' = sent
      /\ \A s \in Senders : ~SenderHolds(s)
      /\ \A r \in Receivers : ~ReceiverHolds(r)
  BY DEF DestroyRing, SenderHolds, ReceiverHolds
<1>2. ASSUME NEW p \in dequeue_pos .. (enqueue_pos - 1)
      PROVE  p \in Nat /\ value[SlotOf(p)] = sent[p + 1] /\ sent[p + 1] # None
  <2>1. p \in Nat /\ p + 1 \in 1 .. Len(sent)
    BY DEF RingInv, Window
  <2>2. value[SlotOf(p)] = sent[p + 1]
    BY <1>1 DEF RingInv, QueuedSlots
  <2>3. sent[p + 1] \in Msg
    BY <2>1
  <2> QED BY <2>1, <2>2, <2>3, NoneAssumption
<1>3. drained' = {<<p, sent[p + 1]>> : p \in dequeue_pos .. (enqueue_pos - 1)}
  <2>1. drained' = {<<p, value[SlotOf(p)]>> : p \in {q \in dequeue_pos .. (enqueue_pos - 1) : value[SlotOf(q)] # None}}
    BY DEF DestroyRing, DrainedPayloads
  <2>2. {q \in dequeue_pos .. (enqueue_pos - 1) : value[SlotOf(q)] # None} = dequeue_pos .. (enqueue_pos - 1)
    BY <1>2
  <2> QED BY <1>2, <2>1, <2>2
<1>4. ASSUME NEW i \in Slots
      PROVE  value'[i] = None
  <2>1. PICK p \in dequeue_pos .. (dequeue_pos + Capacity - 1) : SlotOf(p) = i
    BY WindowCovers
  <2>2. value'[i] = IF \E q \in dequeue_pos .. (enqueue_pos - 1) : SlotOf(q) = i THEN None ELSE value[i]
    BY DEF DestroyRing
  <2>3. CASE p < enqueue_pos
    BY <2>1, <2>2, <2>3
  <2>4. CASE p >= enqueue_pos
    <3>1. value[i] = None
      BY <1>1, <2>1, <2>4 DEF RingInv, FreeSlots
    <3> QED BY <2>2, <3>1
  <2> QED BY <2>1, <2>3, <2>4, CapacityAssumption
<1> QED BY <1>1, <1>3, <1>4 DEF NothingLeaks

(* Once the ring is freed no thread enters it. *)
LEMMA FreedIsFinal ==
  ASSUME TypeOK, RingInv, life = "freed", [Next]_vars
  PROVE  UNCHANGED vars
<1>1. \A s \in Senders : ~SendStep(s)
  BY DEF RingInv, QuietWhenFreed, SendStep, SendCall, SendSeesFree, SendRefused, SendOvertaken, SendReload,
     SendClaim, SendClaimFail, SendWrite, SendPublish, SendCount
<1>2. \A r \in Receivers : ~RecvStep(r)
  BY DEF RingInv, QuietWhenFreed, RecvStep, RecvCall, RecvSeesData, RecvRefused, RecvOvertaken, RecvReload,
     RecvClaim, RecvClaimFail, RecvTake, RecvRelease, RecvCount, RecvReturn
<1> QED BY <1>1, <1>2 DEF Next, DestroyRing

(* Only channel_destroy ends the life of a ring. *)
LEMMA LifeEndsByDestroy ==
  ASSUME [Next]_vars, ~DestroyRing
  PROVE  UNCHANGED <<life, drained>>
<1>1. ASSUME NEW s \in Senders, SendStep(s) PROVE UNCHANGED <<life, drained>>
  BY <1>1 DEF SendStep, SendCall, SendSeesFree, SendRefused, SendOvertaken, SendReload,
     SendClaim, SendClaimFail, SendWrite, SendPublish, SendCount, endVars
<1>2. ASSUME NEW r \in Receivers, RecvStep(r) PROVE UNCHANGED <<life, drained>>
  BY <1>2 DEF RecvStep, RecvCall, RecvSeesData, RecvRefused, RecvOvertaken, RecvReload,
     RecvClaim, RecvClaimFail, RecvTake, RecvRelease, RecvCount, RecvReturn, endVars
<1> QED BY <1>1, <1>2 DEF Next, vars, endVars

(* channel_destroy and mailbox_destroy release every payload that was not   *)
(* received, once, and leave none in a slot.                                *)
THEOREM DestructionComplete == Spec => []NothingLeaks
<1>1. Init => NothingLeaks
  BY DEF Init, NothingLeaks
<1>2. TypeOK /\ RingInv /\ NothingLeaks /\ [Next]_vars => NothingLeaks'
  <2> SUFFICES ASSUME TypeOK, RingInv, NothingLeaks, [Next]_vars PROVE NothingLeaks'
    OBVIOUS
  <2>1. CASE DestroyRing
    BY <2>1, DestroyLeavesNothing
  <2>2. CASE life = "freed"
    BY <2>2, FreedIsFinal DEF NothingLeaks, vars, ringVars, endVars
  <2>3. CASE ~DestroyRing /\ life # "freed"
    <3>1. life' # "freed"
      BY <2>3, LifeEndsByDestroy
    <3> QED BY <3>1 DEF NothingLeaks
  <2> QED BY <2>1, <2>2, <2>3
<1> QED BY <1>1, <1>2, RingInvariant, PTL DEF Spec

-----------------------------------------------------------------------------
(* The refinement of BoundedFifo.  A receiver has nothing in hand until it  *)
(* takes the payload.                                                       *)
HandsEmpty ==
  \A r \in Receivers : rpc[r] \notin {"release", "count", "return"} => rval[r] = None

LEMMA HandsStep ==
  ASSUME TypeOK, HandsEmpty, [Next]_vars
  PROVE  HandsEmpty'
<1> USE DEF TypeOK
<1>1. ASSUME UNCHANGED <<rpc, rval>> PROVE HandsEmpty'
  BY <1>1 DEF HandsEmpty
<1>2. ASSUME NEW s \in Senders, SendStep(s) PROVE UNCHANGED <<rpc, rval>>
  BY <1>2 DEF SendStep, SendCall, SendSeesFree, SendRefused, SendOvertaken, SendReload,
     SendClaim, SendClaimFail, SendWrite, SendPublish, SendCount, recvVars
<1>3. ASSUME NEW r \in Receivers, RecvStep(r) PROVE HandsEmpty'
  <2>1. CASE RecvTake(r)
    BY <2>1 DEF RecvTake, HandsEmpty
  <2>2. CASE RecvReturn(r)
    BY <2>2 DEF RecvReturn, HandsEmpty
  <2>3. CASE ~RecvTake(r) /\ ~RecvReturn(r)
    <3>1. rval' = rval
      BY <1>3, <2>3 DEF RecvStep, RecvCall, RecvSeesData, RecvRefused, RecvOvertaken, RecvReload,
         RecvClaim, RecvClaimFail, RecvRelease, RecvCount
    <3>2. \A t \in Receivers : rpc'[t] \notin {"release", "count", "return"}
                                 => rpc[t] \notin {"release", "count", "return"}
      BY <1>3, <2>3 DEF RecvStep, RecvCall, RecvSeesData, RecvRefused, RecvOvertaken, RecvReload,
         RecvClaim, RecvClaimFail, RecvRelease, RecvCount
    <3> QED BY <3>1, <3>2 DEF HandsEmpty
  <2> QED BY <2>1, <2>2, <2>3
<1>4. DestroyRing \/ UNCHANGED vars => UNCHANGED <<rpc, rval>>
  BY DEF DestroyRing, vars, recvVars
<1> QED BY <1>1, <1>2, <1>3, <1>4 DEF Next

(* The mapping of ImplementsFifo, named for the proof. *)
QueueBar == IF life = "freed" THEN <<>> ELSE SubSeq(sent, dequeue_pos + 1, enqueue_pos)
HandBar == [r \in Receivers |-> IF rpc[r] = "take" THEN sent[rpos[r] + 1] ELSE rval[r]]

FifoStep == Fifo!Enqueue \/ Fifo!Dequeue \/ Fifo!Return \/ Fifo!Destroy

(* What is queued between two positions of the history. *)
LEMMA QueueWindow ==
  ASSUME NEW S, NEW sq \in Seq(S), NEW d \in Nat, d <= Len(sq)
  PROVE  LET q == SubSeq(sq, d + 1, Len(sq)) IN
         /\ q \in Seq(S) /\ Len(q) = Len(sq) - d
         /\ \A i \in 1 .. (Len(sq) - d) : q[i] = sq[d + i]
<1> DEFINE e == Len(sq)
<1>1. d + 1 \in Int /\ e \in Int /\ \A i \in (d + 1) .. e : sq[i] \in S
  OBVIOUS
<1>2. LET q == SubSeq(sq, d + 1, e) IN
      /\ q \in Seq(S)
      /\ Len(q) = IF d + 1 <= e THEN e - (d + 1) + 1 ELSE 0
      /\ \A i \in 1 .. e - (d + 1) + 1 : q[i] = sq[(d + 1) + i - 1]
  BY <1>1, SubSeqProperties
<1> QED BY <1>1, <1>2

(* Appending to the history appends to what is queued. *)
LEMMA WindowAppend ==
  ASSUME NEW S, NEW sq \in Seq(S), NEW m \in S, NEW d \in Nat, d <= Len(sq)
  PROVE  /\ SubSeq(Append(sq, m), d + 1, Len(sq) + 1) = Append(SubSeq(sq, d + 1, Len(sq)), m)
         /\ \A i \in 1 .. Len(sq) : Append(sq, m)[i] = sq[i]
<1>1. /\ Append(sq, m) \in Seq(S) /\ Len(Append(sq, m)) = Len(sq) + 1
      /\ \A i \in 1 .. Len(sq) : Append(sq, m)[i] = sq[i]
      /\ Append(sq, m)[Len(sq) + 1] = m
  BY AppendProperties
<1>2. PICK q : q = SubSeq(sq, d + 1, Len(sq))
  OBVIOUS
<1>3. /\ q \in Seq(S) /\ Len(q) = Len(sq) - d
      /\ \A i \in 1 .. (Len(sq) - d) : q[i] = sq[d + i]
  BY <1>2, QueueWindow
<1>4. PICK q2 : q2 = SubSeq(Append(sq, m), d + 1, Len(sq) + 1)
  OBVIOUS
<1>5. /\ q2 \in Seq(S) /\ Len(q2) = (Len(sq) + 1) - d
      /\ \A i \in 1 .. ((Len(sq) + 1) - d) : q2[i] = Append(sq, m)[d + i]
  <2>1. PICK t : t = Append(sq, m)
    OBVIOUS
  <2>2. t \in Seq(S) /\ Len(t) = Len(sq) + 1 /\ d <= Len(t) /\ q2 = SubSeq(t, d + 1, Len(t))
    <3>1. t \in Seq(S) /\ Len(t) = Len(sq) + 1
      BY <1>1, <2>1
    <3>2. Len(sq) \in Nat /\ d <= Len(t)
      BY <3>1, LenProperties
    <3>3. q2 = SubSeq(t, d + 1, Len(t))
      BY <1>4, <2>1, <3>1
    <3> QED BY <3>1, <3>2, <3>3
  <2>3. /\ q2 \in Seq(S) /\ Len(q2) = Len(t) - d
        /\ \A i \in 1 .. (Len(t) - d) : q2[i] = t[d + i]
    BY <2>2, QueueWindow
  <2> QED BY <2>1, <2>2, <2>3
<1>6. /\ Append(q, m) \in Seq(S) /\ Len(Append(q, m)) = Len(q) + 1
      /\ \A i \in 1 .. Len(q) : Append(q, m)[i] = q[i]
      /\ Append(q, m)[Len(q) + 1] = m
  BY <1>3, AppendProperties
<1>7. Len(q2) = Len(q) + 1 /\ Len(q) \in Nat /\ Len(q2) \in Nat
  BY <1>3, <1>5
<1>8. ASSUME NEW i \in 1 .. Len(q2) PROVE q2[i] = Append(q, m)[i]
  <2>1. q2[i] = Append(sq, m)[d + i]
    BY <1>5
  <2>2. CASE i <= Len(q)
    <3>1. d + i \in 1 .. Len(sq) /\ i \in 1 .. Len(q) /\ i \in 1 .. (Len(sq) - d)
      BY <1>3, <2>2
    <3>2. Append(sq, m)[d + i] = sq[d + i]
      BY <1>1, <3>1
    <3>3. Append(q, m)[i] = q[i] /\ q[i] = sq[d + i]
      BY <1>3, <1>6, <3>1
    <3> QED BY <2>1, <3>2, <3>3
  <2>3. CASE i = Len(q) + 1
    <3>1. d + i = Len(sq) + 1
      BY <1>3, <2>3
    <3> QED BY <1>1, <1>6, <2>1, <2>3, <3>1
  <2>4. i <= Len(q) \/ i = Len(q) + 1
    BY <1>7
  <2> QED BY <2>2, <2>3, <2>4
<1>9. q2 = Append(q, m)
  <2>1. PICK t : t = Append(q, m)
    OBVIOUS
  <2>2. t \in Seq(S) /\ Len(t) = Len(q2) /\ \A i \in 1 .. Len(q2) : q2[i] = t[i]
    BY <1>6, <1>7, <1>8, <2>1
  <2>3. q2 \in Seq(S)
    BY <1>5
  <2>4. q2 = t
    BY <2>2, <2>3, SeqEqual
  <2> QED BY <2>1, <2>4
<1> QED BY <1>1, <1>2, <1>4, <1>9

(* Advancing the lower position takes the first message off the queue. *)
LEMMA WindowTail ==
  ASSUME NEW S, NEW sq \in Seq(S), NEW d \in Nat, d < Len(sq)
  PROVE  LET q == SubSeq(sq, d + 1, Len(sq)) IN
         q # <<>> /\ Head(q) = sq[d + 1] /\ Tail(q) = SubSeq(sq, d + 2, Len(sq))
<1>1. PICK q : q = SubSeq(sq, d + 1, Len(sq))
  OBVIOUS
<1>2. /\ q \in Seq(S) /\ Len(q) = Len(sq) - d
      /\ \A i \in 1 .. (Len(sq) - d) : q[i] = sq[d + i]
  BY <1>1, QueueWindow
<1>3. PICK q2 : q2 = SubSeq(sq, d + 2, Len(sq))
  OBVIOUS
<1>4. /\ q2 \in Seq(S) /\ Len(q2) = Len(sq) - (d + 1)
      /\ \A i \in 1 .. (Len(sq) - (d + 1)) : q2[i] = sq[(d + 1) + i]
  <2>1. PICK e : e = d + 1
    OBVIOUS
  <2>2. e \in Nat /\ e <= Len(sq) /\ q2 = SubSeq(sq, e + 1, Len(sq))
    BY <1>3, <2>1
  <2>3. /\ q2 \in Seq(S) /\ Len(q2) = Len(sq) - e
        /\ \A i \in 1 .. (Len(sq) - e) : q2[i] = sq[e + i]
    BY <2>2, QueueWindow
  <2> QED BY <2>1, <2>3
<1>5. q # <<>> /\ q[1] = sq[d + 1]
  BY <1>2
<1>6. /\ Head(q) = q[1] /\ Tail(q) \in Seq(S) /\ Len(Tail(q)) = Len(q) - 1
      /\ \A i \in 1 .. Len(Tail(q)) : Tail(q)[i] = q[i + 1]
  BY <1>2, <1>5, HeadTailProperties
<1>7. \A i \in 1 .. Len(Tail(q)) : Tail(q)[i] = q2[i]
  BY <1>2, <1>4, <1>6
<1>8. Tail(q) = q2
  BY <1>2, <1>4, <1>6, <1>7, SeqEqual
<1> QED BY <1>1, <1>3, <1>5, <1>6, <1>8

(* A claim by a sender is an Enqueue. *)
LEMMA ClaimEnqueues ==
  ASSUME TypeOK, RingInv, NEW s \in Senders, SendClaim(s)
  PROVE  Fifo!Enqueue
<1> USE DEF TypeOK
<1>1. /\ enqueue_pos' = enqueue_pos + 1 /\ dequeue_pos' = dequeue_pos /\ life' = life
      /\ sent' = Append(sent, smsg[s]) /\ rpc' = rpc /\ rpos' = rpos /\ rval' = rval
      /\ spc[s] = "cas"
  BY DEF SendClaim, recvVars, endVars
<1>2. smsg[s] \in Msg /\ life = "live" /\ enqueue_pos - dequeue_pos < Capacity
      /\ Len(sent) = enqueue_pos /\ dequeue_pos <= enqueue_pos
  BY <1>1, ClaimedSlotIsFree, CapacityAssumption DEF RingInv, StillAsSeen, QuietWhenFreed, Window
<1>3. Len(QueueBar) = enqueue_pos - dequeue_pos
  BY <1>2, QueueWindow DEF QueueBar
<1>4. /\ QueueBar' = Append(QueueBar, smsg[s])
      /\ \A i \in 1 .. Len(sent) : sent'[i] = sent[i]
  BY <1>1, <1>2, WindowAppend DEF QueueBar
<1>6. \A r \in Receivers : rpc[r] = "take" => sent'[rpos[r] + 1] = sent[rpos[r] + 1]
  <2>1. \A r \in Receivers : rpc[r] = "take" => rpos[r] + 1 \in 1 .. Len(sent)
    BY <1>2 DEF RingInv, ReceiverOwns, ReceiverHolds
  <2> QED BY <1>4, <2>1
<1>7. HandBar' = HandBar
  BY <1>1, <1>6 DEF HandBar
<1> QED BY <1>1, <1>2, <1>3, <1>4, <1>7 DEF Fifo!Enqueue, HandBar, QueueBar

(* A claim by a receiver is a Dequeue. *)
LEMMA ClaimDequeues ==
  ASSUME TypeOK, RingInv, RingInv', HandsEmpty, NEW r \in Receivers, RecvClaim(r)
  PROVE  Fifo!Dequeue
<1> USE DEF TypeOK
<1>1. /\ enqueue_pos' = enqueue_pos /\ dequeue_pos' = dequeue_pos + 1 /\ life' = life
      /\ sent' = sent /\ rpc' = [rpc EXCEPT ![r] = "take"] /\ rpos' = rpos /\ rval' = rval
      /\ rpos[r] = dequeue_pos /\ rpc[r] = "cas"
  BY DEF RecvClaim, sendVars, endVars
<1>2. life = "live" /\ dequeue_pos < enqueue_pos /\ Len(sent) = enqueue_pos
  BY <1>1 DEF RingInv, QuietWhenFreed, Window
<1>5. QueueBar # <<>> /\ Head(QueueBar) = sent[dequeue_pos + 1] /\ QueueBar' = Tail(QueueBar)
  <2>1. (dequeue_pos + 1) + 1 = dequeue_pos + 2
    OBVIOUS
  <2> QED BY <1>1, <1>2, <2>1, WindowTail DEF QueueBar
<1>6. HandBar[r] = None /\ HandBar' = [HandBar EXCEPT ![r] = Head(QueueBar)]
  BY <1>1, <1>5 DEF HandBar, HandsEmpty
<1> QED BY <1>5, <1>6 DEF Fifo!Dequeue, HandBar, QueueBar

(* Taking the payload out of the slot changes nothing that a caller sees. *)
LEMMA TakeStutters ==
  ASSUME TypeOK, RingInv, NEW r \in Receivers, RecvTake(r)
  PROVE  HandBar' = HandBar
<1> USE DEF TypeOK
<1>1. value[SlotOf(rpos[r])] = sent[rpos[r] + 1]
  BY DEF RecvTake, RingInv, ReceiverOwns, ReceiverHolds
<1> QED BY <1>1 DEF RecvTake, HandBar

LEMMA ReturnReturns ==
  ASSUME TypeOK, RingInv, NEW r \in Receivers, RecvReturn(r)
  PROVE  Fifo!Return
<1> USE DEF TypeOK
<1>1. rval[r] # None
  <2>1. rpos[r] < Len(sent) /\ rval[r] = sent[rpos[r] + 1]
    BY DEF RecvReturn, RingInv, ReceivedIsSent
  <2>2. rval[r] \in Msg
    BY <2>1
  <2> QED BY <2>2, NoneAssumption
<1>2. HandBar[r] # None /\ HandBar' = [HandBar EXCEPT ![r] = None]
  BY <1>1 DEF RecvReturn, HandBar
<1>3. QueueBar' = QueueBar
  BY DEF RecvReturn, ringVars, endVars, QueueBar
<1> QED BY <1>2, <1>3 DEF Fifo!Return, HandBar, QueueBar

(* Every other step of a thread is invisible. *)
LEMMA OthersStutter ==
  ASSUME TypeOK,
         \/ \E s \in Senders : SendStep(s) /\ ~SendClaim(s)
         \/ \E r \in Receivers : RecvStep(r) /\ ~RecvClaim(r) /\ ~RecvTake(r) /\ ~RecvReturn(r)
         \/ UNCHANGED vars
  PROVE  QueueBar' = QueueBar /\ HandBar' = HandBar
<1> USE DEF TypeOK
<1>1. ASSUME NEW s \in Senders, SendStep(s), ~SendClaim(s)
      PROVE  UNCHANGED <<life, sent, dequeue_pos, enqueue_pos, rpc, rpos, rval>>
  BY <1>1 DEF SendStep, SendCall, SendSeesFree, SendRefused, SendOvertaken, SendReload,
     SendClaimFail, SendWrite, SendPublish, SendCount, ringVars, recvVars, endVars
<1>2. ASSUME NEW r \in Receivers, RecvStep(r), ~RecvClaim(r), ~RecvTake(r), ~RecvReturn(r)
      PROVE  /\ UNCHANGED <<life, sent, dequeue_pos, enqueue_pos, rval>>
             /\ \A t \in Receivers : /\ rpc'[t] = "take" <=> rpc[t] = "take"
                                     /\ rpc[t] = "take" => rpos'[t] = rpos[t]
  <2>1. UNCHANGED <<life, sent, dequeue_pos, enqueue_pos, rval>>
    BY <1>2 DEF RecvStep, RecvCall, RecvSeesData, RecvRefused, RecvOvertaken, RecvReload,
       RecvClaimFail, RecvRelease, RecvCount, ringVars, endVars
  <2>2. \A t \in Receivers : /\ rpc'[t] = "take" <=> rpc[t] = "take"
                             /\ rpc[t] = "take" => rpos'[t] = rpos[t]
    BY <1>2 DEF RecvStep, RecvCall, RecvSeesData, RecvRefused, RecvOvertaken, RecvReload,
       RecvClaimFail, RecvRelease, RecvCount
  <2> QED BY <2>1, <2>2
<1>3. UNCHANGED vars => UNCHANGED <<life, sent, dequeue_pos, enqueue_pos, rpc, rpos, rval>>
  BY DEF vars, ringVars, recvVars, endVars
<1> QED BY <1>1, <1>2, <1>3 DEF QueueBar, HandBar

(* Every step of the ring is a step of the FIFO or invisible in it. *)
LEMMA FifoSimulated ==
  ASSUME TypeOK, TypeOK', RingInv, RingInv', HandsEmpty, [Next]_vars
  PROVE  FifoStep \/ (QueueBar' = QueueBar /\ HandBar' = HandBar)
<1>1. ASSUME NEW s \in Senders, SendClaim(s) PROVE FifoStep
  BY <1>1, ClaimEnqueues DEF FifoStep
<1>2. ASSUME NEW r \in Receivers, RecvClaim(r) PROVE FifoStep
  BY <1>2, ClaimDequeues DEF FifoStep
<1>3. ASSUME NEW r \in Receivers, RecvTake(r) PROVE QueueBar' = QueueBar /\ HandBar' = HandBar
  BY <1>3, TakeStutters DEF RecvTake, endVars, QueueBar
<1>4. ASSUME NEW r \in Receivers, RecvReturn(r) PROVE FifoStep
  BY <1>4, ReturnReturns DEF FifoStep
<1>5. ASSUME DestroyRing PROVE FifoStep
  <2>1. QueueBar' = <<>> /\ HandBar' = HandBar
    BY <1>5 DEF DestroyRing, QueueBar, HandBar, recvVars
  <2> QED BY <2>1 DEF FifoStep, Fifo!Destroy, QueueBar, HandBar
<1> QED BY <1>1, <1>2, <1>3, <1>4, <1>5, OthersStutter DEF Next

(* Whoever uses channel_try_send and channel_try_recv, actor_send and       *)
(* actor_receive, or the global queue, sees a bounded FIFO.                 *)
THEOREM RingIsFifo == Spec => ImplementsFifo
<1>1. Init => Fifo!FifoInit
  <2> SUFFICES ASSUME Init PROVE Fifo!FifoInit
    OBVIOUS
  <2>1. SubSeq(sent, dequeue_pos + 1, enqueue_pos) = <<>>
    BY SubSeqEmpty DEF Init
  <2> QED BY <2>1 DEF Init, Fifo!FifoInit
<1>2. Init => HandsEmpty
  BY DEF Init, HandsEmpty
<1>3. TypeOK /\ HandsEmpty /\ [Next]_vars => HandsEmpty'
  BY HandsStep
<1>4. /\ TypeOK /\ RingInv /\ HandsEmpty /\ [Next]_vars /\ (TypeOK /\ RingInv)'
      => [Fifo!FifoNext]_Fifo!fifoVars
  BY FifoSimulated DEF FifoStep, Fifo!FifoNext, Fifo!fifoVars, QueueBar, HandBar
<1> QED BY <1>1, <1>2, <1>3, <1>4, RingInvariant, PTL DEF Spec, ImplementsFifo, Fifo!FifoSpec
=============================================================================
