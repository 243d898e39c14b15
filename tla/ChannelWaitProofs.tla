-------------------------- MODULE ChannelWaitProofs --------------------------
(* Proofs, for any actors, channels, capacity and number of calls, about    *)
(* how actors block on channels: no actor is queued twice, and under the    *)
(* polling scheduler what an actor was resumed for is still there.          *)
EXTENDS ChannelWait, FiniteSetTheorems, TLAPS

(* An actor that serves waiter slots has one left to serve. *)
WakersHaveWork == \A a \in Actors : pc[a] = "wake" => waking[a] # <<>>

(* What a blocked primitive waits for, by its reason. *)
WaitsFor ==
  \A a \in Actors :
    /\ pc[a] = "send" => reason[a] = "send"
    /\ pc[a] = "scan" => reason[a] \in {"recv", "select"}
    /\ reason[a] \in {"send", "recv"} => \E c \in Chans : on[a] = {c}

(* The polling scheduler runs one actor until it blocks or returns, and     *)
(* resumes it only when its condition holds.                                *)
Busy(a) == pc[a] \notin {"run", "blocked"}
OneAtATime == mode = "poll" => \A a, b \in Actors : Busy(a) /\ Busy(b) => a = b
StillRunnable == mode = "poll" => \A a \in Actors : pc[a] = "resume" => Runnable(a)

(* One step of one actor or of a scheduler. *)
Step == (\E a \in Actors : Primitive(a) \/ Inside(a) \/ Schedule(a)) /\ UNCHANGED mode

(* The inductive invariant. *)
WaitInv == /\ TypeOK /\ WakersHaveWork /\ WaitsFor
           /\ OneAtATime /\ StillRunnable /\ OneEntryPerWait /\ LossOnlyByClose

Results == {"none", "sent", "value", "closed", "ok", "nil"}
Slots == {"recv", "send"} \X Chans

-----------------------------------------------------------------------------
(* Types *)

(* A value enters or leaves the buffer of a channel. *)
LEMMA CountTypes ==
  ASSUME TypeOK, NEW c \in Chans
  PROVE  /\ Fits(c) => Set(count, c, count[c] + 1) \in [Chans -> 0 .. Capacity]
         /\ count[c] > 0 => Set(count, c, count[c] - 1) \in [Chans -> 0 .. Capacity]
<1>1. count[c] \in 0 .. Capacity /\ Capacity \in Nat
  BY BoundsAssumption DEF TypeOK
<1>2. Fits(c) => count[c] + 1 \in 0 .. Capacity
  BY <1>1 DEF Fits
<1>3. count[c] > 0 => count[c] - 1 \in 0 .. Capacity
  BY <1>1
<1> QED BY <1>2, <1>3 DEF TypeOK, Set

(* A primitive is called while calls are left. *)
LEMMA OpsTypes ==
  ASSUME TypeOK, ops < MaxOps[mode]
  PROVE  ops + 1 \in 0 .. MaxOps[mode]
<1>1. MaxOps[mode] \in Nat
  BY BoundsAssumption DEF TypeOK
<1> QED BY <1>1 DEF TypeOK

(* The types of what a primitive sets when it ends. *)
FrameTypes ==
  /\ result \in [Actors -> Results] /\ waking \in [Actors -> Seq(Slots)]
  /\ pc \in [Actors -> PC] /\ reason \in [Actors -> {"general", "send", "recv", "select"}]
  /\ on \in [Actors -> SUBSET Chans] /\ todo \in [Actors -> SUBSET Chans]
  /\ shut \in [Actors -> SUBSET Chans]

LEMMA FinishTypes ==
  ASSUME TypeOK, WakersHaveWork, NEW a \in Actors, NEW r \in Results, NEW ws \in Seq(Slots), Finish(a, r, ws)
  PROVE  FrameTypes' /\ WakersHaveWork'
<1>1. FrameTypes'
  BY DEF TypeOK, FrameTypes, Finish, Goto, Set, PC, Results, Slots
<1>2. WakersHaveWork'
  BY DEF TypeOK, WakersHaveWork, Finish, Goto, Set
<1> QED BY <1>1, <1>2

(* The sequences of slots that a primitive may have to serve. *)
LEMMA SlotSequences ==
  ASSUME NEW c \in Chans
  PROVE  /\ << >> \in Seq(Slots)
         /\ <<<<"recv", c>>>> \in Seq(Slots) /\ <<<<"send", c>>>> \in Seq(Slots)
         /\ <<<<"recv", c>>, <<"send", c>>>> \in Seq(Slots)
BY DEF Slots

(* One step of the two wake-ups at the end of a primitive. *)
LEMMA WakeSlotTypes ==
  ASSUME TypeOK, WakersHaveWork, NEW a \in Actors, NEW kind, NEW c \in Chans,
         NEW waiter \in Owners, WakeSlot(a, kind, c, waiter)
  PROVE  /\ waking' \in [Actors -> Seq(Slots)] /\ pc' \in [Actors -> PC]
         /\ wait_flag' \in [Actors -> {0, 1}] /\ queued' \in [Actors -> Nat]
         /\ WakersHaveWork'
<1>1. waking[a] \in Seq(Slots) /\ waking[a] # << >> /\ pc[a] = "wake"
  BY DEF TypeOK, WakersHaveWork, WakeSlot, Slots
<1>2. /\ Tail(waking[a]) \in Seq(Slots)
      /\ Len(waking[a]) # 1 => Tail(waking[a]) # << >>
  <2>1. PICK w : w = waking[a]
    OBVIOUS
  <2>2. w \in Seq(Slots) /\ w # << >>
    BY <1>1, <2>1
  <2>3. Tail(w) \in Seq(Slots) /\ Len(Tail(w)) = Len(w) - 1 /\ Len(w) > 0
    BY <2>2
  <2>4. Len(w) # 1 => Tail(w) # << >>
    <3>1. PICK t : t = Tail(w)
      OBVIOUS
    <3>2. Len(w) # 1 => Len(t) > 0
      BY <2>3, <3>1
    <3>3. Len(t) > 0 => t # << >>
      OBVIOUS
    <3> QED BY <3>1, <3>2, <3>3
  <2> QED BY <2>1, <2>3, <2>4
<1>3. waking' \in [Actors -> Seq(Slots)] /\ pc' \in [Actors -> PC]
  BY <1>2 DEF TypeOK, WakeSlot, Goto, Set, PC, Slots
<1>4. wait_flag' \in [Actors -> {0, 1}] /\ queued' \in [Actors -> Nat]
  <2>1. CASE waiter # NoActor /\ wait_flag[waiter] = 1
    <3>1. waiter \in Actors /\ queued[waiter] + 1 \in Nat
      BY <2>1 DEF TypeOK, Owners
    <3>2. wait_flag' = Set(wait_flag, waiter, 0) /\ queued' = Set(queued, waiter, queued[waiter] + 1)
      BY <2>1 DEF WakeSlot
    <3> QED BY <3>1, <3>2 DEF TypeOK, Set
  <2>2. CASE ~(waiter # NoActor /\ wait_flag[waiter] = 1)
    BY <2>2 DEF TypeOK, WakeSlot, wake
  <2> QED BY <2>1, <2>2
<1>5. WakersHaveWork'
  BY <1>2 DEF TypeOK, WakersHaveWork, WakeSlot, Goto, Set
<1> QED BY <1>3, <1>4, <1>5

(* Leaving the waiter slots. *)
LEMMA DeregisterTypes ==
  ASSUME TypeOK, NEW a \in Actors, Deregister(a)
  PROVE  recv_waiter' \in [Chans -> Owners]
BY DEF TypeOK, Deregister, Owners

LEMMA TypeStep ==
  ASSUME TypeOK, WakersHaveWork, Step
  PROVE  TypeOK' /\ WakersHaveWork'
<1>0. PICK a \in Actors : Primitive(a) \/ Inside(a) \/ Schedule(a)
  BY DEF Step
<1>mode. UNCHANGED mode
  BY DEF Step
<1>1. ASSUME NEW c \in Chans, SendCall(a, c) PROVE TypeOK' /\ WakersHaveWork'
  <2>1. TypeOK'
    BY <1>1, <1>mode, OpsTypes DEF TypeOK, SendCall, Call, Goto, Set, PC, Owners, channel, slots, wake, frame
  <2>2. WakersHaveWork'
    BY <1>1 DEF TypeOK, WakersHaveWork, SendCall, Call, Goto, Set, channel, slots, wake, frame
  <2> QED BY <2>1, <2>2
<1>2. ASSUME NEW c \in Chans, Close(a, c) PROVE TypeOK' /\ WakersHaveWork'
  <2>0. Finish(a, "ok", <<<<"recv", c>>, <<"send", c>>>>)
    BY <1>2 DEF Close
  <2>1. "ok" \in Results /\ <<<<"recv", c>>, <<"send", c>>>> \in Seq(Slots)
    BY SlotSequences DEF Results
  <2>2. FrameTypes' /\ WakersHaveWork'
    BY <2>0, <2>1, FinishTypes
  <2> QED BY <1>2, <1>mode, <2>0, <2>2, OpsTypes DEF TypeOK, FrameTypes, Close, Call, Set, channel, slots, wake, Slots, Results
<1>3. ASSUME NEW S \in SUBSET Chans \ {{}}, RecvCall(a, S) PROVE TypeOK' /\ WakersHaveWork'
  <2>1. TypeOK'
    BY <1>3, <1>mode, OpsTypes DEF TypeOK, RecvCall, Call, Goto, Set, PC, Owners, channel, slots, wake, frame
  <2>2. WakersHaveWork'
    BY <1>3 DEF TypeOK, WakersHaveWork, RecvCall, Call, Goto, Set, channel, slots, wake, frame
  <2> QED BY <2>1, <2>2
<1>4. ASSUME SendNow(a) PROVE TypeOK' /\ WakersHaveWork'
  <2>0. PICK c \in Chans : Finish(a, "sent", <<<<"recv", c>>>>) /\ Fits(c) /\ count' = Set(count, c, count[c] + 1)
    BY <1>4 DEF TypeOK, SendNow
  <2>1. "sent" \in Results /\ <<<<"recv", c>>>> \in Seq(Slots)
    BY SlotSequences DEF Results
  <2>2. FrameTypes' /\ WakersHaveWork'
    BY <2>0, <2>1, FinishTypes
  <2> QED BY <1>4, <1>mode, <2>0, <2>2, CountTypes DEF TypeOK, FrameTypes, SendNow, channel, slots, wake, Slots, Results
<1>5. ASSUME SendBlocks(a) PROVE TypeOK' /\ WakersHaveWork'
  <2>1. TypeOK'
    BY <1>5, <1>mode DEF TypeOK, SendBlocks, Goto, Set, PC, Owners, channel, slots, wake, frame
  <2>2. WakersHaveWork'
    BY <1>5 DEF TypeOK, WakersHaveWork, SendBlocks, Goto, Set, channel, slots, wake, frame
  <2> QED BY <2>1, <2>2
<1>6. ASSUME ScanAllClosed(a) PROVE TypeOK' /\ WakersHaveWork'
  <2>0. Finish(a, "closed", <<>>)
    BY <1>6 DEF ScanAllClosed
  <2>1. "closed" \in Results /\ <<>> \in Seq(Slots)
    BY SlotSequences DEF Results
  <2>2. FrameTypes' /\ WakersHaveWork'
    BY <2>0, <2>1, FinishTypes
  <2> QED BY <1>6, <1>mode, <2>0, <2>2 DEF TypeOK, FrameTypes, ScanAllClosed, Set, channel, slots, wake, Slots, Results
<1>7. ASSUME ScanBlocks(a) PROVE TypeOK' /\ WakersHaveWork'
  <2>1. TypeOK'
    BY <1>7, <1>mode DEF TypeOK, ScanBlocks, Goto, Set, PC, Owners, channel, slots, wake, frame
  <2>2. WakersHaveWork'
    BY <1>7 DEF TypeOK, WakersHaveWork, ScanBlocks, Goto, Set, channel, slots, wake, frame
  <2> QED BY <2>1, <2>2
<1>8. ASSUME SetFlag(a) PROVE TypeOK' /\ WakersHaveWork'
  <2>1. TypeOK'
    BY <1>8, <1>mode DEF TypeOK, SetFlag, Goto, Set, PC, Owners, channel, slots, wake, frame
  <2>2. WakersHaveWork'
    BY <1>8 DEF TypeOK, WakersHaveWork, SetFlag, Goto, Set, channel, slots, wake, frame
  <2> QED BY <2>1, <2>2
<1>9. ASSUME Yield(a) PROVE TypeOK' /\ WakersHaveWork'
  <2>1. TypeOK'
    BY <1>9, <1>mode DEF TypeOK, Yield, Goto, Set, PC, Owners, channel, slots, wake, frame
  <2>2. WakersHaveWork'
    BY <1>9 DEF TypeOK, WakersHaveWork, Yield, Goto, Set, channel, slots, wake, frame
  <2> QED BY <2>1, <2>2
<1>10. ASSUME NEW c \in Chans, ScanTakes(a, c) PROVE TypeOK' /\ WakersHaveWork'
  <2>0. Finish(a, "value", <<<<"send", c>>>>)
    BY <1>10 DEF ScanTakes
  <2>1. "value" \in Results /\ <<<<"send", c>>>> \in Seq(Slots)
    BY SlotSequences DEF Results
  <2>2. FrameTypes' /\ WakersHaveWork'
    BY <2>0, <2>1, FinishTypes
  <2> QED BY <1>10, <1>mode, <2>0, <2>2, CountTypes DEF TypeOK, FrameTypes, ScanTakes, channel, slots, wake, Slots, Results
<1>11. ASSUME NEW c \in Chans, ScanEmpty(a, c) PROVE TypeOK' /\ WakersHaveWork'
  <2>1. TypeOK'
    BY <1>11, <1>mode DEF TypeOK, ScanEmpty, Goto, Set, PC, Owners, channel, slots, wake, frame
  <2>2. WakersHaveWork'
    BY <1>11 DEF TypeOK, WakersHaveWork, ScanEmpty, Goto, Set, channel, slots, wake, frame
  <2> QED BY <2>1, <2>2
<1>12. ASSUME NEW c \in Chans, Register(a, c) PROVE TypeOK' /\ WakersHaveWork'
  <2>1. TypeOK'
    BY <1>12, <1>mode DEF TypeOK, Register, Goto, Set, PC, Owners, channel, slots, wake, frame
  <2>2. WakersHaveWork'
    BY <1>12 DEF TypeOK, WakersHaveWork, Register, Goto, Set, channel, slots, wake, frame
  <2> QED BY <2>1, <2>2
<1>13. ASSUME NEW c \in Chans, WakeReceiver(a, c) PROVE TypeOK' /\ WakersHaveWork'
  <2>1. recv_waiter[c] \in Owners /\ WakeSlot(a, "recv", c, recv_waiter[c])
    BY <1>13 DEF TypeOK, WakeReceiver
  <2>2. /\ waking' \in [Actors -> Seq(Slots)] /\ pc' \in [Actors -> PC]
        /\ wait_flag' \in [Actors -> {0, 1}] /\ queued' \in [Actors -> Nat]
        /\ WakersHaveWork'
    BY <2>1, WakeSlotTypes
  <2> QED BY <1>13, <1>mode, <2>2 DEF TypeOK, WakeReceiver, Set, Owners, channel, frame, Slots
<1>14. ASSUME NEW c \in Chans, WakeSender(a, c) PROVE TypeOK' /\ WakersHaveWork'
  <2>1. send_waiter[c] \in Owners /\ WakeSlot(a, "send", c, send_waiter[c])
    BY <1>14 DEF TypeOK, WakeSender
  <2>2. /\ waking' \in [Actors -> Seq(Slots)] /\ pc' \in [Actors -> PC]
        /\ wait_flag' \in [Actors -> {0, 1}] /\ queued' \in [Actors -> Nat]
        /\ WakersHaveWork'
    BY <2>1, WakeSlotTypes
  <2> QED BY <1>14, <1>mode, <2>2 DEF TypeOK, WakeSender, Set, Owners, channel, frame, Slots
<1>15. ASSUME PollPick(a) PROVE TypeOK' /\ WakersHaveWork'
  <2>1. TypeOK'
    BY <1>15, <1>mode DEF TypeOK, PollPick, Goto, Set, PC, Owners, channel, slots, wake, frame
  <2>2. WakersHaveWork'
    BY <1>15 DEF TypeOK, WakersHaveWork, PollPick, Goto, Set, channel, slots, wake, frame
  <2> QED BY <2>1, <2>2
<1>16. ASSUME QueuePick(a) PROVE TypeOK' /\ WakersHaveWork'
  <2>1. TypeOK'
    <3>1. queued[a] - 1 \in Nat
      BY <1>16 DEF TypeOK, QueuePick
    <3>2. queued' \in [Actors -> Nat] /\ wait_flag' \in [Actors -> {0, 1}] /\ pc' \in [Actors -> PC]
      BY <1>16, <3>1 DEF TypeOK, QueuePick, Goto, Set, PC
    <3> QED BY <1>16, <1>mode, <3>2 DEF TypeOK, QueuePick, channel, slots, frame
  <2>2. WakersHaveWork'
    BY <1>16 DEF TypeOK, WakersHaveWork, QueuePick, Goto, Set, channel, slots, wake, frame
  <2> QED BY <2>1, <2>2
<1>17. ASSUME ResumeSend(a) PROVE TypeOK' /\ WakersHaveWork'
  <2>0. PICK c \in Chans :
          \/ /\ Fits(c) /\ count' = Set(count, c, count[c] + 1) /\ UNCHANGED lost
             /\ Finish(a, "sent", <<<<"recv", c>>>>)
          \/ /\ lost' = Set(lost, c, lost[c] + 1) /\ UNCHANGED count
             /\ Finish(a, "sent", <<>>)
    BY <1>17 DEF TypeOK, ResumeSend
  <2>1. "sent" \in Results /\ << >> \in Seq(Slots) /\ <<<<"recv", c>>>> \in Seq(Slots)
    BY SlotSequences DEF Results
  <2>2. FrameTypes' /\ WakersHaveWork'
    BY <2>0, <2>1, FinishTypes
  <2>3. count' \in [Chans -> 0 .. Capacity] /\ lost' \in [Chans -> Nat]
    BY <2>0, CountTypes DEF TypeOK, Set
  <2> QED BY <1>17, <1>mode, <2>2, <2>3 DEF TypeOK, FrameTypes, ResumeSend, slots, wake, Slots, Results
<1>18. ASSUME ResumeEmpty(a) PROVE TypeOK' /\ WakersHaveWork'
  <2>0. PICK r \in Results : Finish(a, r, <<>>)
    BY <1>18 DEF ResumeEmpty, Results
  <2>1. << >> \in Seq(Slots)
    OBVIOUS
  <2>2. FrameTypes' /\ WakersHaveWork'
    BY <2>0, <2>1, FinishTypes
  <2> QED BY <1>18, <1>mode, <2>2, DeregisterTypes DEF TypeOK, FrameTypes, ResumeEmpty, channel, wake, Slots, Results
<1>19. ASSUME NEW c \in Chans, ResumeTakes(a, c) PROVE TypeOK' /\ WakersHaveWork'
  <2>0. Finish(a, "value", <<<<"send", c>>>>)
    BY <1>19 DEF ResumeTakes
  <2>1. "value" \in Results /\ <<<<"send", c>>>> \in Seq(Slots)
    BY SlotSequences DEF Results
  <2>2. FrameTypes' /\ WakersHaveWork'
    BY <2>0, <2>1, FinishTypes
  <2> QED BY <1>19, <1>mode, <2>0, <2>2, CountTypes, DeregisterTypes DEF TypeOK, FrameTypes, ResumeTakes, channel, slots, wake, Slots, Results
<1> QED
  BY <1>0, <1>1, <1>2, <1>3, <1>4, <1>5, <1>6, <1>7, <1>8, <1>9, <1>10, <1>11, <1>12, <1>13, <1>14, <1>15, <1>16, <1>17, <1>18, <1>19 DEF Primitive, Inside, Schedule

-----------------------------------------------------------------------------
(* One queue entry per wait *)

(* The steps that touch no flag and no queue: whoever waits, or is about to, *)
(* still does so afterwards.                                                *)
LEMMA OthersKeepEntries ==
  ASSUME TypeOK, NEW a \in Actors, Primitive(a) \/ Inside(a) \/ Schedule(a),
         ~SetFlag(a), \A c \in Chans : ~WakeReceiver(a, c) /\ ~WakeSender(a, c),
         ~PollPick(a), ~QueuePick(a)
  PROVE  /\ UNCHANGED wake
         /\ \A b \in Actors : pc[b] \in {"yield", "blocked"} => pc'[b] \in {"yield", "blocked"}
<1>1. CASE Primitive(a)
  BY <1>1 DEF TypeOK, Primitive, SendCall, RecvCall, Close, Call, Finish, Goto, Set
<1>2. CASE Inside(a)
  BY <1>2 DEF TypeOK, Inside, SendNow, SendBlocks, ScanAllClosed, ScanBlocks, Yield, ScanTakes, ScanEmpty,
     Register, Finish, Goto, Set
<1>3. CASE Schedule(a)
  BY <1>3 DEF TypeOK, Schedule, ResumeSend, ResumeEmpty, ResumeTakes, Finish, Goto, Set
<1> QED BY <1>1, <1>2, <1>3

(* channel_wake_actor turns the flag it takes into an entry. *)
LEMMA WakeSlotMovesFlag ==
  ASSUME TypeOK, mode = "wake", OneEntryPerWait, UNCHANGED mode, NEW a \in Actors, NEW kind,
         NEW c \in Chans, NEW waiter \in Owners, WakeSlot(a, kind, c, waiter)
  PROVE  OneEntryPerWait'
<1>1. /\ pc[a] = "wake" /\ \A b \in Actors : pc[b] \in {"yield", "blocked"} => pc'[b] = pc[b]
  BY DEF TypeOK, WakeSlot, Goto, Set
<1>2. CASE waiter # NoActor /\ wait_flag[waiter] = 1
  <2>1. waiter \in Actors /\ queued[waiter] = 0 /\ pc[waiter] \in {"yield", "blocked"}
    BY <1>2 DEF TypeOK, Owners, OneEntryPerWait
  <2>2. /\ \A b \in Actors : b # waiter => wait_flag'[b] = wait_flag[b] /\ queued'[b] = queued[b]
        /\ wait_flag'[waiter] = 0 /\ queued'[waiter] = 1
    BY <1>2, <2>1 DEF TypeOK, WakeSlot, Set
  <2> QED BY <1>1, <2>1, <2>2 DEF OneEntryPerWait
<1>3. CASE ~(waiter # NoActor /\ wait_flag[waiter] = 1)
  BY <1>1, <1>3 DEF TypeOK, WakeSlot, wake, OneEntryPerWait
<1> QED BY <1>2, <1>3

LEMMA EntryStep ==
  ASSUME TypeOK, OneEntryPerWait, Step
  PROVE  OneEntryPerWait'
<1>0. UNCHANGED mode
  BY DEF Step
<1> SUFFICES ASSUME mode = "wake" PROVE OneEntryPerWait'
  BY <1>0 DEF OneEntryPerWait
<1>1. PICK a \in Actors : Primitive(a) \/ Inside(a) \/ Schedule(a)
  BY DEF Step
<1>2. CASE SetFlag(a)
  <2>1. queued[a] = 0 /\ wait_flag[a] = 0
    <3>1. queued[a] \in Nat /\ wait_flag[a] \in {0, 1} /\ pc[a] = "register"
      BY <1>2 DEF TypeOK, SetFlag
    <3>2. queued[a] + wait_flag[a] <= 1 /\ queued[a] + wait_flag[a] # 1
      BY <3>1 DEF OneEntryPerWait
    <3> QED BY <3>1, <3>2
  <2> QED BY <1>0, <1>2, <2>1 DEF TypeOK, OneEntryPerWait, SetFlag, Goto, Set
<1>3. ASSUME NEW c \in Chans, WakeReceiver(a, c) PROVE OneEntryPerWait'
  BY <1>0, <1>3, WakeSlotMovesFlag DEF TypeOK, WakeReceiver
<1>4. ASSUME NEW c \in Chans, WakeSender(a, c) PROVE OneEntryPerWait'
  BY <1>0, <1>4, WakeSlotMovesFlag DEF TypeOK, WakeSender
<1>5. CASE QueuePick(a)
  <2>1. queued[a] = 1 /\ wait_flag[a] = 0 /\ pc[a] = "blocked"
    BY <1>5 DEF TypeOK, OneEntryPerWait, QueuePick
  <2>2. /\ queued'[a] = 0 /\ wait_flag'[a] = 0
        /\ \A b \in Actors : b # a => wait_flag'[b] = wait_flag[b] /\ queued'[b] = queued[b] /\ pc'[b] = pc[b]
    BY <1>5, <2>1 DEF TypeOK, QueuePick, Goto, Set
  <2> QED BY <2>2 DEF OneEntryPerWait
<1>6. ~PollPick(a)
  BY DEF PollPick
<1>7. CASE /\ ~SetFlag(a) /\ ~QueuePick(a)
           /\ \A c \in Chans : ~WakeReceiver(a, c) /\ ~WakeSender(a, c)
  BY <1>0, <1>1, <1>6, <1>7, OthersKeepEntries DEF wake, OneEntryPerWait
<1> QED BY <1>2, <1>3, <1>4, <1>5, <1>7

-----------------------------------------------------------------------------
(* What a primitive waits for *)

LEMMA WaitsForStep ==
  ASSUME TypeOK, WaitsFor, Step
  PROVE  WaitsFor'
<1>1. PICK a \in Actors : Primitive(a) \/ Inside(a) \/ Schedule(a)
  BY DEF Step
<1>2. ASSUME NEW r, NEW ws, Finish(a, r, ws)
      PROVE  WaitsFor'
  BY <1>2 DEF TypeOK, WaitsFor, Finish, Goto, Set
<1>3. ASSUME NEW c \in Chans, SendCall(a, c) PROVE WaitsFor'
  BY <1>3 DEF TypeOK, WaitsFor, SendCall, Goto, Set
<1>4. ASSUME NEW S \in SUBSET Chans \ {{}}, RecvCall(a, S) PROVE WaitsFor'
  <2>1. Cardinality(S) = 1 => \E c \in Chans : S = {c}
    BY ChansAssumption, FS_Subset, FS_Singleton
  <2> QED BY <1>4, <2>1 DEF TypeOK, WaitsFor, RecvCall, Goto, Set
<1>5. ASSUME UNCHANGED <<reason, on>>, \A b \in Actors : pc'[b] \in {"send", "scan"} => pc[b] = pc'[b]
      PROVE  WaitsFor'
  BY <1>5 DEF WaitsFor
<1>6. \/ \E r, ws : Finish(a, r, ws)
      \/ \E c \in Chans : SendCall(a, c)
      \/ \E S \in SUBSET Chans \ {{}} : RecvCall(a, S)
      \/ /\ UNCHANGED <<reason, on>>
         /\ \A b \in Actors : pc'[b] \in {"send", "scan"} => pc[b] = pc'[b]
  <2>1. CASE Primitive(a)
    BY <2>1 DEF Primitive, Close
  <2>2. CASE Inside(a)
    <3>1. CASE SendNow(a) \/ ScanAllClosed(a) \/ \E c \in Chans : ScanTakes(a, c)
      BY <3>1 DEF SendNow, ScanAllClosed, ScanTakes
    <3>2. CASE SendBlocks(a) \/ ScanBlocks(a) \/ SetFlag(a) \/ Yield(a)
               \/ \E c \in Chans : \/ ScanEmpty(a, c) \/ Register(a, c)
                                   \/ WakeReceiver(a, c) \/ WakeSender(a, c)
      BY <3>2 DEF TypeOK, SendBlocks, ScanBlocks, SetFlag, Yield, ScanEmpty, Register, WakeReceiver, WakeSender,
         WakeSlot, Goto, Set, frame
    <3> QED BY <2>2, <3>1, <3>2 DEF Inside
  <2>3. CASE Schedule(a)
    <3>1. CASE ResumeSend(a) \/ ResumeEmpty(a) \/ \E c \in Chans : ResumeTakes(a, c)
      BY <3>1 DEF ResumeSend, ResumeEmpty, ResumeTakes
    <3>2. CASE PollPick(a) \/ QueuePick(a)
      BY <3>2 DEF TypeOK, PollPick, QueuePick, Goto, Set, frame
    <3> QED BY <2>3, <3>1, <3>2 DEF Schedule
  <2> QED BY <1>1, <2>1, <2>2, <2>3
<1> QED BY <1>2, <1>3, <1>4, <1>5, <1>6

-----------------------------------------------------------------------------
(* The polling scheduler *)

(* One actor moves, and no other was in the middle of something. *)
LEMMA OneMoves ==
  ASSUME TypeOK, mode = "poll", NEW a \in Actors, Primitive(a) \/ Inside(a) \/ Schedule(a)
  PROVE  /\ \A b \in Actors \ {a} : ~Busy(b) /\ pc'[b] = pc[b] /\ result'[b] = result[b]
         /\ pc'[a] = "resume" => PollPick(a)
<1>1. MayStep(a) /\ ~QueuePick(a)
  <2>1. CASE Primitive(a)
    BY <2>1 DEF Primitive, SendCall, RecvCall, Close, Call, QueuePick
  <2>2. CASE Inside(a)
    BY <2>2 DEF Inside, SendNow, SendBlocks, ScanAllClosed, ScanBlocks, SetFlag, Yield, ScanTakes, ScanEmpty,
       Register, WakeReceiver, WakeSender, WakeSlot, QueuePick
  <2>3. CASE Schedule(a)
    BY <2>3 DEF Schedule, PollPick, QueuePick, ResumeSend, ResumeEmpty, ResumeTakes
  <2> QED BY <2>1, <2>2, <2>3
<1>2. \A b \in Actors \ {a} : ~Busy(b)
  BY <1>1 DEF MayStep, Busy
<1>3. /\ \A b \in Actors \ {a} : pc'[b] = pc[b] /\ result'[b] = result[b]
      /\ pc'[a] = "resume" => PollPick(a)
  <2>1. CASE Primitive(a)
    BY <2>1 DEF TypeOK, Primitive, SendCall, RecvCall, Close, Call, Finish, Goto, Set
  <2>2. CASE Inside(a)
    <3>1. CASE SendNow(a) \/ SendBlocks(a) \/ ScanAllClosed(a) \/ ScanBlocks(a) \/ SetFlag(a) \/ Yield(a)
      BY <3>1 DEF TypeOK, SendNow, SendBlocks, ScanAllClosed, ScanBlocks, SetFlag, Yield, Finish, Goto, Set
    <3>2. CASE \E c \in Chans : ScanTakes(a, c) \/ ScanEmpty(a, c) \/ Register(a, c)
      BY <3>2 DEF TypeOK, ScanTakes, ScanEmpty, Register, Finish, Goto, Set
    <3>3. CASE \E c \in Chans : WakeReceiver(a, c) \/ WakeSender(a, c)
      BY <3>3 DEF TypeOK, WakeReceiver, WakeSender, WakeSlot, Goto, Set
    <3> QED BY <2>2, <3>1, <3>2, <3>3 DEF Inside
  <2>3. CASE Schedule(a)
    <3>1. CASE PollPick(a)
      BY <3>1 DEF TypeOK, PollPick, Goto, Set
    <3>2. CASE ResumeSend(a)
      BY <3>2 DEF TypeOK, ResumeSend, Finish, Goto, Set
    <3>3. CASE ResumeEmpty(a) \/ \E c \in Chans : ResumeTakes(a, c)
      BY <3>3 DEF TypeOK, ResumeEmpty, ResumeTakes, Finish, Goto, Set
    <3> QED BY <1>1, <2>3, <3>1, <3>2, <3>3 DEF Schedule
  <2> QED BY <2>1, <2>2, <2>3
<1> QED BY <1>2, <1>3

LEMMA PollStep ==
  ASSUME TypeOK, OneAtATime, StillRunnable, Step
  PROVE  OneAtATime' /\ StillRunnable'
<1>0. UNCHANGED mode
  BY DEF Step
<1> SUFFICES ASSUME mode = "poll" PROVE OneAtATime' /\ StillRunnable'
  BY <1>0 DEF OneAtATime, StillRunnable
<1>1. PICK a \in Actors : Primitive(a) \/ Inside(a) \/ Schedule(a)
  BY DEF Step
<1>2. /\ \A b \in Actors \ {a} : ~Busy(b) /\ pc'[b] = pc[b]
      /\ pc'[a] = "resume" => PollPick(a)
  BY <1>1, OneMoves
<1>3. OneAtATime'
  BY <1>2 DEF OneAtATime, Busy
<1>4. ASSUME NEW b \in Actors, pc'[b] = "resume"
      PROVE  Runnable(b)'
  <2>1. b = a
    BY <1>2, <1>4 DEF Busy
  <2> QED BY <1>2, <1>4, <2>1 DEF PollPick, Runnable, frame, channel
<1> QED BY <1>3, <1>4 DEF StillRunnable

(* Only the resumption of a sender loses a value; a closed channel stays so. *)
LEMMA LossStep ==
  ASSUME TypeOK, StillRunnable, LossOnlyByClose, Step
  PROVE  LossOnlyByClose'
<1>0. UNCHANGED mode
  BY DEF Step
<1> SUFFICES ASSUME mode = "poll" PROVE LossOnlyByClose'
  BY <1>0 DEF LossOnlyByClose
<1>1. PICK a \in Actors : Primitive(a) \/ Inside(a) \/ Schedule(a)
  BY DEF Step
<1>2. \A c \in Chans : closed[c] => closed'[c]
  <2>1. CASE Primitive(a)
    BY <2>1 DEF TypeOK, Primitive, SendCall, RecvCall, Close, Set, channel
  <2>2. CASE Inside(a)
    BY <2>2 DEF TypeOK, Inside, SendNow, SendBlocks, ScanAllClosed, ScanBlocks, SetFlag, Yield, ScanTakes, ScanEmpty,
       Register, WakeReceiver, WakeSender, channel
  <2>3. CASE Schedule(a)
    BY <2>3 DEF TypeOK, Schedule, PollPick, QueuePick, ResumeSend, ResumeEmpty, ResumeTakes, channel
  <2> QED BY <1>1, <2>1, <2>2, <2>3
<1>3. CASE ~ResumeSend(a)
  <2>1. UNCHANGED lost
    BY <1>1, <1>3 DEF Primitive, SendCall, RecvCall, Close,
       Inside, SendNow, SendBlocks, ScanAllClosed, ScanBlocks, SetFlag, Yield, ScanTakes, ScanEmpty,
       Register, WakeReceiver, WakeSender, Schedule, PollPick, QueuePick, ResumeEmpty, ResumeTakes
  <2> QED BY <1>2, <2>1 DEF LossOnlyByClose
<1>4. CASE ResumeSend(a)
  <2>1. PICK c \in on[a] : \/ UNCHANGED lost
                           \/ ~Fits(c) /\ lost' = Set(lost, c, lost[c] + 1)
    BY <1>4 DEF ResumeSend
  <2>2. c \in Chans /\ count[c] < Capacity
    BY <1>4 DEF TypeOK, ResumeSend, StillRunnable, Runnable
  <2>3. ~Fits(c) => closed[c]
    BY <2>2 DEF TypeOK, Fits
  <2> QED BY <1>2, <2>1, <2>2, <2>3 DEF TypeOK, LossOnlyByClose, Set
<1> QED BY <1>3, <1>4

(* Only ResumeEmpty answers nil. *)
LEMMA NilStep ==
  ASSUME TypeOK, WaitsFor, StillRunnable, Step, mode = "poll", NEW b \in Actors, reason[b] = "recv"
  PROVE  result'[b] # "nil" \/ result[b] = "nil"
<1>1. PICK a \in Actors : Primitive(a) \/ Inside(a) \/ Schedule(a)
  BY DEF Step
<1>2. CASE b # a
  BY <1>1, <1>2, OneMoves
<1>3. CASE b = a /\ ~ResumeEmpty(a)
  BY <1>1, <1>3 DEF TypeOK, Primitive, SendCall, RecvCall, Close,
     Inside, SendNow, SendBlocks, ScanAllClosed, ScanBlocks, SetFlag, Yield, ScanTakes, ScanEmpty,
     Register, WakeReceiver, WakeSender, Schedule, PollPick, QueuePick, ResumeSend, ResumeTakes, Finish, Set
<1>4. CASE b = a /\ ResumeEmpty(a)
  <2>1. PICK c \in Chans : on[a] = {c}
    BY <1>4 DEF WaitsFor
  <2>2. count[c] = 0 /\ closed[c]
    BY <1>4, <2>1 DEF ResumeEmpty, StillRunnable, Runnable
  <2> QED BY <1>4, <2>1, <2>2 DEF TypeOK, ResumeEmpty, Finish, Set
<1> QED BY <1>2, <1>3, <1>4

-----------------------------------------------------------------------------
LEMMA WaitInit == Init => WaitInv
<1> SUFFICES ASSUME Init PROVE WaitInv
  OBVIOUS
<1>1. mode \in Modes /\ MaxOps[mode] \in Nat /\ Capacity \in Nat
  BY BoundsAssumption DEF Init
<1>2. TypeOK
  BY <1>1 DEF Init, TypeOK, Owners, PC
<1>3. WakersHaveWork /\ WaitsFor /\ OneAtATime /\ StillRunnable /\ OneEntryPerWait /\ LossOnlyByClose
  BY DEF Init, WakersHaveWork, WaitsFor, OneAtATime, StillRunnable, Busy, OneEntryPerWait, LossOnlyByClose
<1> QED BY <1>2, <1>3 DEF WaitInv

LEMMA WaitStep == WaitInv /\ [Next]_vars => WaitInv'
<1> SUFFICES ASSUME WaitInv, [Next]_vars PROVE WaitInv'
  OBVIOUS
<1>1. CASE Next
  <2>1. Step
    BY <1>1 DEF Next, Step
  <2> QED BY <2>1, TypeStep, EntryStep, WaitsForStep, PollStep, LossStep DEF WaitInv
<1>2. CASE UNCHANGED vars
  BY <1>2 DEF vars, WaitInv, TypeOK, WakersHaveWork, WaitsFor, OneAtATime, StillRunnable, Busy, Runnable,
     OneEntryPerWait, LossOnlyByClose
<1> QED BY <1>1, <1>2

(* Type correctness, and what actors that wait on channels rely on: one run *)
(* queue entry per wait, one actor at a time under the polling scheduler,   *)
(* and the condition an actor was resumed for.                              *)
THEOREM WaitInvariant == Spec => []WaitInv
BY WaitInit, WaitStep, PTL DEF Spec

(* However many threads send, receive and close at once, channel_wake_actor *)
(* queues an actor at most once per wait.                                   *)
THEOREM NeverQueuedTwice == Spec => []OneEntryPerWait
BY WaitInvariant, PTL DEF WaitInv

(* Under actor_run_all a value reported as sent is dropped only when the    *)
(* channel was closed.                                                      *)
THEOREM SentIsKept == Spec => []LossOnlyByClose
BY WaitInvariant, PTL DEF WaitInv

(* Under actor_run_all a receive does not answer nil for a value.           *)
THEOREM NilIsNeverReceived == Spec => ReceiveNeverNil
<1> DEFINE A == \A a \in Actors : mode = "poll" /\ reason[a] = "recv" => result'[a] # "nil" \/ result[a] = "nil"
<1>1. WaitInv /\ [Next]_vars => [A]_vars
  <2> SUFFICES ASSUME WaitInv, Next PROVE A
    OBVIOUS
  <2>1. Step
    BY DEF Next, Step
  <2> QED BY <2>1, NilStep DEF WaitInv
<1>2. [][A]_vars => ReceiveNeverNil
  BY DEF ReceiveNeverNil
<1> QED BY <1>1, <1>2, WaitInvariant, PTL DEF Spec
=============================================================================
