---------------------------- MODULE WorkersProofs ----------------------------
(* Proofs about what the scheduler threads of MCWorkers do: how an actor    *)
(* blocks on its mailbox and is woken, and who holds it (ActorWake), for    *)
(* any schedulers and senders, any capacity, any number of messages and     *)
(* preemptions, and both ways of waiting; which queue or hand an actor is   *)
(* in (Dispatch), for any threads, actors and homes, any number of runs,    *)
(* messages and preemptions, and every cut of sending and receiving; and    *)
(* when a finished actor is freed (QSBR).  What is proved in DequeProofs,   *)
(* CellRefsProofs and LinearCellsProofs is carried over.                    *)
EXTENDS MCWorkers, FiniteSetTheorems, SequenceTheorems, TLAPS

(* A step of a scheduler, or of the actor on it; a step of a sender.        *)
WakeSched == \E k \in started : W!SchedStep(k) \/ W!FiberStep(k)
WakeSender == \E n \in Senders : W!Deliver(n) \/ W!DropWhenFull(n) \/ W!WakeStep(n)

LEMMA WakeSteps == W!Next => /\ ~W!StackShared /\ (WakeSched \/ WakeSender)
                             /\ UNCHANGED <<started, stores, primitive>>
BY DEF W!Next, WakeSched, WakeSender

-----------------------------------------------------------------------------
(* Types *)

(* A store to the flag, at once or through the buffer. *)
LEMMA StoreFlagTypes ==
  ASSUME W!TypeOK, NEW k \in WakeScheds, NEW v \in {0, 1}, W!StoreFlag(k, v)
  PROVE  wait_flag' \in {0, 1} /\ buffer' \in [WakeScheds -> Seq({0, 1})]
<1>1. buffer[k] \in Seq({0, 1}) /\ Append(buffer[k], v) \in Seq({0, 1})
  BY DEF W!TypeOK
<1> QED BY <1>1 DEF W!TypeOK, W!StoreFlag

LEMMA TakeMessageTypes ==
  ASSUME W!TypeOK, NEW k \in WakeScheds, W!TakeMessage(k)
  PROVE  mailbox' \in 0 .. MailboxCap
BY WakeAssumption DEF W!TypeOK, W!TakeMessage

LEMMA WakeTypeStep ==
  ASSUME W!TypeOK, W!Next
  PROVE  W!TypeOK'
<1> USE DEF W!TypeOK, W!SchedPC, W!SenderPC, W!Goto, W!counters, W!ghosts
<1>1. UNCHANGED <<started, stores, primitive>> /\ (WakeSched \/ WakeSender)
  BY WakeSteps
<1>2. ASSUME NEW k \in WakeScheds, W!SchedStep(k)
      PROVE  W!TypeOK'
  <2>1. CASE W!Check(k) \/ W!StartFiber(k) \/ W!EnterRunning(k) \/ W!After(k)
    BY <1>1, <2>1 DEF W!Check, W!StartFiber, W!EnterRunning, W!After
  <2>5. CASE W!Pick(k)
    BY <1>1, <2>5 DEF W!Pick
  <2>6. CASE W!Requeue(k)
    BY <1>1, <2>6 DEF W!Requeue
  <2>2. CASE W!ClearFlag(k)
    BY <1>1, <2>2, StoreFlagTypes DEF W!ClearFlag
  <2>3. CASE W!ResumeFiber(k)
    BY <1>1, <2>3, TakeMessageTypes DEF W!ResumeFiber
  <2>4. CASE W!Drain(k)
    <3>1. buffer[k] \in Seq({0, 1}) /\ Head(buffer[k]) \in {0, 1} /\ Tail(buffer[k]) \in Seq({0, 1})
      BY <2>4 DEF W!Drain
    <3> QED BY <1>1, <2>4, <3>1 DEF W!Drain
  <2> QED BY <1>2, <2>1, <2>2, <2>3, <2>4, <2>5, <2>6 DEF W!SchedStep
<1>3. ASSUME NEW k \in WakeScheds, W!FiberStep(k)
      PROVE  W!TypeOK'
  <2>1. CASE W!SetReduction(k) \/ W!CallReceive(k) \/ W!RecheckEmpty(k) \/ W!MarkSuspended(k) \/ W!SwitchOut(k)
    BY <1>1, <2>1 DEF W!SetReduction, W!CallReceive, W!RecheckEmpty, W!MarkSuspended, W!SwitchOut
  <2>5. CASE W!Preempt(k)
    BY <1>1, <2>5, WakeAssumption DEF W!Preempt
  <2>2. CASE W!FirstLook(k)
    BY <1>1, <2>2, TakeMessageTypes DEF W!FirstLook
  <2>3. CASE W!SetFlag(k)
    BY <1>1, <2>3, StoreFlagTypes DEF W!SetFlag
  <2>4. CASE W!RecheckFinds(k)
    BY <1>1, <2>4, StoreFlagTypes, TakeMessageTypes DEF W!RecheckFinds
  <2> QED BY <1>3, <2>1, <2>2, <2>3, <2>4, <2>5 DEF W!FiberStep
<1>4. CASE WakeSender
  <2>1. PICK n \in Senders : W!Deliver(n) \/ W!DropWhenFull(n) \/ W!WakeStep(n)
    BY <1>4 DEF WakeSender
  <2>2. CASE W!Deliver(n)
    BY <1>1, <2>2, WakeAssumption DEF W!Deliver
  <2>3. CASE W!DropWhenFull(n)
    BY <1>1, <2>3, WakeAssumption DEF W!DropWhenFull
  <2>4. CASE W!WakeStep(n)
    <3>1. CASE W!ExchangeFlag(n)
      BY <1>1, <3>1 DEF W!ExchangeFlag
    <3>2. CASE W!EnqueueActor(n)
      BY <1>1, <3>2 DEF W!EnqueueActor
    <3> QED BY <2>4, <3>1, <3>2 DEF W!WakeStep
  <2> QED BY <2>1, <2>2, <2>3, <2>4
<1> QED BY <1>1, <1>2, <1>3, <1>4 DEF WakeSched

-----------------------------------------------------------------------------
(* One scheduler *)

(* Between the check of the queue entry and the resumption. *)
Entering(k) == fpc[k] = "resume" \/ (fpc[k] = "enter" /\ fstate = "suspended")

(* With one scheduler nobody else takes a message in between. *)
LoneResume ==
  W!Cardinality(started) = 1 => \A k \in started : Entering(k) /\ reason = "mailbox" => mailbox > 0

LEMMA LoneResumeStep ==
  ASSUME W!TypeOK, LoneResume, W!Next
  PROVE  LoneResume'
<1> USE DEF W!TypeOK, W!Goto, W!counters, W!ghosts
<1>1. UNCHANGED <<started, stores, primitive>> /\ (WakeSched \/ WakeSender)
  BY WakeSteps
<1> SUFFICES ASSUME W!Cardinality(started) = 1, NEW k \in started, Entering(k)', reason' = "mailbox"
             PROVE  mailbox' > 0
  BY <1>1 DEF LoneResume
<1>2. \A j \in started : j = k
  <2>1. IsFiniteSet(started)
    BY WakeAssumption, FS_Subset
  <2>2. Cardinality(started) = 1
    BY DEF W!Cardinality, Cardinality
  <2> QED BY <2>1, <2>2, FS_Singleton
<1>3. CASE WakeSender
  <2>1. UNCHANGED <<fpc, fstate, reason>> /\ mailbox' \in Int /\ mailbox' >= mailbox
    BY <1>3 DEF WakeSender, W!Deliver, W!DropWhenFull, W!WakeStep, W!ExchangeFlag, W!EnqueueActor
  <2>2. k \in started /\ Entering(k) /\ reason = "mailbox"
    BY <1>1, <2>1 DEF Entering
  <2>3. mailbox \in Nat /\ mailbox > 0
    BY <2>2 DEF LoneResume
  <2> QED BY <2>1, <2>3
<1>4. CASE WakeSched
  <2>1. W!SchedStep(k) \/ W!FiberStep(k)
    BY <1>2, <1>4 DEF WakeSched
  <2>2. W!Check(k) \/ W!ClearFlag(k) \/ W!Drain(k)
    BY <2>1 DEF Entering, W!SchedStep, W!FiberStep, W!Pick, W!StartFiber, W!EnterRunning,
       W!After, W!Requeue, W!ResumeFiber, W!Preempt, W!SetReduction, W!CallReceive, W!RecheckEmpty,
       W!MarkSuspended, W!SwitchOut, W!FirstLook, W!SetFlag, W!RecheckFinds
  <2> QED BY <2>2 DEF LoneResume, Entering, W!Check, W!Runnable, W!ClearFlag, W!Drain
<1> QED BY <1>1, <1>3, <1>4

-----------------------------------------------------------------------------
(* The two-phase wait *)

(* On the fiber, before it is marked suspended, it is running; it waits for *)
(* nothing until it says so.                                                *)
FiberRuns ==
  /\ fstate = "ready" => reason = "general"
  /\ \A k \in WakeScheds :
       /\ fpc[k] \in {"body", "recv", "flag", "recheck", "yield"} => fstate = "running"
       /\ fpc[k] \in {"budget", "switch"} => fstate # "ready"
       /\ fpc[k] \in {"body", "recv", "flag", "budget"} => reason = "general"

(* Who passed the re-check of prim_receive saw an empty mailbox with the    *)
(* flag up: a message that came later has its sender still before the flag. *)
RecheckHolds ==
  primitive = "receive" /\ stores = "ordered" =>
    /\ \A k \in WakeScheds : buffer[k] = << >>
    /\ \A k \in WakeScheds : fpc[k] = "yield" /\ wait_flag = 1 /\ mailbox > 0
                               => \E n \in Senders : npc[n] = "wake"

LEMMA FiberRunsStep ==
  ASSUME W!TypeOK, FiberRuns, W!Next
  PROVE  FiberRuns'
<1> USE DEF W!TypeOK, W!Goto, W!counters, W!ghosts
<1>1. ~W!StackShared /\ (WakeSched \/ WakeSender)
  BY WakeSteps
<1>2. CASE WakeSender
  <2>1. UNCHANGED <<fpc, fstate, reason>>
    BY <1>2 DEF WakeSender, W!Deliver, W!DropWhenFull, W!WakeStep, W!ExchangeFlag, W!EnqueueActor
  <2> QED BY <2>1 DEF FiberRuns
<1>3. ASSUME NEW k \in WakeScheds, W!SchedStep(k)
      PROVE  FiberRuns'
  BY <1>3 DEF FiberRuns, W!SchedStep, W!Pick, W!Check, W!StartFiber, W!ClearFlag, W!EnterRunning,
     W!ResumeFiber, W!After, W!Requeue, W!Drain
<1>4. ASSUME NEW k \in WakeScheds, W!FiberStep(k)
      PROVE  FiberRuns'
  <2>1. W!OnFiber(k)
    BY <1>4 DEF W!FiberStep, W!OnFiber, W!Preempt, W!SetReduction, W!CallReceive, W!RecheckEmpty,
       W!MarkSuspended, W!SwitchOut, W!FirstLook, W!SetFlag, W!RecheckFinds
  <2>2. \A j \in WakeScheds : j # k => ~W!OnFiber(j) /\ fpc'[j] = fpc[j]
    <3>1. \A j \in WakeScheds : j # k => ~W!OnFiber(j)
      BY <1>1, <2>1 DEF W!StackShared
    <3>2. \A j \in WakeScheds : j # k => fpc'[j] = fpc[j]
      BY <1>4 DEF W!FiberStep, W!Preempt, W!SetReduction, W!CallReceive, W!RecheckEmpty,
         W!MarkSuspended, W!SwitchOut, W!FirstLook, W!SetFlag, W!RecheckFinds
    <3> QED BY <3>1, <3>2
  <2>3. /\ fpc'[k] \in {"body", "recv", "flag", "recheck", "yield"} => fstate' = "running"
        /\ fpc'[k] \in {"budget", "switch"} => fstate' # "ready"
        /\ fpc'[k] \in {"body", "recv", "flag", "budget"} => reason' = "general"
        /\ fstate' = "ready" => fstate = "ready" /\ reason' = "general"
    <3>1. CASE W!Preempt(k) \/ W!SetReduction(k) \/ W!MarkSuspended(k) \/ W!SwitchOut(k)
      BY <3>1 DEF FiberRuns, W!Preempt, W!SetReduction, W!MarkSuspended, W!SwitchOut
    <3>2. CASE W!CallReceive(k) \/ W!FirstLook(k)
      BY <3>2 DEF FiberRuns, W!CallReceive, W!FirstLook
    <3>3. CASE W!SetFlag(k)
      BY <3>3 DEF FiberRuns, W!SetFlag
    <3>4. CASE W!RecheckFinds(k) \/ W!RecheckEmpty(k)
      BY <3>4 DEF FiberRuns, W!RecheckFinds, W!RecheckEmpty
    <3> QED BY <1>4, <3>1, <3>2, <3>3, <3>4 DEF W!FiberStep
  <2> QED BY <2>2, <2>3 DEF FiberRuns, W!OnFiber
<1> QED BY <1>1, <1>2, <1>3, <1>4 DEF WakeSched

LEMMA RecheckStep ==
  ASSUME W!TypeOK, FiberRuns, RecheckHolds, W!TwoPhaseWaitSound, W!Next
  PROVE  RecheckHolds' /\ W!TwoPhaseWaitSound'
<1> USE DEF W!TypeOK, W!Goto, W!counters, W!ghosts
<1>1. ~W!StackShared /\ (WakeSched \/ WakeSender) /\ UNCHANGED <<stores, primitive>>
  BY WakeSteps
<1> SUFFICES ASSUME primitive = "receive", stores = "ordered"
             PROVE  RecheckHolds' /\ W!TwoPhaseWaitSound'
  BY <1>1 DEF RecheckHolds, W!TwoPhaseWaitSound
<1> DEFINE Pending == \E n \in Senders : npc[n] = "wake"
           Late == wait_flag = 1 /\ mailbox > 0
<1>2. CASE WakeSender
  <2>1. UNCHANGED <<fpc, fstate, reason, buffer>>
    BY <1>2 DEF WakeSender, W!Deliver, W!DropWhenFull, W!WakeStep, W!ExchangeFlag, W!EnqueueActor
  <2>2. Late' => Pending' \/ (Late /\ ~Pending)
    BY <1>2 DEF WakeSender, W!Deliver, W!DropWhenFull, W!WakeStep, W!ExchangeFlag, W!EnqueueActor
  <2> QED BY <2>1, <2>2 DEF RecheckHolds, W!TwoPhaseWaitSound
<1>3. ASSUME NEW k \in WakeScheds, W!SchedStep(k)
      PROVE  RecheckHolds' /\ W!TwoPhaseWaitSound'
  <2>1. npc' = npc /\ (Late' => Late) /\ \A j \in WakeScheds : buffer'[j] = << >>
    BY <1>3 DEF RecheckHolds, W!SchedStep, W!Pick, W!Check, W!StartFiber, W!ClearFlag, W!EnterRunning,
       W!ResumeFiber, W!After, W!Requeue, W!Drain, W!StoreFlag, W!TakeMessage
  <2>2. \A j \in WakeScheds : fpc'[j] = "yield" => fpc[j] = "yield"
    BY <1>3 DEF W!SchedStep, W!Pick, W!Check, W!StartFiber, W!ClearFlag, W!EnterRunning,
       W!ResumeFiber, W!After, W!Requeue, W!Drain
  <2>3. fstate' = "suspended" /\ reason' = "mailbox" => fstate = "suspended" /\ reason = "mailbox"
    BY <1>3 DEF W!SchedStep, W!Pick, W!Check, W!StartFiber, W!ClearFlag, W!EnterRunning,
       W!ResumeFiber, W!After, W!Requeue, W!Drain
  <2> QED BY <1>1, <2>1, <2>2, <2>3 DEF RecheckHolds, W!TwoPhaseWaitSound
<1>4. ASSUME NEW k \in WakeScheds, W!FiberStep(k)
      PROVE  RecheckHolds' /\ W!TwoPhaseWaitSound'
  <2>1. W!OnFiber(k) /\ \A j \in WakeScheds : j # k => ~W!OnFiber(j)
    BY <1>1, <1>4 DEF W!StackShared, W!FiberStep, W!OnFiber, W!Preempt, W!SetReduction, W!CallReceive, W!RecheckEmpty,
       W!MarkSuspended, W!SwitchOut, W!FirstLook, W!SetFlag, W!RecheckFinds
  <2>2. /\ npc' = npc /\ \A j \in WakeScheds : j # k => fpc'[j] = fpc[j]
        /\ \A j \in WakeScheds : buffer'[j] = << >>
    BY <1>4 DEF RecheckHolds, W!FiberStep, W!Preempt, W!SetReduction, W!CallReceive, W!RecheckEmpty,
       W!MarkSuspended, W!SwitchOut, W!FirstLook, W!SetFlag, W!RecheckFinds, W!StoreFlag
  <2>3. fpc'[k] = "yield" /\ Late' => Pending
    BY <1>4 DEF W!FiberStep, W!Preempt, W!SetReduction, W!CallReceive, W!RecheckEmpty,
       W!MarkSuspended, W!SwitchOut, W!FirstLook, W!SetFlag, W!RecheckFinds
  <2>4. fstate' = "suspended" /\ reason' = "mailbox" /\ Late' => Pending
    <3>1. CASE W!MarkSuspended(k)
      BY <3>1 DEF RecheckHolds, W!MarkSuspended
    <3>2. CASE W!SwitchOut(k)
      BY <3>2 DEF W!SwitchOut, W!TwoPhaseWaitSound
    <3>3. CASE ~W!MarkSuspended(k) /\ ~W!SwitchOut(k)
      BY <1>4, <3>3 DEF FiberRuns, W!FiberStep, W!Preempt, W!SetReduction, W!CallReceive, W!RecheckEmpty,
         W!FirstLook, W!SetFlag, W!RecheckFinds
    <3> QED BY <3>1, <3>2, <3>3
  <2> QED BY <1>1, <2>1, <2>2, <2>3, <2>4 DEF RecheckHolds, W!TwoPhaseWaitSound, W!OnFiber
<1> QED BY <1>1, <1>2, <1>3, <1>4 DEF WakeSched

-----------------------------------------------------------------------------
(* One holder of the actor *)

Holding(k) == k \notin handed /\ fpc[k] # "idle"
Waking(n) == npc[n] = "enqueue"

(* OneHolder without sets. *)
Lone ==
  /\ queued <= 1
  /\ queued > 0 \/ wait_flag = 1 => \A k \in WakeScheds : ~Holding(k)
  /\ queued > 0 \/ wait_flag = 1 => \A n \in Senders : ~Waking(n)
  /\ queued > 0 => wait_flag = 0
  /\ \A j, k \in WakeScheds : Holding(j) /\ Holding(k) => j = k
  /\ \A m, n \in Senders : Waking(m) /\ Waking(n) => m = n
  /\ \A k \in WakeScheds : \A n \in Senders : ~(Holding(k) /\ Waking(n))

(* A scheduler whose actor waits is between the flag and its next turn; an  *)
(* actor about to be resumed stays suspended.                               *)
HandedOver == \A k \in handed : fpc[k] \in {"recheck", "yield", "switch", "after"}
Unbuffered == stores = "ordered" => \A k \in WakeScheds : buffer[k] = << >>
Leaving == W!StackShared => \E k \in handed : fpc[k] = "switch"
HolderInv ==
  /\ HandedOver /\ Unbuffered
  /\ stores = "ordered" /\ ~doubled =>
       Lone /\ Leaving /\ \A k \in WakeScheds : fpc[k] = "resume" => fstate = "suspended"

LEMMA LoneHolder == ASSUME W!TypeOK, Lone PROVE \A x, y \in W!Holders : x = y
<1>1. queued \in Nat /\ wait_flag \in {0, 1}
  BY DEF W!TypeOK
<1>2. ASSUME NEW x \in W!Holders
      PROVE  \/ queued = 1 /\ x = <<"entry", 1>>
             \/ wait_flag = 1 /\ x = <<"flag", 1>>
             \/ \E k \in WakeScheds : Holding(k) /\ x = <<"scheduler", k>>
             \/ \E n \in Senders : Waking(n) /\ x = <<"sender", n>>
  <2>1. CASE x \in {"entry"} \X (1 .. queued)
    <3>1. PICK i \in 1 .. queued : x = <<"entry", i>>
      BY <2>1
    <3> QED BY <1>1, <3>1 DEF Lone
  <2>2. CASE x \in {<<"flag", f>> : f \in {1} \cap {wait_flag}}
    BY <2>2
  <2>3. CASE x \in {"scheduler"} \X {k \in WakeScheds \ handed : fpc[k] # "idle"}
    BY <2>3 DEF Holding
  <2>4. CASE x \in {"sender"} \X {n \in Senders : npc[n] = "enqueue"}
    BY <2>4 DEF Waking
  <2> QED BY <2>1, <2>2, <2>3, <2>4 DEF W!Holders
<1>3. ASSUME NEW x \in W!Holders, NEW y \in W!Holders PROVE x = y
  <2>1. CASE queued = 1
    BY <1>1, <1>2, <2>1 DEF Lone
  <2>2. CASE wait_flag = 1
    BY <1>1, <1>2, <2>2 DEF Lone
  <2>3. CASE \E k \in WakeScheds : Holding(k)
    BY <1>1, <1>2, <2>3 DEF Lone
  <2>4. CASE \E n \in Senders : Waking(n)
    BY <1>1, <1>2, <2>4 DEF Lone
  <2> QED BY <1>2, <2>1, <2>2, <2>3, <2>4
<1> QED BY <1>3

(* The actor is stopped for whoever is about to enter its stack. *)
LEMMA EntersLeaving ==
  ASSUME W!TypeOK, FiberRuns, HolderInv, ~W!StackShared, stores = "ordered", ~doubled,
         NEW k \in WakeScheds, W!StartFiber(k) \/ W!ResumeFiber(k)
  PROVE  Leaving'
<1> USE DEF W!TypeOK, W!Goto
<1>1. /\ fpc[k] \in {"enter", "resume"} /\ UNCHANGED handed
      /\ \A j \in WakeScheds : j # k => fpc'[j] = fpc[j]
      /\ Holding(k)
  BY DEF W!StartFiber, W!ResumeFiber, W!ghosts, HolderInv, HandedOver, Holding
<1> SUFFICES ASSUME W!StackShared' PROVE \E j \in handed : fpc'[j] = "switch"
  BY <1>1 DEF Leaving
<1>2. PICK j \in WakeScheds : j # k /\ W!OnFiber(j)
  BY <1>1 DEF W!StackShared, W!OnFiber
<1>3. CASE W!StartFiber(k)
  BY <1>2, <1>3 DEF W!StartFiber, FiberRuns, W!OnFiber
<1>4. CASE W!ResumeFiber(k)
  <2>1. fstate = "suspended"
    BY <1>4 DEF W!ResumeFiber, HolderInv
  <2>2. fpc[j] \in {"budget", "switch"}
    BY <1>2, <2>1 DEF FiberRuns, W!OnFiber
  <2>3. j \in handed
    BY <1>1, <1>2, <2>2 DEF HolderInv, Lone, Holding
  <2> QED BY <1>1, <1>2, <2>2, <2>3 DEF HolderInv, HandedOver
<1> QED BY <1>3, <1>4

LEMMA HolderStep ==
  ASSUME W!TypeOK, FiberRuns, HolderInv, W!Next
  PROVE  HolderInv'
<1> USE DEF W!TypeOK, W!Goto, W!counters, W!ghosts
<1>1. ~W!StackShared /\ (WakeSched \/ WakeSender) /\ UNCHANGED <<stores, primitive, started>>
  BY WakeSteps
<1>2. CASE WakeSender
  <2>1. PICK n \in Senders : W!Deliver(n) \/ W!DropWhenFull(n) \/ W!WakeStep(n)
    BY <1>2 DEF WakeSender
  <2>2. UNCHANGED <<fpc, fstate, buffer, handed, doubled>>
    BY <2>1 DEF W!Deliver, W!DropWhenFull, W!WakeStep, W!ExchangeFlag, W!EnqueueActor
  <2>3. ASSUME Lone PROVE Lone'
    <3>1. CASE W!Deliver(n) \/ W!DropWhenFull(n)
      BY <2>3, <3>1 DEF Lone, Holding, Waking, W!Deliver, W!DropWhenFull
    <3>2. CASE W!ExchangeFlag(n)
      BY <2>3, <3>2 DEF Lone, Holding, Waking, W!ExchangeFlag
    <3>3. CASE W!EnqueueActor(n)
      BY <2>3, <3>3 DEF Lone, Holding, Waking, W!EnqueueActor
    <3> QED BY <2>1, <3>1, <3>2, <3>3 DEF W!WakeStep
  <2>4. ~W!StackShared'
    BY <1>1, <2>2 DEF W!StackShared, W!OnFiber
  <2> QED BY <1>1, <2>2, <2>3, <2>4 DEF HolderInv, HandedOver, Unbuffered, Leaving
<1>3. ASSUME NEW k \in WakeScheds, W!SchedStep(k) \/ W!FiberStep(k)
      PROVE  HolderInv'
  <2>1. HandedOver'
    <3>1. CASE W!SetFlag(k)
      BY <3>1 DEF W!SetFlag, HolderInv, HandedOver
    <3>2. CASE ~W!SetFlag(k)
      BY <1>3, <3>2 DEF HolderInv, HandedOver, W!SchedStep, W!Pick, W!Check, W!StartFiber, W!ClearFlag, W!EnterRunning,
         W!ResumeFiber, W!After, W!Requeue, W!Drain, W!FiberStep, W!Preempt, W!SetReduction, W!CallReceive,
         W!RecheckEmpty, W!MarkSuspended, W!SwitchOut, W!FirstLook, W!RecheckFinds
    <3> QED BY <3>1, <3>2
  <2>2. Unbuffered'
    BY <1>1, <1>3 DEF HolderInv, Unbuffered, W!StoreFlag, W!SchedStep, W!Pick, W!Check, W!StartFiber, W!ClearFlag, W!EnterRunning,
       W!ResumeFiber, W!After, W!Requeue, W!Drain, W!FiberStep, W!Preempt, W!SetReduction, W!CallReceive,
       W!RecheckEmpty, W!MarkSuspended, W!SwitchOut, W!FirstLook, W!RecheckFinds, W!SetFlag
  <2> SUFFICES ASSUME stores = "ordered", ~doubled'
               PROVE  Lone' /\ Leaving' /\ \A j \in WakeScheds : fpc'[j] = "resume" => fstate' = "suspended"
    BY <1>1, <2>1, <2>2 DEF HolderInv
  <2>3. ~doubled
    BY <1>3 DEF W!SchedStep, W!Pick, W!Check, W!StartFiber, W!ClearFlag, W!EnterRunning,
       W!ResumeFiber, W!After, W!Requeue, W!Drain, W!FiberStep, W!Preempt, W!SetReduction, W!CallReceive,
       W!RecheckEmpty, W!MarkSuspended, W!SwitchOut, W!FirstLook, W!RecheckFinds, W!SetFlag
  <2>4. Lone /\ HandedOver /\ buffer[k] = << >> /\ \A j \in WakeScheds : fpc[j] = "resume" => fstate = "suspended"
    BY <2>3 DEF HolderInv, Unbuffered
  <2>5. Lone'
    <3> USE DEF Lone, Holding, Waking, HandedOver
    <3>1. CASE W!Pick(k)
      BY <2>4, <3>1 DEF W!Pick
    <3>2. CASE W!Requeue(k)
      <4>1. Holding(k) /\ fpc' = [fpc EXCEPT ![k] = "idle"] /\ queued' = queued + 1
            /\ UNCHANGED <<wait_flag, npc, handed>>
        BY <2>4, <3>2 DEF W!Requeue
      <4>2. queued = 0 /\ wait_flag = 0 /\ \A n \in Senders : ~Waking(n)
        BY <2>4, <4>1
      <4>3. \A j \in WakeScheds : ~Holding(j)'
        BY <2>4, <4>1
      <4> QED BY <4>1, <4>2, <4>3
    <3>3. CASE W!SetFlag(k)
      BY <2>4, <3>3 DEF W!SetFlag, W!StoreFlag
    <3>4. CASE W!RecheckFinds(k)
      BY <2>4, <3>4 DEF W!RecheckFinds, W!StoreFlag
    <3>5. CASE W!After(k)
      BY <2>4, <3>5 DEF W!After
    <3>6. CASE W!Check(k) \/ W!StartFiber(k) \/ W!EnterRunning(k) \/ W!ResumeFiber(k)
      BY <2>4, <3>6 DEF W!Check, W!StartFiber, W!EnterRunning, W!ResumeFiber
    <3>7. CASE W!ClearFlag(k)
      BY <2>4, <3>7 DEF W!ClearFlag, W!StoreFlag
    <3>8. CASE W!Preempt(k) \/ W!SetReduction(k) \/ W!CallReceive(k) \/ W!RecheckEmpty(k) \/ W!MarkSuspended(k)
               \/ W!SwitchOut(k) \/ W!FirstLook(k)
      <4>1. UNCHANGED <<wait_flag, queued, npc, handed>> /\ \A j \in WakeScheds : Holding(j)' => Holding(j)
        BY <3>8 DEF W!Preempt, W!SetReduction, W!CallReceive,
           W!RecheckEmpty, W!MarkSuspended, W!SwitchOut, W!FirstLook
      <4> QED BY <2>4, <4>1
    <3>9. ~W!Drain(k)
      BY <2>4 DEF W!Drain
    <3> QED BY <1>3, <3>1, <3>2, <3>3, <3>4, <3>5, <3>6, <3>7, <3>8, <3>9 DEF W!SchedStep, W!FiberStep
  <2>6. Leaving'
    <3>1. CASE W!StartFiber(k) \/ W!ResumeFiber(k)
      BY <1>1, <2>3, <3>1, EntersLeaving
    <3>2. CASE ~(W!StartFiber(k) \/ W!ResumeFiber(k))
      <4>1. \A j \in WakeScheds : W!OnFiber(j)' => W!OnFiber(j)
        BY <1>3, <3>2 DEF W!OnFiber, W!SchedStep, W!Pick, W!Check, W!ClearFlag, W!EnterRunning,
           W!After, W!Requeue, W!Drain, W!FiberStep, W!Preempt, W!SetReduction, W!CallReceive,
           W!RecheckEmpty, W!MarkSuspended, W!SwitchOut, W!FirstLook, W!RecheckFinds, W!SetFlag
      <4>2. ~W!StackShared'
        BY <1>1, <4>1 DEF W!StackShared
      <4> QED BY <4>2 DEF Leaving
    <3> QED BY <3>1, <3>2
  <2>7. ASSUME NEW j \in WakeScheds, fpc'[j] = "resume" PROVE fstate' = "suspended"
    <3>1. CASE fpc[j] # "resume"
      <4>1. W!ClearFlag(k)
        BY <1>3, <2>7, <3>1 DEF W!SchedStep, W!Pick, W!Check, W!StartFiber, W!EnterRunning,
           W!ResumeFiber, W!After, W!Requeue, W!Drain, W!FiberStep, W!Preempt, W!SetReduction, W!CallReceive,
           W!RecheckEmpty, W!MarkSuspended, W!SwitchOut, W!FirstLook, W!RecheckFinds, W!SetFlag
      <4> QED BY <4>1 DEF W!ClearFlag
    <3>2. CASE fpc[j] = "resume"
      <4>1. fstate = "suspended" /\ Holding(j)
        BY <2>4, <3>2 DEF HandedOver, Holding
      <4>2. ~W!ResumeFiber(k)
        <5>1. ASSUME W!ResumeFiber(k) PROVE FALSE
          <6>1. Holding(k) /\ fpc'[k] # "resume"
            BY <2>4, <5>1 DEF HandedOver, Holding, W!ResumeFiber
          <6> QED BY <2>4, <2>7, <4>1, <6>1 DEF Lone
        <5> QED BY <5>1
      <4> QED BY <1>3, <4>1, <4>2 DEF W!SchedStep, W!Pick, W!Check, W!StartFiber, W!ClearFlag, W!EnterRunning,
           W!After, W!Requeue, W!Drain, W!FiberStep, W!Preempt, W!SetReduction, W!CallReceive,
           W!RecheckEmpty, W!MarkSuspended, W!SwitchOut, W!FirstLook, W!RecheckFinds, W!SetFlag
    <3> QED BY <3>1, <3>2
  <2> QED BY <2>5, <2>6, <2>7
<1> QED BY <1>1, <1>2, <1>3 DEF WakeSched

-----------------------------------------------------------------------------
(* The inductive invariant of the behaviours that are of ActorWake. *)
WakeInv == part = "wake" => /\ W!TypeOK /\ LoneResume /\ FiberRuns /\ HolderInv
                            /\ RecheckHolds /\ W!TwoPhaseWaitSound

THEOREM WakeInvariant == WorkersSpec => []WakeInv
<1>1. WorkersInit => WakeInv
  <2> SUFFICES ASSUME W!Init PROVE WakeInv
    BY DEF WorkersInit
  <2>1. W!TypeOK
    <3>1. << >> \in Seq({0, 1})
      BY EmptySeq
    <3>2. buffer \in [WakeScheds -> Seq({0, 1})]
      BY <3>1 DEF W!Init
    <3>3. handed \subseteq WakeScheds /\ doubled \in BOOLEAN
      BY DEF W!Init
    <3> QED BY <3>2, <3>3, WakeAssumption DEF W!Init, W!TypeOK, W!SchedPC, W!SenderPC
  <2>2. LoneResume /\ FiberRuns /\ RecheckHolds /\ W!TwoPhaseWaitSound
    BY DEF W!Init, LoneResume, Entering, FiberRuns, RecheckHolds, W!TwoPhaseWaitSound
  <2>3. HolderInv
    BY DEF W!Init, HolderInv, HandedOver, Unbuffered, Lone, Leaving, Holding, Waking, W!StackShared, W!OnFiber
  <2> QED BY <2>1, <2>2, <2>3 DEF WakeInv
<1>2. WakeInv /\ [WorkersNext]_<<part, vars, wakevars, dequevars, loopvars>> => WakeInv'
  <2> SUFFICES ASSUME WakeInv, [WorkersNext]_<<part, vars, wakevars, dequevars, loopvars>>, part = "wake"
               PROVE  WakeInv'
    BY DEF WorkersNext, WakeInv
  <2>1. CASE WorkersNext
    <3>1. W!Next
      BY <2>1 DEF WorkersNext
    <3> QED BY <3>1, WakeTypeStep, LoneResumeStep, FiberRunsStep, HolderStep, RecheckStep DEF WakeInv
  <2>2. CASE UNCHANGED <<part, wakevars>>
    <3>1. UNCHANGED <<part, wakevars>>
      BY <2>2
    <3>2. (W!TypeOK /\ LoneResume /\ FiberRuns)'
      BY <3>1 DEF wakevars, WakeInv, W!TypeOK, LoneResume, Entering, FiberRuns
    <3>3. HolderInv'
      BY <3>1 DEF wakevars, WakeInv, HolderInv, HandedOver, Unbuffered, Lone, Leaving, Holding, Waking,
         W!StackShared, W!OnFiber
    <3>4. (RecheckHolds /\ W!TwoPhaseWaitSound)'
      BY <3>1 DEF wakevars, WakeInv, RecheckHolds, W!TwoPhaseWaitSound
    <3> QED BY <3>2, <3>3, <3>4 DEF WakeInv
  <2> QED BY <2>1, <2>2
<1> QED BY <1>1, <1>2, PTL DEF WorkersSpec

(* An actor that committed to sleep in prim_receive with its flag up never  *)
(* sleeps on a message whose sender has already passed the flag.            *)
THEOREM RecheckClosesGap == WorkersSpec => []TwoPhaseWaitSound
<1>1. WakeInv => TwoPhaseWaitSound
  BY DEF WakeInv, TwoPhaseWaitSound
<1> QED BY <1>1, WakeInvariant, PTL

(* A single scheduler resumes an actor only with a message at hand, so that *)
(* the program does not receive a nil nobody sent.                          *)
THEOREM LoneSchedulerDelivers == WorkersSpec => []ResumedWithMessage
<1>1. WakeInv => ResumedWithMessage
  BY DEF WakeInv, LoneResume, Entering, ResumedWithMessage, W!ResumedWithMessage
<1> QED BY <1>1, WakeInvariant, PTL

(* An actor has one entry, one scheduler, one sender on its way to a queue   *)
(* or its flag up, and two schedulers meet on its stack only while one is   *)
(* leaving it: for every program whose stores are ordered, until the first  *)
(* cancelled wait whose flag a sender took, or scheduler that takes the     *)
(* quantum of another for its own.                                          *)
THEOREM ActorHasOneHolder == WorkersSpec => []OneHolder
<1>1. WakeInv => OneHolder
  <2> SUFFICES ASSUME WakeInv, part = "wake" PROVE W!TypeOK /\ W!OneHolder
    BY DEF OneHolder
  <2> QED BY LoneHolder DEF WakeInv, HolderInv, Leaving, W!OneHolder
<1> QED BY <1>1, WakeInvariant, PTL

-----------------------------------------------------------------------------
(* The run queues and the loops around them *)

LoopThreads == Q!Threads
Locs == {"off", "stopped", "distribute", "loop", "taken", "counted", "in", "wake", "enqueue", "flag",
         "recheck", "yield", "after", "met", "requeue", "leave", "empty", "idle", "again", "stop"}
States == {"ready", "running", "blocked", "dead"}
Loops ==
  [state : [RunActors -> States], mail : [RunActors -> Nat], flag : [RunActors -> {0, 1}],
   runnext : [LoopThreads -> RunActors \cup {Nil}], deque : [LoopThreads -> Seq(RunActors)],
   global : Seq(RunActors), held : [LoopThreads -> RunActors \cup {Nil}],
   to : [LoopThreads -> RunActors \cup {Nil}],
   at : [LoopThreads -> Locs], todo : SUBSET RunActors, running : Int,
   timer : RunActors \cup {Nil}, sent : Nat, preempts : Nat, runs : Nat]

(* Actor a is entry i of a queue.                                           *)
Entry(q, a, i) == i \in DOMAIN q /\ q[i] = a

(* A thread with its actor's flag up, or done with its actor.               *)
Away == {"recheck", "yield", "after", "leave"}

(* Actor a is at a place: the kind of place, its thread, the index.         *)
Here(o, a, k, s, i) ==
  \/ k = "runnext" /\ s \in LoopThreads /\ i = 0 /\ o.runnext[s] = a
  \/ k = "deque" /\ s \in LoopThreads /\ Entry(o.deque[s], a, i)
  \/ k = "global" /\ s = 0 /\ Entry(o.global, a, i)
  \/ k = "held" /\ s \in LoopThreads /\ i = 0 /\ o.held[s] = a /\ o.at[s] \notin Away
  \/ k = "woken" /\ s \in LoopThreads /\ i = 0 /\ o.to[s] = a /\ o.at[s] = "enqueue"
Nowhere(o, a) == \A k, s, i : ~Here(o, a, k, s, i)
Alone(o, a) ==
  \A k, l, s, t, i, j : Here(o, a, k, s, i) /\ Here(o, a, l, t, j) => k = l /\ s = t /\ i = j

LEMMA PlacesAreHere ==
  ASSUME NEW o, NEW a
  PROVE  /\ Q!PlacesIn(o, a) = {} <=> Nowhere(o, a)
         /\ Alone(o, a) => \A p, q \in Q!PlacesIn(o, a) : p = q
<1> DEFINE E(s) == {<<"deque", s, i>> : i \in {j \in DOMAIN o.deque[s] : o.deque[s][j] = a}}
           G == {<<"global", 0, i>> : i \in {j \in DOMAIN o.global : o.global[j] = a}}
           R == {<<"runnext", s, 0>> : s \in {t \in LoopThreads : o.runnext[t] = a}}
           U == UNION {E(s) : s \in LoopThreads}
           H == {<<"held", s, 0>> : s \in {t \in LoopThreads : o.held[t] = a /\ o.at[t] \notin Away}}
           W1 == {<<"woken", s, 0>> : s \in {t \in LoopThreads : o.to[t] = a /\ o.at[t] = "enqueue"}}
<1>1. Q!PlacesIn(o, a) = R \cup U \cup G \cup H \cup W1
  <2>1. Away = Q!Waiting \cup {"leave"}
    BY DEF Away, Q!Waiting
  <2> HIDE DEF Away
  <2> QED BY <2>1 DEF Q!PlacesIn, LoopThreads
<1>2. \A s, p : p \in E(s) <=> \E i : Entry(o.deque[s], a, i) /\ p = <<"deque", s, i>>
  BY DEF Entry
<1>3. \A p : p \in G <=> \E i : Entry(o.global, a, i) /\ p = <<"global", 0, i>>
  BY DEF Entry
<1>4. \A p : /\ p \in R <=> \E s \in LoopThreads : o.runnext[s] = a /\ p = <<"runnext", s, 0>>
             /\ p \in H <=> \E s \in LoopThreads : o.held[s] = a /\ o.at[s] \notin Away /\ p = <<"held", s, 0>>
             /\ p \in W1 <=> \E s \in LoopThreads : o.to[s] = a /\ o.at[s] = "enqueue" /\ p = <<"woken", s, 0>>
  OBVIOUS
<1> HIDE DEF E
<1>10. \A p : p \in U <=> \E s \in LoopThreads : p \in E(s)
  OBVIOUS
<1> HIDE DEF G, R, H, U, W1
<1>5. \A p : p \in Q!PlacesIn(o, a) <=> p \in R \/ (\E s \in LoopThreads : p \in E(s)) \/ p \in G \/ p \in H \/ p \in W1
  BY <1>1, <1>10
<1>6. \A k, s, i : Here(o, a, k, s, i) => <<k, s, i>> \in Q!PlacesIn(o, a)
  BY <1>2, <1>3, <1>4, <1>5 DEF Here
<1>7. ASSUME NEW p \in Q!PlacesIn(o, a)
      PROVE  \E k, s, i : p = <<k, s, i>> /\ Here(o, a, k, s, i)
  BY <1>2, <1>3, <1>4, <1>5 DEF Here
<1>8. Q!PlacesIn(o, a) = {} <=> Nowhere(o, a)
  BY <1>6, <1>7 DEF Nowhere
<1>9. ASSUME Alone(o, a), NEW p \in Q!PlacesIn(o, a), NEW q \in Q!PlacesIn(o, a) PROVE p = q
  BY <1>7, <1>9 DEF Alone
<1> QED BY <1>8, <1>9

(* A queue with one more at its end.                                        *)
LEMMA AppendEntries ==
  ASSUME NEW q \in Seq(RunActors), NEW x \in RunActors
  PROVE  /\ \A b, i : Entry(Append(q, x), b, i) <=> Entry(q, b, i) \/ (i = Len(q) + 1 /\ b = x)
         /\ \A b : ~Entry(q, b, Len(q) + 1)
<1>1. Len(q) \in Nat /\ DOMAIN q = 1 .. Len(q)
  BY LenProperties
<1>2. /\ DOMAIN Append(q, x) = 1 .. Len(q) + 1
      /\ \A i \in 1 .. Len(q) : Append(q, x)[i] = q[i]
      /\ Append(q, x)[Len(q) + 1] = x
  BY AppendProperties, LenProperties
<1> QED BY <1>1, <1>2 DEF Entry

(* The other actors stay where they are, or move on with what is around     *)
(* them.                                                                    *)
Undisturbed(o, r, b) == (Alone(o, b) => Alone(r, b)) /\ (Nowhere(r, b) <=> Nowhere(o, b))

(* Everything but the queues.                                               *)
QueuesOnly(o, r) ==
  /\ r.state = o.state /\ r.mail = o.mail /\ r.flag = o.flag /\ r.held = o.held /\ r.to = o.to /\ r.at = o.at
  /\ r.todo = o.todo
  /\ r.running = o.running /\ r.timer = o.timer
  /\ r.sent = o.sent /\ r.preempts = o.preempts /\ r.runs = o.runs

(* The queues after thread s has put actor a into the slot of thread h.     *)
Enqueuing(o, e, s, h, a) ==
  /\ e.runnext = [o.runnext EXCEPT ![h] = a]
  /\ e.deque = IF o.runnext[h] # Nil /\ s = h
               THEN [o.deque EXCEPT ![h] = Append(@, o.runnext[h])] ELSE o.deque
  /\ e.global = IF o.runnext[h] # Nil /\ s # h THEN Append(o.global, o.runnext[h]) ELSE o.global

LEMMA EnqueueFields ==
  ASSUME NEW o \in Loops, NEW s \in LoopThreads, NEW h \in LoopThreads, NEW a \in RunActors,
         NEW e, e = Q!sched_enqueue(o, s, h, a)
  PROVE  e \in Loops /\ QueuesOnly(o, e) /\ Enqueuing(o, e, s, h, a)
<1>1. o.runnext[h] \in RunActors \cup {Nil} /\ o.deque[h] \in Seq(RunActors) /\ o.global \in Seq(RunActors)
  BY DEF Loops
<1>2. [o.runnext EXCEPT ![h] = a] \in [LoopThreads -> RunActors \cup {Nil}]
  BY DEF Loops
<1>3. o.runnext[h] # Nil =>
        /\ [o.deque EXCEPT ![h] = Append(@, o.runnext[h])] \in [LoopThreads -> Seq(RunActors)]
        /\ Append(o.global, o.runnext[h]) \in Seq(RunActors)
  BY <1>1 DEF Loops
<1> QED BY <1>2, <1>3 DEF Loops, QueuesOnly, Enqueuing, Q!sched_enqueue

(* Of two configurations, the second has one more entry at the end of a queue. *)
OneMore(o, e, x, k, t, i) ==
  /\ k \in {"deque", "global"} /\ \A b \in RunActors : ~Here(o, b, k, t, i)
  /\ \A b \in RunActors : \A l \in {"deque", "global"} : \A u, j :
       Here(e, b, l, u, j) <=> Here(o, b, l, u, j) \/ (l = k /\ u = t /\ j = i /\ b = x)

LEMMA Enqueued ==
  ASSUME NEW o \in Loops, NEW s \in LoopThreads, NEW h \in LoopThreads, NEW a \in RunActors,
         NEW e, e = Q!sched_enqueue(o, s, h, a)
  PROVE  /\ ~Nowhere(e, a) /\ (Nowhere(o, a) => Alone(e, a))
         /\ \A b \in RunActors \ {a} : Undisturbed(o, e, b)
<1> DEFINE prev == o.runnext[h]
<1>1. /\ e \in Loops /\ QueuesOnly(o, e)
      /\ e.runnext = [o.runnext EXCEPT ![h] = a]
      /\ e.deque = IF o.runnext[h] # Nil /\ s = h
                   THEN [o.deque EXCEPT ![h] = Append(@, o.runnext[h])] ELSE o.deque
      /\ e.global = IF o.runnext[h] # Nil /\ s # h THEN Append(o.global, o.runnext[h]) ELSE o.global
  <2>1. e \in Loops /\ QueuesOnly(o, e) /\ Enqueuing(o, e, s, h, a)
    BY EnqueueFields
  <2> QED BY <2>1 DEF Enqueuing
<1>2. /\ o.runnext \in [LoopThreads -> RunActors \cup {Nil}]
      /\ o.deque \in [LoopThreads -> Seq(RunActors)] /\ o.global \in Seq(RunActors)
  BY DEF Loops
<1>3. ASSUME NEW b \in RunActors
      PROVE  /\ \A t, i : Here(e, b, "held", t, i) <=> Here(o, b, "held", t, i)
             /\ \A t, i : Here(e, b, "woken", t, i) <=> Here(o, b, "woken", t, i)
             /\ \A t, i : Here(e, b, "runnext", t, i)
                            <=> IF t = h THEN i = 0 /\ b = a ELSE Here(o, b, "runnext", t, i)
             /\ \A k, t, i : Here(e, b, k, t, i) => k \in {"runnext", "deque", "global", "held", "woken"}
  BY <1>1, <1>2 DEF Here, QueuesOnly
<1>4. \A b \in RunActors : Here(o, b, "runnext", h, 0) <=> b = prev
  BY <1>2 DEF Here
(* What was in the slot is at the end of a queue.                           *)
<1>5. \E k, t, i : OneMore(o, e, prev, k, t, i)
  <2>1. CASE prev = Nil
    <3>1. \A b \in RunActors : b # prev
      BY <2>1, LoopAssumption
    <3>2. \A b \in RunActors : ~Here(o, b, "global", 0, 0)
      <4>1. DOMAIN o.global = 1 .. Len(o.global)
        BY <1>2, LenProperties
      <4> QED BY <4>1 DEF Here, Entry
    <3>3. e.deque = o.deque /\ e.global = o.global
      BY <1>1, <2>1
    <3>4. \A b \in RunActors : \A k \in {"deque", "global"} : \A t, i : Here(e, b, k, t, i) <=> Here(o, b, k, t, i)
      BY <3>3 DEF Here
    <3> HIDE DEF prev
    <3>5. OneMore(o, e, prev, "global", 0, 0)
      BY <3>1, <3>2, <3>4 DEF OneMore
    <3> QED BY <3>5
  <2>2. CASE prev # Nil /\ s = h
    <3>1. prev \in RunActors /\ o.deque[h] \in Seq(RunActors)
      BY <1>2, <2>2
    <3>2. \A t \in LoopThreads : e.deque[t] = IF t = h THEN Append(o.deque[h], prev) ELSE o.deque[t]
      BY <1>1, <1>2, <2>2
    <3> HIDE DEF prev
    <3>6. \A b, i : Entry(Append(o.deque[h], prev), b, i)
                      <=> Entry(o.deque[h], b, i) \/ (i = Len(o.deque[h]) + 1 /\ b = prev)
      BY <3>1, AppendEntries
    <3>3. \A b, t, i :
           Here(e, b, "deque", t, i) <=> Here(o, b, "deque", t, i) \/ (t = h /\ i = Len(o.deque[h]) + 1 /\ b = prev)
      BY <3>2, <3>6 DEF Here
    <3>4. \A b : ~Here(o, b, "deque", h, Len(o.deque[h]) + 1)
      BY <3>1, AppendEntries DEF Here
    <3>5. \A b, t, i : Here(e, b, "global", t, i) <=> Here(o, b, "global", t, i)
      BY <1>1, <2>2 DEF Here
    <3>7. \A b \in RunActors : \A k \in {"deque", "global"} : \A t, i :
             Here(e, b, k, t, i) <=> \/ Here(o, b, k, t, i)
                                     \/ k = "deque" /\ t = h /\ i = Len(o.deque[h]) + 1 /\ b = prev
      BY <3>3, <3>5
    <3>8. OneMore(o, e, prev, "deque", h, Len(o.deque[h]) + 1)
      BY <3>4, <3>7 DEF OneMore
    <3> QED BY <3>8
  <2>3. CASE prev # Nil /\ s # h
    <3>1. prev \in RunActors /\ o.global \in Seq(RunActors)
      BY <1>2, <2>3
    <3>2. e.global = Append(o.global, prev)
      BY <1>1, <2>3
    <3> HIDE DEF prev
    <3>6. \A b, i : Entry(Append(o.global, prev), b, i)
                      <=> Entry(o.global, b, i) \/ (i = Len(o.global) + 1 /\ b = prev)
      BY <3>1, AppendEntries
    <3>3. \A b, t, i :
           Here(e, b, "global", t, i) <=> Here(o, b, "global", t, i) \/ (t = 0 /\ i = Len(o.global) + 1 /\ b = prev)
      BY <3>2, <3>6 DEF Here
    <3>4. \A b : ~Here(o, b, "global", 0, Len(o.global) + 1)
      BY <3>1, AppendEntries DEF Here
    <3>5. \A b, t, i : Here(e, b, "deque", t, i) <=> Here(o, b, "deque", t, i)
      BY <1>1, <2>3 DEF Here
    <3>7. \A b \in RunActors : \A k \in {"deque", "global"} : \A t, i :
             Here(e, b, k, t, i) <=> \/ Here(o, b, k, t, i)
                                     \/ k = "global" /\ t = 0 /\ i = Len(o.global) + 1 /\ b = prev
      BY <3>3, <3>5
    <3>8. OneMore(o, e, prev, "global", 0, Len(o.global) + 1)
      BY <3>4, <3>7 DEF OneMore
    <3> QED BY <3>8
  <2> QED BY <2>1, <2>2, <2>3
<1>6. PICK K, T, N : OneMore(o, e, prev, K, T, N)
  BY <1>5
<1> HIDE DEF prev
<1>7. ASSUME NEW b \in RunActors \ {a}, NEW k, NEW t, NEW i, Here(e, b, k, t, i)
      PROVE  \/ Here(o, b, k, t, i) /\ ~(k = "runnext" /\ t = h)
             \/ k = K /\ t = T /\ i = N /\ b = prev
  BY <1>3, <1>6, <1>7 DEF OneMore
<1>8. ASSUME NEW b \in RunActors \ {a}, NEW k, NEW t, NEW i, Here(o, b, k, t, i)
      PROVE  ~Nowhere(e, b)
  <2>1. CASE k = "runnext" /\ t = h
    <3>1. b = prev
      BY <1>2, <1>8, <2>1 DEF Here, prev
    <3> QED BY <1>6, <3>1 DEF OneMore, Nowhere
  <2>2. CASE ~(k = "runnext" /\ t = h)
    <3>1. k \in {"runnext", "deque", "global", "held", "woken"}
      BY <1>8 DEF Here
    <3>2. Here(e, b, k, t, i)
      BY <1>3, <1>6, <1>8, <2>2, <3>1 DEF OneMore
    <3> QED BY <3>2 DEF Nowhere
  <2> QED BY <2>1, <2>2
<1>9. ASSUME NEW b \in RunActors \ {a} PROVE Undisturbed(o, e, b)
  <2>1. Nowhere(o, b) => Nowhere(e, b)
    BY <1>4, <1>7 DEF Nowhere
  <2>2. Nowhere(e, b) => Nowhere(o, b)
    BY <1>8 DEF Nowhere
  <2>3. Alone(o, b) => Alone(e, b)
    BY <1>4, <1>6, <1>7 DEF Alone, OneMore
  <2> QED BY <2>1, <2>2, <2>3 DEF Undisturbed
<1>10. Here(e, a, "runnext", h, 0)
  BY <1>3
<1>11. ASSUME Nowhere(o, a) PROVE Alone(e, a)
  <2>1. a # prev
    BY <1>4, <1>11 DEF Nowhere
  <2>2. \A k, t, i : Here(e, a, k, t, i) => k = "runnext" /\ t = h /\ i = 0
    BY <1>3, <1>6, <1>11, <2>1 DEF OneMore, Nowhere
  <2> QED BY <2>2 DEF Alone
<1> QED BY <1>9, <1>10, <1>11 DEF Nowhere

-----------------------------------------------------------------------------
(* Taking an actor out of a queue *)

LEMMA TailEntries ==
  ASSUME NEW q \in Seq(RunActors), q # <<>>
  PROVE  /\ Tail(q) \in Seq(RunActors) /\ Head(q) \in RunActors /\ Head(q) = q[1]
         /\ Len(q) \in Nat /\ Len(q) >= 1 /\ Len(Tail(q)) = Len(q) - 1
         /\ \A b, i : Entry(Tail(q), b, i) <=> i \in Nat /\ i >= 1 /\ Entry(q, b, i + 1)
         /\ \A b, i : Entry(q, b, i) => i \in 1 .. Len(q)
         /\ Entry(q, Head(q), 1)
<1>1. /\ Len(q) \in Nat /\ DOMAIN q = 1 .. Len(q) /\ Len(q) >= 1
      /\ Tail(q) \in Seq(RunActors) /\ Head(q) = q[1]
  BY LenProperties, EmptySeq, HeadTailProperties
<1>2. /\ Len(Tail(q)) = Len(q) - 1 /\ \A i \in 1 .. Len(q) - 1 : Tail(q)[i] = q[i + 1]
  BY HeadTailProperties
<1>3. DOMAIN Tail(q) = 1 .. Len(q) - 1
  BY <1>1, <1>2, LenProperties
<1>4. q[1] \in RunActors
  BY <1>1, ElementOfSeq
<1> QED BY <1>1, <1>2, <1>3, <1>4 DEF Entry

LEMMA Section ==
  ASSUME NEW q, NEW m \in Nat, NEW n \in Nat, m >= 1, n >= m - 1, \A i \in m .. n : q[i] \in RunActors
  PROVE  /\ SubSeq(q, m, n) \in Seq(RunActors) /\ Len(SubSeq(q, m, n)) = n - m + 1
         /\ \A i \in 1 .. n - m + 1 : SubSeq(q, m, n)[i] = q[m - 1 + i]
<1>1. PICK f : f = SubSeq(q, m, n)
  OBVIOUS
<1>2. /\ f \in Seq(RunActors) /\ Len(f) = IF m <= n THEN n - m + 1 ELSE 0
      /\ \A i \in 1 .. n - m + 1 : f[i] = q[m + i - 1]
  BY <1>1, SubSeqProperties
<1>3. n - m + 1 = IF m <= n THEN n - m + 1 ELSE 0
  OBVIOUS
<1>4. \A i \in 1 .. n - m + 1 : m + i - 1 = m - 1 + i
  OBVIOUS
<1> QED BY <1>1, <1>2, <1>3, <1>4

LEMMA FrontEntries ==
  ASSUME NEW q \in Seq(RunActors), q # <<>>
  PROVE  /\ Q!Front(q) \in Seq(RunActors) /\ Q!Last(q) \in RunActors
         /\ \A b, i : Entry(Q!Front(q), b, i) <=> Entry(q, b, i) /\ i # Len(q)
         /\ \A b : Entry(q, b, Len(q)) <=> b = Q!Last(q)
<1>1. Len(q) \in Nat /\ DOMAIN q = 1 .. Len(q) /\ Len(q) >= 1
  BY LenProperties, EmptySeq
<1>2. Q!Front(q) = SubSeq(q, 1, Len(q) - 1) /\ Q!Last(q) = q[Len(q)]
  BY DEF Q!Front, Q!Last
<1>3. /\ Q!Front(q) \in Seq(RunActors) /\ Len(Q!Front(q)) = Len(q) - 1
      /\ \A i \in 1 .. Len(q) - 1 : Q!Front(q)[i] = q[i]
  <2>1. \A i \in 1 .. Len(q) - 1 : q[i] \in RunActors /\ 1 - 1 + i = i
    BY <1>1, ElementOfSeq
  <2>2. /\ Q!Front(q) \in Seq(RunActors) /\ Len(Q!Front(q)) = Len(q) - 1 - 1 + 1
        /\ \A i \in 1 .. Len(q) - 1 - 1 + 1 : Q!Front(q)[i] = q[1 - 1 + i]
    BY <1>1, <1>2, <2>1, Section
  <2>3. Len(q) - 1 - 1 + 1 = Len(q) - 1
    BY <1>1
  <2> QED BY <2>1, <2>2, <2>3
<1>4. DOMAIN Q!Front(q) = 1 .. Len(q) - 1
  BY <1>3, LenProperties
<1>5. q[Len(q)] \in RunActors
  BY <1>1, ElementOfSeq
<1> QED BY <1>1, <1>2, <1>3, <1>4, <1>5 DEF Entry

(* sched_try_steal: the first, half of the others, and what is left.        *)
LEMMA StolenEntries ==
  ASSUME NEW q \in Seq(RunActors), q # <<>>, NEW d \in Seq(RunActors),
         NEW half, half = Len(Tail(q)) \div 2
  PROVE  /\ half \in Nat /\ half <= Len(q) - 1
         /\ SubSeq(Tail(q), half + 1, Len(Tail(q))) \in Seq(RunActors)
         /\ d \o SubSeq(Tail(q), 1, half) \in Seq(RunActors)
         /\ \A b, i : Entry(SubSeq(Tail(q), half + 1, Len(Tail(q))), b, i)
                       <=> i \in Nat /\ i >= 1 /\ Entry(q, b, i + half + 1)
         /\ \A b, i : Entry(d \o SubSeq(Tail(q), 1, half), b, i)
                       <=> \/ Entry(d, b, i)
                           \/ i \in Len(d) + 1 .. Len(d) + half /\ Entry(q, b, i - Len(d) + 1)
<1> DEFINE t == Tail(q)
           n == Len(t)
           kept == SubSeq(t, half + 1, n)
           got == SubSeq(t, 1, half)
<1>1. /\ t \in Seq(RunActors) /\ Len(q) \in Nat /\ Len(q) >= 1 /\ n = Len(q) - 1
      /\ \A b, i : Entry(t, b, i) <=> i \in Nat /\ i >= 1 /\ Entry(q, b, i + 1)
  BY TailEntries
<1>2. n \in Nat /\ DOMAIN t = 1 .. n /\ Len(d) \in Nat /\ DOMAIN d = 1 .. Len(d)
  BY <1>1, LenProperties
<1>3. \A i \in 1 .. n : t[i] \in RunActors
  BY <1>1, ElementOfSeq
<1> HIDE DEF t, n
<1>4. half \in Nat /\ half <= n
  <2>1. half = n \div 2
    BY DEF n, t
  <2> QED BY <1>2, <2>1
<1>5. kept \in Seq(RunActors) /\ Len(kept) = n - half /\ \A i \in 1 .. n - half : kept[i] = t[half + i]
  <2>1. PICK m \in Nat : m = half + 1
    BY <1>4
  <2>2. m >= 1 /\ n >= m - 1 /\ \A i \in m .. n : t[i] \in RunActors
    BY <1>2, <1>3, <1>4, <2>1
  <2>3. /\ SubSeq(t, m, n) \in Seq(RunActors) /\ Len(SubSeq(t, m, n)) = n - m + 1
        /\ \A i \in 1 .. n - m + 1 : SubSeq(t, m, n)[i] = t[m - 1 + i]
    BY <1>2, <2>2, Section
  <2>4. n - m + 1 = n - half /\ m - 1 = half /\ kept = SubSeq(t, m, n)
    BY <1>2, <1>4, <2>1
  <2> HIDE DEF kept
  <2> QED BY <2>3, <2>4
<1>6. got \in Seq(RunActors) /\ Len(got) = half /\ \A i \in 1 .. half : got[i] = t[i]
  <2>1. \A i \in 1 .. half : t[i] \in RunActors /\ 1 - 1 + i = i
    BY <1>2, <1>3, <1>4
  <2>2. /\ got \in Seq(RunActors) /\ Len(got) = half - 1 + 1
        /\ \A i \in 1 .. half - 1 + 1 : got[i] = t[1 - 1 + i]
    BY <1>4, <2>1, Section
  <2>3. half - 1 + 1 = half
    BY <1>4
  <2> QED BY <2>1, <2>2, <2>3
<1> HIDE DEF kept, got
<1>7. DOMAIN kept = 1 .. n - half
  BY <1>5, LenProperties
<1>8. \A b, i : Entry(kept, b, i) <=> i \in 1 .. n - half /\ t[half + i] = b
  BY <1>5, <1>7 DEF Entry
<1>9. ASSUME NEW b, NEW i PROVE Entry(kept, b, i) <=> i \in Nat /\ i >= 1 /\ Entry(q, b, i + half + 1)
  <2>1. CASE i \in Nat /\ i >= 1
    <3>1. Entry(q, b, i + half + 1) <=> Entry(t, b, half + i)
      BY SMTT(40), <1>1, <1>4, <2>1
    <3>2. Entry(t, b, half + i) <=> half + i \in 1 .. n /\ t[half + i] = b
      BY <1>2 DEF Entry
    <3> QED BY <1>2, <1>4, <1>8, <2>1, <3>1, <3>2
  <2> QED BY <1>2, <1>4, <1>8, <2>1
<1>13. /\ d \o got \in Seq(RunActors) /\ Len(d \o got) = Len(d) + Len(got)
       /\ \A i \in 1 .. Len(d) + Len(got) : (d \o got)[i] = IF i <= Len(d) THEN d[i] ELSE got[i - Len(d)]
  BY <1>6, ConcatProperties
<1>10. /\ d \o got \in Seq(RunActors) /\ Len(d \o got) = Len(d) + half
       /\ \A i \in 1 .. Len(d) + half : (d \o got)[i] = IF i <= Len(d) THEN d[i] ELSE got[i - Len(d)]
  BY <1>6, <1>13
<1>11. DOMAIN (d \o got) = 1 .. Len(d) + half
  BY <1>10, LenProperties
<1>12. ASSUME NEW b, NEW i
       PROVE  Entry(d \o got, b, i) <=> \/ Entry(d, b, i)
                                        \/ i \in Len(d) + 1 .. Len(d) + half /\ Entry(q, b, i - Len(d) + 1)
  <2>1. CASE i \in 1 .. Len(d)
    BY <1>2, <1>4, <1>10, <1>11, <2>1 DEF Entry
  <2>2. CASE i \in Len(d) + 1 .. Len(d) + half
    <3>1. i - Len(d) \in 1 .. half /\ i - Len(d) \in Nat
      BY <1>2, <1>4, <2>2
    <3>2. (d \o got)[i] = t[i - Len(d)] /\ i \in 1 .. Len(d) + half /\ i \notin 1 .. Len(d)
      BY <1>2, <1>4, <1>6, <1>10, <2>2, <3>1
    <3>3. Entry(q, b, i - Len(d) + 1) <=> Entry(t, b, i - Len(d))
      BY <1>1, <3>1
    <3>4. Entry(t, b, i - Len(d)) <=> t[i - Len(d)] = b
      BY <1>2, <1>4, <3>1 DEF Entry
    <3> QED BY <1>2, <1>11, <2>2, <3>2, <3>3, <3>4 DEF Entry
  <2>3. CASE i \notin 1 .. Len(d) + half
    BY <1>2, <1>4, <1>11, <2>3 DEF Entry
  <2> QED BY <1>2, <1>4, <2>1, <2>2, <2>3
<1> QED BY <1>1, <1>4, <1>5, <1>9, <1>10, <1>12 DEF kept, got, n, t

(* Actor a has been taken out of the queues.                                *)
Taking(o, r, a) ==
  /\ r \in Loops /\ QueuesOnly(o, r) /\ a \in RunActors
  /\ ~Nowhere(o, a) /\ (Alone(o, a) => Nowhere(r, a))
  /\ \A b \in RunActors \ {a} : Undisturbed(o, r, b)

(* One place has become free, and nobody has moved.                         *)
LEMMA OneLess ==
  ASSUME NEW o, NEW r \in Loops, QueuesOnly(o, r), NEW a \in RunActors, NEW K, NEW T, NEW N,
         \A b \in RunActors : \A k, t, i :
           Here(r, b, k, t, i) <=> Here(o, b, k, t, i) /\ ~(k = K /\ t = T /\ i = N),
         \A b \in RunActors : Here(o, b, K, T, N) <=> b = a
  PROVE  Taking(o, r, a)
<1>1. ~Nowhere(o, a) /\ (Alone(o, a) => Nowhere(r, a))
  BY DEF Nowhere, Alone
<1>2. ASSUME NEW b \in RunActors \ {a} PROVE Undisturbed(o, r, b)
  BY DEF Undisturbed, Nowhere, Alone
<1> QED BY <1>1, <1>2 DEF Taking

(* The four sources of Q!Sources: runnext, the own deque, the global queue  *)
(* and, after them, another deque.                                          *)
LEMMA OwnTaken ==
  ASSUME NEW o \in Loops, NEW s \in LoopThreads, NEW p \in Q!Own(o, s)
  PROVE  Taking(o, p[2], p[1])
<1>1. /\ o.runnext[s] # Nil /\ p[1] = o.runnext[s] /\ p[2] = [o EXCEPT !.runnext[s] = Nil]
  BY DEF Q!Own
<1>2. /\ p[1] \in RunActors /\ p[2] \in Loops /\ QueuesOnly(o, p[2])
      /\ p[2].runnext = [o.runnext EXCEPT ![s] = Nil] /\ p[2].deque = o.deque /\ p[2].global = o.global
  <2>1. o.runnext[s] \in RunActors /\ [o.runnext EXCEPT ![s] = Nil] \in [LoopThreads -> RunActors \cup {Nil}]
    BY <1>1 DEF Loops
  <2> QED BY <1>1, <2>1 DEF Loops, QueuesOnly
<1>3. o.runnext \in [LoopThreads -> RunActors \cup {Nil}]
  BY DEF Loops
<1>4. \A b \in RunActors : b # Nil
  BY LoopAssumption
<1>5. \A b \in RunActors : \A k, t, i :
        Here(p[2], b, k, t, i) <=> Here(o, b, k, t, i) /\ ~(k = "runnext" /\ t = s /\ i = 0)
  BY <1>2, <1>3, <1>4 DEF Here, QueuesOnly
<1>6. \A b \in RunActors : Here(o, b, "runnext", s, 0) <=> b = p[1]
  BY <1>1 DEF Here
<1> QED BY <1>2, <1>5, <1>6, OneLess

LEMMA PoppedTaken ==
  ASSUME NEW o \in Loops, NEW s \in LoopThreads, NEW p \in Q!Popped(o, s)
  PROVE  Taking(o, p[2], p[1])
<1> DEFINE q == o.deque[s]
<1>1. q # <<>> /\ p[1] = Q!Last(q) /\ p[2] = [o EXCEPT !.deque[s] = Q!Front(@)]
  BY DEF Q!Popped
<1>2. q \in Seq(RunActors) /\ o.deque \in [LoopThreads -> Seq(RunActors)]
  BY DEF Loops
<1>3. /\ Q!Front(q) \in Seq(RunActors) /\ Q!Last(q) \in RunActors
      /\ \A b, i : Entry(Q!Front(q), b, i) <=> Entry(q, b, i) /\ i # Len(q)
      /\ \A b : Entry(q, b, Len(q)) <=> b = Q!Last(q)
  BY <1>1, <1>2, FrontEntries
<1>4. /\ p[1] \in RunActors /\ p[2] \in Loops /\ QueuesOnly(o, p[2])
      /\ p[2].deque = [o.deque EXCEPT ![s] = Q!Front(q)]
      /\ p[2].runnext = o.runnext /\ p[2].global = o.global
  <2>1. [o.deque EXCEPT ![s] = Q!Front(@)] \in [LoopThreads -> Seq(RunActors)]
    BY <1>2, <1>3
  <2> QED BY <1>1, <1>3, <2>1 DEF Loops, QueuesOnly
<1>5. \A t \in LoopThreads : p[2].deque[t] = IF t = s THEN Q!Front(q) ELSE o.deque[t]
  BY <1>2, <1>4
<1>6. \A b \in RunActors : \A k, t, i :
        Here(p[2], b, k, t, i) <=> Here(o, b, k, t, i) /\ ~(k = "deque" /\ t = s /\ i = Len(q))
  BY <1>3, <1>4, <1>5 DEF Here, QueuesOnly
<1>7. \A b \in RunActors : Here(o, b, "deque", s, Len(q)) <=> b = p[1]
  BY <1>1, <1>3 DEF Here
<1> HIDE DEF q
<1> QED BY <1>4, <1>6, <1>7, OneLess

LEMMA GlobalTaken ==
  ASSUME NEW o \in Loops, NEW p \in Q!FromGlobal(o)
  PROVE  Taking(o, p[2], p[1])
<1> DEFINE q == o.global
<1>1. q # <<>> /\ p[1] = Head(q) /\ p[2] = [o EXCEPT !.global = Tail(@)]
  BY SMTT(30) DEF Q!FromGlobal
<1>2. q \in Seq(RunActors)
  BY DEF Loops
<1>3. /\ Tail(q) \in Seq(RunActors) /\ Head(q) \in RunActors /\ Head(q) = q[1] /\ Len(q) \in Nat
      /\ \A b, i : Entry(Tail(q), b, i) <=> i \in Nat /\ i >= 1 /\ Entry(q, b, i + 1)
      /\ \A b, i : Entry(q, b, i) => i \in 1 .. Len(q)
      /\ Entry(q, Head(q), 1)
  BY <1>1, <1>2, TailEntries
<1>4. /\ p[1] \in RunActors /\ p[2] \in Loops /\ QueuesOnly(o, p[2])
      /\ p[2].global = Tail(q) /\ p[2].runnext = o.runnext /\ p[2].deque = o.deque
  BY <1>1, <1>3 DEF Loops, QueuesOnly
<1>5. \A b, k, t, i : k # "global" => (Here(p[2], b, k, t, i) <=> Here(o, b, k, t, i))
  BY <1>4 DEF Here, QueuesOnly
<1>6. /\ \A b, t, i : Here(p[2], b, "global", t, i)
                        <=> i \in Nat /\ i >= 1 /\ Here(o, b, "global", t, i + 1)
      /\ \A b, t, i : Here(o, b, "global", t, i) => t = 0 /\ i \in Nat /\ i >= 1
      /\ \A b : Here(o, b, "global", 0, 1) <=> b = p[1]
  BY <1>1, <1>3, <1>4 DEF Here, Entry
<1> HIDE DEF q
<1>7. ~Nowhere(o, p[1])
  BY <1>6 DEF Nowhere
<1>8. ASSUME Alone(o, p[1]) PROVE Nowhere(p[2], p[1])
  <2>1. \A k, t, i : Here(o, p[1], k, t, i) => k = "global" /\ t = 0 /\ i = 1
    BY <1>6, <1>8 DEF Alone
  <2> QED BY <1>5, <1>6, <2>1 DEF Nowhere
<1>9. ASSUME NEW b \in RunActors \ {p[1]} PROVE Undisturbed(o, p[2], b)
  <2>1. \A t, i : Here(o, b, "global", t, i) => i - 1 \in Nat /\ i - 1 >= 1 /\ (i - 1) + 1 = i
    BY <1>6
  <2>2. Nowhere(p[2], b) => Nowhere(o, b)
    BY <1>5, <1>6, <2>1 DEF Nowhere
  <2>3. Nowhere(o, b) => Nowhere(p[2], b)
    BY <1>5, <1>6 DEF Nowhere
  <2>4. Alone(o, b) => Alone(p[2], b)
    BY <1>5, <1>6 DEF Alone
  <2> QED BY <2>2, <2>3, <2>4 DEF Undisturbed
<1> QED BY <1>4, <1>7, <1>8, <1>9 DEF Taking

LEMMA StolenTaken ==
  ASSUME NEW o \in Loops, NEW s \in LoopThreads, NEW p \in Q!Stolen(o, s)
  PROVE  Taking(o, p[2], p[1])
<1>1. PICK v \in LoopThreads \ {s} :
        LET rest == Tail(o.deque[v])
            half == Len(rest) \div 2
        IN  /\ o.deque[v] # <<>>
            /\ p = <<Head(o.deque[v]), [o EXCEPT !.deque[v] = SubSeq(rest, half + 1, Len(rest)),
                                                 !.deque[s] = @ \o SubSeq(rest, 1, half)]>>
  <2> DEFINE Theft(v) == LET rest == Tail(o.deque[v])
                             half == Len(rest) \div 2
                         IN  <<Head(o.deque[v]), [o EXCEPT !.deque[v] = SubSeq(rest, half + 1, Len(rest)),
                                                           !.deque[s] = @ \o SubSeq(rest, 1, half)]>>
             victims == {w \in LoopThreads \ {s} : o.deque[w] # <<>>}
  <2>1. p \in {Theft(v) : v \in victims}
    BY ZenonT(40) DEF Q!Stolen, LoopThreads
  <2> HIDE DEF Theft
  <2>2. PICK v \in victims : p = Theft(v)
    BY <2>1
  <2>3. v \in LoopThreads \ {s} /\ o.deque[v] # <<>>
    BY <2>2
  <2> HIDE DEF victims
  <2> QED BY ZenonT(40), <2>2, <2>3 DEF Theft
<1> DEFINE q == o.deque[v]
           d == o.deque[s]
<1>2. q \in Seq(RunActors) /\ d \in Seq(RunActors) /\ o.deque \in [LoopThreads -> Seq(RunActors)]
  BY DEF Loops
<1>3. PICK half : half = Len(Tail(q)) \div 2
  OBVIOUS
<1>4. PICK kept, got : kept = SubSeq(Tail(q), half + 1, Len(Tail(q))) /\ got = d \o SubSeq(Tail(q), 1, half)
  OBVIOUS
<1>5. /\ half \in Nat /\ kept \in Seq(RunActors) /\ got \in Seq(RunActors)
      /\ \A b, i : Entry(kept, b, i) <=> i \in Nat /\ i >= 1 /\ Entry(q, b, i + half + 1)
      /\ \A b, i : Entry(got, b, i)
                     <=> \/ Entry(d, b, i)
                         \/ i \in Len(d) + 1 .. Len(d) + half /\ Entry(q, b, i - Len(d) + 1)
  BY <1>1, <1>2, <1>3, <1>4, StolenEntries
<1>6. /\ Head(q) \in RunActors /\ Entry(q, Head(q), 1) /\ \A b, i : Entry(q, b, i) => i \in Nat /\ i >= 1
      /\ \A b : Entry(q, b, 1) => b = Head(q)
  BY <1>1, <1>2, TailEntries DEF Entry
<1>7. Len(d) \in Nat /\ \A b, i : Entry(d, b, i) => i \in 1 .. Len(d)
  BY <1>2, LenProperties DEF Entry
<1>8. p[1] = Head(q) /\ p[2] = [o EXCEPT !.deque = [[o.deque EXCEPT ![v] = kept] EXCEPT ![s] = got]]
  BY <1>1, <1>2, <1>3, <1>4 DEF Loops
<1>9. [[o.deque EXCEPT ![v] = kept] EXCEPT ![s] = got] \in [LoopThreads -> Seq(RunActors)]
  BY <1>2, <1>5
<1>10. /\ p[2] \in Loops /\ QueuesOnly(o, p[2]) /\ p[2].runnext = o.runnext /\ p[2].global = o.global
       /\ p[2].deque = [[o.deque EXCEPT ![v] = kept] EXCEPT ![s] = got]
  BY <1>8, <1>9 DEF Loops, QueuesOnly
<1>11. \A t \in LoopThreads : p[2].deque[t] = CASE t = v -> kept [] t = s -> got [] OTHER -> o.deque[t]
  BY <1>1, <1>2, <1>10
<1> HIDE DEF q, d
<1>12. /\ \A b, k, t, i : k # "deque" \/ t \notin {v, s} => (Here(p[2], b, k, t, i) <=> Here(o, b, k, t, i))
       /\ \A b, i : Here(p[2], b, "deque", v, i) <=> Entry(kept, b, i)
       /\ \A b, i : Here(p[2], b, "deque", s, i) <=> Entry(got, b, i)
       /\ \A b, i : Here(o, b, "deque", v, i) <=> Entry(q, b, i)
       /\ \A b, i : Here(o, b, "deque", s, i) <=> Entry(d, b, i)
  BY <1>10, <1>11 DEF Here, QueuesOnly, q, d
<1>13. v # s
  OBVIOUS
<1>14. ~Nowhere(o, p[1])
  BY <1>6, <1>8, <1>12 DEF Nowhere, q
(* Where the entry at a place comes from.                                   *)
<1>15. ASSUME NEW b, NEW k, NEW t, NEW i, Here(p[2], b, k, t, i)
       PROVE  \/ Here(o, b, k, t, i) /\ ~(k = "deque" /\ t = v)
              \/ k = "deque" /\ t = v /\ i \in Nat /\ i >= 1 /\ Here(o, b, "deque", v, i + half + 1)
              \/ /\ k = "deque" /\ t = s /\ i \in Len(d) + 1 .. Len(d) + half
                 /\ Here(o, b, "deque", v, i - Len(d) + 1)
  <2>1. CASE k # "deque" \/ t \notin {v, s}
    BY <1>12, <1>15, <2>1
  <2>2. CASE k = "deque" /\ t = v
    BY <1>5, <1>12, <1>15, <2>2
  <2>3. CASE k = "deque" /\ t = s
    BY <1>5, <1>12, <1>13, <1>15, <2>3
  <2> QED BY <2>1, <2>2, <2>3
(* And where it goes.                                                       *)
<1>16. ASSUME NEW b, NEW k, NEW t, NEW i, Here(o, b, k, t, i), Nowhere(p[2], b)
       PROVE  k = "deque" /\ t = v /\ i = 1
  <2>1. k = "deque" /\ t \in {v, s}
    BY <1>12, <1>16 DEF Nowhere
  <2>2. t # s
    BY <1>5, <1>12, <1>16, <2>1 DEF Nowhere
  <2>3. Entry(q, b, i) /\ i \in Nat /\ i >= 1
    BY <1>6, <1>12, <1>16, <2>1, <2>2
  <2>4. ~(i >= half + 2)
    <3>1. ASSUME i >= half + 2 PROVE FALSE
      <4>1. i - half - 1 \in Nat /\ i - half - 1 >= 1 /\ (i - half - 1) + half + 1 = i
        BY <1>5, <2>3, <3>1
      <4>2. Entry(kept, b, i - half - 1)
        BY <1>5, <2>3, <4>1
      <4> QED BY <1>12, <1>16, <4>2 DEF Nowhere
    <3> QED BY <3>1
  <2>5. ~(i >= 2 /\ i <= half + 1)
    <3>1. ASSUME i >= 2, i <= half + 1 PROVE FALSE
      <4>1. /\ i - 1 + Len(d) \in Len(d) + 1 .. Len(d) + half
            /\ (i - 1 + Len(d)) - Len(d) + 1 = i
        BY <1>5, <1>7, <2>3, <3>1
      <4>2. Entry(got, b, i - 1 + Len(d))
        BY <1>5, <2>3, <4>1
      <4> QED BY <1>12, <1>16, <4>2 DEF Nowhere
    <3> QED BY <3>1
  <2> QED BY <1>5, <2>1, <2>2, <2>3, <2>4, <2>5
<1>17. \A b, i : Here(o, b, "deque", s, i) => i \in 1 .. Len(d)
  BY <1>7, <1>12
<1>18. ASSUME Alone(o, p[1]) PROVE Nowhere(p[2], p[1])
  <2>1. Here(o, p[1], "deque", v, 1)
    BY <1>6, <1>8, <1>12 DEF q
  <2>2. \A k, t, i : Here(o, p[1], k, t, i) => k = "deque" /\ t = v /\ i = 1
    BY <1>18, <2>1 DEF Alone
  <2>3. ASSUME NEW k, NEW t, NEW i, Here(p[2], p[1], k, t, i) PROVE FALSE
    <3>1. CASE Here(o, p[1], k, t, i) /\ ~(k = "deque" /\ t = v)
      BY <2>2, <3>1
    <3>2. CASE i \in Nat /\ i >= 1 /\ Here(o, p[1], "deque", v, i + half + 1)
      <4>1. i + half + 1 = 1
        BY <2>2, <3>2
      <4> QED BY <1>5, <3>2, <4>1
    <3>3. CASE i \in Len(d) + 1 .. Len(d) + half /\ Here(o, p[1], "deque", v, i - Len(d) + 1)
      <4>1. i - Len(d) + 1 = 1
        BY <2>2, <3>3
      <4> QED BY <1>5, <1>7, <3>3, <4>1
    <3> QED BY <1>15, <2>3, <3>1, <3>2, <3>3
  <2> QED BY <2>3 DEF Nowhere
<1>19. ASSUME NEW b \in RunActors \ {p[1]} PROVE Undisturbed(o, p[2], b)
  <2>1. Nowhere(o, b) => Nowhere(p[2], b)
    BY <1>15 DEF Nowhere
  <2>2. ASSUME Nowhere(p[2], b) PROVE Nowhere(o, b)
    <3>1. \A k, t, i : Here(o, b, k, t, i) => k = "deque" /\ t = v /\ i = 1
      BY <1>16, <2>2
    <3>2. ~Here(o, b, "deque", v, 1)
      BY <1>6, <1>8, <1>12 DEF q
    <3> QED BY <3>1, <3>2 DEF Nowhere
  <2>3. ASSUME Alone(o, b), NEW k, NEW l, NEW t, NEW u, NEW i, NEW j,
               Here(p[2], b, k, t, i), Here(p[2], b, l, u, j)
        PROVE  k = l /\ t = u /\ i = j
    <3>1. PICK i0 : \/ Here(o, b, k, t, i) /\ ~(k = "deque" /\ t = v)
                    \/ /\ Here(o, b, "deque", v, i0) /\ k = "deque" /\ t = v
                       /\ i \in Nat /\ i >= 1 /\ i0 = i + half + 1
                    \/ /\ Here(o, b, "deque", v, i0) /\ k = "deque" /\ t = s
                       /\ i \in Len(d) + 1 .. Len(d) + half /\ i0 = i - Len(d) + 1
      BY <1>15, <2>3
    <3>2. PICK j0 : \/ Here(o, b, l, u, j) /\ ~(l = "deque" /\ u = v)
                    \/ /\ Here(o, b, "deque", v, j0) /\ l = "deque" /\ u = v
                       /\ j \in Nat /\ j >= 1 /\ j0 = j + half + 1
                    \/ /\ Here(o, b, "deque", v, j0) /\ l = "deque" /\ u = s
                       /\ j \in Len(d) + 1 .. Len(d) + half /\ j0 = j - Len(d) + 1
      BY <1>15, <2>3
    <3>3. CASE Here(o, b, k, t, i) /\ ~(k = "deque" /\ t = v)
      BY <2>3, <3>2, <3>3 DEF Alone
    <3>4. CASE ~(Here(o, b, k, t, i) /\ ~(k = "deque" /\ t = v))
      <4>1. Here(o, b, "deque", v, i0)
        BY <3>1, <3>4
      <4>2. ~(Here(o, b, l, u, j) /\ ~(l = "deque" /\ u = v))
        BY <2>3, <4>1 DEF Alone
      <4>3. Here(o, b, "deque", v, j0)
        BY <3>2, <4>2
      <4>4. i0 = j0
        BY <2>3, <4>1, <4>3 DEF Alone
      <4>5. \/ k = "deque" /\ t = v /\ i \in Nat /\ i >= 1 /\ i0 = i + half + 1
            \/ k = "deque" /\ t = s /\ i \in Len(d) + 1 .. Len(d) + half /\ i0 = i - Len(d) + 1
        BY <3>1, <3>4
      <4>6. \/ l = "deque" /\ u = v /\ j \in Nat /\ j >= 1 /\ i0 = j + half + 1
            \/ l = "deque" /\ u = s /\ j \in Len(d) + 1 .. Len(d) + half /\ i0 = j - Len(d) + 1
        BY <3>2, <4>2, <4>4
      <4> QED BY <1>5, <1>7, <4>5, <4>6, SMTT(30)
    <3> QED BY <3>3, <3>4
  <2> QED BY <2>1, <2>2, <2>3 DEF Undisturbed, Alone
<1> QED BY <1>6, <1>8, <1>10, <1>14, <1>18, <1>19 DEF Taking

LEMMA SourceTaken ==
  ASSUME NEW o \in Loops, NEW s \in LoopThreads, NEW p \in Q!Sources(o, s)
  PROVE  Taking(o, p[2], p[1])
<1>1. \/ p \in Q!Own(o, s) \/ p \in Q!Popped(o, s) \/ p \in Q!FromGlobal(o) \/ p \in Q!Stolen(o, s)
  BY DEF Q!Sources, Q!FirstOf
<1> QED BY <1>1, OwnTaken, PoppedTaken, GlobalTaken, StolenTaken

-----------------------------------------------------------------------------
(* The inductive invariant of the behaviours that are of Dispatch, for a    *)
(* configuration o, the actors x with an entry too many and the actors d    *)
(* whose entry was dropped.                                                 *)

Before == {"off", "distribute"}
Hand == {"taken", "counted", "in", "flag", "recheck", "yield", "after", "met", "requeue", "leave"}
Sending == {"wake", "enqueue"}
Fiber == {"in", "wake", "enqueue", "flag", "recheck", "yield"}

(* What threads have in their hands.                                        *)
Hands(o) ==
  \A s \in LoopThreads : /\ o.at[s] \in Hand => o.held[s] # Nil
                         /\ o.held[s] # Nil => o.at[s] \in Hand \cup Sending
                         /\ o.to[s] # Nil <=> o.at[s] \in Sending
                         /\ o.to[s] # Nil => o.to[s] # o.held[s]

(* One thread at most is on the fiber of actor a, which is then marked; the *)
(* flag is up from before the re-check until the wake-up, and after the     *)
(* re-check with a message only while its sender is before the flag.        *)
OnFiberOf(o, s, a) == o.held[s] = a /\ o.at[s] \in Fiber
Right(o, a) ==
  /\ \A s \in LoopThreads : OnFiberOf(o, s, a) =>
       o.state[a] = "running" /\ (o.at[s] \notin {"recheck", "yield"} => o.flag[a] = 0)
  /\ \A s, t \in LoopThreads : OnFiberOf(o, s, a) /\ OnFiberOf(o, t, a) => s = t
  /\ o.flag[a] = 1 => \/ o.state[a] = "blocked"
                      \/ \E s \in LoopThreads : o.held[s] = a /\ o.at[s] \in {"recheck", "yield"}
  /\ o.flag[a] = 1 /\ o.mail[a] > 0 =>
       \E s \in LoopThreads : \/ o.held[s] = a /\ o.at[s] = "recheck"
                              \/ o.to[s] = a /\ o.at[s] = "wake"
HandsInv(o) == Hands(o) /\ \A a \in RunActors : Right(o, a)

(* Between two runs all queues are empty; they are filled before any worker *)
(* starts.                                                                  *)
Between(o, x) ==
  /\ o.at[0] \in Before => \A s \in LoopThreads \ {0} : o.at[s] = "stopped"
  /\ o.at[0] = "off" => \A a \in RunActors : Nowhere(o, a)
  /\ o.at[0] = "distribute" =>
       \A a \in RunActors : /\ a \in o.todo => Nowhere(o, a)
                            /\ a \notin o.todo /\ o.state[a] # "dead" => ~Nowhere(o, a)
                            /\ o.flag[a] = 1 => a \in x

(* An actor is in one place at most, in none while its flag is up, and in   *)
(* one while its flag is down.                                              *)
Settled(o, x, d, a) ==
  /\ a \notin x => Alone(o, a) /\ (o.flag[a] = 1 => Nowhere(o, a))
  /\ o.at[0] \notin Before /\ o.state[a] # "dead" => ~Nowhere(o, a) \/ a \in d \/ o.flag[a] = 1

LoopsInv(o, x, d) ==
  /\ o \in Loops /\ HandsInv(o) /\ Between(o, x)
  /\ \A a \in RunActors : Settled(o, x, d, a)

LEMMA ZeroIsThread == 0 \in LoopThreads /\ \A a \in RunActors : HomeOf[a] \in LoopThreads
BY LoopAssumption DEF LoopThreads, Q!Threads

(* A thread in its loop is there after the start of the run.                *)
LEMMA Started ==
  ASSUME NEW o, NEW x, Between(o, x), NEW s \in LoopThreads, o.at[s] \notin Before \cup {"stopped"}
  PROVE  o.at[0] \notin Before
BY ZeroIsThread DEF Between, Before

(* Only what thread s has in its hand is different.                         *)
SameQueues(o, n) == n.runnext = o.runnext /\ n.deque = o.deque /\ n.global = o.global
OthersStay(o, n, s) ==
  \A t \in LoopThreads \ {s} : n.held[t] = o.held[t] /\ n.at[t] = o.at[t] /\ n.to[t] = o.to[t]
InHand(o, b, s) == o.held[s] = b /\ o.at[s] \notin Away
Wakes(o, b, s) == o.to[s] = b /\ o.at[s] = "enqueue"
AtThread(o, b, s) == InHand(o, b, s) \/ Wakes(o, b, s)
SameHand(o, n, b, s) == (InHand(n, b, s) <=> InHand(o, b, s)) /\ (Wakes(n, b, s) <=> Wakes(o, b, s))

LEMMA HandPlaces ==
  ASSUME NEW o, NEW n, NEW s \in LoopThreads, SameQueues(o, n), OthersStay(o, n, s), NEW b,
         ~(InHand(n, b, s) /\ Wakes(n, b, s))
  PROVE  /\ SameHand(o, n, b, s) => Undisturbed(o, n, b)
         /\ AtThread(n, b, s) => ~Nowhere(n, b) /\ (Nowhere(o, b) => Alone(n, b))
         /\ AtThread(o, b, s) /\ ~AtThread(n, b, s) => (Alone(o, b) => Nowhere(n, b))
         /\ AtThread(o, b, s) => ~Nowhere(o, b)
         /\ Nowhere(n, b) => Alone(n, b)
<1>1. \A k, t, i : ~(k \in {"held", "woken"} /\ t = s) => (Here(n, b, k, t, i) <=> Here(o, b, k, t, i))
  BY DEF Here, OthersStay, SameQueues
<1>2. \A i : /\ Here(n, b, "held", s, i) <=> i = 0 /\ InHand(n, b, s)
             /\ Here(o, b, "held", s, i) <=> i = 0 /\ InHand(o, b, s)
             /\ Here(n, b, "woken", s, i) <=> i = 0 /\ Wakes(n, b, s)
             /\ Here(o, b, "woken", s, i) <=> i = 0 /\ Wakes(o, b, s)
  BY DEF Here, InHand, Wakes
<1>3. ASSUME SameHand(o, n, b, s) PROVE Undisturbed(o, n, b)
  <2>1. \A k, t, i : Here(n, b, k, t, i) <=> Here(o, b, k, t, i)
    BY <1>1, <1>2, <1>3 DEF SameHand
  <2> QED BY <2>1 DEF Undisturbed, Alone, Nowhere
<1>4. ASSUME AtThread(n, b, s) PROVE ~Nowhere(n, b) /\ (Nowhere(o, b) => Alone(n, b))
  <2>1. ~Nowhere(n, b)
    BY <1>2, <1>4 DEF Nowhere, AtThread
  <2>2. ASSUME Nowhere(o, b) PROVE Alone(n, b)
    <3>1. \A k, t, i : Here(n, b, k, t, i) => k \in {"held", "woken"} /\ t = s /\ i = 0
      BY <1>1, <1>2, <2>2 DEF Nowhere
    <3>2. ~(Here(n, b, "held", s, 0) /\ Here(n, b, "woken", s, 0))
      BY <1>2
    <3> QED BY <3>1, <3>2 DEF Alone
  <2> QED BY <2>1, <2>2
<1>5. ASSUME AtThread(o, b, s), ~AtThread(n, b, s), Alone(o, b) PROVE Nowhere(n, b)
  <2>1. \A k, t, i : Here(o, b, k, t, i) => k \in {"held", "woken"} /\ t = s /\ i = 0
    BY <1>2, <1>5 DEF Alone, AtThread
  <2> QED BY <1>1, <1>2, <1>5, <2>1 DEF Nowhere, AtThread
<1>6. AtThread(o, b, s) => ~Nowhere(o, b)
  BY <1>2 DEF Nowhere, AtThread
<1>7. Nowhere(n, b) => Alone(n, b)
  BY DEF Nowhere, Alone
<1> QED BY <1>3, <1>4, <1>5, <1>6, <1>7

(* A step of thread s in its loop.                                          *)
Keeps(o, n, b) ==
  /\ Undisturbed(o, n, b) /\ n.flag[b] = o.flag[b] /\ (o.state[b] = "dead" => n.state[b] = "dead")
LoopTurn(o, n, x, x2, d2, s) ==
  /\ n \in Loops /\ o.at[s] \notin Before \cup {"stopped"} /\ n.at[s] \notin Before
  /\ OthersStay(o, n, s) /\ HandsInv(n)
  /\ \A b \in RunActors : Keeps(o, n, b) \/ Settled(n, x2, d2, b)

LEMMA LoopStep ==
  ASSUME NEW o, NEW n, NEW x, NEW d, NEW x2, NEW d2, x \subseteq x2, d \subseteq d2, NEW s \in LoopThreads,
         LoopsInv(o, x, d), LoopTurn(o, n, x, x2, d2, s)
  PROVE  LoopsInv(n, x2, d2)
<1>1. o.at[0] \notin Before
  BY Started DEF LoopsInv, LoopTurn
<1>2. n.at[0] \notin Before
  BY <1>1, ZeroIsThread DEF LoopTurn, OthersStay
<1>3. Between(n, x2)
  BY <1>2 DEF Between, Before
<1>4. ASSUME NEW b \in RunActors, Keeps(o, n, b) PROVE Settled(n, x2, d2, b)
  <2>1. Settled(o, x, d, b)
    BY DEF LoopsInv
  <2> QED BY <1>1, <1>4, <2>1 DEF Settled, Keeps, Undisturbed
<1> QED BY <1>3, <1>4 DEF LoopsInv, LoopTurn

-----------------------------------------------------------------------------
(* What a step of thread s leaves of the hands and fibers                   *)

LEMMA HandsStay ==
  ASSUME NEW o, NEW n, NEW s \in LoopThreads, Hands(o), OthersStay(o, n, s),
         n.at[s] \in Hand => n.held[s] # Nil,
         n.held[s] # Nil => n.at[s] \in Hand \cup Sending,
         n.to[s] # Nil <=> n.at[s] \in Sending,
         n.to[s] # Nil => n.to[s] # n.held[s]
  PROVE  Hands(n)
<1>1. ASSUME NEW t \in LoopThreads
      PROVE  /\ n.at[t] \in Hand => n.held[t] # Nil
             /\ n.held[t] # Nil => n.at[t] \in Hand \cup Sending
             /\ n.to[t] # Nil <=> n.at[t] \in Sending
             /\ n.to[t] # Nil => n.to[t] # n.held[t]
  BY DEF Hands, OthersStay
<1> QED BY <1>1 DEF Hands

(* Actor a has nothing to do with the step, or is in a hand that is not on  *)
(* its fiber.                                                               *)
LEMMA RightStays ==
  ASSUME NEW o, NEW n, NEW s \in LoopThreads, NEW a \in RunActors, Right(o, a), OthersStay(o, n, s),
         n.state[a] = o.state[a], n.mail[a] = o.mail[a], n.flag[a] = o.flag[a],
         ~OnFiberOf(o, s, a), ~OnFiberOf(n, s, a),
         o.to[s] = a /\ o.at[s] = "wake" => n.to[s] = a /\ n.at[s] = "wake"
  PROVE  Right(n, a)
<1>1. \A t \in LoopThreads : OnFiberOf(n, t, a) => OnFiberOf(o, t, a) /\ n.at[t] = o.at[t]
  BY DEF OnFiberOf, OthersStay
<1>2. \A t \in LoopThreads : /\ o.held[t] = a /\ o.at[t] \in {"recheck", "yield"} => t # s
                             /\ o.held[t] = a /\ o.at[t] = "recheck" => t # s
  BY DEF OnFiberOf, Fiber
<1>3. \A t \in LoopThreads : o.to[t] = a /\ o.at[t] = "wake" => n.to[t] = a /\ n.at[t] = "wake"
  BY DEF OthersStay
<1> QED BY <1>1, <1>2, <1>3 DEF Right, OthersStay

(* Thread s is on a's fiber and stays there.                                *)
LEMMA RightOnFiber ==
  ASSUME NEW o, NEW n, NEW s \in LoopThreads, NEW a \in RunActors, Right(o, a), OthersStay(o, n, s),
         OnFiberOf(o, s, a), OnFiberOf(n, s, a), n.state[a] = "running",
         n.flag[a] = 1 => n.at[s] \in {"recheck", "yield"}, n.flag[a] \in {0, 1},
         n.flag[a] = 1 /\ n.mail[a] > 0 =>
           \/ n.at[s] = "recheck"
           \/ \E t \in LoopThreads : n.to[t] = a /\ n.at[t] = "wake"
  PROVE  Right(n, a)
<1>1. \A t \in LoopThreads : OnFiberOf(n, t, a) => t = s
  BY DEF OnFiberOf, OthersStay, Right
<1>2. n.held[s] = a
  BY DEF OnFiberOf
<1> QED BY <1>1, <1>2 DEF Right

(* Thread s leaves a's fiber.                                               *)
LEMMA RightLeaves ==
  ASSUME NEW o, NEW n, NEW s \in LoopThreads, NEW a \in RunActors, Right(o, a), OthersStay(o, n, s),
         OnFiberOf(o, s, a), ~OnFiberOf(n, s, a), n.flag[a] = 1 => n.state[a] = "blocked",
         n.flag[a] = 1 /\ n.mail[a] > 0 => \E t \in LoopThreads : n.to[t] = a /\ n.at[t] = "wake"
  PROVE  Right(n, a)
<1>1. \A t \in LoopThreads : ~OnFiberOf(n, t, a)
  BY DEF OnFiberOf, OthersStay, Right
<1> QED BY <1>1 DEF Right

(* Thread s enters it.                                                      *)
LEMMA RightEnters ==
  ASSUME NEW o, NEW n, NEW s \in LoopThreads, NEW a \in RunActors, Right(o, a), OthersStay(o, n, s),
         o.state[a] # "running", OnFiberOf(n, s, a), n.state[a] = "running", n.flag[a] = 0
  PROVE  Right(n, a)
<1>1. \A t \in LoopThreads : OnFiberOf(n, t, a) => t = s
  BY DEF OnFiberOf, OthersStay, Right
<1> QED BY <1>1 DEF Right

(* Actor a is sent to, or its flag taken down, by thread s.                 *)
LEMMA RightSent ==
  ASSUME NEW o, NEW n, NEW s \in LoopThreads, NEW a \in RunActors, Right(o, a), OthersStay(o, n, s),
         n.state[a] = o.state[a], ~OnFiberOf(o, s, a), ~OnFiberOf(n, s, a),
         \/ n.flag[a] = 0
         \/ n.flag[a] = o.flag[a] /\ n.to[s] = a /\ n.at[s] = "wake"
  PROVE  Right(n, a)
<1>1. \A t \in LoopThreads : OnFiberOf(n, t, a) => OnFiberOf(o, t, a) /\ n.at[t] = o.at[t]
  BY DEF OnFiberOf, OthersStay
<1>2. \A t \in LoopThreads : o.held[t] = a /\ o.at[t] \in {"recheck", "yield"} => t # s
  BY DEF OnFiberOf, Fiber
<1> QED BY <1>1, <1>2 DEF Right, OthersStay

-----------------------------------------------------------------------------
(* The steps *)

LEMMA Steps ==
  ASSUME NEW o, NEW r, NEW n, NEW b, Undisturbed(o, r, b), Undisturbed(r, n, b)
  PROVE  Undisturbed(o, n, b)
BY DEF Undisturbed

(* Thread s goes to l with v in its hand and a message for w on its way;    *)
(* the queues stay as they are.                                             *)
Moving(o, n, s, l, v, w) ==
  /\ SameQueues(o, n) /\ n.at = [o.at EXCEPT ![s] = l]
  /\ n.held = [o.held EXCEPT ![s] = v] /\ n.to = [o.to EXCEPT ![s] = w]

LEMMA MovedHand ==
  ASSUME NEW o \in Loops, NEW n, NEW s \in LoopThreads, NEW l, NEW v, NEW w, Moving(o, n, s, l, v, w)
  PROVE  SameQueues(o, n) /\ OthersStay(o, n, s) /\ n.at[s] = l /\ n.held[s] = v /\ n.to[s] = w
BY DEF Moving, OthersStay, Loops

(* How thread s may treat actor b without touching a queue: leave it where  *)
(* it is; take it in hand with its flag down; or be done with it,           *)
(* when its flag is up or nobody needs it.                                  *)
Fine(o, n, x, x2, d2, s, b) ==
  \/ SameHand(o, n, b, s) /\ n.flag[b] = o.flag[b] /\ (o.state[b] = "dead" => n.state[b] = "dead")
  \/ /\ AtThread(n, b, s)
     /\ b \in x2 \/ (n.flag[b] = 0 /\ (SameHand(o, n, b, s) \/ o.flag[b] = 1))
  \/ AtThread(o, b, s) /\ ~AtThread(n, b, s) /\ (n.flag[b] = 1 \/ b \in d2 \/ n.state[b] = "dead")

LEMMA FineKeeps ==
  ASSUME NEW o, NEW x, NEW d, LoopsInv(o, x, d), NEW n, NEW x2, NEW d2, x \subseteq x2, NEW s \in LoopThreads,
         SameQueues(o, n), OthersStay(o, n, s), Hands(n), NEW b \in RunActors, Fine(o, n, x, x2, d2, s, b)
  PROVE  Keeps(o, n, b) \/ Settled(n, x2, d2, b)
<1>1. ~(InHand(n, b, s) /\ Wakes(n, b, s))
  <2>1. b # Nil
    BY LoopAssumption
  <2> QED BY <2>1 DEF Hands, InHand, Wakes
<1>2. Settled(o, x, d, b)
  BY DEF LoopsInv
<1>3. /\ SameHand(o, n, b, s) => Undisturbed(o, n, b)
      /\ AtThread(n, b, s) => ~Nowhere(n, b) /\ (Nowhere(o, b) => Alone(n, b))
      /\ AtThread(o, b, s) /\ ~AtThread(n, b, s) => (Alone(o, b) => Nowhere(n, b))
      /\ Nowhere(n, b) => Alone(n, b)
  BY <1>1, HandPlaces
<1>4. CASE SameHand(o, n, b, s) /\ n.flag[b] = o.flag[b] /\ (o.state[b] = "dead" => n.state[b] = "dead")
  BY <1>3, <1>4 DEF Keeps
<1>5. CASE /\ AtThread(n, b, s)
           /\ b \in x2 \/ (n.flag[b] = 0 /\ (SameHand(o, n, b, s) \/ o.flag[b] = 1))
  BY <1>2, <1>3, <1>5 DEF Settled, Undisturbed
<1>6. CASE AtThread(o, b, s) /\ ~AtThread(n, b, s) /\ (n.flag[b] = 1 \/ b \in d2 \/ n.state[b] = "dead")
  BY <1>2, <1>3, <1>6 DEF Settled
<1> QED BY <1>4, <1>5, <1>6 DEF Fine

SpecType == [dropped : SUBSET RunActors, doubled : SUBSET RunActors]
DispatchInv == spec \in SpecType /\ LoopsInv(obj, spec.doubled, spec.dropped)

LEMMA TurnKeeps ==
  ASSUME DispatchInv, NEW s \in LoopThreads, obj' \in Loops, NEW l, NEW v, NEW w, Moving(obj, obj', s, l, v, w),
         obj.at[s] \notin Before \cup {"stopped"}, l \notin Before, HandsInv(obj'),
         spec' \in SpecType, spec.doubled \subseteq spec'.doubled, spec.dropped \subseteq spec'.dropped,
         \A b \in RunActors : Fine(obj, obj', spec.doubled, spec'.doubled, spec'.dropped, s, b)
  PROVE  DispatchInv'
<1>1. obj \in Loops /\ LoopsInv(obj, spec.doubled, spec.dropped)
  BY DEF DispatchInv, LoopsInv
<1>2. SameQueues(obj, obj') /\ OthersStay(obj, obj', s) /\ obj'.at[s] = l
  BY <1>1, MovedHand
<1>3. \A b \in RunActors : Keeps(obj, obj', b) \/ Settled(obj', spec'.doubled, spec'.dropped, b)
  BY <1>1, <1>2, FineKeeps DEF HandsInv
<1>4. LoopTurn(obj, obj', spec.doubled, spec'.doubled, spec'.dropped, s)
  BY <1>2, <1>3 DEF LoopTurn
<1>5. LoopsInv(obj', spec'.doubled, spec'.dropped)
  BY <1>1, <1>4, LoopStep
<1> QED BY <1>5 DEF DispatchInv

(* What Goto leaves.                                                        *)
LEMMA Goes ==
  ASSUME NEW o \in Loops, NEW s \in LoopThreads, NEW l \in Locs, NEW g, g = Q!Goto(o, s, l)
  PROVE  /\ g \in Loops /\ SameQueues(o, g) /\ g.at = [o.at EXCEPT ![s] = l]
         /\ g.held = o.held /\ g.to = o.to /\ g.state = o.state /\ g.mail = o.mail /\ g.flag = o.flag
         /\ g.todo = o.todo /\ g.running = o.running /\ g.timer = o.timer
         /\ g.sent = o.sent /\ g.preempts = o.preempts /\ g.runs = o.runs
<1>1. [o.at EXCEPT ![s] = l] \in [LoopThreads -> Locs]
  BY DEF Loops
<1> QED BY <1>1 DEF Loops, SameQueues, Q!Goto

(* Thread s moves, and what changes of an actor is the state, mail and flag *)
(* of b.                                                                    *)
Turned(o, n, s, l, v, w, b, st, m, f) ==
  /\ n \in Loops /\ Moving(o, n, s, l, v, w)
  /\ n.state = [o.state EXCEPT ![b] = st] /\ n.mail = [o.mail EXCEPT ![b] = m] /\ n.flag = [o.flag EXCEPT ![b] = f]

LEMMA TurnedFields ==
  ASSUME NEW o \in Loops, NEW n, NEW s \in LoopThreads, NEW l, NEW v, NEW w, NEW b \in RunActors, NEW st, NEW m, NEW f,
         Turned(o, n, s, l, v, w, b, st, m, f)
  PROVE  /\ n \in Loops /\ SameQueues(o, n) /\ OthersStay(o, n, s)
         /\ n.at[s] = l /\ n.held[s] = v /\ n.to[s] = w
         /\ n.state[b] = st /\ n.mail[b] = m /\ n.flag[b] = f
         /\ \A c \in RunActors \ {b} : n.state[c] = o.state[c] /\ n.mail[c] = o.mail[c] /\ n.flag[c] = o.flag[c]
<1>1. SameQueues(o, n) /\ OthersStay(o, n, s) /\ n.at[s] = l /\ n.held[s] = v /\ n.to[s] = w
  BY MovedHand DEF Turned
<1>2. o.state \in [RunActors -> States] /\ o.mail \in [RunActors -> Nat] /\ o.flag \in [RunActors -> {0, 1}]
  BY DEF Loops
<1> QED BY <1>1, <1>2 DEF Turned

(* Thread s takes a step with actor a in its hand.                          *)
LEMMA OwnTurnKeeps ==
  ASSUME DispatchInv, NEW s \in LoopThreads, obj.at[s] \in Hand, NEW l \in Hand, NEW a, a = obj.held[s],
         NEW st, NEW m, NEW f, Turned(obj, obj', s, l, a, Nil, a, st, m, f),
         spec' \in SpecType, spec.doubled \subseteq spec'.doubled, spec.dropped \subseteq spec'.dropped,
         Right(obj', a), Fine(obj, obj', spec.doubled, spec'.doubled, spec'.dropped, s, a)
  PROVE  DispatchInv'
<1>1. obj \in Loops /\ HandsInv(obj)
  BY DEF DispatchInv, LoopsInv
<1>2. a # Nil /\ a \in RunActors /\ obj.to[s] = Nil
  BY <1>1 DEF HandsInv, Hands, Loops, Hand, Sending
<1>3. /\ obj' \in Loops /\ SameQueues(obj, obj') /\ OthersStay(obj, obj', s)
      /\ obj'.at[s] = l /\ obj'.held[s] = a /\ obj'.to[s] = Nil
      /\ \A c \in RunActors \ {a} : /\ obj'.state[c] = obj.state[c] /\ obj'.mail[c] = obj.mail[c]
                                    /\ obj'.flag[c] = obj.flag[c]
  BY <1>1, <1>2, TurnedFields
<1>4. Hands(obj')
  BY <1>1, <1>2, <1>3, HandsStay DEF HandsInv, Hand, Sending
<1>5. ASSUME NEW c \in RunActors \ {a}
      PROVE  Right(obj', c) /\ SameHand(obj, obj', c, s) /\ obj'.flag[c] = obj.flag[c] /\ obj'.state[c] = obj.state[c]
  <2>1. c # Nil /\ ~OnFiberOf(obj, s, c) /\ ~OnFiberOf(obj', s, c) /\ obj.to[s] # c
    BY <1>2, <1>3, LoopAssumption DEF OnFiberOf
  <2>2. Right(obj', c)
    BY <1>1, <1>3, <2>1, RightStays DEF HandsInv
  <2> QED BY <1>2, <1>3, <2>1, <2>2 DEF SameHand, InHand, Wakes
<1>6. HandsInv(obj')
  BY <1>4, <1>5 DEF HandsInv
<1>7. \A c \in RunActors : Fine(obj, obj', spec.doubled, spec'.doubled, spec'.dropped, s, c)
  BY <1>5 DEF Fine
<1>8. Moving(obj, obj', s, l, a, Nil) /\ obj.at[s] \notin Before \cup {"stopped"} /\ l \notin Before
  BY DEF Turned, Before, Hand
<1> QED BY <1>3, <1>6, <1>7, <1>8, TurnKeeps

(* The state of a thread with an actor in its hand.                         *)
LEMMA AtHand ==
  ASSUME DispatchInv, NEW s \in LoopThreads, obj.at[s] \in Hand
  PROVE  /\ obj \in Loops /\ HandsInv(obj) /\ spec \in SpecType
         /\ obj.held[s] \in RunActors /\ obj.held[s] # Nil /\ obj.to[s] = Nil /\ Right(obj, obj.held[s])
         /\ obj.state[obj.held[s]] \in States /\ obj.mail[obj.held[s]] \in Nat /\ obj.flag[obj.held[s]] \in {0, 1}
         /\ obj.held = [obj.held EXCEPT ![s] = obj.held[s]] /\ obj.to = [obj.to EXCEPT ![s] = Nil]
<1>1. obj \in Loops /\ HandsInv(obj) /\ spec \in SpecType
  BY DEF DispatchInv, LoopsInv
<1>2. obj.held[s] \in RunActors /\ obj.held[s] # Nil /\ obj.to[s] = Nil
  BY <1>1 DEF HandsInv, Hands, Loops, Hand, Sending
<1>3. /\ obj.state[obj.held[s]] \in States /\ obj.mail[obj.held[s]] \in Nat /\ obj.flag[obj.held[s]] \in {0, 1}
      /\ obj.held = [obj.held EXCEPT ![s] = obj.held[s]] /\ obj.to = [obj.to EXCEPT ![s] = Nil]
  BY <1>1, <1>2 DEF Loops
<1> QED BY <1>1, <1>2, <1>3 DEF HandsInv

(* The steps that only move thread s on.                                    *)
LEMMA MovesOn ==
  ASSUME DispatchInv, NEW s \in LoopThreads, obj.at[s] \in Hand, NEW l \in Hand, NEW a, a = obj.held[s],
         NEW g, g = Q!Goto(obj, s, l)
  PROVE  Turned(obj, g, s, l, a, Nil, a, obj.state[a], obj.mail[a], obj.flag[a])
<1>1. obj \in Loops /\ a \in RunActors /\ l \in Locs
  BY AtHand DEF Hand, Locs
<1>2. /\ g \in Loops /\ SameQueues(obj, g) /\ g.at = [obj.at EXCEPT ![s] = l]
      /\ g.held = obj.held /\ g.to = obj.to /\ g.state = obj.state /\ g.mail = obj.mail /\ g.flag = obj.flag
  BY <1>1, Goes
<1>3. /\ obj.state = [obj.state EXCEPT ![a] = obj.state[a]] /\ obj.mail = [obj.mail EXCEPT ![a] = obj.mail[a]]
      /\ obj.flag = [obj.flag EXCEPT ![a] = obj.flag[a]]
  BY <1>1 DEF Loops
<1> QED BY <1>2, <1>3, AtHand DEF Turned, Moving

(* Of actor b the state, the mail or the flag is set.                       *)
Marked(o, g, n, b, st, m, f) ==
  \/ n = [g EXCEPT !.state[b] = st] /\ m = o.mail[b] /\ f = o.flag[b]
  \/ n = [g EXCEPT !.mail[b] = m] /\ st = o.state[b] /\ f = o.flag[b]
  \/ n = [g EXCEPT !.flag[b] = f] /\ st = o.state[b] /\ m = o.mail[b]
  \/ n = [g EXCEPT !.mail[b] = m, !.flag[b] = f] /\ st = o.state[b]
  \/ n = [g EXCEPT !.state[b] = st, !.mail[b] = m, !.flag[b] = f]

LEMMA Marks ==
  ASSUME NEW o \in Loops, NEW g, NEW s, NEW l, NEW v, NEW w, NEW b \in RunActors, NEW st \in States, NEW m \in Nat,
         NEW f \in {0, 1}, Turned(o, g, s, l, v, w, b, o.state[b], o.mail[b], o.flag[b]),
         NEW n, Marked(o, g, n, b, st, m, f)
  PROVE  Turned(o, n, s, l, v, w, b, st, m, f)
<1>1. o.state \in [RunActors -> States] /\ o.mail \in [RunActors -> Nat] /\ o.flag \in [RunActors -> {0, 1}]
  BY DEF Loops
<1>2. /\ g \in Loops /\ Moving(o, g, s, l, v, w)
      /\ g.state = [o.state EXCEPT ![b] = o.state[b]] /\ g.mail = [o.mail EXCEPT ![b] = o.mail[b]]
      /\ g.flag = [o.flag EXCEPT ![b] = o.flag[b]]
  BY DEF Turned
<1>3. g.state = o.state /\ g.mail = o.mail /\ g.flag = o.flag
  BY <1>1, <1>2
<1> DEFINE S == [o.state EXCEPT ![b] = st]
           M == [o.mail EXCEPT ![b] = m]
           F == [o.flag EXCEPT ![b] = f]
<1>4. S \in [RunActors -> States] /\ M \in [RunActors -> Nat] /\ F \in [RunActors -> {0, 1}]
  BY <1>1
<1>5. /\ st = o.state[b] => S = o.state
      /\ m = o.mail[b] => M = o.mail
      /\ f = o.flag[b] => F = o.flag
  BY <1>1
<1> DEFINE Result == /\ n \in Loops /\ SameQueues(g, n) /\ n.held = g.held /\ n.to = g.to /\ n.at = g.at
                     /\ n.state = S /\ n.mail = M /\ n.flag = F
<1>c0. ASSUME n = [g EXCEPT !.state[b] = st] /\ m = o.mail[b] /\ f = o.flag[b]
      PROVE  Result
  <2>1. n = [g EXCEPT !.state = S]
    BY <1>2, <1>3, <1>c0 DEF Loops
  <2>2. g.mail = M /\ g.flag = F
    BY <1>3, <1>5, <1>c0
  <2> HIDE DEF S, M, F
  <2> QED BY <1>2, <1>4, <2>1, <2>2 DEF Loops, SameQueues
<1>c1. ASSUME n = [g EXCEPT !.mail[b] = m] /\ st = o.state[b] /\ f = o.flag[b]
      PROVE  Result
  <2>1. n = [g EXCEPT !.mail = M]
    BY <1>2, <1>3, <1>c1 DEF Loops
  <2>2. g.state = S /\ g.flag = F
    BY <1>3, <1>5, <1>c1
  <2> HIDE DEF S, M, F
  <2> QED BY <1>2, <1>4, <2>1, <2>2 DEF Loops, SameQueues
<1>c2. ASSUME n = [g EXCEPT !.flag[b] = f] /\ st = o.state[b] /\ m = o.mail[b]
      PROVE  Result
  <2>1. n = [g EXCEPT !.flag = F]
    BY <1>2, <1>3, <1>c2 DEF Loops
  <2>2. g.state = S /\ g.mail = M
    BY <1>3, <1>5, <1>c2
  <2> HIDE DEF S, M, F
  <2> QED BY <1>2, <1>4, <2>1, <2>2 DEF Loops, SameQueues
<1>c3. ASSUME n = [g EXCEPT !.mail[b] = m, !.flag[b] = f] /\ st = o.state[b]
      PROVE  Result
  <2>1. n = [g EXCEPT !.mail = M, !.flag = F]
    BY <1>2, <1>3, <1>c3 DEF Loops
  <2>2. g.state = S
    BY <1>3, <1>5, <1>c3
  <2> HIDE DEF S, M, F
  <2> QED BY <1>2, <1>4, <2>1, <2>2 DEF Loops, SameQueues
<1>c4. ASSUME n = [g EXCEPT !.state[b] = st, !.mail[b] = m, !.flag[b] = f]
      PROVE  Result
  <2>1. n = [g EXCEPT !.state = S, !.mail = M, !.flag = F]
    BY <1>2, <1>3, <1>c4 DEF Loops
  <2> HIDE DEF S, M, F
  <2> QED BY <1>2, <1>4, <2>1 DEF Loops, SameQueues
<1>7. Result
  BY <1>c0, <1>c1, <1>c2, <1>c3, <1>c4 DEF Marked
<1> HIDE DEF S, M, F
<1>8. Moving(o, n, s, l, v, w)
  BY <1>2, <1>7 DEF Moving, SameQueues
<1> QED BY <1>7, <1>8 DEF Turned, S, M, F

(* Each action keeps the invariant.                                         *)
LEMMA CountKeeps ==
  ASSUME DispatchInv, NEW s \in LoopThreads, Q!Count(s)
  PROVE  DispatchInv'
<1>1. PICK a, g : a = obj.held[s] /\ g = Q!Goto(obj, s, "counted")
  OBVIOUS
<1>2. obj.at[s] = "taken" /\ obj.at[s] \in Hand /\ "counted" \in Hand /\ spec' = spec
  BY DEF Q!Count, Hand
<1>3. /\ obj \in Loops /\ a \in RunActors /\ Right(obj, a) /\ spec \in SpecType
  BY <1>1, <1>2, AtHand
<1>4. Turned(obj, g, s, "counted", a, Nil, a, obj.state[a], obj.mail[a], obj.flag[a])
  BY <1>1, <1>2, MovesOn
<1>5. obj' = [g EXCEPT !.running = @ + 1]
  BY <1>1 DEF Q!Count
<1>6. Turned(obj, obj', s, "counted", a, Nil, a, obj.state[a], obj.mail[a], obj.flag[a])
  <2>1. g.running + 1 \in Int /\ g \in Loops
    BY <1>4 DEF Turned, Loops
  <2>2. /\ obj' \in Loops /\ SameQueues(g, obj') /\ obj'.held = g.held /\ obj'.to = g.to /\ obj'.at = g.at
        /\ obj'.state = g.state /\ obj'.mail = g.mail /\ obj'.flag = g.flag
    BY <1>5, <2>1 DEF Loops, SameQueues
  <2> QED BY <1>4, <2>2 DEF Turned, Moving, SameQueues
<1>7. /\ OthersStay(obj, obj', s) /\ obj'.at[s] = "counted" /\ obj'.held[s] = a /\ obj'.to[s] = Nil
      /\ obj'.state[a] = obj.state[a] /\ obj'.mail[a] = obj.mail[a] /\ obj'.flag[a] = obj.flag[a]
  BY <1>3, <1>6, TurnedFields
<1>8. Right(obj', a)
  BY <1>2, <1>3, <1>7, RightStays DEF OnFiberOf, Fiber
<1>9. SameHand(obj, obj', a, s)
  BY <1>1, <1>2, <1>7 DEF SameHand, InHand, Wakes, Away
<1>10. Fine(obj, obj', spec.doubled, spec'.doubled, spec'.dropped, s, a)
  BY <1>7, <1>9 DEF Fine
<1> QED BY <1>1, <1>2, <1>3, <1>6, <1>8, <1>10, OwnTurnKeeps

LEMMA BeginKeeps ==
  ASSUME DispatchInv, NEW s \in LoopThreads, Q!BeginQuantum(s)
  PROVE  DispatchInv'
<1>1. PICK a : a = obj.held[s]
  OBVIOUS
<1>2. obj.at[s] = "counted" /\ obj.at[s] \in Hand
  BY DEF Q!BeginQuantum, Hand
<1>3. /\ obj \in Loops /\ a \in RunActors /\ Right(obj, a) /\ spec \in SpecType /\ obj.to[s] = Nil
      /\ obj.state[a] \in States /\ obj.mail[a] \in Nat /\ obj.flag[a] \in {0, 1} /\ a # Nil
  BY <1>1, <1>2, AtHand
<1>0. InHand(obj, a, s) /\ ~Wakes(obj, a, s) /\ ~OnFiberOf(obj, s, a)
  BY <1>1, <1>2, <1>3 DEF InHand, Wakes, Away, OnFiberOf, Fiber
<1>4. ASSUME NEW l \in {"leave", "met"}, obj' = Q!Goto(obj, s, l), spec' \in SpecType,
             spec.doubled \subseteq spec'.doubled, spec.dropped \subseteq spec'.dropped,
             l = "leave" => obj.state[a] = "dead" \/ obj.flag[a] = 1 \/ a \in spec'.dropped
      PROVE  DispatchInv'
  <2>1. l \in Hand
    BY DEF Hand
  <2>2. Turned(obj, obj', s, l, a, Nil, a, obj.state[a], obj.mail[a], obj.flag[a])
    BY <1>1, <1>2, <1>4, <2>1, MovesOn
  <2>3. /\ OthersStay(obj, obj', s) /\ obj'.at[s] = l /\ obj'.held[s] = a /\ obj'.to[s] = Nil
        /\ obj'.state[a] = obj.state[a] /\ obj'.mail[a] = obj.mail[a] /\ obj'.flag[a] = obj.flag[a]
    BY <1>3, <2>2, TurnedFields
  <2>4. ~OnFiberOf(obj', s, a)
    BY <2>3 DEF OnFiberOf, Fiber
  <2>5. Right(obj', a)
    BY <1>0, <1>2, <1>3, <2>3, <2>4, RightStays
  <2>6. Fine(obj, obj', spec.doubled, spec'.doubled, spec'.dropped, s, a)
    <3>1. CASE l = "met"
      BY <1>0, <1>3, <2>3, <3>1 DEF Fine, SameHand, InHand, Wakes, Away
    <3>2. CASE l = "leave"
      BY <1>0, <1>3, <1>4, <2>3, <3>2 DEF Fine, AtThread, InHand, Wakes, Away
    <3> QED BY <3>1, <3>2
  <2> QED BY <1>1, <1>2, <1>4, <2>1, <2>2, <2>5, <2>6, OwnTurnKeeps
<1>5. ASSUME NEW m \in Nat, NEW f \in {0, 1},
             Turned(obj, obj', s, "in", a, Nil, a, "running", m, f), f = 0, spec' = spec,
             obj.state[a] # "running", obj.state[a] # "dead"
      PROVE  DispatchInv'
  <2>1. "in" \in Hand
    BY DEF Hand
  <2>3. /\ OthersStay(obj, obj', s) /\ obj'.at[s] = "in" /\ obj'.held[s] = a /\ obj'.to[s] = Nil
        /\ obj'.state[a] = "running" /\ obj'.mail[a] = m /\ obj'.flag[a] = 0
    BY <1>3, <1>5, TurnedFields
  <2>4. OnFiberOf(obj', s, a)
    BY <2>3 DEF OnFiberOf, Fiber
  <2>5. Right(obj', a)
    BY <1>3, <1>5, <2>3, <2>4, RightEnters
  <2>6. SameHand(obj, obj', a, s) /\ AtThread(obj', a, s)
    BY <1>0, <2>3 DEF SameHand, AtThread, InHand, Wakes, Away
  <2>7. Fine(obj, obj', spec.doubled, spec'.doubled, spec'.dropped, s, a)
    BY <2>3, <2>6 DEF Fine
  <2> QED BY <1>1, <1>2, <1>3, <1>5, <2>1, <2>5, <2>7, OwnTurnKeeps
<1>6. PICK g : g = Q!Goto(obj, s, "in")
  OBVIOUS
<1>7. Turned(obj, g, s, "in", a, Nil, a, obj.state[a], obj.mail[a], obj.flag[a])
  <2>1. "in" \in Hand
    BY DEF Hand
  <2> QED BY <1>1, <1>2, <1>6, <2>1, MovesOn
<1>8. CASE obj.state[a] = "dead"
  BY <1>1, <1>3, <1>4, <1>8 DEF Q!BeginQuantum
<1>9. CASE obj.state[a] = "running"
  BY <1>1, <1>3, <1>4, <1>9 DEF Q!BeginQuantum
<1>10. CASE obj.state[a] = "blocked" /\ obj.mail[a] = 0
  <2>1. obj' = Q!Goto(obj, s, "leave") /\ spec' = Q!Left(a)
    BY <1>1, <1>10 DEF Q!BeginQuantum
  <2>2. /\ spec' \in SpecType /\ spec.doubled \subseteq spec'.doubled /\ spec.dropped \subseteq spec'.dropped
        /\ obj.flag[a] = 1 \/ a \in spec'.dropped
    BY <1>3, <2>1 DEF Q!Left, SpecType
  <2> QED BY <1>4, <2>1, <2>2
<1>11. CASE obj.state[a] = "blocked" /\ obj.mail[a] > 0
  <2>1. obj' = [g EXCEPT !.state[a] = "running", !.mail[a] = @ - 1, !.flag[a] = 0] /\ spec' = spec
    BY <1>1, <1>6, <1>11 DEF Q!BeginQuantum
  <2>2. PICK m \in Nat : m = obj.mail[a] - 1
    BY <1>3, <1>11
  <2>3. g.mail[a] = obj.mail[a] /\ g \in Loops
    <3>1. obj.mail \in [RunActors -> Nat]
      BY <1>3 DEF Loops
    <3> QED BY <1>3, <1>7, <3>1 DEF Turned
  <2>4. obj' = [g EXCEPT !.state[a] = "running", !.mail[a] = m, !.flag[a] = 0]
    BY <1>3, <2>1, <2>2, <2>3 DEF Loops
  <2>5. Turned(obj, obj', s, "in", a, Nil, a, "running", m, 0)
    <3>1. "running" \in States /\ 0 \in {0, 1}
      BY DEF States
    <3>2. Marked(obj, g, obj', a, "running", m, 0)
      BY <2>4 DEF Marked
    <3> QED BY <1>3, <1>7, <3>1, <3>2, Marks
  <2> QED BY <1>5, <1>11, <2>1, <2>5
<1>12. CASE obj.state[a] = "ready"
  <2>1. obj' = [g EXCEPT !.state[a] = "running"] /\ spec' = spec
    BY <1>1, <1>6, <1>12 DEF Q!BeginQuantum
  <2>2. Turned(obj, obj', s, "in", a, Nil, a, "running", obj.mail[a], obj.flag[a])
    <3>1. "running" \in States
      BY DEF States
    <3>2. Marked(obj, g, obj', a, "running", obj.mail[a], obj.flag[a])
      BY <2>1 DEF Marked
    <3> QED BY <1>3, <1>7, <3>1, <3>2, Marks
  <2>3. obj.flag[a] = 0
    <3>1. ASSUME obj.flag[a] = 1 PROVE FALSE
      BY <1>3, <1>12, <3>1 DEF Right, OnFiberOf, Fiber
    <3> QED BY <1>3, <3>1
  <2> QED BY <1>3, <1>5, <1>12, <2>1, <2>2, <2>3
<1> QED BY <1>3, <1>8, <1>9, <1>10, <1>11, <1>12 DEF States

LEMMA AfterKeeps ==
  ASSUME DispatchInv, NEW s \in LoopThreads, Q!AfterQuantum(s)
  PROVE  DispatchInv'
<1>1. PICK a : a = obj.held[s]
  OBVIOUS
<1>2. obj.at[s] \in {"after", "met"} /\ obj.at[s] \in Hand
  BY DEF Q!AfterQuantum, Hand
<1>3. /\ obj \in Loops /\ a \in RunActors /\ Right(obj, a) /\ spec \in SpecType /\ obj.to[s] = Nil
      /\ obj.state[a] \in States /\ a # Nil
  BY <1>1, <1>2, AtHand
<1>4. PICK back \in BOOLEAN : back <=> obj.state[a] \in {"running", "ready"}
  OBVIOUS
<1>5. PICK l \in {"requeue", "leave"} : obj' = Q!Goto(obj, s, l) /\ (l = "requeue" <=> back)
  BY <1>1, <1>4 DEF Q!AfterQuantum
<1>6. /\ spec' \in SpecType /\ spec.doubled \subseteq spec'.doubled /\ spec.dropped \subseteq spec'.dropped
      /\ back /\ obj.at[s] = "after" => a \in spec'.doubled
      /\ ~back /\ obj.at[s] = "met" => obj.state[a] = "dead" \/ obj.flag[a] = 1 \/ a \in spec'.dropped
  <2>1. spec' = IF back /\ obj.at[s] = "after" THEN [spec EXCEPT !.doubled = @ \cup {a}]
                ELSE IF obj.state[a] = "blocked" /\ obj.at[s] = "met" THEN Q!Left(a) ELSE spec
    BY <1>1, <1>4 DEF Q!AfterQuantum
  <2>2. CASE back /\ obj.at[s] = "after"
    BY <1>3, <2>1, <2>2 DEF SpecType
  <2>3. CASE obj.state[a] = "blocked" /\ obj.at[s] = "met"
    <3>1. spec' = IF obj.flag[a] = 0 THEN [spec EXCEPT !.dropped = @ \cup {a}] ELSE spec
      BY <1>4, <2>1, <2>3 DEF Q!Left
    <3>2. obj.flag[a] \in {0, 1} /\ ~back
      BY <1>3, <1>4, <2>3 DEF Loops
    <3> QED BY <1>3, <2>3, <3>1, <3>2 DEF SpecType
  <2>4. CASE ~(back /\ obj.at[s] = "after") /\ ~(obj.state[a] = "blocked" /\ obj.at[s] = "met")
    BY <1>2, <1>3, <1>4, <2>1, <2>4 DEF States
  <2> QED BY <2>2, <2>3, <2>4
<1>7. l \in Hand
  BY DEF Hand
<1>8. Turned(obj, obj', s, l, a, Nil, a, obj.state[a], obj.mail[a], obj.flag[a])
  BY <1>1, <1>2, <1>5, <1>7, MovesOn
<1>9. /\ OthersStay(obj, obj', s) /\ obj'.at[s] = l /\ obj'.held[s] = a /\ obj'.to[s] = Nil
      /\ obj'.state[a] = obj.state[a] /\ obj'.mail[a] = obj.mail[a] /\ obj'.flag[a] = obj.flag[a]
  BY <1>3, <1>8, TurnedFields
<1>10. Right(obj', a)
  <2>1. ~OnFiberOf(obj, s, a) /\ ~OnFiberOf(obj', s, a)
    BY <1>2, <1>9 DEF OnFiberOf, Fiber
  <2> QED BY <1>2, <1>3, <1>9, <2>1, RightStays
<1>11. /\ ~Wakes(obj, a, s) /\ ~Wakes(obj', a, s)
       /\ InHand(obj, a, s) <=> obj.at[s] = "met"
       /\ InHand(obj', a, s) <=> back
  BY <1>1, <1>2, <1>3, <1>5, <1>9 DEF Wakes, InHand, Away
<1>12. Fine(obj, obj', spec.doubled, spec'.doubled, spec'.dropped, s, a)
  BY <1>2, <1>6, <1>9, <1>11 DEF Fine, SameHand, AtThread
<1> QED BY <1>1, <1>2, <1>6, <1>7, <1>8, <1>10, <1>12, OwnTurnKeeps

(* A step on the fiber of the actor at hand.                                *)
LEMMA OnFiberKeeps ==
  ASSUME DispatchInv, NEW s \in LoopThreads, obj.at[s] \in {"in", "flag", "recheck", "yield"},
         NEW l \in {"in", "flag", "recheck", "yield"}, NEW a, a = obj.held[s], NEW m, NEW f \in {0, 1},
         Turned(obj, obj', s, l, a, Nil, a, obj.state[a], m, f),
         spec' \in SpecType, spec.doubled \subseteq spec'.doubled, spec.dropped \subseteq spec'.dropped,
         f = 1 => l \in {"recheck", "yield"} /\ (m > 0 => l = "recheck"),
         \/ (obj.at[s] \in Away <=> l \in Away) /\ f = obj.flag[a]
         \/ obj.at[s] \notin Away /\ l \in Away /\ f = 1
         \/ l \notin Away /\ (a \in spec'.doubled \/ (f = 0 /\ obj.flag[a] = 1))
  PROVE  DispatchInv'
<1>1. /\ obj \in Loops /\ a \in RunActors /\ Right(obj, a) /\ obj.to[s] = Nil /\ obj.at[s] \in Hand /\ l \in Hand
      /\ a # Nil
  <2>1. obj.at[s] \in Hand /\ l \in Hand
    BY DEF Hand
  <2> QED BY <2>1, AtHand
<1>2. /\ OthersStay(obj, obj', s) /\ obj'.at[s] = l /\ obj'.held[s] = a /\ obj'.to[s] = Nil
      /\ obj'.state[a] = obj.state[a] /\ obj'.mail[a] = m /\ obj'.flag[a] = f
  BY <1>1, TurnedFields
<1>3. OnFiberOf(obj, s, a) /\ OnFiberOf(obj', s, a)
  BY <1>2 DEF OnFiberOf, Fiber
<1>4. obj'.state[a] = "running"
  BY <1>1, <1>2, <1>3 DEF Right
<1>5. Right(obj', a)
  BY <1>1, <1>2, <1>3, <1>4, RightOnFiber
<1>6. /\ ~Wakes(obj, a, s) /\ ~Wakes(obj', a, s)
      /\ InHand(obj, a, s) <=> obj.at[s] \notin Away
      /\ InHand(obj', a, s) <=> l \notin Away
  BY <1>1, <1>2 DEF Wakes, InHand
<1>7. CASE (obj.at[s] \in Away <=> l \in Away) /\ f = obj.flag[a]
  <2>1. Fine(obj, obj', spec.doubled, spec'.doubled, spec'.dropped, s, a)
    BY <1>2, <1>6, <1>7 DEF Fine, SameHand
  <2> QED BY <1>1, <1>5, <2>1, OwnTurnKeeps
<1>8. CASE obj.at[s] \notin Away /\ l \in Away /\ f = 1
  <2>1. Fine(obj, obj', spec.doubled, spec'.doubled, spec'.dropped, s, a)
    BY <1>2, <1>6, <1>8 DEF Fine, AtThread
  <2> QED BY <1>1, <1>5, <2>1, OwnTurnKeeps
<1>9. CASE l \notin Away /\ (a \in spec'.doubled \/ (f = 0 /\ obj.flag[a] = 1))
  <2>1. Fine(obj, obj', spec.doubled, spec'.doubled, spec'.dropped, s, a)
    BY <1>2, <1>6, <1>9 DEF Fine, AtThread
  <2> QED BY <1>1, <1>5, <2>1, OwnTurnKeeps
<1> QED BY <1>7, <1>8, <1>9

LEMMA ReceiveKeeps ==
  ASSUME DispatchInv, NEW s \in LoopThreads, Q!Receive(s)
  PROVE  DispatchInv'
<1>1. PICK a : a = obj.held[s]
  OBVIOUS
<1>2. obj.at[s] = "in" /\ obj.at[s] \in Hand /\ "in" \in Hand /\ "flag" \in Hand /\ spec' = spec
  BY DEF Q!Receive, Hand
<1>3. /\ obj \in Loops /\ a \in RunActors /\ Right(obj, a) /\ spec \in SpecType /\ obj.to[s] = Nil
      /\ obj.state[a] \in States /\ obj.mail[a] \in Nat /\ obj.flag[a] \in {0, 1}
      /\ obj.held = [obj.held EXCEPT ![s] = a] /\ obj.to = [obj.to EXCEPT ![s] = Nil]
  BY <1>1, <1>2, AtHand
<1>4. obj.flag[a] = 0
  BY <1>1, <1>2, <1>3 DEF Right, OnFiberOf, Fiber
<1>5. CASE obj.mail[a] > 0
  <2>1. PICK m \in Nat : m = obj.mail[a] - 1
    BY <1>3, <1>5
  <2>2. obj' = [obj EXCEPT !.mail[a] = m]
    BY <1>1, <1>5, <2>1 DEF Q!Receive
  <2>3. Turned(obj, obj, s, "in", a, Nil, a, obj.state[a], obj.mail[a], obj.flag[a])
    BY <1>2, <1>3 DEF Turned, Moving, SameQueues, Loops
  <2>4. Marked(obj, obj, obj', a, obj.state[a], m, obj.flag[a])
    BY <2>2 DEF Marked
  <2>5. Turned(obj, obj', s, "in", a, Nil, a, obj.state[a], m, obj.flag[a])
    BY <1>3, <2>3, <2>4, Marks
  <2> QED BY <1>1, <1>2, <1>3, <1>4, <2>5, OnFiberKeeps
<1>6. CASE ~(obj.mail[a] > 0)
  <2>1. obj' = Q!Goto(obj, s, "flag")
    BY <1>1, <1>6 DEF Q!Receive
  <2>2. Turned(obj, obj', s, "flag", a, Nil, a, obj.state[a], obj.mail[a], obj.flag[a])
    BY <1>1, <1>2, <2>1, MovesOn
  <2>3. "in" \notin Away /\ "flag" \notin Away
    BY DEF Away
  <2> QED BY <1>1, <1>2, <1>3, <1>4, <2>2, <2>3, OnFiberKeeps
<1> QED BY <1>5, <1>6

LEMMA RaiseKeeps ==
  ASSUME DispatchInv, NEW s \in LoopThreads, Q!RaiseFlag(s)
  PROVE  DispatchInv'
<1>1. PICK a, g : a = obj.held[s] /\ g = Q!Goto(obj, s, "recheck")
  OBVIOUS
<1>2. obj.at[s] = "flag" /\ obj.at[s] \in Hand /\ "recheck" \in Hand /\ spec' = spec
  BY DEF Q!RaiseFlag, Hand
<1>3. /\ obj \in Loops /\ a \in RunActors /\ spec \in SpecType
      /\ obj.state[a] \in States /\ obj.mail[a] \in Nat /\ 1 \in {0, 1}
  BY <1>1, <1>2, AtHand
<1>4. Turned(obj, g, s, "recheck", a, Nil, a, obj.state[a], obj.mail[a], obj.flag[a])
  BY <1>1, <1>2, MovesOn
<1>5. obj' = [g EXCEPT !.flag[a] = 1]
  BY <1>1 DEF Q!RaiseFlag
<1>6. Marked(obj, g, obj', a, obj.state[a], obj.mail[a], 1)
  BY <1>5 DEF Marked
<1>7. Turned(obj, obj', s, "recheck", a, Nil, a, obj.state[a], obj.mail[a], 1)
  BY <1>3, <1>4, <1>6, Marks
<1>8. "flag" \notin Away /\ "recheck" \in Away
  BY DEF Away
<1> QED BY <1>1, <1>2, <1>3, <1>7, <1>8, OnFiberKeeps

LEMMA RecheckKeeps ==
  ASSUME DispatchInv, NEW s \in LoopThreads, Q!Recheck(s)
  PROVE  DispatchInv'
<1>1. PICK a, g : a = obj.held[s] /\ g = Q!Goto(obj, s, "in")
  OBVIOUS
<1>2. /\ obj.at[s] = "recheck" /\ obj.at[s] \in Hand /\ "in" \in Hand /\ "yield" \in Hand
      /\ "in" \notin Away /\ "recheck" \in Away /\ "yield" \in Away
  BY DEF Q!Recheck, Hand, Away
<1>3. /\ obj \in Loops /\ a \in RunActors /\ spec \in SpecType
      /\ obj.state[a] \in States /\ obj.mail[a] \in Nat /\ obj.flag[a] \in {0, 1} /\ 0 \in {0, 1}
  BY <1>1, <1>2, AtHand
<1>4. CASE obj.mail[a] > 0
  <2>1. PICK m \in Nat : m = obj.mail[a] - 1
    BY <1>3, <1>4
  <2>2. /\ obj' = [g EXCEPT !.mail[a] = @ - 1, !.flag[a] = 0]
        /\ spec' = IF obj.flag[a] = 0 THEN [spec EXCEPT !.doubled = @ \cup {a}] ELSE spec
    BY <1>1, <1>3, <1>4 DEF Q!Recheck
  <2>3. Turned(obj, g, s, "in", a, Nil, a, obj.state[a], obj.mail[a], obj.flag[a])
    BY <1>1, <1>2, MovesOn
  <2>4. g.mail[a] = obj.mail[a] /\ g \in Loops
    <3>1. obj.mail \in [RunActors -> Nat]
      BY <1>3 DEF Loops
    <3> QED BY <1>3, <2>3, <3>1 DEF Turned
  <2>5. obj' = [g EXCEPT !.mail[a] = m, !.flag[a] = 0]
    BY <2>1, <2>2, <2>4
  <2>6. Marked(obj, g, obj', a, obj.state[a], m, 0)
    BY <2>5 DEF Marked
  <2>7. Turned(obj, obj', s, "in", a, Nil, a, obj.state[a], m, 0)
    BY <1>3, <2>1, <2>3, <2>6, Marks
  <2>8. /\ spec' \in SpecType /\ spec.doubled \subseteq spec'.doubled /\ spec.dropped \subseteq spec'.dropped
        /\ a \in spec'.doubled \/ obj.flag[a] = 1
    BY <1>3, <2>2 DEF SpecType
  <2> QED BY <1>1, <1>2, <1>3, <2>7, <2>8, OnFiberKeeps
<1>5. CASE ~(obj.mail[a] > 0)
  <2>1. obj' = Q!Goto(obj, s, "yield") /\ spec' = spec
    BY <1>1, <1>5 DEF Q!Recheck
  <2>2. Turned(obj, obj', s, "yield", a, Nil, a, obj.state[a], obj.mail[a], obj.flag[a])
    BY <1>1, <1>2, <2>1, MovesOn
  <2> QED BY <1>1, <1>2, <1>3, <1>5, <2>1, <2>2, OnFiberKeeps
<1> QED BY <1>4, <1>5

LEMMA YieldKeeps ==
  ASSUME DispatchInv, NEW s \in LoopThreads, Q!Yield(s)
  PROVE  DispatchInv'
<1>1. PICK a, g : a = obj.held[s] /\ g = Q!Goto(obj, s, "after")
  OBVIOUS
<1>2. obj.at[s] = "yield" /\ obj.at[s] \in Hand /\ "after" \in Hand /\ spec' = spec
  BY DEF Q!Yield, Hand
<1>3. /\ obj \in Loops /\ a \in RunActors /\ Right(obj, a) /\ spec \in SpecType /\ obj.to[s] = Nil /\ a # Nil
      /\ obj.mail[a] \in Nat /\ obj.flag[a] \in {0, 1} /\ "blocked" \in States
  BY <1>1, <1>2, AtHand DEF States
<1>4. Turned(obj, g, s, "after", a, Nil, a, obj.state[a], obj.mail[a], obj.flag[a])
  BY <1>1, <1>2, MovesOn
<1>5. obj' = [g EXCEPT !.state[a] = "blocked"]
  BY <1>1 DEF Q!Yield
<1>6. Marked(obj, g, obj', a, "blocked", obj.mail[a], obj.flag[a])
  BY <1>5 DEF Marked
<1>7. Turned(obj, obj', s, "after", a, Nil, a, "blocked", obj.mail[a], obj.flag[a])
  BY <1>3, <1>4, <1>6, Marks
<1>8. /\ OthersStay(obj, obj', s) /\ obj'.at[s] = "after" /\ obj'.held[s] = a /\ obj'.to[s] = Nil
      /\ obj'.state[a] = "blocked" /\ obj'.mail[a] = obj.mail[a] /\ obj'.flag[a] = obj.flag[a]
  BY <1>3, <1>7, TurnedFields
<1>9. OnFiberOf(obj, s, a) /\ ~OnFiberOf(obj', s, a) /\ obj.state[a] = "running"
  <2>1. OnFiberOf(obj, s, a) /\ ~OnFiberOf(obj', s, a)
    BY <1>1, <1>2, <1>8 DEF OnFiberOf, Fiber
  <2> QED BY <1>3, <2>1 DEF Right
<1>10. Right(obj', a)
  <2>1. ASSUME obj.flag[a] = 1, obj.mail[a] > 0 PROVE \E t \in LoopThreads : obj'.to[t] = a /\ obj'.at[t] = "wake"
    <3>1. \A t \in LoopThreads : obj.held[t] = a /\ obj.at[t] = "recheck" => t = s
      BY <1>3, <1>9 DEF Right, OnFiberOf, Fiber
    <3>2. PICK t \in LoopThreads : obj.to[t] = a /\ obj.at[t] = "wake"
      BY <1>2, <1>3, <2>1, <3>1 DEF Right
    <3> QED BY <1>2, <1>8, <3>2 DEF OthersStay
  <2> QED BY <1>3, <1>8, <1>9, <2>1, RightLeaves
<1>11. SameHand(obj, obj', a, s)
  BY <1>2, <1>3, <1>8 DEF SameHand, InHand, Wakes, Away
<1>12. Fine(obj, obj', spec.doubled, spec'.doubled, spec'.dropped, s, a)
  BY <1>8, <1>9, <1>11 DEF Fine
<1> QED BY <1>1, <1>2, <1>3, <1>7, <1>10, <1>12, OwnTurnKeeps

LEMMA EndKeeps ==
  ASSUME DispatchInv, NEW s \in LoopThreads, Q!EndQuantum(s)
  PROVE  DispatchInv'
<1>1. PICK a : a = obj.held[s]
  OBVIOUS
<1>2. /\ obj.at[s] = "in" /\ obj.at[s] \in Hand /\ "requeue" \in Hand /\ "leave" \in Hand /\ spec' = spec
      /\ "ready" \in States /\ "dead" \in States
  BY DEF Q!EndQuantum, Hand, States
<1>3. /\ obj \in Loops /\ a \in RunActors /\ Right(obj, a) /\ spec \in SpecType /\ obj.to[s] = Nil /\ a # Nil
      /\ obj.mail[a] \in Nat /\ obj.flag[a] \in {0, 1}
  BY <1>1, <1>2, AtHand
<1>4. PICK l, st : /\ (l = "requeue" /\ st = "ready") \/ (l = "leave" /\ st = "dead")
                   /\ \/ obj' = [Q!Goto(obj, s, l) EXCEPT !.state[a] = st]
                      \/ obj' = [Q!Goto(obj, s, l) EXCEPT !.state[a] = st, !.preempts = @ + 1]
  <2>1. \/ obj' = [Q!Goto(obj, s, "requeue") EXCEPT !.state[a] = "ready", !.preempts = @ + 1]
        \/ obj' = [Q!Goto(obj, s, "leave") EXCEPT !.state[a] = "dead"]
    BY <1>1 DEF Q!EndQuantum
  <2>2. CASE obj' = [Q!Goto(obj, s, "requeue") EXCEPT !.state[a] = "ready", !.preempts = @ + 1]
    BY <2>2, Zenon
  <2>3. CASE obj' = [Q!Goto(obj, s, "leave") EXCEPT !.state[a] = "dead"]
    BY <2>3, Zenon
  <2> QED BY Zenon, <2>1, <2>2, <2>3
<1>5. PICK g : g = Q!Goto(obj, s, l)
  OBVIOUS
<1>6. l \in Hand /\ st \in States
  BY <1>2, <1>4
<1>7. Turned(obj, g, s, l, a, Nil, a, obj.state[a], obj.mail[a], obj.flag[a])
  BY <1>1, <1>2, <1>5, <1>6, MovesOn
<1>8. PICK n : n = [g EXCEPT !.state[a] = st]
  OBVIOUS
<1>9. Marked(obj, g, n, a, st, obj.mail[a], obj.flag[a])
  BY <1>8 DEF Marked
<1>10. Turned(obj, n, s, l, a, Nil, a, st, obj.mail[a], obj.flag[a])
  BY <1>3, <1>6, <1>7, <1>9, Marks
<1>11. obj' = n \/ obj' = [n EXCEPT !.preempts = @ + 1]
  <2>1. g \in Loops
    BY <1>7 DEF Turned
  <2> QED BY <1>4, <1>5, <1>8, <2>1 DEF Loops
<1>12. Turned(obj, obj', s, l, a, Nil, a, st, obj.mail[a], obj.flag[a])
  <2>1. CASE obj' = n
    BY <1>10, <2>1
  <2>2. CASE obj' = [n EXCEPT !.preempts = @ + 1]
    <3>1. n.preempts + 1 \in Nat /\ n \in Loops
      BY <1>10 DEF Turned, Loops
    <3>2. /\ obj' \in Loops /\ SameQueues(n, obj') /\ obj'.held = n.held /\ obj'.to = n.to /\ obj'.at = n.at
          /\ obj'.state = n.state /\ obj'.mail = n.mail /\ obj'.flag = n.flag
      BY <2>2, <3>1 DEF Loops, SameQueues
    <3> QED BY <1>10, <3>2 DEF Turned, Moving, SameQueues
  <2> QED BY <1>11, <2>1, <2>2
<1>13. /\ OthersStay(obj, obj', s) /\ obj'.at[s] = l /\ obj'.held[s] = a /\ obj'.to[s] = Nil
       /\ obj'.state[a] = st /\ obj'.mail[a] = obj.mail[a] /\ obj'.flag[a] = obj.flag[a]
  BY <1>3, <1>12, TurnedFields
<1>14. OnFiberOf(obj, s, a) /\ ~OnFiberOf(obj', s, a) /\ obj.flag[a] = 0 /\ obj.state[a] = "running"
  <2>1. OnFiberOf(obj, s, a) /\ ~OnFiberOf(obj', s, a)
    BY <1>1, <1>2, <1>4, <1>13 DEF OnFiberOf, Fiber
  <2> QED BY <1>2, <1>3, <2>1 DEF Right
<1>15. Right(obj', a)
  BY <1>3, <1>13, <1>14, RightLeaves
<1>16. Fine(obj, obj', spec.doubled, spec'.doubled, spec'.dropped, s, a)
  <2>1. /\ ~Wakes(obj, a, s) /\ ~Wakes(obj', a, s) /\ InHand(obj, a, s)
        /\ InHand(obj', a, s) <=> l = "requeue"
    BY <1>1, <1>2, <1>3, <1>4, <1>13 DEF Wakes, InHand, Away
  <2> QED BY <1>4, <1>13, <1>14, <2>1 DEF Fine, SameHand, AtThread
<1> QED BY <1>1, <1>2, <1>3, <1>6, <1>12, <1>15, <1>16, OwnTurnKeeps

-----------------------------------------------------------------------------
(* Messages on their way                                                    *)

(* Thread s delivers a message to actor b, and has yet to look at its flag. *)
LEMMA DeliverKeeps ==
  ASSUME DispatchInv, NEW s \in LoopThreads, obj.at[s] \in {"in", "loop"}, NEW b \in RunActors, b # obj.held[s],
         NEW m, m = obj.mail[b] + 1,
         Turned(obj, obj', s, "wake", obj.held[s], b, b, obj.state[b], m, obj.flag[b]), spec' = spec
  PROVE  DispatchInv'
<1>1. obj \in Loops /\ HandsInv(obj) /\ spec \in SpecType /\ b # Nil
  BY LoopAssumption DEF DispatchInv, LoopsInv
<1>2. PICK v : v = obj.held[s]
  OBVIOUS
<1>3. obj.to[s] = Nil /\ (obj.at[s] = "loop" => v = Nil) /\ (obj.at[s] = "in" => v \in RunActors) /\ Nil \notin RunActors
  BY <1>1, <1>2, LoopAssumption DEF HandsInv, Hands, Loops, Hand, Sending
<1>4. /\ obj' \in Loops /\ SameQueues(obj, obj') /\ OthersStay(obj, obj', s)
      /\ obj'.at[s] = "wake" /\ obj'.held[s] = v /\ obj'.to[s] = b
      /\ obj'.state[b] = obj.state[b] /\ obj'.flag[b] = obj.flag[b]
      /\ \A c \in RunActors \ {b} : /\ obj'.state[c] = obj.state[c] /\ obj'.mail[c] = obj.mail[c]
                                    /\ obj'.flag[c] = obj.flag[c]
  BY <1>1, <1>2, TurnedFields
<1>5. Hands(obj')
  BY <1>1, <1>2, <1>4, HandsStay DEF HandsInv, Hand, Sending
<1>6. Right(obj', b)
  <2>1. ~OnFiberOf(obj, s, b) /\ ~OnFiberOf(obj', s, b)
    BY <1>2, <1>4 DEF OnFiberOf
  <2> QED BY <1>1, <1>4, <2>1, RightSent DEF HandsInv
<1>7. ASSUME NEW c \in RunActors \ {b} PROVE Right(obj', c)
  <2>1. CASE c = v
    <3>1. OnFiberOf(obj, s, c) /\ OnFiberOf(obj', s, c) /\ obj.at[s] = "in"
      BY <1>2, <1>3, <1>4, <2>1 DEF OnFiberOf, Fiber
    <3>2. obj.flag[c] = 0 /\ obj.state[c] = "running"
      BY <1>1, <3>1 DEF HandsInv, Right
    <3> QED BY <1>1, <1>4, <3>1, <3>2, RightOnFiber DEF HandsInv
  <2>2. CASE c # v
    <3>1. ~OnFiberOf(obj, s, c) /\ ~OnFiberOf(obj', s, c) /\ obj.at[s] # "wake"
      BY <1>2, <1>4, <2>2 DEF OnFiberOf
    <3> QED BY <1>1, <1>4, <3>1, RightStays DEF HandsInv
  <2> QED BY <2>1, <2>2
<1>8. HandsInv(obj')
  BY <1>5, <1>6, <1>7 DEF HandsInv
<1>9. ASSUME NEW c \in RunActors PROVE Fine(obj, obj', spec.doubled, spec'.doubled, spec'.dropped, s, c)
  <2>1. SameHand(obj, obj', c, s)
    BY <1>2, <1>3, <1>4 DEF SameHand, InHand, Wakes, Away
  <2> QED BY <1>4, <2>1 DEF Fine
<1>10. Moving(obj, obj', s, "wake", v, b) /\ obj.at[s] \notin Before \cup {"stopped"} /\ "wake" \notin Before
  BY <1>2 DEF Turned, Before
<1> QED BY <1>1, <1>4, <1>8, <1>9, <1>10, TurnKeeps

(* The record Deliver makes.                                                *)
LEMMA Delivered ==
  ASSUME NEW o \in Loops, NEW s \in LoopThreads, NEW b \in RunActors, NEW g, g = Q!Deliver(o, s, b)
  PROVE  Turned(o, g, s, "wake", o.held[s], b, b, o.state[b], o.mail[b] + 1, o.flag[b])
<1>1. PICK h : h = Q!Goto(o, s, "wake")
  OBVIOUS
<1>2. "wake" \in Locs
  BY DEF Locs
<1>3. /\ h \in Loops /\ SameQueues(o, h) /\ h.at = [o.at EXCEPT ![s] = "wake"]
      /\ h.held = o.held /\ h.to = o.to /\ h.state = o.state /\ h.mail = o.mail /\ h.flag = o.flag
  BY <1>1, <1>2, Goes
<1>4. g = [h EXCEPT !.mail[b] = @ + 1, !.to[s] = b]
  BY <1>1 DEF Q!Deliver
<1>5. PICK M, T : M = [o.mail EXCEPT ![b] = o.mail[b] + 1] /\ T = [o.to EXCEPT ![s] = b]
  OBVIOUS
<1>6. M \in [RunActors -> Nat] /\ T \in [LoopThreads -> RunActors \cup {Nil}]
  BY <1>5 DEF Loops
<1>9. g = [h EXCEPT !.mail = M, !.to = T]
  BY <1>3, <1>4, <1>5 DEF Loops
<1>7. /\ g \in Loops /\ SameQueues(h, g) /\ g.at = h.at /\ g.held = h.held /\ g.state = h.state /\ g.flag = h.flag
      /\ g.mail = M /\ g.to = T
  <2>1. h \in Loops
    BY <1>3
  <2> QED BY <1>6, <1>9, <2>1 DEF Loops, SameQueues
<1>8. /\ o.held = [o.held EXCEPT ![s] = o.held[s]] /\ o.state = [o.state EXCEPT ![b] = o.state[b]]
      /\ o.flag = [o.flag EXCEPT ![b] = o.flag[b]]
  BY DEF Loops
<1> QED BY <1>3, <1>5, <1>7, <1>8 DEF Turned, Moving, SameQueues

LEMMA SendKeeps ==
  ASSUME DispatchInv, NEW s \in LoopThreads, NEW b \in RunActors, Q!Send(s, b)
  PROVE  DispatchInv'
<1>1. obj.at[s] = "in" /\ b # obj.held[s] /\ spec' = spec /\ obj \in Loops
  BY DEF Q!Send, DispatchInv, LoopsInv
<1>2. PICK g : g = Q!Deliver(obj, s, b)
  OBVIOUS
<1>3. PICK m, v : m = obj.mail[b] + 1 /\ v = obj.held[s]
  OBVIOUS
<1>4. Turned(obj, g, s, "wake", v, b, b, obj.state[b], m, obj.flag[b])
  BY <1>1, <1>2, <1>3, Delivered
<1>5. obj' = [g EXCEPT !.sent = @ + 1]
  BY <1>2 DEF Q!Send
<1>6. g.sent + 1 \in Nat /\ g \in Loops
  BY <1>4 DEF Turned, Loops
<1>7. /\ obj' \in Loops /\ SameQueues(g, obj') /\ obj'.held = g.held /\ obj'.to = g.to /\ obj'.at = g.at
      /\ obj'.state = g.state /\ obj'.mail = g.mail /\ obj'.flag = g.flag
  BY <1>5, <1>6 DEF Loops, SameQueues
<1>8. Turned(obj, obj', s, "wake", v, b, b, obj.state[b], m, obj.flag[b])
  BY <1>4, <1>7 DEF Turned, Moving, SameQueues
<1> QED BY <1>1, <1>3, <1>8, DeliverKeeps

(* Nobody has to do with an actor that does not exist.                      *)
LEMMA NothingInHand ==
  ASSUME DispatchInv, NEW s \in LoopThreads, obj.at[s] \notin Hand \cup Sending
  PROVE  obj.held[s] = Nil /\ obj.to[s] = Nil /\ Nil \notin RunActors /\ obj \in Loops /\ HandsInv(obj)
BY LoopAssumption DEF DispatchInv, LoopsInv, HandsInv, Hands

(* A thread without an actor goes to another place in its loop.             *)
LEMMA EmptyTurnKeeps ==
  ASSUME DispatchInv, NEW s \in LoopThreads, obj.at[s] \in {"loop", "empty", "idle", "again"},
         NEW l \in {"loop", "empty", "idle", "again", "stop"}, obj' \in Loops,
         Moving(obj, obj', s, l, Nil, Nil), obj'.state = obj.state, obj'.mail = obj.mail, obj'.flag = obj.flag,
         spec' = spec
  PROVE  DispatchInv'
<1>1. /\ obj.held[s] = Nil /\ obj.to[s] = Nil /\ Nil \notin RunActors /\ obj \in Loops /\ HandsInv(obj)
      /\ spec \in SpecType
  BY NothingInHand DEF Hand, Sending, DispatchInv
<1>2. OthersStay(obj, obj', s) /\ obj'.at[s] = l /\ obj'.held[s] = Nil /\ obj'.to[s] = Nil
  BY <1>1, MovedHand
<1>3. Hands(obj')
  BY <1>1, <1>2, HandsStay DEF HandsInv, Hand, Sending
<1>4. ASSUME NEW c \in RunActors PROVE Right(obj', c) /\ SameHand(obj, obj', c, s)
  <2>1. ~OnFiberOf(obj, s, c) /\ ~OnFiberOf(obj', s, c) /\ obj.to[s] # c
    BY <1>1, <1>2 DEF OnFiberOf
  <2>2. Right(obj', c)
    BY <1>1, <1>2, <2>1, RightStays DEF HandsInv
  <2> QED BY <1>1, <1>2, <2>2 DEF SameHand, InHand, Wakes
<1>5. HandsInv(obj') /\ \A c \in RunActors : Fine(obj, obj', spec.doubled, spec'.doubled, spec'.dropped, s, c)
  BY <1>3, <1>4 DEF HandsInv, Fine
<1>6. obj.at[s] \notin Before \cup {"stopped"} /\ l \notin Before
  BY DEF Before
<1> QED BY <1>1, <1>5, <1>6, TurnKeeps

LEMMA ZeroKeeps ==
  ASSUME DispatchInv, obj.at[0] \in {"loop", "empty", "idle", "again"},
         NEW l \in {"loop", "empty", "idle", "again", "stop"}, obj' = Q!Goto(obj, 0, l), UNCHANGED spec
  PROVE  DispatchInv'
<1>1. /\ obj.held[0] = Nil /\ obj.to[0] = Nil /\ obj \in Loops /\ l \in Locs /\ 0 \in LoopThreads
  BY ZeroIsThread, NothingInHand DEF Hand, Sending, Locs
<1>2. /\ obj' \in Loops /\ SameQueues(obj, obj') /\ obj'.at = [obj.at EXCEPT ![0] = l]
      /\ obj'.held = obj.held /\ obj'.to = obj.to
      /\ obj'.state = obj.state /\ obj'.mail = obj.mail /\ obj'.flag = obj.flag
  BY <1>1, Goes
<1>3. obj.held = [obj.held EXCEPT ![0] = Nil] /\ obj.to = [obj.to EXCEPT ![0] = Nil]
  BY <1>1 DEF Loops
<1>4. Moving(obj, obj', 0, l, Nil, Nil)
  BY <1>2, <1>3 DEF Moving
<1> QED BY <1>1, <1>2, <1>4, EmptyTurnKeeps

LEMMA ScheduleZeroKeeps ==
  ASSUME DispatchInv, Q!FindNothing \/ Q!SeeRunning \/ Q!SeeAllIdle
  PROVE  DispatchInv'
<1>1. CASE Q!FindNothing
  BY <1>1, ZeroKeeps DEF Q!FindNothing
<1>2. CASE Q!SeeRunning
  <2>1. PICK l \in {"idle", "again"} : obj' = Q!Goto(obj, 0, l)
    BY <1>2 DEF Q!SeeRunning
  <2> QED BY <1>2, <2>1, ZeroKeeps DEF Q!SeeRunning
<1>3. CASE Q!SeeAllIdle
  <2>1. PICK l \in {"stop", "again"} : obj' = Q!Goto(obj, 0, l)
    BY <1>3 DEF Q!SeeAllIdle
  <2> QED BY <1>3, <2>1, ZeroKeeps DEF Q!SeeAllIdle
<1> QED BY <1>1, <1>2, <1>3

LEMMA TimerKeeps ==
  ASSUME DispatchInv, Q!timer_tick_all
  PROVE  DispatchInv'
<1>1. /\ obj.held[0] = Nil /\ obj.to[0] = Nil /\ obj \in Loops /\ 0 \in LoopThreads /\ obj.at[0] = "loop"
      /\ Nil \notin RunActors /\ spec' = spec
  BY ZeroIsThread, NothingInHand DEF Hand, Sending, Q!timer_tick_all
<1>2. CASE obj.timer \in Q!Alive
  <2>1. PICK b \in RunActors : b = obj.timer
    BY <1>2 DEF Q!Alive
  <2>2. PICK g : g = Q!Deliver(obj, 0, b)
    OBVIOUS
  <2>3. PICK m : m = obj.mail[b] + 1
    OBVIOUS
  <2>4. Turned(obj, g, 0, "wake", Nil, b, b, obj.state[b], m, obj.flag[b])
    BY <1>1, <2>2, <2>3, Delivered
  <2>5. obj' = [g EXCEPT !.timer = Nil]
    BY <1>2, <2>1, <2>2 DEF Q!timer_tick_all
  <2>6. g \in Loops
    BY <2>4 DEF Turned
  <2>7. /\ obj' \in Loops /\ SameQueues(g, obj') /\ obj'.held = g.held /\ obj'.to = g.to /\ obj'.at = g.at
        /\ obj'.state = g.state /\ obj'.mail = g.mail /\ obj'.flag = g.flag
    BY <2>5, <2>6 DEF Loops, SameQueues
  <2>8. Turned(obj, obj', 0, "wake", Nil, b, b, obj.state[b], m, obj.flag[b])
    BY <2>4, <2>7 DEF Turned, Moving, SameQueues
  <2> QED BY <1>1, <2>3, <2>8, DeliverKeeps
<1>3. CASE obj.timer \notin Q!Alive
  <2>1. obj' = [obj EXCEPT !.timer = Nil]
    BY <1>3 DEF Q!timer_tick_all
  <2>2. /\ obj' \in Loops /\ SameQueues(obj, obj') /\ obj'.held = obj.held /\ obj'.to = obj.to /\ obj'.at = obj.at
        /\ obj'.state = obj.state /\ obj'.mail = obj.mail /\ obj'.flag = obj.flag
    BY <1>1, <2>1 DEF Loops, SameQueues
  <2>3. /\ obj.held = [obj.held EXCEPT ![0] = Nil] /\ obj.to = [obj.to EXCEPT ![0] = Nil]
        /\ obj.at = [obj.at EXCEPT ![0] = "loop"]
    BY <1>1 DEF Loops
  <2>4. Moving(obj, obj', 0, "loop", Nil, Nil)
    BY <2>2, <2>3 DEF Moving
  <2> QED BY <1>1, <2>2, <2>4, EmptyTurnKeeps
<1> QED BY <1>2, <1>3

(* The record Sent makes: the sender goes on with its actor, or scheduler 0 *)
(* in its loop.                                                             *)
LEMMA SentFields ==
  ASSUME NEW o \in Loops, NEW s \in LoopThreads, NEW n, n = Q!Sent(o, s)
  PROVE  \E l \in {"loop", "in"} :
           /\ l = "loop" <=> o.held[s] = Nil
           /\ n \in Loops /\ Moving(o, n, s, l, o.held[s], Nil)
           /\ n.state = o.state /\ n.mail = o.mail /\ n.flag = o.flag
<1>1. PICK l \in {"loop", "in"} : l = IF o.held[s] = Nil THEN "loop" ELSE "in"
  OBVIOUS
<1>2. PICK h, T : h = Q!Goto(o, s, l) /\ T = [o.to EXCEPT ![s] = Nil]
  OBVIOUS
<1>3. l \in Locs
  BY DEF Locs
<1>4. /\ h \in Loops /\ SameQueues(o, h) /\ h.at = [o.at EXCEPT ![s] = l]
      /\ h.held = o.held /\ h.to = o.to /\ h.state = o.state /\ h.mail = o.mail /\ h.flag = o.flag
  BY <1>2, <1>3, Goes
<1>5. n = [h EXCEPT !.to[s] = Nil]
  BY <1>1, <1>2 DEF Q!Sent
<1>6. n = [h EXCEPT !.to = T]
  BY <1>2, <1>4, <1>5 DEF Loops
<1>7. T \in [LoopThreads -> RunActors \cup {Nil}] /\ o.held = [o.held EXCEPT ![s] = o.held[s]]
  BY <1>2 DEF Loops
<1>8. /\ n \in Loops /\ SameQueues(h, n) /\ n.at = h.at /\ n.held = h.held /\ n.state = h.state
      /\ n.mail = h.mail /\ n.flag = h.flag /\ n.to = T
  <2>1. h \in Loops
    BY <1>4
  <2> QED BY <1>6, <1>7, <2>1 DEF Loops, SameQueues
<1> QED BY <1>1, <1>2, <1>4, <1>7, <1>8 DEF Moving, SameQueues

LEMMA ExchangeKeeps ==
  ASSUME DispatchInv, NEW s \in LoopThreads, Q!ExchangeFlag(s)
  PROVE  DispatchInv'
<1>1. PICK b, v : b = obj.to[s] /\ v = obj.held[s]
  OBVIOUS
<1>2. /\ obj.at[s] = "wake" /\ spec' = spec /\ obj \in Loops /\ HandsInv(obj) /\ spec \in SpecType
      /\ b \in RunActors /\ b # Nil /\ b # v /\ Nil \notin RunActors /\ v \in RunActors \cup {Nil}
  <2>1. obj.at[s] = "wake" /\ spec' = spec /\ obj \in Loops /\ HandsInv(obj) /\ spec \in SpecType /\ Nil \notin RunActors
    BY LoopAssumption DEF Q!ExchangeFlag, DispatchInv, LoopsInv
  <2> QED BY <1>1, <2>1 DEF HandsInv, Hands, Sending, Loops
<1>3. \E l \in {"loop", "in", "enqueue"} : \E w \in {b, Nil} : \E f \in {0, 1} :
        /\ Turned(obj, obj', s, l, v, w, b, obj.state[b], obj.mail[b], f) /\ f = 0
        /\ \/ l = "enqueue" /\ w = b /\ obj.flag[b] = 1
           \/ l # "enqueue" /\ w = Nil /\ obj.flag[b] = 0 /\ (l = "loop" <=> v = Nil)
  <2>0. obj.state[b] \in States /\ obj.mail[b] \in Nat /\ obj.flag[b] \in {0, 1}
    BY <1>2 DEF Loops
  <2>1. CASE obj.flag[b] = 1
    <3>1. PICK g : g = Q!Goto(obj, s, "enqueue")
      OBVIOUS
    <3>2. "enqueue" \in Locs
      BY DEF Locs
    <3>3. /\ g \in Loops /\ SameQueues(obj, g) /\ g.at = [obj.at EXCEPT ![s] = "enqueue"]
          /\ g.held = obj.held /\ g.to = obj.to /\ g.state = obj.state /\ g.mail = obj.mail /\ g.flag = obj.flag
      BY <1>2, <3>1, <3>2, Goes
    <3>4. /\ obj.held = [obj.held EXCEPT ![s] = v] /\ obj.to = [obj.to EXCEPT ![s] = b]
          /\ obj.state = [obj.state EXCEPT ![b] = obj.state[b]] /\ obj.mail = [obj.mail EXCEPT ![b] = obj.mail[b]]
          /\ obj.flag = [obj.flag EXCEPT ![b] = obj.flag[b]]
      BY <1>1, <1>2 DEF Loops
    <3>5. Turned(obj, g, s, "enqueue", v, b, b, obj.state[b], obj.mail[b], obj.flag[b])
      BY <3>3, <3>4 DEF Turned, Moving
    <3>6. obj' = [g EXCEPT !.flag[b] = 0]
      BY <1>1, <2>1, <3>1 DEF Q!ExchangeFlag
    <3>7. Marked(obj, g, obj', b, obj.state[b], obj.mail[b], 0) /\ 0 \in {0, 1}
      BY <3>6 DEF Marked
    <3>8. Turned(obj, obj', s, "enqueue", v, b, b, obj.state[b], obj.mail[b], 0)
      BY <1>2, <2>0, <3>5, <3>7, Marks
    <3> QED BY <2>1, <3>8
  <2>2. CASE obj.flag[b] # 1
    <3>1. obj' = Q!Sent(obj, s)
      BY <1>1, <2>2 DEF Q!ExchangeFlag
    <3>2. PICK l \in {"loop", "in"} :
            /\ l = "loop" <=> v = Nil
            /\ obj' \in Loops /\ Moving(obj, obj', s, l, v, Nil)
            /\ obj'.state = obj.state /\ obj'.mail = obj.mail /\ obj'.flag = obj.flag
      BY <1>1, <1>2, <3>1, SentFields
    <3>3. /\ obj.state = [obj.state EXCEPT ![b] = obj.state[b]] /\ obj.mail = [obj.mail EXCEPT ![b] = obj.mail[b]]
          /\ obj.flag = [obj.flag EXCEPT ![b] = 0] /\ obj.flag[b] = 0
      BY <1>2, <2>0, <2>2 DEF Loops
    <3>4. Turned(obj, obj', s, l, v, Nil, b, obj.state[b], obj.mail[b], 0)
      BY <3>2, <3>3 DEF Turned
    <3> QED BY <3>2, <3>3, <3>4
  <2> QED BY <2>1, <2>2
<1>4. PICK l \in {"loop", "in", "enqueue"}, w \in {b, Nil} :
        /\ Turned(obj, obj', s, l, v, w, b, obj.state[b], obj.mail[b], 0)
        /\ \/ l = "enqueue" /\ w = b /\ obj.flag[b] = 1
           \/ l # "enqueue" /\ w = Nil /\ obj.flag[b] = 0 /\ (l = "loop" <=> v = Nil)
  BY <1>3
<1>5. /\ obj' \in Loops /\ OthersStay(obj, obj', s) /\ obj'.at[s] = l /\ obj'.held[s] = v /\ obj'.to[s] = w
      /\ obj'.state[b] = obj.state[b] /\ obj'.mail[b] = obj.mail[b] /\ obj'.flag[b] = 0
      /\ \A c \in RunActors \ {b} : /\ obj'.state[c] = obj.state[c] /\ obj'.mail[c] = obj.mail[c]
                                    /\ obj'.flag[c] = obj.flag[c]
  BY <1>2, <1>4, TurnedFields
<1>6. Hands(obj')
  BY <1>1, <1>2, <1>4, <1>5, HandsStay DEF HandsInv, Hand, Sending
<1>7. Right(obj', b)
  <2>1. ~OnFiberOf(obj, s, b) /\ ~OnFiberOf(obj', s, b)
    BY <1>1, <1>2, <1>5 DEF OnFiberOf
  <2> QED BY <1>2, <1>5, <2>1, RightSent DEF HandsInv
<1>8. ASSUME NEW c \in RunActors \ {b} PROVE Right(obj', c)
  <2>1. CASE c = v
    <3>1. OnFiberOf(obj, s, c) /\ OnFiberOf(obj', s, c)
      BY <1>1, <1>2, <1>4, <1>5, <2>1 DEF OnFiberOf, Fiber
    <3>2. obj.flag[c] = 0 /\ obj.state[c] = "running"
      BY <1>2, <3>1 DEF HandsInv, Right
    <3> QED BY <1>2, <1>5, <3>1, <3>2, RightOnFiber DEF HandsInv
  <2>2. CASE c # v
    <3>1. ~OnFiberOf(obj, s, c) /\ ~OnFiberOf(obj', s, c) /\ obj.to[s] # c
      BY <1>1, <1>5, <2>2 DEF OnFiberOf
    <3> QED BY <1>2, <1>5, <3>1, RightStays DEF HandsInv
  <2> QED BY <2>1, <2>2
<1>9. HandsInv(obj')
  BY <1>6, <1>7, <1>8 DEF HandsInv
<1>10. ASSUME NEW c \in RunActors \ {b} PROVE Fine(obj, obj', spec.doubled, spec'.doubled, spec'.dropped, s, c)
  <2>1. SameHand(obj, obj', c, s)
    BY <1>1, <1>2, <1>4, <1>5 DEF SameHand, InHand, Wakes, Away
  <2> QED BY <1>5, <2>1 DEF Fine
<1>11. Fine(obj, obj', spec.doubled, spec'.doubled, spec'.dropped, s, b)
  <2>1. CASE l = "enqueue"
    BY <1>4, <1>5, <2>1 DEF Fine, AtThread, Wakes
  <2>2. CASE l # "enqueue"
    <3>1. SameHand(obj, obj', b, s)
      BY <1>1, <1>2, <1>4, <1>5, <2>2 DEF SameHand, InHand, Wakes
    <3> QED BY <1>4, <1>5, <2>2, <3>1 DEF Fine
  <2> QED BY <2>1, <2>2
<1>12. Moving(obj, obj', s, l, v, w) /\ obj.at[s] \notin Before \cup {"stopped"} /\ l \notin Before
  BY <1>2, <1>4 DEF Turned, Before
<1> QED BY <1>2, <1>5, <1>9, <1>10, <1>11, <1>12, TurnKeeps

-----------------------------------------------------------------------------
(* Steps that change a queue                                                *)

(* Thread s takes actor a out of a queue, into its hand (v = a) or nowhere. *)
LEMMA TakenKeeps ==
  ASSUME DispatchInv, NEW s \in LoopThreads, obj.at[s] \in {"loop", "again"}, NEW a, NEW r, Taking(obj, r, a),
         NEW v, NEW l, (v = a /\ l = "taken") \/ (v = Nil /\ l = "loop"),
         obj' \in Loops, Moving(r, obj', s, l, v, Nil), obj'.state = r.state, obj'.mail = r.mail, obj'.flag = r.flag,
         spec' \in SpecType, spec.doubled \subseteq spec'.doubled, spec.dropped \subseteq spec'.dropped,
         v = Nil => a \in spec'.dropped
  PROVE  DispatchInv'
<1>1. /\ obj.held[s] = Nil /\ obj.to[s] = Nil /\ Nil \notin RunActors /\ obj \in Loops /\ HandsInv(obj)
      /\ LoopsInv(obj, spec.doubled, spec.dropped)
  BY NothingInHand DEF Hand, Sending, DispatchInv
<1>2. /\ r \in Loops /\ a \in RunActors /\ a # Nil /\ QueuesOnly(obj, r)
      /\ ~Nowhere(obj, a) /\ (Alone(obj, a) => Nowhere(r, a))
      /\ \A b \in RunActors \ {a} : Undisturbed(obj, r, b)
  BY <1>1 DEF Taking
<1>3. SameQueues(r, obj') /\ OthersStay(r, obj', s) /\ obj'.at[s] = l /\ obj'.held[s] = v /\ obj'.to[s] = Nil
  BY <1>2, MovedHand
<1>4. /\ OthersStay(obj, obj', s) /\ r.held = obj.held /\ r.at = obj.at /\ r.to = obj.to
      /\ obj'.state = obj.state /\ obj'.mail = obj.mail /\ obj'.flag = obj.flag
  BY <1>2, <1>3 DEF OthersStay, QueuesOnly
<1>5. Hands(obj')
  BY <1>1, <1>2, <1>3, <1>4, HandsStay DEF HandsInv, Hand, Sending
<1>6. ASSUME NEW c \in RunActors PROVE Right(obj', c)
  <2>1. ~OnFiberOf(obj, s, c) /\ ~OnFiberOf(obj', s, c) /\ obj.to[s] # c
    BY <1>1, <1>2, <1>3 DEF OnFiberOf, Fiber
  <2> QED BY <1>1, <1>4, <2>1, RightStays DEF HandsInv
<1>7. ASSUME NEW c \in RunActors
      PROVE  /\ ~Wakes(r, c, s) /\ ~Wakes(obj', c, s) /\ ~InHand(r, c, s)
             /\ InHand(obj', c, s) <=> c = v
  BY <1>1, <1>2, <1>3, <1>4 DEF Wakes, InHand, Away
<1>8. ASSUME NEW c \in RunActors \ {a} PROVE Keeps(obj, obj', c)
  <2>1. SameHand(r, obj', c, s)
    BY <1>1, <1>7 DEF SameHand
  <2>2. Undisturbed(r, obj', c)
    BY <1>3, <1>7, <2>1, HandPlaces
  <2>3. Undisturbed(obj, obj', c)
    BY <1>2, <2>2, Steps
  <2> QED BY <1>4, <2>3 DEF Keeps
<1>9. Settled(obj, spec.doubled, spec.dropped, a)
  BY <1>1, <1>2 DEF LoopsInv
<1>10. Settled(obj', spec'.doubled, spec'.dropped, a)
  <2>1. CASE v = a
    <3>1. AtThread(obj', a, s)
      BY <1>2, <1>7, <2>1 DEF AtThread
    <3>2. ~Nowhere(obj', a) /\ (Nowhere(r, a) => Alone(obj', a))
      BY <1>2, <1>3, <1>7, <3>1, HandPlaces
    <3> QED BY <1>2, <1>4, <1>9, <3>2 DEF Settled
  <2>2. CASE v = Nil
    <3>1. SameHand(r, obj', a, s)
      BY <1>1, <1>2, <1>7, <2>2 DEF SameHand
    <3>2. Undisturbed(r, obj', a) /\ (Nowhere(obj', a) => Alone(obj', a))
      BY <1>2, <1>3, <1>7, <3>1, HandPlaces
    <3> QED BY <1>2, <1>4, <1>9, <2>2, <3>2 DEF Settled, Undisturbed
  <2> QED BY <2>1, <2>2
<1>11. LoopTurn(obj, obj', spec.doubled, spec'.doubled, spec'.dropped, s)
  <2>1. l \notin Before /\ obj.at[s] \notin Before \cup {"stopped"}
    BY DEF Before
  <2> QED BY <1>3, <1>4, <1>5, <1>6, <1>8, <1>10, <2>1 DEF LoopTurn, HandsInv
<1>12. LoopsInv(obj', spec'.doubled, spec'.dropped)
  BY <1>1, <1>11, LoopStep
<1> QED BY <1>12 DEF DispatchInv

LEMMA TakeKeeps ==
  ASSUME DispatchInv, NEW s \in LoopThreads, Q!Take(s)
  PROVE  DispatchInv'
<1>1. PICK p \in Q!Sources(obj, s) : obj' = [Q!Goto(p[2], s, "taken") EXCEPT !.held[s] = p[1]]
  BY DEF Q!Take
<1>2. obj.at[s] = "loop" /\ spec' = spec /\ obj \in Loops /\ spec \in SpecType
  BY DEF Q!Take, DispatchInv, LoopsInv
<1>3. Taking(obj, p[2], p[1])
  BY <1>2, SourceTaken
<1>4. PICK r, a, g : r = p[2] /\ a = p[1] /\ g = Q!Goto(r, s, "taken")
  OBVIOUS
<1>5. r \in Loops /\ a \in RunActors /\ "taken" \in Locs /\ r.to[s] = Nil
  <2>1. obj.to[s] = Nil
    BY <1>2, NothingInHand DEF Hand, Sending
  <2> QED BY <1>3, <1>4, <2>1 DEF Taking, Locs, QueuesOnly
<1>6. /\ g \in Loops /\ SameQueues(r, g) /\ g.at = [r.at EXCEPT ![s] = "taken"]
      /\ g.held = r.held /\ g.to = r.to /\ g.state = r.state /\ g.mail = r.mail /\ g.flag = r.flag
  BY <1>4, <1>5, Goes
<1>7. PICK H : H = [r.held EXCEPT ![s] = a]
  OBVIOUS
<1>8. H \in [LoopThreads -> RunActors \cup {Nil}] /\ r.to = [r.to EXCEPT ![s] = Nil]
  BY <1>5, <1>7 DEF Loops
<1>9. obj' = [g EXCEPT !.held = H]
  BY <1>1, <1>4, <1>6, <1>7 DEF Loops
<1>10. /\ obj' \in Loops /\ SameQueues(g, obj') /\ obj'.at = g.at /\ obj'.held = H /\ obj'.to = g.to
       /\ obj'.state = g.state /\ obj'.mail = g.mail /\ obj'.flag = g.flag
  <2>1. g \in Loops
    BY <1>6
  <2> QED BY <1>8, <1>9, <2>1 DEF Loops, SameQueues
<1>11. /\ Moving(r, obj', s, "taken", a, Nil) /\ Taking(obj, r, a)
       /\ obj'.state = r.state /\ obj'.mail = r.mail /\ obj'.flag = r.flag
  BY <1>3, <1>4, <1>6, <1>7, <1>8, <1>10 DEF Moving, SameQueues
<1>12. a # Nil
  BY <1>5, LoopAssumption
<1> QED BY <1>2, <1>10, <1>11, <1>12, TakenKeeps

LEMMA LookAgainKeeps ==
  ASSUME DispatchInv, Q!LookAgain
  PROVE  DispatchInv'
<1>1. 0 \in LoopThreads /\ obj.at[0] = "again" /\ obj \in Loops /\ spec \in SpecType
  BY ZeroIsThread DEF Q!LookAgain, DispatchInv, LoopsInv
<1>2. CASE UNCHANGED spec /\ (obj' = Q!Goto(obj, 0, "stop") \/ obj' = Q!Goto(obj, 0, "loop"))
  BY <1>1, <1>2, ZeroKeeps
<1>3. ASSUME NEW p \in Q!Sources(obj, 0),
             obj' = Q!Goto(p[2], 0, "loop"), spec' = [spec EXCEPT !.dropped = @ \cup {p[1]}]
      PROVE  DispatchInv'
  <2>1. Taking(obj, p[2], p[1])
    BY <1>1, SourceTaken
  <2>2. PICK r, a : r = p[2] /\ a = p[1]
    OBVIOUS
  <2>3. /\ r \in Loops /\ a \in RunActors /\ r.held[0] = Nil /\ r.to[0] = Nil /\ "loop" \in Locs
        /\ Taking(obj, r, a)
    <3>1. obj.held[0] = Nil /\ obj.to[0] = Nil
      BY <1>1, NothingInHand DEF Hand, Sending
    <3> QED BY <2>1, <2>2, <3>1 DEF Taking, QueuesOnly, Locs
  <2>4. obj' = Q!Goto(r, 0, "loop")
    BY <1>3, <2>2
  <2>5. /\ obj' \in Loops /\ SameQueues(r, obj') /\ obj'.at = [r.at EXCEPT ![0] = "loop"]
        /\ obj'.held = r.held /\ obj'.to = r.to
        /\ obj'.state = r.state /\ obj'.mail = r.mail /\ obj'.flag = r.flag
    BY <1>1, <2>3, <2>4, Goes
  <2>6. r.held = [r.held EXCEPT ![0] = Nil] /\ r.to = [r.to EXCEPT ![0] = Nil]
    BY <2>3 DEF Loops
  <2>7. Moving(r, obj', 0, "loop", Nil, Nil)
    BY <2>5, <2>6 DEF Moving
  <2>8. spec' \in SpecType /\ spec'.doubled = spec.doubled /\ spec'.dropped = spec.dropped \cup {a}
    BY <1>1, <1>3, <2>2, <2>3 DEF SpecType
  <2> QED BY <1>1, <2>3, <2>5, <2>7, <2>8, TakenKeeps
<1> QED BY <1>2, <1>3 DEF Q!LookAgain

(* Two configurations with the same actors in the same places.              *)
Alike(m, n) == SameQueues(m, n) /\ n.held = m.held /\ n.at = m.at /\ n.to = m.to

LEMMA AlikePlaces ==
  ASSUME NEW m, NEW n, Alike(m, n), NEW b
  PROVE  (Alone(n, b) <=> Alone(m, b)) /\ (Nowhere(n, b) <=> Nowhere(m, b))
<1>1. \A k, t, i : Here(n, b, k, t, i) <=> Here(m, b, k, t, i)
  BY DEF Here, Alike, SameQueues
<1> QED BY <1>1 DEF Alone, Nowhere

(* Thread s puts actor b, which it has in its hand or is to wake, into the  *)
(* queue of thread h.                                                       *)
LEMMA PutBackKeeps ==
  ASSUME DispatchInv, NEW s \in LoopThreads, obj.at[s] \notin Before \cup {"stopped"}, NEW h \in LoopThreads,
         NEW b \in RunActors, AtThread(obj, b, s), NEW e0, e0 = Q!sched_enqueue(obj, s, h, b),
         NEW l, l \in Locs \ Before, NEW v \in RunActors \cup {Nil}, NEW w \in RunActors \cup {Nil},
         obj' \in Loops, Moving(e0, obj', s, l, v, w),
         obj'.state = obj.state, obj'.flag = obj.flag, HandsInv(obj'),
         \A c \in RunActors \ {b} : SameHand(obj, obj', c, s), ~AtThread(obj', b, s), spec' = spec
  PROVE  DispatchInv'
<1>1. obj \in Loops /\ LoopsInv(obj, spec.doubled, spec.dropped) /\ b # Nil /\ HandsInv(obj)
  BY LoopAssumption DEF DispatchInv, LoopsInv
<1>2. e0 \in Loops /\ QueuesOnly(obj, e0) /\ Enqueuing(obj, e0, s, h, b)
  BY <1>1, EnqueueFields
<1>3. PICK A, H, T : /\ A = [obj.at EXCEPT ![s] = l] /\ H = [obj.held EXCEPT ![s] = v] /\ T = [obj.to EXCEPT ![s] = w]
  OBVIOUS
<1>4. /\ A \in [LoopThreads -> Locs] /\ H \in [LoopThreads -> RunActors \cup {Nil}]
      /\ T \in [LoopThreads -> RunActors \cup {Nil}]
  BY <1>1, <1>3 DEF Loops
<1>5. PICK m : m = [obj EXCEPT !.at = A, !.held = H, !.to = T]
  OBVIOUS
<1>6. /\ m \in Loops /\ SameQueues(obj, m) /\ m.at = A /\ m.held = H /\ m.to = T
      /\ m.state = obj.state /\ m.flag = obj.flag
  BY <1>1, <1>4, <1>5 DEF Loops, SameQueues
<1>7. PICK e : e = Q!sched_enqueue(m, s, h, b)
  OBVIOUS
<1>8. e \in Loops /\ QueuesOnly(m, e) /\ Enqueuing(m, e, s, h, b)
  BY <1>6, <1>7, EnqueueFields
<1>9. /\ obj'.at = A /\ obj'.held = H /\ obj'.to = T /\ SameQueues(e0, obj')
  BY <1>2, <1>3 DEF Moving, QueuesOnly
<1>10. Alike(e, obj')
  <2>1. SameQueues(e0, e)
    BY <1>2, <1>6, <1>8 DEF Enqueuing, SameQueues
  <2> QED BY <1>6, <1>8, <1>9, <2>1 DEF Alike, SameQueues, QueuesOnly
<1>11. /\ OthersStay(obj, m, s) /\ OthersStay(obj, obj', s) /\ obj'.at[s] = l
       /\ m.at[s] = obj'.at[s] /\ m.held[s] = obj'.held[s] /\ m.to[s] = obj'.to[s]
  BY <1>1, <1>3, <1>6, <1>9 DEF OthersStay, Loops
<1>12. /\ ~AtThread(m, b, s)
       /\ \A c \in RunActors : ~(InHand(m, c, s) /\ Wakes(m, c, s))
       /\ \A c \in RunActors \ {b} : SameHand(obj, m, c, s)
  <2>1. \A c : (InHand(m, c, s) <=> InHand(obj', c, s)) /\ (Wakes(m, c, s) <=> Wakes(obj', c, s))
    BY <1>11 DEF InHand, Wakes
  <2>2. \A c \in RunActors : ~(InHand(obj', c, s) /\ Wakes(obj', c, s))
    BY <1>1, LoopAssumption DEF HandsInv, Hands, InHand, Wakes
  <2> QED BY <2>1, <2>2 DEF AtThread, SameHand
<1>13. /\ ~Nowhere(e, b) /\ (Nowhere(m, b) => Alone(e, b))
       /\ \A c \in RunActors \ {b} : Undisturbed(m, e, c)
  BY <1>6, <1>7, Enqueued
<1>14. ASSUME NEW c \in RunActors \ {b} PROVE Keeps(obj, obj', c)
  <2>1. Undisturbed(obj, m, c)
    BY <1>6, <1>11, <1>12, HandPlaces
  <2>2. Undisturbed(obj, e, c)
    BY <1>13, <2>1, Steps
  <2>3. Undisturbed(obj, obj', c)
    BY <1>10, <2>2, AlikePlaces DEF Undisturbed
  <2> QED BY <2>3 DEF Keeps
<1>15. Settled(obj', spec.doubled, spec.dropped, b)
  <2>1. (Alone(obj, b) => Nowhere(m, b)) /\ ~Nowhere(obj, b)
    <3>1. ~(InHand(m, b, s) /\ Wakes(m, b, s)) /\ AtThread(obj, b, s) /\ ~AtThread(m, b, s)
      BY <1>12
    <3> QED BY <1>6, <1>11, <3>1, HandPlaces
  <2>2. ~Nowhere(obj', b) /\ (Alone(obj, b) => Alone(obj', b))
    BY <1>10, <1>13, <2>1, AlikePlaces
  <2>3. Settled(obj, spec.doubled, spec.dropped, b)
    BY <1>1 DEF LoopsInv
  <2> QED BY <2>1, <2>2, <2>3 DEF Settled
<1>16. LoopTurn(obj, obj', spec.doubled, spec.doubled, spec.dropped, s)
  BY <1>11, <1>14, <1>15 DEF LoopTurn
<1>17. LoopsInv(obj', spec.doubled, spec.dropped)
  BY <1>1, <1>16, LoopStep
<1> QED BY <1>17 DEF DispatchInv

LEMMA EnqueueActorKeeps ==
  ASSUME DispatchInv, NEW s \in LoopThreads, Q!EnqueueActor(s)
  PROVE  DispatchInv'
<1>1. PICK b, v, e0 : b = obj.to[s] /\ v = obj.held[s] /\ e0 = Q!sched_enqueue(obj, s, HomeOf[b], b)
  OBVIOUS
<1>2. /\ obj.at[s] = "enqueue" /\ spec' = spec /\ obj \in Loops /\ HandsInv(obj)
      /\ b \in RunActors /\ b # Nil /\ b # v /\ Nil \notin RunActors /\ v \in RunActors \cup {Nil}
      /\ HomeOf[b] \in LoopThreads
  <2>1. obj.at[s] = "enqueue" /\ spec' = spec /\ obj \in Loops /\ HandsInv(obj) /\ Nil \notin RunActors
    BY LoopAssumption DEF Q!EnqueueActor, DispatchInv, LoopsInv
  <2> QED BY <1>1, <2>1, ZeroIsThread DEF HandsInv, Hands, Sending, Loops
<1>3. e0 \in Loops /\ QueuesOnly(obj, e0)
  BY <1>1, <1>2, EnqueueFields
<1>4. obj' = Q!Sent(e0, s) /\ e0.held = obj.held /\ e0.at = obj.at /\ e0.to = obj.to
  BY <1>1, <1>3 DEF Q!EnqueueActor, QueuesOnly
<1>5. PICK l \in {"loop", "in"} :
        /\ l = "loop" <=> v = Nil
        /\ obj' \in Loops /\ Moving(e0, obj', s, l, v, Nil)
        /\ obj'.state = e0.state /\ obj'.mail = e0.mail /\ obj'.flag = e0.flag
  BY <1>1, <1>3, <1>4, SentFields
<1>6. /\ OthersStay(obj, obj', s) /\ obj'.at[s] = l /\ obj'.held[s] = v /\ obj'.to[s] = Nil
      /\ obj'.state = obj.state /\ obj'.mail = obj.mail /\ obj'.flag = obj.flag
  <2>1. OthersStay(e0, obj', s) /\ obj'.at[s] = l /\ obj'.held[s] = v /\ obj'.to[s] = Nil
    BY <1>3, <1>5, MovedHand
  <2> QED BY <1>3, <1>5, <2>1 DEF OthersStay, QueuesOnly
<1>7. Hands(obj')
  BY <1>1, <1>2, <1>5, <1>6, HandsStay DEF HandsInv, Hand, Sending
<1>8. ASSUME NEW c \in RunActors PROVE Right(obj', c)
  <2>1. CASE c = v
    <3>1. OnFiberOf(obj, s, c) /\ OnFiberOf(obj', s, c)
      BY <1>1, <1>2, <1>5, <1>6, <2>1 DEF OnFiberOf, Fiber
    <3>2. obj.flag[c] = 0 /\ obj.state[c] = "running"
      BY <1>2, <3>1 DEF HandsInv, Right
    <3> QED BY <1>2, <1>6, <3>1, <3>2, RightOnFiber DEF HandsInv
  <2>2. CASE c # v
    <3>1. ~OnFiberOf(obj, s, c) /\ ~OnFiberOf(obj', s, c)
      BY <1>1, <1>6, <2>2 DEF OnFiberOf
    <3> QED BY <1>2, <1>6, <3>1, RightStays DEF HandsInv
  <2> QED BY <2>1, <2>2
<1>9. HandsInv(obj')
  BY <1>7, <1>8 DEF HandsInv
<1>10. \A c \in RunActors \ {b} : SameHand(obj, obj', c, s)
  BY <1>1, <1>2, <1>5, <1>6 DEF SameHand, InHand, Wakes, Away
<1>11. AtThread(obj, b, s) /\ ~AtThread(obj', b, s)
  BY <1>1, <1>2, <1>5, <1>6 DEF AtThread, InHand, Wakes
<1>12. obj.at[s] \notin Before \cup {"stopped"} /\ l \in Locs \ Before /\ Nil \in RunActors \cup {Nil}
  BY <1>2 DEF Before, Locs
<1> QED BY <1>1, <1>2, <1>5, <1>6, <1>9, <1>10, <1>11, <1>12, PutBackKeeps

LEMMA LeaveKeeps ==
  ASSUME DispatchInv, NEW s \in LoopThreads, Q!Leave(s)
  PROVE  DispatchInv'
<1>1. PICK a : a = obj.held[s]
  OBVIOUS
<1>2. obj.at[s] \in {"requeue", "leave"} /\ obj.at[s] \in Hand /\ spec' = spec
  BY DEF Q!Leave, Hand
<1>3. /\ obj \in Loops /\ HandsInv(obj) /\ a \in RunActors /\ spec \in SpecType /\ obj.to[s] = Nil /\ a # Nil
      /\ Nil \notin RunActors
  BY <1>1, <1>2, AtHand, LoopAssumption
<1>4. PICK e0 : /\ e0 = IF obj.at[s] = "requeue" THEN Q!sched_enqueue(obj, s, s, a) ELSE obj
                /\ obj' = [Q!Goto(e0, s, "loop") EXCEPT !.held[s] = Nil, !.running = @ - 1]
  <2>1. PICK e1 : e1 = IF obj.at[s] = "requeue" THEN Q!sched_enqueue(obj, s, s, a) ELSE obj
    OBVIOUS
  <2>2. obj' = [Q!Goto(e1, s, "loop") EXCEPT !.held[s] = Nil, !.running = @ - 1]
    BY Zenon, <1>1, <2>1 DEF Q!Leave
  <2> QED BY Zenon, <2>1, <2>2
<1>5. e0 \in Loops /\ QueuesOnly(obj, e0)
  <2>1. CASE obj.at[s] = "requeue"
    BY <1>3, <1>4, <2>1, EnqueueFields
  <2>2. CASE obj.at[s] # "requeue"
    BY <1>3, <1>4, <2>2 DEF QueuesOnly
  <2> QED BY <2>1, <2>2
<1>6. /\ obj' \in Loops /\ Moving(e0, obj', s, "loop", Nil, Nil)
      /\ obj'.state = e0.state /\ obj'.mail = e0.mail /\ obj'.flag = e0.flag
  <2>1. PICK g, H : g = Q!Goto(e0, s, "loop") /\ H = [e0.held EXCEPT ![s] = Nil]
    OBVIOUS
  <2>2. "loop" \in Locs
    BY DEF Locs
  <2>3. /\ g \in Loops /\ SameQueues(e0, g) /\ g.at = [e0.at EXCEPT ![s] = "loop"]
        /\ g.held = e0.held /\ g.to = e0.to /\ g.state = e0.state /\ g.mail = e0.mail /\ g.flag = e0.flag
    BY <1>5, <2>1, <2>2, Goes
  <2>4. H \in [LoopThreads -> RunActors \cup {Nil}] /\ e0.to = [e0.to EXCEPT ![s] = Nil]
    <3>1. e0.to = obj.to
      BY <1>5 DEF QueuesOnly
    <3> QED BY <1>3, <1>5, <2>1, <3>1 DEF Loops
  <2>5. PICK d \in Int : d = g.running - 1
    BY <2>3 DEF Loops
  <2>6. obj' = [g EXCEPT !.held = H, !.running = d]
    BY <1>4, <2>1, <2>3, <2>5 DEF Loops
  <2>7. /\ obj' \in Loops /\ SameQueues(g, obj') /\ obj'.at = g.at /\ obj'.held = H /\ obj'.to = g.to
        /\ obj'.state = g.state /\ obj'.mail = g.mail /\ obj'.flag = g.flag
    <3>1. g \in Loops
      BY <2>3
    <3> QED BY <2>4, <2>5, <2>6, <3>1 DEF Loops, SameQueues
  <2> QED BY <2>1, <2>3, <2>4, <2>7 DEF Moving, SameQueues
<1>7. /\ OthersStay(obj, obj', s) /\ obj'.at[s] = "loop" /\ obj'.held[s] = Nil /\ obj'.to[s] = Nil
      /\ obj'.state = obj.state /\ obj'.mail = obj.mail /\ obj'.flag = obj.flag
  <2>1. OthersStay(e0, obj', s) /\ obj'.at[s] = "loop" /\ obj'.held[s] = Nil /\ obj'.to[s] = Nil
    BY <1>5, <1>6, MovedHand
  <2> QED BY <1>5, <1>6, <2>1 DEF OthersStay, QueuesOnly
<1>8. Hands(obj')
  BY <1>3, <1>7, HandsStay DEF HandsInv, Hand, Sending
<1>9. ASSUME NEW c \in RunActors PROVE Right(obj', c)
  <2>1. ~OnFiberOf(obj, s, c) /\ ~OnFiberOf(obj', s, c) /\ obj.to[s] # c
    BY <1>2, <1>3, <1>7 DEF OnFiberOf, Fiber
  <2> QED BY <1>3, <1>7, <2>1, RightStays DEF HandsInv
<1>10. HandsInv(obj')
  BY <1>8, <1>9 DEF HandsInv
<1>11. \A c \in RunActors \ {a} : SameHand(obj, obj', c, s)
  BY <1>1, <1>3, <1>7 DEF SameHand, InHand, Wakes
<1>12. obj.at[s] \notin Before \cup {"stopped"} /\ "loop" \in Locs \ Before /\ Nil \in RunActors \cup {Nil}
  BY <1>2 DEF Before, Locs
<1>13. CASE obj.at[s] = "requeue"
  <2>1. AtThread(obj, a, s) /\ ~AtThread(obj', a, s)
    BY <1>1, <1>3, <1>7, <1>13 DEF AtThread, InHand, Wakes, Away
  <2> QED BY <1>2, <1>3, <1>4, <1>6, <1>7, <1>10, <1>11, <1>12, <1>13, <2>1, PutBackKeeps
<1>14. CASE obj.at[s] = "leave"
  <2>1. SameHand(obj, obj', a, s)
    BY <1>1, <1>3, <1>7, <1>14 DEF SameHand, InHand, Wakes, Away
  <2>2. \A c \in RunActors : Fine(obj, obj', spec.doubled, spec'.doubled, spec'.dropped, s, c)
    BY <1>7, <1>11, <2>1 DEF Fine
  <2>3. Moving(obj, obj', s, "loop", Nil, Nil)
    BY <1>4, <1>6, <1>14
  <2> QED BY <1>2, <1>3, <1>6, <1>10, <1>12, <2>2, <2>3, TurnKeeps
<1> QED BY <1>2, <1>13, <1>14

-----------------------------------------------------------------------------
(* Between two runs                                                         *)

EmptyQueues(o) ==
  /\ o.runnext = [s \in LoopThreads |-> Nil] /\ o.deque = [s \in LoopThreads |-> << >>] /\ o.global = << >>

LEMMA NobodyQueued ==
  ASSUME NEW o, EmptyQueues(o), \A s \in LoopThreads : o.held[s] = Nil /\ o.to[s] = Nil, NEW a \in RunActors
  PROVE  Nowhere(o, a) /\ Alone(o, a)
<1>1. a # Nil
  BY LoopAssumption
<1>2. \A i : ~Entry(<< >>, a, i)
  BY DEF Entry
<1>3. \A s \in LoopThreads : o.runnext[s] = Nil /\ o.deque[s] = << >>
  BY DEF EmptyQueues
<1>4. \A k, s, i : ~Here(o, a, k, s, i)
  BY <1>1, <1>2, <1>3 DEF Here, EmptyQueues
<1> QED BY <1>4 DEF Nowhere, Alone

(* No thread is on a fiber or on its way to wake an actor, before or after. *)
LEMMA Resting ==
  ASSUME NEW o, HandsInv(o), NEW n, n.held = o.held, n.to = o.to,
         n.state = o.state, n.mail = o.mail, n.flag = o.flag,
         \A s \in LoopThreads : o.at[s] \notin Hand \cup Sending /\ n.at[s] \notin Hand \cup Sending
  PROVE  HandsInv(n) /\ \A s \in LoopThreads : n.held[s] = Nil /\ n.to[s] = Nil
<1>1. \A s \in LoopThreads : o.held[s] = Nil /\ o.to[s] = Nil
  BY DEF HandsInv, Hands
<1>2. Hands(n)
  BY <1>1 DEF Hands
<1>3. ASSUME NEW a \in RunActors PROVE Right(n, a)
  <2>1. a # Nil /\ \A s \in LoopThreads : n.held[s] # a /\ o.held[s] # a /\ o.to[s] # a
    BY <1>1, LoopAssumption
  <2>2. Right(o, a)
    BY DEF HandsInv
  <2> QED BY <2>1, <2>2 DEF Right, OnFiberOf
<1> QED BY <1>1, <1>2, <1>3 DEF HandsInv

LEMMA EndRunKeeps ==
  ASSUME DispatchInv, Q!EndRun
  PROVE  DispatchInv'
<1> DEFINE at2 == [s \in LoopThreads |-> IF s = 0 THEN "off" ELSE "stopped"]
<1>1. obj \in Loops /\ LoopsInv(obj, spec.doubled, spec.dropped) /\ 0 \in LoopThreads
  BY ZeroIsThread DEF DispatchInv, LoopsInv
<1>2. \A s \in LoopThreads : obj.at[s] \in {"stop", "loop"}
  BY DEF Q!EndRun, LoopThreads, Q!Threads
<1>3. /\ at2 \in [LoopThreads -> Locs] /\ [s \in LoopThreads |-> Nil] \in [LoopThreads -> RunActors \cup {Nil}]
      /\ [s \in LoopThreads |-> << >>] \in [LoopThreads -> Seq(RunActors)] /\ << >> \in Seq(RunActors)
  BY EmptySeq DEF Locs
<1>4. obj' = [obj EXCEPT !.at = at2, !.runnext = [s \in LoopThreads |-> Nil],
                         !.deque = [s \in LoopThreads |-> << >>], !.global = << >>]
  BY DEF Q!EndRun, LoopThreads
<1>5. /\ obj' \in Loops /\ EmptyQueues(obj') /\ obj'.at = at2 /\ obj'.held = obj.held /\ obj'.to = obj.to
      /\ obj'.state = obj.state /\ obj'.mail = obj.mail /\ obj'.flag = obj.flag
  <2>1. PICK none, qs, A, nil : /\ none = [s \in LoopThreads |-> Nil] /\ qs = [s \in LoopThreads |-> << >>] /\ A = at2
                                /\ nil = << >>
    OBVIOUS
  <2>2. obj \in Loops
    BY <1>1
  <2>3. obj' = [obj EXCEPT !.at = A, !.runnext = none, !.deque = qs, !.global = nil]
    BY <1>4, <2>1
  <2>4. /\ A \in [LoopThreads -> Locs] /\ none \in [LoopThreads -> RunActors \cup {Nil}]
        /\ qs \in [LoopThreads -> Seq(RunActors)] /\ nil \in Seq(RunActors)
    BY <1>3, <2>1
  <2>5. /\ obj' \in Loops /\ obj'.runnext = none /\ obj'.deque = qs /\ obj'.global = nil
        /\ obj'.at = A /\ obj'.held = obj.held /\ obj'.to = obj.to
        /\ obj'.state = obj.state /\ obj'.mail = obj.mail /\ obj'.flag = obj.flag
    BY <2>2, <2>3, <2>4 DEF Loops
  <2> QED BY <2>1, <2>5 DEF EmptyQueues
<1>6. spec' = [dropped |-> {}, doubled |-> {}]
  BY DEF Q!EndRun
<1>8. \A s \in LoopThreads : obj'.at[s] = IF s = 0 THEN "off" ELSE "stopped"
  BY <1>5
<1>9. HandsInv(obj') /\ \A s \in LoopThreads : obj'.held[s] = Nil /\ obj'.to[s] = Nil
  <2>1. \A s \in LoopThreads : obj.at[s] \notin Hand \cup Sending /\ obj'.at[s] \notin Hand \cup Sending
    BY <1>2, <1>8 DEF Hand, Sending
  <2> QED BY <1>1, <1>5, <2>1, Resting DEF LoopsInv
<1>7. \A a \in RunActors : Nowhere(obj', a) /\ Alone(obj', a)
  BY <1>5, <1>9, NobodyQueued
<1>10. Between(obj', {}) /\ \A a \in RunActors : Settled(obj', {}, {}, a)
  BY <1>1, <1>7, <1>8 DEF Between, Settled, Before
<1>11. LoopsInv(obj', {}, {})
  BY <1>5, <1>9, <1>10 DEF LoopsInv
<1> QED BY <1>6, <1>11 DEF DispatchInv, SpecType

LEMMA StartRunKeeps ==
  ASSUME DispatchInv, Q!StartRun
  PROVE  DispatchInv'
<1> DEFINE up == {a \in RunActors : obj.flag[a] = 1}
<1>1. /\ obj \in Loops /\ LoopsInv(obj, spec.doubled, spec.dropped) /\ 0 \in LoopThreads /\ obj.at[0] = "off"
  BY ZeroIsThread DEF DispatchInv, LoopsInv, Q!StartRun
<1>2. PICK g : g = Q!Goto(obj, 0, "distribute")
  OBVIOUS
<1>3. /\ g \in Loops /\ SameQueues(obj, g) /\ g.at = [obj.at EXCEPT ![0] = "distribute"]
      /\ g.held = obj.held /\ g.to = obj.to /\ g.state = obj.state /\ g.mail = obj.mail /\ g.flag = obj.flag
  <2>1. "distribute" \in Locs
    BY DEF Locs
  <2> QED BY <1>1, <1>2, <2>1, Goes
<1>4. obj' = [g EXCEPT !.todo = Q!Alive, !.runs = @ + 1]
  BY <1>2 DEF Q!StartRun
<1>5. /\ obj' \in Loops /\ SameQueues(obj, obj') /\ obj'.at = [obj.at EXCEPT ![0] = "distribute"]
      /\ obj'.held = obj.held /\ obj'.to = obj.to
      /\ obj'.state = obj.state /\ obj'.mail = obj.mail /\ obj'.flag = obj.flag /\ obj'.todo = Q!Alive
  <2>1. g \in Loops /\ g.runs + 1 \in Nat /\ Q!Alive \in SUBSET RunActors
    BY <1>3 DEF Loops, Q!Alive
  <2>2. /\ obj' \in Loops /\ SameQueues(g, obj') /\ obj'.at = g.at /\ obj'.held = g.held /\ obj'.to = g.to
        /\ obj'.state = g.state /\ obj'.mail = g.mail /\ obj'.flag = g.flag /\ obj'.todo = Q!Alive
    BY <1>4, <2>1 DEF Loops, SameQueues
  <2> QED BY <1>3, <2>2 DEF SameQueues
<1>6. /\ \A t \in LoopThreads \ {0} : obj.at[t] = "stopped"
      /\ \A t \in LoopThreads : obj'.at[t] = IF t = 0 THEN "distribute" ELSE obj.at[t]
  BY <1>1, <1>5 DEF LoopsInv, Between, Before, Loops
<1>7. HandsInv(obj') /\ \A s \in LoopThreads : obj'.held[s] = Nil /\ obj'.to[s] = Nil
  <2>1. \A s \in LoopThreads : obj.at[s] \notin Hand \cup Sending /\ obj'.at[s] \notin Hand \cup Sending
    BY <1>1, <1>6 DEF Hand, Sending
  <2>2. HandsInv(obj)
    BY <1>1 DEF LoopsInv
  <2>3. /\ obj'.held = obj.held /\ obj'.to = obj.to /\ obj'.state = obj.state
        /\ obj'.mail = obj.mail /\ obj'.flag = obj.flag
    BY <1>5
  <2> QED BY Zenon, <2>1, <2>2, <2>3, Resting
<1>8. ASSUME NEW a \in RunActors PROVE Nowhere(obj', a) /\ Alone(obj', a)
  <2>1. Nowhere(obj, a) /\ a # Nil
    BY <1>1, LoopAssumption DEF LoopsInv, Between
  <2>2. \A k, t, i : Here(obj', a, k, t, i) => Here(obj, a, k, t, i)
    BY <1>5, <1>7, <2>1 DEF Here, SameQueues
  <2> QED BY <2>1, <2>2 DEF Nowhere, Alone
<1>9. spec' = [dropped |-> {}, doubled |-> up]
  BY DEF Q!StartRun
<1>10. Between(obj', up)
  <2>1. \A a \in RunActors : a \notin obj'.todo => obj'.state[a] = "dead"
    BY <1>5 DEF Q!Alive
  <2> QED BY <1>1, <1>5, <1>6, <1>8, <2>1 DEF Between, Before
<1>11. \A a \in RunActors : Settled(obj', up, {}, a)
  BY <1>1, <1>6, <1>8 DEF Settled, Before
<1>12. LoopsInv(obj', up, {})
  BY <1>5, <1>7, <1>10, <1>11 DEF LoopsInv
<1> QED BY <1>9, <1>12 DEF DispatchInv, SpecType

LEMMA DistributeKeeps ==
  ASSUME DispatchInv, NEW a \in RunActors, Q!Distribute(a)
  PROVE  DispatchInv'
<1>1. /\ obj \in Loops /\ LoopsInv(obj, spec.doubled, spec.dropped) /\ spec' = spec
      /\ 0 \in LoopThreads /\ HomeOf[a] \in LoopThreads /\ obj.at[0] = "distribute" /\ a \in obj.todo
  BY ZeroIsThread DEF DispatchInv, LoopsInv, Q!Distribute
<1>2. PICK e : e = Q!sched_enqueue(obj, 0, HomeOf[a], a)
  OBVIOUS
<1>3. /\ e \in Loops /\ QueuesOnly(obj, e)
  BY <1>1, <1>2, EnqueueFields
<1>4. /\ ~Nowhere(e, a) /\ (Nowhere(obj, a) => Alone(e, a))
      /\ \A b \in RunActors \ {a} : Undisturbed(obj, e, b)
  BY <1>1, <1>2, Enqueued
<1>5. obj' = [e EXCEPT !.todo = @ \ {a}]
  BY <1>2 DEF Q!Distribute
<1>6. obj' \in Loops /\ Alike(e, obj') /\ obj'.todo = obj.todo \ {a}
      /\ obj'.state = e.state /\ obj'.mail = e.mail /\ obj'.flag = e.flag
  BY <1>3, <1>5 DEF Loops, Alike, SameQueues, QueuesOnly
<1>7. /\ obj'.held = obj.held /\ obj'.to = obj.to /\ obj'.at = obj.at
      /\ obj'.state = obj.state /\ obj'.mail = obj.mail /\ obj'.flag = obj.flag
  BY <1>3, <1>6 DEF Alike, QueuesOnly
<1>8. \A b : (Alone(obj', b) <=> Alone(e, b)) /\ (Nowhere(obj', b) <=> Nowhere(e, b))
  BY <1>6, AlikePlaces
<1>10. /\ \A t \in LoopThreads \ {0} : obj.at[t] = "stopped"
       /\ \A b \in RunActors : /\ b \in obj.todo => Nowhere(obj, b)
                               /\ b \notin obj.todo /\ obj.state[b] # "dead" => ~Nowhere(obj, b)
                               /\ obj.flag[b] = 1 => b \in spec.doubled
  BY <1>1 DEF LoopsInv, Between, Before
<1>9. HandsInv(obj')
  <2>1. \A s \in LoopThreads : obj.at[s] \notin Hand \cup Sending /\ obj'.at[s] \notin Hand \cup Sending
    BY <1>1, <1>7, <1>10 DEF Hand, Sending
  <2> QED BY <1>1, <1>7, <2>1, Resting DEF LoopsInv
<1>11. Between(obj', spec.doubled)
  <2>1. ASSUME NEW b \in RunActors
        PROVE  /\ b \in obj'.todo => Nowhere(obj', b)
               /\ b \notin obj'.todo /\ obj'.state[b] # "dead" => ~Nowhere(obj', b)
    BY <1>4, <1>6, <1>7, <1>8, <1>10 DEF Undisturbed
  <2> QED BY <1>1, <1>7, <1>10, <2>1 DEF Between
<1>12. ASSUME NEW b \in RunActors PROVE Settled(obj', spec.doubled, spec.dropped, b)
  <2>1. Settled(obj, spec.doubled, spec.dropped, b)
    BY <1>1 DEF LoopsInv
  <2>2. b \notin spec.doubled => Alone(obj', b)
    BY <1>1, <1>4, <1>8, <1>10, <2>1 DEF Settled, Undisturbed
  <2> QED BY <1>1, <1>7, <1>10, <2>2 DEF Settled, Before
<1>13. LoopsInv(obj', spec.doubled, spec.dropped)
  BY <1>6, <1>9, <1>11, <1>12 DEF LoopsInv
<1> QED BY <1>1, <1>13 DEF DispatchInv

LEMMA StartWorkersKeeps ==
  ASSUME DispatchInv, Q!StartWorkers
  PROVE  DispatchInv'
<1>1. /\ obj \in Loops /\ LoopsInv(obj, spec.doubled, spec.dropped) /\ spec' = spec
      /\ 0 \in LoopThreads /\ obj.at[0] = "distribute" /\ obj.todo = {}
  BY ZeroIsThread DEF DispatchInv, LoopsInv, Q!StartWorkers
<1>2. /\ \A t \in LoopThreads \ {0} : obj.at[t] = "stopped"
      /\ \A b \in RunActors : obj.state[b] # "dead" => ~Nowhere(obj, b)
  BY <1>1 DEF LoopsInv, Between, Before
<1>3. obj' = [obj EXCEPT !.at = [s \in LoopThreads |-> "loop"], !.running = 0]
  BY DEF Q!StartWorkers, LoopThreads
<1>4. /\ obj' \in Loops /\ SameQueues(obj, obj') /\ obj'.at = [s \in LoopThreads |-> "loop"]
      /\ obj'.held = obj.held /\ obj'.to = obj.to
      /\ obj'.state = obj.state /\ obj'.mail = obj.mail /\ obj'.flag = obj.flag
  <2>1. PICK at2 : at2 = [s \in LoopThreads |-> "loop"]
    OBVIOUS
  <2>2. at2 \in [LoopThreads -> Locs]
    BY <2>1 DEF Locs
  <2>3. PICK zero \in Int : zero = 0
    OBVIOUS
  <2>4. obj' = [obj EXCEPT !.at = at2, !.running = zero] /\ obj \in Loops
    BY <1>1, <1>3, <2>1, <2>3
  <2>5. /\ obj' \in Loops /\ SameQueues(obj, obj') /\ obj'.at = at2 /\ obj'.held = obj.held /\ obj'.to = obj.to
        /\ obj'.state = obj.state /\ obj'.mail = obj.mail /\ obj'.flag = obj.flag
    BY <2>2, <2>4 DEF Loops, SameQueues
  <2> QED BY <2>1, <2>5
<1>5. \A t \in LoopThreads : obj'.at[t] = "loop"
  BY <1>4
<1>6. HandsInv(obj') /\ \A s \in LoopThreads : obj'.held[s] = Nil /\ obj'.to[s] = Nil
  <2>1. \A s \in LoopThreads : obj.at[s] \notin Hand \cup Sending /\ obj'.at[s] \notin Hand \cup Sending
    BY <1>1, <1>2, <1>5 DEF Hand, Sending
  <2>2. HandsInv(obj)
    BY <1>1 DEF LoopsInv
  <2> QED BY <1>4, <2>1, <2>2, Resting
<1>7. ASSUME NEW b \in RunActors PROVE Undisturbed(obj, obj', b)
  <2>1. b # Nil
    BY LoopAssumption
  <2>2. \A k, t, i : Here(obj', b, k, t, i) <=> Here(obj, b, k, t, i)
    BY <1>4, <1>6, <2>1 DEF Here, SameQueues
  <2> QED BY <2>2 DEF Undisturbed, Alone, Nowhere
<1>8. Between(obj', spec.doubled)
  BY <1>1, <1>5 DEF Between, Before
<1>9. ASSUME NEW b \in RunActors PROVE Settled(obj', spec.doubled, spec.dropped, b)
  <2>1. Settled(obj, spec.doubled, spec.dropped, b)
    BY <1>1 DEF LoopsInv
  <2> QED BY <1>2, <1>4, <1>7, <2>1 DEF Settled, Undisturbed
<1>10. LoopsInv(obj', spec.doubled, spec.dropped)
  BY <1>4, <1>6, <1>8, <1>9 DEF LoopsInv
<1> QED BY <1>1, <1>10 DEF DispatchInv

LEMMA DispatchInit ==
  ASSUME Q!Init
  PROVE  DispatchInv
<1> DEFINE st == [a \in RunActors |-> "ready"]
           zeros == [a \in RunActors |-> 0]
           at2 == [s \in LoopThreads |-> IF s = 0 THEN "off" ELSE "stopped"]
           none == [s \in LoopThreads |-> Nil]
           qs == [s \in LoopThreads |-> << >>]
<1>1. PICK timer \in TimerTargets \cup {Nil} :
        obj = [state |-> st, mail |-> zeros, flag |-> zeros, runnext |-> none, deque |-> qs, global |-> << >>,
               held |-> none, to |-> none, at |-> at2, todo |-> {}, running |-> 0, timer |-> timer,
               sent |-> 0, preempts |-> 0, runs |-> 0]
  BY DEF Q!Init, LoopThreads
<1>2. /\ st \in [RunActors -> States] /\ zeros \in [RunActors -> Nat] /\ zeros \in [RunActors -> {0, 1}]
      /\ none \in [LoopThreads -> RunActors \cup {Nil}] /\ qs \in [LoopThreads -> Seq(RunActors)]
      /\ at2 \in [LoopThreads -> Locs] /\ << >> \in Seq(RunActors) /\ timer \in RunActors \cup {Nil}
  BY EmptySeq, LoopAssumption DEF Locs, States
<1>3. /\ obj.runnext = none /\ obj.deque = qs /\ obj.global = << >> /\ obj.held = none /\ obj.to = none
      /\ obj.at = at2 /\ obj.flag = zeros
  BY <1>1
<1>4. /\ EmptyQueues(obj) /\ \A s \in LoopThreads : obj.held[s] = Nil /\ obj.to[s] = Nil
      /\ \A s \in LoopThreads : obj.at[s] = IF s = 0 THEN "off" ELSE "stopped"
      /\ \A a \in RunActors : obj.flag[a] = 0
  BY <1>3 DEF EmptyQueues
<1> HIDE DEF st, zeros, at2, none, qs
<1>5. obj \in Loops
  BY <1>1, <1>2 DEF Loops
<1>6. \A a \in RunActors : Nowhere(obj, a) /\ Alone(obj, a)
  BY <1>4, NobodyQueued
<1>7. HandsInv(obj)
  <2>1. Hands(obj)
    BY <1>4 DEF Hands, Hand, Sending
  <2>2. ASSUME NEW a \in RunActors PROVE Right(obj, a)
    <3>1. a # Nil
      BY LoopAssumption
    <3> QED BY <1>4, <3>1 DEF Right, OnFiberOf
  <2> QED BY <2>1, <2>2 DEF HandsInv
<1>8. Between(obj, {}) /\ \A a \in RunActors : Settled(obj, {}, {}, a)
  BY <1>4, <1>6, ZeroIsThread DEF Between, Settled, Before
<1>9. spec = [dropped |-> {}, doubled |-> {}]
  BY DEF Q!Init
<1>10. LoopsInv(obj, {}, {})
  BY <1>5, <1>7, <1>8 DEF LoopsInv
<1> QED BY <1>9, <1>10 DEF DispatchInv, SpecType

LEMMA DispatchStep ==
  ASSUME DispatchInv, Q!Next
  PROVE  DispatchInv'
<1>1. ASSUME NEW s \in LoopThreads, Q!Take(s) \/ Q!Count(s) \/ Q!BeginQuantum(s) \/ Q!AfterQuantum(s) \/ Q!Leave(s)
      PROVE  DispatchInv'
  BY <1>1, TakeKeeps, CountKeeps, BeginKeeps, AfterKeeps, LeaveKeeps
<1>2. ASSUME NEW s \in LoopThreads, Q!ExchangeFlag(s) \/ Q!EnqueueActor(s) \/ \E b \in RunActors : Q!Send(s, b)
      PROVE  DispatchInv'
  BY <1>2, SendKeeps, ExchangeKeeps, EnqueueActorKeeps
<1>10. ASSUME NEW s \in LoopThreads,
              Q!Receive(s) \/ Q!RaiseFlag(s) \/ Q!Recheck(s) \/ Q!Yield(s) \/ Q!EndQuantum(s)
       PROVE  DispatchInv'
  BY <1>10, ReceiveKeeps, RaiseKeeps, RecheckKeeps, YieldKeeps, EndKeeps
<1>3. CASE Q!timer_tick_all
  BY <1>3, TimerKeeps
<1>4. CASE Q!FindNothing \/ Q!SeeRunning \/ Q!SeeAllIdle
  BY <1>4, ScheduleZeroKeeps
<1>5. CASE Q!LookAgain
  BY <1>5, LookAgainKeeps
<1>6. CASE Q!EndRun
  BY <1>6, EndRunKeeps
<1>7. CASE Q!StartRun
  BY <1>7, StartRunKeeps
<1>8. CASE Q!StartWorkers
  BY <1>8, StartWorkersKeeps
<1>9. ASSUME NEW a \in RunActors, Q!Distribute(a) PROVE DispatchInv'
  BY <1>9, DistributeKeeps
<1> QED BY <1>1, <1>2, <1>3, <1>4, <1>5, <1>6, <1>7, <1>8, <1>9, <1>10 DEF Q!Next, LoopThreads

(* In every run of sched_run_all of a program, an actor is in one place at  *)
(* most, in none while its flag is up, and in one while its flag is down;   *)
(* one thread at most is on its fiber; a flag that stays up over a message  *)
(* has a re-check or a sender before it; and a run starts with empty queues *)
(* (Settled, Right and Between).  Excepted are the actors whose entry was   *)
(* dropped and those with an entry too many.                                *)
THEOREM LoopsInvariant == WorkersSpec => [](part = "dispatch" => DispatchInv)
<1> DEFINE I == part = "dispatch" => DispatchInv
<1>1. WorkersInit => I
  BY DispatchInit DEF WorkersInit
<1>2. I /\ [WorkersNext]_<<part, vars, wakevars, dequevars, loopvars>> => I'
  <2> SUFFICES ASSUME I, [WorkersNext]_<<part, vars, wakevars, dequevars, loopvars>>, part' = "dispatch"
               PROVE  DispatchInv'
    OBVIOUS
  <2>1. part = "dispatch"
    BY DEF WorkersNext
  <2>2. CASE loopvars' = loopvars
    BY <2>1, <2>2 DEF loopvars, DispatchInv
  <2>3. CASE Q!Next
    BY <2>1, <2>3, DispatchStep
  <2> QED BY <2>1, <2>2, <2>3 DEF WorkersNext
<1> HIDE DEF I
<1>3. WorkersSpec => []I
  BY <1>1, <1>2, PTL DEF WorkersSpec
<1> QED BY <1>3 DEF I

(* An actor that could go on is in a queue or hand, or its flag is up and a *)
(* sender about to look at it; and it is in one place at most, none while a *)
(* wake-up is due: no wake-up, requeue or steal loses it or has two         *)
(* schedulers run it.  Excepted are the actors whose entry was dropped and  *)
(* those with an entry too many.                                            *)
THEOREM ActorsHaveOnePlace == WorkersSpec => []OnePlaceEach
<1>1. DispatchInv => Q!DispatchSound
  <2> SUFFICES ASSUME DispatchInv PROVE Q!DispatchSound
    OBVIOUS
  <2>1. LoopsInv(obj, spec.doubled, spec.dropped)
    BY DEF DispatchInv
  <2>2. Q!NotLost
    <3>1. ASSUME NEW a \in Q!Alive, obj.at[0] \notin {"off", "distribute"},
                 obj.state[a] # "blocked" \/ obj.mail[a] > 0
          PROVE  \/ Q!Places(a) # {} \/ a \in spec.dropped
                 \/ \E s \in LoopThreads : \/ (obj.held[s] = a /\ obj.at[s] \in Q!Waiting)
                                            \/ (obj.to[s] = a /\ obj.at[s] = "wake" /\ obj.flag[a] = 1)
      <4>1. a \in RunActors /\ obj.state[a] # "dead" /\ obj.at[0] \notin Before
        BY <3>1 DEF Q!Alive, Before
      <4>2. ~Nowhere(obj, a) \/ a \in spec.dropped \/ obj.flag[a] = 1
        BY <2>1, <4>1 DEF LoopsInv, Settled
      <4>3. ASSUME obj.flag[a] = 1
            PROVE  \E s \in LoopThreads : \/ (obj.held[s] = a /\ obj.at[s] \in {"recheck", "yield"})
                                          \/ (obj.to[s] = a /\ obj.at[s] = "wake" /\ obj.flag[a] = 1)
        BY <2>1, <3>1, <4>1, <4>3 DEF LoopsInv, HandsInv, Right
      <4>4. {"recheck", "yield"} \subseteq Q!Waiting
        BY DEF Q!Waiting
      <4>5. CASE ~Nowhere(obj, a)
        BY <4>5, PlacesAreHere DEF Q!Places
      <4>6. CASE obj.flag[a] = 1
        BY <4>3, <4>4, <4>6
      <4> QED BY <4>2, <4>5, <4>6
    <3> QED BY <3>1 DEF Q!NotLost, LoopThreads
  <2>3. ASSUME NEW a \in RunActors \ spec.doubled
        PROVE  Cardinality(Q!Places(a)) <= 1 /\ (obj.flag[a] = 1 => Q!Places(a) = {})
    <3>1. Alone(obj, a) /\ (obj.flag[a] = 1 => Nowhere(obj, a))
      BY <2>1 DEF LoopsInv, Settled
    <3>2. /\ \A p, q \in Q!Places(a) : p = q
          /\ obj.flag[a] = 1 => Q!Places(a) = {}
      BY <3>1, PlacesAreHere DEF Q!Places
    <3>3. Q!Places(a) = {} \/ \E p : Q!Places(a) = {p}
      BY <3>2
    <3>4. Cardinality({}) = 0 /\ \A p : Cardinality({p}) = 1
      BY FS_EmptySet, FS_Singleton
    <3>5. CASE Q!Places(a) = {}
      BY <3>4, <3>5
    <3>6. CASE \E p : Q!Places(a) = {p}
      <4>1. PICK p : Q!Places(a) = {p}
        BY <3>6
      <4>2. Q!Places(a) # {} /\ Cardinality(Q!Places(a)) = 1
        BY <3>4, <4>1
      <4> QED BY <3>2, <4>2
    <3> QED BY <3>3, <3>5, <3>6
  <2>4. \A S : Q!Cardinality(S) = Cardinality(S)
    BY DEF Q!Cardinality, Cardinality
  <2> QED BY <2>2, <2>3, <2>4 DEF Q!DispatchSound, Q!OnePlace
<1> QED BY <1>1, LoopsInvariant, PTL DEF OnePlaceEach

-----------------------------------------------------------------------------
(* The deque                                                                *)

DP == INSTANCE DequeProofs WITH entries <- slots

(* The definitions of the deque are those its invariant is proved about.    *)
LEMMA SameDequeConstants == DP!DequeConstants
  BY DequeAssumption DEF D!DequeConstants, DP!DequeConstants, D!IsFiniteSet, DP!IsFiniteSet

LEMMA SameDequeInit == D!Init => DP!Init
  BY DEF D!Init, DP!Init, D!Sentinel, DP!Sentinel, D!Unset, DP!Unset, D!Items, DP!Items

LEMMA SameDequeNext == D!Next => DP!Next
  BY Zenon DEF D!OwnerInside, DP!OwnerInside, D!ThiefInside, DP!ThiefInside, D!Push,
     DP!Push, D!Pop, DP!Pop, D!StealCall, DP!StealCall, D!PushWrite, DP!PushWrite,
     D!PushPublish, DP!PushPublish, D!PushOverflow, DP!PushOverflow, D!GrantLoad,
     DP!GrantLoad, D!GrantClose, DP!GrantClose, D!GrantOpen, DP!GrantOpen, D!Reclaim,
     DP!Reclaim, D!Reset, DP!Reset, D!PopLook, DP!PopLook, D!PopTop, DP!PopTop, D!PopLast,
     DP!PopLast, D!PopClaim, DP!PopClaim, D!PopResetHead, DP!PopResetHead, D!PopResetTail,
     DP!PopResetTail, D!PopRetreat, DP!PopRetreat, D!Takeover, DP!Takeover, D!TakeoverSpin,
     DP!TakeoverSpin, D!TakeoverDone, DP!TakeoverDone, D!StealBound, DP!StealBound,
     D!ScanCursor, DP!ScanCursor, D!ScanEnd, DP!ScanEnd, D!Reserve, DP!Reserve,
     D!ReadReserved, DP!ReadReserved, D!Commit, DP!Commit, D!AdvanceThieves,
     DP!AdvanceThieves, D!Return, DP!Return, D!Fallback, DP!Fallback, D!FallbackHead,
     DP!FallbackHead, D!FallbackTail, DP!FallbackTail, D!FallbackClaim, DP!FallbackClaim,
     D!FallbackRead, DP!FallbackRead, D!FallbackReport, DP!FallbackReport, D!StoreHead,
     DP!StoreHead, D!StoreTail, DP!StoreTail, D!StoreStealTail, DP!StoreStealTail,
     D!StoreStealHead, DP!StoreStealHead, D!Put, DP!Put, D!Begins, DP!Begins, D!Take,
     DP!Take, D!Owner, DP!Owner, D!OwnerReads, DP!OwnerReads, D!Reading, DP!Reading, D!Mine,
     DP!Mine, D!Above, DP!Above, D!Below, DP!Below, D!Block, DP!Block, D!Fresh, DP!Fresh,
     D!Theirs, DP!Theirs, D!Thief, DP!Thief, D!ThiefReads, DP!ThiefReads, D!NextEpoch,
     DP!NextEpoch, D!GiveUp, DP!GiveUp, D!blocks, DP!blocks, D!cursors, DP!cursors, D!owner,
     DP!owner, D!thieves, DP!thieves, D!ghosts, DP!ghosts, D!Sentinel, DP!Sentinel, D!Unset,
     DP!Unset, D!Next, DP!Next

LEMMA SameTakenOnce == DP!TakenOnce => TakenOnce
  BY DEF TakenOnce, D!TakenOnce, DP!TakenOnce, D!Undisturbed, DP!Undisturbed, D!Items, DP!Items

(* No actor is returned twice by the deque of a scheduler and run by two,   *)
(* for any number of thieves, blocks, entries and pushes: it is in one      *)
(* place until it is returned (OnePlace in DequeProofs).  Excepted are the  *)
(* races TakenOnce names.                                                   *)
THEOREM ActorsTakenOnce == WorkersSpec => []TakenOnce
<1>1. WorkersInit => DP!DequeInv
  BY SameDequeConstants, SameDequeInit, DP!DequeInit DEF WorkersInit
<1>2. DP!DequeInv /\ [WorkersNext]_<<part, vars, wakevars, dequevars, loopvars>> => DP!DequeInv'
  <2> SUFFICES ASSUME DP!DequeInv, [WorkersNext]_<<part, vars, wakevars, dequevars, loopvars>>
               PROVE  DP!DequeInv'
    OBVIOUS
  <2>1. CASE UNCHANGED dequevars
    <3>1. UNCHANGED DP!vars
      BY <2>1 DEF dequevars, DP!vars, DP!blocks, DP!cursors, DP!owner, DP!thieves, DP!ghosts
    <3> QED BY <3>1, SameDequeConstants, DP!DequeStep
  <2>2. CASE D!Next
    BY <2>2, SameDequeNext, SameDequeConstants, DP!DequeStep
  <2> QED BY <2>1, <2>2 DEF WorkersNext
<1>3. DP!DequeInv => TakenOnce
  BY DP!OnePlaceIsEnough, SameTakenOnce
<1> QED BY <1>1, <1>2, <1>3, PTL DEF WorkersSpec

LEMMA SameTypes == DP!TypeOK => D!TypeOK
  BY DEF D!TypeOK, DP!TypeOK, D!Items, DP!Items, D!Locals, DP!Locals, D!OwnerPC, DP!OwnerPC,
     D!ThiefPC, DP!ThiefPC

LEMMA SameNothingLost == DP!NothingLost => D!NothingLost
  BY DEF D!NothingLost, DP!NothingLost, D!Available, DP!Available, D!InBlock, DP!InBlock,
     D!Mine, DP!Mine, D!Block, DP!Block

-----------------------------------------------------------------------------
(* The types of QSBR                                                        *)

(* A scheduler that runs or retires an actor holds one, and the one that    *)
(* scans has an entry to release and freed less than two in this call.      *)
RetireTypes ==
  /\ TypeOK
  /\ ring \in [Scheds -> Seq(Actors \X (1 .. MaxEpoch))]
  /\ \A k \in Scheds : pc[k] \in {"quantum", "running", "retire"} => held[k] \in Actors
  /\ \A k \in Scheds : pc[k] = "safe" => ring[k] # <<>> /\ freed[k] < 2

LEMMA RetireTypesInit == Init => RetireTypes
<1> SUFFICES ASSUME Init PROVE RetireTypes
  OBVIOUS
<1>1. ring \in [Scheds -> Seq(Actors \X (1 .. MaxEpoch))] /\ \A k \in Scheds : Len(ring[k]) = 0
  BY DEF Init
<1>2. global_epoch \in 1 .. MaxEpoch /\ MaxEpoch \in Nat /\ MaxEntries \in Nat \ {0}
  BY EpochAssumption DEF Init
<1>3. TypeOK
  BY <1>1, <1>2, RetireCapAssumption DEF Init, TypeOK, PC
<1> QED BY <1>1, <1>3 DEF Init, RetireTypes

(* Dropping a pointer takes the scheduler out of the actor's old holders.   *)
LEMMA DroppedIs ==
  ASSUME old \in [Scheds -> [Actors -> SUBSET Scheds]], NEW k \in Scheds, held[k] \in Actors
  PROVE  /\ Dropped(k) \in [Scheds -> [Actors -> SUBSET Scheds]]
         /\ \A m \in Scheds : \A b \in Actors :
              Dropped(k)[m][b] = IF b = held[k] THEN old[m][b] \ {k} ELSE old[m][b]
  BY DEF Dropped

(* So does retiring it, which makes a new list.                             *)
LEMMA RetireOld ==
  ASSUME old \in [Scheds -> [Actors -> SUBSET Scheds]], NEW k \in Scheds, held[k] \in Actors, Retire(k)
  PROVE  /\ old' \in [Scheds -> [Actors -> SUBSET Scheds]]
         /\ \A m \in Scheds : \A b \in Actors :
              old'[m][b] = IF m = k /\ b = held[k] THEN {j \in Scheds \ {k} : held[j] = b}
                           ELSE IF b = held[k] THEN old[m][b] \ {k} ELSE old[m][b]
<1> DEFINE d == Dropped(k)
           new == {j \in Scheds \ {k} : held[j] = held[k]}
<1>1. /\ d \in [Scheds -> [Actors -> SUBSET Scheds]]
      /\ \A m \in Scheds : \A b \in Actors : d[m][b] = IF b = held[k] THEN old[m][b] \ {k} ELSE old[m][b]
  BY DroppedIs
<1>2. old' = [d EXCEPT ![k][held[k]] = new] /\ new \in SUBSET Scheds
  BY DEF Retire
<1>3. new = {j \in Scheds \ {k} : held[j] = held[k]}
  OBVIOUS
<1> HIDE DEF d, new
<1>4. old' \in [Scheds -> [Actors -> SUBSET Scheds]]
  BY <1>1, <1>2
<1>5. \A m \in Scheds : \A b \in Actors : old'[m][b] = IF m = k /\ b = held[k] THEN new ELSE d[m][b]
  BY <1>1, <1>2
<1>6. ASSUME NEW m \in Scheds, NEW b \in Actors
      PROVE  old'[m][b] = IF m = k /\ b = held[k] THEN {j \in Scheds \ {k} : held[j] = b}
                          ELSE IF b = held[k] THEN old[m][b] \ {k} ELSE old[m][b]
  <2>1. CASE m = k /\ b = held[k]
    BY <1>3, <1>5, <2>1
  <2>2. CASE ~(m = k /\ b = held[k])
    <3>1. old'[m][b] = d[m][b]
      BY <1>5, <2>2
    <3>2. d[m][b] = IF b = held[k] THEN old[m][b] \ {k} ELSE old[m][b]
      BY <1>1
    <3> QED BY <2>2, <3>1, <3>2
  <2> QED BY <2>1, <2>2
<1> QED BY <1>4, <1>6

(* qsbr_retire: the ring keeps a place free.                                *)
LEMMA RetireTypesStay ==
  ASSUME RetireTypes, NEW k \in Scheds, Retire(k)
  PROVE  RetireTypes'
<1> DEFINE entry == Actors \X (1 .. MaxEpoch)
           longer == Append(ring[k], <<held[k], global_epoch>>)
<1>1. held[k] \in Actors /\ <<held[k], global_epoch>> \in entry
  BY DEF RetireTypes, TypeOK, Retire
<1>2. ring[k] \in Seq(entry) /\ Len(ring[k]) < RetireCap /\ RetireCap \in Nat
  BY RetireCapAssumption DEF RetireTypes, TypeOK
<1>3. longer \in Seq(entry) /\ Len(longer) = Len(ring[k]) + 1 /\ longer # <<>>
  <2> HIDE DEF entry
  <2>1. longer \in Seq(entry) /\ Len(longer) = Len(ring[k]) + 1
    BY <1>1, <1>2, AppendProperties
  <2>2. Len(longer) > 0 /\ Len(<<>>) = 0
    BY <1>2, <2>1, LenProperties
  <2> QED BY <2>1, <2>2
<1>4. Tail(longer) \in Seq(entry) /\ Len(Tail(longer)) = Len(ring[k])
  BY <1>3
<1> HIDE DEF longer
<1> DEFINE kept == IF Len(longer) >= RetireCap THEN Tail(longer) ELSE longer
<1>6. kept \in Seq(entry) /\ Len(kept) < RetireCap
  BY <1>2, <1>3, <1>4
<1>7. ring' = [ring EXCEPT ![k] = kept]
  BY DEF Retire, longer
<1>8. old' \in [Scheds -> [Actors -> SUBSET Scheds]] /\ reclaimed' = reclaimed
  BY <1>1, RetireOld DEF Retire, RetireTypes, TypeOK
<1> HIDE DEF kept
<1>9. /\ ring' \in [Scheds -> Seq(entry)]
      /\ \A j \in Scheds : ring'[j] \in Seq(entry) /\ Len(ring'[j]) < RetireCap
  BY <1>6, <1>7 DEF RetireTypes, TypeOK
<1>10. TypeOK'
  BY <1>1, <1>8, <1>9 DEF Retire, Goto, queues, locals, RetireTypes, TypeOK, PC
<1>11. \A j \in Scheds : j # k => ring'[j] = ring[j] /\ pc'[j] = pc[j] /\ held'[j] = held[j]
  BY <1>7 DEF Retire, Goto, RetireTypes, TypeOK
<1>12. pc'[k] = "quiet_load" /\ UNCHANGED freed
  BY DEF Retire, Goto, locals, RetireTypes, TypeOK
<1> QED BY <1>9, <1>10, <1>11, <1>12 DEF RetireTypes

(* qsbr_reclaim_amortized: the released entry was the oldest.               *)
LEMMA ReleaseTypesStay ==
  ASSUME RetireTypes, NEW k \in Scheds, Release(k)
  PROVE  RetireTypes'
<1> DEFINE entry == Actors \X (1 .. MaxEpoch)
<1>1. ring[k] \in Seq(entry) /\ ring[k] # <<>> /\ freed[k] \in 0 .. 1
      /\ Len(ring[k]) < RetireCap /\ RetireCap \in Nat
  BY RetireCapAssumption DEF RetireTypes, TypeOK, Release
<1>2. ring[k][1] \in entry /\ ring[k][1][1] \in Actors
  BY <1>1
<1>3. Tail(ring[k]) \in Seq(entry) /\ Len(Tail(ring[k])) < RetireCap
  BY <1>1
<1>4. /\ ring' \in [Scheds -> Seq(entry)]
      /\ \A j \in Scheds : ring'[j] \in Seq(entry) /\ Len(ring'[j]) < RetireCap
  BY <1>3 DEF Release, RetireTypes, TypeOK
<1>5. freed' \in [Scheds -> 0 .. 2]
  BY <1>1 DEF Release, RetireTypes, TypeOK
<1>6. TypeOK'
  BY <1>2, <1>4, <1>5 DEF Release, Goto, queues, RetireTypes, TypeOK, PC
<1>7. \A j \in Scheds : /\ j # k => ring'[j] = ring[j] /\ pc'[j] = pc[j] /\ freed'[j] = freed[j]
                        /\ held'[j] = held[j]
  BY DEF Release, Goto, RetireTypes, TypeOK
<1>8. pc'[k] = "reclaim"
  BY DEF Release, Goto, RetireTypes, TypeOK
<1> QED BY <1>4, <1>6, <1>7, <1>8 DEF RetireTypes

(* The other steps: no ring changes.                                        *)
LEMMA QuietTypesStay ==
  ASSUME RetireTypes, NEW k \in Scheds, Step(k), ~Retire(k), ~Release(k)
  PROVE  RetireTypes'
<1>1. MaxEpoch \in Nat \ {0} /\ MaxEntries \in Nat \ {0}
  BY EpochAssumption
<1>2. CASE \E a \in Actors : Pick(k, a)
  <2>1. PICK a \in Actors : Pick(k, a)
    BY <1>2
  <2> QED BY <1>1, <2>1 DEF Pick, RetireTypes, TypeOK, PC, Goto, locals
<1>3. CASE OnlineLoad(k)
  BY <1>1, <1>3 DEF OnlineLoad, RetireTypes, TypeOK, PC, Goto, queues
<1>4. CASE OnlineEpoch(k)
  BY <1>1, <1>4 DEF OnlineEpoch, RetireTypes, TypeOK, PC, Goto, queues, locals
<1>5. CASE OnlineFlag(k)
  BY <1>1, <1>5 DEF OnlineFlag, RetireTypes, TypeOK, PC, Goto, queues, locals
<1>6. CASE GoOffline(k)
  BY <1>1, <1>6 DEF GoOffline, RetireTypes, TypeOK, PC, Goto, queues, locals
<1>d. ASSUME pc[k] \in {"quantum", "running"}, LetGo(k)
      PROVE  /\ old' \in [Scheds -> [Actors -> SUBSET Scheds]] /\ held[k] \in Actors
             /\ held' \in [Scheds -> Actors \cup {NoActor}] /\ pc' \in [Scheds -> PC]
             /\ pc'[k] = "quiet_load"
             /\ \A j \in Scheds : j # k => pc'[j] = pc[j] /\ held'[j] = held[j]
  BY <1>d DEF LetGo, Goto, Dropped, RetireTypes, TypeOK, PC
<1>7. CASE FoundDead(k)
  BY <1>1, <1>7, <1>d DEF FoundDead, RetireTypes, TypeOK, queues, locals
<1>0. CASE FoundAlive(k)
  BY <1>1, <1>0 DEF FoundAlive, RetireTypes, TypeOK, PC, Goto, queues, locals
<1>8. CASE Blocked(k)
  BY <1>1, <1>8, <1>d DEF Blocked, RetireTypes, TypeOK, queues, locals
<1>9. CASE Preempted(k)
  <2>1. entries' \in [Actors -> 0 .. MaxEntries]
    BY <1>1, <1>9, <1>d DEF Preempted, RetireTypes, TypeOK
  <2> QED BY <1>9, <1>d, <2>1 DEF Preempted, RetireTypes, TypeOK, locals
<1>10. CASE Finished(k)
  BY <1>1, <1>10 DEF Finished, RetireTypes, TypeOK, PC, Goto, locals
<1>11. CASE QuiescentLoad(k)
  BY <1>1, <1>11 DEF QuiescentLoad, RetireTypes, TypeOK, PC, Goto, queues
<1>12. CASE QuiescentStore(k)
  BY <1>1, <1>12 DEF QuiescentStore, RetireTypes, TypeOK, PC, Goto, queues, locals
<1>13. CASE ReclaimNext(k)
  <2>1. pc' \in [Scheds -> PC]
    BY <1>13 DEF ReclaimNext, RetireTypes, TypeOK, PC, Goto
  <2>2. check' \in [Scheds -> SUBSET Scheds]
    <3>1. check' = check \/ check' = [check EXCEPT ![k] = Scheds]
      BY <1>13 DEF ReclaimNext
    <3>2. Scheds \in SUBSET Scheds /\ check \in [Scheds -> SUBSET Scheds]
      BY DEF RetireTypes, TypeOK
    <3> QED BY <3>1, <3>2
  <2>3. freed' \in [Scheds -> 0 .. 2]
    <3>1. freed' = freed \/ freed' = [freed EXCEPT ![k] = 0]
      BY <1>13 DEF ReclaimNext
    <3>2. freed \in [Scheds -> 0 .. 2]
      BY DEF RetireTypes, TypeOK
    <3> QED BY <3>1, <3>2
  <2>4. TypeOK'
    BY <2>1, <2>2, <2>3, <1>13 DEF ReclaimNext, RetireTypes, TypeOK, queues
  <2>5. \A j \in Scheds : j # k => pc'[j] = pc[j] /\ freed'[j] = freed[j]
    BY <1>13 DEF ReclaimNext, RetireTypes, TypeOK, Goto
  <2>6. pc'[k] \in {"safe", "advance"} /\ (pc'[k] = "safe" => ring[k] # <<>> /\ freed'[k] < 2)
    BY <1>13 DEF ReclaimNext, RetireTypes, TypeOK, Goto
  <2> QED BY <2>4, <2>5, <2>6, <1>13 DEF ReclaimNext, RetireTypes
<1>14. CASE SafeScan(k)
  <2> USE <1>14 DEF SafeScan
  <2>1. pc' \in [Scheds -> PC]
    BY DEF RetireTypes, TypeOK, PC, Goto
  <2>2. PICK j \in check[k] :
           \/ check' = [check EXCEPT ![k] = @ \ {j}] /\ UNCHANGED <<pc, freed>>
           \/ /\ check' = [check EXCEPT ![k] = {}] /\ freed' = [freed EXCEPT ![k] = 0]
              /\ Goto(k, "advance")
    OBVIOUS
  <2>3. check' \in [Scheds -> SUBSET Scheds]
    <3>1. check \in [Scheds -> SUBSET Scheds] /\ check[k] \ {j} \in SUBSET Scheds
      BY DEF RetireTypes, TypeOK
    <3> HIDE <1>14
    <3> QED BY <2>2, <3>1
  <2>4. freed' \in [Scheds -> 0 .. 2]
    <3>1. freed \in [Scheds -> 0 .. 2]
      BY DEF RetireTypes, TypeOK
    <3> HIDE <1>14
    <3> QED BY <2>2, <3>1
  <2>5. TypeOK'
    BY <2>1, <2>3, <2>4 DEF RetireTypes, TypeOK, queues
  <2>6. \A i \in Scheds : i # k => pc'[i] = pc[i] /\ freed'[i] = freed[i]
    BY <2>2 DEF RetireTypes, TypeOK, Goto
  <2>7. (pc'[k] = "safe" /\ UNCHANGED freed) \/ pc'[k] = "advance"
    BY <2>2 DEF RetireTypes, TypeOK, Goto
  <2> QED BY <2>5, <2>6, <2>7 DEF RetireTypes
<1>15. CASE AdvanceEpoch(k)
  BY <1>1, <1>15 DEF AdvanceEpoch, RetireTypes, TypeOK, PC, Goto, queues, locals
<1>16. CASE NextIteration(k)
  BY <1>1, <1>16 DEF NextIteration, RetireTypes, TypeOK, PC, Goto, queues, locals
<1> QED BY <1>0, <1>2, <1>3, <1>4, <1>5, <1>6, <1>7, <1>8, <1>9, <1>10,
     <1>11, <1>12, <1>13, <1>14, <1>15, <1>16 DEF Step

LEMMA RetireTypesStep == RetireTypes /\ [Next]_vars => RetireTypes'
<1> SUFFICES ASSUME RetireTypes, [Next]_vars PROVE RetireTypes'
  OBVIOUS
<1>1. CASE UNCHANGED vars
  BY <1>1 DEF RetireTypes, TypeOK, vars
<1>2. ASSUME NEW a \in Actors, Woken(a) PROVE RetireTypes'
  <2>1. entries' \in [Actors -> 0 .. MaxEntries]
    BY <1>2, EpochAssumption DEF Woken, RetireTypes, TypeOK
  <2> QED BY <2>1, <1>2 DEF Woken, RetireTypes, TypeOK, locals
<1>3. ASSUME NEW a \in Actors, Killed(a) PROVE RetireTypes'
  BY <1>3 DEF Killed, RetireTypes, TypeOK, locals
<1> QED BY <1>1, <1>2, <1>3, RetireTypesStay, ReleaseTypesStay, QuietTypesStay DEF Next, Step

(* Between two calls every actor pushed into a deque was taken from it or   *)
(* can still be found by a later call, for any number of thieves, blocks,   *)
(* entries and pushes, and no index of a deque or of a retire ring leaves   *)
(* its array (the second conjunct of OnePlace and LoneInv in DequeProofs).  *)
THEOREM NoActorIsLost == WorkersSpec => []NothingLost
<1> DEFINE Inv == RetireTypes /\ DP!DequeInv /\ (overlap = "no" => DP!LoneInv)
<1>1. WorkersInit => Inv
  BY SameDequeConstants, SameDequeInit, DP!DequeInit, DP!LoneInit, RetireTypesInit DEF WorkersInit
<1>2. Inv /\ [WorkersNext]_<<part, vars, wakevars, dequevars, loopvars>> => Inv'
  <2> SUFFICES ASSUME Inv, [WorkersNext]_<<part, vars, wakevars, dequevars, loopvars>>
               PROVE  Inv'
    OBVIOUS
  <2>1. [Next]_vars
    BY DEF WorkersNext
  <2>2. RetireTypes'
    BY <2>1, RetireTypesStep
  <2>3. [DP!Next]_(DP!vars)
    <3>1. CASE UNCHANGED dequevars
      BY <3>1 DEF dequevars, DP!vars, DP!blocks, DP!cursors, DP!owner, DP!thieves, DP!ghosts
    <3> QED BY <3>1, SameDequeNext DEF WorkersNext
  <2>4. DP!DequeInv'
    BY <2>3, SameDequeConstants, DP!DequeStep
  <2>5. overlap' = "no" => DP!LoneInv'
    BY <2>3, SameDequeConstants, DP!LoneStep
  <2> QED BY <2>2, <2>4, <2>5
<1>3. Inv => NothingLost
  BY SameDequeConstants, SameTypes, SameNothingLost, DP!LoneIsEnough DEF RetireTypes, DP!DequeInv, NothingLost
<1> QED BY <1>1, <1>2, <1>3, PTL DEF WorkersSpec

-----------------------------------------------------------------------------
(* A cell: what CellRefsProofs proves of its counts holds for the cell the  *)
(* threads here refer to.                                                   *)

CP == INSTANCE CellRefsProofs

LEMMA SameCellConstants == CP!CellConstants
  BY CellAssumption DEF C!CellConstants, CP!CellConstants, C!IsFiniteSet, CP!IsFiniteSet

LEMMA SameCellInit == C!Init => CP!Init
  BY DEF C!Init, CP!Init, C!Domains, CP!Domains

LEMMA SameCellNext == C!Next => CP!Next
<1> USE DEF C!Idle, CP!Idle, C!Budget, CP!Budget, C!Goto, CP!Goto
<1>1. C!Domains = CP!Domains
  BY DEF C!Domains, CP!Domains
<1>2. C!AllHeld = CP!AllHeld /\ \A t : C!Holds(t) <=> CP!Holds(t)
  BY <1>1 DEF C!AllHeld, CP!AllHeld, C!References, CP!References, C!Holds, CP!Holds, C!Cardinality, CP!Cardinality
<1>3. /\ \A o : C!Merge(o) = CP!Merge(o) /\ C!Increment(o) = CP!Increment(o) /\ C!Decrement(o) = CP!Decrement(o)
      /\ \A o, t, d : C!cell_retain_slow(o, t, d) = CP!cell_retain_slow(o, t, d)
      /\ \A o, t : C!Retained(o, t) = CP!Retained(o, t)
      /\ \A o, t : C!cell_release_slow(o, t) = CP!cell_release_slow(o, t)
      /\ \A t, d : C!Dropping(t, d) = CP!Dropping(t, d)
  BY DEF C!Merge, CP!Merge, C!Increment, CP!Increment, C!Decrement, CP!Decrement, C!cell_retain_slow, CP!cell_retain_slow,
     C!Retained, CP!Retained, C!cell_release_slow, CP!cell_release_slow, C!Dropping, CP!Dropping
<1>4. ASSUME NEW t \in RefThreads
      PROVE  /\ C!cell_retain(t) => CP!cell_retain(t)
             /\ C!RetainAlive(t) => CP!RetainAlive(t)
             /\ C!cell_release_shared(t) => CP!cell_release_shared(t)
             /\ \A d : C!cell_release_owner(t, d) => CP!cell_release_owner(t, d)
             /\ \A d : C!cell_release_other(t, d) => CP!cell_release_other(t, d)
             /\ C!cell_weak_ref(t) => CP!cell_weak_ref(t)
             /\ C!SetMerged(t) => CP!SetMerged(t)
             /\ C!LoadShared(t) => CP!LoadShared(t)
             /\ C!DoFree(t) => CP!DoFree(t)
             /\ C!prim_weak_deref(t) => CP!prim_weak_deref(t)
             /\ \A u, d : C!HandOver(t, u, d) => CP!HandOver(t, u, d)
  BY <1>2, <1>3 DEF C!cell_retain, CP!cell_retain, C!RetainAlive, CP!RetainAlive, C!cell_release_shared,
     CP!cell_release_shared, C!cell_release_owner, CP!cell_release_owner, C!cell_release_other,
     CP!cell_release_other, C!cell_weak_ref, CP!cell_weak_ref, C!SetMerged, CP!SetMerged, C!LoadShared,
     CP!LoadShared, C!DoFree, CP!DoFree, C!prim_weak_deref, CP!prim_weak_deref, C!HandOver, CP!HandOver
<1>5. ASSUME NEW t \in RefThreads PROVE C!cell_transfer_to_shared(t) => CP!cell_transfer_to_shared(t)
  BY <1>3 DEF C!cell_transfer_to_shared, CP!cell_transfer_to_shared
<1>6. C!cell_weak_release => CP!cell_weak_release
  BY DEF C!cell_weak_release, CP!cell_weak_release
<1> QED BY <1>1, <1>4, <1>5, <1>6 DEF C!Next, CP!Next

LEMMA SameRefsSound == CP!RefsSound => C!RefsSound
<1>1. C!AllHeld = CP!AllHeld
  BY DEF C!AllHeld, CP!AllHeld, C!References, CP!References, C!Domains, CP!Domains, C!Cardinality, CP!Cardinality
<1> QED BY <1>1 DEF C!RefsSound, CP!RefsSound, C!Quiet, CP!Quiet, C!Idle, CP!Idle

(* For any threads and any number of operations below half the range of the *)
(* shared count: the children of a cell are dropped, and its memory freed,  *)
(* once, and only when nobody holds it (cell_release, cell_release_shared,  *)
(* do_free, cell_weak_release), apart from the cases RefsSound names.       *)
THEOREM CellsAreSound == WorkersSpec => []RefsSound
<1> DEFINE I == part = "refs" => CP!RefsInv
<1>1. WorkersInit => I
  BY SameCellConstants, SameCellInit, CP!InitKept DEF WorkersInit
<1>2. I /\ [WorkersNext]_<<part, vars, wakevars, dequevars, loopvars>> => I'
  <2> SUFFICES ASSUME I, [WorkersNext]_<<part, vars, wakevars, dequevars, loopvars>>, part' = "refs"
               PROVE  CP!RefsInv'
    OBVIOUS
  <2>1. part = "refs" /\ CP!RefsInv
    BY DEF WorkersNext
  <2>2. CASE loopvars' = loopvars
    BY <2>1, <2>2, CP!StutterKept DEF loopvars
  <2>3. CASE C!Next
    BY <2>1, <2>3, SameCellConstants, SameCellNext, CP!StepKept
  <2> QED BY <2>1, <2>2, <2>3 DEF WorkersNext
<1>3. I => RefsSound
  BY SameCellConstants, SameRefsSound, CP!RefsImplies DEF RefsSound
<1> HIDE DEF I
<1> QED BY <1>1, <1>2, <1>3, PTL DEF WorkersSpec

-----------------------------------------------------------------------------
(* The grace period, for any number of schedulers and actors and any        *)
(* bounds, for every entry that leaves a retire ring by qsbr_safe.  (A full *)
(* ring gives up its oldest entry without one: in the code, 256 actors      *)
(* retired by one scheduler and none reclaimed.)                            *)
(*                                                                          *)
(* The argument: a scheduler that holds a retired actor entered its quantum *)
(* before the retirement and has announced no epoch since, so its epoch is  *)
(* at most that of the entry.  It is online, so qsbr_safe cannot pass it,   *)
(* in whatever order the threads are looked at.                             *)

ActorOf(k, i) == ring[k][i][1]
EpochOf(k, i) == ring[k][i][2]

(* The variables the argument is about keep their types. *)
Shape ==
  /\ global_epoch \in Nat /\ epoch \in [Scheds -> Nat] /\ ge \in [Scheds -> Nat]
  /\ online \in [Scheds -> BOOLEAN]
  /\ ring \in [Scheds -> Seq(Actors \X Nat)]
  /\ held \in [Scheds -> Actors \cup {NoActor}] /\ pc \in [Scheds -> PC]
  /\ check \in [Scheds -> SUBSET Scheds]
  /\ old \in [Scheds -> [Actors -> SUBSET Scheds]]
  /\ reclaimed \in [Scheds -> SUBSET Actors] /\ dead \subseteq Actors

(* No thread is ahead of the global epoch. *)
EpochsPast == \A k \in Scheds : epoch[k] <= global_epoch /\ ge[k] <= global_epoch

(* Actors are held in quanta, and quanta are run online. *)
HeldInQuanta ==
  \A k \in Scheds :
    /\ held[k] # NoActor <=> pc[k] \in {"quantum", "running", "retire"}
    /\ pc[k] \notin {"online_load", "online_epoch", "online_flag"} => online[k]

(* No scheduler retires an actor twice: after the first time it is dead, and *)
(* is not run again by one that has not yet looked at its alive flag.        *)
RetiredOnce ==
  \A k \in Scheds :
    /\ reclaimed[k] \subseteq dead
    /\ \A i \in DOMAIN ring[k] : ActorOf(k, i) \in dead
    /\ \A i, j \in DOMAIN ring[k] : ActorOf(k, i) = ActorOf(k, j) => i = j
    /\ pc[k] \in {"running", "retire"} =>
         held[k] \notin reclaimed[k] /\ \A i \in DOMAIN ring[k] : ActorOf(k, i) # held[k]
    /\ pc[k] = "retire" => held[k] \in dead

(* Whoever held a retired actor and counts is still in that quantum ...      *)
OldHolders == \A k \in Scheds : \A a \in Actors : \A j \in old[k][a] : held[j] = a

(* ... with an epoch no later than the entry's.                              *)
EntriesCover ==
  \A k \in Scheds : \A i \in DOMAIN ring[k] :
    \A j \in old[k][ActorOf(k, i)] : epoch[j] <= EpochOf(k, i)

(* The scan of qsbr_safe has not passed any of them. *)
ScanSound ==
  \A k \in Scheds : pc[k] = "safe" => ring[k] # << >> /\ old[k][ActorOf(k, 1)] \subseteq check[k]

NobodyLeft == \A k \in Scheds : \A a \in reclaimed[k] : old[k][a] = {}

GraceInv ==
  /\ Shape /\ EpochsPast /\ HeldInQuanta /\ RetiredOnce
  /\ OldHolders /\ EntriesCover /\ ScanSound /\ NobodyLeft

-----------------------------------------------------------------------------

(* What is in a ring are actors with epochs. *)
LEMMA Entries ==
  ASSUME Shape, NEW k \in Scheds, NEW i \in DOMAIN ring[k]
  PROVE  ActorOf(k, i) \in Actors /\ EpochOf(k, i) \in Nat
<1>1. ring[k] \in Seq(Actors \X Nat)
  BY DEF Shape
<1>2. ring[k][i] \in Actors \X Nat
  BY <1>1
<1> QED BY <1>2 DEF ActorOf, EpochOf

(* A quantum that ends without a retirement only shortens the lists of old  *)
(* holders.                                                                 *)
LEMMA GraceLetGo ==
  ASSUME GraceInv, NEW k \in Scheds, pc[k] \in {"quantum", "running"}, LetGo(k),
         UNCHANGED <<global_epoch, epoch, online, ring, dead, ge, check, reclaimed>>
  PROVE  GraceInv'
<1> USE DEF GraceInv
<1>a. \A m \in Scheds : \A i \in DOMAIN ring[m] : ActorOf(m, i) \in Actors
  BY Entries
<1>1. /\ held[k] \in Actors /\ held' = [held EXCEPT ![k] = NoActor]
      /\ pc' = [pc EXCEPT ![k] = "quiet_load"]
  BY DEF LetGo, Goto, Shape, HeldInQuanta
<1>2. /\ old' \in [Scheds -> [Actors -> SUBSET Scheds]]
      /\ \A m \in Scheds : \A a \in Actors : old'[m][a] \subseteq old[m][a]
      /\ \A m \in Scheds : k \notin old'[m][held[k]]
  BY <1>1 DEF LetGo, Dropped, Shape
<1> HIDE DEF GraceInv
<1>3. Shape' /\ EpochsPast' /\ HeldInQuanta'
  BY <1>1, <1>2, NoActorAssumption DEF GraceInv, Shape, EpochsPast, HeldInQuanta, PC
<1>4. RetiredOnce'
  BY <1>1 DEF GraceInv, Shape, RetiredOnce, ActorOf
<1>5. OldHolders'
  <2> SUFFICES ASSUME NEW m \in Scheds, NEW a \in Actors, NEW j \in old'[m][a]
               PROVE  held'[j] = a
    BY DEF OldHolders
  <2>1. j \in old[m][a] /\ held[j] = a /\ j \in Scheds
    BY <1>2 DEF GraceInv, OldHolders, Shape
  <2>2. j # k
    BY <1>2, <2>1
  <2> QED BY <1>1, <2>1, <2>2 DEF GraceInv, Shape
<1>6. EntriesCover'
  BY <1>a, <1>2 DEF GraceInv, EntriesCover, ActorOf, EpochOf
<1>7. ScanSound'
  <2> SUFFICES ASSUME NEW m \in Scheds, pc'[m] = "safe"
               PROVE  ring[m] # << >> /\ old'[m][ActorOf(m, 1)] \subseteq check[m]
    BY DEF ScanSound, ActorOf
  <2>1. pc[m] = "safe"
    BY <1>1 DEF GraceInv, Shape
  <2>2. ring[m] # << >> /\ old[m][ActorOf(m, 1)] \subseteq check[m]
    BY <2>1 DEF GraceInv, ScanSound
  <2>3. 1 \in DOMAIN ring[m]
    BY <2>2 DEF GraceInv, Shape
  <2> QED BY <1>a, <1>2, <2>2, <2>3
<1>8. NobodyLeft'
  BY <1>2 DEF GraceInv, Shape, NobodyLeft
<1> QED BY <1>3, <1>4, <1>5, <1>6, <1>7, <1>8 DEF GraceInv

(* qsbr_retire: the new entry is the only one of its actor in this ring.    *)
LEMMA GraceRetire ==
  ASSUME GraceInv, NEW k \in Scheds, Retire(k)
  PROVE  GraceInv'
<1> DEFINE a == held[k]
           entry == <<a, global_epoch>>
           longer == Append(ring[k], entry)
<1>a. \A m \in Scheds : \A i \in DOMAIN ring[m] : ActorOf(m, i) \in Actors
  BY Entries DEF GraceInv
<1>1. /\ a \in Actors /\ a \in dead /\ a \notin reclaimed[k] /\ pc[k] = "retire"
      /\ entry \in Actors \X Nat /\ ring[k] \in Seq(Actors \X Nat)
      /\ \A i \in DOMAIN ring[k] : ring[k][i][1] # a
      /\ \A i, j \in DOMAIN ring[k] : ring[k][i][1] = ring[k][j][1] => i = j
  BY DEF GraceInv, Shape, HeldInQuanta, RetiredOnce, Retire, ActorOf
<1>2. /\ held' = [held EXCEPT ![k] = NoActor] /\ pc' = [pc EXCEPT ![k] = "quiet_load"]
      /\ ring' = [ring EXCEPT ![k] = IF Len(longer) >= RetireCap THEN Tail(longer) ELSE longer]
      /\ UNCHANGED <<global_epoch, epoch, online, dead, ge, check, reclaimed>>
  BY DEF Retire, Goto, queues, locals
<1>3. /\ old' \in [Scheds -> [Actors -> SUBSET Scheds]]
      /\ \A j \in old'[k][a] : j \in Scheds /\ j # k /\ held[j] = a
      /\ \A m \in Scheds : \A b \in Actors : m # k \/ b # a => old'[m][b] \subseteq old[m][b]
      /\ \A m \in Scheds : k \notin old'[m][a]
  <2>1. \A m \in Scheds : \A b \in Actors :
          old'[m][b] = IF m = k /\ b = a THEN {j \in Scheds \ {k} : held[j] = b}
                       ELSE IF b = a THEN old[m][b] \ {k} ELSE old[m][b]
    BY <1>1, RetireOld DEF GraceInv, Shape
  <2>2. old' \in [Scheds -> [Actors -> SUBSET Scheds]]
    BY <1>1, RetireOld DEF GraceInv, Shape
  <2>3. a \in Actors
    BY <1>1
  <2> HIDE DEF a, entry, longer
  <2>4. \A j \in old'[k][a] : j \in Scheds /\ j # k /\ held[j] = a
    BY <2>1, <2>3
  <2>5. \A m \in Scheds : \A b \in Actors : m # k \/ b # a => old'[m][b] \subseteq old[m][b]
    BY <2>1
  <2>6. \A m \in Scheds : k \notin old'[m][a]
    BY <2>1, <2>3
  <2> QED BY <2>2, <2>4, <2>5, <2>6
<1>4. /\ longer \in Seq(Actors \X Nat) /\ Len(ring[k]) \in Nat
      /\ DOMAIN ring[k] = 1 .. Len(ring[k]) /\ DOMAIN longer = 1 .. Len(ring[k]) + 1
      /\ \A i \in DOMAIN ring[k] : longer[i] = ring[k][i]
      /\ longer[Len(ring[k]) + 1] = entry /\ longer # << >>
      /\ Len(longer) = Len(ring[k]) + 1
  <2> DEFINE r == ring[k]
  <2>1. r \in Seq(Actors \X Nat) /\ entry \in Actors \X Nat
    BY <1>1
  <2> HIDE DEF r, entry
  <2>2. Append(r, entry) \in Seq(Actors \X Nat) /\ Len(r) \in Nat /\ DOMAIN r = 1 .. Len(r)
    BY <2>1
  <2>3. /\ Len(Append(r, entry)) = Len(r) + 1
        /\ \A i \in 1 .. Len(r) : Append(r, entry)[i] = r[i]
        /\ Append(r, entry)[Len(r) + 1] = entry
    BY <2>1
  <2>4. Append(r, entry) # << >>
    BY <2>2, <2>3
  <2> QED BY <2>2, <2>3, <2>4 DEF r
<1> HIDE DEF longer
<1>5. /\ Tail(longer) \in Seq(Actors \X Nat) /\ DOMAIN Tail(longer) = 1 .. Len(ring[k])
      /\ \A i \in 1 .. Len(ring[k]) : Tail(longer)[i] = longer[i + 1]
  BY <1>4
<1>6. PICK s \in {0, 1} :
        /\ ring'[k] \in Seq(Actors \X Nat)
        /\ \A i \in DOMAIN ring'[k] : i \in Nat /\ i + s \in DOMAIN longer /\ ring'[k][i] = longer[i + s]
  <2>0. k \in DOMAIN ring
    BY DEF GraceInv, Shape
  <2>1. CASE Len(longer) >= RetireCap
    <3>1. ring'[k] = Tail(longer)
      BY <1>2, <2>0, <2>1
    <3> DEFINE n == Len(ring[k])
    <3>0. n \in Nat /\ DOMAIN Tail(longer) = 1 .. n /\ DOMAIN longer = 1 .. n + 1
      BY <1>4, <1>5
    <3> HIDE DEF n
    <3>2. \A i \in 1 .. n : i \in Nat /\ i + 1 \in 1 .. n + 1
      BY <3>0
    <3>3. \A i \in 1 .. n : Tail(longer)[i] = longer[i + 1]
      BY <1>5 DEF n
    <3>4. \A i \in DOMAIN ring'[k] : i \in Nat /\ i + 1 \in DOMAIN longer /\ ring'[k][i] = longer[i + 1]
      BY <3>0, <3>1, <3>2, <3>3
    <3> QED BY <1>5, <3>1, <3>4
  <2>2. CASE ~(Len(longer) >= RetireCap)
    <3>1. ring'[k] = longer
      BY <1>2, <2>0, <2>2
    <3>2. \A i \in DOMAIN ring'[k] : i \in Nat /\ i + 0 \in DOMAIN longer /\ ring'[k][i] = longer[i + 0]
      BY <1>4, <3>1
    <3> QED BY <1>4, <3>1, <3>2
  <2> QED BY <2>1, <2>2
<1>7. /\ \A i \in DOMAIN longer : longer[i] = entry \/ (i \in DOMAIN ring[k] /\ longer[i] = ring[k][i])
      /\ \A i, j \in DOMAIN longer : longer[i][1] = longer[j][1] => i = j
  <2>1. ASSUME NEW i \in DOMAIN longer
        PROVE  \/ (i = Len(ring[k]) + 1 /\ longer[i] = entry)
               \/ (i \in DOMAIN ring[k] /\ longer[i] = ring[k][i])
    BY <1>4, <2>1
  <2>2. entry[1] = a
    OBVIOUS
  <2> HIDE DEF a, entry
  <2> QED BY <1>1, <2>1, <2>2
<1>8. ring' \in [Scheds -> Seq(Actors \X Nat)] /\ \A m \in Scheds : m # k => ring'[m] = ring[m]
  BY <1>2, <1>6 DEF GraceInv, Shape
<1>9. entry[1] = a /\ entry[2] = global_epoch
  OBVIOUS
<1> HIDE DEF a, entry
<1>10. Shape' /\ EpochsPast' /\ HeldInQuanta'
  <2>1. Shape'
    BY <1>2, <1>3, <1>8 DEF GraceInv, Shape, PC
  <2>2. EpochsPast'
    BY <1>2 DEF GraceInv, EpochsPast
  <2>3. HeldInQuanta'
    BY <1>1, <1>2 DEF GraceInv, Shape, HeldInQuanta
  <2> QED BY <2>1, <2>2, <2>3
<1>11. RetiredOnce'
  <2>1. ASSUME NEW m \in Scheds, NEW i \in DOMAIN ring'[m]
        PROVE  ring'[m][i][1] \in dead
    <3>1. CASE m = k
      <4>1. i + s \in DOMAIN longer /\ ring'[k][i] = longer[i + s]
        BY <1>6, <2>1, <3>1
      <4>2. CASE longer[i + s] = entry
        BY <1>1, <1>9, <3>1, <4>1, <4>2
      <4>3. CASE i + s \in DOMAIN ring[k] /\ longer[i + s] = ring[k][i + s]
        BY <3>1, <4>1, <4>3 DEF GraceInv, RetiredOnce, ActorOf
      <4> QED BY <1>7, <4>1, <4>2, <4>3
    <3>2. CASE m # k
      BY <1>8, <2>1, <3>2 DEF GraceInv, RetiredOnce, ActorOf
    <3> QED BY <3>1, <3>2
  <2>2. ASSUME NEW m \in Scheds, NEW i \in DOMAIN ring'[m], NEW j \in DOMAIN ring'[m],
               ring'[m][i][1] = ring'[m][j][1]
        PROVE  i = j
    <3>1. CASE m = k
      <4>1. /\ i + s \in DOMAIN longer /\ ring'[k][i] = longer[i + s] /\ i \in Nat
            /\ j + s \in DOMAIN longer /\ ring'[k][j] = longer[j + s] /\ j \in Nat
        BY <1>6, <2>2, <3>1
      <4>2. i + s = j + s
        BY <1>7, <2>2, <3>1, <4>1
      <4>3. \A x, y \in Int : x + s = y + s => x = y
        BY <1>6
      <4>4. i \in Int /\ j \in Int
        BY <4>1
      <4> QED BY <4>2, <4>3, <4>4, Zenon
    <3>2. CASE m # k
      BY <1>8, <2>2, <3>2 DEF GraceInv, RetiredOnce, ActorOf
    <3> QED BY <3>1, <3>2
  <2>3. ASSUME NEW m \in Scheds, pc'[m] \in {"running", "retire"}
        PROVE  m # k /\ pc[m] = pc'[m] /\ held'[m] = held[m] /\ ring'[m] = ring[m]
    BY <1>2, <1>8, <2>3 DEF GraceInv, Shape
  <2>4. \A m \in Scheds : reclaimed'[m] \subseteq dead'
    BY <1>2 DEF GraceInv, RetiredOnce
  <2>5. ASSUME NEW m \in Scheds, pc'[m] \in {"running", "retire"}
        PROVE  /\ held'[m] \notin reclaimed'[m] /\ (pc'[m] = "retire" => held'[m] \in dead')
               /\ \A i \in DOMAIN ring'[m] : ring'[m][i][1] # held'[m]
    BY <1>2, <2>3, <2>5 DEF GraceInv, RetiredOnce, ActorOf
  <2> SUFFICES ASSUME NEW m \in Scheds
               PROVE  /\ reclaimed'[m] \subseteq dead'
                      /\ \A i \in DOMAIN ring'[m] : ring'[m][i][1] \in dead'
                      /\ \A i, j \in DOMAIN ring'[m] : ring'[m][i][1] = ring'[m][j][1] => i = j
                      /\ pc'[m] \in {"running", "retire"} =>
                           held'[m] \notin reclaimed'[m] /\ \A i \in DOMAIN ring'[m] : ring'[m][i][1] # held'[m]
                      /\ pc'[m] = "retire" => held'[m] \in dead'
    BY DEF RetiredOnce, ActorOf
  <2>6. \A i \in DOMAIN ring'[m] : ring'[m][i][1] \in dead'
    BY <1>2, <2>1
  <2>7. \A i, j \in DOMAIN ring'[m] : ring'[m][i][1] = ring'[m][j][1] => i = j
    BY <2>2
  <2>8. pc'[m] \in {"running", "retire"} =>
          /\ held'[m] \notin reclaimed'[m] /\ \A i \in DOMAIN ring'[m] : ring'[m][i][1] # held'[m]
          /\ pc'[m] = "retire" => held'[m] \in dead'
    BY <2>5
  <2> QED BY <2>4, <2>6, <2>7, <2>8
<1>12. OldHolders'
  <2> SUFFICES ASSUME NEW m \in Scheds, NEW b \in Actors, NEW j \in old'[m][b]
               PROVE  held'[j] = b
    BY DEF OldHolders
  <2>1. held[j] = b /\ j \in Scheds
    <3>1. CASE m = k /\ b = a
      BY <1>3, <3>1
    <3>2. CASE m # k \/ b # a
      BY <1>3, <3>2 DEF GraceInv, OldHolders, Shape
    <3> QED BY <3>1, <3>2
  <2>2. j # k
    BY <1>3, <2>1 DEF a
  <2> QED BY <1>2, <2>1, <2>2 DEF GraceInv, Shape
<1>13. EntriesCover'
  <2> SUFFICES ASSUME NEW m \in Scheds, NEW i \in DOMAIN ring'[m], NEW j \in old'[m][ring'[m][i][1]]
               PROVE  epoch[j] <= ring'[m][i][2]
    BY <1>2 DEF EntriesCover, ActorOf, EpochOf
  <2>1. ASSUME NEW n \in DOMAIN ring[m], ring'[m][i] = ring[m][n] PROVE epoch[j] <= ring'[m][i][2]
    <3>1. ActorOf(m, n) \in Actors /\ (m # k \/ ActorOf(m, n) # a)
      BY <1>a, <1>1 DEF ActorOf
    <3>2. j \in old[m][ActorOf(m, n)]
      BY <1>3, <2>1, <3>1 DEF ActorOf
    <3> QED BY <2>1, <3>2 DEF GraceInv, EntriesCover, EpochOf
  <2>2. CASE m = k
    <3>1. i + s \in DOMAIN longer /\ ring'[k][i] = longer[i + s]
      BY <1>6, <2>2
    <3>2. CASE longer[i + s] = entry
      <4>1. j \in Scheds
        BY <1>3, <1>9, <2>2, <3>1, <3>2
      <4>2. epoch[j] <= global_epoch
        BY <4>1 DEF GraceInv, EpochsPast
      <4> QED BY <1>9, <2>2, <3>1, <3>2, <4>2
    <3>3. CASE i + s \in DOMAIN ring[k] /\ longer[i + s] = ring[k][i + s]
      BY <2>1, <2>2, <3>1, <3>3
    <3> QED BY <1>7, <3>1, <3>2, <3>3
  <2>3. CASE m # k
    BY <1>8, <2>1, <2>3
  <2> QED BY <2>2, <2>3
<1>14. ScanSound'
  <2> SUFFICES ASSUME NEW m \in Scheds, pc'[m] = "safe"
               PROVE  ring'[m] # << >> /\ old'[m][ring'[m][1][1]] \subseteq check[m]
    BY <1>2 DEF ScanSound, ActorOf
  <2>1. m # k /\ pc[m] = "safe" /\ ring'[m] = ring[m]
    BY <1>2, <1>8 DEF GraceInv, Shape
  <2>2. ring[m] # << >> /\ old[m][ActorOf(m, 1)] \subseteq check[m]
    BY <2>1 DEF GraceInv, ScanSound
  <2>3. 1 \in DOMAIN ring[m]
    BY <2>2 DEF GraceInv, Shape
  <2> QED BY <1>a, <1>3, <2>1, <2>2, <2>3 DEF ActorOf
<1>15. NobodyLeft'
  <2> SUFFICES ASSUME NEW m \in Scheds, NEW b \in reclaimed[m] PROVE old'[m][b] = {}
    BY <1>2 DEF NobodyLeft
  <2>1. b \in Actors /\ (m # k \/ b # a) /\ old[m][b] = {}
    BY <1>1 DEF GraceInv, Shape, NobodyLeft
  <2> QED BY <1>3, <2>1
<1> QED BY <1>10, <1>11, <1>12, <1>13, <1>14, <1>15 DEF GraceInv

(* One step per action. *)
LEMMA GraceStep ==
  ASSUME GraceInv, Next
  PROVE  GraceInv'
<1> USE DEF GraceInv
<1>a. \A k \in Scheds : \A i \in DOMAIN ring[k] : ActorOf(k, i) \in Actors /\ EpochOf(k, i) \in Nat
  BY Entries
<1>1. ASSUME NEW k \in Scheds, OnlineLoad(k) PROVE GraceInv'
  <2>1. Shape' /\ EpochsPast' /\ HeldInQuanta'
    BY <1>1 DEF Shape, EpochsPast, HeldInQuanta, OnlineLoad, Goto, queues, PC
  <2>2. RetiredOnce' /\ OldHolders'
    BY <1>1 DEF Shape, HeldInQuanta, RetiredOnce, OldHolders, ActorOf, OnlineLoad, Goto, queues
  <2>3. EntriesCover' /\ ScanSound' /\ NobodyLeft'
    BY <1>1, <1>a DEF Shape, EpochsPast, OldHolders, EntriesCover, RetiredOnce,
       HeldInQuanta, ScanSound, NobodyLeft, ActorOf, EpochOf, OnlineLoad, Goto, queues
  <2> QED BY <2>1, <2>2, <2>3
<1>2. ASSUME NEW k \in Scheds, OnlineEpoch(k) PROVE GraceInv'
  <2>1. Shape' /\ EpochsPast' /\ HeldInQuanta'
    BY <1>2 DEF Shape, EpochsPast, HeldInQuanta, OnlineEpoch, Goto, locals, queues, PC
  <2>2. RetiredOnce' /\ OldHolders'
    BY <1>2 DEF Shape, HeldInQuanta, RetiredOnce, OldHolders, ActorOf, OnlineEpoch, Goto, locals, queues
  <2>3. EntriesCover'                            \* this thread is nobody's old holder
    <3>1. ASSUME NEW m \in Scheds, NEW i \in DOMAIN ring[m], NEW j \in old[m][ActorOf(m, i)]
          PROVE  epoch'[j] = epoch[j]
      <4>1. held[j] = ActorOf(m, i) /\ held[j] # NoActor /\ j \in Scheds
        BY <1>a, <3>1, NoActorAssumption DEF OldHolders, Shape
      <4>2. j # k
        BY <1>2, <4>1 DEF HeldInQuanta, OnlineEpoch
      <4> QED BY <1>2, <4>1, <4>2 DEF OnlineEpoch, Shape
    <3> QED BY <1>2, <3>1 DEF EntriesCover, ActorOf, EpochOf, OnlineEpoch
  <2>4. ScanSound' /\ NobodyLeft'
    BY <1>2 DEF Shape, ScanSound, NobodyLeft, ActorOf, OnlineEpoch, Goto, locals, queues
  <2> QED BY <2>1, <2>2, <2>3, <2>4
<1>3. ASSUME NEW k \in Scheds, OnlineFlag(k) PROVE GraceInv'
  <2>1. Shape' /\ EpochsPast' /\ HeldInQuanta'
    BY <1>3 DEF Shape, EpochsPast, HeldInQuanta, OnlineFlag, Goto, locals, queues, PC
  <2>2. RetiredOnce' /\ OldHolders'
    BY <1>3 DEF Shape, HeldInQuanta, RetiredOnce, OldHolders, ActorOf, OnlineFlag, Goto, locals, queues
  <2>3. EntriesCover' /\ ScanSound' /\ NobodyLeft'
    BY <1>3, <1>a DEF Shape, EpochsPast, OldHolders, EntriesCover, RetiredOnce,
       HeldInQuanta, ScanSound, NobodyLeft, ActorOf, EpochOf, OnlineFlag, Goto, locals, queues
  <2> QED BY <2>1, <2>2, <2>3
<1>4. ASSUME NEW k \in Scheds, GoOffline(k) PROVE GraceInv'
  <2>1. Shape' /\ EpochsPast' /\ HeldInQuanta'
    BY <1>4 DEF Shape, EpochsPast, HeldInQuanta, GoOffline, Goto, locals, queues, PC
  <2>2. RetiredOnce' /\ OldHolders'
    BY <1>4 DEF Shape, HeldInQuanta, RetiredOnce, OldHolders, ActorOf, GoOffline, Goto, locals, queues
  <2>3. EntriesCover' /\ ScanSound' /\ NobodyLeft'
    BY <1>4, <1>a DEF Shape, EpochsPast, OldHolders, EntriesCover, RetiredOnce,
       HeldInQuanta, ScanSound, NobodyLeft, ActorOf, EpochOf, GoOffline, Goto, locals, queues
  <2> QED BY <2>1, <2>2, <2>3
<1>5. ASSUME NEW k \in Scheds, NEW a \in Actors, Pick(k, a) PROVE GraceInv'
  <2>1. Shape' /\ EpochsPast' /\ HeldInQuanta'
    BY <1>5, NoActorAssumption DEF Shape, EpochsPast, HeldInQuanta, Pick, Goto, locals, PC
  <2>2. RetiredOnce'
    BY <1>5 DEF Shape, RetiredOnce, ActorOf, Pick, Goto, locals
  <2>3. OldHolders'
    <3> SUFFICES ASSUME NEW m \in Scheds, NEW b \in Actors, NEW j \in old[m][b] PROVE held'[j] = b
      BY <1>5 DEF OldHolders, Pick, locals
    <3>1. j \in Scheds /\ held[j] = b /\ b # NoActor
      BY NoActorAssumption DEF Shape, OldHolders
    <3>2. j # k
      BY <1>5, <3>1 DEF HeldInQuanta, Pick
    <3> QED BY <1>5, <3>1, <3>2 DEF Shape, Pick
  <2>4. EntriesCover' /\ ScanSound' /\ NobodyLeft'
    BY <1>5 DEF Shape, EntriesCover, ScanSound, NobodyLeft, ActorOf, EpochOf, Pick, Goto, locals
  <2> QED BY <2>1, <2>2, <2>3, <2>4
<1>6. ASSUME NEW k \in Scheds, FoundDead(k) PROVE GraceInv'
  BY <1>6, GraceLetGo DEF FoundDead, locals, queues
<1>7. ASSUME NEW k \in Scheds, Blocked(k) PROVE GraceInv'
  BY <1>7, GraceLetGo DEF Blocked, locals, queues
<1>8. ASSUME NEW k \in Scheds, Preempted(k) PROVE GraceInv'
  BY <1>8, GraceLetGo DEF Preempted, locals
<1>9. ASSUME NEW k \in Scheds, FoundAlive(k) PROVE GraceInv'
  <2>1. Shape' /\ EpochsPast' /\ HeldInQuanta'
    BY <1>9 DEF Shape, EpochsPast, HeldInQuanta, FoundAlive, Goto, locals, queues, PC
  <2>2. RetiredOnce'
    BY <1>9 DEF Shape, RetiredOnce, ActorOf, FoundAlive, Goto, locals, queues
  <2>3. OldHolders' /\ EntriesCover' /\ ScanSound' /\ NobodyLeft'
    BY <1>9 DEF Shape, OldHolders, EntriesCover, ScanSound, NobodyLeft, ActorOf, EpochOf,
       FoundAlive, Goto, locals, queues
  <2> QED BY <2>1, <2>2, <2>3
<1>10. ASSUME NEW k \in Scheds, Finished(k) PROVE GraceInv'
  <2>0. held[k] \in Actors
    BY <1>10 DEF Shape, HeldInQuanta, Finished
  <2>1. Shape' /\ EpochsPast' /\ HeldInQuanta'
    BY <1>10, <2>0 DEF Shape, EpochsPast, HeldInQuanta, Finished, Goto, locals, PC
  <2>2. RetiredOnce'
    BY <1>10, <2>0 DEF Shape, RetiredOnce, ActorOf, Finished, Goto, locals
  <2>3. OldHolders' /\ EntriesCover' /\ ScanSound' /\ NobodyLeft'
    BY <1>10 DEF Shape, OldHolders, EntriesCover, ScanSound, NobodyLeft, ActorOf, EpochOf,
       Finished, Goto, locals
  <2> QED BY <2>1, <2>2, <2>3
<1>11. ASSUME NEW k \in Scheds, Retire(k) PROVE GraceInv'
  BY <1>11, GraceRetire
<1>12. ASSUME NEW k \in Scheds, QuiescentLoad(k) PROVE GraceInv'
  <2>1. Shape' /\ EpochsPast' /\ HeldInQuanta'
    <3>1. Shape'
      BY <1>12 DEF Shape, QuiescentLoad, Goto, queues, PC
    <3>2. EpochsPast'
      BY <1>12 DEF Shape, EpochsPast, QuiescentLoad, Goto, queues
    <3>3. HeldInQuanta'
      BY <1>12 DEF Shape, HeldInQuanta, QuiescentLoad, Goto, queues
    <3> QED BY <3>1, <3>2, <3>3
  <2>2. RetiredOnce' /\ OldHolders'
    BY <1>12 DEF Shape, HeldInQuanta, RetiredOnce, OldHolders, ActorOf, QuiescentLoad, Goto, queues
  <2>3. EntriesCover' /\ ScanSound' /\ NobodyLeft'
    BY <1>12, <1>a DEF Shape, EpochsPast, OldHolders, EntriesCover, RetiredOnce,
       HeldInQuanta, ScanSound, NobodyLeft, ActorOf, EpochOf, QuiescentLoad, Goto, queues
  <2> QED BY <2>1, <2>2, <2>3
<1>13. ASSUME NEW k \in Scheds, QuiescentStore(k) PROVE GraceInv'
  <2>1. Shape' /\ EpochsPast' /\ HeldInQuanta'
    BY <1>13 DEF Shape, EpochsPast, HeldInQuanta, QuiescentStore, Goto, locals, queues, PC
  <2>2. RetiredOnce' /\ OldHolders'
    BY <1>13 DEF Shape, HeldInQuanta, RetiredOnce, OldHolders, ActorOf, QuiescentStore, Goto, locals, queues
  <2>3. EntriesCover'                            \* this thread is nobody's old holder
    <3>1. ASSUME NEW m \in Scheds, NEW i \in DOMAIN ring[m], NEW j \in old[m][ActorOf(m, i)]
          PROVE  epoch'[j] = epoch[j]
      <4>1. held[j] = ActorOf(m, i) /\ held[j] # NoActor /\ j \in Scheds
        BY <1>a, <3>1, NoActorAssumption DEF OldHolders, Shape
      <4>2. j # k
        BY <1>13, <4>1 DEF HeldInQuanta, QuiescentStore
      <4> QED BY <1>13, <4>1, <4>2 DEF QuiescentStore, Shape
    <3> QED BY <1>13, <3>1 DEF EntriesCover, ActorOf, EpochOf, QuiescentStore
  <2>4. ScanSound' /\ NobodyLeft'
    BY <1>13 DEF Shape, ScanSound, NobodyLeft, ActorOf, QuiescentStore, Goto, locals, queues
  <2> QED BY <2>1, <2>2, <2>3, <2>4
<1>14. ASSUME NEW k \in Scheds, ReclaimNext(k) PROVE GraceInv'
  <2>1. CASE ring[k] # << >> /\ freed[k] < 2
    <3>1. /\ check' = [check EXCEPT ![k] = Scheds] /\ pc' = [pc EXCEPT ![k] = "safe"] /\ pc[k] = "reclaim"
          /\ UNCHANGED <<global_epoch, epoch, online, ring, entries, dead, held, ge, old, reclaimed>>
      BY <1>14, <2>1 DEF ReclaimNext, Goto, queues
    <3>2. Shape'
      BY <3>1 DEF Shape, PC
    <3>3. HeldInQuanta' /\ EpochsPast'
      BY <3>1 DEF Shape, HeldInQuanta, EpochsPast
    <3>4. RetiredOnce' /\ OldHolders'
      BY <3>1 DEF Shape, RetiredOnce, OldHolders, ActorOf
    <3>5. EntriesCover' /\ NobodyLeft'
      BY <3>1 DEF EntriesCover, NobodyLeft, ActorOf, EpochOf
    <3>6. ScanSound'
      <4>1. 1 \in DOMAIN ring[k]
        BY <2>1 DEF Shape
      <4>2. old[k][ActorOf(k, 1)] \subseteq Scheds
        BY <4>1, <1>a DEF Shape
      <4> QED BY <2>1, <3>1, <4>2 DEF Shape, ScanSound, ActorOf
    <3> QED BY <3>2, <3>3, <3>4, <3>5, <3>6
  <2>2. CASE ~(ring[k] # << >> /\ freed[k] < 2)
    <3>1. /\ check' = check /\ pc' = [pc EXCEPT ![k] = "advance"] /\ pc[k] = "reclaim"
          /\ UNCHANGED <<global_epoch, epoch, online, ring, entries, dead, held, ge, old, reclaimed>>
      BY <1>14, <2>2 DEF ReclaimNext, Goto, queues
    <3>2. Shape'
      BY <3>1 DEF Shape, PC
    <3>3. HeldInQuanta' /\ EpochsPast'
      BY <3>1 DEF Shape, HeldInQuanta, EpochsPast
    <3>4. RetiredOnce' /\ OldHolders'
      BY <3>1 DEF Shape, RetiredOnce, OldHolders, ActorOf
    <3>5. EntriesCover' /\ NobodyLeft' /\ ScanSound'
      BY <3>1 DEF Shape, EntriesCover, NobodyLeft, ScanSound, ActorOf, EpochOf
    <3> QED BY <3>2, <3>3, <3>4, <3>5
  <2> QED BY <2>1, <2>2
<1>15. ASSUME NEW k \in Scheds, SafeScan(k) PROVE GraceInv'
  <2>1. PICK j \in check[k] :
          IF Passed(k, j)
          THEN check' = [check EXCEPT ![k] = @ \ {j}] /\ UNCHANGED <<pc, freed>>
          ELSE check' = [check EXCEPT ![k] = {}] /\ pc' = [pc EXCEPT ![k] = "advance"]
    BY <1>15 DEF SafeScan, Goto
  <2>2. /\ pc[k] = "safe" /\ j \in Scheds
        /\ UNCHANGED <<global_epoch, epoch, online, ring, entries, dead, held, ge, old, reclaimed>>
    BY <1>15, <2>1 DEF SafeScan, Shape, queues
  <2>3. EpochsPast' /\ EntriesCover' /\ NobodyLeft'
    BY <2>2 DEF EpochsPast, EntriesCover, NobodyLeft, ActorOf, EpochOf
  <2>4. CASE Passed(k, j)
    <3>1. check' = [check EXCEPT ![k] = @ \ {j}] /\ pc' = pc
      BY <2>1, <2>4
    <3>2. Shape' /\ HeldInQuanta' /\ RetiredOnce' /\ OldHolders'
      BY <2>2, <3>1 DEF Shape, HeldInQuanta, RetiredOnce, OldHolders, ActorOf
    <3>3. j \notin old[k][ActorOf(k, 1)]        \* it is online, with an early epoch
      <4>1. SUFFICES ASSUME j \in old[k][ActorOf(k, 1)] PROVE FALSE
        OBVIOUS
      <4>2. 1 \in DOMAIN ring[k]
        BY <2>2 DEF Shape, ScanSound
      <4>3. ActorOf(k, 1) \in Actors /\ EpochOf(k, 1) \in Nat /\ epoch[j] \in Nat
        BY <1>a, <2>2, <4>2 DEF Shape
      <4>4. online[j]
        BY <2>2, <4>1, <4>3, NoActorAssumption DEF OldHolders, HeldInQuanta
      <4>5. epoch[j] <= EpochOf(k, 1)
        BY <4>1, <4>2 DEF EntriesCover
      <4> QED BY <2>4, <4>3, <4>4, <4>5 DEF Passed, EpochOf
    <3>4. ScanSound'
      BY <2>2, <3>1, <3>3 DEF Shape, ScanSound, ActorOf
    <3> QED BY <2>3, <3>2, <3>4
  <2>5. CASE ~Passed(k, j)
    <3>1. check' = [check EXCEPT ![k] = {}] /\ pc' = [pc EXCEPT ![k] = "advance"]
      BY <2>1, <2>5
    <3>2. Shape' /\ HeldInQuanta'
      BY <2>2, <3>1 DEF Shape, HeldInQuanta, PC
    <3>3. RetiredOnce' /\ OldHolders' /\ ScanSound'
      BY <2>2, <3>1 DEF Shape, RetiredOnce, OldHolders, ScanSound, ActorOf
    <3> QED BY <2>3, <3>2, <3>3
  <2> QED BY <2>4, <2>5
<1>16. ASSUME NEW k \in Scheds, Release(k) PROVE GraceInv'
  <2>a. /\ pc[k] = "safe" /\ check[k] = {}
        /\ reclaimed' = [reclaimed EXCEPT ![k] = @ \cup {ActorOf(k, 1)}]
        /\ ring' = [ring EXCEPT ![k] = Tail(@)] /\ pc' = [pc EXCEPT ![k] = "reclaim"]
        /\ UNCHANGED <<global_epoch, epoch, online, dead, held, ge, check, old>>
    BY <1>16 DEF Release, Goto, queues, ActorOf
  <2>b. /\ ring[k] \in Seq(Actors \X Nat) /\ ring[k] # << >> /\ 1 \in DOMAIN ring[k]
        /\ ActorOf(k, 1) \in Actors /\ ActorOf(k, 1) \in dead
    BY <1>a, <2>a DEF Shape, ScanSound, RetiredOnce
  <2>c. /\ ring' \in [Scheds -> Seq(Actors \X Nat)]
        /\ \A j \in Scheds : j # k => ring'[j] = ring[j]
        /\ \A i \in DOMAIN ring'[k] : i + 1 \in DOMAIN ring[k] /\ ring'[k][i] = ring[k][i + 1] /\ i \in Nat
    BY <2>a, <2>b DEF Shape
  <2>d. ASSUME NEW j \in Scheds, NEW i \in DOMAIN ring'[j]
        PROVE  \E m \in DOMAIN ring[j] : ring'[j][i] = ring[j][m]
    BY <2>c, <2>d
  <2>1. Shape' /\ EpochsPast' /\ HeldInQuanta'
    BY <2>a, <2>b, <2>c DEF Shape, EpochsPast, HeldInQuanta, PC
  <2>2. RetiredOnce'
    <3>1. ASSUME NEW j \in Scheds PROVE reclaimed'[j] \subseteq dead
      BY <2>a, <2>b, <3>1 DEF Shape, RetiredOnce
    <3>2. ASSUME NEW j \in Scheds, NEW i \in DOMAIN ring'[j]
          PROVE  ring'[j][i][1] \in dead
      <4>1. PICK m \in DOMAIN ring[j] : ring'[j][i] = ring[j][m]
        BY <2>d, <3>2
      <4> QED BY <4>1 DEF RetiredOnce, ActorOf
    <3>3. ASSUME NEW j \in Scheds, NEW i \in DOMAIN ring'[j], NEW m \in DOMAIN ring'[j],
                 ring'[j][i][1] = ring'[j][m][1]
          PROVE  i = m
      <4>1. CASE j = k
        <5>1. /\ i + 1 \in DOMAIN ring[k] /\ m + 1 \in DOMAIN ring[k] /\ i \in Nat /\ m \in Nat
              /\ ring[k][i + 1][1] = ring[k][m + 1][1]
          BY <2>c, <3>3, <4>1
        <5>2. i + 1 = m + 1
          BY <5>1 DEF RetiredOnce, ActorOf
        <5> QED BY <5>1, <5>2
      <4>2. CASE j # k
        BY <2>c, <3>3, <4>2 DEF RetiredOnce, ActorOf
      <4> QED BY <4>1, <4>2
    <3>4. ASSUME NEW j \in Scheds, pc'[j] \in {"running", "retire"}
          PROVE  /\ pc[j] = pc'[j] /\ reclaimed'[j] = reclaimed[j] /\ ring'[j] = ring[j]
                 /\ held'[j] = held[j]
      BY <2>a, <2>c, <3>4 DEF Shape
    <3> QED BY <2>a, <3>1, <3>2, <3>3, <3>4 DEF RetiredOnce, ActorOf
  <2>3. OldHolders'
    BY <2>a DEF Shape, OldHolders
  <2>4. EntriesCover'
    <3> SUFFICES ASSUME NEW m \in Scheds, NEW i \in DOMAIN ring'[m], NEW j \in old[m][ring'[m][i][1]]
                 PROVE  epoch[j] <= ring'[m][i][2]
      BY <2>a DEF EntriesCover, ActorOf, EpochOf
    <3>1. PICK p \in DOMAIN ring[m] : ring'[m][i] = ring[m][p]
      BY <2>d
    <3> QED BY <3>1 DEF EntriesCover, ActorOf, EpochOf
  <2>5. ScanSound'
    BY <2>a, <2>c DEF Shape, ScanSound, ActorOf
  <2>6. NobodyLeft'
    BY <2>a, <2>b DEF Shape, ScanSound, NobodyLeft
  <2> QED BY <2>1, <2>2, <2>3, <2>4, <2>5, <2>6
<1>17. ASSUME NEW k \in Scheds, AdvanceEpoch(k) PROVE GraceInv'
  <2>1. Shape' /\ EpochsPast' /\ HeldInQuanta'
    BY <1>17 DEF Shape, EpochsPast, HeldInQuanta, AdvanceEpoch, Goto, locals, queues, PC
  <2>2. RetiredOnce' /\ OldHolders'
    BY <1>17 DEF Shape, HeldInQuanta, RetiredOnce, OldHolders, ActorOf, AdvanceEpoch, Goto, locals, queues
  <2>3. EntriesCover' /\ ScanSound' /\ NobodyLeft'
    BY <1>17, <1>a DEF Shape, EpochsPast, OldHolders, EntriesCover, RetiredOnce,
       HeldInQuanta, ScanSound, NobodyLeft, ActorOf, EpochOf, AdvanceEpoch, Goto, locals, queues
  <2> QED BY <2>1, <2>2, <2>3
<1>18. ASSUME NEW k \in Scheds, NextIteration(k) PROVE GraceInv'
  <2>1. Shape' /\ EpochsPast' /\ HeldInQuanta'
    BY <1>18 DEF Shape, EpochsPast, HeldInQuanta, NextIteration, Goto, locals, queues, PC
  <2>2. RetiredOnce' /\ OldHolders'
    BY <1>18 DEF Shape, HeldInQuanta, RetiredOnce, OldHolders, ActorOf, NextIteration, Goto, locals, queues
  <2>3. EntriesCover' /\ ScanSound' /\ NobodyLeft'
    BY <1>18, <1>a DEF Shape, EpochsPast, OldHolders, EntriesCover, RetiredOnce,
       HeldInQuanta, ScanSound, NobodyLeft, ActorOf, EpochOf, NextIteration, Goto, locals, queues
  <2> QED BY <2>1, <2>2, <2>3
<1>19. ASSUME NEW a \in Actors, Woken(a) PROVE GraceInv'
  <2>1. Shape' /\ EpochsPast' /\ HeldInQuanta'
    BY <1>19 DEF Shape, EpochsPast, HeldInQuanta, Woken, locals, PC
  <2>2. RetiredOnce' /\ OldHolders'
    BY <1>19 DEF Shape, HeldInQuanta, RetiredOnce, OldHolders, ActorOf, Woken, locals
  <2>3. EntriesCover' /\ ScanSound' /\ NobodyLeft'
    BY <1>19, <1>a DEF Shape, EpochsPast, OldHolders, EntriesCover, RetiredOnce,
       HeldInQuanta, ScanSound, NobodyLeft, ActorOf, EpochOf, Woken, locals
  <2> QED BY <2>1, <2>2, <2>3
<1>20. ASSUME NEW a \in Actors, Killed(a) PROVE GraceInv'
  <2>1. Shape' /\ EpochsPast' /\ HeldInQuanta'
    BY <1>20 DEF Shape, EpochsPast, HeldInQuanta, Killed, locals
  <2>2. RetiredOnce'
    BY <1>20 DEF Shape, RetiredOnce, ActorOf, Killed, locals
  <2>3. OldHolders' /\ EntriesCover' /\ ScanSound' /\ NobodyLeft'
    BY <1>20 DEF Shape, OldHolders, EntriesCover, ScanSound, NobodyLeft, ActorOf, EpochOf,
       Killed, locals
  <2> QED BY <2>1, <2>2, <2>3
<1> QED BY <1>1, <1>2, <1>3, <1>4, <1>5, <1>6, <1>7, <1>8, <1>9, <1>10, <1>11, <1>12,
           <1>13, <1>14, <1>15, <1>16, <1>17, <1>18, <1>19, <1>20 DEF Next, Step

LEMMA GraceStart ==
  ASSUME Init
  PROVE  GraceInv
<1>1. Shape
  BY NoActorAssumption, ZeroAssumption DEF Init, Shape, PC
<1>2. EpochsPast /\ HeldInQuanta
  BY DEF Init, EpochsPast, HeldInQuanta
<1>3. RetiredOnce /\ EntriesCover
  BY DEF Init, RetiredOnce, EntriesCover
<1>4. OldHolders /\ ScanSound /\ NobodyLeft
  BY DEF Init, OldHolders, ScanSound, NobodyLeft
<1> QED BY <1>1, <1>2, <1>3, <1>4 DEF GraceInv

(* A scheduler that held a pointer when its actor was retired has dropped   *)
(* it before qsbr_safe and qsbr_reclaim_amortized let the entry leave the   *)
(* retire ring, also when two schedulers retire the same actor.             *)
THEOREM GracePeriod == WorkersSpec => []GraceHeld
<1>1. WorkersInit => GraceInv
  BY GraceStart DEF WorkersInit
<1>2. GraceInv /\ [WorkersNext]_<<part, vars, wakevars, dequevars, loopvars>> => GraceInv'
  <2>1. ASSUME GraceInv, Next PROVE GraceInv'
    BY <2>1, GraceStep
  <2>2. ASSUME GraceInv, UNCHANGED vars PROVE GraceInv'
    BY <2>2 DEF vars, GraceInv, Shape, EpochsPast, HeldInQuanta, RetiredOnce, OldHolders, EntriesCover,
                ScanSound, NobodyLeft, ActorOf, EpochOf
  <2> QED BY <2>1, <2>2 DEF WorkersNext
<1>3. GraceInv => GraceHeld
  BY DEF GraceInv, NobodyLeft, GraceHeld
<1> QED BY <1>1, <1>2, <1>3, PTL DEF WorkersSpec

-----------------------------------------------------------------------------
(* The containers of LinearCells, by the proofs of LinearCellsProofs        *)

LP == INSTANCE LinearCellsProofs

LEMMA SameLinearConstants == LP!LinearConstants
BY LinearAssumption DEF L!LinearConstants, LP!LinearConstants, L!PowerOfTwo, LP!PowerOfTwo

LEMMA SameLinearHelpers ==
  /\ \A m, n : L!Doubled(m, n) = LP!Doubled(m, n)
  /\ \A n : L!VectorCap(n) = LP!VectorCap(n)
  /\ \A S : L!Min(S) = LP!Min(S) /\ L!Max(S) = LP!Max(S) /\ L!Front(S) = LP!Front(S) /\ L!Last(S) = LP!Last(S)
  /\ \A S : L!ToSet(S) = LP!ToSet(S)
<1>1. \A S : L!Min(S) = LP!Min(S)
  BY DEF L!Min, LP!Min
<1>2. \A m, n : L!Doublings(m, n) = LP!Doublings(m, n)
  BY DEF L!Doublings, LP!Doublings
<1>3. \A n : L!vec_next_cap(n) = LP!vec_next_cap(n)
  BY DEF L!vec_next_cap, LP!vec_next_cap
<1>4. \A n : L!HeapCaps(n) = LP!HeapCaps(n)
  BY <1>3 DEF L!HeapCaps, LP!HeapCaps
<1>5. \A m, n : L!Doubled(m, n) = LP!Doubled(m, n)
  BY <1>1, <1>2 DEF L!Doubled, LP!Doubled
<1>6. \A n : L!VectorCap(n) = LP!VectorCap(n)
  BY <1>1, <1>4 DEF L!VectorCap, LP!VectorCap
<1>7. \A S : L!Max(S) = LP!Max(S) /\ L!Front(S) = LP!Front(S) /\ L!Last(S) = LP!Last(S)
  BY DEF L!Max, LP!Max, L!Front, LP!Front, L!Last, LP!Last
<1>8. \A S : L!ToSet(S) = LP!ToSet(S)
  BY DEF L!ToSet, LP!ToSet
<1> QED BY <1>1, <1>5, <1>6, <1>7, <1>8

LEMMA SameDeque ==
  /\ \A n : L!cell_deque_new(n) = LP!cell_deque_new(n)
  /\ \A d : L!cell_deque_pop_front(d) = LP!cell_deque_pop_front(d) /\ L!cell_deque_pop_back(d) = LP!cell_deque_pop_back(d)
  /\ \A d, x : /\ L!cell_deque_push_front(d, x) = LP!cell_deque_push_front(d, x)
               /\ L!cell_deque_push_back(d, x) = LP!cell_deque_push_back(d, x)
  /\ \A d : /\ L!cell_deque_peek_front(d) = LP!cell_deque_peek_front(d)
            /\ L!cell_deque_peek_back(d) = LP!cell_deque_peek_back(d)
            /\ L!cell_deque_to_list(d) = LP!cell_deque_to_list(d)
<1>1. \A d, i : L!Slot(d, i) = LP!Slot(d, i) /\ L!cell_deque_size(d) = LP!cell_deque_size(d)
  BY DEF L!Slot, LP!Slot, L!cell_deque_size, LP!cell_deque_size
<1>4. \A n : L!cell_deque_new(n) = LP!cell_deque_new(n)
  BY SameLinearHelpers DEF L!cell_deque_new, LP!cell_deque_new
<1>5. \A d : L!cell_deque_pop_front(d) = LP!cell_deque_pop_front(d) /\ L!cell_deque_pop_back(d) = LP!cell_deque_pop_back(d)
  BY DEF L!cell_deque_pop_front, LP!cell_deque_pop_front, L!cell_deque_pop_back, LP!cell_deque_pop_back,
     L!Slot, LP!Slot, L!cell_deque_size, LP!cell_deque_size
<1>6. \A d, x : /\ L!cell_deque_push_front(d, x) = LP!cell_deque_push_front(d, x)
                /\ L!cell_deque_push_back(d, x) = LP!cell_deque_push_back(d, x)
  BY DEF L!cell_deque_push_front, LP!cell_deque_push_front, L!cell_deque_push_back, LP!cell_deque_push_back,
     L!Roomy, LP!Roomy, L!deque_grow, LP!deque_grow, L!Slot, LP!Slot, L!cell_deque_size, LP!cell_deque_size
<1>7. \A d : /\ L!cell_deque_peek_front(d) = LP!cell_deque_peek_front(d)
             /\ L!cell_deque_peek_back(d) = LP!cell_deque_peek_back(d)
             /\ L!cell_deque_to_list(d) = LP!cell_deque_to_list(d)
  BY <1>1 DEF L!cell_deque_peek_front, LP!cell_deque_peek_front, L!cell_deque_peek_back, LP!cell_deque_peek_back,
     L!cell_deque_to_list, LP!cell_deque_to_list
<1> QED BY <1>4, <1>5, <1>6, <1>7

LEMMA SameClamped == \A n, i, j : L!Clamped(n, i, j) = LP!Clamped(n, i, j)
BY SameLinearHelpers DEF L!Clamped, LP!Clamped

LEMMA SameVector ==
  /\ \A n : L!cell_vector_new(n) = LP!cell_vector_new(n)
  /\ \A v, x : L!cell_vector_push(v, x) = LP!cell_vector_push(v, x)
  /\ \A v : L!cell_vector_pop(v) = LP!cell_vector_pop(v)
  /\ \A v, i, x : L!cell_vector_set(v, i, x) = LP!cell_vector_set(v, i, x)
  /\ \A v, i, j : L!cell_vector_slice(v, i, j) = LP!cell_vector_slice(v, i, j)
  /\ \A v : L!cell_vector_to_list(v) = LP!cell_vector_to_list(v)
  /\ \A v, i : L!cell_vector_get(v, i) = LP!cell_vector_get(v, i)
  /\ \A v, x : L!MappedWhilePushing(v, x) = LP!MappedWhilePushing(v, x)
<1>1. \A n : L!cell_vector_new(n) = LP!cell_vector_new(n)
  BY SameLinearHelpers DEF L!cell_vector_new, LP!cell_vector_new
<1>3. \A v, x : L!cell_vector_push(v, x) = LP!cell_vector_push(v, x)
  BY DEF L!cell_vector_push, LP!cell_vector_push, L!vector_grow, LP!vector_grow,
     L!vec_next_cap, LP!vec_next_cap
<1>4. \A v, i, j : L!cell_vector_slice(v, i, j) = LP!cell_vector_slice(v, i, j)
  BY DEF L!cell_vector_slice, LP!cell_vector_slice, L!cell_vector_new, LP!cell_vector_new,
     L!VectorCap, LP!VectorCap, L!HeapCaps, LP!HeapCaps, L!vec_next_cap, LP!vec_next_cap,
     L!Clamped, LP!Clamped, L!Min, LP!Min, L!Max, LP!Max
<1>5. \A v, x : L!MappedWhilePushing(v, x) = LP!MappedWhilePushing(v, x)
  BY <1>3 DEF L!MappedWhilePushing, LP!MappedWhilePushing
<1>6. /\ \A v : L!cell_vector_pop(v) = LP!cell_vector_pop(v)
      /\ \A v, i, x : L!cell_vector_set(v, i, x) = LP!cell_vector_set(v, i, x)
      /\ \A v : L!cell_vector_to_list(v) = LP!cell_vector_to_list(v)
      /\ \A v, i : L!cell_vector_get(v, i) = LP!cell_vector_get(v, i)
  BY DEF L!cell_vector_pop, LP!cell_vector_pop, L!cell_vector_set, LP!cell_vector_set,
     L!cell_vector_to_list, LP!cell_vector_to_list, L!cell_vector_get, LP!cell_vector_get
<1> QED BY <1>1, <1>3, <1>4, <1>5, <1>6

LEMMA SameBuffer ==
  /\ \A n : L!cell_buffer_new(n) = LP!cell_buffer_new(n)
  /\ \A b, x : L!cell_buffer_append(b, x) = LP!cell_buffer_append(b, x)
  /\ \A b, i, x : L!cell_buffer_set(b, i, x) = LP!cell_buffer_set(b, i, x)
  /\ \A b, c : L!cell_buffer_concat(b, c) = LP!cell_buffer_concat(b, c)
  /\ \A b, i, j : L!cell_buffer_slice(b, i, j) = LP!cell_buffer_slice(b, i, j)
  /\ \A b : L!cell_buffer_to_list(b) = LP!cell_buffer_to_list(b)
  /\ \A b : L!cell_buffer_to_string(b) = LP!cell_buffer_to_string(b)
  /\ \A s : L!cell_buffer_from_string(s) = LP!cell_buffer_from_string(s)
<1>1. \A n : L!cell_buffer_new(n) = LP!cell_buffer_new(n)
  BY SameLinearHelpers DEF L!cell_buffer_new, LP!cell_buffer_new
<1>2. \A b : L!cell_buffer_to_list(b) = LP!cell_buffer_to_list(b)
  BY DEF L!cell_buffer_to_list, LP!cell_buffer_to_list
<1>3. \A s : L!Filled(s) = LP!Filled(s)
  BY DEF L!Filled, LP!Filled, L!cell_buffer_new, LP!cell_buffer_new, L!Doubled, LP!Doubled,
     L!Doublings, LP!Doublings, L!Min, LP!Min
<1>4. /\ \A b, x : L!cell_buffer_append(b, x) = LP!cell_buffer_append(b, x)
      /\ \A b, i, x : L!cell_buffer_set(b, i, x) = LP!cell_buffer_set(b, i, x)
  BY DEF L!cell_buffer_append, LP!cell_buffer_append, L!cell_buffer_set, LP!cell_buffer_set,
     L!buffer_grow, LP!buffer_grow
<1>5. /\ \A b, c : L!cell_buffer_concat(b, c) = LP!cell_buffer_concat(b, c)
      /\ \A b, i, j : L!cell_buffer_slice(b, i, j) = LP!cell_buffer_slice(b, i, j)
      /\ \A s : L!cell_buffer_from_string(s) = LP!cell_buffer_from_string(s)
  BY <1>2, <1>3, SameClamped DEF L!cell_buffer_concat, LP!cell_buffer_concat, L!cell_buffer_slice,
     LP!cell_buffer_slice, L!cell_buffer_from_string, LP!cell_buffer_from_string
<1>6. \A b : L!cell_buffer_to_string(b) = LP!cell_buffer_to_string(b)
  BY <1>2, SameLinearHelpers DEF L!cell_buffer_to_string, LP!cell_buffer_to_string
<1> QED BY <1>1, <1>2, <1>4, <1>5, <1>6

LEMMA SameLinearInit == L!Init => LP!Init
BY SameDeque, SameVector, SameBuffer DEF L!Init, LP!Init

LEMMA SameLinearNext == L!Next => LP!Next
<1>1. ASSUME NEW x \in CellItems
      PROVE  /\ L!prim_deque(x) => LP!prim_deque(x)
             /\ L!prim_vector(x) => LP!prim_vector(x)
             /\ L!prim_buffer(x) => LP!prim_buffer(x)
  <2>1. L!prim_deque(x) => LP!prim_deque(x)
    BY SameDeque, SameLinearHelpers DEF L!prim_deque, LP!prim_deque
  <2>2. L!prim_vector(x) => LP!prim_vector(x)
    BY SameVector, SameLinearHelpers DEF L!prim_vector, LP!prim_vector
  <2>3. L!prim_buffer(x) => LP!prim_buffer(x)
    BY SameBuffer, SameLinearHelpers DEF L!prim_buffer, LP!prim_buffer
  <2> QED BY <2>1, <2>2, <2>3
<1> QED BY <1>1 DEF L!Next, LP!Next

LEMMA SameLinearAgrees ==
  LP!DequeAgrees /\ LP!VectorAgrees /\ LP!BufferAgrees => L!DequeAgrees /\ L!VectorAgrees /\ L!BufferAgrees
<1>1. LP!DequeAgrees => L!DequeAgrees
  BY SameDeque, SameLinearHelpers DEF L!DequeAgrees, LP!DequeAgrees, L!Slot, LP!Slot
<1>2. LP!VectorAgrees => L!VectorAgrees
  BY SameVector DEF L!VectorAgrees, LP!VectorAgrees
<1>3. LP!BufferAgrees => L!BufferAgrees
  BY SameBuffer, SameLinearHelpers DEF L!BufferAgrees, LP!BufferAgrees
<1> QED BY <1>1, <1>2, <1>3

(* For any elements, capacities and lengths below half the range of an      *)
(* index: a deque, a vector and a byte buffer answer like the sequence they *)
(* stand for, apart from the moved vector LinearAgrees names (the deque,    *)
(* vector and buffer functions of cell.c).                                  *)
THEOREM ContainersAgree == WorkersSpec => []LinearAgrees
<1> DEFINE I == part = "linear" => LP!LinearInv
<1>1. WorkersInit => I
  BY SameLinearConstants, SameLinearInit, LP!InitKept DEF WorkersInit
<1>2. I /\ [WorkersNext]_<<part, vars, wakevars, dequevars, loopvars>> => I'
  <2> SUFFICES ASSUME I, [WorkersNext]_<<part, vars, wakevars, dequevars, loopvars>>, part' = "linear"
               PROVE  LP!LinearInv'
    OBVIOUS
  <2>1. part = "linear" /\ LP!LinearInv
    BY DEF WorkersNext
  <2>2. CASE loopvars' = loopvars
    BY <2>1, <2>2, LP!StutterKept DEF loopvars
  <2>3. CASE L!Next
    BY <2>1, <2>3, SameLinearConstants, SameLinearNext, LP!StepKept
  <2> QED BY <2>1, <2>2, <2>3 DEF WorkersNext
<1>3. I => LinearAgrees
  BY SameLinearConstants, SameLinearAgrees, LP!LinearImplies DEF LinearAgrees
<1> HIDE DEF I
<1> QED BY <1>1, <1>2, <1>3, PTL DEF WorkersSpec
=============================================================================
