------------------------------ MODULE ActorWake ------------------------------
(***************************************************************************)
(* How one actor blocks on its empty mailbox and is woken by a message,    *)
(* while several scheduler threads run: prim_receive and prim_call         *)
(* (primitives.c), actor_send (actor.c), fiber_yield / fiber_resume        *)
(* (fiber.c) and sched_run_one_quantum (scheduler.c).                      *)
(*                                                                         *)
(* An actor is known to the schedulers only through entries in their run   *)
(* queues; "queued" counts them.  A blocked actor has none: whoever resets *)
(* its wait_flag from 1 to 0 owes it one.  The mailbox is the ring of      *)
(* VyukovRing, taken at its specification: here only the number of its     *)
(* messages matters.                                                       *)
(***************************************************************************)
EXTENDS Integers, Sequences, FiniteSets

CONSTANTS
  Scheds,        \* scheduler threads, of which some are started
  Senders,       \* threads that send to the actor
  MailboxCap,    \* capacity of the mailbox
  Primitives,    \* how the actor waits, of "receive" (prim_receive) and "call" (prim_call)
  StoreModels,   \* "ordered", or "buffered": others may see a plain store late (x86, ARM)
  MaxSends,      \* bound: messages sent in a behaviour
  MaxYields      \* bound: how often the actor is preempted in a behaviour

VARIABLES
  fstate,       \* fiber->state
  reason,       \* fiber->suspend_reason
  wait_flag,    \* actor->wait_flag
  mailbox,      \* messages in the mailbox
  queued,       \* run-queue entries that point to the actor
  pc,           \* pc[k]: where scheduler k is, in its own code or on the fiber
  buffer,       \* buffer[k]: stores of k to wait_flag not yet visible
  npc,          \* where each sender is
  sends, yields,   \* counters
  handed,       \* the schedulers whose actor waits for its wake-up: they owe it no entry
  doubled,      \* has the actor been given a second entry?
  started,      \* the schedulers of this program (sched_init)
  stores,       \* how its processor treats a plain store
  primitive     \* what the actor calls to wait for a message

vars == <<fstate, reason, wait_flag, mailbox, queued, pc, buffer, npc,
          sends, yields, handed, doubled, started, stores, primitive>>
counters == <<sends, yields>>
ghosts == <<handed, doubled>>

SchedPC == {"idle", "check", "enter", "resume", "body", "recv", "flag", "recheck",
            "budget", "yield", "switch", "after", "requeue"}
SenderPC == {"idle", "wake", "enqueue"}

(* The actor has been spawned and put into a run queue. *)
Init ==
  /\ fstate = "ready" /\ reason = "general" /\ wait_flag = 0
  /\ mailbox = 0 /\ queued = 1
  /\ pc = [k \in Scheds |-> "idle"] /\ buffer = [k \in Scheds |-> <<>>]
  /\ npc = [n \in Senders |-> "idle"]
  /\ sends = 0 /\ yields = 0 /\ handed = {} /\ doubled = FALSE
  /\ started \in SUBSET Scheds \ {{}} /\ stores \in StoreModels
  /\ primitive \in Primitives

Goto(k, l) == pc' = [pc EXCEPT ![k] = l]

(* A store to wait_flag by scheduler k. *)
StoreFlag(k, v) ==
  IF stores = "buffered"
  THEN buffer' = [buffer EXCEPT ![k] = Append(@, v)] /\ UNCHANGED wait_flag
  ELSE wait_flag' = v /\ UNCHANGED buffer

(* The store becomes visible to the other threads. *)
Drain(k) ==
  /\ buffer[k] # <<>>
  /\ wait_flag' = Head(buffer[k])
  /\ buffer' = [buffer EXCEPT ![k] = Tail(@)]
  /\ UNCHANGED <<fstate, reason, mailbox, queued, pc, npc, counters, ghosts>>

(* Taking a message out of the ring is an atomic read-modify-write, which   *)
(* no earlier store may be delayed past.                                    *)
TakeMessage(k) ==
  /\ mailbox > 0 /\ buffer[k] = <<>>
  /\ mailbox' = mailbox - 1

-----------------------------------------------------------------------------
(* sched_run_one_quantum *)

Pick(k) ==
  /\ pc[k] = "idle" /\ queued > 0 /\ buffer[k] = <<>>
  /\ queued' = queued - 1
  /\ Goto(k, "check")
  /\ UNCHANGED <<fstate, reason, wait_flag, mailbox, buffer, npc, counters, ghosts>>

Runnable == reason = "reduction" \/ (reason = "mailbox" /\ mailbox > 0)

(* Mutant of Check: any entry found in a queue is run. *)
CheckNothing(k) ==
  /\ pc[k] = "check"
  /\ Goto(k, "enter")
  /\ UNCHANGED <<fstate, reason, wait_flag, mailbox, queued, buffer, npc, counters, ghosts>>

(* A suspended actor whose condition does not hold is left alone (-1).      *)
Check(k) ==
  /\ pc[k] = "check"
  /\ Goto(k, IF fstate = "suspended" /\ ~Runnable THEN "idle" ELSE "enter")
  /\ UNCHANGED <<fstate, reason, wait_flag, mailbox, queued, buffer, npc, counters, ghosts>>

StartFiber(k) ==
  /\ pc[k] = "enter" /\ fstate = "ready"
  /\ fstate' = "running"
  /\ Goto(k, "body")
  /\ UNCHANGED <<reason, wait_flag, mailbox, queued, buffer, npc, counters, ghosts>>

ClearFlag(k) ==
  /\ pc[k] = "enter" /\ fstate = "suspended"
  /\ StoreFlag(k, 0)
  /\ Goto(k, "resume")
  /\ UNCHANGED <<fstate, reason, mailbox, queued, npc, counters, ghosts>>

(* Neither READY nor SUSPENDED: the fiber is running elsewhere. *)
EnterRunning(k) ==
  /\ pc[k] = "enter" /\ fstate \notin {"ready", "suspended"}
  /\ Goto(k, "after")
  /\ UNCHANGED <<fstate, reason, wait_flag, mailbox, queued, buffer, npc, counters, ghosts>>

(* sched_prepare_resume and fiber_resume.  A mailbox that turns out to be    *)
(* empty resumes the actor with nil.                                        *)
ResumeFiber(k) ==
  /\ pc[k] = "resume"
  /\ IF reason = "mailbox" /\ mailbox > 0 THEN TakeMessage(k)
     ELSE UNCHANGED mailbox
  /\ reason' = "general"
  /\ fstate' = "running"
  /\ Goto(k, "body")
  /\ UNCHANGED <<wait_flag, queued, buffer, npc, sends, yields, ghosts>>

(* Mutant of After: the actor is put back into a queue whatever it waits for. *)
AfterAlways(k) ==
  /\ pc[k] = "after"
  /\ Goto(k, "requeue")
  /\ handed' = handed \ {k} /\ UNCHANGED doubled
  /\ UNCHANGED <<fstate, reason, wait_flag, mailbox, queued, buffer, npc, counters>>

(* Back from the fiber: only a preempted actor is put back into a queue.    *)
(* What the thread sees may be the work of another that has taken the actor *)
(* since its wake-up.                                                       *)
After(k) ==
  LET back == fstate # "suspended" \/ reason = "reduction"
  IN  /\ pc[k] = "after"
      /\ Goto(k, IF back THEN "requeue" ELSE "idle")
      /\ doubled' = (doubled \/ (back /\ k \in handed)) /\ handed' = handed \ {k}
      /\ UNCHANGED <<fstate, reason, wait_flag, mailbox, queued, buffer, npc, counters>>

Requeue(k) ==
  /\ pc[k] = "requeue" /\ buffer[k] = <<>>
  /\ queued' = queued + 1
  /\ Goto(k, "idle")
  /\ UNCHANGED <<fstate, reason, wait_flag, mailbox, buffer, npc, counters, ghosts>>

-----------------------------------------------------------------------------
(* The actor's own code, on whichever scheduler runs its fiber. *)

(* The reduction budget is used up: the fiber is marked suspended ...       *)
Preempt(k) ==
  /\ pc[k] = "body" /\ yields < MaxYields
  /\ yields' = yields + 1
  /\ fstate' = "suspended"
  /\ Goto(k, "budget")
  /\ UNCHANGED <<reason, wait_flag, mailbox, queued, buffer, npc, sends, ghosts>>

(* ... and then told why. *)
SetReduction(k) ==
  /\ pc[k] = "budget"
  /\ reason' = "reduction"
  /\ Goto(k, "switch")
  /\ UNCHANGED <<fstate, wait_flag, mailbox, queued, buffer, npc, counters, ghosts>>

CallReceive(k) ==
  /\ pc[k] = "body"
  /\ Goto(k, "recv")
  /\ UNCHANGED <<fstate, reason, wait_flag, mailbox, queued, buffer, npc, counters, ghosts>>

FirstLook(k) ==
  /\ pc[k] = "recv"
  /\ \/ TakeMessage(k) /\ Goto(k, "body")
     \/ mailbox = 0 /\ Goto(k, "flag") /\ UNCHANGED mailbox
  /\ UNCHANGED <<fstate, reason, wait_flag, queued, buffer, npc, sends, yields, ghosts>>

(* Mutant of SetFlag: prim_receive goes to sleep like prim_call. *)
SetFlagNoRecheck(k) ==
  /\ pc[k] = "flag"
  /\ reason' = "mailbox"
  /\ StoreFlag(k, 1)
  /\ Goto(k, "yield")
  /\ handed' = handed \cup {k} /\ UNCHANGED doubled
  /\ UNCHANGED <<fstate, mailbox, queued, npc, counters>>

(* prim_receive looks again after setting the flag, prim_call does not.     *)
SetFlag(k) ==
  /\ pc[k] = "flag"
  /\ reason' = "mailbox"
  /\ StoreFlag(k, 1)
  /\ Goto(k, IF primitive = "receive" THEN "recheck" ELSE "yield")
  /\ handed' = handed \cup {k} /\ UNCHANGED doubled
  /\ UNCHANGED <<fstate, mailbox, queued, npc, counters>>

(* A message arrived in the gap: cancel the wait.  A sender that has taken   *)
(* the flag down wakes the actor all the same.                              *)
RecheckFinds(k) ==
  /\ pc[k] = "recheck"
  /\ TakeMessage(k)
  /\ StoreFlag(k, 0)
  /\ doubled' = (doubled \/ wait_flag = 0) /\ handed' = handed \ {k}
  /\ reason' = "general"
  /\ Goto(k, "body")
  /\ UNCHANGED <<fstate, queued, npc, sends, yields>>

RecheckEmpty(k) ==
  /\ pc[k] = "recheck" /\ mailbox = 0
  /\ Goto(k, "yield")
  /\ UNCHANGED <<fstate, reason, wait_flag, mailbox, queued, buffer, npc, counters, ghosts>>

(* fiber_yield, first half: the state is set while still on the stack. *)
MarkSuspended(k) ==
  /\ pc[k] = "yield"
  /\ fstate' = "suspended"
  /\ Goto(k, "switch")
  /\ UNCHANGED <<reason, wait_flag, mailbox, queued, buffer, npc, counters, ghosts>>

(* fiber_yield, second half: jump to the scheduler's context, which saves   *)
(* the fiber's.                                                             *)
SwitchOut(k) ==
  /\ pc[k] = "switch"
  /\ Goto(k, "after")
  /\ UNCHANGED <<fstate, reason, wait_flag, mailbox, queued, buffer, npc, counters, ghosts>>

-----------------------------------------------------------------------------
(* actor_send *)

Deliver(n) ==
  /\ npc[n] = "idle" /\ sends < MaxSends /\ mailbox < MailboxCap
  /\ sends' = sends + 1
  /\ mailbox' = mailbox + 1
  /\ npc' = [npc EXCEPT ![n] = "wake"]
  /\ UNCHANGED <<fstate, reason, wait_flag, queued, pc, buffer, yields, ghosts>>

(* A full mailbox: the message is dropped, the sender is not told. *)
DropWhenFull(n) ==
  /\ npc[n] = "idle" /\ sends < MaxSends /\ mailbox = MailboxCap
  /\ sends' = sends + 1
  /\ UNCHANGED <<fstate, reason, wait_flag, mailbox, queued, pc, buffer, npc, yields, ghosts>>

ExchangeFlag(n) ==
  /\ npc[n] = "wake"
  /\ wait_flag' = 0
  /\ npc' = [npc EXCEPT ![n] = IF wait_flag = 1 THEN "enqueue" ELSE "idle"]
  /\ UNCHANGED <<fstate, reason, mailbox, queued, pc, buffer, counters, ghosts>>

EnqueueActor(n) ==
  /\ npc[n] = "enqueue"
  /\ queued' = queued + 1
  /\ npc' = [npc EXCEPT ![n] = "idle"]
  /\ UNCHANGED <<fstate, reason, wait_flag, mailbox, pc, buffer, counters, ghosts>>

SchedStep(k) ==
  \/ Pick(k) \/ Check(k) \/ StartFiber(k) \/ ClearFlag(k) \/ EnterRunning(k)
  \/ ResumeFiber(k) \/ After(k) \/ Requeue(k) \/ Drain(k)
FiberStep(k) ==
  \/ Preempt(k) \/ SetReduction(k) \/ CallReceive(k) \/ FirstLook(k) \/ SetFlag(k) \/ RecheckFinds(k)
  \/ RecheckEmpty(k) \/ MarkSuspended(k) \/ SwitchOut(k)
WakeStep(n) == ExchangeFlag(n) \/ EnqueueActor(n)

OnFiber(k) == pc[k] \in {"body", "recv", "flag", "recheck", "budget", "yield", "switch"}

(* Two threads on one stack: what happens next is undefined (the comment of *)
(* scheduler.c, lines 1152-1153, says "Bus error / fiber stack corruption"), *)
(* so such a state is the end of a behaviour.                               *)
StackShared == \E j, k \in Scheds : j # k /\ OnFiber(j) /\ OnFiber(k)

Next == /\ ~StackShared
        /\ \/ \E k \in started : SchedStep(k) \/ FiberStep(k)
           \/ \E n \in Senders : Deliver(n) \/ DropWhenFull(n) \/ WakeStep(n)
        /\ UNCHANGED <<started, stores, primitive>>

Spec == Init /\ [][Next]_vars

-----------------------------------------------------------------------------
(* Every variable keeps its type. *)
TypeOK ==
  /\ fstate \in {"ready", "running", "suspended"}
  /\ reason \in {"general", "mailbox", "reduction"}
  /\ wait_flag \in {0, 1} /\ mailbox \in 0 .. MailboxCap /\ queued \in Nat
  /\ pc \in [Scheds -> SchedPC] /\ npc \in [Senders -> SenderPC]
  /\ buffer \in [Scheds -> Seq({0, 1})]
  /\ sends \in 0 .. MaxSends /\ yields \in 0 .. MaxYields
  /\ handed \subseteq Scheds /\ doubled \in BOOLEAN
  /\ started \subseteq Scheds /\ stores \in StoreModels /\ primitive \in Primitives

InTransit == \/ \E n \in Senders : npc[n] # "idle"
             \/ \E k \in Scheds : pc[k] # "idle" \/ buffer[k] # <<>>

(* The actor is never left blocked with a message in its mailbox, no entry  *)
(* in any queue and nobody about to make one: the lost wake-up that the     *)
(* two-phase wait of prim_receive is there to close.                        *)
NoStrandedMessage == mailbox > 0 => queued > 0 \/ InTransit

(* An actor that committed to sleep with its flag up never sleeps on a      *)
(* message whose sender has already passed the flag: what the re-check of   *)
(* prim_receive (primitives.c, lines 3066-3073) is for.  prim_call has no   *)
(* re-check, and the re-check is worth something only if the store of the   *)
(* flag is ordered before it.                                               *)
TwoPhaseWaitSound ==
  /\ primitive = "receive" /\ stores = "ordered"
  /\ fstate = "suspended" /\ reason = "mailbox" /\ wait_flag = 1 /\ mailbox > 0
  => \E n \in Senders : npc[n] = "wake"

(* With one scheduler, an actor suspended in prim_receive or prim_call is   *)
(* resumed only to be handed a message: between the check of                *)
(* sched_actor_runnable and the actor_receive of sched_prepare_resume       *)
(* nobody may empty the mailbox, or the program receives a nil that was     *)
(* never sent.                                                              *)
ResumedWithMessage ==
  Cardinality(started) = 1 =>
    \A k \in started : pc[k] = "resume" /\ reason = "mailbox" => mailbox > 0

(* Whoever will put the actor into a queue or run it.                        *)
Holders ==
  ({"entry"} \X (1 .. queued)) \cup {<<"flag", f>> : f \in {1} \cap {wait_flag}}
  \cup ({"scheduler"} \X {k \in Scheds \ handed : pc[k] # "idle"})
  \cup ({"sender"} \X {n \in Senders : npc[n] = "enqueue"})

(* "Re-enqueueing here causes double-enqueue races, double-run" (scheduler.c, *)
(* lines 1148-1153): an actor has one entry, or one scheduler, or one sender *)
(* on its way to a queue, or its flag up, and two schedulers meet on its     *)
(* stack only while one of them is leaving it (fiber_yield marks the fiber   *)
(* suspended first, fiber.c, line 131).  It gets a second entry in two ways: *)
(* prim_receive cancels a wait of which a sender already took the flag down, *)
(* and a scheduler back from a fiber takes the quantum of another for its    *)
(* own.                                                                      *)
OneHolder ==
  stores = "ordered" /\ ~doubled =>
    /\ \A x, y \in Holders : x = y
    /\ StackShared => \E k \in handed : pc[k] = "switch"
=============================================================================
