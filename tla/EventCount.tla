----------------------------- MODULE EventCount ------------------------------
(***************************************************************************)
(* The eventcount on which idle scheduler threads park (eventcount.h) and  *)
(* the platform sleep under it (park.c), used the way the worker loop of   *)
(* scheduler.c uses it: a worker with nothing to run registers             *)
(* (ec_prepare_wait), looks for work once more, and then cancels or        *)
(* commits; a producer makes work available and only then notifies.        *)
(*                                                                         *)
(* The 64-bit state word is modelled as its two halves.  Work is per       *)
(* worker because the LIFO slot "runnext" can be emptied by its owner only *)
(* (scheduler.c, sched_enqueue), which is why sched_enqueue notifies all.  *)
(***************************************************************************)
EXTENDS Integers, FiniteSets

CONSTANTS
  Waiters,     \* scheduler threads that park
  Notifiers,   \* threads that enqueue actors or nudge an idle scheduler
  Platforms,   \* the #if branches of park.c to consider
  MaxPosts     \* bound: work items posted in a behaviour

ASSUME PlatformAssumption == Platforms \subseteq {"linux", "apple", "fallback"}
ASSUME MaxPostsAssumption == MaxPosts \in Nat
ASSUME WaitersFinite == IsFiniteSet(Waiters)   \* at most MAX_SCHEDULERS

VARIABLES
  epoch, waiters,   \* upper and lower half of the state word
  work,             \* work[w]: "full" if w's runnext slot holds an actor
  stop,             \* "no", or "yes" once should_stop is set
  alive,            \* "no" while g_alive_actors is not above zero
  wpc,              \* where each waiter is
  seen,             \* seen[w]: the epoch ec_prepare_wait returned
  val,              \* val[w]: the word passed to the wait system call
  npc,              \* where each notifier is
  posts,            \* work items posted so far
  platform          \* the branch of park.c this program was compiled with

vars == <<epoch, waiters, work, stop, alive, wpc, seen, val, npc, posts>>

WaiterPC == {"run", "idle", "recheck", "commit", "spin", "syscall", "asleep", "unregister", "done"}
NotifierPC == {"idle", "bump_all", "bump_one", "wake_all", "wake_one"}

Init ==
  /\ epoch = 0 /\ waiters = 0 /\ posts = 0
  /\ work = [w \in Waiters |-> "empty"]
  /\ stop = "no" /\ alive = "yes"
  /\ wpc = [w \in Waiters |-> "run"]
  /\ seen = [w \in Waiters |-> 0]
  /\ val = [w \in Waiters |-> 0]
  /\ npc = [n \in Notifiers |-> "idle"]
  /\ platform \in Platforms

Goto(w, l) == wpc' = [wpc EXCEPT ![w] = l]

-----------------------------------------------------------------------------
(* The worker loop around the eventcount. *)

TakeWork(w) ==
  /\ wpc[w] = "run" /\ stop = "no" /\ work[w] = "full"
  /\ work' = [work EXCEPT ![w] = "empty"]
  /\ UNCHANGED <<epoch, waiters, stop, alive, wpc, seen, val, npc, posts>>

Leave(w) ==
  /\ wpc[w] = "run" /\ stop = "yes"
  /\ Goto(w, "done")
  /\ UNCHANGED <<epoch, waiters, work, stop, alive, seen, val, npc, posts>>

(* The queues are empty: the worker is going to park. *)
GoIdle(w) ==
  /\ wpc[w] = "run" /\ stop = "no" /\ work[w] = "empty"
  /\ Goto(w, "idle")
  /\ UNCHANGED <<epoch, waiters, work, stop, alive, seen, val, npc, posts>>

(* ec_prepare_wait: one more waiter, remember the epoch. *)
PrepareWait(w) ==
  /\ wpc[w] = "idle"
  /\ waiters' = waiters + 1
  /\ seen' = [seen EXCEPT ![w] = epoch]
  /\ Goto(w, "recheck")
  /\ UNCHANGED <<epoch, work, stop, alive, val, npc, posts>>

(* The registration is taken back and the local variables die. *)
Deregister(w, l) ==
  /\ waiters' = waiters - 1
  /\ seen' = [seen EXCEPT ![w] = 0]
  /\ val' = [val EXCEPT ![w] = 0]
  /\ Goto(w, l)

(* The re-check finds should_stop set or no actor alive: ec_cancel_wait and  *)
(* leave the loop, whatever is in the queues.                               *)
CancelForStop(w) ==
  /\ wpc[w] = "recheck" /\ (stop = "yes" \/ alive = "no")
  /\ Deregister(w, "done")
  /\ UNCHANGED <<epoch, work, stop, alive, npc, posts>>

(* The re-check finds work: ec_cancel_wait and run it. *)
CancelForWork(w) ==
  /\ wpc[w] = "recheck" /\ stop = "no" /\ alive = "yes" /\ work[w] = "full"
  /\ Deregister(w, "run")
  /\ work' = [work EXCEPT ![w] = "empty"]
  /\ UNCHANGED <<epoch, stop, alive, npc, posts>>

NothingFound(w) ==
  /\ wpc[w] = "recheck" /\ stop = "no" /\ alive = "yes" /\ work[w] = "empty"
  /\ Goto(w, "commit")
  /\ UNCHANGED <<epoch, waiters, work, stop, alive, seen, val, npc, posts>>

(* ec_commit_wait: give up if the epoch moved, otherwise park. *)
CommitWait(w) ==
  /\ wpc[w] = "commit"
  /\ Goto(w, IF epoch # seen[w] THEN "unregister" ELSE "spin")
  /\ UNCHANGED <<epoch, waiters, work, stop, alive, seen, val, npc, posts>>

-----------------------------------------------------------------------------
(* guage_park_tiered *)

(* Stages 1 and 2 and the last check of stage 3 all return when they see    *)
(* a new epoch.                                                             *)
SpinSeesEpoch(w) ==
  /\ wpc[w] = "spin" /\ epoch # seen[w]
  /\ Goto(w, "unregister")
  /\ UNCHANGED <<epoch, waiters, work, stop, alive, seen, val, npc, posts>>

(* Mutant of LastLook: the epoch is read again instead of compared. *)
LastLookResnapshot(w) ==
  /\ wpc[w] = "spin"
  /\ seen' = [seen EXCEPT ![w] = epoch]
  /\ val' = [val EXCEPT ![w] = waiters]
  /\ Goto(w, "syscall")
  /\ UNCHANGED <<epoch, waiters, work, stop, alive, npc, posts>>

(* The last load before the system call: its lower half is the value the    *)
(* kernel is asked to compare.                                              *)
LastLook(w) ==
  /\ wpc[w] = "spin" /\ epoch = seen[w]
  /\ val' = [val EXCEPT ![w] = waiters]
  /\ Goto(w, "syscall")
  /\ UNCHANGED <<epoch, waiters, work, stop, alive, seen, npc, posts>>

(* FUTEX_WAIT / __ulock_wait: atomically compare the word at the address    *)
(* (the low half: the waiter count) and sleep, or return at once.           *)
SystemWait(w) ==
  /\ wpc[w] = "syscall" /\ platform # "fallback"
  /\ Goto(w, IF waiters = val[w] THEN "asleep" ELSE "unregister")
  /\ UNCHANGED <<epoch, waiters, work, stop, alive, seen, val, npc, posts>>

(* The sched_yield loop of the fallback branch. *)
FallbackWait(w) ==
  /\ wpc[w] = "syscall" /\ platform = "fallback" /\ epoch # seen[w]
  /\ Goto(w, "unregister")
  /\ UNCHANGED <<epoch, waiters, work, stop, alive, seen, val, npc, posts>>

(* Mutant of WaitTimeout: no bound on the wait. *)
WaitTimeoutNever(w) ==
  /\ FALSE
  /\ UNCHANGED vars

(* macOS only: the wait is bounded by 10 ms. *)
WaitTimeout(w) ==
  /\ wpc[w] = "asleep" /\ platform = "apple"
  /\ Goto(w, "unregister")
  /\ UNCHANGED <<epoch, waiters, work, stop, alive, seen, val, npc, posts>>

(* Mutant of Unregister: the waiter count is not given back. *)
UnregisterForgotten(w) ==
  /\ wpc[w] = "unregister"
  /\ Goto(w, "run")
  /\ UNCHANGED <<epoch, waiters, work, stop, alive, seen, val, npc, posts>>

Unregister(w) ==
  /\ wpc[w] = "unregister"
  /\ Deregister(w, "run")
  /\ UNCHANGED <<epoch, work, stop, alive, npc, posts>>

-----------------------------------------------------------------------------
(* Producers *)

(* sched_enqueue fills w's runnext slot (its overflow goes elsewhere), then *)
(* notifies all.                                                            *)
Post(n, w) ==
  /\ npc[n] = "idle" /\ stop = "no" /\ posts < MaxPosts
  /\ posts' = posts + 1
  /\ work' = [work EXCEPT ![w] = "full"]
  /\ npc' = [npc EXCEPT ![n] = "bump_all"]
  /\ UNCHANGED <<epoch, waiters, stop, alive, wpc, seen, val>>

(* The last actor to block nudges one thread; no work comes with it.        *)
Nudge(n) ==
  /\ npc[n] = "idle" /\ stop = "no" /\ posts < MaxPosts
  /\ posts' = posts + 1
  /\ npc' = [npc EXCEPT ![n] = "bump_one"]
  /\ UNCHANGED <<epoch, waiters, work, stop, alive, wpc, seen, val>>

(* sched_run_all / sched_shutdown: set should_stop, then notify all. *)
Shutdown(n) ==
  /\ npc[n] = "idle" /\ stop = "no"
  /\ stop' = "yes"
  /\ npc' = [npc EXCEPT ![n] = "bump_all"]
  /\ UNCHANGED <<epoch, waiters, work, alive, wpc, seen, val, posts>>

(* alive_dec_and_notify: the death of the last actor alive notifies all.  An *)
(* actor killed during its quantum, and so not counted, may yet spawn one.   *)
AliveChanges(n) ==
  /\ npc[n] = "idle" /\ stop = "no" /\ posts < MaxPosts
  /\ posts' = posts + 1
  /\ IF alive = "yes" THEN alive' = "no" /\ npc' = [npc EXCEPT ![n] = "bump_all"]
     ELSE alive' = "yes" /\ UNCHANGED npc
  /\ UNCHANGED <<epoch, waiters, work, stop, wpc, seen, val>>

(* ec_notify_all / ec_notify_one bump the epoch and read the waiter count   *)
(* in one atomic step; the system call follows if somebody waits.           *)
Bump(n) ==
  /\ npc[n] \in {"bump_all", "bump_one"}
  /\ epoch' = epoch + 1
  /\ npc' = [npc EXCEPT ![n] = IF waiters = 0 THEN "idle"
                               ELSE IF npc[n] = "bump_all" THEN "wake_all" ELSE "wake_one"]
  /\ UNCHANGED <<waiters, work, stop, alive, wpc, seen, val, posts>>

Asleep == {w \in Waiters : wpc[w] = "asleep"}

(* FUTEX_WAKE with INT32_MAX: everybody asleep at this moment. *)
WakeAll(n) ==
  /\ npc[n] = "wake_all"
  /\ wpc' = [w \in Waiters |-> IF w \in Asleep THEN "unregister" ELSE wpc[w]]
  /\ npc' = [npc EXCEPT ![n] = "idle"]
  /\ UNCHANGED <<epoch, waiters, work, stop, alive, seen, val, posts>>

(* guage_wake: one sleeper, if there is one. *)
WakeOne(n) ==
  /\ npc[n] = "wake_one"
  /\ IF Asleep = {} THEN UNCHANGED wpc ELSE \E w \in Asleep : Goto(w, "unregister")
  /\ npc' = [npc EXCEPT ![n] = "idle"]
  /\ UNCHANGED <<epoch, waiters, work, stop, alive, seen, val, posts>>

WaiterStep(w) ==
  \/ TakeWork(w) \/ Leave(w) \/ GoIdle(w) \/ PrepareWait(w) \/ CancelForStop(w)
  \/ CancelForWork(w) \/ NothingFound(w) \/ CommitWait(w) \/ SpinSeesEpoch(w) \/ LastLook(w) \/ SystemWait(w)
  \/ FallbackWait(w) \/ WaitTimeout(w) \/ Unregister(w)
NotifyStep(n) == Bump(n) \/ WakeAll(n) \/ WakeOne(n)
Produce(n) == (\E w \in Waiters : Post(n, w)) \/ Nudge(n) \/ AliveChanges(n) \/ Shutdown(n)

Next == /\ \/ \E w \in Waiters : WaiterStep(w)
           \/ \E n \in Notifiers : Produce(n) \/ NotifyStep(n)
        /\ UNCHANGED platform

(* Threads are scheduled by the operating system: a thread that can take a  *)
(* step eventually does, and a notification that was begun is finished.     *)
Fairness == /\ \A w \in Waiters : WF_vars(WaiterStep(w))
            /\ \A n \in Notifiers : WF_vars(NotifyStep(n))

Spec == Init /\ [][Next]_<<vars, platform>> /\ Fairness

-----------------------------------------------------------------------------
(* Every variable keeps its type. *)
TypeOK ==
  /\ epoch \in Nat /\ waiters \in Nat /\ posts \in 0 .. MaxPosts
  /\ work \in [Waiters -> {"empty", "full"}] /\ {stop, alive} \subseteq {"no", "yes"}
  /\ wpc \in [Waiters -> WaiterPC] /\ npc \in [Notifiers -> NotifierPC]
  /\ seen \in [Waiters -> Nat] /\ val \in [Waiters -> Nat] /\ platform \in Platforms

Registered(w) == wpc[w] \in {"recheck", "commit", "spin", "syscall", "asleep", "unregister"}

(* The lower half of the state word is exactly the number of registered     *)
(* threads.  A missing or a second decrement in ec_cancel_wait /            *)
(* ec_commit_wait would skip wake-ups or borrow from the epoch half.        *)
WaitersExact == waiters = Cardinality({w \in Waiters : Registered(w)})

(* A thread sleeps on an old epoch with work waiting for it only while a    *)
(* notification is still on its way: the promise of eventcount.h, lines     *)
(* 14-15, and of scheduler.c, lines 1102-1104.                              *)
NoLostWakeup ==
  \A w \in Waiters : wpc[w] = "asleep" /\ (work[w] = "full" \/ stop = "yes")
    => \E n \in Notifiers : npc[n] \in {"bump_all", "wake_all"}

(* An actor put into a scheduler's runnext slot is eventually run, unless   *)
(* the schedulers are shut down first, or its scheduler has left because it *)
(* once saw no actor alive.                                                 *)
WorkIsTaken ==
  \A w \in Waiters : work[w] = "full" ~> work[w] = "empty" \/ stop = "yes" \/ wpc[w] = "done"

(* Once should_stop is set every worker leaves its loop, so that the        *)
(* pthread_join in sched_run_all returns.                                   *)
ShutdownCompletes == stop = "yes" ~> \A w \in Waiters : wpc[w] = "done"
=============================================================================
