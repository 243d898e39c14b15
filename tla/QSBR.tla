-------------------------------- MODULE QSBR ---------------------------------
(***************************************************************************)
(* Quiescent-state based reclamation of finished actors (scheduler.h and   *)
(* scheduler.c).  A scheduler that ran an actor to its end puts it into    *)
(* its retire ring with the global epoch; the entry may leave the ring     *)
(* once every online scheduler has announced a later epoch, which it does  *)
(* between two quanta only.  Scheduler Zero alone advances the epoch.      *)
(*                                                                         *)
(* "entries" counts the run-queue entries of each actor.  An actor can     *)
(* have a second one: its wait is cancelled by a message while the sender  *)
(* of that message still puts it into a queue (ActorWake).  Two schedulers *)
(* may then be past the look at its alive flag, and each that finds its    *)
(* fiber finished retires it.  No scheduler retires an actor twice, so a   *)
(* retirement is named by the two.                                         *)
(***************************************************************************)
EXTENDS Integers, Sequences, FiniteSets

CONSTANTS
  Scheds, Zero,   \* scheduler threads, and scheduler 0 among them
  Actors,
  NoActor,        \* NULL
  RetireCap,      \* RETIRE_CAP
  MaxEpoch,       \* bound on the global epoch
  MaxEntries      \* bound: queue entries of one actor

ASSUME ZeroAssumption == Zero \in Scheds
ASSUME RetireCapAssumption == RetireCap \in Nat \ {0, 1}
ASSUME EpochAssumption == MaxEpoch \in Nat \ {0} /\ MaxEntries \in Nat \ {0}
ASSUME NoActorAssumption == NoActor \notin Actors

VARIABLES
  global_epoch,
  epoch, online,   \* g_qsbr.threads[k]
  ring,            \* ring[k]: retired actors with their epochs, oldest first
  entries,         \* entries[a]: entries in the run queues
  dead,            \* actors that are no longer alive
  held,            \* held[k]: the actor scheduler k took from a queue
  pc,
  ge,              \* ge[k]: the epoch k loaded and has not stored yet
  check,           \* check[k]: threads qsbr_safe has still to look at
  freed,           \* freed[k]: entries freed by this call
  old,             \* old[k][a]: schedulers that have held a since before k retired it
  reclaimed        \* reclaimed[k]: the actors whose entries qsbr_safe let k release

vars == <<global_epoch, epoch, online, ring, entries, dead, held, pc, ge, check,
          freed, old, reclaimed>>
locals == <<ge, check, freed>>
queues == <<entries, dead>>

Init ==
  /\ global_epoch = 1
  /\ epoch = [k \in Scheds |-> 0] /\ online = [k \in Scheds |-> FALSE]
  /\ ring = [k \in Scheds |-> <<>>]
  /\ entries = [a \in Actors |-> 1] /\ dead = {}
  /\ held = [k \in Scheds |-> NoActor]
  /\ pc = [k \in Scheds |-> "online_load"]
  /\ ge = [k \in Scheds |-> 0] /\ check = [k \in Scheds |-> {}]
  /\ freed = [k \in Scheds |-> 0]
  /\ old = [k \in Scheds |-> [a \in Actors |-> {}]] /\ reclaimed = [k \in Scheds |-> {}]

Goto(k, l) == pc' = [pc EXCEPT ![k] = l]

-----------------------------------------------------------------------------
(* qsbr_thread_online and qsbr_thread_offline *)

OnlineLoad(k) ==
  /\ pc[k] = "online_load"
  /\ ge' = [ge EXCEPT ![k] = global_epoch]
  /\ Goto(k, "online_epoch")
  /\ UNCHANGED <<global_epoch, epoch, online, ring, queues, held, check, freed, old, reclaimed>>

OnlineEpoch(k) ==
  /\ pc[k] = "online_epoch"
  /\ epoch' = [epoch EXCEPT ![k] = ge[k]]
  /\ Goto(k, "online_flag")
  /\ UNCHANGED <<global_epoch, online, ring, queues, held, locals, old, reclaimed>>

OnlineFlag(k) ==
  /\ pc[k] = "online_flag"
  /\ online' = [online EXCEPT ![k] = TRUE]
  /\ Goto(k, "loop")
  /\ UNCHANGED <<global_epoch, epoch, ring, queues, held, locals, old, reclaimed>>

(* A worker with nothing to run parks; ec_commit_wait returns in online_load. *)
GoOffline(k) ==
  /\ pc[k] = "loop"
  /\ online' = [online EXCEPT ![k] = FALSE]
  /\ Goto(k, "online_load")
  /\ UNCHANGED <<global_epoch, epoch, ring, queues, held, locals, old, reclaimed>>

-----------------------------------------------------------------------------
(* One quantum, as far as it touches the actor's life. *)

(* Taken from runnext, a deque or the global queue. *)
Pick(k, a) ==
  /\ pc[k] = "loop" /\ entries[a] > 0
  /\ entries' = [entries EXCEPT ![a] = @ - 1]
  /\ held' = [held EXCEPT ![k] = a]
  /\ Goto(k, "quantum")
  /\ UNCHANGED <<global_epoch, epoch, online, ring, dead, locals, old, reclaimed>>

(* The quantum ends: the pointer is dropped, the actor perhaps re-enqueued. *)
Dropped(k) == [j \in Scheds |-> [old[j] EXCEPT ![held[k]] = @ \ {k}]]

LetGo(k) ==
  /\ held' = [held EXCEPT ![k] = NoActor]
  /\ old' = Dropped(k)
  /\ Goto(k, "quiet_load")

(* The look at the alive flag, and nothing later, keeps a dead actor from    *)
(* being run.                                                                *)
FoundDead(k) ==
  /\ pc[k] = "quantum" /\ held[k] \in dead
  /\ LetGo(k)
  /\ UNCHANGED <<global_epoch, epoch, online, ring, queues, locals, reclaimed>>

FoundAlive(k) ==
  /\ pc[k] = "quantum" /\ held[k] \notin dead
  /\ Goto(k, "running")
  /\ UNCHANGED <<global_epoch, epoch, online, ring, queues, held, locals, old, reclaimed>>

Blocked(k) ==
  /\ pc[k] = "running"
  /\ LetGo(k)
  /\ UNCHANGED <<global_epoch, epoch, online, ring, queues, locals, reclaimed>>

(* It is enqueued again even if it was killed meanwhile. *)
Preempted(k) ==
  /\ pc[k] = "running" /\ entries[held[k]] < MaxEntries
  /\ entries' = [entries EXCEPT ![held[k]] = @ + 1]
  /\ LetGo(k)
  /\ UNCHANGED <<global_epoch, epoch, online, ring, dead, locals, reclaimed>>

(* A message or a channel wakes the actor; a killed one keeps its wait flag. *)
Woken(a) ==
  /\ entries[a] < MaxEntries
  /\ entries' = [entries EXCEPT ![a] = @ + 1]
  /\ UNCHANGED <<global_epoch, epoch, online, ring, dead, held, pc, locals, old, reclaimed>>

(* actor_exit_signal: marked dead wherever it is, and retired by nobody. *)
Killed(a) ==
  /\ a \notin dead
  /\ dead' = dead \cup {a}
  /\ UNCHANGED <<global_epoch, epoch, online, ring, entries, held, pc, locals, old, reclaimed>>

(* The fiber has finished, here or on another thread.  actor_finish marks    *)
(* the actor dead unless that was done before; it is retired in both cases.  *)
Finished(k) ==
  /\ pc[k] = "running"
  /\ dead' = dead \cup {held[k]}
  /\ Goto(k, "retire")
  /\ UNCHANGED <<global_epoch, epoch, online, ring, entries, held, locals, old, reclaimed>>

(* qsbr_retire: a ring that is now full gives up its oldest entry at once,   *)
(* without a grace period.                                                   *)
Retire(k) ==
  LET a == held[k]
      longer == Append(ring[k], <<a, global_epoch>>)
  IN /\ pc[k] = "retire"
     /\ ring' = [ring EXCEPT ![k] = IF Len(longer) >= RetireCap THEN Tail(longer) ELSE longer]
     /\ old' = [Dropped(k) EXCEPT ![k][a] = {j \in Scheds \ {k} : held[j] = a}]
     /\ held' = [held EXCEPT ![k] = NoActor]
     /\ Goto(k, "quiet_load")
     /\ UNCHANGED <<global_epoch, epoch, online, queues, locals, reclaimed>>

-----------------------------------------------------------------------------
(* qsbr_quiescent, then qsbr_reclaim_amortized *)

QuiescentLoad(k) ==
  /\ pc[k] = "quiet_load"
  /\ ge' = [ge EXCEPT ![k] = global_epoch]
  /\ Goto(k, "quiet_store")
  /\ UNCHANGED <<global_epoch, epoch, online, ring, queues, held, check, freed, old, reclaimed>>

QuiescentStore(k) ==
  /\ pc[k] = "quiet_store"
  /\ epoch' = [epoch EXCEPT ![k] = ge[k]]
  /\ Goto(k, "reclaim")
  /\ UNCHANGED <<global_epoch, online, ring, queues, held, locals, old, reclaimed>>

(* The loop head of qsbr_reclaim_amortized: at most two entries per call.    *)
ReclaimNext(k) ==
  /\ pc[k] = "reclaim"
  /\ IF ring[k] # <<>> /\ freed[k] < 2
     THEN check' = [check EXCEPT ![k] = Scheds] /\ Goto(k, "safe") /\ UNCHANGED freed
     ELSE freed' = [freed EXCEPT ![k] = 0] /\ Goto(k, "advance") /\ UNCHANGED check
  /\ UNCHANGED <<global_epoch, epoch, online, ring, queues, held, ge, old, reclaimed>>

(* Mutant of Passed: a thread that announced the epoch of the retirement    *)
(* itself counts as past it.                                                *)
PassedOffByOne(k, j) == ~online[j] \/ epoch[j] >= ring[k][1][2]

Passed(k, j) == ~online[j] \/ epoch[j] > ring[k][1][2]

(* One iteration of the loop of qsbr_safe. *)
SafeScan(k) ==
  /\ pc[k] = "safe" /\ check[k] # {}
  /\ \E j \in check[k] :
       IF Passed(k, j)
       THEN check' = [check EXCEPT ![k] = @ \ {j}] /\ UNCHANGED <<pc, freed>>
       ELSE /\ check' = [check EXCEPT ![k] = {}] /\ freed' = [freed EXCEPT ![k] = 0]
            /\ Goto(k, "advance")
  /\ UNCHANGED <<global_epoch, epoch, online, ring, queues, held, ge, old, reclaimed>>

(* Every thread has passed: the entry is released. *)
Release(k) ==
  /\ pc[k] = "safe" /\ check[k] = {}
  /\ reclaimed' = [reclaimed EXCEPT ![k] = @ \cup {ring[k][1][1]}]
  /\ ring' = [ring EXCEPT ![k] = Tail(@)]
  /\ freed' = [freed EXCEPT ![k] = @ + 1]
  /\ Goto(k, "reclaim")
  /\ UNCHANGED <<global_epoch, epoch, online, queues, held, ge, check, old>>

(* Scheduler 0, every hundredth iteration. *)
AdvanceEpoch(k) ==
  /\ pc[k] = "advance" /\ k = Zero /\ global_epoch < MaxEpoch
  /\ global_epoch' = global_epoch + 1
  /\ Goto(k, "loop")
  /\ UNCHANGED <<epoch, online, ring, queues, held, locals, old, reclaimed>>

NextIteration(k) ==
  /\ pc[k] = "advance"
  /\ Goto(k, "loop")
  /\ UNCHANGED <<global_epoch, epoch, online, ring, queues, held, locals, old, reclaimed>>

Step(k) ==
  \/ OnlineLoad(k) \/ OnlineEpoch(k) \/ OnlineFlag(k) \/ GoOffline(k)
  \/ (\E a \in Actors : Pick(k, a)) \/ FoundDead(k) \/ FoundAlive(k)
  \/ Blocked(k) \/ Preempted(k)
  \/ Finished(k) \/ Retire(k) \/ QuiescentLoad(k) \/ QuiescentStore(k)
  \/ ReclaimNext(k) \/ SafeScan(k) \/ Release(k) \/ AdvanceEpoch(k) \/ NextIteration(k)

Next == (\E k \in Scheds : Step(k)) \/ (\E a \in Actors : Woken(a) \/ Killed(a))

Spec == Init /\ [][Next]_vars

-----------------------------------------------------------------------------
PC == {"online_load", "online_epoch", "online_flag", "loop", "quantum", "running", "retire",
       "quiet_load", "quiet_store", "reclaim", "safe", "advance"}

(* Every variable keeps its type; a retire ring never holds RETIRE_CAP      *)
(* entries, so that its tail cannot run into its head.                      *)
TypeOK ==
  /\ global_epoch \in 1 .. MaxEpoch
  /\ epoch \in [Scheds -> 0 .. MaxEpoch] /\ online \in [Scheds -> BOOLEAN]
  /\ \A k \in Scheds : ring[k] \in Seq(Actors \X (1 .. MaxEpoch)) /\ Len(ring[k]) < RetireCap
  /\ entries \in [Actors -> 0 .. MaxEntries] /\ dead \subseteq Actors
  /\ held \in [Scheds -> Actors \cup {NoActor}] /\ pc \in [Scheds -> PC]
  /\ ge \in [Scheds -> 0 .. MaxEpoch] /\ check \in [Scheds -> SUBSET Scheds]
  /\ freed \in [Scheds -> 0 .. 2]
  /\ old \in [Scheds -> [Actors -> SUBSET Scheds]] /\ reclaimed \in [Scheds -> SUBSET Actors]

(* The grace period: a scheduler that held the pointer when the actor was   *)
(* retired has dropped it before the entry leaves the retire ring, whatever *)
(* the threads do between the loads of qsbr_safe, and for each retirement   *)
(* of an actor retired twice.  Entries a full ring gives up have none.      *)
GraceHeld == \A k \in Scheds : \A a \in reclaimed[k] : \A j \in old[k][a] : held[j] # a
=============================================================================
