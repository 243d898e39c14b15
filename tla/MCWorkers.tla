------------------------------ MODULE MCWorkers ------------------------------
(* The scheduler threads.  A behaviour is one of QSBR (how finished actors   *)
(* are freed), of ActorWake (one quantum after the other of an actor that    *)
(* waits for messages), of BWoSDeque (the deque of one scheduler and its     *)
(* thieves), of Dispatch (the run queues and loops around it), of CellRefs   *)
(* (a cell that several of them refer to) or of LinearCells (a cell that     *)
(* holds a sequence), chosen by part; the variables of the others keep their *)
(* first values.  The schedulers and the senders of ActorWake are            *)
(* interchangeable.                                                          *)
EXTENDS QSBR, TLC

CONSTANTS
  Parts,         \* the parts a behaviour is chosen from
  WakeScheds, Senders, MailboxCap, Primitives, StoreModels, MaxSends, MaxYields,
  Thieves, NE, B, MaxPush,
  Workers, RunActors, HomeOf, TimerTargets, MaxMessages, MaxPreempts, MaxRuns, Nil,
  RefThreads, RefOwner, CountMod, MaxRefs, MaxRefOps,
  CellItems, NoItem, DequeMinCap, IndexMod, InlineCap, HeapCap, BufferMinCap, MaxLen

ASSUME WakeAssumption ==
  /\ IsFiniteSet(WakeScheds) /\ MailboxCap \in Nat /\ MaxSends \in Nat /\ MaxYields \in Nat
  /\ Primitives \subseteq {"receive", "call"} /\ StoreModels \subseteq {"ordered", "buffered"}
ASSUME LoopAssumption ==
  /\ HomeOf \in [RunActors -> {0} \cup Workers] /\ TimerTargets \subseteq RunActors
  /\ Nil \notin RunActors

VARIABLES
  part,
  fstate, reason, wait_flag, mailbox, queued, fpc, buffer, npc, sends, yields, handed, doubled,
  started, stores, primitive,
  head, tail, steal_tail, steal_head, slots, owner_block, thief_block, overflow,
  opc, oval, tpc, loc, pushed, taken, fell, early, overlap,
  obj, spec

W == INSTANCE ActorWake WITH Scheds <- WakeScheds, pc <- fpc
D == INSTANCE BWoSDeque WITH entries <- slots
Q == INSTANCE Dispatch
C == INSTANCE CellRefs
L == INSTANCE LinearCells

ASSUME DequeAssumption == D!DequeConstants
ASSUME CellAssumption == C!CellConstants
ASSUME LinearAssumption == L!LinearConstants

dequevars == <<head, tail, steal_tail, steal_head, slots, owner_block, thief_block, overflow,
               opc, oval, tpc, loc, pushed, taken, fell, early, overlap>>
loopvars == <<obj, spec>>
wakevars == <<fstate, reason, wait_flag, mailbox, queued, fpc, buffer, npc, sends, yields, handed,
              doubled, started, stores, primitive>>

WorkersInit ==
  /\ part \in Parts
  /\ Init /\ D!Init /\ W!Init
  /\ part # "wake" => /\ started = WakeScheds /\ stores = CHOOSE s \in StoreModels : TRUE
                      /\ primitive = CHOOSE p \in Primitives : TRUE
  /\ \/ part = "dispatch" /\ Q!Init
     \/ part = "refs" /\ C!Init
     \/ part = "linear" /\ L!Init
     \/ part \notin {"dispatch", "refs", "linear"} /\ obj = << >> /\ spec = << >>

WorkersNext ==
  /\ UNCHANGED part
  /\ \/ part = "qsbr" /\ Next /\ UNCHANGED <<wakevars, dequevars, loopvars>>
     \/ part = "wake" /\ W!Next /\ UNCHANGED <<vars, dequevars, loopvars>>
     \/ part = "deque" /\ D!Next /\ UNCHANGED <<vars, wakevars, loopvars>>
     \/ part = "dispatch" /\ Q!Next /\ UNCHANGED <<vars, wakevars, dequevars>>
     \/ part = "refs" /\ C!Next /\ UNCHANGED <<vars, wakevars, dequevars>>
     \/ part = "linear" /\ L!Next /\ UNCHANGED <<vars, wakevars, dequevars>>

WorkersSpec == WorkersInit /\ [][WorkersNext]_<<part, vars, wakevars, dequevars, loopvars>>

MCHomeOf == [a \in RunActors |-> IF a = "b" THEN 1 ELSE 0]

Symmetry == Permutations(WakeScheds) \cup Permutations(Senders)

-----------------------------------------------------------------------------

(* The re-check of prim_receive closes the gap between the look at the      *)
(* mailbox and the flag; see ActorWake for when.                            *)
TwoPhaseWaitSound == part = "wake" => W!TwoPhaseWaitSound

(* A single scheduler resumes an actor only with a message at hand.         *)
ResumedWithMessage == part = "wake" => W!ResumedWithMessage

(* An actor has one entry, scheduler, sender on its way to a queue or raised *)
(* flag, and no two schedulers run it at once, apart from the two ways to    *)
(* a second entry that ActorWake names.                                      *)
OneHolder == part = "wake" => W!TypeOK /\ W!OneHolder

(* No actor is taken from a deque twice, whatever the order of              *)
(* reservations, take-overs and grants of a block, as long as no thief      *)
(* steals from the owner's own block and the owner resets no block while a  *)
(* thief reads it (see BWoSDeque).                                          *)
TakenOnce == D!TakenOnce

(* Between two calls every pushed actor was taken or can still be found; no *)
(* index of a deque or retire ring leaves its array.                        *)
NothingLost == TypeOK /\ D!TypeOK /\ D!NothingLost

(* While a run lasts, an actor that could go on is in exactly one place: in *)
(* one queue, in the hands of one thread or of a sender that wakes it.  Not *)
(* found are those scheduler 0 dropped after its last look before parking   *)
(* (scheduler.c, line 1309) and blocked ones whose last entry was dropped   *)
(* (line 1148); in two places may be those the start of the run queued with *)
(* their flag up, those that received a message in prim_receive's re-check  *)
(* after its sender took the flag down, and those put back by a thread that *)
(* came from a fiber another one runs by now.                               *)
OnePlaceEach == part = "dispatch" => Q!DispatchSound

(* A cell's children are dropped and its memory is freed once and only when *)
(* nobody holds it, apart from four named ways of letting biased and shared *)
(* counts disagree: the owner's reference released elsewhere, the last      *)
(* shared one released while the owner merges, a merged cell retained by    *)
(* its old owner, and a weak reference followed or released during the last *)
(* release.                                                                 *)
RefsSound == part = "refs" => C!RefsSound

(* The deque's ring buffer lists what was pushed and not popped, over growth *)
(* with a wrapped content and the wrap-around of its 32-bit indices, and     *)
(* keeps no reference outside of it; a vector keeps its elements over the    *)
(* change from the inline slots to the heap, and vector-map sees the vector  *)
(* it was called with unless its own callback made a full vector move; a     *)
(* buffer's round trip through a string is the identity exactly when no byte *)
(* is zero.                                                                  *)
LinearAgrees == part = "linear" => L!DequeAgrees /\ L!VectorAgrees /\ L!BufferAgrees

(* Scheduler 0 ends a run only when no actor is in flight or queued.        *)
EndsWhenIdle == part = "dispatch" => Q!EndsWhenIdle
=============================================================================
