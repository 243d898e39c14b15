------------------------------- MODULE CellRefs -------------------------------
(* The reference counts of one cell: a biased count its owner changes with    *)
(* plain instructions, a shared count (with a flag in its top bit) every      *)
(* other thread changes atomically, and a count of weak references.  A        *)
(* reference is counted where it was retained; it may be handed to another    *)
(* thread, as a message is.                                                  *)
EXTENDS Integers, FiniteSets

CONSTANTS
  RefThreads, RefOwner,     \* the owner's tls_scheduler_id
  CountMod,                 \* the shared count is taken modulo this (2^31)
  MaxRefs,                  \* references at a time
  MaxRefOps,                \* retains, hand-overs and weak operations
  Nil

\* No count reaches half of its range; the code never checks that.
CellConstants ==
  /\ IsFiniteSet(RefThreads) /\ RefOwner \in RefThreads /\ Nil \notin RefThreads
  /\ MaxRefs \in Nat /\ MaxRefOps \in Nat /\ CountMod \in Nat /\ 2 * MaxRefOps + 2 < CountMod

VARIABLES obj, spec

\* Where a reference was counted; a moved one belongs to an ended actor's result
\* and is released by cell_release_shared only.
Domains == {"biased", "shared", "moved"}

(* at: where a thread is in a release; refs: the references a thread has, by  *)
(* the count they are in.  spec notes the ways in which the counts fail.     *)
Init ==
  /\ obj = [biased |-> 1, owner |-> RefOwner, shared |-> 0, merged |-> FALSE,
            weak |-> 0, frees |-> 0, dropped |-> FALSE,
            refs |-> [t \in RefThreads |-> [d \in Domains |-> IF t = RefOwner /\ d = "biased" THEN 1 ELSE 0]],
            at |-> [t \in RefThreads |-> "idle"], ops |-> 0]
  /\ spec = [left |-> FALSE, taken |-> FALSE, failed |-> FALSE, reowned |-> FALSE, raced |-> FALSE, revived |-> FALSE, weak_raced |-> FALSE]

\* The references counted in one of these ways, numbered for each thread.
References(in) ==
  {r \in RefThreads \X in \X (1 .. MaxRefOps + 1) : r[3] <= obj.refs[r[1]][r[2]]}
AllHeld == Cardinality(References(Domains))
Holds(t) == \E d \in Domains : obj.refs[t][d] > 0
Idle(t) == obj.at[t] = "idle"
Budget == obj.ops < MaxRefOps
Goto(o, t, l) == [o EXCEPT !.at[t] = l]

\* The owner merges and disowns in one go as far as others can tell: the flag
\* is added to whatever count is there.
Merge(o) == [o EXCEPT !.merged = TRUE]

\* The count and the flag are one word: an increment carries into the flag, a
\* decrement borrows from it.
Increment(o) == IF o.shared < CountMod - 1 THEN [o EXCEPT !.shared = @ + 1]
                ELSE [o EXCEPT !.shared = 0, !.merged = ~@]
Decrement(o) == IF o.shared > 0 THEN [o EXCEPT !.shared = @ - 1]
                ELSE [o EXCEPT !.shared = CountMod - 1, !.merged = ~@]

-----------------------------------------------------------------------------
(* Retaining. *)

cell_retain_slow(o, t, d) == [Increment(o) EXCEPT !.refs[t][d] = @ + 1]

Retained(o, t) ==
  IF o.owner = t THEN [o EXCEPT !.biased = @ + 1, !.refs[t]["biased"] = @ + 1] ELSE cell_retain_slow(o, t, "shared")

cell_retain(t) ==
  /\ Idle(t) /\ Budget
  /\ Holds(t)
  /\ AllHeld < MaxRefs
  /\ obj' = [Retained(obj, t) EXCEPT !.ops = @ + 1]
  /\ spec' = IF obj.owner = t /\ obj.merged THEN [spec EXCEPT !.reowned = TRUE] ELSE spec

\* A reference in a message: the sender's retain and the receiver's release are
\* its two ends.
HandOver(t, u, d) ==
  /\ Idle(t) /\ Budget
  /\ t # u
  /\ obj.refs[t][d] > 0
  /\ obj' = [obj EXCEPT !.refs[t][d] = @ - 1, !.refs[u][d] = @ + 1, !.ops = @ + 1]
  /\ spec' = [spec EXCEPT !.taken = @ \/ (u = obj.owner /\ d = "shared")]

\* The owner moves one reference to the shared count, and with its last one
\* disowns the cell.  On another thread the count grows by one, although the
\* reference was counted there before.
cell_transfer_to_shared(t) ==
  LET moved(d) == [cell_retain_slow(obj, t, "moved") EXCEPT !.refs[t][d] = @ - 1, !.ops = @ + 1]
      owned == [moved("biased") EXCEPT !.biased = @ - 1]
  IN  /\ Idle(t) /\ Budget
      /\ \/ /\ obj.owner = t
            /\ obj.refs[t]["biased"] > 0 /\ obj.biased > 0
            /\ obj' = IF owned.biased = 0 THEN Merge([owned EXCEPT !.owner = Nil]) ELSE owned
            /\ UNCHANGED spec
         \/ /\ obj.owner # t
            /\ obj.refs[t]["shared"] > 0
            /\ obj' = moved("shared")
            /\ spec' = [spec EXCEPT !.left = TRUE]

-----------------------------------------------------------------------------
(* Releasing. *)

\* The release of thread t of a reference counted in d, by the thread's path.
Dropping(t, d) == [obj EXCEPT !.refs[t][d] = @ - 1]

\* The flag is not asked for.
cell_release_slow_unmerged(o, t) ==
  IF o.shared = 1 THEN Goto(Decrement(o), t, "free") ELSE Decrement(o)

\* A shared release frees when it takes the last count of a merged cell.
cell_release_slow(o, t) ==
  IF o.merged /\ o.shared = 1 THEN Goto(Decrement(o), t, "free") ELSE Decrement(o)

\* The owner's path: an assertion demands a count above zero.
cell_release_owner(t, d) ==
  /\ Idle(t)
  /\ obj.owner = t
  /\ obj.refs[t][d] > 0
  /\ IF obj.biased = 0 THEN obj' = Goto(obj, t, "failed") /\ spec' = [spec EXCEPT !.failed = TRUE]
     ELSE /\ obj' = LET o == [Dropping(t, d) EXCEPT !.biased = @ - 1]
                    IN  IF o.biased = 0 THEN Goto(o, t, "zero") ELSE o
          /\ UNCHANGED spec

\* It loads the shared count ...
LoadShared(t) ==
  /\ obj.at[t] = "zero"
  /\ obj' = Goto(obj, t, IF obj.shared = 0 THEN "free" ELSE "merge")
  /\ UNCHANGED spec

\* ... and if there are others leaves the rest to the last of them, also when
\* that one has gone meanwhile.
SetMerged(t) ==
  /\ obj.at[t] = "merge"
  /\ obj' = Goto(Merge(obj), t, "idle")
  /\ spec' = [spec EXCEPT !.raced = @ \/ obj.shared = 0]

cell_release_other(t, d) ==
  /\ Idle(t)
  /\ obj.owner # t
  /\ obj.refs[t][d] > 0
  /\ obj' = cell_release_slow(Dropping(t, d), t)
  /\ spec' = [spec EXCEPT !.left = @ \/ d = "biased"]

\* cell_release_shared: a transferred reference, on whatever thread.
cell_release_shared(t) ==
  /\ Idle(t)
  /\ obj.refs[t]["moved"] > 0
  /\ obj' = cell_release_slow(Dropping(t, "moved"), t)
  /\ UNCHANGED spec

\* do_free: the weak count is read, the children are released, and without weak
\* references the memory is freed.
DoFree(t) ==
  /\ obj.at[t] = "free"
  /\ obj' = [Goto(obj, t, "idle") EXCEPT !.dropped = TRUE, !.frees = IF obj.weak = 0 THEN @ + 1 ELSE @]
  /\ UNCHANGED spec

-----------------------------------------------------------------------------
(* Weak references. *)

cell_weak_ref(t) ==
  /\ Idle(t) /\ Budget
  /\ Holds(t)
  /\ obj.weak < 2
  /\ obj' = [obj EXCEPT !.weak = @ + 1, !.ops = @ + 1]
  /\ UNCHANGED spec

\* The last weak reference frees a cell whose counts are zero; a release that
\* is about to do it as well is not seen.
cell_weak_release ==
  LET zero == obj.biased = 0 /\ obj.shared = 0
  IN  /\ obj.weak > 0
      /\ obj' = [obj EXCEPT !.weak = @ - 1, !.frees = IF obj.weak = 1 /\ zero THEN @ + 1 ELSE @]
      /\ spec' = [spec EXCEPT !.weak_raced = @ \/ (obj.weak = 1 /\ zero /\ ~obj.dropped)]

\* prim_weak_deref looks at the counts and then retains.
prim_weak_deref(t) ==
  /\ Idle(t) /\ Budget
  /\ obj.weak > 0
  /\ obj.biased > 0 \/ obj.shared > 0
  /\ obj' = [Goto(obj, t, "alive") EXCEPT !.ops = @ + 1]
  /\ UNCHANGED spec

RetainAlive(t) ==
  /\ obj.at[t] = "alive"
  /\ obj' = Goto(Retained(obj, t), t, "idle")
  /\ spec' = [spec EXCEPT !.revived = @ \/ (obj.biased = 0 /\ obj.shared = 0) \/ obj.dropped,
                          !.reowned = @ \/ (obj.owner = t /\ obj.merged)]

Next ==
  \/ cell_weak_release
  \/ \E t \in RefThreads :
       \/ cell_retain(t) \/ cell_transfer_to_shared(t) \/ cell_release_shared(t)
       \/ LoadShared(t) \/ SetMerged(t) \/ DoFree(t) \/ cell_weak_ref(t) \/ prim_weak_deref(t) \/ RetainAlive(t)
       \/ \E d \in {"biased", "shared"} : cell_release_owner(t, d) \/ cell_release_other(t, d)
       \/ \E d \in Domains, u \in RefThreads : HandOver(t, u, d)

-----------------------------------------------------------------------------

(* The cell's children are dropped only when no reference is left, unless the *)
(* owner retained a cell it had merged before, or a weak reference was        *)
(* followed while the last reference went.  They are dropped in the end,      *)
(* unless the owner's reference was released elsewhere (the biased count      *)
(* stays up), the last shared one went between the owner's load and its flag, *)
(* or one of the above.  The memory is freed once and after that, unless the  *)
(* last weak reference went at the same moment.  The owner's assertion fails  *)
(* only for references that others had counted.                              *)
Quiet == \A t \in RefThreads : Idle(t)

RefsSound ==
  /\ spec.failed => spec.taken
  /\ obj.dropped => AllHeld = 0 \/ spec.reowned \/ spec.revived
  /\ Quiet /\ AllHeld = 0 => obj.dropped \/ spec.left \/ spec.raced \/ spec.reowned \/ spec.revived
  /\ obj.frees > 0 => obj.dropped \/ spec.weak_raced
  /\ obj.frees <= 1 \/ spec.reowned \/ spec.revived \/ spec.weak_raced
  /\ obj.dropped /\ Quiet /\ obj.weak = 0 => obj.frees > 0 \/ spec.reowned \/ spec.revived
=============================================================================
