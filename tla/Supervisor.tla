----------------------------- MODULE Supervisor ------------------------------
(***************************************************************************)
(* One supervisor and its children (actor.c, and the supervisor primitives *)
(* of primitives.c, static and dynamic).  A child's death is               *)
(* handled by the thread on which it happens: actor_notify_exit looks its  *)
(* supervisor up and supervisor_handle_exit applies the strategy.  Nothing *)
(* locks the supervisor's arrays meanwhile.                                *)
(*                                                                         *)
(* child_ids and child_restart are kept as the two C arrays they are: the  *)
(* operations move their elements separately.  Indices start at 1.  Links  *)
(* and monitors are the subject of ExitSignals.                            *)
(***************************************************************************)
EXTENDS Integers, Sequences, FiniteSets, SequencesExt

CONSTANTS
  Threads,
  Kinds,          \* the kinds of supervisor to consider
  InitChildren,   \* number of child specs given to prim_sup_start (a dynamic one has none)
  MaxActors,      \* MAX_ACTORS
  MaxSupChildren, \* MAX_SUP_CHILDREN
  SupMaxRestarts, \* SUP_MAX_RESTARTS
  MaxCalls        \* bound: primitives that change the child table

VARIABLES
  child_ids,      \* the ids of the current children, in order
  child_restart,  \* the restart-type array, MAX_SUP_CHILDREN long
  restart_count,
  created,        \* actors created so far; the next one gets the next id
  alive,          \* ids of the living actors
  g_alive,        \* g_alive_actors
  removed,        \* living children killed by a primitive that removes them
  errors,         \* actors that died of an error
  asked,          \* asked[a]: the restart type a, or the child it replaces, was started with
  mixed,          \* whether a static primitive was used on the table
  pc,             \* where each thread is in actor_notify_exit
  dead, index,    \* the child whose exit a thread handles, the loop variable
  calls,
  kind            \* the strategy, or "dynamic": made by prim_dynsup_start

vars == <<child_ids, child_restart, restart_count, created, alive, g_alive, removed,
          errors, asked, mixed, pc, dead, index, calls, kind>>
table == <<child_ids, child_restart>>
actors == <<created, alive, g_alive, errors>>
history == <<removed, asked, mixed>>

Ids == 1 .. MaxActors
RestartTypes == {"permanent", "transient", "temporary"}

(* prim_sup_start, or prim_dynsup_start for an empty dynamic supervisor. *)
Init ==
  /\ kind \in Kinds
  /\ created = IF kind = "dynamic" THEN 0 ELSE InitChildren
  /\ child_ids = [i \in 1 .. created |-> i]
  /\ child_restart = [i \in 1 .. MaxSupChildren |-> "permanent"]
  /\ restart_count = 0
  /\ alive = 1 .. created /\ g_alive = created
  /\ removed = {} /\ errors = {} /\ asked = [a \in Ids |-> "permanent"]
  /\ mixed = "no"
  /\ pc = [t \in Threads |-> "idle"] /\ dead = [t \in Threads |-> 0]
  /\ index = [t \in Threads |-> 0] /\ calls = 0

(* A dynamic supervisor is one-for-one with restart types of its own. *)
Dynamic == kind = "dynamic"
Strategy == IF Dynamic THEN "one_for_one" ELSE kind

Goto(t, l) == pc' = [pc EXCEPT ![t] = l]
Children == Range(child_ids)
IndexOf(a) == IF a \in Children THEN SelectInSeq(child_ids, LAMBDA x : x = a) ELSE 0
HandlerDone(t) == /\ Goto(t, "idle")
                  /\ dead' = [dead EXCEPT ![t] = 0] /\ index' = [index EXCEPT ![t] = 0]

(* supervisor_spawn_child at index i with the table as in ids: nothing      *)
(* happens when the actor table is full.                                    *)
Spawn(ids, i) ==
  IF created < MaxActors
  THEN /\ created' = created + 1
       /\ alive' = alive \cup {created + 1}
       /\ g_alive' = g_alive + 1
       /\ child_ids' = [ids EXCEPT ![i] = created + 1]
  ELSE /\ child_ids' = ids
       /\ UNCHANGED <<created, alive, g_alive>>

(* dynsup_remove_child_at: all arrays are shifted. *)
ShiftBoth(i) ==
  /\ child_ids' = RemoveAt(child_ids, i)
  /\ child_restart' = [j \in DOMAIN child_restart |->
       IF i <= j /\ j < Len(child_ids) THEN child_restart[j + 1] ELSE child_restart[j]]

-----------------------------------------------------------------------------
(* A child ends *)

(* actor_finish or an exit signal: the actor dies under its lock. *)
ChildDies(t, a, how) ==
  /\ pc[t] = "idle" /\ a \in alive
  /\ alive' = alive \ {a} /\ g_alive' = g_alive - 1
  /\ errors' = IF how = "error" THEN errors \cup {a} ELSE errors
  /\ dead' = [dead EXCEPT ![t] = a]
  /\ Goto(t, IF how = "error" THEN "handle" ELSE "normal")
  /\ UNCHANGED <<table, restart_count, created, history, index, calls>>

(* A normal exit removes a transient or temporary child of a dynamic        *)
(* supervisor and changes nothing else.                                     *)
NormalExit(t) ==
  LET i == IndexOf(dead[t]) IN
  /\ pc[t] = "normal"
  /\ IF Dynamic /\ i > 0 /\ child_restart[i] # "permanent"
     THEN ShiftBoth(i) ELSE UNCHANGED table
  /\ HandlerDone(t)
  /\ UNCHANGED <<restart_count, actors, history, calls>>

(* supervisor_handle_exit returns early: not a child (any more), or the     *)
(* restart budget is spent.                                                 *)
HandleNothing(t) ==
  /\ pc[t] = "handle"
  /\ IndexOf(dead[t]) = 0 \/ restart_count >= SupMaxRestarts
  /\ HandlerDone(t)
  /\ UNCHANGED <<table, restart_count, actors, history, calls>>

HandleTemporary(t) ==
  LET i == IndexOf(dead[t]) IN
  /\ pc[t] = "handle" /\ i > 0 /\ restart_count < SupMaxRestarts
  /\ Dynamic /\ child_restart[i] = "temporary"
  /\ ShiftBoth(i)
  /\ HandlerDone(t)
  /\ UNCHANGED <<restart_count, actors, history, calls>>

(* Mutant of HandleRestart: rest-for-one starts killing at the first child. *)
HandleRestartFromFirst(t) ==
  LET i == IndexOf(dead[t]) IN
  /\ pc[t] = "handle" /\ i > 0 /\ restart_count < SupMaxRestarts
  /\ ~(Dynamic /\ child_restart[i] = "temporary")
  /\ restart_count' = restart_count + 1
  /\ dead' = [dead EXCEPT ![t] = i]
  /\ Goto(t, "kill") /\ index' = [index EXCEPT ![t] = 1]
  /\ UNCHANGED <<table, actors, history, calls>>

(* The strategy decides where the two loops start: killing siblings from    *)
(* the first or from the one after the dead child, or not at all.           *)
HandleRestart(t) ==
  LET i == IndexOf(dead[t]) IN
  /\ pc[t] = "handle" /\ i > 0 /\ restart_count < SupMaxRestarts
  /\ ~(Dynamic /\ child_restart[i] = "temporary")
  /\ restart_count' = restart_count + 1
  /\ dead' = [dead EXCEPT ![t] = i]
  /\ CASE Strategy = "one_for_one" -> Goto(t, "respawn_one") /\ UNCHANGED index
       [] Strategy = "one_for_all" -> Goto(t, "kill") /\ index' = [index EXCEPT ![t] = 1]
       [] OTHER -> Goto(t, "kill") /\ index' = [index EXCEPT ![t] = i + 1]
  /\ UNCHANGED <<table, actors, history, calls>>

(* Mutant of KillSibling: the loop ends one child early. *)
KillSiblingNotLast(t) ==
  LET i == index[t]
      victim == child_ids[i]
      hit == i # dead[t] /\ victim \in alive /\ i < Len(child_ids)
  IN /\ pc[t] = "kill" /\ i <= Len(child_ids)
     /\ alive' = IF hit THEN alive \ {victim} ELSE alive
     /\ g_alive' = IF hit THEN g_alive - 1 ELSE g_alive
     /\ index' = [index EXCEPT ![t] = i + 1]
     /\ UNCHANGED <<table, restart_count, created, errors, history, pc, dead, calls>>

(* Mutant of KillSibling: the counter goes down for a dead sibling too. *)
KillSiblingCountsDead(t) ==
  LET i == index[t] IN
  /\ pc[t] = "kill" /\ i <= Len(child_ids)
  /\ alive' = IF i # dead[t] THEN alive \ {child_ids[i]} ELSE alive
  /\ g_alive' = IF i # dead[t] THEN g_alive - 1 ELSE g_alive
  /\ index' = [index EXCEPT ![t] = i + 1]
  /\ UNCHANGED <<table, restart_count, created, errors, history, pc, dead, calls>>

(* One iteration of a kill loop, under the sibling's lock.  Its exit is     *)
(* normal (:shutdown), so the nested actor_notify_exit restarts nothing.    *)
KillSibling(t) ==
  LET i == index[t]
      victim == child_ids[i]
      hit == i # dead[t] /\ victim \in alive
  IN /\ pc[t] = "kill" /\ i <= Len(child_ids)
     /\ alive' = IF hit THEN alive \ {victim} ELSE alive
     /\ g_alive' = IF hit THEN g_alive - 1 ELSE g_alive
     /\ index' = [index EXCEPT ![t] = i + 1]
     /\ UNCHANGED <<table, restart_count, created, errors, history, pc, dead, calls>>

(* Mutant of KillsDone: only the siblings are restarted. *)
KillsDoneAfterDead(t) ==
  /\ pc[t] = "kill" /\ index[t] > Len(child_ids)
  /\ index' = [index EXCEPT ![t] = IF Strategy = "one_for_all" THEN 1 ELSE dead[t] + 1]
  /\ Goto(t, "respawn")
  /\ UNCHANGED <<table, restart_count, actors, history, dead, calls>>

KillsDone(t) ==
  /\ pc[t] = "kill" /\ index[t] > Len(child_ids)
  /\ index' = [index EXCEPT ![t] = IF Strategy = "one_for_all" THEN 1 ELSE dead[t]]
  /\ Goto(t, "respawn")
  /\ UNCHANGED <<table, restart_count, actors, history, dead, calls>>

Respawn(t) ==
  /\ pc[t] = "respawn" /\ index[t] <= Len(child_ids)
  /\ Spawn(child_ids, index[t])
  /\ index' = [index EXCEPT ![t] = @ + 1]
  /\ UNCHANGED <<child_restart, restart_count, errors, history, pc, dead, calls>>

RespawnsDone(t) ==
  /\ pc[t] = "respawn" /\ index[t] > Len(child_ids)
  /\ HandlerDone(t)
  /\ UNCHANGED <<table, restart_count, actors, history, calls>>

(* The bounds test of supervisor_spawn_child guards a table that shrank.    *)
RespawnOne(t) ==
  /\ pc[t] = "respawn_one"
  /\ IF dead[t] <= Len(child_ids)
     THEN /\ Spawn(child_ids, dead[t])
          /\ asked' = IF created < MaxActors
                      THEN [asked EXCEPT ![created + 1] = asked[child_ids[dead[t]]]] ELSE asked
     ELSE UNCHANGED <<child_ids, created, alive, g_alive, asked>>
  /\ HandlerDone(t)
  /\ UNCHANGED <<child_restart, restart_count, errors, removed, mixed, calls>>

-----------------------------------------------------------------------------
(* Primitives that change the child table, called from a program that runs  *)
(* on thread t.                                                             *)

Call(t) == pc[t] = "idle" /\ calls < MaxCalls /\ calls' = calls + 1

(* prim_sup_add_child: the restart type of the slot is not written.         *)
SupAddChild(t) ==
  /\ Call(t) /\ Len(child_ids) < MaxSupChildren /\ created < MaxActors
  /\ Spawn(Append(child_ids, 0), Len(child_ids) + 1)
  /\ mixed' = "yes"
  /\ UNCHANGED <<child_restart, restart_count, errors, removed, asked, pc, dead, index>>

DynsupStartChild(t, type) ==
  /\ Dynamic /\ Call(t) /\ Len(child_ids) < MaxSupChildren /\ created < MaxActors
  /\ Spawn(Append(child_ids, 0), Len(child_ids) + 1)
  /\ child_restart' = [child_restart EXCEPT ![Len(child_ids) + 1] = type]
  /\ asked' = [asked EXCEPT ![created + 1] = type]
  /\ UNCHANGED <<restart_count, errors, removed, mixed, pc, dead, index>>

(* The child is killed by clearing its flag: no lock, no count, no          *)
(* notification.                                                            *)
KillQuietly(a) ==
  /\ alive' = alive \ {a}
  /\ removed' = removed \cup ({a} \cap alive)
  /\ UNCHANGED <<created, g_alive, errors>>

(* prim_sup_remove_child: child_restart is not shifted. *)
SupRemoveChild(t, i) ==
  /\ Call(t) /\ i \in DOMAIN child_ids
  /\ KillQuietly(child_ids[i])
  /\ child_ids' = RemoveAt(child_ids, i)
  /\ mixed' = "yes"
  /\ UNCHANGED <<child_restart, restart_count, asked, pc, dead, index>>

DynsupTerminateChild(t, i) ==
  /\ Dynamic /\ Call(t) /\ i \in DOMAIN child_ids
  /\ KillQuietly(child_ids[i])
  /\ ShiftBoth(i)
  /\ UNCHANGED <<restart_count, asked, mixed, pc, dead, index>>

ExitStep(t) ==
  \/ \E a \in Ids, how \in {"error", "normal"} : ChildDies(t, a, how)
  \/ NormalExit(t) \/ HandleNothing(t) \/ HandleTemporary(t) \/ HandleRestart(t)
  \/ KillSibling(t) \/ KillsDone(t) \/ Respawn(t) \/ RespawnsDone(t) \/ RespawnOne(t)
TableStep(t) ==
  \/ SupAddChild(t)
  \/ \E type \in RestartTypes : DynsupStartChild(t, type)
  \/ \E i \in 1 .. MaxSupChildren : SupRemoveChild(t, i) \/ DynsupTerminateChild(t, i)

Next == (\E t \in Threads : ExitStep(t) \/ TableStep(t)) /\ UNCHANGED kind

Spec == Init /\ [][Next]_vars

-----------------------------------------------------------------------------
PC == {"idle", "normal", "handle", "kill", "respawn", "respawn_one"}

(* Every variable keeps its type. *)
TypeOK ==
  /\ child_ids \in Seq(Ids) /\ Len(child_ids) <= MaxSupChildren
  /\ child_restart \in [1 .. MaxSupChildren -> RestartTypes]
  /\ restart_count \in Nat /\ created \in 0 .. MaxActors
  /\ alive \subseteq 1 .. created /\ g_alive \in Int
  /\ removed \subseteq Ids /\ errors \subseteq Ids /\ asked \in [Ids -> RestartTypes]
  /\ mixed \in {"no", "yes"}
  /\ pc \in [Threads -> PC] /\ dead \in [Threads -> 0 .. MaxActors]
  /\ index \in [Threads -> 0 .. MaxSupChildren + 1] /\ calls \in 0 .. MaxCalls
  /\ kind \in Kinds

Quiet == \A t \in Threads : pc[t] = "idle"

(* No living actor that a supervisor started is missing from its table: a   *)
(* restart never forgets a child it did not kill.  (SPEC.md, line 726:      *)
(* "kill all siblings then restart all".)                                   *)
NoOrphans == Quiet => alive \subseteq Children

(* Once an exit is handled, a child that died of an error has been          *)
(* replaced, unless the restart budget is spent or the actor table is full. *)
FailedAreReplaced ==
  Quiet => \/ restart_count >= SupMaxRestarts \/ created = MaxActors
           \/ Children \cap errors = {}

(* Handling an exit moves only the children the strategy names: for         *)
(* rest-for-one those before the dead child keep their place and stay       *)
(* alive, for one-for-one all others do.                                    *)
SiblingsSpared ==
  [][\A t \in Threads : pc[t] \in {"kill", "respawn", "respawn_one"} =>
       \A i \in DOMAIN child_ids :
         \/ Strategy = "one_for_all" \/ i = dead[t]
         \/ Strategy = "rest_for_one" /\ i > dead[t]
         \/ child_ids'[i] = child_ids[i] /\ (child_ids[i] \in alive => child_ids[i] \in alive')
    ]_<<child_ids, alive>>

(* However exits, restarts and table edits follow each other, the counter   *)
(* that decides when sched_run_all may stop is the number of living actors  *)
(* plus the children that were removed while alive, whose deaths nobody     *)
(* counts ("every kill path", says actor.c, lines 338-339).                 *)
CountDriftExplained == g_alive = Cardinality(alive) + Cardinality(removed)

(* A child of a dynamic supervisor keeps the restart type it was started    *)
(* with (SPEC.md, line 737) while the arrays shift and children are         *)
(* replaced, as long as no primitive for static supervisors, which moves    *)
(* child_ids alone, is used on it.                                          *)
RestartTypeKept ==
  mixed = "no" /\ Quiet => \A i \in DOMAIN child_ids :
    child_restart[i] = asked[child_ids[i]]
=============================================================================
