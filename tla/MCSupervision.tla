---------------------------- MODULE MCSupervision ----------------------------
(* Deaths and what follows them: a behaviour is one of ExitSignals (links,   *)
(* monitors and exit signals on several threads), of Supervisor (a supervisor *)
(* and its children) or of TaskAwait (a task and those that await its end),  *)
(* chosen by part; the variables of the others keep their first values.  Actors are interchangeable, and so are threads. *)
EXTENDS ExitSignals, TLC

CONSTANTS SupThreads, Kinds, InitChildren, MaxActors, MaxSupChildren, SupMaxRestarts, MaxSupCalls,
  Awaiters, AwaitModes, MaxMail, Nil

(* prim_sup_start starts as many of the specifications as the arrays hold.  *)
ASSUME SupervisorAssumption ==
  /\ MaxSupChildren \in Nat /\ MaxActors \in Nat /\ SupMaxRestarts \in Nat /\ MaxSupCalls \in Nat
  /\ InitChildren \in Nat /\ InitChildren <= MaxSupChildren /\ InitChildren <= MaxActors
  /\ Kinds \subseteq {"one_for_one", "one_for_all", "rest_for_one", "dynamic"}
ASSUME AwaitAssumption == AwaitModes \subseteq {"poll", "threads"} /\ Nil \notin {"result", "reason"}

VARIABLES
  part,
  child_ids, child_restart, restart_count, created, sup_alive, sup_g_alive, removed,
  errors, asked, mixed, pc, dead, index, sup_calls, kind,
  obj, spec

S == INSTANCE Supervisor WITH Threads <- SupThreads, MaxCalls <- MaxSupCalls,
       alive <- sup_alive, g_alive <- sup_g_alive, calls <- sup_calls
A == INSTANCE TaskAwait

supvars == <<child_ids, child_restart, restart_count, created, sup_alive, sup_g_alive, removed,
             errors, asked, mixed, pc, dead, index, sup_calls, kind>>

awaitvars == <<obj, spec>>

DeathInit ==
  /\ Init /\ S!Init
  /\ part \in {"exit", "supervisor", "await"}
  /\ part # "exit" => \A t \in Threads : acting[t] = CHOOSE a \in Actors : TRUE
  /\ part # "supervisor" => kind = CHOOSE k \in Kinds : TRUE
  /\ IF part = "await" THEN A!Init ELSE obj = << >> /\ spec = << >>

DeathNext ==
  /\ UNCHANGED part
  /\ \/ part = "exit" /\ Next /\ UNCHANGED <<supvars, awaitvars>>
     \/ part = "supervisor" /\ S!Next /\ UNCHANGED <<vars, awaitvars>>
     \/ part = "await" /\ A!Next /\ UNCHANGED <<vars, supvars>>

DeathSpec == DeathInit /\ [][DeathNext]_<<part, vars, supvars, awaitvars>>

Symmetry == Permutations(Actors) \cup Permutations(Threads)

-----------------------------------------------------------------------------

(* No living actor that a supervisor started is missing from its table: a   *)
(* restart never forgets a child it did not kill.                           *)
NoOrphans == S!NoOrphans

(* Once an exit is handled, a child that died of an error has been          *)
(* replaced, unless the restart budget is spent or the actor table is full. *)
FailedAreReplaced == S!FailedAreReplaced

(* However exits, restarts and table edits follow each other, the alive     *)
(* counter is off by exactly the children removed alive, and a child of a   *)
(* dynamic supervisor keeps the restart type it was started with while both *)
(* arrays shift; the arrays of children, links and monitors stay within     *)
(* their bounds.                                                            *)
TableStaysTrue == TypeOK /\ S!TypeOK /\ S!CountDriftExplained /\ S!RestartTypeKept

(* Handling an exit moves only the children the strategy names.             *)
SiblingsSpared == S!SiblingsSpared

(* Whoever awaits a task and looks at it before it ends is woken once by    *)
(* its ordinary end and gets its result, in the polling scheduler and with  *)
(* threads; an awaiter stays asleep only when the task was killed, it       *)
(* registered behind the scan, or a message used up its flag.               *)
AwaitSound == part = "await" => A!AwaitSound
=============================================================================
