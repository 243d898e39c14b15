------------------------------- MODULE TaskAwait -------------------------------
(* Awaiting the end of a task.  An awaiter tests that the task lives, writes *)
(* down what it waits for, raises its wait_flag and yields; whoever finishes *)
(* the task looks through all actors for awaiters that are suspended and     *)
(* lowers their flag to put them into a run queue.  Messages lower the same  *)
(* flag.  With one scheduler the awaiters are polled instead.                *)
EXTENDS Integers, FiniteSets

CONSTANTS
  Awaiters,        \* the actors that await the one task
  AwaitModes,      \* "poll": actor_run_all; "threads": sched_run_all
  MaxMail,         \* messages sent to an awaiter
  Nil

VARIABLES obj, spec

(* spec records why an awaiter may have missed the end of the task.         *)
Init ==
  /\ \E mode \in AwaitModes :
       obj = [mode |-> mode,
              alive |-> TRUE, result |-> Nil,               \* of the task
              scan |-> {},                                  \* awaiters actor_finish has still to look at
              at |-> [w \in Awaiters |-> "running"],        \* where an awaiter is in prim_task_await
              wait_flag |-> [w \in Awaiters |-> 0],
              queued |-> [w \in Awaiters |-> 0],            \* its entries in the run queues
              mail |-> [w \in Awaiters |-> 0],
              got |-> [w \in Awaiters |-> Nil]]
  /\ spec = [killed |-> FALSE, missed |-> {}, messaged |-> {}]

-----------------------------------------------------------------------------
(* The awaiter. *)

prim_task_await(w) ==
  /\ obj.at[w] = "running"
  /\ obj' = IF obj.alive
            THEN IF obj.mode = "poll"                       \* one thread: nothing comes between
                 THEN [obj EXCEPT !.at[w] = "suspended", !.wait_flag[w] = 1]
                 ELSE [obj EXCEPT !.at[w] = "recorded"]
            ELSE [obj EXCEPT !.at[w] = "done", !.got[w] = obj.result]
  /\ UNCHANGED spec

RaiseFlag(w) ==
  /\ obj.at[w] = "recorded"
  /\ obj' = [obj EXCEPT !.at[w] = "flagged", !.wait_flag[w] = 1]
  /\ UNCHANGED spec

fiber_yield(w) ==
  /\ obj.at[w] = "flagged"
  /\ obj' = [obj EXCEPT !.at[w] = "suspended"]
  /\ UNCHANGED spec

-----------------------------------------------------------------------------
(* The end of the task, by itself or by an exit signal, which looks for no    *)
(* awaiters; when a killed task's own fiber ends later, actor_finish finds it *)
(* dead already and looks for none either.                                   *)

actor_finish ==
  /\ obj.alive
  /\ obj' = [obj EXCEPT !.alive = FALSE, !.result = "result",
                        !.scan = IF obj.mode = "threads" THEN Awaiters ELSE {}]
  /\ UNCHANGED spec

actor_exit_signal ==
  /\ obj.alive
  /\ obj' = [obj EXCEPT !.alive = FALSE, !.result = "reason"]
  /\ spec' = [spec EXCEPT !.killed = TRUE]

\* The flag is read, not exchanged.
WakeAwaiter_read(w) ==
  /\ w \in obj.scan
  /\ obj' = [obj EXCEPT !.scan = @ \ {w},
                        !.queued[w] = IF obj.at[w] = "suspended" THEN @ + obj.wait_flag[w] ELSE @]
  /\ spec' = IF obj.at[w] \in {"recorded", "flagged"} THEN [spec EXCEPT !.missed = @ \cup {w}] ELSE spec

WakeAwaiter(w) ==
  /\ w \in obj.scan
  /\ obj' = [obj EXCEPT !.scan = @ \ {w},
                        !.queued[w] = IF obj.at[w] = "suspended" THEN @ + obj.wait_flag[w] ELSE @,
                        !.wait_flag[w] = IF obj.at[w] = "suspended" THEN 0 ELSE @]
  /\ spec' = IF obj.at[w] \in {"recorded", "flagged"} THEN [spec EXCEPT !.missed = @ \cup {w}] ELSE spec

-----------------------------------------------------------------------------
(* A message to an awaiter, and the schedulers. *)

actor_send(w) ==
  /\ obj.mail[w] < MaxMail
  /\ obj' = [obj EXCEPT !.mail[w] = @ + 1, !.queued[w] = @ + obj.wait_flag[w], !.wait_flag[w] = 0]
  /\ spec' = IF obj.wait_flag[w] = 1 /\ obj.alive THEN [spec EXCEPT !.messaged = @ \cup {w}] ELSE spec

\* sched_actor_runnable and the resumption of sched_run_one_quantum
Resume(w) == [obj EXCEPT !.at[w] = "done", !.got[w] = obj.result, !.wait_flag[w] = 0]

\* An entry for a fiber that is still running on another thread is put back:
\* no change.  A suspended awaiter whose task lives loses its entry.
sched_run_one_quantum(w) ==
  /\ obj.mode = "threads"
  /\ obj.queued[w] > 0
  /\ obj.at[w] \in {"suspended", "done"}
  /\ LET taken == [obj EXCEPT !.queued[w] = @ - 1]
     IN obj' = IF obj.at[w] = "suspended" /\ ~obj.alive
               THEN [Resume(w) EXCEPT !.queued[w] = @ - 1] ELSE taken
  /\ UNCHANGED spec

actor_run_all(w) ==
  /\ obj.mode = "poll"
  /\ obj.at[w] = "suspended"
  /\ ~obj.alive
  /\ obj' = Resume(w)
  /\ UNCHANGED spec

Next ==
  \/ actor_finish \/ actor_exit_signal
  \/ \E w \in Awaiters :
       prim_task_await(w) \/ RaiseFlag(w) \/ fiber_yield(w) \/ WakeAwaiter(w) \/ actor_send(w)
       \/ sched_run_one_quantum(w) \/ actor_run_all(w)

-----------------------------------------------------------------------------

\* The task has ended, nobody will look for this awaiter again and no queue has it.
Stranded(w) ==
  obj.mode = "threads" /\ obj.at[w] = "suspended" /\ ~obj.alive /\ w \notin obj.scan /\ obj.queued[w] = 0

\* An awaiter that goes on has the result of a task that has ended, and is in
\* one queue at most; one that is stranded waited for a task that was killed,
\* registered after the scan of the task's end, or was woken by a message.
AwaitSound ==
  \A w \in Awaiters :
    /\ obj.got[w] # Nil => ~obj.alive /\ obj.got[w] = obj.result
    /\ obj.queued[w] <= 1
    /\ Stranded(w) => spec.killed \/ w \in spec.missed \cup spec.messaged

\* Every awaiter of a task that has ended is woken.  The code violates this
\* with several schedulers; AwaitSound names the ways.
NoneStranded == \A w \in Awaiters : ~Stranded(w)
=============================================================================
