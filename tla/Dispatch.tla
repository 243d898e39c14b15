------------------------------- MODULE Dispatch -------------------------------
(* The run queues and the loops around them: who holds an actor between its   *)
(* wake-up and its next quantum, and when scheduler 0 ends a run.  A deque is *)
(* a sequence here (BWoSDeque.tla has its steps) and parking is a pause       *)
(* (EventCount.tla); that a fiber is suspended before its thread has left its *)
(* stack, and the steps between the check of an entry and the resumption, are *)
(* in ActorWake.tla.                                                         *)
EXTENDS Integers, Sequences, FiniteSets, SequencesExt

CONSTANTS
  Workers,          \* scheduler threads besides scheduler 0
  RunActors,
  HomeOf,           \* actor->home_scheduler of each actor
  TimerTargets,     \* the actors a pending timer may be for
  MaxMessages,      \* messages sent in a behaviour
  MaxPreempts,      \* quanta that end with the reductions used up
  MaxRuns,          \* calls of sched_run_all
  Nil

VARIABLES obj, spec

Threads == {0} \cup Workers

(* spec notes the actors whose entry was dropped, and those with an entry too *)
(* many.                                                                     *)
Init ==
  /\ \E timer \in TimerTargets \cup {Nil} :
     obj = [state |-> [a \in RunActors |-> "ready"],   \* or "running", "blocked", "dead"
            mail |-> [a \in RunActors |-> 0],
            flag |-> [a \in RunActors |-> 0],           \* actor->wait_flag
            runnext |-> [s \in Threads |-> Nil],
            deque |-> [s \in Threads |-> << >>],
            global |-> << >>,                           \* the overflow queue
            held |-> [s \in Threads |-> Nil],
            to |-> [s \in Threads |-> Nil],             \* whom actor_send was called for
            at |-> [s \in Threads |-> IF s = 0 THEN "off" ELSE "stopped"],
            todo |-> {},                                \* actors still to be distributed
            running |-> 0,                              \* g_running_actors
            timer |-> timer, sent |-> 0, preempts |-> 0, runs |-> 0]
  /\ spec = [dropped |-> {}, doubled |-> {}]

Goto(o, s, l) == [o EXCEPT !.at[s] = l]

-----------------------------------------------------------------------------
(* The queues. *)

\* Thread s puts actor a into the runnext slot of home; what was there moves to
\* home's deque, or, since only the owner may push to it, to the global queue.
sched_enqueue(o, s, home, a) ==
  LET prev == o.runnext[home]
  IN  IF prev = Nil THEN [o EXCEPT !.runnext[home] = a]
      ELSE IF s = home THEN [o EXCEPT !.runnext[home] = a, !.deque[home] = Append(@, prev)]
      ELSE [o EXCEPT !.runnext[home] = a, !.global = Append(@, prev)]

\* The ways thread s can take an actor, in the order of the code: <<actor, rest>>.
Own(o, s) ==
  IF o.runnext[s] # Nil THEN {<<o.runnext[s], [o EXCEPT !.runnext[s] = Nil]>>} ELSE {}
Popped(o, s) ==
  IF o.deque[s] # << >> THEN {<<Last(o.deque[s]), [o EXCEPT !.deque[s] = Front(@)]>>} ELSE {}
FromGlobal(o) ==
  IF o.global # << >> THEN {<<Head(o.global), [o EXCEPT !.global = Tail(@)]>>} ELSE {}
\* sched_try_steal: the first entry of some victim, and half of what is left.
Stolen(o, s) ==
  {LET rest == Tail(o.deque[v])
       half == Len(rest) \div 2
   IN  <<Head(o.deque[v]), [o EXCEPT !.deque[v] = SubSeq(rest, half + 1, Len(rest)),
                                     !.deque[s] = @ \o SubSeq(rest, 1, half)]>> :
     v \in {w \in Threads \ {s} : o.deque[w] # << >>}}

FirstOf(A, B) == IF A # {} THEN A ELSE B
\* After three times in a row from the slot, the slot is passed over once.
Sources(o, s) ==
  LET others == FirstOf(Popped(o, s), FirstOf(FromGlobal(o), Stolen(o, s)))
  IN  FirstOf(Own(o, s), others) \cup others

sched_all_idle == /\ \A s \in Threads : obj.runnext[s] = Nil /\ obj.deque[s] = << >>
                  /\ obj.global = << >>

-----------------------------------------------------------------------------
(* One turn of a scheduler's loop. *)

Take(s) ==
  /\ obj.at[s] = "loop"
  /\ \E p \in Sources(obj, s) : obj' = [Goto(p[2], s, "taken") EXCEPT !.held[s] = p[1]]
  /\ UNCHANGED spec

Count(s) ==
  /\ obj.at[s] = "taken"
  /\ obj' = [Goto(obj, s, "counted") EXCEPT !.running = @ + 1]
  /\ UNCHANGED spec

\* An entry of a blocked actor is dropped: if the flag is down, nobody owes the
\* actor another.
Left(a) == IF obj.flag[a] = 0 THEN [spec EXCEPT !.dropped = @ \cup {a}] ELSE spec

\* sched_run_one_quantum: dead actors and those still blocked leave the queues.
BeginQuantum(s) ==
  LET a == obj.held[s]
      state == obj.state[a]
  IN  /\ obj.at[s] = "counted"
      /\ obj' = CASE state = "dead" -> Goto(obj, s, "leave")
                  [] state = "running" -> Goto(obj, s, "met")
                  [] state = "blocked" /\ obj.mail[a] = 0 -> Goto(obj, s, "leave")
                  [] state = "blocked" /\ obj.mail[a] > 0 ->
                       [Goto(obj, s, "in") EXCEPT !.state[a] = "running", !.mail[a] = @ - 1, !.flag[a] = 0]
                  [] state = "ready" -> [Goto(obj, s, "in") EXCEPT !.state[a] = "running"]
      /\ spec' = IF state = "blocked" /\ obj.mail[a] = 0 THEN Left(a) ELSE spec

\* Back from the fiber, at "met" from one that another thread is running: an
\* actor that is not blocked is put back.
AfterQuantum(s) ==
  LET a == obj.held[s]
      back == obj.state[a] \in {"running", "ready"}
  IN  /\ obj.at[s] \in {"after", "met"}
      /\ obj' = Goto(obj, s, IF back THEN "requeue" ELSE "leave")
      /\ spec' = IF back /\ obj.at[s] = "after" THEN [spec EXCEPT !.doubled = @ \cup {a}]
                 ELSE IF obj.state[a] = "blocked" /\ obj.at[s] = "met" THEN Left(a) ELSE spec

-----------------------------------------------------------------------------
(* actor_send, by the actor thread s runs or by the timers of scheduler 0. *)

Deliver(o, s, b) == [Goto(o, s, "wake") EXCEPT !.mail[b] = @ + 1, !.to[s] = b]
Sent(o, s) == [Goto(o, s, IF o.held[s] = Nil THEN "loop" ELSE "in") EXCEPT !.to[s] = Nil]

Send(s, b) ==
  /\ obj.at[s] = "in"
  /\ b # obj.held[s]
  /\ obj.sent < MaxMessages
  /\ obj.state[b] # "dead"
  /\ obj' = [Deliver(obj, s, b) EXCEPT !.sent = @ + 1]
  /\ UNCHANGED spec

ExchangeFlag(s) ==
  LET b == obj.to[s]
  IN  /\ obj.at[s] = "wake"
      /\ obj' = IF obj.flag[b] = 1 THEN [Goto(obj, s, "enqueue") EXCEPT !.flag[b] = 0] ELSE Sent(obj, s)
      /\ UNCHANGED spec

EnqueueActor(s) ==
  /\ obj.at[s] = "enqueue"
  /\ obj' = Sent(sched_enqueue(obj, s, HomeOf[obj.to[s]], obj.to[s]), s)
  /\ UNCHANGED spec

-----------------------------------------------------------------------------
(* The actor of thread s: it receives a message, is preempted, or ends. *)

Receive(s) ==
  LET a == obj.held[s]
  IN  /\ obj.at[s] = "in"
      /\ obj' = IF obj.mail[a] > 0 THEN [obj EXCEPT !.mail[a] = @ - 1] ELSE Goto(obj, s, "flag")
      /\ UNCHANGED spec

RaiseFlag(s) ==
  /\ obj.at[s] = "flag"
  /\ obj' = [Goto(obj, s, "recheck") EXCEPT !.flag[obj.held[s]] = 1]
  /\ UNCHANGED spec

\* A message that came in the gap cancels the wait, but not the wake-up of a
\* sender that has seen the flag.
Recheck(s) ==
  LET a == obj.held[s]
  IN  /\ obj.at[s] = "recheck"
      /\ \/ /\ obj.mail[a] > 0
            /\ obj' = [Goto(obj, s, "in") EXCEPT !.mail[a] = @ - 1, !.flag[a] = 0]
            /\ spec' = IF obj.flag[a] = 0 THEN [spec EXCEPT !.doubled = @ \cup {a}] ELSE spec
         \/ obj.mail[a] = 0 /\ obj' = Goto(obj, s, "yield") /\ UNCHANGED spec

Yield(s) ==
  /\ obj.at[s] = "yield"
  /\ obj' = [Goto(obj, s, "after") EXCEPT !.state[obj.held[s]] = "blocked"]
  /\ UNCHANGED spec

EndQuantum(s) ==
  LET a == obj.held[s]
  IN  /\ obj.at[s] = "in"
      /\ \/ /\ obj.preempts < MaxPreempts
            /\ obj' = [Goto(obj, s, "requeue") EXCEPT !.state[a] = "ready", !.preempts = @ + 1]
         \/ obj' = [Goto(obj, s, "leave") EXCEPT !.state[a] = "dead"]
      /\ UNCHANGED spec

\* The blocked actor is enqueued as well: what the code did once.
Leave_requeue(s) ==
  /\ obj.at[s] \in {"requeue", "leave"}
  /\ LET o == IF obj.at[s] = "requeue" \/ obj.state[obj.held[s]] = "blocked"
              THEN sched_enqueue(obj, s, s, obj.held[s]) ELSE obj
     IN  obj' = [Goto(o, s, "loop") EXCEPT !.held[s] = Nil, !.running = @ - 1]
  /\ UNCHANGED spec

\* The actor is back in a queue before it stops counting as running.
Leave(s) ==
  /\ obj.at[s] \in {"requeue", "leave"}
  /\ LET o == IF obj.at[s] = "requeue" THEN sched_enqueue(obj, s, s, obj.held[s]) ELSE obj
     IN  obj' = [Goto(o, s, "loop") EXCEPT !.held[s] = Nil, !.running = @ - 1]
  /\ UNCHANGED spec

-----------------------------------------------------------------------------
(* Scheduler 0. *)

Alive == {a \in RunActors : obj.state[a] # "dead"}

timer_tick_all ==
  /\ obj.at[0] = "loop"
  /\ obj.timer # Nil
  /\ obj' = [(IF obj.timer \in Alive THEN Deliver(obj, 0, obj.timer) ELSE obj) EXCEPT !.timer = Nil]
  /\ UNCHANGED spec

FindNothing ==
  /\ obj.at[0] = "loop"
  /\ Sources(obj, 0) = {}
  /\ obj' = Goto(obj, 0, "empty")
  /\ UNCHANGED spec

\* The first half of the test for the end of the run.
SeeRunning ==
  /\ obj.at[0] = "empty"
  /\ obj' = Goto(obj, 0, IF obj.running = 0 THEN "idle" ELSE "again")
  /\ UNCHANGED spec

SeeAllIdle ==
  /\ obj.at[0] = "idle"
  /\ obj' = Goto(obj, 0, IF sched_all_idle /\ (Alive = {} \/ obj.timer = Nil) THEN "stop" ELSE "again")
  /\ UNCHANGED spec

\* After many rounds scheduler 0 parks, but looks once more before, and with an
\* actor in hand goes back to the top of its loop, where it takes another: the
\* one in its hand is gone.
LookAgain ==
  /\ obj.at[0] = "again"
  /\ \/ \E p \in Sources(obj, 0) :
          obj' = Goto(p[2], 0, "loop") /\ spec' = [spec EXCEPT !.dropped = @ \cup {p[1]}]
     \/ Sources(obj, 0) = {} /\ Alive = {} /\ obj' = Goto(obj, 0, "stop") /\ UNCHANGED spec
     \/ obj' = Goto(obj, 0, "loop") /\ UNCHANGED spec

\* The workers are told to stop, end their turns and are joined; all queues are
\* emptied.
EndRun ==
  /\ obj.at[0] = "stop"
  /\ \A w \in Workers : obj.at[w] = "loop"
  /\ obj' = [obj EXCEPT !.at = [s \in Threads |-> IF s = 0 THEN "off" ELSE "stopped"],
                        !.runnext = [s \in Threads |-> Nil],
                        !.deque = [s \in Threads |-> << >>], !.global = << >>]
  /\ spec' = [dropped |-> {}, doubled |-> {}]

\* sched_run_all: scheduler 0 puts every living actor, also a blocked one, into
\* the queue of its home, then the workers start.
StartRun ==
  /\ obj.at[0] = "off"
  /\ obj.runs < MaxRuns
  /\ obj' = [Goto(obj, 0, "distribute") EXCEPT !.todo = Alive, !.runs = @ + 1]
  /\ spec' = [dropped |-> {}, doubled |-> {a \in RunActors : obj.flag[a] = 1}]

Distribute(a) ==
  /\ obj.at[0] = "distribute"
  /\ a \in obj.todo
  /\ obj' = [sched_enqueue(obj, 0, HomeOf[a], a) EXCEPT !.todo = @ \ {a}]
  /\ UNCHANGED spec

StartWorkers ==
  /\ obj.at[0] = "distribute"
  /\ obj.todo = {}
  /\ obj' = [obj EXCEPT !.at = [s \in Threads |-> "loop"], !.running = 0]
  /\ UNCHANGED spec

Next ==
  \/ \E s \in Threads : Take(s) \/ Count(s) \/ BeginQuantum(s) \/ AfterQuantum(s) \/ Leave(s)
                        \/ ExchangeFlag(s) \/ EnqueueActor(s) \/ \E b \in RunActors : Send(s, b)
                        \/ Receive(s) \/ RaiseFlag(s) \/ Recheck(s) \/ Yield(s) \/ EndQuantum(s)
  \/ timer_tick_all \/ FindNothing \/ SeeRunning \/ SeeAllIdle \/ LookAgain \/ EndRun
  \/ StartRun \/ StartWorkers \/ \E a \in RunActors : Distribute(a)

-----------------------------------------------------------------------------

\* A thread whose actor has raised its flag leaves the next entry to whoever
\* takes the flag down; at "leave" it is done with an actor that another may have.
Waiting == {"recheck", "yield", "after"}

\* Where actor a is: the place, the thread whose place it is, the index.
PlacesIn(o, a) ==
  LET at(q) == {i \in DOMAIN q : q[i] = a}
  IN  {<<"runnext", s, 0>> : s \in {t \in Threads : o.runnext[t] = a}}
      \cup (UNION {{<<"deque", s, i>> : i \in at(o.deque[s])} : s \in Threads})
      \cup {<<"global", 0, i>> : i \in at(o.global)}
      \cup {<<"held", s, 0>> : s \in {t \in Threads : o.held[t] = a /\ o.at[t] \notin Waiting \cup {"leave"}}}
      \cup {<<"woken", s, 0>> : s \in {t \in Threads : o.to[t] = a /\ o.at[t] = "enqueue"}}
Places(a) == PlacesIn(obj, a)

\* While scheduler 0 is in its loop, an actor that could go on is somewhere, or
\* its flag is up and a sender about to look at it.
NotLost ==
  obj.at[0] \notin {"off", "distribute"} =>
    \A a \in Alive : (obj.state[a] # "blocked" \/ obj.mail[a] > 0) =>
      \/ Places(a) # {} \/ a \in spec.dropped
      \/ \E s \in Threads : \/ (obj.held[s] = a /\ obj.at[s] \in Waiting)
                             \/ (obj.to[s] = a /\ obj.at[s] = "wake" /\ obj.flag[a] = 1)

\* No actor is in two places, nor in one while a wake-up is due that would put
\* it into another, so that no two schedulers run it at once.
OnePlace ==
  \A a \in RunActors \ spec.doubled : /\ Cardinality(Places(a)) <= 1
                                      /\ obj.flag[a] = 1 => Places(a) = {}

DispatchSound == NotLost /\ OnePlace

\* Scheduler 0 ends a run only with "all actors dead, nothing in flight or
\* queued" (scheduler.c, line 1292), because an actor is "never in a gap state
\* (not running, not queued) which would fool idle detection" (lines
\* 1155-1156).  The code violates this: a worker takes an actor out of its
\* queue before it counts itself as running.
EndsWhenIdle ==
  obj.at[0] = "stop" => \A a \in Alive : Places(a) = {} /\ \A s \in Threads : obj.held[s] # a
=============================================================================
