----------------------------- MODULE ChannelWait -----------------------------
(***************************************************************************)
(* Blocking channel operations (primitives.c, prim_chan_send, _recv,       *)
(* _select and _close; channel.c): how an actor waits on a full or empty   *)
(* channel and comes back.  With one scheduler actor_run_all polls the     *)
(* condition of every suspended actor ("poll").  With several, a blocked   *)
(* actor is run again only after channel_wake_actor has queued it, and it  *)
(* finds out who to wake in one waiter slot per channel and direction      *)
(* ("wake").                                                               *)
(*                                                                         *)
(* The buffer is the ring of VyukovRing at its specification; only how     *)
(* many values it holds matters here.                                      *)
(***************************************************************************)
EXTENDS Integers, Sequences, FiniteSets

CONSTANTS
  Actors, Chans,
  NoActor,     \* -1 in a waiter slot
  Capacity,
  Modes,       \* which of "poll" and "wake" are looked at
  MaxOps       \* bound, by mode: primitives called in a behaviour

ASSUME ModeAssumption == Modes \subseteq {"poll", "wake"}
ASSUME NoActorAssumption == NoActor \notin Actors
ASSUME ChansAssumption == IsFiniteSet(Chans)
ASSUME BoundsAssumption == Capacity \in Nat \ {0} /\ MaxOps \in [Modes -> Nat]

VARIABLES
  count, closed,              \* of each channel
  recv_waiter, send_waiter,   \* of each channel
  wait_flag, queued,          \* of each actor: its flag, its run-queue entries
  pc,
  reason, on,                 \* suspend_reason and the channels waited for
  todo,                       \* channels still to scan or to register with
  shut,                       \* channels found closed and empty by a scan
  waking,                     \* waking[a]: waiter slots a has still to serve
  result,                     \* what the last primitive returned
  lost,                       \* lost[c]: values of senders told "sent" that were dropped
  ops,
  mode                        \* how the actors are scheduled

vars == <<count, closed, recv_waiter, send_waiter, wait_flag, queued, pc, reason, on,
          todo, shut, waking, result, lost, ops, mode>>
channel == <<count, closed>>
slots == <<recv_waiter, send_waiter>>
wake == <<wait_flag, queued>>
frame == <<reason, on, todo, shut>>

Init ==
  /\ count = [c \in Chans |-> 0] /\ closed = [c \in Chans |-> FALSE]
  /\ recv_waiter = [c \in Chans |-> NoActor] /\ send_waiter = [c \in Chans |-> NoActor]
  /\ wait_flag = [a \in Actors |-> 0] /\ queued = [a \in Actors |-> 0]
  /\ pc = [a \in Actors |-> "run"] /\ reason = [a \in Actors |-> "general"]
  /\ on = [a \in Actors |-> {}] /\ todo = [a \in Actors |-> {}] /\ shut = [a \in Actors |-> {}]
  /\ waking = [a \in Actors |-> <<>>] /\ result = [a \in Actors |-> "none"]
  /\ lost = [c \in Chans |-> 0] /\ ops = 0 /\ mode \in Modes

Goto(a, l) == pc' = [pc EXCEPT ![a] = l]
Set(f, a, v) == [f EXCEPT ![a] = v]

(* One scheduler runs one actor at a time, until it blocks or returns.       *)
MayStep(a) == mode = "wake" \/ \A b \in Actors \ {a} : pc[b] \in {"run", "blocked"}

Call(a) == /\ pc[a] = "run" /\ MayStep(a) /\ ops < MaxOps[mode]
           /\ ops' = ops + 1

(* The primitive returns r, after serving the waiter slots ws. *)
Finish(a, r, ws) ==
  /\ result' = Set(result, a, r)
  /\ waking' = Set(waking, a, ws)
  /\ Goto(a, IF ws = <<>> THEN "run" ELSE "wake")
  /\ reason' = Set(reason, a, "general")
  /\ on' = Set(on, a, {}) /\ todo' = Set(todo, a, {}) /\ shut' = Set(shut, a, {})

-----------------------------------------------------------------------------
(* prim_chan_send *)

SendCall(a, c) ==
  /\ Call(a) /\ ~closed[c]
  /\ on' = Set(on, a, {c}) /\ reason' = Set(reason, a, "send")
  /\ Goto(a, "send")
  /\ UNCHANGED <<channel, slots, wake, todo, shut, waking, result, lost>>

Fits(c) == ~closed[c] /\ count[c] < Capacity

SendNow(a) ==
  \E c \in on[a] :
    /\ pc[a] = "send" /\ MayStep(a) /\ Fits(c)
    /\ count' = Set(count, c, count[c] + 1)
    /\ Finish(a, "sent", <<<<"recv", c>>>>)
    /\ UNCHANGED <<closed, slots, wake, lost, ops>>

SendBlocks(a) ==
  \E c \in on[a] :
    /\ pc[a] = "send" /\ MayStep(a) /\ ~Fits(c)
    /\ todo' = Set(todo, a, {c})
    /\ Goto(a, "register")
    /\ UNCHANGED <<channel, slots, wake, reason, on, shut, waking, result, lost, ops>>

-----------------------------------------------------------------------------
(* prim_chan_recv (one channel) and prim_chan_select (several) *)

RecvCall(a, S) ==
  /\ Call(a)
  /\ on' = Set(on, a, S) /\ todo' = Set(todo, a, S)
  /\ reason' = Set(reason, a, IF Cardinality(S) = 1 THEN "recv" ELSE "select")
  /\ Goto(a, "scan")
  /\ UNCHANGED <<channel, slots, wake, shut, waking, result, lost>>

ScanTakes(a, c) ==
  /\ pc[a] = "scan" /\ MayStep(a) /\ c \in todo[a] /\ count[c] > 0
  /\ count' = Set(count, c, count[c] - 1)
  /\ Finish(a, "value", <<<<"send", c>>>>)
  /\ UNCHANGED <<closed, slots, wake, lost, ops>>

ScanEmpty(a, c) ==
  /\ pc[a] = "scan" /\ MayStep(a) /\ c \in todo[a] /\ count[c] = 0
  /\ todo' = Set(todo, a, todo[a] \ {c})
  /\ shut' = IF closed[c] THEN Set(shut, a, shut[a] \cup {c}) ELSE shut
  /\ UNCHANGED <<channel, slots, wake, pc, reason, on, waking, result, lost, ops>>

ScanAllClosed(a) ==
  /\ pc[a] = "scan" /\ MayStep(a) /\ todo[a] = {} /\ shut[a] = on[a]
  /\ Finish(a, "closed", <<>>)
  /\ UNCHANGED <<channel, slots, wake, lost, ops>>

ScanBlocks(a) ==
  /\ pc[a] = "scan" /\ MayStep(a) /\ todo[a] = {} /\ shut[a] # on[a]
  /\ todo' = Set(todo, a, on[a])
  /\ Goto(a, "register")
  /\ UNCHANGED <<channel, slots, wake, reason, on, shut, waking, result, lost, ops>>

-----------------------------------------------------------------------------
(* Going to sleep: a slot that is taken is left to its owner. *)

Register(a, c) ==
  /\ pc[a] = "register" /\ MayStep(a) /\ c \in todo[a]
  /\ IF reason[a] = "send"
     THEN /\ send_waiter' = IF send_waiter[c] = NoActor THEN Set(send_waiter, c, a) ELSE send_waiter
          /\ UNCHANGED recv_waiter
     ELSE /\ recv_waiter' = IF recv_waiter[c] = NoActor THEN Set(recv_waiter, c, a) ELSE recv_waiter
          /\ UNCHANGED send_waiter
  /\ todo' = Set(todo, a, todo[a] \ {c})
  /\ UNCHANGED <<channel, wake, pc, reason, on, shut, waking, result, lost, ops>>

SetFlag(a) ==
  /\ pc[a] = "register" /\ MayStep(a) /\ todo[a] = {}
  /\ wait_flag' = Set(wait_flag, a, 1)
  /\ Goto(a, "yield")
  /\ UNCHANGED <<channel, slots, queued, frame, waking, result, lost, ops>>

(* fiber_yield; until then a scheduler that finds the actor in a queue sees *)
(* it running and puts it back.                                             *)
Yield(a) ==
  /\ pc[a] = "yield" /\ MayStep(a)
  /\ Goto(a, "blocked")
  /\ UNCHANGED <<channel, slots, wake, frame, waking, result, lost, ops>>

-----------------------------------------------------------------------------
(* channel_close, and the wake-ups at the end of a send, a receive, a close *)

Close(a, c) ==
  /\ Call(a)
  /\ closed' = Set(closed, c, TRUE)
  /\ Finish(a, "ok", <<<<"recv", c>>, <<"send", c>>>>)
  /\ UNCHANGED <<count, slots, wake, lost>>

(* Mutant of WakeSlot: the flag is read but not taken. *)
WakeSlotKeepsFlag(a, kind, c, waiter) ==
  /\ pc[a] = "wake" /\ MayStep(a) /\ waking[a][1] = <<kind, c>>
  /\ waking' = Set(waking, a, Tail(waking[a]))
  /\ Goto(a, IF Len(waking[a]) = 1 THEN "run" ELSE "wake")
  /\ IF waiter # NoActor /\ wait_flag[waiter] = 1
     THEN queued' = Set(queued, waiter, queued[waiter] + 1) /\ UNCHANGED wait_flag
     ELSE UNCHANGED wake

WakeSlot(a, kind, c, waiter) ==
  /\ pc[a] = "wake" /\ MayStep(a) /\ waking[a][1] = <<kind, c>>
  /\ waking' = Set(waking, a, Tail(waking[a]))
  /\ Goto(a, IF Len(waking[a]) = 1 THEN "run" ELSE "wake")
  /\ IF waiter # NoActor /\ wait_flag[waiter] = 1
     THEN wait_flag' = Set(wait_flag, waiter, 0) /\ queued' = Set(queued, waiter, queued[waiter] + 1)
     ELSE UNCHANGED wake

(* Exchange the slot and, for its owner, the flag. *)
WakeReceiver(a, c) ==
  /\ WakeSlot(a, "recv", c, recv_waiter[c])
  /\ recv_waiter' = Set(recv_waiter, c, NoActor)
  /\ UNCHANGED <<channel, send_waiter, frame, result, lost, ops>>

WakeSender(a, c) ==
  /\ WakeSlot(a, "send", c, send_waiter[c])
  /\ send_waiter' = Set(send_waiter, c, NoActor)
  /\ UNCHANGED <<channel, recv_waiter, frame, result, lost, ops>>

-----------------------------------------------------------------------------
(* The scheduler *)

(* Mutants of Runnable: a sender is resumed without room, a receiver         *)
(* without data, a receiver sleeps through the close.                        *)
RunnableSendAlways(a) ==
  IF reason[a] = "send" THEN TRUE ELSE \E c \in on[a] : count[c] > 0 \/ closed[c]
RunnableRecvAlways(a) ==
  IF reason[a] = "send" THEN \A c \in on[a] : count[c] < Capacity ELSE TRUE
RunnableDespiteClose(a) ==
  IF reason[a] = "send" THEN \A c \in on[a] : count[c] < Capacity
  ELSE \E c \in on[a] : count[c] > 0

(* sched_actor_runnable and the same tests of actor_run_all. *)
Runnable(a) ==
  IF reason[a] = "send" THEN \A c \in on[a] : count[c] < Capacity
  ELSE \E c \in on[a] : count[c] > 0 \/ closed[c]

(* actor_run_all visits every suspended actor. *)
PollPick(a) ==
  /\ mode = "poll" /\ pc[a] = "blocked" /\ MayStep(a) /\ Runnable(a)
  /\ wait_flag' = Set(wait_flag, a, 0)
  /\ Goto(a, "resume")
  /\ UNCHANGED <<channel, slots, queued, frame, waking, result, lost, ops>>

(* sched_run_one_quantum on a queue entry; if the condition does not hold   *)
(* the entry is dropped.                                                    *)
QueuePick(a) ==
  /\ mode = "wake" /\ pc[a] = "blocked" /\ queued[a] > 0
  /\ queued' = Set(queued, a, queued[a] - 1)
  /\ IF Runnable(a)
     THEN wait_flag' = Set(wait_flag, a, 0) /\ Goto(a, "resume")
     ELSE UNCHANGED <<wait_flag, pc>>
  /\ UNCHANGED <<channel, slots, frame, waking, result, lost, ops>>

(* sched_prepare_resume for a sender: whether the value was accepted is not *)
(* looked at.                                                               *)
ResumeSend(a) ==
  \E c \in on[a] :
    /\ pc[a] = "resume" /\ MayStep(a) /\ reason[a] = "send"
    /\ IF Fits(c)
       THEN /\ count' = Set(count, c, count[c] + 1)
            /\ Finish(a, "sent", <<<<"recv", c>>>>)
            /\ UNCHANGED lost
       ELSE /\ lost' = Set(lost, c, lost[c] + 1)
            /\ Finish(a, "sent", <<>>)
            /\ UNCHANGED count
    /\ UNCHANGED <<closed, slots, wake, ops>>

(* ... and for a receiver.  A select first takes itself out of its slots.    *)
Deregister(a) ==
  recv_waiter' = [c \in Chans |->
    IF reason[a] = "select" /\ c \in on[a] /\ recv_waiter[c] = a THEN NoActor ELSE recv_waiter[c]]

ResumeTakes(a, c) ==
  /\ pc[a] = "resume" /\ MayStep(a) /\ reason[a] # "send" /\ c \in on[a] /\ count[c] > 0
  /\ count' = Set(count, c, count[c] - 1)
  /\ Deregister(a)
  /\ Finish(a, "value", <<<<"send", c>>>>)
  /\ UNCHANGED <<closed, send_waiter, wake, lost, ops>>

ResumeEmpty(a) ==
  /\ pc[a] = "resume" /\ MayStep(a) /\ reason[a] # "send"
  /\ \A c \in on[a] : count[c] = 0
  /\ Deregister(a)
  /\ Finish(a, IF \A c \in on[a] : closed[c] THEN "closed" ELSE "nil", <<>>)
  /\ UNCHANGED <<channel, send_waiter, wake, lost, ops>>

Primitive(a) ==
  \/ \E c \in Chans : SendCall(a, c) \/ Close(a, c)
  \/ \E S \in SUBSET Chans \ {{}} : RecvCall(a, S)
Inside(a) ==
  \/ SendNow(a) \/ SendBlocks(a) \/ ScanAllClosed(a) \/ ScanBlocks(a) \/ SetFlag(a) \/ Yield(a)
  \/ \E c \in Chans : \/ ScanTakes(a, c) \/ ScanEmpty(a, c) \/ Register(a, c)
                      \/ WakeReceiver(a, c) \/ WakeSender(a, c)
Schedule(a) ==
  \/ PollPick(a) \/ QueuePick(a) \/ ResumeSend(a) \/ ResumeEmpty(a)
  \/ \E c \in Chans : ResumeTakes(a, c)

Next == (\E a \in Actors : Primitive(a) \/ Inside(a) \/ Schedule(a)) /\ UNCHANGED mode

(* The scheduler keeps running and a primitive, once called, is carried on.  *)
(* (Nothing is claimed about progress under several schedulers.)             *)
Progress(a) == mode = "poll" /\ (Inside(a) \/ Schedule(a)) /\ UNCHANGED mode

Spec == Init /\ [][Next]_vars /\ \A a \in Actors : WF_vars(Progress(a))

-----------------------------------------------------------------------------
PC == {"run", "send", "scan", "register", "yield", "blocked", "wake", "resume"}
Owners == Actors \cup {NoActor}

(* Every variable keeps its type. *)
TypeOK ==
  /\ count \in [Chans -> 0 .. Capacity] /\ closed \in [Chans -> BOOLEAN]
  /\ recv_waiter \in [Chans -> Owners] /\ send_waiter \in [Chans -> Owners]
  /\ wait_flag \in [Actors -> {0, 1}] /\ queued \in [Actors -> Nat]
  /\ pc \in [Actors -> PC] /\ reason \in [Actors -> {"general", "send", "recv", "select"}]
  /\ on \in [Actors -> SUBSET Chans] /\ todo \in [Actors -> SUBSET Chans]
  /\ shut \in [Actors -> SUBSET Chans] /\ ops \in 0 .. MaxOps[mode]
  /\ waking \in [Actors -> Seq({"recv", "send"} \X Chans)]
  /\ result \in [Actors -> {"none", "sent", "value", "closed", "ok", "nil"}]
  /\ lost \in [Chans -> Nat] /\ mode \in Modes

(* Under the polling scheduler a value whose send was reported done is       *)
(* dropped at most when the channel was closed meanwhile: the room the       *)
(* sender was resumed for is still there (primitives.c, line 5519: "Resumed  *)
(* by scheduler after successful send").  With several schedulers another    *)
(* sender may fill it between the test of sched_run_one_quantum and          *)
(* sched_prepare_resume, which does not look at what channel_try_send says.  *)
LossOnlyByClose == mode = "poll" => \A c \in Chans : lost[c] > 0 => closed[c]

(* Under the polling scheduler a receive from one channel never returns a   *)
(* value nobody sent.  (A select may return nil, and with several           *)
(* schedulers so may a receive: another one takes the value between the     *)
(* test of sched_run_one_quantum and sched_prepare_resume.)                 *)
ReceiveNeverNil ==
  [][\A a \in Actors : mode = "poll" /\ reason[a] = "recv" => result'[a] # "nil" \/ result[a] = "nil"]_vars

(* However many threads send, receive and close at once, an actor has at    *)
(* most one queue entry from these wake-ups, and none unless it has gone    *)
(* (or is going) to sleep: else two schedulers would run its fiber.         *)
OneEntryPerWait ==
  mode = "wake" => \A a \in Actors :
    /\ queued[a] + wait_flag[a] <= 1
    /\ queued[a] + wait_flag[a] = 1 => pc[a] \in {"yield", "blocked"}

(* An actor that waits to receive from a closed channel gets an answer. *)
CloseEndsReceive ==
  \A a \in Actors, c \in Chans :
    mode = "poll" /\ pc[a] = "blocked" /\ reason[a] = "recv" /\ c \in on[a] /\ closed[c]
      ~> pc[a] # "blocked"
=============================================================================
