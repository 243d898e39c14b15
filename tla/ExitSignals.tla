----------------------------- MODULE ExitSignals -----------------------------
(***************************************************************************)
(* Links, monitors and exit signals (actor.c, the supervision primitives   *)
(* of primitives.c) when several scheduler threads run actors.  Every      *)
(* thread has a stack of the C calls it is in: an actor that dies of an    *)
(* error kills its linked actors, whose deaths are propagated by a nested  *)
(* actor_notify_exit before the loop of the outer one goes on.             *)
(*                                                                         *)
(* A step is what happens under one acquisition of the stripe locks, or    *)
(* one unlocked test.  Of an exit reason only the type matters: "error" is *)
(* a CELL_ERROR, "normal" any other value.                                 *)
(***************************************************************************)
EXTENDS Integers, Sequences, FiniteSets

CONSTANTS
  Actors,
  Threads,
  MaxLinks,      \* MAX_LINKS
  MaxMonitors,   \* MAX_MONITORS
  MaxCalls       \* bound: primitives called in a behaviour

ASSUME ActorsFinite == IsFiniteSet(Actors)
ASSUME LimitAssumption == MaxLinks \in Nat /\ MaxMonitors \in Nat /\ MaxCalls \in Nat

VARIABLES
  alive,      \* the actors whose alive flag is set
  result,     \* "none", or the type of the result of a dead actor
  trap,       \* actors with trap_exit
  links,      \* links[a]: ids in a's link array
  monitors,   \* monitors[a]: watchers of a, in registration order
  g_alive,    \* g_alive_actors
  inbox,      \* inbox[w][a]: :DOWN messages about a sent to w
  watched,    \* watched[w][a]: monitors of w on a, but for those a full array refused
  trapped,    \* actors that have set trap_exit at some time
  loose,      \* pairs actor_link linked although one was dead, or at one end only
  stack,      \* stack[t]: calls thread t is in, innermost last
  acting,     \* acting[t]: the actor thread t runs; meaningful while it is in a call
  calls

vars == <<alive, result, trap, links, monitors, g_alive, inbox, watched, trapped,
          loose, stack, acting, calls>>
life == <<alive, result, g_alive>>
ghosts == <<watched, trapped, loose>>

Reasons == {"normal", "error"}

Init ==
  /\ alive = Actors /\ result = [a \in Actors |-> "none"] /\ trap = {}
  /\ links = [a \in Actors |-> {}] /\ monitors = [a \in Actors |-> <<>>]
  /\ g_alive = Cardinality(Actors)
  /\ inbox = [w \in Actors |-> [a \in Actors |-> 0]]
  /\ watched = [w \in Actors |-> [a \in Actors |-> 0]] /\ trapped = {} /\ loose = {}
  /\ stack = [t \in Threads |-> <<>>]
  /\ acting \in [Threads -> Actors] /\ calls = 0

-----------------------------------------------------------------------------
(* Frames of a thread's stack *)

Top(t) == stack[t][Len(stack[t])]
Push(t, f) == stack' = [stack EXCEPT ![t] = Append(@, f)]
Replace(t, f) == stack' = [stack EXCEPT ![t][Len(stack[t])] = f]
Return(t) == stack' = [stack EXCEPT ![t] = SubSeq(@, 1, Len(@) - 1)]
In(t, op) == stack[t] # <<>> /\ Top(t).op = op

(* actor_notify_exit before it has copied the arrays. *)
NotifyFrame(a) == [op |-> "notify", who |-> a, ids |-> <<>>, linked |-> {}]

(* Thread t starts a primitive of actor c; an actor runs on one thread at a *)
(* time.                                                                    *)
Call(t, c) ==
  /\ stack[t] = <<>> /\ calls < MaxCalls /\ c \in alive
  /\ \A u \in Threads : stack[u] # <<>> => acting[u] # c
  /\ calls' = calls + 1
  /\ acting' = [acting EXCEPT ![t] = c]

(* The death of a under its stripe lock. *)
Die(a, reason) ==
  /\ alive' = alive \ {a}
  /\ result' = [result EXCEPT ![a] = reason]
  /\ g_alive' = g_alive - 1

-----------------------------------------------------------------------------
(* Primitives *)

(* actor_finish: the fiber has returned. *)
Finish(t, a, reason) ==
  /\ Call(t, a)
  /\ Die(a, reason)
  /\ Push(t, NotifyFrame(a))
  /\ UNCHANGED <<trap, links, monitors, inbox, ghosts>>

(* prim_actor_exit: the target is alive when looked at; actor_exit_signal   *)
(* follows.                                                                 *)
Exit(t, c, a, reason) ==
  /\ Call(t, c) /\ a \in alive
  /\ Push(t, [op |-> "signal", who |-> a, reason |-> reason])
  /\ UNCHANGED <<life, trap, links, monitors, inbox, ghosts>>

(* prim_actor_link: a dead target is treated like a signal from it. *)
Link(t, c, a) ==
  /\ Call(t, c) /\ a # c
  /\ CASE a \in alive -> Push(t, [op |-> "link", who |-> a, from |-> c])
       [] a \notin alive /\ result[a] = "error" ->
            Push(t, [op |-> "signal", who |-> c, reason |-> "error"])
       [] OTHER -> UNCHANGED stack
  /\ UNCHANGED <<life, trap, links, monitors, inbox, ghosts>>

(* Mutant of LinkBoth: only the caller's array is extended. *)
LinkBothOneSided(t) ==
  LET f == Top(t) IN
  /\ In(t, "link")
  /\ links' = [links EXCEPT ![f.from] = @ \cup {f.who}]
  /\ Return(t)
  /\ UNCHANGED <<life, trap, monitors, inbox, ghosts, acting, calls>>

(* actor_link, under both stripe locks; a full array is left as it is. *)
Linked(a, b) == IF Cardinality(links[a]) < MaxLinks THEN links[a] \cup {b} ELSE links[a]
LinkBoth(t) ==
  LET f == Top(t)
      sound == /\ {f.from, f.who} \subseteq alive
               /\ f.who \in Linked(f.from, f.who) /\ f.from \in Linked(f.who, f.from)
  IN /\ In(t, "link")
     /\ links' = [links EXCEPT ![f.from] = Linked(f.from, f.who), ![f.who] = Linked(f.who, f.from)]
     /\ loose' = IF sound THEN loose ELSE loose \cup {{f.from, f.who}}
     /\ Return(t)
     /\ UNCHANGED <<life, trap, monitors, inbox, watched, trapped, acting, calls>>

Unlink(t, c, a) ==
  /\ Call(t, c) /\ a # c
  /\ links' = [links EXCEPT ![c] = @ \ {a}, ![a] = @ \ {c}]
  /\ UNCHANGED <<life, trap, monitors, inbox, ghosts, stack>>

Down(w, a) == inbox' = [inbox EXCEPT ![w][a] = @ + 1]

(* Mutant of Monitor: the target's flag is not read under its lock; the     *)
(* test was made earlier.                                                   *)
MonitorUnchecked(t, c, a) ==
  /\ Call(t, c) /\ a # c
  /\ watched' = [watched EXCEPT ![c][a] = @ + 1]
  /\ monitors' = [monitors EXCEPT ![a] = IF Len(@) < MaxMonitors THEN Append(@, c) ELSE @]
  /\ UNCHANGED <<life, trap, links, inbox, trapped, loose, stack>>

(* prim_actor_monitor with actor_add_monitor: a watcher of a dead actor     *)
(* gets its :DOWN at once; a full array is left as it is.                   *)
Monitor(t, c, a) ==
  /\ Call(t, c) /\ a # c
  /\ IF a \in alive
     THEN /\ monitors' = [monitors EXCEPT ![a] = IF Len(@) < MaxMonitors THEN Append(@, c) ELSE @]
          /\ UNCHANGED inbox
     ELSE Down(c, a) /\ UNCHANGED monitors
  /\ watched' = IF a \in alive /\ Len(monitors[a]) = MaxMonitors THEN watched
                ELSE [watched EXCEPT ![c][a] = @ + 1]
  /\ UNCHANGED <<life, trap, links, trapped, loose, stack>>

TrapExit(t, c, on) ==
  /\ Call(t, c)
  /\ trap' = IF on THEN trap \cup {c} ELSE trap \ {c}
  /\ trapped' = IF on THEN trapped \cup {c} ELSE trapped
  /\ UNCHANGED <<life, links, monitors, inbox, watched, loose, stack>>

-----------------------------------------------------------------------------
(* actor_exit_signal *)

(* The unlocked look: a dead target needs nothing, one that traps exits     *)
(* gets a message.                                                          *)
SignalEnds(t) ==
  /\ In(t, "signal")
  /\ Top(t).who \notin alive \/ Top(t).who \in trap
  /\ Return(t)
  /\ UNCHANGED <<life, trap, links, monitors, inbox, ghosts, acting, calls>>

SignalKills(t) ==
  /\ In(t, "signal")
  /\ Top(t).who \in alive \ trap
  /\ Replace(t, [Top(t) EXCEPT !.op = "kill"])
  /\ UNCHANGED <<life, trap, links, monitors, inbox, ghosts, acting, calls>>

(* Mutant of Kill: the alive flag is not tested again under the lock. *)
KillAgain(t) ==
  LET f == Top(t) IN
  /\ In(t, "kill")
  /\ Die(f.who, f.reason) /\ Replace(t, NotifyFrame(f.who))
  /\ UNCHANGED <<trap, links, monitors, inbox, ghosts, acting, calls>>

(* Under the lock: another thread may have been faster. *)
Kill(t) ==
  LET f == Top(t) IN
  /\ In(t, "kill")
  /\ IF f.who \in alive
     THEN Die(f.who, f.reason) /\ Replace(t, NotifyFrame(f.who))
     ELSE Return(t) /\ UNCHANGED life
  /\ UNCHANGED <<trap, links, monitors, inbox, ghosts, acting, calls>>

-----------------------------------------------------------------------------
(* actor_notify_exit *)

(* Copy and clear both arrays under the lock. *)
CopyLists(t) ==
  LET a == Top(t).who IN
  /\ In(t, "notify")
  /\ Replace(t, [op |-> "monitors", who |-> a, ids |-> monitors[a], linked |-> links[a]])
  /\ monitors' = [monitors EXCEPT ![a] = <<>>]
  /\ links' = [links EXCEPT ![a] = {}]
  /\ UNCHANGED <<life, trap, inbox, ghosts, acting, calls>>

NotifyMonitor(t) ==
  LET f == Top(t) IN
  /\ In(t, "monitors") /\ f.ids # <<>>
  /\ IF f.ids[1] \in alive THEN Down(f.ids[1], f.who) ELSE UNCHANGED inbox
  /\ Replace(t, [f EXCEPT !.ids = Tail(@)])
  /\ UNCHANGED <<life, trap, links, monitors, ghosts, acting, calls>>

MonitorsDone(t) ==
  /\ In(t, "monitors") /\ Top(t).ids = <<>>
  /\ Replace(t, [Top(t) EXCEPT !.op = "links"])
  /\ UNCHANGED <<life, trap, links, monitors, inbox, ghosts, acting, calls>>

(* A normal exit only sends :EXIT to actors that trap; an error signals all *)
(* that are alive.  The copied array is walked in some order.               *)
NotifyLink(t) ==
  LET f == Top(t) IN
  /\ In(t, "links") /\ f.linked # {}
  /\ \E b \in f.linked :
       LET rest == [f EXCEPT !.linked = @ \ {b}] IN
       IF b \in alive /\ result[f.who] = "error"
       THEN stack' = [stack EXCEPT ![t] = Append([@ EXCEPT ![Len(@)] = rest],
                                                 [op |-> "signal", who |-> b, reason |-> "error"])]
       ELSE Replace(t, rest)
  /\ UNCHANGED <<life, trap, links, monitors, inbox, ghosts, acting, calls>>

LinksDone(t) ==
  /\ In(t, "links") /\ Top(t).linked = {}
  /\ Return(t)
  /\ UNCHANGED <<life, trap, links, monitors, inbox, ghosts, acting, calls>>

Primitive(t) ==
  \E c \in Actors :
    \/ \E r \in Reasons : Finish(t, c, r)
    \/ \E a \in Actors : Link(t, c, a) \/ Unlink(t, c, a) \/ Monitor(t, c, a)
    \/ \E a \in Actors, r \in Reasons : Exit(t, c, a, r)
    \/ \E on \in BOOLEAN : TrapExit(t, c, on)
Propagate(t) ==
  \/ LinkBoth(t) \/ SignalEnds(t) \/ SignalKills(t) \/ Kill(t) \/ CopyLists(t)
  \/ NotifyMonitor(t) \/ MonitorsDone(t) \/ NotifyLink(t) \/ LinksDone(t)

Next == \E t \in Threads : Primitive(t) \/ Propagate(t)

Spec == Init /\ [][Next]_vars

-----------------------------------------------------------------------------
(* Every variable keeps its type. *)
TypeOK ==
  /\ alive \subseteq Actors /\ result \in [Actors -> Reasons \cup {"none"}]
  /\ trap \subseteq trapped /\ trapped \subseteq Actors /\ loose \subseteq SUBSET Actors
  /\ links \in [Actors -> SUBSET Actors]
  /\ monitors \in [Actors -> Seq(Actors)]
  /\ \A a \in Actors : Len(monitors[a]) <= MaxMonitors
  /\ g_alive \in Int /\ calls \in 0 .. MaxCalls /\ acting \in [Threads -> Actors]
  /\ inbox \in [Actors -> [Actors -> Nat]] /\ watched \in [Actors -> [Actors -> Nat]]
  /\ \A t \in Threads : \A i \in DOMAIN stack[t] :
       stack[t][i].op \in {"notify", "monitors", "links", "signal", "kill", "link"}

Quiet == \A t \in Threads : stack[t] = <<>>

(* However many threads kill the same actor, it dies once: the counter that *)
(* decides when sched_run_all may stop is the number of living actors.      *)
AliveExact == g_alive = Cardinality(alive)

(* A living actor gets exactly one :DOWN for each monitor it has set on an  *)
(* actor that is dead, whether it came before, during or after the death:   *)
(* the race that actor_add_monitor (actor.c, lines 315-318) says it closes. *)
(* Excepted are monitors set when MAX_MONITORS others were: they are        *)
(* dropped, and actor_add_monitor reports success (actor.c, lines 328-334). *)
DownExactlyOnce ==
  Quiet => \A w \in alive, a \in Actors \ alive : inbox[w][a] = watched[w][a]

(* An actor linked to one that died of an error is dead too, however the    *)
(* deaths cascade and whoever dies meanwhile, unless it traps exits         *)
(* (SPEC.md, line 720).  Nobody signals over two kinds of links: those that *)
(* prim_actor_link made although its target had died since it looked        *)
(* (primitives.c, lines 3491-3506), and those of which one of the two       *)
(* arrays had no room (actor.c, lines 268-278).                             *)
LinksPropagate ==
  Quiet => \A b \in alive \ trapped : \A a \in links[b] : result[a] = "error" => {a, b} \in loose
=============================================================================
