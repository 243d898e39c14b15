------------------------------ MODULE ActorTables ------------------------------
(* The tables an actor leaves traces in: the registry of names, the timers,  *)
(* the ETS tables and its own dictionary.  Each has a lock of its own and    *)
(* the actor's life ends under a third one, so what is cleaned up when an    *)
(* actor dies races with what others, and the dying actor itself, add.       *)
(* A behaviour follows one table, chosen by obj.table.                       *)
EXTENDS Integers, Sequences, FiniteSets, SequencesExt

CONSTANTS
  Callers,                      \* threads that register names
  TableActors,                  \* the actors; 0 stands for code outside of any actor
  EtsOwners,                    \* the actors that make ETS tables
  TableNames, TableKeys, TableValues,
  MaxRegistry, MaxTimers, MaxEtsTables, MaxEtsEntries, MaxDict, \* MAX_REGISTRY, MAX_TIMERS, ...
  MaxTicks,                     \* largest delay asked of a timer
  MaxResets,                    \* times the whole runtime is reset
  Nil

VARIABLES obj, spec

LOCAL Set(field, x) == obj' = [obj EXCEPT ![field] = x]
\* Mutant of SwapOut: the last entry is dropped instead of being moved.
SwapOutForgets(s, i) == Front(s)
\* The entry at i is overwritten by the last one: how every table removes.
SwapOut(s, i) == Front([s EXCEPT ![i] = Last(s)])

-----------------------------------------------------------------------------
(* The end of an actor: it is marked dead under its stripe lock, and then,   *)
(* without that lock, its ETS tables and its name are removed.  An actor     *)
(* killed by another thread keeps running until its quantum ends.            *)

LiveActors == [alive |-> [a \in TableActors |-> TRUE],
               runs |-> [a \in TableActors |-> TRUE],
               cleanup |-> [a \in TableActors |-> "none"]]

actor_finish(a) ==
  /\ obj.alive[a]
  /\ \E killed \in BOOLEAN :
       obj' = [obj EXCEPT !.alive[a] = FALSE, !.cleanup[a] = "ets", !.runs[a] = killed]
  /\ UNCHANGED spec

EndQuantum(a) ==
  /\ ~obj.alive[a] /\ obj.runs[a]
  /\ obj' = [obj EXCEPT !.runs[a] = FALSE]
  /\ UNCHANGED spec

-----------------------------------------------------------------------------
(* The registry: entries <<name, actor>>.  actor_registry_register takes the *)
(* registry lock for writing and then calls actor_lookup, which takes the    *)
(* same lock for reading and gives it back: that is undefined, and either    *)
(* the thread hangs with the lock, or the lock is free from there on and the *)
(* rest of the registration, up to an unlock of a lock it does not hold,     *)
(* runs beside others.  obj.adding is what each thread registers at the time; *)
(* obj.lock is "gone" when it can never be taken again, or when the stores   *)
(* of two threads got mixed: such a state is the end of a behaviour.         *)

RegistryInit ==
  /\ obj = [table |-> "registry", entries |-> << >>, adding |-> [c \in Callers |-> Nil],
            lock |-> "free"] @@ LiveActors
  /\ spec = [rows |-> << >>, crossed |-> {}, late |-> {}]

actor_registry_lookup(entries, n) ==
  LET i == SelectInSeq(entries, LAMBDA e : e[1] = n)
  IN IF i = 0 THEN Nil ELSE entries[i][2]

Idle(c) == [obj EXCEPT !.adding[c] = Nil]
\* Either outcome of taking the lock twice, and of giving back a lock not held.
Unlocked(o) == obj' \in {o, [o EXCEPT !.lock = "gone"]}

\* Refused with -3 when full, and with -4 when the actor is dead.
RegisterTest(c, n, a) ==
  /\ obj.adding[c] = Nil
  /\ Len(obj.entries) < MaxRegistry
  /\ LET begun == [entry |-> <<n, a>>, at |-> "scan", crossed |-> FALSE, late |-> FALSE]
     IN  Unlocked(IF obj.alive[a] THEN [obj EXCEPT !.adding[c] = begun] ELSE obj)
  /\ UNCHANGED spec

Alike(e, f) == e[1] = f[1] \/ e[2] = f[2]

\* -1, the name is taken, and -2, the actor has a name.
RegisterScan(c) ==
  /\ obj.adding[c] # Nil /\ obj.adding[c].at = "scan"
  /\ IF \E i \in DOMAIN obj.entries : Alike(obj.entries[i], obj.adding[c].entry)
     THEN Unlocked(Idle(c)) ELSE obj' = [obj EXCEPT !.adding[c].at = "append"]
  /\ UNCHANGED spec

\* An append beyond the array, or at the same time as another's, is undefined.
actor_registry_register(c) ==
  LET r == obj.adding[c]
      others(d) == d # c /\ obj.adding[d] # Nil /\ obj.adding[d].at = "append"
      twins == {e \in ToSet(obj.entries) : Alike(e, r.entry)}
  IN  /\ r # Nil /\ r.at = "append"
      /\ IF Len(obj.entries) >= MaxRegistry
         THEN obj' = [obj EXCEPT !.lock = "gone", !.adding[c] = Nil] /\ UNCHANGED spec
         ELSE /\ Unlocked([obj EXCEPT
                   !.entries = Append(@, r.entry),
                   !.adding = [d \in Callers |-> IF d = c THEN Nil
                                                 ELSE IF others(d) THEN [@[d] EXCEPT !.crossed = TRUE] ELSE @[d]]])
              /\ spec' = [rows |-> Append(spec.rows, r.entry),
                          crossed |-> IF r.crossed /\ twins # {} THEN spec.crossed \cup twins \cup {r.entry}
                                      ELSE spec.crossed,
                          late |-> IF r.late THEN spec.late \cup {r.entry} ELSE spec.late]

RemoveEntry(Test(_)) ==
  LET i == SelectInSeq(obj.entries, Test)
  IN  IF i = 0 THEN obj.entries ELSE SwapOut(obj.entries, i)

actor_registry_unregister_name(n) ==
  /\ Set("entries", RemoveEntry(LAMBDA e : e[1] = n))
  /\ spec' = [spec EXCEPT !.rows = SelectSeq(@, LAMBDA e : e[1] # n)]

actor_registry_unregister_actor(a) ==
  /\ obj.cleanup[a] = "registry"
  /\ obj' = [obj EXCEPT !.entries = RemoveEntry(LAMBDA e : e[2] = a), !.cleanup[a] = "done",
                        !.adding = [c \in Callers |-> IF @[c] # Nil /\ @[c].entry[2] = a
                                                      THEN [@[c] EXCEPT !.late = TRUE] ELSE @[c]]]
  /\ spec' = [spec EXCEPT !.rows = SelectSeq(@, LAMBDA e : e[2] # a)]

actor_registry_list(entries) == {entries[i][1] : i \in DOMAIN entries}

\* A name denotes one actor and an actor has one name, unless another entry was
\* appended between the scan and the append of the registration; no entry stays
\* behind the clean-up after its actor's death, unless the clean-up came between
\* the test that the actor lives and the append.  Names that were in no such
\* collision are found and listed as they were registered and removed.
RegistrySound ==
  LET collided == {e[1] : e \in spec.crossed}
  IN  /\ \A i, j \in DOMAIN obj.entries :
           i # j /\ Alike(obj.entries[i], obj.entries[j]) => {obj.entries[i], obj.entries[j]} \subseteq spec.crossed
      /\ \A i \in DOMAIN obj.entries :
           obj.cleanup[obj.entries[i][2]] = "done" => obj.entries[i] \in spec.late \cup spec.crossed
      /\ actor_registry_list(obj.entries) \ collided = actor_registry_list(spec.rows) \ collided
      /\ \A n \in TableNames \ collided :
           actor_registry_lookup(obj.entries, n) = actor_registry_lookup(spec.rows, n)

-----------------------------------------------------------------------------
(* ETS tables.  A slot of the table array is never used again: names of      *)
(* deleted tables are free, their slots are not.  spec is what the tables    *)
(* contain; late marks a table made by an actor that was already dead.       *)

EtsInit ==
  /\ obj = [table |-> "ets", slots |-> << >>] @@ LiveActors
  /\ spec = [n \in {} |-> << >>]

ets_find(n) == SelectInSeq(obj.slots, LAMBDA t : t.active /\ t.name = n)
RowOf(t, k) == SelectInSeq(t.rows, LAMBDA r : r[1] = k)
ets_destroy_table(t) == [t EXCEPT !.active = FALSE, !.rows = << >>]

ets_create(n, owner) ==
  /\ owner # 0 => obj.runs[owner]
  /\ ets_find(n) = 0
  /\ Len(obj.slots) < MaxEtsTables
  /\ Set("slots", Append(obj.slots, [name |-> n, owner |-> owner, active |-> TRUE, rows |-> << >>,
                                     late |-> owner # 0 /\ ~obj.alive[owner]]))
  /\ spec' = (n :> << >>) @@ spec

ets_insert(n, k, v) ==
  LET t == ets_find(n)
      r == RowOf(obj.slots[t], k)
  IN  /\ t # 0
      /\ r # 0 \/ Len(obj.slots[t].rows) < MaxEtsEntries
      /\ obj' = [obj EXCEPT !.slots[t].rows = IF r # 0 THEN [@ EXCEPT ![r] = <<k, v>>]
                                              ELSE Append(@, <<k, v>>)]
      /\ spec' = [spec EXCEPT ![n] = (k :> v) @@ @]

ets_lookup(n, k) ==
  LET t == ets_find(n)
      r == RowOf(obj.slots[t], k)
  IN  IF t = 0 THEN "ets-table-not-found" ELSE IF r = 0 THEN Nil ELSE obj.slots[t].rows[r][2]

ets_delete_key(n, k) ==
  LET t == ets_find(n)
      r == RowOf(obj.slots[t], k)
  IN  /\ t # 0 /\ r # 0
      /\ obj' = [obj EXCEPT !.slots[t].rows = SwapOut(@, r)]
      /\ spec' = [spec EXCEPT ![n] = [x \in DOMAIN @ \ {k} |-> @[x]]]

ets_delete_table(n) ==
  LET t == ets_find(n)
  IN  /\ t # 0
      /\ obj' = [obj EXCEPT !.slots[t] = ets_destroy_table(@)]
      /\ spec' = [x \in DOMAIN spec \ {n} |-> spec[x]]

ets_size(n) == IF ets_find(n) = 0 THEN -1 ELSE Len(obj.slots[ets_find(n)].rows)

ets_destroy_by_owner(a) ==
  LET mine(t) == t.active /\ t.owner = a
      gone == {n \in DOMAIN spec : mine(obj.slots[ets_find(n)])}
  IN  /\ obj.cleanup[a] = "ets"
      /\ IF obj.table = "ets"
         THEN /\ obj' = [obj EXCEPT !.cleanup[a] = "registry",
                                    !.slots = [i \in DOMAIN @ |-> IF mine(@[i]) THEN ets_destroy_table(@[i])
                                                                  ELSE @[i]]]
              /\ spec' = [x \in DOMAIN spec \ gone |-> spec[x]]
         ELSE obj' = [obj EXCEPT !.cleanup[a] = "registry"] /\ UNCHANGED spec

\* Tables answer like one function per name, and a table outlives its owner
\* only when the owner, killed while it was running on another thread, made it
\* after its own tables had been destroyed: nothing removes those.
EtsSound ==
  /\ \A n \in TableNames, k \in TableKeys :
       ets_lookup(n, k) = IF n \notin DOMAIN spec THEN "ets-table-not-found"
                          ELSE IF k \in DOMAIN spec[n] THEN spec[n][k] ELSE Nil
  /\ \A n \in DOMAIN spec : ets_size(n) = Cardinality(DOMAIN spec[n])
  /\ \A i \in DOMAIN obj.slots :
       LET t == obj.slots[i]
       IN  t.active /\ t.owner # 0 /\ ~t.late => obj.cleanup[t.owner] \in {"none", "ets"}

-----------------------------------------------------------------------------
(* Timers.  An expired timer is one that meets a tick with no ticks left.    *)
(* spec counts, for each timer, the ticks it met and the messages sent.      *)

TimersInit ==
  /\ obj = [table |-> "timers", slots |-> << >>, next |-> 1, resets |-> 0] @@ LiveActors
  /\ spec = << >>

prim_timer_send_after(a, ticks) ==
  /\ Len(obj.slots) < MaxTimers
  /\ obj' = [obj EXCEPT !.slots = Append(@, [id |-> obj.next, target |-> a, left |-> ticks, active |-> TRUE]),
                        !.next = @ + 1]
  /\ spec' = Append(spec, [asked |-> ticks, met |-> 0, sent |-> 0, cancelled |-> FALSE, dead |-> FALSE])

timer_cancel(id) ==
  LET i == SelectInSeq(obj.slots, LAMBDA t : t.id = id /\ t.active)
  IN  /\ i # 0
      /\ obj' = [obj EXCEPT !.slots[i].active = FALSE]
      /\ spec' = [spec EXCEPT ![id].cancelled = TRUE]

timer_active(id) == \E i \in DOMAIN obj.slots : obj.slots[i].id = id /\ obj.slots[i].active
timer_any_pending == \E i \in DOMAIN obj.slots : obj.slots[i].active

\* Whether an active timer expires at this tick.
Expires(t) == t.active /\ t.left = 0

timer_tick_all ==
  /\ timer_any_pending
  /\ obj' = [obj EXCEPT !.slots = [i \in DOMAIN @ |->
                          IF Expires(@[i]) THEN [@[i] EXCEPT !.active = FALSE]
                          ELSE IF @[i].active THEN [@[i] EXCEPT !.left = @ - 1] ELSE @[i]]]
  /\ spec' = [i \in DOMAIN spec |->
       LET t == obj.slots[i]
       IN  [spec[i] EXCEPT !.met = @ + (IF t.active THEN 1 ELSE 0),
                           !.sent = @ + (IF Expires(t) /\ obj.alive[t.target] THEN 1 ELSE 0),
                           !.dead = @ \/ (Expires(t) /\ ~obj.alive[t.target])]]

\* actor_reset_all: ids start again at 1, so an id kept over a reset names a
\* timer of the new generation.
timer_reset_all ==
  /\ obj.resets < MaxResets
  /\ obj' = [obj EXCEPT !.slots = << >>, !.next = 1, !.resets = @ + 1]
  /\ spec' = << >>

\* A timer sends its message once, with the tick after the ones it was asked to
\* wait for, unless it was cancelled before that or its target had died.
TimersSound ==
  \A i \in DOMAIN spec :
    LET t == spec[i]
    IN  /\ t.sent <= 1
        /\ t.sent = 1 => t.met = t.asked + 1 /\ ~t.cancelled /\ ~timer_active(i)
        /\ t.met > t.asked => t.sent = 1 \/ t.dead
        /\ ~t.cancelled /\ t.met <= t.asked => timer_active(i)

-----------------------------------------------------------------------------
(* The dictionary of one actor, touched by that actor alone. *)

DictInit ==
  /\ obj = [table |-> "dict", rows |-> << >>]
  /\ spec = [k \in {} |-> Nil]

prim_proc_dict_put(k, v) ==
  LET r == RowOf(obj, k)
  IN  /\ r # 0 \/ Len(obj.rows) < MaxDict
      /\ Set("rows", IF r # 0 THEN [obj.rows EXCEPT ![r] = <<k, v>>] ELSE Append(obj.rows, <<k, v>>))
      /\ spec' = (k :> v) @@ spec

prim_proc_dict_get(k) ==
  LET r == RowOf(obj, k)
  IN  IF r = 0 THEN Nil ELSE obj.rows[r][2]

prim_proc_dict_erase(k) ==
  LET r == RowOf(obj, k)
  IN  /\ r # 0
      /\ Set("rows", SwapOut(obj.rows, r))
      /\ spec' = [x \in DOMAIN spec \ {k} |-> spec[x]]

prim_proc_dict_all == {obj.rows[i] : i \in DOMAIN obj.rows}

\* The dictionary is the function of the pairs put and not erased.
DictSound ==
  /\ Len(obj.rows) = Cardinality(DOMAIN spec)
  /\ \A k \in TableKeys : prim_proc_dict_get(k) = IF k \in DOMAIN spec THEN spec[k] ELSE Nil
  /\ prim_proc_dict_all = {<<k, spec[k]>> : k \in DOMAIN spec}

-----------------------------------------------------------------------------

Init == RegistryInit \/ EtsInit \/ TimersInit \/ DictInit

Deaths(A) == \E a \in A : actor_finish(a) \/ EndQuantum(a) \/ ets_destroy_by_owner(a)

RegistryNext ==
  /\ obj.lock = "free"
  /\ \/ Deaths(TableActors)
     \/ \E a \in TableActors : actor_registry_unregister_actor(a)
     \/ \E n \in TableNames : actor_registry_unregister_name(n)
     \/ \E c \in Callers : \/ RegisterScan(c) \/ actor_registry_register(c)
                           \/ \E n \in TableNames, a \in TableActors : RegisterTest(c, n, a)

EtsNext ==
  \/ Deaths(EtsOwners)
  \/ \E n \in TableNames :
       \/ \E a \in EtsOwners \cup {0} : ets_create(n, a)
       \/ ets_delete_table(n)
       \/ \E k \in TableKeys : ets_delete_key(n, k) \/ \E v \in TableValues : ets_insert(n, k, v)

TimersNext ==
  \/ timer_tick_all \/ timer_reset_all
  \/ \E a \in TableActors : actor_finish(a) \/ \E t \in 0..MaxTicks : prim_timer_send_after(a, t)
  \/ \E id \in 1..MaxTimers : timer_cancel(id)

DictNext ==
  \E k \in TableKeys : prim_proc_dict_erase(k) \/ \E v \in TableValues : prim_proc_dict_put(k, v)

Next ==
  \/ obj.table = "registry" /\ RegistryNext
  \/ obj.table = "ets" /\ EtsNext
  \/ obj.table = "timers" /\ TimersNext
  \/ obj.table = "dict" /\ DictNext

TablesSound ==
  CASE obj.table = "registry" -> RegistrySound
    [] obj.table = "ets" -> EtsSound
    [] obj.table = "timers" -> TimersSound
    [] obj.table = "dict" -> DictSound
=============================================================================
